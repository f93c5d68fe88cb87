---------------------------- MODULE StringTable ----------------------------
(***************************************************************************)
(* StringTable (src/sampler.rs): strings are interned while the rows of a  *)
(* thread's profile are written, and written themselves at the end.  The   *)
(* strings are numbered from 0, in the order they come.                    *)
(***************************************************************************)
EXTENDS Naturals, SequencesExt

NewStringTable == [strings |-> <<>>, string_to_index |-> <<>>]

\* A faulty variant: the index is taken when the string is already pushed.
GetIndexOffByOne(table, string) ==
  IF string \in DOMAIN table.string_to_index
  THEN [table |-> table, index |-> table.string_to_index[string]]
  ELSE LET index == Len(table.strings) + 1
           indices == [s \in DOMAIN table.string_to_index \cup {string} |->
                         IF s = string THEN index ELSE table.string_to_index[s]]
       IN [table |-> [strings |-> Append(table.strings, string), string_to_index |-> indices],
           index |-> index]

\* get_index and take_string: the table after the call, and the index.
GetIndex(table, string) ==
  IF string \in DOMAIN table.string_to_index
  THEN [table |-> table, index |-> table.string_to_index[string]]
  ELSE LET index == Len(table.strings)
           indices == [s \in DOMAIN table.string_to_index \cup {string} |->
                         IF s = string THEN index ELSE table.string_to_index[s]]
       IN [table |-> [strings |-> Append(table.strings, string), string_to_index |-> indices],
           index |-> index]

\* from_json: the table with these strings.
FromJson(strings) ==
  LET table[n \in 0 .. Len(strings)] ==
        IF n = 0 THEN NewStringTable ELSE GetIndex(table[n - 1], strings[n]).table
  IN  table[Len(strings)]
=============================================================================
