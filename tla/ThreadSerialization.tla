------------------------ MODULE ThreadSerialization ------------------------
(***************************************************************************)
(* The buffer thread's data, with its clock, and what serialize_buffer     *)
(* makes of it: one JSON object per thread, whose rows refer to a string   *)
(* table of its own (src/buffer_thread.rs, src/markers.rs,                 *)
(* src/sampler.rs).                                                        *)
(*                                                                         *)
(* Markers are StaticStringMarkers, here their strings.  Samples are       *)
(* stacks of a single frame, here its address as a string: their stack     *)
(* table has one entry per address.  Module StackTable has deeper stacks,  *)
(* null frames, and the panic of a first sample without any other.         *)
(***************************************************************************)
EXTENDS TimeExpiringBuffer, StringTable

CONSTANTS
  Threads,
  Names,          \* the strings of markers
  Addresses,      \* the addresses of frames, as strings
  EntryLifetime,  \* entry_lifetime, in ticks
  TicksPerMs,     \* ticks of the clock in a millisecond
  MaxNow,         \* bound: ticks
  MaxMarkers,     \* bound: markers in the buffer
  MaxSamples,     \* bound: samples in the buffer
  MaxInfos        \* bound: threads in core_info

ASSUME SerializationBounds ==
  /\ {EntryLifetime, MaxNow, MaxMarkers, MaxSamples, MaxInfos} \subseteq Nat
  /\ TicksPerMs \in Nat \ {0}

VARIABLES
  now,            \* the clock
  markers,        \* BufferThread::markers
  samples,        \* BufferThread::samples
  cleared,        \* history: the last message was ClearExpiredMarkers
  infos,          \* the tids of core_info.thread_infos that are still to be written
  section,        \* the part of a thread's JSON at hand
  string_table,
  rows,           \* of its markers, <<name, time>>, samples, <<stack, time>>, and frames
  threads         \* the threads of the JSON so far

data == <<now, markers, samples, cleared>>
serializing == <<infos, section, string_table, rows, threads>>
vars == <<data, serializing>>

Strings == Names \cup Addresses

Rows == [markers : Seq(Nat \X Nat), samples : Seq(Nat \X Nat), frames : Seq(Nat)]
NoRows == [markers |-> <<>>, samples |-> <<>>, frames |-> <<>>]

\* Rows refer to strings and stacks that are there.
StringsInRange(written, strings) ==
  /\ \A i \in DOMAIN written.markers : written.markers[i][1] < Len(strings)
  /\ \A i \in DOMAIN written.frames : written.frames[i] < Len(strings)

StacksInRange(written) ==
  \A i \in DOMAIN written.samples : written.samples[i][1] < Len(written.frames)

TypeOK ==
  /\ now \in 0 .. MaxNow
  /\ markers \in Seq(BufferEntry(Threads, Names))
  /\ samples \in Seq(BufferEntry(Threads, Addresses))
  /\ cleared \in BOOLEAN
  /\ infos \in Seq(Threads)
  /\ section \in {"receiving", "markers", "samples", "frames", "strings", "done"}
  /\ section \in {"receiving", "done"} <=> infos = <<>>
  /\ string_table.strings \in Seq(Strings)
  /\ string_table.string_to_index
       \in [ToSet(string_table.strings) -> 0 .. Len(string_table.strings) - 1]
  /\ rows \in Rows
  /\ StringsInRange(rows, string_table.strings)
  /\ threads \in Seq([tid : Threads, rows : Rows, strings : Seq(Strings)])
  /\ \A i \in DOMAIN threads : /\ StringsInRange(threads[i].rows, threads[i].strings)
                               /\ StacksInRange(threads[i].rows)

Init ==
  /\ now = 0
  /\ markers = <<>>
  /\ samples = <<>>
  /\ cleared = FALSE
  /\ infos = <<>>
  /\ section = "receiving"
  /\ string_table = NewStringTable
  /\ rows = NoRows
  /\ threads = <<>>

-----------------------------------------------------------------------------
(* The buffer thread's messages.                                           *)

Receiving == section = "receiving"

\* Time passes during a serialization as well, but nothing reads the clock then.
ClockTicks ==
  /\ Receiving
  /\ now < MaxNow
  /\ now' = now + 1
  /\ cleared' = FALSE
  /\ UNCHANGED <<markers, samples, serializing>>

AddMarker(tid, name) ==
  /\ Receiving
  /\ Len(markers) < MaxMarkers
  /\ markers' = PushBackAt(markers, name, now, tid)
  /\ cleared' = FALSE
  /\ UNCHANGED <<now, samples, serializing>>

AddSample(tid, address) ==
  /\ Receiving
  /\ Len(samples) < MaxSamples
  /\ samples' = PushBackAt(samples, address, now, tid)
  /\ cleared' = FALSE
  /\ UNCHANGED <<now, markers, serializing>>

\* Only the markers: no message expires samples.
ClearExpiredMarkers ==
  /\ Receiving
  /\ markers' = RemoveExpired(markers, now, EntryLifetime)
  /\ cleared' = TRUE
  /\ UNCHANGED <<now, samples, serializing>>

-----------------------------------------------------------------------------
(* serialize_buffer.                                                       *)

\* A faulty variant: the threads of a profile share their string table.
BeginThreadWithSameTable(tids) ==
  /\ infos' = tids
  /\ section' = IF tids = <<>> THEN "done" ELSE "markers"
  /\ rows' = NoRows
  /\ UNCHANGED string_table

\* The next thread, if there is one, gets a string table and rows of its own.
BeginThread(tids) ==
  /\ infos' = tids
  /\ section' = IF tids = <<>> THEN "done" ELSE "markers"
  /\ rows' = NoRows
  /\ string_table' = NewStringTable

\* core_info names the threads as they registered, some of them maybe twice.
SerializeBuffer(tids) ==
  /\ Receiving
  /\ BeginThread(tids)
  /\ cleared' = FALSE
  /\ UNCHANGED <<now, markers, samples, threads>>

Millis(time) == time \div TicksPerMs

\* StaticStringMarker::serialize for the next marker of the thread.
SerializeMarker ==
  LET entries == IterThread(markers, Head(infos)) IN
  /\ section = "markers"
  /\ IF Len(rows.markers) < Len(entries)
     THEN LET entry == entries[Len(rows.markers) + 1]
              name == GetIndex(string_table, entry.value)
          IN /\ string_table' = name.table
             /\ rows' = [rows EXCEPT !.markers =
                           Append(@, <<name.index, Millis(entry.created_at)>>)]
             /\ UNCHANGED section
     ELSE section' = "samples" /\ UNCHANGED <<string_table, rows>>
  /\ UNCHANGED <<data, infos, threads>>

\* SamplesSerializer::new: the stack table, and the stack of each of the thread's samples.
StackTable(entries) ==
  LET stacks[n \in 0 .. Len(entries)] ==
        IF n = 0 THEN <<>>
        ELSE IF Contains(stacks[n - 1], entries[n].value) THEN stacks[n - 1]
        ELSE Append(stacks[n - 1], entries[n].value)
  IN  stacks[Len(entries)]

EntryToStackTable(entries) ==
  LET stacks == StackTable(entries)
  IN  [i \in DOMAIN entries |->
         CHOOSE n \in 0 .. Len(stacks) - 1 : stacks[n + 1] = entries[i].value]

\* serialize_samples.
SerializeSamples ==
  LET entries == IterThread(samples, Head(infos)) IN
  /\ section = "samples"
  /\ rows' = [rows EXCEPT !.samples =
       [i \in DOMAIN entries |->
          <<EntryToStackTable(entries)[i], Millis(entries[i].created_at)>>]]
  /\ section' = "frames"
  /\ UNCHANGED <<data, infos, string_table, threads>>

\* serialize_frame_table: the next stack of the stack table.
SerializeFrame ==
  LET stacks == StackTable(IterThread(samples, Head(infos))) IN
  /\ section = "frames"
  /\ IF Len(rows.frames) < Len(stacks)
     THEN LET location == GetIndex(string_table, stacks[Len(rows.frames) + 1])
          IN /\ string_table' = location.table
             /\ rows' = [rows EXCEPT !.frames = Append(@, location.index)]
             /\ UNCHANGED section
     ELSE section' = "strings" /\ UNCHANGED <<string_table, rows>>
  /\ UNCHANGED <<data, infos, threads>>

\* The strings are written last, and the thread is done.
FinishThread ==
  /\ section = "strings"
  /\ threads' = Append(threads, [tid |-> Head(infos), rows |-> rows,
                                 strings |-> string_table.strings])
  /\ BeginThread(Tail(infos))
  /\ UNCHANGED data

\* The JSON goes to the core.
SendJson ==
  /\ section = "done"
  /\ section' = "receiving"
  /\ threads' = <<>>
  /\ UNCHANGED <<data, infos, string_table, rows>>

Next ==
  \/ ClockTicks
  \/ \E tid \in Threads, name \in Names : AddMarker(tid, name)
  \/ \E tid \in Threads, address \in Addresses : AddSample(tid, address)
  \/ ClearExpiredMarkers
  \/ \E tids \in BoundedSeq(Threads, MaxInfos) : SerializeBuffer(tids)
  \/ SerializeMarker
  \/ SerializeSamples
  \/ SerializeFrame
  \/ FinishThread
  \/ SendJson

Spec == Init /\ [][Next]_vars

-----------------------------------------------------------------------------

\* Expiry stops at the first entry that is fresh, which is right because no entry
\* is older than the one before it: what goes is exactly what is older than the
\* lifetime, wherever it is in the buffer, and expiry does not reorder the rest.  An
\* expiry that takes nothing, which cleared gives away, finds nothing expired; and
\* nothing else takes markers.
RemovesExactlyExpired ==
  [][LET gone == Len(markers) - Len(markers') IN
     (cleared' /\ ~cleared) \/ gone > 0 =>
       /\ markers' = SubSeq(markers, gone + 1, Len(markers))
       /\ \A i \in DOMAIN markers :
            i <= gone <=> now - markers[i].created_at > EntryLifetime]_vars

\* What a reader makes of a thread's JSON by way of its string table.
ReadMarkers(json) ==
  [i \in DOMAIN json.rows.markers |->
     LET row == json.rows.markers[i] IN <<json.strings[row[1] + 1], row[2]>>]

ReadSamples(json) ==
  [i \in DOMAIN json.rows.samples |->
     LET row == json.rows.samples[i] IN <<json.strings[json.rows.frames[row[1] + 1] + 1], row[2]>>]

\* What was put into the buffer for the thread, and when.
Recorded(buffer, tid) ==
  LET own[n \in 0 .. Len(buffer)] ==
        IF n = 0 THEN <<>>
        ELSE IF buffer[n].tid = tid
        THEN Append(own[n - 1], <<buffer[n].value, Millis(buffer[n].created_at)>>)
        ELSE own[n - 1]
  IN  own[Len(buffer)]

\* Until the JSON is sent: the JSON of each thread reads back as the thread's own
\* markers and samples, in order, each with its string and the millisecond it came in,
\* although the rows are written before the strings and both kinds share one table.
ReadsBack ==
  \A i \in DOMAIN threads :
    /\ ReadMarkers(threads[i]) = Recorded(markers, threads[i].tid)
    /\ ReadSamples(threads[i]) = Recorded(samples, threads[i].tid)

\* The string table of a thread is in sync with its index, holds the strings of this
\* thread and no other, each once, and can be rebuilt from its JSON.
StringTableExact ==
  /\ string_table = FromJson(string_table.strings)
  /\ \A i \in DOMAIN threads :
       LET json == threads[i] IN
       /\ IsInjective(json.strings)
       /\ \A n \in DOMAIN json.strings :
            \/ \E m \in DOMAIN json.rows.markers : json.rows.markers[m][1] = n - 1
            \/ \E f \in DOMAIN json.rows.frames : json.rows.frames[f] = n - 1
=============================================================================
