------------------------------ MODULE StackTable ------------------------------
(***************************************************************************)
(* SamplesSerializer::new (src/sampler.rs): the samples of one thread,     *)
(* leaf first, become a table of stacks, each an instruction pointer and   *)
(* the index of its prefix (its caller's stack), and one table index per   *)
(* sample.                                                                 *)
(*                                                                         *)
(* Positions count from 1 here, and 0 is None: stack_index = 0 is the None *)
(* of the first sample, prefix = 0 the None of a root.  The samples are    *)
(* drawn one by one, as the loop over buffer.iter_thread(tid) comes to     *)
(* them; the unused tail of instruction_ptrs, which is all null, is cut,   *)
(* but a null instruction pointer that was recorded stays, the leaf's too. *)
(***************************************************************************)
EXTENDS Naturals, Sequences

CONSTANTS
  Addresses,    \* instruction pointers other than null
  Null,         \* the null pointer
  MaxFrames,    \* MAX_NATIVE_FRAMES
  MaxSamples    \* bound: samples in the buffer

ASSUME NullIsNoAddress == Null \notin Addresses
ASSUME StackTableBounds == MaxFrames \in Nat \ {0} /\ MaxSamples \in Nat

VARIABLES
  samples,                      \* the native stacks, leaf first
  frame,                        \* the frame at hand: from Len down to 1
  stack_table,
  stack_index,
  last_matching_stack_index,
  buffer_entry_to_stack_table,  \* one position of stack_table per sample done
  panicked                      \* the unwrap of stack_index did

vars == <<samples, frame, stack_table, stack_index, last_matching_stack_index,
          buffer_entry_to_stack_table, panicked>>

\* The stack walk always records a leaf, but no instruction pointer is looked at: the
\* leaf's is the rip register, the others are whatever words the frame pointers lead to.
NativeStacks == UNION {[1 .. n -> Addresses \cup {Null}] : n \in 1 .. MaxFrames}

StackForSerialization == [prefix : Nat, instruction_ptr : Addresses]

TypeOK ==
  /\ samples \in Seq(NativeStacks)
  /\ frame \in 0 .. MaxFrames
  /\ stack_table \in Seq(StackForSerialization)
  /\ stack_index \in 0 .. Len(stack_table) + 1
  /\ last_matching_stack_index \in 0 .. Len(stack_table)
  /\ buffer_entry_to_stack_table \in Seq(DOMAIN stack_table)
  /\ panicked \in BOOLEAN

Init ==
  /\ samples = <<>>
  /\ frame = 0
  /\ stack_table = <<>>
  /\ stack_index = 0
  /\ last_matching_stack_index = 0
  /\ buffer_entry_to_stack_table = <<>>
  /\ panicked = FALSE

-----------------------------------------------------------------------------

Working == frame > 0

ThisSample == samples[Len(samples)]

InstructionPtr == ThisSample[frame]

NextFrame == frame' = frame - 1

\* stack_table.get(stack_index) is Some.
HasStack == stack_index \in DOMAIN stack_table

\* The loop over the frames of the sample at hand is over.
Searched == frame = 0 /\ Len(buffer_entry_to_stack_table) < Len(samples)

-----------------------------------------------------------------------------
(* Faulty variants of the steps below.                                     *)

\* last_matching_stack_index is updated before it is used.
PushStackOntoItself ==
  /\ Working
  /\ InstructionPtr # Null
  /\ ~HasStack
  /\ stack_index' = Len(stack_table) + 1
  /\ last_matching_stack_index' = stack_index'
  /\ stack_table' = Append(stack_table, [prefix |-> stack_index',
                                         instruction_ptr |-> InstructionPtr])
  /\ NextFrame
  /\ UNCHANGED <<samples, buffer_entry_to_stack_table, panicked>>

\* stack_index is the length after the push, and not the index of the entry.
PushStackOffByOne ==
  /\ Working
  /\ InstructionPtr # Null
  /\ ~HasStack
  /\ stack_table' = Append(stack_table, [prefix |-> last_matching_stack_index,
                                         instruction_ptr |-> InstructionPtr])
  /\ stack_index' = Len(stack_table) + 2
  /\ last_matching_stack_index' = stack_index'
  /\ NextFrame
  /\ UNCHANGED <<samples, buffer_entry_to_stack_table, panicked>>

\* A match is not remembered as the prefix of what follows.
MatchWithoutPrefix ==
  /\ Working
  /\ InstructionPtr # Null
  /\ HasStack
  /\ stack_table[stack_index].instruction_ptr = InstructionPtr
  /\ NextFrame
  /\ UNCHANGED <<samples, stack_table, stack_index, last_matching_stack_index,
                 buffer_entry_to_stack_table, panicked>>

\* The search goes on from where the last sample ended.
FinishWithoutReset ==
  /\ Searched
  /\ stack_index # 0
  /\ buffer_entry_to_stack_table' = Append(buffer_entry_to_stack_table, stack_index)
  /\ UNCHANGED <<samples, frame, stack_table, stack_index, last_matching_stack_index,
                 panicked>>

\* The sample is given the newest stack of the table.
FinishWithNewestStack ==
  /\ Searched
  /\ stack_index # 0
  /\ buffer_entry_to_stack_table' = Append(buffer_entry_to_stack_table, Len(stack_table))
  /\ stack_index' = 1
  /\ UNCHANGED <<samples, frame, stack_table, last_matching_stack_index, panicked>>

-----------------------------------------------------------------------------

\* The for loop comes to the next sample in the buffer.
NextSample ==
  /\ frame = 0
  /\ Len(buffer_entry_to_stack_table) = Len(samples)
  /\ Len(samples) < MaxSamples
  /\ \E s \in NativeStacks :
       /\ samples' = Append(samples, s)
       /\ frame' = Len(s)
  /\ last_matching_stack_index' = 0
  /\ UNCHANGED <<stack_table, stack_index, buffer_entry_to_stack_table, panicked>>

SkipNull ==
  /\ Working
  /\ InstructionPtr = Null
  /\ NextFrame
  /\ UNCHANGED <<samples, stack_table, stack_index, last_matching_stack_index,
                 buffer_entry_to_stack_table, panicked>>

\* "We've found the correct stack."
MatchStack ==
  /\ Working
  /\ InstructionPtr # Null
  /\ HasStack
  /\ stack_table[stack_index].instruction_ptr = InstructionPtr
  /\ last_matching_stack_index' = stack_index
  /\ NextFrame
  /\ UNCHANGED <<samples, stack_table, stack_index, buffer_entry_to_stack_table, panicked>>

TryNextStack ==
  /\ Working
  /\ InstructionPtr # Null
  /\ HasStack
  /\ stack_table[stack_index].instruction_ptr # InstructionPtr
  /\ stack_index' = stack_index + 1
  /\ UNCHANGED <<samples, frame, stack_table, last_matching_stack_index,
                 buffer_entry_to_stack_table, panicked>>

\* The end of the stack table: add an entry.
PushStack ==
  /\ Working
  /\ InstructionPtr # Null
  /\ ~HasStack
  /\ stack_table' = Append(stack_table, [prefix |-> last_matching_stack_index,
                                         instruction_ptr |-> InstructionPtr])
  /\ stack_index' = Len(stack_table) + 1
  /\ last_matching_stack_index' = stack_index'
  /\ NextFrame
  /\ UNCHANGED <<samples, buffer_entry_to_stack_table, panicked>>

\* stack_index.unwrap() is an index; then the reset for the next sample.
FinishSample ==
  /\ Searched
  /\ stack_index # 0
  /\ buffer_entry_to_stack_table' = Append(buffer_entry_to_stack_table, stack_index)
  /\ stack_index' = 1
  /\ UNCHANGED <<samples, frame, stack_table, last_matching_stack_index, panicked>>

\* stack_index is None: the unwrap panics, and the buffer thread with it.
UnwrapNone ==
  /\ Searched
  /\ stack_index = 0
  /\ ~panicked
  /\ panicked' = TRUE
  /\ UNCHANGED <<samples, frame, stack_table, stack_index, last_matching_stack_index,
                 buffer_entry_to_stack_table>>

Next ==
  \/ NextSample
  \/ SkipNull
  \/ MatchStack
  \/ TryNextStack
  \/ PushStack
  \/ FinishSample
  \/ UnwrapNone

Spec == Init /\ [][Next]_vars

-----------------------------------------------------------------------------

Done == DOMAIN buffer_entry_to_stack_table

\* The table is "well ordered, in that a leaf stack will always be after a root
\* stack": following prefixes always ends at a root.
WellOrdered ==
  \A i \in DOMAIN stack_table : stack_table[i].prefix < i

\* No stack is in the table twice, under the same caller.
Deduplicated ==
  \A i, j \in DOMAIN stack_table : stack_table[i] = stack_table[j] => i = j

\* A sample's frames from each position on, without the null ones.
FramesFrom(s) ==
  LET from[i \in 1 .. Len(s) + 1] ==
        IF i > Len(s) THEN <<>>
        ELSE IF s[i] = Null THEN from[i + 1]
        ELSE <<s[i]>> \o from[i + 1]
  IN  from

Frames(s) == FramesFrom(s)[1]

\* The unwrap panics on a first sample whose frames are all null, and on no other.
\* Every other sample's stack is there, and it ends in the sample's leaf-most frame
\* that is not null; a later sample without any passes for the first root.
LeafResolved ==
  /\ panicked => Len(samples) = 1 /\ Frames(samples[1]) = <<>>
  /\ \A k \in Done :
       LET stack == buffer_entry_to_stack_table[k] IN
       /\ stack \in DOMAIN stack_table
       /\ IF Frames(samples[k]) = <<>>
          THEN k > 1 /\ stack = 1
          ELSE stack_table[stack].instruction_ptr = Head(Frames(samples[k]))

\* Samples of the same stack share their entry.
SameStackSameEntry ==
  \A j, k \in Done :
    Frames(samples[j]) = Frames(samples[k]) =>
      buffer_entry_to_stack_table[j] = buffer_entry_to_stack_table[k]

\* The samples done that have a frame to show.
Shown == {k \in Done : Frames(samples[k]) # <<>>}

\* "Each stack should point to its unique entry": samples of different stacks do not.
OwnEntry ==
  \A j, k \in Shown :
    buffer_entry_to_stack_table[j] = buffer_entry_to_stack_table[k] =>
      Frames(samples[j]) = Frames(samples[k])

\* The call chain a reader of the profile sees for the stack at i, leaf first.
CallChain ==
  LET chain[i \in 0 .. Len(stack_table)] ==
        IF i = 0
        THEN <<>>
        ELSE <<stack_table[i].instruction_ptr>> \o chain[stack_table[i].prefix]
  IN  chain

\* Each function is always called along one and the same path, as in the tests.
OnePathEach ==
  \A j, k \in DOMAIN samples :
    LET f == Frames(samples[j])
        g == Frames(samples[k])
    IN  \A m \in DOMAIN f, n \in DOMAIN g :
          f[m] = g[n] => SubSeq(f, m, Len(f)) = SubSeq(g, n, Len(g))

\* As long as that is so, the profile shows the own call chain of every sample that
\* has one.
ChainsKept ==
  OnePathEach =>
    \A k \in Shown : CallChain[buffer_entry_to_stack_table[k]] = Frames(samples[k])
=============================================================================
