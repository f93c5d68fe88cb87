------------------------------ MODULE StackWalk ------------------------------
(***************************************************************************)
(* critical_frame_pointer_stack_walk (src/sampler_mac.rs): from the        *)
(* registers of a suspended thread, follow the saved frame pointers        *)
(* towards the root and record the return addresses.                       *)
(*                                                                         *)
(* An address counts units of two bytes, so that the test for alignment to *)
(* four bytes, half a word, can fail.  The memory is a few mapped words;   *)
(* reading outside of them is a segmentation fault.  Nothing is known of   *)
(* their contents, nor of the registers: code that was built without frame *)
(* pointers leaves anything in them.  Return addresses and frame pointers  *)
(* are drawn from one set of words.                                        *)
(***************************************************************************)
EXTENDS Naturals, Sequences, FiniteSets

CONSTANTS
  Mapped,        \* the addresses of the mapped words
  Values,        \* what a word of memory or a register can hold, null included
  StackAddrs,    \* what pthread_get_stackaddr_np may return for the sampler thread
  StackSizes,    \* what pthread_get_stacksize_np may return
  MaxFrames,     \* MAX_NATIVE_FRAMES
  Leaf           \* the instruction pointer in the registers

Word == 4
Null == 0

ASSUME MemoryLayout ==
  /\ Mapped \subseteq {a \in Nat : a % Word = 0} /\ IsFiniteSet(Mapped)
  /\ Values \subseteq Nat
  /\ StackAddrs \subseteq Nat
  /\ StackSizes \subseteq Nat
  /\ MaxFrames \in Nat \ {0}

VARIABLES
  memory,             \* the mapped words
  stack_address_min,
  stack_address_max,
  frame_ptr,          \* the register
  current_fp,
  instruction_ptrs,   \* native_stack: the leaf's first
  walk                \* "walking", "done", or "fault"

vars == <<memory, stack_address_min, stack_address_max, frame_ptr, current_fp,
          instruction_ptrs, walk>>

TypeOK ==
  /\ memory \in [Mapped -> Values]
  /\ stack_address_min \in Nat
  /\ stack_address_max \in Nat
  /\ frame_ptr \in Values
  /\ current_fp \in Values
  /\ instruction_ptrs \in Seq(Values \cup {Leaf})
  /\ Len(instruction_ptrs) \in 1 .. MaxFrames
  /\ walk \in {"walking", "done", "fault"}

\* The bounds are those of the thread that walks, and the size, which counts bytes,
\* is scaled by the size of a pointer.  The leaf needs no memory.
Init ==
  /\ memory \in [Mapped -> Values]
  /\ stack_address_min \in StackAddrs
  /\ \E stacksize \in StackSizes : stack_address_max = stack_address_min + stacksize * 8
  /\ frame_ptr \in Values
  /\ current_fp = frame_ptr
  /\ instruction_ptrs = <<Leaf>>
  /\ walk = "walking"

-----------------------------------------------------------------------------

WordOf(address) == Word * (address \div Word)

\* The words that the eight bytes at the address lie in.
Touched(address) == {WordOf(address), WordOf(address + Word - 1)}

Readable(address) == Touched(address) \subseteq Mapped

\* What can be read there: a value that straddles two words can be any.
Read(address) == IF address % Word = 0 THEN {memory[address]} ELSE Values

\* A faulty variant: only the upper bound is checked.
BelowTheTop(fp) ==
  /\ fp # Null
  /\ fp < stack_address_max

\* The loop's condition and its two checks.
InStack(fp) ==
  /\ fp # Null
  /\ fp >= stack_address_min
  /\ fp < stack_address_max

\* All three words are read before there is a check for room.
FrameReadable(fp) == \A i \in 0 .. 2 : Readable(fp + i * Word)

Goto(label) == walk' = label

\* A faulty variant: room for one more.
FullOffByOne == Len(instruction_ptrs) > MaxFrames

Full == Len(instruction_ptrs) = MaxFrames

\* A faulty variant: the two words of a frame are taken for each other.
RecordSwapped(fp) ==
  \E ip \in Read(fp + 2 * Word) : instruction_ptrs' = Append(instruction_ptrs, ip)

\* add_register_to_stack; the stack pointers are recorded alike, and never used.
Record(fp) ==
  \E ip \in Read(fp + Word) : instruction_ptrs' = Append(instruction_ptrs, ip)

\* The next frame is higher up, and aligned to four bytes.
Sane(next_fp, fp) == next_fp > fp /\ next_fp % 2 = 0

LeaveStack ==
  /\ walk = "walking"
  /\ ~InStack(current_fp)
  /\ Goto("done")
  /\ UNCHANGED <<memory, stack_address_min, stack_address_max, frame_ptr, current_fp,
                 instruction_ptrs>>

Fault ==
  /\ walk = "walking"
  /\ InStack(current_fp)
  /\ ~FrameReadable(current_fp)
  /\ Goto("fault")
  /\ UNCHANGED <<memory, stack_address_min, stack_address_max, frame_ptr, current_fp,
                 instruction_ptrs>>

StopFull ==
  /\ walk = "walking"
  /\ InStack(current_fp)
  /\ FrameReadable(current_fp)
  /\ Full
  /\ Goto("done")
  /\ UNCHANGED <<memory, stack_address_min, stack_address_max, frame_ptr, current_fp,
                 instruction_ptrs>>

WalkFrame ==
  /\ walk = "walking"
  /\ InStack(current_fp)
  /\ FrameReadable(current_fp)
  /\ ~Full
  /\ Record(current_fp)
  /\ \E next_fp \in Read(current_fp) :
       IF Sane(next_fp, current_fp)
       THEN current_fp' = next_fp /\ UNCHANGED walk
       ELSE Goto("done") /\ UNCHANGED current_fp
  /\ UNCHANGED <<memory, stack_address_min, stack_address_max, frame_ptr>>

Next ==
  \/ LeaveStack
  \/ Fault
  \/ StopFull
  \/ WalkFrame

Spec == Init /\ [][Next]_vars

-----------------------------------------------------------------------------

\* Whatever is in memory and in the registers, the walk can only fault if a word
\* within the bounds, or one of the three after them, is not mapped: what is
\* checked is the frame pointer, but what is read reaches beyond it.
FaultsOnlyOutside ==
  walk = "fault" =>
    \E a \in WordOf(stack_address_min) .. stack_address_max + 3 * Word - 1 :
      a % Word = 0 /\ a \notin Mapped

\* Where the frames of a thread can be, from the leaf to the root.
FrameLayouts ==
  UNION {{frames \in [1 .. depth -> Mapped] :
            \A i \in 1 .. depth - 1 : frames[i] + 2 * Word <= frames[i + 1]} :
           depth \in 1 .. Cardinality(Mapped)}

\* Code that does use frame pointers: the first word of each frame has the address of
\* its caller's, the root's is null.
CallFrames(frames) ==
  /\ frames[1] = frame_ptr
  /\ \A i \in 1 .. Len(frames) - 1 : memory[frames[i]] = frames[i + 1]
  /\ memory[frames[Len(frames)]] = Null

\* If all of such a stack is within the bounds, the walk records the leaf and every
\* return address from the leaf's to the root's; of a stack too deep for
\* MAX_NATIVE_FRAMES, as many as fit, next to the leaf.
CallChainRecorded ==
  walk = "done" =>
    \A frames \in FrameLayouts :
      CallFrames(frames) /\ (\A i \in DOMAIN frames : InStack(frames[i])) =>
        LET count == IF Len(frames) < MaxFrames THEN Len(frames) + 1 ELSE MaxFrames
        IN instruction_ptrs =
             [i \in 1 .. count |-> IF i = 1 THEN Leaf ELSE memory[frames[i - 1] + Word]]
=============================================================================
