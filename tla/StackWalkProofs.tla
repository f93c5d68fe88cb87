--------------------------- MODULE StackWalkProofs ---------------------------
(***************************************************************************)
(* Theorems about StackWalk, for any memory, bounds and registers.         *)
(***************************************************************************)
EXTENDS StackWalk, FiniteSetTheorems, TLAPS

\* The bytes that are read for a frame lie in words from the lower bound's up to
\* less than three words above the upper bound (the two reads of current_fp.add).
LEMMA FrameWords ==
  ASSUME NEW fp \in Nat, NEW min \in Nat, NEW max \in Nat, fp >= min, fp < max,
         NEW i \in 0 .. 2, NEW a \in Touched(fp + i * Word)
  PROVE  a \in WordOf(min) .. max + 3 * Word - 1 /\ a % Word = 0
<1>1. CASE a = WordOf(fp + i * Word)
  BY <1>1 DEF WordOf, Word
<1>2. CASE a = WordOf(fp + i * Word + Word - 1)
  BY <1>2 DEF WordOf, Word
<1> QED
  BY <1>1, <1>2 DEF Touched

-----------------------------------------------------------------------------

\* What a read returns is a word's value, whether it straddles two words or not.
LEMMA ReadValues ==
  ASSUME TypeOK, NEW address \in Nat, Readable(address)
  PROVE  Read(address) \subseteq Values
<1>1. CASE address % Word = 0
  <2>1. WordOf(address) = address
    BY <1>1 DEF WordOf, Word
  <2>2. address \in Mapped
    BY <2>1 DEF Readable, Touched
  <2> QED
    BY <1>1, <2>2 DEF Read, TypeOK
<1>2. CASE address % Word # 0
  BY <1>2 DEF Read
<1> QED
  BY <1>1, <1>2

\* Each step keeps the types and the bound on the frames (MAX_NATIVE_FRAMES).
LEMMA TypeStep == TypeOK /\ [Next]_vars => TypeOK'
<1> SUFFICES ASSUME TypeOK, [Next]_vars PROVE TypeOK'
  OBVIOUS
<1>1. CASE LeaveStack
  BY <1>1 DEF LeaveStack, Goto, TypeOK
<1>2. CASE Fault
  BY <1>2 DEF Fault, Goto, TypeOK
<1>3. CASE StopFull
  BY <1>3 DEF StopFull, Goto, TypeOK
<1>4. CASE WalkFrame
  <2>1. current_fp \in Nat
    BY MemoryLayout DEF TypeOK
  <2>2. Readable(current_fp) /\ Readable(current_fp + Word)
    <3>1. Readable(current_fp + 0 * Word) /\ Readable(current_fp + 1 * Word)
      BY <1>4 DEF WalkFrame, FrameReadable
    <3> QED
      BY <2>1, <3>1 DEF Word
  <2>3. Read(current_fp) \subseteq Values
    BY <2>1, <2>2, ReadValues
  <2>4. Read(current_fp + Word) \subseteq Values
    BY <2>1, <2>2, ReadValues DEF Word
  <2>5. PICK ip \in Values : instruction_ptrs' = Append(instruction_ptrs, ip)
    BY <1>4, <2>4 DEF WalkFrame, Record
  <2>6. /\ instruction_ptrs' \in Seq(Values \cup {Leaf})
        /\ Len(instruction_ptrs') = Len(instruction_ptrs) + 1
    BY <2>5 DEF TypeOK
  <2>7. Len(instruction_ptrs') \in 1 .. MaxFrames
    BY <1>4, <2>6, MemoryLayout DEF WalkFrame, Full, TypeOK
  <2>8. current_fp' \in Values /\ walk' \in {"walking", "done", "fault"}
    BY <1>4, <2>3 DEF WalkFrame, Goto, TypeOK
  <2> QED
    BY <1>4, <2>6, <2>7, <2>8 DEF WalkFrame, TypeOK
<1>5. CASE UNCHANGED vars
  BY <1>5 DEF vars, TypeOK
<1> QED
  BY <1>1, <1>2, <1>3, <1>4, <1>5 DEF Next

\* The type invariant: in particular there are never more frames than fit.
THEOREM TypeCorrect == Spec => []TypeOK
<1>1. Init => TypeOK
  <2> SUFFICES ASSUME Init PROVE TypeOK
    OBVIOUS
  <2>1. stack_address_min \in Nat /\ stack_address_max \in Nat
    BY MemoryLayout DEF Init
  <2>2. /\ instruction_ptrs \in Seq(Values \cup {Leaf})
        /\ Len(instruction_ptrs) = 1
    BY DEF Init
  <2> QED
    BY <2>1, <2>2, MemoryLayout DEF Init, TypeOK
<1> QED
  BY <1>1, TypeStep, PTL DEF Spec

-----------------------------------------------------------------------------

\* A fault comes from one of the three words of the frame that is checked.
LEMMA FaultStep == TypeOK /\ FaultsOnlyOutside /\ [Next]_vars => FaultsOnlyOutside'
<1> SUFFICES ASSUME TypeOK, FaultsOnlyOutside, [Next]_vars PROVE FaultsOnlyOutside'
  OBVIOUS
<1>1. CASE LeaveStack
  BY <1>1 DEF LeaveStack, Goto, FaultsOnlyOutside
<1>2. CASE Fault
  <2>1. current_fp \in Nat /\ stack_address_min \in Nat /\ stack_address_max \in Nat
    BY MemoryLayout DEF TypeOK
  <2>2. PICK i \in 0 .. 2 : ~Readable(current_fp + i * Word)
    BY <1>2 DEF Fault, FrameReadable
  <2>3. PICK a \in Touched(current_fp + i * Word) : a \notin Mapped
    BY <2>2 DEF Readable
  <2>4. a \in WordOf(stack_address_min) .. stack_address_max + 3 * Word - 1 /\ a % Word = 0
    BY <1>2, <2>1, <2>3, FrameWords DEF Fault, InStack
  <2> QED
    BY <1>2, <2>3, <2>4 DEF Fault, Goto, FaultsOnlyOutside
<1>3. CASE StopFull
  BY <1>3 DEF StopFull, Goto, FaultsOnlyOutside
<1>4. CASE WalkFrame
  BY <1>4 DEF WalkFrame, Goto, FaultsOnlyOutside
<1>5. CASE UNCHANGED vars
  BY <1>5 DEF vars, FaultsOnlyOutside
<1> QED
  BY <1>1, <1>2, <1>3, <1>4, <1>5 DEF Next

\* For any memory, any registers and any bounds: the walk faults only on a word within
\* the bounds or the three after them.
THEOREM FaultsOnlyOutsideHolds == Spec => []FaultsOnlyOutside
<1>1. Init => FaultsOnlyOutside
  BY DEF Init, FaultsOnlyOutside
<1> QED
  BY <1>1, FaultStep, TypeCorrect, PTL DEF Spec

-----------------------------------------------------------------------------

\* A layout is a sequence of mapped words, each two words or more above the one before.
LEMMA LayoutFrames ==
  ASSUME NEW frames \in FrameLayouts
  PROVE  /\ frames \in Seq(Mapped)
         /\ Len(frames) \in Nat \ {0}
         /\ \A i \in 1 .. Len(frames) : /\ frames[i] \in Mapped
                                        /\ frames[i] \in Nat
                                        /\ frames[i] % Word = 0
         /\ \A i \in 1 .. Len(frames) - 1 : frames[i] + 2 * Word <= frames[i + 1]
<1>1. PICK depth \in 1 .. Cardinality(Mapped) :
        frames \in {f \in [1 .. depth -> Mapped] :
                      \A i \in 1 .. depth - 1 : f[i] + 2 * Word <= f[i + 1]}
  BY DEF FrameLayouts
<1>2. Cardinality(Mapped) \in Nat
  BY MemoryLayout, FS_CardinalityType
<1>3. depth \in Nat \ {0}
  BY <1>2
<1>4. frames \in [1 .. depth -> Mapped]
  BY <1>1
<1>5. frames \in Seq(Mapped) /\ Len(frames) = depth
  BY <1>3, <1>4
<1>6. \A i \in 1 .. depth : frames[i] \in Mapped
  BY <1>4
<1> QED
  BY <1>1, <1>3, <1>5, <1>6, MemoryLayout

\* The stack of a thread that uses frame pointers, all of it within the bounds.
Follows(frames) ==
  CallFrames(frames) /\ \A i \in DOMAIN frames : InStack(frames[i])

\* The leaf and the return addresses of the first count - 1 frames.
Recorded(frames, count) ==
  instruction_ptrs = [i \in 1 .. count |-> IF i = 1 THEN Leaf ELSE memory[frames[i - 1] + Word]]

\* The frame that the walk has come to is the one whose return address is next to be
\* recorded, and all before it are.
OnChain(frames) ==
  /\ walk = "walking" =>
       /\ Len(instruction_ptrs) <= Len(frames)
       /\ current_fp = frames[Len(instruction_ptrs)]
       /\ Recorded(frames, Len(instruction_ptrs))
  /\ walk = "done" =>
       Recorded(frames, IF Len(frames) < MaxFrames THEN Len(frames) + 1 ELSE MaxFrames)

\* At a frame of the layout the two words that matter are read for what they are.
LEMMA FrameRead ==
  ASSUME NEW fp \in Nat, fp % Word = 0
  PROVE  Read(fp) = {memory[fp]} /\ Read(fp + Word) = {memory[fp + Word]}
<1>1. (fp + Word) % Word = 0
  BY DEF Word
<1> QED
  BY <1>1 DEF Read

\* A round of the loop records one frame and goes on to its caller's, or, at the root,
\* whose pointer is null, ends.
LEMMA FrameKeepsChain ==
  ASSUME TypeOK, NEW frames \in FrameLayouts, Follows(frames), OnChain(frames), WalkFrame
  PROVE  OnChain(frames)'
<1> DEFINE m == Len(instruction_ptrs)
<1>1. m \in 1 .. MaxFrames /\ instruction_ptrs \in Seq(Values \cup {Leaf})
  BY DEF TypeOK
<1>2. MaxFrames \in Nat /\ m \in Nat \ {0} /\ m < MaxFrames
  BY <1>1, MemoryLayout DEF WalkFrame, Full
<1>3. m <= Len(frames) /\ current_fp = frames[m] /\ Recorded(frames, m)
  BY DEF WalkFrame, OnChain
<1>4. Len(frames) \in Nat \ {0}
  BY LayoutFrames
<1>5. m \in 1 .. Len(frames)
  BY <1>2, <1>3, <1>4
<1>6. current_fp \in Nat /\ current_fp % Word = 0
  BY <1>3, <1>5, LayoutFrames
<1>7. Read(current_fp) = {memory[current_fp]} /\ Read(current_fp + Word) = {memory[current_fp + Word]}
  BY <1>6, FrameRead
<1>8. instruction_ptrs' = Append(instruction_ptrs, memory[frames[m] + Word])
  BY <1>3, <1>7 DEF WalkFrame, Record
<1>9. Len(instruction_ptrs') = m + 1
  BY <1>1, <1>8
<1>10. memory' = memory
  BY DEF WalkFrame
<1>11. instruction_ptrs' =
          [i \in 1 .. m + 1 |-> IF i = 1 THEN Leaf ELSE memory'[frames[i - 1] + Word]]
  <2> DEFINE old == [i \in 1 .. m |-> IF i = 1 THEN Leaf ELSE memory[frames[i - 1] + Word]]
             new == [i \in 1 .. m + 1 |-> IF i = 1 THEN Leaf ELSE memory[frames[i - 1] + Word]]
  <2>1. instruction_ptrs = old
    BY <1>3 DEF Recorded
  <2>2. instruction_ptrs' = [i \in 1 .. m + 1 |-> IF i = m + 1 THEN memory[frames[m] + Word]
                                                  ELSE instruction_ptrs[i]]
    BY <1>1, <1>8
  <2>3. \A i \in 1 .. m : instruction_ptrs[i] = IF i = 1 THEN Leaf ELSE memory[frames[i - 1] + Word]
    BY <2>1
  <2>4. ASSUME NEW i \in 1 .. m + 1
        PROVE  (IF i = m + 1 THEN memory[frames[m] + Word] ELSE instruction_ptrs[i])
                 = IF i = 1 THEN Leaf ELSE memory[frames[i - 1] + Word]
    <3>1. CASE i = m + 1
      BY <1>2, <3>1
    <3>2. CASE i # m + 1
      <4>1. i \in 1 .. m
        BY <1>2, <3>2
      <4> QED
        BY <2>3, <3>2, <4>1
    <3> QED
      BY <3>1, <3>2
  <2>5. instruction_ptrs' = new
    BY <2>2, <2>4
  <2> QED
    BY <1>10, <2>5
<1>12. CASE m < Len(frames)
  <2>1. m \in 1 .. Len(frames) - 1 /\ m + 1 \in 1 .. Len(frames)
    BY <1>2, <1>4, <1>12
  <2>2. memory[current_fp] = frames[m + 1]
    BY <1>3, <2>1 DEF Follows, CallFrames
  <2>3. /\ frames[m + 1] \in Nat /\ frames[m + 1] % Word = 0
        /\ frames[m] + 2 * Word <= frames[m + 1]
    BY <2>1, LayoutFrames
  <2>4. Sane(frames[m + 1], current_fp)
    <3>1. frames[m + 1] % 2 = 0
      BY <2>3 DEF Word
    <3>2. frames[m + 1] > current_fp
      BY <1>3, <1>6, <2>3 DEF Word
    <3> QED
      BY <3>1, <3>2 DEF Sane
  <2>5. current_fp' = frames[m + 1] /\ walk' = "walking"
    BY <1>7, <2>2, <2>4 DEF WalkFrame
  <2> QED
    BY <1>2, <1>4, <1>9, <1>11, <1>12, <2>5 DEF OnChain, Recorded
<1>13. CASE m = Len(frames)
  <2>1. memory[current_fp] = Null
    BY <1>3, <1>13 DEF Follows, CallFrames
  <2>2. ~Sane(memory[current_fp], current_fp)
    BY <1>6, <2>1 DEF Sane, Null
  <2>3. walk' = "done"
    BY <1>7, <2>2 DEF WalkFrame, Goto
  <2>4. Recorded(frames, Len(frames) + 1)' /\ Len(frames) < MaxFrames
    BY <1>2, <1>11, <1>13 DEF Recorded
  <2> QED
    BY <2>3, <2>4 DEF OnChain
<1> QED
  BY <1>2, <1>3, <1>4, <1>12, <1>13

\* The walk of such a stack cannot leave the bounds, and stops early only for want of
\* room.
LEMMA ChainStep ==
  ASSUME TypeOK, [Next]_vars, NEW frames \in FrameLayouts,
         Follows(frames) => OnChain(frames)
  PROVE  (Follows(frames) => OnChain(frames))'
<1> SUFFICES ASSUME Follows(frames)' PROVE OnChain(frames)'
  OBVIOUS
<1>1. Follows(frames)
  <2>1. /\ memory' = memory /\ frame_ptr' = frame_ptr
        /\ stack_address_min' = stack_address_min /\ stack_address_max' = stack_address_max
    BY DEF Next, vars, LeaveStack, Fault, StopFull, WalkFrame
  <2> QED
    BY <2>1 DEF Follows, CallFrames, InStack
<1>2. OnChain(frames)
  BY <1>1
<1>3. Len(frames) \in Nat \ {0} /\ DOMAIN frames = 1 .. Len(frames)
  BY LayoutFrames
<1>4. Len(instruction_ptrs) \in 1 .. MaxFrames /\ MaxFrames \in Nat \ {0}
  BY MemoryLayout DEF TypeOK
<1>5. CASE LeaveStack
  <2>1. Len(instruction_ptrs) \in DOMAIN frames /\ current_fp = frames[Len(instruction_ptrs)]
    BY <1>2, <1>3, <1>4, <1>5 DEF OnChain, LeaveStack
  <2>2. InStack(current_fp)
    BY <1>1, <2>1 DEF Follows
  <2> QED
    BY <1>5, <2>2 DEF LeaveStack
<1>6. CASE Fault
  BY <1>6 DEF Fault, Goto, OnChain
<1>7. CASE StopFull
  <2>1. /\ Len(instruction_ptrs) = MaxFrames
        /\ Len(instruction_ptrs) <= Len(frames)
        /\ Recorded(frames, Len(instruction_ptrs))
    BY <1>2, <1>7 DEF StopFull, Full, OnChain
  <2>2. Recorded(frames, MaxFrames)' /\ ~(Len(frames) < MaxFrames)
    BY <1>3, <1>4, <1>7, <2>1 DEF StopFull, Recorded
  <2> QED
    BY <1>7, <2>2 DEF StopFull, Goto, OnChain
<1>8. CASE WalkFrame
  BY <1>1, <1>2, <1>8, FrameKeepsChain
<1>9. CASE UNCHANGED vars
  BY <1>2, <1>9 DEF vars, OnChain, Recorded
<1> QED
  BY <1>5, <1>6, <1>7, <1>8, <1>9 DEF Next

\* For any memory, registers, bounds and depth: of a stack that has its frame pointers
\* and lies within the bounds, the walk records the leaf and every return address in
\* order, or as many as fit.
THEOREM CallChainRecordedHolds == Spec => []CallChainRecorded
<1> DEFINE Chains == \A frames \in FrameLayouts : Follows(frames) => OnChain(frames)
<1>1. Init => Chains
  <2> SUFFICES ASSUME Init, NEW frames \in FrameLayouts, Follows(frames)
               PROVE  OnChain(frames)
    OBVIOUS
  <2>1. Len(instruction_ptrs) = 1 /\ walk = "walking" /\ Len(frames) \in Nat \ {0}
    BY LayoutFrames DEF Init
  <2>2. current_fp = frames[1]
    BY DEF Init, Follows, CallFrames
  <2>3. Recorded(frames, 1)
    BY DEF Init, Recorded
  <2> QED
    BY <2>1, <2>2, <2>3 DEF OnChain
<1>2. TypeOK /\ Chains /\ [Next]_vars => Chains'
  <2> SUFFICES ASSUME TypeOK, Chains, [Next]_vars PROVE Chains'
    OBVIOUS
  <2>1. ASSUME NEW frames \in FrameLayouts
        PROVE  (Follows(frames) => OnChain(frames))'
    BY ChainStep
  <2> QED
    BY <2>1 DEF FrameLayouts
<1>3. Chains => CallChainRecorded
  BY DEF Follows, OnChain, Recorded, CallChainRecorded
<1> HIDE DEF Chains
<1> QED
  BY <1>1, <1>2, <1>3, TypeCorrect, PTL DEF Spec
=============================================================================
