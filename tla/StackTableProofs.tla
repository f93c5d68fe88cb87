-------------------------- MODULE StackTableProofs --------------------------
(***************************************************************************)
(* The stack table, for any number of samples, frames and addresses: it is *)
(* well ordered and without duplicates, only a first sample without frames *)
(* panics, every other sample's index is that of a stack which ends in the *)
(* sample's leaf, samples of the same stack share it, and where each       *)
(* function is called along one path only, it shows the sample's call      *)
(* chain.                                                                  *)
(*                                                                         *)
(* An entry is only pushed at the end of a search that started behind its  *)
(* prefix, so the search has seen every stack that could be the same one.  *)
(*                                                                         *)
(* The table only grows at its end, so the way a search went stays the way *)
(* any later search for the same frames goes (Walked).  What a sample's    *)
(* frames and the table's call chains are is defined by recursion; the     *)
(* facts about them are by induction, of which WellFoundedInduction gives  *)
(* the least element that a set of numbers has.                            *)
(***************************************************************************)
EXTENDS StackTable, WellFoundedInduction, TLAPS

\* The loop's counters: one sample is worked on at a time, from its root on.
Progress ==
  /\ Len(buffer_entry_to_stack_table) <= Len(samples)
  /\ Len(samples) <= Len(buffer_entry_to_stack_table) + 1
  /\ Working => /\ Len(samples) = Len(buffer_entry_to_stack_table) + 1
                /\ frame <= Len(ThisSample)

\* Where the search stands: behind the prefix, having passed none but other stacks,
\* and off the table only if it is to push next; at the first stack before a sample.
Searching ==
  /\ Working => last_matching_stack_index <= stack_index
  /\ stack_index \notin DOMAIN stack_table /\ stack_index # 0 =>
       Working /\ InstructionPtr # Null
  /\ Working =>
       \A i \in DOMAIN stack_table :
         last_matching_stack_index < i /\ i < stack_index =>
           /\ InstructionPtr # Null
           /\ stack_table[i].instruction_ptr # InstructionPtr
  /\ frame = 0 /\ Len(samples) = Len(buffer_entry_to_stack_table) => stack_index <= 1

\* stack_index is None until the first frame that is not null is pushed, and only in
\* the first sample.
NoneAtFirst ==
  /\ stack_index = 0 => stack_table = <<>> /\ buffer_entry_to_stack_table = <<>>
  /\ stack_index # 0 => /\ stack_table # <<>> /\ samples # <<>>
                        /\ \E i \in 1 .. Len(samples[1]) : samples[1][i] # Null
  /\ panicked => stack_index = 0 /\ Searched

Inv == TypeOK /\ Progress /\ Searching /\ NoneAtFirst /\ WellOrdered /\ Deduplicated

-----------------------------------------------------------------------------

\* What the stack walk leaves: between one and MaxFrames frames.
LEMMA NativeStack ==
  ASSUME NEW s \in NativeStacks
  PROVE  /\ Len(s) \in 1 .. MaxFrames
         /\ DOMAIN s = 1 .. Len(s)
         /\ s \in Seq(Addresses \cup {Null})
<1>1. PICK n \in 1 .. MaxFrames : s \in [1 .. n -> Addresses \cup {Null}]
  BY DEF NativeStacks
<1>2. s \in Seq(Addresses \cup {Null}) /\ Len(s) = n
  BY <1>1, StackTableBounds
<1> QED BY <1>1, <1>2

\* What a push does to the sequence it appends to.
LEMMA Pushed ==
  ASSUME NEW S, NEW q \in Seq(S), NEW e \in S
  PROVE  /\ Append(q, e) \in Seq(S)
         /\ Len(Append(q, e)) = Len(q) + 1
         /\ Append(q, e)[Len(q) + 1] = e
         /\ \A i \in 1 .. Len(q) : Append(q, e)[i] = q[i]
  OBVIOUS

\* The frame at hand is one of the sample at hand.
LEMMA FrameAtHand ==
  ASSUME TypeOK, Progress, Working
  PROVE  /\ ThisSample \in NativeStacks
         /\ InstructionPtr \in Addresses \cup {Null}
         /\ frame - 1 \in 0 .. MaxFrames
         /\ frame \in DOMAIN ThisSample
<1>1. Len(samples) \in DOMAIN samples
  BY DEF TypeOK, Progress, Working
<1>2. ThisSample \in NativeStacks
  BY <1>1 DEF TypeOK, ThisSample
<1>3. frame \in DOMAIN ThisSample
  BY <1>2, NativeStack DEF TypeOK, Progress, Working
<1>4. InstructionPtr \in Addresses \cup {Null}
  BY <1>2, <1>3, NativeStack DEF InstructionPtr
<1>5. frame - 1 \in 0 .. MaxFrames
  BY StackTableBounds DEF TypeOK, Working
<1> QED BY <1>2, <1>3, <1>4, <1>5

-----------------------------------------------------------------------------

\* The empty table.
LEMMA InitInv == Init => Inv
<1> SUFFICES ASSUME Init PROVE Inv
  OBVIOUS
<1> USE StackTableBounds DEF Init
<1>1. TypeOK
  <2>1. panicked \in BOOLEAN
    OBVIOUS
  <2>2. buffer_entry_to_stack_table \in Seq(DOMAIN stack_table)
    OBVIOUS
  <2>3. /\ samples \in Seq(NativeStacks) /\ stack_table \in Seq(StackForSerialization)
        /\ frame \in 0 .. MaxFrames
        /\ stack_index \in 0 .. Len(stack_table) + 1
        /\ last_matching_stack_index \in 0 .. Len(stack_table)
    OBVIOUS
  <2> QED BY <2>1, <2>2, <2>3 DEF TypeOK
<1>2. Progress
  BY DEF Progress, Working
<1>3. Searching
  BY DEF Searching, Working
<1>4. NoneAtFirst
  BY DEF NoneAtFirst
<1>5. WellOrdered /\ Deduplicated
  BY DEF WellOrdered, Deduplicated
<1> QED BY <1>1, <1>2, <1>3, <1>4, <1>5 DEF Inv

\* A new sample starts a search at the first stack, or in an empty table.
LEMMA NextSampleKeepsInv == Inv /\ NextSample => Inv'
<1> SUFFICES ASSUME Inv, NextSample PROVE Inv'
  OBVIOUS
<1> USE DEF Inv
<1>1. PICK s \in NativeStacks : samples' = Append(samples, s) /\ frame' = Len(s)
  BY DEF NextSample
<1>2. /\ samples' \in Seq(NativeStacks)
      /\ Len(samples') = Len(samples) + 1
      /\ samples'[Len(samples)+1] = s
      /\ \A i \in 1 .. Len(samples) : samples'[i] = samples[i]
  BY <1>1, Pushed DEF TypeOK
<1>3. ThisSample' = s
  BY <1>2 DEF ThisSample
<1>4. TypeOK'
  BY <1>1, <1>2, NativeStack DEF TypeOK, NextSample
<1>5. Progress'
  BY <1>1, <1>2, <1>3, NativeStack DEF Progress, NextSample, TypeOK, Working
<1>6. Searching'
  BY <1>1, <1>2, NativeStack DEF Searching, NoneAtFirst, NextSample, TypeOK, Working
<1>7. NoneAtFirst'
  <2>1. ~panicked
    BY DEF NextSample, NoneAtFirst, Searched, TypeOK
  <2>2. samples # <<>> => 1 \in 1 .. Len(samples)
    BY DEF TypeOK
  <2> QED BY <1>2, <2>1, <2>2 DEF NextSample, NoneAtFirst
<1>8. WellOrdered' /\ Deduplicated'
  BY DEF NextSample, WellOrdered, Deduplicated
<1> QED BY <1>4, <1>5, <1>6, <1>7, <1>8

\* A null frame is only ever met where the search has not left its start: it may
\* be the last one, and then the search ends where it stands.
LEMMA SkipNullKeepsInv == Inv /\ SkipNull => Inv'
<1> SUFFICES ASSUME Inv, SkipNull PROVE Inv'
  OBVIOUS
<1> USE DEF Inv
<1>1. frame' = frame - 1 /\ ThisSample' = ThisSample
  BY DEF SkipNull, NextFrame, ThisSample
<1>2. TypeOK'
  BY <1>1, FrameAtHand DEF SkipNull, TypeOK
<1>3. Progress'
  BY <1>1 DEF SkipNull, Progress, Working, TypeOK
<1>4. Searching'
  BY <1>1 DEF SkipNull, Searching, Progress, Working, TypeOK
<1>5. NoneAtFirst'
  BY DEF SkipNull, NoneAtFirst, Searched, Working
<1>6. WellOrdered' /\ Deduplicated'
  BY DEF SkipNull, WellOrdered, Deduplicated
<1> QED BY <1>2, <1>3, <1>4, <1>5, <1>6

\* A match becomes the prefix: nothing is behind it that the search has passed.
LEMMA MatchStackKeepsInv == Inv /\ MatchStack => Inv'
<1> SUFFICES ASSUME Inv, MatchStack PROVE Inv'
  OBVIOUS
<1> USE DEF Inv
<1>1. frame' = frame - 1 /\ ThisSample' = ThisSample
  BY DEF MatchStack, NextFrame, ThisSample
<1>2. TypeOK'
  BY <1>1, FrameAtHand DEF MatchStack, TypeOK, HasStack
<1>3. Progress'
  BY <1>1 DEF MatchStack, Progress, Working, TypeOK
<1>4. Searching'
  BY <1>1, FrameAtHand DEF MatchStack, Searching, Progress, Working, TypeOK, HasStack
<1>5. NoneAtFirst'
  BY DEF MatchStack, NoneAtFirst, Searched, Working
<1>6. WellOrdered' /\ Deduplicated'
  BY DEF MatchStack, WellOrdered, Deduplicated
<1> QED BY <1>2, <1>3, <1>4, <1>5, <1>6

\* The stack that is passed is another one.
LEMMA TryNextStackKeepsInv == Inv /\ TryNextStack => Inv'
<1> SUFFICES ASSUME Inv, TryNextStack PROVE Inv'
  OBVIOUS
<1> USE DEF Inv
<1>1. ThisSample' = ThisSample /\ InstructionPtr' = InstructionPtr
  BY DEF TryNextStack, ThisSample, InstructionPtr
<1>2. TypeOK'
  BY DEF TryNextStack, TypeOK, HasStack
<1>3. Progress'
  BY <1>1 DEF TryNextStack, Progress, Working
<1>4. Searching'
  BY <1>1 DEF TryNextStack, Searching, Working, TypeOK, HasStack
<1>5. NoneAtFirst'
  <2>1. stack_index # 0 /\ stack_index' # 0 /\ ~panicked
    BY DEF TryNextStack, NoneAtFirst, HasStack, TypeOK
  <2> QED BY <2>1 DEF TryNextStack, NoneAtFirst
<1>6. WellOrdered' /\ Deduplicated'
  BY DEF TryNextStack, WellOrdered, Deduplicated
<1> QED BY <1>2, <1>3, <1>4, <1>5, <1>6

\* The search has passed every stack behind the prefix, and an equal stack
\* would have been among them: its prefix is the same, and it is behind that.
LEMMA PushStackKeepsInv == Inv /\ PushStack => Inv'
<1> SUFFICES ASSUME Inv, PushStack PROVE Inv'
  OBVIOUS
<1> USE DEF Inv
<1> DEFINE n == Len(stack_table) + 1
           new == [prefix |-> last_matching_stack_index, instruction_ptr |-> InstructionPtr]
<1>1. frame' = frame - 1 /\ ThisSample' = ThisSample /\ frame \in Nat \ {0}
  BY DEF PushStack, NextFrame, ThisSample, Working, TypeOK
<1>2. new \in StackForSerialization
  BY FrameAtHand DEF PushStack, StackForSerialization, TypeOK
<1>3. /\ stack_table' \in Seq(StackForSerialization)
      /\ Len(stack_table') = n
      /\ DOMAIN stack_table' = 1 .. n
      /\ stack_table'[n] = new
      /\ \A i \in DOMAIN stack_table : stack_table'[i] = stack_table[i]
  BY <1>2, Pushed DEF PushStack, TypeOK
<1>4. /\ DOMAIN stack_table = 1 .. Len(stack_table)
      /\ Len(stack_table) \in Nat
      /\ stack_index' = n
      /\ last_matching_stack_index' = n
  BY DEF PushStack, TypeOK
<1>5. stack_index = n \/ (stack_index = 0 /\ stack_table = <<>>)
  BY <1>4 DEF PushStack, HasStack, TypeOK, NoneAtFirst
<1>6. TypeOK'
  <2>1. buffer_entry_to_stack_table \in Seq(1 .. n)
    BY <1>4 DEF TypeOK
  <2> QED BY <1>1, <1>3, <1>4, <2>1, FrameAtHand DEF PushStack, TypeOK
<1>7. Progress'
  BY <1>1 DEF PushStack, Progress, Working, TypeOK
<1>8. Searching'
  <2>1. stack_index' \in DOMAIN stack_table'
    BY <1>3, <1>4
  <2> QED BY <1>1, <1>3, <1>4, <2>1 DEF PushStack, Searching, Progress, Working, TypeOK
<1>9. last_matching_stack_index < n
  BY <1>4, <1>5 DEF PushStack, Searching, TypeOK
<1>10. WellOrdered'
  BY <1>3, <1>4, <1>9 DEF WellOrdered
<1>11. \A j \in DOMAIN stack_table : stack_table[j] # new
  <2>1. SUFFICES ASSUME NEW j \in DOMAIN stack_table, stack_table[j] = new PROVE FALSE
    OBVIOUS
  <2>2. last_matching_stack_index < j
    BY <2>1 DEF WellOrdered
  <2>3. j < stack_index
    BY <1>4, <1>5, <2>1
  <2> QED BY <2>1, <2>2, <2>3 DEF Searching, PushStack
<1>12. Deduplicated'
  BY <1>3, <1>4, <1>11 DEF Deduplicated
<1>13. NoneAtFirst'
  <2>1. ~panicked /\ frame # 0
    BY <1>1 DEF NoneAtFirst, Searched
  <2>2. samples # <<>> /\ stack_table' # <<>> /\ stack_index' # 0
    <3>1. samples # <<>>
      BY DEF PushStack, Progress, TypeOK
    <3>2. stack_table' # <<>> /\ n # 0
      BY <1>3, <1>4
    <3> QED BY <1>4, <3>1, <3>2
  <2>3. CASE stack_index # 0
    BY <2>1, <2>2, <2>3 DEF PushStack, NoneAtFirst
  <2>4. CASE stack_index = 0
    <3>1. Len(samples) = 1 /\ ThisSample = samples[1]
      BY <2>4 DEF PushStack, NoneAtFirst, Progress, ThisSample
    <3>2. frame \in 1 .. Len(ThisSample) /\ ThisSample[frame] # Null
      BY FrameAtHand, NativeStack DEF PushStack, InstructionPtr
    <3> QED BY <2>1, <2>2, <3>1, <3>2 DEF PushStack, NoneAtFirst
  <2> QED BY <2>3, <2>4
<1> QED BY <1>6, <1>7, <1>8, <1>10, <1>12, <1>13

\* The index that is recorded is one of the table: the search has ended at a stack,
\* or not left the first one.
LEMMA FinishSampleKeepsInv == Inv /\ FinishSample => Inv'
<1> SUFFICES ASSUME Inv, FinishSample PROVE Inv'
  OBVIOUS
<1> USE DEF Inv
<1> DEFINE done == buffer_entry_to_stack_table
<1>1. /\ stack_index \in DOMAIN stack_table /\ 1 \in DOMAIN stack_table
      /\ Len(samples) = Len(done) + 1 /\ frame = 0
      /\ stack_index # 0 /\ ~panicked
  BY DEF FinishSample, Searched, Searching, NoneAtFirst, Working, Progress, TypeOK
<1>2. /\ done' \in Seq(DOMAIN stack_table)
      /\ Len(done') = Len(done) + 1
      /\ DOMAIN done' = 1 .. Len(done) + 1
      /\ done'[Len(done) + 1] = stack_index
      /\ \A i \in DOMAIN done : done'[i] = done[i]
  BY <1>1, Pushed DEF FinishSample, TypeOK
<1>3. TypeOK'
  BY <1>1, <1>2 DEF FinishSample, TypeOK
<1>4. Progress'
  BY <1>1, <1>2 DEF FinishSample, Progress, Working, TypeOK
<1>5. Searching'
  BY <1>1, <1>2 DEF FinishSample, Searching, Working, TypeOK
<1>6. NoneAtFirst'
  BY <1>1 DEF FinishSample, NoneAtFirst
<1>7. WellOrdered' /\ Deduplicated'
  BY DEF FinishSample, WellOrdered, Deduplicated
<1> QED BY <1>3, <1>4, <1>5, <1>6, <1>7

\* Nothing but the panic.
LEMMA UnwrapNoneKeepsInv == Inv /\ UnwrapNone => Inv'
<1> SUFFICES ASSUME Inv, UnwrapNone PROVE Inv'
  OBVIOUS
<1> USE DEF Inv
<1>1. TypeOK'
  BY DEF UnwrapNone, TypeOK
<1>2. Progress' /\ Searching'
  BY DEF UnwrapNone, Searched, Progress, Searching, Working
<1>3. NoneAtFirst'
  BY DEF UnwrapNone, NoneAtFirst, Searched
<1>4. WellOrdered' /\ Deduplicated'
  BY DEF UnwrapNone, WellOrdered, Deduplicated
<1> QED BY <1>1, <1>2, <1>3, <1>4

-----------------------------------------------------------------------------

\* The type invariant and its strengthening hold in every state that
\* SamplesSerializer::new goes through.
THEOREM StackTableInvariant == Spec => []Inv
<1>1. Init => Inv
  BY InitInv
<1>2. Inv /\ [Next]_vars => Inv'
  <2> SUFFICES ASSUME Inv, [Next]_vars PROVE Inv'
    OBVIOUS
  <2>1. CASE Next
    BY <2>1, NextSampleKeepsInv, SkipNullKeepsInv, MatchStackKeepsInv,
       TryNextStackKeepsInv, PushStackKeepsInv, FinishSampleKeepsInv, UnwrapNoneKeepsInv DEF Next
  <2>2. CASE UNCHANGED vars
    BY <2>2 DEF vars, Inv, TypeOK, Progress, Searching, NoneAtFirst, Searched, WellOrdered,
                Deduplicated, Working, ThisSample, InstructionPtr
  <2> QED BY <2>1, <2>2
<1> QED BY <1>1, <1>2, PTL DEF Spec

\* The indices stack_index and last_matching_stack_index stay in the range of
\* the table, or one past its end.
THEOREM StackTableTypeCorrect == Spec => []TypeOK
  BY StackTableInvariant, PTL DEF Inv

\* "A leaf stack will always be after a root stack": a reader of the stack
\* table who follows prefixes comes to a root.
THEOREM WellOrderedHolds == Spec => []WellOrdered
  BY StackTableInvariant, PTL DEF Inv

\* "The StackTable deduplicates the information": no stack is pushed that is
\* in the table already, under the same caller.
THEOREM DeduplicatedHolds == Spec => []Deduplicated
  BY StackTableInvariant, PTL DEF Inv

-----------------------------------------------------------------------------
(* Induction, and the frames of a sample.                                  *)

\* A set of numbers that is not empty has a least one.
LEMMA LeastNumber ==
  ASSUME NEW T \in SUBSET Nat, T # {}
  PROVE  \E n \in T : \A m \in T : n <= m
<1> DEFINE Less == {p \in Nat \X Nat : p[1] < p[2]}
<1>1. IsWellFoundedOn(Less, Nat)
  BY NatLessThanWellFounded DEF OpToRel
<1>2. PICK n \in T : \A m \in T : <<m, n>> \notin Less
  <2> HIDE DEF Less
  <2> QED BY <1>1, WFMin
<1>3. \A m \in T : ~ (m < n)
  BY <1>2
<1> QED BY <1>3

\* Induction over the numbers, for the set of those that have a property.
LEMMA NumberInduction ==
  ASSUME NEW T, 0 \in T, \A n \in Nat : n \in T => n + 1 \in T
  PROVE  \A n \in Nat : n \in T
<1> SUFFICES ASSUME Nat \ T # {} PROVE FALSE
  OBVIOUS
<1>1. PICK n \in Nat \ T : \A m \in Nat \ T : n <= m
  BY LeastNumber
<1>2. n - 1 \in Nat /\ n - 1 \notin Nat \ T
  BY <1>1
<1> QED BY <1>1, <1>2

\* Induction from the last of some numbers to the first.
LEMMA DownwardInduction ==
  ASSUME NEW N \in Nat, NEW T, N + 1 \in T, \A n \in 1 .. N : n + 1 \in T => n \in T
  PROVE  \A n \in 1 .. N + 1 : n \in T
<1> DEFINE U == {k \in Nat : k <= N => N + 1 - k \in T}
<1>1. 0 \in U
  OBVIOUS
<1>2. ASSUME NEW k \in Nat, k \in U PROVE k + 1 \in U
  <2> SUFFICES ASSUME k + 1 <= N PROVE N + 1 - (k + 1) \in T
    OBVIOUS
  <2>1. N - k \in 1 .. N /\ N + 1 - k = (N - k) + 1 /\ N + 1 - (k + 1) = N - k
    OBVIOUS
  <2> QED BY <1>2, <2>1
<1>3. \A k \in Nat : k \in U
  <2> HIDE DEF U
  <2> QED BY <1>1, <1>2, NumberInduction
<1>4. ASSUME NEW n \in 1 .. N + 1 PROVE n \in T
  <2>1. N + 1 - n \in Nat /\ N + 1 - n <= N /\ N + 1 - (N + 1 - n) = n
    OBVIOUS
  <2> QED BY <1>3, <2>1
<1> QED BY <1>4

\* What add_register_to_stack writes into a frame.
Ptrs == Addresses \cup {Null}

\* q with x in front.
Cons(x, q) == <<x>> \o q

\* f gives the frames of s from each position on.
Resolves(f, s) ==
  /\ f[Len(s) + 1] = <<>>
  /\ \A i \in 1 .. Len(s) : /\ s[i] = Null => f[i] = f[i + 1]
                            /\ s[i] # Null => f[i] = Cons(s[i], f[i + 1])

\* Only one function does.
LEMMA ResolvesOnce ==
  ASSUME NEW s, Len(s) \in Nat, NEW f, NEW g, Resolves(f, s), Resolves(g, s)
  PROVE  \A i \in 1 .. Len(s) + 1 : f[i] = g[i]
<1> DEFINE T == {i \in Nat : f[i] = g[i]}
<1>1. Len(s) + 1 \in T
  BY DEF Resolves
<1>2. \A i \in 1 .. Len(s) : i + 1 \in T => i \in T
  BY DEF Resolves
<1>3. \A i \in 1 .. Len(s) + 1 : i \in T
  <2> HIDE DEF T
  <2> QED BY <1>1, <1>2, DownwardInduction
<1> QED BY <1>3

\* One does.
LEMMA ResolvesExists ==
  ASSUME NEW s \in Seq(Ptrs)
  PROVE  \E f \in [1 .. Len(s) + 1 -> Seq(Addresses)] : Resolves(f, s)
<1> DEFINE D == 1 .. Len(s) + 1
           Step(f, i) == IF s[i] = Null THEN f[i + 1] ELSE Cons(s[i], f[i + 1])
           From(f, n) == f[Len(s) + 1] = <<>> /\ \A i \in n .. Len(s) : f[i] = Step(f, i)
           T == {n \in D : \E f \in [D -> Seq(Addresses)] : From(f, n)}
<1>1. Len(s) + 1 \in T
  <2> DEFINE f == [i \in D |-> <<>>]
  <2>1. f \in [D -> Seq(Addresses)] /\ From(f, Len(s) + 1) /\ Len(s) + 1 \in D
    OBVIOUS
  <2> HIDE DEF From, f, D
  <2> QED BY <2>1
<1>2. ASSUME NEW n \in 1 .. Len(s), n + 1 \in T PROVE n \in T
  <2>1. PICK f \in [D -> Seq(Addresses)] : From(f, n + 1)
    BY <1>2
  <2> DEFINE g == [f EXCEPT ![n] = Step(f, n)]
  <2>2. n \in D /\ n + 1 \in D /\ n # n + 1 /\ n # Len(s) + 1 /\ s[n] \in Ptrs
    OBVIOUS
  <2>3. Step(f, n) \in Seq(Addresses)
    BY <2>2 DEF Ptrs, Cons
  <2>4. g \in [D -> Seq(Addresses)] /\ g[n] = Step(f, n) /\ \A i \in D : i # n => g[i] = f[i]
    BY <2>2, <2>3
  <2> HIDE DEF g
  <2>5. g[n] = Step(g, n)
    BY <2>2, <2>4
  <2>6. \A i \in n + 1 .. Len(s) : g[i] = Step(g, i)
    BY <2>1, <2>4
  <2>7. From(g, n)
    BY <2>1, <2>2, <2>4, <2>5, <2>6
  <2> QED BY <2>2, <2>4, <2>7
<1>3. \A n \in D : n \in T
  <2> HIDE DEF T
  <2> QED BY <1>1, <1>2, DownwardInduction
<1>4. PICK f \in [D -> Seq(Addresses)] : From(f, 1)
  BY <1>3
<1>5. Resolves(f, s)
  BY <1>4 DEF Resolves
<1> QED BY <1>5

\* What FramesFrom computes.
LEMMA FramesFromIs ==
  ASSUME NEW s \in Seq(Ptrs)
  PROVE  /\ FramesFrom(s) \in [1 .. Len(s) + 1 -> Seq(Addresses)]
         /\ Resolves(FramesFrom(s), s)
<1> DEFINE D == 1 .. Len(s) + 1
           Step(f, i) == IF i > Len(s) THEN <<>>
                         ELSE IF s[i] = Null THEN f[i + 1]
                         ELSE Cons(s[i], f[i + 1])
<1>1. PICK f \in [D -> Seq(Addresses)] : Resolves(f, s)
  BY ResolvesExists
<1>2. f = [i \in D |-> Step(f, i)]
  <2>1. \A i \in D : f[i] = Step(f, i)
    BY <1>1 DEF Resolves
  <2> QED BY <2>1
<1>3. FramesFrom(s) = [i \in D |-> Step(FramesFrom(s), i)]
  BY <1>2 DEF FramesFrom, Cons
<1>4. Resolves(FramesFrom(s), s)
  <2>1. \A i \in D : FramesFrom(s)[i] = Step(FramesFrom(s), i)
    BY <1>3
  <2> QED BY <2>1 DEF Resolves
<1>5. \A i \in D : FramesFrom(s)[i] = f[i]
  BY <1>1, <1>4, ResolvesOnce
<1>6. FramesFrom(s) = f
  <2> HIDE DEF Step, D
  <2> QED BY <1>3, <1>5
<1> QED BY <1>4, <1>6

\* Cons is free: what it puts on what can be read off.
LEMMA ConsParts ==
  ASSUME NEW p \in Seq(Addresses), NEW q \in Seq(Addresses), NEW x \in Addresses, NEW y \in Addresses
  PROVE  /\ Cons(x, p) \in Seq(Addresses)
         /\ Cons(x, p) # <<>>
         /\ Len(Cons(x, p)) = Len(p) + 1
         /\ Cons(x, p)[1] = x
         /\ \A i \in 1 .. Len(p) : Cons(x, p)[i + 1] = p[i]
         /\ Cons(x, p) = Cons(y, q) => x = y /\ p = q
<1>1. ASSUME NEW z \in Addresses, NEW r \in Seq(Addresses)
      PROVE  /\ Cons(z, r) \in Seq(Addresses)
             /\ Len(Cons(z, r)) = Len(r) + 1
             /\ Cons(z, r)[1] = z
             /\ \A i \in 1 .. Len(r) : Cons(z, r)[i + 1] = r[i]
  BY DEF Cons
<1>2. ASSUME Cons(x, p) = Cons(y, q) PROVE p = q
  <2>1. Len(p) = Len(q)
    BY <1>1, <1>2
  <2>2. ASSUME NEW i \in 1 .. Len(p) PROVE p[i] = q[i]
    <3>1. Cons(x, p)[i + 1] = p[i]
      BY <1>1
    <3>2. Cons(y, q)[i + 1] = q[i]
      BY <1>1, <2>1
    <3> QED BY <1>2, <3>1, <3>2
  <2> QED BY <2>1, <2>2
<1>3. Cons(x, p) # <<>>
  BY <1>1
<1>4. Cons(x, p) = Cons(y, q) => x = y
  <2>1. Cons(x, p)[1] = x /\ Cons(y, q)[1] = y
    BY <1>1
  <2> QED BY <2>1
<1>5. /\ Cons(x, p) \in Seq(Addresses)
      /\ Len(Cons(x, p)) = Len(p) + 1
      /\ Cons(x, p)[1] = x
      /\ \A i \in 1 .. Len(p) : Cons(x, p)[i + 1] = p[i]
  BY <1>1
<1> QED BY <1>2, <1>3, <1>4, <1>5

\* What there is from a position on, in terms of what there is behind it.
LEMMA FramesParts ==
  ASSUME NEW s \in Seq(Ptrs), NEW i \in 1 .. Len(s)
  PROVE  /\ FramesFrom(s)[i + 1] \in Seq(Addresses)
         /\ FramesFrom(s)[i] \in Seq(Addresses)
         /\ s[i] = Null => FramesFrom(s)[i] = FramesFrom(s)[i + 1]
         /\ s[i] # Null => /\ s[i] \in Addresses
                           /\ FramesFrom(s)[i] = Cons(s[i], FramesFrom(s)[i + 1])
<1>1. FramesFrom(s) \in [1 .. Len(s) + 1 -> Seq(Addresses)]
  BY FramesFromIs
<1>2. i + 1 \in 1 .. Len(s) + 1 /\ i \in 1 .. Len(s) + 1
  OBVIOUS
<1>3. FramesFrom(s)[i + 1] \in Seq(Addresses) /\ FramesFrom(s)[i] \in Seq(Addresses)
  BY <1>1, <1>2
<1>4. s[i] \in Ptrs
  OBVIOUS
<1>5. Resolves(FramesFrom(s), s)
  BY FramesFromIs
<1> QED BY <1>3, <1>4, <1>5 DEF Resolves, Ptrs

\* There is nothing behind the last one.
LEMMA FramesEnd ==
  ASSUME NEW s \in Seq(Ptrs)
  PROVE  FramesFrom(s)[Len(s) + 1] = <<>>
BY FramesFromIs DEF Resolves

\* The frames from a position on are the last ones of all frames.
LEMMA FramesFromIsSuffix ==
  ASSUME NEW s \in Seq(Ptrs), NEW i \in 1 .. Len(s) + 1
  PROVE  \E m \in 1 .. Len(Frames(s)) + 1 :
           FramesFrom(s)[i] = SubSeq(Frames(s), m, Len(Frames(s)))
<1> DEFINE F == Frames(s)
           Suffix(n, m) == FramesFrom(s)[n] = SubSeq(F, m, Len(F))
           T == {n \in Nat : n + 1 <= Len(s) + 1 => \E m \in 1 .. Len(F) + 1 : Suffix(n + 1, m)}
<1>1. FramesFrom(s) \in [1 .. Len(s) + 1 -> Seq(Addresses)] /\ Resolves(FramesFrom(s), s)
  BY FramesFromIs
<1>2. F \in Seq(Addresses) /\ F = FramesFrom(s)[1]
  BY <1>1 DEF Frames
<1> HIDE DEF F
<1>3. 0 \in T
  <2>1. SubSeq(F, 1, Len(F)) = F
    BY <1>2
  <2> QED BY <1>2, <2>1
<1>4. ASSUME NEW n \in Nat, n \in T PROVE n + 1 \in T
  <2> SUFFICES ASSUME n + 1 + 1 <= Len(s) + 1
               PROVE  \E m \in 1 .. Len(F) + 1 : Suffix(n + 1 + 1, m)
    OBVIOUS
  <2>1. PICK m \in 1 .. Len(F) + 1 : Suffix(n + 1, m)
    BY <1>4
  <2>2. n + 1 \in 1 .. Len(s) /\ s[n + 1] \in Ptrs
    OBVIOUS
  <2>3. CASE s[n + 1] = Null
    BY <1>1, <2>1, <2>2, <2>3 DEF Resolves
  <2>4. CASE s[n + 1] # Null
    <3> DEFINE R == FramesFrom(s)[n + 1 + 1]
    <3>1. R \in Seq(Addresses) /\ s[n + 1] \in Addresses
      BY <2>2, <2>4, FramesParts
    <3>2. SubSeq(F, m, Len(F)) = Cons(s[n + 1], R)
      BY <2>1, <2>2, <2>4, FramesParts
    <3> HIDE DEF R
    <3>3. Len(Cons(s[n + 1], R)) = Len(R) + 1 /\ \A j \in 1 .. Len(R) : Cons(s[n + 1], R)[j + 1] = R[j]
      BY <3>1, ConsParts
    <3>4. m <= Len(F) /\ Len(R) = Len(F) - m
      BY <1>2, <3>1, <3>2, <3>3
    <3>5. \A j \in 1 .. Len(R) : R[j] = F[m + j]
      BY <1>2, <3>1, <3>2, <3>3, <3>4
    <3>6. R = SubSeq(F, m + 1, Len(F))
      BY <1>2, <3>1, <3>4, <3>5
    <3>7. Suffix(n + 1 + 1, m + 1)
      BY <3>6 DEF R
    <3>8. m + 1 \in 1 .. Len(F) + 1
      BY <1>2, <3>4
    <3> HIDE DEF Suffix
    <3> QED BY <3>7, <3>8
  <2> QED BY <2>3, <2>4
<1>5. \A n \in Nat : n \in T
  <2> HIDE DEF T
  <2> QED BY <1>3, <1>4, NumberInduction
<1>6. i - 1 \in Nat /\ i - 1 + 1 = i /\ i - 1 + 1 <= Len(s) + 1
  OBVIOUS
<1>7. i - 1 \in T
  BY <1>5, <1>6
<1> QED BY <1>6, <1>7 DEF F

-----------------------------------------------------------------------------

\* Where the search stands in table after each frame of s from position lo on, root
\* first: at the first stack of the frame's function from where it stood before.
Walk(s, lo, g, table) ==
  /\ \A i \in lo .. Len(s) + 1 : g[i] \in Nat
  /\ g[Len(s) + 1] = 1
  /\ \A i \in lo .. Len(s) : s[i] = Null => g[i] = g[i + 1]
  /\ \A i \in lo .. Len(s) : s[i] # Null =>
       /\ g[i] \in DOMAIN table
       /\ g[i + 1] <= g[i]
       /\ table[g[i]].instruction_ptr = s[i]
       /\ \A j \in DOMAIN table :
            g[i + 1] <= j /\ j < g[i] => table[j].instruction_ptr # s[i]

\* The search for the same frames stands at the same stack.
LEMMA SameFramesSameWalk ==
  ASSUME NEW s \in Seq(Ptrs), NEW t \in Seq(Ptrs), NEW table,
         NEW g, NEW h,
         NEW lo \in 1 .. Len(s) + 1, NEW lo2 \in 1 .. Len(t) + 1,
         Walk(s, lo, g, table), Walk(t, lo2, h, table),
         NEW i \in lo .. Len(s) + 1, NEW j \in lo2 .. Len(t) + 1,
         FramesFrom(s)[i] = FramesFrom(t)[j]
  PROVE  g[i] = h[j]
<1> DEFINE Same(k, l) == FramesFrom(s)[k] = FramesFrom(t)[l] => g[k] = h[l]
           T == {n \in Nat : \A k \in lo .. Len(s) + 1, l \in lo2 .. Len(t) + 1 :
                   (Len(s) + 1 - k) + (Len(t) + 1 - l) <= n => Same(k, l)}
<1>0. Len(s) \in Nat /\ Len(t) \in Nat /\ lo \in Nat \ {0} /\ lo2 \in Nat \ {0}
  OBVIOUS
<1>1. /\ FramesFrom(s) \in [1 .. Len(s) + 1 -> Seq(Addresses)] /\ Resolves(FramesFrom(s), s)
      /\ FramesFrom(t) \in [1 .. Len(t) + 1 -> Seq(Addresses)] /\ Resolves(FramesFrom(t), t)
  BY FramesFromIs
<1>2. ASSUME NEW k \in lo .. Len(s) + 1, NEW l \in lo2 .. Len(t) + 1,
             FramesFrom(s)[k] = FramesFrom(t)[l],
             k <= Len(s) => Same(k + 1, l),
             l <= Len(t) => Same(k, l + 1),
             k <= Len(s) /\ l <= Len(t) => Same(k + 1, l + 1)
      PROVE  g[k] = h[l]
  <2>1. CASE k <= Len(s) /\ s[k] = Null
    BY <1>0, <1>1, <1>2, <2>1 DEF Resolves, Walk
  <2>2. CASE l <= Len(t) /\ t[l] = Null
    BY <1>0, <1>1, <1>2, <2>2 DEF Resolves, Walk
  <2>3. CASE k <= Len(s) /\ s[k] # Null /\ l <= Len(t) /\ t[l] # Null
    <3> DEFINE p == FramesFrom(s)[k + 1]
               q == FramesFrom(t)[l + 1]
    <3>0. k \in 1 .. Len(s) /\ l \in 1 .. Len(t)
      BY <1>0, <2>3
    <3>1. s[k] \in Addresses /\ p \in Seq(Addresses) /\ FramesFrom(s)[k] = Cons(s[k], p)
      BY <2>3, <3>0, FramesParts
    <3>2. t[l] \in Addresses /\ q \in Seq(Addresses) /\ FramesFrom(t)[l] = Cons(t[l], q)
      BY <2>3, <3>0, FramesParts
    <3> HIDE DEF p, q
    <3>3. s[k] = t[l] /\ p = q
      <4> DEFINE x == s[k]
                 y == t[l]
      <4>1. x \in Addresses /\ y \in Addresses /\ Cons(x, p) = Cons(y, q)
        BY <1>2, <3>1, <3>2
      <4> HIDE DEF x, y
      <4>2. x = y /\ p = q
        BY <3>1, <3>2, <4>1, ConsParts
      <4> QED BY <4>2 DEF x, y
    <3>4. g[k + 1] = h[l + 1]
      BY <1>2, <2>3, <3>3 DEF p, q
    <3>5. g[k] \in Nat /\ h[l] \in Nat
      BY DEF Walk
    <3>6. /\ g[k] \in DOMAIN table /\ g[k + 1] <= g[k]
          /\ table[g[k]].instruction_ptr = s[k]
          /\ \A e \in DOMAIN table :
               g[k + 1] <= e /\ e < g[k] => table[e].instruction_ptr # s[k]
      BY <2>3 DEF Walk
    <3>7. /\ h[l] \in DOMAIN table /\ h[l + 1] <= h[l]
          /\ table[h[l]].instruction_ptr = t[l]
          /\ \A e \in DOMAIN table :
               h[l + 1] <= e /\ e < h[l] => table[e].instruction_ptr # t[l]
      BY <2>3 DEF Walk
    <3>8. ~ (g[k] < h[l]) /\ ~ (h[l] < g[k])
      BY <3>3, <3>4, <3>6, <3>7
    <3> QED BY <3>5, <3>8
  <2>4. CASE k = Len(s) + 1 /\ l <= Len(t) /\ t[l] # Null
    <3> DEFINE q == FramesFrom(t)[l + 1]
    <3>0. l \in 1 .. Len(t)
      BY <1>0, <2>4
    <3>1. t[l] \in Addresses /\ q \in Seq(Addresses) /\ FramesFrom(t)[l] = Cons(t[l], q)
      BY <2>4, <3>0, FramesParts
    <3>2. FramesFrom(s)[k] = <<>>
      BY <2>4, FramesEnd
    <3> HIDE DEF q
    <3>3. Cons(t[l], q) # <<>>
      BY <3>1, ConsParts
    <3> QED BY <1>2, <3>1, <3>2, <3>3
  <2>5. CASE k <= Len(s) /\ s[k] # Null /\ l = Len(t) + 1
    <3> DEFINE p == FramesFrom(s)[k + 1]
    <3>0. k \in 1 .. Len(s)
      BY <1>0, <2>5
    <3>1. s[k] \in Addresses /\ p \in Seq(Addresses) /\ FramesFrom(s)[k] = Cons(s[k], p)
      BY <2>5, <3>0, FramesParts
    <3>2. FramesFrom(t)[l] = <<>>
      BY <2>5, FramesEnd
    <3> HIDE DEF p
    <3>3. Cons(s[k], p) # <<>>
      BY <3>1, ConsParts
    <3> QED BY <1>2, <3>1, <3>2, <3>3
  <2>6. CASE k = Len(s) + 1 /\ l = Len(t) + 1
    BY <2>6 DEF Walk
  <2>7. (k <= Len(s) \/ k = Len(s) + 1) /\ (l <= Len(t) \/ l = Len(t) + 1)
    BY <1>0
  <2>8. \/ k <= Len(s) /\ s[k] = Null
        \/ l <= Len(t) /\ t[l] = Null
        \/ k <= Len(s) /\ s[k] # Null /\ l <= Len(t) /\ t[l] # Null
        \/ k = Len(s) + 1 /\ l <= Len(t) /\ t[l] # Null
        \/ k <= Len(s) /\ s[k] # Null /\ l = Len(t) + 1
        \/ k = Len(s) + 1 /\ l = Len(t) + 1
    BY <2>7
  <2> QED BY <2>1, <2>2, <2>3, <2>4, <2>5, <2>6, <2>8
<1> HIDE DEF Same
<1>3. 0 \in T
  <2> SUFFICES ASSUME NEW k \in lo .. Len(s) + 1, NEW l \in lo2 .. Len(t) + 1,
                      (Len(s) + 1 - k) + (Len(t) + 1 - l) <= 0
               PROVE  Same(k, l)
    OBVIOUS
  <2>1. k = Len(s) + 1 /\ l = Len(t) + 1
    BY <1>0
  <2> QED BY <2>1 DEF Walk, Same
<1>4. ASSUME NEW n \in Nat, n \in T PROVE n + 1 \in T
  <2> SUFFICES ASSUME NEW k \in lo .. Len(s) + 1, NEW l \in lo2 .. Len(t) + 1,
                      (Len(s) + 1 - k) + (Len(t) + 1 - l) <= n + 1
               PROVE  Same(k, l)
    OBVIOUS
  <2>1. k <= Len(s) => Same(k + 1, l)
    BY <1>0, <1>4
  <2>2. l <= Len(t) => Same(k, l + 1)
    BY <1>0, <1>4
  <2>3. ASSUME k <= Len(s), l <= Len(t) PROVE Same(k + 1, l + 1)
    <3>1. k + 1 \in lo .. Len(s) + 1 /\ l + 1 \in lo2 .. Len(t) + 1
      BY <1>0, <2>3
    <3>2. (Len(s) + 1 - (k + 1)) + (Len(t) + 1 - (l + 1)) <= n
      BY <1>0, <2>3
    <3> QED BY <1>4, <3>1, <3>2
  <2> QED BY <1>2, <2>1, <2>2, <2>3 DEF Same
<1>5. \A n \in Nat : n \in T
  <2> HIDE DEF T
  <2> QED BY <1>3, <1>4, NumberInduction
<1>6. (Len(s) + 1 - i) + (Len(t) + 1 - j) \in Nat
  BY <1>0
<1>7. Same(i, j)
  <2>1. (Len(s) + 1 - i) + (Len(t) + 1 - j) \in T
    BY <1>5, <1>6
  <2> QED BY <1>6, <2>1
<1> QED BY <1>7 DEF Same

-----------------------------------------------------------------------------
(* The ways of the searches.                                               *)

\* The search has come to this frame of sample k.
Reached(k) == IF k \in Done THEN 1 ELSE frame + 1

\* p is the stack that calls what comes before position i of s: that of the next
\* frame from there on, or none.
CalledFrom(s, i, g, p) ==
  \/ p = 0 /\ FramesFrom(s)[i] = <<>>
  \/ \E c \in i .. Len(s) :
       s[c] # Null /\ g[c] = p /\ FramesFrom(s)[c] = FramesFrom(s)[i]

\* Entry x was pushed for a frame of a sample, under that frame's caller.
PushedFor(x, W) ==
  \E k \in DOMAIN samples : \E i \in Reached(k) .. Len(samples[k]) :
    /\ samples[k][i] # Null
    /\ samples[k][i] = stack_table[x].instruction_ptr
    /\ W[k][i] = x
    /\ CalledFrom(samples[k], i + 1, W[k], stack_table[x].prefix)

\* W is the way of every search so far: of those that are done, and of the one at
\* hand as far as it has come.  Every stack of the table is on one of them.
Walks(W) ==
  /\ \A k \in DOMAIN samples : Walk(samples[k], Reached(k), W[k], stack_table)
  /\ \A k \in Done : buffer_entry_to_stack_table[k] = W[k][1]
  /\ \A x \in DOMAIN stack_table : PushedFor(x, W)

\* The search at hand, which so far has gone along g.
AtHand(g) ==
  /\ CalledFrom(ThisSample, frame + 1, g, last_matching_stack_index)
  /\ frame = 0 \/ InstructionPtr = Null =>
       stack_index = g[frame + 1] \/ (stack_index = 0 /\ g[frame + 1] = 1)
  /\ Working =>
       /\ g[frame + 1] <= stack_index \/ (stack_index = 0 /\ g[frame + 1] = 1)
       /\ \A j \in DOMAIN stack_table :
            g[frame + 1] <= j /\ j < stack_index =>
              InstructionPtr # Null /\ stack_table[j].instruction_ptr # InstructionPtr

\* Every search went along one way through the table, which can still be gone.
Walked ==
  \E W : Walks(W) /\ (Len(samples) # Len(buffer_entry_to_stack_table) => AtHand(W[Len(samples)]))

\* table2 is table, or what pushes have made of it.
Extends(table, table2) ==
  Len(table) <= Len(table2) /\ \A j \in DOMAIN table : table2[j] = table[j]

\* A longer table leaves a search as it was, up to where it had come.
LEMMA WalkKept ==
  ASSUME NEW s \in Seq(Ptrs), NEW lo \in Nat \ {0}, NEW g, NEW h,
         NEW table \in Seq(StackForSerialization), NEW table2 \in Seq(StackForSerialization),
         Extends(table, table2),
         Walk(s, lo, g, table),
         \A i \in lo .. Len(s) + 1 : h[i] = g[i],
         lo <= Len(s) + 1
  PROVE  Walk(s, lo, h, table2)
<1>1. /\ DOMAIN table = 1 .. Len(table) /\ Len(table) \in Nat
      /\ DOMAIN table2 = 1 .. Len(table2) /\ Len(table2) \in Nat
      /\ Len(s) \in Nat
  OBVIOUS
<1>2. /\ \A i \in lo .. Len(s) : h[i] = g[i] /\ h[i + 1] = g[i + 1]
      /\ h[Len(s) + 1] = g[Len(s) + 1]
  BY <1>1
<1>3. h[Len(s) + 1] = 1 /\ \A i \in lo .. Len(s) + 1 : h[i] \in Nat
  BY <1>1, <1>2 DEF Walk
<1>4. \A i \in lo .. Len(s) : s[i] = Null => h[i] = h[i + 1]
  BY <1>1, <1>2 DEF Walk
<1>5. ASSUME NEW i \in lo .. Len(s), s[i] # Null
      PROVE  /\ h[i] \in DOMAIN table2
             /\ h[i + 1] <= h[i]
             /\ table2[h[i]].instruction_ptr = s[i]
             /\ \A j \in DOMAIN table2 :
                  h[i + 1] <= j /\ j < h[i] => table2[j].instruction_ptr # s[i]
  <2>1. /\ g[i] \in DOMAIN table
        /\ g[i + 1] <= g[i]
        /\ table[g[i]].instruction_ptr = s[i]
        /\ \A j \in DOMAIN table :
             g[i + 1] <= j /\ j < g[i] => table[j].instruction_ptr # s[i]
    BY <1>5 DEF Walk
  <2>2. h[i] = g[i] /\ h[i + 1] = g[i + 1]
    BY <1>2
  <2>3. ASSUME NEW j \in DOMAIN table2, g[i + 1] <= j, j < g[i]
        PROVE  table2[j].instruction_ptr # s[i]
    <3>1. j \in DOMAIN table
      BY <1>1, <2>1, <2>3
    <3> QED BY <2>1, <2>3, <3>1 DEF Extends
  <2>4. g[i] \in DOMAIN table2 /\ table2[g[i]] = table[g[i]]
    BY <1>1, <2>1 DEF Extends
  <2> QED BY <2>1, <2>2, <2>3, <2>4
<1> QED BY <1>3, <1>4, <1>5 DEF Walk

\* So does what a frame's caller is.
LEMMA CalledFromKept ==
  ASSUME NEW s, NEW i, NEW g, NEW h, NEW p, CalledFrom(s, i, g, p),
         \A c \in i .. Len(s) : h[c] = g[c]
  PROVE  CalledFrom(s, i, h, p)
BY DEF CalledFrom

\* A sample that can be worked on is one of the buffer, as its frames are.
LEMMA SampleParts ==
  ASSUME TypeOK, Progress, NEW k \in DOMAIN samples
  PROVE  /\ samples[k] \in Seq(Ptrs)
         /\ Len(samples[k]) \in Nat \ {0}
         /\ k \in Nat
         /\ Reached(k) \in 1 .. Len(samples[k]) + 1
         /\ k \notin Done => k = Len(samples) /\ Len(samples) # Len(buffer_entry_to_stack_table)
<1>1. samples[k] \in NativeStacks
  BY DEF TypeOK
<1>2. samples[k] \in Seq(Ptrs) /\ Len(samples[k]) \in Nat \ {0}
  BY <1>1, NativeStack DEF Ptrs
<1>3. k \in Nat /\ (k \notin Done => k = Len(samples) /\ Len(samples) # Len(buffer_entry_to_stack_table))
  BY DEF TypeOK, Progress, Done
<1>4. Reached(k) \in 1 .. Len(samples[k]) + 1
  <2>1. CASE k \in Done
    BY <1>2, <2>1 DEF Reached
  <2>2. CASE k \notin Done
    <3>1. samples[k] = ThisSample /\ Reached(k) = frame + 1 /\ frame \in Nat
      BY <1>3, <2>2 DEF Reached, ThisSample, TypeOK
    <3>2. frame <= Len(ThisSample)
      BY <1>2, <3>1 DEF Progress, Working
    <3> QED BY <1>2, <3>1, <3>2
  <2> QED BY <2>1, <2>2
<1> QED BY <1>2, <1>3, <1>4

\* V is W with v for frame f of sample K.
Continued(V, W, K, f, v) ==
  \A k, i \in Nat : V[k][i] = IF k = K /\ i = f THEN v ELSE W[k][i]

\* One frame further: the search of the sample at hand goes on to v, and the others
\* stay as they are.
LEMMA FrameWalked ==
  ASSUME Inv, stack_table' \in Seq(StackForSerialization), Extends(stack_table, stack_table'),
         Working, NextFrame, UNCHANGED <<samples, buffer_entry_to_stack_table>>,
         NEW K, K = Len(samples), NEW W, Walks(W), NEW v \in Nat, NEW V,
         Continued(V, W, K, frame, v),
         InstructionPtr = Null => v = W[K][frame + 1],
         InstructionPtr # Null =>
           /\ v \in DOMAIN stack_table'
           /\ W[K][frame + 1] <= v
           /\ stack_table'[v].instruction_ptr = InstructionPtr
           /\ \A j \in DOMAIN stack_table' :
                W[K][frame + 1] <= j /\ j < v => stack_table'[j].instruction_ptr # InstructionPtr
  PROVE  /\ \A k \in DOMAIN samples' : Walk(samples'[k], Reached(k)', V[k], stack_table')
         /\ \A k \in Done' : buffer_entry_to_stack_table'[k] = V[k][1]
         /\ \A x \in DOMAIN stack_table :
              stack_table'[x] = stack_table[x] => PushedFor(x, V)'
<1> USE DEF Inv
<1>1. /\ K \in DOMAIN samples /\ K \notin Done
      /\ Reached(K) = frame + 1 /\ Reached(K)' = frame
      /\ frame \in 1 .. Len(samples[K]) /\ frame \in Nat \ {0} /\ K \in Nat
      /\ samples[K][frame] = InstructionPtr
  <2>1. K \in DOMAIN samples /\ K \notin Done /\ K \in Nat /\ frame \in Nat \ {0}
    BY DEF Progress, Working, Done, TypeOK
  <2>2. Reached(K) = frame + 1 /\ Reached(K)' = frame
    BY <2>1 DEF Reached, NextFrame, Done
  <2>3. samples[K] = ThisSample /\ samples[K][frame] = InstructionPtr
    BY DEF ThisSample, InstructionPtr
  <2>4. frame <= Len(samples[K])
    BY <2>3 DEF Progress
  <2>5. Len(samples[K]) \in Nat
    BY <2>1, SampleParts
  <2> QED BY <2>1, <2>2, <2>3, <2>4, <2>5
<1>2. \A k \in DOMAIN samples : k # K => k \in Done /\ Reached(k) = 1 /\ Reached(k)' = 1
  BY SampleParts DEF Done, Reached
<1>3. ASSUME NEW k \in DOMAIN samples, NEW i \in Nat, i >= Reached(k)
      PROVE  V[k][i] = W[k][i]
  <2>1. k \in Nat
    BY SampleParts
  <2>2. k = K => i # frame
    BY <1>1, <1>3
  <2> QED BY <2>1, <2>2 DEF Continued
<1>4. ASSUME NEW k \in DOMAIN samples
      PROVE  Walk(samples[k], Reached(k), V[k], stack_table')
  <2>1. Walk(samples[k], Reached(k), W[k], stack_table)
    BY DEF Walks
  <2>2. /\ samples[k] \in Seq(Ptrs) /\ Len(samples[k]) \in Nat
        /\ Reached(k) \in Nat \ {0} /\ Reached(k) <= Len(samples[k]) + 1
    BY SampleParts
  <2>3. \A i \in Reached(k) .. Len(samples[k]) + 1 : V[k][i] = W[k][i]
    BY <1>3, <2>2
  <2>4. stack_table \in Seq(StackForSerialization)
    BY DEF TypeOK
  <2> QED BY <2>1, <2>2, <2>3, <2>4, WalkKept
<1>5. Walk(samples[K], frame, V[K], stack_table')
  <2>1. Walk(samples[K], frame + 1, V[K], stack_table')
    BY <1>1, <1>4
  <2>2. V[K][frame] = v /\ V[K][frame + 1] = W[K][frame + 1]
    BY <1>1 DEF Continued
  <2>3. Len(samples[K]) \in Nat
    BY <1>1, SampleParts
  <2>4. /\ \A i \in frame .. Len(samples[K]) : i = frame \/ i \in frame + 1 .. Len(samples[K])
        /\ \A i \in frame .. Len(samples[K]) + 1 : i = frame \/ i \in frame + 1 .. Len(samples[K]) + 1
    BY <1>1, <2>3
  <2>5. /\ \A i \in frame .. Len(samples[K]) + 1 : V[K][i] \in Nat
        /\ V[K][Len(samples[K]) + 1] = 1
    BY <2>1, <2>2, <2>4 DEF Walk
  <2>6. \A i \in frame .. Len(samples[K]) : samples[K][i] = Null => V[K][i] = V[K][i + 1]
    BY <1>1, <2>1, <2>2, <2>4 DEF Walk
  <2>7. ASSUME NEW i \in frame .. Len(samples[K]), samples[K][i] # Null
        PROVE  /\ V[K][i] \in DOMAIN stack_table'
               /\ V[K][i + 1] <= V[K][i]
               /\ stack_table'[V[K][i]].instruction_ptr = samples[K][i]
               /\ \A j \in DOMAIN stack_table' :
                    V[K][i + 1] <= j /\ j < V[K][i] =>
                      stack_table'[j].instruction_ptr # samples[K][i]
    <3>1. CASE i = frame
      BY <1>1, <2>2, <2>7, <3>1
    <3>2. CASE i \in frame + 1 .. Len(samples[K])
      BY <2>1, <2>7, <3>2 DEF Walk
    <3> QED BY <2>4, <3>1, <3>2
  <2> QED BY <2>5, <2>6, <2>7 DEF Walk
<1>6. \A k \in DOMAIN samples' : Walk(samples'[k], Reached(k)', V[k], stack_table')
  BY <1>1, <1>2, <1>4, <1>5
<1>7. ASSUME NEW k \in Done PROVE buffer_entry_to_stack_table[k] = V[k][1]
  <2>1. k \in DOMAIN samples /\ Reached(k) = 1
    BY DEF Done, Reached, Progress, TypeOK
  <2>2. V[k][1] = W[k][1]
    BY <1>3, <2>1
  <2> QED BY <2>2 DEF Walks
<1>8. ASSUME NEW x \in DOMAIN stack_table, stack_table'[x] = stack_table[x]
      PROVE PushedFor(x, V)'
  <2>0. PICK k \in DOMAIN samples : \E i \in Reached(k) .. Len(samples[k]) :
          /\ samples[k][i] # Null
          /\ samples[k][i] = stack_table[x].instruction_ptr
          /\ W[k][i] = x
          /\ CalledFrom(samples[k], i + 1, W[k], stack_table[x].prefix)
    BY DEF Walks, PushedFor
  <2>1. PICK i \in Reached(k) .. Len(samples[k]) :
          /\ samples[k][i] # Null
          /\ samples[k][i] = stack_table[x].instruction_ptr
          /\ W[k][i] = x
          /\ CalledFrom(samples[k], i + 1, W[k], stack_table[x].prefix)
    BY <2>0
  <2>2. Reached(k) \in Nat \ {0} /\ Len(samples[k]) \in Nat
    BY SampleParts
  <2>3. V[k][i] = W[k][i] /\ \A c \in i + 1 .. Len(samples[k]) : V[k][c] = W[k][c]
    BY <1>3, <2>2
  <2>4. CalledFrom(samples[k], i + 1, V[k], stack_table[x].prefix)
    BY <2>1, <2>3, CalledFromKept
  <2>5. Reached(k)' <= Reached(k) /\ Reached(k)' \in Nat
    BY <1>1, <1>2
  <2>6. i \in Reached(k)' .. Len(samples[k])
    BY <2>2, <2>5
  <2>7. k \in DOMAIN samples' /\ samples'[k] = samples[k]
    OBVIOUS
  <2>8. /\ samples'[k][i] # Null
        /\ samples'[k][i] = stack_table'[x].instruction_ptr
        /\ V[k][i] = x
        /\ CalledFrom(samples'[k], i + 1, V[k], stack_table'[x].prefix)
    BY <1>8, <2>1, <2>3, <2>4, <2>7
  <2> QED BY <2>6, <2>7, <2>8 DEF PushedFor
<1>9. Done' = Done /\ buffer_entry_to_stack_table' = buffer_entry_to_stack_table
  BY DEF Done
<1> QED BY <1>6, <1>7, <1>8, <1>9

\* There is one for any v.
LEMMA ContinuedExists ==
  ASSUME NEW W, NEW K, NEW f, NEW v
  PROVE  \E V : Continued(V, W, K, f, v)
<1> DEFINE V == [k \in Nat |-> [i \in Nat |-> IF k = K /\ i = f THEN v ELSE W[k][i]]]
<1>1. Continued(V, W, K, f, v)
  BY DEF Continued
<1> QED BY <1>1

\* A table is an extension of itself, and of what it was before a push.
LEMMA Extended ==
  ASSUME NEW table \in Seq(StackForSerialization)
  PROVE  /\ Extends(table, table)
         /\ \A e \in StackForSerialization : Extends(table, Append(table, e))
<1>1. Extends(table, table)
  BY DEF Extends
<1>2. ASSUME NEW e \in StackForSerialization PROVE Extends(table, Append(table, e))
  BY Pushed DEF Extends
<1> QED BY <1>1, <1>2

\* Nothing was searched for.
LEMMA InitWalked == Init => Walked
<1> SUFFICES ASSUME Init PROVE Walked
  OBVIOUS
<1>1. samples = <<>> /\ Done = {} /\ DOMAIN stack_table = {}
  BY DEF Init, Done
<1>2. Len(samples) = Len(buffer_entry_to_stack_table)
  BY DEF Init
<1>3. Walks(0)
  BY <1>1 DEF Walks
<1> QED BY <1>2, <1>3 DEF Walked

\* A new search starts at the first stack, or in an empty table.
LEMMA NextSampleWalked ==
  ASSUME Inv, Inv', Walked, NextSample
  PROVE  Walked'
<1> USE DEF Inv
<1>1. PICK W : Walks(W)
  BY DEF Walked
<1>2. PICK s \in NativeStacks : samples' = Append(samples, s) /\ frame' = Len(s)
  BY DEF NextSample
<1>k. PICK K \in Nat : K = Len(samples) + 1
  BY DEF TypeOK
<1>v. PICK V : (\A i \in Nat : V[K][i] = 1) /\ \A k \in Nat : k # K => V[k] = W[k]
  <2>1. \E V : (\A i \in Nat : V[K][i] = 1) /\ \A k \in Nat : k # K => V[k] = W[k]
    <3> WITNESS [k \in Nat |-> IF k = K THEN [i \in Nat |-> 1] ELSE W[k]]
    <3> QED OBVIOUS
  <2> QED BY <2>1
<1>3. /\ samples' \in Seq(NativeStacks) /\ Len(samples') = K /\ samples'[K] = s
      /\ DOMAIN samples' = DOMAIN samples \cup {K}
      /\ \A k \in DOMAIN samples : samples'[k] = samples[k] /\ k # K
      /\ DOMAIN samples' \subseteq Nat
  <2>1. /\ samples' \in Seq(NativeStacks) /\ Len(samples') = K /\ samples'[K] = s
        /\ \A k \in 1 .. Len(samples) : samples'[k] = samples[k]
    BY <1>2, <1>k, Pushed DEF TypeOK
  <2>2. DOMAIN samples = 1 .. Len(samples) /\ Len(samples) \in Nat /\ DOMAIN samples' = 1 .. K
    BY <2>1 DEF TypeOK
  <2> QED BY <1>k, <2>1, <2>2
<1>4. Len(buffer_entry_to_stack_table) = Len(samples) /\ Done = DOMAIN samples /\ Done' = Done
  BY DEF NextSample, Done, TypeOK
<1>5. /\ s \in Seq(Ptrs) /\ Len(s) \in Nat \ {0} /\ Reached(K)' = Len(s) + 1
      /\ \A k \in DOMAIN samples : Reached(k) = 1 /\ Reached(k)' = 1
  BY <1>2, <1>3, <1>4, NativeStack DEF Reached, Ptrs
<1>6. UNCHANGED <<stack_table, stack_index, buffer_entry_to_stack_table>>
  BY DEF NextSample
<1>7. \A k \in DOMAIN samples : V[k] = W[k]
  BY <1>3, <1>v
<1>8. \A k \in DOMAIN samples' : Walk(samples'[k], Reached(k)', V[k], stack_table')
  <2>1. Walk(s, Len(s) + 1, V[K], stack_table)
    BY <1>5, <1>v DEF Walk
  <2>2. \A k \in DOMAIN samples : Walk(samples[k], 1, W[k], stack_table)
    BY <1>1, <1>5 DEF Walks
  <2> QED BY <1>3, <1>5, <1>6, <1>7, <2>1, <2>2
<1>9. \A k \in Done' : buffer_entry_to_stack_table'[k] = V[k][1]
  BY <1>1, <1>4, <1>6, <1>7 DEF Walks
<1>10. ASSUME NEW x \in DOMAIN stack_table PROVE PushedFor(x, V)'
  <2>0. PICK k \in DOMAIN samples : \E i \in Reached(k) .. Len(samples[k]) :
          /\ samples[k][i] # Null
          /\ samples[k][i] = stack_table[x].instruction_ptr
          /\ W[k][i] = x
          /\ CalledFrom(samples[k], i + 1, W[k], stack_table[x].prefix)
    BY <1>1 DEF Walks, PushedFor
  <2>1. k \in DOMAIN samples' /\ samples'[k] = samples[k] /\ V[k] = W[k] /\ Reached(k)' = Reached(k)
    BY <1>3, <1>5, <1>7
  <2> QED BY <1>6, <2>0, <2>1 DEF PushedFor
<1>11. Walks(V)'
  BY <1>6, <1>8, <1>9, <1>10 DEF Walks
<1>12. AtHand(V[K])'
  <2>1. ThisSample' = s /\ last_matching_stack_index' = 0 /\ frame' = Len(s)
    BY <1>2, <1>3 DEF ThisSample, NextSample
  <2>2. CalledFrom(s, Len(s) + 1, V[K], 0)
    BY <1>5, FramesEnd DEF CalledFrom
  <2>3. stack_index \in {0, 1}
    BY <1>4 DEF Searching, NextSample, TypeOK
  <2>4. V[K][frame' + 1] = 1
    BY <1>5, <1>v, <2>1
  <2>5. CalledFrom(ThisSample', frame' + 1, V[K], last_matching_stack_index')
    BY <2>1, <2>2
  <2>6. frame' # 0
    BY <1>5, <2>1
  <2>7. V[K][frame' + 1] <= stack_index' \/ (stack_index' = 0 /\ V[K][frame' + 1] = 1)
    BY <1>6, <2>3, <2>4
  <2>8. \A j \in DOMAIN stack_table' : ~ (V[K][frame' + 1] <= j /\ j < stack_index')
    BY <1>6, <2>3, <2>4 DEF TypeOK
  <2>9. stack_index' = V[K][frame' + 1] \/ (stack_index' = 0 /\ V[K][frame' + 1] = 1)
    BY <1>6, <2>3, <2>4
  <2> QED BY <2>5, <2>6, <2>7, <2>8, <2>9 DEF AtHand
<1> QED BY <1>3, <1>11, <1>12 DEF Walked

\* A null frame leaves the search where it is.
LEMMA SkipNullWalked ==
  ASSUME Inv, Inv', Walked, SkipNull
  PROVE  Walked'
<1> USE DEF Inv
<1>k. PICK K \in Nat : K = Len(samples)
  BY DEF TypeOK
<1>1. PICK W : Walks(W) /\ (K # Len(buffer_entry_to_stack_table) => AtHand(W[K]))
  BY <1>k DEF Walked
<1>2. /\ Working /\ NextFrame /\ InstructionPtr = Null /\ K # Len(buffer_entry_to_stack_table)
      /\ K \in DOMAIN samples /\ frame \in Nat \ {0}
      /\ InstructionPtr = ThisSample[frame] /\ frame <= Len(ThisSample)
  BY <1>k DEF SkipNull, Progress, Working, TypeOK, InstructionPtr
<1>3. UNCHANGED <<samples, stack_table, stack_index, last_matching_stack_index,
                  buffer_entry_to_stack_table>>
  BY DEF SkipNull
<1>4. /\ ThisSample = samples[K] /\ ThisSample' = ThisSample /\ ThisSample \in Seq(Ptrs)
      /\ Len(ThisSample) \in Nat
  BY <1>k, <1>2, <1>3, SampleParts DEF ThisSample
<1>v. PICK v : v = W[K][frame + 1]
  OBVIOUS
<1>5. v \in Nat
  <2>1. Reached(K) = frame + 1
    BY <1>k, <1>2, SampleParts DEF Reached, Working, Progress, Done
  <2>2. Walk(samples[K], frame + 1, W[K], stack_table)
    BY <1>1, <1>2, <2>1 DEF Walks
  <2> QED BY <1>2, <1>4, <1>v, <2>2 DEF Walk
<1>6. PICK V : Continued(V, W, K, frame, v)
  BY ContinuedExists
<1>7. /\ V[K][frame] = v
      /\ \A c \in frame + 1 .. Len(ThisSample) + 1 : V[K][c] = W[K][c]
  BY <1>2, <1>4, <1>6 DEF Continued
<1>8. Walks(V)'
  <2>1. stack_table' \in Seq(StackForSerialization) /\ Extends(stack_table, stack_table')
    BY <1>3, Extended DEF TypeOK
  <2>2. /\ \A k \in DOMAIN samples' : Walk(samples'[k], Reached(k)', V[k], stack_table')
        /\ \A k \in Done' : buffer_entry_to_stack_table'[k] = V[k][1]
        /\ \A x \in DOMAIN stack_table : stack_table'[x] = stack_table[x] => PushedFor(x, V)'
    BY <1>k, <1>v, <1>1, <1>2, <1>3, <1>5, <1>6, <2>1, FrameWalked
  <2> QED BY <1>3, <2>2 DEF Walks
<1>9. AtHand(V[K])'
  <2>1. CalledFrom(ThisSample, frame + 1, W[K], last_matching_stack_index)
    BY <1>1, <1>2 DEF AtHand
  <2>2. CalledFrom(ThisSample, frame + 1, V[K], last_matching_stack_index)
    BY <1>2, <1>4, <1>7, <2>1, CalledFromKept
  <2>3. FramesFrom(ThisSample)[frame] = FramesFrom(ThisSample)[frame + 1]
    BY <1>2, <1>4, FramesParts
  <2>4. CalledFrom(ThisSample, frame, V[K], last_matching_stack_index)
    BY <1>2, <1>4, <2>2, <2>3 DEF CalledFrom
  <2>5. frame' = frame - 1 /\ frame' + 1 = frame
    BY <1>2 DEF NextFrame
  <2>6. stack_index = v \/ (stack_index = 0 /\ v = 1)
    BY <1>1, <1>2, <1>v DEF AtHand
  <2>7. \A j \in DOMAIN stack_table : ~ (v <= j /\ j < stack_index)
    BY <1>1, <1>2, <1>v DEF AtHand
  <2>8. CalledFrom(ThisSample', frame' + 1, V[K], last_matching_stack_index')
    BY <1>3, <1>4, <2>4, <2>5
  <2>9. V[K][frame' + 1] = v
    BY <1>7, <2>5
  <2>10. v <= stack_index \/ (stack_index = 0 /\ v = 1)
    BY <1>5, <2>6
  <2> QED BY <1>3, <2>6, <2>7, <2>8, <2>9, <2>10 DEF AtHand
<1> QED BY <1>k, <1>3, <1>8, <1>9 DEF Walked

\* What the search at hand has: a sample, a frame of it, and the stack it stands at.
LEMMA SearchAtHand ==
  ASSUME Inv, NEW K, K = Len(samples), NEW W, Walks(W),
         K # Len(buffer_entry_to_stack_table) => AtHand(W[K]), Working
  PROVE  /\ K \in Nat /\ K \in DOMAIN samples /\ K \notin Done
         /\ K # Len(buffer_entry_to_stack_table)
         /\ AtHand(W[K])
         /\ frame \in 1 .. Len(ThisSample) /\ frame \in Nat \ {0}
         /\ ThisSample = samples[K] /\ ThisSample \in Seq(Ptrs) /\ Len(ThisSample) \in Nat
         /\ InstructionPtr = ThisSample[frame]
         /\ W[K][frame + 1] \in Nat
<1> USE DEF Inv
<1>1. K \in Nat /\ K \in DOMAIN samples /\ K \notin Done /\ frame \in Nat \ {0}
      /\ K # Len(buffer_entry_to_stack_table)
  BY DEF Progress, Working, Done, TypeOK
<1>2. ThisSample = samples[K] /\ ThisSample \in Seq(Ptrs) /\ Len(ThisSample) \in Nat
  BY <1>1, SampleParts DEF ThisSample
<1>3. frame <= Len(ThisSample)
  BY DEF Progress
<1>4. Walk(samples[K], frame + 1, W[K], stack_table)
  BY <1>1 DEF Walks, Reached
<1>5. W[K][frame + 1] \in Nat
  BY <1>1, <1>2, <1>3, <1>4 DEF Walk
<1> QED BY <1>1, <1>2, <1>3, <1>5 DEF InstructionPtr

\* The frame's stack is the next one that was not passed.
LEMMA MatchStackWalked ==
  ASSUME Inv, Inv', Walked, MatchStack
  PROVE  Walked'
<1> USE DEF Inv
<1>k. PICK K \in Nat : K = Len(samples)
  BY DEF TypeOK
<1>1. PICK W : Walks(W) /\ (K # Len(buffer_entry_to_stack_table) => AtHand(W[K]))
  BY <1>k DEF Walked
<1>2. /\ Working /\ NextFrame /\ InstructionPtr # Null
      /\ stack_index \in DOMAIN stack_table
      /\ stack_table[stack_index].instruction_ptr = InstructionPtr
      /\ last_matching_stack_index' = stack_index
      /\ UNCHANGED <<samples, stack_table, stack_index, buffer_entry_to_stack_table>>
  BY DEF MatchStack, HasStack
<1>3. /\ AtHand(W[K]) /\ K # Len(buffer_entry_to_stack_table)
      /\ frame \in 1 .. Len(ThisSample) /\ frame \in Nat \ {0}
      /\ ThisSample = samples[K] /\ ThisSample \in Seq(Ptrs) /\ Len(ThisSample) \in Nat
      /\ InstructionPtr = ThisSample[frame]
  BY <1>k, <1>1, <1>2, SearchAtHand
<1>4. ThisSample' = ThisSample /\ frame' = frame - 1 /\ frame' + 1 = frame
  BY <1>2, <1>3 DEF ThisSample, NextFrame
<1>v. PICK v : v = stack_index
  OBVIOUS
<1>5. /\ v \in Nat /\ v \in DOMAIN stack_table
      /\ W[K][frame + 1] <= v
      /\ stack_table[v].instruction_ptr = InstructionPtr
      /\ \A j \in DOMAIN stack_table :
           W[K][frame + 1] <= j /\ j < v => stack_table[j].instruction_ptr # InstructionPtr
  BY <1>2, <1>3, <1>v DEF AtHand, TypeOK
<1>6. PICK V : Continued(V, W, K, frame, v)
  BY ContinuedExists
<1>7. V[K][frame] = v
  BY <1>3, <1>6 DEF Continued
<1>8. Walks(V)'
  <2>1. stack_table' \in Seq(StackForSerialization) /\ Extends(stack_table, stack_table')
    BY <1>2, Extended DEF TypeOK
  <2>2. /\ \A k \in DOMAIN samples' : Walk(samples'[k], Reached(k)', V[k], stack_table')
        /\ \A k \in Done' : buffer_entry_to_stack_table'[k] = V[k][1]
        /\ \A x \in DOMAIN stack_table : stack_table'[x] = stack_table[x] => PushedFor(x, V)'
    BY <1>k, <1>1, <1>2, <1>5, <1>6, <2>1, FrameWalked
  <2> QED BY <1>2, <2>2 DEF Walks
<1>9. AtHand(V[K])'
  <2>1. CalledFrom(ThisSample, frame, V[K], v)
    BY <1>2, <1>3, <1>7 DEF CalledFrom
  <2>2. CalledFrom(ThisSample', frame' + 1, V[K], last_matching_stack_index')
    BY <1>2, <1>4, <1>v, <2>1
  <2>3. V[K][frame' + 1] = stack_index'
    BY <1>2, <1>3, <1>4, <1>7, <1>v
  <2>4. \A j \in DOMAIN stack_table' : ~ (V[K][frame' + 1] <= j /\ j < stack_index')
    BY <1>2, <1>v, <1>5, <2>3 DEF TypeOK
  <2> QED BY <1>2, <1>v, <1>5, <2>2, <2>3, <2>4 DEF AtHand
<1> QED BY <1>k, <1>2, <1>8, <1>9 DEF Walked

\* Another stack is passed.
LEMMA TryNextStackWalked ==
  ASSUME Inv, Inv', Walked, TryNextStack
  PROVE  Walked'
<1> USE DEF Inv
<1>k. PICK K \in Nat : K = Len(samples)
  BY DEF TypeOK
<1>1. PICK W : Walks(W) /\ (K # Len(buffer_entry_to_stack_table) => AtHand(W[K]))
  BY <1>k DEF Walked
<1>2. /\ Working /\ InstructionPtr # Null
      /\ stack_index \in DOMAIN stack_table
      /\ stack_table[stack_index].instruction_ptr # InstructionPtr
      /\ stack_index' = stack_index + 1
      /\ UNCHANGED <<samples, frame, stack_table, last_matching_stack_index,
                     buffer_entry_to_stack_table>>
  BY DEF TryNextStack, HasStack
<1>3. /\ AtHand(W[K]) /\ frame \in Nat \ {0} /\ W[K][frame + 1] \in Nat
  BY <1>k, <1>1, <1>2, SearchAtHand
<1>4. /\ ThisSample' = ThisSample /\ InstructionPtr' = InstructionPtr
      /\ Done' = Done /\ \A k \in DOMAIN samples : Reached(k)' = Reached(k)
  BY <1>2 DEF ThisSample, InstructionPtr, Done, Reached
<1>5. Walks(W)'
  <2>1. \A x \in DOMAIN stack_table : PushedFor(x, W)'
    BY <1>1, <1>2, <1>4 DEF Walks, PushedFor
  <2> QED BY <1>1, <1>2, <1>4, <2>1 DEF Walks
<1>6. AtHand(W[K])'
  <2>1. CalledFrom(ThisSample', frame' + 1, W[K], last_matching_stack_index')
    BY <1>2, <1>3, <1>4 DEF AtHand
  <2>2. W[K][frame' + 1] <= stack_index'
    BY <1>2, <1>3 DEF AtHand, TypeOK
  <2>3. ASSUME NEW j \in DOMAIN stack_table', W[K][frame' + 1] <= j, j < stack_index'
        PROVE  InstructionPtr' # Null /\ stack_table'[j].instruction_ptr # InstructionPtr'
    <3>1. j \in DOMAIN stack_table /\ W[K][frame + 1] <= j
      BY <1>2, <2>3
    <3>2. j < stack_index \/ j = stack_index
      BY <1>2, <2>3, <3>1 DEF TypeOK
    <3>3. j < stack_index => stack_table[j].instruction_ptr # InstructionPtr
      BY <1>2, <1>3, <3>1 DEF AtHand
    <3> QED BY <1>2, <1>4, <3>2, <3>3
  <2>4. frame' # 0 /\ InstructionPtr' # Null
    BY <1>2, <1>3, <1>4
  <2> QED BY <2>1, <2>2, <2>3, <2>4 DEF AtHand
<1> QED BY <1>k, <1>2, <1>5, <1>6 DEF Walked

\* The new stack is behind all others, so none has been passed by.
LEMMA PushStackWalked ==
  ASSUME Inv, Inv', Walked, PushStack
  PROVE  Walked'
<1> USE DEF Inv
<1>k. PICK K \in Nat : K = Len(samples)
  BY DEF TypeOK
<1>n. PICK n : n = Len(stack_table) + 1
  OBVIOUS
<1>1. PICK W : Walks(W) /\ (K # Len(buffer_entry_to_stack_table) => AtHand(W[K]))
  BY <1>k DEF Walked
<1> DEFINE new == [prefix |-> last_matching_stack_index, instruction_ptr |-> InstructionPtr]
<1>2. /\ Working /\ NextFrame /\ InstructionPtr # Null
      /\ stack_index \notin DOMAIN stack_table
      /\ stack_table' = Append(stack_table, new)
      /\ stack_index' = n /\ last_matching_stack_index' = n
      /\ UNCHANGED <<samples, buffer_entry_to_stack_table>>
  BY <1>n DEF PushStack, HasStack
<1>3. /\ AtHand(W[K]) /\ K # Len(buffer_entry_to_stack_table)
      /\ K \in DOMAIN samples /\ K \notin Done
      /\ frame \in 1 .. Len(ThisSample) /\ frame \in Nat \ {0}
      /\ ThisSample = samples[K] /\ ThisSample \in Seq(Ptrs) /\ Len(ThisSample) \in Nat
      /\ InstructionPtr = ThisSample[frame]
      /\ W[K][frame + 1] \in Nat
  BY <1>k, <1>1, <1>2, SearchAtHand
<1>4. ThisSample' = ThisSample /\ frame' = frame - 1 /\ frame' + 1 = frame
  BY <1>2, <1>3 DEF ThisSample, NextFrame
<1>5. new \in StackForSerialization
  BY <1>2, FrameAtHand DEF StackForSerialization, TypeOK
<1>6. /\ DOMAIN stack_table = 1 .. n - 1 /\ n \in Nat \ {0}
      /\ stack_table' \in Seq(StackForSerialization)
      /\ DOMAIN stack_table' = 1 .. n
      /\ stack_table'[n] = new
      /\ \A i \in DOMAIN stack_table : stack_table'[i] = stack_table[i]
      /\ Extends(stack_table, stack_table')
  <2>1. stack_table \in Seq(StackForSerialization) /\ Len(stack_table) \in Nat
    BY DEF TypeOK
  <2> HIDE DEF new
  <2>2. /\ stack_table' \in Seq(StackForSerialization) /\ Len(stack_table') = n
        /\ stack_table'[n] = new
        /\ \A i \in 1 .. Len(stack_table) : stack_table'[i] = stack_table[i]
    BY <1>n, <1>2, <1>5, <2>1, Pushed
  <2>3. Extends(stack_table, stack_table')
    BY <1>2, <1>5, <2>1, Extended
  <2> QED BY <1>n, <2>1, <2>2, <2>3
<1>7. stack_index = n \/ (stack_index = 0 /\ n = 1)
  BY <1>n, <1>2, <1>6 DEF TypeOK, NoneAtFirst
<1>8. /\ W[K][frame + 1] <= n
      /\ \A j \in DOMAIN stack_table :
           W[K][frame + 1] <= j /\ j < n => stack_table[j].instruction_ptr # InstructionPtr
  BY <1>2, <1>3, <1>6, <1>7 DEF AtHand
<1>9. /\ n \in DOMAIN stack_table'
      /\ stack_table'[n].instruction_ptr = InstructionPtr
      /\ stack_table'[n].prefix = last_matching_stack_index
      /\ \A j \in DOMAIN stack_table' :
           W[K][frame + 1] <= j /\ j < n => stack_table'[j].instruction_ptr # InstructionPtr
  BY <1>6, <1>8
<1>10. PICK V : Continued(V, W, K, frame, n)
  BY ContinuedExists
<1>11. V[K][frame] = n /\ \A c \in frame + 1 .. Len(ThisSample) : V[K][c] = W[K][c]
  BY <1>3, <1>10 DEF Continued
<1>12. /\ \A k \in DOMAIN samples' : Walk(samples'[k], Reached(k)', V[k], stack_table')
       /\ \A k \in Done' : buffer_entry_to_stack_table'[k] = V[k][1]
       /\ \A x \in DOMAIN stack_table : stack_table'[x] = stack_table[x] => PushedFor(x, V)'
  <2>1. /\ InstructionPtr = Null => n = W[K][frame + 1]
        /\ InstructionPtr # Null =>
             /\ n \in DOMAIN stack_table'
             /\ W[K][frame + 1] <= n
             /\ stack_table'[n].instruction_ptr = InstructionPtr
             /\ \A j \in DOMAIN stack_table' :
                  W[K][frame + 1] <= j /\ j < n => stack_table'[j].instruction_ptr # InstructionPtr
    BY <1>2, <1>8, <1>9
  <2>2. n \in Nat
    BY <1>6
  <2> HIDE DEF new
  <2> QED BY <1>k, <1>1, <1>2, <1>6, <1>10, <2>1, <2>2, FrameWalked
<1>13. PushedFor(n, V)'
  <2>1. CalledFrom(ThisSample, frame + 1, V[K], last_matching_stack_index)
    BY <1>3, <1>11, CalledFromKept DEF AtHand
  <2>2. Reached(K)' = frame
    BY <1>2, <1>3, <1>4 DEF Reached, Done
  <2>3. K \in DOMAIN samples' /\ samples'[K] = ThisSample /\ frame \in Reached(K)' .. Len(samples'[K])
    BY <1>2, <1>3, <2>2
  <2>4. /\ samples'[K][frame] # Null
        /\ samples'[K][frame] = stack_table'[n].instruction_ptr
        /\ V[K][frame] = n
        /\ CalledFrom(samples'[K], frame + 1, V[K], stack_table'[n].prefix)
    BY <1>2, <1>3, <1>9, <1>11, <2>1, <2>3
  <2>5. \E i \in Reached(K)' .. Len(samples'[K]) :
          /\ samples'[K][i] # Null
          /\ samples'[K][i] = stack_table'[n].instruction_ptr
          /\ V[K][i] = n
          /\ CalledFrom(samples'[K], i + 1, V[K], stack_table'[n].prefix)
    BY <2>3, <2>4
  <2> QED BY <2>3, <2>5 DEF PushedFor
<1>14. Walks(V)'
  <2>1. \A x \in DOMAIN stack_table' : PushedFor(x, V)'
    BY <1>6, <1>12, <1>13
  <2> QED BY <1>12, <2>1 DEF Walks
<1>15. AtHand(V[K])'
  <2>1. CalledFrom(ThisSample, frame, V[K], n)
    BY <1>2, <1>3, <1>11 DEF CalledFrom
  <2>2. CalledFrom(ThisSample', frame' + 1, V[K], last_matching_stack_index')
    BY <1>2, <1>4, <2>1
  <2>3. V[K][frame' + 1] = stack_index'
    BY <1>2, <1>3, <1>4, <1>11
  <2>4. \A j \in DOMAIN stack_table' : ~ (V[K][frame' + 1] <= j /\ j < stack_index')
    BY <1>2, <1>6, <2>3
  <2>5. V[K][frame' + 1] <= stack_index'
    BY <1>2, <1>6, <2>3
  <2> QED BY <2>2, <2>3, <2>4, <2>5 DEF AtHand
<1> QED BY <1>k, <1>2, <1>14, <1>15 DEF Walked

\* What is recorded is where the search ended.
LEMMA FinishSampleWalked ==
  ASSUME Inv, Inv', Walked, FinishSample
  PROVE  Walked'
<1> USE DEF Inv
<1>k. PICK K \in Nat : K = Len(samples)
  BY DEF TypeOK
<1>1. PICK W : Walks(W) /\ (K # Len(buffer_entry_to_stack_table) => AtHand(W[K]))
  BY <1>k DEF Walked
<1>2. /\ frame = 0
      /\ Len(buffer_entry_to_stack_table) + 1 = K
      /\ buffer_entry_to_stack_table' = Append(buffer_entry_to_stack_table, stack_index)
      /\ stack_index \in DOMAIN stack_table /\ stack_index # 0
      /\ UNCHANGED <<samples, frame, stack_table>>
  BY <1>k DEF FinishSample, Searched, Progress, Searching, Working, TypeOK
<1>3. /\ Len(buffer_entry_to_stack_table') = K
      /\ buffer_entry_to_stack_table'[K] = stack_index
      /\ \A k \in Done : buffer_entry_to_stack_table'[k] = buffer_entry_to_stack_table[k]
      /\ Done' = Done \cup {K}
  <2>1. /\ buffer_entry_to_stack_table \in Seq(DOMAIN stack_table)
        /\ Done = 1 .. Len(buffer_entry_to_stack_table) /\ Len(buffer_entry_to_stack_table) \in Nat
    BY DEF TypeOK, Done
  <2>2. /\ buffer_entry_to_stack_table' \in Seq(DOMAIN stack_table)
        /\ Len(buffer_entry_to_stack_table') = Len(buffer_entry_to_stack_table) + 1
        /\ buffer_entry_to_stack_table'[Len(buffer_entry_to_stack_table) + 1] = stack_index
        /\ \A k \in 1 .. Len(buffer_entry_to_stack_table) :
             buffer_entry_to_stack_table'[k] = buffer_entry_to_stack_table[k]
    BY <1>2, <2>1, Pushed
  <2>3. Done' = 1 .. K
    BY <1>2, <2>2 DEF Done
  <2> QED BY <1>2, <2>1, <2>2, <2>3
<1>4. stack_index = W[K][1]
  BY <1>1, <1>2, <1>3 DEF AtHand, TypeOK
<1>5. \A k \in DOMAIN samples : Reached(k)' = 1 /\ Reached(k) = 1
  BY <1>2 DEF Reached
<1>6. \A x \in DOMAIN stack_table : PushedFor(x, W)'
  BY <1>1, <1>2, <1>5 DEF Walks, PushedFor
<1>7. Walks(W)'
  BY <1>1, <1>2, <1>3, <1>4, <1>5, <1>6 DEF Walks
<1> QED BY <1>k, <1>2, <1>3, <1>7 DEF Walked

\* Where the search had come is where it stays.
LEMMA UnwrapNoneWalked ==
  ASSUME Inv, Inv', Walked, UnwrapNone
  PROVE  Walked'
BY DEF UnwrapNone, Walked, Walks, Done, Reached, PushedFor, AtHand, Working, ThisSample,
       InstructionPtr

\* Every state of the loop is one whose searches can be gone over again.
LEMMA WalkedHolds == Spec => [](Inv /\ Walked)
<1>1. Init => Inv /\ Walked
  BY InitInv, InitWalked
<1>2. Inv /\ Walked /\ [Next]_vars => Inv' /\ Walked'
  <2> SUFFICES ASSUME Inv, Walked, [Next]_vars PROVE Inv' /\ Walked'
    OBVIOUS
  <2>1. CASE Next
    <3>1. Inv'
      BY <2>1, NextSampleKeepsInv, SkipNullKeepsInv, MatchStackKeepsInv,
         TryNextStackKeepsInv, PushStackKeepsInv, FinishSampleKeepsInv, UnwrapNoneKeepsInv DEF Next
    <3>2. Walked'
      BY <2>1, <3>1, NextSampleWalked, SkipNullWalked, MatchStackWalked,
         TryNextStackWalked, PushStackWalked, FinishSampleWalked, UnwrapNoneWalked DEF Next
    <3> QED BY <3>1, <3>2
  <2>2. CASE UNCHANGED vars
    <3>1. Inv'
      BY <2>2 DEF vars, Inv, TypeOK, Progress, Searching, NoneAtFirst, Searched, WellOrdered,
                  Deduplicated, Working, ThisSample, InstructionPtr
    <3>2. Walked'
      BY <2>2 DEF vars, Walked, Walks, Done, Reached, PushedFor, AtHand, Working, ThisSample,
                  InstructionPtr
    <3> QED BY <3>1, <3>2
  <2> QED BY <2>1, <2>2
<1> QED BY <1>1, <1>2, PTL DEF Spec

\* Null frames at the leaf end change neither the frames nor where the search stands.
LEMMA NullsAtLeaf ==
  ASSUME NEW s \in Seq(Ptrs), NEW g, NEW table, Walk(s, 1, g, table),
         NEW i \in 1 .. Len(s) + 1, \A j \in 1 .. i - 1 : s[j] = Null
  PROVE  FramesFrom(s)[i] = Frames(s) /\ g[i] = g[1]
<1> DEFINE T == {n \in Nat : n < i => FramesFrom(s)[n + 1] = Frames(s) /\ g[n + 1] = g[1]}
<1>1. 0 \in T
  BY DEF Frames
<1>2. ASSUME NEW n \in Nat, n \in T PROVE n + 1 \in T
  <2> SUFFICES ASSUME n + 1 < i
               PROVE  FramesFrom(s)[n + 1 + 1] = Frames(s) /\ g[n + 1 + 1] = g[1]
    OBVIOUS
  <2>1. n + 1 \in 1 .. Len(s) /\ n + 1 \in 1 .. i - 1
    OBVIOUS
  <2>2. s[n + 1] = Null
    BY <2>1
  <2>3. FramesFrom(s)[n + 1 + 1] = FramesFrom(s)[n + 1]
    BY <2>1, <2>2, FramesParts
  <2>4. g[n + 1 + 1] = g[n + 1]
    BY <2>1, <2>2 DEF Walk
  <2> QED BY <1>2, <2>3, <2>4
<1>3. \A n \in Nat : n \in T
  <2> HIDE DEF T
  <2> QED BY <1>1, <1>2, NumberInduction
<1>4. i - 1 \in Nat /\ i - 1 < i /\ i - 1 + 1 = i
  OBVIOUS
<1>5. i - 1 \in T
  BY <1>3, <1>4
<1> QED BY <1>4, <1>5

\* Where a search ends: at the stack of the leaf-most frame that is not null, or, if
\* there is none, where it began.
LEMMA EndOfWalk ==
  ASSUME NEW s \in Seq(Ptrs), NEW g, NEW table, Walk(s, 1, g, table)
  PROVE  \/ /\ Frames(s) = <<>>
            /\ g[1] = 1
            /\ \A i \in 1 .. Len(s) : s[i] = Null
         \/ /\ Frames(s) # <<>>
            /\ \E i \in 1 .. Len(s) :
                 /\ s[i] # Null
                 /\ s[i] = Head(Frames(s))
                 /\ FramesFrom(s)[i] = Frames(s)
                 /\ g[i] = g[1]
<1> DEFINE T == {i \in 1 .. Len(s) : s[i] # Null}
<1>1. CASE T = {}
  <2>1. \A i \in 1 .. Len(s) : s[i] = Null
    BY <1>1
  <2>2. Len(s) + 1 \in 1 .. Len(s) + 1 /\ Len(s) + 1 - 1 = Len(s)
    OBVIOUS
  <2>3. FramesFrom(s)[Len(s) + 1] = Frames(s) /\ g[Len(s) + 1] = g[1]
    BY <2>1, <2>2, NullsAtLeaf
  <2> QED BY <2>1, <2>3, FramesEnd DEF Walk
<1>2. CASE T # {}
  <2>1. PICK i \in T : \A j \in T : i <= j
    <3>1. T \in SUBSET Nat
      OBVIOUS
    <3> HIDE DEF T
    <3> QED BY <1>2, <3>1, LeastNumber
  <2>2. i \in 1 .. Len(s) /\ i \in 1 .. Len(s) + 1 /\ s[i] # Null
    OBVIOUS
  <2>3. \A j \in 1 .. i - 1 : s[j] = Null
    BY <2>1
  <2>4. FramesFrom(s)[i] = Frames(s) /\ g[i] = g[1]
    BY <2>2, <2>3, NullsAtLeaf
  <2>5. PICK x \in Addresses, q \in Seq(Addresses) : x = s[i] /\ Frames(s) = Cons(x, q)
    BY <2>2, <2>4, FramesParts
  <2>6. Cons(x, q) # <<>> /\ Cons(x, q)[1] = x /\ Cons(x, q) \in Seq(Addresses)
    BY ConsParts
  <2>7. Frames(s) # <<>> /\ Head(Frames(s)) = s[i]
    BY <2>5, <2>6
  <2> QED BY <2>2, <2>4, <2>7
<1> QED BY <1>1, <1>2

\* The way of the search for a sample that is done, and what is recorded of it.
LEMMA DoneParts ==
  ASSUME Inv, NEW W, Walks(W), NEW k \in Done
  PROVE  /\ k \in DOMAIN samples /\ Reached(k) = 1 /\ samples[k] \in Seq(Ptrs)
         /\ Walk(samples[k], 1, W[k], stack_table)
         /\ buffer_entry_to_stack_table[k] = W[k][1]
         /\ buffer_entry_to_stack_table[k] \in DOMAIN stack_table
<1>1. k \in DOMAIN samples /\ Reached(k) = 1 /\ buffer_entry_to_stack_table[k] \in DOMAIN stack_table
  BY DEF Inv, Progress, TypeOK, Done, Reached
<1>2. samples[k] \in Seq(Ptrs)
  BY <1>1, SampleParts DEF Inv
<1> QED BY <1>1, <1>2 DEF Walks

\* stack_index.unwrap() panics on a first sample all of whose frames are null and in no
\* other case, and what it yields is a stack whose leaf is the sample's leaf-most frame,
\* or the first root for a later sample that has none.
THEOREM LeafResolvedHolds == Spec => []LeafResolved
<1>1. ASSUME Inv, Walked, panicked PROVE Len(samples) = 1 /\ Frames(samples[1]) = <<>>
  <2>1. PICK W : Walks(W)
    BY <1>1 DEF Walked
  <2>2. /\ stack_table = <<>> /\ Len(samples) = 1 /\ frame = 0 /\ 1 \in DOMAIN samples
        /\ buffer_entry_to_stack_table = <<>>
    <3>1. stack_table = <<>> /\ buffer_entry_to_stack_table = <<>> /\ Searched
      BY <1>1 DEF Inv, NoneAtFirst
    <3>2. Len(samples) = 1
      <4>1. Len(buffer_entry_to_stack_table) = 0
        BY <3>1
      <4>2. PICK K \in Nat : K = Len(samples)
        BY <1>1 DEF Inv, TypeOK
      <4>3. K <= 1 /\ 0 < K
        BY <1>1, <3>1, <4>1, <4>2 DEF Inv, Progress, Searched
      <4>4. K = 1
        BY <4>3
      <4> QED BY <4>2, <4>4
    <3>3. 1 \in DOMAIN samples
      BY <1>1, <3>2 DEF Inv, TypeOK
    <3> QED BY <3>1, <3>2, <3>3 DEF Searched
  <2>3. samples[1] \in Seq(Ptrs)
    BY <1>1, <2>2, SampleParts DEF Inv
  <2>4. Walk(samples[1], 1, W[1], <<>>)
    BY <2>1, <2>2 DEF Walks, Reached
  <2>5. \A i \in 1 .. Len(samples[1]) : samples[1][i] = Null
    BY <2>4 DEF Walk
  <2> QED BY <2>2, <2>3, <2>4, <2>5, EndOfWalk
<1>2. ASSUME Inv, Walked, NEW k \in Done
      PROVE  /\ buffer_entry_to_stack_table[k] \in DOMAIN stack_table
             /\ IF Frames(samples[k]) = <<>>
                THEN k > 1 /\ buffer_entry_to_stack_table[k] = 1
                ELSE stack_table[buffer_entry_to_stack_table[k]].instruction_ptr
                       = Head(Frames(samples[k]))
  <2>1. PICK W : Walks(W)
    BY <1>2 DEF Walked
  <2>2. /\ samples[k] \in Seq(Ptrs)
        /\ Walk(samples[k], 1, W[k], stack_table)
        /\ buffer_entry_to_stack_table[k] = W[k][1]
        /\ buffer_entry_to_stack_table[k] \in DOMAIN stack_table
    BY <1>2, <2>1, DoneParts
  <2>3. CASE Frames(samples[k]) = <<>>
    <3>1. W[k][1] = 1 /\ \A i \in 1 .. Len(samples[k]) : samples[k][i] = Null
      BY <2>2, <2>3, EndOfWalk
    <3>2. k # 1 /\ k \in Nat \ {0}
      BY <1>2, <3>1 DEF Inv, NoneAtFirst, Done, TypeOK
    <3> QED BY <2>2, <2>3, <3>1, <3>2
  <2>4. CASE Frames(samples[k]) # <<>>
    <3>1. PICK i \in 1 .. Len(samples[k]) :
            samples[k][i] # Null /\ samples[k][i] = Head(Frames(samples[k])) /\ W[k][i] = W[k][1]
      BY <2>2, <2>4, EndOfWalk
    <3>2. stack_table[W[k][i]].instruction_ptr = samples[k][i]
      BY <2>2, <3>1 DEF Walk
    <3> QED BY <2>2, <2>4, <3>1, <3>2
  <2> QED BY <2>3, <2>4
<1>3. Inv /\ Walked => LeafResolved
  BY <1>1, <1>2 DEF LeafResolved
<1> QED BY <1>3, WalkedHolds, PTL

\* "The StackTable deduplicates the information": whenever two samples have the
\* same stack, whatever was pushed between the two, the search for the later one
\* ends at the entry of the earlier one.
THEOREM SameStackSameEntryHolds == Spec => []SameStackSameEntry
<1>1. Inv /\ Walked => SameStackSameEntry
  <2> SUFFICES ASSUME Inv, Walked, NEW j \in Done, NEW k \in Done,
                      Frames(samples[j]) = Frames(samples[k])
               PROVE  buffer_entry_to_stack_table[j] = buffer_entry_to_stack_table[k]
    BY DEF SameStackSameEntry
  <2>1. PICK W : Walks(W)
    BY DEF Walked
  <2>2. /\ samples[j] \in Seq(Ptrs) /\ samples[k] \in Seq(Ptrs)
        /\ Walk(samples[j], 1, W[j], stack_table) /\ Walk(samples[k], 1, W[k], stack_table)
        /\ buffer_entry_to_stack_table[j] = W[j][1] /\ buffer_entry_to_stack_table[k] = W[k][1]
    BY <2>1, DoneParts
  <2>3. 1 \in 1 .. Len(samples[j]) + 1 /\ 1 \in 1 .. Len(samples[k]) + 1
    BY <2>2
  <2>4. W[j][1] = W[k][1]
    BY <2>2, <2>3, SameFramesSameWalk DEF Frames
  <2> QED BY <2>2, <2>4
<1> QED BY <1>1, WalkedHolds, PTL

-----------------------------------------------------------------------------
(* The call chains.                                                        *)

\* Every frame that is not null is one of the frames, and those from it on are the
\* ones from there on.
LEMMA FrameOfFrames ==
  ASSUME NEW s \in Seq(Ptrs), NEW i \in 1 .. Len(s), s[i] # Null
  PROVE  \E m \in DOMAIN Frames(s) :
           /\ Frames(s)[m] = s[i]
           /\ FramesFrom(s)[i] = SubSeq(Frames(s), m, Len(Frames(s)))
<1>1. PICK F \in Seq(Addresses) : F = Frames(s)
  <2>1. FramesFrom(s) \in [1 .. Len(s) + 1 -> Seq(Addresses)] /\ 1 \in 1 .. Len(s) + 1
    BY FramesFromIs
  <2> QED BY <2>1 DEF Frames
<1>2. PICK m \in 1 .. Len(F) + 1 : FramesFrom(s)[i] = SubSeq(F, m, Len(F))
  <2>1. i \in 1 .. Len(s) + 1
    OBVIOUS
  <2> QED BY <1>1, <2>1, FramesFromIsSuffix
<1>3. PICK p \in Seq(Addresses) : s[i] \in Addresses /\ FramesFrom(s)[i] = Cons(s[i], p)
  BY FramesParts
<1>4. PICK x \in Addresses : x = s[i]
  BY <1>3
<1>5. Cons(x, p) # <<>> /\ Cons(x, p)[1] = x /\ Cons(x, p) = SubSeq(F, m, Len(F))
  BY <1>2, <1>3, <1>4, ConsParts
<1>6. m <= Len(F)
  BY <1>5
<1>7. SubSeq(F, m, Len(F))[1] = F[m]
  BY <1>6
<1>8. m \in DOMAIN F /\ F[m] = s[i]
  BY <1>4, <1>5, <1>6, <1>7
<1> QED BY <1>1, <1>2, <1>8

\* Where each function is called along one path only, the same function has the
\* same callers.
LEMMA SamePath ==
  ASSUME TypeOK, OnePathEach, NEW j \in DOMAIN samples, NEW k \in DOMAIN samples,
         samples[j] \in Seq(Ptrs), samples[k] \in Seq(Ptrs),
         NEW a \in 1 .. Len(samples[j]), NEW b \in 1 .. Len(samples[k]),
         samples[j][a] # Null, samples[j][a] = samples[k][b]
  PROVE  FramesFrom(samples[j])[a] = FramesFrom(samples[k])[b]
<1>1. PICK m \in DOMAIN Frames(samples[j]) :
        /\ Frames(samples[j])[m] = samples[j][a]
        /\ FramesFrom(samples[j])[a] = SubSeq(Frames(samples[j]), m, Len(Frames(samples[j])))
  BY FrameOfFrames
<1>2. PICK n \in DOMAIN Frames(samples[k]) :
        /\ Frames(samples[k])[n] = samples[k][b]
        /\ FramesFrom(samples[k])[b] = SubSeq(Frames(samples[k]), n, Len(Frames(samples[k])))
  BY FrameOfFrames
<1>3. Frames(samples[j])[m] = Frames(samples[k])[n]
  BY <1>1, <1>2
<1>4. SubSeq(Frames(samples[j]), m, Len(Frames(samples[j])))
        = SubSeq(Frames(samples[k]), n, Len(Frames(samples[k])))
  BY <1>3 DEF OnePathEach
<1> QED BY <1>1, <1>2, <1>4

\* An entry's prefix is 0 or another entry of a well ordered table.
LEMMA TableParts ==
  ASSUME TypeOK, WellOrdered
  PROVE  /\ Len(stack_table) \in Nat /\ DOMAIN stack_table = 1 .. Len(stack_table)
         /\ \A i \in DOMAIN stack_table :
              stack_table[i].prefix \in Nat /\ stack_table[i].prefix < i
<1>1. stack_table \in Seq(StackForSerialization)
  BY DEF TypeOK
<1>2. \A i \in DOMAIN stack_table : stack_table[i] \in StackForSerialization
  BY <1>1
<1>3. Len(stack_table) \in Nat /\ DOMAIN stack_table = 1 .. Len(stack_table)
  BY <1>1
<1> QED BY <1>2, <1>3 DEF WellOrdered, StackForSerialization

\* What CallChain computes, in a well ordered table.
LEMMA CallChainIs ==
  ASSUME TypeOK, WellOrdered
  PROVE  /\ CallChain[0] = <<>>
         /\ \A i \in DOMAIN stack_table :
              CallChain[i] = Cons(stack_table[i].instruction_ptr, CallChain[stack_table[i].prefix])
<1> DEFINE D == 0 .. Len(stack_table)
           Step(f, i) == IF i = 0 THEN <<>>
                         ELSE Cons(stack_table[i].instruction_ptr, f[stack_table[i].prefix])
           T == {n \in Nat : \E f : DOMAIN f = D /\ f = [i \in D |-> f[i]]
                                      /\ \A i \in D : i <= n => f[i] = Step(f, i)}
<1>1. /\ Len(stack_table) \in Nat /\ DOMAIN stack_table = 1 .. Len(stack_table)
      /\ \A i \in DOMAIN stack_table :
           stack_table[i].prefix \in Nat /\ stack_table[i].prefix < i
  BY TableParts
<1>2. 0 \in T
  <2> DEFINE f == [i \in D |-> <<>>]
  <2>1. DOMAIN f = D /\ f = [i \in D |-> f[i]] /\ \A i \in D : i <= 0 => f[i] = Step(f, i)
    OBVIOUS
  <2> HIDE DEF f, D, Step
  <2> QED BY <2>1
<1>3. ASSUME NEW n \in Nat, n \in T PROVE n + 1 \in T
  <2>1. PICK f : /\ DOMAIN f = D /\ f = [i \in D |-> f[i]]
                 /\ \A i \in D : i <= n => f[i] = Step(f, i)
    BY <1>3
  <2> DEFINE g == [i \in D |-> IF i = n + 1 THEN Step(f, n + 1) ELSE f[i]]
  <2>2. DOMAIN g = D /\ g = [i \in D |-> g[i]]
    OBVIOUS
  <2>3. ASSUME NEW i \in D, i <= n + 1 PROVE g[i] = Step(g, i)
    <3>1. g[i] = Step(f, i)
      BY <2>1, <2>3
    <3>2. CASE i = 0
      BY <3>1, <3>2
    <3>3. CASE i # 0
      <4> DEFINE p == stack_table[i].prefix
      <4>1. p \in D /\ p # n + 1
        BY <1>1, <2>3, <3>3
      <4>2. g[p] = f[p]
        BY <4>1
      <4> QED BY <3>1, <3>3, <4>2
    <3> QED BY <3>2, <3>3
  <2> HIDE DEF g, D, Step
  <2> QED BY <2>2, <2>3
<1>4. \A n \in Nat : n \in T
  <2> HIDE DEF T
  <2> QED BY <1>2, <1>3, NumberInduction
<1>5. PICK f : /\ DOMAIN f = D /\ f = [i \in D |-> f[i]]
               /\ \A i \in D : i <= Len(stack_table) => f[i] = Step(f, i)
  <2>1. Len(stack_table) \in T
    BY <1>1, <1>4
  <2> QED BY <2>1
<1>6. f = [i \in D |-> Step(f, i)]
  <2>1. \A i \in D : f[i] = Step(f, i)
    <3> HIDE DEF Step
    <3> QED BY <1>1, <1>5
  <2> HIDE DEF D, Step
  <2> QED BY <1>5, <2>1
<1>7. CallChain = [i \in D |-> Step(CallChain, i)]
  BY <1>6 DEF CallChain, Cons
<1>8. \A i \in D : CallChain[i] = Step(CallChain, i)
  <2> HIDE DEF D, Step
  <2> QED BY <1>7
<1> QED BY <1>1, <1>8

\* The stack that is recorded for a frame shows the frame and its callers.
LEMMA ChainShown ==
  ASSUME Inv, OnePathEach, NEW W, Walks(W)
  PROVE  \A x \in DOMAIN stack_table :
           \A k \in DOMAIN samples : \A i \in Reached(k) .. Len(samples[k]) :
             samples[k][i] # Null /\ W[k][i] = x =>
               CallChain[x] = FramesFrom(samples[k])[i]
<1> USE DEF Inv
<1> DEFINE Shows(x) ==
             \A k \in DOMAIN samples : \A i \in Reached(k) .. Len(samples[k]) :
               samples[k][i] # Null /\ W[k][i] = x =>
                 CallChain[x] = FramesFrom(samples[k])[i]
           T == {n \in Nat : \A x \in DOMAIN stack_table : x <= n => Shows(x)}
<1>1. /\ Len(stack_table) \in Nat /\ DOMAIN stack_table = 1 .. Len(stack_table)
      /\ \A x \in DOMAIN stack_table :
           stack_table[x].prefix \in Nat /\ stack_table[x].prefix < x
  BY TableParts
<1>2. ASSUME NEW x \in DOMAIN stack_table,
             \A y \in DOMAIN stack_table : y < x => Shows(y)
      PROVE  Shows(x)
  <2>1. PICK k \in DOMAIN samples : \E i \in Reached(k) .. Len(samples[k]) :
          /\ samples[k][i] # Null
          /\ samples[k][i] = stack_table[x].instruction_ptr
          /\ W[k][i] = x
          /\ CalledFrom(samples[k], i + 1, W[k], stack_table[x].prefix)
    BY DEF Walks, PushedFor
  <2>2. PICK i \in Reached(k) .. Len(samples[k]) :
          /\ samples[k][i] # Null
          /\ samples[k][i] = stack_table[x].instruction_ptr
          /\ CalledFrom(samples[k], i + 1, W[k], stack_table[x].prefix)
    BY <2>1
  <2>3. /\ samples[k] \in Seq(Ptrs) /\ Len(samples[k]) \in Nat
        /\ Reached(k) \in Nat \ {0} /\ i \in 1 .. Len(samples[k])
        /\ Walk(samples[k], Reached(k), W[k], stack_table)
    BY SampleParts DEF Walks
  <2>4. CallChain[stack_table[x].prefix] = FramesFrom(samples[k])[i + 1]
    <3>1. CASE stack_table[x].prefix = 0 /\ FramesFrom(samples[k])[i + 1] = <<>>
      BY <3>1, CallChainIs
    <3>2. ASSUME NEW c \in i + 1 .. Len(samples[k]), samples[k][c] # Null,
                 W[k][c] = stack_table[x].prefix,
                 FramesFrom(samples[k])[c] = FramesFrom(samples[k])[i + 1]
          PROVE  CallChain[stack_table[x].prefix] = FramesFrom(samples[k])[i + 1]
      <4>1. c \in Reached(k) .. Len(samples[k])
        BY <2>3
      <4>2. W[k][c] \in DOMAIN stack_table
        BY <2>3, <3>2, <4>1 DEF Walk
      <4>3. Shows(W[k][c])
        BY <1>1, <1>2, <3>2, <4>2
      <4> QED BY <3>2, <4>1, <4>3
    <3> QED BY <2>2, <3>1, <3>2 DEF CalledFrom
  <2>5. CallChain[x] = FramesFrom(samples[k])[i]
    BY <2>2, <2>3, <2>4, CallChainIs, FramesParts
  <2>6. ASSUME NEW l \in DOMAIN samples, NEW j \in Reached(l) .. Len(samples[l]),
               samples[l][j] # Null, W[l][j] = x
        PROVE  CallChain[x] = FramesFrom(samples[l])[j]
    <3>1. /\ samples[l] \in Seq(Ptrs) /\ Len(samples[l]) \in Nat
          /\ Reached(l) \in Nat \ {0} /\ j \in 1 .. Len(samples[l])
          /\ Walk(samples[l], Reached(l), W[l], stack_table)
      BY SampleParts DEF Walks
    <3>2. samples[l][j] = stack_table[x].instruction_ptr
      BY <2>6, <3>1 DEF Walk
    <3>3. FramesFrom(samples[l])[j] = FramesFrom(samples[k])[i]
      BY <2>2, <2>3, <2>6, <3>1, <3>2, SamePath
    <3> QED BY <2>5, <3>3
  <2> QED BY <2>6
<1> HIDE DEF Shows
<1>3. 0 \in T
  BY <1>1
<1>4. ASSUME NEW n \in Nat, n \in T PROVE n + 1 \in T
  <2>1. ASSUME NEW x \in DOMAIN stack_table, x <= n + 1 PROVE Shows(x)
    <3>1. \A y \in DOMAIN stack_table : y < x => Shows(y)
      BY <1>1, <1>4, <2>1
    <3> QED BY <1>2, <3>1
  <2> QED BY <2>1
<1>5. \A n \in Nat : n \in T
  <2> HIDE DEF T
  <2> QED BY <1>3, <1>4, NumberInduction
<1>6. ASSUME NEW x \in DOMAIN stack_table PROVE Shows(x)
  <2>1. x \in Nat /\ x \in T
    BY <1>1, <1>5
  <2> QED BY <2>1
<1> QED BY <1>6 DEF Shows

\* A reader of the profile who follows the prefixes from a sample's entry sees the
\* sample's own call chain, as long as no function is called along two paths: what
\* the loop's linear search gets wrong takes a function with two callers.
THEOREM ChainsKeptHolds == Spec => []ChainsKept
<1>1. Inv /\ Walked => ChainsKept
  <2> SUFFICES ASSUME Inv, Walked, OnePathEach, NEW k \in Done, Frames(samples[k]) # <<>>
               PROVE  CallChain[buffer_entry_to_stack_table[k]] = Frames(samples[k])
    BY DEF ChainsKept, Shown
  <2>1. PICK W : Walks(W)
    BY DEF Walked
  <2>2. /\ k \in DOMAIN samples /\ Reached(k) = 1 /\ samples[k] \in Seq(Ptrs)
        /\ Walk(samples[k], 1, W[k], stack_table)
        /\ buffer_entry_to_stack_table[k] = W[k][1]
        /\ buffer_entry_to_stack_table[k] \in DOMAIN stack_table
    BY <2>1, DoneParts
  <2>3. PICK i \in 1 .. Len(samples[k]) :
          /\ samples[k][i] # Null
          /\ FramesFrom(samples[k])[i] = Frames(samples[k])
          /\ W[k][i] = W[k][1]
    BY <2>2, EndOfWalk
  <2>4. CallChain[W[k][1]] = FramesFrom(samples[k])[i]
    BY <2>1, <2>2, <2>3, ChainShown
  <2> QED BY <2>2, <2>3, <2>4
<1> QED BY <1>1, WalkedHolds, PTL
=============================================================================
