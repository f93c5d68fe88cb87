---------------------- MODULE ThreadSerializationProofs ----------------------
(***************************************************************************)
(* Theorems about ThreadSerialization, for any threads, markers, samples,  *)
(* lifetimes and lists of threads: expiry removes exactly what has         *)
(* expired, and what is written of a thread reads back.                    *)
(*                                                                         *)
(* What iter_thread yields, the stack table and the string table of a JSON *)
(* are defined by recursion over a sequence.  The facts about them are by  *)
(* induction, of which WellFoundedInduction gives the least element that a *)
(* set of numbers has.                                                     *)
(***************************************************************************)
EXTENDS ThreadSerialization, SequenceTheorems, WellFoundedInduction, TLAPS

-----------------------------------------------------------------------------
(* Recursion over a sequence.                                              *)

\* A set of numbers that is not empty has a least one.
LEMMA LeastNumber ==
  ASSUME NEW T \in SUBSET Nat, T # {}
  PROVE  \E n \in T : \A m \in T : n <= m
<1> DEFINE Less == {p \in Nat \X Nat : p[1] < p[2]}
<1>1. IsWellFoundedOn(Less, Nat)
  BY NatLessThanWellFounded DEF OpToRel
<1>2. PICK n \in T : \A m \in T : <<m, n>> \notin Less
  <2> HIDE DEF Less
  <2> QED
    BY <1>1, WFMin
<1>3. \A m \in T : ~ (m < n)
  BY <1>2
<1> QED
  BY <1>3

\* Induction over the numbers, for the set of those that have a property.
LEMMA NumberInduction ==
  ASSUME NEW T, 0 \in T, \A n \in Nat : n \in T => n + 1 \in T
  PROVE  \A n \in Nat : n \in T
<1> SUFFICES ASSUME Nat \ T # {} PROVE FALSE
  OBVIOUS
<1>1. PICK n \in Nat \ T : \A m \in Nat \ T : n <= m
  BY LeastNumber
<1>2. n - 1 \in Nat /\ n - 1 \notin Nat \ T
  BY <1>1
<1> QED
  BY <1>1, <1>2

\* The same up to a bound.
LEMMA BoundedInduction ==
  ASSUME NEW N \in Nat, NEW T, 0 \in T, \A n \in 1 .. N : n - 1 \in T => n \in T
  PROVE  \A n \in 0 .. N : n \in T
<1> DEFINE U == {n \in Nat : n <= N => n \in T}
<1>1. 0 \in U
  OBVIOUS
<1>2. ASSUME NEW n \in Nat, n \in U PROVE n + 1 \in U
  <2> SUFFICES ASSUME n + 1 <= N PROVE n + 1 \in T
    OBVIOUS
  <2>1. n + 1 \in 1 .. N /\ n + 1 - 1 \in T
    BY <1>2
  <2> QED
    BY <2>1
<1>3. \A n \in Nat : n \in U
  <2> HIDE DEF U
  <2> QED
    BY <1>1, <1>2, NumberInduction
<1> QED
  BY <1>3

\* f is what step makes of start, up to N.
Iterates(f, start, step, N) ==
  f[0] = start /\ \A n \in 1 .. N : f[n] = step[<<n, f[n - 1]>>]

\* There is such an f.
LEMMA IterationExists ==
  ASSUME NEW S, NEW start \in S, NEW N \in Nat, NEW step \in [(1 .. N) \X S -> S]
  PROVE  \E f \in [0 .. N -> S] : Iterates(f, start, step, N)
<1> DEFINE D == 0 .. N
           T == {n \in Nat : n <= N => \E f \in [D -> S] : Iterates(f, start, step, n)}
<1>1. 0 \in T
  <2> DEFINE f == [i \in D |-> start]
  <2>1. f \in [D -> S] /\ f[0] = start
    OBVIOUS
  <2> HIDE DEF f, D
  <2>2. Iterates(f, start, step, 0)
    BY <2>1 DEF Iterates
  <2> QED
    BY <2>1, <2>2
<1>2. ASSUME NEW n \in Nat, n \in T PROVE n + 1 \in T
  <2> SUFFICES ASSUME n + 1 <= N PROVE \E f \in [D -> S] : Iterates(f, start, step, n + 1)
    OBVIOUS
  <2>1. PICK f \in [D -> S] : Iterates(f, start, step, n)
    BY <1>2
  <2> DEFINE e == step[<<n + 1, f[n]>>]
             g == [f EXCEPT ![n + 1] = e]
  <2>2. n \in D /\ n + 1 \in D /\ n + 1 \in 1 .. N
    OBVIOUS
  <2>3. f[n] \in S
    BY <2>1, <2>2
  <2>4. e \in S
    BY <2>2, <2>3
  <2> HIDE DEF e
  <2>5. g \in [D -> S] /\ g[n + 1] = e /\ \A i \in D : i # n + 1 => g[i] = f[i]
    BY <2>2, <2>4
  <2> HIDE DEF g
  <2>6. g[0] = start
    BY <2>1, <2>5 DEF Iterates
  <2>7. ASSUME NEW i \in 1 .. n + 1 PROVE g[i] = step[<<i, g[i - 1]>>]
    <3>1. CASE i = n + 1
      <4>1. g[i - 1] = f[n]
        BY <2>2, <2>5, <3>1
      <4> QED
        BY <2>5, <3>1, <4>1 DEF e
    <3>2. CASE i # n + 1
      <4>1. i \in 1 .. n /\ i \in D /\ i - 1 \in D /\ i - 1 # n + 1
        BY <2>2, <3>2
      <4> QED
        BY <2>1, <2>5, <3>2, <4>1 DEF Iterates
    <3> QED
      BY <3>1, <3>2
  <2> QED
    BY <2>5, <2>6, <2>7 DEF Iterates
<1>3. \A n \in Nat : n \in T
  <2> HIDE DEF T
  <2> QED
    BY <1>1, <1>2, NumberInduction
<1>4. N \in T
  BY <1>3
<1> QED
  BY <1>4

\* What the recursion of iter_thread computes, entry by entry.
LEMMA IterThreadIs ==
  ASSUME NEW V, NEW buffer \in Seq(BufferEntry(Threads, V)), NEW tid \in Threads
  PROVE  \E own \in [0 .. Len(buffer) -> Seq(BufferEntry(Threads, V))] :
           /\ own[0] = <<>>
           /\ \A n \in 1 .. Len(buffer) :
                own[n] = IF buffer[n].tid = tid THEN Append(own[n - 1], buffer[n])
                         ELSE own[n - 1]
           /\ IterThread(buffer, tid) = own[Len(buffer)]
<1> DEFINE S == Seq(BufferEntry(Threads, V))
           N == Len(buffer)
           step == [x \in (1 .. N) \X S |->
                      IF buffer[x[1]].tid = tid THEN Append(x[2], buffer[x[1]]) ELSE x[2]]
           Body(g, n) == IF n = 0 THEN <<>>
                         ELSE IF buffer[n].tid = tid THEN Append(g[n - 1], buffer[n])
                         ELSE g[n - 1]
           own[n \in 0 .. N] == IF n = 0 THEN <<>>
                                ELSE IF buffer[n].tid = tid THEN Append(own[n - 1], buffer[n])
                                ELSE own[n - 1]
<1>1. N \in Nat /\ <<>> \in S
  OBVIOUS
<1>2. step \in [(1 .. N) \X S -> S]
  OBVIOUS
<1>3. PICK f \in [0 .. N -> S] : Iterates(f, <<>>, step, N)
  <2> HIDE DEF S, N, step
  <2> QED
    BY <1>1, <1>2, IterationExists
<1>4. f = [n \in 0 .. N |-> Body(f, n)]
  <2>1. ASSUME NEW n \in 0 .. N PROVE f[n] = Body(f, n)
    <3>1. CASE n = 0
      BY <1>3, <3>1 DEF Iterates
    <3>2. CASE n # 0
      <4>1. n \in 1 .. N /\ n - 1 \in 0 .. N
        BY <1>1, <3>2
      <4>2. f[n - 1] \in S /\ f[n] = step[<<n, f[n - 1]>>]
        BY <1>3, <4>1 DEF Iterates
      <4> QED
        BY <3>2, <4>1, <4>2
    <3> QED
      BY <3>1, <3>2
  <2> HIDE DEF Body
  <2> QED
    BY <2>1
<1>5. own = [n \in 0 .. N |-> Body(own, n)]
  BY <1>4
<1>6. IterThread(buffer, tid) = own[N]
  BY DEF IterThread
<1>7. PICK done : /\ done = [n \in 0 .. N |-> Body(done, n)]
                  /\ IterThread(buffer, tid) = done[N]
  <2> HIDE DEF own, N, Body
  <2> QED
    BY <1>5, <1>6
<1> HIDE DEF own, step, S, N
<1>8. \A n \in 0 .. N : done[n] = Body(done, n)
  <2> HIDE DEF Body
  <2> QED
    BY <1>7
<1>9. done[0] = <<>> /\ \A n \in 1 .. N : done[n] = IF buffer[n].tid = tid
                                                    THEN Append(done[n - 1], buffer[n])
                                                    ELSE done[n - 1]
  BY <1>1, <1>8
<1>10. \A n \in 1 .. N : \A e \in S : Append(e, buffer[n]) \in S
  BY DEF N, S
<1>11. \A n \in 0 .. N : done[n] \in S
  <2> DEFINE T == {n \in 0 .. N : done[n] \in S}
  <2>1. 0 \in T
    BY <1>1, <1>9
  <2>2. ASSUME NEW n \in 1 .. N, n - 1 \in T PROVE n \in T
    <3>1. n \in 0 .. N /\ done[n - 1] \in S
      BY <1>1, <2>2
    <3>2. Append(done[n - 1], buffer[n]) \in S
      BY <1>10, <3>1
    <3>3. done[n] \in S
      BY <1>9, <3>1, <3>2
    <3> QED
      BY <3>1, <3>3
  <2> HIDE DEF T
  <2>3. \A n \in 0 .. N : n \in T
    BY <1>1, <2>1, <2>2, BoundedInduction
  <2> QED
    BY <2>3 DEF T
<1>12. done \in [0 .. N -> S]
  <2> HIDE DEF Body
  <2> QED
    BY <1>7, <1>11
<1> QED
  BY <1>7, <1>9, <1>12 DEF N, S

\* What Append makes of a sequence.
LEMMA Appended ==
  ASSUME NEW D, NEW seq \in Seq(D), NEW e \in D
  PROVE  /\ Append(seq, e) \in Seq(D)
         /\ Len(seq) \in Nat
         /\ Len(Append(seq, e)) = Len(seq) + 1
         /\ Append(seq, e)[Len(seq) + 1] = e
         /\ \A i \in 1 .. Len(seq) : Append(seq, e)[i] = seq[i]
OBVIOUS

\* A sequence is the function of its elements.
LEMMA SequenceIsFunction ==
  ASSUME NEW D, NEW seq \in Seq(D)
  PROVE  seq = [i \in 1 .. Len(seq) |-> seq[i]]
OBVIOUS

\* A time in milliseconds is a number.
LEMMA MillisIsNumber ==
  ASSUME NEW time \in Nat
  PROVE  Millis(time) \in Nat
BY SerializationBounds DEF Millis

\* What is recorded of an entry.
Row(entry) == <<entry.value, Millis(entry.created_at)>>

\* What is recorded of a buffer with values in V.
Records(V) == Seq(V \X Nat)

\* What is recorded of an entry is a value and a number.
LEMMA RowTyped ==
  ASSUME NEW V, NEW entry \in BufferEntry(Threads, V)
  PROVE  Row(entry) \in V \X Nat
<1>1. entry.value \in V /\ entry.created_at \in Nat
  BY DEF BufferEntry
<1> QED
  BY <1>1, MillisIsNumber DEF Row

\* What the recursion of Recorded computes.
LEMMA RecordedIs ==
  ASSUME NEW V, NEW buffer \in Seq(BufferEntry(Threads, V)), NEW tid \in Threads
  PROVE  \E own \in [0 .. Len(buffer) -> Records(V)] :
           /\ own[0] = <<>>
           /\ \A n \in 1 .. Len(buffer) :
                own[n] = IF buffer[n].tid = tid
                         THEN Append(own[n - 1], Row(buffer[n]))
                         ELSE own[n - 1]
           /\ Recorded(buffer, tid) = own[Len(buffer)]
<1> DEFINE S == Seq(V \X Nat)
           N == Len(buffer)
           step == [x \in (1 .. N) \X S |->
                      IF buffer[x[1]].tid = tid THEN Append(x[2], Row(buffer[x[1]])) ELSE x[2]]
           Body(g, n) == IF n = 0 THEN <<>>
                         ELSE IF buffer[n].tid = tid THEN Append(g[n - 1], Row(buffer[n]))
                         ELSE g[n - 1]
           own[n \in 0 .. N] == IF n = 0 THEN <<>>
                                ELSE IF buffer[n].tid = tid THEN Append(own[n - 1], Row(buffer[n]))
                                ELSE own[n - 1]
<1>1. N \in Nat /\ <<>> \in S
  OBVIOUS
<1>2. \A n \in 1 .. N : Row(buffer[n]) \in V \X Nat
  <2> SUFFICES ASSUME NEW n \in 1 .. N PROVE Row(buffer[n]) \in V \X Nat
    OBVIOUS
  <2>1. buffer[n] \in BufferEntry(Threads, V)
    OBVIOUS
  <2> QED
    BY <2>1, RowTyped
<1>3. step \in [(1 .. N) \X S -> S]
  <2> SUFFICES ASSUME NEW n \in 1 .. N, NEW e \in S
               PROVE  (IF buffer[n].tid = tid THEN Append(e, Row(buffer[n])) ELSE e) \in S
    OBVIOUS
  <2> QED
    BY <1>2
<1>4. PICK f \in [0 .. N -> S] : Iterates(f, <<>>, step, N)
  <2> HIDE DEF S, N, step
  <2> QED
    BY <1>1, <1>3, IterationExists
<1>5. f = [n \in 0 .. N |-> Body(f, n)]
  <2>1. ASSUME NEW n \in 0 .. N PROVE f[n] = Body(f, n)
    <3>1. CASE n = 0
      BY <1>4, <3>1 DEF Iterates
    <3>2. CASE n # 0
      <4>1. n \in 1 .. N /\ n - 1 \in 0 .. N
        BY <1>1, <3>2
      <4>2. f[n - 1] \in S /\ f[n] = step[<<n, f[n - 1]>>]
        BY <1>4, <4>1 DEF Iterates
      <4> QED
        BY <3>2, <4>1, <4>2
    <3> QED
      BY <3>1, <3>2
  <2> HIDE DEF Body
  <2> QED
    BY <2>1
<1>6. own = [n \in 0 .. N |-> Body(own, n)]
  BY <1>5
<1>7. Recorded(buffer, tid) = own[N]
  BY DEF Recorded, Row
<1>8. PICK done : /\ done = [n \in 0 .. N |-> Body(done, n)]
                  /\ Recorded(buffer, tid) = done[N]
  <2> HIDE DEF own, N, Body
  <2> QED
    BY <1>6, <1>7
<1> HIDE DEF own, step, S, N
<1>9. \A n \in 0 .. N : done[n] = Body(done, n)
  <2> HIDE DEF Body
  <2> QED
    BY <1>8
<1>10. done[0] = <<>> /\ \A n \in 1 .. N : done[n] = IF buffer[n].tid = tid
                                                     THEN Append(done[n - 1], Row(buffer[n]))
                                                     ELSE done[n - 1]
  BY <1>1, <1>9
<1>11. \A n \in 1 .. N : \A e \in S : Append(e, Row(buffer[n])) \in S
  BY <1>2 DEF S
<1>12. \A n \in 0 .. N : done[n] \in S
  <2> DEFINE T == {n \in 0 .. N : done[n] \in S}
  <2>1. 0 \in T
    BY <1>1, <1>10
  <2>2. ASSUME NEW n \in 1 .. N, n - 1 \in T PROVE n \in T
    <3>1. n \in 0 .. N /\ done[n - 1] \in S
      BY <1>1, <2>2
    <3>2. Append(done[n - 1], Row(buffer[n])) \in S
      BY <1>11, <3>1
    <3>3. done[n] \in S
      BY <1>10, <3>1, <3>2
    <3> QED
      BY <3>1, <3>3
  <2> HIDE DEF T
  <2>3. \A n \in 0 .. N : n \in T
    BY <1>1, <2>1, <2>2, BoundedInduction
  <2> QED
    BY <2>3 DEF T
<1>13. done \in [0 .. N -> S]
  <2> HIDE DEF Body
  <2> QED
    BY <1>8, <1>12
<1> QED
  BY <1>8, <1>10, <1>13 DEF N, S, Records

\* The entries that iter_thread yields, string and millisecond, are what is recorded.
LEMMA RecordedIsIterated ==
  ASSUME NEW V, NEW buffer \in Seq(BufferEntry(Threads, V)), NEW tid \in Threads
  PROVE  /\ IterThread(buffer, tid) \in Seq(BufferEntry(Threads, V))
         /\ Recorded(buffer, tid) =
              [i \in 1 .. Len(IterThread(buffer, tid)) |->
                 Row(IterThread(buffer, tid)[i])]
<1> DEFINE S == Seq(BufferEntry(Threads, V))
           R == Records(V)
           N == Len(buffer)
<1>0. N \in Nat
  OBVIOUS
<1>1. \A n \in 1 .. N : buffer[n] \in BufferEntry(Threads, V)
  OBVIOUS
<1>2. \A n \in 1 .. N : Row(buffer[n]) \in V \X Nat
  BY <1>1, RowTyped
<1>3. PICK made \in [0 .. N -> R] :
        /\ made[0] = <<>>
        /\ \A n \in 1 .. N : made[n] = IF buffer[n].tid = tid
                                       THEN Append(made[n - 1], Row(buffer[n]))
                                       ELSE made[n - 1]
        /\ Recorded(buffer, tid) = made[N]
  BY RecordedIs
<1>4. PICK own \in [0 .. N -> S] :
        /\ own[0] = <<>>
        /\ \A n \in 1 .. N : own[n] = IF buffer[n].tid = tid THEN Append(own[n - 1], buffer[n])
                                      ELSE own[n - 1]
        /\ IterThread(buffer, tid) = own[N]
  BY IterThreadIs
<1> HIDE DEF S, R, N
<1> DEFINE Same(n) == /\ Len(made[n]) = Len(own[n])
                      /\ \A i \in 1 .. Len(own[n]) : made[n][i] = Row(own[n][i])
           T == {n \in 0 .. N : Same(n)}
<1>5. 0 \in T
  BY <1>0, <1>4, <1>3
<1>6. ASSUME NEW n \in 1 .. N, n - 1 \in T PROVE n \in T
  <2>1. n \in 0 .. N /\ n - 1 \in 0 .. N
    BY <1>0
  <2>2. own[n - 1] \in S /\ made[n - 1] \in R
    BY <2>1
  <2>3. Same(n - 1)
    BY <1>6
  <2>4. CASE buffer[n].tid = tid
    <3>1. own[n] = Append(own[n - 1], buffer[n]) /\ made[n] = Append(made[n - 1], Row(buffer[n]))
      BY <1>4, <1>3, <2>4
    <3>2. buffer[n] \in BufferEntry(Threads, V) /\ Row(buffer[n]) \in V \X Nat
      BY <1>1, <1>2
    <3>3. /\ Len(own[n - 1]) \in Nat
          /\ Len(own[n]) = Len(own[n - 1]) + 1
          /\ own[n][Len(own[n - 1]) + 1] = buffer[n]
          /\ \A i \in 1 .. Len(own[n - 1]) : own[n][i] = own[n - 1][i]
      <4> HIDE DEF T, Same
      <4> QED
        BY <2>2, <3>1, <3>2, Appended DEF S
    <3>4. /\ Len(made[n]) = Len(made[n - 1]) + 1
          /\ made[n][Len(made[n - 1]) + 1] = Row(buffer[n])
          /\ \A i \in 1 .. Len(made[n - 1]) : made[n][i] = made[n - 1][i]
      <4> HIDE DEF T, Same
      <4> QED
        BY <2>2, <3>1, <3>2, Appended DEF R, Records
    <3>5. ASSUME NEW i \in 1 .. Len(own[n]) PROVE made[n][i] = Row(own[n][i])
      <4>1. CASE i = Len(own[n - 1]) + 1
        BY <2>3, <3>3, <3>4, <4>1
      <4>2. CASE i # Len(own[n - 1]) + 1
        <5>1. i \in 1 .. Len(own[n - 1])
          BY <3>3, <4>2
        <5> QED
          BY <2>3, <3>3, <3>4, <5>1
      <4> QED
        BY <4>1, <4>2
    <3> QED
      BY <2>1, <2>3, <3>3, <3>4, <3>5
  <2>5. CASE buffer[n].tid # tid
    <3>1. own[n] = own[n - 1] /\ made[n] = made[n - 1]
      BY <1>4, <1>3, <2>5
    <3> QED
      BY <2>1, <2>3, <3>1
  <2> QED
    BY <2>4, <2>5
<1>7. \A n \in 0 .. N : n \in T
  <2> HIDE DEF T
  <2> QED
    BY <1>0, <1>5, <1>6, BoundedInduction
<1>8. Same(N) /\ own[N] \in S /\ made[N] \in R
  <2>1. N \in 0 .. N
    BY <1>0
  <2> QED
    BY <1>7, <2>1
<1>9. made[N] = [i \in 1 .. Len(own[N]) |-> Row(own[N][i])]
  <2>1. made[N] = [i \in 1 .. Len(made[N]) |-> made[N][i]]
    BY <1>8, SequenceIsFunction DEF R, Records
  <2> QED
    BY <1>8, <2>1
<1> QED
  BY <1>4, <1>3, <1>8, <1>9 DEF S

-----------------------------------------------------------------------------
(* Expiry.                                                                 *)

\* What remove_expired does, whatever the order of the buffer: it takes the entries
\* before kept, which have expired, and what is then in front, if anything, has not.
\* Module BufferThread, which has no clock, knows of expiry only that it leaves the end.
THEOREM RemoveExpiredIs ==
  ASSUME NEW V, NEW buffer \in Seq(BufferEntry(Threads, V)), NEW time \in Nat
  PROVE  \E kept \in 1 .. Len(buffer) + 1 :
           /\ \A i \in 1 .. kept - 1 : Expired(buffer[i], time, EntryLifetime)
           /\ kept <= Len(buffer) => ~ Expired(buffer[kept], time, EntryLifetime)
           /\ RemoveExpired(buffer, time, EntryLifetime) = SubSeq(buffer, kept, Len(buffer))
<1> DEFINE Ends(n) == n <= Len(buffer) => ~ Expired(buffer[n], time, EntryLifetime)
           Stops(n) == /\ \A i \in 1 .. n - 1 : Expired(buffer[i], time, EntryLifetime)
                       /\ Ends(n)
           T == {n \in 1 .. Len(buffer) + 1 : Ends(n)}
           kept == CHOOSE n \in 1 .. Len(buffer) + 1 : Stops(n)
<1>1. Len(buffer) \in Nat
  OBVIOUS
<1>2. T \in SUBSET Nat /\ Len(buffer) + 1 \in T
  BY <1>1
<1>3. PICK n \in T : \A m \in T : n <= m
  <2> HIDE DEF T
  <2> QED
    BY <1>2, LeastNumber
<1>4. n \in 1 .. Len(buffer) + 1 /\ Stops(n)
  <2>1. ASSUME NEW i \in 1 .. n - 1 PROVE Expired(buffer[i], time, EntryLifetime)
    <3>1. i \in 1 .. Len(buffer) /\ i \in 1 .. Len(buffer) + 1 /\ ~ (n <= i)
      BY <1>1
    <3>2. i \notin T
      BY <1>3, <3>1
    <3> QED
      BY <3>1, <3>2
  <2> QED
    BY <2>1
<1>5. kept \in 1 .. Len(buffer) + 1 /\ Stops(kept)
  <2> HIDE DEF Stops
  <2> QED
    BY <1>4
<1>6. RemoveExpired(buffer, time, EntryLifetime) = SubSeq(buffer, kept, Len(buffer))
  BY DEF RemoveExpired
<1> HIDE DEF kept
<1> QED
  BY <1>5, <1>6

\* What is left when the first entries of a sequence go.
LEMMA Suffix ==
  ASSUME NEW D, NEW seq \in Seq(D), NEW first \in 1 .. Len(seq) + 1
  PROVE  /\ SubSeq(seq, first, Len(seq)) \in Seq(D)
         /\ Len(SubSeq(seq, first, Len(seq))) = Len(seq) + 1 - first
         /\ \A i \in 1 .. Len(seq) + 1 - first :
              SubSeq(seq, first, Len(seq))[i] = seq[first + i - 1]
<1>1. Len(seq) \in Nat /\ \A i \in first .. Len(seq) : seq[i] \in D
  OBVIOUS
<1> QED
  BY <1>1, SubSeqProperties

-----------------------------------------------------------------------------
(* String tables.                                                          *)

\* The tables of strings in D.
Tables(D) == {table \in [strings : Seq(D), string_to_index : UNION {[E -> Nat] : E \in SUBSET D}] :
                /\ DOMAIN table.string_to_index = ToSet(table.strings)
                /\ \A n \in 1 .. Len(table.strings) :
                     table.string_to_index[table.strings[n]] = n - 1}

\* The new table is one.
LEMMA NewTableIs ==
  ASSUME NEW D
  PROVE  NewStringTable \in Tables(D)
<1>1. <<>> \in [{} -> Nat] /\ {} \in SUBSET D /\ <<>> \in Seq(D) /\ Len(<<>>) = 0
  OBVIOUS
<1>2. DOMAIN <<>> = {} /\ ToSet(<<>>) = {}
  BY DEF ToSet
<1>3. NewStringTable \in [strings : Seq(D), string_to_index : UNION {[E -> Nat] : E \in SUBSET D}]
  BY <1>1 DEF NewStringTable
<1>4. NewStringTable.strings = <<>> /\ NewStringTable.string_to_index = <<>>
  BY DEF NewStringTable
<1>5. 1 .. Len(NewStringTable.strings) = {}
  BY <1>1, <1>4
<1> QED
  BY <1>2, <1>3, <1>4, <1>5 DEF Tables

\* The index of a string in such a table is where the string is, less one.
LEMMA IndexOfString ==
  ASSUME NEW D, NEW table \in Tables(D), NEW string \in DOMAIN table.string_to_index
  PROVE  /\ table.string_to_index[string] \in 0 .. Len(table.strings) - 1
         /\ table.strings[table.string_to_index[string] + 1] = string
<1>1. table.strings \in Seq(D)
  BY DEF Tables
<1>2. PICK n \in 1 .. Len(table.strings) : string = table.strings[n]
  BY <1>1 DEF Tables, ToSet
<1>3. table.string_to_index[string] = n - 1 /\ Len(table.strings) \in Nat
  BY <1>1, <1>2 DEF Tables
<1> QED
  BY <1>2, <1>3

\* strings are the first of longer.
Starts(strings, longer) ==
  /\ Len(strings) <= Len(longer)
  /\ \A n \in 1 .. Len(strings) : longer[n] = strings[n]

\* get_index: the strings stay where they are, one more comes at the end if it is new,
\* and the index is where the string is.
LEMMA GetIndexIs ==
  ASSUME NEW D, NEW table \in Tables(D), NEW string \in D
  PROVE  LET next == GetIndex(table, string) IN
         /\ next.table \in Tables(D)
         /\ next.index \in 0 .. Len(next.table.strings) - 1
         /\ next.table.strings[next.index + 1] = string
         /\ Starts(table.strings, next.table.strings)
         /\ \A n \in 1 .. Len(next.table.strings) :
              n \in 1 .. Len(table.strings) \/ n = next.index + 1
<1> DEFINE next == GetIndex(table, string)
           strings == table.strings
           indices == table.string_to_index
<1>1. strings \in Seq(D) /\ Len(strings) \in Nat
  BY DEF Tables
<1>2. DOMAIN indices = ToSet(strings) /\ ToSet(strings) \subseteq D
  BY <1>1 DEF Tables, ToSet
<1>3. CASE string \in DOMAIN indices
  <2>1. next = [table |-> table, index |-> indices[string]]
    BY <1>3 DEF GetIndex
  <2> QED
    BY <1>1, <1>3, <2>1, IndexOfString DEF Starts
<1>4. CASE string \notin DOMAIN indices
  <2> DEFINE longer == Append(strings, string)
             added == [s \in DOMAIN indices \cup {string} |->
                         IF s = string THEN Len(strings) ELSE indices[s]]
             after == [strings |-> longer, string_to_index |-> added]
  <2>1. next = [table |-> after, index |-> Len(strings)]
    BY <1>4 DEF GetIndex
  <2>2. /\ longer \in Seq(D)
        /\ Len(longer) = Len(strings) + 1
        /\ longer[Len(strings) + 1] = string
        /\ \A n \in 1 .. Len(strings) : longer[n] = strings[n]
    BY <1>1, Appended
  <2> HIDE DEF longer
  <2>3. DOMAIN longer = 1 .. Len(strings) + 1 /\ DOMAIN strings = 1 .. Len(strings)
    BY <1>1, <2>2
  <2>4. ToSet(longer) = ToSet(strings) \cup {string}
    BY <1>1, <2>2, <2>3 DEF ToSet
  <2>5. \A n \in 1 .. Len(strings) : strings[n] \in DOMAIN indices /\ strings[n] # string
    BY <1>2, <1>4, <2>3 DEF ToSet
  <2>6. \A s \in DOMAIN indices : indices[s] \in Nat
    <3> TAKE s \in DOMAIN indices
    <3>1. indices[s] \in 0 .. Len(strings) - 1
      BY IndexOfString
    <3> QED
      BY <1>1, <3>1
  <2>7. added \in [ToSet(longer) -> Nat] /\ ToSet(longer) \in SUBSET D
    BY <1>1, <1>2, <2>4, <2>6
  <2>8. \A n \in 1 .. Len(longer) : added[longer[n]] = n - 1
    <3> TAKE n \in 1 .. Len(longer)
    <3>1. CASE n = Len(strings) + 1
      BY <1>1, <2>2, <3>1
    <3>2. CASE n # Len(strings) + 1
      <4>1. n \in 1 .. Len(strings)
        BY <1>1, <2>2, <3>2
      <4>2. longer[n] = strings[n] /\ added[strings[n]] = indices[strings[n]]
        BY <2>2, <2>5, <4>1
      <4>3. indices[strings[n]] = n - 1
        BY <4>1 DEF Tables
      <4> QED
        BY <4>2, <4>3
    <3> QED
      BY <3>1, <3>2
  <2> HIDE DEF added
  <2>9. after \in Tables(D)
    <3>1. after \in [strings : Seq(D), string_to_index : UNION {[E -> Nat] : E \in SUBSET D}]
      BY <2>2, <2>7
    <3>2. DOMAIN added = ToSet(longer)
      BY <2>7
    <3> QED
      BY <2>8, <3>1, <3>2 DEF Tables
  <2> HIDE DEF after
  <2>10. after.strings = longer
    BY DEF after
  <2> QED
    BY <1>1, <2>1, <2>2, <2>9, <2>10 DEF Starts
<1> QED
  BY <1>3, <1>4

\* A string is in a table once.
LEMMA TableIsInjective ==
  ASSUME NEW D, NEW table \in Tables(D)
  PROVE  IsInjective(table.strings)
<1>1. table.strings \in Seq(D) /\ DOMAIN table.strings = 1 .. Len(table.strings)
  BY DEF Tables
<1>2. ASSUME NEW m \in 1 .. Len(table.strings), NEW n \in 1 .. Len(table.strings),
             table.strings[m] = table.strings[n]
      PROVE  m = n
  <2>1. m - 1 = n - 1
    BY <1>2 DEF Tables
  <2> QED
    BY <2>1
<1> QED
  BY <1>1, <1>2 DEF IsInjective

\* What the recursion of from_json computes, string by string.
LEMMA FromJsonIs ==
  ASSUME NEW D, NEW strings \in Seq(D)
  PROVE  \E table \in [0 .. Len(strings) -> Tables(D)] :
           /\ table[0] = NewStringTable
           /\ \A n \in 1 .. Len(strings) : table[n] = GetIndex(table[n - 1], strings[n]).table
           /\ FromJson(strings) = table[Len(strings)]
<1> DEFINE S == Tables(D)
           N == Len(strings)
           step == [x \in (1 .. N) \X S |-> GetIndex(x[2], strings[x[1]]).table]
           Body(g, n) == IF n = 0 THEN NewStringTable
                         ELSE GetIndex(g[n - 1], strings[n]).table
           table[n \in 0 .. N] == IF n = 0 THEN NewStringTable
                                  ELSE GetIndex(table[n - 1], strings[n]).table
<1>1. N \in Nat
  OBVIOUS
<1>2. NewStringTable \in S
  BY NewTableIs
<1>3. \A n \in 1 .. N : \A t \in S : GetIndex(t, strings[n]).table \in S
  <2> TAKE n \in 1 .. N
  <2> TAKE t \in S
  <2>1. strings[n] \in D
    OBVIOUS
  <2> HIDE DEF N
  <2> QED
    BY <2>1, GetIndexIs
<1> HIDE DEF S
<1>4. step \in [(1 .. N) \X S -> S]
  <2> HIDE DEF N
  <2> QED
    BY <1>3
<1>5. PICK f \in [0 .. N -> S] : Iterates(f, NewStringTable, step, N)
  <2> HIDE DEF N, step
  <2> QED
    BY <1>1, <1>2, <1>4, IterationExists
<1>6. f = [n \in 0 .. N |-> Body(f, n)]
  <2>1. ASSUME NEW n \in 0 .. N PROVE f[n] = Body(f, n)
    <3>1. CASE n = 0
      BY <1>5, <3>1 DEF Iterates
    <3>2. CASE n # 0
      <4>1. n \in 1 .. N /\ n - 1 \in 0 .. N
        BY <1>1, <3>2
      <4>2. f[n - 1] \in S /\ f[n] = step[<<n, f[n - 1]>>]
        BY <1>5, <4>1 DEF Iterates
      <4> QED
        BY <3>2, <4>1, <4>2
    <3> QED
      BY <3>1, <3>2
  <2> HIDE DEF Body
  <2> QED
    BY <2>1
<1>7. table = [n \in 0 .. N |-> Body(table, n)]
  BY <1>6
<1>8. FromJson(strings) = table[N]
  BY DEF FromJson
<1>9. PICK done : /\ done = [n \in 0 .. N |-> Body(done, n)]
                  /\ FromJson(strings) = done[N]
  <2> HIDE DEF table, N, Body
  <2> QED
    BY <1>7, <1>8
<1> HIDE DEF table, step, N
<1>10. \A n \in 0 .. N : done[n] = Body(done, n)
  <2> HIDE DEF Body
  <2> QED
    BY <1>9
<1>11. /\ done[0] = NewStringTable
       /\ \A n \in 1 .. N : done[n] = GetIndex(done[n - 1], strings[n]).table
  BY <1>1, <1>10
<1>12. \A n \in 0 .. N : done[n] \in S
  <2> DEFINE T == {n \in 0 .. N : done[n] \in S}
  <2>1. 0 \in T
    BY <1>1, <1>2, <1>11
  <2>2. ASSUME NEW n \in 1 .. N, n - 1 \in T PROVE n \in T
    BY <1>1, <1>3, <1>11, <2>2
  <2> HIDE DEF T
  <2>3. \A n \in 0 .. N : n \in T
    BY <1>1, <2>1, <2>2, BoundedInduction
  <2> QED
    BY <2>3 DEF T
<1>13. done \in [0 .. N -> S]
  <2> HIDE DEF Body
  <2> QED
    BY <1>9, <1>12
<1> QED
  BY <1>9, <1>11, <1>13 DEF N, S

\* One more string is one more get_index.
LEMMA FromJsonAppend ==
  ASSUME NEW D, NEW strings \in Seq(D), NEW string \in D
  PROVE  FromJson(Append(strings, string)) = GetIndex(FromJson(strings), string).table
<1> DEFINE N == Len(strings)
           longer == Append(strings, string)
<1>1. /\ N \in Nat
      /\ longer \in Seq(D)
      /\ Len(longer) = N + 1
      /\ longer[N + 1] = string
      /\ \A n \in 1 .. N : longer[n] = strings[n]
  BY Appended
<1>2. PICK short : /\ short[0] = NewStringTable
                   /\ \A n \in 1 .. N : short[n] = GetIndex(short[n - 1], strings[n]).table
                   /\ FromJson(strings) = short[N]
  BY FromJsonIs
<1> HIDE DEF longer
<1>3. PICK long : /\ long[0] = NewStringTable
                  /\ \A n \in 1 .. N + 1 : long[n] = GetIndex(long[n - 1], longer[n]).table
                  /\ FromJson(longer) = long[N + 1]
  <2>1. PICK long : /\ long[0] = NewStringTable
                    /\ \A n \in 1 .. Len(longer) : long[n] = GetIndex(long[n - 1], longer[n]).table
                    /\ FromJson(longer) = long[Len(longer)]
    BY <1>1, FromJsonIs
  <2> QED
    BY <1>1, <2>1
<1> HIDE DEF N
<1> DEFINE T == {n \in 0 .. N : long[n] = short[n]}
<1>4. 0 \in T
  BY <1>1, <1>2, <1>3
<1>5. ASSUME NEW n \in 1 .. N, n - 1 \in T PROVE n \in T
  BY <1>1, <1>2, <1>3, <1>5
<1>6. \A n \in 0 .. N : n \in T
  <2> HIDE DEF T
  <2> QED
    BY <1>1, <1>4, <1>5, BoundedInduction
<1>7. long[N] = short[N]
  BY <1>1, <1>6
<1>8. long[N + 1] = GetIndex(long[N], longer[N + 1]).table
  <2>1. PICK m \in 1 .. N + 1 : m = N + 1 /\ m - 1 = N
    BY <1>1
  <2>2. long[m] = GetIndex(long[m - 1], longer[m]).table
    BY <1>3
  <2> QED
    BY <2>1, <2>2
<1> QED
  BY <1>1, <1>2, <1>3, <1>7, <1>8 DEF longer

\* A table that can be rebuilt from its strings can be after get_index as well.
LEMMA RebuiltAfterGetIndex ==
  ASSUME NEW D, NEW table \in Tables(D), NEW string \in D, table = FromJson(table.strings)
  PROVE  GetIndex(table, string).table = FromJson(GetIndex(table, string).table.strings)
<1>1. CASE string \in DOMAIN table.string_to_index
  BY <1>1 DEF GetIndex
<1>2. CASE string \notin DOMAIN table.string_to_index
  <2>1. GetIndex(table, string).table.strings = Append(table.strings, string)
    BY <1>2 DEF GetIndex
  <2>2. table.strings \in Seq(D)
    BY DEF Tables
  <2> QED
    BY <2>1, <2>2, FromJsonAppend
<1> QED
  BY <1>1, <1>2

\* The new table is the one without strings.
LEMMA NewTableRebuilt == NewStringTable = FromJson(NewStringTable.strings)
<1>1. <<>> \in Seq({}) /\ Len(<<>>) = 0 /\ NewStringTable.strings = <<>>
  BY DEF NewStringTable
<1>2. PICK table : table[0] = NewStringTable /\ FromJson(<<>>) = table[Len(<<>>)]
  BY <1>1, FromJsonIs
<1> QED
  BY <1>1, <1>2

-----------------------------------------------------------------------------
(* Stack tables.                                                           *)

\* The stack table has only frames of the samples, and each sample's.
LEMMA StackTableIs ==
  ASSUME NEW V, NEW entries \in Seq(BufferEntry(Threads, V))
  PROVE  /\ StackTable(entries) \in Seq(V)
         /\ \A i \in 1 .. Len(entries) : Contains(StackTable(entries), entries[i].value)
<1> DEFINE S == Seq(V)
           N == Len(entries)
           With(stacks, value) == IF Contains(stacks, value) THEN stacks ELSE Append(stacks, value)
           step == [x \in (1 .. N) \X S |-> With(x[2], entries[x[1]].value)]
           Body(g, n) == IF n = 0 THEN <<>>
                         ELSE IF Contains(g[n - 1], entries[n].value) THEN g[n - 1]
                         ELSE Append(g[n - 1], entries[n].value)
           stacks[n \in 0 .. N] == IF n = 0 THEN <<>>
                                   ELSE IF Contains(stacks[n - 1], entries[n].value) THEN stacks[n - 1]
                                   ELSE Append(stacks[n - 1], entries[n].value)
<1>1. N \in Nat /\ <<>> \in S
  OBVIOUS
<1>2. \A n \in 1 .. N : entries[n].value \in V
  <2> TAKE n \in 1 .. N
  <2>1. entries[n] \in BufferEntry(Threads, V)
    OBVIOUS
  <2> QED
    BY <2>1 DEF BufferEntry
<1>3. \A s \in S : \A v \in V : /\ With(s, v) \in S
                                /\ Contains(With(s, v), v)
                                /\ \A w : Contains(s, w) => Contains(With(s, v), w)
  <2> TAKE s \in S
  <2> TAKE v \in V
  <2>1. CASE Contains(s, v)
    BY <2>1
  <2>2. CASE ~ Contains(s, v)
    <3>1. /\ Append(s, v) \in Seq(V)
          /\ Len(s) \in Nat
          /\ Len(Append(s, v)) = Len(s) + 1
          /\ Append(s, v)[Len(s) + 1] = v
          /\ \A i \in 1 .. Len(s) : Append(s, v)[i] = s[i]
      BY Appended
    <3>2. With(s, v) = Append(s, v)
      BY <2>2
    <3> HIDE DEF With
    <3> QED
      BY <3>1, <3>2 DEF Contains
  <2> QED
    BY <2>1, <2>2
<1>4. step \in [(1 .. N) \X S -> S]
  <2> HIDE DEF S, N, With
  <2> QED
    BY <1>2, <1>3
<1>5. PICK f \in [0 .. N -> S] : Iterates(f, <<>>, step, N)
  <2> HIDE DEF S, N, step
  <2> QED
    BY <1>1, <1>4, IterationExists
<1>6. f = [n \in 0 .. N |-> Body(f, n)]
  <2>1. ASSUME NEW n \in 0 .. N PROVE f[n] = Body(f, n)
    <3>1. CASE n = 0
      BY <1>5, <3>1 DEF Iterates
    <3>2. CASE n # 0
      <4>1. n \in 1 .. N /\ n - 1 \in 0 .. N
        BY <1>1, <3>2
      <4>2. f[n - 1] \in S /\ f[n] = step[<<n, f[n - 1]>>]
        BY <1>5, <4>1 DEF Iterates
      <4>3. f[n] = With(f[n - 1], entries[n].value)
        BY <4>1, <4>2
      <4> QED
        BY <3>2, <4>3
    <3> QED
      BY <3>1, <3>2
  <2> HIDE DEF Body
  <2> QED
    BY <2>1
<1>7. stacks = [n \in 0 .. N |-> Body(stacks, n)]
  BY <1>6
<1>8. StackTable(entries) = stacks[N]
  BY DEF StackTable
<1>9. PICK done : /\ done = [n \in 0 .. N |-> Body(done, n)]
                  /\ StackTable(entries) = done[N]
  <2> HIDE DEF stacks, N, Body
  <2> QED
    BY <1>7, <1>8
<1> HIDE DEF stacks, step, S, N
<1>10. \A n \in 0 .. N : done[n] = Body(done, n)
  <2> HIDE DEF Body
  <2> QED
    BY <1>9
<1>11. done[0] = <<>> /\ \A n \in 1 .. N : done[n] = With(done[n - 1], entries[n].value)
  BY <1>1, <1>10
<1> HIDE DEF With, Body
<1> DEFINE Good(n) == /\ done[n] \in S
                      /\ \A i \in 1 .. n : Contains(done[n], entries[i].value)
           T == {n \in 0 .. N : Good(n)}
<1>12. 0 \in T
  BY <1>1, <1>11
<1>13. ASSUME NEW n \in 1 .. N, n - 1 \in T PROVE n \in T
  <2>1. n \in 0 .. N /\ Good(n - 1)
    BY <1>1, <1>13
  <2>2. /\ done[n] \in S
        /\ Contains(done[n], entries[n].value)
        /\ \A w : Contains(done[n - 1], w) => Contains(done[n], w)
    BY <1>2, <1>3, <1>11, <2>1
  <2>3. ASSUME NEW i \in 1 .. n PROVE Contains(done[n], entries[i].value)
    <3>1. CASE i = n
      BY <2>2, <3>1
    <3>2. CASE i # n
      <4>1. i \in 1 .. n - 1
        BY <1>1, <3>2
      <4> QED
        BY <2>1, <2>2, <4>1
    <3> QED
      BY <3>1, <3>2
  <2> QED
    BY <2>1, <2>2, <2>3
<1>14. \A n \in 0 .. N : n \in T
  <2> HIDE DEF T
  <2> QED
    BY <1>1, <1>12, <1>13, BoundedInduction
<1>15. Good(N)
  <2>1. N \in 0 .. N
    BY <1>1
  <2> QED
    BY <1>14, <2>1
<1> QED
  BY <1>9, <1>15 DEF S, N

\* A sample's index leads to its frame.
LEMMA EntryToStackTableIs ==
  ASSUME NEW V, NEW entries \in Seq(BufferEntry(Threads, V)), NEW i \in 1 .. Len(entries)
  PROVE  LET stack == EntryToStackTable(entries)[i] IN
         /\ stack \in 0 .. Len(StackTable(entries)) - 1
         /\ StackTable(entries)[stack + 1] = entries[i].value
<1> DEFINE stacks == StackTable(entries)
           stack == CHOOSE n \in 0 .. Len(stacks) - 1 : stacks[n + 1] = entries[i].value
<1>1. DOMAIN entries = 1 .. Len(entries)
  OBVIOUS
<1>2. EntryToStackTable(entries)[i] = stack
  BY <1>1 DEF EntryToStackTable
<1>3. stacks \in Seq(V) /\ Contains(stacks, entries[i].value)
  BY StackTableIs
<1> HIDE DEF stacks
<1>4. PICK m \in 1 .. Len(stacks) : stacks[m] = entries[i].value
  BY <1>3 DEF Contains
<1>5. Len(stacks) \in Nat
  BY <1>3
<1>6. m - 1 \in 0 .. Len(stacks) - 1 /\ stacks[m - 1 + 1] = entries[i].value
  BY <1>4, <1>5
<1>7. stack \in 0 .. Len(stacks) - 1 /\ stacks[stack + 1] = entries[i].value
  BY <1>6
<1> QED
  BY <1>2, <1>7 DEF stacks

-----------------------------------------------------------------------------
(* The inductive invariant.                                                *)

\* No entry is older than the one before it, or from the future.
InOrder(buffer, time) ==
  /\ \A i \in 1 .. Len(buffer) : buffer[i].created_at <= time
  /\ \A i, j \in 1 .. Len(buffer) : i <= j => buffer[i].created_at <= buffer[j].created_at

\* Strings from a JSON's table that its rows refer to.
Used(rws, strings) ==
  \A n \in 1 .. Len(strings) :
    \/ \E m \in 1 .. Len(rws.markers) : rws.markers[m][1] = n - 1
    \/ \E f \in 1 .. Len(rws.frames) : rws.frames[f] = n - 1

\* Marker rows that read back as the first of the entries.
MarkersOf(markerRows, strings, entries) ==
  /\ Len(markerRows) <= Len(entries)
  /\ \A i \in 1 .. Len(markerRows) :
       /\ markerRows[i][1] \in 0 .. Len(strings) - 1
       /\ <<strings[markerRows[i][1] + 1], markerRows[i][2]>> = Row(entries[i])

\* The sample rows of the entries.
SamplesOf(entries) ==
  [i \in DOMAIN entries |-> <<EntryToStackTable(entries)[i], Millis(entries[i].created_at)>>]

\* Frames that read back as the first of the stacks.
FramesOf(frames, strings, stacks) ==
  /\ Len(frames) <= Len(stacks)
  /\ \A f \in 1 .. Len(frames) :
       /\ frames[f] \in 0 .. Len(strings) - 1
       /\ strings[frames[f] + 1] = stacks[f]

\* A thread's JSON, when the part of it that is at hand is sect.
PartlyWritten(sect, rws, strings, ownMarkers, ownSamples) ==
  /\ MarkersOf(rws.markers, strings, ownMarkers)
  /\ sect # "markers" => Len(rws.markers) = Len(ownMarkers)
  /\ sect \in {"frames", "strings"} => rws.samples = SamplesOf(ownSamples)
  /\ FramesOf(rws.frames, strings, StackTable(ownSamples))
  /\ sect = "strings" => Len(rws.frames) = Len(StackTable(ownSamples))
  /\ Used(rws, strings)

\* A thread's JSON when it is done.
Written(json, allMarkers, allSamples) ==
  /\ ReadMarkers(json) = Recorded(allMarkers, json.tid)
  /\ ReadSamples(json) = Recorded(allSamples, json.tid)
  /\ IsInjective(json.strings)
  /\ Used(json.rows, json.strings)
  /\ StringsInRange(json.rows, json.strings)
  /\ StacksInRange(json.rows)

Jsons == [tid : Threads, rows : Rows, strings : Seq(Strings)]

\* While a profile is written its buffers are left alone, which is why what is done of
\* it stays right; outside of that time there is none.
SerializationInv ==
  /\ TypeOK
  /\ InOrder(markers, now)
  /\ string_table \in Tables(Strings)
  /\ string_table = FromJson(string_table.strings)
  /\ infos # <<>> => PartlyWritten(section, rows, string_table.strings,
                                   IterThread(markers, Head(infos)),
                                   IterThread(samples, Head(infos)))
  /\ \A i \in 1 .. Len(threads) : Written(threads[i], markers, samples)
  /\ section = "receiving" => threads = <<>>

-----------------------------------------------------------------------------
(* The buffers.                                                            *)

\* An entry that is pushed now is the youngest.
LEMMA PushedInOrder ==
  ASSUME NEW V, NEW buffer \in Seq(BufferEntry(Threads, V)), NEW time \in Nat,
         InOrder(buffer, time), NEW tid \in Threads, NEW value \in V
  PROVE  /\ PushBackAt(buffer, value, time, tid) \in Seq(BufferEntry(Threads, V))
         /\ InOrder(PushBackAt(buffer, value, time, tid), time)
<1> DEFINE entry == [tid |-> tid, created_at |-> time, value |-> value]
           longer == Append(buffer, entry)
<1>1. entry \in BufferEntry(Threads, V) /\ entry.created_at = time
  BY DEF BufferEntry
<1>2. PushBackAt(buffer, value, time, tid) = longer
  BY DEF PushBackAt
<1> HIDE DEF entry
<1>3. /\ longer \in Seq(BufferEntry(Threads, V))
      /\ Len(buffer) \in Nat
      /\ Len(longer) = Len(buffer) + 1
      /\ longer[Len(buffer) + 1] = entry
      /\ \A i \in 1 .. Len(buffer) : longer[i] = buffer[i]
  BY <1>1, Appended
<1> HIDE DEF longer
<1>4. \A i \in 1 .. Len(longer) : longer[i].created_at <= time
  <2> TAKE i \in 1 .. Len(longer)
  <2>1. CASE i = Len(buffer) + 1
    BY <1>1, <1>3, <2>1
  <2>2. CASE i # Len(buffer) + 1
    BY <1>3, <2>2 DEF InOrder
  <2> QED
    BY <2>1, <2>2
<1>5. ASSUME NEW i \in 1 .. Len(longer), NEW j \in 1 .. Len(longer), i <= j
      PROVE  longer[i].created_at <= longer[j].created_at
  <2>1. CASE j = Len(buffer) + 1
    BY <1>1, <1>3, <1>4, <2>1
  <2>2. CASE j # Len(buffer) + 1
    BY <1>3, <1>5, <2>2 DEF InOrder
  <2> QED
    BY <2>1, <2>2
<1> QED
  BY <1>2, <1>3, <1>4, <1>5 DEF InOrder

\* What expiry leaves of a buffer is in order as well.
LEMMA ExpiredInOrder ==
  ASSUME NEW V, NEW buffer \in Seq(BufferEntry(Threads, V)), NEW time \in Nat,
         InOrder(buffer, time)
  PROVE  /\ RemoveExpired(buffer, time, EntryLifetime) \in Seq(BufferEntry(Threads, V))
         /\ InOrder(RemoveExpired(buffer, time, EntryLifetime), time)
<1>1. PICK kept \in 1 .. Len(buffer) + 1 :
        RemoveExpired(buffer, time, EntryLifetime) = SubSeq(buffer, kept, Len(buffer))
  BY RemoveExpiredIs
<1> DEFINE rest == SubSeq(buffer, kept, Len(buffer))
<1>2. /\ Len(buffer) \in Nat
      /\ rest \in Seq(BufferEntry(Threads, V))
      /\ Len(rest) = Len(buffer) + 1 - kept
      /\ \A i \in 1 .. Len(buffer) + 1 - kept : rest[i] = buffer[kept + i - 1]
  BY Suffix
<1> HIDE DEF rest
<1>3. \A i \in 1 .. Len(rest) : kept + i - 1 \in 1 .. Len(buffer) /\ rest[i] = buffer[kept + i - 1]
  BY <1>2
<1>4. ASSUME NEW i \in 1 .. Len(rest), NEW j \in 1 .. Len(rest), i <= j
      PROVE  rest[i].created_at <= rest[j].created_at
  <2>1. kept + i - 1 <= kept + j - 1
    BY <1>2, <1>4
  <2> QED
    BY <1>3, <2>1 DEF InOrder
<1>5. \A i \in 1 .. Len(rest) : rest[i].created_at <= time
  BY <1>3 DEF InOrder
<1> QED
  BY <1>1, <1>2, <1>4, <1>5 DEF InOrder, rest

\* If a buffer is in order, remove_expired takes what has expired and nothing else.
LEMMA RemovedIsExpired ==
  ASSUME NEW V, NEW buffer \in Seq(BufferEntry(Threads, V)), NEW time \in Nat,
         InOrder(buffer, time)
  PROVE  LET left == RemoveExpired(buffer, time, EntryLifetime)
             gone == Len(buffer) - Len(left)
         IN /\ left = SubSeq(buffer, gone + 1, Len(buffer))
            /\ \A i \in DOMAIN buffer :
                 i <= gone <=> time - buffer[i].created_at > EntryLifetime
<1> DEFINE left == RemoveExpired(buffer, time, EntryLifetime)
           gone == Len(buffer) - Len(left)
<1>1. PICK kept \in 1 .. Len(buffer) + 1 :
        /\ \A i \in 1 .. kept - 1 : Expired(buffer[i], time, EntryLifetime)
        /\ kept <= Len(buffer) => ~ Expired(buffer[kept], time, EntryLifetime)
        /\ left = SubSeq(buffer, kept, Len(buffer))
  BY RemoveExpiredIs
<1>2. Len(buffer) \in Nat /\ DOMAIN buffer = 1 .. Len(buffer)
  OBVIOUS
<1>3. gone = kept - 1
  <2>1. Len(left) = Len(buffer) + 1 - kept
    BY <1>1, Suffix
  <2> HIDE DEF left
  <2> QED
    BY <1>2, <2>1
<1> HIDE DEF left, gone
<1>4. ASSUME NEW i \in 1 .. Len(buffer)
      PROVE  i <= gone <=> time - buffer[i].created_at > EntryLifetime
  <2>1. CASE i <= gone
    BY <1>1, <1>2, <1>3, <2>1 DEF Expired
  <2>2. CASE ~ (i <= gone)
    <3>1. kept \in 1 .. Len(buffer) /\ kept <= i
      BY <1>2, <1>3, <2>2
    <3>2. ~ (time - buffer[kept].created_at > EntryLifetime)
      BY <1>1, <3>1 DEF Expired
    <3>3. buffer[kept].created_at <= buffer[i].created_at
      BY <3>1 DEF InOrder
    <3>4. buffer[kept] \in BufferEntry(Threads, V) /\ buffer[i] \in BufferEntry(Threads, V)
      BY <3>1
    <3>5. buffer[kept].created_at \in Nat /\ buffer[i].created_at \in Nat
      BY <3>4 DEF BufferEntry
    <3>6. EntryLifetime \in Nat
      BY SerializationBounds
    <3> QED
      BY <2>2, <3>2, <3>3, <3>5, <3>6
  <2> QED
    BY <2>1, <2>2
<1>5. left = SubSeq(buffer, gone + 1, Len(buffer))
  BY <1>1, <1>3
<1> QED
  BY <1>2, <1>4, <1>5 DEF left, gone

-----------------------------------------------------------------------------
(* The parts of a profile.                                                 *)

\* A string table is as the type invariant says.
LEMMA TableTyped ==
  ASSUME NEW table \in Tables(Strings)
  PROVE  /\ table.strings \in Seq(Strings)
         /\ table.string_to_index \in [ToSet(table.strings) -> 0 .. Len(table.strings) - 1]
<1>1. table.strings \in Seq(Strings) /\ DOMAIN table.string_to_index = ToSet(table.strings)
  BY DEF Tables
<1>2. table.string_to_index \in UNION {[E -> Nat] : E \in SUBSET Strings}
  BY DEF Tables
<1>3. \A s \in DOMAIN table.string_to_index :
        table.string_to_index[s] \in 0 .. Len(table.strings) - 1
  BY IndexOfString
<1> QED
  BY <1>1, <1>2, <1>3

\* What reads back is in range.
LEMMA RowsInRange ==
  ASSUME NEW strings \in Seq(Strings), NEW rws \in Rows, NEW ownMarkers, NEW stacks,
         MarkersOf(rws.markers, strings, ownMarkers), FramesOf(rws.frames, strings, stacks)
  PROVE  StringsInRange(rws, strings)
<1>1. Len(strings) \in Nat
  OBVIOUS
<1>2. /\ DOMAIN rws.markers = 1 .. Len(rws.markers)
      /\ DOMAIN rws.frames = 1 .. Len(rws.frames)
  BY DEF Rows
<1>3. \A i \in 1 .. Len(rws.markers) : rws.markers[i][1] < Len(strings)
  BY <1>1 DEF MarkersOf
<1>4. \A f \in 1 .. Len(rws.frames) : rws.frames[f] < Len(strings)
  BY <1>1 DEF FramesOf
<1> QED
  BY <1>2, <1>3, <1>4 DEF StringsInRange

\* Rows read the same when there are more strings.
LEMMA MoreStrings ==
  ASSUME NEW strings \in Seq(Strings), NEW longer \in Seq(Strings), Starts(strings, longer),
         NEW rws \in Rows, NEW ownMarkers, NEW stacks,
         MarkersOf(rws.markers, strings, ownMarkers), FramesOf(rws.frames, strings, stacks)
  PROVE  MarkersOf(rws.markers, longer, ownMarkers) /\ FramesOf(rws.frames, longer, stacks)
<1>1. Len(strings) \in Nat /\ Len(longer) \in Nat
  OBVIOUS
<1>2. rws.markers \in Seq(Nat \X Nat) /\ rws.frames \in Seq(Nat)
  BY DEF Rows
<1>3. ASSUME NEW index \in 0 .. Len(strings) - 1
      PROVE  index \in 0 .. Len(longer) - 1 /\ longer[index + 1] = strings[index + 1]
  <2>1. index + 1 \in 1 .. Len(strings)
    BY <1>1
  <2> QED
    BY <1>1, <2>1 DEF Starts
<1>4. MarkersOf(rws.markers, longer, ownMarkers)
  BY <1>3 DEF MarkersOf
<1>5. FramesOf(rws.frames, longer, stacks)
  BY <1>3 DEF FramesOf
<1> QED
  BY <1>4, <1>5

\* Before anything of a thread is written.
LEMMA NothingWritten ==
  ASSUME NEW ownMarkers \in Seq(BufferEntry(Threads, Names)),
         NEW ownSamples \in Seq(BufferEntry(Threads, Addresses))
  PROVE  PartlyWritten("markers", NoRows, NewStringTable.strings, ownMarkers, ownSamples)
<1>1. Len(ownMarkers) \in Nat /\ Len(<<>>) = 0
  OBVIOUS
<1>2. Len(StackTable(ownSamples)) \in Nat
  BY StackTableIs
<1>3. NoRows.markers = <<>> /\ NoRows.frames = <<>> /\ NewStringTable.strings = <<>>
  BY DEF NoRows, NewStringTable
<1> QED
  BY <1>1, <1>2, <1>3 DEF PartlyWritten, MarkersOf, FramesOf, Used

\* A thread's JSON reads back when all parts are written.
LEMMA ReadsBackWhenDone ==
  ASSUME NEW table \in Tables(Strings), NEW rws \in Rows, NEW tid \in Threads,
         NEW allMarkers \in Seq(BufferEntry(Threads, Names)),
         NEW allSamples \in Seq(BufferEntry(Threads, Addresses)),
         PartlyWritten("strings", rws, table.strings, IterThread(allMarkers, tid),
                       IterThread(allSamples, tid))
  PROVE  Written([tid |-> tid, rows |-> rws, strings |-> table.strings], allMarkers, allSamples)
<1> DEFINE json == [tid |-> tid, rows |-> rws, strings |-> table.strings]
           strings == table.strings
           ownMarkers == IterThread(allMarkers, tid)
           ownSamples == IterThread(allSamples, tid)
           stacks == StackTable(ownSamples)
<1>1. /\ rws.markers \in Seq(Nat \X Nat)
      /\ DOMAIN rws.markers = 1 .. Len(rws.markers)
      /\ rws.frames \in Seq(Nat)
  BY DEF Rows
<1>2. /\ ownMarkers \in Seq(BufferEntry(Threads, Names))
      /\ ownSamples \in Seq(BufferEntry(Threads, Addresses))
  BY RecordedIsIterated
<1>3. /\ MarkersOf(rws.markers, strings, ownMarkers)
      /\ Len(rws.markers) = Len(ownMarkers)
      /\ rws.samples = SamplesOf(ownSamples)
      /\ FramesOf(rws.frames, strings, stacks)
      /\ Len(rws.frames) = Len(stacks)
      /\ Used(rws, strings)
  BY DEF PartlyWritten
<1>4. json.tid = tid /\ json.rows = rws /\ json.strings = strings
  OBVIOUS
<1>5. /\ Recorded(allMarkers, tid) = [i \in 1 .. Len(ownMarkers) |-> Row(ownMarkers[i])]
      /\ Recorded(allSamples, tid) = [i \in 1 .. Len(ownSamples) |-> Row(ownSamples[i])]
  BY RecordedIsIterated
<1> HIDE DEF json, ownMarkers, ownSamples, strings, stacks
<1>6. ReadMarkers(json) = Recorded(allMarkers, tid)
  <2>1. \A i \in 1 .. Len(ownMarkers) :
          <<strings[rws.markers[i][1] + 1], rws.markers[i][2]>> = Row(ownMarkers[i])
    BY <1>3 DEF MarkersOf
  <2>2. ReadMarkers(json) =
          [i \in 1 .. Len(ownMarkers) |-> <<strings[rws.markers[i][1] + 1], rws.markers[i][2]>>]
    BY <1>1, <1>3, <1>4 DEF ReadMarkers
  <2> QED
    BY <1>5, <2>1, <2>2
<1>7. ReadSamples(json) = Recorded(allSamples, tid)
  <2> DEFINE read(i) == <<strings[rws.frames[rws.samples[i][1] + 1] + 1], rws.samples[i][2]>>
  <2>1. DOMAIN ownSamples = 1 .. Len(ownSamples) /\ DOMAIN rws.samples = 1 .. Len(ownSamples)
    BY <1>2, <1>3 DEF SamplesOf
  <2>2. ASSUME NEW i \in 1 .. Len(ownSamples) PROVE read(i) = Row(ownSamples[i])
    <3>1. rws.samples[i] = <<EntryToStackTable(ownSamples)[i], Millis(ownSamples[i].created_at)>>
      BY <1>3, <2>1 DEF SamplesOf
    <3>2. PICK stack \in 0 .. Len(stacks) - 1 :
            stack = EntryToStackTable(ownSamples)[i] /\ stacks[stack + 1] = ownSamples[i].value
      BY <1>2, EntryToStackTableIs DEF stacks
    <3>3. stack + 1 \in 1 .. Len(rws.frames)
      <4>1. Len(stacks) \in Nat
        BY <1>1, <1>3
      <4> QED
        BY <1>3, <4>1
    <3>4. strings[rws.frames[stack + 1] + 1] = stacks[stack + 1]
      BY <1>3, <3>3 DEF FramesOf
    <3>5. rws.samples[i][1] = stack /\ rws.samples[i][2] = Millis(ownSamples[i].created_at)
      BY <3>1, <3>2
    <3> QED
      BY <3>2, <3>4, <3>5 DEF Row
  <2>3. ReadSamples(json) = [i \in 1 .. Len(ownSamples) |-> read(i)]
    BY <1>4, <2>1 DEF ReadSamples
  <2> HIDE DEF read
  <2> QED
    BY <1>5, <2>2, <2>3
<1>8. IsInjective(strings)
  BY TableIsInjective DEF strings
<1>9. StringsInRange(rws, strings)
  <2>1. strings \in Seq(Strings)
    BY TableTyped DEF strings
  <2> QED
    BY <1>3, <2>1, RowsInRange
<1>10. StacksInRange(rws)
  <2>1. DOMAIN rws.samples = 1 .. Len(ownSamples)
    BY <1>2, <1>3 DEF SamplesOf
  <2>2. ASSUME NEW i \in 1 .. Len(ownSamples) PROVE rws.samples[i][1] < Len(rws.frames)
    <3>1. rws.samples[i] = <<EntryToStackTable(ownSamples)[i], Millis(ownSamples[i].created_at)>>
      BY <1>3, <2>1 DEF SamplesOf
    <3>2. EntryToStackTable(ownSamples)[i] \in 0 .. Len(stacks) - 1
      BY <1>2, EntryToStackTableIs DEF stacks
    <3>3. Len(stacks) \in Nat
      BY <1>1, <1>3
    <3>4. rws.samples[i][1] = EntryToStackTable(ownSamples)[i]
      BY <3>1
    <3> QED
      BY <1>3, <3>2, <3>3, <3>4
  <2> QED
    BY <2>1, <2>2 DEF StacksInRange
<1> QED
  BY <1>3, <1>4, <1>6, <1>7, <1>8, <1>9, <1>10 DEF Written, json, strings

-----------------------------------------------------------------------------
(* Every step keeps the invariant.                                         *)

\* While the buffer thread receives, there is no profile whose buffers could change.
LEMMA BufferStep ==
  ASSUME SerializationInv, Receiving, UNCHANGED serializing,
         now' \in 0 .. MaxNow, cleared' \in BOOLEAN,
         markers' \in Seq(BufferEntry(Threads, Names)),
         samples' \in Seq(BufferEntry(Threads, Addresses)),
         InOrder(markers', now')
  PROVE  SerializationInv'
<1>1. /\ infos' = infos
      /\ section' = section
      /\ string_table' = string_table
      /\ rows' = rows
      /\ threads' = threads
  BY DEF serializing
<1>2. infos = <<>> /\ threads = <<>>
  BY DEF SerializationInv, TypeOK, Receiving
<1>3. TypeOK'
  BY <1>1 DEF SerializationInv, TypeOK
<1>4. /\ string_table' \in Tables(Strings)
      /\ string_table' = FromJson(string_table'.strings)
  BY <1>1 DEF SerializationInv
<1>5. infos' = <<>> /\ threads' = <<>> /\ 1 .. Len(threads') = {}
  BY <1>1, <1>2
<1> QED
  BY <1>3, <1>4, <1>5 DEF SerializationInv

\* The clock.
LEMMA ClockStep ==
  ASSUME SerializationInv, ClockTicks
  PROVE  SerializationInv'
<1>1. /\ Receiving
      /\ now \in Nat
      /\ now' = now + 1
      /\ now' \in 0 .. MaxNow
      /\ markers' = markers
      /\ samples' = samples
      /\ UNCHANGED serializing
  <2>1. now \in 0 .. MaxNow
    BY DEF SerializationInv, TypeOK
  <2>2. /\ Receiving
        /\ now < MaxNow
        /\ now' = now + 1
        /\ UNCHANGED <<markers, samples, serializing>>
    BY DEF ClockTicks
  <2> QED
    BY <2>1, <2>2, SerializationBounds
<1>2. markers \in Seq(BufferEntry(Threads, Names)) /\ samples \in Seq(BufferEntry(Threads, Addresses))
  BY DEF SerializationInv, TypeOK
<1>3. \A i \in 1 .. Len(markers) : markers[i].created_at \in Nat
  <2> TAKE i \in 1 .. Len(markers)
  <2>1. markers[i] \in BufferEntry(Threads, Names)
    BY <1>2
  <2> QED
    BY <2>1 DEF BufferEntry
<1>4. InOrder(markers', now')
  <2>1. InOrder(markers, now)
    BY DEF SerializationInv
  <2> QED
    BY <1>1, <1>3, <2>1 DEF InOrder
<1>5. cleared' \in BOOLEAN
  BY DEF ClockTicks
<1> QED
  BY <1>1, <1>2, <1>4, <1>5, BufferStep

\* A marker.
LEMMA MarkerStep ==
  ASSUME SerializationInv, NEW tid \in Threads, NEW name \in Names, AddMarker(tid, name)
  PROVE  SerializationInv'
<1>1. /\ now \in Nat /\ now \in 0 .. MaxNow
      /\ markers \in Seq(BufferEntry(Threads, Names))
      /\ samples \in Seq(BufferEntry(Threads, Addresses))
      /\ InOrder(markers, now)
  BY DEF SerializationInv, TypeOK
<1>2. /\ Receiving
      /\ markers' = PushBackAt(markers, name, now, tid)
      /\ now' = now
      /\ samples' = samples
      /\ cleared' \in BOOLEAN
      /\ UNCHANGED serializing
  BY DEF AddMarker
<1>3. markers' \in Seq(BufferEntry(Threads, Names)) /\ InOrder(markers', now')
  BY <1>1, <1>2, PushedInOrder
<1> QED
  BY <1>1, <1>2, <1>3, BufferStep

\* A sample.
LEMMA SampleStep ==
  ASSUME SerializationInv, NEW tid \in Threads, NEW address \in Addresses, AddSample(tid, address)
  PROVE  SerializationInv'
<1>1. /\ now \in Nat /\ now \in 0 .. MaxNow
      /\ markers \in Seq(BufferEntry(Threads, Names))
      /\ samples \in Seq(BufferEntry(Threads, Addresses))
      /\ InOrder(markers, now)
  BY DEF SerializationInv, TypeOK
<1>2. /\ Receiving
      /\ samples' = PushBackAt(samples, address, now, tid)
      /\ now' = now
      /\ markers' = markers
      /\ cleared' \in BOOLEAN
      /\ UNCHANGED serializing
  BY DEF AddSample
<1>3. samples' \in Seq(BufferEntry(Threads, Addresses))
  <2>1. [tid |-> tid, created_at |-> now, value |-> address] \in BufferEntry(Threads, Addresses)
    BY <1>1 DEF BufferEntry
  <2> QED
    BY <1>1, <1>2, <2>1, Appended DEF PushBackAt
<1> QED
  BY <1>1, <1>2, <1>3, BufferStep

\* Expiry.
LEMMA ExpiryStep ==
  ASSUME SerializationInv, ClearExpiredMarkers
  PROVE  SerializationInv'
<1>1. /\ now \in Nat /\ now \in 0 .. MaxNow
      /\ markers \in Seq(BufferEntry(Threads, Names))
      /\ samples \in Seq(BufferEntry(Threads, Addresses))
      /\ InOrder(markers, now)
  BY DEF SerializationInv, TypeOK
<1>2. /\ Receiving
      /\ markers' = RemoveExpired(markers, now, EntryLifetime)
      /\ now' = now
      /\ samples' = samples
      /\ cleared' \in BOOLEAN
      /\ UNCHANGED serializing
  BY DEF ClearExpiredMarkers
<1>3. markers' \in Seq(BufferEntry(Threads, Names)) /\ InOrder(markers', now')
  BY <1>1, <1>2, ExpiredInOrder
<1> QED
  BY <1>1, <1>2, <1>3, BufferStep

\* A thread begins with nothing written.
LEMMA BeginStep ==
  ASSUME SerializationInv, NEW tids \in Seq(Threads), BeginThread(tids),
         UNCHANGED <<now, markers, samples>>, cleared' \in BOOLEAN,
         threads' \in Seq(Jsons), \A i \in 1 .. Len(threads') : Written(threads'[i], markers, samples)
  PROVE  SerializationInv'
<1>1. /\ infos' = tids
      /\ section' = IF tids = <<>> THEN "done" ELSE "markers"
      /\ rows' = NoRows
      /\ string_table' = NewStringTable
  BY DEF BeginThread
<1>2. now' = now /\ markers' = markers /\ samples' = samples
  OBVIOUS
<1>3. /\ string_table' \in Tables(Strings)
      /\ string_table' = FromJson(string_table'.strings)
  BY <1>1, NewTableIs, NewTableRebuilt
<1>4. rows' \in Rows
  BY <1>1 DEF NoRows, Rows
<1>5. TypeOK'
  <2>1. /\ string_table'.strings \in Seq(Strings)
        /\ string_table'.string_to_index \in
             [ToSet(string_table'.strings) -> 0 .. Len(string_table'.strings) - 1]
    BY <1>3, TableTyped
  <2>2. StringsInRange(rows', string_table'.strings)
    <3>1. DOMAIN rows'.markers = {} /\ DOMAIN rows'.frames = {}
      BY <1>1 DEF NoRows
    <3> QED
      BY <3>1 DEF StringsInRange
  <2>3. \A i \in DOMAIN threads' : /\ StringsInRange(threads'[i].rows, threads'[i].strings)
                                   /\ StacksInRange(threads'[i].rows)
    <3>1. DOMAIN threads' = 1 .. Len(threads')
      OBVIOUS
    <3> QED
      BY <3>1 DEF Written
  <2> QED
    BY <1>1, <1>2, <1>4, <2>1, <2>2, <2>3 DEF SerializationInv, TypeOK, Jsons
<1>6. InOrder(markers', now')
  BY <1>2 DEF SerializationInv
<1>7. ASSUME infos' # <<>>
      PROVE  PartlyWritten(section', rows', string_table'.strings, IterThread(markers', Head(infos')),
                           IterThread(samples', Head(infos')))
  <2>1. Head(infos') \in Threads
    BY <1>1, <1>7
  <2>2. /\ markers' \in Seq(BufferEntry(Threads, Names))
        /\ samples' \in Seq(BufferEntry(Threads, Addresses))
    BY <1>5 DEF TypeOK
  <2>3. /\ IterThread(markers', Head(infos')) \in Seq(BufferEntry(Threads, Names))
        /\ IterThread(samples', Head(infos')) \in Seq(BufferEntry(Threads, Addresses))
    BY <2>1, <2>2, RecordedIsIterated
  <2>4. section' = "markers"
    BY <1>1, <1>7
  <2> QED
    BY <1>1, <2>3, <2>4, NothingWritten
<1>8. section' # "receiving"
  BY <1>1
<1>9. \A i \in 1 .. Len(threads') : Written(threads'[i], markers', samples')
  BY <1>2
<1> QED
  BY <1>3, <1>5, <1>6, <1>7, <1>8, <1>9 DEF SerializationInv

\* The profile is asked for.
LEMMA SerializeBufferStep ==
  ASSUME SerializationInv, NEW tids \in BoundedSeq(Threads, MaxInfos), SerializeBuffer(tids)
  PROVE  SerializationInv'
<1>1. MaxInfos \in Nat
  BY SerializationBounds
<1>2. tids \in Seq(Threads)
  <2>1. PICK m \in 0 .. MaxInfos : tids \in [1 .. m -> Threads]
    BY DEF BoundedSeq, SeqOf
  <2> QED
    BY <1>1, <2>1
<1>3. /\ BeginThread(tids)
      /\ UNCHANGED <<now, markers, samples>>
      /\ cleared' \in BOOLEAN
      /\ threads' = threads
  BY DEF SerializeBuffer
<1>4. /\ threads \in Seq(Jsons)
      /\ \A i \in 1 .. Len(threads) : Written(threads[i], markers, samples)
  BY DEF SerializationInv, TypeOK, Jsons
<1> QED
  BY <1>2, <1>3, <1>4, BeginStep

\* A thread is done, and the next one begins.
LEMMA FinishStep ==
  ASSUME SerializationInv, FinishThread
  PROVE  SerializationInv'
<1> DEFINE json == [tid |-> Head(infos), rows |-> rows, strings |-> string_table.strings]
<1>1. /\ section = "strings"
      /\ threads' = Append(threads, json)
      /\ BeginThread(Tail(infos))
      /\ UNCHANGED <<now, markers, samples>>
      /\ cleared' = cleared
  BY DEF FinishThread, data
<1>2. /\ infos \in Seq(Threads) /\ infos # <<>>
      /\ rows \in Rows
      /\ string_table \in Tables(Strings)
      /\ markers \in Seq(BufferEntry(Threads, Names))
      /\ samples \in Seq(BufferEntry(Threads, Addresses))
      /\ threads \in Seq(Jsons)
  BY <1>1 DEF SerializationInv, TypeOK, Jsons
<1>3. Head(infos) \in Threads /\ Tail(infos) \in Seq(Threads)
  BY <1>2
<1>4. json \in Jsons
  <2>1. string_table.strings \in Seq(Strings)
    BY <1>2, TableTyped
  <2> QED
    BY <1>2, <1>3, <2>1 DEF Jsons
<1>5. Written(json, markers, samples)
  <2>1. PartlyWritten("strings", rows, string_table.strings, IterThread(markers, Head(infos)),
                      IterThread(samples, Head(infos)))
    BY <1>1, <1>2 DEF SerializationInv
  <2> QED
    BY <1>2, <1>3, <2>1, ReadsBackWhenDone
<1> HIDE DEF json
<1>6. /\ threads' \in Seq(Jsons)
      /\ Len(threads) \in Nat
      /\ Len(threads') = Len(threads) + 1
      /\ threads'[Len(threads) + 1] = json
      /\ \A i \in 1 .. Len(threads) : threads'[i] = threads[i]
  BY <1>1, <1>2, <1>4, Appended
<1>7. \A i \in 1 .. Len(threads') : Written(threads'[i], markers, samples)
  <2> TAKE i \in 1 .. Len(threads')
  <2>1. CASE i = Len(threads) + 1
    BY <1>5, <1>6, <2>1
  <2>2. CASE i # Len(threads) + 1
    <3>1. i \in 1 .. Len(threads)
      BY <1>6, <2>2
    <3>2. Written(threads[i], markers, samples)
      BY <3>1 DEF SerializationInv
    <3> QED
      BY <1>6, <3>1, <3>2
  <2> QED
    BY <2>1, <2>2
<1>8. cleared' \in BOOLEAN
  BY <1>1 DEF SerializationInv, TypeOK
<1> QED
  BY <1>1, <1>3, <1>6, <1>7, <1>8, BeginStep

\* The JSON is sent.
LEMMA SendStep ==
  ASSUME SerializationInv, SendJson
  PROVE  SerializationInv'
<1>1. /\ section = "done" /\ section' = "receiving" /\ threads' = <<>>
      /\ infos' = infos /\ string_table' = string_table /\ rows' = rows
      /\ now' = now /\ markers' = markers /\ samples' = samples /\ cleared' = cleared
      /\ DOMAIN threads' = {}
  BY DEF SendJson, data
<1>2. infos = <<>>
  BY <1>1 DEF SerializationInv, TypeOK
<1>3. TypeOK'
  BY <1>1, <1>2 DEF SerializationInv, TypeOK
<1>4. 1 .. Len(threads') = {}
  BY <1>1
<1> QED
  BY <1>1, <1>2, <1>3, <1>4 DEF SerializationInv

\* What is to be known of a step that writes more of a thread.
LEMMA WritingStep ==
  ASSUME SerializationInv, infos # <<>>, UNCHANGED <<data, infos, threads>>,
         section' \in {"markers", "samples", "frames", "strings"},
         string_table' \in Tables(Strings), string_table' = FromJson(string_table'.strings),
         rows' \in Rows,
         PartlyWritten(section', rows', string_table'.strings, IterThread(markers, Head(infos)),
                       IterThread(samples, Head(infos)))
  PROVE  SerializationInv'
<1>1. /\ now' = now /\ markers' = markers /\ samples' = samples /\ cleared' = cleared
      /\ infos' = infos /\ threads' = threads
  BY DEF data
<1>2. TypeOK'
  <2>1. /\ string_table'.strings \in Seq(Strings)
        /\ string_table'.string_to_index \in
             [ToSet(string_table'.strings) -> 0 .. Len(string_table'.strings) - 1]
    BY TableTyped
  <2>2. StringsInRange(rows', string_table'.strings)
    BY <2>1, RowsInRange DEF PartlyWritten
  <2> QED
    BY <1>1, <2>1, <2>2 DEF SerializationInv, TypeOK
<1> QED
  BY <1>1, <1>2 DEF SerializationInv

\* The thread at hand, and what is its own in the buffers.
LEMMA AtHand ==
  ASSUME SerializationInv, section \in {"markers", "samples", "frames", "strings"}
  PROVE  /\ infos # <<>>
         /\ rows \in Rows
         /\ string_table \in Tables(Strings)
         /\ IterThread(markers, Head(infos)) \in Seq(BufferEntry(Threads, Names))
         /\ IterThread(samples, Head(infos)) \in Seq(BufferEntry(Threads, Addresses))
         /\ PartlyWritten(section, rows, string_table.strings, IterThread(markers, Head(infos)),
                          IterThread(samples, Head(infos)))
<1>1. /\ infos # <<>> /\ infos \in Seq(Threads)
      /\ rows \in Rows
      /\ markers \in Seq(BufferEntry(Threads, Names))
      /\ samples \in Seq(BufferEntry(Threads, Addresses))
  BY DEF SerializationInv, TypeOK
<1>2. Head(infos) \in Threads
  BY <1>1
<1>3. /\ IterThread(markers, Head(infos)) \in Seq(BufferEntry(Threads, Names))
      /\ IterThread(samples, Head(infos)) \in Seq(BufferEntry(Threads, Addresses))
  BY <1>1, <1>2, RecordedIsIterated
<1> QED
  BY <1>1, <1>3 DEF SerializationInv

\* The next marker, or the end of the markers.
LEMMA SerializeMarkerStep ==
  ASSUME SerializationInv, SerializeMarker
  PROVE  SerializationInv'
<1> DEFINE own == IterThread(markers, Head(infos))
           ownSamples == IterThread(samples, Head(infos))
           stacks == StackTable(ownSamples)
           entry == own[Len(rows.markers) + 1]
           name == GetIndex(string_table, entry.value)
           row == <<name.index, Millis(entry.created_at)>>
           strings == string_table.strings
           longer == name.table.strings
           written == [rows EXCEPT !.markers = Append(@, row)]
<1>1. section = "markers" /\ UNCHANGED <<data, infos, threads>>
  BY DEF SerializeMarker
<1>2. /\ infos # <<>>
      /\ rows \in Rows
      /\ string_table \in Tables(Strings)
      /\ own \in Seq(BufferEntry(Threads, Names))
      /\ ownSamples \in Seq(BufferEntry(Threads, Addresses))
      /\ PartlyWritten("markers", rows, strings, own, ownSamples)
  BY <1>1, AtHand
<1>3. string_table = FromJson(strings)
  BY DEF SerializationInv
<1>4. rows.markers \in Seq(Nat \X Nat) /\ Len(rows.markers) \in Nat /\ Len(own) \in Nat
  BY <1>2 DEF Rows
<1>5. CASE Len(rows.markers) < Len(own)
  <2>1. string_table' = name.table /\ rows' = written /\ section' = section
    BY <1>5 DEF SerializeMarker
  <2>2. entry \in BufferEntry(Threads, Names)
    BY <1>2, <1>4, <1>5
  <2>3. entry.value \in Strings /\ Millis(entry.created_at) \in Nat
    BY <2>2, MillisIsNumber DEF BufferEntry, Strings
  <2> HIDE DEF entry, own, ownSamples, stacks
  <2>4. /\ name.table \in Tables(Strings)
        /\ name.index \in 0 .. Len(longer) - 1
        /\ longer[name.index + 1] = entry.value
        /\ Starts(strings, longer)
        /\ \A n \in 1 .. Len(longer) : n \in 1 .. Len(strings) \/ n = name.index + 1
    BY <1>2, <2>3, GetIndexIs
  <2>5. name.table = FromJson(longer)
    BY <1>2, <1>3, <2>3, RebuiltAfterGetIndex
  <2>6. strings \in Seq(Strings) /\ longer \in Seq(Strings)
    BY <1>2, <2>4, TableTyped
  <2>7. Row(entry) = <<entry.value, Millis(entry.created_at)>>
    BY DEF Row
  <2> HIDE DEF name, strings, longer
  <2>8. row \in Nat \X Nat /\ row[1] = name.index /\ row[2] = Millis(entry.created_at)
    <3>1. Len(longer) \in Nat
      BY <2>6
    <3>2. name.index \in Nat
      BY <2>4, <3>1
    <3> QED
      BY <2>3, <3>2
  <2> HIDE DEF row
  <2>9. /\ Append(rows.markers, row) \in Seq(Nat \X Nat)
        /\ Len(Append(rows.markers, row)) = Len(rows.markers) + 1
        /\ Append(rows.markers, row)[Len(rows.markers) + 1] = row
        /\ \A i \in 1 .. Len(rows.markers) : Append(rows.markers, row)[i] = rows.markers[i]
    BY <1>4, <2>8, Appended
  <2>10. /\ written \in Rows
         /\ written.markers = Append(rows.markers, row)
         /\ written.samples = rows.samples
         /\ written.frames = rows.frames
    BY <1>2, <2>9 DEF Rows
  <2> HIDE DEF written
  <2>11. MarkersOf(rows.markers, longer, own) /\ FramesOf(rows.frames, longer, stacks)
    <3>1. MarkersOf(rows.markers, strings, own) /\ FramesOf(rows.frames, strings, stacks)
      BY <1>2 DEF PartlyWritten, stacks
    <3> QED
      BY <1>2, <2>4, <2>6, <3>1, MoreStrings
  <2>12. MarkersOf(written.markers, longer, own)
    <3>1. Len(written.markers) <= Len(own)
      BY <1>4, <1>5, <2>9, <2>10
    <3>2. ASSUME NEW i \in 1 .. Len(written.markers)
          PROVE  /\ written.markers[i][1] \in 0 .. Len(longer) - 1
                 /\ <<longer[written.markers[i][1] + 1], written.markers[i][2]>> = Row(own[i])
      <4>1. CASE i = Len(rows.markers) + 1
        <5>1. written.markers[i] = row /\ own[i] = entry
          BY <2>9, <2>10, <4>1 DEF entry
        <5> QED
          BY <2>4, <2>7, <2>8, <5>1
      <4>2. CASE i # Len(rows.markers) + 1
        <5>1. i \in 1 .. Len(rows.markers) /\ written.markers[i] = rows.markers[i]
          BY <1>4, <2>9, <2>10, <4>2
        <5> QED
          BY <2>11, <5>1 DEF MarkersOf
      <4> QED
        BY <4>1, <4>2
    <3> QED
      BY <3>1, <3>2 DEF MarkersOf
  <2>13. Used(written, longer)
    <3> SUFFICES ASSUME NEW n \in 1 .. Len(longer)
                 PROVE  \/ \E m \in 1 .. Len(written.markers) : written.markers[m][1] = n - 1
                        \/ \E f \in 1 .. Len(written.frames) : written.frames[f] = n - 1
      BY DEF Used
    <3>1. CASE n = name.index + 1
      <4>1. Len(rows.markers) + 1 \in 1 .. Len(written.markers)
        BY <1>4, <2>9, <2>10
      <4>2. written.markers[Len(rows.markers) + 1][1] = n - 1
        BY <2>4, <2>8, <2>9, <2>10, <3>1
      <4> QED
        BY <4>1, <4>2
    <3>2. CASE n \in 1 .. Len(strings)
      <4>1. CASE \E f \in 1 .. Len(rows.frames) : rows.frames[f] = n - 1
        BY <2>10, <4>1
      <4>2. CASE \E m \in 1 .. Len(rows.markers) : rows.markers[m][1] = n - 1
        <5>1. PICK m \in 1 .. Len(rows.markers) : rows.markers[m][1] = n - 1
          BY <4>2
        <5>2. m \in 1 .. Len(written.markers) /\ written.markers[m] = rows.markers[m]
          BY <1>4, <2>9, <2>10
        <5> QED
          BY <5>1, <5>2
      <4>3. Used(rows, strings)
        BY <1>2 DEF PartlyWritten
      <4> QED
        BY <3>2, <4>1, <4>2, <4>3 DEF Used
    <3> QED
      BY <2>4, <3>1, <3>2
  <2>14. PartlyWritten("markers", written, longer, own, ownSamples)
    BY <2>10, <2>11, <2>12, <2>13 DEF PartlyWritten, stacks
  <2> QED
    BY <1>1, <1>2, <2>1, <2>4, <2>5, <2>10, <2>14, WritingStep DEF own, ownSamples, longer
<1>6. CASE ~ (Len(rows.markers) < Len(own))
  <2>1. section' = "samples" /\ string_table' = string_table /\ rows' = rows
    BY <1>6 DEF SerializeMarker
  <2> HIDE DEF own, ownSamples, stacks, strings
  <2>2. Len(rows.markers) = Len(own)
    BY <1>2, <1>4, <1>6 DEF PartlyWritten, MarkersOf
  <2>3. PartlyWritten("samples", rows, strings, own, ownSamples)
    BY <1>2, <2>2 DEF PartlyWritten
  <2> QED
    BY <1>1, <1>2, <1>3, <2>1, <2>3, WritingStep DEF own, ownSamples, strings
<1> QED
  BY <1>5, <1>6

\* The samples.
LEMMA SerializeSamplesStep ==
  ASSUME SerializationInv, SerializeSamples
  PROVE  SerializationInv'
<1> DEFINE own == IterThread(markers, Head(infos))
           ownSamples == IterThread(samples, Head(infos))
           strings == string_table.strings
           made == [i \in DOMAIN ownSamples |->
                      <<EntryToStackTable(ownSamples)[i], Millis(ownSamples[i].created_at)>>]
           written == [rows EXCEPT !.samples = made]
<1>1. /\ section = "samples" /\ section' = "frames"
      /\ rows' = written
      /\ string_table' = string_table
      /\ UNCHANGED <<data, infos, threads>>
  BY DEF SerializeSamples
<1>2. /\ infos # <<>>
      /\ rows \in Rows
      /\ string_table \in Tables(Strings)
      /\ ownSamples \in Seq(BufferEntry(Threads, Addresses))
      /\ PartlyWritten("samples", rows, strings, own, ownSamples)
  BY <1>1, AtHand
<1>3. string_table = FromJson(strings)
  BY DEF SerializationInv
<1> HIDE DEF own, ownSamples, strings
<1>4. made = SamplesOf(ownSamples)
  BY DEF SamplesOf
<1>5. made \in Seq(Nat \X Nat)
  <2>1. DOMAIN ownSamples = 1 .. Len(ownSamples) /\ Len(ownSamples) \in Nat
    BY <1>2
  <2>2. ASSUME NEW i \in 1 .. Len(ownSamples)
        PROVE  EntryToStackTable(ownSamples)[i] \in Nat /\ Millis(ownSamples[i].created_at) \in Nat
    <3>1. ownSamples[i] \in BufferEntry(Threads, Addresses)
      BY <1>2
    <3>2. ownSamples[i].created_at \in Nat
      BY <3>1 DEF BufferEntry
    <3>3. EntryToStackTable(ownSamples)[i] \in 0 .. Len(StackTable(ownSamples)) - 1
      BY <1>2, EntryToStackTableIs
    <3>4. Len(StackTable(ownSamples)) \in Nat
      BY <1>2, StackTableIs
    <3>5. EntryToStackTable(ownSamples)[i] \in Nat
      BY <3>3, <3>4
    <3> QED
      BY <3>2, <3>5, MillisIsNumber
  <2> QED
    BY <2>1, <2>2
<1> HIDE DEF made
<1>6. /\ written \in Rows
      /\ written.samples = made
      /\ written.markers = rows.markers
      /\ written.frames = rows.frames
  BY <1>2, <1>5 DEF Rows
<1> HIDE DEF written
<1>7. PartlyWritten("frames", written, strings, own, ownSamples)
  BY <1>2, <1>4, <1>6 DEF PartlyWritten, Used
<1> QED
  BY <1>1, <1>2, <1>3, <1>6, <1>7, WritingStep DEF own, ownSamples, strings

\* The next frame, or the end of the frames.
LEMMA SerializeFrameStep ==
  ASSUME SerializationInv, SerializeFrame
  PROVE  SerializationInv'
<1> DEFINE own == IterThread(markers, Head(infos))
           ownSamples == IterThread(samples, Head(infos))
           stacks == StackTable(ownSamples)
           stack == stacks[Len(rows.frames) + 1]
           location == GetIndex(string_table, stack)
           strings == string_table.strings
           longer == location.table.strings
           written == [rows EXCEPT !.frames = Append(@, location.index)]
<1>1. section = "frames" /\ UNCHANGED <<data, infos, threads>>
  BY DEF SerializeFrame
<1>2. /\ infos # <<>>
      /\ rows \in Rows
      /\ string_table \in Tables(Strings)
      /\ ownSamples \in Seq(BufferEntry(Threads, Addresses))
      /\ PartlyWritten("frames", rows, strings, own, ownSamples)
  BY <1>1, AtHand
<1>3. string_table = FromJson(strings)
  BY DEF SerializationInv
<1>4. /\ rows.frames \in Seq(Nat) /\ Len(rows.frames) \in Nat
      /\ stacks \in Seq(Addresses) /\ Len(stacks) \in Nat
  BY <1>2, StackTableIs DEF Rows
<1>5. CASE Len(rows.frames) < Len(stacks)
  <2>1. string_table' = location.table /\ rows' = written /\ section' = section
    BY <1>5 DEF SerializeFrame
  <2>2. stack \in Strings
    <3> HIDE DEF stacks
    <3>1. Len(rows.frames) + 1 \in 1 .. Len(stacks)
      BY <1>4, <1>5
    <3> QED
      BY <1>4, <3>1 DEF Strings
  <2> HIDE DEF stack, own, ownSamples, stacks
  <2>3. /\ location.table \in Tables(Strings)
        /\ location.index \in 0 .. Len(longer) - 1
        /\ longer[location.index + 1] = stack
        /\ Starts(strings, longer)
        /\ \A n \in 1 .. Len(longer) : n \in 1 .. Len(strings) \/ n = location.index + 1
    BY <1>2, <2>2, GetIndexIs
  <2>4. location.table = FromJson(longer)
    BY <1>2, <1>3, <2>2, RebuiltAfterGetIndex
  <2>5. strings \in Seq(Strings) /\ longer \in Seq(Strings)
    BY <1>2, <2>3, TableTyped
  <2>6. location.index \in Nat
    BY <2>3, <2>5
  <2> HIDE DEF location, strings, longer
  <2>7. /\ Append(rows.frames, location.index) \in Seq(Nat)
        /\ Len(Append(rows.frames, location.index)) = Len(rows.frames) + 1
        /\ Append(rows.frames, location.index)[Len(rows.frames) + 1] = location.index
        /\ \A f \in 1 .. Len(rows.frames) : Append(rows.frames, location.index)[f] = rows.frames[f]
    BY <1>4, <2>6, Appended
  <2>8. /\ written \in Rows
        /\ written.frames = Append(rows.frames, location.index)
        /\ written.samples = rows.samples
        /\ written.markers = rows.markers
    BY <1>2, <2>7 DEF Rows
  <2> HIDE DEF written
  <2>9. MarkersOf(rows.markers, longer, own) /\ FramesOf(rows.frames, longer, stacks)
    <3>1. MarkersOf(rows.markers, strings, own) /\ FramesOf(rows.frames, strings, stacks)
      BY <1>2 DEF PartlyWritten, stacks
    <3> QED
      BY <1>2, <2>3, <2>5, <3>1, MoreStrings
  <2>10. FramesOf(written.frames, longer, stacks)
    <3>1. Len(written.frames) <= Len(stacks)
      BY <1>4, <1>5, <2>7, <2>8
    <3>2. ASSUME NEW f \in 1 .. Len(written.frames)
          PROVE  /\ written.frames[f] \in 0 .. Len(longer) - 1
                 /\ longer[written.frames[f] + 1] = stacks[f]
      <4>1. CASE f = Len(rows.frames) + 1
        BY <2>3, <2>7, <2>8, <4>1 DEF stack
      <4>2. CASE f # Len(rows.frames) + 1
        <5>1. f \in 1 .. Len(rows.frames) /\ written.frames[f] = rows.frames[f]
          BY <1>4, <2>7, <2>8, <4>2
        <5> QED
          BY <2>9, <5>1 DEF FramesOf
      <4> QED
        BY <4>1, <4>2
    <3> QED
      BY <3>1, <3>2 DEF FramesOf
  <2>11. Used(written, longer)
    <3> SUFFICES ASSUME NEW n \in 1 .. Len(longer)
                 PROVE  \/ \E m \in 1 .. Len(written.markers) : written.markers[m][1] = n - 1
                        \/ \E f \in 1 .. Len(written.frames) : written.frames[f] = n - 1
      BY DEF Used
    <3>1. CASE n = location.index + 1
      <4>1. Len(rows.frames) + 1 \in 1 .. Len(written.frames)
        BY <1>4, <2>7, <2>8
      <4>2. written.frames[Len(rows.frames) + 1] = n - 1
        BY <2>6, <2>7, <2>8, <3>1
      <4> QED
        BY <4>1, <4>2
    <3>2. CASE n \in 1 .. Len(strings)
      <4>1. CASE \E m \in 1 .. Len(rows.markers) : rows.markers[m][1] = n - 1
        BY <2>8, <4>1
      <4>2. CASE \E f \in 1 .. Len(rows.frames) : rows.frames[f] = n - 1
        <5>1. PICK f \in 1 .. Len(rows.frames) : rows.frames[f] = n - 1
          BY <4>2
        <5>2. f \in 1 .. Len(written.frames) /\ written.frames[f] = rows.frames[f]
          BY <1>4, <2>7, <2>8
        <5> QED
          BY <5>1, <5>2
      <4>3. Used(rows, strings)
        BY <1>2 DEF PartlyWritten
      <4> QED
        BY <3>2, <4>1, <4>2, <4>3 DEF Used
    <3> QED
      BY <2>3, <3>1, <3>2
  <2>12. PartlyWritten("frames", written, longer, own, ownSamples)
    BY <1>2, <2>8, <2>9, <2>10, <2>11 DEF PartlyWritten, stacks
  <2> QED
    BY <1>1, <1>2, <2>1, <2>3, <2>4, <2>8, <2>12, WritingStep DEF own, ownSamples, longer
<1>6. CASE ~ (Len(rows.frames) < Len(stacks))
  <2>1. section' = "strings" /\ string_table' = string_table /\ rows' = rows
    BY <1>6 DEF SerializeFrame
  <2>2. Len(rows.frames) = Len(stacks)
    <3> HIDE DEF own, ownSamples, strings
    <3> QED
      BY <1>2, <1>4, <1>6 DEF PartlyWritten, FramesOf
  <2> HIDE DEF own, ownSamples, strings
  <2>3. PartlyWritten("strings", rows, strings, own, ownSamples)
    BY <1>2, <2>2 DEF PartlyWritten
  <2> QED
    BY <1>1, <1>2, <1>3, <2>1, <2>3, WritingStep DEF own, ownSamples, strings
<1> QED
  BY <1>5, <1>6

-----------------------------------------------------------------------------
(* The theorems.                                                           *)

\* The invariant holds at the start, with nothing in the buffers.
LEMMA InitSerializationInv == Init => SerializationInv
<1> SUFFICES ASSUME Init PROVE SerializationInv
  OBVIOUS
<1>1. /\ now = 0 /\ markers = <<>> /\ samples = <<>> /\ infos = <<>> /\ section = "receiving"
      /\ string_table = NewStringTable /\ rows = NoRows /\ threads = <<>>
      /\ cleared = FALSE
  BY DEF Init
<1>2. string_table \in Tables(Strings) /\ string_table = FromJson(string_table.strings)
  BY <1>1, NewTableIs, NewTableRebuilt
<1>3. rows \in Rows
  BY <1>1 DEF NoRows, Rows
<1>4. TypeOK
  <2>1. /\ string_table.strings \in Seq(Strings)
        /\ string_table.string_to_index \in
             [ToSet(string_table.strings) -> 0 .. Len(string_table.strings) - 1]
    BY <1>2, TableTyped
  <2>2. now \in 0 .. MaxNow
    BY <1>1, SerializationBounds
  <2>3. StringsInRange(rows, string_table.strings)
    <3>1. DOMAIN rows.markers = {} /\ DOMAIN rows.frames = {}
      BY <1>1 DEF NoRows
    <3> QED
      BY <3>1 DEF StringsInRange
  <2>4. DOMAIN threads = {}
    BY <1>1
  <2>5. cleared \in BOOLEAN
    BY <1>1
  <2> QED
    BY <1>1, <1>3, <2>1, <2>2, <2>3, <2>4, <2>5 DEF TypeOK
<1>5. 1 .. Len(markers) = {} /\ 1 .. Len(threads) = {}
  BY <1>1
<1>6. InOrder(markers, now)
  BY <1>5 DEF InOrder
<1> QED
  BY <1>1, <1>2, <1>4, <1>5, <1>6 DEF SerializationInv

\* Every step keeps it.
LEMMA NextSerializationInv == SerializationInv /\ [Next]_vars => SerializationInv'
<1> SUFFICES ASSUME SerializationInv, [Next]_vars PROVE SerializationInv'
  OBVIOUS
<1>1. CASE ClockTicks
  BY <1>1, ClockStep
<1>2. CASE \E tid \in Threads, name \in Names : AddMarker(tid, name)
  BY <1>2, MarkerStep
<1>3. CASE \E tid \in Threads, address \in Addresses : AddSample(tid, address)
  BY <1>3, SampleStep
<1>4. CASE ClearExpiredMarkers
  BY <1>4, ExpiryStep
<1>5. CASE \E tids \in BoundedSeq(Threads, MaxInfos) : SerializeBuffer(tids)
  BY <1>5, SerializeBufferStep
<1>6. CASE SerializeMarker
  BY <1>6, SerializeMarkerStep
<1>7. CASE SerializeSamples
  BY <1>7, SerializeSamplesStep
<1>8. CASE SerializeFrame
  BY <1>8, SerializeFrameStep
<1>9. CASE FinishThread
  BY <1>9, FinishStep
<1>10. CASE SendJson
  BY <1>10, SendStep
<1>11. CASE UNCHANGED vars
  BY <1>11 DEF vars, data, serializing, SerializationInv, TypeOK
<1> QED
  BY <1>1, <1>2, <1>3, <1>4, <1>5, <1>6, <1>7, <1>8, <1>9, <1>10, <1>11 DEF Next

\* The invariant always holds.
THEOREM SerializationInvHolds == Spec => []SerializationInv
BY InitSerializationInv, NextSerializationInv, PTL DEF Spec

\* The state of the buffers and of the profile at hand is of its type: every marker row
\* and every frame row refers to a string that its string table has, every string of a
\* table to a place in it, and every sample row of a thread that is done to a stack that
\* is there.
THEOREM SerializationTypeCorrect == Spec => []TypeOK
<1>1. SerializationInv => TypeOK
  BY DEF SerializationInv
<1> QED
  BY <1>1, SerializationInvHolds, PTL

\* Whatever is in the buffers and in whatever order the threads come, the JSON of each
\* thread reads back as the thread's own markers and samples.
THEOREM ReadsBackHolds == Spec => []ReadsBack
<1>1. SerializationInv => ReadsBack
  <2> SUFFICES ASSUME SerializationInv PROVE ReadsBack
    OBVIOUS
  <2>1. DOMAIN threads = 1 .. Len(threads)
    BY DEF SerializationInv, TypeOK
  <2> QED
    BY <2>1 DEF SerializationInv, Written, ReadsBack
<1> QED
  BY <1>1, SerializationInvHolds, PTL

\* A thread's strings are in its JSON once, and only if its rows refer to them; the
\* table at hand is what from_json makes of its strings.
THEOREM StringTableExactHolds == Spec => []StringTableExact
<1>1. SerializationInv => StringTableExact
  <2> SUFFICES ASSUME SerializationInv PROVE StringTableExact
    OBVIOUS
  <2>1. DOMAIN threads = 1 .. Len(threads) /\ threads \in Seq(Jsons)
    BY DEF SerializationInv, TypeOK, Jsons
  <2>2. ASSUME NEW i \in DOMAIN threads
        PROVE  LET json == threads[i] IN
               /\ IsInjective(json.strings)
               /\ \A n \in DOMAIN json.strings :
                    \/ \E m \in DOMAIN json.rows.markers : json.rows.markers[m][1] = n - 1
                    \/ \E f \in DOMAIN json.rows.frames : json.rows.frames[f] = n - 1
    <3>1. IsInjective(threads[i].strings) /\ Used(threads[i].rows, threads[i].strings)
      BY <2>1 DEF SerializationInv, Written
    <3>2. threads[i].strings \in Seq(Strings) /\ threads[i].rows \in Rows
      <4>1. threads[i] \in Jsons
        BY <2>1
      <4> QED
        BY <4>1 DEF Jsons
    <3>3. /\ DOMAIN threads[i].strings = 1 .. Len(threads[i].strings)
          /\ DOMAIN threads[i].rows.markers = 1 .. Len(threads[i].rows.markers)
          /\ DOMAIN threads[i].rows.frames = 1 .. Len(threads[i].rows.frames)
      BY <3>2 DEF Rows
    <3> QED
      BY <3>1, <3>3 DEF Used
  <2> QED
    BY <2>2 DEF SerializationInv, StringTableExact
<1> QED
  BY <1>1, SerializationInvHolds, PTL

\* Expiry takes every marker that is older than the lifetime and no other: when it takes
\* none, there is none.  Nothing else takes markers.
THEOREM RemovesExactlyExpiredHolds == Spec => RemovesExactlyExpired
<1> DEFINE Removes ==
      LET gone == Len(markers) - Len(markers') IN
      (cleared' /\ ~cleared) \/ gone > 0 =>
        /\ markers' = SubSeq(markers, gone + 1, Len(markers))
        /\ \A i \in DOMAIN markers : i <= gone <=> now - markers[i].created_at > EntryLifetime
<1>1. SerializationInv /\ [Next]_vars => [Removes]_vars
  <2> SUFFICES ASSUME SerializationInv, [Next]_vars PROVE Removes
    OBVIOUS
  <2>1. /\ now \in Nat
        /\ markers \in Seq(BufferEntry(Threads, Names))
        /\ InOrder(markers, now)
        /\ Len(markers) \in Nat
    BY DEF SerializationInv, TypeOK
  <2>2. CASE ClearExpiredMarkers
    <3>1. markers' = RemoveExpired(markers, now, EntryLifetime)
      BY <2>2 DEF ClearExpiredMarkers
    <3> QED
      BY <2>1, <3>1, RemovedIsExpired
  <2>3. CASE \E tid \in Threads, name \in Names : AddMarker(tid, name)
    <3>1. PICK tid \in Threads, name \in Names : AddMarker(tid, name)
      BY <2>3
    <3>2. [tid |-> tid, created_at |-> now, value |-> name] \in BufferEntry(Threads, Names)
      BY <2>1 DEF BufferEntry
    <3>3. Len(markers') = Len(markers) + 1 /\ ~cleared'
      BY <2>1, <3>1, <3>2, Appended DEF AddMarker, PushBackAt
    <3> QED
      BY <2>1, <3>3
  <2>4. CASE markers' = markers /\ ~(cleared' /\ ~cleared)
    BY <2>1, <2>4
  <2>5. \/ ClearExpiredMarkers
        \/ \E tid \in Threads, name \in Names : AddMarker(tid, name)
        \/ markers' = markers /\ ~(cleared' /\ ~cleared)
    BY DEF Next, vars, data, ClockTicks, AddSample, SerializeBuffer, SerializeMarker,
           SerializeSamples, SerializeFrame, FinishThread, SendJson
  <2> QED
    BY <2>2, <2>3, <2>4, <2>5
<1> QED
  BY <1>1, SerializationInvHolds, PTL DEF Spec, RemovesExactlyExpired
=============================================================================
