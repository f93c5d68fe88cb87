--------------------------- MODULE RegistrarProofs ---------------------------
(***************************************************************************)
(* Theorems about Registrar, for any number of threads and registrars.     *)
(***************************************************************************)
EXTENDS Registrar, FiniteSetTheorems, TLAPS

\* The types that matter here.  How many samplers a thread can have is not one.
Typed ==
  /\ thread \in [Threads -> {"running", "ended", "panicked"}]
  /\ holder \in [Registrars -> Threads \cup {None}]
  /\ instrumented \subseteq Threads
  /\ sampler_channel \in Seq(Message)
  /\ samplers \in [Threads -> Nat]

\* A thread is sampled, in the end, by what the last message about it says.
LEMMA SendDecides ==
  ASSUME Typed, NEW type \in {"RegisterSampler", "UnregisterSampler"}, NEW t \in Threads,
         Send(type, t), UNCHANGED samplers
  PROVE  /\ sampler_channel' \in Seq(Message)
         /\ ToBeSampled(t)' <=> type = "RegisterSampler"
         /\ \A u \in Threads \ {t} : ToBeSampled(u)' <=> ToBeSampled(u)
<1> DEFINE message == [type |-> type, tid |-> t]
           last == Len(sampler_channel) + 1
<1>1. /\ sampler_channel' \in Seq(Message)
      /\ DOMAIN sampler_channel' = 1 .. last
      /\ DOMAIN sampler_channel = 1 .. last - 1
      /\ last \in Nat
      /\ sampler_channel'[last] = message
      /\ \A i \in 1 .. last - 1 : sampler_channel'[i] = sampler_channel[i]
  <2>1. message \in Message
    BY DEF Message
  <2> QED
    BY <2>1 DEF Typed, Send
<1>2. last \in About(t)' /\ \A i \in About(t)' : i <= last /\ i \in Nat
  BY <1>1 DEF About
<1>3. ToBeSampled(t)' <=> type = "RegisterSampler"
  <2>1. sampler_channel'[last].type = type
    BY <1>1
  <2>2. ASSUME NEW i \in About(t)', \A j \in About(t)' : j <= i PROVE i = last
    BY <1>1, <1>2, <2>2
  <2> HIDE DEF last
  <2> QED
    BY <1>2, <2>1, <2>2 DEF ToBeSampled
<1>4. ASSUME NEW u \in Threads \ {t} PROVE ToBeSampled(u)' <=> ToBeSampled(u)
  <2>1. sampler_channel'[last].tid # u
    BY <1>1
  <2>2. About(u)' = About(u)
    BY <1>1, <2>1 DEF About
  <2>3. \A i \in About(u) : sampler_channel'[i] = sampler_channel[i]
    BY <1>1 DEF About
  <2> QED
    BY <2>2, <2>3 DEF ToBeSampled
<1> QED
  BY <1>1, <1>3, <1>4

\* The sampler thread changes nothing about that when it handles a message.
LEMMA HandlingKeeps ==
  ASSUME Typed, RegisterSampler \/ UnregisterSampler
  PROVE  /\ sampler_channel' \in Seq(Message)
         /\ samplers' \in [Threads -> Nat]
         /\ \A u \in Threads : ToBeSampled(u)' <=> ToBeSampled(u)
<1>1. /\ sampler_channel # <<>>
      /\ sampler_channel' = Tail(sampler_channel)
  BY DEF RegisterSampler, UnregisterSampler
<1>2. /\ sampler_channel' \in Seq(Message)
      /\ Len(sampler_channel) \in Nat \ {0}
      /\ DOMAIN sampler_channel = 1 .. Len(sampler_channel)
      /\ DOMAIN sampler_channel' = 1 .. Len(sampler_channel) - 1
      /\ \A i \in 1 .. Len(sampler_channel) - 1 : sampler_channel'[i] = sampler_channel[i + 1]
      /\ Head(sampler_channel) = sampler_channel[1]
  BY <1>1 DEF Typed
<1>3. /\ sampler_channel[1] \in Message
      /\ sampler_channel[1].tid \in Threads
  <2>1. sampler_channel[1] \in Message
    BY <1>2 DEF Typed
  <2> QED
    BY <2>1 DEF Message
<1>4. samplers' \in [Threads -> Nat]
  BY DEF RegisterSampler, UnregisterSampler, Typed
<1>5. ASSUME NEW u \in Threads PROVE ToBeSampled(u)' <=> ToBeSampled(u)
  <2>1. \A i : i \in About(u)' <=> i \in Nat \ {0} /\ i + 1 \in About(u)
    BY <1>2 DEF About
  <2>2. \A i \in About(u) : i \in Nat \ {0} /\ (i # 1 => i - 1 \in About(u)')
    BY <1>2 DEF About
  <2>3. 1 \in About(u) <=> sampler_channel[1].tid = u
    BY <1>2 DEF About
  <2>4. \A i \in About(u)' : sampler_channel'[i] = sampler_channel[i + 1]
    BY <1>2 DEF About
  <2>5. CASE About(u)' # {}
    <3>1. PICK k \in About(u)' : TRUE
      BY <2>5
    <3>2. About(u) # {}
      BY <2>1, <3>1
    <3>3. ASSUME NEW i \in About(u)', \A j \in About(u)' : j <= i
          PROVE  i + 1 \in About(u) /\ \A j \in About(u) : j <= i + 1
      BY <2>1, <2>2, <3>3
    <3>4. ASSUME NEW i \in About(u), \A j \in About(u) : j <= i
          PROVE  i - 1 \in About(u)' /\ \A j \in About(u)' : j <= i - 1
      <4>1. i # 1
        BY <2>1, <3>1, <3>4
      <4> QED
        BY <2>1, <2>2, <3>4, <4>1
    <3>5. ASSUME ToBeSampled(u)' PROVE ToBeSampled(u)
      <4>1. PICK i \in About(u)' : /\ \A j \in About(u)' : j <= i
                                   /\ sampler_channel'[i].type = "RegisterSampler"
        BY <2>5, <3>5 DEF ToBeSampled
      <4>2. sampler_channel[i + 1].type = "RegisterSampler"
        BY <2>4, <4>1
      <4> QED
        BY <3>2, <3>3, <4>1, <4>2 DEF ToBeSampled
    <3>6. ASSUME ToBeSampled(u) PROVE ToBeSampled(u)'
      <4>1. PICK i \in About(u) : /\ \A j \in About(u) : j <= i
                                  /\ sampler_channel[i].type = "RegisterSampler"
        BY <3>2, <3>6 DEF ToBeSampled
      <4>2. i - 1 \in About(u)' /\ \A j \in About(u)' : j <= i - 1
        BY <3>4, <4>1
      <4>3. sampler_channel'[i - 1].type = "RegisterSampler"
        BY <2>2, <2>4, <4>1, <4>2
      <4> QED
        BY <2>5, <4>2, <4>3 DEF ToBeSampled
    <3> QED
      BY <3>5, <3>6
  <2>6. CASE About(u)' = {} /\ sampler_channel[1].tid = u
    <3>1. 1 \in About(u) /\ \A i \in About(u) : i = 1
      BY <2>2, <2>3, <2>6
    <3>2. ToBeSampled(u) <=> sampler_channel[1].type = "RegisterSampler"
      BY <3>1 DEF ToBeSampled
    <3>3. ToBeSampled(u)' <=> samplers'[u] > 0
      BY <2>6 DEF ToBeSampled
    <3>4. samplers'[u] > 0 <=> sampler_channel[1].type = "RegisterSampler"
      BY <1>2, <2>6 DEF RegisterSampler, UnregisterSampler, Typed
    <3> QED
      BY <3>2, <3>3, <3>4
  <2>7. CASE About(u)' = {} /\ sampler_channel[1].tid # u
    <3>1. About(u) = {}
      BY <2>2, <2>3, <2>7
    <3>2. samplers'[u] = samplers[u]
      BY <1>2, <2>7 DEF RegisterSampler, UnregisterSampler, Typed
    <3> QED
      BY <2>7, <3>1, <3>2 DEF ToBeSampled
  <2> QED
    BY <2>5, <2>6, <2>7
<1> QED
  BY <1>2, <1>4, <1>5

-----------------------------------------------------------------------------

IInv == Typed /\ InstrumentedIsSampled

\* unregister_thread takes a thread out of both at once.
LEMMA Unregistered ==
  ASSUME IInv, NEW t \in Threads, UnregisterThread(t),
         thread' \in [Threads -> {"running", "ended", "panicked"}],
         \A u \in Threads : thread'[u] = "running" => thread[u] = "running",
         holder' \in [Registrars -> Threads \cup {None}],
         UNCHANGED samplers
  PROVE  IInv'
<1>1. Send("UnregisterSampler", t) /\ instrumented' = instrumented \ {t}
  BY DEF UnregisterThread
<1>2. /\ sampler_channel' \in Seq(Message)
      /\ ~ToBeSampled(t)'
      /\ \A u \in Threads \ {t} : ToBeSampled(u)' <=> ToBeSampled(u)
  BY <1>1, SendDecides DEF IInv
<1>3. InstrumentedIsSampled'
  BY <1>1, <1>2 DEF IInv, InstrumentedIsSampled
<1> QED
  BY <1>1, <1>2, <1>3 DEF IInv, Typed

\* A step that leaves the channel, the list and the running threads' locals alone.
LEMMA LeftAlone ==
  ASSUME IInv, UNCHANGED <<sampler_channel, samplers>>,
         thread' \in [Threads -> {"running", "ended", "panicked"}],
         \A u \in Threads : thread'[u] = "running" =>
           thread[u] = "running" /\ (u \in instrumented' <=> u \in instrumented),
         instrumented' \subseteq Threads,
         holder' \in [Registrars -> Threads \cup {None}]
  PROVE  IInv'
<1>1. \A u \in Threads : ToBeSampled(u)' <=> ToBeSampled(u)
  BY DEF ToBeSampled, About
<1> QED
  BY <1>1 DEF IInv, Typed, InstrumentedIsSampled

\* A panic unregisters an instrumented thread, and nothing else.
LEMMA UnwindingKeeps ==
  ASSUME IInv, NEW t \in Threads, NEW rs \in SUBSET Registrars, UnwindThrough(t, rs),
         UNCHANGED samplers
  PROVE  IInv'
<1>1. /\ thread' \in [Threads -> {"running", "ended", "panicked"}]
      /\ \A u \in Threads : thread'[u] = "running" => thread[u] = "running"
  BY DEF UnwindThrough, IInv, Typed
<1>2. holder' \in [Registrars -> Threads \cup {None}]
  BY DEF UnwindThrough, IInv, Typed
<1>3. CASE t \in instrumented
  BY <1>1, <1>2, <1>3, Unregistered DEF UnwindThrough
<1>4. CASE t \notin instrumented
  BY <1>1, <1>2, <1>4, LeftAlone DEF UnwindThrough, IInv, Typed
<1> QED
  BY <1>3, <1>4

\* InstrumentedIsSampled is inductive on top of the types.
LEMMA InstrumentedStep == IInv /\ [Next]_vars => IInv'
<1> SUFFICES ASSUME IInv, [Next]_vars PROVE IInv'
  OBVIOUS
<1>1. ASSUME NEW r \in Registrars, NEW t \in Threads, Move(r, t) PROVE IInv'
  BY <1>1, LeftAlone DEF Move, IInv, Typed
<1>2. ASSUME NEW r \in Registrars, NEW t \in Threads, Register(r, t) PROVE IInv'
  <2>1. CASE r \in unused
    <3>1. /\ Send("RegisterSampler", t)
          /\ instrumented' = instrumented \cup {t}
          /\ UNCHANGED <<thread, holder, samplers>>
      BY <1>2, <2>1 DEF Register
    <3>2. /\ sampler_channel' \in Seq(Message)
          /\ ToBeSampled(t)'
          /\ \A u \in Threads \ {t} : ToBeSampled(u)' <=> ToBeSampled(u)
      BY <3>1, SendDecides DEF IInv
    <3> QED
      BY <3>1, <3>2 DEF IInv, Typed, InstrumentedIsSampled
  <2>2. CASE r \notin unused
    BY <1>2, <2>2, UnwindingKeeps DEF Register, HeldBy
  <2> QED
    BY <2>1, <2>2
<1>3. ASSUME NEW r \in Registrars, NEW t \in Threads, DropRegistrar(r, t) PROVE IInv'
  <2>1. CASE t \in instrumented
    <3>1. /\ UnregisterThread(t)
          /\ holder' = [holder EXCEPT ![r] = None]
          /\ UNCHANGED <<thread, samplers>>
      BY <1>3, <2>1 DEF DropRegistrar
    <3> QED
      BY <3>1, Unregistered DEF IInv, Typed
  <2>2. CASE t \notin instrumented
    BY <1>3, <2>2, UnwindingKeeps DEF DropRegistrar, HeldBy
  <2> QED
    BY <2>1, <2>2
<1>4. ASSUME NEW t \in Threads, ThreadEnds(t) PROVE IInv'
  BY <1>4, LeftAlone DEF ThreadEnds, IInv, Typed
<1>5. CASE RegisterSampler \/ UnregisterSampler
  <2>1. UNCHANGED <<thread, holder, instrumented>>
    BY <1>5 DEF RegisterSampler, UnregisterSampler
  <2> QED
    BY <1>5, <2>1, HandlingKeeps DEF IInv, Typed, InstrumentedIsSampled
<1>6. CASE UNCHANGED vars
  BY <1>6, LeftAlone DEF vars, IInv, Typed
<1> QED
  BY <1>1, <1>2, <1>3, <1>4, <1>5, <1>6 DEF Next

\* For any number of threads and registrars, whoever drops them and in whatever order:
\* a running thread records markers exactly if it is, or is about to be, sampled
\* (register, unregister_thread, and the sampler thread's two messages).
THEOREM InstrumentedIsSampledHolds == Spec => []InstrumentedIsSampled
<1>1. Init => IInv
  BY DEF Init, IInv, Typed, InstrumentedIsSampled, ToBeSampled, About
<1>2. IInv => InstrumentedIsSampled
  BY DEF IInv
<1> QED
  BY <1>1, <1>2, InstrumentedStep, PTL DEF Spec

-----------------------------------------------------------------------------

\* While registrars are used as documented, nothing has panicked, and a thread that
\* holds one which it has registered is instrumented and holds no other such.
UsedWell ==
  ~misused =>
    /\ ~aborted
    /\ \A t \in Threads : thread[t] # "panicked"
    /\ \A r \in Registrars \ unused : holder[r] # None => holder[r] \in instrumented
    /\ \A r, s \in Registrars \ unused : holder[r] # None /\ holder[r] = holder[s] => r = s

\* A registrar that is dropped where it was registered leaves no other on the thread
\* without its instrumentation.
LEMMA UsedWellStep == Typed /\ UsedWell /\ [Next]_vars => UsedWell'
<1> SUFFICES ASSUME Typed, UsedWell, [Next]_vars, ~misused' PROVE UsedWell'
  BY DEF UsedWell
<1> USE NoneIsNoThread DEF UsedWell, Typed
<1>1. ASSUME NEW r \in Registrars, NEW t \in Threads, Move(r, t) PROVE UsedWell'
  BY <1>1 DEF Move
<1>2. ASSUME NEW r \in Registrars, NEW t \in Threads, Register(r, t) PROVE UsedWell'
  <2>1. r \in unused /\ ~misused /\ t \notin instrumented
    BY <1>2 DEF Register
  <2>2. /\ holder[r] = t
        /\ unused' = unused \ {r}
        /\ instrumented' = instrumented \cup {t}
        /\ UNCHANGED <<thread, holder, aborted>>
    BY <1>2, <2>1 DEF Register
  <2>3. \A s \in Registrars \ unused : holder[s] # t
    BY <2>1
  <2> QED
    BY <2>1, <2>2, <2>3
<1>3. ASSUME NEW r \in Registrars, NEW t \in Threads, DropRegistrar(r, t) PROVE UsedWell'
  <2>1. r \notin unused /\ ~misused /\ t \in instrumented /\ holder[r] = t
    BY <1>3 DEF DropRegistrar
  <2>2. /\ instrumented' = instrumented \ {t}
        /\ holder' = [holder EXCEPT ![r] = None]
        /\ UNCHANGED <<thread, aborted, unused>>
    BY <1>3, <2>1 DEF DropRegistrar, UnregisterThread
  <2>3. \A s \in Registrars \ unused : s # r => holder[s] # t
    BY <2>1
  <2> QED
    BY <2>1, <2>2, <2>3
<1>4. ASSUME NEW t \in Threads, ThreadEnds(t) PROVE UsedWell'
  <2>1. \A s \in Registrars : holder[s] # t
    BY <1>4 DEF ThreadEnds, HeldBy
  <2> QED
    BY <1>4, <2>1 DEF ThreadEnds
<1>5. CASE RegisterSampler \/ UnregisterSampler
  BY <1>5 DEF RegisterSampler, UnregisterSampler
<1>6. CASE UNCHANGED vars
  BY <1>6 DEF vars
<1> QED
  BY <1>1, <1>2, <1>3, <1>4, <1>5, <1>6 DEF Next

\* For any number of threads and registrars: if each registrar is registered once and
\* dropped by the same thread, one at a time, neither register nor drop panics.
THEOREM WellUsedNeverPanicsHolds == Spec => []WellUsedNeverPanics
<1>1. Init => IInv /\ UsedWell
  BY DEF Init, IInv, Typed, InstrumentedIsSampled, ToBeSampled, About, UsedWell
<1>2. IInv /\ UsedWell /\ [Next]_vars => IInv' /\ UsedWell'
  BY InstrumentedStep, UsedWellStep DEF IInv
<1>3. UsedWell => WellUsedNeverPanics
  BY DEF UsedWell, WellUsedNeverPanics
<1> QED
  BY <1>1, <1>2, <1>3, PTL DEF Spec

-----------------------------------------------------------------------------

Registers(i) == sampler_channel[i].type = "RegisterSampler"

\* Whatever puts t in the list is followed by a message that takes it off.
TurnedOff(t) ==
  /\ \A i \in About(t) : Registers(i) => \E k \in About(t) : k > i /\ ~Registers(k)
  /\ samplers[t] > 0 => \E k \in About(t) : ~Registers(k)

\* Between two messages that put t in the list is one that takes it off.
Alternates(t) ==
  /\ samplers[t] <= 1
  /\ \A i, j \in About(t) :
       i < j /\ Registers(i) /\ Registers(j) =>
         \E k \in About(t) : i < k /\ k < j /\ ~Registers(k)
  /\ \A j \in About(t) :
       Registers(j) /\ samplers[t] > 0 => \E k \in About(t) : k < j /\ ~Registers(k)

\* A thread that is not instrumented is not sampled after all that is on its way, and
\* one that is holds the registrar whose slot names it.
Tracked ==
  /\ thread_info \in [Registrars -> Threads \cup {None}]
  /\ ~misused =>
       \A t \in Threads :
         /\ t \in instrumented =>
              /\ thread[t] = "running"
              /\ \E r \in Registrars \ unused : holder[r] = t /\ thread_info[r] = t
         /\ t \notin instrumented => TurnedOff(t)
         /\ Alternates(t)

\* What a send adds to the messages about each thread.
LEMMA SendAppends ==
  ASSUME Typed, NEW type \in {"RegisterSampler", "UnregisterSampler"}, NEW t \in Threads,
         Send(type, t)
  PROVE  \E last \in Nat :
         /\ About(t)' = About(t) \cup {last}
         /\ \A u \in Threads \ {t} : About(u)' = About(u)
         /\ \A u \in Threads : \A i \in About(u) :
              i \in Nat /\ i < last /\ (Registers(i)' <=> Registers(i))
         /\ Registers(last)' <=> type = "RegisterSampler"
<1> DEFINE message == [type |-> type, tid |-> t]
<1>1. PICK last \in Nat : last = Len(sampler_channel) + 1
  BY DEF Typed
<1>2. /\ DOMAIN sampler_channel' = 1 .. last
      /\ DOMAIN sampler_channel = 1 .. last - 1
      /\ sampler_channel'[last] = message
      /\ \A i \in 1 .. last - 1 : sampler_channel'[i] = sampler_channel[i]
  <2>1. message \in Message
    BY DEF Message
  <2> QED
    BY <1>1, <2>1 DEF Typed, Send
<1>3. /\ About(t)' = About(t) \cup {last}
      /\ \A u \in Threads \ {t} : About(u)' = About(u)
  <2>1. \A u \in Threads : About(u)' = {i \in 1 .. last : sampler_channel'[i].tid = u}
    BY <1>2 DEF About
  <2>2. \A u \in Threads : About(u) = {i \in 1 .. last - 1 : sampler_channel[i].tid = u}
    BY <1>2 DEF About
  <2>3. \A i : i \in 1 .. last <=> i \in 1 .. last - 1 \/ i = last
    BY <1>1
  <2>4. sampler_channel'[last].tid = t
    BY <1>2
  <2>5. ASSUME NEW u \in Threads \ {t} PROVE About(u)' = About(u)
    <3>1. \A i : i \in About(u)' <=> i \in About(u)
      BY <1>2, <2>1, <2>2, <2>3, <2>4
    <3>2. About(u)' \subseteq About(u) /\ About(u) \subseteq About(u)'
      BY <3>1
    <3> QED
      BY <3>2
  <2>6. About(t)' = About(t) \cup {last}
    BY <1>2, <2>1, <2>2, <2>3, <2>4
  <2> QED
    BY <2>5, <2>6
<1>4. \A u \in Threads : \A i \in About(u) :
        i \in Nat /\ i < last /\ (Registers(i)' <=> Registers(i))
  BY <1>2 DEF About, Registers
<1>5. Registers(last)' <=> type = "RegisterSampler"
  <2>1. sampler_channel'[last].type = type
    BY <1>2
  <2> QED
    BY <2>1 DEF Registers
<1> QED
  BY <1>3, <1>4, <1>5

\* What is left of the messages about each thread when the first one is handled.
LEMMA HandlingShifts ==
  ASSUME Typed, RegisterSampler \/ UnregisterSampler
  PROVE  \A u \in Threads :
           /\ \A i : i \in About(u)' <=> i \in Nat \ {0} /\ i + 1 \in About(u)
           /\ \A i \in About(u) : i \in Nat \ {0} /\ (i # 1 => i - 1 \in About(u)')
           /\ \A i \in About(u)' : Registers(i)' <=> Registers(i + 1)
           /\ 1 \in About(u) => samplers'[u] = (IF Registers(1) THEN samplers[u] + 1 ELSE 0)
           /\ 1 \notin About(u) => samplers'[u] = samplers[u]
<1>1. /\ sampler_channel # <<>>
      /\ sampler_channel' = Tail(sampler_channel)
  BY DEF RegisterSampler, UnregisterSampler
<1>2. /\ Len(sampler_channel) \in Nat \ {0}
      /\ DOMAIN sampler_channel = 1 .. Len(sampler_channel)
      /\ DOMAIN sampler_channel' = 1 .. Len(sampler_channel) - 1
      /\ \A i \in 1 .. Len(sampler_channel) - 1 : sampler_channel'[i] = sampler_channel[i + 1]
      /\ Head(sampler_channel) = sampler_channel[1]
  BY <1>1 DEF Typed
<1>3. sampler_channel[1].tid \in Threads
  <2>1. sampler_channel[1] \in Message
    BY <1>2 DEF Typed
  <2> QED
    BY <2>1 DEF Message
<1> SUFFICES ASSUME NEW u \in Threads
             PROVE  /\ \A i : i \in About(u)' <=> i \in Nat \ {0} /\ i + 1 \in About(u)
                    /\ \A i \in About(u) : i \in Nat \ {0} /\ (i # 1 => i - 1 \in About(u)')
                    /\ \A i \in About(u)' : Registers(i)' <=> Registers(i + 1)
                    /\ 1 \in About(u) =>
                         samplers'[u] = (IF Registers(1) THEN samplers[u] + 1 ELSE 0)
                    /\ 1 \notin About(u) => samplers'[u] = samplers[u]
  OBVIOUS
<1>4. \A i : i \in About(u)' <=> i \in Nat \ {0} /\ i + 1 \in About(u)
  BY <1>2 DEF About
<1>5. \A i \in About(u) : i \in Nat \ {0} /\ (i # 1 => i - 1 \in About(u)')
  BY <1>2 DEF About
<1>6. \A i \in About(u)' : Registers(i)' <=> Registers(i + 1)
  BY <1>2 DEF About, Registers
<1>7. 1 \in About(u) <=> sampler_channel[1].tid = u
  BY <1>2 DEF About
<1>8. 1 \in About(u) => samplers'[u] = (IF Registers(1) THEN samplers[u] + 1 ELSE 0)
  BY <1>2, <1>3, <1>7 DEF RegisterSampler, UnregisterSampler, Typed, Registers
<1>9. 1 \notin About(u) => samplers'[u] = samplers[u]
  BY <1>2, <1>3, <1>7 DEF RegisterSampler, UnregisterSampler, Typed
<1> QED
  BY <1>4, <1>5, <1>6, <1>8, <1>9

\* A send adds the last message about its thread, and leaves the other threads alone.
LEMMA SendAlternates ==
  ASSUME Typed, NEW type \in {"RegisterSampler", "UnregisterSampler"}, NEW t \in Threads,
         Send(type, t), UNCHANGED samplers, Alternates(t),
         type = "RegisterSampler" => TurnedOff(t)
  PROVE  /\ Alternates(t)'
         /\ type = "UnregisterSampler" => TurnedOff(t)'
<1>1. PICK last \in Nat :
        /\ About(t)' = About(t) \cup {last}
        /\ \A i \in About(t) : i \in Nat /\ i < last /\ (Registers(i)' <=> Registers(i))
        /\ Registers(last)' <=> type = "RegisterSampler"
  BY SendAppends
<1>2. samplers[t] \in Nat /\ samplers'[t] = samplers[t]
  BY DEF Typed
<1>3. type = "UnregisterSampler" => TurnedOff(t)'
  <2> SUFFICES ASSUME type = "UnregisterSampler" PROVE TurnedOff(t)'
    OBVIOUS
  <2>1. last \in About(t)' /\ ~Registers(last)'
    BY <1>1
  <2>2. ASSUME NEW i \in About(t)', Registers(i)' PROVE last > i
    BY <1>1, <2>1, <2>2
  <2> QED
    BY <2>1, <2>2 DEF TurnedOff
<1>4. samplers'[t] <= 1
  BY <1>2 DEF Alternates
<1>5. ASSUME NEW i \in About(t)', NEW j \in About(t)', i < j, Registers(i)', Registers(j)'
      PROVE  \E k \in About(t)' : i < k /\ k < j /\ ~Registers(k)'
  <2>1. i \in About(t) /\ Registers(i)
    BY <1>1, <1>5
  <2>2. CASE j = last
    <3>1. PICK k \in About(t) : k > i /\ ~Registers(k)
      BY <1>1, <1>5, <2>1, <2>2 DEF TurnedOff
    <3> QED
      BY <1>1, <2>1, <2>2, <3>1
  <2>3. CASE j \in About(t)
    <3>1. PICK k \in About(t) : i < k /\ k < j /\ ~Registers(k)
      BY <1>1, <1>5, <2>1, <2>3 DEF Alternates
    <3> QED
      BY <1>1, <3>1
  <2> QED
    BY <1>1, <2>2, <2>3
<1>6. ASSUME NEW j \in About(t)', Registers(j)', samplers'[t] > 0
      PROVE  \E k \in About(t)' : k < j /\ ~Registers(k)'
  <2>1. CASE j = last
    <3>1. PICK k \in About(t) : ~Registers(k)
      BY <1>1, <1>2, <1>6, <2>1 DEF TurnedOff
    <3> QED
      BY <1>1, <2>1, <3>1
  <2>2. CASE j \in About(t)
    <3>1. PICK k \in About(t) : k < j /\ ~Registers(k)
      BY <1>1, <1>2, <1>6, <2>2 DEF Alternates
    <3> QED
      BY <1>1, <3>1
  <2> QED
    BY <1>1, <2>1, <2>2
<1> QED
  BY <1>3, <1>4, <1>5, <1>6 DEF Alternates

\* What is sent about one thread is nothing to another.
LEMMA SendElsewhere ==
  ASSUME Typed, NEW type \in {"RegisterSampler", "UnregisterSampler"}, NEW t \in Threads,
         Send(type, t), UNCHANGED samplers, NEW u \in Threads \ {t}
  PROVE  /\ TurnedOff(u) => TurnedOff(u)'
         /\ Alternates(u) => Alternates(u)'
<1>1. /\ About(u)' = About(u)
      /\ \A i \in About(u) : Registers(i)' <=> Registers(i)
  BY SendAppends
<1> QED
  BY <1>1 DEF TurnedOff, Alternates

\* The sampler thread's two messages keep the order, and never count to two.
LEMMA HandlingAlternates ==
  ASSUME Typed, RegisterSampler \/ UnregisterSampler, NEW u \in Threads, Alternates(u)
  PROVE  Alternates(u)'
<1>1. /\ \A i : i \in About(u)' <=> i \in Nat \ {0} /\ i + 1 \in About(u)
      /\ \A i \in About(u) : i \in Nat \ {0} /\ (i # 1 => i - 1 \in About(u)')
      /\ \A i \in About(u)' : Registers(i)' <=> Registers(i + 1)
      /\ 1 \in About(u) => samplers'[u] = (IF Registers(1) THEN samplers[u] + 1 ELSE 0)
      /\ 1 \notin About(u) => samplers'[u] = samplers[u]
  BY HandlingShifts
<1>2. samplers[u] \in Nat
  BY DEF Typed
<1>3. 1 \in About(u) /\ Registers(1) => samplers[u] = 0
  BY <1>1, <1>2 DEF Alternates
<1>4. samplers'[u] <= 1
  BY <1>1, <1>2, <1>3 DEF Alternates
<1>5. ASSUME NEW k \in About(u), k > 1, ~Registers(k)
      PROVE  k - 1 \in About(u)' /\ ~Registers(k - 1)'
  BY <1>1, <1>5
<1>6. ASSUME NEW i \in About(u)', NEW j \in About(u)', i < j, Registers(i)', Registers(j)'
      PROVE  \E k \in About(u)' : i < k /\ k < j /\ ~Registers(k)'
  <2>1. i \in Nat \ {0} /\ j \in Nat \ {0}
    BY <1>1
  <2>2. PICK k \in About(u) : i + 1 < k /\ k < j + 1 /\ ~Registers(k)
    BY <1>1, <1>6, <2>1 DEF Alternates
  <2>3. k - 1 \in About(u)' /\ ~Registers(k - 1)' /\ i < k - 1 /\ k - 1 < j
    BY <1>1, <1>5, <2>1, <2>2
  <2> QED
    BY <2>3
<1>7. ASSUME NEW j \in About(u)', Registers(j)', samplers'[u] > 0
      PROVE  \E k \in About(u)' : k < j /\ ~Registers(k)'
  <2>1. j \in Nat \ {0} /\ j + 1 \in About(u) /\ Registers(j + 1)
    BY <1>1, <1>7
  <2>2. PICK k \in About(u) : 1 < k /\ k < j + 1 /\ ~Registers(k)
    <3>1. CASE 1 \in About(u)
      <4>1. Registers(1)
        BY <1>1, <1>7, <3>1
      <4> QED
        BY <2>1, <3>1, <4>1 DEF Alternates
    <3>2. CASE 1 \notin About(u)
      <4>1. PICK k \in About(u) : k < j + 1 /\ ~Registers(k)
        BY <1>1, <1>7, <2>1, <3>2 DEF Alternates
      <4> QED
        BY <1>1, <3>2, <4>1
    <3> QED
      BY <3>1, <3>2
  <2>3. k - 1 \in About(u)' /\ ~Registers(k - 1)' /\ k - 1 < j
    BY <1>1, <1>5, <2>1, <2>2
  <2> QED
    BY <2>3
<1> QED
  BY <1>4, <1>6, <1>7 DEF Alternates

\* Each step keeps that order, and the tie of a thread to its registrar.
LEMMA TrackedStep == Typed /\ UsedWell /\ Tracked /\ [Next]_vars => Tracked'
<1> SUFFICES ASSUME Typed, UsedWell, Tracked, [Next]_vars PROVE Tracked'
  OBVIOUS
<1>0. thread_info' \in [Registrars -> Threads \cup {None}]
  <2>1. ASSUME NEW r \in Registrars, NEW t \in Threads, Register(r, t)
        PROVE  thread_info' \in [Registrars -> Threads \cup {None}]
    BY <2>1 DEF Register, Tracked
  <2>2. (\E r \in Registrars, t \in Threads : Register(r, t)) \/ UNCHANGED thread_info
    BY DEF Next, vars, Move, DropRegistrar, ThreadEnds, RegisterSampler, UnregisterSampler
  <2> QED
    BY <2>1, <2>2 DEF Tracked
<1> DEFINE Kept(t) == /\ t \in instrumented =>
                           /\ thread[t] = "running"
                           /\ \E r \in Registrars \ unused : holder[r] = t /\ thread_info[r] = t
                      /\ t \notin instrumented => TurnedOff(t)
                      /\ Alternates(t)
<1> SUFFICES ASSUME ~misused', NEW u \in Threads PROVE Kept(u)'
  BY <1>0 DEF Tracked
<1>1. ASSUME UNCHANGED <<sampler_channel, samplers>>
      PROVE  (TurnedOff(u)' <=> TurnedOff(u)) /\ (Alternates(u)' <=> Alternates(u))
  BY <1>1 DEF TurnedOff, Alternates, About, Registers
<1>2. ASSUME NEW r \in Registrars, NEW t \in Threads, Move(r, t) PROVE Kept(u)'
  <2>1. ~misused /\ r \in unused /\ Kept(u)
    BY <1>2 DEF Move, Tracked
  <2>2. /\ holder' = [holder EXCEPT ![r] = t]
        /\ UNCHANGED <<thread, unused, thread_info, instrumented, sampler_channel, samplers>>
    BY <1>2 DEF Move
  <2>3. \A s \in Registrars \ unused : holder'[s] = holder[s]
    BY <2>1, <2>2 DEF Typed
  <2> QED
    BY <1>1, <2>1, <2>2, <2>3
<1>3. ASSUME NEW r \in Registrars, NEW t \in Threads, Register(r, t) PROVE Kept(u)'
  <2>1. ~misused /\ r \in unused /\ t \notin instrumented
    BY <1>3 DEF Register
  <2>2. /\ Send("RegisterSampler", t)
        /\ holder[r] = t
        /\ thread[t] = "running"
        /\ unused' = unused \ {r}
        /\ instrumented' = instrumented \cup {t}
        /\ thread_info' = [thread_info EXCEPT ![r] = t]
        /\ UNCHANGED <<thread, holder, samplers>>
    BY <1>3, <2>1 DEF Register
  <2>3. Kept(u)
    BY <2>1 DEF Tracked
  <2>4. CASE u = t
    <3>1. TurnedOff(t) /\ Alternates(t)
      BY <2>1, <2>3, <2>4
    <3>2. Alternates(t)'
      BY <2>2, <3>1, SendAlternates
    <3>3. r \in Registrars \ unused' /\ thread_info'[r] = t
      BY <2>2 DEF Tracked
    <3> QED
      BY <2>2, <2>4, <3>2, <3>3
  <2>5. CASE u # t
    <3>1. /\ TurnedOff(u) => TurnedOff(u)'
          /\ Alternates(u) => Alternates(u)'
      BY <2>2, <2>5, SendElsewhere
    <3>2. \A s \in Registrars \ unused : thread_info'[s] = thread_info[s] /\ s \notin unused'
      BY <2>1, <2>2 DEF Tracked
    <3> QED
      BY <2>2, <2>3, <2>5, <3>1, <3>2
  <2> QED
    BY <2>4, <2>5
<1>4. ASSUME NEW r \in Registrars, NEW t \in Threads, DropRegistrar(r, t) PROVE Kept(u)'
  <2>1. ~misused /\ r \notin unused /\ holder[r] = t
    BY <1>4 DEF DropRegistrar
  <2>2. Kept(u)
    BY <2>1 DEF Tracked
  <2>3. CASE t \in instrumented
    <3>1. /\ Send("UnregisterSampler", t)
          /\ instrumented' = instrumented \ {t}
          /\ holder' = [holder EXCEPT ![r] = None]
          /\ UNCHANGED <<thread, unused, thread_info, samplers>>
      BY <1>4, <2>3 DEF DropRegistrar, UnregisterThread
    <3>2. CASE u = t
      <4>1. Alternates(t)
        BY <2>2, <3>2
      <4>2. TurnedOff(t)' /\ Alternates(t)'
        BY <3>1, <4>1, SendAlternates
      <4> QED
        BY <3>1, <3>2, <4>2
    <3>3. CASE u # t
      <4>1. /\ TurnedOff(u) => TurnedOff(u)'
            /\ Alternates(u) => Alternates(u)'
        BY <3>1, <3>3, SendElsewhere
      <4>2. \A s \in Registrars : holder[s] = u => holder'[s] = u
        BY <2>1, <3>1, <3>3 DEF Typed
      <4> QED
        BY <2>2, <3>1, <3>3, <4>1, <4>2
    <3> QED
      BY <3>2, <3>3
  <2>4. t \in instrumented
    BY <2>1, NoneIsNoThread DEF UsedWell
  <2> QED
    BY <2>3, <2>4
<1>5. ASSUME NEW t \in Threads, ThreadEnds(t) PROVE Kept(u)'
  <2>1. Kept(t) /\ Kept(u)
    BY <1>5 DEF ThreadEnds, Tracked
  <2>2. t \notin instrumented
    BY <1>5, <2>1 DEF ThreadEnds, HeldBy
  <2>3. u \in instrumented => thread'[u] = thread[u]
    BY <1>5, <2>2 DEF ThreadEnds, Typed
  <2> QED
    BY <1>1, <1>5, <2>1, <2>2, <2>3 DEF ThreadEnds
<1>6. CASE RegisterSampler \/ UnregisterSampler
  <2>1. UNCHANGED <<thread, holder, unused, thread_info, instrumented, misused>>
    BY <1>6 DEF RegisterSampler, UnregisterSampler
  <2>2. Kept(u)
    BY <2>1 DEF Tracked
  <2>3. TurnedOff(u) => TurnedOff(u)'
    BY <1>6, HandlingShifts DEF TurnedOff, Typed
  <2>4. Alternates(u) => Alternates(u)'
    BY <1>6, HandlingAlternates
  <2> QED
    BY <2>1, <2>2, <2>3, <2>4
<1>7. CASE UNCHANGED vars
  BY <1>1, <1>7 DEF vars, Tracked
<1> QED
  BY <1>2, <1>3, <1>4, <1>5, <1>6, <1>7 DEF Next

\* For any number of threads and registrars that are used as documented: what is
\* sampled runs, has a name, and is in the sampler thread's list once.
THEOREM WellUsedIsTrackedHolds == Spec => []WellUsedIsTracked
<1>1. Init => IInv /\ UsedWell /\ Tracked
  <2> SUFFICES ASSUME Init PROVE IInv /\ UsedWell /\ Tracked
    OBVIOUS
  <2>1. IInv /\ UsedWell
    BY DEF Init, IInv, Typed, InstrumentedIsSampled, ToBeSampled, About, UsedWell
  <2>2. \A t \in Threads : About(t) = {} /\ samplers[t] = 0 /\ t \notin instrumented
    BY DEF Init, About
  <2>3. \A t \in Threads : TurnedOff(t) /\ Alternates(t)
    BY <2>2 DEF TurnedOff, Alternates
  <2> QED
    BY <2>1, <2>2, <2>3 DEF Tracked, Init
<1>2. IInv /\ UsedWell /\ Tracked /\ [Next]_vars => IInv' /\ UsedWell' /\ Tracked'
  BY InstrumentedStep, UsedWellStep, TrackedStep DEF IInv
<1>3. IInv /\ UsedWell /\ Tracked => WellUsedIsTracked
  <2> SUFFICES ASSUME Typed, UsedWell, Tracked, ~misused PROVE WellUsedIsTracked
    BY DEF IInv, WellUsedIsTracked
  <2>1. ASSUME NEW r \in Registrars \ unused, holder[r] # None PROVE holder[r] \in instrumented
    BY <2>1 DEF UsedWell
  <2>2. ASSUME NEW t \in Threads PROVE samplers[t] <= 1
    BY DEF Tracked, Alternates
  <2>3. ASSUME NEW t \in Threads, ToBeSampled(t)
        PROVE  thread[t] = "running" /\ \E r \in Registrars : thread_info[r] = t
    <3>1. ASSUME TurnedOff(t) PROVE FALSE
      <4>1. CASE About(t) = {}
        BY <2>3, <3>1, <4>1 DEF ToBeSampled, TurnedOff
      <4>2. CASE About(t) # {}
        <5>1. PICK i \in About(t) : (\A j \in About(t) : j <= i) /\ Registers(i)
          BY <2>3, <4>2 DEF ToBeSampled, Registers
        <5>2. PICK k \in About(t) : k > i
          BY <3>1, <5>1 DEF TurnedOff
        <5>3. i \in Nat /\ k \in Nat
          BY DEF About, Typed
        <5> QED
          BY <5>1, <5>2, <5>3
      <4> QED
        BY <4>1, <4>2
    <3> QED
      BY <3>1 DEF Tracked
  <2> QED
    BY <2>1, <2>2, <2>3 DEF WellUsedIsTracked
<1> QED
  BY <1>1, <1>2, <1>3, PTL DEF Spec

-----------------------------------------------------------------------------

\* The registrations of a thread that the sampler thread has yet to handle.
Pending(t) == {i \in About(t) : Registers(i)}

\* Every registrar has been registered once at the most, so a thread has, in the
\* list and on the way to it, no more samplers than there are used registrars.
Counted ==
  \A t \in Threads :
    samplers[t] + Cardinality(Pending(t)) <= Cardinality(Registrars \ unused)

\* The channel is finite, and so is what is pending in it.
LEMMA PendingFinite ==
  ASSUME Typed, NEW t \in Threads
  PROVE  IsFiniteSet(Pending(t)) /\ Cardinality(Pending(t)) \in Nat
<1>1. Len(sampler_channel) \in Nat /\ Pending(t) \subseteq 1 .. Len(sampler_channel)
  BY DEF Typed, Pending, About
<1>2. IsFiniteSet(1 .. Len(sampler_channel))
  BY <1>1, FS_Interval
<1> QED
  BY <1>1, <1>2, FS_Subset, FS_CardinalityType

\* A registration that is sent is one more for its thread; a registrar that is used
\* up by it, one more that is used.
LEMMA RegisterCounts ==
  ASSUME Typed, Counted, NEW r \in unused, unused \subseteq Registrars, NEW t \in Threads,
         Send("RegisterSampler", t), UNCHANGED samplers, unused' = unused \ {r}
  PROVE  Counted'
<1>1. PICK last \in Nat :
        /\ About(t)' = About(t) \cup {last}
        /\ \A u \in Threads \ {t} : About(u)' = About(u)
        /\ \A u \in Threads : \A i \in About(u) :
             i \in Nat /\ i < last /\ (Registers(i)' <=> Registers(i))
        /\ Registers(last)' <=> "RegisterSampler" = "RegisterSampler"
  BY SendAppends
<1>2. IsFiniteSet(Registrars \ unused) /\ IsFiniteSet(Registrars \ unused')
  BY FiniteRegistrars, FS_Subset
<1>3. Registrars \ unused' = (Registrars \ unused) \cup {r}
  OBVIOUS
<1>4. Cardinality(Registrars \ unused') = Cardinality(Registrars \ unused) + 1
  BY <1>2, <1>3, FS_AddElement
<1>5. Cardinality(Registrars \ unused) \in Nat
  BY <1>2, FS_CardinalityType
<1>6. ASSUME NEW u \in Threads
      PROVE  samplers'[u] + Cardinality(Pending(u)') <= Cardinality(Registrars \ unused')
  <2>1. IsFiniteSet(Pending(u)) /\ Cardinality(Pending(u)) \in Nat /\ samplers[u] \in Nat
    BY PendingFinite DEF Typed
  <2>2. samplers[u] + Cardinality(Pending(u)) <= Cardinality(Registrars \ unused)
    BY DEF Counted
  <2>3. CASE u = t
    <3>1. Pending(t)' = Pending(t) \cup {last}
      BY <1>1 DEF Pending
    <3>2. last \notin Pending(t)
      BY <1>1 DEF Pending
    <3>3. Cardinality(Pending(t)') = Cardinality(Pending(t)) + 1
      BY <2>1, <2>3, <3>1, <3>2, FS_AddElement
    <3> QED
      BY <1>4, <1>5, <2>1, <2>2, <2>3, <3>3
  <2>4. CASE u # t
    <3>1. Pending(u)' = Pending(u)
      BY <1>1, <2>4 DEF Pending
    <3> QED
      BY <1>4, <1>5, <2>1, <2>2, <3>1
  <2> QED
    BY <2>3, <2>4
<1> QED
  BY <1>6 DEF Counted

\* An unregistration that is sent adds to nothing.
LEMMA UnregisterCounts ==
  ASSUME Typed, Counted, NEW t \in Threads,
         Send("UnregisterSampler", t), UNCHANGED <<samplers, unused>>
  PROVE  Counted'
<1>1. PICK last \in Nat :
        /\ About(t)' = About(t) \cup {last}
        /\ \A u \in Threads \ {t} : About(u)' = About(u)
        /\ \A u \in Threads : \A i \in About(u) :
             i \in Nat /\ i < last /\ (Registers(i)' <=> Registers(i))
        /\ Registers(last)' <=> "UnregisterSampler" = "RegisterSampler"
  BY SendAppends
<1>2. ASSUME NEW u \in Threads PROVE Pending(u)' = Pending(u)
  <2>1. CASE u = t
    BY <1>1, <2>1 DEF Pending
  <2>2. CASE u # t
    BY <1>1, <2>2 DEF Pending
  <2> QED
    BY <2>1, <2>2
<1> QED
  BY <1>2 DEF Counted

\* A registration goes from the channel to the list; an unregistration only takes off.
LEMMA HandlingCounts ==
  ASSUME Typed, Counted, RegisterSampler \/ UnregisterSampler
  PROVE  Counted'
<1>1. unused' = unused /\ sampler_channel' \in Seq(Message)
  BY HandlingKeeps DEF RegisterSampler, UnregisterSampler
<1>2. IsFiniteSet(Registrars \ unused)
  BY FiniteRegistrars, FS_Subset
<1>3. Cardinality(Registrars \ unused) \in Nat
  BY <1>2, FS_CardinalityType
<1>4. ASSUME NEW u \in Threads
      PROVE  samplers'[u] + Cardinality(Pending(u)') <= Cardinality(Registrars \ unused)
  <2>1. /\ \A i : i \in About(u)' <=> i \in Nat \ {0} /\ i + 1 \in About(u)
        /\ \A i \in About(u) : i \in Nat \ {0} /\ (i # 1 => i - 1 \in About(u)')
        /\ \A i \in About(u)' : Registers(i)' <=> Registers(i + 1)
        /\ 1 \in About(u) => samplers'[u] = (IF Registers(1) THEN samplers[u] + 1 ELSE 0)
        /\ 1 \notin About(u) => samplers'[u] = samplers[u]
    BY HandlingShifts
  <2>2. /\ IsFiniteSet(Pending(u)) /\ Cardinality(Pending(u)) \in Nat
        /\ samplers[u] \in Nat
        /\ samplers[u] + Cardinality(Pending(u)) <= Cardinality(Registrars \ unused)
    BY PendingFinite DEF Typed, Counted
  <2>3. /\ IsFiniteSet(Pending(u) \ {1})
        /\ Cardinality(Pending(u) \ {1}) =
             IF 1 \in Pending(u) THEN Cardinality(Pending(u)) - 1 ELSE Cardinality(Pending(u))
    BY <2>2, FS_RemoveElement
  <2>4. IsFiniteSet(Pending(u)') /\ Cardinality(Pending(u)') <= Cardinality(Pending(u) \ {1})
    <3> DEFINE later == [i \in Pending(u)' |-> i + 1]
    <3>1. \A i \in Pending(u)' : i \in Nat \ {0} /\ i + 1 \in Pending(u) \ {1}
      BY <2>1 DEF Pending
    <3>2. later \in Injection(Pending(u)', Pending(u) \ {1})
      BY <3>1 DEF Injection, IsInjective
    <3> HIDE DEF later
    <3> QED
      BY <2>3, <3>2, FS_Injection
  <2>5. Cardinality(Pending(u)') \in Nat
    BY <2>4, FS_CardinalityType
  <2>6. CASE 1 \in Pending(u)
    <3>1. samplers'[u] = samplers[u] + 1
      BY <2>1, <2>6 DEF Pending
    <3>2. Cardinality(Pending(u)') <= Cardinality(Pending(u)) - 1
      BY <2>3, <2>4, <2>6
    <3> QED
      BY <1>3, <2>2, <2>5, <3>1, <3>2
  <2>7. CASE 1 \notin Pending(u)
    <3>1. samplers'[u] = samplers[u] \/ samplers'[u] = 0
      BY <2>1, <2>7 DEF Pending
    <3>2. Cardinality(Pending(u)') <= Cardinality(Pending(u))
      BY <2>3, <2>4, <2>7
    <3> QED
      BY <1>3, <2>2, <2>5, <3>1, <3>2
  <2> QED
    BY <2>6, <2>7
<1> QED
  BY <1>1, <1>4 DEF Counted

\* Each step counts right, and keeps the types that Typed leaves out.
LEMMA CountedStep ==
  ASSUME Typed, Counted, unused \subseteq Registrars, aborted \in BOOLEAN, misused \in BOOLEAN,
         thread_info \in [Registrars -> Threads \cup {None}], [Next]_vars
  PROVE  /\ Counted' /\ unused' \subseteq Registrars
         /\ aborted' \in BOOLEAN /\ misused' \in BOOLEAN
         /\ thread_info' \in [Registrars -> Threads \cup {None}]
<1> DEFINE Kept == /\ Counted' /\ unused' \subseteq Registrars
                   /\ aborted' \in BOOLEAN /\ misused' \in BOOLEAN
                   /\ thread_info' \in [Registrars -> Threads \cup {None}]
<1>1. ASSUME UNCHANGED <<sampler_channel, samplers, unused>> PROVE Counted'
  BY <1>1 DEF Counted, Pending, About, Registers
<1>2. ASSUME NEW t \in Threads, NEW rs \in SUBSET Registrars, UnwindThrough(t, rs),
             UNCHANGED <<samplers, unused>>
      PROVE  Counted' /\ aborted' \in BOOLEAN
  <2>1. CASE t \in instrumented
    BY <1>2, <2>1, UnregisterCounts DEF UnwindThrough, UnregisterThread
  <2>2. CASE t \notin instrumented
    BY <1>1, <1>2, <2>2 DEF UnwindThrough
  <2> QED
    BY <2>1, <2>2
<1>3. ASSUME NEW r \in Registrars, NEW t \in Threads, Move(r, t) PROVE Kept
  BY <1>1, <1>3 DEF Move
<1>4. ASSUME NEW r \in Registrars, NEW t \in Threads, Register(r, t) PROVE Kept
  <2>1. thread_info' \in [Registrars -> Threads \cup {None}] /\ misused' \in BOOLEAN
    BY <1>4 DEF Register
  <2>2. CASE r \in unused
    <3>1. Counted'
      BY <1>4, <2>2, RegisterCounts DEF Register
    <3> QED
      BY <1>4, <2>1, <2>2, <3>1 DEF Register
  <2>3. CASE r \notin unused
    <3>1. UnwindThrough(t, HeldBy(t)) /\ HeldBy(t) \subseteq Registrars
          /\ UNCHANGED <<samplers, unused>>
      BY <1>4, <2>3 DEF Register, HeldBy
    <3> QED
      BY <1>2, <2>1, <3>1
  <2> QED
    BY <2>2, <2>3
<1>5. ASSUME NEW r \in Registrars, NEW t \in Threads, DropRegistrar(r, t) PROVE Kept
  <2>1. /\ UNCHANGED <<unused, thread_info, samplers>>
        /\ misused' \in BOOLEAN
    BY <1>5 DEF DropRegistrar
  <2>2. CASE t \in instrumented
    <3>1. Send("UnregisterSampler", t) /\ aborted' = aborted
      BY <1>5, <2>2 DEF DropRegistrar, UnregisterThread
    <3>2. Counted'
      BY <2>1, <3>1, UnregisterCounts
    <3> QED
      BY <2>1, <3>1, <3>2
  <2>3. CASE t \notin instrumented
    <3>1. UnwindThrough(t, HeldBy(t) \ {r}) /\ HeldBy(t) \ {r} \subseteq Registrars
      BY <1>5, <2>3 DEF DropRegistrar, HeldBy
    <3> QED
      BY <1>2, <2>1, <3>1
  <2> QED
    BY <2>2, <2>3
<1>6. ASSUME NEW t \in Threads, ThreadEnds(t) PROVE Kept
  BY <1>1, <1>6 DEF ThreadEnds
<1>7. CASE RegisterSampler \/ UnregisterSampler
  <2>1. UNCHANGED <<unused, thread_info, aborted, misused>>
    BY <1>7 DEF RegisterSampler, UnregisterSampler
  <2> QED
    BY <1>7, <2>1, HandlingCounts
<1>8. CASE UNCHANGED vars
  BY <1>1, <1>8 DEF vars
<1> QED
  BY <1>3, <1>4, <1>5, <1>6, <1>7, <1>8 DEF Next

\* For any number of threads and registrars, used in any way: the types, and that a
\* thread is never in the sampler thread's list more often than there are registrars.
THEOREM RegistrarTypeCorrect == Spec => []TypeOK
<1> DEFINE Inv == /\ IInv /\ Counted /\ unused \subseteq Registrars
                  /\ aborted \in BOOLEAN /\ misused \in BOOLEAN
                  /\ thread_info \in [Registrars -> Threads \cup {None}]
<1>1. Init => Inv
  <2> SUFFICES ASSUME Init PROVE Inv
    OBVIOUS
  <2>1. IInv
    BY DEF Init, IInv, Typed, InstrumentedIsSampled, ToBeSampled, About
  <2>2. \A t \in Threads : Pending(t) = {} /\ samplers[t] = 0
    BY DEF Init, Pending, About
  <2>3. Counted
    <3>1. Registrars \ unused = {}
      BY DEF Init
    <3>2. Cardinality({}) = 0
      BY FS_EmptySet
    <3> QED
      BY <2>2, <3>1, <3>2 DEF Counted
  <2> QED
    BY <2>1, <2>3 DEF Init
<1>2. Inv /\ [Next]_vars => Inv'
  BY InstrumentedStep, CountedStep DEF IInv
<1>3. Inv => TypeOK
  <2> SUFFICES ASSUME Inv PROVE TypeOK
    OBVIOUS
  <2>1. Typed
    BY DEF IInv
  <2>2. /\ IsFiniteSet(Registrars \ unused)
        /\ Cardinality(Registrars \ unused) <= Cardinality(Registrars)
    BY FiniteRegistrars, FS_Subset
  <2>3. Cardinality(Registrars \ unused) \in Nat /\ Cardinality(Registrars) \in Nat
    BY <2>2, FiniteRegistrars, FS_CardinalityType
  <2>4. ASSUME NEW t \in Threads PROVE samplers[t] \in 0 .. Cardinality(Registrars)
    <3>1. samplers[t] \in Nat /\ Cardinality(Pending(t)) \in Nat
      BY <2>1, PendingFinite DEF Typed
    <3>2. samplers[t] + Cardinality(Pending(t)) <= Cardinality(Registrars \ unused)
      BY DEF Counted
    <3> QED
      BY <2>2, <2>3, <3>1, <3>2
  <2>5. samplers \in [Threads -> 0 .. Cardinality(Registrars)]
    BY <2>1, <2>4 DEF Typed
  <2> QED
    BY <2>1, <2>5 DEF Typed, TypeOK
<1> HIDE DEF Inv
<1> QED
  BY <1>1, <1>2, <1>3, PTL DEF Spec
=============================================================================
