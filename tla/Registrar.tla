------------------------------ MODULE Registrar ------------------------------
(***************************************************************************)
(* ThreadRegistrar (src/core.rs) in the hands of any application: a        *)
(* registrar can be moved from thread to thread, registered twice or       *)
(* never, and a thread can hold several.  Module ThreadRegistrar has only  *)
(* the threads that take one, register it once and drop it.                *)
(*                                                                         *)
(* Everything a registrar's drop does goes by the thread it happens on,    *)
(* and not by the thread the registrar was registered on.                  *)
(*                                                                         *)
(* The sampler thread is running (its end is a matter of module Profiler), *)
(* and the steps within register are one step here.                        *)
(***************************************************************************)
EXTENDS Naturals, Sequences, FiniteSets

CONSTANTS
  Threads,      \* the application's threads
  Registrars,   \* what get_thread_registrar returned, all to the same thread
  None

ASSUME NoneIsNoThread == None \notin Threads

ASSUME FiniteRegistrars == IsFiniteSet(Registrars)

VARIABLES
  thread,           \* thread[t]: "running", "ended" or "panicked"
  holder,           \* holder[r]: the thread that owns r, None once it is dropped
  unused,           \* the registrars whose senders are still Some
  thread_info,      \* thread_info[r]: the thread its slot names, or None
  instrumented,     \* the threads whose PER_THREAD_INSTRUMENTATION is Some
  sampler_channel,  \* what is on its way to the sampler thread
  samplers,         \* samplers[t]: how many of the sampler thread's list are for t
  aborted,          \* a panic inside a panic: the process is gone
  misused           \* history: a registrar was not used the way the example shows

vars == <<thread, holder, unused, thread_info, instrumented, sampler_channel,
          samplers, aborted, misused>>

Message == [type : {"RegisterSampler", "UnregisterSampler"}, tid : Threads]

TypeOK ==
  /\ thread \in [Threads -> {"running", "ended", "panicked"}]
  /\ holder \in [Registrars -> Threads \cup {None}]
  /\ unused \subseteq Registrars
  /\ thread_info \in [Registrars -> Threads \cup {None}]
  /\ instrumented \subseteq Threads
  /\ sampler_channel \in Seq(Message)
  /\ samplers \in [Threads -> 0 .. Cardinality(Registrars)]
  /\ aborted \in BOOLEAN
  /\ misused \in BOOLEAN

Init ==
  /\ thread = [t \in Threads |-> "running"]
  /\ \E t \in Threads : holder = [r \in Registrars |-> t]
  /\ unused = Registrars
  /\ thread_info = [r \in Registrars |-> None]
  /\ instrumented = {}
  /\ sampler_channel = <<>>
  /\ samplers = [t \in Threads |-> 0]
  /\ aborted = FALSE
  /\ misused = FALSE

-----------------------------------------------------------------------------

HeldBy(t) == {r \in Registrars : holder[r] = t}

Send(type, t) == sampler_channel' = Append(sampler_channel, [type |-> type, tid |-> t])

\* A faulty variant: the instrumentation stays when the sampler is unregistered.
UnregisterSamplerOnly(t) ==
  /\ Send("UnregisterSampler", t)
  /\ UNCHANGED instrumented

\* unregister_thread on a thread that is instrumented.
UnregisterThread(t) ==
  /\ Send("UnregisterSampler", t)
  /\ instrumented' = instrumented \ {t}

\* A panic of t unwinds through the registrars rs, all of t's.  The first to go
\* unregisters an instrumented thread; any other one panics again.
UnwindThrough(t, rs) ==
  /\ holder' = [r \in Registrars |-> IF holder[r] = t THEN None ELSE holder[r]]
  /\ thread' = [thread EXCEPT ![t] = "panicked"]
  /\ IF t \in instrumented
     THEN /\ UnregisterThread(t)
          /\ aborted' = (Cardinality(rs) > 1)
     ELSE /\ aborted' = (rs # {})
          /\ UNCHANGED <<sampler_channel, instrumented>>

-----------------------------------------------------------------------------
(* Faulty variants of the operations below.                                *)

\* The senders are cloned instead of taken.
RegisterKeepingSenders(r, t) ==
  /\ holder[r] = t
  /\ thread[t] = "running"
  /\ thread_info' = [thread_info EXCEPT ![r] = t]
  /\ Send("RegisterSampler", t)
  /\ instrumented' = instrumented \cup {t}
  /\ misused' = (misused \/ t \in instrumented)
  /\ UNCHANGED <<thread, holder, unused, samplers, aborted>>

\* The thread local is not set.
RegisterUninstrumented(r, t) ==
  /\ holder[r] = t
  /\ thread[t] = "running"
  /\ r \in unused
  /\ thread_info' = [thread_info EXCEPT ![r] = t]
  /\ Send("RegisterSampler", t)
  /\ unused' = unused \ {r}
  /\ misused' = (misused \/ t \in instrumented)
  /\ UNCHANGED <<thread, holder, instrumented, samplers, aborted>>

\* The sampler with the id is the one that is kept.
KeepOnlyUnregistered ==
  /\ sampler_channel # <<>>
  /\ Head(sampler_channel).type = "UnregisterSampler"
  /\ samplers' = [t \in Threads |-> IF t = Head(sampler_channel).tid THEN samplers[t] ELSE 0]
  /\ sampler_channel' = Tail(sampler_channel)
  /\ UNCHANGED <<thread, holder, unused, thread_info, instrumented, aborted, misused>>

-----------------------------------------------------------------------------

\* A registrar is Send.
Move(r, t) ==
  /\ holder[r] \in Threads \ {t}
  /\ thread[holder[r]] = "running"
  /\ thread[t] = "running"
  /\ holder' = [holder EXCEPT ![r] = t]
  /\ misused' = (misused \/ r \notin unused)
  /\ UNCHANGED <<thread, unused, thread_info, instrumented, sampler_channel, samplers,
                 aborted>>

\* The slot is set before the senders are taken: "already used" comes too late for it.
Register(r, t) ==
  /\ holder[r] = t
  /\ thread[t] = "running"
  /\ thread_info' = [thread_info EXCEPT ![r] = t]
  /\ IF r \in unused
     THEN /\ Send("RegisterSampler", t)
          /\ instrumented' = instrumented \cup {t}
          /\ unused' = unused \ {r}
          /\ misused' = (misused \/ t \in instrumented)
          /\ UNCHANGED <<thread, holder, aborted>>
     ELSE /\ UnwindThrough(t, HeldBy(t))
          /\ misused' = TRUE
          /\ UNCHANGED unused
  /\ UNCHANGED samplers

\* drop: the expect panics unless the thread it happens on is instrumented.
DropRegistrar(r, t) ==
  /\ holder[r] = t
  /\ thread[t] = "running"
  /\ IF t \in instrumented
     THEN /\ UnregisterThread(t)
          /\ holder' = [holder EXCEPT ![r] = None]
          /\ UNCHANGED <<thread, aborted>>
     ELSE UnwindThrough(t, HeldBy(t) \ {r})
  /\ misused' = (misused \/ r \in unused)
  /\ UNCHANGED <<unused, thread_info, samplers>>

\* The thread ends, its locals dropped before: its thread local goes without a message.
ThreadEnds(t) ==
  /\ thread[t] = "running"
  /\ HeldBy(t) = {}
  /\ thread' = [thread EXCEPT ![t] = "ended"]
  /\ instrumented' = instrumented \ {t}
  /\ UNCHANGED <<holder, unused, thread_info, sampler_channel, samplers, aborted, misused>>

\* The sampler thread pushes the sampler.
RegisterSampler ==
  /\ sampler_channel # <<>>
  /\ Head(sampler_channel).type = "RegisterSampler"
  /\ samplers' = [samplers EXCEPT ![Head(sampler_channel).tid] = @ + 1]
  /\ sampler_channel' = Tail(sampler_channel)
  /\ UNCHANGED <<thread, holder, unused, thread_info, instrumented, aborted, misused>>

\* The sampler thread drops all samplers with this id.
UnregisterSampler ==
  /\ sampler_channel # <<>>
  /\ Head(sampler_channel).type = "UnregisterSampler"
  /\ samplers' = [samplers EXCEPT ![Head(sampler_channel).tid] = 0]
  /\ sampler_channel' = Tail(sampler_channel)
  /\ UNCHANGED <<thread, holder, unused, thread_info, instrumented, aborted, misused>>

Next ==
  /\ ~aborted
  /\ \/ \E r \in Registrars, t \in Threads : Move(r, t) \/ Register(r, t) \/ DropRegistrar(r, t)
     \/ \E t \in Threads : ThreadEnds(t)
     \/ RegisterSampler
     \/ UnregisterSampler

Spec == Init /\ [][Next]_vars

-----------------------------------------------------------------------------

About(t) == {i \in DOMAIN sampler_channel : sampler_channel[i].tid = t}

\* Whether the sampler thread has t in its list once it has caught up.
ToBeSampled(t) ==
  IF About(t) = {}
  THEN samplers[t] > 0
  ELSE \E i \in About(t) : /\ \A j \in About(t) : j <= i
                           /\ sampler_channel[i].type = "RegisterSampler"

\* However its registrars are used, a running thread records markers exactly if
\* it is, or is about to be, sampled: the thread local and the sampler thread's
\* list never drift apart.
InstrumentedIsSampled ==
  \A t \in Threads :
    thread[t] = "running" => (t \in instrumented <=> ToBeSampled(t))

\* Each registrar is registered once, then dropped by the same thread, one at a
\* time: then neither register nor drop panics, and "at the end of the scope,
\* the thread is automatically unregistered" (src/core.rs, ThreadRegistrar).
WellUsedNeverPanics ==
  ~misused => ~aborted /\ \A t \in Threads : thread[t] # "panicked"

\* Then also a thread is instrumented for as long as it holds a registrar that
\* it has registered; whatever is sampled has a name, and is in the list once;
\* and a thread that has ended is not sampled for ever.
WellUsedIsTracked ==
  ~misused =>
    /\ \A r \in Registrars \ unused : holder[r] # None => holder[r] \in instrumented
    /\ \A t \in Threads :
         /\ samplers[t] <= 1
         /\ ToBeSampled(t) => /\ thread[t] = "running"
                              /\ \E r \in Registrars : thread_info[r] = t
=============================================================================
