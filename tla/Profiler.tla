------------------------------ MODULE Profiler ------------------------------
(***************************************************************************)
(* The whole profiler: the core, the application threads, the sampler      *)
(* thread and the buffer thread, interleaved, over the three channels.     *)
(***************************************************************************)
EXTENDS MainThreadCore, BufferThread, SamplerThread

CONSTANT MaxSamples   \* bound: samples beyond one per wait_for_one_sample

ASSUME SampleBound == MaxSamples \in Nat

VARIABLE atCall   \* history: what the profiler had been given when serialize was called

vars == <<channelVars, bufferVars, samplerVars, registrarVars, coreVars, atCall>>

Given == [added : [Threads -> Nat], threadInfo : SUBSET Threads, samples : Nat]

Init ==
  /\ ChannelsInit
  /\ BufferInit
  /\ SamplerInit
  /\ RegistrarInit
  /\ CoreInit
  /\ atCall = [added |-> added, threadInfo |-> {}, samples |-> 0]

-----------------------------------------------------------------------------

\* Bound: a wait_for_one_sample always leaves one more sample to take.
SampleBudget == taken < MaxSamples + waits

SamplerStep ==
  \/ SamplerLoop
  \/ \E t \in Threads : SampleBudget /\ TakeSample(t)
  \/ \E t \in Threads : SkipSample(t)

ThreadStep(t) ==
  \/ PublishThreadInfo(t)
  \/ SendRegisterSampler(t)
  \/ AddMarker(t)
  \/ Unregister(t)
  \/ \E c \in Controls : ControlSampler(t, c)
  \/ ControlBuffer(t)

CoreStep ==
  /\ CoreNext
  /\ atCall' = IF core = "idle" /\ core' = "collecting"
               THEN [added |-> added, threadInfo |-> threadInfo, samples |-> Len(samples)]
               ELSE atCall

Next ==
  /\ ~aborted
  /\ \/ BufferNext /\ UNCHANGED <<samplerVars, registrarVars, coreVars, atCall>>
     \/ SamplerStep /\ UNCHANGED <<bufferVars, registrarVars, coreVars, atCall>>
     \/ (\E t \in Threads : ThreadStep(t)) /\ UNCHANGED <<bufferVars, samplerVars, coreVars, atCall>>
     \/ CoreStep /\ UNCHANGED <<bufferVars, samplerVars>>

Spec == Init /\ [][Next]_vars

-----------------------------------------------------------------------------
(* Fairness.  The two profiler threads run loops that nothing but an empty *)
(* channel blocks, and a core that is inside a call goes on with it.  A    *)
(* round always gets to its end; that the suspension of a running thread   *)
(* does not fail for ever is asked of the kernel.  No fairness is asked of *)
(* the application: its threads need not register, finish or call.         *)

BufferRuns == BufferNext /\ UNCHANGED <<samplerVars, registrarVars, coreVars, atCall>>

SamplerRuns == SamplerStep /\ UNCHANGED <<bufferVars, registrarVars, coreVars, atCall>>

SampleTaken(t) ==
  /\ thread[t] = "instrumented"
  /\ SampleBudget /\ TakeSample(t)
  /\ UNCHANGED <<bufferVars, registrarVars, coreVars, atCall>>

CoreContinues ==
  /\ core \in {"collecting", "awaiting"}
  /\ CoreStep
  /\ UNCHANGED <<bufferVars, samplerVars>>

Fairness ==
  /\ WF_vars(~aborted /\ BufferRuns)
  /\ WF_vars(~aborted /\ SamplerRuns)
  /\ WF_vars(~aborted /\ CoreContinues)
  /\ \A t \in Threads : SF_vars(~aborted /\ SampleTaken(t))

FairSpec == Spec /\ Fairness

-----------------------------------------------------------------------------

\* Every variable keeps its type; and what a round goes through stays a part of
\* the list it borrows, because no message is handled until the round is over.
TypeOK ==
  /\ ChannelsTypeOK
  /\ BufferTypeOK
  /\ SamplerTypeOK
  /\ RegistrarTypeOK
  /\ CoreTypeOK
  /\ atCall \in Given

-----------------------------------------------------------------------------
(* The request and response protocol of the one shared response channel.   *)

IsRequest(i) == bufferChannel.queue[i].type \in Requests

NoRequestQueued == \A i \in DOMAIN bufferChannel.queue : ~IsRequest(i)

OneRequestQueued ==
  \E i \in DOMAIN bufferChannel.queue :
    /\ bufferChannel.queue[i].type = request
    /\ \A j \in DOMAIN bufferChannel.queue : IsRequest(j) => j = i

\* The request has been sent and was not taken up yet.
RequestQueued ==
  /\ OneRequestQueued
  /\ ~isWaitingForOneSample
  /\ serializationChannel.queue = <<>>

\* The request was taken up, and the response has to wait for a sample.
RequestDeferred ==
  /\ request = "WaitingForOneSample"
  /\ NoRequestQueued
  /\ isWaitingForOneSample
  /\ serializationChannel.queue = <<>>

\* The response is on its way.
RequestResponded ==
  /\ NoRequestQueued
  /\ ~isWaitingForOneSample
  /\ Len(serializationChannel.queue) = 1
  /\ serializationChannel.queue[1].type = ResponseTo[request]

NoRequest ==
  /\ NoRequestQueued
  /\ ~isWaitingForOneSample
  /\ serializationChannel.queue = <<>>

\* While the core awaits a response there is exactly one request or response of
\* its kind in the system, and otherwise none: no call can be answered with
\* what another call asked for ("Received an out of order serialization message").
Lockstep ==
  IF core = "awaiting"
  THEN request \in Requests /\ (RequestQueued \/ RequestDeferred \/ RequestResponded)
  ELSE NoRequest

-----------------------------------------------------------------------------
(* Who holds which end of the channels.                                    *)

CoreAlive == core \in {"idle", "collecting", "awaiting"}

SamplerAlive == samplerThread \in {"receiving", "sampling"}

HoldsSenders(t) == thread[t] \in {"holding", "published", "instrumented"}

\* Each party holds the ends its stand calls for, in registrar or thread local,
\* and none is leaked or dropped early; so the buffer thread outlives all who
\* send to it, and the sampler thread ends before its senders are gone only if
\* the application stops it.
Endpoints ==
  /\ "core" \in bufferChannel.senders <=> CoreAlive
  /\ "core" \in samplerChannel.senders <=> CoreAlive
  /\ serializationChannel.receiver <=> CoreAlive
  /\ "sampler" \in bufferChannel.senders <=> SamplerAlive
  /\ samplerChannel.receiver <=> SamplerAlive
  /\ "buffer" \in serializationChannel.senders <=> bufferThread = "running"
  /\ bufferChannel.receiver <=> bufferThread = "running"
  /\ \A t \in Threads : /\ t \in bufferChannel.senders <=> HoldsSenders(t)
                        /\ t \in samplerChannel.senders <=> HoldsSenders(t)
  /\ bufferThread = "running" \/ bufferChannel.senders = {}
  /\ samplerThread = "returned" => samplerChannel.senders = {}
  /\ samplerThread = "stopped" => "StopSampling" \in Controls

-----------------------------------------------------------------------------
(* Panics.                                                                 *)

\* The expects and unwraps between the threads only ever fail after the
\* application has stopped the sampler thread behind the core's back: without
\* StopSampling no call of the core, no register, add_marker or drop, and
\* neither of the profiler's threads panics, whatever the interleaving.
PanicOnlyAfterStop ==
  "StopSampling" \notin Controls =>
    /\ core # "panicked"
    /\ bufferThread # "panicked"
    /\ samplerThread # "panicked"
    /\ ~aborted
    /\ \A t \in Threads : thread[t] # "panicked"

\* Even with StopSampling the buffer thread never finds its core gone, and the
\* sampler thread never finds the buffer thread gone.
ThreadsNeverPanic == bufferThread # "panicked" /\ samplerThread # "panicked"

\* The inductive invariant behind both: a send or receive fails only if the other
\* end is gone, which Endpoints ties to where its owner stands; a response is
\* refused only if it is another request's, which Lockstep excludes.
StopIsControl ==
  \A i \in DOMAIN samplerChannel.queue :
    samplerChannel.queue[i].type = "StopSampling" => "StopSampling" \in Controls

PanicInv ==
  /\ TypeOK
  /\ Endpoints
  /\ Lockstep
  /\ StopIsControl
  /\ ThreadsNeverPanic
  /\ PanicOnlyAfterStop

-----------------------------------------------------------------------------
(* Registration.                                                           *)

QueuedForSampler(msg) ==
  \E i \in DOMAIN samplerChannel.queue : samplerChannel.queue[i] = msg

\* While the sampler thread lives, its list and its channel together always
\* amount to the instrumented threads: a thread that has registered is listed
\* or about to be, one that has not is neither, and one that has dropped its
\* registrar is on its way out with the last message the channel has on it.
SamplersConverge ==
  SamplerAlive =>
    \A t \in Threads :
      LET registering == QueuedForSampler([type |-> "RegisterSampler", tid |-> t])
          unregistering == QueuedForSampler(UnregisterMsg(t))
      IN  IF thread[t] = "instrumented"
          THEN (t \in samplers <=> ~registering) /\ ~unregistering
          ELSE (t \in samplers \/ registering) => unregistering

InFlight(type) == {i \in DOMAIN bufferChannel.queue : bufferChannel.queue[i].type = type}

\* Nothing is stored, sent or sampled for a thread the profile cannot name:
\* its slot is filled before its sampler is registered.
Attributable ==
  /\ samplers \subseteq threadInfo
  /\ \A i \in DOMAIN markers : markers[i].tid \in threadInfo
  /\ \A i \in DOMAIN samples : samples[i] \in threadInfo
  /\ \A i \in InFlight("AddMarker") \cup InFlight("AddSample") :
       bufferChannel.queue[i].tid \in threadInfo

-----------------------------------------------------------------------------
(* Markers and samples.                                                    *)

MarkersStored(t) == MarkersOf(t) \cup {e.marker : e \in {x \in expired : x.tid = t}}

MarkersInFlight(t) ==
  {bufferChannel.queue[i].marker :
     i \in {j \in InFlight("AddMarker") : bufferChannel.queue[j].tid = t}}

\* Every marker a thread ever added is queued, stored or expired, and nothing
\* else is: also when the core and the thread are gone before it is handled.
NoMarkerLost ==
  \A t \in Threads : MarkersStored(t) \cup MarkersInFlight(t) = 1 .. added[t]

\* A thread's markers are stored in the order it added them, each of them once.
MarkersInOrder ==
  /\ \A i, j \in DOMAIN markers :
       i < j /\ markers[i].tid = markers[j].tid => markers[i].marker < markers[j].marker
  /\ \A i, j \in InFlight("AddMarker") :
       i < j /\ bufferChannel.queue[i].tid = bufferChannel.queue[j].tid
         => bufferChannel.queue[i].marker < bufferChannel.queue[j].marker
  /\ \A i \in DOMAIN markers, j \in InFlight("AddMarker") :
       markers[i].tid = bufferChannel.queue[j].tid
         => markers[i].marker < bufferChannel.queue[j].marker

\* Each wait_for_one_sample that returned stands for a sample of its own, so
\* the sample count a test then reads is not zero (src/core.rs, can_register_samples).
WaitSeesSample == answered <= Len(samples)

\* What serialize returns covers what the profiler was given before the call:
\* each thread registered by then, once, with every marker it had added (but
\* for the expired ones) and every sample that was stored.
ProfileComplete ==
  core = "idle" /\ request = "SerializeBuffer" =>
    /\ \A i, j \in DOMAIN profile : profile[i].tid = profile[j].tid => i = j
    /\ \A t \in atCall.threadInfo : \E i \in DOMAIN profile :
         /\ profile[i].tid = t
         /\ \A n \in 1 .. atCall.added[t] :
              n \in profile[i].markers \/ [tid |-> t, marker |-> n] \in expired
         /\ \A n \in 1 .. atCall.samples : samples[n] = t => n \in profile[i].samples

-----------------------------------------------------------------------------
(* Liveness, under FairSpec.                                               *)

\* serialize and get_sample_count return, whatever the threads are doing.
RequestsAnswered ==
  core = "awaiting" /\ request # "WaitingForOneSample" ~> core # "awaiting"

\* wait_for_one_sample returns if, from some point on, sampling is on and some
\* live thread is registered.  (If not, the caller blocks for ever.)
WaitReturns ==
  <>[](~isPaused /\ \E t \in samplers : thread[t] = "instrumented")
    => (core = "awaiting" ~> core # "awaiting")

\* A thread that has dropped its registrar is removed from the samplers for good.
UnregisterTakesEffect ==
  \A t \in Threads : thread[t] = "finished" ~> [](t \notin samplers)

ThreadsDone == \A t \in Threads : thread[t] \in {"absent", "finished", "panicked"}

\* Once the core is dropped and the last registered thread has dropped its
\* registrar, both profiler threads end, although no message tells them to.
ShutdownCompletes ==
  (core = "dropped" /\ ThreadsDone) ~> (bufferThread = "exited" /\ ~SamplerAlive)
=============================================================================
