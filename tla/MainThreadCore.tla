--------------------------- MODULE MainThreadCore ---------------------------
(***************************************************************************)
(* MainThreadCore (src/core.rs), as its owner drives it: one call at a     *)
(* time.  get_sample_count, serialize and wait_for_one_sample send a       *)
(* request to the buffer thread and block on the one channel that all      *)
(* responses share; serialize first locks the threads' slots one by one.   *)
(*                                                                         *)
(* Where the core stands: "idle", "collecting" (in serialize, at slot      *)
(* number slot), "awaiting" (in get_serialization_response), "dropped" or  *)
(* "panicked".                                                             *)
(***************************************************************************)
EXTENDS ThreadRegistrar

CONSTANT MaxCalls   \* bound: calls of start_sampling and of the three requests

ASSUME CoreBounds == MaxCalls \in Nat

VARIABLES
  core,         \* where the core stands
  request,      \* the type of the last request, "none" before the first
  registrars,   \* registered_thread_info: whose slot each element is
  infos,        \* serialize: the ThreadInfos collected so far
  slot,         \* serialize: the element to lock next
  calls,        \* how many calls were made
  waits,        \* history: how many of them were wait_for_one_sample
  answered,     \* history: how many of those returned
  profile       \* the value the last serialize returned

coreVars == <<core, request, registrars, infos, slot, calls, waits, answered, profile>>

Requests == {"GetSampleCount", "SerializeBuffer", "WaitingForOneSample"}

\* The response each request's match accepts.
ResponseTo == [GetSampleCount |-> "SampleCount",
               SerializeBuffer |-> "Serialize",
               WaitingForOneSample |-> "OneSampleReceived"]

CoreTypeOK ==
  /\ core \in {"idle", "collecting", "awaiting", "dropped", "panicked"}
  /\ request \in Requests \cup {"none"}
  /\ registrars \in Seq(Threads)
  /\ infos \in Seq(Threads)
  /\ slot \in Nat \ {0}
  /\ calls \in Nat
  /\ waits \in Nat
  /\ answered \in Nat
  /\ profile \in Seq(ThreadProfile)

CoreInit ==
  /\ core = "idle"
  /\ request = "none"
  /\ registrars = <<>>
  /\ infos = <<>>
  /\ slot = 1
  /\ calls = 0
  /\ waits = 0
  /\ answered = 0
  /\ profile = <<>>

-----------------------------------------------------------------------------

\* The value is dropped: its senders, and the receiver of the responses.
DropsCore(how) ==
  /\ core' = how
  /\ bufferChannel' = DropSender(bufferChannel, "core")
  /\ samplerChannel' = DropSender(samplerChannel, "core")
  /\ serializationChannel' = DropReceiver(serializationChannel)

\* Faulty variant: the call returns without its response.
SendRequestOnly(msg) ==
  /\ request' = msg.type
  /\ bufferChannel.receiver
  /\ bufferChannel' = Put(bufferChannel, msg)
  /\ core' = "idle"
  /\ UNCHANGED <<samplerChannel, serializationChannel>>

\* buffer_thread_sender.send(msg).expect(...), then wait for the response.
SendRequest(msg) ==
  /\ request' = msg.type
  /\ IF bufferChannel.receiver
     THEN /\ bufferChannel' = Put(bufferChannel, msg)
          /\ core' = "awaiting"
          /\ UNCHANGED <<samplerChannel, serializationChannel>>
     ELSE DropsCore("panicked")

CanCall == core = "idle" /\ calls < MaxCalls

-----------------------------------------------------------------------------
(* Faulty variants of the operations below.                                *)

\* The collection ends at the first slot that is still None.
CollectUntilUnregistered ==
  /\ core = "collecting"
  /\ slot <= Len(registrars)
  /\ infos' = IF registrars[slot] \in threadInfo /\ Len(infos) = slot - 1
              THEN Append(infos, registrars[slot])
              ELSE infos
  /\ slot' = slot + 1
  /\ UNCHANGED <<channelVars, registrarVars, core, request, registrars, calls, waits,
                 answered, profile>>

\* The request overtakes the markers that are queued.
SendSerializeFirst ==
  /\ core = "collecting"
  /\ slot > Len(registrars)
  /\ bufferChannel.receiver
  /\ bufferChannel' = [bufferChannel EXCEPT
       !.queue = <<[type |-> "SerializeBuffer", thread_infos |-> infos]>> \o @]
  /\ request' = "SerializeBuffer"
  /\ core' = "awaiting"
  /\ UNCHANGED <<samplerChannel, serializationChannel, registrarVars, registrars,
                 infos, slot, calls, waits, answered, profile>>

-----------------------------------------------------------------------------

GetThreadRegistrar(t) ==
  /\ core = "idle"
  /\ thread[t] = "absent"
  /\ registrars' = Append(registrars, t)
  /\ bufferChannel' = CloneSender(bufferChannel, t)
  /\ samplerChannel' = CloneSender(samplerChannel, t)
  /\ Becomes(t, "holding")
  /\ UNCHANGED <<serializationChannel, threadInfo, added, controls, aborted, core,
                 request, infos, slot, calls, waits, answered, profile>>

CallStartSampling ==
  /\ CanCall
  /\ calls' = calls + 1
  /\ IF samplerChannel.receiver
     THEN /\ samplerChannel' = Put(samplerChannel, [type |-> "StartSampling"])
          /\ UNCHANGED <<bufferChannel, serializationChannel, core>>
     ELSE DropsCore("panicked")
  /\ UNCHANGED <<registrarVars, request, registrars, infos, slot, waits, answered, profile>>

CallGetSampleCount ==
  /\ CanCall
  /\ calls' = calls + 1
  /\ SendRequest([type |-> "GetSampleCount"])
  /\ UNCHANGED <<registrarVars, registrars, infos, slot, waits, answered, profile>>

CallWaitForOneSample ==
  /\ CanCall
  /\ calls' = calls + 1
  /\ waits' = waits + 1
  /\ SendRequest([type |-> "WaitingForOneSample"])
  /\ UNCHANGED <<registrarVars, registrars, infos, slot, answered, profile>>

CallSerialize ==
  /\ CanCall
  /\ calls' = calls + 1
  /\ core' = "collecting"
  /\ infos' = <<>>
  /\ slot' = 1
  /\ UNCHANGED <<channelVars, registrarVars, request, registrars, waits, answered, profile>>

\* thread_info.lock(), clone, and the filter on is_some.
CollectThreadInfo ==
  /\ core = "collecting"
  /\ slot <= Len(registrars)
  /\ infos' = IF registrars[slot] \in threadInfo
              THEN Append(infos, registrars[slot])
              ELSE infos
  /\ slot' = slot + 1
  /\ UNCHANGED <<channelVars, registrarVars, core, request, registrars, calls, waits,
                 answered, profile>>

SendSerialize ==
  /\ core = "collecting"
  /\ slot > Len(registrars)
  /\ SendRequest([type |-> "SerializeBuffer", thread_infos |-> infos])
  /\ UNCHANGED <<registrarVars, registrars, infos, slot, calls, waits, answered, profile>>

\* get_serialization_response and the match on it.  An empty queue that is
\* disconnected, or a response of another type, panics.
ReceiveResponse ==
  /\ core = "awaiting"
  /\ serializationChannel.queue # <<>> \/ Disconnected(serializationChannel)
  /\ IF /\ serializationChannel.queue # <<>>
        /\ Head(serializationChannel.queue).type = ResponseTo[request]
     THEN /\ serializationChannel' = Take(serializationChannel)
          /\ core' = "idle"
          /\ profile' = IF request = "SerializeBuffer"
                        THEN Head(serializationChannel.queue).profile
                        ELSE profile
          /\ answered' = IF request = "WaitingForOneSample" THEN answered + 1 ELSE answered
          /\ UNCHANGED <<bufferChannel, samplerChannel>>
     ELSE /\ DropsCore("panicked")
          /\ UNCHANGED <<profile, answered>>
  /\ UNCHANGED <<registrarVars, request, registrars, infos, slot, calls, waits>>

DropCore ==
  /\ core = "idle"
  /\ DropsCore("dropped")
  /\ UNCHANGED <<registrarVars, request, registrars, infos, slot, calls, waits, answered,
                 profile>>

CoreNext ==
  \/ \E t \in Threads : GetThreadRegistrar(t)
  \/ CallStartSampling
  \/ CallGetSampleCount
  \/ CallWaitForOneSample
  \/ CallSerialize
  \/ CollectThreadInfo
  \/ SendSerialize
  \/ ReceiveResponse
  \/ DropCore
=============================================================================
