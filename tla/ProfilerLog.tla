----------------------------- MODULE ProfilerLog -----------------------------
(***************************************************************************)
(* Profiler implements ProfileLog: under the mapping below every step of   *)
(* the core, the application threads, the sampler thread and the buffer    *)
(* thread is a step of the one log, or leaves it alone.                    *)
(*                                                                         *)
(* A marker or a sample is in the log when it enters the buffer thread's   *)
(* channel, and serialize reads the log when its request does.             *)
(***************************************************************************)
EXTENDS Profiler

\* A sample buffer stored, and what the first n messages of queue will make of it.
SampledAfter(stored, queue) ==
  LET after[n \in 0 .. Len(queue)] ==
        IF n = 0 THEN stored
        ELSE IF queue[n].type = "AddSample" THEN Append(after[n - 1], queue[n].tid)
        ELSE after[n - 1]
  IN  after

Sampled == SampledAfter(samples, bufferChannel.queue)[Len(bufferChannel.queue)]

Serializing ==
  CASE core = "collecting" -> "listing"
    [] core = "awaiting" /\ request = "SerializeBuffer" ->
         IF serializationChannel.queue = <<>> THEN "reading" ELSE "returning"
    [] OTHER -> "idle"

AddedMarkers == UNION {{[tid |-> t, marker |-> n] : n \in 1 .. added[t]} : t \in Threads}

\* Where the request is in queue, and the markers behind it, which came too late.
RequestIn(queue) == CHOOSE i \in DOMAIN queue : queue[i].type \in Requests

MarkersBehind(queue, k) ==
  {[tid |-> queue[i].tid, marker |-> queue[i].marker] :
     i \in {j \in DOMAIN queue : k < j /\ queue[j].type = "AddMarker"}}

ReadSoFar ==
  IF Serializing = "reading"
  THEN LET queue == bufferChannel.queue
           k == RequestIn(queue)
       IN  [listed |-> infos,
            log |-> AddedMarkers \ MarkersBehind(queue, k),
            samples |-> Len(SampledAfter(samples, queue)[k])]
  ELSE [listed |-> <<>>, log |-> {}, samples |-> 0]

ProfileOnItsWay ==
  IF Serializing = "returning"
  THEN Head(serializationChannel.queue).profile
  ELSE profile

ProfileLog == INSTANCE ProfileLog WITH
  named <- threadInfo,
  sampled <- Sampled,
  call <- Serializing,
  namedAtCall <- atCall.threadInfo,
  read <- ReadSoFar,
  profile <- ProfileOnItsWay

\* The profiler behaves like one log that add_marker appends to at once and
\* serialize reads at one instant: what the four parties, the two channels and
\* the request in between make of add_marker and serialize.
ImplementsProfileLog == ProfileLog!Spec
=============================================================================
