---------------------------- MODULE SamplerThread ----------------------------
(***************************************************************************)
(* The "Profiler Sampler" thread (src/sampler_thread.rs).  While paused it *)
(* blocks in recv; while sampling it polls with try_recv, handles every    *)
(* queued message first and only then goes once through its samplers and   *)
(* sleeps for the interval.                                                *)
(*                                                                         *)
(* The Vec of samplers is a set: each application thread registers once,   *)
(* and the order of the samplers within a round is not observable.  The    *)
(* sleep is the time that passes before EndRound.                          *)
(***************************************************************************)
EXTENDS Channels

VARIABLES
  samplerThread,   \* "receiving", "sampling", or why start ended: "returned"
                   \* (channel closed), "stopped" (StopSampling), "panicked"
  isPaused,        \* the local of SamplerThread::start
  samplers,        \* SamplerThread::samplers
  round,           \* the samplers the for loop has not come to yet
  taken            \* history: how many samples were sent

samplerVars == <<samplerThread, isPaused, samplers, round, taken>>

\* A round borrows the list of samplers: nothing leaves the list during it, and
\* no round is under way while a message is handled.
SamplerTypeOK ==
  /\ samplerThread \in {"receiving", "sampling", "returned", "stopped", "panicked"}
  /\ isPaused \in BOOLEAN
  /\ samplers \subseteq Threads
  /\ round \subseteq samplers
  /\ samplerThread # "sampling" => round = {}
  /\ taken \in Nat

SamplerInit ==
  /\ samplerThread = "receiving"
  /\ isPaused = TRUE
  /\ samplers = {}
  /\ round = {}
  /\ taken = 0

-----------------------------------------------------------------------------

SamplerMsg == Head(samplerChannel.queue)

\* Faulty variant: messages are handled in the middle of a round as well.
ReceivesInARound(type) ==
  /\ samplerThread \in {"receiving", "sampling"}
  /\ samplerChannel.queue # <<>>
  /\ SamplerMsg.type = type

\* recv (paused) or try_recv (sampling) yields a message of this type.
SamplerReceives(type) ==
  /\ samplerThread = "receiving"
  /\ samplerChannel.queue # <<>>
  /\ SamplerMsg.type = type

\* The match on the message falls through to `continue`.
Continue ==
  /\ samplerChannel' = Take(samplerChannel)
  /\ UNCHANGED <<bufferChannel, serializationChannel, samplerThread, round, taken>>

\* start ends: the SamplerThread value and its two channel endpoints are dropped.
SamplerEnds(how) ==
  /\ samplerThread' = how
  /\ samplers' = {}
  /\ round' = {}
  /\ samplerChannel' = DropReceiver(samplerChannel)
  /\ bufferChannel' = DropSender(bufferChannel, "sampler")
  /\ UNCHANGED <<serializationChannel, isPaused, taken>>

-----------------------------------------------------------------------------
(* Faulty variants of the handlers below.                                  *)

KeepOnlyUnregistered ==
  /\ SamplerReceives("UnregisterSampler")
  /\ samplers' = samplers \cap {SamplerMsg.tid}
  /\ Continue
  /\ UNCHANGED isPaused

IgnoreUnregister ==
  /\ SamplerReceives("UnregisterSampler")
  /\ Continue
  /\ UNCHANGED <<isPaused, samplers>>

-----------------------------------------------------------------------------

RegisterSampler ==
  /\ SamplerReceives("RegisterSampler")
  /\ samplers' = samplers \cup {SamplerMsg.tid}
  /\ Continue
  /\ UNCHANGED isPaused

UnregisterSampler ==
  /\ SamplerReceives("UnregisterSampler")
  /\ samplers' = samplers \ {SamplerMsg.tid}
  /\ Continue
  /\ UNCHANGED isPaused

StartSampling ==
  /\ SamplerReceives("StartSampling")
  /\ isPaused' = FALSE
  /\ Continue
  /\ UNCHANGED samplers

PauseSampling ==
  /\ SamplerReceives("PauseSampling")
  /\ isPaused' = TRUE
  /\ Continue
  /\ UNCHANGED samplers

StopSampling ==
  /\ SamplerReceives("StopSampling")
  /\ SamplerEnds("stopped")

\* RecvError or TryRecvError::Disconnected.
SamplerReturns ==
  /\ samplerThread = "receiving"
  /\ Disconnected(samplerChannel)
  /\ SamplerEnds("returned")

\* TryRecvError::Empty: all messages are drained, go through the samplers.
BeginRound ==
  /\ samplerThread = "receiving"
  /\ ~isPaused
  /\ samplerChannel.queue = <<>>
  /\ samplerChannel.senders # {}
  /\ samplerThread' = "sampling"
  /\ round' = samplers
  /\ UNCHANGED <<channelVars, isPaused, samplers, taken>>

\* suspend_and_sample_thread is Ok: send the sample, or panic in expect.
TakeSample(t) ==
  /\ samplerThread = "sampling"
  /\ t \in round
  /\ IF bufferChannel.receiver
     THEN /\ bufferChannel' = Put(bufferChannel, [type |-> "AddSample", tid |-> t])
          /\ round' = round \ {t}
          /\ taken' = taken + 1
          /\ UNCHANGED <<samplerChannel, serializationChannel, samplerThread,
                         isPaused, samplers>>
     ELSE SamplerEnds("panicked")

\* suspend_and_sample_thread is an Err: the thread has ended, or the kernel refused.
SkipSample(t) ==
  /\ samplerThread = "sampling"
  /\ t \in round
  /\ round' = round \ {t}
  /\ UNCHANGED <<channelVars, samplerThread, isPaused, samplers, taken>>

EndRound ==
  /\ samplerThread = "sampling"
  /\ round = {}
  /\ samplerThread' = "receiving"
  /\ UNCHANGED <<channelVars, isPaused, samplers, round, taken>>

\* Everything the loop does but sampling.
SamplerLoop ==
  \/ RegisterSampler
  \/ UnregisterSampler
  \/ StartSampling
  \/ PauseSampling
  \/ StopSampling
  \/ SamplerReturns
  \/ BeginRound
  \/ EndRound
=============================================================================
