---------------------------- MODULE BufferThread ----------------------------
(***************************************************************************)
(* The "Profiler Buffer" thread (src/buffer_thread.rs): it drains          *)
(* bufferChannel, one action per BufferThreadMessage, stores markers and   *)
(* samples, and answers the core's requests on serializationChannel.       *)
(*                                                                         *)
(* The buffers keep their entries in arrival order (push_back).  The clock *)
(* is left to module TimeExpiringBuffer: entries arrive in clock order, so *)
(* what has expired when ClearExpiredMarkers is handled is some prefix of  *)
(* the marker buffer.                                                      *)
(***************************************************************************)
EXTENDS Channels

VARIABLES
  bufferThread,            \* "running", "exited" (start returned) or "panicked"
  markers,                 \* the marker buffer: a sequence of entries
  samples,                 \* the sample buffer: the tid of each entry
  isWaitingForOneSample,   \* the local of BufferThread::start
  expired                  \* history: the entries ClearExpiredMarkers removed

bufferVars == <<bufferThread, markers, samples, isWaitingForOneSample, expired>>

MarkerEntry == [tid : Threads, marker : Nat]

BufferTypeOK ==
  /\ bufferThread \in {"running", "exited", "panicked"}
  /\ markers \in Seq(MarkerEntry)
  /\ samples \in Seq(Threads)
  /\ isWaitingForOneSample \in BOOLEAN
  /\ expired \subseteq MarkerEntry

BufferInit ==
  /\ bufferThread = "running"
  /\ markers = <<>>
  /\ samples = <<>>
  /\ isWaitingForOneSample = FALSE
  /\ expired = {}

-----------------------------------------------------------------------------

\* self.receiver.recv() yields a message of this type.
BufferReceives(type) ==
  /\ bufferThread = "running"
  /\ bufferChannel.queue # <<>>
  /\ Head(bufferChannel.queue).type = type

BufferMsg == Head(bufferChannel.queue)

\* The message is consumed and nothing is answered.
Consume ==
  /\ bufferChannel' = Take(bufferChannel)
  /\ UNCHANGED <<serializationChannel, bufferThread>>

\* serialization_sender.send(msg).unwrap(): a core that is gone panics the thread.
Respond(msg) ==
  IF serializationChannel.receiver
  THEN /\ serializationChannel' = Put(serializationChannel, msg)
       /\ bufferChannel' = Take(bufferChannel)
       /\ UNCHANGED bufferThread
  ELSE /\ serializationChannel' = DropSender(serializationChannel, "buffer")
       /\ bufferChannel' = DropReceiver(bufferChannel)
       /\ bufferThread' = "panicked"

\* TimeExpiringBuffer::iter_thread, on the markers and on the samples.
MarkersOf(t) == {markers[i].marker : i \in {j \in DOMAIN markers : markers[j].tid = t}}
SamplesOf(t) == {i \in DOMAIN samples : samples[i] = t}

\* Faulty variant: every thread is given the samples of the first.
SerializedProfileOfFirst(thread_infos) ==
  [i \in DOMAIN thread_infos |->
     [tid |-> thread_infos[i],
      markers |-> MarkersOf(thread_infos[i]),
      samples |-> SamplesOf(thread_infos[1])]]

\* serialize_buffer: one entry per ThreadInfo the core sent along.
SerializedProfile(thread_infos) ==
  [i \in DOMAIN thread_infos |->
     [tid |-> thread_infos[i],
      markers |-> MarkersOf(thread_infos[i]),
      samples |-> SamplesOf(thread_infos[i])]]

-----------------------------------------------------------------------------
(* Faulty variants: each is a plausible slip in the handler it precedes.   *)

StoreMarkerInFront ==
  /\ BufferReceives("AddMarker")
  /\ markers' = <<[tid |-> BufferMsg.tid, marker |-> BufferMsg.marker]>> \o markers
  /\ Consume
  /\ UNCHANGED <<samplerChannel, samples, isWaitingForOneSample, expired>>

StoreSampleKeepWaiting ==
  /\ BufferReceives("AddSample")
  /\ samples' = Append(samples, BufferMsg.tid)
  /\ IF isWaitingForOneSample THEN Respond([type |-> "OneSampleReceived"]) ELSE Consume
  /\ UNCHANGED <<samplerChannel, markers, isWaitingForOneSample, expired>>

AnswerWaitAtOnce ==
  /\ BufferReceives("WaitingForOneSample")
  /\ Respond([type |-> "OneSampleReceived"])
  /\ UNCHANGED <<samplerChannel, markers, samples, isWaitingForOneSample, expired>>

AnswerWaitTwice ==
  /\ BufferReceives("WaitingForOneSample")
  /\ IF samples # <<>> THEN Respond([type |-> "OneSampleReceived"]) ELSE Consume
  /\ isWaitingForOneSample' = TRUE
  /\ UNCHANGED <<samplerChannel, markers, samples, expired>>

ForgetWait ==
  /\ BufferReceives("WaitingForOneSample")
  /\ Consume
  /\ UNCHANGED <<samplerChannel, markers, samples, isWaitingForOneSample, expired>>

IgnoreSampleCount ==
  /\ BufferReceives("GetSampleCount")
  /\ Consume
  /\ UNCHANGED <<samplerChannel, markers, samples, isWaitingForOneSample, expired>>

ExitWithoutDraining ==
  /\ bufferThread = "running"
  /\ bufferChannel.senders = {}
  /\ bufferThread' = "exited"
  /\ bufferChannel' = DropReceiver(bufferChannel)
  /\ serializationChannel' = DropSender(serializationChannel, "buffer")
  /\ UNCHANGED <<samplerChannel, markers, samples, isWaitingForOneSample, expired>>

-----------------------------------------------------------------------------
(* The arms of the match in BufferThread::start.                           *)

StoreMarker ==
  /\ BufferReceives("AddMarker")
  /\ markers' = Append(markers, [tid |-> BufferMsg.tid, marker |-> BufferMsg.marker])
  /\ Consume
  /\ UNCHANGED <<samplerChannel, samples, isWaitingForOneSample, expired>>

StoreSample ==
  /\ BufferReceives("AddSample")
  /\ samples' = Append(samples, BufferMsg.tid)
  /\ IF isWaitingForOneSample THEN Respond([type |-> "OneSampleReceived"]) ELSE Consume
  /\ isWaitingForOneSample' = FALSE
  /\ UNCHANGED <<samplerChannel, markers, expired>>

ClearExpiredMarkers ==
  /\ BufferReceives("ClearExpiredMarkers")
  /\ \E n \in 0 .. Len(markers) :
       /\ markers' = SubSeq(markers, n + 1, Len(markers))
       /\ expired' = expired \cup {markers[i] : i \in 1 .. n}
  /\ Consume
  /\ UNCHANGED <<samplerChannel, samples, isWaitingForOneSample>>

SerializeBuffer ==
  /\ BufferReceives("SerializeBuffer")
  /\ Respond([type |-> "Serialize",
              profile |-> SerializedProfile(BufferMsg.thread_infos)])
  /\ UNCHANGED <<samplerChannel, markers, samples, isWaitingForOneSample, expired>>

AnswerSampleCount ==
  /\ BufferReceives("GetSampleCount")
  /\ Respond([type |-> "SampleCount", count |-> Len(samples)])
  /\ UNCHANGED <<samplerChannel, markers, samples, isWaitingForOneSample, expired>>

NoteWait ==
  /\ BufferReceives("WaitingForOneSample")
  /\ isWaitingForOneSample' = TRUE
  /\ Consume
  /\ UNCHANGED <<samplerChannel, markers, samples, expired>>

\* recv() is an Err: the loop breaks and the thread drops its endpoints.
BufferExits ==
  /\ bufferThread = "running"
  /\ Disconnected(bufferChannel)
  /\ bufferThread' = "exited"
  /\ bufferChannel' = DropReceiver(bufferChannel)
  /\ serializationChannel' = DropSender(serializationChannel, "buffer")
  /\ UNCHANGED <<samplerChannel, markers, samples, isWaitingForOneSample, expired>>

BufferNext ==
  \/ StoreMarker
  \/ StoreSample
  \/ ClearExpiredMarkers
  \/ SerializeBuffer
  \/ AnswerSampleCount
  \/ NoteWait
  \/ BufferExits
=============================================================================
