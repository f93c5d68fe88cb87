--------------------------- MODULE ProfilerProofs ---------------------------
(***************************************************************************)
(* Type correctness of Profiler, that nothing panics, and what happens to  *)
(* its markers and samples: proofs for any set of threads, any controls    *)
(* and any bounds.  PanicInv is inductive given TypeOK; it has one lemma   *)
(* per party, with one step per action.                                    *)
(***************************************************************************)
EXTENDS Profiler, TLAPS

-----------------------------------------------------------------------------
(* Sequences and channels.                                                 *)

\* What Append does to the length and to every element: an mpsc send.
LEMMA AppendSeq ==
  ASSUME NEW S, NEW q \in Seq(S), NEW m \in S
  PROVE  /\ Append(q, m) \in Seq(S)
         /\ Len(Append(q, m)) = Len(q) + 1
         /\ DOMAIN Append(q, m) = 1 .. Len(q) + 1
         /\ \A i \in DOMAIN q : Append(q, m)[i] = q[i]
         /\ Append(q, m)[Len(q) + 1] = m
  OBVIOUS

\* What Head and Tail give of a sequence that is not empty: an mpsc recv.
LEMMA TailSeq ==
  ASSUME NEW S, NEW q \in Seq(S), q # <<>>
  PROVE  /\ Tail(q) \in Seq(S)
         /\ Head(q) \in S
         /\ Head(q) = q[1]
         /\ Len(q) \in Nat \ {0}
         /\ Len(Tail(q)) = Len(q) - 1
         /\ DOMAIN q = 1 .. Len(q)
         /\ DOMAIN Tail(q) = 1 .. Len(q) - 1
         /\ \A i \in DOMAIN Tail(q) : i + 1 \in DOMAIN q /\ Tail(q)[i] = q[i + 1]
  OBVIOUS

\* A send keeps a channel a channel of its message type.
LEMMA PutType ==
  ASSUME NEW Message, NEW Owner, NEW ch \in Channel(Message, Owner), NEW msg \in Message
  PROVE  Put(ch, msg) \in Channel(Message, Owner)
  BY AppendSeq DEF Put, Channel

\* So does a receive, which yields a message of that type.
LEMMA TakeType ==
  ASSUME NEW Message, NEW Owner, NEW ch \in Channel(Message, Owner), ch.queue # <<>>
  PROVE  /\ Take(ch) \in Channel(Message, Owner) /\ Head(ch.queue) \in Message
  BY TailSeq DEF Take, Channel

\* So does every change of who owns an end.
LEMMA OwnerType ==
  ASSUME NEW Message, NEW Owner, NEW ch \in Channel(Message, Owner), NEW owner
  PROVE  /\ DropSender(ch, owner) \in Channel(Message, Owner)
         /\ DropReceiver(ch) \in Channel(Message, Owner)
         /\ owner \in Owner => CloneSender(ch, owner) \in Channel(Message, Owner)
<1>1. /\ ch = [queue |-> ch.queue, senders |-> ch.senders, receiver |-> ch.receiver]
      /\ ch.queue \in Seq(Message)
      /\ ch.senders \in SUBSET Owner
      /\ ch.receiver \in BOOLEAN
  BY DEF Channel
<1>2. DropSender(ch, owner) \in Channel(Message, Owner)
  BY <1>1 DEF DropSender, Channel
<1>3. DropReceiver(ch) \in Channel(Message, Owner)
  <2>1. <<>> \in Seq(Message)
    OBVIOUS
  <2> QED BY <1>1, <2>1 DEF DropReceiver, Channel
<1>4. ASSUME owner \in Owner PROVE CloneSender(ch, owner) \in Channel(Message, Owner)
  BY <1>1, <1>4 DEF CloneSender, Channel
<1> QED BY <1>2, <1>3, <1>4

-----------------------------------------------------------------------------
(* The message types of the three channels.                                *)

\* What the arms of BufferThread::start can read of a message of their type.
LEMMA BufferMessageFields ==
  ASSUME NEW m \in BufferMessage
  PROVE  /\ m.type = "AddMarker" => m.tid \in Threads /\ m.marker \in Nat
         /\ m.type = "AddSample" => m.tid \in Threads
         /\ m.type = "SerializeBuffer" => m.thread_infos \in Seq(Threads)
  BY DEF BufferMessage

\* What the arms of SamplerThread::start can read of a message of their type.
LEMMA SamplerMessageFields ==
  ASSUME NEW m \in SamplerMessage
  PROVE  m.type \in {"RegisterSampler", "UnregisterSampler"} => m.tid \in Threads
  BY DEF SamplerMessage

\* What the core can read of a response.
LEMMA SerializationMessageFields ==
  ASSUME NEW m \in SerializationMessage
  PROVE  /\ m.type = "Serialize" => m.profile \in Seq(ThreadProfile)
         /\ m.type = "SampleCount" => m.count \in Nat
  BY DEF SerializationMessage

\* The messages that are sent to the buffer thread.
LEMMA BufferMessages ==
  /\ \A t \in Threads : [type |-> "AddSample", tid |-> t] \in BufferMessage
  /\ \A t \in Threads, n \in Nat :
       [type |-> "AddMarker", tid |-> t, marker |-> n] \in BufferMessage
  /\ \A s \in Seq(Threads) :
       [type |-> "SerializeBuffer", thread_infos |-> s] \in BufferMessage
  /\ \A c \in {"ClearExpiredMarkers", "GetSampleCount", "WaitingForOneSample"} :
       [type |-> c] \in BufferMessage
  BY DEF BufferMessage

\* The messages that are sent to the sampler thread.
LEMMA SamplerMessages ==
  /\ \A t \in Threads : [type |-> "RegisterSampler", tid |-> t] \in SamplerMessage
  /\ \A t \in Threads : UnregisterMsg(t) \in SamplerMessage
  /\ \A c \in {"PauseSampling", "StartSampling", "StopSampling"} :
       [type |-> c] \in SamplerMessage
  BY DEF SamplerMessage, UnregisterMsg

\* The responses.
LEMMA SerializationMessages ==
  /\ \A p \in Seq(ThreadProfile) : [type |-> "Serialize", profile |-> p] \in SerializationMessage
  /\ \A n \in Nat : [type |-> "SampleCount", count |-> n] \in SerializationMessage
  /\ [type |-> "OneSampleReceived"] \in SerializationMessage
  BY DEF SerializationMessage

\* serialize_buffer gives one well-formed element per ThreadInfo it is sent.
LEMMA SerializedProfileType ==
  ASSUME BufferTypeOK, NEW s \in Seq(Threads)
  PROVE  SerializedProfile(s) \in Seq(ThreadProfile)
<1>1. \A t : MarkersOf(t) \in SUBSET Nat /\ SamplesOf(t) \in SUBSET Nat
  <2>1. \A i \in DOMAIN markers : markers[i].marker \in Nat
    <3>1. \A i \in DOMAIN markers : markers[i] \in MarkerEntry
      BY DEF BufferTypeOK
    <3> QED BY <3>1 DEF MarkerEntry
  <2>2. \A i \in DOMAIN samples : i \in Nat
    BY DEF BufferTypeOK
  <2>3. \A t : MarkersOf(t) \in SUBSET Nat
    BY <2>1, Zenon DEF MarkersOf
  <2>4. \A t : SamplesOf(t) \in SUBSET Nat
    BY <2>2 DEF SamplesOf
  <2> QED BY <2>3, <2>4
<1>2. DOMAIN s = 1 .. Len(s) /\ Len(s) \in Nat /\ \A i \in DOMAIN s : s[i] \in Threads
  OBVIOUS
<1>3. \A i \in DOMAIN s :
        [tid |-> s[i], markers |-> MarkersOf(s[i]), samples |-> SamplesOf(s[i])]
          \in ThreadProfile
  BY <1>1, <1>2 DEF ThreadProfile
<1>4. SerializedProfile(s) \in [1 .. Len(s) -> ThreadProfile]
  BY <1>2, <1>3 DEF SerializedProfile
<1> QED
  BY <1>2, <1>4

-----------------------------------------------------------------------------
(* Type correctness.                                                       *)

\* MainThreadCore::new gives every variable its type.
LEMMA InitType == Init => TypeOK
<1> SUFFICES ASSUME Init PROVE TypeOK
    OBVIOUS
<1> USE DEF Init
<1>1. ChannelsTypeOK
  BY DEF ChannelsTypeOK, ChannelsInit, BufferChannel, SamplerChannel,
         SerializationChannel, Channel, Open
<1>2. BufferTypeOK
  <2>1. markers \in Seq(MarkerEntry) /\ samples \in Seq(Threads)
    BY DEF BufferInit
  <2> QED BY <2>1 DEF BufferTypeOK, BufferInit
<1>3. SamplerTypeOK
  BY DEF SamplerTypeOK, SamplerInit
<1>4. RegistrarTypeOK
  BY DEF RegistrarTypeOK, RegistrarInit
<1>5. CoreTypeOK
  BY DEF CoreTypeOK, CoreInit, Requests
<1>6. atCall \in Given
  BY DEF RegistrarInit, Given
<1> QED
  BY <1>1, <1>2, <1>3, <1>4, <1>5, <1>6 DEF TypeOK


\* The arms of BufferThread::start keep the types.
LEMMA BufferTypeStep ==
  ASSUME TypeOK, BufferNext, UNCHANGED <<samplerVars, registrarVars, coreVars, atCall>>
  PROVE  TypeOK'
<1>1. bufferChannel.queue # <<>> =>
        BufferMsg \in BufferMessage /\ Take(bufferChannel) \in BufferChannel
  BY TakeType DEF TypeOK, ChannelsTypeOK, BufferChannel, BufferMsg
<1>2. SamplerTypeOK' /\ RegistrarTypeOK' /\ CoreTypeOK' /\ atCall' \in Given
  BY DEF TypeOK, SamplerTypeOK, RegistrarTypeOK, CoreTypeOK, samplerVars, registrarVars, coreVars
<1>3. ASSUME Consume, samplerChannel' = samplerChannel, bufferChannel.queue # <<>>
      PROVE  ChannelsTypeOK' /\ bufferThread' \in {"running", "exited", "panicked"}
  BY <1>1, <1>3 DEF Consume, TypeOK, ChannelsTypeOK, BufferTypeOK
<1>4. ASSUME NEW msg \in SerializationMessage, Respond(msg),
             samplerChannel' = samplerChannel, bufferChannel.queue # <<>>
      PROVE  ChannelsTypeOK' /\ bufferThread' \in {"running", "exited", "panicked"}
  <2>1. /\ Put(serializationChannel, msg) \in SerializationChannel
        /\ DropSender(serializationChannel, "buffer") \in SerializationChannel
        /\ DropReceiver(bufferChannel) \in BufferChannel
    BY PutType, OwnerType DEF TypeOK, ChannelsTypeOK, SerializationChannel, BufferChannel
  <2> QED BY <1>1, <1>4, <2>1 DEF Respond, TypeOK, ChannelsTypeOK, BufferTypeOK
<1>5. SUFFICES ChannelsTypeOK' /\ BufferTypeOK'
  BY <1>2 DEF TypeOK
<1>6. CASE StoreMarker
  <2>1. [tid |-> BufferMsg.tid, marker |-> BufferMsg.marker] \in MarkerEntry
    BY <1>1, <1>6, BufferMessageFields
       DEF StoreMarker, BufferReceives, BufferMsg, MarkerEntry
  <2>2. markers' \in Seq(MarkerEntry)
    BY <1>6, <2>1, AppendSeq DEF StoreMarker, TypeOK, BufferTypeOK
  <2> QED
    BY <1>3, <1>6, <2>2 DEF StoreMarker, BufferReceives, TypeOK, BufferTypeOK
<1>7. CASE StoreSample
  <2>1. BufferMsg.tid \in Threads
    BY <1>1, <1>7, BufferMessageFields DEF StoreSample, BufferReceives, BufferMsg
  <2>2. samples' \in Seq(Threads)
    BY <1>7, <2>1, AppendSeq DEF StoreSample, TypeOK, BufferTypeOK
  <2>3. ChannelsTypeOK' /\ bufferThread' \in {"running", "exited", "panicked"}
    BY <1>3, <1>4, <1>7, SerializationMessages DEF StoreSample, BufferReceives
  <2> QED
    BY <1>7, <2>2, <2>3 DEF StoreSample, TypeOK, BufferTypeOK
<1>8. CASE ClearExpiredMarkers
  <2>1. PICK n \in 0 .. Len(markers) :
          /\ markers' = SubSeq(markers, n + 1, Len(markers))
          /\ expired' = expired \cup {markers[i] : i \in 1 .. n}
    BY <1>8 DEF ClearExpiredMarkers
  <2>2. \A i \in 1 .. Len(markers) : markers[i] \in MarkerEntry
    BY DEF TypeOK, BufferTypeOK
  <2>3. markers' \in Seq(MarkerEntry)
    BY <2>1, <2>2 DEF TypeOK, BufferTypeOK
  <2>4. expired' \subseteq MarkerEntry
    BY <2>1, <2>2 DEF TypeOK, BufferTypeOK
  <2> QED
    BY <1>3, <1>8, <2>3, <2>4
       DEF ClearExpiredMarkers, BufferReceives, TypeOK, BufferTypeOK
<1>9. CASE SerializeBuffer
  <2>1. SerializedProfile(BufferMsg.thread_infos) \in Seq(ThreadProfile)
    BY <1>1, <1>9, BufferMessageFields, SerializedProfileType
       DEF SerializeBuffer, BufferReceives, BufferMsg, TypeOK
  <2> QED
    BY <1>4, <1>9, <2>1, SerializationMessages
       DEF SerializeBuffer, BufferReceives, TypeOK, BufferTypeOK
<1>10. CASE AnswerSampleCount
  <2>1. Len(samples) \in Nat
    BY DEF TypeOK, BufferTypeOK
  <2> QED
    BY <1>4, <1>10, <2>1, SerializationMessages
       DEF AnswerSampleCount, BufferReceives, TypeOK, BufferTypeOK
<1>11. CASE NoteWait
  BY <1>3, <1>11 DEF NoteWait, BufferReceives, TypeOK, BufferTypeOK
<1>12. CASE BufferExits
  <2>1. /\ DropSender(serializationChannel, "buffer") \in SerializationChannel
        /\ DropReceiver(bufferChannel) \in BufferChannel
    BY OwnerType DEF TypeOK, ChannelsTypeOK, SerializationChannel, BufferChannel
  <2> QED
    BY <1>12, <2>1 DEF BufferExits, TypeOK, ChannelsTypeOK, BufferTypeOK
<1> QED
  BY <1>6, <1>7, <1>8, <1>9, <1>10, <1>11, <1>12 DEF BufferNext

\* The arms and the rounds of SamplerThread::start keep the types, and keep a
\* round a part of the samplers.
LEMMA SamplerTypeStep ==
  ASSUME TypeOK, SamplerStep, UNCHANGED <<bufferVars, registrarVars, coreVars, atCall>>
  PROVE  TypeOK'
<1>1. samplerChannel.queue # <<>> =>
        SamplerMsg \in SamplerMessage /\ Take(samplerChannel) \in SamplerChannel
  BY TakeType DEF TypeOK, ChannelsTypeOK, SamplerChannel, SamplerMsg
<1>2. BufferTypeOK' /\ RegistrarTypeOK' /\ CoreTypeOK' /\ atCall' \in Given
  BY DEF TypeOK, BufferTypeOK, RegistrarTypeOK, CoreTypeOK, bufferVars, registrarVars, coreVars
<1>3. SUFFICES ChannelsTypeOK' /\ SamplerTypeOK'
  BY <1>2 DEF TypeOK
<1>4. ASSUME Continue, samplerThread = "receiving", samplerChannel.queue # <<>>,
             samplers' \subseteq Threads, isPaused' \in BOOLEAN, round \subseteq samplers'
      PROVE  ChannelsTypeOK' /\ SamplerTypeOK'
  BY <1>1, <1>4 DEF Continue, TypeOK, ChannelsTypeOK, SamplerTypeOK
<1>5. ASSUME NEW how \in {"returned", "stopped", "panicked"}, SamplerEnds(how)
      PROVE  ChannelsTypeOK' /\ SamplerTypeOK'
  <2>1. /\ DropSender(bufferChannel, "sampler") \in BufferChannel
        /\ DropReceiver(samplerChannel) \in SamplerChannel
    BY OwnerType DEF TypeOK, ChannelsTypeOK, SamplerChannel, BufferChannel
  <2> QED
    BY <1>5, <2>1 DEF SamplerEnds, TypeOK, ChannelsTypeOK, SamplerTypeOK
<1>6. ASSUME UNCHANGED channelVars
      PROVE  ChannelsTypeOK'
  BY <1>6 DEF channelVars, TypeOK, ChannelsTypeOK
<1>7. CASE RegisterSampler
  <2>1. SamplerMsg.tid \in Threads
    BY <1>1, <1>7, SamplerMessageFields DEF RegisterSampler, SamplerReceives
  <2> QED
    BY <1>4, <1>7, <2>1 DEF RegisterSampler, SamplerReceives, TypeOK, SamplerTypeOK
<1>8. CASE UnregisterSampler
  BY <1>4, <1>8 DEF UnregisterSampler, SamplerReceives, TypeOK, SamplerTypeOK
<1>9. CASE StartSampling
  BY <1>4, <1>9 DEF StartSampling, SamplerReceives, TypeOK, SamplerTypeOK
<1>10. CASE PauseSampling
  BY <1>4, <1>10 DEF PauseSampling, SamplerReceives, TypeOK, SamplerTypeOK
<1>11. CASE StopSampling
  BY <1>5, <1>11 DEF StopSampling
<1>12. CASE SamplerReturns
  BY <1>5, <1>12 DEF SamplerReturns
<1>13. CASE BeginRound
  BY <1>6, <1>13 DEF BeginRound, TypeOK, SamplerTypeOK
<1>14. CASE EndRound
  BY <1>6, <1>14 DEF EndRound, TypeOK, SamplerTypeOK
<1>15. ASSUME NEW t \in Threads, TakeSample(t)
       PROVE  ChannelsTypeOK' /\ SamplerTypeOK'
  <2>1. Put(bufferChannel, [type |-> "AddSample", tid |-> t]) \in BufferChannel
    BY PutType, BufferMessages DEF TypeOK, ChannelsTypeOK, BufferChannel
  <2>2. CASE bufferChannel.receiver
    BY <1>15, <2>1, <2>2 DEF TakeSample, TypeOK, ChannelsTypeOK, SamplerTypeOK
  <2>3. CASE ~bufferChannel.receiver
    BY <1>5, <1>15, <2>3 DEF TakeSample
  <2> QED BY <2>2, <2>3
<1>16. ASSUME NEW t \in Threads, SkipSample(t)
       PROVE  ChannelsTypeOK' /\ SamplerTypeOK'
  BY <1>6, <1>16 DEF SkipSample, TypeOK, SamplerTypeOK
<1> QED
  BY <1>7, <1>8, <1>9, <1>10, <1>11, <1>12, <1>13, <1>14, <1>15, <1>16
     DEF SamplerStep, SamplerLoop

\* The operations of a registrar and of its thread keep the types.
LEMMA ThreadTypeStep ==
  ASSUME TypeOK, NEW t \in Threads, ThreadStep(t),
         UNCHANGED <<bufferVars, samplerVars, coreVars, atCall>>
  PROVE  TypeOK'
<1>1. BufferTypeOK' /\ SamplerTypeOK' /\ CoreTypeOK' /\ atCall' \in Given
  BY DEF TypeOK, BufferTypeOK, SamplerTypeOK, CoreTypeOK, bufferVars, samplerVars, coreVars
<1>2. SUFFICES ChannelsTypeOK' /\ RegistrarTypeOK'
  BY <1>1 DEF TypeOK
<1>3. \A m \in BufferMessage : Put(bufferChannel, m) \in BufferChannel
  BY PutType DEF TypeOK, ChannelsTypeOK, BufferChannel
<1>4. \A m \in SamplerMessage : Put(samplerChannel, m) \in SamplerChannel
  BY PutType DEF TypeOK, ChannelsTypeOK, SamplerChannel
<1>5. ASSUME NEW stand \in {"published", "instrumented", "finished", "panicked"},
             Becomes(t, stand)
      PROVE  thread' \in [Threads -> {"absent", "holding", "published", "instrumented",
                                     "finished", "panicked"}]
  BY <1>5 DEF Becomes, TypeOK, RegistrarTypeOK
<1>6. ASSUME UNCHANGED channelVars
      PROVE  ChannelsTypeOK'
  BY <1>6 DEF channelVars, TypeOK, ChannelsTypeOK
<1>7. ASSUME NEW ch \in SamplerChannel, DropSendersOf(t, ch)
      PROVE  ChannelsTypeOK'
  <2>1. DropSender(ch, t) \in SamplerChannel /\ DropSender(bufferChannel, t) \in BufferChannel
    BY OwnerType DEF TypeOK, ChannelsTypeOK, SamplerChannel, BufferChannel
  <2> QED
    BY <1>7, <2>1 DEF DropSendersOf, TypeOK, ChannelsTypeOK
<1>8. CASE PublishThreadInfo(t)
  BY <1>5, <1>6, <1>8 DEF PublishThreadInfo, TypeOK, RegistrarTypeOK
<1>9. CASE SendRegisterSampler(t)
  BY <1>4, <1>5, <1>6, <1>9, SamplerMessages
     DEF SendRegisterSampler, TypeOK, ChannelsTypeOK, RegistrarTypeOK
<1>10. CASE AddMarker(t)
  <2>1. added[t] + 1 \in Nat
    BY DEF TypeOK, RegistrarTypeOK
  <2>2. CASE bufferChannel.receiver
    <3>1. Put(bufferChannel, [type |-> "AddMarker", tid |-> t, marker |-> added[t] + 1])
            \in BufferChannel
      BY <1>3, <2>1, BufferMessages
    <3>2. added' \in [Threads -> Nat]
      BY <1>10, <2>1, <2>2 DEF AddMarker, TypeOK, RegistrarTypeOK
    <3> QED
      BY <1>10, <2>2, <3>1, <3>2 DEF AddMarker, TypeOK, ChannelsTypeOK, RegistrarTypeOK
  <2>3. CASE ~bufferChannel.receiver
    <3>1. Put(samplerChannel, UnregisterMsg(t)) \in SamplerChannel
      BY <1>4, SamplerMessages
    <3> QED
      BY <1>5, <1>6, <1>7, <1>10, <2>3, <3>1 DEF AddMarker, TypeOK, RegistrarTypeOK
  <2> QED BY <2>2, <2>3
<1>11. CASE Unregister(t)
  <2>1. Put(samplerChannel, UnregisterMsg(t)) \in SamplerChannel
    BY <1>4, SamplerMessages
  <2>2. samplerChannel \in SamplerChannel
    BY DEF TypeOK, ChannelsTypeOK
  <2> QED
    BY <1>5, <1>7, <1>11, <2>1, <2>2 DEF Unregister, TypeOK, RegistrarTypeOK
<1>12. ASSUME NEW c \in Controls, ControlSampler(t, c)
       PROVE  ChannelsTypeOK' /\ RegistrarTypeOK'
  BY <1>4, <1>12, SamplerMessages
     DEF ControlSampler, SamplerControls, TypeOK, ChannelsTypeOK, RegistrarTypeOK
<1>13. CASE ControlBuffer(t)
  BY <1>3, <1>13, BufferMessages
     DEF ControlBuffer, TypeOK, ChannelsTypeOK, RegistrarTypeOK
<1> QED
  BY <1>8, <1>9, <1>10, <1>11, <1>12, <1>13 DEF ThreadStep

\* The calls of the core keep the types.
LEMMA CoreTypeStep ==
  ASSUME TypeOK, CoreStep, UNCHANGED <<bufferVars, samplerVars>>
  PROVE  TypeOK'
<1>1. BufferTypeOK' /\ SamplerTypeOK'
  BY DEF TypeOK, BufferTypeOK, SamplerTypeOK, bufferVars, samplerVars
<1>2. atCall' \in Given
  BY DEF CoreStep, Given, TypeOK, BufferTypeOK, RegistrarTypeOK
<1>3. SUFFICES ChannelsTypeOK' /\ RegistrarTypeOK' /\ CoreTypeOK'
  BY <1>1, <1>2 DEF TypeOK
<1>4. ASSUME UNCHANGED registrarVars
      PROVE  RegistrarTypeOK'
  BY <1>4 DEF registrarVars, TypeOK, RegistrarTypeOK
<1>5. ASSUME UNCHANGED channelVars
      PROVE  ChannelsTypeOK'
  BY <1>5 DEF channelVars, TypeOK, ChannelsTypeOK
<1>6. ASSUME NEW how \in {"dropped", "panicked"}, DropsCore(how)
      PROVE  ChannelsTypeOK' /\ core' \in {"dropped", "panicked"}
  <2>1. /\ DropSender(bufferChannel, "core") \in BufferChannel
        /\ DropSender(samplerChannel, "core") \in SamplerChannel
        /\ DropReceiver(serializationChannel) \in SerializationChannel
    BY OwnerType
       DEF TypeOK, ChannelsTypeOK, BufferChannel, SamplerChannel, SerializationChannel
  <2> QED BY <1>6, <2>1 DEF DropsCore, ChannelsTypeOK
<1>7. ASSUME NEW msg \in BufferMessage, msg.type \in Requests, SendRequest(msg)
      PROVE  /\ ChannelsTypeOK'
             /\ core' \in {"awaiting", "panicked"}
             /\ request' \in Requests
  <2>1. Put(bufferChannel, msg) \in BufferChannel
    BY PutType DEF TypeOK, ChannelsTypeOK, BufferChannel
  <2>2. CASE bufferChannel.receiver
    BY <1>7, <2>1, <2>2 DEF SendRequest, TypeOK, ChannelsTypeOK
  <2>3. CASE ~bufferChannel.receiver
    <3>1. DropsCore("panicked") /\ request' \in Requests
      BY <1>7, <2>3 DEF SendRequest
    <3> QED BY <1>6, <3>1 DEF DropsCore
  <2> QED BY <2>2, <2>3
<1>8. ASSUME NEW t \in Threads, GetThreadRegistrar(t)
      PROVE  ChannelsTypeOK' /\ RegistrarTypeOK' /\ CoreTypeOK'
  <2>1. registrars' \in Seq(Threads)
    BY <1>8, AppendSeq DEF GetThreadRegistrar, TypeOK, CoreTypeOK
  <2>2. /\ CloneSender(bufferChannel, t) \in BufferChannel
        /\ CloneSender(samplerChannel, t) \in SamplerChannel
    BY OwnerType DEF TypeOK, ChannelsTypeOK, BufferChannel, SamplerChannel
  <2>3. ChannelsTypeOK'
    BY <1>8, <2>2 DEF GetThreadRegistrar, TypeOK, ChannelsTypeOK
  <2>4. RegistrarTypeOK'
    BY <1>8 DEF GetThreadRegistrar, Becomes, TypeOK, RegistrarTypeOK
  <2>5. CoreTypeOK'
    BY <1>8, <2>1 DEF GetThreadRegistrar, TypeOK, CoreTypeOK
  <2> QED BY <2>3, <2>4, <2>5
<1>9. CASE CallStartSampling
  <2>1. Put(samplerChannel, [type |-> "StartSampling"]) \in SamplerChannel
    BY PutType, SamplerMessages DEF TypeOK, ChannelsTypeOK, SamplerChannel
  <2>2. /\ ChannelsTypeOK'
        /\ core' \in {"idle", "dropped", "panicked"}
    BY <1>6, <1>9, <2>1 DEF CallStartSampling, CanCall, TypeOK, ChannelsTypeOK
  <2> QED
    BY <1>4, <1>9, <2>2 DEF CallStartSampling, TypeOK, CoreTypeOK
<1>10. CASE CallGetSampleCount
  BY <1>4, <1>7, <1>10, BufferMessages
     DEF CallGetSampleCount, TypeOK, CoreTypeOK, Requests
<1>11. CASE CallWaitForOneSample
  BY <1>4, <1>7, <1>11, BufferMessages
     DEF CallWaitForOneSample, TypeOK, CoreTypeOK, Requests
<1>12. CASE CallSerialize
  BY <1>4, <1>5, <1>12 DEF CallSerialize, TypeOK, CoreTypeOK
<1>13. CASE CollectThreadInfo
  <2>1. registrars[slot] \in Threads
    BY <1>13 DEF CollectThreadInfo, TypeOK, CoreTypeOK
  <2>2. infos' \in Seq(Threads)
    BY <1>13, <2>1, AppendSeq DEF CollectThreadInfo, TypeOK, CoreTypeOK
  <2> QED
    BY <1>4, <1>5, <1>13, <2>2 DEF CollectThreadInfo, TypeOK, CoreTypeOK
<1>14. CASE SendSerialize
  <2>1. [type |-> "SerializeBuffer", thread_infos |-> infos] \in BufferMessage
    BY BufferMessages DEF TypeOK, CoreTypeOK
  <2> QED
    BY <1>4, <1>7, <1>14, <2>1 DEF SendSerialize, TypeOK, CoreTypeOK, Requests
<1>15. CASE ReceiveResponse
  <2>1. CASE /\ serializationChannel.queue # <<>>
             /\ Head(serializationChannel.queue).type = ResponseTo[request]
    <3>1. /\ Take(serializationChannel) \in SerializationChannel
          /\ Head(serializationChannel.queue) \in SerializationMessage
      BY <2>1, TakeType DEF TypeOK, ChannelsTypeOK, SerializationChannel
    <3>2. profile' \in Seq(ThreadProfile)
      <4>1. CASE request = "SerializeBuffer"
        BY <1>15, <2>1, <3>1, <4>1, SerializationMessageFields
           DEF ReceiveResponse, ResponseTo
      <4>2. CASE request # "SerializeBuffer"
        BY <1>15, <2>1, <4>2 DEF ReceiveResponse, TypeOK, CoreTypeOK
      <4> QED BY <4>1, <4>2
    <3>3. answered' \in Nat
      BY <1>15, <2>1 DEF ReceiveResponse, TypeOK, CoreTypeOK
    <3> QED
      BY <1>4, <1>15, <2>1, <3>1, <3>2, <3>3
         DEF ReceiveResponse, TypeOK, ChannelsTypeOK, CoreTypeOK
  <2>2. CASE ~(/\ serializationChannel.queue # <<>>
               /\ Head(serializationChannel.queue).type = ResponseTo[request])
    BY <1>4, <1>6, <1>15, <2>2 DEF ReceiveResponse, TypeOK, CoreTypeOK
  <2> QED BY <2>1, <2>2
<1>16. CASE DropCore
  BY <1>4, <1>6, <1>16 DEF DropCore, TypeOK, CoreTypeOK
<1> QED
  BY <1>8, <1>9, <1>10, <1>11, <1>12, <1>13, <1>14, <1>15, <1>16 DEF CoreStep, CoreNext

\* Every variable keeps its type, and a round stays a part of the list of
\* samplers it borrows.
THEOREM TypeCorrect == Spec => []TypeOK
<1>1. Init => TypeOK
  BY InitType
<1>2. TypeOK /\ [Next]_vars => TypeOK'
  <2> SUFFICES ASSUME TypeOK, [Next]_vars PROVE TypeOK'
      OBVIOUS
  <2>1. CASE UNCHANGED vars
    BY <2>1 DEF vars, channelVars, bufferVars, samplerVars, registrarVars, coreVars,
                TypeOK, ChannelsTypeOK, BufferTypeOK, SamplerTypeOK, RegistrarTypeOK, CoreTypeOK
  <2>2. CASE Next
    BY <2>2, BufferTypeStep, SamplerTypeStep, ThreadTypeStep, CoreTypeStep DEF Next
  <2> QED BY <2>1, <2>2
<1> QED
  BY <1>1, <1>2, PTL DEF Spec

-----------------------------------------------------------------------------
(* The fields of the channels.                                             *)

\* The types of the channels, field by field.
LEMMA ChannelTypes ==
  ASSUME TypeOK
  PROVE  /\ bufferChannel.queue \in Seq(BufferMessage)
         /\ bufferChannel.senders \subseteq Threads \cup {"core", "sampler"}
         /\ bufferChannel.receiver \in BOOLEAN
         /\ samplerChannel.queue \in Seq(SamplerMessage)
         /\ samplerChannel.senders \subseteq Threads \cup {"core"}
         /\ samplerChannel.receiver \in BOOLEAN
         /\ serializationChannel.queue \in Seq(SerializationMessage)
         /\ serializationChannel.senders \subseteq {"buffer"}
         /\ serializationChannel.receiver \in BOOLEAN
  BY DEF TypeOK, ChannelsTypeOK, BufferChannel, SamplerChannel, SerializationChannel, Channel

\* What each operation does to the three fields of a channel.
IsChannel(ch) == ch = [queue |-> ch.queue, senders |-> ch.senders, receiver |-> ch.receiver]

\* The channels are records of these three fields and no other.
LEMMA AreChannels ==
  ASSUME TypeOK
  PROVE  IsChannel(bufferChannel) /\ IsChannel(samplerChannel) /\ IsChannel(serializationChannel)
  BY DEF TypeOK, ChannelsTypeOK, BufferChannel, SamplerChannel, SerializationChannel, Channel,
         IsChannel

\* A send changes the queue and no end.
LEMMA PutFields ==
  ASSUME NEW ch, IsChannel(ch), NEW msg
  PROVE  /\ IsChannel(Put(ch, msg))
         /\ Put(ch, msg).queue = Append(ch.queue, msg)
         /\ Put(ch, msg).senders = ch.senders
         /\ Put(ch, msg).receiver = ch.receiver
  BY DEF IsChannel, Put

\* So does a receive.
LEMMA TakeFields ==
  ASSUME NEW ch, IsChannel(ch)
  PROVE  /\ Take(ch).queue = Tail(ch.queue)
         /\ Take(ch).senders = ch.senders
         /\ Take(ch).receiver = ch.receiver
  BY DEF IsChannel, Take

\* Cloning a sender changes the set of its owners.
LEMMA CloneSenderFields ==
  ASSUME NEW ch, IsChannel(ch), NEW owner
  PROVE  /\ CloneSender(ch, owner).queue = ch.queue
         /\ CloneSender(ch, owner).senders = ch.senders \cup {owner}
         /\ CloneSender(ch, owner).receiver = ch.receiver
  BY DEF IsChannel, CloneSender

\* So does dropping one.
LEMMA DropSenderFields ==
  ASSUME NEW ch, IsChannel(ch), NEW owner
  PROVE  /\ DropSender(ch, owner).queue = ch.queue
         /\ DropSender(ch, owner).senders = ch.senders \ {owner}
         /\ DropSender(ch, owner).receiver = ch.receiver
  BY DEF IsChannel, DropSender

\* Dropping the receiver empties the queue.
LEMMA DropReceiverFields ==
  ASSUME NEW ch, IsChannel(ch)
  PROVE  /\ DropReceiver(ch).queue = <<>>
         /\ DropReceiver(ch).senders = ch.senders
         /\ DropReceiver(ch).receiver = FALSE
  BY DEF IsChannel, DropReceiver

-----------------------------------------------------------------------------
(* Requests on their way to the buffer thread.                             *)

\* A message that is no request changes nothing about the requests queued; a
\* request that finds none is the only one.
LEMMA RequestsAfterPut ==
  ASSUME TypeOK, NEW msg \in BufferMessage,
         bufferChannel'.queue = Append(bufferChannel.queue, msg)
  PROVE  /\ msg.type \notin Requests /\ NoRequestQueued => NoRequestQueued'
         /\ msg.type \notin Requests /\ OneRequestQueued /\ request' = request
              => OneRequestQueued'
         /\ NoRequestQueued /\ request' = msg.type => OneRequestQueued'
<1> DEFINE q == bufferChannel.queue
           r == bufferChannel'.queue
<1>1. q \in Seq(BufferMessage)
  BY ChannelTypes
<1>2. /\ Len(q) \in Nat
      /\ DOMAIN q = 1 .. Len(q)
      /\ DOMAIN r = 1 .. Len(q) + 1
      /\ \A i \in DOMAIN q : r[i] = q[i]
      /\ r[Len(q) + 1] = msg
  BY <1>1, AppendSeq
<1> HIDE DEF q, r
<1>3. ASSUME msg.type \notin Requests, \A i \in DOMAIN q : q[i].type \notin Requests
      PROVE  \A i \in DOMAIN r : r[i].type \notin Requests
  BY <1>2, <1>3
<1>4. ASSUME msg.type \notin Requests, NEW i \in DOMAIN q,
             \A j \in DOMAIN q : q[j].type \in Requests => j = i
      PROVE  i \in DOMAIN r /\ r[i] = q[i] /\ \A j \in DOMAIN r : r[j].type \in Requests => j = i
  BY <1>2, <1>4
<1>5. ASSUME \A i \in DOMAIN q : q[i].type \notin Requests
      PROVE  /\ Len(q) + 1 \in DOMAIN r
             /\ \A j \in DOMAIN r : r[j].type \in Requests => j = Len(q) + 1
  BY <1>2, <1>5
<1> QED
  BY <1>2, <1>3, <1>4, <1>5 DEF NoRequestQueued, OneRequestQueued, IsRequest, q, r

\* The one request that is queued stays queued until it is at the head.
LEMMA RequestsAfterTake ==
  ASSUME TypeOK, bufferChannel.queue # <<>>,
         bufferChannel'.queue = Tail(bufferChannel.queue)
  PROVE  /\ NoRequestQueued => BufferMsg.type \notin Requests /\ NoRequestQueued'
         /\ OneRequestQueued /\ BufferMsg.type \in Requests
              => BufferMsg.type = request /\ NoRequestQueued'
         /\ OneRequestQueued /\ BufferMsg.type \notin Requests
              /\ request' = request /\ request \in Requests => OneRequestQueued'
<1> DEFINE q == bufferChannel.queue
           r == bufferChannel'.queue
<1>1. q \in Seq(BufferMessage)
  BY ChannelTypes
<1>2. /\ BufferMsg = q[1]
      /\ Len(q) \in Nat \ {0}
      /\ DOMAIN q = 1 .. Len(q)
      /\ DOMAIN r = 1 .. Len(q) - 1
      /\ \A i \in DOMAIN r : i + 1 \in DOMAIN q /\ r[i] = q[i + 1]
  BY <1>1, TailSeq DEF BufferMsg
<1> HIDE DEF q, r
<1>3. ASSUME \A i \in DOMAIN q : q[i].type \notin Requests
      PROVE  q[1].type \notin Requests /\ \A i \in DOMAIN r : r[i].type \notin Requests
  BY <1>2, <1>3
<1>4. ASSUME NEW i \in DOMAIN q, q[1].type \in Requests,
             \A j \in DOMAIN q : q[j].type \in Requests => j = i
      PROVE  i = 1 /\ \A j \in DOMAIN r : r[j].type \notin Requests
  BY <1>2, <1>4
<1>5. ASSUME NEW i \in DOMAIN q, q[1].type \notin Requests, q[i].type \in Requests,
             \A j \in DOMAIN q : q[j].type \in Requests => j = i
      PROVE  /\ i - 1 \in DOMAIN r /\ r[i - 1] = q[i]
             /\ \A j \in DOMAIN r : r[j].type \in Requests => j = i - 1
  BY <1>2, <1>5
<1>6. NoRequestQueued <=> \A i \in DOMAIN q : q[i].type \notin Requests
  BY DEF NoRequestQueued, IsRequest, q
<1>7. NoRequestQueued' <=> \A i \in DOMAIN r : r[i].type \notin Requests
  BY DEF NoRequestQueued, IsRequest, r
<1>8. OneRequestQueued <=>
        \E i \in DOMAIN q : /\ q[i].type = request
                            /\ \A j \in DOMAIN q : q[j].type \in Requests => j = i
  BY DEF OneRequestQueued, IsRequest, q
<1>9. OneRequestQueued' <=>
        \E i \in DOMAIN r : /\ r[i].type = request'
                            /\ \A j \in DOMAIN r : r[j].type \in Requests => j = i
  BY DEF OneRequestQueued, IsRequest, r
<1> QED
  BY <1>2, <1>3, <1>4, <1>5, <1>6, <1>7, <1>8, <1>9

-----------------------------------------------------------------------------
(* PanicInv, party by party.                                               *)

\* The buffer thread: a response is only sent to a core that awaits it, so it
\* finds its receiver, and it is the response to the request of that core.
LEMMA BufferPanicStep ==
  ASSUME PanicInv, TypeOK', BufferNext,
         UNCHANGED <<samplerVars, registrarVars, coreVars, atCall>>
  PROVE  PanicInv'
<1> USE DEF PanicInv
<1>1. /\ core' = core /\ request' = request /\ thread' = thread /\ aborted' = aborted
      /\ samplerThread' = samplerThread
  BY DEF coreVars, registrarVars, samplerVars
<1>2. ASSUME samplerChannel' = samplerChannel, bufferThread' = bufferThread,
             bufferChannel'.senders = bufferChannel.senders,
             bufferChannel'.receiver = bufferChannel.receiver,
             serializationChannel'.senders = serializationChannel.senders,
             serializationChannel'.receiver = serializationChannel.receiver
      PROVE  Endpoints' /\ StopIsControl' /\ ThreadsNeverPanic' /\ PanicOnlyAfterStop'
  BY <1>1, <1>2
     DEF Endpoints, CoreAlive, SamplerAlive, HoldsSenders, StopIsControl,
         ThreadsNeverPanic, PanicOnlyAfterStop
<1>3. ASSUME Consume, samplerChannel' = samplerChannel
      PROVE  /\ Endpoints' /\ StopIsControl' /\ ThreadsNeverPanic' /\ PanicOnlyAfterStop'
             /\ bufferChannel'.queue = Tail(bufferChannel.queue)
             /\ serializationChannel' = serializationChannel
  BY <1>2, <1>3, AreChannels, TakeFields DEF Consume
<1>4. ASSUME NEW msg, Respond(msg), samplerChannel' = samplerChannel, core = "awaiting"
      PROVE  /\ Endpoints' /\ StopIsControl' /\ ThreadsNeverPanic' /\ PanicOnlyAfterStop'
             /\ bufferChannel'.queue = Tail(bufferChannel.queue)
             /\ serializationChannel'.queue = Append(serializationChannel.queue, msg)
  <2>1. serializationChannel.receiver
    BY <1>4 DEF Endpoints, CoreAlive
  <2>2. /\ bufferChannel' = Take(bufferChannel)
        /\ serializationChannel' = Put(serializationChannel, msg)
        /\ bufferThread' = bufferThread
    BY <1>4, <2>1 DEF Respond
  <2> QED
    BY <1>2, <1>4, <2>2, AreChannels, TakeFields, PutFields
\* The answer to the request at the head of the queue.
<1>5. ASSUME NEW msg, Respond(msg), samplerChannel' = samplerChannel,
             bufferChannel.queue # <<>>, BufferMsg.type \in Requests,
             msg.type = ResponseTo[BufferMsg.type],
             isWaitingForOneSample' = isWaitingForOneSample
      PROVE  PanicInv'
  <2>1. NoRequestQueued => FALSE
    <3>1. /\ BufferMsg = bufferChannel.queue[1] /\ 1 \in DOMAIN bufferChannel.queue
      BY <1>5, ChannelTypes, TailSeq DEF BufferMsg
    <3> QED BY <1>5, <3>1 DEF NoRequestQueued, IsRequest
  <2>2. /\ core = "awaiting"
        /\ request \in Requests
        /\ OneRequestQueued
        /\ ~isWaitingForOneSample
        /\ serializationChannel.queue = <<>>
    BY <2>1 DEF Lockstep, NoRequest, RequestQueued, RequestDeferred, RequestResponded
  <2>3. /\ Endpoints' /\ StopIsControl' /\ ThreadsNeverPanic' /\ PanicOnlyAfterStop'
        /\ bufferChannel'.queue = Tail(bufferChannel.queue)
        /\ serializationChannel'.queue = Append(serializationChannel.queue, msg)
    BY <1>4, <1>5, <2>2
  <2>4. BufferMsg.type = request /\ NoRequestQueued'
    BY <1>5, <2>2, <2>3, RequestsAfterTake
  <2>5. Len(serializationChannel'.queue) = 1 /\ serializationChannel'.queue[1] = msg
    BY <2>2, <2>3
  <2>6. RequestResponded'
    BY <1>1, <1>5, <2>2, <2>4, <2>5 DEF RequestResponded
  <2>7. Lockstep'
    BY <1>1, <2>2, <2>6 DEF Lockstep
  <2> QED BY <2>3, <2>7
\* A message that is no request, and is not answered.
<1>6. ASSUME Consume, samplerChannel' = samplerChannel, bufferChannel.queue # <<>>,
             BufferMsg.type \notin Requests, isWaitingForOneSample' = isWaitingForOneSample
      PROVE  PanicInv'
  <2>1. /\ NoRequestQueued => NoRequestQueued'
        /\ OneRequestQueued /\ request \in Requests => OneRequestQueued'
    BY <1>1, <1>3, <1>6, RequestsAfterTake
  <2>2. Lockstep'
    BY <1>1, <1>3, <1>6, <2>1
       DEF Lockstep, NoRequest, RequestQueued, RequestDeferred, RequestResponded
  <2> QED BY <1>3, <1>6, <2>2
<1>7. CASE StoreMarker
  BY <1>6, <1>7 DEF StoreMarker, BufferReceives, BufferMsg, Requests
<1>8. CASE StoreSample
  <2>1. CASE ~isWaitingForOneSample
    <3>1. isWaitingForOneSample' = isWaitingForOneSample
      BY <1>8, <2>1 DEF StoreSample, TypeOK, BufferTypeOK
    <3> QED
      BY <1>6, <1>8, <2>1, <3>1 DEF StoreSample, BufferReceives, BufferMsg, Requests
  <2>2. CASE isWaitingForOneSample
    <3>1. /\ core = "awaiting"
          /\ request = "WaitingForOneSample"
          /\ NoRequestQueued
          /\ serializationChannel.queue = <<>>
      BY <2>2 DEF Lockstep, NoRequest, RequestQueued, RequestDeferred, RequestResponded
    <3>2. /\ Endpoints' /\ StopIsControl' /\ ThreadsNeverPanic' /\ PanicOnlyAfterStop'
          /\ bufferChannel'.queue = Tail(bufferChannel.queue)
          /\ serializationChannel'.queue =
               Append(serializationChannel.queue, [type |-> "OneSampleReceived"])
      BY <1>4, <1>8, <2>2, <3>1 DEF StoreSample
    <3>3. NoRequestQueued'
      BY <1>8, <3>1, <3>2, RequestsAfterTake DEF StoreSample, BufferReceives
    <3>4. /\ Len(serializationChannel'.queue) = 1
          /\ serializationChannel'.queue[1] = [type |-> "OneSampleReceived"]
      BY <3>1, <3>2
    <3>5. RequestResponded'
      BY <1>1, <1>8, <3>1, <3>3, <3>4 DEF RequestResponded, StoreSample, ResponseTo
    <3>6. Lockstep'
      BY <1>1, <3>1, <3>5 DEF Lockstep, Requests
    <3> QED BY <3>2, <3>6
  <2> QED BY <2>1, <2>2
<1>9. CASE ClearExpiredMarkers
  BY <1>6, <1>9 DEF ClearExpiredMarkers, BufferReceives, BufferMsg, Requests
<1>10. CASE SerializeBuffer
  BY <1>5, <1>10 DEF SerializeBuffer, BufferReceives, BufferMsg, Requests, ResponseTo
<1>11. CASE AnswerSampleCount
  BY <1>5, <1>11 DEF AnswerSampleCount, BufferReceives, BufferMsg, Requests, ResponseTo
<1>12. CASE NoteWait
  <2>1. /\ bufferChannel.queue # <<>>
        /\ BufferMsg.type = "WaitingForOneSample"
        /\ isWaitingForOneSample'
        /\ samplerChannel' = samplerChannel
        /\ Consume
    BY <1>12 DEF NoteWait, BufferReceives, BufferMsg
  <2>2. NoRequestQueued => FALSE
    <3>1. /\ BufferMsg = bufferChannel.queue[1] /\ 1 \in DOMAIN bufferChannel.queue
      BY <2>1, ChannelTypes, TailSeq DEF BufferMsg
    <3> QED BY <2>1, <3>1 DEF NoRequestQueued, IsRequest, Requests
  <2>3. /\ core = "awaiting"
        /\ request \in Requests
        /\ OneRequestQueued
        /\ serializationChannel.queue = <<>>
    BY <2>2 DEF Lockstep, NoRequest, RequestQueued, RequestDeferred, RequestResponded
  <2>4. request = "WaitingForOneSample" /\ NoRequestQueued'
    BY <1>3, <2>1, <2>3, RequestsAfterTake DEF Requests
  <2>5. RequestDeferred'
    BY <1>1, <1>3, <2>1, <2>3, <2>4 DEF RequestDeferred
  <2>6. Lockstep'
    BY <1>1, <2>3, <2>5 DEF Lockstep
  <2> QED BY <1>3, <2>1, <2>6
<1>13. CASE BufferExits
  <2>1. /\ bufferChannel.queue = <<>> /\ bufferChannel.senders = {}
        /\ bufferThread' = "exited"
        /\ bufferChannel' = DropReceiver(bufferChannel)
        /\ serializationChannel' = DropSender(serializationChannel, "buffer")
        /\ samplerChannel' = samplerChannel
        /\ isWaitingForOneSample' = isWaitingForOneSample
    BY <1>13 DEF BufferExits, Disconnected
  <2>2. /\ bufferChannel'.queue = <<>> /\ bufferChannel'.senders = {}
        /\ bufferChannel'.receiver = FALSE
        /\ serializationChannel'.queue = serializationChannel.queue
        /\ serializationChannel'.senders = serializationChannel.senders \ {"buffer"}
        /\ serializationChannel'.receiver = serializationChannel.receiver
    BY <2>1, AreChannels, DropReceiverFields, DropSenderFields
  <2>3. core # "awaiting"
    BY <2>1 DEF Endpoints, CoreAlive
  <2>4. Lockstep'
    BY <1>1, <2>1, <2>2, <2>3 DEF Lockstep, NoRequest, NoRequestQueued
  <2>5. Endpoints'
    BY <1>1, <2>1, <2>2 DEF Endpoints, CoreAlive, SamplerAlive, HoldsSenders
  <2>6. StopIsControl' /\ ThreadsNeverPanic' /\ PanicOnlyAfterStop'
    BY <1>1, <2>1 DEF StopIsControl, ThreadsNeverPanic, PanicOnlyAfterStop
  <2> QED BY <2>4, <2>5, <2>6
<1> QED
  BY <1>7, <1>8, <1>9, <1>10, <1>11, <1>12, <1>13 DEF BufferNext

\* A step that sends at most a marker, a sample or a control message to the buffer.
LEMMA LockstepKept ==
  ASSUME TypeOK, Lockstep, core' = core, request' = request,
         isWaitingForOneSample' = isWaitingForOneSample,
         serializationChannel'.queue = serializationChannel.queue,
         \/ bufferChannel'.queue = bufferChannel.queue
         \/ \E msg \in BufferMessage :
              /\ msg.type \notin Requests
              /\ bufferChannel'.queue = Append(bufferChannel.queue, msg)
  PROVE  Lockstep'
<1>1. /\ NoRequestQueued => NoRequestQueued'
      /\ OneRequestQueued => OneRequestQueued'
  <2>1. CASE bufferChannel'.queue = bufferChannel.queue
    BY <2>1 DEF NoRequestQueued, OneRequestQueued, IsRequest
  <2>2. ASSUME NEW msg \in BufferMessage, msg.type \notin Requests,
               bufferChannel'.queue = Append(bufferChannel.queue, msg)
        PROVE  /\ NoRequestQueued => NoRequestQueued'
               /\ OneRequestQueued => OneRequestQueued'
    BY <2>2, RequestsAfterPut
  <2> QED BY <2>1, <2>2
<1> QED
  BY <1>1 DEF Lockstep, NoRequest, RequestQueued, RequestDeferred, RequestResponded

\* A message that is taken was sent; StopSampling is sent only as a control.
LEMMA StopIsControlAfterTake ==
  ASSUME TypeOK, StopIsControl, samplerChannel.queue # <<>>,
         samplerChannel'.queue = Tail(samplerChannel.queue)
  PROVE  /\ StopIsControl'
         /\ SamplerMsg.type = "StopSampling" => "StopSampling" \in Controls
  BY ChannelTypes, TailSeq DEF StopIsControl, SamplerMsg

\* A message that is sent is no StopSampling, or StopSampling is a control.
LEMMA StopIsControlAfterPut ==
  ASSUME TypeOK, StopIsControl, NEW msg \in SamplerMessage,
         samplerChannel'.queue = Append(samplerChannel.queue, msg),
         msg.type = "StopSampling" => "StopSampling" \in Controls
  PROVE  StopIsControl'
<1>1. \A i \in DOMAIN samplerChannel'.queue :
        \/ i \in DOMAIN samplerChannel.queue
              /\ samplerChannel'.queue[i] = samplerChannel.queue[i]
        \/ samplerChannel'.queue[i] = msg
  BY ChannelTypes, AppendSeq
<1> QED
  BY <1>1 DEF StopIsControl

\* The sampler thread: it owns a sender of the buffer channel as long as it
\* lives, so the buffer thread is there to take its samples.
LEMMA SamplerPanicStep ==
  ASSUME PanicInv, TypeOK', SamplerStep,
         UNCHANGED <<bufferVars, registrarVars, coreVars, atCall>>
  PROVE  PanicInv'
<1> USE DEF PanicInv
<1>1. /\ core' = core /\ request' = request /\ thread' = thread /\ aborted' = aborted
      /\ bufferThread' = bufferThread /\ isWaitingForOneSample' = isWaitingForOneSample
  BY DEF coreVars, registrarVars, bufferVars
<1>2. ASSUME SamplerAlive, SamplerAlive',
             bufferChannel'.senders = bufferChannel.senders,
             bufferChannel'.receiver = bufferChannel.receiver,
             samplerChannel'.senders = samplerChannel.senders,
             samplerChannel'.receiver = samplerChannel.receiver,
             serializationChannel' = serializationChannel
      PROVE  Endpoints' /\ ThreadsNeverPanic' /\ PanicOnlyAfterStop'
  BY <1>1, <1>2
     DEF Endpoints, CoreAlive, SamplerAlive, HoldsSenders, ThreadsNeverPanic, PanicOnlyAfterStop
<1>3. ASSUME Continue, samplerThread = "receiving", samplerChannel.queue # <<>>
      PROVE  PanicInv'
  <2>1. /\ samplerChannel' = Take(samplerChannel)
        /\ bufferChannel' = bufferChannel
        /\ serializationChannel' = serializationChannel
        /\ SamplerAlive /\ SamplerAlive'
    BY <1>3 DEF Continue, SamplerAlive
  <2>2. /\ samplerChannel'.queue = Tail(samplerChannel.queue)
        /\ samplerChannel'.senders = samplerChannel.senders
        /\ samplerChannel'.receiver = samplerChannel.receiver
    BY <2>1, AreChannels, TakeFields
  <2>3. StopIsControl'
    BY <1>3, <2>2, StopIsControlAfterTake
  <2>4. Lockstep'
    BY <1>1, <2>1, LockstepKept
  <2> QED BY <1>2, <2>1, <2>2, <2>3, <2>4
<1>4. ASSUME NEW how \in {"returned", "stopped"}, SamplerEnds(how),
             how = "returned" => samplerChannel.senders = {},
             how = "stopped" => "StopSampling" \in Controls
      PROVE  PanicInv'
  <2>1. /\ samplerThread' = how
        /\ samplerChannel'.queue = <<>>
        /\ samplerChannel'.senders = samplerChannel.senders
        /\ samplerChannel'.receiver = FALSE
        /\ bufferChannel'.queue = bufferChannel.queue
        /\ bufferChannel'.senders = bufferChannel.senders \ {"sampler"}
        /\ bufferChannel'.receiver = bufferChannel.receiver
        /\ serializationChannel' = serializationChannel
    BY <1>4, AreChannels, DropReceiverFields, DropSenderFields DEF SamplerEnds
  <2>2. Endpoints'
    BY <1>1, <1>4, <2>1, ThreadsAreNotOwners
       DEF Endpoints, CoreAlive, SamplerAlive, HoldsSenders
  <2>3. StopIsControl' /\ ThreadsNeverPanic' /\ PanicOnlyAfterStop'
    BY <1>1, <2>1 DEF StopIsControl, ThreadsNeverPanic, PanicOnlyAfterStop
  <2>4. Lockstep'
    BY <1>1, <2>1, LockstepKept
  <2> QED BY <2>2, <2>3, <2>4
<1>5. ASSUME UNCHANGED channelVars, SamplerAlive, SamplerAlive'
      PROVE  PanicInv'
  <2>1. /\ bufferChannel' = bufferChannel
        /\ samplerChannel' = samplerChannel
        /\ serializationChannel' = serializationChannel
    BY <1>5 DEF channelVars
  <2> QED
    BY <1>1, <1>2, <1>5, <2>1, LockstepKept DEF StopIsControl
<1>6. CASE RegisterSampler
  BY <1>3, <1>6 DEF RegisterSampler, SamplerReceives
<1>7. CASE UnregisterSampler
  BY <1>3, <1>7 DEF UnregisterSampler, SamplerReceives
<1>8. CASE StartSampling
  BY <1>3, <1>8 DEF StartSampling, SamplerReceives
<1>9. CASE PauseSampling
  BY <1>3, <1>9 DEF PauseSampling, SamplerReceives
<1>10. CASE StopSampling
  <2>1. "StopSampling" \in Controls
    BY <1>10, ChannelTypes, TailSeq DEF StopSampling, SamplerReceives, SamplerMsg, StopIsControl
  <2> QED BY <1>4, <1>10, <2>1 DEF StopSampling
<1>11. CASE SamplerReturns
  BY <1>4, <1>11 DEF SamplerReturns, Disconnected
<1>12. CASE BeginRound
  BY <1>5, <1>12 DEF BeginRound, SamplerAlive
<1>13. CASE EndRound
  BY <1>5, <1>13 DEF EndRound, SamplerAlive
<1>14. ASSUME NEW t \in Threads, TakeSample(t)
       PROVE  PanicInv'
  <2>1. bufferChannel.receiver /\ SamplerAlive
    BY <1>14 DEF TakeSample, SamplerAlive, Endpoints
  <2>2. /\ bufferChannel' = Put(bufferChannel, [type |-> "AddSample", tid |-> t])
        /\ samplerChannel' = samplerChannel
        /\ serializationChannel' = serializationChannel
        /\ SamplerAlive'
    BY <1>14, <2>1 DEF TakeSample, SamplerAlive
  <2>3. /\ bufferChannel'.queue = Append(bufferChannel.queue, [type |-> "AddSample", tid |-> t])
        /\ bufferChannel'.senders = bufferChannel.senders
        /\ bufferChannel'.receiver = bufferChannel.receiver
    BY <2>2, AreChannels, PutFields
  <2>4. Lockstep'
    <3>1. /\ [type |-> "AddSample", tid |-> t] \in BufferMessage
          /\ [type |-> "AddSample", tid |-> t].type \notin Requests
      BY BufferMessages DEF Requests
    <3> QED BY <1>1, <2>2, <2>3, <3>1, LockstepKept
  <2> QED
    BY <1>2, <2>1, <2>2, <2>3, <2>4 DEF StopIsControl
<1>15. ASSUME NEW t \in Threads, SkipSample(t)
       PROVE  PanicInv'
  BY <1>5, <1>15 DEF SkipSample, SamplerAlive
<1> QED
  BY <1>6, <1>7, <1>8, <1>9, <1>10, <1>11, <1>12, <1>13, <1>14, <1>15
     DEF SamplerStep, SamplerLoop

\* An application thread: the senders it owns keep the buffer thread there, and
\* the sampler thread unless it was stopped.
LEMMA ThreadPanicStep ==
  ASSUME PanicInv, TypeOK', NEW t \in Threads, ThreadStep(t),
         UNCHANGED <<bufferVars, samplerVars, coreVars, atCall>>
  PROVE  PanicInv'
<1> USE DEF PanicInv
<1>1. /\ core' = core /\ request' = request
      /\ bufferThread' = bufferThread /\ isWaitingForOneSample' = isWaitingForOneSample
      /\ samplerThread' = samplerThread
      /\ thread \in [Threads -> {"absent", "holding", "published", "instrumented",
                                 "finished", "panicked"}]
  BY DEF coreVars, samplerVars, bufferVars, TypeOK, RegistrarTypeOK
\* No end changes hands.
<1>2. ASSUME \A u \in Threads : HoldsSenders(u)' <=> HoldsSenders(u),
             bufferChannel'.senders = bufferChannel.senders,
             bufferChannel'.receiver = bufferChannel.receiver,
             samplerChannel'.senders = samplerChannel.senders,
             samplerChannel'.receiver = samplerChannel.receiver,
             serializationChannel' = serializationChannel
      PROVE  Endpoints' /\ ThreadsNeverPanic'
  BY <1>1, <1>2 DEF Endpoints, CoreAlive, SamplerAlive, ThreadsNeverPanic
\* The thread drops its two senders, with or without a last message.
<1>3. ASSUME NEW ch, DropSendersOf(t, ch), IsChannel(ch),
             ch.senders = samplerChannel.senders,
             ch.receiver = samplerChannel.receiver,
             \/ ch = samplerChannel
             \/ ch.queue = Append(samplerChannel.queue, UnregisterMsg(t)),
             NEW stand \in {"finished", "panicked"}, Becomes(t, stand)
      PROVE  Endpoints' /\ ThreadsNeverPanic' /\ Lockstep' /\ StopIsControl'
  <2>1. /\ samplerChannel'.queue = ch.queue
        /\ samplerChannel'.senders = samplerChannel.senders \ {t}
        /\ samplerChannel'.receiver = samplerChannel.receiver
        /\ bufferChannel'.queue = bufferChannel.queue
        /\ bufferChannel'.senders = bufferChannel.senders \ {t}
        /\ bufferChannel'.receiver = bufferChannel.receiver
        /\ serializationChannel' = serializationChannel
    BY <1>3, AreChannels, DropSenderFields DEF DropSendersOf
  <2>2. /\ ~HoldsSenders(t)'
        /\ \A u \in Threads \ {t} : HoldsSenders(u)' <=> HoldsSenders(u)
    BY <1>1, <1>3 DEF HoldsSenders, Becomes
  <2>3. t # "core" /\ t # "sampler"
    BY ThreadsAreNotOwners
  <2>4. Endpoints' /\ ThreadsNeverPanic'
    BY <1>1, <2>1, <2>2, <2>3 DEF Endpoints, CoreAlive, SamplerAlive, ThreadsNeverPanic
  <2>5. Lockstep'
    BY <1>1, <2>1, LockstepKept
  <2>6. StopIsControl'
    <3>1. CASE ch = samplerChannel
      BY <2>1, <3>1 DEF StopIsControl
    <3>2. CASE ch.queue = Append(samplerChannel.queue, UnregisterMsg(t))
      <4>1. UnregisterMsg(t) \in SamplerMessage /\ UnregisterMsg(t).type # "StopSampling"
        BY SamplerMessages DEF UnregisterMsg
      <4> QED BY <2>1, <3>2, <4>1, StopIsControlAfterPut
    <3> QED BY <1>3, <3>1, <3>2
  <2> QED BY <2>4, <2>5, <2>6
<1>4. ASSUME UNCHANGED channelVars,
             \A u \in Threads : HoldsSenders(u)' <=> HoldsSenders(u)
      PROVE  Endpoints' /\ ThreadsNeverPanic' /\ Lockstep' /\ StopIsControl'
  <2>1. /\ bufferChannel' = bufferChannel
        /\ samplerChannel' = samplerChannel
        /\ serializationChannel' = serializationChannel
    BY <1>4 DEF channelVars
  <2> QED
    BY <1>1, <1>2, <1>4, <2>1, LockstepKept DEF StopIsControl
<1>5. ASSUME NEW msg \in SamplerMessage, samplerChannel' = Put(samplerChannel, msg),
             msg.type = "StopSampling" => "StopSampling" \in Controls,
             bufferChannel' = bufferChannel, serializationChannel' = serializationChannel,
             \A u \in Threads : HoldsSenders(u)' <=> HoldsSenders(u)
      PROVE  Endpoints' /\ ThreadsNeverPanic' /\ Lockstep' /\ StopIsControl'
  <2>1. /\ samplerChannel'.queue = Append(samplerChannel.queue, msg)
        /\ samplerChannel'.senders = samplerChannel.senders
        /\ samplerChannel'.receiver = samplerChannel.receiver
    BY <1>5, AreChannels, PutFields
  <2> QED
    BY <1>1, <1>2, <1>5, <2>1, LockstepKept, StopIsControlAfterPut
<1>6. ASSUME NEW msg \in BufferMessage, bufferChannel' = Put(bufferChannel, msg),
             msg.type \notin Requests,
             samplerChannel' = samplerChannel, serializationChannel' = serializationChannel,
             thread' = thread
      PROVE  Endpoints' /\ ThreadsNeverPanic' /\ Lockstep' /\ StopIsControl'
  <2>1. /\ bufferChannel'.queue = Append(bufferChannel.queue, msg)
        /\ bufferChannel'.senders = bufferChannel.senders
        /\ bufferChannel'.receiver = bufferChannel.receiver
    BY <1>6, AreChannels, PutFields
  <2> QED
    BY <1>1, <1>2, <1>6, <2>1, LockstepKept DEF StopIsControl, HoldsSenders
\* The sampler's end of a sender is there, unless the application stopped it.
<1>7. ASSUME HoldsSenders(t), "StopSampling" \notin Controls
      PROVE  bufferChannel.receiver /\ samplerChannel.receiver
  BY <1>7 DEF Endpoints, ThreadsNeverPanic, SamplerAlive, TypeOK, SamplerTypeOK
<1>8. HoldsSenders(t) => bufferChannel.receiver
  BY DEF Endpoints
<1>9. SUFFICES /\ Endpoints' /\ ThreadsNeverPanic' /\ Lockstep' /\ StopIsControl'
               /\ "StopSampling" \notin Controls =>
                    (aborted' = aborted /\ thread'[t] # "panicked")
  <2>1. "StopSampling" \notin Controls => \A u \in Threads : thread'[u] # "panicked"
    <3>1. \A u \in Threads \ {t} : thread'[u] = thread[u]
      BY <1>1 DEF ThreadStep, PublishThreadInfo, SendRegisterSampler, AddMarker, Unregister,
                  ControlSampler, ControlBuffer, Becomes
    <3> QED BY <1>9, <3>1 DEF PanicOnlyAfterStop
  <2> QED
    BY <1>1, <1>9, <2>1 DEF PanicOnlyAfterStop
<1>10. CASE PublishThreadInfo(t)
  <2>1. \A u \in Threads : HoldsSenders(u)' <=> HoldsSenders(u)
    BY <1>1, <1>10 DEF PublishThreadInfo, Becomes, HoldsSenders
  <2> QED
    BY <1>1, <1>4, <1>10, <2>1 DEF PublishThreadInfo, Becomes
<1>11. CASE SendRegisterSampler(t)
  <2>1. CASE samplerChannel.receiver
    <3>1. \A u \in Threads : HoldsSenders(u)' <=> HoldsSenders(u)
      BY <1>1, <1>11, <2>1 DEF SendRegisterSampler, Becomes, HoldsSenders
    <3>2. /\ [type |-> "RegisterSampler", tid |-> t] \in SamplerMessage
          /\ [type |-> "RegisterSampler", tid |-> t].type # "StopSampling"
      BY SamplerMessages
    <3> QED
      BY <1>1, <1>5, <1>11, <2>1, <3>1, <3>2 DEF SendRegisterSampler, Becomes
  <2>2. CASE ~samplerChannel.receiver
    <3>1. HoldsSenders(t)
      BY <1>11 DEF SendRegisterSampler, HoldsSenders
    <3>2. UNCHANGED channelVars /\ thread' = thread
      BY <1>11, <2>2 DEF SendRegisterSampler
    <3> QED
      BY <1>4, <1>7, <2>2, <3>1, <3>2 DEF HoldsSenders
  <2> QED BY <2>1, <2>2
<1>12. CASE AddMarker(t)
  <2>1. bufferChannel.receiver
    BY <1>8, <1>12 DEF AddMarker, HoldsSenders
  <2>2. LET msg == [type |-> "AddMarker", tid |-> t, marker |-> added[t] + 1] IN
          /\ msg \in BufferMessage
          /\ msg.type \notin Requests
    BY BufferMessages DEF Requests, TypeOK, RegistrarTypeOK
  <2>3. thread' = thread /\ aborted' = aborted /\ thread[t] = "instrumented"
    BY <1>12, <2>1 DEF AddMarker
  <2> QED
    BY <1>6, <1>12, <2>1, <2>2, <2>3 DEF AddMarker
<1>13. CASE Unregister(t)
  <2>1. HoldsSenders(t) /\ aborted' = aborted
    BY <1>13 DEF Unregister, HoldsSenders
  <2>2. CASE samplerChannel.receiver
    <3>1. DropSendersOf(t, Put(samplerChannel, UnregisterMsg(t))) /\ Becomes(t, "finished")
      BY <1>13, <2>2 DEF Unregister
    <3>2. LET ch == Put(samplerChannel, UnregisterMsg(t)) IN
            /\ IsChannel(ch)
            /\ ch.senders = samplerChannel.senders
            /\ ch.receiver = samplerChannel.receiver
            /\ ch.queue = Append(samplerChannel.queue, UnregisterMsg(t))
      BY AreChannels, PutFields
    <3>3. thread'[t] # "panicked"
      BY <1>1, <3>1 DEF Becomes
    <3> QED
      BY <1>3, <2>1, <3>1, <3>2, <3>3
  <2>3. CASE ~samplerChannel.receiver
    <3>1. DropSendersOf(t, samplerChannel) /\ Becomes(t, "panicked")
      BY <1>13, <2>3 DEF Unregister
    <3> QED
      BY <1>3, <1>7, <2>1, <2>3, <3>1, AreChannels
  <2> QED BY <2>2, <2>3
<1>14. ASSUME NEW c \in Controls, ControlSampler(t, c)
       PROVE  /\ Endpoints' /\ ThreadsNeverPanic' /\ Lockstep' /\ StopIsControl'
              /\ aborted' = aborted /\ thread'[t] # "panicked"
  <2>1. [type |-> c] \in SamplerMessage
    BY <1>14, SamplerMessages DEF ControlSampler, SamplerControls
  <2>2. /\ samplerChannel' = Put(samplerChannel, [type |-> c])
        /\ bufferChannel' = bufferChannel /\ serializationChannel' = serializationChannel
        /\ thread' = thread /\ aborted' = aborted /\ thread[t] = "holding"
    BY <1>14 DEF ControlSampler
  <2> QED
    BY <1>5, <2>1, <2>2 DEF HoldsSenders
<1>15. CASE ControlBuffer(t)
  <2>1. /\ [type |-> "ClearExpiredMarkers"] \in BufferMessage
        /\ [type |-> "ClearExpiredMarkers"].type \notin Requests
    BY BufferMessages DEF Requests
  <2> QED
    BY <1>6, <1>15, <2>1 DEF ControlBuffer
<1> QED
  BY <1>10, <1>11, <1>12, <1>13, <1>14, <1>15 DEF ThreadStep

\* The core: the same, and the response it receives is the one it awaits.
LEMMA CorePanicStep ==
  ASSUME PanicInv, TypeOK', CoreStep, UNCHANGED <<bufferVars, samplerVars>>
  PROVE  PanicInv'
<1> USE DEF PanicInv
<1>1. /\ bufferThread' = bufferThread /\ isWaitingForOneSample' = isWaitingForOneSample
      /\ samplerThread' = samplerThread
  BY DEF samplerVars, bufferVars
<1>2. ThreadsNeverPanic'
  BY <1>1 DEF ThreadsNeverPanic
\* The core gives up its ends while nothing is under way.
<1>3. ASSUME DropsCore("dropped") \/ (DropsCore("panicked") /\ "StopSampling" \in Controls),
             CoreAlive, core # "awaiting", UNCHANGED registrarVars
      PROVE  PanicInv'
  <2>1. /\ ~CoreAlive' /\ core' # "awaiting"
        /\ "StopSampling" \notin Controls => core' # "panicked"
        /\ thread' = thread /\ aborted' = aborted
        /\ bufferChannel' = DropSender(bufferChannel, "core")
        /\ samplerChannel' = DropSender(samplerChannel, "core")
        /\ serializationChannel' = DropReceiver(serializationChannel)
    BY <1>3, Zenon DEF DropsCore, CoreAlive, registrarVars
  <2>2. /\ bufferChannel'.queue = bufferChannel.queue
        /\ bufferChannel'.senders = bufferChannel.senders \ {"core"}
        /\ bufferChannel'.receiver = bufferChannel.receiver
        /\ samplerChannel'.queue = samplerChannel.queue
        /\ samplerChannel'.senders = samplerChannel.senders \ {"core"}
        /\ samplerChannel'.receiver = samplerChannel.receiver
        /\ serializationChannel'.queue = <<>>
        /\ serializationChannel'.senders = serializationChannel.senders
        /\ serializationChannel'.receiver = FALSE
    BY <2>1, AreChannels, DropSenderFields, DropReceiverFields
  <2>3. Endpoints'
    BY <1>1, <2>1, <2>2, ThreadsAreNotOwners DEF Endpoints, SamplerAlive, HoldsSenders
  <2>4. Lockstep'
    BY <1>1, <1>3, <2>1, <2>2 DEF Lockstep, NoRequest, NoRequestQueued, IsRequest
  <2>5. StopIsControl' /\ PanicOnlyAfterStop'
    BY <1>1, <2>1, <2>2 DEF StopIsControl, PanicOnlyAfterStop
  <2> QED BY <1>2, <2>3, <2>4, <2>5
\* No end changes hands, and the core goes on.
<1>4. ASSUME CoreAlive, CoreAlive', UNCHANGED registrarVars,
             bufferChannel'.senders = bufferChannel.senders,
             bufferChannel'.receiver = bufferChannel.receiver,
             samplerChannel'.senders = samplerChannel.senders,
             samplerChannel'.receiver = samplerChannel.receiver,
             serializationChannel'.senders = serializationChannel.senders,
             serializationChannel'.receiver = serializationChannel.receiver
      PROVE  Endpoints' /\ PanicOnlyAfterStop'
  BY <1>1, <1>4
     DEF Endpoints, CoreAlive, SamplerAlive, HoldsSenders, PanicOnlyAfterStop, registrarVars
<1>5. ASSUME NEW msg \in BufferMessage, msg.type \in Requests, SendRequest(msg),
             core \in {"idle", "collecting"}, UNCHANGED registrarVars
      PROVE  PanicInv'
  <2>1. bufferChannel.receiver
    BY <1>5 DEF Endpoints, CoreAlive
  <2>2. /\ core' = "awaiting" /\ request' = msg.type
        /\ bufferChannel' = Put(bufferChannel, msg)
        /\ samplerChannel' = samplerChannel
        /\ serializationChannel' = serializationChannel
    BY <1>5, <2>1 DEF SendRequest
  <2>3. /\ bufferChannel'.queue = Append(bufferChannel.queue, msg)
        /\ bufferChannel'.senders = bufferChannel.senders
        /\ bufferChannel'.receiver = bufferChannel.receiver
    BY <2>2, AreChannels, PutFields
  <2>4. NoRequest
    BY <1>5 DEF Lockstep
  <2>5. OneRequestQueued'
    BY <2>2, <2>3, <2>4, RequestsAfterPut DEF NoRequest
  <2>6. Lockstep'
    BY <1>1, <1>5, <2>2, <2>4, <2>5 DEF Lockstep, RequestQueued, NoRequest
  <2> QED
    BY <1>2, <1>4, <1>5, <2>2, <2>3, <2>6 DEF CoreAlive, StopIsControl
\* The core goes on without the channels.
<1>6. ASSUME UNCHANGED <<channelVars, registrarVars, request>>,
             core \in {"idle", "collecting"}, core' \in {"idle", "collecting"}
      PROVE  PanicInv'
  <2>1. /\ bufferChannel' = bufferChannel
        /\ samplerChannel' = samplerChannel
        /\ serializationChannel' = serializationChannel
    BY <1>6 DEF channelVars
  <2>2. Lockstep'
    BY <1>1, <1>6, <2>1 DEF Lockstep, NoRequest, NoRequestQueued, IsRequest
  <2> QED
    BY <1>2, <1>4, <1>6, <2>1, <2>2 DEF CoreAlive, StopIsControl
<1>7. ASSUME NEW t \in Threads, GetThreadRegistrar(t)
      PROVE  PanicInv'
  <2>1. /\ core = "idle" /\ core' = core /\ request' = request
        /\ thread' = [thread EXCEPT ![t] = "holding"] /\ aborted' = aborted
        /\ bufferChannel' = CloneSender(bufferChannel, t)
        /\ samplerChannel' = CloneSender(samplerChannel, t)
        /\ serializationChannel' = serializationChannel
    BY <1>7 DEF GetThreadRegistrar, Becomes
  <2>2. /\ bufferChannel'.queue = bufferChannel.queue
        /\ bufferChannel'.senders = bufferChannel.senders \cup {t}
        /\ bufferChannel'.receiver = bufferChannel.receiver
        /\ samplerChannel'.queue = samplerChannel.queue
        /\ samplerChannel'.senders = samplerChannel.senders \cup {t}
        /\ samplerChannel'.receiver = samplerChannel.receiver
    BY <2>1, AreChannels, CloneSenderFields
  <2>3. thread'[t] = "holding" /\ \A u \in Threads \ {t} : thread'[u] = thread[u]
    BY <2>1 DEF TypeOK, RegistrarTypeOK
  <2>4. HoldsSenders(t)' /\ \A u \in Threads \ {t} : HoldsSenders(u)' <=> HoldsSenders(u)
    BY <2>3 DEF HoldsSenders
  <2>5. t # "core" /\ t # "sampler" /\ bufferThread = "running" /\ samplerThread # "returned"
    BY <2>1, ThreadsAreNotOwners DEF Endpoints, CoreAlive
  <2>6. Endpoints'
    BY <1>1, <2>1, <2>2, <2>4, <2>5 DEF Endpoints, CoreAlive, SamplerAlive
  <2>7. PanicOnlyAfterStop'
    BY <1>1, <2>1, <2>3 DEF PanicOnlyAfterStop
  <2>8. Lockstep'
    BY <1>1, <2>1, <2>2, LockstepKept
  <2> QED BY <1>2, <2>2, <2>6, <2>7, <2>8 DEF StopIsControl
<1>8. CASE CallStartSampling
  <2>1. CASE samplerChannel.receiver
    <3>1. /\ core = "idle" /\ core' = core /\ request' = request /\ UNCHANGED registrarVars
          /\ samplerChannel' = Put(samplerChannel, [type |-> "StartSampling"])
          /\ bufferChannel' = bufferChannel
          /\ serializationChannel' = serializationChannel
      BY <1>8, <2>1 DEF CallStartSampling, CanCall
    <3>2. /\ samplerChannel'.queue = Append(samplerChannel.queue, [type |-> "StartSampling"])
          /\ samplerChannel'.senders = samplerChannel.senders
          /\ samplerChannel'.receiver = samplerChannel.receiver
      BY <3>1, AreChannels, PutFields
    <3>3. StopIsControl'
      BY <3>2, StopIsControlAfterPut, SamplerMessages
    <3>4. Lockstep'
      BY <1>1, <3>1, LockstepKept
    <3> QED
      BY <1>2, <1>4, <3>1, <3>2, <3>3, <3>4 DEF CoreAlive
  <2>2. CASE ~samplerChannel.receiver
    <3>1. DropsCore("panicked") /\ core = "idle" /\ UNCHANGED registrarVars
      BY <1>8, <2>2 DEF CallStartSampling, CanCall
    <3>2. "StopSampling" \in Controls
      BY <2>2, <3>1
         DEF Endpoints, ThreadsNeverPanic, SamplerAlive, CoreAlive, TypeOK, SamplerTypeOK
    <3> QED BY <1>3, <3>1, <3>2 DEF CoreAlive
  <2> QED BY <2>1, <2>2
<1>9. CASE CallGetSampleCount
  BY <1>5, <1>9, BufferMessages DEF CallGetSampleCount, CanCall, Requests
<1>10. CASE CallWaitForOneSample
  BY <1>5, <1>10, BufferMessages DEF CallWaitForOneSample, CanCall, Requests
<1>11. CASE CallSerialize
  BY <1>6, <1>11 DEF CallSerialize, CanCall
<1>12. CASE CollectThreadInfo
  BY <1>6, <1>12 DEF CollectThreadInfo
<1>13. CASE SendSerialize
  <2>1. [type |-> "SerializeBuffer", thread_infos |-> infos] \in BufferMessage
    BY BufferMessages DEF TypeOK, CoreTypeOK
  <2> QED
    BY <1>5, <1>13, <2>1 DEF SendSerialize, Requests
<1>14. CASE ReceiveResponse
  <2>1. core = "awaiting" /\ UNCHANGED <<registrarVars, request>>
    BY <1>14 DEF ReceiveResponse
  <2>2. serializationChannel.queue # <<>>
    BY <1>14, <2>1 DEF ReceiveResponse, Disconnected, Endpoints, CoreAlive
  <2>3. RequestResponded
    BY <2>1, <2>2 DEF Lockstep, RequestQueued, RequestDeferred
  <2>4. /\ Head(serializationChannel.queue) = serializationChannel.queue[1]
        /\ Tail(serializationChannel.queue) = <<>>
    BY <2>2, <2>3, ChannelTypes, TailSeq DEF RequestResponded
  <2>5. /\ serializationChannel' = Take(serializationChannel)
        /\ core' = "idle"
        /\ bufferChannel' = bufferChannel /\ samplerChannel' = samplerChannel
    BY <1>14, <2>2, <2>3, <2>4 DEF ReceiveResponse, RequestResponded
  <2>6. /\ serializationChannel'.queue = <<>>
        /\ serializationChannel'.senders = serializationChannel.senders
        /\ serializationChannel'.receiver = serializationChannel.receiver
    BY <2>4, <2>5, AreChannels, TakeFields
  <2>7. Lockstep'
    BY <1>1, <2>3, <2>5, <2>6
       DEF Lockstep, RequestResponded, NoRequest, NoRequestQueued, IsRequest
  <2> QED
    BY <1>2, <1>4, <2>1, <2>5, <2>6, <2>7 DEF CoreAlive, StopIsControl
<1>15. CASE DropCore
  BY <1>3, <1>15 DEF DropCore, CoreAlive
<1> QED
  BY <1>7, <1>8, <1>9, <1>10, <1>11, <1>12, <1>13, <1>14, <1>15 DEF CoreStep, CoreNext

\* It holds when MainThreadCore::new returns.
LEMMA InitPanicInv == Init => PanicInv
<1> SUFFICES ASSUME Init PROVE PanicInv
    OBVIOUS
<1> USE DEF Init, ChannelsInit, BufferInit, SamplerInit, RegistrarInit, CoreInit, Open
<1>1. TypeOK
  BY InitType
<1>2. Endpoints
  BY ThreadsAreNotOwners DEF Endpoints, CoreAlive, SamplerAlive, HoldsSenders
<1>3. Lockstep
  BY DEF Lockstep, NoRequest, NoRequestQueued
<1>4. StopIsControl /\ ThreadsNeverPanic /\ PanicOnlyAfterStop
  BY DEF StopIsControl, ThreadsNeverPanic, PanicOnlyAfterStop
<1> QED
  BY <1>1, <1>2, <1>3, <1>4 DEF PanicInv

-----------------------------------------------------------------------------
(* The theorems.                                                           *)

\* The invariant PanicInv is inductive, so it holds in every behaviour.
THEOREM PanicInvariant == Spec => []PanicInv
<1>1. Init => PanicInv
  BY InitPanicInv
<1>2. TypeOK' /\ PanicInv /\ [Next]_vars => PanicInv'
  <2> SUFFICES ASSUME TypeOK', PanicInv, [Next]_vars PROVE PanicInv'
      OBVIOUS
  <2>1. CASE UNCHANGED vars
    BY <2>1 DEF vars, channelVars, bufferVars, samplerVars, registrarVars, coreVars,
                PanicInv, Endpoints, CoreAlive, SamplerAlive, HoldsSenders,
                Lockstep, NoRequest, RequestQueued, RequestDeferred, RequestResponded,
                OneRequestQueued, NoRequestQueued, IsRequest,
                StopIsControl, ThreadsNeverPanic, PanicOnlyAfterStop
  <2>2. CASE Next
    BY <2>2, BufferPanicStep, SamplerPanicStep, ThreadPanicStep, CorePanicStep DEF Next
  <2> QED BY <2>1, <2>2
<1> QED
  BY <1>1, <1>2, TypeCorrect, PTL DEF Spec

\* Each party holds exactly the channel ends that where it stands calls for.
THEOREM EndpointsHold == Spec => []Endpoints
  BY PanicInvariant, PTL DEF PanicInv

\* The response channel carries at most the response to the request the core
\* is waiting for: no message is received out of order.
THEOREM LockstepHolds == Spec => []Lockstep
  BY PanicInvariant, PTL DEF PanicInv

\* The two profiler threads never panic, whatever the application sends.
THEOREM ThreadsNeverPanicHolds == Spec => []ThreadsNeverPanic
  BY PanicInvariant, PTL DEF PanicInv

\* Nothing at all panics unless the application sends StopSampling.
THEOREM PanicOnlyAfterStopHolds == Spec => []PanicOnlyAfterStop
  BY PanicInvariant, PTL DEF PanicInv

-----------------------------------------------------------------------------
(***************************************************************************)
(* What happens to the data, on top of PanicInv: registrations, markers    *)
(* and samples.                                                            *)
(*                                                                         *)
(* The lemmas of the first part say of each party what its steps do to the *)
(* queues and to the data; the proofs after them need no action any more.  *)
(***************************************************************************)


\* The messages in a queue.
Messages(q) == {q[i] : i \in DOMAIN q}

\* A send adds a message.
LEMMA MessagesAfterAppend ==
  ASSUME NEW S, NEW q \in Seq(S), NEW m \in S
  PROVE  Messages(Append(q, m)) = Messages(q) \cup {m}
<1>1. /\ Len(q) \in Nat
      /\ DOMAIN q = 1 .. Len(q)
      /\ DOMAIN Append(q, m) = 1 .. Len(q) + 1
      /\ \A i \in DOMAIN q : Append(q, m)[i] = q[i]
      /\ Append(q, m)[Len(q) + 1] = m
  BY AppendSeq
<1>2. ASSUME NEW r, DOMAIN r = 1 .. Len(q) + 1, \A i \in DOMAIN q : r[i] = q[i],
             r[Len(q) + 1] = m
      PROVE  Messages(r) = Messages(q) \cup {m}
  <2>1. \A x : x \in Messages(r) => x \in Messages(q) \cup {m}
    BY <1>1, <1>2 DEF Messages
  <2>2. \A x : x \in Messages(q) \cup {m} => x \in Messages(r)
    BY <1>1, <1>2 DEF Messages
  <2> QED
    BY <2>1, <2>2
<1> QED
  BY <1>1, <1>2

\* A receive takes the first one.
LEMMA MessagesAfterTail ==
  ASSUME NEW S, NEW q \in Seq(S), q # <<>>
  PROVE  Messages(q) = {Head(q)} \cup Messages(Tail(q))
<1>1. /\ Head(q) = q[1]
      /\ Len(q) \in Nat \ {0}
      /\ DOMAIN q = 1 .. Len(q)
      /\ DOMAIN Tail(q) = 1 .. Len(q) - 1
      /\ \A i \in DOMAIN Tail(q) : i + 1 \in DOMAIN q /\ Tail(q)[i] = q[i + 1]
  BY TailSeq
<1>2. ASSUME NEW r, DOMAIN r = 1 .. Len(q) - 1,
             \A i \in DOMAIN r : i + 1 \in DOMAIN q /\ r[i] = q[i + 1]
      PROVE  Messages(q) = {q[1]} \cup Messages(r)
  <2>1. ASSUME NEW i \in DOMAIN q PROVE q[i] \in {q[1]} \cup Messages(r)
    <3>1. CASE i = 1
      BY <3>1
    <3>2. CASE i # 1
      <4>1. i - 1 \in DOMAIN r /\ r[i - 1] = q[i]
        BY <1>1, <1>2, <3>2
      <4> QED
        BY <4>1 DEF Messages
    <3> QED
      BY <3>1, <3>2
  <2>2. \A x : x \in {q[1]} \cup Messages(r) => x \in Messages(q)
    BY <1>1, <1>2 DEF Messages
  <2> QED
    BY <2>1, <2>2 DEF Messages
<1> QED
  BY <1>1, <1>2

-----------------------------------------------------------------------------
(* The steps, by what they do to the data.                                 *)

\* What a message to the buffer thread does to what it stores.
Stores(m) ==
  \/ /\ m.type = "AddMarker"
     /\ markers' = Append(markers, [tid |-> m.tid, marker |-> m.marker])
     /\ UNCHANGED <<samples, expired>>
  \/ /\ m.type = "AddSample"
     /\ samples' = Append(samples, m.tid)
     /\ UNCHANGED <<markers, expired>>
  \/ /\ m.type = "ClearExpiredMarkers"
     /\ \E n \in 0 .. Len(markers) :
          /\ markers' = SubSeq(markers, n + 1, Len(markers))
          /\ expired' = expired \cup {markers[i] : i \in 1 .. n}
     /\ UNCHANGED samples
  \/ /\ m.type \in Requests
     /\ UNCHANGED <<markers, samples, expired>>

\* BufferThread::start: a message is taken and stored, or the thread ends.
LEMMA BufferData ==
  ASSUME PanicInv, PanicInv', BufferNext
  PROVE  /\ UNCHANGED samplerChannel
         /\ \/ /\ bufferChannel.queue # <<>>
               /\ bufferChannel'.queue = Tail(bufferChannel.queue)
               /\ Stores(BufferMsg)
            \/ UNCHANGED <<bufferChannel.queue, markers, samples, expired>>
<1>1. IsChannel(bufferChannel) /\ bufferThread' # "panicked"
  BY AreChannels DEF PanicInv, ThreadsNeverPanic
<1>2. ASSUME NEW msg, Respond(msg) PROVE bufferChannel'.queue = Tail(bufferChannel.queue)
  BY <1>1, <1>2, TakeFields DEF Respond
<1>3. ASSUME Consume PROVE bufferChannel'.queue = Tail(bufferChannel.queue)
  BY <1>1, <1>3, TakeFields DEF Consume
<1>4. CASE StoreMarker
  BY <1>3, <1>4 DEF StoreMarker, BufferReceives, BufferMsg, Stores
<1>5. CASE StoreSample
  BY <1>2, <1>3, <1>5 DEF StoreSample, BufferReceives, BufferMsg, Stores
<1>6. CASE ClearExpiredMarkers
  BY <1>3, <1>6 DEF ClearExpiredMarkers, BufferReceives, BufferMsg, Stores
<1>7. CASE SerializeBuffer
  BY <1>2, <1>7 DEF SerializeBuffer, BufferReceives, BufferMsg, Stores, Requests
<1>8. CASE AnswerSampleCount
  BY <1>2, <1>8 DEF AnswerSampleCount, BufferReceives, BufferMsg, Stores, Requests
<1>9. CASE NoteWait
  BY <1>3, <1>9 DEF NoteWait, BufferReceives, BufferMsg, Stores, Requests
<1>10. CASE BufferExits
  BY <1>1, <1>10, DropReceiverFields DEF BufferExits, Disconnected
<1> QED
  BY <1>4, <1>5, <1>6, <1>7, <1>8, <1>9, <1>10 DEF BufferNext

\* SamplerThread::start: a message is taken and changes the list, a sample is sent, or
\* the thread ends.
LEMMA SamplerData ==
  ASSUME PanicInv, PanicInv', SamplerStep
  PROVE  /\ \/ UNCHANGED bufferChannel.queue
            \/ \E t \in samplers :
                 bufferChannel'.queue = Append(bufferChannel.queue, [type |-> "AddSample", tid |-> t])
         /\ \/ UNCHANGED <<samplerChannel.queue, samplers>>
            \/ /\ samplerChannel.queue # <<>>
               /\ samplerChannel'.queue = Tail(samplerChannel.queue)
               /\ \/ /\ SamplerMsg.type = "RegisterSampler"
                     /\ samplers' = samplers \cup {SamplerMsg.tid}
                  \/ /\ SamplerMsg.type = "UnregisterSampler"
                     /\ samplers' = samplers \ {SamplerMsg.tid}
                  \/ /\ SamplerMsg.type \in {"StartSampling", "PauseSampling"}
                     /\ UNCHANGED samplers
            \/ samplerChannel'.queue = <<>> /\ samplers' = {} /\ ~SamplerAlive'
<1>1. /\ IsChannel(bufferChannel) /\ IsChannel(samplerChannel)
      /\ samplerThread' # "panicked"
      /\ round \subseteq samplers
  BY AreChannels DEF PanicInv, ThreadsNeverPanic, TypeOK, SamplerTypeOK
<1>2. ASSUME Continue
      PROVE  /\ samplerChannel'.queue = Tail(samplerChannel.queue)
             /\ UNCHANGED bufferChannel.queue
  BY <1>1, <1>2, TakeFields DEF Continue
<1>3. ASSUME NEW how \in {"stopped", "returned"}, SamplerEnds(how)
      PROVE  /\ samplerChannel'.queue = <<>> /\ samplers' = {} /\ ~SamplerAlive'
             /\ UNCHANGED bufferChannel.queue
  BY <1>1, <1>3, DropReceiverFields, DropSenderFields DEF SamplerEnds, SamplerAlive
<1>4. CASE RegisterSampler
  BY <1>2, <1>4 DEF RegisterSampler, SamplerReceives, SamplerMsg
<1>5. CASE UnregisterSampler
  BY <1>2, <1>5 DEF UnregisterSampler, SamplerReceives, SamplerMsg
<1>6. CASE StartSampling \/ PauseSampling
  BY <1>2, <1>6 DEF StartSampling, PauseSampling, SamplerReceives, SamplerMsg
<1>7. CASE StopSampling \/ SamplerReturns
  BY <1>3, <1>7 DEF StopSampling, SamplerReturns
<1>8. CASE BeginRound \/ EndRound
  BY <1>8 DEF BeginRound, EndRound, channelVars
<1>9. ASSUME NEW t \in Threads, TakeSample(t)
      PROVE  /\ t \in samplers
             /\ bufferChannel'.queue = Append(bufferChannel.queue, [type |-> "AddSample", tid |-> t])
             /\ UNCHANGED <<samplerChannel.queue, samplers>>
  BY <1>1, <1>9, PutFields DEF TakeSample, SamplerEnds
<1>10. ASSUME NEW t \in Threads, SkipSample(t)
       PROVE  UNCHANGED <<bufferChannel.queue, samplerChannel.queue, samplers>>
  BY <1>10 DEF SkipSample, channelVars
<1> QED
  BY <1>4, <1>5, <1>6, <1>7, <1>8, <1>9, <1>10 DEF SamplerStep, SamplerLoop

\* MainThreadCore: at most a request is sent, or sampling started, or a registrar given out.
LEMMA CoreData ==
  ASSUME PanicInv, CoreStep
  PROVE  /\ UNCHANGED <<threadInfo, added, aborted>>
         /\ \/ UNCHANGED bufferChannel.queue
            \/ \E m \in BufferMessage :
                 /\ m.type \in Requests
                 /\ bufferChannel'.queue = Append(bufferChannel.queue, m)
         /\ \/ UNCHANGED samplerChannel.queue
            \/ samplerChannel'.queue = Append(samplerChannel.queue, [type |-> "StartSampling"])
         /\ \/ UNCHANGED thread
            \/ \E t \in Threads : thread[t] = "absent" /\ Becomes(t, "holding")
<1>1. /\ IsChannel(bufferChannel) /\ IsChannel(samplerChannel)
      /\ infos \in Seq(Threads)
  BY AreChannels DEF PanicInv, TypeOK, CoreTypeOK
<1>2. ASSUME NEW how, DropsCore(how)
      PROVE  UNCHANGED <<bufferChannel.queue, samplerChannel.queue>>
  BY <1>1, <1>2, DropSenderFields DEF DropsCore
<1>3. ASSUME NEW m \in BufferMessage, m.type \in Requests, SendRequest(m)
      PROVE  /\ \/ UNCHANGED bufferChannel.queue
                \/ bufferChannel'.queue = Append(bufferChannel.queue, m)
             /\ UNCHANGED samplerChannel.queue
  BY <1>1, <1>2, <1>3, PutFields DEF SendRequest
<1>4. ASSUME NEW t \in Threads, GetThreadRegistrar(t)
      PROVE  /\ UNCHANGED <<threadInfo, added, aborted, bufferChannel.queue, samplerChannel.queue>>
             /\ thread[t] = "absent" /\ Becomes(t, "holding")
  BY <1>1, <1>4, CloneSenderFields DEF GetThreadRegistrar
<1>5. CASE CallStartSampling
  BY <1>1, <1>2, <1>5, PutFields DEF CallStartSampling, registrarVars
<1>6. CASE CallGetSampleCount
  BY <1>3, <1>6, BufferMessages DEF CallGetSampleCount, registrarVars, Requests
<1>7. CASE CallWaitForOneSample
  BY <1>3, <1>7, BufferMessages DEF CallWaitForOneSample, registrarVars, Requests
<1>8. CASE SendSerialize
  BY <1>1, <1>3, <1>8, BufferMessages DEF SendSerialize, registrarVars, Requests
<1>9. CASE CallSerialize \/ CollectThreadInfo
  BY <1>9 DEF CallSerialize, CollectThreadInfo, channelVars, registrarVars
<1>10. CASE ReceiveResponse \/ DropCore
  BY <1>2, <1>10 DEF ReceiveResponse, DropCore, registrarVars
<1> QED
  BY <1>4, <1>5, <1>6, <1>7, <1>8, <1>9, <1>10 DEF CoreStep, CoreNext

\* An application thread: it gives its name, registers, adds a marker, unregisters, or
\* sends a message that does none of these.
LEMMA ThreadData ==
  ASSUME PanicInv, NEW t \in Threads, ThreadStep(t)
  PROVE  /\ \/ /\ thread[t] = "instrumented"
               /\ bufferChannel'.queue =
                    Append(bufferChannel.queue,
                           [type |-> "AddMarker", tid |-> t, marker |-> added[t] + 1])
               /\ added' = [added EXCEPT ![t] = @ + 1]
               /\ UNCHANGED <<samplerChannel.queue, thread, threadInfo>>
            \/ /\ UNCHANGED added
               /\ \/ UNCHANGED bufferChannel.queue
                  \/ bufferChannel'.queue =
                       Append(bufferChannel.queue, [type |-> "ClearExpiredMarkers"])
               /\ \/ /\ thread[t] = "holding"
                     /\ Becomes(t, "published")
                     /\ threadInfo' = threadInfo \cup {t}
                     /\ UNCHANGED samplerChannel.queue
                  \/ /\ thread[t] = "published"
                     /\ Becomes(t, "instrumented")
                     /\ samplerChannel'.queue =
                          Append(samplerChannel.queue, [type |-> "RegisterSampler", tid |-> t])
                     /\ UNCHANGED threadInfo
                  \/ /\ thread[t] = "instrumented"
                     /\ Becomes(t, "finished") \/ Becomes(t, "panicked")
                     /\ \/ samplerChannel'.queue = Append(samplerChannel.queue, UnregisterMsg(t))
                        \/ UNCHANGED samplerChannel.queue /\ ~samplerChannel.receiver
                     /\ UNCHANGED threadInfo
                  \/ /\ UNCHANGED <<thread, threadInfo>>
                     /\ \/ UNCHANGED samplerChannel.queue
                        \/ \E c \in SamplerControls :
                             samplerChannel'.queue = Append(samplerChannel.queue, [type |-> c])
<1>1. IsChannel(bufferChannel) /\ IsChannel(samplerChannel)
  BY AreChannels DEF PanicInv
<1>2. ASSUME DropSendersOf(t, Put(samplerChannel, UnregisterMsg(t)))
      PROVE  /\ samplerChannel'.queue = Append(samplerChannel.queue, UnregisterMsg(t))
             /\ UNCHANGED bufferChannel.queue
  BY <1>1, <1>2, PutFields, DropSenderFields DEF DropSendersOf
<1>3. ASSUME DropSendersOf(t, samplerChannel)
      PROVE  UNCHANGED <<samplerChannel.queue, bufferChannel.queue>>
  BY <1>1, <1>3, DropSenderFields DEF DropSendersOf
<1>4. CASE PublishThreadInfo(t)
  BY <1>4 DEF PublishThreadInfo, channelVars
<1>5. CASE SendRegisterSampler(t)
  BY <1>1, <1>5, PutFields DEF SendRegisterSampler, channelVars
<1>6. CASE AddMarker(t)
  BY <1>1, <1>2, <1>6, PutFields DEF AddMarker, channelVars
<1>7. CASE Unregister(t)
  BY <1>2, <1>3, <1>7 DEF Unregister
<1>8. ASSUME NEW c \in Controls, ControlSampler(t, c)
      PROVE  /\ UNCHANGED <<added, thread, threadInfo, bufferChannel.queue>>
             /\ c \in SamplerControls
             /\ samplerChannel'.queue = Append(samplerChannel.queue, [type |-> c])
  BY <1>1, <1>8, PutFields DEF ControlSampler
<1>9. CASE ControlBuffer(t)
  BY <1>1, <1>9, PutFields DEF ControlBuffer
<1> QED
  BY <1>4, <1>5, <1>6, <1>7, <1>8, <1>9 DEF ThreadStep

-----------------------------------------------------------------------------
(* Attributable: what is stored, sent or sampled belongs to a thread that  *)
(* the profile can name.                                                   *)

\* The thread a message is about has its slot filled, and so has each thread that
\* may still send one.
Named ==
  /\ samplers \subseteq threadInfo
  /\ \A i \in DOMAIN markers : markers[i].tid \in threadInfo
  /\ \A i \in DOMAIN samples : samples[i] \in threadInfo
  /\ \A m \in Messages(bufferChannel.queue) :
       m.type \in {"AddMarker", "AddSample"} => m.tid \in threadInfo
  /\ \A m \in Messages(samplerChannel.queue) :
       m.type = "RegisterSampler" => m.tid \in threadInfo
  /\ \A t \in Threads : thread[t] \in {"published", "instrumented"} => t \in threadInfo

\* The queues are sequences of messages.
LEMMA QueueTypes ==
  ASSUME TypeOK
  PROVE  /\ bufferChannel.queue \in Seq(BufferMessage)
         /\ samplerChannel.queue \in Seq(SamplerMessage)
         /\ serializationChannel.queue \in Seq(SerializationMessage)
  BY DEF TypeOK, ChannelsTypeOK, BufferChannel, SamplerChannel, SerializationChannel, Channel

\* The buffer thread stores what a message names.
LEMMA NamedBuffer ==
  ASSUME PanicInv, PanicInv', Named, BufferNext,
         UNCHANGED <<samplerVars, registrarVars, coreVars>>
  PROVE  Named'
<1>1. /\ bufferChannel.queue \in Seq(BufferMessage)
      /\ markers \in Seq(MarkerEntry) /\ samples \in Seq(Threads)
  BY QueueTypes DEF PanicInv, TypeOK, BufferTypeOK
<1>2. UNCHANGED <<samplerChannel, samplers, thread, threadInfo>>
  BY BufferData DEF samplerVars, registrarVars
<1>3. CASE UNCHANGED <<bufferChannel.queue, markers, samples>>
  BY <1>2, <1>3 DEF Named
<1>4. ASSUME bufferChannel.queue # <<>>, bufferChannel'.queue = Tail(bufferChannel.queue),
             Stores(BufferMsg)
      PROVE  Named'
  <2>1. /\ BufferMsg \in Messages(bufferChannel.queue)
        /\ Messages(bufferChannel'.queue) \subseteq Messages(bufferChannel.queue)
    BY <1>1, <1>4, MessagesAfterTail DEF BufferMsg
  <2>2. \A i \in DOMAIN markers' : markers'[i].tid \in threadInfo
    <3>1. CASE markers' = Append(markers, [tid |-> BufferMsg.tid, marker |-> BufferMsg.marker])
               /\ BufferMsg.type = "AddMarker"
      <4>1. BufferMsg.tid \in threadInfo
        BY <2>1, <3>1 DEF Named
      <4> QED
        BY <1>1, <3>1, <4>1 DEF Named
    <3>2. CASE \E n \in 0 .. Len(markers) : markers' = SubSeq(markers, n + 1, Len(markers))
      <4>1. PICK n \in 0 .. Len(markers) : markers' = SubSeq(markers, n + 1, Len(markers))
        BY <3>2
      <4>2. \A i \in DOMAIN markers' : i + n \in DOMAIN markers /\ markers'[i] = markers[i + n]
        BY <1>1, <4>1
      <4> QED
        BY <4>2 DEF Named
    <3> QED
      BY <1>4, <3>1, <3>2 DEF Stores, Named
  <2>3. \A i \in DOMAIN samples' : samples'[i] \in threadInfo
    <3>1. CASE samples' = Append(samples, BufferMsg.tid) /\ BufferMsg.type = "AddSample"
      <4>1. BufferMsg.tid \in threadInfo
        BY <2>1, <3>1 DEF Named
      <4> QED
        BY <1>1, <3>1, <4>1 DEF Named
    <3> QED
      BY <1>4, <3>1 DEF Stores, Named
  <2> QED
    BY <1>2, <2>1, <2>2, <2>3 DEF Named
<1> QED
  BY <1>3, <1>4, BufferData

\* The sampler thread lists the thread of a message, and sends of those it lists.
LEMMA NamedSampler ==
  ASSUME PanicInv, PanicInv', Named, SamplerStep,
         UNCHANGED <<bufferVars, registrarVars, coreVars>>
  PROVE  Named'
<1>1. /\ bufferChannel.queue \in Seq(BufferMessage)
      /\ samplerChannel.queue \in Seq(SamplerMessage)
      /\ samplers \subseteq Threads
  BY QueueTypes DEF PanicInv, TypeOK, SamplerTypeOK
<1>2. UNCHANGED <<markers, samples, thread, threadInfo>>
  BY DEF bufferVars, registrarVars
<1>3. \A m \in Messages(bufferChannel'.queue) :
        m.type \in {"AddMarker", "AddSample"} => m.tid \in threadInfo
  <2>1. CASE UNCHANGED bufferChannel.queue
    BY <2>1 DEF Named
  <2>2. ASSUME NEW t \in samplers,
               bufferChannel'.queue =
                 Append(bufferChannel.queue, [type |-> "AddSample", tid |-> t])
        PROVE  \A m \in Messages(bufferChannel'.queue) :
                 m.type \in {"AddMarker", "AddSample"} => m.tid \in threadInfo
    <3>1. Messages(bufferChannel'.queue)
            = Messages(bufferChannel.queue) \cup {[type |-> "AddSample", tid |-> t]}
      BY <1>1, <2>2, BufferMessages, MessagesAfterAppend
    <3> QED
      BY <3>1 DEF Named
  <2> QED
    BY <2>1, <2>2, SamplerData
<1>4. /\ samplers' \subseteq threadInfo
      /\ \A m \in Messages(samplerChannel'.queue) :
           m.type = "RegisterSampler" => m.tid \in threadInfo
  <2>1. CASE UNCHANGED <<samplerChannel.queue, samplers>>
    BY <2>1 DEF Named
  <2>2. CASE samplerChannel.queue # <<>> /\ samplerChannel'.queue = Tail(samplerChannel.queue)
    <3>1. /\ SamplerMsg \in Messages(samplerChannel.queue)
          /\ Messages(samplerChannel'.queue) \subseteq Messages(samplerChannel.queue)
      BY <1>1, <2>2, MessagesAfterTail DEF SamplerMsg
    <3>2. \/ samplers' = samplers
          \/ SamplerMsg.type = "RegisterSampler" /\ samplers' = samplers \cup {SamplerMsg.tid}
          \/ samplers' = samplers \ {SamplerMsg.tid}
          \/ samplers' = {}
      BY SamplerData
    <3> QED
      BY <3>1, <3>2 DEF Named
  <2>3. CASE samplerChannel'.queue = <<>> /\ samplers' = {}
    BY <2>3 DEF Messages
  <2> QED
    BY <2>1, <2>2, <2>3, SamplerData
<1> QED
  BY <1>2, <1>3, <1>4 DEF Named

\* A thread gives its name before it registers, and registers before it adds markers.
LEMMA NamedThread ==
  ASSUME PanicInv, Named, NEW t \in Threads, ThreadStep(t),
         UNCHANGED <<bufferVars, samplerVars, coreVars>>
  PROVE  Named'
<1>1. /\ bufferChannel.queue \in Seq(BufferMessage)
      /\ samplerChannel.queue \in Seq(SamplerMessage)
      /\ thread \in [Threads -> {"absent", "holding", "published", "instrumented",
                                 "finished", "panicked"}]
      /\ added \in [Threads -> Nat]
  BY QueueTypes DEF PanicInv, TypeOK, RegistrarTypeOK
<1>2. UNCHANGED <<markers, samples, samplers>>
  BY DEF bufferVars, samplerVars
<1>3. threadInfo \subseteq threadInfo'
  BY ThreadData
<1>4. \A u \in Threads :
        thread'[u] \in {"published", "instrumented"} => u \in threadInfo'
  BY <1>1, ThreadData DEF Becomes, Named
<1>5. \A m \in Messages(bufferChannel'.queue) :
        m.type \in {"AddMarker", "AddSample"} => m.tid \in threadInfo'
  <2>1. \/ UNCHANGED bufferChannel.queue
        \/ \E m \in BufferMessage :
             /\ bufferChannel'.queue = Append(bufferChannel.queue, m)
             /\ m.type \in {"AddMarker", "AddSample"} => m.tid = t /\ thread[t] = "instrumented"
    <3>1. \A n \in Nat : /\ [type |-> "AddMarker", tid |-> t, marker |-> n] \in BufferMessage
                         /\ [type |-> "ClearExpiredMarkers"] \in BufferMessage
      BY BufferMessages
    <3>2. added[t] + 1 \in Nat
      BY <1>1
    <3> QED
      BY <3>1, <3>2, ThreadData
  <2>2. CASE UNCHANGED bufferChannel.queue
    BY <1>3, <2>2 DEF Named
  <2>3. ASSUME NEW m \in BufferMessage, bufferChannel'.queue = Append(bufferChannel.queue, m),
               m.type \in {"AddMarker", "AddSample"} => m.tid = t /\ thread[t] = "instrumented"
        PROVE  \A x \in Messages(bufferChannel'.queue) :
                 x.type \in {"AddMarker", "AddSample"} => x.tid \in threadInfo'
    <3>1. Messages(bufferChannel'.queue) = Messages(bufferChannel.queue) \cup {m}
      BY <1>1, <2>3, MessagesAfterAppend
    <3> QED
      BY <1>3, <2>3, <3>1 DEF Named
  <2> QED
    BY <2>1, <2>2, <2>3
<1>6. \A m \in Messages(samplerChannel'.queue) :
        m.type = "RegisterSampler" => m.tid \in threadInfo'
  <2>1. \/ UNCHANGED samplerChannel.queue
        \/ \E m \in SamplerMessage :
             /\ samplerChannel'.queue = Append(samplerChannel.queue, m)
             /\ m.type = "RegisterSampler" => m.tid = t /\ thread[t] = "published"
    <3>1. /\ [type |-> "RegisterSampler", tid |-> t] \in SamplerMessage
          /\ UnregisterMsg(t) \in SamplerMessage
          /\ \A c \in SamplerControls : [type |-> c] \in SamplerMessage
      BY SamplerMessages DEF SamplerControls
    <3>2. UnregisterMsg(t).type # "RegisterSampler" /\ "RegisterSampler" \notin SamplerControls
      BY DEF UnregisterMsg, SamplerControls
    <3> QED
      BY <3>1, <3>2, ThreadData
  <2>2. CASE UNCHANGED samplerChannel.queue
    BY <1>3, <2>2 DEF Named
  <2>3. ASSUME NEW m \in SamplerMessage, samplerChannel'.queue = Append(samplerChannel.queue, m),
               m.type = "RegisterSampler" => m.tid = t /\ thread[t] = "published"
        PROVE  \A x \in Messages(samplerChannel'.queue) :
                 x.type = "RegisterSampler" => x.tid \in threadInfo'
    <3>1. Messages(samplerChannel'.queue) = Messages(samplerChannel.queue) \cup {m}
      BY <1>1, <2>3, MessagesAfterAppend
    <3> QED
      BY <1>3, <2>3, <3>1 DEF Named
  <2> QED
    BY <2>1, <2>2, <2>3
<1> QED
  BY <1>2, <1>3, <1>4, <1>5, <1>6 DEF Named

\* The core sends nothing that names a thread.
LEMMA NamedCore ==
  ASSUME PanicInv, Named, CoreStep, UNCHANGED <<bufferVars, samplerVars>>
  PROVE  Named'
<1>1. /\ bufferChannel.queue \in Seq(BufferMessage)
      /\ samplerChannel.queue \in Seq(SamplerMessage)
      /\ thread \in [Threads -> {"absent", "holding", "published", "instrumented",
                                 "finished", "panicked"}]
  BY QueueTypes DEF PanicInv, TypeOK, RegistrarTypeOK
<1>2. UNCHANGED <<markers, samples, samplers, threadInfo>>
  BY CoreData DEF bufferVars, samplerVars
<1>3. \A u \in Threads :
        thread'[u] \in {"published", "instrumented"} => u \in threadInfo
  BY <1>1, CoreData DEF Becomes, Named
<1>4. \A m \in Messages(bufferChannel'.queue) :
        m.type \in {"AddMarker", "AddSample"} => m.tid \in threadInfo
  <2>1. CASE UNCHANGED bufferChannel.queue
    BY <2>1 DEF Named
  <2>2. ASSUME NEW m \in BufferMessage, m.type \in Requests,
               bufferChannel'.queue = Append(bufferChannel.queue, m)
        PROVE  \A x \in Messages(bufferChannel'.queue) :
                 x.type \in {"AddMarker", "AddSample"} => x.tid \in threadInfo
    <3>1. Messages(bufferChannel'.queue) = Messages(bufferChannel.queue) \cup {m}
      BY <1>1, <2>2, MessagesAfterAppend
    <3> QED
      BY <2>2, <3>1 DEF Named, Requests
  <2> QED
    BY <2>1, <2>2, CoreData
<1>5. \A m \in Messages(samplerChannel'.queue) :
        m.type = "RegisterSampler" => m.tid \in threadInfo
  <2>1. CASE UNCHANGED samplerChannel.queue
    BY <2>1 DEF Named
  <2>2. CASE samplerChannel'.queue = Append(samplerChannel.queue, [type |-> "StartSampling"])
    <3>1. Messages(samplerChannel'.queue)
            = Messages(samplerChannel.queue) \cup {[type |-> "StartSampling"]}
      BY <1>1, <2>2, SamplerMessages, MessagesAfterAppend
    <3> QED
      BY <3>1 DEF Named
  <2> QED
    BY <2>1, <2>2, CoreData
<1> QED
  BY <1>2, <1>3, <1>4, <1>5 DEF Named

\* What has a name keeps it, whatever the interleaving.
THEOREM NamedHolds == Spec => []Named
<1>1. Init => Named
  BY DEF Init, ChannelsInit, Open, BufferInit, SamplerInit, RegistrarInit, Named, Messages
<1>2. PanicInv /\ PanicInv' /\ Named /\ [Next]_vars => Named'
  <2> SUFFICES ASSUME PanicInv, PanicInv', Named, [Next]_vars PROVE Named'
      OBVIOUS
  <2>1. CASE UNCHANGED vars
    BY <2>1 DEF vars, channelVars, bufferVars, samplerVars, registrarVars, Named, Messages
  <2>2. CASE Next
    BY <2>2, NamedBuffer, NamedSampler, NamedThread, NamedCore DEF Next
  <2> QED
    BY <2>1, <2>2
<1> QED
  BY <1>1, <1>2, PanicInvariant, PTL DEF Spec

\* Whatever the interleaving, no marker and no sample is stored or under way for a
\* thread whose Option<ThreadInfo> is None (register, SamplerThread::start).
THEOREM AttributableHolds == Spec => []Attributable
<1>1. Named => Attributable
  BY DEF Named, Attributable, InFlight, Messages
<1> QED
  BY <1>1, NamedHolds, PTL

-----------------------------------------------------------------------------
(* Markers: none is lost, and they stay in order.                          *)

EntryOf(t, n) == [tid |-> t, marker |-> n]

MarkerMsg(t, n) == [type |-> "AddMarker", tid |-> t, marker |-> n]

\* Thread t's n-th marker is stored, expired or under way.
Recorded(t, n) ==
  \/ EntryOf(t, n) \in Messages(markers) \cup expired
  \/ MarkerMsg(t, n) \in Messages(bufferChannel.queue)

AllRecorded == \A t \in Threads : \A n : Recorded(t, n) <=> n \in 1 .. added[t]

\* A message that adds a marker is made of these parts, and so is an entry.
LEMMA MarkerParts ==
  /\ \A m \in BufferMessage :
       m.type = "AddMarker" => m.tid \in Threads /\ m.marker \in Nat /\ m = MarkerMsg(m.tid, m.marker)
  /\ \A e \in MarkerEntry : e = EntryOf(e.tid, e.marker)
  BY DEF BufferMessage, MarkerEntry, MarkerMsg, EntryOf

\* Expiry moves the oldest entries, and loses none.
LEMMA ClearedEntries ==
  ASSUME NEW ms \in Seq(MarkerEntry), NEW k \in 0 .. Len(ms), NEW ex
  PROVE  Messages(SubSeq(ms, k + 1, Len(ms))) \cup (ex \cup {ms[i] : i \in 1 .. k})
           = Messages(ms) \cup ex
<1> DEFINE r == SubSeq(ms, k + 1, Len(ms))
           gone == {ms[i] : i \in 1 .. k}
<1>1. /\ DOMAIN ms = 1 .. Len(ms)
      /\ \A i \in DOMAIN r : i + k \in DOMAIN ms /\ r[i] = ms[i + k]
      /\ \A i \in DOMAIN ms : i \in 1 .. k \/ (i - k \in DOMAIN r /\ r[i - k] = ms[i])
      /\ \A i \in 1 .. k : i \in DOMAIN ms
  OBVIOUS
<1> HIDE DEF r
<1>2. \A x : x \in Messages(r) \cup (ex \cup gone) => x \in Messages(ms) \cup ex
  BY <1>1 DEF Messages
<1>3. \A x : x \in Messages(ms) \cup ex => x \in Messages(r) \cup (ex \cup gone)
  BY <1>1 DEF Messages
<1>4. Messages(r) \cup (ex \cup gone) = Messages(ms) \cup ex
  BY <1>2, <1>3
<1> QED
  BY <1>4 DEF r

\* At the start no marker was added and none is recorded.
LEMMA RecordedInit == Init => AllRecorded
<1> SUFFICES ASSUME Init PROVE AllRecorded
    OBVIOUS
<1>1. /\ markers = <<>> /\ expired = {} /\ bufferChannel.queue = <<>>
      /\ added = [t \in Threads |-> 0]
  BY DEF Init, ChannelsInit, Open, BufferInit, RegistrarInit
<1>2. \A t \in Threads : \A n : n \notin 1 .. added[t]
  BY <1>1
<1> QED
  BY <1>1, <1>2 DEF AllRecorded, Recorded, Messages

\* Handling a message of the buffer thread moves its marker, and loses none.
LEMMA RecordedBuffer ==
  ASSUME PanicInv, PanicInv', BufferNext, NEW t, NEW n
  PROVE  Recorded(t, n)' <=> Recorded(t, n)
<1>1. /\ bufferChannel.queue \in Seq(BufferMessage)
      /\ markers \in Seq(MarkerEntry)
  BY QueueTypes DEF PanicInv, TypeOK, BufferTypeOK
<1>2. CASE UNCHANGED <<bufferChannel.queue, markers, expired>>
  BY <1>2 DEF Recorded, Messages
<1>3. ASSUME bufferChannel.queue # <<>>, bufferChannel'.queue = Tail(bufferChannel.queue),
             Stores(BufferMsg)
      PROVE  Recorded(t, n)' <=> Recorded(t, n)
  <2>1. /\ BufferMsg \in BufferMessage
        /\ Messages(bufferChannel.queue) = {BufferMsg} \cup Messages(bufferChannel'.queue)
    BY <1>1, <1>3, MessagesAfterTail, TailSeq DEF BufferMsg
  <2>2. CASE /\ BufferMsg.type = "AddMarker"
             /\ markers' = Append(markers, EntryOf(BufferMsg.tid, BufferMsg.marker))
             /\ UNCHANGED expired
    <3>1. /\ BufferMsg = MarkerMsg(BufferMsg.tid, BufferMsg.marker)
          /\ EntryOf(BufferMsg.tid, BufferMsg.marker) \in MarkerEntry
      BY <2>1, <2>2, MarkerParts DEF MarkerEntry, EntryOf
    <3>2. Messages(markers') = Messages(markers) \cup {EntryOf(BufferMsg.tid, BufferMsg.marker)}
      BY <1>1, <2>2, <3>1, MessagesAfterAppend
    <3>3. MarkerMsg(t, n) = BufferMsg <=> EntryOf(t, n) = EntryOf(BufferMsg.tid, BufferMsg.marker)
      BY <3>1 DEF MarkerMsg, EntryOf
    <3> QED
      BY <2>1, <2>2, <3>2, <3>3 DEF Recorded, Messages
  <2>3. ASSUME BufferMsg.type # "AddMarker",
               Messages(markers') \cup expired' = Messages(markers) \cup expired
        PROVE  Recorded(t, n)' <=> Recorded(t, n)
    <3>1. MarkerMsg(t, n) # BufferMsg
      BY <2>3 DEF MarkerMsg
    <3>2. /\ Recorded(t, n)' <=> \/ EntryOf(t, n) \in Messages(markers') \cup expired'
                                 \/ MarkerMsg(t, n) \in Messages(bufferChannel'.queue)
      BY DEF Recorded, Messages, EntryOf, MarkerMsg
    <3> QED
      BY <2>1, <2>3, <3>1, <3>2 DEF Recorded
  <2>4. CASE UNCHANGED <<markers, expired>> /\ BufferMsg.type # "AddMarker"
    BY <2>3, <2>4 DEF Messages
  <2>5. ASSUME NEW k \in 0 .. Len(markers), BufferMsg.type # "AddMarker",
               markers' = SubSeq(markers, k + 1, Len(markers)),
               expired' = expired \cup {markers[i] : i \in 1 .. k}
        PROVE  Recorded(t, n)' <=> Recorded(t, n)
    <3>1. Messages(markers') \cup expired' = Messages(markers) \cup expired
      BY <1>1, <2>5, ClearedEntries
    <3> QED
      BY <2>3, <2>5, <3>1
  <2> QED
    BY <1>3, <2>2, <2>4, <2>5 DEF Stores, EntryOf, Requests
<1> QED
  BY <1>2, <1>3, BufferData

\* What else is sent to the buffer thread adds no marker.
LEMMA RecordedSend ==
  ASSUME PanicInv, UNCHANGED <<markers, expired>>, NEW m \in BufferMessage, m.type # "AddMarker",
         bufferChannel'.queue = Append(bufferChannel.queue, m), NEW t, NEW n
  PROVE  Recorded(t, n)' <=> Recorded(t, n)
<1>1. Messages(bufferChannel'.queue) = Messages(bufferChannel.queue) \cup {m}
  BY MessagesAfterAppend, QueueTypes DEF PanicInv
<1>2. MarkerMsg(t, n) # m
  BY DEF MarkerMsg
<1> QED
  BY <1>1, <1>2 DEF Recorded, Messages

\* Neither does a step that leaves the queue and the buffers alone.
LEMMA RecordedAlone ==
  ASSUME UNCHANGED <<bufferChannel.queue, markers, expired>>, NEW t, NEW n
  PROVE  Recorded(t, n)' <=> Recorded(t, n)
  BY DEF Recorded, Messages

\* A thread that adds a marker numbers it next.
LEMMA RecordedThread ==
  ASSUME PanicInv, AllRecorded, NEW u \in Threads, ThreadStep(u), UNCHANGED bufferVars
  PROVE  AllRecorded'
<1>1. bufferChannel.queue \in Seq(BufferMessage) /\ added \in [Threads -> Nat]
  BY QueueTypes DEF PanicInv, TypeOK, RegistrarTypeOK
<1>2. UNCHANGED <<markers, expired>>
  BY DEF bufferVars
<1>3. ASSUME bufferChannel'.queue = Append(bufferChannel.queue, MarkerMsg(u, added[u] + 1)),
             added' = [added EXCEPT ![u] = @ + 1]
      PROVE  AllRecorded'
  <2>1. Messages(bufferChannel'.queue)
          = Messages(bufferChannel.queue) \cup {MarkerMsg(u, added[u] + 1)}
    <3>1. MarkerMsg(u, added[u] + 1) \in BufferMessage
      BY <1>1, BufferMessages DEF MarkerMsg
    <3> QED
      BY <1>1, <1>3, <3>1, MessagesAfterAppend
  <2>2. \A t, n : MarkerMsg(t, n) = MarkerMsg(u, added[u] + 1) <=> t = u /\ n = added[u] + 1
    BY DEF MarkerMsg
  <2>3. \A t, n : Recorded(t, n)' <=> Recorded(t, n) \/ (t = u /\ n = added[u] + 1)
    BY <1>2, <2>1, <2>2 DEF Recorded, Messages
  <2>4. \A n : n \in 1 .. added[u] + 1 <=> n \in 1 .. added[u] \/ n = added[u] + 1
    BY <1>1
  <2>5. added'[u] = added[u] + 1 /\ \A t \in Threads \ {u} : added'[t] = added[t]
    BY <1>1, <1>3
  <2> QED
    BY <2>3, <2>4, <2>5 DEF AllRecorded
<1>4. CASE UNCHANGED <<added, bufferChannel.queue>>
  BY <1>2, <1>4, RecordedAlone DEF AllRecorded
<1>5. CASE /\ UNCHANGED added
           /\ bufferChannel'.queue = Append(bufferChannel.queue, [type |-> "ClearExpiredMarkers"])
  <2>1. \A t, n : Recorded(t, n)' <=> Recorded(t, n)
    BY <1>2, <1>5, RecordedSend, BufferMessages
  <2> QED
    BY <1>5, <2>1 DEF AllRecorded
<1> QED
  BY <1>3, <1>4, <1>5, ThreadData DEF MarkerMsg

\* Every step keeps what was recorded.
LEMMA RecordedStep ==
  ASSUME PanicInv, PanicInv', AllRecorded, [Next]_vars
  PROVE  AllRecorded'
<1>1. CASE UNCHANGED vars
  <2>1. UNCHANGED <<bufferChannel.queue, markers, expired, added>>
    BY <1>1 DEF vars, channelVars, bufferVars, registrarVars
  <2> QED
    BY <2>1, RecordedAlone DEF AllRecorded
<1>2. CASE BufferNext /\ UNCHANGED registrarVars
  BY <1>2, RecordedBuffer DEF AllRecorded, registrarVars
<1>3. CASE SamplerStep /\ UNCHANGED <<bufferVars, registrarVars>>
  <2>1. CASE UNCHANGED bufferChannel.queue
    BY <1>3, <2>1, RecordedAlone DEF AllRecorded, bufferVars, registrarVars
  <2>2. ASSUME NEW t \in samplers,
               bufferChannel'.queue =
                 Append(bufferChannel.queue, [type |-> "AddSample", tid |-> t])
        PROVE  AllRecorded'
    <3>1. t \in Threads
      BY DEF PanicInv, TypeOK, SamplerTypeOK
    <3>2. \A u, n : Recorded(u, n)' <=> Recorded(u, n)
      BY <1>3, <2>2, <3>1, RecordedSend, BufferMessages DEF bufferVars
    <3> QED
      BY <1>3, <3>2 DEF AllRecorded, registrarVars
  <2> QED
    BY <1>3, <2>1, <2>2, SamplerData
<1>4. CASE (\E t \in Threads : ThreadStep(t)) /\ UNCHANGED bufferVars
  BY <1>4, RecordedThread
<1>5. CASE CoreStep /\ UNCHANGED bufferVars
  <2>1. CASE UNCHANGED bufferChannel.queue
    BY <1>5, <2>1, CoreData, RecordedAlone DEF AllRecorded, bufferVars
  <2>2. ASSUME NEW m \in BufferMessage, m.type \in Requests,
               bufferChannel'.queue = Append(bufferChannel.queue, m)
        PROVE  AllRecorded'
    <3>1. \A u, n : Recorded(u, n)' <=> Recorded(u, n)
      BY <1>5, <2>2, RecordedSend DEF bufferVars, Requests
    <3> QED
      BY <1>5, <3>1, CoreData DEF AllRecorded
  <2> QED
    BY <1>5, <2>1, <2>2, CoreData
<1> QED
  BY <1>1, <1>2, <1>3, <1>4, <1>5 DEF Next

\* The same, in the terms of the property.
LEMMA RecordedIsKept ==
  ASSUME TypeOK
  PROVE  AllRecorded <=> NoMarkerLost
<1>1. /\ bufferChannel.queue \in Seq(BufferMessage)
      /\ markers \in Seq(MarkerEntry)
      /\ expired \subseteq MarkerEntry
  BY QueueTypes DEF TypeOK, BufferTypeOK
<1>2. /\ \A i \in DOMAIN markers : markers[i] \in MarkerEntry
      /\ \A i \in DOMAIN bufferChannel.queue : bufferChannel.queue[i] \in BufferMessage
  BY <1>1
<1>3. ASSUME NEW t \in Threads, NEW n
      PROVE  n \in MarkersStored(t) \cup MarkersInFlight(t) <=> Recorded(t, n)
  <2>1. n \in MarkersOf(t) <=> EntryOf(t, n) \in Messages(markers)
    BY <1>2, MarkerParts DEF MarkersOf, Messages, EntryOf
  <2>2. n \in {e.marker : e \in {x \in expired : x.tid = t}} <=> EntryOf(t, n) \in expired
    BY <1>1, MarkerParts DEF EntryOf
  <2>3. n \in MarkersInFlight(t) <=> MarkerMsg(t, n) \in Messages(bufferChannel.queue)
    BY <1>2, MarkerParts DEF MarkersInFlight, InFlight, Messages, MarkerMsg
  <2> QED
    BY <2>1, <2>2, <2>3 DEF MarkersStored, Recorded
<1>4. ASSUME AllRecorded, NEW t \in Threads
      PROVE  MarkersStored(t) \cup MarkersInFlight(t) = 1 .. added[t]
  <2>1. \A n : n \in MarkersStored(t) \cup MarkersInFlight(t) <=> n \in 1 .. added[t]
    BY <1>3, <1>4 DEF AllRecorded
  <2> QED
    BY <2>1
<1>5. ASSUME NoMarkerLost
      PROVE  AllRecorded
  BY <1>3, <1>5 DEF AllRecorded, NoMarkerLost
<1> QED
  BY <1>4, <1>5 DEF NoMarkerLost

\* A marker whose send succeeded reaches the buffer, even if its thread and the core
\* are gone by then (add_marker, and the AddMarker arm of BufferThread::start).
THEOREM NoMarkerLostHolds == Spec => []NoMarkerLost
<1>1. Init => AllRecorded
  BY RecordedInit
<1>2. PanicInv /\ PanicInv' /\ AllRecorded /\ [Next]_vars => AllRecorded'
  BY RecordedStep
<1>3. PanicInv /\ AllRecorded => NoMarkerLost
  BY RecordedIsKept DEF PanicInv
<1> QED
  BY <1>1, <1>2, <1>3, PanicInvariant, PTL DEF Spec

-----------------------------------------------------------------------------
(* The order of the markers, of any buffer ms and any queue q.             *)

InOrder(ms, q) ==
  /\ \A i, j \in DOMAIN ms : i < j /\ ms[i].tid = ms[j].tid => ms[i].marker < ms[j].marker
  /\ \A i, j \in DOMAIN q :
       /\ i < j
       /\ q[i].type = "AddMarker" /\ q[j].type = "AddMarker"
       /\ q[i].tid = q[j].tid
       => q[i].marker < q[j].marker
  /\ \A i \in DOMAIN ms, j \in DOMAIN q :
       q[j].type = "AddMarker" /\ ms[i].tid = q[j].tid => ms[i].marker < q[j].marker

\* The property, in these terms.
LEMMA OrderIsInOrder == MarkersInOrder <=> InOrder(markers, bufferChannel.queue)
  BY DEF MarkersInOrder, InOrder, InFlight

\* A marker that is sent after all others of its thread keeps the order.
LEMMA InOrderSend ==
  ASSUME NEW ms, NEW q \in Seq(BufferMessage), NEW m \in BufferMessage, InOrder(ms, q),
         m.type = "AddMarker" =>
           /\ \A i \in DOMAIN ms : ms[i].tid = m.tid => ms[i].marker < m.marker
           /\ \A i \in DOMAIN q :
                q[i].type = "AddMarker" /\ q[i].tid = m.tid => q[i].marker < m.marker
  PROVE  InOrder(ms, Append(q, m))
<1> DEFINE r == Append(q, m)
<1>1. /\ Len(q) \in Nat
      /\ DOMAIN q = 1 .. Len(q)
      /\ DOMAIN r = 1 .. Len(q) + 1
      /\ \A i \in DOMAIN q : r[i] = q[i]
      /\ r[Len(q) + 1] = m
  BY AppendSeq
<1> HIDE DEF r
<1>2. \A i \in DOMAIN r : i \in DOMAIN q \/ i = Len(q) + 1
  BY <1>1
<1>3. ASSUME NEW i \in DOMAIN r, NEW j \in DOMAIN r, i < j,
             r[i].type = "AddMarker", r[j].type = "AddMarker", r[i].tid = r[j].tid
      PROVE  r[i].marker < r[j].marker
  <2>1. i \in DOMAIN q
    BY <1>1, <1>3
  <2>2. CASE j \in DOMAIN q
    BY <1>1, <1>3, <2>1, <2>2 DEF InOrder
  <2>3. CASE j = Len(q) + 1
    BY <1>1, <1>3, <2>1, <2>3
  <2> QED
    BY <1>2, <2>2, <2>3
<1>4. ASSUME NEW i \in DOMAIN ms, NEW j \in DOMAIN r, r[j].type = "AddMarker",
             ms[i].tid = r[j].tid
      PROVE  ms[i].marker < r[j].marker
  <2>1. CASE j \in DOMAIN q
    BY <1>1, <1>4, <2>1 DEF InOrder
  <2>2. CASE j = Len(q) + 1
    BY <1>1, <1>4, <2>2
  <2> QED
    BY <1>2, <2>1, <2>2
<1>5. InOrder(ms, r)
  BY <1>3, <1>4 DEF InOrder
<1> QED
  BY <1>5 DEF r

\* A message that is received and stores no marker keeps it.
LEMMA InOrderReceive ==
  ASSUME NEW ms, NEW q \in Seq(BufferMessage), q # <<>>, InOrder(ms, q)
  PROVE  InOrder(ms, Tail(q))
<1>1. /\ Len(q) \in Nat /\ DOMAIN q = 1 .. Len(q) /\ DOMAIN Tail(q) = 1 .. Len(q) - 1
      /\ \A i \in DOMAIN Tail(q) : i + 1 \in DOMAIN q /\ Tail(q)[i] = q[i + 1]
  BY TailSeq
<1>2. \A i, j \in DOMAIN Tail(q) : i < j => i + 1 < j + 1
  BY <1>1
<1> QED
  BY <1>1, <1>2 DEF InOrder

\* A marker that is received and stored behind the others keeps it.
LEMMA InOrderStore ==
  ASSUME NEW ms \in Seq(MarkerEntry), NEW q \in Seq(BufferMessage), q # <<>>, InOrder(ms, q),
         Head(q).type = "AddMarker"
  PROVE  InOrder(Append(ms, EntryOf(Head(q).tid, Head(q).marker)), Tail(q))
<1> DEFINE e == EntryOf(Head(q).tid, Head(q).marker)
           r == Append(ms, e)
<1>1. /\ Len(q) \in Nat \ {0} /\ DOMAIN q = 1 .. Len(q) /\ DOMAIN Tail(q) = 1 .. Len(q) - 1
      /\ \A i \in DOMAIN Tail(q) : i + 1 \in DOMAIN q /\ Tail(q)[i] = q[i + 1]
      /\ Head(q) = q[1] /\ Head(q) \in BufferMessage
  BY TailSeq
<1>2. e \in MarkerEntry /\ e.tid = q[1].tid /\ e.marker = q[1].marker
  BY <1>1, MarkerParts DEF MarkerEntry, EntryOf
<1> HIDE DEF e
<1>3. /\ Len(ms) \in Nat
      /\ DOMAIN ms = 1 .. Len(ms)
      /\ DOMAIN r = 1 .. Len(ms) + 1
      /\ \A i \in DOMAIN ms : r[i] = ms[i]
      /\ r[Len(ms) + 1] = e
  BY <1>2, AppendSeq
<1> HIDE DEF r
<1>4. \A i \in DOMAIN r : i \in DOMAIN ms \/ i = Len(ms) + 1
  BY <1>3
<1>5. 1 \in DOMAIN q /\ q[1].type = "AddMarker"
  BY <1>1
<1>6. ASSUME NEW i \in DOMAIN r, NEW j \in DOMAIN r, i < j, r[i].tid = r[j].tid
      PROVE  r[i].marker < r[j].marker
  <2>1. i \in DOMAIN ms
    BY <1>3, <1>6
  <2>2. CASE j \in DOMAIN ms
    BY <1>3, <1>6, <2>1, <2>2 DEF InOrder
  <2>3. CASE j = Len(ms) + 1
    BY <1>2, <1>3, <1>5, <1>6, <2>1, <2>3 DEF InOrder
  <2> QED
    BY <1>4, <2>2, <2>3
<1>7. ASSUME NEW i \in DOMAIN r, NEW j \in DOMAIN Tail(q), Tail(q)[j].type = "AddMarker",
             r[i].tid = Tail(q)[j].tid
      PROVE  r[i].marker < Tail(q)[j].marker
  <2>1. j + 1 \in DOMAIN q /\ Tail(q)[j] = q[j + 1] /\ 1 < j + 1
    BY <1>1
  <2>2. CASE i \in DOMAIN ms
    BY <1>3, <1>7, <2>1, <2>2 DEF InOrder
  <2>3. CASE i = Len(ms) + 1
    BY <1>2, <1>3, <1>5, <1>7, <2>1, <2>3 DEF InOrder
  <2> QED
    BY <1>4, <2>2, <2>3
<1>8. InOrder(r, Tail(q))
  <2>1. InOrder(ms, Tail(q))
    BY InOrderReceive
  <2> QED
    BY <1>6, <1>7, <2>1 DEF InOrder
<1> QED
  BY <1>8 DEF r, e

\* So does expiry, which drops the oldest.
LEMMA InOrderClear ==
  ASSUME NEW ms \in Seq(MarkerEntry), NEW q, NEW k \in 0 .. Len(ms), InOrder(ms, q)
  PROVE  InOrder(SubSeq(ms, k + 1, Len(ms)), q)
<1> DEFINE r == SubSeq(ms, k + 1, Len(ms))
<1>1. \A i \in DOMAIN r : i \in Nat /\ i + k \in DOMAIN ms /\ r[i] = ms[i + k]
  OBVIOUS
<1> HIDE DEF r
<1>2. \A i, j \in DOMAIN r : i < j => i + k < j + k
  BY <1>1
<1>3. InOrder(r, q)
  BY <1>1, <1>2 DEF InOrder
<1> QED
  BY <1>3 DEF r

\* No marker of a thread has a higher number than the thread has given out.
LEMMA NumbersAreGiven ==
  ASSUME TypeOK, AllRecorded
  PROVE  /\ \A i \in DOMAIN markers : markers[i].marker <= added[markers[i].tid]
         /\ \A i \in DOMAIN bufferChannel.queue :
              bufferChannel.queue[i].type = "AddMarker" =>
                bufferChannel.queue[i].marker <= added[bufferChannel.queue[i].tid]
<1>1. /\ bufferChannel.queue \in Seq(BufferMessage)
      /\ markers \in Seq(MarkerEntry)
      /\ added \in [Threads -> Nat]
  BY QueueTypes DEF TypeOK, BufferTypeOK, RegistrarTypeOK
<1>2. ASSUME NEW i \in DOMAIN markers
      PROVE  markers[i].marker <= added[markers[i].tid]
  <2>1. /\ markers[i] \in MarkerEntry
        /\ markers[i] = EntryOf(markers[i].tid, markers[i].marker)
        /\ markers[i].tid \in Threads
    <3>1. markers[i] \in MarkerEntry
      BY <1>1
    <3> QED
      BY <3>1, MarkerParts DEF MarkerEntry
  <2>2. Recorded(markers[i].tid, markers[i].marker)
    BY <2>1 DEF Recorded, Messages
  <2> QED
    BY <2>1, <2>2, <1>1 DEF AllRecorded
<1>3. ASSUME NEW i \in DOMAIN bufferChannel.queue, bufferChannel.queue[i].type = "AddMarker"
      PROVE  bufferChannel.queue[i].marker <= added[bufferChannel.queue[i].tid]
  <2> DEFINE m == bufferChannel.queue[i]
  <2>1. m.tid \in Threads /\ m = MarkerMsg(m.tid, m.marker)
    <3>1. m \in BufferMessage
      BY <1>1
    <3> QED
      BY <1>3, <3>1, MarkerParts
  <2>2. Recorded(m.tid, m.marker)
    BY <2>1 DEF Recorded, Messages
  <2> QED
    BY <1>1, <2>1, <2>2 DEF AllRecorded
<1> QED
  BY <1>2, <1>3

\* Every step keeps the order.
LEMMA InOrderStep ==
  ASSUME PanicInv, PanicInv', AllRecorded, InOrder(markers, bufferChannel.queue), [Next]_vars
  PROVE  InOrder(markers', bufferChannel'.queue)
<1>1. /\ bufferChannel.queue \in Seq(BufferMessage)
      /\ markers \in Seq(MarkerEntry)
      /\ added \in [Threads -> Nat]
  BY QueueTypes DEF PanicInv, TypeOK, BufferTypeOK, RegistrarTypeOK
<1>2. CASE UNCHANGED <<bufferChannel.queue, markers>>
  BY <1>2
<1>3. ASSUME NEW m \in BufferMessage, m.type # "AddMarker", UNCHANGED markers,
             bufferChannel'.queue = Append(bufferChannel.queue, m)
      PROVE  InOrder(markers', bufferChannel'.queue)
  BY <1>1, <1>3, InOrderSend
<1>4. CASE UNCHANGED vars
  BY <1>2, <1>4 DEF vars, channelVars, bufferVars
<1>5. CASE BufferNext
  <2>1. ASSUME bufferChannel.queue # <<>>, bufferChannel'.queue = Tail(bufferChannel.queue),
               Stores(BufferMsg)
        PROVE  InOrder(markers', bufferChannel'.queue)
    <3>1. CASE markers' = Append(markers, EntryOf(BufferMsg.tid, BufferMsg.marker))
               /\ BufferMsg.type = "AddMarker"
      BY <1>1, <2>1, <3>1, InOrderStore DEF BufferMsg
    <3>2. CASE UNCHANGED markers
      BY <1>1, <2>1, <3>2, InOrderReceive
    <3>3. ASSUME NEW k \in 0 .. Len(markers), markers' = SubSeq(markers, k + 1, Len(markers))
          PROVE  InOrder(markers', bufferChannel'.queue)
      <4>1. InOrder(markers, Tail(bufferChannel.queue))
        BY <1>1, <2>1, InOrderReceive
      <4> QED
        BY <1>1, <2>1, <3>3, <4>1, InOrderClear
    <3> QED
      BY <2>1, <3>1, <3>2, <3>3 DEF Stores, EntryOf
  <2> QED
    BY <1>2, <1>5, <2>1, BufferData
<1>6. CASE SamplerStep /\ UNCHANGED bufferVars
  <2>1. samplers \subseteq Threads
    BY DEF PanicInv, TypeOK, SamplerTypeOK
  <2>2. \A t \in samplers : [type |-> "AddSample", tid |-> t] \in BufferMessage
    BY <2>1, BufferMessages
  <2> QED
    BY <1>2, <1>3, <1>6, <2>2, SamplerData DEF bufferVars
<1>7. ASSUME NEW t \in Threads, ThreadStep(t), UNCHANGED bufferVars
      PROVE  InOrder(markers', bufferChannel'.queue)
  <2>1. CASE bufferChannel'.queue = Append(bufferChannel.queue, MarkerMsg(t, added[t] + 1))
    <3>1. /\ MarkerMsg(t, added[t] + 1) \in BufferMessage
          /\ MarkerMsg(t, added[t] + 1).tid = t
          /\ MarkerMsg(t, added[t] + 1).marker = added[t] + 1
      BY <1>1, BufferMessages DEF MarkerMsg
    <3>2. \A i \in DOMAIN markers : markers[i].tid = t => markers[i].marker < added[t] + 1
      <4>1. \A i \in DOMAIN markers : markers[i] \in MarkerEntry
        BY <1>1
      <4>2. \A i \in DOMAIN markers : markers[i].marker \in Nat
        BY <4>1 DEF MarkerEntry
      <4> QED
        BY <1>1, <4>2, NumbersAreGiven DEF PanicInv
    <3>3. \A i \in DOMAIN bufferChannel.queue :
            bufferChannel.queue[i].type = "AddMarker" /\ bufferChannel.queue[i].tid = t
              => bufferChannel.queue[i].marker < added[t] + 1
      <4>1. \A i \in DOMAIN bufferChannel.queue : bufferChannel.queue[i] \in BufferMessage
        BY <1>1
      <4>2. \A i \in DOMAIN bufferChannel.queue :
              bufferChannel.queue[i].type = "AddMarker" => bufferChannel.queue[i].marker \in Nat
        BY <4>1, MarkerParts
      <4> QED
        BY <1>1, <4>2, NumbersAreGiven DEF PanicInv
    <3> QED
      BY <1>1, <1>7, <2>1, <3>1, <3>2, <3>3, InOrderSend DEF bufferVars
  <2>2. CASE UNCHANGED bufferChannel.queue
    BY <1>2, <1>7, <2>2 DEF bufferVars
  <2>3. CASE bufferChannel'.queue = Append(bufferChannel.queue, [type |-> "ClearExpiredMarkers"])
    BY <1>3, <1>7, <2>3, BufferMessages DEF bufferVars
  <2> QED
    BY <1>7, <2>1, <2>2, <2>3, ThreadData DEF MarkerMsg
<1>8. CASE CoreStep /\ UNCHANGED bufferVars
  <2>1. \A m \in BufferMessage : m.type \in Requests => m.type # "AddMarker"
    BY DEF Requests
  <2> QED
    BY <1>2, <1>3, <1>8, <2>1, CoreData DEF bufferVars
<1> QED
  BY <1>4, <1>5, <1>6, <1>7, <1>8 DEF Next

\* Each thread's markers are stored in the order of its add_marker calls, each once
\* (one channel, and push_back in BufferThread::add_marker).
THEOREM MarkersInOrderHolds == Spec => []MarkersInOrder
<1> DEFINE Inv == AllRecorded /\ MarkersInOrder
<1>1. Init => Inv
  BY RecordedInit DEF Init, ChannelsInit, Open, BufferInit, MarkersInOrder, InFlight
<1>2. PanicInv /\ PanicInv' /\ Inv /\ [Next]_vars => Inv'
  <2> SUFFICES ASSUME PanicInv, PanicInv', Inv, [Next]_vars PROVE Inv'
      OBVIOUS
  <2>1. AllRecorded'
    BY RecordedStep
  <2>2. InOrder(markers', bufferChannel'.queue)
    BY InOrderStep, OrderIsInOrder
  <2> QED
    BY <2>1, <2>2 DEF MarkersInOrder, InOrder, InFlight
<1> QED
  BY <1>1, <1>2, PanicInvariant, PTL DEF Spec

-----------------------------------------------------------------------------
(* WaitSeesSample: a wait is answered because of a sample of its own.      *)

\* The response to a wait_for_one_sample is on its way.
WaitAnswered ==
  /\ core = "awaiting"
  /\ request = "WaitingForOneSample"
  /\ serializationChannel.queue # <<>>

\* A sample was stored for each wait that has returned, or is about to.
Paid == IF WaitAnswered THEN answered + 1 <= Len(samples) ELSE answered <= Len(samples)

\* The buffer thread answers a wait when it has stored a sample, and no other request
\* while the core is in a wait.
LEMMA PaidBuffer ==
  ASSUME PanicInv, PanicInv', Paid, BufferNext, UNCHANGED coreVars
  PROVE  Paid'
<1>1. /\ IsChannel(bufferChannel) /\ IsChannel(serializationChannel)
      /\ bufferThread' # "panicked"
      /\ samples \in Seq(Threads) /\ Len(samples) \in Nat /\ answered \in Nat
      /\ bufferChannel.queue \in Seq(BufferMessage)
  BY AreChannels, QueueTypes DEF PanicInv, ThreadsNeverPanic, TypeOK, BufferTypeOK, CoreTypeOK
<1>2. UNCHANGED <<core, request, answered>>
  BY DEF coreVars
<1>3. ASSUME UNCHANGED <<serializationChannel.queue, samples>>
      PROVE  Paid'
  BY <1>2, <1>3 DEF Paid, WaitAnswered
<1>4. ASSUME BufferMsg.type \in Requests \ {"WaitingForOneSample"}, bufferChannel.queue # <<>>,
             UNCHANGED samples
      PROVE  Paid'
  <2>1. 1 \in DOMAIN bufferChannel.queue /\ IsRequest(1)
        /\ bufferChannel.queue[1].type # "WaitingForOneSample"
    BY <1>1, <1>4, TailSeq DEF IsRequest, BufferMsg
  <2>2. ~(core = "awaiting" /\ request = "WaitingForOneSample")
    BY <2>1 DEF PanicInv, Lockstep, RequestQueued, RequestDeferred, RequestResponded,
                OneRequestQueued, NoRequestQueued
  <2> QED
    BY <1>2, <1>4, <2>2 DEF Paid, WaitAnswered
<1>5. CASE StoreSample
  <2>1. Len(samples') = Len(samples) + 1
    BY <1>1, <1>5 DEF StoreSample
  <2> QED
    BY <1>1, <1>2, <2>1 DEF Paid
<1>6. CASE SerializeBuffer \/ AnswerSampleCount
  BY <1>4, <1>6 DEF SerializeBuffer, AnswerSampleCount, BufferReceives, BufferMsg, Requests
<1>7. CASE StoreMarker \/ ClearExpiredMarkers \/ NoteWait
  BY <1>3, <1>7 DEF StoreMarker, ClearExpiredMarkers, NoteWait, Consume
<1>8. CASE BufferExits
  BY <1>1, <1>3, <1>8, DropSenderFields DEF BufferExits
<1> QED
  BY <1>5, <1>6, <1>7, <1>8 DEF BufferNext

\* The core counts a wait when it takes its response, and starts one when no response
\* is on its way.
LEMMA PaidCore ==
  ASSUME PanicInv, Paid, CoreStep, UNCHANGED bufferVars
  PROVE  Paid'
<1>1. /\ IsChannel(serializationChannel)
      /\ Len(samples) \in Nat /\ answered \in Nat
      /\ UNCHANGED samples
  BY AreChannels DEF PanicInv, TypeOK, BufferTypeOK, CoreTypeOK, bufferVars
<1>2. ASSUME UNCHANGED answered, core' # "awaiting"
      PROVE  Paid'
  BY <1>1, <1>2 DEF Paid, WaitAnswered
<1>3. ASSUME NEW how \in {"dropped", "panicked"}, UNCHANGED answered, DropsCore(how)
      PROVE  Paid'
  BY <1>2, <1>3 DEF DropsCore
<1>4. ASSUME NEW m, UNCHANGED answered, core # "awaiting", SendRequest(m)
      PROVE  Paid'
  <2>1. CASE bufferChannel.receiver
    <3>1. serializationChannel.queue = <<>> /\ UNCHANGED serializationChannel
      BY <1>4, <2>1 DEF PanicInv, Lockstep, NoRequest, SendRequest
    <3> QED
      BY <1>1, <1>4, <3>1 DEF Paid, WaitAnswered
  <2>2. CASE ~bufferChannel.receiver
    BY <1>3, <1>4, <2>2 DEF SendRequest
  <2> QED
    BY <2>1, <2>2
<1>5. ASSUME NEW t \in Threads, GetThreadRegistrar(t)
      PROVE  Paid'
  BY <1>2, <1>5 DEF GetThreadRegistrar
<1>6. CASE CallStartSampling
  BY <1>2, <1>3, <1>6 DEF CallStartSampling, CanCall
<1>7. CASE CallGetSampleCount \/ CallWaitForOneSample \/ SendSerialize
  BY <1>4, <1>7 DEF CallGetSampleCount, CallWaitForOneSample, SendSerialize, CanCall
<1>8. CASE CallSerialize \/ CollectThreadInfo
  BY <1>2, <1>8 DEF CallSerialize, CollectThreadInfo
<1>9. CASE DropCore
  BY <1>3, <1>9 DEF DropCore
<1>10. CASE ReceiveResponse
  <2>1. CASE DropsCore("panicked") /\ UNCHANGED answered
    BY <1>3, <2>1
  <2>2. CASE /\ serializationChannel.queue # <<>> /\ core = "awaiting" /\ core' = "idle"
             /\ answered' = IF request = "WaitingForOneSample" THEN answered + 1 ELSE answered
    BY <1>1, <2>2 DEF Paid, WaitAnswered
  <2> QED
    BY <1>10, <2>1, <2>2 DEF ReceiveResponse
<1> QED
  BY <1>5, <1>6, <1>7, <1>8, <1>9, <1>10 DEF CoreStep, CoreNext

\* Nobody else has a hand in the responses.
LEMMA ResponsesAlone ==
  ASSUME PanicInv, SamplerStep \/ (\E t \in Threads : ThreadStep(t))
  PROVE  UNCHANGED serializationChannel
<1>1. CASE SamplerStep
  BY <1>1 DEF SamplerStep, SamplerLoop, RegisterSampler, UnregisterSampler, StartSampling,
              PauseSampling, StopSampling, SamplerReturns, BeginRound, EndRound, TakeSample,
              SkipSample, Continue, SamplerEnds, channelVars
<1>2. CASE \E t \in Threads : ThreadStep(t)
  BY <1>2 DEF ThreadStep, PublishThreadInfo, SendRegisterSampler, AddMarker, Unregister,
              ControlSampler, ControlBuffer, DropSendersOf, channelVars
<1> QED
  BY <1>1, <1>2

\* wait_for_one_sample never returns without a sample that was stored for it (the
\* WaitingForOneSample and AddSample arms, and wait_for_one_sample).
THEOREM WaitSeesSampleHolds == Spec => []WaitSeesSample
<1>1. Init => Paid
  BY DEF Init, ChannelsInit, Open, BufferInit, CoreInit, Paid, WaitAnswered
<1>2. PanicInv /\ PanicInv' /\ Paid /\ [Next]_vars => Paid'
  <2> SUFFICES ASSUME PanicInv, PanicInv', Paid, [Next]_vars PROVE Paid'
      OBVIOUS
  <2>1. ASSUME UNCHANGED <<serializationChannel, bufferVars, coreVars>>
        PROVE  Paid'
    BY <2>1 DEF bufferVars, coreVars, Paid, WaitAnswered
  <2>2. CASE UNCHANGED vars
    BY <2>1, <2>2 DEF vars, channelVars
  <2>3. CASE Next
    BY <2>1, <2>3, PaidBuffer, PaidCore, ResponsesAlone DEF Next
  <2> QED
    BY <2>2, <2>3
<1>3. PanicInv /\ Paid => WaitSeesSample
  BY DEF PanicInv, TypeOK, BufferTypeOK, CoreTypeOK, Paid, WaitSeesSample
<1> QED
  BY <1>1, <1>2, <1>3, PanicInvariant, PTL DEF Spec

-----------------------------------------------------------------------------
(* SamplersConverge: the list of samplers and the channel, of one thread t *)
(* that stands at stand, for any list and any queue q.                     *)

RegisterMsg(t) == [type |-> "RegisterSampler", tid |-> t]

\* The order of the messages about t, and what they amount to.
Converges(t, stand, list, q) ==
  /\ \A i, j \in DOMAIN q : q[i] = RegisterMsg(t) /\ q[j] = RegisterMsg(t) => i = j
  /\ \A i, j \in DOMAIN q : q[i] = RegisterMsg(t) /\ q[j] = UnregisterMsg(t) => i < j
  /\ t \in list => RegisterMsg(t) \notin Messages(q)
  /\ stand \in {"absent", "holding", "published"} =>
       t \notin list /\ RegisterMsg(t) \notin Messages(q) /\ UnregisterMsg(t) \notin Messages(q)
  /\ stand = "instrumented" =>
       (t \in list \/ RegisterMsg(t) \in Messages(q)) /\ UnregisterMsg(t) \notin Messages(q)
  /\ stand \in {"finished", "panicked"} =>
       (t \in list \/ RegisterMsg(t) \in Messages(q) => UnregisterMsg(t) \in Messages(q))

AllConverge ==
  SamplerAlive => \A t \in Threads : Converges(t, thread[t], samplers, samplerChannel.queue)

\* The two messages about t are different, and those about another thread are others.
LEMMA MessagesDiffer ==
  ASSUME NEW t, NEW u
  PROVE  /\ RegisterMsg(t) # UnregisterMsg(u)
         /\ RegisterMsg(t) = RegisterMsg(u) <=> t = u
         /\ UnregisterMsg(t) = UnregisterMsg(u) <=> t = u
         /\ \A m : m.type \notin {"RegisterSampler", "UnregisterSampler"} =>
              m # RegisterMsg(t) /\ m # UnregisterMsg(t)
  BY DEF RegisterMsg, UnregisterMsg

\* A message that is not about t changes nothing for it.
LEMMA ConvergesSend ==
  ASSUME NEW t, NEW stand, NEW list, NEW q \in Seq(SamplerMessage), NEW m \in SamplerMessage,
         Converges(t, stand, list, q), m # RegisterMsg(t), m # UnregisterMsg(t)
  PROVE  Converges(t, stand, list, Append(q, m))
<1> DEFINE r == Append(q, m)
<1>1. /\ \A i \in DOMAIN r : i \in DOMAIN q \/ r[i] = m
      /\ \A i \in DOMAIN q : r[i] = q[i]
  BY AppendSeq
<1>2. Messages(r) = Messages(q) \cup {m}
  BY MessagesAfterAppend
<1> HIDE DEF r
<1>3. Converges(t, stand, list, r)
  BY <1>1, <1>2 DEF Converges
<1> QED
  BY <1>3 DEF r

\* register: the first message about t.
LEMMA ConvergesRegister ==
  ASSUME NEW t \in Threads, NEW list, NEW q \in Seq(SamplerMessage),
         Converges(t, "published", list, q)
  PROVE  Converges(t, "instrumented", list, Append(q, RegisterMsg(t)))
<1> DEFINE m == RegisterMsg(t)
           r == Append(q, m)
<1>1. m \in SamplerMessage /\ m # UnregisterMsg(t)
  BY SamplerMessages, MessagesDiffer DEF RegisterMsg
<1>2. /\ \A i \in DOMAIN r : i \in DOMAIN q \/ i = Len(q) + 1
      /\ \A i \in DOMAIN q : r[i] = q[i]
      /\ r[Len(q) + 1] = m
  <2> HIDE DEF m
  <2> QED
    BY <1>1, AppendSeq
<1>3. Messages(r) = Messages(q) \cup {m}
  BY <1>1, MessagesAfterAppend
<1> HIDE DEF r
<1>4. \A i \in DOMAIN q : q[i] # m /\ q[i] # UnregisterMsg(t)
  BY DEF Converges, Messages
<1>5. Converges(t, "instrumented", list, r)
  BY <1>1, <1>2, <1>3, <1>4 DEF Converges
<1> QED
  BY <1>5 DEF r

\* unregister_thread: the last one.
LEMMA ConvergesUnregister ==
  ASSUME NEW t \in Threads, NEW list, NEW q \in Seq(SamplerMessage),
         NEW stand \in {"finished", "panicked"}, Converges(t, "instrumented", list, q)
  PROVE  Converges(t, stand, list, Append(q, UnregisterMsg(t)))
<1> DEFINE m == UnregisterMsg(t)
           r == Append(q, m)
<1>1. m \in SamplerMessage /\ m # RegisterMsg(t)
  BY SamplerMessages, MessagesDiffer
<1>2. /\ \A i \in DOMAIN r : i \in DOMAIN q \/ i = Len(q) + 1
      /\ \A i \in DOMAIN q : r[i] = q[i] /\ i < Len(q) + 1
      /\ r[Len(q) + 1] = m
  <2> HIDE DEF m
  <2> QED
    BY <1>1, AppendSeq
<1>3. Messages(r) = Messages(q) \cup {m}
  BY <1>1, MessagesAfterAppend
<1> HIDE DEF r
<1>4. \A i \in DOMAIN q : q[i] # m
  BY DEF Converges, Messages
<1>5. Converges(t, stand, list, r)
  BY <1>1, <1>2, <1>3, <1>4 DEF Converges
<1> QED
  BY <1>5 DEF r

\* A message that is handled: what it says of t is in the list by then.
LEMMA ConvergesHandle ==
  ASSUME NEW t \in Threads, NEW stand \in {"absent", "holding", "published", "instrumented",
                                           "finished", "panicked"},
         NEW list, NEW after, NEW q \in Seq(SamplerMessage), q # <<>>,
         Converges(t, stand, list, q),
         \/ Head(q) = RegisterMsg(t) /\ (t \in after)
         \/ Head(q) = UnregisterMsg(t) /\ (t \notin after)
         \/ Head(q) # RegisterMsg(t) /\ Head(q) # UnregisterMsg(t) /\ (t \in after <=> t \in list)
  PROVE  Converges(t, stand, after, Tail(q))
<1> DEFINE r == Tail(q)
<1>1. /\ Head(q) = q[1] /\ 1 \in DOMAIN q
      /\ \A i \in DOMAIN r : i \in Nat \ {0} /\ i + 1 \in DOMAIN q /\ r[i] = q[i + 1]
  BY TailSeq
<1>2. Messages(q) = {Head(q)} \cup Messages(r)
  BY MessagesAfterTail
<1> SUFFICES Converges(t, stand, after, r)
    OBVIOUS
<1> HIDE DEF r
<1>3. \A i, j \in DOMAIN r : /\ i + 1 = j + 1 => i = j
                             /\ i + 1 < j + 1 => i < j
  BY <1>1
<1>4. \A i \in DOMAIN r : i + 1 # 1 /\ ~(i + 1 < 1)
  BY <1>1
<1>5. /\ \A i, j \in DOMAIN r : r[i] = RegisterMsg(t) /\ r[j] = RegisterMsg(t) => i = j
      /\ \A i, j \in DOMAIN r : r[i] = RegisterMsg(t) /\ r[j] = UnregisterMsg(t) => i < j
  BY <1>1, <1>3 DEF Converges
<1>6. RegisterMsg(t) # UnregisterMsg(t)
  BY MessagesDiffer
<1>7. CASE Head(q) = RegisterMsg(t)
  <2>1. RegisterMsg(t) \notin Messages(r)
    <3>1. ASSUME NEW i \in DOMAIN r, r[i] = RegisterMsg(t) PROVE FALSE
      BY <1>1, <1>4, <1>7, <3>1 DEF Converges
    <3> QED
      BY <3>1 DEF Messages
  <2> QED
    BY <1>2, <1>5, <1>6, <1>7, <2>1 DEF Converges
<1>8. CASE Head(q) = UnregisterMsg(t)
  <2>1. RegisterMsg(t) \notin Messages(r)
    <3>1. ASSUME NEW i \in DOMAIN r, r[i] = RegisterMsg(t) PROVE FALSE
      BY <1>1, <1>4, <1>8, <3>1 DEF Converges
    <3> QED
      BY <3>1 DEF Messages
  <2> QED
    BY <1>2, <1>5, <1>6, <1>8, <2>1 DEF Converges
<1>9. CASE Head(q) # RegisterMsg(t) /\ Head(q) # UnregisterMsg(t)
  BY <1>2, <1>5, <1>9 DEF Converges
<1> QED
  BY <1>7, <1>8, <1>9

\* A message about a thread is one of the two.
LEMMA AboutParts ==
  ASSUME NEW m \in SamplerMessage
  PROVE  /\ m.type = "RegisterSampler" => m = RegisterMsg(m.tid)
         /\ m.type = "UnregisterSampler" => m = UnregisterMsg(m.tid)
  BY DEF SamplerMessage, RegisterMsg, UnregisterMsg

\* The sampler thread, while it lives.
LEMMA ConvergeSampler ==
  ASSUME PanicInv, PanicInv', AllConverge, SamplerStep, SamplerAlive', UNCHANGED registrarVars
  PROVE  AllConverge'
<1>1. /\ samplerChannel.queue \in Seq(SamplerMessage)
      /\ thread \in [Threads -> {"absent", "holding", "published", "instrumented",
                                 "finished", "panicked"}]
      /\ UNCHANGED thread
  BY QueueTypes DEF PanicInv, TypeOK, RegistrarTypeOK, registrarVars
<1>2. SamplerAlive
  BY DEF SamplerStep, SamplerLoop, RegisterSampler, UnregisterSampler, StartSampling,
         PauseSampling, StopSampling, SamplerReturns, BeginRound, EndRound, TakeSample,
         SkipSample, SamplerReceives, SamplerAlive
<1>3. CASE UNCHANGED <<samplerChannel.queue, samplers>>
  BY <1>1, <1>2, <1>3 DEF AllConverge
<1>4. ASSUME samplerChannel.queue # <<>>, samplerChannel'.queue = Tail(samplerChannel.queue),
             \/ /\ SamplerMsg.type = "RegisterSampler"
                /\ samplers' = samplers \cup {SamplerMsg.tid}
             \/ /\ SamplerMsg.type = "UnregisterSampler"
                /\ samplers' = samplers \ {SamplerMsg.tid}
             \/ /\ SamplerMsg.type \in {"StartSampling", "PauseSampling"}
                /\ UNCHANGED samplers,
             NEW t \in Threads
      PROVE  Converges(t, thread[t], samplers', Tail(samplerChannel.queue))
  <2>1. /\ SamplerMsg \in SamplerMessage
        /\ SamplerMsg = Head(samplerChannel.queue)
    BY <1>1, <1>4, TailSeq DEF SamplerMsg
  <2>2. \/ SamplerMsg = RegisterMsg(t) /\ (t \in samplers')
        \/ SamplerMsg = UnregisterMsg(t) /\ (t \notin samplers')
        \/ SamplerMsg # RegisterMsg(t) /\ SamplerMsg # UnregisterMsg(t)
           /\ (t \in samplers' <=> t \in samplers)
    <3>1. CASE SamplerMsg.type = "RegisterSampler"
      <4>1. SamplerMsg = RegisterMsg(SamplerMsg.tid) /\ samplers' = samplers \cup {SamplerMsg.tid}
        BY <1>4, <2>1, <3>1, AboutParts
      <4>2. /\ SamplerMsg # UnregisterMsg(t)
            /\ SamplerMsg = RegisterMsg(t) <=> t = SamplerMsg.tid
        BY <4>1, MessagesDiffer
      <4> QED
        BY <4>1, <4>2
    <3>2. CASE SamplerMsg.type = "UnregisterSampler"
      <4>1. SamplerMsg = UnregisterMsg(SamplerMsg.tid) /\ samplers' = samplers \ {SamplerMsg.tid}
        BY <1>4, <2>1, <3>2, AboutParts
      <4>2. /\ SamplerMsg # RegisterMsg(t)
            /\ SamplerMsg = UnregisterMsg(t) <=> t = SamplerMsg.tid
        BY <4>1, MessagesDiffer
      <4> QED
        BY <4>1, <4>2
    <3>3. CASE SamplerMsg.type \in {"StartSampling", "PauseSampling"}
      BY <1>4, <3>3, MessagesDiffer
    <3> QED
      BY <1>4, <3>1, <3>2, <3>3
  <2>3. Converges(t, thread[t], samplers, samplerChannel.queue)
    BY <1>2 DEF AllConverge
  <2> QED
    BY <1>1, <1>4, <2>1, <2>2, <2>3, ConvergesHandle
<1> QED
  BY <1>1, <1>3, <1>4, SamplerData DEF AllConverge

\* The threads, while the sampler thread lives.
LEMMA ConvergeThread ==
  ASSUME PanicInv, AllConverge, NEW u \in Threads, ThreadStep(u), SamplerAlive,
         UNCHANGED samplerVars
  PROVE  AllConverge'
<1>1. /\ samplerChannel.queue \in Seq(SamplerMessage)
      /\ thread \in [Threads -> {"absent", "holding", "published", "instrumented",
                                 "finished", "panicked"}]
      /\ samplerChannel.receiver
      /\ UNCHANGED samplers
  BY QueueTypes DEF PanicInv, TypeOK, RegistrarTypeOK, Endpoints, samplerVars
<1>2. \A t \in Threads : Converges(t, thread[t], samplers, samplerChannel.queue)
  BY DEF AllConverge
<1>3. ASSUME NEW stand, Becomes(u, stand)
      PROVE  thread'[u] = stand /\ \A t \in Threads \ {u} : thread'[t] = thread[t]
  BY <1>1, <1>3 DEF Becomes
<1>4. CASE UNCHANGED <<thread, samplerChannel.queue>>
  BY <1>1, <1>2, <1>4 DEF AllConverge
<1>5. CASE thread[u] = "holding" /\ Becomes(u, "published") /\ UNCHANGED samplerChannel.queue
  <2>1. Converges(u, "published", samplers, samplerChannel.queue)
    BY <1>2, <1>5 DEF Converges
  <2> QED
    BY <1>1, <1>2, <1>3, <1>5, <2>1 DEF AllConverge
<1>6. CASE /\ thread[u] = "published"
           /\ Becomes(u, "instrumented")
           /\ samplerChannel'.queue = Append(samplerChannel.queue, RegisterMsg(u))
  <2>1. Converges(u, "instrumented", samplers, samplerChannel'.queue)
    BY <1>1, <1>2, <1>6, ConvergesRegister
  <2>2. \A t \in Threads \ {u} : Converges(t, thread[t], samplers, samplerChannel'.queue)
    <3>1. RegisterMsg(u) \in SamplerMessage
      BY SamplerMessages DEF RegisterMsg
    <3>2. \A t \in Threads \ {u} : RegisterMsg(u) # RegisterMsg(t) /\ RegisterMsg(u) # UnregisterMsg(t)
      BY MessagesDiffer
    <3> QED
      BY <1>1, <1>2, <1>6, <3>1, <3>2, ConvergesSend
  <2> QED
    BY <1>1, <1>3, <1>6, <2>1, <2>2 DEF AllConverge
<1>7. ASSUME thread[u] = "instrumented",
             NEW stand \in {"finished", "panicked"}, Becomes(u, stand),
             samplerChannel'.queue = Append(samplerChannel.queue, UnregisterMsg(u))
      PROVE  AllConverge'
  <2>1. Converges(u, stand, samplers, samplerChannel'.queue)
    BY <1>1, <1>2, <1>7, ConvergesUnregister
  <2>2. \A t \in Threads \ {u} : Converges(t, thread[t], samplers, samplerChannel'.queue)
    <3>1. UnregisterMsg(u) \in SamplerMessage
      BY SamplerMessages
    <3>2. \A t \in Threads \ {u} :
            UnregisterMsg(u) # RegisterMsg(t) /\ UnregisterMsg(u) # UnregisterMsg(t)
      BY MessagesDiffer
    <3> QED
      BY <1>1, <1>2, <1>7, <3>1, <3>2, ConvergesSend
  <2> QED
    BY <1>1, <1>3, <1>7, <2>1, <2>2 DEF AllConverge
<1>8. ASSUME NEW c \in SamplerControls, UNCHANGED thread,
             samplerChannel'.queue = Append(samplerChannel.queue, [type |-> c])
      PROVE  AllConverge'
  <2>1. /\ [type |-> c] \in SamplerMessage
        /\ \A t : [type |-> c] # RegisterMsg(t) /\ [type |-> c] # UnregisterMsg(t)
    BY SamplerMessages, MessagesDiffer DEF SamplerControls
  <2>2. \A t \in Threads : Converges(t, thread[t], samplers, samplerChannel'.queue)
    BY <1>1, <1>2, <1>8, <2>1, ConvergesSend
  <2> QED
    BY <1>1, <1>8, <2>2 DEF AllConverge
<1> QED
  BY <1>1, <1>4, <1>5, <1>6, <1>7, <1>8, ThreadData DEF RegisterMsg

\* The core, while the sampler thread lives.
LEMMA ConvergeCore ==
  ASSUME PanicInv, AllConverge, CoreStep, SamplerAlive, UNCHANGED samplerVars
  PROVE  AllConverge'
<1>1. /\ samplerChannel.queue \in Seq(SamplerMessage)
      /\ thread \in [Threads -> {"absent", "holding", "published", "instrumented",
                                 "finished", "panicked"}]
      /\ UNCHANGED samplers
  BY QueueTypes DEF PanicInv, TypeOK, RegistrarTypeOK, samplerVars
<1>2. \A t \in Threads : Converges(t, thread[t], samplers, samplerChannel.queue)
  BY DEF AllConverge
<1>3. \A t \in Threads : Converges(t, thread[t], samplers, samplerChannel'.queue)
  <2>1. CASE UNCHANGED samplerChannel.queue
    BY <1>2, <2>1
  <2>2. CASE samplerChannel'.queue = Append(samplerChannel.queue, [type |-> "StartSampling"])
    BY <1>1, <1>2, <2>2, SamplerMessages, MessagesDiffer, ConvergesSend
  <2> QED
    BY <2>1, <2>2, CoreData
<1>4. \A t \in Threads : \/ thread'[t] = thread[t]
                         \/ thread[t] = "absent" /\ thread'[t] = "holding"
  BY <1>1, CoreData DEF Becomes
<1>5. \A t \in Threads : Converges(t, thread'[t], samplers, samplerChannel'.queue)
  <2> SUFFICES ASSUME NEW t \in Threads
               PROVE  Converges(t, thread'[t], samplers, samplerChannel'.queue)
      OBVIOUS
  <2>1. CASE thread[t] = "absent" /\ thread'[t] = "holding"
    BY <1>3, <2>1 DEF Converges
  <2> QED
    BY <1>3, <1>4, <2>1
<1> QED
  BY <1>1, <1>5 DEF AllConverge

\* A registered thread is sampled and a finished one is not, once the sampler thread has
\* caught up (register, unregister_thread, the RegisterSampler and UnregisterSampler arms).
THEOREM SamplersConvergeHolds == Spec => []SamplersConverge
<1>1. Init => AllConverge
  <2> SUFFICES ASSUME Init PROVE AllConverge
      OBVIOUS
  <2>1. samplers = {} /\ samplerChannel.queue = <<>> /\ thread = [t \in Threads |-> "absent"]
    BY DEF Init, ChannelsInit, Open, SamplerInit, RegistrarInit
  <2>2. ASSUME NEW t \in Threads
        PROVE  Converges(t, thread[t], samplers, samplerChannel.queue)
    <3>1. thread[t] = "absent" /\ DOMAIN samplerChannel.queue = {}
      BY <2>1
    <3>2. Messages(samplerChannel.queue) = {}
      BY <3>1 DEF Messages
    <3> QED
      BY <2>1, <3>1, <3>2 DEF Converges
  <2> QED
    BY <2>2 DEF AllConverge
<1>2. PanicInv /\ PanicInv' /\ AllConverge /\ [Next]_vars => AllConverge'
  <2> SUFFICES ASSUME PanicInv, PanicInv', AllConverge, [Next]_vars, SamplerAlive'
               PROVE  AllConverge'
      BY DEF AllConverge
  <2>1. ASSUME UNCHANGED <<samplerChannel, samplerVars, registrarVars>>
        PROVE  AllConverge'
    BY <2>1 DEF samplerVars, registrarVars, AllConverge, SamplerAlive
  <2>2. CASE UNCHANGED vars
    BY <2>1, <2>2 DEF vars, channelVars
  <2>3. CASE BufferNext /\ UNCHANGED <<samplerVars, registrarVars>>
    BY <2>1, <2>3, BufferData
  <2>4. CASE SamplerStep /\ UNCHANGED registrarVars
    BY <2>4, ConvergeSampler
  <2>5. CASE (\E t \in Threads : ThreadStep(t)) /\ UNCHANGED samplerVars
    BY <2>5, ConvergeThread DEF samplerVars, SamplerAlive
  <2>6. CASE CoreStep /\ UNCHANGED samplerVars
    BY <2>6, ConvergeCore DEF samplerVars, SamplerAlive
  <2> QED
    BY <2>2, <2>3, <2>4, <2>5, <2>6 DEF Next
<1>3. PanicInv /\ AllConverge => SamplersConverge
  <2> SUFFICES ASSUME PanicInv, AllConverge, SamplerAlive, NEW t \in Threads
               PROVE  LET registering == QueuedForSampler([type |-> "RegisterSampler", tid |-> t])
                          unregistering == QueuedForSampler(UnregisterMsg(t))
                      IN  IF thread[t] = "instrumented"
                          THEN (t \in samplers <=> ~registering) /\ ~unregistering
                          ELSE (t \in samplers \/ registering) => unregistering
      BY DEF SamplersConverge
  <2>1. /\ QueuedForSampler(RegisterMsg(t)) <=> RegisterMsg(t) \in Messages(samplerChannel.queue)
        /\ QueuedForSampler(UnregisterMsg(t)) <=> UnregisterMsg(t) \in Messages(samplerChannel.queue)
    BY DEF QueuedForSampler, Messages
  <2>2. thread[t] \in {"absent", "holding", "published", "instrumented", "finished", "panicked"}
    BY DEF PanicInv, TypeOK, RegistrarTypeOK
  <2>3. Converges(t, thread[t], samplers, samplerChannel.queue)
    BY DEF AllConverge
  <2> QED
    BY <2>1, <2>2, <2>3 DEF Converges, RegisterMsg
<1> QED
  BY <1>1, <1>2, <1>3, PanicInvariant, PTL DEF Spec
=============================================================================
