-------------------------- MODULE ProfilerLogProofs --------------------------
(***************************************************************************)
(* What serialize returns, for any set of threads, any controls and any    *)
(* bounds.  CompleteInv follows a request from the slots that serialize    *)
(* locks through the channel, the buffer and the response to the profile.  *)
(* Then the profiler, step by step, is shown to implement ProfileLog.      *)
(***************************************************************************)
EXTENDS ProfilerProofs, ProfilerLog, WellFoundedInduction

\* A profile p that covers what call had been given, with ex expired and ss stored.
Complete(p, ex, ss, call) ==
  /\ \A i, j \in DOMAIN p : p[i].tid = p[j].tid => i = j
  /\ \A t \in call.threadInfo : \E i \in DOMAIN p :
       /\ p[i].tid = t
       /\ \A n \in 1 .. call.added[t] : n \in p[i].markers \/ EntryOf(t, n) \in ex
       /\ \A n \in 1 .. call.samples : ss[n] = t => n \in p[i].samples

\* What was given is only added to.
SinceCall ==
  /\ atCall.threadInfo \subseteq threadInfo
  /\ \A t \in Threads : atCall.added[t] <= added[t]
  /\ atCall.samples <= Len(samples)

\* The core keeps the slot of each registrar it gave out, once.
Listed ==
  /\ \A t \in Threads : thread[t] # "absent" => \E i \in DOMAIN registrars : registrars[i] = t
  /\ \A i \in DOMAIN registrars : thread[registrars[i]] # "absent"
  /\ \A i, j \in DOMAIN registrars : registrars[i] = registrars[j] => i = j
  /\ \A t \in threadInfo : thread[t] # "absent"

\* The list of names has one of each thread of call.
Covers(fs, call) ==
  /\ \A i, j \in DOMAIN fs : fs[i] = fs[j] => i = j
  /\ \A t \in call.threadInfo : \E i \in DOMAIN fs : fs[i] = t

\* serialize, while it locks one slot after the other.
Collected ==
  core = "collecting" =>
    /\ \A i, j \in DOMAIN infos : infos[i] = infos[j] => i = j
    /\ \A i \in DOMAIN infos : \E k \in DOMAIN registrars : k < slot /\ registrars[k] = infos[i]
    /\ \A k \in DOMAIN registrars : k < slot /\ registrars[k] \in atCall.threadInfo =>
         \E i \in DOMAIN infos : infos[i] = registrars[k]

\* The message at k of queue q asks for the names fs, behind all markers of call.
Ready(q, k, ms, ex, fs, call) ==
  /\ q[k].thread_infos = fs
  /\ \A t \in Threads : \A n \in 1 .. call.added[t] :
       \/ EntryOf(t, n) \in Messages(ms) \cup ex
       \/ \E j \in DOMAIN q : j < k /\ q[j] = MarkerMsg(t, n)

Requested ==
  \A k \in DOMAIN bufferChannel.queue :
    bufferChannel.queue[k].type = "SerializeBuffer" =>
      Covers(infos, atCall) /\ Ready(bufferChannel.queue, k, markers, expired, infos, atCall)

Responded ==
  \A k \in DOMAIN serializationChannel.queue :
    serializationChannel.queue[k].type = "Serialize" =>
      Complete(serializationChannel.queue[k].profile, expired, samples, atCall)

Returned ==
  core = "idle" /\ request = "SerializeBuffer" => Complete(profile, expired, samples, atCall)

CompleteInv ==
  AllRecorded /\ SinceCall /\ Listed /\ Collected /\ Requested /\ Responded /\ Returned

\* What was complete stays so when more is stored and more expires.
LEMMA CompleteKept ==
  ASSUME NEW p, NEW ex, NEW ss \in Seq(Threads), NEW call \in Given, NEW ex2, NEW ss2,
         Complete(p, ex, ss, call), call.samples <= Len(ss), ex \subseteq ex2,
         \A i \in DOMAIN ss : ss2[i] = ss[i]
  PROVE  Complete(p, ex2, ss2, call)
<1>1. \A n \in 1 .. call.samples : n \in DOMAIN ss
  BY DEF Given
<1> QED
  BY <1>1 DEF Complete

\* A message behind a request does not change what it finds.
LEMMA ReadySend ==
  ASSUME NEW q \in Seq(BufferMessage), NEW m \in BufferMessage, NEW k \in DOMAIN q,
         NEW ms, NEW ex, NEW fs, NEW call, Ready(q, k, ms, ex, fs, call)
  PROVE  Ready(Append(q, m), k, ms, ex, fs, call)
<1> DEFINE r == Append(q, m)
<1>1. \A i \in DOMAIN q : i \in DOMAIN r /\ r[i] = q[i]
  BY AppendSeq
<1> HIDE DEF r
<1>2. Ready(r, k, ms, ex, fs, call)
  BY <1>1 DEF Ready
<1> QED
  BY <1>2 DEF r

\* A message before it has been stored when it is gone.
LEMMA ReadyReceive ==
  ASSUME NEW q \in Seq(BufferMessage), q # <<>>, NEW k \in DOMAIN Tail(q),
         NEW ms, NEW ex, NEW ms2, NEW ex2, NEW fs, NEW call,
         Ready(q, k + 1, ms, ex, fs, call),
         Messages(ms) \cup ex \subseteq Messages(ms2) \cup ex2,
         \A t, n : Head(q) = MarkerMsg(t, n) => EntryOf(t, n) \in Messages(ms2) \cup ex2
  PROVE  Ready(Tail(q), k, ms2, ex2, fs, call)
<1> DEFINE r == Tail(q)
<1>1. /\ Head(q) = q[1]
      /\ k \in Nat
      /\ \A i \in DOMAIN r : r[i] = q[i + 1]
      /\ \A j \in DOMAIN q : j < k + 1 /\ j # 1 => j - 1 \in DOMAIN r /\ j - 1 < k /\ r[j - 1] = q[j]
  <2>1. /\ Head(q) = q[1]
        /\ Len(q) \in Nat \ {0}
        /\ DOMAIN q = 1 .. Len(q)
        /\ DOMAIN r = 1 .. Len(q) - 1
        /\ \A i \in DOMAIN r : r[i] = q[i + 1]
    BY TailSeq
  <2> HIDE DEF r
  <2>2. k \in DOMAIN r
    BY DEF r
  <2> QED
    BY <2>1, <2>2
<1>2. k \in DOMAIN r
  OBVIOUS
<1> SUFFICES Ready(r, k, ms2, ex2, fs, call)
    OBVIOUS
<1> HIDE DEF r
<1>3. r[k].thread_infos = fs
  BY <1>1, <1>2 DEF Ready
<1>4. ASSUME NEW t \in Threads, NEW n \in 1 .. call.added[t]
      PROVE  \/ EntryOf(t, n) \in Messages(ms2) \cup ex2
             \/ \E j \in DOMAIN r : j < k /\ r[j] = MarkerMsg(t, n)
  <2>1. CASE EntryOf(t, n) \in Messages(ms) \cup ex
    BY <2>1
  <2>2. ASSUME NEW j \in DOMAIN q, j < k + 1, q[j] = MarkerMsg(t, n)
        PROVE  \/ EntryOf(t, n) \in Messages(ms2) \cup ex2
               \/ \E i \in DOMAIN r : i < k /\ r[i] = MarkerMsg(t, n)
    <3>1. CASE j = 1
      BY <1>1, <2>2, <3>1
    <3>2. CASE j # 1
      <4>1. j - 1 \in DOMAIN r /\ j - 1 < k /\ r[j - 1] = MarkerMsg(t, n)
        BY <1>1, <2>2, <3>2
      <4> QED
        BY <4>1
    <3> QED
      BY <3>1, <3>2
  <2> QED
    BY <2>1, <2>2 DEF Ready
<1> QED
  BY <1>3, <1>4 DEF Ready

\* A message that asks for no profile leaves the one that does alone.
LEMMA RequestedSend ==
  ASSUME TypeOK, Requested, UNCHANGED <<markers, expired, infos, atCall>>,
         \/ UNCHANGED bufferChannel.queue
         \/ \E m \in BufferMessage : /\ m.type # "SerializeBuffer"
                                     /\ bufferChannel'.queue = Append(bufferChannel.queue, m)
  PROVE  Requested'
<1>1. CASE UNCHANGED bufferChannel.queue
  BY <1>1 DEF Requested
<1>2. ASSUME NEW m \in BufferMessage, m.type # "SerializeBuffer",
             bufferChannel'.queue = Append(bufferChannel.queue, m)
      PROVE  Requested'
  <2>1. bufferChannel.queue \in Seq(BufferMessage)
    BY QueueTypes
  <2>2. /\ \A i \in DOMAIN bufferChannel'.queue :
             i \in DOMAIN bufferChannel.queue \/ bufferChannel'.queue[i] = m
        /\ \A i \in DOMAIN bufferChannel.queue :
             bufferChannel'.queue[i] = bufferChannel.queue[i]
    BY <1>2, <2>1, AppendSeq
  <2>3. ASSUME NEW k \in DOMAIN bufferChannel'.queue,
               bufferChannel'.queue[k].type = "SerializeBuffer"
        PROVE  /\ Covers(infos, atCall)
               /\ Ready(bufferChannel'.queue, k, markers, expired, infos, atCall)
    <3>1. k \in DOMAIN bufferChannel.queue /\ bufferChannel.queue[k].type = "SerializeBuffer"
      BY <1>2, <2>2, <2>3
    <3>2. /\ Covers(infos, atCall)
          /\ Ready(bufferChannel.queue, k, markers, expired, infos, atCall)
      BY <3>1 DEF Requested
    <3> QED
      BY <1>2, <2>1, <3>1, <3>2, ReadySend
  <2> QED
    BY <2>3 DEF Requested
<1> QED
  BY <1>1, <1>2

\* What the sampler thread and the threads do keeps the profile complete: they add.
LEMMA CompleteOthers ==
  ASSUME PanicInv, PanicInv', CompleteInv, AllRecorded',
         \/ SamplerStep /\ UNCHANGED registrarVars
         \/ \E t \in Threads : ThreadStep(t),
         UNCHANGED <<bufferVars, coreVars, atCall>>
  PROVE  CompleteInv'
<1>1. /\ TypeOK
      /\ thread \in [Threads -> {"absent", "holding", "published", "instrumented",
                                 "finished", "panicked"}]
      /\ added \in [Threads -> Nat] /\ atCall \in Given
  BY DEF PanicInv, TypeOK, RegistrarTypeOK
<1>2. /\ UNCHANGED <<markers, samples, expired, serializationChannel, core, request, registrars,
                     infos, slot, profile, atCall>>
  BY ResponsesAlone DEF bufferVars, coreVars
<1>3. /\ threadInfo \subseteq threadInfo'
      /\ \A t \in Threads : added[t] <= added'[t]
      /\ \A t \in Threads : thread'[t] = "absent" <=> thread[t] = "absent"
      /\ \A t \in threadInfo' : t \in threadInfo \/ thread[t] = "holding"
  <2>1. CASE SamplerStep /\ UNCHANGED registrarVars
    BY <1>1, <2>1 DEF registrarVars
  <2>2. ASSUME NEW t \in Threads, ThreadStep(t)
        PROVE  /\ threadInfo \subseteq threadInfo'
               /\ \A u \in Threads : added[u] <= added'[u]
               /\ \A u \in Threads : thread'[u] = "absent" <=> thread[u] = "absent"
               /\ \A u \in threadInfo' : u \in threadInfo \/ thread[u] = "holding"
    <3>1. threadInfo' = threadInfo \/ (thread[t] = "holding" /\ threadInfo' = threadInfo \cup {t})
      BY <2>2, ThreadData
    <3>2. added' = added \/ added' = [added EXCEPT ![t] = @ + 1]
      BY <2>2, ThreadData
    <3>3. \/ thread' = thread
          \/ thread[t] # "absent" /\ \E stand \in {"published", "instrumented", "finished", "panicked"} :
                                       Becomes(t, stand)
      BY <2>2, ThreadData
    <3>4. \A u \in Threads : added[u] <= added'[u]
      BY <1>1, <3>2
    <3>5. \A u \in Threads : thread'[u] = "absent" <=> thread[u] = "absent"
      BY <1>1, <3>3 DEF Becomes
    <3> QED
      BY <3>1, <3>4, <3>5
  <2> QED
    BY <2>1, <2>2
<1>4. \/ UNCHANGED bufferChannel.queue
      \/ \E m \in BufferMessage : /\ m.type # "SerializeBuffer"
                                  /\ bufferChannel'.queue = Append(bufferChannel.queue, m)
  <2>1. CASE SamplerStep
    <3>1. samplers \subseteq Threads
      BY DEF PanicInv, TypeOK, SamplerTypeOK
    <3>2. \A t \in samplers : [type |-> "AddSample", tid |-> t] \in BufferMessage
      BY <3>1, BufferMessages
    <3> QED
      BY <2>1, <3>2, SamplerData
  <2>2. ASSUME NEW t \in Threads, ThreadStep(t)
        PROVE  \/ UNCHANGED bufferChannel.queue
               \/ \E m \in BufferMessage :
                    /\ m.type # "SerializeBuffer"
                    /\ bufferChannel'.queue = Append(bufferChannel.queue, m)
    <3>1. /\ [type |-> "AddMarker", tid |-> t, marker |-> added[t] + 1] \in BufferMessage
          /\ [type |-> "ClearExpiredMarkers"] \in BufferMessage
      BY <1>1, BufferMessages
    <3>2. \/ bufferChannel'.queue = bufferChannel.queue
          \/ bufferChannel'.queue =
               Append(bufferChannel.queue,
                      [type |-> "AddMarker", tid |-> t, marker |-> added[t] + 1])
          \/ bufferChannel'.queue = Append(bufferChannel.queue, [type |-> "ClearExpiredMarkers"])
      BY <2>2, ThreadData
    <3> QED
      BY <3>1, <3>2
  <2> QED
    BY <2>1, <2>2
<1>5. SinceCall'
  <2>1. \A t \in Threads : atCall.added[t] \in Nat /\ added[t] \in Nat /\ added'[t] \in Nat
    BY <1>1 DEF Given, PanicInv, TypeOK, RegistrarTypeOK
  <2> QED
    BY <1>2, <1>3, <2>1 DEF CompleteInv, SinceCall
<1>6. Listed'
  <2>1. \A i \in DOMAIN registrars : registrars[i] \in Threads
    BY DEF PanicInv, TypeOK, CoreTypeOK
  <2>2. threadInfo' \subseteq Threads
    BY DEF PanicInv, TypeOK, RegistrarTypeOK
  <2> QED
    BY <1>2, <1>3, <2>1, <2>2 DEF CompleteInv, Listed
<1>7. Collected'
  BY <1>2 DEF CompleteInv, Collected
<1>8. Requested'
  BY <1>1, <1>2, <1>4, RequestedSend DEF CompleteInv
<1>9. Responded' /\ Returned'
  BY <1>2 DEF CompleteInv, Responded, Returned
<1> QED
  BY <1>5, <1>6, <1>7, <1>8, <1>9 DEF CompleteInv

\* A message that is stored adds to the buffers, or moves markers to the expired ones.
LEMMA StoresKeeps ==
  ASSUME TypeOK, BufferMsg \in BufferMessage, Stores(BufferMsg)
  PROVE  /\ Messages(markers) \cup expired \subseteq Messages(markers') \cup expired'
         /\ \A t, n : BufferMsg = MarkerMsg(t, n) => EntryOf(t, n) \in Messages(markers')
         /\ expired \subseteq expired'
         /\ Len(samples) <= Len(samples')
         /\ \A i \in DOMAIN samples : samples'[i] = samples[i]
<1>1. markers \in Seq(MarkerEntry) /\ samples \in Seq(Threads)
  BY DEF TypeOK, BufferTypeOK
<1>2. /\ expired \subseteq expired'
      /\ Len(samples) <= Len(samples')
      /\ \A i \in DOMAIN samples : samples'[i] = samples[i]
  <2>1. expired \subseteq expired'
    BY DEF Stores
  <2>2. ASSUME samples' = Append(samples, BufferMsg.tid), BufferMsg.tid \in Threads
        PROVE  Len(samples) <= Len(samples') /\ \A i \in DOMAIN samples : samples'[i] = samples[i]
    BY <1>1, <2>2
  <2>3. BufferMsg.type = "AddSample" => BufferMsg.tid \in Threads
    BY BufferMessageFields
  <2>4. samples' = samples
        \/ (samples' = Append(samples, BufferMsg.tid) /\ BufferMsg.tid \in Threads)
    BY <2>3 DEF Stores
  <2>5. ASSUME samples' = samples
        PROVE  Len(samples) <= Len(samples') /\ \A i \in DOMAIN samples : samples'[i] = samples[i]
    BY <1>1, <2>5
  <2>6. Len(samples) <= Len(samples') /\ \A i \in DOMAIN samples : samples'[i] = samples[i]
    BY <2>2, <2>4, <2>5
  <2> QED
    BY <2>1, <2>6
<1>3. ASSUME BufferMsg.type = "AddMarker", UNCHANGED expired,
             markers' = Append(markers, EntryOf(BufferMsg.tid, BufferMsg.marker))
      PROVE  /\ Messages(markers) \cup expired \subseteq Messages(markers') \cup expired'
             /\ \A t, n : BufferMsg = MarkerMsg(t, n) => EntryOf(t, n) \in Messages(markers')
  <2>1. EntryOf(BufferMsg.tid, BufferMsg.marker) \in MarkerEntry
    BY <1>3, MarkerParts DEF EntryOf, MarkerEntry
  <2>2. Messages(markers') = Messages(markers) \cup {EntryOf(BufferMsg.tid, BufferMsg.marker)}
    BY <1>1, <1>3, <2>1, MessagesAfterAppend
  <2> QED
    BY <1>3, <2>2 DEF MarkerMsg
<1>4. ASSUME BufferMsg.type # "AddMarker",
             Messages(markers) \cup expired \subseteq Messages(markers') \cup expired'
      PROVE  /\ Messages(markers) \cup expired \subseteq Messages(markers') \cup expired'
             /\ \A t, n : BufferMsg = MarkerMsg(t, n) => EntryOf(t, n) \in Messages(markers')
  BY <1>4 DEF MarkerMsg
<1>5. CASE UNCHANGED <<markers, expired>> /\ BufferMsg.type # "AddMarker"
  <2>1. Messages(markers) \cup expired \subseteq Messages(markers') \cup expired'
    BY <1>5
  <2> QED
    BY <1>2, <1>4, <1>5, <2>1
<1>6. ASSUME BufferMsg.type # "AddMarker",
             NEW k \in 0 .. Len(markers),
             markers' = SubSeq(markers, k + 1, Len(markers)),
             expired' = expired \cup {markers[i] : i \in 1 .. k}
      PROVE  Messages(markers) \cup expired \subseteq Messages(markers') \cup expired'
  BY <1>1, <1>6, ClearedEntries
<1> QED
  BY <1>2, <1>3, <1>4, <1>5, <1>6 DEF Stores, EntryOf, Requests

\* The responses of the buffer thread: at most one per message, and a profile only to
\* a request for it.
LEMMA BufferResponses ==
  ASSUME PanicInv, PanicInv', BufferNext
  PROVE  \/ UNCHANGED serializationChannel.queue
         \/ \E m \in SerializationMessage :
              /\ m.type # "Serialize"
              /\ serializationChannel'.queue = Append(serializationChannel.queue, m)
         \/ /\ bufferChannel.queue # <<>>
            /\ BufferMsg.type = "SerializeBuffer"
            /\ UNCHANGED <<markers, samples, expired>>
            /\ serializationChannel'.queue =
                 Append(serializationChannel.queue,
                        [type |-> "Serialize",
                         profile |-> SerializedProfile(BufferMsg.thread_infos)])
<1>1. /\ IsChannel(serializationChannel) /\ bufferThread' # "panicked"
      /\ Len(samples) \in Nat
  BY AreChannels DEF PanicInv, ThreadsNeverPanic, TypeOK, BufferTypeOK
<1>2. ASSUME NEW m, Respond(m)
      PROVE  serializationChannel'.queue = Append(serializationChannel.queue, m)
  BY <1>1, <1>2, PutFields DEF Respond
<1>3. ASSUME NEW m \in SerializationMessage, m.type # "Serialize", Respond(m)
      PROVE  \E x \in SerializationMessage :
               /\ x.type # "Serialize"
               /\ serializationChannel'.queue = Append(serializationChannel.queue, x)
  BY <1>2, <1>3
<1>4. CASE StoreMarker \/ ClearExpiredMarkers \/ NoteWait
  BY <1>4 DEF StoreMarker, ClearExpiredMarkers, NoteWait, Consume
<1>5. CASE StoreSample
  BY <1>3, <1>5, SerializationMessages DEF StoreSample, Consume
<1>6. CASE AnswerSampleCount
  BY <1>1, <1>3, <1>6, SerializationMessages DEF AnswerSampleCount
<1>7. CASE SerializeBuffer
  BY <1>2, <1>7 DEF SerializeBuffer, BufferReceives, BufferMsg
<1>8. CASE BufferExits
  BY <1>1, <1>8, DropSenderFields DEF BufferExits
<1> QED
  BY <1>4, <1>5, <1>6, <1>7, <1>8 DEF BufferNext

\* serialize_buffer of the names of call, when all markers of call are stored.
LEMMA SerializedIsComplete ==
  ASSUME TypeOK, SinceCall, Covers(infos, atCall),
         \A t \in Threads : \A n \in 1 .. atCall.added[t] :
           EntryOf(t, n) \in Messages(markers) \cup expired
  PROVE  Complete(SerializedProfile(infos), expired, samples, atCall)
<1> DEFINE p == SerializedProfile(infos)
<1>1. /\ DOMAIN p = DOMAIN infos
      /\ \A i \in DOMAIN infos : /\ p[i].tid = infos[i]
                                 /\ p[i].markers = MarkersOf(infos[i])
                                 /\ p[i].samples = SamplesOf(infos[i])
  BY DEF SerializedProfile
<1>2. /\ samples \in Seq(Threads) /\ atCall \in Given /\ atCall.threadInfo \subseteq Threads
  BY DEF TypeOK, BufferTypeOK, Given
<1>3. \A n \in 1 .. atCall.samples : n \in DOMAIN samples
  BY <1>2 DEF SinceCall, Given
<1> HIDE DEF p
<1>4. ASSUME NEW t \in atCall.threadInfo
      PROVE  \E i \in DOMAIN p :
               /\ p[i].tid = t
               /\ \A n \in 1 .. atCall.added[t] : n \in p[i].markers \/ EntryOf(t, n) \in expired
               /\ \A n \in 1 .. atCall.samples : samples[n] = t => n \in p[i].samples
  <2>1. PICK i \in DOMAIN infos : infos[i] = t
    BY DEF Covers
  <2>2. ASSUME NEW n \in 1 .. atCall.added[t]
        PROVE  n \in MarkersOf(t) \/ EntryOf(t, n) \in expired
    <3>1. EntryOf(t, n) \in Messages(markers) => n \in MarkersOf(t)
      BY DEF Messages, MarkersOf, EntryOf
    <3> QED
      BY <1>2, <3>1
  <2>3. \A n \in 1 .. atCall.samples : samples[n] = t => n \in SamplesOf(t)
    BY <1>3 DEF SamplesOf
  <2> QED
    BY <1>1, <2>1, <2>2, <2>3
<1>5. \A i, j \in DOMAIN p : p[i].tid = p[j].tid => i = j
  BY <1>1 DEF Covers
<1>6. Complete(p, expired, samples, atCall)
  BY <1>4, <1>5 DEF Complete
<1> QED
  BY <1>6 DEF p

\* The buffer thread takes the request after all it has to cover, and responds to it.
LEMMA CompleteBuffer ==
  ASSUME PanicInv, PanicInv', CompleteInv, AllRecorded', BufferNext,
         UNCHANGED <<registrarVars, coreVars, atCall>>
  PROVE  CompleteInv'
<1>1. /\ TypeOK
      /\ bufferChannel.queue \in Seq(BufferMessage)
      /\ serializationChannel.queue \in Seq(SerializationMessage)
      /\ infos \in Seq(Threads)
      /\ samples \in Seq(Threads) /\ samples' \in Seq(Threads)
      /\ atCall \in Given
  BY QueueTypes DEF PanicInv, TypeOK, BufferTypeOK, CoreTypeOK
<1>2. UNCHANGED <<thread, threadInfo, added, core, request, registrars, infos, slot, profile, atCall>>
  BY DEF registrarVars, coreVars
<1>3. bufferChannel.queue # <<>> =>
        /\ BufferMsg \in BufferMessage
        /\ 1 \in DOMAIN bufferChannel.queue /\ bufferChannel.queue[1] = BufferMsg
  BY <1>1, TailSeq DEF BufferMsg
<1>4. /\ Messages(markers) \cup expired \subseteq Messages(markers') \cup expired'
      /\ expired \subseteq expired'
      /\ Len(samples) <= Len(samples')
      /\ \A i \in DOMAIN samples : samples'[i] = samples[i]
  <2>1. CASE UNCHANGED <<markers, samples, expired>>
    BY <1>1, <2>1
  <2> QED
    BY <1>1, <1>3, <2>1, BufferData, StoresKeeps
<1>5. SinceCall'
  BY <1>1, <1>2, <1>4 DEF CompleteInv, SinceCall, Given
<1>6. Listed' /\ Collected'
  BY <1>2 DEF CompleteInv, Listed, Collected
<1>7. ASSUME NEW p, Complete(p, expired, samples, atCall)
      PROVE  Complete(p, expired', samples', atCall)
  BY <1>1, <1>4, <1>7, CompleteKept DEF CompleteInv, SinceCall
<1>8. Returned'
  BY <1>2, <1>7 DEF CompleteInv, Returned
<1>9. Requested'
  <2>1. CASE UNCHANGED <<bufferChannel.queue, markers, samples, expired>>
    BY <1>2, <2>1 DEF CompleteInv, Requested
  <2>2. ASSUME bufferChannel.queue # <<>>, bufferChannel'.queue = Tail(bufferChannel.queue),
               Stores(BufferMsg)
        PROVE  Requested'
    <3>1. \A t, n : Head(bufferChannel.queue) = MarkerMsg(t, n) =>
                      EntryOf(t, n) \in Messages(markers') \cup expired'
      BY <1>1, <1>3, <2>2, StoresKeeps DEF BufferMsg
    <3>2. ASSUME NEW k \in DOMAIN Tail(bufferChannel.queue),
                 Tail(bufferChannel.queue)[k].type = "SerializeBuffer"
          PROVE  /\ Covers(infos, atCall)
                 /\ Ready(Tail(bufferChannel.queue), k, markers', expired', infos, atCall)
      <4>1. k + 1 \in DOMAIN bufferChannel.queue
            /\ bufferChannel.queue[k + 1].type = "SerializeBuffer"
        BY <1>1, <2>2, <3>2, TailSeq
      <4>2. /\ Covers(infos, atCall)
            /\ Ready(bufferChannel.queue, k + 1, markers, expired, infos, atCall)
        BY <4>1 DEF CompleteInv, Requested
      <4> QED
        BY <1>1, <1>4, <2>2, <3>1, <4>2, ReadyReceive
    <3> QED
      BY <1>2, <2>2, <3>2 DEF Requested
  <2> QED
    BY <2>1, <2>2, BufferData
<1>10. Responded'
  <2>1. ASSUME NEW m \in SerializationMessage,
               m.type = "Serialize" => Complete(m.profile, expired', samples', atCall),
               serializationChannel'.queue = Append(serializationChannel.queue, m)
        PROVE  Responded'
    <3>1. /\ \A i \in DOMAIN serializationChannel'.queue :
               i \in DOMAIN serializationChannel.queue \/ serializationChannel'.queue[i] = m
          /\ \A i \in DOMAIN serializationChannel.queue :
               serializationChannel'.queue[i] = serializationChannel.queue[i]
      BY <1>1, <2>1, AppendSeq
    <3> QED
      BY <1>2, <1>7, <2>1, <3>1 DEF CompleteInv, Responded
  <2>2. CASE UNCHANGED serializationChannel.queue
    BY <1>2, <1>7, <2>2 DEF CompleteInv, Responded
  <2>3. ASSUME bufferChannel.queue # <<>>, BufferMsg.type = "SerializeBuffer",
               UNCHANGED <<markers, samples, expired>>,
               serializationChannel'.queue =
                 Append(serializationChannel.queue,
                        [type |-> "Serialize",
                         profile |-> SerializedProfile(BufferMsg.thread_infos)])
        PROVE  Responded'
    <3>1. /\ Covers(infos, atCall)
          /\ Ready(bufferChannel.queue, 1, markers, expired, infos, atCall)
      BY <1>3, <2>3 DEF CompleteInv, Requested
    <3>2. \A j \in DOMAIN bufferChannel.queue : ~(j < 1)
      BY <1>1
    <3>3. \A t \in Threads : \A n \in 1 .. atCall.added[t] :
            EntryOf(t, n) \in Messages(markers) \cup expired
      BY <3>1, <3>2 DEF Ready
    <3>4. BufferMsg.thread_infos = infos
      BY <1>3, <2>3, <3>1 DEF Ready
    <3>5. Complete(SerializedProfile(infos), expired, samples, atCall)
      BY <1>1, <3>1, <3>3, SerializedIsComplete DEF CompleteInv
    <3>6. [type |-> "Serialize", profile |-> SerializedProfile(infos)] \in SerializationMessage
      BY <1>1, SerializedProfileType, SerializationMessages DEF TypeOK
    <3> DEFINE sent == SerializedProfile(infos)
    <3> HIDE DEF sent
    <3>7. Complete(sent, expired', samples', atCall)
          /\ [type |-> "Serialize", profile |-> sent] \in SerializationMessage
          /\ serializationChannel'.queue =
               Append(serializationChannel.queue, [type |-> "Serialize", profile |-> sent])
      BY <2>3, <3>4, <3>5, <3>6 DEF sent
    <3> QED
      BY <2>1, <3>7
  <2> QED
    BY <2>1, <2>2, <2>3, BufferResponses
<1> QED
  BY <1>5, <1>6, <1>8, <1>9, <1>10 DEF CompleteInv

\* A request for the profile that is sent when every slot was locked finds all markers
\* of the call before it, and names all its threads.
LEMMA RequestedSerialize ==
  ASSUME PanicInv, CompleteInv, core = "collecting", slot > Len(registrars),
         UNCHANGED <<markers, expired, infos, atCall>>,
         bufferChannel'.queue =
           Append(bufferChannel.queue, [type |-> "SerializeBuffer", thread_infos |-> infos])
  PROVE  Requested'
<1> DEFINE m == [type |-> "SerializeBuffer", thread_infos |-> infos]
           last == Len(bufferChannel.queue) + 1
<1>1. /\ bufferChannel.queue \in Seq(BufferMessage)
      /\ registrars \in Seq(Threads) /\ infos \in Seq(Threads)
      /\ m \in BufferMessage
      /\ slot \in Nat
      /\ atCall \in Given /\ added \in [Threads -> Nat]
      /\ threadInfo \subseteq Threads
  BY QueueTypes, BufferMessages DEF PanicInv, TypeOK, CoreTypeOK, RegistrarTypeOK
<1>2. \A k \in DOMAIN bufferChannel.queue : bufferChannel.queue[k].type # "SerializeBuffer"
  BY DEF PanicInv, Lockstep, NoRequest, NoRequestQueued, IsRequest, Requests
<1>3. Covers(infos, atCall)
  <2>1. \A i, j \in DOMAIN infos : infos[i] = infos[j] => i = j
    BY DEF CompleteInv, Collected
  <2>2. ASSUME NEW t \in atCall.threadInfo
        PROVE  \E i \in DOMAIN infos : infos[i] = t
    <3>1. PICK k \in DOMAIN registrars : registrars[k] = t
      BY <1>1 DEF CompleteInv, SinceCall, Listed
    <3>2. k < slot
      BY <1>1
    <3> QED
      BY <3>1, <3>2 DEF CompleteInv, Collected
  <2> QED
    BY <2>1, <2>2 DEF Covers
<1>4. /\ \A i \in DOMAIN bufferChannel'.queue : i \in DOMAIN bufferChannel.queue \/ i = last
      /\ \A i \in DOMAIN bufferChannel.queue :
           /\ i \in DOMAIN bufferChannel'.queue
           /\ i < last
           /\ bufferChannel'.queue[i] = bufferChannel.queue[i]
      /\ bufferChannel'.queue[last] = m
  <2> HIDE DEF m
  <2>1. bufferChannel'.queue = Append(bufferChannel.queue, m)
    BY DEF m
  <2>2. /\ Len(bufferChannel.queue) \in Nat
        /\ DOMAIN bufferChannel.queue = 1 .. Len(bufferChannel.queue)
        /\ DOMAIN bufferChannel'.queue = 1 .. Len(bufferChannel.queue) + 1
        /\ \A i \in DOMAIN bufferChannel.queue :
             bufferChannel'.queue[i] = bufferChannel.queue[i]
        /\ bufferChannel'.queue[last] = m
    BY <1>1, <2>1, AppendSeq
  <2> QED
    BY <2>2
<1> HIDE DEF last
<1>5. Ready(bufferChannel'.queue, last, markers, expired, infos, atCall)
  <2>1. ASSUME NEW t \in Threads, NEW n \in 1 .. atCall.added[t]
        PROVE  \/ EntryOf(t, n) \in Messages(markers) \cup expired
               \/ \E j \in DOMAIN bufferChannel'.queue :
                    j < last /\ bufferChannel'.queue[j] = MarkerMsg(t, n)
    <3>1. atCall.added[t] \in Nat /\ added[t] \in Nat /\ atCall.added[t] <= added[t]
      BY <1>1 DEF CompleteInv, SinceCall, Given
    <3>2. Recorded(t, n)
      BY <3>1 DEF CompleteInv, AllRecorded
    <3>3. CASE MarkerMsg(t, n) \in Messages(bufferChannel.queue)
      <4>1. PICK j \in DOMAIN bufferChannel.queue : bufferChannel.queue[j] = MarkerMsg(t, n)
        BY <3>3 DEF Messages
      <4> QED
        BY <1>4, <4>1
    <3> QED
      BY <3>2, <3>3 DEF Recorded
  <2> QED
    BY <1>4, <2>1 DEF Ready
<1> QED
  BY <1>2, <1>3, <1>4, <1>5 DEF Requested

\* The core: what it asks for covers the call, and what it returns is what it asked for.
LEMMA CompleteCore ==
  ASSUME PanicInv, PanicInv', CompleteInv, AllRecorded', CoreStep, UNCHANGED bufferVars
  PROVE  CompleteInv'
<1>1. /\ TypeOK
      /\ IsChannel(bufferChannel) /\ IsChannel(samplerChannel) /\ IsChannel(serializationChannel)
      /\ bufferChannel.queue \in Seq(BufferMessage)
      /\ serializationChannel.queue \in Seq(SerializationMessage)
      /\ thread \in [Threads -> {"absent", "holding", "published", "instrumented",
                                 "finished", "panicked"}]
      /\ added \in [Threads -> Nat] /\ threadInfo \subseteq Threads
      /\ registrars \in Seq(Threads) /\ infos \in Seq(Threads) /\ slot \in Nat \ {0}
      /\ samples \in Seq(Threads) /\ Len(samples) \in Nat
  <2>1. TypeOK
    BY DEF PanicInv
  <2>2. samples \in Seq(Threads)
    BY <2>1 DEF TypeOK, BufferTypeOK
  <2> QED
    BY <2>1, <2>2, AreChannels, QueueTypes DEF TypeOK, CoreTypeOK, RegistrarTypeOK
<1>2. UNCHANGED <<markers, samples, expired, threadInfo, added>>
  BY CoreData DEF bufferVars
<1>3. /\ core # "idle" \/ core' # "collecting" => atCall' = atCall
      /\ core = "idle" /\ core' = "collecting" =>
           atCall' = [added |-> added, threadInfo |-> threadInfo, samples |-> Len(samples)]
  BY DEF CoreStep
<1>4. core # "awaiting" => /\ serializationChannel.queue = <<>>
                           /\ \A k \in DOMAIN bufferChannel.queue :
                                bufferChannel.queue[k].type # "SerializeBuffer"
  BY DEF PanicInv, Lockstep, NoRequest, NoRequestQueued, IsRequest, Requests
<1>5. ASSUME UNCHANGED atCall
      PROVE  SinceCall'
  BY <1>2, <1>5 DEF CompleteInv, SinceCall
<1>6. ASSUME UNCHANGED <<thread, registrars>>
      PROVE  Listed'
  BY <1>2, <1>6 DEF CompleteInv, Listed
<1>7. ASSUME UNCHANGED <<infos, atCall>>,
             \/ UNCHANGED bufferChannel.queue
             \/ \E m \in BufferMessage : /\ m.type # "SerializeBuffer"
                                         /\ bufferChannel'.queue = Append(bufferChannel.queue, m)
      PROVE  Requested'
  BY <1>1, <1>2, <1>7, RequestedSend DEF CompleteInv
<1>8. ASSUME UNCHANGED atCall,
             \/ UNCHANGED serializationChannel.queue
             \/ serializationChannel'.queue = <<>>
      PROVE  Responded'
  BY <1>2, <1>8 DEF CompleteInv, Responded
<1>9. ASSUME NEW how \in {"dropped", "panicked"}, DropsCore(how),
             UNCHANGED <<thread, registrars, infos>>
      PROVE  CompleteInv'
  <2>1. /\ core' = how
        /\ UNCHANGED bufferChannel.queue
        /\ serializationChannel'.queue = <<>>
    BY <1>1, <1>9, DropSenderFields, DropReceiverFields DEF DropsCore
  <2>2. UNCHANGED atCall
    BY <1>3, <2>1
  <2>3. Collected' /\ Returned'
    BY <2>1 DEF Collected, Returned
  <2> QED
    BY <1>5, <1>6, <1>7, <1>8, <1>9, <2>1, <2>2, <2>3 DEF CompleteInv
<1>10. ASSUME NEW t \in Threads, GetThreadRegistrar(t)
       PROVE  CompleteInv'
  <2>1. /\ core = "idle" /\ UNCHANGED <<core, request, infos, profile>>
        /\ thread[t] = "absent" /\ thread' = [thread EXCEPT ![t] = "holding"]
        /\ registrars' = Append(registrars, t)
        /\ UNCHANGED <<bufferChannel.queue, serializationChannel.queue>>
    BY <1>1, <1>10, CloneSenderFields DEF GetThreadRegistrar, Becomes
  <2>2. UNCHANGED atCall
    BY <1>3, <2>1
  <2>3. Listed'
    <3>1. /\ \A i \in DOMAIN registrars' : i \in DOMAIN registrars \/ i = Len(registrars) + 1
          /\ \A i \in DOMAIN registrars : /\ i \in DOMAIN registrars'
                                          /\ registrars'[i] = registrars[i]
          /\ Len(registrars) + 1 \in DOMAIN registrars'
          /\ registrars'[Len(registrars) + 1] = t
      BY <1>1, <2>1, AppendSeq
    <3>2. \A i \in DOMAIN registrars : registrars[i] # t /\ registrars[i] \in Threads
      BY <1>1, <2>1 DEF CompleteInv, Listed
    <3>3. /\ thread'[t] = "holding"
          /\ \A u \in Threads \ {t} : thread'[u] = thread[u]
      BY <1>1, <2>1
    <3>4. ASSUME NEW u \in Threads, thread'[u] # "absent"
          PROVE  \E i \in DOMAIN registrars' : registrars'[i] = u
      <4>1. CASE u = t
        BY <3>1, <4>1
      <4>2. CASE u # t
        <5>1. PICK i \in DOMAIN registrars : registrars[i] = u
          BY <3>3, <3>4, <4>2 DEF CompleteInv, Listed
        <5> QED
          BY <3>1, <5>1
      <4> QED
        BY <4>1, <4>2
    <3>5. \A i \in DOMAIN registrars' : thread'[registrars'[i]] # "absent"
      BY <3>1, <3>2, <3>3 DEF CompleteInv, Listed
    <3>6. \A i, j \in DOMAIN registrars' : registrars'[i] = registrars'[j] => i = j
      BY <3>1, <3>2 DEF CompleteInv, Listed
    <3>7. \A u \in threadInfo' : thread'[u] # "absent"
      BY <1>1, <1>2, <3>3 DEF CompleteInv, Listed
    <3> QED
      BY <3>4, <3>5, <3>6, <3>7 DEF Listed
  <2>4. Collected' /\ Returned'
    BY <1>2, <2>1, <2>2 DEF CompleteInv, Collected, Returned
  <2> QED
    BY <1>5, <1>7, <1>8, <2>1, <2>2, <2>3, <2>4 DEF CompleteInv
<1>11. CASE CallStartSampling
  <2>1. CASE DropsCore("panicked")
    BY <1>9, <1>11, <2>1 DEF CallStartSampling, registrarVars
  <2>2. CASE UNCHANGED <<bufferChannel, serializationChannel, core>> /\ core = "idle"
    <3>1. UNCHANGED <<atCall, thread, registrars, infos, request, profile>>
      BY <1>3, <1>11, <2>2 DEF CallStartSampling, registrarVars
    <3>2. Collected' /\ Returned'
      BY <1>2, <2>2, <3>1 DEF CompleteInv, Collected, Returned
    <3> QED
      BY <1>5, <1>6, <1>7, <1>8, <2>2, <3>1, <3>2 DEF CompleteInv
  <2> QED
    BY <1>11, <2>1, <2>2 DEF CallStartSampling, CanCall
<1>12. ASSUME NEW m \in BufferMessage, m.type # "SerializeBuffer", SendRequest(m),
              core # "awaiting", UNCHANGED <<thread, registrars, infos>>
       PROVE  CompleteInv'
  <2>1. CASE DropsCore("panicked")
    BY <1>9, <1>12, <2>1
  <2>2. CASE /\ bufferChannel' = Put(bufferChannel, m)
             /\ core' = "awaiting"
             /\ UNCHANGED serializationChannel
    <3>1. UNCHANGED atCall
      BY <1>3, <2>2
    <3>2. bufferChannel'.queue = Append(bufferChannel.queue, m)
      BY <1>1, <2>2, PutFields
    <3>3. Collected' /\ Returned'
      BY <2>2 DEF Collected, Returned
    <3> QED
      BY <1>5, <1>6, <1>7, <1>8, <1>12, <2>2, <3>1, <3>2, <3>3 DEF CompleteInv
  <2> QED
    BY <1>12, <2>1, <2>2 DEF SendRequest
<1>13. CASE CallGetSampleCount \/ CallWaitForOneSample
  BY <1>12, <1>13, BufferMessages
     DEF CallGetSampleCount, CallWaitForOneSample, CanCall, registrarVars
<1>14. CASE CallSerialize
  <2>1. /\ core = "idle" /\ core' = "collecting"
        /\ infos' = <<>> /\ slot' = 1
        /\ UNCHANGED <<bufferChannel, serializationChannel, thread, registrars>>
    BY <1>14 DEF CallSerialize, CanCall, channelVars, registrarVars
  <2>2. atCall' = [added |-> added, threadInfo |-> threadInfo, samples |-> Len(samples)]
    BY <1>3, <2>1
  <2>3. SinceCall'
    BY <1>1, <1>2, <2>2 DEF SinceCall
  <2>4. Requested' /\ Responded' /\ Returned'
    BY <1>4, <2>1 DEF Requested, Responded, Returned
  <2>5. Collected'
    <3>1. DOMAIN infos' = {} /\ \A k \in DOMAIN registrars' : ~(k < slot')
      BY <1>1, <2>1
    <3> QED
      BY <3>1 DEF Collected
  <2> QED
    BY <1>6, <2>1, <2>3, <2>4, <2>5 DEF CompleteInv
<1>15. CASE CollectThreadInfo
  <2>1. /\ core = "collecting" /\ core' = "collecting"
        /\ slot \in DOMAIN registrars /\ slot' = slot + 1
        /\ UNCHANGED <<bufferChannel, serializationChannel, thread, registrars>>
        /\ infos' = IF registrars[slot] \in threadInfo
                    THEN Append(infos, registrars[slot])
                    ELSE infos
    BY <1>1, <1>15 DEF CollectThreadInfo, channelVars, registrarVars
  <2>2. UNCHANGED atCall
    BY <1>3, <2>1
  <2>3. Requested' /\ Responded' /\ Returned'
    BY <1>4, <2>1 DEF Requested, Responded, Returned
  <2>4. \A k \in DOMAIN registrars : k < slot + 1 <=> k < slot \/ k = slot
    BY <1>1
  <2>5. Collected'
    <3>1. CASE registrars[slot] \notin threadInfo
      <4>1. infos' = infos /\ registrars[slot] \notin atCall.threadInfo
        BY <2>1, <3>1 DEF CompleteInv, SinceCall
      <4> QED
        BY <2>1, <2>2, <2>4, <4>1 DEF CompleteInv, Collected
    <3>2. CASE registrars[slot] \in threadInfo
      <4>1. /\ \A i \in DOMAIN infos' : i \in DOMAIN infos \/ i = Len(infos) + 1
            /\ \A i \in DOMAIN infos : i \in DOMAIN infos' /\ infos'[i] = infos[i]
            /\ Len(infos) + 1 \in DOMAIN infos'
            /\ infos'[Len(infos) + 1] = registrars[slot]
        <5>1. infos' = Append(infos, registrars[slot]) /\ registrars[slot] \in Threads
          BY <1>1, <2>1, <3>2
        <5> QED
          BY <1>1, <5>1, AppendSeq
      <4>2. \A i \in DOMAIN infos : infos[i] # registrars[slot]
        <5>1. \A k \in DOMAIN registrars : k < slot => registrars[k] # registrars[slot]
          BY <1>1, <2>1 DEF CompleteInv, Listed
        <5> QED
          BY <2>1, <5>1 DEF CompleteInv, Collected
      <4>3. \A i, j \in DOMAIN infos' : infos'[i] = infos'[j] => i = j
        BY <2>1, <4>1, <4>2 DEF CompleteInv, Collected
      <4>4. \A i \in DOMAIN infos' :
              \E k \in DOMAIN registrars : k < slot + 1 /\ registrars[k] = infos'[i]
        BY <2>1, <2>4, <4>1 DEF CompleteInv, Collected
      <4>5. \A k \in DOMAIN registrars :
              k < slot + 1 /\ registrars[k] \in atCall.threadInfo =>
                \E i \in DOMAIN infos' : infos'[i] = registrars[k]
        BY <2>1, <2>4, <4>1 DEF CompleteInv, Collected
      <4> QED
        BY <2>1, <2>2, <4>3, <4>4, <4>5 DEF Collected
    <3> QED
      BY <3>1, <3>2
  <2> QED
    BY <1>5, <1>6, <2>1, <2>2, <2>3, <2>5 DEF CompleteInv
<1>16. CASE SendSerialize
  <2>1. CASE DropsCore("panicked")
    BY <1>9, <1>16, <2>1 DEF SendSerialize, registrarVars
  <2>2. CASE /\ bufferChannel' = Put(bufferChannel,
                                     [type |-> "SerializeBuffer", thread_infos |-> infos])
             /\ core' = "awaiting"
             /\ UNCHANGED serializationChannel
    <3>1. /\ UNCHANGED <<atCall, thread, registrars, infos>>
          /\ core = "collecting" /\ slot > Len(registrars)
      BY <1>3, <1>16, <2>2 DEF SendSerialize, registrarVars
    <3>2. bufferChannel'.queue =
            Append(bufferChannel.queue, [type |-> "SerializeBuffer", thread_infos |-> infos])
      BY <1>1, <2>2, PutFields
    <3>3. Requested'
      BY <1>2, <3>1, <3>2, RequestedSerialize
    <3>4. Collected' /\ Returned'
      BY <2>2 DEF Collected, Returned
    <3> QED
      BY <1>5, <1>6, <1>8, <2>2, <3>1, <3>3, <3>4 DEF CompleteInv
  <2> QED
    BY <1>16, <2>1, <2>2 DEF SendSerialize, SendRequest
<1>17. CASE ReceiveResponse
  <2>1. CASE DropsCore("panicked")
    BY <1>9, <1>17, <2>1 DEF ReceiveResponse, registrarVars
  <2>2. CASE /\ serializationChannel.queue # <<>>
             /\ Head(serializationChannel.queue).type = ResponseTo[request]
             /\ serializationChannel' = Take(serializationChannel)
             /\ core' = "idle"
             /\ profile' = IF request = "SerializeBuffer"
                           THEN Head(serializationChannel.queue).profile
                           ELSE profile
             /\ UNCHANGED bufferChannel
    <3>1. UNCHANGED <<atCall, thread, registrars, infos, request>>
      BY <1>3, <1>17, <2>2 DEF ReceiveResponse, registrarVars
    <3>2. serializationChannel'.queue = Tail(serializationChannel.queue)
      BY <1>1, <2>2, TakeFields
    <3>3. /\ 1 \in DOMAIN serializationChannel.queue
          /\ Head(serializationChannel.queue) = serializationChannel.queue[1]
          /\ \A i \in DOMAIN serializationChannel'.queue :
               /\ i + 1 \in DOMAIN serializationChannel.queue
               /\ serializationChannel'.queue[i] = serializationChannel.queue[i + 1]
      BY <1>1, <2>2, <3>2, TailSeq
    <3>4. Responded'
      BY <1>2, <3>1, <3>3 DEF CompleteInv, Responded
    <3>5. Returned'
      BY <1>2, <2>2, <3>1, <3>3 DEF CompleteInv, Responded, Returned, ResponseTo
    <3>6. Collected'
      BY <2>2 DEF Collected
    <3> QED
      BY <1>5, <1>6, <1>7, <2>2, <3>1, <3>4, <3>5, <3>6 DEF CompleteInv
  <2> QED
    BY <1>17, <2>1, <2>2 DEF ReceiveResponse
<1>18. CASE DropCore
  BY <1>9, <1>18 DEF DropCore, registrarVars
<1> QED
  BY <1>10, <1>11, <1>13, <1>14, <1>15, <1>16, <1>17, <1>18 DEF CoreStep, CoreNext

\* What follows a request from the slots to the profile holds whatever registers, is
\* added or sampled in between.
THEOREM CompleteInvHolds == Spec => []CompleteInv
<1>1. Init => CompleteInv
  <2> SUFFICES ASSUME Init PROVE CompleteInv
      OBVIOUS
  <2>1. /\ bufferChannel.queue = <<>> /\ serializationChannel.queue = <<>>
        /\ samples = <<>> /\ registrars = <<>>
        /\ thread = [t \in Threads |-> "absent"]
        /\ added = [t \in Threads |-> 0] /\ threadInfo = {}
        /\ core = "idle" /\ request = "none"
        /\ atCall = [added |-> added, threadInfo |-> {}, samples |-> 0]
    BY DEF Init, ChannelsInit, Open, BufferInit, RegistrarInit, CoreInit
  <2>2. SinceCall
    BY <2>1 DEF SinceCall
  <2>3. Listed
    BY <2>1 DEF Listed
  <2>4. Collected /\ Requested /\ Responded /\ Returned
    BY <2>1 DEF Collected, Requested, Responded, Returned
  <2> QED
    BY <2>2, <2>3, <2>4, RecordedInit DEF CompleteInv
<1>2. PanicInv /\ PanicInv' /\ CompleteInv /\ [Next]_vars => CompleteInv'
  <2> SUFFICES ASSUME PanicInv, PanicInv', CompleteInv, [Next]_vars PROVE CompleteInv'
      OBVIOUS
  <2>1. AllRecorded'
    BY RecordedStep DEF CompleteInv
  <2>2. CASE UNCHANGED vars
    BY <2>1, <2>2 DEF vars, channelVars, bufferVars, registrarVars, coreVars, CompleteInv,
                      SinceCall, Listed, Collected, Requested, Responded, Returned
  <2>3. CASE BufferNext /\ UNCHANGED <<registrarVars, coreVars, atCall>>
    BY <2>1, <2>3, CompleteBuffer
  <2>4. CASE /\ \/ SamplerStep /\ UNCHANGED registrarVars
                \/ \E t \in Threads : ThreadStep(t)
             /\ UNCHANGED <<bufferVars, coreVars, atCall>>
    BY <2>1, <2>4, CompleteOthers
  <2>5. CASE CoreStep /\ UNCHANGED bufferVars
    BY <2>1, <2>5, CompleteCore
  <2> QED
    BY <2>2, <2>3, <2>4, <2>5 DEF Next
<1> QED
  BY <1>1, <1>2, PanicInvariant, PTL DEF Spec

\* Whatever registers, is added or sampled while serialize collects and waits, the profile
\* has every thread registered before the call once, with all its markers and samples
\* (serialize, and the SerializeBuffer arm).
THEOREM ProfileCompleteHolds == Spec => []ProfileComplete
<1>1. CompleteInv => ProfileComplete
  BY DEF CompleteInv, Returned, Complete, ProfileComplete, EntryOf
<1> QED
  BY <1>1, CompleteInvHolds, PTL

-----------------------------------------------------------------------------
(* Induction over the numbers.                                             *)

\* A set of numbers that is not empty has a least one.
LEMMA LeastNumber ==
  ASSUME NEW T \in SUBSET Nat, T # {}
  PROVE  \E n \in T : \A m \in T : n <= m
<1> DEFINE Less == {p \in Nat \X Nat : p[1] < p[2]}
<1>1. IsWellFoundedOn(Less, Nat)
  BY NatLessThanWellFounded DEF OpToRel
<1>2. PICK n \in T : \A m \in T : <<m, n>> \notin Less
  <2> HIDE DEF Less
  <2> QED
    BY <1>1, WFMin
<1>3. \A m \in T : ~ (m < n)
  BY <1>2
<1> QED
  BY <1>3

\* Induction over the numbers, for the set of those that have a property.
LEMMA NumberInduction ==
  ASSUME NEW T, 0 \in T, \A n \in Nat : n \in T => n + 1 \in T
  PROVE  \A n \in Nat : n \in T
<1> SUFFICES ASSUME Nat \ T # {} PROVE FALSE
  OBVIOUS
<1>1. PICK n \in Nat \ T : \A m \in Nat \ T : n <= m
  BY LeastNumber
<1>2. n - 1 \in Nat /\ n - 1 \notin Nat \ T
  BY <1>1
<1> QED
  BY <1>1, <1>2

\* What the message m makes of a sample buffer.
Grown(stored, m) == IF m.type = "AddSample" THEN Append(stored, m.tid) ELSE stored

\* f[n] is what the first n messages of the queue make of the buffer.
Grows(f, stored, queue, N) == f[0] = stored /\ \A n \in 1 .. N : f[n] = Grown(f[n - 1], queue[n])

LEMMA GrownType ==
  ASSUME NEW stored \in Seq(Threads), NEW m \in BufferMessage
  PROVE  /\ Grown(stored, m) \in Seq(Threads)
         /\ Len(stored) \in Nat /\ Len(Grown(stored, m)) \in Nat
         /\ Len(stored) <= Len(Grown(stored, m))
         /\ \A i \in 1 .. Len(stored) : Grown(stored, m)[i] = stored[i]
<1>1. CASE m.type = "AddSample"
  <2>1. m.tid \in Threads
    BY <1>1, BufferMessageFields
  <2>2. Grown(stored, m) = Append(stored, m.tid)
    BY <1>1 DEF Grown
  <2> QED
    BY <2>1, <2>2
<1>2. CASE m.type # "AddSample"
  BY <1>2 DEF Grown
<1> QED
  BY <1>1, <1>2

\* Two that grow by the same messages are the same.
LEMMA GrowsOnce ==
  ASSUME NEW N \in Nat, NEW f, NEW g, NEW stored, NEW q, NEW r,
         Grows(f, stored, q, N), Grows(g, stored, r, N), \A n \in 1 .. N : q[n] = r[n]
  PROVE  \A n \in 0 .. N : f[n] = g[n]
<1> DEFINE T == {n \in Nat : n <= N => f[n] = g[n]}
<1>1. 0 \in T
  BY DEF Grows
<1>2. ASSUME NEW n \in Nat, n \in T PROVE n + 1 \in T
  <2> SUFFICES ASSUME n + 1 <= N PROVE f[n + 1] = g[n + 1]
    OBVIOUS
  <2>1. n + 1 \in 1 .. N /\ n + 1 - 1 = n /\ f[n] = g[n]
    BY <1>2
  <2>2. f[n + 1] = Grown(f[n], q[n + 1]) /\ g[n + 1] = Grown(g[n], r[n + 1])
    BY <2>1 DEF Grows
  <2> QED
    BY <2>1, <2>2
<1>3. \A n \in Nat : n \in T
  <2> HIDE DEF T
  <2> QED
    BY <1>1, <1>2, NumberInduction
<1> QED
  BY <1>3

\* There is one.
LEMMA GrowsExists ==
  ASSUME NEW stored \in Seq(Threads), NEW q \in Seq(BufferMessage)
  PROVE  \E f \in [0 .. Len(q) -> Seq(Threads)] : Grows(f, stored, q, Len(q))
<1> DEFINE D == 0 .. Len(q)
           T == {n \in Nat : n <= Len(q) => \E f \in [D -> Seq(Threads)] : Grows(f, stored, q, n)}
<1>0. Len(q) \in Nat
  OBVIOUS
<1>1. 0 \in T
  <2> DEFINE f == [i \in D |-> stored]
  <2>1. f \in [D -> Seq(Threads)] /\ f[0] = stored
    OBVIOUS
  <2>2. Grows(f, stored, q, 0)
    <3> HIDE DEF f
    <3> QED
      BY <2>1 DEF Grows
  <2> HIDE DEF f, D
  <2> QED
    BY <2>1, <2>2
<1>2. ASSUME NEW n \in Nat, n \in T PROVE n + 1 \in T
  <2> SUFFICES ASSUME n + 1 <= Len(q)
               PROVE  \E f \in [D -> Seq(Threads)] : Grows(f, stored, q, n + 1)
    OBVIOUS
  <2>1. PICK f \in [D -> Seq(Threads)] : Grows(f, stored, q, n)
    BY <1>0, <1>2
  <2> DEFINE e == Grown(f[n], q[n + 1])
             g == [f EXCEPT ![n + 1] = e]
  <2>2. n \in D /\ n + 1 \in D /\ n + 1 \in 1 .. Len(q) /\ q[n + 1] \in BufferMessage
    BY <1>0
  <2>3. f[n] \in Seq(Threads)
    BY <2>1, <2>2
  <2>4. e \in Seq(Threads)
    BY <2>2, <2>3, GrownType
  <2> HIDE DEF e
  <2>5. g \in [D -> Seq(Threads)] /\ g[n + 1] = e /\ \A i \in D : i # n + 1 => g[i] = f[i]
    BY <2>2, <2>4
  <2> HIDE DEF g
  <2>6. g[0] = stored
    BY <1>0, <2>1, <2>5 DEF Grows
  <2>7. ASSUME NEW i \in 1 .. n + 1 PROVE g[i] = Grown(g[i - 1], q[i])
    <3>1. CASE i = n + 1
      BY <2>2, <2>5, <3>1 DEF e
    <3>2. CASE i # n + 1
      <4>1. i \in 1 .. n /\ i \in D /\ i - 1 \in D /\ i - 1 # n + 1
        BY <2>2, <3>2
      <4> QED
        BY <2>1, <2>5, <3>2, <4>1 DEF Grows
    <3> QED
      BY <3>1, <3>2
  <2> QED
    BY <2>5, <2>6, <2>7 DEF Grows
<1>3. \A n \in Nat : n \in T
  <2> HIDE DEF T
  <2> QED
    BY <1>1, <1>2, NumberInduction
<1>4. Len(q) \in T
  BY <1>0, <1>3
<1> QED
  BY <1>4

\* What SampledAfter computes.
LEMMA SampledAfterIs ==
  ASSUME NEW stored \in Seq(Threads), NEW q \in Seq(BufferMessage)
  PROVE  /\ SampledAfter(stored, q) \in [0 .. Len(q) -> Seq(Threads)]
         /\ Grows(SampledAfter(stored, q), stored, q, Len(q))
<1> DEFINE D == 0 .. Len(q)
           Step(f, n) == IF n = 0 THEN stored
                         ELSE IF q[n].type = "AddSample" THEN Append(f[n - 1], q[n].tid)
                         ELSE f[n - 1]
<1>0. Len(q) \in Nat
  OBVIOUS
<1>1. PICK f \in [D -> Seq(Threads)] : Grows(f, stored, q, Len(q))
  BY GrowsExists
<1>2. f = [n \in D |-> Step(f, n)]
  <2>1. ASSUME NEW n \in D PROVE f[n] = Step(f, n)
    <3>1. CASE n = 0
      BY <1>1, <3>1 DEF Grows
    <3>2. CASE n # 0
      <4>1. f[n] = Grown(f[n - 1], q[n])
        BY <1>0, <1>1, <3>2 DEF Grows
      <4> QED
        BY <3>2, <4>1 DEF Grown
    <3> QED
      BY <3>1, <3>2
  <2> QED
    BY <2>1
<1>3. SampledAfter(stored, q) = [n \in D |-> Step(SampledAfter(stored, q), n)]
  BY <1>2 DEF SampledAfter
<1>4. Grows(SampledAfter(stored, q), stored, q, Len(q))
  <2>1. \A n \in D : SampledAfter(stored, q)[n] = Step(SampledAfter(stored, q), n)
    BY <1>3
  <2> QED
    BY <1>0, <2>1 DEF Grows, Grown
<1>5. \A n \in D : SampledAfter(stored, q)[n] = f[n]
  BY <1>0, <1>1, <1>4, GrowsOnce
<1>6. SampledAfter(stored, q) = f
  <2> HIDE DEF Step, D
  <2> QED
    BY <1>1, <1>3, <1>5
<1> QED
  BY <1>1, <1>6

-----------------------------------------------------------------------------
(* What the messages of a channel, one after the other, make of the        *)
(* samples that are stored, and what is behind the request.                *)

\* What the messages of a queue make of a buffer, one by one.
LEMMA SampledParts ==
  ASSUME NEW stored \in Seq(Threads), NEW q \in Seq(BufferMessage)
  PROVE  /\ SampledAfter(stored, q)[0] = stored
         /\ \A n \in 0 .. Len(q) : SampledAfter(stored, q)[n] \in Seq(Threads)
         /\ \A n \in 1 .. Len(q) :
              SampledAfter(stored, q)[n] = Grown(SampledAfter(stored, q)[n - 1], q[n])
<1>1. /\ SampledAfter(stored, q) \in [0 .. Len(q) -> Seq(Threads)]
      /\ Grows(SampledAfter(stored, q), stored, q, Len(q))
  BY SampledAfterIs
<1> QED
  BY <1>1 DEF Grows

\* A buffer only grows: what is stored is the first part of what will be.
LEMMA SampledStored ==
  ASSUME NEW stored \in Seq(Threads), NEW q \in Seq(BufferMessage), NEW n \in 0 .. Len(q)
  PROVE  /\ SampledAfter(stored, q)[n] \in Seq(Threads)
         /\ Len(stored) <= Len(SampledAfter(stored, q)[n])
         /\ \A i \in 1 .. Len(stored) : SampledAfter(stored, q)[n][i] = stored[i]
<1> DEFINE f == SampledAfter(stored, q)
           T == {k \in Nat : k <= Len(q) =>
                   /\ f[k] \in Seq(Threads)
                   /\ Len(stored) <= Len(f[k])
                   /\ \A i \in 1 .. Len(stored) : f[k][i] = stored[i]}
<1>0. Len(q) \in Nat /\ Len(stored) \in Nat
  OBVIOUS
<1>1. /\ f[0] = stored
      /\ \A k \in 0 .. Len(q) : f[k] \in Seq(Threads)
      /\ \A k \in 1 .. Len(q) : f[k] = Grown(f[k - 1], q[k])
  BY SampledParts
<1> HIDE DEF f
<1>2. 0 \in T
  BY <1>0, <1>1
<1>3. ASSUME NEW k \in Nat, k \in T PROVE k + 1 \in T
  <2> SUFFICES ASSUME k + 1 <= Len(q)
               PROVE  /\ f[k + 1] \in Seq(Threads)
                      /\ Len(stored) <= Len(f[k + 1])
                      /\ \A i \in 1 .. Len(stored) : f[k + 1][i] = stored[i]
    OBVIOUS
  <2>1. /\ f[k] \in Seq(Threads) /\ Len(stored) <= Len(f[k])
        /\ \A i \in 1 .. Len(stored) : f[k][i] = stored[i]
    BY <1>0, <1>3
  <2>2. q[k + 1] \in BufferMessage /\ f[k + 1] = Grown(f[k], q[k + 1])
    BY <1>0, <1>1
  <2>3. f[k] \in Seq(Threads) /\ q[k + 1] \in BufferMessage
    BY <2>1, <2>2
  <2> DEFINE a == f[k]
             b == Grown(a, q[k + 1])
  <2>4. /\ b \in Seq(Threads) /\ Len(a) \in Nat /\ Len(b) \in Nat /\ Len(a) <= Len(b)
        /\ \A i \in 1 .. Len(a) : b[i] = a[i]
    BY <2>3, GrownType
  <2>5. /\ f[k + 1] = b /\ Len(stored) <= Len(a)
        /\ \A i \in 1 .. Len(stored) : a[i] = stored[i]
    BY <2>1, <2>2
  <2> HIDE DEF a, b
  <2>6. \A i \in 1 .. Len(stored) : i \in 1 .. Len(a)
    BY <1>0, <2>4, <2>5
  <2> QED
    BY <1>0, <2>4, <2>5, <2>6
<1>4. \A k \in Nat : k \in T
  <2> HIDE DEF T
  <2> QED
    BY <1>2, <1>3, NumberInduction
<1>5. n \in T
  BY <1>4
<1> QED
  BY <1>5 DEF f

\* A message that is sent adds to what was to be expected.
LEMMA SampledSend ==
  ASSUME NEW stored \in Seq(Threads), NEW q \in Seq(BufferMessage), NEW m \in BufferMessage
  PROVE  /\ \A n \in 0 .. Len(q) :
              SampledAfter(stored, Append(q, m))[n] = SampledAfter(stored, q)[n]
         /\ SampledAfter(stored, Append(q, m))[Len(q) + 1]
              = Grown(SampledAfter(stored, q)[Len(q)], m)
<1> DEFINE r == Append(q, m)
<1>1. /\ r \in Seq(BufferMessage) /\ Len(r) = Len(q) + 1 /\ Len(q) \in Nat
      /\ r[Len(q) + 1] = m
      /\ \A n \in 1 .. Len(q) : r[n] = q[n]
  OBVIOUS
<1> HIDE DEF r
<1> DEFINE f == SampledAfter(stored, q)
           g == SampledAfter(stored, r)
<1>2. Grows(f, stored, q, Len(q)) /\ Grows(g, stored, r, Len(q) + 1)
  BY <1>1, SampledAfterIs
<1> HIDE DEF f, g
<1>3. Grows(g, stored, r, Len(q))
  BY <1>1, <1>2 DEF Grows
<1>4. \A n \in 0 .. Len(q) : f[n] = g[n]
  BY <1>1, <1>2, <1>3, GrowsOnce
<1>5. g[Len(q) + 1] = Grown(g[Len(q)], m)
  BY <1>1, <1>2 DEF Grows
<1>6. g[Len(q)] = f[Len(q)]
  BY <1>1, <1>4
<1> QED
  BY <1>1, <1>4, <1>5, <1>6 DEF f, g, r

\* A message that is received moves from the queue to the buffer.
LEMMA SampledReceive ==
  ASSUME NEW stored \in Seq(Threads), NEW q \in Seq(BufferMessage), q # <<>>
  PROVE  \A n \in 0 .. Len(q) - 1 :
           SampledAfter(Grown(stored, Head(q)), Tail(q))[n] = SampledAfter(stored, q)[n + 1]
<1> DEFINE r == Tail(q)
           s == Grown(stored, Head(q))
<1>1. /\ r \in Seq(BufferMessage) /\ Len(r) = Len(q) - 1 /\ Len(q) \in Nat \ {0}
      /\ \A n \in 1 .. Len(q) - 1 : r[n] = q[n + 1]
      /\ Head(q) = q[1] /\ Head(q) \in BufferMessage
  BY TailSeq
<1>2. s \in Seq(Threads)
  BY <1>1, GrownType
<1>3. s = Grown(stored, q[1])
  BY <1>1
<1> HIDE DEF r, s
<1> DEFINE f == SampledAfter(stored, q)
           g == SampledAfter(s, r)
           h == [n \in 0 .. Len(q) - 1 |-> f[n + 1]]
<1>4. Grows(f, stored, q, Len(q)) /\ Grows(g, s, r, Len(q) - 1)
  BY <1>1, <1>2, SampledAfterIs
<1> HIDE DEF f, g
<1>5. \A n \in 0 .. Len(q) - 1 : h[n] = f[n + 1]
  OBVIOUS
<1> HIDE DEF h
<1>6. h[0] = s
  BY <1>1, <1>3, <1>4, <1>5 DEF Grows
<1>7. ASSUME NEW n \in 1 .. Len(q) - 1 PROVE h[n] = Grown(h[n - 1], r[n])
  <2>1. h[n] = f[n + 1] /\ h[n - 1] = f[n]
    BY <1>1, <1>5
  <2>2. f[n + 1] = Grown(f[n], q[n + 1])
    BY <1>1, <1>4 DEF Grows
  <2> QED
    BY <1>1, <2>1, <2>2
<1>8. Grows(h, s, r, Len(q) - 1)
  BY <1>6, <1>7 DEF Grows
<1>9. \A n \in 0 .. Len(q) - 1 : g[n] = h[n]
  BY <1>1, <1>4, <1>8, GrowsOnce
<1>10. \A n \in 0 .. Len(q) - 1 : g[n] = f[n + 1]
  BY <1>5, <1>9
<1> QED
  BY <1>10 DEF f, g, r, s

\* The one request of a queue.
OneRequest(q, k) ==
  k \in DOMAIN q /\ q[k].type \in Requests /\ \A j \in DOMAIN q : q[j].type \in Requests => j = k

\* It is found.
LEMMA RequestInIs ==
  ASSUME NEW q, NEW k, OneRequest(q, k)
  PROVE  RequestIn(q) = k
  BY DEF OneRequest, RequestIn

\* What is sent after the request is behind it.
LEMMA BehindSend ==
  ASSUME NEW q \in Seq(BufferMessage), NEW m \in BufferMessage, NEW k, OneRequest(q, k),
         m.type \notin Requests
  PROVE  /\ OneRequest(Append(q, m), k)
         /\ MarkersBehind(Append(q, m), k)
              = MarkersBehind(q, k) \cup
                  (IF m.type = "AddMarker" THEN {[tid |-> m.tid, marker |-> m.marker]} ELSE {})
<1> DEFINE r == Append(q, m)
<1>1. /\ DOMAIN r = 1 .. Len(q) + 1 /\ DOMAIN q = 1 .. Len(q) /\ Len(q) \in Nat
      /\ r[Len(q) + 1] = m
      /\ \A n \in DOMAIN q : r[n] = q[n]
  BY AppendSeq
<1> HIDE DEF r
<1>2. OneRequest(r, k)
  BY <1>1 DEF OneRequest
<1>3. k \in 1 .. Len(q)
  BY <1>1 DEF OneRequest
<1>4. MarkersBehind(r, k) \subseteq MarkersBehind(q, k) \cup
                  (IF m.type = "AddMarker" THEN {[tid |-> m.tid, marker |-> m.marker]} ELSE {})
  BY <1>1, <1>3 DEF MarkersBehind
<1>5. MarkersBehind(q, k) \subseteq MarkersBehind(r, k)
  BY <1>1, <1>3 DEF MarkersBehind
<1>6. m.type = "AddMarker" => [tid |-> m.tid, marker |-> m.marker] \in MarkersBehind(r, k)
  BY <1>1, <1>3 DEF MarkersBehind
<1> QED
  BY <1>2, <1>4, <1>5, <1>6 DEF r

\* What is before it is received before it.
LEMMA BehindReceive ==
  ASSUME NEW q \in Seq(BufferMessage), q # <<>>, NEW k, OneRequest(q, k),
         Head(q).type \notin Requests
  PROVE  /\ OneRequest(Tail(q), k - 1)
         /\ k \in 2 .. Len(q)
         /\ MarkersBehind(Tail(q), k - 1) = MarkersBehind(q, k)
<1> DEFINE r == Tail(q)
<1>1. /\ DOMAIN r = 1 .. Len(q) - 1 /\ DOMAIN q = 1 .. Len(q) /\ Len(q) \in Nat \ {0}
      /\ \A n \in DOMAIN r : n + 1 \in DOMAIN q /\ r[n] = q[n + 1]
      /\ Head(q) = q[1]
  BY TailSeq
<1> HIDE DEF r
<1>2. k \in 2 .. Len(q)
  BY <1>1 DEF OneRequest
<1>3. OneRequest(r, k - 1)
  BY <1>1, <1>2 DEF OneRequest
<1>4. MarkersBehind(r, k - 1) \subseteq MarkersBehind(q, k)
  BY <1>1, <1>2 DEF MarkersBehind
<1>5. ASSUME NEW e \in MarkersBehind(q, k) PROVE e \in MarkersBehind(r, k - 1)
  <2>1. PICK i \in DOMAIN q : /\ k < i /\ q[i].type = "AddMarker"
                              /\ e = [tid |-> q[i].tid, marker |-> q[i].marker]
    BY DEF MarkersBehind
  <2>2. i - 1 \in DOMAIN r /\ k - 1 < i - 1 /\ r[i - 1] = q[i]
    BY <1>1, <1>2, <2>1
  <2>3. r[i - 1].type = "AddMarker" /\ e = [tid |-> r[i - 1].tid, marker |-> r[i - 1].marker]
    BY <2>1, <2>2
  <2> QED
    BY <2>2, <2>3 DEF MarkersBehind
<1> QED
  BY <1>2, <1>3, <1>4, <1>5 DEF r

-----------------------------------------------------------------------------
(* Two more invariants that the log needs.                                 *)

\* What has expired is neither stored nor under way.
Separate ==
  \A e \in expired :
    /\ e \notin Messages(markers)
    /\ MarkerMsg(e.tid, e.marker) \notin Messages(bufferChannel.queue)

\* What serialize has collected had been named.
InfosNamed == core = "collecting" => \A i \in DOMAIN infos : infos[i] \in threadInfo

\* A message that is sent keeps them apart, if its marker is a new one.
LEMMA SeparateSend ==
  ASSUME TypeOK, Separate, UNCHANGED <<markers, expired>>,
         \/ UNCHANGED bufferChannel.queue
         \/ \E m \in BufferMessage :
              /\ bufferChannel'.queue = Append(bufferChannel.queue, m)
              /\ m.type = "AddMarker" => EntryOf(m.tid, m.marker) \notin expired
  PROVE  Separate'
<1>1. /\ bufferChannel.queue \in Seq(BufferMessage)
      /\ expired \subseteq MarkerEntry
  BY QueueTypes DEF TypeOK, BufferTypeOK
<1>2. CASE UNCHANGED bufferChannel.queue
  BY <1>2 DEF Separate, Messages
<1>3. ASSUME NEW m \in BufferMessage, bufferChannel'.queue = Append(bufferChannel.queue, m),
             m.type = "AddMarker" => EntryOf(m.tid, m.marker) \notin expired
      PROVE  Separate'
  <2>1. Messages(bufferChannel'.queue) = Messages(bufferChannel.queue) \cup {m}
    BY <1>1, <1>3, MessagesAfterAppend
  <2>2. ASSUME NEW e \in expired, MarkerMsg(e.tid, e.marker) = m
        PROVE  FALSE
    <3>1. m.type = "AddMarker" /\ m.tid = e.tid /\ m.marker = e.marker
      BY <2>2 DEF MarkerMsg
    <3> QED
      BY <1>1, <1>3, <2>2, <3>1, MarkerParts
  <2>3. /\ Messages(markers') = Messages(markers) /\ expired' = expired
    OBVIOUS
  <2> QED
    BY <2>1, <2>2, <2>3 DEF Separate
<1> QED
  BY <1>2, <1>3

\* So does a message that is stored, or that lets markers expire.
LEMMA SeparateReceive ==
  ASSUME TypeOK, Separate, InOrder(markers, bufferChannel.queue),
         bufferChannel.queue # <<>>, bufferChannel'.queue = Tail(bufferChannel.queue),
         Stores(BufferMsg)
  PROVE  Separate'
<1>1. /\ bufferChannel.queue \in Seq(BufferMessage) /\ markers \in Seq(MarkerEntry)
      /\ expired \subseteq MarkerEntry
  BY QueueTypes DEF TypeOK, BufferTypeOK
<1>2. Messages(bufferChannel.queue) = {BufferMsg} \cup Messages(bufferChannel'.queue)
  BY <1>1, MessagesAfterTail DEF BufferMsg
<1>3. CASE UNCHANGED <<markers, expired>>
  BY <1>2, <1>3 DEF Separate
<1>4. CASE /\ BufferMsg.type = "AddMarker"
           /\ markers' = Append(markers, [tid |-> BufferMsg.tid, marker |-> BufferMsg.marker])
           /\ UNCHANGED <<samples, expired>>
  <2>1. BufferMsg \in BufferMessage
    BY <1>1, TailSeq DEF BufferMsg
  <2> DEFINE e == EntryOf(BufferMsg.tid, BufferMsg.marker)
  <2>2. e \in MarkerEntry /\ BufferMsg = MarkerMsg(e.tid, e.marker)
    BY <1>4, <2>1, MarkerParts DEF EntryOf, MarkerEntry
  <2>3. Messages(markers') = Messages(markers) \cup {e}
    BY <1>1, <1>4, <2>2, MessagesAfterAppend DEF EntryOf
  <2>4. e \notin expired
    BY <1>2, <2>2 DEF Separate
  <2> HIDE DEF e
  <2> QED
    BY <1>2, <1>4, <2>3, <2>4 DEF Separate
<1>5. ASSUME NEW k \in 0 .. Len(markers), markers' = SubSeq(markers, k + 1, Len(markers)),
             expired' = expired \cup {markers[i] : i \in 1 .. k}
      PROVE  Separate'
  <2>1. /\ DOMAIN markers = 1 .. Len(markers)
        /\ \A i \in DOMAIN markers' : i + k \in DOMAIN markers /\ markers'[i] = markers[i + k]
                                      /\ i \in Nat \ {0}
        /\ \A i \in 1 .. k : i \in DOMAIN markers
    BY <1>1, <1>5
  <2>2. ASSUME NEW e \in expired PROVE e \notin Messages(markers')
    BY <2>1, <2>2 DEF Separate, Messages
  <2>3. ASSUME NEW i \in 1 .. k PROVE markers[i] \notin Messages(markers')
    <3> SUFFICES ASSUME NEW j \in DOMAIN markers', markers'[j] = markers[i] PROVE FALSE
      BY DEF Messages
    <3>1. i < j + k /\ markers[j + k] = markers[i] /\ i \in DOMAIN markers /\ j + k \in DOMAIN markers
      BY <2>1
    <3>2. markers[i].marker < markers[j + k].marker
      BY <3>1 DEF InOrder
    <3>3. markers[i].marker \in Nat
      <4>1. markers[i] \in MarkerEntry
        BY <1>1, <3>1
      <4> QED
        BY <4>1 DEF MarkerEntry
    <3> QED
      BY <3>1, <3>2, <3>3
  <2>4. ASSUME NEW i \in 1 .. k
        PROVE  MarkerMsg(markers[i].tid, markers[i].marker) \notin Messages(bufferChannel.queue)
    <3> SUFFICES ASSUME NEW j \in DOMAIN bufferChannel.queue,
                        bufferChannel.queue[j] = MarkerMsg(markers[i].tid, markers[i].marker)
                 PROVE  FALSE
      BY DEF Messages
    <3>1. /\ bufferChannel.queue[j].type = "AddMarker"
          /\ bufferChannel.queue[j].tid = markers[i].tid
          /\ bufferChannel.queue[j].marker = markers[i].marker
      BY DEF MarkerMsg
    <3>2. i \in DOMAIN markers
      BY <2>1
    <3>3. markers[i].marker < bufferChannel.queue[j].marker
      BY <3>1, <3>2 DEF InOrder
    <3>4. markers[i].marker \in Nat
      <4>1. markers[i] \in MarkerEntry
        BY <1>1, <3>2
      <4> QED
        BY <4>1 DEF MarkerEntry
    <3> QED
      BY <3>1, <3>3, <3>4
  <2>5. \A e \in expired : MarkerMsg(e.tid, e.marker) \notin Messages(bufferChannel'.queue)
    BY <1>2 DEF Separate
  <2> QED
    BY <1>2, <1>5, <2>2, <2>3, <2>4, <2>5 DEF Separate
<1> QED
  BY <1>3, <1>4, <1>5 DEF Stores

\* So does every step of the profiler.
LEMMA SeparateStep ==
  ASSUME PanicInv, PanicInv', AllRecorded, InOrder(markers, bufferChannel.queue), Separate,
         [Next]_vars
  PROVE  Separate'
<1>1. TypeOK /\ added \in [Threads -> Nat]
  BY DEF PanicInv, TypeOK, RegistrarTypeOK
<1>2. CASE UNCHANGED <<bufferChannel.queue, markers, expired>>
  BY <1>1, <1>2, SeparateSend
<1>3. CASE UNCHANGED vars
  BY <1>2, <1>3 DEF vars, channelVars, bufferVars
<1>4. CASE BufferNext
  BY <1>1, <1>2, <1>4, BufferData, SeparateReceive
<1>5. CASE SamplerStep /\ UNCHANGED bufferVars
  <2>1. samplers \subseteq Threads
    BY DEF PanicInv, TypeOK, SamplerTypeOK
  <2>2. \A t \in Threads : [type |-> "AddSample", tid |-> t] \in BufferMessage
                           /\ [type |-> "AddSample", tid |-> t].type # "AddMarker"
    BY BufferMessages
  <2>3. UNCHANGED <<markers, expired>>
    BY <1>5 DEF bufferVars
  <2> QED
    BY <1>1, <1>5, <2>1, <2>2, <2>3, SamplerData, SeparateSend
<1>6. ASSUME NEW t \in Threads, ThreadStep(t), UNCHANGED bufferVars PROVE Separate'
  <2>1. UNCHANGED <<markers, expired>>
    BY <1>6 DEF bufferVars
  <2>2. CASE bufferChannel'.queue =
               Append(bufferChannel.queue,
                      [type |-> "AddMarker", tid |-> t, marker |-> added[t] + 1])
    <3> DEFINE m == [type |-> "AddMarker", tid |-> t, marker |-> added[t] + 1]
    <3>1. m \in BufferMessage
      BY <1>1, BufferMessages
    <3>2. added[t] + 1 \notin 1 .. added[t]
      BY <1>1
    <3>3. EntryOf(m.tid, m.marker) \notin expired
      BY <3>2 DEF AllRecorded, Recorded
    <3> QED
      BY <1>1, <2>1, <2>2, <3>1, <3>3, SeparateSend
  <2>3. CASE bufferChannel'.queue =
               Append(bufferChannel.queue, [type |-> "ClearExpiredMarkers"])
    <3>1. [type |-> "ClearExpiredMarkers"] \in BufferMessage
      BY BufferMessages
    <3> QED
      BY <1>1, <2>1, <2>3, <3>1, SeparateSend
  <2> QED
    BY <1>2, <1>6, <2>1, <2>2, <2>3, ThreadData
<1>7. CASE CoreStep /\ UNCHANGED bufferVars
  <2>1. UNCHANGED <<markers, expired>>
    BY <1>7 DEF bufferVars
  <2>2. \A m : m.type \in Requests => m.type # "AddMarker"
    BY DEF Requests
  <2> QED
    BY <1>1, <1>7, <2>1, <2>2, CoreData, SeparateSend
<1> QED
  BY <1>3, <1>4, <1>5, <1>6, <1>7 DEF Next

\* A name is collected from a slot that is filled, and no slot is emptied.
LEMMA InfosNamedStep ==
  ASSUME PanicInv, InfosNamed, [Next]_vars
  PROVE  InfosNamed'
<1>1. /\ threadInfo \subseteq Threads /\ infos \in Seq(Threads) /\ registrars \in Seq(Threads)
  BY DEF PanicInv, TypeOK, RegistrarTypeOK, CoreTypeOK
<1>2. CASE UNCHANGED <<core, infos>> /\ threadInfo \subseteq threadInfo'
  BY <1>2 DEF InfosNamed
<1>3. CASE UNCHANGED vars
  BY <1>2, <1>3 DEF vars, coreVars, registrarVars
<1>4. CASE UNCHANGED <<registrarVars, coreVars>>
  BY <1>2, <1>4 DEF coreVars, registrarVars
<1>5. ASSUME NEW t \in Threads, ThreadStep(t), UNCHANGED coreVars PROVE InfosNamed'
  <2>1. threadInfo \subseteq threadInfo'
    BY <1>5, ThreadData
  <2> QED
    BY <1>2, <1>5, <2>1 DEF coreVars
<1>6. CASE CoreStep
  <2>1. UNCHANGED threadInfo
    BY <1>6, CoreData
  <2>2. CASE UNCHANGED <<core, infos>>
    BY <1>2, <2>1, <2>2
  <2>3. CASE core' # "collecting"
    BY <2>3 DEF InfosNamed
  <2>4. CASE infos' = <<>>
    BY <2>4 DEF InfosNamed
  <2>5. ASSUME core = "collecting", NEW u \in threadInfo, infos' = Append(infos, u) PROVE InfosNamed'
    <3>1. u \in Threads
      BY <1>1
    <3>2. \A i \in DOMAIN infos' : infos'[i] = u \/ (i \in DOMAIN infos /\ infos'[i] = infos[i])
      BY <1>1, <2>5, <3>1, AppendSeq
    <3> QED
      BY <2>1, <2>5, <3>2 DEF InfosNamed
  <2>6. CASE CollectThreadInfo
    BY <2>2, <2>5, <2>6 DEF CollectThreadInfo
  <2>7. ASSUME NEW t \in Threads, GetThreadRegistrar(t) PROVE UNCHANGED <<core, infos>>
    BY <2>7 DEF GetThreadRegistrar
  <2>8. CASE CallSerialize
    BY <2>4, <2>8 DEF CallSerialize
  <2>9. CASE CallStartSampling \/ CallGetSampleCount \/ CallWaitForOneSample \/ SendSerialize
             \/ ReceiveResponse \/ DropCore
    BY <2>2, <2>3, <2>9 DEF CallStartSampling, CallGetSampleCount, CallWaitForOneSample,
         SendSerialize, ReceiveResponse, DropCore, SendRequest, DropsCore
  <2> QED
    BY <1>6, <2>2, <2>6, <2>7, <2>8, <2>9 DEF CoreStep, CoreNext
<1> QED
  BY <1>3, <1>4, <1>5, <1>6 DEF Next

-----------------------------------------------------------------------------
(* The steps of the profiler as steps of the log.                          *)

\* Where serialize stands, by where the core stands.
LEMMA SerializingIs ==
  /\ core = "collecting" => Serializing = "listing"
  /\ core = "awaiting" /\ request = "SerializeBuffer" =>
       IF serializationChannel.queue = <<>> THEN Serializing = "reading" ELSE Serializing = "returning"
  /\ core # "collecting" /\ ~ (core = "awaiting" /\ request = "SerializeBuffer") =>
       Serializing = "idle"
  BY DEF Serializing

\* While serialize reads its request is the one in the channel.
LEMMA ReadingAt ==
  ASSUME PanicInv, Serializing = "reading"
  PROVE  /\ core = "awaiting" /\ request = "SerializeBuffer" /\ serializationChannel.queue = <<>>
         /\ ~isWaitingForOneSample
         /\ \E k : OneRequest(bufferChannel.queue, k) /\ bufferChannel.queue[k].type = "SerializeBuffer"
<1>1. core = "awaiting" /\ request = "SerializeBuffer" /\ serializationChannel.queue = <<>>
  BY DEF Serializing
<1>2. RequestQueued
  BY <1>1 DEF PanicInv, Lockstep, RequestDeferred, RequestResponded
<1> QED
  BY <1>1, <1>2 DEF RequestQueued, OneRequestQueued, IsRequest, OneRequest, Requests

\* While it returns none is.
LEMMA ReturningAt ==
  ASSUME PanicInv, Serializing = "returning"
  PROVE  /\ core = "awaiting" /\ request = "SerializeBuffer"
         /\ Len(serializationChannel.queue) = 1 /\ serializationChannel.queue # <<>>
         /\ ~isWaitingForOneSample /\ NoRequestQueued
<1>1. core = "awaiting" /\ request = "SerializeBuffer" /\ serializationChannel.queue # <<>>
  BY DEF Serializing
<1> QED
  BY <1>1 DEF PanicInv, Lockstep, RequestQueued, RequestDeferred, RequestResponded

\* What has been read does not change with where in the channel the request is.
LEMMA ReadKept ==
  ASSUME Serializing = "reading", Serializing' = "reading", UNCHANGED infos,
         NEW k, NEW j, OneRequest(bufferChannel.queue, k), OneRequest(bufferChannel'.queue, j),
         AddedMarkers' \ MarkersBehind(bufferChannel'.queue, j)
           = AddedMarkers \ MarkersBehind(bufferChannel.queue, k),
         Len(SampledAfter(samples', bufferChannel'.queue)[j])
           = Len(SampledAfter(samples, bufferChannel.queue)[k])
  PROVE  UNCHANGED ReadSoFar
<1>1. RequestIn(bufferChannel.queue) = k /\ RequestIn(bufferChannel'.queue) = j
  BY RequestInIs
<1> QED
  BY <1>1 DEF ReadSoFar

\* A step that leaves the channels, the buffers and the core alone leaves the log alone.
LEMMA LogAlone ==
  ASSUME UNCHANGED <<bufferChannel.queue, serializationChannel.queue, samples, added, core,
                     request, infos, profile>>
  PROVE  UNCHANGED <<Sampled, Serializing, ReadSoFar, ProfileOnItsWay>>
<1>1. UNCHANGED <<Serializing, AddedMarkers, Sampled>>
  BY DEF Serializing, AddedMarkers, Sampled
<1>2. UNCHANGED ReadSoFar
  BY <1>1 DEF ReadSoFar
<1>3. UNCHANGED ProfileOnItsWay
  BY <1>1 DEF ProfileOnItsWay
<1> QED
  BY <1>1, <1>2, <1>3

\* The next marker of a thread is not yet in the log.
LEMMA AddedNext ==
  ASSUME added \in [Threads -> Nat], NEW t \in Threads, added' = [added EXCEPT ![t] = @ + 1]
  PROVE  /\ AddedMarkers' = AddedMarkers \cup {EntryOf(t, added[t] + 1)}
         /\ EntryOf(t, added[t] + 1) \notin AddedMarkers
<1>1. \A u \in Threads : \A n : n \in 1 .. added'[u] <=>
          n \in 1 .. added[u] \/ (u = t /\ n = added[t] + 1)
  OBVIOUS
<1>2. \A e : e \in AddedMarkers <=> \E u \in Threads : \E n \in 1 .. added[u] : e = EntryOf(u, n)
  BY DEF AddedMarkers, EntryOf
<1>3. \A e : e \in AddedMarkers' <=> \E u \in Threads : \E n \in 1 .. added'[u] : e = EntryOf(u, n)
  BY DEF AddedMarkers, EntryOf
<1>4. \A u, v, n, m : EntryOf(u, n) = EntryOf(v, m) => u = v /\ n = m
  BY DEF EntryOf
<1>5. added[t] + 1 \notin 1 .. added[t]
  OBVIOUS
<1>6. ASSUME NEW e PROVE e \in AddedMarkers' <=> e \in AddedMarkers \/ e = EntryOf(t, added[t] + 1)
  BY <1>1, <1>2, <1>3
<1>7. EntryOf(t, added[t] + 1) \notin AddedMarkers
  BY <1>2, <1>4, <1>5
<1> QED
  BY <1>6, <1>7

\* A marker or a sample that is sent is in the log, and behind a request that was sent before it.
LEMMA LogSend ==
  ASSUME PanicInv, NEW m \in BufferMessage, m.type \notin Requests,
         bufferChannel'.queue = Append(bufferChannel.queue, m),
         m.type = "AddMarker" => /\ m.marker = added[m.tid] + 1
                                 /\ added' = [added EXCEPT ![m.tid] = @ + 1],
         m.type # "AddMarker" => added' = added,
         UNCHANGED <<serializationChannel.queue, samples, core, request, infos, profile>>
  PROVE  /\ UNCHANGED <<Serializing, ReadSoFar, ProfileOnItsWay>>
         /\ Sampled' = Grown(Sampled, m)
<1>1. /\ bufferChannel.queue \in Seq(BufferMessage) /\ samples \in Seq(Threads)
      /\ added \in [Threads -> Nat]
      /\ m.type = "AddMarker" => m.tid \in Threads
  BY QueueTypes, BufferMessageFields DEF PanicInv, TypeOK, BufferTypeOK, RegistrarTypeOK
<1>2. UNCHANGED Serializing
  BY DEF Serializing
<1>3. UNCHANGED ProfileOnItsWay
  BY <1>2 DEF ProfileOnItsWay
<1>4. /\ Len(bufferChannel'.queue) = Len(bufferChannel.queue) + 1
      /\ Len(bufferChannel.queue) \in Nat
      /\ DOMAIN bufferChannel.queue = 1 .. Len(bufferChannel.queue)
  BY <1>1
<1>5. /\ \A n \in 0 .. Len(bufferChannel.queue) :
           SampledAfter(samples', bufferChannel'.queue)[n] = SampledAfter(samples, bufferChannel.queue)[n]
      /\ SampledAfter(samples', bufferChannel'.queue)[Len(bufferChannel.queue) + 1]
           = Grown(SampledAfter(samples, bufferChannel.queue)[Len(bufferChannel.queue)], m)
  BY <1>1, SampledSend
<1>6. Sampled' = Grown(Sampled, m)
  BY <1>4, <1>5 DEF Sampled
<1>7. CASE Serializing # "reading"
  BY <1>2, <1>3, <1>6, <1>7 DEF ReadSoFar
<1>8. CASE Serializing = "reading"
  <2>1. PICK k : OneRequest(bufferChannel.queue, k)
    BY <1>8, ReadingAt
  <2>2. /\ OneRequest(bufferChannel'.queue, k)
        /\ MarkersBehind(bufferChannel'.queue, k)
             = MarkersBehind(bufferChannel.queue, k) \cup
                 (IF m.type = "AddMarker" THEN {[tid |-> m.tid, marker |-> m.marker]} ELSE {})
    BY <1>1, <2>1, BehindSend
  <2>3. k \in 0 .. Len(bufferChannel.queue)
    BY <1>4, <2>1 DEF OneRequest
  <2>4. AddedMarkers' \ MarkersBehind(bufferChannel'.queue, k)
          = AddedMarkers \ MarkersBehind(bufferChannel.queue, k)
    <3>1. CASE m.type = "AddMarker"
      <4>1. /\ AddedMarkers' = AddedMarkers \cup {EntryOf(m.tid, m.marker)}
            /\ EntryOf(m.tid, m.marker) \notin AddedMarkers
        BY <1>1, <3>1, AddedNext
      <4> QED
        BY <2>2, <3>1, <4>1 DEF EntryOf
    <3>2. CASE m.type # "AddMarker"
      <4>1. AddedMarkers' = AddedMarkers
        BY <3>2 DEF AddedMarkers
      <4> QED
        BY <2>2, <3>2, <4>1
    <3> QED
      BY <3>1, <3>2
  <2>5. UNCHANGED ReadSoFar
    BY <1>2, <1>5, <1>8, <2>1, <2>2, <2>3, <2>4, ReadKept
  <2> QED
    BY <1>2, <1>3, <1>6, <2>5
<1> QED
  BY <1>7, <1>8

\* The sampler thread: a sample it takes is a sample of the log.
LEMMA LogSampler ==
  ASSUME PanicInv, PanicInv', Named, SamplerStep,
         UNCHANGED <<bufferVars, registrarVars, coreVars, atCall>>
  PROVE  [ProfileLog!Next]_(ProfileLog!vars)
<1>1. UNCHANGED <<serializationChannel.queue, samples, expired, added, threadInfo, core, request,
                  infos, profile, atCall.threadInfo>>
  BY ResponsesAlone DEF bufferVars, registrarVars, coreVars
<1>2. CASE UNCHANGED bufferChannel.queue
  BY <1>1, <1>2, LogAlone DEF ProfileLog!vars
<1>3. ASSUME NEW t \in samplers,
             bufferChannel'.queue = Append(bufferChannel.queue, [type |-> "AddSample", tid |-> t])
      PROVE  [ProfileLog!Next]_(ProfileLog!vars)
  <2> DEFINE m == [type |-> "AddSample", tid |-> t]
  <2>1. t \in Threads /\ t \in threadInfo
    BY DEF PanicInv, TypeOK, SamplerTypeOK, Named
  <2>2. m \in BufferMessage /\ m.type = "AddSample" /\ m.tid = t /\ m.type \notin Requests
    BY <2>1, BufferMessages DEF Requests
  <2>3. bufferChannel'.queue = Append(bufferChannel.queue, m)
    BY <1>3
  <2> HIDE DEF m
  <2>4. /\ UNCHANGED <<Serializing, ReadSoFar, ProfileOnItsWay>>
        /\ Sampled' = Grown(Sampled, m)
    BY <1>1, <2>2, <2>3, LogSend
  <2>5. Sampled' = Append(Sampled, t)
    BY <2>2, <2>4 DEF Grown
  <2>6. ProfileLog!Sample(t)
    BY <1>1, <2>1, <2>4, <2>5 DEF ProfileLog!Sample, ProfileLog!callVars
  <2> QED
    BY <2>1, <2>6 DEF ProfileLog!Next
<1> QED
  BY <1>2, <1>3, SamplerData

\* An application thread: register and add_marker are those of the log.
LEMMA LogThread ==
  ASSUME PanicInv, Named, NEW t \in Threads, ThreadStep(t),
         UNCHANGED <<bufferVars, samplerVars, coreVars, atCall>>
  PROVE  [ProfileLog!Next]_(ProfileLog!vars)
<1>1. UNCHANGED <<serializationChannel.queue, samples, expired, core, request,
                  infos, profile, atCall.threadInfo>>
  BY ResponsesAlone DEF bufferVars, coreVars
<1>2. CASE /\ thread[t] = "instrumented"
           /\ bufferChannel'.queue =
                Append(bufferChannel.queue,
                       [type |-> "AddMarker", tid |-> t, marker |-> added[t] + 1])
           /\ added' = [added EXCEPT ![t] = @ + 1]
           /\ UNCHANGED threadInfo
  <2> DEFINE m == [type |-> "AddMarker", tid |-> t, marker |-> added[t] + 1]
  <2>1. added[t] \in Nat
    BY DEF PanicInv, TypeOK, RegistrarTypeOK
  <2>2. /\ m \in BufferMessage /\ m.type = "AddMarker" /\ m.tid = t /\ m.marker = added[t] + 1
        /\ m.type \notin Requests
    BY <2>1, BufferMessages DEF Requests
  <2>3. bufferChannel'.queue = Append(bufferChannel.queue, m)
    BY <1>2
  <2> HIDE DEF m
  <2>4. /\ UNCHANGED <<Serializing, ReadSoFar, ProfileOnItsWay>>
        /\ Sampled' = Grown(Sampled, m)
    BY <1>1, <1>2, <2>2, <2>3, LogSend
  <2>5. UNCHANGED Sampled
    BY <2>2, <2>4 DEF Grown
  <2>6. t \in threadInfo
    BY <1>2 DEF Named
  <2>7. ProfileLog!AddMarker(t)
    BY <1>1, <1>2, <2>4, <2>5, <2>6 DEF ProfileLog!AddMarker, ProfileLog!callVars
  <2> QED
    BY <2>7 DEF ProfileLog!Next
<1>3. CASE /\ UNCHANGED added
           /\ \/ UNCHANGED bufferChannel.queue
              \/ bufferChannel'.queue = Append(bufferChannel.queue, [type |-> "ClearExpiredMarkers"])
           /\ threadInfo' = threadInfo \/ threadInfo' = threadInfo \cup {t}
  <2>1. UNCHANGED <<Sampled, Serializing, ReadSoFar, ProfileOnItsWay>>
    <3>1. CASE UNCHANGED bufferChannel.queue
      BY <1>1, <1>3, <3>1, LogAlone
    <3>2. CASE bufferChannel'.queue = Append(bufferChannel.queue, [type |-> "ClearExpiredMarkers"])
      <4> DEFINE m == [type |-> "ClearExpiredMarkers"]
      <4>1. m \in BufferMessage /\ m.type = "ClearExpiredMarkers" /\ m.type \notin Requests
        BY BufferMessages DEF Requests
      <4>2. bufferChannel'.queue = Append(bufferChannel.queue, m)
        BY <3>2
      <4> HIDE DEF m
      <4>3. /\ UNCHANGED <<Serializing, ReadSoFar, ProfileOnItsWay>>
            /\ Sampled' = Grown(Sampled, m)
        BY <1>1, <1>3, <4>1, <4>2, LogSend
      <4> QED
        BY <4>1, <4>3 DEF Grown
    <3> QED
      BY <1>3, <3>1, <3>2
  <2>2. CASE UNCHANGED threadInfo
    BY <1>1, <1>3, <2>1, <2>2 DEF ProfileLog!vars
  <2>3. CASE threadInfo' = threadInfo \cup {t}
    <3>1. ProfileLog!Register(t)
      BY <1>1, <1>3, <2>1, <2>3 DEF ProfileLog!Register, ProfileLog!callVars
    <3> QED
      BY <3>1 DEF ProfileLog!Next
  <2> QED
    BY <1>3, <2>2, <2>3
<1> QED
  BY <1>2, <1>3, ThreadData

\* What the buffer thread takes from the channel was in the log before.
LEMMA LogReceive ==
  ASSUME PanicInv, bufferChannel.queue # <<>>, bufferChannel'.queue = Tail(bufferChannel.queue),
         samples' = Grown(samples, BufferMsg),
         UNCHANGED <<added, core, request, infos, profile>>,
         Serializing = "reading" => BufferMsg.type \notin Requests,
         Serializing \in {"reading", "returning"} => UNCHANGED serializationChannel.queue
  PROVE  UNCHANGED <<Sampled, Serializing, ReadSoFar, ProfileOnItsWay>>
<1>1. bufferChannel.queue \in Seq(BufferMessage) /\ samples \in Seq(Threads)
  BY QueueTypes DEF PanicInv, TypeOK, BufferTypeOK
<1>2. /\ Len(bufferChannel'.queue) = Len(bufferChannel.queue) - 1
      /\ Len(bufferChannel.queue) \in Nat \ {0}
  BY <1>1, TailSeq
<1>3. \A n \in 0 .. Len(bufferChannel.queue) - 1 :
        SampledAfter(samples', bufferChannel'.queue)[n]
          = SampledAfter(samples, bufferChannel.queue)[n + 1]
  BY <1>1, SampledReceive DEF BufferMsg
<1>4. Sampled' = Sampled
  <2>1. SampledAfter(samples', bufferChannel'.queue)[Len(bufferChannel.queue) - 1]
          = SampledAfter(samples, bufferChannel.queue)[Len(bufferChannel.queue) - 1 + 1]
    BY <1>2, <1>3
  <2>2. Len(bufferChannel.queue) - 1 + 1 = Len(bufferChannel.queue)
    BY <1>2
  <2> QED
    BY <1>2, <2>1, <2>2 DEF Sampled
<1>5. UNCHANGED Serializing
  <2>1. CASE Serializing \in {"reading", "returning"}
    BY <2>1 DEF Serializing
  <2>2. CASE Serializing \notin {"reading", "returning"}
    <3>1. ~ (core = "awaiting" /\ request = "SerializeBuffer")
      BY <2>2, SerializingIs
    <3> QED
      BY <3>1 DEF Serializing
  <2> QED
    BY <2>1, <2>2
<1>6. UNCHANGED ProfileOnItsWay
  BY <1>5 DEF ProfileOnItsWay
<1>7. CASE Serializing # "reading"
  BY <1>4, <1>5, <1>6, <1>7 DEF ReadSoFar
<1>8. CASE Serializing = "reading"
  <2>1. PICK k : OneRequest(bufferChannel.queue, k)
    BY <1>8, ReadingAt
  <2>2. /\ OneRequest(bufferChannel'.queue, k - 1)
        /\ k \in 2 .. Len(bufferChannel.queue)
        /\ MarkersBehind(bufferChannel'.queue, k - 1) = MarkersBehind(bufferChannel.queue, k)
    BY <1>1, <1>8, <2>1, BehindReceive DEF BufferMsg
  <2>3. UNCHANGED AddedMarkers
    BY DEF AddedMarkers
  <2>4. SampledAfter(samples', bufferChannel'.queue)[k - 1]
          = SampledAfter(samples, bufferChannel.queue)[k]
    <3>1. k - 1 \in 0 .. Len(bufferChannel.queue) - 1 /\ k - 1 + 1 = k
      BY <1>2, <2>2
    <3> QED
      BY <1>3, <3>1
  <2>5. UNCHANGED ReadSoFar
    BY <1>5, <1>8, <2>1, <2>2, <2>3, <2>4, ReadKept
  <2> QED
    BY <1>4, <1>5, <1>6, <2>5
<1> QED
  BY <1>7, <1>8

\* When the request is next, the markers stored are those before it, but for the expired.
LEMMA StoredIsRead ==
  ASSUME TypeOK, AllRecorded, InOrder(markers, bufferChannel.queue), Separate,
         bufferChannel.queue # <<>>, BufferMsg.type \in Requests, NEW t
  PROVE  MarkersOf(t)
           = ProfileLog!MarkersIn((AddedMarkers \ MarkersBehind(bufferChannel.queue, 1)) \ expired, t)
<1> DEFINE read == (AddedMarkers \ MarkersBehind(bufferChannel.queue, 1)) \ expired
<1>1. /\ bufferChannel.queue \in Seq(BufferMessage) /\ markers \in Seq(MarkerEntry)
      /\ bufferChannel.queue[1].type # "AddMarker"
      /\ DOMAIN bufferChannel.queue \subseteq Nat \ {0}
  BY QueueTypes, TailSeq DEF TypeOK, BufferTypeOK, BufferMsg, Requests
<1>2. ASSUME NEW i \in DOMAIN markers PROVE markers[i] \in read
  <2>1. markers[i] \in MarkerEntry
    BY <1>1
  <2>2. PICK u \in Threads, n \in Nat : markers[i] = EntryOf(u, n)
    BY <2>1, MarkerParts DEF MarkerEntry
  <2>3. markers[i] \in Messages(markers)
    BY DEF Messages
  <2>4. n \in 1 .. added[u]
    BY <2>2, <2>3 DEF AllRecorded, Recorded
  <2>5. markers[i] \in AddedMarkers
    BY <2>2, <2>4 DEF AddedMarkers, EntryOf
  <2>6. markers[i] \notin expired
    BY <2>3 DEF Separate
  <2>7. ASSUME markers[i] \in MarkersBehind(bufferChannel.queue, 1) PROVE FALSE
    <3>1. PICK j \in DOMAIN bufferChannel.queue :
            /\ bufferChannel.queue[j].type = "AddMarker"
            /\ markers[i] = [tid |-> bufferChannel.queue[j].tid,
                             marker |-> bufferChannel.queue[j].marker]
      BY <2>7 DEF MarkersBehind
    <3>2. /\ markers[i].tid = bufferChannel.queue[j].tid
          /\ markers[i].marker = bufferChannel.queue[j].marker
      BY <3>1
    <3>3. markers[i].marker < bufferChannel.queue[j].marker
      BY <3>1, <3>2 DEF InOrder
    <3>4. markers[i].marker \in Nat
      BY <2>1 DEF MarkerEntry
    <3> QED
      BY <3>2, <3>3, <3>4
  <2> QED
    BY <2>5, <2>6, <2>7
<1>3. ASSUME NEW e \in read PROVE \E i \in DOMAIN markers : markers[i] = e
  <2>1. PICK u \in Threads : \E n \in 1 .. added[u] : e = EntryOf(u, n)
    BY DEF AddedMarkers, EntryOf
  <2>2. PICK n \in 1 .. added[u] : e = EntryOf(u, n)
    BY <2>1
  <2>3. Recorded(u, n)
    BY <2>2 DEF AllRecorded
  <2>4. ASSUME NEW j \in DOMAIN bufferChannel.queue, bufferChannel.queue[j] = MarkerMsg(u, n)
        PROVE  FALSE
    <3>1. /\ bufferChannel.queue[j].type = "AddMarker" /\ bufferChannel.queue[j].tid = u
          /\ bufferChannel.queue[j].marker = n
      BY <2>4 DEF MarkerMsg
    <3>2. 1 < j
      BY <1>1, <3>1
    <3>3. e \in MarkersBehind(bufferChannel.queue, 1)
      BY <2>2, <3>1, <3>2 DEF MarkersBehind, EntryOf
    <3> QED
      BY <3>3
  <2> QED
    BY <2>2, <2>3, <2>4 DEF Recorded, Messages
<1> HIDE DEF read
<1>4. \A e : e \in read <=> \E i \in DOMAIN markers : markers[i] = e
  BY <1>2, <1>3
<1>5. MarkersOf(t) = ProfileLog!MarkersIn(read, t)
  BY <1>4 DEF MarkersOf, ProfileLog!MarkersIn
<1> QED
  BY <1>5 DEF read

\* So are the samples.
LEMMA SamplesAreRead ==
  ASSUME TypeOK, bufferChannel.queue # <<>>, BufferMsg.type \in Requests, NEW t
  PROVE  SamplesOf(t)
           = {n \in 1 .. Len(SampledAfter(samples, bufferChannel.queue)[1]) : Sampled[n] = t}
<1>1. /\ bufferChannel.queue \in Seq(BufferMessage) /\ samples \in Seq(Threads)
      /\ Head(bufferChannel.queue) = bufferChannel.queue[1]
      /\ Len(bufferChannel.queue) \in Nat \ {0}
      /\ DOMAIN samples = 1 .. Len(samples)
  BY QueueTypes, TailSeq DEF TypeOK, BufferTypeOK
<1>2. SampledAfter(samples, bufferChannel.queue)[1] = samples
  <2>1. /\ SampledAfter(samples, bufferChannel.queue)[0] = samples
        /\ SampledAfter(samples, bufferChannel.queue)[1]
             = Grown(SampledAfter(samples, bufferChannel.queue)[1 - 1], bufferChannel.queue[1])
    BY <1>1, SampledParts
  <2>2. bufferChannel.queue[1].type # "AddSample"
    BY <1>1 DEF BufferMsg, Requests
  <2>3. SampledAfter(samples, bufferChannel.queue)[1] = Grown(samples, bufferChannel.queue[1])
    BY <2>1
  <2> QED
    BY <2>2, <2>3 DEF Grown
<1>3. \A i \in 1 .. Len(samples) : Sampled[i] = samples[i]
  <2>1. Len(bufferChannel.queue) \in 0 .. Len(bufferChannel.queue)
    BY <1>1
  <2> QED
    BY <1>1, <2>1, SampledStored DEF Sampled
<1> QED
  BY <1>1, <1>2, <1>3 DEF SamplesOf

\* The buffer thread: it stores what the log has, expires some, and answers with what was read.
LEMMA LogBuffer ==
  ASSUME PanicInv, PanicInv', CompleteInv, InOrder(markers, bufferChannel.queue), Separate,
         BufferNext, UNCHANGED <<samplerVars, registrarVars, coreVars, atCall>>
  PROVE  [ProfileLog!Next]_(ProfileLog!vars)
<1>1. /\ TypeOK /\ IsChannel(bufferChannel) /\ IsChannel(serializationChannel)
      /\ bufferThread' # "panicked"
      /\ bufferChannel.queue \in Seq(BufferMessage) /\ markers \in Seq(MarkerEntry)
      /\ samples \in Seq(Threads) /\ expired \subseteq MarkerEntry
  BY AreChannels, QueueTypes DEF PanicInv, ThreadsNeverPanic, TypeOK, BufferTypeOK
<1>2. UNCHANGED <<added, threadInfo, core, request, infos, profile, atCall.threadInfo>>
  BY DEF registrarVars, coreVars
<1>3. isWaitingForOneSample => Serializing \notin {"reading", "returning"}
  BY ReadingAt, ReturningAt
<1>4. ASSUME bufferChannel.queue # <<>>, BufferMsg.type \in Requests
      PROVE  /\ OneRequest(bufferChannel.queue, 1)
             /\ core = "awaiting" /\ request = BufferMsg.type /\ serializationChannel.queue = <<>>
             /\ Serializing # "returning"
             /\ BufferMsg.type # "SerializeBuffer" => Serializing # "reading"
  <2>1. /\ 1 \in DOMAIN bufferChannel.queue /\ BufferMsg = bufferChannel.queue[1]
    BY <1>1, <1>4, TailSeq DEF BufferMsg
  <2>2. ~ NoRequestQueued
    BY <1>4, <2>1 DEF NoRequestQueued, IsRequest
  <2>3. core = "awaiting" /\ RequestQueued
    BY <2>2 DEF PanicInv, Lockstep, NoRequest, RequestDeferred, RequestResponded
  <2>4. /\ OneRequest(bufferChannel.queue, 1) /\ request = BufferMsg.type
        /\ serializationChannel.queue = <<>>
    BY <1>4, <2>1, <2>3 DEF RequestQueued, OneRequestQueued, IsRequest, OneRequest
  <2> QED
    BY <2>2, <2>3, <2>4, ReadingAt, ReturningAt
<1>5. ASSUME bufferChannel.queue # <<>>, bufferChannel'.queue = Tail(bufferChannel.queue),
             samples' = Grown(samples, BufferMsg),
             BufferMsg.type # "SerializeBuffer",
             Serializing \in {"reading", "returning"} => UNCHANGED serializationChannel.queue
      PROVE  UNCHANGED <<Sampled, Serializing, ReadSoFar, ProfileOnItsWay>>
  BY <1>1, <1>2, <1>4, <1>5, LogReceive
<1>6. ASSUME NEW msg, Respond(msg)
      PROVE  /\ bufferChannel'.queue = Tail(bufferChannel.queue)
             /\ serializationChannel'.queue = Append(serializationChannel.queue, msg)
  BY <1>1, <1>6, TakeFields, PutFields DEF Respond
<1>7. ASSUME Consume
      PROVE  /\ bufferChannel'.queue = Tail(bufferChannel.queue)
             /\ UNCHANGED serializationChannel.queue
  BY <1>1, <1>7, TakeFields DEF Consume
<1>8. CASE StoreMarker
  <2>1. /\ bufferChannel.queue # <<>> /\ BufferMsg.type = "AddMarker"
        /\ UNCHANGED <<samples, expired>>
    BY <1>8 DEF StoreMarker, BufferReceives, BufferMsg
  <2>2. UNCHANGED <<Sampled, Serializing, ReadSoFar, ProfileOnItsWay>>
    BY <1>5, <1>7, <1>8, <2>1 DEF StoreMarker, Grown
  <2> QED
    BY <1>2, <2>1, <2>2 DEF ProfileLog!vars
<1>9. CASE StoreSample
  <2>1. /\ bufferChannel.queue # <<>> /\ BufferMsg.type = "AddSample"
        /\ samples' = Append(samples, BufferMsg.tid) /\ UNCHANGED expired
        /\ IF isWaitingForOneSample THEN Respond([type |-> "OneSampleReceived"]) ELSE Consume
    BY <1>9 DEF StoreSample, BufferReceives, BufferMsg
  <2>2. /\ bufferChannel'.queue = Tail(bufferChannel.queue)
        /\ Serializing \in {"reading", "returning"} => UNCHANGED serializationChannel.queue
    BY <1>3, <1>6, <1>7, <2>1
  <2>3. samples' = Grown(samples, BufferMsg)
    BY <2>1 DEF Grown
  <2>4. UNCHANGED <<Sampled, Serializing, ReadSoFar, ProfileOnItsWay>>
    BY <1>5, <2>1, <2>2, <2>3
  <2> QED
    BY <1>2, <2>1, <2>4 DEF ProfileLog!vars
<1>10. CASE ClearExpiredMarkers
  <2>1. /\ bufferChannel.queue # <<>> /\ BufferMsg.type = "ClearExpiredMarkers"
        /\ UNCHANGED samples /\ Consume
    BY <1>10 DEF ClearExpiredMarkers, BufferReceives, BufferMsg
  <2>2. PICK n \in 0 .. Len(markers) : expired' = expired \cup {markers[i] : i \in 1 .. n}
    BY <1>10 DEF ClearExpiredMarkers
  <2>3. UNCHANGED <<Sampled, Serializing, ReadSoFar, ProfileOnItsWay>>
    BY <1>5, <1>7, <2>1 DEF Grown
  <2>4. \A i \in 1 .. n : i \in DOMAIN markers
    BY <1>1
  <2>5. ASSUME NEW e \in expired' PROVE e \in ProfileLog!Log
    <3>1. e \in MarkerEntry /\ e \in Messages(markers) \cup expired
      BY <1>1, <2>2, <2>4 DEF Messages
    <3>2. PICK u \in Threads, m \in Nat : e = EntryOf(u, m)
      BY <3>1, MarkerParts DEF MarkerEntry
    <3>3. m \in 1 .. added[u]
      BY <3>1, <3>2 DEF CompleteInv, AllRecorded, Recorded
    <3> QED
      BY <3>2, <3>3 DEF ProfileLog!Log, EntryOf
  <2>6. ProfileLog!Expire
    BY <1>2, <2>2, <2>3, <2>5 DEF ProfileLog!Expire, ProfileLog!callVars
  <2> QED
    BY <2>6 DEF ProfileLog!Next
<1>11. CASE SerializeBuffer
  <2>1. /\ bufferChannel.queue # <<>> /\ BufferMsg.type = "SerializeBuffer"
        /\ BufferMsg.type \in Requests
        /\ UNCHANGED <<samples, expired>>
        /\ Respond([type |-> "Serialize",
                    profile |-> SerializedProfile(BufferMsg.thread_infos)])
    BY <1>11 DEF SerializeBuffer, BufferReceives, BufferMsg, Requests
  <2>2. /\ OneRequest(bufferChannel.queue, 1)
        /\ core = "awaiting" /\ request = "SerializeBuffer" /\ serializationChannel.queue = <<>>
    BY <1>4, <2>1
  <2>3. BufferMsg.thread_infos = infos
    <3>1. BufferMsg = bufferChannel.queue[1]
      BY <1>1, <2>1, TailSeq DEF BufferMsg
    <3> QED
      BY <2>1, <2>2, <3>1 DEF CompleteInv, Requested, Ready, OneRequest
  <2>4. serializationChannel'.queue
          = Append(<<>>, [type |-> "Serialize", profile |-> SerializedProfile(infos)])
    BY <1>6, <2>1, <2>2, <2>3
  <2>5. /\ serializationChannel'.queue # <<>>
        /\ Head(serializationChannel'.queue).profile = SerializedProfile(infos)
    BY <2>4
  <2>6. Serializing = "reading" /\ Serializing' = "returning"
    BY <1>2, <2>2, <2>5 DEF Serializing
  <2>7. ReadSoFar = [listed |-> infos,
                     log |-> AddedMarkers \ MarkersBehind(bufferChannel.queue, 1),
                     samples |-> Len(SampledAfter(samples, bufferChannel.queue)[1])]
    BY <2>2, <2>6, RequestInIs DEF ReadSoFar
  <2>8. ReadSoFar' = ProfileLog!NothingRead
    BY <2>6 DEF ReadSoFar, ProfileLog!NothingRead
  <2>9. ProfileOnItsWay' = SerializedProfile(infos)
    BY <2>5, <2>6 DEF ProfileOnItsWay
  <2>10. UNCHANGED Sampled
    <3>1. /\ Len(bufferChannel'.queue) = Len(bufferChannel.queue) - 1
          /\ Len(bufferChannel.queue) \in Nat \ {0}
          /\ bufferChannel'.queue = Tail(bufferChannel.queue)
      BY <1>1, <1>6, <2>1, TailSeq
    <3>2. samples' = Grown(samples, Head(bufferChannel.queue))
      BY <2>1 DEF Grown, BufferMsg
    <3>3. \A n \in 0 .. Len(bufferChannel.queue) - 1 :
            SampledAfter(samples', bufferChannel'.queue)[n]
              = SampledAfter(samples, bufferChannel.queue)[n + 1]
      BY <1>1, <2>1, <3>1, <3>2, SampledReceive
    <3>4. SampledAfter(samples', bufferChannel'.queue)[Len(bufferChannel.queue) - 1]
            = SampledAfter(samples, bufferChannel.queue)[Len(bufferChannel.queue) - 1 + 1]
      BY <3>1, <3>3
    <3>5. Len(bufferChannel.queue) - 1 + 1 = Len(bufferChannel.queue)
      BY <3>1
    <3> QED
      BY <3>1, <3>4, <3>5 DEF Sampled
  <2>11. ProfileOnItsWay' = [i \in DOMAIN ReadSoFar.listed |->
           LET t == ReadSoFar.listed[i]
           IN  [tid |-> t,
                markers |-> ProfileLog!MarkersIn(ReadSoFar.log \ expired, t),
                samples |-> {n \in 1 .. ReadSoFar.samples : Sampled[n] = t}]]
    <3>1. \A t : /\ MarkersOf(t) = ProfileLog!MarkersIn(ReadSoFar.log \ expired, t)
                 /\ SamplesOf(t) = {n \in 1 .. ReadSoFar.samples : Sampled[n] = t}
      BY <1>1, <2>1, <2>7, StoredIsRead, SamplesAreRead DEF CompleteInv
    <3>2. ReadSoFar.listed = infos
      BY <2>7
    <3> QED
      BY <2>9, <3>1, <3>2 DEF SerializedProfile
  <2>12. ProfileLog!Answer
    BY <1>2, <2>1, <2>6, <2>8, <2>10, <2>11 DEF ProfileLog!Answer
  <2> QED
    BY <2>12 DEF ProfileLog!Next
<1>12. CASE AnswerSampleCount
  <2>1. /\ bufferChannel.queue # <<>> /\ BufferMsg.type = "GetSampleCount"
        /\ BufferMsg.type \in Requests
        /\ UNCHANGED <<samples, expired>>
        /\ Respond([type |-> "SampleCount", count |-> Len(samples)])
    BY <1>12 DEF AnswerSampleCount, BufferReceives, BufferMsg, Requests
  <2>2. UNCHANGED <<Sampled, Serializing, ReadSoFar, ProfileOnItsWay>>
    BY <1>4, <1>5, <1>6, <2>1 DEF Grown
  <2> QED
    BY <1>2, <2>1, <2>2 DEF ProfileLog!vars
<1>13. CASE NoteWait
  <2>1. /\ bufferChannel.queue # <<>> /\ BufferMsg.type = "WaitingForOneSample"
        /\ UNCHANGED <<samples, expired>> /\ Consume
    BY <1>13 DEF NoteWait, BufferReceives, BufferMsg
  <2>2. UNCHANGED <<Sampled, Serializing, ReadSoFar, ProfileOnItsWay>>
    BY <1>5, <1>7, <2>1 DEF Grown
  <2> QED
    BY <1>2, <2>1, <2>2 DEF ProfileLog!vars
<1>14. CASE BufferExits
  <2>1. UNCHANGED <<bufferChannel.queue, serializationChannel.queue, samples, expired>>
    BY <1>1, <1>14, DropReceiverFields, DropSenderFields DEF BufferExits, Disconnected
  <2> QED
    BY <1>2, <2>1, LogAlone DEF ProfileLog!vars
<1> QED
  BY <1>8, <1>9, <1>10, <1>11, <1>12, <1>13, <1>14 DEF BufferNext

\* The core is not done for while it waits for the channel to take or to give.
LEMMA CoreIsServed ==
  ASSUME PanicInv
  PROVE  /\ CoreAlive => bufferChannel.receiver /\ "buffer" \in serializationChannel.senders
         /\ core = "awaiting" /\ serializationChannel.queue # <<>> =>
              Head(serializationChannel.queue).type = ResponseTo[request]
         /\ core # "awaiting" => serializationChannel.queue = <<>>
<1>1. serializationChannel.queue \in Seq(SerializationMessage)
  BY QueueTypes DEF PanicInv
<1>2. ASSUME core = "awaiting", serializationChannel.queue # <<>>
      PROVE  Head(serializationChannel.queue).type = ResponseTo[request]
  BY <1>1, <1>2 DEF PanicInv, Lockstep, RequestQueued, RequestDeferred, RequestResponded
<1>3. CoreAlive => bufferChannel.receiver /\ "buffer" \in serializationChannel.senders
  BY DEF PanicInv, Endpoints
<1> QED
  BY <1>2, <1>3 DEF PanicInv, Lockstep, NoRequest

\* A request for the samples or for a sample, and whatever else the core does between the
\* calls of serialize, is no step of the log.
LEMMA LogIdle ==
  ASSUME PanicInv, Serializing = "idle", Serializing' = "idle",
         \/ UNCHANGED bufferChannel.queue
         \/ \E m \in BufferMessage : /\ m.type \in Requests
                                     /\ bufferChannel'.queue = Append(bufferChannel.queue, m),
         UNCHANGED <<samples, added, threadInfo, expired, profile, atCall>>
  PROVE  UNCHANGED ProfileLog!vars
<1>1. bufferChannel.queue \in Seq(BufferMessage) /\ samples \in Seq(Threads)
  BY QueueTypes DEF PanicInv, TypeOK, BufferTypeOK
<1>2. UNCHANGED Sampled
  <2>1. CASE UNCHANGED bufferChannel.queue
    BY <2>1 DEF Sampled
  <2>2. ASSUME NEW m \in BufferMessage, m.type \in Requests,
               bufferChannel'.queue = Append(bufferChannel.queue, m)
        PROVE  UNCHANGED Sampled
    <3>1. SampledAfter(samples', bufferChannel'.queue)[Len(bufferChannel.queue) + 1]
            = Grown(SampledAfter(samples, bufferChannel.queue)[Len(bufferChannel.queue)], m)
      BY <1>1, <2>2, SampledSend
    <3>2. Len(bufferChannel'.queue) = Len(bufferChannel.queue) + 1
      BY <1>1, <2>2
    <3> QED
      BY <2>2, <3>1, <3>2 DEF Sampled, Grown, Requests
  <2> QED
    BY <2>1, <2>2
<1>3. UNCHANGED <<ReadSoFar, ProfileOnItsWay>>
  BY DEF ReadSoFar, ProfileOnItsWay
<1> QED
  BY <1>2, <1>3 DEF ProfileLog!vars

\* The core: a call of serialize, the reading of the log when the request is sent, and the
\* return are those of the log.
LEMMA LogCore ==
  ASSUME PanicInv, PanicInv', CompleteInv, InfosNamed, CoreStep, UNCHANGED <<bufferVars, samplerVars>>
  PROVE  [ProfileLog!Next]_(ProfileLog!vars)
<1>1. /\ TypeOK /\ IsChannel(bufferChannel) /\ IsChannel(serializationChannel)
      /\ bufferChannel.queue \in Seq(BufferMessage) /\ samples \in Seq(Threads)
      /\ serializationChannel.queue \in Seq(SerializationMessage)
      /\ infos \in Seq(Threads)
  BY AreChannels, QueueTypes DEF PanicInv, TypeOK, BufferTypeOK, CoreTypeOK
<1>2. UNCHANGED <<samples, added, threadInfo, expired>>
  BY CoreData DEF bufferVars
<1>3. /\ core # "idle" \/ core' # "collecting" => UNCHANGED atCall
      /\ core = "idle" /\ core' = "collecting" => atCall'.threadInfo = threadInfo
  BY DEF CoreStep
<1>4. ASSUME NEW how \in {"dropped", "panicked"}, DropsCore(how), core = "idle", UNCHANGED profile
      PROVE  UNCHANGED ProfileLog!vars
  <2>1. core' = how /\ UNCHANGED bufferChannel.queue
    BY <1>1, <1>4, DropSenderFields DEF DropsCore
  <2>2. Serializing = "idle" /\ Serializing' = "idle"
    BY <1>4, <2>1 DEF Serializing
  <2> QED
    BY <1>2, <1>3, <1>4, <2>1, <2>2, LogIdle
<1>5. ASSUME NEW t \in Threads, GetThreadRegistrar(t) PROVE UNCHANGED ProfileLog!vars
  <2>1. /\ core = "idle" /\ core' = "idle" /\ UNCHANGED profile
        /\ UNCHANGED bufferChannel.queue
    BY <1>1, <1>5, CloneSenderFields DEF GetThreadRegistrar
  <2>2. Serializing = "idle" /\ Serializing' = "idle"
    BY <2>1 DEF Serializing
  <2> QED
    BY <1>2, <1>3, <2>1, <2>2, LogIdle
<1>6. CASE CallStartSampling
  <2>1. core = "idle" /\ UNCHANGED profile
    BY <1>6 DEF CallStartSampling, CanCall
  <2>2. CASE DropsCore("panicked")
    BY <1>4, <2>1, <2>2
  <2>3. CASE UNCHANGED <<bufferChannel, serializationChannel, core>>
    <3>1. Serializing = "idle" /\ Serializing' = "idle"
      BY <2>1, <2>3 DEF Serializing
    <3> QED
      BY <1>2, <1>3, <2>1, <2>3, <3>1, LogIdle
  <2> QED
    BY <1>6, <2>2, <2>3 DEF CallStartSampling
<1>7. ASSUME NEW m \in BufferMessage, m.type \in {"GetSampleCount", "WaitingForOneSample"},
             SendRequest(m), core = "idle", UNCHANGED profile
      PROVE  UNCHANGED ProfileLog!vars
  <2>1. /\ bufferChannel' = Put(bufferChannel, m) /\ core' = "awaiting"
        /\ request' = m.type
    BY <1>7, CoreIsServed DEF CoreAlive, SendRequest
  <2>2. bufferChannel'.queue = Append(bufferChannel.queue, m)
    BY <1>1, <2>1, PutFields
  <2>3. Serializing = "idle" /\ Serializing' = "idle"
    BY <1>7, <2>1 DEF Serializing
  <2>4. m.type \in Requests
    BY <1>7 DEF Requests
  <2> QED
    BY <1>2, <1>3, <1>7, <2>1, <2>2, <2>3, <2>4, LogIdle
<1>8. CASE CallGetSampleCount \/ CallWaitForOneSample
  BY <1>7, <1>8, BufferMessages DEF CallGetSampleCount, CallWaitForOneSample, CanCall
<1>9. CASE CallSerialize
  <2>1. /\ core = "idle" /\ core' = "collecting"
        /\ UNCHANGED <<bufferChannel, serializationChannel, profile>>
    BY <1>9 DEF CallSerialize, CanCall, channelVars
  <2>2. Serializing = "idle" /\ Serializing' = "listing"
    BY <2>1 DEF Serializing
  <2>3. UNCHANGED <<Sampled, ReadSoFar, ProfileOnItsWay>>
    BY <1>2, <2>1, <2>2 DEF Sampled, ReadSoFar, ProfileOnItsWay
  <2>4. ProfileLog!Call
    BY <1>2, <1>3, <2>1, <2>2, <2>3 DEF ProfileLog!Call
  <2> QED
    BY <2>4 DEF ProfileLog!Next
<1>10. CASE CollectThreadInfo
  <2>1. /\ core = "collecting" /\ core' = "collecting"
        /\ UNCHANGED <<bufferChannel, serializationChannel, profile>>
    BY <1>10 DEF CollectThreadInfo, channelVars
  <2>2. Serializing = "listing" /\ Serializing' = "listing"
    BY <2>1 DEF Serializing
  <2>3. UNCHANGED <<Sampled, ReadSoFar, ProfileOnItsWay>>
    BY <1>2, <2>1, <2>2 DEF Sampled, ReadSoFar, ProfileOnItsWay
  <2> QED
    BY <1>2, <1>3, <2>1, <2>2, <2>3 DEF ProfileLog!vars
<1>11. CASE SendSerialize
  <2> DEFINE m == [type |-> "SerializeBuffer", thread_infos |-> infos]
             last == Len(bufferChannel.queue) + 1
  <2>1. /\ core = "collecting" /\ slot > Len(registrars)
        /\ UNCHANGED <<infos, profile>>
        /\ SendRequest(m)
    BY <1>11 DEF SendSerialize
  <2>2. /\ bufferChannel' = Put(bufferChannel, m) /\ core' = "awaiting"
        /\ request' = "SerializeBuffer" /\ UNCHANGED serializationChannel
    BY <2>1, CoreIsServed DEF CoreAlive, SendRequest
  <2>3. m \in BufferMessage /\ m.type = "SerializeBuffer" /\ m.type \in Requests
    BY <1>1, BufferMessages DEF Requests
  <2>4. bufferChannel'.queue = Append(bufferChannel.queue, m)
    BY <1>1, <2>2, PutFields
  <2>5. serializationChannel.queue = <<>>
    BY <2>1, CoreIsServed
  <2>6. Serializing = "listing" /\ Serializing' = "reading"
    BY <2>1, <2>2, <2>5 DEF Serializing
  <2>7. UNCHANGED atCall
    BY <1>3, <2>1
  <2>8. Covers(infos, atCall)
    <3>1. Requested'
      BY <1>2, <2>1, <2>4, <2>7, RequestedSerialize DEF bufferVars
    <3>2. last \in DOMAIN bufferChannel'.queue /\ bufferChannel'.queue[last] = m
      <4> HIDE DEF m
      <4> QED
        BY <1>1, <2>3, <2>4, AppendSeq
    <3> QED
      BY <2>1, <2>3, <2>7, <3>1, <3>2 DEF Requested
  <2>9. /\ ProfileLog!Range(infos) = {infos[i] : i \in DOMAIN infos}
        /\ ProfileLog!IsInjective(infos) <=> \A i, j \in DOMAIN infos : infos[i] = infos[j] => i = j
    BY DEF ProfileLog!Range, ProfileLog!IsInjective
  <2>10. /\ atCall.threadInfo \subseteq ProfileLog!Range(infos)
         /\ ProfileLog!Range(infos) \subseteq threadInfo
         /\ ProfileLog!IsInjective(infos)
    BY <2>1, <2>8, <2>9 DEF Covers, InfosNamed
  <2> HIDE DEF m
  <2>11. /\ OneRequest(bufferChannel'.queue, last)
         /\ MarkersBehind(bufferChannel'.queue, last) = {}
    <3>1. /\ DOMAIN bufferChannel'.queue = 1 .. last
          /\ last \in Nat \ {0}
          /\ bufferChannel'.queue[last] = m
          /\ \A i \in 1 .. last : i # last =>
               /\ i \in DOMAIN bufferChannel.queue
               /\ bufferChannel'.queue[i] = bufferChannel.queue[i]
      BY <1>1, <2>3, <2>4, AppendSeq
    <3>2. NoRequestQueued
      BY <2>1 DEF PanicInv, Lockstep, NoRequest
    <3> HIDE DEF last
    <3>3. OneRequest(bufferChannel'.queue, last)
      BY <2>3, <3>1, <3>2 DEF OneRequest, NoRequestQueued, IsRequest
    <3>4. MarkersBehind(bufferChannel'.queue, last) = {}
      BY <3>1 DEF MarkersBehind
    <3> QED
      BY <3>3, <3>4
  <2>12. /\ SampledAfter(samples', bufferChannel'.queue)[last] = Sampled
         /\ Sampled' = Sampled
    <3>1. SampledAfter(samples', bufferChannel'.queue)[last]
            = Grown(SampledAfter(samples, bufferChannel.queue)[Len(bufferChannel.queue)], m)
      BY <1>1, <1>2, <2>3, <2>4, SampledSend
    <3>2. Len(bufferChannel'.queue) = last
      BY <1>1, <2>3, <2>4
    <3> QED
      BY <2>3, <3>1, <3>2 DEF Sampled, Grown
  <2>13. ReadSoFar' = [listed |-> infos, log |-> ProfileLog!Log, samples |-> Len(Sampled)]
    <3>1. RequestIn(bufferChannel'.queue) = last
      BY <2>11, RequestInIs
    <3>2. AddedMarkers' = AddedMarkers /\ AddedMarkers = ProfileLog!Log
      BY <1>2 DEF AddedMarkers, ProfileLog!Log
    <3> HIDE DEF last
    <3>3. ReadSoFar' = [listed |-> infos', log |-> AddedMarkers' \ MarkersBehind(bufferChannel'.queue, last),
                        samples |-> Len(SampledAfter(samples', bufferChannel'.queue)[last])]
      BY <2>6, <3>1 DEF ReadSoFar
    <3> QED
      BY <2>1, <2>11, <2>12, <3>2, <3>3
  <2>14. ProfileOnItsWay' = ProfileOnItsWay
    BY <2>1, <2>6 DEF ProfileOnItsWay
  <2>15. ProfileLog!Read
    <3>1. ReadSoFar'.listed = infos
      BY <2>13
    <3> QED
      BY <1>2, <2>6, <2>7, <2>10, <2>12, <2>13, <2>14, <3>1 DEF ProfileLog!Read
  <2> QED
    BY <2>15 DEF ProfileLog!Next
<1>12. CASE ReceiveResponse
  <2>1. /\ core = "awaiting" /\ UNCHANGED request
        /\ serializationChannel.queue # <<>>
        /\ core' = "idle"
        /\ profile' = IF request = "SerializeBuffer"
                      THEN Head(serializationChannel.queue).profile
                      ELSE profile
        /\ UNCHANGED bufferChannel
    BY <1>12, CoreIsServed DEF ReceiveResponse, CoreAlive, Disconnected
  <2>2. UNCHANGED atCall
    BY <1>3, <2>1
  <2>3. CASE request = "SerializeBuffer"
    <3>1. Serializing = "returning" /\ Serializing' = "idle"
      BY <2>1, <2>3 DEF Serializing
    <3>2. UNCHANGED <<Sampled, ReadSoFar, ProfileOnItsWay>>
      BY <1>2, <2>1, <2>3, <3>1 DEF Sampled, ReadSoFar, ProfileOnItsWay
    <3>3. ProfileLog!Return
      BY <1>2, <2>2, <3>1, <3>2 DEF ProfileLog!Return
    <3> QED
      BY <3>3 DEF ProfileLog!Next
  <2>4. CASE request # "SerializeBuffer"
    <3>1. Serializing = "idle" /\ Serializing' = "idle"
      BY <2>1, <2>4 DEF Serializing
    <3> QED
      BY <1>2, <2>1, <2>2, <2>4, <3>1, LogIdle
  <2> QED
    BY <2>3, <2>4
<1>13. CASE DropCore
  BY <1>4, <1>13 DEF DropCore
<1> QED
  BY <1>5, <1>6, <1>8, <1>9, <1>10, <1>11, <1>12, <1>13 DEF CoreStep, CoreNext

\* At the start nothing is in the log.
LEMMA LogInit == Init => ProfileLog!Init
<1> SUFFICES ASSUME Init PROVE ProfileLog!Init
    OBVIOUS
<1>1. /\ bufferChannel.queue = <<>> /\ serializationChannel.queue = <<>>
      /\ samples = <<>> /\ expired = {}
      /\ added = [t \in Threads |-> 0] /\ threadInfo = {}
      /\ core = "idle" /\ profile = <<>> /\ atCall.threadInfo = {}
  BY DEF Init, ChannelsInit, Open, BufferInit, RegistrarInit, CoreInit
<1>2. Serializing = "idle"
  BY <1>1 DEF Serializing
<1>3. Sampled = <<>>
  <2>1. /\ <<>> \in Seq(Threads) /\ <<>> \in Seq(BufferMessage)
    OBVIOUS
  <2>2. SampledAfter(<<>>, <<>>)[0] = <<>>
    BY <2>1, SampledParts
  <2>3. Len(<<>>) = 0
    OBVIOUS
  <2> QED
    BY <1>1, <2>2, <2>3 DEF Sampled
<1>4. ReadSoFar = ProfileLog!NothingRead /\ ProfileOnItsWay = <<>>
  BY <1>1, <1>2 DEF ReadSoFar, ProfileLog!NothingRead, ProfileOnItsWay
<1> QED
  BY <1>1, <1>2, <1>3, <1>4 DEF ProfileLog!Init

\* What the log's steps are proved from.
LogInv ==
  /\ PanicInv /\ CompleteInv /\ Named
  /\ MarkersInOrder
  /\ Separate /\ InfosNamed

\* The profiler behaves like one log that add_marker appends to at once and serialize
\* reads at one instant, for any set of threads, any controls and any bounds.
THEOREM ImplementsProfileLogHolds == Spec => ImplementsProfileLog
<1>1. Init => ProfileLog!Init /\ Separate /\ InfosNamed
  <2> SUFFICES ASSUME Init PROVE ProfileLog!Init /\ Separate /\ InfosNamed
      OBVIOUS
  <2>1. Separate /\ InfosNamed
    BY DEF Init, BufferInit, CoreInit, Separate, InfosNamed
  <2> QED
    BY <2>1, LogInit
<1>2. LogInv /\ PanicInv' /\ [Next]_vars => Separate' /\ InfosNamed'
  BY SeparateStep, InfosNamedStep, OrderIsInOrder DEF LogInv, CompleteInv
<1>3. LogInv /\ PanicInv' /\ [Next]_vars => [ProfileLog!Next]_(ProfileLog!vars)
  <2> SUFFICES ASSUME LogInv, PanicInv', [Next]_vars
               PROVE  [ProfileLog!Next]_(ProfileLog!vars)
      OBVIOUS
  <2>1. CASE UNCHANGED vars
    BY <2>1, LogAlone DEF vars, channelVars, bufferVars, registrarVars, coreVars, ProfileLog!vars
  <2>2. CASE BufferNext /\ UNCHANGED <<samplerVars, registrarVars, coreVars, atCall>>
    BY <2>2, LogBuffer, OrderIsInOrder DEF LogInv
  <2>3. CASE SamplerStep /\ UNCHANGED <<bufferVars, registrarVars, coreVars, atCall>>
    BY <2>3, LogSampler DEF LogInv
  <2>4. CASE (\E t \in Threads : ThreadStep(t)) /\ UNCHANGED <<bufferVars, samplerVars, coreVars, atCall>>
    BY <2>4, LogThread DEF LogInv
  <2>5. CASE CoreStep /\ UNCHANGED <<bufferVars, samplerVars>>
    BY <2>5, LogCore DEF LogInv
  <2> QED
    BY <2>1, <2>2, <2>3, <2>4, <2>5 DEF Next
<1> QED
  BY <1>1, <1>2, <1>3, PanicInvariant, CompleteInvHolds, NamedHolds, MarkersInOrderHolds, PTL
     DEF Spec, LogInv, ImplementsProfileLog, ProfileLog!Spec
=============================================================================
