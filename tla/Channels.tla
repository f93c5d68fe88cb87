------------------------------ MODULE Channels ------------------------------
(***************************************************************************)
(* The three std::sync::mpsc channels that MainThreadCore::new creates.    *)
(* They are the only state the profiler's threads share, apart from the    *)
(* Arc<Mutex<Option<ThreadInfo>>> slots of module ThreadRegistrar.         *)
(*                                                                         *)
(* An mpsc channel is an unbounded FIFO queue with many senders and one    *)
(* receiver.  Its senders are counted: here a channel holds the set of the *)
(* parties that own a Sender clone, which are "core" (MainThreadCore),     *)
(* "sampler" (SamplerThread::to_buffer_thread), "buffer"                   *)
(* (BufferThread::serialization_sender) and every application thread that  *)
(* holds a ThreadRegistrar or its PerThreadInstrumentation.                *)
(***************************************************************************)
EXTENDS Naturals, Sequences

CONSTANT Threads   \* the application threads, one ThreadRegistrar each

ASSUME ThreadsAreNotOwners ==
  /\ "core" \notin Threads
  /\ "sampler" \notin Threads
  /\ "buffer" \notin Threads

VARIABLES
  bufferChannel,         \* to the buffer thread
  samplerChannel,        \* to the sampler thread
  serializationChannel   \* from the buffer thread back to the core

channelVars == <<bufferChannel, samplerChannel, serializationChannel>>

-----------------------------------------------------------------------------
(* Operations of an mpsc channel, each giving the channel's next value.    *)

Open(owners) == [queue |-> <<>>, senders |-> owners, receiver |-> TRUE]

Put(ch, msg) == [ch EXCEPT !.queue = Append(@, msg)]

Take(ch) == [ch EXCEPT !.queue = Tail(@)]

CloneSender(ch, owner) == [ch EXCEPT !.senders = @ \cup {owner}]

DropSender(ch, owner) == [ch EXCEPT !.senders = @ \ {owner}]

\* Dropping the receiver frees what is queued; every later send is an Err.
DropReceiver(ch) == [ch EXCEPT !.queue = <<>>, !.receiver = FALSE]

\* recv and try_recv report a disconnection only once the queue is drained.
Disconnected(ch) == ch.queue = <<>> /\ ch.senders = {}

-----------------------------------------------------------------------------
(* The message types.  A thread stands for its Mach thread id, a marker    *)
(* for its number in the order its thread added it.                        *)

BufferMessage ==
  [type : {"AddMarker"}, tid : Threads, marker : Nat]
    \cup [type : {"AddSample"}, tid : Threads]
    \cup [type : {"SerializeBuffer"}, thread_infos : Seq(Threads)]
    \cup [type : {"ClearExpiredMarkers", "GetSampleCount", "WaitingForOneSample"}]

SamplerMessage ==
  [type : {"RegisterSampler", "UnregisterSampler"}, tid : Threads]
    \cup [type : {"PauseSampling", "StartSampling", "StopSampling"}]

ThreadProfile == [tid : Threads, markers : SUBSET Nat, samples : SUBSET Nat]

SerializationMessage ==
  [type : {"Serialize"}, profile : Seq(ThreadProfile)]
    \cup [type : {"SampleCount"}, count : Nat]
    \cup [type : {"OneSampleReceived"}]

Channel(Message, Owner) ==
  [queue : Seq(Message), senders : SUBSET Owner, receiver : BOOLEAN]

BufferChannel == Channel(BufferMessage, Threads \cup {"core", "sampler"})
SamplerChannel == Channel(SamplerMessage, Threads \cup {"core"})
SerializationChannel == Channel(SerializationMessage, {"buffer"})

ChannelsTypeOK ==
  /\ bufferChannel \in BufferChannel
  /\ samplerChannel \in SamplerChannel
  /\ serializationChannel \in SerializationChannel

ChannelsInit ==
  /\ bufferChannel = Open({"core", "sampler"})
  /\ samplerChannel = Open({"core"})
  /\ serializationChannel = Open({"buffer"})
=============================================================================
