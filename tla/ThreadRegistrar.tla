--------------------------- MODULE ThreadRegistrar ---------------------------
(***************************************************************************)
(* The application threads and their ThreadRegistrar (src/core.rs): each   *)
(* thread takes one registrar, calls register once, adds markers through   *)
(* its thread local PER_THREAD_INSTRUMENTATION, and drops the registrar.   *)
(*                                                                         *)
(* The steps of a thread and where it stands between them:                 *)
(*   "absent"        get_thread_registrar was not called for it            *)
(*   "holding"       it owns a fresh registrar                             *)
(*   "published"     register has set the Option<ThreadInfo>               *)
(*   "instrumented"  register has returned                                 *)
(*   "finished"      the registrar was dropped                             *)
(*   "panicked"      an expect failed, and the thread unwound              *)
(* A second register call, or a drop without one, is for module Registrar. *)
(*                                                                         *)
(* The two senders of a registrar are pub fields.  Until register takes    *)
(* them, the application may send any message through them; Controls is    *)
(* the set of those nothing in src/ sends.                                 *)
(***************************************************************************)
EXTENDS Channels

CONSTANTS
  Controls,      \* the control messages the application sends
  MaxControls,   \* bound: how many of them
  MaxMarkers     \* bound: markers per thread

SamplerControls == {"PauseSampling", "StopSampling"}

ASSUME ControlsAreMessages == Controls \subseteq SamplerControls \cup {"ClearExpiredMarkers"}
ASSUME RegistrarBounds == MaxControls \in Nat /\ MaxMarkers \in Nat

VARIABLES
  thread,       \* thread[t]: where thread t stands
  threadInfo,   \* the threads whose Arc<Mutex<Option<ThreadInfo>>> is Some
  added,        \* added[t]: how many markers t has sent
  controls,     \* how many control messages were sent
  aborted       \* a panic inside a panic: the process is gone

registrarVars == <<thread, threadInfo, added, controls, aborted>>

RegistrarTypeOK ==
  /\ thread \in [Threads -> {"absent", "holding", "published", "instrumented",
                             "finished", "panicked"}]
  /\ threadInfo \subseteq Threads
  /\ added \in [Threads -> Nat]
  /\ controls \in Nat
  /\ aborted \in BOOLEAN

RegistrarInit ==
  /\ thread = [t \in Threads |-> "absent"]
  /\ threadInfo = {}
  /\ added = [t \in Threads |-> 0]
  /\ controls = 0
  /\ aborted = FALSE

-----------------------------------------------------------------------------

Becomes(t, stand) == thread' = [thread EXCEPT ![t] = stand]

\* The two Sender clones of t go, with the registrar or with its thread local.
DropSendersOf(t, toSampler) ==
  /\ samplerChannel' = DropSender(toSampler, t)
  /\ bufferChannel' = DropSender(bufferChannel, t)
  /\ UNCHANGED serializationChannel

UnregisterMsg(t) == [type |-> "UnregisterSampler", tid |-> t]

-----------------------------------------------------------------------------
(* Faulty variants of the operations below.                                *)

SendRegisterSamplerUnpublished(t) ==
  /\ thread[t] \in {"holding", "published"}
  /\ samplerChannel.receiver
  /\ samplerChannel' = Put(samplerChannel, [type |-> "RegisterSampler", tid |-> t])
  /\ Becomes(t, "instrumented")
  /\ UNCHANGED <<bufferChannel, serializationChannel, threadInfo, added, controls, aborted>>

UnregisterKeepingSenders(t) ==
  /\ thread[t] = "instrumented"
  /\ samplerChannel.receiver
  /\ samplerChannel' = Put(samplerChannel, UnregisterMsg(t))
  /\ Becomes(t, "finished")
  /\ UNCHANGED <<bufferChannel, serializationChannel, threadInfo, added, controls, aborted>>

-----------------------------------------------------------------------------

\* register, up to the end of the block that holds the lock.
PublishThreadInfo(t) ==
  /\ thread[t] = "holding"
  /\ threadInfo' = threadInfo \cup {t}
  /\ Becomes(t, "published")
  /\ UNCHANGED <<channelVars, added, controls, aborted>>

\* register, from there on.  The expect unwinds through the registrar's drop,
\* which finds no PER_THREAD_INSTRUMENTATION and panics again.
SendRegisterSampler(t) ==
  /\ thread[t] = "published"
  /\ IF samplerChannel.receiver
     THEN /\ samplerChannel' =
               Put(samplerChannel, [type |-> "RegisterSampler", tid |-> t])
          /\ Becomes(t, "instrumented")
          /\ UNCHANGED <<bufferChannel, serializationChannel, aborted>>
     ELSE /\ aborted' = TRUE
          /\ UNCHANGED <<channelVars, thread>>
  /\ UNCHANGED <<threadInfo, added, controls>>

\* add_marker on an instrumented thread; on any other thread it does nothing.
\* Unwinding from its expect drops the registrar, which unregisters the thread.
AddMarker(t) ==
  /\ thread[t] = "instrumented"
  /\ added[t] < MaxMarkers
  /\ IF bufferChannel.receiver
     THEN /\ bufferChannel' =
               Put(bufferChannel,
                   [type |-> "AddMarker", tid |-> t, marker |-> added[t] + 1])
          /\ added' = [added EXCEPT ![t] = @ + 1]
          /\ UNCHANGED <<samplerChannel, serializationChannel, thread, aborted>>
     ELSE /\ IF samplerChannel.receiver
             THEN /\ DropSendersOf(t, Put(samplerChannel, UnregisterMsg(t)))
                  /\ Becomes(t, "panicked")
                  /\ UNCHANGED aborted
             ELSE /\ aborted' = TRUE
                  /\ UNCHANGED <<channelVars, thread>>
          /\ UNCHANGED added
  /\ UNCHANGED <<threadInfo, controls>>

\* drop: unregister_thread, then PER_THREAD_INSTRUMENTATION becomes None.
\* If the send fails the thread local goes when the thread has unwound.
Unregister(t) ==
  /\ thread[t] = "instrumented"
  /\ IF samplerChannel.receiver
     THEN /\ DropSendersOf(t, Put(samplerChannel, UnregisterMsg(t)))
          /\ Becomes(t, "finished")
     ELSE /\ DropSendersOf(t, samplerChannel)
          /\ Becomes(t, "panicked")
  /\ UNCHANGED <<threadInfo, added, controls, aborted>>

\* The application uses sampler_thread_sender; a failed send is its own affair.
ControlSampler(t, c) ==
  /\ thread[t] = "holding"
  /\ c \in Controls \cap SamplerControls
  /\ controls < MaxControls
  /\ samplerChannel.receiver
  /\ samplerChannel' = Put(samplerChannel, [type |-> c])
  /\ controls' = controls + 1
  /\ UNCHANGED <<bufferChannel, serializationChannel, thread, threadInfo, added, aborted>>

\* The application uses buffer_thread_sender.
ControlBuffer(t) ==
  /\ thread[t] = "holding"
  /\ "ClearExpiredMarkers" \in Controls
  /\ controls < MaxControls
  /\ bufferChannel.receiver
  /\ bufferChannel' = Put(bufferChannel, [type |-> "ClearExpiredMarkers"])
  /\ controls' = controls + 1
  /\ UNCHANGED <<samplerChannel, serializationChannel, thread, threadInfo, added, aborted>>
=============================================================================
