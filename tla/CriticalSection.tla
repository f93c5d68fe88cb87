--------------------------- MODULE CriticalSection ---------------------------
(***************************************************************************)
(* MacOsSampler::suspend_and_sample_thread (src/sampler_mac.rs): the       *)
(* sampler thread of each core swaps the panic hook, suspends a thread,    *)
(* reads its stack (module StackWalk), resumes it and puts the hook back.  *)
(* The hook and the lock of stderr are the process's: every core and every *)
(* thread of the application share them.                                   *)
(*                                                                         *)
(* A kernel call either succeeds or fails, and a thread that has ended     *)
(* cannot be suspended.  take_hook, set_hook and process::abort are atomic *)
(* here, as std's lock around the hook makes them.                         *)
(***************************************************************************)
CONSTANTS
  Cores,      \* the MainThreadCores of the process, each with a sampler thread
  Threads,    \* the application's threads
  None

ASSUME NoneIsApart == None \notin Threads \cup {"app", "default", "abort"}

VARIABLES
  hook,           \* the panic hook: "app", std's "default", or the one that aborts
  stderr,         \* the thread that holds the lock of stderr, or None
  ended,          \* the application's threads that have ended
  pc,             \* pc[c]: where c's sampler thread is
  current_hook,   \* current_hook[c]: what take_hook returned
  target,         \* target[c]: the thread that c samples
  suspended,      \* suspended[t]: the cores that have suspended t, the kernel's count
  aborted,        \* the process is gone
  overlapped      \* history: two cores were between take_hook and set_hook at once

vars == <<hook, stderr, ended, pc, current_hook, target, suspended, aborted, overlapped>>

Hooks == {"app", "default", "abort"}

TypeOK ==
  /\ hook \in Hooks
  /\ stderr \in Threads \cup {None}
  /\ ended \subseteq Threads
  /\ pc \in [Cores -> {"idle", "took_hook", "set_hook", "suspended", "walked",
                       "resume_failed", "resumed"}]
  /\ current_hook \in [Cores -> Hooks \cup {None}]
  /\ target \in [Cores -> Threads \cup {None}]
  /\ suspended \in [Threads -> SUBSET Cores]
  /\ aborted \in BOOLEAN
  /\ overlapped \in BOOLEAN
  /\ \A c \in Cores :
       /\ pc[c] = "idle" <=> current_hook[c] = None
       /\ pc[c] = "idle" <=> target[c] = None
       /\ \A t \in Threads :
            c \in suspended[t]
              <=> target[c] = t /\ pc[c] \in {"suspended", "walked", "resume_failed"}

Init ==
  /\ hook = "app"
  /\ stderr = None
  /\ ended = {}
  /\ pc = [c \in Cores |-> "idle"]
  /\ current_hook = [c \in Cores |-> None]
  /\ target = [c \in Cores |-> None]
  /\ suspended = [t \in Threads |-> {}]
  /\ aborted = FALSE
  /\ overlapped = FALSE

-----------------------------------------------------------------------------
(* The application's threads.                                              *)

Runs(t) == t \notin ended /\ suspended[t] = {}

\* Any print to stderr.
LockStderr(t) ==
  /\ Runs(t)
  /\ stderr = None
  /\ stderr' = t
  /\ UNCHANGED <<hook, ended, pc, current_hook, target, suspended, aborted, overlapped>>

UnlockStderr(t) ==
  /\ Runs(t)
  /\ stderr = t
  /\ stderr' = None
  /\ UNCHANGED <<hook, ended, pc, current_hook, target, suspended, aborted, overlapped>>

\* A panic that the application catches: nothing happens, unless the hook aborts.
CaughtPanic(t) ==
  /\ Runs(t)
  /\ hook = "abort"
  /\ aborted' = TRUE
  /\ UNCHANGED <<hook, stderr, ended, pc, current_hook, target, suspended, overlapped>>

ThreadEnds(t) ==
  /\ Runs(t)
  /\ stderr # t
  /\ ended' = ended \cup {t}
  /\ UNCHANGED <<hook, stderr, pc, current_hook, target, suspended, aborted, overlapped>>

-----------------------------------------------------------------------------
(* A sampler thread.                                                       *)

Goto(c, label) == pc' = [pc EXCEPT ![c] = label]

Others(c) == {d \in Cores \ {c} : pc[d] # "idle"}

\* A faulty variant: the hook that was there is dropped.
TakeHookAndForget(c, t) ==
  /\ pc[c] = "idle"
  /\ hook' = "default"
  /\ target' = [target EXCEPT ![c] = t]
  /\ Goto(c, "took_hook")
  /\ overlapped' = (overlapped \/ Others(c) # {})
  /\ UNCHANGED <<stderr, ended, current_hook, suspended, aborted>>

TakeHook(c, t) ==
  /\ pc[c] = "idle"
  /\ current_hook' = [current_hook EXCEPT ![c] = hook]
  /\ hook' = "default"
  /\ target' = [target EXCEPT ![c] = t]
  /\ Goto(c, "took_hook")
  /\ overlapped' = (overlapped \/ Others(c) # {})
  /\ UNCHANGED <<stderr, ended, suspended, aborted>>

SetAbortHook(c) ==
  /\ pc[c] = "took_hook"
  /\ hook' = "abort"
  /\ Goto(c, "set_hook")
  /\ UNCHANGED <<stderr, ended, current_hook, target, suspended, aborted, overlapped>>

SuspendThread(c) ==
  /\ pc[c] = "set_hook"
  /\ target[c] \notin ended
  /\ suspended' = [suspended EXCEPT ![target[c]] = @ \cup {c}]
  /\ Goto(c, "suspended")
  /\ UNCHANGED <<hook, stderr, ended, current_hook, target, aborted, overlapped>>

\* set_hook(current_hook), and the call returns.
RestoreHook(c) ==
  /\ hook' = current_hook[c]
  /\ current_hook' = [current_hook EXCEPT ![c] = None]
  /\ target' = [target EXCEPT ![c] = None]
  /\ Goto(c, "idle")

\* A faulty variant: the early return forgets the hook.
ReturnCouldNotSuspend(c) ==
  /\ pc[c] = "set_hook"
  /\ current_hook' = [current_hook EXCEPT ![c] = None]
  /\ target' = [target EXCEPT ![c] = None]
  /\ Goto(c, "idle")
  /\ UNCHANGED <<hook, stderr, ended, suspended, aborted, overlapped>>

CouldNotSuspendThread(c) ==
  /\ pc[c] = "set_hook"
  /\ RestoreHook(c)
  /\ UNCHANGED <<stderr, ended, suspended, aborted, overlapped>>

\* A faulty variant: an error is returned before the thread is resumed.
GetRegistersOrReturn(c) ==
  /\ pc[c] = "suspended"
  /\ \/ Goto(c, "walked") /\ UNCHANGED <<hook, current_hook, target>>
     \/ RestoreHook(c)
  /\ UNCHANGED <<stderr, ended, suspended, aborted, overlapped>>

\* get_registers, and the walk if there are any: either way the thread is resumed next.
GetRegisters(c) ==
  /\ pc[c] = "suspended"
  /\ Goto(c, "walked")
  /\ UNCHANGED <<hook, stderr, ended, current_hook, target, suspended, aborted, overlapped>>

ResumeThread(c) ==
  /\ pc[c] = "walked"
  /\ suspended' = [suspended EXCEPT ![target[c]] = @ \ {c}]
  /\ Goto(c, "resumed")
  /\ UNCHANGED <<hook, stderr, ended, current_hook, target, aborted, overlapped>>

CouldNotResumeThread(c) ==
  /\ pc[c] = "walked"
  /\ Goto(c, "resume_failed")
  /\ UNCHANGED <<hook, stderr, ended, current_hook, target, suspended, aborted, overlapped>>

\* eprintln waits for the lock of stderr; only then comes process::abort.
ReportAndAbort(c) ==
  /\ pc[c] = "resume_failed"
  /\ stderr = None
  /\ aborted' = TRUE
  /\ UNCHANGED <<hook, stderr, ended, pc, current_hook, target, suspended, overlapped>>

LeaveSection(c) ==
  /\ pc[c] = "resumed"
  /\ RestoreHook(c)
  /\ UNCHANGED <<stderr, ended, suspended, aborted, overlapped>>

ThreadStep(t) == LockStderr(t) \/ UnlockStderr(t) \/ CaughtPanic(t) \/ ThreadEnds(t)

InSection(c) ==
  \/ SetAbortHook(c)
  \/ SuspendThread(c)
  \/ CouldNotSuspendThread(c)
  \/ GetRegisters(c)
  \/ ResumeThread(c)
  \/ CouldNotResumeThread(c)
  \/ ReportAndAbort(c)
  \/ LeaveSection(c)

Next ==
  /\ ~aborted
  /\ \/ \E t \in Threads : ThreadStep(t)
     \/ \E c \in Cores, t \in Threads : TakeHook(c, t)
     \/ \E c \in Cores : InSection(c)

\* A sampler thread is scheduled.  Between two samples of it a thread of the
\* application runs, and lets go of stderr some time; and the lock, if it is free
\* again and again, is not kept from a sampler thread for ever.
Fairness ==
  /\ \A c \in Cores : /\ WF_vars(~aborted /\ InSection(c))
                      /\ SF_vars(~aborted /\ ReportAndAbort(c))
  /\ \A t \in Threads : SF_vars(~aborted /\ UnlockStderr(t))

Spec == Init /\ [][Next]_vars /\ Fairness

-----------------------------------------------------------------------------

Inside(c) == pc[c] # "idle"

\* As long as the sections of two cores have not overlapped, the application has its
\* own panic hook whenever no thread is being sampled, on every path out of the
\* section, and the section that is under way is the one that keeps it.
HookRestored ==
  ~overlapped =>
    /\ \A c, d \in Cores : Inside(c) /\ Inside(d) => c = d
    /\ IF \E c \in Cores : Inside(c)
       THEN \A c \in Cores : Inside(c) => current_hook[c] = "app"
       ELSE hook = "app"

\* The same for any number of cores: "Restore panic now that we are done with the
\* unsafe block" (src/sampler_mac.rs, suspend_and_sample_thread).
HookAlwaysRestored == (\A c \in Cores : ~Inside(c)) => hook = "app"

\* "If we can't, it's bad enough that we should abort the process": not while the
\* thread that cannot be resumed holds stderr.
StuckOnStderr == \E c \in Cores : pc[c] = "resume_failed" /\ stderr = target[c]

\* A thread that a core has suspended is resumed by it, or the process ends, whether
\* its registers can be read or not; the one exception is the lock of stderr.
SuspensionEnds ==
  \A c \in Cores, t \in Threads :
    c \in suspended[t] ~> c \notin suspended[t] \/ aborted \/ StuckOnStderr
=============================================================================
