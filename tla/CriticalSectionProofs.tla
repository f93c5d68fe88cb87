------------------------ MODULE CriticalSectionProofs ------------------------
(***************************************************************************)
(* Theorems about CriticalSection, for any number of cores and threads.    *)
(***************************************************************************)
EXTENDS CriticalSection, TLAPS

\* Each step keeps the types and the bookkeeping of who has suspended whom
\* (suspend_and_sample_thread, one step per action).
LEMMA TypeStep == TypeOK /\ [Next]_vars => TypeOK'
<1> SUFFICES ASSUME TypeOK, [Next]_vars PROVE TypeOK'
  OBVIOUS
<1> USE NoneIsApart DEF TypeOK, Hooks
<1>1. ASSUME NEW t \in Threads, LockStderr(t) PROVE TypeOK'
  BY <1>1 DEF LockStderr
<1>2. ASSUME NEW t \in Threads, UnlockStderr(t) PROVE TypeOK'
  BY <1>2 DEF UnlockStderr
<1>3. ASSUME NEW t \in Threads, CaughtPanic(t) PROVE TypeOK'
  BY <1>3 DEF CaughtPanic
<1>4. ASSUME NEW t \in Threads, ThreadEnds(t) PROVE TypeOK'
  BY <1>4 DEF ThreadEnds
<1>5. ASSUME NEW c \in Cores, NEW t \in Threads, TakeHook(c, t) PROVE TypeOK'
  <2>1. /\ current_hook' \in [Cores -> Hooks \cup {None}]
        /\ target' \in [Cores -> Threads \cup {None}]
        /\ hook' \in Hooks /\ overlapped' \in BOOLEAN
        /\ pc' \in [Cores -> {"idle", "took_hook", "set_hook", "suspended", "walked",
                              "resume_failed", "resumed"}]
    BY <1>5, Zenon DEF TakeHook, Goto
  <2>2. /\ pc' = [pc EXCEPT ![c] = "took_hook"]
        /\ current_hook' = [current_hook EXCEPT ![c] = hook]
        /\ target' = [target EXCEPT ![c] = t]
        /\ pc[c] = "idle"
        /\ UNCHANGED <<stderr, ended, suspended, aborted>>
    BY <1>5 DEF TakeHook, Goto
  <2>3. ASSUME NEW d \in Cores
        PROVE  /\ pc'[d] = "idle" <=> current_hook'[d] = None
               /\ pc'[d] = "idle" <=> target'[d] = None
               /\ \A u \in Threads :
                    d \in suspended'[u]
                      <=> /\ target'[d] = u
                          /\ pc'[d] \in {"suspended", "walked", "resume_failed"}
    <3>1. CASE d = c
      BY <2>2, <3>1
    <3>2. CASE d # c
      BY <2>2, <3>2
    <3> QED
      BY <3>1, <3>2
  <2> QED
    BY <2>1, <2>2, <2>3
<1>6. ASSUME NEW c \in Cores, SetAbortHook(c) PROVE TypeOK'
  BY <1>6 DEF SetAbortHook, Goto
<1>7. ASSUME NEW c \in Cores, SuspendThread(c) PROVE TypeOK'
  BY <1>7 DEF SuspendThread, Goto
<1>8. ASSUME NEW c \in Cores, CouldNotSuspendThread(c) PROVE TypeOK'
  BY <1>8 DEF CouldNotSuspendThread, RestoreHook, Goto
<1>9. ASSUME NEW c \in Cores, GetRegisters(c) PROVE TypeOK'
  BY <1>9 DEF GetRegisters, Goto
<1>10. ASSUME NEW c \in Cores, ResumeThread(c) PROVE TypeOK'
  BY <1>10 DEF ResumeThread, Goto
<1>11. ASSUME NEW c \in Cores, CouldNotResumeThread(c) PROVE TypeOK'
  BY <1>11 DEF CouldNotResumeThread, Goto
<1>12. ASSUME NEW c \in Cores, ReportAndAbort(c) PROVE TypeOK'
  BY <1>12 DEF ReportAndAbort
<1>13. ASSUME NEW c \in Cores, LeaveSection(c) PROVE TypeOK'
  BY <1>13 DEF LeaveSection, RestoreHook, Goto
<1>14. CASE UNCHANGED vars
  BY <1>14 DEF vars
<1> QED
  BY <1>1, <1>2, <1>3, <1>4, <1>5, <1>6, <1>7, <1>8, <1>9, <1>10, <1>11, <1>12, <1>13, <1>14
  DEF Next, ThreadStep, InSection

\* The type invariant: in particular a thread is suspended by exactly the cores
\* that are between thread_suspend and thread_resume of it.
THEOREM TypeCorrect == Spec => []TypeOK
<1>1. Init => TypeOK
  BY NoneIsApart DEF Init, TypeOK, Hooks
<1> QED
  BY <1>1, TypeStep, PTL DEF Spec

-----------------------------------------------------------------------------

\* HookRestored is inductive on top of TypeOK: a core enters a section only when
\* no other is inside, or else the sections overlap.
LEMMA HookStep == TypeOK /\ HookRestored /\ [Next]_vars => HookRestored'
<1> SUFFICES ASSUME TypeOK, HookRestored, [Next]_vars PROVE HookRestored'
  OBVIOUS
<1> USE DEF HookRestored, Inside
<1>1. ASSUME NEW t \in Threads, ThreadStep(t) PROVE HookRestored'
  BY <1>1 DEF ThreadStep, LockStderr, UnlockStderr, CaughtPanic, ThreadEnds
<1>2. ASSUME NEW c \in Cores, NEW t \in Threads, TakeHook(c, t) PROVE HookRestored'
  BY <1>2 DEF TakeHook, Goto, Others, TypeOK
<1>3. ASSUME NEW c \in Cores, SetAbortHook(c) PROVE HookRestored'
  BY <1>3 DEF SetAbortHook, Goto, TypeOK
<1>4. ASSUME NEW c \in Cores, SuspendThread(c) PROVE HookRestored'
  BY <1>4 DEF SuspendThread, Goto, TypeOK
<1>5. ASSUME NEW c \in Cores, CouldNotSuspendThread(c) \/ LeaveSection(c)
      PROVE HookRestored'
  BY <1>5 DEF CouldNotSuspendThread, LeaveSection, RestoreHook, Goto, TypeOK
<1>6. ASSUME NEW c \in Cores, GetRegisters(c) PROVE HookRestored'
  BY <1>6 DEF GetRegisters, Goto, TypeOK
<1>7. ASSUME NEW c \in Cores, ResumeThread(c) PROVE HookRestored'
  BY <1>7 DEF ResumeThread, Goto, TypeOK
<1>8. ASSUME NEW c \in Cores, CouldNotResumeThread(c) PROVE HookRestored'
  BY <1>8 DEF CouldNotResumeThread, Goto, TypeOK
<1>9. ASSUME NEW c \in Cores, ReportAndAbort(c) PROVE HookRestored'
  BY <1>9 DEF ReportAndAbort
<1>10. CASE UNCHANGED vars
  BY <1>10 DEF vars
<1> QED
  BY <1>1, <1>2, <1>3, <1>4, <1>5, <1>6, <1>7, <1>8, <1>9, <1>10 DEF Next, InSection

\* As long as no two sections overlap, the application has its own panic hook
\* whenever no thread is being sampled, whichever kernel call failed.
THEOREM HookRestoredHolds == Spec => []HookRestored
<1>1. Init => HookRestored
  BY DEF Init, HookRestored, Inside
<1> QED
  BY <1>1, HookStep, TypeCorrect, PTL DEF Spec
=============================================================================
