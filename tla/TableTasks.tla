----------------------------- MODULE TableTasks -----------------------------
(***************************************************************************)
(* The pending-task bookkeeping of a TableInfo (catalog_entity_info.cc):  *)
(* pending_tasks_ and closing_ under the table's lock_, and the threads    *)
(* that register tasks (AddTask), abort them (AbortTasks, and              *)
(* AbortTasksAndClose followed by WaitTasksCompletion) and complete them. *)
(*                                                                         *)
(* Aborting a task (MonitoredTask::AbortAndReturnPrevState, outside this *)
(* repository, modelled from spec.md) moves a non-terminal task to        *)
(* aborted and then unregisters it, which calls TableInfo::RemoveTask and *)
(* so takes lock_ again on the aborting thread. The lock is not          *)
(* reentrant: the table code must release it before aborting.             *)
(***************************************************************************)
EXTENDS Integers, Sequences, FiniteSets, TLC

CONSTANTS
    Adders,     \* threads calling AddTask; adder a registers task a
    Closers,    \* threads calling AbortTasksAndCloseIfRequested
    Close,      \* Close[c]: the close argument of closer c
    NoThread

ASSUME Close \in [Closers -> BOOLEAN] /\ Adders \cap Closers = {}

Tasks == Adders
Threads == Adders \cup Closers

(* MonitoredTaskState, abstracted. *)
TaskStates == {"waiting", "running", "complete", "aborted"}
Terminal == {"complete", "aborted"}

VARIABLES
    lock,       \* holder of lock_ in exclusive mode, or NoThread
    closing,    \* TableInfo::closing_
    pending,    \* TableInfo::pending_tasks_
    tstate,     \* task -> its MonitoredTaskState
    pc,         \* thread -> program counter
    snapshot,   \* closer -> abort_tasks, its copy of pending_tasks_
    cur,        \* closer -> the task it is aborting
    epc,        \* task -> program counter of its completion callback
    wait        \* closer -> wait_time_ms of its WaitTasksCompletion loop

vars == <<lock, closing, pending, tstate, pc, snapshot, cur, epc, wait>>

Free == lock = NoThread

(* TableInfo::RemoveTask as one critical section of thread th.            *)
RemoveTask(th, t) ==
    /\ Free
    /\ pending' = pending \ {t}
    /\ UNCHANGED lock

(* AbortAndReturnPrevState: a non-terminal task becomes aborted.           *)
AbortTask(t) ==
    tstate' = [tstate EXCEPT ![t] = IF @ \in Terminal THEN @ ELSE "aborted"]

-----------------------------------------------------------------------------
(* TableInfo::AddTask, adder a registering task a.                         *)

(* Mutant: closing_ is not consulted.                                     *)
AddTaskCriticalIgnoresClosing(a) ==
    /\ pc[a] = "lock" /\ Free
    /\ lock' = a
    /\ pending' = pending \cup {a}
    /\ pc' = [pc EXCEPT ![a] = "unlock_run"]
    /\ UNCHANGED <<closing, tstate, snapshot, cur, epc, wait>>

(* Under lock_: register the task unless the table is closing, in which  *)
(* case remember to abort it.                                             *)
AddTaskCritical(a) ==
    /\ pc[a] = "lock" /\ Free
    /\ lock' = a
    /\ IF ~closing
       THEN pending' = pending \cup {a} /\ pc' = [pc EXCEPT ![a] = "unlock_run"]
       ELSE UNCHANGED pending /\ pc' = [pc EXCEPT ![a] = "unlock_abort"]
    /\ UNCHANGED <<closing, tstate, snapshot, cur, epc, wait>>

(* End of the lock_guard's scope.                                         *)
AddTaskUnlock(a) ==
    /\ pc[a] \in {"unlock_run", "unlock_abort"}
    /\ lock' = NoThread
    /\ pc' = [pc EXCEPT ![a] = IF @ = "unlock_run" THEN "run" ELSE "abort"]
    /\ UNCHANGED <<closing, pending, tstate, snapshot, cur, epc, wait>>

(* task->AbortAndReturnPrevState(Expired) after the lock is released.      *)
AddTaskAbort(a) ==
    /\ pc[a] = "abort"
    /\ AbortTask(a)
    /\ pc' = [pc EXCEPT ![a] = "unreg"]
    /\ UNCHANGED <<lock, closing, pending, snapshot, cur, epc, wait>>

(* The aborted task unregisters itself (RemoveTask).                       *)
AddTaskUnregister(a) ==
    /\ pc[a] = "unreg"
    /\ RemoveTask(a, a)
    /\ pc' = [pc EXCEPT ![a] = "done"]
    /\ UNCHANGED <<closing, tstate, snapshot, cur, epc, wait>>

(* The caller runs the registered task; an already aborted task stays so. *)
RunTask(a) ==
    /\ pc[a] = "run"
    /\ tstate' = [tstate EXCEPT ![a] = IF @ = "waiting" THEN "running" ELSE @]
    /\ pc' = [pc EXCEPT ![a] = "done"]
    /\ UNCHANGED <<lock, closing, pending, snapshot, cur, epc, wait>>

-----------------------------------------------------------------------------
(* TableInfo::AbortTasksAndCloseIfRequested(Close[c]), then, when closing, *)
(* WaitTasksCompletion.                                                    *)

(* Mutant: the snapshot is aborted while lock_ is still held.             *)
AbortTasksCriticalAbortInside(c) ==
    /\ pc[c] = "lock" /\ Free
    /\ closing' = (closing \/ Close[c])
    /\ snapshot' = [snapshot EXCEPT ![c] = pending]
    /\ lock' = IF pending = {} THEN NoThread ELSE c
    /\ pc' = [pc EXCEPT ![c] = IF pending = {} THEN "wait" ELSE "abort"]
    /\ UNCHANGED <<pending, tstate, cur, epc, wait>>

(* Under lock_: set closing_ if asked, copy pending_tasks_.                *)
AbortTasksCritical(c) ==
    /\ pc[c] = "lock" /\ Free
    /\ lock' = c
    /\ closing' = (closing \/ Close[c])
    /\ snapshot' = [snapshot EXCEPT ![c] = pending]
    /\ pc' = [pc EXCEPT ![c] = "unlock"]
    /\ UNCHANGED <<pending, tstate, cur, epc, wait>>

(* Release the lock; return at once if there was nothing to abort.        *)
AbortTasksUnlock(c) ==
    /\ pc[c] = "unlock"
    /\ lock' = NoThread
    /\ pc' = [pc EXCEPT ![c] = IF snapshot[c] = {} THEN "wait" ELSE "abort"]
    /\ UNCHANGED <<closing, pending, tstate, snapshot, cur, epc, wait>>

(* A running task's abort takes effect through its RPC callback, which   *)
(* unregisters it later on another thread; a waiting or finished task is  *)
(* unregistered by the aborting thread itself.                            *)
Deferred(t) == tstate[t] = "running" /\ epc[t] = "idle"

(* Abort the next task of the copy, in the copy's (unspecified) order.    *)
AbortTasksAbortOne(c) ==
    /\ pc[c] = "abort"
    /\ \E t \in snapshot[c] :
          /\ AbortTask(t)
          /\ cur' = [cur EXCEPT ![c] = t]
          /\ snapshot' = [snapshot EXCEPT ![c] = @ \ {t}]
          /\ IF Deferred(t)
             THEN /\ epc' = [epc EXCEPT ![t] = "unreg"]
                  /\ pc' = [pc EXCEPT ![c] = IF snapshot'[c] = {} THEN "wait" ELSE "abort"]
             ELSE /\ pc' = [pc EXCEPT ![c] = "unreg"]
                  /\ UNCHANGED epc
    /\ UNCHANGED <<lock, closing, pending, wait>>

(* The aborted task unregisters itself on the closer's thread.             *)
AbortTasksUnregister(c) ==
    /\ pc[c] = "unreg"
    /\ RemoveTask(c, cur[c])
    /\ pc' = [pc EXCEPT ![c] = IF snapshot[c] = {} THEN "wait" ELSE "abort"]
    /\ UNCHANGED <<closing, tstate, snapshot, cur, epc, wait>>

(* TableInfo::WaitTasksCompletion: poll pending_tasks_ under a shared     *)
(* lock until it is empty (only the closing caller waits), sleeping       *)
(* wait_time_ms between polls and growing it by 5/4 in int arithmetic up  *)
(* to kMaxWaitMs; at_max_wait turns the per-task VLOG into a WARNING.      *)
kMaxWaitMs == 30000
kInitialWaitMs == 5

(* Mutant: the product is divided before it is multiplied.               *)
NextWaitTimeDivFirst(w) ==
    IF (w \div 4) * 5 < kMaxWaitMs THEN (w \div 4) * 5 ELSE kMaxWaitMs

(* wait_time_ms = std::min(wait_time_ms * 5 / 4, kMaxWaitMs)               *)
NextWaitTime(w) == IF (w * 5) \div 4 < kMaxWaitMs THEN (w * 5) \div 4 ELSE kMaxWaitMs

AtMaxWait(c) == wait[c] >= kMaxWaitMs

(* The poll that finds pending_tasks_ empty ends the call.                *)
WaitTasksCompletion(c) ==
    /\ pc[c] = "wait"
    /\ Close[c] => Free /\ pending = {}
    /\ pc' = [pc EXCEPT ![c] = "done"]
    /\ UNCHANGED <<lock, closing, pending, tstate, snapshot, cur, epc, wait>>

(* A poll that finds tasks sleeps and grows the wait.                     *)
WaitTasksPoll(c) ==
    /\ pc[c] = "wait" /\ Close[c]
    /\ Free /\ pending # {}
    /\ wait' = [wait EXCEPT ![c] = NextWaitTime(@)]
    /\ UNCHANGED <<lock, closing, pending, tstate, pc, snapshot, cur, epc>>

-----------------------------------------------------------------------------
(* A running task finishes by itself (its RPC answered) and unregisters.  *)
(* Tasks may also hang: nothing obliges them to finish.                    *)
CompleteTask(t) ==
    /\ epc[t] = "idle" /\ tstate[t] = "running"
    /\ tstate' = [tstate EXCEPT ![t] = "complete"]
    /\ epc' = [epc EXCEPT ![t] = "unreg"]
    /\ UNCHANGED <<lock, closing, pending, pc, snapshot, cur, wait>>

CompletedTaskUnregister(t) ==
    /\ epc[t] = "unreg"
    /\ RemoveTask(t, t)
    /\ epc' = [epc EXCEPT ![t] = "done"]
    /\ UNCHANGED <<closing, tstate, pc, snapshot, cur, wait>>

(* Every operation has returned.                                          *)
Finished == \A th \in Threads : pc[th] = "done"

Terminating == Finished /\ UNCHANGED vars

-----------------------------------------------------------------------------
Init ==
    /\ lock = NoThread
    /\ closing = FALSE
    /\ pending = {}
    /\ tstate = [t \in Tasks |-> "waiting"]
    /\ pc = [th \in Threads |-> "lock"]
    /\ snapshot = [c \in Closers |-> {}]
    /\ cur = [c \in Closers |-> NoThread]
    /\ epc = [t \in Tasks |-> "idle"]
    /\ wait = [c \in Closers |-> kInitialWaitMs]

AdderStep(a) ==
    \/ AddTaskCritical(a) \/ AddTaskUnlock(a) \/ AddTaskAbort(a)
    \/ AddTaskUnregister(a) \/ RunTask(a)

CloserStep(c) ==
    \/ AbortTasksCritical(c) \/ AbortTasksUnlock(c) \/ AbortTasksAbortOne(c)
    \/ AbortTasksUnregister(c) \/ WaitTasksCompletion(c) \/ WaitTasksPoll(c)

Next ==
    \/ \E a \in Adders : AdderStep(a)
    \/ \E c \in Closers : CloserStep(c)
    \/ \E t \in Tasks : CompleteTask(t) \/ CompletedTaskUnregister(t)
    \/ Terminating

(* The table code runs on OS threads: a thread that can go on eventually  *)
(* does. A task's own completion is not assumed; its unregistration,      *)
(* once completed, is code and is.                                         *)
Fairness ==
    /\ \A a \in Adders : WF_vars(AdderStep(a))
    /\ \A c \in Closers : WF_vars(CloserStep(c))
    /\ \A t \in Tasks : WF_vars(CompletedTaskUnregister(t))

Spec == Init /\ [][Next]_vars /\ Fairness

-----------------------------------------------------------------------------
(* The types, and lock_ held only inside a lock_guard's scope.            *)
TypeOK ==
    /\ lock \in Threads \cup {NoThread}
    /\ lock # NoThread => pc[lock] \in {"unlock_run", "unlock_abort", "unlock"}
    /\ closing \in BOOLEAN
    /\ pending \subseteq Tasks
    /\ tstate \in [Tasks -> TaskStates]
    /\ snapshot \in [Closers -> SUBSET Tasks]
    /\ cur \in [Closers -> Tasks \cup {NoThread}]
    /\ epc \in [Tasks -> {"idle", "unreg", "done"}]
    /\ wait \in [Closers -> kInitialWaitMs..kMaxWaitMs]

(* Every AddTask, AbortTasks and AbortTasksAndClose + WaitTasksCompletion  *)
(* call returns, however registrations race with the close: a task added  *)
(* before the close is in the closer's copy, one added after it is        *)
(* aborted by AddTask, so the closer's wait ends even if tasks hang.       *)
AllCallsReturn == <>Finished

RECURSIVE WaitSchedule(_, _)
(* The wait_time_ms of successive polls from w, at most n + 1 of them,    *)
(* ending at the first one with at_max_wait set.                          *)
WaitSchedule(w, n) ==
    IF n = 0 \/ w >= kMaxWaitMs THEN <<w>>
    ELSE <<w>> \o WaitSchedule(NextWaitTime(w), n - 1)

MaxPollsToWarn == 41
MaxSleepToWarnMs == 126408

(* The 5/4 growth, in int arithmetic that rounds down, never sticks: from *)
(* any wait a closer has reached, the wait strictly grows until           *)
(* at_max_wait holds, within MaxPollsToWarn more polls and                *)
(* MaxSleepToWarnMs more sleep; from then on every poll logs the WARNING. *)
WaitReachesMax ==
    \A c \in Closers :
        LET s == WaitSchedule(wait[c], MaxPollsToWarn)
            slept[i \in 0..Len(s) - 1] == IF i = 0 THEN 0 ELSE slept[i - 1] + s[i]
        IN  /\ s[Len(s)] = kMaxWaitMs
            /\ \A i \in 1..Len(s) - 1 : s[i] < s[i + 1]
            /\ slept[Len(s) - 1] <= MaxSleepToWarnMs

=============================================================================
