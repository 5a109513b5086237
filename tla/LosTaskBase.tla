----------------------------- MODULE LosTaskBase -----------------------------
(***************************************************************************)
(* The services of kernel/base/core/los_task.c that the IPC modules call   *)
(* with interrupts locked: change a priority, put the running task on a    *)
(* wait list, wake a waiter, arm and disarm the timeout of a task.         *)
(*                                                                         *)
(* The timer wheel is abstracted to what it promises: k.timer lists the    *)
(* tasks with an armed timer in the order in which the timers were armed,  *)
(* and k.ticks[t] is the number of ticks t still has to wait.  Module      *)
(* LosSortLink models the wheel itself.                                    *)
(***************************************************************************)
EXTENDS LosPriqueue

CONSTANT WAIT_FOREVER   \* LOS_WAIT_FOREVER, which is no number of ticks
ASSUME ForeverAssumption == WAIT_FOREVER \notin Nat

Flag == {"UNUSED", "SUSPEND", "READY", "PEND", "PEND_QUEUE", "RUNNING",
         "DELAY", "TIMEOUT"}
Waiting == {"PEND", "PEND_QUEUE"}

\* OS_CHECK_TASK_BLOCK
Blocked == {"DELAY", "SUSPEND"} \cup Waiting

SetFlags(k, t, off, on) == [k EXCEPT !.status[t] = (@ \ off) \cup on]

\* usTaskStatus |= READY and osPriqueueEnqueue
MakeReady(k, t) == osPriqueueEnqueue(SetFlags(k, t, {}, {"READY"}), t)

\* osPriqueueDequeue and usTaskStatus &= ~READY
MakeUnready(k, t) == SetFlags(osPriqueueDequeue(k, t), t, {"READY"}, {})

SetPrio(k, t, p) == [k EXCEPT !.prio[t] = p]

\* Mutant: a ready task stays in the queue of its old priority.
PriModifyInPlace(k, t, p) == SetPrio(k, t, p)

osTaskPriModify(k, t, p) ==
  IF "READY" \in k.status[t]
  THEN MakeReady(SetPrio(MakeUnready(k, t), t, p), t)
  ELSE SetPrio(k, t, p)

osTaskAdd2TimerList(k, t, n) ==
  [k EXCEPT !.timer = Append(@, t), !.ticks[t] = n]

\* Mutant: the time is cleared, the timer stays linked.
TimerListClear(k, t) == [k EXCEPT !.ticks[t] = 0]

osTimerListDelete(k, t) ==
  IF IsOn(k.timer, t)
  THEN [k EXCEPT !.timer = Without(@, t), !.ticks[t] = 0]
  ELSE [k EXCEPT !.fault = TRUE]

osTaskWait(k, t, list, flag, timeout) ==
  LET waiting == [SetFlags(MakeUnready(k, t), t, {}, {flag})
                    EXCEPT !.pend[list] = Append(@, t)]
  IN IF timeout = WAIT_FOREVER
     THEN waiting
     ELSE osTaskAdd2TimerList(SetFlags(waiting, t, {}, {"TIMEOUT"}), t, timeout)

\* Mutant: the TIMEOUT flag outlives the timer.
WakeStillFlagged(k, t, flag) ==
  LET woken == SetFlags(ListDelete(k, t), t, {flag}, {})
      off == IF "TIMEOUT" \in woken.status[t] THEN osTimerListDelete(woken, t) ELSE woken
  IN IF "SUSPEND" \in off.status[t] THEN off ELSE MakeReady(off, t)

osTaskWake(k, t, flag) ==
  LET unlinked == SetFlags(ListDelete(k, t), t, {flag}, {})
      disarmed == IF "TIMEOUT" \in unlinked.status[t]
                  THEN SetFlags(osTimerListDelete(unlinked, t), t, {"TIMEOUT"}, {})
                  ELSE unlinked
  IN IF "SUSPEND" \in disarmed.status[t] THEN disarmed ELSE MakeReady(disarmed, t)

\* Mutants of ScanExpire: the task is not made ready; its wait is left in place
\* while it is suspended; it keeps DELAY; it is not told that its time was over.
ExpireUnready(k, t, was) == SetFlags(k, t, {"DELAY"}, {})

ExpireUnlessSuspended(k, t, was) ==
  IF "SUSPEND" \in was THEN k
  ELSE MakeReady(SetFlags(IF was \cap Waiting # {} THEN ListDelete(k, t) ELSE k,
                          t, {"DELAY"} \cup Waiting, {}), t)

ExpireKeepsDelay(k, t, was) == IF "SUSPEND" \in was THEN k ELSE MakeReady(k, t)

ExpireUntold(k, t, was) ==
  MakeReady(SetFlags(IF was \cap Waiting # {} THEN ListDelete(k, t) ELSE k,
                     t, {"DELAY", "TIMEOUT"} \cup Waiting, {}), t)

\* One round of the loop of osTaskScan, after the task's timer is unlinked;
\* was is the status the loop read before that (usTempStatus).
ScanExpire(k, t, was) ==
  LET released ==
        IF was \cap Waiting # {}
        THEN SetFlags(ListDelete(k, t), t, IF "PEND" \in was THEN {"PEND"} ELSE {"PEND_QUEUE"}, {})
        ELSE SetFlags(k, t, {"DELAY"}, {})
  IN IF "SUSPEND" \in was THEN released ELSE MakeReady(released, t)

\* osTaskInit, then osIdleTaskCreate: every TCB free but the idle task's.
KernelInit ==
  [status |-> [t \in TaskID |-> IF t = Idle THEN {"READY"} ELSE {"UNUSED"}],
   prio   |-> [t \in TaskID |-> IF t = Idle THEN LOWEST ELSE 0],
   queue  |-> [p \in Prio |-> IF p = LOWEST THEN <<Idle>> ELSE <<>>],
   bitmap |-> {LOWEST},
   pend   |-> [o \in PendObj |-> <<>>],
   free   |-> [i \in 1 .. TSK_LIMIT |-> i],
   recycle |-> <<>>,
   timer  |-> <<>>,
   ticks  |-> [t \in TaskID |-> 0],
   fault  |-> FALSE]

-----------------------------------------------------------------------------
(* What the control blocks and the lists have to agree on                  *)

KernelType ==
  [status : [TaskID -> SUBSET Flag], prio : [TaskID -> Prio],
   queue : [Prio -> Seq(TaskID)], bitmap : SUBSET Prio,
   pend : [PendObj -> Seq(TaskID)], free : Seq(UserTask), recycle : Seq(UserTask),
   timer : Seq(TaskID), ticks : [TaskID -> Nat], fault : BOOLEAN]

\* A task is flagged READY exactly when it is queued, once, at the priority
\* it has now, and the bitmap names exactly the non-empty queues: so
\* osPriqueueTop finds the most urgent ready task whatever calls came before.
ReadyQueueExact(kk) ==
  /\ \A t \in TaskID, p \in Prio :
       IsOn(kk.queue[p], t) <=> "READY" \in kk.status[t] /\ kk.prio[t] = p
  /\ \A p \in Prio : IsInjective(kk.queue[p])
  /\ \A p \in Prio : p \in kk.bitmap <=> kk.queue[p] # <<>>

\* A task has one list node for the ready queues, the wait lists and the
\* lists of unused TCBs: it is in one of these at a time, the one its status
\* names, and in that one once.
OneList(kk) ==
  /\ \A t \in TaskID :
       /\ (\E o \in PendObj : IsOn(kk.pend[o], t)) <=> kk.status[t] \cap Waiting # {}
       /\ IsOn(kk.free, t) \/ IsOn(kk.recycle, t) <=> "UNUSED" \in kk.status[t]
       /\ ~(IsOn(kk.free, t) /\ IsOn(kk.recycle, t))
       /\ "UNUSED" \in kk.status[t] => kk.status[t] = {"UNUSED"}
       /\ "READY" \in kk.status[t] => kk.status[t] \cap Blocked = {}
       /\ \A a, b \in {"DELAY"} \cup Waiting : {a, b} \subseteq kk.status[t] => a = b
       /\ \A o, q \in PendObj : IsOn(kk.pend[o], t) /\ IsOn(kk.pend[q], t) => o = q
  /\ \A o \in PendObj : IsInjective(kk.pend[o])
  /\ IsInjective(kk.free) /\ IsInjective(kk.recycle)

\* A timer is armed exactly for a task that delays or that waits with a
\* timeout, and its time is still to come.
TimerExact(kk) ==
  /\ \A t \in TaskID :
       IsOn(kk.timer, t) <=>
         \/ "DELAY" \in kk.status[t]
         \/ "TIMEOUT" \in kk.status[t] /\ kk.status[t] \cap Waiting # {}
  /\ IsInjective(kk.timer)
=============================================================================
