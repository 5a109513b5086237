------------------------------- MODULE LosTask -------------------------------
(***************************************************************************)
(* The task manager of the Huawei LiteOS kernel on a Cortex-M: the task    *)
(* calls of kernel/base/core/los_task.c, the scheduler of                  *)
(* arch/arm/arm-m, the tick handler and the time slice.                    *)
(*                                                                         *)
(* A section the code runs between LOS_IntLock and LOS_IntRestore is one   *)
(* step.  LOS_Schedule is a section of its own: a task that has left the   *)
(* section of its call but has not yet called LOS_Schedule is at "sched"   *)
(* (or at "wait", when it will look at its timeout flag after that), and   *)
(* an interrupt may come in between; one that has checked an object of an  *)
(* IPC module and not yet locked the interrupts is at "enter".             *)
(* LOS_Schedule only makes PendSV pending; PendSV has the lowest priority  *)
(* of all exceptions, so it switches tasks after every pending interrupt   *)
(* handler has run and before the interrupted task takes another step.     *)
(* After a fault nothing runs any more: osHwiDefaultHandler loops for ever.*)
(***************************************************************************)
EXTENDS LosTaskBase

CONSTANTS
  Isr,           \* the caller that stands for an interrupt handler
  Boot,          \* the caller that stands for main(), before LOS_Start
  Dummy,         \* g_pstTaskCBArray[g_uwTskMaxNum], "run" after a self-deletion
  NoTask,        \* NULL
  TIMESLICE,     \* LOSCFG_BASE_CORE_TIMESLICE_TIMEOUT, in ticks
  Calls,         \* the task calls the application makes from tasks
  IsrCalls,      \* the task calls it makes from interrupt handlers
  NestedIsr,     \* device interrupts may preempt the tick interrupt
  Misuse,        \* what the application does although it must not, see AllMisuse
  DelayTicks,    \* arguments of LOS_TaskDelay that are tried
  TaskPrio,      \* the priorities the application gives each task
  MAX_LOCK       \* bound on the nesting of LOS_TaskLock

Context == {Isr, Boot, Dummy, NoTask}

\* It deletes a task whose wait has timed out and that has not run since; it uses
\* the ID of a task before LOS_TaskCreate has returned it; it destroys an object
\* that a call is about to use.
AllMisuse == {"delete expired", "use created", "destroy used"}

ASSUME TaskAssumption ==
  /\ TIMESLICE \in Nat \ {0} /\ MAX_LOCK \in Nat
  /\ NestedIsr \in BOOLEAN /\ Misuse \subseteq AllMisuse
  /\ DelayTicks \subseteq Nat \ {0} /\ TaskPrio \in [UserTask -> SUBSET Prio]
  /\ Context \cap TaskID = {} /\ Isr # Boot /\ Dummy # NoTask

VARIABLES
  k,          \* the task control blocks and the lists that hold them
  runTask,    \* g_stLosTask.pstRunTask
  newTask,    \* g_stLosTask.pstNewTask
  pendSV,     \* the PendSV exception is pending
  taskLock,   \* g_usLosTaskLock
  scheduled,  \* g_bTaskScheduled
  making,     \* the task each caller has begun to create in LOS_TaskCreate
  slice,      \* g_stTaskTimeSlice: the task, and the ticks it has left
  scan,       \* where the tick interrupt is in osTaskScan
  pc          \* where each task is in the call it makes

sched == <<runTask, newTask, pendSV, taskLock, scheduled, making>>
vars == <<k, sched, slice, scan, pc>>

Creator == UserTask \cup {Boot}

ScanOff == [at |-> "off", task |-> NoTask, was |-> {}, resched |-> FALSE]

Init ==
  /\ k = KernelInit
  /\ runTask = Dummy /\ newTask = Idle /\ pendSV = FALSE
  /\ taskLock = 0 /\ scheduled = FALSE
  /\ making = [c \in Creator |-> NoTask]
  /\ slice = [task |-> NoTask, left |-> 0]
  /\ scan = ScanOff
  /\ pc = [t \in TaskID |-> "app"]

-----------------------------------------------------------------------------
(* Who executes                                                            *)

TaskRuns(t) == ~k.fault /\ runTask = t /\ ~pendSV /\ scan.at = "off"
InApp(t) == TaskRuns(t) /\ scheduled /\ pc[t] = "app" /\ making[t] = NoTask
BootRuns == ~scheduled /\ making[Boot] = NoTask
\* t has checked what an IPC call works on and is about to lock the interrupts.
AtEntry(t) == TaskRuns(t) /\ pc[t] = "enter"
IsrRuns == ~k.fault /\ scheduled /\ (scan.at = "off" \/ NestedIsr)

\* c is where a call may come from: a task, an interrupt handler.
MayCall(c, name) ==
  \/ c \in UserTask /\ InApp(c) /\ name \in Calls
  \/ c = Isr /\ IsrRuns /\ name \in IsrCalls

-----------------------------------------------------------------------------
(* The scheduler                                                           *)

\* Mutants: the old choice is compared; the lock is not looked at.
ScheduleStale ==
  /\ newTask' = osPriqueueTop(k')
  /\ pendSV' = (pendSV \/ (runTask # newTask /\ taskLock = 0))

ScheduleUnlocked ==
  /\ newTask' = osPriqueueTop(k')
  /\ pendSV' = (pendSV \/ runTask # newTask')

\* With the lists as the step leaves them: the interrupt sections of
\* LOS_Schedule, and of the calls that compare and switch by themselves.
LOS_Schedule ==
  /\ newTask' = osPriqueueTop(k')
  /\ pendSV' = (pendSV \/ (runTask # newTask' /\ taskLock = 0))

\* The call of LOS_Schedule that follows the section of an API function.
Then_LOS_Schedule(c) ==
  IF c = Isr
  THEN LOS_Schedule /\ pc' = pc
  ELSE pc' = [pc EXCEPT ![c] = "sched"] /\ UNCHANGED <<newTask, pendSV>>

Schedule(t) ==
  /\ TaskRuns(t) /\ pc[t] \in {"sched", "wait"}
  /\ pc' = [pc EXCEPT ![t] = IF @ = "sched" THEN "app" ELSE "check"]
  /\ k' = k
  /\ LOS_Schedule
  /\ UNCHANGED <<runTask, taskLock, scheduled, making, slice, scan>>

PendSV_Handler ==
  /\ ~k.fault /\ pendSV /\ scan.at = "off"
  /\ LET saved == IF runTask = Dummy THEN k ELSE SetFlags(k, runTask, {"RUNNING"}, {})
     IN k' = SetFlags(saved, newTask, {}, {"RUNNING"})
  /\ runTask' = newTask
  /\ pendSV' = FALSE
  /\ UNCHANGED <<newTask, taskLock, scheduled, making, slice, scan, pc>>

LOS_StartToRun ==
  /\ BootRuns
  /\ scheduled' = TRUE
  /\ runTask' = newTask
  /\ k' = SetFlags(k, newTask, {}, {"RUNNING"})
  /\ UNCHANGED <<newTask, pendSV, taskLock, making, slice, scan, pc>>

-----------------------------------------------------------------------------
(* The task calls                                                          *)

\* Mutant: the recycled TCBs are not taken off the recycle list.
ReclaimCopies(kk) == [kk EXCEPT !.free = Reverse(kk.recycle) \o @]

\* LOS_TaskCreateOnly first moves the recycled TCBs to the free list.
Reclaim(kk) == [kk EXCEPT !.free = Reverse(kk.recycle) \o @, !.recycle = <<>>]

CallsCreate(c, name) ==
  \/ MayCall(c, name)
  \/ c = Boot /\ BootRuns

Allocate(kk, p, flag) ==
  LET t == Head(kk.free) IN
  [kk EXCEPT !.free = Tail(@), !.status[t] = {flag}, !.prio[t] = p]

\* LOS_TaskCreateOnly, also where LOS_TaskCreate calls it: the new task is
\* suspended, and its ID is out.
LOS_TaskCreateOnly(c, name, p) ==
  /\ CallsCreate(c, name) /\ Reclaim(k).free # <<>>
  /\ LET t == Head(Reclaim(k).free) IN
     /\ p \in TaskPrio[t]
     /\ k' = Allocate(Reclaim(k), p, "SUSPEND")
     /\ making' = IF name = "create" THEN [making EXCEPT ![c] = t] ELSE making
  /\ UNCHANGED <<runTask, newTask, pendSV, taskLock, scheduled, slice, scan, pc>>

\* No memory for the stack: the TCB goes back to the head of the free list.
TaskCreateFails(c) ==
  /\ CallsCreate(c, "create")
  /\ k' = Reclaim(k)
  /\ UNCHANGED <<sched, slice, scan, pc>>

\* The second section of LOS_TaskCreate.  It takes the task for suspended: if
\* somebody has used the ID, the task is queued twice, or a free TCB is queued.
LOS_TaskCreate(c) ==
  /\ making[c] # NoTask
  /\ IF c = Boot THEN ~scheduled ELSE TaskRuns(c)
  /\ LET t == making[c] IN
     k' = IF k.status[t] = {"SUSPEND"}
          THEN MakeReady(SetFlags(k, t, {"SUSPEND"}, {}), t)
          ELSE [k EXCEPT !.fault = TRUE]
  /\ making' = [making EXCEPT ![c] = NoTask]
  /\ newTask' = osPriqueueTop(k')
  /\ pendSV' = (pendSV \/ (scheduled /\ taskLock = 0 /\ runTask # newTask'))
  /\ UNCHANGED <<runTask, taskLock, scheduled, slice, scan, pc>>

\* Somebody is in the middle of the creation of t.
Made(t) == \E c \in Creator : making[c] = t

LOS_TaskResume(c, u) ==
  /\ MayCall(c, "resume") /\ "SUSPEND" \in k.status[u]
  /\ Made(u) => "use created" \in Misuse
  /\ LET resumed == SetFlags(k, u, {"SUSPEND"}, {}) IN
     IF resumed.status[u] \cap Blocked = {}
     THEN /\ k' = MakeReady(resumed, u)
          /\ Then_LOS_Schedule(c)
     ELSE /\ k' = resumed
          /\ UNCHANGED <<newTask, pendSV, pc>>
  /\ UNCHANGED <<runTask, taskLock, scheduled, making, slice, scan>>

LOS_TaskSuspend(c, u) ==
  /\ MayCall(c, "suspend") /\ k.status[u] \cap {"UNUSED", "SUSPEND"} = {}
  /\ ~("RUNNING" \in k.status[u] /\ taskLock # 0)
  /\ LET off == IF "READY" \in k.status[u] THEN MakeUnready(k, u) ELSE k IN
     k' = SetFlags(off, u, {}, {"SUSPEND"})
  /\ IF u = runTask
     THEN Then_LOS_Schedule(c)
     ELSE UNCHANGED <<newTask, pendSV, pc>>
  /\ UNCHANGED <<runTask, taskLock, scheduled, making, slice, scan>>

\* t's wait has timed out and t has not yet run to clear the flag.
Expired(t) == "TIMEOUT" \in k.status[t] /\ ~IsOn(k.timer, t)

\* osTaskEntry ends in the deletion of the task by itself.
LOS_TaskDelete(c, u) ==
  /\ MayCall(c, "delete") /\ "UNUSED" \notin k.status[u]
  /\ Expired(u) => "delete expired" \in Misuse
  /\ Made(u) => "use created" \in Misuse
  /\ LET was == k.status[u]
         off == IF "READY" \in was THEN MakeUnready(k, u)
                ELSE IF was \cap Waiting # {} THEN ListDelete(k, u) ELSE k
         disarmed == IF was \cap {"DELAY", "TIMEOUT"} # {}
                     THEN osTimerListDelete(off, u) ELSE off
         unused == [disarmed EXCEPT !.status[u] = {"UNUSED"}]
     IN /\ newTask' = osPriqueueTop(unused)
        /\ IF "RUNNING" \in was
           THEN /\ k' = [unused EXCEPT !.recycle = Append(@, u)]
                /\ runTask' = Dummy /\ pendSV' = TRUE /\ taskLock' = 0
           ELSE /\ k' = [unused EXCEPT !.free = <<u>> \o @]
                /\ UNCHANGED <<runTask, pendSV, taskLock>>
  /\ pc' = [pc EXCEPT ![u] = "app"] /\ making' = [making EXCEPT ![u] = NoTask]
  /\ UNCHANGED <<scheduled, slice, scan>>

LOS_TaskDelay(c, n) ==
  /\ InApp(c) /\ MayCall(c, "delay") /\ taskLock = 0
  /\ k' = SetFlags(osTaskAdd2TimerList(MakeUnready(k, c), c, n), c, {}, {"DELAY"})
  /\ pc' = [pc EXCEPT ![c] = "sched"]
  /\ UNCHANGED <<sched, slice, scan>>

LOS_TaskPriSet(c, u, p) ==
  /\ MayCall(c, "priset") /\ "UNUSED" \notin k.status[u] /\ p \in TaskPrio[u]
  /\ k' = osTaskPriModify(k, u, p)
  /\ IF "READY" \in k.status[u]
     THEN Then_LOS_Schedule(c)
     ELSE UNCHANGED <<newTask, pendSV, pc>>
  /\ UNCHANGED <<runTask, taskLock, scheduled, making, slice, scan>>

\* LOS_TaskYield, and the condition under which it does anything.
Yields(kk) ==
  /\ runTask # Dummy /\ "READY" \in kk.status[runTask]
  /\ osPriqueueSize(kk, kk.prio[runTask]) > 1
\* Mutant: the task keeps its place.
KeepPlace(kk, t) == kk

ToTail(kk, t) == osPriqueueEnqueue(ListDelete(kk, t), t)

LOS_TaskYield(c) ==
  /\ InApp(c) /\ MayCall(c, "yield") /\ Yields(k)
  /\ k' = ToTail(k, c)
  /\ pc' = [pc EXCEPT ![c] = "sched"]
  /\ UNCHANGED <<sched, slice, scan>>

LOS_TaskLock(c) ==
  /\ InApp(c) /\ MayCall(c, "lock") /\ taskLock < MAX_LOCK
  /\ taskLock' = taskLock + 1
  /\ UNCHANGED <<k, runTask, newTask, pendSV, scheduled, making, slice, scan, pc>>

\* Mutant: an unlock without a lock is not ignored.
TaskUnlockAnyway(c) ==
  /\ InApp(c) /\ MayCall(c, "lock")
  /\ taskLock' = taskLock - 1 /\ pc' = pc
  /\ UNCHANGED <<k, runTask, newTask, pendSV, scheduled, making, slice, scan>>

LOS_TaskUnlock(c) ==
  /\ InApp(c) /\ MayCall(c, "lock") /\ taskLock > 0
  /\ taskLock' = taskLock - 1
  /\ pc' = IF taskLock = 1 THEN [pc EXCEPT ![c] = "sched"] ELSE pc
  /\ UNCHANGED <<k, runTask, newTask, pendSV, scheduled, making, slice, scan>>

-----------------------------------------------------------------------------
(* The tick interrupt: osTickHandler runs with interrupts enabled          *)

\* osTimesliceCheck: a tick that finds another task running starts a slice.
SliceLeft == IF slice.task = runTask THEN slice.left - 1 ELSE TIMESLICE - 1

osTickHandler ==
  /\ IsrRuns /\ scan.at = "off"
  /\ LET yields == SliceLeft = 0 /\ Yields(k)
         rotated == IF yields THEN ToTail(k, runTask) ELSE k
     IN /\ k' = [rotated EXCEPT !.ticks = [t \in TaskID |->
                   IF IsOn(k.timer, t) THEN k.ticks[t] - 1 ELSE k.ticks[t]]]
        /\ IF yields THEN LOS_Schedule ELSE UNCHANGED <<newTask, pendSV>>
  /\ slice' = IF SliceLeft = 0 THEN [task |-> NoTask, left |-> 0]
              ELSE [task |-> runTask, left |-> SliceLeft]
  /\ scan' = [ScanOff EXCEPT !.at = "scan"]
  /\ UNCHANGED <<runTask, taskLock, scheduled, making, pc>>

\* The loop of osTaskScan over the tasks whose time has come, in two steps:
\* a device interrupt between them sees a half-woken task.
Due == {i \in DOMAIN k.timer : k.ticks[k.timer[i]] = 0}

ScanUnlink ==
  /\ ~k.fault /\ scan.at = "scan" /\ Due # {}
  /\ LET t == k.timer[Min(Due)] IN
     /\ k' = [k EXCEPT !.timer = Without(@, t)]
     /\ scan' = [scan EXCEPT !.at = "expire", !.task = t, !.was = k.status[t]]
  /\ UNCHANGED <<sched, slice, pc>>

ScanWake ==
  /\ ~k.fault /\ scan.at = "expire"
  /\ k' = ScanExpire(k, scan.task, scan.was)
  /\ scan' = [ScanOff EXCEPT !.at = "scan",
                !.resched = scan.resched \/ "SUSPEND" \notin scan.was]
  /\ UNCHANGED <<sched, slice, pc>>

ScanEnd ==
  /\ ~k.fault /\ scan.at = "scan" /\ Due = {}
  /\ scan' = ScanOff
  /\ k' = k
  /\ IF scan.resched THEN LOS_Schedule ELSE UNCHANGED <<newTask, pendSV>>
  /\ UNCHANGED <<runTask, taskLock, scheduled, making, slice, pc>>

-----------------------------------------------------------------------------
Caller == UserTask \cup {Isr}

TaskCall ==
  \/ \E c \in Creator, name \in {"create", "createonly"}, p \in Prio :
       LOS_TaskCreateOnly(c, name, p)
  \/ \E c \in Creator : TaskCreateFails(c) \/ LOS_TaskCreate(c)
  \/ \E c \in Caller, u \in UserTask :
       LOS_TaskResume(c, u) \/ LOS_TaskSuspend(c, u) \/ LOS_TaskDelete(c, u)
  \/ \E c \in UserTask, u \in UserTask, p \in Prio : LOS_TaskPriSet(c, u, p)
  \/ \E c \in UserTask, n \in DelayTicks : LOS_TaskDelay(c, n)
  \/ \E c \in UserTask : LOS_TaskYield(c) \/ LOS_TaskLock(c) \/ LOS_TaskUnlock(c)

Tick == osTickHandler \/ ScanUnlink \/ ScanWake \/ ScanEnd

System ==
  \/ LOS_StartToRun \/ PendSV_Handler
  \/ \E t \in UserTask : Schedule(t)
  \/ Tick

Next == TaskCall \/ System

\* The processor executes pending exceptions and the running task, and the
\* tick interrupt keeps coming.
Fairness ==
  /\ SF_vars(PendSV_Handler) /\ WF_vars(Tick)
  /\ WF_vars(LOS_StartToRun) /\ WF_vars(LOS_TaskCreate(Boot))
  /\ \A t \in UserTask : SF_vars(Schedule(t))

Spec == Init /\ [][Next]_vars /\ Fairness

-----------------------------------------------------------------------------
(* Properties                                                              *)

\* Every variable holds values of its type.
TypeOK ==
  /\ k \in KernelType
  /\ runTask \in TaskID \cup {Dummy} /\ newTask \in TaskID
  /\ pendSV \in BOOLEAN /\ taskLock \in 0 .. MAX_LOCK /\ scheduled \in BOOLEAN
  /\ making \in [Creator -> UserTask \cup {NoTask}]
  /\ slice \in [task : TaskID \cup {Dummy, NoTask}, left : 0 .. TIMESLICE]
  /\ scan \in [at : {"off", "scan", "expire"}, task : TaskID \cup {NoTask},
               was : SUBSET Flag, resched : BOOLEAN]
  /\ pc \in [TaskID -> {"app", "enter", "sched", "wait", "check"}]

\* The ready queues are exact (ReadyQueueExact of LosTaskBase), so that
\* osPriqueueTop finds the most urgent ready task whatever calls came before.
ReadyQueues == ReadyQueueExact(k)

\* A task is on the list its status names and on no other (OneList).
ListNodes == OneList(k)

\* A timer is armed exactly for the tasks that wait for one (TimerExact), except
\* between the two halves of a wake-up by the tick.
Timers == scan.at # "expire" => TimerExact(k)

\* No call unlinks a list node that is on no list (LOS_ListDelete would then
\* follow a NULL pointer).
NoFault == ~k.fault

\* Every live task is ready, or something it waits for will make it ready: a
\* resumption, the end of its delay, a post to the list it waits on.
NoTaskLost ==
  scan.at = "off" =>
    \A t \in TaskID : k.status[t] \cap ({"UNUSED", "READY"} \cup Blocked) # {}

Urgent(t) ==
  /\ "READY" \in k.status[t]
  /\ \A u \in TaskID : "READY" \in k.status[u] => k.prio[t] <= k.prio[u]

\* Whenever application code executes with the scheduler unlocked, the task
\* that executes it is ready, and no ready task is more urgent.
HighestRuns ==
  \A t \in TaskID :
    TaskRuns(t) /\ scheduled /\ pc[t] = "app" /\ taskLock = 0 => Urgent(t)

\* Why HighestRuns holds.  The tick has woken tasks it has yet to tell the
\* scheduler of:
Unsettled == scan.at # "off" /\ scan.resched

\* RUNNING marks the running task, a pending switch is allowed and goes to a
\* ready task, and a task that is not on its way into LOS_Schedule is ready.
Running ==
  /\ \A t \in TaskID : "RUNNING" \in k.status[t] <=> t = runTask
  /\ ~scheduled => runTask = Dummy /\ ~pendSV /\ taskLock = 0 /\ scan.at = "off"
  /\ scheduled /\ runTask = Dummy => pendSV
  /\ pendSV => taskLock = 0
  /\ pendSV \/ ~scheduled => "READY" \in k.status[newTask]
  /\ runTask \in TaskID /\ "READY" \notin k.status[runTask] =>
       taskLock = 0 /\ (pendSV \/ pc[runTask] \in {"sched", "wait"})

\* The switch goes to the most urgent task as soon as the tick is done, and a
\* task past LOS_Schedule is the most urgent one unless the scheduler is locked.
Settled ==
  /\ (pendSV \/ ~scheduled) /\ ~Unsettled => Urgent(newTask)
  /\ runTask \in TaskID /\ ~pendSV /\ pc[runTask] \in {"app", "enter", "check"} /\ taskLock = 0
       /\ ~Unsettled => Urgent(runTask)

\* Between LOS_TaskLock and the unlock that matches it no other task runs,
\* except that the deletion of the task that holds the lock releases it.
LockHolds ==
  [][taskLock > 0 /\ taskLock' > 0 => runTask' = runTask]_vars

\* A task that delays itself wakes up (its delay runs on while it is suspended).
DelayEnds ==
  \A t \in UserTask : "DELAY" \in k.status[t] ~> "DELAY" \notin k.status[t]

\* Time slices: a task that stays among the most urgent ready tasks gets the
\* processor again and again, unless the scheduler stays locked.
SharesCpu ==
  \A t \in UserTask :
    <>[](Urgent(t) /\ taskLock = 0 /\ ~k.fault) => []<>(runTask = t)
=============================================================================
