# Verification of ESurfingOS

ESurfingOS is Huawei LiteOS with an IoT stack: a small real-time kernel for
Cortex-M (and MSP430) and, on top of it, file systems, a socket layer with an
AT-command framework, firmware update and device-management agents. This
directory holds TLA+ models of the kernel, of the firmware update and of the AT
command framework, the TLC configurations that check them on small instances,
and TLAPS proofs, for every size, about the task manager, the scheduler, mutexes,
semaphores, message queues, events, both kinds of timers, tickless idle, the
firmware update and the AT framework.

Paths below are relative to the repository; `file.c:12` is a line of it.

## 1. The system

### Parts, state, operations

| part | state | operations | models |
|---|---|---|---|
| ready queues (`los_priqueue.c`, `los_list.h`) | one FIFO list per priority, a 32-bit bitmap of the non-empty ones | enqueue, dequeue, top, size | `LosPriqueue` |
| task manager (`los_task.c`) | task control blocks (status flags, priority, two list nodes), free and recycle lists, the timer wheel, `g_usLosTaskLock` | create, create-only, delete, suspend, resume, delay, set priority, yield, lock, unlock; wait/wake for the IPC modules; the tick's scan | `LosTaskBase`, `LosTask`; the wheel: `LosSortLink`, `AbsTimers` |
| scheduler (`los_hw.c`, `los_dispatch_gcc.S`, `los_tick.c`, `los_timeslice.c`) | `pstRunTask`, `pstNewTask`, PendSV pending, `g_bTaskScheduled`, the slice | `LOS_Schedule`, `PendSV_Handler`, `LOS_StartToRun`, `osTickHandler`, `osTimesliceCheck` | `LosTask` |
| mutexes (`los_mux.c`) | owner, count, saved priority, wait list | create, delete, pend, post | `LosMux` |
| semaphores (`los_sem.c`) | count, maximum, wait list | create (counting, binary), delete, pend, post | `LosSem`, `AbsSem` |
| queues and mail (`los_queue.c`) | ring buffer, reader and writer counts, three wait lists | create, delete, read, write (tail, head), mail alloc/free | `LosQueue`, `LosMembox`, `AbsQueue` |
| events (`los_event.c`) | event bits, wait list, masks in the TCBs | init, destroy, read, poll, write, clear | `LosEvent` |
| software timers (`los_swtmr.c`) | control blocks, a list in order of expiry that holds differences, the handler queue and its task | create, start, stop, delete, scan, time to the next expiry | `LosSwtmr`, run in `LosTickless` |
| tickless idle (`los_tickless.c`, `los_hw_tick.c`) | the SysTick counter, `g_uwSleepTicks`, two flags | sleep, make up for the ticks slept through | `LosTickless` with `LosSortLink` and `LosSwtmr` |
| block pools (`los_membox.c`) | a list through the free blocks, the count of the others | init, alloc, free | `LosMembox`, used by `LosQueue` |
| rest of memory (`kernel/base/mem`) | heaps, slabs | alloc, free | not modelled |
| interrupt table, MSP430 port, OS adaption | vectors; none; handles | | not modelled |
| VFS, ramfs, kifs, devfs | file table, mount list, reference counts, two mutexes | open, close, read, write, mount, unmount | planned |
| AT framework (`at_main.c`) with the BC95 driver | listener list, `resp_sem`, `trx_mux`, `cmd_mux`, message queue, receive task | command with timeout, write with prompt, command of the receive task, data indication | `AtFrame` |
| sockets, other modem drivers | sockets, receive buffers | connect, send, receive | not modelled |
| OTA packages and flags (`ota/package`, `ota/flag_operate`) | image flash, block under construction, running checksum, one flag sector | write a piece, end, check, activate, read and reset the result | `OtaPackage`, `AtinyFota` |
| firmware update of the LwM2M agent (`atiny_fota_*.c`, `firmware_update.c`) | state and reported state, result, `wait_ack_flag`, cookie, download record | start a download, block reply, acknowledgement, execute, report the result | `AtinyFota` |
| SOTA | download record in flash | request, block, resume | planned |
| rest of the LwM2M agent, MQTT agents | report lists, connection | report, notify, reconnect | planned / not modelled |

### How they interact

Tasks call the kernel; a kernel call runs its critical section with interrupts
locked (`LOS_IntLock` / `LOS_IntRestore`), then calls `LOS_Schedule`, a second
section that compares `pstRunTask` with the head of the most urgent queue and
sets PendSV pending. PendSV has the lowest exception priority
(`los_dispatch_gcc.S:62`), so the switch happens after all other pending
handlers and before the interrupted task goes on. The tick interrupt runs
`osTickHandler` with interrupts *enabled*: time slice, then `osTaskScan`, which
wakes tasks whose delay or timeout has ended, then possibly `LOS_Schedule`.
Device interrupt handlers may call the non-blocking services (resume, delete,
`LOS_SemPost`, ...). The IPC modules use the task manager through `osTaskWait`
(put the running task on a wait list, perhaps with a timeout), `osTaskWake` and
`osTaskPriModify`; a task that waits learns on its return from the `TIMEOUT`
flag in its own TCB whether it was granted what it waited for.
The tick also runs `osSwtmrScan`, which hands the callbacks of expired software
timers to a queue that the timer task empties. The idle task may stretch the
period of the tick up to the next expiry of either kind of timer; the first
thing the next interrupt does, whichever it is, is to make up for the ticks
that were slept through (`osInterrupt`, `los_hwi.c:140`).

The agents, the AT framework and the VFS use mutexes, semaphores and queues.
A user task of the AT framework holds `trx_mux` from its command to its answer
and waits for `resp_sem`, which the receive task posts; the receive task takes
the same mutex, without waiting, for the commands it sends itself. The LwM2M
agent is one task: it commands the update's manager, whose changes of state are
notified to the server and take effect when that is acknowledged; the blocks of
a download go through the package device into the image flash; two writes of the
flag sector, by the agent and by the package device, hand over to the boot
loader, and the next start reads what it left there.

### What is hard

* A task that waits with a timeout is on two lists at a time, may be suspended
  on top of that, and may be ended by a post, a timeout, a resumption or a
  deletion, in any order, each from a task or an interrupt.
* `LOS_ListDelete` clears the node it unlinks: unlinking a node twice follows a
  NULL pointer. Everything depends on flags and lists agreeing.
* A call leaves its critical section before it calls `LOS_Schedule`, and the
  tick's scan runs with interrupts enabled.
* Grants are hand-overs: a semaphore token, a mutex and a queue slot go straight
  to the waiter without being counted, while its timeout may be about to expire.
* Priorities change while a task is queued (inheritance).
* Both kinds of timers store differences between neighbours; a sleep must not
  pass either's next expiry, and may be ended by two interrupts, one on top of
  the other.
* One mutex of the AT framework is passed between users, who wait for it, and
  the receive task, which takes it recursively and gives it back when a listener
  expires.
* In the firmware update: resets between and during flash writes, two flags in
  one sector, notifications acknowledged late or never, downloads that resume.
* In the layers not modelled yet: stale handles, reference counts.

`PROJECT.json` lists these hazards at their lines, with the properties that
cover them or the reason why none does yet.

### What makes each part correct

* Ready queues: a task is queued exactly when it is ready, once, at the priority
  it has; the bitmap is exact.
* Task manager: a control block is on the one list its status names; a timer is
  armed exactly for a timed wait; no live task is lost; delays end.
* Scheduler: application code is executed by the most urgent ready task; a
  scheduler lock keeps the running task; slices share the processor.
* Mutexes: mutual exclusion as the return codes tell it; a waiter gets the mutex
  or a timeout, not both and not neither; inherited priorities are given back.
* Semaphores: tokens are conserved; return codes tell the truth; nobody waits
  while there is a token; timed waits end.
* Queues: FIFO, no message lost or duplicated. Events: no reader waits for bits
  that are set.
* Timers: each counts down once a tick, slept through or not; no sleep passes an
  expiry; expired callbacks are queued.
* AT: a listener is on the list only under the mutex; an answer belongs to its
  command; every command ends.
* Updates: only a whole image is upgraded from; the manager does not stay busy;
  a result that is reported is true. VFS: no unmount under an open file.

## 2. The models

`LosPriqueue` and `LosTaskBase` define operators that map a *kernel record* `k`
(status, priority, queues, bitmap, wait lists, free and recycle lists, timers)
to the record the C function leaves behind; a critical section is the
composition of the operators in the order of the C calls. `LosTask` is the state
machine: its actions are the API functions and handlers. `LosMux`, `LosSem`,
`LosQueue` and `LosEvent` extend it with the IPC objects; their `TaskStep` is any step of
`LosTask`. `AbsSem` and `AbsQueue` state what a semaphore and a message queue
promise, and `LosSem` and `LosQueue` are checked to implement them: the return of
`LOS_OK` and the token, or the message at its end, come in one step. `LosSortLink`
is the timer wheel by itself, checked to implement `AbsTimers`, which is what
`LosTaskBase` takes the wheel to be. `LosSwtmr` gives the software timers as
operators on a record; both take their list, of nodes that store differences,
from `LosDeltaList`; `LosTickless` puts both under one SysTick counter, with
the idle task's sleep and the interrupts that end it. `OtaPackage` gives the
package device as operators on a record; `AtinyFota` is the update around it.
`AtFrame` stands by itself.

Correspondence (every definition's lines are in `PROJECT.json`, "map"):

| TLA+ | C |
|---|---|
| `k.status[t]`, a set of flags | `usTaskStatus` |
| `k.queue`, `k.bitmap` | `g_pstLosPriorityQueueList`, `uwPriqueueBitMap` |
| `k.pend[o]` | the wait list of IPC object `o` |
| `k.timer`, `k.ticks` | the timer wheel `g_stTskSortLink`: armed tasks in arming order, ticks left |
| `k.free`, `k.recycle` | `g_stLosFreeTask`, `g_stTskRecyleList` |
| `k.fault` | a NULL pointer was followed, or a task queued that is queued already or free; nothing runs after that (`osHwiDefaultHandler` loops) |
| `runTask`, `newTask`, `pendSV`, `taskLock`, `scheduled` | `g_stLosTask`, the PendSV bit, `g_usLosTaskLock`, `g_bTaskScheduled` |
| `slice` | `g_stTaskTimeSlice` |
| `scan` | where the tick interrupt is in `osTaskScan`, and the status it read |
| `pc[t]` | "app": in application code; "enter": in a call of `LosEvent` that has made its checks, before `LOS_IntLock`; "sched", "wait": before the call's `LOS_Schedule`; "check": back in a pend, before it looks at `TIMEOUT` |
| `making[c]` | the task that `c` has made with `LOS_TaskCreateOnly` in the middle of its `LOS_TaskCreate` |
| `mux[m]`, `sem[s]` | `MUX_CB_S`, `SEM_CB_S` |
| `told` of `LosSem` | history: how often `LOS_SemPost` and `LOS_SemPend` have returned `LOS_OK`, modulo 2 |
| `que[q]` | `QUEUE_CB_S`: length (0: unused), ring buffer, head, tail, the two counts |
| `arg[t]` | the arguments on the stack of a task that waits in a queue call |
| `pool[q]`, `given[t]` | the membox used with the queue: `stFreeList`, `uwBlkCnt`, `uwBlkNum`; `puwMsg` |
| `mail`, `lost` of `LosQueue` | history: the blocks the application has; whether a task was deleted before it used what was reserved for it |
| `event[e]`, `call[t]`, `args[t]` | `EVENT_CB_S`; `uwEventMask` and `uwEventMode` in the TCB and the read's argument; the arguments of a call at "enter" |
| `woken` of `LosEvent` | history: whether a write has woken the reader, and whether its bits are still there |
| `cursor`, `slots`, `roll`, `index` of `LosSortLink` | `usCursor`, `pstSortLink`, the two halves of `uwIdxRollNum` |
| `Times(list, rel)`, `FirstLater`, `Linked`, `UnlinkedRel` of `LosDeltaList` | the sums of the differences along a slot of the wheel or `m_pstSwtmrSortList`; the walk to the place of a new node; what linking and unlinking do to the neighbour |
| `w` of `LosTickless` | the `SWTMR_CTRL_S` blocks, `m_pstSwtmrSortList`, `m_pstSwtmrFreeList`, `m_uwSwTmrHandlerQueue` |
| `systick`, `sleepTicks`, `reloadFlag`, `tickIrq` | the SysTick registers and pending bit, `g_uwSleepTicks`, `g_bReloadSysTickFlag`, `g_bTickIrqFlag` |
| `isr`, `uncounted` | the active interrupts and how far each is in `osUpdateKernelTickCount`; history: cycles that no counted tick covers |
| `d` of `AtinyFota` | `g_pack_storage_device` (head, checksum, writer) and the image flash |
| `m`, `report` | `atiny_fota_manager_tag_s` with the notifications under way, and whether one was lost; `report_flag`, `report_result` |
| `outcome`, `report.parted` | history: what became of the last upgrade; whether something has come since after which the report may differ from it |
| `fw`, `req` | `g_fw_update_record`; the block asked for |
| `sector`, `flag` | the flag sector; `g_flag.upgrade_state` |
| `phase` of `AtinyFota` | where the boot loader (`boot`, `copy`, `jump`, `rollback`), the agent's start (`init`, `consume`, `clear`, `drop`) or the two writes that arm the boot loader are |
| `at`, `rid`, `pc` of `AtFrame` | listeners, `trx_mux`, `resp_sem`, `g_data_ind_info.valid_flag`; the receive queue; where each user is |
| `owed`, `own`, `astray` | what the modem still has to send; history: commands woken by their own answer; whether a token went astray |
| `held`, `order`, `base` of `LosMux` | history: what the return codes have told the tasks |

What a step is, and what is abstracted:

* A critical section is one step, and so is a whole device-interrupt handler. A
  call whose code has two sections (`LOS_Schedule`, the return from a pend) has a
  step for each; a task between them is at "sched", "wait" or "check", and every
  interrupt may come there.
* The tick's scan is split where it bites: reading the status and unlinking the
  timer (`ScanUnlink`), changing the status and queueing (`ScanWake`). With
  `NestedIsr` device interrupts may come between the two.
* `LOS_TaskCreate` is two steps, as in the code: `LOS_TaskCreateOnly`, after which
  the task is suspended and its ID is out, and a second section that makes it
  ready without looking. Between taking the control block off the free list and
  that publication (`los_task.c:789` to 821) the code holds no lock; the model
  makes it one step, since the block is on no list and is UNUSED up to line 809,
  so every call on it is refused, and the few lines from there to 821 are those
  in which only a caller with an ID that was not returned to it could touch it. A
  creator that is deleted in between leaks the block, which the model leaves out.
  `LOS_TaskDelay(0)` is `LOS_TaskYield` in the code and in the model.
* The timer wheel is abstracted to remaining ticks; `LosSortLink` justifies this.
  There the scan of a tick is one step (`LosTask` has its interleavings).
* `LOS_EventRead` and `LOS_EventWrite` check that the event is initialised before
  they lock the interrupts (`los_event.c:100`, 183). Called by a task, the checks
  (`EventEnter`) and the section are steps of their own, and `LOS_EventDestory`
  may come between them. A write, and a read that is to wait, then goes to a list
  whose ends are NULL, and from there, by way of address 0, which holds the initial
  stack pointer (`_estack`, the end of RAM in the linker scripts), beyond the RAM:
  a bus fault (`EventFault`). A read that finds its bits takes them. Called by an
  interrupt handler, the two are one step: only another handler could come between.
* An event's control block belongs to the application, which does not initialise
  it again while readers wait (`LOS_EventInit` looks at nothing). A read whose
  wait has ended tests `TIMEOUT` and polls in one step: what an interrupt does in
  between it might as well do before.
* The order of the free lists of mutexes and semaphores is left out: any unused
  control block may be handed out. That of task control blocks is kept.
* A queue slot holds a message or, once read, `NoMsg` (the code leaves the old
  bytes there). The message sizes and the copying are left out. Each queue is
  used with one membox, and any code of the application may free a block that
  the application has. `Complete` is the second half of `osQueueOperate`, which
  a call reaches at once (`QueueOperate`) or after a wait (`QueueReturn`).
* `LosTickless` counts time in cycles, a few to a tick, and serves an interrupt
  within a cycle. Each turn of `osTickHandlerLoop` is a step, so is each part of
  an interrupt before and after it. Tasks call the timers at the first cycle of
  a tick only. The arithmetic of the elapsed cycles is that of words.
* In `OtaPackage` a unit of flash is a package and a place in it, so two packages
  differ everywhere, and a checksum is the sequence of what was hashed. The head
  fits into the first piece. A flash write fails or succeeds as a whole.
* In `AtinyFota` a handler of the agent is one step, except those that write the
  flag sector twice, which have a step per write: power is lost before a step,
  or while it rewrites the sector, which is then erased or, since a page is
  written at a time, has the new boot loader's part only. A write that fails may
  leave the same, or the sector untouched. A notification is fresh
  while it bears the manager's cookie. It is lost (`Unheard`) when nobody observes
  the state, when the observation is of the whole object, whose notifications are
  not confirmed, and when sending fails: the library takes the tag away all the
  same (`observe.c:507`, 904-918). Notifications that are due because time has
  passed (pmax) are left out: they are one more source of an acknowledgement.
  `recover_image` is a binary library, taken to upgrade when told to and to say how
  that went; `bootloader_recover.c` and `board.c` around it copy the image, jump to
  it, and roll back when the jump fails, each a step. An agent that does not start,
  as the sector cannot be read, is "off" until the next reset. The boot loader's
  other task, patches of the hardware that the package writer announces
  (`flag_enable_hwpatch`, `package_writer.c:85`, in a binary library), is left out.
  The comparison of URIs takes a URI and a
  prefix of it for the same (`firmware_update.c:206`); the model's URIs are no
  prefixes of each other.
* In `AtFrame` a section under `cmd_mux` is a step. The receive task has a higher
  priority than its users and blocks on nothing but its queue and `cmd_mux`
  between two messages, so what it does for a message is one step. The modem
  sends what it owes late, in any order, or never; a full queue drops it
  (`at_irq_handler`). The sections at the end of a command (`at_main.c:301-306`)
  are one step (`End`). A message that comes in the middle is dropped, as one the
  modem never sent, or, if it is an indication, remembered, as one that comes before.
  `at_listner_list_del` loops for ever if the list has other listeners but not the
  one to remove (124-131), which the model makes a no-op: `ListenersProtected` keeps
  the code from getting there.
* `OS_TASK_STATUS_EVENT` is set by no code and left out. Calls that are refused
  by their parameter checks change nothing and are not steps.

Restrictions on the application, each a named constant:

* `IsrCalls` never holds "suspend": a suspension from an interrupt while PendSV
  is pending leaves a stale `pstNewTask` (`los_task.c:978`).
* `Misuse` names what the application does although it must not. With "delete
  expired" it deletes a task after its wait timed out and before it has run;
  `LOS_TaskDelete` would unlink its timer again (`los_task.c:1037`). With "use
  created" it resumes or deletes a task between the two sections of the
  `LOS_TaskCreate` that makes it; that would queue the task twice, or a free block
  (851). With "destroy used" it destroys an event that a call is about to use. The
  first two are in no passing run and are excluded where a theorem needs it; the
  third is in run `event`.
* `Races = FALSE` (tickless): no interrupt preempts the tick that ends a sleep.
* `Faults` (update): the faults after which the code is wrong, listed under the
  hazards, are left out of run `fota`. "restart", a repeated download that cannot be
  started, leaves the manager busy. "token", a failing write of the token, leaves the
  boot loader armed while the next download overwrites the image; so does "half"
  together with "active", a write of the flag that fails between its two pages.
  "rewrite" (section 4, *What the proofs changed*) gets a broken image accepted.
  What makes a result be told wrongly is in the model and remembered
  (`report.parted`); of those faults the run leaves out "result", the failing reset
  of the result, for the number of states: `ResultsTrue` covers it.
* `Lifo` (mutexes): several mutexes are released in the reverse order; otherwise
  saved priorities are restored in the wrong order.

## 3. What TLC checks

| run | instance | shows |
|---|---|---|
| `task` | 2 tasks and idle, 2 priorities, slice of 2 ticks, delays of 1 and 2, lock depth 1, all task calls, resume and delete from interrupts | `TypeOK`, `ReadyQueues`, `ListNodes`, `Timers`, `NoFault`, `NoTaskLost`, `HighestRuns`, `LockHolds`; under fairness `DelayEnds`, `SharesCpu` |
| `task_nested` | the same with a device interrupt that may preempt the tick | **violates** `NoTaskLost` (see below) |
| `mux` | 3 tasks of 3 priorities, 2 mutexes (symmetric), timeouts of 1 tick or for ever, suspension and deletion | `MuxTypeOK`, `HolderOwns`, `GrantOrTimeout`, `NoForgottenWaiter`, `PriorityRestored`, also with nested inheritance |
| `mux_inherit` | 3 tasks, 1 mutex | **violates** `OwnerInherits` (see below) |
| `sem` | 2 tasks, 1 semaphore, counting up to 2 or binary, an interrupt that posts, polls and resumes | `NoTokenUntaken`, refinement `TokensConserved` (of `AbsSem`), `ReturnCodesTrue`, `TimedWaitEnds` |
| `queue` | 2 tasks of different priorities, 1 queue of 1 or 2 slots, 2 messages (symmetric), a membox of 2 mail blocks, waits of 1 tick or for ever, task deletion, an interrupt that reads, writes and frees | `ReservationsHold`, `NobodyForgotten`, `DeletedIdle`, `OneOwner`, `MailGranted`, `BoundedFifo`: refinement of `AbsQueue`, and each `LOS_OK` is that of its put or take |
| `event` | 2 tasks of different priorities, 1 event of 2 bits (symmetric) and the error bit, all modes, no wait or waits of 1 tick or for ever, task deletion, destruction also of an event in use, an interrupt that writes and clears | `NoSleepingMatch`, `ReadTold` |
| `tickless` | 2 task timers on a wheel of 2 slots, delays of 1 and 4; 2 software timers with intervals of 1 and 2 and a handler queue of 1; 3 cycles to a tick, sleeps of at most 3 ticks, woken at the start or the end of a tick | `TimersTypeOK`, `NextExpiryExact`, `NeverOversleeps`, `SleepCounted`, refinement `CountsDown` (of `AbsTimers`), `SwtmrCountsDown` |
| `tickless_race` | the same, with a device interrupt that may preempt the tick | **violates** `SleepCounted` (see below) |
| `fota` | 2 packages and 2 URIs (symmetric), packages of a head and 5 units in 2 pieces, blocks of 2 units, at most 2 resets, before every phase or in the middle of each write of the flag sector, failing writes of new units and of the flags but the token and the result, failing block requests and reports, lost notifications, a failing boot loader | `OnlyWholeImages`, `UpdatingArmed`, `ResultTrue`, `BusyEnds` |
| `at` | 2 users, 2 commands, a queue of 2 messages, at most 2 unanswered commands of the receive task | `ListenersProtected`, `OwnAnswer`; under fairness `CommandEnds` |
| `mail_lock` | 2 tasks, 1 mail block, scheduler locks | **violates** `MailGranted` (see below) |

Bounds. Two tasks besides idle are enough for every pairwise interleaving of
calls, a handler being the third party; the proofs cover the rest. Two
priorities distinguish more urgent, equal and less urgent, and idle is a third.
Delays of 1 and 2 ticks give timers that expire together and apart. Three tasks
are needed for mutexes: an owner, a waiter and a task of a priority between
(or a second waiter). A maximum of 2 tokens separates empty, partly full and full. A ring of 1 slot
and one of 2 make head and tail wrap and meet; 2 messages tell a FIFO from any
other order; two mail blocks have an order on the free list, and two tasks run out of them. Two bits tell "any"
from "all". A delay of 4 on a wheel of 2 slots is two full turns of the cursor's
own slot; a queue of one callback overflows when two timers expire together; a
sleep of 3 ticks is shorter than a delay, so the counter's limit matters, and 3
cycles to a tick tell its start, its middle and its end apart. Two pieces make a download resumable, and neither the head nor the software
fits a number of blocks, so pieces begin and end within a block. Two resets are
the one that upgrades and one more, at any point before or after it. Two
commands are two users at once, or one after a timed-out one; two callbacks
make the receive task's mutex nest.
`MAX_LOCK` and `MAX_COUNT` bound nesting depths that the code does not bound
below 65535.
Deadlock is checked in every run of the kernel but `event`: the tick always comes.
In run `event` a destroyed list ends in a fault, after which nothing runs. In runs
`fota` and `at` the server and the modem may stop for good, and so may the
system when the bounds on resets and commands are used up.

Fairness. PendSV is strongly fair: it is delayed by other interrupts, which are
finite in number, and never masked for ever, since every critical section ends.
The tick is weakly fair: the timer interrupt keeps coming and its handler goes
on. A task in the middle of a kernel call goes on whenever it runs
(strong fairness of `Schedule` and `SemReturn`). Nothing is assumed of
application code: a task may compute for ever, and need never post or resume.
In `AtFrame` the users and the receive task go on (they are tasks, and wait for
bounded times only) and listeners expire; the modem owes nothing. `CommandEnds`
assumes that messages keep coming and that indications stop, since otherwise
users do starve: the receive task looks at expired listeners only after a
message (`at_main.c:505`), and takes `trx_mux` again at each indication (236).

Four disagreements with the documentation or the comments, shown by the
violation runs:

1. `los_task.h:644` says a delayed task "is able to be scheduled after it is
   delayed for a specified number of Ticks". `osTaskScan` reads the status
   (`los_task.c:256`), unlinks the timer (263) and tests the bit SUSPEND of the
   value it read (285) with interrupts enabled, at the lowest priority. A
   suspended, delayed task that a device interrupt resumes in between stays
   neither ready nor blocked, for ever. With `NestedIsr = FALSE` (device
   interrupts at the tick's priority) the property holds, and the
   proofs name that assumption.
2. `los_mux.h:236` promises priority inheritance. `LOS_MuxPost` hands the mutex
   to the task that has waited longest (`los_mux.c:317`); the new owner keeps its
   own priority even if a more urgent task still waits.
3. The comment at `los_queue.c:593` says that a task that returns from its wait
   for a mail block without a timeout "already got a available membox".
   `osQueueMailAlloc` waits (581) without testing `g_usLosTaskLock`, as the other
   waiting calls do: with the scheduler locked the task goes on at once, gets
   NULL, and runs on while it is flagged as waiting and is on the wait list. Run
   `queue` has no scheduler locks, and there the property holds.
4. The comment at `los_hw_tick.c:119` says that the pending bit covers the case
   in which the tick has come but was not served. It does not if the tick
   interrupt is active already: when it ends a sleep and a device interrupt
   preempts it before `osUpdateKernelTickCount`, the device's update finds no
   elapsed ticks, since the counter has started anew, and clears
   `g_uwSleepTicks`; the ticks slept through are lost but for one.

Every property of a passing run has a mutant of the code (operators marked
"Mutant" or "A plausible slip" in the modules) that violates it.

## 4. What is proved

Every theorem holds for all values of the constants that the modules' own
assumptions allow (`TaskAssumption`, `LimitAssumption`, `MuxAssumption`, ...):
any number of tasks, priorities, objects, users, packages, any timeouts, slices
and nesting depths. Conditions beyond that are named in the tables.

### Task manager and scheduler (`LosTaskProofs`)

All under `Unnested` (`NestedIsr = FALSE`) and `NoIsrSuspend`:

| theorem | statement |
|---|---|
| `Invariance` | `Spec => []IInv(TRUE)` |
| `TypeCorrect` | `Spec => []TypeOK` |
| `ReadyQueuesExact` | `Spec => []ReadyQueues` |
| `OneListPerTask` | `Spec => []ListNodes` |
| `TimersExact` | `Spec => []Timers` |
| `MostUrgentRuns` | `Spec => []HighestRuns` |
| `NeverFaults` | `Spec => []NoFault`, if also `Misuse = {}` |
| `NoneLost` | `Spec => []NoTaskLost` |
| `LockKeepsTask` | `Spec => LockHolds` |

None of these is inductive alone. Enqueueing is right only if the task is on no
list yet, so `ReadyQueues` needs `ListNodes` and the other way round. Unlinking
is safe only if the node is linked, so `NoFault` needs `ListNodes` and `Timers`.
`HighestRuns` is a statement about the moment after a switch: `Running` adds what
holds while PendSV is pending, or while a task is between two sections of a call,
and `Settled` that the task chosen is the most urgent one. `osPriqueueTop` needs
a non-empty queue: the idle task is always ready (`IdleReady`). `ScanOK`,
`TicksOK` and `SliceOK` say what the tick handler may rely on between its steps.
`LiveOK` is `NoTaskLost` with the middle of a scan: the one task that may then
be neither ready nor blocked is the one whose timer has just been unlinked.

`IInv(e)` is the conjunction, with `Settled` only if `e`. `LOS_MuxPost` lowers its
caller's priority and, when nobody waited, returns without `LOS_Schedule`
(`los_mux.c:329`), so with mutexes the most urgent task need not run, and
`LosMuxProofs` uses `IInv(FALSE)`. Every other conjunct is preserved without
`Settled`, which is why the parameter suffices.

The module first proves what appending, removing and reversing do to membership
and injectivity of lists, and lifts that to the operators of `LosPriqueue` and
`LosTaskBase` (`KernelOK` is preserved by each, and what each does to flags,
timers, wait lists and the choice of `osPriqueueTop`); then it has one lemma per
action and puts them together. For the IPC modules it also proves what any step
of the task manager does to waiting tasks (`WaitersKept`, `TaskStepOK`) and to
priorities (`LivesKept`), what joining and leaving a wait list does
(`BeginsWait`, and `EndsWaits` for any number of tasks woken at a time), and that
who is on a wait list and who is in a pend agree (`WaitsFor`).

### Semaphores (`LosSemProofs`)

Under the same two conditions:

| theorem | statement |
|---|---|
| `SemInvariance` | `SemSpec => []SemInv` |
| `TokensAreTaken` | `SemSpec => []NoTokenUntaken` |
| `SemRefinement` | `SemSpec => TokensConserved`: `LosSem` implements `AbsSem` |
| `ReturnCodes` | `SemSpec => ReturnCodesTrue` |

`SemInv` is `IInv(TRUE)`, the types, `WaitsFor` and `NoTokenUntaken`. The
refinement maps the tokens of `AbsSem` to the count and the set of tasks that
were handed a token they have not reported yet (`Handed`). A V or P of `AbsSem`
flips the history `told` of its call, and so does the step of `LosSem` in which
that call returns `LOS_OK`, and no other: a pend that returned `LOS_OK` without a
token, or a post that added two, would be no step of `AbsSem`. `Handed` changes by
at most one task in a step, except in `LOS_SemDelete`, where the invariant says
that nobody waits. Each step is shown to be a V, a P, a create, a delete, the
loss of a handed token with the task that had it, or a stutter.

### Mutexes (`LosMuxProofs`)

Under the same two conditions, for tasks that nest mutexes and release them in
any order:

| theorem | statement |
|---|---|
| `MuxInvariance` | `MuxSpec => []MuxInv` |
| `MuxTypeCorrect` | `MuxSpec => []MuxTypeOK` |
| `MutualExclusion` | `MuxSpec => []HolderOwns` |
| `GrantExcludesTimeout` | `MuxSpec => []GrantOrTimeout` |
| `WaitersRemembered` | `MuxSpec => []NoForgottenWaiter` |
| `InheritanceLeavesNoTrace` | `MuxSpec => []PriorityRestored`, if also `Lifo`, `NoPriSet` and `NoRebirth` |

`HolderOwns` speaks of what tasks have been told; between a post's hand-over and
the waiter's return nobody has been told anything. `WaitOutcome` closes that
gap: a task in a pend is on the wait list and not the owner, or off it and then
the owner exactly if its TIMEOUT flag is clear, so the wait's end tells the
truth however suspension and resumption delay it. `WaitedHeld` keeps deletion
and the fast path away from a mutex with waiters.

The priority that `LOS_MuxPost` restores is the one its mutex saved when it was
taken. If mutexes are released in the reverse order (`Lifo`), the last one a task
releases is the first it took, and that one was taken at the priority the task was
created with. So `PrioInv` says, beside `MuxInv`, that the first mutex of a
task's order saved the priority of its creation (`FirstSavedBase`), that a task
that owns none has that priority (`FreeAtBase`), and that a live task owns exactly
what it has been told, perhaps with one grant it has not returned from yet
(`HeldExact`), whatever inheritance does in between. The other two conditions name
what the code does not undo: `LOS_TaskPriSet` sets the priority of a task that
owns a mutex without the mutex knowing (`NoPriSet`), and a deleted task leaves its
mutexes to its control block, which `LOS_TaskCreate` uses again for a task that
never took them (`NoRebirth`). Run `mux` has no call that sets priorities or
creates tasks.

### Message queues and mail (`LosQueueProofs`)

Under the same two conditions and `AllocUnlocked`, for queues of every length:

| theorem | statement |
|---|---|
| `QueueInvariance` | `QueueSpec => []QueueInv` |
| `ReservationsAreHeld` | `QueueSpec => []ReservationsHold` |
| `NobodyIsForgotten` | `QueueSpec => []NobodyForgotten` |
| `DeletedWhenIdle` | `QueueSpec => []DeletedIdle` |
| `BlocksHaveOneOwner` | `QueueSpec => []OneOwner` |
| `MailIsGranted` | `QueueSpec => []MailGranted` |
| `QueueRefinement` | `QueueSpec => BoundedFifo`: `LosQueue` implements `AbsQueue` |

`AllocUnlocked` says that an application that waits for mail blocks does not lock
the scheduler. `osQueueMailAlloc` does not test `g_usLosTaskLock`, as the other
calls that wait do, so its caller would go on while it is on the wait list; run
`mail_lock` shows what then happens. Applications without mail may lock.

A woken reader finds its message because of a count: what
`usReadWriteableCnt` of a side allows and what is reserved for tasks that were
woken from that side's wait list are together at most the messages, or the free
slots, and exactly as many until a woken task is deleted (`CountsOK`; the
history variable `lost` remembers such a deletion). For that to carry over a
step, the messages must be counted: `RingsOK` says they lie in one piece from the
head to the tail, so that an operation at either index moves that piece by one
slot. `WaitersOK`, that readers and writers wait only at queues in use whose
count is 0, is what makes a handed-over message a reservation and not a second
count, and makes `LOS_QueueDelete`, which looks at lists and counts only, safe.
`PendCalls` ties the wait lists to the calls and `MailInv` does the same for the
mail blocks as `WaitOutcome` for mutexes.

`LOS_QueueRead` and its like take one section if they can be served at once and
two, with a wake-up in between, if not. The proofs treat both as one step
(`Carries`): the ring by `OperateRing`, the counts by `CarriedCounts`, the waits by
who leaves and who joins them. The refinement maps a queue to the messages from
its head on, and `Carries` to `PutTail`, `PutHead` or `Take`, as its operation says,
at the moment the buffer changes; joining, leaving and waking are stutters.
`BoundedFifo` also says that the step in which a call returns `LOS_OK` is the one
that puts its message or takes the first (`Succeeds`, `Promised`), and that no
other step but the deletion of the queue changes its messages.

### Events (`LosEventProofs`)

Under the same two conditions, for any number of events, bits and readers:

| theorem | statement |
|---|---|
| `EventInvariance` | `EventSpec => []EventInv` |
| `NobodySleepsBesideBits` | `EventSpec => []NoSleepingMatch` |
| `ReadersToldTrue` | `EventSpec => []ReadTold` |

`EventInv` ties the wait lists to the calls (`PendCalls`) and says what the writes
have done to each reader (`ReaderOK`): bits that have woken a reader satisfy it
until somebody takes them, and a reader that is off the list has timed out exactly
if no write has woken it. `NoSleepingMatch` is a part of it, since a read looks at
the bits before it waits and a write wakes whom its bits satisfy. That nobody
waits on a destroyed event needs both looks at the list: `LOS_EventDestory`'s, that
it is empty, and the fault of a reader that comes between its checks and its
section, after which nothing moves. The theorems hold for every `Misuse`.
`LOS_EventWrite` wakes along the wait list, as many readers as match, so one step
moves any number of tasks. Its walk is a recursive function of the place in the
list (`IsWalk`), and what it has done after `i` places is proved by induction on
`i`, as a statement about a set of naturals: the first `i` readers that match are
ready, nobody else has moved (`AfterWakes`). `EndsWaits` turns that into what the
task manager's invariant needs.

### Timers and tickless idle (`LosTicklessProofs`)

For any number of timers of both kinds, any length of the wheel above 1, any
delays and intervals, any number of cycles to a tick:

| theorem | statement | condition |
|---|---|---|
| `WheelInvariance` | `TicklessSpec => []WheelInv` | |
| `TicklessToldRight` | `TicklessSpec => []NextExpiryExact` | |
| `WheelImplementsTimers` | `TicklessSpec => CountsDown`: the wheel implements `AbsTimers` | |
| `SwtmrInvariance` | `TicklessSpec => []SwtmrInv(w)` | |
| `SwtmrTicksRight` | `TicklessSpec => SwtmrCountsDown` | |
| `TimersTypeCorrect` | `TicklessSpec => []TimersTypeOK` | |
| `SleepsCounted` | `TicklessSpec => []SleepCounted` | `~Races` |
| `TimersWakeInTime` | `TicklessSpec => []NeverOversleeps` | `~Races` |

A slot of the wheel and the list of the software timers are the same thing, a
list whose nodes store by how much they are later than the node before. `Deltas`
says it is one: no node twice, differences that are naturals. The lemmas about
it, by induction over the place in the list, say what each operation does to the
*times*, the sums: linking a node gives it its own time and leaves those of the
others (`LinkedTimes`), so does unlinking (`UnlinkedTimes`), cutting the due nodes
off the front takes one from each that stays (`CutTimes`), and taking one from
the first node takes one from all (`HeadTimes`).

`WheelInv` says that each slot is such a list and that exactly the armed timers are
on the slots their indices name. What is left of a timer is computed from the
cursor's distance and the turns, and `ScanTicks` shows, with the arithmetic of the
ring, that a scan takes one tick from every timer and expires those with one left,
in the order in which they were armed. The refinement of `AbsTimers` is that
statement, with those for arming and disarming.

`SwtmrInv` does the same for the software timers, whose control blocks are on the
list their state names. `osSwTmrTimeoutHandle` takes expired timers off the front,
and links the periodic ones again behind them, until the first has ticks to go.
`Midway` is the invariant of that loop: the timers that were due and are still to
be handled are the front of the list with time 0, those handled have been queued,
freed or started again as their mode asks, nobody else has moved. A timer that is
started again is not due, so the loop ends after as many turns as timers were due.

`ClockInv` is an account of the cycles of a sleep: while it lasts, those that have
passed and those to come are those of its ticks; in the interrupt that ends it, the
ticks to be made up for are those that have passed (`ServingOK`, with a case for
each place the interrupt may be at and for the tick and any other interrupt). The
elapsed cycles are a difference of words in the code, and never wrap, because the
longest sleep has fewer than 2^32 cycles (`ElapsedOf`). `~Races` says that no
device interrupt comes while the tick interrupt is pending or active; run
`tickless_race` shows `SleepCounted` violated without it.

### Firmware update (`AtinyFotaProofs`)

| theorem | statement | condition |
|---|---|---|
| `FotaInvariance` | `FotaSpec => []FotaInv` | |
| `ArmedWhenUpdating` | `FotaSpec => []UpdatingArmed` | |
| `ResultsTrue` | `FotaSpec => []ResultTrue` | |
| `BusyStatesEnd` | `FotaSpec => []BusyEnds` | `Answering` |
| `ImagesWhole` | `FotaSpec => []OnlyWholeImages` | `NoRewrite`, `NoArmFault` |

`Answering` (a download that replaces a downloaded image can be started),
`NoRewrite` and `NoArmFault` (neither "token", nor "half" with "active") are the
restrictions of the faults of section 2; with each of the faults they leave out TLC
finds the property violated. The other theorems hold for all faults and crash
points. `FlagTrue` is why the result is true: as long as
there is a token to report to, the boot loader's flag tells of the last upgrade
asked for, because the two writes of the sector keep each other's half. That ends
where the code itself cannot know better, and `report.parted` marks each such
place: power is lost while the new image is copied, when the flag says SUCCEED
already, or between the reading of the result and the clearing of its token; a write
of the sector is torn after the boot loader's upgrade; the verdict, the reset of
the result or the clearing of the token fails. The next upgrade takes the mark away.
`DownloadsEnd` ties the state of the manager to the block asked for, and a busy
manager to an acknowledgement that is to come or was lost (`m.lost`).

`ImagesWhole` holds for every size of piece, block, head and software. A download
is accepted when the checksum of what *came* is that of the package, so the proof
has to say what the checksum knows of the *flash*. `SoundInv` is the invariant:

* `DeviceInv`: the checksum stands no further than the pieces that came (`Follows`).
  What was hashed so far is either `Good`, and then it is what the image holds,
  in flash or in the block under construction, all of one package; or `Bad`,
  with more units than belong there after a gap in the download, and then it
  never becomes the checksum of a package again. `Like` compares a device before
  and after a write: the units that were good stay so.
* `Downloading`, `ImageInv`: which states of the manager offer the image for
  execution, and that it is whole in them unless the result says otherwise.
* `Armed`: the boot loader is told to upgrade only on the way to `UPDATING`, and
  then the image is whole.

The loop of `pack_wr_entire_blocks` writes blocks until one write fails. Since
each block is written at its own place, what it leaves is known without running
it: the first *n* blocks, the block at which it failed erased, and the rest as
before. The model says it in that form, and the proof follows the units through
the three parts of a write (a block begun before, whole blocks, the rest) one
lemma each.

### AT framework (`AtFrameProofs`)

| theorem | statement | condition |
|---|---|---|
| `AtInvariance` | `AtSpec => []AtInv` | |
| `CommandsAlone` | `AtSpec => []CommandAlone` | |
| `ListenersAlwaysProtected` | `AtSpec => []ListenersProtected` | `MemoryFound` |
| `AnswersMatch` | `AtSpec => []OwnAnswer` | |

`AtInv` says who holds `trx_mux` and what is then on the list (`TrxOK`), and that
at most one answer is on its way, as a debt of the modem, a message in the queue
or a token of `resp_sem` (`AnswersOK`). The walk of `at_rm_timeout_nodes` over
the list is a recursive function of it, reasoned about by well-founded
induction. When the receive task finds no memory for a listener it keeps the
mutex it has taken (`at_main.c:254`), so its holds and its listeners no longer
agree; that is the part of `ListenersProtected` that needs `MemoryFound`.
`CommandAlone`, that a user's command has the list to itself, does not.

### What the proofs changed in the models

`NoRequest` of `AtinyFota` was the number of blocks, which is also a block that
can be asked for if a piece is one unit; no run had such pieces. It is -1 now.
The objects of `LosMux`, `LosSem`, `LosQueue` and `LosEvent` are assumed to differ
from `NoTask`, and the mail blocks to be finitely many. The write of `LosEvent`
walks the wait list by a recursive function, where it used a library fold over
it: nothing is known to the prover of what those folds compute. For the same
reason the sums along the timers' lists, the filters and the loop of
`osSwTmrTimeoutHandle` are recursive functions (`LosDeltaList`, `Turned`). The
proofs brought out what the timers' code relies on: a wheel of more than one slot
(`OS_TSK_SORTLINK_LEN` is 32), a largest timeout above 1, finitely many control
blocks, and a longest sleep of more than one tick that has fewer cycles than a
word can hold (the reload register has 24 bits).

The proof of `OnlyWholeImages` failed at first for two reasons that are the
model's. `held`, whether the stored block is yet to be written, was set to what the last
write came to; the code's `offset_flag` is only ever cleared by a write that
succeeds (`package_writer.c:116`), and is so now. And a failing write was
restricted to data that was not in flash. In the code `pack_wr_write_end` writes
the stored block whether it is there already or not. If a second download of a
URI fails behind a block that the first has written, that write may erase the block
and fail; the next download is taken up behind it, the checksum, which is over
what came, fits, and a broken image is accepted. The fault is in the model now
as "rewrite"; run `fota` leaves it out and `ImagesWhole` has it as a hypothesis.
`pack_wr_entire_blocks` was a fold over blocks and is the closed form above.

### Only model-checked

* Liveness (`DelayEnds`, `SharesCpu`, `TimedWaitEnds`, `CommandEnds`): beyond the
  prover. Every safety invariant and every action property without liveness
  that a passing run checks is stated by a theorem.

## 5. Not modelled, and why

* Heaps and slabs: sequential memory-layout code that a unit test reaches better.
* Register saving, the interrupt vector table, the MSP430 and Cortex-M0/M3/M7
  variants of the modelled interface, aligned software timers and the tickless
  variant for `LOSCFG_PLATFORM_HWI == NO`: configured out on the modelled target.
* OS adaption wrappers, log, error codes: no state of their own.
* Formatting and parsing in the modem drivers, and package heads.
* SOTA, the report lists of the LwM2M agent, the VFS: planned.
* Vendored code (Wakaama, Paho, lwIP, mbed TLS, FatFs, SPIFFS, cJSON, a C
  library, CMSIS and the STM32 HAL), demos and board support. They are by far the
  larger part of the repository's lines: of some 550 000 lines counted the
  system's own kernel, OTA, AT framework and agents are a few per cent, so the
  share of all lines that the models stand for stays small whatever is modelled.

## 6. Plan

`Sota` on `OtaPackage`; `AtinyRpt`; `LosVfs`.
