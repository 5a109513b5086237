----------------------------- MODULE LosTickless -----------------------------
(***************************************************************************)
(* Tickless idle (kernel/extended/tickless/los_tickless.c) over the two    *)
(* kinds of timers: the wheel of the task manager and the software timers. *)
(* The idle task stretches the period of the SysTick counter up to the     *)
(* next expiry and sleeps; the interrupt that ends the sleep, the tick or  *)
(* another one, first makes up for the ticks that were slept through       *)
(* (osUpdateKernelTickCount at the top of osInterrupt), then runs its own  *)
(* handler.                                                                *)
(*                                                                         *)
(* Time is counted in cycles of the counter, CPT of them to a tick, here   *)
(* as few as show the cases.                                               *)
(***************************************************************************)
EXTENDS LosSortLink, LosSwtmr

CONSTANTS
  CPT,          \* uwCyclesPerTick
  MAX_SLEEP,    \* uwMaxTicks, the longest period the counter can be given
  WORD,         \* 2^32
  WakeAt,       \* the cycles of a tick in which a device may end a sleep
  Races         \* whether it may do so while the tick interrupt is pending or
                \* being served

ASSUME TicklessAssumption ==
  /\ CPT \in Nat \ {0} /\ MAX_SLEEP \in Nat /\ MAX_SLEEP > 1 /\ WORD \in Nat \ {0}
  /\ MAX_SLEEP * CPT < WORD /\ WakeAt \subseteq 0 .. CPT - 1 /\ Races \in BOOLEAN

VARIABLES
  w,            \* the software timers, see LosSwtmr
  systick,      \* the counter: val cycles to its next interrupt, the period
                \* load that follows, and whether the interrupt is pending
  sleepTicks,   \* g_uwSleepTicks
  reloadFlag,   \* g_bReloadSysTickFlag
  tickIrq,      \* g_bTickIrqFlag
  isr,          \* the active interrupts, the one that runs last: where it is
                \* and how many ticks it still has to make up for
  uncounted     \* history: the cycles, since the last tick before the sleep or
                \* of the tick being served, that no counted tick covers yet

clock == <<systick, sleepTicks, reloadFlag, tickIrq>>
ticklessVars == <<allVars, w, clock, isr, uncounted>>

TicklessInit ==
  /\ WheelInit /\ \E blocks \in SetToSeqs(Swtmr) : w = SwTmrInit(blocks)
  /\ systick = [val |-> CPT, load |-> CPT, pending |-> FALSE]
  /\ sleepTicks = 0 /\ reloadFlag = FALSE /\ tickIrq = FALSE
  /\ isr = <<>> /\ uncounted = 0

Awake == isr = <<>> /\ sleepTicks = 0
Frame == Last(isr)
Goto(at, n) == isr' = [isr EXCEPT ![Len(isr)].at = at, ![Len(isr)].n = n]

\* LOS_SysTickReload starts a new period at once.
LOS_SysTickReload(n) == systick' = [systick EXCEPT !.val = n, !.load = n]

\* LOS_SysTickCurrCycleGet adds a tick's cycles if the interrupt is pending.
LOS_SysTickCurrCycleGet == systick.val + (IF systick.pending THEN CPT ELSE 0)

\* The counter counts down one cycle; it starts anew by itself.  Interrupts are
\* served within a cycle.
Cycle ==
  /\ isr = <<>> /\ ~systick.pending
  /\ systick' = IF systick.val = 1 THEN [systick EXCEPT !.val = systick.load, !.pending = TRUE]
                ELSE [systick EXCEPT !.val = @ - 1]
  /\ uncounted' = IF sleepTicks > 0 THEN uncounted + 1 ELSE 0
  /\ UNCHANGED <<allVars, w, sleepTicks, reloadFlag, tickIrq, isr>>

-----------------------------------------------------------------------------
(* Going to sleep                                                          *)

\* Mutant: the software timers are forgotten.
SleepTicksOfTasks == osTaskNextSwitchTimeGet

osSleepTicksGet == Min({osTaskNextSwitchTimeGet, osSwTmrGetNextTimeout(w)})

\* osTicklessHandler and osTicklessStart, in the idle task after a tick.
osTicklessStart ==
  LET n == IF osSleepTicksGet >= MAX_SLEEP THEN MAX_SLEEP ELSE osSleepTicksGet
  IN /\ Awake /\ tickIrq /\ tickIrq' = FALSE
     /\ IF systick.pending \/ osSleepTicksGet <= 1
        THEN uncounted' = 0 /\ UNCHANGED <<systick, sleepTicks>>
        ELSE /\ LOS_SysTickReload(n * CPT - CPT + LOS_SysTickCurrCycleGet)
             /\ sleepTicks' = n /\ uncounted' = CPT - systick.val
     /\ UNCHANGED <<allVars, w, reloadFlag, isr>>

-----------------------------------------------------------------------------
(* Interrupts                                                              *)

\* The tick interrupt has the lowest priority.
TickInterrupt ==
  /\ isr = <<>> /\ systick.pending
  /\ systick' = [systick EXCEPT !.pending = FALSE]
  /\ isr' = <<[irq |-> "tick", at |-> "entry", n |-> 0]>>
  /\ IF sleepTicks > 0 THEN UNCHANGED uncounted ELSE uncounted' = CPT
  /\ UNCHANGED <<allVars, w, sleepTicks, reloadFlag, tickIrq>>

\* Any other one; what matters here is that it ends a sleep.
DeviceInterrupt ==
  /\ sleepTicks > 0
  /\ isr = <<>> \/ (Races /\ Len(isr) = 1 /\ \A i \in DOMAIN isr : isr[i].irq = "tick")
  /\ systick.pending => Races
  /\ uncounted % CPT \in WakeAt
  /\ isr' = Append(isr, [irq |-> "dev", at |-> "entry", n |-> 0])
  /\ UNCHANGED <<allVars, w, clock, uncounted>>

\* Mutant: the interrupted tick counts as a whole one.
ElapsedRoundedUp(cycles) == (cycles + CPT - 1) \div CPT
ElapsedTicks(cycles) == cycles \div CPT

\* osUpdateKernelTickCount up to its loop.  The arithmetic is that of words.
osUpdateKernelTickCount ==
  /\ isr # <<>> /\ Frame.at = "entry"
  /\ IF sleepTicks <= 1
     THEN Goto("handler", 0) /\ UNCHANGED <<systick, reloadFlag>>
     ELSE LET elapsed == (sleepTicks * CPT - LOS_SysTickCurrCycleGet) % WORD
              left == IF Frame.irq = "tick" THEN 0 ELSE elapsed % CPT
          IN /\ Goto("loop", IF Frame.irq = "tick" THEN sleepTicks - 1 ELSE ElapsedTicks(elapsed))
             /\ LOS_SysTickReload(IF left > 0 THEN left ELSE CPT)
             /\ reloadFlag' = (left > 0)
  /\ UNCHANGED <<allVars, w, sleepTicks, tickIrq, uncounted>>

\* What every tick does for the timers, slept through or not.
TickWork == osTaskScan /\ w' = osSwtmrScan(w) /\ uncounted' = uncounted - CPT

\* osTickHandlerLoop, and what follows it in osUpdateKernelTickCount.
osTickHandlerLoop ==
  /\ isr # <<>> /\ Frame.at = "loop"
  /\ IF Frame.n > 0
     THEN Goto("loop", Frame.n - 1) /\ TickWork /\ UNCHANGED sleepTicks
     ELSE Goto("handler", 0) /\ sleepTicks' = 0 /\ UNCHANGED <<allVars, w, uncounted>>
  /\ UNCHANGED <<systick, reloadFlag, tickIrq>>

\* osTickHandler.  The idle task may sleep after it if tickless mode is on
\* (g_bTicklessFlag), which the application may change at any time.
osTickHandler ==
  /\ isr # <<>> /\ Frame.irq = "tick" /\ Frame.at = "handler"
  /\ IF reloadFlag THEN LOS_SysTickReload(CPT) ELSE UNCHANGED systick
  /\ reloadFlag' = FALSE /\ tickIrq' \in BOOLEAN
  /\ TickWork /\ isr' = Front(isr)
  /\ UNCHANGED sleepTicks

DeviceHandler ==
  /\ isr # <<>> /\ Frame.irq = "dev" /\ Frame.at = "handler"
  /\ isr' = Front(isr)
  /\ UNCHANGED <<allVars, w, clock, uncounted>>

-----------------------------------------------------------------------------
(* Tasks: they run only after an interrupt has ended the sleep             *)

\* Bound: calls are made at the first cycle of a tick only.
CallTime == Awake /\ systick.val = CPT /\ ~systick.pending

TaskTimerCall ==
  /\ CallTime
  /\ \E t \in Sleeper : osTimerListDelete(t) \/ \E n \in Delays : osTaskAdd2TimerList(t, n)
  /\ UNCHANGED <<w, clock, isr, uncounted>>

SwtmrTaskCall ==
  /\ CallTime /\ (SwtmrCall(w, w') \/ osSwTmrTask(w, w'))
  /\ UNCHANGED <<allVars, clock, isr, uncounted>>

TicklessNext ==
  \/ Cycle \/ osTicklessStart
  \/ TickInterrupt \/ DeviceInterrupt
  \/ osUpdateKernelTickCount \/ osTickHandlerLoop \/ osTickHandler \/ DeviceHandler
  \/ TaskTimerCall \/ SwtmrTaskCall

TicklessSpec == TicklessInit /\ [][TicklessNext]_ticklessVars

-----------------------------------------------------------------------------
(* Properties                                                              *)

\* The wheel and the software timers' lists are consistent, and the processor
\* never sleeps with a period that the counter cannot be given.
TimersTypeOK ==
  /\ WheelTypeOK /\ SwtmrListsOK(w)
  /\ sleepTicks \in 0 .. MAX_SLEEP /\ systick.val \in 1 .. systick.load

\* No timer, of a task or of software, becomes due before the sleep ends.
NeverOversleeps ==
  sleepTicks > 0 /\ isr = <<>> =>
    /\ \A t \in ToSet(armed) : uncounted <= TicksLeft(t) * CPT
    /\ \A s \in Swtmr : uncounted <= TicksLeftOf(w, s) * CPT

\* After a sleep as many ticks have been counted as have passed, but for the
\* one whose interrupt is still to come, whatever ended the sleep and when.
SleepCounted ==
  Awake => 0 <= uncounted /\ uncounted < (IF systick.pending THEN 2 * CPT ELSE CPT)

\* A tick, whether counted when it comes or made up for after a sleep, counts
\* down every software timer, queues the callbacks of those that expire and
\* starts the periodic ones again; a call does not disturb the other timers.
SwtmrCountsDown ==
  [][IF cursor' # cursor THEN SwtmrTick(w, w') ELSE w' # w => OnlyOwn(w, w')]_ticklessVars
=============================================================================
