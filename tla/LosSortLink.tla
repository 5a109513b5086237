----------------------------- MODULE LosSortLink -----------------------------
(***************************************************************************)
(* The timer wheel of the task manager (g_stTskSortLink in                 *)
(* kernel/base/core/los_task.c).  A timer of n ticks goes to the slot that *)
(* the cursor reaches in n ticks, with the number of full turns it has to  *)
(* stay there.  The timers of a slot are sorted, and each keeps only the   *)
(* turns by which it is later than the one before it, so that a tick has   *)
(* to look at the first one only.                                          *)
(*                                                                         *)
(* uwIdxRollNum packs the slot (5 bits) and the turns (27 bits, enough for *)
(* every 32-bit number of ticks) into a word; here they are two fields,    *)
(* which are 0 while the timer is not armed: nobody reads them then.       *)
(***************************************************************************)
EXTENDS LosDeltaList

CONSTANTS
  Sleeper,   \* the tasks
  LEN,       \* OS_TSK_SORTLINK_LEN
  Delays     \* arguments uwTimeout that are tried

ASSUME WheelAssumption == LEN \in Nat /\ LEN > 1 /\ Delays \subseteq Nat \ {0}

VARIABLES
  cursor,    \* usCursor
  slots,     \* pstSortLink
  roll,      \* UWROLLNUM of each task
  index,     \* UWSORTINDEX of each task
  armed      \* history: the armed timers, in the order of their arming

wheel == <<cursor, slots, roll, index>>
allVars == <<wheel, armed>>

WheelInit ==
  /\ cursor = 0 /\ slots = [i \in 0 .. LEN - 1 |-> <<>>]
  /\ roll = [t \in Sleeper |-> 0] /\ index = [t \in Sleeper |-> 0]
  /\ armed = <<>>

\* The turns left of an armed timer.
Turns(t) == TimeOf(slots[index[t]], roll, t)

\* A number of ticks that is a multiple of LEN leads to the cursor's own slot.
InitialTurns(n) == IF n % LEN = 0 THEN n \div LEN - 1 ELSE n \div LEN

\* osTaskAdd2TimerList: after the timers of the slot that are not later.
osTaskAdd2TimerList(t, n) ==
  LET i == (n + cursor) % LEN
      turns == InitialTurns(n)
      p == FirstLater(slots[i], roll, turns)
  IN /\ ~Contains(armed, t)
     /\ slots' = [slots EXCEPT ![i] = Linked(@, t, p)]
     /\ roll' = LinkedRel(slots[i], roll, t, turns, p)
     /\ index' = [index EXCEPT ![t] = i]
     /\ armed' = Append(armed, t) /\ UNCHANGED cursor

\* Mutant: the next timer is not told.
TimerListDeleteOnly(t) ==
  /\ Contains(armed, t)
  /\ slots' = [slots EXCEPT ![index[t]] = RemoveFirst(@, t)]
  /\ roll' = [roll EXCEPT ![t] = 0] /\ index' = [index EXCEPT ![t] = 0]
  /\ armed' = RemoveFirst(armed, t) /\ UNCHANGED cursor

\* osTimerListDelete: the next timer of the slot takes over its turns.
osTimerListDelete(t) ==
  LET slot == slots[index[t]] IN
  /\ Contains(armed, t)
  /\ slots' = [slots EXCEPT ![index[t]] = RemoveFirst(@, t)]
  /\ roll' = UnlinkedRel(slot, roll, t)
  /\ index' = [index EXCEPT ![t] = 0]
  /\ armed' = RemoveFirst(armed, t) /\ UNCHANGED cursor

\* osTaskScan: the timers of the next slot that have no turn left expire, and
\* the first of the others loses one.
Slot == (cursor + 1) % LEN
Expiring == SubSeq(slots[Slot], 1, FirstLater(slots[Slot], roll, 0) - 1)

osTaskScan ==
  LET slot == slots[Slot]
      p == FirstLater(slot, roll, 0)
  IN /\ cursor' = Slot
     /\ slots' = [slots EXCEPT ![Slot] = SubSeq(slot, p, Len(slot))]
     /\ roll' = IF p > Len(slot) THEN roll ELSE [roll EXCEPT ![slot[p]] = @ - 1]
     /\ index' = [u \in Sleeper |-> IF Contains(Expiring, u) THEN 0 ELSE index[u]]
     /\ armed' = Kept(armed, Sleeper \ ToSet(Expiring))

\* osTaskNextSwitchTimeGet: for tickless idle, the ticks until a timer expires,
\* 0 if there is none.  The cursor's own slot is a full turn away.
\* Mutant: it is not.
SlotTicksNear(i) == (i + LEN - cursor) % LEN
SlotTicks(i) == IF i = cursor THEN LEN ELSE (i + LEN - cursor) % LEN

osTaskNextSwitchTimeGet ==
  LET next == {SlotTicks(i) + roll[slots[i][1]] * LEN :
                 i \in {j \in DOMAIN slots : slots[j] # <<>>}}
  IN IF next = {} THEN 0 ELSE Min(next)

-----------------------------------------------------------------------------
(* Properties                                                              *)

\* Every timer is in one slot, the one its index names.
WheelTypeOK ==
  /\ cursor \in 0 .. LEN - 1 /\ index \in [Sleeper -> 0 .. LEN - 1]
  /\ roll \in [Sleeper -> Nat]
  /\ \A i \in 0 .. LEN - 1, t \in Sleeper :
       Contains(slots[i], t) <=> Contains(armed, t) /\ index[t] = i
  /\ \A i \in 0 .. LEN - 1 : IsInjective(slots[i])

\* The ticks until a timer expires.
TicksLeft(t) == ((index[t] + LEN - cursor - 1) % LEN) + 1 + Turns(t) * LEN

AbsTicks == [t \in Sleeper |-> IF Contains(armed, t) THEN TicksLeft(t) ELSE 0]

\* Refinement: the wheel counts down the ticks of each timer, whatever timers
\* are armed and disarmed beside it in its slot.
Abs == INSTANCE AbsTimers WITH timer <- armed, ticks <- AbsTicks

CountsDown ==
  /\ Abs!AbsSpec
  /\ [][\A t \in Sleeper, n \in Delays :
         osTaskAdd2TimerList(t, n) => Abs!Arm(t, n)]_allVars

\* The next tick ends the timers that have one tick left, in the order of
\* their arming, and tickless idle is told the ticks until the first timer
\* expires, so that it does not sleep through it.
NextExpiryExact ==
  /\ Expiring = Kept(armed, {t \in Sleeper : TicksLeft(t) = 1})
  /\ osTaskNextSwitchTimeGet =
       IF armed = <<>> THEN 0 ELSE Min({TicksLeft(t) : t \in ToSet(armed)})
=============================================================================
