------------------------------ MODULE AbsTimers ------------------------------
(***************************************************************************)
(* What module LosTaskBase takes the timer wheel of                        *)
(* kernel/base/core/los_task.c to be: a list of the tasks with an armed    *)
(* timer in the order in which the timers were armed, and the ticks each   *)
(* has left.                                                               *)
(***************************************************************************)
EXTENDS LosDeltaList

CONSTANT Sleeper

VARIABLES
  timer,   \* the tasks with an armed timer
  ticks    \* the ticks each has left

absVars == <<timer, ticks>>

AbsInit == timer = <<>> /\ ticks = [t \in Sleeper |-> 0]

Arm(t, n) ==
  /\ ~Contains(timer, t) /\ n > 0
  /\ timer' = Append(timer, t) /\ ticks' = [ticks EXCEPT ![t] = n]

Disarm(t) ==
  /\ Contains(timer, t)
  /\ timer' = RemoveFirst(timer, t) /\ ticks' = [ticks EXCEPT ![t] = 0]

Tick ==
  /\ timer' = Kept(timer, {t \in Sleeper : ticks[t] > 1})
  /\ ticks' = [t \in Sleeper |-> IF ticks[t] > 0 THEN ticks[t] - 1 ELSE 0]

AbsNext == Tick \/ \E t \in Sleeper : Arm(t, ticks'[t]) \/ Disarm(t)

AbsSpec == AbsInit /\ [][AbsNext]_absVars
=============================================================================
