---------------------------- MODULE MCLosTickless ----------------------------
(* Two task timers on a wheel of two slots and two software timers.        *)
EXTENDS LosTickless

TimerSymmetry == Permutations(Sleeper) \cup Permutations(Swtmr)
=============================================================================
