----------------------------- MODULE MCLosEvent -----------------------------
(* Two tasks with a priority each and an interrupt handler that writes and  *)
(* clears; one event of two bits.                                          *)
EXTENDS LosEvent

OwnPrio == [t \in UserTask |-> {t - 1}]
BitSymmetry == Permutations(Bit)
=============================================================================
