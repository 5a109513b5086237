------------------------------ MODULE MCLosMux ------------------------------
(* Three tasks, each with a priority of its own, and one or two mutexes.   *)
EXTENDS LosMux

OwnPrio == [t \in UserTask |-> {t - 1}]
MuxSymmetry == Permutations(Mux)
=============================================================================
