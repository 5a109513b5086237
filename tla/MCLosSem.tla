------------------------------ MODULE MCLosSem ------------------------------
(* Two tasks, each with a priority of its own, one semaphore of either     *)
(* kind, and an interrupt handler that posts, polls and resumes.           *)
EXTENDS LosSem

OwnPrio == [t \in UserTask |-> {t - 1}]
=============================================================================
