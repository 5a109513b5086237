----------------------------- MODULE MCLosQueue -----------------------------
(* Two tasks, each with a priority of its own, one queue of one or two     *)
(* slots, and an interrupt handler that reads and writes without waiting.  *)
EXTENDS LosQueue

OwnPrio == [t \in UserTask |-> {t - 1}]
WaitLists == Queue \X (Side \cup {"mem"})
MsgSymmetry == Permutations(Msg)
=============================================================================
