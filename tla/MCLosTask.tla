----------------------------- MODULE MCLosTask -----------------------------
(* Two tasks and idle, every task call, and resumption from an interrupt.  *)
EXTENDS LosTask

AllCalls == {"create", "createonly", "delete", "suspend", "resume", "delay",
             "priset", "yield", "lock"}
TwoPrios == [t \in UserTask |-> {0, 1}]
=============================================================================
