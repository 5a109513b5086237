------------------------------ MODULE AbsQueue ------------------------------
(***************************************************************************)
(* What a message queue of kernel/base/ipc/los_queue.c promises: a bounded *)
(* sequence of messages.  A write adds one at the end or, if the caller    *)
(* says so, at the front; a read takes the first.                          *)
(***************************************************************************)
EXTENDS Naturals, Sequences

CONSTANTS Queue, Msg

VARIABLES
  cap,    \* how many messages each queue may hold; 0 if there is none
  fifo    \* the messages it holds

absVars == <<cap, fifo>>

AbsInit == cap = [q \in Queue |-> 0] /\ fifo = [q \in Queue |-> <<>>]

Create(q) ==
  /\ cap[q] = 0 /\ cap'[q] > 0
  /\ cap' = [cap EXCEPT ![q] = cap'[q]] /\ fifo' = fifo

Delete(q) ==
  /\ cap' = [cap EXCEPT ![q] = 0]
  /\ fifo' = [fifo EXCEPT ![q] = <<>>]

PutTail(q, m) ==
  /\ Len(fifo[q]) < cap[q] /\ cap' = cap
  /\ fifo' = [fifo EXCEPT ![q] = Append(@, m)]

PutHead(q, m) ==
  /\ Len(fifo[q]) < cap[q] /\ cap' = cap
  /\ fifo' = [fifo EXCEPT ![q] = <<m>> \o @]

Take(q) ==
  /\ fifo[q] # <<>> /\ cap' = cap
  /\ fifo' = [fifo EXCEPT ![q] = Tail(@)]

AbsNext ==
  \E q \in Queue :
    \/ Create(q) \/ Delete(q) \/ Take(q)
    \/ \E m \in Msg : PutTail(q, m) \/ PutHead(q, m)

AbsSpec == AbsInit /\ [][AbsNext]_absVars
=============================================================================
