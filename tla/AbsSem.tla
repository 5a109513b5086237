------------------------------- MODULE AbsSem -------------------------------
(***************************************************************************)
(* What a semaphore of kernel/base/ipc/los_sem.c promises: tokens.  Every  *)
(* LOS_SemPost that returns LOS_OK adds one, every LOS_SemPend that        *)
(* returns LOS_OK uses up one, and nothing else does, except that a        *)
(* semaphore takes its tokens with it when it is deleted, and a task the   *)
(* token it was handed when it is deleted before it runs.                  *)
(*                                                                         *)
(* What the calls return is part of the state, as a history: a token comes *)
(* or goes in the very step that makes its call return LOS_OK.             *)
(***************************************************************************)
EXTENDS Naturals

CONSTANTS Sem, MaxCount, Task

VARIABLES
  open,    \* the semaphores that exist
  tokens,  \* of each semaphore
  told,    \* how often "post" and "pend" have returned LOS_OK, modulo 2
  alive    \* the tasks that exist; they come and go as they like

absVars == <<open, tokens, told, alive>>

AbsInit ==
  /\ open = {} /\ tokens = [s \in Sem |-> 0] /\ alive \in SUBSET Task
  /\ told = [s \in Sem |-> [call \in {"post", "pend"} |-> 0]]

Returns(s, call) == told' = [told EXCEPT ![s][call] = 1 - @]

Create(s, n) ==
  /\ s \notin open /\ open' = open \cup {s}
  /\ tokens' = [tokens EXCEPT ![s] = @ + n] /\ told' = told

Delete(s) ==
  /\ s \in open /\ open' = open \ {s}
  /\ \E n \in 0 .. tokens[s] : tokens' = [tokens EXCEPT ![s] = n]
  /\ told' = told

V(s) ==
  /\ s \in open /\ open' = open
  /\ tokens' = [tokens EXCEPT ![s] = @ + 1] /\ Returns(s, "post")

\* Also after the semaphore is deleted: the caller was handed the token before.
P(s) ==
  /\ tokens[s] > 0 /\ open' = open
  /\ tokens' = [tokens EXCEPT ![s] = @ - 1] /\ Returns(s, "pend")

\* A task is deleted that was handed a token.
Lose(s) ==
  /\ alive \ alive' # {} /\ tokens[s] > 0 /\ open' = open
  /\ tokens' = [tokens EXCEPT ![s] = @ - 1] /\ told' = told

AbsNext ==
  /\ alive' \in SUBSET Task
  /\ \/ \E s \in Sem :
          \/ \E n \in 0 .. MaxCount : Create(s, n)
          \/ Delete(s) \/ V(s) \/ P(s) \/ Lose(s)
     \/ UNCHANGED <<open, tokens, told>>

AbsSpec == AbsInit /\ [][AbsNext]_absVars
=============================================================================
