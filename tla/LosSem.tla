------------------------------- MODULE LosSem -------------------------------
(***************************************************************************)
(* Semaphores (kernel/base/ipc/los_sem.c), used by tasks and interrupt     *)
(* handlers together with the task calls of module LosTask.  PendObj is    *)
(* the set of semaphore control blocks: each is its own wait list.         *)
(***************************************************************************)
EXTENDS LosTask

CONSTANTS
  OS_SEM_COUNTING_MAX_COUNT,
  Timeouts,     \* arguments uwTimeout of LOS_SemPend that are tried
  SemCalls,     \* the semaphore calls the application makes from tasks
  IsrSemCalls   \* and from interrupt handlers

ASSUME SemAssumption ==
  /\ OS_SEM_COUNTING_MAX_COUNT \in Nat \ {0} /\ NoTask \notin PendObj
  /\ Timeouts \subseteq (Nat \ {0}) \cup {WAIT_FOREVER}

Sem == PendObj
OS_SEM_BINARY_MAX_COUNT == 1

VARIABLES
  sem,   \* usSemStat, usSemCount and usMaxSemCount of each semaphore
  arg,   \* uwSemHandle of the call of LOS_SemPend that a task waits in
  told   \* history: how often LOS_SemPost and LOS_SemPend of each semaphore
         \* have returned LOS_OK, modulo 2

allVars == <<vars, sem, arg, told>>

SemInit ==
  /\ Init
  /\ sem = [s \in Sem |-> [used |-> FALSE, count |-> 0, max |-> 1]]
  /\ arg = [t \in TaskID |-> NoTask]
  /\ told = [s \in Sem |-> [call \in {"post", "pend"} |-> 0]]

\* In this step the call of s returns LOS_OK.
Returns(s, call) == told' = [told EXCEPT ![s][call] = 1 - @]

MaySem(c, name) ==
  \/ c \in UserTask /\ InApp(c) /\ name \in SemCalls
  \/ c = Isr /\ IsrRuns /\ name \in IsrSemCalls

LOS_SemCreate(c, s, n, max) ==
  /\ MaySem(c, "create") \/ (c = Boot /\ BootRuns)
  /\ ~sem[s].used /\ n <= max
  /\ sem' = [sem EXCEPT ![s] = [used |-> TRUE, count |-> n, max |-> max]]
  /\ UNCHANGED <<vars, arg, told>>

\* Mutant: a semaphore that tasks wait for can be deleted.
SemDeletePended(c, s) ==
  /\ MaySem(c, "delete") /\ sem[s].used
  /\ sem' = [sem EXCEPT ![s].used = FALSE]
  /\ UNCHANGED <<vars, arg, told>>

LOS_SemDelete(c, s) ==
  /\ MaySem(c, "delete") /\ sem[s].used /\ k.pend[s] = <<>>
  /\ sem' = [sem EXCEPT ![s].used = FALSE]
  /\ UNCHANGED <<vars, arg, told>>

\* LOS_SemPend finds a token.
SemTake(c, s) ==
  /\ MaySem(c, "pend") /\ sem[s].used /\ sem[s].count > 0
  /\ sem' = [sem EXCEPT ![s].count = @ - 1]
  /\ Returns(s, "pend")
  /\ UNCHANGED <<vars, arg>>

\* LOS_SemPend finds none: only a task may wait, and only while the scheduler
\* is unlocked.
SemWait(c, s, timeout) ==
  /\ c # Isr /\ MaySem(c, "pend") /\ sem[s].used /\ sem[s].count = 0
  /\ taskLock = 0
  /\ k' = osTaskWait(k, c, s, "PEND", timeout)
  /\ pc' = [pc EXCEPT ![c] = "wait"]
  /\ arg' = [arg EXCEPT ![c] = s]
  /\ UNCHANGED <<sched, slice, scan, sem, told>>

\* LOS_SemPend, after its LOS_Schedule returns.
SemReturn(c) ==
  /\ TaskRuns(c) /\ pc[c] = "check"
  /\ pc' = [pc EXCEPT ![c] = "app"]
  /\ arg' = [arg EXCEPT ![c] = NoTask]
  /\ IF "TIMEOUT" \in k.status[c]
     THEN k' = SetFlags(k, c, {"TIMEOUT"}, {}) /\ told' = told
     ELSE k' = k /\ Returns(arg[c], "pend")
  /\ UNCHANGED <<sched, slice, scan, sem>>

LOS_SemPost(c, s) ==
  /\ MaySem(c, "post") /\ sem[s].used /\ sem[s].count # sem[s].max
  /\ IF k.pend[s] # <<>>
     THEN /\ k' = osTaskWake(k, Head(k.pend[s]), "PEND")
          /\ Then_LOS_Schedule(c)
          /\ UNCHANGED <<sem, runTask, taskLock, scheduled, making, slice, scan>>
     ELSE /\ sem' = [sem EXCEPT ![s].count = @ + 1]
          /\ UNCHANGED vars
  /\ Returns(s, "post") /\ arg' = arg

\* The task manager's steps; a deleted task is in no call any more.
TaskStep ==
  /\ Next
  /\ arg' = [t \in TaskID |-> IF "UNUSED" \in k'.status[t] THEN NoTask ELSE arg[t]]
  /\ UNCHANGED <<sem, told>>

SemCall(c) ==
  \E s \in Sem :
    \/ \E max \in {OS_SEM_BINARY_MAX_COUNT, OS_SEM_COUNTING_MAX_COUNT} :
         \E n \in 0 .. max : LOS_SemCreate(c, s, n, max)
    \/ LOS_SemDelete(c, s) \/ SemTake(c, s) \/ LOS_SemPost(c, s)
    \/ \E timeout \in Timeouts : SemWait(c, s, timeout)

SemNext ==
  \/ TaskStep
  \/ \E c \in Caller \cup {Boot} : SemCall(c)
  \/ \E c \in UserTask : SemReturn(c)

SemFairness ==
  /\ SF_allVars(PendSV_Handler /\ TaskStep) /\ WF_allVars(Tick /\ TaskStep)
  /\ \A t \in UserTask : SF_allVars(Schedule(t) /\ TaskStep) /\ SF_allVars(SemReturn(t))

SemSpec == SemInit /\ [][SemNext]_allVars /\ SemFairness

-----------------------------------------------------------------------------
(* Properties                                                              *)

\* A token and a waiter never meet: while tasks wait there is no token to take
\* (so the check of the maximum in LOS_SemPost never refuses a post that a
\* waiter could use), and nobody waits at a semaphore that was deleted.
NoTokenUntaken ==
  \A s \in Sem :
    /\ k.pend[s] # <<>> => sem[s].used /\ sem[s].count = 0
    /\ sem[s].count <= sem[s].max

\* t has been handed a token of s that its LOS_SemPend has yet to return.
Handed(t, s) ==
  /\ arg[t] = s /\ ~IsOn(k.pend[s], t)
  /\ "TIMEOUT" \notin k.status[t]

\* Refinement: posts and successful pends account for every token.  A token is
\* added exactly when a LOS_SemPost returns LOS_OK and used up exactly when a
\* LOS_SemPend does (variable told), or lost with a task that is deleted; a
\* token that a waiter is handed counts until its pend returns.
Abs == INSTANCE AbsSem WITH
  MaxCount <- OS_SEM_COUNTING_MAX_COUNT, Task <- TaskID,
  alive <- {t \in TaskID : "UNUSED" \notin k.status[t]},
  open <- {s \in Sem : sem[s].used},
  tokens <- [s \in Sem |->
              (IF sem[s].used THEN sem[s].count ELSE 0)
                + Cardinality({t \in UserTask : Handed(t, s)})]

TokensConserved == Abs!AbsSpec

\* The return codes tell the truth, although a pend that has waited reads its
\* own in another step than the post that ends its wait: a post that succeeds
\* adds one token, a pend uses up one exactly if it finds a token or returns from
\* its wait without TIMEOUT, and a token is lost only with the task that was
\* handed it.
Succeeds(c, s) ==
  \/ SemTake(c, s)
  \/ SemReturn(c) /\ arg[c] = s /\ "TIMEOUT" \notin k.status[c]

ReturnCodesTrue ==
  [][\A s \in Sem :
       /\ (\E c \in Caller : LOS_SemPost(c, s)) => Abs!V(s)
       /\ (\E c \in Caller : Succeeds(c, s)) <=> Abs!P(s)
       /\ Abs!Lose(s) =>
            \E t \in UserTask : Handed(t, s) /\ "UNUSED" \in k'.status[t]]_allVars

\* A wait with a timeout ends, in a grant, a timeout or the task's deletion,
\* even if nobody posts and even if the task is suspended.
TimedWaitEnds ==
  \A t \in UserTask :
    (\E s \in Sem : IsOn(k.pend[s], t)) /\ "TIMEOUT" \in k.status[t] ~>
      "PEND" \notin k.status[t]
=============================================================================
