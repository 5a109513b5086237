----------------------------- MODULE LosSemProofs -----------------------------
(***************************************************************************)
(* Theorems about module LosSem, for every number of tasks, priorities and *)
(* semaphores, every maximum count and every set of timeouts and calls,    *)
(* under the two conditions of module LosTaskProofs: no handler preempts   *)
(* the tick interrupt, and none suspends a task.                           *)
(***************************************************************************)
EXTENDS LosSem, LosTaskProofs, FiniteSetTheorems

-----------------------------------------------------------------------------
(* The inductive invariant                                                 *)

\* The control blocks of the semaphores, and the semaphore each call is about.
SemTypeOK ==
  /\ sem \in [Sem -> [used : BOOLEAN, count : Nat, max : Nat]]
  /\ arg \in [TaskID -> Sem \cup {NoTask}]

\* Who is on a wait list is in a call for that semaphore, and the other way round.
PendCalls == WaitsFor("PEND", k, pc, arg)

\* The inductive invariant.
SemInv == IInv(TRUE) /\ SemTypeOK /\ PendCalls /\ NoTokenUntaken

\* What the constants give the proofs.
LEMMA SemFacts ==
  /\ NoTask \notin Sem /\ OS_SEM_COUNTING_MAX_COUNT \in Nat \ {0}
  /\ Timeouts \subseteq (Nat \ {0}) \cup {WAIT_FOREVER} /\ "PEND" \in Waiting
BY SemAssumption DEF Sem, Waiting

\* Nothing has been called before LOS_Start.
LEMMA SemInitInv ==
  ASSUME SemInit
  PROVE  SemInv
<1>1. IInv(TRUE) /\ OneList(k)
  BY InitInv DEF SemInit, IInv, ListNodes
<1>2. SemTypeOK
  BY DEF SemInit, SemTypeOK
<1>3. /\ \A t \in TaskID : pc[t] = "app" /\ k.status[t] \subseteq {"READY", "UNUSED"}
      /\ \A s \in Sem : k.pend[s] = <<>>
  BY DEF SemInit, Init, KernelInit, Sem
<1>4. \A t \in TaskID, s \in Sem : ~IsOn(k.pend[s], t)
  BY <1>3, EmptyList
<1>5. PendCalls
  BY <1>3, <1>4 DEF PendCalls, WaitsFor, Waiting, SemInit, Sem
<1>6. NoTokenUntaken
  BY <1>3 DEF NoTokenUntaken, SemInit
<1> QED BY <1>1, <1>2, <1>5, <1>6 DEF SemInv

-----------------------------------------------------------------------------
(* The steps                                                               *)

\* A step of the task manager ends waits, and begins none.
LEMMA TaskStepInv ==
  ASSUME SemInv, Unnested, NoIsrSuspend, TaskStep
  PROVE  /\ SemInv'
         /\ \E u \in TaskID :
              /\ \A t \in TaskID \ {u} : Untouched(t)
              /\ Untouched(u) \/ Created(u) \/ Deleted(u) \/ TimedOut(u)
         /\ \A t \in TaskID : Untouched(t) => arg'[t] = arg[t]
<1>1. IInv(TRUE)' /\ WaitersKept
  BY NextInv DEF SemInv, TaskStep
<1>2. PICK u \in TaskID : /\ \A t \in TaskID \ {u} : Untouched(t)
                          /\ \/ Untouched(u)
                             \/ /\ Created(u) \/ Deleted(u) \/ TimedOut(u)
                                /\ \A o \in PendObj : ~IsOn(k'.pend[o], u)
  BY <1>1, TaskStepOK
<1>3. /\ arg' = [t \in TaskID |-> IF "UNUSED" \in k'.status[t] THEN NoTask ELSE arg[t]]
      /\ sem' = sem /\ SemTypeOK /\ PendCalls /\ NoTokenUntaken
  BY DEF TaskStep, SemInv
<1>4. SemTypeOK'
  BY <1>3 DEF SemTypeOK
<1>5. NoTokenUntaken'
  <2>1. \A s \in Sem : k'.pend[s] # <<>> => k.pend[s] # <<>>
    BY <1>1, TaskStepOK DEF Sem
  <2> QED BY <1>3, <2>1 DEF NoTokenUntaken
<1>6. PendCalls' /\ \A t \in TaskID : Untouched(t) => arg'[t] = arg[t]
  <2>1. /\ IInv(TRUE) /\ IInv(TRUE)' /\ WaitersKept /\ "PEND" \in Waiting /\ WaitsFor("PEND", k, pc, arg)
        /\ CallsLeft(arg, arg')
    BY <1>1, <1>3, SemFacts DEF PendCalls, CallsLeft, SemInv
  <2>2. WaitsFor("PEND", k', pc', arg') /\ \A t \in TaskID : Untouched(t) => arg'[t] = arg[t]
    BY <2>1, TaskStepCalls
  <2> QED BY <2>2 DEF PendCalls
<1> QED BY <1>1, <1>2, <1>3, <1>4, <1>5, <1>6 DEF SemInv

\* Calls that change nothing but the semaphore.
LEMMA CountInv ==
  ASSUME SemInv, UNCHANGED <<vars, arg>>, SemTypeOK', NoTokenUntaken'
  PROVE  SemInv'
<1>1. IInv(TRUE)' /\ k' = k /\ pc' = pc /\ arg' = arg
  BY StutterOK DEF SemInv, vars
<1>2. PendCalls'
  BY <1>1 DEF SemInv, PendCalls
<1> QED BY <1>1, <1>2 DEF SemInv

\* LOS_SemCreate makes a semaphore that nobody waits for.
LEMMA CreateInv ==
  ASSUME SemInv, NEW c, NEW s \in Sem, NEW max \in {OS_SEM_BINARY_MAX_COUNT, OS_SEM_COUNTING_MAX_COUNT},
         NEW n \in 0 .. max, LOS_SemCreate(c, s, n, max)
  PROVE  SemInv'
<1>1. /\ ~sem[s].used /\ n <= max /\ UNCHANGED <<vars, arg>> /\ k' = k
      /\ sem' = [sem EXCEPT ![s] = [used |-> TRUE, count |-> n, max |-> max]]
      /\ max \in Nat /\ n \in Nat /\ SemTypeOK /\ NoTokenUntaken
  BY SemFacts DEF LOS_SemCreate, vars, SemInv, OS_SEM_BINARY_MAX_COUNT
<1>2. SemTypeOK'
  BY <1>1 DEF SemTypeOK
<1>3. k.pend[s] = <<>>
  BY <1>1 DEF NoTokenUntaken
<1>4. NoTokenUntaken'
  BY <1>1, <1>3 DEF NoTokenUntaken, SemTypeOK
<1> QED BY <1>1, <1>2, <1>4, CountInv

\* LOS_SemDelete and a pend that finds a token touch the control block only.
LEMMA DeleteTakeInv ==
  ASSUME SemInv, NEW c, NEW s \in Sem, LOS_SemDelete(c, s) \/ SemTake(c, s)
  PROVE  SemInv'
<1>1. /\ UNCHANGED <<vars, arg>> /\ k' = k /\ SemTypeOK /\ NoTokenUntaken
      /\ sem[s] \in [used : BOOLEAN, count : Nat, max : Nat]
  BY DEF LOS_SemDelete, SemTake, vars, SemInv, SemTypeOK
<1>2. CASE LOS_SemDelete(c, s)
  <2>1. sem' = [sem EXCEPT ![s].used = FALSE] /\ k.pend[s] = <<>>
    BY <1>2 DEF LOS_SemDelete
  <2>2. SemTypeOK'
    BY <1>1, <2>1 DEF SemTypeOK
  <2>3. NoTokenUntaken'
    BY <1>1, <2>1 DEF NoTokenUntaken, SemTypeOK
  <2> QED BY <1>1, <2>2, <2>3, CountInv
<1>3. CASE SemTake(c, s)
  <2>1. sem' = [sem EXCEPT ![s].count = @ - 1] /\ sem[s].count > 0 /\ sem[s].count \in Nat
    BY <1>1, <1>3 DEF SemTake
  <2>2. SemTypeOK'
    BY <1>1, <2>1 DEF SemTypeOK
  <2>3. k.pend[s] = <<>>
    BY <1>1, <2>1 DEF NoTokenUntaken
  <2>4. NoTokenUntaken'
    BY <1>1, <2>1, <2>3 DEF NoTokenUntaken, SemTypeOK
  <2> QED BY <1>1, <2>2, <2>4, CountInv
<1> QED BY <1>2, <1>3

\* LOS_SemPend puts the caller on the wait list of a semaphore without tokens.
LEMMA WaitInv ==
  ASSUME SemInv, NEW c \in Caller, NEW s \in Sem, NEW n \in Timeouts, SemWait(c, s, n)
  PROVE  /\ SemInv' /\ \A t \in TaskID \ {c} : Untouched(t)
         /\ arg[c] = NoTask /\ IsOn(k'.pend[s], c)
<1>1. /\ c \in UserTask /\ InApp(c) /\ taskLock = 0 /\ sem[s].used /\ sem[s].count = 0
      /\ k' = osTaskWait(k, c, s, "PEND", n) /\ pc' = [pc EXCEPT ![c] = "wait"]
      /\ UNCHANGED <<sched, slice, scan>> /\ sem' = sem /\ arg' = [arg EXCEPT ![c] = s]
  BY DEF SemWait, MaySem
<1>2. /\ IInv(TRUE) /\ SemTypeOK /\ PendCalls /\ NoTokenUntaken /\ pc[c] = "app" /\ c \in TaskID
      /\ pc \in [TaskID -> {"app", "enter", "sched", "wait", "check"}]
  BY <1>1, ContextFacts DEF SemInv, InApp, IInv, TypeOK
<1>3. arg[c] = NoTask /\ "TIMEOUT" \notin k.status[c]
  BY <1>2 DEF PendCalls, WaitsFor
<1>4. /\ SameNodes(k) /\ s \in PendObj /\ n \in (Nat \ {0}) \cup {WAIT_FOREVER} /\ "PEND" \in Waiting
  BY <1>2, InvKernel, SemFacts DEF SameNodes, SameRest, Sem
<1>5. /\ IInv(TRUE)' /\ BeginsWait(c, s, "PEND") /\ \A t \in TaskID \ {c} : Untouched(t)
      /\ \A q \in PendObj : \A u : IsOn(k'.pend[q], u) <=> IsOn(k.pend[q], u) \/ (q = s /\ u = c)
  <2>1. IInv(TRUE)' /\ BeginsWait(c, s, "PEND")
    BY <1>1, <1>2, <1>3, <1>4, WaitStep
  <2> QED BY <2>1 DEF BeginsWait
<1>6. arg'[c] = s /\ pc'[c] = "wait" /\ \A t \in TaskID \ {c} : arg'[t] = arg[t]
  BY <1>1, <1>2 DEF SemTypeOK
<1>7. SemTypeOK'
  BY <1>1, <1>2 DEF SemTypeOK
<1>8. PendCalls'
  BY <1>2, <1>4, <1>5, <1>6, SemFacts, BeginsWaitCalls DEF PendCalls, Sem
<1>9. NoTokenUntaken'
  <2>1. ASSUME NEW q \in Sem, q # s, k'.pend[q] # <<>>
        PROVE  k.pend[q] # <<>>
    <3>1. k'.pend[q] \in Seq(TaskID)
      BY <1>5 DEF IInv, TypeOK, KernelType, Sem
    <3>2. IsOn(k'.pend[q], Head(k'.pend[q]))
      BY <2>1, <3>1, HeadIsOn
    <3>3. IsOn(k.pend[q], Head(k'.pend[q]))
      BY <1>5, <2>1, <3>2 DEF Sem
    <3> QED BY <3>3, EmptyList
  <2> QED BY <1>1, <1>2, <2>1 DEF NoTokenUntaken
<1>10. IsOn(k'.pend[s], c)
  BY <1>5 DEF Sem
<1> QED BY <1>3, <1>5, <1>7, <1>8, <1>9, <1>10 DEF SemInv

\* A call of LOS_SemPend that has waited returns.
LEMMA ReturnInv ==
  ASSUME SemInv, NEW c \in UserTask, SemReturn(c)
  PROVE  /\ SemInv' /\ \A t \in TaskID \ {c} : Untouched(t)
         /\ arg[c] \in Sem /\ arg' = [arg EXCEPT ![c] = NoTask] /\ sem' = sem
         /\ \A q \in PendObj : ~IsOn(k.pend[q], c)
<1>1. /\ TaskRuns(c) /\ pc[c] = "check" /\ pc' = [pc EXCEPT ![c] = "app"] /\ sem' = sem
      /\ arg' = [arg EXCEPT ![c] = NoTask] /\ UNCHANGED <<sched, slice, scan>>
      /\ FlagCleared(c)
  BY DEF SemReturn, FlagCleared
<1>2. IInv(TRUE) /\ SemTypeOK /\ PendCalls /\ NoTokenUntaken /\ c \in TaskID
  BY ContextFacts DEF SemInv
<1>3. arg'[c] = NoTask /\ \A t \in TaskID \ {c} : arg'[t] = arg[t]
  BY <1>1, <1>2 DEF SemTypeOK
<1>4. /\ IInv(TRUE)' /\ Returned(c) /\ PendCalls'
      /\ \A t \in TaskID \ {c} : Untouched(t)
      /\ k'.pend = k.pend /\ \A q \in PendObj : ~IsOn(k.pend[q], c)
  <2>1. IInv(TRUE) /\ WaitsFor("PEND", k, pc, arg) /\ pc' = [pc EXCEPT ![c] = "app"]
    BY <1>1, <1>2 DEF PendCalls
  <2>2. CallOver(arg, arg', c) /\ FlagCleared(c) /\ UNCHANGED <<sched, slice, scan>>
    BY <1>1, <1>3 DEF CallOver
  <2>3. IInv(TRUE)' /\ Returned(c) /\ WaitsFor("PEND", k', pc', arg')
    BY <1>1, <2>1, <2>2, SemFacts, ReturnCalls
  <2> QED BY <2>3 DEF Returned, PendCalls
<1>5. SemTypeOK'
  BY <1>1, <1>2 DEF SemTypeOK
<1>6. NoTokenUntaken'
  BY <1>1, <1>2, <1>4 DEF NoTokenUntaken
<1>7. arg[c] \in Sem
  BY <1>1, <1>2 DEF PendCalls, WaitsFor, SemTypeOK
<1> QED BY <1>1, <1>4, <1>5, <1>6, <1>7 DEF SemInv

\* The first waiter.
LEMMA SemWaiter ==
  ASSUME SemInv, NEW s \in Sem, k.pend[s] # <<>>
  PROVE  WaitsAt("PEND", arg, s, Head(k.pend[s]))
<1>1. IInv(TRUE) /\ WaitsFor("PEND", k, pc, arg) /\ NoTask \notin PendObj /\ s \in PendObj
  BY SemFacts DEF SemInv, PendCalls, Sem
<1> QED BY <1>1, SemFacts, WaiterFacts

\* A post hands its token to the first waiter, or counts it.
LEMMA PostInv ==
  ASSUME SemInv, Unnested, NEW c \in Caller, NEW s \in Sem, LOS_SemPost(c, s)
  PROVE  /\ SemInv' /\ arg' = arg
         /\ \/ /\ k.pend[s] # <<>> /\ sem' = sem /\ Head(k.pend[s]) \in UserTask
               /\ \A t \in TaskID \ {Head(k.pend[s])} : Untouched(t)
               /\ "TIMEOUT" \notin k'.status[Head(k.pend[s])]
               /\ ~IsOn(k'.pend[s], Head(k.pend[s]))
            \/ k.pend[s] = <<>> /\ sem' = [sem EXCEPT ![s].count = @ + 1] /\ UNCHANGED vars
<1>1. /\ MaySem(c, "post") /\ sem[s].used /\ sem[s].count # sem[s].max /\ arg' = arg
      /\ SemTypeOK /\ PendCalls /\ NoTokenUntaken /\ IInv(TRUE)
  BY DEF LOS_SemPost, SemInv
<1>2. CASE k.pend[s] # <<>>
  <2>2. PICK u \in TaskID : /\ u = Head(k.pend[s]) /\ u \in UserTask
                            /\ IsOn(k.pend[s], u) /\ arg[u] = s /\ InCall(u)
                            /\ k.status[u] \cap Waiting = {"PEND"}
    BY <1>1, <1>2, SemWaiter DEF WaitsAt
  <2>1. /\ k' = osTaskWake(k, u, "PEND") /\ Then_LOS_Schedule(c) /\ sem' = sem
        /\ UNCHANGED <<runTask, taskLock, scheduled, making, slice, scan>>
    BY <1>2, <2>2 DEF LOS_SemPost
  <2>3. /\ scan.at = "off" /\ scheduled
        /\ \/ c \in UserTask /\ InApp(c)
           \/ c = Isr
    BY <1>1, ContextFacts DEF MaySem, IsrRuns, InApp, TaskRuns, Unnested
  <2>4. SameNodes(k) /\ "PEND" \in Waiting
    BY <1>1, InvKernel, SemFacts DEF SameNodes, SameRest
  <2>5. /\ IInv(TRUE)' /\ EndsWait(u) /\ \A t \in TaskID \ {u} : Untouched(t)
        /\ k'.status[u] \cap WaitFlag = {} /\ "UNUSED" \notin k.status[u]
        /\ \A q \in PendObj : \A t : IsOn(k'.pend[q], t) <=> IsOn(k.pend[q], t) /\ t # u
    <3>1. IInv(TRUE)' /\ EndsWait(u)
      BY <1>1, <2>1, <2>2, <2>3, <2>4, WakeStep
    <3> QED BY <3>1 DEF EndsWait
  <2>6. u \in UserTask
    BY <2>2
  <2>7. SemTypeOK'
    BY <1>1, <2>1 DEF SemTypeOK
  <2>8. PendCalls'
    BY <1>1, <2>2, <2>5, EndsWaitCalls DEF PendCalls
  <2>9. NoTokenUntaken'
    <3>1. ASSUME NEW q \in Sem, k'.pend[q] # <<>>
          PROVE  k.pend[q] # <<>>
      <4>1. k'.pend[q] \in Seq(TaskID)
        BY <2>5 DEF IInv, TypeOK, KernelType, Sem
      <4>2. IsOn(k'.pend[q], Head(k'.pend[q]))
        BY <3>1, <4>1, HeadIsOn
      <4>3. IsOn(k.pend[q], Head(k'.pend[q]))
        BY <2>5, <4>2 DEF Sem
      <4> QED BY <4>3, EmptyList
    <3> QED BY <1>1, <2>1, <3>1 DEF NoTokenUntaken
  <2>10. ~IsOn(k'.pend[s], u) /\ "TIMEOUT" \notin k'.status[u]
    BY <2>5 DEF WaitFlag, Sem
  <2> QED BY <1>1, <1>2, <2>1, <2>2, <2>5, <2>6, <2>7, <2>8, <2>9, <2>10 DEF SemInv
<1>3. CASE k.pend[s] = <<>>
  <2>1. UNCHANGED vars /\ k' = k /\ sem' = [sem EXCEPT ![s].count = @ + 1]
    BY <1>3 DEF LOS_SemPost, vars
  <2>2. sem[s] \in [used : BOOLEAN, count : Nat, max : Nat] /\ sem[s].count <= sem[s].max
    BY <1>1 DEF SemTypeOK, NoTokenUntaken
  <2>3. SemTypeOK'
    BY <1>1, <2>1, <2>2 DEF SemTypeOK
  <2>4. sem[s].count + 1 <= sem[s].max
    BY <1>1, <2>2
  <2>5. NoTokenUntaken'
    BY <1>1, <1>3, <2>1, <2>4 DEF NoTokenUntaken, SemTypeOK
  <2>6. UNCHANGED <<vars, arg>>
    BY <1>1, <2>1
  <2>7. SemInv'
    BY <2>3, <2>5, <2>6, CountInv
  <2> QED BY <1>1, <1>3, <2>1, <2>7
<1> QED BY <1>2, <1>3

\* Every step keeps the invariant.
LEMMA SemNextInv ==
  ASSUME SemInv, Unnested, NoIsrSuspend, [SemNext]_allVars
  PROVE  SemInv'
<1>1. CASE TaskStep
  BY <1>1, TaskStepInv
<1>2. ASSUME NEW c \in Caller \cup {Boot}, SemCall(c)
      PROVE  SemInv'
  <2>1. PICK s \in Sem :
          \/ \E max \in {OS_SEM_BINARY_MAX_COUNT, OS_SEM_COUNTING_MAX_COUNT} :
               \E n \in 0 .. max : LOS_SemCreate(c, s, n, max)
          \/ LOS_SemDelete(c, s) \/ SemTake(c, s) \/ LOS_SemPost(c, s)
          \/ \E timeout \in Timeouts : SemWait(c, s, timeout)
    BY <1>2 DEF SemCall
  <2>2. ASSUME \E timeout \in Timeouts : LOS_SemPost(c, s) \/ SemWait(c, s, timeout)
        PROVE  c \in Caller
    BY <1>2, <2>2 DEF LOS_SemPost, SemWait, MaySem, Caller
  <2>3. LOS_SemPost(c, s) => c \in Caller
    BY DEF LOS_SemPost, MaySem, Caller
  <2> QED BY <2>1, <2>2, <2>3, CreateInv, DeleteTakeInv, WaitInv, PostInv
<1>3. ASSUME NEW c \in UserTask, SemReturn(c)
      PROVE  SemInv'
  BY <1>3, ReturnInv
<1>4. CASE UNCHANGED allVars
  <2>1. UNCHANGED <<vars, arg>> /\ sem' = sem /\ k' = k
    BY <1>4 DEF allVars, vars
  <2>2. SemTypeOK' /\ NoTokenUntaken'
    BY <2>1 DEF SemInv, SemTypeOK, NoTokenUntaken
  <2> QED BY <2>1, <2>2, CountInv
<1> QED BY <1>1, <1>2, <1>3, <1>4 DEF SemNext

\* The invariant holds of every reachable state of the semaphores and the tasks.
THEOREM SemInvariance ==
  ASSUME Unnested, NoIsrSuspend
  PROVE  SemSpec => []SemInv
<1>1. SemInit => SemInv
  BY SemInitInv
<1>2. SemInv /\ [SemNext]_allVars => SemInv'
  BY SemNextInv
<1> QED BY <1>1, <1>2, PTL DEF SemSpec

\* No token lies beside a waiter, whatever posts, timeouts, suspensions and
\* deletions came before, and nobody waits at a semaphore that was deleted.
THEOREM TokensAreTaken ==
  ASSUME Unnested, NoIsrSuspend
  PROVE  SemSpec => []NoTokenUntaken
<1>1. SemInv => NoTokenUntaken
  BY DEF SemInv
<1> QED BY <1>1, SemInvariance, PTL

-----------------------------------------------------------------------------
(* The refinement of module AbsSem: what each step does to the tokens      *)

\* The tasks that a post has woken and that have yet to look at the outcome.
HandedAt(s) == {t \in UserTask : Handed(t, s)}
\* The semaphores that exist.
Open == {s \in Sem : sem[s].used}
\* The tokens of a semaphore: its count, and those that are on the way to a task.
Tokens(s) == (IF sem[s].used THEN sem[s].count ELSE 0) + Cardinality(HandedAt(s))

\* Everyone but u has the token it had.
OthersKeep(u) ==
  \A t \in UserTask \ {u} : \A q \in Sem : Handed(t, q)' <=> Handed(t, q)

\* The step leaves the tokens of every semaphore but s alone.
OthersHave(s) == \A q \in Sem \ {s} : Tokens(q)' = Tokens(q)
\* No semaphore comes, goes or changes its tokens.
AllHave == Open' = Open /\ \A q \in Sem : Tokens(q)' = Tokens(q)

\* The tokens of a semaphore are a number.
LEMMA TokensType ==
  ASSUME SemTypeOK, NEW s \in Sem
  PROVE  IsFiniteSet(HandedAt(s)) /\ Cardinality(HandedAt(s)) \in Nat /\ Tokens(s) \in Nat
<1>1. IsFiniteSet(UserTask)
  <2>1. IsFiniteSet(0 .. TSK_LIMIT) /\ UserTask \subseteq 0 .. TSK_LIMIT
    BY FS_Interval, LimitAssumption DEF UserTask, TaskID
  <2> QED BY <2>1, FS_Subset
<1>2. HandedAt(s) \in SUBSET UserTask
  BY DEF HandedAt
<1>3. IsFiniteSet(HandedAt(s))
  BY <1>1, <1>2, FS_Subset
<1>4. Cardinality(HandedAt(s)) \in Nat
  BY <1>3, FS_CardinalityType
<1>5. (IF sem[s].used THEN sem[s].count ELSE 0) \in Nat
  BY DEF SemTypeOK
<1> QED BY <1>3, <1>4, <1>5 DEF Tokens

\* A task keeps its token as long as nothing about its call changes.
LEMMA UntouchedKeeps ==
  ASSUME NEW t \in UserTask, Untouched(t), arg'[t] = arg[t], NEW s \in Sem
  PROVE  Handed(t, s)' <=> Handed(t, s)
BY DEF Untouched, WaitFlag, Handed, Sem

\* Nobody is handed a token, and nobody loses one.
LEMMA HandedSame ==
  ASSUME NEW u, OthersKeep(u), NEW s \in Sem, u \in UserTask => (Handed(u, s)' <=> Handed(u, s))
  PROVE  HandedAt(s)' = HandedAt(s)
<1>1. ASSUME NEW t \in UserTask
      PROVE  Handed(t, s)' <=> Handed(t, s)
  BY DEF OthersKeep
<1>2. HandedAt(s)' = {t \in UserTask : Handed(t, s)'}
  BY DEF HandedAt
<1> QED BY <1>1, <1>2 DEF HandedAt

\* u loses its token.
LEMMA HandedLess ==
  ASSUME NEW u \in UserTask, OthersKeep(u), SemTypeOK, NEW s \in Sem, Handed(u, s), ~Handed(u, s)'
  PROVE  Cardinality(HandedAt(s))' = Cardinality(HandedAt(s)) - 1
<1>1. HandedAt(s)' = {t \in UserTask : Handed(t, s)'}
  BY DEF HandedAt
<1>2. HandedAt(s)' = HandedAt(s) \ {u} /\ u \in HandedAt(s)
  BY <1>1 DEF HandedAt, OthersKeep
<1> QED BY <1>2, TokensType, FS_RemoveElement

\* u is handed one.
LEMMA HandedMore ==
  ASSUME NEW u \in UserTask, OthersKeep(u), SemTypeOK, NEW s \in Sem, ~Handed(u, s), Handed(u, s)'
  PROVE  Cardinality(HandedAt(s))' = Cardinality(HandedAt(s)) + 1
<1>1. HandedAt(s)' = {t \in UserTask : Handed(t, s)'}
  BY DEF HandedAt
<1>2. HandedAt(s)' = HandedAt(s) \cup {u} /\ u \notin HandedAt(s)
  BY <1>1 DEF HandedAt, OthersKeep
<1> QED BY <1>2, TokensType, FS_AddElement

\* A step that ends at most u's call, and leaves the semaphores alone, uses up
\* the token that u was handed.
LEMMA CallEnds ==
  ASSUME SemTypeOK, SemTypeOK', sem' = sem, NEW u \in TaskID, OthersKeep(u),
         \A q \in Sem : ~Handed(u, q)'
  PROVE  \/ AllHave
         \/ \E s \in Sem : /\ Handed(u, s) /\ u \in UserTask /\ Open' = Open
                           /\ Tokens(s)' = Tokens(s) - 1 /\ OthersHave(s)
<1>1. Open' = Open
  BY DEF Open
<1>2. ASSUME NEW q \in Sem, HandedAt(q)' = HandedAt(q)
      PROVE  Tokens(q)' = Tokens(q)
  BY <1>2 DEF Tokens
<1>3. CASE \E s \in Sem : u \in UserTask /\ Handed(u, s)
  <2>1. PICK s \in Sem : u \in UserTask /\ Handed(u, s)
    BY <1>3
  <2>2. Tokens(s)' = Tokens(s) - 1
    <3>1. Cardinality(HandedAt(s))' = Cardinality(HandedAt(s)) - 1
      BY <2>1, HandedLess
    <3>2. Cardinality(HandedAt(s)) \in Nat /\ (IF sem[s].used THEN sem[s].count ELSE 0) \in Nat
      BY TokensType DEF SemTypeOK
    <3> QED BY <3>1, <3>2 DEF Tokens
  <2>3. OthersHave(s)
    <3>1. ASSUME NEW q \in Sem \ {s}
          PROVE  Tokens(q)' = Tokens(q)
      <4>1. ~Handed(u, q) /\ ~Handed(u, q)'
        BY <2>1 DEF Handed
      <4> QED BY <1>2, <4>1, HandedSame
    <3> QED BY <3>1 DEF OthersHave
  <2> QED BY <1>1, <2>1, <2>2, <2>3
<1>4. CASE ~\E s \in Sem : u \in UserTask /\ Handed(u, s)
  <2>1. ASSUME NEW q \in Sem
        PROVE  Tokens(q)' = Tokens(q)
    BY <1>2, <1>4, HandedSame
  <2> QED BY <1>1, <2>1 DEF AllHave
<1> QED BY <1>3, <1>4

\* Between two steps of the tokens, the task manager ends calls: a task that is
\* deleted takes a token that it was handed with it.
LEMMA TaskStepEffect ==
  ASSUME SemInv, Unnested, NoIsrSuspend, TaskStep
  PROVE  \/ AllHave
         \/ \E s \in Sem : /\ \E t \in UserTask : Handed(t, s) /\ "UNUSED" \in k'.status[t]
                           /\ Open' = Open /\ Tokens(s)' = Tokens(s) - 1 /\ OthersHave(s)
<1>1. /\ SemInv' /\ SemTypeOK /\ SemTypeOK' /\ PendCalls /\ PendCalls' /\ sem' = sem
      /\ arg' = [t \in TaskID |-> IF "UNUSED" \in k'.status[t] THEN NoTask ELSE arg[t]]
  BY TaskStepInv DEF SemInv, TaskStep
<1>2. PICK u \in TaskID : /\ \A t \in TaskID \ {u} : Untouched(t)
                          /\ Untouched(u) \/ Created(u) \/ Deleted(u) \/ TimedOut(u)
  BY TaskStepInv
<1>3. ASSUME NEW t \in TaskID, Untouched(t)
      PROVE  arg'[t] = arg[t]
  BY <1>3, TaskStepInv
<1>4. OthersKeep(u)
  <2>1. ASSUME NEW t \in UserTask \ {u}, NEW q \in Sem
        PROVE  Handed(t, q)' <=> Handed(t, q)
    <3>1. t \in TaskID /\ t \in UserTask /\ Untouched(t)
      BY <1>2, ContextFacts
    <3>2. arg'[t] = arg[t]
      BY <1>3, <3>1
    <3> QED BY <3>1, <3>2, UntouchedKeeps
  <2> QED BY <2>1 DEF OthersKeep
<1>5. CASE Untouched(u)
  <2>1. ASSUME NEW q \in Sem
        PROVE  Tokens(q)' = Tokens(q)
    <3>1. u \in UserTask => (Handed(u, q)' <=> Handed(u, q))
      BY <1>3, <1>5, UntouchedKeeps
    <3>2. HandedAt(q)' = HandedAt(q)
      BY <1>4, <3>1, HandedSame
    <3> QED BY <1>1, <3>2 DEF Tokens
  <2> QED BY <1>1, <2>1 DEF AllHave, Open
<1>6. CASE Created(u) \/ TimedOut(u)
  <2>1. ASSUME NEW q \in Sem
        PROVE  ~Handed(u, q) /\ ~Handed(u, q)'
    <3>1. CASE Created(u)
      <4>1. arg[u] = NoTask
        BY <3>1, UnusedIdle DEF Created, SemInv, IInv, PendCalls
      <4>2. arg'[u] = NoTask
        BY <1>1, <4>1
      <4> QED BY <4>1, <4>2, SemFacts DEF Handed
    <3>2. CASE TimedOut(u)
      <4>1. "TIMEOUT" \in k.status[u] /\ "TIMEOUT" \in k'.status[u]
        BY <3>2 DEF TimedOut
      <4> QED BY <4>1 DEF Handed
    <3> QED BY <1>6, <3>1, <3>2
  <2>2. \A s \in Sem : ~Handed(u, s)
    BY <2>1
  <2> QED BY <1>1, <1>4, <2>1, <2>2, CallEnds
<1>7. CASE Deleted(u)
  <2>1. arg'[u] = NoTask /\ "UNUSED" \in k'.status[u]
    BY <1>1, <1>7 DEF Deleted
  <2>2. \A q \in Sem : ~Handed(u, q)'
    BY <2>1, SemFacts DEF Handed
  <2> QED BY <1>1, <1>4, <2>1, <2>2, CallEnds
<1> QED BY <1>2, <1>5, <1>6, <1>7

\* A call that changes nothing but one semaphore.
LEMMA CountEffect ==
  ASSUME SemInv, UNCHANGED <<vars, arg>>, SemTypeOK', NEW s \in Sem,
         \A q \in Sem \ {s} : sem'[q] = sem[q]
  PROVE  /\ OthersHave(s) /\ Cardinality(HandedAt(s))' = Cardinality(HandedAt(s))
         /\ Cardinality(HandedAt(s)) \in Nat
<1>1. k' = k /\ arg' = arg
  BY DEF vars
<1>2. \A q : HandedAt(q)' = HandedAt(q)
  BY <1>1 DEF HandedAt, Handed
<1>3. OthersHave(s)
  BY <1>2 DEF OthersHave, Tokens
<1> QED BY <1>2, <1>3, TokensType DEF SemInv

\* LOS_SemCreate and LOS_BinarySemCreate: a new semaphore with n tokens more.
LEMMA CreateEffect ==
  ASSUME SemInv, NEW c, NEW s \in Sem, NEW max \in {OS_SEM_BINARY_MAX_COUNT, OS_SEM_COUNTING_MAX_COUNT},
         NEW n \in 0 .. max, LOS_SemCreate(c, s, n, max)
  PROVE  /\ s \notin Open /\ Open' = Open \cup {s} /\ n \in 0 .. OS_SEM_COUNTING_MAX_COUNT
         /\ Tokens(s)' = Tokens(s) + n /\ OthersHave(s)
<1>1. /\ ~sem[s].used /\ UNCHANGED <<vars, arg>> /\ SemTypeOK /\ SemTypeOK'
      /\ sem' = [sem EXCEPT ![s] = [used |-> TRUE, count |-> n, max |-> max]]
      /\ n \in 0 .. OS_SEM_COUNTING_MAX_COUNT
  <2>1. SemInv'
    BY CreateInv
  <2> QED BY <2>1, SemFacts DEF LOS_SemCreate, SemInv, OS_SEM_BINARY_MAX_COUNT
<1>2. /\ sem'[s].used /\ sem'[s].count = n /\ \A q \in Sem \ {s} : sem'[q] = sem[q]
  BY <1>1 DEF SemTypeOK
<1>3. /\ OthersHave(s) /\ Cardinality(HandedAt(s))' = Cardinality(HandedAt(s))
      /\ Cardinality(HandedAt(s)) \in Nat
  BY <1>1, <1>2, CountEffect
<1>4. Tokens(s)' = Tokens(s) + n
  BY <1>1, <1>2, <1>3 DEF Tokens
<1> QED BY <1>1, <1>2, <1>3, <1>4 DEF Open

\* LOS_SemDelete: the semaphore goes, and its count with it.
LEMMA DeleteEffect ==
  ASSUME SemInv, NEW c, NEW s \in Sem, LOS_SemDelete(c, s)
  PROVE  /\ s \in Open /\ Open' = Open \ {s}
         /\ Tokens(s)' \in 0 .. Tokens(s) /\ OthersHave(s)
<1>1. /\ sem[s].used /\ UNCHANGED <<vars, arg>> /\ SemTypeOK /\ SemTypeOK'
      /\ sem' = [sem EXCEPT ![s].used = FALSE]
  BY DeleteTakeInv DEF LOS_SemDelete, SemInv
<1>2. /\ ~sem'[s].used /\ \A q \in Sem \ {s} : sem'[q] = sem[q]
  BY <1>1 DEF SemTypeOK
<1>3. /\ OthersHave(s) /\ Cardinality(HandedAt(s))' = Cardinality(HandedAt(s))
      /\ Cardinality(HandedAt(s)) \in Nat /\ sem[s].count \in Nat
  BY <1>1, <1>2, CountEffect DEF SemTypeOK
<1>4. Tokens(s)' \in 0 .. Tokens(s)
  BY <1>1, <1>2, <1>3 DEF Tokens
<1> QED BY <1>1, <1>2, <1>3, <1>4 DEF Open

\* A pend that finds a token takes one.
LEMMA TakeEffect ==
  ASSUME SemInv, NEW c, NEW s \in Sem, SemTake(c, s)
  PROVE  Open' = Open /\ Tokens(s)' = Tokens(s) - 1 /\ OthersHave(s)
<1>1. /\ sem[s].used /\ UNCHANGED <<vars, arg>> /\ SemTypeOK /\ SemTypeOK'
      /\ sem' = [sem EXCEPT ![s].count = @ - 1]
  BY DeleteTakeInv DEF SemTake, SemInv
<1>2. /\ sem'[s].used /\ sem'[s].count = sem[s].count - 1 /\ sem[s].count \in Nat
      /\ \A q \in Sem \ {s} : sem'[q] = sem[q]
  BY <1>1 DEF SemTypeOK
<1>3. /\ OthersHave(s) /\ Cardinality(HandedAt(s))' = Cardinality(HandedAt(s))
      /\ Cardinality(HandedAt(s)) \in Nat
  BY <1>1, <1>2, CountEffect
<1>4. Tokens(s)' = Tokens(s) - 1
  BY <1>1, <1>2, <1>3 DEF Tokens
<1> QED BY <1>1, <1>2, <1>3, <1>4 DEF Open

\* A task that waits has no token yet.
LEMMA WaitEffect ==
  ASSUME SemInv, NEW c \in Caller, NEW s \in Sem, NEW n \in Timeouts, SemWait(c, s, n)
  PROVE  AllHave
<1>1. /\ SemInv' /\ \A t \in TaskID \ {c} : Untouched(t)
      /\ arg[c] = NoTask /\ IsOn(k'.pend[s], c)
  BY WaitInv
<1>2. /\ c \in UserTask /\ c \in TaskID /\ arg' = [arg EXCEPT ![c] = s] /\ sem' = sem
      /\ SemTypeOK /\ UserTask \subseteq TaskID
  BY ContextFacts DEF SemWait, MaySem, SemInv
<1>3. arg'[c] = s /\ \A t \in TaskID \ {c} : arg'[t] = arg[t]
  BY <1>2 DEF SemTypeOK
<1>4. OthersKeep(c)
  BY <1>1, <1>2, <1>3, UntouchedKeeps DEF OthersKeep
<1>5. ASSUME NEW q \in Sem
      PROVE  Tokens(q)' = Tokens(q)
  <2>1. ~Handed(c, q)
    BY <1>1, SemFacts DEF Handed
  <2>2. ~Handed(c, q)'
    BY <1>1, <1>3 DEF Handed
  <2>3. HandedAt(q)' = HandedAt(q)
    BY <1>4, <2>1, <2>2, HandedSame
  <2> QED BY <1>2, <2>3 DEF Tokens
<1> QED BY <1>2, <1>5 DEF AllHave, Open

\* A call of LOS_SemPend that returns LOS_OK uses up the token it was handed, and
\* one that reports a timeout was handed none.
LEMMA ReturnEffect ==
  ASSUME SemInv, NEW c \in UserTask, SemReturn(c), NEW s, s = arg[c]
  PROVE  /\ s \in Sem
         /\ "TIMEOUT" \in k.status[c] => AllHave
         /\ "TIMEOUT" \notin k.status[c] =>
              Open' = Open /\ Tokens(s)' = Tokens(s) - 1 /\ OthersHave(s)
<1>1. /\ SemInv' /\ \A t \in TaskID \ {c} : Untouched(t)
      /\ s \in Sem /\ arg' = [arg EXCEPT ![c] = NoTask] /\ sem' = sem
      /\ \A q \in PendObj : ~IsOn(k.pend[q], c)
  BY ReturnInv
<1>2. c \in TaskID /\ SemTypeOK /\ SemTypeOK' /\ UserTask \subseteq TaskID
  BY <1>1, ContextFacts DEF SemInv
<1>3. arg'[c] = NoTask /\ \A t \in TaskID \ {c} : arg'[t] = arg[t]
  BY <1>1, <1>2 DEF SemTypeOK
<1>4. OthersKeep(c)
  BY <1>1, <1>2, <1>3, UntouchedKeeps DEF OthersKeep
<1>5. \A q \in Sem : ~Handed(c, q)'
  BY <1>3, SemFacts DEF Handed
<1>6. CASE "TIMEOUT" \in k.status[c]
  <2>1. \A q \in Sem : ~Handed(c, q)
    BY <1>6 DEF Handed
  <2>2. AllHave
    BY <1>1, <1>2, <1>4, <1>5, <2>1, CallEnds
  <2> QED BY <1>1, <1>6, <2>2
<1>7. CASE "TIMEOUT" \notin k.status[c]
  <2>1. Handed(c, s)
    BY <1>1, <1>7 DEF Handed, Sem
  <2>2. Cardinality(HandedAt(s))' = Cardinality(HandedAt(s)) - 1
    BY <1>1, <1>2, <1>4, <1>5, <2>1, HandedLess
  <2>3. Cardinality(HandedAt(s)) \in Nat /\ (IF sem[s].used THEN sem[s].count ELSE 0) \in Nat
    BY <1>1, <1>2, TokensType DEF SemTypeOK
  <2>4. Tokens(s)' = Tokens(s) - 1
    BY <1>1, <2>2, <2>3 DEF Tokens
  <2>5. OthersHave(s)
    <3>1. ASSUME NEW q \in Sem \ {s}
          PROVE  Tokens(q)' = Tokens(q)
      <4>1. ~Handed(c, q) /\ ~Handed(c, q)'
        BY <1>5 DEF Handed
      <4>2. HandedAt(q)' = HandedAt(q)
        BY <1>4, <4>1, HandedSame
      <4> QED BY <1>1, <4>2 DEF Tokens
    <3> QED BY <3>1 DEF OthersHave
  <2> QED BY <1>1, <1>7, <2>4, <2>5 DEF Open
<1> QED BY <1>6, <1>7

\* A post adds one token: the counter's, or the one its first waiter is handed.
LEMMA PostEffect ==
  ASSUME SemInv, Unnested, NEW c \in Caller, NEW s \in Sem, LOS_SemPost(c, s)
  PROVE  /\ s \in Open /\ Open' = Open
         /\ Tokens(s)' = Tokens(s) + 1 /\ OthersHave(s)
<1>1. /\ SemInv' /\ arg' = arg /\ SemTypeOK /\ SemTypeOK' /\ sem[s].used
      /\ \/ /\ k.pend[s] # <<>> /\ sem' = sem /\ Head(k.pend[s]) \in UserTask
            /\ \A t \in TaskID \ {Head(k.pend[s])} : Untouched(t)
            /\ "TIMEOUT" \notin k'.status[Head(k.pend[s])]
            /\ ~IsOn(k'.pend[s], Head(k.pend[s]))
         \/ k.pend[s] = <<>> /\ sem' = [sem EXCEPT ![s].count = @ + 1] /\ UNCHANGED vars
  <2>1. /\ SemInv' /\ arg' = arg
        /\ \/ /\ k.pend[s] # <<>> /\ sem' = sem /\ Head(k.pend[s]) \in UserTask
              /\ \A t \in TaskID \ {Head(k.pend[s])} : Untouched(t)
              /\ "TIMEOUT" \notin k'.status[Head(k.pend[s])]
              /\ ~IsOn(k'.pend[s], Head(k.pend[s]))
           \/ k.pend[s] = <<>> /\ sem' = [sem EXCEPT ![s].count = @ + 1] /\ UNCHANGED vars
    BY PostInv
  <2>2. sem[s].used
    BY DEF LOS_SemPost
  <2> QED BY <2>1, <2>2 DEF SemInv
<1>2. CASE k.pend[s] # <<>>
  <2>1. PICK u : u = Head(k.pend[s])
    OBVIOUS
  <2>2. /\ sem' = sem /\ u \in UserTask /\ \A t \in TaskID \ {u} : Untouched(t)
        /\ "TIMEOUT" \notin k'.status[u] /\ ~IsOn(k'.pend[s], u)
        /\ IsOn(k.pend[s], u) /\ arg[u] = s /\ UserTask \subseteq TaskID
    BY <1>1, <1>2, <2>1, SemWaiter, ContextFacts DEF WaitsAt
  <2>3. ~Handed(u, s) /\ Handed(u, s)' /\ \A q \in Sem \ {s} : ~Handed(u, q) /\ ~Handed(u, q)'
    BY <1>1, <2>2 DEF Handed
  <2>4. OthersKeep(u)
    BY <1>1, <2>2, UntouchedKeeps DEF OthersKeep
  <2>5. Cardinality(HandedAt(s))' = Cardinality(HandedAt(s)) + 1
    BY <1>1, <2>2, <2>3, <2>4, HandedMore
  <2>6. Cardinality(HandedAt(s)) \in Nat /\ sem[s].count \in Nat
    BY <1>1, TokensType DEF SemTypeOK
  <2>7. Tokens(s)' = Tokens(s) + 1
    BY <1>1, <2>2, <2>5, <2>6 DEF Tokens
  <2>8. OthersHave(s)
    <3>1. ASSUME NEW q \in Sem \ {s}
          PROVE  Tokens(q)' = Tokens(q)
      <4>1. HandedAt(q)' = HandedAt(q)
        BY <2>3, <2>4, HandedSame
      <4> QED BY <2>2, <4>1 DEF Tokens
    <3> QED BY <3>1 DEF OthersHave
  <2> QED BY <1>1, <2>2, <2>7, <2>8 DEF Open
<1>3. CASE k.pend[s] = <<>>
  <2>1. sem' = [sem EXCEPT ![s].count = @ + 1] /\ UNCHANGED <<vars, arg>>
    BY <1>1, <1>3
  <2>2. /\ sem'[s].used /\ sem'[s].count = sem[s].count + 1 /\ sem[s].count \in Nat
        /\ \A q \in Sem \ {s} : sem'[q] = sem[q]
    BY <1>1, <2>1 DEF SemTypeOK
  <2>3. /\ OthersHave(s) /\ Cardinality(HandedAt(s))' = Cardinality(HandedAt(s))
        /\ Cardinality(HandedAt(s)) \in Nat
    BY <1>1, <2>1, <2>2, CountEffect
  <2>4. Tokens(s)' = Tokens(s) + 1
    BY <1>1, <2>2, <2>3 DEF Tokens
  <2> QED BY <1>1, <2>1, <2>2, <2>3, <2>4 DEF Open
<1> QED BY <1>2, <1>3

-----------------------------------------------------------------------------
(* The refinement of module AbsSem: the steps                              *)

\* What the abstract semaphores know of the tokens, and of the tasks.
AbsTokens == [s \in Sem |-> Tokens(s)]
Alive == {t \in TaskID : "UNUSED" \notin k.status[t]}

\* The abstract variables are the open semaphores, the tokens they have, what
\* the calls have returned and the tasks that exist.
LEMMA AbsState ==
  /\ AllHave => AbsTokens' = AbsTokens /\ Open' = Open
  /\ AbsTokens' = [s \in Sem |-> Tokens(s)']
  /\ UNCHANGED <<AbsTokens, Open, told, Alive>> => UNCHANGED Abs!absVars
<1>1. Abs!absVars = <<Open, AbsTokens, told, Alive>>
  BY DEF Abs!absVars, Open, AbsTokens, Tokens, HandedAt, Alive
<1>2. Abs!absVars' = <<Open', AbsTokens', told', Alive'>>
  BY DEF Abs!absVars, Open, AbsTokens, Tokens, HandedAt, Alive
<1>3. AbsTokens' = [s \in Sem |-> Tokens(s)']
  BY DEF AbsTokens
<1>4. AllHave => AbsTokens' = AbsTokens /\ Open' = Open
  BY <1>3 DEF AllHave, AbsTokens
<1> QED BY <1>1, <1>2, <1>3, <1>4

\* The abstract steps in the terms of the lemmas above.
LEMMA AbsChange ==
  ASSUME NEW s \in Sem, OthersHave(s), NEW n, Tokens(s)' = n
  PROVE  AbsTokens' = [AbsTokens EXCEPT ![s] = n]
BY AbsState DEF OthersHave, AbsTokens

\* That is a creation of the abstract semaphore.
LEMMA AbsCreate ==
  ASSUME NEW s \in Sem, NEW n, s \notin Open, Open' = Open \cup {s}, Tokens(s)' = Tokens(s) + n,
         OthersHave(s), told' = told
  PROVE  Abs!Create(s, n)
<1>1. Abs!Create(s, n) <=>
        /\ s \notin Open /\ Open' = Open \cup {s} /\ AbsTokens' = [AbsTokens EXCEPT ![s] = @ + n]
        /\ told' = told
  BY DEF Abs!Create, Open, AbsTokens, Tokens, HandedAt
<1>2. AbsTokens' = [AbsTokens EXCEPT ![s] = Tokens(s) + n]
  BY AbsChange
<1>3. AbsTokens[s] = Tokens(s)
  BY DEF AbsTokens
<1> QED BY <1>1, <1>2, <1>3

\* That is a deletion of the abstract semaphore.
LEMMA AbsDelete ==
  ASSUME NEW s \in Sem, s \in Open, Open' = Open \ {s}, Tokens(s)' \in 0 .. Tokens(s), OthersHave(s),
         told' = told
  PROVE  Abs!Delete(s)
<1>1. Abs!Delete(s) <=>
        /\ s \in Open /\ Open' = Open \ {s}
        /\ \E n \in 0 .. AbsTokens[s] : AbsTokens' = [AbsTokens EXCEPT ![s] = n]
        /\ told' = told
  BY DEF Abs!Delete, Open, AbsTokens, Tokens, HandedAt
<1>2. PICK n \in 0 .. Tokens(s) : Tokens(s)' = n
  OBVIOUS
<1>3. AbsTokens' = [AbsTokens EXCEPT ![s] = n]
  BY <1>2, AbsChange
<1>4. AbsTokens[s] = Tokens(s)
  BY DEF AbsTokens
<1> QED BY <1>1, <1>2, <1>3, <1>4

\* A token more, with a post that returns LOS_OK, is a V of the abstract semaphore.
LEMMA AbsV ==
  ASSUME NEW s \in Sem, s \in Open, Open' = Open, Tokens(s)' = Tokens(s) + 1, OthersHave(s),
         Returns(s, "post")
  PROVE  Abs!V(s)
<1>1. Abs!V(s) <=> /\ s \in Open
                   /\ AbsTokens' = [AbsTokens EXCEPT ![s] = @ + 1] /\ Open' = Open
                   /\ Returns(s, "post")
  BY DEF Abs!V, Open, AbsTokens, Tokens, HandedAt, Returns, Abs!Returns
<1>2. AbsTokens' = [AbsTokens EXCEPT ![s] = Tokens(s) + 1]
  BY AbsChange
<1>3. AbsTokens[s] = Tokens(s)
  BY DEF AbsTokens
<1> QED BY <1>1, <1>2, <1>3

\* A token less is a P of the abstract semaphore if a pend returns LOS_OK, and is
\* lost if a task goes, and nothing else is either.
LEMMA AbsP ==
  ASSUME NEW s \in Sem
  PROVE  /\ Tokens(s) > 0 /\ Open' = Open /\ Tokens(s)' = Tokens(s) - 1 /\ OthersHave(s) =>
              /\ Returns(s, "pend") => Abs!P(s)
              /\ told' = told /\ Alive \ Alive' # {} => Abs!Lose(s)
         /\ Abs!P(s) \/ Abs!Lose(s) => Tokens(s) > 0 /\ Open' = Open /\ Tokens(s)' = Tokens(s) - 1
         /\ Abs!P(s) => Returns(s, "pend")
         /\ Abs!Lose(s) => told' = told
<1> DEFINE Less == /\ AbsTokens[s] > 0
                   /\ AbsTokens' = [AbsTokens EXCEPT ![s] = @ - 1] /\ Open' = Open
<1>1. /\ Abs!P(s) <=> Less /\ Returns(s, "pend")
      /\ Abs!Lose(s) <=> Less /\ told' = told /\ Alive \ Alive' # {}
  BY DEF Abs!P, Abs!Lose, Open, AbsTokens, Tokens, HandedAt, Returns, Abs!Returns, Alive
<1>2. AbsTokens[s] = Tokens(s) /\ AbsTokens'[s] = Tokens(s)'
  BY AbsState DEF AbsTokens
<1>3. ASSUME Tokens(s)' = Tokens(s) - 1, OthersHave(s)
      PROVE  AbsTokens' = [AbsTokens EXCEPT ![s] = Tokens(s) - 1]
  BY <1>3, AbsChange
<1>4. [AbsTokens EXCEPT ![s] = @ - 1][s] = Tokens(s) - 1
  BY DEF AbsTokens
<1> QED BY <1>1, <1>2, <1>3, <1>4

\* A task is deleted that was handed a token of s.
Lost(s) == \E t \in UserTask : Handed(t, s) /\ "UNUSED" \in k'.status[t]

\* A task that was handed a token exists.
LEMMA LostDies ==
  ASSUME SemInv, NEW s \in Sem, Lost(s)
  PROVE  Alive \ Alive' # {}
<1>1. PICK t \in UserTask : Handed(t, s) /\ "UNUSED" \in k'.status[t]
  BY DEF Lost
<1>2. t \in TaskID /\ arg[t] # NoTask
  BY <1>1, ContextFacts, SemFacts DEF Handed
<1>3. "UNUSED" \notin k.status[t]
  BY <1>2, UnusedIdle DEF SemInv, IInv, PendCalls
<1> QED BY <1>1, <1>2, <1>3 DEF Alive

\* What a step can do to the tokens.
TokenStep ==
  \/ AllHave /\ told' = told
  \/ \E s \in Sem :
       /\ OthersHave(s)
       /\ \/ \E n \in 0 .. OS_SEM_COUNTING_MAX_COUNT :
               /\ s \notin Open /\ Open' = Open \cup {s} /\ Tokens(s)' = Tokens(s) + n
               /\ told' = told
          \/ s \in Open /\ Open' = Open \ {s} /\ Tokens(s)' \in 0 .. Tokens(s) /\ told' = told
          \/ s \in Open /\ Open' = Open /\ Tokens(s)' = Tokens(s) + 1 /\ Returns(s, "post")
          \/ /\ Open' = Open /\ Tokens(s)' = Tokens(s) - 1
             /\ \/ Returns(s, "pend") /\ \E c \in Caller : Succeeds(c, s)
                \/ told' = told /\ Lost(s)

\* Every step of the program is one of these, or changes no tokens.
LEMMA StepEffect ==
  ASSUME SemInv, Unnested, NoIsrSuspend, [SemNext]_allVars
  PROVE  TokenStep
<1>1. CASE TaskStep
  <2>1. told' = told
    BY <1>1 DEF TaskStep
  <2> QED BY <1>1, <2>1, TaskStepEffect DEF TokenStep, Lost
<1>2. ASSUME NEW c \in Caller \cup {Boot}, NEW s \in Sem,
             NEW max \in {OS_SEM_BINARY_MAX_COUNT, OS_SEM_COUNTING_MAX_COUNT},
             NEW n \in 0 .. max, LOS_SemCreate(c, s, n, max)
      PROVE  TokenStep
  <2>1. told' = told
    BY <1>2 DEF LOS_SemCreate
  <2>2. /\ s \notin Open /\ Open' = Open \cup {s} /\ n \in 0 .. OS_SEM_COUNTING_MAX_COUNT
        /\ Tokens(s)' = Tokens(s) + n /\ OthersHave(s)
    BY <1>2, CreateEffect
  <2> QED BY <2>1, <2>2 DEF TokenStep
<1>3. ASSUME NEW c \in Caller \cup {Boot}, NEW s \in Sem, LOS_SemDelete(c, s)
      PROVE  TokenStep
  <2>1. told' = told
    BY <1>3 DEF LOS_SemDelete
  <2> QED BY <1>3, <2>1, DeleteEffect DEF TokenStep
<1>4. ASSUME NEW c \in Caller \cup {Boot}, NEW s \in Sem, SemTake(c, s)
      PROVE  TokenStep
  <2>1. c \in Caller /\ Returns(s, "pend")
    BY <1>4 DEF SemTake, MaySem, Caller
  <2>2. \E d \in Caller : Succeeds(d, s)
    BY <1>4, <2>1 DEF Succeeds
  <2> QED BY <1>4, <2>1, <2>2, TakeEffect DEF TokenStep
<1>5. ASSUME NEW c \in Caller \cup {Boot}, NEW s \in Sem, LOS_SemPost(c, s)
      PROVE  TokenStep
  <2>1. c \in Caller /\ Returns(s, "post")
    BY <1>5 DEF LOS_SemPost, MaySem, Caller
  <2> QED BY <1>5, <2>1, PostEffect DEF TokenStep
<1>6. ASSUME NEW c \in Caller \cup {Boot}, NEW s \in Sem, NEW n \in Timeouts, SemWait(c, s, n)
      PROVE  TokenStep
  <2>1. c \in Caller /\ told' = told
    BY <1>6 DEF SemWait, MaySem, Caller
  <2> QED BY <1>6, <2>1, WaitEffect DEF TokenStep
<1>7. ASSUME NEW c \in UserTask, SemReturn(c)
      PROVE  TokenStep
  <2>1. PICK s : s = arg[c]
    OBVIOUS
  <2>2. /\ s \in Sem
        /\ "TIMEOUT" \in k.status[c] => AllHave
        /\ "TIMEOUT" \notin k.status[c] =>
             Open' = Open /\ Tokens(s)' = Tokens(s) - 1 /\ OthersHave(s)
    BY <1>7, <2>1, ReturnEffect
  <2>3. /\ "TIMEOUT" \in k.status[c] => told' = told
        /\ "TIMEOUT" \notin k.status[c] => Returns(s, "pend")
    BY <1>7, <2>1 DEF SemReturn
  <2>4. "TIMEOUT" \notin k.status[c] => \E d \in Caller : Succeeds(d, s)
    BY <1>7, <2>1 DEF Succeeds, Caller
  <2> QED BY <2>2, <2>3, <2>4 DEF TokenStep
<1>8. CASE UNCHANGED allVars
  <2>1. k' = k /\ arg' = arg /\ sem' = sem /\ told' = told
    BY <1>8 DEF allVars, vars
  <2> QED BY <2>1 DEF TokenStep, AllHave, Open, Tokens, HandedAt, Handed
<1> QED BY <1>1, <1>2, <1>3, <1>4, <1>5, <1>6, <1>7, <1>8 DEF SemNext, SemCall

\* A step that takes a token found one.
LEMMA TokenThere ==
  ASSUME SemTypeOK, SemTypeOK', NEW s \in Sem, Tokens(s)' = Tokens(s) - 1
  PROVE  Tokens(s) > 0
<1>1. Tokens(s) \in Nat /\ Tokens(s)' \in Nat
  <2>1. Tokens(s) \in Nat
    BY TokensType
  <2>2. SemTypeOK => Tokens(s) \in Nat
    BY TokensType
  <2>3. (SemTypeOK => Tokens(s) \in Nat)'
    BY TokensType, PTL
  <2> QED BY <2>1, <2>3
<1> QED BY <1>1

-----------------------------------------------------------------------------
(* The refinement of module AbsSem                                         *)

\* The history of what the calls have returned.
ToldOK == told \in [Sem -> [{"post", "pend"} -> {0, 1}]]

\* A call that returns LOS_OK leaves a trace, and one on its own semaphore.
LEMMA ToldChange ==
  ASSUME ToldOK, NEW s \in Sem, NEW call \in {"post", "pend"}, Returns(s, call)
  PROVE  ToldOK' /\ told' # told /\ told'[s][call] # told[s][call]
<1>1. told[s] \in [{"post", "pend"} -> {0, 1}] /\ told[s][call] \in {0, 1}
  BY DEF ToldOK
<1>2. ToldOK'
  BY <1>1 DEF ToldOK, Returns
<1>3. told'[s][call] = 1 - told[s][call]
  BY <1>1 DEF ToldOK, Returns
<1>4. told'[s][call] # told[s][call]
  BY <1>1, <1>3
<1> QED BY <1>2, <1>4

\* Every step keeps the type of the history.
LEMMA ToldKept ==
  ASSUME TokenStep, ToldOK
  PROVE  ToldOK'
<1>1. CASE told' = told
  BY <1>1 DEF ToldOK
<1>2. ASSUME NEW s \in Sem, Returns(s, "post") \/ Returns(s, "pend")
      PROVE  ToldOK'
  BY <1>2, ToldChange
<1> QED BY <1>1, <1>2 DEF TokenStep

\* The history has its type in every reachable state.
LEMMA ToldType ==
  ASSUME Unnested, NoIsrSuspend
  PROVE  SemSpec => []ToldOK
<1>1. SemInit => ToldOK
  BY DEF SemInit, ToldOK
<1>2. SemInv /\ [SemNext]_allVars /\ ToldOK => ToldOK'
  BY StepEffect, ToldKept
<1> QED BY <1>1, <1>2, SemInvariance, PTL DEF SemSpec

\* Posts and successful pends account for every token that was ever created:
\* the counters, with the tokens that woken tasks have yet to report, step as
\* module AbsSem says, up in the step in which a LOS_SemPost returns LOS_OK and
\* down in that of a LOS_SemPend, and in no other but that of a deletion.
THEOREM SemRefinement ==
  ASSUME Unnested, NoIsrSuspend
  PROVE  SemSpec => TokensConserved
<1>1. SemInit => Abs!AbsInit
  <2> SUFFICES ASSUME SemInit PROVE Abs!AbsInit
    OBVIOUS
  <2>1. ASSUME NEW s \in Sem
        PROVE  HandedAt(s) = {} /\ ~sem[s].used
    BY SemFacts, ContextFacts DEF SemInit, HandedAt, Handed
  <2>2. Open = {} /\ AbsTokens = [s \in Sem |-> 0] /\ Alive \in SUBSET TaskID
    BY <2>1, FS_EmptySet DEF Open, AbsTokens, Tokens, Alive
  <2>3. told = [s \in Sem |-> [call \in {"post", "pend"} |-> 0]]
    BY DEF SemInit
  <2> QED BY <2>2, <2>3 DEF Abs!AbsInit, Open, AbsTokens, Tokens, HandedAt, Alive
<1>2. SemInv /\ SemInv' /\ [SemNext]_allVars => [Abs!AbsNext]_(Abs!absVars)
  <2> SUFFICES ASSUME SemInv, SemInv', [SemNext]_allVars
               PROVE  Abs!AbsNext
    OBVIOUS
  <2>1. TokenStep /\ SemTypeOK /\ SemTypeOK'
    BY StepEffect DEF SemInv
  <2>2. Alive' \in SUBSET TaskID
    BY DEF Alive
  <2>3. Abs!AbsNext <=>
          \/ \E s \in Sem :
               \/ \E n \in 0 .. OS_SEM_COUNTING_MAX_COUNT : Abs!Create(s, n)
               \/ Abs!Delete(s) \/ Abs!V(s) \/ Abs!P(s) \/ Abs!Lose(s)
          \/ UNCHANGED <<Open, AbsTokens, told>>
    BY <2>2 DEF Abs!AbsNext, Open, AbsTokens, Tokens, HandedAt, Alive
  <2>4. AllHave /\ told' = told => Abs!AbsNext
    BY <2>3, AbsState
  <2>5. ASSUME NEW s \in Sem, OthersHave(s), told' = told,
               \/ \E n \in 0 .. OS_SEM_COUNTING_MAX_COUNT :
                    s \notin Open /\ Open' = Open \cup {s} /\ Tokens(s)' = Tokens(s) + n
               \/ s \in Open /\ Open' = Open \ {s} /\ Tokens(s)' \in 0 .. Tokens(s)
        PROVE  Abs!AbsNext
    BY <2>3, <2>5, AbsCreate, AbsDelete
  <2>6. ASSUME NEW s \in Sem, OthersHave(s), Returns(s, "post"),
               s \in Open /\ Open' = Open /\ Tokens(s)' = Tokens(s) + 1
        PROVE  Abs!AbsNext
    BY <2>3, <2>6, AbsV
  <2>7. ASSUME NEW s \in Sem, OthersHave(s), Open' = Open /\ Tokens(s)' = Tokens(s) - 1,
               Returns(s, "pend") \/ (told' = told /\ Lost(s))
        PROVE  Abs!AbsNext
    <3>1. Tokens(s) > 0
      BY <2>1, <2>7, TokenThere
    <3>2. Lost(s) => Alive \ Alive' # {}
      BY LostDies
    <3>3. Abs!P(s) \/ Abs!Lose(s)
      BY <2>7, <3>1, <3>2, AbsP
    <3> QED BY <2>3, <3>3
  <2> QED BY <2>1, <2>4, <2>5, <2>6, <2>7 DEF TokenStep
<1> QED BY <1>1, <1>2, SemInvariance, PTL DEF SemSpec, TokensConserved, Abs!AbsSpec

\* LOS_SemPost succeeds exactly when it adds a token, LOS_SemPend reports LOS_OK
\* exactly when it uses one up, and a token is lost only with the deletion of the
\* task that was handed it.
THEOREM ReturnCodes ==
  ASSUME Unnested, NoIsrSuspend
  PROVE  SemSpec => ReturnCodesTrue
<1>1. ASSUME SemInv, SemInv', ToldOK, [SemNext]_allVars, NEW s \in Sem
      PROVE  /\ (\E c \in Caller : LOS_SemPost(c, s)) => Abs!V(s)
             /\ (\E c \in Caller : Succeeds(c, s)) <=> Abs!P(s)
             /\ Abs!Lose(s) => Lost(s)
  <2>1. TokenStep /\ SemTypeOK /\ SemTypeOK'
    BY <1>1, StepEffect DEF SemInv
  <2>2. ASSUME NEW c \in Caller, LOS_SemPost(c, s)
        PROVE  Abs!V(s)
    <3>1. Returns(s, "post")
      BY <2>2 DEF LOS_SemPost
    <3> QED BY <1>1, <2>2, <3>1, PostEffect, AbsV
  <2>3. ASSUME NEW c \in Caller, SemTake(c, s)
        PROVE  Abs!P(s)
    <3>1. Open' = Open /\ Tokens(s)' = Tokens(s) - 1 /\ OthersHave(s)
      BY <1>1, <2>3, TakeEffect
    <3>2. Returns(s, "pend")
      BY <2>3 DEF SemTake
    <3> QED BY <2>1, <3>1, <3>2, TokenThere, AbsP
  <2>4. ASSUME NEW c \in Caller, SemReturn(c) /\ arg[c] = s /\ "TIMEOUT" \notin k.status[c]
        PROVE  Abs!P(s)
    <3>1. c \in UserTask
      <4>1. c \in TaskID
        BY <1>1, <2>4, ContextFacts DEF SemReturn, TaskRuns, SemInv, IInv, TypeOK, Dispatch, Running, Caller
      <4> QED BY <4>1, ContextFacts DEF Caller
    <3>2. Open' = Open /\ Tokens(s)' = Tokens(s) - 1 /\ OthersHave(s)
      BY <1>1, <2>4, <3>1, ReturnEffect
    <3>3. Returns(s, "pend")
      BY <2>4 DEF SemReturn
    <3> QED BY <2>1, <3>2, <3>3, TokenThere, AbsP
  <2>5. ASSUME Abs!P(s) \/ Abs!Lose(s)
        PROVE  \/ Returns(s, "pend") /\ \E c \in Caller : Succeeds(c, s)
               \/ told' = told /\ Lost(s)
    <3>1. Open' = Open /\ Tokens(s)' = Tokens(s) - 1 /\ Tokens(s) \in Nat
      BY <2>1, <2>5, AbsP, TokensType
    <3>2. PICK q \in Sem :
            /\ OthersHave(q)
            /\ \/ \E n \in 0 .. OS_SEM_COUNTING_MAX_COUNT : Tokens(q)' = Tokens(q) + n
               \/ q \in Open /\ Open' = Open \ {q}
               \/ Returns(q, "pend") /\ \E c \in Caller : Succeeds(c, q)
               \/ told' = told /\ Lost(q)
      BY <2>1, <3>1, SemFacts DEF TokenStep, AllHave
    <3>3. q = s
      BY <3>1, <3>2 DEF OthersHave
    <3> QED BY <3>1, <3>2, <3>3
  <2>6. ~(Returns(s, "pend") /\ told' = told)
    BY <1>1, ToldChange
  <2>7. Abs!P(s) => \E c \in Caller : Succeeds(c, s)
    BY <2>5, <2>6, AbsP
  <2>8. Abs!Lose(s) => Lost(s)
    BY <2>5, <2>6, AbsP
  <2> QED BY <2>2, <2>3, <2>4, <2>7, <2>8 DEF Succeeds
<1>2. SemInv /\ SemInv' /\ ToldOK /\ [SemNext]_allVars =>
        \A s \in Sem :
          /\ (\E c \in Caller : LOS_SemPost(c, s)) => Abs!V(s)
          /\ (\E c \in Caller : Succeeds(c, s)) <=> Abs!P(s)
          /\ Abs!Lose(s) => \E t \in UserTask : Handed(t, s) /\ "UNUSED" \in k'.status[t]
  BY <1>1 DEF Lost
<1> QED BY <1>2, SemInvariance, ToldType, PTL DEF SemSpec, ReturnCodesTrue
=============================================================================
