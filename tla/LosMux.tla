------------------------------- MODULE LosMux -------------------------------
(***************************************************************************)
(* Recursive mutexes with priority inheritance                             *)
(* (kernel/base/ipc/los_mux.c), used by tasks that also make the task      *)
(* calls of module LosTask.  A mutex is its own wait list: PendObj is the  *)
(* set of mutexes.                                                         *)
(*                                                                         *)
(* held and base are history variables: what the return codes have told    *)
(* each task (the calls of LOS_MuxPend that returned LOS_OK, less its      *)
(* posts), and the priority it was given when it was created.              *)
(***************************************************************************)
EXTENDS LosTask

CONSTANTS
  Timeouts,   \* arguments uwTimeout of LOS_MuxPend that are tried
  MuxCalls,   \* the mutex calls the application makes
  Lifo,       \* tasks release their mutexes in the reverse order
  MAX_COUNT   \* bound on the nesting of one mutex

ASSUME MuxAssumption ==
  /\ Timeouts \subseteq (Nat \ {0}) \cup {WAIT_FOREVER}
  /\ Lifo \in BOOLEAN /\ MAX_COUNT \in Nat \ {0} /\ NoTask \notin PendObj

Mux == PendObj

VARIABLES
  mux,    \* ucMuxStat, usMuxCount, pstOwner and usPriority of each mutex
  arg,    \* uwMuxHandle of the call of LOS_MuxPend that a task makes
  held,   \* how often each task believes it has each mutex locked
  order,  \* the mutexes each task holds, in the order in which it got them
  base    \* the priority each task was created with

muxVars == <<mux, arg, held, order, base>>
allVars == <<vars, muxVars>>

Unused == [used |-> FALSE, count |-> 0, owner |-> NoTask, saved |-> 0]

MuxInit ==
  /\ Init
  /\ mux = [m \in Mux |-> Unused]
  /\ arg = [t \in TaskID |-> NoTask]
  /\ held = [t \in TaskID |-> [m \in Mux |-> 0]]
  /\ order = [t \in TaskID |-> <<>>]
  /\ base = [t \in TaskID |-> IF t = Idle THEN LOWEST ELSE 0]

MayMux(c, name) == c \in UserTask /\ InApp(c) /\ name \in MuxCalls

\* Mutant: the owner is compared, the count is not.
OwnsStale(t, m) == mux[m].owner = t

Owns(t, m) == mux[m].count # 0 /\ mux[m].owner = t

\* LOS_MuxPend returns LOS_OK.
Got(t, m) ==
  /\ held' = [held EXCEPT ![t][m] = @ + 1]
  /\ order' = IF held[t][m] = 0 THEN [order EXCEPT ![t] = Append(@, m)] ELSE order

LOS_MuxCreate(c, m) ==
  /\ MayMux(c, "create") /\ ~mux[m].used
  /\ mux' = [mux EXCEPT ![m] = [Unused EXCEPT !.used = TRUE]]
  /\ UNCHANGED <<vars, arg, held, order, base>>

\* Mutant: a mutex that somebody holds can be deleted.
MuxDeleteHeld(c, m) ==
  /\ MayMux(c, "delete") /\ mux[m].used /\ k.pend[m] = <<>>
  /\ mux' = [mux EXCEPT ![m].used = FALSE]
  /\ UNCHANGED <<vars, arg, held, order, base>>

LOS_MuxDelete(c, m) ==
  /\ MayMux(c, "delete") /\ mux[m].used
  /\ k.pend[m] = <<>> /\ mux[m].count = 0
  /\ mux' = [mux EXCEPT ![m].used = FALSE]
  /\ UNCHANGED <<vars, arg, held, order, base>>

\* LOS_MuxPend, when the mutex is free or is the caller's.
MuxTake(c, m) ==
  /\ MayMux(c, "pend") /\ mux[m].used
  /\ mux[m].count < MAX_COUNT
  /\ \/ /\ mux[m].count = 0
        /\ mux' = [mux EXCEPT ![m].count = 1, ![m].owner = c, ![m].saved = k.prio[c]]
     \/ /\ Owns(c, m)
        /\ mux' = [mux EXCEPT ![m].count = @ + 1]
  /\ Got(c, m)
  /\ UNCHANGED <<vars, arg, base>>

\* LOS_MuxPend, when another task has the mutex: the owner inherits the
\* caller's priority and the caller waits.
Inherit(kk, c, m) ==
  LET owner == mux[m].owner IN
  IF kk.prio[owner] > kk.prio[c] THEN osTaskPriModify(kk, owner, kk.prio[c]) ELSE kk

MuxWait(c, m, timeout) ==
  /\ MayMux(c, "pend") /\ mux[m].used
  /\ mux[m].count # 0 /\ ~Owns(c, m)
  /\ taskLock = 0
  /\ k' = osTaskWait(Inherit(k, c, m), c, m, "PEND", timeout)
  /\ pc' = [pc EXCEPT ![c] = "wait"]
  /\ arg' = [arg EXCEPT ![c] = m]
  /\ UNCHANGED <<sched, slice, scan, mux, held, order, base>>

\* LOS_MuxPend, after its LOS_Schedule returns.
MuxReturn(c) ==
  /\ TaskRuns(c) /\ pc[c] = "check"
  /\ pc' = [pc EXCEPT ![c] = "app"]
  /\ arg' = [arg EXCEPT ![c] = NoTask]
  /\ IF "TIMEOUT" \in k.status[c]
     THEN /\ k' = SetFlags(k, c, {"TIMEOUT"}, {})
          /\ UNCHANGED <<held, order>>
     ELSE k' = k /\ Got(c, arg[c])
  /\ UNCHANGED <<sched, slice, scan, mux, base>>

\* Mutant: the inherited priority is only given back when nobody waits.
RestoreLast(kk, c, m) ==
  IF kk.pend[m] = <<>> THEN osTaskPriModify(kk, c, mux[m].saved) ELSE kk

Restore(kk, c, m) ==
  IF kk.prio[c] # mux[m].saved THEN osTaskPriModify(kk, c, mux[m].saved) ELSE kk

\* Mutant: the mutex is freed without a look at its wait list.
MuxReleaseBlind(c, m) ==
  mux' = [mux EXCEPT ![m].count = 0] /\ k' = Restore(k, c, m) /\ pc' = pc

MuxRelease(c, m) ==
  LET restored == Restore(k, c, m) IN
  IF restored.pend[m] = <<>>
  THEN /\ mux' = [mux EXCEPT ![m].count = 0]
       /\ k' = restored /\ pc' = pc
  ELSE LET next == Head(restored.pend[m]) IN
       /\ mux' = [mux EXCEPT ![m].count = 1, ![m].owner = next,
                             ![m].saved = restored.prio[next]]
       /\ k' = osTaskWake(restored, next, "PEND")
       /\ pc' = [pc EXCEPT ![c] = "sched"]

LOS_MuxPost(c, m) ==
  /\ MayMux(c, "post") /\ mux[m].used /\ Owns(c, m)
  /\ Lifo /\ mux[m].count = 1 => order[c] # <<>> /\ m = Last(order[c])
  /\ IF mux[m].count - 1 # 0
     THEN /\ mux' = [mux EXCEPT ![m].count = @ - 1]
          /\ UNCHANGED <<k, pc>>
     ELSE MuxRelease(c, m)
  /\ held' = [held EXCEPT ![c][m] = IF @ > 0 THEN @ - 1 ELSE 0]
  /\ order' = IF held[c][m] = 1 THEN [order EXCEPT ![c] = RemoveFirst(@, m)] ELSE order
  /\ UNCHANGED <<sched, slice, scan, arg, base>>

\* The task manager's steps.  A deleted task takes what it believed with it.
TaskStep ==
  /\ Next
  /\ LET gone(t) == "UNUSED" \in k'.status[t]
         born(t) == "UNUSED" \in k.status[t] /\ ~gone(t)
     IN /\ held' = [t \in TaskID |-> IF gone(t) THEN [m \in Mux |-> 0] ELSE held[t]]
        /\ order' = [t \in TaskID |-> IF gone(t) THEN <<>> ELSE order[t]]
        /\ arg' = [t \in TaskID |-> IF gone(t) THEN NoTask ELSE arg[t]]
        /\ base' = [t \in TaskID |-> IF born(t) THEN k'.prio[t]
                                     ELSE IF gone(t) THEN 0 ELSE base[t]]
  /\ UNCHANGED mux

MuxCall(c) ==
  \E m \in Mux :
    \/ LOS_MuxCreate(c, m) \/ LOS_MuxDelete(c, m)
    \/ MuxTake(c, m) \/ LOS_MuxPost(c, m)
    \/ \E timeout \in Timeouts : MuxWait(c, m, timeout)

MuxNext == TaskStep \/ \E c \in UserTask : MuxCall(c) \/ MuxReturn(c)

MuxSpec == MuxInit /\ [][MuxNext]_allVars

-----------------------------------------------------------------------------
(* Properties                                                              *)

\* Every variable holds values of its type.
MuxTypeOK ==
  /\ mux \in [Mux -> [used : BOOLEAN, count : 0 .. MAX_COUNT,
                      owner : TaskID \cup {NoTask}, saved : Prio]]
  /\ arg \in [TaskID -> Mux \cup {NoTask}]
  /\ held \in [TaskID -> [Mux -> 0 .. MAX_COUNT]]
  /\ order \in [TaskID -> Seq(Mux)] /\ base \in [TaskID -> Prio]

\* Mutual exclusion: a task that LOS_MuxPend has told that it has the mutex,
\* and that has not posted it as often since, is its owner, so no other task
\* is in the same position, whatever timeouts, suspensions and deletions came
\* in between.
HolderOwns ==
  \A t \in TaskID, m \in Mux :
    held[t][m] > 0 =>
      mux[m].used /\ mux[m].owner = t /\ held[t][m] <= mux[m].count

\* A post and a timeout never both end one wait, and neither is lost: the task
\* finds TIMEOUT set on its return exactly when it was not made the owner.
GrantOrTimeout ==
  \A t \in UserTask :
    pc[t] \in {"wait", "check"} =>
      IF IsOn(k.pend[arg[t]], t)
      THEN mux[arg[t]].owner # t
      ELSE "TIMEOUT" \in k.status[t] <=> mux[arg[t]].owner # t

\* No task waits for a mutex that nobody has: a release never forgets the
\* waiters.
NoForgottenWaiter ==
  \A m \in Mux :
    k.pend[m] # <<>> =>
      mux[m].used /\ mux[m].count > 0 /\ ~IsOn(k.pend[m], mux[m].owner)

\* Inheritance leaves no trace: a task that owns no mutex has the priority it
\* was created with.
PriorityRestored ==
  \A t \in UserTask :
    "UNUSED" \notin k.status[t] /\ (\A m \in Mux : mux[m].count > 0 => mux[m].owner # t)
      => k.prio[t] = base[t]

\* The owner of a mutex is at least as urgent as every task that waits for it.
OwnerInherits ==
  \A m \in Mux, t \in TaskID :
    IsOn(k.pend[m], t) => k.prio[mux[m].owner] <= k.prio[t]
=============================================================================
