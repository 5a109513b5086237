----------------------------- MODULE LosMuxProofs -----------------------------
(***************************************************************************)
(* Theorems about module LosMux, for every number of tasks, priorities,    *)
(* mutexes and nestings, every set of timeouts and calls, and tasks that   *)
(* release their mutexes in any order, under the two conditions of module  *)
(* LosTaskProofs: no handler preempts the tick interrupt, and none         *)
(* suspends a task.  That inheritance leaves no trace on the priorities    *)
(* takes three more, on the application: mutexes are released in the       *)
(* reverse order (Lifo), no task sets a priority (NoPriSet), and no        *)
(* control block of a deleted task is used again (NoRebirth).              *)
(***************************************************************************)
EXTENDS LosMux, LosTaskProofs

-----------------------------------------------------------------------------
(* The inductive invariant                                                 *)

\* Who is on a wait list is in a call for that mutex, and the other way round.
PendCalls == WaitsFor("PEND", k, pc, arg)

\* A mutex that is locked exists and has a task as its owner.
OwnerKnown ==
  \A m \in Mux : mux[m].count > 0 => mux[m].used /\ mux[m].owner \in TaskID

\* A task's order lists the mutexes that it believes it has, each once.
OrderExact ==
  \A t \in TaskID :
    /\ IsInjective(order[t])
    /\ \A m \in Mux : IsOn(order[t], m) <=> held[t][m] > 0

\* Whoever waits for a mutex does not believe that it has it, and once it is off
\* the list it is the owner or has timed out.
WaitOutcome ==
  \A t \in TaskID, m \in Mux :
    arg[t] = m =>
      /\ held[t][m] = 0
      /\ IF IsOn(k.pend[m], t)
         THEN mux[m].owner # t
         ELSE /\ "TIMEOUT" \in k.status[t] <=> mux[m].owner # t
              /\ mux[m].owner = t => mux[m].count > 0

\* Tasks wait only for a mutex that is locked.
WaitedHeld ==
  \A m \in Mux : k.pend[m] # <<>> => mux[m].count > 0

\* The parts about the mutexes themselves, and those about who waits.
MuxData == MuxTypeOK /\ OwnerKnown /\ OrderExact /\ HolderOwns
MuxWaiters == PendCalls /\ WaitOutcome /\ WaitedHeld

\* The inductive invariant.
MuxInv == IInv(FALSE) /\ MuxData /\ MuxWaiters

\* What the constants give the proofs.
LEMMA MuxFacts ==
  /\ Timeouts \subseteq (Nat \ {0}) \cup {WAIT_FOREVER} /\ MAX_COUNT \in Nat \ {0}
  /\ NoTask \notin PendObj /\ "PEND" \in Waiting /\ Mux = PendObj
BY MuxAssumption DEF Mux, Waiting

\* Nothing has been called before LOS_Start.
LEMMA MuxInitInv ==
  ASSUME MuxInit
  PROVE  MuxInv
<1>1. IInv(FALSE)
  BY InitInv DEF MuxInit
<1>2. /\ \A t \in TaskID : pc[t] = "app" /\ k.status[t] \subseteq {"READY", "UNUSED"}
      /\ \A m \in Mux : k.pend[m] = <<>>
  BY DEF MuxInit, Init, KernelInit, Mux
<1>3. \A t \in TaskID, m \in Mux : ~IsOn(k.pend[m], t)
  BY <1>2, EmptyList
<1>4. PendCalls
  BY <1>2, <1>3, MuxFacts DEF PendCalls, WaitsFor, Waiting, MuxInit
<1>5. WaitOutcome /\ WaitedHeld
  BY <1>2, MuxFacts DEF WaitOutcome, WaitedHeld, MuxInit
<1>6. MuxTypeOK
  <2>1. 0 \in Prio /\ LOWEST \in Prio
    BY LimitAssumption DEF Prio
  <2> QED BY <2>1, MuxFacts DEF MuxTypeOK, MuxInit, Unused
<1>7. OwnerKnown /\ HolderOwns
  BY DEF OwnerKnown, HolderOwns, MuxInit, Unused
<1>8. OrderExact
  BY EmptyList DEF OrderExact, MuxInit
<1> QED BY <1>1, <1>4, <1>5, <1>6, <1>7, <1>8 DEF MuxInv, MuxData, MuxWaiters

-----------------------------------------------------------------------------
(* The steps                                                               *)

\* A control block of a mutex.
MuxRec == [used : BOOLEAN, count : 0 .. MAX_COUNT, owner : TaskID \cup {NoTask}, saved : Prio]

\* The step sets the fields of m and of no other mutex.
SetTo(m, u, n, o, p) ==
  /\ mux'[m] = [used |-> u, count |-> n, owner |-> o, saved |-> p]
  /\ \A q \in Mux \ {m} : mux'[q] = mux[q]
  /\ mux' \in [Mux -> MuxRec]

\* What the assignments of the calls make of the control blocks.
LEMMA SetFields ==
  ASSUME mux \in [Mux -> MuxRec], NEW m \in Mux, NEW n \in 0 .. MAX_COUNT
  PROVE  /\ \A o \in TaskID, p \in Prio :
              mux' = [mux EXCEPT ![m].count = n, ![m].owner = o, ![m].saved = p] =>
                SetTo(m, mux[m].used, n, o, p)
         /\ mux' = [mux EXCEPT ![m].count = n] =>
              SetTo(m, mux[m].used, n, mux[m].owner, mux[m].saved)
         /\ mux' = [mux EXCEPT ![m].used = FALSE] =>
              SetTo(m, FALSE, mux[m].count, mux[m].owner, mux[m].saved)
         /\ mux' = [mux EXCEPT ![m] = [Unused EXCEPT !.used = TRUE]] => SetTo(m, TRUE, 0, NoTask, 0)
<1>1. ASSUME NEW o \in TaskID, NEW p \in Prio
      PROVE  mux' = [mux EXCEPT ![m].count = n, ![m].owner = o, ![m].saved = p] =>
               SetTo(m, mux[m].used, n, o, p)
  <2> DEFINE f == [mux EXCEPT ![m].count = n]
             g == [f EXCEPT ![m].owner = o]
             h == [g EXCEPT ![m].saved = p]
  <2>1. /\ f \in [Mux -> MuxRec] /\ \A q \in Mux \ {m} : f[q] = mux[q]
        /\ f[m].used = mux[m].used /\ f[m].count = n
    BY DEF MuxRec
  <2> HIDE DEF f
  <2>2. /\ g \in [Mux -> MuxRec] /\ \A q \in Mux \ {m} : g[q] = mux[q]
        /\ g[m].used = mux[m].used /\ g[m].count = n /\ g[m].owner = o
    BY <2>1 DEF MuxRec
  <2> HIDE DEF g
  <2>3. /\ h \in [Mux -> MuxRec] /\ \A q \in Mux \ {m} : h[q] = mux[q]
        /\ h[m] = [used |-> mux[m].used, count |-> n, owner |-> o, saved |-> p]
    BY <2>2 DEF MuxRec
  <2>4. h = [mux EXCEPT ![m].count = n, ![m].owner = o, ![m].saved = p]
    BY DEF f, g
  <2> HIDE DEF h
  <2> QED BY <2>3, <2>4 DEF SetTo
<1>2. mux' = [mux EXCEPT ![m].count = n] =>
        SetTo(m, mux[m].used, n, mux[m].owner, mux[m].saved)
  BY DEF MuxRec, SetTo
<1>3. mux' = [mux EXCEPT ![m].used = FALSE] =>
        SetTo(m, FALSE, mux[m].count, mux[m].owner, mux[m].saved)
  BY DEF MuxRec, SetTo
<1>4. mux' = [mux EXCEPT ![m] = [Unused EXCEPT !.used = TRUE]] => SetTo(m, TRUE, 0, NoTask, 0)
  <2>1. [Unused EXCEPT !.used = TRUE] = [used |-> TRUE, count |-> 0, owner |-> NoTask, saved |-> 0]
    <3>1. ASSUME NEW r \in MuxRec
          PROVE  [r EXCEPT !.used = TRUE] =
                   [used |-> TRUE, count |-> r.count, owner |-> r.owner, saved |-> r.saved]
      <4> DEFINE made == [r EXCEPT !.used = TRUE]
      <4>1. /\ made \in MuxRec /\ made.used = TRUE /\ made.count = r.count
            /\ made.owner = r.owner /\ made.saved = r.saved
        BY DEF MuxRec
      <4> HIDE DEF made
      <4>2. made = [used |-> made.used, count |-> made.count, owner |-> made.owner, saved |-> made.saved]
        BY <4>1 DEF MuxRec
      <4> QED BY <4>1, <4>2 DEF made
    <3>2. Unused \in MuxRec /\ Unused.count = 0 /\ Unused.owner = NoTask /\ Unused.saved = 0
      BY LimitAssumption, MuxFacts DEF Unused, MuxRec, Prio
    <3> QED BY <3>1, <3>2
  <2>2. [used |-> TRUE, count |-> 0, owner |-> NoTask, saved |-> 0] \in MuxRec
    BY LimitAssumption, MuxFacts DEF MuxRec, Prio
  <2> QED BY <2>1, <2>2 DEF SetTo
<1> QED BY <1>1, <1>2, <1>3, <1>4

\* What a believed mutex says of the mutex, one task and one mutex at a time.
LEMMA HoldsOne ==
  ASSUME MuxTypeOK, HolderOwns, NEW t \in TaskID, NEW m \in Mux
  PROVE  /\ mux \in [Mux -> MuxRec] /\ mux[m] \in MuxRec /\ mux[m].count \in Nat
         /\ held[t][m] \in Nat /\ held[t][m] <= mux[m].count
         /\ mux[m].owner # t => held[t][m] = 0
<1>1. /\ held[t][m] \in 0 .. MAX_COUNT /\ mux \in [Mux -> MuxRec] /\ mux[m] \in MuxRec
      /\ mux[m].count \in 0 .. MAX_COUNT /\ MAX_COUNT \in Nat
  BY MuxFacts DEF MuxTypeOK, MuxRec
<1>2. held[t][m] > 0 => mux[m].owner = t /\ held[t][m] <= mux[m].count
  BY DEF HolderOwns
<1> QED BY <1>1, <1>2

\* What a task knows of its call stays true while its call and the mutex do.
LEMMA OutcomeKept ==
  ASSUME NEW t \in TaskID, NEW m \in Mux, WaitOutcome, Untouched(t),
         arg'[t] = m => arg[t] = m, held'[t][m] = held[t][m], mux'[m].owner = mux[m].owner,
         mux'[m].count > 0 \/ mux'[m].count = mux[m].count, arg'[t] = m
  PROVE  /\ held'[t][m] = 0
         /\ IF IsOn(k'.pend[m], t)
            THEN mux'[m].owner # t
            ELSE /\ "TIMEOUT" \in k'.status[t] <=> mux'[m].owner # t
                 /\ mux'[m].owner = t => mux'[m].count > 0
BY DEF WaitOutcome, Untouched, WaitFlag, Mux

\* A step of the task manager ends waits, and begins none; a task that is deleted
\* forgets its mutexes, and they do not forget it.
LEMMA TaskStepInv ==
  ASSUME MuxInv, Unnested, NoIsrSuspend, TaskStep
  PROVE  MuxInv'
<1>1. IInv(FALSE)' /\ WaitersKept
  BY NextInv DEF MuxInv, TaskStep
<1>2. /\ held' = [t \in TaskID |-> IF "UNUSED" \in k'.status[t] THEN [m \in Mux |-> 0] ELSE held[t]]
      /\ order' = [t \in TaskID |-> IF "UNUSED" \in k'.status[t] THEN <<>> ELSE order[t]]
      /\ arg' = [t \in TaskID |-> IF "UNUSED" \in k'.status[t] THEN NoTask ELSE arg[t]]
      /\ base' = [t \in TaskID |-> IF "UNUSED" \in k.status[t] /\ "UNUSED" \notin k'.status[t]
                                   THEN k'.prio[t]
                                   ELSE IF "UNUSED" \in k'.status[t] THEN 0 ELSE base[t]]
      /\ mux' = mux
  BY DEF TaskStep
<1>3. /\ IInv(FALSE) /\ MuxTypeOK /\ OwnerKnown /\ OrderExact /\ HolderOwns
      /\ PendCalls /\ WaitOutcome /\ WaitedHeld
  BY DEF MuxInv, MuxData, MuxWaiters
<1>4. MuxTypeOK'
  <2>1. \A t \in TaskID : k'.prio[t] \in Prio
    BY <1>1 DEF IInv, TypeOK, KernelType
  <2>2. 0 \in Prio
    BY LimitAssumption DEF Prio
  <2>3. base' \in [TaskID -> Prio]
    BY <1>2, <1>3, <2>1, <2>2 DEF MuxTypeOK
  <2>4. held' \in [TaskID -> [Mux -> 0 .. MAX_COUNT]] /\ order' \in [TaskID -> Seq(Mux)]
    BY <1>2, <1>3, MuxFacts DEF MuxTypeOK
  <2>5. arg' \in [TaskID -> Mux \cup {NoTask}]
    BY <1>2, <1>3 DEF MuxTypeOK
  <2> QED BY <1>2, <1>3, <2>3, <2>4, <2>5 DEF MuxTypeOK
<1>5. OwnerKnown' /\ HolderOwns'
  BY <1>2, <1>3 DEF OwnerKnown, HolderOwns
<1>6. OrderExact'
  BY <1>2, <1>3, EmptyList DEF OrderExact
<1>7. PendCalls' /\ \A t \in TaskID : Untouched(t) => arg'[t] = arg[t]
  <2>1. /\ IInv(FALSE) /\ IInv(FALSE)' /\ WaitersKept /\ "PEND" \in Waiting /\ WaitsFor("PEND", k, pc, arg)
        /\ CallsLeft(arg, arg')
    BY <1>1, <1>2, <1>3, MuxFacts DEF PendCalls, CallsLeft, MuxInv
  <2>2. WaitsFor("PEND", k', pc', arg') /\ \A t \in TaskID : Untouched(t) => arg'[t] = arg[t]
    BY <2>1, TaskStepCalls
  <2> QED BY <2>2 DEF PendCalls
<1>8. WaitedHeld'
  <2>1. \A m \in Mux : k'.pend[m] # <<>> => k.pend[m] # <<>>
    BY <1>1, TaskStepOK DEF Mux
  <2> QED BY <1>2, <1>3, <2>1 DEF WaitedHeld
<1>9. WaitOutcome'
  <2> SUFFICES ASSUME NEW t \in TaskID, NEW m \in Mux, arg'[t] = m
               PROVE  /\ held'[t][m] = 0
                      /\ IF IsOn(k'.pend[m], t)
                         THEN mux'[m].owner # t
                         ELSE /\ "TIMEOUT" \in k'.status[t] <=> mux'[m].owner # t
                              /\ mux'[m].owner = t => mux'[m].count > 0
    BY DEF WaitOutcome
  <2>1. "UNUSED" \notin k'.status[t] /\ arg[t] = m /\ held'[t] = held[t]
    BY <1>2, MuxFacts
  <2>2. CASE Untouched(t)
    BY <1>2, <1>3, <2>1, <2>2, OutcomeKept
  <2>3. CASE TimedOut(t) /\ \A o \in PendObj : ~IsOn(k'.pend[o], t)
    <3>1. IsOn(k.pend[m], t)
      BY <1>3, <2>1, <2>3 DEF TimedOut, IInv, ListNodes, OneList, PendCalls, WaitsFor
    <3>2. ~IsOn(k'.pend[m], t) /\ "TIMEOUT" \in k'.status[t]
      BY <2>3 DEF TimedOut, Mux
    <3> QED BY <1>2, <1>3, <2>1, <3>1, <3>2 DEF WaitOutcome
  <2>4. CASE Created(t)
    <3>1. arg[t] = NoTask
      BY <1>3, <2>4, UnusedIdle DEF Created, IInv, PendCalls
    <3> QED BY <2>1, <3>1, MuxFacts
  <2>5. CASE Deleted(t)
    BY <2>1, <2>5 DEF Deleted
  <2>6. PICK u \in TaskID : /\ \A v \in TaskID \ {u} : Untouched(v)
                            /\ \/ Untouched(u)
                               \/ /\ Created(u) \/ Deleted(u) \/ TimedOut(u)
                                  /\ \A o \in PendObj : ~IsOn(k'.pend[o], u)
    BY <1>1, TaskStepOK
  <2> QED BY <2>2, <2>3, <2>4, <2>5, <2>6
<1> QED BY <1>1, <1>4, <1>5, <1>6, <1>7, <1>8, <1>9 DEF MuxInv, MuxData, MuxWaiters

\* Calls that change nothing but the mutex.
LEMMA DataInv ==
  ASSUME MuxInv, UNCHANGED <<vars, arg>>, MuxData', WaitOutcome', WaitedHeld'
  PROVE  MuxInv'
<1>1. IInv(FALSE)' /\ k' = k /\ pc' = pc /\ arg' = arg
  BY StutterOK DEF MuxInv, vars
<1>2. PendCalls'
  BY <1>1 DEF MuxInv, MuxWaiters, PendCalls
<1> QED BY <1>1, <1>2 DEF MuxInv, MuxWaiters

\* LOS_MuxCreate and LOS_MuxDelete meet a mutex that nobody has and nobody waits
\* for: whoever is still in a call for it has timed out.
LEMMA CreateDeleteInv ==
  ASSUME MuxInv, NEW c, NEW m \in Mux, LOS_MuxCreate(c, m) \/ LOS_MuxDelete(c, m)
  PROVE  MuxInv'
<1>1. /\ UNCHANGED <<vars, arg>> /\ k' = k /\ UNCHANGED <<arg, held, order, base>>
      /\ MuxTypeOK /\ OwnerKnown /\ OrderExact /\ HolderOwns /\ WaitOutcome /\ WaitedHeld
  BY DEF LOS_MuxCreate, LOS_MuxDelete, vars, MuxInv, MuxData, MuxWaiters
<1>2. /\ mux[m].count = 0 /\ mux'[m].count = 0 /\ mux'[m].owner \in {mux[m].owner, NoTask}
      /\ \A q \in Mux \ {m} : mux'[q] = mux[q]
      /\ mux' \in [Mux -> MuxRec]
  <2>1. 0 \in 0 .. MAX_COUNT /\ mux \in [Mux -> MuxRec]
    BY <1>1, MuxFacts DEF MuxTypeOK, MuxRec
  <2>2. CASE LOS_MuxCreate(c, m)
    <3>1. mux[m].count = 0
      <4>1. mux[m].count \in 0 .. MAX_COUNT /\ ~mux[m].used
        BY <2>1, <2>2 DEF LOS_MuxCreate, MuxRec
      <4> QED BY <1>1, <4>1, MuxFacts DEF OwnerKnown
    <3>2. SetTo(m, TRUE, 0, NoTask, 0)
      BY <2>1, <2>2, SetFields DEF LOS_MuxCreate
    <3> QED BY <3>1, <3>2 DEF SetTo
  <2>3. CASE LOS_MuxDelete(c, m)
    <3>1. mux[m].count = 0 /\ SetTo(m, FALSE, mux[m].count, mux[m].owner, mux[m].saved)
      BY <2>1, <2>3, SetFields DEF LOS_MuxDelete
    <3> QED BY <3>1 DEF SetTo
  <2> QED BY <2>2, <2>3
<1>3. \A t \in TaskID : held[t][m] = 0
  <2>1. ASSUME NEW t \in TaskID PROVE held[t][m] = 0
    BY <1>1, <1>2, HoldsOne
  <2> QED BY <2>1
<1>4. \A t \in TaskID, q \in Mux \ {m} : held'[t] = held[t] /\ mux'[q] = mux[q]
  BY <1>1, <1>2
<1>5. MuxTypeOK'
  BY <1>1, <1>2 DEF MuxTypeOK, MuxRec
<1>6. OwnerKnown' /\ HolderOwns' /\ OrderExact'
  BY <1>1, <1>2, <1>3, <1>4 DEF OwnerKnown, HolderOwns, OrderExact
<1>7. WaitedHeld'
  BY <1>1, <1>2 DEF WaitedHeld
<1>8. WaitOutcome'
  <2>1. ASSUME NEW t \in TaskID, arg[t] = m
        PROVE  ~IsOn(k.pend[m], t) /\ "TIMEOUT" \in k.status[t] /\ mux'[m].owner # t
    <3>1. ~IsOn(k.pend[m], t)
      BY <1>1, <1>2, EmptyList DEF WaitedHeld
    <3>2. mux[m].owner # t /\ "TIMEOUT" \in k.status[t]
      BY <1>1, <1>2, <2>1, <3>1 DEF WaitOutcome
    <3>3. t # NoTask
      BY ContextFacts
    <3> QED BY <1>2, <3>1, <3>2, <3>3
  <2> QED BY <1>1, <1>2, <1>3, <1>4, <2>1 DEF WaitOutcome
<1> QED BY <1>1, <1>5, <1>6, <1>7, <1>8, DataInv DEF MuxData

\* LOS_MuxPend returns LOS_OK to a task that has the mutex once more.
LEMMA GotOK ==
  ASSUME MuxTypeOK, OrderExact, NEW c \in TaskID, NEW m \in Mux, Got(c, m),
         held[c][m] < MAX_COUNT
  PROVE  /\ held' \in [TaskID -> [Mux -> 0 .. MAX_COUNT]] /\ order' \in [TaskID -> Seq(Mux)]
         /\ OrderExact' /\ held'[c][m] = held[c][m] + 1
         /\ \A t \in TaskID, q \in Mux : t # c \/ q # m => held'[t][q] = held[t][q]
<1>1. /\ held' = [held EXCEPT ![c][m] = @ + 1] /\ held \in [TaskID -> [Mux -> 0 .. MAX_COUNT]]
      /\ order' = IF held[c][m] = 0 THEN [order EXCEPT ![c] = Append(@, m)] ELSE order
      /\ order \in [TaskID -> Seq(Mux)] /\ MAX_COUNT \in Nat
  BY MuxFacts DEF Got, MuxTypeOK
<1>2. /\ held' \in [TaskID -> [Mux -> 0 .. MAX_COUNT]] /\ held'[c][m] = held[c][m] + 1
      /\ \A t \in TaskID, q \in Mux : t # c \/ q # m => held'[t][q] = held[t][q]
  BY <1>1
<1>3. CASE held[c][m] = 0
  <2>1. /\ \A t \in TaskID \ {c} : order'[t] = order[t]
        /\ order'[c] = Append(order[c], m) /\ order[c] \in Seq(Mux)
    BY <1>1, <1>3
  <2>2. /\ order'[c] \in Seq(Mux) /\ IsInjective(order'[c])
        /\ \A q : IsOn(order'[c], q) <=> IsOn(order[c], q) \/ q = m
    BY <1>3, <2>1, AppendList DEF OrderExact
  <2>3. order' \in [TaskID -> Seq(Mux)]
    BY <1>1, <1>3, <2>1, <2>2
  <2>4. OrderExact'
    BY <1>1, <1>2, <1>3, <2>1, <2>2 DEF OrderExact
  <2> QED BY <1>2, <2>3, <2>4
<1>4. CASE held[c][m] # 0
  <2>1. OrderExact'
    BY <1>1, <1>2, <1>4 DEF OrderExact
  <2> QED BY <1>1, <1>2, <1>4, <2>1
<1> QED BY <1>3, <1>4

\* LOS_MuxPend takes a mutex that is free or the caller's.
LEMMA TakeInv ==
  ASSUME MuxInv, NEW c \in UserTask, NEW m \in Mux, MuxTake(c, m)
  PROVE  MuxInv'
<1>1. /\ UNCHANGED <<vars, arg>> /\ k' = k /\ base' = base /\ arg' = arg /\ Got(c, m) /\ mux[m].used
      /\ IInv(FALSE) /\ MuxTypeOK /\ OwnerKnown /\ OrderExact /\ HolderOwns
      /\ PendCalls /\ WaitOutcome /\ WaitedHeld /\ c \in TaskID /\ pc[c] = "app"
  BY ContextFacts DEF MuxTake, MayMux, InApp, vars, MuxInv, MuxData, MuxWaiters
<1>2. /\ mux[m].count \in Nat /\ mux[m].count < MAX_COUNT /\ k.prio[c] \in Prio
      /\ held[c][m] \in Nat /\ MAX_COUNT \in Nat /\ mux \in [Mux -> MuxRec]
      /\ held[c][m] <= mux[m].count
  BY <1>1, MuxFacts, HoldsOne DEF MuxTake, IInv, TypeOK, KernelType
<1>3. /\ mux[m].count = 0 \/ mux[m].owner = c
      /\ mux' \in [Mux -> MuxRec]
      /\ mux'[m].used /\ mux'[m].owner = c /\ mux'[m].count = mux[m].count + 1
      /\ \A q \in Mux \ {m} : mux'[q] = mux[q]
  <2>1. CASE /\ mux[m].count = 0
             /\ mux' = [mux EXCEPT ![m].count = 1, ![m].owner = c, ![m].saved = k.prio[c]]
    <3>1. 1 \in 0 .. MAX_COUNT
      BY <1>2, MuxFacts
    <3>2. SetTo(m, mux[m].used, 1, c, k.prio[c])
      BY <1>1, <1>2, <2>1, <3>1, SetFields
    <3> QED BY <1>1, <2>1, <3>2 DEF SetTo
  <2>2. CASE /\ mux[m].owner = c
             /\ mux' = [mux EXCEPT ![m].count = @ + 1]
    <3>1. mux[m].count + 1 \in 0 .. MAX_COUNT
      BY <1>2
    <3>2. SetTo(m, mux[m].used, mux[m].count + 1, mux[m].owner, mux[m].saved)
      BY <1>1, <1>2, <2>2, <3>1, SetFields
    <3> QED BY <1>1, <2>2, <3>2 DEF SetTo
  <2> QED BY <2>1, <2>2 DEF MuxTake, Owns
<1>4. held[c][m] <= mux[m].count /\ held[c][m] < MAX_COUNT
  BY <1>2
<1>5. /\ held' \in [TaskID -> [Mux -> 0 .. MAX_COUNT]] /\ order' \in [TaskID -> Seq(Mux)]
      /\ OrderExact' /\ held'[c][m] = held[c][m] + 1
      /\ \A t \in TaskID, q \in Mux : t # c \/ q # m => held'[t][q] = held[t][q]
  BY <1>1, <1>2, <1>4, GotOK
<1>6. MuxTypeOK'
  BY <1>1, <1>3, <1>5 DEF MuxTypeOK, MuxRec
<1>7. OwnerKnown' /\ WaitedHeld'
  <2>1. \A q \in Mux : mux'[q].count > 0 => q = m \/ mux[q].count > 0
    BY <1>3
  <2>2. mux'[m].count > 0
    BY <1>2, <1>3
  <2> QED BY <1>1, <1>3, <2>1, <2>2 DEF OwnerKnown, WaitedHeld
<1>8. ASSUME NEW t \in TaskID \ {c}
      PROVE  held[t][m] = 0 /\ held'[t][m] = 0
  <2>1. held[t][m] = 0
    BY <1>1, <1>3, HoldsOne
  <2> QED BY <1>5, <2>1
<1>9. HolderOwns'
  <2> SUFFICES ASSUME NEW t \in TaskID, NEW q \in Mux, held'[t][q] > 0
               PROVE  mux'[q].used /\ mux'[q].owner = t /\ held'[t][q] <= mux'[q].count
    BY DEF HolderOwns
  <2>1. CASE q # m
    <3>1. held'[t][q] = held[t][q] /\ mux'[q] = mux[q]
      BY <1>3, <1>5, <2>1
    <3> QED BY <1>1, <3>1 DEF HolderOwns
  <2>2. CASE q = m
    <3>1. t = c
      BY <1>8, <2>2
    <3> QED BY <1>2, <1>3, <1>5, <2>2, <3>1
  <2> QED BY <2>1, <2>2
<1>10. WaitOutcome'
  <2> SUFFICES ASSUME NEW t \in TaskID, NEW q \in Mux, arg[t] = q
               PROVE  /\ held'[t][q] = 0
                      /\ IF IsOn(k.pend[q], t)
                         THEN mux'[q].owner # t
                         ELSE /\ "TIMEOUT" \in k.status[t] <=> mux'[q].owner # t
                              /\ mux'[q].owner = t => mux'[q].count > 0
    BY <1>1 DEF WaitOutcome
  <2>1. t # c
    BY <1>1, MuxFacts DEF PendCalls, WaitsFor
  <2>2. CASE q # m
    <3>1. held'[t][q] = held[t][q] /\ mux'[q] = mux[q]
      BY <1>3, <1>5, <2>2
    <3> QED BY <1>1, <3>1 DEF WaitOutcome
  <2>3. CASE q = m
    <3>1. held'[t][m] = 0 /\ mux'[m].owner # t
      BY <1>3, <1>8, <2>1
    <3>2. ~IsOn(k.pend[m], t) => "TIMEOUT" \in k.status[t]
      <4>1. mux[m].owner = t => mux[m].count = 0
        BY <1>3, <2>1
      <4> QED BY <1>1, <1>2, <2>3, <4>1 DEF WaitOutcome
    <3> QED BY <2>3, <3>1, <3>2
  <2> QED BY <2>2, <2>3
<1> QED BY <1>1, <1>5, <1>6, <1>7, <1>9, <1>10, DataInv DEF MuxData

\* Inheriting a priority, and giving it back, moves no task between the lists.
LEMMA InheritOK ==
  ASSUME IInv(FALSE), MuxTypeOK, NEW c \in TaskID, NEW m \in Mux
  PROVE  /\ mux[m].owner \in TaskID => SameNodes(Inherit(k, c, m))
         /\ SameNodes(Restore(k, c, m))
<1>1. KernelOK(k) /\ k.prio[c] \in Prio /\ mux[m].saved \in Prio
  BY InvKernel DEF MuxTypeOK, KernelType
<1>2. SameNodes(k)
  BY <1>1 DEF SameNodes, SameRest
<1>3. ASSUME NEW t \in TaskID, NEW p \in Prio, NEW r, r = osTaskPriModify(k, t, p)
      PROVE  SameNodes(r)
  <2>1. /\ KernelOK(r) /\ SameRest(k, r)
        /\ r.status = k.status /\ r.pend = k.pend
        /\ r.prio = [k.prio EXCEPT ![t] = p]
    BY <1>1, <1>3, PriModifyOK
  <2> QED BY <2>1 DEF SameNodes
<1>4. mux[m].owner \in TaskID => SameNodes(osTaskPriModify(k, mux[m].owner, k.prio[c]))
  BY <1>1, <1>3
<1>5. SameNodes(osTaskPriModify(k, c, mux[m].saved))
  BY <1>1, <1>3
<1> QED BY <1>2, <1>4, <1>5 DEF Inherit, Restore

\* LOS_MuxPend makes the caller wait for a mutex that another task has.
LEMMA WaitInv ==
  ASSUME MuxInv, NEW c \in UserTask, NEW m \in Mux, NEW n \in Timeouts, MuxWait(c, m, n)
  PROVE  MuxInv'
<1>1. /\ InApp(c) /\ mux[m].used /\ mux[m].count # 0 /\ ~Owns(c, m) /\ taskLock = 0
      /\ k' = osTaskWait(Inherit(k, c, m), c, m, "PEND", n) /\ pc' = [pc EXCEPT ![c] = "wait"]
      /\ arg' = [arg EXCEPT ![c] = m] /\ UNCHANGED <<sched, slice, scan>>
      /\ UNCHANGED <<mux, held, order, base>>
  BY DEF MuxWait, MayMux
<1>2. /\ IInv(FALSE) /\ MuxTypeOK /\ OwnerKnown /\ OrderExact /\ HolderOwns
      /\ PendCalls /\ WaitOutcome /\ WaitedHeld /\ c \in TaskID /\ pc[c] = "app"
      /\ pc \in [TaskID -> {"app", "enter", "sched", "wait", "check"}]
      /\ arg \in [TaskID -> Mux \cup {NoTask}]
  BY <1>1, ContextFacts DEF MuxInv, MuxData, MuxWaiters, InApp, IInv, TypeOK, MuxTypeOK
<1>3. /\ mux[m].count > 0 /\ mux[m].owner \in TaskID /\ mux[m].owner # c /\ held[c][m] = 0
  <2>1. mux[m].count \in Nat /\ mux[m].owner # c
    BY <1>1, <1>2, HoldsOne DEF Owns
  <2> QED BY <1>1, <1>2, <2>1, HoldsOne DEF OwnerKnown
<1>4. "TIMEOUT" \notin k.status[c]
  BY <1>2 DEF PendCalls, WaitsFor
<1>5. /\ SameNodes(Inherit(k, c, m)) /\ m \in PendObj /\ "PEND" \in Waiting
      /\ n \in (Nat \ {0}) \cup {WAIT_FOREVER}
  BY <1>2, <1>3, InheritOK, MuxFacts
<1>6. IInv(FALSE)' /\ BeginsWait(c, m, "PEND")
  BY <1>1, <1>2, <1>4, <1>5, WaitStep
<1>7. arg'[c] = m /\ pc'[c] = "wait" /\ \A t \in TaskID \ {c} : arg'[t] = arg[t]
  BY <1>1, <1>2
<1>8. PendCalls'
  BY <1>2, <1>5, <1>6, <1>7, MuxFacts, BeginsWaitCalls DEF PendCalls
<1>9. MuxData'
  <2>1. MuxTypeOK'
    BY <1>1, <1>2 DEF MuxTypeOK
  <2> QED BY <1>1, <1>2, <2>1 DEF MuxData, OwnerKnown, OrderExact, HolderOwns
<1>10. WaitedHeld'
  <2>1. ASSUME NEW q \in Mux, q # m, k'.pend[q] # <<>>
        PROVE  k.pend[q] # <<>>
    <3>1. k'.pend[q] \in Seq(TaskID) /\ q \in PendObj
      BY <1>6, MuxFacts DEF IInv, TypeOK, KernelType
    <3>2. IsOn(k'.pend[q], Head(k'.pend[q]))
      BY <2>1, <3>1, HeadIsOn
    <3>3. IsOn(k.pend[q], Head(k'.pend[q]))
      BY <1>6, <2>1, <3>1, <3>2 DEF BeginsWait
    <3> QED BY <3>3, EmptyList
  <2> QED BY <1>1, <1>2, <1>3, <2>1 DEF WaitedHeld
<1>11. WaitOutcome'
  <2> SUFFICES ASSUME NEW t \in TaskID, NEW q \in Mux, arg'[t] = q
               PROVE  /\ held'[t][q] = 0
                      /\ IF IsOn(k'.pend[q], t)
                         THEN mux'[q].owner # t
                         ELSE /\ "TIMEOUT" \in k'.status[t] <=> mux'[q].owner # t
                              /\ mux'[q].owner = t => mux'[q].count > 0
    BY DEF WaitOutcome
  <2>1. CASE t # c
    <3>1. Untouched(t) /\ arg'[t] = arg[t]
      BY <1>6, <1>7, <2>1 DEF BeginsWait
    <3> QED BY <1>1, <1>2, <3>1, OutcomeKept
  <2>2. CASE t = c
    <3>1. q = m /\ IsOn(k'.pend[m], c)
      BY <1>5, <1>6, <1>7, <2>2 DEF BeginsWait
    <3> QED BY <1>1, <1>3, <2>2, <3>1
  <2> QED BY <2>1, <2>2
<1> QED BY <1>6, <1>8, <1>9, <1>10, <1>11 DEF MuxInv, MuxWaiters

\* A call of LOS_MuxPend that has waited returns LOS_OK to the owner, and a
\* timeout to everybody else.
LEMMA ReturnInv ==
  ASSUME MuxInv, NEW c \in UserTask, MuxReturn(c)
  PROVE  MuxInv'
<1>1. /\ TaskRuns(c) /\ pc[c] = "check" /\ pc' = [pc EXCEPT ![c] = "app"]
      /\ arg' = [arg EXCEPT ![c] = NoTask] /\ UNCHANGED <<sched, slice, scan>> /\ FlagCleared(c)
      /\ mux' = mux /\ base' = base
      /\ \/ "TIMEOUT" \in k.status[c] /\ held' = held /\ order' = order
         \/ "TIMEOUT" \notin k.status[c] /\ Got(c, arg[c])
  BY DEF MuxReturn, FlagCleared
<1>2. /\ IInv(FALSE) /\ MuxTypeOK /\ OwnerKnown /\ OrderExact /\ HolderOwns
      /\ PendCalls /\ WaitOutcome /\ WaitedHeld /\ c \in TaskID
      /\ arg \in [TaskID -> Mux \cup {NoTask}]
  BY ContextFacts DEF MuxInv, MuxData, MuxWaiters, MuxTypeOK
<1>3. PICK m \in Mux : arg[c] = m
  BY <1>1, <1>2 DEF PendCalls, WaitsFor
<1>4. arg'[c] = NoTask /\ \A t \in TaskID \ {c} : arg'[t] = arg[t]
  BY <1>1, <1>2
<1>5. IInv(FALSE)' /\ Returned(c) /\ PendCalls'
  <2>1. WaitsFor("PEND", k, pc, arg) /\ CallOver(arg, arg', c)
    BY <1>2, <1>4 DEF PendCalls, CallOver
  <2>2. IInv(FALSE)' /\ Returned(c) /\ WaitsFor("PEND", k', pc', arg')
    BY <1>1, <1>2, <2>1, MuxFacts, ReturnCalls
  <2> QED BY <2>2 DEF PendCalls
<1>6. /\ held' \in [TaskID -> [Mux -> 0 .. MAX_COUNT]] /\ order' \in [TaskID -> Seq(Mux)]
      /\ OrderExact' /\ HolderOwns' /\ \A t \in TaskID \ {c} : held'[t] = held[t]
  <2>1. CASE "TIMEOUT" \in k.status[c] /\ held' = held /\ order' = order
    BY <1>1, <1>2, <2>1 DEF MuxTypeOK, OrderExact, HolderOwns
  <2>2. CASE "TIMEOUT" \notin k.status[c] /\ Got(c, m)
    <3>1. mux[m].owner = c /\ mux[m].count > 0 /\ held[c][m] = 0 /\ mux[m].used
      BY <1>2, <1>3, <1>5, <2>2, MuxFacts DEF WaitOutcome, Returned, OwnerKnown
    <3>2. held[c][m] < MAX_COUNT /\ mux[m].count \in Nat
      BY <1>2, <3>1, MuxFacts, HoldsOne
    <3>3. /\ held' \in [TaskID -> [Mux -> 0 .. MAX_COUNT]] /\ order' \in [TaskID -> Seq(Mux)]
          /\ OrderExact' /\ held'[c][m] = held[c][m] + 1
          /\ \A t \in TaskID, q \in Mux : t # c \/ q # m => held'[t][q] = held[t][q]
      BY <1>2, <2>2, <3>2, GotOK
    <3>4. HolderOwns'
      <4> SUFFICES ASSUME NEW t \in TaskID, NEW q \in Mux, held'[t][q] > 0
                   PROVE  mux'[q].used /\ mux'[q].owner = t /\ held'[t][q] <= mux'[q].count
        BY DEF HolderOwns
      <4>1. CASE t = c /\ q = m
        BY <1>1, <3>1, <3>2, <3>3, <4>1
      <4>2. CASE t # c \/ q # m
        <5>1. held'[t][q] = held[t][q]
          BY <3>3, <4>2
        <5> QED BY <1>1, <1>2, <5>1 DEF HolderOwns
      <4> QED BY <4>1, <4>2
    <3>5. \A t \in TaskID \ {c} : held'[t] = held[t]
      <4>1. held' = [held EXCEPT ![c][m] = @ + 1] /\ held \in [TaskID -> [Mux -> 0 .. MAX_COUNT]]
        BY <1>2, <2>2 DEF Got, MuxTypeOK
      <4> QED BY <4>1
    <3> QED BY <3>3, <3>4, <3>5
  <2> QED BY <1>1, <1>3, <2>1, <2>2
<1>7. MuxData'
  <2>1. MuxTypeOK'
    BY <1>1, <1>2, <1>6 DEF MuxTypeOK
  <2> QED BY <1>1, <1>2, <1>6, <2>1 DEF MuxData, OwnerKnown
<1>8. WaitedHeld'
  BY <1>1, <1>2, <1>5 DEF WaitedHeld, Returned
<1>9. WaitOutcome'
  <2> SUFFICES ASSUME NEW t \in TaskID, NEW q \in Mux, arg'[t] = q
               PROVE  /\ held'[t][q] = 0
                      /\ IF IsOn(k'.pend[q], t)
                         THEN mux'[q].owner # t
                         ELSE /\ "TIMEOUT" \in k'.status[t] <=> mux'[q].owner # t
                              /\ mux'[q].owner = t => mux'[q].count > 0
    BY DEF WaitOutcome
  <2>1. t # c
    BY <1>4, MuxFacts
  <2>2. Untouched(t) /\ arg'[t] = arg[t] /\ held'[t] = held[t]
    BY <1>4, <1>5, <1>6, <2>1 DEF Returned
  <2> QED BY <1>1, <1>2, <2>2, OutcomeKept
<1> QED BY <1>5, <1>7, <1>8, <1>9 DEF MuxInv, MuxWaiters

\* LOS_MuxPost takes one back from what the caller believes it holds.
TakesBack(c, m) ==
  /\ held' = [held EXCEPT ![c][m] = IF @ > 0 THEN @ - 1 ELSE 0]
  /\ order' = IF held[c][m] = 1 THEN [order EXCEPT ![c] = RemoveFirst(@, m)] ELSE order

\* What that leaves.
HeldLess(c, m) ==
  /\ held' \in [TaskID -> [Mux -> 0 .. MAX_COUNT]] /\ order' \in [TaskID -> Seq(Mux)]
  /\ OrderExact' /\ held'[c][m] = IF held[c][m] > 0 THEN held[c][m] - 1 ELSE 0
  /\ \A t \in TaskID, q \in Mux : t # c \/ q # m => held'[t][q] = held[t][q]

\* The book-keeping of a post: one hold less, and the order without it.
LEMMA PostedOK ==
  ASSUME MuxTypeOK, OrderExact, NEW c \in TaskID, NEW m \in Mux, TakesBack(c, m)
  PROVE  HeldLess(c, m)
<1> USE DEF TakesBack, HeldLess
<1>1. /\ held \in [TaskID -> [Mux -> 0 .. MAX_COUNT]] /\ order \in [TaskID -> Seq(Mux)]
      /\ MAX_COUNT \in Nat /\ held[c][m] \in 0 .. MAX_COUNT /\ order[c] \in Seq(Mux)
  BY MuxFacts DEF MuxTypeOK
<1>2. /\ held'[c][m] = IF held[c][m] > 0 THEN held[c][m] - 1 ELSE 0
      /\ \A t \in TaskID, q \in Mux : t # c \/ q # m => held'[t][q] = held[t][q]
  BY <1>1
<1>3. held' \in [TaskID -> [Mux -> 0 .. MAX_COUNT]]
  <2>1. (IF held[c][m] > 0 THEN held[c][m] - 1 ELSE 0) \in 0 .. MAX_COUNT
    BY <1>1
  <2> QED BY <1>1, <2>1
<1>4. CASE held[c][m] = 1
  <2>1. /\ \A t \in TaskID \ {c} : order'[t] = order[t]
        /\ order'[c] = Without(order[c], m)
    BY <1>1, <1>4 DEF Without
  <2>2. /\ order'[c] \in Seq(Mux) /\ IsInjective(order'[c])
        /\ \A q : IsOn(order'[c], q) <=> IsOn(order[c], q) /\ q # m
    BY <1>1, <2>1, WithoutList DEF OrderExact
  <2>3. order' \in [TaskID -> Seq(Mux)]
    BY <1>1, <1>4, <2>1, <2>2
  <2>4. held'[c][m] = 0
    BY <1>2, <1>4
  <2>5. OrderExact'
    BY <1>2, <2>1, <2>2, <2>4 DEF OrderExact
  <2> QED BY <1>2, <1>3, <2>3, <2>5
<1>5. CASE held[c][m] # 1
  <2>1. held'[c][m] > 0 <=> held[c][m] > 0
    BY <1>1, <1>2, <1>5
  <2>2. OrderExact'
    BY <1>2, <1>5, <2>1 DEF OrderExact
  <2> QED BY <1>1, <1>2, <1>3, <1>5, <2>2
<1> QED BY <1>4, <1>5

\* What LOS_MuxPost is about, whatever it goes on to do: the caller runs, owns
\* the mutex, and believes to hold it once less than before.
Posting(c, m) ==
  /\ InApp(c) /\ mux[m].used /\ mux[m].owner = c /\ mux[m].count > 0
  /\ arg' = arg /\ base' = base /\ UNCHANGED <<sched, slice, scan>>
  /\ HeldLess(c, m) /\ \A t \in TaskID : held[t][m] \in Nat /\ held[t][m] <= mux[m].count
  /\ \A t \in TaskID \ {c} : held[t][m] = 0 /\ held'[t][m] = 0
  /\ arg[c] = NoTask /\ ~InCall(c)

\* A post is the giving up of a hold by the owner, then the wake-up or the release.
LEMMA PostFacts ==
  ASSUME MuxInv, NEW c \in UserTask, NEW m \in Mux, LOS_MuxPost(c, m)
  PROVE  Posting(c, m)
<1>1. /\ IInv(FALSE) /\ MuxTypeOK /\ OwnerKnown /\ OrderExact /\ HolderOwns /\ PendCalls
      /\ InApp(c) /\ mux[m].used /\ mux[m].owner = c /\ mux[m].count # 0 /\ c \in TaskID
      /\ arg' = arg /\ base' = base /\ UNCHANGED <<sched, slice, scan>>
      /\ TakesBack(c, m)
  BY ContextFacts DEF MuxInv, MuxData, MuxWaiters, LOS_MuxPost, MayMux, Owns, TakesBack
<1>2. HeldLess(c, m)
  BY <1>1, PostedOK
<1>3. ASSUME NEW t \in TaskID
      PROVE  /\ held[t][m] \in Nat /\ held[t][m] <= mux[m].count
             /\ mux[m].count \in Nat /\ (t # c => held[t][m] = 0)
  BY <1>1, HoldsOne
<1>4. mux[m].count > 0
  BY <1>1, <1>3
<1>5. \A t \in TaskID \ {c} : held[t][m] = 0 /\ held'[t][m] = 0
  BY <1>2, <1>3 DEF HeldLess
<1>6. pc[c] = "app" /\ ~InCall(c) /\ arg[c] = NoTask
  BY <1>1 DEF InApp, InCall, PendCalls, WaitsFor
<1> QED BY <1>1, <1>2, <1>3, <1>4, <1>5, <1>6 DEF Posting

\* The parts about the mutexes follow when m is left with o as its owner and a
\* count that covers what o believes.
LEMMA PostData ==
  ASSUME MuxInv, NEW c \in UserTask, NEW m \in Mux, Posting(c, m),
         NEW n \in 0 .. MAX_COUNT, NEW o \in TaskID, NEW p \in Prio, SetTo(m, mux[m].used, n, o, p),
         \A t \in TaskID : held'[t][m] > 0 => o = t /\ held'[t][m] <= n
  PROVE  MuxData'
<1>1. /\ MuxTypeOK /\ OwnerKnown /\ OrderExact /\ HolderOwns /\ c \in TaskID
      /\ mux'[m].used = mux[m].used /\ mux'[m].count = n /\ mux'[m].owner = o /\ mux[m].used
      /\ \A q \in Mux \ {m} : mux'[q] = mux[q]
      /\ mux' \in [Mux -> MuxRec]
  BY ContextFacts DEF MuxInv, MuxData, SetTo, Posting
<1>2. MuxTypeOK'
  BY <1>1 DEF MuxTypeOK, MuxRec, Posting, HeldLess
<1>3. OwnerKnown'
  BY <1>1 DEF OwnerKnown
<1>4. HolderOwns'
  <2> SUFFICES ASSUME NEW t \in TaskID, NEW q \in Mux, held'[t][q] > 0
               PROVE  mux'[q].used /\ mux'[q].owner = t /\ held'[t][q] <= mux'[q].count
    BY DEF HolderOwns
  <2>1. CASE q = m
    BY <1>1, <2>1
  <2>2. CASE q # m
    <3>1. held'[t][q] = held[t][q] /\ mux'[q] = mux[q]
      BY <1>1, <2>2 DEF Posting, HeldLess
    <3> QED BY <1>1, <3>1 DEF HolderOwns
  <2> QED BY <2>1, <2>2
<1> QED BY <1>2, <1>3, <1>4 DEF MuxData, Posting, HeldLess

\* The post of a task that has the mutex more than once.
LEMMA PostNested ==
  ASSUME MuxInv, NEW c \in UserTask, NEW m \in Mux, Posting(c, m), UNCHANGED <<k, pc>>,
         mux[m].count - 1 # 0, mux' = [mux EXCEPT ![m].count = @ - 1]
  PROVE  MuxInv'
<1>1. /\ MuxTypeOK /\ WaitOutcome /\ WaitedHeld /\ c \in TaskID /\ mux \in [Mux -> MuxRec]
      /\ UNCHANGED <<vars, arg>> /\ k' = k /\ arg' = arg
      /\ mux[m].owner = c /\ mux[m].count > 0
  BY ContextFacts DEF MuxInv, MuxData, MuxWaiters, MuxTypeOK, MuxRec, vars, Posting
<1>2. mux[m].count \in 0 .. MAX_COUNT /\ mux[m].saved \in Prio /\ MAX_COUNT \in Nat
  BY <1>1, MuxFacts DEF MuxRec
<1>3. mux[m].count - 1 \in 0 .. MAX_COUNT /\ mux[m].count - 1 > 0
  BY <1>1, <1>2
<1>4. SetTo(m, mux[m].used, mux[m].count - 1, c, mux[m].saved)
  BY <1>1, <1>3, SetFields
<1>5. \A t \in TaskID : held'[t][m] > 0 => c = t /\ held'[t][m] <= mux[m].count - 1
  <2>1. /\ held'[c][m] = (IF held[c][m] > 0 THEN held[c][m] - 1 ELSE 0)
        /\ held[c][m] \in Nat /\ held[c][m] <= mux[m].count
        /\ \A t \in TaskID \ {c} : held'[t][m] = 0
    BY <1>1 DEF Posting, HeldLess
  <2> QED BY <1>2, <1>3, <2>1
<1>6. MuxData'
  BY <1>1, <1>2, <1>3, <1>4, <1>5, PostData
<1>7. \A q \in Mux : mux'[q].owner = mux[q].owner /\ (mux'[q].count > 0 <=> mux[q].count > 0)
  BY <1>1, <1>3, <1>4 DEF SetTo
<1>8. WaitedHeld'
  BY <1>1, <1>7 DEF WaitedHeld
<1>9. \A t \in TaskID, q \in Mux : arg[t] = q => held'[t][q] = held[t][q]
  BY <1>1, MuxFacts DEF Posting, HeldLess
<1>10. WaitOutcome'
  BY <1>1, <1>7, <1>9 DEF WaitOutcome
<1> QED BY <1>1, <1>6, <1>8, <1>10, DataInv

\* The last post of a mutex that nobody waits for.
LEMMA PostFree ==
  ASSUME MuxInv, NEW c \in UserTask, NEW m \in Mux, Posting(c, m), mux[m].count = 1,
         k' = Restore(k, c, m), k'.pend[m] = <<>>, pc' = pc, mux' = [mux EXCEPT ![m].count = 0]
  PROVE  MuxInv'
<1>1. /\ IInv(FALSE) /\ MuxTypeOK /\ WaitOutcome /\ WaitedHeld /\ PendCalls /\ c \in TaskID
      /\ mux \in [Mux -> MuxRec] /\ arg' = arg /\ mux[m].owner = c /\ InApp(c)
      /\ UNCHANGED <<sched, slice, scan, pc>>
  BY ContextFacts DEF MuxInv, MuxData, MuxWaiters, MuxTypeOK, MuxRec, Posting
<1>2. SameNodes(k')
  BY <1>1, InheritOK
<1>3. IInv(FALSE)' /\ \A t \in TaskID : Untouched(t)
  BY <1>1, <1>2, PriorityStep
<1>4. k'.pend = k.pend /\ k'.status = k.status
  BY <1>2 DEF SameNodes
<1>5. 0 \in 0 .. MAX_COUNT /\ mux[m].saved \in Prio
  BY <1>1, MuxFacts DEF MuxRec
<1>6. SetTo(m, mux[m].used, 0, c, mux[m].saved)
  BY <1>1, <1>5, SetFields
<1>7. \A t \in TaskID : held'[t][m] = 0
  <2>1. /\ held'[c][m] = (IF held[c][m] > 0 THEN held[c][m] - 1 ELSE 0)
        /\ held[c][m] \in Nat /\ held[c][m] <= 1
        /\ \A t \in TaskID \ {c} : held'[t][m] = 0
    BY <1>1 DEF Posting, HeldLess
  <2> QED BY <2>1
<1>8. MuxData'
  <2>1. \A t \in TaskID : held'[t][m] > 0 => c = t /\ held'[t][m] <= 0
    BY <1>7
  <2> QED BY <1>1, <1>5, <1>6, <2>1, PostData
<1>9. mux'[m].owner = c /\ \A q \in Mux \ {m} : mux'[q] = mux[q]
  BY <1>6 DEF SetTo
<1>10. WaitedHeld'
  BY <1>1, <1>4, <1>9 DEF WaitedHeld
<1>11. PendCalls'
  BY <1>1, <1>4 DEF PendCalls, WaitsFor
<1>12. WaitOutcome'
  <2> SUFFICES ASSUME NEW t \in TaskID, NEW q \in Mux, arg[t] = q
               PROVE  /\ held'[t][q] = 0
                      /\ IF IsOn(k.pend[q], t)
                         THEN mux'[q].owner # t
                         ELSE /\ "TIMEOUT" \in k.status[t] <=> mux'[q].owner # t
                              /\ mux'[q].owner = t => mux'[q].count > 0
    BY <1>1, <1>4 DEF WaitOutcome
  <2>1. t # c
    BY MuxFacts DEF Posting
  <2>2. held'[t][q] = held[t][q] /\ mux'[q].owner = mux[q].owner
    BY <1>1, <1>9, <2>1 DEF Posting, HeldLess
  <2>3. mux'[q].owner = t => mux'[q] = mux[q]
    BY <1>9, <2>1
  <2>4. /\ held[t][q] = 0
        /\ IF IsOn(k.pend[q], t)
           THEN mux[q].owner # t
           ELSE /\ "TIMEOUT" \in k.status[t] <=> mux[q].owner # t
                /\ mux[q].owner = t => mux[q].count > 0
    BY <1>1 DEF WaitOutcome
  <2> QED BY <2>2, <2>3, <2>4
<1> QED BY <1>3, <1>8, <1>10, <1>11, <1>12 DEF MuxInv, MuxWaiters

\* The last post of a mutex makes the first waiter its owner.
LEMMA PostGrant ==
  ASSUME MuxInv, Unnested, NEW c \in UserTask, NEW m \in Mux, Posting(c, m), mux[m].count = 1,
         NEW kk, kk = Restore(k, c, m), kk.pend[m] # <<>>, NEW u, u = Head(kk.pend[m]),
         mux' = [mux EXCEPT ![m].count = 1, ![m].owner = u, ![m].saved = kk.prio[u]],
         k' = osTaskWake(kk, u, "PEND"), pc' = [pc EXCEPT ![c] = "sched"]
  PROVE  MuxInv'
<1>1. /\ IInv(FALSE) /\ MuxTypeOK /\ WaitOutcome /\ WaitedHeld /\ PendCalls /\ c \in TaskID
      /\ mux \in [Mux -> MuxRec] /\ arg' = arg /\ mux[m].owner = c /\ InApp(c)
      /\ UNCHANGED <<sched, slice, scan>>
  BY ContextFacts DEF MuxInv, MuxData, MuxWaiters, MuxTypeOK, MuxRec, Posting
<1>2. SameNodes(kk) /\ kk.pend = k.pend
  BY <1>1, InheritOK DEF SameNodes
<1>3. WaitsAt("PEND", arg, m, u)
  <2>1. WaitsFor("PEND", k, pc, arg) /\ m \in PendObj /\ NoTask \notin PendObj
    BY <1>1, MuxFacts DEF PendCalls
  <2> QED BY <1>1, <1>2, <2>1, MuxFacts, WaiterFacts
<1>4. /\ u \in TaskID /\ IsOn(k.pend[m], u) /\ arg[u] = m /\ InCall(u)
      /\ k.status[u] \cap Waiting = {"PEND"} /\ kk.prio[u] \in Prio /\ 1 \in 0 .. MAX_COUNT
  BY <1>2, <1>3, MuxFacts DEF WaitsAt, SameNodes, KernelOK, KernelType
<1>5. u # c
  BY <1>4 DEF Posting
<1>6. /\ Then_LOS_Schedule(c) /\ scan.at = "off" /\ scheduled
      /\ UNCHANGED <<runTask, taskLock, scheduled, making, slice, scan>>
  BY <1>1, ContextFacts DEF Then_LOS_Schedule, sched, InApp, TaskRuns
<1>7. IInv(FALSE)' /\ EndsWait(u)
  BY <1>1, <1>2, <1>4, <1>6, MuxFacts, WakeStep
<1>8. /\ \A t \in TaskID \ {u} : Untouched(t)
      /\ "TIMEOUT" \notin k'.status[u]
      /\ \A q \in PendObj : \A t : IsOn(k'.pend[q], t) <=> IsOn(k.pend[q], t) /\ t # u
  BY <1>7 DEF EndsWait, WaitFlag
<1>9. PendCalls'
  BY <1>1, <1>4, <1>7, EndsWaitCalls DEF PendCalls
<1>10. SetTo(m, mux[m].used, 1, u, kk.prio[u])
  BY <1>1, <1>4, SetFields
<1>11. /\ mux'[m].owner = u /\ mux'[m].count = 1
       /\ \A q \in Mux \ {m} : mux'[q] = mux[q]
  BY <1>10 DEF SetTo
<1>12. MuxData'
  <2>1. /\ held'[c][m] = (IF held[c][m] > 0 THEN held[c][m] - 1 ELSE 0)
        /\ held[c][m] \in Nat /\ held[c][m] <= 1
        /\ \A t \in TaskID \ {c} : held'[t][m] = 0
    BY <1>1 DEF Posting, HeldLess
  <2>2. \A t \in TaskID : held'[t][m] > 0 => u = t /\ held'[t][m] <= 1
    BY <2>1
  <2> QED BY <1>1, <1>4, <1>10, <2>2, PostData
<1>13. WaitedHeld'
  <2>1. ASSUME NEW q \in Mux, k'.pend[q] # <<>>
        PROVE  k.pend[q] # <<>>
    <3>1. k'.pend[q] \in Seq(TaskID) /\ q \in PendObj
      BY <1>7, MuxFacts DEF IInv, TypeOK, KernelType
    <3>2. IsOn(k'.pend[q], Head(k'.pend[q]))
      BY <2>1, <3>1, HeadIsOn
    <3>3. IsOn(k.pend[q], Head(k'.pend[q]))
      BY <1>8, <3>1, <3>2
    <3> QED BY <3>3, EmptyList
  <2> QED BY <1>1, <1>11, <2>1 DEF WaitedHeld
<1>14. WaitOutcome'
  <2> SUFFICES ASSUME NEW t \in TaskID, NEW q \in Mux, arg'[t] = q
               PROVE  /\ held'[t][q] = 0
                      /\ IF IsOn(k'.pend[q], t)
                         THEN mux'[q].owner # t
                         ELSE /\ "TIMEOUT" \in k'.status[t] <=> mux'[q].owner # t
                              /\ mux'[q].owner = t => mux'[q].count > 0
    BY DEF WaitOutcome
  <2>1. t # c /\ held'[t][q] = held[t][q] /\ arg[t] = q
    BY <1>1, MuxFacts DEF Posting, HeldLess
  <2>2. CASE t = u
    <3>1. q = m /\ ~IsOn(k'.pend[m], u)
      BY <1>4, <1>8, <2>1, <2>2, MuxFacts
    <3>2. held[u][m] = 0
      BY <1>1, <1>4 DEF WaitOutcome
    <3>3. held'[t][q] = 0 /\ "TIMEOUT" \notin k'.status[t] /\ mux'[q].owner = t
      BY <1>8, <1>11, <2>1, <2>2, <3>1, <3>2
    <3>4. mux'[q].count > 0 /\ ~IsOn(k'.pend[q], t)
      BY <1>11, <2>2, <3>1
    <3> QED BY <3>3, <3>4
  <2>3. CASE t # u /\ q # m
    <3>1. Untouched(t) /\ mux'[q] = mux[q]
      BY <1>8, <1>11, <2>3
    <3> QED BY <1>1, <2>1, <3>1, OutcomeKept
  <2>4. CASE t # u /\ q = m
    <3>1. Untouched(t) /\ mux'[m].owner # t /\ mux[m].owner # t
      BY <1>1, <1>8, <1>11, <2>1, <2>4
    <3>2. held[t][m] = 0 /\ (~IsOn(k.pend[m], t) => "TIMEOUT" \in k.status[t])
      BY <1>1, <2>1, <2>4, <3>1 DEF WaitOutcome
    <3>3. ~IsOn(k'.pend[m], t) => "TIMEOUT" \in k'.status[t]
      BY <3>1, <3>2, MuxFacts DEF Untouched, WaitFlag
    <3> QED BY <2>1, <2>4, <3>1, <3>2, <3>3
  <2> QED BY <2>2, <2>3, <2>4
<1> QED BY <1>7, <1>9, <1>12, <1>13, <1>14 DEF MuxInv, MuxWaiters

\* Every post.
LEMMA PostInv ==
  ASSUME MuxInv, Unnested, NEW c \in UserTask, NEW m \in Mux, LOS_MuxPost(c, m)
  PROVE  MuxInv'
<1>1. Posting(c, m)
  BY PostFacts
<1>2. CASE mux[m].count - 1 # 0
  <2>1. mux' = [mux EXCEPT ![m].count = @ - 1] /\ UNCHANGED <<k, pc>>
    BY <1>2 DEF LOS_MuxPost
  <2> QED BY <1>1, <1>2, <2>1, PostNested
<1>3. CASE mux[m].count - 1 = 0
  <2>1. MuxRelease(c, m)
    BY <1>3 DEF LOS_MuxPost
  <2>2. mux[m].count = 1
    <3>1. MuxTypeOK /\ HolderOwns /\ c \in TaskID
      BY ContextFacts DEF MuxInv, MuxData
    <3>2. mux[m].count \in Nat
      BY <3>1, HoldsOne
    <3> QED BY <1>3, <3>2
  <2>3. PICK kk : kk = Restore(k, c, m)
    OBVIOUS
  <2>4. CASE kk.pend[m] = <<>>
    <3>1. mux' = [mux EXCEPT ![m].count = 0] /\ k' = kk /\ pc' = pc
      BY <2>1, <2>3, <2>4 DEF MuxRelease
    <3> QED BY <1>1, <2>2, <2>3, <2>4, <3>1, PostFree
  <2>5. CASE kk.pend[m] # <<>>
    <3>1. PICK u : u = Head(kk.pend[m])
      OBVIOUS
    <3>2. /\ mux' = [mux EXCEPT ![m].count = 1, ![m].owner = u, ![m].saved = kk.prio[u]]
          /\ k' = osTaskWake(kk, u, "PEND") /\ pc' = [pc EXCEPT ![c] = "sched"]
      BY <2>1, <2>3, <2>5, <3>1 DEF MuxRelease
    <3> QED BY <1>1, <2>2, <2>3, <2>5, <3>1, <3>2, PostGrant
  <2> QED BY <2>4, <2>5
<1> QED BY <1>2, <1>3

\* Every step keeps the invariant.
LEMMA MuxNextInv ==
  ASSUME MuxInv, Unnested, NoIsrSuspend, [MuxNext]_allVars
  PROVE  MuxInv'
<1>1. CASE TaskStep
  BY <1>1, TaskStepInv
<1>2. ASSUME NEW c \in UserTask, MuxCall(c)
      PROVE  MuxInv'
  <2>1. PICK m \in Mux :
          \/ LOS_MuxCreate(c, m) \/ LOS_MuxDelete(c, m)
          \/ MuxTake(c, m) \/ LOS_MuxPost(c, m)
          \/ \E timeout \in Timeouts : MuxWait(c, m, timeout)
    BY <1>2 DEF MuxCall
  <2> QED BY <2>1, CreateDeleteInv, TakeInv, PostInv, WaitInv
<1>3. ASSUME NEW c \in UserTask, MuxReturn(c)
      PROVE  MuxInv'
  BY <1>3, ReturnInv
<1>4. CASE UNCHANGED allVars
  <2>1. UNCHANGED <<vars, arg>> /\ UNCHANGED <<mux, held, order, base>> /\ k' = k /\ arg' = arg
    BY <1>4 DEF allVars, muxVars, vars
  <2>2. MuxData'
    BY <2>1 DEF MuxInv, MuxData, MuxTypeOK, OwnerKnown, OrderExact, HolderOwns
  <2>3. WaitOutcome' /\ WaitedHeld'
    BY <2>1 DEF MuxInv, MuxWaiters, WaitOutcome, WaitedHeld
  <2> QED BY <2>1, <2>2, <2>3, DataInv
<1> QED BY <1>1, <1>2, <1>3, <1>4 DEF MuxNext

-----------------------------------------------------------------------------
(* Priorities come back                                                    *)

\* The control block is a task's.
Live(t) == "UNUSED" \notin k.status[t]

\* A live task owns the mutexes it believes it has, as often as it believes, and
\* perhaps one that its call of LOS_MuxPend has been granted and not yet returned.
HeldExact(t) ==
  \A m \in Mux :
    Owns(t, m) => held[t][m] = mux[m].count \/ (arg[t] = m /\ mux[m].count = 1)

\* The first mutex a task got keeps the priority that the task was created with.
FirstSavedBase(t) ==
  \A m \in Mux :
    Owns(t, m) /\ (order[t] = <<>> \/ Head(order[t]) = m) => mux[m].saved = base[t]

\* A task that owns none has that priority.
FreeAtBase(t) == (\A m \in Mux : ~Owns(t, m)) => k.prio[t] = base[t]

\* Only tasks that were deleted leave mutexes to an unused control block.
LeftBehind(t) ==
  \A m \in Mux : Owns(t, m) => scheduled /\ "delete" \in Calls \cup IsrCalls

PrioOf(t) ==
  IF Live(t) THEN HeldExact(t) /\ FirstSavedBase(t) /\ FreeAtBase(t) ELSE LeftBehind(t)

\* The inductive invariant of the inheritance of priorities, beside MuxInv.
PrioInv == \A t \in TaskID : PrioOf(t)

\* The step is none of the task's business.
PrioSame(t) ==
  /\ Live(t)' <=> Live(t)
  /\ held'[t] = held[t] /\ order'[t] = order[t] /\ base'[t] = base[t]
  /\ \A m \in Mux : Owns(t, m)' <=> Owns(t, m)
  /\ \A m \in Mux : Owns(t, m) => mux'[m] = mux[m] /\ (arg[t] = m => arg'[t] = m)
  /\ k'.prio[t] = k.prio[t] \/ \E m \in Mux : Owns(t, m)

\* What does not concern a task keeps its part of the invariant.
LEMMA PrioFrame ==
  ASSUME NEW t \in TaskID, PrioOf(t), PrioSame(t), scheduled => scheduled'
  PROVE  PrioOf(t)'
<1>1. CASE Live(t)
  <2>1. HeldExact(t) /\ FirstSavedBase(t) /\ FreeAtBase(t) /\ Live(t)'
    BY <1>1 DEF PrioOf, PrioSame
  <2>2. HeldExact(t)'
    BY <2>1 DEF HeldExact, PrioSame
  <2>3. FirstSavedBase(t)'
    BY <2>1 DEF FirstSavedBase, PrioSame
  <2>4. FreeAtBase(t)'
    BY <2>1 DEF FreeAtBase, PrioSame
  <2> QED BY <2>1, <2>2, <2>3, <2>4 DEF PrioOf
<1>2. CASE ~Live(t)
  BY <1>2 DEF PrioOf, PrioSame, LeftBehind
<1> QED BY <1>1, <1>2

\* What a task has on its order it owns, and a task in its own code has no other.
LEMMA OrderOwned ==
  ASSUME MuxInv, NEW t \in TaskID
  PROVE  /\ IsInjective(order[t]) /\ order[t] \in Seq(Mux)
         /\ \A m \in Mux : IsOn(order[t], m) => Owns(t, m) /\ held[t][m] > 0
         /\ \A m \in Mux : held[t][m] > 0 => IsOn(order[t], m)
         /\ arg[t] = NoTask /\ PrioInv /\ Live(t) =>
              \A m \in Mux : Owns(t, m) => held[t][m] = mux[m].count /\ IsOn(order[t], m)
<1>1. /\ OrderExact /\ HolderOwns /\ MuxTypeOK
      /\ order[t] \in Seq(Mux) /\ IsInjective(order[t])
  BY DEF MuxInv, MuxData, MuxTypeOK, OrderExact
<1>2. ASSUME NEW m \in Mux, IsOn(order[t], m) PROVE Owns(t, m) /\ held[t][m] > 0
  <2>1. held[t][m] > 0
    BY <1>1, <1>2 DEF OrderExact
  <2>2. held[t][m] \in Nat /\ mux[m].count \in Nat /\ held[t][m] <= mux[m].count
    BY <1>1, HoldsOne
  <2>3. mux[m].owner = t
    BY <1>1, <2>1 DEF HolderOwns
  <2> QED BY <2>1, <2>2, <2>3 DEF Owns
<1>3. ASSUME arg[t] = NoTask, PrioInv, Live(t), NEW m \in Mux, Owns(t, m)
      PROVE  held[t][m] = mux[m].count /\ IsOn(order[t], m)
  <2>1. held[t][m] = mux[m].count
    BY <1>3, MuxFacts DEF PrioInv, PrioOf, HeldExact
  <2>2. mux[m].count # 0 /\ mux[m].count \in Nat
    BY <1>1, <1>3, HoldsOne DEF Owns
  <2> QED BY <1>1, <2>1, <2>2 DEF OrderExact
<1> QED BY <1>1, <1>2, <1>3 DEF OrderExact

\* The task that runs application code is in no call, and lives.
LEMMA AppFacts ==
  ASSUME MuxInv, NEW c \in UserTask, InApp(c)
  PROVE  c \in TaskID /\ arg[c] = NoTask /\ Live(c)
<1>1. IInv(FALSE) /\ PendCalls /\ c \in TaskID
  BY ContextFacts DEF MuxInv, MuxWaiters
<1>2. "READY" \in k.status[c]
  BY <1>1, InAppFacts
<1>3. Live(c)
  BY <1>1, <1>2 DEF Live, IInv, ListNodes, OneList
<1>4. pc[c] = "app"
  BY DEF InApp
<1> QED BY <1>1, <1>3, <1>4 DEF PendCalls, WaitsFor

\* Nobody owns anything before LOS_Start.
LEMMA PrioInitInv ==
  ASSUME MuxInit
  PROVE  PrioInv
<1>1. \A t \in TaskID, m \in Mux : ~Owns(t, m)
  BY DEF MuxInit, Unused, Owns
<1>2. \A t \in TaskID : Live(t) => k.prio[t] = base[t]
  BY DEF MuxInit, Init, KernelInit, Live
<1> QED BY <1>1, <1>2 DEF PrioInv, PrioOf, HeldExact, FirstSavedBase, FreeAtBase, LeftBehind

\* The task manager's steps: a task that is born owns nothing, because no task
\* before it has left it a mutex.
LEMMA PrioTaskStep ==
  ASSUME MuxInv, PrioInv, Unnested, NoPriSet, NoRebirth, TaskStep
  PROVE  PrioInv'
<1>1. LivesKept
  BY NextLives DEF MuxInv, TaskStep
<1>2. /\ held' = [t \in TaskID |-> IF "UNUSED" \in k'.status[t] THEN [m \in Mux |-> 0] ELSE held[t]]
      /\ order' = [t \in TaskID |-> IF "UNUSED" \in k'.status[t] THEN <<>> ELSE order[t]]
      /\ arg' = [t \in TaskID |-> IF "UNUSED" \in k'.status[t] THEN NoTask ELSE arg[t]]
      /\ base' = [t \in TaskID |-> IF "UNUSED" \in k.status[t] /\ "UNUSED" \notin k'.status[t]
                                   THEN k'.prio[t]
                                   ELSE IF "UNUSED" \in k'.status[t] THEN 0 ELSE base[t]]
      /\ mux' = mux
  BY DEF TaskStep
<1>3. \A t, m : Owns(t, m)' <=> Owns(t, m)
  BY <1>2 DEF Owns
<1> SUFFICES ASSUME NEW t \in TaskID PROVE PrioOf(t)'
  BY DEF PrioInv
<1>4. PrioOf(t)
  BY DEF PrioInv
<1>5. CASE Live(t)' /\ Live(t)
  <2>1. held'[t] = held[t] /\ order'[t] = order[t] /\ arg'[t] = arg[t] /\ base'[t] = base[t]
    BY <1>2, <1>5 DEF Live
  <2>2. k'.prio[t] = k.prio[t]
    BY <1>1, <1>5 DEF Live, LivesKept
  <2>3. PrioSame(t)
    BY <1>2, <1>3, <1>5, <2>1, <2>2 DEF PrioSame
  <2> QED BY <1>1, <1>4, <2>3, PrioFrame DEF LivesKept
<1>6. CASE Live(t)' /\ ~Live(t)
  <2>1. ~scheduled \/ Calls \cap {"create", "createonly"} # {}
    BY <1>1, <1>6 DEF Live, LivesKept
  <2>2. \A m \in Mux : ~Owns(t, m)
    BY <1>4, <1>6, <2>1 DEF PrioOf, LeftBehind, NoRebirth
  <2>3. k'.prio[t] = base'[t]
    BY <1>2, <1>6 DEF Live
  <2> QED BY <1>3, <1>6, <2>2, <2>3 DEF PrioOf, HeldExact, FirstSavedBase, FreeAtBase
<1>7. CASE ~Live(t)'
  <2>1. \A m \in Mux : Owns(t, m) => scheduled /\ "delete" \in Calls \cup IsrCalls
    <3>1. CASE Live(t)
      BY <1>1, <1>7, <3>1 DEF Live, LivesKept
    <3>2. CASE ~Live(t)
      BY <1>4, <3>2 DEF PrioOf, LeftBehind
    <3> QED BY <3>1, <3>2
  <2> QED BY <1>1, <1>3, <1>7, <2>1 DEF PrioOf, LeftBehind, LivesKept
<1> QED BY <1>5, <1>6, <1>7

\* A mutex is created and deleted while nobody owns it.
LEMMA PrioCreateDelete ==
  ASSUME MuxInv, PrioInv, NEW c, NEW m \in Mux, LOS_MuxCreate(c, m) \/ LOS_MuxDelete(c, m)
  PROVE  PrioInv'
<1>1. /\ k' = k /\ scheduled' = scheduled /\ UNCHANGED <<arg, held, order, base>>
      /\ MuxTypeOK /\ OwnerKnown
  BY DEF LOS_MuxCreate, LOS_MuxDelete, vars, sched, MuxInv, MuxData
<1>2. mux[m].count = 0 /\ mux'[m].count = 0 /\ \A q \in Mux \ {m} : mux'[q] = mux[q]
  <2>1. mux \in [Mux -> MuxRec] /\ 0 \in 0 .. MAX_COUNT
    BY <1>1, MuxFacts DEF MuxTypeOK, MuxRec
  <2>2. CASE LOS_MuxCreate(c, m)
    <3>1. mux[m].count = 0
      <4>1. mux[m].count \in 0 .. MAX_COUNT /\ ~mux[m].used
        BY <2>1, <2>2 DEF LOS_MuxCreate, MuxRec
      <4> QED BY <1>1, <4>1, MuxFacts DEF OwnerKnown
    <3>2. SetTo(m, TRUE, 0, NoTask, 0)
      BY <2>1, <2>2, SetFields DEF LOS_MuxCreate
    <3> QED BY <3>1, <3>2 DEF SetTo
  <2>3. CASE LOS_MuxDelete(c, m)
    <3>1. mux[m].count = 0 /\ SetTo(m, FALSE, mux[m].count, mux[m].owner, mux[m].saved)
      BY <2>1, <2>3, SetFields DEF LOS_MuxDelete
    <3> QED BY <3>1 DEF SetTo
  <2> QED BY <2>2, <2>3
<1>3. ASSUME NEW t \in TaskID PROVE PrioSame(t)
  <2>1. \A q \in Mux : Owns(t, q)' <=> Owns(t, q)
    BY <1>2 DEF Owns
  <2>2. \A q \in Mux : Owns(t, q) => mux'[q] = mux[q]
    BY <1>2 DEF Owns
  <2> QED BY <1>1, <2>1, <2>2 DEF PrioSame, Live
<1> QED BY <1>1, <1>3, PrioFrame DEF PrioInv

\* LOS_MuxPend takes a free mutex, and remembers the priority of the caller, who has
\* its own unless it owns another mutex; or the caller's, once more.
LEMMA PrioTake ==
  ASSUME MuxInv, PrioInv, NEW c \in UserTask, NEW m \in Mux, MuxTake(c, m)
  PROVE  PrioInv'
<1>1. /\ k' = k /\ scheduled' = scheduled /\ UNCHANGED <<arg, base>> /\ Got(c, m) /\ InApp(c)
      /\ MuxTypeOK /\ OrderExact /\ HolderOwns
  BY DEF MuxTake, MayMux, vars, sched, MuxInv, MuxData
<1>2. c \in TaskID /\ arg[c] = NoTask /\ Live(c) /\ PrioOf(c)
  BY <1>1, AppFacts DEF PrioInv
<1>3. /\ mux[m].count \in Nat /\ mux[m].count < MAX_COUNT /\ k.prio[c] \in Prio
      /\ held[c][m] \in Nat /\ held[c][m] <= mux[m].count /\ MAX_COUNT \in Nat
      /\ mux \in [Mux -> MuxRec]
  BY <1>1, <1>2, MuxFacts, HoldsOne, InvKernel DEF MuxTake, MuxInv, KernelType
<1>4. /\ held'[c][m] = held[c][m] + 1
      /\ \A t \in TaskID \ {c} : held'[t] = held[t] /\ order'[t] = order[t]
      /\ \A q \in Mux \ {m} : held'[c][q] = held[c][q]
      /\ order'[c] = IF held[c][m] = 0 THEN Append(order[c], m) ELSE order[c]
  BY <1>1, <1>2 DEF Got, MuxTypeOK
<1>5. /\ \A q \in Mux : Owns(c, q) => held[c][q] = mux[q].count /\ IsOn(order[c], q)
      /\ order[c] \in Seq(Mux) /\ \A q \in Mux : IsOn(order[c], q) => Owns(c, q) /\ held[c][q] > 0
  BY <1>2, OrderOwned
<1>6. CASE /\ mux[m].count = 0
           /\ mux' = [mux EXCEPT ![m].count = 1, ![m].owner = c, ![m].saved = k.prio[c]]
  <2>1. 1 \in 0 .. MAX_COUNT
    BY <1>3
  <2>2. /\ mux'[m].count = 1 /\ mux'[m].owner = c /\ mux'[m].saved = k.prio[c]
        /\ \A q \in Mux \ {m} : mux'[q] = mux[q]
    <3>1. SetTo(m, mux[m].used, 1, c, k.prio[c])
      BY <1>2, <1>3, <1>6, <2>1, SetFields
    <3> QED BY <3>1 DEF SetTo
  <2>3. /\ held[c][m] = 0 /\ held'[c][m] = 1 /\ order'[c] = Append(order[c], m)
        /\ ~Owns(c, m) /\ ~IsOn(order[c], m)
    BY <1>3, <1>4, <1>5, <1>6 DEF Owns
  <2>4. ASSUME NEW t \in TaskID \ {c} PROVE PrioSame(t)
    <3>1. \A q \in Mux : Owns(t, q)' <=> Owns(t, q)
      BY <1>6, <2>2 DEF Owns
    <3>2. \A q \in Mux : Owns(t, q) => mux'[q] = mux[q]
      BY <1>6, <2>2 DEF Owns
    <3> QED BY <1>1, <1>4, <3>1, <3>2 DEF PrioSame, Live
  <2>5. ASSUME NEW q \in Mux, q # m
        PROVE  (Owns(c, q)' <=> Owns(c, q)) /\ mux'[q] = mux[q] /\ held'[c][q] = held[c][q]
    BY <1>4, <2>2, <2>5 DEF Owns
  <2>6. HeldExact(c)'
    BY <1>5, <2>2, <2>3, <2>5 DEF HeldExact
  <2>7. FirstSavedBase(c)'
    <3>1. CASE order[c] = <<>>
      <4>1. \A q \in Mux : ~Owns(c, q)
        BY <1>5, <3>1, EmptyList
      <4>2. k.prio[c] = base[c]
        BY <1>2, <4>1 DEF PrioOf, FreeAtBase
      <4> QED BY <1>1, <2>2, <2>5, <4>1, <4>2 DEF FirstSavedBase
    <3>2. CASE order[c] # <<>>
      <4>1. Head(order'[c]) = Head(order[c]) /\ order'[c] # <<>>
        BY <1>5, <2>3, <3>2
      <4>2. Head(order[c]) # m
        BY <1>5, <2>3, <3>2, HeadIsOn
      <4> QED BY <1>1, <1>2, <2>5, <3>2, <4>1, <4>2 DEF FirstSavedBase, PrioOf
    <3> QED BY <3>1, <3>2
  <2>8. FreeAtBase(c)' /\ Live(c)'
    <3>1. Owns(c, m)'
      BY <2>2 DEF Owns
    <3> QED BY <1>1, <1>2, <3>1 DEF FreeAtBase, Live
  <2>9. \A t \in TaskID \ {c} : PrioOf(t)'
    BY <1>1, <2>4, PrioFrame DEF PrioInv
  <2> QED BY <2>6, <2>7, <2>8, <2>9 DEF PrioInv, PrioOf
<1>7. CASE Owns(c, m) /\ mux' = [mux EXCEPT ![m].count = @ + 1]
  <2>1. mux[m].count + 1 \in 0 .. MAX_COUNT
    BY <1>3
  <2>2. /\ mux'[m].count = mux[m].count + 1 /\ mux'[m].owner = mux[m].owner
        /\ mux'[m].saved = mux[m].saved
        /\ \A q \in Mux \ {m} : mux'[q] = mux[q]
    <3>1. SetTo(m, mux[m].used, mux[m].count + 1, mux[m].owner, mux[m].saved)
      BY <1>3, <1>7, <2>1, SetFields
    <3> QED BY <3>1 DEF SetTo
  <2>3. /\ held[c][m] = mux[m].count /\ held[c][m] # 0 /\ order'[c] = order[c]
        /\ mux'[m].count # 0 /\ mux[m].count # 0 /\ mux[m].owner = c
    BY <1>3, <1>4, <1>5, <1>7, <2>2 DEF Owns
  <2>4. ASSUME NEW t \in TaskID, NEW q \in Mux
        PROVE  (Owns(t, q)' <=> Owns(t, q)) /\ (t # c /\ Owns(t, q) => mux'[q] = mux[q])
    BY <2>2, <2>3 DEF Owns
  <2>5. ASSUME NEW t \in TaskID \ {c} PROVE PrioSame(t)
    BY <1>1, <1>4, <2>4 DEF PrioSame, Live
  <2>6. \A q \in Mux : mux'[q].saved = mux[q].saved
    BY <2>2
  <2>7. HeldExact(c)'
    <3> SUFFICES ASSUME NEW q \in Mux, Owns(c, q)' PROVE held'[c][q] = mux'[q].count
      BY DEF HeldExact
    <3>1. Owns(c, q)
      BY <1>2, <2>4
    <3> QED BY <1>4, <1>5, <2>2, <2>3, <3>1
  <2>8. FirstSavedBase(c)' /\ FreeAtBase(c)' /\ Live(c)'
    BY <1>1, <1>2, <2>3, <2>4, <2>6 DEF FirstSavedBase, FreeAtBase, PrioOf, Live
  <2>9. \A t \in TaskID \ {c} : PrioOf(t)'
    BY <1>1, <2>5, PrioFrame DEF PrioInv
  <2> QED BY <2>7, <2>8, <2>9 DEF PrioInv, PrioOf
<1> QED BY <1>6, <1>7 DEF MuxTake

\* What inheriting a priority, and giving it back, does to the priorities.
LEMMA InheritedPrio ==
  ASSUME MuxInv, NEW c \in TaskID, NEW m \in Mux
  PROVE  /\ Lives(Restore(k, c, m)) /\ Restore(k, c, m).status = k.status
         /\ \A t \in TaskID : Restore(k, c, m).prio[t] = IF t = c THEN mux[m].saved ELSE k.prio[t]
         /\ mux[m].owner \in TaskID =>
              /\ Lives(Inherit(k, c, m)) /\ Inherit(k, c, m).status = k.status
              /\ \A t \in TaskID : t # mux[m].owner => Inherit(k, c, m).prio[t] = k.prio[t]
<1>1. /\ KernelOK(k) /\ k.prio \in [TaskID -> Prio] /\ mux[m].saved \in Prio
      /\ Lives(k)
  BY InvKernel DEF MuxInv, MuxData, MuxTypeOK, KernelType, Lives
<1>2. ASSUME NEW t \in TaskID, NEW p \in Prio, NEW r, r = osTaskPriModify(k, t, p)
      PROVE  /\ Lives(r) /\ r.status = k.status
             /\ \A u \in TaskID : r.prio[u] = IF u = t THEN p ELSE k.prio[u]
  <2>1. KernelOK(r) /\ r.status = k.status /\ r.prio = [k.prio EXCEPT ![t] = p]
    BY <1>1, <1>2, PriModifyOK
  <2>2. Lives(r)
    BY <2>1 DEF KernelOK, KernelType, Lives
  <2> QED BY <1>1, <2>1, <2>2
<1>3. CASE k.prio[c] # mux[m].saved
  <2>1. Restore(k, c, m) = osTaskPriModify(k, c, mux[m].saved)
    BY <1>3 DEF Restore
  <2> QED BY <1>1, <1>2, <2>1 DEF Inherit
<1>4. CASE k.prio[c] = mux[m].saved
  <2>1. Restore(k, c, m) = k
    BY <1>4 DEF Restore
  <2> QED BY <1>1, <1>2, <1>4, <2>1 DEF Inherit
<1> QED BY <1>3, <1>4

\* LOS_MuxPend waits: only the owner's priority changes.
LEMMA PrioWait ==
  ASSUME MuxInv, PrioInv, NEW c \in UserTask, NEW m \in Mux, NEW n \in Timeouts, MuxWait(c, m, n)
  PROVE  PrioInv'
<1>1. /\ InApp(c) /\ mux[m].count # 0 /\ ~Owns(c, m)
      /\ k' = osTaskWait(Inherit(k, c, m), c, m, "PEND", n)
      /\ arg' = [arg EXCEPT ![c] = m] /\ scheduled' = scheduled
      /\ UNCHANGED <<mux, held, order, base>> /\ MuxTypeOK /\ OwnerKnown
      /\ arg \in [TaskID -> Mux \cup {NoTask}]
  BY DEF MuxWait, MayMux, sched, MuxInv, MuxData, MuxTypeOK
<1>2. c \in TaskID /\ arg[c] = NoTask /\ Live(c)
  BY <1>1, AppFacts
<1>3. mux[m].owner \in TaskID
  <2>1. mux[m].count \in Nat
    BY <1>1, <1>2, HoldsOne DEF MuxInv, MuxData
  <2> QED BY <1>1, <2>1 DEF OwnerKnown
<1> DEFINE raised == Inherit(k, c, m)
<1>4. /\ Lives(raised) /\ raised.status = k.status
      /\ \A t \in TaskID : t # mux[m].owner => raised.prio[t] = k.prio[t]
  BY <1>2, <1>3, InheritedPrio
<1> HIDE DEF raised
<1>5. Alike(raised, k')
  <2>1. k' = osTaskWait(raised, c, m, "PEND", n)
    BY <1>1 DEF raised
  <2> QED BY <1>2, <1>4, <2>1, MuxFacts, WaitWakeAlike
<1>6. ASSUME NEW t \in TaskID PROVE PrioSame(t)
  <2>1. Live(t)' <=> Live(t)
    BY <1>4, <1>5 DEF Alike, Live
  <2>2. \A q \in Mux : Owns(t, q)' <=> Owns(t, q)
    BY <1>1 DEF Owns
  <2>3. k'.prio[t] = k.prio[t] \/ Owns(t, m)
    BY <1>1, <1>4, <1>5 DEF Alike, Owns
  <2>4. \A q \in Mux : arg[t] = q => arg'[t] = q
    BY <1>1, <1>2, MuxFacts
  <2> QED BY <1>1, <2>1, <2>2, <2>3, <2>4 DEF PrioSame
<1> QED BY <1>1, <1>6, PrioFrame DEF PrioInv

\* LOS_MuxPend returns: the mutex that was granted joins the ones the caller knows of.
LEMMA PrioReturn ==
  ASSUME MuxInv, PrioInv, NEW c \in UserTask, MuxReturn(c)
  PROVE  PrioInv'
<1>1. /\ pc[c] = "check" /\ arg' = [arg EXCEPT ![c] = NoTask] /\ scheduled' = scheduled
      /\ mux' = mux /\ base' = base /\ c \in TaskID
      /\ \/ /\ "TIMEOUT" \in k.status[c] /\ held' = held /\ order' = order
            /\ k' = SetFlags(k, c, {"TIMEOUT"}, {})
         \/ "TIMEOUT" \notin k.status[c] /\ Got(c, arg[c]) /\ k' = k
      /\ PendCalls /\ WaitOutcome /\ MuxTypeOK /\ arg \in [TaskID -> Mux \cup {NoTask}]
  BY ContextFacts DEF MuxReturn, sched, MuxInv, MuxWaiters, MuxData, MuxTypeOK
<1>2. PICK m \in Mux : arg[c] = m
  BY <1>1 DEF PendCalls, WaitsFor
<1>3. Returned(c)
  <2>1. TaskRuns(c) /\ FlagCleared(c) /\ pc' = [pc EXCEPT ![c] = "app"]
        /\ UNCHANGED <<sched, slice, scan>>
    BY DEF MuxReturn, FlagCleared
  <2>2. WaitsFor("PEND", k, pc, arg) /\ CallOver(arg, arg', c)
    BY <1>1 DEF PendCalls, CallOver
  <2> QED BY <1>1, <2>1, <2>2, MuxFacts, ReturnCalls DEF MuxInv
<1>4. ~IsOn(k.pend[m], c)
  BY <1>3, MuxFacts DEF Returned
<1>5. Alike(k, k')
  <2>1. Lives(k)
    BY InvKernel DEF MuxInv, Lives, KernelType
  <2>2. Alike(k, k) /\ Alike(k, SetFlags(k, c, {"TIMEOUT"}, {}))
    BY <1>1, <2>1, ServicesAlike
  <2> QED BY <1>1, <2>2
<1>6. \A t \in TaskID : (Live(t)' <=> Live(t)) /\ k'.prio[t] = k.prio[t]
  BY <1>5 DEF Alike, Live
<1>7. \A t, q : Owns(t, q)' <=> Owns(t, q)
  BY <1>1 DEF Owns
<1>8. CASE "TIMEOUT" \in k.status[c] /\ held' = held /\ order' = order
  <2>1. mux[m].owner # c
    BY <1>1, <1>2, <1>4, <1>8 DEF WaitOutcome
  <2>2. ASSUME NEW t \in TaskID PROVE PrioSame(t)
    <3>1. \A q \in Mux : Owns(t, q) /\ arg[t] = q => arg'[t] = q
      BY <1>1, <1>2, <2>1 DEF Owns
    <3> QED BY <1>1, <1>6, <1>7, <1>8, <3>1 DEF PrioSame
  <2> QED BY <1>1, <2>2, PrioFrame DEF PrioInv
<1>9. CASE "TIMEOUT" \notin k.status[c] /\ Got(c, m)
  <2>1. held[c][m] = 0 /\ mux[m].owner = c /\ mux[m].count > 0
    BY <1>1, <1>2, <1>4, <1>9 DEF WaitOutcome
  <2>2. /\ held'[c][m] = 1
        /\ \A t \in TaskID \ {c} : held'[t] = held[t] /\ order'[t] = order[t]
        /\ \A q \in Mux \ {m} : held'[c][q] = held[c][q]
        /\ order'[c] = Append(order[c], m)
    BY <1>1, <1>9, <2>1 DEF Got, MuxTypeOK
  <2>3. /\ order[c] \in Seq(Mux) /\ ~IsOn(order[c], m) /\ Owns(c, m)
        /\ \A t \in TaskID \ {c} : arg'[t] = arg[t]
    BY <1>1, <2>1, OrderOwned DEF Owns
  <2>4. ASSUME NEW t \in TaskID \ {c} PROVE PrioOf(t)'
    <3>1. PrioSame(t)
      BY <1>1, <1>6, <1>7, <2>2, <2>3 DEF PrioSame
    <3> QED BY <1>1, <3>1, PrioFrame DEF PrioInv
  <2>5. CASE ~Live(c)
    <3>1. LeftBehind(c)' /\ ~Live(c)'
      BY <1>1, <1>6, <1>7, <2>5 DEF PrioInv, PrioOf, LeftBehind
    <3> QED BY <2>4, <3>1 DEF PrioInv, PrioOf
  <2>6. CASE Live(c)
    <3>1. HeldExact(c) /\ FirstSavedBase(c)
      BY <1>1, <2>6 DEF PrioInv, PrioOf
    <3>2. HeldExact(c)'
      <4> SUFFICES ASSUME NEW q \in Mux, Owns(c, q)' PROVE held'[c][q] = mux'[q].count
        BY DEF HeldExact
      <4>1. Owns(c, q)
        BY <1>7
      <4>2. CASE q = m
        BY <1>1, <2>1, <2>2, <3>1, <4>1, <4>2 DEF HeldExact
      <4>3. CASE q # m
        BY <1>1, <1>2, <2>2, <3>1, <4>1, <4>3 DEF HeldExact
      <4> QED BY <4>2, <4>3
    <3>3. FirstSavedBase(c)'
      <4>1. CASE order[c] = <<>>
        BY <1>1, <1>7, <3>1, <4>1 DEF FirstSavedBase
      <4>2. CASE order[c] # <<>>
        <5>1. Head(order'[c]) = Head(order[c]) /\ order'[c] # <<>>
          BY <2>2, <2>3, <4>2
        <5> QED BY <1>1, <1>7, <3>1, <4>2, <5>1 DEF FirstSavedBase
      <4> QED BY <4>1, <4>2
    <3>4. FreeAtBase(c)' /\ Live(c)'
      BY <1>1, <1>6, <1>7, <2>3, <2>6 DEF FreeAtBase
    <3> QED BY <2>4, <3>2, <3>3, <3>4 DEF PrioInv, PrioOf
  <2> QED BY <2>5, <2>6
<1> QED BY <1>1, <1>2, <1>8, <1>9

\* What the last post of m, the mutex that c got last, leaves c with: the priority
\* that it had when it got m, and the mutexes it got before.
LEMMA PrioPoster ==
  ASSUME MuxInv, PrioInv, Lifo, NEW c \in UserTask, NEW m \in Mux, Posting(c, m),
         mux[m].count = 1, order[c] # <<>>, m = Last(order[c]),
         order' = IF held[c][m] = 1 THEN [order EXCEPT ![c] = RemoveFirst(@, m)] ELSE order,
         ~Owns(c, m)', Live(c)', k'.prio[c] = mux[m].saved,
         \A q \in Mux \ {m} : mux'[q] = mux[q]
  PROVE  PrioOf(c)'
<1>1. /\ c \in TaskID /\ arg[c] = NoTask /\ Live(c) /\ base' = base
      /\ HeldExact(c) /\ FirstSavedBase(c) /\ mux[m].owner = c
  BY AppFacts DEF Posting, PrioInv, PrioOf
<1>2. /\ IsInjective(order[c]) /\ order[c] \in Seq(Mux) /\ order \in [TaskID -> Seq(Mux)]
      /\ \A q \in Mux : Owns(c, q) <=> IsOn(order[c], q)
      /\ \A q \in Mux : Owns(c, q) => held[c][q] = mux[q].count
  BY <1>1, OrderOwned DEF MuxInv, MuxData, MuxTypeOK
<1>3. Owns(c, m) /\ held[c][m] = 1
  BY <1>1, <1>2 DEF Owns
<1>4. /\ \A q \in Mux \ {m} : Owns(c, q)' <=> Owns(c, q)
      /\ \A q \in Mux \ {m} : held'[c][q] = held[c][q]
      /\ order'[c] = Without(order[c], m)
  BY <1>1, <1>2, <1>3 DEF Owns, Without, Posting, HeldLess
<1>5. HeldExact(c)'
  BY <1>2, <1>4 DEF HeldExact
<1>6. CASE Head(order[c]) = m
  <2>1. \A q \in Mux : IsOn(order[c], q) => q = m
    <3>1. Len(order[c]) \in Nat \ {0} /\ order[c][1] = order[c][Len(order[c])]
      BY <1>2, <1>6 DEF Last
    <3>2. 1 \in 1 .. Len(order[c]) /\ Len(order[c]) \in 1 .. Len(order[c])
      BY <3>1
    <3>3. Len(order[c]) = 1
      <4>1. \A i, j \in 1 .. Len(order[c]) : order[c][i] = order[c][j] => i = j
        BY <1>2 DEF IsInjective
      <4> QED BY <3>1, <3>2, <4>1
    <3> QED BY <1>2, <1>6, <3>3 DEF IsOn, Contains
  <2>2. \A q \in Mux : ~Owns(c, q)'
    BY <1>2, <1>4, <2>1
  <2>3. mux[m].saved = base[c]
    BY <1>1, <1>3, <1>6 DEF FirstSavedBase
  <2> QED BY <1>1, <1>5, <2>2, <2>3 DEF PrioOf, FirstSavedBase, FreeAtBase
<1>7. CASE Head(order[c]) # m
  <2>1. order'[c] # <<>> /\ Head(order'[c]) = Head(order[c])
    BY <1>2, <1>4, <1>7, WithoutHead
  <2>2. Head(order[c]) \in Mux /\ Owns(c, Head(order[c]))
    BY <1>2, HeadIsOn
  <2>3. FirstSavedBase(c)'
    BY <1>1, <1>4, <2>1 DEF FirstSavedBase
  <2>4. FreeAtBase(c)'
    BY <1>4, <1>7, <2>2 DEF FreeAtBase
  <2> QED BY <1>5, <2>3, <2>4 DEF PrioOf
<1> QED BY <1>6, <1>7

\* LOS_MuxPost: the caller gets back the priority it had, and the mutex remembers the
\* priority of the waiter that it goes to.
LEMMA PrioPost ==
  ASSUME MuxInv, PrioInv, Lifo, NEW c \in UserTask, NEW m \in Mux, LOS_MuxPost(c, m)
  PROVE  PrioInv'
<1>1. Posting(c, m)
  BY PostFacts
<1>2. /\ c \in TaskID /\ arg[c] = NoTask /\ Live(c) /\ arg' = arg /\ base' = base
      /\ scheduled' = scheduled /\ mux[m].owner = c /\ MuxTypeOK /\ mux \in [Mux -> MuxRec]
      /\ order' = IF held[c][m] = 1 THEN [order EXCEPT ![c] = RemoveFirst(@, m)] ELSE order
      /\ held' = [held EXCEPT ![c][m] = IF @ > 0 THEN @ - 1 ELSE 0]
      /\ order \in [TaskID -> Seq(Mux)] /\ held \in [TaskID -> [Mux -> 0 .. MAX_COUNT]]
  BY <1>1, AppFacts DEF Posting, sched, MuxInv, MuxData, MuxTypeOK, MuxRec, LOS_MuxPost
<1>3. \A t \in TaskID \ {c} : held'[t] = held[t] /\ order'[t] = order[t]
  BY <1>2
<1>4. /\ mux[m].count \in Nat /\ mux[m].count # 0 /\ mux[m].count <= MAX_COUNT
      /\ mux[m].saved \in Prio /\ Owns(c, m) /\ MAX_COUNT \in Nat
      /\ 0 \in 0 .. MAX_COUNT /\ 1 \in 0 .. MAX_COUNT
  BY <1>1, <1>2, MuxFacts DEF Posting, Owns, MuxRec
<1>5. \A q \in Mux : Owns(c, q) => held[c][q] = mux[q].count /\ IsOn(order[c], q)
  BY <1>2, OrderOwned
<1>6. CASE mux[m].count - 1 # 0
  <2>1. mux' = [mux EXCEPT ![m].count = @ - 1] /\ k' = k
    BY <1>6 DEF LOS_MuxPost
  <2>2. mux[m].count - 1 \in 0 .. MAX_COUNT
    BY <1>4
  <2>3. SetTo(m, mux[m].used, mux[m].count - 1, mux[m].owner, mux[m].saved)
    BY <1>2, <2>1, <2>2, SetFields
  <2>4. /\ mux'[m].count = mux[m].count - 1 /\ mux'[m].owner = c /\ mux'[m].saved = mux[m].saved
        /\ \A q \in Mux \ {m} : mux'[q] = mux[q]
    BY <1>2, <2>3 DEF SetTo
  <2>5. \A t, q : q \in Mux => (Owns(t, q)' <=> Owns(t, q))
    BY <1>2, <1>4, <1>6, <2>4 DEF Owns
  <2>6. ASSUME NEW t \in TaskID \ {c} PROVE PrioOf(t)'
    <3>1. PrioSame(t)
      BY <1>2, <1>3, <2>1, <2>4, <2>5 DEF PrioSame, Live, Owns
    <3> QED BY <1>2, <3>1, PrioFrame DEF PrioInv
  <2>7. held[c][m] = mux[m].count /\ held'[c][m] = mux[m].count - 1 /\ order'[c] = order[c]
    BY <1>2, <1>4, <1>5, <1>6
  <2>8. HeldExact(c)'
    <3> SUFFICES ASSUME NEW q \in Mux, Owns(c, q)' PROVE held'[c][q] = mux'[q].count
      BY DEF HeldExact
    <3>1. CASE q = m
      BY <2>4, <2>7, <3>1
    <3>2. CASE q # m
      BY <1>2, <1>5, <2>4, <2>5, <3>2
    <3> QED BY <3>1, <3>2
  <2>9. FirstSavedBase(c)' /\ FreeAtBase(c)' /\ Live(c)'
    <3>1. FirstSavedBase(c) /\ FreeAtBase(c)
      BY <1>2 DEF PrioInv, PrioOf
    <3>2. \A q \in Mux : mux'[q].saved = mux[q].saved
      BY <2>4
    <3> QED BY <1>2, <2>1, <2>5, <2>7, <3>1, <3>2 DEF FirstSavedBase, FreeAtBase, Live
  <2> QED BY <2>6, <2>8, <2>9 DEF PrioInv, PrioOf
<1>7. CASE mux[m].count - 1 = 0
  <2> DEFINE restored == Restore(k, c, m)
  <2>1. /\ Lives(restored) /\ restored.status = k.status
        /\ \A t \in TaskID : restored.prio[t] = IF t = c THEN mux[m].saved ELSE k.prio[t]
    BY <1>2, InheritedPrio
  <2>2. MuxRelease(c, m) /\ mux[m].count = 1 /\ order[c] # <<>> /\ m = Last(order[c])
    BY <1>4, <1>7 DEF LOS_MuxPost
  <2>3. ASSUME ~Owns(c, m)', Alike(restored, k'), \A q \in Mux \ {m} : mux'[q] = mux[q]
        PROVE  PrioOf(c)' /\ \A t \in TaskID : (Live(t)' <=> Live(t)) /\ (t # c => k'.prio[t] = k.prio[t])
    <3>1. \A t \in TaskID : Live(t)' <=> Live(t)
      BY <2>1, <2>3 DEF Alike, Live
    <3>2. k'.prio[c] = mux[m].saved /\ \A t \in TaskID : t # c => k'.prio[t] = k.prio[t]
      BY <1>2, <2>1, <2>3 DEF Alike
    <3>3. PrioOf(c)'
      BY <1>1, <1>2, <2>2, <2>3, <3>1, <3>2, PrioPoster
    <3> QED BY <3>1, <3>2, <3>3
  <2>4. CASE restored.pend[m] = <<>>
    <3>1. mux' = [mux EXCEPT ![m].count = 0] /\ k' = restored
      BY <2>2, <2>4 DEF MuxRelease
    <3>2. SetTo(m, mux[m].used, 0, mux[m].owner, mux[m].saved)
      BY <1>2, <1>4, <3>1, SetFields
    <3>3. mux'[m].count = 0 /\ \A q \in Mux \ {m} : mux'[q] = mux[q]
      BY <3>2 DEF SetTo
    <3>4. Alike(restored, k') /\ ~Owns(c, m)'
      BY <2>1, <3>1, <3>3 DEF Alike, Owns
    <3>5. ASSUME NEW t \in TaskID \ {c} PROVE PrioOf(t)'
      <4>1. \A q \in Mux : Owns(t, q)' <=> Owns(t, q)
        BY <1>2, <3>3 DEF Owns
      <4>2. PrioSame(t)
        BY <1>2, <1>3, <2>3, <3>3, <3>4, <4>1 DEF PrioSame, Owns
      <4> QED BY <1>2, <4>2, PrioFrame DEF PrioInv
    <3> QED BY <2>3, <3>3, <3>4, <3>5 DEF PrioInv
  <2>5. CASE restored.pend[m] # <<>>
    <3>1. PICK u : u = Head(restored.pend[m])
      OBVIOUS
    <3>2. /\ mux' = [mux EXCEPT ![m].count = 1, ![m].owner = u, ![m].saved = restored.prio[u]]
          /\ k' = osTaskWake(restored, u, "PEND")
      BY <2>2, <2>5, <3>1 DEF MuxRelease
    <3>3. /\ u \in TaskID /\ IsOn(k.pend[m], u) /\ arg[u] = m /\ Live(u)
      <4>1. SameNodes(restored) /\ restored.pend = k.pend
        BY <1>2, InheritOK DEF SameNodes, MuxInv
      <4>2. WaitsFor("PEND", k, pc, arg) /\ m \in PendObj /\ NoTask \notin PendObj
        BY MuxFacts DEF MuxInv, MuxWaiters, PendCalls
      <4>3. WaitsAt("PEND", arg, m, u)
        BY <2>5, <3>1, <4>1, <4>2, MuxFacts, WaiterFacts DEF MuxInv
      <4>4. u \in TaskID /\ IsOn(k.pend[m], u) /\ arg[u] = m /\ k.status[u] \cap Waiting = {"PEND"}
        BY <4>3, MuxFacts DEF WaitsAt
      <4>5. k.status[u] # {"UNUSED"}
        BY <4>4 DEF Waiting
      <4> QED BY <4>4, <4>5 DEF Live, MuxInv, IInv, ListNodes, OneList
    <3>4. u # c /\ restored.prio[u] = k.prio[u] /\ k.prio[u] \in Prio /\ held[u][m] = 0
      <4>1. u # c
        BY <1>2, <3>3, MuxFacts
      <4>2. held[u][m] = 0 /\ k.prio[u] \in Prio
        BY <3>3, InvKernel DEF MuxInv, MuxWaiters, WaitOutcome, KernelType
      <4> QED BY <2>1, <3>3, <4>1, <4>2
    <3>5. SetTo(m, mux[m].used, 1, u, restored.prio[u])
      BY <1>2, <1>4, <3>2, <3>3, <3>4, SetFields
    <3>6. /\ mux'[m].count = 1 /\ mux'[m].owner = u /\ mux'[m].saved = k.prio[u]
          /\ \A q \in Mux \ {m} : mux'[q] = mux[q]
      BY <3>4, <3>5 DEF SetTo
    <3>7. Alike(restored, k') /\ ~Owns(c, m)'
      BY <2>1, <3>2, <3>3, <3>4, <3>6, MuxFacts, WaitWakeAlike DEF Owns
    <3>8. /\ PrioOf(c)'
          /\ \A t \in TaskID : (Live(t)' <=> Live(t)) /\ (t # c => k'.prio[t] = k.prio[t])
      BY <2>3, <3>6, <3>7
    <3>9. ASSUME NEW t \in TaskID \ {c, u} PROVE PrioOf(t)'
      <4>1. \A q \in Mux : Owns(t, q)' <=> Owns(t, q)
        BY <1>2, <3>6 DEF Owns
      <4>2. PrioSame(t)
        BY <1>2, <1>3, <3>6, <3>8, <4>1 DEF PrioSame, Owns
      <4> QED BY <1>2, <4>2, PrioFrame DEF PrioInv
    <3>10. PrioOf(u)'
      <4>1. /\ HeldExact(u) /\ FirstSavedBase(u) /\ FreeAtBase(u)
            /\ held'[u] = held[u] /\ order'[u] = order[u]
        BY <1>3, <3>3, <3>4 DEF PrioInv, PrioOf
      <4>2. ~Owns(u, m) /\ Owns(u, m)' /\ \A q \in Mux \ {m} : Owns(u, q)' <=> Owns(u, q)
        BY <1>2, <3>4, <3>6 DEF Owns
      <4>3. HeldExact(u)'
        BY <1>2, <3>3, <3>6, <4>1, <4>2 DEF HeldExact
      <4>4. FirstSavedBase(u)'
        <5>1. CASE order[u] = <<>>
          <6>1. ASSUME NEW q \in Mux, Owns(u, q) PROVE FALSE
            <7>1. q # m /\ arg[u] # q
              BY <3>3, <4>2, <6>1
            <7>2. held[u][q] = mux[q].count /\ mux[q].count # 0
              BY <4>1, <6>1, <7>1 DEF HeldExact, Owns
            <7>3. mux[q].count \in Nat
              BY <3>3, HoldsOne DEF MuxInv, MuxData
            <7>4. IsOn(order[u], q)
              BY <3>3, <7>2, <7>3, OrderOwned
            <7> QED BY <5>1, <7>4, EmptyList
          <6>2. k.prio[u] = base[u]
            BY <4>1, <6>1 DEF FreeAtBase
          <6> QED BY <1>2, <3>6, <4>2, <6>1, <6>2 DEF FirstSavedBase
        <5>2. CASE order[u] # <<>>
          <6>1. Head(order[u]) # m
            BY <3>3, <4>2, <5>2, OrderOwned, HeadIsOn
          <6> QED BY <1>2, <3>6, <4>1, <4>2, <5>2, <6>1 DEF FirstSavedBase
        <5> QED BY <5>1, <5>2
      <4>5. FreeAtBase(u)' /\ Live(u)'
        BY <3>3, <3>8, <4>2 DEF FreeAtBase
      <4> QED BY <4>3, <4>4, <4>5 DEF PrioOf
    <3> QED BY <3>8, <3>9, <3>10 DEF PrioInv
  <2> QED BY <2>4, <2>5
<1> QED BY <1>6, <1>7

\* Every step keeps the invariant.
LEMMA PrioNextInv ==
  ASSUME MuxInv, PrioInv, Unnested, NoPriSet, NoRebirth, Lifo, [MuxNext]_allVars
  PROVE  PrioInv'
<1>1. CASE TaskStep
  BY <1>1, PrioTaskStep
<1>2. ASSUME NEW c \in UserTask, MuxCall(c)
      PROVE  PrioInv'
  <2>1. PICK m \in Mux :
          \/ LOS_MuxCreate(c, m) \/ LOS_MuxDelete(c, m)
          \/ MuxTake(c, m) \/ LOS_MuxPost(c, m)
          \/ \E timeout \in Timeouts : MuxWait(c, m, timeout)
    BY <1>2 DEF MuxCall
  <2> QED BY <2>1, PrioCreateDelete, PrioTake, PrioPost, PrioWait
<1>3. ASSUME NEW c \in UserTask, MuxReturn(c)
      PROVE  PrioInv'
  BY <1>3, PrioReturn
<1>4. CASE UNCHANGED allVars
  <2>1. k' = k /\ scheduled' = scheduled /\ UNCHANGED muxVars
    BY <1>4 DEF allVars, vars, sched
  <2>2. \A t \in TaskID : PrioSame(t)
    BY <2>1 DEF PrioSame, muxVars, Live, Owns
  <2> QED BY <2>1, <2>2, PrioFrame DEF PrioInv
<1> QED BY <1>1, <1>2, <1>3, <1>4 DEF MuxNext

-----------------------------------------------------------------------------
(* The theorems                                                            *)

\* The invariant holds of every reachable state of the mutexes and the tasks.
THEOREM MuxInvariance ==
  ASSUME Unnested, NoIsrSuspend
  PROVE  MuxSpec => []MuxInv
<1>1. MuxInit => MuxInv
  BY MuxInitInv
<1>2. MuxInv /\ [MuxNext]_allVars => MuxInv'
  BY MuxNextInv
<1> QED BY <1>1, <1>2, PTL DEF MuxSpec

\* Every variable of the mutexes keeps its type.
THEOREM MuxTypeCorrect ==
  ASSUME Unnested, NoIsrSuspend
  PROVE  MuxSpec => []MuxTypeOK
<1>1. MuxInv => MuxTypeOK
  BY DEF MuxInv, MuxData
<1> QED BY <1>1, MuxInvariance, PTL

\* Mutual exclusion: whoever LOS_MuxPend has told that it has the mutex is its
\* owner, whatever timeouts, suspensions and deletions come in between.
THEOREM MutualExclusion ==
  ASSUME Unnested, NoIsrSuspend
  PROVE  MuxSpec => []HolderOwns
<1>1. MuxInv => HolderOwns
  BY DEF MuxInv, MuxData
<1> QED BY <1>1, MuxInvariance, PTL

\* A task finds TIMEOUT set on its return from LOS_MuxPend exactly when it was not
\* made the owner.
THEOREM GrantExcludesTimeout ==
  ASSUME Unnested, NoIsrSuspend
  PROVE  MuxSpec => []GrantOrTimeout
<1>1. ASSUME MuxInv PROVE GrantOrTimeout
  <2> SUFFICES ASSUME NEW t \in UserTask, pc[t] \in {"wait", "check"}
               PROVE  IF IsOn(k.pend[arg[t]], t)
                      THEN mux[arg[t]].owner # t
                      ELSE "TIMEOUT" \in k.status[t] <=> mux[arg[t]].owner # t
    BY DEF GrantOrTimeout
  <2>1. PICK m \in Mux : arg[t] = m
    BY <1>1, ContextFacts DEF MuxInv, MuxData, MuxTypeOK, MuxWaiters, PendCalls, WaitsFor
  <2> QED BY <1>1, <2>1, ContextFacts DEF MuxInv, MuxWaiters, WaitOutcome
<1> QED BY <1>1, MuxInvariance, PTL

\* A release never forgets the waiters: no task waits for a mutex that nobody has,
\* or that it has itself.
THEOREM WaitersRemembered ==
  ASSUME Unnested, NoIsrSuspend
  PROVE  MuxSpec => []NoForgottenWaiter
<1>1. ASSUME MuxInv PROVE NoForgottenWaiter
  <2> SUFFICES ASSUME NEW m \in Mux, k.pend[m] # <<>>
               PROVE  mux[m].used /\ mux[m].count > 0 /\ ~IsOn(k.pend[m], mux[m].owner)
    BY DEF NoForgottenWaiter
  <2>1. mux[m].count > 0 /\ mux[m].used /\ mux[m].owner \in TaskID
    BY <1>1 DEF MuxInv, MuxData, MuxWaiters, WaitedHeld, OwnerKnown
  <2>2. ASSUME IsOn(k.pend[m], mux[m].owner) PROVE FALSE
    <3>1. arg[mux[m].owner] = m
      BY <1>1, <2>1, <2>2, MuxFacts DEF MuxInv, MuxWaiters, PendCalls, WaitsFor
    <3> QED BY <1>1, <2>1, <2>2, <3>1 DEF MuxInv, MuxWaiters, WaitOutcome
  <2> QED BY <2>1, <2>2
<1> QED BY <1>1, MuxInvariance, PTL

\* Inheritance leaves no trace: a task that owns no mutex has the priority it was
\* created with.  The program releases its mutexes in the reverse order, sets no
\* priorities itself, and either deletes no tasks or creates none once they run.
THEOREM InheritanceLeavesNoTrace ==
  ASSUME Unnested, NoIsrSuspend, NoPriSet, NoRebirth, Lifo
  PROVE  MuxSpec => []PriorityRestored
<1>1. MuxInit => PrioInv
  BY PrioInitInv
<1>2. MuxInv /\ PrioInv /\ [MuxNext]_allVars => PrioInv'
  BY PrioNextInv
<1>3. MuxSpec => []MuxInv
  BY MuxInvariance
<1>4. ASSUME MuxInv, PrioInv PROVE PriorityRestored
  <2> SUFFICES ASSUME NEW t \in UserTask, "UNUSED" \notin k.status[t],
                      \A m \in Mux : mux[m].count > 0 => mux[m].owner # t
               PROVE  k.prio[t] = base[t]
    BY DEF PriorityRestored
  <2>1. t \in TaskID /\ MuxTypeOK /\ HolderOwns
    BY <1>4, ContextFacts DEF MuxInv, MuxData
  <2>2. \A m \in Mux : ~Owns(t, m)
    <3>1. \A m \in Mux : mux[m].count \in Nat
      BY <2>1, HoldsOne
    <3> QED BY <3>1 DEF Owns
  <2> QED BY <1>4, <2>1, <2>2 DEF PrioInv, PrioOf, FreeAtBase, Live
<1> QED BY <1>1, <1>2, <1>3, <1>4, PTL DEF MuxSpec
=============================================================================
