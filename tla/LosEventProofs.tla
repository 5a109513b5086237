---------------------------- MODULE LosEventProofs ----------------------------
(***************************************************************************)
(* Theorems about module LosEvent, for every number of tasks, priorities,  *)
(* events and bits and every set of timeouts and calls, under the two      *)
(* conditions of module LosTaskProofs: no handler preempts the tick        *)
(* interrupt, and none suspends a task.                                    *)
(***************************************************************************)
EXTENDS LosEvent, LosTaskProofs

-----------------------------------------------------------------------------
(* The inductive invariant                                                 *)

\* The calls that tasks have entered, the control blocks of the events, the calls
\* of LOS_EventRead that wait, and the history of the writes.
EventTypeOK ==
  /\ args \in [TaskID -> Read \cup Write \cup {NoArgs}]
  /\ event \in [Event -> [ready : BOOLEAN, bits : SUBSET Bit]]
  /\ call \in [TaskID -> [e : Event \cup {NoTask}, mask : SUBSET Bit, mode : Mode]]
  /\ woken \in [TaskID -> {"no", "yes", "taken"}]

\* The event each call is about.
AskedEvent == [t \in TaskID |-> call[t].e]

\* Who is on a wait list is in a call for that event, and the other way round.
PendCalls == WaitsFor("PEND", k, pc, AskedEvent)

\* The bits of e satisfy the call of t.
Satisfies(bits, t) == Found(bits, call[t].mask, call[t].mode) # {}

\* What is known of a reader: a call asks for something; only a reader is woken,
\* and as long as its bits are not taken they are there; a reader that is off
\* the list has timed out exactly if no write has woken it.
ReaderOK(t) ==
  /\ call[t].e # NoTask => call[t].mask # {}
  /\ ~InCall(t) => woken[t] = "no"
  /\ woken[t] = "yes" => Satisfies(event[call[t].e].bits, t)
  /\ InCall(t) /\ (\A o \in Event : ~IsOn(k.pend[o], t)) =>
       ("TIMEOUT" \in k.status[t] <=> woken[t] = "no")

\* What a task has checked is so, unless the event is destroyed under its hands.
Entered(t) ==
  args[t].op # "none" =>
    MayUse(args[t].mask) /\ (event[args[t].e].ready \/ Misuse # {})

\* The inductive invariant.
EventInv ==
  /\ IInv(TRUE) /\ EventTypeOK /\ PendCalls /\ NoSleepingMatch
  /\ \A t \in TaskID : ReaderOK(t) /\ Entered(t)

\* What the constants give the proofs.
LEMMA EventFacts ==
  /\ NoTask \notin PendObj /\ Event = PendObj /\ "PEND" \in Waiting
  /\ \A n \in Timeouts : n # 0 => n \in (Nat \ {0}) \cup {WAIT_FOREVER}
  /\ \A mask \in Mask : MayUse(mask) => mask \in SUBSET Bit /\ mask # {}
BY EventAssumption DEF Event, Waiting, Mask, MayUse

\* What kind of call the arguments belong to.
LEMMA ArgsFacts ==
  ASSUME NEW a \in Read \cup Write \cup {NoArgs}
  PROVE  /\ a.op \in {"none", "read", "write"} /\ (a.op # "none" => a.e \in Event)
         /\ a.op = "read" => /\ a.e \in Event /\ a.mask \in Mask
                             /\ a.mode \in Mode /\ a.timeout \in Timeouts
BY DEF Read, Write, NoArgs

\* What was checked stays so as long as nobody destroys the event.
LEMMA EnteredKept ==
  ASSUME NEW t \in TaskID, Entered(t), args'[t] \in {args[t], NoArgs},
         args[t].op # "none" /\ event[args[t].e].ready => event'[args[t].e].ready
  PROVE  Entered(t)'
BY DEF Entered, NoArgs

\* Fewer bits satisfy no more calls.
LEMMA FoundLess ==
  ASSUME NEW bits, NEW less \in SUBSET bits, NEW mask, NEW mode, mask # {},
         Found(bits, mask, mode) = {}
  PROVE  Found(less, mask, mode) = {}
BY DEF Found

\* Nothing has been called before LOS_Start.
LEMMA EventInitInv ==
  ASSUME EventInit
  PROVE  EventInv
<1>1. IInv(TRUE)
  BY InitInv DEF EventInit
<1>2. /\ args = [t \in TaskID |-> NoArgs]
      /\ call = [t \in TaskID |-> NoCall] /\ woken = [t \in TaskID |-> "no"]
      /\ event = [e \in Event |-> [ready |-> FALSE, bits |-> {}]]
  BY DEF EventInit
<1>3. EventTypeOK
  BY <1>2 DEF EventTypeOK, NoCall, Mode
<1>4. /\ \A t \in TaskID : pc[t] = "app" /\ k.status[t] \subseteq {"READY", "UNUSED"}
      /\ \A o \in Event : k.pend[o] = <<>>
  BY DEF EventInit, Init, KernelInit, Event
<1>5. \A t \in TaskID, o \in Event : ~IsOn(k.pend[o], t)
  BY <1>4, EmptyList
<1>6. \A t \in TaskID : AskedEvent[t] = NoTask /\ call[t].e = NoTask /\ woken[t] = "no"
  BY <1>2 DEF AskedEvent, NoCall
<1>7. PendCalls
  BY <1>4, <1>5, <1>6 DEF PendCalls, WaitsFor, Waiting, Event
<1>8. NoSleepingMatch
  BY <1>5 DEF NoSleepingMatch
<1>9. \A t \in TaskID : ReaderOK(t) /\ Entered(t)
  BY <1>2, <1>4, <1>6 DEF ReaderOK, InCall, Entered, NoArgs
<1> QED BY <1>1, <1>3, <1>7, <1>8, <1>9 DEF EventInv

-----------------------------------------------------------------------------
(* The walk over the wait list                                             *)

\* What the loop of LOS_EventWrite does at the i-th reader of the list to the
\* kernel r it has by then.
WriteStep(readers, new, bits, i, r) ==
  IF Satisfied(readers[i], new, bits) THEN osTaskWake(r, readers[i], "PEND") ELSE r

\* The function that the loop computes, reader by reader.
IsWalk(readers, new, bits, n, f) ==
  f = [i \in 0 .. n |-> IF i = 0 THEN k ELSE WriteStep(readers, new, bits, i, f[i - 1])]

\* The loop is the recursive function of the source.
LEMMA WalkDef ==
  ASSUME NEW e, NEW new, NEW bits
  PROVE  WakeReaders(e, new, bits) =
           (CHOOSE f : IsWalk(k.pend[e], new, bits, Len(k.pend[e]), f))[Len(k.pend[e])]
BY DEF WakeReaders, IsWalk, WriteStep

\* A set of naturals with 0 and with the successor of each member is all of Nat.
LEMMA Induct ==
  ASSUME NEW S, 0 \in S, \A n \in Nat : n \in S => n + 1 \in S
  PROVE  \A n \in Nat : n \in S
<1> DEFINE Missing == {n \in Nat : n \notin S}
<1>1. SUFFICES ASSUME Missing # {} PROVE FALSE
  OBVIOUS
<1>2. /\ Missing \in SUBSET Nat /\ Min(Missing) \in Missing
      /\ \A n \in Missing : Min(Missing) <= n
  BY <1>1, MinNat
<1>3. PICK m \in Nat : m = Min(Missing)
  BY <1>2
<1>4. m \notin S /\ m # 0 /\ m - 1 \in Nat /\ m = (m - 1) + 1 /\ ~(m <= m - 1)
  BY <1>2, <1>3
<1>5. m - 1 \in S
  BY <1>2, <1>3, <1>4
<1> QED BY <1>4, <1>5

\* There is such a function.
LEMMA WalkExists ==
  ASSUME NEW readers, NEW new, NEW bits
  PROVE  \A n \in Nat : \E f : IsWalk(readers, new, bits, n, f)
<1> DEFINE S == {n \in Nat : \E f : IsWalk(readers, new, bits, n, f)}
<1>1. 0 \in S
  <2> DEFINE f == [i \in 0 .. 0 |-> k]
  <2>1. IsWalk(readers, new, bits, 0, f)
    BY DEF IsWalk
  <2> QED BY <2>1
<1>2. ASSUME NEW n \in Nat, n \in S PROVE n + 1 \in S
  <2>1. PICK g : IsWalk(readers, new, bits, n, g)
    BY <1>2
  <2> DEFINE h == [i \in 0 .. n + 1 |->
                     IF i = n + 1 THEN WriteStep(readers, new, bits, i, g[n]) ELSE g[i]]
  <2>2. \A i \in 0 .. n : g[i] = IF i = 0 THEN k ELSE WriteStep(readers, new, bits, i, g[i - 1])
    BY <2>1 DEF IsWalk
  <2>3. ASSUME NEW i \in 0 .. n + 1
        PROVE  h[i] = IF i = 0 THEN k ELSE WriteStep(readers, new, bits, i, h[i - 1])
    <3>1. CASE i = n + 1
      BY <3>1
    <3>2. CASE i # n + 1
      <4>1. i \in 0 .. n /\ h[i] = g[i] /\ (i # 0 => i - 1 \in 0 .. n /\ h[i - 1] = g[i - 1])
        BY <3>2
      <4> QED BY <4>1, <2>2
    <3> QED BY <3>1, <3>2
  <2>4. IsWalk(readers, new, bits, n + 1, h)
    BY <2>3 DEF IsWalk
  <2> QED BY <2>4
<1> HIDE DEF S
<1>3. \A n \in Nat : n \in S
  BY <1>1, <1>2, Induct
<1> QED BY <1>3 DEF S

\* A list of readers that all wait for an event, and whose timers agree with
\* their flags.
Readers(s) ==
  /\ KernelOK(k) /\ IsInjective(k.timer) /\ s \in Seq(TaskID) /\ IsInjective(s)
  /\ \A t \in TaskID : IsOn(s, t) =>
       /\ k.status[t] \cap Waiting = {"PEND"}
       /\ "TIMEOUT" \in k.status[t] <=> IsOn(k.timer, t)

\* The readers among the first i of the list that the write satisfies.
HitsTo(s, new, bits, i) ==
  {t \in TaskID : Satisfied(t, new, bits) /\ \E j \in 1 .. i : s[j] = t}

\* One round of the loop.
LEMMA WalkStep ==
  ASSUME NEW s, Readers(s), NEW new, NEW bits, NEW i \in Nat, i + 1 <= Len(s), NEW r,
         AfterWakes(k, r, HitsTo(s, new, bits, i), "PEND")
  PROVE  AfterWakes(k, WriteStep(s, new, bits, i + 1, r), HitsTo(s, new, bits, i + 1), "PEND")
<1>1. PICK u \in TaskID : u = s[i + 1]
  <2>1. i + 1 \in 1 .. Len(s) /\ s \in Seq(TaskID)
    BY DEF Readers
  <2> QED BY <2>1
<1>2. i + 1 \in 1 .. Len(s) /\ 1 .. i + 1 = 1 .. i \cup {i + 1} /\ Len(s) \in Nat
  BY DEF Readers
<1>3. IsOn(s, u)
  BY <1>1, <1>2 DEF IsOn, Contains
<1>4. CASE ~Satisfied(u, new, bits)
  <2>1. HitsTo(s, new, bits, i + 1) = HitsTo(s, new, bits, i)
    BY <1>1, <1>2, <1>4 DEF HitsTo
  <2>2. WriteStep(s, new, bits, i + 1, r) = r
    BY <1>1, <1>4 DEF WriteStep
  <2> QED BY <2>1, <2>2
<1>5. CASE Satisfied(u, new, bits)
  <2> DEFINE W == HitsTo(s, new, bits, i)
  <2>1. HitsTo(s, new, bits, i + 1) = W \cup {u}
    BY <1>1, <1>2, <1>5 DEF HitsTo
  <2>2. u \notin W
    <3>1. \A j \in 1 .. i : j \in 1 .. Len(s) /\ j # i + 1
      BY <1>2
    <3>2. \A j \in 1 .. i : s[j] # u
      BY <1>1, <1>2, <3>1 DEF Readers, IsInjective
    <3> QED BY <3>2 DEF HitsTo
  <2>3. WriteStep(s, new, bits, i + 1, r) = osTaskWake(r, u, "PEND")
    BY <1>1, <1>5 DEF WriteStep
  <2> HIDE DEF W
  <2>4. PICK q : q = osTaskWake(r, u, "PEND")
    OBVIOUS
  <2>5. /\ KernelOK(r) /\ r.status[u] = k.status[u] /\ IsInjective(r.timer)
        /\ IsOn(r.timer, u) <=> IsOn(k.timer, u)
    BY <2>2 DEF AfterWakes, W
  <2>6. /\ r.status[u] \cap Waiting = {"PEND"} /\ "PEND" \in Waiting
        /\ "TIMEOUT" \in r.status[u] <=> IsOn(r.timer, u)
    BY <1>3, <2>5, EventFacts DEF Readers
  <2>7. AfterWake(r, q, u, "PEND")
    BY <2>4, <2>5, <2>6, WakeOK
  <2>8. AfterWakes(k, r, W, "PEND")
    BY DEF W
  <2>9. ASSUME NEW t \in TaskID
        PROVE  /\ t \notin W \cup {u} => q.status[t] = k.status[t] /\ q.ticks[t] = k.ticks[t]
               /\ t \in W \cup {u} =>
                    q.status[t] = (k.status[t] \ {"PEND", "TIMEOUT"})
                                    \cup (IF "SUSPEND" \in k.status[t] THEN {} ELSE {"READY"})
    BY <2>2, <2>5, <2>7, <2>8 DEF AfterWake, AfterWakes
  <2>10. AfterWakes(k, q, W \cup {u}, "PEND")
    BY <2>7, <2>8, <2>9 DEF AfterWake, AfterWakes
  <2> QED BY <2>1, <2>3, <2>4, <2>10
<1> QED BY <1>4, <1>5

\* The loop wakes the readers that the write satisfies, and only these.
LEMMA WakeReadersOK ==
  ASSUME NEW e \in Event, Readers(k.pend[e]), NEW new, NEW bits
  PROVE  AfterWakes(k, WakeReaders(e, new, bits), Hits(e, new, bits), "PEND")
<1> DEFINE s == k.pend[e]
           n == Len(s)
           f == CHOOSE g : IsWalk(s, new, bits, n, g)
<1>1. n \in Nat /\ s \in Seq(TaskID)
  BY DEF Readers
<1>2. WakeReaders(e, new, bits) = f[n]
  BY WalkDef, Zenon
<1>3. Readers(s)
  OBVIOUS
<1>4. Hits(e, new, bits) = HitsTo(s, new, bits, n)
  <2>1. \A t \in TaskID : IsOn(s, t) <=> \E j \in 1 .. n : s[j] = t
    BY DEF IsOn, Contains
  <2> QED BY <2>1 DEF Hits, HitsTo
<1> HIDE DEF s, n
<1>5. IsWalk(s, new, bits, n, f)
  <2>1. \E g : IsWalk(s, new, bits, n, g)
    BY <1>1, WalkExists
  <2> QED BY <2>1, Zenon
<1> HIDE DEF f
<1>6. \A i \in 0 .. n : f[i] = IF i = 0 THEN k ELSE WriteStep(s, new, bits, i, f[i - 1])
  BY <1>5 DEF IsWalk
<1> DEFINE S == {i \in Nat : i <= n => AfterWakes(k, f[i], HitsTo(s, new, bits, i), "PEND")}
<1>7. 0 \in S
  <2>1. f[0] = k
    BY <1>1, <1>6
  <2>2. HitsTo(s, new, bits, 0) = {}
    BY DEF HitsTo
  <2>3. AfterWakes(k, k, {}, "PEND")
    BY <1>3 DEF AfterWakes, Readers
  <2> QED BY <2>1, <2>2, <2>3
<1>8. ASSUME NEW i \in Nat, i \in S PROVE i + 1 \in S
  <2>1. SUFFICES ASSUME i + 1 <= n
                 PROVE  AfterWakes(k, f[i + 1], HitsTo(s, new, bits, i + 1), "PEND")
    OBVIOUS
  <2>2. AfterWakes(k, f[i], HitsTo(s, new, bits, i), "PEND")
    BY <1>1, <1>8, <2>1
  <2>3. f[i + 1] = WriteStep(s, new, bits, i + 1, f[i])
    <3>1. i + 1 \in 0 .. n /\ i + 1 # 0 /\ (i + 1) - 1 = i
      BY <1>1, <2>1
    <3> QED BY <1>6, <3>1
  <2>4. i + 1 <= Len(s)
    BY <2>1 DEF n
  <2> QED BY <1>3, <2>2, <2>3, <2>4, WalkStep
<1> HIDE DEF S
<1>9. n \in S
  BY <1>1, <1>7, <1>8, Induct
<1>10. AfterWakes(k, f[n], HitsTo(s, new, bits, n), "PEND")
  BY <1>1, <1>9 DEF S
<1> QED BY <1>2, <1>4, <1>10

-----------------------------------------------------------------------------
(* The steps                                                               *)

\* What is known of a reader depends on its wait, its call and its event.
LEMMA ReaderKept ==
  ASSUME NEW t \in TaskID, ReaderOK(t), Untouched(t), call'[t] = call[t], woken'[t] = woken[t],
         event' = event
  PROVE  ReaderOK(t)'
<1>1. /\ "TIMEOUT" \in k'.status[t] <=> "TIMEOUT" \in k.status[t]
      /\ \A o \in Event : IsOn(k'.pend[o], t) <=> IsOn(k.pend[o], t)
      /\ InCall(t)' <=> InCall(t)
  BY DEF Untouched, WaitFlag, Event
<1> QED BY <1>1 DEF ReaderOK, Satisfies

\* Calls that take bits away, and move no task into or out of a wait.
LEMMA BitsInv ==
  ASSUME EventInv, NEW e \in Event, IInv(TRUE)', k' = k, call' = call,
         \A t \in TaskID : (InCall(t)' <=> InCall(t)) /\ Entered(t)',
         args' \in [TaskID -> Read \cup Write \cup {NoArgs}],
         event' \in [Event -> [ready : BOOLEAN, bits : SUBSET Bit]],
         \A o \in Event \ {e} : event'[o] = event[o],
         event'[e].bits \in SUBSET event[e].bits,
         k.pend[e] # <<>> => event'[e].ready = event[e].ready,
         woken' = Track(e, event'[e].bits)
  PROVE  EventInv'
<1>1. IInv(TRUE)' /\ k' = k /\ call' = call
  OBVIOUS
<1>2. /\ EventTypeOK /\ PendCalls /\ NoSleepingMatch /\ \A t \in TaskID : ReaderOK(t)
  BY DEF EventInv
<1>3. \A t \in TaskID :
        woken'[t] = IF woken[t] = "yes" /\ call[t].e = e /\ ~Satisfies(event'[e].bits, t)
                    THEN "taken" ELSE woken[t]
  BY DEF Track, Satisfies
<1>4. EventTypeOK'
  <2>1. woken' \in [TaskID -> {"no", "yes", "taken"}]
    BY <1>2 DEF Track, EventTypeOK
  <2> QED BY <1>1, <1>2, <2>1 DEF EventTypeOK
<1>5. PendCalls'
  BY <1>1, <1>2 DEF PendCalls, AskedEvent, WaitsFor, InCall
<1>6. NoSleepingMatch'
  <2>1. ASSUME NEW o \in Event, NEW t \in TaskID, IsOn(k.pend[o], t)
        PROVE  /\ event'[o].ready /\ call[t].e = o /\ woken'[t] = "no"
               /\ Found(event'[o].bits, call[t].mask, call[t].mode) = {}
    <3>1. /\ event[o].ready /\ call[t].e = o /\ woken[t] = "no"
          /\ Found(event[o].bits, call[t].mask, call[t].mode) = {}
      BY <1>2, <2>1 DEF NoSleepingMatch
    <3>2. k.pend[o] # <<>>
      BY <2>1, EmptyList
    <3>3. call[t].mask # {} /\ woken'[t] = "no"
      BY <1>2, <1>3, <3>1, EventFacts DEF ReaderOK
    <3>4. event'[o].ready = event[o].ready /\ event'[o].bits \in SUBSET event[o].bits
      BY <3>2
    <3>5. Found(event'[o].bits, call[t].mask, call[t].mode) = {}
      BY <3>1, <3>3, <3>4, FoundLess
    <3> QED BY <3>1, <3>3, <3>4, <3>5
  <2>2. ASSUME NEW o \in Event, NEW t \in TaskID, IsOn(k'.pend[o], t)
        PROVE  /\ event'[o].ready /\ call'[t].e = o /\ woken'[t] = "no"
               /\ Found(event'[o].bits, call'[t].mask, call'[t].mode) = {}
    <3>1. IsOn(k.pend[o], t) /\ call'[t] = call[t]
      BY <1>1, <2>2
    <3> QED BY <2>1, <3>1
  <2> QED BY <2>2 DEF NoSleepingMatch
<1>7. ASSUME NEW t \in TaskID
      PROVE  ReaderOK(t)'
  <2>1. ReaderOK(t)
    BY <1>2
  <2>2. woken'[t] = "no" <=> woken[t] = "no"
    BY <1>3
  <2>3. woken'[t] = "yes" => Satisfies(event'[call[t].e].bits, t)
    <3>1. SUFFICES ASSUME woken'[t] = "yes" PROVE Satisfies(event'[call[t].e].bits, t)
      OBVIOUS
    <3>2. woken[t] = "yes" /\ (call[t].e = e => Satisfies(event'[e].bits, t))
      BY <1>3, <3>1
    <3>3. InCall(t) /\ Satisfies(event[call[t].e].bits, t)
      BY <2>1, <3>2 DEF ReaderOK
    <3>4. call[t].e \in Event
      BY <1>2, <3>3 DEF PendCalls, WaitsFor, AskedEvent, InCall, EventTypeOK
    <3> QED BY <3>2, <3>3, <3>4
  <2> QED BY <1>1, <2>1, <2>2, <2>3 DEF ReaderOK, Satisfies, InCall
<1> QED BY <1>1, <1>4, <1>5, <1>6, <1>7 DEF EventInv

\* A step that changes no bits leaves the history as it is.
LEMMA TrackSame ==
  ASSUME EventInv, NEW e \in Event
  PROVE  Track(e, event[e].bits) = woken
<1>1. woken \in [TaskID -> {"no", "yes", "taken"}]
  BY DEF EventInv, EventTypeOK
<1>2. ASSUME NEW t \in TaskID
      PROVE  Track(e, event[e].bits)[t] = woken[t]
  <2>1. woken[t] = "yes" => Found(event[call[t].e].bits, call[t].mask, call[t].mode) # {}
    BY DEF EventInv, ReaderOK, Satisfies
  <2> QED BY <2>1 DEF Track
<1>3. Track(e, event[e].bits) = [t \in TaskID |-> Track(e, event[e].bits)[t]]
  BY DEF Track
<1> QED BY <1>1, <1>2, <1>3

\* The same for a call that leaves the tasks alone.
LEMMA ControlBitsInv ==
  ASSUME EventInv, NEW e \in Event, UNCHANGED <<vars, args, call>>,
         event' \in [Event -> [ready : BOOLEAN, bits : SUBSET Bit]],
         \A o \in Event \ {e} : event'[o] = event[o],
         event'[e].bits \in SUBSET event[e].bits,
         k.pend[e] # <<>> => event'[e].ready = event[e].ready,
         event[e].ready => event'[e].ready \/ Misuse # {} \/ ~InUse(e),
         woken' = Track(e, event'[e].bits)
  PROVE  EventInv'
<1>1. IInv(TRUE)' /\ k' = k /\ pc' = pc /\ call' = call /\ args' = args
  BY StutterOK DEF EventInv, vars
<1>2. ASSUME NEW t \in TaskID PROVE Entered(t)'
  <2>1. Entered(t) /\ args[t] \in Read \cup Write \cup {NoArgs}
    BY DEF EventInv, EventTypeOK
  <2>2. CASE args[t].op = "none"
    BY <1>1, <2>2 DEF Entered
  <2>3. CASE args[t].op # "none"
    <3>1. args[t].e \in Event /\ MayUse(args[t].mask)
      BY <2>1, <2>3, ArgsFacts DEF Entered
    <3>2. event[args[t].e].ready => event'[args[t].e].ready \/ Misuse # {}
      <4>1. CASE args[t].e # e
        BY <3>1, <4>1
      <4>2. CASE args[t].e = e
        BY <2>3, <4>2 DEF InUse
      <4> QED BY <4>1, <4>2
    <3> QED BY <1>1, <2>1, <3>1, <3>2 DEF Entered
  <2> QED BY <2>2, <2>3
<1>3. args' \in [TaskID -> Read \cup Write \cup {NoArgs}]
  BY <1>1 DEF EventInv, EventTypeOK
<1>4. \A t \in TaskID : InCall(t)' <=> InCall(t)
  BY <1>1 DEF InCall
<1> QED BY <1>1, <1>2, <1>3, <1>4, BitsInv

\* LOS_EventInit, LOS_EventDestory, LOS_EventPoll and LOS_EventClear add no bits.
LEMMA ControlInv ==
  ASSUME EventInv, NEW c, NEW e \in Event, NEW mask, NEW mode,
         \/ LOS_EventInit(c, e) \/ LOS_EventDestory(c, e) \/ LOS_EventPoll(c, e, mask, mode)
         \/ LOS_EventClear(c, e, mask)
  PROVE  EventInv'
<1>1. event \in [Event -> [ready : BOOLEAN, bits : SUBSET Bit]] /\ event[e].bits \in SUBSET Bit
  BY DEF EventInv, EventTypeOK
<1>2. CASE LOS_EventInit(c, e)
  <2>1. /\ k.pend[e] = <<>> /\ woken' = Track(e, {}) /\ UNCHANGED <<vars, args, call>>
        /\ event' = [event EXCEPT ![e] = [ready |-> TRUE, bits |-> {}]]
    BY <1>2 DEF LOS_EventInit
  <2>2. event'[e].bits = {} /\ event'[e].ready /\ \A o \in Event \ {e} : event'[o] = event[o]
    BY <1>1, <2>1
  <2>3. event' \in [Event -> [ready : BOOLEAN, bits : SUBSET Bit]]
    BY <1>1, <2>1
  <2> QED BY <2>1, <2>2, <2>3, ControlBitsInv
<1>3. CASE LOS_EventDestory(c, e)
  <2>1. /\ k.pend[e] = <<>> /\ UNCHANGED <<vars, args, call>> /\ woken' = woken
        /\ event' = [event EXCEPT ![e].ready = FALSE] /\ (Misuse # {} \/ ~InUse(e))
    BY <1>3 DEF LOS_EventDestory
  <2>2. event'[e].bits = event[e].bits /\ \A o \in Event \ {e} : event'[o] = event[o]
    BY <1>1, <2>1
  <2>3. event' \in [Event -> [ready : BOOLEAN, bits : SUBSET Bit]]
    BY <1>1, <2>1
  <2>4. woken' = Track(e, event'[e].bits)
    BY <2>1, <2>2, TrackSame
  <2> QED BY <2>1, <2>2, <2>3, <2>4, ControlBitsInv
<1>4. ASSUME NEW b \in SUBSET event[e].bits, SetBits(e, b), UNCHANGED <<vars, args, call>>
      PROVE  EventInv'
  <2>1. event' = [event EXCEPT ![e].bits = b] /\ woken' = Track(e, b)
    BY <1>4 DEF SetBits
  <2>2. /\ event'[e].bits = b /\ event'[e].ready = event[e].ready
        /\ \A o \in Event \ {e} : event'[o] = event[o]
    BY <1>1, <2>1
  <2>3. event' \in [Event -> [ready : BOOLEAN, bits : SUBSET Bit]]
    BY <1>1, <2>1
  <2> QED BY <1>4, <2>1, <2>2, <2>3, ControlBitsInv
<1>5. /\ Left(event[e].bits, mask, mode) \in SUBSET event[e].bits
      /\ event[e].bits \cap mask \in SUBSET event[e].bits
  BY DEF Left
<1>6. CASE LOS_EventPoll(c, e, mask, mode)
  <2>1. SetBits(e, Left(event[e].bits, mask, mode)) /\ UNCHANGED <<vars, args, call>>
    BY <1>6 DEF LOS_EventPoll
  <2> QED BY <1>4, <1>5, <2>1
<1>7. CASE LOS_EventClear(c, e, mask)
  <2>1. SetBits(e, event[e].bits \cap mask) /\ UNCHANGED <<vars, args, call>>
    BY <1>7 DEF LOS_EventClear
  <2> QED BY <1>4, <1>5, <2>1
<1> QED BY <1>2, <1>3, <1>6, <1>7

\* The task leaves the call it has entered, and no event is taken from the others.
LEMMA LeaveFacts ==
  ASSUME EventInv, NEW c \in UserTask, args' = [args EXCEPT ![c] = NoArgs],
         \A o \in Event : event[o].ready => event'[o].ready
  PROVE  /\ args' \in [TaskID -> Read \cup Write \cup {NoArgs}]
         /\ \A t \in TaskID : Entered(t)'
<1>1. /\ args \in [TaskID -> Read \cup Write \cup {NoArgs}] /\ c \in TaskID
      /\ \A t \in TaskID : Entered(t)
  BY ContextFacts DEF EventInv, EventTypeOK
<1>2. /\ args' \in [TaskID -> Read \cup Write \cup {NoArgs}]
      /\ \A t \in TaskID : args'[t] \in {args[t], NoArgs}
  BY <1>1
<1>3. ASSUME NEW t \in TaskID PROVE Entered(t)'
  <2>1. args[t].op # "none" => args[t].e \in Event
    BY <1>1, ArgsFacts
  <2> QED BY <1>1, <1>2, <2>1, EnteredKept
<1> QED BY <1>2, <1>3

\* The checks of a read or a write change nothing but where its task is.
LEMMA EnterInv ==
  ASSUME EventInv, NEW c \in UserTask, NEW a \in Read \cup Write, EventEnter(c, a)
  PROVE  EventInv'
<1>1. /\ InApp(c) /\ event[a.e].ready /\ MayUse(a.mask) /\ args' = [args EXCEPT ![c] = a]
      /\ pc' = [pc EXCEPT ![c] = "enter"] /\ k' = k /\ UNCHANGED <<sched, slice, scan>>
      /\ event' = event /\ call' = call /\ woken' = woken
  BY ContextFacts DEF EventEnter, MayEvent
<1>2. /\ IInv(TRUE) /\ EventTypeOK /\ PendCalls /\ NoSleepingMatch
      /\ \A t \in TaskID : ReaderOK(t) /\ Entered(t)
      /\ c \in TaskID
  BY ContextFacts DEF EventInv
<1>3. IInv(TRUE)' /\ \A t \in TaskID : Untouched(t)
  BY <1>1, <1>2, EntryStep
<1>4. /\ args' \in [TaskID -> Read \cup Write \cup {NoArgs}] /\ args'[c] = a
      /\ \A t \in TaskID \ {c} : args'[t] = args[t]
  BY <1>1, <1>2 DEF EventTypeOK
<1>5. \A t \in TaskID : Entered(t)'
  BY <1>1, <1>2, <1>4 DEF Entered
<1>6. EventTypeOK' /\ NoSleepingMatch'
  BY <1>1, <1>2, <1>4 DEF EventTypeOK, NoSleepingMatch
<1>7. PendCalls'
  BY <1>1, <1>2, <1>3 DEF PendCalls, AskedEvent, WaitsFor, Untouched, InCall
<1>8. \A t \in TaskID : ReaderOK(t)'
  BY <1>1, <1>2, <1>3, ReaderKept
<1> QED BY <1>3, <1>5, <1>6, <1>7, <1>8 DEF EventInv

\* A read that finds its bits, or will not wait for them, returns.
LEMMA TakeInv ==
  ASSUME EventInv, NEW c \in UserTask, EventTake(c) \/ EventMiss(c)
  PROVE  EventInv'
<1> DEFINE e == args[c].e
           left == IF EventTake(c) THEN Left(event[e].bits, args[c].mask, args[c].mode)
                   ELSE event[e].bits
<1>1. /\ AtEntry(c) /\ args[c].op = "read" /\ args' = [args EXCEPT ![c] = NoArgs]
      /\ pc' = [pc EXCEPT ![c] = "app"] /\ k' = k /\ UNCHANGED <<sched, slice, scan>>
      /\ call' = call
  BY DEF EventTake, EventMiss, Leave
<1>2. /\ IInv(TRUE) /\ EventTypeOK /\ c \in TaskID
  BY ContextFacts DEF EventInv
<1>3. e \in Event
  BY <1>1, <1>2, ArgsFacts DEF EventTypeOK
<1>4. left \in SUBSET event[e].bits
  BY DEF Left
<1>5. event' = [event EXCEPT ![e].bits = left] /\ woken' = Track(e, left)
  <2>1. CASE EventTake(c)
    BY <2>1 DEF EventTake, SetBits
  <2>2. CASE ~EventTake(c)
    <3>1. event' = event /\ woken' = woken
      BY <2>2 DEF EventMiss
    <3>2. event = [event EXCEPT ![e].bits = event[e].bits]
      BY <1>2, <1>3 DEF EventTypeOK
    <3> QED BY <1>3, <2>2, <3>1, <3>2, TrackSame
  <2> QED BY <2>1, <2>2
<1> HIDE DEF e, left
<1>6. /\ event'[e].bits = left /\ \A o \in Event \ {e} : event'[o] = event[o]
      /\ \A o \in Event : event'[o].ready = event[o].ready
      /\ event' \in [Event -> [ready : BOOLEAN, bits : SUBSET Bit]]
  BY <1>2, <1>3, <1>4, <1>5 DEF EventTypeOK
<1>7. IInv(TRUE)' /\ \A t \in TaskID : Untouched(t)
  BY <1>1, <1>2, EntryStep
<1>8. /\ args' \in [TaskID -> Read \cup Write \cup {NoArgs}]
      /\ \A t \in TaskID : Entered(t)'
  BY <1>1, <1>6, LeaveFacts
<1>9. \A t \in TaskID : InCall(t)' <=> InCall(t)
  BY <1>7 DEF Untouched
<1> QED BY <1>1, <1>3, <1>4, <1>5, <1>6, <1>7, <1>8, <1>9, BitsInv

\* A call that follows a NULL pointer ends everything.
LEMMA FaultInv ==
  ASSUME EventInv, NEW c \in UserTask, EventFault(c)
  PROVE  EventInv'
<1>1. /\ AtEntry(c) /\ args[c].op # "none" /\ ~event[args[c].e].ready
      /\ k' = [k EXCEPT !.fault = TRUE] /\ pc' = pc /\ UNCHANGED <<sched, slice, scan>>
      /\ args' = args /\ event' = event /\ call' = call /\ woken' = woken
  BY DEF EventFault, Waits
<1>2. /\ IInv(TRUE) /\ EventTypeOK /\ PendCalls /\ NoSleepingMatch
      /\ \A t \in TaskID : ReaderOK(t) /\ Entered(t)
      /\ c \in TaskID /\ k \in KernelType
  BY InvKernel, ContextFacts DEF EventInv
<1>3. Misuse # {}
  BY <1>1, <1>2 DEF Entered
<1>4. IInv(TRUE)' /\ \A t \in TaskID : Untouched(t)
  BY <1>1, <1>2, <1>3, FaultStep
<1>5. k'.pend = k.pend /\ k'.status = k.status
  BY <1>1, <1>2 DEF KernelType
<1>6. EventTypeOK' /\ NoSleepingMatch' /\ PendCalls'
  BY <1>1, <1>2, <1>5 DEF EventTypeOK, NoSleepingMatch, PendCalls, AskedEvent, WaitsFor
<1>7. \A t \in TaskID : ReaderOK(t)' /\ Entered(t)'
  BY <1>1, <1>2, <1>4, ReaderKept DEF Entered
<1> QED BY <1>4, <1>6, <1>7 DEF EventInv

\* LOS_EventRead puts the caller on the wait list of an event that lacks its bits.
LEMMA WaitInv ==
  ASSUME EventInv, NEW c \in UserTask, EventWait(c)
  PROVE  EventInv'
<1> DEFINE e == args[c].e
           mask == args[c].mask
           mode == args[c].mode
           n == args[c].timeout
<1>1. /\ AtEntry(c) /\ taskLock = 0 /\ event[e].ready /\ n # 0 /\ args[c].op = "read"
      /\ args' = [args EXCEPT ![c] = NoArgs] /\ Found(event[e].bits, mask, mode) = {}
      /\ k' = osTaskWait(k, c, e, "PEND", n) /\ pc' = [pc EXCEPT ![c] = "wait"]
      /\ UNCHANGED <<sched, slice, scan>> /\ event' = event /\ woken' = woken
      /\ call' = [call EXCEPT ![c] = [e |-> e, mask |-> mask, mode |-> mode]]
  BY DEF EventWait, Waits, FoundBy, Leave
<1>2. /\ IInv(TRUE) /\ EventTypeOK /\ PendCalls /\ NoSleepingMatch
      /\ \A t \in TaskID : ReaderOK(t) /\ Entered(t)
      /\ pc[c] = "enter" /\ c \in TaskID
      /\ pc \in [TaskID -> {"app", "enter", "sched", "wait", "check"}]
  BY <1>1, ContextFacts DEF EventInv, AtEntry, IInv, TypeOK
<1>13. /\ e \in Event /\ mask \in Mask /\ mode \in Mode /\ n \in Timeouts /\ MayUse(mask)
  BY <1>1, <1>2, ArgsFacts DEF EventTypeOK, Entered
<1> HIDE DEF e, mask, mode, n
<1>3. /\ ~InCall(c) /\ "TIMEOUT" \notin k.status[c] /\ woken[c] = "no"
      /\ mask \in SUBSET Bit /\ mask # {} /\ e \in PendObj /\ e # NoTask
  BY <1>1, <1>2, <1>13, EventFacts DEF PendCalls, WaitsFor, InCall, ReaderOK
<1>14. /\ args' \in [TaskID -> Read \cup Write \cup {NoArgs}]
       /\ \A t \in TaskID : Entered(t)'
  BY <1>1, LeaveFacts
<1>4. SameNodes(k) /\ n \in (Nat \ {0}) \cup {WAIT_FOREVER} /\ "PEND" \in Waiting
  BY <1>1, <1>2, <1>13, InvKernel, EventFacts DEF SameNodes, SameRest
<1>5. IInv(TRUE)' /\ BeginsWait(c, e, "PEND")
  BY <1>1, <1>2, <1>3, <1>4, WaitStep
<1>6. /\ call'[c].e = e /\ call'[c].mask = mask /\ call'[c].mode = mode /\ pc'[c] = "wait"
      /\ \A t \in TaskID \ {c} : call'[t] = call[t]
  BY <1>1, <1>2 DEF EventTypeOK
<1>7. EventTypeOK'
  BY <1>1, <1>2, <1>3, <1>13, <1>14 DEF EventTypeOK
<1>8. PendCalls'
  <2>1. AskedEvent'[c] = e /\ \A t \in TaskID \ {c} : AskedEvent'[t] = AskedEvent[t]
    BY <1>2, <1>6 DEF AskedEvent
  <2> QED BY <1>2, <1>3, <1>5, <1>6, <2>1, EventFacts, BeginsWaitCalls DEF PendCalls
<1>9. NoSleepingMatch'
  <2>1. ASSUME NEW o \in Event, NEW t \in TaskID, IsOn(k'.pend[o], t)
        PROVE  /\ event[o].ready /\ call'[t].e = o /\ woken[t] = "no"
               /\ Found(event[o].bits, call'[t].mask, call'[t].mode) = {}
    <3>1. IsOn(k.pend[o], t) \/ (o = e /\ t = c)
      BY <1>5, <2>1, EventFacts DEF BeginsWait
    <3>2. IsOn(k.pend[o], t) => t # c
      BY <1>5, EventFacts DEF BeginsWait
    <3>3. CASE IsOn(k.pend[o], t)
      BY <1>2, <1>6, <3>2, <3>3 DEF NoSleepingMatch
    <3>4. CASE o = e /\ t = c
      BY <1>1, <1>3, <1>6, <3>4
    <3> QED BY <3>1, <3>3, <3>4
  <2> QED BY <1>1, <2>1 DEF NoSleepingMatch
<1>10. ASSUME NEW t \in TaskID
       PROVE  ReaderOK(t)'
  <2>1. CASE t # c
    BY <1>1, <1>2, <1>5, <1>6, <2>1, ReaderKept DEF BeginsWait
  <2>2. CASE t = c
    <3>1. IsOn(k'.pend[e], c)
      BY <1>3, <1>5 DEF BeginsWait
    <3> QED BY <1>1, <1>3, <1>6, <1>13, <2>2, <3>1 DEF ReaderOK, InCall
  <2> QED BY <2>1, <2>2
<1> QED BY <1>5, <1>7, <1>8, <1>9, <1>10, <1>14 DEF EventInv

\* A call of LOS_EventRead that has waited returns.
LEMMA ReturnInv ==
  ASSUME EventInv, NEW c \in UserTask, EventReturn(c)
  PROVE  EventInv'
<1> DEFINE e == call[c].e
           left == Left(event[e].bits, call[c].mask, call[c].mode)
           bits == IF "TIMEOUT" \in k.status[c] THEN event[e].bits ELSE left
<1>1. /\ TaskRuns(c) /\ pc[c] = "check" /\ pc' = [pc EXCEPT ![c] = "app"]
      /\ call' = [call EXCEPT ![c] = NoCall] /\ UNCHANGED <<sched, slice, scan>>
      /\ args' = args /\ FlagCleared(c)
  BY DEF EventReturn, FlagCleared
<1>2. /\ IInv(TRUE) /\ EventTypeOK /\ PendCalls /\ NoSleepingMatch /\ \A t \in TaskID : ReaderOK(t) /\ Entered(t)
      /\ c \in TaskID
  BY ContextFacts DEF EventInv
<1>3. e \in Event /\ event[e].bits \in SUBSET Bit
  BY <1>1, <1>2 DEF PendCalls, WaitsFor, AskedEvent, EventTypeOK
<1>4. /\ event' = [event EXCEPT ![e].bits = bits]
      /\ woken' = [Track(e, bits) EXCEPT ![c] = "no"]
  <2>1. CASE "TIMEOUT" \in k.status[c]
    <3>1. event' = event /\ woken' = [woken EXCEPT ![c] = "no"]
      BY <2>1 DEF EventReturn
    <3>2. Track(e, event[e].bits) = woken
      BY <1>3, TrackSame
    <3>3. event = [event EXCEPT ![e].bits = event[e].bits]
      BY <1>2, <1>3 DEF EventTypeOK
    <3> QED BY <2>1, <3>1, <3>2, <3>3
  <2>2. CASE "TIMEOUT" \notin k.status[c]
    BY <2>2 DEF EventReturn
  <2> QED BY <2>1, <2>2
<1>5. bits \in SUBSET event[e].bits
  BY DEF Left
<1> HIDE DEF bits, e
<1>6. /\ event'[e].bits = bits /\ event'[e].ready = event[e].ready
      /\ \A o \in Event \ {e} : event'[o] = event[o]
      /\ \A o \in Event : event'[o].ready = event[o].ready /\ event'[o].bits \in SUBSET event[o].bits
  BY <1>2, <1>3, <1>4, <1>5 DEF EventTypeOK
<1>7. /\ woken'[c] = "no"
      /\ \A t \in TaskID \ {c} :
           woken'[t] = IF woken[t] = "yes" /\ call[t].e = e /\ ~Satisfies(bits, t)
                       THEN "taken" ELSE woken[t]
  BY <1>2, <1>4 DEF Track, Satisfies
<1>8. call'[c] = NoCall /\ \A t \in TaskID \ {c} : call'[t] = call[t]
  BY <1>1, <1>2 DEF EventTypeOK
<1>9. IInv(TRUE)' /\ Returned(c) /\ PendCalls'
  <2>1. CallOver(AskedEvent, AskedEvent', c)
    BY <1>2, <1>8 DEF CallOver, AskedEvent, NoCall
  <2>2. IInv(TRUE)' /\ Returned(c) /\ WaitsFor("PEND", k', pc', AskedEvent')
    BY <1>1, <1>2, <2>1, EventFacts, ReturnCalls DEF PendCalls
  <2> QED BY <2>2 DEF PendCalls
<1>10. EventTypeOK'
  <2>1. NoCall \in [e : Event \cup {NoTask}, mask : SUBSET Bit, mode : Mode]
    BY DEF NoCall, Mode
  <2>2. call' \in [TaskID -> [e : Event \cup {NoTask}, mask : SUBSET Bit, mode : Mode]]
    BY <1>1, <1>2, <2>1 DEF EventTypeOK
  <2>3. event' \in [Event -> [ready : BOOLEAN, bits : SUBSET Bit]]
    BY <1>2, <1>3, <1>4, <1>5 DEF EventTypeOK
  <2>4. woken' \in [TaskID -> {"no", "yes", "taken"}]
    BY <1>2, <1>4 DEF EventTypeOK, Track
  <2> QED BY <1>1, <1>2, <2>2, <2>3, <2>4 DEF EventTypeOK
<1>11. NoSleepingMatch'
  <2>1. ASSUME NEW o \in Event, NEW t \in TaskID, IsOn(k'.pend[o], t)
        PROVE  /\ event'[o].ready /\ call'[t].e = o /\ woken'[t] = "no"
               /\ Found(event'[o].bits, call'[t].mask, call'[t].mode) = {}
    <3>1. IsOn(k.pend[o], t) /\ t # c
      BY <1>9, <2>1, EventFacts DEF Returned
    <3>2. /\ event[o].ready /\ call[t].e = o /\ woken[t] = "no"
          /\ Found(event[o].bits, call[t].mask, call[t].mode) = {}
      BY <1>2, <3>1 DEF NoSleepingMatch
    <3>3. call[t].mask # {} /\ call'[t] = call[t] /\ woken'[t] = "no"
      BY <1>2, <1>7, <1>8, <3>1, <3>2, EventFacts DEF ReaderOK
    <3>4. event'[o].ready /\ event'[o].bits \in SUBSET event[o].bits
      BY <1>6, <3>2
    <3> QED BY <3>2, <3>3, <3>4, FoundLess
  <2> QED BY <2>1 DEF NoSleepingMatch
<1>12. ASSUME NEW t \in TaskID
       PROVE  ReaderOK(t)'
  <2>1. CASE t = c
    <3>1. pc'[c] = "app" /\ call'[c].e = NoTask /\ woken'[c] = "no"
      BY <1>1, <1>2, <1>7, <1>8 DEF NoCall, IInv, TypeOK
    <3> QED BY <2>1, <3>1 DEF ReaderOK, InCall
  <2>2. CASE t # c
    <3>1. /\ ReaderOK(t) /\ Untouched(t) /\ call'[t] = call[t]
          /\ (woken'[t] = "no" <=> woken[t] = "no")
      BY <1>2, <1>7, <1>8, <1>9, <2>2 DEF Returned
    <3>2. woken'[t] = "yes" => Satisfies(event'[call[t].e].bits, t)
      <4>1. SUFFICES ASSUME woken'[t] = "yes" PROVE Satisfies(event'[call[t].e].bits, t)
        OBVIOUS
      <4>2. woken[t] = "yes" /\ (call[t].e = e => Satisfies(bits, t))
        BY <1>7, <2>2, <4>1
      <4>3. InCall(t) /\ Satisfies(event[call[t].e].bits, t)
        BY <3>1, <4>2 DEF ReaderOK
      <4>4. call[t].e \in Event
        BY <1>2, <4>3 DEF PendCalls, WaitsFor, AskedEvent, InCall, EventTypeOK
      <4> QED BY <1>6, <4>2, <4>3, <4>4
    <3>3. /\ "TIMEOUT" \in k'.status[t] <=> "TIMEOUT" \in k.status[t]
          /\ \A o \in Event : IsOn(k'.pend[o], t) <=> IsOn(k.pend[o], t)
          /\ InCall(t)' <=> InCall(t)
      BY <3>1 DEF Untouched, WaitFlag, Event
    <3> QED BY <3>1, <3>2, <3>3 DEF ReaderOK, Satisfies
  <2> QED BY <2>1, <2>2
<1>13. ASSUME NEW t \in TaskID
       PROVE  Entered(t)'
  <2>1. args[t].op # "none" => args[t].e \in Event
    BY <1>2, ArgsFacts DEF EventTypeOK
  <2> QED BY <1>1, <1>2, <1>6, <2>1, EnteredKept
<1> QED BY <1>9, <1>10, <1>11, <1>12, <1>13 DEF EventInv

\* The waiting readers of an event form a list that the loop can walk.
LEMMA ReadersOK ==
  ASSUME EventInv, scan.at = "off", NEW e \in Event
  PROVE  /\ Readers(k.pend[e])
         /\ \A t \in TaskID : IsOn(k.pend[e], t) =>
              /\ k.status[t] \cap Waiting = {"PEND"} /\ InCall(t) /\ call[t].e = e
<1>1. /\ KernelOK(k) /\ OneList(k) /\ k \in KernelType /\ PendCalls /\ e \in PendObj
      /\ TimerExact(k) /\ k.pend[e] \in Seq(TaskID)
  BY InvKernel, EventFacts DEF EventInv, IInv, KernelType, ListNodes, Timers
<1>2. ASSUME NEW t \in TaskID, IsOn(k.pend[e], t)
      PROVE  /\ k.status[t] \cap Waiting = {"PEND"} /\ InCall(t) /\ call[t].e = e
             /\ "TIMEOUT" \in k.status[t] <=> IsOn(k.timer, t)
  <2>1. AskedEvent[t] = e /\ k.status[t] \cap Waiting \subseteq {"PEND"} /\ InCall(t)
    BY <1>1, <1>2, EventFacts DEF PendCalls, WaitsFor, InCall
  <2>2. k.status[t] \cap Waiting # {}
    BY <1>1, <1>2 DEF OneList
  <2>3. k.status[t] \cap Waiting = {"PEND"}
    BY <2>1, <2>2
  <2>4. "DELAY" \notin k.status[t]
    BY <1>1, <2>3 DEF OneList, Waiting
  <2> QED BY <1>1, <2>1, <2>3, <2>4 DEF AskedEvent, TimerExact
<1>3. IsInjective(k.pend[e]) /\ IsInjective(k.timer)
  BY <1>1 DEF OneList, TimerExact
<1> QED BY <1>1, <1>2, <1>3 DEF Readers

\* LOS_EventWrite wakes every reader that its bits satisfy, and no other sleeps
\* beside the bits it waits for.
LEMMA WriteInv ==
  ASSUME EventInv, Unnested, NEW c \in Caller, NEW e \in Event, NEW new \in Mask,
         LOS_EventWrite(c, e, new)
  PROVE  EventInv'
<1> DEFINE bits == event[e].bits \cup new
           hits == Hits(e, new, bits)
<1>1. /\ event[e].ready /\ call' = call
      /\ args' = IF c = Isr THEN args ELSE [args EXCEPT ![c] = NoArgs]
      /\ event' = [event EXCEPT ![e].bits = bits]
      /\ woken' = [t \in TaskID |-> IF t \in hits THEN "yes" ELSE woken[t]]
      /\ UNCHANGED <<runTask, taskLock, scheduled, making, slice, scan>>
      /\ IF hits # {} THEN k' = WakeReaders(e, new, bits) /\ Then_LOS_Schedule(c)
                      ELSE /\ pc' = IF c = Isr THEN pc ELSE [pc EXCEPT ![c] = "app"]
                           /\ UNCHANGED <<k, newTask, pendSV>>
  BY DEF LOS_EventWrite
<1>2. /\ IInv(TRUE) /\ EventTypeOK /\ PendCalls /\ NoSleepingMatch
      /\ \A t \in TaskID : ReaderOK(t) /\ Entered(t)
      /\ Event = PendObj /\ NoTask \notin PendObj
  BY EventFacts DEF EventInv
<1>3. bits \in SUBSET Bit /\ event[e].bits \in SUBSET bits
  <2>1. MayUse(new)
    <3>1. CASE c = Isr
      BY <3>1, ContextFacts DEF LOS_EventWrite
    <3>2. CASE c # Isr
      <4>1. c \in TaskID /\ args[c].op # "none" /\ args[c].mask = new
        BY <3>2, ContextFacts DEF LOS_EventWrite
      <4> QED BY <1>2, <4>1 DEF Entered
    <3> QED BY <3>1, <3>2
  <2> QED BY <1>2, <2>1, EventFacts DEF EventTypeOK
<1>4. /\ scan.at = "off" /\ scheduled
      /\ \/ c \in UserTask /\ (InApp(c) \/ AtEntry(c))
         \/ c = Isr
  <2>1. CASE c = Isr
    BY <2>1, ContextFacts DEF LOS_EventWrite, MayEvent, IsrRuns, Unnested
  <2>2. CASE c # Isr
    <3>1. c \in UserTask /\ AtEntry(c)
      BY <2>2 DEF LOS_EventWrite
    <3> QED BY <1>2, <3>1, CallingFacts
  <2> QED BY <2>1, <2>2
<1>5. /\ hits \in SUBSET TaskID
      /\ \A t \in hits : /\ IsOn(k.pend[e], t) /\ Satisfied(t, new, bits)
                         /\ k.status[t] \cap Waiting = {"PEND"} /\ InCall(t) /\ call[t].e = e
  BY <1>4, ReadersOK DEF Hits
<1>6. \A t \in TaskID : IsOn(k.pend[e], t) /\ t \notin hits => ~Satisfied(t, new, bits)
  BY DEF Hits
<1>7. IInv(TRUE)' /\ EndsWaits(hits)
  <2>1. CASE hits # {}
    <3>1. AfterWakes(k, k', hits, "PEND")
      BY <1>1, <1>4, <2>1, ReadersOK, WakeReadersOK
    <3>2. Then_LOS_Schedule(c)
      BY <1>1, <2>1
    <3> HIDE DEF hits
    <3> QED BY <1>1, <1>2, <1>4, <1>5, <3>1, <3>2, EventFacts, WakesStep
  <2>2. CASE hits = {}
    <3>1. /\ k' = k /\ UNCHANGED <<sched, slice, scan>>
          /\ pc' = IF c = Isr THEN pc ELSE [pc EXCEPT ![c] = "app"]
      BY <1>1, <2>2 DEF sched
    <3> HIDE DEF hits
    <3>2. CASE c = Isr
      <4>1. UNCHANGED vars /\ pc' = pc
        BY <3>1, <3>2 DEF vars
      <4>2. IInv(TRUE)' /\ \A t \in TaskID : Untouched(t)
        BY <1>2, <4>1, StutterOK
      <4> QED BY <2>2, <3>1, <4>1, <4>2 DEF EndsWaits, PcKept
    <3>3. CASE c # Isr
      <4>1. /\ c \in UserTask /\ (InApp(c) \/ AtEntry(c)) /\ pc' = [pc EXCEPT ![c] = "app"]
            /\ c \in TaskID /\ "UNUSED" \notin k.status[c]
        BY <1>2, <1>4, <3>1, <3>3, CallingFacts, ContextFacts
      <4>2. IInv(TRUE)' /\ \A t \in TaskID : Untouched(t)
        BY <1>2, <3>1, <4>1, EntryStep
      <4>3. PcKept
        BY <1>2, <4>1, <4>2 DEF PcKept, Untouched, IInv, TypeOK
      <4> QED BY <2>2, <3>1, <4>2, <4>3 DEF EndsWaits
    <3> QED BY <3>2, <3>3
  <2> QED BY <2>1, <2>2
<1> HIDE DEF hits, bits
<1>8. PendCalls'
  BY <1>1, <1>2, <1>5, <1>7, EventFacts, EndsWaitsCalls DEF PendCalls, AskedEvent
<1>9. /\ event'[e].bits = bits /\ event'[e].ready = event[e].ready
      /\ \A o \in Event \ {e} : event'[o] = event[o]
  BY <1>1, <1>2 DEF EventTypeOK
<1>13. /\ args' \in [TaskID -> Read \cup Write \cup {NoArgs}]
       /\ \A t \in TaskID : Entered(t)'
  <2>1. \A o \in Event : event[o].ready => event'[o].ready
    BY <1>9
  <2>2. CASE c = Isr
    <3>1. ASSUME NEW t \in TaskID PROVE Entered(t)'
      <4>1. args[t].op # "none" => args[t].e \in Event
        BY <1>2, ArgsFacts DEF EventTypeOK
      <4> QED BY <1>1, <1>2, <2>1, <2>2, <4>1, EnteredKept
    <3> QED BY <1>1, <1>2, <2>2, <3>1 DEF EventTypeOK
  <2>3. CASE c # Isr
    <3>1. c \in UserTask
      BY <1>4, <2>3
    <3> QED BY <1>1, <2>1, <2>3, <3>1, LeaveFacts
  <2> QED BY <2>2, <2>3
<1>10. EventTypeOK'
  <2>1. woken' \in [TaskID -> {"no", "yes", "taken"}]
    BY <1>1, <1>2 DEF EventTypeOK
  <2> QED BY <1>1, <1>2, <1>3, <1>13, <2>1 DEF EventTypeOK
<1>11. NoSleepingMatch'
  <2>1. ASSUME NEW o \in Event, NEW t \in TaskID, IsOn(k'.pend[o], t)
        PROVE  /\ event'[o].ready /\ call[t].e = o /\ woken'[t] = "no"
               /\ Found(event'[o].bits, call[t].mask, call[t].mode) = {}
    <3>1. IsOn(k.pend[o], t) /\ t \notin hits
      BY <1>2, <1>7, <2>1 DEF EndsWaits
    <3>2. /\ event[o].ready /\ call[t].e = o /\ woken[t] = "no"
          /\ Found(event[o].bits, call[t].mask, call[t].mode) = {}
      BY <1>2, <3>1 DEF NoSleepingMatch
    <3>3. CASE o # e
      BY <1>1, <1>9, <3>1, <3>2, <3>3
    <3>4. CASE o = e
      <4>1. ~Satisfied(t, new, bits)
        BY <1>6, <3>1, <3>4
      <4>2. Found(bits, call[t].mask, call[t].mode) = {}
        BY <3>2, <3>4, <4>1 DEF Satisfied, Found, bits
      <4> QED BY <1>1, <1>9, <3>1, <3>2, <3>4, <4>2
    <3> QED BY <3>3, <3>4
  <2> QED BY <1>1, <2>1 DEF NoSleepingMatch
<1>12. ASSUME NEW t \in TaskID
       PROVE  ReaderOK(t)'
  <2>1. CASE t \in hits
    <3>1. /\ InCall(t)' /\ woken'[t] = "yes" /\ "TIMEOUT" \notin k'.status[t] /\ call'[t] = call[t]
          /\ call[t].e = e /\ call[t].mask # {}
      BY <1>1, <1>2, <1>5, <1>7, <2>1 DEF EndsWaits, PcKept, InCall, WaitFlag, ReaderOK
    <3>2. Satisfies(bits, t)
      <4>1. Satisfied(t, new, bits)
        BY <1>5, <2>1
      <4> QED BY <3>1, <4>1 DEF Satisfied, Satisfies, Found, bits
    <3> QED BY <1>9, <3>1, <3>2 DEF ReaderOK, Satisfies
  <2>2. CASE t \notin hits
    <3>1. /\ ReaderOK(t) /\ Untouched(t) /\ call'[t] = call[t] /\ woken'[t] = woken[t]
      BY <1>1, <1>2, <1>7, <2>2 DEF EndsWaits
    <3>2. /\ "TIMEOUT" \in k'.status[t] <=> "TIMEOUT" \in k.status[t]
          /\ \A o \in Event : IsOn(k'.pend[o], t) <=> IsOn(k.pend[o], t)
          /\ InCall(t)' <=> InCall(t)
      BY <3>1 DEF Untouched, WaitFlag, Event
    <3>3. woken[t] = "yes" => Satisfies(event'[call[t].e].bits, t)
      <4>1. SUFFICES ASSUME woken[t] = "yes" PROVE Satisfies(event'[call[t].e].bits, t)
        OBVIOUS
      <4>2. InCall(t) /\ Satisfies(event[call[t].e].bits, t)
        BY <3>1, <4>1 DEF ReaderOK
      <4>3. call[t].e \in Event
        BY <1>2, <4>2 DEF PendCalls, WaitsFor, AskedEvent, InCall, EventTypeOK
      <4>4. CASE call[t].e # e
        BY <1>9, <4>2, <4>3, <4>4
      <4>5. CASE call[t].e = e
        <5>1. Satisfies(event[e].bits, t)
          BY <4>2, <4>5
        <5>2. Satisfies(bits, t)
          BY <1>3, <5>1 DEF Satisfies, Found
        <5> QED BY <1>9, <4>5, <5>2
      <4> QED BY <4>4, <4>5
    <3> QED BY <3>1, <3>2, <3>3 DEF ReaderOK, Satisfies
  <2> QED BY <2>1, <2>2
<1> QED BY <1>7, <1>8, <1>10, <1>11, <1>12, <1>13 DEF EventInv

\* A step of the task manager ends waits by their time limits or with their
\* tasks, and begins none.
LEMMA TaskStepInv ==
  ASSUME EventInv, Unnested, NoIsrSuspend, TaskStep
  PROVE  EventInv'
<1>1. IInv(TRUE)' /\ WaitersKept
  BY NextInv DEF EventInv, TaskStep
<1>2. PICK u \in TaskID : /\ \A t \in TaskID \ {u} : Untouched(t)
                          /\ \/ Untouched(u)
                             \/ /\ Created(u) \/ Deleted(u) \/ TimedOut(u)
                                /\ \A o \in PendObj : ~IsOn(k'.pend[o], u)
  BY <1>1, TaskStepOK
<1>3. /\ args' = [t \in TaskID |-> IF "UNUSED" \in k'.status[t] THEN NoArgs ELSE args[t]]
      /\ call' = [t \in TaskID |-> IF "UNUSED" \in k'.status[t] THEN NoCall ELSE call[t]]
      /\ woken' = [t \in TaskID |-> IF "UNUSED" \in k'.status[t] THEN "no" ELSE woken[t]]
      /\ event' = event
  BY DEF TaskStep
<1>4. /\ IInv(TRUE) /\ EventTypeOK /\ PendCalls /\ NoSleepingMatch /\ \A t \in TaskID : ReaderOK(t) /\ Entered(t)
      /\ Event = PendObj /\ NoTask \notin PendObj /\ LiveOK
  BY EventFacts DEF EventInv, IInv
<1>5. EventTypeOK'
  <2>1. NoCall \in [e : Event \cup {NoTask}, mask : SUBSET Bit, mode : Mode]
    BY DEF NoCall, Mode
  <2> QED BY <1>3, <1>4, <2>1 DEF EventTypeOK
<1>6. PendCalls' /\ \A t \in TaskID : Untouched(t) => AskedEvent'[t] = AskedEvent[t]
  <2>1. CallsLeft(AskedEvent, AskedEvent')
    <3>1. \A t \in TaskID : AskedEvent'[t] = IF "UNUSED" \in k'.status[t] THEN NoTask ELSE AskedEvent[t]
      BY <1>3 DEF AskedEvent, NoCall
    <3>2. AskedEvent' = [t \in TaskID |-> AskedEvent'[t]]
      BY DEF AskedEvent
    <3> QED BY <3>1, <3>2 DEF CallsLeft
  <2>2. /\ WaitsFor("PEND", k', pc', AskedEvent')
        /\ \A t \in TaskID : Untouched(t) => AskedEvent'[t] = AskedEvent[t]
    BY <1>1, <1>4, <2>1, EventFacts, TaskStepCalls DEF PendCalls
  <2> QED BY <2>2 DEF PendCalls
<1>7. ASSUME NEW t \in TaskID, Untouched(t)
      PROVE  woken'[t] = woken[t] /\ ("UNUSED" \notin k'.status[t] => call'[t] = call[t])
  <2>1. "UNUSED" \in k'.status[t] => ~InCall(t)
    BY <1>4, <1>7 DEF Untouched, WaitFlag, LiveOK, InCall
  <2> QED BY <1>3, <1>4, <2>1 DEF ReaderOK
<1>8. NoSleepingMatch'
  <2>1. ASSUME NEW o \in Event, NEW t \in TaskID, IsOn(k'.pend[o], t)
        PROVE  /\ event[o].ready /\ call'[t].e = o /\ woken'[t] = "no"
               /\ Found(event[o].bits, call'[t].mask, call'[t].mode) = {}
    <3>1. Untouched(t) /\ IsOn(k.pend[o], t)
      BY <1>2, <1>4, <2>1 DEF Untouched
    <3>2. /\ event[o].ready /\ call[t].e = o /\ woken[t] = "no"
          /\ Found(event[o].bits, call[t].mask, call[t].mode) = {}
      BY <1>4, <3>1 DEF NoSleepingMatch
    <3>3. "UNUSED" \notin k'.status[t]
      <4>1. OneList(k')
        BY <1>1 DEF IInv, ListNodes
      <4> QED BY <1>4, <2>1, <4>1 DEF OneList, Waiting
    <3> QED BY <1>7, <3>1, <3>2, <3>3
  <2> QED BY <1>3, <2>1 DEF NoSleepingMatch
<1>9. ASSUME NEW t \in TaskID
      PROVE  ReaderOK(t)'
  <2>1. CASE "UNUSED" \in k'.status[t]
    <3>1. call'[t].e = NoTask /\ woken'[t] = "no"
      BY <1>3, <2>1 DEF NoCall
    <3>2. ~InCall(t)'
      BY <1>1, <2>1 DEF IInv, LiveOK, InCall
    <3> QED BY <3>1, <3>2 DEF ReaderOK
  <2>2. CASE "UNUSED" \notin k'.status[t] /\ Untouched(t)
    BY <1>3, <1>4, <1>7, <2>2, ReaderKept
  <2>3. CASE "UNUSED" \notin k'.status[t] /\ ~Untouched(t)
    <3>1. /\ t = u /\ call'[t] = call[t] /\ woken'[t] = woken[t]
          /\ Created(t) \/ (TimedOut(t) /\ InCall(t)' = InCall(t))
      BY <1>2, <1>3, <2>3 DEF Deleted, TimedOut, InCall
    <3>2. CASE Created(t)
      <4>1. ~InCall(t) /\ ~InCall(t)'
        BY <1>4, <3>2 DEF Created, LiveOK, InCall
      <4> QED BY <1>3, <1>4, <3>1, <4>1 DEF ReaderOK, Satisfies
    <3>3. CASE TimedOut(t)
      <4>1. InCall(t)' <=> InCall(t)
        BY <3>3 DEF TimedOut, InCall
      <4>2. "TIMEOUT" \in k'.status[t]
        BY <3>3 DEF TimedOut
      <4>3. woken[t] = "no"
        <5>1. OneList(k) /\ k.status[t] \cap Waiting # {}
          BY <1>4, <3>3 DEF TimedOut, IInv, ListNodes
        <5>2. \E o \in PendObj : IsOn(k.pend[o], t)
          BY <5>1 DEF OneList
        <5> QED BY <1>4, <5>2 DEF NoSleepingMatch
      <4> QED BY <1>3, <1>4, <3>1, <4>1, <4>2, <4>3 DEF ReaderOK
    <3> QED BY <3>1, <3>2, <3>3
  <2> QED BY <2>1, <2>2, <2>3
<1>10. ASSUME NEW t \in TaskID
       PROVE  Entered(t)'
  <2>1. args'[t] \in {args[t], NoArgs} /\ event' = event
    BY <1>3
  <2> QED BY <1>4, <2>1, EnteredKept
<1> QED BY <1>1, <1>5, <1>6, <1>8, <1>9, <1>10 DEF EventInv

\* Every step keeps the invariant.
LEMMA EventNextInv ==
  ASSUME EventInv, Unnested, NoIsrSuspend, [EventNext]_allVars
  PROVE  EventInv'
<1>1. CASE TaskStep
  BY <1>1, TaskStepInv
<1>2. ASSUME NEW c \in Caller \cup {Boot}, NEW e \in Event,
             \/ LOS_EventInit(c, e) \/ LOS_EventDestory(c, e)
             \/ \E mask : LOS_EventClear(c, e, mask) \/ \E mode : LOS_EventPoll(c, e, mask, mode)
      PROVE  EventInv'
  BY <1>2, ControlInv
<1>3. ASSUME NEW c \in Caller \cup {Boot}, NEW e \in Event, NEW mask \in Mask,
             LOS_EventWrite(c, e, mask)
      PROVE  EventInv'
  <2>1. c \in Caller
    BY <1>3 DEF LOS_EventWrite, MayEvent, Caller
  <2> QED BY <1>3, <2>1, WriteInv
<1>4. ASSUME NEW c \in UserTask, NEW a \in Read \cup Write, EventEnter(c, a)
      PROVE  EventInv'
  BY <1>4, EnterInv
<1>5. ASSUME NEW c \in Caller \cup {Boot}, EventCall(c)
      PROVE  EventInv'
  <2>1. PICK e \in Event :
          \/ LOS_EventInit(c, e) \/ LOS_EventDestory(c, e)
          \/ \E mask \in Mask :
               \/ LOS_EventClear(c, e, (Bit \cup {ErrorBit}) \ mask) \/ LOS_EventWrite(c, e, mask)
               \/ \E mode \in Mode : LOS_EventPoll(c, e, mask, mode)
    BY <1>5 DEF EventCall
  <2> QED BY <1>2, <1>3, <2>1
<1>6. ASSUME NEW c \in UserTask,
             EventTake(c) \/ EventMiss(c) \/ EventWait(c) \/ EventFault(c) \/ EventReturn(c)
      PROVE  EventInv'
  BY <1>6, TakeInv, WaitInv, FaultInv, ReturnInv
<1>7. CASE UNCHANGED allVars
  <2>1. UNCHANGED vars /\ args' = args /\ event' = event /\ call' = call /\ woken' = woken /\ k' = k /\ pc' = pc
    BY <1>7 DEF allVars, vars
  <2>2. IInv(TRUE)' /\ \A t \in TaskID : Untouched(t)
    BY <2>1, StutterOK DEF EventInv
  <2>3. EventTypeOK' /\ PendCalls' /\ NoSleepingMatch'
    BY <2>1 DEF EventInv, EventTypeOK, PendCalls, AskedEvent, NoSleepingMatch
  <2>4. \A t \in TaskID : ReaderOK(t)' /\ Entered(t)'
    BY <2>1, <2>2, ReaderKept DEF EventInv, Entered
  <2> QED BY <2>2, <2>3, <2>4 DEF EventInv
<1> QED BY <1>1, <1>4, <1>5, <1>6, <1>7 DEF EventNext

-----------------------------------------------------------------------------
(* The theorems                                                            *)

\* The invariant holds of every reachable state of the events and the tasks.
THEOREM EventInvariance ==
  ASSUME Unnested, NoIsrSuspend
  PROVE  EventSpec => []EventInv
<1>1. EventInit => EventInv
  BY EventInitInv
<1>2. EventInv /\ [EventNext]_allVars => EventInv'
  BY EventNextInv
<1> QED BY <1>1, <1>2, PTL DEF EventSpec

\* No reader sleeps beside the bits it waits for, whichever writes, reads, polls
\* and clears have added and removed them one by one, and nobody waits on an event
\* that was destroyed, were it between the reader's check and its wait.
THEOREM NobodySleepsBesideBits ==
  ASSUME Unnested, NoIsrSuspend
  PROVE  EventSpec => []NoSleepingMatch
<1>1. EventInv => NoSleepingMatch
  BY DEF EventInv
<1> QED BY <1>1, EventInvariance, PTL

\* A read that has waited returns a timeout exactly if no write has woken it, and
\* nobody is woken for bits that do not satisfy it.
THEOREM ReadersToldTrue ==
  ASSUME Unnested, NoIsrSuspend
  PROVE  EventSpec => []ReadTold
<1>1. ASSUME EventInv, NEW t \in UserTask
      PROVE  /\ TaskRuns(t) /\ pc[t] = "check" => ("TIMEOUT" \in k.status[t] <=> woken[t] = "no")
             /\ woken[t] = "yes" => Found(event[call[t].e].bits, call[t].mask, call[t].mode) # {}
  <2>1. ReaderOK(t) /\ t \in TaskID
    BY <1>1, ContextFacts DEF EventInv
  <2>2. ASSUME TaskRuns(t), pc[t] = "check"
        PROVE  \A o \in Event : ~IsOn(k.pend[o], t)
    <3>1. OneList(k) /\ "READY" \in k.status[t]
      <4>1. Running /\ OneList(k)
        BY <1>1 DEF EventInv, IInv, Dispatch, ListNodes
      <4> QED BY <2>1, <2>2, <4>1 DEF Running, TaskRuns
    <3> QED BY <2>1, <3>1 DEF OneList, Blocked, Event
  <2> QED BY <2>1, <2>2 DEF ReaderOK, Satisfies, InCall
<1>2. EventInv => ReadTold
  BY <1>1 DEF ReadTold
<1> QED BY <1>2, EventInvariance, PTL
=============================================================================
