---------------------------- MODULE AtFrameProofs ----------------------------
(***************************************************************************)
(* Theorems about the rendezvous of module AtFrame.                        *)
(*                                                                         *)
(* Everything rests on who holds trx_mux (TrxOK): while a user does, the   *)
(* receive task may look at the list and at the mutex but changes neither  *)
(* (Handled), so the one listener on the list is that user's; while the    *)
(* receive task does, the listeners all have callbacks.  The answers are   *)
(* counted on top of that (AnswersOK): as long as nothing went astray, at  *)
(* most one answer is on its way, as a debt of the modem, as a message in  *)
(* the queue or as a token of resp_sem, and it is for the command whose    *)
(* task waits.                                                             *)
(***************************************************************************)
EXTENDS AtFrame, SequenceTheorems, WellFoundedInduction, TLAPS

\* malloc always finds memory for the listener of a callback.  Without it the
\* receive task may hold trx_mux more often than it has listeners.
MemoryFound == ~NoMemory

\* What a listener may wait for, what a message may be, and the records of
\* listeners and of trx_mux.
Suffixes == {"OK", ">", "none"}
Kinds == {"OK", ">", "data", "sent", "ind", "urc"}
Messages == [kind : Kinds, id : Nat]
Listeners == [who : Users \cup {"recv"}, suffix : Suffixes, id : Nat, expired : BOOLEAN]
Mutexes == [owner : Users \cup {"recv", "none"}, count : Nat, waiters : Seq(Users)]

\* The framework has its type.
FrameType(s) ==
  s \in [list : Seq(Listeners), trx : Mutexes, sem : 0 .. SEM_MAX, dataInd : BOOLEAN]

\* Where a user may be in its call.
Places == {"idle", "trx", "prompt", "wait", "payload", "end"}

\* Each variable has its type.
AtTypeOK ==
  /\ pc \in [Users -> [at : Places, write : BOOLEAN, id : Nat, ok : BOOLEAN]]
  /\ FrameType(at) /\ rid \in Seq(Messages) /\ owed \in SUBSET Messages
  /\ cmds \in Nat /\ own \in SUBSET Nat /\ astray \in BOOLEAN

\* Nothing is on the list while nobody holds trx_mux, and only listeners with a
\* callback, each with a hold of the mutex, while the receive task does.
ListOK(s) ==
  /\ s.trx.owner = "none" => s.list = <<>> /\ s.trx.waiters = <<>> /\ s.trx.count = 0
  /\ s.trx.owner = "recv" =>
       /\ \A i \in 1 .. Len(s.list) : HasCallback(s.list[i])
       /\ s.trx.count >= 1 /\ s.trx.count >= Len(s.list)
       /\ MemoryFound => s.trx.count = Len(s.list)
  /\ s.trx.owner \in Users => \A i \in 1 .. Len(s.list) : ~HasCallback(s.list[i])

\* The task waits for trx_mux.
Waits(s, u) == \E i \in 1 .. Len(s.trx.waiters) : s.trx.waiters[i] = u
\* No task is in the list twice.
Distinct(w) == \A i, j \in 1 .. Len(w) : w[i] = w[j] => i = j

\* The calls in which the listener of the task is on the list.
InCall == {"prompt", "wait", "payload", "end"}

\* The listener the task in that call has on the list.
ItsListener(s, u, p) ==
  /\ s.trx.owner = u /\ Len(s.list) = 1 /\ s.list[1].who = u
  /\ p.at = "prompt" => s.list[1].suffix = ">" /\ s.list[1].id = p.id
  /\ p.at = "wait" => s.list[1].suffix = "OK" /\ s.list[1].id = p.id

\* Who holds trx_mux, who waits for it, and what is on the list.
TrxOK(s, p) ==
  /\ ListOK(s) /\ Distinct(s.trx.waiters)
  /\ \A u \in Users : Waits(s, u) <=> p[u].at = "trx" /\ s.trx.owner # u
  /\ \A u \in Users : s.trx.owner = u => s.trx.count = 1 /\ p[u].at # "idle"
  /\ \A u \in Users : s.trx.owner = u /\ p[u].at = "trx" => s.list = <<>>
  /\ \A u \in Users : p[u].at \in InCall => ItsListener(s, u, p[u])

\* An answer to a command of a user, and the one that is waited for.
Live(m) == m.kind \in {"OK", ">"}
\* The task waits for the message, and some task does.
AwaitedBy(u, m, p) ==
  \/ p[u].at = "prompt" /\ m = Message(">", p[u].id)
  \/ p[u].at = "wait" /\ m = Message("OK", p[u].id)
Awaited(m, p) == \E u \in Users : AwaitedBy(u, m, p)

\* At most one answer is on its way, and it is the one that is waited for.
OneAnswer(sem, q, debts, p) ==
  /\ sem <= 1 /\ (sem > 0 => \E u \in Users : p[u].at \in {"prompt", "wait"})
  /\ \A m \in debts : Live(m) => /\ Awaited(m, p) /\ sem = 0
                                 /\ \A i \in 1 .. Len(q) : ~Live(q[i])
  /\ \A i \in 1 .. Len(q) : Live(q[i]) =>
       /\ Awaited(q[i], p) /\ sem = 0
       /\ \A j \in 1 .. Len(q) : Live(q[j]) => i = j

\* Whoever has its token, or is to take it at the end, had its own answer.
Answered(sem, p, o) ==
  \A u \in Users :
    (p[u].at = "wait" /\ sem > 0) \/ (p[u].at = "end" /\ p[u].ok) => p[u].id \in o

\* The answers, as long as nothing has gone astray.
AnswersOK == ~astray => OneAnswer(at.sem, rid, owed, pc) /\ Answered(at.sem, pc, own)

\* The inductive invariant.
AtInv == AtTypeOK /\ TrxOK(at, pc) /\ AnswersOK

-----------------------------------------------------------------------------
(* The walk over the listeners that have expired.                          *)

\* A set of naturals with 0 and with the successor of each member is all of Nat.
LEMMA Induct ==
  ASSUME NEW S, 0 \in S, \A n \in Nat : n \in S => n + 1 \in S
  PROVE  \A n \in Nat : n \in S
<1> DEFINE Missing == {n \in Nat : n \notin S}
<1>1. SUFFICES ASSUME Missing # {} PROVE FALSE
  OBVIOUS
<1>2. PICK m \in Missing : \A n \in Missing : ~(<<n, m>> \in OpToRel(<, Nat))
  BY <1>1, NatLessThanWellFounded, WFMin
<1>3. m \in Nat \ {0} /\ m \notin S /\ m - 1 \in Nat /\ m - 1 < m /\ m = (m - 1) + 1
  <2>1. m \in Nat /\ m \notin S /\ m # 0
    OBVIOUS
  <2> QED BY <2>1
<1>4. <<m - 1, m>> \in OpToRel(<, Nat)
  <2>1. <<m - 1, m>> \in Nat \X Nat /\ <<m - 1, m>>[1] = m - 1 /\ <<m - 1, m>>[2] = m
    BY <1>3
  <2>2. <<m - 1, m>> \in {ss \in Nat \X Nat : ss[1] < ss[2]}
    BY <2>1, <1>3
  <2>3. OpToRel(<, Nat) = {ss \in Nat \X Nat : ss[1] < ss[2]}
    BY Zenon DEF OpToRel
  <2> QED BY <2>2, <2>3
<1>5. m - 1 \in S
  BY <1>2, <1>3, <1>4
<1> QED BY <1>3, <1>5

\* What the walk does at its i-th listener, counted from the last one, to the
\* record t it has by then.
RmStep(s, i, t) ==
  IF /\ HasCallback(s.list[Len(s.list) + 1 - i])
     /\ s.list[Len(s.list) + 1 - i].expired
  THEN at_rm_node(t, Len(s.list) + 1 - i) ELSE t

\* The function that the walk computes, listener by listener.
IsWalk(s, n, g) == g = [i \in 0 .. n |-> IF i = 0 THEN s ELSE RmStep(s, i, g[i - 1])]

\* The walk is the recursive function of the source.
LEMMA WalkDef ==
  ASSUME NEW s
  PROVE  at_rm_timeout_nodes(s) = (CHOOSE g : IsWalk(s, Len(s.list), g))[Len(s.list)]
BY DEF at_rm_timeout_nodes, IsWalk, RmStep

\* There is such a function.
LEMMA WalkExists ==
  ASSUME NEW s
  PROVE  \A n \in Nat : \E g : IsWalk(s, n, g)
<1> DEFINE S == {n \in Nat : \E g : IsWalk(s, n, g)}
<1>1. 0 \in S
  <2> DEFINE g == [i \in 0 .. 0 |-> s]
  <2>1. IsWalk(s, 0, g)
    BY DEF IsWalk
  <2> QED BY <2>1
<1>2. ASSUME NEW n \in Nat, n \in S PROVE n + 1 \in S
  <2>1. PICK g : IsWalk(s, n, g)
    BY <1>2
  <2> DEFINE h == [i \in 0 .. n + 1 |-> IF i = n + 1 THEN RmStep(s, i, g[n]) ELSE g[i]]
  <2>2. \A i \in 0 .. n : g[i] = IF i = 0 THEN s ELSE RmStep(s, i, g[i - 1])
    BY <2>1 DEF IsWalk
  <2>3. ASSUME NEW i \in 0 .. n + 1
        PROVE  h[i] = IF i = 0 THEN s ELSE RmStep(s, i, h[i - 1])
    <3>1. CASE i = n + 1
      BY <3>1
    <3>2. CASE i # n + 1
      <4>1. i \in 0 .. n /\ h[i] = g[i] /\ (i # 0 => i - 1 \in 0 .. n /\ h[i - 1] = g[i - 1])
        BY <3>2
      <4> QED BY <4>1, <2>2
    <3> QED BY <3>1, <3>2
  <2>4. IsWalk(s, n + 1, h)
    BY <2>3 DEF IsWalk
  <2> QED BY <2>4
<1> HIDE DEF S
<1>3. \A n \in Nat : n \in S
  BY <1>1, <1>2, Induct
<1> QED BY <1>3 DEF S

-----------------------------------------------------------------------------
(* What the receive task may do to the list and to trx_mux.                *)

\* What the receive task finds, and has to leave behind.
FrameOK(s) == FrameType(s) /\ ListOK(s) /\ Distinct(s.trx.waiters)

\* Nothing while a user holds the mutex; else it hands it at most to the first
\* task that waits, with nothing left on the list.
Handled(s, t) ==
  /\ s.trx.owner \in Users => t.trx = s.trx /\ t.list = s.list
  /\ s.trx.owner \notin Users =>
       \/ t.trx.owner \notin Users /\ t.trx.waiters = s.trx.waiters
       \/ /\ s.trx.waiters # <<>> /\ t.trx.owner = Head(s.trx.waiters)
          /\ t.trx.count = 1 /\ t.trx.waiters = Tail(s.trx.waiters) /\ t.list = <<>>

\* A change the receive task may make.
Kept(s, t) == FrameOK(t) /\ Handled(s, t)

\* Two such changes in a row are one.
LEMMA HandledTwice ==
  ASSUME NEW s, NEW t, NEW v, FrameOK(s), Kept(s, t), Kept(t, v)
  PROVE  Kept(s, v)
<1>1. s.trx.waiters # <<>> => Head(s.trx.waiters) \in Users
  BY DEF FrameOK, FrameType, Mutexes
<1> QED BY <1>1, Zenon DEF Kept, Handled

\* Doing nothing is one, too.
LEMMA HandledNot ==
  ASSUME NEW s, FrameOK(s)
  PROVE  Kept(s, s)
BY DEF Kept, Handled

\* The tail of the tasks that wait holds none twice and not the first one.
LEMMA TailDistinct ==
  ASSUME NEW S, NEW w \in Seq(S), w # <<>>, Distinct(w)
  PROVE  /\ Head(w) \in S /\ Tail(w) \in Seq(S) /\ Distinct(Tail(w))
         /\ \A u : (\E i \in 1 .. Len(Tail(w)) : Tail(w)[i] = u)
                     <=> (\E i \in 1 .. Len(w) : w[i] = u) /\ u # Head(w)
<1>1. /\ Tail(w) \in Seq(S) /\ Len(w) \in Nat \ {0} /\ Len(Tail(w)) = Len(w) - 1
      /\ Head(w) = w[1] /\ Head(w) \in S /\ \A i \in 1 .. Len(w) - 1 : Tail(w)[i] = w[i + 1]
  OBVIOUS
<1>2. \A i, j \in 1 .. Len(w) : w[i] = w[j] => i = j
  BY DEF Distinct
<1>3. Distinct(Tail(w))
  BY <1>1, <1>2 DEF Distinct
<1>4. ASSUME NEW u
      PROVE  (\E i \in 1 .. Len(Tail(w)) : Tail(w)[i] = u)
               <=> (\E i \in 1 .. Len(w) : w[i] = u) /\ u # Head(w)
  <2>1. ASSUME NEW i \in 1 .. Len(Tail(w)), Tail(w)[i] = u
        PROVE  i + 1 \in 1 .. Len(w) /\ w[i + 1] = u /\ u # Head(w)
    BY <1>1, <1>2, <2>1
  <2>2. ASSUME NEW i \in 1 .. Len(w), w[i] = u, u # Head(w)
        PROVE  i - 1 \in 1 .. Len(Tail(w)) /\ Tail(w)[i - 1] = u
    BY <1>1, <2>2
  <2> QED BY <2>1, <2>2
<1> QED BY <1>1, <1>3, <1>4

\* A task that waits behind the others is there once.
LEMMA AppendDistinct ==
  ASSUME NEW S, NEW w \in Seq(S), NEW e \in S, Distinct(w),
         ~(\E i \in 1 .. Len(w) : w[i] = e)
  PROVE  /\ Append(w, e) \in Seq(S) /\ Distinct(Append(w, e))
         /\ \A u : (\E i \in 1 .. Len(Append(w, e)) : Append(w, e)[i] = u)
                     <=> (\E i \in 1 .. Len(w) : w[i] = u) \/ u = e
<1> DEFINE a == Append(w, e)
<1>1. /\ a \in Seq(S) /\ Len(w) \in Nat /\ Len(a) = Len(w) + 1
      /\ \A i \in 1 .. Len(a) : a[i] = IF i <= Len(w) THEN w[i] ELSE e
  OBVIOUS
<1> HIDE DEF a
<1>2. \A i, j \in 1 .. Len(w) : w[i] = w[j] => i = j
  BY DEF Distinct
<1>3. Distinct(a)
  BY <1>1, <1>2 DEF Distinct
<1>4. ASSUME NEW u
      PROVE  (\E i \in 1 .. Len(a) : a[i] = u) <=> (\E i \in 1 .. Len(w) : w[i] = u) \/ u = e
  <2>1. ASSUME NEW i \in 1 .. Len(w), w[i] = u PROVE i \in 1 .. Len(a) /\ a[i] = u
    BY <1>1, <2>1
  <2>2. Len(a) \in 1 .. Len(a) /\ a[Len(a)] = e
    BY <1>1
  <2>3. ASSUME NEW i \in 1 .. Len(a), a[i] = u, u # e PROVE i \in 1 .. Len(w) /\ w[i] = u
    BY <1>1, <2>3
  <2> QED BY <2>1, <2>2, <2>3
<1> QED BY <1>1, <1>3, <1>4 DEF a

\* A listener taken off the list leaves the others.
LEMMA ListWithout ==
  ASSUME NEW S, NEW q \in Seq(S), NEW i \in 1 .. Len(q)
  PROVE  LET r == SubSeq(q, 1, i - 1) \o SubSeq(q, i + 1, Len(q))
         IN /\ r \in Seq(S) /\ Len(r) = Len(q) - 1
            /\ \A j \in 1 .. Len(r) : \E k \in 1 .. Len(q) : r[j] = q[k]
<1> DEFINE a == SubSeq(q, 1, i - 1)
           b == SubSeq(q, i + 1, Len(q))
<1>1. Len(q) \in Nat /\ i \in Nat /\ 1 <= i /\ i <= Len(q)
  OBVIOUS
<1>2. a \in Seq(S) /\ Len(a) = i - 1 /\ \A j \in 1 .. Len(a) : a[j] = q[j]
  <2>1. \A j \in 1 .. i - 1 : q[j] \in S
    BY <1>1
  <2> QED BY <1>1, <2>1, SubSeqProperties
<1>3. b \in Seq(S) /\ Len(b) = Len(q) - i /\ \A j \in 1 .. Len(b) : b[j] = q[i + j]
  <2>1. \A j \in i + 1 .. Len(q) : q[j] \in S
    BY <1>1
  <2>2. CASE i = Len(q)
    BY <1>1, <2>1, <2>2, SubSeqProperties
  <2>3. CASE i < Len(q)
    BY <1>1, <2>1, <2>3, SubSeqProperties
  <2> QED BY <1>1, <2>2, <2>3
<1> HIDE DEF a, b
<1>6. /\ a \o b \in Seq(S) /\ Len(a \o b) = Len(a) + Len(b)
      /\ \A j \in 1 .. Len(a) + Len(b) : (a \o b)[j] = IF j <= Len(a) THEN a[j] ELSE b[j - Len(a)]
  <2>1. a \in Seq(S) /\ b \in Seq(S)
    BY <1>2, <1>3
  <2> QED BY <2>1
<1>4. /\ a \o b \in Seq(S) /\ Len(a \o b) = Len(q) - 1
      /\ \A j \in 1 .. Len(q) - 1 : (a \o b)[j] = IF j <= i - 1 THEN q[j] ELSE q[j + 1]
  <2>1. Len(a) + Len(b) = Len(q) - 1
    BY <1>1, <1>2, <1>3
  <2>2. ASSUME NEW j \in 1 .. Len(q) - 1
        PROVE  (a \o b)[j] = IF j <= i - 1 THEN q[j] ELSE q[j + 1]
    <3>1. CASE j <= i - 1
      BY <1>1, <1>2, <1>6, <2>1, <3>1
    <3>2. CASE ~(j <= i - 1)
      <4>1. j - (i - 1) \in 1 .. Len(b) /\ i + (j - (i - 1)) = j + 1
        BY <1>1, <1>3, <3>2
      <4> QED BY <1>1, <1>2, <1>3, <1>6, <2>1, <3>2, <4>1
    <3> QED BY <3>1, <3>2
  <2> QED BY <1>6, <2>1, <2>2
<1>5. ASSUME NEW j \in 1 .. Len(a \o b) PROVE \E k \in 1 .. Len(q) : (a \o b)[j] = q[k]
  <2>1. j \in 1 .. Len(q) /\ j + 1 \in 1 .. Len(q)
    BY <1>1, <1>4
  <2> QED BY <1>4, <2>1
<1> QED BY <1>4, <1>5 DEF a, b

\* at_rm_node takes a listener and posts the mutex: the receive task keeps it, or
\* it was the last listener.
LEMMA RmNode ==
  ASSUME NEW s, FrameOK(s), s.trx.owner = "recv", NEW i \in 1 .. Len(s.list)
  PROVE  LET t == at_rm_node(s, i)
         IN /\ Kept(s, t) /\ t.sem = s.sem /\ Len(t.list) = Len(s.list) - 1
            /\ t.trx.owner = "recv" \/ Len(s.list) = 1
<1> DEFINE q == SubSeq(s.list, 1, i - 1) \o SubSeq(s.list, i + 1, Len(s.list))
           m == TrxPost(s.trx, "recv")
           t == at_rm_node(s, i)
<1>1. /\ s.list \in Seq(Listeners) /\ s.trx \in Mutexes
      /\ s = [list |-> s.list, trx |-> s.trx, sem |-> s.sem, dataInd |-> s.dataInd]
      /\ s.sem \in 0 .. SEM_MAX /\ s.dataInd \in BOOLEAN /\ Len(s.list) \in Nat \ {0}
  BY DEF FrameOK, FrameType
<1>2. t.list = q /\ t.trx = m /\ t.sem = s.sem /\ t.dataInd = s.dataInd
      /\ t = [list |-> q, trx |-> m, sem |-> s.sem, dataInd |-> s.dataInd]
  <2>1. t = [s EXCEPT !.list = q, !.trx = m]
    BY Zenon DEF at_rm_node
  <2> HIDE DEF q, m, t
  <2> QED BY <1>1, <2>1
<1>3. /\ q \in Seq(Listeners) /\ Len(q) = Len(s.list) - 1
      /\ \A j \in 1 .. Len(q) : \E k \in 1 .. Len(s.list) : q[j] = s.list[k]
  BY <1>1, ListWithout
<1>4. /\ \A k \in 1 .. Len(s.list) : HasCallback(s.list[k])
      /\ s.trx.count \in Nat /\ s.trx.count >= 1 /\ s.trx.count >= Len(s.list)
      /\ MemoryFound => s.trx.count = Len(s.list)
  BY <1>1 DEF FrameOK, ListOK, Mutexes
<1> HIDE DEF q, m, t
<1>5. \A j \in 1 .. Len(q) : HasCallback(q[j])
  BY <1>3, <1>4
<1>6. s.trx = [owner |-> "recv", count |-> s.trx.count, waiters |-> s.trx.waiters]
      /\ s.trx.waiters \in Seq(Users)
  BY <1>1 DEF Mutexes
<1>7. "recv" \notin Users /\ "none" \notin Users
  BY AtAssumption
<1>8. Distinct(s.trx.waiters)
  BY DEF FrameOK
<1>9. CASE s.trx.count > 1
  <2>1. m = [owner |-> "recv", count |-> s.trx.count - 1, waiters |-> s.trx.waiters]
    BY <1>6, <1>9 DEF TrxPost, m
  <2>2. m \in Mutexes
    BY <1>4, <1>6, <1>9, <2>1 DEF Mutexes
  <2>3. FrameType(t)
    BY <1>1, <1>2, <1>3, <2>2 DEF FrameType
  <2>4. ListOK(t)
    BY <1>2, <1>3, <1>4, <1>5, <1>7, <1>9, <2>1 DEF ListOK
  <2>5. Distinct(t.trx.waiters) /\ Handled(s, t)
    BY <1>2, <1>6, <1>7, <1>8, <2>1 DEF Handled
  <2> QED BY <1>2, <1>3, <2>1, <2>3, <2>4, <2>5 DEF Kept, FrameOK, t
<1>10. CASE s.trx.count = 1
  <2>1. Len(s.list) = 1 /\ q = <<>>
    <3>1. Len(s.list) = 1 /\ Len(q) = 0
      <4>1. PICK n \in Nat : n = Len(s.list) /\ n # 0
        BY <1>1
      <4>2. 1 >= n
        BY <1>4, <1>10, <4>1
      <4>6. n # 0
        BY <4>1
      <4>5. n = 1
        BY <4>2, <4>6
      <4>3. Len(s.list) = 1
        BY <4>1, <4>5, Zenon
      <4>4. Len(q) = Len(s.list) - 1
        BY <1>3
      <4> QED BY <4>3, <4>4
    <3> QED BY <1>3, <3>1, EmptySeq
  <2>2. CASE s.trx.waiters = <<>>
    <3>1. m = [owner |-> "none", count |-> 0, waiters |-> <<>>]
      BY <1>6, <1>10, <2>2 DEF TrxPost, MuxFree, m
    <3>2. FrameType(t)
      BY <1>1, <1>2, <1>3, <3>1 DEF FrameType, Mutexes
    <3>3. ListOK(t) /\ Distinct(t.trx.waiters) /\ Handled(s, t)
      BY <1>2, <1>7, <1>8, <2>1, <2>2, <3>1 DEF ListOK, Handled
    <3> QED BY <1>2, <1>3, <2>1, <3>2, <3>3 DEF Kept, FrameOK, t
  <2>3. CASE s.trx.waiters # <<>>
    <3>1. m = [owner |-> Head(s.trx.waiters), count |-> 1, waiters |-> Tail(s.trx.waiters)]
      BY <1>6, <1>10, <2>3 DEF TrxPost, m
    <3>2. /\ Head(s.trx.waiters) \in Users /\ Tail(s.trx.waiters) \in Seq(Users)
          /\ Distinct(Tail(s.trx.waiters))
      BY <1>6, <1>8, <2>3, TailDistinct
    <3>3. FrameType(t)
      BY <1>1, <1>2, <1>3, <3>1, <3>2 DEF FrameType, Mutexes
    <3>4. ListOK(t) /\ Distinct(t.trx.waiters) /\ Handled(s, t)
      BY <1>2, <1>6, <1>7, <2>1, <2>3, <3>1, <3>2 DEF ListOK, Handled
    <3> QED BY <1>2, <1>3, <2>1, <3>3, <3>4 DEF Kept, FrameOK, t
  <2> QED BY <2>2, <2>3
<1> QED BY <1>4, <1>9, <1>10
\* Where the walk is after i listeners: those it has not looked at are still on
\* the list, and the receive task has the mutex until it is through.
Walked(s, i, t) ==
  /\ Kept(s, t) /\ t.sem = s.sem
  /\ s.trx.owner # "recv" => t = s
  /\ s.trx.owner = "recv" =>
       Len(t.list) >= Len(s.list) - i /\ (t.trx.owner = "recv" \/ i = Len(s.list))

\* One listener of the walk.
LEMMA WalkStep ==
  ASSUME NEW s, FrameOK(s), NEW i \in 1 .. Len(s.list), NEW t, Walked(s, i - 1, t)
  PROVE  Walked(s, i, RmStep(s, i, t))
<1> DEFINE k == Len(s.list) + 1 - i
<1>1. /\ s.list \in Seq(Listeners) /\ Len(s.list) \in Nat
      /\ k \in 1 .. Len(s.list) /\ k = Len(s.list) - (i - 1)
  BY DEF FrameOK, FrameType
<1>2. FrameOK(t) /\ t.list \in Seq(Listeners) /\ Len(t.list) \in Nat
  BY DEF Walked, Kept, FrameOK, FrameType
<1>3. CASE s.trx.owner # "recv"
  <2>1. ~HasCallback(s.list[k])
    BY <1>1, <1>3 DEF FrameOK, FrameType, ListOK, Mutexes
  <2>2. RmStep(s, i, t) = t
    BY <2>1, Zenon DEF RmStep
  <2> QED BY <1>3, <2>2 DEF Walked
<1>4. CASE s.trx.owner = "recv" /\ HasCallback(s.list[k]) /\ s.list[k].expired
  <2> DEFINE v == at_rm_node(t, k)
  <2>1. RmStep(s, i, t) = v
    BY <1>4, Zenon DEF RmStep
  <2>2. Len(t.list) >= k /\ t.trx.owner = "recv"
    BY <1>1, <1>4 DEF Walked
  <2>3. k \in 1 .. Len(t.list)
    BY <1>1, <1>2, <2>2
  <2>4. /\ Kept(t, v) /\ v.sem = t.sem /\ Len(v.list) = Len(t.list) - 1
        /\ v.trx.owner = "recv" \/ Len(t.list) = 1
    BY <1>2, <2>2, <2>3, RmNode
  <2>5. Kept(s, v) /\ v.sem = s.sem
    BY <2>4, HandledTwice DEF Walked
  <2> HIDE DEF v, k
  <2>6. Len(v.list) >= Len(s.list) - i
    BY <1>1, <1>2, <2>2, <2>4
  <2>7. Len(t.list) = 1 => i = Len(s.list)
    BY <1>1, <1>2, <2>2
  <2> QED BY <1>4, <2>1, <2>4, <2>5, <2>6, <2>7 DEF Walked
<1>5. CASE s.trx.owner = "recv" /\ ~(HasCallback(s.list[k]) /\ s.list[k].expired)
  <2>1. RmStep(s, i, t) = t
    BY <1>5, Zenon DEF RmStep
  <2>2. Len(t.list) >= k /\ t.trx.owner = "recv" /\ Kept(s, t) /\ t.sem = s.sem
    BY <1>1, <1>5 DEF Walked
  <2> HIDE DEF k
  <2>3. Len(t.list) >= Len(s.list) - i
    BY <1>1, <1>2, <2>2
  <2> QED BY <1>5, <2>1, <2>2, <2>3 DEF Walked
<1> QED BY <1>3, <1>4, <1>5

\* at_rm_timeout_nodes keeps to what the receive task may do.
LEMMA RmTimeout ==
  ASSUME NEW s, FrameOK(s)
  PROVE  LET t == at_rm_timeout_nodes(s)
         IN /\ Kept(s, t) /\ t.sem = s.sem
            /\ s.trx.owner # "recv" => t = s
<1> DEFINE n == Len(s.list)
           g == CHOOSE f : IsWalk(s, n, f)
<1>1. n \in Nat
  BY DEF FrameOK, FrameType
<1> HIDE DEF n
<1>2. IsWalk(s, n, g)
  <2>1. \E f : IsWalk(s, n, f)
    BY <1>1, WalkExists
  <2> QED BY <2>1, Zenon
<1> HIDE DEF g
<1>3. \A i \in 0 .. n : g[i] = IF i = 0 THEN s ELSE RmStep(s, i, g[i - 1])
  BY <1>2 DEF IsWalk
<1> DEFINE S == {i \in Nat : i <= n => Walked(s, i, g[i])}
<1>4. 0 \in S
  <2>1. g[0] = s
    BY <1>1, <1>3
  <2>2. Kept(s, s) /\ s.list \in Seq(Listeners)
    BY HandledNot DEF FrameOK, FrameType
  <2>3. Walked(s, 0, s)
    BY <2>2 DEF Walked
  <2> QED BY <2>1, <2>3
<1>5. ASSUME NEW i \in Nat, i \in S PROVE i + 1 \in S
  <2>1. SUFFICES ASSUME i + 1 <= n PROVE Walked(s, i + 1, g[i + 1])
    OBVIOUS
  <2>2. Walked(s, i, g[i])
    BY <1>1, <1>5, <2>1
  <2>3. i + 1 \in 1 .. n /\ (i + 1) - 1 = i /\ i + 1 \in 0 .. n /\ i + 1 # 0
    BY <1>1, <2>1
  <2>4. g[i + 1] = RmStep(s, i + 1, g[i])
    BY <1>3, <2>3
  <2>5. Walked(s, i + 1, RmStep(s, i + 1, g[i]))
    BY <2>2, <2>3, WalkStep DEF n
  <2> QED BY <2>4, <2>5
<1> HIDE DEF S
<1>6. n \in S
  BY <1>1, <1>4, <1>5, Induct
<1>7. Walked(s, n, g[n])
  BY <1>1, <1>6 DEF S
<1>8. at_rm_timeout_nodes(s) = g[n]
  BY WalkDef, Zenon DEF g, n
<1> QED BY <1>7, <1>8, Zenon DEF Walked

\* So does at_cmd_in_callback, which finds memory if there always is some.
LEMMA CmdInCallback ==
  ASSUME NEW s, FrameOK(s), NEW alloc \in BOOLEAN, alloc \/ NoMemory
  PROVE  LET t == at_cmd_in_callback(s, alloc)
         IN /\ Kept(s, t) /\ t.sem = s.sem
            /\ ~CanSend(s) => t.trx = s.trx /\ t.list = s.list
<1> DEFINE t == at_cmd_in_callback(s, alloc)
<1>1. /\ s.list \in Seq(Listeners) /\ s.trx \in Mutexes /\ Len(s.list) \in Nat
      /\ s = [list |-> s.list, trx |-> s.trx, sem |-> s.sem, dataInd |-> s.dataInd]
      /\ s.sem \in 0 .. SEM_MAX /\ s.dataInd \in BOOLEAN
  BY DEF FrameOK, FrameType
<1>2. "recv" \notin Users /\ "none" \notin Users
  BY AtAssumption
<1>3. CASE ~CanSend(s)
  <2>1. t = [s EXCEPT !.dataInd = TRUE]
    BY <1>3, Zenon DEF at_cmd_in_callback
  <2>2. /\ t = [list |-> s.list, trx |-> s.trx, sem |-> s.sem, dataInd |-> TRUE]
        /\ t.list = s.list /\ t.trx = s.trx /\ t.sem = s.sem
    BY <1>1, <2>1
  <2> HIDE DEF t
  <2>3. FrameType(t)
    BY <1>1, <2>2 DEF FrameType
  <2>4. ListOK(t)
    BY <2>2, Zenon DEF FrameOK, ListOK
  <2>5. Distinct(t.trx.waiters)
    BY <2>2, Zenon DEF FrameOK
  <2>6. Handled(s, t)
    BY <2>2, Zenon DEF Handled
  <2> QED BY <2>2, <2>3, <2>4, <2>5, <2>6 DEF Kept, FrameOK, t
<1>4. CASE CanSend(s)
  <2> DEFINE l == Listener("recv", "none", 0)
             q == IF alloc THEN Append(s.list, l) ELSE s.list
             m == [owner |-> "recv", count |-> s.trx.count + 1, waiters |-> s.trx.waiters]
  <2>1. t = [s EXCEPT !.trx = m, !.list = q, !.dataInd = ~alloc]
    BY <1>4, Zenon DEF at_cmd_in_callback
  <2>2. l \in Listeners /\ HasCallback(l)
    BY DEF Listener, Listeners, Suffixes, HasCallback
  <2>3. /\ m \in Mutexes /\ m.owner = "recv" /\ m.count = s.trx.count + 1
        /\ m.waiters = s.trx.waiters
    BY <1>1 DEF Mutexes
  <2> HIDE DEF l
  <2>4. q \in Seq(Listeners) /\ Len(q) = IF alloc THEN Len(s.list) + 1 ELSE Len(s.list)
    BY <1>1, <2>2
  <2>5. \A i \in 1 .. Len(s.list) : HasCallback(s.list[i])
    BY <1>1, <1>4 DEF FrameOK, ListOK, CanSend
  <2>6. \A i \in 1 .. Len(q) : HasCallback(q[i])
    BY <1>1, <2>2, <2>4, <2>5
  <2> HIDE DEF q, m
  <2>7. /\ t = [list |-> q, trx |-> m, sem |-> s.sem, dataInd |-> ~alloc]
        /\ t.list = q /\ t.trx = m /\ t.sem = s.sem
    <3> HIDE DEF t
    <3> QED BY <1>1, <2>1
  <2> HIDE DEF t
  <2>8. FrameType(t)
    BY <1>1, <2>3, <2>4, <2>7 DEF FrameType
  <2>9. s.trx.count \in Nat /\ s.trx.count >= Len(s.list)
        /\ (MemoryFound => s.trx.count = Len(s.list))
    BY <1>1, <1>4 DEF FrameOK, ListOK, CanSend, Mutexes
  <2>10. MemoryFound => alloc
    BY DEF MemoryFound
  <2>11. ListOK(t)
    BY <1>1, <1>2, <2>3, <2>4, <2>6, <2>7, <2>9, <2>10 DEF ListOK
  <2>12. Distinct(t.trx.waiters)
    BY <2>3, <2>7 DEF FrameOK
  <2>13. Handled(s, t)
    BY <1>2, <1>4, <2>3, <2>7 DEF Handled, CanSend
  <2> QED BY <1>4, <2>7, <2>8, <2>11, <2>12, <2>13 DEF Kept, FrameOK, t
<1> QED BY <1>3, <1>4
\* What a message may do to the number of tokens: a token more only for the
\* listener of the user that holds the mutex, if it waits for such a message.
Granted(s, t, m) ==
  t.sem # s.sem =>
    /\ t.sem = s.sem + 1 /\ s.trx.owner \in Users
    /\ Len(s.list) >= 1 /\ s.list[1].suffix = m.kind

\* A token that a message gave while a callback's listener was the first one.
Strayed(s, m) == m.kind # "sent" /\ Misdirected(s, m)

\* at_handle_resp keeps to what the receive task may do, and posts resp_sem for
\* the first listener only.
LEMMA HandleResp ==
  ASSUME NEW s, FrameOK(s), NEW m, m.kind # "sent"
  PROVE  LET t == at_handle_resp(s, m)
         IN Kept(s, t) /\ (~Strayed(s, m) => Granted(s, t, m))
<1> DEFINE t == at_handle_resp(s, m)
           v == [s EXCEPT !.sem = IF @ < SEM_MAX THEN @ + 1 ELSE @]
<1>1. /\ s.list \in Seq(Listeners) /\ s.trx \in Mutexes /\ Len(s.list) \in Nat
      /\ s = [list |-> s.list, trx |-> s.trx, sem |-> s.sem, dataInd |-> s.dataInd]
      /\ s.sem \in 0 .. SEM_MAX /\ s.dataInd \in BOOLEAN /\ SEM_MAX \in Nat
  BY AtAssumption DEF FrameOK, FrameType
<1>2. CASE s.list = <<>>
  <2>1. t = s
    BY <1>2, Zenon DEF at_handle_resp
  <2> QED BY <2>1, HandledNot, Zenon DEF Granted
<1>3. CASE s.list # <<>>
  <2>1. Len(s.list) >= 1 /\ Head(s.list) = s.list[1]
    BY <1>1, <1>3
  <2>2. /\ v = [list |-> s.list, trx |-> s.trx, dataInd |-> s.dataInd,
                sem |-> IF s.sem < SEM_MAX THEN s.sem + 1 ELSE s.sem]
        /\ v.list = s.list /\ v.trx = s.trx
        /\ v.sem \in 0 .. SEM_MAX /\ (v.sem # s.sem => v.sem = s.sem + 1)
    BY <1>1
  <2> HIDE DEF v
  <2>3. FrameType(v)
    BY <1>1, <2>2 DEF FrameType
  <2>4. Kept(s, v)
    <3>1. ListOK(v) /\ Distinct(v.trx.waiters)
      BY <2>2, Zenon DEF FrameOK, ListOK
    <3>2. Handled(s, v)
      BY <2>2, Zenon DEF Handled
    <3> QED BY <2>3, <3>1, <3>2 DEF Kept, FrameOK
  <2>5. CASE HasCallback(Head(s.list)) /\ m.kind = "data"
    <3>1. t = at_rm_node(s, 1)
      BY <1>3, <2>5, Zenon DEF at_handle_resp
    <3>2. s.trx.owner = "recv" /\ 1 \in 1 .. Len(s.list)
      <4>1. 1 \in 1 .. Len(s.list)
        BY <1>1, <2>1
      <4> QED BY <1>1, <2>1, <2>5, <4>1 DEF FrameOK, ListOK, Mutexes
    <3>3. Kept(s, at_rm_node(s, 1)) /\ at_rm_node(s, 1).sem = s.sem
      BY <3>2, RmNode
    <3> QED BY <3>1, <3>3, Zenon DEF Granted
  <2>6. CASE HasCallback(Head(s.list)) /\ m.kind # "data"
    <3>1. t = v
      BY <1>3, <2>6, Zenon DEF at_handle_resp, v
    <3>2. Strayed(s, m)
      BY <1>3, <2>6 DEF Strayed, Misdirected
    <3> QED BY <2>4, <3>1, <3>2, Zenon
  <2>7. CASE ~HasCallback(Head(s.list)) /\ Head(s.list).suffix = m.kind
    <3>1. t = v
      BY <1>3, <2>7, Zenon DEF at_handle_resp, v
    <3>2. s.trx.owner \in Users
      <4>1. 1 \in 1 .. Len(s.list)
        BY <1>1, <2>1
      <4> QED BY <1>1, <1>3, <2>1, <2>7, <4>1 DEF FrameOK, ListOK, Mutexes
    <3>3. Granted(s, v, m)
      BY <2>1, <2>2, <2>7, <3>2, Zenon DEF Granted
    <3> QED BY <2>4, <3>1, <3>3, Zenon
  <2>8. CASE ~HasCallback(Head(s.list)) /\ Head(s.list).suffix # m.kind
    <3>1. t = s
      BY <1>3, <2>8, Zenon DEF at_handle_resp
    <3> QED BY <3>1, HandledNot, Zenon DEF Granted
  <2> QED BY <2>5, <2>6, <2>7, <2>8
<1> QED BY <1>2, <1>3

\* What a step of the receive task does, as far as the users can tell.
RecvEffect ==
  LET m == Head(rid)
  IN /\ rid # <<>> /\ rid' = Tail(rid) /\ UNCHANGED <<pc, cmds>>
     /\ Kept(at, at') /\ (~astray' => ~astray /\ Granted(at, at', m))
     /\ astray' \in BOOLEAN /\ owed' \subseteq owed \cup {Message("data", 0)}
     /\ own \subseteq own' /\ own' \subseteq own \cup {m.id}
     /\ m.kind = "OK" /\ at.trx.owner \in Users /\ Len(at.list) >= 1 /\ at.list[1].id = m.id
          => m.id \in own'

\* The whole handling of a message: the expired listeners, the indications kept
\* and new, and the answer.
LEMMA Receive ==
  ASSUME AtTypeOK, FrameOK(at), at_recv_task
  PROVE  RecvEffect
<1> DEFINE m == Head(rid)
           s1 == at_rm_timeout_nodes(at)
<1>1. PICK alloc \in (IF NoMemory THEN BOOLEAN ELSE {TRUE}) :
        LET s2 == IF s1.dataInd THEN at_cmd_in_callback(s1, alloc) ELSE s1
            s3 == IF m.kind = "ind" THEN at_cmd_in_callback(s2, alloc) ELSE s2
            sent == (s1.dataInd /\ CanSend(s1)) \/ (m.kind = "ind" /\ CanSend(s2))
            mine == m.kind = "OK" /\ s3.list # <<>> /\ Head(s3.list).id = m.id
        IN /\ at' = IF m.kind = "sent" THEN s2 ELSE at_handle_resp(s3, m)
           /\ owed' = IF sent THEN owed \cup {Message("data", 0)} ELSE owed
           /\ own' = IF mine THEN own \cup {m.id} ELSE own
           /\ astray' = (astray \/ (m.kind # "sent" /\ Misdirected(s3, m)))
  BY Zenon DEF at_recv_task
<1> DEFINE s2 == IF s1.dataInd THEN at_cmd_in_callback(s1, alloc) ELSE s1
           s3 == IF m.kind = "ind" THEN at_cmd_in_callback(s2, alloc) ELSE s2
           sent == (s1.dataInd /\ CanSend(s1)) \/ (m.kind = "ind" /\ CanSend(s2))
           mine == m.kind = "OK" /\ s3.list # <<>> /\ Head(s3.list).id = m.id
<1>2. /\ at' = IF m.kind = "sent" THEN s2 ELSE at_handle_resp(s3, m)
      /\ owed' = IF sent THEN owed \cup {Message("data", 0)} ELSE owed
      /\ own' = IF mine THEN own \cup {m.id} ELSE own
      /\ astray' = (astray \/ (m.kind # "sent" /\ Misdirected(s3, m)))
  BY <1>1, Zenon
<1>3. rid # <<>> /\ rid' = Tail(rid) /\ UNCHANGED <<pc, cmds>>
  BY Zenon DEF at_recv_task
<1>4. alloc \in BOOLEAN /\ (alloc \/ NoMemory)
  OBVIOUS
<1>5. Kept(at, s1) /\ s1.sem = at.sem /\ FrameOK(s1)
  BY RmTimeout DEF Kept
<1> HIDE DEF s1
<1>6. Kept(s1, s2) /\ s2.sem = s1.sem
  BY <1>4, <1>5, CmdInCallback, HandledNot
<1>7. Kept(at, s2) /\ s2.sem = at.sem /\ FrameOK(s2)
  BY <1>5, <1>6, HandledTwice, Zenon DEF Kept
<1> HIDE DEF s2
<1>8. Kept(s2, s3) /\ s3.sem = s2.sem
  BY <1>4, <1>7, CmdInCallback, HandledNot
<1>9. Kept(at, s3) /\ s3.sem = at.sem /\ FrameOK(s3)
  BY <1>7, <1>8, HandledTwice, Zenon DEF Kept
<1> HIDE DEF s3
<1>10. Kept(at, at') /\ (~astray' => ~astray /\ Granted(at, at', m))
  <2>1. CASE m.kind = "sent"
    <3>1. at' = s2
      BY <1>2, <2>1, Zenon
    <3>2. Granted(at, at', m) /\ (~astray' => ~astray)
      BY <1>2, <1>7, <3>1, Zenon DEF Granted
    <3> QED BY <1>7, <3>1, <3>2, Zenon
  <2>2. CASE m.kind # "sent"
    <3>1. at' = at_handle_resp(s3, m)
      BY <1>2, <2>2, Zenon
    <3>2. Kept(s3, at') /\ (~Strayed(s3, m) => Granted(s3, at', m))
      BY <1>9, <2>2, <3>1, HandleResp
    <3>3. Kept(at, at')
      BY <1>9, <3>2, HandledTwice, Zenon
    <3>4. ~astray' => ~astray /\ ~Strayed(s3, m)
      BY <1>2, <2>2, Zenon DEF Strayed
    <3>5. ASSUME Granted(s3, at', m) PROVE Granted(at, at', m)
      <4>1. SUFFICES ASSUME at'.sem # at.sem
                     PROVE  /\ at'.sem = at.sem + 1 /\ at.trx.owner \in Users
                            /\ Len(at.list) >= 1 /\ at.list[1].suffix = m.kind
        BY Zenon DEF Granted
      <4>2. /\ at'.sem = s3.sem + 1 /\ s3.trx.owner \in Users
            /\ Len(s3.list) >= 1 /\ s3.list[1].suffix = m.kind
        BY <1>9, <3>5, <4>1, Zenon DEF Granted
      <4>3. s3.list # <<>>
        BY <4>2
      <4>4. at.trx.owner \in Users
        BY <4>2, <4>3, <1>9, Zenon DEF Kept, Handled
      <4>5. s3.list = at.list
        BY <4>4, <1>9, Zenon DEF Kept, Handled
      <4> QED BY <1>9, <4>2, <4>4, <4>5, Zenon
    <3> QED BY <3>2, <3>3, <3>4, <3>5
  <2> QED BY <2>1, <2>2
<1>11. astray' \in BOOLEAN /\ owed' \subseteq owed \cup {Message("data", 0)}
  BY <1>2 DEF AtTypeOK
<1>12. own \subseteq own' /\ own' \subseteq own \cup {m.id}
  BY <1>2
<1>13. ASSUME m.kind = "OK", at.trx.owner \in Users, Len(at.list) >= 1, at.list[1].id = m.id
       PROVE  m.id \in own'
  <2>1. s3.list = at.list
    BY <1>9, <1>13, Zenon DEF Kept, Handled
  <2>2. at.list \in Seq(Listeners) /\ Len(at.list) \in Nat
    BY DEF AtTypeOK, FrameType
  <2>3. at.list # <<>> /\ Head(at.list) = at.list[1]
    BY <1>13, <2>2
  <2>4. mine
    BY <1>13, <2>1, <2>3
  <2> QED BY <1>2, <2>4
<1> QED BY <1>3, <1>10, <1>11, <1>12, <1>13, Zenon DEF RecvEffect

-----------------------------------------------------------------------------
(* What the changes mean for the users.                                    *)

\* The parts of the framework's record.
LEMMA FrameParts ==
  ASSUME NEW s, FrameType(s)
  PROVE  /\ s.list \in Seq(Listeners) /\ Len(s.list) \in Nat /\ s.trx \in Mutexes
         /\ s.trx = [owner |-> s.trx.owner, count |-> s.trx.count, waiters |-> s.trx.waiters]
         /\ s.trx.owner \in Users \cup {"recv", "none"} /\ s.trx.count \in Nat
         /\ s.trx.waiters \in Seq(Users) /\ Len(s.trx.waiters) \in Nat
         /\ s = [list |-> s.list, trx |-> s.trx, sem |-> s.sem, dataInd |-> s.dataInd]
         /\ s.sem \in 0 .. SEM_MAX /\ s.sem \in Nat /\ s.dataInd \in BOOLEAN
BY AtAssumption DEF FrameType, Mutexes

\* An assignment to a part leaves the others alone.
LEMMA FrameSet ==
  ASSUME NEW s, FrameType(s), NEW l, NEW m, NEW n
  PROVE  /\ [s EXCEPT !.list = l] = [list |-> l, trx |-> s.trx, sem |-> s.sem, dataInd |-> s.dataInd]
         /\ [s EXCEPT !.trx = m] = [list |-> s.list, trx |-> m, sem |-> s.sem, dataInd |-> s.dataInd]
         /\ [s EXCEPT !.sem = n] = [list |-> s.list, trx |-> s.trx, sem |-> n, dataInd |-> s.dataInd]
         /\ [s EXCEPT !.list = l, !.trx = m]
              = [list |-> l, trx |-> m, sem |-> s.sem, dataInd |-> s.dataInd]
<1>1. s = [list |-> s.list, trx |-> s.trx, sem |-> s.sem, dataInd |-> s.dataInd]
  BY DEF FrameType
<1>2. [s EXCEPT !.list = l] = [list |-> l, trx |-> s.trx, sem |-> s.sem, dataInd |-> s.dataInd]
  BY <1>1
<1>3. [s EXCEPT !.trx = m] = [list |-> s.list, trx |-> m, sem |-> s.sem, dataInd |-> s.dataInd]
  BY <1>1
<1>4. [s EXCEPT !.sem = n] = [list |-> s.list, trx |-> s.trx, sem |-> n, dataInd |-> s.dataInd]
  BY <1>1
<1>5. [s EXCEPT !.list = l, !.trx = m]
        = [list |-> l, trx |-> m, sem |-> s.sem, dataInd |-> s.dataInd]
  <2> DEFINE k == [s EXCEPT !.list = l]
  <2>1. k = [list |-> l, trx |-> s.trx, sem |-> s.sem, dataInd |-> s.dataInd]
    BY <1>2
  <2>2. [s EXCEPT !.list = l, !.trx = m] = [k EXCEPT !.trx = m]
    BY Zenon
  <2> HIDE DEF k
  <2>3. [k EXCEPT !.trx = m] = [list |-> l, trx |-> m, sem |-> s.sem, dataInd |-> s.dataInd]
    BY <2>1
  <2> QED BY <2>2, <2>3, Zenon
<1> QED BY <1>2, <1>3, <1>4, <1>5

\* Only the owner of trx_mux is in a call with its listener on the list, and
\* then the list holds nothing else.
LEMMA OneInCall ==
  ASSUME NEW s, NEW p, TrxOK(s, p), NEW u \in Users, p[u].at \in InCall
  PROVE  /\ s.trx.owner = u /\ \A v \in Users : p[v].at \in InCall => v = u
BY Zenon DEF TrxOK, ItsListener

\* The receive task does not disturb who holds and who waits for trx_mux.
LEMMA TrxKept ==
  ASSUME NEW s, NEW p, NEW t, FrameType(s), TrxOK(s, p), Kept(s, t)
  PROVE  TrxOK(t, p)
<1>1. ListOK(t) /\ Distinct(t.trx.waiters)
  BY DEF Kept, FrameOK
<1>2. CASE s.trx.owner \in Users
  <2>1. t.trx = s.trx /\ t.list = s.list
    BY <1>2, Zenon DEF Kept, Handled
  <2>2. \A u : (Waits(t, u) <=> Waits(s, u)) /\ (ItsListener(s, u, p[u]) => ItsListener(t, u, p[u]))
    BY <2>1, Zenon DEF Waits, ItsListener
  <2> QED BY <1>1, <2>1, <2>2, Zenon DEF TrxOK
<1>3. CASE s.trx.owner \notin Users /\ t.trx.owner \notin Users /\ t.trx.waiters = s.trx.waiters
  <2>1. \A u \in Users : p[u].at \notin InCall
    BY <1>3, Zenon DEF TrxOK, ItsListener
  <2>2. \A u \in Users : Waits(t, u) <=> p[u].at = "trx" /\ t.trx.owner # u
    BY <1>3, Zenon DEF TrxOK, Waits
  <2> QED BY <1>1, <1>3, <2>1, <2>2, Zenon DEF TrxOK
<1>4. CASE /\ s.trx.owner \notin Users /\ s.trx.waiters # <<>>
           /\ t.trx.owner = Head(s.trx.waiters) /\ t.trx.count = 1
           /\ t.trx.waiters = Tail(s.trx.waiters) /\ t.list = <<>>
  <2>1. \A u \in Users : p[u].at \notin InCall
    BY <1>4, Zenon DEF TrxOK, ItsListener
  <2> DEFINE w == s.trx.waiters
             h == Head(w)
  <2>2. w \in Seq(Users) /\ Distinct(w)
    BY FrameParts DEF TrxOK
  <2>3. /\ h \in Users
        /\ \A u : (\E i \in 1 .. Len(Tail(w)) : Tail(w)[i] = u)
                    <=> (\E i \in 1 .. Len(w) : w[i] = u) /\ u # h
    BY <1>4, <2>2, TailDistinct
  <2>4. \A u \in Users : Waits(t, u) <=> Waits(s, u) /\ u # h
    BY <1>4, <2>3, Zenon DEF Waits
  <2>5. 1 \in 1 .. Len(w) /\ h = w[1]
    BY <1>4, <2>2
  <2>6. Waits(s, h)
    BY <2>5, Zenon DEF Waits
  <2>7. p[h].at = "trx"
    BY <2>3, <2>6, Zenon DEF TrxOK
  <2>8. \A u \in Users : s.trx.owner # u
    BY <1>4
  <2>9. \A u \in Users : Waits(t, u) <=> p[u].at = "trx" /\ t.trx.owner # u
    BY <1>4, <2>4, <2>8, Zenon DEF TrxOK
  <2>10. t.trx.owner = h /\ t.trx.count = 1 /\ t.list = <<>> /\ p[h].at # "idle"
    BY <1>4, <2>7
  <2> HIDE DEF h
  <2> QED BY <1>1, <2>1, <2>9, <2>10, Zenon DEF TrxOK
<1> QED BY <1>2, <1>3, <1>4, Zenon DEF Kept, Handled

\* Nothing is on its way.
Quiet(sem, q, debts) ==
  sem = 0 /\ (\A m \in debts : ~Live(m)) /\ \A i \in 1 .. Len(q) : ~Live(q[i])

\* So it is while no task waits for a token.
LEMMA QuietWhenNobodyPends ==
  ASSUME NEW sem \in Nat, NEW q, NEW debts, NEW p, OneAnswer(sem, q, debts, p),
         \A u \in Users : p[u].at \notin {"prompt", "wait"}
  PROVE  Quiet(sem, q, debts)
<1>1. \A m : ~Awaited(m, p)
  BY DEF Awaited, AwaitedBy
<1>2. sem = 0
  BY DEF OneAnswer
<1> QED BY <1>1, <1>2 DEF OneAnswer, Quiet

\* And then it is no answer too many.
LEMMA QuietOne ==
  ASSUME NEW sem, NEW q, NEW debts, NEW p, NEW o, Quiet(sem, q, debts),
         \A u \in Users : p[u].at = "end" /\ p[u].ok => p[u].id \in o
  PROVE  OneAnswer(sem, q, debts, p) /\ Answered(sem, p, o)
<1>1. sem = 0 /\ ~(sem > 0) /\ sem <= 1
  BY DEF Quiet
<1>2. OneAnswer(sem, q, debts, p)
  BY <1>1, Zenon DEF Quiet, OneAnswer
<1>3. Answered(sem, p, o)
  BY <1>1, Zenon DEF Answered
<1> QED BY <1>2, <1>3

\* A message put in the queue, or dropped, adds nothing else to it.
LEMMA QueuedOne ==
  ASSUME NEW q \in Seq(Messages), NEW m \in Messages
  PROVE  /\ Queued(q, m) \in Seq(Messages)
         /\ Queued(q, m) # q => Queued(q, m) = Append(q, m)
         /\ Len(Append(q, m)) = Len(q) + 1 /\ Len(q) \in Nat
         /\ \A i \in 1 .. Len(q) + 1 : Append(q, m)[i] = IF i <= Len(q) THEN q[i] ELSE m
BY DEF Queued

\* One that is not live keeps the answers as they are.
LEMMA QueuedOther ==
  ASSUME NEW q \in Seq(Messages), NEW m \in Messages, ~Live(m), NEW sem, NEW debts
  PROVE  LET r == Queued(q, m)
         IN /\ Quiet(sem, q, debts) => Quiet(sem, r, debts)
            /\ \A p : OneAnswer(sem, q, debts, p) => OneAnswer(sem, r, debts, p)
<1> DEFINE r == Queued(q, m)
<1>1. ASSUME NEW i \in 1 .. Len(r), Live(r[i])
      PROVE  i \in 1 .. Len(q) /\ r[i] = q[i]
  <2>1. CASE r = q
    BY <2>1
  <2>2. CASE r = Append(q, m)
    BY <1>1, <2>2, QueuedOne
  <2> QED BY <2>1, <2>2, QueuedOne
<1> HIDE DEF r
<1>2. Quiet(sem, q, debts) => Quiet(sem, r, debts)
  BY <1>1 DEF Quiet
<1>3. ASSUME NEW p, OneAnswer(sem, q, debts, p) PROVE OneAnswer(sem, r, debts, p)
  <2>1. \A d \in debts : Live(d) => /\ Awaited(d, p) /\ sem = 0
                                    /\ \A i \in 1 .. Len(r) : ~Live(r[i])
    BY <1>1, <1>3, Zenon DEF OneAnswer
  <2>2. \A i \in 1 .. Len(r) : Live(r[i]) =>
          /\ Awaited(r[i], p) /\ sem = 0
          /\ \A j \in 1 .. Len(r) : Live(r[j]) => i = j
    BY <1>1, <1>3, Zenon DEF OneAnswer
  <2> QED BY <1>3, <2>1, <2>2, Zenon DEF OneAnswer
<1> QED BY <1>2, <1>3 DEF r

-----------------------------------------------------------------------------
(* The steps of the users.                                                 *)

\* What is left of the invariant in the next state.
AtNextInv == AtTypeOK' /\ TrxOK(at', pc') /\ AnswersOK'

\* The place of the task that moves, and of the others.
Stepped(u, p) ==
  /\ pc' \in [Users -> [at : Places, write : BOOLEAN, id : Nat, ok : BOOLEAN]]
  /\ pc'[u] = p /\ \A v \in Users : v # u => pc'[v] = pc[v]

\* at_cmd_multi_suffix up to the wait for trx_mux.
LEMMA CallKeeps ==
  ASSUME AtInv, NEW u \in Users, NEW write \in BOOLEAN, Call(u, write)
  PROVE  AtNextInv
<1> DEFINE m == TrxPend(at.trx, u)
<1> USE DEF Places
<1>1. /\ FrameType(at) /\ cmds \in Nat /\ TrxOK(at, pc) /\ AnswersOK /\ AtTypeOK
  BY DEF AtInv, AtTypeOK
<1>2. /\ pc[u].at = "idle" /\ cmds' = cmds + 1
      /\ pc' = [pc EXCEPT ![u] = [at |-> "trx", write |-> write, id |-> cmds', ok |-> FALSE]]
      /\ at' = [at EXCEPT !.trx = m]
      /\ UNCHANGED <<rid, owed, own, astray>>
  BY Zenon DEF Call
<1>3. Stepped(u, [at |-> "trx", write |-> write, id |-> cmds + 1, ok |-> FALSE])
  BY <1>1, <1>2 DEF Stepped, AtTypeOK
<1>4. at.trx.owner # u /\ ~Waits(at, u)
  BY <1>1, <1>2, Zenon DEF TrxOK
<1>5. /\ m \in Mutexes
      /\ at.trx.owner = "none" => m.owner = u /\ m.count = 1 /\ m.waiters = <<>>
      /\ at.trx.owner # "none" => /\ m.owner = at.trx.owner /\ m.count = at.trx.count
                                  /\ m.waiters = Append(at.trx.waiters, u)
  <2>1. /\ at.trx = [owner |-> at.trx.owner, count |-> at.trx.count, waiters |-> at.trx.waiters]
        /\ at.trx.owner \in Users \cup {"recv", "none"} /\ at.trx.count \in Nat
        /\ at.trx.waiters \in Seq(Users)
    BY <1>1, FrameParts
  <2>2. CASE at.trx.owner = "none"
    <3>1. m = [owner |-> u, count |-> 1, waiters |-> <<>>]
      BY <2>2 DEF TrxPend, MuxFree
    <3> QED BY <2>2, <3>1 DEF Mutexes
  <2>3. CASE at.trx.owner # "none"
    <3>1. m = [owner |-> at.trx.owner, count |-> at.trx.count, waiters |-> Append(at.trx.waiters, u)]
      BY <2>1, <2>3 DEF TrxPend
    <3> QED BY <2>1, <2>3, <3>1 DEF Mutexes
  <2> QED BY <2>2, <2>3
<1> HIDE DEF m
<1>6. /\ at' = [list |-> at.list, trx |-> m, sem |-> at.sem, dataInd |-> at.dataInd]
      /\ at'.list = at.list /\ at'.trx = m /\ at'.sem = at.sem
      /\ at.list \in Seq(Listeners) /\ at.sem \in 0 .. SEM_MAX /\ at.dataInd \in BOOLEAN
      /\ at.trx.waiters \in Seq(Users) /\ Len(at.trx.waiters) \in Nat
  <2>1. at' = [list |-> at.list, trx |-> m, sem |-> at.sem, dataInd |-> at.dataInd]
    BY <1>1, <1>2, FrameSet, Zenon
  <2>2. /\ at.list \in Seq(Listeners) /\ at.sem \in 0 .. SEM_MAX /\ at.dataInd \in BOOLEAN
        /\ at.trx.waiters \in Seq(Users) /\ Len(at.trx.waiters) \in Nat
    BY <1>1, FrameParts
  <2> QED BY <2>1, <2>2
<1>7. AtTypeOK'
  <2>1. FrameType(at')
    BY <1>5, <1>6 DEF FrameType
  <2> QED BY <1>1, <1>2, <1>3, <2>1 DEF AtTypeOK, Stepped
<1>8. TrxOK(at', pc')
  <2>1. \A v \in Users : v # u => pc'[v] = pc[v]
    BY <1>3 DEF Stepped
  <2>2. pc'[u].at = "trx"
    BY <1>3 DEF Stepped
  <2>3. ListOK(at) /\ "recv" \notin Users /\ "none" \notin Users
    BY <1>1, AtAssumption DEF TrxOK
  <2>4. CASE at.trx.owner = "none"
    <3>1. at.list = <<>> /\ at.trx.waiters = <<>>
      BY <2>3, <2>4 DEF ListOK
    <3>2. ListOK(at')
      BY <1>5, <1>6, <2>3, <2>4, <3>1 DEF ListOK
    <3>3. Distinct(at'.trx.waiters) /\ \A v : ~Waits(at', v)
      BY <1>5, <1>6, <2>4 DEF Distinct, Waits
    <3>4. \A v \in Users : pc[v].at # "trx" /\ pc[v].at \notin InCall
      <4>1. \A v \in Users : at.trx.owner # v /\ ~Waits(at, v)
        BY <2>3, <2>4, <3>1 DEF Waits
      <4> QED BY <1>1, <4>1, Zenon DEF TrxOK, ItsListener
    <3>5. at'.trx.owner = u /\ at'.trx.count = 1 /\ at'.list = <<>>
      BY <1>5, <1>6, <2>4, <3>1
    <3>6. "trx" \notin InCall /\ "trx" # "idle"
      BY DEF InCall
    <3> QED BY <2>1, <2>2, <3>2, <3>3, <3>4, <3>5, <3>6, Zenon DEF TrxOK
  <2>5. CASE at.trx.owner # "none"
    <3>1. /\ at'.trx.owner = at.trx.owner /\ at'.trx.count = at.trx.count
          /\ at'.trx.waiters = Append(at.trx.waiters, u) /\ at'.list = at.list
      BY <1>5, <1>6, <2>5
    <3>2. ListOK(at')
      BY <2>3, <2>5, <3>1, Zenon DEF ListOK
    <3> DEFINE w == at.trx.waiters
    <3>3. /\ Distinct(Append(w, u))
          /\ \A v : (\E i \in 1 .. Len(Append(w, u)) : Append(w, u)[i] = v)
                      <=> (\E i \in 1 .. Len(w) : w[i] = v) \/ v = u
      <4>1. w \in Seq(Users) /\ Distinct(w) /\ ~(\E i \in 1 .. Len(w) : w[i] = u)
        BY <1>1, <1>4, <1>6, Zenon DEF TrxOK, Waits
      <4> HIDE DEF w
      <4> QED BY <4>1, AppendDistinct
    <3>4. Distinct(at'.trx.waiters)
      BY <3>1, <3>3, Zenon
    <3>5. \A v : Waits(at', v) <=> Waits(at, v) \/ v = u
      BY <3>1, <3>3, Zenon DEF Waits
    <3>6. \A v \in Users : pc'[v].at \in InCall => v # u
      BY <2>2 DEF InCall
    <3>7. \A v \in Users : ItsListener(at, v, pc[v]) => ItsListener(at', v, pc[v])
      BY <3>1, Zenon DEF ItsListener
    <3> QED BY <1>1, <1>4, <2>1, <2>2, <3>1, <3>2, <3>4, <3>5, <3>6, <3>7, Zenon DEF TrxOK
  <2> QED BY <2>4, <2>5
<1>9. AnswersOK'
  <2>1. SUFFICES ASSUME ~astray PROVE OneAnswer(at.sem, rid, owed, pc') /\ Answered(at.sem, pc', own)
    BY <1>2, <1>6, Zenon DEF AnswersOK
  <2>2. OneAnswer(at.sem, rid, owed, pc) /\ Answered(at.sem, pc, own)
    BY <1>1, <2>1, Zenon DEF AnswersOK
  <2>3. /\ \A v \in Users : pc[v].at \in InCall => pc'[v] = pc[v]
        /\ \A v \in Users : pc'[v].at \in InCall => pc'[v] = pc[v]
    BY <1>2, <1>3 DEF Stepped, InCall
  <2>4. \A x : Awaited(x, pc) => Awaited(x, pc')
    BY <2>3 DEF Awaited, InCall, AwaitedBy
  <2>5. (\E v \in Users : pc[v].at \in {"prompt", "wait"})
          => \E v \in Users : pc'[v].at \in {"prompt", "wait"}
    BY <2>3 DEF InCall
  <2>6. OneAnswer(at.sem, rid, owed, pc')
    BY <2>2, <2>4, <2>5, Zenon DEF OneAnswer
  <2>7. Answered(at.sem, pc', own)
    BY <2>2, <2>3 DEF Answered, InCall
  <2> QED BY <2>6, <2>7
<1> QED BY <1>7, <1>8, <1>9 DEF AtNextInv
\* The owner of trx_mux moves within its call, with its listener on the list.
MovesInCall(s, p, t, q, u) ==
  /\ TrxOK(s, p) /\ s.trx.owner = u /\ t.trx = s.trx
  /\ \A v \in Users : v # u => q[v] = p[v]
  /\ q[u].at \in InCall /\ ItsListener(t, u, q[u])

\* The others do not notice.
LEMMA OwnerMoves ==
  ASSUME NEW s, NEW p, NEW t, NEW q, NEW u \in Users, MovesInCall(s, p, t, q, u)
  PROVE  TrxOK(t, q)
<1> USE DEF MovesInCall
<1>1. "recv" \notin Users /\ "none" \notin Users
  BY AtAssumption
<1>2. t.trx.owner = u /\ Len(t.list) = 1 /\ t.list[1].who = u
  BY Zenon DEF ItsListener
<1>3. \A i \in 1 .. Len(t.list) : ~HasCallback(t.list[i])
  BY <1>1, <1>2 DEF HasCallback
<1>4. ListOK(t)
  BY <1>1, <1>2, <1>3 DEF ListOK
<1>5. q[u].at # "trx" /\ q[u].at # "idle"
  BY DEF InCall
<1>6. \A v \in Users : v # u => p[v].at \notin InCall
  BY OneInCall, Zenon
<1>7. \A v : Waits(t, v) <=> Waits(s, v)
  BY Zenon DEF Waits
<1>8. \A v \in Users : Waits(t, v) <=> q[v].at = "trx" /\ t.trx.owner # v
  <2>1. ~Waits(s, u)
    BY Zenon DEF TrxOK
  <2>2. \A v \in Users : v # u => (Waits(s, v) <=> p[v].at = "trx")
    BY Zenon DEF TrxOK
  <2> QED BY <1>2, <1>5, <1>7, <2>1, <2>2, Zenon
<1>9. Distinct(t.trx.waiters) /\ t.trx.count = 1
  BY Zenon DEF TrxOK
<1> QED BY <1>2, <1>4, <1>5, <1>6, <1>8, <1>9, Zenon DEF TrxOK

\* The one task that waits owes its place to nobody else.
LEMMA EndsAnswered ==
  ASSUME NEW sem, NEW p, NEW q, NEW o, Answered(sem, p, o), NEW u \in Users,
         \A v \in Users : v # u => q[v] = p[v],
         q[u].at = "end" /\ q[u].ok => q[u].id \in o
  PROVE  \A v \in Users : q[v].at = "end" /\ q[v].ok => q[v].id \in o
BY Zenon DEF Answered

\* A command that is sent while nothing is on its way is the one to be answered.
LEMMA OneAsked ==
  ASSUME NEW sem, NEW q, NEW debts, Quiet(sem, q, debts), NEW p, NEW u \in Users,
         NEW m, AwaitedBy(u, m, p)
  PROVE  OneAnswer(sem, q, debts \cup {m}, p)
<1>1. Awaited(m, p)
  BY Zenon DEF Awaited
<1>2. sem = 0 /\ ~(sem > 0) /\ sem <= 1
  BY DEF Quiet
<1> QED BY <1>1, <1>2, Zenon DEF Quiet, OneAnswer

\* No task waits for a token while the owner of trx_mux does not.
LEMMA QuietOwner ==
  ASSUME AtInv, ~astray, NEW u \in Users, at.trx.owner = u, pc[u].at \notin {"prompt", "wait"}
  PROVE  Quiet(at.sem, rid, owed)
<1>1. TrxOK(at, pc) /\ at.sem \in Nat /\ OneAnswer(at.sem, rid, owed, pc)
  BY FrameParts DEF AtInv, AtTypeOK, AnswersOK
<1>2. \A v \in Users : pc[v].at \in InCall => v = u
  BY <1>1, OneInCall, Zenon
<1>3. \A v \in Users : pc[v].at \notin {"prompt", "wait"}
  BY <1>2 DEF InCall
<1> QED BY <1>1, <1>3, QuietWhenNobodyPends

\* The command goes out with the mutex held.
LEMMA SendKeeps ==
  ASSUME AtInv, NEW u \in Users, Send(u)
  PROVE  AtNextInv
<1> DEFINE suffix == IF pc[u].write THEN ">" ELSE "OK"
           l == Listener(u, suffix, pc[u].id)
           m == Message(suffix, pc[u].id)
           where == IF pc[u].write THEN "prompt" ELSE "wait"
<1>1. /\ FrameType(at) /\ TrxOK(at, pc) /\ AnswersOK /\ AtTypeOK /\ pc[u].id \in Nat
      /\ pc \in [Users -> [at : Places, write : BOOLEAN, id : Nat, ok : BOOLEAN]]
  BY DEF AtInv, AtTypeOK
<1>2. /\ pc[u].at = "trx" /\ at.trx.owner = u
      /\ at' = [at EXCEPT !.list = Append(@, l)]
      /\ owed' = owed \cup {m} /\ pc' = [pc EXCEPT ![u].at = where]
      /\ UNCHANGED <<rid, cmds, own, astray>>
  BY Zenon DEF Send, Goto
<1>3. where \in {"prompt", "wait"} /\ where \in Places /\ where \in InCall
  BY DEF Places, InCall
<1>4. /\ pc' \in [Users -> [at : Places, write : BOOLEAN, id : Nat, ok : BOOLEAN]]
      /\ pc'[u].at = where /\ pc'[u].id = pc[u].id
      /\ \A v \in Users : v # u => pc'[v] = pc[v]
  <2> HIDE DEF where
  <2> QED BY <1>1, <1>2, <1>3
<1>5. at.list = <<>>
  BY <1>1, <1>2, Zenon DEF TrxOK
<1>6. l \in Listeners /\ l.who = u /\ l.suffix = suffix /\ l.id = pc[u].id /\ m \in Messages
  BY <1>1 DEF Listener, Listeners, Suffixes, Message, Messages, Kinds
<1>7. /\ at' = [list |-> <<l>>, trx |-> at.trx, sem |-> at.sem, dataInd |-> at.dataInd]
      /\ at'.list = <<l>> /\ at'.trx = at.trx /\ at'.sem = at.sem
  <2>1. at' = [at EXCEPT !.list = Append(at.list, l)]
    BY <1>2, Zenon
  <2>2. Append(at.list, l) = <<l>>
    BY <1>5
  <2>3. at' = [list |-> <<l>>, trx |-> at.trx, sem |-> at.sem, dataInd |-> at.dataInd]
    BY <1>1, <2>1, <2>2, FrameSet, Zenon
  <2> HIDE DEF l
  <2> QED BY <2>3
<1> HIDE DEF l, m
<1>8. AtTypeOK'
  <2>1. FrameType(at')
    BY <1>1, <1>6, <1>7, FrameParts DEF FrameType
  <2> QED BY <1>1, <1>2, <1>4, <1>6, <2>1 DEF AtTypeOK
<1>9. TrxOK(at', pc')
  <2>1. Len(at'.list) = 1 /\ at'.list[1] = l
    BY <1>7
  <2>2. ItsListener(at', u, pc'[u])
    BY <1>2, <1>4, <1>6, <1>7, <2>1 DEF ItsListener
  <2>3. pc'[u].at \in InCall
    BY <1>3, <1>4, Zenon
  <2>4. MovesInCall(at, pc, at', pc', u)
    BY <1>1, <1>2, <1>4, <1>7, <2>2, <2>3, Zenon DEF MovesInCall
  <2> QED BY <2>4, OwnerMoves
<1>10. AnswersOK'
  <2>1. SUFFICES ASSUME ~astray
                 PROVE  OneAnswer(at.sem, rid, owed \cup {m}, pc') /\ Answered(at.sem, pc', own)
    BY <1>2, <1>7, Zenon DEF AnswersOK
  <2>2. Quiet(at.sem, rid, owed)
    BY <1>2, <2>1, QuietOwner
  <2>3. OneAnswer(at.sem, rid, owed \cup {m}, pc')
    <3>1. AwaitedBy(u, m, pc')
      BY <1>4 DEF m, AwaitedBy
    <3> QED BY <2>2, <3>1, OneAsked
  <2>4. Answered(at.sem, pc', own)
    <3>1. Answered(at.sem, pc, own)
      BY <1>1, <2>1, Zenon DEF AnswersOK
    <3>2. pc'[u].at # "end"
      BY <1>3, <1>4
    <3>3. \A v \in Users : pc'[v].at = "end" /\ pc'[v].ok => pc'[v].id \in own
      BY <1>4, <3>1, <3>2, EndsAnswered
    <3> QED BY <2>2, <3>3, QuietOne
  <2> QED BY <2>3, <2>4
<1> QED BY <1>8, <1>9, <1>10 DEF AtNextInv

\* The listener of a user is deleted wherever it is put back or taken off.
LEMMA ListenerDeleted ==
  ASSUME AtInv, NEW u \in Users, pc[u].at \in InCall
  PROVE  at_listner_list_del(at.list, u) = <<>> /\ at.trx.owner = u
<1>1. /\ Len(at.list) = 1 /\ at.list[1].who = u /\ at.trx.owner = u
      /\ at.list \in Seq(Listeners)
  BY FrameParts DEF AtInv, AtTypeOK, TrxOK, ItsListener
<1>2. at.list # <<>> /\ Head(at.list) = at.list[1] /\ Len(Tail(at.list)) = 0
      /\ Tail(at.list) \in Seq(Listeners)
  BY <1>1
<1>3. Tail(at.list) = <<>>
  BY <1>2, EmptySeq
<1> QED BY <1>1, <1>2, <1>3 DEF at_listner_list_del

\* The payload goes out, with the listener put back for its answer.
LEMMA PayloadKeeps ==
  ASSUME AtInv, NEW u \in Users, Payload(u)
  PROVE  AtNextInv
<1> DEFINE l == Listener(u, "OK", pc[u].id)
           m == Message("OK", pc[u].id)
<1>1. /\ FrameType(at) /\ TrxOK(at, pc) /\ AnswersOK /\ AtTypeOK /\ pc[u].id \in Nat
      /\ pc \in [Users -> [at : Places, write : BOOLEAN, id : Nat, ok : BOOLEAN]]
  BY DEF AtInv, AtTypeOK
<1>2. /\ pc[u].at = "payload" /\ pc' = [pc EXCEPT ![u].at = "wait"]
      /\ at' = [at EXCEPT !.list = Append(at_listner_list_del(@, u), l)]
      /\ owed' = owed \cup {m} /\ UNCHANGED <<rid, cmds, own, astray>>
  BY Zenon DEF Payload, Goto
<1>3. /\ pc' \in [Users -> [at : Places, write : BOOLEAN, id : Nat, ok : BOOLEAN]]
      /\ pc'[u].at = "wait" /\ pc'[u].id = pc[u].id
      /\ \A v \in Users : v # u => pc'[v] = pc[v]
  <2>1. "wait" \in Places
    BY DEF Places
  <2> QED BY <1>1, <1>2, <2>1
<1>4. at_listner_list_del(at.list, u) = <<>> /\ at.trx.owner = u
  <2>1. pc[u].at \in InCall
    BY <1>2 DEF InCall
  <2> QED BY <2>1, ListenerDeleted
<1>5. l \in Listeners /\ l.who = u /\ l.suffix = "OK" /\ l.id = pc[u].id /\ m \in Messages
  BY <1>1 DEF Listener, Listeners, Suffixes, Message, Messages, Kinds
<1>6. /\ at' = [list |-> <<l>>, trx |-> at.trx, sem |-> at.sem, dataInd |-> at.dataInd]
      /\ at'.list = <<l>> /\ at'.trx = at.trx /\ at'.sem = at.sem
  <2>1. at' = [at EXCEPT !.list = Append(at_listner_list_del(at.list, u), l)]
    BY <1>2, Zenon
  <2>2. Append(at_listner_list_del(at.list, u), l) = <<l>>
    BY <1>4
  <2>3. at' = [list |-> <<l>>, trx |-> at.trx, sem |-> at.sem, dataInd |-> at.dataInd]
    BY <1>1, <2>1, <2>2, FrameSet, Zenon
  <2> HIDE DEF l
  <2> QED BY <2>3
<1> HIDE DEF l
<1>7. AtTypeOK'
  <2>1. FrameType(at')
    BY <1>1, <1>5, <1>6, FrameParts DEF FrameType
  <2> HIDE DEF m
  <2> QED BY <1>1, <1>2, <1>3, <1>5, <2>1 DEF AtTypeOK
<1>8. TrxOK(at', pc')
  <2>1. Len(at'.list) = 1 /\ at'.list[1] = l
    BY <1>6
  <2>2. ItsListener(at', u, pc'[u]) /\ pc'[u].at \in InCall
    BY <1>3, <1>4, <1>5, <1>6, <2>1 DEF ItsListener, InCall
  <2>3. MovesInCall(at, pc, at', pc', u)
    BY <1>1, <1>3, <1>4, <1>6, <2>2, Zenon DEF MovesInCall
  <2> QED BY <2>3, OwnerMoves
<1>9. AnswersOK'
  <2>1. SUFFICES ASSUME ~astray
                 PROVE  OneAnswer(at.sem, rid, owed \cup {m}, pc') /\ Answered(at.sem, pc', own)
    BY <1>2, <1>6, Zenon DEF AnswersOK
  <2>2. Quiet(at.sem, rid, owed)
    BY <1>2, <1>4, <2>1, QuietOwner
  <2>3. OneAnswer(at.sem, rid, owed \cup {m}, pc')
    <3>1. AwaitedBy(u, m, pc')
      BY <1>3 DEF AwaitedBy
    <3> HIDE DEF m
    <3> QED BY <2>2, <3>1, OneAsked
  <2>4. Answered(at.sem, pc', own)
    <3>1. Answered(at.sem, pc, own)
      BY <1>1, <2>1, Zenon DEF AnswersOK
    <3>2. \A v \in Users : pc'[v].at = "end" /\ pc'[v].ok => pc'[v].id \in own
      BY <1>3, <3>1, EndsAnswered
    <3> QED BY <2>2, <3>2, QuietOne
  <2> QED BY <2>3, <2>4
<1> QED BY <1>7, <1>8, <1>9 DEF AtNextInv
\* The wait for resp_sem ends, and the call goes on.
LEMMA PendedMoves ==
  ASSUME AtInv, NEW u \in Users, NEW ok \in BOOLEAN, Pended(u, ok),
         at'.trx = at.trx, at'.list = at.list
  PROVE  /\ pc' \in [Users -> [at : Places, write : BOOLEAN, id : Nat, ok : BOOLEAN]]
         /\ pc'[u].id = pc[u].id /\ pc'[u].ok = ok /\ at.trx.owner = u
         /\ pc'[u].at = IF pc[u].at = "prompt" THEN "payload" ELSE "end"
         /\ pc[u].at \in {"prompt", "wait"} /\ \A v \in Users : v # u => pc'[v] = pc[v]
         /\ TrxOK(at', pc')
<1> DEFINE where == IF pc[u].at = "prompt" THEN "payload" ELSE "end"
<1>1. /\ TrxOK(at, pc)
      /\ pc \in [Users -> [at : Places, write : BOOLEAN, id : Nat, ok : BOOLEAN]]
  BY DEF AtInv, AtTypeOK
<1>2. /\ pc[u].at \in {"prompt", "wait"}
      /\ pc' = [pc EXCEPT ![u].at = where, ![u].ok = ok]
  BY Zenon DEF Pended
<1>3. where \in {"payload", "end"} /\ where \in Places /\ where \in InCall
  BY DEF Places, InCall
<1> HIDE DEF where
<1>4. /\ pc' \in [Users -> [at : Places, write : BOOLEAN, id : Nat, ok : BOOLEAN]]
      /\ pc'[u].at = where /\ pc'[u].id = pc[u].id /\ pc'[u].ok = ok
      /\ \A v \in Users : v # u => pc'[v] = pc[v]
  <2> DEFINE k == [pc EXCEPT ![u].at = where]
  <2>1. /\ k \in [Users -> [at : Places, write : BOOLEAN, id : Nat, ok : BOOLEAN]]
        /\ k[u].at = where /\ k[u].id = pc[u].id /\ \A v \in Users : v # u => k[v] = pc[v]
    BY <1>1, <1>3
  <2>2. pc' = [k EXCEPT ![u].ok = ok]
    BY <1>2, Zenon
  <2> HIDE DEF k
  <2> QED BY <2>1, <2>2
<1>5. pc[u].at \in InCall
  BY <1>2 DEF InCall
<1>6. ItsListener(at, u, pc[u])
  BY <1>1, <1>5, Zenon DEF TrxOK
<1>7. ItsListener(at', u, pc'[u])
  BY <1>3, <1>4, <1>6 DEF ItsListener
<1>8. at.trx.owner = u
  BY <1>6, Zenon DEF ItsListener
<1>9. MovesInCall(at, pc, at', pc', u)
  BY <1>1, <1>3, <1>4, <1>7, <1>8, Zenon DEF MovesInCall
<1>10. TrxOK(at', pc')
  BY <1>9, OwnerMoves
<1> QED BY <1>2, <1>4, <1>8, <1>10, Zenon DEF where

\* With a token, which was the only one on its way.
LEMMA WokenKeeps ==
  ASSUME AtInv, NEW u \in Users, Woken(u)
  PROVE  AtNextInv
<1>1. /\ FrameType(at) /\ TrxOK(at, pc) /\ AnswersOK /\ AtTypeOK
  BY DEF AtInv, AtTypeOK
<1>2. /\ at.sem > 0 /\ at' = [at EXCEPT !.sem = at.sem - 1] /\ Pended(u, TRUE)
      /\ UNCHANGED <<rid, owed, cmds, own, astray>>
  BY Zenon DEF Woken
<1>3. /\ at' = [list |-> at.list, trx |-> at.trx, sem |-> at.sem - 1, dataInd |-> at.dataInd]
      /\ at'.trx = at.trx /\ at'.list = at.list /\ at'.sem = at.sem - 1
  <2>1. at' = [list |-> at.list, trx |-> at.trx, sem |-> at.sem - 1, dataInd |-> at.dataInd]
    BY <1>1, <1>2, FrameSet, Zenon
  <2> QED BY <2>1
<1>4. /\ pc' \in [Users -> [at : Places, write : BOOLEAN, id : Nat, ok : BOOLEAN]]
      /\ pc'[u].id = pc[u].id /\ pc'[u].ok = TRUE /\ at.trx.owner = u
      /\ pc'[u].at = IF pc[u].at = "prompt" THEN "payload" ELSE "end"
      /\ pc[u].at \in {"prompt", "wait"} /\ \A v \in Users : v # u => pc'[v] = pc[v]
      /\ TrxOK(at', pc')
  BY <1>2, <1>3, PendedMoves
<1>5. AtTypeOK'
  <2>1. at.sem \in 0 .. SEM_MAX /\ SEM_MAX \in Nat /\ at.list \in Seq(Listeners)
        /\ at.trx \in Mutexes /\ at.dataInd \in BOOLEAN
    BY <1>1, FrameParts, AtAssumption
  <2>2. at.sem - 1 \in 0 .. SEM_MAX
    BY <1>2, <2>1
  <2>3. FrameType(at')
    BY <1>3, <2>1, <2>2 DEF FrameType
  <2> QED BY <1>1, <1>2, <1>4, <2>3 DEF AtTypeOK
<1>6. AnswersOK'
  <2>1. SUFFICES ASSUME ~astray
                 PROVE  OneAnswer(at.sem - 1, rid, owed, pc') /\ Answered(at.sem - 1, pc', own)
    BY <1>2, <1>3, Zenon DEF AnswersOK
  <2>2. OneAnswer(at.sem, rid, owed, pc) /\ Answered(at.sem, pc, own)
    BY <1>1, <2>1, Zenon DEF AnswersOK
  <2>3. at.sem \in Nat
    BY <1>1, FrameParts
  <2>4. at.sem - 1 = 0 /\ at.sem # 0
    BY <1>2, <2>2, <2>3 DEF OneAnswer
  <2>5. Quiet(at.sem - 1, rid, owed)
    BY <2>2, <2>4, Zenon DEF OneAnswer, Quiet
  <2>6. pc'[u].at = "end" => pc[u].at = "wait"
    BY <1>4
  <2>7. pc'[u].at = "end" /\ pc'[u].ok => pc'[u].id \in own
    BY <1>2, <1>4, <2>2, <2>6, Zenon DEF Answered
  <2>8. \A v \in Users : pc'[v].at = "end" /\ pc'[v].ok => pc'[v].id \in own
    BY <1>4, <2>2, <2>7, EndsAnswered
  <2> QED BY <2>5, <2>8, QuietOne
<1> QED BY <1>4, <1>5, <1>6 DEF AtNextInv

\* By its timeout: from here on the tokens may be anybody's.
LEMMA TimedOutKeeps ==
  ASSUME AtInv, NEW u \in Users, TimedOut(u)
  PROVE  AtNextInv
<1>1. /\ Pended(u, FALSE) /\ astray' = TRUE /\ UNCHANGED <<at, rid, owed, cmds, own>>
  BY Zenon DEF TimedOut
<1>2. /\ pc' \in [Users -> [at : Places, write : BOOLEAN, id : Nat, ok : BOOLEAN]]
      /\ TrxOK(at', pc')
  BY <1>1, PendedMoves
<1>3. AtTypeOK'
  BY <1>1, <1>2 DEF AtInv, AtTypeOK, FrameType
<1>4. AnswersOK'
  BY <1>1 DEF AnswersOK
<1> QED BY <1>2, <1>3, <1>4 DEF AtNextInv

\* The call ends: the list is empty when the mutex goes to the next task.
LEMMA EndKeeps ==
  ASSUME AtInv, NEW u \in Users, End(u)
  PROVE  AtNextInv
<1> DEFINE w == at.trx.waiters
           m == TrxPost(at.trx, u)
<1>1. /\ FrameType(at) /\ TrxOK(at, pc) /\ AnswersOK /\ AtTypeOK /\ rid \in Seq(Messages)
      /\ pc \in [Users -> [at : Places, write : BOOLEAN, id : Nat, ok : BOOLEAN]]
  BY DEF AtInv, AtTypeOK
<1>2. /\ pc[u].at = "end" /\ pc' = [pc EXCEPT ![u] = Idle]
      /\ at' = [at EXCEPT !.list = at_listner_list_del(at.list, u), !.trx = m]
      /\ rid' = Queued(rid, Message("sent", 0)) /\ UNCHANGED <<owed, cmds, own, astray>>
  BY Zenon DEF End
<1>3. /\ pc' \in [Users -> [at : Places, write : BOOLEAN, id : Nat, ok : BOOLEAN]]
      /\ pc'[u].at = "idle" /\ \A v \in Users : v # u => pc'[v] = pc[v]
  BY <1>1, <1>2 DEF Idle, Places
<1>4. at_listner_list_del(at.list, u) = <<>> /\ at.trx.owner = u
  <2>1. pc[u].at \in InCall
    BY <1>2 DEF InCall
  <2> QED BY <2>1, ListenerDeleted
<1>5. at.trx.count = 1 /\ Distinct(w) /\ w \in Seq(Users) /\ at.trx = [owner |-> u, count |-> 1, waiters |-> w]
  BY <1>1, <1>4, FrameParts DEF TrxOK
<1>6. /\ w = <<>> => m = [owner |-> "none", count |-> 0, waiters |-> <<>>]
      /\ w # <<>> => m = [owner |-> Head(w), count |-> 1, waiters |-> Tail(w)]
  BY <1>5 DEF TrxPost, MuxFree
<1> HIDE DEF w, m
<1>7. /\ w # <<>> => /\ Head(w) \in Users /\ Tail(w) \in Seq(Users) /\ Distinct(Tail(w))
                     /\ \A v : (\E i \in 1 .. Len(Tail(w)) : Tail(w)[i] = v)
                                  <=> (\E i \in 1 .. Len(w) : w[i] = v) /\ v # Head(w)
  BY <1>5, TailDistinct
<1>8. m \in Mutexes
  <2>1. CASE w = <<>>
    <3>1. m = [owner |-> "none", count |-> 0, waiters |-> <<>>]
      BY <1>6, <2>1
    <3> QED BY <3>1 DEF Mutexes
  <2>2. CASE w # <<>>
    <3>1. m = [owner |-> Head(w), count |-> 1, waiters |-> Tail(w)]
      BY <1>6, <2>2
    <3>2. Head(w) \in Users /\ Tail(w) \in Seq(Users)
      BY <1>7, <2>2
    <3> QED BY <3>1, <3>2 DEF Mutexes
  <2> QED BY <2>1, <2>2
<1>9. /\ at' = [list |-> <<>>, trx |-> m, sem |-> at.sem, dataInd |-> at.dataInd]
      /\ at'.list = <<>> /\ at'.trx = m /\ at'.sem = at.sem
  <2>1. at' = [list |-> <<>>, trx |-> m, sem |-> at.sem, dataInd |-> at.dataInd]
    BY <1>1, <1>2, <1>4, FrameSet, Zenon
  <2> QED BY <2>1
<1>10. Message("sent", 0) \in Messages /\ ~Live(Message("sent", 0))
  BY DEF Message, Messages, Kinds, Live
<1>11. AtTypeOK'
  <2>1. FrameType(at')
    BY <1>1, <1>8, <1>9, FrameParts DEF FrameType
  <2>2. rid' \in Seq(Messages)
    BY <1>1, <1>2, <1>10, QueuedOne
  <2> QED BY <1>1, <1>2, <1>3, <2>1, <2>2 DEF AtTypeOK
<1>12. TrxOK(at', pc')
  <2>1. \A v \in Users : v # u => pc[v].at \notin InCall
    BY <1>1, <1>4, Zenon DEF TrxOK, ItsListener
  <2>2. \A v \in Users : pc'[v].at \notin InCall
    BY <1>3, <2>1 DEF InCall
  <2>3. \A v \in Users : (\E i \in 1 .. Len(w) : w[i] = v) <=> pc'[v].at = "trx"
    <3>1. \A v \in Users : Waits(at, v) <=> pc[v].at = "trx" /\ at.trx.owner # v
      BY <1>1, Zenon DEF TrxOK
    <3>2. \A v \in Users : Waits(at, v) <=> pc'[v].at = "trx"
      BY <1>3, <1>4, <3>1
    <3> QED BY <3>2, Zenon DEF Waits, w
  <2>4. "recv" \notin Users /\ "none" \notin Users
    BY AtAssumption
  <2>5. CASE w = <<>>
    <3>1. at'.trx.owner = "none" /\ at'.trx.count = 0 /\ at'.trx.waiters = <<>> /\ at'.list = <<>>
      BY <1>6, <1>9, <2>5
    <3>2. ListOK(at') /\ Distinct(at'.trx.waiters)
      BY <2>4, <3>1 DEF ListOK, Distinct
    <3>3. \A v \in Users : Waits(at', v) <=> pc'[v].at = "trx"
      <4>1. at'.trx.waiters = w
        BY <2>5, <3>1
      <4> QED BY <2>3, <4>1, Zenon DEF Waits
    <3>4. \A v \in Users : at'.trx.owner # v
      BY <2>4, <3>1
    <3> QED BY <2>2, <3>2, <3>3, <3>4, Zenon DEF TrxOK
  <2>6. CASE w # <<>>
    <3>1. /\ at'.trx.owner = Head(w) /\ at'.trx.count = 1 /\ at'.trx.waiters = Tail(w)
          /\ at'.list = <<>>
      BY <1>6, <1>9, <2>6
    <3>2. ListOK(at') /\ Distinct(at'.trx.waiters)
      BY <1>7, <2>4, <2>6, <3>1 DEF ListOK
    <3>3. \A v \in Users : Waits(at', v) <=> pc'[v].at = "trx" /\ at'.trx.owner # v
      BY <1>7, <2>3, <2>6, <3>1, Zenon DEF Waits
    <3>4. pc'[Head(w)].at = "trx"
      <4>1. 1 \in 1 .. Len(w) /\ w[1] = Head(w)
        BY <1>5, <2>6
      <4> QED BY <1>7, <2>3, <2>6, <4>1, Zenon
    <3>5. pc'[Head(w)].at # "idle"
      BY <3>4
    <3> QED BY <2>2, <3>1, <3>2, <3>3, <3>4, <3>5, Zenon DEF TrxOK
  <2> QED BY <2>5, <2>6
<1>13. AnswersOK'
  <2>1. SUFFICES ASSUME ~astray
                 PROVE  OneAnswer(at.sem, rid', owed, pc') /\ Answered(at.sem, pc', own)
    BY <1>2, <1>9, Zenon DEF AnswersOK
  <2>2. Quiet(at.sem, rid, owed)
    BY <1>2, <1>4, <2>1, QuietOwner
  <2>3. Quiet(at.sem, rid', owed)
    BY <1>1, <1>2, <1>10, <2>2, QueuedOther
  <2>4. \A v \in Users : pc'[v].at = "end" /\ pc'[v].ok => pc'[v].id \in own
    <3>1. Answered(at.sem, pc, own) /\ pc'[u].at # "end"
      BY <1>1, <1>3, <2>1 DEF AnswersOK
    <3> QED BY <1>3, <3>1, EndsAnswered
  <2> QED BY <2>3, <2>4, QuietOne
<1> QED BY <1>11, <1>12, <1>13 DEF AtNextInv

-----------------------------------------------------------------------------
(* The steps of the receive task, the modem and the clock.                 *)

\* A message is handled: at most it turns the answer on its way into the token.
LEMMA RecvKeeps ==
  ASSUME AtInv, at_recv_task
  PROVE  AtNextInv
<1> DEFINE m == Head(rid)
           r == Tail(rid)
<1>1. /\ FrameType(at) /\ TrxOK(at, pc) /\ AnswersOK /\ AtTypeOK /\ rid \in Seq(Messages)
      /\ FrameOK(at) /\ at.sem \in Nat
  BY FrameParts DEF AtInv, AtTypeOK, FrameOK, TrxOK
<1>2. /\ rid # <<>> /\ rid' = r /\ UNCHANGED <<pc, cmds>>
      /\ Kept(at, at') /\ (~astray' => ~astray /\ Granted(at, at', m))
      /\ astray' \in BOOLEAN /\ owed' \subseteq owed \cup {Message("data", 0)}
      /\ own \subseteq own' /\ own' \subseteq own \cup {m.id}
      /\ m.kind = "OK" /\ at.trx.owner \in Users /\ Len(at.list) >= 1 /\ at.list[1].id = m.id
           => m.id \in own'
  BY <1>1, Receive, Zenon DEF RecvEffect
<1>3. /\ m \in Messages /\ m = rid[1] /\ 1 \in 1 .. Len(rid) /\ m.id \in Nat
      /\ r \in Seq(Messages)
      /\ \A i \in 1 .. Len(r) : i + 1 \in 1 .. Len(rid) /\ i + 1 # 1 /\ r[i] = rid[i + 1]
  <2>1. rid \in Seq(Messages) /\ rid # <<>>
    BY <1>1, <1>2, Zenon
  <2>2. /\ m \in Messages /\ m = rid[1] /\ 1 \in 1 .. Len(rid) /\ r \in Seq(Messages)
        /\ Len(r) = Len(rid) - 1 /\ Len(rid) \in Nat
        /\ \A i \in 1 .. Len(r) : r[i] = rid[i + 1]
    BY <2>1
  <2>3. m.id \in Nat
    BY <2>2 DEF Messages
  <2> HIDE DEF m, r
  <2>4. \A i \in 1 .. Len(r) : i + 1 \in 1 .. Len(rid) /\ i + 1 # 1
    BY <2>2
  <2> QED BY <2>2, <2>3, <2>4
<1> HIDE DEF m, r
<1>4. Message("data", 0) \in Messages /\ ~Live(Message("data", 0))
  BY DEF Message, Messages, Kinds, Live
<1>5. AtTypeOK'
  <2>1. FrameType(at')
    BY <1>2, Zenon DEF Kept, FrameOK
  <2>2. own' \in SUBSET Nat
    BY <1>1, <1>2, <1>3 DEF AtTypeOK
  <2>3. owed' \in SUBSET Messages
    BY <1>1, <1>2, <1>4 DEF AtTypeOK
  <2> QED BY <1>1, <1>2, <1>3, <2>1, <2>2, <2>3 DEF AtTypeOK
<1>6. TrxOK(at', pc')
  BY <1>1, <1>2, TrxKept
<1>7. AnswersOK'
  <2>1. SUFFICES ASSUME ~astray' PROVE OneAnswer(at'.sem, r, owed', pc) /\ Answered(at'.sem, pc, own')
    BY <1>2, Zenon DEF AnswersOK
  <2>2. OneAnswer(at.sem, rid, owed, pc) /\ Answered(at.sem, pc, own)
    BY <1>1, <1>2, <2>1, Zenon DEF AnswersOK
  <2>3. \A d \in owed' : Live(d) => d \in owed
    BY <1>2, <1>4
  <2>4. CASE at'.sem = at.sem
    <3>1. OneAnswer(at.sem, r, owed', pc)
      <4>1. \A d \in owed' : Live(d) => /\ Awaited(d, pc) /\ at.sem = 0
                                        /\ \A i \in 1 .. Len(r) : ~Live(r[i])
        BY <1>3, <2>2, <2>3, Zenon DEF OneAnswer
      <4>2. ASSUME NEW i \in 1 .. Len(r), Live(r[i])
            PROVE  /\ Awaited(r[i], pc) /\ at.sem = 0
                   /\ \A j \in 1 .. Len(r) : Live(r[j]) => i = j
        <5>1. /\ Awaited(r[i], pc) /\ at.sem = 0
              /\ \A j \in 1 .. Len(rid) : Live(rid[j]) => i + 1 = j
          BY <1>3, <2>2, <4>2, Zenon DEF OneAnswer
        <5>2. ASSUME NEW j \in 1 .. Len(r), Live(r[j]) PROVE i = j
          <6>1. i + 1 = j + 1
            BY <1>3, <5>1, <5>2, Zenon
          <6> QED BY <6>1
        <5> QED BY <5>1, <5>2
      <4> QED BY <2>2, <4>1, <4>2, Zenon DEF OneAnswer
    <3>2. Answered(at.sem, pc, own')
      BY <1>2, <2>2, Zenon DEF Answered
    <3> QED BY <2>4, <3>1, <3>2
  <2>5. CASE at'.sem # at.sem
    <3>1. /\ at'.sem = at.sem + 1 /\ at.trx.owner \in Users
          /\ Len(at.list) >= 1 /\ at.list[1].suffix = m.kind
      BY <1>2, <2>1, <2>5, Zenon DEF Granted
    <3>2. Live(m)
      <4>1. at.list[1] \in Listeners
        <5>1. at.list \in Seq(Listeners) /\ Len(at.list) \in Nat
          BY <1>1, FrameParts
        <5>2. 1 \in 1 .. Len(at.list)
          BY <3>1, <5>1
        <5> QED BY <5>1, <5>2
      <4>2. at.list[1].suffix \in Suffixes /\ m.kind \in Kinds
        BY <1>3, <4>1 DEF Listeners, Messages
      <4> QED BY <3>1, <4>2 DEF Suffixes, Kinds, Live
    <3>3. /\ Awaited(m, pc) /\ at.sem = 0 /\ \A j \in 1 .. Len(rid) : Live(rid[j]) => 1 = j
      BY <1>3, <2>2, <3>2, Zenon DEF OneAnswer
    <3>4. PICK u \in Users : AwaitedBy(u, m, pc)
      BY <3>3, Zenon DEF Awaited
    <3>5. pc[u].at \in {"prompt", "wait"} /\ pc[u].at \in InCall
      BY <3>4 DEF InCall, AwaitedBy
    <3>6. ItsListener(at, u, pc[u]) /\ at.trx.owner = u
      BY <1>1, <3>5, Zenon DEF TrxOK, ItsListener
    <3>7. \A v \in Users : pc[v].at \in InCall => v = u
      BY <1>1, <3>5, OneInCall, Zenon
    <3>8. \A i \in 1 .. Len(r) : ~Live(r[i])
      BY <1>3, <3>3, Zenon
    <3>9. \A d \in owed' : ~Live(d)
      BY <1>3, <2>2, <2>3, <3>2, Zenon DEF OneAnswer
    <3>10. at'.sem = 1
      BY <3>1, <3>3
    <3>11. OneAnswer(at'.sem, r, owed', pc)
      <4>1. at'.sem <= 1
        BY <3>10
      <4> QED BY <3>5, <3>8, <3>9, <4>1, Zenon DEF OneAnswer
    <3>12. pc[u].at = "wait" => pc[u].id \in own'
      <4>1. SUFFICES ASSUME pc[u].at = "wait" PROVE pc[u].id \in own'
        OBVIOUS
      <4>2. m.kind = "OK" /\ m.id = pc[u].id
        BY <3>4, <4>1 DEF AwaitedBy, Message
      <4>3. at.list[1].id = pc[u].id
        BY <3>6, <4>1, Zenon DEF ItsListener
      <4> QED BY <1>2, <3>1, <4>2, <4>3
    <3>13. Answered(at'.sem, pc, own')
      <4>1. ASSUME NEW v \in Users, (pc[v].at = "wait" /\ at'.sem > 0) \/ (pc[v].at = "end" /\ pc[v].ok)
            PROVE  pc[v].id \in own'
        <5>1. pc[v].at \in InCall
          BY <4>1 DEF InCall
        <5>2. v = u /\ pc[v].at = "wait"
          BY <3>5, <3>7, <4>1, <5>1
        <5> QED BY <3>12, <5>2
      <4> QED BY <4>1, Zenon DEF Answered
    <3> QED BY <3>11, <3>13
  <2> QED BY <2>4, <2>5
<1> QED BY <1>5, <1>6, <1>7 DEF AtNextInv

\* Two messages that are waited for are the same one.
LEMMA AwaitedOne ==
  ASSUME TrxOK(at, pc), NEW m, NEW d, Awaited(m, pc), Awaited(d, pc)
  PROVE  m = d
<1>1. PICK u \in Users : AwaitedBy(u, m, pc)
  BY Zenon DEF Awaited
<1>2. PICK v \in Users : AwaitedBy(v, d, pc)
  BY Zenon DEF Awaited
<1>3. pc[u].at \in InCall /\ pc[v].at \in InCall
  BY <1>1, <1>2 DEF InCall, AwaitedBy
<1>4. u = v
  BY <1>3, OneInCall
<1> QED BY <1>1, <1>2, <1>4 DEF AwaitedBy

\* The modem pays what it owes, or the full queue drops it.
LEMMA AnswerKeeps ==
  ASSUME AtInv, Answer
  PROVE  AtNextInv
<1>1. /\ TrxOK(at, pc) /\ AnswersOK /\ AtTypeOK /\ rid \in Seq(Messages) /\ owed \in SUBSET Messages
  BY DEF AtInv, AtTypeOK
<1>2. PICK m \in owed : owed' = owed \ {m} /\ rid' = Queued(rid, m)
  BY Zenon DEF Answer
<1>3. UNCHANGED <<pc, at, cmds, own, astray>>
  BY Zenon DEF Answer
<1>4. AtTypeOK'
  <2>1. rid' \in Seq(Messages) /\ owed' \in SUBSET Messages
    BY <1>1, <1>2, QueuedOne
  <2> QED BY <1>1, <1>3, <2>1 DEF AtTypeOK, FrameType
<1>5. TrxOK(at', pc')
  BY <1>1, <1>3
<1>6. AnswersOK'
  <2>1. SUFFICES ASSUME ~astray PROVE OneAnswer(at.sem, rid', owed', pc) /\ Answered(at.sem, pc, own)
    BY <1>3, Zenon DEF AnswersOK
  <2>2. OneAnswer(at.sem, rid, owed, pc) /\ Answered(at.sem, pc, own)
    BY <1>1, <2>1, Zenon DEF AnswersOK
  <2>3. OneAnswer(at.sem, rid, owed', pc)
    BY <1>2, <2>2 DEF OneAnswer
  <2>4. CASE ~Live(m)
    <3>1. OneAnswer(at.sem, rid', owed', pc)
      BY <1>1, <1>2, <2>3, <2>4, QueuedOther
    <3> QED BY <2>2, <3>1
  <2>5. CASE Live(m)
    <3>1. Awaited(m, pc) /\ at.sem = 0 /\ \A i \in 1 .. Len(rid) : ~Live(rid[i])
      BY <2>2, <2>5, Zenon DEF OneAnswer
    <3>2. \A d \in owed' : ~Live(d)
      <4>1. ASSUME NEW d \in owed', Live(d) PROVE FALSE
        <5>1. d \in owed /\ d # m
          BY <1>2
        <5>2. Awaited(d, pc)
          BY <2>2, <4>1, <5>1, Zenon DEF OneAnswer
        <5> QED BY <1>1, <3>1, <5>1, <5>2, AwaitedOne
      <4> QED BY <4>1
    <3>3. CASE rid' = rid
      BY <2>2, <2>3, <3>3
    <3>4. CASE rid' = Append(rid, m)
      <4>1. /\ Len(rid') = Len(rid) + 1 /\ Len(rid) \in Nat
            /\ \A i \in 1 .. Len(rid) + 1 : rid'[i] = IF i <= Len(rid) THEN rid[i] ELSE m
        BY <1>1, <3>4, QueuedOne
      <4>2. \A i \in 1 .. Len(rid') : Live(rid'[i]) => i = Len(rid) + 1 /\ rid'[i] = m
        BY <3>1, <4>1
      <4>3. \A i \in 1 .. Len(rid') : Live(rid'[i]) =>
              /\ Awaited(rid'[i], pc) /\ at.sem = 0
              /\ \A j \in 1 .. Len(rid') : Live(rid'[j]) => i = j
        BY <3>1, <4>2, Zenon
      <4>4. OneAnswer(at.sem, rid', owed', pc)
        BY <2>2, <3>2, <4>3, Zenon DEF OneAnswer
      <4> QED BY <2>2, <4>4
    <3> QED BY <1>1, <1>2, <3>3, <3>4, QueuedOne
  <2> QED BY <2>4, <2>5
<1> QED BY <1>4, <1>5, <1>6 DEF AtNextInv

\* What comes unasked is no answer.
LEMMA UnsolicitedKeeps ==
  ASSUME AtInv, Unsolicited
  PROVE  AtNextInv
<1>1. /\ TrxOK(at, pc) /\ AnswersOK /\ AtTypeOK /\ rid \in Seq(Messages)
  BY DEF AtInv, AtTypeOK
<1>2. PICK kind \in {"ind", "urc"} : Len(rid) < QUEUE_LEN /\ rid' = Append(rid, Message(kind, 0))
  BY Zenon DEF Unsolicited
<1>3. UNCHANGED <<pc, at, owed, cmds, own, astray>>
  BY Zenon DEF Unsolicited
<1>4. Message(kind, 0) \in Messages /\ ~Live(Message(kind, 0)) /\ rid' = Queued(rid, Message(kind, 0))
  BY <1>2 DEF Message, Messages, Kinds, Live, Queued
<1>5. AtTypeOK'
  <2>1. rid' \in Seq(Messages)
    BY <1>1, <1>4, QueuedOne
  <2> QED BY <1>1, <1>3, <2>1 DEF AtTypeOK, FrameType
<1>6. TrxOK(at', pc')
  BY <1>1, <1>3
<1>7. AnswersOK'
  <2>1. SUFFICES ASSUME ~astray PROVE OneAnswer(at.sem, rid', owed, pc) /\ Answered(at.sem, pc, own)
    BY <1>3, Zenon DEF AnswersOK
  <2>2. OneAnswer(at.sem, rid, owed, pc) /\ Answered(at.sem, pc, own)
    BY <1>1, <2>1, Zenon DEF AnswersOK
  <2>3. OneAnswer(at.sem, rid', owed, pc)
    BY <1>1, <1>4, <2>2, QueuedOther
  <2> QED BY <2>2, <2>3
<1> QED BY <1>5, <1>6, <1>7 DEF AtNextInv

\* Time only marks listeners with a callback.
LEMMA ExpireKeeps ==
  ASSUME AtInv, Expire
  PROVE  AtNextInv
<1>1. /\ FrameType(at) /\ TrxOK(at, pc) /\ AnswersOK /\ AtTypeOK /\ ListOK(at)
      /\ at.list \in Seq(Listeners) /\ at.trx.owner \in Users \cup {"recv", "none"}
  BY FrameParts DEF AtInv, AtTypeOK, TrxOK
<1>2. PICK i \in DOMAIN at.list : /\ HasCallback(at.list[i])
                                  /\ at' = [at EXCEPT !.list[i].expired = TRUE]
  BY Zenon DEF Expire
<1>3. UNCHANGED <<pc, rid, owed, cmds, own, astray>>
  BY Zenon DEF Expire
<1> DEFINE x == [at.list[i] EXCEPT !.expired = TRUE]
           q == [at.list EXCEPT ![i] = x]
<1>4. at.list[i] \in Listeners /\ i \in 1 .. Len(at.list)
  BY <1>1
<1>5. x \in Listeners /\ x.who = at.list[i].who
  BY <1>4 DEF Listeners
<1>6. at' = [at EXCEPT !.list = q]
  BY <1>2, Zenon
<1> HIDE DEF x
<1>7. /\ q \in Seq(Listeners) /\ Len(q) = Len(at.list)
      /\ \A j \in 1 .. Len(at.list) : q[j].who = at.list[j].who
  BY <1>1, <1>4, <1>5
<1> HIDE DEF q
<1>8. /\ at' = [list |-> q, trx |-> at.trx, sem |-> at.sem, dataInd |-> at.dataInd]
      /\ at'.list = q /\ at'.trx = at.trx /\ at'.sem = at.sem
  <2>1. at' = [list |-> q, trx |-> at.trx, sem |-> at.sem, dataInd |-> at.dataInd]
    BY <1>1, <1>6, FrameSet, Zenon
  <2> QED BY <2>1
<1>9. at.trx.owner \notin Users
  BY <1>1, <1>2, <1>4 DEF ListOK
<1>10. AtTypeOK'
  <2>1. FrameType(at')
    BY <1>1, <1>7, <1>8, FrameParts DEF FrameType
  <2> QED BY <1>1, <1>3, <2>1 DEF AtTypeOK
<1>11. TrxOK(at', pc')
  <2>1. ListOK(at')
    <3>1. at.trx.owner # "none"
      BY <1>1, <1>4 DEF ListOK
    <3> QED BY <1>1, <1>7, <1>8, <1>9, <3>1 DEF ListOK, HasCallback
  <2>2. FrameType(at')
    BY <1>10 DEF AtTypeOK
  <2>3. Kept(at, at')
    <3>1. Distinct(at'.trx.waiters)
      BY <1>1, <1>8, Zenon DEF TrxOK
    <3>2. Handled(at, at')
      BY <1>8, <1>9, Zenon DEF Handled
    <3> QED BY <2>1, <2>2, <3>1, <3>2 DEF Kept, FrameOK
  <2> QED BY <1>1, <1>3, <2>3, TrxKept
<1>12. AnswersOK'
  BY <1>1, <1>3, <1>8, Zenon DEF AnswersOK
<1> QED BY <1>10, <1>11, <1>12 DEF AtNextInv

-----------------------------------------------------------------------------
(* The theorems.                                                           *)

\* Nothing runs and nothing is on its way yet.
LEMMA AtInvInit ==
  ASSUME AtInit
  PROVE  AtInv
<1>1. /\ pc = [u \in Users |-> Idle]
      /\ at = [list |-> <<>>, trx |-> MuxFree, sem |-> 0, dataInd |-> FALSE]
      /\ rid = <<>> /\ owed = {} /\ cmds = 0 /\ own = {} /\ astray = FALSE
  BY Zenon DEF AtInit
<1>2. "recv" \notin Users /\ "none" \notin Users /\ SEM_MAX \in Nat
  BY AtAssumption
<1>3. AtTypeOK
  <2>1. FrameType(at)
    BY <1>1, <1>2 DEF FrameType, MuxFree, Mutexes
  <2>2. pc \in [Users -> [at : Places, write : BOOLEAN, id : Nat, ok : BOOLEAN]]
    BY <1>1 DEF Idle, Places
  <2>3. rid \in Seq(Messages) /\ owed \in SUBSET Messages
    BY <1>1
  <2>4. cmds \in Nat /\ own \in SUBSET Nat /\ astray \in BOOLEAN
    BY <1>1
  <2> QED BY <2>1, <2>2, <2>3, <2>4 DEF AtTypeOK
<1>4. /\ at.list = <<>> /\ at.trx.owner = "none" /\ at.trx.count = 0
      /\ at.trx.waiters = <<>> /\ at.sem = 0
  BY <1>1 DEF MuxFree
<1>5. \A u \in Users : pc[u].at = "idle"
  BY <1>1 DEF Idle
<1>6. TrxOK(at, pc)
  <2>1. ListOK(at) /\ Distinct(at.trx.waiters) /\ \A u : ~Waits(at, u)
    BY <1>2, <1>4 DEF ListOK, Distinct, Waits
  <2>2. \A u \in Users : at.trx.owner # u /\ pc[u].at # "trx" /\ pc[u].at \notin InCall
    BY <1>2, <1>4, <1>5 DEF InCall
  <2> QED BY <2>1, <2>2, Zenon DEF TrxOK
<1>7. AnswersOK
  <2>1. Quiet(at.sem, rid, owed)
    BY <1>1, <1>4 DEF Quiet
  <2>2. \A u \in Users : pc[u].at = "end" /\ pc[u].ok => pc[u].id \in own
    BY <1>5
  <2>3. OneAnswer(at.sem, rid, owed, pc) /\ Answered(at.sem, pc, own)
    BY <2>1, <2>2, QuietOne
  <2> QED BY <2>3 DEF AnswersOK
<1> QED BY <1>3, <1>6, <1>7 DEF AtInv

\* Every step of the framework, of the modem and of the clock keeps it.
LEMMA AtInvStep ==
  ASSUME AtInv, [AtNext]_vars
  PROVE  AtInv'
<1>1. SUFFICES AtNextInv
  BY DEF AtNextInv, AtInv, TrxOK, AnswersOK
<1>2. CASE UNCHANGED vars
  <2>1. UNCHANGED <<pc, at, rid, owed, cmds, own, astray>>
    BY <1>2 DEF vars
  <2>2. AtTypeOK' /\ TrxOK(at', pc') /\ AnswersOK'
    BY <2>1 DEF AtInv, AtTypeOK, FrameType, AnswersOK
  <2> QED BY <2>2 DEF AtNextInv
<1>3. ASSUME NEW u \in Users, NEW write \in BOOLEAN, Call(u, write) PROVE AtNextInv
  BY <1>3, CallKeeps
<1>4. ASSUME NEW u \in Users, UserStep(u) PROVE AtNextInv
  <2>1. CASE Send(u)
    BY <2>1, SendKeeps
  <2>2. CASE Woken(u)
    BY <2>2, WokenKeeps
  <2>3. CASE TimedOut(u)
    BY <2>3, TimedOutKeeps
  <2>4. CASE Payload(u)
    BY <2>4, PayloadKeeps
  <2>5. CASE End(u)
    BY <2>5, EndKeeps
  <2> QED BY <1>4, <2>1, <2>2, <2>3, <2>4, <2>5, Zenon DEF UserStep
<1>5. CASE at_recv_task
  BY <1>5, RecvKeeps
<1>6. CASE Answer
  BY <1>6, AnswerKeeps
<1>7. CASE Unsolicited
  BY <1>7, UnsolicitedKeeps
<1>8. CASE Expire
  BY <1>8, ExpireKeeps
<1> QED BY <1>2, <1>3, <1>4, <1>5, <1>6, <1>7, <1>8, Zenon DEF AtNext

\* The inductive invariant holds in every run, with or without memory for the
\* listeners of the callbacks.
THEOREM AtInvariance == AtSpec => []AtInv
<1>1. AtInit => AtInv
  BY AtInvInit
<1>2. AtInv /\ [AtNext]_vars => AtInv'
  BY AtInvStep
<1> QED BY <1>1, <1>2, PTL DEF AtSpec

\* At most one command is under way, its task holds trx_mux, and its listener
\* alone is on the list: at_listner_list_del finds it, and none is left behind
\* on a stack that is gone.  That holds even when a callback finds no memory.
CommandAlone ==
  \A u \in Users : pc[u].at \in InCall =>
    /\ at.trx.owner = u /\ Len(at.list) = 1 /\ Head(at.list).who = u
    /\ \A v \in Users : pc[v].at \in InCall => v = u

\* The facts of one state.
LEMMA AloneInState == ASSUME AtInv PROVE CommandAlone
<1>1. TrxOK(at, pc) /\ at.list \in Seq(Listeners)
  BY FrameParts DEF AtInv, AtTypeOK
<1>2. ASSUME NEW u \in Users, pc[u].at \in InCall
      PROVE  /\ at.trx.owner = u /\ Len(at.list) = 1 /\ Head(at.list).who = u
             /\ \A v \in Users : pc[v].at \in InCall => v = u
  <2>1. /\ at.trx.owner = u /\ Len(at.list) = 1 /\ at.list[1].who = u
    BY <1>1, <1>2, Zenon DEF TrxOK, ItsListener
  <2>2. Head(at.list) = at.list[1]
    BY <1>1, <2>1
  <2>3. \A v \in Users : pc[v].at \in InCall => v = u
    BY <1>1, <1>2, OneInCall, Zenon
  <2> QED BY <2>1, <2>2, <2>3
<1> QED BY <1>2, Zenon DEF CommandAlone

\* The mutex keeps the commands of the users apart whatever memory there is.
THEOREM CommandsAlone == AtSpec => []CommandAlone
<1>1. AtInv => CommandAlone
  BY AloneInState
<1> QED BY <1>1, AtInvariance, PTL

\* Every listener on the list is covered by trx_mux, those of the callbacks by
\* one hold each, if memory for them is always found.
LEMMA ProtectedInState == ASSUME AtInv, MemoryFound PROVE ListenersProtected
<1> DEFINE waiting == {u \in Users : pc[u].at \in {"prompt", "wait", "payload", "end"}}
<1>1. TrxOK(at, pc) /\ ListOK(at) /\ at.list \in Seq(Listeners) /\ CommandAlone
      /\ at.trx.owner \in Users \cup {"recv", "none"}
  BY AloneInState, FrameParts DEF AtInv, AtTypeOK, TrxOK
<1>2. CASE waiting # {}
  <2>1. PICK u \in Users : u \in waiting /\ pc[u].at \in InCall
    BY <1>2 DEF InCall
  <2>2. /\ at.trx.owner = u /\ Len(at.list) = 1 /\ Head(at.list).who = u
        /\ \A v \in Users : pc[v].at \in InCall => v = u
    BY <1>1, <2>1, Zenon DEF CommandAlone
  <2>3. waiting = {u}
    BY <2>1, <2>2 DEF InCall
  <2> HIDE DEF waiting
  <2>4. \E v \in waiting : /\ waiting = {v} /\ at.trx.owner = v
                            /\ Len(at.list) = 1 /\ Head(at.list).who = v
    BY <2>1, <2>2, <2>3
  <2> QED BY <1>2, <2>4, Zenon DEF ListenersProtected, waiting
<1>3. CASE waiting = {}
  <2>1. at.trx.owner \in Users => at.list = <<>>
    <3>1. SUFFICES ASSUME NEW u \in Users, at.trx.owner = u PROVE at.list = <<>>
      OBVIOUS
    <3>2. pc[u].at # "idle" /\ pc[u].at \in Places
      BY <1>1, <3>1 DEF TrxOK, AtInv, AtTypeOK
    <3>3. pc[u].at = "trx"
      BY <1>3, <3>2 DEF Places
    <3> QED BY <1>1, <3>1, <3>3, Zenon DEF TrxOK
  <2>2. at.trx.owner # "recv" => at.list = <<>>
    BY <1>1, <2>1 DEF ListOK
  <2>3. at.trx.owner = "recv" => at.trx.count = Len(at.list)
    BY <1>1 DEF ListOK
  <2>4. \A i \in DOMAIN at.list : HasCallback(at.list[i])
    BY <1>1, <2>2 DEF ListOK
  <2> QED BY <1>3, <2>2, <2>3, <2>4, Zenon DEF ListenersProtected
<1> QED BY <1>2, <1>3

\* No listener outlives its stack frame or its hold of the mutex.
THEOREM ListenersAlwaysProtected == ASSUME MemoryFound PROVE AtSpec => []ListenersProtected
<1>1. AtInv => ListenersProtected
  BY ProtectedInState
<1> QED BY <1>1, AtInvariance, PTL

\* A command that ends well had its own answer: until a wait times out or a
\* callback's listener takes a message that is not for it, one answer at most is
\* on its way, and nobody else can take it.
THEOREM AnswersMatch == AtSpec => []OwnAnswer
<1>1. AtInv => OwnAnswer
  BY Zenon DEF AtInv, AnswersOK, Answered, OwnAnswer
<1> QED BY <1>1, AtInvariance, PTL
=============================================================================
