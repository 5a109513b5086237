-------------------------- MODULE LosTicklessProofs --------------------------
(***************************************************************************)
(* Theorems about module LosTickless and what it is built from, the lists  *)
(* of relative times, the timing wheel and the software timers: for every  *)
(* number of sleepers and timers, every length of the wheel above one, all *)
(* intervals, and every rate and width of the hardware's counter.  The two *)
(* about the clock suppose that no interrupt is taken between a wake-up    *)
(* and its own update of the tick count.                                   *)
(***************************************************************************)
EXTENDS LosTickless, SequenceTheorems, FiniteSetTheorems, WellFoundedInduction, TLAPS

-----------------------------------------------------------------------------
(* Naturals                                                                *)

\* A set of naturals that is not empty has a least member, and Min finds it.
LEMMA MinNat ==
  ASSUME NEW S \in SUBSET Nat, S # {}
  PROVE  Min(S) \in S /\ \A n \in S : Min(S) <= n
<1>1. PICK m \in S : \A n \in S : ~(<<n, m>> \in OpToRel(<, Nat))
  BY NatLessThanWellFounded, WFMin
<1>2. ASSUME NEW n \in S PROVE m <= n
  <2>1. <<n, m>> \in Nat \X Nat /\ <<n, m>>[1] = n /\ <<n, m>>[2] = m
    OBVIOUS
  <2>2. n < m => <<n, m>> \in {ss \in Nat \X Nat : ss[1] < ss[2]}
    BY <2>1
  <2>3. OpToRel(<, Nat) = {ss \in Nat \X Nat : ss[1] < ss[2]}
    BY Zenon DEF OpToRel
  <2>4. ~(n < m)
    BY <1>1, <2>2, <2>3
  <2> QED BY <2>4
<1> QED BY <1>2 DEF Min

\* A set of naturals with 0 and with the successor of each member is all of Nat.
LEMMA Induct ==
  ASSUME NEW S, 0 \in S, \A n \in Nat : n \in S => n + 1 \in S
  PROVE  \A n \in Nat : n \in S
<1> DEFINE Missing == {n \in Nat : n \notin S}
<1>1. SUFFICES ASSUME Missing # {} PROVE FALSE
  OBVIOUS
<1>2. /\ Missing \in SUBSET Nat /\ Min(Missing) \in Missing
      /\ \A n \in Missing : Min(Missing) <= n
  BY <1>1, MinNat
<1>3. PICK m \in Nat : m = Min(Missing)
  BY <1>2
<1>4. m \notin S /\ m # 0 /\ m - 1 \in Nat /\ m = (m - 1) + 1 /\ ~(m <= m - 1)
  BY <1>2, <1>3
<1>5. m - 1 \in S
  BY <1>2, <1>3, <1>4
<1> QED BY <1>4, <1>5

-----------------------------------------------------------------------------
(* The times of a list                                                     *)

\* f adds up what the first n nodes of a list store.
IsTimes(list, rel, n, f) ==
  f = [j \in 0 .. n |-> IF j = 0 THEN 0 ELSE f[j - 1] + rel[list[j]]]

\* The function that adds up is the recursive function of the source.
LEMMA TimesDef ==
  ASSUME NEW list, NEW rel
  PROVE  Times(list, rel) = CHOOSE f : IsTimes(list, rel, Len(list), f)
BY DEF Times, IsTimes

\* There is such a function.
LEMMA TimesExist ==
  ASSUME NEW list, NEW rel
  PROVE  \A n \in Nat : \E f : IsTimes(list, rel, n, f)
<1> DEFINE S == {n \in Nat : \E f : IsTimes(list, rel, n, f)}
<1>1. 0 \in S
  <2> DEFINE f == [j \in 0 .. 0 |-> 0]
  <2>1. IsTimes(list, rel, 0, f)
    BY DEF IsTimes
  <2> QED BY <2>1
<1>2. ASSUME NEW n \in Nat, n \in S PROVE n + 1 \in S
  <2>1. PICK g : IsTimes(list, rel, n, g)
    BY <1>2
  <2> DEFINE h == [j \in 0 .. n + 1 |-> IF j = n + 1 THEN g[n] + rel[list[j]] ELSE g[j]]
  <2>2. \A j \in 0 .. n : g[j] = IF j = 0 THEN 0 ELSE g[j - 1] + rel[list[j]]
    BY <2>1 DEF IsTimes
  <2>3. ASSUME NEW j \in 0 .. n + 1
        PROVE  h[j] = IF j = 0 THEN 0 ELSE h[j - 1] + rel[list[j]]
    <3>1. CASE j = n + 1
      BY <3>1
    <3>2. CASE j # n + 1
      <4>1. j \in 0 .. n /\ h[j] = g[j] /\ (j # 0 => j - 1 \in 0 .. n /\ h[j - 1] = g[j - 1])
        BY <3>2
      <4> QED BY <4>1, <2>2
    <3> QED BY <3>1, <3>2
  <2>4. IsTimes(list, rel, n + 1, h)
    BY <2>3 DEF IsTimes
  <2> QED BY <2>4
<1> HIDE DEF S
<1>3. \A n \in Nat : n \in S
  BY <1>1, <1>2, Induct
<1> QED BY <1>3 DEF S

\* A list of nodes that store naturals.
Deltas(S, list, rel) == list \in Seq(S) /\ IsInjective(list) /\ rel \in [S -> Nat]

\* What Times is, node by node.
LEMMA TimesStep ==
  ASSUME NEW S, NEW list \in Seq(S), NEW rel
  PROVE  /\ Times(list, rel)[0] = 0
         /\ \A j \in 1 .. Len(list) : Times(list, rel)[j] = Times(list, rel)[j - 1] + rel[list[j]]
<1> DEFINE T == Times(list, rel)
<1>1. Len(list) \in Nat
  OBVIOUS
<1>2. IsTimes(list, rel, Len(list), T)
  BY <1>1, TimesExist, TimesDef
<1> HIDE DEF T
<1>3. \A j \in 0 .. Len(list) : T[j] = IF j = 0 THEN 0 ELSE T[j - 1] + rel[list[j]]
  BY <1>2 DEF IsTimes
<1>4. T[0] = 0 /\ \A j \in 1 .. Len(list) : T[j] = T[j - 1] + rel[list[j]]
  BY <1>1, <1>3
<1> QED BY <1>4 DEF T

\* A function that adds up in the same way is Times.
LEMMA TimesUnique ==
  ASSUME NEW S, NEW list \in Seq(S), NEW rel, NEW g, g[0] = 0,
         \A j \in 1 .. Len(list) : g[j] = g[j - 1] + rel[list[j]]
  PROVE  \A j \in 0 .. Len(list) : Times(list, rel)[j] = g[j]
<1> DEFINE T == Times(list, rel)
           Q == {n \in Nat : n <= Len(list) => T[n] = g[n]}
<1>1. T[0] = 0 /\ \A j \in 1 .. Len(list) : T[j] = T[j - 1] + rel[list[j]]
  BY TimesStep
<1>2. Len(list) \in Nat
  OBVIOUS
<1> HIDE DEF T
<1>3. 0 \in Q
  BY <1>1
<1>4. ASSUME NEW n \in Nat, n \in Q PROVE n + 1 \in Q
  <2>1. CASE n + 1 <= Len(list)
    <3>1. n + 1 \in 1 .. Len(list) /\ (n + 1) - 1 = n /\ T[n] = g[n]
      BY <1>2, <1>4, <2>1
    <3>2. T[n + 1] = T[n] + rel[list[n + 1]] /\ g[n + 1] = g[n] + rel[list[n + 1]]
      BY <1>1, <3>1
    <3> QED BY <3>1, <3>2
  <2>2. CASE ~(n + 1 <= Len(list))
    BY <2>2
  <2> QED BY <2>1, <2>2
<1> HIDE DEF Q
<1>5. \A n \in Nat : n \in Q
  BY <1>3, <1>4, Induct
<1>6. \A j \in 0 .. Len(list) : T[j] = g[j]
  BY <1>2, <1>5 DEF Q
<1> QED BY <1>6 DEF T

\* The times are naturals that do not fall along the list.
LEMMA TimesRise ==
  ASSUME NEW S, NEW list, NEW rel, Deltas(S, list, rel)
  PROVE  /\ \A j \in 0 .. Len(list) : Times(list, rel)[j] \in Nat
         /\ \A i, j \in 0 .. Len(list) : i <= j => Times(list, rel)[i] <= Times(list, rel)[j]
<1> DEFINE T == Times(list, rel)
           Q == {n \in Nat : n <= Len(list) => \A i \in 0 .. n : T[i] \in Nat /\ T[i] <= T[n]}
<1>1. list \in Seq(S) /\ Len(list) \in Nat /\ \A j \in 1 .. Len(list) : rel[list[j]] \in Nat
  BY DEF Deltas
<1>2. T[0] = 0 /\ \A j \in 1 .. Len(list) : T[j] = T[j - 1] + rel[list[j]]
  BY <1>1, TimesStep
<1> HIDE DEF T
<1>3. 0 \in Q
  BY <1>2
<1>4. ASSUME NEW n \in Nat, n \in Q PROVE n + 1 \in Q
  <2>1. CASE n + 1 <= Len(list)
    <3>1. n + 1 \in 1 .. Len(list) /\ (n + 1) - 1 = n
          /\ \A i \in 0 .. n : T[i] \in Nat /\ T[i] <= T[n]
      BY <1>1, <1>4, <2>1
    <3>2. T[n] \in Nat
      BY <3>1
    <3>3. T[n + 1] = T[n] + rel[list[n + 1]] /\ rel[list[n + 1]] \in Nat
      BY <1>1, <1>2, <3>1
    <3>4. T[n + 1] \in Nat /\ T[n] <= T[n + 1]
      BY <3>2, <3>3
    <3>5. ASSUME NEW i \in 0 .. n + 1 PROVE T[i] \in Nat /\ T[i] <= T[n + 1]
      <4>1. CASE i = n + 1
        BY <3>4, <4>1
      <4>2. CASE i \in 0 .. n
        BY <3>1, <3>2, <3>4, <4>2
      <4> QED BY <4>1, <4>2
    <3> QED BY <3>5
  <2>2. CASE ~(n + 1 <= Len(list))
    BY <2>2
  <2> QED BY <2>1, <2>2
<1> HIDE DEF Q
<1>5. \A n \in Nat : n \in Q
  BY <1>3, <1>4, Induct
<1>6. \A j \in 0 .. Len(list) : \A i \in 0 .. j : T[i] \in Nat /\ T[i] <= T[j]
  BY <1>1, <1>5 DEF Q
<1>7. \A i, j \in 0 .. Len(list) : i <= j => i \in 0 .. j
  BY <1>1
<1>8. \A j \in 0 .. Len(list) : j \in 0 .. j
  BY <1>1
<1> QED BY <1>6, <1>7, <1>8 DEF T

-----------------------------------------------------------------------------
(* The nodes of a list after an operation                                  *)

\* A node is found where it is; what is not on the list is nowhere.
LEMMA PlaceOK ==
  ASSUME NEW S, NEW s \in Seq(S), IsInjective(s)
  PROVE  /\ \A i \in 1 .. Len(s) : Place(s, s[i]) = i
         /\ \A e : Contains(s, e) => Place(s, e) \in 1 .. Len(s) /\ s[Place(s, e)] = e
         /\ \A e : ~Contains(s, e) => Place(s, e) = 0
<1>1. \A i, j \in 1 .. Len(s) : s[i] = s[j] => i = j
  BY DEF IsInjective
<1>2. ASSUME NEW i \in 1 .. Len(s) PROVE Place(s, s[i]) = i
  <2> DEFINE I == {j \in 1 .. Len(s) : s[j] = s[i]}
  <2>1. I = {i}
    BY <1>1
  <2>2. Min(I) = i
    BY <2>1 DEF Min
  <2> QED BY <2>1, <2>2 DEF Place, SelectInSeq
<1>3. ASSUME NEW e, Contains(s, e) PROVE Place(s, e) \in 1 .. Len(s) /\ s[Place(s, e)] = e
  <2>1. PICK i \in 1 .. Len(s) : s[i] = e
    BY <1>3 DEF Contains
  <2> QED BY <1>2, <2>1
<1>4. ASSUME NEW e, ~Contains(s, e) PROVE Place(s, e) = 0
  BY <1>4 DEF Contains, Place, SelectInSeq
<1> QED BY <1>2, <1>3, <1>4

\* Linking a node at place p moves the nodes from there on down by one.
LEMMA LinkedNodes ==
  ASSUME NEW S, NEW s \in Seq(S), NEW p \in 1 .. Len(s) + 1, NEW e \in S
  PROVE  /\ Linked(s, e, p) \in Seq(S) /\ Len(Linked(s, e, p)) = Len(s) + 1
         /\ \A j \in 1 .. Len(s) + 1 :
              Linked(s, e, p)[j] = IF j < p THEN s[j] ELSE IF j = p THEN e ELSE s[j - 1]
<1> DEFINE n == Len(s)
           before == SubSeq(s, 1, p - 1)
           after == SubSeq(s, p, n)
<1>1. n \in Nat /\ p \in Nat /\ 1 <= p /\ p <= n + 1
  OBVIOUS
<1>2. /\ before \in Seq(S) /\ Len(before) = p - 1
      /\ \A j \in 1 .. p - 1 : before[j] = s[j]
  <2>1. \A j \in 1 .. p - 1 : s[j] \in S
    BY <1>1
  <2> QED BY <1>1, <2>1, SubSeqProperties
<1>3. /\ after \in Seq(S) /\ Len(after) = n - p + 1
      /\ \A j \in 1 .. n - p + 1 : after[j] = s[p + j - 1]
  <2>1. \A j \in p .. n : s[j] \in S
    BY <1>1
  <2>2. p \in Int /\ n \in Int
    BY <1>1
  <2>3. /\ after \in Seq(S) /\ Len(after) = IF p <= n THEN n - p + 1 ELSE 0
        /\ \A j \in 1 .. n - p + 1 : after[j] = s[p + j - 1]
    BY <2>1, <2>2, SubSeqProperties
  <2> QED BY <1>1, <2>3
<1>4. Linked(s, e, p) = (before \o <<e>>) \o after
  BY DEF Linked, InsertAt
<1> HIDE DEF before, after
<1>5. /\ before \o <<e>> \in Seq(S) /\ Len(before \o <<e>>) = p
      /\ \A j \in 1 .. p : (before \o <<e>>)[j] = IF j < p THEN s[j] ELSE e
  <2>1. <<e>> \in Seq(S) /\ Len(<<e>>) = 1 /\ <<e>>[1] = e
    OBVIOUS
  <2>2. Len(before \o <<e>>) = p /\ before \o <<e>> \in Seq(S)
    BY <1>1, <1>2, <2>1
  <2>3. \A j \in 1 .. p : (before \o <<e>>)[j] =
          IF j <= Len(before) THEN before[j] ELSE <<e>>[j - Len(before)]
    BY <1>1, <1>2, <2>1, ConcatProperties
  <2> QED BY <1>1, <1>2, <2>1, <2>2, <2>3
<1> DEFINE b == before \o <<e>>
<1> HIDE DEF b
<1>6. /\ b \in Seq(S) /\ Len(b) = p /\ \A j \in 1 .. p : b[j] = IF j < p THEN s[j] ELSE e
      /\ Linked(s, e, p) = b \o after
  BY <1>4, <1>5 DEF b
<1>7. /\ b \o after \in Seq(S) /\ Len(b \o after) = n + 1
      /\ \A j \in 1 .. n + 1 : (b \o after)[j] = IF j <= p THEN b[j] ELSE after[j - p]
  <2>1. /\ b \o after \in Seq(S) /\ Len(b \o after) = Len(b) + Len(after)
        /\ \A j \in 1 .. Len(b) + Len(after) :
             (b \o after)[j] = IF j <= Len(b) THEN b[j] ELSE after[j - Len(b)]
    BY <1>3, <1>6, ConcatProperties
  <2>2. Len(b) = p /\ Len(b) + Len(after) = n + 1
    BY <1>1, <1>3, <1>6
  <2> QED BY <2>1, <2>2
<1>8. ASSUME NEW j \in 1 .. n + 1
      PROVE  (b \o after)[j] = IF j < p THEN s[j] ELSE IF j = p THEN e ELSE s[j - 1]
  <2>1. CASE j <= p
    BY <1>1, <1>6, <1>7, <2>1
  <2>2. CASE ~(j <= p)
    <3>1. j - p \in 1 .. n - p + 1 /\ p + (j - p) - 1 = j - 1
      BY <1>1, <2>2
    <3> QED BY <1>1, <1>3, <1>7, <2>2, <3>1
  <2> QED BY <2>1, <2>2
<1> QED BY <1>6, <1>7, <1>8

\* Unlinking the i-th node moves the nodes behind it up by one.
LEMMA RemovedNodes ==
  ASSUME NEW S, NEW s \in Seq(S), IsInjective(s), NEW i \in 1 .. Len(s), NEW e, s[i] = e
  PROVE  /\ RemoveFirst(s, e) \in Seq(S) /\ Len(RemoveFirst(s, e)) = Len(s) - 1
         /\ \A j \in 1 .. Len(s) - 1 :
              RemoveFirst(s, e)[j] = IF j < i THEN s[j] ELSE s[j + 1]
<1> DEFINE n == Len(s)
<1>1. s[i] = e /\ i \in 1 .. n
  OBVIOUS
<1> DEFINE rest == SubSeq(s, 1, i - 1) \o SubSeq(s, i + 1, n)
<1>2. RemoveFirst(s, e) = rest
  <2>1. Place(s, e) = i
    BY <1>1, PlaceOK
  <2>2. SelectInSeq(s, LAMBDA v : v = e) = i
    BY <2>1 DEF Place
  <2> QED BY <1>1, <2>2 DEF RemoveFirst, RemoveAt
<1>4. n \in Nat /\ i \in Nat /\ 1 <= i /\ i <= n
  BY <1>1
<1> DEFINE before == SubSeq(s, 1, i - 1)
           after == SubSeq(s, i + 1, n)
<1>5. /\ before \in Seq(S) /\ Len(before) = i - 1
      /\ \A j \in 1 .. i - 1 : before[j] = s[j]
  <2>1. \A j \in 1 .. i - 1 : s[j] \in S
    BY <1>4
  <2> QED BY <1>4, <2>1, SubSeqProperties
<1>6. /\ after \in Seq(S) /\ Len(after) = n - i
      /\ \A j \in 1 .. n - i : after[j] = s[i + j]
  <2>1. \A j \in i + 1 .. n : s[j] \in S
    BY <1>4
  <2>2. i + 1 \in Int /\ n \in Int
    BY <1>4
  <2>3. /\ after \in Seq(S) /\ Len(after) = IF i + 1 <= n THEN n - (i + 1) + 1 ELSE 0
        /\ \A j \in 1 .. n - (i + 1) + 1 : after[j] = s[i + 1 + j - 1]
    BY <2>1, <2>2, SubSeqProperties
  <2> QED BY <1>4, <2>3
<1> HIDE DEF before, after
<1>7. /\ before \o after \in Seq(S) /\ Len(before \o after) = n - 1
      /\ \A j \in 1 .. n - 1 : (before \o after)[j] = IF j < i THEN s[j] ELSE s[j + 1]
  <2> DEFINE j1 == Len(before)
             j2 == Len(before) + Len(after)
  <2>3. j1 = i - 1 /\ j2 = n - 1
    BY <1>4, <1>5, <1>6
  <2>4. /\ before \o after \in Seq(S) /\ Len(before \o after) = j2
        /\ \A j \in 1 .. j2 : (before \o after)[j] = IF j <= j1 THEN before[j] ELSE after[j - j1]
    BY <1>5, <1>6, ConcatProperties
  <2> HIDE DEF j1, j2
  <2>1. /\ before \o after \in Seq(S) /\ Len(before \o after) = n - 1
        /\ \A j \in 1 .. n - 1 :
             (before \o after)[j] = IF j <= i - 1 THEN before[j] ELSE after[j - (i - 1)]
    BY <2>3, <2>4
  <2>2. \A j \in 1 .. n - 1 : ~(j < i) => j - (i - 1) \in 1 .. n - i /\ i + (j - (i - 1)) = j + 1
    BY <1>4
  <2> QED BY <1>4, <1>5, <1>6, <2>1, <2>2
<1> QED BY <1>2, <1>7 DEF before, after

\* What is left of a list from place p on, and up to it.
LEMMA CutNodes ==
  ASSUME NEW S, NEW s \in Seq(S), NEW p \in 1 .. Len(s) + 1
  PROVE  /\ SubSeq(s, p, Len(s)) \in Seq(S) /\ Len(SubSeq(s, p, Len(s))) = Len(s) - p + 1
         /\ \A j \in 1 .. Len(s) - p + 1 : SubSeq(s, p, Len(s))[j] = s[j + p - 1]
         /\ SubSeq(s, 1, p - 1) \in Seq(S) /\ Len(SubSeq(s, 1, p - 1)) = p - 1
         /\ \A j \in 1 .. p - 1 : SubSeq(s, 1, p - 1)[j] = s[j]
<1> DEFINE n == Len(s)
<1>1. n \in Nat /\ p \in Nat /\ 1 <= p /\ p <= n + 1
  OBVIOUS
<1>2. /\ SubSeq(s, 1, p - 1) \in Seq(S) /\ Len(SubSeq(s, 1, p - 1)) = p - 1
      /\ \A j \in 1 .. p - 1 : SubSeq(s, 1, p - 1)[j] = s[j]
  <2>1. \A j \in 1 .. p - 1 : s[j] \in S
    BY <1>1
  <2> QED BY <1>1, <2>1, SubSeqProperties
<1>3. /\ SubSeq(s, p, n) \in Seq(S) /\ Len(SubSeq(s, p, n)) = n - p + 1
      /\ \A j \in 1 .. n - p + 1 : SubSeq(s, p, n)[j] = s[p + j - 1]
  <2>1. \A j \in p .. n : s[j] \in S
    BY <1>1
  <2>2. p \in Int /\ n \in Int
    BY <1>1
  <2>3. /\ SubSeq(s, p, n) \in Seq(S)
        /\ Len(SubSeq(s, p, n)) = IF p <= n THEN n - p + 1 ELSE 0
        /\ \A j \in 1 .. n - p + 1 : SubSeq(s, p, n)[j] = s[p + j - 1]
    BY <2>1, <2>2, SubSeqProperties
  <2> QED BY <1>1, <2>3
<1>4. \A j \in 1 .. n - p + 1 : p + j - 1 = j + p - 1
  BY <1>1
<1> QED BY <1>2, <1>3, <1>4

-----------------------------------------------------------------------------
(* The times of a list after an operation                                  *)

\* What is on a list, by its nodes.
LEMMA OnList ==
  ASSUME NEW S, NEW s \in Seq(S)
  PROVE  /\ \A e : Contains(s, e) <=> \E j \in 1 .. Len(s) : s[j] = e
         /\ \A e : Contains(s, e) => e \in S
         /\ ToSet(s) = {e \in S : Contains(s, e)}
         /\ s = <<>> <=> \A e : ~Contains(s, e)
<1>1. DOMAIN s = 1 .. Len(s) /\ \A j \in 1 .. Len(s) : s[j] \in S
  OBVIOUS
<1>2. \A e : Contains(s, e) <=> \E j \in 1 .. Len(s) : s[j] = e
  BY DEF Contains
<1>3. ToSet(s) = {e \in S : Contains(s, e)}
  BY <1>1, <1>2 DEF ToSet
<1>4. s = <<>> <=> \A e : ~Contains(s, e)
  <2>1. s = <<>> => \A e : ~Contains(s, e)
    BY <1>2
  <2>2. s # <<>> => Contains(s, s[1])
    <3>1. s # <<>> => 1 \in 1 .. Len(s)
      OBVIOUS
    <3> QED BY <1>2, <3>1
  <2> QED BY <2>1, <2>2
<1> QED BY <1>1, <1>2, <1>3, <1>4

\* The walk ends at the first node that is later than n.
LEMMA FirstLaterOK ==
  ASSUME NEW S, NEW list, NEW rel, Deltas(S, list, rel), NEW n \in Nat
  PROVE  /\ FirstLater(list, rel, n) \in 1 .. Len(list) + 1
         /\ \A j \in 0 .. FirstLater(list, rel, n) - 1 : Times(list, rel)[j] <= n
         /\ \A j \in FirstLater(list, rel, n) .. Len(list) : Times(list, rel)[j] > n
<1> DEFINE T == Times(list, rel)
           I == {j \in 1 .. Len(list) : T[j] > n} \cup {Len(list) + 1}
           p == FirstLater(list, rel, n)
<1>1. Len(list) \in Nat /\ list \in Seq(S)
  BY DEF Deltas
<1>2. T[0] = 0 /\ \A j \in 0 .. Len(list) : T[j] \in Nat
  BY <1>1, TimesRise, TimesStep
<1>3. \A i, j \in 0 .. Len(list) : i <= j => T[i] <= T[j]
  BY TimesRise
<1>4. I \in SUBSET Nat /\ I # {} /\ p = Min(I)
  BY <1>1 DEF FirstLater
<1> HIDE DEF T
<1>5. p \in I /\ \A j \in I : p <= j
  <2> HIDE DEF I, p
  <2> QED BY <1>4, MinNat
<1>6. p \in 1 .. Len(list) + 1
  BY <1>1, <1>5
<1>7. ASSUME NEW j \in 0 .. p - 1 PROVE T[j] <= n
  <2>1. CASE j = 0
    BY <1>2, <2>1
  <2>2. CASE j # 0
    <3>1. j \in 1 .. Len(list) /\ j \notin I
      BY <1>1, <1>5, <1>6, <2>2
    <3> QED BY <1>2, <3>1
  <2> QED BY <2>1, <2>2
<1>8. ASSUME NEW j \in p .. Len(list) PROVE T[j] > n
  <2>1. p \in 1 .. Len(list) /\ T[p] > n
    BY <1>1, <1>5, <1>6
  <2>2. T[p] <= T[j] /\ T[p] \in Nat /\ T[j] \in Nat
    BY <1>1, <1>2, <1>3, <2>1
  <2> QED BY <2>1, <2>2
<1> QED BY <1>6, <1>7, <1>8 DEF T

\* The times of a list depend on what its own nodes store only.
LEMMA SameTimes ==
  ASSUME NEW S, NEW list \in Seq(S), NEW rel, NEW r,
         \A u : Contains(list, u) => r[u] = rel[u]
  PROVE  \A j \in 0 .. Len(list) : Times(list, r)[j] = Times(list, rel)[j]
<1> DEFINE T == Times(list, rel)
<1>1. T[0] = 0 /\ \A j \in 1 .. Len(list) : T[j] = T[j - 1] + rel[list[j]]
  BY TimesStep
<1>2. \A j \in 1 .. Len(list) : rel[list[j]] = r[list[j]]
  BY OnList
<1> HIDE DEF T
<1>3. \A j \in 1 .. Len(list) : T[j] = T[j - 1] + r[list[j]]
  BY <1>1, <1>2
<1>4. \A j \in 0 .. Len(list) : Times(list, r)[j] = T[j]
  BY <1>1, <1>3, TimesUnique
<1> QED BY <1>4 DEF T

\* L and R are list and rel after t has been linked at place p with time n.
LinkedAt(list, rel, t, n, p, L, R) ==
  p = FirstLater(list, rel, n) /\ L = Linked(list, t, p) /\ R = LinkedRel(list, rel, t, n, p)

\* A node that is linked in front of the first later one gets the time n; the
\* times of the other nodes stay as they are.
LEMMA LinkedTimes ==
  ASSUME NEW S, NEW list, NEW rel, Deltas(S, list, rel), NEW t \in S, ~Contains(list, t),
         NEW n \in Nat, NEW p \in 1 .. Len(list) + 1, NEW L, NEW R,
         LinkedAt(list, rel, t, n, p, L, R)
  PROVE  /\ Deltas(S, L, R) /\ Len(L) = Len(list) + 1
         /\ \A j \in 0 .. Len(list) + 1 :
              Times(L, R)[j] = IF j < p THEN Times(list, rel)[j]
                               ELSE IF j = p THEN n ELSE Times(list, rel)[j - 1]
         /\ \A u \in S : u # t /\ ~Contains(list, u) => R[u] = rel[u]
<1> DEFINE T == Times(list, rel)
           m == Len(list)
           own == n - T[p - 1]
           g == [j \in 0 .. m + 1 |-> IF j < p THEN T[j] ELSE IF j = p THEN n ELSE T[j - 1]]
<1>1. /\ list \in Seq(S) /\ IsInjective(list) /\ rel \in [S -> Nat] /\ m \in Nat
      /\ \A j \in 1 .. m : list[j] \in S /\ list[j] # t
      /\ \A i, j \in 1 .. m : list[i] = list[j] => i = j
  <2>1. list \in Seq(S) /\ IsInjective(list) /\ rel \in [S -> Nat]
    BY DEF Deltas
  <2>2. \A j \in 1 .. m : list[j] \in S /\ list[j] # t
    BY <2>1, OnList
  <2>3. \A i, j \in 1 .. m : list[i] = list[j] => i = j
    BY <2>1 DEF IsInjective
  <2> QED BY <2>1, <2>2, <2>3
<1>2. /\ p \in 1 .. m + 1
      /\ \A j \in 0 .. p - 1 : T[j] <= n
      /\ \A j \in p .. m : T[j] > n
  BY FirstLaterOK DEF LinkedAt
<1>3. /\ T[0] = 0 /\ \A j \in 1 .. m : T[j] = T[j - 1] + rel[list[j]]
      /\ \A j \in 0 .. m : T[j] \in Nat
  BY <1>1, TimesStep, TimesRise
<1>4. /\ L \in Seq(S) /\ Len(L) = m + 1
      /\ \A j \in 1 .. m + 1 : L[j] = IF j < p THEN list[j] ELSE IF j = p THEN t ELSE list[j - 1]
  <2>1. L = Linked(list, t, p)
    BY DEF LinkedAt
  <2>2. /\ Linked(list, t, p) \in Seq(S) /\ Len(Linked(list, t, p)) = Len(list) + 1
        /\ \A j \in 1 .. Len(list) + 1 :
             Linked(list, t, p)[j] = IF j < p THEN list[j] ELSE IF j = p THEN t ELSE list[j - 1]
    BY <1>1, LinkedNodes
  <2> QED BY <2>1, <2>2
<1>5. R = IF p > m THEN [rel EXCEPT ![t] = own]
          ELSE [[rel EXCEPT ![t] = own] EXCEPT ![list[p]] = @ - own]
  BY DEF LinkedRel, LinkedAt
<1> HIDE DEF T
<1>6. own \in Nat /\ T[p - 1] + own = n
  <2>1. p - 1 \in 0 .. p - 1 /\ p - 1 \in 0 .. m
    BY <1>1, <1>2
  <2>2. T[p - 1] <= n /\ T[p - 1] \in Nat
    BY <1>2, <1>3, <2>1
  <2> QED BY <2>2
<1> HIDE DEF own
<1>7. p <= m => /\ p \in 1 .. m /\ list[p] \in S /\ list[p] # t
                /\ rel[list[p]] - own \in Nat /\ T[p] = n + (rel[list[p]] - own)
  <2> SUFFICES ASSUME p <= m
               PROVE  /\ p \in 1 .. m /\ list[p] \in S /\ list[p] # t
                      /\ rel[list[p]] - own \in Nat /\ T[p] = n + (rel[list[p]] - own)
    OBVIOUS
  <2>1. p \in 1 .. m /\ p \in p .. m /\ p \in 0 .. m /\ p - 1 \in 0 .. m
    BY <1>1, <1>2
  <2>2. list[p] \in S /\ list[p] # t /\ rel[list[p]] \in Nat
    BY <1>1, <2>1
  <2>3. T[p] = T[p - 1] + rel[list[p]] /\ T[p] > n /\ T[p - 1] \in Nat /\ T[p] \in Nat
    BY <1>2, <1>3, <2>1
  <2>4. own \in Nat /\ T[p - 1] + own = n
    BY <1>6
  <2>5. PICK c \in Nat : c = rel[list[p]]
    BY <2>2
  <2>7. PICK a \in Nat, o \in Nat : a = T[p - 1] /\ o = own
    BY <2>3, <2>4
  <2>8. a + c > n /\ a + o = n /\ T[p] = a + c
    BY <2>3, <2>4, <2>5, <2>7
  <2>9. c - o \in Nat /\ a + c = n + (c - o)
    BY <2>8
  <2>6. c - own \in Nat /\ T[p] = n + (c - own)
    BY <2>7, <2>8, <2>9
  <2> QED BY <2>1, <2>2, <2>5, <2>6
<1>8. /\ R \in [S -> Nat] /\ R[t] = own
      /\ p <= m => R[list[p]] = rel[list[p]] - own
      /\ \A u \in S : u # t /\ (p <= m => u # list[p]) => R[u] = rel[u]
  <2>1. CASE p > m
    <3>1. R = [rel EXCEPT ![t] = own] /\ ~(p <= m)
      BY <1>1, <1>2, <1>5, <2>1
    <3> QED BY <1>1, <1>6, <3>1
  <2>2. CASE ~(p > m)
    <3>1. p <= m /\ R = [[rel EXCEPT ![t] = own] EXCEPT ![list[p]] = @ - own]
      BY <1>1, <1>2, <1>5, <2>2
    <3>2. list[p] \in S /\ list[p] # t /\ rel[list[p]] - own \in Nat
      BY <1>7, <3>1
    <3> QED BY <1>1, <1>6, <3>1, <3>2
  <2> QED BY <2>1, <2>2
<1>9. IsInjective(L)
  <2>1. \A i, j \in 1 .. m + 1 : L[i] = L[j] => i = j
    <3> SUFFICES ASSUME NEW i \in 1 .. m + 1, NEW j \in 1 .. m + 1, L[i] = L[j]
                 PROVE  i = j
      OBVIOUS
    <3> DEFINE old(l) == IF l < p THEN l ELSE l - 1
    <3>1. \A l \in 1 .. m + 1 : l # p => old(l) \in 1 .. m /\ L[l] = list[old(l)] /\ L[l] # t
      <4> SUFFICES ASSUME NEW l \in 1 .. m + 1, l # p
                   PROVE  old(l) \in 1 .. m /\ L[l] = list[old(l)] /\ L[l] # t
        OBVIOUS
      <4>1. old(l) \in 1 .. m
        BY <1>1
      <4>2. L[l] = list[old(l)]
        BY <1>4
      <4> QED BY <1>1, <4>1, <4>2
    <3>2. L[p] = t
      BY <1>1, <1>2, <1>4
    <3>3. CASE i # p /\ j # p
      <4>1. old(i) = old(j)
        <5> HIDE DEF old
        <5> QED BY <1>1, <3>1, <3>3
      <4> QED BY <1>2, <3>3, <4>1
    <3>4. CASE i = p \/ j = p
      <4> HIDE DEF old
      <4> QED BY <3>1, <3>2, <3>4
    <3> QED BY <3>3, <3>4
  <2> QED BY <1>4, <2>1 DEF IsInjective
<1>10. ASSUME NEW j \in 1 .. m + 1 PROVE g[j] = g[j - 1] + R[L[j]]
  <2>1. CASE j < p
    <3>1. j \in 1 .. m /\ L[j] = list[j] /\ g[j] = T[j] /\ g[j - 1] = T[j - 1]
      BY <1>1, <1>2, <1>4, <2>1
    <3>2. list[j] \in S /\ list[j] # t /\ (p <= m => list[j] # list[p])
      BY <1>1, <1>7, <2>1, <3>1
    <3> QED BY <1>3, <1>8, <3>1, <3>2
  <2>2. CASE j = p
    <3>1. L[j] = t /\ g[j] = n /\ g[j - 1] = T[p - 1]
      BY <1>1, <1>2, <1>4, <2>2
    <3> QED BY <1>6, <1>8, <3>1
  <2>3. CASE j = p + 1
    <3>1. p <= m /\ L[j] = list[p] /\ g[j] = T[p] /\ g[j - 1] = n
      BY <1>1, <1>2, <1>4, <2>3
    <3> QED BY <1>7, <1>8, <3>1
  <2>4. CASE j > p + 1
    <3>3. j - 1 \in 1 .. m /\ j - 1 # p /\ j # p /\ ~(j < p) /\ ~(j - 1 < p) /\ j - 1 \in 0 .. m + 1
      BY <1>1, <2>4
    <3>1. /\ j - 1 \in 1 .. m /\ L[j] = list[j - 1] /\ g[j] = T[j - 1]
          /\ g[j - 1] = T[(j - 1) - 1] /\ j - 1 # p
      BY <1>4, <3>3
    <3>2. list[j - 1] \in S /\ list[j - 1] # t /\ (p <= m => list[j - 1] # list[p])
      BY <1>1, <1>7, <3>1
    <3> QED BY <1>3, <1>8, <3>1, <3>2
  <2> QED BY <1>2, <2>1, <2>2, <2>3, <2>4
<1>11. g[0] = 0
  BY <1>1, <1>2, <1>3
<1>12. \A j \in 0 .. m + 1 : Times(L, R)[j] = g[j]
  <2> HIDE DEF g
  <2> QED BY <1>4, <1>10, <1>11, TimesUnique
<1>13. \A u \in S : u # t /\ ~Contains(list, u) => R[u] = rel[u]
  BY <1>1, <1>7, <1>8, OnList
<1> QED BY <1>4, <1>8, <1>9, <1>12, <1>13 DEF Deltas, T

\* L and R are list and rel after t has been unlinked from place p.
UnlinkedAt(list, rel, t, p, L, R) ==
  p = Place(list, t) /\ L = RemoveFirst(list, t) /\ R = UnlinkedRel(list, rel, t)

\* Unlinking a node leaves the times of the other nodes as they are.
LEMMA UnlinkedTimes ==
  ASSUME NEW S, NEW list, NEW rel, Deltas(S, list, rel), NEW t \in S,
         NEW p \in 1 .. Len(list), NEW L, NEW R, UnlinkedAt(list, rel, t, p, L, R),
         Contains(list, t)
  PROVE  /\ Deltas(S, L, R) /\ Len(L) = Len(list) - 1 /\ list[p] = t
         /\ \A j \in 1 .. Len(list) - 1 : L[j] = IF j < p THEN list[j] ELSE list[j + 1]
         /\ \A j \in 0 .. Len(list) - 1 :
              Times(L, R)[j] = IF j < p THEN Times(list, rel)[j] ELSE Times(list, rel)[j + 1]
         /\ \A u \in S : u # t /\ ~Contains(list, u) => R[u] = rel[u]
<1> DEFINE T == Times(list, rel)
           m == Len(list)
           g == [j \in 0 .. m - 1 |-> IF j < p THEN T[j] ELSE T[j + 1]]
<1>1. /\ list \in Seq(S) /\ IsInjective(list) /\ rel \in [S -> Nat] /\ m \in Nat
      /\ \A j \in 1 .. m : list[j] \in S
      /\ \A i, j \in 1 .. m : list[i] = list[j] => i = j
  BY DEF Deltas, IsInjective
<1>2. p \in 1 .. m /\ list[p] = t
  BY <1>1, PlaceOK DEF UnlinkedAt
<1>3. /\ T[0] = 0 /\ \A j \in 1 .. m : T[j] = T[j - 1] + rel[list[j]]
      /\ \A j \in 0 .. m : T[j] \in Nat
  BY <1>1, TimesStep, TimesRise
<1>4. /\ L \in Seq(S) /\ Len(L) = m - 1
      /\ \A j \in 1 .. m - 1 : L[j] = IF j < p THEN list[j] ELSE list[j + 1]
  <2>1. L = RemoveFirst(list, t)
    BY DEF UnlinkedAt
  <2>2. /\ RemoveFirst(list, t) \in Seq(S) /\ Len(RemoveFirst(list, t)) = Len(list) - 1
        /\ \A j \in 1 .. Len(list) - 1 :
             RemoveFirst(list, t)[j] = IF j < p THEN list[j] ELSE list[j + 1]
    <3>1. list \in Seq(S) /\ IsInjective(list) /\ p \in 1 .. Len(list) /\ list[p] = t
      BY <1>1, <1>2
    <3> QED BY <3>1, RemovedNodes
  <2> QED BY <2>1, <2>2
<1> HIDE DEF T
<1>5. /\ R \in [S -> Nat]
      /\ p < m => p + 1 \in 1 .. m /\ R[list[p + 1]] = rel[list[p + 1]] + rel[t]
      /\ \A u \in S : u # t /\ (p < m => u # list[p + 1]) => R[u] = rel[u]
  <2>1. R = [(IF p = m THEN rel ELSE [rel EXCEPT ![list[p + 1]] = @ + rel[t]]) EXCEPT ![t] = 0]
    BY DEF UnlinkedAt, UnlinkedRel
  <2>2. CASE p = m
    <3>1. R = [rel EXCEPT ![t] = 0] /\ ~(p < m)
      BY <1>1, <1>2, <2>1, <2>2
    <3> QED BY <1>1, <3>1
  <2>3. CASE p # m
    <3>1. R = [[rel EXCEPT ![list[p + 1]] = @ + rel[t]] EXCEPT ![t] = 0]
      BY <2>1, <2>3
    <3>2. p < m /\ p + 1 \in 1 .. m /\ p + 1 # p
      BY <1>1, <1>2, <2>3
    <3>3. list[p + 1] \in S /\ list[p + 1] # t /\ rel[list[p + 1]] + rel[t] \in Nat
      <4>1. list[p + 1] \in S /\ list[p + 1] # t
        BY <1>1, <1>2, <3>2
      <4>2. rel[list[p + 1]] \in Nat /\ rel[t] \in Nat
        BY <1>1, <4>1
      <4> QED BY <4>1, <4>2
    <3> QED BY <1>1, <3>1, <3>2, <3>3
  <2> QED BY <2>2, <2>3
<1>6. IsInjective(L)
  <2>1. ASSUME NEW i \in 1 .. m - 1, NEW j \in 1 .. m - 1, L[i] = L[j] PROVE i = j
    <3> DEFINE old(l) == IF l < p THEN l ELSE l + 1
    <3>1. \A l \in 1 .. m - 1 : old(l) \in 1 .. m /\ L[l] = list[old(l)]
      <4>1. \A l \in 1 .. m - 1 : old(l) \in 1 .. m
        BY <1>1
      <4> QED BY <1>4, <4>1
    <3>2. old(i) = old(j)
      <4> HIDE DEF old
      <4> QED BY <1>1, <2>1, <3>1
    <3> QED BY <1>2, <3>2
  <2> QED BY <1>4, <2>1 DEF IsInjective
<1>7. ASSUME NEW j \in 1 .. m - 1 PROVE g[j] = g[j - 1] + R[L[j]]
  <2>1. CASE j < p
    <3>2. j # p /\ j # p + 1 /\ j - 1 < p /\ j \in 1 .. m /\ j - 1 \in 0 .. m - 1
      BY <1>1, <2>1
    <3>1. j \in 1 .. m /\ L[j] = list[j] /\ g[j] = T[j] /\ g[j - 1] = T[j - 1]
      <4>1. L[j] = list[j]
        BY <1>4, <2>1
      <4>2. j \in 0 .. m - 1 /\ j - 1 \in 0 .. m - 1
        BY <1>1, <3>2
      <4>3. g[j] = T[j]
        BY <2>1, <4>2
      <4>4. g[j - 1] = T[j - 1]
        BY <3>2, <4>2
      <4> QED BY <3>2, <4>1, <4>3, <4>4
    <3>3. list[j] \in S /\ list[j] # t /\ (p < m => list[j] # list[p + 1])
      BY <1>1, <1>2, <1>5, <3>1, <3>2
    <3> QED BY <1>3, <1>5, <3>1, <3>3
  <2>2. CASE j = p
    <3>1. p < m /\ L[j] = list[p + 1] /\ g[j] = T[p + 1] /\ g[j - 1] = T[p - 1]
      <4>1. p < m /\ j \in 1 .. m - 1 /\ ~(j < p) /\ j - 1 < p
        BY <1>1, <2>2
      <4>2. j \in 0 .. m - 1 /\ j - 1 \in 0 .. m - 1
        BY <1>1, <4>1
      <4>3. L[j] = list[j + 1]
        BY <1>4, <4>1
      <4>4. g[j] = T[j + 1]
        BY <4>1, <4>2
      <4>5. g[j - 1] = T[j - 1]
        BY <4>1, <4>2
      <4> QED BY <2>2, <4>1, <4>3, <4>4, <4>5
    <3>2. /\ p + 1 \in 1 .. m /\ T[p + 1] = T[p] + rel[list[p + 1]]
          /\ T[p] = T[p - 1] + rel[t] /\ R[L[j]] = rel[list[p + 1]] + rel[t]
      <4>1. p + 1 \in 1 .. m /\ (p + 1) - 1 = p
        BY <1>1, <3>1
      <4> QED BY <1>2, <1>3, <1>5, <3>1, <4>1
    <3>3. PICK a \in Nat, b \in Nat, c \in Nat :
            a = T[p - 1] /\ b = rel[t] /\ c = rel[list[p + 1]]
      <4>1. p - 1 \in 0 .. m
        BY <1>1
      <4>2. T[p - 1] \in Nat /\ rel[t] \in Nat /\ rel[list[p + 1]] \in Nat
        BY <1>1, <1>3, <3>2, <4>1
      <4> QED BY <4>2
    <3>4. T[p + 1] = (a + b) + c /\ R[L[j]] = c + b
      BY <3>2, <3>3
    <3>5. (a + b) + c = a + (c + b)
      OBVIOUS
    <3> QED BY <3>1, <3>3, <3>4, <3>5
  <2>3. CASE j > p
    <3>1. j + 1 \in 1 .. m /\ (j + 1) - 1 = j /\ j + 1 # p /\ j + 1 # p + 1
      BY <1>1, <2>3
    <3>2. L[j] = list[j + 1] /\ g[j] = T[j + 1] /\ g[j - 1] = T[j]
      <4>1. ~(j < p) /\ ~(j - 1 < p) /\ (j - 1) + 1 = j
        BY <1>1, <2>3
      <4>2. j \in 0 .. m - 1 /\ j - 1 \in 0 .. m - 1
        BY <1>1
      <4>3. L[j] = list[j + 1]
        BY <1>4, <4>1
      <4>4. g[j] = T[j + 1]
        BY <4>1, <4>2
      <4>5. g[j - 1] = T[(j - 1) + 1]
        BY <4>1, <4>2
      <4> QED BY <4>1, <4>3, <4>4, <4>5
    <3>3. list[j + 1] \in S /\ list[j + 1] # t /\ (p < m => list[j + 1] # list[p + 1])
      BY <1>1, <1>2, <1>5, <3>1
    <3> QED BY <1>3, <1>5, <3>1, <3>2, <3>3
  <2> QED BY <1>2, <2>1, <2>2, <2>3
<1>8. g[0] = 0 /\ m - 1 \in Nat
  BY <1>1, <1>2, <1>3
<1>9. \A j \in 0 .. m - 1 : Times(L, R)[j] = g[j]
  <2> HIDE DEF g
  <2> QED BY <1>4, <1>7, <1>8, TimesUnique
<1>10. \A u \in S : u # t /\ ~Contains(list, u) => R[u] = rel[u]
  BY <1>1, <1>5, OnList
<1> QED BY <1>2, <1>4, <1>5, <1>6, <1>9, <1>10 DEF Deltas, T

\* L and R are list and rel after the nodes with time 0 have been unlinked and
\* the first of the others has lost one.
CutAt(list, rel, p, L, R) ==
  /\ p = FirstLater(list, rel, 0) /\ L = SubSeq(list, p, Len(list))
  /\ R = IF p > Len(list) THEN rel ELSE [rel EXCEPT ![list[p]] = @ - 1]

\* The times of all nodes that stay have lost one.
LEMMA CutTimes ==
  ASSUME NEW S, NEW list, NEW rel, Deltas(S, list, rel), NEW p \in 1 .. Len(list) + 1,
         NEW L, NEW R, CutAt(list, rel, p, L, R)
  PROVE  /\ Deltas(S, L, R) /\ Len(L) = Len(list) - p + 1
         /\ \A j \in 1 .. Len(list) - p + 1 : L[j] = list[j + p - 1]
         /\ \A j \in 0 .. p - 1 : Times(list, rel)[j] = 0
         /\ \A j \in p .. Len(list) : Times(list, rel)[j] > 0
         /\ \A j \in 1 .. Len(list) - p + 1 : Times(L, R)[j] = Times(list, rel)[j + p - 1] - 1
         /\ \A u \in S : ~Contains(list, u) => R[u] = rel[u]
<1> DEFINE T == Times(list, rel)
           m == Len(list)
           n == m - p + 1
           g == [j \in 0 .. n |-> IF j = 0 THEN 0 ELSE T[j + p - 1] - 1]
<1>1. /\ list \in Seq(S) /\ IsInjective(list) /\ rel \in [S -> Nat] /\ m \in Nat
      /\ \A j \in 1 .. m : list[j] \in S
      /\ \A i, j \in 1 .. m : list[i] = list[j] => i = j
  BY DEF Deltas, IsInjective
<1>2. /\ \A j \in 0 .. p - 1 : T[j] <= 0
      /\ \A j \in p .. m : T[j] > 0
  BY FirstLaterOK DEF CutAt
<1>3. /\ T[0] = 0 /\ \A j \in 1 .. m : T[j] = T[j - 1] + rel[list[j]]
      /\ \A j \in 0 .. m : T[j] \in Nat
  BY <1>1, TimesStep, TimesRise
<1>4. L \in Seq(S) /\ Len(L) = n /\ \A j \in 1 .. n : L[j] = list[j + p - 1]
  <2>1. L = SubSeq(list, p, Len(list))
    BY DEF CutAt
  <2>2. /\ SubSeq(list, p, Len(list)) \in Seq(S)
        /\ Len(SubSeq(list, p, Len(list))) = Len(list) - p + 1
        /\ \A j \in 1 .. Len(list) - p + 1 : SubSeq(list, p, Len(list))[j] = list[j + p - 1]
    BY <1>1, CutNodes
  <2> QED BY <2>1, <2>2
<1> HIDE DEF T
<1>5. \A j \in 0 .. p - 1 : T[j] = 0
  <2>1. \A j \in 0 .. p - 1 : j \in 0 .. m
    BY <1>1
  <2> QED BY <1>2, <1>3, <2>1
<1>6. /\ R \in [S -> Nat]
      /\ p <= m => p \in 1 .. m /\ T[p] = rel[list[p]] /\ R[list[p]] = rel[list[p]] - 1
      /\ \A u \in S : (p <= m => u # list[p]) => R[u] = rel[u]
  <2>1. CASE p > m
    <3>1. R = rel /\ ~(p <= m)
      BY <1>1, <2>1 DEF CutAt
    <3> QED BY <1>1, <3>1
  <2>2. CASE ~(p > m)
    <3>1. R = [rel EXCEPT ![list[p]] = @ - 1]
      BY <2>2 DEF CutAt
    <3>2. p \in 1 .. m /\ p - 1 \in 0 .. p - 1 /\ p \in p .. m
      BY <1>1, <2>2
    <3>3. list[p] \in S /\ rel[list[p]] \in Nat /\ T[p] = rel[list[p]] /\ T[p] > 0
      <4>1. list[p] \in S /\ rel[list[p]] \in Nat /\ T[p] > 0
        BY <1>1, <1>2, <3>2
      <4>2. T[p] = T[p - 1] + rel[list[p]] /\ T[p - 1] = 0
        BY <1>3, <1>5, <3>2
      <4> QED BY <4>1, <4>2
    <3>4. rel[list[p]] - 1 \in Nat
      BY <3>3
    <3> QED BY <1>1, <3>1, <3>2, <3>3, <3>4
  <2> QED BY <2>1, <2>2
<1>7. IsInjective(L)
  <2>1. ASSUME NEW i \in 1 .. n, NEW j \in 1 .. n, L[i] = L[j] PROVE i = j
    <3>1. i + p - 1 \in 1 .. m /\ j + p - 1 \in 1 .. m
      BY <1>1
    <3>2. i + p - 1 = j + p - 1
      BY <1>1, <1>4, <2>1, <3>1
    <3> QED BY <3>2
  <2> QED BY <1>4, <2>1 DEF IsInjective
<1>8. ASSUME NEW j \in 1 .. n PROVE g[j] = g[j - 1] + R[L[j]]
  <2>1. j + p - 1 \in 1 .. m /\ j + p - 1 \in Nat /\ L[j] = list[j + p - 1] /\ list[j + p - 1] \in S
    BY <1>1, <1>4
  <2>2. CASE j = 1
    <3>1. p <= m /\ j + p - 1 = p /\ g[j] = T[p] - 1 /\ g[j - 1] = 0 /\ L[j] = list[p]
      BY <1>1, <2>1, <2>2
    <3>2. R[list[p]] = T[p] - 1 /\ T[p] \in Nat
      BY <1>1, <1>3, <1>6, <3>1
    <3> QED BY <3>1, <3>2
  <2>3. CASE j # 1
    <3>1. /\ j - 1 \in 1 .. n /\ j - 1 # 0 /\ (j - 1) + p - 1 = (j + p - 1) - 1
          /\ j + p - 1 # p /\ j - 1 \in 0 .. n /\ j \in 0 .. n
          /\ (j + p - 1) - 1 \in 0 .. m
      BY <1>1, <2>3
    <3>2. g[j] = T[j + p - 1] - 1 /\ g[j - 1] = T[(j + p - 1) - 1] - 1
      BY <3>1
    <3>3. list[j + p - 1] # list[p] \/ ~(p <= m)
      <4> SUFFICES ASSUME p <= m PROVE list[j + p - 1] # list[p]
        OBVIOUS
      <4>1. p \in 1 .. m
        BY <1>1
      <4>2. \A i \in 1 .. m : list[i] = list[p] => i = p
        BY <1>1, <4>1
      <4> HIDE DEF m
      <4> QED BY <2>1, <3>1, <4>2
    <3>4. R[L[j]] = rel[list[j + p - 1]] /\ rel[list[j + p - 1]] \in Nat
      BY <1>1, <1>6, <2>1, <3>3
    <3>5. PICK a \in Nat, b \in Nat : a = T[(j + p - 1) - 1] /\ b = rel[list[j + p - 1]]
      BY <1>3, <3>1, <3>4
    <3>6. T[j + p - 1] = a + b
      BY <1>3, <2>1, <3>5
    <3>7. (a + b) - 1 = (a - 1) + b
      OBVIOUS
    <3> QED BY <3>2, <3>4, <3>5, <3>6, <3>7
  <2> QED BY <2>2, <2>3
<1>9. g[0] = 0
  BY <1>1
<1>10. \A j \in 0 .. n : Times(L, R)[j] = g[j]
  <2> HIDE DEF g
  <2> QED BY <1>4, <1>8, <1>9, TimesUnique
<1>11. \A j \in 1 .. n : Times(L, R)[j] = T[j + p - 1] - 1
  BY <1>1, <1>10
<1>12. \A u \in S : ~Contains(list, u) => R[u] = rel[u]
  BY <1>1, <1>6, OnList
<1> QED BY <1>2, <1>4, <1>5, <1>6, <1>7, <1>11, <1>12 DEF Deltas, T

\* R is rel after the first node of list has been counted down.
HeadAt(list, rel, R) == R = [rel EXCEPT ![list[1]] = @ - 1]

\* The first node of a list loses one: all times do.
LEMMA HeadTimes ==
  ASSUME NEW S, NEW list, NEW rel, Deltas(S, list, rel), list # <<>>, rel[list[1]] > 0,
         NEW R, HeadAt(list, rel, R)
  PROVE  /\ Deltas(S, list, R)
         /\ \A j \in 1 .. Len(list) : Times(list, R)[j] = Times(list, rel)[j] - 1
<1> DEFINE T == Times(list, rel)
           m == Len(list)
           g == [j \in 0 .. m |-> IF j = 0 THEN 0 ELSE T[j] - 1]
<1>1. /\ list \in Seq(S) /\ IsInjective(list) /\ rel \in [S -> Nat] /\ m \in Nat /\ 1 \in 1 .. m
      /\ \A j \in 1 .. m : list[j] \in S
      /\ \A i, j \in 1 .. m : list[i] = list[j] => i = j
  BY DEF Deltas, IsInjective
<1>2. /\ T[0] = 0 /\ \A j \in 1 .. m : T[j] = T[j - 1] + rel[list[j]]
      /\ \A j \in 0 .. m : T[j] \in Nat
  BY <1>1, TimesStep, TimesRise
<1> HIDE DEF T
<1>3. rel[list[1]] - 1 \in Nat /\ list[1] \in S
  BY <1>1
<1>4. R \in [S -> Nat] /\ R[list[1]] = rel[list[1]] - 1 /\ \A u \in S \ {list[1]} : R[u] = rel[u]
  BY <1>1, <1>3 DEF HeadAt
<1>5. ASSUME NEW j \in 1 .. m PROVE g[j] = g[j - 1] + R[list[j]]
  <2>1. CASE j = 1
    <3>1. g[j] = T[1] - 1 /\ g[j - 1] = 0 /\ T[1] = rel[list[1]] /\ rel[list[1]] \in Nat
      BY <1>1, <1>2, <2>1
    <3> QED BY <1>4, <2>1, <3>1
  <2>2. CASE j # 1
    <3>1. j - 1 \in 0 .. m /\ j - 1 # 0 /\ j \in 0 .. m /\ list[j] \in S \ {list[1]}
      BY <1>1, <2>2
    <3>2. PICK a \in Nat, b \in Nat : a = T[j - 1] /\ b = rel[list[j]]
      BY <1>1, <1>2, <3>1
    <3>3. g[j] = (a + b) - 1 /\ g[j - 1] = a - 1 /\ R[list[j]] = b
      BY <1>2, <1>4, <3>1, <3>2
    <3> QED BY <3>3
  <2> QED BY <2>1, <2>2
<1>6. g[0] = 0
  BY <1>1
<1>7. \A j \in 0 .. m : Times(list, R)[j] = g[j]
  <2> HIDE DEF g
  <2> QED BY <1>1, <1>5, <1>6, TimesUnique
<1>8. \A j \in 1 .. m : Times(list, R)[j] = T[j] - 1
  BY <1>1, <1>7
<1>9. Deltas(S, list, R)
  BY <1>1, <1>4 DEF Deltas
<1> QED BY <1>8, <1>9 DEF T

\* L is list after its first node has been taken off.
TailAt(list, L) == L = Tail(list)

\* The first node of a list, with time 0, is taken off.
LEMMA TailTimes ==
  ASSUME NEW S, NEW list, NEW rel, Deltas(S, list, rel), list # <<>>, rel[list[1]] = 0,
         NEW L, TailAt(list, L)
  PROVE  /\ Deltas(S, L, rel) /\ Len(L) = Len(list) - 1
         /\ \A j \in 1 .. Len(list) - 1 : L[j] = list[j + 1]
         /\ \A j \in 0 .. Len(list) - 1 : Times(L, rel)[j] = Times(list, rel)[j + 1]
<1> DEFINE T == Times(list, rel)
           m == Len(list)
           g == [j \in 0 .. m - 1 |-> T[j + 1]]
<1>1. /\ list \in Seq(S) /\ IsInjective(list) /\ rel \in [S -> Nat] /\ m \in Nat /\ 1 \in 1 .. m
      /\ \A j \in 1 .. m : list[j] \in S
      /\ \A i, j \in 1 .. m : list[i] = list[j] => i = j
  BY DEF Deltas, IsInjective
<1>2. /\ T[0] = 0 /\ \A j \in 1 .. m : T[j] = T[j - 1] + rel[list[j]]
      /\ \A j \in 0 .. m : T[j] \in Nat
  BY <1>1, TimesStep, TimesRise
<1>3. L \in Seq(S) /\ Len(L) = m - 1 /\ \A j \in 1 .. m - 1 : L[j] = list[j + 1]
  BY <1>1 DEF TailAt
<1> HIDE DEF T
<1>4. IsInjective(L)
  <2>1. ASSUME NEW i \in 1 .. m - 1, NEW j \in 1 .. m - 1, L[i] = L[j] PROVE i = j
    <3>1. i + 1 \in 1 .. m /\ j + 1 \in 1 .. m
      BY <1>1
    <3>2. i + 1 = j + 1
      BY <1>1, <1>3, <2>1, <3>1
    <3> QED BY <3>2
  <2> QED BY <1>3, <2>1 DEF IsInjective
<1>5. ASSUME NEW j \in 1 .. m - 1 PROVE g[j] = g[j - 1] + rel[L[j]]
  <2>1. j + 1 \in 1 .. m /\ (j + 1) - 1 = j /\ j \in 0 .. m - 1 /\ j - 1 \in 0 .. m - 1
    BY <1>1
  <2>2. g[j] = T[j + 1] /\ g[j - 1] = T[j] /\ L[j] = list[j + 1]
    BY <1>3, <2>1
  <2> QED BY <1>2, <2>1, <2>2
<1>6. g[0] = 0 /\ m - 1 \in Nat
  <2>1. g[0] = T[1] /\ m - 1 \in Nat
    BY <1>1
  <2> QED BY <1>1, <1>2, <2>1
<1>7. \A j \in 0 .. m - 1 : Times(L, rel)[j] = g[j]
  <2>1. L \in Seq(S) /\ \A j \in 1 .. Len(L) : g[j] = g[j - 1] + rel[L[j]]
    BY <1>3, <1>5
  <2>2. g[0] = 0
    BY <1>6
  <2> HIDE DEF g
  <2>3. \A j \in 0 .. Len(L) : Times(L, rel)[j] = g[j]
    BY <2>1, <2>2, TimesUnique
  <2> QED BY <1>3, <2>3
<1> QED BY <1>1, <1>3, <1>4, <1>7 DEF Deltas, T

-----------------------------------------------------------------------------
(* Filters                                                                 *)

\* f keeps, of the first n members of s, those in P.
IsKept(s, P, n, f) ==
  f = [j \in 0 .. n |->
        IF j = 0 THEN <<>> ELSE IF s[j] \in P THEN Append(f[j - 1], s[j]) ELSE f[j - 1]]

\* The function that keeps them is the recursive function of the source.
LEMMA KeptDef ==
  ASSUME NEW s, NEW P
  PROVE  Kept(s, P) = (CHOOSE f : IsKept(s, P, Len(s), f))[Len(s)]
BY DEF Kept, IsKept

\* There is such a function.
LEMMA KeptExist ==
  ASSUME NEW s, NEW P
  PROVE  \A n \in Nat : \E f : IsKept(s, P, n, f)
<1> DEFINE S == {n \in Nat : \E f : IsKept(s, P, n, f)}
           Step(j, x) == IF s[j] \in P THEN Append(x, s[j]) ELSE x
<1>1. 0 \in S
  <2> DEFINE f == [j \in 0 .. 0 |-> <<>>]
  <2>1. IsKept(s, P, 0, f)
    BY DEF IsKept
  <2> QED BY <2>1
<1>2. ASSUME NEW n \in Nat, n \in S PROVE n + 1 \in S
  <2>1. PICK g : IsKept(s, P, n, g)
    BY <1>2
  <2> DEFINE h == [j \in 0 .. n + 1 |-> IF j = n + 1 THEN Step(j, g[n]) ELSE g[j]]
  <2>2. \A j \in 0 .. n : g[j] = IF j = 0 THEN <<>> ELSE Step(j, g[j - 1])
    BY <2>1 DEF IsKept
  <2>3. ASSUME NEW j \in 0 .. n + 1
        PROVE  h[j] = IF j = 0 THEN <<>> ELSE Step(j, h[j - 1])
    <3> HIDE DEF Step
    <3>1. CASE j = n + 1
      BY <3>1
    <3>2. CASE j # n + 1
      <4>1. j \in 0 .. n /\ h[j] = g[j] /\ (j # 0 => j - 1 \in 0 .. n /\ h[j - 1] = g[j - 1])
        BY <3>2
      <4> QED BY <4>1, <2>2
    <3> QED BY <3>1, <3>2
  <2>4. IsKept(s, P, n + 1, h)
    BY <2>3 DEF IsKept
  <2> QED BY <2>4
<1> HIDE DEF S
<1>3. \A n \in Nat : n \in S
  BY <1>1, <1>2, Induct
<1> QED BY <1>3 DEF S

\* f leads from the places of r to those of the first n members of s that are in
\* P, and keeps their order.
Picks(s, P, n, r, f) ==
  /\ f \in [1 .. Len(r) -> 1 .. n]
  /\ \A i \in 1 .. Len(r) : r[i] = s[f[i]] /\ s[f[i]] \in P
  /\ \A i, j \in 1 .. Len(r) : i < j => f[i] < f[j]
  /\ \A l \in 1 .. n : s[l] \in P => \E i \in 1 .. Len(r) : f[i] = l

\* Kept picks the members in P.
LEMMA KeptPicks ==
  ASSUME NEW S, NEW s \in Seq(S), NEW P
  PROVE  Kept(s, P) \in Seq(S) /\ \E f : Picks(s, P, Len(s), Kept(s, P), f)
<1> DEFINE m == Len(s)
<1>1. PICK g : IsKept(s, P, m, g) /\ Kept(s, P) = g[m]
  <2>1. m \in Nat
    OBVIOUS
  <2> QED BY <2>1, KeptExist, KeptDef
<1>2. \A j \in 0 .. m : g[j] = IF j = 0 THEN <<>>
                               ELSE IF s[j] \in P THEN Append(g[j - 1], s[j]) ELSE g[j - 1]
  BY <1>1 DEF IsKept
<1> DEFINE Q == {n \in Nat : n <= m => g[n] \in Seq(S) /\ \E f : Picks(s, P, n, g[n], f)}
<1>3. 0 \in Q
  <2>1. g[0] = <<>>
    BY <1>2
  <2>2. Picks(s, P, 0, <<>>, [i \in 1 .. 0 |-> 0])
    BY DEF Picks
  <2>3. g[0] \in Seq(S) /\ \E f : Picks(s, P, 0, g[0], f)
    BY <2>1, <2>2
  <2> QED BY <2>3
<1>4. ASSUME NEW n \in Nat, n \in Q PROVE n + 1 \in Q
  <2> SUFFICES ASSUME n + 1 <= m
               PROVE  g[n + 1] \in Seq(S) /\ \E f : Picks(s, P, n + 1, g[n + 1], f)
    OBVIOUS
  <2>1. n <= m /\ n + 1 \in 0 .. m /\ n + 1 # 0 /\ (n + 1) - 1 = n /\ s[n + 1] \in S
    OBVIOUS
  <2>2. g[n] \in Seq(S)
    BY <1>4, <2>1
  <2>3. PICK f : Picks(s, P, n, g[n], f)
    BY <1>4, <2>1
  <2> DEFINE r == g[n]
             k == Len(r)
  <2>4. /\ r \in Seq(S) /\ k \in Nat /\ f \in [1 .. k -> 1 .. n]
        /\ \A i \in 1 .. k : r[i] = s[f[i]] /\ s[f[i]] \in P
        /\ \A i, j \in 1 .. k : i < j => f[i] < f[j]
        /\ \A l \in 1 .. n : s[l] \in P => \E i \in 1 .. k : f[i] = l
    BY <2>2, <2>3 DEF Picks
  <2>5. CASE s[n + 1] \in P
    <3> DEFINE q == Append(r, s[n + 1])
               h == [i \in 1 .. k + 1 |-> IF i = k + 1 THEN n + 1 ELSE f[i]]
    <3>1. g[n + 1] = q
      BY <1>2, <2>1, <2>5
    <3>2. q \in Seq(S) /\ Len(q) = k + 1 /\ \A i \in 1 .. k + 1 : q[i] = IF i = k + 1 THEN s[n + 1] ELSE r[i]
      BY <2>1, <2>4
    <3> HIDE DEF q, r, k
    <3>3. \A i \in 1 .. k + 1 : i # k + 1 => i \in 1 .. k
      BY <2>4
    <3>4. h \in [1 .. k + 1 -> 1 .. n + 1]
      <4>1. ASSUME NEW i \in 1 .. k + 1 PROVE h[i] \in 1 .. n + 1
        <5>1. CASE i = k + 1
          BY <5>1
        <5>2. CASE i # k + 1
          BY <2>4, <3>3, <5>2
        <5> QED BY <5>1, <5>2
      <4> QED BY <4>1
    <3>5. \A i \in 1 .. k + 1 : q[i] = s[h[i]] /\ s[h[i]] \in P
      BY <2>4, <2>5, <3>2, <3>3
    <3>6. ASSUME NEW i \in 1 .. k + 1, NEW j \in 1 .. k + 1, i < j PROVE h[i] < h[j]
      <4>1. i \in 1 .. k /\ h[i] = f[i] /\ f[i] \in 1 .. n
        BY <2>4, <3>3, <3>6
      <4>2. CASE j = k + 1
        BY <4>1, <4>2
      <4>3. CASE j # k + 1
        BY <2>4, <3>3, <3>6, <4>1, <4>3
      <4> QED BY <4>2, <4>3
    <3>7. ASSUME NEW l \in 1 .. n + 1, s[l] \in P PROVE \E i \in 1 .. k + 1 : h[i] = l
      <4>1. CASE l = n + 1
        <5>1. k + 1 \in 1 .. k + 1 /\ h[k + 1] = n + 1
          BY <2>4
        <5> QED BY <4>1, <5>1
      <4>2. CASE l # n + 1
        <5>1. PICK i \in 1 .. k : f[i] = l
          BY <2>4, <3>7, <4>2
        <5> QED BY <2>4, <5>1
      <4> QED BY <4>1, <4>2
    <3>8. Picks(s, P, n + 1, q, h)
      <4> HIDE DEF h
      <4> QED BY <3>2, <3>4, <3>5, <3>6, <3>7 DEF Picks
    <3> QED BY <3>1, <3>2, <3>8
  <2>6. CASE s[n + 1] \notin P
    <3>1. g[n + 1] = r
      BY <1>2, <2>1, <2>6
    <3>2. f \in [1 .. k -> 1 .. n + 1]
      BY <2>4
    <3>3. \A l \in 1 .. n + 1 : s[l] \in P => l \in 1 .. n
      BY <2>6
    <3>4. Picks(s, P, n + 1, r, f)
      BY <2>4, <3>2, <3>3 DEF Picks
    <3> QED BY <2>4, <3>1, <3>4
  <2> QED BY <2>5, <2>6
<1> HIDE DEF Q
<1>5. \A n \in Nat : n \in Q
  BY <1>3, <1>4, Induct
<1>6. m \in Nat /\ m <= m
  OBVIOUS
<1>7. g[m] \in Seq(S) /\ \E f : Picks(s, P, m, g[m], f)
  BY <1>5, <1>6 DEF Q
<1> QED BY <1>1, <1>7

\* The members of r stand in the order that they have in s.
Ordered(s, r) == \A i, j \in 1 .. Len(r) : i < j => Place(s, r[i]) < Place(s, r[j])

\* Kept keeps the members in P, each once, in their order.
LEMMA KeptOK ==
  ASSUME NEW S, NEW s \in Seq(S), NEW P, IsInjective(s)
  PROVE  /\ Kept(s, P) \in Seq(S) /\ IsInjective(Kept(s, P))
         /\ \A e : Contains(Kept(s, P), e) <=> Contains(s, e) /\ e \in P
         /\ Ordered(s, Kept(s, P))
<1> DEFINE m == Len(s)
           r == Kept(s, P)
           k == Len(r)
<1>1. r \in Seq(S) /\ k \in Nat /\ m \in Nat
  BY KeptPicks
<1>2. PICK f : Picks(s, P, m, r, f)
  BY KeptPicks
<1>3. /\ f \in [1 .. k -> 1 .. m]
      /\ \A i \in 1 .. k : r[i] = s[f[i]] /\ s[f[i]] \in P
      /\ \A i, j \in 1 .. k : i < j => f[i] < f[j]
      /\ \A l \in 1 .. m : s[l] \in P => \E i \in 1 .. k : f[i] = l
  BY <1>2 DEF Picks
<1>4. \A i \in 1 .. m : Place(s, s[i]) = i
  BY PlaceOK
<1> HIDE DEF r, k, m
<1>5. \A i \in 1 .. k : f[i] \in 1 .. m /\ Place(s, r[i]) = f[i]
  BY <1>3, <1>4
<1>6. \A i, j \in 1 .. k : i < j => Place(s, r[i]) < Place(s, r[j])
  BY <1>3, <1>5
<1>7. \A i, j \in 1 .. k : r[i] = r[j] => i = j
  <2> SUFFICES ASSUME NEW i \in 1 .. k, NEW j \in 1 .. k, r[i] = r[j], i # j PROVE FALSE
    OBVIOUS
  <2>1. f[i] = f[j] /\ f[i] \in Nat
    BY <1>5
  <2>2. i < j \/ j < i
    BY <1>1
  <2> QED BY <1>3, <2>1, <2>2
<1>8. ASSUME NEW e PROVE Contains(r, e) <=> Contains(s, e) /\ e \in P
  <2>1. Contains(r, e) <=> \E i \in 1 .. k : r[i] = e
    BY DEF Contains, k
  <2>2. Contains(s, e) <=> \E i \in 1 .. m : s[i] = e
    BY DEF Contains, m
  <2>3. ASSUME NEW i \in 1 .. k, r[i] = e PROVE Contains(s, e) /\ e \in P
    BY <1>3, <2>2, <2>3
  <2>4. ASSUME NEW l \in 1 .. m, s[l] = e, e \in P PROVE Contains(r, e)
    BY <1>3, <2>1, <2>4
  <2> QED BY <2>1, <2>2, <2>3, <2>4
<1>9. IsInjective(r)
  BY <1>1, <1>7 DEF IsInjective, k
<1> QED BY <1>1, <1>6, <1>8, <1>9 DEF Ordered, r, k

\* Half of what follows: whatever is in a is in b, at the same place.
LEMMA OrderHalf ==
  ASSUME NEW S, NEW s \in Seq(S), NEW a \in Seq(S), NEW b \in Seq(S),
         \A e : Contains(a, e) <=> Contains(b, e), Ordered(s, a), Ordered(s, b)
  PROVE  Len(a) <= Len(b) /\ \A i \in 1 .. Len(a) : a[i] = b[i]
<1> DEFINE Q == {n \in Nat : \A i \in 1 .. n : i <= Len(a) => i <= Len(b) /\ a[i] = b[i]}
           pos(e) == Place(s, e)
<1>1. Len(a) \in Nat /\ Len(b) \in Nat
  OBVIOUS
<1>2. /\ \A i, j \in 1 .. Len(a) : i < j => pos(a[i]) < pos(a[j])
      /\ \A i, j \in 1 .. Len(b) : i < j => pos(b[i]) < pos(b[j])
  BY DEF Ordered
<1>3. \A e : pos(e) \in Nat
  <2> SUFFICES ASSUME NEW e PROVE Place(s, e) \in Nat
    OBVIOUS
  <2> DEFINE I == {i \in 1 .. Len(s) : s[i] = e}
  <2>1. I \in SUBSET Nat /\ Place(s, e) = IF I # {} THEN Min(I) ELSE 0
    BY DEF Place, SelectInSeq
  <2>2. I # {} => Min(I) \in I
    <3> HIDE DEF I
    <3> QED BY <2>1, MinNat
  <2> QED BY <2>1, <2>2
<1>4. /\ \A i \in 1 .. Len(a) : \E j \in 1 .. Len(b) : a[i] = b[j]
      /\ \A i \in 1 .. Len(b) : \E j \in 1 .. Len(a) : b[i] = a[j]
  BY DEF Contains
<1> HIDE DEF pos
<1>5. 0 \in Q
  OBVIOUS
<1>6. ASSUME NEW n \in Nat, n \in Q PROVE n + 1 \in Q
  <2> SUFFICES ASSUME n + 1 <= Len(a) PROVE n + 1 <= Len(b) /\ a[n + 1] = b[n + 1]
    BY <1>6
  <2>1. n + 1 \in 1 .. Len(a)
    BY <1>1
  <2>2. \A i \in 1 .. n : i \in 1 .. Len(a) /\ i \in 1 .. Len(b) /\ a[i] = b[i]
    BY <1>1, <1>6, <2>1
  <2>3. PICK l \in 1 .. Len(b) : a[n + 1] = b[l]
    BY <1>4, <2>1
  <2>4. ~(l \in 1 .. n)
    <3> SUFFICES ASSUME l \in 1 .. n PROVE FALSE
      OBVIOUS
    <3>1. a[l] = a[n + 1] /\ l \in 1 .. Len(a) /\ l < n + 1
      BY <2>2, <2>3
    <3>2. pos(a[l]) < pos(a[n + 1])
      BY <1>2, <2>1, <3>1
    <3> QED BY <1>3, <3>1, <3>2
  <2>5. n + 1 \in 1 .. Len(b) /\ n + 1 <= l
    BY <1>1, <2>4
  <2>6. ASSUME n + 1 # l PROVE FALSE
    <3>1. PICK q \in 1 .. Len(a) : b[n + 1] = a[q]
      BY <1>4, <2>5
    <3>2. pos(a[q]) < pos(a[n + 1])
      <4>1. n + 1 < l
        BY <2>5, <2>6
      <4>2. pos(b[n + 1]) < pos(b[l])
        BY <1>2, <2>5, <4>1
      <4> QED BY <2>3, <3>1, <4>2
    <3>3. q \in 1 .. n
      <4> SUFFICES ASSUME q >= n + 1 PROVE FALSE
        BY <1>1
      <4>1. q = n + 1 \/ n + 1 < q
        BY <1>1
      <4>2. pos(a[q]) = pos(a[n + 1]) \/ pos(a[n + 1]) < pos(a[q])
        BY <1>2, <2>1, <4>1
      <4> QED BY <1>3, <3>2, <4>2
    <3>4. b[q] = b[n + 1] /\ q \in 1 .. Len(b) /\ q < n + 1
      BY <2>2, <3>1, <3>3
    <3>5. pos(b[q]) < pos(b[n + 1])
      BY <1>2, <2>5, <3>4
    <3> QED BY <1>3, <3>4, <3>5
  <2> QED BY <1>1, <2>3, <2>5, <2>6
<1> HIDE DEF Q
<1>7. \A n \in Nat : n \in Q
  BY <1>5, <1>6, Induct
<1>8. \A i \in 1 .. Len(a) : i <= Len(b) /\ a[i] = b[i]
  <2>1. Len(a) \in Q
    BY <1>1, <1>7
  <2> QED BY <1>1, <2>1 DEF Q
<1>9. Len(a) <= Len(b)
  <2>1. CASE Len(a) = 0
    BY <1>1, <2>1
  <2>2. CASE Len(a) # 0
    <3>1. Len(a) \in 1 .. Len(a)
      BY <1>1, <2>2
    <3> QED BY <1>8, <3>1
  <2> QED BY <2>1, <2>2
<1> QED BY <1>8, <1>9

\* Two lists with the same members in the same order are equal.
LEMMA SameOrder ==
  ASSUME NEW S, NEW s \in Seq(S), NEW a \in Seq(S), NEW b \in Seq(S),
         \A e : Contains(a, e) <=> Contains(b, e), Ordered(s, a), Ordered(s, b)
  PROVE  a = b
<1>1. Len(a) <= Len(b) /\ \A i \in 1 .. Len(a) : a[i] = b[i]
  BY OrderHalf
<1>2. Len(b) <= Len(a)
  BY OrderHalf
<1>3. Len(a) = Len(b)
  BY <1>1, <1>2
<1> QED BY <1>1, <1>3, SeqEqual

\* Division with a remainder.
LEMMA DivMod ==
  ASSUME NEW a \in Nat, NEW b \in Nat \ {0}
  PROVE  /\ a \div b \in Nat /\ a % b \in 0 .. b - 1
         /\ a = (a \div b) * b + (a % b)
BY SMT

\* There is only one.
LEMMA DivModOne ==
  ASSUME NEW b \in Nat \ {0}, NEW q \in Nat, NEW r \in 0 .. b - 1
  PROVE  (q * b + r) % b = r /\ (q * b + r) \div b = q
<1> DEFINE a == q * b + r
           q2 == a \div b
           r2 == a % b
<1>1. q * b \in Nat /\ a \in Nat
  OBVIOUS
<1>2. q2 \in Nat /\ r2 \in 0 .. b - 1 /\ a = q2 * b + r2
  BY <1>1, DivMod
<1> HIDE DEF q2, r2
<1>3. q2 = q
  <2>1. ASSUME NEW x \in Nat, NEW y \in Nat, NEW s \in 0 .. b - 1, NEW t \in 0 .. b - 1,
               x * b + s = y * b + t, x < y PROVE FALSE
    <3>1. PICK d \in Nat : y = x + 1 + d
      <4>1. y - x - 1 \in Nat /\ y = x + 1 + (y - x - 1)
        BY <2>1
      <4> QED BY <4>1
    <3>2. y * b = x * b + b + d * b /\ d * b \in Nat /\ x * b \in Nat
      BY <3>1
    <3>3. PICK u \in Nat, v \in Nat : u = x * b /\ v = d * b
      BY <3>2
    <3>4. u + s = u + b + v + t
      BY <2>1, <3>2, <3>3
    <3> QED BY <3>3, <3>4
  <2> QED BY <1>1, <1>2, <2>1
<1>4. r2 = r
  <2>1. PICK u \in Nat : u = q * b
    BY <1>1
  <2> QED BY <1>2, <1>3, <2>1
<1> QED BY <1>3, <1>4 DEF q2, r2

\* u stands in front of v.
Before(s, u, v) == Place(s, u) < Place(s, v)

\* The time of a node on the list, by its place.
LEMMA TimeAt ==
  ASSUME NEW S, NEW list, NEW rel, Deltas(S, list, rel)
  PROVE  /\ \A j \in 1 .. Len(list) : TimeOf(list, rel, list[j]) = Times(list, rel)[j]
         /\ \A u : TimeOf(list, rel, u) \in Nat
         /\ \A u : ~Contains(list, u) => TimeOf(list, rel, u) = 0
<1>1. list \in Seq(S) /\ IsInjective(list) /\ Len(list) \in Nat
  BY DEF Deltas
<1>2. /\ \A i \in 1 .. Len(list) : Place(list, list[i]) = i
      /\ \A u : Contains(list, u) => Place(list, u) \in 1 .. Len(list)
      /\ \A u : ~Contains(list, u) => Place(list, u) = 0
  BY <1>1, PlaceOK
<1>3. Times(list, rel)[0] = 0 /\ \A j \in 0 .. Len(list) : Times(list, rel)[j] \in Nat
  BY <1>1, TimesStep, TimesRise
<1> QED BY <1>1, <1>2, <1>3 DEF TimeOf

\* Linking a node, by members: it has its time, the others keep theirs and their
\* order, and it comes behind those that are not later.
LEMMA LinkedOf ==
  ASSUME NEW S, NEW list, NEW rel, Deltas(S, list, rel), NEW t \in S, ~Contains(list, t),
         NEW n \in Nat, NEW p, NEW L, NEW R, LinkedAt(list, rel, t, n, p, L, R)
  PROVE  /\ Deltas(S, L, R)
         /\ \A u : Contains(L, u) <=> u = t \/ Contains(list, u)
         /\ TimeOf(L, R, t) = n
         /\ \A u : Contains(list, u) => TimeOf(L, R, u) = TimeOf(list, rel, u)
         /\ \A u, v : Contains(list, u) /\ Contains(list, v) =>
              (Before(L, u, v) <=> Before(list, u, v))
         /\ \A u : Contains(list, u) => (Before(L, u, t) <=> TimeOf(list, rel, u) <= n)
         /\ \A u \in S : u # t /\ ~Contains(list, u) => R[u] = rel[u]
<1> DEFINE m == Len(list)
           to(i) == IF i < p THEN i ELSE i + 1
<1>1. p \in 1 .. m + 1 /\ list \in Seq(S) /\ IsInjective(list) /\ m \in Nat
  BY FirstLaterOK DEF LinkedAt, Deltas
<1>2. /\ Deltas(S, L, R) /\ Len(L) = m + 1
      /\ \A j \in 0 .. m + 1 :
           Times(L, R)[j] = IF j < p THEN Times(list, rel)[j]
                            ELSE IF j = p THEN n ELSE Times(list, rel)[j - 1]
      /\ \A u \in S : u # t /\ ~Contains(list, u) => R[u] = rel[u]
  BY <1>1, LinkedTimes
<1>3. L \in Seq(S) /\ IsInjective(L)
  BY <1>2 DEF Deltas
<1>4. \A j \in 1 .. m + 1 : L[j] = IF j < p THEN list[j] ELSE IF j = p THEN t ELSE list[j - 1]
  <2>1. L = Linked(list, t, p)
    BY DEF LinkedAt
  <2>2. \A j \in 1 .. Len(list) + 1 :
          Linked(list, t, p)[j] = IF j < p THEN list[j] ELSE IF j = p THEN t ELSE list[j - 1]
    BY <1>1, LinkedNodes
  <2> QED BY <2>1, <2>2
<1>5. L[p] = t /\ Place(L, t) = p /\ TimeOf(L, R, t) = n /\ p \in 1 .. m + 1
  <2>1. L[p] = t /\ p \in 1 .. Len(L)
    BY <1>1, <1>2, <1>4
  <2>2. Place(L, L[p]) = p
    BY <1>3, <2>1, PlaceOK
  <2> QED BY <1>1, <1>2, <2>1, <2>2 DEF TimeOf
<1>6. ASSUME NEW i \in 1 .. m
      PROVE  /\ to(i) \in 1 .. m + 1 /\ L[to(i)] = list[i] /\ Place(L, list[i]) = to(i)
             /\ Place(list, list[i]) = i /\ TimeOf(L, R, list[i]) = Times(list, rel)[i]
             /\ TimeOf(list, rel, list[i]) = Times(list, rel)[i]
  <2>1. to(i) \in 1 .. m + 1
    BY <1>1
  <2>2. L[to(i)] = list[i]
    BY <1>1, <1>4
  <2>3. Place(L, L[to(i)]) = to(i)
    <3> HIDE DEF to
    <3> QED BY <1>2, <1>3, <2>1, PlaceOK
  <2>4. TimeOf(L, R, list[i]) = Times(L, R)[to(i)]
    BY <2>2, <2>3 DEF TimeOf
  <2>5. Times(L, R)[to(i)] = Times(list, rel)[i]
    BY <1>1, <1>2
  <2>6. Place(list, list[i]) = i /\ TimeOf(list, rel, list[i]) = Times(list, rel)[i]
    BY <1>1, PlaceOK, TimeAt
  <2> QED BY <2>1, <2>2, <2>3, <2>4, <2>5, <2>6
<1>7. \A u : Contains(list, u) <=> \E i \in 1 .. m : list[i] = u
  BY <1>1, OnList
<1>8. \A i, j \in 1 .. m : to(i) < to(j) <=> i < j
  BY <1>1
<1>9. \A i \in 1 .. m : to(i) < p <=> i < p
  BY <1>1
<1>10. \A i \in 1 .. m : i < p <=> Times(list, rel)[i] <= n
  <2>1. /\ \A j \in 0 .. p - 1 : Times(list, rel)[j] <= n
        /\ \A j \in p .. m : Times(list, rel)[j] > n
    BY FirstLaterOK DEF LinkedAt
  <2>2. \A j \in 0 .. m : Times(list, rel)[j] \in Nat
    BY TimesRise
  <2> QED BY <1>1, <2>1, <2>2
<1> HIDE DEF to
<1>11. \A u : Contains(list, u) => TimeOf(L, R, u) = TimeOf(list, rel, u)
  BY <1>6, <1>7
<1>12. ASSUME NEW u, NEW v, Contains(list, u), Contains(list, v)
       PROVE  Before(L, u, v) <=> Before(list, u, v)
  <2>1. PICK i \in 1 .. m, j \in 1 .. m : list[i] = u /\ list[j] = v
    BY <1>7, <1>12
  <2>2. /\ Place(L, u) = to(i) /\ Place(L, v) = to(j)
        /\ Place(list, u) = i /\ Place(list, v) = j
    BY <1>6, <2>1
  <2> QED BY <1>8, <2>2 DEF Before
<1>13. ASSUME NEW u, Contains(list, u) PROVE Before(L, u, t) <=> TimeOf(list, rel, u) <= n
  <2>1. PICK i \in 1 .. m : list[i] = u
    BY <1>7, <1>13
  <2>2. Place(L, u) = to(i) /\ TimeOf(list, rel, u) = Times(list, rel)[i]
    BY <1>6, <2>1
  <2> QED BY <1>5, <1>9, <1>10, <2>2 DEF Before
<1>14. ASSUME NEW u PROVE Contains(L, u) <=> u = t \/ Contains(list, u)
  <2>1. Contains(L, u) <=> \E j \in 1 .. m + 1 : L[j] = u
    BY <1>2, <1>3, OnList
  <2>2. ASSUME NEW j \in 1 .. m + 1, L[j] = u PROVE u = t \/ Contains(list, u)
    <3>1. j < p => j \in 1 .. m
      BY <1>1
    <3>2. j > p => j - 1 \in 1 .. m
      BY <1>1
    <3>3. j < p \/ j = p \/ (j > p /\ ~(j < p) /\ j # p)
      BY <1>1
    <3> QED BY <1>4, <1>7, <2>2, <3>1, <3>2, <3>3
  <2>3. u = t => Contains(L, u)
    BY <1>5, <2>1
  <2>4. Contains(list, u) => Contains(L, u)
    BY <1>6, <1>7, <2>1
  <2> QED BY <2>1, <2>2, <2>3, <2>4
<1> QED BY <1>2, <1>5, <1>11, <1>12, <1>13, <1>14

\* Unlinking a node, by members: the others keep their times and their order.
LEMMA UnlinkedOf ==
  ASSUME NEW S, NEW list, NEW rel, Deltas(S, list, rel), NEW t \in S, Contains(list, t),
         NEW p, NEW L, NEW R, UnlinkedAt(list, rel, t, p, L, R)
  PROVE  /\ Deltas(S, L, R)
         /\ \A u : Contains(L, u) <=> u # t /\ Contains(list, u)
         /\ \A u : Contains(L, u) => TimeOf(L, R, u) = TimeOf(list, rel, u)
         /\ \A u, v : Contains(L, u) /\ Contains(L, v) =>
              (Before(L, u, v) <=> Before(list, u, v))
         /\ \A u \in S : u # t /\ ~Contains(list, u) => R[u] = rel[u]
<1> DEFINE m == Len(list)
           from(j) == IF j < p THEN j ELSE j + 1
<1>1. p \in 1 .. m /\ list \in Seq(S) /\ IsInjective(list) /\ m \in Nat
  <2>1. list \in Seq(S) /\ IsInjective(list) /\ m \in Nat
    BY DEF Deltas
  <2> QED BY <2>1, PlaceOK DEF UnlinkedAt
<1>2. /\ Deltas(S, L, R) /\ Len(L) = m - 1 /\ list[p] = t
      /\ \A j \in 1 .. m - 1 : L[j] = IF j < p THEN list[j] ELSE list[j + 1]
      /\ \A j \in 0 .. m - 1 :
           Times(L, R)[j] = IF j < p THEN Times(list, rel)[j] ELSE Times(list, rel)[j + 1]
      /\ \A u \in S : u # t /\ ~Contains(list, u) => R[u] = rel[u]
  BY <1>1, UnlinkedTimes
<1>3. L \in Seq(S) /\ IsInjective(L)
  BY <1>2 DEF Deltas
<1>6. ASSUME NEW j \in 1 .. m - 1
      PROVE  /\ from(j) \in 1 .. m /\ from(j) # p /\ L[j] = list[from(j)]
             /\ Place(L, L[j]) = j /\ Place(list, L[j]) = from(j)
             /\ TimeOf(L, R, L[j]) = TimeOf(list, rel, L[j])
  <2>1. from(j) \in 1 .. m /\ from(j) # p
    BY <1>1
  <2>2. L[j] = list[from(j)] /\ Times(L, R)[j] = Times(list, rel)[from(j)]
    <3>1. L[j] = list[from(j)]
      BY <1>2
    <3>2. j \in 0 .. m - 1
      BY <1>1
    <3> QED BY <1>2, <3>1, <3>2
  <2>3. Place(L, L[j]) = j
    BY <1>2, <1>3, PlaceOK
  <2>4. Place(list, list[from(j)]) = from(j)
    <3> HIDE DEF from
    <3> QED BY <1>1, <2>1, PlaceOK
  <2>5. Place(list, L[j]) = from(j)
    BY <2>2, <2>4
  <2> HIDE DEF from
  <2>6. /\ TimeOf(L, R, L[j]) = Times(L, R)[Place(L, L[j])]
        /\ TimeOf(list, rel, L[j]) = Times(list, rel)[Place(list, L[j])]
    BY DEF TimeOf
  <2>7. TimeOf(L, R, L[j]) = TimeOf(list, rel, L[j])
    BY <2>2, <2>3, <2>5, <2>6
  <2> QED BY <2>1, <2>2, <2>3, <2>5, <2>7
<1>7. /\ \A u : Contains(list, u) <=> \E i \in 1 .. m : list[i] = u
      /\ \A u : Contains(L, u) <=> \E j \in 1 .. m - 1 : L[j] = u
  BY <1>1, <1>2, <1>3, OnList
<1>8. \A i, j \in 1 .. m - 1 : from(i) < from(j) <=> i < j
  BY <1>1
<1>9. \A i \in 1 .. m : i # p => \E j \in 1 .. m - 1 : from(j) = i
  <2> SUFFICES ASSUME NEW i \in 1 .. m, i # p PROVE \E j \in 1 .. m - 1 : from(j) = i
    OBVIOUS
  <2>1. CASE i < p
    <3>1. i \in 1 .. m - 1 /\ from(i) = i
      BY <1>1, <2>1
    <3> QED BY <3>1
  <2>2. CASE i > p
    <3>1. i - 1 \in 1 .. m - 1 /\ from(i - 1) = i
      BY <1>1, <2>2
    <3> QED BY <3>1
  <2> QED BY <1>1, <2>1, <2>2
<1>10. \A i \in 1 .. m : list[i] = t => i = p
  BY <1>1, <1>2 DEF IsInjective
<1> HIDE DEF from
<1>11. \A u : Contains(L, u) => TimeOf(L, R, u) = TimeOf(list, rel, u)
  BY <1>6, <1>7
<1>12. ASSUME NEW u, NEW v, Contains(L, u), Contains(L, v)
       PROVE  Before(L, u, v) <=> Before(list, u, v)
  <2>1. PICK i \in 1 .. m - 1, j \in 1 .. m - 1 : L[i] = u /\ L[j] = v
    BY <1>7, <1>12
  <2>2. /\ Place(L, u) = i /\ Place(L, v) = j
        /\ Place(list, u) = from(i) /\ Place(list, v) = from(j)
    BY <1>6, <2>1
  <2> QED BY <1>8, <2>2 DEF Before
<1>14. ASSUME NEW u PROVE Contains(L, u) <=> u # t /\ Contains(list, u)
  <2>1. ASSUME NEW j \in 1 .. m - 1, L[j] = u PROVE u # t /\ Contains(list, u)
    BY <1>6, <1>7, <1>10, <2>1
  <2>2. ASSUME u # t, Contains(list, u) PROVE Contains(L, u)
    <3>1. PICK i \in 1 .. m : list[i] = u
      BY <1>7, <2>2
    <3>2. PICK j \in 1 .. m - 1 : from(j) = i
      BY <1>2, <1>9, <2>2, <3>1
    <3> QED BY <1>6, <1>7, <3>1, <3>2
  <2> QED BY <1>7, <2>1, <2>2
<1> QED BY <1>2, <1>11, <1>12, <1>14

\* Cutting off the nodes with time 0, by members: the others lose one and keep
\* their order.
LEMMA CutOf ==
  ASSUME NEW S, NEW list, NEW rel, Deltas(S, list, rel),
         NEW p, NEW L, NEW R, CutAt(list, rel, p, L, R)
  PROVE  /\ Deltas(S, L, R)
         /\ \A u : Contains(L, u) <=> Contains(list, u) /\ TimeOf(list, rel, u) > 0
         /\ \A u : Contains(L, u) => TimeOf(L, R, u) = TimeOf(list, rel, u) - 1
         /\ \A u, v : Contains(L, u) /\ Contains(L, v) =>
              (Before(L, u, v) <=> Before(list, u, v))
         /\ \A u \in S : ~Contains(list, u) => R[u] = rel[u]
         /\ SubSeq(list, 1, p - 1) \in Seq(S)
         /\ \A u : Contains(SubSeq(list, 1, p - 1), u) <=>
                     Contains(list, u) /\ TimeOf(list, rel, u) = 0
         /\ Ordered(list, SubSeq(list, 1, p - 1))
<1> DEFINE m == Len(list)
           E == SubSeq(list, 1, p - 1)
           from(j) == j + p - 1
<1>1. p \in 1 .. m + 1 /\ list \in Seq(S) /\ IsInjective(list) /\ m \in Nat
  BY FirstLaterOK DEF CutAt, Deltas
<1>2. /\ Deltas(S, L, R) /\ Len(L) = m - p + 1
      /\ \A j \in 1 .. m - p + 1 : L[j] = list[from(j)]
      /\ \A j \in 0 .. p - 1 : Times(list, rel)[j] = 0
      /\ \A j \in p .. m : Times(list, rel)[j] > 0
      /\ \A j \in 1 .. m - p + 1 : Times(L, R)[j] = Times(list, rel)[from(j)] - 1
      /\ \A u \in S : ~Contains(list, u) => R[u] = rel[u]
  BY <1>1, CutTimes
<1>3. L \in Seq(S) /\ IsInjective(L)
  BY <1>2 DEF Deltas
<1>4. E \in Seq(S) /\ Len(E) = p - 1 /\ \A j \in 1 .. p - 1 : E[j] = list[j]
  BY <1>1, CutNodes
<1> HIDE DEF E
<1>5. \A i \in 1 .. m : /\ Place(list, list[i]) = i
                        /\ TimeOf(list, rel, list[i]) = Times(list, rel)[i]
  BY <1>1, PlaceOK, TimeAt
<1>6. ASSUME NEW j \in 1 .. m - p + 1
      PROVE  /\ from(j) \in p .. m /\ from(j) \in 1 .. m /\ L[j] = list[from(j)]
             /\ Place(L, L[j]) = j /\ Place(list, L[j]) = from(j)
             /\ TimeOf(L, R, L[j]) = TimeOf(list, rel, L[j]) - 1
  <2>1. from(j) \in p .. m /\ from(j) \in 1 .. m
    BY <1>1
  <2>2. L[j] = list[from(j)] /\ Times(L, R)[j] = Times(list, rel)[from(j)] - 1
    BY <1>2
  <2>3. Place(L, L[j]) = j
    BY <1>2, <1>3, PlaceOK
  <2> HIDE DEF from
  <2> QED BY <1>5, <2>1, <2>2, <2>3 DEF TimeOf
<1>7. /\ \A u : Contains(list, u) <=> \E i \in 1 .. m : list[i] = u
      /\ \A u : Contains(L, u) <=> \E j \in 1 .. m - p + 1 : L[j] = u
      /\ \A u : Contains(E, u) <=> \E j \in 1 .. p - 1 : E[j] = u
  BY <1>1, <1>2, <1>3, <1>4, OnList
<1>8. \A i, j \in 1 .. m - p + 1 : from(i) < from(j) <=> i < j
  BY <1>1
<1>9. \A i \in p .. m : i - p + 1 \in 1 .. m - p + 1 /\ from(i - p + 1) = i
  BY <1>1
<1>10. \A i \in 1 .. m : i \in 1 .. p - 1 \/ i \in p .. m
  BY <1>1
<1>15. /\ \A j \in 1 .. p - 1 : j \in 1 .. m /\ Times(list, rel)[j] = 0
       /\ \A j \in p .. m : j \in 1 .. m /\ Times(list, rel)[j] > 0 /\ Times(list, rel)[j] # 0
  BY <1>1, <1>2
<1> HIDE DEF from
<1>11. \A u : Contains(L, u) => TimeOf(L, R, u) = TimeOf(list, rel, u) - 1
  BY <1>6, <1>7
<1>12. ASSUME NEW u, NEW v, Contains(L, u), Contains(L, v)
       PROVE  Before(L, u, v) <=> Before(list, u, v)
  <2>1. PICK i \in 1 .. m - p + 1, j \in 1 .. m - p + 1 : L[i] = u /\ L[j] = v
    BY <1>7, <1>12
  <2>2. /\ Place(L, u) = i /\ Place(L, v) = j
        /\ Place(list, u) = from(i) /\ Place(list, v) = from(j)
    BY <1>6, <2>1
  <2> QED BY <1>8, <2>2 DEF Before
<1>13. ASSUME NEW u PROVE Contains(L, u) <=> Contains(list, u) /\ TimeOf(list, rel, u) > 0
  <2>1. ASSUME NEW j \in 1 .. m - p + 1, L[j] = u
        PROVE  Contains(list, u) /\ TimeOf(list, rel, u) > 0
    BY <1>5, <1>6, <1>7, <1>15, <2>1
  <2>2. ASSUME Contains(list, u), TimeOf(list, rel, u) > 0 PROVE Contains(L, u)
    <3>1. PICK i \in 1 .. m : list[i] = u
      BY <1>7, <2>2
    <3>2. Times(list, rel)[i] > 0
      BY <1>5, <2>2, <3>1
    <3>3. i \in p .. m
      <4>1. ~(0 > 0)
        OBVIOUS
      <4> QED BY <1>10, <1>15, <3>2, <4>1
    <3> QED BY <1>6, <1>7, <1>9, <3>1, <3>3
  <2> QED BY <1>7, <2>1, <2>2
<1>14. ASSUME NEW u PROVE Contains(E, u) <=> Contains(list, u) /\ TimeOf(list, rel, u) = 0
  <2>1. ASSUME NEW j \in 1 .. p - 1, E[j] = u
        PROVE  Contains(list, u) /\ TimeOf(list, rel, u) = 0
    BY <1>4, <1>5, <1>7, <1>15, <2>1
  <2>2. ASSUME Contains(list, u), TimeOf(list, rel, u) = 0 PROVE Contains(E, u)
    <3>1. PICK i \in 1 .. m : list[i] = u
      BY <1>7, <2>2
    <3>2. i \in 1 .. p - 1
      BY <1>5, <1>10, <1>15, <2>2, <3>1
    <3> QED BY <1>4, <1>7, <3>1, <3>2
  <2> QED BY <1>7, <2>1, <2>2
<1>16. Ordered(list, E)
  BY <1>4, <1>5, <1>15 DEF Ordered
<1> QED BY <1>2, <1>4, <1>11, <1>12, <1>13, <1>14, <1>16 DEF E

-----------------------------------------------------------------------------
(* The list of the armed timers                                            *)

\* Of two members of a list one stands in front of the other.
LEMMA BeforeTotal ==
  ASSUME NEW S, NEW s \in Seq(S), IsInjective(s), NEW u, NEW v, Contains(s, u), Contains(s, v)
  PROVE  /\ u = v \/ Before(s, u, v) \/ Before(s, v, u)
         /\ ~(Before(s, u, v) /\ Before(s, v, u))
<1>1. /\ Place(s, u) \in Nat /\ Place(s, v) \in Nat
      /\ s[Place(s, u)] = u /\ s[Place(s, v)] = v
  BY PlaceOK
<1> QED BY <1>1 DEF Before

\* Removing a member leaves the others in their order.
LEMMA RemovedOf ==
  ASSUME NEW S, NEW s \in Seq(S), IsInjective(s), NEW e \in S, Contains(s, e)
  PROVE  LET r == RemoveFirst(s, e) IN
         /\ r \in Seq(S) /\ IsInjective(r)
         /\ \A u : Contains(r, u) <=> u # e /\ Contains(s, u)
         /\ \A u, v : Contains(r, u) /\ Contains(r, v) => (Before(r, u, v) <=> Before(s, u, v))
<1> DEFINE none == [u \in S |-> 0]
<1>1. Deltas(S, s, none)
  BY DEF Deltas
<1>2. \A p, L, R : UnlinkedAt(s, none, e, p, L, R) =>
        /\ Deltas(S, L, R)
        /\ \A u : Contains(L, u) <=> u # e /\ Contains(s, u)
        /\ \A u, v : Contains(L, u) /\ Contains(L, v) => (Before(L, u, v) <=> Before(s, u, v))
  <2> HIDE DEF none
  <2> QED BY <1>1, UnlinkedOf
<1>3. UnlinkedAt(s, none, e, Place(s, e), RemoveFirst(s, e), UnlinkedRel(s, none, e))
  BY DEF UnlinkedAt
<1> HIDE DEF none
<1> QED BY <1>2, <1>3 DEF Deltas

\* A member that is added comes last.
LEMMA AppendedOf ==
  ASSUME NEW S, NEW s \in Seq(S), IsInjective(s), NEW e \in S, ~Contains(s, e)
  PROVE  LET r == Append(s, e) IN
         /\ r \in Seq(S) /\ IsInjective(r)
         /\ \A u : Contains(r, u) <=> u = e \/ Contains(s, u)
         /\ \A u, v : Contains(s, u) /\ Contains(s, v) => (Before(r, u, v) <=> Before(s, u, v))
         /\ \A u : Contains(s, u) => Before(r, u, e)
<1> DEFINE r == Append(s, e)
           m == Len(s)
<1>1. /\ r \in Seq(S) /\ Len(r) = m + 1 /\ m \in Nat
      /\ \A i \in 1 .. m : r[i] = s[i]
      /\ r[m + 1] = e
  OBVIOUS
<1> HIDE DEF r
<1>2. \A i, j \in 1 .. m : s[i] = s[j] => i = j
  BY DEF IsInjective
<1>3. \A i \in 1 .. m : s[i] # e
  BY OnList
<1>4. ASSUME NEW i \in 1 .. m + 1, NEW j \in 1 .. m + 1, r[i] = r[j] PROVE i = j
  <2>1. \A l \in 1 .. m + 1 : l = m + 1 \/ l \in 1 .. m
    BY <1>1
  <2> QED BY <1>1, <1>2, <1>3, <1>4, <2>1
<1>5. IsInjective(r)
  BY <1>1, <1>4 DEF IsInjective
<1>6. \A i \in 1 .. m + 1 : Place(r, r[i]) = i
  BY <1>1, <1>5, PlaceOK
<1>7. \A i \in 1 .. m : i \in 1 .. m + 1 /\ Place(r, s[i]) = i /\ Place(s, s[i]) = i
  <2>1. \A i \in 1 .. m : i \in 1 .. m + 1
    BY <1>1
  <2> QED BY <1>1, <1>6, <2>1, PlaceOK
<1>8. Place(r, e) = m + 1
  <2>1. m + 1 \in 1 .. m + 1
    BY <1>1
  <2> QED BY <1>1, <1>6, <2>1
<1>9. /\ \A u : Contains(s, u) <=> \E i \in 1 .. m : s[i] = u
      /\ \A u : Contains(r, u) <=> \E i \in 1 .. m + 1 : r[i] = u
  BY <1>1, OnList
<1>10. ASSUME NEW u PROVE Contains(r, u) <=> u = e \/ Contains(s, u)
  <2>1. \A l \in 1 .. m + 1 : l = m + 1 \/ l \in 1 .. m
    BY <1>1
  <2>2. m + 1 \in 1 .. m + 1
    BY <1>1
  <2> QED BY <1>1, <1>7, <1>9, <2>1, <2>2
<1>11. ASSUME NEW u, NEW v, Contains(s, u), Contains(s, v)
       PROVE  Before(r, u, v) <=> Before(s, u, v)
  BY <1>7, <1>9, <1>11 DEF Before
<1>12. ASSUME NEW u, Contains(s, u) PROVE Before(r, u, e)
  <2>1. PICK i \in 1 .. m : s[i] = u
    BY <1>9, <1>12
  <2>2. i < m + 1
    BY <1>1
  <2> QED BY <1>7, <1>8, <2>1, <2>2 DEF Before
<1> QED BY <1>1, <1>5, <1>10, <1>11, <1>12 DEF r

\* So does a filter.
LEMMA KeptOf ==
  ASSUME NEW S, NEW s \in Seq(S), IsInjective(s), NEW P
  PROVE  LET r == Kept(s, P) IN
         /\ r \in Seq(S) /\ IsInjective(r)
         /\ \A u : Contains(r, u) <=> Contains(s, u) /\ u \in P
         /\ \A u, v : Contains(r, u) /\ Contains(r, v) => (Before(r, u, v) <=> Before(s, u, v))
<1> DEFINE r == Kept(s, P)
<1>1. /\ r \in Seq(S) /\ IsInjective(r) /\ Ordered(s, r)
      /\ \A u : Contains(r, u) <=> Contains(s, u) /\ u \in P
  BY KeptOK
<1> HIDE DEF r
<1>2. ASSUME NEW u, NEW v, Contains(r, u), Contains(r, v), Before(r, u, v) PROVE Before(s, u, v)
  <2>1. /\ Place(r, u) \in 1 .. Len(r) /\ r[Place(r, u)] = u
        /\ Place(r, v) \in 1 .. Len(r) /\ r[Place(r, v)] = v
    BY <1>1, <1>2, PlaceOK
  <2> QED BY <1>1, <1>2, <2>1 DEF Ordered, Before
<1>3. ASSUME NEW u, NEW v, Contains(r, u), Contains(r, v), Before(s, u, v) PROVE Before(r, u, v)
  <2>1. Contains(s, u) /\ Contains(s, v)
    BY <1>1, <1>3
  <2>2. ~Before(s, v, u) /\ u # v
    <3>1. ~(Before(s, u, v) /\ Before(s, v, u))
      BY <2>1, BeforeTotal
    <3> QED BY <1>3, <3>1
  <2>3. Before(r, u, v) \/ Before(r, v, u)
    BY <1>1, <1>3, <2>2, BeforeTotal
  <2> QED BY <1>2, <1>3, <2>2, <2>3
<1> QED BY <1>1, <1>2, <1>3 DEF r

-----------------------------------------------------------------------------
(* The arithmetic of the wheel                                             *)

\* Slots are LEN apart: a slot behind the cursor is reached after a turn.
LEMMA WheelMod ==
  /\ LEN \in Nat /\ LEN > 1
  /\ \A i \in 0 .. LEN - 1 : i % LEN = i /\ (i + LEN) % LEN = i
<1>1. LEN \in Nat \ {0} /\ LEN > 1
  BY WheelAssumption
<1>2. \A i \in 0 .. LEN - 1 : (0 * LEN + i) % LEN = i /\ (1 * LEN + i) % LEN = i
  BY <1>1, DivModOne
<1>3. \A i \in 0 .. LEN - 1 : 0 * LEN + i = i /\ 1 * LEN + i = i + LEN
  BY <1>1
<1> QED BY <1>1, <1>2, <1>3

\* The ticks from the cursor to a slot, but one.
Away(i, c) == (i + LEN - c - 1) % LEN

LEMMA AwayIs ==
  ASSUME NEW i \in 0 .. LEN - 1, NEW c \in 0 .. LEN - 1
  PROVE  Away(i, c) = IF i > c THEN i - c - 1 ELSE i + LEN - c - 1
<1>1. CASE i > c
  <2>1. i - c - 1 \in 0 .. LEN - 1 /\ i + LEN - c - 1 = (i - c - 1) + LEN
    BY <1>1, WheelMod
  <2> QED BY <1>1, <2>1, WheelMod DEF Away
<1>2. CASE ~(i > c)
  <2>1. i + LEN - c - 1 \in 0 .. LEN - 1
    BY <1>2, WheelMod
  <2> QED BY <1>2, <2>1, WheelMod DEF Away
<1> QED BY <1>1, <1>2

\* The next slot is no tick away but one; a tick brings every other nearer.
LEMMA NextSlot ==
  ASSUME NEW c \in 0 .. LEN - 1, NEW i \in 0 .. LEN - 1
  PROVE  /\ (c + 1) % LEN \in 0 .. LEN - 1 /\ (c + 1) % LEN # c
         /\ Away(i, c) \in 0 .. LEN - 1
         /\ Away(i, c) = 0 <=> i = (c + 1) % LEN
         /\ Away(i, (c + 1) % LEN) = IF i = (c + 1) % LEN THEN LEN - 1 ELSE Away(i, c) - 1
<1>1. (c + 1) % LEN = IF c = LEN - 1 THEN 0 ELSE c + 1
  <2>1. CASE c = LEN - 1
    <3>1. c + 1 = 0 + LEN /\ 0 \in 0 .. LEN - 1
      BY <2>1, WheelMod
    <3> QED BY <2>1, <3>1, WheelMod
  <2>2. CASE c # LEN - 1
    <3>1. c + 1 \in 0 .. LEN - 1
      BY <2>2, WheelMod
    <3> QED BY <2>2, <3>1, WheelMod
  <2> QED BY <2>1, <2>2
<1>2. (c + 1) % LEN \in 0 .. LEN - 1 /\ (c + 1) % LEN # c
  BY <1>1, WheelMod
<1> DEFINE d == (c + 1) % LEN
<1>3. /\ Away(i, c) = IF i > c THEN i - c - 1 ELSE i + LEN - c - 1
      /\ Away(i, d) = IF i > d THEN i - d - 1 ELSE i + LEN - d - 1
  <2> HIDE DEF d
  <2>1. d \in 0 .. LEN - 1
    BY <1>2 DEF d
  <2> QED BY <2>1, AwayIs
<1> HIDE DEF d
<1>4. d = IF c = LEN - 1 THEN 0 ELSE c + 1
  BY <1>1 DEF d
<1>5. /\ Away(i, c) \in 0 .. LEN - 1
      /\ Away(i, c) = 0 <=> i = d
  BY <1>3, <1>4, WheelMod
<1>6. Away(i, d) = IF i = d THEN LEN - 1 ELSE Away(i, c) - 1
  BY <1>3, <1>4, WheelMod
<1> QED BY <1>2, <1>5, <1>6 DEF d

\* A timer of n ticks goes where it has n ticks to go.
LEMMA FullTurns ==
  ASSUME NEW n \in Nat \ {0}, NEW c \in 0 .. LEN - 1
  PROVE  /\ (n + c) % LEN \in 0 .. LEN - 1 /\ InitialTurns(n) \in Nat
         /\ Away((n + c) % LEN, c) + 1 + InitialTurns(n) * LEN = n
<1> DEFINE q == n \div LEN
           r == n % LEN
<1>1. q \in Nat /\ r \in 0 .. LEN - 1 /\ n = q * LEN + r /\ q * LEN \in Nat
  <2>1. LEN \in Nat \ {0} /\ n \in Nat
    BY WheelMod
  <2>2. q \in Nat /\ r \in 0 .. LEN - 1 /\ n = q * LEN + r
    BY <2>1, DivMod
  <2> HIDE DEF q, r
  <2> QED BY <2>1, <2>2
<1>2. InitialTurns(n) = IF r = 0 THEN q - 1 ELSE q
  BY DEF InitialTurns
<1>3. r = 0 => q # 0
  BY <1>1, WheelMod
<1> HIDE DEF q, r
<1>4. (n + c) % LEN = IF r + c < LEN THEN r + c ELSE r + c - LEN
  <2>1. CASE r + c < LEN
    <3>1. r + c \in 0 .. LEN - 1 /\ n + c = q * LEN + (r + c)
      BY <1>1, <2>1, WheelMod
    <3> QED BY <1>1, <2>1, <3>1, WheelMod, DivModOne
  <2>2. CASE ~(r + c < LEN)
    <3>1. r + c - LEN \in 0 .. LEN - 1
      BY <1>1, <2>2, WheelMod
    <3>2. n + c = (q + 1) * LEN + (r + c - LEN) /\ q + 1 \in Nat
      <4>1. (q + 1) * LEN = q * LEN + LEN /\ q + 1 \in Nat
        BY <1>1, WheelMod
      <4>2. PICK x \in Nat : x = q * LEN
        BY <1>1
      <4> QED BY <1>1, <4>1, <4>2, WheelMod
    <3> QED BY <1>1, <2>2, <3>1, <3>2, WheelMod, DivModOne
  <2> QED BY <2>1, <2>2
<1> DEFINE i == (n + c) % LEN
<1> HIDE DEF i
<1>5. i \in 0 .. LEN - 1 /\ i = IF r + c < LEN THEN r + c ELSE r + c - LEN
  BY <1>1, <1>4, WheelMod DEF i
<1>6. Away(i, c) = IF r = 0 THEN LEN - 1 ELSE r - 1
  <2>1. Away(i, c) = IF i > c THEN i - c - 1 ELSE i + LEN - c - 1
    BY <1>5, AwayIs
  <2> QED BY <1>1, <1>5, <2>1, WheelMod
<1>7. InitialTurns(n) * LEN = IF r = 0 THEN q * LEN - LEN ELSE q * LEN
  BY <1>1, <1>2, <1>3, WheelMod
<1>8. InitialTurns(n) \in Nat
  BY <1>1, <1>2, <1>3
<1>9. Away(i, c) + 1 + InitialTurns(n) * LEN = n
  <2>1. PICK x \in Nat : x = q * LEN
    BY <1>1
  <2> QED BY <1>1, <1>6, <1>7, <2>1, WheelMod
<1> QED BY <1>5, <1>8, <1>9 DEF i

-----------------------------------------------------------------------------
(* The wheel                                                               *)

\* The types of the wheel.
WheelTypes ==
  /\ cursor \in 0 .. LEN - 1 /\ index \in [Sleeper -> 0 .. LEN - 1]
  /\ roll \in [Sleeper -> Nat] /\ slots \in [0 .. LEN - 1 -> Seq(Sleeper)]
  /\ armed \in Seq(Sleeper) /\ IsInjective(armed)

\* A slot holds the armed timers whose index names it, each once.
SlotsExact ==
  /\ \A i \in 0 .. LEN - 1, t \in Sleeper :
       Contains(slots[i], t) <=> Contains(armed, t) /\ index[t] = i
  /\ \A i \in 0 .. LEN - 1 : IsInjective(slots[i])

\* Timers of a slot with the same turns stand in the order of their arming.
SlotsInOrder ==
  \A i \in 0 .. LEN - 1 : \A u, v \in Sleeper :
    Contains(slots[i], u) /\ Contains(slots[i], v) /\ Turns(u) = Turns(v) /\ Before(armed, u, v)
      => Before(slots[i], u, v)

\* The inductive invariant of the wheel.
WheelInv == WheelTypes /\ SlotsExact /\ SlotsInOrder

\* What the invariant says of a slot.
LEMMA SlotFacts ==
  ASSUME WheelInv, NEW i \in 0 .. LEN - 1
  PROVE  /\ Deltas(Sleeper, slots[i], roll)
         /\ \A u : Contains(slots[i], u) <=> u \in Sleeper /\ Contains(armed, u) /\ index[u] = i
         /\ \A u \in Sleeper : index[u] = i => Turns(u) = TimeOf(slots[i], roll, u)
<1>1. Deltas(Sleeper, slots[i], roll) /\ slots[i] \in Seq(Sleeper)
  BY DEF WheelInv, WheelTypes, SlotsExact, Deltas
<1>2. \A u : Contains(slots[i], u) => u \in Sleeper
  BY <1>1, OnList
<1>3. \A u \in Sleeper : Contains(slots[i], u) <=> Contains(armed, u) /\ index[u] = i
  BY DEF WheelInv, SlotsExact
<1> QED BY <1>1, <1>2, <1>3 DEF Turns

\* An operation on slot i leaves the other slots and their times as they are.
LEMMA OtherSlots ==
  ASSUME WheelInv, NEW i \in 0 .. LEN - 1, NEW L, NEW R,
         Deltas(Sleeper, L, R),
         \A k \in 0 .. LEN - 1 : k # i => \A u : Contains(slots[k], u) => R[u] = roll[u],
         NEW k \in 0 .. LEN - 1, k # i
  PROVE  /\ Deltas(Sleeper, slots[k], R)
         /\ \A u : TimeOf(slots[k], R, u) = TimeOf(slots[k], roll, u)
<1>1. Deltas(Sleeper, slots[k], roll) /\ slots[k] \in Seq(Sleeper) /\ IsInjective(slots[k])
  BY SlotFacts DEF Deltas
<1>2. Deltas(Sleeper, slots[k], R)
  BY <1>1 DEF Deltas
<1>3. \A j \in 0 .. Len(slots[k]) : Times(slots[k], R)[j] = Times(slots[k], roll)[j]
  BY <1>1, SameTimes
<1>4. \A u : Place(slots[k], u) \in 0 .. Len(slots[k])
  <2> SUFFICES ASSUME NEW u PROVE Place(slots[k], u) \in 0 .. Len(slots[k])
    OBVIOUS
  <2>1. /\ Contains(slots[k], u) => Place(slots[k], u) \in 1 .. Len(slots[k])
        /\ ~Contains(slots[k], u) => Place(slots[k], u) = 0
    BY <1>1, PlaceOK
  <2>2. Len(slots[k]) \in Nat
    BY <1>1
  <2> QED BY <2>1, <2>2
<1> QED BY <1>2, <1>3, <1>4 DEF TimeOf

\* The invariant after an operation on slot i, from what the operation does to
\* this slot and to the list of the armed timers.
LEMMA SlotStep ==
  ASSUME WheelInv, NEW i \in 0 .. LEN - 1, NEW L, Deltas(Sleeper, L, roll'),
         slots' = [slots EXCEPT ![i] = L], cursor' \in 0 .. LEN - 1,
         index' \in [Sleeper -> 0 .. LEN - 1],
         armed' \in Seq(Sleeper), IsInjective(armed'),
         \A k \in 0 .. LEN - 1 : k # i => \A u : Contains(slots[k], u) => roll'[u] = roll[u],
         \A u \in Sleeper : Contains(L, u) <=> Contains(armed', u) /\ index'[u] = i,
         \A u \in Sleeper : Contains(armed', u) /\ index'[u] # i <=>
           Contains(armed, u) /\ index[u] # i,
         \A u \in Sleeper : Contains(armed, u) /\ index[u] # i => index'[u] = index[u],
         \A u, v \in Sleeper :
           Contains(armed, u) /\ Contains(armed, v) /\ Contains(armed', u) /\ Contains(armed', v) =>
             (Before(armed', u, v) <=> Before(armed, u, v)),
         \A u, v \in Sleeper :
           Contains(L, u) /\ Contains(L, v) /\ TimeOf(L, roll', u) = TimeOf(L, roll', v) /\
             Before(armed', u, v) => Before(L, u, v)
  PROVE  /\ WheelInv'
         /\ \A u \in Sleeper : Contains(L, u) => Turns(u)' = TimeOf(L, roll', u)
         /\ \A u \in Sleeper : Contains(armed, u) /\ index[u] # i => Turns(u)' = Turns(u)
<1>1. /\ slots'[i] = L /\ \A k \in 0 .. LEN - 1 : k # i => slots'[k] = slots[k]
      /\ L \in Seq(Sleeper) /\ IsInjective(L) /\ roll' \in [Sleeper -> Nat]
      /\ slots' \in [0 .. LEN - 1 -> Seq(Sleeper)]
  BY DEF WheelInv, WheelTypes, Deltas
<1>2. WheelTypes'
  BY <1>1 DEF WheelTypes
<1>3. ASSUME NEW k \in 0 .. LEN - 1, k # i
      PROVE  /\ slots'[k] = slots[k] /\ Deltas(Sleeper, slots[k], roll')
             /\ \A u : TimeOf(slots[k], roll', u) = TimeOf(slots[k], roll, u)
  <2>1. PICK R : R = roll'
    OBVIOUS
  <2>2. /\ Deltas(Sleeper, L, R)
        /\ \A l \in 0 .. LEN - 1 : l # i => \A u : Contains(slots[l], u) => R[u] = roll[u]
    BY <2>1
  <2>3. /\ Deltas(Sleeper, slots[k], R)
        /\ \A u : TimeOf(slots[k], R, u) = TimeOf(slots[k], roll, u)
    BY <1>3, <2>2, OtherSlots
  <2> QED BY <1>1, <1>3, <2>1, <2>3
<1>4. SlotsExact'
  <2>1. ASSUME NEW k \in 0 .. LEN - 1, NEW u \in Sleeper
        PROVE  Contains(slots'[k], u) <=> Contains(armed', u) /\ index'[u] = k
    <3>1. CASE k = i
      BY <1>1, <3>1
    <3>2. CASE k # i
      <4>1. slots'[k] = slots[k] /\ (Contains(slots[k], u) <=> Contains(armed, u) /\ index[u] = k)
        BY <1>3, <3>2 DEF WheelInv, SlotsExact
      <4> QED BY <3>2, <4>1
    <3> QED BY <3>1, <3>2
  <2>2. \A k \in 0 .. LEN - 1 : IsInjective(slots'[k])
    BY <1>1 DEF WheelInv, SlotsExact
  <2> QED BY <2>1, <2>2 DEF SlotsExact
<1>5. ASSUME NEW u \in Sleeper, Contains(L, u) PROVE Turns(u)' = TimeOf(L, roll', u)
  <2>1. index'[u] = i
    BY <1>5
  <2> QED BY <1>1, <2>1 DEF Turns
<1>6. ASSUME NEW u \in Sleeper, Contains(armed, u), index[u] # i PROVE Turns(u)' = Turns(u)
  <2>1. index'[u] = index[u] /\ index[u] \in 0 .. LEN - 1
    BY <1>6 DEF WheelInv, WheelTypes
  <2>2. slots'[index[u]] = slots[index[u]]
    BY <1>1, <1>6, <2>1
  <2>3. TimeOf(slots[index[u]], roll', u) = TimeOf(slots[index[u]], roll, u)
    BY <1>3, <1>6, <2>1
  <2> QED BY <2>1, <2>2, <2>3 DEF Turns
<1>7. SlotsInOrder'
  <2> SUFFICES ASSUME NEW k \in 0 .. LEN - 1, NEW u \in Sleeper, NEW v \in Sleeper,
                      Contains(slots'[k], u), Contains(slots'[k], v),
                      Turns(u)' = Turns(v)', Before(armed', u, v)
               PROVE  Before(slots'[k], u, v)
    BY DEF SlotsInOrder
  <2>1. CASE k = i
    BY <1>1, <1>5, <2>1
  <2>2. CASE k # i
    <3>1. /\ Contains(slots[k], u) /\ Contains(slots[k], v) /\ slots'[k] = slots[k]
      BY <1>1, <2>2
    <3>2. /\ Contains(armed, u) /\ index[u] = k /\ Contains(armed, v) /\ index[v] = k
      BY <3>1 DEF WheelInv, SlotsExact
    <3>3. Contains(armed', u) /\ Contains(armed', v)
      BY <2>2, <3>2
    <3>4. Before(armed, u, v)
      BY <3>2, <3>3
    <3>5. Turns(u) = Turns(v)
      BY <1>6, <2>2, <3>2
    <3> QED BY <3>1, <3>4, <3>5 DEF WheelInv, SlotsInOrder
  <2> QED BY <2>1, <2>2
<1> QED BY <1>2, <1>4, <1>5, <1>6, <1>7 DEF WheelInv

\* osTaskAdd2TimerList.
LEMMA ArmStep ==
  ASSUME WheelInv, NEW t \in Sleeper, NEW n \in Nat \ {0}, osTaskAdd2TimerList(t, n)
  PROVE  /\ WheelInv' /\ cursor' = cursor /\ ~Contains(armed, t) /\ armed' = Append(armed, t)
         /\ \A u \in Sleeper : Contains(armed, u) => index'[u] = index[u] /\ Turns(u)' = Turns(u)
         /\ index'[t] = (n + cursor) % LEN /\ Turns(t)' = InitialTurns(n)
         /\ \A u : Contains(armed', u) <=> u = t \/ Contains(armed, u)
<1> DEFINE i == (n + cursor) % LEN
           turns == InitialTurns(n)
           p == FirstLater(slots[i], roll, turns)
           list == slots[i]
           L == Linked(list, t, p)
<1>1. WheelTypes /\ SlotsExact /\ cursor \in 0 .. LEN - 1
  BY DEF WheelInv, WheelTypes
<1>2. i \in 0 .. LEN - 1 /\ turns \in Nat
  BY <1>1, FullTurns
<1>3. /\ ~Contains(armed, t) /\ slots' = [slots EXCEPT ![i] = L]
      /\ roll' = LinkedRel(slots[i], roll, t, turns, p)
      /\ index' = [index EXCEPT ![t] = i]
      /\ armed' = Append(armed, t) /\ cursor' = cursor
  <2>1. slots' = [slots EXCEPT ![i] = Linked(slots[i], t, p)]
    BY <1>1, <1>2 DEF osTaskAdd2TimerList, WheelTypes
  <2> QED BY <2>1 DEF osTaskAdd2TimerList
<1>4. LinkedAt(list, roll, t, turns, p, L, roll')
  BY <1>3 DEF LinkedAt
<1> HIDE DEF i, turns, p, L
<1>5. /\ Deltas(Sleeper, list, roll)
      /\ \A u : Contains(list, u) <=> u \in Sleeper /\ Contains(armed, u) /\ index[u] = i
      /\ \A u \in Sleeper : index[u] = i => Turns(u) = TimeOf(list, roll, u)
  BY <1>2, SlotFacts
<1> HIDE DEF list
<1>6. ~Contains(list, t)
  BY <1>3, <1>5
<1>7. /\ Deltas(Sleeper, L, roll')
      /\ \A u : Contains(L, u) <=> u = t \/ Contains(list, u)
      /\ TimeOf(L, roll', t) = turns
      /\ \A u : Contains(list, u) => TimeOf(L, roll', u) = TimeOf(list, roll, u)
      /\ \A u, v : Contains(list, u) /\ Contains(list, v) =>
           (Before(L, u, v) <=> Before(list, u, v))
      /\ \A u : Contains(list, u) => (Before(L, u, t) <=> TimeOf(list, roll, u) <= turns)
      /\ \A u \in Sleeper : u # t /\ ~Contains(list, u) => roll'[u] = roll[u]
  BY <1>2, <1>4, <1>5, <1>6, LinkedOf
<1>8. /\ armed' \in Seq(Sleeper) /\ IsInjective(armed')
      /\ \A u : Contains(armed', u) <=> u = t \/ Contains(armed, u)
      /\ \A u, v : Contains(armed, u) /\ Contains(armed, v) =>
           (Before(armed', u, v) <=> Before(armed, u, v))
      /\ \A u : Contains(armed, u) => Before(armed', u, t)
  BY <1>1, <1>3, AppendedOf DEF WheelTypes
<1>9. /\ index' \in [Sleeper -> 0 .. LEN - 1] /\ index'[t] = i
      /\ \A u \in Sleeper : u # t => index'[u] = index[u]
  BY <1>1, <1>2, <1>3 DEF WheelTypes
<1>10. \A k \in 0 .. LEN - 1 : k # i => \A u : Contains(slots[k], u) => roll'[u] = roll[u]
  <2> SUFFICES ASSUME NEW k \in 0 .. LEN - 1, k # i, NEW u, Contains(slots[k], u)
               PROVE  roll'[u] = roll[u]
    OBVIOUS
  <2>1. u \in Sleeper /\ Contains(armed, u) /\ index[u] = k
    BY SlotFacts
  <2> QED BY <1>3, <1>5, <1>7, <2>1
<1>11. ASSUME NEW u \in Sleeper, NEW v \in Sleeper, Contains(L, u), Contains(L, v),
              TimeOf(L, roll', u) = TimeOf(L, roll', v), Before(armed', u, v)
       PROVE  Before(L, u, v)
  <2>1. CASE u = t
    <3>1. v # t
      <4>1. Contains(armed', t) /\ ~(Before(armed', t, t) /\ Before(armed', t, t))
        BY <1>8, BeforeTotal
      <4> QED BY <1>11, <2>1, <4>1
    <3>2. Contains(armed, v) /\ Before(armed', v, u)
      BY <1>5, <1>7, <1>8, <1>11, <2>1, <3>1
    <3>3. Contains(armed', v) /\ Contains(armed', u)
      BY <1>8, <2>1, <3>2
    <3>4. ~(Before(armed', u, v) /\ Before(armed', v, u))
      BY <1>8, <3>3, BeforeTotal
    <3> QED BY <1>11, <3>2, <3>4
  <2>2. CASE u # t /\ v = t
    <3>1. Contains(list, u) /\ TimeOf(list, roll, u) = turns
      BY <1>7, <1>11, <2>2
    <3>2. TimeOf(list, roll, u) <= turns
      BY <1>2, <3>1
    <3> QED BY <1>7, <2>2, <3>1, <3>2
  <2>3. CASE u # t /\ v # t
    <3>1. Contains(list, u) /\ Contains(list, v)
      BY <1>7, <1>11, <2>3
    <3>2. Turns(u) = Turns(v)
      BY <1>5, <1>7, <1>11, <3>1
    <3>3. Contains(armed, u) /\ Contains(armed, v)
      BY <1>5, <3>1
    <3>4. Before(armed, u, v)
      BY <1>8, <1>11, <3>3
    <3>5. Before(list, u, v)
      BY <1>2, <3>1, <3>2, <3>4 DEF WheelInv, SlotsInOrder, list
    <3> QED BY <1>7, <3>1, <3>5
  <2> QED BY <2>1, <2>2, <2>3
<1>12. /\ \A u \in Sleeper : Contains(L, u) <=> Contains(armed', u) /\ index'[u] = i
       /\ \A u \in Sleeper : Contains(armed', u) /\ index'[u] # i <=>
            Contains(armed, u) /\ index[u] # i
       /\ \A u \in Sleeper : Contains(armed, u) /\ index[u] # i => index'[u] = index[u]
  BY <1>3, <1>5, <1>7, <1>8, <1>9
<1>13. /\ \A u, v \in Sleeper :
           Contains(armed, u) /\ Contains(armed, v) /\ Contains(armed', u) /\ Contains(armed', v) =>
             (Before(armed', u, v) <=> Before(armed, u, v))
       /\ \A u, v \in Sleeper :
           Contains(L, u) /\ Contains(L, v) /\ TimeOf(L, roll', u) = TimeOf(L, roll', v) /\
             Before(armed', u, v) => Before(L, u, v)
  BY <1>8, <1>11
<1>14. cursor' \in 0 .. LEN - 1
  BY <1>1, <1>3
<1>15. slots' = [slots EXCEPT ![i] = L]
  BY <1>3
<1>16. /\ WheelInv'
       /\ \A u \in Sleeper : Contains(L, u) => Turns(u)' = TimeOf(L, roll', u)
       /\ \A u \in Sleeper : Contains(armed, u) /\ index[u] # i => Turns(u)' = Turns(u)
  BY <1>2, <1>7, <1>8, <1>9, <1>10, <1>12, <1>13, <1>14, <1>15, SlotStep
<1>17. ASSUME NEW u \in Sleeper, Contains(armed, u)
       PROVE  index'[u] = index[u] /\ Turns(u)' = Turns(u)
  <2>1. index'[u] = index[u]
    BY <1>3, <1>9, <1>17
  <2>2. CASE index[u] = i
    <3>1. Contains(list, u) /\ Contains(L, u)
      BY <1>5, <1>7, <1>17, <2>2
    <3>2. Turns(u)' = TimeOf(L, roll', u)
      BY <1>16, <3>1
    <3>3. Turns(u) = TimeOf(list, roll, u)
      BY <1>5, <2>2
    <3> QED BY <1>7, <2>1, <3>1, <3>2, <3>3
  <2>3. CASE index[u] # i
    <3>1. Turns(u)' = Turns(u)
      BY <1>16, <1>17, <2>3
    <3> QED BY <2>1, <3>1
  <2> QED BY <2>1, <2>2, <2>3
<1> QED BY <1>3, <1>7, <1>8, <1>9, <1>16, <1>17 DEF i, turns

\* osTimerListDelete.
LEMMA DisarmStep ==
  ASSUME WheelInv, NEW t \in Sleeper, osTimerListDelete(t)
  PROVE  /\ WheelInv' /\ cursor' = cursor /\ Contains(armed, t) /\ armed' = RemoveFirst(armed, t)
         /\ \A u \in Sleeper : u # t /\ Contains(armed, u) =>
              index'[u] = index[u] /\ Turns(u)' = Turns(u)
         /\ \A u : Contains(armed', u) <=> u # t /\ Contains(armed, u)
<1> DEFINE i == index[t]
           list == slots[i]
           p == Place(list, t)
           L == RemoveFirst(list, t)
<1>1. WheelTypes /\ SlotsExact /\ cursor \in 0 .. LEN - 1 /\ i \in 0 .. LEN - 1
  BY DEF WheelInv, WheelTypes
<1>3. /\ Contains(armed, t) /\ slots' = [slots EXCEPT ![i] = L]
      /\ roll' = UnlinkedRel(list, roll, t)
      /\ index' = [index EXCEPT ![t] = 0]
      /\ armed' = RemoveFirst(armed, t) /\ cursor' = cursor
  <2>1. slots' = [slots EXCEPT ![i] = RemoveFirst(slots[i], t)]
    BY <1>1 DEF osTimerListDelete, WheelTypes
  <2> QED BY <2>1 DEF osTimerListDelete
<1>4. UnlinkedAt(list, roll, t, p, L, roll')
  BY <1>3 DEF UnlinkedAt
<1> HIDE DEF p, L
<1>5. /\ Deltas(Sleeper, list, roll)
      /\ \A u : Contains(list, u) <=> u \in Sleeper /\ Contains(armed, u) /\ index[u] = i
      /\ \A u \in Sleeper : index[u] = i => Turns(u) = TimeOf(list, roll, u)
  BY <1>1, SlotFacts
<1>6. Contains(list, t)
  BY <1>3, <1>5
<1>16. i = index[t]
  OBVIOUS
<1> HIDE DEF list, i
<1>7. /\ Deltas(Sleeper, L, roll')
      /\ \A u : Contains(L, u) <=> u # t /\ Contains(list, u)
      /\ \A u : Contains(L, u) => TimeOf(L, roll', u) = TimeOf(list, roll, u)
      /\ \A u, v : Contains(L, u) /\ Contains(L, v) => (Before(L, u, v) <=> Before(list, u, v))
      /\ \A u \in Sleeper : u # t /\ ~Contains(list, u) => roll'[u] = roll[u]
  BY <1>4, <1>5, <1>6, UnlinkedOf
<1>8. /\ armed' \in Seq(Sleeper) /\ IsInjective(armed')
      /\ \A u : Contains(armed', u) <=> u # t /\ Contains(armed, u)
      /\ \A u, v : Contains(armed', u) /\ Contains(armed', v) =>
           (Before(armed', u, v) <=> Before(armed, u, v))
  BY <1>1, <1>3, RemovedOf DEF WheelTypes
<1>9. /\ index' \in [Sleeper -> 0 .. LEN - 1]
      /\ \A u \in Sleeper : u # t => index'[u] = index[u]
  BY <1>1, <1>3, WheelMod DEF WheelTypes
<1>10. \A k \in 0 .. LEN - 1 : k # i => \A u : Contains(slots[k], u) => roll'[u] = roll[u]
  <2> SUFFICES ASSUME NEW k \in 0 .. LEN - 1, k # i, NEW u, Contains(slots[k], u)
               PROVE  roll'[u] = roll[u]
    OBVIOUS
  <2>1. u \in Sleeper /\ Contains(armed, u) /\ index[u] = k
    BY SlotFacts
  <2> QED BY <1>5, <1>7, <1>16, <2>1
<1>11. ASSUME NEW u \in Sleeper, NEW v \in Sleeper, Contains(L, u), Contains(L, v),
              TimeOf(L, roll', u) = TimeOf(L, roll', v), Before(armed', u, v)
       PROVE  Before(L, u, v)
  <2>1. Contains(list, u) /\ Contains(list, v) /\ u # t /\ v # t
    BY <1>7, <1>11
  <2>2. Turns(u) = Turns(v)
    BY <1>5, <1>7, <1>11, <2>1
  <2>3. Contains(armed, u) /\ Contains(armed, v)
    BY <1>5, <2>1
  <2>4. Before(armed, u, v)
    BY <1>8, <1>11, <2>1, <2>3
  <2>5. Before(list, u, v)
    BY <1>1, <2>1, <2>2, <2>4 DEF WheelInv, SlotsInOrder, list
  <2> QED BY <1>7, <1>11, <2>5
<1>12. /\ \A u \in Sleeper : Contains(L, u) <=> Contains(armed', u) /\ index'[u] = i
       /\ \A u \in Sleeper : Contains(armed', u) /\ index'[u] # i <=>
            Contains(armed, u) /\ index[u] # i
       /\ \A u \in Sleeper : Contains(armed, u) /\ index[u] # i => index'[u] = index[u]
  BY <1>5, <1>7, <1>8, <1>9, <1>16
<1>13. /\ \A u, v \in Sleeper :
           Contains(armed, u) /\ Contains(armed, v) /\ Contains(armed', u) /\ Contains(armed', v) =>
             (Before(armed', u, v) <=> Before(armed, u, v))
       /\ \A u, v \in Sleeper :
           Contains(L, u) /\ Contains(L, v) /\ TimeOf(L, roll', u) = TimeOf(L, roll', v) /\
             Before(armed', u, v) => Before(L, u, v)
  BY <1>8, <1>11
<1>14. cursor' \in 0 .. LEN - 1
  BY <1>1, <1>3
<1>15. slots' = [slots EXCEPT ![i] = L]
  BY <1>3
<1>17. /\ WheelInv'
       /\ \A u \in Sleeper : Contains(L, u) => Turns(u)' = TimeOf(L, roll', u)
       /\ \A u \in Sleeper : Contains(armed, u) /\ index[u] # i => Turns(u)' = Turns(u)
  BY <1>1, <1>7, <1>8, <1>9, <1>10, <1>12, <1>13, <1>14, <1>15, SlotStep
<1>18. ASSUME NEW u \in Sleeper, u # t, Contains(armed, u)
       PROVE  index'[u] = index[u] /\ Turns(u)' = Turns(u)
  <2>1. index'[u] = index[u]
    BY <1>9, <1>18
  <2>2. CASE index[u] = i
    <3>1. Contains(list, u) /\ Contains(L, u)
      BY <1>5, <1>7, <1>18, <2>2
    <3>2. Turns(u)' = TimeOf(L, roll', u)
      BY <1>17, <3>1
    <3>3. Turns(u) = TimeOf(list, roll, u)
      BY <1>5, <2>2
    <3> QED BY <1>7, <2>1, <3>1, <3>2, <3>3
  <2>3. CASE index[u] # i
    <3>1. Turns(u)' = Turns(u)
      BY <1>17, <1>18, <2>3
    <3> QED BY <2>1, <3>1
  <2> QED BY <2>2, <2>3
<1> QED BY <1>3, <1>8, <1>17, <1>18

\* The timers that expire: those of the next slot without a turn left.
LEMMA ExpiringOK ==
  ASSUME WheelInv
  PROVE  /\ Slot \in 0 .. LEN - 1 /\ Slot # cursor /\ Expiring \in Seq(Sleeper)
         /\ \A u : Contains(Expiring, u) <=>
              u \in Sleeper /\ Contains(armed, u) /\ index[u] = Slot /\ Turns(u) = 0
         /\ Ordered(slots[Slot], Expiring)
<1> DEFINE list == slots[Slot]
           p == FirstLater(list, roll, 0)
           L == SubSeq(list, p, Len(list))
           R == IF p > Len(list) THEN roll ELSE [roll EXCEPT ![list[p]] = @ - 1]
<1>1. cursor \in 0 .. LEN - 1
  BY DEF WheelInv, WheelTypes
<1>2. Slot \in 0 .. LEN - 1 /\ Slot # cursor
  BY <1>1, NextSlot DEF Slot
<1>3. /\ Deltas(Sleeper, list, roll)
      /\ \A u : Contains(list, u) <=> u \in Sleeper /\ Contains(armed, u) /\ index[u] = Slot
      /\ \A u \in Sleeper : index[u] = Slot => Turns(u) = TimeOf(list, roll, u)
  BY <1>2, SlotFacts
<1>4. CutAt(list, roll, p, L, R)
  BY DEF CutAt
<1>5. Expiring = SubSeq(list, 1, p - 1)
  BY DEF Expiring
<1> HIDE DEF list, p, L, R
<1>6. /\ SubSeq(list, 1, p - 1) \in Seq(Sleeper)
      /\ \A u : Contains(SubSeq(list, 1, p - 1), u) <=>
                  Contains(list, u) /\ TimeOf(list, roll, u) = 0
      /\ Ordered(list, SubSeq(list, 1, p - 1))
  BY <1>3, <1>4, CutOf
<1> QED BY <1>2, <1>3, <1>5, <1>6 DEF list

\* osTaskScan.
LEMMA ScanStep ==
  ASSUME WheelInv, osTaskScan
  PROVE  /\ WheelInv' /\ cursor' = Slot
         /\ armed' = Kept(armed, Sleeper \ ToSet(Expiring))
         /\ \A u : Contains(armed', u) <=>
              Contains(armed, u) /\ ~(index[u] = Slot /\ Turns(u) = 0)
         /\ \A u \in Sleeper : Contains(armed', u) =>
              index'[u] = index[u] /\ Turns(u)' = IF index[u] = Slot THEN Turns(u) - 1 ELSE Turns(u)
<1> DEFINE i == Slot
           list == slots[i]
           p == FirstLater(list, roll, 0)
           L == SubSeq(list, p, Len(list))
<1>1. WheelTypes /\ SlotsExact /\ i \in 0 .. LEN - 1
  BY ExpiringOK DEF WheelInv
<1>2. /\ Expiring \in Seq(Sleeper)
      /\ \A u : Contains(Expiring, u) <=>
           u \in Sleeper /\ Contains(armed, u) /\ index[u] = i /\ Turns(u) = 0
  BY ExpiringOK
<1>3. /\ cursor' = i /\ slots' = [slots EXCEPT ![i] = L]
      /\ roll' = IF p > Len(list) THEN roll ELSE [roll EXCEPT ![list[p]] = @ - 1]
      /\ index' = [u \in Sleeper |-> IF Contains(Expiring, u) THEN 0 ELSE index[u]]
      /\ armed' = Kept(armed, Sleeper \ ToSet(Expiring))
  BY DEF osTaskScan
<1>4. CutAt(list, roll, p, L, roll')
  BY <1>3 DEF CutAt
<1>16. cursor' = Slot /\ i = Slot
  BY <1>3
<1> HIDE DEF p, L, i
<1>5. /\ Deltas(Sleeper, list, roll)
      /\ \A u : Contains(list, u) <=> u \in Sleeper /\ Contains(armed, u) /\ index[u] = i
      /\ \A u \in Sleeper : index[u] = i => Turns(u) = TimeOf(list, roll, u)
  BY <1>1, SlotFacts
<1> HIDE DEF list
<1>7. /\ Deltas(Sleeper, L, roll')
      /\ \A u : Contains(L, u) <=> Contains(list, u) /\ TimeOf(list, roll, u) > 0
      /\ \A u : Contains(L, u) => TimeOf(L, roll', u) = TimeOf(list, roll, u) - 1
      /\ \A u, v : Contains(L, u) /\ Contains(L, v) => (Before(L, u, v) <=> Before(list, u, v))
      /\ \A u \in Sleeper : ~Contains(list, u) => roll'[u] = roll[u]
  BY <1>4, <1>5, CutOf
<1>6. \A u : TimeOf(list, roll, u) \in Nat
  BY <1>5, TimeAt
<1>8. /\ armed' \in Seq(Sleeper) /\ IsInjective(armed')
      /\ \A u : Contains(armed', u) <=> Contains(armed, u) /\ u \in Sleeper \ ToSet(Expiring)
      /\ \A u, v : Contains(armed', u) /\ Contains(armed', v) =>
           (Before(armed', u, v) <=> Before(armed, u, v))
  BY <1>1, <1>3, KeptOf DEF WheelTypes
<1>18. \A u : Contains(armed, u) => u \in Sleeper
  BY <1>1, OnList DEF WheelTypes
<1>19. ToSet(Expiring) = {u \in Sleeper : Contains(Expiring, u)}
  BY <1>2, OnList
<1>20. \A u : Contains(armed', u) <=> Contains(armed, u) /\ ~(index[u] = i /\ Turns(u) = 0)
  BY <1>2, <1>8, <1>18, <1>19
<1>9. /\ index' \in [Sleeper -> 0 .. LEN - 1]
      /\ \A u \in Sleeper : ~Contains(Expiring, u) => index'[u] = index[u]
  <2>1. 0 \in 0 .. LEN - 1 /\ index \in [Sleeper -> 0 .. LEN - 1]
    BY <1>1, WheelMod DEF WheelTypes
  <2> QED BY <1>3, <2>1, Zenon
<1>10. \A k \in 0 .. LEN - 1 : k # i => \A u : Contains(slots[k], u) => roll'[u] = roll[u]
  <2> SUFFICES ASSUME NEW k \in 0 .. LEN - 1, k # i, NEW u, Contains(slots[k], u)
               PROVE  roll'[u] = roll[u]
    OBVIOUS
  <2>1. u \in Sleeper /\ Contains(armed, u) /\ index[u] = k
    BY SlotFacts
  <2> QED BY <1>5, <1>7, <2>1
<1>11. ASSUME NEW u \in Sleeper, NEW v \in Sleeper, Contains(L, u), Contains(L, v),
              TimeOf(L, roll', u) = TimeOf(L, roll', v), Before(armed', u, v)
       PROVE  Before(L, u, v)
  <2>1. /\ Contains(list, u) /\ Contains(list, v)
        /\ TimeOf(list, roll, u) - 1 = TimeOf(list, roll, v) - 1
        /\ TimeOf(list, roll, u) > 0 /\ TimeOf(list, roll, v) > 0
    BY <1>7, <1>11
  <2>2. Turns(u) = Turns(v)
    <3>1. PICK a \in Nat, b \in Nat : a = TimeOf(list, roll, u) /\ b = TimeOf(list, roll, v)
      BY <1>6
    <3>2. a - 1 = b - 1
      BY <2>1, <3>1
    <3>3. a = b
      BY <3>2
    <3>4. TimeOf(list, roll, u) = TimeOf(list, roll, v)
      BY <3>1, <3>3
    <3> QED BY <1>5, <2>1, <3>4
  <2>3. Contains(armed, u) /\ Contains(armed, v) /\ index[u] = i /\ index[v] = i
    BY <1>5, <2>1
  <2>6. Turns(u) # 0 /\ Turns(v) # 0
    <3>1. Turns(u) > 0 /\ Turns(v) > 0 /\ ~(0 > 0)
      BY <1>5, <2>1
    <3> QED BY <3>1
  <2>4. Before(armed, u, v)
    BY <1>8, <1>11, <1>20, <2>3, <2>6
  <2>5. Before(list, u, v)
    BY <1>1, <2>1, <2>2, <2>4 DEF WheelInv, SlotsInOrder, list
  <2> QED BY <1>7, <1>11, <2>5
<1>21. ASSUME NEW u \in Sleeper PROVE Contains(L, u) <=> Contains(armed', u) /\ index'[u] = i
  <2>1. TimeOf(list, roll, u) > 0 <=> TimeOf(list, roll, u) # 0
    BY <1>6
  <2>2. Contains(L, u) <=> Contains(armed, u) /\ index[u] = i /\ Turns(u) # 0
    BY <1>5, <1>7, <2>1
  <2>3. Contains(armed', u) => index'[u] = index[u]
    BY <1>2, <1>9, <1>20
  <2> QED BY <1>20, <2>2, <2>3
<1>12. /\ \A u \in Sleeper : Contains(armed', u) /\ index'[u] # i <=>
            Contains(armed, u) /\ index[u] # i
       /\ \A u \in Sleeper : Contains(armed, u) /\ index[u] # i => index'[u] = index[u]
  BY <1>2, <1>9, <1>20
<1>13. /\ \A u, v \in Sleeper :
           Contains(armed, u) /\ Contains(armed, v) /\ Contains(armed', u) /\ Contains(armed', v) =>
             (Before(armed', u, v) <=> Before(armed, u, v))
       /\ \A u, v \in Sleeper :
           Contains(L, u) /\ Contains(L, v) /\ TimeOf(L, roll', u) = TimeOf(L, roll', v) /\
             Before(armed', u, v) => Before(L, u, v)
  BY <1>8, <1>11
<1>14. cursor' \in 0 .. LEN - 1
  BY <1>1, <1>3
<1>15. slots' = [slots EXCEPT ![i] = L]
  BY <1>3
<1>17. /\ WheelInv'
       /\ \A u \in Sleeper : Contains(L, u) => Turns(u)' = TimeOf(L, roll', u)
       /\ \A u \in Sleeper : Contains(armed, u) /\ index[u] # i => Turns(u)' = Turns(u)
  BY <1>1, <1>7, <1>8, <1>9, <1>10, <1>12, <1>13, <1>14, <1>15, <1>21, SlotStep
<1>22. ASSUME NEW u \in Sleeper, Contains(armed', u)
       PROVE  /\ index'[u] = index[u]
              /\ Turns(u)' = IF index[u] = Slot THEN Turns(u) - 1 ELSE Turns(u)
  <2>1. index'[u] = index[u] /\ Contains(armed, u)
    BY <1>2, <1>9, <1>20, <1>22
  <2>2. CASE index[u] = i
    <3>1. Contains(L, u)
      BY <1>21, <1>22, <2>1, <2>2
    <3>2. Turns(u)' = TimeOf(L, roll', u) /\ TimeOf(L, roll', u) = TimeOf(list, roll, u) - 1
      BY <1>7, <1>17, <3>1
    <3>3. Turns(u) = TimeOf(list, roll, u)
      BY <1>5, <2>2
    <3> QED BY <1>16, <2>1, <2>2, <3>2, <3>3
  <2>3. CASE index[u] # i
    <3>1. Turns(u)' = Turns(u)
      BY <1>17, <2>1, <2>3
    <3> QED BY <1>16, <2>1, <2>3, <3>1
  <2> QED BY <2>2, <2>3
<1> QED BY <1>3, <1>16, <1>17, <1>20, <1>22

-----------------------------------------------------------------------------
(* The ticks that are left                                                 *)

\* The ticks left of a timer, as the turns and the way to its slot.
LEMMA TicksOf ==
  ASSUME WheelInv, NEW t \in Sleeper
  PROVE  /\ cursor \in 0 .. LEN - 1 /\ index[t] \in 0 .. LEN - 1
         /\ Away(index[t], cursor) \in 0 .. LEN - 1 /\ Turns(t) \in Nat
         /\ TicksLeft(t) = Away(index[t], cursor) + 1 + Turns(t) * LEN
         /\ TicksLeft(t) \in Nat \ {0}
<1>1. cursor \in 0 .. LEN - 1 /\ index[t] \in 0 .. LEN - 1
  BY DEF WheelInv, WheelTypes
<1>2. Away(index[t], cursor) \in 0 .. LEN - 1
  BY <1>1, NextSlot
<1>3. Turns(t) \in Nat
  BY <1>1, SlotFacts, TimeAt
<1>4. TicksLeft(t) = Away(index[t], cursor) + 1 + Turns(t) * LEN
  BY DEF TicksLeft, Away
<1>5. TicksLeft(t) \in Nat \ {0}
  <2>1. PICK a \in 0 .. LEN - 1, b \in Nat : a = Away(index[t], cursor) /\ b = Turns(t) * LEN
    BY <1>2, <1>3, WheelMod
  <2> QED BY <1>4, <2>1, WheelMod
<1> QED BY <1>1, <1>2, <1>3, <1>4, <1>5

\* A timer has one tick left if it expires at the next tick.
LEMMA LastTick ==
  ASSUME WheelInv, NEW t \in Sleeper
  PROVE  TicksLeft(t) = 1 <=> index[t] = Slot /\ Turns(t) = 0
<1>1. /\ Away(index[t], cursor) \in 0 .. LEN - 1 /\ Turns(t) \in Nat
      /\ TicksLeft(t) = Away(index[t], cursor) + 1 + Turns(t) * LEN
      /\ cursor \in 0 .. LEN - 1 /\ index[t] \in 0 .. LEN - 1
  BY TicksOf
<1>2. Away(index[t], cursor) = 0 <=> index[t] = Slot
  BY <1>1, NextSlot DEF Slot
<1>3. PICK a \in 0 .. LEN - 1, b \in Nat :
        a = Away(index[t], cursor) /\ b = Turns(t) * LEN /\ (b = 0 <=> Turns(t) = 0)
  <2>1. Turns(t) * LEN \in Nat
    BY <1>1, WheelMod
  <2>2. Turns(t) * LEN = 0 <=> Turns(t) = 0
    BY <1>1, WheelMod
  <2> QED BY <1>1, <2>1, <2>2
<1>4. TicksLeft(t) = a + 1 + b
  BY <1>1, <1>3
<1> QED BY <1>2, <1>3, <1>4, WheelMod

\* The timer wheel is the list of ticks that AbsTimers is about: arming,
LEMMA ArmTicks ==
  ASSUME WheelInv, NEW t \in Sleeper, NEW n \in Delays, osTaskAdd2TimerList(t, n)
  PROVE  Abs!Arm(t, n) /\ AbsTicks'[t] = n
<1>1. n \in Nat \ {0}
  BY WheelAssumption
<1>2. /\ WheelInv' /\ cursor' = cursor /\ ~Contains(armed, t) /\ armed' = Append(armed, t)
      /\ \A u \in Sleeper : Contains(armed, u) => index'[u] = index[u] /\ Turns(u)' = Turns(u)
      /\ index'[t] = (n + cursor) % LEN /\ Turns(t)' = InitialTurns(n)
      /\ \A u : Contains(armed', u) <=> u = t \/ Contains(armed, u)
  BY <1>1, ArmStep
<1>3. \A u \in Sleeper :
        /\ TicksLeft(u) = Away(index[u], cursor) + 1 + Turns(u) * LEN
        /\ TicksLeft(u)' = Away(index'[u], cursor') + 1 + Turns(u)' * LEN
  BY <1>2, TicksOf DEF TicksLeft, Away
<1>4. TicksLeft(t)' = n
  <2>1. cursor \in 0 .. LEN - 1
    BY DEF WheelInv, WheelTypes
  <2> QED BY <1>1, <1>2, <1>3, <2>1, FullTurns
<1>5. \A u \in Sleeper : Contains(armed, u) => TicksLeft(u)' = TicksLeft(u)
  BY <1>2, <1>3
<1>6. AbsTicks' = [AbsTicks EXCEPT ![t] = n]
  <2>1. AbsTicks = [u \in Sleeper |-> IF Contains(armed, u) THEN TicksLeft(u) ELSE 0]
    BY DEF AbsTicks
  <2>2. AbsTicks' = [u \in Sleeper |-> IF Contains(armed', u) THEN TicksLeft(u)' ELSE 0]
    BY DEF AbsTicks
  <2>3. \A u \in Sleeper : (IF Contains(armed', u) THEN TicksLeft(u)' ELSE 0) =
          IF u = t THEN n ELSE IF Contains(armed, u) THEN TicksLeft(u) ELSE 0
    BY <1>2, <1>4, <1>5
  <2> QED BY <2>1, <2>2, <2>3
<1>7. AbsTicks'[t] = n
  BY <1>6 DEF AbsTicks
<1>8. n > 0
  BY <1>1
<1> QED BY <1>2, <1>6, <1>7, <1>8 DEF Abs!Arm, Abs!Contains, Contains

\* disarming,
LEMMA DisarmTicks ==
  ASSUME WheelInv, NEW t \in Sleeper, osTimerListDelete(t)
  PROVE  Abs!Disarm(t)
<1>2. /\ WheelInv' /\ cursor' = cursor /\ Contains(armed, t) /\ armed' = RemoveFirst(armed, t)
      /\ \A u \in Sleeper : u # t /\ Contains(armed, u) =>
           index'[u] = index[u] /\ Turns(u)' = Turns(u)
      /\ \A u : Contains(armed', u) <=> u # t /\ Contains(armed, u)
  BY DisarmStep
<1>3. \A u \in Sleeper :
        /\ TicksLeft(u) = Away(index[u], cursor) + 1 + Turns(u) * LEN
        /\ TicksLeft(u)' = Away(index'[u], cursor') + 1 + Turns(u)' * LEN
  BY <1>2, TicksOf DEF TicksLeft, Away
<1>5. \A u \in Sleeper : u # t /\ Contains(armed, u) => TicksLeft(u)' = TicksLeft(u)
  BY <1>2, <1>3
<1>6. AbsTicks' = [AbsTicks EXCEPT ![t] = 0]
  <2>1. AbsTicks = [u \in Sleeper |-> IF Contains(armed, u) THEN TicksLeft(u) ELSE 0]
    BY DEF AbsTicks
  <2>2. AbsTicks' = [u \in Sleeper |-> IF Contains(armed', u) THEN TicksLeft(u)' ELSE 0]
    BY DEF AbsTicks
  <2>3. \A u \in Sleeper : (IF Contains(armed', u) THEN TicksLeft(u)' ELSE 0) =
          IF u = t THEN 0 ELSE IF Contains(armed, u) THEN TicksLeft(u) ELSE 0
    BY <1>2, <1>5
  <2> QED BY <2>1, <2>2, <2>3
<1>7. Abs!Contains(armed, t)
  BY <1>2 DEF Abs!Contains, Contains
<1>8. Abs!RemoveFirst(armed, t) = RemoveFirst(armed, t)
  <2>1. Abs!SelectInSeq(armed, LAMBDA v : v = t) = SelectInSeq(armed, LAMBDA v : v = t)
    BY DEF Abs!SelectInSeq, SelectInSeq, Abs!Min, Min
  <2> QED BY <2>1 DEF Abs!RemoveFirst, RemoveFirst, Abs!RemoveAt, RemoveAt
<1> QED BY <1>2, <1>6, <1>7, <1>8 DEF Abs!Disarm

\* and the tick.
LEMMA ScanTicks ==
  ASSUME WheelInv, osTaskScan
  PROVE  Abs!Tick
<1>2. /\ WheelInv' /\ cursor' = Slot
      /\ armed' = Kept(armed, Sleeper \ ToSet(Expiring))
      /\ \A u : Contains(armed', u) <=>
           Contains(armed, u) /\ ~(index[u] = Slot /\ Turns(u) = 0)
      /\ \A u \in Sleeper : Contains(armed', u) =>
           /\ index'[u] = index[u]
           /\ Turns(u)' = IF index[u] = Slot THEN Turns(u) - 1 ELSE Turns(u)
  BY ScanStep
<1>3. \A u \in Sleeper :
        /\ TicksLeft(u) = Away(index[u], cursor) + 1 + Turns(u) * LEN
        /\ TicksLeft(u)' = Away(index'[u], cursor') + 1 + Turns(u)' * LEN
        /\ index[u] \in 0 .. LEN - 1 /\ cursor \in 0 .. LEN - 1 /\ Turns(u) \in Nat
        /\ TicksLeft(u) \in Nat \ {0}
  BY <1>2, TicksOf DEF TicksLeft, Away
<1>4. \A u : Contains(armed, u) => u \in Sleeper
  BY OnList DEF WheelInv, WheelTypes
<1>5. \A u \in Sleeper :
        Contains(armed', u) <=> Contains(armed, u) /\ TicksLeft(u) # 1
  BY <1>2, LastTick
<1>6. ASSUME NEW u \in Sleeper, Contains(armed', u) PROVE TicksLeft(u)' = TicksLeft(u) - 1
  <2>1. /\ index[u] \in 0 .. LEN - 1 /\ cursor \in 0 .. LEN - 1 /\ Turns(u) \in Nat
        /\ index'[u] = index[u] /\ cursor' = Slot
        /\ Turns(u)' = IF index[u] = Slot THEN Turns(u) - 1 ELSE Turns(u)
        /\ TicksLeft(u) = Away(index[u], cursor) + 1 + Turns(u) * LEN
        /\ TicksLeft(u)' = Away(index[u], Slot) + 1 + Turns(u)' * LEN
    BY <1>2, <1>3, <1>6
  <2>2. /\ Away(index[u], Slot) = IF index[u] = Slot THEN LEN - 1 ELSE Away(index[u], cursor) - 1
        /\ Away(index[u], cursor) = 0 <=> index[u] = Slot
        /\ Away(index[u], cursor) \in 0 .. LEN - 1
    BY <2>1, NextSlot DEF Slot
  <2>3. PICK T \in Nat, a \in 0 .. LEN - 1 : T = Turns(u) /\ a = Away(index[u], cursor)
    BY <2>1, <2>2
  <2>4. (T - 1) * LEN = T * LEN - LEN /\ T * LEN \in Nat
    BY WheelMod
  <2>5. PICK b \in Nat : b = T * LEN
    BY <2>4
  <2>6. TicksLeft(u) = a + 1 + b
    BY <2>1, <2>3, <2>5
  <2>7. CASE index[u] = Slot
    <3>1. TicksLeft(u)' = (LEN - 1) + 1 + (b - LEN) /\ a = 0
      BY <2>1, <2>2, <2>3, <2>4, <2>5, <2>7
    <3> QED BY <2>6, <3>1, WheelMod
  <2>8. CASE index[u] # Slot
    <3>1. TicksLeft(u)' = (a - 1) + 1 + b
      BY <2>1, <2>2, <2>3, <2>5, <2>8
    <3> QED BY <2>6, <3>1, WheelMod
  <2> QED BY <2>7, <2>8
<1>7. AbsTicks' = [u \in Sleeper |-> IF AbsTicks[u] > 0 THEN AbsTicks[u] - 1 ELSE 0]
  <2>1. AbsTicks' = [u \in Sleeper |-> IF Contains(armed', u) THEN TicksLeft(u)' ELSE 0]
    BY DEF AbsTicks
  <2>2. ASSUME NEW u \in Sleeper
        PROVE  (IF Contains(armed', u) THEN TicksLeft(u)' ELSE 0) =
                 IF AbsTicks[u] > 0 THEN AbsTicks[u] - 1 ELSE 0
    <3>1. AbsTicks[u] = IF Contains(armed, u) THEN TicksLeft(u) ELSE 0
      BY DEF AbsTicks
    <3>2. PICK n \in Nat \ {0} : n = TicksLeft(u)
      BY <1>3
    <3>3. CASE Contains(armed', u)
      BY <1>5, <1>6, <3>1, <3>2, <3>3
    <3>4. CASE ~Contains(armed', u)
      BY <1>5, <3>1, <3>2, <3>4
    <3> QED BY <3>3, <3>4
  <2> QED BY <2>1, <2>2
<1>8. armed' = Kept(armed, {u \in Sleeper : AbsTicks[u] > 1})
  <2> DEFINE P == {u \in Sleeper : AbsTicks[u] > 1}
  <2>1. armed \in Seq(Sleeper) /\ IsInjective(armed)
    BY DEF WheelInv, WheelTypes
  <2>2. /\ armed' \in Seq(Sleeper) /\ Ordered(armed, armed')
    BY <1>2, <2>1, KeptOK
  <2>3. /\ Kept(armed, P) \in Seq(Sleeper) /\ Ordered(armed, Kept(armed, P))
        /\ \A u : Contains(Kept(armed, P), u) <=> Contains(armed, u) /\ u \in P
    <3> HIDE DEF P
    <3> QED BY <2>1, KeptOK
  <2>4. ASSUME NEW u PROVE Contains(armed', u) <=> Contains(armed, u) /\ u \in P
    <3>1. CASE Contains(armed, u)
      <4>1. u \in Sleeper /\ AbsTicks[u] = TicksLeft(u) /\ TicksLeft(u) \in Nat \ {0}
        BY <1>3, <1>4, <3>1 DEF AbsTicks
      <4> QED BY <1>5, <3>1, <4>1
    <3>2. CASE ~Contains(armed, u)
      BY <1>2, <3>2
    <3> QED BY <3>1, <3>2
  <2> HIDE DEF P
  <2>5. \A u : Contains(armed', u) <=> Contains(Kept(armed, P), u)
    BY <2>3, <2>4
  <2>6. armed' = Kept(armed, P)
    <3>1. PICK a \in Seq(Sleeper), b \in Seq(Sleeper) : a = armed' /\ b = Kept(armed, P)
      BY <2>2, <2>3
    <3>2. a = b
      BY <2>1, <2>2, <2>3, <2>5, <3>1, SameOrder
    <3> QED BY <3>1, <3>2
  <2> QED BY <2>6 DEF P
<1> QED BY <1>7, <1>8 DEF Abs!Tick, Abs!Kept, Kept

-----------------------------------------------------------------------------
(* What the next tick and tickless idle are told                           *)

\* Two sets of naturals have the same least member if one is in the other and
\* has a member below each of its.
LEMMA SameMin ==
  ASSUME NEW A \in SUBSET Nat, NEW B \in SUBSET Nat, A # {}, A \subseteq B,
         \A b \in B : \E a \in A : a <= b
  PROVE  Min(A) = Min(B)
<1>1. /\ Min(A) \in A /\ \A n \in A : Min(A) <= n
      /\ Min(B) \in B /\ \A n \in B : Min(B) <= n
  BY MinNat
<1>2. PICK a \in A : a <= Min(B)
  BY <1>1
<1>3. PICK x \in Nat, y \in Nat, z \in Nat : x = Min(A) /\ y = Min(B) /\ z = a
  BY <1>1
<1>4. x <= z /\ z <= y /\ y <= x
  BY <1>1, <1>2, <1>3
<1> QED BY <1>3, <1>4

\* The first timer of a slot has the ticks that osTaskNextSwitchTimeGet gives it.
LEMMA FirstOfSlot ==
  ASSUME WheelInv, NEW i \in 0 .. LEN - 1, slots[i] # <<>>
  PROVE  /\ slots[i][1] \in Sleeper /\ Contains(armed, slots[i][1])
         /\ TicksLeft(slots[i][1]) = SlotTicks(i) + roll[slots[i][1]] * LEN
         /\ \A u \in Sleeper : Contains(slots[i], u) => TicksLeft(slots[i][1]) <= TicksLeft(u)
<1> DEFINE list == slots[i]
           h == list[1]
<1>1. /\ Deltas(Sleeper, list, roll)
      /\ \A u : Contains(list, u) <=> u \in Sleeper /\ Contains(armed, u) /\ index[u] = i
      /\ \A u \in Sleeper : index[u] = i => Turns(u) = TimeOf(list, roll, u)
  BY SlotFacts
<1>2. list \in Seq(Sleeper) /\ IsInjective(list) /\ Len(list) \in Nat /\ 1 \in 1 .. Len(list)
  BY <1>1 DEF Deltas
<1>3. Contains(list, h)
  BY <1>2, OnList
<1>4. h \in Sleeper /\ Contains(armed, h) /\ index[h] = i
  BY <1>1, <1>3
<1>6. Turns(h) = roll[h]
  <2>1. Times(list, roll)[1] = Times(list, roll)[1 - 1] + roll[list[1]] /\ Times(list, roll)[0] = 0
    BY <1>2, TimesStep
  <2>2. roll[h] \in Nat
    BY <1>4 DEF WheelInv, WheelTypes
  <2>3. Turns(h) = Times(list, roll)[1]
    BY <1>1, <1>2, <1>4, TimeAt
  <2> QED BY <2>1, <2>2, <2>3
<1>7. cursor \in 0 .. LEN - 1
  BY DEF WheelInv, WheelTypes
<1>8. SlotTicks(i) = Away(i, cursor) + 1
  <2>1. Away(i, cursor) = IF i > cursor THEN i - cursor - 1 ELSE i + LEN - cursor - 1
    BY <1>7, AwayIs
  <2>2. CASE i = cursor
    BY <1>7, <2>1, <2>2, WheelMod DEF SlotTicks
  <2>3. CASE i > cursor
    <3>1. i - cursor \in 0 .. LEN - 1 /\ i + LEN - cursor = (i - cursor) + LEN
      <4> HIDE DEF list, h
      <4> QED BY <1>7, <2>3, WheelAssumption
    <3>2. (i + LEN - cursor) % LEN = i - cursor
      BY <3>1, WheelMod
    <3>3. i # cursor
      BY <1>7, <2>3
    <3>4. SlotTicks(i) = i - cursor
      BY <3>2, <3>3 DEF SlotTicks
    <3> QED BY <1>7, <2>1, <2>3, <3>4, WheelMod
  <2>4. CASE i < cursor
    <3>1. i + LEN - cursor \in 0 .. LEN - 1
      <4> HIDE DEF list, h
      <4> QED BY <1>7, <2>4, WheelAssumption
    <3>2. (i + LEN - cursor) % LEN = i + LEN - cursor
      BY <3>1, WheelMod
    <3>3. i # cursor
      BY <1>7, <2>4
    <3>4. SlotTicks(i) = i + LEN - cursor
      BY <3>2, <3>3 DEF SlotTicks
    <3> QED BY <1>7, <2>1, <2>4, <3>4, WheelMod
  <2> QED BY <1>7, <2>2, <2>3, <2>4
<1>9. TicksLeft(h) = SlotTicks(i) + roll[h] * LEN
  BY <1>4, <1>6, <1>8, TicksOf
<1>10. ASSUME NEW u \in Sleeper, Contains(list, u) PROVE TicksLeft(h) <= TicksLeft(u)
  <2>1. index[u] = i /\ Turns(u) = TimeOf(list, roll, u)
    BY <1>1, <1>10
  <2>2. PICK j \in 1 .. Len(list) : list[j] = u
    BY <1>2, <1>10, OnList
  <2>3. Turns(u) = Times(list, roll)[j] /\ Turns(h) = Times(list, roll)[1]
    BY <1>1, <1>2, <1>4, <2>1, <2>2, TimeAt
  <2>4. Times(list, roll)[1] <= Times(list, roll)[j]
    <3>1. 1 \in 0 .. Len(list) /\ j \in 0 .. Len(list) /\ 1 <= j
      BY <1>2
    <3> QED BY <1>1, <3>1, TimesRise
  <2>5. PICK a \in Nat, b \in Nat, d \in 0 .. LEN - 1 :
          a = Turns(h) /\ b = Turns(u) /\ d = Away(i, cursor)
    BY <1>4, <2>1, TicksOf
  <2>6. TicksLeft(h) = d + 1 + a * LEN /\ TicksLeft(u) = d + 1 + b * LEN /\ a <= b
    BY <1>4, <2>1, <2>3, <2>4, <2>5, TicksOf
  <2>7. a * LEN <= b * LEN /\ a * LEN \in Nat /\ b * LEN \in Nat
    BY <2>6, WheelMod
  <2> QED BY <2>6, <2>7
<1> QED BY <1>4, <1>9, <1>10

\* The timers that the next tick ends, and the ticks until a timer expires.
LEMMA NextExpiryOK ==
  ASSUME WheelInv
  PROVE  NextExpiryExact
<1>1. /\ armed \in Seq(Sleeper) /\ IsInjective(armed) /\ slots \in [0 .. LEN - 1 -> Seq(Sleeper)]
      /\ \A u : Contains(armed, u) => u \in Sleeper
  BY OnList DEF WheelInv, WheelTypes
<1>2. Expiring = Kept(armed, {t \in Sleeper : TicksLeft(t) = 1})
  <2> DEFINE P == {t \in Sleeper : TicksLeft(t) = 1}
  <2>1. /\ Slot \in 0 .. LEN - 1 /\ Expiring \in Seq(Sleeper)
        /\ \A u : Contains(Expiring, u) <=>
             u \in Sleeper /\ Contains(armed, u) /\ index[u] = Slot /\ Turns(u) = 0
        /\ Ordered(slots[Slot], Expiring)
    BY ExpiringOK
  <2>2. \A u : Contains(Expiring, u) <=> Contains(armed, u) /\ u \in P
    BY <1>1, <2>1, LastTick
  <2>3. /\ Kept(armed, P) \in Seq(Sleeper) /\ Ordered(armed, Kept(armed, P))
        /\ \A u : Contains(Kept(armed, P), u) <=> Contains(armed, u) /\ u \in P
    <3> HIDE DEF P
    <3> QED BY <1>1, KeptOK
  <2>4. ASSUME NEW i \in 1 .. Len(Expiring), NEW j \in 1 .. Len(Expiring), i < j
        PROVE  Place(armed, Expiring[i]) < Place(armed, Expiring[j])
    <3> DEFINE u == Expiring[i]
               v == Expiring[j]
    <3>1. Contains(Expiring, u) /\ Contains(Expiring, v)
      BY <2>1, OnList
    <3>2. Place(slots[Slot], u) < Place(slots[Slot], v)
      BY <2>1, <2>4 DEF Ordered
    <3> HIDE DEF u, v
    <3>3. /\ u \in Sleeper /\ Contains(armed, u) /\ Turns(u) = 0 /\ index[u] = Slot
          /\ v \in Sleeper /\ Contains(armed, v) /\ Turns(v) = 0 /\ index[v] = Slot
      BY <2>1, <3>1
    <3>4. Contains(slots[Slot], u) /\ Contains(slots[Slot], v)
      BY <2>1, <3>3, SlotFacts
    <3>5. slots[Slot] \in Seq(Sleeper) /\ IsInjective(slots[Slot])
      BY <2>1 DEF WheelInv, WheelTypes, SlotsExact
    <3>6. ~(Before(slots[Slot], u, v) /\ Before(slots[Slot], v, u)) /\ Before(slots[Slot], u, v)
      BY <3>2, <3>4, <3>5, BeforeTotal DEF Before
    <3>7. ~Before(armed, v, u)
      BY <2>1, <3>3, <3>4, <3>6 DEF WheelInv, SlotsInOrder
    <3>8. u # v
      BY <3>6
    <3>9. Before(armed, u, v)
      BY <1>1, <3>3, <3>7, <3>8, BeforeTotal
    <3> QED BY <3>9 DEF Before, u, v
  <2> HIDE DEF P
  <2>5. Ordered(armed, Expiring)
    BY <2>4 DEF Ordered
  <2>6. Expiring = Kept(armed, P)
    BY <1>1, <2>1, <2>2, <2>3, <2>5, SameOrder
  <2> QED BY <2>6 DEF P
<1> DEFINE I == {j \in DOMAIN slots : slots[j] # <<>>}
           A == {SlotTicks(i) + roll[slots[i][1]] * LEN : i \in I}
           B == {TicksLeft(t) : t \in ToSet(armed)}
<1>3. DOMAIN slots = 0 .. LEN - 1 /\ ToSet(armed) = {t \in Sleeper : Contains(armed, t)}
  BY <1>1, OnList
<1>4. \A i \in I : /\ i \in 0 .. LEN - 1 /\ slots[i][1] \in ToSet(armed)
                   /\ SlotTicks(i) + roll[slots[i][1]] * LEN = TicksLeft(slots[i][1])
                   /\ \A u \in Sleeper : Contains(slots[i], u) =>
                        TicksLeft(slots[i][1]) <= TicksLeft(u)
  BY <1>3, FirstOfSlot
<1>5. \A t \in ToSet(armed) : /\ t \in Sleeper /\ index[t] \in I /\ Contains(slots[index[t]], t)
                              /\ TicksLeft(t) \in Nat
  <2> SUFFICES ASSUME NEW t \in Sleeper, Contains(armed, t)
               PROVE  index[t] \in I /\ Contains(slots[index[t]], t) /\ TicksLeft(t) \in Nat
    BY <1>3
  <2>1. index[t] \in 0 .. LEN - 1 /\ TicksLeft(t) \in Nat
    BY TicksOf
  <2>2. Contains(slots[index[t]], t)
    BY <2>1, SlotFacts
  <2>3. slots[index[t]] # <<>>
    BY <1>1, <2>1, <2>2, OnList
  <2> QED BY <1>3, <2>1, <2>2, <2>3
<1> HIDE DEF I
<1>6. A \subseteq B /\ A \in SUBSET Nat /\ B \in SUBSET Nat
  BY <1>4, <1>5
<1>7. \A b \in B : \E a \in A : a <= b
  BY <1>4, <1>5
<1>8. armed = <<>> <=> B = {}
  <2>1. armed = <<>> <=> ToSet(armed) = {}
    BY <1>1, <1>3, OnList
  <2> QED BY <2>1
<1>9. A = {} <=> B = {}
  BY <1>6, <1>7
<1>10. A # {} => Min(A) = Min(B)
  <2> HIDE DEF A, B
  <2> QED BY <1>6, <1>7, SameMin
<1>11. osTaskNextSwitchTimeGet = IF A = {} THEN 0 ELSE Min(A)
  BY DEF osTaskNextSwitchTimeGet, I
<1>12. osTaskNextSwitchTimeGet = IF armed = <<>> THEN 0 ELSE Min(B)
  <2> HIDE DEF A, B
  <2> QED BY <1>8, <1>9, <1>10, <1>11
<1> QED BY <1>2, <1>12 DEF NextExpiryExact

-----------------------------------------------------------------------------
(* The behaviours of the wheel                                             *)

\* What a step does to the wheel.
LEMMA WheelNext ==
  ASSUME [TicklessNext]_ticklessVars
  PROVE  \/ UNCHANGED allVars
         \/ osTaskScan
         \/ \E t \in Sleeper : osTimerListDelete(t) \/ \E n \in Delays : osTaskAdd2TimerList(t, n)
<1>1. CASE UNCHANGED ticklessVars
  BY <1>1 DEF ticklessVars
<1>2. CASE Cycle \/ osTicklessStart \/ TickInterrupt \/ DeviceInterrupt
           \/ osUpdateKernelTickCount \/ DeviceHandler \/ SwtmrTaskCall
  BY <1>2 DEF Cycle, osTicklessStart, TickInterrupt, DeviceInterrupt, osUpdateKernelTickCount,
     DeviceHandler, SwtmrTaskCall
<1>3. CASE osTickHandlerLoop \/ osTickHandler
  BY <1>3 DEF osTickHandlerLoop, osTickHandler, TickWork
<1>4. CASE TaskTimerCall
  BY <1>4 DEF TaskTimerCall
<1> QED BY <1>1, <1>2, <1>3, <1>4 DEF TicklessNext

\* A step that leaves the wheel alone leaves the timers and their ticks alone.
LEMMA WheelIdle ==
  ASSUME UNCHANGED allVars
  PROVE  /\ cursor' = cursor /\ slots' = slots /\ roll' = roll /\ index' = index /\ armed' = armed
         /\ AbsTicks' = AbsTicks /\ (WheelInv => WheelInv')
<1>1. cursor' = cursor /\ slots' = slots /\ roll' = roll /\ index' = index /\ armed' = armed
  BY DEF allVars, wheel
<1>2. AbsTicks' = AbsTicks
  BY <1>1 DEF AbsTicks, TicksLeft, Turns
<1>3. WheelInv => WheelInv'
  <2>1. WheelTypes => WheelTypes'
    BY <1>1 DEF WheelTypes
  <2>2. SlotsExact => SlotsExact'
    BY <1>1 DEF SlotsExact
  <2>3. SlotsInOrder => SlotsInOrder'
    BY <1>1 DEF SlotsInOrder, Turns
  <2> QED BY <2>1, <2>2, <2>3 DEF WheelInv
<1> QED BY <1>1, <1>2, <1>3

\* The empty wheel.
LEMMA WheelStart ==
  ASSUME WheelInit
  PROVE  WheelInv /\ Abs!AbsInit
<1>1. /\ cursor = 0 /\ slots = [i \in 0 .. LEN - 1 |-> <<>>]
      /\ roll = [t \in Sleeper |-> 0] /\ index = [t \in Sleeper |-> 0] /\ armed = <<>>
  BY DEF WheelInit
<1>2. 0 \in 0 .. LEN - 1
  BY WheelAssumption
<1>3. <<>> \in Seq(Sleeper) /\ IsInjective(<<>>) /\ \A u : ~Contains(<<>>, u)
  <2>1. <<>> \in Seq(Sleeper) /\ Len(<<>>) = 0 /\ DOMAIN <<>> = {}
    OBVIOUS
  <2> QED BY <2>1 DEF IsInjective, Contains
<1>4. WheelTypes
  BY <1>1, <1>2, <1>3 DEF WheelTypes
<1>5. SlotsExact
  BY <1>1, <1>3 DEF SlotsExact
<1>6. SlotsInOrder
  BY <1>1, <1>3 DEF SlotsInOrder
<1>7. AbsTicks = [t \in Sleeper |-> 0]
  BY <1>1, <1>3 DEF AbsTicks
<1> QED BY <1>1, <1>4, <1>5, <1>6, <1>7 DEF WheelInv, Abs!AbsInit

\* Each step maps to one of AbsTimers, or to none.
LEMMA WheelStep ==
  ASSUME WheelInv, [TicklessNext]_ticklessVars
  PROVE  /\ WheelInv' /\ [Abs!AbsNext]_(Abs!absVars)
         /\ [\A t \in Sleeper, n \in Delays :
               osTaskAdd2TimerList(t, n) => Abs!Arm(t, n)]_allVars
<1>1. \A t \in Sleeper, n \in Delays : osTaskAdd2TimerList(t, n) => Abs!Arm(t, n)
  BY ArmTicks
<1>2. CASE UNCHANGED allVars
  <2>1. WheelInv' /\ UNCHANGED Abs!absVars
    BY <1>2, WheelIdle DEF Abs!absVars
  <2> QED BY <1>1, <2>1
<1>3. CASE osTaskScan
  <2>1. WheelInv' /\ Abs!Tick
    BY <1>3, ScanStep, ScanTicks
  <2> QED BY <1>1, <2>1 DEF Abs!AbsNext
<1>4. ASSUME NEW t \in Sleeper, osTimerListDelete(t)
      PROVE  WheelInv' /\ Abs!AbsNext
  <2>1. WheelInv' /\ Abs!Disarm(t)
    BY <1>4, DisarmStep, DisarmTicks
  <2> QED BY <2>1 DEF Abs!AbsNext
<1>5. ASSUME NEW t \in Sleeper, NEW n \in Delays, osTaskAdd2TimerList(t, n)
      PROVE  WheelInv' /\ Abs!AbsNext
  <2>1. n \in Nat \ {0}
    BY WheelAssumption
  <2>2. WheelInv'
    BY <1>5, <2>1, ArmStep
  <2>3. Abs!Arm(t, AbsTicks'[t])
    BY <1>5, ArmTicks
  <2> QED BY <2>2, <2>3 DEF Abs!AbsNext
<1> QED BY <1>1, <1>2, <1>3, <1>4, <1>5, WheelNext

\* The wheel is consistent in every state.
THEOREM WheelInvariance == TicklessSpec => []WheelInv
<1>1. TicklessInit => WheelInv
  BY WheelStart DEF TicklessInit
<1>2. WheelInv /\ [TicklessNext]_ticklessVars => WheelInv'
  BY WheelStep
<1> QED BY <1>1, <1>2, PTL DEF TicklessSpec

\* The next tick ends exactly the timers with one tick left, in the order of
\* their arming, and osTaskNextSwitchTimeGet tells tickless idle exactly the
\* ticks until the first timer expires.
THEOREM TicklessToldRight == TicklessSpec => []NextExpiryExact
<1>1. WheelInv => NextExpiryExact
  BY NextExpiryOK
<1> QED BY <1>1, WheelInvariance, PTL

\* The timer wheel, with its slots, turns and relative times, implements the
\* list of ticks of AbsTimers.
THEOREM WheelImplementsTimers == TicklessSpec => CountsDown
<1>1. TicklessInit => Abs!AbsInit
  BY WheelStart DEF TicklessInit
<1>2. WheelInv /\ [TicklessNext]_ticklessVars =>
        /\ [Abs!AbsNext]_(Abs!absVars)
        /\ [\A t \in Sleeper, n \in Delays :
              osTaskAdd2TimerList(t, n) => Abs!Arm(t, n)]_allVars
  BY WheelStep
<1> QED BY <1>1, <1>2, WheelInvariance, PTL DEF TicklessSpec, CountsDown, Abs!AbsSpec

-----------------------------------------------------------------------------
(* The lists of the software timers                                        *)

\* The place of the first later node, by what is in front of it and behind.
LEMMA FirstLaterIs ==
  ASSUME NEW S, NEW list, NEW rel, Deltas(S, list, rel), NEW n \in Nat,
         NEW q \in 1 .. Len(list) + 1,
         \A j \in 1 .. q - 1 : Times(list, rel)[j] <= n,
         \A j \in q .. Len(list) : Times(list, rel)[j] > n
  PROVE  FirstLater(list, rel, n) = q
<1>1. /\ FirstLater(list, rel, n) \in 1 .. Len(list) + 1
      /\ \A j \in 0 .. FirstLater(list, rel, n) - 1 : Times(list, rel)[j] <= n
      /\ \A j \in FirstLater(list, rel, n) .. Len(list) : Times(list, rel)[j] > n
  BY FirstLaterOK
<1>2. PICK p \in 1 .. Len(list) + 1 : p = FirstLater(list, rel, n)
  BY <1>1
<1>3. Len(list) \in Nat /\ \A j \in 0 .. Len(list) : Times(list, rel)[j] \in Nat
  BY TimesRise DEF Deltas
<1>4. CASE p < q
  <2>1. p \in 1 .. q - 1 /\ p \in p .. Len(list) /\ p \in 0 .. Len(list)
    BY <1>2, <1>3, <1>4
  <2>2. Times(list, rel)[p] <= n /\ Times(list, rel)[p] > n /\ Times(list, rel)[p] \in Nat
    BY <1>1, <1>2, <1>3, <2>1
  <2>3. PICK x \in Nat : x = Times(list, rel)[p]
    BY <2>2
  <2> QED BY <2>2, <2>3
<1>5. CASE q < p
  <2>1. q \in 0 .. p - 1 /\ q \in q .. Len(list) /\ q \in 0 .. Len(list)
    BY <1>2, <1>3, <1>5
  <2>2. Times(list, rel)[q] <= n /\ Times(list, rel)[q] > n /\ Times(list, rel)[q] \in Nat
    BY <1>1, <1>2, <1>3, <2>1
  <2>3. PICK x \in Nat : x = Times(list, rel)[q]
    BY <2>2
  <2> QED BY <2>2, <2>3
<1>6. p = q
  BY <1>2, <1>3, <1>4, <1>5
<1> QED BY <1>2, <1>6

\* Linking a node with a time does not change how many have time 0.
LEMMA LinkedZeros ==
  ASSUME NEW S, NEW list, NEW rel, Deltas(S, list, rel), NEW t \in S, ~Contains(list, t),
         NEW n \in Nat \ {0}, NEW p, NEW L, NEW R, LinkedAt(list, rel, t, n, p, L, R)
  PROVE  FirstLater(L, R, 0) = FirstLater(list, rel, 0)
<1>1. /\ p \in 1 .. Len(list) + 1
      /\ \A j \in 0 .. p - 1 : Times(list, rel)[j] <= n
      /\ \A j \in p .. Len(list) : Times(list, rel)[j] > n
  BY FirstLaterOK DEF LinkedAt
<1>2. /\ Deltas(S, L, R) /\ Len(L) = Len(list) + 1
      /\ \A j \in 0 .. Len(list) + 1 :
           Times(L, R)[j] = IF j < p THEN Times(list, rel)[j]
                            ELSE IF j = p THEN n ELSE Times(list, rel)[j - 1]
  BY <1>1, LinkedTimes
<1>3. /\ FirstLater(list, rel, 0) \in 1 .. Len(list) + 1
      /\ \A j \in 0 .. FirstLater(list, rel, 0) - 1 : Times(list, rel)[j] <= 0
      /\ \A j \in FirstLater(list, rel, 0) .. Len(list) : Times(list, rel)[j] > 0
  BY FirstLaterOK
<1>4. PICK q \in 1 .. Len(list) + 1 : q = FirstLater(list, rel, 0)
  BY <1>3
<1>5. Len(list) \in Nat /\ \A j \in 0 .. Len(list) : Times(list, rel)[j] \in Nat
  BY TimesRise DEF Deltas
<1>6. q <= p
  <2> SUFFICES ASSUME p < q PROVE FALSE
    BY <1>1, <1>5
  <2>1. p \in 0 .. q - 1 /\ p \in p .. Len(list) /\ p \in 0 .. Len(list)
    BY <1>1, <1>4, <1>5
  <2>2. PICK x \in Nat : x = Times(list, rel)[p]
    BY <1>5, <2>1
  <2>3. x <= 0 /\ x > n
    BY <1>1, <1>3, <1>4, <2>1, <2>2
  <2> QED BY <2>3
<1>7. \A j \in 1 .. q - 1 : Times(L, R)[j] <= 0
  <2> SUFFICES ASSUME NEW j \in 1 .. q - 1 PROVE Times(L, R)[j] <= 0
    OBVIOUS
  <2>1. j \in 0 .. Len(list) + 1 /\ j < p /\ j \in 0 .. q - 1
    BY <1>1, <1>4, <1>5, <1>6
  <2> QED BY <1>2, <1>3, <1>4, <2>1
<1>8. \A j \in q .. Len(L) : Times(L, R)[j] > 0
  <2> SUFFICES ASSUME NEW j \in q .. Len(L) PROVE Times(L, R)[j] > 0
    OBVIOUS
  <2>1. j \in 0 .. Len(list) + 1
    BY <1>2, <1>4, <1>5
  <2>2. CASE j < p
    <3>1. j \in q .. Len(list)
      BY <1>1, <1>4, <1>5, <2>1, <2>2
    <3> QED BY <1>2, <1>3, <1>4, <2>1, <2>2, <3>1
  <2>3. CASE j = p
    BY <1>2, <2>1, <2>3
  <2>4. CASE j > p
    <3>1. j - 1 \in q .. Len(list)
      BY <1>1, <1>4, <1>5, <1>6, <2>1, <2>4
    <3>2. Times(L, R)[j] = Times(list, rel)[j - 1]
      BY <1>1, <1>2, <2>1, <2>4
    <3> QED BY <1>3, <1>4, <3>1, <3>2
  <2> QED BY <1>1, <2>1, <2>2, <2>3, <2>4
<1>9. q \in 1 .. Len(L) + 1
  BY <1>2, <1>4, <1>5
<1>10. FirstLater(L, R, 0) = q
  BY <1>2, <1>7, <1>8, <1>9, FirstLaterIs
<1> QED BY <1>4, <1>10

\* Taking off the first node, with time 0, leaves one less of them.  The others
\* keep their times.
LEMMA TailOf ==
  ASSUME NEW S, NEW list, NEW rel, Deltas(S, list, rel), list # <<>>, rel[list[1]] = 0,
         NEW T, TailAt(list, T)
  PROVE  /\ Deltas(S, T, rel) /\ list[1] \in S /\ Contains(list, list[1])
         /\ \A u : Contains(T, u) <=> u # list[1] /\ Contains(list, u)
         /\ \A u : Contains(T, u) => TimeOf(T, rel, u) = TimeOf(list, rel, u)
         /\ TimeOf(list, rel, list[1]) = 0
         /\ FirstLater(list, rel, 0) \in 1 .. Len(list) + 1
         /\ FirstLater(T, rel, 0) = FirstLater(list, rel, 0) - 1
<1>1. /\ Deltas(S, T, rel) /\ Len(T) = Len(list) - 1
      /\ \A j \in 1 .. Len(list) - 1 : T[j] = list[j + 1]
      /\ \A j \in 0 .. Len(list) - 1 : Times(T, rel)[j] = Times(list, rel)[j + 1]
  BY TailTimes
<1>2. list \in Seq(S) /\ IsInjective(list) /\ Len(list) \in Nat \ {0} /\ T \in Seq(S)
  <2>1. list \in Seq(S) /\ IsInjective(list) /\ T \in Seq(S)
    BY <1>1 DEF Deltas
  <2>2. Len(list) \in Nat /\ Len(list) # 0
    BY <2>1, EmptySeq
  <2> QED BY <2>1, <2>2
<1>3. \A u : Contains(list, u) <=> \E j \in 1 .. Len(list) : list[j] = u
  BY <1>2, OnList
<1>4. \A u : Contains(T, u) <=> \E j \in 1 .. Len(list) - 1 : list[j + 1] = u
  <2>1. \A u : Contains(T, u) <=> \E j \in 1 .. Len(T) : T[j] = u
    BY <1>2, OnList
  <2> QED BY <1>1, <2>1
<1>5. list[1] \in S /\ Contains(list, list[1])
  BY <1>2, <1>3
<1>6. \A u : Contains(T, u) <=> u # list[1] /\ Contains(list, u)
  <2> SUFFICES ASSUME NEW u PROVE Contains(T, u) <=> u # list[1] /\ Contains(list, u)
    OBVIOUS
  <2>1. ASSUME Contains(T, u) PROVE u # list[1] /\ Contains(list, u)
    <3>1. PICK j \in 1 .. Len(list) - 1 : list[j + 1] = u
      BY <1>4, <2>1
    <3>2. j + 1 \in 1 .. Len(list) /\ 1 \in 1 .. Len(list) /\ j + 1 # 1
      BY <1>2
    <3>3. list[j + 1] # list[1]
      BY <1>2, <3>2 DEF IsInjective
    <3> QED BY <1>3, <3>1, <3>2, <3>3
  <2>2. ASSUME u # list[1], Contains(list, u) PROVE Contains(T, u)
    <3>1. PICK j \in 1 .. Len(list) : list[j] = u
      BY <1>3, <2>2
    <3>2. j - 1 \in 1 .. Len(list) - 1 /\ (j - 1) + 1 = j
      BY <1>2, <2>2, <3>1
    <3> QED BY <1>4, <3>1, <3>2
  <2> QED BY <2>1, <2>2
<1>7. ASSUME NEW u, Contains(T, u) PROVE TimeOf(T, rel, u) = TimeOf(list, rel, u)
  <2>1. PICK j \in 1 .. Len(list) - 1 : list[j + 1] = u
    BY <1>4, <1>7
  <2>2. j \in 1 .. Len(T) /\ j + 1 \in 1 .. Len(list) /\ j \in 0 .. Len(list) - 1
    BY <1>1, <1>2
  <2>3. TimeOf(T, rel, T[j]) = Times(T, rel)[j]
    BY <1>1, <2>2, TimeAt
  <2>4. TimeOf(list, rel, list[j + 1]) = Times(list, rel)[j + 1]
    BY <2>2, TimeAt
  <2> QED BY <1>1, <2>1, <2>2, <2>3, <2>4
<1>8. Times(list, rel)[0] = 0 /\ Times(list, rel)[1] = 0
  <2>1. Times(list, rel)[0] = 0 /\ Times(list, rel)[1] = Times(list, rel)[1 - 1] + rel[list[1]]
    BY <1>2, TimesStep
  <2> QED BY <2>1
<1>9. TimeOf(list, rel, list[1]) = 0
  BY <1>2, <1>8, TimeAt
<1>10. /\ FirstLater(list, rel, 0) \in 1 .. Len(list) + 1
       /\ \A j \in 0 .. FirstLater(list, rel, 0) - 1 : Times(list, rel)[j] <= 0
       /\ \A j \in FirstLater(list, rel, 0) .. Len(list) : Times(list, rel)[j] > 0
  BY FirstLaterOK
<1>11. PICK q \in 1 .. Len(list) + 1 : q = FirstLater(list, rel, 0)
  BY <1>10
<1>12. q # 1
  <2> SUFFICES ASSUME q = 1 PROVE FALSE
    OBVIOUS
  <2>1. 1 \in q .. Len(list)
    BY <1>2
  <2> QED BY <1>8, <1>10, <1>11, <2>1
<1>13. \A j \in 1 .. (q - 1) - 1 : Times(T, rel)[j] <= 0
  <2> SUFFICES ASSUME NEW j \in 1 .. (q - 1) - 1 PROVE Times(T, rel)[j] <= 0
    OBVIOUS
  <2>1. j \in 0 .. Len(list) - 1 /\ j + 1 \in 0 .. q - 1
    BY <1>2, <1>11
  <2> QED BY <1>1, <1>10, <1>11, <2>1
<1>14. \A j \in q - 1 .. Len(T) : Times(T, rel)[j] > 0
  <2> SUFFICES ASSUME NEW j \in q - 1 .. Len(T) PROVE Times(T, rel)[j] > 0
    OBVIOUS
  <2>1. j \in 0 .. Len(list) - 1 /\ j + 1 \in q .. Len(list)
    BY <1>1, <1>2, <1>11
  <2> QED BY <1>1, <1>10, <1>11, <2>1
<1>15. q - 1 \in 1 .. Len(T) + 1
  BY <1>1, <1>2, <1>11, <1>12
<1>16. FirstLater(T, rel, 0) = q - 1
  <2>1. PICK r \in 1 .. Len(T) + 1 : r = q - 1
    BY <1>15
  <2>2. \A j \in 1 .. r - 1 : Times(T, rel)[j] <= 0
    BY <1>13, <2>1
  <2>3. \A j \in r .. Len(T) : Times(T, rel)[j] > 0
    BY <1>14, <2>1
  <2>4. Deltas(S, T, rel) /\ 0 \in Nat
    BY <1>1
  <2>5. FirstLater(T, rel, 0) = r
    BY <2>2, <2>3, <2>4, FirstLaterIs
  <2> QED BY <2>1, <2>5
<1>17. FirstLater(list, rel, 0) \in 1 .. Len(list) + 1 /\ FirstLater(T, rel, 0) = FirstLater(list, rel, 0) - 1
  BY <1>11, <1>16
<1>18. Deltas(S, T, rel)
  BY <1>1
<1> QED BY <1>5, <1>6, <1>7, <1>9, <1>17, <1>18

-----------------------------------------------------------------------------
(* The operators on the record of the software timers                      *)

\* The type of the record.
SwtmrTypes(v) ==
  v \in [state : [Swtmr -> {"UNUSED", "CREATED", "TICKING"}], mode : [Swtmr -> Modes],
         interval : [Swtmr -> Nat], count : [Swtmr -> Nat],
         sort : Seq(Swtmr), free : Seq(Swtmr), queue : Seq(Swtmr)]

\* The record has its fields, and the list of the running timers is one of
\* relative times.
LEMMA SwtmrFields ==
  ASSUME NEW v, SwtmrTypes(v)
  PROVE  /\ v.state \in [Swtmr -> {"UNUSED", "CREATED", "TICKING"}] /\ v.mode \in [Swtmr -> Modes]
         /\ v.interval \in [Swtmr -> Nat] /\ v.count \in [Swtmr -> Nat]
         /\ v.sort \in Seq(Swtmr) /\ v.free \in Seq(Swtmr) /\ v.queue \in Seq(Swtmr)
         /\ IsInjective(v.sort) => Deltas(Swtmr, v.sort, v.count)
BY DEF SwtmrTypes, Deltas

\* x is v with timer s started: it runs for its interval, the others as before.
StartedIn(v, s, x) ==
  /\ SwtmrTypes(x) /\ IsInjective(x.sort)
  /\ x.state = [v.state EXCEPT ![s] = "TICKING"]
  /\ x.mode = v.mode /\ x.interval = v.interval /\ x.free = v.free /\ x.queue = v.queue
  /\ \A u : Contains(x.sort, u) <=> u = s \/ Contains(v.sort, u)
  /\ osSwtmrTimeGet(x, s) = v.interval[s]
  /\ \A u : Contains(v.sort, u) => osSwtmrTimeGet(x, u) = osSwtmrTimeGet(v, u)
  /\ v.interval[s] > 0 => FirstLater(x.sort, x.count, 0) = FirstLater(v.sort, v.count, 0)

\* osSwTmrStart starts the timer.
LEMMA StartOf ==
  ASSUME NEW v, SwtmrTypes(v), IsInjective(v.sort), NEW s \in Swtmr, ~Contains(v.sort, s),
         NEW x, x = osSwTmrStart(v, s)
  PROVE  StartedIn(v, s, x)
<1> DEFINE n == v.interval[s]
           p == FirstLater(v.sort, v.count, n)
<1>1. /\ v.state \in [Swtmr -> {"UNUSED", "CREATED", "TICKING"}]
      /\ n \in Nat /\ Deltas(Swtmr, v.sort, v.count)
  BY SwtmrFields
<1>2. /\ x.sort = Linked(v.sort, s, p) /\ x.count = LinkedRel(v.sort, v.count, s, n, p)
      /\ x.state = [v.state EXCEPT ![s] = "TICKING"]
      /\ x.mode = v.mode /\ x.interval = v.interval /\ x.free = v.free /\ x.queue = v.queue
      /\ x = [v EXCEPT !.sort = x.sort, !.state = x.state, !.count = x.count]
  BY DEF osSwTmrStart, SwtmrTypes
<1>3. LinkedAt(v.sort, v.count, s, n, p, x.sort, x.count)
  BY <1>2 DEF LinkedAt
<1> HIDE DEF n, p
<1>4. /\ Deltas(Swtmr, x.sort, x.count)
      /\ \A u : Contains(x.sort, u) <=> u = s \/ Contains(v.sort, u)
      /\ TimeOf(x.sort, x.count, s) = n
      /\ \A u : Contains(v.sort, u) =>
           TimeOf(x.sort, x.count, u) = TimeOf(v.sort, v.count, u)
  BY <1>1, <1>3, LinkedOf
<1>5. n > 0 => FirstLater(x.sort, x.count, 0) = FirstLater(v.sort, v.count, 0)
  <2> SUFFICES ASSUME n > 0 PROVE FirstLater(x.sort, x.count, 0) = FirstLater(v.sort, v.count, 0)
    OBVIOUS
  <2>1. n \in Nat \ {0}
    BY <1>1
  <2> QED BY <1>1, <1>3, <2>1, LinkedZeros
<1>6. x.sort \in Seq(Swtmr) /\ x.count \in [Swtmr -> Nat] /\ IsInjective(x.sort)
  BY <1>4 DEF Deltas
<1>7. x.state \in [Swtmr -> {"UNUSED", "CREATED", "TICKING"}]
  BY <1>1, <1>2
<1>8. SwtmrTypes(x)
  BY <1>2, <1>6, <1>7 DEF SwtmrTypes
<1> QED BY <1>2, <1>4, <1>5, <1>6, <1>8 DEF osSwtmrTimeGet, n, StartedIn

\* osSwtmrStop: the others run on as before.
LEMMA StopOf ==
  ASSUME NEW v, SwtmrTypes(v), IsInjective(v.sort), NEW s \in Swtmr, Contains(v.sort, s),
         NEW x, x = osSwtmrStop(v, s)
  PROVE  /\ SwtmrTypes(x) /\ IsInjective(x.sort)
         /\ x.state = [v.state EXCEPT ![s] = "CREATED"]
         /\ x.mode = v.mode /\ x.interval = v.interval /\ x.free = v.free /\ x.queue = v.queue
         /\ \A u : Contains(x.sort, u) <=> u # s /\ Contains(v.sort, u)
         /\ \A u : Contains(x.sort, u) => osSwtmrTimeGet(x, u) = osSwtmrTimeGet(v, u)
<1> DEFINE p == Place(v.sort, s)
<1>1. /\ v.state \in [Swtmr -> {"UNUSED", "CREATED", "TICKING"}]
      /\ Deltas(Swtmr, v.sort, v.count)
  BY SwtmrFields
<1>2. /\ x.sort = RemoveFirst(v.sort, s) /\ x.count = UnlinkedRel(v.sort, v.count, s)
      /\ x.state = [v.state EXCEPT ![s] = "CREATED"]
      /\ x.mode = v.mode /\ x.interval = v.interval /\ x.free = v.free /\ x.queue = v.queue
      /\ x = [v EXCEPT !.sort = x.sort, !.state = x.state, !.count = x.count]
  BY DEF osSwtmrStop, SwtmrTypes
<1>3. UnlinkedAt(v.sort, v.count, s, p, x.sort, x.count)
  BY <1>2 DEF UnlinkedAt
<1> HIDE DEF p
<1>4. /\ Deltas(Swtmr, x.sort, x.count)
      /\ \A u : Contains(x.sort, u) <=> u # s /\ Contains(v.sort, u)
      /\ \A u : Contains(x.sort, u) =>
           TimeOf(x.sort, x.count, u) = TimeOf(v.sort, v.count, u)
  BY <1>1, <1>3, UnlinkedOf
<1>6. x.sort \in Seq(Swtmr) /\ x.count \in [Swtmr -> Nat] /\ IsInjective(x.sort)
  BY <1>4 DEF Deltas
<1>7. x.state \in [Swtmr -> {"UNUSED", "CREATED", "TICKING"}]
  BY <1>1, <1>2
<1>8. SwtmrTypes(x)
  BY <1>2, <1>6, <1>7 DEF SwtmrTypes
<1> QED BY <1>2, <1>4, <1>6, <1>8 DEF osSwtmrTimeGet

\* What a node that is not on a list stores has no say in its times.
LEMMA OffList ==
  ASSUME NEW S, NEW list, NEW rel, NEW r, Deltas(S, list, rel), Deltas(S, list, r),
         \A u : Contains(list, u) => r[u] = rel[u]
  PROVE  /\ \A u : TimeOf(list, r, u) = TimeOf(list, rel, u)
         /\ FirstLater(list, r, 0) = FirstLater(list, rel, 0)
<1>1. list \in Seq(S) /\ IsInjective(list) /\ Len(list) \in Nat
  BY DEF Deltas
<1>2. \A j \in 0 .. Len(list) : Times(list, r)[j] = Times(list, rel)[j]
  BY <1>1, SameTimes
<1>3. \A u : Place(list, u) \in 0 .. Len(list)
  <2> SUFFICES ASSUME NEW u PROVE Place(list, u) \in 0 .. Len(list)
    OBVIOUS
  <2>1. /\ Contains(list, u) => Place(list, u) \in 1 .. Len(list)
        /\ ~Contains(list, u) => Place(list, u) = 0
    BY <1>1, PlaceOK
  <2> QED BY <1>1, <2>1
<1>4. \A u : TimeOf(list, r, u) = TimeOf(list, rel, u)
  BY <1>2, <1>3 DEF TimeOf
<1>5. {j \in 1 .. Len(list) : Times(list, r)[j] > 0} = {j \in 1 .. Len(list) : Times(list, rel)[j] > 0}
  <2>1. \A j \in 1 .. Len(list) : Times(list, r)[j] = Times(list, rel)[j]
    BY <1>1, <1>2
  <2> QED BY <2>1
<1> QED BY <1>4, <1>5 DEF FirstLater

\* x is v after osSwtmrDelete.
DeletedAt(v, s, x) == x = osSwtmrDelete(v, s)

\* osSwtmrDelete, of a timer that is not running.
LEMMA DeleteOf ==
  ASSUME NEW v, SwtmrTypes(v), IsInjective(v.sort), IsInjective(v.free), NEW s \in Swtmr,
         ~Contains(v.sort, s), ~Contains(v.free, s), NEW x, DeletedAt(v, s, x)
  PROVE  /\ SwtmrTypes(x) /\ IsInjective(x.free)
         /\ x.state = [v.state EXCEPT ![s] = "UNUSED"]
         /\ x.sort = v.sort /\ x.queue = v.queue
         /\ \A u \in Swtmr : u # s => x.mode[u] = v.mode[u] /\ x.interval[u] = v.interval[u]
         /\ \A u : Contains(x.free, u) <=> u = s \/ Contains(v.free, u)
         /\ \A u : osSwtmrTimeGet(x, u) = osSwtmrTimeGet(v, u)
         /\ FirstLater(x.sort, x.count, 0) = FirstLater(v.sort, v.count, 0)
<1>1. /\ v.state \in [Swtmr -> {"UNUSED", "CREATED", "TICKING"}] /\ v.mode \in [Swtmr -> Modes]
      /\ v.interval \in [Swtmr -> Nat] /\ v.count \in [Swtmr -> Nat] /\ v.free \in Seq(Swtmr)
      /\ Deltas(Swtmr, v.sort, v.count)
  BY SwtmrFields
<1>2. /\ x.state = [v.state EXCEPT ![s] = "UNUSED"] /\ x.mode = [v.mode EXCEPT ![s] = "ONCE"]
      /\ x.interval = [v.interval EXCEPT ![s] = 0] /\ x.count = [v.count EXCEPT ![s] = 0]
      /\ x.sort = v.sort /\ x.queue = v.queue /\ x.free = <<s>> \o v.free
      /\ x = [v EXCEPT !.state = x.state, !.mode = x.mode, !.interval = x.interval,
                       !.count = x.count, !.free = x.free]
  BY DEF DeletedAt, osSwtmrDelete, SwtmrTypes
<1>3. /\ x.state \in [Swtmr -> {"UNUSED", "CREATED", "TICKING"}] /\ x.mode \in [Swtmr -> Modes]
      /\ x.interval \in [Swtmr -> Nat] /\ x.count \in [Swtmr -> Nat]
      /\ \A u \in Swtmr : u # s =>
           x.mode[u] = v.mode[u] /\ x.interval[u] = v.interval[u] /\ x.count[u] = v.count[u]
  BY <1>1, <1>2 DEF Modes
<1>4. /\ x.free \in Seq(Swtmr) /\ IsInjective(x.free)
      /\ \A u : Contains(x.free, u) <=> u = s \/ Contains(v.free, u)
  <2> DEFINE F == v.free
             m == Len(F)
  <2>1. F \in Seq(Swtmr) /\ m \in Nat /\ \A i, j \in 1 .. m : F[i] = F[j] => i = j
    BY <1>1 DEF IsInjective
  <2>2. /\ x.free \in Seq(Swtmr) /\ Len(x.free) = m + 1 /\ x.free[1] = s
        /\ \A j \in 2 .. m + 1 : x.free[j] = F[j - 1]
    BY <1>1, <1>2
  <2>3. /\ \A u : Contains(x.free, u) <=> \E j \in 1 .. m + 1 : x.free[j] = u
        /\ \A u : Contains(F, u) <=> \E j \in 1 .. m : F[j] = u
    <3>1. \A u : Contains(x.free, u) <=> \E j \in 1 .. Len(x.free) : x.free[j] = u
      BY <2>2, OnList
    <3> QED BY <2>1, <2>2, <3>1, OnList
  <2> HIDE DEF F, m
  <2>4. ASSUME NEW u PROVE Contains(x.free, u) <=> u = s \/ Contains(F, u)
    <3>1. ASSUME Contains(x.free, u), u # s PROVE Contains(F, u)
      <4>1. PICK j \in 1 .. m + 1 : x.free[j] = u
        BY <2>3, <3>1
      <4>2. j \in 2 .. m + 1 /\ j - 1 \in 1 .. m
        BY <2>1, <2>2, <3>1, <4>1
      <4> QED BY <2>2, <2>3, <4>1, <4>2
    <3>2. ASSUME Contains(F, u) PROVE Contains(x.free, u)
      <4>1. PICK j \in 1 .. m : F[j] = u
        BY <2>3, <3>2
      <4>2. j + 1 \in 2 .. m + 1 /\ j + 1 \in 1 .. m + 1 /\ (j + 1) - 1 = j
        BY <2>1
      <4> QED BY <2>2, <2>3, <4>1, <4>2
    <3>3. Contains(x.free, s)
      <4>1. 1 \in 1 .. m + 1
        BY <2>1
      <4> QED BY <2>2, <2>3, <4>1
    <3> QED BY <3>1, <3>2, <3>3
  <2>5. \A j \in 1 .. m : F[j] # s
    BY <2>3 DEF F
  <2>6. ASSUME NEW i \in 1 .. m + 1, NEW j \in 1 .. m + 1, x.free[i] = x.free[j] PROVE i = j
    <3>1. CASE i = 1 /\ j = 1
      BY <3>1
    <3>2. CASE i = 1 /\ j # 1
      <4>1. j \in 2 .. m + 1 /\ j - 1 \in 1 .. m
        BY <2>1, <3>2
      <4> QED BY <2>2, <2>5, <2>6, <3>2, <4>1
    <3>3. CASE i # 1 /\ j = 1
      <4>1. i \in 2 .. m + 1 /\ i - 1 \in 1 .. m
        BY <2>1, <3>3
      <4> QED BY <2>2, <2>5, <2>6, <3>3, <4>1
    <3>4. CASE i # 1 /\ j # 1
      <4>1. i \in 2 .. m + 1 /\ i - 1 \in 1 .. m /\ j \in 2 .. m + 1 /\ j - 1 \in 1 .. m
        BY <2>1, <3>4
      <4>2. F[i - 1] = F[j - 1]
        BY <2>2, <2>6, <4>1
      <4>3. i - 1 = j - 1
        BY <2>1, <4>1, <4>2
      <4> QED BY <4>1, <4>3
    <3> QED BY <3>1, <3>2, <3>3, <3>4
  <2>7. IsInjective(x.free)
    BY <2>2, <2>6 DEF IsInjective
  <2> QED BY <2>2, <2>4, <2>7 DEF F
<1>5. SwtmrTypes(x)
  <2>1. v.sort \in Seq(Swtmr) /\ v.queue \in Seq(Swtmr)
    BY SwtmrFields
  <2> QED BY <1>2, <1>3, <1>4, <2>1 DEF SwtmrTypes
<1>6. Deltas(Swtmr, v.sort, x.count)
  BY <1>1, <1>3 DEF Deltas
<1>7. \A u : Contains(v.sort, u) => x.count[u] = v.count[u]
  <2>1. \A u : Contains(v.sort, u) => u \in Swtmr
    BY <1>1, OnList DEF Deltas
  <2> QED BY <1>3, <2>1
<1>8. /\ \A u : TimeOf(v.sort, x.count, u) = TimeOf(v.sort, v.count, u)
      /\ FirstLater(v.sort, x.count, 0) = FirstLater(v.sort, v.count, 0)
  <2>1. PICK list, rel, r : list = v.sort /\ rel = v.count /\ r = x.count
    OBVIOUS
  <2>2. /\ Deltas(Swtmr, list, rel) /\ Deltas(Swtmr, list, r)
        /\ \A u : Contains(list, u) => r[u] = rel[u]
    BY <1>1, <1>6, <1>7, <2>1
  <2>3. /\ \A u : TimeOf(list, r, u) = TimeOf(list, rel, u)
        /\ FirstLater(list, r, 0) = FirstLater(list, rel, 0)
    BY <2>2, OffList
  <2> QED BY <2>1, <2>3
<1>9. /\ \A u : osSwtmrTimeGet(x, u) = osSwtmrTimeGet(v, u)
      /\ FirstLater(x.sort, x.count, 0) = FirstLater(v.sort, v.count, 0)
  <2>1. x.sort = v.sort
    BY <1>2
  <2> QED BY <1>8, <2>1 DEF osSwtmrTimeGet
<1>10. x.state = [v.state EXCEPT ![s] = "UNUSED"] /\ x.sort = v.sort /\ x.queue = v.queue
  BY <1>2
<1> QED BY <1>3, <1>4, <1>5, <1>9, <1>10

\* A control block is on the one list its state names, and has an interval
\* unless it is unused.
SwtmrLists(v) ==
  /\ \A s \in Swtmr : /\ Contains(v.free, s) <=> v.state[s] = "UNUSED"
                      /\ Contains(v.sort, s) <=> v.state[s] = "TICKING"
                      /\ v.state[s] # "UNUSED" => v.interval[s] \in Intervals
  /\ IsInjective(v.free) /\ IsInjective(v.sort) /\ Len(v.queue) <= QUEUE_SIZE

\* A running timer expires after the next tick at the earliest, and at the end
\* of its interval at the latest.
SwtmrRunning(v) ==
  \A s \in Swtmr : v.state[s] = "TICKING" => osSwtmrTimeGet(v, s) \in 1 .. v.interval[s]

\* The inductive invariant of the software timers.
SwtmrInv(v) == SwtmrTypes(v) /\ SwtmrLists(v) /\ SwtmrRunning(v)

\* It implies what the run checks.
LEMMA SwtmrInvLists ==
  ASSUME NEW v, SwtmrInv(v)
  PROVE  SwtmrListsOK(v)
<1>1. v.count \in [Swtmr -> Nat] /\ v.sort \in Seq(Swtmr)
  BY SwtmrFields DEF SwtmrInv
<1>2. \A s \in ToSet(v.sort) : s \in Swtmr /\ Contains(v.sort, s)
  BY <1>1, OnList
<1>3. \A s \in ToSet(v.sort) : osSwtmrTimeGet(v, s) \in 1 .. v.interval[s]
  BY <1>2 DEF SwtmrInv, SwtmrLists, SwtmrRunning
<1> QED BY <1>1, <1>3 DEF SwtmrInv, SwtmrLists, SwtmrListsOK

\* A call is about its own timer.
LEMMA CallOf ==
  ASSUME NEW v, SwtmrInv(v), NEW x, SwtmrTypes(x), NEW s \in Swtmr,
         \A u \in Swtmr : u # s =>
           /\ x.state[u] = v.state[u] /\ x.interval[u] = v.interval[u]
           /\ Contains(x.free, u) <=> Contains(v.free, u)
           /\ Contains(x.sort, u) <=> Contains(v.sort, u)
           /\ Contains(v.sort, u) => osSwtmrTimeGet(x, u) = osSwtmrTimeGet(v, u),
         Contains(x.free, s) <=> x.state[s] = "UNUSED",
         Contains(x.sort, s) <=> x.state[s] = "TICKING",
         x.state[s] # "UNUSED" => x.interval[s] \in Intervals,
         x.state[s] = "TICKING" => osSwtmrTimeGet(x, s) = x.interval[s],
         IsInjective(x.free), IsInjective(x.sort), Len(x.queue) <= QUEUE_SIZE
  PROVE  SwtmrInv(x) /\ OnlyOwn(v, x)
<1>1. SwtmrLists(v) /\ SwtmrRunning(v)
  BY DEF SwtmrInv
<1>2. SwtmrLists(x)
  <2>1. ASSUME NEW u \in Swtmr
        PROVE  /\ Contains(x.free, u) <=> x.state[u] = "UNUSED"
               /\ Contains(x.sort, u) <=> x.state[u] = "TICKING"
               /\ x.state[u] # "UNUSED" => x.interval[u] \in Intervals
    <3>1. CASE u = s
      BY <3>1
    <3>2. CASE u # s
      BY <1>1, <3>2 DEF SwtmrLists
    <3> QED BY <3>1, <3>2
  <2> QED BY <2>1 DEF SwtmrLists
<1>3. SwtmrRunning(x)
  <2>1. ASSUME NEW u \in Swtmr, x.state[u] = "TICKING"
        PROVE  osSwtmrTimeGet(x, u) \in 1 .. x.interval[u]
    <3>1. CASE u = s
      <4>1. x.interval[s] \in Nat \ {0} /\ osSwtmrTimeGet(x, s) = x.interval[s]
        BY <2>1, <3>1, SwtmrAssumption
      <4> QED BY <3>1, <4>1
    <3>2. CASE u # s
      <4>1. v.state[u] = "TICKING" /\ Contains(v.sort, u)
        BY <1>1, <2>1, <3>2 DEF SwtmrLists
      <4>2. osSwtmrTimeGet(v, u) \in 1 .. v.interval[u]
        BY <1>1, <4>1 DEF SwtmrRunning
      <4> QED BY <3>2, <4>1, <4>2
    <3> QED BY <3>1, <3>2
  <2> QED BY <2>1 DEF SwtmrRunning
<1>4. ASSUME NEW u \in Swtmr \ {s} PROVE TicksLeftOf(x, u) = TicksLeftOf(v, u)
  <2>1. x.state[u] = v.state[u] /\ (Contains(v.sort, u) <=> v.state[u] = "TICKING")
    BY <1>1 DEF SwtmrLists
  <2>2. v.state[u] = "TICKING" => osSwtmrTimeGet(x, u) = osSwtmrTimeGet(v, u)
    BY <2>1
  <2> QED BY <2>1, <2>2 DEF TicksLeftOf
<1> QED BY <1>2, <1>3, <1>4 DEF SwtmrInv, OnlyOwn

\* LOS_SwtmrCreate takes the first free control block.
LEMMA CreateOK ==
  ASSUME NEW v, SwtmrInv(v), v.free # <<>>, NEW mode \in Modes, NEW n \in Intervals,
         NEW x, x = LOS_SwtmrCreate(v, mode, n)
  PROVE  SwtmrInv(x) /\ OnlyOwn(v, x)
<1> DEFINE s == v.free[1]
           F == Tail(v.free)
           zero == [u \in Swtmr |-> 0]
<1>1. /\ v.state \in [Swtmr -> {"UNUSED", "CREATED", "TICKING"}] /\ v.mode \in [Swtmr -> Modes]
      /\ v.interval \in [Swtmr -> Nat] /\ v.count \in [Swtmr -> Nat] /\ v.free \in Seq(Swtmr)
      /\ v.sort \in Seq(Swtmr) /\ v.queue \in Seq(Swtmr)
      /\ Deltas(Swtmr, v.sort, v.count) /\ IsInjective(v.free) /\ SwtmrTypes(v)
      /\ IsInjective(v.sort) /\ Len(v.queue) <= QUEUE_SIZE
  BY SwtmrFields DEF SwtmrInv, SwtmrLists
<1>2. zero \in [Swtmr -> Nat] /\ Deltas(Swtmr, v.free, zero)
  BY <1>1 DEF Deltas
<1>3. s \in Swtmr /\ Contains(v.free, s)
  BY <1>1, OnList, EmptySeq
<1>4. zero[v.free[1]] = 0 /\ TailAt(v.free, F)
  BY <1>3 DEF TailAt
<1> HIDE DEF F, zero
<1>5. /\ F \in Seq(Swtmr) /\ IsInjective(F)
      /\ \A u : Contains(F, u) <=> u # s /\ Contains(v.free, u)
  <2>1. /\ Deltas(Swtmr, F, zero)
        /\ \A u : Contains(F, u) <=> u # v.free[1] /\ Contains(v.free, u)
    BY <1>2, <1>4, TailOf
  <2> QED BY <2>1 DEF Deltas
<1>6. /\ x.state = [v.state EXCEPT ![s] = "CREATED"] /\ x.mode = [v.mode EXCEPT ![s] = mode]
      /\ x.interval = [v.interval EXCEPT ![s] = n] /\ x.count = [v.count EXCEPT ![s] = 0]
      /\ x.sort = v.sort /\ x.queue = v.queue /\ x.free = F
      /\ x = [v EXCEPT !.state = x.state, !.mode = x.mode, !.interval = x.interval,
                       !.count = x.count, !.free = x.free]
  BY <1>1 DEF LOS_SwtmrCreate, SwtmrTypes, F
<1> HIDE DEF s
<1>7. /\ x.state \in [Swtmr -> {"UNUSED", "CREATED", "TICKING"}] /\ x.mode \in [Swtmr -> Modes]
      /\ x.interval \in [Swtmr -> Nat] /\ x.count \in [Swtmr -> Nat]
      /\ x.state[s] = "CREATED" /\ x.interval[s] = n
      /\ \A u \in Swtmr : u # s =>
           x.state[u] = v.state[u] /\ x.interval[u] = v.interval[u] /\ x.count[u] = v.count[u]
  <2>1. n \in Nat
    BY SwtmrAssumption
  <2> QED BY <1>1, <1>3, <1>6, <2>1
<1>8. SwtmrTypes(x)
  BY <1>1, <1>5, <1>6, <1>7 DEF SwtmrTypes
<1>9. ~Contains(v.sort, s)
  <2>1. v.state[s] = "UNUSED"
    BY <1>3 DEF SwtmrInv, SwtmrLists
  <2>2. v.state[s] # "TICKING"
    BY <2>1
  <2> QED BY <1>3, <2>2 DEF SwtmrInv, SwtmrLists
<1>10. \A u : osSwtmrTimeGet(x, u) = osSwtmrTimeGet(v, u)
  <2>1. PICK list, rel, r : list = v.sort /\ rel = v.count /\ r = x.count
    OBVIOUS
  <2>2. \A u : Contains(v.sort, u) => u \in Swtmr /\ u # s
    BY <1>1, <1>9, OnList
  <2>3. /\ Deltas(Swtmr, list, rel) /\ Deltas(Swtmr, list, r)
        /\ \A u : Contains(list, u) => r[u] = rel[u]
    BY <1>1, <1>7, <2>1, <2>2 DEF Deltas
  <2>4. \A u : TimeOf(list, r, u) = TimeOf(list, rel, u)
    BY <2>3, OffList
  <2>5. x.sort = v.sort
    BY <1>6
  <2> QED BY <2>1, <2>4, <2>5 DEF osSwtmrTimeGet
<1>11. /\ x.state[s] # "UNUSED" /\ x.state[s] # "TICKING" /\ x.interval[s] \in Intervals
       /\ ~Contains(x.free, s) /\ ~Contains(x.sort, s)
       /\ x.sort = v.sort /\ x.queue = v.queue
  BY <1>5, <1>6, <1>7, <1>9
<1>12. \A u \in Swtmr : u # s =>
         /\ x.state[u] = v.state[u] /\ x.interval[u] = v.interval[u]
         /\ Contains(x.free, u) <=> Contains(v.free, u)
         /\ Contains(x.sort, u) <=> Contains(v.sort, u)
         /\ Contains(v.sort, u) => osSwtmrTimeGet(x, u) = osSwtmrTimeGet(v, u)
  BY <1>5, <1>6, <1>7, <1>10
<1>13. IsInjective(x.free) /\ IsInjective(x.sort) /\ Len(x.queue) <= QUEUE_SIZE
  BY <1>1, <1>5, <1>6
<1> QED BY <1>3, <1>8, <1>11, <1>12, <1>13, CallOf

\* LOS_SwtmrStop.
LEMMA StopOK ==
  ASSUME NEW v, SwtmrInv(v), NEW s \in Swtmr, v.state[s] = "TICKING",
         NEW x, x = osSwtmrStop(v, s)
  PROVE  /\ SwtmrInv(x) /\ OnlyOwn(v, x) /\ x.state[s] = "CREATED"
         /\ x.interval = v.interval /\ x.queue = v.queue
         /\ \A u \in Swtmr : u # s => TicksLeftOf(x, u) = TicksLeftOf(v, u)
<1>1. /\ SwtmrTypes(v) /\ IsInjective(v.sort) /\ Contains(v.sort, s)
      /\ v.state \in [Swtmr -> {"UNUSED", "CREATED", "TICKING"}]
      /\ ~Contains(v.free, s) /\ IsInjective(v.free) /\ Len(v.queue) <= QUEUE_SIZE
      /\ v.interval[s] \in Intervals
      /\ \A u \in Swtmr : Contains(v.sort, u) <=> v.state[u] = "TICKING"
  BY SwtmrFields DEF SwtmrInv, SwtmrLists
<1>2. /\ SwtmrTypes(x) /\ IsInjective(x.sort)
      /\ x.state = [v.state EXCEPT ![s] = "CREATED"]
      /\ x.mode = v.mode /\ x.interval = v.interval /\ x.free = v.free /\ x.queue = v.queue
      /\ \A u : Contains(x.sort, u) <=> u # s /\ Contains(v.sort, u)
      /\ \A u : Contains(x.sort, u) => osSwtmrTimeGet(x, u) = osSwtmrTimeGet(v, u)
  BY <1>1, StopOf
<1>3. /\ x.state[s] = "CREATED" /\ \A u \in Swtmr : u # s => x.state[u] = v.state[u]
  BY <1>1, <1>2
<1>4. /\ x.state[s] # "UNUSED" /\ x.state[s] # "TICKING" /\ x.interval[s] \in Intervals
      /\ ~Contains(x.free, s) /\ ~Contains(x.sort, s)
  BY <1>1, <1>2, <1>3
<1>5. \A u \in Swtmr : u # s =>
         /\ x.state[u] = v.state[u] /\ x.interval[u] = v.interval[u]
         /\ Contains(x.free, u) <=> Contains(v.free, u)
         /\ Contains(x.sort, u) <=> Contains(v.sort, u)
         /\ Contains(v.sort, u) => osSwtmrTimeGet(x, u) = osSwtmrTimeGet(v, u)
  BY <1>2, <1>3
<1>6. IsInjective(x.free) /\ IsInjective(x.sort) /\ Len(x.queue) <= QUEUE_SIZE
  BY <1>1, <1>2
<1>7. SwtmrInv(x) /\ OnlyOwn(v, x)
  BY <1>2, <1>4, <1>5, <1>6, CallOf
<1>8. \A u \in Swtmr : u # s => TicksLeftOf(x, u) = TicksLeftOf(v, u)
  BY <1>1, <1>5 DEF TicksLeftOf
<1> QED BY <1>2, <1>3, <1>7, <1>8

\* LOS_SwtmrStart, of a timer that is not running.
LEMMA StartOK ==
  ASSUME NEW v, SwtmrInv(v), NEW s \in Swtmr, v.state[s] = "CREATED",
         NEW x, x = osSwTmrStart(v, s)
  PROVE  /\ SwtmrInv(x)
         /\ \A u \in Swtmr : u # s => TicksLeftOf(x, u) = TicksLeftOf(v, u)
<1>1. /\ SwtmrTypes(v) /\ IsInjective(v.sort)
      /\ v.state \in [Swtmr -> {"UNUSED", "CREATED", "TICKING"}]
      /\ IsInjective(v.free) /\ Len(v.queue) <= QUEUE_SIZE
      /\ \A u \in Swtmr : Contains(v.sort, u) <=> v.state[u] = "TICKING"
      /\ \A u \in Swtmr : Contains(v.free, u) <=> v.state[u] = "UNUSED"
      /\ \A u \in Swtmr : v.state[u] # "UNUSED" => v.interval[u] \in Intervals
  BY SwtmrFields DEF SwtmrInv, SwtmrLists
<1>2. ~Contains(v.sort, s) /\ ~Contains(v.free, s) /\ v.interval[s] \in Intervals
  <2>1. v.state[s] # "TICKING" /\ v.state[s] # "UNUSED"
    OBVIOUS
  <2> QED BY <1>1, <2>1
<1>3. /\ SwtmrTypes(x) /\ IsInjective(x.sort)
      /\ x.state = [v.state EXCEPT ![s] = "TICKING"]
      /\ x.mode = v.mode /\ x.interval = v.interval /\ x.free = v.free /\ x.queue = v.queue
      /\ \A u : Contains(x.sort, u) <=> u = s \/ Contains(v.sort, u)
      /\ osSwtmrTimeGet(x, s) = v.interval[s]
      /\ \A u : Contains(v.sort, u) => osSwtmrTimeGet(x, u) = osSwtmrTimeGet(v, u)
  <2>1. SwtmrTypes(v)
    BY <1>1
  <2>2. IsInjective(v.sort)
    BY <1>1
  <2>3. ~Contains(v.sort, s)
    BY <1>2
  <2>4. StartedIn(v, s, x)
    BY <2>1, <2>2, <2>3, StartOf
  <2> QED BY <2>4 DEF StartedIn
<1>4. /\ x.state[s] = "TICKING" /\ \A u \in Swtmr : u # s => x.state[u] = v.state[u]
  BY <1>1, <1>3
<1>5. /\ x.state[s] # "UNUSED" /\ x.interval[s] \in Intervals
      /\ ~Contains(x.free, s) /\ Contains(x.sort, s) /\ osSwtmrTimeGet(x, s) = x.interval[s]
  BY <1>2, <1>3, <1>4
<1>6. \A u \in Swtmr : u # s =>
         /\ x.state[u] = v.state[u] /\ x.interval[u] = v.interval[u]
         /\ Contains(x.free, u) <=> Contains(v.free, u)
         /\ Contains(x.sort, u) <=> Contains(v.sort, u)
         /\ Contains(v.sort, u) => osSwtmrTimeGet(x, u) = osSwtmrTimeGet(v, u)
  BY <1>3, <1>4
<1>7. IsInjective(x.free) /\ IsInjective(x.sort) /\ Len(x.queue) <= QUEUE_SIZE
  BY <1>1, <1>3
<1>8. SwtmrInv(x)
  <2>1. /\ Contains(x.free, s) <=> x.state[s] = "UNUSED"
        /\ Contains(x.sort, s) <=> x.state[s] = "TICKING"
        /\ x.state[s] # "UNUSED" => x.interval[s] \in Intervals
        /\ x.state[s] = "TICKING" => osSwtmrTimeGet(x, s) = x.interval[s]
    BY <1>4, <1>5
  <2>2. SwtmrTypes(x)
    BY <1>3
  <2> QED BY <1>6, <1>7, <2>1, <2>2, CallOf
<1>9. \A u \in Swtmr : u # s => TicksLeftOf(x, u) = TicksLeftOf(v, u)
  BY <1>1, <1>6 DEF TicksLeftOf
<1> QED BY <1>8, <1>9

\* LOS_SwtmrDelete, of a timer that is not running.
LEMMA DeleteOK ==
  ASSUME NEW v, SwtmrInv(v), NEW s \in Swtmr, v.state[s] = "CREATED",
         NEW x, DeletedAt(v, s, x)
  PROVE  /\ SwtmrInv(x)
         /\ \A u \in Swtmr : u # s => TicksLeftOf(x, u) = TicksLeftOf(v, u)
<1>1. /\ SwtmrTypes(v) /\ IsInjective(v.sort)
      /\ v.state \in [Swtmr -> {"UNUSED", "CREATED", "TICKING"}]
      /\ IsInjective(v.free) /\ Len(v.queue) <= QUEUE_SIZE
      /\ \A u \in Swtmr : Contains(v.sort, u) <=> v.state[u] = "TICKING"
      /\ \A u \in Swtmr : Contains(v.free, u) <=> v.state[u] = "UNUSED"
  BY SwtmrFields DEF SwtmrInv, SwtmrLists
<1>2. ~Contains(v.sort, s) /\ ~Contains(v.free, s)
  <2>1. v.state[s] # "TICKING" /\ v.state[s] # "UNUSED"
    OBVIOUS
  <2> QED BY <1>1, <2>1
<1>3. /\ SwtmrTypes(x) /\ IsInjective(x.free)
      /\ x.state = [v.state EXCEPT ![s] = "UNUSED"]
      /\ x.sort = v.sort /\ x.queue = v.queue
      /\ \A u \in Swtmr : u # s => x.mode[u] = v.mode[u] /\ x.interval[u] = v.interval[u]
      /\ \A u : Contains(x.free, u) <=> u = s \/ Contains(v.free, u)
      /\ \A u : osSwtmrTimeGet(x, u) = osSwtmrTimeGet(v, u)
  <2>1. SwtmrTypes(v) /\ IsInjective(v.sort) /\ ~Contains(v.sort, s)
    BY <1>1, <1>2
  <2>2. IsInjective(v.free) /\ ~Contains(v.free, s)
    BY <1>1, <1>2
  <2> QED BY <2>1, <2>2, DeleteOf
<1>4. /\ x.state[s] = "UNUSED" /\ \A u \in Swtmr : u # s => x.state[u] = v.state[u]
  BY <1>1, <1>3
<1>5. x.state[s] # "TICKING" /\ Contains(x.free, s) /\ ~Contains(x.sort, s)
  BY <1>2, <1>3, <1>4
<1>6. \A u \in Swtmr : u # s =>
         /\ x.state[u] = v.state[u] /\ x.interval[u] = v.interval[u]
         /\ Contains(x.free, u) <=> Contains(v.free, u)
         /\ Contains(x.sort, u) <=> Contains(v.sort, u)
         /\ Contains(v.sort, u) => osSwtmrTimeGet(x, u) = osSwtmrTimeGet(v, u)
  BY <1>3, <1>4
<1>7. IsInjective(x.free) /\ IsInjective(x.sort) /\ Len(x.queue) <= QUEUE_SIZE
  BY <1>1, <1>3
<1>8. SwtmrInv(x)
  <2>1. /\ Contains(x.free, s) <=> x.state[s] = "UNUSED"
        /\ Contains(x.sort, s) <=> x.state[s] = "TICKING"
        /\ x.state[s] # "UNUSED" => x.interval[s] \in Intervals
        /\ x.state[s] = "TICKING" => osSwtmrTimeGet(x, s) = x.interval[s]
    BY <1>4, <1>5
  <2>2. SwtmrTypes(x)
    BY <1>3
  <2> QED BY <1>6, <1>7, <2>1, <2>2, CallOf
<1>9. \A u \in Swtmr : u # s => TicksLeftOf(x, u) = TicksLeftOf(v, u)
  BY <1>1, <1>6 DEF TicksLeftOf
<1> QED BY <1>8, <1>9

\* The calls, and the timer task.
LEMMA CallsOK ==
  ASSUME NEW v, SwtmrInv(v), NEW x, SwtmrCall(v, x) \/ osSwTmrTask(v, x)
  PROVE  SwtmrInv(x) /\ OnlyOwn(v, x)
<1>1. ASSUME v.free # <<>>, NEW mode \in Modes, NEW n \in Intervals, x = LOS_SwtmrCreate(v, mode, n)
      PROVE  SwtmrInv(x) /\ OnlyOwn(v, x)
  BY <1>1, CreateOK
<1>2. v.state \in [Swtmr -> {"UNUSED", "CREATED", "TICKING"}]
  BY SwtmrFields DEF SwtmrInv
<1>3. ASSUME NEW s \in Swtmr, v.state[s] = "TICKING", x = osSwtmrStop(v, s)
      PROVE  SwtmrInv(x) /\ OnlyOwn(v, x)
  BY <1>3, StopOK
<1>4. ASSUME NEW s \in Swtmr, v.state[s] # "UNUSED", x = LOS_SwtmrStart(v, s)
      PROVE  SwtmrInv(x) /\ OnlyOwn(v, x)
  <2>1. CASE v.state[s] = "TICKING"
    <3>1. PICK y : y = osSwtmrStop(v, s)
      OBVIOUS
    <3>2. /\ SwtmrInv(y) /\ y.state[s] = "CREATED"
          /\ \A u \in Swtmr : u # s => TicksLeftOf(y, u) = TicksLeftOf(v, u)
      BY <2>1, <3>1, StopOK
    <3>3. x = osSwTmrStart(y, s)
      BY <1>4, <2>1, <3>1 DEF LOS_SwtmrStart
    <3>4. /\ SwtmrInv(x) /\ \A u \in Swtmr : u # s => TicksLeftOf(x, u) = TicksLeftOf(y, u)
      BY <3>2, <3>3, StartOK
    <3> QED BY <3>2, <3>4 DEF OnlyOwn
  <2>2. CASE v.state[s] # "TICKING"
    <3>1. v.state[s] = "CREATED" /\ x = osSwTmrStart(v, s)
      BY <1>2, <1>4, <2>2 DEF LOS_SwtmrStart
    <3>2. /\ SwtmrInv(x) /\ \A u \in Swtmr : u # s => TicksLeftOf(x, u) = TicksLeftOf(v, u)
      BY <3>1, StartOK
    <3> QED BY <3>2 DEF OnlyOwn
  <2> QED BY <2>1, <2>2
<1>5. ASSUME NEW s \in Swtmr, v.state[s] # "UNUSED", x = LOS_SwtmrDelete(v, s)
      PROVE  SwtmrInv(x) /\ OnlyOwn(v, x)
  <2>1. CASE v.state[s] = "TICKING"
    <3>1. PICK y : y = osSwtmrStop(v, s)
      OBVIOUS
    <3>2. /\ SwtmrInv(y) /\ y.state[s] = "CREATED"
          /\ \A u \in Swtmr : u # s => TicksLeftOf(y, u) = TicksLeftOf(v, u)
      BY <2>1, <3>1, StopOK
    <3>3. x = osSwtmrDelete(y, s)
      BY <1>5, <2>1, <3>1 DEF LOS_SwtmrDelete
    <3>4. /\ SwtmrInv(x) /\ \A u \in Swtmr : u # s => TicksLeftOf(x, u) = TicksLeftOf(y, u)
      <4>1. DeletedAt(y, s, x)
        BY <3>3 DEF DeletedAt
      <4> QED BY <3>2, <4>1, DeleteOK
    <3> QED BY <3>2, <3>4 DEF OnlyOwn
  <2>2. CASE v.state[s] # "TICKING"
    <3>1. v.state[s] = "CREATED" /\ x = osSwtmrDelete(v, s)
      BY <1>2, <1>5, <2>2 DEF LOS_SwtmrDelete
    <3>2. /\ SwtmrInv(x) /\ \A u \in Swtmr : u # s => TicksLeftOf(x, u) = TicksLeftOf(v, u)
      <4>1. DeletedAt(v, s, x)
        BY <3>1 DEF DeletedAt
      <4> QED BY <3>1, <4>1, DeleteOK
    <3> QED BY <3>2 DEF OnlyOwn
  <2> QED BY <2>1, <2>2
<1>6. ASSUME osSwTmrTask(v, x) PROVE SwtmrInv(x) /\ OnlyOwn(v, x)
  <2>1. /\ SwtmrTypes(v) /\ v.queue \in Seq(Swtmr) /\ v.queue # <<>> /\ Len(v.queue) <= QUEUE_SIZE
    BY <1>6, SwtmrFields DEF SwtmrInv, SwtmrLists, osSwTmrTask
  <2>2. /\ x.queue = Tail(v.queue) /\ x.state = v.state /\ x.mode = v.mode
        /\ x.interval = v.interval /\ x.count = v.count /\ x.sort = v.sort /\ x.free = v.free
        /\ x = [v EXCEPT !.queue = x.queue]
    BY <1>6, <2>1 DEF osSwTmrTask, SwtmrTypes
  <2>3. /\ x.queue \in Seq(Swtmr) /\ Len(x.queue) <= Len(v.queue) /\ Len(x.queue) \in Nat
        /\ Len(v.queue) \in Nat /\ v.queue[1] \in Swtmr
    <3>1. Len(v.queue) # 0 /\ Len(v.queue) \in Nat
      BY <2>1, EmptySeq
    <3> QED BY <2>1, <2>2, <3>1
  <2>4. SwtmrTypes(x)
    BY <2>1, <2>2, <2>3 DEF SwtmrTypes
  <2>5. \A u : osSwtmrTimeGet(x, u) = osSwtmrTimeGet(v, u)
    BY <2>2 DEF osSwtmrTimeGet
  <2>6. Len(x.queue) <= QUEUE_SIZE
    BY <2>1, <2>3, SwtmrAssumption
  <2>7. SwtmrLists(x) /\ SwtmrRunning(x)
    BY <2>2, <2>5, <2>6 DEF SwtmrInv, SwtmrLists, SwtmrRunning
  <2>8. \A u : TicksLeftOf(x, u) = TicksLeftOf(v, u)
    BY <2>2, <2>5 DEF TicksLeftOf
  <2> QED BY <2>3, <2>4, <2>7, <2>8 DEF SwtmrInv, OnlyOwn
<1> QED BY <1>1, <1>3, <1>4, <1>5, <1>6 DEF SwtmrCall

-----------------------------------------------------------------------------
(* The scan of the software timers                                         *)

\* The other timers are as they were.
OthersAs(v, x, s) ==
  \A u \in Swtmr : u # s =>
    /\ x.state[u] = v.state[u] /\ x.mode[u] = v.mode[u] /\ x.interval[u] = v.interval[u]
    /\ Contains(x.free, u) <=> Contains(v.free, u)
    /\ Contains(x.sort, u) <=> Contains(v.sort, u)
    /\ Contains(v.sort, u) => osSwtmrTimeGet(x, u) = osSwtmrTimeGet(v, u)

\* x is v after the turn of its first timer s.
ExpiresAt(v, s, x) == s = v.sort[1] /\ x = Expire(v, s)

\* One turn of osSwTmrTimeoutHandle, for the first timer, which is due.
LEMMA ExpireOf ==
  ASSUME NEW v, SwtmrTypes(v), SwtmrLists(v), v.sort # <<>>, NEW s, v.count[s] = 0,
         NEW x, ExpiresAt(v, s, x)
  PROVE  /\ s \in Swtmr /\ v.state[s] = "TICKING" /\ osSwtmrTimeGet(v, s) = 0
         /\ SwtmrTypes(x) /\ SwtmrLists(x)
         /\ \A u \in Swtmr : u # s =>
              /\ x.state[u] = v.state[u] /\ x.mode[u] = v.mode[u] /\ x.interval[u] = v.interval[u]
              /\ v.state[u] = "TICKING" => osSwtmrTimeGet(x, u) = osSwtmrTimeGet(v, u)
         /\ IF v.mode[s] = "PERIOD"
            THEN /\ x.state[s] = "TICKING" /\ x.interval[s] = v.interval[s]
                 /\ osSwtmrTimeGet(x, s) = v.interval[s] /\ v.interval[s] \in Intervals
            ELSE x.state[s] # "TICKING"
         /\ x.queue = IF Len(v.queue) < QUEUE_SIZE THEN Append(v.queue, s) ELSE v.queue
         /\ FirstLater(v.sort, v.count, 0) \in 1 .. Len(v.sort) + 1
         /\ FirstLater(x.sort, x.count, 0) = FirstLater(v.sort, v.count, 0) - 1
<1> DEFINE T == Tail(v.sort)
           Q == IF Len(v.queue) < QUEUE_SIZE THEN Append(v.queue, s) ELSE v.queue
<1>1. /\ v.state \in [Swtmr -> {"UNUSED", "CREATED", "TICKING"}] /\ v.mode \in [Swtmr -> Modes]
      /\ v.interval \in [Swtmr -> Nat] /\ v.count \in [Swtmr -> Nat]
      /\ v.sort \in Seq(Swtmr) /\ v.free \in Seq(Swtmr) /\ v.queue \in Seq(Swtmr)
      /\ Deltas(Swtmr, v.sort, v.count) /\ IsInjective(v.sort) /\ IsInjective(v.free)
      /\ Len(v.queue) <= QUEUE_SIZE
  BY SwtmrFields DEF SwtmrLists
<1>2. TailAt(v.sort, T) /\ v.count[v.sort[1]] = 0
  BY DEF TailAt, ExpiresAt
<1> HIDE DEF T
<1>3. /\ Deltas(Swtmr, T, v.count) /\ v.sort[1] \in Swtmr /\ Contains(v.sort, v.sort[1])
      /\ \A u : Contains(T, u) <=> u # v.sort[1] /\ Contains(v.sort, u)
      /\ \A u : Contains(T, u) => TimeOf(T, v.count, u) = TimeOf(v.sort, v.count, u)
      /\ TimeOf(v.sort, v.count, v.sort[1]) = 0
      /\ FirstLater(v.sort, v.count, 0) \in 1 .. Len(v.sort) + 1
      /\ FirstLater(T, v.count, 0) = FirstLater(v.sort, v.count, 0) - 1
  <2>1. Deltas(Swtmr, v.sort, v.count)
    BY <1>1
  <2> QED BY <1>2, <2>1, TailOf
<1>4. s \in Swtmr /\ Contains(v.sort, s) /\ osSwtmrTimeGet(v, s) = 0
  BY <1>3 DEF osSwtmrTimeGet, ExpiresAt
<1>5. v.state[s] = "TICKING" /\ ~Contains(v.free, s) /\ v.interval[s] \in Intervals
  <2>1. v.state[s] = "TICKING"
    BY <1>4 DEF SwtmrLists
  <2>2. v.state[s] # "UNUSED"
    BY <2>1
  <2> QED BY <1>4, <2>1, <2>2 DEF SwtmrLists
<1>6. Q \in Seq(Swtmr) /\ Len(Q) <= QUEUE_SIZE
  <2>1. CASE Len(v.queue) < QUEUE_SIZE
    <3>1. Append(v.queue, s) \in Seq(Swtmr) /\ Len(Append(v.queue, s)) = Len(v.queue) + 1
      BY <1>1, <1>4
    <3>2. PICK a \in Nat : a = Len(v.queue)
      BY <1>1
    <3>3. a + 1 <= QUEUE_SIZE
      BY <2>1, <3>2, SwtmrAssumption
    <3> QED BY <2>1, <3>1, <3>2, <3>3
  <2>2. CASE ~(Len(v.queue) < QUEUE_SIZE)
    BY <1>1, <2>2
  <2> QED BY <2>1, <2>2
<1>0. PICK y : y = [v EXCEPT !.sort = Tail(@),
                            !.queue = IF Len(@) < QUEUE_SIZE THEN Append(@, s) ELSE @]
  OBVIOUS
<1>7. /\ y.sort = T /\ y.queue = Q
      /\ y.state = v.state /\ y.mode = v.mode /\ y.interval = v.interval
      /\ y.count = v.count /\ y.free = v.free
      /\ y = [v EXCEPT !.sort = T, !.queue = Q]
  BY <1>0 DEF SwtmrTypes, T
<1>8. /\ x = CASE v.mode[s] = "ONCE" -> osSwtmrDelete(y, s)
               [] v.mode[s] = "PERIOD" -> osSwTmrStart(y, s)
               [] v.mode[s] = "NO_SELFDELETE" -> [y EXCEPT !.state[s] = "CREATED"]
  BY <1>0 DEF Expire, ExpiresAt
<1> HIDE DEF Q
<1>9. SwtmrTypes(y) /\ IsInjective(y.sort) /\ IsInjective(y.free)
  <2>1. T \in Seq(Swtmr) /\ IsInjective(T)
    BY <1>3 DEF Deltas
  <2>2. SwtmrTypes(y)
    BY <1>6, <1>7, <2>1 DEF SwtmrTypes
  <2> QED BY <1>1, <1>7, <2>1, <2>2
<1>10. /\ ~Contains(y.sort, s) /\ ~Contains(y.free, s)
       /\ \A u : u # s => (Contains(y.sort, u) <=> Contains(v.sort, u))
       /\ \A u : Contains(y.sort, u) => osSwtmrTimeGet(y, u) = osSwtmrTimeGet(v, u)
       /\ FirstLater(y.sort, y.count, 0) = FirstLater(v.sort, v.count, 0) - 1
  BY <1>3, <1>5, <1>7 DEF osSwtmrTimeGet, ExpiresAt
<1> DEFINE Result ==
             /\ SwtmrTypes(x) /\ IsInjective(x.sort) /\ IsInjective(x.free)
             /\ OthersAs(v, x, s)
             /\ Contains(x.free, s) <=> x.state[s] = "UNUSED"
             /\ Contains(x.sort, s) <=> x.state[s] = "TICKING"
             /\ x.state[s] # "UNUSED" => x.interval[s] = v.interval[s]
             /\ x.state[s] = "TICKING" <=> v.mode[s] = "PERIOD"
             /\ v.mode[s] = "PERIOD" => osSwtmrTimeGet(x, s) = v.interval[s]
             /\ x.queue = Q /\ FirstLater(x.sort, x.count, 0) = FirstLater(y.sort, y.count, 0)
<1>11. ASSUME v.mode[s] = "ONCE" PROVE Result
  <2>1. DeletedAt(y, s, x)
    BY <1>8, <1>11 DEF DeletedAt
  <2>2. /\ SwtmrTypes(x) /\ IsInjective(x.free)
        /\ x.state = [y.state EXCEPT ![s] = "UNUSED"]
        /\ x.sort = y.sort /\ x.queue = y.queue
        /\ \A u \in Swtmr : u # s => x.mode[u] = y.mode[u] /\ x.interval[u] = y.interval[u]
        /\ \A u : Contains(x.free, u) <=> u = s \/ Contains(y.free, u)
        /\ \A u : osSwtmrTimeGet(x, u) = osSwtmrTimeGet(y, u)
        /\ FirstLater(x.sort, x.count, 0) = FirstLater(y.sort, y.count, 0)
    <3>1. SwtmrTypes(y) /\ IsInjective(y.sort) /\ ~Contains(y.sort, s)
      BY <1>9, <1>10
    <3>2. IsInjective(y.free) /\ ~Contains(y.free, s)
      BY <1>9, <1>10
    <3>3. s \in Swtmr
      BY <1>4
    <3> QED BY <2>1, <3>1, <3>2, <3>3, DeleteOf
  <2>3. x.state[s] = "UNUSED" /\ \A u \in Swtmr : u # s => x.state[u] = v.state[u]
    BY <1>1, <1>4, <1>7, <2>2
  <2>4. x.state[s] # "TICKING" /\ v.mode[s] # "PERIOD"
    BY <1>11, <2>3
  <2>5. OthersAs(v, x, s)
    BY <1>7, <1>10, <2>2, <2>3 DEF OthersAs
  <2>6. Contains(x.free, s) /\ ~Contains(x.sort, s) /\ x.queue = Q /\ IsInjective(x.sort)
    BY <1>7, <1>9, <1>10, <2>2
  <2>7. /\ Contains(x.free, s) <=> x.state[s] = "UNUSED"
        /\ Contains(x.sort, s) <=> x.state[s] = "TICKING"
    BY <2>3, <2>4, <2>6
  <2>8. x.state[s] # "UNUSED" => x.interval[s] = v.interval[s]
    BY <2>3
  <2>9. /\ x.state[s] = "TICKING" <=> v.mode[s] = "PERIOD"
        /\ v.mode[s] = "PERIOD" => osSwtmrTimeGet(x, s) = v.interval[s]
    BY <2>4
  <2>10. FirstLater(x.sort, x.count, 0) = FirstLater(y.sort, y.count, 0)
    BY <2>2
  <2> QED BY <2>2, <2>5, <2>6, <2>7, <2>8, <2>9, <2>10
<1>12. ASSUME v.mode[s] = "PERIOD" PROVE Result
  <2>1. x = osSwTmrStart(y, s)
    BY <1>8, <1>12
  <2>2. /\ SwtmrTypes(x) /\ IsInjective(x.sort)
        /\ x.state = [y.state EXCEPT ![s] = "TICKING"]
        /\ x.mode = y.mode /\ x.interval = y.interval /\ x.free = y.free /\ x.queue = y.queue
        /\ \A u : Contains(x.sort, u) <=> u = s \/ Contains(y.sort, u)
        /\ osSwtmrTimeGet(x, s) = y.interval[s]
        /\ \A u : Contains(y.sort, u) => osSwtmrTimeGet(x, u) = osSwtmrTimeGet(y, u)
        /\ y.interval[s] > 0 => FirstLater(x.sort, x.count, 0) = FirstLater(y.sort, y.count, 0)
    <3>1. SwtmrTypes(y) /\ IsInjective(y.sort) /\ ~Contains(y.sort, s)
      BY <1>9, <1>10
    <3>2. s \in Swtmr
      BY <1>4
    <3>3. StartedIn(y, s, x)
      BY <2>1, <3>1, <3>2, StartOf
    <3> QED BY <3>3 DEF StartedIn
  <2>3. x.state[s] = "TICKING" /\ \A u \in Swtmr : u # s => x.state[u] = v.state[u]
    BY <1>1, <1>4, <1>7, <2>2
  <2>4. x.state[s] # "UNUSED" /\ FirstLater(x.sort, x.count, 0) = FirstLater(y.sort, y.count, 0)
    <3>1. v.interval[s] \in Nat \ {0}
      BY <1>5, SwtmrAssumption
    <3>2. y.interval[s] > 0
      BY <1>7, <3>1
    <3> QED BY <2>2, <2>3, <3>2
  <2>5. OthersAs(v, x, s)
    BY <1>7, <1>10, <2>2, <2>3 DEF OthersAs
  <2>6. /\ ~Contains(x.free, s) /\ Contains(x.sort, s) /\ x.queue = Q /\ IsInjective(x.free)
        /\ x.interval[s] = v.interval[s] /\ osSwtmrTimeGet(x, s) = v.interval[s]
    BY <1>7, <1>9, <1>10, <2>2
  <2>7. /\ Contains(x.free, s) <=> x.state[s] = "UNUSED"
        /\ Contains(x.sort, s) <=> x.state[s] = "TICKING"
    BY <2>3, <2>4, <2>6
  <2>8. x.state[s] # "UNUSED" => x.interval[s] = v.interval[s]
    BY <2>6
  <2>9. /\ x.state[s] = "TICKING" <=> v.mode[s] = "PERIOD"
        /\ v.mode[s] = "PERIOD" => osSwtmrTimeGet(x, s) = v.interval[s]
    BY <1>12, <2>3, <2>6
  <2>10. FirstLater(x.sort, x.count, 0) = FirstLater(y.sort, y.count, 0)
    BY <2>4
  <2> QED BY <2>2, <2>5, <2>6, <2>7, <2>8, <2>9, <2>10
<1>13. ASSUME v.mode[s] = "NO_SELFDELETE" PROVE Result
  <2>1. x = [y EXCEPT !.state[s] = "CREATED"]
    BY <1>8, <1>13
  <2>2. /\ x.state = [y.state EXCEPT ![s] = "CREATED"] /\ x.mode = y.mode
        /\ x.interval = y.interval /\ x.count = y.count /\ x.sort = y.sort /\ x.free = y.free
        /\ x.queue = y.queue /\ x = [y EXCEPT !.state = x.state]
    BY <1>9, <2>1 DEF SwtmrTypes
  <2>3. x.state[s] = "CREATED" /\ \A u \in Swtmr : u # s => x.state[u] = v.state[u]
    BY <1>1, <1>4, <1>7, <2>2
  <2>4. x.state[s] # "UNUSED" /\ x.state[s] # "TICKING" /\ v.mode[s] # "PERIOD"
    BY <1>13, <2>3
  <2>5. x.state \in [Swtmr -> {"UNUSED", "CREATED", "TICKING"}]
    <3>1. x.state = [v.state EXCEPT ![s] = "CREATED"]
      BY <1>7, <2>2
    <3> QED BY <1>1, <3>1
  <2>6. SwtmrTypes(x)
    BY <1>9, <2>2, <2>5 DEF SwtmrTypes
  <2>7. \A u : osSwtmrTimeGet(x, u) = osSwtmrTimeGet(y, u)
    BY <2>2 DEF osSwtmrTimeGet
  <2>8. OthersAs(v, x, s)
    BY <1>7, <1>10, <2>2, <2>3, <2>7 DEF OthersAs
  <2>9. /\ ~Contains(x.free, s) /\ ~Contains(x.sort, s) /\ x.queue = Q
        /\ IsInjective(x.sort) /\ IsInjective(x.free) /\ x.interval[s] = v.interval[s]
        /\ FirstLater(x.sort, x.count, 0) = FirstLater(y.sort, y.count, 0)
    BY <1>7, <1>9, <1>10, <2>2
  <2>10. /\ Contains(x.free, s) <=> x.state[s] = "UNUSED"
         /\ Contains(x.sort, s) <=> x.state[s] = "TICKING"
    BY <2>4, <2>9
  <2>11. x.state[s] # "UNUSED" => x.interval[s] = v.interval[s]
    BY <2>9
  <2>12. /\ x.state[s] = "TICKING" <=> v.mode[s] = "PERIOD"
         /\ v.mode[s] = "PERIOD" => osSwtmrTimeGet(x, s) = v.interval[s]
    BY <2>4
  <2>13. FirstLater(x.sort, x.count, 0) = FirstLater(y.sort, y.count, 0)
    BY <2>9
  <2> QED BY <2>6, <2>8, <2>9, <2>10, <2>11, <2>12, <2>13
<1>14. Result
  <2>1. v.mode[s] \in Modes
    BY <1>1, <1>4
  <2> HIDE DEF Result
  <2> QED BY <1>11, <1>12, <1>13, <2>1 DEF Modes
<1>15. SwtmrLists(x)
  <2>1. ASSUME NEW u \in Swtmr
        PROVE  /\ Contains(x.free, u) <=> x.state[u] = "UNUSED"
               /\ Contains(x.sort, u) <=> x.state[u] = "TICKING"
               /\ x.state[u] # "UNUSED" => x.interval[u] \in Intervals
    <3>1. CASE u = s
      BY <1>5, <1>14, <3>1
    <3>2. CASE u # s
      BY <1>14, <3>2 DEF SwtmrLists, OthersAs
    <3> QED BY <3>1, <3>2
  <2> QED BY <1>6, <1>14, <2>1 DEF SwtmrLists
<1>16. \A u \in Swtmr : u # s =>
         /\ x.state[u] = v.state[u] /\ x.mode[u] = v.mode[u] /\ x.interval[u] = v.interval[u]
         /\ v.state[u] = "TICKING" => osSwtmrTimeGet(x, u) = osSwtmrTimeGet(v, u)
  BY <1>14 DEF SwtmrLists, OthersAs
<1>17. IF v.mode[s] = "PERIOD"
       THEN /\ x.state[s] = "TICKING" /\ x.interval[s] = v.interval[s]
            /\ osSwtmrTimeGet(x, s) = v.interval[s] /\ v.interval[s] \in Intervals
       ELSE x.state[s] # "TICKING"
  <2>1. CASE v.mode[s] = "PERIOD"
    <3>1. x.state[s] = "TICKING" /\ osSwtmrTimeGet(x, s) = v.interval[s]
      BY <1>14, <2>1
    <3>2. x.state[s] # "UNUSED"
      BY <3>1
    <3>3. x.interval[s] = v.interval[s]
      BY <1>14, <3>2
    <3> QED BY <1>5, <2>1, <3>1, <3>3
  <2>2. CASE v.mode[s] # "PERIOD"
    BY <1>14, <2>2
  <2> QED BY <2>1, <2>2
<1>18. /\ SwtmrTypes(x) /\ x.queue = Q
       /\ FirstLater(x.sort, x.count, 0) = FirstLater(v.sort, v.count, 0) - 1
  BY <1>10, <1>14
<1> QED BY <1>3, <1>4, <1>5, <1>15, <1>16, <1>17, <1>18 DEF Q

\* The first timer has ticks to go if no timer has time 0.
LEMMA ZeroHead ==
  ASSUME NEW S, NEW list, NEW rel, Deltas(S, list, rel)
  PROVE  /\ FirstLater(list, rel, 0) \in 1 .. Len(list) + 1
         /\ FirstLater(list, rel, 0) = 1 <=> list = <<>> \/ rel[list[1]] > 0
         /\ FirstLater(list, rel, 0) = 1 => \A u : Contains(list, u) => TimeOf(list, rel, u) > 0
<1>1. /\ FirstLater(list, rel, 0) \in 1 .. Len(list) + 1
      /\ \A j \in 0 .. FirstLater(list, rel, 0) - 1 : Times(list, rel)[j] <= 0
      /\ \A j \in FirstLater(list, rel, 0) .. Len(list) : Times(list, rel)[j] > 0
  BY FirstLaterOK
<1>2. PICK q \in 1 .. Len(list) + 1 : q = FirstLater(list, rel, 0)
  BY <1>1
<1>3. list \in Seq(S) /\ rel \in [S -> Nat] /\ Len(list) \in Nat /\ (list = <<>> <=> Len(list) = 0)
  BY EmptySeq DEF Deltas
<1>4. Len(list) # 0 => Times(list, rel)[1] = rel[list[1]] /\ rel[list[1]] \in Nat
  <2> SUFFICES ASSUME Len(list) # 0
               PROVE  Times(list, rel)[1] = rel[list[1]] /\ rel[list[1]] \in Nat
    OBVIOUS
  <2>1. 1 \in 1 .. Len(list) /\ list[1] \in S
    BY <1>3
  <2>2. Times(list, rel)[1] = Times(list, rel)[1 - 1] + rel[list[1]] /\ Times(list, rel)[0] = 0
    BY <1>3, <2>1, TimesStep
  <2> QED BY <1>3, <2>1, <2>2
<1>5. q = 1 <=> list = <<>> \/ rel[list[1]] > 0
  <2>1. CASE Len(list) = 0
    BY <1>2, <1>3, <2>1
  <2>2. CASE Len(list) # 0
    <3>1. CASE q = 1
      <4>1. 1 \in q .. Len(list)
        BY <1>3, <2>2, <3>1
      <4> QED BY <1>1, <1>2, <1>4, <2>2, <3>1, <4>1
    <3>2. CASE q # 1
      <4>1. 1 \in 0 .. q - 1
        BY <1>3, <3>2
      <4>2. rel[list[1]] <= 0 /\ rel[list[1]] \in Nat
        BY <1>1, <1>2, <1>4, <2>2, <4>1
      <4> QED BY <1>3, <2>2, <3>2, <4>2
    <3> QED BY <3>1, <3>2
  <2> QED BY <2>1, <2>2
<1>6. ASSUME q = 1, NEW u, Contains(list, u) PROVE TimeOf(list, rel, u) > 0
  <2>1. PICK j \in 1 .. Len(list) : list[j] = u
    BY <1>3, <1>6, OnList
  <2>2. TimeOf(list, rel, u) = Times(list, rel)[j] /\ j \in q .. Len(list)
    BY <1>6, <2>1, TimeAt
  <2> QED BY <1>1, <1>2, <2>2
<1> QED BY <1>1, <1>2, <1>5, <1>6

\* f are the records after each of n turns.
IsTurned(v, n, f) == f = [i \in 0 .. n |-> IF i = 0 THEN v ELSE Turn(f[i - 1])]

\* The loop is a chain of turns.
LEMMA TurnedOf ==
  ASSUME NEW v, NEW n \in Nat
  PROVE  \E f : /\ Turned(v, n) = f[n] /\ f[0] = v
                /\ \A i \in 1 .. n : f[i] = Turn(f[i - 1])
<1> DEFINE S == {m \in Nat : \E f : IsTurned(v, m, f)}
<1>1. 0 \in S
  <2> DEFINE f == [i \in 0 .. 0 |-> v]
  <2>1. IsTurned(v, 0, f)
    BY DEF IsTurned
  <2> QED BY <2>1
<1>2. ASSUME NEW m \in Nat, m \in S PROVE m + 1 \in S
  <2>1. PICK g : IsTurned(v, m, g)
    BY <1>2
  <2> DEFINE h == [i \in 0 .. m + 1 |-> IF i = m + 1 THEN Turn(g[m]) ELSE g[i]]
  <2>2. \A i \in 0 .. m : g[i] = IF i = 0 THEN v ELSE Turn(g[i - 1])
    BY <2>1 DEF IsTurned
  <2>3. ASSUME NEW i \in 0 .. m + 1
        PROVE  h[i] = IF i = 0 THEN v ELSE Turn(h[i - 1])
    <3>1. CASE i = m + 1
      BY <3>1
    <3>2. CASE i # m + 1
      <4>1. i \in 0 .. m /\ h[i] = g[i] /\ (i # 0 => i - 1 \in 0 .. m /\ h[i - 1] = g[i - 1])
        BY <3>2
      <4> QED BY <4>1, <2>2
    <3> QED BY <3>1, <3>2
  <2>4. IsTurned(v, m + 1, h)
    BY <2>3 DEF IsTurned
  <2> QED BY <2>4
<1>3. \E f : IsTurned(v, n, f)
  <2> HIDE DEF S
  <2>1. \A m \in Nat : m \in S
    BY <1>1, <1>2, Induct
  <2> QED BY <2>1 DEF S
<1>4. Turned(v, n) = (CHOOSE f : IsTurned(v, n, f))[n]
  BY DEF Turned, IsTurned
<1>5. PICK f : IsTurned(v, n, f) /\ Turned(v, n) = f[n]
  BY <1>3, <1>4
<1>6. \A i \in 0 .. n : f[i] = IF i = 0 THEN v ELSE Turn(f[i - 1])
  BY <1>5 DEF IsTurned
<1>7. f[0] = v /\ \A i \in 1 .. n : f[i] = Turn(f[i - 1])
  BY <1>6
<1> QED BY <1>5, <1>7

\* The timers that expire at the next tick.
DueOf(v) == {s \in Swtmr : TicksLeftOf(v, s) = 1}

\* A timer that is due before its turn of the loop, and after it.
Ending(v, x, s) ==
  x.state[s] = "TICKING" /\ osSwtmrTimeGet(x, s) = 0 /\ x.mode[s] = v.mode[s]
Ended(v, x, s) ==
  IF v.mode[s] = "PERIOD" THEN x.state[s] = "TICKING" /\ osSwtmrTimeGet(x, s) = v.interval[s]
  ELSE x.state[s] # "TICKING"

\* The callbacks that the loop has queued.
QueuedSince(v, x) ==
  /\ Len(v.queue) <= Len(x.queue)
  /\ \A j \in 1 .. Len(v.queue) : x.queue[j] = v.queue[j]
  /\ \A j \in Len(v.queue) + 1 .. Len(x.queue) :
       x.queue[j] \in DueOf(v) /\ Ended(v, x, x.queue[j])
  /\ \A i, j \in Len(v.queue) + 1 .. Len(x.queue) : x.queue[i] = x.queue[j] => i = j
  /\ \A s \in DueOf(v) :
       Ended(v, x, s) => \/ Len(x.queue) >= QUEUE_SIZE
                         \/ \E j \in Len(v.queue) + 1 .. Len(x.queue) : x.queue[j] = s

\* Each timer is as v and the turns taken since then leave it.
Progress(v, x) ==
  /\ \A s \in Swtmr \ DueOf(v) :
       /\ x.state[s] = v.state[s] /\ x.interval[s] = v.interval[s]
       /\ x.state[s] = "TICKING" => osSwtmrTimeGet(x, s) = osSwtmrTimeGet(v, s) - 1
  /\ \A s \in DueOf(v) :
       /\ Ending(v, x, s) \/ Ended(v, x, s)
       /\ x.state[s] = "TICKING" => x.interval[s] = v.interval[s]

\* The inductive invariant of the loop: the scan of v has led to x, and has at
\* most n timers to go.
Midway(v, x, n) ==
  /\ SwtmrTypes(x) /\ SwtmrLists(x) /\ FirstLater(x.sort, x.count, 0) <= n + 1
  /\ Progress(v, x) /\ QueuedSince(v, x)

\* What is due, in a state between the ticks.
LEMMA DueTimes ==
  ASSUME NEW v, SwtmrInv(v), NEW s \in Swtmr
  PROVE  /\ v.state[s] = "TICKING" => /\ osSwtmrTimeGet(v, s) \in 1 .. v.interval[s]
                                      /\ v.interval[s] \in Nat \ {0}
         /\ s \in DueOf(v) <=> v.state[s] = "TICKING" /\ osSwtmrTimeGet(v, s) = 1
<1>1. v.state[s] = "TICKING" => /\ osSwtmrTimeGet(v, s) \in 1 .. v.interval[s]
                                /\ v.interval[s] \in Nat
  BY SwtmrFields DEF SwtmrInv, SwtmrRunning
<1>2. s \in DueOf(v) <=> v.state[s] = "TICKING" /\ osSwtmrTimeGet(v, s) = 1
  <2>1. s \in DueOf(v) <=> TicksLeftOf(v, s) = 1
    BY DEF DueOf
  <2>2. NEVER # 1
    BY SwtmrAssumption
  <2> QED BY <2>1, <2>2 DEF TicksLeftOf
<1>3. v.state[s] = "TICKING" => v.interval[s] # 0
  BY <1>1
<1> QED BY <1>1, <1>2, <1>3

\* x is v after the first timer has been counted down.
HeadDownAt(v, x) == x = [v EXCEPT !.count[v.sort[1]] = @ - 1]

\* The state in which the loop starts.
LEMMA ScanStarts ==
  ASSUME NEW v, SwtmrInv(v), v.sort # <<>>, NEW x, HeadDownAt(v, x)
  PROVE  Midway(v, x, Len(v.sort))
<1>0. PICK R, s1 : s1 = v.sort[1] /\ R = [v.count EXCEPT ![s1] = @ - 1]
  OBVIOUS
<1>1. /\ v.state \in [Swtmr -> {"UNUSED", "CREATED", "TICKING"}] /\ v.mode \in [Swtmr -> Modes]
      /\ v.interval \in [Swtmr -> Nat] /\ v.count \in [Swtmr -> Nat]
      /\ v.sort \in Seq(Swtmr) /\ v.free \in Seq(Swtmr) /\ v.queue \in Seq(Swtmr)
      /\ Deltas(Swtmr, v.sort, v.count) /\ SwtmrTypes(v) /\ SwtmrLists(v)
      /\ \A s \in Swtmr : Contains(v.sort, s) <=> v.state[s] = "TICKING"
  BY SwtmrFields DEF SwtmrInv, SwtmrLists
<1>2. /\ x.state = v.state /\ x.mode = v.mode /\ x.interval = v.interval /\ x.count = R
      /\ x.sort = v.sort /\ x.free = v.free /\ x.queue = v.queue /\ x = [v EXCEPT !.count = R]
  BY <1>0, <1>1 DEF SwtmrTypes, HeadDownAt
<1>3. v.count[s1] > 0
  <2>1. 1 \in 1 .. Len(v.sort) /\ s1 \in Swtmr /\ Contains(v.sort, s1)
    BY <1>0, <1>1, OnList, EmptySeq
  <2>2. osSwtmrTimeGet(v, s1) \in 1 .. v.interval[s1]
    BY <1>1, <2>1 DEF SwtmrInv, SwtmrRunning
  <2>3. PICK list, rel : list = v.sort /\ rel = v.count
    OBVIOUS
  <2>4. Deltas(Swtmr, list, rel) /\ list \in Seq(Swtmr) /\ 1 \in 1 .. Len(list)
    BY <1>1, <2>1, <2>3
  <2>5. TimeOf(list, rel, list[1]) = Times(list, rel)[1]
    BY <2>4, TimeAt
  <2>6. Times(list, rel)[1] = Times(list, rel)[1 - 1] + rel[list[1]] /\ Times(list, rel)[0] = 0
    BY <2>4, TimesStep
  <2>7. rel[list[1]] \in Nat
    BY <2>4 DEF Deltas
  <2>8. TimeOf(list, rel, list[1]) = rel[list[1]]
    BY <2>5, <2>6, <2>7
  <2>9. osSwtmrTimeGet(v, s1) = v.count[s1] /\ v.count[s1] \in Nat /\ v.interval[s1] \in Nat
    BY <1>0, <1>1, <2>1, <2>3, <2>8 DEF osSwtmrTimeGet
  <2> QED BY <2>2, <2>9
<1>4. /\ Deltas(Swtmr, v.sort, R)
      /\ \A j \in 1 .. Len(v.sort) : Times(v.sort, R)[j] = Times(v.sort, v.count)[j] - 1
  <2>1. PICK list, rel : list = v.sort /\ rel = v.count
    OBVIOUS
  <2>2. Deltas(Swtmr, list, rel) /\ list # <<>> /\ rel[list[1]] > 0
    BY <1>0, <1>1, <1>3, <2>1
  <2>3. HeadAt(list, rel, R)
    BY <1>0, <2>1 DEF HeadAt
  <2>4. /\ Deltas(Swtmr, list, R)
        /\ \A j \in 1 .. Len(list) : Times(list, R)[j] = Times(list, rel)[j] - 1
    BY <2>2, <2>3, HeadTimes
  <2> QED BY <2>1, <2>4
<1>5. SwtmrTypes(x)
  BY <1>1, <1>2, <1>4 DEF SwtmrTypes, Deltas
<1>6. SwtmrLists(x)
  BY <1>1, <1>2 DEF SwtmrLists
<1>7. FirstLater(x.sort, x.count, 0) <= Len(v.sort) + 1
  <2>1. FirstLater(v.sort, R, 0) \in 1 .. Len(v.sort) + 1
    BY <1>4, FirstLaterOK
  <2>2. PICK list, p : list = v.sort /\ p = FirstLater(v.sort, R, 0)
    OBVIOUS
  <2>3. list \in Seq(Swtmr) /\ p \in 1 .. Len(list) + 1
    BY <1>1, <2>1, <2>2
  <2>4. p <= Len(list) + 1
    BY <2>3
  <2> QED BY <1>2, <2>2, <2>4
<1>8. ASSUME NEW s \in Swtmr, v.state[s] = "TICKING"
      PROVE  osSwtmrTimeGet(x, s) = osSwtmrTimeGet(v, s) - 1
  <2>1. PICK j \in 1 .. Len(v.sort) : v.sort[j] = s
    BY <1>1, <1>8, OnList
  <2>2. /\ TimeOf(v.sort, R, s) = Times(v.sort, R)[j]
        /\ TimeOf(v.sort, v.count, s) = Times(v.sort, v.count)[j]
    <3>1. TimeOf(v.sort, R, v.sort[j]) = Times(v.sort, R)[j]
      BY <1>4, TimeAt
    <3>2. TimeOf(v.sort, v.count, v.sort[j]) = Times(v.sort, v.count)[j]
      BY <1>1, TimeAt
    <3> QED BY <2>1, <3>1, <3>2
  <2> QED BY <1>2, <1>4, <2>2 DEF osSwtmrTimeGet
<1>9. Progress(v, x)
  <2>1. ASSUME NEW s \in DueOf(v)
        PROVE  Ending(v, x, s) /\ x.interval[s] = v.interval[s]
    <3>1. s \in Swtmr /\ v.state[s] = "TICKING" /\ osSwtmrTimeGet(v, s) = 1
      BY DueTimes DEF DueOf
    <3> QED BY <1>2, <1>8, <3>1 DEF Ending
  <2> QED BY <1>2, <1>8, <2>1 DEF Progress
<1>10. QueuedSince(v, x)
  <2>1. Len(v.queue) \in Nat /\ x.queue = v.queue
    BY <1>1, <1>2
  <2>2. \A s \in DueOf(v) : ~Ended(v, x, s)
    <3> SUFFICES ASSUME NEW s \in DueOf(v) PROVE ~Ended(v, x, s)
      OBVIOUS
    <3>1. s \in Swtmr /\ v.state[s] = "TICKING" /\ osSwtmrTimeGet(v, s) = 1 /\ v.interval[s] # 0
      BY DueTimes DEF DueOf
    <3>2. x.state[s] = "TICKING" /\ osSwtmrTimeGet(x, s) = 0
      BY <1>2, <1>8, <3>1
    <3> QED BY <3>1, <3>2 DEF Ended
  <2>3. Len(v.queue) + 1 .. Len(x.queue) = {}
    BY <2>1
  <2> QED BY <2>1, <2>2, <2>3 DEF QueuedSince
<1> QED BY <1>5, <1>6, <1>7, <1>9, <1>10 DEF Midway

\* A turn, while some timer is due.
LEMMA ScanExpires ==
  ASSUME NEW v, SwtmrInv(v), NEW n \in Nat, NEW x, Midway(v, x, n), x.sort # <<>>,
         NEW s, x.count[s] = 0, NEW y, ExpiresAt(x, s, y)
  PROVE  n # 0 /\ Midway(v, y, n - 1)
<1>1. /\ SwtmrTypes(x) /\ SwtmrLists(x) /\ FirstLater(x.sort, x.count, 0) <= n + 1
      /\ Progress(v, x) /\ QueuedSince(v, x)
  BY DEF Midway
<1>2. /\ s \in Swtmr /\ x.state[s] = "TICKING" /\ osSwtmrTimeGet(x, s) = 0
      /\ SwtmrTypes(y) /\ SwtmrLists(y)
      /\ \A u \in Swtmr : u # s =>
           /\ y.state[u] = x.state[u] /\ y.mode[u] = x.mode[u] /\ y.interval[u] = x.interval[u]
           /\ x.state[u] = "TICKING" => osSwtmrTimeGet(y, u) = osSwtmrTimeGet(x, u)
      /\ IF x.mode[s] = "PERIOD"
         THEN /\ y.state[s] = "TICKING" /\ y.interval[s] = x.interval[s]
              /\ osSwtmrTimeGet(y, s) = x.interval[s] /\ x.interval[s] \in Intervals
         ELSE y.state[s] # "TICKING"
      /\ y.queue = IF Len(x.queue) < QUEUE_SIZE THEN Append(x.queue, s) ELSE x.queue
      /\ FirstLater(x.sort, x.count, 0) \in 1 .. Len(x.sort) + 1
      /\ FirstLater(y.sort, y.count, 0) = FirstLater(x.sort, x.count, 0) - 1
  BY <1>1, ExpireOf
<1>3. /\ v.queue \in Seq(Swtmr) /\ x.queue \in Seq(Swtmr) /\ y.queue \in Seq(Swtmr)
      /\ x.sort \in Seq(Swtmr) /\ y.sort \in Seq(Swtmr) /\ y.count \in [Swtmr -> Nat]
      /\ Deltas(Swtmr, y.sort, y.count)
  BY <1>1, <1>2, SwtmrFields DEF SwtmrInv, SwtmrLists
<1>4. n # 0 /\ FirstLater(y.sort, y.count, 0) <= (n - 1) + 1
  <2>1. FirstLater(y.sort, y.count, 0) \in 1 .. Len(y.sort) + 1
    <3>1. PICK list, rel : list = y.sort /\ rel = y.count
      OBVIOUS
    <3>2. Deltas(Swtmr, list, rel)
      BY <1>3, <3>1
    <3>3. FirstLater(list, rel, 0) \in 1 .. Len(list) + 1
      BY <3>2, FirstLaterOK
    <3> QED BY <3>1, <3>3
  <2>2. PICK p, q, a, b : /\ p = FirstLater(y.sort, y.count, 0) /\ q = FirstLater(x.sort, x.count, 0)
                          /\ a = Len(x.sort) /\ b = Len(y.sort)
    OBVIOUS
  <2>3. a \in Nat /\ b \in Nat
    BY <1>3, <2>2
  <2>4. p \in 1 .. b + 1 /\ q \in 1 .. a + 1 /\ p = q - 1 /\ q <= n + 1
    BY <1>1, <1>2, <2>1, <2>2
  <2> QED BY <2>2, <2>3, <2>4
<1>5. s \in DueOf(v) /\ Ending(v, x, s) /\ x.interval[s] = v.interval[s]
  <2>1. s \in DueOf(v)
    <3> SUFFICES ASSUME s \notin DueOf(v) PROVE FALSE
      OBVIOUS
    <3>1. v.state[s] = "TICKING" /\ osSwtmrTimeGet(x, s) = osSwtmrTimeGet(v, s) - 1
      BY <1>1, <1>2 DEF Progress
    <3>2. osSwtmrTimeGet(v, s) \in 1 .. v.interval[s] /\ v.interval[s] \in Nat
      BY <1>2, <3>1, DueTimes
    <3>3. osSwtmrTimeGet(v, s) # 1
      BY <1>2, <3>1, DueTimes
    <3> QED BY <1>2, <3>1, <3>2, <3>3
  <2>2. v.interval[s] # 0
    BY <1>2, <2>1, DueTimes
  <2>3. Ending(v, x, s) \/ Ended(v, x, s)
    BY <1>1, <2>1 DEF Progress
  <2>4. ~Ended(v, x, s)
    BY <1>2, <2>2 DEF Ended
  <2>5. x.interval[s] = v.interval[s]
    BY <1>1, <1>2, <2>1 DEF Progress
  <2> QED BY <2>1, <2>3, <2>4, <2>5
<1>6. Ended(v, y, s) /\ (y.state[s] = "TICKING" => y.interval[s] = v.interval[s])
  <2>1. x.mode[s] = v.mode[s] /\ x.interval[s] = v.interval[s]
    BY <1>5 DEF Ending
  <2>2. CASE v.mode[s] = "PERIOD"
    BY <1>2, <2>1, <2>2 DEF Ended
  <2>3. CASE v.mode[s] # "PERIOD"
    BY <1>2, <2>1, <2>3 DEF Ended
  <2> QED BY <2>2, <2>3
<1>7. \A u \in Swtmr : u # s => /\ Ending(v, y, u) <=> Ending(v, x, u)
                                /\ Ended(v, y, u) <=> Ended(v, x, u)
  BY <1>2 DEF Ending, Ended
<1>8. Progress(v, y)
  <2>1. ASSUME NEW u \in Swtmr \ DueOf(v)
        PROVE  /\ y.state[u] = v.state[u] /\ y.interval[u] = v.interval[u]
               /\ y.state[u] = "TICKING" => osSwtmrTimeGet(y, u) = osSwtmrTimeGet(v, u) - 1
    <3>1. u \in Swtmr /\ u # s
      BY <1>5
    <3> QED BY <1>1, <1>2, <3>1 DEF Progress
  <2>2. ASSUME NEW u \in DueOf(v)
        PROVE  /\ Ending(v, y, u) \/ Ended(v, y, u)
               /\ y.state[u] = "TICKING" => y.interval[u] = v.interval[u]
    <3>1. CASE u = s
      BY <1>6, <3>1
    <3>2. CASE u # s
      <4>1. u \in Swtmr
        BY DEF DueOf
      <4> QED BY <1>1, <1>2, <1>7, <3>2, <4>1 DEF Progress
    <3> QED BY <3>1, <3>2
  <2> QED BY <2>1, <2>2 DEF Progress
<1>9. QueuedSince(v, y)
  <2>1. PICK a, b, c, k, m : /\ a = v.queue /\ b = x.queue /\ c = y.queue
                             /\ k = Len(v.queue) /\ m = Len(x.queue)
    OBVIOUS
  <2>2. k \in Nat /\ m \in Nat
    BY <1>3, <2>1
  <2>3. /\ k <= m /\ \A j \in 1 .. k : b[j] = a[j]
        /\ \A j \in k + 1 .. m : b[j] \in DueOf(v) /\ Ended(v, x, b[j])
        /\ \A i, j \in k + 1 .. m : b[i] = b[j] => i = j
        /\ \A u \in DueOf(v) :
             Ended(v, x, u) => m >= QUEUE_SIZE \/ \E j \in k + 1 .. m : b[j] = u
    BY <1>1, <2>1 DEF QueuedSince
  <2>4. ~Ended(v, x, s)
    <3>1. v.interval[s] # 0
      BY <1>2, <1>5, DueTimes
    <3> QED BY <1>2, <3>1 DEF Ended
  <2>5. \A u \in DueOf(v) : Ended(v, x, u) => Ended(v, y, u)
    <3>1. \A u \in DueOf(v) : u \in Swtmr
      BY DEF DueOf
    <3> QED BY <1>7, <2>4, <3>1
  <2>6. CASE m < QUEUE_SIZE
    <3>1. c = Append(b, s) /\ b \in Seq(Swtmr) /\ s \in Swtmr /\ Len(b) = m
      BY <1>2, <1>3, <2>1, <2>6
    <3>2. Len(c) = m + 1 /\ c[m + 1] = s /\ \A j \in 1 .. m : c[j] = b[j]
      BY <2>2, <3>1
    <3>3. \A j \in k + 1 .. m : b[j] # s
      BY <2>3, <2>4
    <3>4. \A j \in k + 1 .. m + 1 : j # m + 1 => j \in k + 1 .. m /\ c[j] = b[j]
      BY <2>2, <3>2
    <3>5. \A j \in k + 1 .. m + 1 : c[j] \in DueOf(v) /\ Ended(v, y, c[j])
      BY <1>5, <1>6, <2>3, <2>5, <3>2, <3>4
    <3>6. ASSUME NEW i \in k + 1 .. m + 1, NEW j \in k + 1 .. m + 1, c[i] = c[j] PROVE i = j
      <4>1. CASE i = m + 1 /\ j = m + 1
        BY <4>1
      <4>2. CASE i = m + 1 /\ j # m + 1
        BY <3>2, <3>3, <3>4, <3>6, <4>2
      <4>3. CASE i # m + 1 /\ j = m + 1
        BY <3>2, <3>3, <3>4, <3>6, <4>3
      <4>4. CASE i # m + 1 /\ j # m + 1
        BY <2>3, <3>4, <3>6, <4>4
      <4> QED BY <4>1, <4>2, <4>3, <4>4
    <3>7. k <= m + 1 /\ \A j \in 1 .. k : c[j] = a[j]
      <4>1. \A j \in 1 .. k : j \in 1 .. m
        BY <2>2, <2>3
      <4> QED BY <2>2, <2>3, <3>2, <4>1
    <3>8. ASSUME NEW u \in DueOf(v), Ended(v, y, u)
          PROVE  m + 1 >= QUEUE_SIZE \/ \E j \in k + 1 .. m + 1 : c[j] = u
      <4>1. CASE u = s
        <5>1. m + 1 \in k + 1 .. m + 1
          BY <2>2, <2>3
        <5> QED BY <3>2, <4>1, <5>1
      <4>2. CASE u # s
        <5>1. u \in Swtmr
          BY DEF DueOf
        <5>2. Ended(v, x, u)
          BY <1>7, <3>8, <4>2, <5>1
        <5>3. ~(m >= QUEUE_SIZE)
          BY <2>2, <2>6, SwtmrAssumption
        <5>4. PICK j \in k + 1 .. m : b[j] = u
          BY <2>3, <5>2, <5>3
        <5>5. j \in 1 .. m /\ j \in k + 1 .. m + 1
          BY <2>2
        <5> QED BY <3>2, <5>4, <5>5
      <4> QED BY <4>1, <4>2
    <3> QED BY <2>1, <3>2, <3>5, <3>6, <3>7, <3>8 DEF QueuedSince
  <2>7. CASE ~(m < QUEUE_SIZE)
    <3>1. c = b
      BY <1>2, <2>1, <2>7
    <3>2. m >= QUEUE_SIZE
      BY <2>2, <2>7, SwtmrAssumption
    <3>3. \A j \in k + 1 .. m : b[j] \in DueOf(v) /\ Ended(v, y, b[j])
      BY <2>3, <2>5
    <3> QED BY <2>1, <2>3, <3>1, <3>2, <3>3 DEF QueuedSince
  <2> QED BY <2>6, <2>7
<1>10. Midway(v, y, n - 1)
  BY <1>2, <1>4, <1>8, <1>9 DEF Midway
<1> QED BY <1>4, <1>10

\* A turn of the loop brings it nearer to its end.
LEMMA ScanTurns ==
  ASSUME NEW v, SwtmrInv(v), NEW n \in Nat, NEW x, Midway(v, x, n)
  PROVE  \E k \in Nat : /\ k = IF n = 0 THEN 0 ELSE n - 1
                        /\ Midway(v, Turn(x), k)
<1>1. /\ SwtmrTypes(x) /\ SwtmrLists(x) /\ FirstLater(x.sort, x.count, 0) <= n + 1
      /\ Progress(v, x) /\ QueuedSince(v, x)
  BY DEF Midway
<1>2. x.sort \in Seq(Swtmr) /\ x.count \in [Swtmr -> Nat] /\ Deltas(Swtmr, x.sort, x.count)
  BY <1>1, SwtmrFields DEF SwtmrLists
<1>3. PICK y, list, rel : y = Turn(x) /\ list = x.sort /\ rel = x.count
  OBVIOUS
<1>4. list \in Seq(Swtmr) /\ rel \in [Swtmr -> Nat] /\ Deltas(Swtmr, list, rel)
  BY <1>2, <1>3
<1>5. CASE list = <<>> \/ rel[list[1]] > 0
  <2>1. FirstLater(list, rel, 0) = 1
    BY <1>4, <1>5, ZeroHead
  <2>2. y = x
    BY <1>3, <1>5 DEF Turn
  <2>3. FirstLater(x.sort, x.count, 0) = 1
    BY <1>3, <2>1
  <2>4. PICK k \in Nat : k = IF n = 0 THEN 0 ELSE n - 1
    OBVIOUS
  <2>5. FirstLater(x.sort, x.count, 0) <= k + 1
    BY <2>3
  <2>6. Midway(v, x, k)
    BY <1>1, <2>5 DEF Midway
  <2> QED BY <1>3, <2>2, <2>4, <2>6
<1>6. CASE ~(list = <<>> \/ rel[list[1]] > 0)
  <2>1. list # <<>> /\ list[1] \in Swtmr
    BY <1>4, <1>6, EmptySeq
  <2>2. rel[list[1]] = 0
    BY <1>4, <1>6, <2>1
  <2>3. PICK s : s = list[1]
    OBVIOUS
  <2>4. x.sort # <<>> /\ x.count[s] = 0 /\ ExpiresAt(x, s, y)
    BY <1>3, <1>6, <2>1, <2>2, <2>3 DEF Turn, ExpiresAt
  <2>5. n # 0 /\ Midway(v, y, n - 1)
    BY <2>4, ScanExpires
  <2> QED BY <1>3, <2>5
<1> QED BY <1>5, <1>6

\* When the loop is over, no timer is due any more.
LEMMA ScanOver ==
  ASSUME NEW v, SwtmrInv(v), NEW x, Midway(v, x, 0)
  PROVE  /\ SwtmrInv(x)
         /\ \A s \in Swtmr \ DueOf(v) :
              TicksLeftOf(x, s) = IF v.state[s] = "TICKING" THEN TicksLeftOf(v, s) - 1 ELSE NEVER
         /\ \A s \in DueOf(v) :
              /\ Ended(v, x, s)
              /\ TicksLeftOf(x, s) = IF v.mode[s] = "PERIOD" THEN v.interval[s] ELSE NEVER
<1>1. /\ SwtmrTypes(x) /\ SwtmrLists(x) /\ FirstLater(x.sort, x.count, 0) <= 0 + 1
      /\ Progress(v, x) /\ QueuedSince(v, x)
  BY DEF Midway
<1>2. /\ Deltas(Swtmr, x.sort, x.count) /\ x.interval \in [Swtmr -> Nat]
      /\ \A s \in Swtmr : Contains(x.sort, s) <=> x.state[s] = "TICKING"
  BY <1>1, SwtmrFields DEF SwtmrLists
<1>3. ASSUME NEW s \in Swtmr, x.state[s] = "TICKING" PROVE osSwtmrTimeGet(x, s) > 0
  <2>1. PICK list, rel, p : list = x.sort /\ rel = x.count /\ p = FirstLater(list, rel, 0)
    OBVIOUS
  <2>2. Deltas(Swtmr, list, rel) /\ Contains(list, s)
    BY <1>2, <1>3, <2>1
  <2>3. /\ p \in 1 .. Len(list) + 1
        /\ p = 1 => \A u : Contains(list, u) => TimeOf(list, rel, u) > 0
    BY <2>1, <2>2, ZeroHead
  <2>4. p = 1
    BY <1>1, <2>1, <2>3
  <2> QED BY <2>1, <2>2, <2>3, <2>4 DEF osSwtmrTimeGet
<1>4. \A s \in DueOf(v) : s \in Swtmr
  BY DEF DueOf
<1>5. ASSUME NEW s \in DueOf(v)
      PROVE  /\ Ended(v, x, s)
             /\ TicksLeftOf(x, s) = IF v.mode[s] = "PERIOD" THEN v.interval[s] ELSE NEVER
  <2>1. ~Ending(v, x, s)
    <3> SUFFICES ASSUME Ending(v, x, s) PROVE FALSE
      OBVIOUS
    <3>1. x.state[s] = "TICKING" /\ osSwtmrTimeGet(x, s) = 0
      BY DEF Ending
    <3> QED BY <1>3, <1>4, <3>1
  <2>2. Ended(v, x, s)
    BY <1>1, <2>1 DEF Progress
  <2>3. CASE v.mode[s] = "PERIOD"
    BY <2>2, <2>3 DEF Ended, TicksLeftOf
  <2>4. CASE v.mode[s] # "PERIOD"
    BY <2>2, <2>4 DEF Ended, TicksLeftOf
  <2> QED BY <2>2, <2>3, <2>4
<1>6. ASSUME NEW s \in Swtmr \ DueOf(v)
      PROVE  TicksLeftOf(x, s) = IF v.state[s] = "TICKING" THEN TicksLeftOf(v, s) - 1 ELSE NEVER
  <2>1. /\ x.state[s] = v.state[s]
        /\ x.state[s] = "TICKING" => osSwtmrTimeGet(x, s) = osSwtmrTimeGet(v, s) - 1
    BY <1>1 DEF Progress
  <2> QED BY <2>1 DEF TicksLeftOf
<1>7. SwtmrRunning(x)
  <2>1. ASSUME NEW s \in Swtmr, x.state[s] = "TICKING"
        PROVE  osSwtmrTimeGet(x, s) \in 1 .. x.interval[s]
    <3>1. CASE s \in DueOf(v)
      <4>1. Ended(v, x, s) /\ x.interval[s] = v.interval[s]
        BY <1>1, <1>5, <2>1, <3>1 DEF Progress
      <4>2. osSwtmrTimeGet(x, s) = v.interval[s]
        BY <2>1, <4>1 DEF Ended
      <4>3. v.interval[s] \in Nat \ {0}
        BY <3>1, DueTimes
      <4> QED BY <4>1, <4>2, <4>3
    <3>2. CASE s \notin DueOf(v)
      <4>1. /\ v.state[s] = "TICKING" /\ x.interval[s] = v.interval[s]
            /\ osSwtmrTimeGet(x, s) = osSwtmrTimeGet(v, s) - 1
        BY <1>1, <2>1, <3>2 DEF Progress
      <4>2. /\ osSwtmrTimeGet(v, s) \in 1 .. v.interval[s] /\ v.interval[s] \in Nat
            /\ osSwtmrTimeGet(v, s) # 1
        BY <3>2, <4>1, DueTimes
      <4> QED BY <4>1, <4>2
    <3> QED BY <3>1, <3>2
  <2> QED BY <2>1 DEF SwtmrRunning
<1> QED BY <1>1, <1>5, <1>6, <1>7 DEF SwtmrInv

\* new is what has been queued from v to x.
NewAt(v, x, new) == new = SubSeq(x.queue, Len(v.queue) + 1, Len(x.queue))

\* What the loop has queued is what a tick may queue.
LEMMA QueueGrows ==
  ASSUME NEW v, SwtmrInv(v), NEW x, SwtmrInv(x), QueuedSince(v, x),
         \A s \in DueOf(v) : Ended(v, x, s),
         NEW new, NewAt(v, x, new)
  PROVE  /\ SubSeq(x.queue, 1, Len(v.queue)) = v.queue
         /\ ToSet(new) \subseteq DueOf(v) /\ IsInjective(new)
         /\ ToSet(new) # DueOf(v) => Len(x.queue) = QUEUE_SIZE
<1>1. PICK a, b, k, m : a = v.queue /\ b = x.queue /\ k = Len(a) /\ m = Len(b)
  OBVIOUS
<1>2. /\ a \in Seq(Swtmr) /\ b \in Seq(Swtmr) /\ k \in Nat /\ m \in Nat /\ m <= QUEUE_SIZE
  <2>1. v.queue \in Seq(Swtmr) /\ x.queue \in Seq(Swtmr) /\ Len(x.queue) <= QUEUE_SIZE
    BY SwtmrFields DEF SwtmrInv, SwtmrLists
  <2> QED BY <1>1, <2>1
<1>3. /\ k <= m /\ \A j \in 1 .. k : b[j] = a[j]
      /\ \A j \in k + 1 .. m : b[j] \in DueOf(v)
      /\ \A i, j \in k + 1 .. m : b[i] = b[j] => i = j
      /\ \A s \in DueOf(v) : m >= QUEUE_SIZE \/ \E j \in k + 1 .. m : b[j] = s
  BY <1>1 DEF QueuedSince
<1>4. SubSeq(b, 1, k) = a
  <2>1. \A j \in 1 .. k : b[j] \in Swtmr
    BY <1>1, <1>2, <1>3
  <2>2. /\ SubSeq(b, 1, k) \in Seq(Swtmr) /\ Len(SubSeq(b, 1, k)) = k
        /\ \A j \in 1 .. k : SubSeq(b, 1, k)[j] = b[j]
    BY <1>2, <2>1, SubSeqProperties
  <2>3. PICK c \in Seq(Swtmr) : c = SubSeq(b, 1, k)
    BY <2>2
  <2>4. c = a
    BY <1>1, <1>2, <1>3, <2>2, <2>3, SeqEqual
  <2> QED BY <2>3, <2>4
<1>5. new = SubSeq(b, k + 1, m)
  BY <1>1 DEF NewAt
<1>6. /\ new \in Seq(Swtmr) /\ Len(new) = m - k
      /\ \A j \in 1 .. m - k : new[j] = b[k + j]
  <2>1. \A j \in k + 1 .. m : b[j] \in Swtmr
    BY <1>3 DEF DueOf
  <2>2. /\ SubSeq(b, k + 1, m) \in Seq(Swtmr)
        /\ Len(SubSeq(b, k + 1, m)) = IF k + 1 <= m THEN m - (k + 1) + 1 ELSE 0
        /\ \A j \in 1 .. m - (k + 1) + 1 : SubSeq(b, k + 1, m)[j] = b[(k + 1) + j - 1]
    BY <1>2, <2>1, SubSeqProperties
  <2>3. PICK c : c = SubSeq(b, k + 1, m)
    OBVIOUS
  <2>4. c \in Seq(Swtmr) /\ Len(c) = m - k
    BY <1>2, <1>3, <2>2, <2>3
  <2>5. \A j \in 1 .. m - k : c[j] = b[k + j]
    <3> SUFFICES ASSUME NEW j \in 1 .. m - k PROVE c[j] = b[k + j]
      OBVIOUS
    <3>1. j \in 1 .. m - (k + 1) + 1 /\ (k + 1) + j - 1 = k + j
      BY <1>2
    <3> QED BY <2>2, <2>3, <3>1
  <2> QED BY <1>5, <2>3, <2>4, <2>5
<1>7. ToSet(new) \subseteq DueOf(v)
  <2> SUFFICES ASSUME NEW s, s \in ToSet(new) PROVE s \in DueOf(v)
    OBVIOUS
  <2>1. PICK j \in 1 .. m - k : new[j] = s
    BY <1>6, OnList
  <2>2. k + j \in k + 1 .. m
    BY <1>2
  <2> QED BY <1>3, <1>6, <2>1, <2>2
<1>8. IsInjective(new)
  <2>1. ASSUME NEW i \in 1 .. m - k, NEW j \in 1 .. m - k, new[i] = new[j] PROVE i = j
    <3>1. k + i \in k + 1 .. m /\ k + j \in k + 1 .. m /\ b[k + i] = b[k + j]
      BY <1>2, <1>6, <2>1
    <3>2. k + i = k + j
      BY <1>3, <3>1
    <3> QED BY <1>2, <3>2
  <2> QED BY <1>6, <2>1 DEF IsInjective
<1>9. ASSUME m # QUEUE_SIZE PROVE ToSet(new) = DueOf(v)
  <2>1. ~(m >= QUEUE_SIZE)
    BY <1>2, <1>9, SwtmrAssumption
  <2>2. ASSUME NEW s \in DueOf(v) PROVE s \in ToSet(new)
    <3>1. PICK j \in k + 1 .. m : b[j] = s
      BY <1>3, <2>1
    <3>2. j - k \in 1 .. m - k /\ k + (j - k) = j
      BY <1>2
    <3>3. new[j - k] = s
      BY <1>6, <3>1, <3>2
    <3> QED BY <1>6, <3>2, <3>3, OnList
  <2> QED BY <1>7, <2>2
<1>10. /\ SubSeq(x.queue, 1, Len(v.queue)) = v.queue
       /\ ToSet(new) # DueOf(v) => Len(x.queue) = QUEUE_SIZE
  BY <1>1, <1>4, <1>9
<1> QED BY <1>7, <1>8, <1>10

\* x is v after osSwtmrScan.
ScannedAt(v, x) == x = osSwtmrScan(v)

\* The chain of turns ends, with the timers as many as it has turns.
LEMMA ScanLoops ==
  ASSUME NEW v, SwtmrInv(v), v.sort # <<>>, NEW y, HeadDownAt(v, y)
  PROVE  Midway(v, Turned(y, Len(v.sort)), 0)
<1>1. PICK m \in Nat : m = Len(v.sort)
  <2>1. v.sort \in Seq(Swtmr)
    BY SwtmrFields DEF SwtmrInv
  <2> QED BY <2>1
<1>2. PICK f : /\ Turned(y, m) = f[m] /\ f[0] = y
               /\ \A i \in 1 .. m : f[i] = Turn(f[i - 1])
  BY TurnedOf
<1> DEFINE P == {i \in Nat : i <= m => \E k \in Nat : k = m - i /\ Midway(v, f[i], k)}
<1>3. 0 \in P
  <2>1. Midway(v, f[0], m)
    BY <1>1, <1>2, ScanStarts
  <2>2. m = m - 0
    OBVIOUS
  <2> QED BY <2>1, <2>2
<1>4. ASSUME NEW i \in Nat, i \in P PROVE i + 1 \in P
  <2> SUFFICES ASSUME i + 1 <= m
               PROVE  \E k \in Nat : k = m - (i + 1) /\ Midway(v, f[i + 1], k)
    OBVIOUS
  <2>1. PICK n \in Nat : n = m - i /\ Midway(v, f[i], n)
    BY <1>4
  <2>2. PICK z : z = f[i]
    OBVIOUS
  <2>3. PICK k \in Nat : k = (IF n = 0 THEN 0 ELSE n - 1) /\ Midway(v, Turn(z), k)
    <3>1. Midway(v, z, n)
      BY <2>1, <2>2
    <3> QED BY <3>1, ScanTurns
  <2>4. i + 1 \in 1 .. m /\ (i + 1) - 1 = i /\ k = m - (i + 1)
    BY <2>1, <2>3
  <2>5. f[i + 1] = Turn(z)
    BY <1>2, <2>2, <2>4
  <2> QED BY <2>3, <2>4, <2>5
<1>5. \E k \in Nat : k = m - m /\ Midway(v, f[m], k)
  <2> HIDE DEF P
  <2>1. \A i \in Nat : i \in P
    BY <1>3, <1>4, Induct
  <2>2. m \in P
    BY <2>1
  <2> QED BY <2>2 DEF P
<1>6. Midway(v, f[m], 0)
  <2>1. m - m = 0
    OBVIOUS
  <2> QED BY <1>5, <2>1
<1> QED BY <1>1, <1>2, <1>6

\* A tick counts down every timer.
LEMMA ScanOK ==
  ASSUME NEW v, SwtmrInv(v), NEW x, ScannedAt(v, x)
  PROVE  SwtmrInv(x) /\ SwtmrTick(v, x)
<1>1. v.sort \in Seq(Swtmr) /\ v.queue \in Seq(Swtmr)
  BY SwtmrFields DEF SwtmrInv
<1>2. /\ SwtmrInv(x) /\ QueuedSince(v, x)
      /\ \A s \in Swtmr \ DueOf(v) :
           TicksLeftOf(x, s) = IF v.state[s] = "TICKING" THEN TicksLeftOf(v, s) - 1 ELSE NEVER
      /\ \A s \in DueOf(v) :
           /\ Ended(v, x, s)
           /\ TicksLeftOf(x, s) = IF v.mode[s] = "PERIOD" THEN v.interval[s] ELSE NEVER
  <2>1. CASE v.sort = <<>>
    <3>1. x = v
      BY <2>1 DEF ScannedAt, osSwtmrScan
    <3>2. \A s \in Swtmr : v.state[s] # "TICKING"
      <4>1. \A s : ~Contains(v.sort, s)
        BY <1>1, <2>1, OnList
      <4> QED BY <4>1 DEF SwtmrInv, SwtmrLists
    <3>3. DueOf(v) = {}
      <4>1. \A s \in Swtmr : s \notin DueOf(v)
        BY <3>2, DueTimes
      <4> QED BY <4>1 DEF DueOf
    <3>4. QueuedSince(v, x)
      <4>1. Len(v.queue) \in Nat /\ Len(v.queue) + 1 .. Len(v.queue) = {}
        BY <1>1
      <4> QED BY <3>1, <3>3, <4>1 DEF QueuedSince
    <3>5. \A s \in Swtmr : TicksLeftOf(x, s) = NEVER
      BY <3>1, <3>2 DEF TicksLeftOf
    <3>6. SwtmrInv(x)
      BY <3>1
    <3> QED BY <3>2, <3>3, <3>4, <3>5, <3>6
  <2>2. CASE v.sort # <<>>
    <3>1. PICK y : HeadDownAt(v, y)
      BY DEF HeadDownAt
    <3>2. x = Turned(y, Len(v.sort))
      BY <2>2, <3>1 DEF ScannedAt, osSwtmrScan, HeadDownAt
    <3>3. Midway(v, x, 0)
      BY <2>2, <3>1, <3>2, ScanLoops
    <3>4. QueuedSince(v, x)
      BY <3>3 DEF Midway
    <3> QED BY <3>3, <3>4, ScanOver
  <2> QED BY <2>1, <2>2
<1>3. PICK new : NewAt(v, x, new)
  BY DEF NewAt
<1>4. /\ SubSeq(x.queue, 1, Len(v.queue)) = v.queue
      /\ ToSet(new) \subseteq DueOf(v) /\ IsInjective(new)
      /\ ToSet(new) # DueOf(v) => Len(x.queue) = QUEUE_SIZE
  BY <1>2, <1>3, QueueGrows
<1> QED BY <1>2, <1>3, <1>4 DEF SwtmrTick, DueOf, NewAt

-----------------------------------------------------------------------------
(* The behaviours of the software timers                                   *)

\* The free list of an order of the control blocks.
LEMMA SwtmrBlocks ==
  ASSUME NEW blocks \in SetToSeqs(Swtmr)
  PROVE  /\ blocks \in Seq(Swtmr) /\ IsInjective(blocks)
         /\ \A s \in Swtmr : Contains(blocks, s)
<1> DEFINE m == Cardinality(Swtmr)
<1>1. m \in Nat /\ IsFiniteSet(Swtmr) /\ IsFiniteSet(1 .. m) /\ Cardinality(1 .. m) = m
  <2>1. IsFiniteSet(Swtmr)
    BY SwtmrAssumption
  <2>2. m \in Nat
    BY <2>1, FS_CardinalityType
  <2>3. IsFiniteSet(1 .. m) /\ Cardinality(1 .. m) = m
    BY <2>2, FS_Interval
  <2> QED BY <2>1, <2>2, <2>3
<1>2. blocks \in [1 .. m -> Swtmr] /\ \A i, j \in 1 .. m : i # j => blocks[i] # blocks[j]
  BY DEF SetToSeqs
<1>3. IsInjective(blocks)
  BY <1>2 DEF IsInjective
<1>4. blocks \in Injection(1 .. m, Swtmr)
  BY <1>2, <1>3 DEF Injection
<1>5. blocks \in Surjection(1 .. m, Swtmr)
  BY <1>1, <1>4, FS_Injection
<1>6. blocks \in Seq(Swtmr) /\ Len(blocks) = m
  <2> HIDE DEF m
  <2> QED BY <1>1, <1>2, IsASeq, LenProperties
<1>7. \A s \in Swtmr : \E i \in 1 .. m : blocks[i] = s
  BY <1>5 DEF Surjection
<1>8. \A s \in Swtmr : Contains(blocks, s)
  <2>1. \A s : Contains(blocks, s) <=> \E i \in 1 .. Len(blocks) : blocks[i] = s
    BY <1>6, OnList
  <2> QED BY <1>6, <1>7, <2>1
<1> QED BY <1>3, <1>6, <1>8

\* osSwTmrInit.
LEMMA SwtmrStarts ==
  ASSUME NEW blocks \in SetToSeqs(Swtmr), NEW v, v = SwTmrInit(blocks)
  PROVE  SwtmrInv(v)
<1>1. /\ blocks \in Seq(Swtmr) /\ IsInjective(blocks)
      /\ \A s \in Swtmr : Contains(blocks, s)
  BY SwtmrBlocks
<1>2. <<>> \in Seq(Swtmr) /\ IsInjective(<<>>) /\ \A u : ~Contains(<<>>, u)
  <2>1. <<>> \in Seq(Swtmr) /\ Len(<<>>) = 0 /\ DOMAIN <<>> = {}
    OBVIOUS
  <2> QED BY <2>1 DEF IsInjective, Contains
<1>3. /\ v.state = [s \in Swtmr |-> "UNUSED"] /\ v.sort = <<>> /\ v.free = blocks /\ v.queue = <<>>
      /\ v.mode = [s \in Swtmr |-> "ONCE"] /\ v.interval = [s \in Swtmr |-> 0]
      /\ v.count = [s \in Swtmr |-> 0]
  BY DEF SwTmrInit
<1>4. SwtmrTypes(v)
  BY <1>1, <1>2 DEF SwtmrTypes, SwTmrInit, Modes
<1>5. \A s \in Swtmr : v.state[s] = "UNUSED" /\ v.state[s] # "TICKING"
  BY <1>3
<1>6. Len(v.queue) <= QUEUE_SIZE
  BY <1>3, SwtmrAssumption
<1>7. SwtmrLists(v)
  BY <1>1, <1>2, <1>3, <1>5, <1>6 DEF SwtmrLists
<1>8. SwtmrRunning(v)
  BY <1>5 DEF SwtmrRunning
<1> QED BY <1>4, <1>7, <1>8 DEF SwtmrInv

\* A step is a tick of both kinds of timers, or the cursor stands still.
LEMMA SwtmrStep ==
  ASSUME WheelInv, SwtmrInv(w), [TicklessNext]_ticklessVars
  PROVE  /\ SwtmrInv(w)'
         /\ [IF cursor' # cursor THEN SwtmrTick(w, w') ELSE w' # w => OnlyOwn(w, w')]_ticklessVars
<1> DEFINE Right == IF cursor' # cursor THEN SwtmrTick(w, w') ELSE w' # w => OnlyOwn(w, w')
<1>1. CASE UNCHANGED ticklessVars
  <2>1. w' = w
    BY <1>1 DEF ticklessVars
  <2> QED BY <1>1, <2>1 DEF SwtmrInv, SwtmrTypes, SwtmrLists, SwtmrRunning, osSwtmrTimeGet
<1>2. ASSUME UNCHANGED <<allVars, w>>
      PROVE  SwtmrInv(w)' /\ Right
  <2>1. w' = w /\ cursor' = cursor
    BY <1>2 DEF allVars, wheel
  <2>2. SwtmrInv(w)' = SwtmrInv(w')
    BY DEF SwtmrInv, SwtmrTypes, SwtmrLists, SwtmrRunning, osSwtmrTimeGet
  <2> QED BY <2>1, <2>2
<1>3. CASE Cycle \/ osTicklessStart \/ TickInterrupt \/ DeviceInterrupt
           \/ osUpdateKernelTickCount \/ DeviceHandler
  <2>1. UNCHANGED <<allVars, w>>
    BY <1>3 DEF Cycle, osTicklessStart, TickInterrupt, DeviceInterrupt,
       osUpdateKernelTickCount, DeviceHandler
  <2> QED BY <1>2, <2>1
<1>4. ASSUME TickWork
      PROVE  SwtmrInv(w)' /\ Right
  <2>1. cursor' = Slot /\ Slot # cursor
    BY <1>4, ExpiringOK DEF TickWork, osTaskScan
  <2>2. PICK x : ScannedAt(w, x) /\ x = w'
    BY <1>4 DEF TickWork, ScannedAt
  <2>3. SwtmrInv(x) /\ SwtmrTick(w, x)
    BY <2>2, ScanOK
  <2> QED BY <2>1, <2>2, <2>3
<1>5. CASE osTickHandlerLoop
  <2>1. CASE Frame.n > 0
    BY <1>4, <1>5, <2>1 DEF osTickHandlerLoop
  <2>2. CASE ~(Frame.n > 0)
    BY <1>2, <1>5, <2>2 DEF osTickHandlerLoop
  <2> QED BY <2>1, <2>2
<1>6. CASE osTickHandler
  BY <1>4, <1>6 DEF osTickHandler
<1>7. CASE TaskTimerCall
  <2>1. w' = w /\ cursor' = cursor
    BY <1>7 DEF TaskTimerCall, osTimerListDelete, osTaskAdd2TimerList
  <2> QED BY <2>1
<1>8. CASE SwtmrTaskCall
  <2>1. cursor' = cursor /\ (SwtmrCall(w, w') \/ osSwTmrTask(w, w'))
    BY <1>8 DEF SwtmrTaskCall, allVars, wheel
  <2>2. SwtmrInv(w') /\ OnlyOwn(w, w')
    BY <2>1, CallsOK
  <2> QED BY <2>1, <2>2
<1> QED BY <1>1, <1>3, <1>5, <1>6, <1>7, <1>8 DEF TicklessNext

\* The software timers' lists are consistent in every state.
THEOREM SwtmrInvariance == TicklessSpec => []SwtmrInv(w)
<1>1. TicklessInit => SwtmrInv(w)
  BY SwtmrStarts DEF TicklessInit
<1>2. WheelInv /\ SwtmrInv(w) /\ [TicklessNext]_ticklessVars => SwtmrInv(w)'
  BY SwtmrStep
<1> QED BY <1>1, <1>2, WheelInvariance, PTL DEF TicklessSpec

\* Every tick counts down every software timer, queues the callbacks of those
\* that expire and starts the periodic ones again; no call disturbs the timers
\* of others.
THEOREM SwtmrTicksRight == TicklessSpec => SwtmrCountsDown
<1>1. /\ WheelInv /\ SwtmrInv(w) /\ [TicklessNext]_ticklessVars
      => [IF cursor' # cursor THEN SwtmrTick(w, w') ELSE w' # w => OnlyOwn(w, w')]_ticklessVars
  BY SwtmrStep
<1> QED BY <1>1, WheelInvariance, SwtmrInvariance, PTL DEF TicklessSpec, SwtmrCountsDown

-----------------------------------------------------------------------------
(* The clock                                                               *)

\* The types of the counter and of the sleep.
ClockTypes ==
  /\ systick \in [val : Nat, load : Nat, pending : BOOLEAN] /\ systick.val \in 1 .. systick.load
  /\ sleepTicks \in 0 .. MAX_SLEEP /\ reloadFlag \in BOOLEAN

\* Products with the cycles of a tick.
LEMMA CyclesOf ==
  ASSUME NEW n \in Nat
  PROVE  /\ n * CPT \in Nat /\ (n + 1) * CPT = n * CPT + CPT /\ CPT \in Nat \ {0}
         /\ n # 0 => n - 1 \in Nat /\ n * CPT = (n - 1) * CPT + CPT
         /\ 0 * CPT = 0 /\ 1 * CPT = CPT
<1>1. CPT \in Nat \ {0}
  BY TicklessAssumption
<1>2. \A a \in Nat, b \in Nat : a * b \in Nat /\ (a + 1) * b = a * b + b
  OBVIOUS
<1>3. n # 0 => n - 1 \in Nat /\ n * CPT = (n - 1) * CPT + CPT
  <2> SUFFICES ASSUME n # 0 PROVE n - 1 \in Nat /\ n * CPT = (n - 1) * CPT + CPT
    OBVIOUS
  <2>1. n - 1 \in Nat /\ (n - 1) + 1 = n
    OBVIOUS
  <2> QED BY <1>1, <1>2, <2>1
<1> QED BY <1>1, <1>2, <1>3

\* osSleepTicksGet tells the ticks until the first timer of either kind expires.
LEMMA SleepTicksOf ==
  ASSUME WheelInv, SwtmrInv(w)
  PROVE  /\ osSleepTicksGet \in Nat
         /\ osSleepTicksGet > 0 =>
              /\ \A t \in ToSet(armed) : osSleepTicksGet <= TicksLeft(t)
              /\ \A s \in Swtmr : osSleepTicksGet <= TicksLeftOf(w, s)
<1>1. /\ \A u : Contains(armed, u) => u \in Sleeper
      /\ armed \in Seq(Sleeper) /\ \A t \in Sleeper : TicksLeft(t) \in Nat
  <2>1. armed \in Seq(Sleeper)
    BY DEF WheelInv, WheelTypes
  <2>2. \A t \in Sleeper : TicksLeft(t) \in Nat \ {0}
    BY TicksOf
  <2> QED BY <2>1, <2>2, OnList
<1>2. /\ osTaskNextSwitchTimeGet \in Nat
      /\ armed = <<>> => osTaskNextSwitchTimeGet = 0
      /\ \A t \in ToSet(armed) : osTaskNextSwitchTimeGet <= TicksLeft(t)
  <2>1. NextExpiryExact
    BY NextExpiryOK
  <2>2. CASE armed = <<>>
    <3>1. osTaskNextSwitchTimeGet = 0
      BY <2>1, <2>2 DEF NextExpiryExact
    <3>2. \A t : t \notin ToSet(armed)
      BY <1>1, <2>2, OnList
    <3> QED BY <3>1, <3>2
  <2>3. CASE armed # <<>>
    <3> DEFINE A == {TicksLeft(t) : t \in ToSet(armed)}
    <3>1. osTaskNextSwitchTimeGet = Min(A)
      BY <2>1, <2>3 DEF NextExpiryExact
    <3>2. ToSet(armed) = {u \in Sleeper : Contains(armed, u)} /\ ToSet(armed) # {}
      BY <1>1, <2>3, OnList
    <3>3. A \in SUBSET Nat /\ A # {}
      BY <1>1, <3>2
    <3>4. Min(A) \in A /\ \A n \in A : Min(A) <= n
      <4> HIDE DEF A
      <4> QED BY <3>3, MinNat
    <3> QED BY <2>3, <3>1, <3>3, <3>4
  <2> QED BY <2>2, <2>3
<1>3. /\ osSwTmrGetNextTimeout(w) \in Nat
      /\ \A s \in Swtmr : osSwTmrGetNextTimeout(w) <= TicksLeftOf(w, s)
  <2>1. /\ w.sort \in Seq(Swtmr) /\ w.count \in [Swtmr -> Nat] /\ w.interval \in [Swtmr -> Nat]
        /\ Deltas(Swtmr, w.sort, w.count)
        /\ \A s \in Swtmr : /\ Contains(w.sort, s) <=> w.state[s] = "TICKING"
                            /\ w.state[s] # "UNUSED" => w.interval[s] \in Intervals
                            /\ w.state[s] = "TICKING" => osSwtmrTimeGet(w, s) \in 1 .. w.interval[s]
    BY SwtmrFields DEF SwtmrInv, SwtmrLists, SwtmrRunning
  <2>2. CASE w.sort = <<>>
    <3>1. osSwTmrGetNextTimeout(w) = NEVER /\ NEVER \in Nat
      BY <2>2, SwtmrAssumption DEF osSwTmrGetNextTimeout
    <3>2. \A s \in Swtmr : TicksLeftOf(w, s) = NEVER
      <4>1. \A s : ~Contains(w.sort, s)
        BY <2>1, <2>2, OnList
      <4> QED BY <2>1, <4>1 DEF TicksLeftOf
    <3> QED BY <3>1, <3>2
  <2>3. CASE w.sort # <<>>
    <3>1. PICK list, rel, h : list = w.sort /\ rel = w.count /\ h = list[1]
      OBVIOUS
    <3>2. Deltas(Swtmr, list, rel) /\ list \in Seq(Swtmr) /\ list # <<>> /\ rel \in [Swtmr -> Nat]
      BY <2>1, <2>3, <3>1
    <3>3. 1 \in 1 .. Len(list) /\ h \in Swtmr /\ Len(list) \in Nat /\ Contains(list, h)
      BY <3>1, <3>2, EmptySeq, OnList
    <3>4. Times(list, rel)[1] = Times(list, rel)[1 - 1] + rel[h] /\ Times(list, rel)[0] = 0
      BY <3>1, <3>2, <3>3, TimesStep
    <3>5. Times(list, rel)[1] = rel[h] /\ rel[h] \in Nat
      BY <3>2, <3>3, <3>4
    <3>6. TimeOf(list, rel, h) = rel[h]
      BY <3>1, <3>2, <3>3, <3>5, TimeAt
    <3>7. ASSUME NEW s \in Swtmr, Contains(list, s) PROVE rel[h] <= TimeOf(list, rel, s)
      <4>1. PICK j \in 1 .. Len(list) : list[j] = s
        BY <3>2, <3>7, OnList
      <4>2. TimeOf(list, rel, s) = Times(list, rel)[j]
        BY <3>2, <4>1, TimeAt
      <4>3. 1 \in 0 .. Len(list) /\ j \in 0 .. Len(list) /\ 1 <= j
        BY <3>3
      <4> QED BY <3>2, <3>5, <4>2, <4>3, TimesRise
    <3>8. osSwTmrGetNextTimeout(w) = rel[h]
      BY <2>3, <3>1 DEF osSwTmrGetNextTimeout
    <3>9. rel[h] < NEVER
      <4>1. w.state[h] = "TICKING"
        BY <2>1, <3>1, <3>3
      <4>2. w.state[h] # "UNUSED"
        BY <4>1
      <4>3. rel[h] \in 1 .. w.interval[h] /\ w.interval[h] \in Intervals
        BY <2>1, <3>1, <3>3, <3>6, <4>1, <4>2 DEF osSwtmrTimeGet
      <4>4. w.interval[h] \in Nat /\ NEVER \in Nat /\ w.interval[h] < NEVER
        BY <4>3, SwtmrAssumption
      <4> QED BY <4>3, <4>4
    <3>10. ASSUME NEW s \in Swtmr PROVE rel[h] <= TicksLeftOf(w, s)
      <4>1. CASE w.state[s] = "TICKING"
        BY <2>1, <3>1, <3>7, <4>1 DEF TicksLeftOf, osSwtmrTimeGet
      <4>2. CASE w.state[s] # "TICKING"
        BY <3>5, <3>9, <4>2, SwtmrAssumption DEF TicksLeftOf
      <4> QED BY <4>1, <4>2
    <3> QED BY <3>5, <3>8, <3>10
  <2> QED BY <2>2, <2>3
<1>4. PICK a \in Nat, b \in Nat : a = osTaskNextSwitchTimeGet /\ b = osSwTmrGetNextTimeout(w)
  BY <1>2, <1>3
<1>5. osSleepTicksGet \in {a, b} /\ osSleepTicksGet <= a /\ osSleepTicksGet <= b
  <2>1. {a, b} \in SUBSET Nat /\ {a, b} # {}
    OBVIOUS
  <2>2. Min({a, b}) \in {a, b} /\ \A n \in {a, b} : Min({a, b}) <= n
    BY <2>1, MinNat
  <2> QED BY <1>4, <2>2 DEF osSleepTicksGet
<1>6. PICK n \in Nat : n = osSleepTicksGet /\ n <= a /\ n <= b
  BY <1>5
<1>7. \A t \in ToSet(armed) : n <= TicksLeft(t)
  <2> SUFFICES ASSUME NEW t \in ToSet(armed) PROVE n <= TicksLeft(t)
    OBVIOUS
  <2>1. a <= TicksLeft(t) /\ TicksLeft(t) \in Nat
    BY <1>1, <1>2, <1>4, OnList
  <2> QED BY <1>6, <2>1
<1>8. \A s \in Swtmr : n <= TicksLeftOf(w, s)
  <2> SUFFICES ASSUME NEW s \in Swtmr PROVE n <= TicksLeftOf(w, s)
    OBVIOUS
  <2>1. b <= TicksLeftOf(w, s)
    BY <1>3, <1>4
  <2>2. TicksLeftOf(w, s) \in Nat
    <3>1. w.state[s] = "TICKING" => osSwtmrTimeGet(w, s) \in 1 .. w.interval[s]
      BY DEF SwtmrInv, SwtmrRunning
    <3> QED BY <3>1, SwtmrAssumption DEF TicksLeftOf
  <2> QED BY <1>6, <2>1, <2>2
<1> QED BY <1>6, <1>7, <1>8

\* Remainders and quotients of whole numbers, the arithmetic of words included.
LEMMA Words ==
  ASSUME NEW a \in Int, NEW b \in Nat \ {0}
  PROVE  a % b \in 0 .. b - 1 /\ (a \in 0 .. b - 1 => a % b = a)
BY SMT

\* LOS_SysTickReload.
LEMMA ReloadOf ==
  ASSUME ClockTypes, NEW n \in Nat \ {0}, LOS_SysTickReload(n)
  PROVE  /\ systick' \in [val : Nat, load : Nat, pending : BOOLEAN]
         /\ systick'.val = n /\ systick'.load = n /\ systick'.pending = systick.pending
         /\ systick'.val \in 1 .. systick'.load
<1>1. /\ systick \in [val : Nat, load : Nat, pending : BOOLEAN]
      /\ systick' = [systick EXCEPT !.val = n, !.load = n]
  BY DEF ClockTypes, LOS_SysTickReload
<1>2. PICK s, x : s = systick /\ x = systick'
  OBVIOUS
<1>3. /\ x \in [val : Nat, load : Nat, pending : BOOLEAN]
      /\ x.val = n /\ x.load = n /\ x.pending = s.pending
  BY <1>1, <1>2
<1>4. x.val \in 1 .. x.load
  BY <1>3
<1> QED BY <1>2, <1>3, <1>4

\* The ticks of a sleep and the period that the counter is given for it.
LEMMA StartOfSleep ==
  ASSUME WheelInv, SwtmrInv(w), ClockTypes, osTicklessStart,
         ~(systick.pending \/ osSleepTicksGet <= 1)
  PROVE  /\ sleepTicks' \in 2 .. MAX_SLEEP /\ sleepTicks' <= osSleepTicksGet
         /\ sleepTicks' * CPT - CPT \in Nat
         /\ LOS_SysTickReload(sleepTicks' * CPT - CPT + systick.val)
         /\ uncounted' = CPT - systick.val
<1> DEFINE n == IF osSleepTicksGet >= MAX_SLEEP THEN MAX_SLEEP ELSE osSleepTicksGet
<1>1. osSleepTicksGet \in Nat
  BY SleepTicksOf
<1>2. /\ LOS_SysTickReload(n * CPT - CPT + LOS_SysTickCurrCycleGet)
      /\ sleepTicks' = n /\ uncounted' = CPT - systick.val
  BY DEF osTicklessStart
<1>3. LOS_SysTickCurrCycleGet = systick.val
  <2>1. systick.val \in Nat /\ ~systick.pending
    BY DEF ClockTypes
  <2> QED BY <2>1 DEF LOS_SysTickCurrCycleGet
<1>4. n \in 2 .. MAX_SLEEP /\ n <= osSleepTicksGet
  <2>1. PICK a \in Nat : a = osSleepTicksGet
    BY <1>1
  <2>2. a > 1 /\ MAX_SLEEP \in Nat /\ MAX_SLEEP > 1
    BY <2>1, TicklessAssumption
  <2> QED BY <2>1, <2>2
<1> HIDE DEF n
<1>5. PICK m \in Nat \ {0} : m = n
  BY <1>4, TicklessAssumption
<1>6. m * CPT - CPT \in Nat
  <2>1. m - 1 \in Nat /\ m * CPT = (m - 1) * CPT + CPT /\ CPT \in Nat
    BY CyclesOf
  <2>2. (m - 1) * CPT \in Nat
    BY <2>1, CyclesOf
  <2> QED BY <2>1, <2>2
<1> QED BY <1>2, <1>3, <1>4, <1>5, <1>6

\* Every step keeps the counter within its period.
LEMMA ClockStep ==
  ASSUME WheelInv, SwtmrInv(w), ClockTypes, [TicklessNext]_ticklessVars
  PROVE  ClockTypes'
<1>1. /\ systick \in [val : Nat, load : Nat, pending : BOOLEAN] /\ systick.val \in 1 .. systick.load
      /\ sleepTicks \in 0 .. MAX_SLEEP /\ reloadFlag \in BOOLEAN
      /\ systick.val \in Nat \ {0} /\ systick.load \in Nat \ {0}
  <2>1. systick.val \in Nat /\ systick.load \in Nat /\ systick.val \in 1 .. systick.load
    BY DEF ClockTypes
  <2>2. systick.val \in Nat \ {0} /\ systick.load \in Nat \ {0}
    BY <2>1
  <2> QED BY <2>2 DEF ClockTypes
<1>2. CPT \in Nat \ {0} /\ 0 \in 0 .. MAX_SLEEP
  BY TicklessAssumption
<1>3. CASE UNCHANGED clock
  BY <1>3 DEF clock, ClockTypes
<1>4. CASE Cycle
  <2>1. /\ systick' = IF systick.val = 1 THEN [systick EXCEPT !.val = systick.load, !.pending = TRUE]
                      ELSE [systick EXCEPT !.val = @ - 1]
        /\ sleepTicks' = sleepTicks /\ reloadFlag' = reloadFlag
    BY <1>4 DEF Cycle
  <2>2. CASE systick.val = 1
    <3>1. /\ systick' \in [val : Nat, load : Nat, pending : BOOLEAN]
          /\ systick'.val = systick.load /\ systick'.load = systick.load
      BY <1>1, <2>1, <2>2
    <3> QED BY <1>1, <2>1, <3>1 DEF ClockTypes
  <2>3. CASE systick.val # 1
    <3>1. systick' = [systick EXCEPT !.val = systick.val - 1] /\ systick.val - 1 \in Nat
      BY <1>1, <2>1, <2>3
    <3>2. /\ systick' \in [val : Nat, load : Nat, pending : BOOLEAN]
          /\ systick'.val = systick.val - 1 /\ systick'.load = systick.load
      BY <1>1, <3>1
    <3>3. systick'.val \in 1 .. systick'.load
      BY <1>1, <2>3, <3>2
    <3> QED BY <1>1, <2>1, <3>2, <3>3 DEF ClockTypes
  <2> QED BY <2>2, <2>3
<1>5. CASE osTicklessStart
  <2>1. reloadFlag' = reloadFlag
    BY <1>5 DEF osTicklessStart
  <2>2. CASE systick.pending \/ osSleepTicksGet <= 1
    BY <1>1, <1>5, <2>1, <2>2 DEF osTicklessStart, ClockTypes
  <2>3. CASE ~(systick.pending \/ osSleepTicksGet <= 1)
    <3>1. /\ sleepTicks' \in 2 .. MAX_SLEEP /\ sleepTicks' * CPT - CPT \in Nat
          /\ LOS_SysTickReload(sleepTicks' * CPT - CPT + systick.val)
      BY <1>5, <2>3, StartOfSleep
    <3>2. PICK n \in Nat \ {0} : n = sleepTicks' * CPT - CPT + systick.val
      BY <1>1, <3>1
    <3>3. /\ systick' \in [val : Nat, load : Nat, pending : BOOLEAN]
          /\ systick'.val \in 1 .. systick'.load
      BY <3>1, <3>2, ReloadOf
    <3>4. sleepTicks' \in 0 .. MAX_SLEEP
      BY <3>1, TicklessAssumption
    <3> QED BY <1>1, <2>1, <3>3, <3>4 DEF ClockTypes
  <2> QED BY <2>2, <2>3
<1>6. CASE TickInterrupt
  <2>1. /\ systick' = [systick EXCEPT !.pending = FALSE]
        /\ sleepTicks' = sleepTicks /\ reloadFlag' = reloadFlag
    BY <1>6 DEF TickInterrupt
  <2>2. /\ systick' \in [val : Nat, load : Nat, pending : BOOLEAN]
        /\ systick'.val = systick.val /\ systick'.load = systick.load
    BY <1>1, <2>1
  <2> QED BY <1>1, <2>1, <2>2 DEF ClockTypes
<1>7. CASE osUpdateKernelTickCount
  <2>1. sleepTicks' = sleepTicks
    BY <1>7 DEF osUpdateKernelTickCount
  <2>2. CASE sleepTicks <= 1
    BY <1>1, <1>7, <2>1, <2>2 DEF osUpdateKernelTickCount, ClockTypes
  <2>3. CASE ~(sleepTicks <= 1)
    <3> DEFINE elapsed == (sleepTicks * CPT - LOS_SysTickCurrCycleGet) % WORD
               left == IF Frame.irq = "tick" THEN 0 ELSE elapsed % CPT
    <3>1. LOS_SysTickReload(IF left > 0 THEN left ELSE CPT) /\ reloadFlag' = (left > 0)
      BY <1>7, <2>3 DEF osUpdateKernelTickCount
    <3>2. left \in Nat
      <4>1. LOS_SysTickCurrCycleGet \in Nat
        <5>1. CASE systick.pending
          BY <1>1, <1>2, <5>1 DEF LOS_SysTickCurrCycleGet
        <5>2. CASE ~systick.pending
          BY <1>1, <5>2 DEF LOS_SysTickCurrCycleGet
        <5> QED BY <5>1, <5>2
      <4>2. sleepTicks * CPT \in Nat
        BY <1>1, CyclesOf, TicklessAssumption
      <4>3. sleepTicks * CPT - LOS_SysTickCurrCycleGet \in Int
        BY <4>1, <4>2
      <4>4. WORD \in Nat \ {0}
        BY TicklessAssumption
      <4>5. elapsed \in Nat
        <5>1. elapsed \in 0 .. WORD - 1
          BY <4>3, <4>4, Words
        <5> HIDE DEF elapsed
        <5> QED BY <4>4, <5>1
      <4>6. elapsed % CPT \in Nat
        <5> HIDE DEF elapsed
        <5>1. elapsed % CPT \in 0 .. CPT - 1
          BY <1>2, <4>5, Words
        <5> QED BY <1>2, <5>1
      <4> HIDE DEF elapsed
      <4> QED BY <4>6
    <3> HIDE DEF left
    <3>3. PICK n \in Nat \ {0} : n = IF left > 0 THEN left ELSE CPT
      BY <1>2, <3>2
    <3>4. /\ systick' \in [val : Nat, load : Nat, pending : BOOLEAN]
          /\ systick'.val \in 1 .. systick'.load
      BY <3>1, <3>3, ReloadOf
    <3>5. reloadFlag' \in BOOLEAN
      BY <3>1
    <3> QED BY <1>1, <2>1, <3>4, <3>5 DEF ClockTypes
  <2> QED BY <2>2, <2>3
<1>8. CASE osTickHandlerLoop
  <2>1. systick' = systick /\ reloadFlag' = reloadFlag /\ (sleepTicks' = sleepTicks \/ sleepTicks' = 0)
    BY <1>8 DEF osTickHandlerLoop
  <2> QED BY <1>1, <1>2, <2>1 DEF ClockTypes
<1>9. CASE osTickHandler
  <2>1. /\ sleepTicks' = sleepTicks /\ reloadFlag' = FALSE
        /\ IF reloadFlag THEN LOS_SysTickReload(CPT) ELSE UNCHANGED systick
    BY <1>9 DEF osTickHandler
  <2>2. CASE reloadFlag
    <3>1. /\ systick' \in [val : Nat, load : Nat, pending : BOOLEAN]
          /\ systick'.val \in 1 .. systick'.load
      BY <1>2, <2>1, <2>2, ReloadOf
    <3> QED BY <1>1, <2>1, <3>1 DEF ClockTypes
  <2>3. CASE ~reloadFlag
    BY <1>1, <2>1, <2>3 DEF ClockTypes
  <2> QED BY <2>2, <2>3
<1>10. CASE DeviceInterrupt \/ DeviceHandler \/ TaskTimerCall \/ SwtmrTaskCall
  BY <1>3, <1>10 DEF DeviceInterrupt, DeviceHandler, TaskTimerCall, SwtmrTaskCall
<1>11. CASE UNCHANGED ticklessVars
  BY <1>3, <1>11 DEF ticklessVars
<1> QED BY <1>4, <1>5, <1>6, <1>7, <1>8, <1>9, <1>10, <1>11 DEF TicklessNext

\* The counter at the start.
LEMMA ClockInit == TicklessInit => ClockTypes
<1> SUFFICES ASSUME TicklessInit PROVE ClockTypes
  OBVIOUS
<1>1. /\ systick = [val |-> CPT, load |-> CPT, pending |-> FALSE]
      /\ sleepTicks = 0 /\ reloadFlag = FALSE /\ CPT \in Nat \ {0} /\ MAX_SLEEP \in Nat
  BY TicklessAssumption DEF TicklessInit
<1>2. /\ systick \in [val : Nat, load : Nat, pending : BOOLEAN]
      /\ systick.val = CPT /\ systick.load = CPT
  BY <1>1
<1>3. systick.val \in 1 .. systick.load /\ 0 \in 0 .. MAX_SLEEP
  BY <1>1, <1>2
<1> QED BY <1>1, <1>2, <1>3 DEF ClockTypes

\* The counter stays within its period.
LEMMA ClockTypesHold == TicklessSpec => []ClockTypes
<1>1. WheelInv /\ SwtmrInv(w) /\ ClockTypes /\ [TicklessNext]_ticklessVars => ClockTypes'
  BY ClockStep
<1> QED BY <1>1, ClockInit, WheelInvariance, SwtmrInvariance, PTL DEF TicklessSpec

\* The lists of both kinds of timers are consistent in every state, and the
\* processor never sleeps with a period that the counter cannot be given.
THEOREM TimersTypeCorrect == TicklessSpec => []TimersTypeOK
<1>1. WheelInv /\ SwtmrInv(w) /\ ClockTypes => TimersTypeOK
  <2> SUFFICES ASSUME WheelInv, SwtmrInv(w), ClockTypes PROVE TimersTypeOK
    OBVIOUS
  <2>1. WheelTypeOK
    BY DEF WheelInv, WheelTypes, SlotsExact, WheelTypeOK
  <2>2. SwtmrListsOK(w)
    BY SwtmrInvLists
  <2> QED BY <2>1, <2>2 DEF ClockTypes, TimersTypeOK
<1> QED BY <1>1, ClockTypesHold, WheelInvariance, SwtmrInvariance, PTL

\* The active interrupts.
Frames == [irq : {"tick", "dev"}, at : {"entry", "loop", "handler"}, n : Nat]

\* The period that follows is a whole tick, or what has passed of the
\* interrupted one.
Reloaded == IF reloadFlag THEN systick.load < CPT ELSE systick.load = CPT
PartTick == IF reloadFlag THEN systick.load ELSE 0

\* Between the interrupts: no whole tick is left to be counted.
AwakeOK == isr = <<>> /\ sleepTicks = 0 => Reloaded /\ uncounted < CPT

\* During a sleep: the cycles that have passed and those to come are those of
\* the ticks of the sleep.
AsleepOK ==
  isr = <<>> /\ sleepTicks > 0 =>
    ~reloadFlag /\ uncounted + (IF systick.pending THEN 0 ELSE systick.val) = sleepTicks * CPT

\* In an interrupt: the ticks that are still to be counted are those that have
\* passed.
EntryOK(f) ==
  IF sleepTicks = 0 THEN f.irq = "tick" /\ Reloaded /\ uncounted = CPT
  ELSE uncounted + (IF f.irq = "tick" THEN 0 ELSE systick.val) = sleepTicks * CPT
LoopOK(f) ==
  /\ sleepTicks > 0 /\ Reloaded
  /\ uncounted = IF f.irq = "tick" THEN (f.n + 1) * CPT ELSE f.n * CPT + PartTick
HandlerOK(f) ==
  /\ sleepTicks = 0 /\ Reloaded
  /\ uncounted = IF f.irq = "tick" THEN CPT ELSE PartTick

ServedOK(f) ==
  CASE f.at = "entry" -> EntryOK(f) [] f.at = "loop" -> LoopOK(f) [] f.at = "handler" -> HandlerOK(f)

ServingOK == isr # <<>> => \E f \in Frames : isr = <<f>> /\ ~systick.pending /\ ServedOK(f)

\* The inductive invariant of the clock, while no device ends a sleep together
\* with the tick interrupt.
ClockInv ==
  /\ sleepTicks # 1 /\ uncounted \in Nat /\ (reloadFlag \/ sleepTicks > 0 => ~tickIrq)
  /\ AwakeOK /\ AsleepOK /\ ServingOK

\* No timer expires before the end of a sleep.
SoundSleep ==
  isr = <<>> /\ sleepTicks > 0 =>
    /\ \A t \in ToSet(armed) : sleepTicks <= TicksLeft(t)
    /\ \A s \in Swtmr : sleepTicks <= TicksLeftOf(w, s)

\* One active interrupt.
LEMMA OneFrame ==
  ASSUME NEW f \in Frames, isr = <<f>>
  PROVE  /\ isr # <<>> /\ Frame = f /\ Front(isr) = <<>>
         /\ \A a \in {"entry", "loop", "handler"}, n \in Nat : Goto(a, n) =>
              \E g \in Frames : isr' = <<g>> /\ g.irq = f.irq /\ g.at = a /\ g.n = n
<1>1. isr \in Seq(Frames) /\ Len(isr) = 1 /\ isr[1] = f /\ isr # <<>>
  OBVIOUS
<1>2. Frame = f
  BY <1>1 DEF Frame, Last
<1>3. Front(isr) = <<>>
  <2>1. Front(isr) = SubSeq(isr, 1, 0)
    BY <1>1 DEF Front
  <2> QED BY <2>1, SubSeqEmpty
<1>4. ASSUME NEW a \in {"entry", "loop", "handler"}, NEW n \in Nat, Goto(a, n)
      PROVE  \E g \in Frames : isr' = <<g>> /\ g.irq = f.irq /\ g.at = a /\ g.n = n
  <2>1. isr' = [isr EXCEPT ![1].at = a, ![1].n = n]
    BY <1>1, <1>4 DEF Goto
  <2>2. PICK g : g = [f EXCEPT !.at = a, !.n = n]
    OBVIOUS
  <2>3. g \in Frames /\ g.irq = f.irq /\ g.at = a /\ g.n = n
    BY <2>2 DEF Frames
  <2>4. isr' = <<g>>
    BY <2>1, <2>2
  <2> QED BY <2>3, <2>4
<1> QED BY <1>1, <1>2, <1>3, <1>4

\* What is known of the counter.
LEMMA ClockFacts ==
  ASSUME ClockTypes
  PROVE  /\ systick \in [val : Nat, load : Nat, pending : BOOLEAN]
         /\ systick.val \in Nat \ {0} /\ systick.load \in Nat \ {0} /\ systick.val <= systick.load
         /\ sleepTicks \in Nat /\ sleepTicks <= MAX_SLEEP /\ reloadFlag \in BOOLEAN
         /\ CPT \in Nat \ {0} /\ sleepTicks * CPT \in Nat
<1>1. systick.val \in Nat /\ systick.load \in Nat /\ systick.val \in 1 .. systick.load
  BY DEF ClockTypes
<1>2. /\ systick.val \in Nat \ {0} /\ systick.load \in Nat \ {0} /\ systick.val <= systick.load
  BY <1>1
<1>3. sleepTicks \in Nat /\ sleepTicks <= MAX_SLEEP
  BY TicklessAssumption DEF ClockTypes
<1>4. sleepTicks * CPT \in Nat
  BY <1>3, CyclesOf
<1> QED BY <1>2, <1>3, <1>4, TicklessAssumption DEF ClockTypes

\* The ticks that are left are whole numbers.
LEMMA TicksNat ==
  ASSUME WheelInv, SwtmrInv(w)
  PROVE  /\ \A t \in ToSet(armed) : TicksLeft(t) \in Nat
         /\ \A s \in Swtmr : TicksLeftOf(w, s) \in Nat
<1>1. \A t \in ToSet(armed) : TicksLeft(t) \in Nat
  <2>1. armed \in Seq(Sleeper)
    BY DEF WheelInv, WheelTypes
  <2>2. \A t \in ToSet(armed) : t \in Sleeper
    BY <2>1, OnList
  <2> QED BY <2>2, TicksOf
<1>2. \A s \in Swtmr : TicksLeftOf(w, s) \in Nat
  <2>1. \A s \in Swtmr :
          w.state[s] = "TICKING" => osSwtmrTimeGet(w, s) \in 1 .. w.interval[s]
    BY DEF SwtmrInv, SwtmrRunning
  <2> QED BY <2>1, SwtmrAssumption DEF TicksLeftOf
<1> QED BY <1>1, <1>2

\* A cycle.
LEMMA CycleClock ==
  ASSUME ClockTypes, ClockInv, Cycle
  PROVE  ClockInv'
<1>1. /\ isr = <<>> /\ ~systick.pending /\ isr' = <<>> /\ sleepTicks' = sleepTicks
      /\ reloadFlag' = reloadFlag /\ tickIrq' = tickIrq
      /\ systick' = IF systick.val = 1 THEN [systick EXCEPT !.val = systick.load, !.pending = TRUE]
                    ELSE [systick EXCEPT !.val = @ - 1]
      /\ uncounted' = IF sleepTicks > 0 THEN uncounted + 1 ELSE 0
  BY DEF Cycle
<1>2. /\ systick \in [val : Nat, load : Nat, pending : BOOLEAN] /\ systick.val \in Nat \ {0}
      /\ CPT \in Nat \ {0} /\ sleepTicks \in Nat
  BY ClockFacts
<1>3. /\ systick'.load = systick.load
      /\ (IF systick'.pending THEN 0 ELSE systick'.val) = systick.val - 1
  <2>1. CASE systick.val = 1
    BY <1>1, <1>2, <2>1
  <2>2. CASE systick.val # 1
    <3>1. systick' = [systick EXCEPT !.val = systick.val - 1]
      BY <1>1, <2>2
    <3> QED BY <1>1, <1>2, <3>1
  <2> QED BY <2>1, <2>2
<1>4. uncounted \in Nat /\ uncounted' \in Nat
  BY <1>1 DEF ClockInv
<1>5. AwakeOK'
  BY <1>1, <1>2, <1>3 DEF ClockInv, AwakeOK, Reloaded
<1>6. AsleepOK'
  <2> SUFFICES ASSUME sleepTicks > 0
               PROVE  /\ ~reloadFlag'
                      /\ uncounted' + (IF systick'.pending THEN 0 ELSE systick'.val) = sleepTicks' * CPT
    BY <1>1 DEF AsleepOK
  <2>1. ~reloadFlag /\ uncounted + systick.val = sleepTicks * CPT
    BY <1>1 DEF ClockInv, AsleepOK
  <2>2. uncounted' = uncounted + 1
    BY <1>1
  <2>3. uncounted' + (systick.val - 1) = sleepTicks * CPT
    BY <1>2, <1>4, <2>1, <2>2
  <2> QED BY <1>1, <1>3, <2>1, <2>3
<1>7. ServingOK'
  BY <1>1 DEF ServingOK
<1> QED BY <1>1, <1>4, <1>5, <1>6, <1>7 DEF ClockInv

\* Going to sleep, or staying awake.
LEMMA StartClock ==
  ASSUME WheelInv, SwtmrInv(w), ClockTypes, ClockInv, osTicklessStart
  PROVE  ClockInv' /\ SoundSleep'
<1>1. /\ isr = <<>> /\ sleepTicks = 0 /\ tickIrq /\ ~tickIrq' /\ isr' = <<>>
      /\ reloadFlag' = reloadFlag /\ allVars' = allVars /\ w' = w
  BY DEF osTicklessStart, Awake
<1>2. ~reloadFlag /\ systick.load = CPT
  BY <1>1 DEF ClockInv, AwakeOK, Reloaded
<1>3. /\ systick.val \in Nat \ {0} /\ systick.val <= systick.load
      /\ CPT \in Nat \ {0}
  BY ClockFacts
<1>4. CASE systick.pending \/ osSleepTicksGet <= 1
  <2>1. uncounted' = 0 /\ systick' = systick /\ sleepTicks' = sleepTicks
    BY <1>4 DEF osTicklessStart
  <2>2. AwakeOK' /\ AsleepOK' /\ ServingOK' /\ SoundSleep'
    BY <1>1, <1>2, <1>3, <2>1 DEF AwakeOK, AsleepOK, ServingOK, SoundSleep, Reloaded
  <2> QED BY <1>1, <2>1, <2>2 DEF ClockInv
<1>5. CASE ~(systick.pending \/ osSleepTicksGet <= 1)
  <2>1. /\ sleepTicks' \in 2 .. MAX_SLEEP /\ sleepTicks' <= osSleepTicksGet
        /\ sleepTicks' * CPT - CPT \in Nat
        /\ LOS_SysTickReload(sleepTicks' * CPT - CPT + systick.val)
        /\ uncounted' = CPT - systick.val
    BY <1>5, StartOfSleep
  <2>2. PICK n \in Nat \ {0} : n = sleepTicks' * CPT - CPT + systick.val
    BY <1>3, <2>1
  <2>3. systick'.val = n /\ systick'.pending = systick.pending
    BY <2>1, <2>2, ReloadOf
  <2>4. uncounted' \in Nat
    BY <1>2, <1>3, <2>1
  <2>5. sleepTicks' \in Nat /\ sleepTicks' > 1 /\ MAX_SLEEP \in Nat
    BY <2>1, TicklessAssumption
  <2>6. sleepTicks' * CPT \in Nat
    BY <2>5, CyclesOf
  <2>7. uncounted' + n = sleepTicks' * CPT
    BY <1>3, <2>1, <2>2, <2>6
  <2>8. AwakeOK' /\ AsleepOK' /\ ServingOK'
    BY <1>1, <1>2, <1>5, <2>3, <2>5, <2>7 DEF AwakeOK, AsleepOK, ServingOK
  <2>9. ClockInv'
    BY <1>1, <2>4, <2>5, <2>8 DEF ClockInv
  <2>10. SoundSleep'
    <3>1. /\ osSleepTicksGet \in Nat
          /\ osSleepTicksGet > 0 =>
               /\ \A t \in ToSet(armed) : osSleepTicksGet <= TicksLeft(t)
               /\ \A s \in Swtmr : osSleepTicksGet <= TicksLeftOf(w, s)
      BY SleepTicksOf
    <3>2. PICK a \in Nat : a = osSleepTicksGet
      BY <3>1
    <3>3. a > 0 /\ sleepTicks' <= a
      BY <2>1, <2>5, <3>2
    <3>4. /\ \A t \in ToSet(armed) : a <= TicksLeft(t)
          /\ \A s \in Swtmr : a <= TicksLeftOf(w, s)
      BY <3>1, <3>2, <3>3
    <3>5. /\ \A t \in ToSet(armed) : TicksLeft(t) \in Nat
          /\ \A s \in Swtmr : TicksLeftOf(w, s) \in Nat
      BY TicksNat
    <3>6. /\ \A t \in ToSet(armed) : sleepTicks' <= TicksLeft(t)
          /\ \A s \in Swtmr : sleepTicks' <= TicksLeftOf(w, s)
      BY <2>5, <3>2, <3>3, <3>4, <3>5
    <3>7. armed' = armed /\ cursor' = cursor /\ slots' = slots /\ roll' = roll /\ index' = index
      BY <1>1 DEF allVars, wheel
    <3> QED BY <1>1, <3>6, <3>7 DEF SoundSleep, TicksLeft, Turns, TicksLeftOf, osSwtmrTimeGet
  <2> QED BY <2>9, <2>10
<1> QED BY <1>4, <1>5

\* A longer sleep takes more cycles.
LEMMA CyclesMonotone ==
  ASSUME NEW m \in Nat, NEW n \in Nat, m <= n
  PROVE  m * CPT <= n * CPT
<1>1. PICK d \in Nat : n = m + d
  <2>1. n - m \in Nat /\ n = m + (n - m)
    OBVIOUS
  <2> QED BY <2>1
<1>2. \A a \in Nat, b \in Nat, c \in Nat : (a + b) * c = a * c + b * c /\ a * c \in Nat
  OBVIOUS
<1>3. n * CPT = m * CPT + d * CPT /\ m * CPT \in Nat /\ d * CPT \in Nat
  BY <1>1, <1>2, TicklessAssumption
<1> QED BY <1>3

\* The tick interrupt is taken.
LEMMA TickEnters ==
  ASSUME ClockTypes, ClockInv, TickInterrupt
  PROVE  ClockInv' /\ isr' # <<>>
<1>1. /\ isr = <<>> /\ systick.pending
      /\ systick' = [systick EXCEPT !.pending = FALSE]
      /\ isr' = <<[irq |-> "tick", at |-> "entry", n |-> 0]>>
      /\ sleepTicks' = sleepTicks /\ reloadFlag' = reloadFlag /\ tickIrq' = tickIrq
      /\ IF sleepTicks > 0 THEN uncounted' = uncounted ELSE uncounted' = CPT
  BY DEF TickInterrupt
<1>2. /\ systick \in [val : Nat, load : Nat, pending : BOOLEAN]
      /\ CPT \in Nat \ {0} /\ sleepTicks \in Nat
  BY ClockFacts
<1>3. systick'.load = systick.load /\ ~systick'.pending
  BY <1>1, <1>2
<1>4. PICK f \in Frames : f = [irq |-> "tick", at |-> "entry", n |-> 0] /\ isr' = <<f>>
  BY <1>1 DEF Frames
<1>5. f.irq = "tick" /\ f.at = "entry" /\ isr' # <<>>
  BY <1>4
<1>6. uncounted \in Nat /\ uncounted' \in Nat
  BY <1>1, <1>2 DEF ClockInv
<1>7. EntryOK(f)'
  <2>1. CASE sleepTicks = 0
    <3>1. Reloaded
      BY <1>1, <2>1 DEF ClockInv, AwakeOK
    <3> QED BY <1>1, <1>2, <1>3, <1>5, <2>1, <3>1 DEF EntryOK, Reloaded
  <2>2. CASE sleepTicks > 0
    <3>1. uncounted + 0 = sleepTicks * CPT
      BY <1>1, <2>2 DEF ClockInv, AsleepOK
    <3>2. uncounted' = uncounted
      BY <1>1, <2>2
    <3> QED BY <1>1, <1>2, <1>5, <2>2, <3>1, <3>2 DEF EntryOK
  <2> QED BY <1>2, <2>1, <2>2
<1>8. ServedOK(f)'
  BY <1>5, <1>7 DEF ServedOK
<1>9. AwakeOK' /\ AsleepOK' /\ ServingOK'
  BY <1>3, <1>4, <1>5, <1>8 DEF AwakeOK, AsleepOK, ServingOK
<1> QED BY <1>1, <1>5, <1>6, <1>9 DEF ClockInv

\* Another interrupt ends a sleep.
LEMMA DeviceEnters ==
  ASSUME ~Races, ClockTypes, ClockInv, DeviceInterrupt
  PROVE  ClockInv' /\ isr' # <<>>
<1>1. /\ sleepTicks > 0 /\ isr = <<>> /\ ~systick.pending
      /\ isr' = Append(isr, [irq |-> "dev", at |-> "entry", n |-> 0])
      /\ systick' = systick /\ sleepTicks' = sleepTicks /\ reloadFlag' = reloadFlag
      /\ tickIrq' = tickIrq /\ uncounted' = uncounted
  <2>1. systick.pending \in BOOLEAN
    BY DEF ClockTypes
  <2> QED BY <2>1 DEF DeviceInterrupt, clock
<1>2. PICK f \in Frames : f = [irq |-> "dev", at |-> "entry", n |-> 0]
  BY DEF Frames
<1>3. f.irq = "dev" /\ f.at = "entry" /\ isr' = <<f>> /\ isr' # <<>>
  <2>1. Append(<<>>, f) = <<f>>
    OBVIOUS
  <2> QED BY <1>1, <1>2, <2>1
<1>4. uncounted + systick.val = sleepTicks * CPT
  BY <1>1 DEF ClockInv, AsleepOK
<1>5. sleepTicks # 0
  BY <1>1, ClockFacts
<1>6. ServedOK(f)'
  BY <1>1, <1>3, <1>4, <1>5 DEF ServedOK, EntryOK
<1>7. AwakeOK' /\ AsleepOK' /\ ServingOK'
  BY <1>1, <1>3, <1>6 DEF AwakeOK, AsleepOK, ServingOK
<1> QED BY <1>1, <1>3, <1>7 DEF ClockInv

\* The interrupt that is served.
LEMMA ServedFrame ==
  ASSUME ClockInv, isr # <<>>
  PROVE  \E f \in Frames : isr = <<f>> /\ Frame = f /\ ~systick.pending /\ ServedOK(f)
<1>1. PICK f \in Frames : isr = <<f>> /\ ~systick.pending /\ ServedOK(f)
  BY DEF ClockInv, ServingOK
<1>2. Frame = f
  BY <1>1, OneFrame
<1> QED BY <1>1, <1>2

\* The part of a step of an interrupt that all its steps share.
LEMMA StillServed ==
  ASSUME NEW g \in Frames, isr' = <<g>>, ServedOK(g)', systick'.pending = FALSE,
         sleepTicks' # 1, uncounted' \in Nat, reloadFlag' \/ sleepTicks' > 0 => ~tickIrq'
  PROVE  ClockInv' /\ isr' # <<>>
<1>1. isr' # <<>>
  OBVIOUS
<1>2. AwakeOK' /\ AsleepOK' /\ ServingOK'
  BY <1>1 DEF AwakeOK, AsleepOK, ServingOK
<1> QED BY <1>1, <1>2 DEF ClockInv

\* What has passed of a sleep, as osUpdateKernelTickCount computes it in words.
LEMMA ElapsedOf ==
  ASSUME ClockTypes, ~systick.pending, uncounted \in Nat,
         uncounted + systick.val = sleepTicks * CPT
  PROVE  (sleepTicks * CPT - LOS_SysTickCurrCycleGet) % WORD = uncounted
<1>1. /\ systick.val \in Nat \ {0} /\ sleepTicks \in Nat /\ sleepTicks <= MAX_SLEEP
      /\ sleepTicks * CPT \in Nat
  BY ClockFacts
<1>2. LOS_SysTickCurrCycleGet = systick.val
  <2>1. systick.val + 0 = systick.val
    BY <1>1
  <2> QED BY <2>1 DEF LOS_SysTickCurrCycleGet
<1>3. sleepTicks * CPT - systick.val = uncounted
  BY <1>1
<1>4. uncounted \in 0 .. WORD - 1
  <2>1. sleepTicks * CPT <= MAX_SLEEP * CPT /\ MAX_SLEEP * CPT \in Nat
    BY <1>1, CyclesMonotone, CyclesOf, TicklessAssumption
  <2>2. MAX_SLEEP * CPT < WORD /\ WORD \in Nat \ {0}
    BY TicklessAssumption
  <2>3. PICK a \in Nat, b \in Nat : a = sleepTicks * CPT /\ b = MAX_SLEEP * CPT
    BY <1>1, <2>1
  <2>4. uncounted + systick.val = a /\ a <= b /\ b < WORD
    BY <2>1, <2>2, <2>3
  <2> QED BY <1>1, <2>2, <2>3, <2>4
<1>5. uncounted % WORD = uncounted
  <2>1. WORD \in Nat \ {0} /\ uncounted \in Int
    BY TicklessAssumption
  <2> QED BY <1>4, <2>1, Words
<1> QED BY <1>2, <1>3, <1>5

\* The ticks of a sleep are worked out from the counter.
LEMMA UpdateClock ==
  ASSUME ClockTypes, ClockInv, osUpdateKernelTickCount
  PROVE  ClockInv' /\ isr' # <<>>
<1>1. /\ isr # <<>> /\ Frame.at = "entry"
      /\ sleepTicks' = sleepTicks /\ tickIrq' = tickIrq /\ uncounted' = uncounted
  BY DEF osUpdateKernelTickCount
<1>2. PICK f \in Frames : isr = <<f>> /\ Frame = f /\ ~systick.pending /\ ServedOK(f)
  BY <1>1, ServedFrame
<1>3. EntryOK(f)
  BY <1>1, <1>2 DEF ServedOK
<1>4. /\ sleepTicks \in Nat /\ CPT \in Nat \ {0} /\ sleepTicks # 1 /\ uncounted \in Nat
      /\ systick.pending = FALSE /\ sleepTicks * CPT \in Nat
      /\ f.irq \in {"tick", "dev"}
  <2>1. systick.pending \in BOOLEAN
    BY DEF ClockTypes
  <2> QED BY <1>2, <2>1, ClockFacts DEF ClockInv, Frames
<1>5. \A a \in {"entry", "loop", "handler"}, n \in Nat : Goto(a, n) =>
         \E g \in Frames : isr' = <<g>> /\ g.irq = f.irq /\ g.at = a /\ g.n = n
  BY <1>2, OneFrame
<1>6. CASE sleepTicks <= 1
  <2>1. sleepTicks = 0
    BY <1>4, <1>6
  <2>2. Goto("handler", 0) /\ systick' = systick /\ reloadFlag' = reloadFlag
    BY <1>6 DEF osUpdateKernelTickCount
  <2>3. PICK g \in Frames : isr' = <<g>> /\ g.irq = f.irq /\ g.at = "handler" /\ g.n = 0
    BY <1>5, <2>2
  <2>4. f.irq = "tick" /\ Reloaded /\ uncounted = CPT
    BY <1>3, <2>1 DEF EntryOK
  <2>5. ServedOK(g)'
    BY <1>1, <2>1, <2>2, <2>3, <2>4 DEF ServedOK, HandlerOK, Reloaded
  <2>6. ~(reloadFlag \/ sleepTicks > 0) \/ ~tickIrq
    BY DEF ClockInv
  <2>7. systick'.pending = FALSE /\ sleepTicks' # 1 /\ uncounted' \in Nat
    BY <1>1, <1>4, <2>2
  <2>8. reloadFlag' \/ sleepTicks' > 0 => ~tickIrq'
    BY <1>1, <2>2, <2>6
  <2> QED BY <2>3, <2>5, <2>7, <2>8, StillServed
<1>7. CASE ~(sleepTicks <= 1)
  <2> DEFINE elapsed == (sleepTicks * CPT - LOS_SysTickCurrCycleGet) % WORD
             left == IF Frame.irq = "tick" THEN 0 ELSE elapsed % CPT
  <2>1. /\ Goto("loop", IF Frame.irq = "tick" THEN sleepTicks - 1 ELSE ElapsedTicks(elapsed))
        /\ LOS_SysTickReload(IF left > 0 THEN left ELSE CPT)
        /\ reloadFlag' = (left > 0)
    BY <1>7 DEF osUpdateKernelTickCount
  <2>2. sleepTicks > 0 /\ sleepTicks # 0 /\ ~tickIrq /\ sleepTicks - 1 \in Nat
    BY <1>4, <1>7 DEF ClockInv
  <2>3. ~tickIrq' /\ sleepTicks' # 1 /\ sleepTicks' > 0 /\ uncounted' \in Nat
    BY <1>1, <1>4, <2>2
  <2>4. CASE f.irq = "tick"
    <3>1. left = 0
      BY <1>2, <2>4
    <3> HIDE DEF left, elapsed
    <3>2. Goto("loop", sleepTicks - 1) /\ LOS_SysTickReload(CPT) /\ ~reloadFlag'
      <4>1. PICK k, m : /\ k = (IF Frame.irq = "tick" THEN sleepTicks - 1 ELSE ElapsedTicks(elapsed))
                        /\ m = (IF left > 0 THEN left ELSE CPT)
        OBVIOUS
      <4>2. Goto("loop", k) /\ LOS_SysTickReload(m)
        BY <2>1, <4>1
      <4>3. k = sleepTicks - 1
        BY <1>2, <2>4, <4>1
      <4>4. m = CPT
        BY <3>1, <4>1
      <4>5. ~reloadFlag'
        <5>1. reloadFlag' = (left > 0) /\ ~(left > 0)
          BY <2>1, <3>1
        <5> QED BY <5>1
      <4> QED BY <4>2, <4>3, <4>4, <4>5
    <3>3. systick'.load = CPT /\ systick'.pending = FALSE
      BY <1>4, <3>2, ReloadOf
    <3>4. PICK g \in Frames : isr' = <<g>> /\ g.irq = "tick" /\ g.at = "loop" /\ g.n = sleepTicks - 1
      BY <1>5, <2>2, <2>4, <3>2
    <3>5. uncounted = sleepTicks * CPT
      <4>1. uncounted + 0 = sleepTicks * CPT
        BY <1>3, <2>2, <2>4 DEF EntryOK
      <4> QED BY <1>4, <4>1
    <3>6. (g.n + 1) * CPT = sleepTicks * CPT
      <4>1. g.n + 1 = sleepTicks
        BY <1>4, <3>4
      <4> QED BY <4>1
    <3>7. ServedOK(g)'
      BY <1>1, <2>3, <3>2, <3>3, <3>4, <3>5, <3>6 DEF ServedOK, LoopOK, Reloaded
    <3> QED BY <2>3, <3>3, <3>4, <3>7, StillServed
  <2>5. CASE f.irq = "dev"
    <3>1. uncounted + systick.val = sleepTicks * CPT
      BY <1>3, <2>2, <2>5 DEF EntryOK
    <3>2. elapsed = uncounted
      BY <1>2, <1>4, <3>1, ElapsedOf
    <3>3. left = uncounted % CPT
      BY <1>2, <2>5, <3>2
    <3>4. /\ uncounted \div CPT \in Nat /\ uncounted % CPT \in 0 .. CPT - 1
          /\ uncounted = (uncounted \div CPT) * CPT + (uncounted % CPT)
      <4>1. uncounted \in Nat /\ CPT \in Nat \ {0}
        BY <1>4
      <4> QED BY <4>1, DivMod
    <3>5. Goto("loop", elapsed \div CPT)
      BY <1>2, <2>1, <2>5 DEF ElapsedTicks
    <3> HIDE DEF left, elapsed
    <3>6. PICK q \in Nat, r \in 0 .. CPT - 1 : q = uncounted \div CPT /\ r = uncounted % CPT
      BY <3>4
    <3>7. PICK m \in Nat \ {0} : m = IF r > 0 THEN r ELSE CPT
      BY <1>4, <3>6
    <3>8. LOS_SysTickReload(m) /\ reloadFlag' = (r > 0)
      BY <2>1, <3>3, <3>6, <3>7
    <3>9. systick'.load = m /\ systick'.pending = FALSE
      BY <1>4, <3>8, ReloadOf
    <3>10. PICK g \in Frames : isr' = <<g>> /\ g.irq = "dev" /\ g.at = "loop" /\ g.n = q
      BY <1>5, <2>5, <3>2, <3>5, <3>6
    <3>11. Reloaded' /\ PartTick' = r
      <4>1. CASE r > 0
        <5>1. m = r /\ reloadFlag' /\ CPT \in Nat
          BY <1>4, <3>7, <3>8, <4>1
        <5>2. r < CPT
          BY <3>6, <5>1
        <5> QED BY <3>9, <5>1, <5>2 DEF Reloaded, PartTick
      <4>2. CASE r = 0
        BY <1>4, <3>6, <3>7, <3>8, <3>9, <4>2 DEF Reloaded, PartTick
      <4> QED BY <1>4, <3>6, <4>1, <4>2
    <3>12. uncounted' = g.n * CPT + PartTick'
      <4>1. uncounted = q * CPT + r
        BY <3>4, <3>6
      <4> QED BY <1>1, <3>10, <3>11, <4>1
    <3>13. ServedOK(g)'
      BY <2>3, <3>10, <3>11, <3>12 DEF ServedOK, LoopOK
    <3> QED BY <2>3, <3>9, <3>10, <3>13, StillServed
  <2> QED BY <1>4, <2>4, <2>5
<1> QED BY <1>6, <1>7

\* The ticks of a sleep are made up for one after the other.
LEMMA LoopClock ==
  ASSUME ClockTypes, ClockInv, osTickHandlerLoop
  PROVE  ClockInv' /\ isr' # <<>>
<1>1. /\ isr # <<>> /\ Frame.at = "loop"
      /\ systick' = systick /\ reloadFlag' = reloadFlag /\ tickIrq' = tickIrq
  BY DEF osTickHandlerLoop
<1>2. PICK f \in Frames : isr = <<f>> /\ Frame = f /\ ~systick.pending /\ ServedOK(f)
  BY <1>1, ServedFrame
<1>3. LoopOK(f)
  BY <1>1, <1>2 DEF ServedOK
<1>4. /\ CPT \in Nat \ {0} /\ sleepTicks \in Nat /\ uncounted \in Nat /\ f.n \in Nat
      /\ systick.load \in Nat /\ systick'.pending = FALSE /\ f.irq \in {"tick", "dev"}
  <2>1. systick.pending \in BOOLEAN
    BY DEF ClockTypes
  <2> QED BY <1>1, <1>2, <2>1, ClockFacts DEF ClockInv, Frames
<1>5. \A a \in {"entry", "loop", "handler"}, n \in Nat : Goto(a, n) =>
         \E g \in Frames : isr' = <<g>> /\ g.irq = f.irq /\ g.at = a /\ g.n = n
  BY <1>2, OneFrame
<1>6. PartTick \in Nat /\ PartTick' = PartTick
  BY <1>1, <1>4 DEF PartTick
<1>7. /\ uncounted = IF f.irq = "tick" THEN (f.n + 1) * CPT ELSE f.n * CPT + PartTick
      /\ sleepTicks > 0 /\ sleepTicks # 1 /\ Reloaded /\ ~tickIrq /\ Reloaded'
  BY <1>1, <1>3 DEF LoopOK, ClockInv, Reloaded
<1>8. CASE f.n > 0
  <2>1. Goto("loop", f.n - 1) /\ uncounted' = uncounted - CPT /\ sleepTicks' = sleepTicks
    BY <1>2, <1>8 DEF osTickHandlerLoop, TickWork
  <2>2. f.n - 1 \in Nat /\ f.n # 0
    BY <1>4, <1>8
  <2>3. PICK g \in Frames : isr' = <<g>> /\ g.irq = f.irq /\ g.at = "loop" /\ g.n = f.n - 1
    BY <1>5, <2>1, <2>2
  <2>4. PICK c \in Nat : c = (f.n - 1) * CPT
    BY <2>2, CyclesOf
  <2>5. f.n * CPT = c + CPT /\ (f.n + 1) * CPT = c + CPT + CPT /\ (g.n + 1) * CPT = c + CPT
    <3>1. f.n * CPT = c + CPT
      BY <1>4, <2>2, <2>4, CyclesOf
    <3>2. (f.n + 1) * CPT = f.n * CPT + CPT
      BY <1>4, CyclesOf
    <3>3. g.n + 1 = f.n
      BY <1>4, <2>3
    <3> QED BY <3>1, <3>2, <3>3
  <2>6. /\ uncounted' \in Nat
        /\ uncounted' = IF g.irq = "tick" THEN (g.n + 1) * CPT ELSE g.n * CPT + PartTick
    <3>1. CASE f.irq = "tick"
      BY <1>4, <1>7, <2>1, <2>3, <2>4, <2>5, <3>1
    <3>2. CASE f.irq # "tick"
      <4>1. uncounted = c + CPT + PartTick
        BY <1>7, <2>5, <3>2
      <4>2. uncounted' = c + PartTick
        BY <1>4, <1>6, <2>1, <2>4, <4>1
      <4> QED BY <1>6, <2>3, <2>4, <3>2, <4>2
    <3> QED BY <3>1, <3>2
  <2>7. ServedOK(g)'
    BY <1>6, <1>7, <2>1, <2>3, <2>6 DEF ServedOK, LoopOK
  <2> QED BY <1>1, <1>4, <1>7, <2>1, <2>3, <2>6, <2>7, StillServed
<1>9. CASE ~(f.n > 0)
  <2>1. Goto("handler", 0) /\ uncounted' = uncounted /\ sleepTicks' = 0
    BY <1>2, <1>9 DEF osTickHandlerLoop
  <2>2. PICK g \in Frames : isr' = <<g>> /\ g.irq = f.irq /\ g.at = "handler" /\ g.n = 0
    BY <1>5, <2>1
  <2>3. f.n = 0
    BY <1>4, <1>9
  <2>4. f.n * CPT = 0 /\ (f.n + 1) * CPT = CPT
    BY <1>4, <2>3, CyclesOf
  <2>5. uncounted = IF f.irq = "tick" THEN CPT ELSE PartTick
    BY <1>6, <1>7, <2>4
  <2>6. ServedOK(g)'
    BY <1>6, <1>7, <2>1, <2>2, <2>5 DEF ServedOK, HandlerOK
  <2>7. sleepTicks' # 1 /\ uncounted' \in Nat /\ ~tickIrq'
    BY <1>1, <1>4, <1>7, <2>1
  <2> QED BY <1>4, <2>2, <2>6, <2>7, StillServed
<1> QED BY <1>8, <1>9

\* An interrupt returns.
LEMMA ReturnClock ==
  ASSUME ClockTypes, ClockInv, osTickHandler \/ DeviceHandler
  PROVE  ClockInv' /\ sleepTicks' = 0
<1>1. isr # <<>> /\ Frame.at = "handler" /\ isr' = Front(isr)
  BY DEF osTickHandler, DeviceHandler
<1>2. PICK f \in Frames : isr = <<f>> /\ Frame = f /\ ~systick.pending /\ ServedOK(f)
  BY <1>1, ServedFrame
<1>3. HandlerOK(f) /\ isr' = <<>>
  BY <1>1, <1>2, OneFrame DEF ServedOK
<1>4. CPT \in Nat \ {0} /\ sleepTicks \in Nat /\ uncounted \in Nat /\ sleepTicks' = sleepTicks
  BY ClockFacts DEF ClockInv, osTickHandler, DeviceHandler, clock
<1>5. sleepTicks' = 0 /\ Reloaded
  BY <1>3, <1>4 DEF HandlerOK
<1>6. Reloaded' /\ uncounted' \in Nat /\ uncounted' < CPT /\ (reloadFlag' => ~tickIrq')
  <2>1. CASE osTickHandler
    <3>1. /\ f.irq = "tick" /\ reloadFlag' = FALSE /\ uncounted' = uncounted - CPT
          /\ IF reloadFlag THEN LOS_SysTickReload(CPT) ELSE systick' = systick
      BY <1>2, <2>1 DEF osTickHandler, TickWork
    <3>2. uncounted = CPT
      BY <1>3, <3>1 DEF HandlerOK
    <3>3. systick'.load = CPT
      <4>1. CASE reloadFlag
        BY <1>4, <3>1, <4>1, ReloadOf
      <4>2. CASE ~reloadFlag
        BY <1>5, <3>1, <4>2 DEF Reloaded
      <4> QED BY <4>1, <4>2
    <3> QED BY <1>4, <3>1, <3>2, <3>3 DEF Reloaded
  <2>2. CASE DeviceHandler
    <3>1. f.irq = "dev" /\ systick' = systick /\ reloadFlag' = reloadFlag /\ tickIrq' = tickIrq
          /\ uncounted' = uncounted
      BY <1>2, <2>2 DEF DeviceHandler, clock
    <3>2. uncounted = PartTick
      BY <1>3, <3>1 DEF HandlerOK
    <3>3. PartTick < CPT
      BY <1>4, <1>5 DEF Reloaded, PartTick
    <3> QED BY <1>4, <1>5, <3>1, <3>2, <3>3 DEF Reloaded, ClockInv
  <2> QED BY <2>1, <2>2
<1>7. AwakeOK' /\ AsleepOK' /\ ServingOK'
  BY <1>3, <1>5, <1>6 DEF AwakeOK, AsleepOK, ServingOK
<1> QED BY <1>5, <1>6, <1>7 DEF ClockInv

\* Every step keeps the clock's account, and no sleep outlasts a timer.
LEMMA ClockKept ==
  ASSUME ~Races, WheelInv, SwtmrInv(w), ClockTypes, ClockInv, SoundSleep, [TicklessNext]_ticklessVars
  PROVE  ClockInv' /\ SoundSleep'
<1>1. CASE Cycle
  <2>1. ClockInv'
    BY <1>1, CycleClock
  <2>2. SoundSleep'
    <3>1. /\ isr = <<>> /\ isr' = isr /\ sleepTicks' = sleepTicks /\ w' = w
          /\ armed' = armed /\ cursor' = cursor /\ slots' = slots /\ roll' = roll /\ index' = index
      BY <1>1 DEF Cycle, allVars, wheel
    <3> QED BY <3>1 DEF SoundSleep, TicksLeft, Turns, TicksLeftOf, osSwtmrTimeGet
  <2> QED BY <2>1, <2>2
<1>2. CASE osTicklessStart
  BY <1>2, StartClock
<1>3. CASE TickInterrupt \/ DeviceInterrupt \/ osUpdateKernelTickCount \/ osTickHandlerLoop
  <2>1. ClockInv' /\ isr' # <<>>
    BY <1>3, TickEnters, DeviceEnters, UpdateClock, LoopClock
  <2> QED BY <2>1 DEF SoundSleep
<1>4. CASE osTickHandler \/ DeviceHandler
  <2>1. ClockInv' /\ sleepTicks' = 0
    BY <1>4, ReturnClock
  <2>2. ~(sleepTicks' > 0)
    BY <2>1
  <2> QED BY <2>1, <2>2 DEF SoundSleep
<1>5. CASE TaskTimerCall \/ SwtmrTaskCall
  <2>1. /\ systick' = systick /\ sleepTicks' = sleepTicks /\ reloadFlag' = reloadFlag
        /\ tickIrq' = tickIrq /\ isr' = isr /\ uncounted' = uncounted /\ sleepTicks = 0
    BY <1>5 DEF TaskTimerCall, SwtmrTaskCall, clock, CallTime, Awake
  <2>2. ~(sleepTicks' > 0)
    BY <2>1
  <2>3. ClockInv'
    BY <2>1 DEF ClockInv, AwakeOK, AsleepOK, ServingOK, ServedOK, EntryOK, LoopOK, HandlerOK,
                Reloaded, PartTick
  <2> QED BY <2>2, <2>3 DEF SoundSleep
<1>6. CASE UNCHANGED ticklessVars
  <2>1. /\ systick' = systick /\ sleepTicks' = sleepTicks /\ reloadFlag' = reloadFlag
        /\ tickIrq' = tickIrq /\ isr' = isr /\ uncounted' = uncounted /\ w' = w
        /\ armed' = armed /\ cursor' = cursor /\ slots' = slots /\ roll' = roll /\ index' = index
    BY <1>6 DEF ticklessVars, clock, allVars, wheel
  <2>2. ClockInv'
    BY <2>1 DEF ClockInv, AwakeOK, AsleepOK, ServingOK, ServedOK, EntryOK, LoopOK, HandlerOK,
                Reloaded, PartTick
  <2>3. SoundSleep'
    BY <2>1 DEF SoundSleep, TicksLeft, Turns, TicksLeftOf, osSwtmrTimeGet
  <2> QED BY <2>2, <2>3
<1> QED BY <1>1, <1>2, <1>3, <1>4, <1>5, <1>6 DEF TicklessNext

\* The clock's account holds in every state, while no device ends a sleep
\* together with the tick interrupt.
THEOREM ClockInvariance ==
  ASSUME ~Races
  PROVE  TicklessSpec => []ClockInv /\ []SoundSleep
<1>1. TicklessInit => ClockInv /\ SoundSleep
  <2> SUFFICES ASSUME TicklessInit PROVE ClockInv /\ SoundSleep
    OBVIOUS
  <2>1. /\ systick = [val |-> CPT, load |-> CPT, pending |-> FALSE]
        /\ sleepTicks = 0 /\ reloadFlag = FALSE /\ tickIrq = FALSE /\ isr = <<>> /\ uncounted = 0
        /\ CPT \in Nat \ {0}
    BY TicklessAssumption DEF TicklessInit
  <2>2. systick.load = CPT /\ ~(sleepTicks > 0)
    BY <2>1
  <2>3. AwakeOK /\ AsleepOK /\ ServingOK /\ SoundSleep
    BY <2>1, <2>2 DEF AwakeOK, AsleepOK, ServingOK, SoundSleep, Reloaded
  <2> QED BY <2>1, <2>3 DEF ClockInv
<1>2. WheelInv /\ SwtmrInv(w) /\ ClockTypes /\ ClockInv /\ SoundSleep /\ [TicklessNext]_ticklessVars
        => ClockInv' /\ SoundSleep'
  BY ClockKept
<1> QED BY <1>1, <1>2, ClockTypesHold, WheelInvariance, SwtmrInvariance, PTL DEF TicklessSpec

\* After a sleep every tick that has passed is counted, whatever ended the
\* sleep and when, while no device ends one together with the tick interrupt.
THEOREM SleepsCounted ==
  ASSUME ~Races
  PROVE  TicklessSpec => []SleepCounted
<1>1. ClockInv => SleepCounted
  <2> SUFFICES ASSUME ClockInv, Awake PROVE 0 <= uncounted /\ uncounted < (IF systick.pending THEN 2 * CPT ELSE CPT)
    BY DEF SleepCounted
  <2>1. uncounted \in Nat /\ uncounted < CPT
    BY DEF ClockInv, AwakeOK, Awake
  <2> QED BY <2>1, TicklessAssumption
<1> QED BY <1>1, ClockInvariance, PTL

\* No timer of either kind becomes due before a sleep ends, under the same
\* condition.
THEOREM TimersWakeInTime ==
  ASSUME ~Races
  PROVE  TicklessSpec => []NeverOversleeps
<1>1. WheelInv /\ SwtmrInv(w) /\ ClockTypes /\ ClockInv /\ SoundSleep => NeverOversleeps
  <2> SUFFICES ASSUME WheelInv, SwtmrInv(w), ClockTypes, ClockInv, SoundSleep, sleepTicks > 0, isr = <<>>
               PROVE  /\ \A t \in ToSet(armed) : uncounted <= TicksLeft(t) * CPT
                      /\ \A s \in Swtmr : uncounted <= TicksLeftOf(w, s) * CPT
    BY DEF NeverOversleeps
  <2>1. sleepTicks \in Nat /\ sleepTicks * CPT \in Nat /\ systick.val \in Nat /\ uncounted \in Nat
    BY ClockFacts DEF ClockInv
  <2>2. uncounted <= sleepTicks * CPT
    <3>1. uncounted + (IF systick.pending THEN 0 ELSE systick.val) = sleepTicks * CPT
      BY DEF ClockInv, AsleepOK
    <3>2. PICK a \in Nat : a = sleepTicks * CPT
      BY <2>1
    <3>3. PICK b \in Nat : b = IF systick.pending THEN 0 ELSE systick.val
      BY <2>1
    <3>4. uncounted + b = a
      BY <3>1, <3>2, <3>3
    <3> QED BY <2>1, <3>2, <3>4
  <2>3. ASSUME NEW n \in Nat, sleepTicks <= n PROVE uncounted <= n * CPT
    <3>1. sleepTicks * CPT <= n * CPT /\ n * CPT \in Nat
      BY <2>1, <2>3, CyclesMonotone, CyclesOf
    <3> QED BY <2>1, <2>2, <3>1
  <2>4. /\ \A t \in ToSet(armed) : TicksLeft(t) \in Nat /\ sleepTicks <= TicksLeft(t)
        /\ \A s \in Swtmr : TicksLeftOf(w, s) \in Nat /\ sleepTicks <= TicksLeftOf(w, s)
    BY TicksNat DEF SoundSleep
  <2> QED BY <2>3, <2>4
<1> QED BY <1>1, ClockTypesHold, WheelInvariance, SwtmrInvariance, ClockInvariance, PTL
=============================================================================
