---------------------------- MODULE LosTaskProofs ----------------------------
(***************************************************************************)
(* Theorems about module LosTask, for every number of tasks, priorities    *)
(* and time slices and every set of calls the application makes, under two *)
(* conditions on the platform and the application:                         *)
(*                                                                         *)
(*   - no interrupt handler preempts the tick interrupt (Unnested), and    *)
(*   - no interrupt handler suspends a task (NoIsrSuspend).                *)
(*                                                                         *)
(* First come facts about the lists and the services of the kernel, which  *)
(* the proofs of the other modules cite too: the list operations of module *)
(* LosPriqueue do to the tasks on a list and to the absence of duplicates  *)
(* what they should, and the services of modules LosPriqueue and           *)
(* LosTaskBase keep the ready queues, the wait lists and the control       *)
(* blocks consistent (KernelOK), each under the precondition its callers   *)
(* have to establish, and leave alone what they have no business with.     *)
(***************************************************************************)
EXTENDS LosTask, SequenceTheorems, WellFoundedInduction, TLAPS

-----------------------------------------------------------------------------
(* Lists                                                                   *)

\* A set of naturals that is not empty has a least member, and Min finds it.
LEMMA MinNat ==
  ASSUME NEW S \in SUBSET Nat, S # {}
  PROVE  Min(S) \in S /\ \A n \in S : Min(S) <= n
<1>1. PICK m \in S : \A n \in S : ~(<<n, m>> \in OpToRel(<, Nat))
  BY NatLessThanWellFounded, WFMin
<1>2. ASSUME NEW n \in S PROVE m <= n
  <2>1. <<n, m>> \in Nat \X Nat /\ <<n, m>>[1] = n /\ <<n, m>>[2] = m
    OBVIOUS
  <2>2. n < m => <<n, m>> \in {ss \in Nat \X Nat : ss[1] < ss[2]}
    BY <2>1
  <2>3. OpToRel(<, Nat) = {ss \in Nat \X Nat : ss[1] < ss[2]}
    BY Zenon DEF OpToRel
  <2>4. ~(n < m)
    BY <1>1, <2>2, <2>3
  <2> QED BY <2>4
<1> QED BY <1>2 DEF Min

\* LOS_ListInit leaves no task on the list.
LEMMA EmptyList ==
  ASSUME NEW S
  PROVE  /\ <<>> \in Seq(S) /\ IsInjective(<<>>)
         /\ \A f : ~IsOn(<<>>, f)
BY DEF IsInjective, IsOn, Contains

\* A list is empty exactly if no task is on it.
LEMMA ListEmptyIff ==
  ASSUME NEW S, NEW s \in Seq(S)
  PROVE  s # <<>> <=> \E f \in S : IsOn(s, f)
<1>1. ASSUME s # <<>> PROVE \E f \in S : IsOn(s, f)
  <2>1. 1 \in 1 .. Len(s) /\ s[1] \in S
    BY <1>1
  <2> QED BY <2>1 DEF IsOn, Contains
<1>2. ASSUME s = <<>> PROVE ~(\E f \in S : IsOn(s, f))
  BY <1>2, EmptyList
<1> QED BY <1>1, <1>2

\* The first task of a list that is not empty is on it.
LEMMA HeadIsOn ==
  ASSUME NEW S, NEW s \in Seq(S), s # <<>>
  PROVE  Head(s) \in S /\ IsOn(s, Head(s))
<1>1. 1 \in 1 .. Len(s) /\ Head(s) = s[1] /\ s[1] \in S
  OBVIOUS
<1> QED BY <1>1 DEF IsOn, Contains

\* LOS_ListTailInsert adds the task and nothing else.
LEMMA AppendList ==
  ASSUME NEW S, NEW s \in Seq(S), NEW e \in S
  PROVE  /\ Append(s, e) \in Seq(S) /\ Append(s, e) # <<>>
         /\ \A f : IsOn(Append(s, e), f) <=> IsOn(s, f) \/ f = e
         /\ IsInjective(s) /\ ~IsOn(s, e) => IsInjective(Append(s, e))
<1> DEFINE a == Append(s, e)
<1>1. a \in Seq(S) /\ Len(a) = Len(s) + 1 /\ Len(s) \in Nat
  OBVIOUS
<1>2. \A i \in 1 .. Len(a) : a[i] = IF i <= Len(s) THEN s[i] ELSE e
  OBVIOUS
<1>3. a # <<>>
  BY <1>1
<1>4. ASSUME NEW f PROVE IsOn(a, f) <=> IsOn(s, f) \/ f = e
  <2>1. ASSUME IsOn(s, f) PROVE IsOn(a, f)
    BY <1>1, <1>2, <2>1 DEF IsOn, Contains
  <2>2. IsOn(a, e)
    <3>1. Len(a) \in 1 .. Len(a) /\ a[Len(a)] = e
      BY <1>1, <1>2
    <3> QED BY <3>1 DEF IsOn, Contains
  <2>3. ASSUME IsOn(a, f), f # e PROVE IsOn(s, f)
    BY <1>1, <1>2, <2>3 DEF IsOn, Contains
  <2> QED BY <2>1, <2>2, <2>3
<1>5. ASSUME IsInjective(s), ~IsOn(s, e) PROVE IsInjective(a)
  <2>1. \A i, j \in 1 .. Len(s) : s[i] = s[j] => i = j
    BY <1>5 DEF IsInjective
  <2>2. \A i \in 1 .. Len(s) : s[i] # e
    BY <1>5 DEF IsOn, Contains
  <2>3. \A i, j \in 1 .. Len(a) : a[i] = a[j] => i = j
    BY <1>1, <1>2, <2>1, <2>2
  <2> QED BY <1>1, <2>3 DEF IsInjective
<1> QED BY <1>1, <1>3, <1>4, <1>5

\* Unlinking the i-th node moves the nodes behind it up by one.
LEMMA WithoutNodes ==
  ASSUME NEW S, NEW s \in Seq(S), IsInjective(s), NEW i \in 1 .. Len(s), NEW e, s[i] = e
  PROVE  /\ Without(s, e) \in Seq(S) /\ Len(Without(s, e)) = Len(s) - 1
         /\ \A j \in 1 .. Len(s) - 1 : Without(s, e)[j] = IF j < i THEN s[j] ELSE s[j + 1]
<1> DEFINE n == Len(s)
<1>1. s[i] = e /\ i \in 1 .. n
  OBVIOUS
<1>2. \A j, l \in 1 .. n : s[j] = s[l] => j = l
  BY DEF IsInjective
<1> DEFINE w == SubSeq(s, 1, i - 1) \o SubSeq(s, i + 1, n)
<1>3. Without(s, e) = w
  <2> DEFINE I == {j \in 1 .. n : s[j] = e}
  <2>1. I = {i}
    BY <1>1, <1>2
  <2>2. Min(I) = i
    BY <1>1, <2>1 DEF Min
  <2>3. SelectInSeq(s, LAMBDA v : v = e) = Min(I)
    BY <2>1 DEF SelectInSeq
  <2> QED BY <1>1, <2>2, <2>3 DEF Without, RemoveFirst, RemoveAt
<1>4. n \in Nat /\ i \in Nat /\ 1 <= i /\ i <= n
  BY <1>1
<1> DEFINE before == SubSeq(s, 1, i - 1)
           after == SubSeq(s, i + 1, n)
<1>5. /\ before \in Seq(S) /\ Len(before) = i - 1
      /\ \A j \in 1 .. i - 1 : before[j] = s[j]
  <2>1. \A j \in 1 .. i - 1 : s[j] \in S
    BY <1>4
  <2> QED BY <1>4, <2>1, SubSeqProperties
<1>6. /\ after \in Seq(S) /\ Len(after) = n - i
      /\ \A j \in 1 .. n - i : after[j] = s[i + j]
  <2>1. \A j \in i + 1 .. n : s[j] \in S
    BY <1>4
  <2>2. i + 1 \in Int /\ n \in Int
    BY <1>4
  <2>3. /\ after \in Seq(S) /\ Len(after) = IF i + 1 <= n THEN n - (i + 1) + 1 ELSE 0
        /\ \A j \in 1 .. n - (i + 1) + 1 : after[j] = s[i + 1 + j - 1]
    BY <2>1, <2>2, SubSeqProperties
  <2> QED BY <1>4, <2>3
<1> HIDE DEF before, after
<1>7. /\ w \in Seq(S) /\ Len(w) = n - 1
      /\ \A j \in 1 .. n - 1 : w[j] = IF j < i THEN s[j] ELSE s[j + 1]
  <2> SUFFICES /\ before \o after \in Seq(S) /\ Len(before \o after) = n - 1
               /\ \A j \in 1 .. n - 1 :
                    (before \o after)[j] = IF j < i THEN s[j] ELSE s[j + 1]
    BY DEF before, after
  <2>1. /\ before \o after \in Seq(S)
        /\ Len(before \o after) = Len(before) + Len(after)
        /\ \A j \in 1 .. Len(before) + Len(after) :
             (before \o after)[j] = IF j <= Len(before) THEN before[j]
                                    ELSE after[j - Len(before)]
    BY <1>5, <1>6, ConcatProperties
  <2> QED BY <1>4, <1>5, <1>6, <2>1
<1> HIDE DEF w
<1> QED BY <1>3, <1>7

\* LOS_ListDelete removes the task and nothing else.
LEMMA WithoutList ==
  ASSUME NEW S, NEW s \in Seq(S), IsInjective(s), NEW e
  PROVE  /\ Without(s, e) \in Seq(S) /\ IsInjective(Without(s, e))
         /\ \A f : IsOn(Without(s, e), f) <=> IsOn(s, f) /\ f # e
         /\ ~IsOn(s, e) => Without(s, e) = s
<1>1. CASE ~IsOn(s, e)
  <2>1. Without(s, e) = s
    BY <1>1 DEF Without, RemoveFirst, IsOn, Contains
  <2> QED BY <1>1, <2>1
<1>2. CASE IsOn(s, e)
  <2> DEFINE n == Len(s)
  <2>1. PICK i \in 1 .. n : s[i] = e
    BY <1>2 DEF IsOn, Contains
  <2>2. \A j, l \in 1 .. n : s[j] = s[l] => j = l
    BY DEF IsInjective
  <2> DEFINE w == Without(s, e)
  <2>3. n \in Nat /\ i \in Nat /\ 1 <= i /\ i <= n
    BY <2>1
  <2>4. /\ w \in Seq(S) /\ Len(w) = n - 1
        /\ \A j \in 1 .. n - 1 : w[j] = IF j < i THEN s[j] ELSE s[j + 1]
    BY <2>1, WithoutNodes
  <2>5. w = Without(s, e)
    OBVIOUS
  <2> HIDE DEF w
  <2>6. IsInjective(w)
    <3>1. \A j, l \in 1 .. Len(w) : w[j] = w[l] => j = l
      BY <2>2, <2>3, <2>4
    <3> QED BY <2>4, <3>1 DEF IsInjective
  <2>7. ASSUME NEW f PROVE IsOn(w, f) <=> IsOn(s, f) /\ f # e
    <3>1. ASSUME NEW j \in 1 .. Len(w), w[j] = f PROVE IsOn(s, f) /\ f # e
      BY <2>1, <2>2, <2>3, <2>4, <3>1 DEF IsOn, Contains
    <3>2. ASSUME NEW j \in 1 .. n, s[j] = f, f # e PROVE IsOn(w, f)
      <4>1. CASE j < i
        BY <2>3, <2>4, <3>2, <4>1 DEF IsOn, Contains
      <4>2. CASE j > i
        <5>1. j - 1 \in 1 .. Len(w) /\ w[j - 1] = f
          BY <2>3, <2>4, <3>2, <4>2
        <5> QED BY <5>1 DEF IsOn, Contains
      <4> QED BY <2>1, <2>3, <3>2, <4>1, <4>2
    <3> QED BY <3>1, <3>2 DEF IsOn, Contains
  <2> QED BY <1>2, <2>5, <2>4, <2>6, <2>7
<1> QED BY <1>1, <1>2

\* A list keeps its head unless the head is the one that is unlinked.
LEMMA WithoutHead ==
  ASSUME NEW S, NEW s \in Seq(S), IsInjective(s), s # <<>>, NEW e, Head(s) # e
  PROVE  Without(s, e) # <<>> /\ Head(Without(s, e)) = Head(s)
<1>1. CASE ~IsOn(s, e)
  BY <1>1, WithoutList
<1>2. CASE IsOn(s, e)
  <2>1. PICK i \in 1 .. Len(s) : s[i] = e
    BY <1>2 DEF IsOn, Contains
  <2>2. /\ Without(s, e) \in Seq(S) /\ Len(Without(s, e)) = Len(s) - 1
        /\ \A j \in 1 .. Len(s) - 1 : Without(s, e)[j] = IF j < i THEN s[j] ELSE s[j + 1]
    BY <2>1, WithoutNodes
  <2>3. i > 1 /\ 1 \in 1 .. Len(s) - 1
    BY <2>1
  <2>4. Without(s, e)[1] = s[1] /\ Len(Without(s, e)) > 0
    BY <2>2, <2>3
  <2> QED BY <2>2, <2>4
<1> QED BY <1>1, <1>2

\* Taking the first task off a list removes it and nothing else.
LEMMA TailList ==
  ASSUME NEW S, NEW s \in Seq(S), IsInjective(s), s # <<>>
  PROVE  /\ Tail(s) \in Seq(S) /\ IsInjective(Tail(s))
         /\ \A f : IsOn(Tail(s), f) <=> IsOn(s, f) /\ f # Head(s)
<1> DEFINE r == Tail(s)
<1>1. /\ r \in Seq(S) /\ Len(r) = Len(s) - 1 /\ Len(s) \in Nat \ {0}
      /\ \A i \in 1 .. Len(r) : r[i] = s[i + 1]
  BY HeadTailProperties
<1>2. Head(s) = s[1]
  OBVIOUS
<1> HIDE DEF r
<1>3. \A i, j \in 1 .. Len(s) : s[i] = s[j] => i = j
  BY DEF IsInjective
<1>4. IsInjective(r)
  <2>1. \A i, j \in 1 .. Len(r) : r[i] = r[j] => i = j
    BY <1>1, <1>3
  <2> QED BY <1>1, <2>1 DEF IsInjective
<1>5. ASSUME NEW f, IsOn(r, f) PROVE IsOn(s, f) /\ f # Head(s)
  BY <1>1, <1>2, <1>3, <1>5 DEF IsOn, Contains
<1>6. ASSUME NEW f, IsOn(s, f), f # Head(s) PROVE IsOn(r, f)
  <2>1. PICK i \in 1 .. Len(s) : s[i] = f
    BY <1>6 DEF IsOn, Contains
  <2>2. i - 1 \in 1 .. Len(r) /\ r[i - 1] = f
    BY <1>1, <1>2, <1>6, <2>1
  <2> QED BY <2>2 DEF IsOn, Contains
<1> QED BY <1>1, <1>4, <1>5, <1>6 DEF r

\* Joining two lists that share no task.
LEMMA JoinList ==
  ASSUME NEW S, NEW s \in Seq(S), NEW r \in Seq(S)
  PROVE  /\ s \o r \in Seq(S)
         /\ \A f : IsOn(s \o r, f) <=> IsOn(s, f) \/ IsOn(r, f)
         /\ IsInjective(s) /\ IsInjective(r) /\ (\A f \in S : ~(IsOn(s, f) /\ IsOn(r, f)))
              => IsInjective(s \o r)
<1> DEFINE j == s \o r
<1>1. /\ j \in Seq(S) /\ Len(j) = Len(s) + Len(r)
      /\ \A i \in 1 .. Len(s) + Len(r) : j[i] = IF i <= Len(s) THEN s[i] ELSE r[i - Len(s)]
  BY ConcatProperties
<1>2. Len(s) \in Nat /\ Len(r) \in Nat
  OBVIOUS
<1> HIDE DEF j
<1>3. ASSUME NEW f, IsOn(j, f) PROVE IsOn(s, f) \/ IsOn(r, f)
  <2>1. PICK i \in 1 .. Len(s) + Len(r) : j[i] = f
    BY <1>1, <1>3 DEF IsOn, Contains
  <2>2. CASE i <= Len(s)
    BY <1>1, <1>2, <2>1, <2>2 DEF IsOn, Contains
  <2>3. CASE i > Len(s)
    <3>1. i - Len(s) \in 1 .. Len(r) /\ r[i - Len(s)] = f
      BY <1>1, <1>2, <2>1, <2>3
    <3> QED BY <3>1 DEF IsOn, Contains
  <2> QED BY <1>2, <2>1, <2>2, <2>3
<1>4. ASSUME NEW f, IsOn(s, f) PROVE IsOn(j, f)
  BY <1>1, <1>2, <1>4 DEF IsOn, Contains
<1>5. ASSUME NEW f, IsOn(r, f) PROVE IsOn(j, f)
  <2>1. PICK i \in 1 .. Len(r) : r[i] = f
    BY <1>5 DEF IsOn, Contains
  <2>2. /\ i + Len(s) \in 1 .. Len(s) + Len(r) /\ ~(i + Len(s) <= Len(s))
        /\ (i + Len(s)) - Len(s) = i
    BY <1>2
  <2>3. i + Len(s) \in 1 .. Len(j) /\ j[i + Len(s)] = f
    BY <1>1, <2>1, <2>2
  <2> QED BY <2>3 DEF IsOn, Contains
<1>6. ASSUME IsInjective(s), IsInjective(r), \A f \in S : ~(IsOn(s, f) /\ IsOn(r, f))
      PROVE  IsInjective(j)
  <2>1. /\ \A a, b \in 1 .. Len(s) : s[a] = s[b] => a = b
        /\ \A a, b \in 1 .. Len(r) : r[a] = r[b] => a = b
    BY <1>6 DEF IsInjective
  <2>2. \A a \in 1 .. Len(s), b \in 1 .. Len(r) : s[a] # r[b]
    <3> SUFFICES ASSUME NEW a \in 1 .. Len(s), NEW b \in 1 .. Len(r), s[a] = r[b]
                 PROVE  FALSE
      OBVIOUS
    <3>1. s[a] \in S /\ IsOn(s, s[a]) /\ IsOn(r, s[a])
      BY DEF IsOn, Contains
    <3> QED BY <1>6, <3>1
  <2>3. \A a, b \in 1 .. Len(j) : j[a] = j[b] => a = b
    <3> SUFFICES ASSUME NEW a \in 1 .. Len(j), NEW b \in 1 .. Len(j), j[a] = j[b]
                 PROVE  a = b
      OBVIOUS
    <3>1. ASSUME NEW i \in 1 .. Len(j)
          PROVE  \/ i \in 1 .. Len(s) /\ j[i] = s[i]
                 \/ i - Len(s) \in 1 .. Len(r) /\ j[i] = r[i - Len(s)]
      BY <1>1, <1>2
    <3>2. CASE a \in 1 .. Len(s) /\ j[a] = s[a]
      <4>1. b \in 1 .. Len(s) /\ j[b] = s[b]
        BY <2>2, <3>1, <3>2
      <4> QED BY <2>1, <3>2, <4>1
    <3>3. CASE a - Len(s) \in 1 .. Len(r) /\ j[a] = r[a - Len(s)]
      <4>1. b - Len(s) \in 1 .. Len(r) /\ j[b] = r[b - Len(s)]
        BY <2>2, <3>1, <3>3
      <4>2. a - Len(s) = b - Len(s)
        BY <2>1, <3>3, <4>1
      <4> QED BY <1>1, <1>2, <4>2
    <3> QED BY <3>1, <3>2, <3>3
  <2> QED BY <1>1, <2>3 DEF IsInjective
<1> QED BY <1>1, <1>3, <1>4, <1>5, <1>6 DEF j

\* LOS_ListAdd, at the head of the list.
LEMMA PrependList ==
  ASSUME NEW S, NEW s \in Seq(S), NEW e \in S
  PROVE  /\ <<e>> \o s \in Seq(S)
         /\ \A f : IsOn(<<e>> \o s, f) <=> IsOn(s, f) \/ f = e
         /\ IsInjective(s) /\ ~IsOn(s, e) => IsInjective(<<e>> \o s)
<1>1. <<e>> \in Seq(S) /\ IsInjective(<<e>>)
  BY DEF IsInjective
<1>2. \A f : IsOn(<<e>>, f) <=> f = e
  BY DEF IsOn, Contains
<1>3. ASSUME ~IsOn(s, e) PROVE \A f \in S : ~(IsOn(<<e>>, f) /\ IsOn(s, f))
  BY <1>2, <1>3
<1> HIDE DEF IsInjective
<1>4. /\ <<e>> \o s \in Seq(S)
      /\ \A f : IsOn(<<e>> \o s, f) <=> IsOn(<<e>>, f) \/ IsOn(s, f)
      /\ ~IsOn(s, e) /\ IsInjective(s) => IsInjective(<<e>> \o s)
  BY <1>1, <1>3, JoinList
<1> QED BY <1>2, <1>4

\* Reversal keeps the tasks on a list.
LEMMA ReverseList ==
  ASSUME NEW S, NEW s \in Seq(S)
  PROVE  /\ Reverse(s) \in Seq(S)
         /\ \A f : IsOn(Reverse(s), f) <=> IsOn(s, f)
         /\ IsInjective(s) => IsInjective(Reverse(s))
<1> DEFINE r == Reverse(s)
<1>1. /\ Len(s) \in Nat
      /\ r \in Seq(S) /\ Len(r) = Len(s)
      /\ \A i \in 1 .. Len(s) : r[i] = s[(Len(s) - i) + 1]
  <2>1. Len(s) \in Nat /\ \A i \in 1 .. Len(s) : s[(Len(s) - i) + 1] \in S
    OBVIOUS
  <2>2. r \in [1 .. Len(s) -> S]
    BY <2>1 DEF Reverse
  <2> QED BY <2>1, <2>2, IsASeq DEF Reverse
<1> HIDE DEF r
<1>2. ASSUME NEW f PROVE IsOn(r, f) <=> IsOn(s, f)
  <2>1. ASSUME NEW i \in 1 .. Len(s) PROVE (Len(s) - i) + 1 \in 1 .. Len(s)
    BY <1>1
  <2>2. ASSUME NEW i \in 1 .. Len(s) PROVE s[i] = r[(Len(s) - i) + 1]
    <3>1. (Len(s) - ((Len(s) - i) + 1)) + 1 = i
      BY <1>1
    <3> QED BY <1>1, <2>1, <3>1
  <2>3. ASSUME IsOn(r, f) PROVE IsOn(s, f)
    BY <1>1, <2>1, <2>3 DEF IsOn, Contains
  <2>4. ASSUME IsOn(s, f) PROVE IsOn(r, f)
    BY <1>1, <2>1, <2>2, <2>4 DEF IsOn, Contains
  <2> QED BY <2>3, <2>4
<1>3. ASSUME IsInjective(s) PROVE IsInjective(r)
  <2>1. \A a, b \in 1 .. Len(s) : s[a] = s[b] => a = b
    BY <1>3 DEF IsInjective
  <2>2. ASSUME NEW a \in 1 .. Len(r), NEW b \in 1 .. Len(r), r[a] = r[b] PROVE a = b
    <3>1. (Len(s) - a) + 1 \in 1 .. Len(s) /\ (Len(s) - b) + 1 \in 1 .. Len(s)
      BY <1>1
    <3>2. (Len(s) - a) + 1 = (Len(s) - b) + 1
      BY <1>1, <2>1, <2>2, <3>1
    <3> QED BY <1>1, <3>2
  <2> QED BY <1>1, <2>2 DEF IsInjective
<1> QED BY <1>1, <1>2, <1>3 DEF r

-----------------------------------------------------------------------------
(* The services                                                            *)

\* A kernel whose lists are well formed and whose ready queues hold the ready tasks.
KernelOK(kk) == kk \in KernelType /\ ReadyQueueExact(kk) /\ OneList(kk)

\* The fields of the kernel record that scheduling does not touch.
SameRest(kk, r) ==
  /\ r.timer = kk.timer /\ r.ticks = kk.ticks /\ r.fault = kk.fault
  /\ r.free = kk.free /\ r.recycle = kk.recycle

\* A task that is neither ready nor blocked nor unused may be made ready.
LEMMA MakeReadyOK ==
  ASSUME NEW kk, KernelOK(kk), NEW t \in TaskID,
         kk.status[t] \cap ({"READY", "UNUSED"} \cup Blocked) = {},
         NEW r, r = MakeReady(kk, t)
  PROVE  /\ KernelOK(r) /\ SameRest(kk, r)
         /\ r.status = [kk.status EXCEPT ![t] = @ \cup {"READY"}]
         /\ r.prio = kk.prio /\ r.pend = kk.pend
<1> DEFINE p == kk.prio[t]
<1>1. kk \in KernelType /\ ReadyQueueExact(kk) /\ OneList(kk)
  BY DEF KernelOK
<1>2. p \in Prio /\ kk.queue[p] \in Seq(TaskID) /\ kk.status[t] \subseteq Flag
  BY <1>1 DEF KernelType
<1>3. /\ r = [kk EXCEPT !.status = [kk.status EXCEPT ![t] = @ \cup {"READY"}],
                        !.queue = [kk.queue EXCEPT ![p] = Append(@, t)],
                        !.bitmap = IF kk.queue[p] = <<>> THEN @ \cup {p} ELSE @]
  BY <1>1, <1>2 DEF MakeReady, SetFlags, osPriqueueEnqueue, KernelType
<1>4. /\ r.status = [kk.status EXCEPT ![t] = @ \cup {"READY"}]
      /\ r.queue = [kk.queue EXCEPT ![p] = Append(@, t)]
      /\ r.bitmap = IF kk.queue[p] = <<>> THEN kk.bitmap \cup {p} ELSE kk.bitmap
      /\ r.prio = kk.prio /\ r.pend = kk.pend /\ SameRest(kk, r)
  BY <1>1, <1>3 DEF KernelType, SameRest
<1>5. r \in KernelType
  <2>1. r.status \in [TaskID -> SUBSET Flag]
    BY <1>1, <1>2, <1>4 DEF KernelType, Flag
  <2>2. r.queue \in [Prio -> Seq(TaskID)]
    BY <1>1, <1>2, <1>4, AppendList DEF KernelType
  <2>3. r.bitmap \in SUBSET Prio
    BY <1>1, <1>2, <1>4 DEF KernelType
  <2> QED BY <1>1, <1>3, <1>4, <2>1, <2>2, <2>3 DEF KernelType
<1>6. ~IsOn(kk.queue[p], t)
  BY <1>1, <1>2 DEF ReadyQueueExact
<1>7. \A q \in Prio : r.queue[q] = IF q = p THEN Append(kk.queue[p], t) ELSE kk.queue[q]
  BY <1>1, <1>2, <1>4 DEF KernelType
<1>8. \A u \in TaskID :
        r.status[u] = IF u = t THEN kk.status[t] \cup {"READY"} ELSE kk.status[u]
  BY <1>1, <1>4 DEF KernelType
<1>9. ReadyQueueExact(r)
  <2>1. ASSUME NEW u \in TaskID, NEW q \in Prio
        PROVE  IsOn(r.queue[q], u) <=> "READY" \in r.status[u] /\ r.prio[u] = q
    <3>1. IsOn(r.queue[q], u) <=> IsOn(kk.queue[q], u) \/ (q = p /\ u = t)
      BY <1>2, <1>7, AppendList
    <3> QED BY <1>1, <1>2, <1>4, <1>8, <3>1 DEF ReadyQueueExact
  <2>2. ASSUME NEW q \in Prio PROVE IsInjective(r.queue[q])
    BY <1>1, <1>2, <1>6, <1>7, AppendList DEF ReadyQueueExact
  <2>3. ASSUME NEW q \in Prio PROVE q \in r.bitmap <=> r.queue[q] # <<>>
    BY <1>1, <1>2, <1>4, <1>7, AppendList DEF ReadyQueueExact
  <2> QED BY <2>1, <2>2, <2>3 DEF ReadyQueueExact
<1>10. OneList(r)
  <2>1. \A u \in TaskID :
          /\ r.status[u] \cap Waiting = kk.status[u] \cap Waiting
          /\ r.status[u] \cap Blocked = kk.status[u] \cap Blocked
          /\ "UNUSED" \in r.status[u] <=> "UNUSED" \in kk.status[u]
          /\ u # t => r.status[u] = kk.status[u]
    BY <1>8 DEF Waiting, Blocked
  <2> QED BY <1>1, <1>4, <1>8, <2>1 DEF OneList, SameRest, Waiting, Blocked
<1> QED BY <1>4, <1>5, <1>9, <1>10 DEF KernelOK

\* Flags that say nothing of the lists may change.
LEMMA StatusOK ==
  ASSUME NEW kk, KernelOK(kk), NEW t \in TaskID,
         NEW off, NEW on \in SUBSET Flag,
         NEW new, new = (kk.status[t] \ off) \cup on,
         "UNUSED" \notin kk.status[t], "UNUSED" \notin new,
         "READY" \in new <=> "READY" \in kk.status[t],
         new \cap Waiting = kk.status[t] \cap Waiting,
         "READY" \in new => new \cap Blocked = {},
         "DELAY" \in new => new \cap Waiting = {},
         NEW r, r = SetFlags(kk, t, off, on)
  PROVE  /\ KernelOK(r) /\ SameRest(kk, r)
         /\ r.status = [kk.status EXCEPT ![t] = new]
         /\ r.prio = kk.prio /\ r.pend = kk.pend
         /\ r.queue = kk.queue /\ r.bitmap = kk.bitmap
<1>1. kk \in KernelType /\ ReadyQueueExact(kk) /\ OneList(kk)
  BY DEF KernelOK
<1>2. /\ r.status = [kk.status EXCEPT ![t] = new]
      /\ r.prio = kk.prio /\ r.pend = kk.pend
      /\ r.queue = kk.queue /\ r.bitmap = kk.bitmap /\ SameRest(kk, r)
  BY <1>1 DEF KernelType, SameRest, SetFlags
<1>3. r \in KernelType
  <2>1. new \in SUBSET Flag
    BY <1>1 DEF KernelType
  <2> QED BY <1>1, <2>1 DEF KernelType, SetFlags
<1>4. \A u \in TaskID : r.status[u] = IF u = t THEN new ELSE kk.status[u]
  BY <1>1, <1>2 DEF KernelType
<1>5. ReadyQueueExact(r)
  BY <1>1, <1>2, <1>4 DEF ReadyQueueExact
<1>6. OneList(r)
  BY <1>1, <1>2, <1>4 DEF OneList, SameRest, Waiting, Blocked
<1> QED BY <1>2, <1>3, <1>5, <1>6 DEF KernelOK

\* A task that is not ready may change its priority in place.
LEMMA PrioOK ==
  ASSUME NEW kk, KernelOK(kk), NEW t \in TaskID, NEW p \in Prio,
         "READY" \notin kk.status[t],
         NEW r, r = SetPrio(kk, t, p)
  PROVE  /\ KernelOK(r) /\ SameRest(kk, r)
         /\ r.status = kk.status /\ r.pend = kk.pend
         /\ r.prio = [kk.prio EXCEPT ![t] = p]
<1>1. kk \in KernelType /\ ReadyQueueExact(kk) /\ OneList(kk)
  BY DEF KernelOK
<1>2. /\ r.prio = [kk.prio EXCEPT ![t] = p]
      /\ r.status = kk.status /\ r.pend = kk.pend
      /\ r.queue = kk.queue /\ r.bitmap = kk.bitmap /\ SameRest(kk, r)
  BY <1>1 DEF KernelType, SameRest, SetPrio
<1>3. r \in KernelType
  BY <1>1 DEF KernelType, SetPrio
<1>4. \A u \in TaskID : r.prio[u] = IF u = t THEN p ELSE kk.prio[u]
  BY <1>1, <1>2 DEF KernelType
<1>5. ReadyQueueExact(r)
  BY <1>1, <1>2, <1>4 DEF ReadyQueueExact
<1>6. OneList(r)
  BY <1>1, <1>2 DEF OneList, SameRest
<1> QED BY <1>2, <1>3, <1>5, <1>6 DEF KernelOK

\* osPriqueueDequeue takes a ready task off its queue and off no other list.
LEMMA MakeUnreadyOK ==
  ASSUME NEW kk, KernelOK(kk), NEW t \in TaskID, "READY" \in kk.status[t],
         NEW r, r = MakeUnready(kk, t)
  PROVE  /\ KernelOK(r) /\ SameRest(kk, r)
         /\ r.status = [kk.status EXCEPT ![t] = @ \ {"READY"}]
         /\ r.prio = kk.prio /\ r.pend = kk.pend
<1> DEFINE p == kk.prio[t]
           queue == [q \in Prio |-> Without(kk.queue[q], t)]
<1>1. kk \in KernelType /\ ReadyQueueExact(kk) /\ OneList(kk)
  BY DEF KernelOK
<1>2. p \in Prio /\ kk.status[t] \subseteq Flag /\ kk.status[t] \cap Waiting = {}
  BY <1>1 DEF KernelType, OneList, Waiting, Blocked
<1>3. \A q \in Prio : kk.queue[q] \in Seq(TaskID) /\ IsInjective(kk.queue[q])
  BY <1>1 DEF KernelType, ReadyQueueExact
<1>4. \A q \in Prio :
        /\ queue[q] \in Seq(TaskID) /\ IsInjective(queue[q])
        /\ \A u : IsOn(queue[q], u) <=> IsOn(kk.queue[q], u) /\ u # t
        /\ q # p => queue[q] = kk.queue[q]
  BY <1>1, <1>2, <1>3, WithoutList DEF ReadyQueueExact
<1>5. [o \in PendObj |-> Without(kk.pend[o], t)] = kk.pend
  <2>1. ASSUME NEW o \in PendObj PROVE Without(kk.pend[o], t) = kk.pend[o]
    <3>1. ~IsOn(kk.pend[o], t) /\ kk.pend[o] \in Seq(TaskID) /\ IsInjective(kk.pend[o])
      BY <1>1, <1>2 DEF OneList, KernelType
    <3> QED BY <3>1, WithoutList
  <2> QED BY <1>1, <2>1 DEF KernelType
<1>6. PendNodeLinked(kk, t)
  BY <1>1, <1>2 DEF PendNodeLinked, ReadyQueueExact
<1>7. r = [kk EXCEPT !.status = [kk.status EXCEPT ![t] = @ \ {"READY"}],
                     !.queue = queue,
                     !.bitmap = IF queue[p] = <<>> THEN @ \ {p} ELSE @]
  BY <1>1, <1>2, <1>5, <1>6
  DEF MakeUnready, SetFlags, osPriqueueDequeue, ListDelete, KernelType
<1> HIDE DEF queue
<1>8. /\ r.status = [kk.status EXCEPT ![t] = @ \ {"READY"}]
      /\ r.queue = queue
      /\ r.bitmap = IF queue[p] = <<>> THEN kk.bitmap \ {p} ELSE kk.bitmap
      /\ r.prio = kk.prio /\ r.pend = kk.pend /\ SameRest(kk, r)
  BY <1>1, <1>7 DEF KernelType, SameRest
<1>9. r \in KernelType
  <2>1. r.status \in [TaskID -> SUBSET Flag]
    BY <1>1, <1>2, <1>8 DEF KernelType
  <2>2. r.queue \in [Prio -> Seq(TaskID)]
    BY <1>4, <1>8 DEF queue
  <2>3. r.bitmap \in SUBSET Prio
    BY <1>1, <1>8 DEF KernelType
  <2> QED BY <1>1, <1>7, <1>8, <2>1, <2>2, <2>3 DEF KernelType
<1>10. \A u \in TaskID :
        r.status[u] = IF u = t THEN kk.status[t] \ {"READY"} ELSE kk.status[u]
  BY <1>1, <1>8 DEF KernelType
<1>11. ReadyQueueExact(r)
  <2>1. ASSUME NEW u \in TaskID, NEW q \in Prio
        PROVE  IsOn(r.queue[q], u) <=> "READY" \in r.status[u] /\ r.prio[u] = q
    BY <1>1, <1>2, <1>4, <1>8, <1>10 DEF ReadyQueueExact
  <2>2. ASSUME NEW q \in Prio PROVE q \in r.bitmap <=> r.queue[q] # <<>>
    <3>1. IsOn(kk.queue[p], t)
      BY <1>1, <1>2 DEF ReadyQueueExact
    <3>2. kk.queue[p] # <<>>
      BY <3>1, EmptyList
    <3>3. p \in kk.bitmap
      BY <1>1, <1>2, <3>2 DEF ReadyQueueExact
    <3> QED BY <1>1, <1>2, <1>4, <1>8, <3>3 DEF ReadyQueueExact
  <2> QED BY <1>4, <1>8, <2>1, <2>2 DEF ReadyQueueExact
<1>12. OneList(r)
  <2>1. \A u \in TaskID :
          /\ r.status[u] \cap Waiting = kk.status[u] \cap Waiting
          /\ r.status[u] \cap Blocked = kk.status[u] \cap Blocked
          /\ "UNUSED" \in r.status[u] <=> "UNUSED" \in kk.status[u]
          /\ u # t => r.status[u] = kk.status[u]
    BY <1>10 DEF Waiting, Blocked
  <2>2. "UNUSED" \notin r.status[t]
    BY <1>1, <1>10 DEF OneList
  <2> QED BY <1>1, <1>8, <1>10, <2>1, <2>2 DEF OneList, SameRest, Waiting, Blocked
<1> QED BY <1>8, <1>9, <1>11, <1>12 DEF KernelOK

\* A new priority moves a ready task to the queue of that priority.
LEMMA PriModifyOK ==
  ASSUME NEW kk, KernelOK(kk), NEW t \in TaskID, NEW p \in Prio,
         NEW r, r = osTaskPriModify(kk, t, p)
  PROVE  /\ KernelOK(r) /\ SameRest(kk, r)
         /\ r.status = kk.status /\ r.pend = kk.pend
         /\ r.prio = [kk.prio EXCEPT ![t] = p]
<1>1. CASE "READY" \notin kk.status[t]
  <2>1. r = SetPrio(kk, t, p)
    BY <1>1 DEF osTaskPriModify
  <2> QED BY <1>1, <2>1, PrioOK
<1>2. CASE "READY" \in kk.status[t]
  <2> DEFINE off == MakeUnready(kk, t)
             moved == SetPrio(off, t, p)
  <2>1. kk.status \in [TaskID -> SUBSET Flag] /\ OneList(kk)
    BY DEF KernelOK, KernelType
  <2>2. /\ KernelOK(off) /\ SameRest(kk, off)
        /\ off.status = [kk.status EXCEPT ![t] = @ \ {"READY"}]
        /\ off.prio = kk.prio /\ off.pend = kk.pend
    BY <1>2, MakeUnreadyOK
  <2> HIDE DEF off
  <2>3. /\ KernelOK(moved) /\ SameRest(off, moved)
        /\ moved.status = off.status /\ moved.pend = off.pend
        /\ moved.prio = [off.prio EXCEPT ![t] = p]
    <3>1. "READY" \notin off.status[t]
      BY <2>1, <2>2
    <3>2. KernelOK(off)
      BY <2>2
    <3> QED BY <3>1, <3>2, PrioOK
  <2>4. r = MakeReady(moved, t)
    BY <1>2 DEF osTaskPriModify, off
  <2> HIDE DEF moved
  <2>5. moved.status[t] \cap ({"READY", "UNUSED"} \cup Blocked) = {}
    <3>1. moved.status[t] = kk.status[t] \ {"READY"}
      BY <2>1, <2>2, <2>3
    <3> QED BY <1>2, <2>1, <3>1 DEF OneList, Blocked, Waiting
  <2>6. /\ KernelOK(r) /\ SameRest(moved, r)
        /\ r.status = [moved.status EXCEPT ![t] = @ \cup {"READY"}]
        /\ r.prio = moved.prio /\ r.pend = moved.pend
    BY <2>3, <2>4, <2>5, MakeReadyOK
  <2>7. r.status = kk.status
    BY <1>2, <2>1, <2>2, <2>3, <2>6
  <2> QED BY <2>2, <2>3, <2>6, <2>7 DEF SameRest
<1> QED BY <1>1, <1>2

\* Dequeued and put at the tail of its queue again, a task stays ready.
LEMMA ToTailOK ==
  ASSUME NEW kk, KernelOK(kk), NEW t \in TaskID, "READY" \in kk.status[t],
         NEW r, r = osPriqueueEnqueue(ListDelete(kk, t), t)
  PROVE  /\ KernelOK(r) /\ SameRest(kk, r)
         /\ r.status = kk.status /\ r.prio = kk.prio /\ r.pend = kk.pend
<1> DEFINE p == kk.prio[t]
           queue == [q \in Prio |-> Without(kk.queue[q], t)]
<1>1. kk \in KernelType /\ ReadyQueueExact(kk) /\ OneList(kk)
  BY DEF KernelOK
<1>2. p \in Prio /\ kk.status[t] \cap Waiting = {}
  BY <1>1 DEF KernelType, OneList, Waiting, Blocked
<1>3. \A q \in Prio : kk.queue[q] \in Seq(TaskID) /\ IsInjective(kk.queue[q])
  BY <1>1 DEF KernelType, ReadyQueueExact
<1>4. \A q \in Prio :
        /\ queue[q] \in Seq(TaskID) /\ IsInjective(queue[q])
        /\ \A u : IsOn(queue[q], u) <=> IsOn(kk.queue[q], u) /\ u # t
        /\ q # p => queue[q] = kk.queue[q]
  BY <1>1, <1>2, <1>3, WithoutList DEF ReadyQueueExact
<1>5. [o \in PendObj |-> Without(kk.pend[o], t)] = kk.pend
  <2>1. ASSUME NEW o \in PendObj PROVE Without(kk.pend[o], t) = kk.pend[o]
    <3>1. ~IsOn(kk.pend[o], t) /\ kk.pend[o] \in Seq(TaskID) /\ IsInjective(kk.pend[o])
      BY <1>1, <1>2 DEF OneList, KernelType
    <3> QED BY <3>1, WithoutList
  <2> QED BY <1>1, <2>1 DEF KernelType
<1>6. PendNodeLinked(kk, t) /\ p \in kk.bitmap
  <2>1. IsOn(kk.queue[p], t)
    BY <1>1, <1>2 DEF ReadyQueueExact
  <2>2. kk.queue[p] # <<>>
    BY <2>1, EmptyList
  <2> QED BY <1>1, <1>2, <2>1, <2>2 DEF PendNodeLinked, ReadyQueueExact
<1>7. queue \in [Prio -> Seq(TaskID)]
  BY <1>4
<1>8. /\ r = [kk EXCEPT !.queue = [queue EXCEPT ![p] = Append(@, t)]]
  <2>1. ListDelete(kk, t) = [kk EXCEPT !.queue = queue]
    BY <1>1, <1>5, <1>6 DEF ListDelete, KernelType
  <2>2. kk.bitmap \cup {p} = kk.bitmap
    BY <1>6
  <2> HIDE DEF queue
  <2> QED BY <1>1, <1>2, <1>7, <2>1, <2>2 DEF osPriqueueEnqueue, KernelType
<1> HIDE DEF queue
<1>9. /\ r.queue = [queue EXCEPT ![p] = Append(@, t)]
      /\ r.bitmap = kk.bitmap /\ r.status = kk.status
      /\ r.prio = kk.prio /\ r.pend = kk.pend /\ SameRest(kk, r)
  BY <1>1, <1>8 DEF KernelType, SameRest
<1>10. r \in KernelType
  <2>1. r.queue \in [Prio -> Seq(TaskID)]
    BY <1>2, <1>7, <1>9, AppendList
  <2> QED BY <1>1, <1>8, <1>9, <2>1 DEF KernelType
<1>11. \A q \in Prio : r.queue[q] = IF q = p THEN Append(queue[p], t) ELSE queue[q]
  BY <1>2, <1>7, <1>9
<1>12. ReadyQueueExact(r)
  <2>1. ASSUME NEW u \in TaskID, NEW q \in Prio
        PROVE  IsOn(r.queue[q], u) <=> "READY" \in r.status[u] /\ r.prio[u] = q
    <3>1. IsOn(r.queue[q], u) <=> IsOn(queue[q], u) \/ (q = p /\ u = t)
      BY <1>2, <1>4, <1>11, AppendList
    <3> QED BY <1>1, <1>2, <1>4, <1>9, <3>1 DEF ReadyQueueExact
  <2>2. ASSUME NEW q \in Prio PROVE IsInjective(r.queue[q])
    BY <1>2, <1>4, <1>11, AppendList
  <2>3. ASSUME NEW q \in Prio PROVE q \in r.bitmap <=> r.queue[q] # <<>>
    <3>1. CASE q = p
      <4> DEFINE before == queue[p]
      <4>1. before \in Seq(TaskID) /\ r.queue[q] = Append(before, t)
        BY <1>2, <1>4, <1>11, <3>1
      <4> HIDE DEF before
      <4>2. r.queue[q] # <<>>
        BY <4>1, AppendList
      <4> QED BY <1>6, <1>9, <3>1, <4>2
    <3>2. CASE q # p
      BY <1>1, <1>4, <1>9, <1>11, <3>2 DEF ReadyQueueExact
    <3> QED BY <3>1, <3>2
  <2> QED BY <2>1, <2>2, <2>3 DEF ReadyQueueExact
<1>13. OneList(r)
  BY <1>1, <1>9 DEF OneList, SameRest
<1> QED BY <1>9, <1>10, <1>12, <1>13 DEF KernelOK

\* LOS_ListDelete takes a waiting task off its wait list.
LEMMA UnpendOK ==
  ASSUME NEW kk, KernelOK(kk), NEW t \in TaskID, NEW off \in SUBSET Waiting,
         kk.status[t] \cap Waiting # {}, kk.status[t] \cap Waiting \subseteq off,
         NEW r, r = SetFlags(ListDelete(kk, t), t, off, {})
  PROVE  /\ KernelOK(r) /\ SameRest(kk, r)
         /\ r.status = [kk.status EXCEPT ![t] = @ \ off]
         /\ r.prio = kk.prio
         /\ \A o \in PendObj : \A u : IsOn(r.pend[o], u) <=> IsOn(kk.pend[o], u) /\ u # t
<1> DEFINE pend == [o \in PendObj |-> Without(kk.pend[o], t)]
<1>1. kk \in KernelType /\ ReadyQueueExact(kk) /\ OneList(kk)
  BY DEF KernelOK
<1>2. "READY" \notin kk.status[t] /\ "UNUSED" \notin kk.status[t]
  BY <1>1 DEF OneList, Waiting, Blocked
<1>3. \A o \in PendObj : kk.pend[o] \in Seq(TaskID) /\ IsInjective(kk.pend[o])
  BY <1>1 DEF KernelType, OneList
<1>4. \A o \in PendObj :
        /\ pend[o] \in Seq(TaskID) /\ IsInjective(pend[o])
        /\ \A u : IsOn(pend[o], u) <=> IsOn(kk.pend[o], u) /\ u # t
  BY <1>3, WithoutList
<1>5. [q \in Prio |-> Without(kk.queue[q], t)] = kk.queue
  <2>1. ASSUME NEW q \in Prio PROVE Without(kk.queue[q], t) = kk.queue[q]
    <3>1. /\ ~IsOn(kk.queue[q], t) /\ kk.queue[q] \in Seq(TaskID)
          /\ IsInjective(kk.queue[q])
      BY <1>1, <1>2 DEF ReadyQueueExact, KernelType
    <3> QED BY <3>1, WithoutList
  <2> QED BY <1>1, <2>1 DEF KernelType
<1>6. PendNodeLinked(kk, t)
  BY <1>1 DEF PendNodeLinked, OneList
<1>7. r = [kk EXCEPT !.status = [kk.status EXCEPT ![t] = @ \ off], !.pend = pend]
  BY <1>1, <1>5, <1>6 DEF SetFlags, ListDelete, KernelType
<1> HIDE DEF pend
<1>8. /\ r.status = [kk.status EXCEPT ![t] = @ \ off] /\ r.pend = pend
      /\ r.queue = kk.queue /\ r.bitmap = kk.bitmap
      /\ r.prio = kk.prio /\ SameRest(kk, r)
  BY <1>1, <1>7 DEF KernelType, SameRest
<1>9. r \in KernelType
  <2>1. r.status \in [TaskID -> SUBSET Flag]
    BY <1>1, <1>8 DEF KernelType
  <2>2. r.pend \in [PendObj -> Seq(TaskID)]
    BY <1>4, <1>8 DEF pend
  <2> QED BY <1>1, <1>7, <1>8, <2>1, <2>2 DEF KernelType
<1>10. \A u \in TaskID : r.status[u] = IF u = t THEN kk.status[t] \ off ELSE kk.status[u]
  BY <1>1, <1>8 DEF KernelType
<1>11. ReadyQueueExact(r)
  BY <1>1, <1>2, <1>8, <1>10 DEF ReadyQueueExact
<1>12. OneList(r)
  <2>1. ASSUME NEW u \in TaskID
        PROVE  (\E o \in PendObj : IsOn(r.pend[o], u)) <=> r.status[u] \cap Waiting # {}
    <3>1. CASE u = t
      BY <1>4, <1>8, <1>10, <3>1
    <3>2. CASE u # t
      BY <1>1, <1>4, <1>8, <1>10, <3>2 DEF OneList
    <3> QED BY <3>1, <3>2
  <2>2. ASSUME NEW u \in TaskID
        PROVE  /\ IsOn(r.free, u) \/ IsOn(r.recycle, u) <=> "UNUSED" \in r.status[u]
               /\ ~(IsOn(r.free, u) /\ IsOn(r.recycle, u))
               /\ "UNUSED" \in r.status[u] => r.status[u] = {"UNUSED"}
               /\ "READY" \in r.status[u] => r.status[u] \cap Blocked = {}
               /\ \A a, b \in {"DELAY"} \cup Waiting : {a, b} \subseteq r.status[u] => a = b
    BY <1>1, <1>2, <1>8, <1>10 DEF OneList, SameRest
  <2>3. ASSUME NEW u \in TaskID, NEW o \in PendObj, NEW q \in PendObj,
               IsOn(r.pend[o], u), IsOn(r.pend[q], u)
        PROVE  o = q
    BY <1>1, <1>4, <1>8, <2>3 DEF OneList
  <2>4. /\ \A o \in PendObj : IsInjective(r.pend[o])
        /\ IsInjective(r.free) /\ IsInjective(r.recycle)
    BY <1>1, <1>4, <1>8 DEF OneList, SameRest
  <2> QED BY <2>1, <2>2, <2>3, <2>4 DEF OneList
<1> QED BY <1>4, <1>8, <1>9, <1>11, <1>12 DEF KernelOK

\* osPriqueueTop finds a ready task than which no ready task is more urgent.
LEMMA TopOK ==
  ASSUME NEW kk, KernelOK(kk), NEW t \in TaskID, "READY" \in kk.status[t],
         NEW top, top = osPriqueueTop(kk)
  PROVE  /\ top \in TaskID /\ "READY" \in kk.status[top]
         /\ \A u \in TaskID : "READY" \in kk.status[u] => kk.prio[top] <= kk.prio[u]
<1> DEFINE best == Min(kk.bitmap)
<1>1. kk \in KernelType /\ ReadyQueueExact(kk)
  BY DEF KernelOK
<1>2. \A u \in TaskID : "READY" \in kk.status[u] => kk.prio[u] \in kk.bitmap
  <2> SUFFICES ASSUME NEW u \in TaskID, "READY" \in kk.status[u]
               PROVE  kk.prio[u] \in kk.bitmap
    OBVIOUS
  <2>1. kk.prio[u] \in Prio
    BY <1>1 DEF KernelType
  <2>2. IsOn(kk.queue[kk.prio[u]], u)
    BY <1>1, <2>1 DEF ReadyQueueExact
  <2>3. kk.queue[kk.prio[u]] # <<>>
    BY <2>2, EmptyList
  <2> QED BY <1>1, <2>1, <2>3 DEF ReadyQueueExact
<1>3. kk.bitmap \in SUBSET Nat /\ kk.bitmap \subseteq Prio /\ kk.bitmap # {}
  BY <1>1, <1>2 DEF KernelType, Prio
<1>4. best \in kk.bitmap /\ \A p \in kk.bitmap : best <= p
  BY <1>3, MinNat
<1>5. top = Head(kk.queue[best])
  BY DEF osPriqueueTop
<1> HIDE DEF best
<1>6. best \in Prio /\ kk.queue[best] \in Seq(TaskID) /\ kk.queue[best] # <<>>
  BY <1>1, <1>3, <1>4 DEF KernelType, ReadyQueueExact
<1>7. top \in TaskID /\ IsOn(kk.queue[best], top)
  BY <1>5, <1>6, HeadIsOn
<1>8. "READY" \in kk.status[top] /\ kk.prio[top] = best
  BY <1>1, <1>6, <1>7 DEF ReadyQueueExact
<1> QED BY <1>2, <1>4, <1>7, <1>8

\* The timer list and the tick counts are no business of the other lists.
LEMMA TimersApart ==
  ASSUME NEW kk, KernelOK(kk), NEW r \in KernelType,
         r.status = kk.status, r.prio = kk.prio, r.queue = kk.queue,
         r.bitmap = kk.bitmap, r.pend = kk.pend,
         r.free = kk.free, r.recycle = kk.recycle
  PROVE  KernelOK(r)
BY DEF KernelOK, ReadyQueueExact, OneList

\* osTaskAdd2TimerList arms the timer of one task.
LEMMA ArmOK ==
  ASSUME NEW kk, KernelOK(kk), NEW t \in TaskID, NEW n \in Nat,
         NEW r, r = osTaskAdd2TimerList(kk, t, n)
  PROVE  /\ KernelOK(r) /\ r.status = kk.status /\ r.prio = kk.prio
         /\ r.fault = kk.fault /\ r.pend = kk.pend
         /\ r.timer = Append(kk.timer, t) /\ r.ticks = [kk.ticks EXCEPT ![t] = n]
<1>1. kk \in KernelType
  BY DEF KernelOK
<1>2. Append(kk.timer, t) \in Seq(TaskID)
  BY <1>1, AppendList DEF KernelType
<1>3. r \in KernelType
  BY <1>1, <1>2 DEF KernelType, osTaskAdd2TimerList
<1>4. /\ r.status = kk.status /\ r.prio = kk.prio /\ r.queue = kk.queue
      /\ r.bitmap = kk.bitmap /\ r.pend = kk.pend /\ r.fault = kk.fault
      /\ r.free = kk.free /\ r.recycle = kk.recycle
      /\ r.timer = Append(kk.timer, t) /\ r.ticks = [kk.ticks EXCEPT ![t] = n]
  BY <1>1 DEF KernelType, osTaskAdd2TimerList
<1> QED BY <1>3, <1>4, TimersApart

\* A control block that is on no list may go to the free or the recycle list.
LEMMA FreeOK ==
  ASSUME NEW kk, KernelOK(kk), NEW t \in UserTask,
         kk.status[t] \cap ({"READY", "UNUSED"} \cup Waiting) = {},
         NEW r \in KernelType,
         r.prio = kk.prio, r.queue = kk.queue, r.bitmap = kk.bitmap, r.pend = kk.pend,
         r.status = [kk.status EXCEPT ![t] = {"UNUSED"}],
         \/ r.free = <<t>> \o kk.free /\ r.recycle = kk.recycle
         \/ r.free = kk.free /\ r.recycle = Append(kk.recycle, t)
  PROVE  KernelOK(r)
<1>1. /\ kk \in KernelType /\ ReadyQueueExact(kk) /\ OneList(kk) /\ t \in TaskID
      /\ kk.free \in Seq(UserTask) /\ kk.recycle \in Seq(UserTask)
  BY DEF KernelOK, KernelType, UserTask
<1>2. \A u \in TaskID : r.status[u] = IF u = t THEN {"UNUSED"} ELSE kk.status[u]
  BY <1>1 DEF KernelType
<1>3. "READY" \notin kk.status[t] /\ "UNUSED" \notin kk.status[t]
  OBVIOUS
<1>4. ReadyQueueExact(r)
  BY <1>1, <1>2, <1>3 DEF ReadyQueueExact
<1>5. ~IsOn(kk.free, t) /\ ~IsOn(kk.recycle, t)
  BY <1>1, <1>3 DEF OneList
<1>6. /\ IsInjective(r.free) /\ IsInjective(r.recycle)
      /\ \A u : IsOn(r.free, u) \/ IsOn(r.recycle, u) <=>
                IsOn(kk.free, u) \/ IsOn(kk.recycle, u) \/ u = t
      /\ \A u : (IsOn(r.free, u) => IsOn(kk.free, u) \/ u = t)
              /\ (IsOn(r.recycle, u) => IsOn(kk.recycle, u) \/ u = t)
      /\ ~(IsOn(r.free, t) /\ IsOn(r.recycle, t))
  <2>1. IsInjective(kk.free) /\ IsInjective(kk.recycle)
    BY <1>1 DEF OneList
  <2>2. CASE r.free = <<t>> \o kk.free /\ r.recycle = kk.recycle
    <3>1. /\ \A u : IsOn(r.free, u) <=> IsOn(kk.free, u) \/ u = t
          /\ IsInjective(r.free)
      BY <1>1, <1>5, <2>1, <2>2, PrependList
    <3> QED BY <1>5, <2>1, <2>2, <3>1
  <2>3. CASE r.free = kk.free /\ r.recycle = Append(kk.recycle, t)
    <3>1. /\ \A u : IsOn(r.recycle, u) <=> IsOn(kk.recycle, u) \/ u = t
          /\ IsInjective(r.recycle)
      BY <1>1, <1>5, <2>1, <2>3, AppendList
    <3> QED BY <1>5, <2>1, <2>3, <3>1
  <2> QED BY <2>2, <2>3
<1>7. OneList(r)
  <2>1. ASSUME NEW u \in TaskID
        PROVE  /\ (\E o \in PendObj : IsOn(r.pend[o], u)) <=> r.status[u] \cap Waiting # {}
               /\ IsOn(r.free, u) \/ IsOn(r.recycle, u) <=> "UNUSED" \in r.status[u]
               /\ ~(IsOn(r.free, u) /\ IsOn(r.recycle, u))
               /\ "UNUSED" \in r.status[u] => r.status[u] = {"UNUSED"}
               /\ "READY" \in r.status[u] => r.status[u] \cap Blocked = {}
               /\ \A a, b \in {"DELAY"} \cup Waiting : {a, b} \subseteq r.status[u] => a = b
               /\ \A o, q \in PendObj : IsOn(r.pend[o], u) /\ IsOn(r.pend[q], u) => o = q
    <3>1. CASE u = t
      <4>1. ~(\E o \in PendObj : IsOn(kk.pend[o], t))
        BY <1>1 DEF OneList
      <4>2. r.status[u] = {"UNUSED"} /\ r.status[u] \cap Waiting = {}
        BY <1>2, <3>1 DEF Waiting
      <4> QED BY <1>6, <3>1, <4>1, <4>2 DEF Waiting
    <3>2. CASE u # t
      <4>1. r.status[u] = kk.status[u]
        BY <1>2, <3>2
      <4> QED BY <1>1, <1>6, <3>2, <4>1 DEF OneList
    <3> QED BY <3>1, <3>2
  <2>2. \A o \in PendObj : IsInjective(r.pend[o])
    BY <1>1 DEF OneList
  <2> QED BY <1>6, <2>1, <2>2 DEF OneList
<1> QED BY <1>4, <1>7 DEF KernelOK

-----------------------------------------------------------------------------
(* The services the IPC modules are built from                             *)

\* osTaskWait marks a task as waiting and puts it at the tail of a wait list.
PendAt(kk, t, o, flag) == [SetFlags(kk, t, {}, {flag}) EXCEPT !.pend[o] = Append(@, t)]

\* A task that is neither ready nor waiting may go to the tail of a wait list.
LEMMA PendOK ==
  ASSUME NEW kk, KernelOK(kk), NEW t \in TaskID, NEW o \in PendObj, NEW flag \in Waiting,
         kk.status[t] \cap ({"READY", "UNUSED", "DELAY"} \cup Waiting) = {},
         NEW r, r = PendAt(kk, t, o, flag)
  PROVE  /\ KernelOK(r) /\ SameRest(kk, r) /\ r.prio = kk.prio
         /\ r.status = [kk.status EXCEPT ![t] = @ \cup {flag}]
         /\ \A q \in PendObj : \A u : IsOn(r.pend[q], u) <=> IsOn(kk.pend[q], u) \/ (q = o /\ u = t)
<1> DEFINE new == kk.status[t] \cup {flag}
           long == Append(kk.pend[o], t)
<1>1. kk \in KernelType /\ ReadyQueueExact(kk) /\ OneList(kk)
  BY DEF KernelOK
<1>2. /\ kk.status \in [TaskID -> SUBSET Flag] /\ kk.status[t] \in SUBSET Flag
      /\ flag \in Flag /\ flag \in {"PEND", "PEND_QUEUE"}
      /\ kk.pend \in [PendObj -> Seq(TaskID)]
      /\ \A q \in PendObj : kk.pend[q] \in Seq(TaskID) /\ IsInjective(kk.pend[q])
  BY <1>1 DEF KernelType, OneList, Waiting, Flag
<1>3. \A q \in PendObj : ~IsOn(kk.pend[q], t)
  BY <1>1 DEF OneList
<1>4. /\ new \in SUBSET Flag /\ "READY" \notin new /\ "UNUSED" \notin new
      /\ new \cap ({"DELAY"} \cup Waiting) = {flag}
      /\ new \cap Waiting # {}
  BY <1>2 DEF Waiting
<1>5. /\ long \in Seq(TaskID) /\ IsInjective(long)
      /\ \A u : IsOn(long, u) <=> IsOn(kk.pend[o], u) \/ u = t
  BY <1>2, <1>3, AppendList
<1>6. r = [kk EXCEPT !.status = [kk.status EXCEPT ![t] = new],
                     !.pend = [kk.pend EXCEPT ![o] = long]]
  BY <1>1 DEF SetFlags, KernelType, PendAt
<1>7. r.status = [kk.status EXCEPT ![t] = @ \cup {flag}]
  BY <1>1, <1>6 DEF KernelType
<1> HIDE DEF new, long
<1>8. /\ r.status = [kk.status EXCEPT ![t] = new] /\ r.pend = [kk.pend EXCEPT ![o] = long]
      /\ r.queue = kk.queue /\ r.bitmap = kk.bitmap /\ r.prio = kk.prio /\ SameRest(kk, r)
  BY <1>1, <1>6 DEF KernelType, SameRest
<1>9. \A q \in PendObj : r.pend[q] = IF q = o THEN long ELSE kk.pend[q]
  BY <1>2, <1>8
<1>10. \A q \in PendObj :
        /\ r.pend[q] \in Seq(TaskID) /\ IsInjective(r.pend[q])
        /\ \A u : IsOn(r.pend[q], u) <=> IsOn(kk.pend[q], u) \/ (q = o /\ u = t)
  BY <1>2, <1>5, <1>9
<1>11. \A u \in TaskID : r.status[u] = IF u = t THEN new ELSE kk.status[u]
  BY <1>2, <1>8
<1>12. r \in KernelType
  <2>1. r.status \in [TaskID -> SUBSET Flag]
    BY <1>2, <1>4, <1>8
  <2>2. r.pend \in [PendObj -> Seq(TaskID)]
    BY <1>2, <1>5, <1>8
  <2> QED BY <1>1, <1>6, <1>8, <2>1, <2>2 DEF KernelType
<1>13. ReadyQueueExact(r)
  BY <1>1, <1>4, <1>8, <1>11 DEF ReadyQueueExact
<1>14. OneList(r)
  <2>1. ASSUME NEW u \in TaskID
        PROVE  /\ (\E q \in PendObj : IsOn(r.pend[q], u)) <=> r.status[u] \cap Waiting # {}
               /\ \A a, b \in {"DELAY"} \cup Waiting : {a, b} \subseteq r.status[u] => a = b
               /\ \A p, q \in PendObj : IsOn(r.pend[p], u) /\ IsOn(r.pend[q], u) => p = q
    <3>1. CASE u = t
      <4>1. \A a \in {"DELAY"} \cup Waiting : a \in r.status[u] => a = flag
        BY <1>4, <1>11, <3>1
      <4>2. r.status[u] \cap Waiting # {} /\ IsOn(r.pend[o], u)
        BY <1>4, <1>10, <1>11, <3>1
      <4>3. \A q \in PendObj : IsOn(r.pend[q], u) => q = o
        BY <1>3, <1>10, <3>1
      <4> QED BY <4>1, <4>2, <4>3
    <3>2. CASE u # t
      <4>1. r.status[u] = kk.status[u] /\ \A q \in PendObj : IsOn(r.pend[q], u) <=> IsOn(kk.pend[q], u)
        BY <1>10, <1>11, <3>2
      <4> QED BY <1>1, <4>1 DEF OneList
    <3> QED BY <3>1, <3>2
  <2>2. ASSUME NEW u \in TaskID
        PROVE  /\ IsOn(r.free, u) \/ IsOn(r.recycle, u) <=> "UNUSED" \in r.status[u]
               /\ ~(IsOn(r.free, u) /\ IsOn(r.recycle, u))
               /\ "UNUSED" \in r.status[u] => r.status[u] = {"UNUSED"}
               /\ "READY" \in r.status[u] => r.status[u] \cap Blocked = {}
    <3>1. "UNUSED" \notin kk.status[t]
      OBVIOUS
    <3> QED BY <1>1, <1>4, <1>8, <1>11, <3>1 DEF OneList, SameRest
  <2>3. /\ \A q \in PendObj : IsInjective(r.pend[q])
        /\ IsInjective(r.free) /\ IsInjective(r.recycle)
    BY <1>1, <1>8, <1>10 DEF OneList, SameRest
  <2> QED BY <2>1, <2>2, <2>3 DEF OneList
<1> QED BY <1>7, <1>8, <1>10, <1>12, <1>13, <1>14 DEF KernelOK

\* The flag that says a wait has a timeout is no business of the lists.
LEMMA TimeoutFlagOK ==
  ASSUME NEW kk, KernelOK(kk), NEW t \in TaskID,
         kk.status[t] \cap {"READY", "UNUSED", "DELAY"} = {},
         NEW r, r = SetFlags(kk, t, {}, {"TIMEOUT"})
  PROVE  /\ KernelOK(r) /\ SameRest(kk, r) /\ r.prio = kk.prio /\ r.pend = kk.pend
         /\ r.status = [kk.status EXCEPT ![t] = @ \cup {"TIMEOUT"}]
<1> DEFINE new == kk.status[t] \cup {"TIMEOUT"}
<1>1. /\ new = (kk.status[t] \ {}) \cup {"TIMEOUT"} /\ {"TIMEOUT"} \in SUBSET Flag
      /\ "UNUSED" \notin kk.status[t] /\ "UNUSED" \notin new
      /\ "READY" \notin kk.status[t] /\ "READY" \notin new /\ "DELAY" \notin new
      /\ new \cap Waiting = kk.status[t] \cap Waiting
  BY DEF Flag, Waiting
<1>2. r.status = [kk.status EXCEPT ![t] = new] => r.status = [kk.status EXCEPT ![t] = @ \cup {"TIMEOUT"}]
  OBVIOUS
<1> HIDE DEF new
<1>3. /\ KernelOK(r) /\ SameRest(kk, r) /\ r.prio = kk.prio /\ r.pend = kk.pend
      /\ r.status = [kk.status EXCEPT ![t] = new]
  BY <1>1, StatusOK
<1> QED BY <1>2, <1>3

\* The same when the flag is cleared.
LEMMA TimeoutClearOK ==
  ASSUME NEW kk, KernelOK(kk), NEW t \in TaskID, "UNUSED" \notin kk.status[t],
         NEW r, r = SetFlags(kk, t, {"TIMEOUT"}, {})
  PROVE  /\ KernelOK(r) /\ SameRest(kk, r) /\ r.prio = kk.prio /\ r.pend = kk.pend
         /\ r.status = [kk.status EXCEPT ![t] = @ \ {"TIMEOUT"}]
<1> DEFINE new == kk.status[t] \ {"TIMEOUT"}
<1>1. OneList(kk)
  BY DEF KernelOK
<1>2. /\ new = (kk.status[t] \ {"TIMEOUT"}) \cup {} /\ {} \in SUBSET Flag
      /\ "UNUSED" \notin new /\ ("READY" \in new <=> "READY" \in kk.status[t])
      /\ new \cap Waiting = kk.status[t] \cap Waiting
      /\ "READY" \in new => new \cap Blocked = {}
      /\ "DELAY" \in new => new \cap Waiting = {}
  BY <1>1 DEF OneList, Waiting, Blocked
<1>3. r.status = [kk.status EXCEPT ![t] = new] => r.status = [kk.status EXCEPT ![t] = @ \ {"TIMEOUT"}]
  OBVIOUS
<1> HIDE DEF new
<1>4. /\ KernelOK(r) /\ SameRest(kk, r) /\ r.prio = kk.prio /\ r.pend = kk.pend
      /\ r.status = [kk.status EXCEPT ![t] = new]
  BY <1>2, StatusOK
<1> QED BY <1>3, <1>4

\* The unlinking of UnpendOK, with the one flag that says what is waited for.
LEMMA UnpendOneOK ==
  ASSUME NEW kk, KernelOK(kk), NEW t \in TaskID, NEW flag \in Waiting,
         kk.status[t] \cap Waiting = {flag},
         NEW r, r = SetFlags(ListDelete(kk, t), t, {flag}, {})
  PROVE  /\ KernelOK(r) /\ SameRest(kk, r) /\ r.prio = kk.prio
         /\ r.status = [kk.status EXCEPT ![t] = @ \ {flag}]
         /\ \A q \in PendObj : \A u : IsOn(r.pend[q], u) <=> IsOn(kk.pend[q], u) /\ u # t
<1>1. /\ {flag} \in SUBSET Waiting /\ kk.status[t] \cap Waiting # {}
      /\ kk.status[t] \cap Waiting \subseteq {flag}
  OBVIOUS
<1> QED BY <1>1, UnpendOK

\* r is what osTaskWait leaves of kk: the ready task t has left its queue for
\* the wait list o, and its timer is armed unless it waits for ever.
AfterWait(kk, r, t, o, flag, n) ==
  /\ KernelOK(r) /\ r.prio = kk.prio /\ r.fault = kk.fault
  /\ \A u \in TaskID : u # t => r.status[u] = kk.status[u]
  /\ r.status[t] = (kk.status[t] \ {"READY"}) \cup {flag}
                     \cup (IF n = WAIT_FOREVER THEN {} ELSE {"TIMEOUT"})
  /\ \A q \in PendObj : \A u : IsOn(r.pend[q], u) <=> IsOn(kk.pend[q], u) \/ (q = o /\ u = t)
  /\ IF n = WAIT_FOREVER THEN r.timer = kk.timer /\ r.ticks = kk.ticks
     ELSE r.timer = Append(kk.timer, t) /\ r.ticks = [kk.ticks EXCEPT ![t] = n]

\* A ready task may wait.
LEMMA WaitOK ==
  ASSUME NEW kk, KernelOK(kk), NEW t \in TaskID, "READY" \in kk.status[t],
         NEW o \in PendObj, NEW flag \in Waiting, NEW n \in Nat \cup {WAIT_FOREVER},
         NEW r, r = osTaskWait(kk, t, o, flag, n)
  PROVE  AfterWait(kk, r, t, o, flag, n)
<1> DEFINE off == MakeUnready(kk, t)
           waiting == PendAt(off, t, o, flag)
           timed == SetFlags(waiting, t, {}, {"TIMEOUT"})
<1>1. kk.status \in [TaskID -> SUBSET Flag] /\ OneList(kk)
  BY DEF KernelOK, KernelType
<1>2. /\ KernelOK(off) /\ SameRest(kk, off) /\ off.prio = kk.prio /\ off.pend = kk.pend
      /\ off.status = [kk.status EXCEPT ![t] = @ \ {"READY"}]
  BY MakeUnreadyOK
<1>3. r = IF n = WAIT_FOREVER THEN waiting ELSE osTaskAdd2TimerList(timed, t, n)
  BY DEF osTaskWait, PendAt
<1> HIDE DEF off
<1>4. off.status[t] \cap ({"READY", "UNUSED", "DELAY"} \cup Waiting) = {}
  BY <1>1, <1>2 DEF OneList, Blocked, Waiting
<1>5. /\ KernelOK(waiting) /\ SameRest(off, waiting) /\ waiting.prio = off.prio
      /\ waiting.status = [off.status EXCEPT ![t] = @ \cup {flag}]
      /\ \A q \in PendObj : \A u : IsOn(waiting.pend[q], u) <=> IsOn(off.pend[q], u) \/ (q = o /\ u = t)
  <2>1. waiting = PendAt(off, t, o, flag)
    OBVIOUS
  <2> HIDE DEF waiting
  <2> QED BY <1>2, <1>4, <2>1, PendOK
<1> HIDE DEF waiting
<1>6. /\ waiting.status[t] = (kk.status[t] \ {"READY"}) \cup {flag}
      /\ \A u \in TaskID : u # t => waiting.status[u] = kk.status[u]
  <2>1. off.status \in [TaskID -> SUBSET Flag]
    BY <1>2 DEF KernelOK, KernelType
  <2> QED BY <1>1, <1>2, <1>5, <2>1
<1>7. CASE n = WAIT_FOREVER
  <2>1. r = waiting
    BY <1>3, <1>7
  <2> QED BY <1>2, <1>5, <1>6, <1>7, <2>1 DEF SameRest, AfterWait
<1>8. CASE n # WAIT_FOREVER
  <2>1. r = osTaskAdd2TimerList(timed, t, n) /\ n \in Nat
    BY <1>3, <1>8
  <2>2. /\ KernelOK(timed) /\ SameRest(waiting, timed) /\ timed.prio = waiting.prio
        /\ timed.pend = waiting.pend
        /\ timed.status = [waiting.status EXCEPT ![t] = @ \cup {"TIMEOUT"}]
    <3>1. waiting.status[t] \cap {"READY", "UNUSED", "DELAY"} = {}
      BY <1>1, <1>6 DEF OneList, Waiting, Blocked
    <3>2. timed = SetFlags(waiting, t, {}, {"TIMEOUT"}) /\ KernelOK(waiting)
      BY <1>5
    <3> HIDE DEF timed
    <3> QED BY <3>1, <3>2, TimeoutFlagOK
  <2> HIDE DEF timed
  <2>3. /\ KernelOK(r) /\ r.status = timed.status /\ r.prio = timed.prio
        /\ r.fault = timed.fault /\ r.pend = timed.pend
        /\ r.timer = Append(timed.timer, t) /\ r.ticks = [timed.ticks EXCEPT ![t] = n]
    BY <2>1, <2>2, ArmOK
  <2>4. waiting.status \in [TaskID -> SUBSET Flag]
    BY <1>5 DEF KernelOK, KernelType
  <2>5. /\ r.status[t] = (kk.status[t] \ {"READY"}) \cup {flag} \cup {"TIMEOUT"}
        /\ \A u \in TaskID : u # t => r.status[u] = kk.status[u]
    BY <1>6, <2>2, <2>3, <2>4
  <2> QED BY <1>2, <1>5, <1>8, <2>2, <2>3, <2>5 DEF SameRest, AfterWait
<1> QED BY <1>7, <1>8

\* r is what osTaskWake leaves of kk: the waiting task t has left its wait list
\* and the timer list, and is ready unless it is suspended.
AfterWake(kk, r, t, flag) ==
  /\ KernelOK(r) /\ r.prio = kk.prio /\ r.fault = kk.fault
  /\ \A u \in TaskID : u # t => r.status[u] = kk.status[u] /\ r.ticks[u] = kk.ticks[u]
  /\ r.status[t] = (kk.status[t] \ {flag, "TIMEOUT"})
                     \cup (IF "SUSPEND" \in kk.status[t] THEN {} ELSE {"READY"})
  /\ \A q \in PendObj : \A u : IsOn(r.pend[q], u) <=> IsOn(kk.pend[q], u) /\ u # t
  /\ IsInjective(r.timer) /\ \A u : IsOn(r.timer, u) <=> IsOn(kk.timer, u) /\ u # t

\* A waiting task may be woken.
LEMMA WakeOK ==
  ASSUME NEW kk, KernelOK(kk), NEW t \in TaskID, NEW flag \in Waiting,
         kk.status[t] \cap Waiting = {flag},
         "TIMEOUT" \in kk.status[t] <=> IsOn(kk.timer, t), IsInjective(kk.timer),
         NEW r, r = osTaskWake(kk, t, flag)
  PROVE  AfterWake(kk, r, t, flag)
<1> DEFINE unlinked == SetFlags(ListDelete(kk, t), t, {flag}, {})
           stopped == osTimerListDelete(unlinked, t)
           disarmed == IF "TIMEOUT" \in unlinked.status[t]
                       THEN SetFlags(stopped, t, {"TIMEOUT"}, {}) ELSE unlinked
<1>1. /\ kk \in KernelType /\ OneList(kk) /\ kk.status \in [TaskID -> SUBSET Flag]
      /\ "UNUSED" \notin kk.status[t] /\ "READY" \notin kk.status[t] /\ "DELAY" \notin kk.status[t]
  <2>1. kk \in KernelType /\ OneList(kk) /\ kk.status \in [TaskID -> SUBSET Flag] /\ flag \in kk.status[t]
    BY DEF KernelOK, KernelType
  <2> QED BY <2>1 DEF OneList, Waiting, Blocked
<1>2. /\ KernelOK(unlinked) /\ SameRest(kk, unlinked) /\ unlinked.prio = kk.prio
      /\ unlinked.status = [kk.status EXCEPT ![t] = @ \ {flag}]
      /\ \A q \in PendObj : \A u : IsOn(unlinked.pend[q], u) <=> IsOn(kk.pend[q], u) /\ u # t
  <2>1. unlinked = SetFlags(ListDelete(kk, t), t, {flag}, {})
    OBVIOUS
  <2>2. ASSUME NEW s, s = SetFlags(ListDelete(kk, t), t, {flag}, {})
        PROVE  /\ KernelOK(s) /\ SameRest(kk, s) /\ s.prio = kk.prio
               /\ s.status = [kk.status EXCEPT ![t] = @ \ {flag}]
               /\ \A q \in PendObj : \A u : IsOn(s.pend[q], u) <=> IsOn(kk.pend[q], u) /\ u # t
    BY <2>2, UnpendOneOK
  <2> HIDE DEF unlinked
  <2> QED BY <2>1, <2>2
<1>3. r = IF "SUSPEND" \in disarmed.status[t] THEN disarmed ELSE MakeReady(disarmed, t)
  BY DEF osTaskWake
<1> HIDE DEF unlinked
<1>4. unlinked.status[t] = kk.status[t] \ {flag} /\ unlinked.status \in [TaskID -> SUBSET Flag]
  BY <1>1, <1>2 DEF KernelOK, KernelType
<1>5. "TIMEOUT" \in unlinked.status[t] <=> IsOn(kk.timer, t)
  BY <1>4 DEF Waiting
<1>6. /\ KernelOK(disarmed) /\ disarmed.prio = kk.prio /\ disarmed.fault = kk.fault
      /\ disarmed.pend = unlinked.pend
      /\ disarmed.status[t] = kk.status[t] \ {flag, "TIMEOUT"}
      /\ \A u \in TaskID : u # t => disarmed.status[u] = kk.status[u] /\ disarmed.ticks[u] = kk.ticks[u]
      /\ IsInjective(disarmed.timer) /\ \A u : IsOn(disarmed.timer, u) <=> IsOn(kk.timer, u) /\ u # t
  <2>1. CASE "TIMEOUT" \notin unlinked.status[t]
    <3>1. disarmed = unlinked
      BY <2>1
    <3>2. unlinked.status[t] = kk.status[t] \ {flag, "TIMEOUT"}
      BY <1>4, <2>1
    <3> QED BY <1>1, <1>2, <1>5, <2>1, <3>1, <3>2 DEF SameRest
  <2>2. CASE "TIMEOUT" \in unlinked.status[t]
    <3>1. disarmed = SetFlags(stopped, t, {"TIMEOUT"}, {}) /\ IsOn(unlinked.timer, t)
      BY <1>2, <1>5, <2>2 DEF SameRest
    <3>2. stopped = [unlinked EXCEPT !.timer = Without(@, t), !.ticks[t] = 0]
      BY <3>1 DEF osTimerListDelete
    <3>3. /\ unlinked \in KernelType /\ unlinked.timer \in Seq(TaskID) /\ unlinked.timer = kk.timer
          /\ kk.ticks \in [TaskID -> Nat]
          /\ unlinked.ticks = kk.ticks /\ unlinked.fault = kk.fault
      BY <1>1, <1>2 DEF KernelOK, KernelType, SameRest
    <3>4. /\ Without(unlinked.timer, t) \in Seq(TaskID) /\ IsInjective(Without(unlinked.timer, t))
          /\ \A u : IsOn(Without(unlinked.timer, t), u) <=> IsOn(kk.timer, u) /\ u # t
      BY <3>3, WithoutList
    <3>5. stopped \in KernelType
      <4>1. [unlinked.ticks EXCEPT ![t] = 0] \in [TaskID -> Nat]
        BY <3>3
      <4> QED BY <3>2, <3>3, <3>4, <4>1 DEF KernelType
    <3>6. /\ stopped.status = unlinked.status /\ stopped.prio = unlinked.prio
          /\ stopped.queue = unlinked.queue /\ stopped.bitmap = unlinked.bitmap
          /\ stopped.pend = unlinked.pend /\ stopped.free = unlinked.free
          /\ stopped.recycle = unlinked.recycle /\ stopped.fault = unlinked.fault
          /\ stopped.timer = Without(unlinked.timer, t)
          /\ stopped.ticks = [unlinked.ticks EXCEPT ![t] = 0]
      BY <3>2, <3>3 DEF KernelType
    <3> HIDE DEF stopped
    <3>7. KernelOK(stopped)
      BY <1>2, <3>5, <3>6, TimersApart
    <3>8. "UNUSED" \notin stopped.status[t]
      BY <1>1, <1>4, <3>6
    <3> HIDE DEF disarmed
    <3>9. /\ KernelOK(disarmed) /\ SameRest(stopped, disarmed) /\ disarmed.prio = stopped.prio
          /\ disarmed.pend = stopped.pend
          /\ disarmed.status = [stopped.status EXCEPT ![t] = @ \ {"TIMEOUT"}]
      BY <3>1, <3>7, <3>8, TimeoutClearOK
    <3>10. /\ disarmed.status[t] = stopped.status[t] \ {"TIMEOUT"}
           /\ \A u \in TaskID : u # t => disarmed.status[u] = kk.status[u]
      BY <1>1, <1>2, <1>4, <3>6, <3>9
    <3>11. \A u \in TaskID : u # t => disarmed.ticks[u] = kk.ticks[u]
      BY <3>3, <3>6, <3>9 DEF SameRest
    <3>12. /\ KernelOK(disarmed) /\ disarmed.prio = kk.prio /\ disarmed.fault = kk.fault
           /\ disarmed.pend = unlinked.pend
      BY <1>2, <3>3, <3>6, <3>9 DEF SameRest
    <3>13. disarmed.timer = Without(unlinked.timer, t)
      BY <3>6, <3>9 DEF SameRest
    <3>14. disarmed.status[t] = kk.status[t] \ {flag, "TIMEOUT"}
      BY <1>4, <3>6, <3>10
    <3> QED BY <3>4, <3>10, <3>11, <3>12, <3>13, <3>14
  <2> QED BY <2>1, <2>2
<1> HIDE DEF disarmed
<1>7. CASE "SUSPEND" \in disarmed.status[t]
  <2>1. r = disarmed /\ "SUSPEND" \in kk.status[t]
    BY <1>3, <1>6, <1>7
  <2> QED BY <1>2, <1>6, <2>1 DEF AfterWake
<1>8. CASE "SUSPEND" \notin disarmed.status[t]
  <2>1. r = MakeReady(disarmed, t) /\ "SUSPEND" \notin kk.status[t]
    BY <1>3, <1>6, <1>8 DEF Waiting
  <2>2. disarmed.status[t] \cap ({"READY", "UNUSED"} \cup Blocked) = {}
    BY <1>1, <1>6, <2>1 DEF Blocked
  <2>3. /\ KernelOK(r) /\ SameRest(disarmed, r) /\ r.prio = disarmed.prio /\ r.pend = disarmed.pend
        /\ r.status = [disarmed.status EXCEPT ![t] = @ \cup {"READY"}]
    BY <1>6, <2>1, <2>2, MakeReadyOK
  <2>4. disarmed.status \in [TaskID -> SUBSET Flag]
    BY <1>6 DEF KernelOK, KernelType
  <2>5. /\ r.status[t] = (kk.status[t] \ {flag, "TIMEOUT"}) \cup {"READY"}
        /\ \A u \in TaskID : u # t => r.status[u] = kk.status[u]
    BY <1>6, <2>3, <2>4
  <2> QED BY <1>2, <1>6, <2>1, <2>3, <2>5 DEF SameRest, AfterWake
<1> QED BY <1>7, <1>8

-----------------------------------------------------------------------------
(* Conditions on the platform and the application                         *)

\* No interrupt handler makes calls while the tick interrupt is at work.
Unnested == NestedIsr = FALSE
\* No interrupt handler suspends a task.
NoIsrSuspend == "suspend" \notin IsrCalls

-----------------------------------------------------------------------------
(* The inductive invariant                                                 *)

\* The idle task is always ready, so osPriqueueTop always finds a task.
IdleReady == "READY" \in k.status[Idle]

\* The task sleeps, or waits with a time limit: it is on the timer list.
Timed(kk, t) ==
  \/ "DELAY" \in kk.status[t]
  \/ "TIMEOUT" \in kk.status[t] /\ kk.status[t] \cap Waiting # {}

\* Between the halves of a wake-up the timer list lacks the task that wakes up,
\* and the status the loop read is still the task's.
ScanOK ==
  scan.at = "expire" =>
    /\ scan.task \in TaskID /\ scan.was = k.status[scan.task]
    /\ Timed(k, scan.task)
    /\ \A t \in TaskID : IsOn(k.timer, t) <=> t # scan.task /\ Timed(k, t)
    /\ IsInjective(k.timer)

\* When the tick interrupt is not at work, every armed timer has time left.
TicksOK == scan.at = "off" => \A t \in TaskID : IsOn(k.timer, t) => k.ticks[t] > 0

\* A slice that has an owner has time left.
SliceOK == slice.task # NoTask => slice.left > 0

\* Nothing but a misuse makes the kernel follow a NULL pointer.
FaultOK == Misuse # {} \/ ~k.fault

\* A task in creation is suspended and in nobody else's hands.
MakingOK ==
  /\ making \in [Creator -> UserTask \cup {NoTask}]
  /\ Misuse = {} =>
       /\ \A c \in Creator : making[c] # NoTask => k.status[making[c]] = {"SUSPEND"}
       /\ \A c, d \in Creator : making[c] = making[d] /\ making[c] # NoTask => c = d

\* A live task is ready or something will make it ready (NoTaskLost, at every
\* step of the tick), and an unused control block is in no call.
LiveOK ==
  \A t \in TaskID :
    /\ k.status[t] \cap ({"UNUSED", "READY"} \cup Blocked) # {}
    /\ "UNUSED" \in k.status[t] => pc[t] = "app"

\* What the scheduler guarantees while priorities change: with e, whoever changes
\* one calls LOS_Schedule after it (LOS_MuxPost does not always, so a program
\* with mutexes has only the part without e).
Dispatch(e) == Running /\ (e => Settled)

\* The inductive invariant; with e, of a program in which LOS_Schedule follows
\* every change of a priority.
IInv(e) ==
  /\ TypeOK /\ ReadyQueues /\ ListNodes /\ Timers /\ Dispatch(e)
  /\ IdleReady /\ ScanOK /\ TicksOK /\ SliceOK /\ FaultOK /\ LiveOK /\ MakingOK

-----------------------------------------------------------------------------
(* What the invariant says of the contexts from which calls come           *)

\* Who may call is told apart from every task.
LEMMA ContextFacts ==
  /\ Dummy \notin TaskID /\ NoTask \notin TaskID /\ Isr \notin TaskID /\ Boot \notin TaskID
  /\ Dummy # NoTask /\ Isr # Boot
  /\ Idle \in TaskID /\ UserTask \subseteq TaskID /\ Idle \notin UserTask
  /\ TIMESLICE \in Nat \ {0} /\ MAX_LOCK \in Nat
  /\ DelayTicks \subseteq Nat \ {0} /\ LOWEST \in Prio
BY TaskAssumption, LimitAssumption DEF Context, TaskID, UserTask, Idle, Prio

\* The invariant covers the kernel record.
LEMMA InvKernel ==
  ASSUME NEW e \in BOOLEAN, IInv(e)
  PROVE  KernelOK(k) /\ k \in KernelType
BY DEF IInv, TypeOK, ReadyQueues, ListNodes, KernelOK

\* A task that executes application code is the running task and is ready.
LEMMA InAppFacts ==
  ASSUME NEW e \in BOOLEAN, IInv(e), NEW c \in UserTask, InApp(c)
  PROVE  /\ runTask = c /\ ~pendSV /\ scan.at = "off" /\ scheduled /\ pc[c] = "app"
         /\ "READY" \in k.status[c] /\ "RUNNING" \in k.status[c]
         /\ e /\ taskLock = 0 => Urgent(c)
BY ContextFacts DEF IInv, Dispatch, Running, Settled, InApp, TaskRuns, Unsettled

\* A call comes from the running task or from an interrupt handler that does
\* not preempt the tick.
LEMMA MayCallFacts ==
  ASSUME NEW e \in BOOLEAN, IInv(e), Unnested, NEW c, NEW name, MayCall(c, name)
  PROVE  /\ scan.at = "off" /\ scheduled /\ ~k.fault
         /\ \/ c \in UserTask /\ InApp(c)
            \/ c = Isr /\ name \in IsrCalls
BY DEF MayCall, IsrRuns, InApp, TaskRuns, Unnested

\* Timers depend on nothing but the flags that mean a timed wait.
LEMMA KeepTimers ==
  ASSUME NEW kk, NEW r, TimerExact(kk), r.timer = kk.timer,
         \A t \in TaskID : Timed(r, t) <=> Timed(kk, t)
  PROVE  TimerExact(r)
BY DEF TimerExact, Timed

\* Whether a task has a timer depends on four of its status flags only.
LEMMA TimedSame ==
  ASSUME NEW kk, NEW r, NEW t,
         \A f \in {"DELAY", "TIMEOUT", "PEND", "PEND_QUEUE"} :
           f \in r.status[t] <=> f \in kk.status[t]
  PROVE  Timed(r, t) <=> Timed(kk, t)
<1>1. ASSUME NEW q PROVE q.status[t] \cap Waiting # {} <=>
        "PEND" \in q.status[t] \/ "PEND_QUEUE" \in q.status[t]
  BY DEF Waiting
<1> QED BY <1>1 DEF Timed

\* What a step establishes whose LOS_Schedule sees the lists in their final state.
LEMMA NewTop ==
  ASSUME KernelOK(k'), "READY" \in k'.status[Idle], newTask' = osPriqueueTop(k')
  PROVE  newTask' \in TaskID /\ Urgent(newTask)'
<1>1. Idle \in TaskID
  BY ContextFacts
<1> QED BY <1>1, TopOK DEF Urgent

-----------------------------------------------------------------------------
(* What a step of the task manager does to a task that is in a call of an  *)
(* IPC module: nothing, unless it ends the wait or the task.               *)

\* A task in a call of an IPC module: it waits, or it is to look at the outcome.
InCall(t) == pc[t] \in {"wait", "check"}
\* The flags of a wait, and that of an unused control block.
WaitFlag == {"UNUSED", "TIMEOUT"} \cup Waiting

\* The task stays where it is in its wait.
Untouched(t) ==
  /\ \A f \in WaitFlag : f \in k'.status[t] <=> f \in k.status[t]
  /\ \A o \in PendObj : IsOn(k'.pend[o], t) <=> IsOn(k.pend[o], t)
  /\ InCall(t)' <=> InCall(t)

\* The control block becomes a task that waits for nothing.
Created(t) ==
  /\ "UNUSED" \in k.status[t] /\ k'.status[t] \cap WaitFlag = {}
  /\ pc'[t] = pc[t]

\* The task is gone, with whatever it waited for.
Deleted(t) ==
  "UNUSED" \notin k.status[t] /\ k'.status[t] = {"UNUSED"} /\ pc'[t] = "app"

\* The wait ends by its time limit.
TimedOut(t) ==
  /\ "TIMEOUT" \in k.status[t] /\ k.status[t] \cap Waiting # {}
  /\ k'.status[t] \cap WaitFlag = {"TIMEOUT"} /\ pc'[t] = pc[t]

\* One task at a time is created, deleted or timed out.
WaitersKept ==
  \E u \in TaskID :
    /\ \A t \in TaskID \ {u} : Untouched(t)
    /\ Untouched(u) \/ Created(u) \/ Deleted(u) \/ TimedOut(u)

\* The step moves only tasks that are in use, and none into or out of a wait.
PcKept ==
  \A t \in TaskID : pc'[t] # pc[t] => "UNUSED" \notin k.status[t] /\ (InCall(t)' <=> InCall(t))

\* A step that leaves the wait lists and the flags of a wait alone.
LEMMA OrdinaryOK ==
  ASSUME LiveOK, PcKept, k'.pend = k.pend,
         \A t \in TaskID, f \in WaitFlag : f \in k'.status[t] <=> f \in k.status[t],
         \A t \in TaskID : k'.status[t] \cap ({"UNUSED", "READY"} \cup Blocked) = {} =>
                           k.status[t] \cap ({"UNUSED", "READY"} \cup Blocked) = {}
  PROVE  WaitersKept /\ LiveOK'
<1>1. \A t \in TaskID : Untouched(t)
  BY DEF Untouched, PcKept, InCall
<1>2. LiveOK'
  BY DEF LiveOK, PcKept, WaitFlag
<1> QED BY <1>1, <1>2, ContextFacts DEF WaitersKept

\* A step that sets pc only for the running task, and not into a wait.
LEMMA PcKeptOK ==
  ASSUME TypeOK, NEW c \in TaskID, "UNUSED" \notin k.status[c], NEW at, pc' = [pc EXCEPT ![c] = at],
         at \in {"app", "enter", "sched"} <=> pc[c] \in {"app", "enter", "sched"}, at \in {"app", "enter", "sched", "wait", "check"}
  PROVE  PcKept
BY DEF TypeOK, PcKept, InCall

\* A task in creation stays as it is, unless its ID is misused.
SuspendedKept ==
  \A t \in TaskID :
    k.status[t] = {"SUSPEND"} /\ Made(t) /\ Misuse = {} => k'.status[t] = {"SUSPEND"}

\* A step that neither begins nor ends a creation.
LEMMA MakingKept ==
  ASSUME NEW e \in BOOLEAN, IInv(e), making' = making, SuspendedKept
  PROVE  MakingOK'
<1>1. ASSUME Misuse = {}, NEW c \in Creator, making[c] # NoTask
      PROVE  k'.status[making[c]] = {"SUSPEND"}
  <2>1. making[c] \in TaskID /\ Made(making[c]) /\ k.status[making[c]] = {"SUSPEND"}
    BY <1>1, ContextFacts DEF IInv, MakingOK, Made
  <2> QED BY <1>1, <2>1 DEF SuspendedKept
<1> QED BY <1>1 DEF IInv, MakingOK

-----------------------------------------------------------------------------
(* How a change of the lists bears on the scheduler                        *)

\* The running task stays the running one.
SameRunning == \A t \in TaskID : "RUNNING" \in k'.status[t] <=> "RUNNING" \in k.status[t]

\* A task in the midst of a call, or an interrupt handler, may call LOS_Schedule.
MaySchedule(c) ==
  \/ c \in UserTask /\ TaskRuns(c) /\ pc[c] \in {"app", "enter", "check"}
  \/ c = Isr

\* A task that is to call LOS_Schedule is on its way there, and nobody else moves.
OnItsWay(c) == \A t \in TaskID : pc'[t] = IF t = c THEN "sched" ELSE pc[t]

\* The call may make tasks ready, because it calls LOS_Schedule.
LEMMA ThenScheduleMoves ==
  ASSUME NEW e \in BOOLEAN, IInv(e), NEW c, scan.at = "off", scheduled, MaySchedule(c),
         KernelOK(k'), "READY" \in k'.status[Idle], SameRunning,
         runTask \in TaskID /\ "READY" \notin k'.status[runTask] =>
           taskLock = 0 /\ (c = runTask \/ "READY" \notin k.status[runTask]),
         Then_LOS_Schedule(c),
         UNCHANGED <<runTask, taskLock, scheduled, scan>>
  PROVE  /\ Dispatch(e)' /\ newTask' \in TaskID /\ pendSV' \in BOOLEAN
         /\ pc' \in [TaskID -> {"app", "enter", "sched", "wait", "check"}] /\ OnItsWay(c)
<1>1. Dispatch(e) /\ TypeOK /\ OneList(k)
  BY DEF IInv, ListNodes
<1>2. CASE c \in UserTask /\ TaskRuns(c) /\ pc[c] \in {"app", "enter", "check"}
  <2>1. /\ runTask = c /\ ~pendSV /\ c \in TaskID /\ c # Isr
        /\ "READY" \in k.status[c]
    BY <1>1, <1>2, ContextFacts DEF TaskRuns, Dispatch, Running
  <2>2. pc' = [pc EXCEPT ![c] = "sched"] /\ newTask' = newTask /\ pendSV' = pendSV
    BY <2>1 DEF Then_LOS_Schedule
  <2>3. pc'[c] = "sched" /\ pc' \in [TaskID -> {"app", "enter", "sched", "wait", "check"}]
    BY <1>1, <2>1, <2>2 DEF TypeOK
  <2>4. OnItsWay(c)
    BY <1>1, <2>2 DEF OnItsWay, TypeOK
  <2>5. Running'
    BY <1>1, <2>1, <2>2, <2>3 DEF Dispatch, Running, SameRunning
  <2>6. e => Settled'
    BY <1>1, <2>1, <2>2, <2>3 DEF Dispatch, Running, Settled
  <2> QED BY <1>1, <2>2, <2>3, <2>4, <2>5, <2>6 DEF TypeOK, Dispatch
<1>3. CASE c = Isr
  <2>1. LOS_Schedule /\ pc' = pc
    BY <1>3 DEF Then_LOS_Schedule
  <2>2. newTask' = osPriqueueTop(k') /\ pendSV' = (pendSV \/ (runTask # newTask' /\ taskLock = 0))
    BY <2>1 DEF LOS_Schedule
  <2>3. newTask' \in TaskID /\ Urgent(newTask)'
    BY <2>2, NewTop
  <2>4. "READY" \in k'.status[newTask']
    BY <2>3 DEF Urgent
  <2>5. pendSV' => taskLock = 0
    BY <1>1, <2>2 DEF Dispatch, Running
  <2>6. runTask \in TaskID /\ "READY" \notin k'.status[runTask] => taskLock = 0 /\ pendSV'
    BY <1>1, <2>2, <2>4
  <2>7. ~pendSV' /\ taskLock = 0 => runTask' = newTask'
    BY <2>2
  <2>8. Running'
    BY <1>1, <2>1, <2>2, <2>3, <2>4, <2>5, <2>6 DEF Dispatch, Running, SameRunning
  <2>9. Settled'
    BY <2>3, <2>7 DEF Settled
  <2>10. OnItsWay(c)
    BY <1>3, <2>1, ContextFacts DEF OnItsWay
  <2> QED BY <1>1, <2>1, <2>2, <2>3, <2>8, <2>9, <2>10 DEF TypeOK, Dispatch
<1> QED BY <1>2, <1>3 DEF MaySchedule

\* The same for a call that has not waited.
LEMMA ThenScheduleOK ==
  ASSUME NEW e \in BOOLEAN, IInv(e), Unnested, NEW c,
         scan.at = "off", scheduled,
         \/ c \in UserTask /\ InApp(c)
         \/ c = Isr,
         KernelOK(k'), "READY" \in k'.status[Idle], SameRunning,
         runTask \in TaskID /\ "READY" \notin k'.status[runTask] =>
           taskLock = 0 /\ (c = runTask \/ "READY" \notin k.status[runTask]),
         Then_LOS_Schedule(c),
         UNCHANGED <<runTask, taskLock, scheduled, scan>>
  PROVE  /\ Dispatch(e)' /\ newTask' \in TaskID /\ pendSV' \in BOOLEAN
         /\ pc' \in [TaskID -> {"app", "enter", "sched", "wait", "check"}] /\ PcKept
<1>1. MaySchedule(c)
  BY DEF MaySchedule, InApp
<1>2. /\ Dispatch(e)' /\ newTask' \in TaskID /\ pendSV' \in BOOLEAN
      /\ pc' \in [TaskID -> {"app", "enter", "sched", "wait", "check"}] /\ OnItsWay(c)
  BY <1>1, ThenScheduleMoves
<1>3. PcKept
  <2>1. c \in TaskID => pc[c] = "app" /\ "UNUSED" \notin k.status[c]
    BY InAppFacts, ContextFacts DEF IInv, ListNodes, OneList
  <2> QED BY <1>2, <2>1 DEF OnItsWay, PcKept, InCall
<1> QED BY <1>2, <1>3

\* The call makes no task ready and takes nothing from the running task.
LEMMA QuietOK ==
  ASSUME NEW e \in BOOLEAN, IInv(e), SameRunning,
         \A t \in TaskID : "READY" \in k'.status[t] =>
           "READY" \in k.status[t] /\ k'.prio[t] = k.prio[t],
         \A t \in {runTask, newTask} \cap TaskID :
           "READY" \in k.status[t] /\ (t = runTask \/ pendSV \/ ~scheduled) =>
             "READY" \in k'.status[t],
         UNCHANGED <<runTask, newTask, pendSV, taskLock, scheduled, pc>>,
         Unsettled' = Unsettled, scan'.at = "off" <=> scan.at = "off"
  PROVE  Dispatch(e)' /\ PcKept
<1>1. Dispatch(e) /\ TypeOK
  BY DEF IInv
<1>2. newTask \in TaskID
  BY <1>1 DEF TypeOK
<1>3. ASSUME NEW t \in {runTask, newTask} \cap TaskID, Urgent(t), t = runTask \/ pendSV \/ ~scheduled
      PROVE  Urgent(t)'
  BY <1>3 DEF Urgent
<1>4. Running'
  BY <1>1, <1>2 DEF Dispatch, Running, SameRunning
<1>5. e => Settled'
  <2>1. e /\ (pendSV \/ ~scheduled) /\ ~Unsettled => Urgent(newTask)'
    BY <1>1, <1>2, <1>3 DEF Dispatch, Settled
  <2>2. e /\ runTask \in TaskID /\ ~pendSV /\ pc[runTask] \in {"app", "enter", "check"} /\ taskLock = 0
          /\ ~Unsettled => Urgent(runTask)'
    BY <1>1, <1>3 DEF Dispatch, Settled
  <2> QED BY <2>1, <2>2 DEF Settled
<1> QED BY <1>4, <1>5 DEF Dispatch, PcKept

\* Steps outside the tick interrupt: what is left to show of the invariant.
LEMMA CallOK ==
  ASSUME NEW e \in BOOLEAN, IInv(e), KernelOK(k'), scan.at = "off", UNCHANGED <<scan, slice>>,
         runTask' \in TaskID \cup {Dummy}, newTask' \in TaskID, pendSV' \in BOOLEAN,
         taskLock' \in 0 .. MAX_LOCK, scheduled' \in BOOLEAN,
         pc' \in [TaskID -> {"app", "enter", "sched", "wait", "check"}],
         Dispatch(e)', LiveOK', "READY" \in k'.status[Idle], TimerExact(k'),
         \A t \in TaskID : IsOn(k'.timer, t) => k'.ticks[t] > 0,
         FaultOK', MakingOK'
  PROVE  IInv(e)'
<1>1. TypeOK /\ SliceOK
  BY DEF IInv
<1>2. TypeOK' /\ ReadyQueues' /\ ListNodes'
  BY <1>1 DEF TypeOK, KernelOK, ReadyQueues, ListNodes, MakingOK
<1>3. ScanOK' /\ Timers' /\ SliceOK' /\ TicksOK'
  BY <1>1 DEF ScanOK, Timers, SliceOK, TicksOK
<1> QED BY <1>2, <1>3 DEF IInv, IdleReady

\* A step that leaves the task manager alone.
LEMMA StutterOK ==
  ASSUME NEW e \in BOOLEAN, IInv(e), UNCHANGED vars
  PROVE  IInv(e)' /\ \A t \in TaskID : Untouched(t)
<1>1. UNCHANGED <<k, runTask, newTask, pendSV, taskLock, scheduled, making, slice, scan, pc>>
  BY DEF vars, sched
<1>2. Dispatch(e)'
  BY <1>1 DEF IInv, Dispatch, Running, Settled, Urgent, Unsettled
<1>3. IInv(e)'
  BY <1>1, <1>2 DEF IInv, TypeOK, ReadyQueues, ListNodes, Timers, IdleReady, ScanOK, TicksOK,
                    SliceOK, FaultOK, LiveOK, MakingOK
<1> QED BY <1>1, <1>3 DEF Untouched, InCall

\* The same for a step that leaves the timers alone.
LEMMA UntimedCallOK ==
  ASSUME NEW e \in BOOLEAN, IInv(e), KernelOK(k'), scan.at = "off", UNCHANGED <<scan, slice>>,
         runTask' \in TaskID \cup {Dummy}, newTask' \in TaskID, pendSV' \in BOOLEAN,
         taskLock' \in 0 .. MAX_LOCK, scheduled' \in BOOLEAN,
         pc' \in [TaskID -> {"app", "enter", "sched", "wait", "check"}],
         Dispatch(e)', LiveOK', "READY" \in k'.status[Idle],
         k'.timer = k.timer, k'.ticks = k.ticks, k'.fault = k.fault \/ Misuse # {},
         \A t \in TaskID : Timed(k', t) <=> Timed(k, t), MakingOK'
  PROVE  IInv(e)'
<1>1. Timers /\ TicksOK /\ FaultOK
  BY DEF IInv
<1>2. TimerExact(k)
  BY <1>1 DEF Timers
<1>3. TimerExact(k')
  BY <1>2, KeepTimers
<1>4. FaultOK' /\ \A t \in TaskID : IsOn(k'.timer, t) => k'.ticks[t] > 0
  BY <1>1 DEF FaultOK, TicksOK
<1> QED BY <1>3, <1>4, CallOK

-----------------------------------------------------------------------------
(* The scheduler                                                           *)

\* LOS_Schedule keeps the invariant.
LEMMA ScheduleStep ==
  ASSUME NEW e \in BOOLEAN, IInv(e), NEW t \in UserTask, Schedule(t)
  PROVE  IInv(e)' /\ WaitersKept
<1>1. TypeOK /\ Dispatch(e) /\ IdleReady /\ LiveOK /\ KernelOK(k)
  BY InvKernel DEF IInv
<1>2. /\ runTask = t /\ ~pendSV /\ scan.at = "off" /\ t \in TaskID /\ pc[t] \in {"sched", "wait"}
      /\ k' = k /\ UNCHANGED <<runTask, taskLock, scheduled, making, slice, scan>>
      /\ newTask' = osPriqueueTop(k') /\ pendSV' = (runTask # newTask' /\ taskLock = 0)
      /\ pc' = [pc EXCEPT ![t] = IF @ = "sched" THEN "app" ELSE "check"]
  BY ContextFacts DEF Schedule, LOS_Schedule, TaskRuns
<1>3. pc' \in [TaskID -> {"app", "enter", "sched", "wait", "check"}]
  BY <1>1, <1>2 DEF TypeOK
<1>4. newTask' \in TaskID /\ Urgent(newTask)'
  BY <1>1, <1>2, NewTop DEF IdleReady
<1>5. "READY" \in k'.status[newTask'] /\ pendSV' \in BOOLEAN
  BY <1>2, <1>4 DEF Urgent
<1>6. scheduled
  BY <1>1, <1>2, ContextFacts DEF Dispatch, Running, Settled
<1>7. ~pendSV' /\ taskLock = 0 => Urgent(runTask)'
  BY <1>2, <1>4
<1>8. Dispatch(e)'
  <2>1. "READY" \notin k.status[t] => taskLock = 0 /\ pendSV'
    BY <1>1, <1>2, <1>5 DEF Dispatch, Running
  <2>2. Running'
    BY <1>1, <1>2, <1>4, <1>5, <1>6, <2>1, ContextFacts DEF Dispatch, Running
  <2>3. Settled'
    BY <1>2, <1>4, <1>6, <1>7 DEF Settled
  <2> QED BY <2>2, <2>3 DEF Dispatch
<1>9. PcKept
  BY <1>1, <1>2 DEF PcKept, InCall, TypeOK, LiveOK
<1>10. WaitersKept /\ LiveOK'
  BY <1>1, <1>2, <1>9, OrdinaryOK
<1>11. MakingOK'
  BY <1>2, MakingKept DEF SuspendedKept
<1> QED BY <1>1, <1>2, <1>3, <1>4, <1>5, <1>8, <1>10, <1>11, UntimedCallOK DEF TypeOK, IdleReady

\* RUNNING comes and goes without consequences for the lists.
LEMMA RunningOn ==
  ASSUME NEW kk, KernelOK(kk), NEW t \in TaskID, "UNUSED" \notin kk.status[t],
         NEW r, r = SetFlags(kk, t, {}, {"RUNNING"})
  PROVE  /\ KernelOK(r) /\ SameRest(kk, r) /\ r.prio = kk.prio /\ r.pend = kk.pend
         /\ \A u \in TaskID :
              r.status[u] = IF u = t THEN kk.status[u] \cup {"RUNNING"} ELSE kk.status[u]
<1> DEFINE new == (kk.status[t] \ {}) \cup {"RUNNING"}
<1>1. OneList(kk) /\ kk.status \in [TaskID -> SUBSET Flag] /\ {"RUNNING"} \in SUBSET Flag
  BY DEF KernelOK, KernelType, Flag
<1>2. /\ new = kk.status[t] \cup {"RUNNING"}
      /\ "UNUSED" \notin new /\ ("READY" \in new <=> "READY" \in kk.status[t])
      /\ new \cap Waiting = kk.status[t] \cap Waiting
      /\ "READY" \in new => new \cap Blocked = {}
      /\ "DELAY" \in new => new \cap Waiting = {}
  BY <1>1 DEF OneList, Waiting, Blocked
<1> HIDE DEF new
<1>3. new = (kk.status[t] \ {}) \cup {"RUNNING"}
  BY DEF new
<1>4. /\ KernelOK(r) /\ SameRest(kk, r) /\ r.prio = kk.prio /\ r.pend = kk.pend
      /\ r.status = [kk.status EXCEPT ![t] = new]
  BY <1>1, <1>2, <1>3, StatusOK
<1> QED BY <1>1, <1>2, <1>4

\* Taking the flag of the running task from a task leaves everything else alone.
LEMMA RunningOff ==
  ASSUME NEW kk, KernelOK(kk), NEW t \in TaskID, "UNUSED" \notin kk.status[t],
         NEW r, r = SetFlags(kk, t, {"RUNNING"}, {})
  PROVE  /\ KernelOK(r) /\ SameRest(kk, r) /\ r.prio = kk.prio /\ r.pend = kk.pend
         /\ \A u \in TaskID :
              r.status[u] = IF u = t THEN kk.status[u] \ {"RUNNING"} ELSE kk.status[u]
<1> DEFINE new == (kk.status[t] \ {"RUNNING"}) \cup {}
<1>1. OneList(kk) /\ kk.status \in [TaskID -> SUBSET Flag] /\ {} \in SUBSET Flag
  BY DEF KernelOK, KernelType
<1>2. /\ new = kk.status[t] \ {"RUNNING"}
      /\ "UNUSED" \notin new /\ ("READY" \in new <=> "READY" \in kk.status[t])
      /\ new \cap Waiting = kk.status[t] \cap Waiting
      /\ "READY" \in new => new \cap Blocked = {}
      /\ "DELAY" \in new => new \cap Waiting = {}
  BY <1>1 DEF OneList, Waiting, Blocked
<1> HIDE DEF new
<1>3. new = (kk.status[t] \ {"RUNNING"}) \cup {}
  BY DEF new
<1>4. /\ KernelOK(r) /\ SameRest(kk, r) /\ r.prio = kk.prio /\ r.pend = kk.pend
      /\ r.status = [kk.status EXCEPT ![t] = new]
  BY <1>1, <1>2, <1>3, StatusOK
<1> QED BY <1>1, <1>2, <1>4

\* The task switch keeps the invariant.
LEMMA PendSVStep ==
  ASSUME NEW e \in BOOLEAN, IInv(e), PendSV_Handler
  PROVE  IInv(e)' /\ WaitersKept
<1> DEFINE saved == IF runTask = Dummy THEN k ELSE SetFlags(k, runTask, {"RUNNING"}, {})
<1>1. /\ TypeOK /\ Dispatch(e) /\ IdleReady /\ LiveOK /\ KernelOK(k)
      /\ k \in KernelType /\ OneList(k)
  BY InvKernel DEF IInv, KernelOK
<1>2. /\ pendSV /\ scan.at = "off" /\ k' = SetFlags(saved, newTask, {}, {"RUNNING"})
      /\ runTask' = newTask /\ pendSV' = FALSE
      /\ UNCHANGED <<newTask, taskLock, scheduled, making, slice, scan, pc>>
  BY DEF PendSV_Handler
<1>3. /\ newTask \in TaskID /\ "READY" \in k.status[newTask] /\ taskLock = 0 /\ scheduled
      /\ e => Urgent(newTask)
  BY <1>1, <1>2 DEF TypeOK, Dispatch, Running, Settled, Unsettled
<1>4. /\ KernelOK(saved) /\ SameRest(k, saved) /\ saved.prio = k.prio /\ saved.pend = k.pend
      /\ \A t \in TaskID : saved.status[t] = k.status[t] \ {"RUNNING"}
  <2>1. CASE runTask = Dummy
    <3>1. \A t \in TaskID : "RUNNING" \notin k.status[t]
      BY <1>1, <2>1, ContextFacts DEF Dispatch, Running, Settled
    <3> QED BY <1>1, <2>1, <3>1 DEF SameRest
  <2>2. CASE runTask # Dummy
    <3>1. runTask \in TaskID /\ "RUNNING" \in k.status[runTask]
      BY <1>1, <2>2 DEF TypeOK, Dispatch, Running, Settled
    <3>2. "UNUSED" \notin k.status[runTask]
      BY <1>1, <3>1 DEF OneList
    <3>3. saved = SetFlags(k, runTask, {"RUNNING"}, {})
      BY <2>2
    <3> HIDE DEF saved
    <3>4. /\ KernelOK(saved) /\ SameRest(k, saved) /\ saved.prio = k.prio /\ saved.pend = k.pend
          /\ \A t \in TaskID : saved.status[t] =
               IF t = runTask THEN k.status[t] \ {"RUNNING"} ELSE k.status[t]
      BY <1>1, <3>1, <3>2, <3>3, RunningOff
    <3>5. \A t \in TaskID : t # runTask => "RUNNING" \notin k.status[t]
      BY <1>1 DEF Dispatch, Running, Settled
    <3> QED BY <3>4, <3>5
  <2> QED BY <2>1, <2>2
<1> HIDE DEF saved
<1>5. "UNUSED" \notin saved.status[newTask]
  BY <1>1, <1>3, <1>4 DEF OneList
<1>6. /\ KernelOK(k') /\ SameRest(saved, k') /\ k'.prio = saved.prio /\ k'.pend = saved.pend
      /\ \A t \in TaskID : k'.status[t] =
           IF t = newTask THEN saved.status[t] \cup {"RUNNING"} ELSE saved.status[t]
  <2>1. /\ newTask \in TaskID /\ KernelOK(saved)
        /\ k' = SetFlags(saved, newTask, {}, {"RUNNING"})
    BY <1>2, <1>3, <1>4
  <2>2. KernelOK(k') /\ SameRest(saved, k') /\ k'.prio = saved.prio /\ k'.pend = saved.pend
    BY <1>5, <2>1, RunningOn
  <2>3. \A t \in TaskID : k'.status[t] =
          IF t = newTask THEN saved.status[t] \cup {"RUNNING"} ELSE saved.status[t]
    BY <1>5, <2>1, RunningOn
  <2> QED BY <2>2, <2>3
<1>7. /\ \A t \in TaskID : k'.status[t] \ {"RUNNING"} = k.status[t] \ {"RUNNING"}
      /\ \A t \in TaskID : "RUNNING" \in k'.status[t] <=> t = newTask
  BY <1>3, <1>4, <1>6
<1>8. \A t \in TaskID : "READY" \in k'.status[t] <=> "READY" \in k.status[t]
  BY <1>7
<1>9. \A t \in TaskID : Timed(k', t) <=> Timed(k, t)
  BY <1>7 DEF Timed, Waiting
<1>10. e => Urgent(newTask)' /\ Urgent(runTask)'
  BY <1>2, <1>3, <1>4, <1>6, <1>8 DEF Urgent
<1>11. Dispatch(e)'
  <2>1. Running'
    BY <1>2, <1>3, <1>7, <1>8, ContextFacts DEF Running
  <2>2. e => Settled'
    BY <1>2, <1>3, <1>10 DEF Settled
  <2> QED BY <2>1, <2>2 DEF Dispatch
<1>12. /\ k'.timer = k.timer /\ k'.ticks = k.ticks /\ k'.fault = k.fault
       /\ "READY" \in k'.status[Idle]
  BY <1>1, <1>4, <1>6, <1>8, ContextFacts DEF SameRest, IdleReady
<1>13. WaitersKept /\ LiveOK'
  <2>1. ASSUME NEW t \in TaskID, NEW f, f \notin {"RUNNING"}
        PROVE  f \in k'.status[t] <=> f \in k.status[t]
    BY <1>7, <2>1
  <2>2. PcKept /\ k'.pend = k.pend
    BY <1>2, <1>4, <1>6 DEF PcKept
  <2> QED BY <1>1, <2>1, <2>2, OrdinaryOK DEF WaitFlag, Waiting, Blocked
<1>14. MakingOK'
  <2>1. \A t \in TaskID : k.status[t] = {"SUSPEND"} => k'.status[t] = {"SUSPEND"}
    BY <1>3, <1>4, <1>6
  <2> QED BY <1>2, <2>1, MakingKept DEF SuspendedKept
<1> QED BY <1>1, <1>2, <1>3, <1>6, <1>9, <1>11, <1>12, <1>13, <1>14, UntimedCallOK DEF TypeOK

\* LOS_Start keeps the invariant.
LEMMA StartStep ==
  ASSUME NEW e \in BOOLEAN, IInv(e), LOS_StartToRun
  PROVE  IInv(e)' /\ WaitersKept
<1>1. TypeOK /\ Dispatch(e) /\ IdleReady /\ LiveOK /\ KernelOK(k) /\ OneList(k)
  BY InvKernel DEF IInv, KernelOK
<1>2. /\ ~scheduled /\ scheduled' /\ runTask' = newTask
      /\ k' = SetFlags(k, newTask, {}, {"RUNNING"})
      /\ UNCHANGED <<newTask, pendSV, taskLock, making, slice, scan, pc>>
  BY DEF LOS_StartToRun, BootRuns
<1>3. /\ runTask = Dummy /\ ~pendSV /\ taskLock = 0 /\ scan.at = "off"
      /\ newTask \in TaskID /\ "READY" \in k.status[newTask] /\ (e => Urgent(newTask))
  BY <1>1, <1>2 DEF TypeOK, Dispatch, Running, Settled, Unsettled
<1>4. "UNUSED" \notin k.status[newTask] /\ newTask \in TaskID
  BY <1>1, <1>3 DEF OneList
<1>5. /\ KernelOK(k') /\ SameRest(k, k') /\ k'.prio = k.prio /\ k'.pend = k.pend
      /\ \A t \in TaskID : k'.status[t] =
           IF t = newTask THEN k.status[t] \cup {"RUNNING"} ELSE k.status[t]
  BY <1>1, <1>2, <1>4, RunningOn
<1>6. \A t \in TaskID : "RUNNING" \in k'.status[t] <=> t = newTask
  BY <1>1, <1>3, <1>5, ContextFacts DEF Dispatch, Running, Settled
<1>7. \A t \in TaskID : Timed(k', t) <=> Timed(k, t)
  BY <1>5, TimedSame
<1>8. (e => Urgent(newTask)' /\ Urgent(runTask)') /\ "READY" \in k'.status[Idle]
  BY <1>1, <1>2, <1>3, <1>5, ContextFacts DEF Urgent, IdleReady
<1>9. Dispatch(e)'
  <2>1. Running'
    BY <1>2, <1>3, <1>5, <1>6, ContextFacts DEF Running
  <2>2. e => Settled'
    BY <1>2, <1>3, <1>8 DEF Settled
  <2> QED BY <2>1, <2>2 DEF Dispatch
<1>10. WaitersKept /\ LiveOK'
  <2>1. ASSUME NEW t \in TaskID, NEW f, f \notin {"RUNNING"}
        PROVE  f \in k'.status[t] <=> f \in k.status[t]
    BY <1>5, <2>1
  <2>2. PcKept
    BY <1>2 DEF PcKept
  <2> QED BY <1>1, <1>5, <2>1, <2>2, OrdinaryOK DEF WaitFlag, Waiting, Blocked
<1>11. MakingOK'
  <2>1. \A t \in TaskID : k.status[t] = {"SUSPEND"} => k'.status[t] = {"SUSPEND"}
    BY <1>3, <1>5
  <2> QED BY <1>2, <2>1, MakingKept DEF SuspendedKept
<1> QED BY <1>1, <1>2, <1>3, <1>5, <1>7, <1>8, <1>9, <1>10, <1>11, UntimedCallOK DEF TypeOK, SameRest

-----------------------------------------------------------------------------
(* The task calls                                                          *)

\* Locking and unlocking the scheduler keeps the invariant.
LEMMA LockStep ==
  ASSUME NEW e \in BOOLEAN, IInv(e), NEW c \in UserTask, LOS_TaskLock(c) \/ LOS_TaskUnlock(c)
  PROVE  IInv(e)' /\ WaitersKept
<1>1. TypeOK /\ Dispatch(e) /\ IdleReady /\ LiveOK /\ KernelOK(k) /\ OneList(k)
  BY InvKernel DEF IInv, KernelOK
<1>2. InApp(c) /\ k' = k /\ UNCHANGED <<runTask, newTask, pendSV, scheduled, making, slice, scan>>
  BY DEF LOS_TaskLock, LOS_TaskUnlock
<1>3. /\ runTask = c /\ ~pendSV /\ scan.at = "off" /\ scheduled /\ c \in TaskID
      /\ "READY" \in k.status[c] /\ (e /\ taskLock = 0 => Urgent(c)) /\ pc[c] = "app"
  BY <1>2, InAppFacts, ContextFacts
<1>4. Urgent(c)' <=> Urgent(c)
  BY <1>2 DEF Urgent
<1>5. taskLock \in 0 .. MAX_LOCK /\ pc \in [TaskID -> {"app", "enter", "sched", "wait", "check"}]
  BY <1>1 DEF TypeOK
<1>6. /\ taskLock' \in 0 .. MAX_LOCK
      /\ pc' \in [TaskID -> {"app", "enter", "sched", "wait", "check"}]
      /\ taskLock' = 0 => pc'[c] = "sched"
      /\ PcKept
  <2>1. CASE LOS_TaskLock(c)
    <3>1. taskLock' = taskLock + 1 /\ taskLock < MAX_LOCK /\ pc' = pc
      BY <2>1 DEF LOS_TaskLock
    <3> QED BY <1>5, <3>1, ContextFacts DEF PcKept
  <2>2. CASE LOS_TaskUnlock(c)
    <3>1. /\ taskLock' = taskLock - 1 /\ taskLock > 0
          /\ pc' = IF taskLock = 1 THEN [pc EXCEPT ![c] = "sched"] ELSE pc
      BY <2>2 DEF LOS_TaskUnlock
    <3>2. "UNUSED" \notin k.status[c]
      BY <1>1, <1>3 DEF OneList
    <3>3. PcKept
      BY <1>1, <1>3, <3>1, <3>2, PcKeptOK DEF PcKept
    <3> QED BY <1>3, <1>5, <3>1, <3>3, ContextFacts
  <2> QED BY <2>1, <2>2
<1>7. Dispatch(e)'
  <2>1. Running'
    BY <1>1, <1>2, <1>3, ContextFacts DEF Dispatch, Running
  <2>2. Settled'
    BY <1>2, <1>3, <1>6 DEF Settled
  <2> QED BY <2>1, <2>2 DEF Dispatch
<1>8. WaitersKept /\ LiveOK'
  BY <1>1, <1>2, <1>6, OrdinaryOK
<1>9. MakingOK'
  BY <1>2, MakingKept DEF SuspendedKept
<1> QED BY <1>1, <1>2, <1>3, <1>6, <1>7, <1>8, <1>9, UntimedCallOK DEF TypeOK, IdleReady

\* LOS_TaskResume keeps the invariant.
LEMMA ResumeStep ==
  ASSUME NEW e \in BOOLEAN, IInv(e), Unnested, NEW c \in Caller, NEW u \in UserTask, LOS_TaskResume(c, u)
  PROVE  IInv(e)' /\ WaitersKept
<1> DEFINE resumed == SetFlags(k, u, {"SUSPEND"}, {})
           new == (k.status[u] \ {"SUSPEND"}) \cup {}
<1>1. /\ TypeOK /\ Dispatch(e) /\ IdleReady /\ LiveOK /\ KernelOK(k) /\ OneList(k)
      /\ k.status \in [TaskID -> SUBSET Flag] /\ u \in TaskID /\ u # Idle
  BY InvKernel, ContextFacts DEF IInv, KernelOK, KernelType
<1>2. /\ MayCall(c, "resume") /\ "SUSPEND" \in k.status[u]
      /\ UNCHANGED <<runTask, taskLock, scheduled, making, slice, scan>>
  BY DEF LOS_TaskResume
<1>3. /\ scan.at = "off" /\ scheduled
      /\ (c \in UserTask /\ InApp(c)) \/ c = Isr
  BY <1>2, MayCallFacts
<1>4. "READY" \notin k.status[u] /\ "UNUSED" \notin k.status[u]
  BY <1>1, <1>2 DEF OneList, Blocked
<1>5. /\ new = k.status[u] \ {"SUSPEND"} /\ "UNUSED" \notin new
      /\ "READY" \notin new /\ new \cap Waiting = k.status[u] \cap Waiting
      /\ "DELAY" \in new => new \cap Waiting = {}
  BY <1>1, <1>4 DEF OneList, Waiting
<1>6. /\ KernelOK(resumed) /\ SameRest(k, resumed) /\ resumed.prio = k.prio /\ resumed.pend = k.pend
      /\ \A t \in TaskID : resumed.status[t] = IF t = u THEN k.status[t] \ {"SUSPEND"} ELSE k.status[t]
  <2> HIDE DEF new
  <2>1. new = (k.status[u] \ {"SUSPEND"}) \cup {}
    BY DEF new
  <2>2. resumed = SetFlags(k, u, {"SUSPEND"}, {})
    OBVIOUS
  <2> HIDE DEF resumed
  <2>3. /\ KernelOK(resumed) /\ SameRest(k, resumed) /\ resumed.prio = k.prio /\ resumed.pend = k.pend
        /\ resumed.status = [k.status EXCEPT ![u] = new]
    BY <1>1, <1>4, <1>5, <2>1, <2>2, StatusOK
  <2> QED BY <1>1, <1>5, <2>3
<1>9. Made(u) => Misuse # {}
  BY DEF LOS_TaskResume
<1>7. CASE resumed.status[u] \cap Blocked = {}
  <2>1. k' = MakeReady(resumed, u) /\ Then_LOS_Schedule(c)
    BY <1>7 DEF LOS_TaskResume
  <2> HIDE DEF resumed, new
  <2>2. resumed.status[u] \cap ({"READY", "UNUSED"} \cup Blocked) = {}
    BY <1>1, <1>4, <1>6, <1>7
  <2>3. /\ KernelOK(k') /\ SameRest(resumed, k') /\ k'.prio = resumed.prio /\ k'.pend = resumed.pend
        /\ k'.status = [resumed.status EXCEPT ![u] = @ \cup {"READY"}]
    BY <1>1, <1>6, <2>1, <2>2, MakeReadyOK
  <2>4. \A t \in TaskID : k'.status[t] =
          IF t = u THEN (k.status[t] \ {"SUSPEND"}) \cup {"READY"} ELSE k.status[t]
    BY <1>1, <1>6, <2>3 DEF KernelOK, KernelType
  <2>5. /\ SameRunning /\ "READY" \in k'.status[Idle]
        /\ \A t \in TaskID : Timed(k', t) <=> Timed(k, t)
    <3>0. ASSUME NEW t \in TaskID, NEW f, f \notin {"READY", "SUSPEND"}
          PROVE  f \in k'.status[t] <=> f \in k.status[t]
      BY <2>4, <3>0
    <3>1. SameRunning
      BY <3>0 DEF SameRunning
    <3>2. "READY" \in k'.status[Idle]
      BY <1>1, <2>4, ContextFacts DEF IdleReady
    <3>3. ASSUME NEW t \in TaskID PROVE Timed(k', t) <=> Timed(k, t)
      BY <2>4, TimedSame
    <3> QED BY <3>1, <3>2, <3>3
  <2>6. runTask \in TaskID /\ "READY" \notin k'.status[runTask] =>
          taskLock = 0 /\ "READY" \notin k.status[runTask]
    BY <1>1, <2>4 DEF Dispatch, Running, Settled
  <2>7. /\ Dispatch(e)' /\ newTask' \in TaskID /\ pendSV' \in BOOLEAN
        /\ pc' \in [TaskID -> {"app", "enter", "sched", "wait", "check"}] /\ PcKept
    BY <1>2, <1>3, <2>1, <2>3, <2>5, <2>6, ThenScheduleOK
  <2>8. WaitersKept /\ LiveOK'
    <3>1. ASSUME NEW t \in TaskID, NEW f \in WaitFlag PROVE f \in k'.status[t] <=> f \in k.status[t]
      BY <2>4 DEF WaitFlag, Waiting
    <3>2. \A t \in TaskID : k'.status[t] \cap ({"UNUSED", "READY"} \cup Blocked) # {}
      BY <1>1, <2>4 DEF LiveOK
    <3> QED BY <1>1, <1>6, <2>3, <2>7, <3>1, <3>2, OrdinaryOK
  <2>9. MakingOK'
    BY <1>2, <1>9, <2>4, MakingKept DEF SuspendedKept
  <2> QED BY <1>1, <1>2, <1>3, <1>6, <2>3, <2>5, <2>7, <2>8, <2>9, UntimedCallOK DEF TypeOK, SameRest
<1>8. CASE resumed.status[u] \cap Blocked # {}
  <2>1. k' = resumed /\ UNCHANGED <<newTask, pendSV, pc>>
    BY <1>8 DEF LOS_TaskResume
  <2> HIDE DEF resumed, new
  <2>2. /\ SameRunning /\ "READY" \in k'.status[Idle]
        /\ \A t \in TaskID : Timed(k', t) <=> Timed(k, t)
        /\ \A t \in TaskID : "READY" \in k'.status[t] <=> "READY" \in k.status[t]
    BY <1>1, <1>6, <2>1, TimedSame, ContextFacts DEF SameRunning, IdleReady
  <2>3. k'.prio = k.prio
    BY <1>6, <2>1
  <2>4. Dispatch(e)' /\ PcKept
    BY <1>2, <2>1, <2>2, <2>3, QuietOK DEF Unsettled
  <2>5. WaitersKept /\ LiveOK'
    <3>1. ASSUME NEW t \in TaskID, NEW f \in WaitFlag PROVE f \in k'.status[t] <=> f \in k.status[t]
      BY <1>6, <2>1 DEF WaitFlag, Waiting
    <3>2. \A t \in TaskID : k'.status[t] \cap ({"UNUSED", "READY"} \cup Blocked) # {}
      <4>1. k'.status[u] \cap Blocked # {}
        BY <1>8, <2>1 DEF resumed
      <4> QED BY <1>1, <1>6, <2>1, <4>1 DEF LiveOK
    <3> QED BY <1>1, <1>6, <2>1, <2>4, <3>1, <3>2, OrdinaryOK
  <2>6. MakingOK'
    BY <1>2, <1>6, <1>9, <2>1, MakingKept DEF SuspendedKept
  <2> QED BY <1>1, <1>2, <1>3, <1>6, <2>1, <2>2, <2>4, <2>5, <2>6, UntimedCallOK DEF TypeOK, SameRest
<1> QED BY <1>7, <1>8

\* LOS_TaskSuspend keeps the invariant.
LEMMA SuspendStep ==
  ASSUME NEW e \in BOOLEAN, IInv(e), Unnested, NoIsrSuspend,
         NEW c \in Caller, NEW u \in UserTask, LOS_TaskSuspend(c, u)
  PROVE  IInv(e)' /\ WaitersKept
<1> DEFINE off == IF "READY" \in k.status[u] THEN MakeUnready(k, u) ELSE k
           new == (off.status[u] \ {}) \cup {"SUSPEND"}
<1>1. /\ TypeOK /\ Dispatch(e) /\ IdleReady /\ LiveOK /\ KernelOK(k) /\ OneList(k)
      /\ k.status \in [TaskID -> SUBSET Flag] /\ u \in TaskID /\ u # Idle
  BY InvKernel, ContextFacts DEF IInv, KernelOK, KernelType
<1>2. /\ MayCall(c, "suspend") /\ "UNUSED" \notin k.status[u] /\ "SUSPEND" \notin k.status[u]
      /\ "RUNNING" \in k.status[u] => taskLock = 0
      /\ UNCHANGED <<runTask, taskLock, scheduled, making, slice, scan>>
      /\ k' = SetFlags(off, u, {}, {"SUSPEND"})
      /\ IF u = runTask THEN Then_LOS_Schedule(c) ELSE UNCHANGED <<newTask, pendSV, pc>>
  <2>1. taskLock \in Nat
    BY <1>1 DEF TypeOK
  <2> QED BY <2>1 DEF LOS_TaskSuspend
<1>3. /\ c \in UserTask /\ InApp(c) /\ runTask = c /\ ~pendSV
      /\ scan.at = "off" /\ scheduled
  BY <1>2, MayCallFacts, InAppFacts DEF NoIsrSuspend
<1>4. /\ KernelOK(off) /\ SameRest(k, off) /\ off.prio = k.prio /\ off.pend = k.pend
      /\ \A t \in TaskID : off.status[t] = IF t = u THEN k.status[t] \ {"READY"} ELSE k.status[t]
  <2>1. CASE "READY" \in k.status[u]
    <3>1. off = MakeUnready(k, u)
      BY <2>1
    <3> HIDE DEF off
    <3>2. /\ KernelOK(off) /\ SameRest(k, off) /\ off.prio = k.prio /\ off.pend = k.pend
          /\ off.status = [k.status EXCEPT ![u] = @ \ {"READY"}]
      BY <1>1, <2>1, <3>1, MakeUnreadyOK
    <3> QED BY <1>1, <3>2
  <2>2. CASE "READY" \notin k.status[u]
    BY <1>1, <2>2 DEF SameRest
  <2> QED BY <2>1, <2>2
<1> HIDE DEF off
<1>5. /\ new = off.status[u] \cup {"SUSPEND"} /\ new \in SUBSET Flag
      /\ "UNUSED" \notin new /\ "UNUSED" \notin off.status[u]
      /\ "READY" \notin new /\ "READY" \notin off.status[u]
      /\ new \cap Waiting = off.status[u] \cap Waiting
      /\ "DELAY" \in new => new \cap Waiting = {}
  <2>1. off.status[u] = k.status[u] \ {"READY"}
    BY <1>1, <1>4
  <2> QED BY <1>1, <1>2, <2>1 DEF OneList, Waiting, Flag
<1>6. /\ KernelOK(k') /\ SameRest(off, k') /\ k'.prio = off.prio /\ k'.pend = off.pend
      /\ \A t \in TaskID : k'.status[t] =
           IF t = u THEN (k.status[t] \ {"READY"}) \cup {"SUSPEND"} ELSE k.status[t]
  <2>1. new = (off.status[u] \ {}) \cup {"SUSPEND"} /\ {"SUSPEND"} \in SUBSET Flag
    BY DEF Flag
  <2> HIDE DEF new
  <2>2. /\ KernelOK(k') /\ SameRest(off, k') /\ k'.prio = off.prio /\ k'.pend = off.pend
        /\ k'.status = [off.status EXCEPT ![u] = new]
    <3>1. KernelOK(off) /\ u \in TaskID /\ k' = SetFlags(off, u, {}, {"SUSPEND"})
      BY <1>1, <1>2, <1>4
    <3> QED BY <1>5, <2>1, <3>1, StatusOK
  <2>3. off.status \in [TaskID -> SUBSET Flag]
    BY <1>4 DEF KernelOK, KernelType
  <2> QED BY <1>1, <1>4, <1>5, <2>2, <2>3
<1>7. SameRunning /\ "READY" \in k'.status[Idle]
  <2>1. ASSUME NEW t \in TaskID, NEW f, f \notin {"READY", "SUSPEND"}
        PROVE  f \in k'.status[t] <=> f \in k.status[t]
    BY <1>6, <2>1
  <2>2. SameRunning
    BY <2>1 DEF SameRunning
  <2> QED BY <1>1, <1>6, <2>2, ContextFacts DEF IdleReady
<1>8. ASSUME NEW t \in TaskID PROVE Timed(k', t) <=> Timed(k, t)
  BY <1>6, TimedSame
<1>9. /\ Dispatch(e)' /\ newTask' \in TaskID /\ pendSV' \in BOOLEAN
      /\ pc' \in [TaskID -> {"app", "enter", "sched", "wait", "check"}] /\ PcKept
  <2>1. CASE u = runTask
    <3>1. "RUNNING" \in k.status[u]
      BY <1>1, <2>1 DEF Dispatch, Running, Settled
    <3> QED BY <1>2, <1>3, <1>6, <1>7, <2>1, <3>1, ThenScheduleOK
  <2>2. CASE u # runTask
    <3>1. \A t \in TaskID : "READY" \in k'.status[t] =>
             "READY" \in k.status[t] /\ k'.prio[t] = k.prio[t]
      BY <1>4, <1>6
    <3>2. \A t \in TaskID : t # u => k'.status[t] = k.status[t]
      BY <1>6
    <3>3. UNCHANGED <<newTask, pendSV, pc>>
      BY <1>2, <2>2
    <3>4. Dispatch(e)' /\ PcKept
      BY <1>2, <1>3, <1>7, <2>2, <3>1, <3>2, <3>3, QuietOK DEF Unsettled
    <3> QED BY <1>1, <3>3, <3>4 DEF TypeOK
  <2> QED BY <2>1, <2>2
<1>10. k'.timer = k.timer /\ k'.ticks = k.ticks /\ k'.fault = k.fault
  BY <1>4, <1>6 DEF SameRest
<1>11. WaitersKept /\ LiveOK'
  <2>1. ASSUME NEW t \in TaskID, NEW f \in WaitFlag PROVE f \in k'.status[t] <=> f \in k.status[t]
    BY <1>6 DEF WaitFlag, Waiting
  <2>2. \A t \in TaskID : k'.status[t] \cap ({"UNUSED", "READY"} \cup Blocked) # {}
    BY <1>1, <1>6 DEF LiveOK, Blocked
  <2> QED BY <1>1, <1>4, <1>6, <1>9, <2>1, <2>2, OrdinaryOK
<1>12. MakingOK'
  BY <1>2, <1>6, MakingKept DEF SuspendedKept
<1> QED BY <1>1, <1>2, <1>3, <1>6, <1>7, <1>8, <1>9, <1>10, <1>11, <1>12, UntimedCallOK DEF TypeOK

\* LOS_TaskPriSet keeps the invariant.
LEMMA PriSetStep ==
  ASSUME NEW e \in BOOLEAN, IInv(e), Unnested, NEW c \in UserTask, NEW u \in UserTask, NEW p \in Prio,
         LOS_TaskPriSet(c, u, p)
  PROVE  IInv(e)' /\ WaitersKept
<1>1. /\ TypeOK /\ Dispatch(e) /\ IdleReady /\ LiveOK /\ KernelOK(k)
      /\ u \in TaskID /\ k.prio \in [TaskID -> Prio]
  BY InvKernel, ContextFacts DEF IInv, KernelOK, KernelType
<1>2. /\ MayCall(c, "priset") /\ k' = osTaskPriModify(k, u, p)
      /\ UNCHANGED <<runTask, taskLock, scheduled, making, slice, scan>>
      /\ IF "READY" \in k.status[u] THEN Then_LOS_Schedule(c)
         ELSE UNCHANGED <<newTask, pendSV, pc>>
  BY DEF LOS_TaskPriSet
<1>3. /\ InApp(c) /\ runTask = c /\ ~pendSV /\ scan.at = "off" /\ scheduled
      /\ "READY" \in k.status[c]
  BY <1>2, MayCallFacts, InAppFacts, ContextFacts
<1>4. /\ KernelOK(k') /\ SameRest(k, k') /\ k'.status = k.status /\ k'.pend = k.pend
      /\ k'.prio = [k.prio EXCEPT ![u] = p]
  BY <1>1, <1>2, PriModifyOK
<1>5. /\ SameRunning /\ "READY" \in k'.status[Idle]
      /\ \A t \in TaskID : Timed(k', t) <=> Timed(k, t)
  BY <1>1, <1>4 DEF SameRunning, IdleReady, Timed
<1>6. /\ Dispatch(e)' /\ newTask' \in TaskID /\ pendSV' \in BOOLEAN
      /\ pc' \in [TaskID -> {"app", "enter", "sched", "wait", "check"}] /\ PcKept
  <2>1. CASE "READY" \in k.status[u]
    BY <1>2, <1>3, <1>4, <1>5, <2>1, ThenScheduleOK
  <2>2. CASE "READY" \notin k.status[u]
    <3>1. UNCHANGED <<newTask, pendSV, pc>>
      BY <1>2, <2>2
    <3>2. \A t \in TaskID : "READY" \in k'.status[t] =>
            "READY" \in k.status[t] /\ k'.prio[t] = k.prio[t]
      BY <1>1, <1>4, <2>2
    <3>3. Dispatch(e)' /\ PcKept
      BY <1>2, <1>4, <1>5, <3>1, <3>2, QuietOK DEF Unsettled
    <3> QED BY <1>1, <3>1, <3>3 DEF TypeOK
  <2> QED BY <2>1, <2>2
<1>7. WaitersKept /\ LiveOK'
  BY <1>1, <1>4, <1>6, OrdinaryOK
<1>8. MakingOK'
  BY <1>2, <1>4, MakingKept DEF SuspendedKept
<1> QED BY <1>1, <1>2, <1>3, <1>4, <1>5, <1>6, <1>7, <1>8, UntimedCallOK DEF TypeOK, SameRest

\* LOS_TaskDelay keeps the invariant.
LEMMA DelayStep ==
  ASSUME NEW e \in BOOLEAN, IInv(e), NEW c \in UserTask, NEW n \in DelayTicks, LOS_TaskDelay(c, n)
  PROVE  IInv(e)' /\ WaitersKept
<1> DEFINE off == MakeUnready(k, c)
           armed == osTaskAdd2TimerList(off, c, n)
           new == (armed.status[c] \ {}) \cup {"DELAY"}
<1>1. /\ TypeOK /\ Dispatch(e) /\ IdleReady /\ LiveOK /\ KernelOK(k) /\ OneList(k)
      /\ k.status \in [TaskID -> SUBSET Flag] /\ k.ticks \in [TaskID -> Nat]
      /\ k.timer \in Seq(TaskID) /\ c \in TaskID /\ c # Idle /\ n \in Nat /\ n > 0
  <2>1. /\ TypeOK /\ Dispatch(e) /\ IdleReady /\ LiveOK
    BY DEF IInv
  <2>2. KernelOK(k) /\ OneList(k)
    BY InvKernel DEF KernelOK
  <2>3. /\ k.status \in [TaskID -> SUBSET Flag] /\ k.ticks \in [TaskID -> Nat]
        /\ k.timer \in Seq(TaskID)
    BY <2>2 DEF KernelOK, KernelType
  <2>4. c \in TaskID /\ c # Idle /\ n \in Nat /\ n > 0
    BY ContextFacts
  <2> QED BY <2>1, <2>2, <2>3, <2>4
<1>2. /\ InApp(c) /\ taskLock = 0 /\ k' = SetFlags(armed, c, {}, {"DELAY"})
      /\ pc' = [pc EXCEPT ![c] = "sched"] /\ UNCHANGED <<sched, slice, scan>>
  BY DEF LOS_TaskDelay
<1>3. /\ runTask = c /\ ~pendSV /\ scan.at = "off" /\ scheduled /\ pc[c] = "app"
      /\ "READY" \in k.status[c]
  BY <1>2, InAppFacts
<1>4. k.status[c] \cap Blocked = {} /\ "UNUSED" \notin k.status[c]
  BY <1>1, <1>3 DEF OneList
<1>5. /\ KernelOK(off) /\ SameRest(k, off) /\ off.prio = k.prio /\ off.pend = k.pend
      /\ off.status = [k.status EXCEPT ![c] = @ \ {"READY"}]
  BY <1>1, <1>3, MakeUnreadyOK
<1>6. /\ KernelOK(armed) /\ armed.status = off.status /\ armed.prio = off.prio /\ armed.pend = off.pend
      /\ armed.fault = off.fault /\ armed.timer = Append(off.timer, c)
      /\ armed.ticks = [off.ticks EXCEPT ![c] = n]
  BY <1>1, <1>5, ArmOK
<1> HIDE DEF armed, off
<1>7. armed.status[c] = k.status[c] \ {"READY"}
  BY <1>1, <1>5, <1>6
<1>8. /\ new = (k.status[c] \ {"READY"}) \cup {"DELAY"} /\ {"DELAY"} \in SUBSET Flag
      /\ "UNUSED" \notin new /\ "UNUSED" \notin armed.status[c]
      /\ "READY" \notin new /\ "READY" \notin armed.status[c]
      /\ new \cap Waiting = {} /\ armed.status[c] \cap Waiting = {}
  BY <1>4, <1>7 DEF Flag, Waiting, Blocked
<1>9. /\ KernelOK(k') /\ SameRest(armed, k') /\ k'.prio = armed.prio /\ k'.pend = armed.pend
      /\ k'.status = [armed.status EXCEPT ![c] = new]
  <2>1. new = (armed.status[c] \ {}) \cup {"DELAY"}
    OBVIOUS
  <2>2. KernelOK(armed) /\ c \in TaskID /\ k' = SetFlags(armed, c, {}, {"DELAY"})
    BY <1>1, <1>2, <1>6
  <2> HIDE DEF new
  <2> QED BY <1>8, <2>1, <2>2, StatusOK
<1> HIDE DEF new
<1>10. \A t \in TaskID : k'.status[t] =
         IF t = c THEN (k.status[t] \ {"READY"}) \cup {"DELAY"} ELSE k.status[t]
  <2>1. armed.status \in [TaskID -> SUBSET Flag]
    BY <1>6 DEF KernelOK, KernelType
  <2>2. ASSUME NEW t \in TaskID, t # c PROVE k'.status[t] = k.status[t]
    <3>1. armed.status[t] = k.status[t]
      BY <1>1, <1>5, <1>6, <2>2
    <3> QED BY <1>9, <2>1, <2>2, <3>1
  <2>3. k'.status[c] = new
    BY <1>1, <1>9, <2>1
  <2> QED BY <1>8, <2>2, <2>3
<1>11. SameRunning /\ "READY" \in k'.status[Idle]
  <2>1. ASSUME NEW t \in TaskID, NEW f, f \notin {"READY", "DELAY"}
        PROVE  f \in k'.status[t] <=> f \in k.status[t]
    BY <1>10, <2>1
  <2>2. SameRunning
    BY <2>1 DEF SameRunning
  <2> QED BY <1>1, <1>10, <2>2, ContextFacts DEF IdleReady
<1>12. /\ k'.timer = Append(k.timer, c) /\ k'.ticks = [k.ticks EXCEPT ![c] = n]
       /\ k'.fault = k.fault
  BY <1>5, <1>6, <1>9 DEF SameRest
<1>13. Dispatch(e)'
  <2>1. pc'[c] = "sched"
    BY <1>1, <1>2 DEF TypeOK
  <2>2. Running'
    BY <1>1, <1>2, <1>3, <1>11, <2>1 DEF Dispatch, Running, SameRunning, sched
  <2>3. Settled'
    BY <1>1, <1>2, <1>3, <2>1 DEF Settled, sched
  <2> QED BY <2>2, <2>3 DEF Dispatch
<1>14. TimerExact(k) /\ TicksOK /\ FaultOK
  BY <1>3 DEF IInv, Timers
<1>15. /\ \A t : IsOn(k'.timer, t) <=> IsOn(k.timer, t) \/ t = c
       /\ ~IsOn(k.timer, c) /\ IsInjective(k'.timer)
  <2>1. ~IsOn(k.timer, c)
    BY <1>1, <1>4, <1>14 DEF TimerExact, Blocked, Waiting
  <2> QED BY <1>1, <1>12, <1>14, <2>1, AppendList DEF TimerExact
<1>16. TimerExact(k')
  <2>1. ASSUME NEW t \in TaskID PROVE IsOn(k'.timer, t) <=> Timed(k', t)
    <3>1. CASE t = c
      BY <1>10, <1>15, <3>1 DEF Timed
    <3>2. CASE t # c
      BY <1>10, <1>14, <1>15, <3>2 DEF Timed, TimerExact
    <3> QED BY <3>1, <3>2
  <2> QED BY <1>15, <2>1 DEF TimerExact, Timed
<1>17. \A t \in TaskID : IsOn(k'.timer, t) => k'.ticks[t] > 0
  BY <1>1, <1>3, <1>12, <1>14, <1>15 DEF TicksOK
<1>18. FaultOK' /\ pc' \in [TaskID -> {"app", "enter", "sched", "wait", "check"}]
  BY <1>1, <1>2, <1>12, <1>14 DEF FaultOK, TypeOK
<1>19. WaitersKept /\ LiveOK'
  <2>1. ASSUME NEW t \in TaskID, NEW f \in WaitFlag PROVE f \in k'.status[t] <=> f \in k.status[t]
    BY <1>10 DEF WaitFlag, Waiting
  <2>2. \A t \in TaskID : k'.status[t] \cap ({"UNUSED", "READY"} \cup Blocked) # {}
    BY <1>1, <1>10 DEF LiveOK, Blocked
  <2>3. PcKept
    BY <1>1, <1>2, <1>3, <1>4, PcKeptOK
  <2> QED BY <1>1, <1>5, <1>6, <1>9, <2>1, <2>2, <2>3, OrdinaryOK
<1>20. MakingOK'
  <2>1. \A t \in TaskID : k.status[t] = {"SUSPEND"} => k'.status[t] = {"SUSPEND"}
    BY <1>3, <1>10
  <2> QED BY <1>2, <2>1, MakingKept DEF SuspendedKept, sched
<1> QED BY <1>1, <1>2, <1>3, <1>9, <1>11, <1>13, <1>16, <1>17, <1>18, <1>19, <1>20, CallOK DEF TypeOK, sched

\* LOS_TaskYield keeps the invariant.
LEMMA YieldStep ==
  ASSUME NEW e \in BOOLEAN, IInv(e), NEW c \in UserTask, LOS_TaskYield(c)
  PROVE  IInv(e)' /\ WaitersKept
<1>1. /\ TypeOK /\ Dispatch(e) /\ IdleReady /\ LiveOK /\ KernelOK(k) /\ OneList(k)
      /\ c \in TaskID
  BY InvKernel, ContextFacts DEF IInv, KernelOK
<1>2. /\ InApp(c) /\ k' = ToTail(k, c)
      /\ pc' = [pc EXCEPT ![c] = "sched"] /\ UNCHANGED <<sched, slice, scan>>
  BY DEF LOS_TaskYield
<1>3. /\ runTask = c /\ ~pendSV /\ scan.at = "off" /\ scheduled
      /\ "READY" \in k.status[c] /\ pc[c] = "app"
  BY <1>2, InAppFacts
<1>4. /\ KernelOK(k') /\ SameRest(k, k') /\ k'.status = k.status
      /\ k'.prio = k.prio /\ k'.pend = k.pend
  BY <1>1, <1>2, <1>3, ToTailOK DEF ToTail
<1>5. /\ pc'[c] = "sched" /\ pc' \in [TaskID -> {"app", "enter", "sched", "wait", "check"}]
      /\ \A t \in TaskID : Timed(k', t) <=> Timed(k, t)
  BY <1>1, <1>2, <1>4 DEF TypeOK, Timed
<1>6. Dispatch(e)'
  <2>1. Running'
    BY <1>1, <1>2, <1>3, <1>4, <1>5 DEF Dispatch, Running, sched
  <2>2. Settled'
    BY <1>2, <1>3, <1>5 DEF Settled, sched
  <2> QED BY <2>1, <2>2 DEF Dispatch
<1>7. WaitersKept /\ LiveOK'
  <2>1. "UNUSED" \notin k.status[c]
    BY <1>1, <1>3 DEF OneList
  <2>2. PcKept
    BY <1>1, <1>2, <1>3, <2>1, PcKeptOK
  <2> QED BY <1>1, <1>4, <2>2, OrdinaryOK
<1>8. MakingOK'
  BY <1>2, <1>4, MakingKept DEF SuspendedKept, sched
<1> QED BY <1>1, <1>2, <1>3, <1>4, <1>5, <1>6, <1>7, <1>8, UntimedCallOK DEF TypeOK, sched, SameRest, IdleReady

\* LOS_TaskCreateOnly, first part: recycled control blocks become free ones.
LEMMA ReclaimOK ==
  ASSUME NEW kk, KernelOK(kk), NEW r, r = Reclaim(kk)
  PROVE  /\ KernelOK(r) /\ r.status = kk.status /\ r.prio = kk.prio /\ r.pend = kk.pend
         /\ r.timer = kk.timer /\ r.ticks = kk.ticks /\ r.fault = kk.fault
<1>1. /\ kk \in KernelType /\ ReadyQueueExact(kk) /\ OneList(kk)
      /\ kk.free \in Seq(UserTask) /\ kk.recycle \in Seq(UserTask)
  BY DEF KernelOK, KernelType
<1> DEFINE free == Reverse(kk.recycle) \o kk.free
<1>2. /\ free \in Seq(UserTask) /\ IsInjective(free)
      /\ \A u : IsOn(free, u) <=> IsOn(kk.free, u) \/ IsOn(kk.recycle, u)
  <2> DEFINE reversed == Reverse(kk.recycle)
  <2>1. /\ reversed \in Seq(UserTask) /\ IsInjective(reversed)
        /\ \A u : IsOn(reversed, u) <=> IsOn(kk.recycle, u)
    BY <1>1, ReverseList DEF OneList
  <2>2. free = reversed \o kk.free
    OBVIOUS
  <2> HIDE DEF reversed, free
  <2>3. \A u \in UserTask : ~(IsOn(reversed, u) /\ IsOn(kk.free, u))
    BY <1>1, <2>1 DEF OneList, UserTask
  <2>4. IsInjective(kk.free)
    BY <1>1 DEF OneList
  <2> QED BY <1>1, <2>1, <2>2, <2>3, <2>4, JoinList
<1>3. r = [kk EXCEPT !.free = free, !.recycle = <<>>]
  BY DEF Reclaim
<1> HIDE DEF free
<1>4. /\ r.status = kk.status /\ r.prio = kk.prio /\ r.queue = kk.queue
      /\ r.bitmap = kk.bitmap /\ r.pend = kk.pend /\ r.fault = kk.fault
      /\ r.free = free /\ r.recycle = <<>>
      /\ r.timer = kk.timer /\ r.ticks = kk.ticks
  BY <1>1, <1>3 DEF KernelType
<1>7. r \in KernelType
  <2>1. <<>> \in Seq(UserTask)
    OBVIOUS
  <2> QED BY <1>1, <1>2, <1>3, <2>1 DEF KernelType
<1>5. ReadyQueueExact(r)
  BY <1>1, <1>4 DEF ReadyQueueExact
<1>6. OneList(r)
  BY <1>1, <1>2, <1>4, EmptyList DEF OneList
<1> QED BY <1>4, <1>5, <1>6, <1>7 DEF KernelOK

\* Second part: the first free control block becomes a suspended task.
LEMMA AllocateOK ==
  ASSUME NEW kk, KernelOK(kk), kk.free # <<>>, NEW p \in Prio,
         NEW t, t = Head(kk.free), NEW r, r = Allocate(kk, p, "SUSPEND")
  PROVE  /\ t \in UserTask /\ kk.status[t] = {"UNUSED"}
         /\ KernelOK(r) /\ r.status = [kk.status EXCEPT ![t] = {"SUSPEND"}]
         /\ r.prio = [kk.prio EXCEPT ![t] = p] /\ r.pend = kk.pend
         /\ r.timer = kk.timer /\ r.ticks = kk.ticks /\ r.fault = kk.fault
<1>1. /\ kk \in KernelType /\ ReadyQueueExact(kk) /\ OneList(kk)
      /\ kk.free \in Seq(UserTask) /\ IsInjective(kk.free)
  BY DEF KernelOK, KernelType, OneList
<1>2. t \in UserTask /\ IsOn(kk.free, t) /\ t \in TaskID
  BY <1>1, HeadIsOn DEF UserTask
<1>3. kk.status[t] = {"UNUSED"}
  BY <1>1, <1>2 DEF OneList
<1>4. /\ Tail(kk.free) \in Seq(UserTask) /\ IsInjective(Tail(kk.free))
      /\ \A u : IsOn(Tail(kk.free), u) <=> IsOn(kk.free, u) /\ u # t
  BY <1>1, TailList
<1>5. r = [kk EXCEPT !.free = Tail(kk.free), !.status = [kk.status EXCEPT ![t] = {"SUSPEND"}],
                     !.prio = [kk.prio EXCEPT ![t] = p]]
  BY DEF Allocate
<1>6. /\ r.status = [kk.status EXCEPT ![t] = {"SUSPEND"}]
      /\ r.prio = [kk.prio EXCEPT ![t] = p] /\ r.queue = kk.queue
      /\ r.bitmap = kk.bitmap /\ r.pend = kk.pend /\ r.fault = kk.fault
      /\ r.free = Tail(kk.free) /\ r.recycle = kk.recycle
      /\ r.timer = kk.timer /\ r.ticks = kk.ticks
  BY <1>1, <1>5 DEF KernelType
<1>7. r \in KernelType
  <2>1. {"SUSPEND"} \in SUBSET Flag
    BY DEF Flag
  <2>2. /\ [kk.status EXCEPT ![t] = {"SUSPEND"}] \in [TaskID -> SUBSET Flag]
        /\ [kk.prio EXCEPT ![t] = p] \in [TaskID -> Prio]
    BY <1>1, <2>1 DEF KernelType
  <2> QED BY <1>1, <1>4, <1>5, <2>2 DEF KernelType
<1>8. \A u \in TaskID :
        /\ r.status[u] = IF u = t THEN {"SUSPEND"} ELSE kk.status[u]
        /\ r.prio[u] = IF u = t THEN p ELSE kk.prio[u]
  BY <1>1, <1>2, <1>6 DEF KernelType
<1>9. ReadyQueueExact(r)
  BY <1>1, <1>3, <1>6, <1>8 DEF ReadyQueueExact
<1>10. OneList(r)
  <2>1. ASSUME NEW u \in TaskID
        PROVE  /\ (\E o \in PendObj : IsOn(r.pend[o], u)) <=> r.status[u] \cap Waiting # {}
               /\ IsOn(r.free, u) \/ IsOn(r.recycle, u) <=> "UNUSED" \in r.status[u]
               /\ ~(IsOn(r.free, u) /\ IsOn(r.recycle, u))
               /\ "UNUSED" \in r.status[u] => r.status[u] = {"UNUSED"}
               /\ "READY" \in r.status[u] => r.status[u] \cap Blocked = {}
               /\ \A a, b \in {"DELAY"} \cup Waiting : {a, b} \subseteq r.status[u] => a = b
               /\ \A o, q \in PendObj : IsOn(r.pend[o], u) /\ IsOn(r.pend[q], u) => o = q
    <3>1. CASE u = t
      <4>1. ~(\E o \in PendObj : IsOn(kk.pend[o], t)) /\ ~IsOn(kk.recycle, t)
        BY <1>1, <1>2, <1>3 DEF OneList, Waiting
      <4>2. r.status[u] = {"SUSPEND"} /\ r.status[u] \cap Waiting = {}
        BY <1>8, <3>1 DEF Waiting
      <4> QED BY <1>4, <1>6, <3>1, <4>1, <4>2 DEF Waiting
    <3>2. CASE u # t
      <4>1. r.status[u] = kk.status[u]
        BY <1>8, <3>2
      <4> QED BY <1>1, <1>4, <1>6, <3>2, <4>1 DEF OneList
    <3> QED BY <3>1, <3>2
  <2>2. /\ \A o \in PendObj : IsInjective(r.pend[o])
        /\ IsInjective(r.free) /\ IsInjective(r.recycle)
    BY <1>1, <1>4, <1>6 DEF OneList
  <2> QED BY <2>1, <2>2 DEF OneList
<1> QED BY <1>2, <1>3, <1>6, <1>7, <1>9, <1>10 DEF KernelOK

\* Tasks are created when neither the tick nor a task switch is at work.
LEMMA CallsCreateFacts ==
  ASSUME NEW e \in BOOLEAN, IInv(e), Unnested, NEW c, NEW name, CallsCreate(c, name)
  PROVE  scan.at = "off" /\ ~Unsettled
<1>1. CASE MayCall(c, name)
  BY <1>1, MayCallFacts DEF Unsettled
<1>2. CASE ~scheduled
  BY <1>2 DEF IInv, Dispatch, Running, Settled, Unsettled
<1> QED BY <1>1, <1>2 DEF CallsCreate, BootRuns

\* A creation that finds no free control block keeps the invariant.
LEMMA CreateFailsStep ==
  ASSUME NEW e \in BOOLEAN, IInv(e), Unnested, NEW c, TaskCreateFails(c)
  PROVE  IInv(e)' /\ WaitersKept
<1>1. TypeOK /\ Dispatch(e) /\ IdleReady /\ LiveOK /\ KernelOK(k)
  BY InvKernel DEF IInv
<1>2. k' = Reclaim(k) /\ UNCHANGED <<sched, slice, scan, pc>> /\ scan.at = "off"
  BY CallsCreateFacts DEF TaskCreateFails
<1>3. /\ KernelOK(k') /\ k'.status = k.status /\ k'.prio = k.prio /\ k'.pend = k.pend
      /\ k'.timer = k.timer /\ k'.ticks = k.ticks /\ k'.fault = k.fault
  BY <1>1, <1>2, ReclaimOK
<1>4. \A t \in TaskID : Timed(k', t) <=> Timed(k, t)
  BY <1>3 DEF Timed
<1>5. SameRunning /\ "READY" \in k'.status[Idle]
  BY <1>1, <1>3 DEF SameRunning, IdleReady
<1>6. Dispatch(e)' /\ PcKept
  BY <1>2, <1>3, <1>5, QuietOK DEF sched, Unsettled
<1>7. WaitersKept /\ LiveOK'
  BY <1>1, <1>3, <1>6, OrdinaryOK
<1>8. MakingOK'
  BY <1>2, <1>3, MakingKept DEF SuspendedKept, sched
<1> QED BY <1>1, <1>2, <1>3, <1>4, <1>5, <1>6, <1>7, <1>8, UntimedCallOK DEF TypeOK, sched

\* What a new task's control block and the lists look like.
LEMMA NewTaskOK ==
  ASSUME NEW e \in BOOLEAN, IInv(e), Reclaim(k).free # <<>>, NEW p \in Prio,
         NEW t, t = Head(Reclaim(k).free),
         NEW r, r = Allocate(Reclaim(k), p, "SUSPEND")
  PROVE  /\ t \in UserTask /\ t \in TaskID /\ t # Idle /\ k.status[t] = {"UNUSED"}
         /\ KernelOK(r) /\ r.pend = k.pend /\ r.timer = k.timer /\ r.ticks = k.ticks /\ r.fault = k.fault
         /\ \A u \in TaskID : r.status[u] = IF u = t THEN {"SUSPEND"} ELSE k.status[u]
         /\ \A u \in TaskID : r.prio[u] = IF u = t THEN p ELSE k.prio[u]
<1> DEFINE q == Reclaim(k)
<1>1. KernelOK(k) /\ k.status \in [TaskID -> SUBSET Flag] /\ k.prio \in [TaskID -> Prio]
  BY InvKernel DEF KernelType
<1>2. /\ KernelOK(q) /\ q.status = k.status /\ q.prio = k.prio /\ q.pend = k.pend
      /\ q.timer = k.timer /\ q.ticks = k.ticks /\ q.fault = k.fault
  BY <1>1, ReclaimOK
<1>3. q.free # <<>> /\ t = Head(q.free) /\ r = Allocate(q, p, "SUSPEND")
  OBVIOUS
<1> HIDE DEF q
<1>4. /\ t \in UserTask /\ q.status[t] = {"UNUSED"}
      /\ KernelOK(r) /\ r.status = [q.status EXCEPT ![t] = {"SUSPEND"}]
      /\ r.prio = [q.prio EXCEPT ![t] = p] /\ r.pend = q.pend
      /\ r.timer = q.timer /\ r.ticks = q.ticks /\ r.fault = q.fault
  BY <1>2, <1>3, AllocateOK
<1>5. /\ t \in UserTask /\ t \in TaskID /\ t # Idle /\ k.status[t] = {"UNUSED"}
  BY <1>2, <1>4, ContextFacts
<1>6. r.pend = k.pend /\ r.timer = k.timer /\ r.ticks = k.ticks /\ r.fault = k.fault
  BY <1>2, <1>4
<1>7. r.status = [k.status EXCEPT ![t] = {"SUSPEND"}] /\ r.prio = [k.prio EXCEPT ![t] = p]
  BY <1>2, <1>4, Zenon
<1>8. \A u \in TaskID : r.status[u] = IF u = t THEN {"SUSPEND"} ELSE k.status[u]
  BY <1>1, <1>7
<1>9. \A u \in TaskID : r.prio[u] = IF u = t THEN p ELSE k.prio[u]
  BY <1>1, <1>7
<1>10. KernelOK(r)
  BY <1>4
<1> QED BY <1>5, <1>6, <1>8, <1>9, <1>10, Zenon

\* LOS_TaskCreateOnly keeps the invariant.
LEMMA CreateOnlyStep ==
  ASSUME NEW e \in BOOLEAN, IInv(e), Unnested, NEW c \in Creator, NEW name, NEW p \in Prio,
         LOS_TaskCreateOnly(c, name, p)
  PROVE  IInv(e)' /\ WaitersKept
<1> DEFINE t == Head(Reclaim(k).free)
<1>1. TypeOK /\ Dispatch(e) /\ IdleReady /\ LiveOK /\ MakingOK
  BY DEF IInv
<1>2. /\ k' = Allocate(Reclaim(k), p, "SUSPEND") /\ Reclaim(k).free # <<>>
      /\ making' = IF name = "create" THEN [making EXCEPT ![c] = t] ELSE making
      /\ UNCHANGED <<runTask, newTask, pendSV, taskLock, scheduled, slice, scan, pc>>
      /\ scan.at = "off"
  BY CallsCreateFacts DEF LOS_TaskCreateOnly
<1>3. /\ t \in UserTask /\ t \in TaskID /\ t # Idle /\ k.status[t] = {"UNUSED"}
      /\ KernelOK(k') /\ k'.pend = k.pend /\ k'.timer = k.timer /\ k'.ticks = k.ticks /\ k'.fault = k.fault
      /\ \A u \in TaskID : k'.status[u] = IF u = t THEN {"SUSPEND"} ELSE k.status[u]
      /\ \A u \in TaskID : k'.prio[u] = IF u = t THEN p ELSE k.prio[u]
  BY <1>2, NewTaskOK
<1> HIDE DEF t
<1>4. ASSUME NEW u \in TaskID, NEW f, f \notin {"UNUSED", "SUSPEND"}
      PROVE  f \in k'.status[u] <=> f \in k.status[u]
  BY <1>3, <1>4
<1>5. SameRunning
  BY <1>4 DEF SameRunning
<1>6. "READY" \in k'.status[Idle]
  BY <1>1, <1>4, ContextFacts DEF IdleReady
<1>7. ASSUME NEW u \in TaskID PROVE Timed(k', u) <=> Timed(k, u)
  BY <1>4, TimedSame
<1>8. Dispatch(e)'
  <2>1. \A u \in TaskID : "READY" \in k'.status[u] =>
          "READY" \in k.status[u] /\ k'.prio[u] = k.prio[u]
    BY <1>3
  <2>2. \A u \in {runTask, newTask} \cap TaskID :
          "READY" \in k.status[u] => "READY" \in k'.status[u]
    BY <1>4
  <2> QED BY <1>2, <1>5, <2>1, <2>2, QuietOK DEF Unsettled
<1>9. WaitersKept /\ LiveOK'
  <2>1. Created(t) /\ \A u \in TaskID \ {t} : Untouched(u)
    BY <1>2, <1>3 DEF Created, Untouched, InCall, WaitFlag, Waiting
  <2>2. LiveOK'
    BY <1>1, <1>2, <1>3 DEF LiveOK, Blocked
  <2> QED BY <1>3, <2>1, <2>2 DEF WaitersKept
<1>10. MakingOK'
  <2>1. ASSUME Misuse = {}, NEW d \in Creator, making[d] # NoTask
        PROVE  making[d] # t /\ k'.status[making[d]] = {"SUSPEND"}
    BY <1>1, <1>3, <2>1, ContextFacts DEF MakingOK
  <2>2. making \in [Creator -> UserTask \cup {NoTask}] /\ t # NoTask
    BY <1>1, <1>3, ContextFacts DEF MakingOK
  <2>3. CASE name = "create"
    <3>1. \A d \in Creator : making'[d] = IF d = c THEN t ELSE making[d]
      BY <1>2, <2>2, <2>3
    <3>2. making' \in [Creator -> UserTask \cup {NoTask}]
      BY <1>2, <1>3, <2>2, <2>3
    <3>3. ASSUME Misuse = {}, NEW a \in Creator, NEW b \in Creator, making'[a] = making'[b], making'[a] # NoTask
          PROVE  a = b
      BY <1>1, <2>1, <3>1, <3>3 DEF MakingOK
    <3> QED BY <1>3, <2>1, <3>1, <3>2, <3>3 DEF MakingOK
  <2>4. CASE name # "create"
    BY <1>1, <1>2, <2>1, <2>4 DEF MakingOK
  <2> QED BY <2>3, <2>4
<1> QED BY <1>1, <1>2, <1>3, <1>5, <1>6, <1>7, <1>8, <1>9, <1>10, UntimedCallOK DEF TypeOK

\* Nothing else in the kernel depends on whether it has faulted.
LEMMA FaultedOK ==
  ASSUME KernelOK(k), NEW r, r = [k EXCEPT !.fault = TRUE]
  PROVE  /\ KernelOK(r) /\ r.pend = k.pend /\ r.prio = k.prio /\ r.timer = k.timer /\ r.ticks = k.ticks
         /\ \A u \in TaskID : r.status[u] = k.status[u]
<1>1. k \in KernelType
  BY DEF KernelOK
<1>2. /\ r \in KernelType /\ r.pend = k.pend /\ r.prio = k.prio /\ r.timer = k.timer /\ r.ticks = k.ticks
      /\ r.status = k.status /\ r.queue = k.queue /\ r.bitmap = k.bitmap
      /\ r.free = k.free /\ r.recycle = k.recycle
  BY <1>1 DEF KernelType
<1> QED BY <1>2 DEF KernelOK, ReadyQueueExact, OneList

\* What the second section of LOS_TaskCreate does to the control blocks.
LEMMA CompleteOK ==
  ASSUME NEW e \in BOOLEAN, IInv(e), NEW t \in UserTask,
         k' = IF k.status[t] = {"SUSPEND"}
              THEN MakeReady(SetFlags(k, t, {"SUSPEND"}, {}), t)
              ELSE [k EXCEPT !.fault = TRUE],
         Misuse = {} => k.status[t] = {"SUSPEND"}
  PROVE  /\ KernelOK(k') /\ k'.pend = k.pend /\ k'.timer = k.timer /\ k'.ticks = k.ticks
         /\ k'.fault = k.fault \/ Misuse # {}
         /\ \A u \in TaskID : k'.status[u] = IF u = t /\ k.status[t] = {"SUSPEND"}
                                           THEN {"READY"} ELSE k.status[u]
<1> DEFINE idle == SetFlags(k, t, {"SUSPEND"}, {})
<1>1. KernelOK(k) /\ t \in TaskID /\ k.status \in [TaskID -> SUBSET Flag]
  BY InvKernel, ContextFacts DEF KernelType
<1>2. CASE k.status[t] = {"SUSPEND"}
  <2>1. k' = MakeReady(idle, t)
    BY <1>2
  <2>2. /\ KernelOK(idle) /\ SameRest(k, idle) /\ idle.pend = k.pend
        /\ idle.status = [k.status EXCEPT ![t] = {}]
    <3>1. /\ {} = (k.status[t] \ {"SUSPEND"}) \cup {} /\ {} \in SUBSET Flag
          /\ "UNUSED" \notin k.status[t] /\ "READY" \notin k.status[t]
          /\ {} \cap Waiting = k.status[t] \cap Waiting
      BY <1>2 DEF Waiting
    <3>2. /\ "READY" \in {} <=> "READY" \in k.status[t]
          /\ "UNUSED" \notin {} /\ "DELAY" \notin {}
      BY <3>1
    <3>3. idle = SetFlags(k, t, {"SUSPEND"}, {})
      OBVIOUS
    <3> HIDE DEF idle
    <3> QED BY <1>1, <3>1, <3>2, <3>3, StatusOK
  <2> HIDE DEF idle
  <2>3. idle.status[t] = {} /\ \A u \in TaskID : u # t => idle.status[u] = k.status[u]
    BY <1>1, <2>2
  <2>4. /\ KernelOK(k') /\ SameRest(idle, k') /\ k'.pend = idle.pend
        /\ k'.status = [idle.status EXCEPT ![t] = @ \cup {"READY"}]
    <3>1. idle.status[t] \cap ({"READY", "UNUSED"} \cup Blocked) = {}
      BY <2>3
    <3>2. ASSUME NEW r, r = MakeReady(idle, t)
          PROVE  /\ KernelOK(r) /\ SameRest(idle, r) /\ r.pend = idle.pend
                 /\ r.status = [idle.status EXCEPT ![t] = @ \cup {"READY"}]
      BY <1>1, <2>2, <3>1, <3>2, MakeReadyOK
    <3> QED BY <2>1, <3>2
  <2>5. \A u \in TaskID : k'.status[u] = IF u = t THEN {"READY"} ELSE k.status[u]
    <3>1. DOMAIN idle.status = TaskID
      BY <2>2 DEF KernelOK, KernelType
    <3>2. {} \cup {"READY"} = {"READY"}
      OBVIOUS
    <3>3. k'.status[t] = {"READY"}
      BY <1>1, <2>3, <2>4, <3>1, <3>2
    <3>4. \A u \in TaskID : u # t => k'.status[u] = k.status[u]
      BY <2>3, <2>4, <3>1
    <3> QED BY <3>3, <3>4
  <2> QED BY <1>2, <2>2, <2>4, <2>5 DEF SameRest
<1>3. CASE k.status[t] # {"SUSPEND"}
  BY <1>1, <1>3, FaultedOK
<1> QED BY <1>2, <1>3

\* LOS_TaskCreate, its second section, keeps the invariant.
LEMMA CreateStep ==
  ASSUME NEW e \in BOOLEAN, IInv(e), NEW c \in Creator, LOS_TaskCreate(c)
  PROVE  IInv(e)' /\ WaitersKept
<1> DEFINE t == making[c]
<1>1. TypeOK /\ Dispatch(e) /\ IdleReady /\ LiveOK /\ MakingOK
  BY DEF IInv
<1>2. /\ t # NoTask /\ making' = [making EXCEPT ![c] = NoTask]
      /\ k' = IF k.status[t] = {"SUSPEND"}
              THEN MakeReady(SetFlags(k, t, {"SUSPEND"}, {}), t)
              ELSE [k EXCEPT !.fault = TRUE]
      /\ newTask' = osPriqueueTop(k')
      /\ pendSV' = (pendSV \/ (scheduled /\ taskLock = 0 /\ runTask # newTask'))
      /\ UNCHANGED <<runTask, taskLock, scheduled, slice, scan, pc>>
  BY DEF LOS_TaskCreate
<1>3. scan.at = "off" /\ ~Unsettled
  BY <1>1 DEF LOS_TaskCreate, TaskRuns, Dispatch, Running, Unsettled
<1>4. /\ t \in UserTask /\ t \in TaskID /\ t # Idle
      /\ Misuse = {} => k.status[t] = {"SUSPEND"}
  BY <1>1, <1>2, ContextFacts DEF MakingOK
<1> HIDE DEF t
<1>6. /\ KernelOK(k') /\ k'.pend = k.pend /\ k'.timer = k.timer /\ k'.ticks = k.ticks
      /\ k'.fault = k.fault \/ Misuse # {}
      /\ \A u \in TaskID : k'.status[u] = IF u = t /\ k.status[t] = {"SUSPEND"}
                                        THEN {"READY"} ELSE k.status[u]
  BY <1>2, <1>4, CompleteOK
<1>8. ASSUME NEW u \in TaskID, NEW f, f \notin {"SUSPEND", "READY"}
      PROVE  f \in k'.status[u] <=> f \in k.status[u]
  BY <1>6, <1>8
<1>9. SameRunning /\ "READY" \in k'.status[Idle]
  <2>1. SameRunning
    BY <1>8 DEF SameRunning
  <2> QED BY <1>1, <1>4, <1>6, <2>1, ContextFacts DEF IdleReady
<1>10. ASSUME NEW u \in TaskID PROVE Timed(k', u) <=> Timed(k, u)
  BY <1>8, TimedSame
<1>11. newTask' \in TaskID /\ Urgent(newTask)'
  BY <1>2, <1>6, <1>9, NewTop
<1>12. \A u \in TaskID : "READY" \in k.status[u] => "READY" \in k'.status[u]
  BY <1>6
<1>13. Dispatch(e)'
  <2>1. "READY" \in k'.status[newTask']
    BY <1>11 DEF Urgent
  <2>2. /\ ~scheduled' => runTask' = Dummy /\ ~pendSV' /\ taskLock' = 0 /\ scan'.at = "off"
        /\ scheduled' /\ runTask' = Dummy => pendSV'
        /\ pendSV' => taskLock' = 0
    BY <1>1, <1>2 DEF Dispatch, Running, Settled
  <2>3. runTask' \in TaskID /\ "READY" \notin k'.status[runTask'] =>
          taskLock' = 0 /\ (pendSV' \/ pc'[runTask'] \in {"sched", "wait"})
    BY <1>1, <1>2, <1>12 DEF Dispatch, Running
  <2>4. runTask' \in TaskID /\ ~pendSV' /\ taskLock' = 0 => Urgent(runTask)'
    <3> SUFFICES ASSUME runTask' \in TaskID, ~pendSV', taskLock' = 0
                 PROVE  Urgent(runTask)'
      OBVIOUS
    <3>1. scheduled /\ runTask' = newTask'
      BY <1>1, <1>2, ContextFacts DEF Dispatch, Running, Settled
    <3> QED BY <1>11, <3>1
  <2>5. \A u \in TaskID : "RUNNING" \in k'.status[u] <=> u = runTask'
    BY <1>1, <1>2, <1>9 DEF Dispatch, Running, Settled, SameRunning
  <2>6. Running'
    BY <2>1, <2>2, <2>3, <2>5 DEF Running
  <2>7. Settled'
    BY <1>11, <2>4 DEF Settled
  <2> QED BY <2>6, <2>7 DEF Dispatch
<1>15. pendSV' \in BOOLEAN
  BY <1>1, <1>2 DEF TypeOK
<1>16. WaitersKept /\ LiveOK'
  <2>1. ASSUME NEW u \in TaskID, NEW f \in WaitFlag PROVE f \in k'.status[u] <=> f \in k.status[u]
    BY <1>8 DEF WaitFlag, Waiting
  <2>2. \A u \in TaskID : k'.status[u] \cap ({"UNUSED", "READY"} \cup Blocked) # {}
    BY <1>1, <1>6 DEF LiveOK
  <2>3. PcKept
    BY <1>2 DEF PcKept
  <2> QED BY <1>1, <1>6, <2>1, <2>2, <2>3, OrdinaryOK
<1>17. MakingOK'
  <2>1. /\ making' \in [Creator -> UserTask \cup {NoTask}]
        /\ \A d \in Creator : making'[d] = IF d = c THEN NoTask ELSE making[d]
    BY <1>1, <1>2 DEF MakingOK
  <2>2. ASSUME Misuse = {}, NEW d \in Creator, making'[d] # NoTask
        PROVE  k'.status[making'[d]] = {"SUSPEND"}
    <3>1. d # c /\ making'[d] = making[d] /\ making[d] # t
      BY <1>1, <1>2, <2>1, <2>2 DEF MakingOK, t
    <3>2. making[d] \in TaskID /\ k.status[making[d]] = {"SUSPEND"}
      BY <1>1, <2>2, <3>1, ContextFacts DEF MakingOK
    <3> QED BY <1>6, <3>1, <3>2
  <2>3. ASSUME Misuse = {}, NEW a \in Creator, NEW b \in Creator, making'[a] = making'[b], making'[a] # NoTask
        PROVE  a = b
    BY <1>1, <2>1, <2>3 DEF MakingOK
  <2> QED BY <2>1, <2>2, <2>3 DEF MakingOK
<1> QED BY <1>1, <1>2, <1>3, <1>6, <1>9, <1>10, <1>11, <1>13, <1>15, <1>16, <1>17, UntimedCallOK DEF TypeOK

\* LOS_TaskDelete first takes the control block off the list it is on; base is
\* the result with the wait flags cleared, as the deletion will leave them.
Unlinked(base, off, u) ==
  /\ KernelOK(base)
  /\ base.status[u] \cap ({"READY", "UNUSED"} \cup Waiting) = {}
  /\ base.prio = off.prio /\ base.queue = off.queue
  /\ base.bitmap = off.bitmap /\ base.pend = off.pend
  /\ base.free = off.free /\ base.recycle = off.recycle
  /\ base.status = [off.status EXCEPT ![u] = base.status[u]]

\* The deletion takes the task off its ready queue or wait list, and no other task.
LEMMA UnlinkOK ==
  ASSUME NEW kk, KernelOK(kk), NEW u \in TaskID, "UNUSED" \notin kk.status[u],
         NEW off,
         off = IF "READY" \in kk.status[u] THEN MakeUnready(kk, u)
               ELSE IF kk.status[u] \cap Waiting # {} THEN ListDelete(kk, u) ELSE kk
  PROVE  /\ off \in KernelType /\ SameRest(kk, off) /\ off.prio = kk.prio
         /\ \A t \in TaskID : t # u => off.status[t] = kk.status[t]
         /\ \A o \in PendObj : \A v : v # u => (IsOn(off.pend[o], v) <=> IsOn(kk.pend[o], v))
         /\ \E base : Unlinked(base, off, u)
<1>1. kk \in KernelType /\ OneList(kk) /\ ReadyQueueExact(kk)
      /\ kk.status \in [TaskID -> SUBSET Flag]
  BY DEF KernelOK, KernelType
<1>2. CASE "READY" \in kk.status[u]
  <2>1. off = MakeUnready(kk, u)
    BY <1>2
  <2>2. /\ KernelOK(off) /\ SameRest(kk, off) /\ off.prio = kk.prio /\ off.pend = kk.pend
        /\ off.status = [kk.status EXCEPT ![u] = @ \ {"READY"}]
    BY <1>2, <2>1, MakeUnreadyOK
  <2>3. off.status[u] \cap ({"READY", "UNUSED"} \cup Waiting) = {}
    BY <1>1, <1>2, <2>2 DEF OneList, Waiting, Blocked
  <2>4. off \in KernelType /\ off.status = [off.status EXCEPT ![u] = off.status[u]]
    BY <2>2 DEF KernelOK, KernelType
  <2> QED BY <1>1, <2>2, <2>3, <2>4 DEF Unlinked
<1>3. CASE "READY" \notin kk.status[u] /\ kk.status[u] \cap Waiting # {}
  <2> DEFINE base == SetFlags(ListDelete(kk, u), u, Waiting, {})
  <2>1. off = ListDelete(kk, u)
    BY <1>3
  <2>2. base = SetFlags(off, u, Waiting, {})
    BY <2>1
  <2>3. /\ KernelOK(base) /\ SameRest(kk, base) /\ base.prio = kk.prio
        /\ base.status = [kk.status EXCEPT ![u] = @ \ Waiting]
        /\ \A o \in PendObj : \A v : IsOn(base.pend[o], v) <=> IsOn(kk.pend[o], v) /\ v # u
    BY <1>3, UnpendOK
  <2>4. PendNodeLinked(kk, u)
    BY <1>1, <1>3 DEF PendNodeLinked, OneList
  <2>5. /\ off.status = kk.status /\ off.prio = kk.prio /\ SameRest(kk, off)
        /\ off = [kk EXCEPT !.queue = off.queue, !.pend = off.pend]
    BY <1>1, <2>1, <2>4 DEF ListDelete, KernelType, SameRest
  <2> HIDE DEF base
  <2>6. /\ base.queue = off.queue /\ base.bitmap = off.bitmap /\ base.pend = off.pend
        /\ base.free = off.free /\ base.recycle = off.recycle /\ off.bitmap = kk.bitmap
    BY <1>1, <2>2, <2>5 DEF SetFlags, KernelType
  <2>7. off \in KernelType
    <3>1. base.queue \in [Prio -> Seq(TaskID)] /\ base.pend \in [PendObj -> Seq(TaskID)]
      BY <2>3 DEF KernelOK, KernelType
    <3> QED BY <1>1, <2>5, <2>6, <3>1 DEF KernelType
  <2>8. base.status[u] \cap ({"READY", "UNUSED"} \cup Waiting) = {}
    BY <1>1, <1>3, <2>3
  <2>9. base.status = [off.status EXCEPT ![u] = base.status[u]]
    BY <1>1, <2>3, <2>5
  <2> QED BY <2>3, <2>5, <2>6, <2>7, <2>8, <2>9 DEF Unlinked
<1>4. CASE "READY" \notin kk.status[u] /\ kk.status[u] \cap Waiting = {}
  <2>1. off = kk /\ kk.status = [kk.status EXCEPT ![u] = kk.status[u]]
    BY <1>1, <1>4
  <2> QED BY <1>1, <1>4, <2>1 DEF SameRest, Unlinked
<1> QED BY <1>2, <1>3, <1>4

\* LOS_TaskDelete keeps the invariant.
LEMMA DeleteStep ==
  ASSUME NEW e \in BOOLEAN, IInv(e), Unnested, NEW c, NEW u \in UserTask, LOS_TaskDelete(c, u)
  PROVE  IInv(e)' /\ WaitersKept
<1> DEFINE was == k.status[u]
           off == IF "READY" \in was THEN MakeUnready(k, u)
                  ELSE IF was \cap Waiting # {} THEN ListDelete(k, u) ELSE k
           timed == was \cap {"DELAY", "TIMEOUT"} # {}
           disarmed == IF timed THEN osTimerListDelete(off, u) ELSE off
           unused == [disarmed EXCEPT !.status[u] = {"UNUSED"}]
<1>1. /\ TypeOK /\ Dispatch(e) /\ IdleReady /\ LiveOK /\ KernelOK(k) /\ k \in KernelType
      /\ u \in TaskID /\ u # Idle /\ Timers /\ TicksOK /\ FaultOK /\ MakingOK
  BY InvKernel, ContextFacts DEF IInv
<1>2. /\ scan.at = "off" /\ scheduled /\ "UNUSED" \notin was /\ ~k.fault
      /\ Expired(u) \/ Made(u) => Misuse # {}
      /\ newTask' = osPriqueueTop(unused)
      /\ IF "RUNNING" \in was
         THEN /\ k' = [unused EXCEPT !.recycle = Append(@, u)]
              /\ runTask' = Dummy /\ pendSV' = TRUE /\ taskLock' = 0
         ELSE /\ k' = [unused EXCEPT !.free = <<u>> \o @]
              /\ UNCHANGED <<runTask, pendSV, taskLock>>
      /\ pc' = [pc EXCEPT ![u] = "app"] /\ making' = [making EXCEPT ![u] = NoTask]
      /\ UNCHANGED <<scheduled, slice, scan>>
  <2>1. MayCall(c, "delete")
    BY DEF LOS_TaskDelete
  <2> QED BY <2>1, MayCallFacts DEF LOS_TaskDelete
<1>3. /\ off \in KernelType /\ SameRest(k, off) /\ off.prio = k.prio
      /\ \A t \in TaskID : t # u => off.status[t] = k.status[t]
      /\ \A o \in PendObj : \A v : v # u => (IsOn(off.pend[o], v) <=> IsOn(k.pend[o], v))
  <2>1. KernelOK(k) /\ u \in TaskID /\ "UNUSED" \notin k.status[u]
    BY <1>1, <1>2
  <2>2. off = IF "READY" \in k.status[u] THEN MakeUnready(k, u)
              ELSE IF k.status[u] \cap Waiting # {} THEN ListDelete(k, u) ELSE k
    OBVIOUS
  <2> HIDE DEF off
  <2> QED BY <2>1, <2>2, UnlinkOK
<1>0. PICK base : Unlinked(base, off, u)
  BY <1>1, <1>2, UnlinkOK
<1>4. /\ KernelOK(base)
      /\ base.status[u] \cap ({"READY", "UNUSED"} \cup Waiting) = {}
      /\ base.prio = off.prio /\ base.queue = off.queue
      /\ base.bitmap = off.bitmap /\ base.pend = off.pend
      /\ base.free = off.free /\ base.recycle = off.recycle
      /\ base.status = [off.status EXCEPT ![u] = base.status[u]]
  BY <1>0 DEF Unlinked
<1> HIDE DEF off
<1>5. TimerExact(k)
  BY <1>1, <1>2 DEF Timers
<1>6. IsOn(k.timer, u) => timed
  BY <1>1, <1>5 DEF TimerExact
<1>7. /\ disarmed \in KernelType
      /\ disarmed.status = off.status /\ disarmed.prio = off.prio
      /\ disarmed.queue = off.queue /\ disarmed.bitmap = off.bitmap
      /\ disarmed.pend = off.pend /\ disarmed.free = off.free
      /\ disarmed.recycle = off.recycle
      /\ IsInjective(disarmed.timer)
      /\ \A t : IsOn(disarmed.timer, t) <=> IsOn(k.timer, t) /\ t # u
      /\ \A t \in TaskID : t # u => disarmed.ticks[t] = k.ticks[t]
      /\ disarmed.fault => timed /\ ~IsOn(k.timer, u)
  <2>1. /\ off.timer = k.timer /\ off.ticks = k.ticks /\ off.fault = k.fault
        /\ k.timer \in Seq(TaskID) /\ IsInjective(k.timer)
    BY <1>1, <1>3, <1>5 DEF SameRest, KernelType, TimerExact
  <2>2. CASE timed /\ IsOn(k.timer, u)
    <3>1. /\ Without(off.timer, u) \in Seq(TaskID) /\ IsInjective(Without(off.timer, u))
          /\ \A t : IsOn(Without(off.timer, u), t) <=> IsOn(k.timer, t) /\ t # u
      BY <2>1, WithoutList
    <3>2. disarmed = [off EXCEPT !.timer = Without(@, u), !.ticks[u] = 0]
      BY <2>1, <2>2 DEF osTimerListDelete
    <3>3. disarmed \in KernelType
      <4>1. [off.ticks EXCEPT ![u] = 0] \in [TaskID -> Nat]
        BY <1>3 DEF KernelType
      <4> QED BY <1>3, <3>1, <3>2, <4>1 DEF KernelType
    <3>4. /\ disarmed.timer = Without(off.timer, u) /\ disarmed.fault = off.fault
          /\ disarmed.ticks = [off.ticks EXCEPT ![u] = 0]
          /\ disarmed.status = off.status /\ disarmed.prio = off.prio
          /\ disarmed.queue = off.queue /\ disarmed.bitmap = off.bitmap
          /\ disarmed.pend = off.pend /\ disarmed.free = off.free
          /\ disarmed.recycle = off.recycle
      BY <1>3, <3>2 DEF KernelType
    <3>5. k.ticks \in [TaskID -> Nat]
      BY <1>1 DEF KernelType
    <3> HIDE DEF disarmed
    <3> QED BY <1>2, <2>1, <3>1, <3>3, <3>4, <3>5
  <2>3. CASE timed /\ ~IsOn(k.timer, u)
    <3>1. disarmed = [off EXCEPT !.fault = TRUE]
      BY <2>1, <2>3 DEF osTimerListDelete
    <3>2. disarmed \in KernelType
      BY <1>3, <3>1 DEF KernelType
    <3>3. /\ disarmed.timer = off.timer
          /\ disarmed.ticks = off.ticks
          /\ disarmed.status = off.status /\ disarmed.prio = off.prio
          /\ disarmed.queue = off.queue /\ disarmed.bitmap = off.bitmap
          /\ disarmed.pend = off.pend /\ disarmed.free = off.free
          /\ disarmed.recycle = off.recycle
      BY <1>3, <3>1 DEF KernelType
    <3> HIDE DEF disarmed
    <3> QED BY <2>1, <2>3, <3>2, <3>3
  <2>4. CASE ~timed
    BY <1>2, <1>3, <1>6, <2>1, <2>4
  <2> QED BY <2>2, <2>3, <2>4
<1> HIDE DEF disarmed
<1>8. /\ unused \in KernelType
      /\ unused.status = [disarmed.status EXCEPT ![u] = {"UNUSED"}]
      /\ unused.prio = disarmed.prio
      /\ unused.queue = disarmed.queue /\ unused.bitmap = disarmed.bitmap
      /\ unused.pend = disarmed.pend /\ unused.free = disarmed.free
      /\ unused.recycle = disarmed.recycle /\ unused.timer = disarmed.timer
      /\ unused.ticks = disarmed.ticks /\ unused.fault = disarmed.fault
  <2>1. {"UNUSED"} \in SUBSET Flag
    BY DEF Flag
  <2> QED BY <1>7, <2>1 DEF KernelType
<1> HIDE DEF unused
<1>9. /\ k' \in KernelType
      /\ k'.status = unused.status /\ k'.prio = unused.prio
      /\ k'.queue = unused.queue /\ k'.bitmap = unused.bitmap
      /\ k'.pend = unused.pend /\ k'.timer = unused.timer
      /\ k'.ticks = unused.ticks /\ k'.fault = unused.fault
      /\ \/ k'.free = <<u>> \o unused.free /\ k'.recycle = unused.recycle
         \/ k'.free = unused.free /\ k'.recycle = Append(unused.recycle, u)
  <2>1. unused.free \in Seq(UserTask) /\ unused.recycle \in Seq(UserTask)
    BY <1>8 DEF KernelType
  <2>2. <<u>> \o unused.free \in Seq(UserTask) /\ Append(unused.recycle, u) \in Seq(UserTask)
    BY <2>1, PrependList, AppendList
  <2>3. CASE "RUNNING" \in was
    <3>1. k' = [unused EXCEPT !.recycle = Append(@, u)]
      BY <1>2, <2>3
    <3> QED BY <1>8, <2>2, <3>1 DEF KernelType
  <2>4. CASE "RUNNING" \notin was
    <3>1. k' = [unused EXCEPT !.free = <<u>> \o @]
      BY <1>2, <2>4
    <3> QED BY <1>8, <2>2, <3>1 DEF KernelType
  <2> QED BY <2>3, <2>4
<1>10. \A t \in TaskID : k'.status[t] = IF t = u THEN {"UNUSED"} ELSE k.status[t]
  <2>1. off.status \in [TaskID -> SUBSET Flag]
    BY <1>3 DEF KernelType
  <2> QED BY <1>1, <1>3, <1>7, <1>8, <1>9, <2>1
<1>11. KernelOK(k')
  <2>1. k'.status = [base.status EXCEPT ![u] = {"UNUSED"}]
    <3>1. off.status \in [TaskID -> SUBSET Flag]
      BY <1>3 DEF KernelType
    <3>2. k'.status = [off.status EXCEPT ![u] = {"UNUSED"}]
      BY <1>7, <1>8, <1>9
    <3>3. [base.status EXCEPT ![u] = {"UNUSED"}] = [off.status EXCEPT ![u] = {"UNUSED"}]
      BY <1>4, <3>1
    <3> QED BY <3>2, <3>3
  <2>2. /\ k'.prio = base.prio /\ k'.queue = base.queue /\ k'.bitmap = base.bitmap
        /\ k'.pend = base.pend
        /\ \/ k'.free = <<u>> \o base.free /\ k'.recycle = base.recycle
           \/ k'.free = base.free /\ k'.recycle = Append(base.recycle, u)
    BY <1>4, <1>7, <1>8, <1>9
  <2> QED BY <1>4, <1>9, <2>1, <2>2, FreeOK
<1>12. "READY" \in k'.status[Idle]
  BY <1>1, <1>10, ContextFacts DEF IdleReady
<1>13. newTask' \in TaskID /\ Urgent(newTask)'
  <2>1. newTask' = osPriqueueTop(k')
    BY <1>2, <1>9 DEF osPriqueueTop
  <2> QED BY <1>11, <1>12, <2>1, NewTop
<1>14. TimerExact(k')
  <2>1. ASSUME NEW t \in TaskID PROVE IsOn(k'.timer, t) <=> Timed(k', t)
    <3>1. CASE t = u
      BY <1>7, <1>8, <1>9, <1>10, <3>1 DEF Timed
    <3>2. CASE t # u
      <4>1. IsOn(k'.timer, t) <=> IsOn(k.timer, t)
        BY <1>7, <1>8, <1>9, <3>2
      <4>2. k'.status[t] = k.status[t]
        BY <1>10, <3>2
      <4> QED BY <1>5, <4>1, <4>2 DEF Timed, TimerExact
    <3> QED BY <3>1, <3>2
  <2>2. IsInjective(k'.timer)
    BY <1>7, <1>8, <1>9
  <2> QED BY <2>1, <2>2 DEF TimerExact, Timed
<1>15. \A t \in TaskID : IsOn(k'.timer, t) => k'.ticks[t] > 0
  BY <1>1, <1>2, <1>7, <1>8, <1>9 DEF TicksOK
<1>16. FaultOK'
  <2> SUFFICES ASSUME k'.fault PROVE Misuse # {}
    BY DEF FaultOK
  <2>1. timed /\ ~IsOn(k.timer, u)
    BY <1>7, <1>8, <1>9
  <2>2. "TIMEOUT" \in k.status[u]
    BY <1>1, <1>5, <2>1 DEF TimerExact
  <2> QED BY <1>2, <2>1, <2>2 DEF Expired
<1>17. /\ pc' \in [TaskID -> {"app", "enter", "sched", "wait", "check"}]
       /\ \A t \in TaskID : t # u => pc'[t] = pc[t]
  BY <1>1, <1>2 DEF TypeOK
<1>18. "READY" \in k'.status[newTask']
  BY <1>13 DEF Urgent
<1>21. WaitersKept /\ LiveOK'
  <2>1. Deleted(u)
    BY <1>1, <1>2, <1>10, <1>17 DEF Deleted, TypeOK
  <2>2. ASSUME NEW t \in TaskID \ {u} PROVE Untouched(t)
    <3>1. k'.status[t] = k.status[t] /\ pc'[t] = pc[t]
      BY <1>10, <1>17
    <3>2. \A o \in PendObj : IsOn(k'.pend[o], t) <=> IsOn(k.pend[o], t)
      BY <1>3, <1>7, <1>8, <1>9
    <3> QED BY <3>1, <3>2 DEF Untouched, InCall
  <2>3. LiveOK'
    BY <1>1, <1>10, <1>17, <2>1 DEF LiveOK, Deleted
  <2> QED BY <1>1, <2>1, <2>2, <2>3 DEF WaitersKept
<1>22. MakingOK'
  <2>1. /\ making' \in [Creator -> UserTask \cup {NoTask}]
        /\ \A d \in Creator : making'[d] = IF d = u THEN NoTask ELSE making[d]
    BY <1>1, <1>2 DEF MakingOK
  <2>2. ASSUME Misuse = {}, NEW d \in Creator, making'[d] # NoTask
        PROVE  k'.status[making'[d]] = {"SUSPEND"}
    <3>1. making'[d] = making[d] /\ making[d] # u
      BY <1>2, <2>1, <2>2 DEF Made
    <3>2. making[d] \in TaskID /\ k.status[making[d]] = {"SUSPEND"}
      BY <1>1, <2>2, <3>1, ContextFacts DEF MakingOK
    <3> QED BY <1>10, <3>1, <3>2
  <2>3. ASSUME Misuse = {}, NEW a \in Creator, NEW b \in Creator, making'[a] = making'[b], making'[a] # NoTask
        PROVE  a = b
    BY <1>1, <2>1, <2>3 DEF MakingOK
  <2> QED BY <2>1, <2>2, <2>3 DEF MakingOK
<1>19. CASE "RUNNING" \in was
  <2>1. /\ runTask' = Dummy /\ pendSV' = TRUE /\ taskLock' = 0
        /\ UNCHANGED <<scheduled, slice, scan>>
    BY <1>2, <1>19
  <2>2. \A t \in TaskID : "RUNNING" \in k'.status[t] <=> t = Dummy
    BY <1>1, <1>10, <1>19, ContextFacts DEF Dispatch, Running, Settled
  <2>3. Dispatch(e)'
    <3>1. Running'
      BY <1>2, <1>13, <1>18, <2>1, <2>2, ContextFacts DEF Running
    <3>2. Settled'
      BY <1>13, <2>1, ContextFacts DEF Settled
    <3> QED BY <3>1, <3>2 DEF Dispatch
  <2> QED BY <1>1, <1>2, <1>11, <1>12, <1>13, <1>14, <1>15, <1>16, <1>17, <1>21, <1>22, <2>1, <2>3,
             ContextFacts, CallOK DEF TypeOK
<1>20. CASE "RUNNING" \notin was
  <2>1. UNCHANGED <<runTask, pendSV, taskLock, scheduled, slice, scan>>
    BY <1>2, <1>20
  <2>2. runTask # u
    BY <1>1, <1>20 DEF Dispatch, Running, Settled
  <2>3. \A t \in TaskID : "RUNNING" \in k'.status[t] <=> t = runTask
    BY <1>1, <1>10, <1>20 DEF Dispatch, Running, Settled
  <2>4. ASSUME runTask \in TaskID, Urgent(runTask) PROVE Urgent(runTask)'
    <3>1. k'.prio = k.prio
      BY <1>3, <1>7, <1>8, <1>9
    <3> QED BY <1>10, <2>1, <2>2, <2>4, <3>1 DEF Urgent
  <2>5. runTask \in TaskID => k'.status[runTask] = k.status[runTask] /\ pc'[runTask] = pc[runTask]
    BY <1>10, <1>17, <2>2
  <2>6. e /\ runTask' \in TaskID /\ ~pendSV' /\ pc'[runTask'] \in {"app", "enter", "check"}
          /\ taskLock' = 0 /\ ~Unsettled' => Urgent(runTask)'
    BY <1>1, <2>1, <2>4, <2>5 DEF Dispatch, Settled, Unsettled
  <2>7. Dispatch(e)'
    <3>1. Running'
      BY <1>1, <1>2, <1>13, <1>18, <2>1, <2>3, <2>5 DEF Dispatch, Running
    <3>2. e => Settled'
      BY <1>13, <2>1, <2>6 DEF Settled
    <3> QED BY <3>1, <3>2 DEF Dispatch
  <2> QED BY <1>1, <1>2, <1>11, <1>12, <1>13, <1>14, <1>15, <1>16, <1>17, <1>21, <1>22, <2>1, <2>7,
             CallOK DEF TypeOK
<1> QED BY <1>19, <1>20

-----------------------------------------------------------------------------
(* The tick interrupt                                                      *)

\* The end of a slice rotates the queue; LOS_Schedule then sees the result.
LEMMA TickHandlerStep ==
  ASSUME NEW e \in BOOLEAN, IInv(e), Unnested, osTickHandler
  PROVE  IInv(e)' /\ WaitersKept
<1> DEFINE yields == SliceLeft = 0 /\ Yields(k)
           rotated == IF yields THEN ToTail(k, runTask) ELSE k
           ticks == [t \in TaskID |->
                       IF IsOn(k.timer, t) THEN k.ticks[t] - 1 ELSE k.ticks[t]]
<1>1. /\ TypeOK /\ Dispatch(e) /\ IdleReady /\ KernelOK(k) /\ k \in KernelType
      /\ Timers /\ TicksOK /\ FaultOK /\ SliceOK /\ LiveOK
  BY InvKernel DEF IInv
<1>2. /\ scan.at = "off" /\ scheduled /\ k' = [rotated EXCEPT !.ticks = ticks]
      /\ IF yields THEN LOS_Schedule ELSE UNCHANGED <<newTask, pendSV>>
      /\ slice' = IF SliceLeft = 0 THEN [task |-> NoTask, left |-> 0]
                  ELSE [task |-> runTask, left |-> SliceLeft]
      /\ scan' = [ScanOff EXCEPT !.at = "scan"]
      /\ UNCHANGED <<runTask, taskLock, scheduled, making, pc>>
  BY DEF osTickHandler, IsrRuns
<1>3. /\ KernelOK(rotated) /\ SameRest(k, rotated) /\ rotated.status = k.status
      /\ rotated.prio = k.prio /\ rotated \in KernelType /\ rotated.pend = k.pend
  <2>1. CASE yields
    <3>1. runTask \in TaskID /\ "READY" \in k.status[runTask]
      BY <1>1, <2>1 DEF TypeOK, Yields
    <3>2. rotated = osPriqueueEnqueue(ListDelete(k, runTask), runTask)
      BY <2>1 DEF ToTail
    <3> HIDE DEF rotated
    <3> QED BY <1>1, <3>1, <3>2, ToTailOK DEF KernelOK
  <2>2. CASE ~yields
    BY <1>1, <2>2 DEF SameRest
  <2> QED BY <2>1, <2>2
<1> HIDE DEF rotated
<1>4. ticks \in [TaskID -> Nat]
  BY <1>1, <1>2 DEF TicksOK, KernelType
<1> HIDE DEF ticks
<1>5. /\ k' \in KernelType /\ k'.status = rotated.status /\ k'.prio = rotated.prio
      /\ k'.queue = rotated.queue /\ k'.bitmap = rotated.bitmap /\ k'.pend = rotated.pend
      /\ k'.free = rotated.free /\ k'.recycle = rotated.recycle
      /\ k'.timer = rotated.timer /\ k'.fault = rotated.fault
  BY <1>2, <1>3, <1>4 DEF KernelType
<1>6. KernelOK(k')
  BY <1>3, <1>5, TimersApart
<1>7. /\ k'.status = k.status /\ k'.prio = k.prio /\ k'.pend = k.pend
      /\ k'.timer = k.timer /\ k'.fault = k.fault
  BY <1>3, <1>5 DEF SameRest
<1>8. TimerExact(k') /\ FaultOK' /\ IdleReady'
  BY <1>1, <1>2, <1>7 DEF Timers, TimerExact, FaultOK, IdleReady
<1>9. scan' = [at |-> "scan", task |-> NoTask, was |-> {}, resched |-> FALSE]
  BY <1>2 DEF ScanOff
<1>10. /\ slice' \in [task : TaskID \cup {Dummy, NoTask}, left : 0 .. TIMESLICE]
       /\ slice'.task # NoTask => slice'.left > 0
  <2>1. SliceLeft \in 0 .. TIMESLICE
    BY <1>1, ContextFacts DEF TypeOK, SliceOK, SliceLeft
  <2>2. CASE SliceLeft = 0
    BY <1>2, <2>2, ContextFacts
  <2>3. CASE SliceLeft # 0
    BY <1>1, <1>2, <2>1, <2>3, ContextFacts DEF TypeOK
  <2> QED BY <2>2, <2>3
<1>11. Dispatch(e)' /\ newTask' \in TaskID /\ pendSV' \in BOOLEAN
  <2>1. /\ ~Unsettled /\ ~Unsettled'
        /\ \A t \in TaskID : Urgent(t) <=> Urgent(t)'
    BY <1>2, <1>7, <1>9 DEF Unsettled, Urgent
  <2>2. CASE yields
    <3>1. newTask' = osPriqueueTop(k') /\ pendSV' = (pendSV \/ (runTask # newTask' /\ taskLock = 0))
      BY <1>2, <2>2 DEF LOS_Schedule
    <3>2. newTask' \in TaskID /\ Urgent(newTask)'
      BY <1>6, <1>8, <3>1, NewTop DEF IdleReady
    <3>3. "READY" \in k'.status[newTask']
      BY <3>2 DEF Urgent
    <3>4. ~pendSV' /\ taskLock = 0 => Urgent(runTask)'
      BY <1>2, <3>1, <3>2
    <3>5. pendSV' \in BOOLEAN /\ (pendSV' => taskLock = 0) /\ (pendSV => pendSV')
      BY <1>1, <3>1 DEF TypeOK, Dispatch, Running, Settled
    <3>6. Running'
      BY <1>1, <1>2, <1>7, <3>2, <3>3, <3>5 DEF Dispatch, Running
    <3>7. Settled'
      BY <1>2, <3>2, <3>4 DEF Settled
    <3> QED BY <3>2, <3>5, <3>6, <3>7 DEF Dispatch
  <2>3. CASE ~yields
    <3>1. UNCHANGED <<newTask, pendSV>>
      BY <1>2, <2>3
    <3>2. newTask \in TaskID /\ pendSV \in BOOLEAN
      BY <1>1 DEF TypeOK
    <3>3. e => Settled'
      BY <1>1, <1>2, <1>7, <2>1, <3>1, <3>2 DEF Dispatch, Settled, Urgent
    <3>4. Running'
      BY <1>1, <1>2, <1>7, <3>1 DEF Dispatch, Running
    <3> QED BY <3>1, <3>2, <3>3, <3>4 DEF Dispatch
  <2> QED BY <2>2, <2>3
<1>12. TypeOK'
  <2>1. scan' \in [at : {"off", "scan", "expire"}, task : TaskID \cup {NoTask},
                   was : SUBSET Flag, resched : BOOLEAN]
    BY <1>9
  <2> QED BY <1>1, <1>2, <1>5, <1>10, <1>11, <2>1 DEF TypeOK
<1>13. Timers' /\ ScanOK' /\ TicksOK' /\ SliceOK'
  BY <1>8, <1>9, <1>10 DEF Timers, ScanOK, TicksOK, SliceOK
<1>14. WaitersKept /\ LiveOK'
  <2>1. PcKept
    BY <1>2 DEF PcKept
  <2> QED BY <1>1, <1>7, <2>1, OrdinaryOK
<1>15. MakingOK'
  BY <1>2, <1>7, MakingKept DEF SuspendedKept
<1> QED BY <1>6, <1>8, <1>11, <1>12, <1>13, <1>14, <1>15 DEF IInv, KernelOK, ReadyQueues, ListNodes

\* The first half of a wake-up, off the timer list, keeps the invariant.
LEMMA ScanUnlinkStep ==
  ASSUME NEW e \in BOOLEAN, IInv(e), ScanUnlink
  PROVE  IInv(e)' /\ WaitersKept
<1> DEFINE t == k.timer[Min(Due)]
<1>1. /\ TypeOK /\ Dispatch(e) /\ IdleReady /\ KernelOK(k) /\ k \in KernelType
      /\ Timers /\ FaultOK /\ SliceOK /\ LiveOK /\ k.timer \in Seq(TaskID)
  BY InvKernel DEF IInv, KernelType
<1>2. /\ scan.at = "scan" /\ Due # {} /\ k' = [k EXCEPT !.timer = Without(@, t)]
      /\ scan' = [scan EXCEPT !.at = "expire", !.task = t, !.was = k.status[t]]
      /\ UNCHANGED <<sched, slice, pc>>
  BY DEF ScanUnlink
<1>3. t \in TaskID /\ IsOn(k.timer, t)
  <2>1. Due \subseteq 1 .. Len(k.timer) /\ Due \in SUBSET Nat
    BY <1>1 DEF Due
  <2>2. Min(Due) \in 1 .. Len(k.timer)
    BY <1>2, <2>1, MinNat
  <2> QED BY <1>1, <2>2 DEF IsOn, Contains
<1> HIDE DEF t
<1>4. TimerExact(k)
  BY <1>1, <1>2 DEF Timers
<1>5. /\ Without(k.timer, t) \in Seq(TaskID) /\ IsInjective(Without(k.timer, t))
      /\ \A u : IsOn(Without(k.timer, t), u) <=> IsOn(k.timer, u) /\ u # t
  BY <1>1, <1>4, WithoutList DEF TimerExact
<1>6. /\ k' \in KernelType /\ k'.status = k.status /\ k'.prio = k.prio
      /\ k'.queue = k.queue /\ k'.bitmap = k.bitmap /\ k'.pend = k.pend
      /\ k'.free = k.free /\ k'.recycle = k.recycle
      /\ k'.timer = Without(k.timer, t) /\ k'.fault = k.fault
  BY <1>1, <1>2, <1>5 DEF KernelType
<1>7. KernelOK(k')
  BY <1>1, <1>6, TimersApart
<1>8. /\ scan'.at = "expire" /\ scan'.task = t /\ scan'.was = k.status[t]
      /\ scan'.resched = scan.resched
  BY <1>1, <1>2 DEF TypeOK
<1>9. TypeOK'
  <2>1. k.status[t] \in SUBSET Flag
    BY <1>1, <1>3 DEF KernelType
  <2> QED BY <1>1, <1>2, <1>3, <1>6, <1>8, <2>1 DEF TypeOK, sched
<1>10. Dispatch(e)' /\ PcKept
  <2>1. SameRunning /\ Unsettled' = Unsettled
    BY <1>2, <1>6, <1>8 DEF SameRunning, Unsettled
  <2> QED BY <1>2, <1>6, <1>8, <2>1, QuietOK DEF sched
<1>11. ScanOK'
  <2>1. \A u \in TaskID : Timed(k', u) <=> Timed(k, u)
    BY <1>6 DEF Timed
  <2>2. \A u \in TaskID : IsOn(k.timer, u) <=> Timed(k, u)
    BY <1>4 DEF TimerExact, Timed
  <2> QED BY <1>3, <1>5, <1>6, <1>8, <2>1, <2>2 DEF ScanOK
<1>12. Timers' /\ TicksOK' /\ SliceOK' /\ FaultOK' /\ IdleReady'
  BY <1>1, <1>2, <1>6, <1>8 DEF Timers, TicksOK, SliceOK, FaultOK, IdleReady
<1>13. WaitersKept /\ LiveOK'
  BY <1>1, <1>6, <1>10, OrdinaryOK
<1>14. MakingOK'
  BY <1>2, <1>6, MakingKept DEF SuspendedKept, sched
<1> QED BY <1>7, <1>9, <1>10, <1>11, <1>12, <1>13, <1>14 DEF IInv, KernelOK, ReadyQueues, ListNodes

\* One woken task: off its wait list, ready unless it is suspended.
LEMMA ExpireOK ==
  ASSUME NEW kk, KernelOK(kk), NEW t \in TaskID, Timed(kk, t),
         NEW r, r = ScanExpire(kk, t, kk.status[t])
  PROVE  /\ KernelOK(r) /\ SameRest(kk, r) /\ r.prio = kk.prio /\ ~Timed(r, t)
         /\ \A u \in TaskID : u # t => r.status[u] = kk.status[u]
         /\ "RUNNING" \in r.status[t] <=> "RUNNING" \in kk.status[t]
         /\ "READY" \notin kk.status[t]
         /\ "SUSPEND" \in kk.status[t] => "READY" \notin r.status[t]
         /\ r.status[t] \cap {"READY", "SUSPEND"} # {}
         /\ r.status[t] \ {"READY"} = kk.status[t] \ ({"DELAY"} \cup Waiting)
         /\ \A o \in PendObj : \A u : u # t => (IsOn(r.pend[o], u) <=> IsOn(kk.pend[o], u))
<1> DEFINE was == kk.status[t]
           off == IF "PEND" \in was THEN {"PEND"} ELSE {"PEND_QUEUE"}
           released == IF was \cap Waiting # {}
                       THEN SetFlags(ListDelete(kk, t), t, off, {})
                       ELSE SetFlags(kk, t, {"DELAY"}, {})
<1>1. /\ kk \in KernelType /\ OneList(kk) /\ kk.status \in [TaskID -> SUBSET Flag]
      /\ "READY" \notin was /\ "UNUSED" \notin was
      /\ "DELAY" \in was \/ was \cap Waiting # {}
  <2>1. /\ kk \in KernelType /\ OneList(kk) /\ kk.status \in [TaskID -> SUBSET Flag]
        /\ "DELAY" \in was \/ was \cap Waiting # {}
    BY DEF KernelOK, KernelType, Timed
  <2> QED BY <2>1 DEF OneList, Blocked, Waiting
<1>2. r = IF "SUSPEND" \in was THEN released ELSE MakeReady(released, t)
  BY DEF ScanExpire
<1>3. /\ KernelOK(released) /\ SameRest(kk, released) /\ released.prio = kk.prio
      /\ \A u \in TaskID : u # t => released.status[u] = kk.status[u]
      /\ released.status[t] = was \ ({"DELAY"} \cup Waiting)
      /\ \A o \in PendObj : \A u : u # t => (IsOn(released.pend[o], u) <=> IsOn(kk.pend[o], u))
  <2>1. CASE was \cap Waiting # {}
    <3>1. released = SetFlags(ListDelete(kk, t), t, off, {})
      BY <2>1
    <3>2. /\ off \in SUBSET Waiting /\ was \cap Waiting \subseteq off
          /\ "DELAY" \notin was
      BY <1>1, <2>1 DEF OneList, Waiting
    <3> HIDE DEF off, released
    <3>3. /\ KernelOK(released) /\ SameRest(kk, released) /\ released.prio = kk.prio
          /\ released.status = [kk.status EXCEPT ![t] = @ \ off]
          /\ \A o \in PendObj : \A u : IsOn(released.pend[o], u) <=> IsOn(kk.pend[o], u) /\ u # t
      BY <2>1, <3>1, <3>2, UnpendOK
    <3>4. was \ off = was \ ({"DELAY"} \cup Waiting)
      BY <3>2
    <3> QED BY <1>1, <3>3, <3>4
  <2>2. CASE was \cap Waiting = {}
    <3> DEFINE new == (was \ {"DELAY"}) \cup {}
    <3>1. released = SetFlags(kk, t, {"DELAY"}, {})
      BY <2>2
    <3>2. /\ {} \in SUBSET Flag /\ new = was \ {"DELAY"} /\ "UNUSED" \notin new
          /\ "READY" \notin new /\ "DELAY" \notin new
          /\ new \cap Waiting = was \cap Waiting
          /\ new = (was \ {"DELAY"}) \cup {}
      BY <1>1, <2>2 DEF Waiting
    <3> HIDE DEF new, released
    <3>3. /\ KernelOK(released) /\ SameRest(kk, released) /\ released.prio = kk.prio
          /\ released.status = [kk.status EXCEPT ![t] = new] /\ released.pend = kk.pend
      BY <1>1, <3>1, <3>2, StatusOK
    <3>4. new = was \ ({"DELAY"} \cup Waiting)
      BY <2>2, <3>2
    <3> QED BY <1>1, <3>3, <3>4
  <2> QED BY <2>1, <2>2
<1> HIDE DEF released
<1>4. CASE "SUSPEND" \in was
  <2>1. r = released
    BY <1>2, <1>4
  <2>2. /\ ~Timed(r, t) /\ ("RUNNING" \in r.status[t] <=> "RUNNING" \in kk.status[t])
        /\ "READY" \notin r.status[t] /\ "SUSPEND" \in r.status[t]
    BY <1>1, <1>3, <1>4, <2>1 DEF Timed, Waiting
  <2>3. r.status[t] \ {"READY"} = was \ ({"DELAY"} \cup Waiting)
    BY <1>3, <2>1, <2>2
  <2> QED BY <1>1, <1>3, <2>1, <2>2, <2>3
<1>5. CASE "SUSPEND" \notin was
  <2>1. r = MakeReady(released, t) /\ KernelOK(released)
    BY <1>2, <1>3, <1>5
  <2>2. released.status[t] \cap ({"READY", "UNUSED"} \cup Blocked) = {}
    BY <1>1, <1>3, <1>5 DEF Blocked
  <2>3. /\ KernelOK(r) /\ SameRest(released, r) /\ r.prio = released.prio
        /\ r.status = [released.status EXCEPT ![t] = @ \cup {"READY"}] /\ r.pend = released.pend
    BY <2>1, <2>2, MakeReadyOK
  <2>4. released.status \in [TaskID -> SUBSET Flag]
    BY <1>3 DEF KernelOK, KernelType
  <2>5. /\ r.status[t] = (was \ ({"DELAY"} \cup Waiting)) \cup {"READY"}
        /\ \A u \in TaskID : u # t => r.status[u] = kk.status[u]
    BY <1>3, <2>3, <2>4
  <2>6. SameRest(kk, r) /\ r.prio = kk.prio
    BY <1>3, <2>3 DEF SameRest
  <2>7. ~Timed(r, t) /\ ("RUNNING" \in r.status[t] <=> "RUNNING" \in kk.status[t])
    BY <2>5 DEF Timed, Waiting
  <2>8. r.status[t] \ {"READY"} = was \ ({"DELAY"} \cup Waiting) /\ "READY" \in r.status[t]
    BY <1>1, <2>5
  <2> QED BY <1>1, <1>3, <1>5, <2>3, <2>5, <2>6, <2>7, <2>8
<1> QED BY <1>4, <1>5

\* The second half of a wake-up, with the status read before, keeps the invariant.
LEMMA ScanWakeStep ==
  ASSUME NEW e \in BOOLEAN, IInv(e), ScanWake
  PROVE  IInv(e)' /\ WaitersKept
<1> DEFINE t == scan.task
<1>1. /\ TypeOK /\ Dispatch(e) /\ IdleReady /\ KernelOK(k) /\ OneList(k) /\ ScanOK
      /\ FaultOK /\ SliceOK /\ LiveOK
  BY InvKernel DEF IInv, KernelOK
<1>2. /\ scan.at = "expire" /\ k' = ScanExpire(k, t, scan.was)
      /\ scan' = [ScanOff EXCEPT !.at = "scan",
                    !.resched = scan.resched \/ "SUSPEND" \notin scan.was]
      /\ UNCHANGED <<sched, slice, pc>>
  BY DEF ScanWake
<1>3. /\ t \in TaskID /\ scan.was = k.status[t] /\ Timed(k, t)
      /\ \A u \in TaskID : IsOn(k.timer, u) <=> u # t /\ Timed(k, u)
      /\ IsInjective(k.timer)
  BY <1>1, <1>2 DEF ScanOK
<1>4. k' = ScanExpire(k, t, k.status[t])
  BY <1>2, <1>3
<1>5. /\ KernelOK(k') /\ SameRest(k, k') /\ k'.prio = k.prio /\ ~Timed(k', t)
      /\ \A u \in TaskID : u # t => k'.status[u] = k.status[u]
      /\ "RUNNING" \in k'.status[t] <=> "RUNNING" \in k.status[t]
      /\ "READY" \notin k.status[t]
      /\ "SUSPEND" \in k.status[t] => "READY" \notin k'.status[t]
      /\ k'.status[t] \cap {"READY", "SUSPEND"} # {}
      /\ k'.status[t] \ {"READY"} = k.status[t] \ ({"DELAY"} \cup Waiting)
      /\ \A o \in PendObj : \A u : u # t => (IsOn(k'.pend[o], u) <=> IsOn(k.pend[o], u))
  BY <1>1, <1>3, <1>4, ExpireOK
<1>6. /\ scan' = [at |-> "scan", task |-> NoTask, was |-> {},
                  resched |-> (scan.resched \/ "SUSPEND" \notin scan.was)]
      /\ scan.resched \in BOOLEAN
  BY <1>1, <1>2 DEF ScanOff, TypeOK
<1>7. TypeOK'
  <2>1. scan' \in [at : {"off", "scan", "expire"}, task : TaskID \cup {NoTask},
                   was : SUBSET Flag, resched : BOOLEAN]
    BY <1>6
  <2> QED BY <1>1, <1>2, <1>5, <2>1 DEF TypeOK, KernelOK, sched
<1>8. SameRunning /\ \A u \in TaskID : "READY" \in k.status[u] => "READY" \in k'.status[u]
  BY <1>5 DEF SameRunning
<1>9. Dispatch(e)'
  <2>1. CASE "SUSPEND" \in k.status[t]
    <3>1. \A u \in TaskID : "READY" \in k'.status[u] =>
            "READY" \in k.status[u] /\ k'.prio[u] = k.prio[u]
      BY <1>5, <2>1
    <3>2. Unsettled' = Unsettled /\ scan'.at # "off"
      BY <1>2, <1>3, <1>6, <2>1 DEF Unsettled
    <3>3. UNCHANGED <<runTask, newTask, pendSV, taskLock, scheduled, pc>>
      BY <1>2 DEF sched
    <3> QED BY <1>2, <1>8, <3>1, <3>2, <3>3, QuietOK
  <2>2. CASE "SUSPEND" \notin k.status[t]
    <3>1. Unsettled'
      BY <1>3, <1>6, <2>2 DEF Unsettled
    <3>2. scheduled /\ newTask \in TaskID
      BY <1>1, <1>2 DEF Dispatch, Running, Settled, TypeOK
    <3>3. Running'
      BY <1>1, <1>2, <1>8, <3>2 DEF Dispatch, Running, SameRunning, sched
    <3>4. Settled'
      BY <3>1 DEF Settled
    <3> QED BY <3>3, <3>4 DEF Dispatch
  <2> QED BY <2>1, <2>2
<1>10. Timers'
  <2>1. ASSUME NEW u \in TaskID PROVE IsOn(k'.timer, u) <=> Timed(k', u)
    BY <1>3, <1>5, <2>1 DEF SameRest, Timed
  <2>2. IsInjective(k'.timer)
    BY <1>3, <1>5 DEF SameRest
  <2> QED BY <2>1, <2>2 DEF Timers, TimerExact, Timed
<1>11. ScanOK' /\ TicksOK' /\ SliceOK' /\ FaultOK' /\ IdleReady'
  <2>1. k'.fault = k.fault /\ slice' = slice
    BY <1>2, <1>5 DEF SameRest
  <2> QED BY <1>1, <1>6, <1>8, <2>1, ContextFacts DEF ScanOK, TicksOK, SliceOK, FaultOK, IdleReady
<1>12. WaitersKept
  <2>1. pc' = pc
    BY <1>2
  <2>2. \A u \in TaskID \ {t} : Untouched(u)
    BY <1>5, <2>1 DEF Untouched, InCall
  <2>3. "UNUSED" \notin k.status[t]
    BY <1>1, <1>3 DEF OneList, Timed, Waiting
  <2>4. \A f \in {"UNUSED", "TIMEOUT"} : f \in k'.status[t] <=> f \in k.status[t]
    BY <1>5, <2>3 DEF Waiting
  <2>5. CASE "DELAY" \in k.status[t]
    <3>1. k.status[t] \cap Waiting = {}
      BY <1>1, <1>3, <2>5 DEF OneList, Waiting
    <3>2. \A f \in WaitFlag : f \in k'.status[t] <=> f \in k.status[t]
      BY <1>5, <2>3, <3>1 DEF WaitFlag, Waiting
    <3>3. \A o \in PendObj : ~IsOn(k.pend[o], t) /\ ~IsOn(k'.pend[o], t)
      <4>1. k'.status[t] \cap Waiting = {} /\ OneList(k')
        BY <1>5, <3>1 DEF KernelOK, Waiting
      <4> QED BY <1>1, <1>3, <3>1, <4>1 DEF OneList
    <3> QED BY <1>3, <2>1, <2>2, <3>2, <3>3 DEF WaitersKept, Untouched, InCall
  <2>6. CASE "DELAY" \notin k.status[t]
    <3>1. "TIMEOUT" \in k.status[t] /\ k.status[t] \cap Waiting # {}
      BY <1>3, <2>6 DEF Timed
    <3>2. k'.status[t] \cap WaitFlag = {"TIMEOUT"}
      BY <1>5, <2>3, <2>4, <3>1 DEF WaitFlag, Waiting
    <3> QED BY <1>3, <2>1, <2>2, <3>1, <3>2 DEF WaitersKept, TimedOut
  <2> QED BY <2>5, <2>6
<1>13. LiveOK'
  <2>1. "UNUSED" \notin k'.status[t] /\ k'.status[t] \cap ({"UNUSED", "READY"} \cup Blocked) # {}
    <3>1. "UNUSED" \notin k.status[t]
      BY <1>1, <1>3 DEF OneList, Timed, Waiting
    <3> QED BY <1>5, <3>1 DEF Blocked
  <2> QED BY <1>1, <1>2, <1>3, <1>5, <2>1 DEF LiveOK
<1>14. MakingOK'
  <2>1. k.status[t] # {"SUSPEND"}
    BY <1>3 DEF Timed
  <2> QED BY <1>2, <1>5, <2>1, MakingKept DEF SuspendedKept, sched
<1> QED BY <1>5, <1>7, <1>9, <1>10, <1>11, <1>12, <1>13, <1>14 DEF IInv, KernelOK, ReadyQueues, ListNodes

\* The end of the tick, with its LOS_Schedule, keeps the invariant.
LEMMA ScanEndStep ==
  ASSUME NEW e \in BOOLEAN, IInv(e), ScanEnd
  PROVE  IInv(e)' /\ WaitersKept
<1>1. /\ TypeOK /\ Dispatch(e) /\ IdleReady /\ KernelOK(k) /\ k \in KernelType
      /\ Timers /\ FaultOK /\ SliceOK /\ LiveOK
  BY InvKernel DEF IInv
<1>2. /\ scan.at = "scan" /\ Due = {} /\ scan' = ScanOff /\ k' = k
      /\ IF scan.resched THEN LOS_Schedule ELSE UNCHANGED <<newTask, pendSV>>
      /\ UNCHANGED <<runTask, taskLock, scheduled, making, slice, pc>>
  BY DEF ScanEnd
<1>3. scan' = [at |-> "off", task |-> NoTask, was |-> {}, resched |-> FALSE]
  BY <1>2 DEF ScanOff
<1>4. TicksOK'
  <2> SUFFICES ASSUME NEW t \in TaskID, IsOn(k.timer, t)
               PROVE  k.ticks[t] > 0
    BY <1>2 DEF TicksOK
  <2>1. PICK i \in 1 .. Len(k.timer) : k.timer[i] = t
    BY DEF IsOn, Contains
  <2>2. i \in DOMAIN k.timer /\ k.ticks[t] \in Nat
    BY <1>1, <2>1 DEF KernelType
  <2> QED BY <1>2, <2>1, <2>2 DEF Due
<1>5. scheduled
  BY <1>1, <1>2 DEF Dispatch, Running, Settled
<1>6. Dispatch(e)' /\ newTask' \in TaskID /\ pendSV' \in BOOLEAN
  <2>1. ~Unsettled'
    BY <1>3 DEF Unsettled
  <2>2. CASE scan.resched
    <3>1. newTask' = osPriqueueTop(k') /\ pendSV' = (pendSV \/ (runTask # newTask' /\ taskLock = 0))
      BY <1>2, <2>2 DEF LOS_Schedule
    <3>2. newTask' \in TaskID /\ Urgent(newTask)'
      BY <1>1, <1>2, <3>1, NewTop DEF IdleReady
    <3>3. "READY" \in k'.status[newTask']
      BY <3>2 DEF Urgent
    <3>4. ~pendSV' /\ taskLock = 0 => Urgent(runTask)'
      BY <1>2, <3>1, <3>2
    <3>5. pendSV' \in BOOLEAN /\ (pendSV' => taskLock = 0) /\ (pendSV => pendSV')
      BY <1>1, <3>1 DEF TypeOK, Dispatch, Running, Settled
    <3>6. Running'
      BY <1>1, <1>2, <1>5, <3>2, <3>3, <3>5 DEF Dispatch, Running
    <3>7. Settled'
      BY <1>2, <3>2, <3>4 DEF Settled
    <3> QED BY <3>2, <3>5, <3>6, <3>7 DEF Dispatch
  <2>3. CASE ~scan.resched
    <3>1. UNCHANGED <<newTask, pendSV>> /\ ~Unsettled
      BY <1>2, <2>3 DEF Unsettled
    <3>2. \A t \in TaskID : Urgent(t) <=> Urgent(t)'
      BY <1>2 DEF Urgent
    <3>3. newTask \in TaskID /\ pendSV \in BOOLEAN
      BY <1>1 DEF TypeOK
    <3>4. e => Settled'
      BY <1>1, <1>2, <1>5, <3>1, <3>2, <3>3 DEF Dispatch, Settled
    <3>5. Running'
      BY <1>1, <1>2, <1>5, <3>1 DEF Dispatch, Running
    <3> QED BY <3>1, <3>3, <3>4, <3>5 DEF Dispatch
  <2> QED BY <2>2, <2>3
<1>7. TypeOK'
  <2>1. scan' \in [at : {"off", "scan", "expire"}, task : TaskID \cup {NoTask},
                   was : SUBSET Flag, resched : BOOLEAN]
    BY <1>3
  <2> QED BY <1>1, <1>2, <1>6, <2>1 DEF TypeOK
<1>8. Timers' /\ ScanOK' /\ SliceOK' /\ FaultOK' /\ IdleReady'
  BY <1>1, <1>2, <1>3 DEF Timers, ScanOK, SliceOK, FaultOK, IdleReady
<1>9. WaitersKept /\ LiveOK'
  <2>1. PcKept
    BY <1>2 DEF PcKept
  <2> QED BY <1>1, <1>2, <2>1, OrdinaryOK
<1>10. MakingOK'
  BY <1>2, MakingKept DEF SuspendedKept
<1> QED BY <1>1, <1>2, <1>4, <1>6, <1>7, <1>8, <1>9, <1>10 DEF IInv, KernelOK, ReadyQueues, ListNodes

-----------------------------------------------------------------------------
(* The invariant                                                           *)

\* osTaskInit and the creation of the idle task establish the invariant.
LEMMA InitInv ==
  ASSUME NEW e \in BOOLEAN, Init
  PROVE  IInv(e)
<1> DEFINE free == [i \in 1 .. TSK_LIMIT |-> i]
<1>1. TSK_LIMIT \in Nat \ {0} /\ LOWEST \in Nat \ {0}
  BY LimitAssumption
<1>2. /\ free \in Seq(UserTask) /\ IsInjective(free)
      /\ \A t : IsOn(free, t) <=> t \in UserTask
  <2>1. TSK_LIMIT \in Nat /\ \A i \in 1 .. TSK_LIMIT : i \in UserTask
    BY <1>1 DEF UserTask, TaskID, Idle
  <2>2. free \in Seq(UserTask) /\ Len(free) = TSK_LIMIT
    BY <2>1
  <2>3. \A i \in 1 .. TSK_LIMIT : free[i] = i
    OBVIOUS
  <2>4. UserTask = 1 .. TSK_LIMIT
    BY <1>1 DEF UserTask, TaskID, Idle
  <2> HIDE DEF free
  <2>5. DOMAIN free = 1 .. TSK_LIMIT
    BY <2>2
  <2>6. IsInjective(free)
    BY <2>3, <2>5 DEF IsInjective
  <2> QED BY <2>2, <2>3, <2>4, <2>6 DEF IsOn, Contains
<1>3. /\ k.status = [t \in TaskID |-> IF t = Idle THEN {"READY"} ELSE {"UNUSED"}]
      /\ k.prio = [t \in TaskID |-> IF t = Idle THEN LOWEST ELSE 0]
      /\ k.queue = [p \in Prio |-> IF p = LOWEST THEN <<Idle>> ELSE <<>>]
      /\ k.bitmap = {LOWEST} /\ k.pend = [o \in PendObj |-> <<>>]
      /\ k.free = free /\ k.recycle = <<>> /\ k.timer = <<>>
      /\ k.ticks = [t \in TaskID |-> 0] /\ k.fault = FALSE
      /\ k = KernelInit
  BY DEF Init, KernelInit
<1>4. /\ runTask = Dummy /\ newTask = Idle /\ pendSV = FALSE /\ taskLock = 0
      /\ scheduled = FALSE /\ slice = [task |-> NoTask, left |-> 0]
      /\ scan = [at |-> "off", task |-> NoTask, was |-> {}, resched |-> FALSE]
      /\ pc = [t \in TaskID |-> "app"]
  BY DEF Init, ScanOff
<1>5. /\ LOWEST \in Prio /\ 0 \in Prio /\ Idle \in TaskID /\ UserTask = TaskID \ {Idle}
      /\ LOWEST # 0
  BY <1>1 DEF Prio, TaskID, Idle, UserTask
<1>6. /\ <<Idle>> \in Seq(TaskID) /\ IsInjective(<<Idle>>)
      /\ \A t : IsOn(<<Idle>>, t) <=> t = Idle
  BY <1>5 DEF IsInjective, IsOn, Contains
<1> HIDE DEF free
<1>7. k \in KernelType
  <2>1. /\ {"READY"} \in SUBSET Flag /\ {"UNUSED"} \in SUBSET Flag
        /\ <<>> \in Seq(UserTask) /\ <<>> \in Seq(TaskID)
    BY DEF Flag
  <2>2. k.status \in [TaskID -> SUBSET Flag] /\ k.prio \in [TaskID -> Prio]
    BY <1>3, <1>5, <2>1
  <2>3. k.queue \in [Prio -> Seq(TaskID)] /\ k.pend \in [PendObj -> Seq(TaskID)]
    BY <1>3, <1>6, <2>1
  <2>4. k.bitmap \in SUBSET Prio /\ k.ticks \in [TaskID -> Nat]
    BY <1>3, <1>5
  <2>5. k = [status |-> k.status, prio |-> k.prio, queue |-> k.queue, bitmap |-> k.bitmap,
             pend |-> k.pend, free |-> k.free, recycle |-> k.recycle, timer |-> k.timer,
             ticks |-> k.ticks, fault |-> k.fault]
    BY <1>3 DEF KernelInit
  <2> QED BY <1>2, <1>3, <2>1, <2>2, <2>3, <2>4, <2>5 DEF KernelType
<1>8. ReadyQueueExact(k)
  <2>1. ASSUME NEW t \in TaskID, NEW p \in Prio
        PROVE  IsOn(k.queue[p], t) <=> "READY" \in k.status[t] /\ k.prio[t] = p
    BY <1>3, <1>5, <1>6, EmptyList
  <2>2. ASSUME NEW p \in Prio PROVE IsInjective(k.queue[p])
    BY <1>3, <1>6, EmptyList
  <2>3. ASSUME NEW p \in Prio PROVE p \in k.bitmap <=> k.queue[p] # <<>>
    BY <1>3, <1>6, EmptyList
  <2> QED BY <2>1, <2>2, <2>3 DEF ReadyQueueExact
<1>9. /\ OneList(k) /\ TimerExact(k)
  <2>1. \A t \in TaskID : k.status[t] = IF t = Idle THEN {"READY"} ELSE {"UNUSED"}
    BY <1>3
  <2>2. \A o \in PendObj : k.pend[o] = <<>>
    BY <1>3
  <2>3. \A t \in TaskID : /\ IsOn(k.free, t) <=> t # Idle
                          /\ ~IsOn(k.recycle, t) /\ ~IsOn(k.timer, t)
    BY <1>2, <1>3, <1>5, EmptyList
  <2>4. IsInjective(k.free) /\ IsInjective(k.recycle) /\ IsInjective(k.timer)
    BY <1>2, <1>3, EmptyList
  <2>5. \A t \in TaskID : k.status[t] \cap Waiting = {} /\ k.status[t] \cap Blocked = {}
    BY <2>1 DEF Waiting, Blocked
  <2>6. OneList(k)
    <3>1. \A o \in PendObj, t \in TaskID : ~IsOn(k.pend[o], t)
      BY <2>2, EmptyList
    <3>2. \A o \in PendObj : IsInjective(k.pend[o])
      BY <2>2, EmptyList
    <3>3. \A t \in TaskID, a \in {"DELAY"} \cup Waiting : a \notin k.status[t]
      BY <2>5 DEF Blocked
    <3> QED BY <2>1, <2>3, <2>4, <2>5, <3>1, <3>2, <3>3 DEF OneList
  <2> QED BY <2>1, <2>3, <2>4, <2>5, <2>6 DEF TimerExact
<1>10. Urgent(Idle)
  <2>1. \A t \in TaskID : "READY" \in k.status[t] => t = Idle
    BY <1>3
  <2> QED BY <1>1, <1>3, <1>5, <2>1 DEF Urgent
<1>11. Dispatch(e)
  <2>1. Running
    BY <1>3, <1>4, <1>5, <1>10, ContextFacts DEF Running, Urgent
  <2>2. Settled
    BY <1>4, <1>10, ContextFacts DEF Settled
  <2> QED BY <2>1, <2>2 DEF Dispatch
<1>12. TypeOK
  <2>1. slice \in [task : TaskID \cup {Dummy, NoTask}, left : 0 .. TIMESLICE]
    BY <1>4, ContextFacts
  <2>2. scan \in [at : {"off", "scan", "expire"}, task : TaskID \cup {NoTask},
                  was : SUBSET Flag, resched : BOOLEAN]
    BY <1>4
  <2>3. pc \in [TaskID -> {"app", "enter", "sched", "wait", "check"}] /\ taskLock \in 0 .. MAX_LOCK
    BY <1>4, ContextFacts
  <2>4. making \in [Creator -> UserTask \cup {NoTask}]
    BY DEF Init
  <2> QED BY <1>4, <1>5, <1>7, <2>1, <2>2, <2>3, <2>4 DEF TypeOK
<1>13. Timers /\ ScanOK /\ TicksOK /\ SliceOK /\ FaultOK /\ IdleReady
  BY <1>3, <1>4, <1>5, <1>9, EmptyList
  DEF Timers, ScanOK, TicksOK, SliceOK, FaultOK, IdleReady
<1>14. LiveOK
  BY <1>3, <1>4 DEF LiveOK
<1>15. MakingOK
  BY <1>3 DEF Init, MakingOK
<1> QED BY <1>8, <1>9, <1>11, <1>12, <1>13, <1>14, <1>15 DEF IInv, ReadyQueues, ListNodes

\* Every step of the task manager keeps the invariant.
LEMMA NextInv ==
  ASSUME NEW e \in BOOLEAN, IInv(e), Unnested, NoIsrSuspend, [Next]_vars
  PROVE  IInv(e)' /\ WaitersKept
<1>0. ASSUME NEW c \in Creator, NEW name, NEW p \in Prio, LOS_TaskCreateOnly(c, name, p)
      PROVE  IInv(e)' /\ WaitersKept
  BY <1>0, CreateOnlyStep
<1>1. ASSUME NEW c \in Creator, LOS_TaskCreate(c) \/ TaskCreateFails(c)
      PROVE  IInv(e)' /\ WaitersKept
  BY <1>1, CreateStep, CreateFailsStep
<1>2. ASSUME NEW c \in Caller, NEW u \in UserTask,
             LOS_TaskResume(c, u) \/ LOS_TaskSuspend(c, u) \/ LOS_TaskDelete(c, u)
      PROVE  IInv(e)' /\ WaitersKept
  BY <1>2, ResumeStep, SuspendStep, DeleteStep
<1>3. ASSUME NEW c \in UserTask, NEW u \in UserTask, NEW p \in Prio, LOS_TaskPriSet(c, u, p)
      PROVE  IInv(e)' /\ WaitersKept
  BY <1>3, PriSetStep
<1>4. ASSUME NEW c \in UserTask, NEW n \in DelayTicks, LOS_TaskDelay(c, n)
      PROVE  IInv(e)' /\ WaitersKept
  BY <1>4, DelayStep
<1>5. ASSUME NEW c \in UserTask, LOS_TaskYield(c) \/ LOS_TaskLock(c) \/ LOS_TaskUnlock(c)
      PROVE  IInv(e)' /\ WaitersKept
  BY <1>5, YieldStep, LockStep
<1>6. CASE System
  BY <1>6, StartStep, PendSVStep, ScheduleStep, TickHandlerStep, ScanUnlinkStep,
     ScanWakeStep, ScanEndStep DEF System, Tick
<1>7. CASE UNCHANGED vars
  BY <1>7, StutterOK, ContextFacts DEF WaitersKept
<1> QED BY <1>0, <1>1, <1>2, <1>3, <1>4, <1>5, <1>6, <1>7 DEF Next, TaskCall

\* On a platform without interrupts that preempt the tick, and with handlers
\* that do not suspend tasks, the invariant holds of every reachable state.
THEOREM Invariance ==
  ASSUME Unnested, NoIsrSuspend
  PROVE  Spec => []IInv(TRUE)
<1>1. Init => IInv(TRUE)
  BY InitInv
<1>2. IInv(TRUE) /\ [Next]_vars => IInv(TRUE)'
  BY NextInv
<1> QED BY <1>1, <1>2, PTL DEF Spec

\* Every variable of the task manager keeps its type.
THEOREM TypeCorrect ==
  ASSUME Unnested, NoIsrSuspend
  PROVE  Spec => []TypeOK
<1>1. IInv(TRUE) => TypeOK
  BY DEF IInv
<1> QED BY <1>1, Invariance, PTL

\* Every ready queue holds exactly the ready tasks of its priority, each once,
\* and the bitmap says which queues are in use: osPriqueueTop never errs.
THEOREM ReadyQueuesExact ==
  ASSUME Unnested, NoIsrSuspend
  PROVE  Spec => []ReadyQueues
<1>1. IInv(TRUE) => ReadyQueues
  BY DEF IInv
<1> QED BY <1>1, Invariance, PTL

\* The one list node of a task is on the one list its status names.
THEOREM OneListPerTask ==
  ASSUME Unnested, NoIsrSuspend
  PROVE  Spec => []ListNodes
<1>1. IInv(TRUE) => ListNodes
  BY DEF IInv
<1> QED BY <1>1, Invariance, PTL

\* Timers are armed for exactly the tasks that wait for one.
THEOREM TimersExact ==
  ASSUME Unnested, NoIsrSuspend
  PROVE  Spec => []Timers
<1>1. IInv(TRUE) => Timers
  BY DEF IInv
<1> QED BY <1>1, Invariance, PTL

\* With the scheduler unlocked, application code runs only in a ready task
\* than which no ready task is more urgent.
THEOREM MostUrgentRuns ==
  ASSUME Unnested, NoIsrSuspend
  PROVE  Spec => []HighestRuns
<1>1. IInv(TRUE) => HighestRuns
  <2> SUFFICES ASSUME IInv(TRUE), NEW t \in TaskID, TaskRuns(t), pc[t] = "app", taskLock = 0
               PROVE  Urgent(t)
    BY DEF HighestRuns
  <2> QED BY DEF IInv, Dispatch, Running, Settled, TaskRuns, Unsettled
<1> QED BY <1>1, Invariance, PTL

\* An application that leaves a task alone while it is being created, and between
\* the end of its wait and the moment it notices, never makes the kernel follow a
\* NULL pointer.
THEOREM NeverFaults ==
  ASSUME Unnested, NoIsrSuspend, Misuse = {}
  PROVE  Spec => []NoFault
<1>1. IInv(TRUE) => NoFault
  BY DEF IInv, FaultOK, NoFault
<1> QED BY <1>1, Invariance, PTL

\* No task is lost: whatever calls, interrupts and time-outs came before, a live
\* task is ready or still has what will make it ready.
THEOREM NoneLost ==
  ASSUME Unnested, NoIsrSuspend
  PROVE  Spec => []NoTaskLost
<1>1. IInv(TRUE) => NoTaskLost
  BY DEF IInv, LiveOK, NoTaskLost
<1> QED BY <1>1, Invariance, PTL

\* While LOS_TaskLock is in force no other task takes over.
THEOREM LockKeepsTask ==
  ASSUME Unnested, NoIsrSuspend
  PROVE  Spec => LockHolds
<1>1. ASSUME IInv(TRUE), [Next]_vars, taskLock > 0, taskLock' > 0
      PROVE  runTask' = runTask
  <2>1. taskLock # 0 /\ taskLock' # 0
    BY <1>1
  <2>2. Dispatch(TRUE)
    BY <1>1 DEF IInv
  <2>3. CASE TaskCall
    <3>1. ASSUME NEW c, NEW name, NEW p,
                 LOS_TaskCreate(c) \/ LOS_TaskCreateOnly(c, name, p) \/ TaskCreateFails(c)
          PROVE  runTask' = runTask
      BY <3>1 DEF LOS_TaskCreate, LOS_TaskCreateOnly, TaskCreateFails, sched
    <3>2. ASSUME NEW c, NEW u, LOS_TaskResume(c, u) \/ LOS_TaskSuspend(c, u)
          PROVE  runTask' = runTask
      BY <3>2 DEF LOS_TaskResume, LOS_TaskSuspend, sched
    <3>3. ASSUME NEW c, NEW u, LOS_TaskDelete(c, u)
          PROVE  runTask' = runTask
      BY <2>1, <3>3 DEF LOS_TaskDelete, sched
    <3>4. ASSUME NEW c, NEW u, NEW p, LOS_TaskPriSet(c, u, p)
          PROVE  runTask' = runTask
      BY <3>4 DEF LOS_TaskPriSet, sched
    <3>5. ASSUME NEW c, NEW n,
                 LOS_TaskDelay(c, n) \/ LOS_TaskYield(c) \/ LOS_TaskLock(c) \/ LOS_TaskUnlock(c)
          PROVE  runTask' = runTask
      BY <2>1, <3>5 DEF LOS_TaskDelay, LOS_TaskYield, LOS_TaskLock, LOS_TaskUnlock, sched
    <3> QED BY <2>3, <3>1, <3>2, <3>3, <3>4, <3>5 DEF TaskCall
  <2>4. CASE System
    <3>1. ~PendSV_Handler /\ ~LOS_StartToRun
      BY <2>1, <2>2 DEF Dispatch, Running, Settled, PendSV_Handler, LOS_StartToRun, BootRuns
    <3> QED BY <2>4, <3>1 DEF System, Schedule, Tick, osTickHandler, ScanUnlink, ScanWake,
               ScanEnd, sched
  <2>5. CASE UNCHANGED vars
    BY <2>5 DEF vars, sched
  <2> QED BY <1>1, <2>3, <2>4, <2>5 DEF Next
<1>2. IInv(TRUE) /\ [Next]_vars => (taskLock > 0 /\ taskLock' > 0 => runTask' = runTask)
  BY <1>1
<1> QED BY <1>2, Invariance, PTL DEF Spec, LockHolds

-----------------------------------------------------------------------------
(* The sections of the IPC calls: a task waits, a waiter is woken, a call  *)
(* looks at its timeout flag.  kk is k with priorities that the call has   *)
(* changed before (LOS_MuxPend and LOS_MuxPost); the list nodes are in kk  *)
(* where they are in k.                                                    *)

\* The wait lists, the timers and the flags of a wait are as they were.
SameNodes(kk) ==
  /\ KernelOK(kk) /\ SameRest(k, kk)
  /\ kk.status = k.status /\ kk.pend = k.pend

\* The step puts c, and nobody else, on the list o.
BeginsWait(c, o, flag) ==
  /\ \A t \in TaskID \ {c} : Untouched(t)
  /\ k'.status[c] \cap Waiting = {flag} /\ "UNUSED" \notin k'.status[c]
  /\ "UNUSED" \notin k.status[c] /\ \A q \in PendObj : ~IsOn(k.pend[q], c)
  /\ \A q \in PendObj : \A u : IsOn(k'.pend[q], u) <=> IsOn(k.pend[q], u) \/ (q = o /\ u = c)

\* r is kk after the tasks of W, which wait with the given flag, have been woken.
AfterWakes(kk, r, W, flag) ==
  /\ KernelOK(r) /\ r.fault = kk.fault
  /\ \A t \in TaskID : t \notin W => r.status[t] = kk.status[t] /\ r.ticks[t] = kk.ticks[t]
  /\ \A t \in TaskID : t \in W =>
       r.status[t] = (kk.status[t] \ {flag, "TIMEOUT"})
                       \cup (IF "SUSPEND" \in kk.status[t] THEN {} ELSE {"READY"})
  /\ \A q \in PendObj : \A t : IsOn(r.pend[q], t) <=> IsOn(kk.pend[q], t) /\ t \notin W
  /\ IsInjective(r.timer) /\ \A t : IsOn(r.timer, t) <=> IsOn(kk.timer, t) /\ t \notin W

\* The step takes the tasks of W off the lists they wait on, and does nothing to
\* the waits of the others.
WokeAll(W) ==
  /\ \A t \in TaskID \ W : k'.status[t] = k.status[t]
  /\ \A t \in W : k'.status[t] \cap WaitFlag = {} /\ "UNUSED" \notin k.status[t]
  /\ \A q \in PendObj : \A t : IsOn(k'.pend[q], t) <=> IsOn(k.pend[q], t) /\ t \notin W

\* The same, of a step that moves nobody into a wait or out of a call.
EndsWaits(W) ==
  /\ PcKept /\ \A t \in TaskID \ W : Untouched(t)
  /\ \A t \in W : k'.status[t] \cap WaitFlag = {} /\ "UNUSED" \notin k.status[t]
  /\ \A q \in PendObj : \A t : IsOn(k'.pend[q], t) <=> IsOn(k.pend[q], t) /\ t \notin W

\* The step takes u off the list u waits on, and does nothing to the others' waits.
Woke(u) ==
  /\ \A t \in TaskID \ {u} : k'.status[t] = k.status[t]
  /\ k'.status[u] \cap WaitFlag = {} /\ "UNUSED" \notin k.status[u]
  /\ \A q \in PendObj : \A t : IsOn(k'.pend[q], t) <=> IsOn(k.pend[q], t) /\ t # u

\* The same, of a step that moves nobody into a wait or out of a call.
EndsWait(u) ==
  /\ PcKept /\ \A t \in TaskID \ {u} : Untouched(t)
  /\ k'.status[u] \cap WaitFlag = {} /\ "UNUSED" \notin k.status[u]
  /\ \A q \in PendObj : \A t : IsOn(k'.pend[q], t) <=> IsOn(k.pend[q], t) /\ t # u

\* A task that has not begun to wait in the call it makes is running and ready.
LEMMA CallingFacts ==
  ASSUME NEW e \in BOOLEAN, IInv(e), NEW c \in UserTask, InApp(c) \/ AtEntry(c)
  PROVE  /\ runTask = c /\ ~pendSV /\ scan.at = "off" /\ scheduled /\ ~InCall(c)
         /\ "READY" \in k.status[c] /\ "UNUSED" \notin k.status[c] /\ MaySchedule(c)
<1>1. TaskRuns(c) /\ pc[c] \in {"app", "enter"} /\ c \in TaskID /\ c # Dummy
  BY ContextFacts DEF InApp, AtEntry
<1>2. Running /\ OneList(k)
  BY DEF IInv, Dispatch, ListNodes
<1>3. "READY" \in k.status[c] /\ scheduled
  BY <1>1, <1>2 DEF Running, TaskRuns
<1> QED BY <1>1, <1>2, <1>3 DEF OneList, TaskRuns, InCall, MaySchedule

\* It goes to its locked section, or returns without having waited.
LEMMA EntryStep ==
  ASSUME NEW e \in BOOLEAN, IInv(e), NEW c \in UserTask, InApp(c) \/ AtEntry(c),
         NEW at \in {"app", "enter"}, pc' = [pc EXCEPT ![c] = at], k' = k,
         UNCHANGED <<sched, slice, scan>>
  PROVE  IInv(e)' /\ \A t \in TaskID : Untouched(t)
<1>1. /\ TypeOK /\ Dispatch(e) /\ IdleReady /\ LiveOK /\ MakingOK /\ KernelOK(k)
      /\ runTask = c /\ ~pendSV /\ scan.at = "off" /\ scheduled /\ c \in TaskID
      /\ pc[c] \in {"app", "enter"} /\ "READY" \in k.status[c] /\ "UNUSED" \notin k.status[c]
      /\ UNCHANGED <<runTask, newTask, pendSV, taskLock, scheduled, making, slice, scan>>
  BY CallingFacts, InvKernel, ContextFacts DEF IInv, sched, InApp, AtEntry
<1>2. /\ pc' \in [TaskID -> {"app", "enter", "sched", "wait", "check"}] /\ pc'[c] = at
      /\ \A t \in TaskID \ {c} : pc'[t] = pc[t]
  BY <1>1 DEF TypeOK
<1>3. Dispatch(e)'
  <2>1. Running'
    BY <1>1, <1>2 DEF Dispatch, Running
  <2>2. e => Settled'
    BY <1>1, <1>2 DEF Dispatch, Settled, Unsettled, Urgent
  <2> QED BY <2>1, <2>2 DEF Dispatch
<1>4. LiveOK' /\ "READY" \in k'.status[Idle] /\ \A t \in TaskID : Timed(k', t) <=> Timed(k, t)
  BY <1>1, <1>2 DEF LiveOK, IdleReady, Timed
<1>5. MakingOK'
  BY <1>1 DEF MakingOK
<1>6. IInv(e)'
  BY <1>1, <1>2, <1>3, <1>4, <1>5, UntimedCallOK DEF TypeOK
<1> QED BY <1>1, <1>2, <1>6 DEF Untouched, InCall

\* A call that follows a NULL pointer, which only a misuse can bring about.
LEMMA FaultStep ==
  ASSUME NEW e \in BOOLEAN, IInv(e), NEW c \in UserTask, AtEntry(c), Misuse # {},
         k' = [k EXCEPT !.fault = TRUE], UNCHANGED <<sched, slice, scan, pc>>
  PROVE  IInv(e)' /\ \A t \in TaskID : Untouched(t)
<1>1. /\ TypeOK /\ Dispatch(e) /\ IdleReady /\ LiveOK /\ MakingOK /\ KernelOK(k) /\ scan.at = "off"
      /\ UNCHANGED <<runTask, newTask, pendSV, taskLock, scheduled, making, slice, scan, pc>>
  BY InvKernel DEF IInv, sched, AtEntry, TaskRuns
<1>2. /\ KernelOK(k') /\ k'.pend = k.pend /\ k'.prio = k.prio /\ k'.timer = k.timer /\ k'.ticks = k.ticks
      /\ \A u \in TaskID : k'.status[u] = k.status[u]
  <2>1. ASSUME NEW r, r = [k EXCEPT !.fault = TRUE]
        PROVE  /\ KernelOK(r) /\ r.pend = k.pend /\ r.prio = k.prio /\ r.timer = k.timer
               /\ r.ticks = k.ticks /\ \A u \in TaskID : r.status[u] = k.status[u]
    BY <1>1, <2>1, FaultedOK
  <2> QED BY <2>1
<1>3. Dispatch(e)'
  <2>1. Running'
    BY <1>1, <1>2 DEF Dispatch, Running, TypeOK
  <2>2. \A t \in TaskID : Urgent(t) => Urgent(t)'
    BY <1>2 DEF Urgent
  <2>3. e => Settled'
    BY <1>1, <2>2 DEF Dispatch, Settled, Unsettled, TypeOK
  <2> QED BY <2>1, <2>3 DEF Dispatch
<1>4. LiveOK' /\ "READY" \in k'.status[Idle] /\ \A t \in TaskID : Timed(k', t) <=> Timed(k, t)
  BY <1>1, <1>2, ContextFacts DEF LiveOK, IdleReady, Timed
<1>5. MakingOK'
  BY <1>1, <1>2, ContextFacts DEF MakingOK
<1>6. IInv(e)'
  BY <1>1, <1>2, <1>3, <1>4, <1>5, UntimedCallOK DEF TypeOK
<1> QED BY <1>1, <1>2, <1>6 DEF Untouched, InCall

\* The running task waits on the list o.
LEMMA WaitStep ==
  ASSUME NEW e \in BOOLEAN, IInv(e), NEW c \in UserTask, InApp(c) \/ AtEntry(c),
         taskLock = 0, "TIMEOUT" \notin k.status[c],
         NEW kk, SameNodes(kk), NEW o \in PendObj, NEW flag \in Waiting,
         NEW n \in (Nat \ {0}) \cup {WAIT_FOREVER},
         k' = osTaskWait(kk, c, o, flag, n), pc' = [pc EXCEPT ![c] = "wait"],
         UNCHANGED <<sched, slice, scan>>
  PROVE  IInv(e)' /\ BeginsWait(c, o, flag)
<1>1. /\ TypeOK /\ Dispatch(e) /\ IdleReady /\ LiveOK /\ KernelOK(k) /\ OneList(k) /\ TicksOK
      /\ FaultOK /\ Timers /\ k.status \in [TaskID -> SUBSET Flag]
      /\ kk.status \in [TaskID -> SUBSET Flag] /\ kk.ticks \in [TaskID -> Nat]
      /\ kk.timer \in Seq(TaskID)
  BY InvKernel DEF IInv, KernelOK, KernelType, SameNodes
<1>2. /\ runTask = c /\ ~pendSV /\ scan.at = "off" /\ scheduled /\ c \in TaskID /\ c # Idle
      /\ "READY" \in kk.status[c] /\ "READY" \in k.status[c] /\ ~InCall(c)
      /\ KernelOK(kk) /\ SameRest(k, kk) /\ kk.status = k.status /\ kk.pend = k.pend
      /\ UNCHANGED <<runTask, newTask, pendSV, taskLock, scheduled, making, slice, scan>>
  BY CallingFacts, ContextFacts DEF SameNodes, sched
<1>3. /\ KernelOK(kk) /\ c \in TaskID /\ "READY" \in kk.status[c] /\ n \in Nat \cup {WAIT_FOREVER}
  BY <1>2
<1>4. AfterWait(kk, k', c, o, flag, n)
  BY <1>3, WaitOK
<1>5. /\ KernelOK(k') /\ k'.fault = k.fault
      /\ \A u \in TaskID : u # c => k'.status[u] = k.status[u]
      /\ k'.status[c] = (k.status[c] \ {"READY"}) \cup {flag}
                          \cup (IF n = WAIT_FOREVER THEN {} ELSE {"TIMEOUT"})
      /\ \A q \in PendObj : \A u : IsOn(k'.pend[q], u) <=> IsOn(k.pend[q], u) \/ (q = o /\ u = c)
      /\ n = WAIT_FOREVER => k'.timer = k.timer /\ k'.ticks = k.ticks
      /\ n # WAIT_FOREVER => k'.timer = Append(k.timer, c) /\ k'.ticks = [k.ticks EXCEPT ![c] = n]
  BY <1>2, <1>4 DEF SameRest, AfterWait
<1>6. /\ k.status[c] \cap ({"UNUSED"} \cup Blocked) = {}
      /\ \A q \in PendObj : ~IsOn(k.pend[q], c)
  BY <1>1, <1>2 DEF OneList, Blocked, Waiting
<1>7. /\ flag \in k'.status[c] /\ k'.status[c] \cap Waiting = {flag}
      /\ k'.status[c] \cap {"READY", "UNUSED", "DELAY"} = {}
      /\ "TIMEOUT" \in k'.status[c] <=> n # WAIT_FOREVER
      /\ "RUNNING" \in k'.status[c] <=> "RUNNING" \in k.status[c]
  BY <1>5, <1>6 DEF Blocked, Waiting
<1>8. pc' \in [TaskID -> {"app", "enter", "sched", "wait", "check"}] /\ pc'[c] = "wait"
      /\ \A t \in TaskID \ {c} : pc'[t] = pc[t]
  BY <1>1, <1>2 DEF TypeOK
<1>9. Dispatch(e)'
  <2>1. Running'
    BY <1>1, <1>2, <1>5, <1>7, <1>8, ContextFacts DEF Dispatch, Running
  <2>2. Settled'
    BY <1>2, <1>8 DEF Settled
  <2> QED BY <2>1, <2>2 DEF Dispatch
<1>10. /\ TimerExact(k') /\ \A t \in TaskID : IsOn(k'.timer, t) => k'.ticks[t] > 0
  <2>1. /\ TimerExact(k) /\ ~IsOn(k.timer, c) /\ k.timer \in Seq(TaskID) /\ k.ticks \in [TaskID -> Nat]
        /\ \A t \in TaskID : IsOn(k.timer, t) => k.ticks[t] > 0
    BY <1>1, <1>2, <1>6 DEF Timers, TimerExact, TicksOK, SameRest, Blocked
  <2>2. \A t \in TaskID : t # c => (Timed(k', t) <=> Timed(k, t))
    BY <1>5 DEF Timed
  <2>3. Timed(k', c) <=> n # WAIT_FOREVER
    BY <1>7 DEF Timed
  <2>4. CASE n = WAIT_FOREVER
    <3>1. k'.timer = k.timer /\ k'.ticks = k.ticks
      BY <1>5, <2>4
    <3>2. ~Timed(k, c)
      BY <1>6 DEF Timed, Blocked
    <3>3. TimerExact(k')
      BY <2>1, <2>2, <2>3, <2>4, <3>1, <3>2, KeepTimers
    <3> QED BY <2>1, <3>1, <3>3
  <2>5. CASE n # WAIT_FOREVER
    <3>1. k'.timer = Append(k.timer, c) /\ k'.ticks = [k.ticks EXCEPT ![c] = n] /\ n > 0
      BY <1>5, <2>5
    <3>2. \A t : IsOn(k'.timer, t) <=> IsOn(k.timer, t) \/ t = c
      BY <1>2, <2>1, <3>1, AppendList
    <3>3. IsInjective(k'.timer)
      BY <1>2, <2>1, <3>1, AppendList DEF TimerExact
    <3>4. TimerExact(k')
      BY <2>1, <2>2, <2>3, <2>5, <3>2, <3>3 DEF TimerExact, Timed
    <3> QED BY <2>1, <3>1, <3>2, <3>4
  <2> QED BY <2>4, <2>5
<1>11. LiveOK'
  <2>1. k'.status[c] \cap ({"UNUSED", "READY"} \cup Blocked) # {}
    BY <1>7 DEF Blocked
  <2>2. ASSUME NEW t \in TaskID, t # c
        PROVE  k'.status[t] = k.status[t] /\ pc'[t] = pc[t]
    BY <1>5, <1>8, <2>2
  <2>3. "UNUSED" \notin k'.status[c]
    BY <1>7
  <2> QED BY <1>1, <2>1, <2>2, <2>3 DEF LiveOK
<1>12. "READY" \in k'.status[Idle] /\ FaultOK'
  BY <1>1, <1>2, <1>5, ContextFacts DEF IdleReady, FaultOK
<1>15. MakingOK'
  <2>1. \A t \in TaskID : k.status[t] = {"SUSPEND"} => k'.status[t] = {"SUSPEND"}
    BY <1>2, <1>5
  <2> QED BY <1>2, <2>1, MakingKept DEF SuspendedKept
<1>13. IInv(e)'
  BY <1>1, <1>2, <1>5, <1>8, <1>9, <1>10, <1>11, <1>12, <1>15, CallOK DEF TypeOK
<1>14. \A t \in TaskID \ {c} : Untouched(t)
  BY <1>5, <1>8 DEF Untouched, InCall
<1> QED BY <1>5, <1>6, <1>7, <1>13, <1>14 DEF BeginsWait

\* A task or an interrupt handler wakes the waiters of W, and then calls LOS_Schedule.
LEMMA WakesMove ==
  ASSUME NEW e \in BOOLEAN, IInv(e), NEW c, scan.at = "off", scheduled, MaySchedule(c),
         NEW W \in SUBSET TaskID, NEW flag \in Waiting, \A u \in W : k.status[u] \cap Waiting = {flag},
         AfterWakes(k, k', W, flag), Then_LOS_Schedule(c),
         UNCHANGED <<runTask, taskLock, scheduled, making, slice, scan>>
  PROVE  IInv(e)' /\ WokeAll(W) /\ OnItsWay(c)
<1>1. /\ TypeOK /\ Dispatch(e) /\ IdleReady /\ LiveOK /\ KernelOK(k) /\ OneList(k) /\ TicksOK
      /\ FaultOK /\ Timers /\ k.status \in [TaskID -> SUBSET Flag]
  BY InvKernel DEF IInv, KernelOK, KernelType
<1>2. \A u \in W : /\ "UNUSED" \notin k.status[u] /\ "READY" \notin k.status[u]
                   /\ "DELAY" \notin k.status[u] /\ u # Idle
  <2>1. \A u \in W : u \in TaskID /\ flag \in k.status[u]
    OBVIOUS
  <2> QED BY <1>1, <2>1 DEF OneList, Waiting, Blocked, IdleReady
<1>3. /\ TimerExact(k) /\ \A t \in TaskID : IsOn(k.timer, t) => k.ticks[t] > 0
  BY <1>1 DEF Timers, TicksOK
<1>4. /\ KernelOK(k') /\ k'.fault = k.fault
      /\ \A t \in TaskID : t \notin W => k'.status[t] = k.status[t] /\ k'.ticks[t] = k.ticks[t]
      /\ \A t \in W : k'.status[t] = (k.status[t] \ {flag, "TIMEOUT"})
                          \cup (IF "SUSPEND" \in k.status[t] THEN {} ELSE {"READY"})
      /\ \A q \in PendObj : \A t : IsOn(k'.pend[q], t) <=> IsOn(k.pend[q], t) /\ t \notin W
      /\ IsInjective(k'.timer) /\ \A t : IsOn(k'.timer, t) <=> IsOn(k.timer, t) /\ t \notin W
  BY DEF AfterWakes
<1>5. ASSUME NEW u \in W
      PROVE  /\ k'.status[u] \cap Waiting = {} /\ k'.status[u] \cap WaitFlag = {}
             /\ "DELAY" \notin k'.status[u] /\ "UNUSED" \notin k'.status[u]
             /\ "RUNNING" \in k'.status[u] <=> "RUNNING" \in k.status[u]
             /\ "SUSPEND" \in k'.status[u] \/ "READY" \in k'.status[u]
  <2>1. /\ k'.status[u] = (k.status[u] \ {flag, "TIMEOUT"})
                          \cup (IF "SUSPEND" \in k.status[u] THEN {} ELSE {"READY"})
        /\ k.status[u] \cap Waiting = {flag} /\ "DELAY" \notin k.status[u] /\ "UNUSED" \notin k.status[u]
    BY <1>2, <1>4
  <2> QED BY <2>1 DEF WaitFlag, Waiting
<1>6. /\ TimerExact(k') /\ \A t \in TaskID : IsOn(k'.timer, t) => k'.ticks[t] > 0
  <2>1. \A t \in TaskID : t \notin W => (Timed(k', t) <=> Timed(k, t))
    BY <1>4 DEF Timed
  <2>2. \A t \in W : ~Timed(k', t)
    BY <1>5 DEF Timed
  <2> QED BY <1>3, <1>4, <2>1, <2>2 DEF TimerExact, Timed
<1>7. /\ SameRunning /\ "READY" \in k'.status[Idle] /\ FaultOK'
  <2>1. SameRunning
    BY <1>4, <1>5 DEF SameRunning
  <2> QED BY <1>1, <1>2, <1>4, <2>1, ContextFacts DEF IdleReady, FaultOK
<1>8. runTask \in TaskID /\ "READY" \notin k'.status[runTask] =>
         taskLock = 0 /\ (c = runTask \/ "READY" \notin k.status[runTask])
  BY <1>1, <1>2, <1>4 DEF Dispatch, Running
<1>9. /\ Dispatch(e)' /\ newTask' \in TaskID /\ pendSV' \in BOOLEAN
      /\ pc' \in [TaskID -> {"app", "enter", "sched", "wait", "check"}] /\ OnItsWay(c)
  BY <1>4, <1>7, <1>8, ThenScheduleMoves
<1>10. LiveOK'
  <2>1. \A t \in TaskID : "UNUSED" \in k'.status[t] <=> "UNUSED" \in k.status[t]
    BY <1>2, <1>4, <1>5
  <2>2. \A t \in TaskID : k'.status[t] \cap ({"UNUSED", "READY"} \cup Blocked) # {}
    BY <1>1, <1>4, <1>5 DEF LiveOK, Blocked
  <2>3. c \in TaskID => "UNUSED" \notin k.status[c]
    BY <1>1, ContextFacts DEF MaySchedule, TaskRuns, Dispatch, Running, OneList
  <2> QED BY <1>1, <1>9, <2>1, <2>2, <2>3 DEF LiveOK, OnItsWay
<1>12. MakingOK'
  <2>1. \A t \in W : k.status[t] # {"SUSPEND"}
    BY DEF Waiting
  <2> QED BY <1>4, <2>1, MakingKept DEF SuspendedKept
<1>11. IInv(e)'
  BY <1>1, <1>4, <1>6, <1>7, <1>9, <1>10, <1>12, CallOK DEF TypeOK
<1> QED BY <1>2, <1>4, <1>5, <1>9, <1>11 DEF WokeAll

\* It wakes the waiter u.
LEMMA WakeMoves ==
  ASSUME NEW e \in BOOLEAN, IInv(e), NEW c, scan.at = "off", scheduled, MaySchedule(c),
         NEW kk, SameNodes(kk), NEW u \in TaskID, NEW flag \in Waiting,
         k.status[u] \cap Waiting = {flag},
         k' = osTaskWake(kk, u, flag), Then_LOS_Schedule(c),
         UNCHANGED <<runTask, taskLock, scheduled, making, slice, scan>>
  PROVE  IInv(e)' /\ Woke(u) /\ OnItsWay(c)
<1>1. IdleReady /\ KernelOK(k) /\ OneList(k) /\ Timers /\ k.status \in [TaskID -> SUBSET Flag]
  BY InvKernel DEF IInv, KernelOK, KernelType
<1>2. /\ KernelOK(kk) /\ SameRest(k, kk) /\ kk.status = k.status /\ kk.pend = k.pend
      /\ kk.status[u] \cap Waiting = {flag}
  BY DEF SameNodes
<1>3. "DELAY" \notin k.status[u]
  <2>1. flag \in k.status[u]
    OBVIOUS
  <2> QED BY <1>1, <2>1 DEF OneList, Waiting
<1>4. ("TIMEOUT" \in kk.status[u] <=> IsOn(kk.timer, u)) /\ IsInjective(kk.timer)
  BY <1>1, <1>2, <1>3 DEF Timers, TimerExact, SameRest
<1>5. AfterWake(kk, k', u, flag)
  BY <1>2, <1>4, WakeOK
<1>6. AfterWakes(k, k', {u}, flag)
  BY <1>2, <1>5 DEF SameRest, AfterWake, AfterWakes
<1>7. IInv(e)' /\ WokeAll({u}) /\ OnItsWay(c)
  BY <1>6, WakesMove
<1> QED BY <1>7 DEF WokeAll, Woke

\* The same for a call that has not waited: it wakes the waiters of W,
LEMMA WakesStep ==
  ASSUME NEW e \in BOOLEAN, IInv(e), Unnested, NEW c,
         scan.at = "off", scheduled,
         \/ c \in UserTask /\ (InApp(c) \/ AtEntry(c))
         \/ c = Isr,
         NEW W \in SUBSET TaskID, NEW flag \in Waiting, \A u \in W : k.status[u] \cap Waiting = {flag},
         AfterWakes(k, k', W, flag), Then_LOS_Schedule(c),
         UNCHANGED <<runTask, taskLock, scheduled, making, slice, scan>>
  PROVE  IInv(e)' /\ EndsWaits(W)
<1>1. MaySchedule(c)
  BY CallingFacts DEF MaySchedule
<1>2. IInv(e)' /\ WokeAll(W) /\ OnItsWay(c)
  BY <1>1, WakesMove
<1>3. PcKept
  <2>1. c \in TaskID => ~InCall(c) /\ "UNUSED" \notin k.status[c]
    BY CallingFacts, ContextFacts
  <2> QED BY <1>2, <2>1 DEF OnItsWay, PcKept, InCall
<1>4. \A t \in TaskID \ W : Untouched(t)
  BY <1>2, <1>3 DEF WokeAll, Untouched, PcKept, InCall
<1> QED BY <1>2, <1>3, <1>4 DEF EndsWaits, WokeAll

\* or the waiter u.
LEMMA WakeStep ==
  ASSUME NEW e \in BOOLEAN, IInv(e), Unnested, NEW c,
         scan.at = "off", scheduled,
         \/ c \in UserTask /\ InApp(c)
         \/ c = Isr,
         NEW kk, SameNodes(kk), NEW u \in TaskID, NEW flag \in Waiting,
         k.status[u] \cap Waiting = {flag},
         k' = osTaskWake(kk, u, flag), Then_LOS_Schedule(c),
         UNCHANGED <<runTask, taskLock, scheduled, making, slice, scan>>
  PROVE  IInv(e)' /\ EndsWait(u)
<1>1. MaySchedule(c)
  BY DEF MaySchedule, InApp
<1>2. IInv(e)' /\ Woke(u) /\ OnItsWay(c)
  BY <1>1, WakeMoves
<1>3. PcKept
  <2>1. c \in TaskID => pc[c] = "app" /\ "UNUSED" \notin k.status[c]
    BY InAppFacts, ContextFacts DEF IInv, ListNodes, OneList
  <2> QED BY <1>2, <2>1 DEF OnItsWay, PcKept, InCall
<1>4. \A t \in TaskID \ {u} : Untouched(t)
  BY <1>2, <1>3 DEF Woke, Untouched, PcKept, InCall
<1> QED BY <1>2, <1>3, <1>4 DEF EndsWait, Woke

\* A call that has waited itself wakes the waiter u, and then calls LOS_Schedule.
LEMMA WakeOnReturn ==
  ASSUME NEW e \in BOOLEAN, IInv(e), NEW c \in UserTask, TaskRuns(c), pc[c] = "check",
         NEW u \in TaskID, NEW flag \in Waiting, k.status[u] \cap Waiting = {flag},
         k' = osTaskWake(k, u, flag), Then_LOS_Schedule(c),
         UNCHANGED <<runTask, taskLock, scheduled, making, slice, scan>>
  PROVE  /\ IInv(e)' /\ Woke(u) /\ OnItsWay(c) /\ u # c
         /\ \A q \in PendObj : ~IsOn(k.pend[q], c)
         /\ \A t \in TaskID \ {u, c} : Untouched(t)
<1>1. /\ MaySchedule(c) /\ scan.at = "off" /\ scheduled /\ c \in TaskID /\ Dispatch(e) /\ OneList(k)
      /\ runTask = c /\ ~pendSV /\ k.status \in [TaskID -> SUBSET Flag]
  BY ContextFacts DEF MaySchedule, TaskRuns, IInv, ListNodes, Dispatch, Running, TypeOK, KernelType
<1>2. SameNodes(k)
  BY InvKernel DEF SameNodes, SameRest
<1>3. IInv(e)' /\ Woke(u) /\ OnItsWay(c)
  BY <1>1, <1>2, WakeMoves
<1>4. "READY" \in k.status[c]
  BY <1>1 DEF Dispatch, Running
<1>5. k.status[c] \cap Waiting = {} /\ \A q \in PendObj : ~IsOn(k.pend[q], c)
  BY <1>1, <1>4 DEF OneList, Blocked, Waiting
<1>6. u # c
  BY <1>5
<1>7. \A t \in TaskID \ {u, c} : Untouched(t)
  BY <1>3 DEF Woke, OnItsWay, Untouched, InCall
<1> QED BY <1>3, <1>5, <1>6, <1>7

\* The running task looks at its timeout flag and returns from the call.
LEMMA ReturnStep ==
  ASSUME NEW e \in BOOLEAN, IInv(e), NEW c \in UserTask, TaskRuns(c), pc[c] = "check",
         k' = k \/ k' = SetFlags(k, c, {"TIMEOUT"}, {}), pc' = [pc EXCEPT ![c] = "app"],
         UNCHANGED <<sched, slice, scan>>
  PROVE  /\ IInv(e)' /\ \A t \in TaskID \ {c} : Untouched(t)
         /\ k'.pend = k.pend /\ \A q \in PendObj : ~IsOn(k.pend[q], c)
         /\ k'.status[c] \cap Waiting = {} /\ "UNUSED" \notin k.status[c]
         /\ \A f : f \in k'.status[c] <=> f \in k.status[c] /\ (k' # k => f # "TIMEOUT")
<1>1. /\ TypeOK /\ Dispatch(e) /\ IdleReady /\ LiveOK /\ KernelOK(k) /\ OneList(k)
      /\ k.status \in [TaskID -> SUBSET Flag] /\ c \in TaskID
  BY InvKernel, ContextFacts DEF IInv, KernelOK, KernelType
<1>2. /\ runTask = c /\ ~pendSV /\ scan.at = "off"
      /\ UNCHANGED <<runTask, newTask, pendSV, taskLock, scheduled, making, slice, scan>>
  BY DEF TaskRuns, sched
<1>3. "READY" \in k.status[c]
  BY <1>1, <1>2 DEF Dispatch, Running
<1>4. /\ k.status[c] \cap ({"UNUSED"} \cup Blocked) = {}
      /\ \A q \in PendObj : ~IsOn(k.pend[q], c)
  BY <1>1, <1>3 DEF OneList, Blocked, Waiting
<1>5. /\ KernelOK(k') /\ SameRest(k, k') /\ k'.prio = k.prio /\ k'.pend = k.pend
      /\ \A t \in TaskID : t # c => k'.status[t] = k.status[t]
      /\ \A f : f \in k'.status[c] <=> f \in k.status[c] /\ (k' # k => f # "TIMEOUT")
  <2>1. CASE k' = k
    BY <1>1, <2>1 DEF SameRest
  <2>2. CASE k' = SetFlags(k, c, {"TIMEOUT"}, {}) /\ k' # k
    <3>1. ASSUME NEW r, r = SetFlags(k, c, {"TIMEOUT"}, {})
          PROVE  /\ KernelOK(r) /\ SameRest(k, r) /\ r.prio = k.prio /\ r.pend = k.pend
                 /\ r.status = [k.status EXCEPT ![c] = @ \ {"TIMEOUT"}]
      BY <1>1, <1>4, <3>1, TimeoutClearOK
    <3>2. /\ KernelOK(k') /\ SameRest(k, k') /\ k'.prio = k.prio /\ k'.pend = k.pend
          /\ k'.status = [k.status EXCEPT ![c] = @ \ {"TIMEOUT"}]
      BY <2>2, <3>1
    <3>3. k'.status[c] = k.status[c] \ {"TIMEOUT"} /\ \A t \in TaskID : t # c => k'.status[t] = k.status[t]
      BY <1>1, <3>2
    <3> QED BY <2>2, <3>2, <3>3
  <2> QED BY <2>1, <2>2
<1>6. /\ k'.status[c] \cap Waiting = {} /\ k'.status[c] \cap Blocked = {}
      /\ \A f \in {"READY", "RUNNING", "UNUSED"}, t \in TaskID : f \in k'.status[t] <=> f \in k.status[t]
  BY <1>4, <1>5 DEF Blocked
<1>7. /\ pc' \in [TaskID -> {"app", "enter", "sched", "wait", "check"}] /\ pc'[c] = "app"
      /\ \A t \in TaskID \ {c} : pc'[t] = pc[t]
  BY <1>1 DEF TypeOK
<1>8. Dispatch(e)'
  <2>1. Running'
    BY <1>1, <1>2, <1>3, <1>6, <1>7, ContextFacts DEF Dispatch, Running
  <2>2. \A t \in TaskID : Urgent(t) => Urgent(t)'
    BY <1>5, <1>6 DEF Urgent
  <2>3. e => Settled'
    BY <1>1, <1>2, <2>2 DEF Dispatch, Settled, Unsettled, TypeOK
  <2> QED BY <2>1, <2>3 DEF Dispatch
<1>9. \A t \in TaskID : Timed(k', t) <=> Timed(k, t)
  BY <1>4, <1>5, <1>6 DEF Timed, Blocked
<1>10. LiveOK'
  BY <1>1, <1>3, <1>5, <1>6, <1>7 DEF LiveOK
<1>13. MakingOK'
  <2>1. k.status[c] # {"SUSPEND"}
    BY <1>3
  <2> QED BY <1>2, <1>5, <2>1, MakingKept DEF SuspendedKept
<1>11. IInv(e)'
  BY <1>1, <1>2, <1>5, <1>6, <1>7, <1>8, <1>9, <1>10, <1>13, UntimedCallOK, ContextFacts
     DEF TypeOK, IdleReady, SameRest
<1>12. \A t \in TaskID \ {c} : Untouched(t)
  BY <1>5, <1>7 DEF Untouched, InCall
<1> QED BY <1>4, <1>5, <1>6, <1>11, <1>12

\* A task that a step of the task manager leaves on a wait list was on it before,
\* and a task that the step does not leave alone is on none afterwards.
LEMMA TaskStepOK ==
  ASSUME NEW e \in BOOLEAN, IInv(e)', WaitersKept
  PROVE  /\ \E u \in TaskID :
              /\ \A t \in TaskID \ {u} : Untouched(t)
              /\ \/ Untouched(u)
                 \/ /\ Created(u) \/ Deleted(u) \/ TimedOut(u)
                    /\ \A o \in PendObj : ~IsOn(k'.pend[o], u)
         /\ \A o \in PendObj, t \in TaskID : IsOn(k'.pend[o], t) => IsOn(k.pend[o], t)
         /\ \A o \in PendObj : k'.pend[o] # <<>> => k.pend[o] # <<>>
<1>1. OneList(k') /\ k' \in KernelType
  BY DEF IInv, ListNodes, TypeOK
<1>2. PICK u \in TaskID : /\ \A t \in TaskID \ {u} : Untouched(t)
                          /\ Untouched(u) \/ Created(u) \/ Deleted(u) \/ TimedOut(u)
  BY DEF WaitersKept
<1>3. Created(u) \/ Deleted(u) \/ TimedOut(u) => \A o \in PendObj : ~IsOn(k'.pend[o], u)
  <2>1. Created(u) \/ Deleted(u) \/ TimedOut(u) => k'.status[u] \cap Waiting = {}
    BY DEF Created, Deleted, TimedOut, WaitFlag, Waiting
  <2> QED BY <1>1, <2>1 DEF OneList
<1>4. \A o \in PendObj, t \in TaskID : IsOn(k'.pend[o], t) => IsOn(k.pend[o], t)
  BY <1>2, <1>3 DEF Untouched
<1>5. ASSUME NEW o \in PendObj, k'.pend[o] # <<>>
      PROVE  k.pend[o] # <<>>
  <2>1. k'.pend[o] \in Seq(TaskID)
    BY <1>1 DEF KernelType
  <2>2. Head(k'.pend[o]) \in TaskID /\ IsOn(k'.pend[o], Head(k'.pend[o]))
    BY <1>5, <2>1, HeadIsOn
  <2>3. IsOn(k.pend[o], Head(k'.pend[o]))
    BY <1>4, <2>2
  <2> QED BY <2>3, EmptyList
<1> QED BY <1>2, <1>3, <1>4, <1>5

\* The running task changes a priority, and nobody needs to wait for it.
LEMMA PriorityStep ==
  ASSUME IInv(FALSE), NEW c \in UserTask, InApp(c), SameNodes(k'), UNCHANGED <<sched, slice, scan, pc>>
  PROVE  IInv(FALSE)' /\ \A t \in TaskID : Untouched(t)
<1>1. /\ TypeOK /\ Dispatch(FALSE) /\ LiveOK /\ IdleReady
      /\ KernelOK(k') /\ SameRest(k, k') /\ k'.status = k.status /\ k'.pend = k.pend
      /\ UNCHANGED <<runTask, newTask, pendSV, taskLock, scheduled, making, slice, scan, pc>>
      /\ scan.at = "off"
  BY DEF IInv, SameNodes, sched, InApp, TaskRuns
<1>2. Dispatch(FALSE)'
  BY <1>1 DEF Dispatch, Running
<1>3. LiveOK' /\ "READY" \in k'.status[Idle] /\ \A t \in TaskID : Timed(k', t) <=> Timed(k, t)
  BY <1>1 DEF LiveOK, IdleReady, Timed
<1>5. MakingOK'
  BY <1>1, MakingKept DEF SuspendedKept
<1>4. IInv(FALSE)'
  BY <1>1, <1>2, <1>3, <1>5, UntimedCallOK DEF TypeOK, SameRest
<1> QED BY <1>1, <1>4 DEF Untouched, InCall

-----------------------------------------------------------------------------
(* What the IPC modules remember of a waiting task: the object a[t] that   *)
(* the call of task t is about.                                            *)

\* A task is in a call exactly as long as there is an object it is about; it
\* waits on no other list and with no other flag than w, and TIMEOUT marks
\* nobody else.
WaitsFor(w, kk, pp, a) ==
  \A t \in TaskID :
    /\ pp[t] \in {"wait", "check"} <=> a[t] # NoTask
    /\ \A o \in PendObj : IsOn(kk.pend[o], t) => a[t] = o
    /\ kk.status[t] \cap Waiting \subseteq {w}
    /\ "TIMEOUT" \in kk.status[t] => pp[t] \in {"wait", "check"}

\* An unused control block is in no call.
LEMMA UnusedIdle ==
  ASSUME LiveOK, NEW w, NEW a, WaitsFor(w, k, pc, a), NEW t \in TaskID, "UNUSED" \in k.status[t]
  PROVE  a[t] = NoTask /\ ~InCall(t)
BY DEF LiveOK, WaitsFor, InCall

\* The head of a wait list is a task that waits for this object.
WaitsAt(w, a, o, u) ==
  /\ u \in UserTask /\ u \in TaskID /\ IsOn(k.pend[o], u) /\ a[u] = o /\ InCall(u)
  /\ k.status[u] \cap Waiting = {w}

\* The first task of a wait list is in a call for that object.
LEMMA WaiterFacts ==
  ASSUME NEW e \in BOOLEAN, IInv(e), NEW w \in Waiting, NEW a, WaitsFor(w, k, pc, a), NoTask \notin PendObj,
         NEW o \in PendObj, k.pend[o] # <<>>, NEW u, u = Head(k.pend[o])
  PROVE  WaitsAt(w, a, o, u)
<1>1. k.pend[o] \in Seq(TaskID) /\ OneList(k) /\ IdleReady
  BY DEF IInv, TypeOK, KernelType, ListNodes
<1>2. u \in TaskID /\ IsOn(k.pend[o], u)
  BY <1>1, HeadIsOn
<1>3. a[u] = o /\ k.status[u] \cap Waiting \subseteq {w} /\ InCall(u)
  BY <1>2 DEF WaitsFor, InCall
<1>4. k.status[u] \cap Waiting # {}
  BY <1>1, <1>2 DEF OneList
<1>5. k.status[u] \cap Waiting = {w}
  BY <1>3, <1>4 DEF Waiting
<1>6. u # Idle
  BY <1>1, <1>2, <1>5 DEF IdleReady, OneList, Blocked
<1> QED BY <1>2, <1>3, <1>5, <1>6 DEF UserTask, WaitsAt

\* A deleted task is in no call any more, the others are in theirs.
CallsLeft(a, b) ==
  b = [t \in TaskID |-> IF "UNUSED" \in k'.status[t] THEN NoTask ELSE a[t]]

\* The task manager ends calls and begins none.
LEMMA TaskStepCalls ==
  ASSUME NEW e \in BOOLEAN, IInv(e), IInv(e)', WaitersKept, NEW w \in Waiting, NEW a, WaitsFor(w, k, pc, a),
         NEW b, CallsLeft(a, b)
  PROVE  /\ WaitsFor(w, k', pc', b)
         /\ \A t \in TaskID : Untouched(t) => b[t] = a[t]
<1>0. b = [t \in TaskID |-> IF "UNUSED" \in k'.status[t] THEN NoTask ELSE a[t]]
  BY DEF CallsLeft
<1>1. PICK u \in TaskID : /\ \A t \in TaskID \ {u} : Untouched(t)
                          /\ \/ Untouched(u)
                             \/ /\ Created(u) \/ Deleted(u) \/ TimedOut(u)
                                /\ \A o \in PendObj : ~IsOn(k'.pend[o], u)
  BY TaskStepOK
<1>2. ASSUME NEW t \in TaskID, Untouched(t)
      PROVE  b[t] = a[t]
  <2>1. "UNUSED" \in k'.status[t] <=> "UNUSED" \in k.status[t]
    BY <1>2 DEF Untouched, WaitFlag
  <2> QED BY <1>0, <2>1, UnusedIdle DEF IInv
<1>3. ASSUME NEW t \in TaskID
      PROVE  /\ pc'[t] \in {"wait", "check"} <=> b[t] # NoTask
             /\ \A o \in PendObj : IsOn(k'.pend[o], t) => b[t] = o
             /\ k'.status[t] \cap Waiting \subseteq {w}
             /\ "TIMEOUT" \in k'.status[t] => pc'[t] \in {"wait", "check"}
  <2>1. CASE Untouched(t)
    BY <1>2, <2>1 DEF Untouched, WaitFlag, Waiting, WaitsFor, InCall
  <2>2. CASE t = u /\ Created(u) /\ \A o \in PendObj : ~IsOn(k'.pend[o], u)
    <3>1. a[t] = NoTask /\ ~InCall(t)
      BY <2>2, UnusedIdle DEF Created, IInv
    <3>2. b[t] = NoTask
      BY <1>0, <3>1
    <3> QED BY <2>2, <3>1, <3>2 DEF Created, InCall, WaitFlag, Waiting
  <2>3. CASE t = u /\ Deleted(u) /\ \A o \in PendObj : ~IsOn(k'.pend[o], u)
    <3>1. b[t] = NoTask
      BY <1>0, <2>3 DEF Deleted
    <3> QED BY <2>3, <3>1 DEF Deleted, Waiting
  <2>4. CASE t = u /\ TimedOut(u) /\ \A o \in PendObj : ~IsOn(k'.pend[o], u)
    <3>1. "UNUSED" \notin k'.status[t] /\ k'.status[t] \cap Waiting \subseteq {w}
      BY <2>4 DEF TimedOut, WaitFlag, Waiting
    <3>2. b[t] = a[t] /\ pc[t] \in {"wait", "check"} /\ pc'[t] = pc[t]
      BY <1>0, <2>4, <3>1 DEF TimedOut, WaitsFor
    <3> QED BY <2>4, <3>1, <3>2 DEF WaitsFor
  <2> QED BY <1>1, <2>1, <2>2, <2>3, <2>4
<1> QED BY <1>2, <1>3 DEF WaitsFor

\* A task begins to wait for the object o.
LEMMA BeginsWaitCalls ==
  ASSUME NEW w \in Waiting, NEW a, WaitsFor(w, k, pc, a), NEW c \in TaskID, NEW o \in PendObj, NoTask \notin PendObj,
         BeginsWait(c, o, w), pc'[c] = "wait",
         NEW b, b[c] = o, \A t \in TaskID \ {c} : b[t] = a[t]
  PROVE  WaitsFor(w, k', pc', b)
<1>1. ASSUME NEW t \in TaskID \ {c}
      PROVE  /\ pc'[t] \in {"wait", "check"} <=> b[t] # NoTask
             /\ \A q \in PendObj : IsOn(k'.pend[q], t) => b[t] = q
             /\ k'.status[t] \cap Waiting \subseteq {w}
             /\ "TIMEOUT" \in k'.status[t] => pc'[t] \in {"wait", "check"}
  BY DEF BeginsWait, Untouched, WaitFlag, Waiting, WaitsFor, InCall
<1>2. /\ b[c] # NoTask /\ k'.status[c] \cap Waiting \subseteq {w}
      /\ \A q \in PendObj : IsOn(k'.pend[q], c) => b[c] = q
  BY DEF BeginsWait, Waiting
<1> QED BY <1>1, <1>2 DEF WaitsFor

\* Waits end in a grant: the calls go on.
LEMMA EndsWaitsCalls ==
  ASSUME NEW w \in Waiting, NEW a, WaitsFor(w, k, pc, a), NEW W \in SUBSET TaskID,
         \A u \in W : InCall(u), EndsWaits(W)
  PROVE  WaitsFor(w, k', pc', a)
<1>1. ASSUME NEW t \in TaskID \ W
      PROVE  /\ pc'[t] \in {"wait", "check"} <=> a[t] # NoTask
             /\ \A q \in PendObj : IsOn(k'.pend[q], t) => a[t] = q
             /\ k'.status[t] \cap Waiting \subseteq {w}
             /\ "TIMEOUT" \in k'.status[t] => pc'[t] \in {"wait", "check"}
  BY DEF EndsWaits, Untouched, WaitFlag, Waiting, WaitsFor, InCall
<1>2. ASSUME NEW u \in W
      PROVE  /\ pc'[u] \in {"wait", "check"} /\ a[u] # NoTask
             /\ k'.status[u] \cap Waiting \subseteq {w} /\ "TIMEOUT" \notin k'.status[u]
             /\ \A q \in PendObj : ~IsOn(k'.pend[q], u)
  <2>1. u \in TaskID /\ InCall(u) /\ "UNUSED" \notin k.status[u] /\ k'.status[u] \cap WaitFlag = {}
    BY DEF EndsWaits
  <2>2. pc'[u] \in {"wait", "check"} /\ a[u] # NoTask
    BY <2>1 DEF EndsWaits, PcKept, WaitsFor, InCall
  <2> QED BY <2>1, <2>2 DEF EndsWaits, WaitFlag, Waiting
<1> QED BY <1>1, <1>2 DEF WaitsFor

\* The same for one wait.
LEMMA EndsWaitCalls ==
  ASSUME NEW w \in Waiting, NEW a, WaitsFor(w, k, pc, a), NEW u \in TaskID, InCall(u), EndsWait(u)
  PROVE  WaitsFor(w, k', pc', a)
<1>1. EndsWaits({u})
  BY DEF EndsWait, EndsWaits
<1> QED BY <1>1, EndsWaitsCalls

\* A call of c that has waited returns, and looks at its timeout flag.
Returned(c) ==
  /\ \A t \in TaskID \ {c} : Untouched(t)
  /\ k'.pend = k.pend /\ \A q \in PendObj : ~IsOn(k.pend[q], c)

\* The call of c is over, those of the others are not.
CallOver(a, b, c) == b[c] = NoTask /\ \A t \in TaskID \ {c} : b[t] = a[t]

\* A call that ends clears the mark of its time limit.
FlagCleared(c) ==
  IF "TIMEOUT" \in k.status[c] THEN k' = SetFlags(k, c, {"TIMEOUT"}, {}) ELSE k' = k

\* A call that ends leaves the waits of the others as they are.
LEMMA ReturnCalls ==
  ASSUME NEW e \in BOOLEAN, IInv(e), NEW w \in Waiting, NEW a, WaitsFor(w, k, pc, a),
         NEW c \in UserTask, TaskRuns(c), pc[c] = "check", pc' = [pc EXCEPT ![c] = "app"],
         FlagCleared(c), UNCHANGED <<sched, slice, scan>>,
         NEW b, CallOver(a, b, c)
  PROVE  IInv(e)' /\ Returned(c) /\ WaitsFor(w, k', pc', b)
<1>1. /\ c \in TaskID /\ k.status \in [TaskID -> SUBSET Flag] /\ k \in KernelType
      /\ pc \in [TaskID -> {"app", "enter", "sched", "wait", "check"}]
      /\ k' = k \/ k' = SetFlags(k, c, {"TIMEOUT"}, {})
  BY ContextFacts DEF IInv, TypeOK, KernelType, FlagCleared
<1>2. /\ IInv(e)' /\ \A t \in TaskID \ {c} : Untouched(t)
      /\ k'.pend = k.pend /\ \A q \in PendObj : ~IsOn(k.pend[q], c)
      /\ k'.status[c] \cap Waiting = {}
  BY <1>1, ReturnStep
<1>3. "TIMEOUT" \notin k'.status[c]
  <2>1. CASE "TIMEOUT" \in k.status[c]
    <3>1. k'.status = [k.status EXCEPT ![c] = (@ \ {"TIMEOUT"}) \cup {}]
      BY <1>1, <2>1 DEF SetFlags, KernelType, FlagCleared
    <3> QED BY <1>1, <3>1
  <2>2. CASE "TIMEOUT" \notin k.status[c]
    BY <2>2 DEF FlagCleared
  <2> QED BY <2>1, <2>2
<1>4. ASSUME NEW t \in TaskID \ {c}
      PROVE  /\ pc'[t] \in {"wait", "check"} <=> b[t] # NoTask
             /\ \A q \in PendObj : IsOn(k'.pend[q], t) => b[t] = q
             /\ k'.status[t] \cap Waiting \subseteq {w}
             /\ "TIMEOUT" \in k'.status[t] => pc'[t] \in {"wait", "check"}
  BY <1>2 DEF Untouched, WaitFlag, Waiting, WaitsFor, InCall, CallOver
<1>5. pc'[c] = "app" /\ k'.status[c] \cap Waiting \subseteq {w} /\ \A q \in PendObj : ~IsOn(k'.pend[q], c)
  BY <1>1, <1>2 DEF Waiting
<1> QED BY <1>2, <1>3, <1>4, <1>5 DEF WaitsFor, Returned, CallOver

-----------------------------------------------------------------------------
(* Who lives, and how urgent everybody is.                                 *)

\* kk has the fields that tell who is alive and how urgent everybody is.
Lives(kk) == {"status", "prio"} \subseteq DOMAIN kk /\ DOMAIN kk.status = TaskID

\* r differs from kk neither in who is alive nor in how urgent anybody is.
Alike(kk, r) ==
  /\ Lives(r) /\ r.prio = kk.prio
  /\ \A t \in TaskID : "UNUSED" \in r.status[t] <=> "UNUSED" \in kk.status[t]

\* None of the services of LosTaskBase but those that set a priority changes who is
\* alive or how urgent anybody is.
LEMMA ServicesAlike ==
  ASSUME NEW kk, Lives(kk), NEW t \in TaskID
  PROVE  /\ Alike(kk, kk)
         /\ \A off, on : "UNUSED" \notin off /\ "UNUSED" \notin on =>
              Alike(kk, SetFlags(kk, t, off, on))
         /\ Alike(kk, ListDelete(kk, t)) /\ Alike(kk, osPriqueueEnqueue(kk, t))
         /\ Alike(kk, osTimerListDelete(kk, t))
         /\ \A n : Alike(kk, osTaskAdd2TimerList(kk, t, n))
<1> USE DEF Lives, Alike
<1>1. \A off, on : "UNUSED" \notin off /\ "UNUSED" \notin on =>
        Alike(kk, SetFlags(kk, t, off, on))
  BY DEF SetFlags
<1>2. Alike(kk, ListDelete(kk, t))
  BY DEF ListDelete
<1>3. Alike(kk, osPriqueueEnqueue(kk, t))
  BY DEF osPriqueueEnqueue
<1>4. Alike(kk, osTimerListDelete(kk, t))
  BY DEF osTimerListDelete
<1>5. \A n : Alike(kk, osTaskAdd2TimerList(kk, t, n))
  BY DEF osTaskAdd2TimerList
<1> QED BY <1>1, <1>2, <1>3, <1>4, <1>5

\* One after the other.
LEMMA AlikeThrough ==
  ASSUME NEW kk, NEW r, NEW q, Alike(kk, r), Alike(r, q)
  PROVE  Alike(kk, q)
BY DEF Alike

\* The services that are made of others.
LEMMA MovesAlike ==
  ASSUME NEW kk, Lives(kk), NEW t \in TaskID
  PROVE  /\ Alike(kk, MakeReady(kk, t)) /\ Alike(kk, MakeUnready(kk, t)) /\ Alike(kk, ToTail(kk, t))
         /\ \A was : Alike(kk, ScanExpire(kk, t, was))
<1>1. ASSUME NEW r, Alike(kk, r) PROVE Lives(r)
  BY <1>1 DEF Alike
<1>2. ASSUME NEW r, Lives(r) PROVE Alike(r, MakeReady(r, t))
  <2>1. Alike(r, SetFlags(r, t, {}, {"READY"}))
    BY <1>2, ServicesAlike
  <2>2. Lives(SetFlags(r, t, {}, {"READY"}))
    BY <2>1 DEF Alike
  <2>3. Alike(SetFlags(r, t, {}, {"READY"}), osPriqueueEnqueue(SetFlags(r, t, {}, {"READY"}), t))
    BY <2>2, ServicesAlike
  <2> QED BY <2>1, <2>3, AlikeThrough DEF MakeReady
<1>3. Alike(kk, osPriqueueDequeue(kk, t))
  <2> DEFINE unlinked == ListDelete(kk, t)
  <2>1. Alike(kk, unlinked)
    BY ServicesAlike
  <2> HIDE DEF unlinked
  <2>2. \A b : Alike(unlinked, [unlinked EXCEPT !.bitmap = b])
    BY <2>1 DEF Alike, Lives
  <2>3. Alike(unlinked, osPriqueueDequeue(kk, t))
    <3>1. PICK b : osPriqueueDequeue(kk, t) = [unlinked EXCEPT !.bitmap = b]
      BY DEF osPriqueueDequeue, unlinked
    <3> QED BY <2>2, <3>1
  <2> QED BY <2>1, <2>3, AlikeThrough
<1>4. Alike(kk, MakeUnready(kk, t))
  <2> DEFINE off == osPriqueueDequeue(kk, t)
  <2>1. Alike(kk, off) /\ Lives(off)
    BY <1>1, <1>3
  <2> HIDE DEF off
  <2>2. Alike(off, SetFlags(off, t, {"READY"}, {}))
    BY <2>1, ServicesAlike
  <2>3. MakeUnready(kk, t) = SetFlags(off, t, {"READY"}, {})
    BY DEF MakeUnready, off
  <2> QED BY <2>1, <2>2, <2>3, AlikeThrough
<1>5. Alike(kk, ToTail(kk, t))
  <2>1. Alike(kk, ListDelete(kk, t))
    BY ServicesAlike
  <2>2. Alike(ListDelete(kk, t), osPriqueueEnqueue(ListDelete(kk, t), t))
    BY <1>1, <2>1, ServicesAlike
  <2> QED BY <2>1, <2>2, AlikeThrough DEF ToTail
<1>6. ASSUME NEW was PROVE Alike(kk, ScanExpire(kk, t, was))
  <2> DEFINE released ==
        IF was \cap Waiting # {}
        THEN SetFlags(ListDelete(kk, t), t, IF "PEND" \in was THEN {"PEND"} ELSE {"PEND_QUEUE"}, {})
        ELSE SetFlags(kk, t, {"DELAY"}, {})
  <2>1. Alike(kk, released)
    <3>1. Alike(kk, SetFlags(kk, t, {"DELAY"}, {}))
      BY ServicesAlike
    <3>2. Alike(kk, ListDelete(kk, t)) /\ Lives(ListDelete(kk, t))
      BY <1>1, ServicesAlike
    <3>3. \A f : "UNUSED" \notin f => Alike(ListDelete(kk, t), SetFlags(ListDelete(kk, t), t, f, {}))
      BY <3>2, ServicesAlike
    <3>4. \A f : "UNUSED" \notin f => Alike(kk, SetFlags(ListDelete(kk, t), t, f, {}))
      BY <3>2, <3>3, AlikeThrough
    <3> QED BY <3>1, <3>4
  <2>2. ScanExpire(kk, t, was) = IF "SUSPEND" \in was THEN released ELSE MakeReady(released, t)
    BY DEF ScanExpire
  <2> HIDE DEF released
  <2>3. Alike(released, MakeReady(released, t))
    BY <1>1, <1>2, <2>1
  <2> QED BY <2>1, <2>2, <2>3, AlikeThrough
<1>7. Alike(kk, MakeReady(kk, t))
  BY <1>2
<1> QED BY <1>4, <1>5, <1>6, <1>7

\* No task sets a priority by LOS_TaskPriSet.
NoPriSet == "priset" \notin Calls
\* A control block that a deletion has freed is not used again.
NoRebirth == Calls \cap {"create", "createonly"} = {} \/ "delete" \notin Calls \cup IsrCalls

\* Who lives keeps its priority; tasks die and are born only by the calls for that.
LivesKept ==
  /\ scheduled => scheduled'
  /\ \A t \in TaskID :
       /\ "UNUSED" \notin k.status[t] => k'.prio[t] = k.prio[t]
       /\ "UNUSED" \notin k.status[t] /\ "UNUSED" \in k'.status[t] =>
            scheduled /\ "delete" \in Calls \cup IsrCalls
       /\ "UNUSED" \in k.status[t] /\ "UNUSED" \notin k'.status[t] =>
            ~scheduled \/ Calls \cap {"create", "createonly"} # {}

\* A step that gives birth to nobody, kills nobody and changes no priority.
LEMMA AlikeLives ==
  ASSUME Alike(k, k'), scheduled => scheduled'
  PROVE  LivesKept
BY DEF Alike, LivesKept

\* Creations: a priority is given only to the task that is born.
LEMMA CreateLives ==
  ASSUME NEW e \in BOOLEAN, IInv(e), NEW c \in Creator, NEW p \in Prio,
         NEW name \in {"create", "createonly"},
         LOS_TaskCreateOnly(c, name, p) \/ TaskCreateFails(c)
  PROVE  LivesKept
<1>1. KernelOK(k) /\ k \in KernelType
  BY InvKernel
<1>2. CASE TaskCreateFails(c)
  <2>1. k'.status = k.status /\ k'.prio = k.prio /\ scheduled' = scheduled
    BY <1>1, <1>2, ReclaimOK DEF TaskCreateFails, sched
  <2> QED BY <2>1 DEF LivesKept
<1>3. CASE LOS_TaskCreateOnly(c, name, p)
  <2> DEFINE t == Head(Reclaim(k).free)
             r == Allocate(Reclaim(k), p, "SUSPEND")
  <2>1. Reclaim(k).free # <<>> /\ scheduled' = scheduled /\ k' = r /\ CallsCreate(c, name)
    BY <1>3 DEF LOS_TaskCreateOnly
  <2>2. ~scheduled \/ Calls \cap {"create", "createonly"} # {}
    BY <2>1, ContextFacts DEF CallsCreate, BootRuns, MayCall, Creator
  <2>3. /\ t \in TaskID /\ k.status[t] = {"UNUSED"}
        /\ \A u \in TaskID : r.status[u] = IF u = t THEN {"SUSPEND"} ELSE k.status[u]
        /\ \A u \in TaskID : r.prio[u] = IF u = t THEN p ELSE k.prio[u]
    BY <2>1, NewTaskOK
  <2> HIDE DEF t, r
  <2> QED BY <2>1, <2>2, <2>3 DEF LivesKept
<1> QED BY <1>2, <1>3

\* The second section of a creation makes the new task ready, or is a fault.
LEMMA CompleteLives ==
  ASSUME NEW e \in BOOLEAN, IInv(e), NEW c \in Creator, LOS_TaskCreate(c)
  PROVE  LivesKept
<1> DEFINE t == making[c]
           off == SetFlags(k, t, {"SUSPEND"}, {})
<1>1. t \in TaskID /\ Lives(k)
  BY InvKernel, ContextFacts DEF LOS_TaskCreate, IInv, MakingOK, Lives, KernelType
<1>2. /\ scheduled' = scheduled
      /\ k' = MakeReady(off, t) \/ k' = [k EXCEPT !.fault = TRUE]
  BY DEF LOS_TaskCreate
<1> HIDE DEF t
<1>3. Alike(k, off)
  BY <1>1, ServicesAlike
<1> HIDE DEF off
<1>4. Alike(off, MakeReady(off, t))
  BY <1>1, <1>3, MovesAlike DEF Alike
<1>5. Alike(k, [k EXCEPT !.fault = TRUE])
  BY <1>1 DEF Alike, Lives
<1>6. Alike(k, k')
  BY <1>2, <1>3, <1>4, <1>5, AlikeThrough
<1> QED BY <1>2, <1>6, AlikeLives

\* LOS_TaskDelete kills one task and changes no priority.
LEMMA DeleteLives ==
  ASSUME NEW e \in BOOLEAN, IInv(e), Unnested, NEW c, NEW u \in UserTask, LOS_TaskDelete(c, u)
  PROVE  LivesKept
<1> DEFINE was == k.status[u]
           off == IF "READY" \in was THEN MakeUnready(k, u)
                  ELSE IF was \cap Waiting # {} THEN ListDelete(k, u) ELSE k
           disarmed == IF was \cap {"DELAY", "TIMEOUT"} # {}
                       THEN osTimerListDelete(off, u) ELSE off
           unused == [disarmed EXCEPT !.status[u] = {"UNUSED"}]
<1>1. /\ MayCall(c, "delete") /\ scheduled' = scheduled /\ u \in TaskID
      /\ "UNUSED" \notin k.status[u]
      /\ k' = [unused EXCEPT !.recycle = Append(@, u)] \/ k' = [unused EXCEPT !.free = <<u>> \o @]
  BY ContextFacts DEF LOS_TaskDelete
<1>2. "delete" \in Calls \cup IsrCalls /\ scheduled
  BY <1>1, MayCallFacts DEF MayCall
<1>3. Lives(k)
  BY InvKernel DEF Lives, KernelType
<1>4. Alike(k, off)
  BY <1>1, <1>3, ServicesAlike, MovesAlike
<1>5. Alike(k, disarmed)
  <2> HIDE DEF off
  <2>1. Alike(off, osTimerListDelete(off, u))
    BY <1>1, <1>4, ServicesAlike DEF Alike
  <2> QED BY <1>4, <2>1, AlikeThrough
<1> HIDE DEF disarmed
<1>6. /\ Lives(unused) /\ unused.prio = k.prio
      /\ \A t \in TaskID \ {u} : "UNUSED" \in unused.status[t] <=> "UNUSED" \in k.status[t]
  BY <1>5 DEF Alike, Lives
<1> HIDE DEF unused
<1>7. /\ k'.prio = k.prio
      /\ \A t \in TaskID \ {u} : "UNUSED" \in k'.status[t] <=> "UNUSED" \in k.status[t]
  <2>1. k'.prio = unused.prio /\ k'.status = unused.status
    BY <1>1, <1>6 DEF Lives
  <2> QED BY <1>6, <2>1
<1> QED BY <1>1, <1>2, <1>7 DEF LivesKept

\* The other calls of a task or a handler.
LEMMA CallLives ==
  ASSUME NEW e \in BOOLEAN, IInv(e), NEW c, NEW u \in UserTask, NEW n,
         \/ LOS_TaskResume(c, u) \/ LOS_TaskSuspend(c, u)
         \/ c \in UserTask /\ (LOS_TaskDelay(c, n) \/ LOS_TaskYield(c) \/ LOS_TaskLock(c) \/ LOS_TaskUnlock(c))
  PROVE  LivesKept
<1>1. Lives(k) /\ u \in TaskID
  BY InvKernel, ContextFacts DEF Lives, KernelType
<1>2. CASE LOS_TaskResume(c, u)
  <2> DEFINE resumed == SetFlags(k, u, {"SUSPEND"}, {})
  <2>1. Alike(k, resumed)
    BY <1>1, ServicesAlike
  <2>2. (k' = resumed \/ k' = MakeReady(resumed, u)) /\ scheduled' = scheduled
    BY <1>2 DEF LOS_TaskResume
  <2> HIDE DEF resumed
  <2>3. Alike(resumed, MakeReady(resumed, u))
    BY <1>1, <2>1, MovesAlike DEF Alike
  <2> QED BY <2>1, <2>2, <2>3, AlikeThrough, AlikeLives
<1>3. CASE LOS_TaskSuspend(c, u)
  <2> DEFINE off == IF "READY" \in k.status[u] THEN MakeUnready(k, u) ELSE k
  <2>1. Alike(k, off)
    BY <1>1, ServicesAlike, MovesAlike
  <2>2. k' = SetFlags(off, u, {}, {"SUSPEND"}) /\ scheduled' = scheduled
    BY <1>3 DEF LOS_TaskSuspend
  <2> HIDE DEF off
  <2>3. Alike(off, SetFlags(off, u, {}, {"SUSPEND"}))
    <3>1. Lives(off)
      BY <2>1 DEF Alike
    <3> QED BY <1>1, <3>1, ServicesAlike
  <2>4. Alike(k, k')
    BY <2>1, <2>2, <2>3, AlikeThrough
  <2> QED BY <2>2, <2>4, AlikeLives
<1>4. CASE c \in UserTask /\ LOS_TaskDelay(c, n)
  <2> DEFINE off == MakeUnready(k, c)
             timed == osTaskAdd2TimerList(off, c, n)
  <2>1. k' = SetFlags(timed, c, {}, {"DELAY"}) /\ scheduled' = scheduled /\ c \in TaskID
    BY <1>4, ContextFacts DEF LOS_TaskDelay, sched
  <2>2. Alike(k, off)
    BY <1>1, <2>1, MovesAlike
  <2> HIDE DEF off
  <2>3. Alike(off, timed)
    BY <2>1, <2>2, ServicesAlike DEF Alike
  <2> HIDE DEF timed
  <2>4. Alike(timed, SetFlags(timed, c, {}, {"DELAY"}))
    <3>1. Lives(timed)
      BY <2>3 DEF Alike
    <3> QED BY <2>1, <3>1, ServicesAlike
  <2>5. Alike(k, k')
    BY <2>1, <2>2, <2>3, <2>4, AlikeThrough
  <2> QED BY <2>1, <2>5, AlikeLives
<1>5. CASE c \in UserTask /\ LOS_TaskYield(c)
  <2>1. k' = ToTail(k, c) /\ scheduled' = scheduled /\ c \in TaskID
    BY <1>5, ContextFacts DEF LOS_TaskYield, sched
  <2> QED BY <1>1, <2>1, MovesAlike, AlikeLives
<1>6. CASE LOS_TaskLock(c) \/ LOS_TaskUnlock(c)
  <2>1. k' = k /\ scheduled' = scheduled
    BY <1>6 DEF LOS_TaskLock, LOS_TaskUnlock
  <2> QED BY <1>1, <2>1, ServicesAlike, AlikeLives
<1> QED BY <1>2, <1>3, <1>4, <1>5, <1>6

\* The scheduler and the tick.
LEMMA SystemLives ==
  ASSUME NEW e \in BOOLEAN, IInv(e), System
  PROVE  LivesKept
<1>1. /\ Lives(k) /\ newTask \in TaskID /\ runTask \in TaskID \cup {Dummy}
      /\ Idle \in TaskID /\ \A i \in DOMAIN k.timer : k.timer[i] \in TaskID
  BY InvKernel, ContextFacts DEF Lives, KernelType, IInv, TypeOK
<1>2. CASE LOS_StartToRun
  <2>1. k' = SetFlags(k, newTask, {}, {"RUNNING"}) /\ scheduled'
    BY <1>2 DEF LOS_StartToRun
  <2> QED BY <1>1, <2>1, ServicesAlike, AlikeLives
<1>3. CASE PendSV_Handler
  <2> DEFINE saved == IF runTask = Dummy THEN k ELSE SetFlags(k, runTask, {"RUNNING"}, {})
  <2>1. k' = SetFlags(saved, newTask, {}, {"RUNNING"}) /\ scheduled' = scheduled
    BY <1>3 DEF PendSV_Handler
  <2>2. Alike(k, saved)
    BY <1>1, ServicesAlike
  <2> HIDE DEF saved
  <2>3. Alike(saved, SetFlags(saved, newTask, {}, {"RUNNING"}))
    <3>1. Lives(saved)
      BY <2>2 DEF Alike
    <3> QED BY <1>1, <3>1, ServicesAlike
  <2>4. Alike(k, k')
    BY <2>1, <2>2, <2>3, AlikeThrough
  <2> QED BY <2>1, <2>4, AlikeLives
<1>4. CASE (\E t \in UserTask : Schedule(t)) \/ ScanEnd
  <2>1. k' = k /\ scheduled' = scheduled
    BY <1>4 DEF Schedule, ScanEnd
  <2> QED BY <1>1, <2>1, ServicesAlike, AlikeLives
<1>5. CASE osTickHandler
  <2> DEFINE yields == SliceLeft = 0 /\ Yields(k)
             rotated == IF yields THEN ToTail(k, runTask) ELSE k
  <2>1. /\ scheduled' = scheduled
        /\ k' = [rotated EXCEPT !.ticks = [t \in TaskID |->
                   IF IsOn(k.timer, t) THEN k.ticks[t] - 1 ELSE k.ticks[t]]]
    BY <1>5 DEF osTickHandler
  <2>2. Alike(k, rotated)
    BY <1>1, ServicesAlike, MovesAlike DEF Yields
  <2> HIDE DEF rotated
  <2>3. Alike(rotated, k')
    BY <2>1, <2>2 DEF Alike, Lives
  <2> QED BY <2>1, <2>2, <2>3, AlikeThrough, AlikeLives
<1>6. CASE ScanUnlink
  <2>1. k' = [k EXCEPT !.timer = Without(@, k.timer[Min(Due)])] /\ scheduled' = scheduled
    BY <1>6 DEF ScanUnlink, sched
  <2>2. Alike(k, k')
    BY <1>1, <2>1 DEF Alike, Lives
  <2> QED BY <2>1, <2>2, AlikeLives
<1>7. CASE ScanWake
  <2>1. k' = ScanExpire(k, scan.task, scan.was) /\ scheduled' = scheduled /\ scan.task \in TaskID
    BY <1>7 DEF ScanWake, sched, IInv, ScanOK
  <2> QED BY <1>1, <2>1, MovesAlike, AlikeLives
<1> QED BY <1>2, <1>3, <1>4, <1>5, <1>6, <1>7 DEF System, Tick

\* Every step of a program that sets no priorities.
LEMMA NextLives ==
  ASSUME NEW e \in BOOLEAN, IInv(e), Unnested, NoPriSet, Next
  PROVE  LivesKept
<1>1. \A c \in UserTask : \A u, p : ~LOS_TaskPriSet(c, u, p)
  BY ContextFacts DEF LOS_TaskPriSet, MayCall, NoPriSet
<1>2. \E u \in UserTask : TRUE
  BY LimitAssumption DEF UserTask, TaskID, Idle
<1>3. \E p \in Prio : TRUE
  BY ContextFacts
<1>4. ASSUME NEW c, NEW u \in UserTask, LOS_TaskResume(c, u) \/ LOS_TaskSuspend(c, u)
      PROVE  LivesKept
  BY <1>4, CallLives
<1>5. ASSUME NEW c \in UserTask, NEW n,
             LOS_TaskDelay(c, n) \/ LOS_TaskYield(c) \/ LOS_TaskLock(c) \/ LOS_TaskUnlock(c)
      PROVE  LivesKept
  BY <1>2, <1>5, CallLives
<1>6. ASSUME NEW c \in Creator, NEW name \in {"create", "createonly"}, NEW p \in Prio,
             LOS_TaskCreateOnly(c, name, p) \/ TaskCreateFails(c)
      PROVE  LivesKept
  BY <1>6, CreateLives
<1>10. ASSUME NEW c \in Creator, LOS_TaskCreate(c)
       PROVE  LivesKept
  BY <1>10, CompleteLives
<1>7. ASSUME NEW c, NEW u \in UserTask, LOS_TaskDelete(c, u)
      PROVE  LivesKept
  BY <1>7, DeleteLives
<1>8. CASE System
  BY <1>8, SystemLives
<1>9. CASE TaskCall
  BY <1>1, <1>3, <1>4, <1>5, <1>6, <1>7, <1>9, <1>10 DEF TaskCall
<1> QED BY <1>8, <1>9 DEF Next

\* Neither does the wait of a task on a list, nor the wake-up of a waiter.
LEMMA WaitWakeAlike ==
  ASSUME NEW kk, Lives(kk), NEW t \in TaskID, NEW flag \in Waiting
  PROVE  /\ \A o, n : Alike(kk, osTaskWait(kk, t, o, flag, n))
         /\ Alike(kk, osTaskWake(kk, t, flag))
<1>1. ASSUME NEW r, Alike(kk, r) PROVE Lives(r)
  BY <1>1 DEF Alike
<1>2. ASSUME NEW r, Alike(kk, r), NEW off, NEW on, "UNUSED" \notin off, "UNUSED" \notin on
      PROVE  Alike(kk, SetFlags(r, t, off, on))
  <2>1. Alike(r, SetFlags(r, t, off, on))
    BY <1>1, <1>2, ServicesAlike
  <2> QED BY <1>2, <2>1, AlikeThrough
<1>3. "UNUSED" \notin {flag} /\ "UNUSED" \notin {"TIMEOUT"} /\ "UNUSED" \notin {}
  BY DEF Waiting
<1>4. ASSUME NEW o, NEW n PROVE Alike(kk, osTaskWait(kk, t, o, flag, n))
  <2> DEFINE off == MakeUnready(kk, t)
             flagged == SetFlags(off, t, {}, {flag})
             waiting == [flagged EXCEPT !.pend[o] = Append(@, t)]
             timed == SetFlags(waiting, t, {}, {"TIMEOUT"})
  <2>1. Alike(kk, off)
    BY MovesAlike
  <2> HIDE DEF off
  <2>2. Alike(kk, flagged)
    BY <1>2, <1>3, <2>1
  <2> HIDE DEF flagged
  <2>3. Alike(kk, waiting)
    BY <2>2 DEF Alike, Lives
  <2> HIDE DEF waiting
  <2>4. Alike(kk, timed)
    BY <1>2, <1>3, <2>3
  <2> HIDE DEF timed
  <2>5. Alike(kk, osTaskAdd2TimerList(timed, t, n))
    <3>1. Alike(timed, osTaskAdd2TimerList(timed, t, n))
      BY <1>1, <2>4, ServicesAlike
    <3> QED BY <2>4, <3>1, AlikeThrough
  <2>6. osTaskWait(kk, t, o, flag, n) \in {waiting, osTaskAdd2TimerList(timed, t, n)}
    BY DEF osTaskWait, off, flagged, waiting, timed
  <2> QED BY <2>3, <2>5, <2>6
<1>5. Alike(kk, osTaskWake(kk, t, flag))
  <2> DEFINE off == ListDelete(kk, t)
             unlinked == SetFlags(off, t, {flag}, {})
             stopped == osTimerListDelete(unlinked, t)
             cleared == SetFlags(stopped, t, {"TIMEOUT"}, {})
             disarmed == IF "TIMEOUT" \in unlinked.status[t] THEN cleared ELSE unlinked
  <2>1. Alike(kk, off)
    BY ServicesAlike
  <2> HIDE DEF off
  <2>2. Alike(kk, unlinked)
    BY <1>2, <1>3, <2>1
  <2> HIDE DEF unlinked
  <2>3. Alike(kk, stopped)
    <3>1. Alike(unlinked, stopped)
      BY <1>1, <2>2, ServicesAlike
    <3> QED BY <2>2, <3>1, AlikeThrough
  <2> HIDE DEF stopped
  <2>4. Alike(kk, cleared)
    BY <1>2, <1>3, <2>3
  <2> HIDE DEF cleared
  <2>5. Alike(kk, disarmed)
    BY <2>2, <2>4
  <2> HIDE DEF disarmed
  <2>6. Alike(kk, MakeReady(disarmed, t))
    <3>1. Alike(disarmed, MakeReady(disarmed, t))
      BY <1>1, <2>5, MovesAlike
    <3> QED BY <2>5, <3>1, AlikeThrough
  <2>7. osTaskWake(kk, t, flag) \in {disarmed, MakeReady(disarmed, t)}
    BY DEF osTaskWake, off, unlinked, stopped, cleared, disarmed
  <2> QED BY <2>5, <2>6, <2>7
<1> QED BY <1>4, <1>5
=============================================================================
