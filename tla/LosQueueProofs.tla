---------------------------- MODULE LosQueueProofs ----------------------------
(***************************************************************************)
(* Theorems about module LosQueue, for every number of tasks, priorities,  *)
(* queues, messages and mail blocks, every length of a queue and every set *)
(* of timeouts and calls, under the two conditions of module LosTaskProofs *)
(* (no handler preempts the tick interrupt, and none suspends a task) and  *)
(* one more: an application that waits for mail blocks does not lock the   *)
(* scheduler.  osQueueMailAlloc does not test for the lock, and its caller *)
(* would go on while it is on the wait list.                               *)
(***************************************************************************)
EXTENDS LosQueue, LosTaskProofs, FiniteSetTheorems

\* Who waits for mail blocks does not lock the scheduler.
AllocUnlocked == "alloc" \in QueueCalls => "lock" \notin Calls

-----------------------------------------------------------------------------
(* The ring buffer                                                         *)

\* What a slot may hold, the buffers, and the control blocks of the queues.
Slot == Msg \cup {NoMsg}
Bufs == UNION {[0 .. n - 1 -> Slot] : n \in Nat}
Rings == [len : Nat, buf : Bufs, head : Nat, tail : Nat, count : [Side -> Nat]]

\* The slots that hold a message.
Filled(r) == {i \in DOMAIN r.buf : r.buf[i] # NoMsg}
\* The slot of that number, counted past the end of the buffer.
Wrap(r, i) == IF i < r.len THEN i ELSE i - r.len
\* How far a slot is behind the head.
Behind(r, i) == IF i >= r.head THEN i - r.head ELSE i - r.head + r.len

\* The n messages of the ring are in the slots from the head on, up to the tail.
RingOK(r, n) ==
  /\ r \in Rings /\ r.buf \in [0 .. r.len - 1 -> Slot]
  /\ r.len = 0 => r = Unused
  /\ n \in 0 .. r.len
  /\ r.len > 0 => r.head < r.len /\ r.tail = Wrap(r, r.head + n)
  /\ \A i \in 0 .. r.len - 1 : r.buf[i] # NoMsg <=> Behind(r, i) < n

\* The messages from the head on.
Content(r, n) == [i \in 1 .. n |-> r.buf[(r.head + i - 1) % r.len]]

\* s is r with the message m in slot i, and another head and tail.
Moved(r, s, i, m, h, t) ==
  /\ s \in Rings /\ s.buf = [r.buf EXCEPT ![i] = m]
  /\ s.len = r.len /\ s.count = r.count /\ s.head = h /\ s.tail = t

\* Indices past the end wrap around once.
LEMMA ModSmall ==
  ASSUME NEW n \in Nat \ {0}, NEW a \in Nat, a < 2 * n
  PROVE  a % n = IF a < n THEN a ELSE a - n
OBVIOUS

\* A buffer of any length is one of the buffers.
LEMMA BufIntro ==
  ASSUME NEW n \in Nat, NEW b \in [0 .. n - 1 -> Slot]
  PROVE  b \in Bufs
BY DEF Bufs

\* A queue that does not exist holds nothing.
LEMMA UnusedOK == RingOK(Unused, 0) /\ Unused.len = 0 /\ Filled(Unused) = {}
<1>1. <<>> \in [0 .. 0 - 1 -> Slot] /\ DOMAIN <<>> = {}
  <2>1. <<>> \in Seq(Slot) /\ Len(<<>>) = 0
    OBVIOUS
  <2>2. <<>> \in [1 .. 0 -> Slot] /\ DOMAIN <<>> = 1 .. 0
    BY <2>1
  <2>3. 1 .. 0 = {} /\ 0 .. 0 - 1 = {}
    OBVIOUS
  <2> QED BY <2>2, <2>3
<1>2. <<>> \in Bufs
  BY <1>1, BufIntro
<1>3. Unused \in Rings /\ Unused.len = 0 /\ Unused.buf = <<>>
  BY <1>2 DEF Unused, Rings
<1>4. Filled(Unused) = {}
  BY <1>1, <1>3 DEF Filled
<1>5. 0 .. Unused.len - 1 = {} /\ Unused.buf \in [0 .. Unused.len - 1 -> Slot]
  BY <1>1, <1>3
<1> QED BY <1>3, <1>4, <1>5 DEF RingOK

\* A new queue is empty.
LEMMA NewRing ==
  ASSUME NEW n \in Nat \ {0}, NEW r,
         r = [len |-> n, buf |-> [i \in 0 .. n - 1 |-> NoMsg], head |-> 0, tail |-> 0,
              count |-> [side \in Side |-> IF side = "reader" THEN 0 ELSE n]]
  PROVE  RingOK(r, 0) /\ r.len = n /\ r.count["reader"] = 0 /\ r.count["writer"] = n
<1>1. [i \in 0 .. n - 1 |-> NoMsg] \in [0 .. n - 1 -> Slot]
  BY DEF Slot
<1>2. [i \in 0 .. n - 1 |-> NoMsg] \in Bufs
  BY <1>1, BufIntro
<1>3. [side \in Side |-> IF side = "reader" THEN 0 ELSE n] \in [Side -> Nat]
  OBVIOUS
<1>4. r \in Rings
  BY <1>2, <1>3 DEF Rings
<1> QED BY <1>1, <1>4 DEF RingOK, Wrap, Behind, Side

\* The slots that are filled are as many as there are messages.
LEMMA FilledCard ==
  ASSUME NEW r, NEW n, RingOK(r, n)
  PROVE  Cardinality(Filled(r)) = n /\ n \in Nat /\ r.len \in Nat
<1>1. /\ r.len \in Nat /\ r.head \in Nat /\ n \in 0 .. r.len /\ n \in Nat
      /\ r.buf \in [0 .. r.len - 1 -> Slot]
      /\ \A i \in 0 .. r.len - 1 : r.buf[i] # NoMsg <=> Behind(r, i) < n
      /\ r.len > 0 => r.head < r.len
  BY DEF RingOK, Rings
<1>2. Filled(r) = {i \in 0 .. r.len - 1 : Behind(r, i) < n}
  BY <1>1 DEF Filled
<1> DEFINE f == [i \in 1 .. n |-> Wrap(r, r.head + i - 1)]
<1>3. \A i \in 1 .. n : f[i] \in Filled(r)
  BY <1>1, <1>2 DEF Wrap, Behind
<1>4. \A i, j \in 1 .. n : f[i] = f[j] => i = j
  BY <1>1 DEF Wrap
<1>5. \A x \in Filled(r) : \E i \in 1 .. n : f[i] = x
  <2>1. ASSUME NEW x \in Filled(r)
        PROVE  f[Behind(r, x) + 1] = x /\ Behind(r, x) + 1 \in 1 .. n
    <3>1. x \in 0 .. r.len - 1 /\ Behind(r, x) < n /\ r.head < r.len
      BY <1>1, <1>2
    <3>2. Behind(r, x) \in Int /\ Behind(r, x) + 1 \in 1 .. n
      <4>1. Behind(r, x) \in Nat
        BY <1>1, <3>1 DEF Behind
      <4> QED BY <1>1, <3>1, <4>1
    <3>3. r.head + (Behind(r, x) + 1) - 1 = r.head + Behind(r, x)
      BY <1>1, <3>2
    <3>4. Wrap(r, r.head + Behind(r, x)) = x
      BY <1>1, <3>1 DEF Wrap, Behind
    <3> QED BY <3>2, <3>3, <3>4
  <2> QED BY <2>1
<1>6. f \in Bijection(1 .. n, Filled(r))
  <2>1. f \in [1 .. n -> Filled(r)]
    BY <1>3
  <2> HIDE DEF f
  <2>2. f \in Injection(1 .. n, Filled(r))
    BY <1>4, <2>1 DEF Injection, IsInjective
  <2>3. f \in Surjection(1 .. n, Filled(r))
    BY <1>5, <2>1 DEF Surjection
  <2> QED BY <2>2, <2>3 DEF Bijection
<1>7. ExistsBijection(1 .. n, Filled(r))
  BY <1>6 DEF ExistsBijection
<1> QED BY <1>1, <1>7, FS_CountingElements

\* The i-th message.
LEMMA ContentAt ==
  ASSUME NEW r, NEW n, RingOK(r, n), NEW i \in 1 .. n
  PROVE  /\ Content(r, n)[i] = r.buf[Wrap(r, r.head + i - 1)]
         /\ Wrap(r, r.head + i - 1) \in 0 .. r.len - 1
<1>1. /\ r.len \in Nat /\ r.head \in Nat /\ n \in 0 .. r.len /\ n \in Nat
      /\ r.len > 0 /\ r.head < r.len
  BY DEF RingOK, Rings
<1>2. r.head + i - 1 \in Nat /\ r.head + i - 1 < 2 * r.len /\ r.len \in Nat \ {0}
  BY <1>1
<1>3. (r.head + i - 1) % r.len = Wrap(r, r.head + i - 1)
  BY <1>2, ModSmall DEF Wrap
<1>4. Wrap(r, r.head + i - 1) \in 0 .. r.len - 1
  BY <1>1, <1>2 DEF Wrap
<1> QED BY <1>3, <1>4 DEF Content

\* The counts are the business of osQueueOperate, not of the buffer.
LEMMA Recounted ==
  ASSUME NEW r, NEW n, RingOK(r, n), r.len > 0, NEW c \in [Side -> Nat], NEW s, s = [r EXCEPT !.count = c]
  PROVE  /\ RingOK(s, n) /\ s.len = r.len /\ s.buf = r.buf /\ s.head = r.head /\ s.tail = r.tail
         /\ s.count = c
<1>1. r \in Rings
  BY DEF RingOK
<1>2. s \in Rings
  BY <1>1 DEF Rings
<1> QED BY <1>1, <1>2 DEF RingOK, Rings, Wrap, Behind

\* What is behind the head when the head moves on, or back.
LEMMA BehindMoves ==
  ASSUME NEW r, NEW s, r.len \in Nat, r.head \in Nat, r.head < r.len, s.len = r.len, NEW i \in 0 .. r.len - 1
  PROVE  /\ s.head = After(r, r.head) =>
              Behind(s, i) = IF i = r.head THEN r.len - 1 ELSE Behind(r, i) - 1
         /\ s.head = Before(r, r.head) =>
              Behind(s, i) = IF i = s.head THEN 0 ELSE Behind(r, i) + 1
<1>0. PICK g : g = s.head
  OBVIOUS
<1>1. PICK n \in Nat, h \in Nat : n = r.len /\ h = r.head /\ g = s.head /\ s.len = n /\ h < n
  BY <1>0
<1>2. ASSUME g = After(r, r.head)
      PROVE  Behind(s, i) = IF i = r.head THEN r.len - 1 ELSE Behind(r, i) - 1
  <2>1. g = IF h + 1 = n THEN 0 ELSE h + 1
    BY <1>1, <1>2 DEF After
  <2>2. (IF i >= g THEN i - g ELSE i - g + n) = IF i = h THEN n - 1 ELSE (IF i >= h THEN i - h ELSE i - h + n) - 1
    BY <1>1, <2>1
  <2> QED BY <1>1, <2>2 DEF Behind
<1>3. ASSUME g = Before(r, r.head)
      PROVE  Behind(s, i) = IF i = s.head THEN 0 ELSE Behind(r, i) + 1
  <2>1. g = IF h = 0 THEN n - 1 ELSE h - 1
    BY <1>1, <1>3 DEF Before
  <2>2. (IF i >= g THEN i - g ELSE i - g + n) = IF i = g THEN 0 ELSE (IF i >= h THEN i - h ELSE i - h + n) + 1
    BY <1>1, <2>1
  <2> QED BY <1>1, <2>2 DEF Behind
<1> QED BY <1>1, <1>2, <1>3

\* The slots are as far behind the head as their numbers say.
LEMMA BehindExact ==
  ASSUME NEW r, r.len \in Nat, r.head \in Nat, r.head < r.len
  PROVE  /\ After(r, r.head) \in 0 .. r.len - 1 /\ Before(r, r.head) \in 0 .. r.len - 1
         /\ \A i \in 0 .. r.len - 1 :
              Behind(r, i) \in 0 .. r.len - 1 /\ Wrap(r, r.head + Behind(r, i)) = i
         /\ \A a \in 0 .. r.len - 1 :
              Wrap(r, r.head + a) \in 0 .. r.len - 1 /\ Behind(r, Wrap(r, r.head + a)) = a
<1>1. After(r, r.head) \in 0 .. r.len - 1 /\ Before(r, r.head) \in 0 .. r.len - 1
  BY DEF After, Before
<1>2. ASSUME NEW i \in 0 .. r.len - 1
      PROVE  Behind(r, i) \in 0 .. r.len - 1 /\ Wrap(r, r.head + Behind(r, i)) = i
  BY DEF Behind, Wrap
<1>3. ASSUME NEW a \in 0 .. r.len - 1
      PROVE  Wrap(r, r.head + a) \in 0 .. r.len - 1 /\ Behind(r, Wrap(r, r.head + a)) = a
  <2>1. Wrap(r, r.head + a) \in 0 .. r.len - 1
    BY DEF Wrap
  <2>2. CASE r.head + a < r.len
    BY <2>2 DEF Behind, Wrap
  <2>3. CASE r.head + a >= r.len
    BY <2>3 DEF Behind, Wrap
  <2> QED BY <2>1, <2>2, <2>3
<1> QED BY <1>1, <1>2, <1>3

\* An operation of the buffer touches one slot and one index.
LEMMA OperateMoved ==
  ASSUME NEW r, NEW n, RingOK(r, n), r.len > 0, NEW m \in Slot,
         r.tail \in 0 .. r.len - 1
  PROVE  /\ Moved(r, osQueueBufferOperate(r, "read", m), r.head, NoMsg, After(r, r.head), r.tail)
         /\ Moved(r, osQueueBufferOperate(r, "writetail", m), r.tail, m, r.head, After(r, r.tail))
         /\ Moved(r, osQueueBufferOperate(r, "writehead", m), Before(r, r.head), m,
                  Before(r, r.head), r.tail)
<1>1. /\ r \in Rings /\ r.buf \in [0 .. r.len - 1 -> Slot] /\ NoMsg \in Slot
      /\ r.head \in 0 .. r.len - 1 /\ r.len \in Nat
  BY DEF RingOK, Slot, Rings
<1>2. After(r, r.head) \in Nat /\ After(r, r.tail) \in Nat /\ Before(r, r.head) \in 0 .. r.len - 1
  BY <1>1 DEF After, Before
<1>3. ASSUME NEW i \in 0 .. r.len - 1, NEW x \in Slot
      PROVE  [r.buf EXCEPT ![i] = x] \in Bufs
  <2>1. [r.buf EXCEPT ![i] = x] \in [0 .. r.len - 1 -> Slot]
    BY <1>1
  <2> QED BY <1>1, <2>1, BufIntro
<1>4. osQueueBufferOperate(r, "read", m) = [r EXCEPT !.buf = [r.buf EXCEPT ![r.head] = NoMsg],
                                                     !.head = After(r, r.head)]
  BY <1>1 DEF osQueueBufferOperate, Rings
<1>5. osQueueBufferOperate(r, "writetail", m) = [r EXCEPT !.buf = [r.buf EXCEPT ![r.tail] = m],
                                                          !.tail = After(r, r.tail)]
  BY <1>1 DEF osQueueBufferOperate, Rings
<1>6. osQueueBufferOperate(r, "writehead", m) =
        [r EXCEPT !.head = Before(r, r.head), !.buf = [r.buf EXCEPT ![Before(r, r.head)] = m]]
  BY <1>1 DEF osQueueBufferOperate, Rings
<1>7. /\ [r.buf EXCEPT ![r.head] = NoMsg] \in Bufs /\ [r.buf EXCEPT ![r.tail] = m] \in Bufs
      /\ [r.buf EXCEPT ![Before(r, r.head)] = m] \in Bufs
  BY <1>1, <1>2, <1>3
<1>8. ASSUME NEW b \in Bufs, NEW x \in Nat
      PROVE  /\ [r EXCEPT !.buf = b, !.head = x] \in Rings /\ [r EXCEPT !.buf = b, !.tail = x] \in Rings
             /\ [r EXCEPT !.head = x, !.buf = b] \in Rings
  BY <1>1 DEF Rings
<1>9. /\ [r EXCEPT !.buf = [r.buf EXCEPT ![r.head] = NoMsg], !.head = After(r, r.head)] \in Rings
      /\ [r EXCEPT !.buf = [r.buf EXCEPT ![r.tail] = m], !.tail = After(r, r.tail)] \in Rings
      /\ [r EXCEPT !.head = Before(r, r.head), !.buf = [r.buf EXCEPT ![Before(r, r.head)] = m]] \in Rings
  <2>1. Before(r, r.head) \in Nat
    BY <1>2
  <2> QED BY <1>2, <1>7, <1>8, <2>1
<1> QED BY <1>1, <1>4, <1>5, <1>6, <1>9 DEF Moved, Rings

\* What the bounds of a ring give the arithmetic.
LEMMA RingBounds ==
  ASSUME NEW r, NEW n, RingOK(r, n), r.len > 0
  PROVE  /\ r.len \in Nat \ {0} /\ r.head \in 0 .. r.len - 1 /\ r.tail \in 0 .. r.len - 1 /\ n \in 0 .. r.len
         /\ r.tail = Wrap(r, r.head + n) /\ r.buf \in [0 .. r.len - 1 -> Slot]
         /\ \A i \in 0 .. r.len - 1 : r.buf[i] # NoMsg <=> Behind(r, i) < n
<1>1. /\ r.len \in Nat /\ r.head \in Nat /\ r.head < r.len /\ n \in 0 .. r.len
      /\ r.tail = Wrap(r, r.head + n) /\ r.buf \in [0 .. r.len - 1 -> Slot]
      /\ \A i \in 0 .. r.len - 1 : r.buf[i] # NoMsg <=> Behind(r, i) < n
  BY DEF RingOK, Rings
<1>2. r.tail \in 0 .. r.len - 1
  BY <1>1 DEF Wrap
<1> QED BY <1>1, <1>2

\* The messages are a sequence of that length.
LEMMA ContentSeq ==
  ASSUME NEW r, NEW n, RingOK(r, n)
  PROVE  Content(r, n) \in Seq(Slot) /\ Len(Content(r, n)) = n /\ n \in Nat
<1>1. n \in Nat /\ r.buf \in [0 .. r.len - 1 -> Slot]
  BY DEF RingOK, Rings
<1>2. ASSUME NEW i \in 1 .. n
      PROVE  Content(r, n)[i] \in Slot
  <2>1. PICK w \in 0 .. r.len - 1 : Content(r, n)[i] = r.buf[w]
    BY ContentAt
  <2> QED BY <1>1, <2>1
<1>3. Content(r, n) \in [1 .. n -> Slot]
  BY <1>2 DEF Content
<1> QED BY <1>1, <1>3

\* One slot further on.
LEMMA WrapNext ==
  ASSUME NEW r, NEW s, r.len \in Nat, r.head \in Nat, r.head < r.len, s.len = r.len
  PROVE  /\ \A a \in 1 .. r.len : Wrap(s, After(r, r.head) + (a - 1)) = Wrap(r, r.head + a)
         /\ \A a \in 0 .. r.len - 1 : After(r, Wrap(r, r.head + a)) = Wrap(r, r.head + (a + 1))
         /\ \A a \in 1 .. r.len : Wrap(s, Before(r, r.head) + a) = Wrap(r, r.head + (a - 1))
<1>1. PICK n \in Nat, h \in Nat : n = r.len /\ h = r.head /\ s.len = n /\ h < n
  OBVIOUS
<1>2. ASSUME NEW a \in 1 .. n
      PROVE  Wrap(s, After(r, h) + (a - 1)) = Wrap(r, h + a)
  <2>1. CASE h + 1 = n
    BY <1>1, <2>1 DEF Wrap, After
  <2>2. CASE h + 1 < n
    <3>1. After(r, h) = h + 1 /\ (h + 1) + (a - 1) = h + a
      BY <1>1, <2>2 DEF After
    <3> QED BY <1>1, <3>1 DEF Wrap
  <2> QED BY <1>1, <2>1, <2>2
<1>3. ASSUME NEW a \in 0 .. n - 1
      PROVE  After(r, Wrap(r, h + a)) = Wrap(r, h + (a + 1))
  <2>1. CASE h + a < n
    <3>1. Wrap(r, h + a) = h + a /\ h + (a + 1) = (h + a) + 1
      BY <1>1, <2>1 DEF Wrap
    <3>2. After(r, h + a) = IF (h + a) + 1 = n THEN 0 ELSE (h + a) + 1
      BY <1>1 DEF After
    <3>3. Wrap(r, (h + a) + 1) = IF (h + a) + 1 < n THEN (h + a) + 1 ELSE (h + a) + 1 - n
      BY <1>1 DEF Wrap
    <3> QED BY <1>1, <2>1, <3>1, <3>2, <3>3
  <2>2. CASE h + a >= n
    <3>1. Wrap(r, h + a) = h + a - n /\ h + a - n + 1 < n
      BY <1>1, <2>2 DEF Wrap
    <3> QED BY <1>1, <2>2, <3>1 DEF After, Wrap
  <2> QED BY <1>1, <2>1, <2>2
<1>4. ASSUME NEW a \in 1 .. n
      PROVE  Wrap(s, Before(r, h) + a) = Wrap(r, h + (a - 1))
  <2>1. CASE h = 0
    <3>1. Before(r, h) = n - 1 /\ (n - 1) + a >= n
      BY <1>1, <2>1 DEF Before
    <3>2. Wrap(s, (n - 1) + a) = a - 1
      BY <1>1, <3>1 DEF Wrap
    <3>3. Wrap(r, h + (a - 1)) = a - 1
      BY <1>1, <2>1 DEF Wrap
    <3> QED BY <3>1, <3>2, <3>3
  <2>2. CASE h > 0
    <3>1. Before(r, h) = h - 1 /\ (h - 1) + a = h + (a - 1)
      BY <1>1, <2>2 DEF Before
    <3> QED BY <1>1, <3>1 DEF Wrap
  <2> QED BY <1>1, <2>1, <2>2
<1> QED BY <1>1, <1>2, <1>3, <1>4

\* A read takes the first message.
LEMMA ReadRing ==
  ASSUME NEW r, NEW n, RingOK(r, n), n > 0, NEW s,
         Moved(r, s, r.head, NoMsg, After(r, r.head), r.tail)
  PROVE  /\ RingOK(s, n - 1) /\ s.len = r.len /\ s.count = r.count
         /\ Content(r, n) # <<>> /\ Content(s, n - 1) = Tail(Content(r, n))
<1>1. r.len > 0
  BY DEF RingOK, Rings
<1>2. /\ r.len \in Nat \ {0} /\ r.head \in 0 .. r.len - 1 /\ n \in 1 .. r.len
      /\ r.tail = Wrap(r, r.head + n) /\ r.buf \in [0 .. r.len - 1 -> Slot]
      /\ \A i \in 0 .. r.len - 1 : r.buf[i] # NoMsg <=> Behind(r, i) < n
  BY <1>1, RingBounds
<1>3. /\ s \in Rings /\ s.buf = [r.buf EXCEPT ![r.head] = NoMsg] /\ s.len = r.len
      /\ s.count = r.count /\ s.head = After(r, r.head) /\ s.tail = r.tail
  BY DEF Moved
<1>4. /\ s.buf \in [0 .. r.len - 1 -> Slot] /\ s.head \in 0 .. r.len - 1
      /\ \A a \in 1 .. r.len : Wrap(s, s.head + (a - 1)) = Wrap(r, r.head + a)
  <2>1. s.buf \in [0 .. r.len - 1 -> Slot]
    BY <1>2, <1>3 DEF Slot
  <2>2. r.len \in Nat /\ r.head \in Nat /\ r.head < r.len
    BY <1>2
  <2>3. s.head \in 0 .. r.len - 1
    BY <1>3, <2>2, BehindExact
  <2>4. \A a \in 1 .. r.len : Wrap(s, After(r, r.head) + (a - 1)) = Wrap(r, r.head + a)
    BY <1>3, <2>2, WrapNext
  <2> QED BY <1>3, <2>1, <2>3, <2>4
<1>5. RingOK(s, n - 1)
  <2>1. s.tail = Wrap(s, s.head + (n - 1))
    BY <1>2, <1>3, <1>4
  <2>2. ASSUME NEW i \in 0 .. s.len - 1
        PROVE  s.buf[i] # NoMsg <=> Behind(s, i) < n - 1
    <3>1. Behind(s, i) = IF i = r.head THEN r.len - 1 ELSE Behind(r, i) - 1
      BY <1>2, <1>3, <2>2, BehindMoves
    <3>2. Behind(r, i) \in Int /\ (r.buf[i] # NoMsg <=> Behind(r, i) < n)
      BY <1>2, <1>3, <2>2, BehindExact
    <3>3. s.buf[i] = IF i = r.head THEN NoMsg ELSE r.buf[i]
      BY <1>2, <1>3
    <3> QED BY <1>2, <3>1, <3>2, <3>3
  <2> QED BY <1>1, <1>2, <1>3, <1>4, <2>1, <2>2 DEF RingOK
<1>6. Content(s, n - 1) = Tail(Content(r, n)) /\ Content(r, n) # <<>>
  <2>1. /\ Content(r, n) \in Seq(Slot) /\ Len(Content(r, n)) = n
        /\ Content(s, n - 1) \in Seq(Slot) /\ Len(Content(s, n - 1)) = n - 1
    BY <1>5, ContentSeq
  <2>2. ASSUME NEW i \in 1 .. n - 1
        PROVE  Content(s, n - 1)[i] = Content(r, n)[i + 1]
    <3>1. Content(s, n - 1)[i] = s.buf[Wrap(s, s.head + (i - 1))]
      <4>1. s.head + i - 1 = s.head + (i - 1)
        BY <1>2, <1>4
      <4> QED BY <1>5, <4>1, ContentAt
    <3>2. /\ Content(r, n)[i + 1] = r.buf[Wrap(r, r.head + i)]
          /\ Wrap(r, r.head + i) \in 0 .. r.len - 1
      <4>1. r.head + (i + 1) - 1 = r.head + i /\ i + 1 \in 1 .. n
        BY <1>2
      <4> QED BY <4>1, ContentAt
    <3>3. Wrap(s, s.head + (i - 1)) = Wrap(r, r.head + i)
      BY <1>2, <1>4
    <3>4. Wrap(r, r.head + i) # r.head
      BY <1>2 DEF Wrap
    <3> QED BY <1>2, <1>3, <3>1, <3>2, <3>3, <3>4
  <2>3. Tail(Content(r, n)) \in Seq(Slot) /\ Len(Tail(Content(r, n))) = n - 1
    BY <1>2, <2>1
  <2>4. \A i \in 1 .. n - 1 : Tail(Content(r, n))[i] = Content(r, n)[i + 1]
    BY <1>2, <2>1
  <2> QED BY <1>2, <2>1, <2>2, <2>3, <2>4
<1> QED BY <1>3, <1>5, <1>6

\* A write at the tail adds the message behind the others.
LEMMA TailRing ==
  ASSUME NEW r, NEW n, RingOK(r, n), n < r.len, NEW m \in Msg, NoMsg \notin Msg, NEW s,
         Moved(r, s, r.tail, m, r.head, After(r, r.tail))
  PROVE  /\ RingOK(s, n + 1) /\ s.len = r.len /\ s.count = r.count
         /\ Content(s, n + 1) = Append(Content(r, n), m)
<1>1. r.len > 0
  BY DEF RingOK, Rings
<1>2. /\ r.len \in Nat \ {0} /\ r.head \in 0 .. r.len - 1 /\ r.tail \in 0 .. r.len - 1 /\ n \in 0 .. r.len - 1
      /\ r.tail = Wrap(r, r.head + n) /\ r.buf \in [0 .. r.len - 1 -> Slot]
      /\ \A i \in 0 .. r.len - 1 : r.buf[i] # NoMsg <=> Behind(r, i) < n
  BY <1>1, RingBounds
<1>3. /\ s \in Rings /\ s.buf = [r.buf EXCEPT ![r.tail] = m] /\ s.len = r.len
      /\ s.count = r.count /\ s.head = r.head /\ s.tail = After(r, r.tail) /\ m # NoMsg
  BY DEF Moved
<1>4. /\ s.buf \in [0 .. r.len - 1 -> Slot]
      /\ \A a : Wrap(s, a) = Wrap(r, a) /\ Behind(s, a) = Behind(r, a)
  BY <1>2, <1>3 DEF Slot, Wrap, Behind
<1>5. RingOK(s, n + 1)
  <2>1. s.tail = Wrap(s, s.head + (n + 1))
    <3>1. s.tail = Wrap(r, r.head + (n + 1))
      <4>1. r.len \in Nat /\ r.head \in Nat /\ r.head < r.len /\ n \in 0 .. r.len - 1
        BY <1>2
      <4>2. After(r, Wrap(r, r.head + n)) = Wrap(r, r.head + (n + 1))
        BY <4>1, WrapNext
      <4> QED BY <1>2, <1>3, <4>2
    <3> QED BY <1>3, <1>4, <3>1
  <2>2. ASSUME NEW i \in 0 .. s.len - 1
        PROVE  s.buf[i] # NoMsg <=> Behind(s, i) < n + 1
    <3>1. Behind(r, i) \in Int /\ Behind(r, r.tail) = n /\ Wrap(r, r.head + Behind(r, i)) = i
      BY <1>2, <1>3, BehindExact
    <3>2. (r.buf[i] # NoMsg <=> Behind(r, i) < n) /\ (Behind(r, i) = n => i = r.tail)
      BY <1>2, <1>3, <3>1
    <3>3. s.buf[i] = IF i = r.tail THEN m ELSE r.buf[i]
      BY <1>2, <1>3
    <3> QED BY <1>2, <1>3, <1>4, <3>1, <3>2, <3>3
  <2> QED BY <1>1, <1>2, <1>3, <1>4, <2>1, <2>2 DEF RingOK
<1>6. Content(s, n + 1) = Append(Content(r, n), m)
  <2>1. /\ Content(r, n) \in Seq(Slot) /\ Len(Content(r, n)) = n
        /\ Content(s, n + 1) \in Seq(Slot) /\ Len(Content(s, n + 1)) = n + 1
    BY <1>5, ContentSeq
  <2>2. ASSUME NEW i \in 1 .. n
        PROVE  Content(s, n + 1)[i] = Content(r, n)[i]
    <3>1. Content(s, n + 1)[i] = s.buf[Wrap(r, r.head + i - 1)]
      <4>1. i \in 1 .. n + 1
        BY <1>2
      <4>2. Content(s, n + 1)[i] = s.buf[Wrap(s, s.head + i - 1)]
        BY <1>5, <4>1, ContentAt
      <4> QED BY <1>3, <1>4, <4>2
    <3>2. /\ Content(r, n)[i] = r.buf[Wrap(r, r.head + i - 1)]
          /\ Wrap(r, r.head + i - 1) \in 0 .. r.len - 1
      BY <1>2, ContentAt
    <3>3. Wrap(r, r.head + i - 1) # r.tail
      BY <1>2 DEF Wrap
    <3> QED BY <1>2, <1>3, <3>1, <3>2, <3>3
  <2>3. Content(s, n + 1)[n + 1] = m
    <3>1. s.head = r.head /\ r.head + (n + 1) - 1 = r.head + n /\ n + 1 \in 1 .. n + 1
      <4>1. r.head \in Nat /\ n \in Nat
        BY <1>2
      <4> QED BY <1>3, <4>1
    <3>2. Content(s, n + 1)[n + 1] = s.buf[r.tail]
      BY <1>2, <1>4, <1>5, <3>1, ContentAt
    <3> QED BY <1>2, <1>3, <3>2
  <2>4. /\ Append(Content(r, n), m) \in Seq(Slot) /\ Len(Append(Content(r, n), m)) = n + 1
        /\ Append(Content(r, n), m)[n + 1] = m
        /\ \A i \in 1 .. n : Append(Content(r, n), m)[i] = Content(r, n)[i]
    BY <2>1 DEF Slot
  <2>5. \A i \in 1 .. n + 1 : Content(s, n + 1)[i] = Append(Content(r, n), m)[i]
    BY <1>2, <2>2, <2>3, <2>4
  <2> QED BY <1>2, <2>1, <2>4, <2>5
<1> QED BY <1>3, <1>5, <1>6

\* A write at the head puts the message before the others.
LEMMA HeadRing ==
  ASSUME NEW r, NEW n, RingOK(r, n), n < r.len, NEW m \in Msg, NoMsg \notin Msg, NEW s,
         Moved(r, s, Before(r, r.head), m, Before(r, r.head), r.tail)
  PROVE  /\ RingOK(s, n + 1) /\ s.len = r.len /\ s.count = r.count
         /\ Content(s, n + 1) = <<m>> \o Content(r, n)
<1>1. r.len > 0
  BY DEF RingOK, Rings
<1>2. /\ r.len \in Nat \ {0} /\ r.head \in 0 .. r.len - 1 /\ n \in 0 .. r.len - 1
      /\ r.tail = Wrap(r, r.head + n) /\ r.buf \in [0 .. r.len - 1 -> Slot]
      /\ \A i \in 0 .. r.len - 1 : r.buf[i] # NoMsg <=> Behind(r, i) < n
  BY <1>1, RingBounds
<1>3. /\ s \in Rings /\ s.len = r.len /\ s.count = r.count /\ s.head = Before(r, r.head)
      /\ s.tail = r.tail /\ m # NoMsg /\ s.buf = [r.buf EXCEPT ![s.head] = m]
  BY DEF Moved
<1>4. /\ s.buf \in [0 .. r.len - 1 -> Slot] /\ s.head \in 0 .. r.len - 1
      /\ \A a \in 1 .. r.len : Wrap(s, s.head + a) = Wrap(r, r.head + (a - 1))
      /\ \A a \in 0 .. r.len - 1 :
           Wrap(r, r.head + a) \in 0 .. r.len - 1 /\ Behind(r, Wrap(r, r.head + a)) = a
      /\ Behind(r, s.head) = r.len - 1
  <2>1. r.len \in Nat /\ r.head \in Nat /\ r.head < r.len
    BY <1>2
  <2>2. s.head \in 0 .. r.len - 1
    BY <1>3, <2>1, BehindExact
  <2>3. s.buf \in [0 .. r.len - 1 -> Slot]
    BY <1>2, <1>3, <2>2 DEF Slot
  <2>4. \A a \in 1 .. r.len : Wrap(s, s.head + a) = Wrap(r, r.head + (a - 1))
    BY <1>3, <2>1, WrapNext
  <2>5. \A a \in 0 .. r.len - 1 :
          Wrap(r, r.head + a) \in 0 .. r.len - 1 /\ Behind(r, Wrap(r, r.head + a)) = a
    BY <2>1, BehindExact
  <2>6. Behind(r, s.head) = r.len - 1
    BY <1>3, <2>1 DEF Behind, Before
  <2> QED BY <2>2, <2>3, <2>4, <2>5, <2>6
<1>5. RingOK(s, n + 1)
  <2>1. s.tail = Wrap(s, s.head + (n + 1))
    <3>1. n + 1 \in 1 .. r.len /\ (n + 1) - 1 = n
      BY <1>2
    <3> QED BY <1>2, <1>3, <1>4, <3>1
  <2>2. ASSUME NEW i \in 0 .. s.len - 1
        PROVE  s.buf[i] # NoMsg <=> Behind(s, i) < n + 1
    <3>1. Behind(s, i) = IF i = s.head THEN 0 ELSE Behind(r, i) + 1
      BY <1>2, <1>3, <2>2, BehindMoves
    <3>2. Behind(r, i) \in Int /\ (r.buf[i] # NoMsg <=> Behind(r, i) < n)
      BY <1>2, <1>3, <2>2, BehindExact
    <3>3. s.buf[i] = IF i = s.head THEN m ELSE r.buf[i]
      BY <1>2, <1>3
    <3> QED BY <1>2, <1>3, <3>1, <3>2, <3>3
  <2>3. n + 1 \in 0 .. s.len /\ s.head < s.len /\ s.len # 0
    <3>1. n + 1 \in 0 .. r.len /\ r.len # 0
      BY <1>2
    <3>2. s.head < r.len
      BY <1>2, <1>4
    <3> QED BY <1>3, <3>1, <3>2
  <2> QED BY <1>3, <1>4, <2>1, <2>2, <2>3 DEF RingOK
<1>6. Content(s, n + 1) = <<m>> \o Content(r, n)
  <2>1. /\ Content(r, n) \in Seq(Slot) /\ Len(Content(r, n)) = n
        /\ Content(s, n + 1) \in Seq(Slot) /\ Len(Content(s, n + 1)) = n + 1
    BY <1>5, ContentSeq
  <2>2. ASSUME NEW i \in 1 .. n
        PROVE  Content(s, n + 1)[i + 1] = Content(r, n)[i]
    <3>1. Content(s, n + 1)[i + 1] = s.buf[Wrap(s, s.head + i)]
      <4>1. s.head + (i + 1) - 1 = s.head + i /\ i + 1 \in 1 .. n + 1
        BY <1>2, <1>4
      <4> QED BY <1>5, <4>1, ContentAt
    <3>2. Content(r, n)[i] = r.buf[Wrap(r, r.head + (i - 1))]
      <4>1. r.head + i - 1 = r.head + (i - 1)
        BY <1>2
      <4> QED BY <4>1, ContentAt
    <3>3. Wrap(s, s.head + i) = Wrap(r, r.head + (i - 1))
      BY <1>2, <1>4
    <3>4. Wrap(r, r.head + (i - 1)) \in 0 .. r.len - 1 /\ Wrap(r, r.head + (i - 1)) # s.head
      <4>1. i - 1 \in 0 .. r.len - 1 /\ i - 1 # r.len - 1
        BY <1>2
      <4> QED BY <1>4, <4>1
    <3> QED BY <1>2, <1>3, <3>1, <3>2, <3>3, <3>4
  <2>3. Content(s, n + 1)[1] = m
    <3>1. s.head + 1 - 1 = s.head /\ 1 \in 1 .. n + 1
      BY <1>2, <1>4
    <3>2. Wrap(s, s.head) = s.head
      <4>1. s.head < s.len
        BY <1>2, <1>3, <1>4
      <4> QED BY <4>1 DEF Wrap
    <3>3. Content(s, n + 1)[1] = s.buf[s.head]
      BY <1>5, <3>1, <3>2, ContentAt
    <3> QED BY <1>2, <1>3, <1>4, <3>3
  <2>4. /\ <<m>> \o Content(r, n) \in Seq(Slot) /\ Len(<<m>> \o Content(r, n)) = n + 1
        /\ (<<m>> \o Content(r, n))[1] = m
        /\ \A i \in 1 .. n : (<<m>> \o Content(r, n))[i + 1] = Content(r, n)[i]
    BY <2>1 DEF Slot
  <2>5. ASSUME NEW i \in 1 .. n + 1
        PROVE  Content(s, n + 1)[i] = (<<m>> \o Content(r, n))[i]
    <3>1. i = 1 \/ \E j \in 1 .. n : i = j + 1
      <4>1. i # 1 => i - 1 \in 1 .. n /\ i = (i - 1) + 1
        BY <1>2
      <4> QED BY <4>1
    <3> QED BY <2>2, <2>3, <2>4, <3>1
  <2> QED BY <1>2, <2>1, <2>4, <2>5
<1> QED BY <1>3, <1>5, <1>6

\* How many messages there are after an operation, and which.
Served(op, n) == IF op = "read" THEN n - 1 ELSE n + 1
Possible(r, n, op, m) == IF op = "read" THEN n > 0 ELSE n < r.len /\ m \in Msg
Passed(op, m, a, b) ==
  CASE op = "read" -> a # <<>> /\ b = Tail(a)
    [] op = "writetail" -> b = Append(a, m)
    [] op = "writehead" -> b = <<m>> \o a

\* What osQueueBufferOperate does to the messages.
LEMMA OperateRing ==
  ASSUME NEW r, NEW n, RingOK(r, n), NEW op \in Op, NEW m \in Slot, Possible(r, n, op, m), NoMsg \notin Msg,
         NEW s, s = osQueueBufferOperate(r, op, m)
  PROVE  /\ RingOK(s, Served(op, n)) /\ s.len = r.len /\ s.count = r.count /\ r.len > 0
         /\ Passed(op, m, Content(r, n), Content(s, Served(op, n)))
<1>1. r.len > 0
  BY DEF RingOK, Rings, Possible
<1>2. r.tail \in 0 .. r.len - 1
  BY <1>1, RingBounds
<1>3. CASE op = "read"
  <2>1. Moved(r, s, r.head, NoMsg, After(r, r.head), r.tail) /\ n > 0
    BY <1>1, <1>2, <1>3, OperateMoved DEF Possible
  <2> QED BY <1>1, <1>3, <2>1, ReadRing DEF Served, Passed
<1>4. CASE op = "writetail"
  <2>1. Moved(r, s, r.tail, m, r.head, After(r, r.tail)) /\ n < r.len /\ m \in Msg
    BY <1>1, <1>2, <1>4, OperateMoved DEF Possible
  <2> QED BY <1>1, <1>4, <2>1, TailRing DEF Served, Passed
<1>5. CASE op = "writehead"
  <2>1. Moved(r, s, Before(r, r.head), m, Before(r, r.head), r.tail) /\ n < r.len /\ m \in Msg
    BY <1>1, <1>2, <1>5, OperateMoved DEF Possible
  <2> QED BY <1>1, <1>5, <2>1, HeadRing DEF Served, Passed
<1> QED BY <1>3, <1>4, <1>5 DEF Op

-----------------------------------------------------------------------------
(* The inductive invariant                                                 *)

\* What the constants give the proofs.
Lists == Side \cup {"mem"}

\* The calls, lists and objects of the queues are those of the kernel.
LEMMA QueueFacts ==
  /\ PendObj = Queue \X Lists /\ NoTask \notin PendObj /\ NoTask \notin Queue
  /\ NoMsg \notin Msg /\ NoMsg \notin Block /\ QueueLens \subseteq Nat \ {0} /\ IsFiniteSet(Block)
  /\ Timeouts \subseteq (Nat \ {0}) \cup {WAIT_FOREVER} /\ "PEND_QUEUE" \in Waiting
  /\ Side = {"reader", "writer"} /\ UserTask \subseteq TaskID
BY QueueAssumption DEF Lists, Waiting, Side, UserTask

\* A call that waits, and what it waits for.
CallRecord == [q : Queue \cup {NoTask}, op : Op \cup {"alloc"}, msg : Slot]
ArgOK(a) ==
  a = NoArg \/ (a.q \in Queue /\ (a.op \in {"read", "alloc"} <=> a.msg = NoMsg))
Wanted == [t \in TaskID |-> IF arg[t].q = NoTask THEN NoTask ELSE <<arg[t].q, ListOf(arg[t].op)>>]

\* The control blocks of the queues and the calls that wait.
QueueTypeOK ==
  /\ que \in [Queue -> Rings] /\ lost \in [Queue -> BOOLEAN]
  /\ arg \in [TaskID -> CallRecord] /\ \A t \in TaskID : ArgOK(arg[t])

\* Who is on a wait list is in the call for that list, and the other way round.
PendCalls == WaitsFor("PEND_QUEUE", k, pc, Wanted)

\* The buffers hold their messages in one piece.
RingsOK == \A q \in Queue : RingOK(que[q], Stored(q))

\* The messages, or the free slots, of a queue, and what calls may count on.
Room(q, side) == IF side = "reader" THEN Stored(q) ELSE que[q].len - Stored(q)
Claims(q, side) == que[q].count[side] + WokenTasks(q, side)
CountOK(q, side) ==
  Claims(q, side) <= Room(q, side) /\ (~lost[q] => Claims(q, side) = Room(q, side))
CountsOK == \A q \in Queue, side \in Side : CountOK(q, side)

\* Tasks wait only for queues that exist, and readers and writers only while
\* their count is zero.
WaitersOK ==
  /\ \A q \in Queue, list \in Lists : k.pend[<<q, list>>] # <<>> => InUse(q)
  /\ \A q \in Queue, side \in Side : k.pend[<<q, side>>] # <<>> => que[q].count[side] = 0

\* The pools, the blocks the application has and those left for a task.
Pools == [free : Seq(Block), cnt : Int, num : Int]
MailTypeOK ==
  /\ pool \in [Queue -> Pools] /\ mail \in [Queue -> SUBSET Block]
  /\ given \in [TaskID -> Block \cup {NoMsg}]

\* Who waits for a block has none; who waits no more has one, or is too late.
Granted ==
  \A t \in TaskID : arg[t].op = "alloc" =>
    IF IsOn(k.pend[<<arg[t].q, "mem">>], t) THEN given[t] = NoMsg
    ELSE "TIMEOUT" \in k.status[t] <=> given[t] = NoMsg

\* Nobody locks the scheduler of an application that waits for blocks.
Unlocked == "alloc" \in QueueCalls => taskLock = 0

MailInv == MailTypeOK /\ OneOwner /\ Granted /\ Unlocked

\* The inductive invariant.
QueueInv ==
  IInv(TRUE) /\ QueueTypeOK /\ PendCalls /\ RingsOK /\ CountsOK /\ WaitersOK /\ MailInv

\* The tasks that were woken by a queue.
WokenAt(q, side) == {t \in UserTask : Woken(t, q, side)}

\* They are finitely many.
LEMMA WokenType ==
  ASSUME NEW q, NEW side
  PROVE  /\ IsFiniteSet(WokenAt(q, side)) /\ WokenTasks(q, side) = Cardinality(WokenAt(q, side))
         /\ WokenTasks(q, side) \in Nat
<1>1. IsFiniteSet(UserTask)
  <2>1. IsFiniteSet(0 .. TSK_LIMIT) /\ UserTask \subseteq 0 .. TSK_LIMIT
    BY FS_Interval, LimitAssumption DEF UserTask, TaskID
  <2> QED BY <2>1, FS_Subset
<1>2. WokenAt(q, side) \in SUBSET UserTask
  BY DEF WokenAt
<1>3. IsFiniteSet(WokenAt(q, side))
  BY <1>1, <1>2, FS_Subset
<1>4. Cardinality(WokenAt(q, side)) \in Nat
  BY <1>3, FS_CardinalityType
<1> QED BY <1>3, <1>4 DEF WokenTasks, WokenAt

\* What a call waits for.
LEMMA WantedIs ==
  ASSUME QueueTypeOK, NEW t \in TaskID
  PROVE  /\ arg[t].q \in Queue \cup {NoTask} /\ arg[t].op \in Op \cup {"alloc"} /\ arg[t].msg \in Slot
         /\ Wanted[t] = NoTask <=> arg[t].q = NoTask
         /\ arg[t].q = NoTask <=> arg[t] = NoArg
         /\ \A q \in Queue, list \in Lists :
              Wanted[t] = <<q, list>> <=> arg[t].q = q /\ ListOf(arg[t].op) = list
         /\ ListOf(arg[t].op) \in Lists
         /\ arg[t].op = "alloc" => arg[t].q \in Queue /\ arg[t].msg = NoMsg
         /\ arg[t].op # "alloc" => ListOf(arg[t].op) \in Side
         /\ arg[t].op = "alloc" <=> ListOf(arg[t].op) = "mem"
         /\ arg[t].q \in Queue => (arg[t].op \in {"read", "alloc"} <=> arg[t].msg = NoMsg)
<1>1. arg[t] \in CallRecord /\ ArgOK(arg[t])
  BY DEF QueueTypeOK
<1>2. NoArg.q = NoTask /\ NoArg.op = "read" /\ NoTask \notin Queue /\ NoTask \notin PendObj
  BY QueueFacts DEF NoArg
<1>3. arg[t].q \in Queue \cup {NoTask} /\ arg[t].op \in Op \cup {"alloc"} /\ arg[t].msg \in Slot
  BY <1>1 DEF CallRecord
<1>4. /\ ListOf(arg[t].op) \in Lists
      /\ arg[t].op # "alloc" => ListOf(arg[t].op) \in Side
      /\ arg[t].op = "alloc" <=> ListOf(arg[t].op) = "mem"
  BY <1>3 DEF ListOf, Lists, Side, Op
<1>5. arg[t].q \in Queue => <<arg[t].q, ListOf(arg[t].op)>> \in PendObj
  <2>1. PendObj = Queue \X Lists
    BY QueueFacts
  <2> QED BY <1>4, <2>1
<1>6. Wanted[t] = IF arg[t].q = NoTask THEN NoTask ELSE <<arg[t].q, ListOf(arg[t].op)>>
  BY DEF Wanted
<1>7. arg[t].q = NoTask <=> arg[t] = NoArg
  BY <1>1, <1>2 DEF ArgOK
<1>8. arg[t].q \in Queue => (arg[t].op \in {"read", "alloc"} <=> arg[t].msg = NoMsg)
  BY <1>1, <1>2 DEF ArgOK
<1>9. arg[t].op = "alloc" => arg[t].q \in Queue /\ arg[t].msg = NoMsg
  BY <1>1, <1>2 DEF ArgOK
<1>10. Wanted[t] = NoTask <=> arg[t].q = NoTask
  BY <1>2, <1>3, <1>5, <1>6
<1>11. ASSUME NEW q \in Queue, NEW list \in Lists
       PROVE  Wanted[t] = <<q, list>> <=> arg[t].q = q /\ ListOf(arg[t].op) = list
  <2>1. PendObj = Queue \X Lists
    BY QueueFacts
  <2>2. <<q, list>> \in PendObj
    BY <2>1
  <2> QED BY <1>2, <1>3, <1>6, <2>2
<1> QED BY <1>3, <1>4, <1>7, <1>8, <1>9, <1>10, <1>11

-----------------------------------------------------------------------------
(* The mail pools                                                          *)

\* A new pool has every block on its free list, once.
LEMMA NewPool ==
  LOS_MemboxInit(Block) \in Pools /\ MemboxExact(LOS_MemboxInit(Block))
<1>1. IsFiniteSet(Block) /\ Cardinality(Block) \in Nat /\ ExistsBijection(1 .. Cardinality(Block), Block)
  BY QueueFacts, FS_CardinalityType
<1>2. PICK n \in Nat : n = Cardinality(Block)
  BY <1>1
<1>3. PICK f : f = SetToSeq(Block)
  OBVIOUS
<1>4. f \in [1 .. n -> Block] /\ IsInjective(f)
  <2>1. PICK g : g \in Bijection(1 .. n, Block)
    BY <1>1, <1>2 DEF ExistsBijection
  <2>2. g \in [1 .. n -> Block] /\ IsInjective(g)
    BY <2>1 DEF Bijection, Injection
  <2> QED BY <1>2, <1>3, <2>2 DEF SetToSeq
<1>5. f \in Seq(Block) /\ DOMAIN f = 1 .. n
  BY <1>4
<1>6. ToSet(f) = Block
  <2>1. f \in Injection(1 .. n, Block)
    BY <1>4 DEF Injection
  <2>2. Cardinality(1 .. n) = n
    BY <1>2, FS_Interval
  <2>3. f \in Surjection(1 .. n, Block)
    BY <1>1, <1>2, <2>1, <2>2, FS_Injection
  <2>4. \A b \in Block : \E i \in 1 .. n : f[i] = b
    BY <2>3 DEF Surjection
  <2> QED BY <1>4, <1>5, <2>4 DEF ToSet
<1>7. LOS_MemboxInit(Block) = [free |-> f, cnt |-> 0, num |-> n]
  BY <1>2, <1>3 DEF LOS_MemboxInit
<1>8. 0 = n - Cardinality(Block)
  BY <1>2
<1> QED BY <1>2, <1>4, <1>5, <1>6, <1>7, <1>8 DEF Pools, MemboxExact, FreeBlocks

\* The free blocks are blocks, finitely many.
LEMMA FreeType ==
  ASSUME NEW box \in Pools
  PROVE  /\ FreeBlocks(box) \subseteq Block /\ IsFiniteSet(FreeBlocks(box))
         /\ Cardinality(FreeBlocks(box)) \in Nat
         /\ HasFree(box) <=> FreeBlocks(box) # {}
<1>1. box.free \in Seq(Block) /\ FreeBlocks(box) = {box.free[i] : i \in 1 .. Len(box.free)}
  BY DEF Pools, FreeBlocks, ToSet
<1>2. FreeBlocks(box) \in SUBSET Block
  BY <1>1
<1>3. IsFiniteSet(FreeBlocks(box))
  BY <1>2, QueueFacts, FS_Subset
<1>4. HasFree(box) <=> FreeBlocks(box) # {}
  <2>1. HasFree(box) <=> Len(box.free) # 0
    BY <1>1 DEF HasFree
  <2>2. Len(box.free) \in Nat /\ (Len(box.free) # 0 <=> 1 \in 1 .. Len(box.free))
    BY <1>1
  <2>3. Len(box.free) # 0 => box.free[1] \in FreeBlocks(box)
    BY <1>1, <2>2
  <2>4. Len(box.free) = 0 => FreeBlocks(box) = {}
    BY <1>1, <2>2
  <2> QED BY <2>1, <2>3, <2>4
<1> QED BY <1>2, <1>3, <1>4, FS_CardinalityType

\* LOS_MemboxAlloc gives out the first free block.
LEMMA TakeBlock ==
  ASSUME NEW box \in Pools, MemboxExact(box), HasFree(box), NEW new, new = LOS_MemboxAlloc(box),
         NEW b, b = NextBlock(box)
  PROVE  /\ new \in Pools /\ MemboxExact(new) /\ b \in Block
         /\ b \in FreeBlocks(box) /\ FreeBlocks(new) = FreeBlocks(box) \ {b}
<1>1. PICK f : f = box.free /\ f \in Seq(Block) /\ f # <<>> /\ IsInjective(f)
  BY DEF Pools, HasFree, MemboxExact
<1>2. /\ Len(f) \in Nat \ {0} /\ f \in [1 .. Len(f) -> Block] /\ b = f[1] /\ DOMAIN f = 1 .. Len(f)
      /\ Tail(f) \in Seq(Block) /\ Len(Tail(f)) = Len(f) - 1 /\ DOMAIN Tail(f) = 1 .. Len(f) - 1
      /\ \A i \in 1 .. Len(f) - 1 : Tail(f)[i] = f[i + 1]
  BY <1>1 DEF NextBlock
<1>3. new = [free |-> Tail(f), cnt |-> box.cnt + 1, num |-> box.num] /\ new \in Pools
  <2>1. box = [free |-> f, cnt |-> box.cnt, num |-> box.num] /\ box.cnt \in Int /\ box.num \in Int
    BY <1>1 DEF Pools
  <2>2. new = [box EXCEPT !.free = Tail(box.free), !.cnt = box.cnt + 1]
    BY DEF LOS_MemboxAlloc
  <2>3. new = [free |-> Tail(f), cnt |-> box.cnt + 1, num |-> box.num]
    BY <1>1, <2>1, <2>2
  <2> QED BY <1>2, <2>1, <2>3 DEF Pools
<1>4. IsInjective(Tail(f))
  <2>1. ASSUME NEW i \in 1 .. Len(f) - 1, NEW j \in 1 .. Len(f) - 1, Tail(f)[i] = Tail(f)[j]
        PROVE  i = j
    <3>1. i + 1 \in DOMAIN f /\ j + 1 \in DOMAIN f
      BY <1>2
    <3>2. f[i + 1] = f[j + 1]
      BY <1>2, <2>1
    <3>3. i + 1 = j + 1
      BY <1>1, <3>1, <3>2 DEF IsInjective
    <3> QED BY <1>2, <3>3
  <2> QED BY <1>2, <2>1 DEF IsInjective
<1>5. b \in Block /\ b \in FreeBlocks(box)
  BY <1>1, <1>2 DEF FreeBlocks, ToSet
<1>6. FreeBlocks(new) = FreeBlocks(box) \ {b}
  <2>1. ASSUME NEW x \in FreeBlocks(new)
        PROVE  x \in FreeBlocks(box) /\ x # b
    <3>1. PICK i \in 1 .. Len(f) - 1 : x = Tail(f)[i]
      BY <1>2, <1>3 DEF FreeBlocks, ToSet
    <3>2. x = f[i + 1] /\ i + 1 \in 1 .. Len(f) /\ 1 \in 1 .. Len(f) /\ i + 1 # 1
      BY <1>2, <3>1
    <3> QED BY <1>1, <1>2, <3>2 DEF FreeBlocks, ToSet, IsInjective
  <2>2. ASSUME NEW x \in FreeBlocks(box) \ {b}
        PROVE  x \in FreeBlocks(new)
    <3>1. PICK i \in 1 .. Len(f) : x = f[i]
      BY <1>1, <1>2 DEF FreeBlocks, ToSet
    <3>2. i - 1 \in 1 .. Len(f) - 1 /\ i = (i - 1) + 1
      BY <1>2, <3>1
    <3>3. x = Tail(f)[i - 1]
      BY <1>2, <3>1, <3>2
    <3> QED BY <1>2, <1>3, <3>2, <3>3 DEF FreeBlocks, ToSet
  <2> QED BY <2>1, <2>2
<1>7. MemboxExact(new)
  <2>1. Cardinality(FreeBlocks(new)) = Cardinality(FreeBlocks(box)) - 1
    BY <1>5, <1>6, FreeType, FS_RemoveElement
  <2>2. /\ box.cnt = box.num - Cardinality(FreeBlocks(box)) /\ box.cnt \in Int /\ box.num \in Int
        /\ Cardinality(FreeBlocks(box)) \in Nat
    BY FreeType DEF MemboxExact, Pools
  <2>3. new.free = Tail(f) /\ new.cnt = box.cnt + 1 /\ new.num = box.num
    BY <1>3
  <2> QED BY <1>4, <2>1, <2>2, <2>3 DEF MemboxExact
<1> QED BY <1>3, <1>5, <1>6, <1>7

\* LOS_MemboxFree puts the block in front of the free ones.
LEMMA FreeBlock ==
  ASSUME NEW box \in Pools, MemboxExact(box), NEW b \in Block, b \notin FreeBlocks(box),
         NEW new, new = LOS_MemboxFree(box, b)
  PROVE  /\ new \in Pools /\ MemboxExact(new) /\ FreeBlocks(new) = FreeBlocks(box) \cup {b}
         /\ NextBlock(new) = b /\ LOS_MemboxAlloc(new) = box
<1>1. PICK f, g : f = box.free /\ f \in Seq(Block) /\ IsInjective(f) /\ g = <<b>> \o f
  BY DEF Pools, MemboxExact
<1>2. /\ Len(f) \in Nat /\ f \in [1 .. Len(f) -> Block] /\ DOMAIN f = 1 .. Len(f)
      /\ g \in Seq(Block) /\ Len(g) = Len(f) + 1 /\ DOMAIN g = 1 .. Len(f) + 1
      /\ g[1] = b /\ Head(g) = b
      /\ \A i \in 1 .. Len(f) : g[i + 1] = f[i]
  BY <1>1
<1>3. new = [free |-> g, cnt |-> box.cnt - 1, num |-> box.num] /\ new \in Pools
  <2>1. box = [free |-> f, cnt |-> box.cnt, num |-> box.num] /\ box.cnt \in Int /\ box.num \in Int
    BY <1>1 DEF Pools
  <2>2. new = [box EXCEPT !.free = <<b>> \o box.free, !.cnt = box.cnt - 1]
    BY DEF LOS_MemboxFree
  <2>3. new = [free |-> g, cnt |-> box.cnt - 1, num |-> box.num]
    BY <1>1, <2>1, <2>2
  <2> QED BY <1>2, <2>1, <2>3 DEF Pools
<1>4. \A i \in 1 .. Len(f) + 1 : i = 1 \/ (i - 1 \in 1 .. Len(f) /\ g[i] = f[i - 1])
  <2>1. ASSUME NEW i \in 1 .. Len(f) + 1, i # 1
        PROVE  i - 1 \in 1 .. Len(f) /\ i = (i - 1) + 1
    BY <1>2, <2>1
  <2> QED BY <1>2, <2>1
<1>5. FreeBlocks(new) = FreeBlocks(box) \cup {b}
  <2>1. FreeBlocks(box) = {f[i] : i \in 1 .. Len(f)} /\ FreeBlocks(new) = {g[i] : i \in 1 .. Len(f) + 1}
    BY <1>1, <1>2, <1>3 DEF FreeBlocks, ToSet
  <2>2. \A i \in 1 .. Len(f) : i + 1 \in 1 .. Len(f) + 1
    BY <1>2
  <2>3. 1 \in 1 .. Len(f) + 1
    BY <1>2
  <2> QED BY <1>2, <1>4, <2>1, <2>2, <2>3
<1>6. IsInjective(g)
  <2>1. \A i \in 1 .. Len(f) : f[i] # b
    BY <1>1, <1>2 DEF FreeBlocks, ToSet
  <2>2. ASSUME NEW i \in 1 .. Len(f) + 1, NEW j \in 1 .. Len(f) + 1, g[i] = g[j]
        PROVE  i = j
    <3>1. CASE i = 1 \/ j = 1
      BY <1>2, <1>4, <2>1, <2>2, <3>1
    <3>2. CASE i # 1 /\ j # 1
      <4>1. /\ i - 1 \in 1 .. Len(f) /\ j - 1 \in 1 .. Len(f) /\ f[i - 1] = f[j - 1]
        BY <1>4, <2>2, <3>2
      <4>2. i - 1 = j - 1
        BY <1>1, <1>2, <4>1 DEF IsInjective
      <4> QED BY <1>2, <4>2
    <3> QED BY <3>1, <3>2
  <2> QED BY <1>2, <2>2 DEF IsInjective
<1>7. MemboxExact(new)
  <2>1. Cardinality(FreeBlocks(new)) = Cardinality(FreeBlocks(box)) + 1
    BY <1>5, FreeType, FS_AddElement
  <2>2. /\ box.cnt = box.num - Cardinality(FreeBlocks(box)) /\ box.cnt \in Int /\ box.num \in Int
        /\ Cardinality(FreeBlocks(box)) \in Nat
    BY FreeType DEF MemboxExact, Pools
  <2>3. new.free = g /\ new.cnt = box.cnt - 1 /\ new.num = box.num
    BY <1>3
  <2> QED BY <1>6, <2>1, <2>2, <2>3 DEF MemboxExact
<1>8. NextBlock(new) = b
  BY <1>2, <1>3 DEF NextBlock
<1>9. LOS_MemboxAlloc(new) = box
  <2>1. Tail(g) = f
    BY <1>1, <1>2
  <2>2. LOS_MemboxAlloc(new) = [free |-> f, cnt |-> (box.cnt - 1) + 1, num |-> box.num]
    <3>1. LOS_MemboxAlloc(new) = [new EXCEPT !.free = Tail(new.free), !.cnt = new.cnt + 1]
      BY DEF LOS_MemboxAlloc
    <3>2. /\ new = [free |-> new.free, cnt |-> new.cnt, num |-> new.num] /\ new.cnt \in Int /\ new.num \in Int
          /\ new.free = g /\ new.cnt = box.cnt - 1 /\ new.num = box.num
      BY <1>3 DEF Pools
    <3>3. LOS_MemboxAlloc(new) = [free |-> Tail(new.free), cnt |-> new.cnt + 1, num |-> new.num]
      BY <3>1, <3>2
    <3> QED BY <2>1, <3>2, <3>3
  <2>3. (box.cnt - 1) + 1 = box.cnt /\ box = [free |-> f, cnt |-> box.cnt, num |-> box.num]
    BY <1>1 DEF Pools
  <2> QED BY <2>2, <2>3
<1> QED BY <1>3, <1>5, <1>7, <1>8, <1>9

-----------------------------------------------------------------------------
(* How a change of the lists bears on the counts and on the mail           *)

\* Nobody is woken, and nobody uses what was reserved.
LEMMA WokenSame ==
  ASSUME NEW q, NEW side, \A t \in UserTask : Woken(t, q, side)' <=> Woken(t, q, side)
  PROVE  WokenTasks(q, side)' = WokenTasks(q, side)
<1>1. WokenTasks(q, side)' = Cardinality({t \in UserTask : Woken(t, q, side)'})
  BY DEF WokenTasks
<1> QED BY <1>1 DEF WokenTasks

\* u uses, or gives up, what was reserved for it.
LEMMA WokenLess ==
  ASSUME NEW q, NEW side, NEW u \in UserTask, Woken(u, q, side), ~Woken(u, q, side)',
         \A t \in UserTask \ {u} : Woken(t, q, side)' <=> Woken(t, q, side)
  PROVE  WokenTasks(q, side)' = WokenTasks(q, side) - 1
<1>1. WokenTasks(q, side)' = Cardinality({t \in UserTask : Woken(t, q, side)'})
  BY DEF WokenTasks
<1>2. {t \in UserTask : Woken(t, q, side)'} = WokenAt(q, side) \ {u} /\ u \in WokenAt(q, side)
  BY DEF WokenAt
<1> QED BY <1>1, <1>2, WokenType, FS_RemoveElement

\* u is woken.
LEMMA WokenMore ==
  ASSUME NEW q, NEW side, NEW u \in UserTask, ~Woken(u, q, side), Woken(u, q, side)',
         \A t \in UserTask \ {u} : Woken(t, q, side)' <=> Woken(t, q, side)
  PROVE  WokenTasks(q, side)' = WokenTasks(q, side) + 1
<1>1. WokenTasks(q, side)' = Cardinality({t \in UserTask : Woken(t, q, side)'})
  BY DEF WokenTasks
<1>2. {t \in UserTask : Woken(t, q, side)'} = WokenAt(q, side) \cup {u} /\ u \notin WokenAt(q, side)
  BY DEF WokenAt
<1> QED BY <1>1, <1>2, WokenType, FS_AddElement

\* Nobody is woken.
LEMMA WokenFewer ==
  ASSUME NEW q, NEW side, \A t \in UserTask : Woken(t, q, side)' => Woken(t, q, side)
  PROVE  WokenTasks(q, side)' <= WokenTasks(q, side) /\ WokenTasks(q, side)' \in Nat
<1>1. WokenTasks(q, side)' = Cardinality({t \in UserTask : Woken(t, q, side)'})
  BY DEF WokenTasks
<1>2. {t \in UserTask : Woken(t, q, side)'} \in SUBSET WokenAt(q, side)
  BY DEF WokenAt
<1> QED BY <1>1, <1>2, WokenType, FS_Subset, FS_CardinalityType

\* A task keeps what is reserved for it as long as nothing about its call changes.
LEMMA UntouchedWoken ==
  ASSUME NEW t \in TaskID, Untouched(t), arg'[t] = arg[t], NEW q \in Queue, NEW list \in Lists
  PROVE  Woken(t, q, list)' <=> Woken(t, q, list)
<1>1. PendObj = Queue \X Lists
  BY QueueFacts
<1>2. <<q, list>> \in PendObj
  BY <1>1
<1>3. IsOn(k'.pend[<<q, list>>], t) <=> IsOn(k.pend[<<q, list>>], t)
  BY <1>2 DEF Untouched
<1>4. "TIMEOUT" \in k'.status[t] <=> "TIMEOUT" \in k.status[t]
  BY DEF Untouched, WaitFlag
<1> QED BY <1>3, <1>4 DEF Woken

\* A queue that the step leaves alone.
LEMMA CountKept ==
  ASSUME NEW q \in Queue, NEW side \in Side, CountOK(q, side), que'[q] = que[q], lost'[q] = lost[q],
         WokenTasks(q, side)' = WokenTasks(q, side)
  PROVE  CountOK(q, side)'
<1>1. Stored(q)' = Stored(q)
  BY DEF Stored
<1>2. Claims(q, side)' = Claims(q, side) /\ Room(q, side)' = Room(q, side)
  BY <1>1 DEF Claims, Room
<1> QED BY <1>2 DEF CountOK

\* Both sides of a count change alike.
LEMMA CountMoves ==
  ASSUME NEW q \in Queue, NEW side \in Side, CountOK(q, side), lost'[q] = lost[q], NEW j \in Int,
         Claims(q, side) \in Int, Room(q, side) \in Int,
         Claims(q, side)' = Claims(q, side) + j, Room(q, side)' = Room(q, side) + j
  PROVE  CountOK(q, side)'
BY DEF CountOK

\* A list that nobody joins stays empty.
LEMMA ListsShrink ==
  ASSUME NEW e \in BOOLEAN, IInv(e)', NEW o \in PendObj, k'.pend[o] # <<>>,
         \A t \in TaskID : IsOn(k'.pend[o], t) => IsOn(k.pend[o], t)
  PROVE  k.pend[o] # <<>>
<1>1. k'.pend[o] \in Seq(TaskID)
  BY DEF IInv, TypeOK, KernelType
<1>2. Head(k'.pend[o]) \in TaskID /\ IsOn(k'.pend[o], Head(k'.pend[o]))
  BY <1>1, HeadIsOn
<1>3. IsOn(k.pend[o], Head(k'.pend[o]))
  BY <1>2
<1> QED BY <1>3, EmptyList

\* The calls for mail blocks go on as they were.
MailCallsKept ==
  /\ \A q \in Queue : k'.pend[<<q, "mem">>] # <<>> => k.pend[<<q, "mem">>] # <<>>
  /\ \A t \in TaskID : arg[t].op = "alloc" \/ arg'[t].op = "alloc" =>
       /\ arg'[t] = arg[t]
       /\ IsOn(k'.pend[<<arg[t].q, "mem">>], t) <=> IsOn(k.pend[<<arg[t].q, "mem">>], t)
       /\ "TIMEOUT" \in k'.status[t] <=> "TIMEOUT" \in k.status[t]

\* The blocks outside the pools stay with whom they are.
LEMMA MailKept ==
  ASSUME MailInv, UNCHANGED mailVars, taskLock' = taskLock, MailCallsKept
  PROVE  MailInv'
<1>1. pool' = pool /\ given' = given /\ mail' = mail
  BY DEF mailVars
<1>2. /\ \A q \in Queue : k'.pend[<<q, "mem">>] # <<>> => k.pend[<<q, "mem">>] # <<>>
      /\ \A t \in TaskID : arg[t].op = "alloc" \/ arg'[t].op = "alloc" =>
           /\ arg'[t] = arg[t]
           /\ IsOn(k'.pend[<<arg[t].q, "mem">>], t) <=> IsOn(k.pend[<<arg[t].q, "mem">>], t)
           /\ "TIMEOUT" \in k'.status[t] <=> "TIMEOUT" \in k.status[t]
  BY DEF MailCallsKept
<1>3. MailTypeOK' /\ Unlocked'
  BY <1>1 DEF MailInv, MailTypeOK, Unlocked
<1>4. Granted'
  BY <1>1, <1>2 DEF MailInv, Granted
<1>5. OneOwner'
  <2>1. ASSUME NEW q \in Queue
        PROVE  /\ MemboxExact(pool[q]) /\ FreeBlocks(pool[q]) \cap mail[q] = {}
               /\ k'.pend[<<q, "mem">>] # <<>> => ~HasFree(pool[q])
    BY <1>2 DEF MailInv, OneOwner
  <2>2. ASSUME NEW t \in TaskID, given[t] # NoMsg
        PROVE  /\ arg'[t].op = "alloc" /\ arg'[t] = arg[t]
               /\ given[t] \notin FreeBlocks(pool[arg'[t].q]) \cup mail[arg'[t].q]
    BY <1>2, <2>2 DEF MailInv, OneOwner
  <2>3. ASSUME NEW t \in TaskID, given[t] # NoMsg, NEW u \in TaskID \ {t}, arg'[u].q = arg'[t].q
        PROVE  given[u] # given[t]
    <3>1. CASE given[u] = NoMsg
      BY <2>3, <3>1
    <3>2. CASE given[u] # NoMsg
      <4>1. arg[u].q = arg[t].q
        BY <2>2, <2>3, <3>2
      <4> QED BY <2>3, <4>1 DEF MailInv, OneOwner
    <3> QED BY <3>1, <3>2
  <2> QED BY <1>1, <2>1, <2>2, <2>3 DEF OneOwner
<1> QED BY <1>3, <1>4, <1>5 DEF MailInv

-----------------------------------------------------------------------------
(* The steps                                                               *)

\* Before LOS_Start there is no queue.
LEMMA QueueInitInv ==
  ASSUME QueueInit
  PROVE  QueueInv
<1>1. IInv(TRUE)
  BY InitInv DEF QueueInit, IInv, ListNodes
<1>2. /\ que = [q \in Queue |-> Unused] /\ arg = [t \in TaskID |-> NoArg]
      /\ pool = [q \in Queue |-> LOS_MemboxInit(Block)] /\ mail = [q \in Queue |-> {}]
      /\ given = [t \in TaskID |-> NoMsg] /\ lost = [q \in Queue |-> FALSE] /\ taskLock = 0
      /\ \A t \in TaskID : pc[t] = "app" /\ k.status[t] \subseteq {"READY", "UNUSED"}
      /\ \A o \in PendObj : k.pend[o] = <<>>
  BY DEF QueueInit, Init, KernelInit
<1>3. NoArg \in CallRecord /\ NoArg.q = NoTask /\ NoArg.op = "read" /\ NoTask \notin Queue
  BY QueueFacts DEF NoArg, CallRecord, Op, Slot
<1>4. RingOK(Unused, 0) /\ Unused \in Rings /\ Unused.len = 0 /\ Filled(Unused) = {}
  BY UnusedOK DEF RingOK
<1>5. QueueTypeOK
  BY <1>2, <1>3, <1>4 DEF QueueTypeOK, ArgOK
<1>6. PendCalls
  <2>1. \A t \in TaskID : Wanted[t] = NoTask
    BY <1>2, <1>3 DEF Wanted
  <2>2. \A t \in TaskID, o \in PendObj : ~IsOn(k.pend[o], t)
    BY <1>2, EmptyList
  <2> QED BY <1>2, <2>1, <2>2 DEF PendCalls, WaitsFor, Waiting
<1>7. \A q \in Queue : Stored(q) = 0
  BY <1>2, <1>4, FS_EmptySet DEF Stored, Filled
<1>8. RingsOK
  BY <1>2, <1>4, <1>7 DEF RingsOK
<1>9. CountsOK
  <2>1. ASSUME NEW q \in Queue, NEW side \in Side
        PROVE  CountOK(q, side)
    <3>1. WokenAt(q, side) = {}
      BY <1>2, <1>3, QueueFacts DEF WokenAt, Woken
    <3>2. WokenTasks(q, side) = 0
      BY <3>1, WokenType, FS_EmptySet
    <3>3. que[q].count[side] = 0 /\ que[q].len = 0
      BY <1>2 DEF Unused
    <3> QED BY <1>7, <3>2, <3>3 DEF CountOK, Claims, Room
  <2> QED BY <2>1 DEF CountsOK
<1>10. \A q \in Queue, list \in Lists : k.pend[<<q, list>>] = <<>>
  <2>1. PendObj = Queue \X Lists
    BY QueueFacts
  <2> QED BY <1>2, <2>1
<1>11. WaitersOK
  <2>1. Side \subseteq Lists
    BY DEF Lists
  <2> QED BY <1>10, <2>1 DEF WaitersOK
<1>12. MailInv
  <2>1. LOS_MemboxInit(Block) \in Pools /\ MemboxExact(LOS_MemboxInit(Block))
    BY NewPool
  <2>2. MailTypeOK
    BY <1>2, <2>1 DEF MailTypeOK
  <2>3. OneOwner
    <3>1. \A q \in Queue : k.pend[<<q, "mem">>] = <<>>
      BY <1>10 DEF Lists
    <3> QED BY <1>2, <2>1, <3>1 DEF OneOwner
  <2>4. Granted /\ Unlocked
    BY <1>2, <1>3 DEF Granted, Unlocked
  <2> QED BY <2>2, <2>3, <2>4 DEF MailInv
<1> QED BY <1>1, <1>5, <1>6, <1>8, <1>9, <1>11, <1>12 DEF QueueInv

\* Calls that change no task and no wait list.
LEMMA BlockInv ==
  ASSUME QueueInv, UNCHANGED <<vars, arg>>, QueueTypeOK', RingsOK', CountsOK', MailInv',
         \A q \in Queue, list \in Lists : k.pend[<<q, list>>] # <<>> => que'[q] = que[q]
  PROVE  QueueInv'
<1>1. IInv(TRUE)' /\ k' = k /\ pc' = pc /\ arg' = arg
  BY StutterOK DEF QueueInv, vars
<1>2. PendCalls'
  BY <1>1 DEF QueueInv, PendCalls, Wanted
<1>3. WaitersOK'
  <2>1. \A q \in Queue, list \in Lists : k.pend[<<q, list>>] # <<>> => InUse(q)'
    BY <1>1 DEF QueueInv, WaitersOK, InUse
  <2>2. \A q \in Queue, side \in Side : k.pend[<<q, side>>] # <<>> => que'[q].count[side] = 0
    BY DEF QueueInv, WaitersOK, Lists
  <2> QED BY <1>1, <2>1, <2>2 DEF WaitersOK
<1> QED BY <1>1, <1>2, <1>3 DEF QueueInv

\* No mail block moves.
LEMMA MailStays ==
  ASSUME MailInv, UNCHANGED <<vars, arg, mailVars>>
  PROVE  MailInv'
BY DEF vars, sched, mailVars, MailInv, MailTypeOK, OneOwner, Granted, Unlocked

\* A queue whose control block is new has no claims and no messages.
LEMMA ControlBlockInv ==
  ASSUME QueueInv, NEW q \in Queue, NEW r, RingOK(r, 0), UNCHANGED <<vars, arg, mailVars>>,
         que' = [que EXCEPT ![q] = r],
         r.count["reader"] = 0, r.count["writer"] = r.len,
         lost' \in [Queue -> BOOLEAN], \A p \in Queue \ {q} : lost'[p] = lost[p],
         \A list \in Lists : k.pend[<<q, list>>] = <<>>,
         \A side \in Side : WokenTasks(q, side) = 0
  PROVE  QueueInv'
<1>1. QueueTypeOK /\ RingsOK /\ CountsOK /\ MailInv /\ k' = k /\ arg' = arg /\ r \in Rings
  BY DEF QueueInv, vars, RingOK
<1>2. que'[q] = r /\ \A p \in Queue \ {q} : que'[p] = que[p]
  BY <1>1 DEF QueueTypeOK
<1>3. QueueTypeOK'
  BY <1>1 DEF QueueTypeOK
<1>4. Stored(q)' = 0 /\ \A p \in Queue \ {q} : Stored(p)' = Stored(p)
  <2>1. Stored(q)' = Cardinality(Filled(r))
    BY <1>2 DEF Stored, Filled
  <2> QED BY <1>2, <2>1, FilledCard DEF Stored
<1>5. RingsOK'
  BY <1>1, <1>2, <1>4 DEF RingsOK
<1>6. CountsOK'
  <2>1. \A p, side : WokenTasks(p, side)' = WokenTasks(p, side)
    BY <1>1 DEF WokenTasks, Woken
  <2>2. ASSUME NEW p \in Queue \ {q}, NEW side \in Side
        PROVE  CountOK(p, side)'
    BY <1>1, <1>2, <2>1, CountKept DEF CountsOK
  <2>3. ASSUME NEW side \in Side
        PROVE  CountOK(q, side)'
    <3>1. WokenTasks(q, side)' = 0 /\ r.len \in Nat
      BY <1>1, <2>1 DEF Rings
    <3>2. side = "reader" \/ side = "writer"
      BY DEF Side
    <3> QED BY <1>2, <1>4, <3>1, <3>2 DEF CountOK, Claims, Room
  <2> QED BY <2>2, <2>3 DEF CountsOK
<1>7. MailInv'
  BY <1>1, MailStays
<1>8. \A p \in Queue, list \in Lists : k.pend[<<p, list>>] # <<>> => que'[p] = que[p]
  BY <1>2
<1> QED BY <1>3, <1>5, <1>6, <1>7, <1>8, BlockInv

\* Nobody has claims on a queue that does not exist.
LEMMA CountFacts ==
  ASSUME QueueInv, NEW q \in Queue
  PROVE  /\ RingOK(que[q], Stored(q)) /\ Stored(q) \in Nat /\ que[q].len \in Nat /\ Stored(q) <= que[q].len
         /\ \A side \in Side :
              /\ que[q].count[side] \in Nat /\ WokenTasks(q, side) \in Nat /\ CountOK(q, side)
              /\ que[q].count[side] + WokenTasks(q, side) <= Room(q, side)
              /\ Claims(q, side) \in Int /\ Room(q, side) \in Int
<1>1. RingOK(que[q], Stored(q)) /\ CountsOK
  BY DEF QueueInv, RingsOK
<1>2. /\ que[q] \in Rings /\ Stored(q) \in 0 .. que[q].len /\ que[q].len \in Nat
      /\ que[q].count \in [Side -> Nat]
  BY <1>1 DEF RingOK, Rings
<1>3. ASSUME NEW side \in Side
      PROVE  /\ que[q].count[side] \in Nat /\ WokenTasks(q, side) \in Nat /\ CountOK(q, side)
             /\ que[q].count[side] + WokenTasks(q, side) <= Room(q, side)
             /\ Claims(q, side) \in Int /\ Room(q, side) \in Int
  <2>1. que[q].count[side] \in Nat /\ WokenTasks(q, side) \in Nat /\ CountOK(q, side)
    BY <1>1, <1>2, WokenType DEF CountsOK
  <2>2. Claims(q, side) \in Int /\ Room(q, side) \in Int
    BY <1>2, <2>1 DEF Claims, Room
  <2> QED BY <2>1, <2>2 DEF CountOK, Claims
<1> QED BY <1>1, <1>2, <1>3

\* LOS_QueueCreate makes an empty queue.
LEMMA CreateInv ==
  ASSUME QueueInv, NEW c, NEW q \in Queue, NEW n \in QueueLens, LOS_QueueCreate(c, q, n)
  PROVE  QueueInv' /\ RingOK(que'[q], 0) /\ que'[q].len = n
<1>1. PICK r : /\ r = [len |-> n, buf |-> [i \in 0 .. n - 1 |-> NoMsg], head |-> 0, tail |-> 0,
                       count |-> [side \in Side |-> IF side = "reader" THEN 0 ELSE n]]
               /\ que' = [que EXCEPT ![q] = r] /\ que[q].len = 0
               /\ lost' = [lost EXCEPT ![q] = FALSE] /\ UNCHANGED <<vars, arg, mailVars>>
  BY DEF LOS_QueueCreate, InUse
<1>2. RingOK(r, 0) /\ r.len = n /\ r.count["reader"] = 0 /\ r.count["writer"] = r.len /\ n \in Nat \ {0}
  BY <1>1, NewRing, QueueFacts
<1>3. \A side \in Side : WokenTasks(q, side) = 0
  <2>1. ASSUME NEW side \in Side
        PROVE  WokenTasks(q, side) = 0
    <3>1. /\ Stored(q) \in Nat /\ Stored(q) <= que[q].len /\ que[q].count[side] \in Nat
          /\ WokenTasks(q, side) \in Nat /\ que[q].count[side] + WokenTasks(q, side) <= Room(q, side)
      BY CountFacts
    <3> QED BY <1>1, <3>1 DEF Room
  <2> QED BY <2>1
<1>4. \A list \in Lists : k.pend[<<q, list>>] = <<>>
  BY <1>1 DEF QueueInv, WaitersOK, InUse
<1>5. lost' \in [Queue -> BOOLEAN] /\ (\A p \in Queue \ {q} : lost'[p] = lost[p]) /\ que'[q] = r
  BY <1>1 DEF QueueInv, QueueTypeOK
<1> QED BY <1>1, <1>2, <1>3, <1>4, <1>5, ControlBlockInv

\* LOS_QueueDelete finds nobody who waits, and no reservation.
LEMMA DeleteInv ==
  ASSUME QueueInv, NEW c, NEW q \in Queue, LOS_QueueDelete(c, q)
  PROVE  QueueInv'
<1>1. /\ que' = [que EXCEPT ![q] = Unused] /\ lost' = lost /\ UNCHANGED <<vars, arg, mailVars>>
      /\ \A list \in Lists : k.pend[<<q, list>>] = <<>>
      /\ que[q].count["reader"] + que[q].count["writer"] = que[q].len
  BY DEF LOS_QueueDelete, Lists
<1>2. RingOK(Unused, 0) /\ Unused.count["reader"] = 0 /\ Unused.count["writer"] = Unused.len
  BY UnusedOK DEF Unused, Side
<1>3. \A side \in Side : WokenTasks(q, side) = 0
  <2>1. /\ Stored(q) \in Nat /\ que[q].len \in Nat
        /\ \A side \in Side :
             /\ que[q].count[side] \in Nat /\ WokenTasks(q, side) \in Nat
             /\ que[q].count[side] + WokenTasks(q, side) <= Room(q, side)
    BY CountFacts
  <2>2. "reader" \in Side /\ "writer" \in Side
    BY DEF Side
  <2>3. /\ que[q].count["reader"] + WokenTasks(q, "reader") <= Stored(q)
        /\ que[q].count["writer"] + WokenTasks(q, "writer") <= que[q].len - Stored(q)
    BY <2>1, <2>2 DEF Room
  <2>4. /\ que[q].count["reader"] \in Nat /\ que[q].count["writer"] \in Nat
        /\ WokenTasks(q, "reader") \in Nat /\ WokenTasks(q, "writer") \in Nat
    BY <2>1, <2>2
  <2>5. WokenTasks(q, "reader") = 0 /\ WokenTasks(q, "writer") = 0
    <3>1. PICK x \in Nat, y \in Nat, v \in Nat, w \in Nat, n \in Nat, l \in Nat :
            /\ x = que[q].count["reader"] /\ y = que[q].count["writer"] /\ v = WokenTasks(q, "reader")
            /\ w = WokenTasks(q, "writer") /\ n = Stored(q) /\ l = que[q].len
      BY <2>1, <2>4
    <3>2. x + y = l /\ x + v <= n /\ y + w <= l - n
      BY <1>1, <2>3, <3>1
    <3> QED BY <3>1, <3>2
  <2> QED BY <2>5 DEF Side
<1>4. lost' \in [Queue -> BOOLEAN] /\ \A p \in Queue \ {q} : lost'[p] = lost[p]
  BY <1>1 DEF QueueInv, QueueTypeOK
<1> QED BY <1>1, <1>2, <1>3, <1>4, ControlBlockInv

\* Who may not lock the scheduler does not.
LEMMA NextUnlocked ==
  ASSUME Next, "lock" \notin Calls, Isr \notin UserTask, taskLock = 0
  PROVE  taskLock' = 0
<1>1. CASE TaskCall
  <2>1. \A c \in UserTask : ~LOS_TaskLock(c) /\ ~LOS_TaskUnlock(c)
    BY DEF LOS_TaskLock, LOS_TaskUnlock, MayCall
  <2>2. ASSUME NEW c, NEW name, NEW p,
               LOS_TaskCreate(c) \/ LOS_TaskCreateOnly(c, name, p) \/ TaskCreateFails(c)
        PROVE  taskLock' = taskLock
    BY <2>2 DEF LOS_TaskCreate, LOS_TaskCreateOnly, TaskCreateFails, sched
  <2>3. ASSUME NEW c, NEW u, LOS_TaskResume(c, u) \/ LOS_TaskSuspend(c, u)
        PROVE  taskLock' = taskLock
    BY <2>3 DEF LOS_TaskResume, LOS_TaskSuspend
  <2>4. ASSUME NEW c, NEW u, LOS_TaskDelete(c, u)
        PROVE  taskLock' = 0 \/ taskLock' = taskLock
    BY <2>4 DEF LOS_TaskDelete
  <2>5. ASSUME NEW c, NEW u, NEW p, LOS_TaskPriSet(c, u, p)
        PROVE  taskLock' = taskLock
    BY <2>5 DEF LOS_TaskPriSet
  <2>6. ASSUME NEW c, NEW n, LOS_TaskDelay(c, n) \/ LOS_TaskYield(c)
        PROVE  taskLock' = taskLock
    BY <2>6 DEF LOS_TaskDelay, LOS_TaskYield, sched
  <2> QED BY <1>1, <2>1, <2>2, <2>3, <2>4, <2>5, <2>6 DEF TaskCall
<1>2. CASE System
  BY <1>2 DEF System, LOS_StartToRun, PendSV_Handler, Schedule, Tick, osTickHandler, ScanUnlink,
     ScanWake, ScanEnd, sched
<1> QED BY <1>1, <1>2 DEF Next

\* A step of the task manager ends waits, and begins none.
LEMMA TaskStepWaits ==
  ASSUME QueueInv, Unnested, NoIsrSuspend, TaskStep
  PROVE  /\ IInv(TRUE)' /\ QueueTypeOK' /\ PendCalls' /\ WaitersOK'
         /\ \E u \in TaskID :
              /\ \A t \in TaskID \ {u} : Untouched(t)
              /\ \/ Untouched(u)
                 \/ /\ Created(u) \/ Deleted(u) \/ TimedOut(u)
                    /\ \A o \in PendObj : ~IsOn(k'.pend[o], u)
         /\ \A t \in TaskID : Untouched(t) \/ Created(t) => arg'[t] = arg[t] /\ given'[t] = given[t]
         /\ \A t \in TaskID : "UNUSED" \in k.status[t] => arg[t] = NoArg
         /\ \A o \in PendObj : k'.pend[o] # <<>> => k.pend[o] # <<>>
<1>1. IInv(TRUE)' /\ WaitersKept /\ IInv(TRUE) /\ LiveOK
  BY NextInv DEF QueueInv, TaskStep, IInv
<1>2. /\ arg' = [t \in TaskID |-> IF "UNUSED" \in k'.status[t] THEN NoArg ELSE arg[t]]
      /\ given' = [t \in TaskID |-> IF "UNUSED" \in k'.status[t] THEN NoMsg ELSE given[t]]
      /\ que' = que /\ QueueTypeOK /\ PendCalls /\ WaitersOK /\ MailInv
      /\ lost' \in [Queue -> BOOLEAN]
  BY DEF TaskStep, QueueInv
<1>3. \A o \in PendObj : k'.pend[o] # <<>> => k.pend[o] # <<>>
  BY <1>1, TaskStepOK
<1>4. NoArg \in CallRecord /\ ArgOK(NoArg) /\ NoArg.q = NoTask /\ NoArg.op = "read"
  BY DEF NoArg, CallRecord, ArgOK, Op, Slot
<1>5. QueueTypeOK'
  BY <1>2, <1>4 DEF QueueTypeOK
<1>6. WaitersOK'
  <2>1. \A q \in Queue, list \in Lists : k'.pend[<<q, list>>] # <<>> => k.pend[<<q, list>>] # <<>>
    <3>1. PendObj = Queue \X Lists
      BY QueueFacts
    <3> QED BY <1>3, <3>1
  <2>2. Side \subseteq Lists
    BY DEF Lists
  <2> QED BY <1>2, <2>1, <2>2 DEF WaitersOK, InUse
<1>7. \A t \in TaskID : "UNUSED" \in k.status[t] => arg[t] = NoArg
  <2>1. \A t \in TaskID : "UNUSED" \in k.status[t] => Wanted[t] = NoTask
    BY <1>1, <1>2, UnusedIdle DEF PendCalls
  <2> QED BY <1>2, <2>1, WantedIs
<1>8. \A t \in TaskID : Untouched(t) \/ Created(t) => arg'[t] = arg[t] /\ given'[t] = given[t]
  <2>1. ASSUME NEW t \in TaskID, Untouched(t) \/ Created(t)
        PROVE  "UNUSED" \in k'.status[t] => "UNUSED" \in k.status[t]
    BY <2>1 DEF Untouched, Created, WaitFlag
  <2>2. \A t \in TaskID : arg[t] = NoArg => given[t] = NoMsg
    BY <1>2, <1>4 DEF MailInv, OneOwner
  <2> QED BY <1>2, <1>7, <2>1, <2>2
<1>9. PendCalls'
  <2>1. PICK b : b = Wanted'
    OBVIOUS
  <2>2. CallsLeft(Wanted, b)
    <3>1. b = [t \in TaskID |-> IF arg'[t].q = NoTask THEN NoTask ELSE <<arg'[t].q, ListOf(arg'[t].op)>>]
      BY <2>1 DEF Wanted
    <3>2. ASSUME NEW t \in TaskID
          PROVE  (IF arg'[t].q = NoTask THEN NoTask ELSE <<arg'[t].q, ListOf(arg'[t].op)>>) =
                 (IF "UNUSED" \in k'.status[t] THEN NoTask ELSE Wanted[t])
      <4>1. arg'[t] = IF "UNUSED" \in k'.status[t] THEN NoArg ELSE arg[t]
        BY <1>2
      <4> QED BY <1>4, <4>1 DEF Wanted
    <3> QED BY <3>1, <3>2 DEF CallsLeft
  <2>3. WaitsFor("PEND_QUEUE", k, pc, Wanted) /\ "PEND_QUEUE" \in Waiting
    BY <1>2, QueueFacts DEF PendCalls
  <2>4. WaitsFor("PEND_QUEUE", k', pc', b)
    BY <1>1, <2>2, <2>3, TaskStepCalls
  <2> QED BY <2>1, <2>4 DEF PendCalls
<1>10. \E u \in TaskID :
         /\ \A t \in TaskID \ {u} : Untouched(t)
         /\ \/ Untouched(u)
            \/ /\ Created(u) \/ Deleted(u) \/ TimedOut(u)
               /\ \A o \in PendObj : ~IsOn(k'.pend[o], u)
  BY <1>1, TaskStepOK
<1> QED BY <1>1, <1>3, <1>5, <1>6, <1>7, <1>8, <1>9, <1>10

\* A deletion gives up what is reserved for the task, and marks the queue; the
\* other steps of the task manager leave every reservation alone.
LEMMA TaskStepCounts ==
  ASSUME QueueInv, Unnested, NoIsrSuspend, TaskStep
  PROVE  RingsOK' /\ CountsOK'
<1>1. PICK u \in TaskID : /\ \A t \in TaskID \ {u} : Untouched(t)
                          /\ Untouched(u) \/ Created(u) \/ Deleted(u) \/ TimedOut(u)
  BY TaskStepWaits
<1>2. /\ arg' = [t \in TaskID |-> IF "UNUSED" \in k'.status[t] THEN NoArg ELSE arg[t]]
      /\ lost' = [q \in Queue |-> lost[q] \/ \E t \in UserTask, side \in Side :
                                     "UNUSED" \in k'.status[t] /\ Woken(t, q, side)]
      /\ que' = que /\ RingsOK /\ CountsOK
  BY DEF TaskStep, QueueInv
<1>3. \A t \in TaskID : Untouched(t) \/ Created(t) => arg'[t] = arg[t]
  BY TaskStepWaits
<1>4. \A t \in TaskID : "UNUSED" \in k.status[t] => arg[t] = NoArg
  BY TaskStepWaits
<1>5. ASSUME NEW q \in Queue, NEW side \in Side, NEW t \in UserTask
      PROVE  /\ Woken(t, q, side)' => Woken(t, q, side)
             /\ Woken(t, q, side) => Woken(t, q, side)' \/ lost'[q]
  <2>1. t \in TaskID /\ side \in Lists /\ NoArg.q = NoTask /\ NoTask \notin Queue
    BY QueueFacts DEF Lists, NoArg
  <2>2. CASE Untouched(t)
    BY <1>3, <2>1, <2>2, UntouchedWoken
  <2>3. CASE Created(t)
    <3>1. arg[t] = NoArg /\ arg'[t] = NoArg
      BY <1>3, <1>4, <2>1, <2>3 DEF Created
    <3> QED BY <2>1, <3>1 DEF Woken
  <2>4. CASE Deleted(t)
    <3>1. "UNUSED" \in k'.status[t] /\ arg'[t] = NoArg
      BY <1>2, <2>1, <2>4 DEF Deleted
    <3> QED BY <1>2, <2>1, <3>1 DEF Woken
  <2>5. CASE TimedOut(t)
    BY <2>5 DEF Woken, TimedOut, WaitFlag
  <2> QED BY <1>1, <2>1, <2>2, <2>3, <2>4, <2>5
<1>6. RingsOK'
  BY <1>2 DEF RingsOK, Stored
<1>7. CountsOK'
  <2>1. ASSUME NEW q \in Queue, NEW side \in Side
        PROVE  CountOK(q, side)'
    <3>1. WokenTasks(q, side)' <= WokenTasks(q, side) /\ WokenTasks(q, side)' \in Nat
      BY <1>5, WokenFewer
    <3>2. ~lost'[q] => WokenTasks(q, side)' = WokenTasks(q, side)
      BY <1>5, WokenSame
    <3>3. ~lost'[q] => ~lost[q]
      BY <1>2
    <3>4. Room(q, side)' = Room(q, side) /\ Claims(q, side)' = que[q].count[side] + WokenTasks(q, side)'
      BY <1>2 DEF Room, Stored, Claims
    <3>5. /\ que[q].count[side] \in Nat /\ WokenTasks(q, side) \in Nat /\ Room(q, side) \in Int
          /\ CountOK(q, side)
      BY CountFacts
    <3>6. Claims(q, side) = que[q].count[side] + WokenTasks(q, side)
      BY DEF Claims
    <3>7. Claims(q, side)' <= Room(q, side)'
      BY <3>1, <3>4, <3>5, <3>6 DEF CountOK
    <3>8. ~lost'[q] => Claims(q, side)' = Room(q, side)'
      BY <3>2, <3>3, <3>4, <3>5, <3>6 DEF CountOK
    <3> QED BY <3>7, <3>8 DEF CountOK
  <2> QED BY <2>1 DEF CountsOK
<1> QED BY <1>6, <1>7

\* A deletion takes the block that was left for the task with it; nobody else's
\* moves.
LEMMA TaskStepMail ==
  ASSUME QueueInv, Unnested, NoIsrSuspend, AllocUnlocked, TaskStep
  PROVE  MailInv'
<1>1. PICK u \in TaskID : /\ \A t \in TaskID \ {u} : Untouched(t)
                          /\ Untouched(u) \/ Created(u) \/ Deleted(u) \/ TimedOut(u)
  BY TaskStepWaits
<1>2. /\ arg' = [t \in TaskID |-> IF "UNUSED" \in k'.status[t] THEN NoArg ELSE arg[t]]
      /\ given' = [t \in TaskID |-> IF "UNUSED" \in k'.status[t] THEN NoMsg ELSE given[t]]
      /\ pool' = pool /\ mail' = mail /\ Next
      /\ MailTypeOK /\ OneOwner /\ Granted /\ Unlocked /\ QueueTypeOK
  BY DEF TaskStep, QueueInv, MailInv
<1>3. /\ \A t \in TaskID : Untouched(t) \/ Created(t) => arg'[t] = arg[t] /\ given'[t] = given[t]
      /\ \A t \in TaskID : "UNUSED" \in k.status[t] => arg[t] = NoArg
      /\ \A o \in PendObj : k'.pend[o] # <<>> => k.pend[o] # <<>>
  BY TaskStepWaits
<1>4. PendObj = Queue \X Lists /\ NoArg.op = "read" /\ "mem" \in Lists /\ NoMsg \notin Block
  BY QueueFacts DEF Lists, NoArg
<1>5. MailTypeOK'
  BY <1>2 DEF MailTypeOK
<1>6. Unlocked'
  <2>1. "alloc" \in QueueCalls => "lock" \notin Calls /\ taskLock = 0
    BY <1>2 DEF AllocUnlocked, Unlocked
  <2>2. Isr \notin UserTask
    BY ContextFacts
  <2> QED BY <1>2, <2>1, <2>2, NextUnlocked DEF Unlocked
<1>7. OneOwner'
  <2>1. ASSUME NEW q \in Queue
        PROVE  /\ MemboxExact(pool[q]) /\ FreeBlocks(pool[q]) \cap mail[q] = {}
               /\ k'.pend[<<q, "mem">>] # <<>> => ~HasFree(pool[q])
    <3>1. <<q, "mem">> \in PendObj
      BY <1>4
    <3> QED BY <1>2, <1>3, <3>1 DEF OneOwner
  <2>2. ASSUME NEW t \in TaskID, given'[t] # NoMsg
        PROVE  /\ arg'[t] = arg[t] /\ given'[t] = given[t] /\ arg'[t].op = "alloc"
               /\ given'[t] \notin FreeBlocks(pool[arg'[t].q]) \cup mail[arg'[t].q]
    <3>1. arg'[t] = arg[t] /\ given'[t] = given[t]
      BY <1>2, <2>2
    <3> QED BY <1>2, <2>2, <3>1 DEF OneOwner
  <2>3. ASSUME NEW t \in TaskID, given'[t] # NoMsg, NEW u2 \in TaskID \ {t}, arg'[u2].q = arg'[t].q
        PROVE  given'[u2] # given'[t]
    <3>1. CASE given'[u2] = NoMsg
      BY <2>3, <3>1
    <3>2. CASE given'[u2] # NoMsg
      <4>1. /\ arg'[u2] = arg[u2] /\ given'[u2] = given[u2]
            /\ arg'[t] = arg[t] /\ given'[t] = given[t]
        BY <2>2, <2>3, <3>2
      <4> QED BY <1>2, <2>3, <4>1 DEF OneOwner
    <3> QED BY <3>1, <3>2
  <2> QED BY <1>2, <2>1, <2>2, <2>3 DEF OneOwner
<1>8. Granted'
  <2>1. ASSUME NEW t \in TaskID, arg'[t].op = "alloc"
        PROVE  IF IsOn(k'.pend[<<arg'[t].q, "mem">>], t) THEN given'[t] = NoMsg
               ELSE "TIMEOUT" \in k'.status[t] <=> given'[t] = NoMsg
    <3>1. "UNUSED" \notin k'.status[t] /\ arg'[t] = arg[t] /\ given'[t] = given[t]
      BY <1>2, <1>4, <2>1
    <3>2. arg[t].q \in Queue
      BY <1>2, <2>1, <3>1, WantedIs
    <3>3. <<arg[t].q, "mem">> \in PendObj
      BY <1>4, <3>2
    <3>4. CASE Untouched(t)
      <4>1. /\ IsOn(k'.pend[<<arg[t].q, "mem">>], t) <=> IsOn(k.pend[<<arg[t].q, "mem">>], t)
            /\ "TIMEOUT" \in k'.status[t] <=> "TIMEOUT" \in k.status[t]
        BY <3>3, <3>4 DEF Untouched, WaitFlag
      <4> QED BY <1>2, <2>1, <3>1, <4>1 DEF Granted
    <3>5. CASE Created(t)
      BY <1>3, <1>4, <2>1, <3>1, <3>5 DEF Created
    <3>6. CASE Deleted(t)
      BY <3>1, <3>6 DEF Deleted
    <3>7. CASE TimedOut(t)
      <4>1. "TIMEOUT" \in k.status[t] /\ "TIMEOUT" \in k'.status[t]
        BY <3>7 DEF TimedOut, WaitFlag
      <4> QED BY <1>2, <2>1, <3>1, <4>1 DEF Granted
    <3> QED BY <1>1, <3>4, <3>5, <3>6, <3>7
  <2> QED BY <2>1 DEF Granted
<1> QED BY <1>5, <1>6, <1>7, <1>8 DEF MailInv

\* The task manager keeps the invariant.
LEMMA TaskStepInv ==
  ASSUME QueueInv, Unnested, NoIsrSuspend, AllocUnlocked, TaskStep
  PROVE  QueueInv'
BY TaskStepWaits, TaskStepCounts, TaskStepMail DEF QueueInv

\* One task begins or ends a call.
LEMMA WantedChanges ==
  ASSUME QueueTypeOK, NEW c \in TaskID, NEW a, arg' = [arg EXCEPT ![c] = a]
  PROVE  \E b :
         /\ b = Wanted' /\ b[c] = IF a.q = NoTask THEN NoTask ELSE <<a.q, ListOf(a.op)>>
         /\ \A t \in TaskID \ {c} : b[t] = Wanted[t] /\ arg'[t] = arg[t]
         /\ arg'[c] = a
<1>1. Wanted' = [t \in TaskID |-> IF arg'[t].q = NoTask THEN NoTask ELSE <<arg'[t].q, ListOf(arg'[t].op)>>]
  BY DEF Wanted
<1>2. arg'[c] = a /\ \A t \in TaskID \ {c} : arg'[t] = arg[t]
  BY DEF QueueTypeOK
<1>3. PICK b : b = Wanted'
  OBVIOUS
<1>4. b[c] = IF a.q = NoTask THEN NoTask ELSE <<a.q, ListOf(a.op)>>
  BY <1>1, <1>2, <1>3
<1>5. \A t \in TaskID \ {c} : b[t] = Wanted[t]
  BY <1>1, <1>2, <1>3 DEF Wanted
<1> QED BY <1>2, <1>3, <1>4, <1>5

\* What a running task has to do with the queues before it calls one.
LEMMA CallerIdle ==
  ASSUME QueueInv, NEW c \in TaskID, ~InCall(c)
  PROVE  /\ arg[c] = NoArg /\ given[c] = NoMsg /\ "TIMEOUT" \notin k.status[c]
         /\ \A q \in Queue, list \in Lists : ~Woken(c, q, list)
<1>1. Wanted[c] = NoTask /\ "TIMEOUT" \notin k.status[c]
  BY DEF QueueInv, PendCalls, WaitsFor, InCall
<1>2. arg[c] = NoArg /\ NoArg.q = NoTask /\ NoArg.op = "read" /\ NoTask \notin Queue
  BY <1>1, WantedIs, QueueFacts DEF QueueInv, NoArg
<1> QED BY <1>1, <1>2 DEF QueueInv, MailInv, OneOwner, Woken

\* The call a of c begins to wait on a list of q.
BeginsCall(c, q, list, n, a) ==
  /\ InApp(c) /\ taskLock = 0 /\ InUse(q) /\ n \in Timeouts
  /\ k' = osTaskWait(k, c, <<q, list>>, "PEND_QUEUE", n)
  /\ pc' = [pc EXCEPT ![c] = "wait"] /\ arg' = [arg EXCEPT ![c] = a]
  /\ a \in CallRecord /\ ArgOK(a) /\ a.q = q /\ ListOf(a.op) = list
  /\ a.op = "alloc" <=> list = "mem"
  /\ list \in Side => que[q].count[list] = 0
  /\ list = "mem" => ~HasFree(pool[q])
  /\ UNCHANGED <<sched, slice, scan, que, mailVars, lost>>

\* A call that cannot be served waits; its caller has nothing, and nobody else
\* loses anything.
LEMMA BeginsCallInv ==
  ASSUME QueueInv, NEW c \in UserTask, NEW q \in Queue, NEW list \in Lists, NEW n, NEW a,
         BeginsCall(c, q, list, n, a)
  PROVE  QueueInv'
<1>1. /\ InApp(c) /\ taskLock = 0 /\ InUse(q) /\ n \in Timeouts
      /\ k' = osTaskWait(k, c, <<q, list>>, "PEND_QUEUE", n)
      /\ pc' = [pc EXCEPT ![c] = "wait"] /\ arg' = [arg EXCEPT ![c] = a]
      /\ a \in CallRecord /\ ArgOK(a) /\ a.q = q /\ ListOf(a.op) = list
      /\ (a.op = "alloc" <=> list = "mem")
      /\ (list \in Side => que[q].count[list] = 0)
      /\ (list = "mem" => ~HasFree(pool[q]))
      /\ UNCHANGED <<sched, slice, scan>> /\ que' = que /\ lost' = lost
      /\ pool' = pool /\ given' = given /\ mail' = mail /\ taskLock' = taskLock
  BY DEF BeginsCall, mailVars, sched
<1>2. /\ IInv(TRUE) /\ QueueTypeOK /\ PendCalls /\ RingsOK /\ CountsOK /\ WaitersOK
      /\ MailTypeOK /\ OneOwner /\ Granted /\ Unlocked /\ c \in TaskID /\ ~InCall(c)
      /\ pc \in [TaskID -> {"app", "enter", "sched", "wait", "check"}]
  BY <1>1, ContextFacts DEF QueueInv, MailInv, InApp, IInv, TypeOK, InCall
<1>3. /\ arg[c] = NoArg /\ given[c] = NoMsg /\ "TIMEOUT" \notin k.status[c]
      /\ \A p \in Queue, l \in Lists : ~Woken(c, p, l)
  BY <1>2, CallerIdle
<1>4. PICK o : o = <<q, list>>
  OBVIOUS
<1>5. /\ PendObj = Queue \X Lists /\ o \in PendObj /\ NoTask \notin PendObj /\ NoTask \notin Queue
      /\ \A p \in Queue, l \in Lists : <<p, l>> \in PendObj
  BY <1>4, QueueFacts
<1>6. SameNodes(k) /\ n \in (Nat \ {0}) \cup {WAIT_FOREVER} /\ "PEND_QUEUE" \in Waiting
  BY <1>1, <1>2, InvKernel, QueueFacts DEF SameNodes, SameRest
<1>7. IInv(TRUE)' /\ BeginsWait(c, o, "PEND_QUEUE")
  BY <1>1, <1>2, <1>3, <1>4, <1>5, <1>6, WaitStep
<1>8. /\ \A t \in TaskID \ {c} : Untouched(t)
      /\ \A p \in PendObj : \A u : IsOn(k'.pend[p], u) <=> IsOn(k.pend[p], u) \/ (p = o /\ u = c)
  BY <1>7 DEF BeginsWait
<1>9. PICK b : /\ b = Wanted' /\ b[c] = IF a.q = NoTask THEN NoTask ELSE <<a.q, ListOf(a.op)>>
               /\ \A t \in TaskID \ {c} : b[t] = Wanted[t] /\ arg'[t] = arg[t]
               /\ arg'[c] = a
  BY <1>1, <1>2, WantedChanges
<1>10. /\ b[c] = o /\ arg'[c] = a /\ pc'[c] = "wait"
       /\ \A t \in TaskID \ {c} : b[t] = Wanted[t] /\ arg'[t] = arg[t]
  BY <1>1, <1>2, <1>4, <1>5, <1>9
<1>11. PendCalls'
  <2>1. WaitsFor("PEND_QUEUE", k, pc, Wanted)
    BY <1>2 DEF PendCalls
  <2>2. WaitsFor("PEND_QUEUE", k', pc', b)
    BY <1>2, <1>5, <1>6, <1>7, <1>10, <2>1, BeginsWaitCalls
  <2> QED BY <1>9, <2>2 DEF PendCalls
<1>12. QueueTypeOK' /\ RingsOK' /\ MailTypeOK' /\ Unlocked'
  <2>1. QueueTypeOK'
    BY <1>1, <1>2, <1>10 DEF QueueTypeOK
  <2> QED BY <1>1, <1>2, <2>1 DEF RingsOK, Stored, MailTypeOK, Unlocked
<1>13. CountsOK'
  <2>1. ASSUME NEW p \in Queue, NEW side \in Side, NEW t \in UserTask
        PROVE  Woken(t, p, side)' <=> Woken(t, p, side)
    <3>1. t \in TaskID /\ side \in Lists
      BY QueueFacts DEF Lists
    <3>2. CASE t # c
      BY <1>8, <1>10, <3>1, <3>2, UntouchedWoken
    <3>3. CASE t = c
      <4>1. ~Woken(c, p, side)
        BY <1>3, <3>1
      <4>2. p = q /\ side = list => IsOn(k'.pend[<<p, side>>], c)
        BY <1>4, <1>5, <1>8, <3>1
      <4>3. ~Woken(c, p, side)'
        BY <1>1, <1>10, <4>2 DEF Woken
      <4> QED BY <3>3, <4>1, <4>3
    <3> QED BY <3>2, <3>3
  <2>2. ASSUME NEW p \in Queue, NEW side \in Side
        PROVE  CountOK(p, side)'
    <3>1. WokenTasks(p, side)' = WokenTasks(p, side)
      BY <2>1, WokenSame
    <3> QED BY <1>1, <1>2, <3>1, CountKept DEF CountsOK
  <2> QED BY <2>2 DEF CountsOK
<1>14. \A p \in Queue, l \in Lists : k'.pend[<<p, l>>] # <<>> => k.pend[<<p, l>>] # <<>> \/ (p = q /\ l = list)
  <2>1. ASSUME NEW p \in Queue, NEW l \in Lists, k'.pend[<<p, l>>] # <<>>, p # q \/ l # list
        PROVE  k.pend[<<p, l>>] # <<>>
    <3>1. PICK r \in PendObj : r = <<p, l>>
      BY <1>5
    <3>2. r # o
      BY <1>4, <2>1, <3>1
    <3>3. \A t \in TaskID : IsOn(k'.pend[r], t) => IsOn(k.pend[r], t)
      BY <1>8, <3>2
    <3>4. k'.pend[r] # <<>>
      BY <2>1, <3>1
    <3> QED BY <1>7, <3>1, <3>3, <3>4, ListsShrink
  <2> QED BY <2>1
<1>15. WaitersOK'
  <2>1. \A p \in Queue, l \in Lists : k'.pend[<<p, l>>] # <<>> => InUse(p)'
    BY <1>1, <1>2, <1>14 DEF WaitersOK, InUse
  <2>2. \A p \in Queue, side \in Side : k'.pend[<<p, side>>] # <<>> => que'[p].count[side] = 0
    BY <1>1, <1>2, <1>14 DEF WaitersOK, Lists
  <2> QED BY <2>1, <2>2 DEF WaitersOK
<1>16. OneOwner'
  <2>1. ASSUME NEW p \in Queue
        PROVE  /\ MemboxExact(pool[p]) /\ FreeBlocks(pool[p]) \cap mail[p] = {}
               /\ k'.pend[<<p, "mem">>] # <<>> => ~HasFree(pool[p])
    BY <1>1, <1>2, <1>14 DEF OneOwner, Lists
  <2>2. ASSUME NEW t \in TaskID, given[t] # NoMsg
        PROVE  /\ arg'[t] = arg[t] /\ arg'[t].op = "alloc"
               /\ given[t] \notin FreeBlocks(pool[arg'[t].q]) \cup mail[arg'[t].q]
    BY <1>2, <1>3, <1>10, <2>2 DEF OneOwner
  <2>3. ASSUME NEW t \in TaskID, given[t] # NoMsg, NEW u \in TaskID \ {t}, arg'[u].q = arg'[t].q
        PROVE  given[u] # given[t]
    <3>1. CASE given[u] = NoMsg
      BY <2>3, <3>1
    <3>2. CASE given[u] # NoMsg
      <4>1. arg[u].q = arg[t].q
        BY <2>2, <2>3, <3>2
      <4> QED BY <1>2, <2>3, <4>1 DEF OneOwner
    <3> QED BY <3>1, <3>2
  <2> QED BY <1>1, <2>1, <2>2, <2>3 DEF OneOwner
<1>17. Granted'
  <2>1. ASSUME NEW t \in TaskID, t # c, arg'[t].op = "alloc"
        PROVE  IF IsOn(k'.pend[<<arg'[t].q, "mem">>], t) THEN given'[t] = NoMsg
               ELSE "TIMEOUT" \in k'.status[t] <=> given'[t] = NoMsg
    <3>1. arg'[t] = arg[t] /\ arg[t].q \in Queue /\ Untouched(t)
      BY <1>2, <1>8, <1>10, <2>1, WantedIs
    <3>2. <<arg[t].q, "mem">> \in PendObj
      BY <1>5, <3>1 DEF Lists
    <3>3. /\ IsOn(k'.pend[<<arg[t].q, "mem">>], t) <=> IsOn(k.pend[<<arg[t].q, "mem">>], t)
          /\ "TIMEOUT" \in k'.status[t] <=> "TIMEOUT" \in k.status[t]
      BY <3>1, <3>2 DEF Untouched, WaitFlag
    <3> QED BY <1>1, <1>2, <2>1, <3>1, <3>3 DEF Granted
  <2>2. arg'[c].op = "alloc" => IsOn(k'.pend[<<arg'[c].q, "mem">>], c) /\ given'[c] = NoMsg
    BY <1>1, <1>3, <1>4, <1>5, <1>8, <1>10
  <2> QED BY <2>1, <2>2 DEF Granted
<1> QED BY <1>7, <1>11, <1>12, <1>13, <1>15, <1>16, <1>17 DEF QueueInv, MailInv

\* A call of c that has waited returns without serving the queue.
EndsCall(c) ==
  /\ TaskRuns(c) /\ pc[c] = "check" /\ pc' = [pc EXCEPT ![c] = "app"] /\ FlagCleared(c)
  /\ arg' = [arg EXCEPT ![c] = NoArg]
  /\ UNCHANGED <<sched, slice, scan>>

\* The others wait as before.
LEMMA EndsCallWaits ==
  ASSUME QueueInv, NEW c \in UserTask, EndsCall(c)
  PROVE  /\ IInv(TRUE)' /\ PendCalls' /\ k'.pend = k.pend /\ taskLock' = taskLock
         /\ \A t \in TaskID \ {c} : Untouched(t) /\ arg'[t] = arg[t]
         /\ arg'[c] = NoArg /\ arg[c].q \in Queue /\ \A o \in PendObj : ~IsOn(k.pend[o], c)
         /\ arg' \in [TaskID -> CallRecord] /\ \A t \in TaskID : ArgOK(arg'[t])
<1>1. /\ TaskRuns(c) /\ pc[c] = "check" /\ pc' = [pc EXCEPT ![c] = "app"] /\ FlagCleared(c)
      /\ arg' = [arg EXCEPT ![c] = NoArg] /\ UNCHANGED <<sched, slice, scan>> /\ taskLock' = taskLock
      /\ IInv(TRUE) /\ QueueTypeOK /\ PendCalls /\ c \in TaskID /\ "PEND_QUEUE" \in Waiting
  BY ContextFacts, QueueFacts DEF EndsCall, QueueInv, sched
<1>2. NoArg \in CallRecord /\ ArgOK(NoArg) /\ NoArg.q = NoTask
  BY DEF NoArg, CallRecord, ArgOK, Op, Slot
<1>3. PICK b : /\ b = Wanted' /\ b[c] = IF NoArg.q = NoTask THEN NoTask ELSE <<NoArg.q, ListOf(NoArg.op)>>
               /\ \A t \in TaskID \ {c} : b[t] = Wanted[t] /\ arg'[t] = arg[t]
               /\ arg'[c] = NoArg
  BY <1>1, WantedChanges
<1>4. CallOver(Wanted, b, c)
  BY <1>2, <1>3 DEF CallOver
<1>5. IInv(TRUE)' /\ Returned(c) /\ WaitsFor("PEND_QUEUE", k', pc', b)
  <2>1. WaitsFor("PEND_QUEUE", k, pc, Wanted)
    BY <1>1 DEF PendCalls
  <2> QED BY <1>1, <1>4, <2>1, ReturnCalls
<1>6. PendCalls'
  BY <1>3, <1>5 DEF PendCalls
<1>7. arg[c].q \in Queue
  <2>1. Wanted[c] # NoTask
    BY <1>1 DEF PendCalls, WaitsFor
  <2> QED BY <1>1, <2>1, WantedIs
<1>8. arg' \in [TaskID -> CallRecord] /\ \A t \in TaskID : ArgOK(arg'[t])
  BY <1>1, <1>2, <1>3 DEF QueueTypeOK
<1> QED BY <1>1, <1>3, <1>5, <1>6, <1>7, <1>8 DEF Returned

\* A call that found its time over, or waited for a mail block, leaves the
\* queues as they are.
LEMMA EndsCallInv ==
  ASSUME QueueInv, NEW c \in UserTask, EndsCall(c), UNCHANGED <<que, lost>>,
         "TIMEOUT" \in k.status[c] \/ arg[c].op = "alloc", MailInv'
  PROVE  QueueInv'
<1>1. /\ IInv(TRUE)' /\ PendCalls' /\ k'.pend = k.pend
      /\ \A t \in TaskID \ {c} : Untouched(t) /\ arg'[t] = arg[t]
      /\ arg'[c] = NoArg /\ c \in TaskID
      /\ arg' \in [TaskID -> CallRecord] /\ \A t \in TaskID : ArgOK(arg'[t])
  BY EndsCallWaits, ContextFacts
<1>2. QueueTypeOK /\ RingsOK /\ CountsOK /\ WaitersOK
  BY DEF QueueInv
<1>3. QueueTypeOK' /\ RingsOK' /\ WaitersOK'
  BY <1>1, <1>2 DEF QueueTypeOK, RingsOK, Stored, WaitersOK, InUse
<1>4. CountsOK'
  <2>1. ASSUME NEW p \in Queue, NEW side \in Side, NEW t \in UserTask
        PROVE  Woken(t, p, side)' <=> Woken(t, p, side)
    <3>1. t \in TaskID /\ side \in Lists /\ NoArg.q = NoTask /\ NoTask \notin Queue /\ "mem" \notin Side
      BY QueueFacts DEF Lists, NoArg, Side
    <3>2. CASE t # c
      BY <1>1, <3>1, <3>2, UntouchedWoken
    <3>3. CASE t = c
      <4>1. ~Woken(c, p, side)
        BY <1>1, <1>2, <3>1, WantedIs DEF Woken
      <4>2. ~Woken(c, p, side)'
        BY <1>1, <3>1 DEF Woken
      <4> QED BY <3>3, <4>1, <4>2
    <3> QED BY <3>2, <3>3
  <2>2. ASSUME NEW p \in Queue, NEW side \in Side
        PROVE  CountOK(p, side)'
    <3>1. WokenTasks(p, side)' = WokenTasks(p, side)
      BY <2>1, WokenSame
    <3> QED BY <1>2, <3>1, CountKept DEF CountsOK
  <2> QED BY <2>2 DEF CountsOK
<1> QED BY <1>1, <1>3, <1>4 DEF QueueInv

\* A read or a write comes back from its wait too late.
LEMMA TooLateInv ==
  ASSUME QueueInv, NEW c \in UserTask, QueueReturn(c), "TIMEOUT" \in k.status[c]
  PROVE  QueueInv' /\ que' = que
<1>1. /\ EndsCall(c) /\ UNCHANGED <<que, lost>> /\ UNCHANGED mailVars /\ arg[c].op # "alloc"
  BY DEF QueueReturn, EndsCall, FlagCleared, sched
<1>2. /\ k'.pend = k.pend /\ taskLock' = taskLock
      /\ \A t \in TaskID \ {c} : Untouched(t) /\ arg'[t] = arg[t]
      /\ arg'[c] = NoArg
  BY <1>1, EndsCallWaits
<1>3. NoArg.op = "read"
  BY DEF NoArg
<1>4. MailCallsKept
  BY <1>1, <1>2, <1>3 DEF MailCallsKept, Untouched, WaitFlag
<1>5. MailInv'
  BY <1>1, <1>2, <1>4, MailKept DEF QueueInv
<1> QED BY <1>1, <1>5, EndsCallInv

\* osQueueMailAlloc comes back: too late, or with the block that was left for it.
LEMMA MailReturnInv ==
  ASSUME QueueInv, NEW c \in UserTask, MailReturn(c)
  PROVE  QueueInv' /\ que' = que
<1>1. /\ EndsCall(c) /\ UNCHANGED <<que, lost>> /\ pool' = pool /\ arg[c].op = "alloc"
  BY DEF MailReturn, EndsCall, FlagCleared, sched
<1>2. /\ k'.pend = k.pend /\ taskLock' = taskLock
      /\ \A t \in TaskID \ {c} : Untouched(t) /\ arg'[t] = arg[t]
      /\ arg'[c] = NoArg /\ arg[c].q \in Queue /\ c \in TaskID /\ \A o \in PendObj : ~IsOn(k.pend[o], c)
  BY <1>1, EndsCallWaits, ContextFacts
<1>3. /\ MailTypeOK /\ OneOwner /\ Granted /\ Unlocked /\ QueueTypeOK
      /\ NoArg.op = "read" /\ NoMsg \notin Block
  BY QueueFacts DEF QueueInv, MailInv, NoArg
<1>4. "TIMEOUT" \in k.status[c] <=> given[c] = NoMsg
  <2>1. <<arg[c].q, "mem">> \in PendObj
    <3>1. PendObj = Queue \X Lists
      BY QueueFacts
    <3> QED BY <1>2, <3>1 DEF Lists
  <2> QED BY <1>1, <1>2, <1>3, <2>1 DEF Granted
<1>5. /\ given' = [given EXCEPT ![c] = NoMsg] /\ given'[c] = NoMsg
      /\ \A t \in TaskID \ {c} : given'[t] = given[t]
      /\ given[c] = NoMsg => mail' = mail
      /\ given[c] # NoMsg => mail' = [mail EXCEPT ![arg[c].q] = @ \cup {given[c]}]
  BY <1>2, <1>3, <1>4 DEF MailReturn, MailTypeOK
<1>6. MailTypeOK' /\ Unlocked'
  BY <1>1, <1>2, <1>3, <1>5 DEF MailTypeOK, Unlocked
<1>7. Granted'
  <2>1. ASSUME NEW t \in TaskID, arg'[t].op = "alloc"
        PROVE  IF IsOn(k'.pend[<<arg'[t].q, "mem">>], t) THEN given'[t] = NoMsg
               ELSE "TIMEOUT" \in k'.status[t] <=> given'[t] = NoMsg
    <3>1. t # c /\ Untouched(t) /\ arg'[t] = arg[t] /\ given'[t] = given[t]
      BY <1>2, <1>3, <1>5, <2>1
    <3>2. "TIMEOUT" \in k'.status[t] <=> "TIMEOUT" \in k.status[t]
      BY <3>1 DEF Untouched, WaitFlag
    <3> QED BY <1>2, <1>3, <2>1, <3>1, <3>2 DEF Granted
  <2> QED BY <2>1 DEF Granted
<1>8. OneOwner'
  <2>1. \A t \in TaskID : given'[t] # NoMsg => t # c /\ given'[t] = given[t] /\ arg'[t] = arg[t]
    BY <1>2, <1>5
  <2>2. \A q \in Queue : mail'[q] = IF q = arg[c].q /\ given[c] # NoMsg THEN mail[q] \cup {given[c]} ELSE mail[q]
    BY <1>2, <1>3, <1>5 DEF MailTypeOK
  <2>3. given[c] # NoMsg => /\ given[c] \notin FreeBlocks(pool[arg[c].q])
                            /\ \A t \in TaskID \ {c} : arg[t].q = arg[c].q => given[t] # given[c]
    BY <1>2, <1>3 DEF OneOwner
  <2>4. ASSUME NEW q \in Queue
        PROVE  /\ MemboxExact(pool[q]) /\ FreeBlocks(pool[q]) \cap mail'[q] = {}
               /\ k'.pend[<<q, "mem">>] # <<>> => ~HasFree(pool[q])
    BY <1>2, <1>3, <2>2, <2>3 DEF OneOwner
  <2>5. ASSUME NEW t \in TaskID, given'[t] # NoMsg
        PROVE  arg'[t].op = "alloc" /\ given'[t] \notin FreeBlocks(pool[arg'[t].q]) \cup mail'[arg'[t].q]
    <3>1. /\ t # c /\ given'[t] = given[t] /\ arg'[t] = arg[t] /\ given[t] # NoMsg
      BY <2>1, <2>5
    <3>2. arg[t].op = "alloc" /\ given[t] \notin FreeBlocks(pool[arg[t].q]) \cup mail[arg[t].q]
      BY <1>3, <3>1 DEF OneOwner
    <3>3. arg[t].q \in Queue
      BY <1>3, <3>2, WantedIs
    <3> QED BY <2>2, <2>3, <3>1, <3>2, <3>3
  <2>6. ASSUME NEW t \in TaskID, given'[t] # NoMsg, NEW u \in TaskID \ {t}, arg'[u].q = arg'[t].q
        PROVE  given'[u] # given'[t]
    <3>1. CASE given'[u] = NoMsg
      BY <2>6, <3>1
    <3>2. CASE given'[u] # NoMsg
      BY <1>3, <2>1, <2>6, <3>2 DEF OneOwner
    <3> QED BY <3>1, <3>2
  <2> QED BY <1>1, <2>4, <2>5, <2>6 DEF OneOwner
<1>9. MailInv'
  BY <1>6, <1>7, <1>8 DEF MailInv
<1> QED BY <1>1, <1>9, EndsCallInv

\* A read or a write that the queue cannot serve waits.
LEMMA QueueWaitInv ==
  ASSUME QueueInv, NEW c, NEW q \in Queue, NEW op \in Op, NEW m \in Slot, (op = "read") <=> (m = NoMsg),
         NEW n \in Timeouts, QueueWait(c, q, op, m, n)
  PROVE  QueueInv' /\ que' = que
<1>1. PICK a : a = [q |-> q, op |-> op, msg |-> m]
  OBVIOUS
<1>2. /\ a \in CallRecord /\ a.q = q /\ a.op = op /\ a.msg = m /\ ArgOK(a) /\ op # "alloc"
      /\ ListOf(op) \in Side /\ ListOf(op) \in Lists /\ ListOf(op) # "mem"
  BY <1>1 DEF CallRecord, ArgOK, Op, ListOf, Side, Lists
<1>3. c \in UserTask /\ InApp(c)
  BY DEF QueueWait, MayQueue
<1>4. BeginsCall(c, q, ListOf(op), n, a)
  BY <1>1, <1>2, <1>3 DEF QueueWait, BeginsCall
<1>5. que' = que
  BY DEF QueueWait
<1> QED BY <1>2, <1>3, <1>4, <1>5, BeginsCallInv

\* osQueueMailAlloc finds no block, and waits.
LEMMA MailWaitInv ==
  ASSUME QueueInv, NEW c, NEW q \in Queue, NEW n \in Timeouts, MailWait(c, q, n)
  PROVE  QueueInv' /\ que' = que
<1>1. PICK a : a = [NoArg EXCEPT !.q = q, !.op = "alloc"]
  OBVIOUS
<1>2. a = [q |-> q, op |-> "alloc", msg |-> NoMsg]
  BY <1>1 DEF NoArg
<1>3. /\ a \in CallRecord /\ a.q = q /\ a.op = "alloc" /\ ArgOK(a) /\ ListOf("alloc") = "mem"
      /\ "mem" \notin Side /\ "mem" \in Lists
  BY <1>2 DEF CallRecord, ArgOK, ListOf, Side, Lists, Slot
<1>4. c \in UserTask /\ InApp(c) /\ taskLock = 0
  BY DEF MailWait, MayQueue, QueueInv, MailInv, Unlocked
<1>5. BeginsCall(c, q, "mem", n, a)
  BY <1>1, <1>3, <1>4 DEF MailWait, BeginsCall
<1>6. que' = que
  BY DEF MailWait
<1> QED BY <1>3, <1>4, <1>5, <1>6, BeginsCallInv

-----------------------------------------------------------------------------
(* The second half of osQueueOperate                                       *)

\* The operation is carried out on the buffer of q, and on no other.
Carries(q, op, m) ==
  /\ que' \in [Queue -> Rings] /\ \A p \in Queue \ {q} : que'[p] = que[p]
  /\ RingOK(que'[q], Served(op, Stored(q))) /\ Stored(q)' = Served(op, Stored(q))
  /\ que'[q].len = que[q].len /\ Possible(que[q], Stored(q), op, m) /\ que[q].len > 0
  /\ Passed(op, m, Content(que[q], Stored(q)), Content(que'[q], Stored(q)'))

\* What the operation takes from one count, and what it adds to the other.
Counted(q, op, taken, added) ==
  /\ que'[q].count[ListOf(op)] = que[q].count[ListOf(op)] - taken
  /\ que'[q].count[Other(ListOf(op))] = que[q].count[Other(ListOf(op))] + added

\* The two sides of an operation.
LEMMA SidesOf ==
  ASSUME NEW op \in Op
  PROVE  /\ ListOf(op) \in Side /\ Other(ListOf(op)) \in Side /\ ListOf(op) # Other(ListOf(op))
         /\ \A side \in Side : side = ListOf(op) \/ side = Other(ListOf(op))
         /\ ListOf(op) = "reader" <=> op = "read"
         /\ ListOf(op) # "mem" /\ Other(ListOf(op)) # "mem" /\ op # "alloc"
         /\ ListOf(op) \in Lists /\ Other(ListOf(op)) \in Lists
BY DEF Op, ListOf, Other, Side, Lists

\* The counts before and after the buffer is operated.
Less(r, side, taken) == IF taken = 1 THEN [r EXCEPT !.count[side] = @ - 1] ELSE r
More(r, side, added) == IF added = 1 THEN [r EXCEPT !.count[side] = @ + 1] ELSE r

\* The caller counts one message, or one free slot, less.
LEMMA LessOK ==
  ASSUME NEW r, NEW n, RingOK(r, n), r.len > 0, NEW side \in Side, NEW taken \in {0, 1}, taken <= r.count[side]
  PROVE  \E s : /\ s = Less(r, side, taken) /\ RingOK(s, n) /\ s.len = r.len /\ s.buf = r.buf /\ s.head = r.head
                /\ s.count[side] = r.count[side] - taken
                /\ \A x \in Side \ {side} : s.count[x] = r.count[x]
<1>1. r.count \in [Side -> Nat]
  BY DEF RingOK, Rings
<1>2. CASE taken = 1
  <2>1. PICK x \in Nat : x = r.count[side] - 1
    BY <1>1, <1>2
  <2>2. [r.count EXCEPT ![side] = x] \in [Side -> Nat]
    BY <1>1, <2>1
  <2>3. PICK c \in [Side -> Nat] : c = [r.count EXCEPT ![side] = x]
    BY <2>2
  <2>4. PICK s : s = [r EXCEPT !.count = c]
    OBVIOUS
  <2>5. RingOK(s, n) /\ s.len = r.len /\ s.buf = r.buf /\ s.head = r.head /\ s.count = c
    BY <2>3, <2>4, Recounted
  <2>6. s = Less(r, side, taken)
    BY <1>2, <2>1, <2>3, <2>4 DEF Less
  <2> QED BY <1>1, <1>2, <2>1, <2>3, <2>5, <2>6
<1>3. CASE taken = 0
  BY <1>1, <1>3 DEF Less
<1> QED BY <1>2, <1>3

\* The operation counts one more of what it makes.
LEMMA MoreOK ==
  ASSUME NEW r, NEW n, RingOK(r, n), r.len > 0, NEW side \in Side, NEW added \in {0, 1}
  PROVE  \E s : /\ s = More(r, side, added) /\ RingOK(s, n) /\ s.len = r.len /\ s.buf = r.buf /\ s.head = r.head
                /\ s.count[side] = r.count[side] + added /\ \A x \in Side \ {side} : s.count[x] = r.count[x]
<1>1. r.count \in [Side -> Nat]
  BY DEF RingOK, Rings
<1>2. CASE added = 1
  <2>1. PICK x \in Nat : x = r.count[side] + 1
    BY <1>1, <1>2
  <2>2. [r.count EXCEPT ![side] = x] \in [Side -> Nat]
    BY <1>1, <2>1
  <2>3. PICK c \in [Side -> Nat] : c = [r.count EXCEPT ![side] = x]
    BY <2>2
  <2>4. PICK s : s = [r EXCEPT !.count = c]
    OBVIOUS
  <2>5. RingOK(s, n) /\ s.len = r.len /\ s.buf = r.buf /\ s.head = r.head /\ s.count = c
    BY <2>3, <2>4, Recounted
  <2>6. s = More(r, side, added)
    BY <1>2, <2>1, <2>3, <2>4 DEF More
  <2> QED BY <1>1, <1>2, <2>1, <2>3, <2>5, <2>6
<1>3. CASE added = 0
  BY <1>1, <1>3 DEF More
<1> QED BY <1>2, <1>3

\* What the call leaves in the control block of the queue.
LEMMA CarriesOut ==
  ASSUME QueueInv, NEW q \in Queue, NEW op \in Op, NEW m \in Slot, Possible(que[q], Stored(q), op, m),
         NEW taken \in {0, 1}, taken <= que[q].count[ListOf(op)], NEW added \in {0, 1},
         que' = [que EXCEPT ![q] = More(osQueueBufferOperate(Less(que[q], ListOf(op), taken), op, m),
                                        Other(ListOf(op)), added)]
  PROVE  Carries(q, op, m) /\ Counted(q, op, taken, added)
<1>1. /\ RingOK(que[q], Stored(q)) /\ Stored(q) \in Nat /\ que[q].len \in Nat /\ NoMsg \notin Msg
      /\ Stored(q) <= que[q].len
      /\ que \in [Queue -> Rings] /\ que[q].count \in [Side -> Nat]
  BY CountFacts, QueueFacts DEF QueueInv, QueueTypeOK, Rings
<1>2. PICK n, L, O : n = Stored(q) /\ L = ListOf(op) /\ O = Other(ListOf(op))
  OBVIOUS
<1>3. L \in Side /\ O \in Side /\ L # O
  BY <1>2, SidesOf
<1>4. que[q].len > 0
  BY <1>1 DEF Possible
<1>5. PICK r : /\ r = Less(que[q], L, taken) /\ RingOK(r, n) /\ r.len = que[q].len /\ r.buf = que[q].buf
               /\ r.head = que[q].head
               /\ r.count[L] = que[q].count[L] - taken /\ \A x \in Side \ {L} : r.count[x] = que[q].count[x]
  BY <1>1, <1>2, <1>3, <1>4, LessOK
<1>6. Possible(r, n, op, m) /\ Content(r, n) = Content(que[q], n)
  BY <1>2, <1>5 DEF Possible, Content
<1>7. PICK done : done = osQueueBufferOperate(r, op, m)
  OBVIOUS
<1>8. /\ RingOK(done, Served(op, n)) /\ done.len = r.len /\ done.count = r.count
      /\ Passed(op, m, Content(r, n), Content(done, Served(op, n)))
  BY <1>1, <1>5, <1>6, <1>7, OperateRing
<1>9. PICK s : /\ s = More(done, O, added) /\ RingOK(s, Served(op, n)) /\ s.len = done.len /\ s.buf = done.buf
               /\ s.head = done.head /\ s.count[O] = done.count[O] + added
               /\ \A x \in Side \ {O} : s.count[x] = done.count[x]
  BY <1>3, <1>4, <1>5, <1>8, MoreOK
<1>10. Content(s, Served(op, n)) = Content(done, Served(op, n))
  BY <1>9 DEF Content
<1>11. que' = [que EXCEPT ![q] = s]
  BY <1>2, <1>5, <1>7, <1>9
<1>12. s \in Rings
  BY <1>9 DEF RingOK
<1>13. que'[q] = s /\ (\A p \in Queue \ {q} : que'[p] = que[p]) /\ que' \in [Queue -> Rings]
  BY <1>1, <1>11, <1>12
<1>14. Stored(q)' = Served(op, n)
  <2>1. Stored(q)' = Cardinality(Filled(que'[q]))
    BY DEF Stored, Filled
  <2>2. Cardinality(Filled(s)) = Served(op, n)
    BY <1>9, FilledCard
  <2> QED BY <1>13, <2>1, <2>2
<1>15. Carries(q, op, m)
  BY <1>2, <1>4, <1>5, <1>6, <1>8, <1>9, <1>10, <1>13, <1>14 DEF Carries
<1>16. Counted(q, op, taken, added)
  BY <1>2, <1>3, <1>5, <1>8, <1>9, <1>13 DEF Counted
<1> QED BY <1>15, <1>16

\* c, woken before, comes back from its call for that list.
Leaves(c, q, list) ==
  c \in UserTask /\ Woken(c, q, list) /\ arg'[c] = NoArg

\* u, which waits on that list, is woken.
Joins(u, q, list) ==
  /\ u \in UserTask /\ arg'[u] = arg[u] /\ arg[u].q = q /\ ListOf(arg[u].op) = list
  /\ IsOn(k.pend[<<q, list>>], u) /\ ~IsOn(k'.pend[<<q, list>>], u) /\ "TIMEOUT" \notin k'.status[u]

\* Who takes part in an operation: c if it has waited for it (taken is 0), and
\* the first waiter of the other side if there is one (added is 0).
Parties(q, op, taken, added, c, u) ==
  /\ \/ taken = 0 /\ Leaves(c, q, ListOf(op))
     \/ taken = 1 /\ c = NoTask /\ que[q].count[ListOf(op)] # 0
  /\ \/ added = 0 /\ Joins(u, q, Other(ListOf(op)))
     \/ added = 1 /\ u = NoTask /\ k.pend[<<q, Other(ListOf(op))>>] = <<>>
  /\ \A t \in TaskID \ {c, u} : Untouched(t) /\ arg'[t] = arg[t]

\* The reservation of c is gone, that of u is new, and no other changes.
LEMMA PartiesWoken ==
  ASSUME QueueInv, NEW q \in Queue, NEW op \in Op, NEW taken \in {0, 1}, NEW added \in {0, 1}, NEW c, NEW u,
         Parties(q, op, taken, added, c, u)
  PROVE  /\ WokenTasks(q, ListOf(op))' = WokenTasks(q, ListOf(op)) - (1 - taken)
         /\ WokenTasks(q, Other(ListOf(op)))' = WokenTasks(q, Other(ListOf(op))) + (1 - added)
         /\ \A p \in Queue \ {q}, side \in Side : WokenTasks(p, side)' = WokenTasks(p, side)
<1>1. /\ ListOf(op) \in Side /\ Other(ListOf(op)) \in Side /\ ListOf(op) # Other(ListOf(op))
      /\ \A side \in Side : side = ListOf(op) \/ side = Other(ListOf(op))
  BY SidesOf
<1>2. PICK L, O : L = ListOf(op) /\ O = Other(ListOf(op))
  OBVIOUS
<1>3. /\ \/ taken = 0 /\ Leaves(c, q, L)
         \/ taken = 1 /\ c = NoTask
      /\ \/ added = 0 /\ Joins(u, q, O)
         \/ added = 1 /\ u = NoTask
      /\ \A t \in TaskID \ {c, u} : Untouched(t) /\ arg'[t] = arg[t]
  BY <1>2 DEF Parties
<1>4. NoTask \notin UserTask /\ UserTask \subseteq TaskID /\ Side \subseteq Lists /\ NoTask \notin Queue
  BY ContextFacts, QueueFacts DEF Lists
<1>5. taken = 0 => \A p \in Queue, side \in Side :
                     /\ Woken(c, p, side) <=> p = q /\ side = L
                     /\ ~Woken(c, p, side)'
  <2>1. ASSUME taken = 0, NEW p \in Queue, NEW side \in Side
        PROVE  (Woken(c, p, side) <=> p = q /\ side = L) /\ ~Woken(c, p, side)'
    <3>1. Woken(c, q, L) /\ arg'[c] = NoArg /\ NoArg.q = NoTask
      BY <1>3, <2>1 DEF Leaves, NoArg
    <3>2. Woken(c, p, side) => p = q /\ side = L
      BY <3>1 DEF Woken
    <3>3. ~Woken(c, p, side)'
      BY <1>4, <3>1 DEF Woken
    <3> QED BY <3>1, <3>2, <3>3
  <2> QED BY <2>1
<1>6. added = 0 => \A p \in Queue, side \in Side :
                     /\ ~Woken(u, p, side)
                     /\ Woken(u, p, side)' <=> p = q /\ side = O
  <2>1. ASSUME added = 0, NEW p \in Queue, NEW side \in Side
        PROVE  ~Woken(u, p, side) /\ (Woken(u, p, side)' <=> p = q /\ side = O)
    <3>1. /\ arg'[u] = arg[u] /\ arg[u].q = q /\ ListOf(arg[u].op) = O
          /\ IsOn(k.pend[<<q, O>>], u) /\ ~IsOn(k'.pend[<<q, O>>], u) /\ "TIMEOUT" \notin k'.status[u]
      BY <1>3, <2>1 DEF Joins
    <3> QED BY <3>1 DEF Woken
  <2> QED BY <2>1
<1>7. \A t \in UserTask \ {c, u} : \A p \in Queue, side \in Side : Woken(t, p, side)' <=> Woken(t, p, side)
  BY <1>3, <1>4, UntouchedWoken
<1>8. (taken = 0 => c \in UserTask) /\ (added = 0 => u \in UserTask)
  BY <1>3 DEF Leaves, Joins
<1>9. ASSUME NEW p \in Queue, NEW side \in Side, p # q \/ side # L, p # q \/ side # O
      PROVE  WokenTasks(p, side)' = WokenTasks(p, side)
  <2>1. \A t \in UserTask : Woken(t, p, side)' <=> Woken(t, p, side)
    BY <1>3, <1>4, <1>5, <1>6, <1>7, <1>9
  <2> QED BY <2>1, WokenSame
<1>10. WokenTasks(q, L)' = WokenTasks(q, L) - (1 - taken)
  <2>1. \A t \in UserTask \ {c} : Woken(t, q, L)' <=> Woken(t, q, L)
    BY <1>1, <1>2, <1>3, <1>4, <1>6, <1>7
  <2>2. CASE taken = 0
    <3>1. Woken(c, q, L) /\ ~Woken(c, q, L)'
      BY <1>1, <1>2, <1>5, <2>2
    <3> QED BY <1>8, <2>1, <2>2, <3>1, WokenLess
  <2>3. CASE taken = 1
    <3>1. \A t \in UserTask : Woken(t, q, L)' <=> Woken(t, q, L)
      BY <1>3, <1>4, <2>1, <2>3
    <3>2. WokenTasks(q, L) \in Nat
      BY WokenType
    <3> QED BY <2>3, <3>1, <3>2, WokenSame
  <2> QED BY <2>2, <2>3
<1>11. WokenTasks(q, O)' = WokenTasks(q, O) + (1 - added)
  <2>1. \A t \in UserTask \ {u} : Woken(t, q, O)' <=> Woken(t, q, O)
    BY <1>1, <1>2, <1>3, <1>4, <1>5, <1>7
  <2>2. CASE added = 0
    <3>1. ~Woken(u, q, O) /\ Woken(u, q, O)'
      BY <1>1, <1>2, <1>6, <2>2
    <3> QED BY <1>8, <2>1, <2>2, <3>1, WokenMore
  <2>3. CASE added = 1
    <3>1. \A t \in UserTask : Woken(t, q, O)' <=> Woken(t, q, O)
      BY <1>3, <1>4, <2>1, <2>3
    <3>2. WokenTasks(q, O) \in Nat
      BY WokenType
    <3> QED BY <2>3, <3>1, <3>2, WokenSame
  <2> QED BY <2>2, <2>3
<1> QED BY <1>2, <1>9, <1>10, <1>11

\* A message moves from the free slots to the messages, or back, and the counts
\* and the reservations with it.
LEMMA CarriedCounts ==
  ASSUME QueueInv, NEW q \in Queue, NEW op \in Op, NEW m, NEW taken \in {0, 1}, NEW added \in {0, 1}, NEW c, NEW u,
         Parties(q, op, taken, added, c, u), Carries(q, op, m), Counted(q, op, taken, added), lost' = lost
  PROVE  RingsOK' /\ CountsOK'
<1>1. /\ ListOf(op) \in Side /\ Other(ListOf(op)) \in Side /\ ListOf(op) # Other(ListOf(op))
      /\ \A side \in Side : side = ListOf(op) \/ side = Other(ListOf(op))
      /\ ListOf(op) = "reader" <=> op = "read"
  BY SidesOf
<1>2. PICK L, O : L = ListOf(op) /\ O = Other(ListOf(op))
  OBVIOUS
<1>3. /\ \A p \in Queue \ {q} : que'[p] = que[p]
      /\ RingOK(que'[q], Served(op, Stored(q))) /\ Stored(q)' = Served(op, Stored(q))
      /\ que'[q].len = que[q].len
  BY DEF Carries
<1>4. que'[q].count[L] = que[q].count[L] - taken /\ que'[q].count[O] = que[q].count[O] + added
  BY <1>2 DEF Counted
<1>5. /\ WokenTasks(q, L)' = WokenTasks(q, L) - (1 - taken) /\ WokenTasks(q, O)' = WokenTasks(q, O) + (1 - added)
      /\ \A p \in Queue \ {q}, side \in Side : WokenTasks(p, side)' = WokenTasks(p, side)
  BY <1>2, PartiesWoken
<1>6. \A p \in Queue \ {q} : Stored(p)' = Stored(p)
  BY <1>3 DEF Stored
<1>7. RingsOK'
  BY <1>3, <1>6 DEF QueueInv, RingsOK
<1>8. /\ Stored(q) \in Nat /\ que[q].len \in Nat
      /\ \A side \in Side : /\ que[q].count[side] \in Nat /\ WokenTasks(q, side) \in Nat /\ CountOK(q, side)
                            /\ Claims(q, side) \in Int /\ Room(q, side) \in Int
  BY CountFacts
<1>9. Room(q, L)' = Room(q, L) + (-1) /\ Room(q, O)' = Room(q, O) + 1
  BY <1>1, <1>2, <1>3, <1>8 DEF Room, Served, Side
<1>10. Claims(q, L)' = Claims(q, L) + (-1)
  <2>1. Claims(q, L)' = (que[q].count[L] - taken) + (WokenTasks(q, L) - (1 - taken))
    BY <1>4, <1>5 DEF Claims
  <2>2. PICK x \in Nat, y \in Nat : x = que[q].count[L] /\ y = WokenTasks(q, L)
    BY <1>1, <1>2, <1>8
  <2>3. (x - taken) + (y - (1 - taken)) = (x + y) + (-1)
    OBVIOUS
  <2> QED BY <2>1, <2>2, <2>3 DEF Claims
<1>11. Claims(q, O)' = Claims(q, O) + 1
  BY <1>1, <1>2, <1>4, <1>5, <1>8 DEF Claims
<1>12. CountOK(q, L)' /\ CountOK(q, O)'
  BY <1>1, <1>2, <1>8, <1>9, <1>10, <1>11, CountMoves
<1>13. ASSUME NEW p \in Queue \ {q}, NEW side \in Side
       PROVE  CountOK(p, side)'
  BY <1>3, <1>5, CountKept DEF QueueInv, CountsOK
<1> QED BY <1>1, <1>2, <1>7, <1>12, <1>13 DEF CountsOK

\* The operation keeps the invariant, if the kernel and the calls are in order
\* after it.
LEMMA CarriedInv ==
  ASSUME QueueInv, NEW q \in Queue, NEW op \in Op, NEW m, NEW taken \in {0, 1}, NEW added \in {0, 1}, NEW c, NEW u,
         Parties(q, op, taken, added, c, u), Carries(q, op, m), Counted(q, op, taken, added), lost' = lost,
         IInv(TRUE)', PendCalls', UNCHANGED mailVars, taskLock' = taskLock,
         arg' \in [TaskID -> CallRecord], \A t \in TaskID : ArgOK(arg'[t]),
         \A o \in PendObj, t \in TaskID : IsOn(k'.pend[o], t) => IsOn(k.pend[o], t)
  PROVE  QueueInv'
<1>1. RingsOK' /\ CountsOK'
  BY CarriedCounts
<1>2. /\ QueueTypeOK /\ WaitersOK /\ MailInv
      /\ que' \in [Queue -> Rings] /\ \A p \in Queue \ {q} : que'[p] = que[p]
      /\ que'[q].len = que[q].len
  BY DEF QueueInv, Carries
<1>3. QueueTypeOK'
  BY <1>2 DEF QueueTypeOK
<1>4. PendObj = Queue \X Lists
  BY QueueFacts
<1>5. \A p \in Queue, list \in Lists : <<p, list>> \in PendObj
  BY <1>4
<1>6. ASSUME NEW p \in Queue, NEW list \in Lists, k'.pend[<<p, list>>] # <<>>
      PROVE  k.pend[<<p, list>>] # <<>>
  <2>1. PICK o \in PendObj : o = <<p, list>>
    BY <1>5
  <2>2. k'.pend[o] # <<>> /\ \A t \in TaskID : IsOn(k'.pend[o], t) => IsOn(k.pend[o], t)
    BY <1>6, <2>1
  <2> QED BY <2>1, <2>2, ListsShrink
<1>7. /\ ListOf(op) \in Side /\ Other(ListOf(op)) \in Side
      /\ \A side \in Side : side = ListOf(op) \/ side = Other(ListOf(op))
      /\ ListOf(op) # "mem" /\ Other(ListOf(op)) # "mem" /\ Side \subseteq Lists /\ "mem" \in Lists
  BY SidesOf DEF Lists
<1>8. WaitersOK'
  <2>1. \A p \in Queue, list \in Lists : k'.pend[<<p, list>>] # <<>> => InUse(p)'
    BY <1>2, <1>6 DEF WaitersOK, InUse
  <2>2. ASSUME NEW p \in Queue, NEW side \in Side, k'.pend[<<p, side>>] # <<>>
        PROVE  que'[p].count[side] = 0
    <3>1. k.pend[<<p, side>>] # <<>> /\ que[p].count[side] = 0
      BY <1>2, <1>6, <1>7, <2>2 DEF WaitersOK
    <3>2. CASE p = q /\ side = ListOf(op)
      <4>1. taken = 0
        BY <3>1, <3>2 DEF Parties
      <4> QED BY <3>1, <3>2, <4>1 DEF Counted
    <3>3. CASE p = q /\ side = Other(ListOf(op))
      <4>1. added = 0
        BY <3>1, <3>3 DEF Parties
      <4> QED BY <3>1, <3>3, <4>1 DEF Counted
    <3> QED BY <1>2, <1>7, <3>1, <3>2, <3>3
  <2> QED BY <2>1, <2>2 DEF WaitersOK
<1>9. MailInv'
  <2>1. ASSUME NEW t \in TaskID, arg[t].op = "alloc" \/ arg'[t].op = "alloc"
        PROVE  /\ arg'[t] = arg[t]
               /\ IsOn(k'.pend[<<arg[t].q, "mem">>], t) <=> IsOn(k.pend[<<arg[t].q, "mem">>], t)
               /\ "TIMEOUT" \in k'.status[t] <=> "TIMEOUT" \in k.status[t]
    <3>1. ListOf("alloc") = "mem" /\ NoArg.op # "alloc"
      BY DEF ListOf, NoArg
    <3>2. t # c
      <4>1. CASE Leaves(c, q, ListOf(op))
        BY <1>7, <2>1, <3>1, <4>1 DEF Leaves, Woken
      <4>2. CASE c = NoTask
        BY <4>2, ContextFacts
      <4> QED BY <4>1, <4>2 DEF Parties
    <3>3. t # u
      <4>1. CASE Joins(u, q, Other(ListOf(op)))
        BY <1>7, <2>1, <3>1, <4>1 DEF Joins
      <4>2. CASE u = NoTask
        BY <4>2, ContextFacts
      <4> QED BY <4>1, <4>2 DEF Parties
    <3>4. Untouched(t) /\ arg'[t] = arg[t]
      BY <3>2, <3>3 DEF Parties
    <3>5. arg[t].q \in Queue
      BY <1>2, <2>1, <3>4, WantedIs
    <3>6. <<arg[t].q, "mem">> \in PendObj
      BY <1>5, <1>7, <3>5
    <3> QED BY <3>4, <3>6 DEF Untouched, WaitFlag
  <2>2. MailCallsKept
    BY <1>6, <1>7, <2>1 DEF MailCallsKept
  <2> QED BY <1>2, <2>2, MailKept
<1> QED BY <1>1, <1>3, <1>8, <1>9 DEF QueueInv

\* The first task of a wait list waits in a call for that list.
LEMMA QueueWaiter ==
  ASSUME QueueInv, NEW q \in Queue, NEW list \in Lists, k.pend[<<q, list>>] # <<>>,
         NEW u, u = Head(k.pend[<<q, list>>])
  PROVE  /\ u \in UserTask /\ u \in TaskID /\ arg[u].q = q /\ ListOf(arg[u].op) = list /\ InCall(u)
         /\ IsOn(k.pend[<<q, list>>], u) /\ k.status[u] \cap Waiting = {"PEND_QUEUE"}
<1>1. PendObj = Queue \X Lists /\ NoTask \notin PendObj /\ "PEND_QUEUE" \in Waiting
  BY QueueFacts
<1>2. PICK o \in PendObj : o = <<q, list>>
  BY <1>1
<1>3. IInv(TRUE) /\ WaitsFor("PEND_QUEUE", k, pc, Wanted) /\ QueueTypeOK
  BY DEF QueueInv, PendCalls
<1>4. k.pend[o] # <<>> /\ u = Head(k.pend[o])
  BY <1>2
<1>5. WaitsAt("PEND_QUEUE", Wanted, o, u)
  BY <1>1, <1>3, <1>4, WaiterFacts
<1>6. u \in TaskID /\ Wanted[u] = <<q, list>>
  BY <1>2, <1>5 DEF WaitsAt
<1>7. arg[u].q = q /\ ListOf(arg[u].op) = list
  BY <1>3, <1>6, WantedIs
<1> QED BY <1>2, <1>5, <1>7 DEF WaitsAt

\* What a call may count on is there.
LEMMA RoomThere ==
  ASSUME QueueInv, NEW q \in Queue, NEW op \in Op, NEW m \in Slot, (op = "read") <=> (m = NoMsg),
         que[q].count[ListOf(op)] # 0 \/ WokenTasks(q, ListOf(op)) # 0
  PROVE  Possible(que[q], Stored(q), op, m)
<1>1. ListOf(op) \in Side /\ (ListOf(op) = "reader" <=> op = "read")
  BY SidesOf
<1>2. /\ que[q].count[ListOf(op)] \in Nat /\ WokenTasks(q, ListOf(op)) \in Nat
      /\ que[q].count[ListOf(op)] + WokenTasks(q, ListOf(op)) <= Room(q, ListOf(op))
      /\ Stored(q) \in Nat /\ que[q].len \in Nat /\ Room(q, ListOf(op)) \in Int
  BY <1>1, CountFacts
<1>3. Room(q, ListOf(op)) > 0
  BY <1>2
<1> QED BY <1>1, <1>2, <1>3 DEF Room, Possible, Slot

\* What the second half of osQueueOperate makes of the control block.
LEMMA CompleteQue ==
  ASSUME NEW c, NEW q, NEW r, NEW op, NEW m, Complete(c, q, r, op, m),
         NEW added, added = IF k.pend[<<q, Other(ListOf(op))>>] # <<>> THEN 0 ELSE 1
  PROVE  que' = [que EXCEPT ![q] = More(osQueueBufferOperate(r, op, m), Other(ListOf(op)), added)]
BY DEF Complete, More

\* osQueueOperate, when the operation is possible at once.
LEMMA OperateInv ==
  ASSUME QueueInv, Unnested, NEW c, NEW q \in Queue, NEW op \in Op, NEW m \in Slot, (op = "read") <=> (m = NoMsg),
         QueueOperate(c, q, op, m)
  PROVE  QueueInv' /\ Carries(q, op, m)
<1>1. /\ MayQueue(c, op) /\ que[q].count[ListOf(op)] > 0 /\ arg' = arg /\ lost' = lost /\ UNCHANGED mailVars
      /\ UNCHANGED <<runTask, taskLock, scheduled, making, slice, scan>> /\ taskLock' = taskLock
  BY DEF QueueOperate
<1>2. Complete(c, q, Less(que[q], ListOf(op), 1), op, m)
  BY DEF QueueOperate, Less
<1>3. PICK added \in {0, 1} : added = IF k.pend[<<q, Other(ListOf(op))>>] # <<>> THEN 0 ELSE 1
  OBVIOUS
<1>4. /\ IInv(TRUE) /\ QueueTypeOK /\ PendCalls /\ ListOf(op) \in Side /\ Other(ListOf(op)) \in Lists
      /\ que[q].count[ListOf(op)] \in Nat
  BY CountFacts, SidesOf DEF QueueInv
<1>5. Possible(que[q], Stored(q), op, m)
  BY <1>1, <1>4, RoomThere
<1>6. que' = [que EXCEPT ![q] = More(osQueueBufferOperate(Less(que[q], ListOf(op), 1), op, m),
                                     Other(ListOf(op)), added)]
  BY <1>2, <1>3, CompleteQue
<1>7. Carries(q, op, m) /\ Counted(q, op, 1, added)
  <2>1. 1 <= que[q].count[ListOf(op)] /\ 1 \in {0, 1}
    BY <1>1, <1>4
  <2> QED BY <1>5, <1>6, <2>1, CarriesOut
<1>8. arg' \in [TaskID -> CallRecord] /\ \A t \in TaskID : ArgOK(arg'[t])
  BY <1>1, <1>4 DEF QueueTypeOK
<1>9. PICK u : u = IF added = 0 THEN Head(k.pend[<<q, Other(ListOf(op))>>]) ELSE NoTask
  OBVIOUS
<1>10. /\ IInv(TRUE)' /\ PendCalls' /\ Parties(q, op, 1, added, NoTask, u)
       /\ \A o \in PendObj, t \in TaskID : IsOn(k'.pend[o], t) => IsOn(k.pend[o], t)
  <2>1. CASE k.pend[<<q, Other(ListOf(op))>>] # <<>>
    <3>1. added = 0 /\ u = Head(k.pend[<<q, Other(ListOf(op))>>])
      BY <1>3, <1>9, <2>1
    <3>2. /\ u \in UserTask /\ u \in TaskID /\ arg[u].q = q /\ ListOf(arg[u].op) = Other(ListOf(op)) /\ InCall(u)
          /\ IsOn(k.pend[<<q, Other(ListOf(op))>>], u) /\ k.status[u] \cap Waiting = {"PEND_QUEUE"}
      <4>1. PICK list \in Lists : list = Other(ListOf(op))
        BY <1>4
      <4>2. k.pend[<<q, list>>] # <<>> /\ u = Head(k.pend[<<q, list>>])
        BY <2>1, <3>1, <4>1
      <4>3. /\ u \in UserTask /\ u \in TaskID /\ arg[u].q = q /\ ListOf(arg[u].op) = list /\ InCall(u)
            /\ IsOn(k.pend[<<q, list>>], u) /\ k.status[u] \cap Waiting = {"PEND_QUEUE"}
        BY <4>2, QueueWaiter
      <4> QED BY <4>1, <4>3
    <3>3. k' = osTaskWake(k, u, "PEND_QUEUE") /\ Then_LOS_Schedule(c)
      BY <1>2, <2>1, <3>1 DEF Complete
    <3>4. /\ scan.at = "off" /\ scheduled
          /\ \/ c \in UserTask /\ InApp(c)
             \/ c = Isr
      BY <1>1, ContextFacts DEF MayQueue, IsrRuns, InApp, TaskRuns, Unnested
    <3>5. SameNodes(k) /\ "PEND_QUEUE" \in Waiting
      BY <1>4, InvKernel, QueueFacts DEF SameNodes, SameRest
    <3>6. IInv(TRUE)' /\ EndsWait(u)
      BY <1>1, <1>4, <3>2, <3>3, <3>4, <3>5, WakeStep
    <3>7. PendCalls'
      <4>1. PICK b : b = Wanted' /\ b = Wanted
        BY <1>1 DEF Wanted
      <4>2. WaitsFor("PEND_QUEUE", k', pc', Wanted)
        BY <1>4, <3>2, <3>5, <3>6, EndsWaitCalls DEF PendCalls
      <4> QED BY <4>1, <4>2 DEF PendCalls
    <3>8. <<q, Other(ListOf(op))>> \in PendObj
      <4>1. PendObj = Queue \X Lists
        BY QueueFacts
      <4> QED BY <1>4, <4>1
    <3>9. /\ ~IsOn(k'.pend[<<q, Other(ListOf(op))>>], u) /\ "TIMEOUT" \notin k'.status[u]
          /\ \A t \in TaskID \ {u} : Untouched(t)
          /\ \A o \in PendObj, t \in TaskID : IsOn(k'.pend[o], t) => IsOn(k.pend[o], t)
      BY <3>6, <3>8 DEF EndsWait, WaitFlag
    <3>10. Joins(u, q, Other(ListOf(op)))
      BY <1>1, <3>2, <3>9 DEF Joins
    <3>11. Parties(q, op, 1, added, NoTask, u)
      BY <1>1, <1>4, <3>1, <3>9, <3>10 DEF Parties
    <3> QED BY <3>6, <3>7, <3>9, <3>11
  <2>2. CASE k.pend[<<q, Other(ListOf(op))>>] = <<>>
    <3>1. added = 1 /\ u = NoTask
      BY <1>3, <1>9, <2>2
    <3>2. k' = k /\ pc' = pc /\ UNCHANGED vars
      <4>1. /\ k' = k /\ pc' = (IF c = Isr THEN pc ELSE [pc EXCEPT ![c] = "app"])
            /\ UNCHANGED <<newTask, pendSV>>
        BY <1>2, <2>2 DEF Complete
      <4>2. c # Isr => c \in TaskID /\ pc[c] = "app"
        BY <1>1, ContextFacts DEF MayQueue, InApp
      <4>3. pc \in [TaskID -> {"app", "enter", "sched", "wait", "check"}]
        BY <1>4 DEF IInv, TypeOK
      <4> QED BY <1>1, <4>1, <4>2, <4>3 DEF vars, sched
    <3>3. IInv(TRUE)' /\ PendCalls'
      BY <1>1, <1>4, <3>2, StutterOK DEF PendCalls, Wanted
    <3>4. \A t \in TaskID : Untouched(t) /\ arg'[t] = arg[t]
      BY <1>1, <3>2 DEF Untouched, InCall
    <3>5. Parties(q, op, 1, added, NoTask, u)
      BY <1>1, <1>4, <2>2, <3>1, <3>4 DEF Parties
    <3> QED BY <3>2, <3>3, <3>5
  <2> QED BY <2>1, <2>2
<1> QED BY <1>1, <1>7, <1>8, <1>10, CarriedInv

\* A call that has waited wakes a waiter of the other side: one call is over,
\* one wait ends.
LEMMA HandsOverCalls ==
  ASSUME QueueInv, NEW c \in UserTask, TaskRuns(c), pc[c] = "check", "TIMEOUT" \notin k.status[c],
         NEW u \in TaskID, InCall(u), k.status[u] \cap Waiting = {"PEND_QUEUE"}, arg' = [arg EXCEPT ![c] = NoArg],
         k' = osTaskWake(k, u, "PEND_QUEUE"), Then_LOS_Schedule(c),
         UNCHANGED <<runTask, taskLock, scheduled, making, slice, scan>>
  PROVE  /\ IInv(TRUE)' /\ PendCalls' /\ Woke(u) /\ u # c
         /\ \A t \in TaskID \ {u, c} : Untouched(t) /\ arg'[t] = arg[t]
         /\ arg'[c] = NoArg /\ arg'[u] = arg[u] /\ \A o \in PendObj : ~IsOn(k.pend[o], c)
<1>1. /\ IInv(TRUE) /\ QueueTypeOK /\ WaitsFor("PEND_QUEUE", k, pc, Wanted) /\ "PEND_QUEUE" \in Waiting
      /\ c \in TaskID /\ NoArg.q = NoTask
  BY ContextFacts, QueueFacts DEF QueueInv, PendCalls, NoArg
<1>2. /\ IInv(TRUE)' /\ Woke(u) /\ OnItsWay(c) /\ u # c
      /\ \A o \in PendObj : ~IsOn(k.pend[o], c)
      /\ \A t \in TaskID \ {u, c} : Untouched(t)
  BY <1>1, WakeOnReturn
<1>3. PICK b : /\ b = Wanted' /\ b[c] = IF NoArg.q = NoTask THEN NoTask ELSE <<NoArg.q, ListOf(NoArg.op)>>
               /\ \A t \in TaskID \ {c} : b[t] = Wanted[t] /\ arg'[t] = arg[t]
               /\ arg'[c] = NoArg
  BY <1>1, WantedChanges
<1>4. ASSUME NEW t \in TaskID
      PROVE  /\ pc'[t] \in {"wait", "check"} <=> b[t] # NoTask
             /\ \A o \in PendObj : IsOn(k'.pend[o], t) => b[t] = o
             /\ k'.status[t] \cap Waiting \subseteq {"PEND_QUEUE"}
             /\ "TIMEOUT" \in k'.status[t] => pc'[t] \in {"wait", "check"}
  <2>1. CASE t = c
    <3>1. pc'[c] = "sched" /\ b[c] = NoTask
      BY <1>1, <1>2, <1>3 DEF OnItsWay
    <3>2. k'.status[c] = k.status[c] /\ \A o \in PendObj : ~IsOn(k'.pend[o], c)
      BY <1>1, <1>2 DEF Woke
    <3> QED BY <1>1, <2>1, <3>1, <3>2 DEF WaitsFor
  <2>2. CASE t = u
    <3>1. pc'[u] = pc[u] /\ b[u] = Wanted[u]
      BY <1>2, <1>3 DEF OnItsWay
    <3>2. k'.status[u] \cap WaitFlag = {} /\ \A o \in PendObj : ~IsOn(k'.pend[o], u)
      BY <1>2 DEF Woke
    <3> QED BY <1>1, <2>2, <3>1, <3>2 DEF WaitsFor, WaitFlag
  <2>3. CASE t # c /\ t # u
    <3>1. pc'[t] = pc[t] /\ b[t] = Wanted[t] /\ Untouched(t)
      BY <1>2, <1>3, <2>3 DEF OnItsWay
    <3> QED BY <1>1, <3>1 DEF WaitsFor, Untouched, WaitFlag, Waiting
  <2> QED BY <2>1, <2>2, <2>3
<1>5. PendCalls'
  BY <1>3, <1>4 DEF PendCalls, WaitsFor
<1> QED BY <1>2, <1>3, <1>5

\* osQueueOperate, when its caller was woken with a message or a slot reserved.
LEMMA ServedInv ==
  ASSUME QueueInv, NEW c \in UserTask, QueueReturn(c), "TIMEOUT" \notin k.status[c]
  PROVE  /\ QueueInv'
         /\ \E q \in Queue, op \in Op, m \in Slot :
              /\ q = arg[c].q /\ op = arg[c].op /\ m = arg[c].msg
              /\ ((op = "read") <=> (m = NoMsg)) /\ Carries(q, op, m)
<1>1. /\ TaskRuns(c) /\ pc[c] = "check" /\ arg[c].op # "alloc" /\ arg' = [arg EXCEPT ![c] = NoArg]
      /\ Complete(c, arg[c].q, que[arg[c].q], arg[c].op, arg[c].msg)
      /\ UNCHANGED <<runTask, taskLock, scheduled, making, slice, scan>> /\ taskLock' = taskLock
      /\ UNCHANGED mailVars /\ lost' = lost
  BY DEF QueueReturn
<1>2. IInv(TRUE) /\ QueueTypeOK /\ PendCalls /\ c \in TaskID /\ PendObj = Queue \X Lists
  BY ContextFacts, QueueFacts DEF QueueInv
<1>3. PICK q, op, m : q = arg[c].q /\ op = arg[c].op /\ m = arg[c].msg
  OBVIOUS
<1>4. q \in Queue /\ op \in Op /\ m \in Slot /\ ((op = "read") <=> (m = NoMsg))
  <2>1. Wanted[c] # NoTask
    BY <1>1, <1>2 DEF PendCalls, WaitsFor
  <2> QED BY <1>1, <1>2, <1>3, <2>1, WantedIs
<1>5. PICK L, O : L = ListOf(op) /\ O = Other(ListOf(op))
  OBVIOUS
<1>6. L \in Side /\ O \in Side /\ L \in Lists /\ O \in Lists
  BY <1>4, <1>5, SidesOf
<1>7. <<q, L>> \in PendObj /\ <<q, O>> \in PendObj
  BY <1>2, <1>4, <1>6
<1>8. PICK added \in {0, 1} : added = IF k.pend[<<q, O>>] # <<>> THEN 0 ELSE 1
  OBVIOUS
<1>9. PICK u : u = IF added = 0 THEN Head(k.pend[<<q, O>>]) ELSE NoTask
  OBVIOUS
<1>10. /\ IInv(TRUE)' /\ PendCalls' /\ arg'[c] = NoArg /\ \A o \in PendObj : ~IsOn(k.pend[o], c)
       /\ \A t \in TaskID \ {c} : arg'[t] = arg[t]
       /\ \A t \in TaskID \ {c, u} : Untouched(t)
       /\ \A o \in PendObj, t \in TaskID : IsOn(k'.pend[o], t) => IsOn(k.pend[o], t)
       /\ \/ added = 0 /\ Joins(u, q, O)
          \/ added = 1 /\ u = NoTask /\ k.pend[<<q, O>>] = <<>>
  <2>1. CASE k.pend[<<q, O>>] # <<>>
    <3>1. added = 0 /\ u = Head(k.pend[<<q, O>>])
      BY <1>8, <1>9, <2>1
    <3>2. /\ u \in UserTask /\ u \in TaskID /\ arg[u].q = q /\ ListOf(arg[u].op) = O /\ InCall(u)
          /\ IsOn(k.pend[<<q, O>>], u) /\ k.status[u] \cap Waiting = {"PEND_QUEUE"}
      <4>1. PICK list \in Lists : list = O
        BY <1>6
      <4>2. q \in Queue /\ k.pend[<<q, list>>] # <<>> /\ u = Head(k.pend[<<q, list>>])
        BY <1>4, <2>1, <3>1, <4>1
      <4>3. /\ u \in UserTask /\ u \in TaskID /\ arg[u].q = q /\ ListOf(arg[u].op) = list /\ InCall(u)
            /\ IsOn(k.pend[<<q, list>>], u) /\ k.status[u] \cap Waiting = {"PEND_QUEUE"}
        BY <4>2, QueueWaiter
      <4> QED BY <4>1, <4>3
    <3>3. k' = osTaskWake(k, u, "PEND_QUEUE") /\ Then_LOS_Schedule(c)
      BY <1>1, <1>3, <1>5, <2>1, <3>1 DEF Complete
    <3>4. /\ IInv(TRUE)' /\ PendCalls' /\ Woke(u) /\ u # c
          /\ \A t \in TaskID \ {u, c} : Untouched(t) /\ arg'[t] = arg[t]
          /\ arg'[c] = NoArg /\ arg'[u] = arg[u] /\ \A o \in PendObj : ~IsOn(k.pend[o], c)
      BY <1>1, <3>2, <3>3, HandsOverCalls
    <3>5. /\ ~IsOn(k'.pend[<<q, O>>], u) /\ "TIMEOUT" \notin k'.status[u]
          /\ \A o \in PendObj, t \in TaskID : IsOn(k'.pend[o], t) => IsOn(k.pend[o], t)
      BY <1>7, <3>4 DEF Woke, WaitFlag
    <3>6. Joins(u, q, O)
      BY <3>2, <3>4, <3>5 DEF Joins
    <3> QED BY <3>1, <3>4, <3>5, <3>6
  <2>2. CASE k.pend[<<q, O>>] = <<>>
    <3>1. added = 1 /\ u = NoTask
      BY <1>8, <1>9, <2>2
    <3>2. k' = k /\ pc' = [pc EXCEPT ![c] = "app"] /\ UNCHANGED <<newTask, pendSV>>
      BY <1>1, <1>2, <1>3, <1>5, <2>2, ContextFacts DEF Complete
    <3>3. EndsCall(c)
      BY <1>1, <3>2 DEF EndsCall, FlagCleared, sched
    <3>4. /\ IInv(TRUE)' /\ PendCalls' /\ k'.pend = k.pend
          /\ \A t \in TaskID \ {c} : Untouched(t) /\ arg'[t] = arg[t]
          /\ arg'[c] = NoArg /\ \A o \in PendObj : ~IsOn(k.pend[o], c)
      BY <3>3, EndsCallWaits
    <3> QED BY <2>2, <3>1, <3>4
  <2> QED BY <2>1, <2>2
<1>11. Woken(c, q, L)
  BY <1>3, <1>5, <1>7, <1>10 DEF Woken
<1>12. WokenTasks(q, L) # 0
  <2>1. c \in WokenAt(q, L)
    BY <1>11 DEF WokenAt
  <2>2. IsFiniteSet(WokenAt(q, L)) /\ WokenTasks(q, L) = Cardinality(WokenAt(q, L))
    BY WokenType
  <2> QED BY <2>1, <2>2, FS_EmptySet
<1>13. Possible(que[q], Stored(q), op, m)
  BY <1>4, <1>5, <1>12, RoomThere
<1>14. que' = [que EXCEPT ![q] = More(osQueueBufferOperate(Less(que[q], ListOf(op), 0), op, m),
                                      Other(ListOf(op)), added)]
  <2>1. Complete(c, q, Less(que[q], ListOf(op), 0), op, m)
    BY <1>1, <1>3 DEF Less
  <2> QED BY <1>5, <1>8, <2>1, CompleteQue
<1>15. Carries(q, op, m) /\ Counted(q, op, 0, added)
  <2>1. 0 <= que[q].count[ListOf(op)] /\ 0 \in {0, 1}
    BY <1>4, <1>5, <1>6, CountFacts
  <2> QED BY <1>4, <1>13, <1>14, <2>1, CarriesOut
<1>16. Parties(q, op, 0, added, c, u)
  BY <1>5, <1>10, <1>11 DEF Parties, Leaves
<1>17. arg' \in [TaskID -> CallRecord] /\ \A t \in TaskID : ArgOK(arg'[t])
  <2>1. NoArg \in CallRecord /\ ArgOK(NoArg)
    BY DEF NoArg, CallRecord, ArgOK, Op, Slot
  <2> QED BY <1>1, <1>2, <1>10, <2>1 DEF QueueTypeOK
<1>18. QueueInv'
  BY <1>1, <1>4, <1>10, <1>15, <1>16, <1>17, CarriedInv
<1> QED BY <1>3, <1>4, <1>15, <1>18

-----------------------------------------------------------------------------
(* The calls for mail blocks that do not wait                              *)

\* Nobody waits, is woken or comes back, and the queues stay as they are.
LEMMA PoolInv ==
  ASSUME QueueInv, UNCHANGED <<vars, arg>>, UNCHANGED <<que, lost>>, MailInv'
  PROVE  QueueInv'
<1>1. k' = k /\ arg' = arg /\ que' = que /\ lost' = lost /\ QueueTypeOK /\ RingsOK /\ CountsOK
  BY DEF QueueInv, vars
<1>2. QueueTypeOK' /\ RingsOK'
  BY <1>1 DEF QueueTypeOK, RingsOK, Stored
<1>3. CountsOK'
  <2>1. \A q, side : WokenTasks(q, side)' = WokenTasks(q, side)
    BY <1>1 DEF WokenTasks, Woken
  <2> QED BY <1>1, <2>1, CountKept DEF CountsOK
<1> QED BY <1>1, <1>2, <1>3, BlockInv

\* One block moves between the pool of q and the application, and none is left
\* for a task.
LEMMA BlockMoves ==
  ASSUME MailInv, UNCHANGED <<vars, arg, given>>, NEW q \in Queue, k.pend[<<q, "mem">>] = <<>>,
         NEW new, new \in Pools, MemboxExact(new), NEW blocks, blocks \in SUBSET Block,
         pool' = [pool EXCEPT ![q] = new], mail' = [mail EXCEPT ![q] = blocks],
         FreeBlocks(new) \cup blocks = FreeBlocks(pool[q]) \cup mail[q], FreeBlocks(new) \cap blocks = {}
  PROVE  MailInv'
<1>1. /\ k' = k /\ arg' = arg /\ given' = given /\ taskLock' = taskLock
      /\ MailTypeOK /\ OneOwner /\ Granted /\ Unlocked
  BY DEF MailInv, vars, sched
<1>2. /\ pool'[q] = new /\ \A p \in Queue \ {q} : pool'[p] = pool[p] /\ mail'[p] = mail[p]
      /\ mail'[q] = blocks
  BY <1>1 DEF MailTypeOK
<1>3. MailTypeOK' /\ Granted' /\ Unlocked'
  BY <1>1 DEF MailTypeOK, Granted, Unlocked
<1>4. ASSUME NEW p \in Queue
      PROVE  /\ MemboxExact(pool'[p]) /\ FreeBlocks(pool'[p]) \cap mail'[p] = {}
             /\ k.pend[<<p, "mem">>] # <<>> => ~HasFree(pool'[p])
             /\ FreeBlocks(pool'[p]) \cup mail'[p] = FreeBlocks(pool[p]) \cup mail[p]
  BY <1>1, <1>2 DEF OneOwner
<1>5. ASSUME NEW t \in TaskID, given[t] # NoMsg
      PROVE  /\ arg[t].op = "alloc" /\ given[t] \notin FreeBlocks(pool'[arg[t].q]) \cup mail'[arg[t].q]
             /\ \A u \in TaskID \ {t} : arg[u].q = arg[t].q => given[u] # given[t]
  <2>1. /\ arg[t].op = "alloc" /\ given[t] \notin FreeBlocks(pool[arg[t].q]) \cup mail[arg[t].q]
        /\ \A u \in TaskID \ {t} : arg[u].q = arg[t].q => given[u] # given[t]
    BY <1>1, <1>5 DEF OneOwner
  <2>2. CASE arg[t].q = q
    BY <1>2, <2>1, <2>2
  <2>3. CASE arg[t].q # q
    <3>1. pool'[arg[t].q] = pool[arg[t].q] /\ mail'[arg[t].q] = mail[arg[t].q]
      BY <1>1, <2>3 DEF MailTypeOK
    <3> QED BY <2>1, <3>1
  <2> QED BY <2>2, <2>3
<1>6. OneOwner'
  BY <1>1, <1>4, <1>5 DEF OneOwner
<1> QED BY <1>3, <1>6 DEF MailInv

\* osQueueMailAlloc, when the membox has a block.
LEMMA MailAllocInv ==
  ASSUME QueueInv, NEW c, NEW q \in Queue, MailAlloc(c, q)
  PROVE  QueueInv' /\ que' = que
<1>1. /\ HasFree(pool[q]) /\ UNCHANGED <<vars, arg, given>> /\ UNCHANGED <<vars, arg>> /\ UNCHANGED <<que, lost>>
      /\ pool' = [pool EXCEPT ![q] = LOS_MemboxAlloc(pool[q])]
      /\ mail' = [mail EXCEPT ![q] = mail[q] \cup {NextBlock(pool[q])}]
  BY DEF MailAlloc
<1>2. MailInv /\ MailTypeOK /\ OneOwner
  BY DEF QueueInv, MailInv
<1>3. /\ pool[q] \in Pools /\ MemboxExact(pool[q]) /\ FreeBlocks(pool[q]) \cap mail[q] = {}
      /\ k.pend[<<q, "mem">>] = <<>> /\ mail[q] \in SUBSET Block
  BY <1>1, <1>2 DEF MailTypeOK, OneOwner
<1>4. PICK new, b : new = LOS_MemboxAlloc(pool[q]) /\ b = NextBlock(pool[q])
  OBVIOUS
<1>5. /\ new \in Pools /\ MemboxExact(new) /\ b \in Block
      /\ b \in FreeBlocks(pool[q]) /\ FreeBlocks(new) = FreeBlocks(pool[q]) \ {b}
  BY <1>1, <1>3, <1>4, TakeBlock
<1>6. PICK blocks : blocks = mail[q] \cup {b}
  OBVIOUS
<1>7. /\ blocks \in SUBSET Block /\ FreeBlocks(new) \cap blocks = {}
      /\ FreeBlocks(new) \cup blocks = FreeBlocks(pool[q]) \cup mail[q]
  BY <1>3, <1>5, <1>6
<1>8. pool' = [pool EXCEPT ![q] = new] /\ mail' = [mail EXCEPT ![q] = blocks]
  BY <1>1, <1>4, <1>6
<1>9. MailInv'
  BY <1>1, <1>2, <1>3, <1>5, <1>7, <1>8, BlockMoves
<1> QED BY <1>1, <1>9, PoolInv

\* osQueueMailFree, when nobody waits for a block.
LEMMA MailFreeInv ==
  ASSUME QueueInv, NEW c, NEW q \in Queue, NEW b \in Block, MailFree(c, q, b), k.pend[<<q, "mem">>] = <<>>
  PROVE  QueueInv' /\ que' = que
<1>1. /\ UNCHANGED <<vars, arg, given>> /\ UNCHANGED <<vars, arg>> /\ UNCHANGED <<que, lost>> /\ b \in mail[q]
      /\ pool' = [pool EXCEPT ![q] = LOS_MemboxFree(pool[q], b)]
      /\ mail' = [mail EXCEPT ![q] = mail[q] \ {b}]
  BY DEF MailFree, vars, sched
<1>2. MailInv /\ MailTypeOK /\ OneOwner
  BY DEF QueueInv, MailInv
<1>3. /\ pool[q] \in Pools /\ MemboxExact(pool[q]) /\ FreeBlocks(pool[q]) \cap mail[q] = {}
      /\ mail[q] \in SUBSET Block /\ b \notin FreeBlocks(pool[q])
  BY <1>1, <1>2 DEF MailTypeOK, OneOwner
<1>4. PICK new : new = LOS_MemboxFree(pool[q], b)
  OBVIOUS
<1>5. new \in Pools /\ MemboxExact(new) /\ FreeBlocks(new) = FreeBlocks(pool[q]) \cup {b}
  BY <1>3, <1>4, FreeBlock
<1>6. PICK blocks : blocks = mail[q] \ {b}
  OBVIOUS
<1>7. /\ blocks \in SUBSET Block /\ FreeBlocks(new) \cap blocks = {}
      /\ FreeBlocks(new) \cup blocks = FreeBlocks(pool[q]) \cup mail[q]
  BY <1>1, <1>3, <1>5, <1>6
<1>8. pool' = [pool EXCEPT ![q] = new] /\ mail' = [mail EXCEPT ![q] = blocks]
  BY <1>1, <1>4, <1>6
<1>9. MailInv'
  BY <1>1, <1>2, <1>5, <1>7, <1>8, BlockMoves
<1> QED BY <1>1, <1>9, PoolInv

\* osQueueMailFree leaves the block for the first task that waits for one.
LEMMA MailHandInv ==
  ASSUME QueueInv, Unnested, NEW c, NEW q \in Queue, NEW b \in Block, MailFree(c, q, b),
         k.pend[<<q, "mem">>] # <<>>
  PROVE  QueueInv' /\ que' = que
<1>1. PICK u : u = Head(k.pend[<<q, "mem">>])
  OBVIOUS
<1>2. /\ IInv(TRUE) /\ QueueTypeOK /\ PendCalls /\ RingsOK /\ CountsOK /\ WaitersOK
      /\ MailTypeOK /\ OneOwner /\ Granted /\ Unlocked /\ InUse(q) /\ "mem" \in Lists /\ NoMsg \notin Block
      /\ "mem" \notin Side /\ Side \subseteq Lists
  BY QueueFacts DEF QueueInv, MailInv, WaitersOK, Lists, Side
<1>3. /\ u \in UserTask /\ u \in TaskID /\ arg[u].q = q /\ ListOf(arg[u].op) = "mem" /\ InCall(u)
      /\ IsOn(k.pend[<<q, "mem">>], u) /\ k.status[u] \cap Waiting = {"PEND_QUEUE"}
  BY <1>1, <1>2, QueueWaiter
<1>4. /\ pool[q] \in Pools /\ MemboxExact(pool[q]) /\ b \in mail[q] /\ b \notin FreeBlocks(pool[q])
  BY <1>2 DEF MailTypeOK, OneOwner, MailFree
<1>5. PICK box : box = LOS_MemboxFree(pool[q], b)
  OBVIOUS
<1>6. NextBlock(box) = b /\ LOS_MemboxAlloc(box) = pool[q]
  BY <1>4, <1>5, FreeBlock
<1>7. /\ given' = [given EXCEPT ![u] = b] /\ pool' = pool /\ mail' = [mail EXCEPT ![q] = mail[q] \ {b}]
      /\ k' = osTaskWake(k, u, "PEND_QUEUE") /\ Then_LOS_Schedule(c) /\ MayQueue(c, "free")
      /\ UNCHANGED <<runTask, taskLock, scheduled, making, slice, scan>> /\ que' = que /\ arg' = arg /\ lost' = lost
      /\ taskLock' = taskLock
  <2>1. /\ given' = [given EXCEPT ![u] = NextBlock(box)] /\ pool' = [pool EXCEPT ![q] = LOS_MemboxAlloc(box)]
        /\ mail' = [mail EXCEPT ![q] = mail[q] \ {b}]
        /\ k' = osTaskWake(k, u, "PEND_QUEUE") /\ Then_LOS_Schedule(c) /\ MayQueue(c, "free")
        /\ UNCHANGED <<runTask, taskLock, scheduled, making, slice, scan, que, arg, lost>>
    BY <1>1, <1>2, <1>5 DEF MailFree
  <2>2. pool' = pool
    BY <1>2, <1>6, <2>1 DEF MailTypeOK
  <2> QED BY <1>6, <2>1, <2>2
<1>8. /\ scan.at = "off" /\ scheduled
      /\ \/ c \in UserTask /\ InApp(c)
         \/ c = Isr
  BY <1>7, ContextFacts DEF MayQueue, IsrRuns, InApp, TaskRuns, Unnested
<1>9. SameNodes(k) /\ "PEND_QUEUE" \in Waiting
  BY <1>2, InvKernel, QueueFacts DEF SameNodes, SameRest
<1>10. IInv(TRUE)' /\ EndsWait(u)
  BY <1>2, <1>3, <1>7, <1>8, <1>9, WakeStep
<1>11. PendCalls'
  <2>1. PICK a : a = Wanted' /\ a = Wanted
    BY <1>7 DEF Wanted
  <2>2. WaitsFor("PEND_QUEUE", k', pc', Wanted)
    BY <1>2, <1>3, <1>9, <1>10, EndsWaitCalls DEF PendCalls
  <2> QED BY <2>1, <2>2 DEF PendCalls
<1>12. PendObj = Queue \X Lists /\ <<q, "mem">> \in PendObj
  <2>1. PendObj = Queue \X Lists
    BY QueueFacts
  <2> QED BY <1>2, <2>1
<1>13. /\ ~IsOn(k'.pend[<<q, "mem">>], u) /\ "TIMEOUT" \notin k'.status[u]
       /\ \A t \in TaskID \ {u} : Untouched(t)
       /\ \A o \in PendObj, t \in TaskID : IsOn(k'.pend[o], t) => IsOn(k.pend[o], t)
  BY <1>10, <1>12 DEF EndsWait, WaitFlag
<1>14. ASSUME NEW p \in Queue, NEW list \in Lists, k'.pend[<<p, list>>] # <<>>
       PROVE  k.pend[<<p, list>>] # <<>>
  <2>1. PICK o \in PendObj : o = <<p, list>>
    BY <1>12
  <2>2. k'.pend[o] # <<>> /\ \A t \in TaskID : IsOn(k'.pend[o], t) => IsOn(k.pend[o], t)
    BY <1>13, <1>14, <2>1
  <2> QED BY <1>10, <2>1, <2>2, ListsShrink
<1>15. QueueTypeOK' /\ RingsOK' /\ WaitersOK'
  <2>1. \A p \in Queue, list \in Lists : k'.pend[<<p, list>>] # <<>> => InUse(p)'
    BY <1>2, <1>7, <1>14 DEF WaitersOK, InUse
  <2>2. \A p \in Queue, side \in Side : k'.pend[<<p, side>>] # <<>> => que'[p].count[side] = 0
    BY <1>2, <1>7, <1>14 DEF WaitersOK
  <2> QED BY <1>2, <1>7, <2>1, <2>2 DEF QueueTypeOK, RingsOK, Stored, WaitersOK
<1>16. CountsOK'
  <2>1. ASSUME NEW p \in Queue, NEW side \in Side, NEW t \in UserTask
        PROVE  Woken(t, p, side)' <=> Woken(t, p, side)
    <3>1. t \in TaskID /\ side \in Lists /\ side # "mem"
      BY <1>2, QueueFacts
    <3>2. CASE t # u
      BY <1>7, <1>13, <3>1, <3>2, UntouchedWoken
    <3>3. CASE t = u
      BY <1>3, <1>7, <3>1, <3>3 DEF Woken
    <3> QED BY <3>2, <3>3
  <2>2. ASSUME NEW p \in Queue, NEW side \in Side
        PROVE  CountOK(p, side)'
    <3>1. WokenTasks(p, side)' = WokenTasks(p, side)
      BY <2>1, WokenSame
    <3> QED BY <1>2, <1>7, <3>1, CountKept DEF CountsOK
  <2> QED BY <2>2 DEF CountsOK
<1>17. /\ given'[u] = b /\ \A t \in TaskID \ {u} : given'[t] = given[t]
       /\ \A p \in Queue : mail'[p] = IF p = q THEN mail[q] \ {b} ELSE mail[p]
  BY <1>2, <1>3, <1>7 DEF MailTypeOK
<1>18. MailTypeOK' /\ Unlocked'
  BY <1>2, <1>7 DEF MailTypeOK, Unlocked
<1>19. Granted'
  <2>1. ASSUME NEW t \in TaskID, t # u, arg[t].op = "alloc"
        PROVE  IF IsOn(k'.pend[<<arg[t].q, "mem">>], t) THEN given'[t] = NoMsg
               ELSE "TIMEOUT" \in k'.status[t] <=> given'[t] = NoMsg
    <3>1. arg[t].q \in Queue /\ Untouched(t) /\ given'[t] = given[t]
      BY <1>2, <1>13, <1>17, <2>1, WantedIs
    <3>2. <<arg[t].q, "mem">> \in PendObj
      BY <1>2, <1>12, <3>1
    <3>3. /\ IsOn(k'.pend[<<arg[t].q, "mem">>], t) <=> IsOn(k.pend[<<arg[t].q, "mem">>], t)
          /\ "TIMEOUT" \in k'.status[t] <=> "TIMEOUT" \in k.status[t]
      BY <3>1, <3>2 DEF Untouched, WaitFlag
    <3> QED BY <1>2, <2>1, <3>1, <3>3 DEF Granted
  <2>2. ~IsOn(k'.pend[<<arg[u].q, "mem">>], u) /\ "TIMEOUT" \notin k'.status[u] /\ given'[u] # NoMsg
    BY <1>2, <1>3, <1>13, <1>17
  <2> QED BY <1>7, <2>1, <2>2 DEF Granted
<1>20. arg[u].op = "alloc"
  BY <1>2, <1>3, WantedIs
<1>21. OneOwner'
  <2>1. ASSUME NEW p \in Queue
        PROVE  /\ MemboxExact(pool[p]) /\ FreeBlocks(pool[p]) \cap mail'[p] = {}
               /\ k'.pend[<<p, "mem">>] # <<>> => ~HasFree(pool[p])
    BY <1>2, <1>14, <1>17 DEF OneOwner
  <2>2. ASSUME NEW t \in TaskID \ {u}, given[t] # NoMsg
        PROVE  /\ arg[t].op = "alloc" /\ arg[t].q \in Queue
               /\ given[t] \notin FreeBlocks(pool[arg[t].q]) \cup mail[arg[t].q]
               /\ given[t] \notin FreeBlocks(pool[arg[t].q]) \cup mail'[arg[t].q]
               /\ arg[t].q = q => given[t] # b
    <3>1. /\ arg[t].op = "alloc" /\ given[t] \notin FreeBlocks(pool[arg[t].q]) \cup mail[arg[t].q]
      BY <1>2, <2>2 DEF OneOwner
    <3>2. arg[t].q \in Queue
      BY <1>2, <3>1, WantedIs
    <3> QED BY <1>4, <1>17, <3>1, <3>2
  <2>3. b \notin FreeBlocks(pool[arg[u].q]) \cup mail'[arg[u].q]
    BY <1>3, <1>4, <1>17
  <2>4. ASSUME NEW t \in TaskID, given'[t] # NoMsg
        PROVE  arg[t].op = "alloc" /\ given'[t] \notin FreeBlocks(pool[arg[t].q]) \cup mail'[arg[t].q]
    BY <1>17, <1>20, <2>2, <2>3, <2>4
  <2>5. ASSUME NEW t \in TaskID, given'[t] # NoMsg, NEW v \in TaskID \ {t}, arg[v].q = arg[t].q
        PROVE  given'[v] # given'[t]
    <3>1. CASE given'[v] = NoMsg
      BY <2>5, <3>1
    <3>2. CASE t = u
      BY <1>3, <1>17, <2>2, <2>5, <3>2
    <3>3. CASE v = u
      BY <1>3, <1>17, <2>2, <2>5, <3>3
    <3>4. CASE t # u /\ v # u
      BY <1>2, <1>17, <2>5, <3>4 DEF OneOwner
    <3> QED BY <3>1, <3>2, <3>3, <3>4
  <2> QED BY <1>7, <2>1, <2>4, <2>5 DEF OneOwner
<1> QED BY <1>7, <1>10, <1>11, <1>15, <1>16, <1>18, <1>19, <1>21 DEF QueueInv, MailInv

-----------------------------------------------------------------------------
(* The theorems                                                            *)

\* What a step does to the queues: it leaves them as they are, creates or
\* deletes one, or carries out one operation on one.
QueueEffect ==
  \/ que' = que
  \/ \E q \in Queue, n \in QueueLens :
       /\ \E c : LOS_QueueCreate(c, q, n)
       /\ RingOK(que'[q], 0) /\ que'[q].len = n
  \/ \E q \in Queue : \E c : LOS_QueueDelete(c, q)
  \/ \E q \in Queue, op \in Op, m \in Slot :
       /\ ((op = "read") <=> (m = NoMsg)) /\ Carries(q, op, m)
       /\ \E c \in Caller : Succeeds(c, q, op, m)

\* Every step keeps the invariant.
LEMMA QueueNextInv ==
  ASSUME QueueInv, Unnested, NoIsrSuspend, AllocUnlocked, [QueueNext]_allVars
  PROVE  QueueInv' /\ QueueEffect
<1>1. CASE TaskStep
  <2>1. QueueInv' /\ que' = que
    BY <1>1, TaskStepInv DEF TaskStep
  <2> QED BY <2>1 DEF QueueEffect
<1>2. ASSUME NEW c \in Caller \cup {Boot}, QueueCall(c)
      PROVE  QueueInv' /\ QueueEffect
  <2>1. PICK q \in Queue :
          \/ \E n \in QueueLens : LOS_QueueCreate(c, q, n)
          \/ LOS_QueueDelete(c, q)
          \/ \E op \in Op, m \in Msg \cup {NoMsg} :
               /\ (op = "read") <=> (m = NoMsg)
               /\ \/ QueueOperate(c, q, op, m)
                  \/ \E timeout \in Timeouts : QueueWait(c, q, op, m, timeout)
          \/ MailAlloc(c, q) \/ \E b \in Block : MailFree(c, q, b)
          \/ \E timeout \in Timeouts : MailWait(c, q, timeout)
    BY <1>2 DEF QueueCall
  <2>2. ASSUME NEW n \in QueueLens, LOS_QueueCreate(c, q, n)
        PROVE  QueueInv' /\ QueueEffect
    BY <2>2, CreateInv DEF QueueEffect
  <2>3. ASSUME LOS_QueueDelete(c, q)
        PROVE  QueueInv' /\ QueueEffect
    BY <2>3, DeleteInv DEF QueueEffect
  <2>4. ASSUME NEW op \in Op, NEW m \in Slot, (op = "read") <=> (m = NoMsg), QueueOperate(c, q, op, m)
        PROVE  QueueInv' /\ QueueEffect
    <3>1. QueueInv' /\ Carries(q, op, m)
      BY <2>4, OperateInv
    <3>2. c \in Caller
      BY <2>4 DEF QueueOperate, MayQueue, Caller
    <3>3. Succeeds(c, q, op, m)
      BY <2>4 DEF Succeeds
    <3> QED BY <2>4, <3>1, <3>2, <3>3 DEF QueueEffect
  <2>5. ASSUME NEW op \in Op, NEW m \in Slot, (op = "read") <=> (m = NoMsg), NEW timeout \in Timeouts,
               QueueWait(c, q, op, m, timeout)
        PROVE  QueueInv' /\ QueueEffect
    BY <2>5, QueueWaitInv DEF QueueEffect
  <2>6. ASSUME MailAlloc(c, q)
        PROVE  QueueInv' /\ QueueEffect
    BY <2>6, MailAllocInv DEF QueueEffect
  <2>7. ASSUME NEW b \in Block, MailFree(c, q, b)
        PROVE  QueueInv' /\ QueueEffect
    BY <2>7, MailFreeInv, MailHandInv DEF QueueEffect
  <2>8. ASSUME NEW timeout \in Timeouts, MailWait(c, q, timeout)
        PROVE  QueueInv' /\ QueueEffect
    BY <2>8, MailWaitInv DEF QueueEffect
  <2> QED BY <2>1, <2>2, <2>3, <2>4, <2>5, <2>6, <2>7, <2>8 DEF Slot
<1>3. ASSUME NEW c \in UserTask, QueueReturn(c)
      PROVE  QueueInv' /\ QueueEffect
  <2>1. CASE "TIMEOUT" \in k.status[c]
    BY <1>3, <2>1, TooLateInv DEF QueueEffect
  <2>2. CASE "TIMEOUT" \notin k.status[c]
    <3>1. QueueInv'
      BY <1>3, <2>2, ServedInv
    <3>2. PICK q \in Queue, op \in Op, m \in Slot :
            /\ q = arg[c].q /\ op = arg[c].op /\ m = arg[c].msg
            /\ ((op = "read") <=> (m = NoMsg)) /\ Carries(q, op, m)
      BY <1>3, <2>2, ServedInv
    <3>3. arg[c] = [q |-> q, op |-> op, msg |-> m] /\ c \in Caller
      <4>1. arg[c] \in CallRecord
        BY ContextFacts DEF QueueInv, QueueTypeOK
      <4> QED BY <3>2, <4>1 DEF CallRecord, Caller
    <3>4. Succeeds(c, q, op, m)
      BY <1>3, <2>2, <3>2, <3>3 DEF Succeeds
    <3> QED BY <3>1, <3>2, <3>3, <3>4 DEF QueueEffect
  <2> QED BY <2>1, <2>2
<1>4. ASSUME NEW c \in UserTask, MailReturn(c)
      PROVE  QueueInv' /\ QueueEffect
  BY <1>4, MailReturnInv DEF QueueEffect
<1>5. CASE UNCHANGED allVars
  <2>1. UNCHANGED <<vars, arg, mailVars>> /\ UNCHANGED <<vars, arg>> /\ UNCHANGED <<que, lost>> /\ que' = que
    BY <1>5 DEF allVars
  <2>2. MailInv'
    BY <2>1, MailStays DEF QueueInv
  <2>3. QueueInv'
    BY <2>1, <2>2, PoolInv
  <2> QED BY <2>1, <2>3 DEF QueueEffect
<1> QED BY <1>1, <1>2, <1>3, <1>4, <1>5 DEF QueueNext

\* The invariant holds of every reachable state of the queues and the tasks.
THEOREM QueueInvariance ==
  ASSUME Unnested, NoIsrSuspend, AllocUnlocked
  PROVE  QueueSpec => []QueueInv
<1>1. QueueInit => QueueInv
  BY QueueInitInv
<1>2. QueueInv /\ [QueueNext]_allVars => QueueInv'
  BY QueueNextInv
<1> QED BY <1>1, <1>2, PTL DEF QueueSpec

\* Messages and free slots are never promised twice: what the counts allow and
\* what is reserved for woken readers, or writers, is there, whoever reads and
\* writes before these run again, and if some time out or are deleted.
THEOREM ReservationsAreHeld ==
  ASSUME Unnested, NoIsrSuspend, AllocUnlocked
  PROVE  QueueSpec => []ReservationsHold
<1>1. QueueInv => ReservationsHold
  <2>1. ASSUME QueueInv, NEW q \in Queue
        PROVE  /\ que[q].count["reader"] + WokenTasks(q, "reader") <= Stored(q)
               /\ que[q].count["writer"] + WokenTasks(q, "writer") <= que[q].len - Stored(q)
    BY <2>1, CountFacts DEF Room, Side
  <2> QED BY <2>1 DEF ReservationsHold
<1> QED BY <1>1, QueueInvariance, PTL

\* A reader, or a writer, waits only while every message, or every free slot, is
\* reserved for a task that was woken before it, as long as no task is deleted
\* between its wake-up and its return.
THEOREM NobodyIsForgotten ==
  ASSUME Unnested, NoIsrSuspend, AllocUnlocked
  PROVE  QueueSpec => []NobodyForgotten
<1>1. QueueInv => NobodyForgotten
  <2>1. ASSUME QueueInv, NEW q \in Queue, NEW side \in Side, ~lost[q], k.pend[<<q, side>>] # <<>>
        PROVE  Room(q, side) = WokenTasks(q, side)
    <3>1. que[q].count[side] = 0
      BY <2>1 DEF QueueInv, WaitersOK
    <3>2. CountOK(q, side) /\ WokenTasks(q, side) \in Nat
      BY <2>1, CountFacts
    <3> QED BY <2>1, <3>1, <3>2 DEF CountOK, Claims
  <2> QED BY <2>1 DEF NobodyForgotten, Room, Side
<1> QED BY <1>1, QueueInvariance, PTL

\* LOS_QueueDelete, which looks at the wait lists and at the two counts, never
\* takes a queue from under a task that waits for it or is about to use it.
THEOREM DeletedWhenIdle ==
  ASSUME Unnested, NoIsrSuspend, AllocUnlocked
  PROVE  QueueSpec => []DeletedIdle
<1>1. QueueInv => DeletedIdle
  <2>1. ASSUME QueueInv, NEW t \in UserTask, NEW q \in Queue, NEW list \in Lists, IsOn(k.pend[<<q, list>>], t)
        PROVE  InUse(q)
    <3>1. k.pend[<<q, list>>] # <<>>
      BY <2>1, EmptyList
    <3> QED BY <2>1, <3>1 DEF QueueInv, WaitersOK
  <2>2. ASSUME QueueInv, NEW t \in UserTask, NEW q \in Queue, NEW side \in Side, Woken(t, q, side)
        PROVE  InUse(q)
    <3>1. WokenTasks(q, side) # 0
      <4>1. t \in WokenAt(q, side)
        BY <2>2 DEF WokenAt
      <4>2. IsFiniteSet(WokenAt(q, side)) /\ WokenTasks(q, side) = Cardinality(WokenAt(q, side))
        BY WokenType
      <4> QED BY <4>1, <4>2, FS_EmptySet
    <3>2. /\ Stored(q) \in Nat /\ que[q].len \in Nat /\ Stored(q) <= que[q].len
          /\ que[q].count[side] \in Nat /\ WokenTasks(q, side) \in Nat
          /\ que[q].count[side] + WokenTasks(q, side) <= Room(q, side)
      BY <2>2, CountFacts
    <3>3. Room(q, side) <= que[q].len
      BY <3>2 DEF Room
    <3>4. Room(q, side) \in Int
      BY <3>2 DEF Room
    <3> QED BY <3>1, <3>2, <3>3, <3>4 DEF InUse
  <2> QED BY <2>1, <2>2 DEF DeletedIdle, Lists
<1> QED BY <1>1, QueueInvariance, PTL

\* A mail block is never in two hands, and never lies in the pool while a task
\* waits for one.
THEOREM BlocksHaveOneOwner ==
  ASSUME Unnested, NoIsrSuspend, AllocUnlocked
  PROVE  QueueSpec => []OneOwner
<1>1. QueueInv => OneOwner
  BY DEF QueueInv, MailInv
<1> QED BY <1>1, QueueInvariance, PTL

\* osQueueMailAlloc returns with a block exactly when its time is not over.
THEOREM MailIsGranted ==
  ASSUME Unnested, NoIsrSuspend, AllocUnlocked
  PROVE  QueueSpec => []MailGranted
<1>1. QueueInv => MailGranted
  <2>1. ASSUME QueueInv, NEW t \in UserTask, TaskRuns(t), pc[t] = "check", arg[t].op = "alloc"
        PROVE  "TIMEOUT" \in k.status[t] <=> given[t] = NoMsg
    <3>1. t \in TaskID /\ IInv(TRUE) /\ QueueTypeOK /\ PendObj = Queue \X Lists
      BY <2>1, ContextFacts, QueueFacts DEF QueueInv
    <3>2. "READY" \in k.status[t] /\ OneList(k) /\ k.status \in [TaskID -> SUBSET Flag]
      BY <2>1, <3>1 DEF TaskRuns, IInv, Dispatch, Running, ListNodes, TypeOK, KernelType
    <3>3. \A o \in PendObj : ~IsOn(k.pend[o], t)
      BY <3>1, <3>2 DEF OneList, Blocked, Waiting
    <3>4. arg[t].q \in Queue
      BY <2>1, <3>1, WantedIs
    <3>5. <<arg[t].q, "mem">> \in PendObj
      BY <3>1, <3>4 DEF Lists
    <3> QED BY <2>1, <3>1, <3>3, <3>5 DEF QueueInv, MailInv, Granted
  <2> QED BY <2>1 DEF MailGranted
<1> QED BY <1>1, QueueInvariance, PTL

-----------------------------------------------------------------------------
(* The refinement of module AbsQueue                                       *)

\* The abstract state: what each queue may hold, and the messages it holds.
Caps == [q \in Queue |-> que[q].len]
Fifos == [q \in Queue |-> Messages(q)]

\* The messages are the content of the ring, a sequence as long as there are
\* messages; an empty ring has the empty sequence.
LEMMA MessagesAre ==
  ASSUME NEW q \in Queue
  PROVE  /\ Messages(q) = Content(que[q], Stored(q))
         /\ RingOK(que[q], Stored(q)) => Len(Messages(q)) = Stored(q) /\ (Stored(q) = 0 => Messages(q) = <<>>)
<1>1. Messages(q) = Content(que[q], Stored(q))
  BY DEF Messages, Content
<1>2. ASSUME RingOK(que[q], Stored(q))
      PROVE  Content(que[q], Stored(q)) \in Seq(Slot) /\ Len(Content(que[q], Stored(q))) = Stored(q)
  BY <1>2, ContentSeq
<1>3. \A s \in Seq(Slot) : Len(s) = 0 => s = <<>>
  OBVIOUS
<1> QED BY <1>1, <1>2, <1>3

\* The step changes the messages of q only.
OthersQueues(q) == \A p \in Queue \ {q} : que'[p] = que[p]

\* The other abstract queues stay as they are.
LEMMA AbsQueues ==
  ASSUME NEW q \in Queue, OthersQueues(q)
  PROVE  /\ Caps' = [Caps EXCEPT ![q] = que'[q].len] /\ Fifos' = [Fifos EXCEPT ![q] = Messages(q)']
         /\ Caps[q] = que[q].len /\ Fifos[q] = Messages(q) /\ Caps'[q] = que'[q].len
<1>1. \A p \in Queue \ {q} : Messages(p)' = Messages(p)
  BY DEF OthersQueues, Messages, Stored
<1> QED BY <1>1 DEF OthersQueues, Caps, Fifos

\* An operation is one step of the abstract queue: a read takes the first
\* message, a write adds one at the end or at the front.
LEMMA CarriesAbs ==
  ASSUME QueueInv, NEW q \in Queue, NEW op \in Op, NEW m \in Slot, Carries(q, op, m)
  PROVE  Promised(q, op, m) /\ (op # "read" => m \in Msg)
<1>1. /\ OthersQueues(q) /\ que'[q].len = que[q].len /\ Possible(que[q], Stored(q), op, m)
      /\ Passed(op, m, Content(que[q], Stored(q)), Content(que'[q], Stored(q)'))
  BY DEF Carries, OthersQueues
<1>2. Messages(q) = Content(que[q], Stored(q)) /\ Len(Messages(q)) = Stored(q)
  BY MessagesAre, CountFacts
<1>3. Messages(q)' = Content(que'[q], Stored(q)')
  BY DEF Messages, Content
<1>4. Passed(op, m, Messages(q), Messages(q)')
  BY <1>1, <1>2, <1>3
<1>5. /\ Caps' = [Caps EXCEPT ![q] = que'[q].len] /\ Fifos' = [Fifos EXCEPT ![q] = Messages(q)']
      /\ Caps[q] = que[q].len /\ Fifos[q] = Messages(q)
  BY <1>1, AbsQueues
<1>6. Caps' = Caps
  BY <1>1, <1>5 DEF Caps
<1>7. CASE op = "read"
  <2>1. Fifos[q] # <<>> /\ Fifos' = [Fifos EXCEPT ![q] = Tail(Fifos[q])]
    BY <1>4, <1>5, <1>7 DEF Passed
  <2>2. Abs!Take(q)
    BY <1>6, <2>1 DEF Abs!Take, Caps, Fifos
  <2> QED BY <1>7, <2>2 DEF Promised
<1>8. CASE op # "read"
  <2>1. m \in Msg /\ Len(Fifos[q]) < Caps[q] /\ (op = "writetail" \/ op = "writehead")
    BY <1>1, <1>2, <1>5, <1>8 DEF Possible, Op
  <2>2. CASE op = "writetail"
    <3>1. Fifos' = [Fifos EXCEPT ![q] = Append(Fifos[q], m)]
      BY <1>4, <1>5, <2>2 DEF Passed
    <3>2. Abs!PutTail(q, m)
      BY <1>6, <2>1, <3>1 DEF Abs!PutTail, Caps, Fifos
    <3> QED BY <2>1, <2>2, <3>2 DEF Promised
  <2>3. CASE op = "writehead"
    <3>1. Fifos' = [Fifos EXCEPT ![q] = <<m>> \o Fifos[q]]
      BY <1>4, <1>5, <2>3 DEF Passed
    <3>2. Abs!PutHead(q, m)
      BY <1>6, <2>1, <3>1 DEF Abs!PutHead, Caps, Fifos
    <3> QED BY <2>1, <2>3, <3>2 DEF Promised
  <2> QED BY <2>1, <2>2, <2>3
<1> QED BY <1>7, <1>8

\* The operations in the terms of the abstract queue.
LEMMA PromisedStep ==
  ASSUME NEW q \in Queue, NEW op \in Op, NEW m \in Slot, Promised(q, op, m), op # "read" => m \in Msg
  PROVE  Abs!AbsNext
<1>1. CASE op = "read"
  BY <1>1 DEF Promised, Abs!AbsNext
<1>2. CASE op = "writetail"
  BY <1>2 DEF Promised, Abs!AbsNext
<1>3. CASE op = "writehead"
  BY <1>3 DEF Promised, Abs!AbsNext
<1> QED BY <1>1, <1>2, <1>3 DEF Op

\* A call that succeeds does what it promises.
LEMMA SucceedsCarries ==
  ASSUME QueueInv, Unnested, NEW c \in Caller, NEW q \in Queue, NEW op \in Op, NEW m \in Slot,
         Succeeds(c, q, op, m)
  PROVE  Carries(q, op, m)
<1>1. CASE QueueOperate(c, q, op, m)
  <2>1. (op = "read") <=> (m = NoMsg)
    BY DEF Succeeds
  <2> QED BY <1>1, <2>1, OperateInv
<1>2. CASE /\ c \in UserTask /\ QueueReturn(c) /\ "TIMEOUT" \notin k.status[c]
           /\ arg[c] = [q |-> q, op |-> op, msg |-> m]
  <2>1. c \in UserTask
    BY <1>2
  <2>2. PICK p \in Queue, o \in Op, n \in Slot :
          p = arg[c].q /\ o = arg[c].op /\ n = arg[c].msg /\ Carries(p, o, n)
    BY <1>2, <2>1, ServedInv
  <2>3. p = q /\ o = op /\ n = m
    BY <1>2, <2>2
  <2> QED BY <2>2, <2>3
<1> QED BY <1>1, <1>2 DEF Succeeds

\* A new queue is empty, as the one that did not exist was.
LEMMA CreateEmpty ==
  ASSUME QueueInv, NEW q \in Queue, NEW n \in QueueLens, NEW c, LOS_QueueCreate(c, q, n),
         RingOK(que'[q], 0), que'[q].len = n
  PROVE  Messages(q)' = Messages(q) /\ Abs!Create(q)
<1>1. que[q].len = 0 /\ OthersQueues(q)
  BY DEF LOS_QueueCreate, InUse, OthersQueues, QueueInv, QueueTypeOK
<1>2. Stored(q) = 0 /\ RingOK(que[q], Stored(q))
  BY <1>1, CountFacts
<1>3. Stored(q)' = 0
  <2>1. Stored(q)' = Cardinality(Filled(que'[q]))
    BY DEF Stored, Filled
  <2> QED BY <2>1, FilledCard
<1>4. Messages(q) = <<>> /\ Messages(q)' = <<>>
  <2>1. Messages(q)' = Content(que'[q], Stored(q)')
    BY DEF Messages, Content
  <2>2. Content(que'[q], 0) \in Seq(Slot) /\ Len(Content(que'[q], 0)) = 0
    BY ContentSeq
  <2> QED BY <1>2, <1>3, <2>1, <2>2, MessagesAre
<1>5. /\ Caps' = [Caps EXCEPT ![q] = que'[q].len] /\ Fifos' = [Fifos EXCEPT ![q] = Messages(q)']
      /\ Caps[q] = que[q].len /\ Fifos[q] = Messages(q) /\ Caps'[q] = que'[q].len
  BY <1>1, AbsQueues
<1>6. Fifos' = Fifos
  BY <1>4, <1>5 DEF Fifos
<1>7. n > 0
  BY QueueFacts
<1>8. Caps[q] = 0 /\ Caps'[q] > 0 /\ Caps' = [Caps EXCEPT ![q] = Caps'[q]]
  BY <1>1, <1>5, <1>7
<1>9. Abs!Create(q)
  BY <1>6, <1>8 DEF Abs!Create, Caps, Fifos
<1> QED BY <1>4, <1>9

\* A queue that is deleted takes its messages with it.
LEMMA DeleteAbs ==
  ASSUME QueueInv, NEW q \in Queue, NEW c, LOS_QueueDelete(c, q)
  PROVE  Abs!Delete(q)
<1>1. que'[q] = Unused /\ OthersQueues(q)
  BY DEF LOS_QueueDelete, OthersQueues, QueueInv, QueueTypeOK
<1>2. RingOK(Unused, 0) /\ Unused.len = 0
  BY UnusedOK
<1>3. Stored(q)' = 0
  <2>1. Stored(q)' = Cardinality(Filled(que'[q]))
    BY DEF Stored, Filled
  <2> QED BY <1>1, <1>2, <2>1, FilledCard
<1>4. Messages(q)' = <<>>
  <2>1. Messages(q)' = Content(Unused, 0)
    BY <1>1, <1>3 DEF Messages, Content
  <2>2. Content(Unused, 0) \in Seq(Slot) /\ Len(Content(Unused, 0)) = 0
    BY <1>2, ContentSeq
  <2> QED BY <2>1, <2>2
<1>5. Caps' = [Caps EXCEPT ![q] = 0] /\ Fifos' = [Fifos EXCEPT ![q] = <<>>]
  BY <1>1, <1>2, <1>4, AbsQueues
<1> QED BY <1>5 DEF Abs!Delete, Caps, Fifos

\* Every queue is a bounded sequence of messages: an operation that reports
\* LOS_OK, at once or after a wait, has put its message at the end it was called
\* for, or taken the first one, in that step, and no other step puts or takes
\* one.  The ring buffer, the wait lists and the reservations implement module
\* AbsQueue.
THEOREM QueueRefinement ==
  ASSUME Unnested, NoIsrSuspend, AllocUnlocked
  PROVE  QueueSpec => BoundedFifo
<1>1. QueueInit => Abs!AbsInit
  <2> SUFFICES ASSUME QueueInit PROVE Abs!AbsInit
    OBVIOUS
  <2>1. ASSUME NEW q \in Queue
        PROVE  que[q].len = 0 /\ Messages(q) = <<>>
    <3>1. QueueInv /\ que[q] = Unused
      BY QueueInitInv DEF QueueInit
    <3>2. que[q].len = 0 /\ Stored(q) = 0 /\ RingOK(que[q], Stored(q))
      BY <3>1, CountFacts, UnusedOK
    <3> QED BY <3>2, MessagesAre
  <2>2. Caps = [q \in Queue |-> 0] /\ Fifos = [q \in Queue |-> <<>>]
    BY <2>1 DEF Caps, Fifos
  <2> QED BY <2>2 DEF Abs!AbsInit, Caps, Fifos
<1>2. QueueInv /\ [QueueNext]_allVars => [Abs!AbsNext]_(Abs!absVars)
  <2> SUFFICES ASSUME QueueInv, [QueueNext]_allVars
               PROVE  Abs!AbsNext \/ UNCHANGED Abs!absVars
    OBVIOUS
  <2>1. QueueEffect
    BY QueueNextInv
  <2>2. CASE que' = que
    BY <2>2 DEF Abs!absVars, Messages, Stored
  <2>3. ASSUME NEW q \in Queue, NEW n \in QueueLens, NEW c, LOS_QueueCreate(c, q, n),
               RingOK(que'[q], 0), que'[q].len = n
        PROVE  Abs!AbsNext
    BY <2>3, CreateEmpty DEF Abs!AbsNext
  <2>4. ASSUME NEW q \in Queue, NEW c, LOS_QueueDelete(c, q)
        PROVE  Abs!AbsNext
    BY <2>4, DeleteAbs DEF Abs!AbsNext
  <2>5. ASSUME NEW q \in Queue, NEW op \in Op, NEW m \in Slot, Carries(q, op, m)
        PROVE  Abs!AbsNext
    BY <2>5, CarriesAbs, PromisedStep
  <2> QED BY <2>1, <2>2, <2>3, <2>4, <2>5 DEF QueueEffect
<1>3. QueueInv /\ [QueueNext]_allVars =>
        \A q \in Queue :
          /\ \A c \in Caller, op \in Op, m \in Msg \cup {NoMsg} :
               Succeeds(c, q, op, m) => Promised(q, op, m)
          /\ Messages(q)' # Messages(q) /\ InUse(q)' =>
               \E c \in Caller, op \in Op, m \in Msg \cup {NoMsg} : Succeeds(c, q, op, m)
  <2> SUFFICES ASSUME QueueInv, [QueueNext]_allVars, NEW q \in Queue
               PROVE  /\ \A c \in Caller, op \in Op, m \in Slot :
                           Succeeds(c, q, op, m) => Promised(q, op, m)
                      /\ Messages(q)' # Messages(q) /\ InUse(q)' =>
                           \E c \in Caller, op \in Op, m \in Slot : Succeeds(c, q, op, m)
    BY DEF Slot
  <2>1. ASSUME NEW c \in Caller, NEW op \in Op, NEW m \in Slot, Succeeds(c, q, op, m)
        PROVE  Promised(q, op, m)
    BY <2>1, SucceedsCarries, CarriesAbs
  <2>2. ASSUME Messages(q)' # Messages(q), InUse(q)'
        PROVE  \E c \in Caller, op \in Op, m \in Slot : Succeeds(c, q, op, m)
    <3>1. que'[q] # que[q]
      BY <2>2 DEF Messages, Stored
    <3>2. QueueEffect
      BY QueueNextInv
    <3>3. ASSUME NEW p \in Queue, NEW n \in QueueLens, NEW c, LOS_QueueCreate(c, p, n),
                 RingOK(que'[p], 0), que'[p].len = n
          PROVE  FALSE
      <4>1. p = q
        BY <3>1, <3>3 DEF LOS_QueueCreate, QueueInv, QueueTypeOK
      <4>2. Messages(p)' = Messages(p)
        BY <3>3, CreateEmpty
      <4> QED BY <2>2, <4>1, <4>2
    <3>4. ASSUME NEW p \in Queue, NEW c, LOS_QueueDelete(c, p)
          PROVE  FALSE
      <4>1. que' = [que EXCEPT ![p] = Unused]
        BY <3>4 DEF LOS_QueueDelete
      <4>2. que'[q] = Unused
        BY <3>1, <4>1 DEF QueueInv, QueueTypeOK
      <4> QED BY <2>2, <4>2, UnusedOK DEF InUse
    <3>5. ASSUME NEW p \in Queue, NEW op \in Op, NEW m \in Slot, Carries(p, op, m),
                 NEW c \in Caller, Succeeds(c, p, op, m)
          PROVE  \E d \in Caller, o \in Op, n \in Slot : Succeeds(d, q, o, n)
      <4>1. p = q
        BY <3>1, <3>5 DEF Carries
      <4> QED BY <3>5, <4>1
    <3> QED BY <3>1, <3>2, <3>3, <3>4, <3>5 DEF QueueEffect
  <2> QED BY <2>1, <2>2
<1> QED BY <1>1, <1>2, <1>3, QueueInvariance, PTL DEF QueueSpec, BoundedFifo, Abs!AbsSpec
=============================================================================
