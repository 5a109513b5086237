------------------------------ MODULE LosSwtmr ------------------------------
(***************************************************************************)
(* Software timers (kernel/base/core/los_swtmr.c) without alignment, as    *)
(* los_config.h configures them.  The running timers form a list in the    *)
(* order of their expiry; each counts only the ticks by which it is later  *)
(* than the one before it, so that a tick has to count down the first one  *)
(* only.  An expired timer's callback goes to a queue from which the       *)
(* timer task (osSwTmrTask) takes and calls it.                            *)
(*                                                                         *)
(* The operators map a record w of the module's variables to the record a  *)
(* C function leaves behind.  A timer is named by its control block: what  *)
(* is left out of usTimerID is the count of self-deletions in its upper    *)
(* half, which makes the calls refuse an older name.  The mode and the     *)
(* interval of an unused block, and the count of one that is not running,  *)
(* are read by nobody, and reset here.                                     *)
(***************************************************************************)
EXTENDS LosDeltaList

CONSTANTS
  Swtmr,        \* the control blocks, LOSCFG_BASE_CORE_SWTMR_LIMIT of them
  Intervals,    \* the intervals that are tried
  QUEUE_SIZE,   \* OS_SWTMR_HANDLE_QUEUE_SIZE
  NEVER         \* 0xFFFFFFFF, greater than every interval

ASSUME SwtmrAssumption ==
  /\ IsFiniteSet(Swtmr) /\ Intervals \subseteq Nat \ {0} /\ QUEUE_SIZE \in Nat
  /\ NEVER \in Nat /\ NEVER > 1 /\ \A n \in Intervals : n < NEVER

Modes == {"ONCE", "PERIOD", "NO_SELFDELETE"}

\* osSwTmrInit: every control block is unused and on the free list.  Their
\* order in memory has no name here: any will do.
SwTmrInit(blocks) == [
  state    |-> [s \in Swtmr |-> "UNUSED"],    \* ucState
  mode     |-> [s \in Swtmr |-> "ONCE"],      \* ucMode
  interval |-> [s \in Swtmr |-> 0],           \* uwInterval
  count    |-> [s \in Swtmr |-> 0],           \* uwCount
  sort     |-> <<>>,                          \* m_pstSwtmrSortList
  free     |-> blocks,                        \* m_pstSwtmrFreeList
  queue    |-> <<>>]                          \* m_uwSwTmrHandlerQueue

\* osSwtmrTimeGet: the ticks until a running timer expires.
osSwtmrTimeGet(w, s) == TimeOf(w.sort, w.count, s)

\* osSwTmrStart: behind the timers that do not expire later; the next one is
\* told that it need not count the new one's ticks.
\* Mutant: it is not told.
SwTmrStartOnly(w, s) ==
  LET p == FirstLater(w.sort, w.count, w.interval[s])
  IN [w EXCEPT !.sort = Linked(@, s, p), !.state[s] = "TICKING",
               !.count[s] = w.interval[s] - Times(w.sort, w.count)[p - 1]]

osSwTmrStart(w, s) ==
  LET p == FirstLater(w.sort, w.count, w.interval[s])
  IN [w EXCEPT !.sort = Linked(@, s, p), !.state[s] = "TICKING",
               !.count = LinkedRel(w.sort, @, s, w.interval[s], p)]

\* osSwtmrStop: the next timer takes over the ticks.
osSwtmrStop(w, s) ==
  [w EXCEPT !.sort = RemoveFirst(@, s), !.state[s] = "CREATED",
            !.count = UnlinkedRel(w.sort, @, s)]

osSwtmrDelete(w, s) ==
  [w EXCEPT !.free = <<s>> \o @, !.state[s] = "UNUSED", !.mode[s] = "ONCE", !.interval[s] = 0,
            !.count[s] = 0]

\* One turn of osSwTmrTimeoutHandle: the timer leaves the list, its callback
\* is queued unless the queue is full, and its mode says what becomes of it.
Expire(w, s) ==
  LET v == [w EXCEPT !.sort = Tail(@), !.queue = IF Len(@) < QUEUE_SIZE THEN Append(@, s) ELSE @]
  IN CASE w.mode[s] = "ONCE" -> osSwtmrDelete(v, s)
       [] w.mode[s] = "PERIOD" -> osSwTmrStart(v, s)
       [] w.mode[s] = "NO_SELFDELETE" -> [v EXCEPT !.state[s] = "CREATED"]

\* The loop of osSwTmrTimeoutHandle, as far as n turns; it ends when the first
\* timer has ticks to go.
Turn(w) ==
  IF w.sort = <<>> \/ w.count[w.sort[1]] > 0 THEN w ELSE Expire(w, w.sort[1])

Turned(w, n) ==
  LET after[i \in 0 .. n] == IF i = 0 THEN w ELSE Turn(after[i - 1])
  IN after[n]

\* osSwtmrScan, called at each tick.  A timer that is started again has at least
\* one tick to go: there is at most one turn for each timer.
osSwtmrScan(w) ==
  IF w.sort = <<>> THEN w
  ELSE Turned([w EXCEPT !.count[w.sort[1]] = @ - 1], Len(w.sort))

osSwTmrGetNextTimeout(w) == IF w.sort = <<>> THEN NEVER ELSE w.count[w.sort[1]]

-----------------------------------------------------------------------------
(* The calls                                                               *)

LOS_SwtmrCreate(w, mode, n) ==
  LET s == w.free[1]
  IN [w EXCEPT !.free = Tail(@), !.mode[s] = mode, !.interval[s] = n,
               !.count[s] = 0, !.state[s] = "CREATED"]

LOS_SwtmrStart(w, s) ==
  IF w.state[s] = "TICKING" THEN osSwTmrStart(osSwtmrStop(w, s), s) ELSE osSwTmrStart(w, s)

\* Mutant: a running timer is not stopped first.
SwtmrDeleteRunning(w, s) == osSwtmrDelete(w, s)

LOS_SwtmrDelete(w, s) ==
  IF w.state[s] = "TICKING" THEN osSwtmrDelete(osSwtmrStop(w, s), s) ELSE osSwtmrDelete(w, s)

\* What any of these calls may do.  The others are refused and change nothing.
SwtmrCall(w, v) ==
  \/ w.free # <<>> /\ \E mode \in Modes, n \in Intervals : v = LOS_SwtmrCreate(w, mode, n)
  \/ \E s \in Swtmr :
       \/ w.state[s] # "UNUSED" /\ v = LOS_SwtmrStart(w, s)
       \/ w.state[s] = "TICKING" /\ v = osSwtmrStop(w, s)
       \/ w.state[s] # "UNUSED" /\ v = LOS_SwtmrDelete(w, s)

\* osSwTmrTask takes a callback from the queue and calls it.
osSwTmrTask(w, v) == w.queue # <<>> /\ v = [w EXCEPT !.queue = Tail(@)]

-----------------------------------------------------------------------------
(* Properties of the record and of its steps                               *)

\* A control block is on the one list its state names; counts are relative to
\* a list in the order of expiry, and nothing is due before the next tick.
SwtmrListsOK(w) ==
  /\ \A s \in Swtmr :
       /\ Contains(w.free, s) <=> w.state[s] = "UNUSED"
       /\ Contains(w.sort, s) <=> w.state[s] = "TICKING"
  /\ IsInjective(w.free) /\ IsInjective(w.sort) /\ Len(w.queue) <= QUEUE_SIZE
  /\ w.count \in [Swtmr -> Nat]
  /\ \A s \in ToSet(w.sort) : osSwtmrTimeGet(w, s) \in 1 .. w.interval[s]

TicksLeftOf(w, s) == IF w.state[s] = "TICKING" THEN osSwtmrTimeGet(w, s) ELSE NEVER

\* A tick brings every running timer one tick nearer to its expiry; those that
\* reach it run on only if they are periodic, for another interval, and their
\* callbacks are queued as far as there is room.
SwtmrTick(w, v) ==
  LET due == {s \in Swtmr : TicksLeftOf(w, s) = 1}
      new == SubSeq(v.queue, Len(w.queue) + 1, Len(v.queue))
  IN /\ \A s \in Swtmr \ due :
          TicksLeftOf(v, s) = IF w.state[s] = "TICKING" THEN TicksLeftOf(w, s) - 1 ELSE NEVER
     /\ \A s \in due :
          TicksLeftOf(v, s) = IF w.mode[s] = "PERIOD" THEN w.interval[s] ELSE NEVER
     /\ SubSeq(v.queue, 1, Len(w.queue)) = w.queue
     /\ ToSet(new) \subseteq due /\ IsInjective(new)
     /\ ToSet(new) # due => Len(v.queue) = QUEUE_SIZE

\* A call changes when its own timer expires, and that of no other.
OnlyOwn(w, v) ==
  \E s \in Swtmr : \A u \in Swtmr \ {s} : TicksLeftOf(v, u) = TicksLeftOf(w, u)
=============================================================================
