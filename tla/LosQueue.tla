------------------------------- MODULE LosQueue -------------------------------
(***************************************************************************)
(* Message queues (kernel/base/ipc/los_queue.c), used by tasks and         *)
(* interrupt handlers together with the task calls of module LosTask.      *)
(*                                                                         *)
(* A queue counts the messages a reader may take and the slots a writer    *)
(* may fill.  A call that finds its count at zero waits; whoever makes     *)
(* room wakes it and leaves the count alone, so a woken task has a message *)
(* or a slot reserved for it, which it uses when it runs again.            *)
(*                                                                         *)
(* A slot that has been read holds NoMsg in the model; the code leaves the *)
(* bytes of the old message there.                                         *)
(*                                                                         *)
(* A queue may have a pool of mail blocks (a membox): a task that finds    *)
(* the pool empty waits on the queue's third list, and the block that is   *)
(* freed next is left for it in its control block (puwMsg).                *)
(***************************************************************************)
EXTENDS LosTask, LosMembox

CONSTANTS
  Queue,
  Msg, NoMsg,
  Block,          \* the mail blocks of each queue
  QueueLens,      \* arguments usLen of LOS_QueueCreate that are tried
  Timeouts,       \* arguments uwTimeout that are tried, LOS_NO_WAIT apart
  QueueCalls,     \* the queue calls the application makes from tasks
  IsrQueueCalls   \* and from interrupt handlers

Side == {"reader", "writer"}

\* The wait lists: stReadWriteList and stMemList of each queue.
ASSUME QueueAssumption ==
  /\ PendObj = Queue \X (Side \cup {"mem"}) /\ NoTask \notin PendObj \cup Queue
  /\ NoMsg \notin Msg \cup Block /\ IsFiniteSet(Block) /\ QueueLens \subseteq Nat \ {0}
  /\ Timeouts \subseteq (Nat \ {0}) \cup {WAIT_FOREVER}

Other(side) == IF side = "reader" THEN "writer" ELSE "reader"

Op == {"read", "writetail", "writehead"}   \* of osQueueOperate
ListOf(op) == CASE op = "read" -> "reader" [] op = "alloc" -> "mem" [] OTHER -> "writer"

VARIABLES
  que,   \* usQueueState, usQueueLen, pucQueue, usQueueHead, usQueueTail and
         \* usReadWriteableCnt of each queue
  arg,   \* the call a task waits in: the queue, the operation, the message
  pool,  \* the membox of each queue's mail blocks
  given, \* puwMsg of each task
  mail,  \* the blocks of each queue that the application has
  lost   \* history: a task was deleted after it was woken by the queue and
         \* before it used what was reserved for it

mailVars == <<pool, given, mail>>
allVars == <<vars, que, arg, mailVars, lost>>

NoArg == [q |-> NoTask, op |-> "read", msg |-> NoMsg]
Unused == [len |-> 0, buf |-> <<>>, head |-> 0, tail |-> 0,
           count |-> [side \in Side |-> 0]]
InUse(q) == que[q].len # 0

QueueInit ==
  /\ Init
  /\ que = [q \in Queue |-> Unused]
  /\ arg = [t \in TaskID |-> NoArg]
  /\ pool = [q \in Queue |-> LOS_MemboxInit(Block)] /\ mail = [q \in Queue |-> {}]
  /\ given = [t \in TaskID |-> NoMsg]
  /\ lost = [q \in Queue |-> FALSE]

MayQueue(c, name) ==
  \/ c \in UserTask /\ InApp(c) /\ name \in QueueCalls
  \/ c = Isr /\ IsrRuns /\ name \in IsrQueueCalls

LOS_QueueCreate(c, q, n) ==
  /\ MayQueue(c, "create") \/ (c = Boot /\ BootRuns)
  /\ ~InUse(q)
  /\ que' = [que EXCEPT ![q] =
       [len |-> n, buf |-> [i \in 0 .. n - 1 |-> NoMsg], head |-> 0, tail |-> 0,
        count |-> [side \in Side |-> IF side = "reader" THEN 0 ELSE n]]]
  /\ lost' = [lost EXCEPT ![q] = FALSE]
  /\ UNCHANGED <<vars, arg, mailVars>>

\* Mutant: the counts are not looked at.
QueueDeleteBusy(c, q) ==
  /\ MayQueue(c, "delete") /\ InUse(q)
  /\ \A list \in Side \cup {"mem"} : k.pend[<<q, list>>] = <<>>
  /\ que' = [que EXCEPT ![q] = Unused]
  /\ UNCHANGED <<vars, arg, mailVars, lost>>

LOS_QueueDelete(c, q) ==
  /\ MayQueue(c, "delete") /\ InUse(q)
  /\ \A list \in Side \cup {"mem"} : k.pend[<<q, list>>] = <<>>
  /\ que[q].count["reader"] + que[q].count["writer"] = que[q].len
  /\ que' = [que EXCEPT ![q] = Unused]
  /\ UNCHANGED <<vars, arg, mailVars, lost>>

\* The buffer is a ring.
After(r, i) == IF i + 1 = r.len THEN 0 ELSE i + 1
Before(r, i) == IF i = 0 THEN r.len - 1 ELSE i - 1

\* Mutant: every message is written at the head.
WriteAtHead(r, op, m) ==
  IF op = "read" THEN [r EXCEPT !.buf[r.head] = NoMsg, !.head = After(r, @)]
  ELSE [r EXCEPT !.head = Before(r, @), !.buf[Before(r, r.head)] = m]

osQueueBufferOperate(r, op, m) ==
  CASE op = "read" -> [r EXCEPT !.buf[r.head] = NoMsg, !.head = After(r, @)]
    [] op = "writehead" -> [r EXCEPT !.head = Before(r, @), !.buf[Before(r, r.head)] = m]
    [] op = "writetail" -> [r EXCEPT !.buf[r.tail] = m, !.tail = After(r, @)]

\* Mutant: what is handed to a waiter is counted as well.
CompleteTwice(c, q, r, op, m) ==
  LET list == <<q, Other(ListOf(op))>>
      done == osQueueBufferOperate(r, op, m)
  IN /\ que' = [que EXCEPT ![q] = [done EXCEPT !.count[Other(ListOf(op))] = @ + 1]]
     /\ IF k.pend[list] # <<>>
        THEN /\ k' = osTaskWake(k, Head(k.pend[list]), "PEND_QUEUE")
             /\ Then_LOS_Schedule(c)
        ELSE /\ k' = k /\ pc' = (IF c = Isr THEN pc ELSE [pc EXCEPT ![c] = "app"])
             /\ UNCHANGED <<newTask, pendSV>>

\* Mutant: nobody is woken.
CompleteSilently(c, q, r, op, m) ==
  /\ que' = [que EXCEPT ![q] = [osQueueBufferOperate(r, op, m)
               EXCEPT !.count[Other(ListOf(op))] = @ + 1]]
  /\ k' = k /\ pc' = (IF c = Isr THEN pc ELSE [pc EXCEPT ![c] = "app"])
  /\ UNCHANGED <<newTask, pendSV>>

\* The second half of osQueueOperate: r is the queue's control block, less what
\* the caller has taken from its count.
Complete(c, q, r, op, m) ==
  LET list == <<q, Other(ListOf(op))>>
      done == osQueueBufferOperate(r, op, m)
  IN IF k.pend[list] # <<>>
     THEN /\ que' = [que EXCEPT ![q] = done]
          /\ k' = osTaskWake(k, Head(k.pend[list]), "PEND_QUEUE")
          /\ Then_LOS_Schedule(c)
     ELSE /\ que' = [que EXCEPT ![q] = [done EXCEPT !.count[Other(ListOf(op))] = @ + 1]]
          /\ k' = k
          /\ pc' = IF c = Isr THEN pc ELSE [pc EXCEPT ![c] = "app"]
          /\ UNCHANGED <<newTask, pendSV>>

\* osQueueOperate, when the operation is possible at once.
QueueOperate(c, q, op, m) ==
  /\ MayQueue(c, op) /\ InUse(q) /\ que[q].count[ListOf(op)] > 0
  /\ Complete(c, q, [que[q] EXCEPT !.count[ListOf(op)] = @ - 1], op, m)
  /\ UNCHANGED <<runTask, taskLock, scheduled, making, slice, scan, arg, mailVars, lost>>

\* osQueueOperate, when the queue is empty or full: only a task may wait, and
\* only while the scheduler is unlocked.
QueueWait(c, q, op, m, timeout) ==
  /\ c # Isr /\ MayQueue(c, op) /\ InUse(q) /\ que[q].count[ListOf(op)] = 0
  /\ taskLock = 0
  /\ k' = osTaskWait(k, c, <<q, ListOf(op)>>, "PEND_QUEUE", timeout)
  /\ pc' = [pc EXCEPT ![c] = "wait"]
  /\ arg' = [arg EXCEPT ![c] = [q |-> q, op |-> op, msg |-> m]]
  /\ UNCHANGED <<sched, slice, scan, que, mailVars, lost>>

\* osQueueOperate, after its LOS_Schedule returns.
QueueReturn(c) ==
  /\ TaskRuns(c) /\ pc[c] = "check" /\ arg[c].op # "alloc"
  /\ arg' = [arg EXCEPT ![c] = NoArg]
  /\ IF "TIMEOUT" \in k.status[c]
     THEN /\ k' = SetFlags(k, c, {"TIMEOUT"}, {})
          /\ pc' = [pc EXCEPT ![c] = "app"]
          /\ UNCHANGED <<newTask, pendSV, que>>
     ELSE Complete(c, arg[c].q, que[arg[c].q], arg[c].op, arg[c].msg)
  /\ UNCHANGED <<runTask, taskLock, scheduled, making, slice, scan, mailVars, lost>>

-----------------------------------------------------------------------------
(* Mail blocks                                                             *)

\* osQueueMailAlloc, when the membox has a block.
MailAlloc(c, q) ==
  /\ MayQueue(c, "alloc") /\ InUse(q) /\ HasFree(pool[q])
  /\ pool' = [pool EXCEPT ![q] = LOS_MemboxAlloc(@)]
  /\ mail' = [mail EXCEPT ![q] = @ \cup {NextBlock(pool[q])}]
  /\ UNCHANGED <<vars, que, arg, given, lost>>

\* osQueueMailAlloc, when it has none.  The scheduler may be locked.
MailWait(c, q, timeout) ==
  /\ c # Isr /\ MayQueue(c, "alloc") /\ InUse(q) /\ ~HasFree(pool[q])
  /\ k' = osTaskWait(k, c, <<q, "mem">>, "PEND_QUEUE", timeout)
  /\ pc' = [pc EXCEPT ![c] = "wait"]
  /\ arg' = [arg EXCEPT ![c] = [NoArg EXCEPT !.q = q, !.op = "alloc"]]
  /\ UNCHANGED <<sched, slice, scan, que, mailVars, lost>>

\* osQueueMailAlloc, after its LOS_Schedule returns.
MailReturn(c) ==
  /\ TaskRuns(c) /\ pc[c] = "check" /\ arg[c].op = "alloc"
  /\ pc' = [pc EXCEPT ![c] = "app"]
  /\ arg' = [arg EXCEPT ![c] = NoArg]
  /\ IF "TIMEOUT" \in k.status[c]
     THEN k' = SetFlags(k, c, {"TIMEOUT"}, {}) /\ UNCHANGED <<given, mail>>
     ELSE /\ k' = k
          /\ given' = [given EXCEPT ![c] = NoMsg]
          /\ mail' = [mail EXCEPT ![arg[c].q] = @ \cup ({given[c]} \ {NoMsg})]
  /\ UNCHANGED <<sched, slice, scan, que, pool, lost>>

\* Mutant: the block stays in the pool as well.
MailFreeTwice(c, q, b) ==
  /\ MayQueue(c, "free") /\ b \in mail[q]
  /\ mail' = [mail EXCEPT ![q] = @ \ {b}]
  /\ pool' = [pool EXCEPT ![q] = LOS_MemboxFree(@, b)]
  /\ IF InUse(q) /\ k.pend[<<q, "mem">>] # <<>>
     THEN /\ given' = [given EXCEPT ![Head(k.pend[<<q, "mem">>])] = b]
          /\ k' = osTaskWake(k, Head(k.pend[<<q, "mem">>]), "PEND_QUEUE")
          /\ Then_LOS_Schedule(c)
     ELSE UNCHANGED <<k, newTask, pendSV, pc, given>>
  /\ UNCHANGED <<runTask, taskLock, scheduled, making, slice, scan, que, arg, lost>>

\* osQueueMailFree: whoever has the block frees it.
MailFree(c, q, b) ==
  /\ MayQueue(c, "free") /\ b \in mail[q]
  /\ mail' = [mail EXCEPT ![q] = @ \ {b}]
  /\ LET box == LOS_MemboxFree(pool[q], b)
         waiters == k.pend[<<q, "mem">>]
     IN IF InUse(q) /\ waiters # <<>>
        THEN /\ given' = [given EXCEPT ![Head(waiters)] = NextBlock(box)]
             /\ pool' = [pool EXCEPT ![q] = LOS_MemboxAlloc(box)]
             /\ k' = osTaskWake(k, Head(waiters), "PEND_QUEUE")
             /\ Then_LOS_Schedule(c)
        ELSE /\ pool' = [pool EXCEPT ![q] = box]
             /\ UNCHANGED <<k, newTask, pendSV, pc, given>>
  /\ UNCHANGED <<runTask, taskLock, scheduled, making, slice, scan, que, arg, lost>>

-----------------------------------------------------------------------------
\* t was woken by the queue and has yet to use what is reserved for it.
Woken(t, q, list) ==
  /\ arg[t].q = q /\ ListOf(arg[t].op) = list
  /\ ~IsOn(k.pend[<<q, list>>], t) /\ "TIMEOUT" \notin k.status[t]

\* The task manager's steps; a deleted task is in no call any more.
TaskStep ==
  /\ Next
  /\ LET gone(t) == "UNUSED" \in k'.status[t] IN
     /\ arg' = [t \in TaskID |-> IF gone(t) THEN NoArg ELSE arg[t]]
     /\ lost' = [q \in Queue |->
                  lost[q] \/ \E t \in UserTask, side \in Side : gone(t) /\ Woken(t, q, side)]
     /\ given' = [t \in TaskID |-> IF gone(t) THEN NoMsg ELSE given[t]]
  /\ UNCHANGED <<que, pool, mail>>

QueueCall(c) ==
  \E q \in Queue :
    \/ \E n \in QueueLens : LOS_QueueCreate(c, q, n)
    \/ LOS_QueueDelete(c, q)
    \/ \E op \in Op, m \in Msg \cup {NoMsg} :
         /\ (op = "read") <=> (m = NoMsg)
         /\ \/ QueueOperate(c, q, op, m)
            \/ \E timeout \in Timeouts : QueueWait(c, q, op, m, timeout)
    \/ MailAlloc(c, q) \/ \E b \in Block : MailFree(c, q, b)
    \/ \E timeout \in Timeouts : MailWait(c, q, timeout)

QueueNext ==
  \/ TaskStep
  \/ \E c \in Caller \cup {Boot} : QueueCall(c)
  \/ \E c \in UserTask : QueueReturn(c) \/ MailReturn(c)

QueueSpec == QueueInit /\ [][QueueNext]_allVars

-----------------------------------------------------------------------------
(* Properties                                                              *)

Stored(q) == Cardinality({i \in DOMAIN que[q].buf : que[q].buf[i] # NoMsg})
WokenTasks(q, side) == Cardinality({t \in UserTask : Woken(t, q, side)})

\* Every message that a call may still count on is in the buffer and every slot
\* is free: those that are counted and those reserved for woken tasks, whoever
\* reads and writes before these tasks run again, and if some never do.
ReservationsHold ==
  \A q \in Queue :
    /\ que[q].count["reader"] + WokenTasks(q, "reader") <= Stored(q)
    /\ que[q].count["writer"] + WokenTasks(q, "writer") <= que[q].len - Stored(q)

\* No task waits in vain: while readers wait, every message in the buffer is
\* reserved for another reader that was woken, and while writers wait every
\* free slot is, unless a task was deleted before it used its reservation.
NobodyForgotten ==
  \A q \in Queue : ~lost[q] =>
    /\ k.pend[<<q, "reader">>] # <<>> => Stored(q) = WokenTasks(q, "reader")
    /\ k.pend[<<q, "writer">>] # <<>> => que[q].len - Stored(q) = WokenTasks(q, "writer")

\* A queue is not deleted while a task is blocked on it or, having been woken,
\* is about to read or write it.
DeletedIdle ==
  \A t \in UserTask, q \in Queue :
    \/ \E list \in Side \cup {"mem"} : IsOn(k.pend[<<q, list>>], t)
    \/ \E side \in Side : Woken(t, q, side)
    => InUse(q)

\* A mail block has one owner: the pool, whose free list and count agree, the
\* application, or the task for which it was left; and while a task waits for a
\* block none is free.
OneOwner ==
  /\ \A q \in Queue :
       /\ MemboxExact(pool[q]) /\ FreeBlocks(pool[q]) \cap mail[q] = {}
       /\ k.pend[<<q, "mem">>] # <<>> => ~HasFree(pool[q])
  /\ \A t \in TaskID : given[t] # NoMsg =>
       /\ arg[t].op = "alloc" /\ given[t] \notin FreeBlocks(pool[arg[t].q]) \cup mail[arg[t].q]
       /\ \A u \in TaskID \ {t} : arg[u].q = arg[t].q => given[u] # given[t]

\* A task that returns from its wait for a mail block either finds that its
\* time is over or was left a block, and not both.
MailGranted ==
  \A t \in UserTask :
    TaskRuns(t) /\ pc[t] = "check" /\ arg[t].op = "alloc" =>
      ("TIMEOUT" \in k.status[t] <=> given[t] = NoMsg)

\* Refinement: the messages from the head on are a bounded queue.
Messages(q) ==
  [i \in 1 .. Stored(q) |-> que[q].buf[(que[q].head + i - 1) % que[q].len]]

Abs == INSTANCE AbsQueue WITH
  cap <- [q \in Queue |-> que[q].len],
  fifo <- [q \in Queue |-> Messages(q)]

\* In this step c's call of op returns LOS_OK: at once, or after a wait.
Succeeds(c, q, op, m) ==
  /\ (op = "read") <=> (m = NoMsg)
  /\ \/ QueueOperate(c, q, op, m)
     \/ /\ c \in UserTask /\ QueueReturn(c) /\ "TIMEOUT" \notin k.status[c]
        /\ arg[c] = [q |-> q, op |-> op, msg |-> m]

\* What it has promised with that.
Promised(q, op, m) ==
  CASE op = "read" -> Abs!Take(q)
    [] op = "writetail" -> Abs!PutTail(q, m)
    [] op = "writehead" -> Abs!PutHead(q, m)

\* The queue is a bounded sequence of messages, in which a write to the tail that
\* returns LOS_OK has put its message last, a write to the head has put it first,
\* and a read has taken the first one, whether the call waited or not; and no
\* other step puts or takes a message, but the deletion of the queue.
BoundedFifo ==
  /\ Abs!AbsSpec
  /\ [][\A q \in Queue :
          /\ \A c \in Caller, op \in Op, m \in Msg \cup {NoMsg} :
               Succeeds(c, q, op, m) => Promised(q, op, m)
          /\ Messages(q)' # Messages(q) /\ InUse(q)' =>
               \E c \in Caller, op \in Op, m \in Msg \cup {NoMsg} : Succeeds(c, q, op, m)]_allVars
=============================================================================
