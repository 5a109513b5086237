----------------------------- MODULE LosPriqueue -----------------------------
(***************************************************************************)
(* The ready queues of the Huawei LiteOS kernel                            *)
(* (kernel/base/core/los_priqueue.c) and the intrusive lists they are      *)
(* built from (kernel/include/los_list.h).                                 *)
(*                                                                         *)
(* A task control block has one list node, stPendList, for the ready       *)
(* queues, the wait lists of the IPC objects, the free list and the        *)
(* recycle list, and a second one, stTimerList, for the timer wheel.       *)
(* LOS_ListDelete clears both pointers of the node, so unlinking a node    *)
(* that is on no list dereferences NULL: the field fault of the kernel     *)
(* record k remembers that this has happened.                              *)
(*                                                                         *)
(* The operators map a kernel record k to the record the C function leaves *)
(* behind; the modules that use them compose them in the order in which    *)
(* the C code makes the calls.                                             *)
(***************************************************************************)
EXTENDS Naturals, SequencesExt

CONSTANTS
  TSK_LIMIT,   \* LOSCFG_BASE_CORE_TSK_LIMIT: the user tasks; task 0 is idle
  LOWEST,      \* OS_TASK_PRIORITY_LOWEST: the idle task's priority
  PendObj      \* the wait lists of the IPC objects

ASSUME LimitAssumption == TSK_LIMIT \in Nat \ {0} /\ LOWEST \in Nat \ {0}

TaskID == 0 .. TSK_LIMIT
Idle == 0
UserTask == TaskID \ {Idle}
Prio == 0 .. LOWEST

IsOn(list, t) == Contains(list, t)
Without(list, t) == RemoveFirst(list, t)

\* t's stPendList node is linked into some list.
PendNodeLinked(k, t) ==
  \/ \E p \in Prio : IsOn(k.queue[p], t)
  \/ \E o \in PendObj : IsOn(k.pend[o], t)

\* LOS_ListDelete(&t->stPendList): off whichever list the node is on.
ListDelete(k, t) ==
  IF PendNodeLinked(k, t)
  THEN [k EXCEPT !.queue = [p \in Prio |-> Without(k.queue[p], t)],
                 !.pend = [o \in PendObj |-> Without(k.pend[o], t)]]
  ELSE [k EXCEPT !.fault = TRUE]

osPriqueueEnqueue(k, t) ==
  LET p == k.prio[t] IN
  [k EXCEPT !.bitmap = IF k.queue[p] = <<>> THEN @ \cup {p} ELSE @,
            !.queue[p] = Append(@, t)]

osPriqueueDequeue(k, t) ==
  LET unlinked == ListDelete(k, t) p == k.prio[t] IN
  [unlinked EXCEPT !.bitmap = IF unlinked.queue[p] = <<>> THEN @ \ {p} ELSE @]

\* CLZ finds the most significant bit, which stands for the lowest number.
osPriqueueTop(k) == Head(k.queue[Min(k.bitmap)])

osPriqueueSize(k, p) == Len(k.queue[p])
=============================================================================
