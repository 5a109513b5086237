------------------------------- MODULE LosEvent -------------------------------
(***************************************************************************)
(* Events (kernel/base/ipc/los_event.c), used by tasks and interrupt       *)
(* handlers together with the task calls of module LosTask.  An event      *)
(* control block belongs to the application: it is a set of bits and a     *)
(* wait list.                                                              *)
(*                                                                         *)
(* A write adds bits and wakes every reader that they satisfy, but the     *)
(* bits stay: a reader looks at them again when it runs, and by then       *)
(* another reader, a poll or LOS_EventClear may have taken them.           *)
(*                                                                         *)
(* LOS_EventRead and LOS_EventWrite check that the event is initialised    *)
(* before they lock the interrupts; LOS_EventDestory may come in between,  *)
(* and what then inserts into the list or walks it follows a NULL pointer. *)
(***************************************************************************)
EXTENDS LosTask

CONSTANTS
  Bit, ErrorBit, \* ErrorBit is LOS_ERRTYPE_ERROR, by which an error code is told
                 \* from the bits that a read returns
  Timeouts,      \* arguments uwTimeOut of LOS_EventRead that are tried
  EventCalls,    \* the event calls the application makes from tasks
  IsrEventCalls  \* and from interrupt handlers

ASSUME EventAssumption ==
  /\ ErrorBit \notin Bit /\ NoTask \notin PendObj
  /\ Timeouts \subseteq Nat \cup {WAIT_FOREVER}

Event == PendObj
Mask == ((SUBSET Bit) \ {{}}) \cup {Bit \cup {ErrorBit}}
MayUse(mask) == ErrorBit \notin mask
Mode == [any : BOOLEAN, clr : BOOLEAN]   \* LOS_WAITMODE_OR or _AND, and _CLR

\* The arguments of a call.
Read == [op : {"read"}, e : Event, mask : Mask, mode : Mode, timeout : Timeouts]
Write == [op : {"write"}, e : Event, mask : Mask]
NoArgs == [op |-> "none"]

VARIABLES
  args,    \* the call each task has entered: its arguments are checked, and
           \* the interrupts are not yet locked
  event,   \* whether stEventList is initialised, and uwEventID
  call,    \* the call of LOS_EventRead a task waits in: its event, uwEventMask
           \* and uwEventMode
  woken    \* history: "no", "yes" if a write has woken the task, "taken" if the
           \* bits it was woken for are no longer there

allVars == <<vars, args, event, call, woken>>

NoCall == [e |-> NoTask, mask |-> Bit, mode |-> [any |-> FALSE, clr |-> FALSE]]

EventInit ==
  /\ Init
  /\ args = [t \in TaskID |-> NoArgs]
  /\ event = [e \in Event |-> [ready |-> FALSE, bits |-> {}]]
  /\ call = [t \in TaskID |-> NoCall]
  /\ woken = [t \in TaskID |-> "no"]

MayEvent(c, name) ==
  \/ c \in UserTask /\ InApp(c) /\ name \in EventCalls
  \/ c = Isr /\ IsrRuns /\ name \in IsrEventCalls

\* LOS_EventPoll: what it returns, and the bits it leaves.
Found(bits, mask, mode) ==
  IF mode.any \/ mask \subseteq bits THEN bits \cap mask ELSE {}

Left(bits, mask, mode) ==
  IF mode.clr THEN bits \ Found(bits, mask, mode) ELSE bits

\* The bits of e are set to bits; the history remembers the woken readers that
\* they no longer satisfy.
Track(e, bits) ==
  [t \in TaskID |->
    IF /\ woken[t] = "yes" /\ call[t].e = e
       /\ Found(bits, call[t].mask, call[t].mode) = {}
    THEN "taken" ELSE woken[t]]

SetBits(e, bits) ==
  event' = [event EXCEPT ![e].bits = bits] /\ woken' = Track(e, bits)

\* The code looks at nothing; the application does not initialise a control
\* block again while readers wait.
LOS_EventInit(c, e) ==
  /\ MayEvent(c, "init") \/ (c = Boot /\ BootRuns)
  /\ k.pend[e] = <<>>
  /\ event' = [event EXCEPT ![e] = [ready |-> TRUE, bits |-> {}]]
  /\ woken' = Track(e, {})
  /\ UNCHANGED <<vars, args, call>>

\* A task that has checked e is about to use it.
InUse(e) == \E t \in TaskID : args[t].op # "none" /\ args[t].e = e

LOS_EventDestory(c, e) ==
  /\ MayEvent(c, "destroy") /\ event[e].ready /\ k.pend[e] = <<>>
  /\ InUse(e) => "destroy used" \in Misuse
  /\ event' = [event EXCEPT ![e].ready = FALSE]
  /\ UNCHANGED <<vars, args, call, woken>>

LOS_EventPoll(c, e, mask, mode) ==
  /\ MayEvent(c, "poll")
  /\ SetBits(e, Left(event[e].bits, mask, mode))
  /\ UNCHANGED <<vars, args, call>>

LOS_EventClear(c, e, keep) ==
  /\ MayEvent(c, "clear")
  /\ SetBits(e, event[e].bits \cap keep)
  /\ UNCHANGED <<vars, args, call>>

\* LOS_EventRead and LOS_EventWrite, called by a task: the checks before
\* LOS_IntLock.
EventEnter(c, a) ==
  /\ c \in UserTask /\ MayEvent(c, a.op) /\ event[a.e].ready /\ MayUse(a.mask)
  /\ args' = [args EXCEPT ![c] = a]
  /\ pc' = [pc EXCEPT ![c] = "enter"]
  /\ UNCHANGED <<k, sched, slice, scan, event, call, woken>>

\* It leaves the section it then enters for pc at.
Leave(c, at) ==
  /\ args' = [args EXCEPT ![c] = NoArgs]
  /\ pc' = [pc EXCEPT ![c] = at]

\* What the first LOS_EventPoll of a read returns.
FoundBy(a) == Found(event[a.e].bits, a.mask, a.mode)

\* LOS_EventRead, when the bits are there.
EventTake(c) ==
  LET a == args[c] IN
  /\ AtEntry(c) /\ a.op = "read" /\ FoundBy(a) # {}
  /\ SetBits(a.e, Left(event[a.e].bits, a.mask, a.mode))
  /\ Leave(c, "app")
  /\ UNCHANGED <<k, sched, slice, scan, call>>

\* LOS_EventRead, when they are not, of a caller that will not or cannot wait.
EventMiss(c) ==
  LET a == args[c] IN
  /\ AtEntry(c) /\ a.op = "read" /\ FoundBy(a) = {}
  /\ a.timeout = 0 \/ taskLock # 0
  /\ Leave(c, "app")
  /\ UNCHANGED <<k, sched, slice, scan, event, call, woken>>

Waits(c) ==
  /\ args[c].op = "read" /\ FoundBy(args[c]) = {}
  /\ args[c].timeout # 0 /\ taskLock = 0

\* LOS_EventRead, when the caller waits.
EventWait(c) ==
  LET a == args[c] IN
  /\ AtEntry(c) /\ Waits(c) /\ event[a.e].ready
  /\ k' = osTaskWait(k, c, a.e, "PEND", a.timeout)
  /\ call' = [call EXCEPT ![c] = [e |-> a.e, mask |-> a.mask, mode |-> a.mode]]
  /\ Leave(c, "wait")
  /\ UNCHANGED <<sched, slice, scan, event, woken>>

\* The list has been taken away since it was checked: a read that is to wait in
\* it, or a write (whose bits nobody sees any more), follows a NULL pointer.
EventFault(c) ==
  /\ AtEntry(c) /\ (args[c].op = "write" \/ Waits(c))
  /\ ~event[args[c].e].ready
  /\ k' = [k EXCEPT !.fault = TRUE]
  /\ UNCHANGED <<sched, slice, scan, pc, args, event, call, woken>>

\* LOS_EventRead, after its LOS_Schedule returns.
EventReturn(c) ==
  /\ TaskRuns(c) /\ pc[c] = "check"
  /\ pc' = [pc EXCEPT ![c] = "app"]
  /\ call' = [call EXCEPT ![c] = NoCall]
  /\ IF "TIMEOUT" \in k.status[c]
     THEN /\ k' = SetFlags(k, c, {"TIMEOUT"}, {})
          /\ woken' = [woken EXCEPT ![c] = "no"] /\ event' = event
     ELSE LET e == call[c].e
              left == Left(event[e].bits, call[c].mask, call[c].mode)
          IN /\ k' = k
             /\ event' = [event EXCEPT ![e].bits = left]
             /\ woken' = [Track(e, left) EXCEPT ![c] = "no"]
  /\ UNCHANGED <<sched, slice, scan, args>>

\* Mutants: an AND reader is woken by any of its bits; it is not woken by the
\* last of them.
SatisfiedByAny(t, new, bits) == call[t].mask \cap new # {}
SatisfiedByNew(t, new, bits) ==
  IF call[t].mode.any THEN call[t].mask \cap new # {} ELSE call[t].mask \subseteq new

Satisfied(t, new, bits) ==
  IF call[t].mode.any THEN call[t].mask \cap new # {} ELSE call[t].mask \subseteq bits

\* The readers of e that a write of new satisfies, bits being all that is set then.
Hits(e, new, bits) == {t \in TaskID : IsOn(k.pend[e], t) /\ Satisfied(t, new, bits)}

\* The loop of LOS_EventWrite over the wait list of e: the kernel after i readers,
\* and after all.
WakeReaders(e, new, bits) ==
  LET readers == k.pend[e]
      after[i \in 0 .. Len(readers)] ==
        IF i = 0 THEN k
        ELSE IF Satisfied(readers[i], new, bits)
        THEN osTaskWake(after[i - 1], readers[i], "PEND")
        ELSE after[i - 1]
  IN after[Len(readers)]

\* The section of LOS_EventWrite; an interrupt handler has made the checks in
\* the same breath.
LOS_EventWrite(c, e, new) ==
  /\ \/ c = Isr /\ MayEvent(c, "write") /\ MayUse(new)
     \/ c \in UserTask /\ AtEntry(c) /\ args[c] = [op |-> "write", e |-> e, mask |-> new]
  /\ event[e].ready
  /\ LET bits == event[e].bits \cup new
         hits == Hits(e, new, bits)
     IN /\ event' = [event EXCEPT ![e].bits = bits]
        /\ woken' = [t \in TaskID |-> IF t \in hits THEN "yes" ELSE woken[t]]
        /\ IF hits # {}
           THEN k' = WakeReaders(e, new, bits) /\ Then_LOS_Schedule(c)
           ELSE /\ pc' = IF c = Isr THEN pc ELSE [pc EXCEPT ![c] = "app"]
                /\ UNCHANGED <<k, newTask, pendSV>>
  /\ args' = IF c = Isr THEN args ELSE [args EXCEPT ![c] = NoArgs]
  /\ UNCHANGED <<call, runTask, taskLock, scheduled, making, slice, scan>>

\* The task manager's steps; a deleted task is in no call any more.
TaskStep ==
  /\ Next
  /\ LET gone(t) == "UNUSED" \in k'.status[t] IN
     /\ args' = [t \in TaskID |-> IF gone(t) THEN NoArgs ELSE args[t]]
     /\ call' = [t \in TaskID |-> IF gone(t) THEN NoCall ELSE call[t]]
     /\ woken' = [t \in TaskID |-> IF gone(t) THEN "no" ELSE woken[t]]
  /\ UNCHANGED event

EventCall(c) ==
  \E e \in Event :
    \/ LOS_EventInit(c, e) \/ LOS_EventDestory(c, e)
    \/ \E mask \in Mask :
         \/ LOS_EventClear(c, e, (Bit \cup {ErrorBit}) \ mask) \/ LOS_EventWrite(c, e, mask)
         \/ \E mode \in Mode : LOS_EventPoll(c, e, mask, mode)

EventNext ==
  \/ TaskStep
  \/ \E c \in Caller \cup {Boot} : EventCall(c)
  \/ \E c \in UserTask, a \in Read \cup Write : EventEnter(c, a)
  \/ \E c \in UserTask :
       \/ EventTake(c) \/ EventMiss(c) \/ EventWait(c) \/ EventFault(c) \/ EventReturn(c)

EventSpec == EventInit /\ [][EventNext]_allVars

-----------------------------------------------------------------------------
(* Properties                                                              *)

\* No reader sleeps beside the bits it waits for, whichever writes, reads and
\* clears have added and removed them one by one; and nobody waits on an event
\* that was destroyed, not even a reader that had checked it before.
NoSleepingMatch ==
  \A e \in Event, t \in TaskID :
    IsOn(k.pend[e], t) =>
      /\ event[e].ready /\ call[t].e = e /\ woken[t] = "no"
      /\ Found(event[e].bits, call[t].mask, call[t].mode) = {}

\* What a read that has waited is about to return is the truth: a timeout
\* exactly if no write has woken it, and otherwise its bits, unless they were
\* taken again before the task ran.  Nobody is woken for bits that do not
\* satisfy it.
ReadTold ==
  \A t \in UserTask :
    /\ TaskRuns(t) /\ pc[t] = "check" =>
         ("TIMEOUT" \in k.status[t] <=> woken[t] = "no")
    /\ woken[t] = "yes" =>
         Found(event[call[t].e].bits, call[t].mask, call[t].mode) # {}
=============================================================================
