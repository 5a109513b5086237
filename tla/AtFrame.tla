------------------------------- MODULE AtFrame -------------------------------
(***************************************************************************)
(* The command and answer rendezvous of the AT framework                   *)
(* (components/net/at_frame/at_main.c).  User tasks send a command at a    *)
(* time under trx_mux, put a listener on their stack into a list and wait  *)
(* for resp_sem; the receive task reads the modem's messages from a queue  *)
(* and posts resp_sem when one holds what the first listener waits for.  A *)
(* data indication makes the receive task send a command of its own, with  *)
(* a listener that has a callback and an expiry time, and hold trx_mux     *)
(* until either is through.                                                *)
(*                                                                         *)
(* The sections under cmd_mux are steps.  The receive task has the highest *)
(* priority and nothing makes it wait between two of its sections, so one  *)
(* message is one step.  Closing the framework down is left out.           *)
(***************************************************************************)
EXTENDS Naturals, Sequences, FiniteSets

CONSTANTS
  Users,        \* the tasks that send commands
  MAX_CMDS,     \* the bound on commands
  QUEUE_LEN,    \* the length of the receive queue
  SEM_MAX,      \* OS_SEM_COUNT_MAX
  MAX_CALLBACKS,\* the bound on the receive task's unanswered commands
  NoMemory      \* whether a callback's listener may find no memory

ASSUME AtAssumption ==
  /\ "recv" \notin Users /\ "none" \notin Users /\ NoMemory \in BOOLEAN
  /\ {MAX_CMDS, QUEUE_LEN, SEM_MAX, MAX_CALLBACKS} \subseteq Nat

VARIABLES
  pc,           \* where each user is, in which call, with which result
  at,           \* the framework: listeners, trx_mux, resp_sem, the data pending
  rid,          \* the queue of messages to the receive task
  owed,         \* what the modem still has to send for the commands it got
  cmds,         \* the commands so far, which are also their names
  own,          \* history: the commands whose own answer woke them
  astray        \* history: a wait timed out, or a message met a callback's
                \* listener it was not for

vars == <<pc, at, rid, owed, cmds, own, astray>>

\* "OK" and ">" answer a command, "data" that of a callback, "ind" and "urc" come
\* unasked; "sent" is AT_SENT_DONE.
Message(kind, id) == [kind |-> kind, id |-> id]

Idle == [at |-> "idle", write |-> FALSE, id |-> 0, ok |-> FALSE]
MuxFree == [owner |-> "none", count |-> 0, waiters |-> <<>>]

AtInit ==
  /\ pc = [u \in Users |-> Idle]
  /\ at = [list |-> <<>>, trx |-> MuxFree, sem |-> 0, dataInd |-> FALSE]
  /\ rid = <<>> /\ owed = {} /\ cmds = 0 /\ own = {} /\ astray = FALSE

\* A listener of a user waits for a suffix; one with a callback expires.
Listener(u, suffix, id) == [who |-> u, suffix |-> suffix, id |-> id, expired |-> FALSE]

\* The deletion looks at the first two listeners only.
at_listner_list_del(list, u) ==
  IF list # <<>> /\ Head(list).who = u THEN Tail(list)
  ELSE IF Len(list) > 1 /\ list[2].who = u THEN <<list[1]>> \o SubSeq(list, 3, Len(list))
  ELSE list

\* A user takes trx_mux or waits for it behind the others.
TrxPend(t, u) ==
  IF t.owner = "none" THEN [MuxFree EXCEPT !.owner = u, !.count = 1]
  ELSE [t EXCEPT !.waiters = Append(@, u)]

\* A post of trx_mux by its owner hands it to the first task that waits.
TrxPost(t, who) ==
  IF t.owner # who THEN t
  ELSE IF t.count > 1 THEN [t EXCEPT !.count = @ - 1]
  ELSE IF t.waiters = <<>> THEN MuxFree
  ELSE [owner |-> Head(t.waiters), count |-> 1, waiters |-> Tail(t.waiters)]

\* A message that finds the queue full is dropped.
Queued(q, m) == IF Len(q) < QUEUE_LEN THEN Append(q, m) ELSE q

Goto(u, where) == pc' = [pc EXCEPT ![u].at = where]

-----------------------------------------------------------------------------
(* at_cmd_multi_suffix, and at_write, which waits for a prompt first.      *)

Call(u, write) ==
  /\ pc[u].at = "idle" /\ cmds < MAX_CMDS /\ cmds' = cmds + 1
  /\ pc' = [pc EXCEPT ![u] = [at |-> "trx", write |-> write, id |-> cmds', ok |-> FALSE]]
  /\ at' = [at EXCEPT !.trx = TrxPend(@, u)]
  /\ UNCHANGED <<rid, owed, own, astray>>

\* A plausible slip: the command is sent without waiting for the mutex.
SendUnlocked(u) ==
  LET suffix == IF pc[u].write THEN ">" ELSE "OK"
  IN /\ pc[u].at = "trx"
     /\ at' = [at EXCEPT !.list = Append(@, Listener(u, suffix, pc[u].id))]
     /\ owed' = owed \cup {Message(suffix, pc[u].id)}
     /\ Goto(u, IF pc[u].write THEN "prompt" ELSE "wait")
     /\ UNCHANGED <<rid, cmds, own, astray>>

\* With trx_mux the listener goes on the list and the command to the modem.
Send(u) ==
  LET suffix == IF pc[u].write THEN ">" ELSE "OK"
  IN /\ pc[u].at = "trx" /\ at.trx.owner = u
     /\ at' = [at EXCEPT !.list = Append(@, Listener(u, suffix, pc[u].id))]
     /\ owed' = owed \cup {Message(suffix, pc[u].id)}
     /\ Goto(u, IF pc[u].write THEN "prompt" ELSE "wait")
     /\ UNCHANGED <<rid, cmds, own, astray>>

\* LOS_SemPend of resp_sem ends with a token or by its timeout; at_write ignores
\* how the first one ended.
Pended(u, ok) ==
  /\ pc[u].at \in {"prompt", "wait"}
  /\ pc' = [pc EXCEPT ![u].at = IF @ = "prompt" THEN "payload" ELSE "end", ![u].ok = ok]

Woken(u) ==
  /\ at.sem > 0 /\ at' = [at EXCEPT !.sem = @ - 1] /\ Pended(u, TRUE)
  /\ UNCHANGED <<rid, owed, cmds, own, astray>>

TimedOut(u) ==
  /\ at.sem = 0 /\ Pended(u, FALSE) /\ astray' = TRUE
  /\ UNCHANGED <<at, rid, owed, cmds, own>>

\* at_write puts its listener back for the answer and sends the payload.
Payload(u) ==
  /\ pc[u].at = "payload" /\ Goto(u, "wait")
  /\ at' = [at EXCEPT !.list =
              Append(at_listner_list_del(@, u), Listener(u, "OK", pc[u].id))]
  /\ owed' = owed \cup {Message("OK", pc[u].id)}
  /\ UNCHANGED <<rid, cmds, own, astray>>

End(u) ==
  /\ pc[u].at = "end" /\ pc' = [pc EXCEPT ![u] = Idle]
  /\ at' = [at EXCEPT !.list = at_listner_list_del(@, u), !.trx = TrxPost(@, u)]
  /\ rid' = Queued(rid, Message("sent", 0))
  /\ UNCHANGED <<owed, cmds, own, astray>>

-----------------------------------------------------------------------------
(* The receive task.                                                       *)

HasCallback(l) == l.who = "recv"

\* A plausible slip: the listener goes, the mutex stays.
RmNodeKeepsMux(s, i) ==
  [s EXCEPT !.list = SubSeq(@, 1, i - 1) \o SubSeq(@, i + 1, Len(@))]

at_rm_node(s, i) ==
  [s EXCEPT !.list = SubSeq(@, 1, i - 1) \o SubSeq(@, i + 1, Len(@)),
            !.trx = TrxPost(@, "recv")]

\* A plausible slip: a listener without an expiry time counts as expired.
RmTimeoutAll(s) == IF s.list = <<>> THEN s ELSE at_rm_node(s, 1)

\* Every expired callback is removed, and trx_mux posted for each.
at_rm_timeout_nodes(s) ==
  LET rm[i \in 0 .. Len(s.list)] ==
        IF i = 0 THEN s
        ELSE LET k == Len(s.list) + 1 - i IN
             IF HasCallback(s.list[k]) /\ s.list[k].expired
             THEN at_rm_node(rm[i - 1], k) ELSE rm[i - 1]
  IN rm[Len(s.list)]

\* The receive task takes trx_mux if it need not wait, and once more if it has
\* it; otherwise the indication is kept for the next message.
CanSend(s) == s.trx.owner \in {"none", "recv"}

at_cmd_in_callback(s, alloc) ==
  IF ~CanSend(s) THEN [s EXCEPT !.dataInd = TRUE]
  ELSE [s EXCEPT !.trx = [owner |-> "recv", count |-> @.count + 1, waiters |-> @.waiters],
                 !.list = IF alloc THEN Append(@, Listener("recv", "none", 0)) ELSE @,
                 !.dataInd = ~alloc]

\* Whether this message finds a callback's listener first that does not take it.
Misdirected(s, m) == s.list # <<>> /\ HasCallback(Head(s.list)) /\ m.kind # "data"

at_handle_resp(s, m) ==
  LET post == [s EXCEPT !.sem = IF @ < SEM_MAX THEN @ + 1 ELSE @]
  IN IF s.list = <<>> THEN s
     ELSE IF HasCallback(Head(s.list))
          THEN IF m.kind = "data" THEN at_rm_node(s, 1) ELSE post
     ELSE IF Head(s.list).suffix = m.kind THEN post ELSE s

at_recv_task ==
  /\ rid # <<>> /\ rid' = Tail(rid)
  /\ \E alloc \in (IF NoMemory THEN BOOLEAN ELSE {TRUE}) :
       LET m == Head(rid)
           s1 == at_rm_timeout_nodes(at)
           s2 == IF s1.dataInd THEN at_cmd_in_callback(s1, alloc) ELSE s1
           s3 == IF m.kind = "ind" THEN at_cmd_in_callback(s2, alloc) ELSE s2
           sent == (s1.dataInd /\ CanSend(s1)) \/ (m.kind = "ind" /\ CanSend(s2))
           mine == m.kind = "OK" /\ s3.list # <<>> /\ Head(s3.list).id = m.id
       IN /\ at' = IF m.kind = "sent" THEN s2 ELSE at_handle_resp(s3, m)
          /\ owed' = IF sent THEN owed \cup {Message("data", 0)} ELSE owed
          /\ own' = IF mine THEN own \cup {m.id} ELSE own
          /\ astray' = (astray \/ (m.kind # "sent" /\ Misdirected(s3, m)))
  /\ UNCHANGED <<pc, cmds>>

-----------------------------------------------------------------------------
(* The modem and the clock, outside the framework.                         *)

\* What is owed may come late or never, and is dropped by a full queue.
Answer ==
  /\ \E m \in owed : owed' = owed \ {m} /\ rid' = Queued(rid, m)
  /\ UNCHANGED <<pc, at, cmds, own, astray>>

\* Messages nobody asked for; an indication announces data.
Unsolicited ==
  /\ \E kind \in {"ind", "urc"} :
       /\ kind = "ind" => Len(SelectSeq(at.list, HasCallback)) < MAX_CALLBACKS
       /\ Len(rid) < QUEUE_LEN /\ rid' = Append(rid, Message(kind, 0))
  /\ UNCHANGED <<pc, at, owed, cmds, own, astray>>

Expire ==
  /\ \E i \in DOMAIN at.list :
       /\ HasCallback(at.list[i]) /\ ~at.list[i].expired
       /\ at' = [at EXCEPT !.list[i].expired = TRUE]
  /\ UNCHANGED <<pc, rid, owed, cmds, own, astray>>

UserStep(u) == Send(u) \/ Woken(u) \/ TimedOut(u) \/ Payload(u) \/ End(u)

AtNext ==
  \/ \E u \in Users : UserStep(u) \/ \E write \in BOOLEAN : Call(u, write)
  \/ at_recv_task \/ Answer \/ Unsolicited \/ Expire

\* The tasks run and time passes; the modem owes nothing.
AtSpec ==
  /\ AtInit /\ [][AtNext]_vars
  /\ \A u \in Users : WF_vars(UserStep(u))
  /\ WF_vars(at_recv_task) /\ WF_vars(Expire)

-----------------------------------------------------------------------------
(* What the rendezvous promises.                                           *)

\* A listener is on the list only while trx_mux protects it: that of a user is
\* there alone, between the sending of its command and the end of the call, so
\* that no listener outlives its stack frame and its deletion finds it; those
\* with a callback are as many as the times the receive task holds the mutex.
ListenersProtected ==
  LET waiting == {u \in Users : pc[u].at \in {"prompt", "wait", "payload", "end"}}
  IN IF waiting # {}
     THEN \E u \in waiting : /\ waiting = {u} /\ at.trx.owner = u
                             /\ Len(at.list) = 1 /\ Head(at.list).who = u
     ELSE /\ \A i \in DOMAIN at.list : HasCallback(at.list[i])
          /\ at.trx.owner = "recv" => at.trx.count = Len(at.list)
          /\ at.trx.owner # "recv" => at.list = <<>>

\* A command that ends with AT_OK was woken by its own answer, as long as no
\* token of resp_sem went astray before.
OwnAnswer ==
  \A u \in Users : pc[u].at = "end" /\ pc[u].ok /\ ~astray => pc[u].id \in own

\* A command ends, with or without an answer, as long as the modem keeps
\* sending messages and no longer indications: only a message makes the receive
\* task look for expired callbacks, and each indication lets it take trx_mux
\* again before those who wait for it.
CommandEnds ==
  []<>(rid # <<>>) /\ <>[](\A i \in DOMAIN rid : rid[i].kind # "ind")
    => \A u \in Users : (pc[u].at = "trx") ~> (pc[u].at = "idle")
=============================================================================
