---------------------------- MODULE LosDeltaList ----------------------------
(***************************************************************************)
(* The sorted lists of both kinds of timers: a slot of the task manager's  *)
(* wheel (los_task.c) and the list of the running software timers          *)
(* (los_swtmr.c).  Each node stores in rel only the time by which it is    *)
(* later than the node before it.                                          *)
(*                                                                         *)
(* Sums and filters are recursive functions, and the place of a new node   *)
(* is that of the first one that is later, so that what they compute can   *)
(* be proved of lists of any length.                                       *)
(***************************************************************************)
EXTENDS Naturals, SequencesExt

\* The times of all nodes: what the nodes up to each of them store, added up.
Times(list, rel) ==
  LET time[j \in 0 .. Len(list)] == IF j = 0 THEN 0 ELSE time[j - 1] + rel[list[j]]
  IN time

Place(list, t) == SelectInSeq(list, LAMBDA u : u = t)

TimeOf(list, rel, t) == Times(list, rel)[Place(list, t)]

\* Where the walk from the head ends that passes the nodes not later than n.
FirstLater(list, rel, n) ==
  Min({j \in 1 .. Len(list) : Times(list, rel)[j] > n} \cup {Len(list) + 1})

\* A node with time n comes in front of the first later one, which from then on
\* stores less.
Linked(list, t, p) == InsertAt(list, p, t)
LinkedRel(list, rel, t, n, p) ==
  LET own == n - Times(list, rel)[p - 1]
      r == [rel EXCEPT ![t] = own]
  IN IF p > Len(list) THEN r ELSE [r EXCEPT ![list[p]] = @ - own]

\* The node behind one that is unlinked takes over what it stores.
UnlinkedRel(list, rel, t) ==
  LET p == Place(list, t)
      r == IF p = Len(list) THEN rel ELSE [rel EXCEPT ![list[p + 1]] = @ + rel[t]]
  IN [r EXCEPT ![t] = 0]

\* The members of s that are in P, in their order.
Kept(s, P) ==
  LET kept[j \in 0 .. Len(s)] ==
        IF j = 0 THEN <<>> ELSE IF s[j] \in P THEN Append(kept[j - 1], s[j]) ELSE kept[j - 1]
  IN kept[Len(s)]
=============================================================================
