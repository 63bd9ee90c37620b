----------------------------- MODULE PrioQueue -----------------------------
(***************************************************************************)
(* The priority-ordered queues of the kernel as operators on sequences.    *)
(* The run queue (lib/tnschedprio/schedprio.h) and the wait queues         *)
(* (lib/uksched/include/uk/wait_queue.h) share one insertion rule: before  *)
(* the first element of strictly lower priority, else at the tail.         *)
(***************************************************************************)
EXTENDS Integers, Sequences, Functions

(* Mutant: equals are overtaken too. *)
LowerPositions_OrEqual(q, pr, t) == {i \in 1..Len(q) : pr[q[i]] <= pr[t]}

(* The positions of q whose element ranks below t under the priorities pr. *)
LowerPositions(q, pr, t) == {i \in 1..Len(q) : pr[q[i]] < pr[t]}

InsertPosition(q, pr, t) ==
  LET lower == LowerPositions(q, pr, t) IN
  IF lower = {} THEN Len(q) + 1 ELSE CHOOSE i \in lower : \A j \in lower : i <= j

(* The list insertion of t before position k. *)
LinkBefore(q, k, t) == SubSeq(q, 1, k - 1) \o <<t>> \o SubSeq(q, k, Len(q))

UnlinkAt(q, k) == SubSeq(q, 1, k - 1) \o SubSeq(q, k + 1, Len(q))

PrioInsert(q, pr, t) == LinkBefore(q, InsertPosition(q, pr, t), t)

(* Unlinking an element that is in the queue. *)
Unlink(q, t) == UnlinkAt(q, CHOOSE i \in 1..Len(q) : q[i] = t)

(* Descending priority. *)
Sorted(q, pr) == \A i, j \in 1..Len(q) : i < j => pr[q[i]] >= pr[q[j]]
=============================================================================
