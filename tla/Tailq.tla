------------------------------- MODULE Tailq -------------------------------
(***************************************************************************)
(* The intrusive tail queue of include/queue.h, link by link.              *)
(*                                                                         *)
(* An element carries tqe_next (an element or NULL) and tqe_prev (the      *)
(* address of the field that points to it: the tqe_next of another         *)
(* element, or tqh_first).  The head carries tqh_first and tqh_last, the   *)
(* address of the last pointer of the chain.  The address of a pointer     *)
(* field is modelled by the cell that owns the field: an element, or       *)
(* TqHead for tqh_first, so that next[TqHead] is tqh_first.  An element    *)
(* that leaves the queue keeps its links, as in the code: what a later     *)
(* operation on a stale element does to the queue follows from them.       *)
(***************************************************************************)
EXTENDS Naturals

CONSTANTS Elems, \* the elements that can be queued
          TqHead, \* the cell of tqh_first, not an element
          Nil     \* NULL, neither an element nor TqHead

Cells == Elems \cup {TqHead}

(* A queue: the links of every cell, and tqh_last. *)
Queue == [next : [Cells -> Elems \cup {Nil}],
          prev : [Elems -> Cells \cup {Nil}],
          last : Cells \cup {Nil}]

(* TAILQ_INIT on zeroed elements. *)
EmptyQueue == [next |-> [c \in Cells |-> Nil],
               prev |-> [e \in Elems |-> Nil],
               last |-> TqHead]

First(q) == q.next[TqHead]

InsertHead(q, e) ==
  IF First(q) # Nil
  THEN [q EXCEPT !.next = [@ EXCEPT ![e] = First(q), ![TqHead] = e],
                 !.prev = [@ EXCEPT ![First(q)] = e, ![e] = TqHead]]
  ELSE [next |-> [q.next EXCEPT ![e] = Nil, ![TqHead] = e],
        prev |-> [q.prev EXCEPT ![e] = TqHead],
        last |-> e]

InsertTail_AtHead(q, e) == InsertHead(q, e) \* faulty

InsertTail(q, e) ==
  [next |-> [q.next EXCEPT ![e] = Nil, ![q.last] = e],
   prev |-> [q.prev EXCEPT ![e] = q.last],
   last |-> e]

(* The unlinking writes through tqe_prev without looking at it. *)
RemoveFaults(q, e) == q.prev[e] = Nil

Remove_KeepsLast(q, e) == \* faulty: tqh_last still points into e
  [q EXCEPT !.next = [@ EXCEPT ![q.prev[e]] = q.next[e]],
            !.prev = IF q.next[e] = Nil THEN @ ELSE [@ EXCEPT ![q.next[e]] = q.prev[e]]]

Remove(q, e) ==
  IF q.next[e] # Nil
  THEN [q EXCEPT !.next = [@ EXCEPT ![q.prev[e]] = q.next[e]],
                 !.prev = [@ EXCEPT ![q.next[e]] = q.prev[e]]]
  ELSE [next |-> [q.next EXCEPT ![q.prev[e]] = Nil],
        prev |-> q.prev,
        last |-> q.prev[e]]

(* Rotation: what schedule does to the env that goes to the back.          *)
Requeue_Lost(q, e) == Remove(q, e)        \* faulty: not inserted again
Requeue_Twice(q, e) == InsertTail(q, e)   \* faulty: not removed first
Requeue_Stays(q, e) == q                  \* faulty: the head is scheduled repeatedly
Requeue(q, e) == InsertTail(Remove(q, e), e)

----------------------------------------------------------------------------
(* The links of q are exactly those of a chain through the n elements of s. *)
Represents(q, n, s) ==
  /\ s \in [1..n -> Elems]
  /\ \A i, j \in 1..n : s[i] = s[j] => i = j
  /\ n = 0 => q.next[TqHead] = Nil /\ q.last = TqHead
  /\ n > 0 => /\ q.next[TqHead] = s[1] /\ q.prev[s[1]] = TqHead
              /\ q.next[s[n]] = Nil  /\ q.last = s[n]
  /\ \A i \in 1..n : i < n => q.next[s[i]] = s[i + 1] /\ q.prev[s[i + 1]] = s[i]
============================================================================
