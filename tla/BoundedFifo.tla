------------------------------ MODULE BoundedFifo ------------------------------
(***************************************************************************)
(* What a queue of this repository promises its callers, whatever it is    *)
(* built from: data_structure/队列.md:5 "a queue is a first-in first-out   *)
(* structure, data is inserted at the tail and taken from the head".       *)
(* The ring of common/queue.c and the queues of data_structure/ are shown  *)
(* to implement it.                                                        *)
(***************************************************************************)
EXTENDS Naturals, Sequences

CONSTANTS Value,      \* what may be enqueued
          Capacity    \* how many elements the queue holds at most

VARIABLE q            \* the elements in it, oldest first

Init == q = << >>

Put(v) == /\ Len(q) < Capacity
          /\ q' = Append(q, v)

Get == /\ q # << >>
       /\ q' = Tail(q)

Clear == q' = << >>

Next == \/ \E v \in Value : Put(v)
        \/ Get
        \/ Clear

Spec == Init /\ [][Next]_q
=============================================================================
