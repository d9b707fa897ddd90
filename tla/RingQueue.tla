------------------------------- MODULE RingQueue -------------------------------
(***************************************************************************)
(* The two ring queues of data_structure: queue_linear_arrary.c, with its  *)
(* slots inside the structure, and queue_linear_pointer.c, whose slots are *)
(* allocated by create_queue.  Other than in common/queue.c no slot stays  *)
(* free: head and rear are unsigned ints that only ever grow, and are      *)
(* taken modulo the size where a slot is meant.                            *)
(***************************************************************************)
EXTENDS Naturals, Sequences

CONSTANTS Value,      \* what is enqueued
          Garbage,    \* what a slot holds before anything is put there
          MAXSIZE,    \* the size of the array queue
          Sizes,      \* the sizes create_queue is called with
          UIntMod     \* how many values an unsigned int has: 2^32, fewer for TLC

ASSUME SizeAssumption ==
    /\ MAXSIZE \in Nat \ {0}
    /\ Sizes \subseteq Nat \ {0}
    /\ UIntMod \in Nat
    /\ \A n \in Sizes \cup {MAXSIZE} : n < UIntMod
ASSUME GarbageAssumption == Garbage \notin Value

VARIABLES
  kind,     \* which of the two files: "array" or "pointer"
  ring,     \* struct _queue: head, rear, node_size
  mem,      \* where its data points: "null", "live", "freed"; "crashed": the program is gone
  data,     \* the slots
  wrapped   \* history: rear has passed the largest unsigned int since the last reset

ringVars == <<kind, ring, mem, data, wrapped>>

Slots == 0 .. UIntMod - 1
AllSizes == Sizes \cup {MAXSIZE}

NoData == kind = "pointer" /\ mem = "null"
Slot(i) == i % ring.node_size
Plus1(i) == (i + 1) % UIntMod

empty_queue == NoData \/ ring.rear = ring.head
\* Mutated: the counters are compared as they are
FullUnreduced == NoData \/ (~empty_queue /\ ring.rear = ring.head)

full_queue == NoData \/ (~empty_queue /\ Slot(ring.rear) = Slot(ring.head))

\* Mutated: a full queue takes the first branch
SizeOfFullIsZero ==
  IF empty_queue THEN 0
  ELSE IF Slot(ring.rear) >= Slot(ring.head)
       THEN Slot(ring.rear) - Slot(ring.head)
       ELSE (ring.node_size + Slot(ring.rear)) - Slot(ring.head)

\* The comparison and the two branches of the C expression.
get_queue_size ==
  IF empty_queue THEN 0
  ELSE IF Slot(ring.rear) > Slot(ring.head)
       THEN Slot(ring.rear) - Slot(ring.head)
       ELSE (ring.node_size + Slot(ring.rear)) - Slot(ring.head)

-----------------------------------------------------------------------------
(* The queue is a zeroed local variable of the program.  The array queue   *)
(* has its slots from the start.                                           *)
RingInit ==
  /\ kind \in {"array", "pointer"}
  /\ mem = IF kind = "array" THEN "live" ELSE "null"
  /\ ring = [head |-> 0, rear |-> 0, node_size |-> IF kind = "array" THEN MAXSIZE ELSE 0]
  /\ data = [i \in Slots |-> Garbage]
  /\ wrapped = FALSE

Running == mem # "crashed"
Crash == mem' = "crashed" /\ UNCHANGED <<ring, data, wrapped>>

\* malloc may fail, which create_queue does not notice.
create_queue ==
  /\ kind = "pointer"
  /\ \E size \in Sizes, got \in {"live", "null"} :
       /\ ring' = [head |-> 0, rear |-> 0, node_size |-> size]
       /\ mem' = got
  /\ data' = [i \in Slots |-> Garbage]
  /\ wrapped' = FALSE

\* After destroy_queue node_size is 0 and the remainder divides by it.
push_queue(v) ==
  /\ ~full_queue
  /\ IF ring.node_size = 0
     THEN Crash
     ELSE /\ data' = [data EXCEPT ![Slot(ring.rear)] = v]
          /\ ring' = [ring EXCEPT !.rear = Plus1(@)]
          /\ wrapped' = (wrapped \/ Plus1(ring.rear) = 0)
          /\ UNCHANGED mem

pop_queue ==
  /\ ~empty_queue
  /\ ring' = [ring EXCEPT !.head = Plus1(@)]
  /\ UNCHANGED <<mem, data, wrapped>>

\* The pointer stays where it was: a second call frees the slots again.
destroy_queue ==
  /\ ~NoData
  /\ IF mem = "freed"
     THEN Crash
     ELSE /\ ring' = [head |-> 0, rear |-> 0,
                      node_size |-> IF kind = "array" THEN ring.node_size ELSE 0]
          /\ mem' = IF kind = "array" THEN mem ELSE "freed"
          /\ wrapped' = FALSE
          /\ UNCHANGED data

RingNext ==
  /\ Running
  /\ UNCHANGED kind
  /\ \/ create_queue
     \/ \E v \in Value : push_queue(v)
     \/ pop_queue
     \/ destroy_queue

RingSpec == RingInit /\ [][RingNext]_ringVars

-----------------------------------------------------------------------------
RingTypeOK ==
  /\ kind \in {"array", "pointer"}
  /\ ring \in [head : Slots, rear : Slots, node_size : AllSizes \cup {0}]
  /\ mem \in {"null", "live", "freed", "crashed"}
  /\ data \in [Slots -> Value \cup {Garbage}]
  /\ wrapped \in BOOLEAN

(***************************************************************************)
(* The elements, oldest first, as pop_queue will find them.                *)
(***************************************************************************)
Count == (ring.rear + UIntMod - ring.head) % UIntMod
Contents == [i \in 1 .. Count |-> data[Slot((ring.head + i - 1) % UIntMod)]]

\* The counters can be trusted: they have not wrapped, or their range is a
\* multiple of the size.
Sound == \/ ~wrapped
         \/ ring.node_size # 0 /\ (UIntMod % ring.node_size = 0)

(***************************************************************************)
(* get_queue_size returns the number of elements, and full_queue says      *)
(* whether a further one has room, for any position of the two counters    *)
(* (queue_linear_arrary.c:30 and :47).                                     *)
(***************************************************************************)
RingCounts ==
  (Sound /\ mem = "live") =>
      /\ get_queue_size = Len(Contents)
      /\ full_queue <=> Len(Contents) = ring.node_size
      /\ Garbage \notin {Contents[i] : i \in DOMAIN Contents}

(***************************************************************************)
(* Whatever is called in whatever order, every call is a step of a bounded *)
(* first-in first-out queue or changes no element (data_structure/队列.md: *)
(* 5), until rear wraps in a queue whose size does not divide 2^32: the    *)
(* array queue has three slots.                                            *)
(***************************************************************************)
Fifo(n) == INSTANCE BoundedFifo WITH Capacity <- n, q <- Contents

RingIsFifo ==
  [][\A n \in AllSizes \cup {0} :
       (ring.node_size = n /\ Sound') => (Fifo(n)!Next \/ UNCHANGED Contents)]_ringVars
=============================================================================
