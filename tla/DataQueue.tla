------------------------------- MODULE DataQueue -------------------------------
(***************************************************************************)
(* common/queue.c: a ring of MAX_DATA_SEQUEUE slots shared by threads.     *)
(* Enqueuers are serialised by EnQueueLock and dequeuers by DeQueueLock,   *)
(* but an enqueuer and a dequeuer run side by side on front, rear and the  *)
(* slots.  One action is one access to that shared state: a call is the    *)
(* sequence of actions its pc goes through, and other threads step in      *)
(* between.  A call that holds a lock is named by enLock or deLock.        *)
(***************************************************************************)
EXTENDS Integers, Sequences

CONSTANTS Producers,         \* threads that call EnDataQueue
          Consumers,         \* threads that call DeDataQueue
          Cleaners,          \* threads that call DeAllDataQueue
          Value,             \* what the callers enqueue
          MaxDataSequeue,    \* slots in the ring
          NoThread,          \* a mutex nobody holds
          Junk,              \* bytes nobody enqueued: fresh or half-copied memory
          Untouched          \* the outData of a call that has written nothing there

Thread == Producers \cup Consumers \cup Cleaners
Index == 0 .. MaxDataSequeue - 1
Datum == Value \cup {Junk}

ASSUME MaxDataSequeueAssumption == MaxDataSequeue \in Nat \ {0, 1}
ASSUME ThreadAssumption == /\ Producers \cap Consumers = {}
                           /\ Producers \cap Cleaners = {}
                           /\ Consumers \cap Cleaners = {}
                           /\ NoThread \notin Thread
ASSUME JunkAssumption == /\ Junk \notin Value
                         /\ Untouched \notin Value \cup {Junk}

VARIABLES alive,     \* the queue has been created and not destroyed
          front,     \* slot of the element taken last
          rear,      \* slot of the element put last
          data,      \* the slots
          enLock,    \* holder of EnQueueLock
          deLock,    \* holder of DeQueueLock
          pc,        \* what each thread does next
          arg,       \* inData of each enqueuer
          loc,       \* the value of front a dequeuer has loaded
          out,       \* outData of each dequeuer
          owed       \* history: the element that was oldest when front advanced

queue == << alive, front, rear, data >>
locks == << enLock, deLock >>
vars == << alive, front, rear, data, enLock, deLock, pc, arg, loc, out, owed >>

-----------------------------------------------------------------------------
(* The predicates the calls are built from *)

NextSlot(i) == (i + 1) % MaxDataSequeue

EmptyDataSequeue == front = rear

(* A full ring uses every slot, the mistake the gap slot avoids *)
FullWithoutGap == FALSE

FullDataSequeue == NextSlot(rear) = front

(* Slot s is being filled: its enqueuer has published it and still copies *)
Filling(s) == /\ s = rear
              /\ \E p \in Producers : pc[p] = "en_copy"

Goto(t, label) == pc' = [pc EXCEPT ![t] = label]

-----------------------------------------------------------------------------
(* CreateEmptyDataSequeue and DestroyDataSequeue take no lock: their caller *)
(* has to keep every other thread out, as Idle says.                        *)

Idle == \A t \in Thread : pc[t] = "idle"

CreateEmptyDataSequeue ==
  /\ ~alive /\ Idle
  /\ alive' = TRUE
  /\ front' = 0
  /\ rear' = 0
  /\ data' = [i \in Index |-> Junk]
  /\ UNCHANGED << locks, pc, arg, loc, out, owed >>

DestroyDataSequeue ==
  /\ alive /\ Idle
  /\ alive' = FALSE
  /\ UNCHANGED << front, rear, data, locks, pc, arg, loc, out, owed >>

-----------------------------------------------------------------------------
(* EnDataQueue(queue, inData, oneDataSize) *)

EnLock(p, v) ==
  /\ alive /\ pc[p] = "idle" /\ enLock = NoThread
  /\ enLock' = p
  /\ arg' = [arg EXCEPT ![p] = v]
  /\ Goto(p, "en_full")
  /\ UNCHANGED << queue, deLock, loc, out, owed >>

(* The early return leaves the mutex locked *)
EnFullKeepsLock(p) ==
  /\ pc[p] = "en_full" /\ FullDataSequeue
  /\ Goto(p, "idle")
  /\ UNCHANGED << queue, locks, arg, loc, out, owed >>

(* return -1: full *)
EnFull(p) ==
  /\ pc[p] = "en_full" /\ FullDataSequeue
  /\ enLock' = NoThread
  /\ Goto(p, "idle")
  /\ UNCHANGED << queue, deLock, arg, loc, out, owed >>

EnNotFull(p) ==
  /\ pc[p] = "en_full" /\ ~FullDataSequeue
  /\ Goto(p, "en_rear")
  /\ UNCHANGED << queue, locks, arg, loc, out, owed >>

(* rear moves first: from here on the slot is in the queue, not yet filled *)
EnRear(p) ==
  /\ pc[p] = "en_rear"
  /\ rear' = NextSlot(rear)
  /\ Goto(p, "en_copy")
  /\ UNCHANGED << alive, front, data, locks, arg, loc, out, owed >>

(* The copy goes to the slot rear left, not the one it reached *)
EnCopyToOldRear(p) ==
  /\ pc[p] = "en_copy"
  /\ data' = [data EXCEPT ![(rear + MaxDataSequeue - 1) % MaxDataSequeue] = arg[p]]
  /\ enLock' = NoThread
  /\ Goto(p, "idle")
  /\ UNCHANGED << alive, front, rear, deLock, arg, loc, out, owed >>

(* memset and memcpy finish and the mutex is released: return 0 *)
EnCopy(p) ==
  /\ pc[p] = "en_copy"
  /\ data' = [data EXCEPT ![rear] = arg[p]]
  /\ enLock' = NoThread
  /\ Goto(p, "idle")
  /\ UNCHANGED << alive, front, rear, deLock, arg, loc, out, owed >>

EnDataQueue(p) ==
  \/ \E v \in Value : EnLock(p, v)
  \/ EnFull(p)
  \/ EnNotFull(p)
  \/ EnRear(p)
  \/ EnCopy(p)

-----------------------------------------------------------------------------
(* The elements in the ring, oldest first: what the slots will hold once    *)
(* the copy in progress has finished.  A reset that has cleared front has   *)
(* removed them all.                                                        *)

Content(s) == IF Filling(s) THEN arg[enLock] ELSE data[s]

Occupancy == (rear + MaxDataSequeue - front) % MaxDataSequeue

Contents ==
  IF alive /\ \A k \in Cleaners : pc[k] # "all_rear"
  THEN [i \in 1 .. Occupancy |-> Content((front + i) % MaxDataSequeue)]
  ELSE << >>

-----------------------------------------------------------------------------
(* DeDataQueue(queue, outData, oneDataSize) *)

DeLock(c) ==
  /\ alive /\ pc[c] = "idle" /\ deLock = NoThread
  /\ deLock' = c
  /\ out' = [out EXCEPT ![c] = Untouched]
  /\ Goto(c, "de_empty")
  /\ UNCHANGED << queue, enLock, arg, loc, owed >>

(* return -1: empty *)
DeEmpty(c) ==
  /\ pc[c] = "de_empty" /\ EmptyDataSequeue
  /\ deLock' = NoThread
  /\ Goto(c, "idle")
  /\ UNCHANGED << queue, enLock, arg, loc, out, owed >>

(* The emptiness test is missing *)
DeNotEmptyUnchecked(c) ==
  /\ pc[c] = "de_empty"
  /\ Goto(c, "de_load")
  /\ UNCHANGED << queue, locks, arg, loc, out, owed >>

DeNotEmpty(c) ==
  /\ pc[c] = "de_empty" /\ ~EmptyDataSequeue
  /\ Goto(c, "de_load")
  /\ UNCHANGED << queue, locks, arg, loc, out, owed >>

(* front = (front + 1) % MAX is a load and a store *)
DeLoad(c) ==
  /\ pc[c] = "de_load"
  /\ loc' = [loc EXCEPT ![c] = front]
  /\ Goto(c, "de_store")
  /\ UNCHANGED << queue, locks, arg, out, owed >>

DeStore(c) ==
  /\ pc[c] = "de_store"
  /\ front' = NextSlot(loc[c])
  /\ owed' = [owed EXCEPT ![c] = Content(NextSlot(front))]
  /\ Goto(c, "de_copy")
  /\ UNCHANGED << alive, rear, data, locks, arg, loc, out >>

(* outData is NULL: the element is dropped *)
DeDrop(c) ==
  /\ pc[c] = "de_copy"
  /\ deLock' = NoThread
  /\ Goto(c, "idle")
  /\ UNCHANGED << queue, enLock, arg, loc, out, owed >>

(* The copy comes from the slot front left, not the one it reached *)
DeCopyAnySlot(c) ==
  /\ pc[c] = "de_copy"
  /\ out' = [out EXCEPT ![c] = data[loc[c]]]
  /\ deLock' = NoThread
  /\ Goto(c, "idle")
  /\ UNCHANGED << queue, enLock, arg, loc, owed >>

(* memcpy of the slot, racing with the enqueuer that fills it: the bytes    *)
(* are then the old ones, the zeroes of memset, the new ones or a mixture   *)
DeCopy(c) ==
  /\ pc[c] = "de_copy"
  /\ \E d \in IF Filling(front) THEN {data[front], arg[enLock], Junk} ELSE {data[front]} :
       out' = [out EXCEPT ![c] = d]
  /\ deLock' = NoThread
  /\ Goto(c, "idle")
  /\ UNCHANGED << queue, enLock, arg, loc, owed >>

DeDataQueue(c) ==
  \/ DeLock(c)
  \/ DeEmpty(c)
  \/ DeNotEmpty(c)
  \/ DeLoad(c)
  \/ DeStore(c)
  \/ DeDrop(c)
  \/ DeCopy(c)

-----------------------------------------------------------------------------
(* DeAllDataQueue(queue): under EnQueueLock alone *)

AllLock(k) ==
  /\ alive /\ pc[k] = "idle" /\ enLock = NoThread
  /\ enLock' = k
  /\ Goto(k, "all_front")
  /\ UNCHANGED << queue, deLock, arg, loc, out, owed >>

AllFront(k) ==
  /\ pc[k] = "all_front"
  /\ front' = 0
  /\ Goto(k, "all_rear")
  /\ UNCHANGED << alive, rear, data, locks, arg, loc, out, owed >>

AllRear(k) ==
  /\ pc[k] = "all_rear"
  /\ rear' = 0
  /\ enLock' = NoThread
  /\ Goto(k, "idle")
  /\ UNCHANGED << alive, front, data, deLock, arg, loc, out, owed >>

DeAllDataQueue(k) ==
  \/ AllLock(k)
  \/ AllFront(k)
  \/ AllRear(k)

-----------------------------------------------------------------------------
Init ==
  /\ alive = FALSE
  /\ front = 0
  /\ rear = 0
  /\ data = [i \in Index |-> Junk]
  /\ enLock = NoThread
  /\ deLock = NoThread
  /\ pc = [t \in Thread |-> "idle"]
  /\ arg \in [Producers -> Value]
  /\ loc = [c \in Consumers |-> 0]
  /\ out = [c \in Consumers |-> Untouched]
  /\ owed = [c \in Consumers |-> Junk]

Next ==
  \/ CreateEmptyDataSequeue
  \/ DestroyDataSequeue
  \/ \E p \in Producers : EnDataQueue(p)
  \/ \E c \in Consumers : DeDataQueue(c)
  \/ \E k \in Cleaners : DeAllDataQueue(k)

Spec == Init /\ [][Next]_vars

(* DeAllDataQueue resets front under EnQueueLock, and DeQueueLock is what    *)
(* guards front: unless their callers keep resets and dequeues apart, a     *)
(* dequeuer stores the front it loaded before the reset.                    *)
ResetAlone ==
  \A k \in Cleaners, c \in Consumers : pc[k] = "idle" \/ pc[c] = "idle"

OrderlySpec == Init /\ [][Next /\ ResetAlone']_vars

-----------------------------------------------------------------------------
EnLabel == {"en_full", "en_rear", "en_copy"}
DeLabel == {"de_empty", "de_load", "de_store", "de_copy"}
AllLabel == {"all_front", "all_rear"}

TypeOK ==
  /\ alive \in BOOLEAN
  /\ front \in Index
  /\ rear \in Index
  /\ data \in [Index -> Datum]
  /\ enLock \in Thread \cup {NoThread}
  /\ deLock \in Thread \cup {NoThread}
  /\ pc \in [Thread -> {"idle"} \cup EnLabel \cup DeLabel \cup AllLabel]
  /\ arg \in [Producers -> Value]
  /\ loc \in [Consumers -> Index]
  /\ out \in [Consumers -> Datum \cup {Untouched}]
  /\ owed \in [Consumers -> Datum]

(* The mutexes: who is inside a call holds its lock, and nobody else does.  *)
(* Every return path of the four calls has to unlock, the early ones too.   *)
LockDiscipline ==
  /\ \A p \in Producers : pc[p] \in {"idle"} \cup EnLabel
  /\ \A c \in Consumers : pc[c] \in {"idle"} \cup DeLabel
  /\ \A k \in Cleaners : pc[k] \in {"idle"} \cup AllLabel
  /\ \A t \in Thread : enLock = t <=> pc[t] \in EnLabel \cup AllLabel
  /\ \A t \in Thread : deLock = t <=> pc[t] \in DeLabel

(* The ring is shared without a common lock, so the test of FullDataSequeue *)
(* is stale when rear moves and the test of EmptyDataSequeue when front     *)
(* moves: both still have to hold there, and the value of front loaded for  *)
(* the increment still has to be front.                                     *)
StaleTestsHold ==
  /\ \A p \in Producers : pc[p] = "en_rear" => ~FullDataSequeue
  /\ \A c \in Consumers : pc[c] \in {"de_load", "de_store"} => ~EmptyDataSequeue
  /\ \A c \in Consumers : pc[c] = "de_store" => loc[c] = front

(* A dequeuer that has taken an element finds it in slot front for as long  *)
(* as it copies: the gap slot keeps enqueuers from filling it again.        *)
OwedInSlot ==
  \A c \in Consumers : pc[c] = "de_copy" => owed[c] = Content(front)

(* The step in which a successful DeDataQueue returns *)
Returns(c) == pc[c] = "de_copy" /\ pc'[c] = "idle"

(* DeDataQueue gives its caller the element that was oldest when front      *)
(* moved, or the caller copied while the enqueuer still filled that slot.   *)
DequeuesOldest ==
  [][\A c \in Consumers : Returns(c) =>
       out'[c] \in {Untouched, owed[c]} \/ Filling(front)]_vars

(* 队列.md:5, a queue is first-in first-out: a caller of DeDataQueue never   *)
(* gets anything but the oldest element.                                    *)
FirstInFirstOut ==
  [][\A c \in Consumers : Returns(c) => out'[c] \in {Untouched, owed[c]}]_vars

(* Under any interleaving the ring behaves as a first-in first-out queue of *)
(* MAX_DATA_SEQUEUE - 1 elements: enqueuing appends in the step that moves  *)
(* rear, dequeuing removes the head in the step that moves front.           *)
Fifo == INSTANCE BoundedFifo WITH q <- Contents, Capacity <- MaxDataSequeue - 1
ImplementsFifo == Fifo!Spec
=============================================================================
