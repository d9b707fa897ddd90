----------------------------- MODULE DataQueueSize -----------------------------
(***************************************************************************)
(* GetSequeueSize of common/queue.c beside the calls of DataQueue.  It     *)
(* takes no lock.  Line 116 compares rear with front and then uses both    *)
(* again; C leaves open in which order they are read and, since they are   *)
(* plain ints, whether the second use reads them again.                    *)
(***************************************************************************)
EXTENDS DataQueue

CONSTANT Watchers            \* threads that call GetSequeueSize

ASSUME WatcherAssumption == Watchers \cap Thread = {}

VARIABLES phase,     \* of each watcher: "idle", before the comparison, after it
          seen,      \* the values of rear and front it goes by
          fresh,     \* which of them it has read in this phase
          larger,    \* rear > front, as compared
          size,      \* what the last call has returned
          moved      \* history: what happened to the queue during the call

sizeVars == << phase, seen, fresh, larger, size, moved >>

Nothing == [rear |-> 0, front |-> 0]

Resetting == \E k \in Cleaners : pc[k] # "idle"

-----------------------------------------------------------------------------
BeginSize(w) ==
  /\ alive /\ phase[w] = "idle"
  /\ phase' = [phase EXCEPT ![w] = "compare"]
  /\ seen' = [seen EXCEPT ![w] = Nothing]
  /\ fresh' = [fresh EXCEPT ![w] = {}]
  /\ size' = [size EXCEPT ![w] = 0]
  /\ moved' = [moved EXCEPT ![w] = IF Resetting THEN {"reset"} ELSE {}]
  /\ UNCHANGED << vars, larger >>

ReadRear(w) ==
  /\ phase[w] # "idle" /\ "rear" \notin fresh[w]
  /\ seen' = [seen EXCEPT ![w].rear = rear]
  /\ fresh' = [fresh EXCEPT ![w] = @ \cup {"rear"}]
  /\ UNCHANGED << vars, phase, larger, size, moved >>

ReadFront(w) ==
  /\ phase[w] # "idle" /\ "front" \notin fresh[w]
  /\ seen' = [seen EXCEPT ![w].front = front]
  /\ fresh' = [fresh EXCEPT ![w] = @ \cup {"front"}]
  /\ UNCHANGED << vars, phase, larger, size, moved >>

Compare(w) ==
  /\ phase[w] = "compare" /\ fresh[w] = {"rear", "front"}
  /\ larger' = [larger EXCEPT ![w] = seen[w].rear > seen[w].front]
  /\ fresh' = [fresh EXCEPT ![w] = {}]
  /\ phase' = [phase EXCEPT ![w] = "subtract"]
  /\ UNCHANGED << vars, seen, size, moved >>

(* The wrap-around is forgotten *)
DifferenceUnwrapped(w) == seen[w].rear - seen[w].front

Difference(w) ==
  (IF larger[w] THEN 0 ELSE MaxDataSequeue) + seen[w].rear - seen[w].front

(* What is not fresh was kept in a register since the comparison *)
ReturnSize(w) ==
  /\ phase[w] = "subtract"
  /\ size' = [size EXCEPT ![w] = Difference(w)]
  /\ phase' = [phase EXCEPT ![w] = "idle"]
  /\ UNCHANGED << vars, seen, fresh, larger, moved >>

GetSequeueSize(w) ==
  \/ BeginSize(w)
  \/ ReadRear(w)
  \/ ReadFront(w)
  \/ Compare(w)
  \/ ReturnSize(w)

-----------------------------------------------------------------------------
(* A step of the other calls, and what it does to calls of GetSequeueSize   *)
Happens == {e \in {"put", "taken", "reset"} :
              \/ e = "put" /\ Occupancy' > Occupancy
              \/ e = "taken" /\ Occupancy' < Occupancy
              \/ e = "reset" /\ Resetting'}

(* Creating and destroying is for a caller that keeps watchers out as well *)
QueueStep ==
  /\ Next /\ ResetAlone'
  /\ alive' # alive => \A w \in Watchers : phase[w] = "idle"
  /\ moved' = [w \in Watchers |-> IF phase[w] = "idle" THEN moved[w] ELSE moved[w] \cup Happens]
  /\ UNCHANGED << phase, seen, fresh, larger, size >>

SizeInit ==
  /\ Init
  /\ phase = [w \in Watchers |-> "idle"]
  /\ seen = [w \in Watchers |-> Nothing]
  /\ fresh = [w \in Watchers |-> {}]
  /\ larger = [w \in Watchers |-> FALSE]
  /\ size = [w \in Watchers |-> 0]
  /\ moved = [w \in Watchers |-> {}]

SizeNext == QueueStep \/ \E w \in Watchers : GetSequeueSize(w)

SizeSpec == SizeInit /\ [][SizeNext]_<< vars, sizeVars >>

-----------------------------------------------------------------------------
SizeTypeOK ==
  /\ phase \in [Watchers -> {"idle", "compare", "subtract"}]
  /\ seen \in [Watchers -> [rear : Index, front : Index]]
  /\ fresh \in [Watchers -> SUBSET {"rear", "front"}]
  /\ larger \in [Watchers -> BOOLEAN]
  /\ size \in [Watchers -> Int]
  /\ moved \in [Watchers -> SUBSET {"put", "taken", "reset"}]

(* The step in which a call of GetSequeueSize returns *)
SizeReturned(w) == phase[w] = "subtract" /\ phase'[w] = "idle"

(* What a caller of GetSequeueSize may rely on although no lock is taken,    *)
(* unless the queue is emptied meanwhile.  If the queue stays as it is the  *)
(* answer is its size, MAX_DATA_SEQUEUE standing for none.  Otherwise an    *)
(* answer may be off by MAX_DATA_SEQUEUE, negative even; but one that is a  *)
(* possible size, from 1 to MAX_DATA_SEQUEUE - 1, is safe to act upon: if   *)
(* nobody dequeues meanwhile so many elements can be dequeued, and if       *)
(* nobody enqueues there is room for the rest.                              *)
SizeIsSafe ==
  [][\A w \in Watchers : SizeReturned(w) /\ "reset" \notin moved[w] =>
       /\ moved[w] = {} => size'[w] = IF EmptyDataSequeue THEN MaxDataSequeue ELSE Occupancy
       /\ size'[w] \in 1 .. MaxDataSequeue - 1 =>
            /\ "taken" \notin moved[w] => size'[w] <= Occupancy
            /\ "put" \notin moved[w] => size'[w] >= Occupancy]_<< vars, sizeVars >>
=============================================================================
