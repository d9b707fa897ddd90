--------------------------- MODULE DataQueueProofs ---------------------------
(***************************************************************************)
(* Theorems about DataQueue for any number of threads, any values and any  *)
(* ring size: the mutexes and the types for every run, and the queue it    *)
(* implements for the runs that keep resets and dequeues apart.            *)
(***************************************************************************)
EXTENDS DataQueueSize, SequenceTheorems, TLAPS

-----------------------------------------------------------------------------
(* Arithmetic modulo the size of the ring *)

(* One turn of the ring is all the index arithmetic of queue.c ever takes.  *)
LEMMA ModTurn ==
  \A M \in Nat \ {0} : \A i \in 0 .. (2 * M - 1) :
    i % M = IF i < M THEN i ELSE i - M
<1> SUFFICES ASSUME NEW M \in Nat \ {0}, NEW i \in 0 .. (2 * M - 1)
             PROVE  i % M = IF i < M THEN i ELSE i - M
  OBVIOUS
<1>1. CASE i < M
  BY <1>1, SMTT(20)
<1>2. CASE i >= M
  BY <1>2, SMTT(20)
<1> QED
  BY <1>1, <1>2

(* The same fact about the ring, the form the lemmas below use. *)
LEMMA RingTurn ==
  \A j \in 0 .. (2 * MaxDataSequeue - 1) :
    j % MaxDataSequeue = IF j < MaxDataSequeue THEN j ELSE j - MaxDataSequeue
BY ModTurn, MaxDataSequeueAssumption

(* NextSlot moves one slot on and wraps behind the last one. *)
LEMMA NextSlotValue ==
  ASSUME NEW i \in Index
  PROVE  /\ NextSlot(i) = IF i = MaxDataSequeue - 1 THEN 0 ELSE i + 1
         /\ NextSlot(i) \in Index
<1>1. i + 1 \in 0 .. (2 * MaxDataSequeue - 1)
  BY MaxDataSequeueAssumption DEF Index
<1> QED
  BY <1>1, RingTurn, MaxDataSequeueAssumption DEF Index, NextSlot

-----------------------------------------------------------------------------
(* The mutexes and the types: nothing about them depends on the callers *)

LockedInv == TypeOK /\ LockDiscipline

(* An enqueuer that copies is the one that holds EnQueueLock. *)
LEMMA FillingHolder ==
  ASSUME LockDiscipline, NEW s, Filling(s)
  PROVE  enLock \in Producers
BY DEF LockDiscipline, Filling, EnLabel, Thread

LEMMA ContentType ==
  ASSUME LockedInv, NEW s \in Index
  PROVE  Content(s) \in Datum
BY FillingHolder DEF LockedInv, TypeOK, Content, Datum

(* A step that moves one thread from label to label keeps the discipline if *)
(* the thread then holds what its new label says and nobody else's hold has *)
(* changed.                                                                 *)
LEMMA OneThreadMoves ==
  ASSUME LockedInv, NEW t \in Thread, NEW l, Goto(t, l),
         t \in Producers => l \in {"idle"} \cup EnLabel,
         t \in Consumers => l \in {"idle"} \cup DeLabel,
         t \in Cleaners => l \in {"idle"} \cup AllLabel,
         \A u \in Thread :
           (enLock' = u) <=> IF u = t THEN l \in EnLabel \cup AllLabel ELSE enLock = u,
         \A u \in Thread :
           (deLock' = u) <=> IF u = t THEN l \in DeLabel ELSE deLock = u
  PROVE  LockDiscipline'
<1>1. pc'[t] = l /\ \A u \in Thread : u # t => pc'[u] = pc[u]
  BY DEF Goto, LockedInv, TypeOK
<1>2. /\ \A p \in Producers : pc'[p] \in {"idle"} \cup EnLabel
      /\ \A c \in Consumers : pc'[c] \in {"idle"} \cup DeLabel
      /\ \A k \in Cleaners : pc'[k] \in {"idle"} \cup AllLabel
  BY <1>1 DEF LockedInv, LockDiscipline, Thread
<1>3. \A u \in Thread : enLock' = u <=> pc'[u] \in EnLabel \cup AllLabel
  BY <1>1 DEF LockedInv, LockDiscipline
<1>4. \A u \in Thread : deLock' = u <=> pc'[u] \in DeLabel
  BY <1>1 DEF LockedInv, LockDiscipline
<1> QED
  BY <1>2, <1>3, <1>4 DEF LockDiscipline

LEMMA LockedInit == Init => LockedInv
<1> SUFFICES ASSUME Init PROVE LockedInv
  OBVIOUS
<1>1. 0 \in Index
  BY MaxDataSequeueAssumption DEF Index
<1>2. TypeOK
  BY <1>1 DEF Init, TypeOK, Datum
<1>3. LockDiscipline
  BY ThreadAssumption DEF Init, LockDiscipline, Thread, EnLabel, DeLabel, AllLabel
<1> QED
  BY <1>2, <1>3 DEF LockedInv

LEMMA LockedNext == LockedInv /\ [Next]_vars => LockedInv'
<1> SUFFICES ASSUME LockedInv, [Next]_vars PROVE LockedInv'
  OBVIOUS
<1> USE DEF LockedInv
<1>a. 0 \in Index /\ \A i \in Index : NextSlot(i) \in Index
  BY NextSlotValue, MaxDataSequeueAssumption DEF Index
<1>1. CASE CreateEmptyDataSequeue \/ DestroyDataSequeue
  BY <1>1, <1>a DEF CreateEmptyDataSequeue, DestroyDataSequeue, TypeOK, LockDiscipline,
       locks, Datum
<1>2. ASSUME NEW p \in Producers, EnDataQueue(p) PROVE LockedInv'
  <2> p \in Thread /\ p \notin Consumers /\ p \notin Cleaners /\ NoThread \notin Thread
    BY ThreadAssumption DEF Thread
  <2> deLock # p /\ (enLock = p <=> pc[p] \in EnLabel)
    BY DEF LockDiscipline, EnLabel, DeLabel, AllLabel
  <2>1. ASSUME NEW v \in Value, EnLock(p, v) PROVE LockedInv'
    <3>1. TypeOK'
      BY <2>1 DEF EnLock, Goto, TypeOK, queue, EnLabel
    <3>2. LockDiscipline'
      BY <2>1, OneThreadMoves DEF EnLock, EnLabel, DeLabel, AllLabel
    <3> QED
      BY <3>1, <3>2
  <2>2. CASE EnFull(p)
    <3>1. TypeOK'
      BY <2>2 DEF EnFull, Goto, TypeOK, queue
    <3>2. LockDiscipline'
      BY <2>2, OneThreadMoves DEF EnFull, EnLabel, DeLabel, AllLabel
    <3> QED
      BY <3>1, <3>2
  <2>3. CASE EnNotFull(p)
    <3>1. TypeOK'
      BY <2>3 DEF EnNotFull, Goto, TypeOK, queue, locks, EnLabel
    <3>2. LockDiscipline'
      BY <2>3, OneThreadMoves DEF EnNotFull, EnLabel, DeLabel, AllLabel, locks
    <3> QED
      BY <3>1, <3>2
  <2>4. CASE EnRear(p)
    <3>1. TypeOK'
      BY <2>4, <1>a DEF EnRear, Goto, TypeOK, locks, EnLabel
    <3>2. LockDiscipline'
      BY <2>4, OneThreadMoves DEF EnRear, EnLabel, DeLabel, AllLabel, locks
    <3> QED
      BY <3>1, <3>2
  <2>5. CASE EnCopy(p)
    <3>1. TypeOK'
      BY <2>5 DEF EnCopy, Goto, TypeOK, Datum
    <3>2. LockDiscipline'
      BY <2>5, OneThreadMoves DEF EnCopy, EnLabel, DeLabel, AllLabel
    <3> QED
      BY <3>1, <3>2
  <2> QED
    BY <1>2, <2>1, <2>2, <2>3, <2>4, <2>5 DEF EnDataQueue
<1>3. ASSUME NEW c \in Consumers, DeDataQueue(c) PROVE LockedInv'
  <2> c \in Thread /\ c \notin Producers /\ c \notin Cleaners /\ NoThread \notin Thread
    BY ThreadAssumption DEF Thread
  <2> enLock # c /\ (deLock = c <=> pc[c] \in DeLabel)
    BY DEF LockDiscipline, EnLabel, DeLabel, AllLabel
  <2>1. CASE DeLock(c)
    <3>1. TypeOK'
      BY <2>1 DEF DeLock, Goto, TypeOK, queue, DeLabel
    <3>2. LockDiscipline'
      BY <2>1, OneThreadMoves DEF DeLock, EnLabel, DeLabel, AllLabel
    <3> QED
      BY <3>1, <3>2
  <2>2. CASE DeEmpty(c)
    <3>1. TypeOK'
      BY <2>2 DEF DeEmpty, Goto, TypeOK, queue
    <3>2. LockDiscipline'
      BY <2>2, OneThreadMoves DEF DeEmpty, EnLabel, DeLabel, AllLabel
    <3> QED
      BY <3>1, <3>2
  <2>3. CASE DeNotEmpty(c)
    <3>1. TypeOK'
      BY <2>3 DEF DeNotEmpty, Goto, TypeOK, queue, locks, DeLabel
    <3>2. LockDiscipline'
      BY <2>3, OneThreadMoves DEF DeNotEmpty, EnLabel, DeLabel, AllLabel, locks
    <3> QED
      BY <3>1, <3>2
  <2>4. CASE DeLoad(c)
    <3>1. TypeOK'
      BY <2>4 DEF DeLoad, Goto, TypeOK, queue, locks, DeLabel
    <3>2. LockDiscipline'
      BY <2>4, OneThreadMoves DEF DeLoad, EnLabel, DeLabel, AllLabel, locks
    <3> QED
      BY <3>1, <3>2
  <2>5. CASE DeStore(c)
    <3>1. TypeOK'
      <4>1. front \in Index /\ loc[c] \in Index
        BY DEF TypeOK
      <4>2. Content(NextSlot(front)) \in Datum
        BY <4>1, <1>a, ContentType
      <4> QED
        BY <2>5, <1>a, <4>1, <4>2 DEF DeStore, Goto, TypeOK, locks, DeLabel
    <3>2. LockDiscipline'
      BY <2>5, OneThreadMoves DEF DeStore, EnLabel, DeLabel, AllLabel, locks
    <3> QED
      BY <3>1, <3>2
  <2>6. CASE DeDrop(c)
    <3>1. TypeOK'
      BY <2>6 DEF DeDrop, Goto, TypeOK, queue
    <3>2. LockDiscipline'
      BY <2>6, OneThreadMoves DEF DeDrop, EnLabel, DeLabel, AllLabel
    <3> QED
      BY <3>1, <3>2
  <2>7. CASE DeCopy(c)
    <3>1. TypeOK'
      <4>1. PICK d \in IF Filling(front) THEN {data[front], arg[enLock], Junk}
                                         ELSE {data[front]} :
              out' = [out EXCEPT ![c] = d]
        BY <2>7 DEF DeCopy
      <4>2. d \in Datum
        BY <4>1, FillingHolder DEF TypeOK, Datum
      <4> QED
        BY <2>7, <4>1, <4>2 DEF DeCopy, Goto, TypeOK, queue
    <3>2. LockDiscipline'
      BY <2>7, OneThreadMoves DEF DeCopy, EnLabel, DeLabel, AllLabel
    <3> QED
      BY <3>1, <3>2
  <2> QED
    BY <1>3, <2>1, <2>2, <2>3, <2>4, <2>5, <2>6, <2>7 DEF DeDataQueue
<1>4. ASSUME NEW k \in Cleaners, DeAllDataQueue(k) PROVE LockedInv'
  <2> k \in Thread /\ k \notin Producers /\ k \notin Consumers /\ NoThread \notin Thread
    BY ThreadAssumption DEF Thread
  <2> deLock # k /\ (enLock = k <=> pc[k] \in AllLabel)
    BY DEF LockDiscipline, EnLabel, DeLabel, AllLabel
  <2>1. CASE AllLock(k)
    <3>1. TypeOK'
      BY <2>1 DEF AllLock, Goto, TypeOK, queue, AllLabel
    <3>2. LockDiscipline'
      BY <2>1, OneThreadMoves DEF AllLock, EnLabel, DeLabel, AllLabel
    <3> QED
      BY <3>1, <3>2
  <2>2. CASE AllFront(k)
    <3>1. TypeOK'
      BY <2>2, <1>a DEF AllFront, Goto, TypeOK, locks, AllLabel
    <3>2. LockDiscipline'
      BY <2>2, OneThreadMoves DEF AllFront, EnLabel, DeLabel, AllLabel, locks
    <3> QED
      BY <3>1, <3>2
  <2>3. CASE AllRear(k)
    <3>1. TypeOK'
      BY <2>3, <1>a DEF AllRear, Goto, TypeOK
    <3>2. LockDiscipline'
      BY <2>3, OneThreadMoves DEF AllRear, EnLabel, DeLabel, AllLabel
    <3> QED
      BY <3>1, <3>2
  <2> QED
    BY <1>4, <2>1, <2>2, <2>3 DEF DeAllDataQueue
<1>5. CASE UNCHANGED vars
  BY <1>5 DEF vars, TypeOK, LockDiscipline
<1> QED
  BY <1>1, <1>2, <1>3, <1>4, <1>5 DEF Next

(* Every variable keeps its type, however the calls interleave. *)
THEOREM TypeCorrect == Spec => []TypeOK
<1>1. LockedInv => TypeOK
  BY DEF LockedInv
<1> QED
  BY <1>1, LockedInit, LockedNext, PTL DEF Spec

(* Every call holds the mutex it should for exactly as long as it runs:     *)
(* mutual exclusion, and no return path that forgets to unlock.             *)
THEOREM LocksAreHeld == Spec => []LockDiscipline
<1>1. LockedInv => LockDiscipline
  BY DEF LockedInv
<1> QED
  BY <1>1, LockedInit, LockedNext, PTL DEF Spec

-----------------------------------------------------------------------------
(* The runs that keep resets and dequeues apart *)

(* What a call may rely on between its steps: the queue is there, outData   *)
(* is still untouched, and a reset that has cleared front finds it cleared. *)
CallsInv ==
  /\ \A t \in Thread : pc[t] # "idle" => alive
  /\ \A c \in Consumers : pc[c] \in DeLabel => out[c] = Untouched
  /\ \A k \in Cleaners : pc[k] = "all_rear" => front = 0

(* The inductive invariant: the two named parts of it that runs check, what *)
(* they need of the mutexes, and what the calls need.                       *)
QueueInv == LockedInv /\ CallsInv /\ ResetAlone /\ StaleTestsHold /\ OwedInSlot

OrderlyNext == Next /\ ResetAlone'

(* A step that leaves the abstract queue alone: the ring keeps its bounds   *)
(* and every slot what it holds or is about to hold.                        *)
Quiet ==
  /\ front' = front /\ rear' = rear /\ alive' = alive
  /\ \A s \in Index : Content(s)' = Content(s)
  /\ \A k \in Cleaners : pc'[k] = "all_rear" <=> pc[k] = "all_rear"

(* Steps of a call that does not fill a slot do not change what slots hold. *)
LEMMA NotFilling ==
  ASSUME LockedInv, \A p \in Producers : pc[p] # "en_copy", NEW s \in Index
  PROVE  Content(s) = data[s]
BY DEF Content, Filling

LEMMA NotFillingNext ==
  ASSUME \A p \in Producers : pc'[p] # "en_copy", NEW s \in Index
  PROVE  Content(s)' = data'[s]
BY DEF Content, Filling

(* Only the holder of EnQueueLock fills a slot. *)
LEMMA HolderOnly ==
  ASSUME LockedInv, NEW t \in Thread \cup {NoThread}, enLock = t
  PROVE  /\ \A p \in Producers : p # t => pc[p] \notin EnLabel
         /\ \A k \in Cleaners : k # t => pc[k] \notin AllLabel
BY DEF LockedInv, LockDiscipline, Thread, TypeOK

LEMMA EnqueuerIsQuiet ==
  ASSUME LockedInv, NEW p \in Producers,
         (\E v \in Value : EnLock(p, v)) \/ EnFull(p) \/ EnNotFull(p) \/ EnCopy(p)
  PROVE  Quiet
<1> p \in Thread /\ p \notin Consumers /\ p \notin Cleaners /\ NoThread \notin Thread
  BY ThreadAssumption DEF Thread
<1>1. \A k \in Cleaners : pc'[k] = pc[k]
  BY DEF LockedInv, TypeOK, EnLock, EnFull, EnNotFull, EnCopy, Goto, Thread
<1>2. \A u \in Producers : u # p => pc[u] # "en_copy" /\ pc'[u] = pc[u]
  <2>1. CASE \E v \in Value : EnLock(p, v)
    BY <2>1, HolderOnly DEF EnLock, Goto, EnLabel, LockedInv, TypeOK, Thread
  <2>2. CASE EnFull(p) \/ EnNotFull(p) \/ EnCopy(p)
    <3>1. enLock = p
      BY <2>2 DEF EnFull, EnNotFull, EnCopy, LockedInv, LockDiscipline, EnLabel
    <3> QED
      BY <2>2, <3>1, HolderOnly
         DEF EnFull, EnNotFull, EnCopy, Goto, EnLabel, LockedInv, TypeOK, Thread
  <2> QED
    BY <2>1, <2>2
<1>3. ASSUME NEW s \in Index PROVE Content(s)' = Content(s)
  <2>1. CASE (\E v \in Value : EnLock(p, v)) \/ EnFull(p) \/ EnNotFull(p)
    <3>1. pc[p] # "en_copy" /\ pc'[p] # "en_copy" /\ data' = data
      BY <2>1 DEF EnLock, EnFull, EnNotFull, Goto, LockedInv, TypeOK, queue
    <3> QED
      BY <1>2, <3>1, NotFilling, NotFillingNext
  <2>2. CASE EnCopy(p)
    <3>1. enLock = p /\ pc[p] = "en_copy" /\ pc'[p] # "en_copy"
      BY <2>2 DEF EnCopy, LockedInv, LockDiscipline, EnLabel, TypeOK, Goto
    <3>2. Content(s)' = IF s = rear THEN arg[p] ELSE data[s]
      BY <2>2, <1>2, <3>1, NotFillingNext DEF EnCopy, LockedInv, TypeOK
    <3>3. Content(s) = IF s = rear THEN arg[p] ELSE data[s]
      BY <3>1 DEF Content, Filling
    <3> QED
      BY <3>2, <3>3
  <2> QED
    BY <2>1, <2>2
<1>4. front' = front /\ rear' = rear /\ alive' = alive
  BY DEF EnLock, EnFull, EnNotFull, EnCopy, queue
<1> QED
  BY <1>1, <1>3, <1>4 DEF Quiet

LEMMA DequeuerIsQuiet ==
  ASSUME LockedInv, NEW c \in Consumers,
         DeLock(c) \/ DeEmpty(c) \/ DeNotEmpty(c) \/ DeLoad(c) \/ DeDrop(c) \/ DeCopy(c)
  PROVE  Quiet
<1> c \in Thread /\ c \notin Producers /\ c \notin Cleaners
  BY ThreadAssumption DEF Thread
<1>1. /\ front' = front /\ rear' = rear /\ alive' = alive
      /\ data' = data /\ arg' = arg /\ enLock' = enLock
  BY DEF DeLock, DeEmpty, DeNotEmpty, DeLoad, DeDrop, DeCopy, queue, locks
<1>2. \A u \in Producers \cup Cleaners : pc'[u] = pc[u]
  BY DEF DeLock, DeEmpty, DeNotEmpty, DeLoad, DeDrop, DeCopy, Goto, LockedInv, TypeOK, Thread
<1> QED
  BY <1>1, <1>2 DEF Quiet, Content, Filling

LEMMA ResetStartIsQuiet ==
  ASSUME LockedInv, NEW k \in Cleaners, AllLock(k)
  PROVE  Quiet
<1> k \in Thread /\ k \notin Producers /\ NoThread \notin Thread
  BY ThreadAssumption DEF Thread
<1>1. \A u \in Producers : pc[u] # "en_copy" /\ pc'[u] = pc[u]
  BY HolderOnly DEF AllLock, Goto, LockedInv, TypeOK, Thread, EnLabel
<1>2. \A u \in Cleaners : pc'[u] = "all_rear" <=> pc[u] = "all_rear"
  BY DEF AllLock, Goto, LockedInv, TypeOK, Thread
<1>3. \A s \in Index : Content(s)' = Content(s)
  BY <1>1, NotFilling, NotFillingNext DEF AllLock, queue
<1> QED
  BY <1>2, <1>3 DEF AllLock, queue, Quiet

-----------------------------------------------------------------------------
(* QueueInv is inductive *)

LEMMA QueueInit == Init => QueueInv
<1> SUFFICES ASSUME Init PROVE QueueInv
  OBVIOUS
<1>1. \A t \in Thread : pc[t] = "idle"
  BY DEF Init
<1>2. CallsInv /\ ResetAlone /\ StaleTestsHold /\ OwedInSlot
  BY <1>1 DEF CallsInv, ResetAlone, StaleTestsHold, OwedInSlot, Thread, DeLabel
<1> QED
  BY <1>2, LockedInit DEF QueueInv

LEMMA CallsNext == QueueInv /\ OrderlyNext => CallsInv'
<1> SUFFICES ASSUME QueueInv, OrderlyNext PROVE CallsInv'
  OBVIOUS
<1> USE DEF QueueInv
<1> Next /\ ResetAlone'
  BY DEF OrderlyNext
<1>1. CASE CreateEmptyDataSequeue \/ DestroyDataSequeue
  BY <1>1 DEF CreateEmptyDataSequeue, DestroyDataSequeue, Idle, CallsInv, Thread, DeLabel
<1>2. ASSUME NEW p \in Producers, EnDataQueue(p) PROVE CallsInv'
  <2>1. /\ alive' = alive /\ front' = front /\ out' = out /\ alive
        /\ \A u \in Consumers \cup Cleaners : pc'[u] = pc[u]
    BY <1>2, ThreadAssumption DEF EnDataQueue, EnLock, EnFull, EnNotFull, EnRear, EnCopy,
         Goto, queue, CallsInv, Thread, LockedInv, TypeOK
  <2> QED
    BY <2>1 DEF CallsInv
<1>3. ASSUME NEW c \in Consumers, DeDataQueue(c) PROVE CallsInv'
  <2>1. alive' = alive /\ alive
    BY <1>3 DEF DeDataQueue, DeLock, DeEmpty, DeNotEmpty, DeLoad, DeStore, DeDrop, DeCopy,
         queue, CallsInv, Thread
  <2>2. /\ \A u \in Thread : u # c => pc'[u] = pc[u]
        /\ \A u \in Consumers : u # c => out'[u] = out[u]
        /\ pc'[c] \in DeLabel => out'[c] = Untouched
    BY <1>3 DEF DeDataQueue, DeLock, DeEmpty, DeNotEmpty, DeLoad, DeStore, DeDrop, DeCopy,
         Goto, CallsInv, Thread, LockedInv, TypeOK, DeLabel
  <2>3. \A k \in Cleaners : pc'[k] = "all_rear" => front' = 0
    <3>1. c \notin Cleaners /\ c \in Thread
      BY ThreadAssumption DEF Thread
    <3>2. front' = front \/ pc[c] = "de_store"
      BY <1>3 DEF DeDataQueue, DeLock, DeEmpty, DeNotEmpty, DeLoad, DeStore, DeDrop, DeCopy,
           queue
    <3> QED
      BY <2>2, <3>1, <3>2 DEF CallsInv, ResetAlone, Thread
  <2> QED
    BY <2>1, <2>2, <2>3 DEF CallsInv, Thread
<1>4. ASSUME NEW k \in Cleaners, DeAllDataQueue(k) PROVE CallsInv'
  <2>1. k \in Thread /\ k \notin Consumers
    BY ThreadAssumption DEF Thread
  <2>2. /\ alive' = alive /\ alive /\ out' = out
        /\ \A u \in Thread : u # k => pc'[u] = pc[u]
        /\ pc'[k] = "all_rear" => front' = 0
    BY <1>4, <2>1 DEF DeAllDataQueue, AllLock, AllFront, AllRear, queue, Goto, CallsInv,
         LockedInv, TypeOK
  <2>3. front' = front \/ front' = 0
    BY <1>4 DEF DeAllDataQueue, AllLock, AllFront, AllRear, queue
  <2> QED
    BY <2>1, <2>2, <2>3 DEF CallsInv, Thread
<1> QED
  BY <1>1, <1>2, <1>3, <1>4 DEF Next

(* The tests of a call still hold when it acts on them. *)
LEMMA StaleNext == QueueInv /\ OrderlyNext => StaleTestsHold'
<1> SUFFICES ASSUME QueueInv, OrderlyNext PROVE StaleTestsHold'
  OBVIOUS
<1> USE DEF QueueInv
<1> Next /\ ResetAlone'
  BY DEF OrderlyNext
<1> USE DEF LockedInv, EmptyDataSequeue, FullDataSequeue
<1>1. CASE CreateEmptyDataSequeue \/ DestroyDataSequeue
  BY <1>1 DEF CreateEmptyDataSequeue, DestroyDataSequeue, Idle, StaleTestsHold, Thread
<1>2. ASSUME NEW p \in Producers, EnDataQueue(p) PROVE StaleTestsHold'
  <2>1. p \in Thread /\ p \notin Consumers
    BY ThreadAssumption DEF Thread
  <2>2. /\ front' = front /\ loc' = loc
        /\ \A u \in Thread : u # p => pc'[u] = pc[u]
    BY <1>2 DEF EnDataQueue, EnLock, EnFull, EnNotFull, EnRear, EnCopy, Goto, queue, TypeOK
  <2>3. \A u \in Producers : pc'[u] = "en_rear" => NextSlot(rear') # front
    <3>1. CASE EnRear(p)
      BY <3>1, <2>1, <2>2, HolderOnly DEF EnRear, Goto, TypeOK, LockDiscipline, EnLabel, Thread
    <3>2. CASE EnNotFull(p)
      BY <3>2, <2>2 DEF EnNotFull, Goto, TypeOK, StaleTestsHold, queue, Thread
    <3>3. CASE EnFull(p) \/ EnCopy(p) \/ \E v \in Value : EnLock(p, v)
      BY <3>3, <2>1, <2>2 DEF EnFull, EnCopy, EnLock, Goto, TypeOK, StaleTestsHold, queue, Thread
    <3> QED
      BY <1>2, <3>1, <3>2, <3>3 DEF EnDataQueue
  <2>4. \A c \in Consumers : pc'[c] \in {"de_load", "de_store"} => rear' # front
    BY <1>2, <2>1, <2>2 DEF EnDataQueue, EnLock, EnFull, EnNotFull, EnRear, EnCopy, queue,
         StaleTestsHold, Thread
  <2> QED
    BY <2>1, <2>2, <2>3, <2>4 DEF StaleTestsHold, Thread
<1>3. ASSUME NEW c \in Consumers, DeDataQueue(c) PROVE StaleTestsHold'
  <2>1. c \in Thread /\ c \notin Producers
    BY ThreadAssumption DEF Thread
  <2>2. /\ rear' = rear
        /\ \A u \in Thread : u # c => pc'[u] = pc[u]
        /\ \A u \in Consumers : u # c => loc'[u] = loc[u]
    BY <1>3 DEF DeDataQueue, DeLock, DeEmpty, DeNotEmpty, DeLoad, DeStore, DeDrop, DeCopy,
         Goto, queue, TypeOK
  <2>3. CASE DeStore(c)
    <3>1. front # rear /\ front \in Index /\ rear \in Index /\ front' = NextSlot(front)
      BY <2>3 DEF DeStore, StaleTestsHold, TypeOK
    <3>2. NextSlot(rear) # NextSlot(front)
      BY <3>1, NextSlotValue, MaxDataSequeueAssumption DEF Index
    <3>3. \A u \in Consumers : pc'[u] \notin {"de_load", "de_store"}
      BY <2>3, <2>1, <2>2 DEF DeStore, Goto, TypeOK, LockDiscipline, DeLabel, Thread
    <3> QED
      BY <2>1, <2>2, <3>1, <3>2, <3>3 DEF StaleTestsHold, Thread
  <2>4. CASE DeLoad(c)
    BY <2>4, <2>1, <2>2 DEF DeLoad, Goto, TypeOK, StaleTestsHold, Thread, queue
  <2>5. CASE DeNotEmpty(c)
    BY <2>5, <2>1, <2>2 DEF DeNotEmpty, Goto, TypeOK, StaleTestsHold, Thread, queue
  <2>6. CASE DeLock(c) \/ DeEmpty(c) \/ DeDrop(c) \/ DeCopy(c)
    BY <2>6, <2>1, <2>2 DEF DeLock, DeEmpty, DeDrop, DeCopy, Goto, TypeOK, StaleTestsHold,
         Thread, queue
  <2> QED
    BY <1>3, <2>3, <2>4, <2>5, <2>6 DEF DeDataQueue
<1>4. ASSUME NEW k \in Cleaners, DeAllDataQueue(k) PROVE StaleTestsHold'
  <2>1. k \in Thread /\ k \notin Consumers /\ k \notin Producers
    BY ThreadAssumption DEF Thread
  <2>2. loc' = loc /\ \A u \in Thread : u # k => pc'[u] = pc[u]
    BY <1>4 DEF DeAllDataQueue, AllLock, AllFront, AllRear, Goto, TypeOK
  <2>3. CASE AllLock(k)
    BY <2>1, <2>2, <2>3 DEF AllLock, queue, StaleTestsHold, Thread
  <2>4. CASE AllFront(k) \/ AllRear(k)
    <3>1. enLock = k /\ pc[k] # "idle"
      BY <2>1, <2>4 DEF AllFront, AllRear, LockDiscipline, AllLabel
    <3>2. \A p \in Producers : pc'[p] # "en_rear"
      BY <2>1, <2>2, <3>1, HolderOnly DEF EnLabel, Thread
    <3>3. \A c \in Consumers : pc'[c] = "idle"
      BY <2>1, <2>2, <3>1 DEF ResetAlone, Thread
    <3> QED
      BY <3>2, <3>3 DEF StaleTestsHold
  <2> QED
    BY <1>4, <2>3, <2>4 DEF DeAllDataQueue
<1> QED
  BY <1>1, <1>2, <1>3, <1>4 DEF Next

(* The element a dequeuer has taken stays in slot front until it is copied. *)
LEMMA OwedNext == QueueInv /\ OrderlyNext => OwedInSlot'
<1> SUFFICES ASSUME QueueInv, OrderlyNext PROVE OwedInSlot'
  OBVIOUS
<1> USE DEF QueueInv
<1> Next /\ ResetAlone'
  BY DEF OrderlyNext
<1>a. ASSUME Quiet, owed' = owed, \A c \in Consumers : pc'[c] = "de_copy" => pc[c] = "de_copy"
      PROVE  OwedInSlot'
  BY <1>a DEF Quiet, OwedInSlot, LockedInv, TypeOK
<1>1. CASE CreateEmptyDataSequeue \/ DestroyDataSequeue
  BY <1>1 DEF CreateEmptyDataSequeue, DestroyDataSequeue, Idle, OwedInSlot, Thread
<1>2. ASSUME NEW p \in Producers, EnDataQueue(p) PROVE OwedInSlot'
  <2>1. p \in Thread /\ p \notin Consumers
    BY ThreadAssumption DEF Thread
  <2>2. owed' = owed /\ \A c \in Consumers : pc'[c] = pc[c]
    BY <1>2, <2>1 DEF EnDataQueue, EnLock, EnFull, EnNotFull, EnRear, EnCopy, Goto, Thread,
         LockedInv, TypeOK
  <2>3. CASE EnRear(p)
    <3>1. /\ front' = front /\ front # rear' /\ front \in Index /\ data' = data
          /\ enLock = p /\ pc[p] = "en_rear"
      BY <2>1, <2>3 DEF EnRear, StaleTestsHold, FullDataSequeue, LockedInv, TypeOK,
           LockDiscipline, EnLabel
    <3>2. \A u \in Producers : pc[u] # "en_copy"
      BY <2>1, <3>1, HolderOnly DEF EnLabel
    <3>3. Content(front) = data[front] /\ Content(front)' = data[front]
      BY <3>1, <3>2, NotFilling DEF Content, Filling
    <3> QED
      BY <2>2, <3>1, <3>3 DEF OwedInSlot
  <2> QED
    BY <1>2, <1>a, <2>2, <2>3, EnqueuerIsQuiet DEF EnDataQueue
<1>3. ASSUME NEW c \in Consumers, DeDataQueue(c) PROVE OwedInSlot'
  <2>1. c \in Thread /\ c \notin Producers
    BY ThreadAssumption DEF Thread
  <2>2. CASE DeStore(c)
    <3>1. /\ front' = NextSlot(front) /\ deLock = c /\ front' \in Index
          /\ owed' = [owed EXCEPT ![c] = Content(NextSlot(front))]
          /\ rear' = rear /\ data' = data /\ arg' = arg /\ enLock' = enLock
      BY <2>1, <2>2, NextSlotValue
         DEF DeStore, StaleTestsHold, LockedInv, TypeOK, LockDiscipline, DeLabel, locks
    <3>2. \A u \in Thread : u # c => pc'[u] = pc[u]
      BY <2>2 DEF DeStore, Goto, LockedInv, TypeOK
    <3>3. \A u \in Consumers : pc'[u] = "de_copy" => u = c
      BY <3>1, <3>2 DEF LockedInv, LockDiscipline, DeLabel, Thread
    <3>4. Content(front)' = Content(NextSlot(front))
      BY <2>1, <3>1, <3>2 DEF Content, Filling, Thread
    <3> QED
      BY <3>1, <3>3, <3>4 DEF OwedInSlot, LockedInv, TypeOK
  <2>3. CASE ~ DeStore(c)
    <3>1. owed' = owed
      BY <1>3, <2>3 DEF DeDataQueue, DeLock, DeEmpty, DeNotEmpty, DeLoad, DeDrop, DeCopy
    <3>2. \A u \in Consumers : pc'[u] = "de_copy" => pc[u] = "de_copy"
      BY <1>3, <2>1, <2>3 DEF DeDataQueue, DeLock, DeEmpty, DeNotEmpty, DeLoad, DeDrop, DeCopy,
           Goto, LockedInv, TypeOK, Thread
    <3> QED
      BY <1>3, <1>a, <2>3, <3>1, <3>2, DequeuerIsQuiet DEF DeDataQueue
  <2> QED
    BY <2>2, <2>3
<1>4. ASSUME NEW k \in Cleaners, DeAllDataQueue(k) PROVE OwedInSlot'
  <2>1. k \in Thread /\ k \notin Consumers
    BY ThreadAssumption DEF Thread
  <2>2. owed' = owed /\ \A u \in Consumers : pc'[u] = pc[u]
    BY <1>4, <2>1 DEF DeAllDataQueue, AllLock, AllFront, AllRear, Goto, Thread, LockedInv,
         TypeOK
  <2>3. CASE AllLock(k)
    BY <1>a, <2>2, <2>3, ResetStartIsQuiet
  <2>4. CASE AllFront(k) \/ AllRear(k)
    <3>1. \A c \in Consumers : pc[c] = "idle"
      BY <2>4 DEF ResetAlone, AllFront, AllRear
    <3> QED
      BY <2>2, <3>1 DEF OwedInSlot
  <2> QED
    BY <1>4, <2>3, <2>4 DEF DeAllDataQueue
<1> QED
  BY <1>1, <1>2, <1>3, <1>4 DEF Next

LEMMA QueueNext == QueueInv /\ [OrderlyNext]_vars => QueueInv'
<1>1. QueueInv /\ OrderlyNext => QueueInv'
  BY LockedNext, CallsNext, StaleNext, OwedNext DEF QueueInv, OrderlyNext
<1>2. QueueInv /\ UNCHANGED vars => QueueInv'
  <2> SUFFICES ASSUME QueueInv, UNCHANGED vars PROVE QueueInv'
    OBVIOUS
  <2>1. LockedInv'
    BY LockedNext DEF QueueInv
  <2>2. CallsInv' /\ ResetAlone'
    BY DEF QueueInv, CallsInv, ResetAlone, vars
  <2>3. StaleTestsHold' /\ OwedInSlot'
    BY DEF QueueInv, StaleTestsHold, OwedInSlot, FullDataSequeue, EmptyDataSequeue, NextSlot,
         Content, Filling, vars
  <2> QED
    BY <2>1, <2>2, <2>3 DEF QueueInv
<1> QED
  BY <1>1, <1>2

LEMMA QueueInvariant == OrderlySpec => []QueueInv
BY QueueInit, QueueNext, PTL DEF OrderlySpec, OrderlyNext

(* No enqueuer acts on a stale "not full", no dequeuer on a stale "not      *)
(* empty", although they test and move their indices under different locks. *)
THEOREM TestsHold == OrderlySpec => []StaleTestsHold
<1>1. QueueInv => StaleTestsHold
  BY DEF QueueInv
<1> QED
  BY <1>1, QueueInvariant, PTL

(* The slot a dequeuer copies out is not filled again under its hands. *)
THEOREM OwedStays == OrderlySpec => []OwedInSlot
<1>1. QueueInv => OwedInSlot
  BY DEF QueueInv
<1> QED
  BY <1>1, QueueInvariant, PTL

(* What DeDataQueue hands out is the oldest element, unless its enqueuer    *)
(* was still copying it in.                                                 *)
THEOREM DequeueOrder == OrderlySpec => DequeuesOldest
<1>1. QueueInv /\ [OrderlyNext]_vars =>
        [\A c \in Consumers : Returns(c) => out'[c] \in {Untouched, owed[c]} \/ Filling(front)]_vars
  <2> SUFFICES ASSUME QueueInv, OrderlyNext, NEW c \in Consumers, Returns(c), ~ Filling(front)
               PROVE  out'[c] \in {Untouched, owed[c]}
    OBVIOUS
  <2> Next /\ c \in Thread
    BY DEF OrderlyNext, Thread
  <2>1. out[c] = Untouched /\ owed[c] = data[front]
    BY DEF QueueInv, CallsInv, OwedInSlot, Content, Returns, DeLabel
  <2>2. out' = out \/ \E d \in Consumers : DeLock(d) \/ DeCopy(d)
    BY DEF Next, CreateEmptyDataSequeue, DestroyDataSequeue, EnDataQueue, EnLock, EnFull,
         EnNotFull, EnRear, EnCopy, DeDataQueue, DeEmpty, DeNotEmpty, DeLoad, DeStore, DeDrop,
         DeAllDataQueue, AllLock, AllFront, AllRear
  <2>3. ASSUME NEW d \in Consumers, DeLock(d) \/ DeCopy(d)
        PROVE  out'[c] \in {Untouched, owed[c]}
    BY <2>1, <2>3 DEF DeLock, DeCopy, Goto, QueueInv, LockedInv, TypeOK
  <2> QED
    BY <2>1, <2>2, <2>3
<1> QED
  BY <1>1, QueueInvariant, PTL DEF OrderlySpec, OrderlyNext, DequeuesOldest

-----------------------------------------------------------------------------
(* The ring implements the bounded queue *)

(* How many slots lie between two indices. *)
LEMMA OccupancyValue ==
  ASSUME NEW f \in Index, NEW r \in Index
  PROVE  /\ (r + MaxDataSequeue - f) % MaxDataSequeue =
              IF f <= r THEN r - f ELSE r + MaxDataSequeue - f
         /\ (r + MaxDataSequeue - f) % MaxDataSequeue \in 0 .. MaxDataSequeue - 1
<1>1. r + MaxDataSequeue - f \in 0 .. (2 * MaxDataSequeue - 1)
  BY MaxDataSequeueAssumption DEF Index
<1> QED
  BY <1>1, RingTurn, MaxDataSequeueAssumption DEF Index

(* The slot i places behind front. *)
LEMMA SlotValue ==
  ASSUME NEW f \in Index, NEW i \in 1 .. MaxDataSequeue - 1
  PROVE  /\ (f + i) % MaxDataSequeue =
              IF f + i < MaxDataSequeue THEN f + i ELSE f + i - MaxDataSequeue
         /\ (f + i) % MaxDataSequeue \in Index
<1>1. f + i \in 0 .. (2 * MaxDataSequeue - 1)
  BY MaxDataSequeueAssumption DEF Index
<1>2. (f + i) % MaxDataSequeue =
        IF f + i < MaxDataSequeue THEN f + i ELSE f + i - MaxDataSequeue
  BY <1>1, RingTurn, MaxDataSequeueAssumption DEF Index
<1> QED
  BY <1>1, <1>2, MaxDataSequeueAssumption DEF Index

(* Contents is what the slots from behind front to rear hold. *)
ContentsShape ==
  /\ Contents \in Seq(Datum)
  /\ alive /\ (\A k \in Cleaners : pc[k] # "all_rear") =>
       /\ Len(Contents) = Occupancy
       /\ \A i \in 1 .. Occupancy : Contents[i] = Content((front + i) % MaxDataSequeue)

LEMMA ContentsType == LockedInv => ContentsShape
<1> SUFFICES ASSUME LockedInv PROVE ContentsShape
  OBVIOUS
<1>1. front \in Index /\ rear \in Index /\ MaxDataSequeue \in Nat
  BY MaxDataSequeueAssumption DEF LockedInv, TypeOK
<1>2. Occupancy \in Nat /\ Occupancy <= MaxDataSequeue - 1
  BY <1>1, OccupancyValue, MaxDataSequeueAssumption DEF Occupancy
<1>3. \A i \in 1 .. Occupancy : Content((front + i) % MaxDataSequeue) \in Datum
  BY <1>1, <1>2, SlotValue, ContentType
<1>4. [i \in 1 .. Occupancy |-> Content((front + i) % MaxDataSequeue)] \in Seq(Datum)
  BY <1>2, <1>3
<1> QED
  BY <1>2, <1>4 DEF Contents, ContentsShape

LEMMA ContentsTypeNext == LockedInv' => ContentsShape'
BY ContentsType, PTL

LEMMA QuietStutters == LockedInv /\ Quiet => Contents' = Contents
<1> SUFFICES ASSUME LockedInv, Quiet PROVE Contents' = Contents
  OBVIOUS
<1>1. Occupancy' = Occupancy /\ front' = front /\ alive' = alive
  BY DEF Quiet, Occupancy
<1>2. front \in Index /\ Occupancy \in 0 .. MaxDataSequeue - 1 /\ MaxDataSequeue \in Nat
  BY OccupancyValue, MaxDataSequeueAssumption DEF LockedInv, TypeOK, Occupancy
<1>3. \A i \in 1 .. Occupancy :
        Content((front + i) % MaxDataSequeue)' = Content((front + i) % MaxDataSequeue)
  <2> TAKE i \in 1 .. Occupancy
  <2>1. (front + i) % MaxDataSequeue \in Index
    BY <1>2, SlotValue
  <2> QED
    BY <1>1, <2>1 DEF Quiet, Content, Filling
<1>4. [i \in 1 .. Occupancy |-> Content((front + i) % MaxDataSequeue)]' =
        [i \in 1 .. Occupancy |-> Content((front + i) % MaxDataSequeue)]
  BY <1>1, <1>3 DEF Content, Filling
<1>5. (\A k \in Cleaners : pc[k] # "all_rear")' <=> \A k \in Cleaners : pc[k] # "all_rear"
  BY DEF Quiet
<1> QED
  BY <1>1, <1>4, <1>5, Zenon DEF Contents

(* Moving rear enqueues: the slot it reaches holds the enqueuer's argument. *)
LEMMA RearPuts ==
  ASSUME QueueInv, NEW p \in Producers, EnRear(p)
  PROVE  Fifo!Put(arg[p])
<1> USE DEF QueueInv, LockedInv
<1>1. p \in Thread /\ p \notin Consumers /\ p \notin Cleaners
  BY ThreadAssumption DEF Thread
<1>2. /\ front \in Index /\ rear \in Index /\ rear' \in Index
      /\ front' = front /\ rear' = NextSlot(rear) /\ rear' # front
      /\ data' = data /\ alive' = alive /\ alive /\ arg' = arg /\ enLock' = enLock /\ enLock = p
  BY <1>1, NextSlotValue
     DEF EnRear, StaleTestsHold, FullDataSequeue, TypeOK, LockDiscipline, EnLabel, CallsInv,
         locks, Thread
<1>3. \A u \in Thread : u # p => pc'[u] = pc[u]
  BY DEF EnRear, Goto, TypeOK
<1>4. /\ \A u \in Producers : pc[u] # "en_copy"
      /\ \A k \in Cleaners : pc[k] # "all_rear" /\ pc'[k] # "all_rear"
  <2>1. \A u \in Producers : u # p => pc[u] # "en_copy"
    BY <1>1, <1>2, HolderOnly DEF EnLabel
  <2>2. \A k \in Cleaners : pc[k] # "all_rear"
    BY <1>1, <1>2, HolderOnly DEF AllLabel
  <2> QED
    BY <1>1, <1>3, <2>1, <2>2 DEF EnRear, Thread
<1>5. LockedInv'
  BY LockedNext DEF Next, EnDataQueue
<1>6. /\ Occupancy' = Occupancy + 1 /\ Occupancy \in Nat /\ Occupancy + 1 <= MaxDataSequeue - 1
      /\ Occupancy = IF front <= rear THEN rear - front ELSE rear + MaxDataSequeue - front
      /\ rear' = IF rear = MaxDataSequeue - 1 THEN 0 ELSE rear + 1
  <2>1. rear' = IF rear = MaxDataSequeue - 1 THEN 0 ELSE rear + 1
    BY <1>2, NextSlotValue
  <2>2. Occupancy = IF front <= rear THEN rear - front ELSE rear + MaxDataSequeue - front
    BY <1>2, OccupancyValue DEF Occupancy
  <2>3. Occupancy' = IF front' <= rear' THEN rear' - front'
                     ELSE rear' + MaxDataSequeue - front'
    BY <1>2, OccupancyValue DEF Occupancy
  <2> QED
    BY <1>2, <2>1, <2>2, <2>3, MaxDataSequeueAssumption DEF Index
<1>7. /\ Contents \in Seq(Datum) /\ Len(Contents) = Occupancy
      /\ \A i \in 1 .. Occupancy : Contents[i] = Content((front + i) % MaxDataSequeue)
  BY <1>2, <1>4, ContentsType DEF ContentsShape
<1>8. /\ Contents' \in Seq(Datum) /\ Len(Contents') = Occupancy + 1
      /\ \A i \in 1 .. Occupancy + 1 :
           \A s \in Index : s = (front' + i) % MaxDataSequeue => Contents'[i] = Content(s)'
  <2>1. /\ Contents' \in Seq(Datum)
        /\ Len(Contents') = Occupancy'
        /\ \A i \in 1 .. Occupancy' : Contents'[i] = Content((front + i) % MaxDataSequeue)'
    BY <1>2, <1>4, <1>5, ContentsTypeNext DEF ContentsShape
  <2> QED
    BY <1>6, <2>1 DEF Content, Filling
<1>9. \A i \in 1 .. Occupancy : Contents'[i] = Contents[i]
  <2> SUFFICES ASSUME NEW i \in 1 .. Occupancy PROVE Contents'[i] = Contents[i]
    OBVIOUS
  <2>0. i \in 1 .. MaxDataSequeue - 1
    BY <1>6, MaxDataSequeueAssumption
  <2>1. PICK s \in Index :
          /\ s = (front + i) % MaxDataSequeue
          /\ s = IF front + i < MaxDataSequeue THEN front + i ELSE front + i - MaxDataSequeue
    BY <1>2, <2>0, SlotValue
  <2>2. s # rear'
    BY <1>2, <1>6, <2>1, MaxDataSequeueAssumption DEF Index
  <2>3. Content((front + i) % MaxDataSequeue) = data[s]
    BY <1>4, <2>1, NotFilling
  <2>4. Content(s)' = data[s]
    BY <1>2, <2>2 DEF Content, Filling
  <2>5. Contents'[i] = Content(s)'
    BY <1>2, <1>6, <1>8, <2>1
  <2> QED
    BY <1>7, <2>3, <2>4, <2>5
<1>10. Contents'[Occupancy + 1] = arg[p]
  <2>0. Occupancy + 1 \in 1 .. MaxDataSequeue - 1
    BY <1>6, MaxDataSequeueAssumption
  <2>1. PICK s \in Index :
          /\ s = (front + (Occupancy + 1)) % MaxDataSequeue
          /\ s = IF front + (Occupancy + 1) < MaxDataSequeue THEN front + (Occupancy + 1)
                 ELSE front + (Occupancy + 1) - MaxDataSequeue
    BY <1>2, <2>0, SlotValue
  <2>2. s = rear'
    BY <1>2, <1>6, <2>1, MaxDataSequeueAssumption DEF Index
  <2>3. pc'[p] = "en_copy"
    BY <1>1 DEF EnRear, Goto, TypeOK
  <2>4. s = (front' + (Occupancy + 1)) % MaxDataSequeue
    BY <1>2, <2>1
  <2>5. Contents'[Occupancy + 1] = Content(s)'
    BY <1>6, <1>8, <2>4
  <2>6. Content(s)' = arg[p]
    BY <1>2, <2>2, <2>3 DEF Content, Filling
  <2> QED
    BY <2>5, <2>6
<1>11. Contents' = Append(Contents, arg[p])
  <2>1. arg[p] \in Datum
    BY DEF TypeOK, Datum
  <2>2. /\ Append(Contents, arg[p]) \in Seq(Datum)
        /\ Len(Append(Contents, arg[p])) = Occupancy + 1
        /\ \A i \in 1 .. Occupancy : Append(Contents, arg[p])[i] = Contents[i]
        /\ Append(Contents, arg[p])[Occupancy + 1] = arg[p]
    BY <1>6, <1>7, <2>1, AppendProperties
  <2>3. \A i \in 1 .. Occupancy + 1 : Contents'[i] = Append(Contents, arg[p])[i]
    BY <1>6, <1>9, <1>10, <2>2
  <2> QED
    BY <1>6, <1>8, <2>2, <2>3, SeqEqual
<1> QED
  BY <1>6, <1>7, <1>11, MaxDataSequeueAssumption DEF Fifo!Put

(* Moving front dequeues the head. *)
LEMMA FrontGets ==
  ASSUME QueueInv, OrderlyNext, NEW c \in Consumers, DeStore(c)
  PROVE  Fifo!Get
<1> USE DEF QueueInv, LockedInv
<1>1. c \in Thread /\ c \notin Producers /\ c \notin Cleaners
  BY ThreadAssumption DEF Thread
<1>2. /\ front \in Index /\ rear \in Index /\ front' \in Index
      /\ rear' = rear /\ front' = NextSlot(front) /\ rear # front
      /\ data' = data /\ alive' = alive /\ alive /\ arg' = arg /\ enLock' = enLock
  BY <1>1, NextSlotValue DEF DeStore, StaleTestsHold, EmptyDataSequeue, TypeOK, CallsInv, locks
<1>3. \A u \in Producers \cup Cleaners : pc'[u] = pc[u]
  BY <1>1 DEF DeStore, Goto, TypeOK, Thread
<1>4. \A k \in Cleaners : pc[k] # "all_rear" /\ pc'[k] # "all_rear"
  BY <1>3 DEF ResetAlone, DeStore
<1>5. LockedInv'
  BY LockedNext DEF OrderlyNext
<1>6. Occupancy' = Occupancy - 1 /\ Occupancy \in Nat \ {0} /\ Occupancy <= MaxDataSequeue - 1
  <2>1. front' = IF front = MaxDataSequeue - 1 THEN 0 ELSE front + 1
    BY <1>2, NextSlotValue
  <2>2. Occupancy = IF front <= rear THEN rear - front ELSE rear + MaxDataSequeue - front
    BY <1>2, OccupancyValue DEF Occupancy
  <2>3. Occupancy' = IF front' <= rear' THEN rear' - front'
                     ELSE rear' + MaxDataSequeue - front'
    BY <1>2, OccupancyValue DEF Occupancy
  <2> QED
    BY <1>2, <2>1, <2>2, <2>3, MaxDataSequeueAssumption DEF Index
<1>7. /\ Contents \in Seq(Datum) /\ Len(Contents) = Occupancy
      /\ \A i \in 1 .. Occupancy : Contents[i] = Content((front + i) % MaxDataSequeue)
  BY <1>2, <1>4, ContentsType DEF ContentsShape
<1>8. /\ Contents' \in Seq(Datum) /\ Len(Contents') = Occupancy - 1
      /\ \A i \in 1 .. Occupancy - 1 :
           \A s \in Index : s = (front' + i) % MaxDataSequeue => Contents'[i] = Content(s)'
  <2>1. /\ Contents' \in Seq(Datum)
        /\ Len(Contents') = Occupancy'
        /\ \A i \in 1 .. Occupancy' : Contents'[i] = Content((front + i) % MaxDataSequeue)'
    BY <1>2, <1>4, <1>5, ContentsTypeNext DEF ContentsShape
  <2> QED
    BY <1>6, <2>1 DEF Content, Filling
<1>9. \A s \in Index : Content(s)' = Content(s)
  BY <1>2, <1>3 DEF Content, Filling
<1>10. \A i \in 1 .. Occupancy - 1 : Contents'[i] = Contents[i + 1]
  <2> SUFFICES ASSUME NEW i \in 1 .. Occupancy - 1 PROVE Contents'[i] = Contents[i + 1]
    OBVIOUS
  <2>1. /\ i \in 1 .. MaxDataSequeue - 1
        /\ i + 1 \in 1 .. MaxDataSequeue - 1 /\ i + 1 \in 1 .. Occupancy
    BY <1>6, MaxDataSequeueAssumption
  <2>2. PICK s \in Index :
          /\ s = (front + (i + 1)) % MaxDataSequeue
          /\ s = IF front + (i + 1) < MaxDataSequeue THEN front + (i + 1)
                 ELSE front + (i + 1) - MaxDataSequeue
    BY <1>2, <2>1, SlotValue
  <2>3. PICK r \in Index :
          /\ r = (front' + i) % MaxDataSequeue
          /\ r = IF front' + i < MaxDataSequeue THEN front' + i ELSE front' + i - MaxDataSequeue
    BY <1>2, <2>1, SlotValue
  <2>4. front' = IF front = MaxDataSequeue - 1 THEN 0 ELSE front + 1
    BY <1>2, NextSlotValue
  <2>5. r = s
    BY <1>2, <2>1, <2>2, <2>3, <2>4, MaxDataSequeueAssumption DEF Index
  <2> QED
    BY <1>7, <1>8, <1>9, <2>1, <2>2, <2>3, <2>5
<1>11. Contents # << >> /\ Contents' = Tail(Contents)
  <2>1. Contents # << >>
    BY <1>6, <1>7
  <2>2. /\ Tail(Contents) \in Seq(Datum)
        /\ Len(Tail(Contents)) = Occupancy - 1
        /\ \A i \in 1 .. Occupancy - 1 : Tail(Contents)[i] = Contents[i + 1]
    BY <1>6, <1>7, <2>1, HeadTailProperties
  <2> QED
    BY <1>8, <1>10, <2>1, <2>2, SeqEqual
<1> QED
  BY <1>11 DEF Fifo!Get

(* A reset clears the abstract queue when it clears front. *)
LEMMA ResetClears ==
  ASSUME QueueInv, NEW k \in Cleaners, AllFront(k) \/ AllRear(k)
  PROVE  Contents' = << >>
<1> USE DEF QueueInv, LockedInv
<1>1. k \in Thread
  BY DEF Thread
<1>2. CASE AllFront(k)
  BY <1>1, <1>2 DEF AllFront, Goto, TypeOK, Contents
<1>3. CASE AllRear(k)
  <2>1. front' = 0 /\ rear' = 0
    BY <1>1, <1>3 DEF AllRear, CallsInv
  <2>2. Occupancy' = 0
    <3>1. 0 \in Index /\ 0 <= 0 /\ 0 - 0 = 0
      BY MaxDataSequeueAssumption DEF Index
    <3>2. (0 + MaxDataSequeue - 0) % MaxDataSequeue = 0
      BY <3>1, OccupancyValue
    <3> QED
      BY <2>1, <3>2 DEF Occupancy
  <2> QED
    BY <2>2 DEF Contents
<1> QED
  BY <1>2, <1>3

LEMMA InitRefines == Init => Fifo!Init
BY DEF Init, Fifo!Init, Contents

LEMMA StepRefines == QueueInv /\ OrderlyNext => Fifo!Next \/ Contents' = Contents
<1> SUFFICES ASSUME QueueInv, OrderlyNext PROVE Fifo!Next \/ Contents' = Contents
  OBVIOUS
<1> Next /\ LockedInv
  BY DEF OrderlyNext, QueueInv
<1>1. CASE CreateEmptyDataSequeue
  <2>1. Contents = << >>
    BY <1>1 DEF CreateEmptyDataSequeue, Contents
  <2>2. Contents' = << >>
    <3>1. 0 \in Index /\ 0 <= 0 /\ 0 - 0 = 0
      BY MaxDataSequeueAssumption DEF Index
    <3>2. (0 + MaxDataSequeue - 0) % MaxDataSequeue = 0
      BY <3>1, OccupancyValue
    <3>3. Occupancy' = 0
      BY <1>1, <3>2 DEF CreateEmptyDataSequeue, Occupancy
    <3> QED
      BY <3>3 DEF Contents
  <2> QED
    BY <2>1, <2>2
<1>2. CASE DestroyDataSequeue
  BY <1>2 DEF DestroyDataSequeue, Contents, Fifo!Next, Fifo!Clear
<1>3. ASSUME NEW p \in Producers, EnDataQueue(p) PROVE Fifo!Next \/ Contents' = Contents
  <2>1. CASE EnRear(p)
    <3>1. arg[p] \in Value
      BY DEF LockedInv, TypeOK
    <3> QED
      BY <2>1, <3>1, RearPuts DEF Fifo!Next
  <2> QED
    BY <1>3, <2>1, EnqueuerIsQuiet, QuietStutters DEF EnDataQueue
<1>4. ASSUME NEW c \in Consumers, DeDataQueue(c) PROVE Fifo!Next \/ Contents' = Contents
  <2>1. CASE DeStore(c)
    BY <2>1, FrontGets DEF Fifo!Next
  <2> QED
    BY <1>4, <2>1, DequeuerIsQuiet, QuietStutters DEF DeDataQueue
<1>5. ASSUME NEW k \in Cleaners, DeAllDataQueue(k) PROVE Fifo!Next \/ Contents' = Contents
  <2>1. CASE AllLock(k)
    BY <2>1, ResetStartIsQuiet, QuietStutters
  <2>2. CASE AllFront(k) \/ AllRear(k)
    BY <2>2, ResetClears DEF Fifo!Next, Fifo!Clear
  <2> QED
    BY <1>5, <2>1, <2>2 DEF DeAllDataQueue
<1> QED
  BY <1>1, <1>2, <1>3, <1>4, <1>5 DEF Next

(* The ring implements a first-in first-out queue of MAX_DATA_SEQUEUE - 1   *)
(* elements for any number of threads, although enqueuers and dequeuers     *)
(* share no lock, as long as no reset runs beside a dequeue.                *)
THEOREM RingIsAFifo == OrderlySpec => ImplementsFifo
<1>1. QueueInv /\ [OrderlyNext]_vars => [Fifo!Next]_Contents
  <2>1. UNCHANGED vars => Contents' = Contents
    BY DEF vars, Contents, Occupancy, Content, Filling
  <2> QED
    BY <2>1, StepRefines
<1> QED
  BY <1>1, InitRefines, QueueInvariant, PTL DEF OrderlySpec, OrderlyNext, ImplementsFifo, Fifo!Spec

-----------------------------------------------------------------------------
(* GetSequeueSize.  Between two steps of a call a watcher holds an old front *)
(* or an old rear; what it holds is front or rear itself as long as nothing  *)
(* moved it, and bounds the occupancy as long as the other did not move.    *)

Gap(f, r) == (r + MaxDataSequeue - f) % MaxDataSequeue

(* The value of x that watcher w goes by has been read in this call *)
Known(w, x) == phase[w] = "subtract" \/ x \in fresh[w]

FrontStays(w) ==
  /\ Known(w, "front") => seen[w].front = front
  /\ Known(w, "rear") => Gap(front, seen[w].rear) <= Occupancy

RearStays(w) ==
  /\ Known(w, "rear") => seen[w].rear = rear
  /\ Known(w, "front") => Gap(seen[w].front, rear) >= Occupancy

WatchOf(w) ==
  /\ ~Resetting
  /\ "taken" \notin moved[w] => FrontStays(w)
  /\ "put" \notin moved[w] => RearStays(w)
  /\ moved[w] = {} /\ phase[w] = "subtract" => larger[w] = (rear > front)

WatchInv ==
  \A w \in Watchers : phase[w] # "idle" /\ "reset" \notin moved[w] => WatchOf(w)

SizeInv == QueueInv /\ SizeTypeOK /\ WatchInv

LEMMA GapIsInt ==
  ASSUME NEW f \in Index, NEW r \in Index
  PROVE  Gap(f, r) \in Int
<1>1. Gap(f, r) \in 0 .. MaxDataSequeue - 1
  BY OccupancyValue DEF Gap
<1> QED
  BY <1>1, MaxDataSequeueAssumption

LEMMA OccupancyRange ==
  LockedInv => /\ front \in Index /\ rear \in Index
               /\ Occupancy = Gap(front, rear)
               /\ Occupancy \in 0 .. MaxDataSequeue - 1
               /\ Occupancy = IF front <= rear THEN rear - front ELSE rear + MaxDataSequeue - front
BY OccupancyValue DEF LockedInv, TypeOK, Occupancy, Gap

(* Unless the queue is being emptied a step moves one index at most, by one. *)
LEMMA OneIndexMoves ==
  ASSUME QueueInv, OrderlyNext, ~Resetting, ~Resetting', alive' = alive
  PROVE  \/ front' = front /\ rear' = rear
         \/ front' = front /\ Occupancy' = Occupancy + 1
         \/ rear' = rear /\ Occupancy' = Occupancy - 1
<1> LockedInv
  BY DEF QueueInv
<1>1. CASE CreateEmptyDataSequeue \/ DestroyDataSequeue
  BY <1>1 DEF CreateEmptyDataSequeue, DestroyDataSequeue
<1>2. ASSUME NEW p \in Producers, EnDataQueue(p)
      PROVE  \/ front' = front /\ rear' = rear
             \/ front' = front /\ Occupancy' = Occupancy + 1
  <2>1. CASE EnRear(p)
    <3>1. front' = front /\ rear' = NextSlot(rear) /\ rear' # front
      BY <2>1, ThreadAssumption DEF EnRear, QueueInv, StaleTestsHold, FullDataSequeue
    <3>2. /\ rear' = IF rear = MaxDataSequeue - 1 THEN 0 ELSE rear + 1
          /\ rear' \in Index
      BY <3>1, NextSlotValue, OccupancyRange
    <3>3. Occupancy' = IF front <= rear' THEN rear' - front ELSE rear' + MaxDataSequeue - front
      BY <3>1, <3>2, OccupancyRange, OccupancyValue DEF Occupancy
    <3> QED
      BY <3>1, <3>2, <3>3, OccupancyRange, MaxDataSequeueAssumption DEF Index
  <2>2. CASE ~EnRear(p)
    BY <1>2, <2>2 DEF EnDataQueue, EnLock, EnFull, EnNotFull, EnCopy, queue
  <2> QED
    BY <2>1, <2>2
<1>3. ASSUME NEW c \in Consumers, DeDataQueue(c)
      PROVE  \/ front' = front /\ rear' = rear
             \/ rear' = rear /\ Occupancy' = Occupancy - 1
  <2>1. CASE DeStore(c)
    <3>1. rear' = rear /\ front' = NextSlot(front) /\ rear # front
      BY <2>1 DEF DeStore, QueueInv, StaleTestsHold, EmptyDataSequeue
    <3>2. /\ front' = IF front = MaxDataSequeue - 1 THEN 0 ELSE front + 1
          /\ front' \in Index
      BY <3>1, NextSlotValue, OccupancyRange
    <3>3. Occupancy' = IF front' <= rear THEN rear - front' ELSE rear + MaxDataSequeue - front'
      BY <3>1, <3>2, OccupancyRange, OccupancyValue DEF Occupancy
    <3> QED
      BY <3>1, <3>2, <3>3, OccupancyRange, MaxDataSequeueAssumption DEF Index
  <2>2. CASE ~DeStore(c)
    BY <1>3, <2>2 DEF DeDataQueue, DeLock, DeEmpty, DeNotEmpty, DeLoad, DeDrop, DeCopy, queue
  <2> QED
    BY <2>1, <2>2
<1>4. ASSUME NEW k \in Cleaners, DeAllDataQueue(k)
      PROVE  front' = front /\ rear' = rear
  BY <1>4 DEF DeAllDataQueue, AllLock, AllFront, AllRear, Resetting, queue
<1> QED
  BY <1>1, <1>2, <1>3, <1>4 DEF OrderlyNext, Next

(* The other calls keep what a watcher may rely on, or it is marked. *)
LEMMA WatchQueueStep ==
  ASSUME SizeInv, QueueStep, QueueInv', NEW w \in Watchers,
         phase[w] # "idle", "reset" \notin moved'[w]
  PROVE  WatchOf(w)'
<1> LockedInv /\ OrderlyNext /\ LockedInv'
  BY DEF SizeInv, QueueInv, QueueStep, OrderlyNext
<1>1. alive' = alive
  BY DEF QueueStep
<1>2. moved'[w] = moved[w] \cup Happens
  BY DEF QueueStep
<1>3. ~Resetting' /\ "reset" \notin moved[w]
  BY <1>2 DEF Happens
<1>4. WatchOf(w) /\ ~Resetting
  BY <1>3 DEF SizeInv, WatchInv, WatchOf
<1>5. /\ phase' = phase /\ seen' = seen /\ fresh' = fresh /\ larger' = larger
      /\ seen[w].rear \in Index /\ seen[w].front \in Index
  BY DEF QueueStep, SizeInv, SizeTypeOK
<1>6. Known(w, "front")' = Known(w, "front") /\ Known(w, "rear")' = Known(w, "rear")
  BY <1>5 DEF Known
<1>7. /\ Occupancy \in Int /\ Occupancy' \in Int
      /\ Gap(front, seen[w].rear) \in Int /\ Gap(seen[w].front, rear) \in Int
  <2>1. front \in Index /\ rear \in Index /\ Occupancy \in Int
    BY OccupancyRange, MaxDataSequeueAssumption
  <2>2. Occupancy' \in Int
    <3>1. front' \in Index /\ rear' \in Index
      BY DEF LockedInv, TypeOK, Index
    <3>2. Gap(front', rear') \in Int
      BY <3>1, GapIsInt
    <3> QED
      BY <3>2 DEF Gap, Occupancy
  <2> QED
    BY <1>5, <2>1, <2>2, GapIsInt
<1>8. CASE front' = front /\ rear' = rear
  <2>1. Occupancy' = Occupancy
    BY <1>8 DEF Occupancy
  <2>2. moved'[w] = moved[w]
    BY <1>2, <1>3, <1>7, <2>1 DEF Happens
  <2>3. FrontStays(w)' = FrontStays(w) /\ RearStays(w)' = RearStays(w)
    BY <1>5, <1>6, <1>8, <2>1 DEF FrontStays, RearStays, Gap
  <2> QED
    BY <1>3, <1>4, <1>5, <1>8, <2>2, <2>3 DEF WatchOf
<1>9. CASE front' = front /\ Occupancy' = Occupancy + 1
  <2>1. "put" \in moved'[w] /\ moved[w] \subseteq moved'[w]
    BY <1>2, <1>7, <1>9 DEF Happens
  <2>2. FrontStays(w) => FrontStays(w)'
    BY <1>5, <1>6, <1>7, <1>9 DEF FrontStays, Gap
  <2> QED
    BY <1>3, <1>4, <2>1, <2>2 DEF WatchOf
<1>10. CASE rear' = rear /\ Occupancy' = Occupancy - 1
  <2>1. "taken" \in moved'[w] /\ moved[w] \subseteq moved'[w]
    BY <1>2, <1>7, <1>10 DEF Happens
  <2>2. RearStays(w) => RearStays(w)'
    BY <1>5, <1>6, <1>7, <1>10 DEF RearStays, Gap
  <2> QED
    BY <1>3, <1>4, <2>1, <2>2 DEF WatchOf
<1> QED
  BY <1>1, <1>3, <1>4, <1>8, <1>9, <1>10, OneIndexMoves DEF SizeInv

(* A step of a watcher changes what it holds itself, and nothing else. *)
LEMMA WatchOwnStep ==
  ASSUME SizeInv, NEW v \in Watchers, GetSequeueSize(v), NEW w \in Watchers,
         phase'[w] # "idle", "reset" \notin moved'[w]
  PROVE  WatchOf(w)'
<1>1. /\ front' = front /\ rear' = rear /\ Occupancy' = Occupancy /\ Resetting' = Resetting
  BY DEF GetSequeueSize, BeginSize, ReadRear, ReadFront, Compare, ReturnSize, vars, Occupancy,
         Resetting
<1>2. front \in Index /\ rear \in Index /\ Occupancy = Gap(front, rear) /\ Occupancy \in Int
  BY OccupancyRange DEF SizeInv, QueueInv
<1> USE DEF SizeInv, SizeTypeOK
<1>3. CASE w # v
  <2>1. /\ phase'[w] = phase[w] /\ seen'[w] = seen[w] /\ fresh'[w] = fresh[w]
        /\ larger'[w] = larger[w] /\ moved'[w] = moved[w]
    BY <1>3 DEF GetSequeueSize, BeginSize, ReadRear, ReadFront, Compare, ReturnSize
  <2>2. WatchOf(w)
    BY <2>1 DEF WatchInv
  <2> QED
    BY <1>1, <2>1, <2>2 DEF WatchOf, FrontStays, RearStays, Known, Gap
<1>4. CASE w = v /\ BeginSize(w)
  <2>1. /\ phase'[w] = "compare" /\ fresh'[w] = {} /\ moved'[w] = IF Resetting THEN {"reset"} ELSE {}
    BY <1>4 DEF BeginSize
  <2> QED
    BY <1>1, <2>1 DEF WatchOf, FrontStays, RearStays, Known
<1>5. CASE w = v /\ ReadRear(w)
  <2>1. /\ phase'[w] = phase[w] /\ fresh'[w] = fresh[w] \cup {"rear"} /\ moved'[w] = moved[w]
        /\ seen'[w].rear = rear /\ seen'[w].front = seen[w].front /\ larger'[w] = larger[w]
    BY <1>5 DEF ReadRear
  <2>2. WatchOf(w)
    BY <2>1 DEF WatchInv
  <2>3. FrontStays(w) => FrontStays(w)'
    BY <1>1, <1>2, <2>1 DEF FrontStays, Known, Gap
  <2>4. RearStays(w) => RearStays(w)'
    BY <1>1, <1>2, <2>1 DEF RearStays, Known, Gap
  <2> QED
    BY <1>1, <2>1, <2>2, <2>3, <2>4 DEF WatchOf
<1>6. CASE w = v /\ ReadFront(w)
  <2>1. /\ phase'[w] = phase[w] /\ fresh'[w] = fresh[w] \cup {"front"} /\ moved'[w] = moved[w]
        /\ seen'[w].front = front /\ seen'[w].rear = seen[w].rear /\ larger'[w] = larger[w]
    BY <1>6 DEF ReadFront
  <2>2. WatchOf(w)
    BY <2>1 DEF WatchInv
  <2>3. FrontStays(w) => FrontStays(w)'
    BY <1>1, <1>2, <2>1 DEF FrontStays, Known, Gap
  <2>4. RearStays(w) => RearStays(w)'
    BY <1>1, <1>2, <2>1 DEF RearStays, Known, Gap
  <2> QED
    BY <1>1, <2>1, <2>2, <2>3, <2>4 DEF WatchOf
<1>7. CASE w = v /\ Compare(w)
  <2>1. /\ phase[w] = "compare" /\ phase'[w] = "subtract" /\ moved'[w] = moved[w]
        /\ Known(w, "front") /\ Known(w, "rear") /\ seen'[w] = seen[w]
        /\ larger'[w] = (seen[w].rear > seen[w].front)
    BY <1>7 DEF Compare, Known
  <2>2. WatchOf(w)
    BY <2>1 DEF WatchInv
  <2>3. (FrontStays(w) => FrontStays(w)') /\ (RearStays(w) => RearStays(w)')
    BY <1>1, <2>1 DEF FrontStays, RearStays, Known, Gap
  <2>4. moved[w] = {} => seen[w].front = front /\ seen[w].rear = rear
    BY <2>1, <2>2 DEF WatchOf, FrontStays, RearStays
  <2> QED
    BY <1>1, <2>1, <2>2, <2>3, <2>4 DEF WatchOf
<1>8. CASE w = v /\ ReturnSize(w)
  BY <1>8 DEF ReturnSize
<1> QED
  BY <1>3, <1>4, <1>5, <1>6, <1>7, <1>8 DEF GetSequeueSize

LEMMA SizeTypeNext == SizeInv /\ SizeNext => SizeTypeOK'
<1> SUFFICES ASSUME SizeInv, SizeNext PROVE SizeTypeOK'
  OBVIOUS
<1>1. front \in Index /\ rear \in Index /\ 0 \in Index /\ Index \subseteq Int
  BY OccupancyRange, MaxDataSequeueAssumption DEF SizeInv, QueueInv, Index
<1>2. CASE QueueStep
  BY <1>2 DEF QueueStep, SizeInv, SizeTypeOK, Happens
<1> USE DEF SizeInv, SizeTypeOK
<1>3. ASSUME NEW w \in Watchers, BeginSize(w) \/ ReadRear(w) \/ ReadFront(w) \/ Compare(w)
      PROVE  SizeTypeOK'
  <2>1. CASE BeginSize(w)
    <3>1. Nothing \in [rear : Index, front : Index]
      BY <1>1 DEF Nothing
    <3>2. /\ seen' \in [Watchers -> [rear : Index, front : Index]]
          /\ moved' \in [Watchers -> SUBSET {"put", "taken", "reset"}]
      BY <2>1, <3>1 DEF BeginSize
    <3> QED
      BY <2>1, <3>2 DEF BeginSize
  <2>2. CASE ReadRear(w)
    BY <1>1, <2>2 DEF ReadRear
  <2>3. CASE ReadFront(w)
    BY <1>1, <2>3 DEF ReadFront
  <2>4. CASE Compare(w)
    <3>1. (seen[w].rear > seen[w].front) \in BOOLEAN
      BY <1>1
    <3>2. larger' \in [Watchers -> BOOLEAN]
      BY <2>4, <3>1, Zenon DEF Compare
    <3> QED
      BY <2>4, <3>2 DEF Compare
  <2> QED
    BY <1>3, <2>1, <2>2, <2>3, <2>4
<1>4. ASSUME NEW w \in Watchers, ReturnSize(w) PROVE SizeTypeOK'
  <2>1. seen[w].rear \in Int /\ seen[w].front \in Int /\ MaxDataSequeue \in Int
    <3>1. seen[w].rear \in Index /\ seen[w].front \in Index
      OBVIOUS
    <3> HIDE DEF SizeInv, SizeTypeOK
    <3> QED
      BY <3>1, MaxDataSequeueAssumption DEF Index
  <2>2. Difference(w) \in Int
    <3> HIDE DEF SizeInv, SizeTypeOK
    <3>1. PICK d : d = IF larger[w] THEN 0 ELSE MaxDataSequeue
      OBVIOUS
    <3>2. d \in Int
      BY <2>1, <3>1
    <3>3. Difference(w) = d + seen[w].rear - seen[w].front
      BY <3>1 DEF Difference
    <3> QED
      BY <2>1, <3>2, <3>3
  <2> QED
    BY <1>4, <2>2 DEF ReturnSize
<1> QED
  BY <1>2, <1>3, <1>4 DEF SizeNext, GetSequeueSize

LEMMA SizeInvNext == SizeInv /\ [SizeNext]_<< vars, sizeVars >> => SizeInv'
<1>1. ASSUME SizeInv, SizeNext PROVE SizeInv'
  <2>1. QueueInv'
    <3>1. CASE QueueStep
      BY <1>1, <3>1, QueueNext DEF SizeInv, QueueStep, OrderlyNext
    <3>2. CASE \E w \in Watchers : GetSequeueSize(w)
      <4>1. UNCHANGED vars
        BY <3>2 DEF GetSequeueSize, BeginSize, ReadRear, ReadFront, Compare, ReturnSize
      <4> QED
        BY <1>1, <4>1, QueueNext DEF SizeInv
    <3> QED
      BY <1>1, <3>1, <3>2 DEF SizeNext
  <2>2. WatchInv'
    <3> SUFFICES ASSUME NEW w \in Watchers, phase'[w] # "idle", "reset" \notin moved'[w]
                 PROVE  WatchOf(w)'
      BY DEF WatchInv
    <3>1. CASE QueueStep
      <4>1. phase[w] # "idle"
        BY <3>1 DEF QueueStep
      <4> QED
        BY <1>1, <2>1, <3>1, <4>1, WatchQueueStep
    <3>2. CASE \E v \in Watchers : GetSequeueSize(v)
      BY <1>1, <3>2, WatchOwnStep
    <3> QED
      BY <1>1, <3>1, <3>2 DEF SizeNext
  <2> QED
    BY <1>1, <2>1, <2>2, SizeTypeNext DEF SizeInv
<1>2. ASSUME SizeInv, UNCHANGED << vars, sizeVars >> PROVE SizeInv'
  <2>1. QueueInv'
    BY <1>2, QueueNext DEF SizeInv
  <2>2. SizeTypeOK'
    BY <1>2 DEF SizeInv, SizeTypeOK, sizeVars
  <2>3. WatchInv'
    BY <1>2 DEF SizeInv, WatchInv, WatchOf, FrontStays, RearStays, Known, Gap, Occupancy,
         Resetting, sizeVars, vars
  <2> QED
    BY <2>1, <2>2, <2>3 DEF SizeInv
<1> QED
  BY <1>1, <1>2

LEMMA SizeInvInit == SizeInit => SizeInv
<1> SUFFICES ASSUME SizeInit PROVE SizeInv
  OBVIOUS
<1>1. QueueInv
  BY QueueInit DEF SizeInit
<1>2. 0 \in Index
  BY MaxDataSequeueAssumption DEF Index
<1> QED
  BY <1>1, <1>2 DEF SizeInit, SizeInv, SizeTypeOK, WatchInv, Nothing

LEMMA SizeInvariant == SizeSpec => []SizeInv
BY SizeInvInit, SizeInvNext, PTL DEF SizeSpec

(* Type correctness of GetSequeueSize, for any number of watchers. *)
THEOREM SizeTypes == SizeSpec => []SizeTypeOK
<1>1. SizeInv => SizeTypeOK
  BY DEF SizeInv
<1> QED
  BY <1>1, SizeInvariant, PTL

(* An answer of GetSequeueSize that is a possible size is the distance of   *)
(* the two indices it was computed from.                                    *)
LEMMA PossibleIsGap ==
  ASSUME NEW w \in Watchers, SizeTypeOK, Difference(w) \in 1 .. MaxDataSequeue - 1
  PROVE  Difference(w) = Gap(seen[w].front, seen[w].rear)
<1>1. seen[w].front \in Index /\ seen[w].rear \in Index /\ larger[w] \in BOOLEAN
  BY DEF SizeTypeOK
<1>2. PICK f, r, n : f = seen[w].front /\ r = seen[w].rear /\ n = Difference(w)
  OBVIOUS
<1>3. f \in Index /\ r \in Index /\ n \in 1 .. MaxDataSequeue - 1
      /\ (n = r - f \/ n = MaxDataSequeue + r - f)
  BY <1>1, <1>2, MaxDataSequeueAssumption DEF Difference, Index
<1>4. Gap(f, r) = IF f <= r THEN r - f ELSE r + MaxDataSequeue - f
  BY <1>3, OccupancyValue DEF Gap
<1>5. n = Gap(f, r)
  BY <1>3, <1>4, MaxDataSequeueAssumption DEF Index
<1> QED
  BY <1>2, <1>5

(* GetSequeueSize takes no lock.  Its answer is exact when the queue stayed *)
(* as it was; otherwise, if it is a size at all, a dequeuer that kept other *)
(* dequeuers away finds so many elements, and an enqueuer that kept other   *)
(* enqueuers away finds room for the rest.                                  *)
THEOREM AnswerIsSafe == SizeSpec => SizeIsSafe
<1>1. ASSUME SizeInv, SizeNext, NEW w \in Watchers, SizeReturned(w), "reset" \notin moved[w]
      PROVE  /\ moved[w] = {} => size'[w] = IF EmptyDataSequeue THEN MaxDataSequeue ELSE Occupancy
             /\ size'[w] \in 1 .. MaxDataSequeue - 1 =>
                  /\ "taken" \notin moved[w] => size'[w] <= Occupancy
                  /\ "put" \notin moved[w] => size'[w] >= Occupancy
  <2> USE DEF SizeInv
  <2>1. ReturnSize(w)
    <3>1. CASE QueueStep
      BY <1>1, <3>1 DEF QueueStep, SizeReturned
    <3>2. ASSUME NEW v \in Watchers, GetSequeueSize(v) PROVE ReturnSize(w)
      BY <1>1, <3>2 DEF GetSequeueSize, BeginSize, ReadRear, ReadFront, Compare, ReturnSize,
           SizeReturned, SizeTypeOK
    <3> QED
      BY <1>1, <3>1, <3>2 DEF SizeNext
  <2>2. size'[w] = Difference(w) /\ phase[w] = "subtract"
    BY <1>1, <2>1 DEF ReturnSize, SizeTypeOK
  <2>3. WatchOf(w) /\ Known(w, "front") /\ Known(w, "rear")
    BY <1>1, <2>2 DEF WatchInv, Known
  <2>4. /\ front \in Index /\ rear \in Index /\ Occupancy \in Int
        /\ Occupancy = Gap(front, rear)
        /\ Occupancy = IF front <= rear THEN rear - front ELSE rear + MaxDataSequeue - front
    BY <1>1, OccupancyRange, MaxDataSequeueAssumption DEF QueueInv
  <2>5. ASSUME moved[w] = {}
        PROVE  size'[w] = IF EmptyDataSequeue THEN MaxDataSequeue ELSE Occupancy
    <3>1. seen[w].front = front /\ seen[w].rear = rear /\ larger[w] = (rear > front)
      BY <2>2, <2>3, <2>5 DEF WatchOf, FrontStays, RearStays
    <3>2. Difference(w) = (IF rear > front THEN 0 ELSE MaxDataSequeue) + rear - front
      BY <3>1 DEF Difference
    <3> QED
      BY <2>2, <2>4, <3>2, MaxDataSequeueAssumption DEF EmptyDataSequeue, Index
  <2>6. ASSUME size'[w] \in 1 .. MaxDataSequeue - 1
        PROVE  size'[w] = Gap(seen[w].front, seen[w].rear)
    BY <1>1, <2>2, <2>6, PossibleIsGap
  <2>7. ASSUME size'[w] \in 1 .. MaxDataSequeue - 1, "taken" \notin moved[w]
        PROVE  size'[w] <= Occupancy
    BY <2>3, <2>6, <2>7 DEF WatchOf, FrontStays
  <2>8. ASSUME size'[w] \in 1 .. MaxDataSequeue - 1, "put" \notin moved[w]
        PROVE  size'[w] >= Occupancy
    BY <2>3, <2>6, <2>8 DEF WatchOf, RearStays
  <2> QED
    BY <2>5, <2>7, <2>8
<1>2. SizeInv /\ [SizeNext]_<< vars, sizeVars >> =>
        [\A w \in Watchers : SizeReturned(w) /\ "reset" \notin moved[w] =>
           /\ moved[w] = {} => size'[w] = IF EmptyDataSequeue THEN MaxDataSequeue ELSE Occupancy
           /\ size'[w] \in 1 .. MaxDataSequeue - 1 =>
                /\ "taken" \notin moved[w] => size'[w] <= Occupancy
                /\ "put" \notin moved[w] => size'[w] >= Occupancy]_<< vars, sizeVars >>
  BY <1>1
<1> QED
  BY <1>2, SizeInvariant, PTL DEF SizeSpec, SizeIsSafe
=============================================================================
