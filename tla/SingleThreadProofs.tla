--------------------------- MODULE SingleThreadProofs ---------------------------
(***************************************************************************)
(* Theorems about the parts of SingleThread: the queues of data_structure, *)
(* the list of clients and the reader of NALs, for any sizes, any memory,  *)
(* any file and any order of calls.  That all of them hold in SingleThread *)
(* too is PartsKeepTheirPromises, at the end.                              *)
(***************************************************************************)
EXTENDS SingleThread, FiniteSetTheorems, NatLemmas

(***************************************************************************)
(* RingQueue.  All rests on one fact about remainders: the places of as    *)
(* many consecutive counts as there are slots are the slots, each once     *)
(* (Turn), also where the counters wrap, if their range is a multiple of   *)
(* the size (NextTurn).                                                    *)
(***************************************************************************)

(* Remainders *)

LEMMA DivMod ==
  ASSUME NEW n \in Nat \ {0}, NEW x \in Nat
  PROVE  x = n * (x \div n) + (x % n) /\ x \div n \in Nat /\ x % n \in 0 .. n - 1
OBVIOUS

LEMMA Remainder ==
  ASSUME NEW n \in Nat \ {0}, NEW q \in Nat, NEW r \in 0 .. n - 1
  PROVE  (n * q + r) % n = r
OBVIOUS

LEMMA Reduced ==
  ASSUME NEW n \in Nat \ {0}, NEW x \in 0 .. 2 * n - 1
  PROVE  x % n = IF x < n THEN x ELSE x - n
<1>1. CASE x < n
  <2>1. (n * 0 + x) % n = x
    BY <1>1, Remainder
  <2> QED BY <1>1, <2>1
<1>2. CASE x >= n
  <2>1. x - n \in 0 .. n - 1
    BY <1>2
  <2>2. (n * 1 + (x - n)) % n = x - n
    BY <2>1, Remainder
  <2> QED BY <1>2, <2>2
<1> QED BY <1>1, <1>2

(* Up to n steps from h lead round the ring once *)
LEMMA Turn ==
  ASSUME NEW n \in Nat \ {0}, NEW h \in Nat, NEW k \in 0 .. n
  PROVE  /\ h % n \in 0 .. n - 1
         /\ (h + k) % n = IF (h % n) + k < n THEN (h % n) + k ELSE (h % n) + k - n
<1>1. PICK q \in Nat, r \in 0 .. n - 1 : h = n * q + r /\ h % n = r
  BY DivMod
<1>2. CASE r + k < n
  <2>1. h + k = n * q + (r + k) /\ r + k \in 0 .. n - 1
    BY <1>1, <1>2
  <2>2. (n * q + (r + k)) % n = r + k
    BY <2>1, Remainder
  <2> QED BY <1>1, <1>2, <2>1, <2>2
<1>3. CASE r + k >= n
  <2>1. r + k - n \in 0 .. n - 1 /\ q + 1 \in Nat
    BY <1>1, <1>3
  <2>2. n * (q + 1) = n * q + n
    OBVIOUS
  <2>3. h + k = n * (q + 1) + (r + k - n)
    BY <1>1, <2>1, <2>2
  <2>4. (n * (q + 1) + (r + k - n)) % n = r + k - n
    BY <2>1, Remainder
  <2> QED BY <1>1, <1>3, <2>3, <2>4
<1> QED BY <1>1, <1>2, <1>3

(* Fewer steps than n lead to different slots *)
LEMMA SlotsDiffer ==
  ASSUME NEW n \in Nat \ {0}, NEW h \in Nat, NEW c \in 0 .. n - 1, NEW k \in 0 .. c - 1
  PROVE  (h + k) % n # (h + c) % n
<1>1. k \in 0 .. n /\ c \in 0 .. n /\ k < c /\ c < n
  OBVIOUS
<1>2. /\ h % n \in 0 .. n - 1
      /\ (h + k) % n = IF (h % n) + k < n THEN (h % n) + k ELSE (h % n) + k - n
      /\ (h + c) % n = IF (h % n) + c < n THEN (h % n) + c ELSE (h % n) + c - n
  BY <1>1, Turn
<1>3. PICK a \in 0 .. n - 1 : a = h % n
  BY <1>2
<1> QED BY <1>1, <1>2, <1>3

(* Where the counters wrap the slots go on *)
LEMMA NextTurn ==
  ASSUME NEW n \in Nat \ {0}, NEW m \in Nat \ {0}, m % n = 0, NEW k \in Nat
  PROVE  (m + k) % n = k % n
<1>1. PICK p \in Nat : m = n * p
  BY DivMod
<1>2. PICK q \in Nat, r \in 0 .. n - 1 : k = n * q + r /\ k % n = r
  BY DivMod
<1>3. n * (p + q) = n * p + n * q
  OBVIOUS
<1>4. m + k = n * (p + q) + r /\ p + q \in Nat
  BY <1>1, <1>2, <1>3
<1>5. (n * (p + q) + r) % n = r
  BY <1>4, Remainder
<1> QED BY <1>2, <1>4, <1>5

-----------------------------------------------------------------------------
(* The invariant *)

\* Without slots head and rear have just been reset.
RingMemInv ==
  /\ kind = "array" => mem = "live" /\ ring.node_size = MAXSIZE
  /\ mem = "live" => ring.node_size # 0
  /\ mem # "live" => ring.head = ring.rear /\ ~wrapped
  /\ mem \in {"freed", "crashed"} => ring.node_size = 0

SlotsFilled ==
  /\ Count <= ring.node_size
  /\ \A k \in 0 .. Count - 1 : data[Slot(ring.head + k)] \in Value

RingInv ==
  /\ RingTypeOK
  /\ RingMemInv
  /\ ~wrapped => ring.head <= ring.rear
  /\ (Sound /\ ring.node_size # 0) => SlotsFilled

-----------------------------------------------------------------------------
(* The counters *)

LEMMA Widths ==
  /\ UIntMod \in Nat \ {0} /\ MAXSIZE \in Nat \ {0} /\ MAXSIZE \in AllSizes
  /\ AllSizes \subseteq Nat \ {0}
  /\ \A n \in AllSizes : n < UIntMod
BY SizeAssumption DEF AllSizes

CountOK ==
         /\ ring.head \in 0 .. UIntMod - 1 /\ ring.rear \in 0 .. UIntMod - 1
         /\ ring.node_size \in Nat /\ ring.node_size < UIntMod
         /\ Count \in 0 .. UIntMod - 1
         /\ Count = IF ring.head <= ring.rear THEN ring.rear - ring.head
                    ELSE ring.rear + UIntMod - ring.head
         /\ Count = 0 <=> ring.head = ring.rear

LEMMA CountFacts == RingTypeOK => CountOK
<1> SUFFICES ASSUME RingTypeOK
             PROVE  CountOK
  OBVIOUS
<1>1. /\ ring.head \in 0 .. UIntMod - 1 /\ ring.rear \in 0 .. UIntMod - 1
      /\ ring.node_size \in Nat /\ ring.node_size < UIntMod
  <2>1. ring.head \in 0 .. UIntMod - 1 /\ ring.rear \in 0 .. UIntMod - 1
    BY DEF RingTypeOK, Slots
  <2>2. ring.node_size \in AllSizes \cup {0}
    BY DEF RingTypeOK
  <2>3. UIntMod \in Nat /\ 0 < UIntMod
    BY Widths
  <2>4. CASE ring.node_size \in AllSizes
    BY <2>1, <2>4, Widths
  <2>5. CASE ring.node_size = 0
    BY <2>1, <2>3, <2>5
  <2> QED BY <2>2, <2>4, <2>5
<1>2. PICK h \in 0 .. UIntMod - 1, r \in 0 .. UIntMod - 1 : h = ring.head /\ r = ring.rear
  BY <1>1
<1>3. (r + UIntMod - h) % UIntMod = IF h <= r THEN r - h ELSE r + UIntMod - h
  <2>1. PICK M \in Nat \ {0} : M = UIntMod
    BY Widths
  <2>2. h \in 0 .. M - 1 /\ r \in 0 .. M - 1 /\ r + M - h \in 0 .. 2 * M - 1
    BY <1>2, <2>1
  <2>3. (r + M - h) % M = IF r + M - h < M THEN r + M - h ELSE r + M - h - M
    <3>1. PICK x \in 0 .. 2 * M - 1 : x = r + M - h
      BY <2>2
    <3>2. x % M = IF x < M THEN x ELSE x - M
      BY Reduced
    <3> QED BY <3>1, <3>2
  <2>4. IF r + M - h < M THEN r + M - h < M ELSE r + M - h - M = r - h
    BY <2>2
  <2> QED BY <2>1, <2>2, <2>3, <2>4
<1> QED BY <1>1, <1>2, <1>3, Widths DEF Count, CountOK

(* The slot of a count, reduced to the width of the counters, is that of   *)
(* the count itself                                                        *)
LEMMA PlacesOfCounts ==
  ASSUME RingInv, Sound, ring.node_size # 0
  PROVE  /\ \A k \in 0 .. Count :
              Slot((ring.head + k) % UIntMod) = (ring.head + k) % ring.node_size
         /\ ring.rear % ring.node_size = (ring.head + Count) % ring.node_size
<1>1. /\ ring.head \in 0 .. UIntMod - 1 /\ ring.rear \in 0 .. UIntMod - 1
      /\ ring.node_size \in Nat \ {0} /\ UIntMod \in Nat \ {0}
      /\ Count \in 0 .. UIntMod - 1
      /\ Count = IF ring.head <= ring.rear THEN ring.rear - ring.head
                 ELSE ring.rear + UIntMod - ring.head
  BY CountFacts, Widths DEF CountOK, RingInv
<1>2. ASSUME NEW k \in 0 .. Count
      PROVE  ((ring.head + k) % UIntMod) % ring.node_size = (ring.head + k) % ring.node_size
  <2>1. PICK x \in Nat : x = ring.head + k
    BY <1>1
  <2>2. CASE x < UIntMod
    <3>1. x % UIntMod = x
      BY <1>1, <2>2
    <3> QED BY <2>1, <3>1
  <2>3. CASE x >= UIntMod
    <3>1. UIntMod % ring.node_size = 0
      <4>1. wrapped
        BY <1>1, <2>1, <2>3 DEF RingInv
      <4> QED BY <4>1 DEF Sound
    <3>2. PICK y \in Nat : x = UIntMod + y /\ y < UIntMod
      BY <1>1, <2>1, <2>3
    <3>3. x % UIntMod = y
      BY <1>1, <3>2
    <3>4. (UIntMod + y) % ring.node_size = y % ring.node_size
      BY <1>1, <3>1, NextTurn
    <3> QED BY <2>1, <3>2, <3>3, <3>4
  <2> QED BY <1>1, <2>1, <2>2, <2>3
<1>3. ring.rear = (ring.head + Count) % UIntMod
  <2>1. PICK h \in 0 .. UIntMod - 1, r \in 0 .. UIntMod - 1 : h = ring.head /\ r = ring.rear
    BY <1>1
  <2>2. CASE h <= r
    BY <1>1, <2>1, <2>2
  <2>3. CASE h > r
    <3>1. h + Count = r + UIntMod
      BY <1>1, <2>1, <2>3
    <3>2. (r + UIntMod) % UIntMod = r
      BY <1>1, <2>1
    <3> QED BY <2>1, <3>1, <3>2
  <2> QED BY <2>1, <2>2, <2>3
<1>4. Count \in 0 .. Count
  BY <1>1
<1>5. ring.rear % ring.node_size = (ring.head + Count) % ring.node_size
  BY <1>2, <1>3, <1>4
<1> QED BY <1>2, <1>5 DEF Slot

ContentsOK ==
         /\ Contents \in Seq(Value) /\ Len(Contents) = Count
         /\ \A i \in 1 .. Count : Contents[i] = data[(ring.head + i - 1) % ring.node_size]

LEMMA RingContentsFacts == RingInv /\ Sound /\ ring.node_size # 0 => ContentsOK
<1> SUFFICES ASSUME RingInv, Sound, ring.node_size # 0
             PROVE  ContentsOK
  OBVIOUS
<1>1. /\ Count \in Nat /\ ring.head \in Nat
      /\ \A k \in 0 .. Count - 1 : data[(ring.head + k) % ring.node_size] \in Value
  BY CountFacts, Widths DEF CountOK, RingInv, SlotsFilled, Slot
<1>2. ASSUME NEW i \in 1 .. Count
      PROVE  /\ data[Slot((ring.head + i - 1) % UIntMod)] = data[(ring.head + i - 1) % ring.node_size]
             /\ data[(ring.head + i - 1) % ring.node_size] \in Value
  <2>1. PICK k \in 0 .. Count - 1 : k = i - 1
    BY <1>1
  <2>2. ring.head + i - 1 = ring.head + k
    BY <1>1, <2>1
  <2>3. k \in 0 .. Count
    BY <1>1
  <2>4. Slot((ring.head + k) % UIntMod) = (ring.head + k) % ring.node_size
    BY <2>3, PlacesOfCounts
  <2> QED BY <1>1, <2>2, <2>4
<1>3. Contents \in [1 .. Count -> Value]
  BY <1>2 DEF Contents
<1>4. Contents \in Seq(Value) /\ Len(Contents) = Count
  BY <1>1, <1>3
<1> QED BY <1>2, <1>4 DEF Contents, ContentsOK

(* What the two functions answer *)
LEMMA CountsHold == RingInv => RingCounts
<1> SUFFICES ASSUME RingInv, Sound, mem = "live"
             PROVE  /\ get_queue_size = Len(Contents)
                    /\ full_queue <=> Len(Contents) = ring.node_size
                    /\ Garbage \notin {Contents[i] : i \in DOMAIN Contents}
  BY DEF RingCounts
<1>1. /\ ring.node_size \in Nat \ {0} /\ ring.head \in Nat
      /\ Count \in 0 .. ring.node_size
      /\ Count = 0 <=> ring.head = ring.rear
  BY CountFacts, Widths DEF CountOK, RingInv, RingMemInv, SlotsFilled
<1>2. Contents \in Seq(Value) /\ Len(Contents) = Count
  BY <1>1, RingContentsFacts DEF ContentsOK
<1>3. PICK n \in Nat \ {0}, c \in Nat, a \in Nat :
        /\ n = ring.node_size /\ c = Count /\ a = ring.head % ring.node_size
        /\ c <= n /\ a < n
  <2>1. ring.head % ring.node_size \in 0 .. ring.node_size - 1
    BY <1>1, DivMod
  <2> QED BY <1>1, <2>1
<1>4. ring.rear % ring.node_size = IF a + c < n THEN a + c ELSE a + c - n
  <2>1. ring.rear % ring.node_size = (ring.head + Count) % ring.node_size
    BY <1>1, PlacesOfCounts
  <2>2. (ring.head + Count) % ring.node_size
          = IF a + c < n THEN a + c ELSE a + c - n
    BY <1>1, <1>3, Turn
  <2> QED BY <2>1, <2>2
<1>5. ~NoData /\ (empty_queue <=> c = 0)
  BY <1>1, <1>3 DEF NoData, empty_queue
<1>6. Slot(ring.rear) = (IF a + c < n THEN a + c ELSE a + c - n) /\ Slot(ring.head) = a
  BY <1>3, <1>4 DEF Slot
<1>7. get_queue_size = c
  <2>1. get_queue_size =
          IF c = 0 THEN 0
          ELSE IF Slot(ring.rear) > a THEN Slot(ring.rear) - a ELSE (n + Slot(ring.rear)) - a
    BY <1>3, <1>5, <1>6 DEF get_queue_size
  <2>2. PICK b \in Nat : b = Slot(ring.rear) /\ b = IF a + c < n THEN a + c ELSE a + c - n
    BY <1>3, <1>6
  <2>3. CASE c = 0
    BY <2>1, <2>3
  <2>4. CASE c # 0
    BY <1>3, <2>1, <2>2, <2>4
  <2> QED BY <2>3, <2>4
<1>8. full_queue <=> c = n
  <2>1. full_queue <=> c # 0 /\ Slot(ring.rear) = a
    BY <1>5, <1>6 DEF full_queue
  <2> QED BY <1>6, <2>1
<1>9. Garbage \notin {Contents[i] : i \in DOMAIN Contents}
  <2>1. \A i \in DOMAIN Contents : Contents[i] \in Value
    BY <1>2
  <2> QED BY <2>1, GarbageAssumption
<1> QED BY <1>2, <1>3, <1>7, <1>8, <1>9

-----------------------------------------------------------------------------
(* The calls *)

LEMMA RingInvInit == RingInit => RingInv
<1> SUFFICES ASSUME RingInit
             PROVE  RingInv
  OBVIOUS
<1>1. RingTypeOK
  <2>1. 0 \in Slots
    BY Widths DEF Slots
  <2> QED BY <2>1, Widths DEF RingInit, RingTypeOK
<1>2. ring.head = 0 /\ ring.rear = 0 /\ ~wrapped
  BY DEF RingInit
<1>3. Count = 0
  BY <1>1, <1>2, CountFacts DEF CountOK
<1>4. RingMemInv
  BY <1>2, Widths DEF RingInit, RingMemInv
<1>5. ring.node_size \in Nat
  BY <1>1, CountFacts DEF CountOK
<1> QED BY <1>1, <1>2, <1>3, <1>4, <1>5 DEF RingInv, SlotsFilled

(* create_queue and destroy_queue leave no element *)
LEMMA ResetKeeps ==
  ASSUME RingInv, UNCHANGED kind, create_queue \/ destroy_queue, mem' # "crashed"
  PROVE  RingInv' /\ Contents' = << >>
<1>1. /\ ring'.head = 0 /\ ring'.rear = 0 /\ wrapped' = FALSE
      /\ ring'.node_size \in AllSizes \cup {0}
      /\ ring' = [head |-> 0, rear |-> 0, node_size |-> ring'.node_size]
      /\ data' \in [Slots -> Value \cup {Garbage}]
      /\ mem' \in {"null", "live", "freed"}
  BY DEF RingInv, RingTypeOK, create_queue, destroy_queue, AllSizes, Crash
<1>2. RingTypeOK'
  <2>1. 0 \in Slots
    BY Widths DEF Slots
  <2>2. ring' \in [head : Slots, rear : Slots, node_size : AllSizes \cup {0}]
    BY <1>1, <2>1
  <2> QED BY <1>1, <2>2 DEF RingTypeOK, RingInv
<1>3. Count' = 0 /\ ring'.node_size \in Nat
  <2>1. CountOK'
    BY <1>2, CountFacts, PTL
  <2> QED BY <1>1, <2>1 DEF CountOK
<1>4. RingMemInv'
  BY <1>1, Widths DEF RingInv, RingMemInv, create_queue, destroy_queue, Crash, NoData, AllSizes, RingTypeOK
<1>5. Contents' = << >>
  BY <1>3 DEF Contents
<1> QED BY <1>1, <1>2, <1>3, <1>4, <1>5 DEF RingInv, SlotsFilled

LEMMA CrashKeeps ==
  ASSUME RingInv, UNCHANGED kind, Crash, mem # "live", ring.node_size = 0
  PROVE  RingInv' /\ Contents' = Contents
BY DEF RingInv, RingTypeOK, RingMemInv, Crash, Sound, SlotsFilled, Contents, Count, Slot

\* What push_queue and pop_queue find
LEMMA LiveFacts ==
  ASSUME RingInv, ~NoData, ring.node_size # 0
  PROVE  mem = "live"
BY DEF RingInv, RingTypeOK, RingMemInv, NoData

LEMMA PlusOne ==
  ASSUME NEW i \in Slots
  PROVE  Plus1(i) \in Slots /\ Plus1(i) = IF i + 1 < UIntMod THEN i + 1 ELSE 0
<1>1. PICK M \in Nat \ {0} : M = UIntMod
  BY Widths
<1>2. PICK x \in 0 .. 2 * M - 1 : x = i + 1
  BY <1>1 DEF Slots
<1>3. x % M = IF x < M THEN x ELSE x - M
  BY Reduced
<1>4. i \in 0 .. M - 1
  BY <1>1 DEF Slots
<1> QED BY <1>1, <1>2, <1>3, <1>4 DEF Slots, Plus1

LEMMA RingPushPuts ==
  ASSUME RingInv, UNCHANGED kind, NEW v \in Value, push_queue(v), ring.node_size # 0
  PROVE  /\ RingInv'
         /\ Sound' => /\ Len(Contents) < ring.node_size
                      /\ Contents' = Append(Contents, v)
<1>1. /\ mem = "live" /\ mem' = mem
      /\ data' = [data EXCEPT ![Slot(ring.rear)] = v]
      /\ ring' = [ring EXCEPT !.rear = Plus1(@)]
      /\ wrapped' = (wrapped \/ Plus1(ring.rear) = 0)
  BY LiveFacts DEF push_queue, full_queue
<1>2. ring.rear \in Slots /\ ring.head \in Slots /\ Plus1(ring.rear) \in Slots
  BY PlusOne DEF RingInv, RingTypeOK
<1>3. /\ ring'.head = ring.head /\ ring'.node_size = ring.node_size
      /\ ring'.rear = IF ring.rear + 1 < UIntMod THEN ring.rear + 1 ELSE 0
  BY <1>1, <1>2, PlusOne DEF RingInv, RingTypeOK
<1>4. RingTypeOK'
  <2>1. ring' \in [head : Slots, rear : Slots, node_size : AllSizes \cup {0}]
    BY <1>1, <1>2 DEF RingInv, RingTypeOK
  <2>2. data' \in [Slots -> Value \cup {Garbage}]
    BY <1>1 DEF RingInv, RingTypeOK
  <2>3. wrapped' \in BOOLEAN
    BY <1>1
  <2> QED BY <1>1, <2>1, <2>2, <2>3 DEF RingInv, RingTypeOK
<1>5. RingMemInv'
  BY <1>1, <1>3 DEF RingInv, RingMemInv
<1>6. ~wrapped' => ring'.head <= ring'.rear
  <2>1. ASSUME ~wrapped'
        PROVE  ring.head <= ring.rear /\ Plus1(ring.rear) = ring.rear + 1
    BY <1>1, <1>2, <2>1, PlusOne DEF RingInv
  <2>2. ring.head \in Nat /\ ring.rear \in Nat
    BY <1>2 DEF Slots
  <2> QED BY <1>2, <1>3, <2>1, <2>2, PlusOne
<1>7. /\ ring.node_size \in Nat \ {0} /\ UIntMod \in Nat \ {0} /\ ring.node_size < UIntMod
      /\ ring.head \in 0 .. UIntMod - 1 /\ ring.rear \in 0 .. UIntMod - 1
      /\ Count \in Nat
      /\ Count = IF ring.head <= ring.rear THEN ring.rear - ring.head
                 ELSE ring.rear + UIntMod - ring.head
  BY CountFacts, Widths DEF CountOK, RingInv
<1>8. /\ Count' \in Nat
      /\ Count' = IF ring'.head <= ring'.rear THEN ring'.rear - ring'.head
                  ELSE ring'.rear + UIntMod - ring'.head
  <2>1. CountOK'
    BY <1>4, CountFacts, PTL
  <2> QED BY <2>1 DEF CountOK
<1>9. ASSUME Sound'
      PROVE  /\ Sound /\ Len(Contents) = Count /\ Count < ring.node_size
             /\ Count' = Count + 1
             /\ Slot(ring.rear) = (ring.head + Count) % ring.node_size
  <2>1. Sound
    BY <1>1, <1>3, <1>9 DEF Sound
  <2>2. Contents \in Seq(Value) /\ Len(Contents) = Count /\ Count <= ring.node_size
    BY <2>1, RingContentsFacts DEF ContentsOK, RingInv, SlotsFilled
  <2>3. Count # ring.node_size
    <3>1. full_queue <=> Len(Contents) = ring.node_size
      BY <1>1, <2>1, CountsHold DEF RingCounts
    <3> QED BY <2>2, <3>1 DEF push_queue
  <2>4. Slot(ring.rear) = (ring.head + Count) % ring.node_size
    BY <2>1, PlacesOfCounts DEF Slot
  <2>5. Count < ring.node_size
    BY <1>7, <2>2, <2>3
  <2>6. Count' = Count + 1
    <3> DEFINE h == ring.head
               r == ring.rear
               M == UIntMod
               n == ring.node_size
               c == Count
    <3>1. h \in Nat /\ r \in Nat /\ M \in Nat /\ n \in Nat /\ c \in Nat
      BY <1>7
    <3>2. c = IF h <= r THEN r - h ELSE r + M - h
      BY <1>7
    <3>3. Count' = IF r + 1 < M THEN IF h <= r + 1 THEN r + 1 - h ELSE r + 1 + M - h
                   ELSE IF h <= 0 THEN 0 ELSE M - h
      BY <1>3, <1>8, <3>1
    <3>4. c < n /\ n < M /\ h < M /\ r < M
      BY <1>7, <2>5
    <3> HIDE DEF h, r, M, n, c
    <3>5. Count = c
      BY DEF c
    <3>6. Count' = c + 1
      BY <3>1, <3>2, <3>3, <3>4
    <3> QED BY <3>5, <3>6
  <2> QED BY <2>1, <2>2, <2>4, <2>5, <2>6
<1>10. ASSUME Sound', NEW k \in 0 .. Count
       PROVE  data'[(ring.head + k) % ring.node_size]
                = IF k = Count THEN v ELSE data[(ring.head + k) % ring.node_size]
  <2>1. PICK c \in 0 .. ring.node_size - 1, h \in Nat : c = Count /\ h = ring.head
    <3>1. Count < ring.node_size
      BY <1>9, <1>10
    <3>2. Count \in 0 .. ring.node_size - 1 /\ ring.head \in Nat
      BY <1>7, <3>1
    <3> QED BY <3>2
  <2>2. (h + k) % ring.node_size \in 0 .. ring.node_size - 1
    <3>1. PICK x \in Nat : x = h + k
      BY <2>1
    <3> QED BY <1>7, <3>1, DivMod
  <2>3. (h + k) % ring.node_size \in Slots
    BY <1>7, <2>2 DEF Slots
  <2>4. CASE k = Count
    BY <1>1, <1>9, <1>10, <2>1, <2>3, <2>4 DEF RingInv, RingTypeOK
  <2>5. CASE k # Count
    <3>1. k \in 0 .. c - 1
      BY <2>1, <2>5
    <3>2. (h + k) % ring.node_size # (h + c) % ring.node_size
      BY <1>7, <3>1, SlotsDiffer
    <3> QED BY <1>1, <1>9, <1>10, <2>1, <2>3, <2>5, <3>2 DEF RingInv, RingTypeOK
  <2> QED BY <2>4, <2>5
<1>11. ASSUME Sound'
       PROVE  SlotsFilled'
  <2>1. Count' <= ring'.node_size
    BY <1>3, <1>7, <1>9, <1>11
  <2>2. ASSUME NEW k \in 0 .. Count
        PROVE  data'[(ring.head + k) % ring.node_size] \in Value
    <3>1. k # Count => k \in 0 .. Count - 1
      BY <1>7
    <3>2. k # Count => data[(ring.head + k) % ring.node_size] \in Value
      BY <1>9, <1>11, <3>1 DEF RingInv, SlotsFilled, Slot
    <3> QED BY <1>10, <1>11, <3>2
  <2>3. 0 .. Count' - 1 = 0 .. Count
    BY <1>7, <1>9, <1>11
  <2> QED BY <1>3, <2>1, <2>2, <2>3 DEF SlotsFilled, Slot
<1>12. RingInv'
  BY <1>4, <1>5, <1>6, <1>11 DEF RingInv
<1>13. ASSUME Sound'
       PROVE  Contents' = Append(Contents, v)
  <2>1. ContentsOK /\ ContentsOK'
    <3>1. ContentsOK
      BY <1>9, <1>13, RingContentsFacts
    <3>2. ring'.node_size # 0
      BY <1>3
    <3>3. (RingInv /\ Sound /\ ring.node_size # 0 => ContentsOK)'
      BY RingContentsFacts, PTL
    <3> QED BY <1>12, <1>13, <3>1, <3>2, <3>3
  <2>2. /\ Contents' \in Seq(Value) /\ Len(Contents') = Count + 1
        /\ Contents \in Seq(Value) /\ Len(Contents) = Count
    BY <1>9, <1>13, <2>1 DEF ContentsOK
  <2>3. ASSUME NEW i \in 1 .. Count + 1
        PROVE  Contents'[i] = Append(Contents, v)[i]
    <3>1. PICK k \in 0 .. Count : k = i - 1
      BY <1>7
    <3>2. ring.head + i - 1 = ring.head + k
      BY <1>7, <3>1
    <3>3. Contents'[i] = data'[(ring.head + k) % ring.node_size]
      BY <1>3, <1>9, <1>13, <2>1, <3>2 DEF ContentsOK
    <3>4. i \in 1 .. Count => Contents[i] = data[(ring.head + k) % ring.node_size]
      BY <2>1, <3>2 DEF ContentsOK
    <3>5. Append(Contents, v)[i] = IF k = Count THEN v ELSE Contents[i]
      BY <1>7, <2>2, <3>1
    <3>6. k # Count => i \in 1 .. Count
      BY <1>7, <3>1
    <3> QED BY <1>10, <1>13, <3>3, <3>4, <3>5, <3>6
  <2>4. Append(Contents, v) \in Seq(Value) /\ Len(Append(Contents, v)) = Count + 1
    BY <2>2, AppendProperties
  <2> QED BY <2>2, <2>3, <2>4, SeqEqual
<1> QED BY <1>9, <1>12, <1>13

LEMMA RingPopGets ==
  ASSUME RingInv, UNCHANGED kind, pop_queue
  PROVE  /\ RingInv'
         /\ Sound' => Contents # << >> /\ Contents' = Tail(Contents)
<1>1. /\ mem = "live" /\ mem' = mem /\ ring.node_size # 0 /\ data' = data
      /\ ring.head # ring.rear /\ ring' = [ring EXCEPT !.head = Plus1(@)]
      /\ wrapped' = wrapped
  BY DEF pop_queue, empty_queue, RingInv, RingMemInv
<1>2. ring.rear \in Slots /\ ring.head \in Slots /\ Plus1(ring.head) \in Slots
  BY PlusOne DEF RingInv, RingTypeOK
<1>3. /\ ring'.rear = ring.rear /\ ring'.node_size = ring.node_size
      /\ ring'.head = IF ring.head + 1 < UIntMod THEN ring.head + 1 ELSE 0
  BY <1>1, <1>2, PlusOne DEF RingInv, RingTypeOK
<1>4. RingTypeOK'
  <2>1. ring' \in [head : Slots, rear : Slots, node_size : AllSizes \cup {0}]
    BY <1>1, <1>2 DEF RingInv, RingTypeOK
  <2> QED BY <1>1, <2>1 DEF RingInv, RingTypeOK
<1>5. RingMemInv'
  BY <1>1, <1>3 DEF RingInv, RingMemInv
<1>6. /\ ring.node_size \in Nat \ {0} /\ UIntMod \in Nat \ {0}
      /\ ring.head \in 0 .. UIntMod - 1 /\ ring.rear \in 0 .. UIntMod - 1
      /\ Count \in Nat \ {0}
      /\ Count = IF ring.head <= ring.rear THEN ring.rear - ring.head
                 ELSE ring.rear + UIntMod - ring.head
  BY <1>1, CountFacts, Widths DEF CountOK, RingInv
<1>7. ~wrapped' => ring'.head <= ring'.rear
  <2>1. ASSUME ~wrapped
        PROVE  ring.head < ring.rear
    BY <1>1, <1>6, <2>1 DEF RingInv
  <2> QED BY <1>1, <1>3, <1>6, <2>1
<1>8. Count' = Count - 1
  <2>1. CountOK'
    BY <1>4, CountFacts, PTL
  <2>2. Count' = IF ring'.head <= ring'.rear THEN ring'.rear - ring'.head
                 ELSE ring'.rear + UIntMod - ring'.head
    BY <2>1 DEF CountOK
  <2> DEFINE h == ring.head
             r == ring.rear
             M == UIntMod
             c == Count
  <2>3. h \in 0 .. M - 1 /\ r \in 0 .. M - 1 /\ M \in Nat /\ c \in Nat /\ h # r
    BY <1>1, <1>6
  <2>4. c = IF h <= r THEN r - h ELSE r + M - h
    BY <1>6
  <2>5. Count' = IF h + 1 < M THEN IF h + 1 <= r THEN r - (h + 1) ELSE r + M - (h + 1)
                 ELSE IF 0 <= r THEN r ELSE r + M
    BY <1>3, <2>2, <2>3
  <2> HIDE DEF h, r, M, c
  <2>6. Count = c
    BY DEF c
  <2>7. Count' = c - 1
    BY <2>3, <2>4, <2>5
  <2> QED BY <2>6, <2>7
<1>9. ASSUME Sound'
      PROVE  Sound /\ ContentsOK /\ SlotsFilled
  BY <1>1, <1>3, <1>9, RingContentsFacts DEF Sound, RingInv
<1>10. ASSUME Sound', NEW k \in 0 .. Count - 1
       PROVE  (ring'.head + k) % ring.node_size = (ring.head + (k + 1)) % ring.node_size
  <2>1. CASE ring.head + 1 < UIntMod
    <3>1. ring'.head + k = ring.head + (k + 1)
      BY <1>3, <1>6, <2>1
    <3> QED BY <3>1
  <2>2. CASE ~(ring.head + 1 < UIntMod)
    <3>1. k \in Nat
      BY <1>6
    <3>2. ring'.head = 0 /\ ring.head = UIntMod - 1
      BY <1>3, <1>6, <2>2
    <3>3. ring'.head + k = k /\ ring.head + (k + 1) = UIntMod + k
      BY <1>6, <3>1, <3>2
    <3>4. wrapped
      BY <1>1, <1>6, <2>2 DEF RingInv
    <3>5. UIntMod % ring.node_size = 0
      BY <1>9, <1>10, <3>4 DEF Sound
    <3>6. (UIntMod + k) % ring.node_size = k % ring.node_size
      BY <1>6, <3>5, <3>1, NextTurn
    <3> QED BY <3>3, <3>6
  <2> QED BY <2>1, <2>2
<1>11. ASSUME Sound'
       PROVE  SlotsFilled'
  <2>1. Count' <= ring'.node_size
    BY <1>3, <1>6, <1>8, <1>9, <1>11 DEF SlotsFilled
  <2>2. ASSUME NEW k \in 0 .. Count' - 1
        PROVE  data'[(ring'.head + k) % ring.node_size] \in Value
    <3>1. k \in 0 .. Count - 1 /\ k + 1 \in 0 .. Count - 1
      <4>1. k \in 0 .. Count - 2
        BY <1>6, <1>8, <1>11
      <4> QED BY <1>6, <4>1
    <3>2. data[(ring.head + (k + 1)) % ring.node_size] \in Value
      BY <1>9, <1>11, <3>1 DEF SlotsFilled, Slot
    <3>3. (ring'.head + k) % ring.node_size = (ring.head + (k + 1)) % ring.node_size
      BY <1>10, <1>11, <3>1
    <3> QED BY <1>1, <3>2, <3>3
  <2> QED BY <1>3, <2>1, <2>2 DEF SlotsFilled, Slot
<1>12. RingInv'
  BY <1>4, <1>5, <1>7, <1>11 DEF RingInv
<1>13. ASSUME Sound'
       PROVE  Contents # << >> /\ Contents' = Tail(Contents)
  <2>1. ContentsOK'
    <3>1. ring'.node_size # 0
      BY <1>1, <1>3
    <3>2. (RingInv /\ Sound /\ ring.node_size # 0 => ContentsOK)'
      BY RingContentsFacts, PTL
    <3> QED BY <1>12, <1>13, <3>1, <3>2
  <2>2. /\ Contents' \in Seq(Value) /\ Len(Contents') = Count - 1
        /\ Contents \in Seq(Value) /\ Len(Contents) = Count
    BY <1>8, <1>9, <1>13, <2>1 DEF ContentsOK
  <2>3. Contents # << >>
    BY <1>6, <2>2
  <2>4. /\ Tail(Contents) \in Seq(Value) /\ Len(Tail(Contents)) = Count - 1
        /\ \A i \in 1 .. Count - 1 : Tail(Contents)[i] = Contents[i + 1]
    BY <1>6, <2>2, <2>3, HeadTailProperties
  <2>5. ASSUME NEW i \in 1 .. Count - 1
        PROVE  Contents'[i] = Contents[i + 1]
    <3>1. PICK k \in 0 .. Count - 1 : k = i - 1
      BY <1>6
    <3>2. ring'.head + i - 1 = ring'.head + k /\ ring.head + (i + 1) - 1 = ring.head + (k + 1)
      BY <1>3, <1>6, <3>1
    <3>3. Contents'[i] = data'[(ring'.head + k) % ring.node_size]
      BY <1>3, <1>8, <2>1, <3>2 DEF ContentsOK
    <3>4. Contents[i + 1] = data[(ring.head + (k + 1)) % ring.node_size]
      <4>1. i + 1 \in 1 .. Count
        BY <1>6
      <4> QED BY <1>9, <1>13, <3>2, <4>1 DEF ContentsOK
    <3> QED BY <1>1, <1>10, <1>13, <3>3, <3>4
  <2> QED BY <2>2, <2>3, <2>4, <2>5, SeqEqual
<1> QED BY <1>12, <1>13

-----------------------------------------------------------------------------
(* Every call *)

\* What a call does to the elements
RingCallOK ==
  /\ RingInv'
  /\ \/ Contents' = << >>
     \/ Contents' = Contents
     \/ Sound' /\ \E v \in Value : /\ Len(Contents) < ring.node_size
                                   /\ Contents' = Append(Contents, v)
     \/ Sound' /\ Contents # << >> /\ Contents' = Tail(Contents)
     \/ ~Sound'

LEMMA RingCallKeeps == RingInv /\ RingNext => RingCallOK
<1> SUFFICES ASSUME RingInv, RingNext
             PROVE  RingCallOK
  OBVIOUS
<1>1. mem # "crashed" /\ UNCHANGED kind
  BY DEF RingNext, Running
<1>2. CASE create_queue
  <2>1. mem' # "crashed"
    BY <1>2 DEF create_queue
  <2> QED BY <1>1, <1>2, <2>1, ResetKeeps DEF RingCallOK
<1>3. ASSUME NEW v \in Value, push_queue(v)
      PROVE  RingCallOK
  <2>1. CASE ring.node_size = 0
    <3>1. Crash /\ mem # "live"
      BY <1>3, <2>1 DEF push_queue, RingInv, RingMemInv
    <3> QED BY <1>1, <2>1, <3>1, CrashKeeps DEF RingCallOK
  <2>2. CASE ring.node_size # 0
    BY <1>1, <1>3, <2>2, RingPushPuts DEF RingCallOK
  <2> QED BY <2>1, <2>2
<1>4. CASE pop_queue
  BY <1>1, <1>4, RingPopGets DEF RingCallOK
<1>5. CASE destroy_queue
  <2>1. CASE mem = "freed"
    <3>1. Crash /\ ring.node_size = 0
      BY <1>5, <2>1 DEF destroy_queue, RingInv, RingMemInv
    <3> QED BY <1>1, <2>1, <3>1, CrashKeeps DEF RingCallOK
  <2>2. CASE mem # "freed"
    <3>1. mem' # "crashed"
      BY <1>1, <1>5, <2>2 DEF destroy_queue
    <3> QED BY <1>1, <1>5, <3>1, ResetKeeps DEF RingCallOK
  <2> QED BY <2>1, <2>2
<1> QED BY <1>2, <1>3, <1>4, <1>5 DEF RingNext

LEMMA RingInvAlways == RingSpec => []RingInv
<1>1. RingInv /\ [RingNext]_ringVars => RingInv'
  <2>1. ASSUME RingInv, RingNext
        PROVE  RingInv'
    BY <2>1, RingCallKeeps DEF RingCallOK
  <2>2. ASSUME RingInv, UNCHANGED ringVars
        PROVE  RingInv'
    BY <2>2 DEF ringVars, RingInv, RingTypeOK, RingMemInv, Sound, SlotsFilled, Count, Slot
  <2> QED BY <2>1, <2>2
<1> QED BY <1>1, RingInvInit, PTL DEF RingSpec

-----------------------------------------------------------------------------
(* The counters stay within an unsigned int, the size is one of those the  *)
(* queue can have or 0 after destroy_queue, and a slot holds what was put  *)
(* there or what it held before (queue_linear_pointer.h, struct _queue).   *)
THEOREM RingTypes == RingSpec => []RingTypeOK
<1>1. RingInv => RingTypeOK
  BY DEF RingInv
<1> QED BY <1>1, RingInvAlways, PTL

(* get_queue_size returns the number of elements, and full_queue is true   *)
(* exactly with no room left, for queues of any size and counters of any   *)
(* width (queue_linear_arrary.c:30 and :47).                               *)
THEOREM CountsAreRight == RingSpec => []RingCounts
BY RingInvAlways, CountsHold, PTL

(* Whatever calls are made, each puts one element at the tail of a queue   *)
(* with room, takes the oldest one, empties the queue or changes nothing,  *)
(* until the counters wrap in a queue whose size does not divide their     *)
(* range (data_structure/队列.md:5).                                       *)
THEOREM RingImplementsFifo == RingSpec => RingIsFifo
<1> DEFINE FifoStep == \A n \in AllSizes \cup {0} :
             (ring.node_size = n /\ Sound') => (Fifo(n)!Next \/ UNCHANGED Contents)
<1>1. RingInv /\ [RingNext]_ringVars => [FifoStep]_ringVars
  <2>1. ASSUME RingInv, RingNext
        PROVE  FifoStep
    <3>1. RingCallOK
      BY <2>1, RingCallKeeps
    <3> QED BY <3>1 DEF RingCallOK, Fifo!Next, Fifo!Put, Fifo!Get, Fifo!Clear
  <2> QED BY <2>1
<1> QED BY <1>1, RingInvAlways, PTL DEF RingSpec, RingIsFifo

-----------------------------------------------------------------------------
(***************************************************************************)
(* ListQueue.  The chain of nodes alone is inductive; what a crash of      *)
(* destroy_queue needs is not, so SizeInv also says what node_size is      *)
(* inside its loop.                                                        *)
(***************************************************************************)

SizeInv ==
  /\ call = "idle" => list.node_size = Len(chain) - leftovers
  /\ call = "destroying" =>
       /\ leftovers > 0
       /\ list.node_size = Len(chain) - leftovers + 1
       /\ leftovers = 1 => Len(chain) > 0
  /\ call = "crashed" => leftovers > 1 \/ Unused = {}

ListInv == ListTypeOK /\ ChainIsLinked /\ SizeInv

-----------------------------------------------------------------------------
LEMMA FunctionIsSeq ==
  ASSUME NEW S, NEW n \in Nat, NEW f \in [1 .. n -> S]
  PROVE  f \in Seq(S) /\ Len(f) = n
<1>1. f \in Seq(S)
  BY SeqDef, Zenon
<1>2. Len(f) \in Nat /\ DOMAIN f = 1 .. Len(f) /\ DOMAIN f = 1 .. n
  BY <1>1, LenProperties
<1> QED BY <1>1, <1>2

(* What the invariant says of head, rear and the nodes *)
LEMMA ChainFacts ==
  ASSUME ListTypeOK, ChainIsLinked
  PROVE  /\ Len(chain) \in Nat /\ DOMAIN chain = 1 .. Len(chain)
         /\ chain # << >> <=> Len(chain) > 0
         /\ list_empty <=> chain = << >>
         /\ chain # << >> => /\ list.head = chain[1] /\ list.head \in Node
                             /\ list.rear = chain[Len(chain)] /\ list.rear \in Node
         /\ \A i \in 1 .. Len(chain) :
              /\ chain[i] \in Node /\ heap[chain[i]].used /\ heap[chain[i]].data # NULL
              /\ heap[chain[i]].next = IF i = Len(chain) THEN NULL ELSE chain[i + 1]
         /\ \A i, j \in 1 .. Len(chain) : chain[i] = chain[j] => i = j
<1>1. chain \in Seq(Node) /\ Len(chain) \in Nat /\ DOMAIN chain = 1 .. Len(chain)
  BY LenProperties DEF ListTypeOK
<1>2. chain # << >> <=> Len(chain) > 0
  BY <1>1, EmptySeq
<1>3. \A i \in 1 .. Len(chain) : chain[i] \in Node
  BY <1>1, ElementOfSeq
<1>4. chain # << >> => chain[1] \in Node /\ chain[Len(chain)] \in Node
  BY <1>1, <1>2, <1>3
<1>5. list_empty <=> chain = << >>
  BY <1>4, NodeAssumption DEF ChainIsLinked, list_empty
<1> QED BY <1>1, <1>2, <1>3, <1>4, <1>5 DEF ChainIsLinked

LEMMA ListInvInit == ListInit => ListInv
<1> SUFFICES ASSUME ListInit
             PROVE  ListInv
  OBVIOUS
<1>1. << >> \in Seq(Node) /\ Len(<< >>) = 0 /\ DOMAIN << >> = {}
  BY EmptySeq
<1>2. ListTypeOK
  BY <1>1 DEF ListInit, ListTypeOK, Nobody
<1>3. ChainIsLinked
  BY <1>1 DEF ListInit, ChainIsLinked
<1>4. SizeInv
  BY <1>1 DEF ListInit, SizeInv
<1> QED BY <1>2, <1>3, <1>4 DEF ListInv

-----------------------------------------------------------------------------
(* push_queue *)

LEMMA PushLinks ==
  ASSUME ListInv, NEW d \in Element, NEW n \in Unused,
         heap' = Linked(n, d), list' = WithNode(n), chain' = Append(chain, n),
         UNCHANGED <<call, leftovers>>
  PROVE  /\ chain' \in Seq(Node) /\ Len(chain') = Len(chain) + 1
         /\ \A i \in 1 .. Len(chain) : chain'[i] = chain[i]
         /\ chain'[Len(chain) + 1] = n
         /\ heap' \in [Node -> [used : BOOLEAN, data : Element \cup {NULL}, next : Node \cup {NULL}]]
         /\ heap'[n] = NewNode(d)
         /\ \A i \in 1 .. Len(chain) :
              /\ chain[i] # n
              /\ heap'[chain[i]].used /\ heap'[chain[i]].data = heap[chain[i]].data
              /\ heap'[chain[i]].next = IF i = Len(chain) THEN n ELSE heap[chain[i]].next
<1> USE DEF ListInv
<1>1. n \in Node /\ ~heap[n].used
  BY DEF Unused
<1>2. chain \in Seq(Node)
  BY DEF ListTypeOK
<1>3. /\ chain' \in Seq(Node) /\ Len(chain') = Len(chain) + 1
      /\ \A i \in 1 .. Len(chain) : chain'[i] = chain[i]
      /\ chain'[Len(chain) + 1] = n
  <2>1. /\ Append(chain, n) \in Seq(Node) /\ Len(Append(chain, n)) = Len(chain) + 1
        /\ \A i \in 1 .. Len(chain) : Append(chain, n)[i] = chain[i]
        /\ Append(chain, n)[Len(chain) + 1] = n
    BY <1>1, <1>2, AppendProperties
  <2> QED BY <2>1
<1>4. \A i \in 1 .. Len(chain) : chain[i] # n
  BY <1>1, ChainFacts
<1>5. /\ NewNode(d) \in [used : BOOLEAN, data : Element \cup {NULL}, next : Node \cup {NULL}]
      /\ heap \in [Node -> [used : BOOLEAN, data : Element \cup {NULL}, next : Node \cup {NULL}]]
  BY DEF NewNode, ListTypeOK
<1>6. CASE list_empty
  <2>1. heap' = [heap EXCEPT ![n] = NewNode(d)] /\ Len(chain) = 0
    BY <1>6, ChainFacts DEF Linked
  <2>2. heap' \in [Node -> [used : BOOLEAN, data : Element \cup {NULL}, next : Node \cup {NULL}]]
    BY <1>1, <1>5, <2>1
  <2>3. heap'[n] = NewNode(d)
    BY <1>1, <1>5, <2>1
  <2> QED BY <1>3, <2>1, <2>2, <2>3
<1>7. CASE ~list_empty
  <2>1. /\ heap' = [heap EXCEPT ![n] = NewNode(d), ![list.rear].next = n]
        /\ Len(chain) > 0 /\ list.rear = chain[Len(chain)] /\ list.rear \in Node
    BY <1>7, ChainFacts DEF Linked
  <2>2. Len(chain) \in Nat /\ list.rear # n
    BY <1>4, <2>1, ChainFacts
  <2>3. /\ heap'[n] = NewNode(d)
        /\ heap'[list.rear] = [heap[list.rear] EXCEPT !.next = n]
        /\ \A m \in Node \ {n, list.rear} : heap'[m] = heap[m]
    BY <1>1, <1>5, <2>1, <2>2
  <2>4. heap' \in [Node -> [used : BOOLEAN, data : Element \cup {NULL}, next : Node \cup {NULL}]]
    <3> DEFINE Cell == [used : BOOLEAN, data : Element \cup {NULL}, next : Node \cup {NULL}]
    <3>1. [heap[list.rear] EXCEPT !.next = n] \in Cell
      BY <1>1, <1>5, <2>1
    <3>2. NewNode(d) \in Cell /\ heap \in [Node -> Cell]
      BY <1>5
    <3> HIDE DEF Cell
    <3>3. heap' = [[heap EXCEPT ![n] = NewNode(d)] EXCEPT ![list.rear] = [heap[list.rear] EXCEPT !.next = n]]
      BY <1>1, <1>5, <2>1, <2>2
    <3>4. [heap EXCEPT ![n] = NewNode(d)] \in [Node -> Cell]
      BY <1>1, <3>2
    <3>5. heap' \in [Node -> Cell]
      BY <2>1, <3>1, <3>3, <3>4
    <3> QED BY <3>5 DEF Cell
  <2>5. ASSUME NEW i \in 1 .. Len(chain)
        PROVE  /\ heap'[chain[i]].used /\ heap'[chain[i]].data = heap[chain[i]].data
               /\ heap'[chain[i]].next = IF i = Len(chain) THEN n ELSE heap[chain[i]].next
    <3>1. chain[i] \in Node /\ chain[i] # n /\ heap[chain[i]].used
      BY <1>4, ChainFacts
    <3>2. CASE i = Len(chain)
      BY <1>5, <2>1, <2>3, <3>1, <3>2
    <3>3. CASE i # Len(chain)
      <4>1. chain[i] # list.rear
        BY <2>1, <2>2, <3>3, ChainFacts
      <4> QED BY <2>3, <3>1, <3>3, <4>1
    <3> QED BY <3>2, <3>3
  <2> QED BY <1>3, <1>4, <2>3, <2>4, <2>5
<1> QED BY <1>6, <1>7

LEMMA ListPushKeeps ==
  ASSUME ListInv, NEW d \in Element, list_push(d), call = "idle"
  PROVE  ListInv'
<1>1. PICK n \in Unused :
        /\ heap' = Linked(n, d) /\ list' = WithNode(n) /\ chain' = Append(chain, n)
        /\ UNCHANGED <<call, leftovers>>
  BY DEF list_push
<1>2. /\ chain' \in Seq(Node) /\ Len(chain') = Len(chain) + 1
      /\ \A i \in 1 .. Len(chain) : chain'[i] = chain[i]
      /\ chain'[Len(chain) + 1] = n
      /\ heap' \in [Node -> [used : BOOLEAN, data : Element \cup {NULL}, next : Node \cup {NULL}]]
      /\ heap'[n] = NewNode(d)
      /\ \A i \in 1 .. Len(chain) :
           /\ chain[i] # n
           /\ heap'[chain[i]].used /\ heap'[chain[i]].data = heap[chain[i]].data
           /\ heap'[chain[i]].next = IF i = Len(chain) THEN n ELSE heap[chain[i]].next
  BY <1>1, PushLinks
<1>3. /\ Len(chain) \in Nat /\ DOMAIN chain' = 1 .. Len(chain) + 1 /\ n \in Node
      /\ chain' # << >>
  <2>1. Len(chain) \in Nat
    BY ChainFacts DEF ListInv
  <2>2. DOMAIN chain' = 1 .. Len(chain')
    BY <1>2, LenProperties
  <2>3. chain' # << >>
    BY <1>2, <2>1, EmptySeq
  <2>4. n \in Node
    BY DEF Unused
  <2> QED BY <1>2, <2>1, <2>2, <2>3, <2>4
<1>4. list'.node_size = list.node_size + 1 /\ list.node_size \in Int
  BY <1>1 DEF WithNode, ListInv, ListTypeOK
<1>5. list'.rear = n /\ list'.head = chain'[1]
  <2>1. CASE list_empty
    <3>1. Len(chain) = 0
      BY <2>1, ChainFacts DEF ListInv
    <3> QED BY <1>1, <1>2, <2>1, <3>1 DEF WithNode
  <2>2. CASE ~list_empty
    <3>1. list.head = chain[1] /\ 1 \in 1 .. Len(chain)
      <4>1. Len(chain) > 0 /\ list.head = chain[1]
        BY <2>2, ChainFacts DEF ListInv
      <4> QED BY <1>3, <4>1
    <3> QED BY <1>1, <1>2, <2>2, <3>1 DEF WithNode
  <2> QED BY <2>1, <2>2
<1>6. ListTypeOK'
  <2>1. list' \in [head : Node \cup {NULL}, rear : Node \cup {NULL}, node_size : Int]
    BY <1>1, <1>3, <1>4 DEF WithNode, ListInv, ListTypeOK
  <2> QED BY <1>1, <1>2, <2>1 DEF ListInv, ListTypeOK
<1>7. ChainIsLinked'
  <2>1. ASSUME NEW i \in 1 .. Len(chain) + 1
        PROVE  /\ heap'[chain'[i]].used /\ heap'[chain'[i]].data # NULL
               /\ heap'[chain'[i]].next = IF i = Len(chain) + 1 THEN NULL ELSE chain'[i + 1]
               /\ \A j \in 1 .. Len(chain) + 1 : chain'[i] = chain'[j] => i = j
    <3>1. CASE i = Len(chain) + 1
      <4>1. chain'[i] = n /\ heap'[n].used /\ heap'[n].data = d /\ heap'[n].next = NULL
        BY <1>2, <3>1 DEF NewNode
      <4>2. ASSUME NEW j \in 1 .. Len(chain) + 1, chain'[i] = chain'[j]
            PROVE  i = j
        <5>1. CASE j \in 1 .. Len(chain)
          BY <1>2, <4>1, <4>2, <5>1
        <5> QED BY <1>3, <3>1, <5>1
      <4> QED BY <3>1, <4>1, <4>2, NodeAssumption
    <3>2. CASE i # Len(chain) + 1
      <4>1. i \in 1 .. Len(chain)
        BY <1>3, <3>2
      <4>2. chain'[i] = chain[i] /\ heap[chain[i]].data # NULL
        BY <1>2, <4>1, ChainFacts DEF ListInv
      <4>3. heap'[chain[i]].next = chain'[i + 1]
        <5>1. CASE i = Len(chain)
          BY <1>2, <4>1, <5>1
        <5>2. CASE i # Len(chain)
          <6>1. i + 1 \in 1 .. Len(chain)
            BY <1>3, <4>1, <5>2
          <6>2. heap[chain[i]].next = chain[i + 1]
            BY <4>1, <5>2, ChainFacts DEF ListInv
          <6> QED BY <1>2, <4>1, <5>2, <6>1, <6>2
        <5> QED BY <5>1, <5>2
      <4>4. ASSUME NEW j \in 1 .. Len(chain) + 1, chain'[i] = chain'[j]
            PROVE  i = j
        <5>1. CASE j \in 1 .. Len(chain)
          <6>1. chain[i] = chain[j]
            BY <1>2, <4>2, <4>4, <5>1
          <6> QED BY <4>1, <5>1, <6>1, ChainFacts DEF ListInv
        <5>2. CASE j = Len(chain) + 1
          BY <1>2, <4>1, <4>2, <4>4, <5>2
        <5> QED BY <1>3, <5>1, <5>2
      <4> QED BY <1>2, <3>2, <4>1, <4>2, <4>3, <4>4
    <3> QED BY <3>1, <3>2
  <2>2. list'.rear = chain'[Len(chain')]
    BY <1>2, <1>5
  <2> QED BY <1>2, <1>3, <1>5, <2>1, <2>2 DEF ChainIsLinked
<1>8. SizeInv'
  <2>1. call' = "idle" /\ list.node_size = Len(chain) - leftovers /\ leftovers' = leftovers
    BY <1>1 DEF ListInv, SizeInv
  <2>2. leftovers \in Nat
    BY DEF ListInv, ListTypeOK
  <2>3. list'.node_size = Len(chain') - leftovers'
    BY <1>2, <1>3, <1>4, <2>1, <2>2
  <2> QED BY <2>1, <2>3 DEF SizeInv
<1> QED BY <1>6, <1>7, <1>8 DEF ListInv

-----------------------------------------------------------------------------
(* pop_queue, and a turn of the loop of destroy_queue *)

LEMMA TakeHeadUnlinks ==
  ASSUME ListTypeOK, ChainIsLinked, ~list_empty, TakeHead
  PROVE  /\ chain' \in Seq(Node) /\ Len(chain) > 0 /\ Len(chain') = Len(chain) - 1
         /\ DOMAIN chain' = 1 .. Len(chain')
         /\ \A i \in 1 .. Len(chain') : i + 1 \in 1 .. Len(chain) /\ chain'[i] = chain[i + 1]
         /\ heap' \in [Node -> [used : BOOLEAN, data : Element \cup {NULL}, next : Node \cup {NULL}]]
         /\ \A i \in 1 .. Len(chain') : heap'[chain'[i]] = heap[chain[i + 1]]
         /\ list'.node_size = list.node_size - 1
         /\ ListTypeOK' /\ ChainIsLinked'
         /\ ListContents' = Tail(ListContents)
<1>1. /\ list' = WithoutHead /\ chain' = Tail(chain) /\ UNCHANGED <<call, leftovers>>
      /\ heap' = [heap EXCEPT ![list.head] = Nobody]
  BY DEF TakeHead, Free
<1>2. /\ chain \in Seq(Node) /\ Len(chain) \in Nat /\ chain # << >> /\ Len(chain) > 0
      /\ list.head = chain[1] /\ list.head \in Node
      /\ list.rear = chain[Len(chain)] /\ list.rear \in Node
  BY ChainFacts DEF ListTypeOK
<1>3. /\ chain' \in Seq(Node) /\ Len(chain') = Len(chain) - 1
      /\ \A i \in 1 .. Len(chain') : chain'[i] = chain[i + 1]
  BY <1>1, <1>2, HeadTailProperties
<1>4. /\ Len(chain') \in Nat /\ DOMAIN chain' = 1 .. Len(chain')
      /\ \A i \in 1 .. Len(chain') : i + 1 \in 1 .. Len(chain)
  BY <1>2, <1>3, LenProperties
<1>5. heap' \in [Node -> [used : BOOLEAN, data : Element \cup {NULL}, next : Node \cup {NULL}]]
  BY <1>1, <1>2 DEF ListTypeOK, Nobody
<1>6. ASSUME NEW i \in 1 .. Len(chain')
      PROVE  heap'[chain'[i]] = heap[chain[i + 1]]
  <2>1. i + 1 \in 1 .. Len(chain) /\ 1 \in 1 .. Len(chain) /\ i + 1 # 1 /\ chain'[i] = chain[i + 1]
    BY <1>2, <1>3, <1>4
  <2>2. chain[i + 1] # list.head /\ chain[i + 1] \in Node
    BY <1>2, <2>1, ChainFacts
  <2> QED BY <1>1, <2>1, <2>2 DEF ListTypeOK
<1>7. heap[list.head].next = IF Len(chain) = 1 THEN NULL ELSE chain[2]
  <2>1. 1 \in 1 .. Len(chain)
    BY <1>2
  <2>2. heap[chain[1]].next = IF 1 = Len(chain) THEN NULL ELSE chain[1 + 1]
    BY <2>1, ChainFacts
  <2> QED BY <1>2, <2>2
<1>8. /\ list'.node_size = list.node_size - 1 /\ list'.rear = list.rear
      /\ list'.head = heap[list.head].next /\ list.node_size \in Int
  BY <1>1 DEF WithoutHead, ListTypeOK
<1>9. ListTypeOK'
  <2>1. heap[list.head].next \in Node \cup {NULL}
    BY <1>2 DEF ListTypeOK
  <2>2. list' \in [head : Node \cup {NULL}, rear : Node \cup {NULL}, node_size : Int]
    <3>1. list \in [head : Node \cup {NULL}, rear : Node \cup {NULL}, node_size : Int]
      BY DEF ListTypeOK
    <3>2. list' = [head |-> heap[list.head].next, rear |-> list.rear, node_size |-> list.node_size - 1]
      BY <1>1, <3>1 DEF WithoutHead
    <3> QED BY <2>1, <3>1, <3>2
  <2> QED BY <1>1, <1>3, <1>5, <2>2 DEF ListTypeOK
<1>10. chain' = << >> <=> Len(chain') = 0
  BY <1>3, <1>4, EmptySeq
<1>11. list'.head = IF chain' = << >> THEN NULL ELSE chain'[1]
  <2>1. CASE Len(chain) = 1
    BY <1>3, <1>7, <1>8, <1>10, <2>1
  <2>2. CASE Len(chain) # 1
    <3>1. 1 \in 1 .. Len(chain') /\ chain' # << >>
      BY <1>2, <1>3, <1>4, <1>10, <2>2
    <3>2. chain'[1] = chain[1 + 1]
      BY <1>3, <3>1
    <3> QED BY <1>7, <1>8, <2>2, <3>1, <3>2
  <2> QED BY <2>1, <2>2
<1>12. chain' # << >> => list'.rear = chain'[Len(chain')]
  <2> SUFFICES ASSUME chain' # << >>
               PROVE  list'.rear = chain'[Len(chain')]
    OBVIOUS
  <2>1. Len(chain') \in 1 .. Len(chain') /\ Len(chain') + 1 = Len(chain)
    BY <1>2, <1>3, <1>4, <1>10
  <2>2. chain'[Len(chain')] = chain[Len(chain') + 1]
    BY <1>3, <2>1
  <2> QED BY <1>2, <1>8, <2>1, <2>2
<1>13. ASSUME NEW i \in 1 .. Len(chain')
       PROVE  /\ heap'[chain'[i]].used /\ heap'[chain'[i]].data # NULL
              /\ heap'[chain'[i]].next = IF i = Len(chain') THEN NULL ELSE chain'[i + 1]
              /\ \A j \in 1 .. Len(chain') : chain'[i] = chain'[j] => i = j
  <2>1. i + 1 \in 1 .. Len(chain) /\ chain'[i] = chain[i + 1] /\ heap'[chain'[i]] = heap[chain[i + 1]]
    BY <1>3, <1>4, <1>6
  <2>2. /\ heap[chain[i + 1]].used /\ heap[chain[i + 1]].data # NULL
        /\ heap[chain[i + 1]].next = IF i + 1 = Len(chain) THEN NULL ELSE chain[i + 1 + 1]
    BY <2>1, ChainFacts
  <2>3. heap'[chain'[i]].next = IF i = Len(chain') THEN NULL ELSE chain'[i + 1]
    <3>1. CASE i = Len(chain')
      <4>1. i + 1 = Len(chain)
        BY <1>2, <1>3, <3>1
      <4> QED BY <2>1, <2>2, <3>1, <4>1
    <3>2. CASE i # Len(chain')
      <4>1. i + 1 \in 1 .. Len(chain') /\ i + 1 # Len(chain)
        BY <1>2, <1>3, <1>4, <3>2
      <4>2. chain'[i + 1] = chain[i + 1 + 1]
        BY <1>3, <4>1
      <4> QED BY <2>1, <2>2, <3>2, <4>1, <4>2
    <3> QED BY <3>1, <3>2
  <2>4. ASSUME NEW j \in 1 .. Len(chain'), chain'[i] = chain'[j]
        PROVE  i = j
    <3>1. j + 1 \in 1 .. Len(chain) /\ chain[i + 1] = chain[j + 1]
      BY <1>3, <1>4, <2>1, <2>4
    <3>2. i + 1 = j + 1
      BY <2>1, <3>1, ChainFacts
    <3> QED BY <1>4, <3>2
  <2> QED BY <2>1, <2>2, <2>3, <2>4
<1>14. ChainIsLinked'
  BY <1>4, <1>11, <1>12, <1>13 DEF ChainIsLinked
<1>15. ListContents' = Tail(ListContents)
  <2>1. DOMAIN chain = 1 .. Len(chain)
    BY ChainFacts
  <2>2. ListContents = [i \in 1 .. Len(chain) |-> heap[chain[i]].data]
    BY <2>1 DEF ListContents
  <2>3. ListContents \in [1 .. Len(chain) -> Element \cup {NULL}]
    <3>1. \A i \in 1 .. Len(chain) : heap[chain[i]].data \in Element \cup {NULL}
      <4>1. \A i \in 1 .. Len(chain) : chain[i] \in Node
        BY ChainFacts
      <4> QED BY <4>1 DEF ListTypeOK
    <3> QED BY <2>2, <3>1
  <2>4. ListContents \in Seq(Element \cup {NULL}) /\ Len(ListContents) = Len(chain)
    BY <1>2, <2>3, FunctionIsSeq
  <2>5. /\ Tail(ListContents) \in Seq(Element \cup {NULL}) /\ Len(Tail(ListContents)) = Len(chain) - 1
        /\ \A i \in 1 .. Len(chain) - 1 : Tail(ListContents)[i] = ListContents[i + 1]
    <3>1. ListContents # << >>
      BY <1>2, <2>4, EmptySeq
    <3> QED BY <2>4, <3>1, HeadTailProperties
  <2>6. ListContents' = [i \in 1 .. Len(chain') |-> heap'[chain'[i]].data]
    BY <1>4 DEF ListContents
  <2>7. \A i \in 1 .. Len(chain') : heap'[chain'[i]].data = Tail(ListContents)[i]
    BY <1>3, <1>4, <1>6, <2>2, <2>5
  <2>8. Tail(ListContents) = [i \in 1 .. Len(chain) - 1 |-> Tail(ListContents)[i]]
    BY <2>5, LenProperties
  <2> QED BY <1>3, <2>6, <2>7, <2>8
<1> QED BY <1>2, <1>3, <1>4, <1>5, <1>6, <1>8, <1>9, <1>14, <1>15

LEMMA ListPopKeeps ==
  ASSUME ListInv, call = "idle", list_pop
  PROVE  ListInv'
<1>1. /\ Len(chain) \in Nat /\ Len(chain') = Len(chain) - 1
      /\ list'.node_size = list.node_size - 1 /\ ListTypeOK' /\ ChainIsLinked'
  BY TakeHeadUnlinks, ChainFacts DEF ListInv, list_pop
<1>2. call' = "idle" /\ leftovers' = leftovers
  BY DEF list_pop, TakeHead
<1>3. list.node_size = Len(chain) - leftovers /\ leftovers \in Nat
  BY DEF ListInv, ListTypeOK, SizeInv
<1>4. list'.node_size = Len(chain') - leftovers'
  BY <1>1, <1>2, <1>3
<1>5. SizeInv'
  BY <1>2, <1>4 DEF SizeInv
<1> QED BY <1>1, <1>5 DEF ListInv

LEMMA DestroyFreesHeadKeeps ==
  ASSUME ListInv, call = "destroying", DestroyFreesHead
  PROVE  ListInv'
<1>1. /\ Len(chain) \in Nat /\ Len(chain') = Len(chain) - 1 /\ Len(chain) > 0
      /\ list'.node_size = list.node_size - 1 /\ ListTypeOK' /\ ChainIsLinked'
  BY TakeHeadUnlinks, ChainFacts DEF ListInv, DestroyFreesHead
<1>2. call' = "destroying" /\ leftovers' = leftovers /\ list.node_size # 1
  BY DEF DestroyFreesHead, TakeHead
<1>3. list.node_size = Len(chain) - leftovers + 1 /\ leftovers \in Nat /\ leftovers > 0
  BY DEF ListInv, ListTypeOK, SizeInv
<1>4. list'.node_size = Len(chain') - leftovers' + 1
  BY <1>1, <1>2, <1>3
<1>5. leftovers' = 1 => Len(chain') > 0
  BY <1>1, <1>2, <1>3
<1>6. SizeInv'
  BY <1>2, <1>3, <1>4, <1>5 DEF SizeInv
<1> QED BY <1>1, <1>6 DEF ListInv

(* The calls and turns that move no node *)
LEMMA OthersKeep ==
  ASSUME ListInv,
         \/ /\ call = "idle"
            /\ list_create \/ list_push_no_memory \/ list_destroy
         \/ /\ call = "destroying"
            /\ DestroyEnds \/ DestroyRunsOff
         \/ UNCHANGED listVars
  PROVE  ListInv'
<1>0. Len(chain) \in Nat /\ leftovers \in Nat /\ list.node_size \in Int
  BY ChainFacts DEF ListInv, ListTypeOK
<1>1. CASE call = "idle" /\ list_create
  <2>1. << >> \in Seq(Node) /\ Len(<< >>) = 0 /\ DOMAIN << >> = {}
    BY EmptySeq
  <2>2. /\ list' = [head |-> NULL, rear |-> NULL, node_size |-> 0]
        /\ chain' = << >> /\ leftovers' = 0 /\ heap' = heap /\ call' = "idle"
    BY <1>1 DEF list_create
  <2>3. ListTypeOK'
    BY <2>1, <2>2 DEF ListInv, ListTypeOK
  <2>4. ChainIsLinked'
    BY <2>1, <2>2 DEF ChainIsLinked
  <2>5. SizeInv'
    BY <2>1, <2>2 DEF SizeInv
  <2> QED BY <2>3, <2>4, <2>5 DEF ListInv
<1>2. CASE call = "idle" /\ list_push_no_memory
  <2>1. UNCHANGED <<list, heap, chain, leftovers>> /\ call' = "crashed" /\ Unused = {}
    BY <1>2 DEF list_push_no_memory
  <2>2. Unused' = {}
    BY <2>1 DEF Unused
  <2> QED BY <2>1, <2>2 DEF ListInv, ListTypeOK, ChainIsLinked, SizeInv
<1>3. CASE call = "idle" /\ list_destroy
  <2>1. UNCHANGED <<list, heap, chain>> /\ call' = "destroying" /\ leftovers' = leftovers + 1
    BY <1>3 DEF list_destroy
  <2>2. Len(chain) > 0
    BY <1>3, ChainFacts DEF ListInv, list_destroy
  <2>3. list.node_size = Len(chain) - leftovers
    BY <1>3 DEF ListInv, SizeInv
  <2>4. SizeInv'
    BY <1>0, <2>1, <2>2, <2>3 DEF SizeInv
  <2>5. ListTypeOK' /\ ChainIsLinked'
    BY <1>0, <2>1 DEF ListInv, ListTypeOK, ChainIsLinked
  <2> QED BY <2>4, <2>5 DEF ListInv
<1>4. CASE call = "destroying" /\ DestroyEnds
  <2>1. /\ UNCHANGED <<heap, chain, leftovers>> /\ call' = "idle" /\ list.node_size = 1
        /\ list' = [list EXCEPT !.node_size = 0]
    BY <1>4 DEF DestroyEnds
  <2>2. list.node_size = Len(chain) - leftovers + 1
    BY <1>4 DEF ListInv, SizeInv
  <2>3. /\ list' \in [head : Node \cup {NULL}, rear : Node \cup {NULL}, node_size : Int]
        /\ list'.head = list.head /\ list'.rear = list.rear /\ list'.node_size = 0
    BY <2>1 DEF ListInv, ListTypeOK
  <2>4. Len(chain) - leftovers = 0
    BY <1>0, <2>1, <2>2
  <2>5. SizeInv'
    BY <2>1, <2>3, <2>4 DEF SizeInv
  <2>6. ListTypeOK' /\ ChainIsLinked'
    BY <2>1, <2>3 DEF ListInv, ListTypeOK, ChainIsLinked
  <2> QED BY <2>5, <2>6 DEF ListInv
<1>5. CASE call = "destroying" /\ DestroyRunsOff
  <2>1. /\ UNCHANGED <<list, heap, chain, leftovers>> /\ call' = "crashed"
        /\ list.node_size # 1 /\ list_empty
    BY <1>5 DEF DestroyRunsOff
  <2>2. Len(chain) = 0
    BY <1>0, <2>1, ChainFacts DEF ListInv
  <2>3. leftovers > 0 /\ (leftovers = 1 => Len(chain) > 0)
    BY <1>5 DEF ListInv, SizeInv
  <2>4. leftovers > 1
    BY <1>0, <2>2, <2>3
  <2>5. ListTypeOK' /\ ChainIsLinked'
    BY <2>1 DEF ListInv, ListTypeOK, ChainIsLinked
  <2>6. SizeInv'
    BY <2>1, <2>4 DEF SizeInv
  <2> QED BY <2>5, <2>6 DEF ListInv
<1>6. CASE UNCHANGED listVars
  <2>1. UNCHANGED <<list, heap, call, chain, leftovers>>
    BY <1>6 DEF listVars
  <2>2. Unused' = Unused
    BY <2>1 DEF Unused
  <2> QED BY <2>1, <2>2 DEF ListInv, ListTypeOK, ChainIsLinked, SizeInv
<1> QED BY <1>1, <1>2, <1>3, <1>4, <1>5, <1>6

LEMMA ListInvNext == ListInv /\ [ListNext]_listVars => ListInv'
<1> SUFFICES ASSUME ListInv, [ListNext]_listVars
             PROVE  ListInv'
  OBVIOUS
<1>1. ASSUME call = "idle", NEW d \in Element, list_push(d)
      PROVE  ListInv'
  BY <1>1, ListPushKeeps
<1>2. CASE call = "idle" /\ list_pop
  BY <1>2, ListPopKeeps
<1>3. CASE call = "destroying" /\ DestroyFreesHead
  BY <1>3, DestroyFreesHeadKeeps
<1> QED BY <1>1, <1>2, <1>3, OthersKeep DEF ListNext

LEMMA ListInvAlways == ListSpec => []ListInv
<1> QED BY ListInvInit, ListInvNext, PTL DEF ListSpec

-----------------------------------------------------------------------------
(* The elements in the queue *)

LEMMA ListContentsFacts ==
  ASSUME ListInv
  PROVE  /\ ListContents \in Seq(Element \cup {NULL}) /\ Len(ListContents) = Len(chain)
         /\ \A i \in 1 .. Len(chain) : ListContents[i] = heap[chain[i]].data
<1>1. Len(chain) \in Nat /\ DOMAIN chain = 1 .. Len(chain) /\ \A i \in 1 .. Len(chain) : chain[i] \in Node
  BY ChainFacts DEF ListInv
<1>2. ListContents = [i \in 1 .. Len(chain) |-> heap[chain[i]].data]
  BY <1>1 DEF ListContents
<1>3. \A i \in 1 .. Len(chain) : heap[chain[i]].data \in Element \cup {NULL}
  BY <1>1 DEF ListInv, ListTypeOK
<1>4. ListContents \in [1 .. Len(chain) -> Element \cup {NULL}]
  BY <1>2, <1>3
<1>5. ListContents \in Seq(Element \cup {NULL}) /\ Len(ListContents) = Len(chain)
  BY <1>1, <1>4, FunctionIsSeq
<1> QED BY <1>2, <1>5

(* As long as a node is unused there are fewer in the chain than there are. *)
LEMMA RoomLeft ==
  ASSUME ListInv, NEW n \in Unused
  PROVE  Len(chain) < Cardinality(Node)
<1>1. n \in Node /\ ~heap[n].used
  BY DEF Unused
<1>2. /\ IsFiniteSet(Node \ {n}) /\ Cardinality(Node \ {n}) = Cardinality(Node) - 1
      /\ Cardinality(Node) \in Nat
  BY <1>1, NodeAssumption, FS_RemoveElement, FS_CardinalityType
<1>3. /\ Len(chain) \in Nat /\ chain \in Seq(Node)
      /\ \A i \in 1 .. Len(chain) : chain[i] \in Node /\ heap[chain[i]].used
      /\ \A i, j \in 1 .. Len(chain) : chain[i] = chain[j] => i = j
  BY ChainFacts DEF ListInv, ListTypeOK
<1>4. chain \in [1 .. Len(chain) -> Node \ {n}]
  <2>1. chain \in [1 .. Len(chain) -> Node]
    BY <1>3, LenProperties
  <2>2. \A i \in 1 .. Len(chain) : chain[i] \in Node \ {n}
    BY <1>1, <1>3
  <2> QED BY <2>1, <2>2
<1>5. chain \in Injection(1 .. Len(chain), Node \ {n})
  BY <1>3, <1>4 DEF Injection, IsInjective
<1>6. Cardinality(1 .. Len(chain)) <= Cardinality(Node \ {n})
  BY <1>2, <1>5, FS_Injection
<1>7. Cardinality(1 .. Len(chain)) = Len(chain)
  <2>1. Cardinality(1 .. Len(chain)) = IF 1 > Len(chain) THEN 0 ELSE Len(chain) - 1 + 1
    <3>1. 1 \in Int /\ Len(chain) \in Int
      BY <1>3
    <3> QED BY <3>1, FS_Interval
  <2> QED BY <1>3, <2>1
<1> QED BY <1>2, <1>3, <1>6, <1>7

LEMMA ListPushPuts ==
  ASSUME ListInv, NEW d \in Element, list_push(d), call = "idle"
  PROVE  ListFifo!Put(d)
<1>1. PICK n \in Unused :
        /\ heap' = Linked(n, d) /\ list' = WithNode(n) /\ chain' = Append(chain, n)
        /\ UNCHANGED <<call, leftovers>>
  BY DEF list_push
<1>2. /\ chain' \in Seq(Node) /\ Len(chain') = Len(chain) + 1
      /\ \A i \in 1 .. Len(chain) : chain'[i] = chain[i]
      /\ chain'[Len(chain) + 1] = n
      /\ heap'[n] = NewNode(d)
      /\ \A i \in 1 .. Len(chain) : heap'[chain[i]].data = heap[chain[i]].data
  BY <1>1, PushLinks
<1>3. Len(chain) \in Nat /\ DOMAIN chain' = 1 .. Len(chain) + 1
  <2>1. Len(chain) \in Nat
    BY ChainFacts DEF ListInv
  <2>2. DOMAIN chain' = 1 .. Len(chain')
    BY <1>2, LenProperties
  <2> QED BY <1>2, <2>1, <2>2
<1>4. /\ ListContents \in Seq(Element \cup {NULL}) /\ Len(ListContents) = Len(chain)
      /\ \A i \in 1 .. Len(chain) : ListContents[i] = heap[chain[i]].data
  BY ListContentsFacts
<1>5. /\ Append(ListContents, d) \in Seq(Element \cup {NULL})
      /\ Len(Append(ListContents, d)) = Len(chain) + 1
      /\ \A i \in 1 .. Len(chain) : Append(ListContents, d)[i] = ListContents[i]
      /\ Append(ListContents, d)[Len(chain) + 1] = d
  <2>1. d \in Element \cup {NULL}
    OBVIOUS
  <2>2. /\ Append(ListContents, d) \in Seq(Element \cup {NULL})
        /\ Len(Append(ListContents, d)) = Len(ListContents) + 1
        /\ \A i \in 1 .. Len(ListContents) : Append(ListContents, d)[i] = ListContents[i]
        /\ Append(ListContents, d)[Len(ListContents) + 1] = d
    BY <1>4, <2>1, AppendProperties
  <2> QED BY <1>4, <2>2
<1>6. ListContents' = [i \in 1 .. Len(chain) + 1 |-> heap'[chain'[i]].data]
  BY <1>3 DEF ListContents
<1>7. \A i \in 1 .. Len(chain) + 1 : heap'[chain'[i]].data = Append(ListContents, d)[i]
  <2>1. ASSUME NEW i \in 1 .. Len(chain)
        PROVE  heap'[chain'[i]].data = Append(ListContents, d)[i]
    BY <1>2, <1>4, <1>5
  <2>2. heap'[chain'[Len(chain) + 1]].data = Append(ListContents, d)[Len(chain) + 1]
    BY <1>2, <1>5 DEF NewNode
  <2>3. \A i \in 1 .. Len(chain) + 1 : i \in 1 .. Len(chain) \/ i = Len(chain) + 1
    BY <1>3
  <2> QED BY <2>1, <2>2, <2>3
<1>8. Append(ListContents, d) = [i \in 1 .. Len(chain) + 1 |-> Append(ListContents, d)[i]]
  BY <1>5, LenProperties
<1>9. ListContents' = Append(ListContents, d)
  BY <1>6, <1>7, <1>8
<1>10. Len(ListContents) < Cardinality(Node)
  BY <1>4, RoomLeft
<1> QED BY <1>9, <1>10 DEF ListFifo!Put

LEMMA ListPopGets ==
  ASSUME ListInv, list_pop
  PROVE  ListFifo!Get
<1>1. ListContents' = Tail(ListContents)
  BY TakeHeadUnlinks DEF ListInv, list_pop
<1>2. ListContents # << >>
  <2>1. Len(chain) > 0
    BY ChainFacts DEF ListInv, list_pop
  <2>2. Len(ListContents) > 0
    BY <2>1, ListContentsFacts
  <2> QED BY <2>2, EmptySeq
<1> QED BY <1>1, <1>2 DEF ListFifo!Get

LEMMA CallsRefine ==
  ListInv /\ [ListNext]_listVars => (call = "idle" => ListFifo!Next \/ ListContents' = ListContents)
<1> SUFFICES ASSUME ListInv, [ListNext]_listVars, call = "idle"
             PROVE  ListFifo!Next \/ ListContents' = ListContents
  OBVIOUS
<1>1. CASE list_create
  <2>1. chain' = << >>
    BY <1>1 DEF list_create
  <2>2. ListContents' = << >>
    BY <2>1 DEF ListContents
  <2> QED BY <2>2 DEF ListFifo!Next, ListFifo!Clear
<1>2. ASSUME NEW d \in Element, list_push(d)
      PROVE  ListFifo!Next
  BY <1>2, ListPushPuts DEF ListFifo!Next
<1>3. CASE list_pop
  BY <1>3, ListPopGets DEF ListFifo!Next
<1>4. CASE list_push_no_memory \/ list_destroy \/ UNCHANGED listVars
  <2>1. UNCHANGED <<heap, chain>>
    BY <1>4 DEF list_push_no_memory, list_destroy, listVars
  <2> QED BY <2>1 DEF ListContents
<1> QED BY <1>1, <1>2, <1>3, <1>4 DEF ListNext

-----------------------------------------------------------------------------
(***************************************************************************)
(* The pointers, the nodes and node_size keep their types; node_size may   *)
(* become negative (queue_list.c:88-139).                                  *)
(***************************************************************************)
THEOREM ListTypes == ListSpec => []ListTypeOK
<1> QED BY ListInvAlways, PTL DEF ListInv

(***************************************************************************)
(* head, next and rear link exactly the nodes put in and not taken out,    *)
(* none of them freed, though rear is left dangling when the last node is  *)
(* taken (queue_list.c:88, :113).                                          *)
(***************************************************************************)
THEOREM ChainStaysLinked == ListSpec => []ChainIsLinked
<1> QED BY ListInvAlways, PTL DEF ListInv

(***************************************************************************)
(* node_size is short by one for every destruction of a queue that held    *)
(* nodes, and only after one can destroy_queue run off the list            *)
(* (queue_list.c:131).                                                     *)
(***************************************************************************)
THEOREM SizeDrift == ListSpec => []SizeShortByLeftovers
<1>1. ListInv => SizeShortByLeftovers
  BY ChainFacts DEF ListInv, SizeInv, SizeShortByLeftovers, list_size
<1> QED BY <1>1, ListInvAlways, PTL

(***************************************************************************)
(* Outside destroy_queue every call is a step of a first-in first-out      *)
(* queue with room for as many elements as there are nodes, or leaves the  *)
(* elements as they are (data_structure/队列.md:5).                        *)
(***************************************************************************)
THEOREM ListImplementsFifo == ListSpec => ListIsFifo
<1>1. ListInit => ListFifo!Init
  <2> SUFFICES ASSUME ListInit
               PROVE  ListContents = << >>
    BY DEF ListFifo!Init
  <2> QED BY DEF ListInit, ListContents
<1>2. ListInv /\ [ListNext]_listVars
        => [call = "idle" => ListFifo!Next \/ UNCHANGED ListContents]_listVars
  BY CallsRefine
<1> QED BY <1>1, <1>2, ListInvAlways, PTL DEF ListSpec, ListIsFifo

-----------------------------------------------------------------------------
(***************************************************************************)
(* ClientList.  At, what a walk along the pointers meets, is a recursive   *)
(* function: the walk along listed satisfies its equation (WalkFollows) and, *)
(* by induction, nothing else does (FollowsOnlyOne).                       *)
(***************************************************************************)

-----------------------------------------------------------------------------
(* The invariant *)

ListedOnce == \A i, j \in 1 .. Len(listed) : listed[i] = listed[j] => i = j

ClientsLinked ==
  /\ next[Llist] = IF Len(listed) = 0 THEN Nil ELSE listed[1]
  /\ \A k \in 1 .. Len(listed) :
       next[listed[k]] = IF k = Len(listed) THEN Nil ELSE listed[k + 1]

ClientTypes ==
  /\ next \in [Client \cup {Llist} -> Client \cup {Nil, Freed}]
  /\ ipaddr \in [Client -> Address \cup {Nil}]
  /\ listed \in Seq(Client)
  /\ crashed \in BOOLEAN

OthersFreed ==
  \A n \in Client : (\A i \in 1 .. Len(listed) : listed[i] # n) => next[n] = Freed

AddressesDiffer ==
  \A i, j \in 1 .. Len(listed) : ipaddr[listed[i]] = ipaddr[listed[j]] => i = j

ClientInv ==
  ~crashed => ClientTypes /\ ListedOnce /\ ClientsLinked /\ OthersFreed /\ AddressesDiffer

WalkOfClients == [k \in 0 .. Cardinality(Client) |->
           IF k = 0 THEN Llist ELSE IF k <= Len(listed) THEN listed[k] ELSE Nil]

(* As many clients as there are nodes can be listed, each once *)
LEMMA NoMoreThanClients ==
  ASSUME NEW s \in Seq(Client), \A i, j \in 1 .. Len(s) : s[i] = s[j] => i = j
  PROVE  /\ Cardinality(Client) \in Nat /\ Len(s) \in Nat
         /\ Len(s) <= Cardinality(Client)
<1>1. Len(s) \in Nat /\ s \in [1 .. Len(s) -> Client]
  BY LenProperties
<1>2. IsFiniteSet(Client) /\ Cardinality(Client) \in Nat
  BY ClientAssumption, FS_CardinalityType
<1>3. s \in Injection(1 .. Len(s), Client)
  BY <1>1 DEF Injection, IsInjective
<1>4. Cardinality(1 .. Len(s)) <= Cardinality(Client)
  BY <1>2, <1>3, FS_Injection
<1>5. Cardinality(1 .. Len(s)) = Len(s)
  <2>1. Cardinality(1 .. Len(s)) = IF 1 > Len(s) THEN 0 ELSE Len(s) - 1 + 1
    <3>1. 1 \in Int /\ Len(s) \in Int
      BY <1>1
    <3> QED BY <3>1, FS_Interval
  <2> QED BY <1>1, <2>1
<1> QED BY <1>1, <1>2, <1>4, <1>5

(* f goes from node to node as At does *)
Follows(f) ==
  f = [k \in 0 .. Cardinality(Client) |->
         IF k = 0 THEN Llist ELSE IF f[k - 1] \in DOMAIN next THEN next[f[k - 1]] ELSE Nil]

LEMMA WalkFollows ==
  ASSUME ClientTypes, ListedOnce, ClientsLinked
  PROVE  Follows(WalkOfClients)
<1> DEFINE C == Cardinality(Client)
           n == Len(listed)
<1>1. C \in Nat /\ n \in Nat /\ n <= C
  BY NoMoreThanClients DEF ClientTypes, ListedOnce
<1>2. DOMAIN next = Client \cup {Llist} /\ Nil \notin DOMAIN next
  BY ClientAssumption DEF ClientTypes
<1>3. \A k \in 1 .. n : listed[k] \in Client
  BY ElementOfSeq DEF ClientTypes
<1>4. ASSUME NEW k \in 0 .. C, k # 0
      PROVE  WalkOfClients[k] = IF WalkOfClients[k - 1] \in DOMAIN next THEN next[WalkOfClients[k - 1]] ELSE Nil
  <2>1. k - 1 \in 0 .. C /\ k \in Nat
    BY <1>1, <1>4
  <2>2. /\ WalkOfClients[k] = IF k <= n THEN listed[k] ELSE Nil
        /\ WalkOfClients[k - 1] = IF k = 1 THEN Llist ELSE IF k - 1 <= n THEN listed[k - 1] ELSE Nil
    BY <1>1, <1>4, <2>1 DEF WalkOfClients
  <2>3. CASE k = 1
    BY <1>1, <1>2, <2>2, <2>3 DEF ClientsLinked
  <2>4. CASE k # 1 /\ k - 1 <= n
    <3>1. k - 1 \in 1 .. n
      BY <1>4, <2>1, <2>4
    <3>2. next[listed[k - 1]] = IF k - 1 = n THEN Nil ELSE listed[k - 1 + 1]
      BY <3>1 DEF ClientsLinked
    <3>3. k - 1 + 1 = k
      BY <2>1
    <3>4. WalkOfClients[k - 1] = listed[k - 1] /\ listed[k - 1] \in DOMAIN next
      BY <1>2, <1>3, <2>2, <2>4, <3>1
    <3> QED BY <1>1, <2>1, <2>2, <2>4, <3>2, <3>3, <3>4
  <2>5. CASE k # 1 /\ ~ (k - 1 <= n)
    BY <1>1, <1>2, <2>1, <2>2, <2>5
  <2> QED BY <2>3, <2>4, <2>5
<1>5. WalkOfClients[0] = Llist
  BY <1>1 DEF WalkOfClients
<1>6. \A k \in 0 .. C : WalkOfClients[k] = IF k = 0 THEN Llist
                                  ELSE IF WalkOfClients[k - 1] \in DOMAIN next THEN next[WalkOfClients[k - 1]] ELSE Nil
  BY <1>4, <1>5
<1>7. WalkOfClients = [k \in 0 .. C |-> WalkOfClients[k]]
  BY DEF WalkOfClients
<1> HIDE DEF C, n
<1>8. WalkOfClients = [k \in 0 .. C |-> IF k = 0 THEN Llist
                               ELSE IF WalkOfClients[k - 1] \in DOMAIN next THEN next[WalkOfClients[k - 1]] ELSE Nil]
  BY <1>6, <1>7, Zenon
<1> QED BY <1>8 DEF Follows, C

LEMMA FollowsOnlyOne ==
  ASSUME NEW f, NEW g, Follows(f), Follows(g), Cardinality(Client) \in Nat
  PROVE  f = g
<1> DEFINE C == Cardinality(Client)
           T == {k \in Nat : k \in 0 .. C => f[k] = g[k]}
<1>1. /\ f = [k \in 0 .. C |->
              IF k = 0 THEN Llist ELSE IF f[k - 1] \in DOMAIN next THEN next[f[k - 1]] ELSE Nil]
      /\ g = [k \in 0 .. C |->
              IF k = 0 THEN Llist ELSE IF g[k - 1] \in DOMAIN next THEN next[g[k - 1]] ELSE Nil]
  BY DEF Follows
<1>2. C \in Nat
  OBVIOUS
<1> HIDE DEF C
<1>3. /\ \A k \in 0 .. C : f[k] = IF k = 0 THEN Llist ELSE IF f[k - 1] \in DOMAIN next THEN next[f[k - 1]] ELSE Nil
      /\ \A k \in 0 .. C : g[k] = IF k = 0 THEN Llist ELSE IF g[k - 1] \in DOMAIN next THEN next[g[k - 1]] ELSE Nil
  BY <1>1, Zenon
<1>4. 0 \in T
  BY <1>3
<1>5. ASSUME NEW m \in Nat, m \in T
      PROVE  m + 1 \in T
  <2> SUFFICES ASSUME m + 1 \in 0 .. C
               PROVE  f[m + 1] = g[m + 1]
    OBVIOUS
  <2>1. m \in 0 .. C /\ m + 1 - 1 = m /\ m + 1 # 0
    BY <1>2
  <2>2. f[m] = g[m]
    BY <1>5, <2>1
  <2>3. /\ f[m + 1] = IF f[m + 1 - 1] \in DOMAIN next THEN next[f[m + 1 - 1]] ELSE Nil
        /\ g[m + 1] = IF g[m + 1 - 1] \in DOMAIN next THEN next[g[m + 1 - 1]] ELSE Nil
    BY <1>3, <2>1
  <2> QED BY <2>1, <2>2, <2>3
<1> HIDE DEF T
<1>6. Nat \subseteq T
  BY <1>4, <1>5, SetInduction
<1>7. \A k \in 0 .. C : f[k] = g[k]
  BY <1>2, <1>6 DEF T
<1>8. f = [k \in 0 .. C |-> f[k]] /\ g = [k \in 0 .. C |-> g[k]]
  BY <1>1, Zenon
<1> QED BY <1>7, <1>8, Zenon

LEMMA AtIsWalk ==
  ASSUME ClientTypes, ListedOnce, ClientsLinked
  PROVE  At = WalkOfClients
<1>1. Follows(WalkOfClients)
  BY WalkFollows
<1>2. Cardinality(Client) \in Nat
  BY ClientAssumption, FS_CardinalityType
<1>3. At = CHOOSE f : Follows(f)
  BY DEF At, Follows
<1>4. Follows(CHOOSE f : Follows(f))
  BY <1>1
<1> HIDE DEF Follows
<1> QED BY <1>1, <1>2, <1>3, <1>4, FollowsOnlyOne

(* What the invariant says of walks *)
ClientFacts ==
  /\ Len(listed) \in Nat /\ Cardinality(Client) \in Nat /\ Len(listed) <= Cardinality(Client)
  /\ DOMAIN listed = 1 .. Len(listed)
  /\ \A k \in 1 .. Len(listed) : listed[k] \in Client /\ next[listed[k]] # Freed
  /\ At[0] = Llist
  /\ \A k \in 1 .. Len(listed) : At[k] = listed[k]
  /\ \A k \in 1 .. Cardinality(Client) : At[k] \in Client <=> k <= Len(listed)
  /\ num_node = Len(listed)

LEMMA ListFacts ==
  ASSUME ClientInv, ~crashed
  PROVE  ClientFacts
<1>0. ClientTypes /\ ListedOnce /\ ClientsLinked
  BY DEF ClientInv
<1>1. Len(listed) \in Nat /\ Cardinality(Client) \in Nat /\ Len(listed) <= Cardinality(Client)
  BY <1>0, NoMoreThanClients DEF ClientTypes, ListedOnce
<1>2. DOMAIN listed = 1 .. Len(listed) /\ \A k \in 1 .. Len(listed) : listed[k] \in Client
  BY <1>0, LenProperties, ElementOfSeq DEF ClientTypes
<1>3. ASSUME NEW k \in 1 .. Len(listed)
      PROVE  next[listed[k]] # Freed
  <2>1. next[listed[k]] = IF k = Len(listed) THEN Nil ELSE listed[k + 1]
    BY <1>0 DEF ClientsLinked
  <2>2. k # Len(listed) => k + 1 \in 1 .. Len(listed)
    BY <1>1
  <2>3. k # Len(listed) => listed[k + 1] \in Client
    BY <1>2, <2>2
  <2> QED BY <2>1, <2>3, ClientAssumption
<1>4. \A k \in 0 .. Cardinality(Client) :
        At[k] = IF k = 0 THEN Llist ELSE IF k <= Len(listed) THEN listed[k] ELSE Nil
  BY <1>0, AtIsWalk DEF WalkOfClients
<1>5. At[0] = Llist
  BY <1>1, <1>4
<1>6. ASSUME NEW k \in 1 .. Len(listed)
      PROVE  At[k] = listed[k]
  <2>1. k \in 0 .. Cardinality(Client) /\ k # 0 /\ k <= Len(listed)
    BY <1>1
  <2> QED BY <1>4, <2>1
<1>7. ASSUME NEW k \in 1 .. Cardinality(Client)
      PROVE  At[k] \in Client <=> k <= Len(listed)
  <2>1. k \in 0 .. Cardinality(Client) /\ k # 0
    BY <1>1
  <2>2. At[k] = IF k <= Len(listed) THEN listed[k] ELSE Nil
    BY <1>4, <2>1
  <2>3. k <= Len(listed) => listed[k] \in Client
    BY <1>1, <1>2
  <2> QED BY <2>2, <2>3, ClientAssumption
<1>8. num_node = Len(listed)
  <2>1. {k \in 1 .. Cardinality(Client) : At[k] \in Client /\ TRUE} = 1 .. Len(listed)
    BY <1>1, <1>7
  <2>2. num_node = Cardinality(1 .. Len(listed))
    BY <2>1 DEF num_node, Places
  <2>3. Cardinality(1 .. Len(listed)) = IF 1 > Len(listed) THEN 0 ELSE Len(listed) - 1 + 1
    <3>1. 1 \in Int /\ Len(listed) \in Int
      BY <1>1
    <3> QED BY <3>1, FS_Interval
  <2> QED BY <1>1, <2>2, <2>3
<1> QED BY <1>1, <1>2, <1>3, <1>5, <1>6, <1>7, <1>8 DEF ClientFacts

LEMMA ClientInvShows == ClientInv => ClientsListed
<1> SUFFICES ASSUME ClientInv, ~crashed
             PROVE  /\ num_node = Len(listed)
                    /\ \A k \in DOMAIN listed :
                         /\ At[k] = listed[k] /\ next[At[k]] # Freed
                         /\ \A j \in DOMAIN listed : ipaddr[listed[j]] = ipaddr[listed[k]] => j = k
                    /\ Nil = IF listed = << >> THEN next[Llist] ELSE next[Last(listed)]
  BY DEF ClientsListed
<1>1. ClientFacts /\ ClientsLinked /\ AddressesDiffer /\ listed \in Seq(Client)
  BY ListFacts DEF ClientInv, ClientTypes
<1>2. \A k \in DOMAIN listed : /\ At[k] = listed[k] /\ next[At[k]] # Freed
                               /\ \A j \in DOMAIN listed : ipaddr[listed[j]] = ipaddr[listed[k]] => j = k
  BY <1>1 DEF ClientFacts, AddressesDiffer
<1>3. CASE listed = << >>
  <2>1. Len(listed) = 0
    BY <1>3, EmptySeq
  <2> QED BY <1>1, <1>2, <1>3, <2>1 DEF ClientsLinked, ClientFacts
<1>4. CASE listed # << >>
  <2>1. Len(listed) \in 1 .. Len(listed)
    BY <1>1, <1>4, EmptySeq
  <2>2. next[listed[Len(listed)]] = Nil
    BY <1>1, <2>1 DEF ClientsLinked
  <2> QED BY <1>1, <1>2, <1>4, <2>2 DEF ClientFacts, Last
<1> QED BY <1>3, <1>4

-----------------------------------------------------------------------------
(* The calls *)

LEMMA ClientInvInit == ClientInit => ClientInv
<1> SUFFICES ASSUME ClientInit
             PROVE  ClientInv
  OBVIOUS
<1>1. Len(listed) = 0 /\ listed \in Seq(Client)
  BY EmptySeq DEF ClientInit
<1>2. ClientTypes
  BY <1>1 DEF ClientInit, ClientTypes
<1>3. OthersFreed
  BY ClientAssumption DEF ClientInit, OthersFreed
<1>4. next[Llist] = Nil
  BY DEF ClientInit
<1> QED BY <1>1, <1>2, <1>3, <1>4 DEF ClientInv, ListedOnce, ClientsLinked, AddressesDiffer

LEMMA InsertKeeps ==
  ASSUME ClientInv, ~crashed, NEW a \in Address, insert_nodulp_node(a)
  PROVE  ClientInv'
<1>1. PICK q \in Client :
        /\ next[q] = Freed
        /\ next' = [next EXCEPT ![Llist] = q, ![q] = next[Llist]]
        /\ ipaddr' = [ipaddr EXCEPT ![q] = a]
        /\ listed' = <<q>> \o listed
  BY DEF insert_nodulp_node, insert_link, Inserted
<1> DEFINE n == Len(listed)
<1>2. ClientFacts /\ ClientTypes /\ ListedOnce /\ ClientsLinked /\ OthersFreed /\ AddressesDiffer
  BY ListFacts DEF ClientInv
<1>3. HasAddress(a) = {} /\ crashed' = crashed
  BY DEF insert_nodulp_node
<1>4. n \in Nat /\ \A k \in 1 .. n : listed[k] \in Client /\ listed[k] # q /\ ipaddr[listed[k]] # a
  <2>1. \A k \in 1 .. n : listed[k] \in Client /\ listed[k] # q
    BY <1>1, <1>2 DEF ClientFacts
  <2>2. ASSUME NEW k \in 1 .. n
        PROVE  ipaddr[listed[k]] # a
    <3>1. k \in 1 .. Cardinality(Client) /\ At[k] \in Client /\ At[k] = listed[k]
      BY <1>2, <2>1 DEF ClientFacts
    <3>2. {j \in 1 .. Cardinality(Client) : At[j] \in Client /\ ipaddr[At[j]] = a} = {}
      BY <1>3 DEF HasAddress, Places
    <3> QED BY <3>1, <3>2
  <2> QED BY <1>2, <2>1, <2>2 DEF ClientFacts
<1>5. /\ listed' \in Seq(Client) /\ Len(listed') = n + 1 /\ listed'[1] = q
      /\ \A k \in 1 .. n : listed'[k + 1] = listed[k]
  <2>1. /\ <<q>> \in Seq(Client) /\ Len(<<q>>) = 1 /\ <<q>>[1] = q
    OBVIOUS
  <2>2. /\ listed' \in Seq(Client) /\ Len(listed') = 1 + n
        /\ \A i \in 1 .. 1 + n : listed'[i] = IF i <= 1 THEN <<q>>[i] ELSE listed[i - 1]
    BY <1>1, <1>2, <2>1, ConcatProperties DEF ClientTypes
  <2>3. \A k \in 1 .. n : k + 1 \in 1 .. 1 + n /\ ~(k + 1 <= 1) /\ k + 1 - 1 = k
    BY <1>4
  <2> QED BY <1>4, <2>1, <2>2, <2>3
<1>6. \A i \in 1 .. n + 1 : i = 1 \/ \E k \in 1 .. n : i = k + 1
  <2>1. ASSUME NEW i \in 1 .. n + 1, i # 1
        PROVE  i - 1 \in 1 .. n /\ i = (i - 1) + 1
    BY <1>4, <2>1
  <2> QED BY <2>1
<1>7. q # Llist /\ next[Llist] \in Client \cup {Nil} /\ \A k \in 1 .. n : listed[k] # Llist
  <2>1. n # 0 => 1 \in 1 .. n
    BY <1>4
  <2> QED BY <1>2, <1>4, <2>1, ClientAssumption DEF ClientsLinked
<1>8. /\ next'[Llist] = q /\ next'[q] = next[Llist]
      /\ \A m \in Client : m # q => next'[m] = next[m]
  BY <1>1, <1>2, <1>7, ClientAssumption DEF ClientTypes
<1>9. /\ ipaddr'[q] = a
      /\ \A m \in Client : m # q => ipaddr'[m] = ipaddr[m]
  BY <1>1, <1>2 DEF ClientTypes
<1> HIDE DEF n
<1>10. ClientTypes'
  <2>1. next' \in [Client \cup {Llist} -> Client \cup {Nil, Freed}]
    BY <1>1, <1>2, <1>7 DEF ClientTypes
  <2>2. ipaddr' \in [Client -> Address \cup {Nil}]
    BY <1>1, <1>2 DEF ClientTypes
  <2> QED BY <1>2, <1>3, <1>5, <2>1, <2>2 DEF ClientTypes
<1>11. ListedOnce'
  <2> SUFFICES ASSUME NEW i \in 1 .. n + 1, NEW j \in 1 .. n + 1, listed'[i] = listed'[j]
               PROVE  i = j
    BY <1>5 DEF ListedOnce
  <2>1. \A k, l \in 1 .. n : listed[k] = listed[l] => k = l
    BY <1>2 DEF ListedOnce, n
  <2>2. \A k \in 1 .. n + 1 : k # 1 => k - 1 \in 1 .. n /\ listed'[k] = listed[k - 1]
    <3>1. ASSUME NEW k \in 1 .. n + 1, k # 1
          PROVE  k - 1 \in 1 .. n /\ listed'[k] = listed[k - 1]
      <4>1. k - 1 \in 1 .. n /\ (k - 1) + 1 = k
        BY <1>4, <3>1
      <4>2. listed'[(k - 1) + 1] = listed[k - 1]
        BY <1>5, <4>1
      <4> QED BY <4>1, <4>2
    <3> QED BY <3>1
  <2>3. listed'[1] = q /\ \A k \in 1 .. n : listed[k] # q
    BY <1>4, <1>5
  <2>4. CASE i = 1 \/ j = 1
    BY <2>2, <2>3, <2>4
  <2>5. CASE i # 1 /\ j # 1
    <3>1. i - 1 = j - 1
      BY <2>1, <2>2, <2>5
    <3> QED BY <1>4, <3>1
  <2> QED BY <2>4, <2>5
<1>12. ClientsLinked'
  <2>1. next'[Llist] = listed'[1] /\ Len(listed') # 0
    BY <1>4, <1>5, <1>8
  <2>2. next'[listed'[1]] = IF 1 = n + 1 THEN Nil ELSE listed'[1 + 1]
    <3>1. CASE n = 0
      BY <1>2, <1>5, <1>8, <3>1 DEF ClientsLinked, n
    <3>2. CASE n # 0
      <4>1. 1 \in 1 .. n
        BY <1>4, <3>2
      <4>2. next[Llist] = listed[1] /\ listed'[1 + 1] = listed[1]
        BY <1>2, <1>5, <3>2, <4>1 DEF ClientsLinked, n
      <4> QED BY <1>4, <1>5, <1>8, <3>2, <4>2
    <3> QED BY <3>1, <3>2
  <2>3. ASSUME NEW k \in 1 .. n
        PROVE  next'[listed'[k + 1]] = IF k + 1 = n + 1 THEN Nil ELSE listed'[k + 1 + 1]
    <3>1. next'[listed'[k + 1]] = next[listed[k]]
      BY <1>4, <1>5, <1>8
    <3>2. next[listed[k]] = IF k = n THEN Nil ELSE listed[k + 1]
      BY <1>2 DEF ClientsLinked, n
    <3>3. k # n => k + 1 \in 1 .. n
      BY <1>4
    <3>4. k # n => listed'[k + 1 + 1] = listed[k + 1]
      BY <1>5, <3>3
    <3> QED BY <1>4, <3>1, <3>2, <3>4
  <2>4. \A i \in 1 .. n + 1 : next'[listed'[i]] = IF i = n + 1 THEN Nil ELSE listed'[i + 1]
    BY <1>6, <2>2, <2>3
  <2> QED BY <1>5, <2>1, <2>4 DEF ClientsLinked
<1>13. OthersFreed'
  <2> SUFFICES ASSUME NEW m \in Client, \A i \in 1 .. n + 1 : listed'[i] # m
               PROVE  next'[m] = Freed
    BY <1>5 DEF OthersFreed
  <2>1. m # q
    BY <1>4, <1>5
  <2>2. \A k \in 1 .. n : listed[k] # m
    <3>1. \A k \in 1 .. n : k + 1 \in 1 .. n + 1
      BY <1>4
    <3> QED BY <1>5, <3>1
  <2> QED BY <1>2, <1>8, <2>1, <2>2 DEF OthersFreed, n
<1>14. AddressesDiffer'
  <2> SUFFICES ASSUME NEW i \in 1 .. n + 1, NEW j \in 1 .. n + 1,
                      ipaddr'[listed'[i]] = ipaddr'[listed'[j]]
               PROVE  i = j
    BY <1>5 DEF AddressesDiffer
  <2>1. \A k, l \in 1 .. n : ipaddr[listed[k]] = ipaddr[listed[l]] => k = l
    BY <1>2 DEF AddressesDiffer, n
  <2>2. \A k \in 1 .. n : ipaddr'[listed'[k + 1]] = ipaddr[listed[k]]
    BY <1>4, <1>5, <1>9
  <2>3. ipaddr'[listed'[1]] = a
    BY <1>5, <1>9
  <2>4. CASE i = 1
    BY <1>4, <1>6, <2>2, <2>3, <2>4
  <2>5. ASSUME NEW k \in 1 .. n, i = k + 1
        PROVE  i = j
    <3>1. ipaddr'[listed'[i]] # a
      BY <1>4, <2>2, <2>5
    <3>2. PICK l \in 1 .. n : j = l + 1
      BY <1>6, <2>3, <3>1
    <3> QED BY <2>1, <2>2, <2>5, <3>2
  <2> QED BY <1>6, <2>4, <2>5
<1> QED BY <1>10, <1>11, <1>12, <1>13, <1>14 DEF ClientInv

LEMMA UnlinkKeeps ==
  ASSUME ClientInv, ~crashed, NEW k \in 1 .. Len(listed), Unlink(k)
  PROVE  ClientInv'
<1> DEFINE n == Len(listed)
           q == listed[k]
           p == At[k - 1]
<1>1. ClientFacts /\ ClientTypes /\ ListedOnce /\ ClientsLinked /\ OthersFreed /\ AddressesDiffer
  BY ListFacts DEF ClientInv
<1>2. n \in Nat /\ k \in 1 .. n /\ \A i \in 1 .. n : listed[i] \in Client /\ listed[i] # Llist
  BY <1>1, ClientAssumption DEF ClientFacts
<1>3. /\ q \in Client /\ At[k] = q
      /\ p = IF k = 1 THEN Llist ELSE listed[k - 1]
  <2>1. k # 1 => k - 1 \in 1 .. n
    BY <1>2
  <2> QED BY <1>1, <1>2, <2>1 DEF ClientFacts
<1>4. next' = [next EXCEPT ![p] = next[q], ![q] = Freed] /\ UNCHANGED <<ipaddr, crashed>>
  BY <1>3 DEF Unlink
<1>5. listed' = RemoveAt(listed, k)
  <2>1. \A i \in DOMAIN listed : listed[i] = q <=> i = k
    BY <1>1, <1>2 DEF ListedOnce, ClientFacts
  <2>2. (CHOOSE i \in DOMAIN listed : listed[i] = q) = k
    BY <1>1, <1>2, <2>1 DEF ClientFacts
  <2> QED BY <1>3, <2>2 DEF Unlink
<1> HIDE DEF p
<1>6. /\ listed' \in Seq(Client) /\ Len(listed') = n - 1
      /\ \A i \in 1 .. n - 1 : listed'[i] = IF i < k THEN listed[i] ELSE listed[i + 1]
  <2>0. listed \in Seq(Client) /\ n \in Nat /\ k \in 1 .. n
    BY <1>1, <1>2 DEF ClientTypes
  <2> DEFINE s == SubSeq(listed, 1, k - 1)
             t == SubSeq(listed, k + 1, n)
  <2>1. /\ s \in Seq(Client) /\ Len(s) = k - 1 /\ \A i \in 1 .. k - 1 : s[i] = listed[i]
    <3>1. \A i \in 1 .. k - 1 : listed[i] \in Client
      BY <1>2
    <3>2. /\ s \in Seq(Client)
          /\ Len(s) = IF 1 <= k - 1 THEN k - 1 - 1 + 1 ELSE 0
          /\ \A i \in 1 .. k - 1 - 1 + 1 : s[i] = listed[1 + i - 1]
      BY <2>0, <3>1, SubSeqProperties
    <3> QED BY <2>0, <3>2
  <2>2. /\ t \in Seq(Client) /\ Len(t) = n - k /\ \A i \in 1 .. n - k : t[i] = listed[k + i]
    <3>1. \A i \in k + 1 .. n : listed[i] \in Client
      BY <1>2
    <3>2. /\ t \in Seq(Client)
          /\ Len(t) = IF k + 1 <= n THEN n - (k + 1) + 1 ELSE 0
          /\ \A i \in 1 .. n - (k + 1) + 1 : t[i] = listed[k + 1 + i - 1]
      BY <2>0, <3>1, SubSeqProperties
    <3>3. n - (k + 1) + 1 = n - k /\ \A i \in 1 .. n - k : k + 1 + i - 1 = k + i
      BY <2>0
    <3>4. Len(t) = n - k
      BY <2>0, <3>2
    <3>5. ASSUME NEW i \in 1 .. n - k
          PROVE  t[i] = listed[k + i]
      BY <3>2, <3>3, Zenon
    <3> QED BY <3>2, <3>4, <3>5
  <2>3. listed' = s \o t
    BY <1>5 DEF RemoveAt
  <2> HIDE DEF s, t
  <2>4. /\ listed' \in Seq(Client) /\ Len(listed') = Len(s) + Len(t)
        /\ \A i \in 1 .. Len(s) + Len(t) : listed'[i] = IF i <= Len(s) THEN s[i] ELSE t[i - Len(s)]
    BY <2>1, <2>2, <2>3, ConcatProperties
  <2>5. Len(s) + Len(t) = n - 1
    BY <2>0, <2>1, <2>2
  <2>6. ASSUME NEW i \in 1 .. n - 1
        PROVE  listed'[i] = IF i < k THEN listed[i] ELSE listed[i + 1]
    <3>1. CASE i < k
      BY <2>0, <2>1, <2>4, <2>5, <3>1
    <3>2. CASE ~(i < k)
      <4>1. i - (k - 1) \in 1 .. n - k /\ k + (i - (k - 1)) = i + 1 /\ ~(i <= k - 1)
        BY <2>0, <3>2
      <4> QED BY <2>1, <2>2, <2>4, <2>5, <3>2, <4>1
    <3> QED BY <3>1, <3>2
  <2> QED BY <2>4, <2>5, <2>6
\* The places before the node stay, those after it are one less
<1>7. \A i \in 1 .. n - 1 : \E j \in 1 .. n : /\ listed'[i] = listed[j] /\ j # k
                                              /\ j = IF i < k THEN i ELSE i + 1
  <2>1. ASSUME NEW i \in 1 .. n - 1
        PROVE  \E j \in 1 .. n : listed'[i] = listed[j] /\ j # k /\ j = IF i < k THEN i ELSE i + 1
    <3>1. PICK j \in 1 .. n : j = IF i < k THEN i ELSE i + 1
      BY <1>2
    <3> QED BY <1>2, <1>6, <3>1
  <2> QED BY <2>1
<1>8. ASSUME NEW j \in 1 .. n, j # k
      PROVE  \E i \in 1 .. n - 1 : listed'[i] = listed[j]
  <2>1. PICK i \in 1 .. n - 1 : i = IF j < k THEN j ELSE j - 1
    BY <1>2, <1>8
  <2>2. (IF i < k THEN i ELSE i + 1) = j
    BY <1>2, <1>8, <2>1
  <2> QED BY <1>6, <2>2
<1>9. \A i, j \in 1 .. n : listed[i] = listed[j] => i = j
  BY <1>1 DEF ListedOnce
<1>10. p # q /\ p \in Client \cup {Llist}
  <2>1. k # 1 => k - 1 \in 1 .. n /\ k - 1 # k
    BY <1>2
  <2> QED BY <1>2, <1>3, <1>9, <2>1
<1>11. /\ next'[p] = next[q] /\ next'[q] = Freed
       /\ \A m \in Client \cup {Llist} : m # p /\ m # q => next'[m] = next[m]
       /\ next' \in [Client \cup {Llist} -> Client \cup {Nil, Freed}]
  BY <1>1, <1>3, <1>4, <1>10 DEF ClientTypes
<1>12. next[q] = IF k = n THEN Nil ELSE listed[k + 1]
  BY <1>1, <1>2 DEF ClientsLinked
<1>13. \A i \in 1 .. n : next[listed[i]] = IF i = n THEN Nil ELSE listed[i + 1]
  BY <1>1 DEF ClientsLinked
<1> HIDE DEF n, q
<1>14. ClientTypes'
  BY <1>1, <1>4, <1>6, <1>11 DEF ClientTypes
<1>15. ListedOnce'
  <2> SUFFICES ASSUME NEW i \in 1 .. n - 1, NEW j \in 1 .. n - 1, listed'[i] = listed'[j]
               PROVE  i = j
    BY <1>6 DEF ListedOnce
  <2>1. PICK u \in 1 .. n : listed'[i] = listed[u] /\ u = IF i < k THEN i ELSE i + 1
    BY <1>7
  <2>2. PICK v \in 1 .. n : listed'[j] = listed[v] /\ v = IF j < k THEN j ELSE j + 1
    BY <1>7
  <2>3. u = v
    BY <1>9, <2>1, <2>2
  <2> QED BY <1>2, <2>1, <2>2, <2>3
<1>16. ClientsLinked'
  <2>1. next'[Llist] = IF n - 1 = 0 THEN Nil ELSE listed'[1]
    <3>1. CASE k = 1
      <4>1. next'[Llist] = IF 1 = n THEN Nil ELSE listed[1 + 1]
        BY <1>3, <1>11, <1>12, <3>1
      <4>2. n # 1 => 1 \in 1 .. n - 1 /\ ~(1 < k)
        BY <1>2, <3>1
      <4>3. n # 1 => listed'[1] = listed[1 + 1]
        BY <1>6, <4>2
      <4> QED BY <1>2, <4>1, <4>3
    <3>2. CASE k # 1
      <4>1. k - 1 \in 1 .. n /\ 1 < k /\ 1 \in 1 .. n - 1 /\ n - 1 # 0 /\ n # 0
        BY <1>2, <3>2
      <4>2. p # Llist /\ q # Llist
        BY <1>2, <1>3, <3>2, <4>1 DEF q
      <4>3. next'[Llist] = next[Llist]
        BY <1>11, <4>2
      <4>4. next[Llist] = listed[1]
        BY <1>1, <4>1 DEF ClientsLinked, n
      <4>5. listed'[1] = listed[1]
        BY <1>6, <4>1
      <4> QED BY <4>1, <4>3, <4>4, <4>5
    <3> QED BY <3>1, <3>2
  <2>2. ASSUME NEW i \in 1 .. n - 1
        PROVE  next'[listed'[i]] = IF i = n - 1 THEN Nil ELSE listed'[i + 1]
    <3>1. PICK j \in 1 .. n : listed'[i] = listed[j] /\ j # k /\ j = IF i < k THEN i ELSE i + 1
      BY <1>7
    <3>2. listed[j] # q /\ listed[j] \in Client
      BY <1>2, <1>9, <3>1 DEF q
    <3>3. listed[j] = p <=> j = k - 1
      <4>1. k # 1 => k - 1 \in 1 .. n
        BY <1>2
      <4>2. CASE k = 1
        BY <1>2, <1>3, <4>2
      <4>3. CASE k # 1
        BY <1>3, <1>9, <4>1, <4>3
      <4> QED BY <4>2, <4>3
    <3>4. i # n - 1 => i + 1 \in 1 .. n - 1
      BY <1>2
    <3>5. i # n - 1 => listed'[i + 1] = IF i + 1 < k THEN listed[i + 1] ELSE listed[i + 1 + 1]
      BY <1>6, <3>4
    <3>6. CASE j = k - 1
      <4>1. next'[listed'[i]] = next[q]
        BY <1>11, <3>1, <3>3, <3>6
      <4>2. i = k - 1 /\ (k = n <=> i = n - 1) /\ i + 1 = k /\ ~(i + 1 < k)
        BY <1>2, <3>1, <3>6
      <4> QED BY <1>12, <3>5, <4>1, <4>2
    <3>7. CASE j # k - 1
      <4>1. next'[listed'[i]] = next[listed[j]]
        BY <1>11, <3>1, <3>2, <3>3, <3>7
      <4>2. next[listed[j]] = IF j = n THEN Nil ELSE listed[j + 1]
        BY <1>13
      <4>3. CASE i < k
        <5>1. j = i /\ i + 1 < k /\ i # n - 1 /\ j # n
          BY <1>2, <3>1, <3>7, <4>3
        <5> QED BY <3>5, <4>1, <4>2, <5>1
      <4>4. CASE ~(i < k)
        <5>1. j = i + 1 /\ ~(i + 1 < k) /\ (j = n <=> i = n - 1)
          BY <1>2, <3>1, <4>4
        <5> QED BY <3>5, <4>1, <4>2, <5>1
      <4> QED BY <4>3, <4>4
    <3> QED BY <3>6, <3>7
  <2> QED BY <1>6, <2>1, <2>2 DEF ClientsLinked
<1>17. OthersFreed'
  <2> SUFFICES ASSUME NEW m \in Client, \A i \in 1 .. n - 1 : listed'[i] # m
               PROVE  next'[m] = Freed
    BY <1>6 DEF OthersFreed
  <2>1. \A j \in 1 .. n : j # k => listed[j] # m
    BY <1>8
  <2>2. CASE m = q
    BY <1>11, <2>2
  <2>3. CASE m # q
    <3>1. \A j \in 1 .. n : listed[j] # m
      BY <2>1, <2>3 DEF q
    <3>2. m # p
      <4>1. k # 1 => k - 1 \in 1 .. n
        BY <1>2
      <4> QED BY <1>3, <3>1, <4>1, ClientAssumption
    <3>3. next[m] = Freed
      BY <1>1, <3>1 DEF OthersFreed, n
    <3> QED BY <1>11, <2>3, <3>2, <3>3
  <2> QED BY <2>2, <2>3
<1>18. AddressesDiffer'
  <2> SUFFICES ASSUME NEW i \in 1 .. n - 1, NEW j \in 1 .. n - 1,
                      ipaddr[listed'[i]] = ipaddr[listed'[j]]
               PROVE  i = j
    BY <1>4, <1>6 DEF AddressesDiffer
  <2>1. PICK u \in 1 .. n : listed'[i] = listed[u] /\ u = IF i < k THEN i ELSE i + 1
    BY <1>7
  <2>2. PICK v \in 1 .. n : listed'[j] = listed[v] /\ v = IF j < k THEN j ELSE j + 1
    BY <1>7
  <2>3. u = v
    BY <1>1, <2>1, <2>2 DEF AddressesDiffer, n
  <2> QED BY <1>2, <2>1, <2>2, <2>3
<1> QED BY <1>14, <1>15, <1>16, <1>17, <1>18 DEF ClientInv

LEMMA FreeKeeps ==
  ASSUME ClientInv, ~crashed, free_linklist
  PROVE  ClientInv'
<1> DEFINE n == Len(listed)
<1>1. ClientFacts /\ ClientTypes /\ num_node = n
  BY ListFacts DEF ClientInv, ClientFacts
<1>2. /\ n > 0
      /\ next' = [m \in DOMAIN next |->
                    CASE m = Llist -> IF n > 1 THEN At[n] ELSE Nil
                      [] n > 1 /\ m = At[n] -> Nil
                      [] OTHER -> Freed]
      /\ listed' = IF n > 1 THEN <<At[n]>> ELSE << >>
      /\ crashed' = (n = 1)
      /\ UNCHANGED ipaddr
  BY <1>1 DEF free_linklist
<1> SUFFICES ASSUME ~crashed'
             PROVE  ClientInv'
  BY DEF ClientInv
<1>3. n \in Nat /\ n > 1
  <2>1. n \in Nat /\ n # 1 /\ n > 0
    BY <1>1, <1>2 DEF ClientFacts
  <2> HIDE DEF n
  <2> QED BY <2>1
<1> DEFINE q == At[n]
<1>4. q \in Client /\ q # Llist
  BY <1>1, <1>3, ClientAssumption DEF ClientFacts
<1> HIDE DEF n, q
<1>5. /\ next' = [m \in Client \cup {Llist} |->
                    IF m = Llist THEN q ELSE IF m = q THEN Nil ELSE Freed]
      /\ listed' = <<q>> /\ crashed' \in BOOLEAN
  <2>1. DOMAIN next = Client \cup {Llist} /\ n > 1
    BY <1>1, <1>3 DEF ClientTypes
  <2>2. next' = [m \in DOMAIN next |->
                   CASE m = Llist -> IF n > 1 THEN q ELSE Nil
                     [] n > 1 /\ m = q -> Nil
                     [] OTHER -> Freed]
    BY <1>2 DEF n, q
  <2>3. listed' = IF n > 1 THEN <<q>> ELSE << >>
    BY <1>2, Zenon DEF n, q
  <2>4. \A m : (CASE m = Llist -> IF n > 1 THEN q ELSE Nil
                  [] n > 1 /\ m = q -> Nil
                  [] OTHER -> Freed)
               = IF m = Llist THEN q ELSE IF m = q THEN Nil ELSE Freed
    BY <1>4, <2>1
  <2>5. crashed' \in BOOLEAN
    BY <1>2
  <2> QED BY <2>1, <2>2, <2>3, <2>4, <2>5
<1>6. listed' \in Seq(Client) /\ Len(listed') = 1 /\ listed'[1] = q
  BY <1>4, <1>5
<1>7. ClientTypes'
  BY <1>1, <1>2, <1>4, <1>5, <1>6 DEF ClientTypes
<1>8. ClientsLinked'
  BY <1>4, <1>5, <1>6 DEF ClientsLinked
<1>9. OthersFreed'
  BY <1>4, <1>5, <1>6, ClientAssumption DEF OthersFreed
<1> QED BY <1>6, <1>7, <1>8, <1>9 DEF ClientInv, ListedOnce, AddressesDiffer

LEMMA ClientInvNext == ClientInv /\ [ClientNext]_clientVars => ClientInv'
<1> SUFFICES ASSUME ClientInv, [ClientNext]_clientVars
             PROVE  ClientInv'
  OBVIOUS
<1>1. ASSUME ~crashed, NEW a \in Address, insert_nodulp_node(a)
      PROVE  ClientInv'
  BY <1>1, InsertKeeps
<1>2. ASSUME ~crashed, NEW k \in 1 .. Cardinality(Client), At[k] \in Client, Unlink(k)
      PROVE  ClientInv'
  <2>1. k \in 1 .. Len(listed)
    BY <1>2, ListFacts DEF ClientFacts
  <2> QED BY <1>2, <2>1, UnlinkKeeps
<1>3. ASSUME ~crashed, NEW a \in Address, delete_node(a)
      PROVE  ClientInv'
  <2>1. \E k \in 1 .. Cardinality(Client) : At[k] \in Client /\ Unlink(k)
    BY <1>3 DEF delete_node, HasAddress, Places
  <2> QED BY <1>2, <1>3, <2>1
<1>4. ASSUME ~crashed, NEW this \in Client, delete_this_node(this)
      PROVE  ClientInv'
  <2>1. \E k \in 1 .. Cardinality(Client) : At[k] \in Client /\ Unlink(k)
    BY <1>4 DEF delete_this_node, Places
  <2> QED BY <1>2, <1>4, <2>1
<1>5. CASE ~crashed /\ free_linklist
  BY <1>5, FreeKeeps
<1>6. CASE UNCHANGED clientVars
  BY <1>6 DEF clientVars, ClientInv, ClientTypes, ListedOnce, ClientsLinked, OthersFreed, AddressesDiffer
<1> QED BY <1>1, <1>3, <1>4, <1>5, <1>6 DEF ClientNext

LEMMA ClientInvAlways == ClientSpec => []ClientInv
<1> QED BY ClientInvInit, ClientInvNext, PTL DEF ClientSpec

-----------------------------------------------------------------------------
(***************************************************************************)
(* Whatever is inserted, deleted and freed, a walk from llist meets the    *)
(* clients inserted and not deleted, newest first, each address once, no   *)
(* freed node, and ends (sample/llist.c:19-75, :110 and :124).              *)
(***************************************************************************)
THEOREM ListKeepsClients == ClientSpec => []ClientsListed
<1> QED BY ClientInvAlways, ClientInvShows, PTL

-----------------------------------------------------------------------------
(***************************************************************************)
(* NalReader, for files of any length over any bytes.  The invariants of   *)
(* the runs become inductive once it is known that no call ends its copy   *)
(* with a zero: then the zeros before a byte are those held back in tmpbuf *)
(* and no others, and flag tells whether a start code ends.                *)
(***************************************************************************)

Start == starts[Len(starts)]
Rest == Start .. Len(file)

StartsOK ==
  /\ Len(starts) = Len(nals) + 1
  /\ \A i \in 1 .. Len(starts) : starts[i] <= Len(file) + 1

ThisCall ==
  Clean(Rest) =>
    /\ Len(file) + 1 - Start = Len(buf) + flag
    /\ \A k \in 1 .. Len(buf) : file[Start + k - 1] = buf[k]
    /\ \A k \in 1 .. flag : file[Start + Len(buf) + k - 1] = 0
    /\ buf # << >> => buf[Len(buf)] # 0
    /\ \A p \in Rest : p - 2 \in Rest => ~CodeEndsAt(p)

ReaderInv == ReaderTypeOK /\ StartsOK /\ ThisCall /\ CutsAtStartCodes

-----------------------------------------------------------------------------
LEMMA StartType ==
  ASSUME ReaderTypeOK, StartsOK
  PROVE  /\ Start \in Nat \ {0} /\ Start <= Len(file) + 1
         /\ Len(file) \in Nat /\ Len(nals) \in Nat /\ Len(buf) \in Nat
         /\ Len(starts) \in Nat \ {0}
<1>1. Len(file) \in Nat /\ Len(nals) \in Nat /\ Len(buf) \in Nat /\ Len(starts) \in Nat
  BY LenProperties DEF ReaderTypeOK
<1>2. Len(starts) \in 1 .. Len(starts)
  BY <1>1 DEF StartsOK
<1>3. Start \in Nat \ {0}
  BY <1>2, ElementOfSeq DEF ReaderTypeOK, Start
<1> QED BY <1>1, <1>2, <1>3 DEF StartsOK, Start

(* What was read before stays where it is. *)
LEMMA FileGrows ==
  ASSUME file \in Seq(Byte), NEW b \in Byte, Read(b)
  PROVE  /\ file' \in Seq(Byte) /\ Len(file) \in Nat /\ Len(file') = Len(file) + 1
         /\ \A i \in 1 .. Len(file) : file'[i] = file[i]
         /\ file'[Len(file) + 1] = b
BY AppendProperties, LenProperties DEF Read

LEMMA OldPlaces ==
  ASSUME file \in Seq(Byte), NEW b \in Byte, Read(b), NEW p \in Int, p <= Len(file)
  PROVE  (CodeEndsAt(p)' <=> CodeEndsAt(p)) /\ (StrayZerosAt(p)' <=> StrayZerosAt(p))
<1>1. /\ Len(file) \in Nat /\ Len(file') = Len(file) + 1
      /\ \A i \in 1 .. Len(file) : file'[i] = file[i]
  BY FileGrows
<1>2. p \in 3 .. Len(file) => file'[p] = file[p] /\ file'[p - 1] = file[p - 1] /\ file'[p - 2] = file[p - 2]
  BY <1>1
<1>3. p \in 4 .. Len(file) => file'[p - 3] = file[p - 3]
  BY <1>1
<1>4. /\ p \in 3 .. Len(file') <=> p \in 3 .. Len(file)
      /\ p \in 4 .. Len(file') <=> p \in 4 .. Len(file)
      /\ p \in 4 .. Len(file) => p \in 3 .. Len(file)
  BY <1>1
<1>5. CodeEndsAt(p)' <=> CodeEndsAt(p)
  BY <1>2, <1>4 DEF CodeEndsAt
<1>6. StrayZerosAt(p)' <=> StrayZerosAt(p)
  BY <1>2, <1>3, <1>4 DEF StrayZerosAt
<1> QED BY <1>5, <1>6

LEMMA OldSlices ==
  ASSUME file \in Seq(Byte), NEW b \in Byte, Read(b),
         NEW m \in Nat \ {0}, NEW n \in Int, n <= Len(file)
  PROVE  SubSeq(file', m, n) = SubSeq(file, m, n)
<1>1. \A i \in m .. n : file[i] \in Byte /\ file'[i] \in Byte /\ file'[i] = file[i]
  BY FileGrows, ElementOfSeq
<1>2. /\ SubSeq(file, m, n) \in Seq(Byte)
      /\ Len(SubSeq(file, m, n)) = IF m <= n THEN n - m + 1 ELSE 0
      /\ \A i \in 1 .. n - m + 1 : SubSeq(file, m, n)[i] = file[m + i - 1]
  BY <1>1, SubSeqProperties
<1>3. /\ SubSeq(file', m, n) \in Seq(Byte)
      /\ Len(SubSeq(file', m, n)) = IF m <= n THEN n - m + 1 ELSE 0
      /\ \A i \in 1 .. n - m + 1 : SubSeq(file', m, n)[i] = file'[m + i - 1]
  BY <1>1, SubSeqProperties
<1>4. \A i \in 1 .. Len(SubSeq(file', m, n)) : SubSeq(file', m, n)[i] = SubSeq(file, m, n)[i]
  BY <1>1, <1>2, <1>3
<1> QED BY <1>2, <1>3, <1>4, SeqEqual

(* A stretch that is clean with the new byte was clean without it. *)
LEMMA CleanBefore ==
  ASSUME file \in Seq(Byte), NEW b \in Byte, Read(b),
         NEW m \in Nat \ {0}, NEW n \in Int, NEW k \in Int, n <= k, n <= Len(file),
         Clean(m .. k)'
  PROVE  Clean(m .. n)
<1> SUFFICES ASSUME NEW p \in m .. n, p - 3 \in m .. n
             PROVE  ~StrayZerosAt(p)
  BY DEF Clean
<1>1. p \in m .. k /\ p - 3 \in m .. k
  OBVIOUS
<1>2. ~StrayZerosAt(p)'
  BY <1>1 DEF Clean
<1> QED BY <1>2, OldPlaces

-----------------------------------------------------------------------------
(* The byte is held back as one more zero, or copied with the zeros held back. *)
LEMMA StepInCall ==
  ASSUME ReaderInv, NEW b \in Byte, Read(b), SameCall,
         \/ b = 0 /\ flag < 3 /\ Hold(flag + 1)
         \/ \E bytes \in Seq(Byte) :
              /\ Len(bytes) = flag + 1 /\ \A k \in 1 .. flag : bytes[k] = 0
              /\ bytes[flag + 1] = b /\ b # 0 /\ (flag < 2 \/ b # 1)
              /\ Copy(bytes)
  PROVE  ThisCall'
<1>s. PICK S \in Nat \ {0} : S = Start
  BY StartType DEF ReaderInv
<1>n. PICK N \in Nat : N = Len(file)
  BY StartType DEF ReaderInv
<1>l. PICK L \in Nat : L = Len(buf)
  BY StartType DEF ReaderInv
<1>0. S \in Nat \ {0} /\ S <= N + 1 /\ N \in Nat /\ L \in Nat /\ flag \in 0 .. 3
  BY <1>s, <1>n, StartType DEF ReaderInv, ReaderTypeOK
<1>1. Start' = S
  BY <1>s DEF SameCall, Start
<1>2. /\ Len(file') = N + 1 /\ file'[N + 1] = b
      /\ \A i \in 1 .. N : file'[i] = file[i]
  BY <1>n, FileGrows DEF ReaderInv, ReaderTypeOK
<1> SUFFICES ASSUME Clean(S .. N + 1)'
             PROVE  /\ N + 2 - S = Len(buf') + flag'
                    /\ \A k \in 1 .. Len(buf') : file'[S + k - 1] = buf'[k]
                    /\ \A k \in 1 .. flag' : file'[S + Len(buf') + k - 1] = 0
                    /\ buf' # << >> => buf'[Len(buf')] # 0
                    /\ \A p \in S .. N + 1 : p - 2 \in S .. N + 1 => ~CodeEndsAt(p)'
  <2>1. Rest' = S .. N + 1
    BY <1>1, <1>2 DEF Rest
  <2>2. (N + 1) + 1 - S = N + 2 - S
    BY <1>0
  <2> QED BY <1>1, <1>2, <2>1, <2>2 DEF ThisCall
<1>3. Clean(S .. N)
  BY <1>0, <1>n, CleanBefore DEF ReaderInv, ReaderTypeOK
<1>4. /\ N + 1 - S = L + flag
      /\ \A k \in 1 .. L : file[S + k - 1] = buf[k]
      /\ \A k \in 1 .. flag : file[S + L + k - 1] = 0
      /\ buf # << >> => buf[L] # 0
      /\ \A p \in S .. N : p - 2 \in S .. N => ~CodeEndsAt(p)
  BY <1>3, <1>s, <1>n, <1>l DEF ReaderInv, ThisCall, Rest
<1>b. buf \in Seq(Byte) /\ file \in Seq(Byte)
  BY DEF ReaderInv, ReaderTypeOK
<1>5. \A p \in S .. N : p - 2 \in S .. N + 1 => ~CodeEndsAt(p)'
  <2> SUFFICES ASSUME NEW p \in S .. N, p - 2 \in S .. N + 1
               PROVE  ~CodeEndsAt(p)'
    OBVIOUS
  <2>1. p \in Int /\ p <= N /\ p - 2 \in S .. N
    BY <1>0
  <2> QED BY <2>1, <1>n, <1>4, <1>b, OldPlaces
<1>6. CASE b = 0 /\ flag < 3 /\ Hold(flag + 1)
  <2>1. flag' = flag + 1 /\ buf' = buf /\ Len(buf') = L
    BY <1>6, <1>l DEF Hold
  <2>2. \A k \in 1 .. L : file'[S + k - 1] = buf[k]
    BY <1>0, <1>2, <1>4
  <2>3. \A k \in 1 .. flag + 1 : file'[S + L + k - 1] = 0
    <3> SUFFICES ASSUME NEW k \in 1 .. flag + 1
                 PROVE  file'[S + L + k - 1] = 0
      OBVIOUS
    <3>1. CASE k \in 1 .. flag
      <4>1. S + L + k - 1 \in 1 .. N
        BY <1>0, <1>4, <3>1
      <4> QED BY <1>2, <1>4, <3>1, <4>1
    <3>2. CASE k = flag + 1
      <4>1. S + L + k - 1 = N + 1
        BY <1>0, <1>4, <3>2
      <4> QED BY <1>2, <1>6, <4>1
    <3> QED BY <1>0, <3>1, <3>2
  <2>4. ~CodeEndsAt(N + 1)'
    BY <1>2, <1>6 DEF CodeEndsAt
  <2>5. \A p \in S .. N + 1 : p - 2 \in S .. N + 1 => ~CodeEndsAt(p)'
    BY <1>0, <1>5, <2>4
  <2>6. N + 2 - S = L + (flag + 1)
    BY <1>0, <1>4
  <2> QED BY <1>4, <2>1, <2>2, <2>3, <2>5, <2>6
<1>7. ASSUME NEW bytes \in Seq(Byte),
             Len(bytes) = flag + 1, \A k \in 1 .. flag : bytes[k] = 0,
             bytes[flag + 1] = b, b # 0, flag < 2 \/ b # 1, Copy(bytes)
      PROVE  /\ N + 2 - S = Len(buf') + flag'
             /\ \A k \in 1 .. Len(buf') : file'[S + k - 1] = buf'[k]
             /\ \A k \in 1 .. flag' : file'[S + Len(buf') + k - 1] = 0
             /\ buf' # << >> => buf'[Len(buf')] # 0
             /\ \A p \in S .. N + 1 : p - 2 \in S .. N + 1 => ~CodeEndsAt(p)'
  <2>1. /\ flag' = 0 /\ Len(buf') = L + flag + 1
        /\ \A k \in 1 .. L + flag + 1 : buf'[k] = IF k <= L THEN buf[k] ELSE bytes[k - L]
    <3>1. Len(buf) + Len(bytes) = L + flag + 1
      BY <1>0, <1>7, <1>l
    <3>2. flag' = 0 /\ buf' = buf \o bytes
      BY <1>7 DEF Copy
    <3>3. /\ Len(buf') = Len(buf) + Len(bytes)
          /\ \A k \in 1 .. Len(buf) + Len(bytes) :
               buf'[k] = IF k <= Len(buf) THEN buf[k] ELSE bytes[k - Len(buf)]
      BY <1>b, <3>2, ConcatProperties
    <3> QED BY <3>1, <3>2, <3>3, <1>l
  <2>2. N + 2 - S = (L + flag + 1) + 0
    BY <1>0, <1>4
  <2>3. \A k \in 1 .. L + flag + 1 : file'[S + k - 1] = buf'[k]
    <3> SUFFICES ASSUME NEW k \in 1 .. L + flag + 1
                 PROVE  file'[S + k - 1] = buf'[k]
      OBVIOUS
    <3>1. CASE k <= L
      BY <1>0, <1>2, <1>4, <2>1, <3>1
    <3>2. CASE k > L /\ k <= L + flag
      <4>1. k - L \in 1 .. flag /\ S + L + (k - L) - 1 = S + k - 1 /\ S + k - 1 \in 1 .. N
        BY <1>0, <1>4, <3>2
      <4>2. file[S + k - 1] = 0
        BY <1>4, <4>1
      <4>3. buf'[k] = 0
        BY <1>0, <1>7, <2>1, <3>2, <4>1
      <4> QED BY <1>2, <4>1, <4>2, <4>3
    <3>3. CASE k = L + flag + 1
      <4>1. S + k - 1 = N + 1 /\ k - L = flag + 1 /\ ~(k <= L)
        BY <1>0, <1>4, <3>3
      <4> QED BY <1>2, <1>7, <2>1, <4>1
    <3> QED BY <1>0, <3>1, <3>2, <3>3
  <2>4. buf'[Len(buf')] # 0
    <3>1. Len(buf') \in 1 .. L + flag + 1 /\ ~(Len(buf') <= L) /\ Len(buf') - L = flag + 1
      BY <1>0, <2>1
    <3> QED BY <1>7, <2>1, <3>1
  <2>5. N + 1 - 2 \in S .. N + 1 => ~CodeEndsAt(N + 1)'
    <3>1. SUFFICES ASSUME N - 1 >= S, b = 1, file[N] = 0, file[N - 1] = 0
                   PROVE  FALSE
      BY <1>0, <1>2 DEF CodeEndsAt
    <3>2. CASE flag = 0
      <4>1. L = N + 1 - S /\ L > 0 /\ S + L - 1 = N
        BY <1>0, <1>4, <3>1, <3>2
      <4>2. buf # << >> /\ L \in 1 .. L
        <5>1. Len(<< >>) = 0
          BY EmptySeq
        <5>2. Len(buf) # 0 /\ L \in 1 .. L
          BY <1>0, <1>l, <4>1
        <5> QED BY <5>1, <5>2
      <4>3. file[S + L - 1] = buf[L]
        BY <1>4, <4>2
      <4> QED BY <1>4, <3>1, <4>1, <4>2, <4>3
    <3>3. CASE flag = 1
      <4>1. L = N - S /\ L > 0 /\ S + L - 1 = N - 1
        BY <1>0, <1>4, <3>1, <3>3
      <4>2. buf # << >> /\ L \in 1 .. L
        <5>1. Len(<< >>) = 0
          BY EmptySeq
        <5>2. Len(buf) # 0 /\ L \in 1 .. L
          BY <1>0, <1>l, <4>1
        <5> QED BY <5>1, <5>2
      <4>3. file[S + L - 1] = buf[L]
        BY <1>4, <4>2
      <4> QED BY <1>4, <3>1, <4>1, <4>2, <4>3
    <3> QED BY <1>0, <1>7, <3>1, <3>2, <3>3
  <2>6. \A p \in S .. N + 1 : p - 2 \in S .. N + 1 => ~CodeEndsAt(p)'
    BY <1>0, <1>5, <2>5
  <2>7. \A k \in 1 .. flag' : file'[S + Len(buf') + k - 1] = 0
    BY <2>1
  <2> QED BY <2>1, <2>2, <2>3, <2>4, <2>6, <2>7
<1> QED BY <1>6, <1>7

(* A zero that is the third in a row and a byte that completes no start code:   *)
(* the stretch is not clean any more.                                           *)
LEMMA StrayStep ==
  ASSUME ReaderInv, NEW b \in Byte, Read(b), SameCall, flag = 3, b # 1
  PROVE  ThisCall'
<1>s. PICK S \in Nat \ {0} : S = Start
  BY StartType DEF ReaderInv
<1>n. PICK N \in Nat : N = Len(file)
  BY StartType DEF ReaderInv
<1>l. PICK L \in Nat : L = Len(buf)
  BY StartType DEF ReaderInv
<1>1. file \in Seq(Byte)
  BY DEF ReaderInv, ReaderTypeOK
<1>2. Start' = S
  BY <1>s DEF SameCall, Start
<1>3. /\ Len(file') = N + 1 /\ file'[N + 1] = b
      /\ \A i \in 1 .. N : file'[i] = file[i]
  BY <1>1, <1>n, FileGrows
<1>4. SUFFICES ASSUME Clean(S .. N + 1)'
               PROVE  FALSE
  <2>1. Rest' = S .. N + 1
    BY <1>2, <1>3 DEF Rest
  <2> QED BY <2>1 DEF ThisCall
<1>5. Clean(S .. N)
  BY <1>1, <1>4, <1>n, CleanBefore
<1>6. N + 1 - S = L + 3 /\ \A k \in 1 .. 3 : file[S + L + k - 1] = 0
  BY <1>5, <1>s, <1>n, <1>l DEF ReaderInv, ThisCall, Rest
<1>7. file[S + L] = 0 /\ file[S + L + 1] = 0 /\ file[S + L + 2] = 0
  BY <1>6
<1>8. N = S + L + 2
  BY <1>6
<1>9. file'[N] = 0 /\ file'[N - 1] = 0 /\ file'[N - 2] = 0
  BY <1>3, <1>7, <1>8
<1>10. StrayZerosAt(N + 1)'
  BY <1>3, <1>8, <1>9 DEF StrayZerosAt
<1> QED BY <1>4, <1>8, <1>10 DEF Clean

-----------------------------------------------------------------------------
(* Nothing that is read later changes what was cut before. *)
LEMMA CutsKept ==
  ASSUME ReaderInv, NEW b \in Byte, Read(b),
         NEW i \in 1 .. Len(nals),
         nals'[i] = nals[i], starts'[i] = starts[i], starts'[i + 1] = starts[i + 1]
  PROVE  Clean(Region(i))' =>
           /\ \E code \in {LongCode, ShortCode} :
                SubSeq(file', starts'[i], starts'[i + 1] - 1) = nals'[i] \o code
           /\ nals'[i] # << >> => nals'[i][Len(nals'[i])] # 0
           /\ \A p \in Region(i)' :
                (p - 2 \in Region(i)' /\ p + 1 \in Region(i)') => ~CodeEndsAt(p)'
<1>1. /\ file \in Seq(Byte) /\ Len(file) \in Nat
      /\ starts[i] \in Nat \ {0} /\ starts[i + 1] \in Nat \ {0}
      /\ starts[i + 1] <= Len(file) + 1
  <2>1. i \in 1 .. Len(starts) /\ i + 1 \in 1 .. Len(starts)
    BY StartType DEF ReaderInv, StartsOK
  <2> QED BY <2>1, StartType, ElementOfSeq DEF ReaderInv, ReaderTypeOK, StartsOK
<1>2. PICK m \in Nat \ {0}, n \in Nat : m = starts[i] /\ n = starts[i + 1] - 1
  BY <1>1
<1>3. Region(i) = m .. n /\ Region(i)' = m .. n /\ n <= Len(file)
  BY <1>1, <1>2 DEF Region
<1>4. SUFFICES ASSUME Clean(m .. n)'
               PROVE  /\ \E code \in {LongCode, ShortCode} :
                           SubSeq(file', m, n) = nals[i] \o code
                      /\ nals[i] # << >> => nals[i][Len(nals[i])] # 0
                      /\ \A p \in m .. n : (p - 2 \in m .. n /\ p + 1 \in m .. n) => ~CodeEndsAt(p)'
  <2>1. starts'[i] = m /\ starts'[i + 1] - 1 = n /\ nals'[i] = nals[i]
    BY <1>2
  <2> QED BY <1>3, <2>1, Zenon
<1>5. Clean(m .. n)
  BY <1>1, <1>2, <1>3, <1>4, CleanBefore
<1>6. i \in DOMAIN nals
  BY LenProperties DEF ReaderInv, ReaderTypeOK
<1>7. /\ \E code \in {LongCode, ShortCode} : SubSeq(file, m, n) = nals[i] \o code
      /\ nals[i] # << >> => nals[i][Len(nals[i])] # 0
      /\ \A p \in m .. n : (p - 2 \in m .. n /\ p + 1 \in m .. n) => ~CodeEndsAt(p)
  <2>1. Clean(Region(i)) =>
          /\ \E code \in {LongCode, ShortCode} :
               SubSeq(file, starts[i], starts[i + 1] - 1) = nals[i] \o code
          /\ nals[i] # << >> => nals[i][Len(nals[i])] # 0
          /\ \A p \in Region(i) :
               (p - 2 \in Region(i) /\ p + 1 \in Region(i)) => ~CodeEndsAt(p)
    BY <1>6 DEF ReaderInv, CutsAtStartCodes
  <2> QED BY <1>2, <1>3, <1>5, <2>1
<1>8. SubSeq(file', m, n) = SubSeq(file, m, n)
  <2>1. file \in Seq(Byte) /\ m \in Nat \ {0} /\ n \in Int /\ n <= Len(file)
    BY <1>1, <1>2, <1>3
  <2> QED BY <2>1, OldSlices
<1>9. ASSUME NEW p \in m .. n
      PROVE  CodeEndsAt(p)' <=> CodeEndsAt(p)
  <2>1. p \in Int /\ p <= Len(file)
    BY <1>1, <1>2, <1>3
  <2> QED BY <1>1, <2>1, OldPlaces
<1> QED BY <1>7, <1>8, <1>9

(* What a call that meets a start code returns. *)
LEMMA NewCut ==
  ASSUME ReaderInv, NEW b \in Byte, Read(b), ReturnNal, b = 1, flag \in {2, 3},
         NEW i \in Nat \ {0}, i = Len(nals) + 1
  PROVE  Clean(Region(i))' =>
           /\ \E code \in {LongCode, ShortCode} :
                SubSeq(file', starts'[i], starts'[i + 1] - 1) = nals'[i] \o code
           /\ nals'[i] # << >> => nals'[i][Len(nals'[i])] # 0
           /\ \A p \in Region(i)' :
                (p - 2 \in Region(i)' /\ p + 1 \in Region(i)') => ~CodeEndsAt(p)'
<1>s. PICK S \in Nat \ {0} : S = Start
  BY StartType DEF ReaderInv
<1>n. PICK N \in Nat : N = Len(file)
  BY StartType DEF ReaderInv
<1>l. PICK L \in Nat : L = Len(buf)
  BY StartType DEF ReaderInv
<1>1. /\ file \in Seq(Byte) /\ buf \in Seq(Byte) /\ nals \in Seq(Seq(Byte))
      /\ starts \in Seq(Nat \ {0}) /\ Len(starts) = i
  BY DEF ReaderInv, ReaderTypeOK, StartsOK
<1>2. S <= N + 1
  BY <1>s, <1>n, StartType DEF ReaderInv
<1>3. /\ Len(file') = N + 1 /\ file'[N + 1] = 1
      /\ \A k \in 1 .. N : file'[k] = file[k]
      /\ file' \in Seq(Byte)
  BY <1>1, <1>n, FileGrows
<1>4. starts'[i] = S /\ starts'[i + 1] = N + 2 /\ nals'[i] = buf
  <2>1. N + 2 \in Nat \ {0} /\ Len(nals) + 1 = i /\ S = starts[i]
    BY <1>1, <1>s DEF Start
  <2>2. starts' = Append(starts, N + 2) /\ nals' = Append(nals, buf)
    BY <1>n DEF ReturnNal
  <2>3. starts'[i] = starts[i] /\ starts'[i + 1] = N + 2
    <3>1. i \in 1 .. Len(starts) /\ Len(starts) + 1 = i + 1
      BY <1>1
    <3> QED BY <1>1, <2>1, <2>2, <3>1, AppendProperties
  <2>4. nals'[i] = buf
    BY <1>1, StartType, <2>1, <2>2, AppendProperties
  <2> QED BY <2>1, <2>3, <2>4
<1>5. Region(i)' = S .. N + 1 /\ starts'[i + 1] - 1 = N + 1
  BY <1>4 DEF Region
<1>6. SUFFICES ASSUME Clean(S .. N + 1)'
               PROVE  /\ \E code \in {LongCode, ShortCode} : SubSeq(file', S, N + 1) = buf \o code
                      /\ buf # << >> => buf[Len(buf)] # 0
                      /\ \A p \in S .. N + 1 :
                           (p - 2 \in S .. N + 1 /\ p + 1 \in S .. N + 1) => ~CodeEndsAt(p)'
  BY <1>4, <1>5
<1>7. Clean(S .. N)
  BY <1>1, <1>n, <1>6, CleanBefore
<1>8. /\ N + 1 - S = L + flag
      /\ \A k \in 1 .. L : file[S + k - 1] = buf[k]
      /\ \A k \in 1 .. flag : file[S + L + k - 1] = 0
      /\ buf # << >> => buf[L] # 0
      /\ \A p \in S .. N : p - 2 \in S .. N => ~CodeEndsAt(p)
  BY <1>7, <1>s, <1>n, <1>l DEF ReaderInv, ThisCall, Rest
<1>9. ASSUME NEW p \in S .. N + 1, p - 2 \in S .. N + 1, p + 1 \in S .. N + 1
      PROVE  ~CodeEndsAt(p)'
  <2>1. p \in Int /\ p <= N /\ p \in S .. N /\ p - 2 \in S .. N
    BY <1>9
  <2> QED BY <1>1, <1>8, <1>n, <2>1, OldPlaces
<1>10. ASSUME NEW code \in Seq(Byte), Len(code) = flag + 1, code[flag + 1] = 1,
              \A k \in 1 .. flag : code[k] = 0
       PROVE  SubSeq(file', S, N + 1) = buf \o code
  <2>1. /\ buf \o code \in Seq(Byte) /\ Len(buf \o code) = L + flag + 1
        /\ \A k \in 1 .. L + flag + 1 : (buf \o code)[k] = IF k <= L THEN buf[k] ELSE code[k - L]
    <3>1. Len(buf) + Len(code) = L + flag + 1
      BY <1>10, <1>l
    <3> QED BY <1>1, <1>10, <1>l, <3>1, ConcatProperties
  <2>2. \A k \in S .. N + 1 : file'[k] \in Byte
    BY <1>3, <1>s, ElementOfSeq
  <2>3. /\ SubSeq(file', S, N + 1) \in Seq(Byte)
        /\ Len(SubSeq(file', S, N + 1)) = L + flag + 1
        /\ \A k \in 1 .. L + flag + 1 : SubSeq(file', S, N + 1)[k] = file'[S + k - 1]
    <3>1. (N + 1) - S + 1 = L + flag + 1 /\ S <= N + 1
      BY <1>2, <1>8
    <3>2. S \in Int /\ N + 1 \in Int
      OBVIOUS
    <3> QED BY <2>2, <3>1, <3>2, SubSeqProperties
  <2>4. ASSUME NEW k \in 1 .. L + flag + 1
        PROVE  file'[S + k - 1] = (buf \o code)[k]
    <3>1. CASE k <= L
      <4>1. k \in 1 .. L /\ S + k - 1 \in 1 .. N
        BY <1>8, <3>1
      <4> QED BY <1>3, <1>8, <2>1, <3>1, <4>1
    <3>2. CASE k > L /\ k <= L + flag
      <4>1. k - L \in 1 .. flag /\ S + L + (k - L) - 1 = S + k - 1 /\ S + k - 1 \in 1 .. N /\ ~(k <= L)
        BY <1>8, <3>2
      <4>2. file[S + k - 1] = 0
        BY <1>8, <4>1
      <4> QED BY <1>3, <1>10, <2>1, <4>1, <4>2
    <3>3. CASE k = L + flag + 1
      <4>1. S + k - 1 = N + 1 /\ k - L = flag + 1 /\ ~(k <= L)
        BY <1>8, <3>3
      <4>2. (buf \o code)[k] = code[flag + 1]
        BY <2>1, <4>1
      <4> QED BY <1>3, <1>10, <4>1, <4>2
    <3>4. flag \in Nat
      OBVIOUS
    <3>5. k <= L \/ (k > L /\ k <= L + flag) \/ k = L + flag + 1
      BY <3>4
    <3> QED BY <3>1, <3>2, <3>3, <3>5
  <2>5. \A k \in 1 .. Len(SubSeq(file', S, N + 1)) :
          SubSeq(file', S, N + 1)[k] = (buf \o code)[k]
    <3> SUFFICES ASSUME NEW k \in 1 .. L + flag + 1
                 PROVE  SubSeq(file', S, N + 1)[k] = (buf \o code)[k]
      BY <2>3
    <3>1. SubSeq(file', S, N + 1)[k] = file'[S + k - 1]
      BY <2>3
    <3>2. file'[S + k - 1] = (buf \o code)[k]
      BY <2>4
    <3> QED BY <3>1, <3>2
  <2> QED BY <2>1, <2>3, <2>5, SeqEqual
<1>11. \E code \in {LongCode, ShortCode} : SubSeq(file', S, N + 1) = buf \o code
  <2>0. 0 \in Byte /\ 1 \in Byte
    BY DEF Byte
  <2>1. CASE flag = 2
    <3>1. /\ ShortCode \in Seq(Byte) /\ Len(ShortCode) = flag + 1 /\ ShortCode[flag + 1] = 1
          /\ \A k \in 1 .. flag : ShortCode[k] = 0
      BY <2>0, <2>1 DEF ShortCode
    <3> QED BY <1>10, <3>1
  <2>2. CASE flag = 3
    <3>1. /\ LongCode \in Seq(Byte) /\ Len(LongCode) = flag + 1 /\ LongCode[flag + 1] = 1
          /\ \A k \in 1 .. flag : LongCode[k] = 0
      BY <2>0, <2>2 DEF LongCode
    <3> QED BY <1>10, <3>1
  <2> QED BY <2>1, <2>2
<1> QED BY <1>8, <1>9, <1>11, <1>l

-----------------------------------------------------------------------------
(* The three ways a byte is taken. *)
InCall(b) ==
  \/ b = 0 /\ flag < 3 /\ Hold(flag + 1)
  \/ \E bytes \in Seq(Byte) :
       /\ Len(bytes) = flag + 1 /\ \A k \in 1 .. flag : bytes[k] = 0
       /\ bytes[flag + 1] = b /\ b # 0 /\ (flag < 2 \/ b # 1)
       /\ Copy(bytes)

LEMMA ByteTaken ==
  ASSUME ReaderInv, NEW b \in Byte, ReadByte(b)
  PROVE  \/ SameCall /\ InCall(b)
         \/ SameCall /\ flag = 3 /\ b # 1 /\ Copy(<< >>)
         \/ ReturnNal /\ b = 1 /\ flag \in {2, 3}
<1>0. 0 \in Byte
  BY DEF Byte
<1>w. ASSUME NEW bytes \in Seq(Byte),
             Len(bytes) = flag + 1, \A k \in 1 .. flag : bytes[k] = 0,
             bytes[flag + 1] = b, b # 0, flag < 2 \/ b # 1, Copy(bytes)
      PROVE  InCall(b)
  BY <1>w DEF InCall
<1>1. CASE NoZeroHeld(b)
  <2>1. flag = 0 /\ SameCall /\ (IF b = 0 THEN Hold(1) ELSE Copy(<<b>>))
    BY <1>1 DEF NoZeroHeld
  <2>2. CASE b = 0
    BY <2>1, <2>2 DEF InCall
  <2>3. CASE b # 0
    <3>1. /\ <<b>> \in Seq(Byte) /\ Len(<<b>>) = flag + 1 /\ <<b>>[flag + 1] = b
          /\ \A k \in 1 .. flag : <<b>>[k] = 0
      BY <2>1
    <3>2. Copy(<<b>>) /\ (flag < 2 \/ b # 1)
      BY <2>1, <2>3
    <3>3. InCall(b)
      BY <1>w, <2>3, <3>1, <3>2, Zenon
    <3> QED BY <2>1, <3>3
  <2> QED BY <2>2, <2>3
<1>2. CASE OneZeroHeld(b)
  <2>1. flag = 1 /\ SameCall /\ (IF b = 0 THEN Hold(2) ELSE Copy(<<0, b>>))
    BY <1>2 DEF OneZeroHeld
  <2>2. CASE b = 0
    BY <2>1, <2>2 DEF InCall
  <2>3. CASE b # 0
    <3>1. /\ <<0, b>> \in Seq(Byte) /\ Len(<<0, b>>) = flag + 1 /\ <<0, b>>[flag + 1] = b
          /\ \A k \in 1 .. flag : <<0, b>>[k] = 0
      BY <1>0, <2>1
    <3>2. Copy(<<0, b>>) /\ (flag < 2 \/ b # 1)
      BY <2>1, <2>3
    <3>3. InCall(b)
      BY <1>w, <2>3, <3>1, <3>2, Zenon
    <3> QED BY <2>1, <3>3
  <2> QED BY <2>2, <2>3
<1>3. CASE TwoZerosHeld(b)
  <2>1. CASE b = 0
    <3>1. flag = 2 /\ SameCall /\ Hold(3)
      BY <1>3, <2>1 DEF TwoZerosHeld
    <3> QED BY <2>1, <3>1 DEF InCall
  <2>2. CASE b = 1
    BY <1>3, <2>2 DEF TwoZerosHeld
  <2>3. CASE b # 0 /\ b # 1
    <3>1. flag = 2 /\ SameCall /\ Copy(<<0, 0, b>>)
      BY <1>3, <2>3 DEF TwoZerosHeld
    <3>2. /\ <<0, 0, b>> \in Seq(Byte) /\ Len(<<0, 0, b>>) = flag + 1
          /\ <<0, 0, b>>[flag + 1] = b
          /\ \A k \in 1 .. flag : <<0, 0, b>>[k] = 0
      BY <1>0, <3>1
    <3>3. InCall(b)
      BY <1>w, <2>3, <3>1, <3>2, Zenon
    <3> QED BY <3>1, <3>3
  <2> QED BY <2>1, <2>2, <2>3
<1>4. CASE ThreeZerosHeld(b)
  BY <1>4 DEF ThreeZerosHeld
<1> QED BY <1>1, <1>2, <1>3, <1>4 DEF ReadByte

-----------------------------------------------------------------------------
LEMMA ReaderTypesKept ==
  ASSUME ReaderInv, NEW b \in Byte, ReadByte(b)
  PROVE  ReaderTypeOK' /\ StartsOK'
<1>1. /\ file \in Seq(Byte) /\ flag \in 0 .. 3 /\ buf \in Seq(Byte) /\ ended \in BOOLEAN
      /\ nals \in Seq(Seq(Byte)) /\ starts \in Seq(Nat \ {0})
  BY DEF ReaderInv, ReaderTypeOK
<1>2. Read(b)
  BY DEF ReadByte
<1>3. /\ file' \in Seq(Byte) /\ Len(file) \in Nat /\ Len(file') = Len(file) + 1
  BY <1>1, <1>2, FileGrows
<1>4. \/ SameCall /\ flag' \in 0 .. 3 /\ buf' \in Seq(Byte)
      \/ ReturnNal
  <2>1. CASE SameCall /\ InCall(b)
    <3>1. CASE flag < 3 /\ Hold(flag + 1)
      BY <1>1, <2>1, <3>1 DEF Hold
    <3>2. CASE \E bytes \in Seq(Byte) : Copy(bytes)
      BY <1>1, <2>1, <3>2, ConcatProperties DEF Copy
    <3> QED BY <2>1, <3>1, <3>2 DEF InCall
  <2>2. CASE SameCall /\ Copy(<< >>)
    BY <1>1, <2>2, ConcatEmptySeq DEF Copy
  <2> QED BY <2>1, <2>2, ByteTaken
<1>5. CASE SameCall /\ flag' \in 0 .. 3 /\ buf' \in Seq(Byte)
  <2>1. ReaderTypeOK'
    BY <1>1, <1>3, <1>5 DEF ReaderTypeOK, SameCall
  <2>2. StartsOK'
    <3>1. starts' = starts /\ nals' = nals
      BY <1>5 DEF SameCall
    <3>2. \A i \in 1 .. Len(starts) : starts[i] \in Nat
      BY <1>1, ElementOfSeq
    <3> QED BY <1>3, <3>1, <3>2 DEF ReaderInv, StartsOK
  <2> QED BY <2>1, <2>2
<1>6. CASE ReturnNal
  <2>1. nals' = Append(nals, buf) /\ starts' = Append(starts, Len(file) + 2)
    BY <1>6 DEF ReturnNal
  <2>2. Len(file) + 2 \in Nat \ {0}
    BY <1>3
  <2>3. /\ nals' \in Seq(Seq(Byte)) /\ starts' \in Seq(Nat \ {0})
        /\ Len(nals') = Len(nals) + 1 /\ Len(starts') = Len(starts) + 1
        /\ \A i \in 1 .. Len(starts) : starts'[i] = starts[i]
        /\ starts'[Len(starts) + 1] = Len(file) + 2
    BY <1>1, <2>1, <2>2, AppendProperties
  <2>4. ReaderTypeOK'
    <3>1. flag' = 0 /\ buf' = << >> /\ ended' = ended
      BY <1>6 DEF ReturnNal
    <3> QED BY <1>1, <1>3, <2>3, <3>1, EmptySeq DEF ReaderTypeOK
  <2>5. StartsOK'
    <3>1. /\ Len(starts) \in Nat /\ Len(nals) \in Nat
          /\ \A i \in 1 .. Len(starts) : starts[i] \in Nat /\ starts[i] <= Len(file) + 1
      BY <1>1, StartType, ElementOfSeq DEF ReaderInv, StartsOK
    <3>2. Len(starts') = Len(nals') + 1
      BY <2>3, <3>1 DEF ReaderInv, StartsOK
    <3>3. ASSUME NEW i \in 1 .. Len(starts')
          PROVE  starts'[i] <= Len(file') + 1
      <4>1. CASE i \in 1 .. Len(starts)
        <5>1. starts'[i] = starts[i]
          BY <2>3, <4>1
        <5>2. starts[i] \in Nat /\ starts[i] <= Len(file) + 1
          BY <3>1, <4>1
        <5> QED BY <1>3, <5>1, <5>2
      <4>2. CASE i = Len(starts) + 1
        BY <1>3, <2>3, <4>2
      <4> QED BY <2>3, <3>1, <4>1, <4>2
    <3> QED BY <3>2, <3>3 DEF StartsOK
  <2> QED BY <2>4, <2>5
<1> QED BY <1>4, <1>5, <1>6

(* After a start code nothing has been read by the next call. *)
LEMMA FreshCall ==
  ASSUME ReaderInv, NEW b \in Byte, ReadByte(b), ReturnNal
  PROVE  ThisCall'
<1>1. PICK N \in Nat : N = Len(file)
  BY StartType DEF ReaderInv
<1>2. Len(file') = N + 1
  BY <1>1, FileGrows DEF ReaderInv, ReaderTypeOK, ReadByte
<1>3. Start' = N + 2
  <2>1. starts \in Seq(Nat \ {0}) /\ N + 2 \in Nat \ {0}
    BY DEF ReaderInv, ReaderTypeOK
  <2>2. starts' = Append(starts, N + 2)
    BY <1>1 DEF ReturnNal
  <2> QED BY <2>1, <2>2, AppendProperties DEF Start
<1>4. flag' = 0 /\ buf' = << >> /\ Len(buf') = 0
  BY EmptySeq DEF ReturnNal
<1>5. Rest' = N + 2 .. N + 1
  BY <1>2, <1>3 DEF Rest
<1>6. \A p \in Rest' : FALSE
  BY <1>5
<1> QED BY <1>2, <1>3, <1>4, <1>6 DEF ThisCall

LEMMA CallPreserved ==
  ASSUME ReaderInv, NEW b \in Byte, ReadByte(b)
  PROVE  ThisCall'
<1>1. Read(b)
  BY DEF ReadByte
<1>2. CASE SameCall /\ InCall(b)
  BY <1>1, <1>2, StepInCall DEF InCall
<1>3. CASE SameCall /\ flag = 3 /\ b # 1
  BY <1>1, <1>3, StrayStep
<1>4. CASE ReturnNal
  BY <1>4, FreshCall
<1> QED BY <1>2, <1>3, <1>4, ByteTaken

LEMMA CutsPreserved ==
  ASSUME ReaderInv, NEW b \in Byte, ReadByte(b)
  PROVE  CutsAtStartCodes'
<1> DEFINE Cut(i) ==
      Clean(Region(i)) =>
        /\ \E code \in {LongCode, ShortCode} :
             SubSeq(file, starts[i], starts[i + 1] - 1) = nals[i] \o code
        /\ nals[i] # << >> => nals[i][Len(nals[i])] # 0
        /\ \A p \in Region(i) :
             (p - 2 \in Region(i) /\ p + 1 \in Region(i)) => ~CodeEndsAt(p)
<1>1. Read(b)
  BY DEF ReadByte
<1>2. /\ nals \in Seq(Seq(Byte)) /\ buf \in Seq(Byte) /\ starts \in Seq(Nat \ {0})
      /\ Len(nals) \in Nat /\ Len(file) \in Nat
      /\ Len(starts) = Len(nals) + 1 /\ DOMAIN nals = 1 .. Len(nals)
  BY StartType, LenProperties DEF ReaderInv, ReaderTypeOK, StartsOK
<1>3. SUFFICES ASSUME NEW i \in DOMAIN nals'
               PROVE  Cut(i)'
  BY DEF CutsAtStartCodes
<1>4. CASE SameCall
  <2>1. nals' = nals /\ starts' = starts /\ i \in 1 .. Len(nals)
    BY <1>2, <1>4 DEF SameCall
  <2> QED BY <1>1, <2>1, CutsKept
<1>5. CASE ReturnNal /\ b = 1 /\ flag \in {2, 3}
  <2>1. /\ nals' = Append(nals, buf) /\ starts' = Append(starts, Len(file) + 2)
        /\ Len(file) + 2 \in Nat \ {0}
    BY <1>2, <1>5 DEF ReturnNal
  <2>2. /\ DOMAIN nals' = 1 .. Len(nals) + 1
        /\ \A k \in 1 .. Len(nals) : nals'[k] = nals[k]
        /\ \A k \in 1 .. Len(nals) + 1 : starts'[k] = starts[k]
    BY <1>2, <2>1, AppendProperties, LenProperties
  <2>3. CASE i \in 1 .. Len(nals)
    <3>0. i \in 1 .. Len(nals) + 1 /\ i + 1 \in 1 .. Len(nals) + 1
      <4>1. Len(nals) \in Nat
        BY <1>2
      <4> QED BY <2>3, <4>1
    <3>1. nals'[i] = nals[i] /\ starts'[i] = starts[i] /\ starts'[i + 1] = starts[i + 1]
      BY <2>2, <2>3, <3>0
    <3> QED BY <1>1, <2>3, <3>1, CutsKept
  <2>4. CASE i = Len(nals) + 1
    <3>1. i \in Nat \ {0}
      BY <1>2, <2>4
    <3> QED BY <1>1, <1>5, <2>4, <3>1, NewCut
  <2>5. i \in 1 .. Len(nals) \/ i = Len(nals) + 1
    BY <1>2, <1>3, <2>2
  <2> QED BY <2>3, <2>4, <2>5
<1> QED BY <1>4, <1>5, ByteTaken

-----------------------------------------------------------------------------
LEMMA ReaderInvInit == ReaderInit => ReaderInv
<1> SUFFICES ASSUME ReaderInit
             PROVE  ReaderInv
  OBVIOUS
<1>1. /\ file = << >> /\ flag = 0 /\ buf = << >> /\ nals = << >> /\ starts = <<1>>
      /\ ended = FALSE
  BY DEF ReaderInit
<1>2. Len(file) = 0 /\ Len(buf) = 0 /\ Len(nals) = 0 /\ Len(starts) = 1 /\ starts[1] = 1
  BY <1>1
<1>3. ReaderTypeOK
  <2>1. <<1>> \in Seq(Nat \ {0})
    OBVIOUS
  <2>2. << >> \in Seq(Byte) /\ << >> \in Seq(Seq(Byte))
    BY EmptySeq
  <2>3. file \in Seq(Byte) /\ buf \in Seq(Byte) /\ nals \in Seq(Seq(Byte))
        /\ starts \in Seq(Nat \ {0})
    BY <1>1, <2>1, <2>2, Zenon
  <2>4. flag \in 0 .. 3
    BY <1>1
  <2>5. ended \in BOOLEAN
    BY <1>1, Zenon
  <2> QED BY <2>3, <2>4, <2>5 DEF ReaderTypeOK
<1>4. StartsOK
  BY <1>2 DEF StartsOK
<1>5. ThisCall
  <2>1. Start = 1 /\ Rest = 1 .. 0
    BY <1>2 DEF Start, Rest
  <2>2. \A p \in Rest : FALSE
    BY <2>1
  <2> QED BY <1>1, <1>2, <2>1, <2>2 DEF ThisCall
<1>6. CutsAtStartCodes
  <2>1. DOMAIN nals = {}
    BY <1>1
  <2> QED BY <2>1 DEF CutsAtStartCodes
<1> QED BY <1>3, <1>4, <1>5, <1>6 DEF ReaderInv

(* Nothing but the flag of the end of the file changes. *)
LEMMA ReaderQuiet ==
  ASSUME ReaderInv, UNCHANGED <<file, flag, buf, nals, starts>>, ended' \in BOOLEAN
  PROVE  ReaderInv'
<1>1. ReaderTypeOK' /\ StartsOK'
  BY DEF ReaderInv, ReaderTypeOK, StartsOK
<1>2. ThisCall'
  BY DEF ReaderInv, ThisCall, Rest, Start, Clean, StrayZerosAt, CodeEndsAt
<1>3. CutsAtStartCodes'
  BY DEF ReaderInv, CutsAtStartCodes, Region, Clean, StrayZerosAt, CodeEndsAt
<1> QED BY <1>1, <1>2, <1>3 DEF ReaderInv

LEMMA ReaderInvNext == ReaderInv /\ [ReaderNext]_readerVars => ReaderInv'
<1> SUFFICES ASSUME ReaderInv, [ReaderNext]_readerVars
             PROVE  ReaderInv'
  OBVIOUS
<1>1. ASSUME NEW b \in Byte, ReadByte(b)
      PROVE  ReaderInv'
  BY <1>1, ReaderTypesKept, CallPreserved, CutsPreserved DEF ReaderInv
<1>2. CASE EndOfFile
  BY <1>2, ReaderQuiet DEF EndOfFile
<1>3. CASE UNCHANGED readerVars
  BY <1>3, ReaderQuiet DEF readerVars, ReaderInv, ReaderTypeOK
<1> QED BY <1>1, <1>2, <1>3 DEF ReaderNext

LEMMA ReaderInvAlways == ReaderSpec => []ReaderInv
<1>1. ReaderInit => ReaderInv
  BY ReaderInvInit
<1>2. ReaderInv /\ [ReaderNext]_readerVars => ReaderInv'
  BY ReaderInvNext
<1> QED BY <1>1, <1>2, PTL DEF ReaderSpec

(* What is held back follows what was copied. *)
LEMMA RestIsHeld == ReaderInv => RestHasNoCode
<1> SUFFICES ASSUME ReaderInv, Clean(Rest)
             PROVE  /\ SubSeq(file, Start, Len(file)) = buf \o [i \in 1 .. flag |-> 0]
                    /\ \A p \in Rest : p - 2 \in Rest => ~CodeEndsAt(p)
  BY DEF RestHasNoCode, Rest, Start
<1> DEFINE zeros == [i \in 1 .. flag |-> 0]
<1>s. PICK S \in Nat \ {0} : S = Start
  BY StartType DEF ReaderInv
<1>n. PICK N \in Nat : N = Len(file)
  BY StartType DEF ReaderInv
<1>l. PICK L \in Nat : L = Len(buf)
  BY StartType DEF ReaderInv
<1>1. /\ file \in Seq(Byte) /\ buf \in Seq(Byte) /\ flag \in Nat /\ S <= N + 1
  BY <1>s, <1>n, StartType DEF ReaderInv, ReaderTypeOK
<1>2. /\ N + 1 - S = L + flag
      /\ \A k \in 1 .. L : file[S + k - 1] = buf[k]
      /\ \A k \in 1 .. flag : file[S + L + k - 1] = 0
      /\ \A p \in Rest : p - 2 \in Rest => ~CodeEndsAt(p)
  BY <1>s, <1>n, <1>l DEF ReaderInv, ThisCall
<1>3. zeros \in Seq(Byte) /\ Len(zeros) = flag
  <2>1. 0 \in Byte
    BY DEF Byte
  <2> QED BY <1>1, <2>1
<1>4. \A k \in 1 .. flag : zeros[k] = 0
  OBVIOUS
<1> HIDE DEF zeros
<1>5. /\ buf \o zeros \in Seq(Byte) /\ Len(buf \o zeros) = L + flag
      /\ \A k \in 1 .. L + flag : (buf \o zeros)[k] = IF k <= L THEN buf[k] ELSE zeros[k - L]
  BY <1>1, <1>3, <1>l, ConcatProperties
<1>6. \A k \in S .. N : file[k] \in Byte
  BY <1>1, <1>n, ElementOfSeq
<1>7. /\ SubSeq(file, S, N) \in Seq(Byte) /\ Len(SubSeq(file, S, N)) = L + flag
      /\ \A k \in 1 .. L + flag : SubSeq(file, S, N)[k] = file[S + k - 1]
  <2>1. N - S + 1 = L + flag /\ (S <= N \/ L + flag = 0)
    BY <1>1, <1>2
  <2>2. S \in Int /\ N \in Int
    OBVIOUS
  <2> QED BY <1>6, <2>1, <2>2, SubSeqProperties
<1>8. ASSUME NEW k \in 1 .. L + flag
      PROVE  SubSeq(file, S, N)[k] = (buf \o zeros)[k]
  <2>1. CASE k <= L
    <3>1. k \in 1 .. L
      BY <1>1, <2>1
    <3> QED BY <1>2, <1>5, <1>7, <2>1, <3>1
  <2>2. CASE ~(k <= L)
    <3>1. k - L \in 1 .. flag /\ S + L + (k - L) - 1 = S + k - 1
      BY <1>1, <2>2
    <3>2. file[S + k - 1] = 0 /\ zeros[k - L] = 0
      BY <1>2, <1>4, <3>1
    <3> QED BY <1>5, <1>7, <2>2, <3>2
  <2> QED BY <2>1, <2>2
<1>9. SubSeq(file, S, N) = buf \o zeros
  BY <1>5, <1>7, <1>8, SeqEqual
<1> QED BY <1>2, <1>9, <1>s, <1>n DEF zeros

-----------------------------------------------------------------------------
(* Type correctness, for any bytes and any length of the file. *)
THEOREM ReaderTypes == ReaderSpec => []ReaderTypeOK
<1>1. ReaderInv => ReaderTypeOK
  BY DEF ReaderInv
<1> QED BY <1>1, ReaderInvAlways, PTL

(* copy_nal_from_file cuts the file at its start codes, long and short, and     *)
(* changes no byte of a NAL, unless three zeros stray in it.                    *)
THEOREM CutsAreExact == ReaderSpec => []CutsAtStartCodes
<1>1. ReaderInv => CutsAtStartCodes
  BY DEF ReaderInv
<1> QED BY <1>1, ReaderInvAlways, PTL

(* No call reads past a start code, and what it holds is what it has read. *)
THEOREM NoCodeIsMissed == ReaderSpec => []RestHasNoCode
<1>1. ReaderInv => RestHasNoCode
  BY RestIsHeld
<1> QED BY <1>1, ReaderInvAlways, PTL

-----------------------------------------------------------------------------
(* A program that runs one of the parts is a run of each *)
LEMMA PartsOfProgram == Spec => RingSpec /\ ListSpec /\ ClientSpec /\ ReaderSpec
<1>1. Init => RingInit /\ ListInit /\ ClientInit /\ ReaderInit
  BY DEF Init
<1>2. [Next]_threadVars => [RingNext]_ringVars
  BY DEF Next, MenuOfRing, MenuOfList, UsesClients, ReadsFile, threadVars
<1>3. [Next]_threadVars => [ListNext]_listVars
  BY DEF Next, MenuOfRing, MenuOfList, UsesClients, ReadsFile, threadVars
<1>4. [Next]_threadVars => [ClientNext]_clientVars
  BY DEF Next, MenuOfRing, MenuOfList, UsesClients, ReadsFile, threadVars
<1>5. [Next]_threadVars => [ReaderNext]_readerVars
  BY DEF Next, MenuOfRing, MenuOfList, UsesClients, ReadsFile, threadVars
<1> QED BY <1>1, <1>2, <1>3, <1>4, <1>5, PTL DEF Spec, RingSpec, ListSpec, ClientSpec, ReaderSpec

(***************************************************************************)
(* What is proved of each part holds in the specification of which all of  *)
(* them are parts, the one that the runs check.                            *)
(***************************************************************************)
THEOREM PartsKeepTheirPromises ==
  Spec => /\ [](/\ RingCounts /\ ChainIsLinked /\ SizeShortByLeftovers
                /\ ClientsListed /\ CutsAtStartCodes /\ RestHasNoCode)
          /\ RingIsFifo /\ ListIsFifo
<1> QED BY PartsOfProgram, CountsAreRight, ChainStaysLinked, SizeDrift, ListKeepsClients,
           CutsAreExact, NoCodeIsMissed, RingImplementsFifo, ListImplementsFifo, PTL
=============================================================================
