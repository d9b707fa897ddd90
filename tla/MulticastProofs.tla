---------------------------- MODULE MulticastProofs ----------------------------
(***************************************************************************)
(* Theorems about Multicast, the recorder, and NalPump, the client that    *)
(* feeds it.  What holds whatever is lost rests on one                     *)
(* fact: a datagram of the client is one NAL, so that every SPS is the     *)
(* first of its datagram and is compared with the limit.                   *)
(*   What holds without a loss needs to know where in the client's endless *)
(* repetition of the file the saved NALs come from.  Count what the client *)
(* would send if it repeated the file for ever (NalAt).  Then there are     *)
(* places such that what was saved is what stands there, in that order, no *)
(* slice that was received is missing, and what is in the receive buffer   *)
(* and the client's turn follow on (Received, ToCome).                     *)
(*   That the client sends one NAL of the file after the other is proved   *)
(* in the last part, of the loop that reads chunks: it implements NalLoop. *)
(***************************************************************************)
EXTENDS MulticastPair, FiniteSetTheorems, NatLemmas

SingleNals == chan \in Seq({d \in Seq(Nal) : Len(d) = 1})

SpsSeen ==
  /\ saved \in Seq(Nal)
  /\ start = 0 => \A i \in 1 .. Len(saved) : saved[i].type # Sps
  /\ OneSps

MulticastInv ==
  /\ file \in Files
  /\ turn \in 1 .. Len(file)
  /\ start \in Nat
  /\ closed \in BOOLEAN
  /\ SingleNals
  /\ StopsAtLimit
  /\ SpsSeen

-----------------------------------------------------------------------------
(* What the client sends is a NAL of the file *)
LEMMA SentNal ==
  ASSUME MulticastInv, Loop!SendNal
  PROVE  last' \in Nal /\ turn' \in 1 .. Len(file) /\ file' = file
<1>1. file \in Seq(Nat) /\ Len(file) \in Nat \ {0}
  BY FileAssumption, EmptySeq DEF MulticastInv
<1>2. file[turn] \in Nat
  BY <1>1 DEF MulticastInv
<1>3. last' = [nr |-> turn, type |-> file[turn]]
  BY <1>1 DEF MulticastInv, Loop!SendNal, Nals
<1>4. last' \in Nal
  BY <1>1, <1>2, <1>3 DEF MulticastInv, Nal
<1>5. turn' = (turn % Len(file)) + 1
  BY <1>1 DEF Loop!SendNal, Nals
<1>6. turn' \in 1 .. Len(file)
  <2>1. turn \in Nat /\ Len(file) \in Nat /\ Len(file) > 0
    BY <1>1 DEF MulticastInv
  <2>2. turn % Len(file) \in 0 .. Len(file) - 1
    BY <2>1
  <2> QED BY <1>5, <2>1, <2>2
<1> QED BY <1>4, <1>6 DEF Loop!SendNal

(* Counting the SPS of a datagram of one NAL *)
LEMMA CountOne ==
  ASSUME NEW d \in Seq(Nal), Len(d) = 1, start \in Nat
  PROVE  StartAfter(d, 1) = IF d[1].type = Sps THEN start + 1 ELSE start
<1>1. CASE d[1].type = Sps
  <2>1. {j \in 1 .. 1 : d[j].type = Sps} = {1}
    BY <1>1
  <2>2. Cardinality({1}) = 1
    BY FS_Singleton
  <2> QED BY <1>1, <2>1, <2>2 DEF StartAfter
<1>2. CASE d[1].type # Sps
  <2>1. {j \in 1 .. 1 : d[j].type = Sps} = {}
    BY <1>2
  <2>2. Cardinality({j \in 1 .. 1 : d[j].type = Sps}) = 0
    BY <2>1, FS_EmptySet
  <2>3. StartAfter(d, 1) = start + 0
    BY <2>2 DEF StartAfter
  <2> QED BY <1>2, <2>3
<1> QED BY <1>1, <1>2

(* What is written of a datagram of one NAL *)
LEMMA KeptOne ==
  ASSUME NEW d \in Seq(Nal), Len(d) = 1
  PROVE  Kept(d) = IF LastKept(d) THEN d ELSE << >>
<1> DEFINE before == {i \in 1 .. Len(d) - 1 : StartAfter(d, i + 1) > 0}
<1>1. before = {}
  OBVIOUS
<1>2. Cardinality(before) = 0
  BY <1>1, FS_EmptySet
<1>3. SubSeq(d, Len(d) - Cardinality(before), Len(d) - 1) = << >>
  <2>1. SubSeq(d, 1, 0) = << >>
    OBVIOUS
  <2> QED BY <1>2, <2>1
<1>4. Kept(d) = << >> \o (IF LastKept(d) THEN << d[1] >> ELSE << >>)
  <2>1. Kept(d) = SubSeq(d, Len(d) - Cardinality(before), Len(d) - 1)
                    \o (IF LastKept(d) THEN << d[Len(d)] >> ELSE << >>)
    BY DEF Kept
  <2> QED BY <1>3, <2>1
<1>5. << d[1] >> = d
  OBVIOUS
<1>6. << >> \o d = d /\ << >> \o << >> = << >>
  OBVIOUS
<1> QED BY <1>4, <1>5, <1>6

(* One more NAL in the saved file: still at most one SPS, for the second    *)
(* and the later ones are left out.                                        *)
LEMMA SaveOne ==
  ASSUME MulticastInv, NEW d \in Seq(Nal), Len(d) = 1,
         saved' = saved \o Kept(d), start' = StartAfter(d, 1)
  PROVE  SpsSeen'
<1> USE DEF MulticastInv, SpsSeen
<1>1. start' = IF d[1].type = Sps THEN start + 1 ELSE start
  BY CountOne
<1>2. LastKept(d) <=> start' < 2 \/ d[1].type \notin {Sps, Pps}
  BY DEF LastKept
<1>3. CASE ~LastKept(d)
  <2>1. saved' = saved
    BY <1>3, KeptOne
  <2> QED BY <1>1, <1>2, <1>3, <2>1 DEF OneSps
<1>4. CASE LastKept(d)
  <2>1. saved' = saved \o d
    BY <1>4, KeptOne
  <2>2. /\ saved' \in Seq(Nal)
        /\ Len(saved') = Len(saved) + 1
        /\ \A i \in 1 .. Len(saved) : saved'[i] = saved[i]
        /\ saved'[Len(saved) + 1] = d[1]
    <3>1. saved \in Seq(Nal) /\ Len(saved) \in Nat
      OBVIOUS
    <3>2. saved' \in Seq(Nal) /\ Len(saved') = Len(saved) + Len(d)
      BY <2>1, <3>1, ConcatProperties
    <3>3. \A i \in 1 .. Len(saved) + 1 :
            saved'[i] = IF i <= Len(saved) THEN saved[i] ELSE d[i - Len(saved)]
      <4>1. \A i \in 1 .. Len(saved) + Len(d) :
              (saved \o d)[i] = IF i <= Len(saved) THEN saved[i] ELSE d[i - Len(saved)]
        BY <3>1, ConcatProperties
      <4> QED BY <2>1, <4>1
    <3> QED BY <3>1, <3>2, <3>3
  <2>3. d[1].type = Sps => start = 0
    BY <1>1, <1>2, <1>4
  <2>4. start' = 0 => \A i \in 1 .. Len(saved') : saved'[i].type # Sps
    BY <1>1, <2>2
  <2>5. OneSps'
    BY <2>2, <2>3 DEF OneSps
  <2> QED BY <2>2, <2>4, <2>5
<1> QED BY <1>3, <1>4

-----------------------------------------------------------------------------
LEMMA InvInit == Init => MulticastInv
<1> SUFFICES ASSUME Init PROVE MulticastInv
  OBVIOUS
<1>1. Len(file) \in Nat \ {0}
  BY FileAssumption, EmptySeq DEF Init
<1>2. turn \in 1 .. Len(file)
  BY <1>1 DEF Init, Loop!Init
<1>3. SingleNals
  BY DEF Init, SingleNals
<1>4. StopsAtLimit
  BY LimitAssumption DEF Init, StopsAtLimit
<1>5. SpsSeen
  BY DEF Init, SpsSeen, OneSps
<1> QED BY <1>2, <1>3, <1>4, <1>5 DEF Init, MulticastInv

LEMMA InvNext == MulticastInv /\ [Next]_vars => MulticastInv'
<1> SUFFICES ASSUME MulticastInv, [Next]_vars PROVE MulticastInv'
  OBVIOUS
<1>1. CASE SendUnheard
  BY <1>1, SentNal DEF SendUnheard, MulticastInv, server, SingleNals, StopsAtLimit,
                       SpsSeen, OneSps
<1>2. CASE SendHeard
  <2>1. last' \in Nal /\ turn' \in 1 .. Len(file) /\ file' = file
    BY <1>2, SentNal DEF SendHeard
  <2>2. << last' >> \in {d \in Seq(Nal) : Len(d) = 1}
    BY <2>1
  <2>3. SingleNals'
    BY <1>2, <2>2 DEF SendHeard, MulticastInv, SingleNals
  <2> QED BY <1>2, <2>1, <2>3 DEF SendHeard, MulticastInv, server, StopsAtLimit, SpsSeen,
                                  OneSps
<1>3. CASE SendLost
  BY <1>3, SentNal DEF SendLost, MulticastInv, server, SingleNals, StopsAtLimit,
                       SpsSeen, OneSps
<1>4. CASE Join
  BY <1>4 DEF Join, MulticastInv, client, SingleNals, StopsAtLimit, SpsSeen, OneSps
<1>5. CASE Record
  <2> DEFINE d == Head(chan)
  <2>1. d \in Seq(Nal) /\ Len(d) = 1
    BY <1>5 DEF Record, MulticastInv, SingleNals
  <2>2. start' = StartAfter(d, 1) /\ saved' = saved \o Kept(d)
    BY <1>5, <2>1 DEF Record
  <2>3. start' = IF d[1].type = Sps THEN start + 1 ELSE start
    BY <2>1, <2>2, CountOne DEF MulticastInv
  <2>4. SpsSeen'
    BY <2>1, <2>2, SaveOne
  <2>5. SingleNals'
    BY <1>5 DEF Record, MulticastInv, SingleNals
  <2>6. start < StartLimit
    BY <1>5, LimitAssumption DEF Record, MulticastInv, StopsAtLimit
  <2>7. start' # StartLimit
    BY <1>5, <2>2, <2>3, <2>6 DEF Record, ReachesLimit
  <2>8. StopsAtLimit'
    BY <1>5, <2>3, <2>6, <2>7, LimitAssumption DEF Record, MulticastInv, StopsAtLimit
  <2> QED BY <1>5, <2>3, <2>4, <2>5, <2>8 DEF Record, MulticastInv, client
<1>6. CASE Finish
  BY <1>6, LimitAssumption
     DEF Finish, MulticastInv, client, SingleNals, StopsAtLimit, SpsSeen, OneSps
<1>7. CASE UNCHANGED vars
  BY <1>7 DEF vars, client, server, MulticastInv, SingleNals, StopsAtLimit, SpsSeen, OneSps
<1> QED BY <1>1, <1>2, <1>3, <1>4, <1>5, <1>6, <1>7 DEF Next, Client, Server

THEOREM InvHolds == Spec => []MulticastInv
<1> QED BY InvInit, InvNext, PTL DEF Spec

(* Whatever is lost, the recording ends with the StartLimit-th SPS received *)
(* and never runs past it, for every file and limit: server.c:104.         *)
THEOREM EndsAtTheLimit == Spec => []StopsAtLimit
<1>1. MulticastInv => StopsAtLimit
  BY DEF MulticastInv
<1> QED BY <1>1, InvHolds, PTL

(* Whatever is lost, the file that is saved has one SPS at most: the test   *)
(* of start and nal_unit_type at server.c:142-153.                          *)
THEOREM SavesOneSps == Spec => []OneSps
<1>1. MulticastInv => OneSps
  BY DEF MulticastInv, SpsSeen
<1> QED BY <1>1, InvHolds, PTL

-----------------------------------------------------------------------------
(* What is sent at place p of the endless repetition of the file *)
NalAt(p) == Nals(file)[(p % Len(file)) + 1]

(* The SPS saved i-th is still the last NAL received, and then the next one *)
(* is kept, or the NAL after it has been saved too if it is a PPS.         *)
PpsComes(now, at, i) ==
  IF at[i] + 1 = now
  THEN closed \/ start = 1
  ELSE NalAt(at[i] + 1).type = Pps => \E k \in 1 .. Len(saved) : at[k] = at[i] + 1

(* What was received is what stands at the places from .. now - 1; the NAL  *)
(* saved i-th stands at at[i].                                            *)
Received(from, now, at) ==
  /\ from <= now /\ Len(at) = Len(saved)
  /\ \A i \in 1 .. Len(saved) : at[i] \in from .. now - 1 /\ saved[i] = NalAt(at[i])
  /\ \A i, j \in 1 .. Len(saved) : i < j => at[i] < at[j]
  /\ \A p \in from .. now - 1 :
       IsSlice(NalAt(p)) => \E i \in 1 .. Len(saved) : at[i] = p
  /\ \A i \in 1 .. Len(saved) : saved[i].type = Sps => PpsComes(now, at, i)

(* The receive buffer and the client go on at now *)
ToCome(now) ==
  ~closed => /\ \A k \in 1 .. Len(chan) : chan[k] = << NalAt(now + k - 1) >>
             /\ turn = ((now + Len(chan)) % Len(file)) + 1

HasPlaces == \E from, now \in Nat, at \in Seq(Nat) : Received(from, now, at) /\ ToCome(now)

HeardInv ==
  /\ drops \in Nat
  /\ ~joined => chan = << >> /\ saved = << >>
  /\ drops = 0 => HasPlaces

(* Places of the repetition *)
LEMMA PlaceFacts ==
  ASSUME MulticastInv
  PROVE  /\ file \in Seq(Nat) /\ Len(file) \in Nat \ {0}
         /\ \A p \in Nat : p % Len(file) \in 0 .. Len(file) - 1
         /\ \A p \in Nat : NalAt(p) = [nr |-> (p % Len(file)) + 1,
                                       type |-> file[(p % Len(file)) + 1]]
         /\ \A p \in Nat : NalAt(p) \in Nal
<1>1. file \in Seq(Nat) /\ Len(file) \in Nat \ {0}
  BY FileAssumption, EmptySeq DEF MulticastInv
<1>2. ASSUME NEW p \in Nat
      PROVE  /\ p % Len(file) \in 0 .. Len(file) - 1
             /\ NalAt(p) = [nr |-> (p % Len(file)) + 1, type |-> file[(p % Len(file)) + 1]]
             /\ NalAt(p) \in Nal
  <2>1. p % Len(file) \in 0 .. Len(file) - 1
    BY <1>1, SmallMod
  <2>2. PICK i \in 1 .. Len(file) : i = (p % Len(file)) + 1
    BY <1>1, <2>1
  <2>3. NalAt(p) = [nr |-> i, type |-> file[i]]
    BY <1>1, <2>2 DEF NalAt, Nals
  <2>4. i \in Nat /\ file[i] \in Nat
    BY <1>1, <2>2, ElementOfSeq
  <2> QED BY <2>1, <2>2, <2>3, <2>4 DEF Nal
<1> QED BY <1>1, <1>2

LEMMA TypeAt ==
  ASSUME MulticastInv, NEW p \in Nat
  PROVE  NalAt(p).type = file[(p % Len(file)) + 1]
<1>1. PICK i : i = (p % Len(file)) + 1
  OBVIOUS
<1>2. NalAt(p) = [nr |-> i, type |-> file[i]]
  BY <1>1, PlaceFacts
<1> QED BY <1>1, <1>2

LEMMA SameFile ==
  ASSUME file' = file, NEW p
  PROVE  NalAt(p)' = NalAt(p)
BY DEF NalAt, Nals

LEMMA NextTurn ==
  ASSUME MulticastInv, NEW c \in Nat
  PROVE  ((((c % Len(file)) + 1) % Len(file)) + 1) = ((c + 1) % Len(file)) + 1
<1>1. PICK m \in Nat \ {0} : m = Len(file)
  BY PlaceFacts
<1>2. ((c % m) + 1) % m = (c + 1) % m
  BY ModAdd
<1> QED BY <1>1, <1>2

LEMMA NextKeeps ==
  ASSUME file' = file, saved' = saved, start' = start, closed' = closed,
         NEW from, NEW now, NEW at, Received(from, now, at)
  PROVE  Received(from, now, at)'
<1>1. \A i : PpsComes(now, at, i)' <=> PpsComes(now, at, i)
  BY SameFile DEF PpsComes
<1> QED BY <1>1, SameFile DEF Received, IsSlice

(* What Record does with the NAL at place now *)
LEMMA RecordOne ==
  ASSUME MulticastInv, Record, NEW now \in Nat, ToCome(now)
  PROVE  /\ chan \in Seq(Seq(Nal)) /\ Len(chan) \in Nat \ {0}
         /\ chan' = Tail(chan)
         /\ start' = IF NalAt(now).type = Sps THEN start + 1 ELSE start
         /\ LET kept == start' < 2 \/ IsSlice(NalAt(now))
            IN  /\ kept => /\ Len(saved') = Len(saved) + 1
                           /\ saved'[Len(saved) + 1] = NalAt(now)
                /\ ~kept => Len(saved') = Len(saved)
         /\ \A i \in 1 .. Len(saved) : saved'[i] = saved[i]
<1>1. chan \in Seq(Seq(Nal)) /\ Len(chan) \in Nat \ {0} /\ chan' = Tail(chan)
  BY EmptySeq DEF Record, MulticastInv, SingleNals
<1>2. PICK nal \in Nal : nal = NalAt(now)
  BY PlaceFacts
<1>3. PICK d \in Seq(Nal) : d = Head(chan)
  BY <1>1
<1>4. d = << nal >>
  <2>1. chan[1] = << NalAt(now + 1 - 1) >>
    BY <1>1 DEF ToCome, Record
  <2>2. now + 1 - 1 = now /\ Head(chan) = chan[1]
    BY <1>1
  <2> QED BY <1>2, <1>3, <2>1, <2>2
<1>5. Len(d) = 1 /\ d[1] = nal
  BY <1>4
<1>6. start' = IF nal.type = Sps THEN start + 1 ELSE start
  <2>1. start' = StartAfter(d, 1)
    BY <1>3, <1>5 DEF Record
  <2> QED BY <1>5, <2>1, CountOne DEF MulticastInv
<1>7. LastKept(d) <=> start' < 2 \/ IsSlice(nal)
  <2>1. start' = StartAfter(d, Len(d))
    BY <1>3 DEF Record
  <2> QED BY <1>5, <2>1 DEF LastKept, IsSlice
<1>8. saved' = saved \o Kept(d) /\ saved \in Seq(Nal)
  BY <1>3 DEF Record, MulticastInv, SpsSeen
<1>9. CASE LastKept(d)
  <2>1. saved' = saved \o d
    BY <1>5, <1>8, <1>9, KeptOne
  <2>2. /\ Len(saved \o d) = Len(saved) + Len(d)
        /\ \A i \in 1 .. Len(saved) + Len(d) :
             (saved \o d)[i] = IF i <= Len(saved) THEN saved[i] ELSE d[i - Len(saved)]
    BY <1>8, ConcatProperties
  <2>3. PICK c \in Nat : c = Len(saved)
    BY <1>8
  <2>4. Len(saved') = c + 1 /\ \A i \in 1 .. c : saved'[i] = saved[i]
    BY <1>5, <2>1, <2>2, <2>3
  <2>5. saved'[c + 1] = nal
    <3>1. c + 1 - c = 1 /\ c + 1 \in 1 .. c + 1 /\ ~(c + 1 <= c)
      BY <2>3
    <3> QED BY <1>5, <2>1, <2>2, <2>3, <3>1
  <2> QED BY <1>1, <1>2, <1>6, <1>7, <1>9, <2>3, <2>4, <2>5
<1>10. CASE ~LastKept(d)
  <2>1. saved' = saved \o << >> /\ saved \o << >> = saved
    BY <1>5, <1>8, <1>10, KeptOne
  <2> QED BY <1>1, <1>2, <1>6, <1>7, <1>10, <2>1
<1> QED BY <1>9, <1>10

(* The saved file goes on with the NAL at place now, if it is kept *)
LEMMA RecordKeepsPlaces ==
  ASSUME MulticastInv, Record, NEW from \in Nat, NEW now \in Nat, NEW at \in Seq(Nat),
         Received(from, now, at), ToCome(now)
  PROVE  \E q \in Seq(Nat) : Received(from, now + 1, q)'
<1>1. PICK c \in Nat : c = Len(saved)
  BY DEF MulticastInv, SpsSeen
<1>2. PICK nal \in Nal : nal = NalAt(now)
  BY PlaceFacts
<1>3. PICK m \in c .. c + 1 :
         /\ Len(saved') = m
         /\ m = c + 1 => saved'[c + 1] = nal /\ (start' < 2 \/ IsSlice(nal))
         /\ m = c => ~(start' < 2) /\ ~IsSlice(nal)
  <2>1. CASE start' < 2 \/ IsSlice(nal)
    <3>1. start' < 2 \/ IsSlice(NalAt(now))
      BY <1>2, <2>1, Zenon
    <3>2. Len(saved') = Len(saved) + 1 /\ saved'[Len(saved) + 1] = NalAt(now)
      BY <3>1, RecordOne
    <3>3. c + 1 \in c .. c + 1 /\ Len(saved') = c + 1 /\ saved'[c + 1] = nal /\ c + 1 # c
      BY <1>1, <1>2, <3>2
    <3> QED BY <2>1, <3>3
  <2>2. CASE ~(start' < 2) /\ ~IsSlice(nal)
    <3>1. ~(start' < 2 \/ IsSlice(NalAt(now)))
      BY <1>2, <2>2, Zenon
    <3>2. Len(saved') = Len(saved)
      BY <3>1, RecordOne
    <3>3. Len(saved') = c /\ c \in c .. c + 1 /\ c # c + 1
      BY <1>1, <3>2
    <3> QED BY <2>2, <3>3
  <2> QED BY <2>1, <2>2
<1>4. /\ start' = IF nal.type = Sps THEN start + 1 ELSE start
      /\ \A i \in 1 .. c : saved'[i] = saved[i]
  BY <1>1, <1>2, RecordOne
<1>5. file' = file /\ closed' = closed /\ ~closed
  BY DEF Record, client
<1>6. \A p : NalAt(p)' = NalAt(p)
  BY <1>5, SameFile
<1>7. PICK q \in Seq(Nat) : q = IF m = c THEN at ELSE Append(at, now)
  <2>1. Append(at, now) \in Seq(Nat)
    OBVIOUS
  <2> QED BY <2>1
<1>8. /\ Len(at) = c /\ from <= now
      /\ \A i \in 1 .. c : at[i] \in Nat /\ at[i] < now /\ from <= at[i] /\ saved[i] = NalAt(at[i])
      /\ \A i, j \in 1 .. c : i < j => at[i] < at[j]
      /\ \A p \in from .. now - 1 : IsSlice(NalAt(p)) => \E i \in 1 .. c : at[i] = p
      /\ \A i \in 1 .. c : saved[i].type = Sps => PpsComes(now, at, i)
  BY <1>1 DEF Received
<1>9. m \in Nat /\ c <= m /\ m <= c + 1 /\ m = Len(saved')
  BY <1>3
<1>10. /\ Len(q) = m /\ \A i \in 1 .. c : q[i] = at[i]
       /\ m = c + 1 => q[c + 1] = now
  BY <1>7, <1>8, <1>9
<1>11. ASSUME NEW i \in 1 .. m
       PROVE  q[i] \in from .. now + 1 - 1 /\ saved'[i] = NalAt(q[i])
  <2>1. CASE i \in 1 .. c
    <3>1. q[i] = at[i] /\ saved'[i] = saved[i] /\ saved[i] = NalAt(at[i])
      BY <1>4, <1>8, <1>10, <2>1
    <3>2. at[i] \in Nat /\ at[i] < now /\ from <= at[i]
      BY <1>8, <2>1
    <3>3. q[i] \in from .. now + 1 - 1
      BY <3>1, <3>2
    <3> QED BY <3>1, <3>3
  <2>2. CASE m = c + 1 /\ i = c + 1
    BY <1>2, <1>3, <1>8, <1>10, <2>2
  <2> QED BY <1>9, <2>1, <2>2
<1>12. ASSUME NEW i \in 1 .. m, NEW j \in 1 .. m, i < j
       PROVE  q[i] < q[j]
  <2>1. i \in 1 .. c
    BY <1>9, <1>12
  <2>2. CASE j \in 1 .. c
    BY <1>8, <1>10, <1>12, <2>1, <2>2
  <2>3. CASE m = c + 1 /\ j = c + 1
    BY <1>8, <1>10, <2>1, <2>3
  <2> QED BY <1>9, <2>2, <2>3
<1>13. ASSUME NEW p \in from .. now + 1 - 1, IsSlice(NalAt(p))
       PROVE  \E i \in 1 .. m : q[i] = p
  <2>1. CASE p = now
    <3>1. m # c
      BY <1>2, <1>3, <1>13, <2>1
    <3>2. m = c + 1 /\ c + 1 \in 1 .. m
      BY <1>9, <3>1
    <3>3. q[c + 1] = p
      BY <1>10, <2>1, <3>2
    <3> QED BY <3>2, <3>3
  <2>2. CASE p # now
    <3>1. p \in from .. now - 1
      BY <1>8, <2>2
    <3>2. PICK i \in 1 .. c : at[i] = p
      BY <1>8, <1>13, <3>1
    <3>3. i \in 1 .. m
      BY <1>9
    <3>4. q[i] = p
      BY <1>10, <3>2
    <3> QED BY <3>3, <3>4
  <2> QED BY <2>1, <2>2
<1>14. ASSUME NEW i \in 1 .. m, saved'[i].type = Sps
       PROVE  PpsComes(now + 1, q, i)'
  <2>1. CASE i \in 1 .. c
    <3>1. saved[i].type = Sps /\ q[i] = at[i] /\ at[i] \in Nat /\ at[i] < now
      BY <1>4, <1>8, <1>10, <1>14, <2>1
    <3>2. at[i] + 1 # now + 1
      BY <3>1
    <3> SUFFICES ASSUME NalAt(at[i] + 1).type = Pps
                 PROVE  \E k \in 1 .. m : q[k] = at[i] + 1
      BY <1>6, <1>9, <3>1, <3>2 DEF PpsComes
    <3>3. CASE at[i] + 1 = now
      <4>1. start = 1 /\ nal.type = Pps
        BY <1>2, <1>5, <1>8, <2>1, <3>1, <3>3 DEF PpsComes
      <4>2. start' = 1
        BY <1>4, <4>1 DEF Sps, Pps
      <4>3. m # c
        BY <1>3, <4>2
      <4>4. m = c + 1
        BY <1>9, <4>3
      <4>5. c + 1 \in 1 .. m /\ q[c + 1] = at[i] + 1
        BY <1>9, <1>10, <3>3, <4>4
      <4> QED BY <4>5
    <3>4. CASE at[i] + 1 # now
      <4>1. PICK k \in 1 .. c : at[k] = at[i] + 1
        BY <1>1, <1>8, <2>1, <3>1, <3>4 DEF PpsComes
      <4>2. k \in 1 .. m /\ q[k] = at[i] + 1
        BY <1>9, <1>10, <4>1
      <4> QED BY <4>2
    <3> QED BY <3>3, <3>4
  <2>2. CASE m = c + 1 /\ i = c + 1
    <3>1. nal.type = Sps /\ q[i] = now
      BY <1>3, <1>10, <1>14, <2>2
    <3>2. start' = 1
      BY <1>3, <1>4, <2>2, <3>1 DEF IsSlice, MulticastInv
    <3> QED BY <3>1, <3>2 DEF PpsComes
  <2> QED BY <1>9, <2>1, <2>2
<1>15. from <= now + 1 /\ Len(q) = Len(saved')
  BY <1>8, <1>9, <1>10
<1>16. \A i \in 1 .. Len(saved') : q[i] \in from .. now + 1 - 1 /\ saved'[i] = NalAt(q[i])'
  BY <1>6, <1>9, <1>11
<1>17. \A i, j \in 1 .. Len(saved') : i < j => q[i] < q[j]
  BY <1>9, <1>12
<1>18. \A p \in from .. now + 1 - 1 :
         IsSlice(NalAt(p))' => \E i \in 1 .. Len(saved') : q[i] = p
  BY <1>6, <1>9, <1>13 DEF IsSlice
<1>19. \A i \in 1 .. Len(saved') : saved'[i].type = Sps => PpsComes(now + 1, q, i)'
  BY <1>9, <1>14
<1>20. Received(from, now + 1, q)'
  BY <1>15, <1>16, <1>17, <1>18, <1>19 DEF Received
<1> QED BY <1>20

LEMMA RecordGoesOn ==
  ASSUME MulticastInv, Record, NEW now \in Nat, ToCome(now)
  PROVE  ToCome(now + 1)'
<1>1. /\ chan \in Seq(Seq(Nal)) /\ Len(chan) \in Nat \ {0} /\ chan' = Tail(chan)
      /\ file' = file /\ turn' = turn /\ ~closed
  BY RecordOne DEF Record, client
<1>2. PICK c \in Nat : Len(chan) = c + 1
  <2>1. Len(chan) - 1 \in Nat /\ Len(chan) = (Len(chan) - 1) + 1
    BY <1>1
  <2> QED BY <2>1
<1>3. Len(chan') = c /\ \A k \in 1 .. c : chan'[k] = chan[k + 1]
  BY <1>1, <1>2
<1>4. /\ \A k \in 1 .. c + 1 : chan[k] = << NalAt(now + k - 1) >>
      /\ turn = ((now + (c + 1)) % Len(file)) + 1
  BY <1>1, <1>2 DEF ToCome
<1>5. ASSUME NEW k \in 1 .. c
      PROVE  chan'[k] = << NalAt((now + 1) + k - 1)' >>
  <2>1. k + 1 \in 1 .. c + 1 /\ now + (k + 1) - 1 = (now + 1) + k - 1
    OBVIOUS
  <2>2. chan[k + 1] = << NalAt((now + 1) + k - 1) >>
    BY <1>4, <2>1
  <2> QED BY <1>1, <1>3, <2>2, SameFile
<1>6. turn' = (((now + 1) + c) % Len(file')) + 1
  <2>1. now + (c + 1) = (now + 1) + c
    BY <1>2
  <2> QED BY <1>1, <1>4, <2>1
<1> QED BY <1>3, <1>5, <1>6 DEF ToCome

(* The client sends the NAL of the next place *)
LEMMA SendGoesOn ==
  ASSUME MulticastInv, SendHeard, NEW now \in Nat, ToCome(now)
  PROVE  ToCome(now)'
<1>1. /\ chan' = Append(chan, << last' >>) /\ last' = Nals(file)[turn] /\ file' = file
      /\ turn' = (turn % Len(file)) + 1 /\ ~closed
  BY DEF SendHeard, Loop!SendNal, Nals
<1>2. PICK c \in Nat : Len(chan) = c
  BY DEF MulticastInv, SingleNals
<1>3. Len(chan') = c + 1 /\ \A k \in 1 .. c : chan'[k] = chan[k]
  BY <1>1, <1>2 DEF MulticastInv, SingleNals
<1>4. chan'[c + 1] = << last' >>
  BY <1>1, <1>2 DEF MulticastInv, SingleNals
<1>5. /\ \A k \in 1 .. c : chan[k] = << NalAt(now + k - 1) >>
      /\ turn = ((now + c) % Len(file)) + 1
  BY <1>1, <1>2 DEF ToCome
<1>6. last' = NalAt(now + c)
  BY <1>1, <1>5 DEF NalAt
<1>7. ASSUME NEW k \in 1 .. c + 1
      PROVE  chan'[k] = << NalAt(now + k - 1)' >>
  <2>1. CASE k \in 1 .. c
    BY <1>1, <1>3, <1>5, <2>1, SameFile
  <2>2. CASE k = c + 1
    <3>1. now + k - 1 = now + c
      BY <2>2
    <3> QED BY <1>1, <1>4, <1>6, <2>2, <3>1, SameFile
  <2> QED BY <2>1, <2>2
<1>8. turn' = ((now + (c + 1)) % Len(file')) + 1
  <2>1. PICK x \in Nat : x = now + c
    OBVIOUS
  <2>2. (((x % Len(file)) + 1) % Len(file)) + 1 = ((x + 1) % Len(file)) + 1
    BY NextTurn
  <2>3. now + (c + 1) = x + 1
    BY <2>1
  <2> QED BY <1>1, <1>5, <2>1, <2>2, <2>3
<1> QED BY <1>3, <1>7, <1>8 DEF ToCome

(* Before the join the client may stand anywhere: the places start there *)
NothingHeard ==
  /\ file \in Seq(Nat) /\ Len(file) \in Nat \ {0} /\ turn \in 1 .. Len(file)
  /\ chan = << >> /\ saved = << >>

LEMMA PlacesStart == NothingHeard => HasPlaces
<1> SUFFICES ASSUME NothingHeard PROVE HasPlaces
  OBVIOUS
<1> USE DEF NothingHeard
<1>1. PICK t \in Nat : t = turn - 1 /\ t \in 0 .. Len(file) - 1
  OBVIOUS
<1>2. PICK m \in Nat \ {0} : m = Len(file)
  OBVIOUS
<1>3. turn = ((t + Len(chan)) % Len(file)) + 1
  <2>1. t \in 0 .. m - 1
    BY <1>1, <1>2
  <2>2. t % m = t
    BY <2>1, SmallMod
  <2>3. turn = t + 1
    BY <1>1
  <2>4. Len(chan) = 0 /\ t + 0 = t
    OBVIOUS
  <2> QED BY <1>2, <2>2, <2>3, <2>4
<1>4. Received(t, t, << >>)
  BY DEF Received
<1>5. ToCome(t)
  BY <1>3 DEF ToCome
<1>6. << >> \in Seq(Nat)
  OBVIOUS
<1> QED BY <1>4, <1>5, <1>6 DEF HasPlaces

LEMMA PlacesStartNext == NothingHeard' => HasPlaces'
BY PlacesStart, PTL

LEMMA HeardInit == Init => HeardInv
<1> SUFFICES ASSUME Init PROVE HeardInv
  OBVIOUS
<1>1. file \in Seq(Nat) /\ Len(file) \in Nat \ {0}
  BY FileAssumption, EmptySeq DEF Init
<1>2. HasPlaces
  BY <1>1, PlacesStart DEF Init, Loop!Init, NothingHeard
<1> QED BY <1>2 DEF HeardInv, Init

LEMMA HeardNext == MulticastInv /\ HeardInv /\ [Next]_vars => HeardInv'
<1> SUFFICES ASSUME MulticastInv, HeardInv, [Next]_vars PROVE HeardInv'
  OBVIOUS
<1>1. CASE SendUnheard /\ ~joined
  <2>1. last' \in Nal /\ turn' \in 1 .. Len(file) /\ file' = file
    BY <1>1, SentNal DEF SendUnheard
  <2>2. /\ chan' = << >> /\ saved' = << >> /\ drops' = drops /\ joined' = joined
        /\ file' \in Seq(Nat) /\ Len(file') \in Nat \ {0} /\ turn' \in 1 .. Len(file')
    BY <1>1, <2>1, PlaceFacts DEF SendUnheard, server, HeardInv
  <2>3. HasPlaces'
    BY <2>2, PlacesStartNext DEF NothingHeard
  <2> QED BY <1>1, <2>2, <2>3 DEF HeardInv
<1>2. CASE SendUnheard /\ joined
  <2>1. /\ file' = file /\ saved' = saved /\ start' = start /\ closed' = closed
        /\ closed /\ drops' = drops /\ joined' = joined /\ joined
    BY <1>2, SentNal DEF SendUnheard, server
  <2>2. ASSUME drops = 0 PROVE HasPlaces'
    <3>1. PICK from, now \in Nat, at \in Seq(Nat) : Received(from, now, at) /\ ToCome(now)
      BY <2>2 DEF HeardInv, HasPlaces
    <3>2. Received(from, now, at)' /\ ToCome(now)'
      BY <2>1, <3>1, NextKeeps DEF ToCome
    <3> QED BY <3>2 DEF HasPlaces
  <2> QED BY <2>1, <2>2 DEF HeardInv
<1>3. CASE SendHeard
  <2>1. /\ file' = file /\ saved' = saved /\ start' = start /\ closed' = closed
        /\ drops' = drops /\ joined' = joined /\ joined
    BY <1>3, SentNal DEF SendHeard, server
  <2>2. ASSUME drops = 0 PROVE HasPlaces'
    <3>1. PICK from, now \in Nat, at \in Seq(Nat) : Received(from, now, at) /\ ToCome(now)
      BY <2>2 DEF HeardInv, HasPlaces
    <3>2. Received(from, now, at)' /\ ToCome(now)'
      BY <1>3, <2>1, <3>1, NextKeeps, SendGoesOn
    <3> QED BY <3>2 DEF HasPlaces
  <2> QED BY <2>1, <2>2 DEF HeardInv
<1>4. CASE SendLost
  BY <1>4 DEF SendLost, HeardInv, server
<1>5. CASE Join
  <2>1. /\ file' = file /\ turn' = turn /\ saved' = saved /\ start' = start
        /\ closed' = closed /\ drops' = drops /\ joined' /\ chan' = chan
    BY <1>5 DEF Join, client
  <2>2. ASSUME drops = 0 PROVE HasPlaces'
    <3>1. PICK from, now \in Nat, at \in Seq(Nat) : Received(from, now, at) /\ ToCome(now)
      BY <2>2 DEF HeardInv, HasPlaces
    <3>2. Received(from, now, at)' /\ ToCome(now)'
      BY <2>1, <3>1, NextKeeps, SameFile DEF ToCome
    <3> QED BY <3>2 DEF HasPlaces
  <2> QED BY <2>1, <2>2 DEF HeardInv
<1>6. CASE Record
  <2>1. drops' = drops /\ joined' = joined /\ joined
    BY <1>6 DEF Record
  <2>2. ASSUME drops = 0 PROVE HasPlaces'
    <3>1. PICK from, now \in Nat, at \in Seq(Nat) : Received(from, now, at) /\ ToCome(now)
      BY <2>2 DEF HeardInv, HasPlaces
    <3>2. PICK q \in Seq(Nat) : Received(from, now + 1, q)'
      BY <1>6, <3>1, RecordKeepsPlaces
    <3>3. ToCome(now + 1)' /\ now + 1 \in Nat
      BY <1>6, <3>1, RecordGoesOn
    <3> QED BY <3>2, <3>3 DEF HasPlaces
  <2> QED BY <2>1, <2>2 DEF HeardInv
<1>7. CASE Finish
  <2>1. /\ file' = file /\ saved' = saved /\ closed' /\ drops' = drops /\ joined' = joined
        /\ joined
    BY <1>7 DEF Finish, client
  <2>2. ASSUME drops = 0 PROVE HasPlaces'
    <3>1. PICK from, now \in Nat, at \in Seq(Nat) : Received(from, now, at) /\ ToCome(now)
      BY <2>2 DEF HeardInv, HasPlaces
    <3>2. \A i : PpsComes(now, at, i) => PpsComes(now, at, i)'
      BY <2>1, SameFile DEF PpsComes
    <3>3. Received(from, now, at)' /\ ToCome(now)'
      BY <2>1, <3>1, <3>2, SameFile DEF Received, ToCome, IsSlice
    <3> QED BY <3>3 DEF HasPlaces
  <2> QED BY <2>1, <2>2 DEF HeardInv
<1>8. CASE UNCHANGED vars
  <2>1. /\ file' = file /\ turn' = turn /\ saved' = saved /\ start' = start
        /\ closed' = closed /\ drops' = drops /\ joined' = joined /\ chan' = chan
    BY <1>8 DEF vars, client, server
  <2>2. ASSUME drops = 0 PROVE HasPlaces'
    <3>1. PICK from, now \in Nat, at \in Seq(Nat) : Received(from, now, at) /\ ToCome(now)
      BY <2>2 DEF HeardInv, HasPlaces
    <3>2. Received(from, now, at)' /\ ToCome(now)'
      BY <2>1, <3>1, NextKeeps, SameFile DEF ToCome
    <3> QED BY <3>2 DEF HasPlaces
  <2> QED BY <2>1, <2>2 DEF HeardInv
<1> QED BY <1>1, <1>2, <1>3, <1>4, <1>5, <1>6, <1>7, <1>8 DEF Next, Client, Server

LEMMA HeardHolds == Spec => []HeardInv
<1> QED BY InvHolds, HeardInit, HeardNext, PTL DEF Spec

-----------------------------------------------------------------------------
(* The NAL k places on *)
LEMMA AheadFacts ==
  ASSUME MulticastInv, NEW p \in Nat, NEW k \in Nat \ {0}
  PROVE  Ahead(NalAt(p), k) = NalAt(p + k)
<1>1. PICK m \in Nat \ {0} : m = Len(file)
  BY PlaceFacts
<1>2. PICK r \in Nat : r = p % m
  BY <1>1, SmallMod
<1>3. NalAt(p).nr = r + 1
  BY <1>1, <1>2, PlaceFacts
<1>4. r + 1 + k - 1 = r + k
  BY <1>2
<1>5. (r + k) % m = (p + k) % m
  BY <1>2, ModAdd
<1> QED BY <1>1, <1>3, <1>4, <1>5 DEF Ahead, NalAt

(* The file comes round *)
LEMMA NalComesRound ==
  ASSUME MulticastInv, NEW p \in Nat
  PROVE  NalAt(p + Len(file)) = NalAt(p)
<1>1. PICK m \in Nat \ {0} : m = Len(file)
  BY PlaceFacts
<1>2. PICK q \in Nat, r \in 0 .. m - 1 : p = m * q + r /\ p % m = r
  BY Division
<1>3. (p + m) % m = r /\ p % m = r
  <2>1. PICK s \in Nat : s = q + 1
    OBVIOUS
  <2>2. m * s = m * q + m
    BY <2>1
  <2>3. p + m = m * s + r
    BY <1>2, <2>2
  <2> QED BY <1>2, <2>3, ModOfSum
<1> QED BY <1>1, <1>3 DEF NalAt

(* Two slices saved one after the other: none of the NALs between them is a *)
(* slice, for it would have been saved, and so they are at most one round  *)
(* apart.                                                                  *)
LEMMA PlacesLeaveNoGap ==
  ASSUME MulticastInv, NEW from \in Nat, NEW now \in Nat, NEW at \in Seq(Nat),
         Received(from, now, at),
         NEW i \in 1 .. Len(saved), NEW j \in 1 .. Len(saved), i < j,
         IsSlice(saved[i]), IsSlice(saved[j]),
         \A k \in i + 1 .. j - 1 : ~IsSlice(saved[k])
  PROVE  IsNextSlice(saved[i], saved[j])
<1>1. PICK c \in Nat : c = Len(saved)
  BY DEF MulticastInv, SpsSeen
<1>2. PICK m \in Nat \ {0} : m = Len(file)
  BY PlaceFacts
<1>3. PICK p \in Nat, q \in Nat : p = at[i] /\ q = at[j]
  BY <1>1 DEF Received
<1>4. p < q /\ from <= p /\ q < now /\ saved[i] = NalAt(p) /\ saved[j] = NalAt(q)
  <2>1. \A k \in 1 .. Len(saved) : at[k] \in from .. now - 1 /\ saved[k] = NalAt(at[k])
    BY DEF Received
  <2>2. \A k, l \in 1 .. Len(saved) : k < l => at[k] < at[l]
    BY DEF Received
  <2>3. p \in from .. now - 1 /\ saved[i] = NalAt(p)
    BY <1>3, <2>1
  <2>4. q \in from .. now - 1 /\ saved[j] = NalAt(q)
    BY <1>3, <2>1
  <2>5. p < q
    BY <1>3, <2>2
  <2> QED BY <2>3, <2>4, <2>5
<1>5. ASSUME NEW x \in p + 1 .. q - 1
      PROVE  ~IsSlice(NalAt(x))
  <2> SUFFICES ASSUME IsSlice(NalAt(x))
               PROVE  FALSE
    OBVIOUS
  <2>1. x \in from .. now - 1
    BY <1>4
  <2>2. PICK k \in 1 .. c : at[k] = x
    BY <1>1, <2>1 DEF Received
  <2>3. ~(k <= i)
    <3>1. k = i => at[k] = p
      BY <1>3
    <3>2. k < i => at[k] < p
      BY <1>1, <1>3, <2>2 DEF Received
    <3> QED BY <1>1, <1>3, <2>2, <3>1, <3>2
  <2>4. ~(k >= j)
    <3>1. k = j => at[k] = q
      BY <1>3
    <3>2. j < k => q < at[k]
      BY <1>1, <1>3, <2>2 DEF Received
    <3> QED BY <1>1, <1>3, <2>2, <3>1, <3>2
  <2>5. k \in i + 1 .. j - 1
    BY <1>1, <2>2, <2>3, <2>4
  <2>6. saved[k] = NalAt(x)
    BY <1>1, <2>2 DEF Received
  <2> QED BY <2>5, <2>6
<1>6. PICK d \in Nat \ {0} : q = p + d
  <2>1. q - p \in Nat \ {0} /\ q = p + (q - p)
    BY <1>4
  <2> QED BY <2>1
<1>7. d <= m
  <2> SUFFICES ASSUME ~(d <= m)
               PROVE  FALSE
    OBVIOUS
  <2>1. p + m \in p + 1 .. q - 1
    BY <1>6
  <2>2. NalAt(p + m) = NalAt(p)
    BY <1>2, NalComesRound
  <2> QED BY <1>4, <1>5, <2>1, <2>2
<1>8. saved[j] = Ahead(saved[i], d)
  BY <1>4, <1>6, AheadFacts
<1>9. ASSUME NEW k \in 1 .. d - 1
      PROVE  ~IsSlice(Ahead(saved[i], k))
  <2>1. k \in Nat \ {0} /\ p + k \in p + 1 .. q - 1
    BY <1>6
  <2>2. Ahead(saved[i], k) = NalAt(p + k)
    BY <1>4, <2>1, AheadFacts
  <2> QED BY <1>5, <2>1, <2>2
<1>10. d \in 1 .. Len(file)
  BY <1>2, <1>7
<1> QED BY <1>8, <1>9, <1>10 DEF IsNextSlice

(* Without a loss the slices saved are the ones sent, in their order and    *)
(* without a gap from the first one on, over the end of the file too: for   *)
(* every file, limit and size of the receive buffer, server.c:142-160.     *)
THEOREM SlicesSavedWithoutGap == Spec => []SlicesWithoutGap
<1>1. MulticastInv /\ HeardInv => SlicesWithoutGap
  <2> SUFFICES ASSUME MulticastInv, HeardInv, drops = 0,
                      NEW i \in 1 .. Len(saved), NEW j \in 1 .. Len(saved), i < j,
                      IsSlice(saved[i]), IsSlice(saved[j]),
                      \A k \in i + 1 .. j - 1 : ~IsSlice(saved[k])
               PROVE  IsNextSlice(saved[i], saved[j])
    BY DEF SlicesWithoutGap
  <2>1. PICK from, now \in Nat, at \in Seq(Nat) : Received(from, now, at)
    BY DEF HeardInv, HasPlaces
  <2> QED BY <2>1, PlacesLeaveNoGap
<1> QED BY <1>1, InvHolds, HeardHolds, PTL

(* Without a loss, slices that follow the SPS in the saved file have a PPS  *)
(* before them, if every SPS of the file sent is followed by a PPS (the     *)
(* first NAL follows the last): the PPS after the first SPS is received     *)
(* while start is 1, server.c:142-153.                                     *)
THEOREM SavedIsDecodable ==
  ASSUME \A f \in Files : \A i \in 1 .. Len(f) :
           f[i] = Sps => f[(i % Len(f)) + 1] = Pps
  PROVE  Spec => []Decodable
<1>1. MulticastInv /\ HeardInv => Decodable
  <2> SUFFICES ASSUME MulticastInv, HeardInv, drops = 0,
                      NEW i \in 1 .. Len(saved), NEW j \in 1 .. Len(saved), i < j,
                      saved[i].type = Sps
               PROVE  \E k \in 1 .. j : saved[k].type = Pps
    BY DEF Decodable
  <2>1. PICK from, now \in Nat, at \in Seq(Nat) : Received(from, now, at)
    BY DEF HeardInv, HasPlaces
  <2>2. PICK c \in Nat : c = Len(saved)
    BY DEF MulticastInv, SpsSeen
  <2>3. PICK m \in Nat \ {0} : m = Len(file) /\ file \in Files
    BY PlaceFacts DEF MulticastInv
  <2>4. PICK p \in Nat, q \in Nat : p = at[i] /\ q = at[j]
    BY <2>1, <2>2 DEF Received
  <2>5. p < q /\ q < now /\ saved[i] = NalAt(p)
    BY <2>1, <2>2, <2>4 DEF Received
  <2>6. PICK r \in 1 .. m : r = (p % m) + 1
    <3>1. p % m \in 0 .. m - 1
      BY SmallMod
    <3> QED BY <3>1
  <2>7. file[r] = Sps
    BY <2>3, <2>5, <2>6, TypeAt
  <2>8. file[(r % m) + 1] = Pps
    BY <2>3, <2>7
  <2>9. NalAt(p + 1).type = Pps
    <3>1. (r % m) + 1 = ((p + 1) % m) + 1
      BY <2>3, <2>6, NextTurn
    <3> QED BY <2>3, <2>8, <3>1, TypeAt
  <2>10. PpsComes(now, at, i)
    BY <2>1, <2>2 DEF Received
  <2>11. PICK k \in 1 .. c : at[k] = p + 1
    BY <2>2, <2>4, <2>5, <2>9, <2>10 DEF PpsComes
  <2>12. saved[k] = NalAt(p + 1)
    BY <2>1, <2>2, <2>11 DEF Received
  <2>13. ~(j < k)
    <3>1. j < k => q < p + 1
      BY <2>1, <2>2, <2>4, <2>11 DEF Received
    <3> QED BY <2>5, <3>1
  <2>14. k \in 1 .. j
    BY <2>2, <2>11, <2>13
  <2> QED BY <2>9, <2>12, <2>14
<1> QED BY <1>1, InvHolds, HeardHolds, PTL

-----------------------------------------------------------------------------
(***************************************************************************)
(* NalPump, the client.  The bytes of a file are laid out NAL after NAL at *)
(* offsets (Laid); as the file is sent over and over, count them for ever  *)
(* (ByteAt).  Start codes are where NALs start and nowhere else (CodeAt).  *)
(***************************************************************************)
LEMMA StartCodeFacts ==
  /\ StartCode \in Seq(Byte) /\ Len(StartCode) = 2 /\ Code = 2
  /\ StartCode[1] = Zero /\ StartCode[2] = One /\ Zero # One
<1>1. Zero \in Byte /\ One \in Byte /\ Zero # One
  BY DEF Zero, One, Byte
<1> QED BY <1>1 DEF StartCode, Code

(* No start code begins at byte k of a NAL, in it or over its end *)
CodeFreeAt(nal, k) == nal[k] = Zero => k < Len(nal) /\ nal[k + 1] # One

LEMMA H264NalFacts ==
  ASSUME NEW f \in H264Files
  PROVE  /\ f \in Seq(Seq(Byte)) /\ Len(f) \in Nat \ {0}
         /\ \A i \in 1 .. Len(f) :
              /\ H264Nals(f)[i] \in Seq(Byte)
              /\ Len(H264Nals(f)[i]) \in Nat /\ Len(H264Nals(f)[i]) >= 3
              /\ H264Nals(f)[i][1] = Zero /\ H264Nals(f)[i][2] = One
              /\ \A k \in 2 .. Len(H264Nals(f)[i]) : CodeFreeAt(H264Nals(f)[i], k)
<1>1. f \in Seq(Seq(Byte)) /\ f # << >>
  BY NalAssumption
<1>2. Len(f) \in Nat \ {0}
  BY <1>1, EmptySeq
<1>3. ASSUME NEW i \in 1 .. Len(f)
      PROVE  /\ H264Nals(f)[i] \in Seq(Byte)
             /\ Len(H264Nals(f)[i]) \in Nat /\ Len(H264Nals(f)[i]) >= 3
             /\ H264Nals(f)[i][1] = Zero /\ H264Nals(f)[i][2] = One
             /\ \A k \in 2 .. Len(H264Nals(f)[i]) : CodeFreeAt(H264Nals(f)[i], k)
  <2>1. PICK s \in Seq(Byte) : s = f[i]
    BY <1>1, ElementOfSeq
  <2>2. PICK l \in Nat \ {0} : l = Len(s)
    BY <2>1, EmptySeq, NalAssumption DEF HoldsNoCode
  <2>3. s[l] # Zero /\ \A k \in 1 .. l - 1 : ~(s[k] = Zero /\ s[k + 1] = One)
    BY <2>1, <2>2, NalAssumption DEF HoldsNoCode
  <2>4. PICK t \in Seq(Byte) : t = StartCode
    BY StartCodeFacts
  <2>5. PICK u : u = H264Nals(f)[i] /\ u = t \o s
    BY <2>1, <2>4 DEF H264Nals
  <2>6. Len(t) = 2 /\ t[1] = Zero /\ t[2] = One
    BY <2>4, StartCodeFacts
  <2>7. /\ u \in Seq(Byte) /\ Len(u) = Len(t) + Len(s)
        /\ \A k \in 1 .. Len(t) + Len(s) : u[k] = IF k <= Len(t) THEN t[k] ELSE s[k - Len(t)]
    BY <2>5, ConcatProperties
  <2>8. Len(u) = l + 2 /\ \A k \in 1 .. l + 2 : u[k] = IF k <= 2 THEN t[k] ELSE s[k - 2]
    BY <2>2, <2>6, <2>7
  <2>9. Len(u) \in Nat /\ Len(u) >= 3 /\ u[1] = Zero /\ u[2] = One
    BY <2>6, <2>8
  <2>10. ASSUME NEW k \in 2 .. Len(u)
         PROVE  CodeFreeAt(u, k)
    <3>1. CASE k = 2
      BY <2>9, <3>1, StartCodeFacts DEF CodeFreeAt
    <3>2. CASE k # 2
      <4>1. PICK j \in 1 .. l : j = k - 2 /\ k = j + 2
        BY <2>8, <3>2
      <4>2. u[k] = s[j]
        BY <2>8, <4>1
      <4>3. j # l => k < Len(u) /\ u[k + 1] = s[j + 1]
        <5>1. j # l => k + 1 \in 1 .. l + 2 /\ ~(k + 1 <= 2) /\ k + 1 - 2 = j + 1
          BY <4>1
        <5> QED BY <2>8, <4>1, <5>1
      <4>4. j # l => j \in 1 .. l - 1
        BY <4>1
      <4> QED BY <2>3, <4>2, <4>3, <4>4 DEF CodeFreeAt
    <3> QED BY <3>1, <3>2
  <2> QED BY <2>5, <2>7, <2>9, <2>10
<1> QED BY <1>1, <1>2, <1>3

(* The bytes up to NAL i, for every i *)
LaidUpTo(f, up) ==
  /\ up \in [0 .. Len(f) -> Seq(Byte)]
  /\ up[0] = << >>
  /\ \A i \in 1 .. Len(f) : up[i] = up[i - 1] \o H264Nals(f)[i]
  /\ up[Len(f)] = Bytes(f)

UpToIs(f, up) ==
  up = [i \in 0 .. Len(f) |-> IF i = 0 THEN << >> ELSE up[i - 1] \o H264Nals(f)[i]]

LEMMA BytesLaidUpTo ==
  ASSUME NEW f \in H264Files
  PROVE  \E up : LaidUpTo(f, up)
<1>1. PICK L \in Nat \ {0} : L = Len(f)
  BY H264NalFacts
<1> DEFINE g == [p \in Seq(Byte) \X Nat |->
                   IF p[2] \in 1 .. L THEN p[1] \o H264Nals(f)[p[2]] ELSE p[1]]
<1>2. \A i \in 1 .. L : H264Nals(f)[i] \in Seq(Byte)
  BY <1>1, H264NalFacts
<1>3. ASSUME NEW q \in Seq(Byte), NEW i \in Nat
      PROVE  (IF i \in 1 .. L THEN q \o H264Nals(f)[i] ELSE q) \in Seq(Byte)
  BY <1>2, ConcatProperties
<1>4. g \in [Seq(Byte) \X Nat -> Seq(Byte)]
  BY <1>3
<1>5. \A q \in Seq(Byte), i \in Nat :
        g[<<q, i>>] = IF i \in 1 .. L THEN q \o H264Nals(f)[i] ELSE q
  OBVIOUS
<1> HIDE DEF g
<1>6. << >> \in Seq(Byte)
  BY EmptySeq
<1>7. PICK r \in [Nat -> Seq(Byte)] : GoesOn(r, << >>, g)
  BY <1>4, <1>6, Recursion
<1>8. ASSUME NEW i \in 0 .. L, i # 0
      PROVE  r[i] = r[i - 1] \o H264Nals(f)[i]
  <2>1. i - 1 \in Nat /\ i - 1 + 1 = i /\ i \in 1 .. L /\ i \in Nat
    BY <1>8
  <2>2. r[i] = g[<<r[i - 1], i>>] /\ r[i - 1] \in Seq(Byte)
    BY <1>7, <2>1 DEF GoesOn
  <2> QED BY <1>5, <2>1, <2>2
<1> DEFINE w == [i \in 0 .. L |-> r[i]]
<1>9. \A i \in 0 .. L : w[i] = r[i] /\ (i # 0 => w[i - 1] = r[i - 1])
  OBVIOUS
<1>10. r[0] = << >>
  BY <1>7 DEF GoesOn
<1>11. w = [i \in 0 .. L |-> IF i = 0 THEN << >> ELSE w[i - 1] \o H264Nals(f)[i]]
  <2>1. ASSUME NEW i \in 0 .. L
        PROVE  w[i] = IF i = 0 THEN << >> ELSE w[i - 1] \o H264Nals(f)[i]
    BY <1>8, <1>9, <1>10
  <2> QED BY <2>1
<1> HIDE DEF w
<1>12. UpToIs(f, w)
  BY <1>1, <1>11 DEF UpToIs
<1>13. PICK v : v = (CHOOSE up : UpToIs(f, up)) /\ UpToIs(f, v)
  BY <1>12
<1>14. Bytes(f) = v[Len(f)]
  BY <1>13 DEF Bytes, UpToIs
<1>15. v = [i \in 0 .. L |-> IF i = 0 THEN << >> ELSE v[i - 1] \o H264Nals(f)[i]]
  BY <1>1, <1>13 DEF UpToIs
<1>16. v[0] = << >> /\ \A i \in 1 .. L : v[i] = v[i - 1] \o H264Nals(f)[i]
  <2>1. ASSUME NEW i \in 0 .. L
        PROVE  v[i] = IF i = 0 THEN << >> ELSE v[i - 1] \o H264Nals(f)[i]
    BY <1>15
  <2>2. 0 \in 0 .. L
    OBVIOUS
  <2>3. v[0] = << >>
    BY <2>1, <2>2
  <2>4. ASSUME NEW i \in 1 .. L
        PROVE  v[i] = v[i - 1] \o H264Nals(f)[i]
    <3>1. i \in 0 .. L /\ i # 0
      OBVIOUS
    <3> QED BY <2>1, <3>1
  <2> QED BY <2>3, <2>4
<1> DEFINE T == {i \in Nat : i <= L => v[i] \in Seq(Byte)}
<1>17. 0 \in T
  BY <1>6, <1>16
<1>18. ASSUME NEW i \in Nat, i \in T
       PROVE  i + 1 \in T
  <2> SUFFICES ASSUME i + 1 <= L
               PROVE  v[i + 1] \in Seq(Byte)
    OBVIOUS
  <2>1. PICK j \in 1 .. L : j = i + 1 /\ j - 1 = i /\ v[i] \in Seq(Byte)
    BY <1>18
  <2>2. v[j] = v[j - 1] \o H264Nals(f)[j]
    BY <1>16
  <2>3. v[j] = v[i] \o H264Nals(f)[j] /\ H264Nals(f)[j] \in Seq(Byte)
    BY <1>2, <2>1, <2>2
  <2>4. v[j] \in Seq(Byte)
    BY <2>1, <2>3, ConcatProperties
  <2> QED BY <2>1, <2>4
<1>19. Nat \subseteq T
  BY <1>17, <1>18, SetInduction
<1>20. \A i \in 0 .. L : v[i] \in Seq(Byte)
  BY <1>19
<1>21. v \in [0 .. L -> Seq(Byte)]
  BY <1>15, <1>20
<1> QED BY <1>1, <1>14, <1>16, <1>21 DEF LaidUpTo

Laid(f, off) ==
  /\ off \in [0 .. Len(f) -> Nat]
  /\ off[0] = 0 /\ off[Len(f)] = Len(Bytes(f))
  /\ \A i \in 1 .. Len(f) :
       /\ off[i] = off[i - 1] + Len(H264Nals(f)[i]) /\ off[i] <= Len(Bytes(f))
       /\ \A k \in 1 .. Len(H264Nals(f)[i]) : Bytes(f)[off[i - 1] + k] = H264Nals(f)[i][k]

Offsets(f) == CHOOSE off : Laid(f, off)

(* Appending a NAL *)
LEMMA AppendedNal ==
  ASSUME NEW s \in Seq(Byte), NEW t \in Seq(Byte), NEW u, u = s \o t,
         NEW x \in Nat, x = Len(s), NEW y \in Nat, y = Len(t)
  PROVE  /\ Len(u) = x + y
         /\ \A k \in 1 .. x : u[k] = s[k]
         /\ \A k \in 1 .. y : u[x + k] = t[k]
<1>1. /\ Len(u) = Len(s) + Len(t)
      /\ \A k \in 1 .. Len(s) + Len(t) : u[k] = IF k <= Len(s) THEN s[k] ELSE t[k - Len(s)]
  BY ConcatProperties
<1>2. Len(u) = x + y /\ \A k \in 1 .. x + y : u[k] = IF k <= x THEN s[k] ELSE t[k - x]
  BY <1>1
<1>3. \A k \in 1 .. y : x + k \in 1 .. x + y /\ ~(x + k <= x) /\ x + k - x = k
  OBVIOUS
<1>4. \A k \in 1 .. y : u[x + k] = t[k]
  BY <1>2, <1>3
<1> QED BY <1>2, <1>4

(* What was laid out stays where it is *)
LEMMA LaidOutStays ==
  ASSUME NEW f \in H264Files, NEW up, LaidUpTo(f, up), NEW i \in 0 .. Len(f)
  PROVE  /\ Len(up[i]) <= Len(Bytes(f))
         /\ \A k \in 1 .. Len(up[i]) : Bytes(f)[k] = up[i][k]
<1>1. PICK L \in Nat \ {0} : L = Len(f)
  BY H264NalFacts
<1>2. /\ \A j \in 0 .. L : up[j] \in Seq(Byte)
      /\ \A j \in 1 .. L : up[j] = up[j - 1] \o H264Nals(f)[j]
      /\ up[L] = Bytes(f)
  BY <1>1 DEF LaidUpTo
<1>3. PICK x \in Nat, s \in Seq(Byte) : x = Len(up[i]) /\ s = up[i]
  BY <1>1, <1>2
<1> DEFINE T == {d \in Nat : i + d <= L => /\ x <= Len(up[i + d])
                                          /\ \A k \in 1 .. x : up[i + d][k] = s[k]}
<1>4. 0 \in T
  <2>1. i + 0 = i /\ x <= x
    BY <1>1
  <2> QED BY <1>3, <2>1
<1>5. ASSUME NEW d \in Nat, d \in T
      PROVE  d + 1 \in T
  <2> SUFFICES ASSUME i + (d + 1) <= L
               PROVE  x <= Len(up[i + (d + 1)]) /\ \A k \in 1 .. x : up[i + (d + 1)][k] = s[k]
    OBVIOUS
  <2>1. PICK j \in 0 .. L : j = i + d
    BY <1>1
  <2>2. PICK m \in 1 .. L : m = i + (d + 1) /\ m - 1 = j
    BY <1>1, <2>1
  <2>3. x <= Len(up[j]) /\ \A k \in 1 .. x : up[j][k] = s[k]
    BY <1>5, <2>1
  <2>4. PICK t \in Seq(Byte), w \in Seq(Byte) : t = up[j] /\ w = H264Nals(f)[m]
    BY <1>1, <1>2, H264NalFacts
  <2>5. PICK y \in Nat, z \in Nat : y = Len(t) /\ z = Len(w)
    OBVIOUS
  <2>6. up[m] = t \o w
    BY <1>2, <2>2, <2>4
  <2>7. Len(up[m]) = y + z /\ \A k \in 1 .. y : up[m][k] = t[k]
    BY <2>5, <2>6, AppendedNal
  <2>8. x <= y
    BY <2>3, <2>4, <2>5
  <2>9. x <= Len(up[m]) /\ \A k \in 1 .. x : up[m][k] = s[k]
    BY <2>3, <2>4, <2>7, <2>8
  <2> QED BY <2>2, <2>9
<1>6. Nat \subseteq T
  BY <1>4, <1>5, SetInduction
<1>7. PICK d \in Nat : i + d = L
  <2>1. L - i \in Nat /\ i + (L - i) = L
    BY <1>1
  <2> QED BY <2>1
<1>8. d \in T
  BY <1>6
<1>9. x <= Len(up[L]) /\ \A k \in 1 .. x : up[L][k] = s[k]
  BY <1>7, <1>8
<1> QED BY <1>2, <1>3, <1>9

LEMMA BytesLaid ==
  ASSUME NEW f \in H264Files
  PROVE  Laid(f, Offsets(f))
<1>1. PICK L \in Nat \ {0} : L = Len(f)
  BY H264NalFacts
<1>2. PICK up : LaidUpTo(f, up)
  BY BytesLaidUpTo
<1>3. /\ \A j \in 0 .. L : up[j] \in Seq(Byte)
      /\ \A j \in 1 .. L : up[j] = up[j - 1] \o H264Nals(f)[j]
      /\ up[L] = Bytes(f) /\ up[0] = << >>
  BY <1>1, <1>2 DEF LaidUpTo
<1>4. PICK off : off = [j \in 0 .. L |-> Len(up[j])]
  OBVIOUS
<1>5. off \in [0 .. L -> Nat] /\ \A j \in 0 .. L : off[j] = Len(up[j])
  BY <1>3, <1>4
<1>6. off[0] = 0 /\ off[L] = Len(Bytes(f))
  <2>1. 0 \in 0 .. L /\ L \in 0 .. L /\ Len(<< >>) = 0
    OBVIOUS
  <2> QED BY <1>3, <1>5, <2>1
<1>7. ASSUME NEW i \in 1 .. L
      PROVE  /\ off[i] = off[i - 1] + Len(H264Nals(f)[i]) /\ off[i] <= Len(Bytes(f))
             /\ \A k \in 1 .. Len(H264Nals(f)[i]) :
                  Bytes(f)[off[i - 1] + k] = H264Nals(f)[i][k]
  <2>1. PICK j \in 0 .. L : j = i - 1
    OBVIOUS
  <2>2. PICK t \in Seq(Byte), w \in Seq(Byte) : t = up[j] /\ w = H264Nals(f)[i]
    BY <1>1, <1>3, H264NalFacts
  <2>3. PICK y \in Nat, z \in Nat : y = Len(t) /\ z = Len(w)
    OBVIOUS
  <2>4. PICK u \in Seq(Byte) : u = up[i] /\ u = t \o w
    <3>1. i \in 0 .. L
      OBVIOUS
    <3>2. up[i] \in Seq(Byte)
      BY <1>3, <3>1
    <3>3. up[i] = up[i - 1] \o H264Nals(f)[i]
      BY <1>3
    <3>4. up[i] = t \o w
      BY <2>1, <2>2, <3>3, Zenon
    <3> QED BY <3>2, <3>4
  <2>5. Len(u) = y + z /\ \A k \in 1 .. z : u[y + k] = w[k]
    BY <2>3, <2>4, AppendedNal
  <2>6. i \in 0 .. L /\ off[i] = y + z /\ off[j] = y
    <3>1. i \in 0 .. L
      OBVIOUS
    <3>2. off[i] = Len(up[i]) /\ off[j] = Len(up[j])
      BY <1>5, <3>1
    <3> QED BY <2>2, <2>3, <2>4, <2>5, <3>1, <3>2, Zenon
  <2>7. off[i] <= Len(Bytes(f)) /\ \A k \in 1 .. y + z : Bytes(f)[k] = u[k]
    <3>1. Len(up[i]) <= Len(Bytes(f)) /\ \A k \in 1 .. Len(up[i]) : Bytes(f)[k] = up[i][k]
      BY <1>1, <1>2, <2>6, LaidOutStays
    <3> QED BY <2>4, <2>5, <2>6, <3>1
  <2>8. \A k \in 1 .. z : y + k \in 1 .. y + z
    OBVIOUS
  <2>9. \A k \in 1 .. z : Bytes(f)[y + k] = w[k]
    BY <2>5, <2>7, <2>8
  <2> QED BY <2>1, <2>2, <2>3, <2>6, <2>7, <2>9
<1>8. Laid(f, off)
  BY <1>1, <1>5, <1>6, <1>7 DEF Laid
<1> QED BY <1>8 DEF Offsets

(* The byte at place x of the endless repetition of a file, and where a NAL *)
(* of it starts                                                            *)
ByteAt(f, x) == Bytes(f)[(x % Len(Bytes(f))) + 1]
CodeAt(f, x) == ByteAt(f, x) = Zero /\ ByteAt(f, x + 1) = One
StartsAt(f, x, k) == x % Len(Bytes(f)) = Offsets(f)[k - 1]

(* What the lemmas on places need of the layout: NAL k of the T bytes of a  *)
(* file, l bytes long, comes after the first o.                            *)
NalLies(f, k, T, l, o) ==
  /\ T = Len(Bytes(f)) /\ l = Len(H264Nals(f)[k]) /\ o = Offsets(f)[k - 1]
  /\ l >= 3 /\ o + l = Offsets(f)[k] /\ o + l <= T
  /\ \A j \in 1 .. l : Bytes(f)[o + j] = H264Nals(f)[k][j]
  /\ k = Len(f) => o + l = T
  /\ Offsets(f)[0] = 0

LEMMA LayoutFacts ==
  ASSUME NEW f \in H264Files, NEW k \in 1 .. Len(f)
  PROVE  \E T \in Nat \ {0}, l \in Nat, o \in Nat : NalLies(f, k, T, l, o)
<1>1. PICK L \in Nat \ {0} : L = Len(f)
  BY H264NalFacts
<1>2. PICK off : off = Offsets(f) /\ Laid(f, off)
  BY BytesLaid
<1>3. PICK l \in Nat : l = Len(H264Nals(f)[k]) /\ l >= 3
  BY H264NalFacts
<1>4. PICK o \in Nat : o = off[k - 1]
  <2>1. k - 1 \in 0 .. Len(f)
    BY <1>1
  <2> QED BY <1>2, <2>1 DEF Laid
<1>5. PICK T : T = Len(Bytes(f))
  OBVIOUS
<1>6. T \in Nat /\ off[0] = 0 /\ off[L] = T
  <2>1. L \in 0 .. L
    OBVIOUS
  <2> QED BY <1>1, <1>2, <1>5, <2>1 DEF Laid
<1>7. /\ off[k] = o + l /\ off[k] <= T
      /\ \A j \in 1 .. l : Bytes(f)[o + j] = H264Nals(f)[k][j]
  BY <1>2, <1>3, <1>4, <1>5 DEF Laid
<1>8. T \in Nat \ {0}
  BY <1>3, <1>6, <1>7
<1>9. k = Len(f) => o + l = T
  BY <1>1, <1>6, <1>7
<1>10. o = Offsets(f)[k - 1] /\ o + l = Offsets(f)[k] /\ Offsets(f)[0] = 0 /\ o + l <= T
  BY <1>2, <1>4, <1>6, <1>7
<1>11. NalLies(f, k, T, l, o)
  BY <1>3, <1>5, <1>7, <1>9, <1>10 DEF NalLies
<1> QED BY <1>8, <1>11

LEMMA InsideNal ==
  ASSUME NEW f \in H264Files, NEW k \in 1 .. Len(f), NEW x \in Nat, StartsAt(f, x, k),
         NEW j \in Nat, j < Len(H264Nals(f)[k])
  PROVE  ByteAt(f, x + j) = H264Nals(f)[k][j + 1]
<1>0. PICK T \in Nat \ {0}, l \in Nat, o \in Nat : NalLies(f, k, T, l, o)
  BY LayoutFacts
<1>1. T = Len(Bytes(f)) /\ \A i \in 1 .. l : Bytes(f)[o + i] = H264Nals(f)[k][i]
  BY <1>0 DEF NalLies
<1>2. x % T = o /\ j < l /\ o + l <= T
  BY <1>0 DEF NalLies, StartsAt
<1>3. (o + j) % T = (x + j) % T
  BY <1>2, ModAdd
<1>4. (o + j) % T = o + j
  <2>1. PICK y \in 0 .. T - 1 : y = o + j
    BY <1>2
  <2> QED BY <2>1, SmallMod
<1>5. j + 1 \in 1 .. l /\ o + j + 1 = o + (j + 1)
  BY <1>2
<1>6. Bytes(f)[o + (j + 1)] = H264Nals(f)[k][j + 1]
  BY <1>1, <1>5
<1> QED BY <1>1, <1>3, <1>4, <1>5, <1>6 DEF ByteAt

LEMMA BytesOfNal ==
  ASSUME NEW f \in H264Files, NEW k \in 1 .. Len(f), NEW x \in Nat, StartsAt(f, x, k),
         NEW l \in Nat, l = Len(H264Nals(f)[k])
  PROVE  \A j \in 0 .. l - 1 : ByteAt(f, x + j) = H264Nals(f)[k][j + 1]
<1>1. ASSUME NEW j \in 0 .. l - 1
      PROVE  ByteAt(f, x + j) = H264Nals(f)[k][j + 1]
  <2>1. j \in Nat /\ j < Len(H264Nals(f)[k])
    OBVIOUS
  <2> QED BY <2>1, InsideNal
<1> QED BY <1>1

LEMMA AfterNal ==
  ASSUME NEW f \in H264Files, NEW k \in 1 .. Len(f), NEW x \in Nat, StartsAt(f, x, k)
  PROVE  /\ (k % Len(f)) + 1 \in 1 .. Len(f)
         /\ StartsAt(f, x + Len(H264Nals(f)[k]), (k % Len(f)) + 1)
<1>0. PICK T \in Nat \ {0}, l \in Nat, o \in Nat : NalLies(f, k, T, l, o)
  BY LayoutFacts
<1>1. /\ T = Len(Bytes(f)) /\ l = Len(H264Nals(f)[k]) /\ o = Offsets(f)[k - 1]
      /\ o + l = Offsets(f)[k] /\ o + l <= T /\ l >= 3
      /\ k = Len(f) => o + l = T
      /\ Offsets(f)[0] = 0
  BY <1>0 DEF NalLies
<1>2. PICK L \in Nat \ {0} : L = Len(f)
  BY H264NalFacts
<1>3. x % T = o
  BY <1>1 DEF StartsAt
<1>4. (o + l) % T = (x + l) % T
  BY <1>3, ModAdd
<1>5. CASE k = L
  <2>1. k % L = 0 /\ (k % L) + 1 = 1 /\ 1 - 1 = 0 /\ 1 \in 1 .. L
    BY <1>5, SmallMod
  <2>2. (x + l) % T = 0
    BY <1>1, <1>2, <1>4, <1>5, SmallMod
  <2> QED BY <1>1, <1>2, <2>1, <2>2 DEF StartsAt
<1>6. CASE k # L
  <2>1. PICK m \in 1 .. L : m = k + 1 /\ m - 1 = k /\ k \in 0 .. L - 1
    BY <1>2, <1>6
  <2>2. k % L = k
    BY <2>1, SmallMod
  <2>3. o + l < T
    <3>1. PICK h \in Nat : Len(H264Nals(f)[m]) = h /\ h >= 3 /\ (o + l) + h <= T
      <4>1. PICK U \in Nat \ {0}, h \in Nat, q \in Nat : NalLies(f, m, U, h, q)
        BY <1>2, LayoutFacts
      <4>2. q = o + l /\ U = T /\ h = Len(H264Nals(f)[m]) /\ h >= 3 /\ q + h <= U
        BY <1>1, <2>1, <4>1 DEF NalLies
      <4> QED BY <4>2
    <3> QED BY <3>1
  <2>4. (o + l) % T = o + l
    <3>1. PICK y \in 0 .. T - 1 : y = o + l
      BY <2>3
    <3> QED BY <3>1, SmallMod
  <2>5. (x + l) % T = Offsets(f)[m - 1]
    BY <1>1, <1>4, <2>1, <2>4
  <2> QED BY <1>1, <1>2, <2>1, <2>2, <2>5 DEF StartsAt
<1> QED BY <1>5, <1>6

(* Where a NAL starts there is a start code *)
LEMMA StartBytes ==
  ASSUME NEW f \in H264Files, NEW k \in 1 .. Len(f), NEW x \in Nat, StartsAt(f, x, k)
  PROVE  ByteAt(f, x) = Zero /\ ByteAt(f, x + 1) = One /\ CodeAt(f, x)
<1>1. PICK l \in Nat : l = Len(H264Nals(f)[k]) /\ l >= 3
  BY H264NalFacts
<1>2. PICK z \in Nat, y \in Nat : z = 0 /\ y = 1
  OBVIOUS
<1>3. ByteAt(f, x + z) = H264Nals(f)[k][z + 1] /\ ByteAt(f, x + y) = H264Nals(f)[k][y + 1]
  <2>1. z < Len(H264Nals(f)[k]) /\ y < Len(H264Nals(f)[k])
    BY <1>1, <1>2
  <2>2. ByteAt(f, x + z) = H264Nals(f)[k][z + 1]
    BY <2>1, InsideNal
  <2>3. ByteAt(f, x + y) = H264Nals(f)[k][y + 1]
    BY <2>1, InsideNal
  <2> QED BY <2>2, <2>3
<1>4. x + z = x /\ z + 1 = 1 /\ y + 1 = 2
  BY <1>2
<1>5. H264Nals(f)[k][1] = Zero /\ H264Nals(f)[k][2] = One
  BY H264NalFacts
<1>6. ByteAt(f, x) = Zero /\ ByteAt(f, x + 1) = One
  BY <1>2, <1>3, <1>4, <1>5
<1> QED BY <1>6 DEF CodeAt

(* Inside a NAL there is none, and its last byte does not begin one *)
LEMMA NoCodeInside ==
  ASSUME NEW f \in H264Files, NEW k \in 1 .. Len(f), NEW x \in Nat, StartsAt(f, x, k),
         NEW y \in Nat, x < y, y < x + Len(H264Nals(f)[k])
  PROVE  ~CodeAt(f, y) /\ (y + 1 = x + Len(H264Nals(f)[k]) => ByteAt(f, y) # Zero)
<1>1. PICK l \in Nat : l = Len(H264Nals(f)[k])
  BY H264NalFacts
<1>2. PICK j \in Nat : j = y - x /\ y = x + j /\ j < l /\ j + 1 \in 2 .. l
  BY <1>1
<1>0. \A i \in 0 .. l - 1 : ByteAt(f, x + i) = H264Nals(f)[k][i + 1]
  BY <1>1, BytesOfNal
<1>3. ByteAt(f, y) = H264Nals(f)[k][j + 1]
  <2>1. j \in 0 .. l - 1 /\ y = x + j
    BY <1>2
  <2> QED BY <1>0, <2>1
<1>4. CodeFreeAt(H264Nals(f)[k], j + 1)
  BY <1>1, <1>2, H264NalFacts
<1>5. CASE ByteAt(f, y) # Zero
  BY <1>5 DEF CodeAt
<1>6. CASE ByteAt(f, y) = Zero
  <2>1. j + 1 < l /\ H264Nals(f)[k][j + 1 + 1] # One
    BY <1>1, <1>2, <1>3, <1>4, <1>6 DEF CodeFreeAt
  <2>2. PICK m \in 0 .. l - 1 : m = j + 1 /\ y + 1 = x + m
    BY <1>2, <2>1
  <2>3. ByteAt(f, y + 1) = H264Nals(f)[k][m + 1]
    BY <1>0, <2>2
  <2>4. ByteAt(f, y + 1) # One
    BY <2>1, <2>2, <2>3
  <2>5. y + 1 # x + l
    BY <1>2, <2>1
  <2> QED BY <1>1, <2>4, <2>5 DEF CodeAt
<1> QED BY <1>5, <1>6

(* The next NAL does not start before the first start code that follows *)
LEMMA NoCodeBefore ==
  ASSUME NEW f \in H264Files, NEW k \in 1 .. Len(f), NEW x \in Nat, StartsAt(f, x, k),
         NEW y \in Nat, x < y, \A z \in x + 1 .. y - 1 : ~CodeAt(f, z)
  PROVE  y <= x + Len(H264Nals(f)[k])
<1>1. PICK l \in Nat : l = Len(H264Nals(f)[k]) /\ l >= 3
  BY H264NalFacts
<1> SUFFICES ASSUME x + l < y
             PROVE  FALSE
  BY <1>1
<1>2. PICK z \in x + 1 .. y - 1 : z = x + l /\ z \in Nat
  BY <1>1
<1>3. PICK m \in 1 .. Len(f) : StartsAt(f, z, m)
  BY <1>1, <1>2, AfterNal
<1>4. CodeAt(f, z)
  BY <1>2, <1>3, StartBytes
<1> QED BY <1>2, <1>4

(* The first start code after the start of a NAL is where the next one starts *)
LEMMA NextStart ==
  ASSUME NEW f \in H264Files, NEW k \in 1 .. Len(f), NEW x \in Nat, StartsAt(f, x, k),
         NEW y \in Nat, x < y, CodeAt(f, y), \A z \in x + 1 .. y - 1 : ~CodeAt(f, z)
  PROVE  y = x + Len(H264Nals(f)[k])
<1>1. PICK l \in Nat : l = Len(H264Nals(f)[k])
  BY H264NalFacts
<1>2. ~(y < x + l)
  BY <1>1, NoCodeInside
<1>3. y <= x + l
  BY <1>1, NoCodeBefore
<1> QED BY <1>1, <1>2, <1>3

(* If no start code comes before the byte that ends the file, the NAL ends it *)
LEMMA LastNalEndsFile ==
  ASSUME NEW f \in H264Files, NEW k \in 1 .. Len(f), NEW x \in Nat, StartsAt(f, x, k),
         NEW y \in Nat, x < y, y % Len(Bytes(f)) = 0,
         \A z \in x + 1 .. y - 2 : ~CodeAt(f, z)
  PROVE  y = x + Len(H264Nals(f)[k]) /\ StartsAt(f, y, 1) /\ (k % Len(f)) + 1 = 1
<1>1. PICK L \in Nat \ {0} : L = Len(f)
  BY H264NalFacts
<1>2. Offsets(f)[0] = 0
  BY LayoutFacts DEF NalLies
<1>3. StartsAt(f, y, 1) /\ 1 \in 1 .. Len(f)
  BY <1>1, <1>2 DEF StartsAt
<1>4. CodeAt(f, y) /\ ByteAt(f, y) = Zero
  BY <1>3, StartBytes
<1>5. ~CodeAt(f, y - 1)
  <2>1. CodeAt(f, y - 1) => ByteAt(f, y - 1 + 1) = One
    BY DEF CodeAt
  <2>2. y - 1 + 1 = y
    OBVIOUS
  <2> QED BY <1>4, <2>1, <2>2, StartCodeFacts
<1>6. \A z \in x + 1 .. y - 1 : ~CodeAt(f, z)
  <2> SUFFICES ASSUME NEW z \in x + 1 .. y - 1
               PROVE  ~CodeAt(f, z)
    OBVIOUS
  <2>1. z = y - 1 \/ z \in x + 1 .. y - 2
    OBVIOUS
  <2> QED BY <1>5, <2>1
<1>7. PICK l \in Nat : l = Len(H264Nals(f)[k]) /\ y = x + l
  BY <1>4, <1>6, NextStart, H264NalFacts
<1>8. (k % L) + 1 = 1
  <2>1. PICK m \in 1 .. L : m = (k % L) + 1 /\ StartsAt(f, y, m)
    BY <1>1, <1>7, AfterNal
  <2>2. Offsets(f)[m - 1] = 0
    BY <1>2, <1>3, <2>1 DEF StartsAt
  <2>3. m # 1 => Offsets(f)[m - 1] # 0
    <3> SUFFICES ASSUME m # 1
                 PROVE  Offsets(f)[m - 1] # 0
      OBVIOUS
    <3>1. PICK i \in 1 .. L : i = m - 1
      OBVIOUS
    <3>2. PICK T \in Nat \ {0}, h \in Nat, o \in Nat : NalLies(f, i, T, h, o)
      BY <1>1, LayoutFacts
    <3>3. h >= 3 /\ o + h = Offsets(f)[i]
      BY <3>2 DEF NalLies
    <3> QED BY <3>1, <3>3
  <2> QED BY <2>1, <2>2, <2>3
<1> QED BY <1>1, <1>3, <1>7, <1>8

(* Files whose NALs have no byte that begins a start code *)
HasNoZero(f) == \A k \in 1 .. Len(f) : \A j \in 2 .. Len(H264Nals(f)[k]) : H264Nals(f)[k][j] # Zero

LEMMA NoZeroInside ==
  ASSUME NEW f \in H264Files, HasNoZero(f), NEW k \in 1 .. Len(f),
         NEW x \in Nat, StartsAt(f, x, k),
         NEW y \in Nat, x < y, y < x + Len(H264Nals(f)[k])
  PROVE  ByteAt(f, y) # Zero
<1>1. PICK l \in Nat : l = Len(H264Nals(f)[k])
  BY H264NalFacts
<1>2. PICK j \in Nat : j = y - x /\ y = x + j /\ j < l /\ j + 1 \in 2 .. l
  BY <1>1
<1>0. \A i \in 0 .. l - 1 : ByteAt(f, x + i) = H264Nals(f)[k][i + 1]
  BY <1>1, BytesOfNal
<1>3. ByteAt(f, y) = H264Nals(f)[k][j + 1]
  <2>1. j \in 0 .. l - 1 /\ y = x + j
    BY <1>2
  <2> QED BY <1>0, <2>1
<1> QED BY <1>1, <1>2, <1>3 DEF HasNoZero

LEMMA FirstFacts ==
  ASSUME NEW S \in SUBSET Nat
  PROVE  /\ First(S) = None <=> S = {}
         /\ S # {} => First(S) \in S /\ \A j \in S : First(S) <= j
<1>1. S = {} => First(S) = None
  BY DEF First
<1>2. ASSUME S # {}
      PROVE  First(S) \in S /\ \A j \in S : First(S) <= j
  <2>1. \E i \in S : \A j \in S : i <= j
    BY <1>2, Least
  <2> QED BY <1>2, <2>1 DEF First
<1>3. None \notin Nat
  BY DEF None
<1> QED BY <1>1, <1>2, <1>3

-----------------------------------------------------------------------------
(* Between two chunks: the buffer begins with what is left of NAL due, and  *)
(* the position in the file is where it goes on.                           *)
Waiting(s) ==
  /\ StartsAt(h264, s, due)
  /\ \A i \in 0 .. nLast - 1 : buf[i] = ByteAt(h264, s + i)
  /\ (s + nLast) % Len(Bytes(h264)) = pos % Len(Bytes(h264))

(* A chunk is searched: the buffer holds the n bytes from place b on, NAL   *)
(* due starts at startCode, and a chunk that does not fill the buffer ends *)
(* with the file.                                                          *)
Scanning(b) ==
  /\ n \in 1 .. MaxBuf /\ startCode \in 0 .. n - 1 /\ sendLen = startCode
  /\ sendCount \in Nat /\ (sendCount > 0 <=> startCode > 0)
  /\ StartsAt(h264, b + startCode, due)
  /\ \A i \in 0 .. n - 1 : buf[i] = ByteAt(h264, b + i)
  /\ (b + n) % Len(Bytes(h264)) = pos % Len(Bytes(h264))
  /\ n < MaxBuf => pos = Len(Bytes(h264))

PumpInv ==
  /\ h264 \in H264Files /\ due \in 1 .. Len(h264)
  /\ pos \in 0 .. Len(Bytes(h264)) /\ nLast \in 0 .. MaxBuf - 1
  /\ pc \in {"open", "read", "scan", "exited"}
  /\ past = One => HasNoZero(h264)
  /\ pc \in {"open", "read"} => \E s \in Nat : Waiting(s)
  /\ pc = "open" => pos % Len(Bytes(h264)) = 0
  /\ pc = "scan" => \E b \in Nat : Scanning(b)

(* The constants of a pass *)
LEMMA PumpConstants ==
  ASSUME PumpInv
  PROVE  \E T \in Nat \ {0} : /\ T = Len(Bytes(h264)) /\ T % T = 0
                              /\ \A x \in Nat : x < T => x % T = x
<1>1. PICK T \in Nat \ {0}, l \in Nat, o \in Nat : NalLies(h264, due, T, l, o)
  BY LayoutFacts DEF PumpInv
<1>2. T = Len(Bytes(h264)) /\ T % T = 0
  BY <1>1, SmallMod DEF NalLies
<1>3. \A x \in Nat : x < T => x \in 0 .. T - 1
  OBVIOUS
<1>4. \A x \in Nat : x < T => x % T = x
  BY <1>3, SmallMod
<1> QED BY <1>2, <1>4

(* Where NAL due starts all of it follows *)
LEMMA NalInPlace ==
  ASSUME PumpInv, NEW x \in Nat, StartsAt(h264, x, due),
         NEW j \in Nat, j < Len(H264Nals(h264)[due])
  PROVE  ByteAt(h264, x + j) = H264Nals(h264)[due][j + 1]
<1>1. h264 \in H264Files /\ due \in 1 .. Len(h264)
  BY DEF PumpInv
<1> QED BY <1>1, InsideNal

(* The part of the buffer that is sent is NAL due, if it is as long *)
LEMMA SegmentIsNal ==
  ASSUME PumpInv, NEW b \in Nat, Scanning(b), NEW l \in Nat,
         l = Len(H264Nals(h264)[due]), startCode + l <= n
  PROVE  Segment(startCode, l) = H264Nals(h264)[due]
<1>1. PICK nal \in Seq(Byte) : nal = H264Nals(h264)[due] /\ Len(nal) = l
  BY H264NalFacts DEF PumpInv
<1>2. PICK c \in Nat : c = startCode
  BY DEF Scanning
<1>3. n \in Nat /\ n <= MaxBuf /\ MaxBuf \in Nat
  BY BufAssumption DEF Scanning
<1>4. ASSUME NEW i \in 1 .. l
      PROVE  At(c + i - 1) = nal[i]
  <2>1. PICK j \in Nat : j = i - 1 /\ j < l /\ j + 1 = i /\ c + i - 1 = c + j
    OBVIOUS
  <2>2. PICK k \in 0 .. n - 1 : k = c + j /\ k < MaxBuf /\ c + i - 1 = k
    BY <1>2, <1>3, <2>1
  <2>3. At(k) = buf[k] /\ buf[k] = ByteAt(h264, b + k)
    BY <2>2 DEF At, Scanning
  <2>4. PICK x \in Nat : x = b + startCode /\ StartsAt(h264, x, due) /\ b + k = x + j
    BY <1>2, <2>2 DEF Scanning
  <2>5. ByteAt(h264, x + j) = H264Nals(h264)[due][j + 1]
    BY <2>1, <2>4, NalInPlace
  <2>6. At(k) = nal[i]
    BY <1>1, <2>1, <2>3, <2>4, <2>5, Zenon
  <2> QED BY <2>2, <2>6
<1>5. Segment(c, l) = [i \in 1 .. l |-> nal[i]]
  BY <1>4 DEF Segment
<1>6. nal = [i \in 1 .. l |-> nal[i]]
  BY <1>1
<1> QED BY <1>1, <1>2, <1>5, <1>6, Zenon

(* The byte behind the buffer completes no start code, or there is nothing *)
(* to complete                                                             *)
PastIsHarmless == One \in PastBytes => \A f \in H264Files : HasNoZero(f)

LEMMA PumpInvInit == PastIsHarmless /\ PumpInit => PumpInv
<1> SUFFICES ASSUME PastIsHarmless, PumpInit PROVE PumpInv
  OBVIOUS
<1>1. /\ h264 \in H264Files /\ due = 1 /\ pos = 0 /\ nLast = 0 /\ pc = "open"
      /\ past = One => HasNoZero(h264)
  BY DEF PumpInit, PastIsHarmless
<1>2. PICK L \in Nat \ {0} : L = Len(h264)
  BY <1>1, H264NalFacts
<1>3. PICK T \in Nat \ {0}, l \in Nat, o \in Nat : NalLies(h264, 1, T, l, o)
  BY <1>1, <1>2, LayoutFacts
<1>4. T = Len(Bytes(h264)) /\ Offsets(h264)[0] = 0 /\ 0 % T = 0
  BY <1>3, SmallMod DEF NalLies
<1>5. PICK s \in Nat : s = 0
  OBVIOUS
<1>6. s % T = 0 /\ (s + nLast) % T = 0 /\ pos % T = 0
  BY <1>1, <1>4, <1>5
<1>7. Waiting(s)
  BY <1>1, <1>4, <1>6 DEF Waiting, StartsAt
<1> QED BY <1>1, <1>2, <1>4, <1>6, <1>7, BufAssumption DEF PumpInv, Code, StartCode

LEMMA OpenKeeps == PumpInv /\ Open => PumpInv'
<1> SUFFICES ASSUME PumpInv, Open PROVE PumpInv'
  OBVIOUS
<1>1. PICK T \in Nat \ {0} : T = Len(Bytes(h264))
  BY PumpConstants
<1>2. PICK s \in Nat : Waiting(s) /\ pos % T = 0
  BY <1>1 DEF PumpInv, Open
<1>3. /\ h264' = h264 /\ pos' = 0 /\ buf' = buf /\ nLast' = nLast /\ due' = due
      /\ pc' = "read" /\ past' = past /\ 0 % T = 0
  BY SmallMod DEF Open, chunk
<1>4. Waiting(s)'
  BY <1>1, <1>2, <1>3 DEF Waiting
<1> QED BY <1>1, <1>3, <1>4 DEF PumpInv

LEMMA EndOfFileKeeps == PumpInv /\ EndOfFile => PumpInv'
<1> SUFFICES ASSUME PumpInv, EndOfFile PROVE PumpInv'
  OBVIOUS
<1>1. PICK T \in Nat \ {0} : T = Len(Bytes(h264)) /\ T % T = 0
  BY PumpConstants
<1>2. PICK s \in Nat : Waiting(s)
  BY DEF PumpInv, EndOfFile
<1>3. /\ h264' = h264 /\ pos' = pos /\ buf' = buf /\ nLast' = nLast /\ due' = due
      /\ pc' = "open" /\ past' = past
  BY DEF EndOfFile
<1>4. pos = T
  <2>1. nLast \in 0 .. MaxBuf - 1 /\ pos \in 0 .. T /\ MaxBuf \in Nat
    BY <1>1, BufAssumption DEF PumpInv
  <2>2. BytesRead = IF T - pos < MaxBuf - nLast THEN T - pos ELSE MaxBuf - nLast
    BY <1>1 DEF BytesRead
  <2>3. BytesRead = 0
    BY DEF EndOfFile
  <2> QED BY <2>1, <2>2, <2>3
<1>5. Waiting(s)'
  BY <1>2, <1>3 DEF Waiting
<1> QED BY <1>1, <1>3, <1>4, <1>5 DEF PumpInv

(* fread: the bytes of the file follow on what is left *)
LEMMA ReadKeeps == PumpInv /\ Read => PumpInv'
<1> SUFFICES ASSUME PumpInv, Read PROVE PumpInv'
  OBVIOUS
<1>1. PICK T \in Nat \ {0} : T = Len(Bytes(h264)) /\ \A x \in Nat : x < T => x % T = x
  BY PumpConstants
<1>2. PICK s \in Nat : Waiting(s)
  BY DEF PumpInv, Read
<1>3. PICK r \in Nat, c \in Nat, k \in Nat : r = nLast /\ c = pos /\ k = MaxBuf
  BY BufAssumption DEF PumpInv
<1>4. r < k /\ c <= T /\ k >= 5
  <2>1. nLast < MaxBuf /\ pos <= T
    BY <1>1, BufAssumption DEF PumpInv
  <2>2. MaxDatagram \in Nat /\ 2 < MaxDatagram /\ MaxDatagram + 2 <= MaxBuf
    BY BufAssumption, StartCodeFacts
  <2> QED BY <1>3, <2>1, <2>2
<1>5. PICK m \in Nat : m = BytesRead /\ m > 0 /\ r + m <= k /\ c + m <= T
                       /\ (r + m < k => c + m = T)
  <2>1. BytesRead = IF T - c < k - r THEN T - c ELSE k - r
    BY <1>1, <1>3 DEF BytesRead
  <2>2. BytesRead > 0
    BY DEF Read
  <2> QED BY <1>4, <2>1, <2>2
<1>6. /\ h264' = h264 /\ nLast' = nLast /\ due' = due /\ pos' = c + m /\ n' = r + m
      /\ sendLen' = 0 /\ sendCount' = 0 /\ past' = past
  BY <1>3, <1>5 DEF Read
<1>7. (s + r) % T = c /\ StartsAt(h264, s, due)
  <2>1. c < T /\ c % T = c
    BY <1>1, <1>5
  <2> QED BY <1>1, <1>2, <1>3, <2>1 DEF Waiting
<1>8. ASSUME NEW i \in 0 .. r + m - 1
      PROVE  buf'[i] = ByteAt(h264, s + i)
  <2>1. i \in 0 .. k - 1
    BY <1>5
  <2>2. buf'[i] = IF i \in r .. r + m - 1 THEN Bytes(h264)[c + i - r + 1] ELSE buf[i]
    BY <1>3, <1>5, <2>1 DEF Read
  <2>3. CASE i < r
    BY <1>2, <1>3, <2>2, <2>3 DEF Waiting
  <2>4. CASE ~(i < r)
    <3>1. PICK j \in Nat : j = i - r /\ j < m /\ i = r + j /\ c + i - r + 1 = (c + j) + 1
      BY <2>4
    <3>2. PICK x \in Nat : x = s + r /\ s + i = x + j
      BY <3>1
    <3>3. (c + j) % T = (x + j) % T
      BY <1>7, <3>2, ModAdd
    <3>4. (c + j) % T = c + j
      <4>1. PICK y \in Nat : y = c + j /\ y < T
        BY <1>5, <3>1
      <4> QED BY <1>1, <4>1
    <3>5. ByteAt(h264, s + i) = Bytes(h264)[(c + j) + 1]
      BY <1>1, <3>2, <3>3, <3>4 DEF ByteAt
    <3> QED BY <2>2, <2>4, <3>1, <3>5
  <2> QED BY <2>3, <2>4
<1>9. r + m >= 2
  <2>1. CASE r = 0
    <3>1. PICK U \in Nat \ {0}, l \in Nat, o \in Nat : NalLies(h264, due, U, l, o)
      BY LayoutFacts DEF PumpInv
    <3>2. o = c /\ o + l <= T /\ l >= 3
      BY <1>1, <1>7, <2>1, <3>1 DEF NalLies, StartsAt
    <3>3. r + m = k \/ c + m = T
      BY <1>5
    <3> QED BY <1>4, <2>1, <3>2, <3>3
  <2>2. CASE r # 0
    BY <1>5, <2>2
  <2> QED BY <2>1, <2>2
<1>10. buf'[0] = Zero /\ buf'[1] = One
  <2>1. PICK z \in 0 .. r + m - 1, y \in 0 .. r + m - 1 : z = 0 /\ y = 1
    BY <1>9
  <2>2. buf'[z] = ByteAt(h264, s + z) /\ buf'[y] = ByteAt(h264, s + y)
    BY <1>8
  <2>3. s + z = s /\ s + y = s + 1
    BY <2>1
  <2>4. ByteAt(h264, s) = Zero /\ ByteAt(h264, s + 1) = One
    BY <1>7, StartBytes DEF PumpInv
  <2> QED BY <2>1, <2>2, <2>3, <2>4
<1>11. startCode' = 0
  <2>1. PICK S : S = {i \in 0 .. MaxBuf - Code - 1 : buf'[i] = Zero /\ buf'[i + 1] = One}
    OBVIOUS
  <2>2. S \in SUBSET Nat
    BY <2>1, BufAssumption, StartCodeFacts
  <2>3. 0 \in S
    <3>1. 0 \in 0 .. MaxBuf - Code - 1 /\ 0 + 1 = 1
      BY <1>3, <1>4, StartCodeFacts
    <3> QED BY <1>10, <2>1, <3>1
  <2>4. First(S) \in S /\ \A j \in S : First(S) <= j
    BY <2>2, <2>3, FirstFacts
  <2>5. PICK x \in Nat : x = First(S) /\ x <= 0
    BY <2>2, <2>3, <2>4
  <2>6. First(S) = 0
    BY <2>5
  <2> QED BY <2>1, <2>6 DEF Read
<1>12. pc' = "scan"
  BY <1>11 DEF Read, None
<1>13. (s + (r + m)) % T = (c + m) % T
  <2>1. PICK x \in Nat : x = s + r /\ s + (r + m) = x + m
    OBVIOUS
  <2>2. (c + m) % T = (x + m) % T
    BY <1>7, <2>1, ModAdd
  <2> QED BY <2>1, <2>2
<1>14. Scanning(s)'
  <2>1. n' \in 1 .. MaxBuf /\ startCode' \in 0 .. n' - 1 /\ sendLen' = startCode'
    BY <1>3, <1>5, <1>6, <1>11
  <2>2. sendCount' \in Nat /\ (sendCount' > 0 <=> startCode' > 0)
    BY <1>6, <1>11
  <2>3. StartsAt(h264', s + startCode', due')
    <3>1. s + 0 = s
      OBVIOUS
    <3> QED BY <1>6, <1>7, <1>11, <3>1
  <2>4. \A i \in 0 .. n' - 1 : buf'[i] = ByteAt(h264', s + i)
    BY <1>6, <1>8
  <2>5. (s + n') % Len(Bytes(h264')) = pos' % Len(Bytes(h264'))
    BY <1>1, <1>6, <1>13
  <2>6. n' < MaxBuf => pos' = Len(Bytes(h264'))
    BY <1>1, <1>3, <1>5, <1>6
  <2> QED BY <2>1, <2>2, <2>3, <2>4, <2>5, <2>6 DEF Scanning
<1>15. pos' \in 0 .. Len(Bytes(h264'))
  BY <1>1, <1>5, <1>6
<1> QED BY <1>6, <1>12, <1>14, <1>15 DEF PumpInv

(* What the search for the next start code says of the bytes from startCode *)
(* on: no start code is before the one found, which may lie over the end of *)
(* the chunk, or the chunk holds none.                                     *)
LEMMA SearchFacts ==
  ASSUME PumpInv, NEW b \in Nat, Scanning(b)
  PROVE  /\ EndCode # None =>
              \E e \in startCode + 2 .. n - 1 :
                /\ e = EndCode /\ ByteAt(h264, b + e) = Zero
                /\ CodeAt(h264, b + e) \/ (e = n - 1 /\ At(n) = One)
                /\ \A z \in b + startCode + 2 .. b + e - 1 : ~CodeAt(h264, z)
         /\ EndCode = None =>
              \A z \in b + startCode + 2 .. b + n - 2 : ~CodeAt(h264, z)
<1>1. PICK c \in Nat, m \in Nat : c = startCode /\ m = n /\ c < m /\ m <= MaxBuf /\ sendLen = c
  BY BufAssumption DEF Scanning
<1>2. MaxBuf \in Nat
  BY BufAssumption
<1>3. PICK S : S = {i \in c + 2 .. m - 1 : Matches(i)}
  OBVIOUS
<1>4. EndCode = First(S)
  <2>1. (c + 2) + (m - c) - 2 - 1 = m - 1
    OBVIOUS
  <2> QED BY <1>1, <1>3, <2>1, StartCodeFacts DEF EndCode, FindNalStartCode
<1>5. S \in SUBSET Nat
  BY <1>3
<1>6. ASSUME NEW i \in 0 .. m - 1
      PROVE  At(i) = ByteAt(h264, b + i)
  <2>1. i < MaxBuf
    BY <1>1, <1>2
  <2> QED BY <1>1, <2>1 DEF At, Scanning
<1>7. ASSUME NEW i \in 0 .. m - 2
      PROVE  Matches(i) <=> CodeAt(h264, b + i)
  <2>1. PICK j \in 0 .. m - 1 : j = i + 1 /\ b + i + 1 = b + j /\ i \in 0 .. m - 1
    OBVIOUS
  <2>2. At(i) = ByteAt(h264, b + i) /\ At(i + 1) = ByteAt(h264, b + i + 1)
    BY <1>6, <2>1
  <2> QED BY <2>2, Zenon DEF Matches, CodeAt
<1>8. ASSUME NEW z \in b + c + 2 .. b + m - 2, z - b \notin S
      PROVE  ~CodeAt(h264, z)
  <2>1. PICK i \in 0 .. m - 2 : i = z - b /\ z = b + i /\ i \in c + 2 .. m - 1
    OBVIOUS
  <2>2. ~Matches(i)
    BY <1>3, <1>8, <2>1
  <2> QED BY <1>7, <2>1, <2>2
<1>9. ASSUME EndCode # None
      PROVE  \E e \in c + 2 .. m - 1 :
               /\ e = EndCode /\ ByteAt(h264, b + e) = Zero
               /\ CodeAt(h264, b + e) \/ (e = m - 1 /\ At(m) = One)
               /\ \A z \in b + c + 2 .. b + e - 1 : ~CodeAt(h264, z)
  <2>1. PICK e \in S : e = EndCode /\ \A j \in S : e <= j
    BY <1>4, <1>5, <1>9, FirstFacts
  <2>2. e \in c + 2 .. m - 1 /\ Matches(e) /\ e \in 0 .. m - 1
    BY <1>3, <2>1
  <2>3. ByteAt(h264, b + e) = Zero
    BY <1>6, <2>2 DEF Matches
  <2>4. CodeAt(h264, b + e) \/ (e = m - 1 /\ At(m) = One)
    <3>1. CASE e = m - 1
      <4>1. e + 1 = m
        BY <3>1
      <4> QED BY <2>2, <3>1, <4>1 DEF Matches
    <3>2. CASE e # m - 1
      <4>1. e \in 0 .. m - 2
        BY <2>2, <3>2
      <4> QED BY <1>7, <2>2, <4>1
    <3> QED BY <3>1, <3>2
  <2>5. ASSUME NEW z \in b + c + 2 .. b + e - 1
        PROVE  ~CodeAt(h264, z)
    <3>1. z \in b + c + 2 .. b + m - 2 /\ z - b < e /\ z - b \in Int
      BY <2>2
    <3>2. z - b \notin S
      BY <2>1, <2>2, <3>1
    <3> QED BY <1>8, <3>1, <3>2
  <2> QED BY <2>1, <2>2, <2>3, <2>4, <2>5
<1>10. ASSUME EndCode = None, NEW z \in b + c + 2 .. b + m - 2
       PROVE  ~CodeAt(h264, z)
  <2>1. S = {}
    BY <1>4, <1>5, <1>10, FirstFacts
  <2> QED BY <1>8, <2>1
<1> QED BY <1>1, <1>9, <1>10

(* What is found is the end of NAL due: over the end of the chunk there is   *)
(* a start code of the file, or the byte that seems to begin one ends the   *)
(* file, which it cannot.                                                  *)
LEMMA FoundIsNextStart ==
  ASSUME PumpInv, NEW b \in Nat, Scanning(b), NEW e \in Nat, startCode < e, e < n,
         ByteAt(h264, b + e) = Zero,
         CodeAt(h264, b + e) \/ (e = n - 1 /\ At(n) = One),
         \A z \in b + startCode + 2 .. b + e - 1 : ~CodeAt(h264, z)
  PROVE  b + e = b + startCode + Len(H264Nals(h264)[due])
<1>0. PICK x \in Nat, y \in Nat : x = b + startCode /\ y = b + e /\ x < y
  BY DEF Scanning
<1>1. PICK f \in H264Files : f = h264
  BY DEF PumpInv
<1>2. PICK k \in 1 .. Len(f) : k = due
  BY <1>1 DEF PumpInv
<1>3. PICK l \in Nat : l = Len(H264Nals(f)[k]) /\ l >= 3
  BY H264NalFacts
<1>4. StartsAt(f, x, k)
  BY <1>0, <1>1, <1>2 DEF Scanning
<1>5. ~CodeAt(f, x + 1)
  BY <1>4, StartBytes, StartCodeFacts DEF CodeAt
<1>6. ASSUME NEW z \in x + 1 .. y - 1
      PROVE  ~CodeAt(f, z)
  <2>1. z = x + 1 \/ z \in x + 2 .. y - 1
    OBVIOUS
  <2> QED BY <1>0, <1>1, <1>5, <2>1
<1>7. y <= x + l
  BY <1>0, <1>3, <1>4, <1>6, NoCodeBefore
<1>8. ByteAt(f, y) = Zero
  BY <1>0, <1>1
<1>9. CASE CodeAt(h264, b + e)
  <2>1. CodeAt(f, y)
    BY <1>0, <1>1, <1>9
  <2>2. ~(y < x + l)
    BY <1>0, <1>3, <1>4, <2>1, NoCodeInside
  <2> QED BY <1>0, <1>1, <1>2, <1>3, <1>7, <2>2
<1>10. CASE e = n - 1 /\ At(n) = One /\ n = MaxBuf
  <2>1. HasNoZero(f)
    BY <1>1, <1>10, BufAssumption DEF At, PumpInv
  <2>2. ~(y < x + l)
    BY <1>0, <1>3, <1>4, <1>8, <2>1, NoZeroInside
  <2> QED BY <1>0, <1>1, <1>2, <1>3, <1>7, <2>2
<1>11. CASE e = n - 1 /\ n # MaxBuf
  <2>1. PICK w \in Nat : w = y + 1 /\ w = b + n /\ x < w /\ w - 2 = y - 1
    BY <1>0, <1>11 DEF Scanning
  <2>2. w % Len(Bytes(f)) = 0
    <3>1. PICK T \in Nat \ {0} : T = Len(Bytes(h264)) /\ T % T = 0
      BY PumpConstants
    <3>2. pos = T
      BY <1>11, <3>1, BufAssumption DEF Scanning
    <3>3. w % Len(Bytes(h264)) = pos % Len(Bytes(h264))
      BY <2>1 DEF Scanning
    <3> QED BY <1>1, <3>1, <3>2, <3>3, Zenon
  <2>3. \A z \in x + 1 .. w - 2 : ~CodeAt(f, z)
    BY <1>6, <2>1
  <2>4. w = x + l
    BY <1>3, <1>4, <2>1, <2>2, <2>3, LastNalEndsFile
  <2>5. y < x + l /\ y + 1 = x + l
    BY <2>1, <2>4
  <2>6. ByteAt(f, y) # Zero
    BY <1>0, <1>3, <1>4, <2>5, NoCodeInside
  <2> QED BY <1>8, <2>6
<1> QED BY <1>9, <1>10, <1>11

(* SendNal sends NAL due, and the next one starts where it ends *)
LEMMA SendNalSends ==
  ASSUME PumpInv, SendNal
  PROVE  PumpInv' /\ FileLoop!SendNal
<1>1. PICK b \in Nat : Scanning(b)
  BY DEF PumpInv, SendNal
<1>2. PICK e \in startCode + 2 .. n - 1 :
        /\ e = EndCode /\ ByteAt(h264, b + e) = Zero
        /\ CodeAt(h264, b + e) \/ (e = n - 1 /\ At(n) = One)
        /\ \A z \in b + startCode + 2 .. b + e - 1 : ~CodeAt(h264, z)
  BY <1>1, SearchFacts DEF SendNal
<1>3. PICK c \in Nat, m \in Nat : c = startCode /\ m = n /\ c < m /\ m <= MaxBuf
  BY <1>1, BufAssumption DEF Scanning
<1>4. e \in Nat /\ c + 2 <= e /\ e < m
  BY <1>2, <1>3
<1>5. PICK l \in Nat, L \in Nat \ {0} : l = Len(H264Nals(h264)[due]) /\ L = Len(h264) /\ l >= 3
  BY H264NalFacts DEF PumpInv
<1>6. PICK x \in Nat, y \in Nat : x = b + c /\ y = b + e /\ x < y
  BY <1>4
<1>7. StartsAt(h264, x, due) /\ h264 \in H264Files /\ due \in 1 .. L
  BY <1>1, <1>3, <1>5, <1>6 DEF Scanning, PumpInv
<1>8. startCode < e /\ e < n
  BY <1>3, <1>4
<1>9. b + e = b + startCode + Len(H264Nals(h264)[due])
  BY <1>1, <1>2, <1>4, <1>8, FoundIsNextStart
<1>10. y = x + l
  BY <1>3, <1>5, <1>6, <1>9
<1>11. e - c = l /\ c + l <= m
  BY <1>4, <1>6, <1>10
<1>12. Segment(startCode, EndCode - startCode) = H264Nals(h264)[due]
  BY <1>1, <1>2, <1>3, <1>5, <1>11, SegmentIsNal
<1>13. /\ lastSent' = H264Nals(h264)[due] /\ due' = (due % L) + 1
       /\ h264' = h264 /\ pos' = pos /\ buf' = buf /\ n' = n /\ nLast' = nLast /\ pc' = "scan"
       /\ startCode' = e /\ sendLen' = sendLen + (e - startCode)
       /\ sendCount' = sendCount + 1 /\ past' = past
  BY <1>2, <1>5, <1>12 DEF SendNal, Sent
<1>14. due' \in 1 .. L /\ StartsAt(h264, y, due')
  BY <1>5, <1>7, <1>10, <1>13, AfterNal
<1>15. Scanning(b)'
  <2>1. n' \in 1 .. MaxBuf /\ startCode' \in 0 .. n' - 1 /\ sendLen' = startCode'
    BY <1>1, <1>3, <1>4, <1>13 DEF Scanning
  <2>2. sendCount' \in Nat /\ (sendCount' > 0 <=> startCode' > 0)
    BY <1>1, <1>4, <1>13 DEF Scanning
  <2>3. StartsAt(h264', b + startCode', due')
    BY <1>6, <1>13, <1>14
  <2>4. /\ \A i \in 0 .. n' - 1 : buf'[i] = ByteAt(h264', b + i)
        /\ (b + n') % Len(Bytes(h264')) = pos' % Len(Bytes(h264'))
        /\ n' < MaxBuf => pos' = Len(Bytes(h264'))
    BY <1>1, <1>13 DEF Scanning
  <2> QED BY <2>1, <2>2, <2>3, <2>4 DEF Scanning
<1>16. PumpInv'
  BY <1>5, <1>13, <1>14, <1>15 DEF PumpInv
<1>17. Len(H264Nals(h264)) = Len(h264)
  BY <1>5 DEF H264Nals
<1>18. FileLoop!SendNal
  BY <1>5, <1>13, <1>17 DEF FileLoop!SendNal
<1> QED BY <1>16, <1>18

(* When no start code follows, what is left begins NAL due; if the file ends *)
(* with it, it is all of NAL due.                                           *)
LEMMA RestFacts ==
  ASSUME PumpInv, NEW b \in Nat, Scanning(b), EndCode = None, n < MaxBuf
  PROVE  /\ n - startCode = Len(H264Nals(h264)[due])
         /\ StartsAt(h264, b + n, 1) /\ (due % Len(h264)) + 1 = 1
<1>1. PICK c \in Nat, m \in Nat : c = startCode /\ m = n /\ c < m
  BY BufAssumption DEF Scanning
<1>2. PICK x \in Nat, y \in Nat : x = b + c /\ y = b + m /\ x < y
  BY <1>1
<1>3. StartsAt(h264, x, due) /\ h264 \in H264Files /\ due \in 1 .. Len(h264)
  BY <1>1, <1>2 DEF Scanning, PumpInv
<1>4. y % Len(Bytes(h264)) = 0
  <2>1. PICK T \in Nat \ {0} : T = Len(Bytes(h264)) /\ T % T = 0
    BY PumpConstants
  <2>2. pos = T
    BY <2>1 DEF Scanning
  <2>3. y % T = pos % T
    <3>1. (b + n) % Len(Bytes(h264)) = pos % Len(Bytes(h264)) /\ y = b + n
      BY <1>1, <1>2 DEF Scanning
    <3> QED BY <2>1, <3>1, Zenon
  <2> QED BY <2>1, <2>2, <2>3, Zenon
<1>5. \A z \in x + 2 .. y - 2 : ~CodeAt(h264, z)
  BY <1>1, <1>2, SearchFacts
<1>6. ~CodeAt(h264, x + 1)
  BY <1>3, StartBytes, StartCodeFacts DEF CodeAt
<1>7. ASSUME NEW z \in x + 1 .. y - 2
      PROVE  ~CodeAt(h264, z)
  <2>1. z = x + 1 \/ z \in x + 2 .. y - 2
    OBVIOUS
  <2> QED BY <1>5, <1>6, <2>1
<1>8. PICK l \in Nat : l = Len(H264Nals(h264)[due])
  BY <1>3, H264NalFacts
<1>9. y = x + l /\ StartsAt(h264, y, 1) /\ (due % Len(h264)) + 1 = 1
  <2>1. /\ y = x + Len(H264Nals(h264)[due]) /\ StartsAt(h264, y, 1)
        /\ (due % Len(h264)) + 1 = 1
    <3>0. PICK f \in H264Files : f = h264
      BY <1>3
    <3>1. PICK k \in 1 .. Len(f) : f = h264 /\ k = due
      BY <1>3, <3>0
    <3>2. StartsAt(f, x, k) /\ y % Len(Bytes(f)) = 0 /\ x < y
      BY <1>2, <1>3, <1>4, <3>1
    <3>3. \A z \in x + 1 .. y - 2 : ~CodeAt(f, z)
      BY <1>7, <3>1
    <3>4. /\ y = x + Len(H264Nals(f)[k]) /\ StartsAt(f, y, 1)
          /\ (k % Len(f)) + 1 = 1
      BY <3>2, <3>3, LastNalEndsFile
    <3> QED BY <3>1, <3>4
  <2> QED BY <1>8, <2>1
<1>10. m - c = l /\ b + n = y
  BY <1>1, <1>2, <1>9
<1> QED BY <1>1, <1>8, <1>9, <1>10, Zenon

LEMMA SendRestSends ==
  ASSUME PumpInv, SendRest
  PROVE  PumpInv' /\ FileLoop!SendNal
<1>1. PICK b \in Nat : Scanning(b)
  BY DEF PumpInv, SendRest
<1>2. PICK c \in Nat, m \in Nat : c = startCode /\ m = n /\ c < m /\ m <= MaxBuf /\ sendLen = c
  BY <1>1, BufAssumption DEF Scanning
<1>3. MaxBuf \in Nat /\ MaxDatagram \in Nat /\ MaxDatagram < MaxBuf /\ 0 < MaxBuf
  BY BufAssumption, StartCodeFacts
<1>4. PICK d \in Nat : d = m - c
  BY <1>2
<1>5. Len(Segment(startCode, n - sendLen)) = d
  BY <1>2, <1>4 DEF Segment
<1>6. m < MaxBuf
  <2>1. d <= MaxDatagram
    BY <1>5 DEF SendRest, Sent
  <2>2. m = MaxBuf => c = 0
    BY <1>1, <1>2 DEF SendRest, CarryOver, Scanning
  <2> QED BY <1>2, <1>3, <1>4, <2>1, <2>2
<1>7. EndCode = None
  BY DEF SendRest
<1>8. PICK l \in Nat, L \in Nat \ {0} : l = Len(H264Nals(h264)[due]) /\ L = Len(h264)
  BY H264NalFacts DEF PumpInv
<1>9. d = l /\ StartsAt(h264, b + m, 1) /\ (due % L) + 1 = 1
  BY <1>1, <1>2, <1>4, <1>6, <1>7, <1>8, RestFacts
<1>10. Segment(startCode, n - sendLen) = H264Nals(h264)[due]
  BY <1>1, <1>2, <1>4, <1>8, <1>9, SegmentIsNal
<1>11. /\ lastSent' = H264Nals(h264)[due] /\ due' = (due % L) + 1 /\ due' = 1
       /\ h264' = h264 /\ pos' = pos /\ nLast' = 0 /\ pc' = "read"
       /\ past' = past
  BY <1>8, <1>9, <1>10 DEF SendRest, Sent
<1>12. PICK s \in Nat : s = b + m /\ s + 0 = s
  BY <1>2
<1>13. Waiting(s)'
  <2>1. StartsAt(h264', s, due')
    BY <1>9, <1>11, <1>12
  <2>2. \A i \in 0 .. nLast' - 1 : buf'[i] = ByteAt(h264', s + i)
    BY <1>11
  <2>3. (s + nLast') % Len(Bytes(h264')) = pos' % Len(Bytes(h264'))
    BY <1>1, <1>2, <1>11, <1>12 DEF Scanning
  <2> QED BY <2>1, <2>2, <2>3 DEF Waiting
<1>14. PumpInv'
  <2>1. 1 \in 1 .. L /\ 0 \in 0 .. MaxBuf - 1
    BY <1>3, <1>8
  <2> QED BY <1>8, <1>11, <1>13, <2>1 DEF PumpInv
<1>15. Len(H264Nals(h264)) = Len(h264)
  BY <1>8 DEF H264Nals
<1>16. FileLoop!SendNal
  BY <1>8, <1>11, <1>15 DEF FileLoop!SendNal
<1> QED BY <1>14, <1>16

(* memmove: what is left begins the buffer, and the file goes on after it *)
LEMMA KeepRestKeeps == PumpInv /\ KeepRest => PumpInv'
<1> SUFFICES ASSUME PumpInv, KeepRest PROVE PumpInv'
  OBVIOUS
<1>1. PICK b \in Nat : Scanning(b)
  BY DEF PumpInv, KeepRest
<1>2. PICK c \in Nat, m \in Nat : c = startCode /\ m = n /\ c < m /\ m = MaxBuf /\ c > 0
  BY <1>1, BufAssumption DEF Scanning, KeepRest, CarryOver
<1>3. PICK r \in Nat : r = m - c /\ r < m
  BY <1>2
<1>4. /\ h264' = h264 /\ pos' = pos /\ due' = due /\ pc' = "read" /\ nLast' = r
      /\ past' = past
  BY <1>2, <1>3 DEF KeepRest
<1>5. PICK s \in Nat : s = b + c
  OBVIOUS
<1>6. ASSUME NEW i \in 0 .. r - 1
      PROVE  buf'[i] = ByteAt(h264, s + i)
  <2>1. i \in 0 .. MaxBuf - 1 /\ i < r
    BY <1>2, <1>3
  <2>2. buf'[i] = buf[c + i]
    BY <1>2, <1>4, <2>1 DEF KeepRest
  <2>3. PICK j \in 0 .. n - 1 : j = c + i /\ b + j = s + i
    BY <1>2, <1>3, <1>5
  <2>4. buf[j] = ByteAt(h264, b + j)
    BY <1>1 DEF Scanning
  <2> QED BY <2>2, <2>3, <2>4
<1>7. Waiting(s)'
  <2>1. StartsAt(h264', s, due')
    BY <1>1, <1>2, <1>4, <1>5 DEF Scanning
  <2>2. s + r = b + n
    BY <1>2, <1>3, <1>5
  <2>3. (s + nLast') % Len(Bytes(h264')) = pos' % Len(Bytes(h264'))
    BY <1>1, <1>4, <2>2 DEF Scanning
  <2> QED BY <1>4, <1>6, <2>1, <2>3 DEF Waiting
<1>8. r \in 0 .. MaxBuf - 1
  BY <1>2, <1>3
<1> QED BY <1>4, <1>7, <1>8 DEF PumpInv

(* When sendto fails main returns and nothing follows *)
LEMMA FailureKeeps == PumpInv /\ (SendNalFails \/ SendRestFails) => PumpInv'
<1> SUFFICES ASSUME PumpInv, SendNalFails \/ SendRestFails PROVE PumpInv'
  OBVIOUS
<1>1. /\ h264' = h264 /\ pos' = pos /\ nLast' = nLast /\ due' = due /\ pc' = "exited"
      /\ past' = past
  BY DEF SendNalFails, SendRestFails, Failed, chunk
<1> QED BY <1>1 DEF PumpInv

LEMMA PumpStutters == PumpInv /\ UNCHANGED pumpVars => PumpInv'
<1> SUFFICES ASSUME PumpInv, UNCHANGED pumpVars PROVE PumpInv'
  OBVIOUS
<1>1. /\ h264' = h264 /\ pos' = pos /\ buf' = buf /\ n' = n /\ nLast' = nLast
      /\ startCode' = startCode /\ sendLen' = sendLen /\ sendCount' = sendCount
      /\ pc' = pc /\ due' = due /\ past' = past
  BY DEF pumpVars, chunk
<1>2. ASSUME NEW s \in Nat, Waiting(s)
      PROVE  Waiting(s)'
  BY <1>1, <1>2 DEF Waiting
<1>3. ASSUME NEW b \in Nat, Scanning(b)
      PROVE  Scanning(b)'
  BY <1>1, <1>3 DEF Scanning
<1> QED BY <1>1, <1>2, <1>3 DEF PumpInv

(* Every step of the client sends the NAL that is due, or nothing *)
LEMMA PumpStep ==
  PumpInv /\ [PumpNext]_pumpVars => PumpInv' /\ [FileLoop!SendNal]_<< h264, due, lastSent >>
<1> SUFFICES ASSUME PumpInv, [PumpNext]_pumpVars
             PROVE  PumpInv' /\ [FileLoop!SendNal]_<< h264, due, lastSent >>
  OBVIOUS
<1>1. CASE Open
  BY <1>1, OpenKeeps DEF Open
<1>2. CASE Read
  BY <1>2, ReadKeeps DEF Read
<1>3. CASE EndOfFile
  BY <1>3, EndOfFileKeeps DEF EndOfFile
<1>4. CASE SendNal
  BY <1>4, SendNalSends
<1>5. CASE SendNalFails \/ SendRestFails
  BY <1>5, FailureKeeps DEF SendNalFails, SendRestFails, Failed
<1>6. CASE KeepRest
  BY <1>6, KeepRestKeeps DEF KeepRest
<1>7. CASE SendRest
  BY <1>7, SendRestSends
<1>8. CASE UNCHANGED pumpVars
  BY <1>8, PumpStutters DEF pumpVars
<1> QED BY <1>1, <1>2, <1>3, <1>4, <1>5, <1>6, <1>7, <1>8 DEF PumpNext

(***************************************************************************)
(* README.md:4, the client reads the file over and over and sends it:       *)
(* wherever the chunks of MAXBUF bytes end, each datagram of client.c is one *)
(* whole NAL of the file, in file order, and the first follows the last.    *)
(* The search reads past a full buffer (client.c:101), so that it has to be *)
(* asked of the memory there that it does not make a start code of the end  *)
(* of a chunk.                                                             *)
(***************************************************************************)
THEOREM ClientSendsTheFile ==
  ASSUME One \in PastBytes => \A f \in H264Files : HasNoZero(f)
  PROVE  PumpSpec => SendsTheFile
<1>1. PastIsHarmless
  BY DEF PastIsHarmless
<1>2. PumpInit => PumpInv
  BY <1>1, PumpInvInit
<1>3. PumpInit => FileLoop!Init
  BY DEF PumpInit, FileLoop!Init
<1> QED BY <1>2, <1>3, PumpStep, PTL DEF PumpSpec, SendsTheFile, FileLoop!Spec

-----------------------------------------------------------------------------
(* A run of either program is a run of both: the one that is not run stutters *)
LEMMA ProgramsOfPair == PairSpec => Spec /\ PumpSpec
<1>1. PairInit => Init /\ PumpInit
  BY DEF PairInit
<1>2. [PairNext]_pairVars => [Next]_vars
  BY DEF PairNext, ClientRuns, ServerHears, ServerJoins, ServerRuns, Next, pairVars
<1>3. [PairNext]_pairVars => [PumpNext]_pumpVars
  BY DEF PairNext, ClientRuns, ServerHears, ServerJoins, ServerRuns, pairVars
<1> QED BY <1>1, <1>2, <1>3, PTL DEF PairSpec, Spec, PumpSpec

(***************************************************************************)
(* All that is proved of the client and of the recorder holds in the       *)
(* specification that the run checks.  The limit, the single SPS and the    *)
(* slices without a gap are asked of any files; a recording is decodable if *)
(* its file has a PPS after each SPS, and the client needs harmless memory  *)
(* behind its buffer or NALs that do not begin a start code.                *)
(***************************************************************************)
THEOREM ProgramsKeepTheirPromises ==
  ASSUME \A f \in Files : \A i \in 1 .. Len(f) :
           f[i] = Sps => f[(i % Len(f)) + 1] = Pps,
         One \in PastBytes => \A f \in H264Files : HasNoZero(f)
  PROVE  PairSpec => /\ [](StopsAtLimit /\ OneSps /\ SlicesWithoutGap /\ Decodable)
                     /\ SendsTheFile
<1>1. Spec => []Decodable
  BY SavedIsDecodable
<1>2. PumpSpec => SendsTheFile
  BY ClientSendsTheFile
<1> QED BY <1>1, <1>2, ProgramsOfPair, EndsAtTheLimit, SavesOneSps, SlicesSavedWithoutGap, PTL
=============================================================================
