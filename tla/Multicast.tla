------------------------------- MODULE Multicast -------------------------------
(***************************************************************************)
(* A client that sends a file over and over to a multicast group (what      *)
(* NalPump implements) and a server, server/multicast/server.c, that joins *)
(* the group at any time and saves what it receives.  server/udp/server.c  *)
(* records in the same way.                                                *)
(***************************************************************************)
EXTENDS Integers, Sequences, FiniteSets

CONSTANTS Files,           \* the files sent: sequences of nal_unit_types
          StartLimit,      \* 15: the SPS that ends the recording
          MaxDrops,        \* bound: datagrams the network loses
          ChanMax          \* bound: datagrams in the receive buffer

Sps == 7
Pps == 8

ASSUME FileAssumption == \A f \in Files : f \in Seq(Nat) \ {<< >>}
ASSUME LimitAssumption == StartLimit \in Nat \ {0}
ASSUME BoundAssumption == MaxDrops \in Nat /\ ChanMax \in Nat \ {0}

VARIABLES file, turn, last,    \* the client, as in NalLoop
          chan,                \* datagrams the server has not received yet
          drops,               \* how many the network has lost
          joined,              \* IP_ADD_MEMBERSHIP has been done
          start,               \* how many SPS the server has seen
          closed,              \* the server has closed its file and left the loop
          saved                \* RECEIVE_FILE

client == << file, turn, last >>
server == << joined, start, closed, saved >>
vars == << client, chan, drops, server >>

(* A NAL is known by its place in the file; a datagram is a sequence of NALs *)
Nals(f) == [i \in 1 .. Len(f) |-> [nr |-> i, type |-> f[i]]]

Loop == INSTANCE NalLoop

-----------------------------------------------------------------------------
(* The client does not know who listens: before the join and after the end  *)
(* of the recording its datagrams reach nobody.                             *)
SendUnheard ==
  /\ ~joined \/ closed
  /\ Loop!SendNal
  /\ UNCHANGED << chan, drops, server >>

(* The file is read once *)
SendHeardOnce ==
  /\ joined /\ ~closed /\ Len(chan) < ChanMax
  /\ turn # 1 \/ last = << >>
  /\ Loop!SendNal
  /\ chan' = Append(chan, << last' >>)
  /\ UNCHANGED << drops, server >>

SendHeard ==
  /\ joined /\ ~closed /\ Len(chan) < ChanMax
  /\ Loop!SendNal
  /\ chan' = Append(chan, << last' >>)
  /\ UNCHANGED << drops, server >>

SendLost ==
  /\ joined /\ ~closed /\ drops < MaxDrops
  /\ Loop!SendNal
  /\ drops' = drops + 1
  /\ UNCHANGED << chan, server >>

-----------------------------------------------------------------------------
(* socket, bind and IP_ADD_MEMBERSHIP *)
Join ==
  /\ ~joined
  /\ joined' = TRUE
  /\ UNCHANGED << client, chan, drops, start, closed, saved >>

(* start once the first i NALs of datagram d have been looked at *)
StartAfter(d, i) == start + Cardinality({j \in 1 .. i : d[j].type = Sps})

(* Off by one *)
LastKeptLate(d) == StartAfter(d, Len(d)) <= 2 \/ d[Len(d)].type \notin {Sps, Pps}

(* PPS are dropped from the first SPS on *)
LastKeptWithoutPps(d) ==
  \/ StartAfter(d, Len(d)) < 2 /\ d[Len(d)].type # Pps
  \/ d[Len(d)].type \notin {Sps, Pps}

(* IDR slices are taken for parameter sets *)
LastKeptNotIdr(d) == StartAfter(d, Len(d)) < 2 \/ d[Len(d)].type < 5

(* The last NAL of a datagram: parameter sets only up to the second SPS *)
LastKept(d) == StartAfter(d, Len(d)) < 2 \/ d[Len(d)].type \notin {Sps, Pps}

(* What is written.  The NALs before the last are written as soon as start  *)
(* is not 0 after the NAL that follows them: those from some place on.      *)
Kept(d) ==
  LET before == {i \in 1 .. Len(d) - 1 : StartAfter(d, i + 1) > 0}
  IN SubSeq(d, Len(d) - Cardinality(before), Len(d) - 1)
       \o (IF LastKept(d) THEN << d[Len(d)] >> ELSE << >>)

(* The recording goes on with the last SPS *)
ReachesLimitLate(d) == d[1].type = Sps /\ StartAfter(d, 1) > StartLimit

(* Only the first NAL of a datagram is compared with the limit *)
ReachesLimit(d) == d[1].type = Sps /\ StartAfter(d, 1) = StartLimit

(* recvfrom and the handling of one datagram *)
Record ==
  /\ joined /\ ~closed /\ chan # << >> /\ ~ReachesLimit(Head(chan))
  /\ start' = StartAfter(Head(chan), Len(Head(chan)))
  /\ saved' = saved \o Kept(Head(chan))
  /\ chan' = Tail(chan)
  /\ UNCHANGED << client, drops, joined, closed >>

(* The last SPS: fclose, break, return *)
Finish ==
  /\ joined /\ ~closed /\ chan # << >> /\ ReachesLimit(Head(chan))
  /\ start' = StartLimit
  /\ closed' = TRUE
  /\ chan' = << >>
  /\ UNCHANGED << client, drops, joined, saved >>

-----------------------------------------------------------------------------
Init ==
  /\ file \in Files
  /\ Loop!Init
  /\ chan = << >>
  /\ drops = 0
  /\ joined = FALSE
  /\ start = 0
  /\ closed = FALSE
  /\ saved = << >>

Client == SendUnheard \/ SendHeard \/ SendLost
Server == Record \/ Finish
Next == Client \/ Join \/ Server

Spec == Init /\ [][Next]_vars

(* Client and server each run on; nothing obliges the server to join *)
FairSpec == Spec /\ WF_vars(Client) /\ WF_vars(Server)

-----------------------------------------------------------------------------
Nal == [nr : Nat, type : Nat]

TypeOK ==
  /\ file \in Files
  /\ turn \in 1 .. Len(file)
  /\ last \in Nal \cup {<< >>}
  /\ chan \in Seq(Seq(Nal))
  /\ Len(chan) <= ChanMax
  /\ drops \in 0 .. MaxDrops
  /\ joined \in BOOLEAN
  /\ start \in Nat
  /\ closed \in BOOLEAN
  /\ saved \in Seq(Nal)

(* The recording ends with the StartLimit-th SPS.  The test is for equality, *)
(* so an SPS that were counted without being compared would let it run on   *)
(* for ever.                                                                *)
StopsAtLimit == /\ start <= StartLimit
                /\ closed <=> start = StartLimit

(* The file that is saved has one SPS at most, whatever is lost, although   *)
(* the client repeats it in every pass.                                     *)
OneSps ==
  \A i, j \in 1 .. Len(saved) :
    saved[i].type = Sps /\ saved[j].type = Sps => i = j

(* Without loss the slices saved are the ones sent, in their order and      *)
(* without a gap, from the join on and over the end of the file.            *)
IsSlice(nal) == nal.type \notin {Sps, Pps}

(* The NAL sent k datagrams after one *)
Ahead(nal, k) == Nals(file)[((nal.nr + k - 1) % Len(file)) + 1]

IsNextSlice(nal, next) ==
  \E k \in 1 .. Len(file) :
    /\ next = Ahead(nal, k) /\ IsSlice(next)
    /\ \A m \in 1 .. k - 1 : ~IsSlice(Ahead(nal, m))

SlicesWithoutGap ==
  drops = 0 => \A i, j \in 1 .. Len(saved) :
    /\ i < j /\ IsSlice(saved[i]) /\ IsSlice(saved[j])
    /\ \A k \in i + 1 .. j - 1 : ~IsSlice(saved[k])
    => IsNextSlice(saved[i], saved[j])

(* Without loss, slices that follow the SPS in the saved file are decodable: *)
(* a PPS stands before them too, although the server drops the parameter    *)
(* sets from the second SPS on.                                             *)
Decodable ==
  drops = 0 => \A i, j \in 1 .. Len(saved) :
    i < j /\ saved[i].type = Sps /\ IsSlice(saved[j]) =>
      \E k \in 1 .. j : saved[k].type = Pps

(* A server that has joined ends its recording, some losses or not *)
RecordingEnds == joined ~> closed
=============================================================================
