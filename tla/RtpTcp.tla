--------------------------------- MODULE RtpTcp ---------------------------------
(***************************************************************************)
(* sample/test_tcp_recv_nal.c: main accepts connections and starts a       *)
(* thread for each, to which it hands the address of its variable new_fd.  *)
(* All threads write to one file.  The peers are test_tcp_send_nal.c: RTP  *)
(* packets in a byte stream, with nothing to tell where one ends.          *)
(* A packet is two parts: its head (RTP header, NAL or FU header and the   *)
(* first bytes of the payload) and the rest of the payload.                *)
(***************************************************************************)
EXTENDS Naturals, Sequences, FiniteSets

CONSTANTS Conn,        \* the connections
          Packets,     \* for each connection the units of the packets sent on it
          RecvMax,     \* parts that recv_buf has room for
          MaxFd,       \* connections for which the process has descriptors
          Survivable,  \* bound: the connections a recv of too few bytes on which need not crash
          NoConn

ASSUME ConnAssumption == NoConn \notin Conn /\ IsFiniteSet(Conn) /\ MaxFd \in Nat \ {0}
UnitType == {"single", "start", "middle", "end"}
ASSUME PacketAssumption == Packets \in [Conn -> Seq(UnitType)]
ASSUME SurvivableAssumption == Survivable \subseteq Conn
ASSUME RecvAssumption == RecvMax \in Nat \ {0, 1}

VARIABLES
  sentTo,     \* packets each peer has sent
  closed,     \* connections whose end recv reports once the stream is read
  resets,     \* connections that were reset, which recv has not reported yet
  stream,     \* the parts on their way, per connection
  accepted,   \* the connections accepted, in order; thread i was created for the i-th
  program,    \* "running", "exited" (accept failed) or "crashed"
  pc,         \* per thread: "start", "recv", "write", "done"
  sock,       \* per thread: its sock_fd
  todo,       \* per thread: what the decoder still has to write
  out,        \* OUTPUT_FD
  torn        \* history: connections of which a recv did not return one whole packet

peerVars == <<sentTo, closed, resets>>
threadVars == <<pc, sock, todo>>
vars == <<peerVars, stream, accepted, program, threadVars, out, torn>>

Thread == 1 .. MaxFd
Running == program = "running"

Unit(c, i) == Packets[c][i]
HeadOf(c, i) == [conn |-> c, pkt |-> i, part |-> "head"]
RestOf(c, i) == [conn |-> c, pkt |-> i, part |-> "rest"]

\* accept has stored the last connection there
new_fd == accepted[Len(accepted)]

-----------------------------------------------------------------------------
(* The peers.  A connection exists from the start, in the queue of listen.  *)

PeerSends(c) ==
  /\ Running /\ c \notin closed \cup resets
  /\ sentTo[c] < Len(Packets[c])
  /\ sentTo' = [sentTo EXCEPT ![c] = @ + 1]
  /\ stream' = [stream EXCEPT ![c] = @ \o <<HeadOf(c, sentTo[c] + 1), RestOf(c, sentTo[c] + 1)>>]
  /\ UNCHANGED <<closed, resets, accepted, program, threadVars, out, torn>>

PeerCloses(c) ==
  /\ Running /\ c \notin closed \cup resets
  /\ sentTo[c] = Len(Packets[c])
  /\ closed' = closed \cup {c}
  /\ UNCHANGED <<sentTo, resets, stream, accepted, program, threadVars, out, torn>>

\* What had not arrived yet is lost.
PeerResets(c) ==
  /\ Running /\ c \notin closed \cup resets
  /\ resets' = resets \cup {c}
  /\ \E n \in 0 .. Len(stream[c]) : stream' = [stream EXCEPT ![c] = SubSeq(@, 1, n)]
  /\ UNCHANGED <<sentTo, closed, accepted, program, threadVars, out, torn>>

-----------------------------------------------------------------------------
(* The process ends, and with it its threads and connections.               *)
ProcessEnds(how) ==
  /\ program' = how
  /\ pc' = [t \in Thread |-> "none"]
  /\ sock' = [t \in Thread |-> NoConn]
  /\ todo' = [t \in Thread |-> << >>]
  /\ stream' = [c \in Conn |-> << >>]
  /\ UNCHANGED <<peerVars, accepted, out, torn>>

(* main *)

Accepted == {accepted[i] : i \in DOMAIN accepted}

\* accept, then pthread_create.  No descriptor is ever closed.
Accept(c) ==
  /\ Running /\ c \notin Accepted
  /\ Len(accepted) < MaxFd
  /\ accepted' = Append(accepted, c)
  /\ pc' = [pc EXCEPT ![Len(accepted) + 1] = "start"]
  /\ UNCHANGED <<peerVars, stream, program, sock, todo, out, torn>>

\* One peer more connects.
AcceptFails ==
  /\ Running /\ Len(accepted) = MaxFd
  /\ ProcessEnds("exited")

-----------------------------------------------------------------------------
(* recv_fun *)

\* sock_fd = *(int *)p, some time after pthread_create has returned to main
ReadDescriptor(t) ==
  /\ Running /\ pc[t] = "start"
  /\ sock' = [sock EXCEPT ![t] = new_fd]
  /\ pc' = [pc EXCEPT ![t] = "recv"]
  /\ UNCHANGED <<peerVars, stream, accepted, program, todo, out, torn>>

\* decode_rtp2h264: what it writes for one packet before the payload (five calls
\* of fputc: the start code and the NAL header), and for whatever recv has
\* returned.  Parts of a packet that were not taken for what they are come out
\* cut (where a header was looked for) or raw (header and all).
PrefixOnEnd(unit, p) ==      \* Mutated: the e bit is taken for the s bit
  IF unit \in {"single", "end"} THEN << [p EXCEPT !.part = "prefix"] >> ELSE << >>

Prefix(unit, p) ==
  IF unit \in {"single", "start"} THEN << [p EXCEPT !.part = "prefix"] >> ELSE << >>

Payload(parts) ==
  [i \in DOMAIN parts |->
     IF i = 1 /\ parts[i].part = "rest" THEN [parts[i] EXCEPT !.part = "cut"]
     ELSE IF i > 1 /\ parts[i].part = "head" THEN [parts[i] EXCEPT !.part = "raw"]
     ELSE parts[i]]

Decode(parts, unit) == Prefix(unit, parts[1]) \o Payload(parts)

\* The unit is read from the first bytes, which may belong to no header.
UnitsSeen(p) == IF p.part = "head" THEN {Unit(p.conn, p.pkt)} ELSE UnitType

WholePacket(parts) == Len(parts) = 2 /\ parts[1].part = "head"

\* Mutated: what is received stays in the stream
StillThere(c, n) == stream[c]

LeftAfter(c, n) == SubSeq(stream[c], n + 1, Len(stream[c]))

\* recv returns any number of parts; decode_rtp2h264 takes them for one packet.
Receive(t) ==
  /\ Running /\ pc[t] = "recv"
  /\ \E n \in 1 .. Len(stream[sock[t]]) :
       /\ n <= RecvMax
       /\ LET parts == SubSeq(stream[sock[t]], 1, n)
          IN /\ \E unit \in UnitsSeen(parts[1]) : todo' = [todo EXCEPT ![t] = Decode(parts, unit)]
             /\ torn' = IF WholePacket(parts) THEN torn ELSE torn \cup {sock[t]}
       /\ stream' = [stream EXCEPT ![sock[t]] = LeftAfter(sock[t], n)]
  /\ pc' = [pc EXCEPT ![t] = "write"]
  /\ UNCHANGED <<peerVars, accepted, program, sock, out>>

(* The decoder subtracts 13 or 14 from the length and hands that to fwrite   *)
(* as a size_t: a recv of fewer bytes, or one that fails and returns -1,     *)
(* asks for a write of almost 2^64 bytes from recv_buf.  What that does is   *)
(* undefined: the process crashes, or the thread goes on.  What then comes   *)
(* out, of the thread's own stack, is left out of out: nothing is claimed of *)
(* a torn connection.                                                        *)
Survives(t) ==
  /\ sock[t] \in Survivable
  /\ torn' = torn \cup {sock[t]}
  /\ UNCHANGED <<sentTo, accepted, program, threadVars, out>>

\* Of a head some bytes are left, which the next recv takes for a header.
WithoutPiece(parts) ==
  IF Head(parts).part = "head" THEN [parts EXCEPT ![1].part = "rest"] ELSE Tail(parts)

ReceiveTooFew(t) ==
  /\ Running /\ pc[t] = "recv" /\ stream[sock[t]] # << >>
  /\ \/ ProcessEnds("crashed")
     \/ /\ Survives(t)
        /\ stream' = [stream EXCEPT ![sock[t]] = WithoutPiece(@)]
        /\ UNCHANGED <<closed, resets>>

\* recv reports the reset once, then the end of the stream.
ReceiveFails(t) ==
  /\ Running /\ pc[t] = "recv" /\ stream[sock[t]] = << >> /\ sock[t] \in resets
  /\ \/ ProcessEnds("crashed")
     \/ /\ Survives(t)
        /\ resets' = resets \ {sock[t]}
        /\ closed' = closed \cup {sock[t]}
        /\ UNCHANGED stream

\* Mutated: nothing to receive yet is taken for the end
NothingToReceive(c) == stream[c] = << >>

EndOfStream(c) == c \in closed /\ stream[c] = << >>

\* recv returns 0: the thread ends, the descriptor stays open.
ReceiveEnd(t) ==
  /\ Running /\ pc[t] = "recv" /\ EndOfStream(sock[t])
  /\ pc' = [pc EXCEPT ![t] = "done"]
  /\ UNCHANGED <<peerVars, stream, accepted, program, sock, todo, out, torn>>

\* The prefix, then the payload in one fwrite; other threads may write in between.
Write(t) ==
  /\ Running /\ pc[t] = "write"
  /\ LET n == IF todo[t][1].part = "prefix" THEN 1 ELSE Len(todo[t])
     IN /\ out' = out \o SubSeq(todo[t], 1, n)
        /\ todo' = [todo EXCEPT ![t] = SubSeq(@, n + 1, Len(@))]
        /\ pc' = [pc EXCEPT ![t] = IF n = Len(todo[t]) THEN "recv" ELSE "write"]
  /\ UNCHANGED <<peerVars, stream, accepted, program, sock, torn>>

-----------------------------------------------------------------------------
Init ==
  /\ sentTo = [c \in Conn |-> 0]
  /\ closed = {}
  /\ resets = {}
  /\ stream = [c \in Conn |-> << >>]
  /\ accepted = << >>
  /\ program = "running"
  /\ pc = [t \in Thread |-> "none"]
  /\ sock = [t \in Thread |-> NoConn]
  /\ todo = [t \in Thread |-> << >>]
  /\ out = << >>
  /\ torn = {}

Peer(c) == PeerSends(c) \/ PeerCloses(c) \/ PeerResets(c)
Main == (\E c \in Conn : Accept(c)) \/ AcceptFails
RecvFun(t) ==
  \/ ReadDescriptor(t) \/ Receive(t) \/ ReceiveTooFew(t) \/ ReceiveFails(t)
  \/ ReceiveEnd(t) \/ Write(t)

Next == Main \/ (\E c \in Conn : Peer(c)) \/ (\E t \in Thread : RecvFun(t))

Spec == Init /\ [][Next]_vars

\* The threads are scheduled; no peer is obliged to send and none to connect.
FairSpec == Spec /\ \A t \in Thread : WF_vars(RecvFun(t))
-----------------------------------------------------------------------------
Tags == [conn : Conn, pkt : Nat, part : {"prefix", "head", "rest", "cut", "raw"}]

TypeOK ==
  /\ sentTo \in [Conn -> Nat]
  /\ closed \subseteq Conn /\ resets \subseteq Conn /\ torn \subseteq Conn
  /\ stream \in [Conn -> Seq(Tags)]
  /\ accepted \in Seq(Conn) /\ Len(accepted) <= MaxFd
  /\ program \in {"running", "exited", "crashed"}
  /\ pc \in [Thread -> {"none", "start", "recv", "write", "done"}]
  /\ sock \in [Thread -> Conn \cup {NoConn}]
  /\ todo \in [Thread -> Seq(Tags)]
  /\ out \in Seq(Tags)

Readers(c) == {t \in Thread : sock[t] = c}

\* Of a sequence of parts those of c
PartsOf(c, parts) ==
  LET upTo[n \in 0 .. Len(parts)] ==
        IF n = 0 THEN << >>
        ELSE IF parts[n].conn = c THEN Append(upTo[n - 1], parts[n]) ELSE upTo[n - 1]
  IN upTo[Len(parts)]
OutOf(c) == PartsOf(c, out)

\* What a decoder that gets the packets of c one by one writes for packet i, and
\* for the first n.
WrittenFor(c, i) ==
  (IF Unit(c, i) \in {"single", "start"}
   THEN << [conn |-> c, pkt |-> i, part |-> "prefix"] >> ELSE << >>)
  \o <<HeadOf(c, i), RestOf(c, i)>>
AllWrittenFor(c) ==
  LET upTo[n \in Nat] == IF n = 0 THEN << >> ELSE upTo[n - 1] \o WrittenFor(c, n) IN upTo

(***************************************************************************)
(* If every recv on a connection returned one whole packet and one thread  *)
(* only read it, the file has what was sent on it, in order and complete   *)
(* up to what is still on its way; whatever the other threads write in     *)
(* between, and whichever descriptors they read (test_tcp_recv_nal.c:159). *)
(***************************************************************************)
SoleReaderInOrder ==
  \A c \in Conn \ torn : \A t \in Thread :
    Readers(c) = {t} =>
      \E n \in 0 .. sentTo[c] :
        /\ OutOf(c) \o todo[t] = AllWrittenFor(c)[n]
        /\ c \notin resets => Len(stream[c]) = 2 * (sentTo[c] - n)

Occurrences(seq, p) == Cardinality({i \in DOMAIN seq : seq[i] = p})

(***************************************************************************)
(* Several threads may have got the same descriptor, since accept stores   *)
(* the next one before a thread has read its own (test_tcp_recv_nal.c:226).*)
(* As long as every recv returns one whole packet each packet is still     *)
(* written once: it is in the stream, with one thread, or in the file.     *)
(***************************************************************************)
EachPacketOnce ==
  Running => \A c \in Conn \ torn : \A i \in 1 .. sentTo[c] :
    LET p == RestOf(c, i)
        withThreads == {t \in Thread : Occurrences(todo[t], p) > 0}
        found == Occurrences(stream[c], p) + Occurrences(out, p) + Cardinality(withThreads)
    IN /\ found <= 1
       /\ c \notin resets => found = 1

Newest(c) == accepted # << >> /\ new_fd = c

(***************************************************************************)
(* A connection whose descriptor was overwritten too early is read by      *)
(* nobody.  The newest one is not: as long as no other is accepted, all    *)
(* that is sent on it is received, if the receiver stays up.               *)
(***************************************************************************)
NewestIsRead ==
  \A c \in Conn : <>[](Running /\ Newest(c)) => []<>(stream[c] = << >>)
=============================================================================
