-------------------------------- MODULE RtpFile --------------------------------
(***************************************************************************)
(* sample/send_h264file_rtp.c sends the NALs of a file as RTP over UDP and *)
(* sample/test_decode_rtp2h264.c writes what it receives to a file.  The   *)
(* sender reads the file once; its socket is connected, so a packet sent   *)
(* while nobody is bound to the port makes the next send fail.             *)
(***************************************************************************)
EXTENDS RtpSender, FiniteSets

CONSTANTS Files,           \* the files sent: sequences of NAL lengths
          StartCode,       \* 00 00 00 01
          Framerate,       \* 25
          MaxSendFail,     \* MAX_SEND_FAIL_N
          MaxDrops,        \* bound: packets the network loses
          LateReceiver     \* the receiver may be started after the sender

ASSUME FileAssumption == \A f \in Files : f \in Seq(Nat \ {0})
ASSUME FramerateAssumption == Framerate \in Nat \ {0}
ASSUME FailAssumption == MaxSendFail \in Nat /\ MaxDrops \in Nat
ASSUME LateAssumption == LateReceiver \in BOOLEAN

VARIABLES lengths,         \* the NALs in the file, by their length
          nextNal,         \* what copy_nal_from_file reads next
          finished,        \* the sender has reached the end of the file
          sockOpen,        \* the client's socket_c has not been closed
          sendFailN,       \* its send_fail_n
          sockError,       \* an error is pending on that socket
          bound,           \* the receiver is bound to its port
          sent,            \* history: every packet handed to send
          failures,        \* history: failures in a row
          net,             \* positions in sent of the packets on their way
          lost,            \* history: positions of the packets lost
          got,             \* history: positions of the packets decoded
          out              \* savefp: the file written by the receiver

clientVars == << sockOpen, sendFailN, sockError, failures >>
receiverVars == << bound, got, out >>
vars == << senderVars, lengths, nextNal, finished, clientVars, sent, net, lost,
           receiverVars >>

-----------------------------------------------------------------------------
(* NAL n of the file: its bytes are told apart by where they come from *)
Nal(n) == [k \in 1 .. lengths[n] |-> << n, k >>]

(* What the receiver should write for NAL n *)
Written(n) == << StartCode >> \o Nal(n)

(* The NALs copy_nal_from_file returns before it meets the end of the file: *)
(* it needs the start code that follows a NAL, so the last one is not among *)
(* them.                                                                    *)
ReadableNals == IF lengths = << >> THEN 0 ELSE Len(lengths) - 1

AllWritten[n \in 0 .. ReadableNals] ==
  IF n = 0 THEN << >> ELSE AllWritten[n - 1] \o Written(n)

(* copy_nal_from_file, then the entry of h264nal2rtp_send.  The first read  *)
(* ends at the start code the file begins with: an empty NAL.               *)
ReadNal ==
  /\ nalu = << >> /\ ~finished /\ nextNal <= ReadableNals
  /\ Call(Framerate, IF nextNal = 0 THEN << >> ELSE Nal(nextNal))
  /\ nextNal' = nextNal + 1
  /\ UNCHANGED << lengths, finished, clientVars, sent, net, lost, receiverVars >>

(* copy_nal_from_file returns -1 at the end of the file; main returns *)
ReadEnd ==
  /\ nalu = << >> /\ ~finished /\ nextNal > ReadableNals
  /\ finished' = TRUE
  /\ UNCHANGED << senderVars, lengths, nextNal, clientVars, sent, net, lost, receiverVars >>

-----------------------------------------------------------------------------
(* send_data_to_client_list with the one client main adds.  Each action is  *)
(* one packet: SendNext builds it and one of the outcomes of send follows.  *)

Handed == sent' = Append(sent, Packet)

SendArrives ==
  /\ SendNext /\ Handed
  /\ sockOpen /\ ~sockError /\ bound
  /\ net' = Append(net, Len(sent) + 1)
  /\ failures' = 0
  /\ UNCHANGED << lengths, nextNal, finished, sockOpen, sendFailN, sockError, lost,
                  receiverVars >>

(* The network or a full receive buffer loses the packet, silently *)
SendDropped ==
  /\ SendNext /\ Handed
  /\ sockOpen /\ ~sockError /\ bound
  /\ Cardinality(lost) < MaxDrops
  /\ lost' = lost \cup {Len(sent) + 1}
  /\ failures' = 0
  /\ UNCHANGED << lengths, nextNal, finished, sockOpen, sendFailN, sockError, net,
                  receiverVars >>

(* Nobody is bound to the port: the answer comes back as an error *)
SendRefused ==
  /\ SendNext /\ Handed
  /\ sockOpen /\ ~sockError /\ ~bound
  /\ lost' = lost \cup {Len(sent) + 1}
  /\ sockError' = TRUE
  /\ failures' = 0
  /\ UNCHANGED << lengths, nextNal, finished, sockOpen, sendFailN, net, receiverVars >>

(* send returns -1: for the pending error, or for a descriptor closed by an *)
(* earlier packet.  Past MAX_SEND_FAIL_N failures the socket is closed; the *)
(* node stays in the list.                                                  *)
SendFails ==
  /\ SendNext /\ Handed
  /\ sockError \/ ~sockOpen
  /\ lost' = lost \cup {Len(sent) + 1}
  /\ sendFailN' = sendFailN + 1
  /\ sockOpen' = (sockOpen /\ sendFailN' <= MaxSendFail)
  /\ sockError' = FALSE
  /\ failures' = failures + 1
  /\ UNCHANGED << lengths, nextNal, finished, net, receiverVars >>

-----------------------------------------------------------------------------
(* test_decode_rtp2h264.c *)

Bind ==
  /\ ~bound
  /\ bound' = TRUE
  /\ UNCHANGED << senderVars, lengths, nextNal, finished, clientVars, sent, net, lost,
                  got, out >>

DecodeEndAsStart(pkt) ==
  IF pkt.unit \in {"middle"} THEN pkt.payload ELSE << StartCode, pkt.hdr >> \o pkt.payload

(* decode_rtp2h264: the bytes one packet adds to the file *)
Decode(pkt) ==
  IF pkt.unit \in {"middle", "end"} THEN pkt.payload
  ELSE << StartCode, pkt.hdr >> \o pkt.payload

(* recv, then decode_rtp2h264.  Packets arrive in the order they were sent. *)
Receive ==
  /\ bound /\ net # << >>
  /\ out' = out \o Decode(sent[Head(net)])
  /\ got' = Append(got, Head(net))
  /\ net' = Tail(net)
  /\ UNCHANGED << senderVars, lengths, nextNal, finished, clientVars, sent, lost, bound >>

-----------------------------------------------------------------------------
Init ==
  /\ InitSender
  /\ lengths \in Files
  /\ nextNal = 0
  /\ finished = FALSE
  /\ sockOpen = TRUE
  /\ sendFailN = 0
  /\ sockError = FALSE
  /\ bound \in {TRUE, ~LateReceiver}
  /\ sent = << >>
  /\ failures = 0
  /\ net = << >>
  /\ lost = {}
  /\ got = << >>
  /\ out = << >>

Send == SendArrives \/ SendDropped \/ SendRefused \/ SendFails
Sender == ReadNal \/ ReadEnd \/ Send

Next == Sender \/ Bind \/ Receive

Spec == Init /\ [][Next]_vars

(* Both programs keep running; nothing obliges anybody to start the receiver *)
FairSpec == Spec /\ WF_vars(Sender) /\ WF_vars(Receive)

-----------------------------------------------------------------------------
Packets ==
  [unit : UnitType, hdr : Nat \X Nat, payload : Seq(Nat \X Nat),
   seq : 0 .. SeqMod - 2, ts : 0 .. TsMod - 1, marker : {0, 1}]

TypeOK ==
  /\ tsCurrent \in 0 .. TsMod - 1
  /\ seqNum \in 0 .. SeqMod - 1
  /\ nalu \in Seq(Nat \X Nat)
  /\ fuSeq \in Nat
  /\ lengths \in Files
  /\ nextNal \in Nat
  /\ finished \in BOOLEAN
  /\ sockOpen \in BOOLEAN
  /\ sendFailN \in Nat
  /\ sockError \in BOOLEAN
  /\ bound \in BOOLEAN
  /\ sent \in Seq(Packets)
  /\ failures \in Nat
  /\ net \in Seq(1 .. Len(sent))
  /\ lost \in SUBSET (1 .. Len(sent))
  /\ got \in Seq(1 .. Len(sent))
  /\ out \in Seq({StartCode} \cup (Nat \X Nat))

(* The receiver has no other means than the numbers to notice a loss *)
SequenceNumbered == NumberedInOrder(sent)

(* Timestamps group the fragments of a NAL, whatever was lost before *)
TimestampPerNal == TimestampsTellNals(sent)

(* Without loss the receiver's file is always a beginning of what it should *)
(* be, cut at a packet: fragmentation and decoding undo each other.         *)
FileIsPrefix ==
  LET whole == AllWritten[ReadableNals]
  IN lost = {} => /\ Len(out) <= Len(whole)
                  /\ out = SubSeq(whole, 1, Len(out))

(* Without loss everything the sender could read arrives and is written *)
FileArrives == <>[](lost = {} => out = AllWritten[ReadableNals])

(* The NAL whose packets have all been decoded and are not followed by the   *)
(* fragments of a NAL whose start was lost: it is in the file, intact.  A    *)
(* loss damages the NAL it hits and at most the one before it.               *)
PacketsOf(n) == {i \in 1 .. Len(sent) : sent[i].hdr = << n, 1 >>}

CleanlyReceived(n) ==
  \E a, b \in 1 .. Len(got) :
    /\ a <= b
    /\ {got[i] : i \in a .. b} = PacketsOf(n)
    /\ nextNal > n /\ (nextNal = n + 1 => nalu = << >>)
    /\ b < Len(got) => sent[got[b + 1]].unit \in {"single", "start"}

IntactAt(n, p) ==
  LET q == p + Len(Written(n))
  IN /\ q <= Len(out) + 1
     /\ SubSeq(out, p, q - 1) = Written(n)
     /\ q <= Len(out) => out[q] = StartCode

DamageContained ==
  \A n \in 1 .. ReadableNals :
    CleanlyReceived(n) => \E p \in 1 .. Len(out) : IntactAt(n, p)

(* send_h264file_rtp.c:78: the client is given up when the number of sends  *)
(* that failed in a row reaches MAX_SEND_FAIL_N.                            *)
ClosedAfterFailuresInARow ==
  [][sockOpen /\ ~sockOpen' => failures' >= MaxSendFail]_vars
=============================================================================
