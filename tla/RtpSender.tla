------------------------------- MODULE RtpSender -------------------------------
(***************************************************************************)
(* h264nal2rtp_send, copied into client/udp/client.c, send_h264file_rtp.c  *)
(* and test_tcp_send_nal.c: a NAL becomes one RTP packet, or FU-A fragments *)
(* of RTP_PAYLOAD_MAX_SIZE bytes each.  A byte is any value: a NAL is a     *)
(* sequence of them, its header first.  The function's static variables    *)
(* live on from call to call; one step is one packet.  What sending does    *)
(* is left to the modules that extend this one.                            *)
(***************************************************************************)
EXTENDS Integers, Sequences

CONSTANTS PayloadMax,      \* RTP_PAYLOAD_MAX_SIZE
          SeqMod,          \* 2^16: seq_num is a uint16_t
          TsMod,           \* 2^32: ts_current is a uint32_t
          ClockRate        \* 90000

ASSUME PayloadAssumption == PayloadMax \in Nat \ {0, 1}
ASSUME SeqAssumption == SeqMod \in Nat \ {0, 1, 2}
ASSUME ClockAssumption == TsMod \in Nat \ {0} /\ ClockRate \in Nat

VARIABLES tsCurrent,       \* static uint32_t ts_current
          seqNum,          \* static uint16_t seq_num
          nalu,            \* the NAL of the call in progress, << >> between calls
          fuSeq            \* fu_seq, the fragment to send next

senderVars == << tsCurrent, seqNum, nalu, fuSeq >>

-----------------------------------------------------------------------------
(* The packets of a NAL of len bytes: fu_pack_num, or one *)
FuPackNum(len) ==
  IF len % PayloadMax = 0 THEN len \div PayloadMax ELSE len \div PayloadMax + 1

(* A byte is left out of every fragment, as if each had the header *)
FragmentSkips(bytes, i) ==
  SubSeq(bytes, PayloadMax * i + 2, IF i + 1 < FuPackNum(Len(bytes))
                                    THEN PayloadMax * (i + 1) ELSE Len(bytes))

(* The payload of fragment i: the header byte is left out of the first *)
Fragment(bytes, i) ==
  SubSeq(bytes, IF i = 0 THEN 2 ELSE PayloadMax * i + 1,
                IF i + 1 < FuPackNum(Len(bytes)) THEN PayloadMax * (i + 1) ELSE Len(bytes))

(* Off by one: the last fragment is never sent *)
LastPacketEarly == fuSeq + 2 >= FuPackNum(Len(nalu))

LastPacket == fuSeq + 1 >= FuPackNum(Len(nalu))

(* single: the type of the NAL itself; the others: type 28 with s and e bits *)
Unit ==
  IF Len(nalu) <= PayloadMax THEN "single"
  ELSE IF fuSeq = 0 THEN "start"
  ELSE IF LastPacket THEN "end" ELSE "middle"

NextSeq == (seqNum + 1) % SeqMod

(* The packet in SENDBUFFER.  hdr stands for the f, nri and type fields,    *)
(* copied from nalu_buf[0]; seq is ++seq_num % UINT16_MAX.                  *)
Packet ==
  [ unit |-> Unit,
    hdr |-> nalu[1],
    payload |-> Fragment(nalu, fuSeq),
    seq |-> NextSeq % (SeqMod - 1),
    ts |-> tsCurrent,
    marker |-> IF Unit = "end" THEN 1 ELSE 0 ]

-----------------------------------------------------------------------------
InitSender ==
  /\ tsCurrent = 0
  /\ seqNum = 0
  /\ nalu = << >>
  /\ fuSeq = 0

(* The clock is not advanced *)
CallKeepsClock(framerate, bytes) ==
  /\ nalu = << >>
  /\ nalu' = bytes
  /\ fuSeq' = 0
  /\ UNCHANGED << tsCurrent, seqNum >>

(* Entry of h264nal2rtp_send: the clock moves before the length is looked   *)
(* at, and an empty NAL returns -1 at once (nalu stays << >>).              *)
Call(framerate, bytes) ==
  /\ nalu = << >>
  /\ tsCurrent' = (tsCurrent + ClockRate \div framerate) % TsMod
  /\ nalu' = bytes
  /\ fuSeq' = 0
  /\ UNCHANGED seqNum

(* Only the last packet of a NAL moves the number *)
SendNextNumbersNals ==
  /\ nalu # << >>
  /\ IF LastPacket
     THEN nalu' = << >> /\ fuSeq' = 0 /\ seqNum' = NextSeq
     ELSE fuSeq' = fuSeq + 1 /\ UNCHANGED << nalu, seqNum >>
  /\ UNCHANGED tsCurrent

(* The next packet of the call goes out; the call returns with the last *)
SendNext ==
  /\ nalu # << >>
  /\ seqNum' = NextSeq
  /\ IF LastPacket
     THEN nalu' = << >> /\ fuSeq' = 0
     ELSE fuSeq' = fuSeq + 1 /\ UNCHANGED nalu
  /\ UNCHANGED tsCurrent

-----------------------------------------------------------------------------
UnitType == {"single", "start", "middle", "end"}

(* What a sequence of packets handed to the socket has to look like *)

(* Packets are numbered one apart, modulo UINT16_MAX, with one exception:   *)
(* % UINT16_MAX numbers both 65535 and 0 as 0.                              *)
NumberedInOrder(pkts) ==
  \A i \in 1 .. Len(pkts) - 1 :
    \/ pkts[i + 1].seq = (pkts[i].seq + 1) % (SeqMod - 1)
    \/ pkts[i].seq = 0 /\ pkts[i + 1].seq = 0

(* The packets of a NAL, and only they, share a timestamp *)
TimestampsTellNals(pkts) ==
  \A i, j \in 1 .. Len(pkts) : pkts[i].ts = pkts[j].ts <=> pkts[i].hdr = pkts[j].hdr
=============================================================================
