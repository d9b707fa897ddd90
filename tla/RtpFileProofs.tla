----------------------------- MODULE RtpFileProofs -----------------------------
(***************************************************************************)
(* Theorems about RtpFile.                                                 *)
(*   Of every execution: type correctness; the numbering of the packets,   *)
(* which a receiver has to rely on to notice a loss; and one inductive      *)
(* invariant, FileInv, which labels every packet sent with the NAL it was  *)
(* made from.  From the labels follow what the file written has to do with *)
(* the file read (FileIsPrefix), what a loss can damage (DamageContained)  *)
(* and which packets share a timestamp (TimestampPerNal).                  *)
(***************************************************************************)
EXTENDS RtpFile, NatLemmas

Bytes == Nat \X Nat
UnitByte == {StartCode} \cup Bytes

(* seq_num, and the number of the packet sent last *)
Numbering ==
  /\ SequenceNumbered
  /\ sent # << >> => sent[Len(sent)].seq = seqNum % (SeqMod - 1)

-----------------------------------------------------------------------------
(* ++seq_num % UINT16_MAX is one more than the number before it, except     *)
(* that 65535 and 0 are both numbered 0.                                    *)
LEMMA NextNumber ==
  ASSUME NEW s \in 0 .. SeqMod - 1,
         NEW m, m = SeqMod - 1
  PROVE  LET old == s % m
             new == ((s + 1) % SeqMod) % m
         IN  new = (old + 1) % m \/ (old = 0 /\ new = 0)
<1>1. SeqMod \in Nat \ {0} /\ m \in Nat \ {0} /\ m > 1
  BY SeqAssumption
<1>2. CASE s < m - 1
  <2>1. s + 1 \in 0 .. SeqMod - 1 /\ s + 1 \in 0 .. m - 1 /\ s \in 0 .. m - 1
    BY <1>1, <1>2
  <2>2. (s + 1) % SeqMod = s + 1 /\ (s + 1) % m = s + 1 /\ s % m = s
    BY <1>1, <2>1, SmallMod
  <2> QED BY <2>2
<1>3. CASE s = m - 1
  <2>1. s + 1 = m /\ m \in 0 .. SeqMod - 1 /\ s \in 0 .. m - 1
    BY <1>1, <1>3
  <2>2. m % SeqMod = m /\ s % m = s /\ m % m = 0
    BY <1>1, <2>1, SmallMod
  <2> QED BY <2>1, <2>2
<1>4. CASE s = m
  <2>1. (s + 1) % SeqMod = 0 /\ s % m = 0 /\ 0 % m = 0
    BY <1>1, <1>4, SmallMod
  <2> QED BY <2>1
<1> QED BY <1>1, <1>2, <1>3, <1>4

(* What copy_nal_from_file returns *)
LEMMA NalType ==
  ASSUME TypeOK, NEW k \in Nat, k <= ReadableNals
  PROVE  (IF k = 0 THEN << >> ELSE Nal(k)) \in Seq(Bytes)
<1>1. lengths \in Seq(Nat \ {0})
  BY FileAssumption DEF TypeOK
<1>2. CASE k = 0
  BY <1>2
<1>3. CASE k # 0
  <2>1. k \in 1 .. Len(lengths)
    BY <1>1, <1>3 DEF ReadableNals
  <2>2. lengths[k] \in Nat
    BY <1>1, <2>1
  <2>3. Nal(k) \in Seq(Bytes)
    BY <2>2 DEF Nal, Bytes
  <2> QED BY <1>3, <2>3
<1> QED BY <1>2, <1>3

LEMMA PacketType ==
  ASSUME TypeOK, nalu # << >>
  PROVE  Packet \in Packets /\ Packet.seq = NextSeq % (SeqMod - 1)
<1>1. nalu \in Seq(Bytes) /\ Len(nalu) \in Nat \ {0}
  BY EmptySeq DEF TypeOK, Bytes
<1>2. nalu[1] \in Bytes
  BY <1>1
<1>3. Fragment(nalu, fuSeq) \in Seq(Bytes)
  <2> DEFINE a == IF fuSeq = 0 THEN 2 ELSE PayloadMax * fuSeq + 1
             b == IF fuSeq + 1 < FuPackNum(Len(nalu)) THEN PayloadMax * (fuSeq + 1)
                  ELSE Len(nalu)
  <2>1. PayloadMax \in Nat /\ fuSeq \in Nat
    BY PayloadAssumption DEF TypeOK
  <2>2. a \in Nat \ {0} /\ b \in Nat
    BY <1>1, <2>1
  <2>3. b <= Len(nalu)
    <3>1. CASE fuSeq + 1 < FuPackNum(Len(nalu))
      <4>1. PICK q \in Nat : q = Len(nalu) \div PayloadMax
        BY <1>1, PayloadAssumption
      <4>2. PayloadMax * q <= Len(nalu)
        BY <1>1, <4>1, PayloadAssumption
      <4>3. fuSeq + 1 <= q
        BY <1>1, <2>1, <3>1, <4>1 DEF FuPackNum
      <4>4. PayloadMax * (fuSeq + 1) <= PayloadMax * q
        BY <2>1, <4>3
      <4> QED BY <1>1, <2>1, <3>1, <4>2, <4>4
    <3>2. CASE ~(fuSeq + 1 < FuPackNum(Len(nalu)))
      BY <1>1, <3>2
    <3> QED BY <3>1, <3>2
  <2> HIDE DEF a, b
  <2>4. SubSeq(nalu, a, b) \in Seq(Bytes)
    BY <1>1, <2>2, <2>3, SubSeqProperties
  <2> QED BY <2>4 DEF Fragment, a, b
<1>4. NextSeq % (SeqMod - 1) \in 0 .. SeqMod - 2
  <2>1. NextSeq \in Nat
    BY SeqAssumption, SmallMod DEF TypeOK, NextSeq
  <2> QED BY <2>1, SeqAssumption, SmallMod
<1>5. Unit \in UnitType
  BY DEF Unit, UnitType
<1> QED BY <1>2, <1>3, <1>4, <1>5 DEF Packet, Packets, TypeOK, Bytes

-----------------------------------------------------------------------------
LEMMA TypeInit == Init => TypeOK /\ Numbering
<1> SUFFICES ASSUME Init PROVE TypeOK /\ Numbering
  OBVIOUS
<1> USE DEF Init, InitSender
<1>1. tsCurrent \in 0 .. TsMod - 1 /\ seqNum \in 0 .. SeqMod - 1
  BY ClockAssumption, SeqAssumption
<1>2. nalu \in Seq(Nat \X Nat) /\ fuSeq \in Nat /\ nextNal \in Nat
  OBVIOUS
<1>3. sent \in Seq(Packets) /\ Len(sent) = 0
  OBVIOUS
<1>4. net \in Seq(1 .. Len(sent)) /\ got \in Seq(1 .. Len(sent))
  OBVIOUS
<1>5. lost \in SUBSET (1 .. Len(sent))
  OBVIOUS
<1>6. out \in Seq({StartCode} \cup (Nat \X Nat))
  OBVIOUS
<1>7. bound \in BOOLEAN
  BY LateAssumption
<1>8. TypeOK
  BY <1>1, <1>2, <1>3, <1>4, <1>5, <1>6, <1>7 DEF TypeOK
<1>9. Numbering
  BY <1>3 DEF Numbering, SequenceNumbered, NumberedInOrder
<1> QED BY <1>8, <1>9

(* A packet handed to send, whatever becomes of it *)
LEMMA HandedType ==
  ASSUME TypeOK, Numbering, SendNext, Handed
  PROVE  /\ sent' \in Seq(Packets)
         /\ Len(sent') = Len(sent) + 1
         /\ Numbering'
         /\ seqNum' \in 0 .. SeqMod - 1
         /\ nalu' \in Seq(Nat \X Nat)
         /\ fuSeq' \in Nat
<1>1. sent \in Seq(Packets) /\ Len(sent) \in Nat /\ seqNum \in 0 .. SeqMod - 1
  BY DEF TypeOK
<1> DEFINE p == Packet
<1>2. p \in Packets /\ p.seq = NextSeq % (SeqMod - 1)
  BY PacketType DEF SendNext
<1>3. sent' = Append(sent, p)
  BY DEF Handed
<1> HIDE DEF p
<1>4. /\ sent' \in Seq(Packets)
      /\ Len(sent') = Len(sent) + 1
      /\ \A i \in 1 .. Len(sent) : sent'[i] = sent[i]
      /\ sent'[Len(sent) + 1] = p
  BY <1>1, <1>2, <1>3, AppendProperties
<1>5. seqNum' = NextSeq /\ seqNum' \in 0 .. SeqMod - 1
  BY <1>1, SeqAssumption, SmallMod DEF SendNext, NextSeq
<1>6. sent'[Len(sent')].seq = seqNum' % (SeqMod - 1)
  BY <1>1, <1>2, <1>4, <1>5
<1>7. ASSUME NEW i \in 1 .. Len(sent') - 1
      PROVE  \/ sent'[i + 1].seq = (sent'[i].seq + 1) % (SeqMod - 1)
             \/ sent'[i].seq = 0 /\ sent'[i + 1].seq = 0
  <2>1. CASE i < Len(sent)
    <3>1. i \in 1 .. Len(sent) - 1 /\ i + 1 \in 1 .. Len(sent)
      BY <1>1, <1>4, <2>1
    <3>2. sent'[i] = sent[i] /\ sent'[i + 1] = sent[i + 1]
      BY <1>4, <3>1
    <3>3. \/ sent[i + 1].seq = (sent[i].seq + 1) % (SeqMod - 1)
          \/ sent[i].seq = 0 /\ sent[i + 1].seq = 0
      BY <3>1 DEF Numbering, SequenceNumbered, NumberedInOrder
    <3> QED BY <3>2, <3>3
  <2>2. CASE i = Len(sent)
    <3>1. sent # << >> /\ sent'[i].seq = seqNum % (SeqMod - 1)
      BY <1>1, <1>4, <2>2 DEF Numbering
    <3>2. sent'[i + 1].seq = ((seqNum + 1) % SeqMod) % (SeqMod - 1)
      BY <1>2, <1>4, <2>2 DEF NextSeq
    <3> QED BY <1>1, <3>1, <3>2, NextNumber
  <2> QED BY <1>1, <1>4, <2>1, <2>2
<1>8. Numbering'
  BY <1>6, <1>7 DEF Numbering, SequenceNumbered, NumberedInOrder
<1>9. nalu' \in Seq(Nat \X Nat) /\ fuSeq' \in Nat
  <2>1. nalu \in Seq(Nat \X Nat) /\ fuSeq \in Nat
    BY DEF TypeOK
  <2>2. CASE LastPacket
    <3>1. nalu' = << >> /\ fuSeq' = 0
      BY <2>2 DEF SendNext
    <3> QED BY <3>1
  <2>3. CASE ~LastPacket
    <3>1. nalu' = nalu /\ fuSeq' = fuSeq + 1
      BY <2>3 DEF SendNext
    <3> QED BY <2>1, <3>1
  <2> QED BY <2>2, <2>3
<1> QED BY <1>4, <1>5, <1>8, <1>9

LEMMA LogGrows ==
  ASSUME NEW k \in Nat, NEW w \in Seq(1 .. k)
  PROVE  w \in Seq(1 .. k + 1) /\ Append(w, k + 1) \in Seq(1 .. k + 1)
<1>1. w \in Seq(1 .. k + 1)
  BY SeqDef
<1> QED BY <1>1, AppendProperties

LEMMA TypeNext == TypeOK /\ Numbering /\ [Next]_vars => TypeOK' /\ Numbering'
<1> SUFFICES ASSUME TypeOK, Numbering, [Next]_vars PROVE TypeOK' /\ Numbering'
  OBVIOUS
<1>1. ASSUME UNCHANGED << sent, seqNum >>
      PROVE  Numbering'
  BY <1>1 DEF Numbering, SequenceNumbered, NumberedInOrder
<1>2. CASE ReadNal
  <2> DEFINE bytes == IF nextNal = 0 THEN << >> ELSE Nal(nextNal)
  <2>1. bytes \in Seq(Bytes)
    BY <1>2, NalType DEF ReadNal, TypeOK
  <2>2. /\ nalu' = bytes /\ fuSeq' = 0 /\ seqNum' = seqNum
        /\ tsCurrent' = (tsCurrent + ClockRate \div Framerate) % TsMod
        /\ nextNal' = nextNal + 1
    BY <1>2 DEF ReadNal, Call
  <2>3. tsCurrent' \in 0 .. TsMod - 1
    <3>1. PICK step \in Nat : step = ClockRate \div Framerate
      BY ClockAssumption, FramerateAssumption
    <3>2. tsCurrent + step \in Nat
      BY <3>1 DEF TypeOK
    <3> QED BY <2>2, <3>1, <3>2, SmallMod, ClockAssumption
  <2>4. Numbering'
    BY <1>1, <1>2, <2>2 DEF ReadNal
  <2> HIDE DEF bytes
  <2>5. TypeOK'
    BY <1>2, <2>1, <2>2, <2>3 DEF ReadNal, TypeOK, clientVars, receiverVars, Bytes
  <2> QED BY <2>4, <2>5
<1>3. CASE ReadEnd
  <2>1. Numbering'
    BY <1>1, <1>3 DEF ReadEnd, senderVars
  <2>2. TypeOK'
    BY <1>3 DEF ReadEnd, TypeOK, senderVars, clientVars, receiverVars
  <2> QED BY <2>1, <2>2
<1>4. CASE Send
  <2>1. SendNext /\ Handed
    BY <1>4 DEF Send, SendArrives, SendDropped, SendRefused, SendFails
  <2>2. /\ sent' \in Seq(Packets)
        /\ Len(sent') = Len(sent) + 1
        /\ Numbering'
        /\ seqNum' \in 0 .. SeqMod - 1
        /\ nalu' \in Seq(Nat \X Nat)
        /\ fuSeq' \in Nat
        /\ tsCurrent' = tsCurrent
    BY <2>1, HandedType DEF SendNext
  <2>3. Len(sent) \in Nat
    BY DEF TypeOK
  <2>4. /\ net \in Seq(1 .. Len(sent'))
        /\ Append(net, Len(sent) + 1) \in Seq(1 .. Len(sent'))
        /\ got \in Seq(1 .. Len(sent'))
    BY <2>2, <2>3, LogGrows DEF TypeOK
  <2>5. /\ lost \in SUBSET (1 .. Len(sent'))
        /\ lost \cup {Len(sent) + 1} \in SUBSET (1 .. Len(sent'))
    <3>1. \A i \in lost : i \in 1 .. Len(sent)
      BY DEF TypeOK
    <3>2. \A i \in lost \cup {Len(sent) + 1} : i \in 1 .. Len(sent')
      BY <2>2, <2>3, <3>1
    <3> QED BY <3>2
  <2>6. CASE SendArrives
    BY <2>2, <2>4, <2>5, <2>6 DEF SendArrives, TypeOK, receiverVars
  <2>7. CASE SendDropped
    BY <2>2, <2>4, <2>5, <2>7 DEF SendDropped, TypeOK, receiverVars
  <2>8. CASE SendRefused
    BY <2>2, <2>4, <2>5, <2>8 DEF SendRefused, TypeOK, receiverVars
  <2>9. CASE SendFails
    <3>1. sendFailN' \in Nat /\ failures' \in Nat
      BY <2>9 DEF SendFails, TypeOK
    <3>2. sockOpen' \in BOOLEAN /\ sockError' \in BOOLEAN
      BY <2>9 DEF SendFails
    <3> QED BY <2>2, <2>4, <2>5, <2>9, <3>1, <3>2 DEF SendFails, TypeOK, receiverVars
  <2> QED BY <1>4, <2>6, <2>7, <2>8, <2>9 DEF Send
<1>5. CASE Bind
  <2>1. Numbering'
    BY <1>1, <1>5 DEF Bind, senderVars
  <2>2. TypeOK'
    BY <1>5 DEF Bind, TypeOK, senderVars, clientVars
  <2> QED BY <2>1, <2>2
<1>6. CASE Receive
  <2>1. Numbering'
    BY <1>1, <1>6 DEF Receive, senderVars
  <2>2. Head(net) \in 1 .. Len(sent) /\ Tail(net) \in Seq(1 .. Len(sent))
    BY <1>6 DEF Receive, TypeOK
  <2>3. sent[Head(net)] \in Packets
    BY <2>2 DEF TypeOK
  <2>4. Decode(sent[Head(net)]) \in Seq(UnitByte)
    <3> DEFINE p == sent[Head(net)]
    <3>1. p.payload \in Seq(Bytes) /\ p.hdr \in Bytes
      BY <2>3 DEF Packets, Bytes
    <3> HIDE DEF p
    <3>2. p.payload \in Seq(UnitByte)
      BY <3>1, SeqDef DEF UnitByte
    <3>3. << StartCode, p.hdr >> \in Seq(UnitByte)
      BY <3>1 DEF UnitByte
    <3>4. << StartCode, p.hdr >> \o p.payload \in Seq(UnitByte)
      BY <3>2, <3>3, ConcatProperties
    <3>5. Decode(p) \in Seq(UnitByte)
      BY <3>2, <3>4 DEF Decode
    <3> QED BY <3>5 DEF p
  <2>5. out' \in Seq(UnitByte)
    <3>1. out \in Seq(UnitByte)
      BY DEF TypeOK, UnitByte, Bytes
    <3> QED BY <1>6, <2>4, <3>1, ConcatProperties DEF Receive
  <2>6. got' \in Seq(1 .. Len(sent))
    BY <1>6, <2>2, AppendProperties DEF Receive, TypeOK
  <2>7. TypeOK'
    BY <1>6, <2>2, <2>5, <2>6
       DEF Receive, TypeOK, senderVars, clientVars, UnitByte, Bytes
  <2> QED BY <2>1, <2>7
<1>7. CASE UNCHANGED vars
  <2>1. Numbering'
    BY <1>1, <1>7 DEF vars, senderVars
  <2>2. TypeOK'
    BY <1>7 DEF vars, TypeOK, senderVars, clientVars, receiverVars
  <2> QED BY <2>1, <2>2
<1> QED BY <1>2, <1>3, <1>4, <1>5, <1>6, <1>7 DEF Next, Sender

-----------------------------------------------------------------------------
THEOREM Invariance == Spec => [](TypeOK /\ Numbering)
<1> QED BY TypeInit, TypeNext, PTL DEF Spec

(* Type correctness: every packet has its fields in their ranges, for any   *)
(* files, payload size and widths of seq_num and ts_current.                *)
THEOREM TypeCorrect == Spec => []TypeOK
<1> QED BY Invariance, PTL

(* The packets of a file are numbered one apart, but for the double 0 that  *)
(* ++seq_num % UINT16_MAX gives where seq_num wraps around.                 *)
THEOREM NumbersStepByOne == Spec => []SequenceNumbered
<1>1. Numbering => SequenceNumbered
  BY DEF Numbering
<1> QED BY <1>1, Invariance, PTL

-----------------------------------------------------------------------------
(* What the packets are.  Every packet sent has a label: the NAL of which it is  *)
(* a fragment, and which one.  The labels follow one another (Following), and    *)
(* the next is that of the packet h264nal2rtp_send is about to build (Coming).   *)

Step == ClockRate \div Framerate
FuOf(n) == FuPackNum(lengths[n])

(* Bytes of NAL n in its fragments up to f, and of Written(n) before f *)
Upto(n, f) == IF f + 1 < FuOf(n) THEN PayloadMax * (f + 1) ELSE lengths[n]
Before(n, f) == IF f = 0 THEN 0 ELSE 1 + PayloadMax * f

IsFragment(p, n, f) ==
  /\ p.hdr = << n, 1 >>
  /\ Decode(p) \in Seq(UnitByte) /\ Len(Decode(p)) = 1 + Upto(n, f) - Before(n, f)
  /\ \A k \in 1 .. Len(Decode(p)) : Decode(p)[k] = Written(n)[Before(n, f) + k]
  /\ p.unit \in {"single", "start"} <=> f = 0
  /\ p.ts = ((n + 1) * Step) % TsMod

Following(g) == IF g[2] + 1 < FuOf(g[1]) THEN << g[1], g[2] + 1 >> ELSE << g[1] + 1, 0 >>
Coming == IF nalu # << >> THEN << nextNal - 1, fuSeq >>
          ELSE << IF nextNal = 0 THEN 1 ELSE nextNal, 0 >>

SenderInv ==
  /\ nextNal <= ReadableNals + 1
  /\ nalu = << >> => fuSeq = 0
  /\ nalu # << >> => nextNal >= 2 /\ nalu = Nal(nextNal - 1) /\ fuSeq < FuOf(nextNal - 1)
  /\ tsCurrent = (nextNal * Step) % TsMod

Labelled(label) ==
  /\ label \in [1 .. Len(sent) + 1 -> (Nat \ {0}) \X Nat]
  /\ label[1] = << 1, 0 >>
  /\ label[Len(sent) + 1] = Coming
  /\ \A i \in 1 .. Len(sent) :
       /\ label[i][1] <= ReadableNals /\ label[i][2] < FuOf(label[i][1])
       /\ IsFragment(sent[i], label[i][1], label[i][2])
       /\ label[i + 1] = Following(label[i])

-----------------------------------------------------------------------------
(* Fragments *)

LEMMA FuFacts ==
  ASSUME NEW l \in Nat \ {0}
  PROVE  /\ FuPackNum(l) \in Nat \ {0}
         /\ \A f \in Nat : f + 1 < FuPackNum(l) => PayloadMax * (f + 1) < l
         /\ \A f \in Nat : f < FuPackNum(l) => PayloadMax * f < l
         /\ l <= PayloadMax <=> FuPackNum(l) = 1
<1>1. PayloadMax \in Nat \ {0, 1}
  BY PayloadAssumption
<1>2. PICK q \in Nat, r \in 0 .. PayloadMax - 1 :
        l = PayloadMax * q + r /\ l \div PayloadMax = q /\ l % PayloadMax = r
  BY <1>1
<1>3. PICK fu : fu = FuPackNum(l)
  OBVIOUS
<1>4. fu = IF r = 0 THEN q ELSE q + 1
  BY <1>2, <1>3 DEF FuPackNum
<1>5. fu \in Nat \ {0}
  <2>1. CASE r = 0
    <3>1. q # 0
      BY <1>1, <1>2, <2>1
    <3> QED BY <1>4, <2>1, <3>1
  <2>2. CASE r # 0
    BY <1>4, <2>2
  <2> QED BY <2>1, <2>2
<1>6. PayloadMax * (fu - 1) < l
  <2>1. CASE r = 0
    <3>1. PayloadMax * (q - 1) = PayloadMax * q - PayloadMax
      BY <1>1
    <3> QED BY <1>1, <1>2, <1>4, <2>1, <3>1
  <2>2. CASE r # 0
    <3>1. fu - 1 = q
      BY <1>4, <2>2
    <3> QED BY <1>1, <1>2, <2>2, <3>1
  <2> QED BY <2>1, <2>2
<1>7. \A f \in Nat : f <= fu - 1 => PayloadMax * f <= PayloadMax * (fu - 1)
  <2>1. \A f, x \in Nat : f <= x => PayloadMax * f <= PayloadMax * x
    BY <1>1
  <2>2. fu - 1 \in Nat
    BY <1>5
  <2> QED BY <2>1, <2>2
<1>8. \A f \in Nat : f < fu => PayloadMax * f < l
  <2>1. ASSUME NEW f \in Nat, f < fu
        PROVE  PayloadMax * f < l
    <3>1. f <= fu - 1
      BY <1>5, <2>1
    <3>2. PICK x \in Nat, y \in Nat : x = PayloadMax * f /\ y = PayloadMax * (fu - 1)
      BY <1>1, <1>5
    <3>3. x <= y /\ y < l
      BY <1>6, <1>7, <3>1, <3>2
    <3> QED BY <3>2, <3>3
  <2> QED BY <2>1
<1>9. \A f \in Nat : f + 1 < fu => PayloadMax * (f + 1) < l
  BY <1>8
<1>10. l <= PayloadMax <=> fu = 1
  <2>1. CASE fu = 1
    <3>1. (r = 0 /\ q = 1) \/ (r # 0 /\ q = 0)
      BY <1>4, <2>1
    <3>2. PayloadMax * 1 = PayloadMax /\ PayloadMax * 0 = 0
      BY <1>1
    <3>3. l <= PayloadMax
      BY <1>1, <1>2, <3>1, <3>2
    <3> QED BY <2>1, <3>3
  <2>2. CASE fu # 1
    <3>1. 1 < fu
      BY <1>5, <2>2
    <3>2. PayloadMax * 1 < l /\ PayloadMax * 1 = PayloadMax
      BY <1>1, <1>8, <3>1
    <3> QED BY <1>1, <2>2, <3>2
  <2> QED BY <2>1, <2>2
<1> QED BY <1>3, <1>5, <1>8, <1>9, <1>10

(* A NAL of the file, and what the receiver should write for it *)
LEMMA NalFacts ==
  ASSUME TypeOK, NEW n \in 1 .. ReadableNals
  PROVE  /\ lengths[n] \in Nat \ {0}
         /\ Nal(n) \in Seq(Bytes) /\ Len(Nal(n)) = lengths[n]
         /\ \A k \in 1 .. lengths[n] : Nal(n)[k] = << n, k >>
         /\ Written(n) \in Seq(UnitByte) /\ Len(Written(n)) = lengths[n] + 1
         /\ Written(n)[1] = StartCode
         /\ \A k \in 1 .. lengths[n] : Written(n)[k + 1] = << n, k >>
<1>1. lengths \in Seq(Nat \ {0})
  BY FileAssumption DEF TypeOK
<1>2. n \in 1 .. Len(lengths) /\ n \in Nat
  BY <1>1 DEF ReadableNals
<1>3. PICK l \in Nat \ {0} : l = lengths[n]
  BY <1>1, <1>2
<1>4. PICK nal : nal = Nal(n)
  OBVIOUS
<1>5. nal = [k \in 1 .. l |-> << n, k >>]
  BY <1>3, <1>4 DEF Nal
<1>6. nal \in Seq(Bytes) /\ Len(nal) = l /\ \A k \in 1 .. l : nal[k] = << n, k >>
  <2>1. \A k \in 1 .. l : << n, k >> \in Bytes
    BY <1>2 DEF Bytes
  <2>2. nal \in [1 .. l -> Bytes] /\ DOMAIN nal = 1 .. l /\ \A k \in 1 .. l : nal[k] = << n, k >>
    BY <1>5, <2>1
  <2>3. nal \in Seq(Bytes)
    BY <2>2, SeqDef, Zenon
  <2> QED BY <1>3, <2>2, <2>3, LenProperties
<1>7. nal \in Seq(UnitByte) /\ << StartCode >> \in Seq(UnitByte) /\ Len(<< StartCode >>) = 1
      /\ << StartCode >>[1] = StartCode
  BY <1>6, SeqDef DEF UnitByte
<1>8. PICK w : w = << StartCode >> \o nal
  OBVIOUS
<1>9. /\ w \in Seq(UnitByte) /\ Len(w) = 1 + l
      /\ \A i \in 1 .. 1 + l : w[i] = IF i <= 1 THEN << StartCode >>[i] ELSE nal[i - 1]
  BY <1>6, <1>7, <1>8, ConcatProperties
<1>10. w[1] = StartCode /\ \A k \in 1 .. l : w[k + 1] = << n, k >>
  <2>1. 1 \in 1 .. 1 + l /\ \A k \in 1 .. l : k + 1 \in 1 .. 1 + l /\ ~(k + 1 <= 1) /\ k + 1 - 1 = k
    OBVIOUS
  <2> QED BY <1>6, <1>7, <1>9, <2>1
<1> QED BY <1>3, <1>4, <1>6, <1>8, <1>9, <1>10 DEF Written

-----------------------------------------------------------------------------
(* The file the receiver should write *)

LEMMA Joined ==
  ASSUME NEW s \in Seq(UnitByte), NEW t \in Seq(UnitByte),
         NEW x \in Nat, x = Len(s), NEW y \in Nat, y = Len(t)
  PROVE  /\ s \o t \in Seq(UnitByte) /\ Len(s \o t) = x + y
         /\ \A i \in 1 .. x : (s \o t)[i] = s[i]
         /\ \A i \in 1 .. y : (s \o t)[x + i] = t[i]
<1>1. PICK u : u = s \o t
  OBVIOUS
<1>2. /\ u \in Seq(UnitByte) /\ Len(u) = Len(s) + Len(t)
      /\ \A i \in 1 .. Len(s) + Len(t) : u[i] = IF i <= Len(s) THEN s[i] ELSE t[i - Len(s)]
  BY <1>1, ConcatProperties
<1>3. /\ Len(u) = x + y
      /\ \A i \in 1 .. x + y : u[i] = IF i <= x THEN s[i] ELSE t[i - x]
  BY <1>2
<1>4. \A i \in 1 .. y : x + i \in 1 .. x + y /\ ~(x + i <= x) /\ x + i - x = i
  OBVIOUS
<1>5. \A i \in 1 .. y : u[x + i] = t[i]
  BY <1>3, <1>4
<1>6. \A i \in 1 .. x : u[i] = s[i]
  BY <1>3
<1> QED BY <1>1, <1>2, <1>3, <1>5, <1>6

AllWrittenIs(all) ==
  all = [n \in 0 .. ReadableNals |-> IF n = 0 THEN << >> ELSE all[n - 1] \o Written(n)]

LEMMA ReadableFacts ==
  ASSUME TypeOK
  PROVE  lengths \in Seq(Nat \ {0}) /\ ReadableNals \in Nat
<1>1. lengths \in Seq(Nat \ {0})
  BY FileAssumption DEF TypeOK
<1>2. lengths # << >> => Len(lengths) \in Nat \ {0}
  BY <1>1, EmptySeq
<1> QED BY <1>1, <1>2 DEF ReadableNals

LEMMA AllWrittenGoesOn ==
  ASSUME TypeOK
  PROVE  /\ AllWritten \in [0 .. ReadableNals -> Seq(UnitByte)]
         /\ AllWritten[0] = << >>
         /\ \A n \in 1 .. ReadableNals : AllWritten[n] = AllWritten[n - 1] \o Written(n)
<1>1. PICK R \in Nat : R = ReadableNals
  BY ReadableFacts
<1> DEFINE g == [p \in Seq(UnitByte) \X Nat |->
                   IF p[2] \in 1 .. R THEN p[1] \o Written(p[2]) ELSE p[1]]
<1>2. \A n \in 1 .. R : Written(n) \in Seq(UnitByte)
  BY <1>1, NalFacts
<1>3. ASSUME NEW q \in Seq(UnitByte), NEW n \in Nat
      PROVE  (IF n \in 1 .. R THEN q \o Written(n) ELSE q) \in Seq(UnitByte)
  BY <1>2, ConcatProperties
<1>4. g \in [Seq(UnitByte) \X Nat -> Seq(UnitByte)]
  BY <1>3
<1>5. \A q \in Seq(UnitByte), n \in Nat :
        g[<<q, n>>] = IF n \in 1 .. R THEN q \o Written(n) ELSE q
  OBVIOUS
<1> HIDE DEF g
<1>6. << >> \in Seq(UnitByte)
  BY EmptySeq
<1>7. PICK r \in [Nat -> Seq(UnitByte)] : GoesOn(r, << >>, g)
  BY <1>4, <1>6, Recursion
<1> DEFINE f == [n \in 0 .. R |-> r[n]]
<1>8. ASSUME NEW n \in 0 .. R, n # 0
      PROVE  r[n] = r[n - 1] \o Written(n)
  <2>1. n - 1 \in Nat /\ n - 1 + 1 = n /\ n \in 1 .. R /\ n \in Nat
    BY <1>8
  <2>2. r[n] = g[<<r[n - 1], n>>] /\ r[n - 1] \in Seq(UnitByte)
    BY <1>7, <2>1 DEF GoesOn
  <2> QED BY <1>5, <2>1, <2>2
<1>9. \A n \in 0 .. R : n # 0 => f[n] = r[n] /\ f[n - 1] = r[n - 1]
  OBVIOUS
<1>10. \A n \in 0 .. R : r[n] = IF n = 0 THEN << >> ELSE f[n - 1] \o Written(n)
  BY <1>7, <1>8, <1>9 DEF GoesOn
<1>11. f = [n \in 0 .. R |-> IF n = 0 THEN << >> ELSE f[n - 1] \o Written(n)]
  BY <1>10, Zenon
<1> HIDE DEF f
<1>12. AllWrittenIs(f)
  BY <1>1, <1>11 DEF AllWrittenIs
<1>13. AllWrittenIs(CHOOSE all : AllWrittenIs(all))
  BY <1>12
<1>14. AllWritten = CHOOSE all : AllWrittenIs(all)
  BY DEF AllWritten, AllWrittenIs
<1>15. PICK all : all = AllWritten
  OBVIOUS
<1>16. AllWrittenIs(all)
  BY <1>13, <1>14, <1>15
<1>17. all = [n \in 0 .. R |-> IF n = 0 THEN << >> ELSE all[n - 1] \o Written(n)]
  BY <1>1, <1>16 DEF AllWrittenIs
<1>18. DOMAIN all = 0 .. R /\ all[0] = << >>
       /\ \A n \in 1 .. R : all[n] = all[n - 1] \o Written(n)
  <2>1. DOMAIN all = 0 .. R
    BY <1>17
  <2>2. \A n \in 0 .. R : all[n] = IF n = 0 THEN << >> ELSE all[n - 1] \o Written(n)
    BY <1>17, Zenon
  <2>3. 0 \in 0 .. R /\ \A n \in 1 .. R : n \in 0 .. R /\ n # 0
    OBVIOUS
  <2> QED BY <2>1, <2>2, <2>3
<1> DEFINE T == {n \in Nat : n <= R => all[n] \in Seq(UnitByte)}
<1>19. 0 \in T
  BY <1>6, <1>18
<1>20. ASSUME NEW n \in Nat, n \in T
       PROVE  n + 1 \in T
  <2> SUFFICES ASSUME n + 1 <= R
               PROVE  all[n + 1] \in Seq(UnitByte)
    OBVIOUS
  <2>1. PICK m \in 1 .. R : m = n + 1 /\ m - 1 = n
    OBVIOUS
  <2>2. all[m] = all[n] \o Written(m) /\ all[n] \in Seq(UnitByte)
    <3>1. all[m] = all[m - 1] \o Written(m)
      BY <1>18
    <3>2. n <= R => all[n] \in Seq(UnitByte)
      BY <1>20
    <3> QED BY <2>1, <3>1, <3>2
  <2>3. Written(m) \in Seq(UnitByte)
    BY <1>2
  <2>4. all[n] \o Written(m) \in Seq(UnitByte)
    BY <2>2, <2>3, ConcatProperties
  <2> QED BY <2>1, <2>2, <2>4
<1> HIDE DEF T
<1>21. Nat \subseteq T
  BY <1>19, <1>20, SetInduction
<1>22. \A n \in 0 .. R : all[n] \in Seq(UnitByte)
  BY <1>21 DEF T
<1>23. all = [n \in 0 .. R |-> all[n]]
  BY <1>17, <1>18
<1>24. all \in [0 .. R -> Seq(UnitByte)]
  BY <1>22, <1>23
<1> QED BY <1>1, <1>15, <1>18, <1>24

Whole == AllWritten[ReadableNals]
Base(n) == Len(AllWritten[n - 1])

(* Where NAL n is in it *)
LEMMA WhereIs ==
  ASSUME TypeOK, NEW n \in 1 .. ReadableNals
  PROVE  /\ Base(n) \in Nat /\ Base(n + 1) = Base(n) + lengths[n] + 1
         /\ Base(n + 1) <= Len(Whole)
         /\ \A k \in 1 .. lengths[n] + 1 : Whole[Base(n) + k] = Written(n)[k]
<1>1. PICK R \in Nat : R = ReadableNals
  BY ReadableFacts
<1>2. PICK all : all = AllWritten
  OBVIOUS
<1>3. /\ all \in [0 .. R -> Seq(UnitByte)]
      /\ \A m \in 1 .. R : all[m] = all[m - 1] \o Written(m)
  BY <1>1, <1>2, AllWrittenGoesOn
<1>4. \A m \in 1 .. R : Written(m) \in Seq(UnitByte) /\ Len(Written(m)) \in Nat
  BY <1>1, NalFacts, LenProperties
<1>5. PICK l \in Nat : l = lengths[n] /\ Len(Written(n)) = l + 1
  BY NalFacts
<1>6. n \in 1 .. R /\ n - 1 \in 0 .. R /\ n \in 0 .. R /\ n \in Nat
  BY <1>1
<1>7. all[n - 1] \in Seq(UnitByte) /\ all[n] = all[n - 1] \o Written(n)
  BY <1>3, <1>6
<1>8. PICK b \in Nat : b = Len(all[n - 1])
  BY <1>7, LenProperties
<1>9. /\ Len(all[n]) = b + l + 1
      /\ \A k \in 1 .. l + 1 : all[n][b + k] = Written(n)[k]
  <2>1. PICK y \in Nat : y = l + 1
    OBVIOUS
  <2>2. PICK t \in Seq(UnitByte) : t = Written(n)
    BY <1>4, <1>6
  <2>3. PICK s \in Seq(UnitByte) : s = all[n - 1]
    BY <1>7
  <2>4. b = Len(s) /\ y = Len(t)
    BY <1>5, <1>8, <2>1, <2>2, <2>3, Zenon
  <2>5. Len(s \o t) = b + y /\ \A k \in 1 .. y : (s \o t)[b + k] = t[k]
    BY <2>4, Joined
  <2>6. b + y = b + l + 1
    BY <2>1
  <2>7. all[n] = s \o t
    BY <1>7, <2>2, <2>3
  <2> QED BY <2>1, <2>2, <2>5, <2>6, <2>7
<1> DEFINE T == {d \in Nat : n + d <= R =>
                   /\ all[n + d] \in Seq(UnitByte) /\ b + l + 1 <= Len(all[n + d])
                   /\ \A k \in 1 .. l + 1 : all[n + d][b + k] = Written(n)[k]}
<1>10. 0 \in T
  <2>1. n + 0 = n /\ all[n] \in Seq(UnitByte)
    BY <1>3, <1>6
  <2> QED BY <1>9, <2>1
<1>11. ASSUME NEW d \in Nat, d \in T
       PROVE  d + 1 \in T
  <2> SUFFICES ASSUME n + (d + 1) <= R
               PROVE  /\ all[n + (d + 1)] \in Seq(UnitByte)
                      /\ b + l + 1 <= Len(all[n + (d + 1)])
                      /\ \A k \in 1 .. l + 1 : all[n + (d + 1)][b + k] = Written(n)[k]
    OBVIOUS
  <2>1. PICK m \in 1 .. R : m = n + (d + 1) /\ m - 1 = n + d
    BY <1>6
  <2>2. n + d <= R
    BY <1>6
  <2>3. PICK s \in Seq(UnitByte), t \in Seq(UnitByte), x \in Nat, y \in Nat :
          s = all[m - 1] /\ t = Written(m) /\ x = Len(s) /\ y = Len(t)
    BY <1>4, <1>11, <2>1, <2>2, LenProperties
  <2>4. b + l + 1 <= x /\ \A k \in 1 .. l + 1 : s[b + k] = Written(n)[k]
    BY <1>11, <2>1, <2>2, <2>3
  <2>5. /\ s \o t \in Seq(UnitByte) /\ Len(s \o t) = x + y
        /\ \A i \in 1 .. x : (s \o t)[i] = s[i]
    BY <2>3, Joined
  <2>6. \A k \in 1 .. l + 1 : b + k \in 1 .. x
    BY <2>4
  <2>7. \A k \in 1 .. l + 1 : (s \o t)[b + k] = Written(n)[k]
    BY <2>4, <2>5, <2>6
  <2>8. all[m] = s \o t
    BY <1>3, <2>1, <2>3
  <2> QED BY <2>1, <2>4, <2>5, <2>7, <2>8
<1> HIDE DEF T
<1>12. Nat \subseteq T
  BY <1>10, <1>11, SetInduction
<1>13. PICK d \in Nat : n + d = R
  <2>1. R - n \in Nat /\ n + (R - n) = R
    BY <1>6
  <2> QED BY <2>1
<1>14. /\ b + l + 1 <= Len(all[R])
       /\ \A k \in 1 .. l + 1 : all[R][b + k] = Written(n)[k]
  <2>1. d \in T /\ n + d <= R
    BY <1>6, <1>12, <1>13
  <2>2. /\ b + l + 1 <= Len(all[n + d])
        /\ \A k \in 1 .. l + 1 : all[n + d][b + k] = Written(n)[k]
    BY <2>1 DEF T
  <2> QED BY <1>13, <2>2
<1>15. n + 1 - 1 = n
  BY <1>6
<1> QED BY <1>1, <1>2, <1>5, <1>8, <1>9, <1>14, <1>15 DEF Whole, Base

-----------------------------------------------------------------------------
(* What the sender hands to send *)

LEMMA UptoFacts ==
  ASSUME TypeOK, NEW n \in 1 .. ReadableNals, NEW f \in Nat, f < FuOf(n)
  PROVE  /\ Before(n, f) \in Nat /\ Upto(n, f) \in Nat
         /\ PayloadMax * f < Upto(n, f) /\ Upto(n, f) <= lengths[n]
         /\ f + 1 < FuOf(n) => Before(n, f + 1) = 1 + Upto(n, f)
         /\ ~(f + 1 < FuOf(n)) => Upto(n, f) = lengths[n]
<1>1. PICK l \in Nat \ {0} : l = lengths[n]
  BY NalFacts
<1>2. PICK fu \in Nat \ {0} : fu = FuOf(n) /\ fu = FuPackNum(l)
  BY <1>1, FuFacts DEF FuOf
<1>3. /\ f + 1 < fu => PayloadMax * (f + 1) < l
      /\ f < fu => PayloadMax * f < l
  BY <1>2, FuFacts
<1>4. PICK x \in Nat, y \in Nat : x = PayloadMax * f /\ y = PayloadMax * (f + 1)
  BY PayloadAssumption
<1>5. x < y
  BY <1>4, PayloadAssumption
<1>6. f + 1 # 0 /\ f < fu
  BY <1>2
<1>7. Before(n, f) = (IF f = 0 THEN 0 ELSE 1 + x) /\ Before(n, f + 1) = 1 + y
  BY <1>4, <1>6 DEF Before
<1>8. Upto(n, f) = IF f + 1 < fu THEN y ELSE l
  BY <1>1, <1>2, <1>4 DEF Upto
<1> QED BY <1>1, <1>2, <1>3, <1>4, <1>5, <1>6, <1>7, <1>8

LEMMA PacketIsFragment ==
  ASSUME TypeOK, SenderInv, nalu # << >>, NEW n, n = nextNal - 1
  PROVE  /\ n \in 1 .. ReadableNals /\ fuSeq < FuOf(n)
         /\ LastPacket <=> ~(fuSeq + 1 < FuOf(n))
         /\ IsFragment(Packet, n, fuSeq)
<1>1. PICK R \in Nat : R = ReadableNals
  BY ReadableFacts
<1>2. PICK f \in Nat : f = fuSeq
  BY DEF TypeOK
<1>3. nextNal \in Nat /\ nextNal <= R + 1 /\ nextNal >= 2
      /\ nalu = Nal(n) /\ f < FuOf(n) /\ tsCurrent = (nextNal * Step) % TsMod
  BY <1>1, <1>2 DEF SenderInv, TypeOK
<1>4. n \in 1 .. R /\ n + 1 = nextNal
  BY <1>3
<1>5. PICK l \in Nat \ {0} : l = lengths[n]
  BY <1>1, <1>4, NalFacts
<1>6. /\ nalu \in Seq(Bytes) /\ Len(nalu) = l
      /\ \A k \in 1 .. l : nalu[k] = << n, k >>
      /\ Written(n)[1] = StartCode
      /\ \A k \in 1 .. l : Written(n)[k + 1] = << n, k >>
  BY <1>1, <1>3, <1>4, <1>5, NalFacts
<1>7. PICK fu \in Nat \ {0} : fu = FuOf(n) /\ fu = FuPackNum(l)
  BY <1>5, FuFacts DEF FuOf
<1>8. l <= PayloadMax <=> fu = 1
  BY <1>7, FuFacts
<1>9. LastPacket <=> ~(f + 1 < fu)
  BY <1>2, <1>6, <1>7 DEF LastPacket
<1>10. PICK x \in Nat : x = PayloadMax * f
  BY PayloadAssumption
<1>11. PICK up \in Nat : up = Upto(n, f) /\ x < up /\ up <= l
  BY <1>1, <1>3, <1>4, <1>5, <1>10, UptoFacts
<1>12. Before(n, f) = IF f = 0 THEN 0 ELSE 1 + x
  BY <1>10 DEF Before
<1>13. f = 0 => x = 0
  BY <1>10, PayloadAssumption
<1>14. PICK a \in Nat : a = (IF f = 0 THEN 2 ELSE x + 1)
  OBVIOUS
<1>15. PICK pay : pay = Fragment(nalu, f)
  OBVIOUS
<1>16. pay = SubSeq(nalu, a, up)
  <2>1. up = IF f + 1 < fu THEN PayloadMax * (f + 1) ELSE l
    BY <1>5, <1>7, <1>11 DEF Upto
  <2> QED BY <1>6, <1>7, <1>10, <1>14, <1>15, <2>1 DEF Fragment
<1>17. a >= 1 /\ a <= up + 1
  BY <1>11, <1>13, <1>14
<1>18. \A i \in a .. up : nalu[i] \in Bytes
  <2>1. \A i \in a .. up : i \in 1 .. l
    BY <1>11, <1>17
  <2> QED BY <1>6, <2>1, ElementOfSeq
<1>19. /\ pay \in Seq(Bytes) /\ Len(pay) = up - a + 1
       /\ \A i \in 1 .. up - a + 1 : pay[i] = nalu[a + i - 1]
  <2>1. /\ pay \in Seq(Bytes) /\ Len(pay) = IF a <= up THEN up - a + 1 ELSE 0
        /\ \A i \in 1 .. up - a + 1 : pay[i] = nalu[a + i - 1]
    BY <1>16, <1>18, SubSeqProperties
  <2> QED BY <1>17, <2>1
<1>20. ASSUME NEW i \in 1 .. up - a + 1
       PROVE  pay[i] = Written(n)[a + i]
  <2>1. PICK k \in 1 .. l : k = a + i - 1 /\ k + 1 = a + i
    BY <1>11, <1>17
  <2> QED BY <1>6, <1>19, <2>1
<1>21. PICK p : p = Packet
  OBVIOUS
<1>22. p.unit = Unit /\ p.hdr = << n, 1 >> /\ p.payload = pay /\ p.ts = tsCurrent
  <2>1. nalu[1] = << n, 1 >>
    BY <1>6
  <2> QED BY <1>2, <1>15, <1>21, <2>1 DEF Packet
<1>23. Unit = (IF fu = 1 THEN "single" ELSE IF f = 0 THEN "start"
               ELSE IF LastPacket THEN "end" ELSE "middle")
  BY <1>2, <1>6, <1>8 DEF Unit
<1>24. (Unit \in {"single", "start"} <=> f = 0) /\ (Unit \in {"middle", "end"} <=> f # 0)
  <2>1. fu = 1 => f = 0
    BY <1>3, <1>7
  <2> QED BY <1>23, <2>1
<1>25. UnitByte = {StartCode} \cup Bytes /\ << n, 1 >> \in Bytes /\ pay \in Seq(UnitByte)
  BY <1>4, <1>19, SeqDef DEF UnitByte, Bytes
<1>26. /\ Decode(p) \in Seq(UnitByte) /\ Len(Decode(p)) = 1 + up - Before(n, f)
       /\ \A k \in 1 .. Len(Decode(p)) : Decode(p)[k] = Written(n)[Before(n, f) + k]
  <2>1. CASE f # 0
    <3>1. Decode(p) = pay
      BY <1>22, <1>24, <2>1 DEF Decode
    <3>2. Before(n, f) = a /\ Len(pay) = up - a + 1 /\ 1 + up - a = up - a + 1
      BY <1>12, <1>14, <1>19, <2>1
    <3> QED BY <1>20, <1>25, <3>1, <3>2
  <2>2. CASE f = 0
    <3>1. PICK two : two = << StartCode, << n, 1 >> >>
      OBVIOUS
    <3>2. two \in Seq(UnitByte) /\ Len(two) = 2 /\ two[1] = StartCode /\ two[2] = << n, 1 >>
      BY <1>25, <3>1
    <3>3. PICK y \in Nat : y = up - a + 1 /\ y = Len(pay) /\ a = 2 /\ 2 + y = 1 + up
      BY <1>14, <1>17, <1>19, <2>2
    <3>4. PICK d : d = two \o pay
      OBVIOUS
    <3>5. /\ d \in Seq(UnitByte) /\ Len(d) = 2 + y
          /\ \A i \in 1 .. 2 : d[i] = two[i]
          /\ \A i \in 1 .. y : d[2 + i] = pay[i]
      <4>1. PICK t \in Seq(UnitByte) : t = two
        BY <3>2
      <4>2. PICK q \in Seq(UnitByte) : q = pay
        BY <1>25
      <4>3. PICK w \in Nat : w = 2
        OBVIOUS
      <4>4. w = Len(t) /\ y = Len(q)
        BY <3>2, <3>3, <4>1, <4>2, <4>3, Zenon
      <4>5. /\ t \o q \in Seq(UnitByte) /\ Len(t \o q) = w + y
            /\ \A i \in 1 .. w : (t \o q)[i] = t[i]
            /\ \A i \in 1 .. y : (t \o q)[w + i] = q[i]
        BY <4>4, Joined
      <4> QED BY <3>4, <4>1, <4>2, <4>3, <4>5, Zenon
    <3>6. Decode(p) = d /\ Before(n, f) = 0
      BY <1>12, <1>22, <1>24, <2>2, <3>1, <3>4 DEF Decode
    <3>7. ASSUME NEW k \in 1 .. 2 + y
          PROVE  d[k] = Written(n)[0 + k]
      <4>1. CASE k = 1
        BY <1>6, <3>2, <3>5, <4>1
      <4>2. CASE k = 2
        <5>1. 1 \in 1 .. l /\ 1 + 1 = 2
          OBVIOUS
        <5>2. Written(n)[2] = << n, 1 >>
          BY <1>6, <5>1
        <5>3. 2 \in 1 .. 2 /\ 0 + k = 2
          BY <4>2
        <5>4. d[2] = << n, 1 >>
          BY <3>2, <3>5, <5>3
        <5> QED BY <4>2, <5>2, <5>3, <5>4
      <4>3. CASE k > 2
        <5>1. PICK i \in 1 .. y : k = 2 + i
          <6>1. k - 2 \in 1 .. y /\ k = 2 + (k - 2)
            BY <4>3
          <6> QED BY <6>1
        <5>2. i \in 1 .. up - a + 1 /\ a + i = 0 + k
          BY <3>3, <5>1
        <5>3. pay[i] = Written(n)[0 + k]
          BY <1>20, <5>2
        <5> QED BY <3>5, <5>1, <5>3
      <4> QED BY <4>1, <4>2, <4>3
    <3>8. Len(d) = 1 + up - 0
      BY <3>3, <3>5
    <3> QED BY <3>5, <3>6, <3>7, <3>8
  <2> QED BY <2>1, <2>2
<1>27. p.ts = ((n + 1) * Step) % TsMod
  BY <1>3, <1>4, <1>22
<1>28. IsFragment(p, n, f)
  BY <1>11, <1>22, <1>24, <1>26, <1>27 DEF IsFragment
<1> QED BY <1>1, <1>2, <1>3, <1>4, <1>7, <1>9, <1>21, <1>28

-----------------------------------------------------------------------------
(* The clock: advancing it modulo TsMod is advancing it, modulo TsMod *)

LEMMA ClockMoves ==
  ASSUME NEW n \in Nat, NEW t, t = (n * Step) % TsMod
  PROVE  (t + Step) % TsMod = ((n + 1) * Step) % TsMod
<1>1. PICK s \in Nat : s = Step
  BY ClockAssumption, FramerateAssumption DEF Step
<1>2. PICK a \in Nat : a = n * s
  OBVIOUS
<1>3. (n + 1) * s = a + s
  BY <1>2
<1>4. PICK m \in Nat \ {0} : m = TsMod
  BY ClockAssumption
<1>5. ((a % m) + s) % m = (a + s) % m
  BY ModAdd
<1> QED BY <1>1, <1>2, <1>3, <1>4, <1>5

-----------------------------------------------------------------------------
(* The labels, step by step *)

LEMMA SameNals ==
  ASSUME lengths' = lengths
  PROVE  /\ ReadableNals' = ReadableNals
         /\ \A n : FuOf(n)' = FuOf(n) /\ Nal(n)' = Nal(n)
         /\ \A g : Following(g)' = Following(g)
         /\ \A p, n, f : IsFragment(p, n, f)' <=> IsFragment(p, n, f)
<1>1. ReadableNals' = ReadableNals
  BY DEF ReadableNals
<1>2. \A n : FuOf(n)' = FuOf(n) /\ Nal(n)' = Nal(n) /\ lengths'[n] = lengths[n]
  BY DEF FuOf, Nal
<1>3. \A g : Following(g)' = Following(g)
  BY <1>2 DEF Following
<1>4. \A p, n, f : IsFragment(p, n, f)' <=> IsFragment(p, n, f)
  BY DEF IsFragment, Upto, FuOf, Written, Nal
<1> QED BY <1>1, <1>2, <1>3, <1>4

LEMMA SameWhole ==
  ASSUME lengths' = lengths
  PROVE  Whole' = Whole /\ \A n : Base(n)' = Base(n)
<1>1. AllWritten' = AllWritten
  BY DEF AllWritten, ReadableNals, Written, Nal
<1> QED BY <1>1, SameNals DEF Whole, Base

LEMMA SenderInit == Init => SenderInv
<1> SUFFICES ASSUME Init PROVE SenderInv
  OBVIOUS
<1>1. nextNal = 0 /\ nalu = << >> /\ fuSeq = 0 /\ tsCurrent = 0
  BY DEF Init, InitSender
<1>2. ReadableNals \in Nat
  BY TypeInit, ReadableFacts
<1>3. 0 = (0 * Step) % TsMod
  <2>1. PICK s \in Nat : s = Step
    BY ClockAssumption, FramerateAssumption DEF Step
  <2>2. PICK m \in Nat \ {0} : m = TsMod
    BY ClockAssumption
  <2>3. 0 * s = 0 /\ 0 % m = 0
    BY SmallMod, <2>1, <2>2
  <2> QED BY <2>1, <2>2, <2>3
<1> QED BY <1>1, <1>2, <1>3 DEF SenderInv

LEMMA ReadKeepsLabels ==
  ASSUME TypeOK, SenderInv, ReadNal
  PROVE  SenderInv' /\ Coming' = Coming /\ UNCHANGED << lengths, sent, net, lost, got, out >>
<1>1. PICK R \in Nat : R = ReadableNals
  BY ReadableFacts
<1>2. PICK n \in Nat : n = nextNal
  BY DEF TypeOK
<1>3. /\ nalu = << >> /\ n <= R /\ fuSeq' = 0 /\ nextNal' = n + 1
      /\ nalu' = (IF n = 0 THEN << >> ELSE Nal(n))
      /\ tsCurrent' = (tsCurrent + ClockRate \div Framerate) % TsMod
      /\ UNCHANGED << lengths, sent, net, lost, got, out >>
  BY <1>1, <1>2 DEF ReadNal, Call, receiverVars
<1>4. ReadableNals' = R /\ \A k : FuOf(k)' = FuOf(k) /\ Nal(k)' = Nal(k)
  BY <1>1, <1>3, SameNals
<1>5. tsCurrent' = ((n + 1) * Step) % TsMod /\ Step' = Step
  <2>1. tsCurrent = (n * Step) % TsMod
    BY <1>2 DEF SenderInv
  <2>2. PICK t : t = tsCurrent
    OBVIOUS
  <2>3. (t + Step) % TsMod = ((n + 1) * Step) % TsMod
    BY <2>1, <2>2, ClockMoves
  <2> QED BY <1>3, <2>2, <2>3 DEF Step
<1>6. CASE n = 0
  <2>1. nalu' = << >>
    BY <1>3, <1>6
  <2>2. SenderInv'
    BY <1>1, <1>3, <1>4, <1>5, <1>6, <2>1 DEF SenderInv
  <2>3. Coming' = Coming
    BY <1>2, <1>3, <1>6, <2>1 DEF Coming
  <2> QED BY <1>3, <2>2, <2>3
<1>7. CASE n # 0
  <2>1. n \in 1 .. R
    BY <1>3, <1>7
  <2>2. PICK l \in Nat \ {0} : l = lengths[n] /\ Nal(n) \in Seq(Bytes) /\ Len(Nal(n)) = l
    BY <1>1, <2>1, NalFacts
  <2>3. nalu' = Nal(n) /\ Nal(n) # << >>
    <3>1. Len(<< >>) = 0
      OBVIOUS
    <3> QED BY <1>3, <1>7, <2>2, <3>1
  <2>4. FuOf(n) \in Nat \ {0}
    BY <2>2, FuFacts DEF FuOf
  <2>5. nextNal' - 1 = n /\ nextNal' >= 2
    BY <1>3, <2>1
  <2>6. SenderInv'
    BY <1>1, <1>3, <1>4, <1>5, <2>3, <2>4, <2>5 DEF SenderInv
  <2>7. Coming' = Coming
    BY <1>2, <1>3, <1>7, <2>3, <2>5 DEF Coming
  <2> QED BY <1>3, <2>6, <2>7
<1> QED BY <1>6, <1>7

LEMMA SendKeepsSender ==
  ASSUME TypeOK, SenderInv, SendNext, UNCHANGED << lengths, nextNal >>
  PROVE  SenderInv' /\ Coming' = Following(Coming)
<1>1. PICK R \in Nat : R = ReadableNals
  BY ReadableFacts
<1>2. nalu # << >> /\ tsCurrent' = tsCurrent
  BY DEF SendNext
<1>3. PICK n : n = nextNal - 1
  OBVIOUS
<1>4. n \in 1 .. R /\ fuSeq < FuOf(n) /\ (LastPacket <=> ~(fuSeq + 1 < FuOf(n)))
  BY <1>1, <1>2, <1>3, PacketIsFragment
<1>5. nextNal = n + 1 /\ nextNal <= R + 1 /\ nextNal >= 2 /\ nalu = Nal(n)
      /\ tsCurrent = (nextNal * Step) % TsMod
  BY <1>1, <1>2, <1>3, <1>4 DEF SenderInv, TypeOK
<1>6. ReadableNals' = R /\ (\A k : FuOf(k)' = FuOf(k) /\ Nal(k)' = Nal(k)) /\ Step' = Step
  BY <1>1, SameNals DEF Step
<1>7. Coming = << n, fuSeq >>
  BY <1>2, <1>3 DEF Coming
<1>8. Following(Coming) = IF fuSeq + 1 < FuOf(n) THEN << n, fuSeq + 1 >> ELSE << n + 1, 0 >>
  BY <1>7 DEF Following
<1>9. CASE LastPacket
  <2>1. nalu' = << >> /\ fuSeq' = 0
    BY <1>9 DEF SendNext
  <2>2. SenderInv'
    BY <1>2, <1>5, <1>6, <2>1 DEF SenderInv
  <2>3. Coming' = << n + 1, 0 >>
    BY <1>5, <2>1 DEF Coming
  <2> QED BY <1>4, <1>8, <1>9, <2>2, <2>3
<1>10. CASE ~LastPacket
  <2>1. nalu' = nalu /\ fuSeq' = fuSeq + 1
    BY <1>10 DEF SendNext
  <2>2. SenderInv'
    BY <1>2, <1>3, <1>4, <1>5, <1>6, <1>10, <2>1 DEF SenderInv
  <2>3. Coming' = << n, fuSeq + 1 >>
    BY <1>2, <1>3, <2>1 DEF Coming
  <2> QED BY <1>4, <1>8, <1>10, <2>2, <2>3
<1> QED BY <1>9, <1>10

LEMMA LabelsInit ==
  ASSUME Init
  PROVE  Labelled([i \in 1 .. 1 |-> << 1, 0 >>])
<1>1. sent = << >> /\ nalu = << >> /\ nextNal = 0
  BY DEF Init, InitSender
<1>2. Len(sent) = 0 /\ Coming = << 1, 0 >>
  BY <1>1 DEF Coming
<1>3. PICK label : label = [i \in 1 .. 1 |-> << 1, 0 >>]
  OBVIOUS
<1>4. label \in [1 .. 1 -> (Nat \ {0}) \X Nat] /\ label[1] = << 1, 0 >>
  BY <1>3
<1>5. Labelled(label)
  BY <1>2, <1>4 DEF Labelled
<1> QED BY <1>3, <1>5

LEMMA LabelsKept ==
  ASSUME NEW label, Labelled(label), UNCHANGED << lengths, sent, Coming >>
  PROVE  Labelled(label)'
<1>1. \A p, n, f : IsFragment(p, n, f)' <=> IsFragment(p, n, f)
  BY SameNals
<1>2. ReadableNals' = ReadableNals /\ (\A n : FuOf(n)' = FuOf(n))
      /\ (\A g : Following(g)' = Following(g))
  BY SameNals
<1>3. \A i \in 1 .. Len(sent) :
        /\ label[i][1] <= ReadableNals' /\ label[i][2] < FuOf(label[i][1])'
        /\ IsFragment(sent[i], label[i][1], label[i][2])'
        /\ label[i + 1] = Following(label[i])'
  BY <1>1, <1>2 DEF Labelled
<1> QED BY <1>3 DEF Labelled

LEMMA LabelsGrow ==
  ASSUME TypeOK, SenderInv, SendNext, Handed, UNCHANGED << lengths, nextNal >>,
         NEW label, Labelled(label)
  PROVE  \E longer : /\ Labelled(longer)'
                     /\ \A i \in 1 .. Len(sent) + 1 : longer[i] = label[i]
<1>1. PICK N \in Nat : N = Len(sent)
  BY DEF TypeOK
<1>2. PICK n, f : n = nextNal - 1 /\ f = fuSeq
  OBVIOUS
<1>3. nalu # << >>
  BY DEF SendNext
<1>4. n \in 1 .. ReadableNals /\ f < FuOf(n) /\ IsFragment(Packet, n, f) /\ f \in Nat
  BY <1>2, <1>3, PacketIsFragment DEF TypeOK
<1>5. PICK p : p = Packet
  OBVIOUS
<1>6. /\ Len(sent') = N + 1 /\ sent'[N + 1] = p
      /\ \A i \in 1 .. N : sent'[i] = sent[i]
  <2>1. sent' = Append(sent, p) /\ sent \in Seq(Packets) /\ p \in Packets
    BY <1>3, <1>5, PacketType DEF Handed, TypeOK
  <2> QED BY <1>1, <2>1, AppendProperties
<1>7. Coming = << n, f >>
  BY <1>2, <1>3 DEF Coming
<1>8. Coming' = Following(Coming)
  BY SendKeepsSender
<1>9. n \in Nat \ {0}
  BY <1>4, ReadableFacts
<1>10. PICK c : c = Coming'
  OBVIOUS
<1>11. c = Following(<< n, f >>) /\ c \in (Nat \ {0}) \X Nat
  BY <1>4, <1>7, <1>8, <1>9, <1>10 DEF Following
<1>12. /\ label \in [1 .. N + 1 -> (Nat \ {0}) \X Nat]
       /\ label[1] = << 1, 0 >> /\ label[N + 1] = << n, f >>
       /\ \A i \in 1 .. N :
            /\ label[i][1] <= ReadableNals /\ label[i][2] < FuOf(label[i][1])
            /\ IsFragment(sent[i], label[i][1], label[i][2])
            /\ label[i + 1] = Following(label[i])
  BY <1>1, <1>7 DEF Labelled
<1>13. PICK longer :
         longer = [i \in 1 .. N + 2 |-> IF i <= N + 1 THEN label[i] ELSE c]
  OBVIOUS
<1>14. /\ longer \in [1 .. N + 2 -> (Nat \ {0}) \X Nat]
       /\ \A i \in 1 .. N + 1 : longer[i] = label[i]
       /\ longer[N + 2] = c
  BY <1>11, <1>12, <1>13
<1>15. ASSUME NEW i \in 1 .. N + 1
       PROVE  /\ longer[i][1] <= ReadableNals /\ longer[i][2] < FuOf(longer[i][1])
              /\ IsFragment(sent'[i], longer[i][1], longer[i][2])
              /\ longer[i + 1] = Following(longer[i])
  <2>1. CASE i = N + 1
    <3>1. longer[i] = << n, f >> /\ longer[i][1] = n /\ longer[i][2] = f /\ longer[i + 1] = c
      BY <1>12, <1>14, <2>1
    <3>2. n <= ReadableNals
      BY <1>4
    <3> QED BY <1>4, <1>5, <1>6, <1>11, <2>1, <3>1, <3>2
  <2>2. CASE i # N + 1
    <3>1. i \in 1 .. N /\ i + 1 \in 1 .. N + 1
      BY <2>2
    <3>2. longer[i] = label[i] /\ longer[i + 1] = label[i + 1] /\ sent'[i] = sent[i]
      BY <1>6, <1>14, <3>1
    <3> QED BY <1>12, <3>1, <3>2
  <2> QED BY <2>1, <2>2
<1>16. \A q, k, j : IsFragment(q, k, j)' <=> IsFragment(q, k, j)
  BY SameNals
<1>17. ReadableNals' = ReadableNals /\ (\A k : FuOf(k)' = FuOf(k))
       /\ (\A g : Following(g)' = Following(g))
  BY SameNals
<1>18. ASSUME NEW i \in 1 .. Len(sent')
       PROVE  /\ longer[i][1] <= ReadableNals' /\ longer[i][2] < FuOf(longer[i][1])'
              /\ IsFragment(sent[i], longer[i][1], longer[i][2])'
              /\ longer[i + 1] = Following(longer[i])'
  <2>1. i \in 1 .. N + 1
    BY <1>6
  <2>2. PICK q, k, j, g : q = sent'[i] /\ k = longer[i][1] /\ j = longer[i][2] /\ g = longer[i]
    OBVIOUS
  <2>3. k <= ReadableNals /\ j < FuOf(k) /\ IsFragment(q, k, j) /\ longer[i + 1] = Following(g)
    BY <1>15, <2>1, <2>2
  <2>4. k <= ReadableNals' /\ j < FuOf(k)' /\ IsFragment(q, k, j)'
        /\ longer[i + 1] = Following(g)'
    BY <1>16, <1>17, <2>3
  <2> QED BY <2>2, <2>4
<1>19. longer[1] = << 1, 0 >> /\ longer[Len(sent') + 1] = Coming'
  <2>1. Len(sent') + 1 = N + 2 /\ 1 \in 1 .. N + 1
    BY <1>6
  <2>2. longer[1] = label[1]
    BY <1>14, <2>1
  <2>3. longer[N + 2] = c
    BY <1>14
  <2> QED BY <1>10, <1>12, <2>1, <2>2, <2>3
<1>20. longer \in [1 .. Len(sent') + 1 -> (Nat \ {0}) \X Nat]
  BY <1>6, <1>14
<1>21. Labelled(longer)'
  BY <1>18, <1>19, <1>20 DEF Labelled
<1> QED BY <1>1, <1>14, <1>21

-----------------------------------------------------------------------------
(* What the receiver makes of the packets *)

(* Packets are neither reordered nor repeated *)
InOrder ==
  /\ \A i, j \in 1 .. Len(got) : i < j => got[i] < got[j]
  /\ \A i, j \in 1 .. Len(net) : i < j => net[i] < net[j]
  /\ \A i \in 1 .. Len(got), j \in 1 .. Len(net) : got[i] < net[j]

NoneMissing ==
  /\ Len(got) + Len(net) = Len(sent)
  /\ \A i \in 1 .. Len(got) : got[i] = i
  /\ \A i \in 1 .. Len(net) : net[i] = Len(got) + i

(* The bytes of the whole file that come before fragment g *)
Position(g) == Base(g[1]) + Before(g[1], g[2])

(* The receiver's file goes up to the fragment it waits for *)
Prefixed(label) ==
  /\ Len(out) = Position(label[Len(got) + 1])
  /\ Len(out) <= Len(Whole)
  /\ \A j \in 1 .. Len(out) : out[j] = Whole[j]

(* The i-th packet decoded is in the file from at[i - 1] to at[i] *)
WrittenAt(at) ==
  /\ at \in [0 .. Len(got) -> 0 .. Len(out)]
  /\ at[0] = 0 /\ at[Len(got)] = Len(out)
  /\ \A i \in 1 .. Len(got) :
       /\ at[i] = at[i - 1] + Len(Decode(sent[got[i]]))
       /\ \A k \in 1 .. Len(Decode(sent[got[i]])) :
            out[at[i - 1] + k] = Decode(sent[got[i]])[k]

FollowsSender == \E label : Labelled(label) /\ (lost = {} => NoneMissing /\ Prefixed(label))
FileInv == SenderInv /\ FollowsSender /\ InOrder /\ \E at : WrittenAt(at)

LEMMA FileInit == Init => FileInv
<1> SUFFICES ASSUME Init PROVE FileInv
  OBVIOUS
<1>1. /\ sent = << >> /\ net = << >> /\ got = << >> /\ out = << >>
      /\ Len(sent) = 0 /\ Len(net) = 0 /\ Len(got) = 0 /\ Len(out) = 0
  BY DEF Init
<1>2. InOrder /\ NoneMissing
  BY <1>1 DEF InOrder, NoneMissing
<1>3. PICK label : label = [i \in 1 .. 1 |-> << 1, 0 >>]
  OBVIOUS
<1>4. Labelled(label) /\ label[1] = << 1, 0 >>
  BY <1>3, LabelsInit
<1>5. TypeOK
  BY TypeInit
<1>6. Base(1) = 0 /\ Before(1, 0) = 0
  <2>1. AllWritten[0] = << >> /\ Len(<< >>) = 0
    BY <1>5, AllWrittenGoesOn
  <2>2. 1 - 1 = 0
    OBVIOUS
  <2> QED BY <2>1, <2>2 DEF Base, Before
<1>7. Len(Whole) \in Nat
  <2>1. ReadableNals \in 0 .. ReadableNals
    BY <1>5, ReadableFacts
  <2>2. Whole \in Seq(UnitByte)
    BY <1>5, <2>1, AllWrittenGoesOn DEF Whole
  <2> QED BY <2>2, LenProperties
<1>8. Prefixed(label)
  <2>1. Position(label[1]) = 0
    BY <1>4, <1>6 DEF Position
  <2>2. 0 + 1 = 1
    OBVIOUS
  <2> QED BY <1>1, <1>7, <2>1, <2>2 DEF Prefixed
<1>9. WrittenAt([i \in 0 .. 0 |-> 0])
  BY <1>1 DEF WrittenAt
<1> QED BY <1>2, <1>4, <1>8, <1>9, SenderInit DEF FileInv, FollowsSender

(* A step that moves no packet *)
LEMMA FileKept ==
  ASSUME TypeOK, FileInv, SenderInv', UNCHANGED << Coming, lengths, sent, net, lost, got, out >>
  PROVE  FileInv'
<1>1. InOrder'
  BY DEF FileInv, InOrder
<1>2. PICK label : Labelled(label) /\ (lost = {} => NoneMissing /\ Prefixed(label))
  BY DEF FileInv, FollowsSender
<1>3. Labelled(label)'
  BY <1>2, LabelsKept
<1>4. NoneMissing => NoneMissing'
  BY DEF NoneMissing
<1>5. Prefixed(label) => Prefixed(label)'
  <2>1. Whole' = Whole /\ \A n : Base(n)' = Base(n)
    BY SameWhole
  <2>2. \A n, f : Before(n, f)' = Before(n, f)
    BY DEF Before
  <2>3. \A g : Position(g)' = Position(g)
    BY <2>1, <2>2 DEF Position
  <2> QED BY <2>1, <2>3 DEF Prefixed
<1>6. FollowsSender'
  BY <1>2, <1>3, <1>4, <1>5 DEF FollowsSender
<1>7. PICK at : WrittenAt(at)
  BY DEF FileInv
<1>8. WrittenAt(at)'
  <2>1. \A p : Decode(p)' = Decode(p)
    BY DEF Decode
  <2> QED BY <1>7, <2>1 DEF WrittenAt
<1> QED BY <1>1, <1>6, <1>8 DEF FileInv

LEMMA SendFacts ==
  ASSUME TypeOK, Send
  PROVE  /\ SendNext /\ Handed /\ UNCHANGED << lengths, nextNal, got, out >>
         /\ \/ lost' = lost /\ net' = Append(net, Len(sent) + 1)
            \/ net' = net /\ lost' = lost \cup {Len(sent) + 1}
<1> QED BY DEF Send, SendArrives, SendDropped, SendRefused, SendFails, receiverVars

LEMMA SendKeepsOrder ==
  ASSUME TypeOK, InOrder, Send
  PROVE  InOrder'
<1>1. PICK N \in Nat : N = Len(sent)
  BY DEF TypeOK
<1>2. net \in Seq(1 .. N) /\ got \in Seq(1 .. N)
  BY <1>1 DEF TypeOK
<1>3. PICK a \in Nat, b \in Nat : a = Len(got) /\ b = Len(net)
  BY <1>2, LenProperties
<1>4. (\A i \in 1 .. a : got[i] \in 1 .. N) /\ (\A i \in 1 .. b : net[i] \in 1 .. N)
  BY <1>2, <1>3, ElementOfSeq
<1>5. got' = got
  BY SendFacts
<1>6. CASE net' = net
  BY <1>5, <1>6 DEF InOrder
<1>7. CASE net' = Append(net, N + 1)
  <2>1. /\ Len(net') = b + 1 /\ net'[b + 1] = N + 1
        /\ \A i \in 1 .. b : net'[i] = net[i]
    <3>1. net \in Seq(Nat) /\ N + 1 \in Nat
      BY <1>2, SeqDef
    <3> QED BY <1>3, <1>7, <3>1, AppendProperties
  <2>2. ASSUME NEW i \in 1 .. b + 1, NEW j \in 1 .. b + 1, i < j
        PROVE  net'[i] < net'[j]
    <3>1. i \in 1 .. b /\ net'[i] = net[i]
      BY <2>1, <2>2
    <3>2. CASE j = b + 1
      BY <1>4, <2>1, <3>1, <3>2
    <3>3. CASE j # b + 1
      <4>1. j \in 1 .. b /\ net'[j] = net[j]
        BY <2>1, <3>3
      <4> QED BY <1>3, <2>2, <3>1, <4>1 DEF InOrder
    <3> QED BY <3>2, <3>3
  <2>3. ASSUME NEW i \in 1 .. a, NEW j \in 1 .. b + 1
        PROVE  got[i] < net'[j]
    <3>1. CASE j = b + 1
      BY <1>4, <2>1, <3>1
    <3>2. CASE j # b + 1
      <4>1. j \in 1 .. b /\ net'[j] = net[j]
        BY <2>1, <3>2
      <4> QED BY <1>3, <4>1 DEF InOrder
    <3> QED BY <3>1, <3>2
  <2>4. \A i, j \in 1 .. a : i < j => got[i] < got[j]
    BY <1>3 DEF InOrder
  <2> QED BY <1>3, <1>5, <2>1, <2>2, <2>3, <2>4 DEF InOrder
<1> QED BY <1>1, <1>6, <1>7, SendFacts

LEMMA SendKeepsFollowing ==
  ASSUME TypeOK, SenderInv, FollowsSender, Send
  PROVE  FollowsSender'
<1>1. PICK label : Labelled(label) /\ (lost = {} => NoneMissing /\ Prefixed(label))
  BY DEF FollowsSender
<1>2. SendNext /\ Handed /\ UNCHANGED << lengths, nextNal, got, out >>
  BY SendFacts
<1>3. PICK longer : /\ Labelled(longer)'
                    /\ \A i \in 1 .. Len(sent) + 1 : longer[i] = label[i]
  BY <1>1, <1>2, LabelsGrow
<1>4. PICK N \in Nat : N = Len(sent)
  BY DEF TypeOK
<1>5. net \in Seq(Nat) /\ got \in Seq(Nat) /\ N + 1 \in Nat
  BY <1>4, SeqDef DEF TypeOK
<1>6. PICK a \in Nat, b \in Nat : a = Len(got) /\ b = Len(net)
  BY <1>5, LenProperties
<1>7. Len(sent') = N + 1
  <2>1. nalu # << >> /\ sent \in Seq(Packets)
    BY <1>2 DEF SendNext, TypeOK
  <2>2. sent' = Append(sent, Packet) /\ Packet \in Packets
    BY <1>2, <2>1, PacketType DEF Handed
  <2> QED BY <1>4, <2>1, <2>2, AppendProperties
<1>8. ASSUME lost' = {}
      PROVE  NoneMissing' /\ Prefixed(longer)'
  <2>1. lost = {} /\ net' = Append(net, N + 1)
    BY <1>4, <1>8, SendFacts
  <2>2. NoneMissing /\ Prefixed(label)
    BY <1>1, <2>1
  <2>3. a + b = N /\ (\A i \in 1 .. a : got[i] = i) /\ (\A i \in 1 .. b : net[i] = a + i)
    BY <1>4, <1>6, <2>2 DEF NoneMissing
  <2>4. /\ Len(net') = b + 1 /\ net'[b + 1] = N + 1
        /\ \A i \in 1 .. b : net'[i] = net[i]
    BY <1>5, <1>6, <2>1, AppendProperties
  <2>5. ASSUME NEW i \in 1 .. b + 1
        PROVE  net'[i] = a + i
    <3>1. CASE i = b + 1
      BY <2>3, <2>4, <3>1
    <3>2. CASE i # b + 1
      <4>1. i \in 1 .. b
        BY <3>2
      <4> QED BY <2>3, <2>4, <4>1
    <3> QED BY <3>1, <3>2
  <2>6. NoneMissing'
    <3>1. a + (b + 1) = N + 1
      BY <2>3
    <3> QED BY <1>2, <1>6, <1>7, <2>3, <2>4, <2>5, <3>1 DEF NoneMissing
  <2>7. longer[a + 1] = label[a + 1]
    <3>1. a + 1 \in 1 .. N + 1
      BY <2>3
    <3> QED BY <1>3, <1>4, <3>1
  <2>8. Whole' = Whole /\ \A g : Position(g)' = Position(g)
    <3>1. Whole' = Whole /\ \A n : Base(n)' = Base(n)
      BY <1>2, SameWhole
    <3>2. \A n, f : Before(n, f)' = Before(n, f)
      BY DEF Before
    <3> QED BY <3>1, <3>2 DEF Position
  <2>9. Prefixed(longer)'
    BY <1>2, <1>6, <2>2, <2>7, <2>8 DEF Prefixed
  <2> QED BY <2>6, <2>9
<1> QED BY <1>3, <1>8 DEF FollowsSender

LEMMA SendKeepsAt ==
  ASSUME TypeOK, Send, NEW at, WrittenAt(at)
  PROVE  WrittenAt(at)'
<1>1. SendNext /\ Handed /\ UNCHANGED << got, out >>
  BY SendFacts
<1>2. \A i \in 1 .. Len(sent) : sent'[i] = sent[i]
  <2>1. nalu # << >> /\ sent \in Seq(Packets)
    BY <1>1 DEF SendNext, TypeOK
  <2>2. sent' = Append(sent, Packet) /\ Packet \in Packets
    BY <1>1, <2>1, PacketType DEF Handed
  <2> QED BY <2>1, <2>2, AppendProperties
<1>3. \A i \in 1 .. Len(got) : sent'[got[i]] = sent[got[i]]
  <2>1. \A i \in 1 .. Len(got) : got[i] \in 1 .. Len(sent)
    BY ElementOfSeq DEF TypeOK
  <2> QED BY <1>2, <2>1
<1>4. \A p : Decode(p)' = Decode(p)
  BY DEF Decode
<1>5. \A i \in 1 .. Len(got) : Decode(sent'[got[i]]) = Decode(sent[got[i]])
  BY <1>3
<1> QED BY <1>1, <1>5 DEF WrittenAt

LEMMA SendKeepsFile ==
  ASSUME TypeOK, FileInv, Send
  PROVE  FileInv'
<1>1. SenderInv'
  BY SendFacts, SendKeepsSender DEF FileInv
<1>2. FollowsSender' /\ InOrder'
  BY SendKeepsFollowing, SendKeepsOrder DEF FileInv
<1>3. PICK at : WrittenAt(at)
  BY DEF FileInv
<1>4. WrittenAt(at)'
  BY <1>3, SendKeepsAt
<1> QED BY <1>1, <1>2, <1>4 DEF FileInv

LEMMA DecodeType ==
  ASSUME NEW p \in Packets
  PROVE  Decode(p) \in Seq(UnitByte)
<1>1. p.payload \in Seq(Bytes) /\ p.hdr \in Bytes
  BY DEF Packets, Bytes
<1>2. p.payload \in Seq(UnitByte)
  BY <1>1, SeqDef DEF UnitByte
<1>3. << StartCode, p.hdr >> \in Seq(UnitByte)
  BY <1>1 DEF UnitByte
<1>4. << StartCode, p.hdr >> \o p.payload \in Seq(UnitByte)
  BY <1>2, <1>3, ConcatProperties
<1> QED BY <1>2, <1>4 DEF Decode

(* Receive takes packet h, of y bytes d, with a packets decoded, b on their way *)
(* and o bytes in the file.                                                      *)
Receives(h, d, a, b, o, y) ==
  /\ h = net[1] /\ d = Decode(sent[h]) /\ a = Len(got) /\ b = Len(net)
  /\ o = Len(out) /\ y = Len(d)
  /\ Len(got') = a + 1 /\ got'[a + 1] = h /\ (\A i \in 1 .. a : got'[i] = got[i])
  /\ Len(net') = b - 1 /\ (\A i \in 1 .. b - 1 : net'[i] = net[i + 1])
  /\ Len(out') = o + y /\ (\A i \in 1 .. o : out'[i] = out[i])
  /\ (\A i \in 1 .. y : out'[o + i] = d[i])
  /\ UNCHANGED << senderVars, lengths, nextNal, sent, lost >>

LEMMA ReceiveFacts ==
  ASSUME TypeOK, Receive
  PROVE  \E h \in 1 .. Len(sent), d \in Seq(UnitByte), a \in Nat, b \in Nat \ {0},
           o \in Nat, y \in Nat : Receives(h, d, a, b, o, y)
<1>0. PICK h, d, a, b, o, y :
        /\ h = Head(net) /\ d = Decode(sent[h]) /\ a = Len(got) /\ b = Len(net)
        /\ o = Len(out) /\ y = Len(d)
  OBVIOUS
<1>1. PICK N \in Nat : N = Len(sent)
  BY DEF TypeOK
<1>2. net \in Seq(1 .. N) /\ got \in Seq(1 .. N) /\ net # << >>
  BY <1>1 DEF TypeOK, Receive
<1>3. a \in Nat /\ b \in Nat \ {0}
  BY <1>0, <1>2, EmptySeq, LenProperties
<1>4. /\ h \in 1 .. N /\ Len(Tail(net)) = b - 1
      /\ \A i \in 1 .. Len(Tail(net)) : Tail(net)[i] = net[i + 1]
  BY <1>0, <1>2, HeadTailProperties
<1>5. h = net[1]
  BY <1>0, <1>2
<1>6. sent[h] \in Packets
  BY <1>1, <1>4, ElementOfSeq DEF TypeOK
<1>7. d \in Seq(UnitByte)
  BY <1>0, <1>6, DecodeType
<1>8. PICK s \in Seq(UnitByte) : s = out
  BY DEF TypeOK, UnitByte, Bytes
<1>9. PICK t \in Seq(UnitByte) : t = d
  BY <1>7
<1>10. PICK x \in Nat, z \in Nat : x = Len(s) /\ z = Len(t)
  BY LenProperties
<1>11. /\ Len(s \o t) = x + z
       /\ \A i \in 1 .. x : (s \o t)[i] = s[i]
       /\ \A i \in 1 .. z : (s \o t)[x + i] = t[i]
  BY <1>10, Joined
<1>12. o = x /\ y = z
  BY <1>0, <1>8, <1>9, <1>10
<1>13. out' = s \o t /\ got' = Append(got, h) /\ net' = Tail(net)
       /\ UNCHANGED << senderVars, lengths, nextNal, sent, lost >>
  BY <1>0, <1>8, <1>9 DEF Receive
<1>14. Len(got') = a + 1 /\ got'[a + 1] = h /\ \A i \in 1 .. a : got'[i] = got[i]
  BY <1>0, <1>2, <1>4, <1>13, AppendProperties
<1>15. /\ Len(out') = o + y /\ (\A i \in 1 .. o : out'[i] = out[i])
       /\ \A i \in 1 .. y : out'[o + i] = d[i]
  BY <1>8, <1>9, <1>11, <1>12, <1>13, Zenon
<1>16. Len(net') = b - 1 /\ \A i \in 1 .. b - 1 : net'[i] = net[i + 1]
  BY <1>4, <1>13
<1>17. h \in 1 .. Len(sent) /\ o \in Nat /\ y \in Nat
  BY <1>1, <1>4, <1>10, <1>12
<1>18. d = Decode(sent[h]) /\ a = Len(got) /\ b = Len(net) /\ o = Len(out) /\ y = Len(d)
  BY <1>0
<1>19. UNCHANGED << senderVars, lengths, nextNal, sent, lost >>
  BY <1>13
<1>20. Receives(h, d, a, b, o, y)
  BY <1>5, <1>14, <1>15, <1>16, <1>18, <1>19 DEF Receives
<1> QED BY <1>3, <1>7, <1>17, <1>20

LEMMA ReceiveKeepsOrder ==
  ASSUME TypeOK, InOrder, Receive
  PROVE  InOrder'
<1>1. PICK h \in 1 .. Len(sent), d \in Seq(UnitByte), a \in Nat, b \in Nat \ {0},
           o \in Nat, y \in Nat : Receives(h, d, a, b, o, y)
  BY ReceiveFacts
<1>2. /\ a \in Nat /\ b \in Nat \ {0} /\ h = net[1]
      /\ Len(got') = a + 1 /\ got'[a + 1] = h /\ (\A i \in 1 .. a : got'[i] = got[i])
      /\ Len(net') = b - 1 /\ (\A i \in 1 .. b - 1 : net'[i] = net[i + 1])
  BY <1>1 DEF Receives
<1>3. /\ \A i, j \in 1 .. a : i < j => got[i] < got[j]
      /\ \A i, j \in 1 .. b : i < j => net[i] < net[j]
      /\ \A i \in 1 .. a, j \in 1 .. b : got[i] < net[j]
  BY <1>1 DEF Receives, InOrder
<1>4. ASSUME NEW i \in 1 .. a + 1, NEW j \in 1 .. a + 1, i < j
      PROVE  got'[i] < got'[j]
  <2>1. i \in 1 .. a /\ 1 \in 1 .. b
    BY <1>2, <1>4
  <2>2. CASE j = a + 1
    BY <1>2, <1>3, <2>1, <2>2
  <2>3. CASE j # a + 1
    <3>1. j \in 1 .. a
      BY <1>2, <2>3
    <3> QED BY <1>2, <1>3, <1>4, <2>1, <3>1
  <2> QED BY <2>2, <2>3
<1>5. ASSUME NEW i \in 1 .. b - 1, NEW j \in 1 .. b - 1, i < j
      PROVE  net'[i] < net'[j]
  <2>1. i + 1 \in 1 .. b /\ j + 1 \in 1 .. b /\ i + 1 < j + 1
    BY <1>2, <1>5
  <2> QED BY <1>2, <1>3, <2>1
<1>6. ASSUME NEW i \in 1 .. a + 1, NEW j \in 1 .. b - 1
      PROVE  got'[i] < net'[j]
  <2>1. j + 1 \in 1 .. b /\ 1 \in 1 .. b /\ 1 < j + 1 /\ net'[j] = net[j + 1]
    BY <1>2
  <2>2. CASE i = a + 1
    BY <1>2, <1>3, <2>1, <2>2
  <2>3. CASE i # a + 1
    <3>1. i \in 1 .. a
      BY <1>2, <2>3
    <3> QED BY <1>2, <1>3, <2>1, <3>1
  <2> QED BY <2>2, <2>3
<1> QED BY <1>2, <1>4, <1>5, <1>6 DEF InOrder

LEMMA ReceiveKeepsAt ==
  ASSUME TypeOK, Receive, NEW at, WrittenAt(at)
  PROVE  \E longer : WrittenAt(longer)'
<1>1. PICK h \in 1 .. Len(sent), d \in Seq(UnitByte), a \in Nat, b \in Nat \ {0},
           o \in Nat, y \in Nat : Receives(h, d, a, b, o, y)
  BY ReceiveFacts
<1>2. /\ a \in Nat /\ o \in Nat /\ y \in Nat
      /\ Len(got') = a + 1 /\ got'[a + 1] = h /\ (\A i \in 1 .. a : got'[i] = got[i])
      /\ Len(out') = o + y /\ (\A i \in 1 .. o : out'[i] = out[i])
      /\ (\A i \in 1 .. y : out'[o + i] = d[i])
      /\ sent' = sent
  BY <1>1 DEF Receives
<1>3. /\ at \in [0 .. a -> 0 .. o] /\ at[0] = 0 /\ at[a] = o
      /\ \A i \in 1 .. a :
           /\ at[i] = at[i - 1] + Len(Decode(sent[got[i]]))
           /\ \A k \in 1 .. Len(Decode(sent[got[i]])) :
                out[at[i - 1] + k] = Decode(sent[got[i]])[k]
  BY <1>1 DEF Receives, WrittenAt
<1>4. PICK longer : longer = [i \in 0 .. a + 1 |-> IF i <= a THEN at[i] ELSE o + y]
  OBVIOUS
<1>5. /\ longer \in [0 .. a + 1 -> 0 .. o + y] /\ (\A i \in 0 .. a : longer[i] = at[i])
      /\ longer[a + 1] = o + y
  BY <1>2, <1>3, <1>4
<1>6. longer[0] = 0
  BY <1>2, <1>3, <1>5
<1>7. ASSUME NEW i \in 1 .. a + 1
      PROVE  /\ longer[i] = longer[i - 1] + Len(Decode(sent[got'[i]]))
             /\ \A k \in 1 .. Len(Decode(sent[got'[i]])) :
                  out'[longer[i - 1] + k] = Decode(sent[got'[i]])[k]
  <2>1. CASE i = a + 1
    <3>1. i - 1 = a /\ a \in 0 .. a
      BY <1>2, <2>1
    <3>2. longer[i - 1] = o /\ longer[i] = o + y
      BY <1>3, <1>5, <2>1, <3>1
    <3>3. Decode(sent[got'[i]]) = d
      BY <1>1, <1>2, <2>1 DEF Receives
    <3> QED BY <1>1, <1>2, <3>2, <3>3 DEF Receives
  <2>2. CASE i # a + 1
    <3>1. i \in 1 .. a /\ i \in 0 .. a /\ i - 1 \in 0 .. a
      BY <1>2, <2>2
    <3>2. longer[i - 1] = at[i - 1] /\ longer[i] = at[i] /\ got'[i] = got[i]
      BY <1>2, <1>5, <3>1
    <3>3. PICK e : e = Decode(sent[got[i]])
      OBVIOUS
    <3>4. PICK m \in 0 .. o, n \in 0 .. o : m = at[i - 1] /\ n = at[i]
      BY <1>3, <3>1
    <3>5. n = m + Len(e) /\ \A k \in 1 .. Len(e) : out[m + k] = e[k]
      BY <1>3, <3>1, <3>3, <3>4
    <3>6. Len(e) \in Nat
      <4>1. got[i] \in 1 .. Len(sent)
        BY <1>1, <3>1, ElementOfSeq DEF Receives, TypeOK
      <4>2. sent[got[i]] \in Packets
        BY <4>1, ElementOfSeq DEF TypeOK
      <4>3. e \in Seq(UnitByte)
        BY <3>3, <4>2, DecodeType
      <4> QED BY <4>3, LenProperties
    <3>7. \A k \in 1 .. Len(e) : m + k \in 1 .. o
      BY <3>5, <3>6
    <3>8. \A k \in 1 .. Len(e) : out'[m + k] = e[k]
      BY <1>2, <3>5, <3>7
    <3> QED BY <3>2, <3>3, <3>4, <3>5, <3>8
  <2> QED BY <2>1, <2>2
<1>8. WrittenAt(longer)'
  <2>1. longer[Len(got')] = Len(out')
    BY <1>2, <1>5
  <2> QED BY <1>2, <1>5, <1>6, <1>7, <2>1 DEF WrittenAt
<1> QED BY <1>8

(* Where the packets belong in the whole file: one after the other *)
LEMMA PlaceOfPacket ==
  ASSUME TypeOK, NEW label, Labelled(label), NEW i \in 1 .. Len(sent),
         NEW d, d = Decode(sent[i])
  PROVE  /\ d \in Seq(UnitByte) /\ Position(label[i]) \in Nat
         /\ Position(label[i + 1]) = Position(label[i]) + Len(d)
         /\ Position(label[i + 1]) <= Len(Whole) /\ Len(Whole) \in Nat
         /\ \A k \in 1 .. Len(d) : Whole[Position(label[i]) + k] = d[k]
<1>1. PICK R \in Nat : R = ReadableNals
  BY ReadableFacts
<1>2. label[i] \in (Nat \ {0}) \X Nat /\ label[i + 1] = Following(label[i])
  BY DEF Labelled
<1>3. PICK n \in Nat \ {0}, f \in Nat : n = label[i][1] /\ f = label[i][2]
  BY <1>2
<1>4. label[i] = << n, f >>
  BY <1>2, <1>3
<1>5. n <= R /\ f < FuOf(n) /\ IsFragment(sent[i], n, f)
  BY <1>1, <1>3 DEF Labelled
<1>6. n \in 1 .. R
  BY <1>5
<1>7. PICK l \in Nat \ {0} : l = lengths[n]
  BY <1>1, <1>6, NalFacts
<1>8. PICK bef \in Nat, up \in Nat, x \in Nat :
        bef = Before(n, f) /\ up = Upto(n, f) /\ x = PayloadMax * f
  BY <1>1, <1>5, <1>6, UptoFacts, PayloadAssumption
<1>9. /\ x < up /\ up <= l
      /\ f + 1 < FuOf(n) => Before(n, f + 1) = 1 + up
      /\ ~(f + 1 < FuOf(n)) => up = l
  BY <1>1, <1>5, <1>6, <1>7, <1>8, UptoFacts
<1>10. bef <= up
  <2>1. CASE f = 0
    BY <1>8, <2>1 DEF Before
  <2>2. CASE f # 0
    <3>1. bef = 1 + x
      BY <1>8, <2>2 DEF Before
    <3> QED BY <1>9, <3>1
  <2> QED BY <2>1, <2>2
<1>11. /\ d \in Seq(UnitByte) /\ Len(d) = 1 + up - bef
       /\ \A k \in 1 .. Len(d) : d[k] = Written(n)[bef + k]
  BY <1>5, <1>8 DEF IsFragment
<1>12. PICK b \in Nat : b = Base(n) /\ Base(n + 1) = b + l + 1
  BY <1>1, <1>6, <1>7, WhereIs
<1>13. PICK w \in Nat : w = Len(Whole)
  <2>1. R \in 0 .. R
    OBVIOUS
  <2>2. Whole \in Seq(UnitByte)
    BY <1>1, <2>1, AllWrittenGoesOn DEF Whole
  <2> QED BY <2>2, LenProperties
<1>14. b + l + 1 <= w /\ \A k \in 1 .. l + 1 : Whole[b + k] = Written(n)[k]
  BY <1>1, <1>6, <1>7, <1>12, <1>13, WhereIs
<1>15. Position(label[i]) = b + bef
  BY <1>4, <1>8, <1>12 DEF Position
<1>16. Position(label[i + 1]) = b + 1 + up
  <2>1. CASE f + 1 < FuOf(n)
    <3>1. label[i + 1] = << n, f + 1 >>
      BY <1>2, <1>4, <2>1 DEF Following
    <3>2. Position(label[i + 1]) = b + (1 + up)
      BY <1>9, <1>12, <2>1, <3>1 DEF Position
    <3> QED BY <3>2
  <2>2. CASE ~(f + 1 < FuOf(n))
    <3>1. label[i + 1] = << n + 1, 0 >>
      BY <1>2, <1>4, <2>2 DEF Following
    <3>2. Before(n + 1, 0) = 0
      BY DEF Before
    <3>3. Position(label[i + 1]) = (b + l + 1) + 0
      BY <1>12, <3>1, <3>2 DEF Position
    <3> QED BY <1>9, <2>2, <3>3
  <2> QED BY <2>1, <2>2
<1>17. ASSUME NEW k \in 1 .. Len(d)
       PROVE  Whole[b + bef + k] = d[k]
  <2>1. PICK j \in 1 .. l + 1 : j = bef + k
    BY <1>9, <1>10, <1>11
  <2>2. b + bef + k = b + j
    BY <2>1
  <2>3. Whole[b + j] = Written(n)[j]
    BY <1>14
  <2>4. d[k] = Written(n)[bef + k]
    BY <1>11
  <2> QED BY <2>1, <2>2, <2>3, <2>4
<1>18. b + 1 + up = b + bef + Len(d) /\ b + 1 + up <= w /\ b + bef \in Nat
  BY <1>9, <1>10, <1>11, <1>14
<1> QED BY <1>11, <1>13, <1>15, <1>16, <1>17, <1>18

LEMMA ReceiveKeepsFollowing ==
  ASSUME TypeOK, FollowsSender, Receive
  PROVE  FollowsSender'
<1>1. PICK h \in 1 .. Len(sent), d \in Seq(UnitByte), a \in Nat, b \in Nat \ {0},
           o \in Nat, y \in Nat : Receives(h, d, a, b, o, y)
  BY ReceiveFacts
<1>2. UNCHANGED << lengths, sent, lost, Coming >>
  BY <1>1 DEF Receives, senderVars, Coming
<1>3. PICK label : Labelled(label) /\ (lost = {} => NoneMissing /\ Prefixed(label))
  BY DEF FollowsSender
<1>4. Labelled(label)'
  BY <1>2, <1>3, LabelsKept
<1>5. ASSUME lost' = {}
      PROVE  NoneMissing' /\ Prefixed(label)'
  <2>1. NoneMissing /\ Prefixed(label)
    BY <1>2, <1>3, <1>5
  <2>2. PICK N \in Nat : N = Len(sent)
    BY DEF TypeOK
  <2>3. a + b = N /\ (\A i \in 1 .. a : got[i] = i) /\ (\A i \in 1 .. b : net[i] = a + i)
    BY <1>1, <2>1, <2>2 DEF NoneMissing, Receives
  <2>4. 1 \in 1 .. b /\ h = net[1]
    BY <1>1 DEF Receives
  <2>5. h = a + 1
    BY <2>3, <2>4
  <2>6. /\ Len(got') = a + 1 /\ got'[a + 1] = h /\ (\A i \in 1 .. a : got'[i] = got[i])
        /\ Len(net') = b - 1 /\ (\A i \in 1 .. b - 1 : net'[i] = net[i + 1])
    BY <1>1 DEF Receives
  <2>7. \A i \in 1 .. a + 1 : got'[i] = i
    <3>1. ASSUME NEW i \in 1 .. a + 1
          PROVE  got'[i] = i
      <4>1. CASE i = a + 1
        BY <2>5, <2>6, <4>1
      <4>2. CASE i # a + 1
        <5>1. i \in 1 .. a
          BY <4>2
        <5> QED BY <2>3, <2>6, <5>1
      <4> QED BY <4>1, <4>2
    <3> QED BY <3>1
  <2>8. \A i \in 1 .. b - 1 : net'[i] = a + 1 + i
    <3>1. ASSUME NEW i \in 1 .. b - 1
          PROVE  net'[i] = a + 1 + i
      <4>1. i + 1 \in 1 .. b
        OBVIOUS
      <4>2. net[i + 1] = a + (i + 1) /\ net'[i] = net[i + 1]
        BY <2>3, <2>6, <4>1
      <4> QED BY <4>2
    <3> QED BY <3>1
  <2>9. NoneMissing'
    <3>1. a + 1 + (b - 1) = N /\ Len(sent') = N
      BY <1>2, <2>2, <2>3
    <3> QED BY <2>6, <2>7, <2>8, <3>1 DEF NoneMissing
  <2>10. PICK at \in Nat, w \in Nat :
           /\ at = Position(label[h]) /\ w = Len(Whole)
           /\ Position(label[h + 1]) = at + y /\ at + y <= w
           /\ \A k \in 1 .. y : Whole[at + k] = d[k]
    <3>1. d = Decode(sent[h]) /\ y = Len(d)
      BY <1>1 DEF Receives
    <3>2. /\ Position(label[h]) \in Nat
          /\ Position(label[h + 1]) = Position(label[h]) + Len(d)
          /\ Position(label[h + 1]) <= Len(Whole) /\ Len(Whole) \in Nat
          /\ \A k \in 1 .. Len(d) : Whole[Position(label[h]) + k] = d[k]
      BY <1>3, <3>1, PlaceOfPacket
    <3>3. PICK at \in Nat, w \in Nat : at = Position(label[h]) /\ w = Len(Whole)
      BY <3>2
    <3>4. /\ Position(label[h + 1]) = at + y /\ at + y <= w
          /\ \A k \in 1 .. y : Whole[at + k] = d[k]
      BY <3>1, <3>2, <3>3, Zenon
    <3> QED BY <3>3, <3>4, Zenon
  <2>11. o = at /\ \A j \in 1 .. o : out[j] = Whole[j]
    BY <1>1, <2>1, <2>5, <2>10 DEF Prefixed, Receives
  <2>12. Len(out') = o + y /\ (\A i \in 1 .. o : out'[i] = out[i])
         /\ (\A i \in 1 .. y : out'[o + i] = d[i])
    BY <1>1 DEF Receives
  <2>13. ASSUME NEW j \in 1 .. o + y
         PROVE  out'[j] = Whole[j]
    <3>1. CASE j <= o
      <4>1. j \in 1 .. o
        BY <3>1
      <4> QED BY <2>11, <2>12, <4>1
    <3>2. CASE ~(j <= o)
      <4>1. PICK k \in 1 .. y : j = o + k
        <5>1. j - o \in 1 .. y /\ j = o + (j - o)
          BY <3>2
        <5> QED BY <5>1
      <4> QED BY <2>10, <2>11, <2>12, <4>1
    <3> QED BY <3>1, <3>2
  <2>14. Whole' = Whole /\ \A g : Position(g)' = Position(g)
    <3>1. Whole' = Whole /\ \A n : Base(n)' = Base(n)
      BY <1>2, SameWhole
    <3>2. \A n, f : Before(n, f)' = Before(n, f)
      BY DEF Before
    <3> QED BY <3>1, <3>2 DEF Position
  <2>15. Len(out') = Position(label[h + 1]) /\ Len(out') <= Len(Whole) /\ h + 1 = Len(got') + 1
    BY <2>5, <2>6, <2>10, <2>11, <2>12
  <2>16. \A j \in 1 .. Len(out') : out'[j] = Whole[j]
    BY <2>12, <2>13
  <2>17. Prefixed(label)'
    BY <2>14, <2>15, <2>16 DEF Prefixed
  <2> QED BY <2>9, <2>17
<1> QED BY <1>4, <1>5 DEF FollowsSender

LEMMA ReceiveKeepsFile ==
  ASSUME TypeOK, FileInv, Receive
  PROVE  FileInv'
<1>1. UNCHANGED << senderVars, lengths, nextNal >>
  BY DEF Receive
<1>2. SenderInv'
  <2>1. ReadableNals' = ReadableNals /\ (\A n : FuOf(n)' = FuOf(n) /\ Nal(n)' = Nal(n))
    BY <1>1, SameNals
  <2> QED BY <1>1, <2>1 DEF FileInv, SenderInv, senderVars, Step
<1>3. FollowsSender' /\ InOrder'
  BY ReceiveKeepsFollowing, ReceiveKeepsOrder DEF FileInv
<1>4. PICK at : WrittenAt(at)
  BY DEF FileInv
<1>5. \E longer : WrittenAt(longer)'
  BY <1>4, ReceiveKeepsAt
<1> QED BY <1>2, <1>3, <1>5 DEF FileInv

LEMMA FileNext == TypeOK /\ FileInv /\ [Next]_vars => FileInv'
<1> SUFFICES ASSUME TypeOK, FileInv, [Next]_vars PROVE FileInv'
  OBVIOUS
<1>1. CASE ReadNal
  BY <1>1, ReadKeepsLabels, FileKept DEF FileInv
<1>2. CASE Send
  BY <1>2, SendKeepsFile
<1>3. CASE Receive
  BY <1>3, ReceiveKeepsFile
<1>4. CASE ReadEnd \/ Bind \/ UNCHANGED vars
  <2>1. UNCHANGED << senderVars, lengths, nextNal, sent, net, lost, got, out >>
    BY <1>4 DEF ReadEnd, Bind, vars, receiverVars
  <2>2. ReadableNals' = ReadableNals /\ (\A n : FuOf(n)' = FuOf(n) /\ Nal(n)' = Nal(n))
    BY <2>1, SameNals
  <2>3. SenderInv'
    BY <2>1, <2>2 DEF FileInv, SenderInv, senderVars, Step
  <2>4. Coming' = Coming
    BY <2>1 DEF Coming, senderVars
  <2> QED BY <2>1, <2>3, <2>4, FileKept
<1> QED BY <1>1, <1>2, <1>3, <1>4 DEF Next, Sender

LEMMA FileAlways == Spec => [](TypeOK /\ FileInv)
<1> QED BY TypeInit, TypeNext, FileInit, FileNext, PTL DEF Spec

(* Fragmentation and decoding undo each other: as long as no packet is lost, *)
(* the receiver's file is a beginning of what it should be.                  *)
THEOREM FileFollowsSender == Spec => []FileIsPrefix
<1>1. TypeOK /\ FileInv => FileIsPrefix
  <2> SUFFICES ASSUME TypeOK, FileInv, lost = {}
               PROVE  Len(out) <= Len(Whole) /\ out = SubSeq(Whole, 1, Len(out))
    BY DEF FileIsPrefix, Whole
  <2>1. PICK label : Prefixed(label)
    BY DEF FileInv, FollowsSender
  <2>2. out \in Seq(UnitByte)
    BY DEF TypeOK, UnitByte, Bytes
  <2>3. PICK o \in Nat : o = Len(out)
    BY <2>2, LenProperties
  <2>4. o <= Len(Whole) /\ \A j \in 1 .. o : out[j] = Whole[j]
    BY <2>1, <2>3 DEF Prefixed
  <2>5. \A j \in 1 .. o : out[j] \in UnitByte
    BY <2>2, <2>3, ElementOfSeq
  <2>6. PICK s : s = SubSeq(Whole, 1, o)
    OBVIOUS
  <2>7. /\ s \in Seq(UnitByte) /\ Len(s) = (IF 1 <= o THEN o - 1 + 1 ELSE 0)
        /\ \A i \in 1 .. o - 1 + 1 : s[i] = Whole[1 + i - 1]
    BY <2>4, <2>5, <2>6, SubSeqProperties
  <2>8. Len(s) = o /\ \A i \in 1 .. o : 1 + i - 1 = i /\ i \in 1 .. o - 1 + 1
    BY <2>7
  <2>9. \A i \in 1 .. o : out[i] = s[i]
    BY <2>4, <2>7, <2>8
  <2>10. out = s
    BY <2>2, <2>3, <2>7, <2>8, <2>9, SeqEqual
  <2> QED BY <2>3, <2>4, <2>6, <2>10
<1> QED BY <1>1, FileAlways, PTL

(* A receiver can tell by the timestamp which fragments make up a NAL, whatever *)
(* was lost: if ts_current moves at all with a NAL and does not wrap around in  *)
(* the course of a file.                                                        *)
THEOREM TimestampsGroupFragments ==
  ASSUME Step >= 1, \A f \in Files : Len(f) * Step < TsMod
  PROVE  Spec => []TimestampPerNal
<1>1. TypeOK /\ FileInv => TimestampPerNal
  <2> SUFFICES ASSUME TypeOK, FileInv, NEW i \in 1 .. Len(sent), NEW j \in 1 .. Len(sent)
               PROVE  sent[i].ts = sent[j].ts <=> sent[i].hdr = sent[j].hdr
    BY DEF TimestampPerNal, TimestampsTellNals
  <2>1. PICK label : Labelled(label)
    BY DEF FileInv, FollowsSender
  <2>2. PICK n, m : n = label[i][1] /\ m = label[j][1]
    OBVIOUS
  <2>3. n \in Nat /\ m \in Nat /\ n <= ReadableNals /\ m <= ReadableNals
    <3>1. i \in 1 .. Len(sent) + 1 /\ j \in 1 .. Len(sent) + 1
      BY DEF TypeOK
    <3>2. label[i] \in (Nat \ {0}) \X Nat /\ label[j] \in (Nat \ {0}) \X Nat
      BY <2>1, <3>1 DEF Labelled
    <3>3. label[i][1] <= ReadableNals /\ label[j][1] <= ReadableNals
      BY <2>1 DEF Labelled
    <3> QED BY <2>2, <3>2, <3>3
  <2>4. /\ sent[i].hdr = << n, 1 >> /\ sent[i].ts = ((n + 1) * Step) % TsMod
        /\ sent[j].hdr = << m, 1 >> /\ sent[j].ts = ((m + 1) * Step) % TsMod
    BY <2>1, <2>2 DEF Labelled, IsFragment
  <2>5. PICK s \in Nat : s = Step /\ s >= 1
    BY ClockAssumption, FramerateAssumption DEF Step
  <2>6. PICK t \in Nat \ {0} : t = TsMod
    BY ClockAssumption
  <2>7. PICK z \in Nat : z = Len(lengths)
    BY ReadableFacts, LenProperties
  <2>8. z * s < t /\ lengths \in Files
    BY <2>5, <2>6, <2>7 DEF TypeOK
  <2>9. CASE lengths = << >>
    <3>1. label[1] = << 1, 0 >> /\ 1 \in 1 .. Len(sent) /\ label[1][1] <= 0
      BY <2>1, <2>9 DEF Labelled, ReadableNals
    <3> QED BY <3>1
  <2>10. CASE lengths # << >>
    <3>1. n + 1 <= z /\ m + 1 <= z
      BY <2>3, <2>7, <2>10 DEF ReadableNals
    <3>2. \A k \in Nat : k <= z => k * s <= z * s
      BY <2>5
    <3>3. PICK x \in Nat, y \in Nat : x = (n + 1) * s /\ y = (m + 1) * s
      BY <2>3
    <3>4. x < t /\ y < t
      <4>1. x <= z * s /\ y <= z * s
        BY <2>3, <3>1, <3>2, <3>3
      <4>2. PICK u \in Nat : u = z * s
        OBVIOUS
      <4> QED BY <2>8, <4>1, <4>2
    <3>5. x % t = x /\ y % t = y
      <4>1. x \in 0 .. t - 1 /\ y \in 0 .. t - 1
        BY <3>4
      <4> QED BY <4>1, SmallMod
    <3>6. x = y <=> n = m
      <4>1. \A k, l \in Nat : k < l => (k + 1) * s < (l + 1) * s
        BY <2>5
      <4>2. n < m => x < y
        BY <2>3, <3>3, <4>1
      <4>3. m < n => y < x
        BY <2>3, <3>3, <4>1
      <4> QED BY <2>3, <3>3, <4>2, <4>3
    <3>7. sent[i].ts = x /\ sent[j].ts = y
      BY <2>4, <2>5, <2>6, <3>3, <3>5
    <3>8. << n, 1 >> = << m, 1 >> <=> n = m
      OBVIOUS
    <3> QED BY <2>4, <3>6, <3>7, <3>8
  <2> QED BY <2>9, <2>10
<1> QED BY <1>1, FileAlways, PTL

-----------------------------------------------------------------------------
(* A NAL all of whose packets are decoded in a row is in the file, intact *)

(* Packet i is fragment f of n *)
HasLabel(label, i, n, f) ==
  /\ label[i] = << n, f >> /\ f < FuOf(n) /\ IsFragment(sent[i], n, f)
  /\ label[i + 1] = IF f + 1 < FuOf(n) THEN << n, f + 1 >> ELSE << n + 1, 0 >>

LEMMA LabelFacts ==
  ASSUME TypeOK, NEW label, Labelled(label), NEW i \in 1 .. Len(sent)
  PROVE  \E n \in 1 .. ReadableNals, f \in Nat : HasLabel(label, i, n, f)
<1>1. ReadableNals \in Nat /\ Len(sent) \in Nat
  BY ReadableFacts DEF TypeOK
<1>2. i \in 1 .. Len(sent) + 1 /\ i + 1 \in 1 .. Len(sent) + 1
  BY <1>1
<1>3. label[i] \in (Nat \ {0}) \X Nat
  BY <1>2 DEF Labelled
<1>4. PICK n \in Nat \ {0}, f \in Nat : label[i] = << n, f >> /\ n = label[i][1] /\ f = label[i][2]
  BY <1>3
<1>5. n <= ReadableNals /\ f < FuOf(n) /\ IsFragment(sent[i], n, f)
      /\ label[i + 1] = Following(<< n, f >>)
  <2>1. /\ label[i][1] <= ReadableNals /\ label[i][2] < FuOf(label[i][1])
        /\ IsFragment(sent[i], label[i][1], label[i][2])
        /\ label[i + 1] = Following(label[i])
    BY DEF Labelled
  <2> QED BY <1>4, <2>1
<1>6. n \in 1 .. ReadableNals
  BY <1>1, <1>5
<1>7. label[i + 1] = IF f + 1 < FuOf(n) THEN << n, f + 1 >> ELSE << n + 1, 0 >>
  BY <1>5 DEF Following
<1>8. HasLabel(label, i, n, f)
  BY <1>4, <1>5, <1>7 DEF HasLabel
<1> QED BY <1>6, <1>8

LEMMA LabelsGoUp ==
  ASSUME TypeOK, NEW label, Labelled(label)
  PROVE  \A i, j \in 1 .. Len(sent) + 1 : i <= j => label[i][1] <= label[j][1]
<1>1. PICK N \in Nat : N = Len(sent)
  BY DEF TypeOK
<1>2. \A i \in 1 .. N + 1 : label[i][1] \in Nat
  <2>1. \A i \in 1 .. N + 1 : label[i] \in (Nat \ {0}) \X Nat
    BY <1>1 DEF Labelled
  <2> QED BY <2>1
<1>3. ASSUME NEW i \in 1 .. N
      PROVE  label[i][1] <= label[i + 1][1]
  <2>1. PICK n \in 1 .. ReadableNals, f \in Nat : HasLabel(label, i, n, f)
    BY <1>1, LabelFacts
  <2>2. n \in Nat
    BY ReadableFacts
  <2>3. label[i][1] = n /\ (label[i + 1][1] = n \/ label[i + 1][1] = n + 1)
    BY <2>1 DEF HasLabel
  <2> QED BY <2>2, <2>3
<1> DEFINE T == {d \in Nat : \A i \in 1 .. N + 1 :
                               i + d <= N + 1 => label[i][1] <= label[i + d][1]}
<1>4. 0 \in T
  <2>1. \A i \in 1 .. N + 1 : i + 0 = i /\ label[i][1] <= label[i][1]
    BY <1>2
  <2> QED BY <2>1
<1>5. ASSUME NEW d \in Nat, d \in T
      PROVE  d + 1 \in T
  <2> SUFFICES ASSUME NEW i \in 1 .. N + 1, i + (d + 1) <= N + 1
               PROVE  label[i][1] <= label[i + (d + 1)][1]
    OBVIOUS
  <2>1. PICK j \in 1 .. N : j = i + d /\ j + 1 = i + (d + 1)
    OBVIOUS
  <2>2. i + d <= N + 1
    OBVIOUS
  <2>3. label[i][1] <= label[i + d][1]
    BY <1>5, <2>2
  <2>4. label[j][1] <= label[j + 1][1]
    BY <1>3
  <2>5. i \in 1 .. N + 1 /\ j \in 1 .. N + 1 /\ j + 1 \in 1 .. N + 1
    OBVIOUS
  <2>6. PICK x \in Nat, y \in Nat, z \in Nat :
          x = label[i][1] /\ y = label[j][1] /\ z = label[j + 1][1]
    BY <1>2, <2>5
  <2> QED BY <2>1, <2>3, <2>4, <2>6
<1> HIDE DEF T
<1>6. Nat \subseteq T
  BY <1>4, <1>5, SetInduction
<1>7. ASSUME NEW i \in 1 .. N + 1, NEW j \in 1 .. N + 1, i <= j
      PROVE  label[i][1] <= label[j][1]
  <2>1. PICK d \in Nat : j = i + d
    <3>1. j - i \in Nat /\ j = i + (j - i)
      BY <1>7
    <3> QED BY <3>1
  <2>2. d \in T /\ i + d <= N + 1
    BY <1>6, <2>1
  <2> QED BY <2>1, <2>2 DEF T
<1> QED BY <1>1, <1>7

(* The packets of n, if they are all of them and have been decoded one after the *)
(* other, are its fragments, from the first to the last.                        *)
LEMMA FragmentsInARow ==
  ASSUME TypeOK, SenderInv, InOrder, NEW label, Labelled(label),
         NEW n \in 1 .. ReadableNals, nextNal > n /\ (nextNal = n + 1 => nalu = << >>),
         NEW a \in 1 .. Len(got), NEW b \in 1 .. Len(got), a <= b,
         {got[i] : i \in a .. b} = PacketsOf(n)
  PROVE  /\ b = a + FuOf(n) - 1
         /\ \A k \in 0 .. FuOf(n) - 1 :
              got[a + k] \in 1 .. Len(sent) /\ label[got[a + k]] = << n, k >>
<1>1. PICK N \in Nat, g \in Nat, R \in Nat : N = Len(sent) /\ g = Len(got) /\ R = ReadableNals
  BY ReadableFacts DEF TypeOK
<1>2. \A i \in 1 .. g : got[i] \in 1 .. N
  BY <1>1, ElementOfSeq DEF TypeOK
<1>3. \A i, j \in 1 .. g : i < j => got[i] < got[j]
  BY <1>1 DEF InOrder
<1>4. a \in 1 .. g /\ b \in 1 .. g /\ n \in 1 .. R
  BY <1>1
<1>5. PICK fu \in Nat \ {0} : fu = FuOf(n)
  BY <1>1, <1>4, NalFacts, FuFacts DEF FuOf
<1>6. ASSUME NEW i \in 1 .. N
      PROVE  i \in PacketsOf(n) <=> label[i][1] = n
  <2>1. PICK m \in 1 .. ReadableNals, f \in Nat : HasLabel(label, i, m, f)
    BY <1>1, LabelFacts
  <2>2. sent[i].hdr = << m, 1 >> /\ label[i][1] = m
    BY <2>1 DEF IsFragment, HasLabel
  <2>3. << m, 1 >> = << n, 1 >> <=> m = n
    OBVIOUS
  <2> QED BY <1>1, <2>2, <2>3 DEF PacketsOf
<1>7. \A i \in a .. b : i \in 1 .. g /\ got[i] \in 1 .. N /\ got[i] \in PacketsOf(n)
  BY <1>2, <1>4
<1>8. \A j \in 1 .. N : label[j][1] = n => \E i \in a .. b : got[i] = j
  BY <1>6
<1>9. PICK x \in 1 .. N : x = got[a] /\ label[x][1] = n
  <2>1. a \in a .. b
    BY <1>4
  <2> QED BY <1>6, <1>7, <2>1
(* The next label to come is beyond n *)
<1>10. label[N + 1] # << n, 0 >> /\ \A k \in Nat : label[N + 1] # << n, k >>
  <2>1. label[N + 1] = Coming
    BY <1>1 DEF Labelled
  <2>2. nextNal \in Nat /\ n \in Nat
    BY <1>4 DEF TypeOK
  <2>3. Coming = << nextNal - 1, fuSeq >> \/ Coming = << nextNal, 0 >>
    BY <1>4, <2>2 DEF Coming
  <2>4. Coming = << nextNal - 1, fuSeq >> /\ nalu # << >> => nextNal - 1 # n
    BY <2>2
  <2>5. nalu = << >> => Coming = << nextNal, 0 >>
    BY <1>4, <2>2 DEF Coming
  <2>6. Coming[1] # n
    BY <2>2, <2>3, <2>4, <2>5
  <2> QED BY <2>1, <2>6
<1>11. label[x] = << n, 0 >>
  <2>1. PICK f \in Nat : label[x] = << n, f >>
    <3>1. PICK m \in 1 .. ReadableNals, f \in Nat : HasLabel(label, x, m, f)
      BY <1>1, LabelFacts
    <3> QED BY <1>9, <3>1 DEF HasLabel
  <2>2. ASSUME f # 0
        PROVE  FALSE
    <3>1. x # 1
      <4>1. label[1] = << 1, 0 >>
        BY DEF Labelled
      <4> QED BY <2>1, <2>2, <4>1
    <3>2. PICK z \in 1 .. N : z + 1 = x
      <4>1. x - 1 \in 1 .. N /\ x - 1 + 1 = x
        BY <3>1
      <4> QED BY <4>1
    <3>3. PICK m \in 1 .. ReadableNals, e \in Nat : HasLabel(label, z, m, e)
      BY <1>1, LabelFacts
    <3>4. label[z][1] = n
      BY <2>1, <2>2, <3>2, <3>3 DEF HasLabel
    <3>5. PICK i \in a .. b : got[i] = z
      BY <1>8, <3>4
    <3>6. i \in 1 .. g /\ (i = a \/ a < i)
      BY <1>4
    <3>7. got[a] <= z
      <4>1. CASE i = a
        BY <3>2, <3>5, <4>1
      <4>2. CASE a < i
        <5>1. got[a] < got[i]
          BY <1>3, <1>4, <3>6, <4>2
        <5> QED BY <1>2, <1>4, <3>2, <3>5, <5>1
      <4> QED BY <3>6, <4>1, <4>2
    <3> QED BY <1>9, <3>2, <3>7
  <2> QED BY <2>1, <2>2
<1> DEFINE T == {k \in Nat : k < fu => /\ a + k <= b /\ x + k <= N /\ got[a + k] = x + k
                                       /\ label[x + k] = << n, k >>}
<1>12. 0 \in T
  <2>1. a + 0 = a /\ x + 0 = x
    BY <1>4
  <2> QED BY <1>4, <1>9, <1>11, <2>1
<1>13. ASSUME NEW k \in Nat, k \in T
       PROVE  k + 1 \in T
  <2> SUFFICES ASSUME k + 1 < fu
               PROVE  /\ a + (k + 1) <= b /\ x + (k + 1) <= N /\ got[a + (k + 1)] = x + (k + 1)
                      /\ label[x + (k + 1)] = << n, k + 1 >>
    OBVIOUS
  <2>1. k < fu
    BY <1>5
  <2>2. a + k <= b /\ x + k <= N /\ got[a + k] = x + k /\ label[x + k] = << n, k >>
    BY <1>13, <2>1
  <2>3. PICK z \in 1 .. N : z = x + k /\ z + 1 = x + (k + 1)
    BY <2>2
  <2>4. label[z + 1] = << n, k + 1 >>
    <3>1. PICK m \in 1 .. ReadableNals, e \in Nat : HasLabel(label, z, m, e)
      BY <1>1, LabelFacts
    <3>2. m = n /\ e = k
      BY <2>2, <2>3, <3>1 DEF HasLabel
    <3> QED BY <1>5, <3>1, <3>2 DEF HasLabel
  <2>5. z + 1 \in 1 .. N
    <3>1. z + 1 # N + 1
      BY <1>10, <2>4
    <3> QED BY <3>1
  <2>6. PICK i \in a .. b : got[i] = z + 1
    <3>1. label[z + 1][1] = n
      BY <2>4
    <3> QED BY <1>8, <2>5, <3>1
  <2>7. PICK c \in 1 .. g : c = a + k
    BY <1>4, <2>2
  <2>8. i \in 1 .. g
    BY <1>4
  <2>9. got[c] = z
    BY <2>2, <2>3, <2>7
  <2>10. c < i
    <3>1. i < c => got[i] < got[c]
      BY <1>3, <2>8
    <3>2. i = c => got[i] = got[c]
      OBVIOUS
    <3> QED BY <2>6, <2>8, <2>9, <3>1, <3>2
  <2>11. c + 1 \in 1 .. g
    BY <2>8, <2>10
  <2>12. got[c + 1] \in 1 .. N /\ got[c] < got[c + 1]
    BY <1>2, <1>3, <2>11
  <2>13. i = c + 1
    <3>1. c + 1 < i => got[c + 1] < got[i]
      BY <1>3, <2>8, <2>11
    <3>2. ~(c + 1 < i)
      BY <2>6, <2>9, <2>12, <3>1
    <3> QED BY <2>8, <2>10, <3>2
  <2>14. c + 1 = a + (k + 1)
    BY <1>4, <2>7
  <2>15. got[a + (k + 1)] = x + (k + 1)
    BY <2>3, <2>6, <2>13, <2>14
  <2>16. a + (k + 1) <= b
    BY <2>6, <2>13, <2>14
  <2> QED BY <2>3, <2>4, <2>5, <2>15, <2>16
<1> HIDE DEF T
<1>14. Nat \subseteq T
  BY <1>12, <1>13, SetInduction
<1>15. \A k \in 0 .. fu - 1 : /\ a + k <= b /\ x + k \in 1 .. N /\ got[a + k] = x + k
                              /\ label[x + k] = << n, k >>
  <2>1. ASSUME NEW k \in 0 .. fu - 1
        PROVE  /\ a + k <= b /\ x + k \in 1 .. N /\ got[a + k] = x + k
               /\ label[x + k] = << n, k >>
    <3>1. k \in T /\ k < fu
      BY <1>14
    <3>2. /\ a + k <= b /\ x + k <= N /\ got[a + k] = x + k
          /\ label[x + k] = << n, k >>
      BY <3>1 DEF T
    <3> QED BY <3>2
  <2> QED BY <2>1
<1>16. PICK e \in 0 .. fu - 1 : e = fu - 1
  OBVIOUS
<1>17. a + e <= b /\ x + e \in 1 .. N /\ got[a + e] = x + e /\ label[x + e] = << n, e >>
  BY <1>15
<1>18. b = a + e
  <2> SUFFICES ASSUME a + e < b
               PROVE  FALSE
    BY <1>4, <1>17
  <2>1. PICK c \in 1 .. g : c = a + e
    BY <1>4, <1>17
  <2>2. PICK z \in 1 .. N : z = x + e
    BY <1>17
  <2>3. got[c] < got[b] /\ got[c] = z /\ got[b] \in 1 .. N
    BY <1>2, <1>3, <1>4, <1>17, <2>1, <2>2
  <2>4. label[z + 1][1] = n + 1
    <3>1. PICK m \in 1 .. ReadableNals, f \in Nat : HasLabel(label, z, m, f)
      BY <1>1, LabelFacts
    <3>2. m = n /\ f = e
      BY <1>17, <2>2, <3>1 DEF HasLabel
    <3>3. ~(f + 1 < FuOf(m))
      BY <1>5, <1>16, <3>2
    <3> QED BY <3>1, <3>2, <3>3 DEF HasLabel
  <2>5. PICK j \in 1 .. N : j = got[b] /\ z + 1 <= j
    BY <2>3
  <2>6. label[z + 1][1] <= label[j][1]
    <3>1. z + 1 \in 1 .. N + 1 /\ j \in 1 .. N + 1
      OBVIOUS
    <3> QED BY <1>1, <2>5, <3>1, LabelsGoUp
  <2>7. label[j][1] = n
    <3>1. b \in a .. b
      BY <1>4
    <3> QED BY <1>6, <1>7, <2>5, <3>1
  <2> QED BY <1>4, <2>4, <2>6, <2>7
<1>19. \A k \in 0 .. fu - 1 : got[a + k] \in 1 .. N /\ label[got[a + k]] = << n, k >>
  BY <1>15
<1>20. b = a + fu - 1
  BY <1>4, <1>16, <1>18
<1> QED BY <1>1, <1>5, <1>19, <1>20

LEMMA NalIsIntact ==
  ASSUME TypeOK, SenderInv, InOrder, NEW label, Labelled(label), NEW at, WrittenAt(at),
         NEW n \in 1 .. ReadableNals, nextNal > n /\ (nextNal = n + 1 => nalu = << >>),
         NEW a \in 1 .. Len(got), NEW b \in 1 .. Len(got), a <= b,
         {got[i] : i \in a .. b} = PacketsOf(n)
  PROVE  /\ at[b] = at[a - 1] + lengths[n] + 1
         /\ \A j \in 1 .. lengths[n] + 1 : out[at[a - 1] + j] = Written(n)[j]
<1>1. PICK g \in Nat, o \in Nat : g = Len(got) /\ o = Len(out)
  <2>1. got \in Seq(1 .. Len(sent)) /\ out \in Seq(UnitByte)
    BY DEF TypeOK, UnitByte, Bytes
  <2>2. Len(got) \in Nat /\ Len(out) \in Nat
    BY <2>1, LenProperties
  <2> QED BY <2>2
<1>2. a \in 1 .. g /\ b \in 1 .. g
  BY <1>1
<1>3. PICK fu \in Nat \ {0}, l \in Nat \ {0} : fu = FuOf(n) /\ l = lengths[n]
  BY NalFacts, FuFacts DEF FuOf
<1>4. b = a + fu - 1 /\ \A k \in 0 .. fu - 1 :
                          got[a + k] \in 1 .. Len(sent) /\ label[got[a + k]] = << n, k >>
  BY <1>3, FragmentsInARow
<1>5. /\ at \in [0 .. g -> 0 .. o]
      /\ \A i \in 1 .. g :
           /\ at[i] = at[i - 1] + Len(Decode(sent[got[i]]))
           /\ \A k \in 1 .. Len(Decode(sent[got[i]])) :
                out[at[i - 1] + k] = Decode(sent[got[i]])[k]
  BY <1>1 DEF WrittenAt
<1>6. PICK s \in 0 .. o : s = at[a - 1]
  <2>1. a - 1 \in 0 .. g
    BY <1>2
  <2> QED BY <1>5, <2>1
(* What fragment k adds *)
<1>7. ASSUME NEW k \in 0 .. fu - 1, at[a - 1 + k] = s + Before(n, k)
      PROVE  /\ Before(n, k) \in Nat /\ Upto(n, k) \in Nat
             /\ at[a + k] = s + (1 + Upto(n, k))
             /\ \A j \in Before(n, k) + 1 .. 1 + Upto(n, k) : out[s + j] = Written(n)[j]
  <2>1. PICK bef \in Nat, up \in Nat : bef = Before(n, k) /\ up = Upto(n, k)
    BY <1>3, UptoFacts
  <2>2. PICK i \in 1 .. g : i = a + k /\ i - 1 = a - 1 + k
    BY <1>2, <1>4
  <2>3. PICK d : d = Decode(sent[got[i]])
    OBVIOUS
  <2>4. d \in Seq(UnitByte) /\ Len(d) = 1 + up - bef
        /\ \A j \in 1 .. Len(d) : d[j] = Written(n)[bef + j]
    <3>1. PICK h \in 1 .. Len(sent) : h = got[i] /\ label[h] = << n, k >>
      BY <1>4, <2>2
    <3>2. PICK m \in 1 .. ReadableNals, f \in Nat : HasLabel(label, h, m, f)
      BY LabelFacts
    <3>3. m = n /\ f = k
      BY <3>1, <3>2 DEF HasLabel
    <3>4. IsFragment(sent[h], n, k)
      BY <3>2, <3>3 DEF HasLabel
    <3> QED BY <2>1, <2>3, <3>1, <3>4 DEF IsFragment
  <2>5. at[i] = at[i - 1] + Len(d) /\ \A j \in 1 .. Len(d) : out[at[i - 1] + j] = d[j]
    BY <1>5, <2>3
  <2>6. PICK y \in Nat : y = Len(d)
    BY <2>4, LenProperties
  <2>7. at[i - 1] = s + bef
    BY <1>7, <2>1, <2>2
  <2>8. at[i] = s + (1 + up)
    BY <2>4, <2>5, <2>6, <2>7
  <2>9. ASSUME NEW j \in bef + 1 .. 1 + up
        PROVE  out[s + j] = Written(n)[j]
    <3>1. PICK e \in 1 .. y : j = bef + e /\ s + j = s + bef + e
      <4>1. y = 1 + up - bef
        BY <2>4, <2>6
      <4>2. PICK e \in Int : e = j - bef
        OBVIOUS
      <4>3. e \in 1 .. y
        BY <4>1, <4>2
      <4>4. j = bef + e /\ s + j = s + bef + e
        BY <4>2
      <4> QED BY <4>3, <4>4
    <3>2. out[s + bef + e] = d[e] /\ d[e] = Written(n)[bef + e]
      BY <2>4, <2>5, <2>6, <2>7
    <3> QED BY <3>1, <3>2
  <2> QED BY <2>1, <2>2, <2>8, <2>9
<1> DEFINE T == {k \in Nat : k < fu =>
                   /\ at[a - 1 + k] = s + Before(n, k)
                   /\ \A j \in 1 .. Before(n, k) : out[s + j] = Written(n)[j]}
<1>8. 0 \in T
  <2>1. Before(n, 0) = 0 /\ a - 1 + 0 = a - 1 /\ s + 0 = s
    BY <1>2 DEF Before
  <2> QED BY <1>6, <2>1
<1>9. ASSUME NEW k \in Nat, k \in T, k < fu
      PROVE  /\ Upto(n, k) \in Nat /\ at[a + k] = s + (1 + Upto(n, k))
             /\ \A j \in 1 .. 1 + Upto(n, k) : out[s + j] = Written(n)[j]
  <2>1. /\ at[a - 1 + k] = s + Before(n, k)
        /\ \A j \in 1 .. Before(n, k) : out[s + j] = Written(n)[j]
    BY <1>9
  <2>2. k \in 0 .. fu - 1
    BY <1>9
  <2>3. PICK bef \in Nat, up \in Nat : bef = Before(n, k) /\ up = Upto(n, k)
    BY <1>7, <2>1, <2>2
  <2>4. /\ at[a + k] = s + (1 + up)
        /\ \A j \in bef + 1 .. 1 + up : out[s + j] = Written(n)[j]
    BY <1>7, <2>1, <2>2, <2>3
  <2>5. ASSUME NEW j \in 1 .. 1 + up
        PROVE  out[s + j] = Written(n)[j]
    <3>1. j \in 1 .. bef \/ j \in bef + 1 .. 1 + up
      OBVIOUS
    <3> QED BY <2>1, <2>3, <2>4, <3>1
  <2> QED BY <2>3, <2>4, <2>5
<1>10. ASSUME NEW k \in Nat, k \in T
       PROVE  k + 1 \in T
  <2> SUFFICES ASSUME k + 1 < fu
               PROVE  /\ at[a - 1 + (k + 1)] = s + Before(n, k + 1)
                      /\ \A j \in 1 .. Before(n, k + 1) : out[s + j] = Written(n)[j]
    OBVIOUS
  <2>1. k < fu
    OBVIOUS
  <2>2. /\ Upto(n, k) \in Nat /\ at[a + k] = s + (1 + Upto(n, k))
        /\ \A j \in 1 .. 1 + Upto(n, k) : out[s + j] = Written(n)[j]
    BY <1>9, <1>10, <2>1
  <2>3. Before(n, k + 1) = 1 + Upto(n, k)
    BY <1>3, <2>1, UptoFacts
  <2>4. a - 1 + (k + 1) = a + k
    BY <1>2
  <2> QED BY <2>2, <2>3, <2>4
<1> HIDE DEF T
<1>11. Nat \subseteq T
  BY <1>8, <1>10, SetInduction
<1>12. PICK k \in Nat : k = fu - 1 /\ k \in T /\ k < fu /\ ~(k + 1 < fu) /\ a + k = b
  <2>1. fu - 1 \in Nat /\ fu - 1 < fu /\ ~(fu - 1 + 1 < fu) /\ a + (fu - 1) = b
    BY <1>2, <1>4
  <2> QED BY <1>11, <2>1
<1>13. Upto(n, k) = l
  BY <1>3, <1>12, UptoFacts
<1>14. at[b] = s + (1 + l) /\ \A j \in 1 .. 1 + l : out[s + j] = Written(n)[j]
  BY <1>9, <1>12, <1>13
<1>15. s + (1 + l) = s + l + 1 /\ 1 + l = l + 1
  OBVIOUS
<1> QED BY <1>3, <1>6, <1>14, <1>15

(* A loss damages the NAL it hits, and at most the one before it: a NAL whose *)
(* packets have all been decoded, and are not followed by the fragments of a   *)
(* NAL whose beginning was lost, is in the file intact, whatever else is lost. *)
THEOREM LossesStayLocal == Spec => []DamageContained
<1>1. TypeOK /\ FileInv => DamageContained
  <2> SUFFICES ASSUME TypeOK, FileInv, NEW n \in 1 .. ReadableNals, CleanlyReceived(n)
               PROVE  \E p \in 1 .. Len(out) : IntactAt(n, p)
    BY DEF DamageContained
  <2>1. PICK label : Labelled(label)
    BY DEF FileInv, FollowsSender
  <2>2. PICK at : WrittenAt(at)
    BY DEF FileInv
  <2>3. PICK a \in 1 .. Len(got), b \in 1 .. Len(got) :
          /\ a <= b /\ {got[i] : i \in a .. b} = PacketsOf(n)
          /\ nextNal > n /\ (nextNal = n + 1 => nalu = << >>)
          /\ b < Len(got) => sent[got[b + 1]].unit \in {"single", "start"}
    BY DEF CleanlyReceived
  <2>4. PICK g \in Nat, o \in Nat : g = Len(got) /\ o = Len(out)
    BY DEF TypeOK
  <2>5. PICK l \in Nat \ {0} : l = lengths[n]
    BY NalFacts
  <2>6. PICK w : w = Written(n)
    OBVIOUS
  <2>7. w \in Seq(UnitByte) /\ Len(w) = l + 1
    BY <2>5, <2>6, NalFacts
  <2>8. at \in [0 .. g -> 0 .. o] /\ at[g] = o
    BY <2>2, <2>4 DEF WrittenAt
  <2>9. a - 1 \in 0 .. g /\ b \in 1 .. g /\ b \in 0 .. g
    BY <2>3, <2>4
  <2>10. PICK s \in 0 .. o, e \in 0 .. o : s = at[a - 1] /\ e = at[b]
    BY <2>8, <2>9
  <2>11. e = s + l + 1 /\ \A j \in 1 .. l + 1 : out[s + j] = w[j]
    <3>1. /\ at[b] = at[a - 1] + lengths[n] + 1
          /\ \A j \in 1 .. lengths[n] + 1 : out[at[a - 1] + j] = Written(n)[j]
      BY <2>1, <2>2, <2>3, NalIsIntact DEF FileInv
    <3> QED BY <2>5, <2>6, <2>10, <3>1
  <2>12. PICK p \in 1 .. o : p = s + 1
    <3>1. s + 1 \in 1 .. o
      BY <2>11
    <3> QED BY <3>1
  <2>13. PICK q \in Nat : q = p + (l + 1) /\ q = e + 1 /\ q <= o + 1
    BY <2>11, <2>12
  <2>14. SubSeq(out, p, q - 1) = w
    <3>1. PICK t : t = SubSeq(out, p, q - 1)
      OBVIOUS
    <3>2. \A j \in p .. q - 1 : out[j] \in UnitByte
      <4>1. out \in Seq(UnitByte)
        BY DEF TypeOK, UnitByte, Bytes
      <4>2. \A j \in p .. q - 1 : j \in 1 .. o
        BY <2>13
      <4> QED BY <2>4, <4>1, <4>2, ElementOfSeq
    <3>3. /\ t \in Seq(UnitByte)
          /\ Len(t) = (IF p <= q - 1 THEN q - 1 - p + 1 ELSE 0)
          /\ \A j \in 1 .. q - 1 - p + 1 : t[j] = out[p + j - 1]
      BY <3>1, <3>2, SubSeqProperties
    <3>4. p <= q - 1 /\ q - 1 - p + 1 = l + 1
      BY <2>13
    <3>5. Len(t) = l + 1
      BY <3>3, <3>4
    <3>6. \A j \in 1 .. l + 1 : p + j - 1 = s + j
      BY <2>12
    <3>7. \A j \in 1 .. l + 1 : t[j] = w[j]
      BY <2>11, <3>3, <3>4, <3>6
    <3> QED BY <2>7, <3>1, <3>3, <3>5, <3>7, SeqEqual
  <2>15. ASSUME q <= o
         PROVE  out[q] = StartCode
    <3>1. b < g
      <4>1. b # g
        BY <2>8, <2>10, <2>13, <2>15
      <4> QED BY <2>9, <4>1
    <3>2. PICK c \in 1 .. g : c = b + 1 /\ c - 1 = b
      BY <2>9, <3>1
    <3>3. sent[got[c]].unit \in {"single", "start"}
      BY <2>3, <2>4, <3>1, <3>2
    <3>4. PICK h \in 1 .. Len(sent) : h = got[c]
      BY <2>4, ElementOfSeq DEF TypeOK
    <3>5. PICK m \in 1 .. ReadableNals, f \in Nat : HasLabel(label, h, m, f)
      BY <2>1, LabelFacts
    <3>6. PICK d : d = Decode(sent[h])
      OBVIOUS
    <3>7. f = 0 /\ Len(d) = 1 + Upto(m, f) - Before(m, f)
          /\ \A k \in 1 .. Len(d) : d[k] = Written(m)[Before(m, f) + k]
      BY <3>3, <3>4, <3>5, <3>6 DEF HasLabel, IsFragment
    <3>8. Before(m, f) = 0 /\ Upto(m, f) \in Nat
      BY <3>5, <3>7, UptoFacts DEF HasLabel, Before
    <3>9. 1 \in 1 .. Len(d) /\ 0 + 1 = 1
      BY <3>7, <3>8
    <3>10. d[1] = StartCode
      <4>1. d[1] = Written(m)[0 + 1]
        BY <3>7, <3>8, <3>9
      <4>2. Written(m)[1] = StartCode
        BY NalFacts
      <4> QED BY <3>9, <4>1, <4>2
    <3>11. \A k \in 1 .. Len(d) : out[at[c - 1] + k] = d[k]
      BY <2>2, <2>4, <3>4, <3>6 DEF WrittenAt
    <3>12. out[e + 1] = d[1]
      BY <2>10, <3>2, <3>9, <3>11
    <3> QED BY <2>13, <3>10, <3>12
  <2>16. Len(Written(n)) = l + 1
    BY <2>6, <2>7
  <2>17. IntactAt(n, p)
    BY <2>4, <2>6, <2>13, <2>14, <2>15, <2>16 DEF IntactAt
  <2> QED BY <2>4, <2>17
<1> QED BY <1>1, FileAlways, PTL
=============================================================================
