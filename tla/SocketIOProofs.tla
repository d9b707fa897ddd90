---------------------------- MODULE SocketIOProofs ----------------------------
(***************************************************************************)
(* Theorems about both sides of SocketIO, for any sizes, any capacity of   *)
(* the connection and any outcome of select, send, recv, sendto and        *)
(* recvfrom.  What makes the claims of the TCP writer inductive is that    *)
(* put, what was handed to the connection, is exactly counted +            *)
(* (size1 - size) while a chunk is under way, and that a chunk is given up *)
(* only before its last byte is sent.                                      *)
(*   On the UDP side each interrupted sendto moves p back by one and makes *)
(* remain longer by one; both are counted from the last datagram and the   *)
(* interruptions since.                                                    *)
(***************************************************************************)
EXTENDS SocketIO, SequenceTheorems, TLAPS

UnderWay ==
  /\ size1 \in 1 .. MaxMtu /\ size \in 1 .. size1
  /\ counted + size1 <= Size
  /\ Len(put) = counted + (size1 - size)

WriterInv ==
  /\ wpc \in {"packet", "select", "send", "done"}
  /\ counted \in 0 .. Size /\ size1 \in 0 .. MaxMtu /\ size \in 0 .. size1
  /\ selectcnt \in 0 .. SelectMax
  /\ wpc = "packet" => Len(put) = counted /\ selectcnt < SelectMax
  /\ wpc \in {"select", "send"} => UnderWay /\ selectcnt < SelectMax
  /\ ClaimsOnlySent

StreamInv ==
  /\ put \in Seq(1 .. Size) /\ Len(put) <= Size
  /\ stream \in Seq(1 .. Size) /\ Len(stream) <= Room
  /\ put = Numbers(0, Len(put))

InHand == IF rpc = "read" THEN SubSeq(readBuf, 1, readLen) ELSE << >>

ReaderInv ==
  /\ rpc \in {"call", "read"}
  /\ readBuf \in [1 .. ReadSize -> 0 .. Size] /\ readLen \in 0 .. ReadSize
  /\ \A i \in 1 .. readLen : readBuf[i] \in 1 .. Size
  /\ rpc = "read" => readLen < ReadSize
  /\ got \in Seq(1 .. Size)
  /\ put = got \o InHand \o stream

TcpInv == WriterInv /\ StreamInv /\ ReaderInv /\ up \in BOOLEAN

-----------------------------------------------------------------------------
(* Slices of the sequences at hand *)

LEMMA Slice ==
  ASSUME NEW s, NEW m \in Nat \ {0}, NEW n \in Nat, m <= n + 1,
         \A i \in m .. n : s[i] \in 1 .. Size
  PROVE  /\ SubSeq(s, m, n) \in Seq(1 .. Size)
         /\ Len(SubSeq(s, m, n)) = n - m + 1
         /\ \A i \in 1 .. n - m + 1 : SubSeq(s, m, n)[i] = s[m + i - 1]
<1>1. m \in Int /\ n \in Int /\ (m <= n \/ n - m + 1 = 0)
  OBVIOUS
<1> QED BY <1>1, SubSeqProperties

LEMMA FirstOf ==
  ASSUME NEW s, NEW n \in Nat, \A i \in 1 .. n : s[i] \in 1 .. Size
  PROVE  /\ SubSeq(s, 1, n) \in Seq(1 .. Size)
         /\ Len(SubSeq(s, 1, n)) = n
         /\ \A i \in 1 .. n : SubSeq(s, 1, n)[i] = s[i]
<1>1. 1 \in Nat \ {0} /\ 1 <= n + 1
  OBVIOUS
<1>2. /\ SubSeq(s, 1, n) \in Seq(1 .. Size) /\ Len(SubSeq(s, 1, n)) = n - 1 + 1
      /\ \A i \in 1 .. n - 1 + 1 : SubSeq(s, 1, n)[i] = s[1 + i - 1]
  BY <1>1, Slice
<1>3. n - 1 + 1 = n /\ \A i \in 1 .. n : 1 + i - 1 = i
  OBVIOUS
<1> QED BY <1>2, <1>3

LEMMA NumbersSeq ==
  ASSUME NEW from \in Nat, NEW n \in Nat, from + n <= Size, Size \in Nat
  PROVE  /\ Numbers(from, n) \in Seq(1 .. Size) /\ Len(Numbers(from, n)) = n
         /\ \A i \in 1 .. n : Numbers(from, n)[i] = from + i
<1>1. \A i \in 1 .. n : from + i \in 1 .. Size
  OBVIOUS
<1>2. Numbers(from, n) \in [1 .. n -> 1 .. Size]
  BY <1>1 DEF Numbers
<1>3. Numbers(from, n) \in Seq(1 .. Size)
  BY <1>2, SeqDef, Zenon
<1>4. Len(Numbers(from, n)) = n
  BY <1>3, LenProperties DEF Numbers
<1>5. \A i \in 1 .. n : Numbers(from, n)[i] = from + i
  BY DEF Numbers
<1> QED BY <1>3, <1>4, <1>5

LEMMA NumbersJoin ==
  ASSUME NEW a \in Nat, NEW n \in Nat, a + n <= Size, Size \in Nat
  PROVE  Numbers(0, a) \o Numbers(a, n) = Numbers(0, a + n)
<1>1. /\ Numbers(0, a) \in Seq(1 .. Size) /\ Len(Numbers(0, a)) = a
      /\ \A i \in 1 .. a : Numbers(0, a)[i] = 0 + i
  <2>1. 0 \in Nat /\ 0 + a <= Size
    OBVIOUS
  <2> QED BY <2>1, NumbersSeq
<1>2. /\ Numbers(a, n) \in Seq(1 .. Size) /\ Len(Numbers(a, n)) = n
      /\ \A i \in 1 .. n : Numbers(a, n)[i] = a + i
  BY NumbersSeq
<1>3. /\ Numbers(0, a + n) \in Seq(1 .. Size) /\ Len(Numbers(0, a + n)) = a + n
      /\ \A i \in 1 .. a + n : Numbers(0, a + n)[i] = 0 + i
  <2>1. a + n \in Nat /\ 0 + (a + n) <= Size
    OBVIOUS
  <2> QED BY <2>1, NumbersSeq
<1> DEFINE j == Numbers(0, a) \o Numbers(a, n)
<1>4. /\ j \in Seq(1 .. Size) /\ Len(j) = a + n
      /\ \A i \in 1 .. a + n : j[i] = IF i <= a THEN Numbers(0, a)[i] ELSE Numbers(a, n)[i - a]
  <2>1. \A s \in Seq(1 .. Size), t \in Seq(1 .. Size) :
          /\ s \o t \in Seq(1 .. Size) /\ Len(s \o t) = Len(s) + Len(t)
          /\ \A i \in 1 .. Len(s) + Len(t) :
               (s \o t)[i] = IF i <= Len(s) THEN s[i] ELSE t[i - Len(s)]
    BY ConcatProperties, Zenon
  <2> HIDE DEF Numbers
  <2>2. Numbers(0, a) \in Seq(1 .. Size) /\ Numbers(a, n) \in Seq(1 .. Size)
    BY <1>1, <1>2
  <2>3. /\ j \in Seq(1 .. Size) /\ Len(j) = Len(Numbers(0, a)) + Len(Numbers(a, n))
        /\ \A i \in 1 .. Len(Numbers(0, a)) + Len(Numbers(a, n)) :
             j[i] = IF i <= Len(Numbers(0, a)) THEN Numbers(0, a)[i]
                    ELSE Numbers(a, n)[i - Len(Numbers(0, a))]
    BY <2>1, <2>2, Zenon
  <2> HIDE DEF j
  <2> QED BY <1>1, <1>2, <2>3
<1> HIDE DEF j
<1>5. ASSUME NEW i \in 1 .. a + n
      PROVE  j[i] = Numbers(0, a + n)[i]
  <2>1. CASE i <= a
    <3>1. i \in 1 .. a
      BY <2>1
    <3>2. j[i] = Numbers(0, a)[i] /\ Numbers(0, a)[i] = 0 + i
      BY <1>1, <1>4, <2>1, <3>1
    <3> QED BY <1>3, <3>2
  <2>2. CASE ~(i <= a)
    <3>1. i - a \in 1 .. n
      BY <2>2
    <3>2. j[i] = Numbers(a, n)[i - a] /\ Numbers(a, n)[i - a] = a + (i - a)
      BY <1>2, <1>4, <2>2, <3>1
    <3> QED BY <1>3, <3>2
  <2> QED BY <2>1, <2>2
<1>6. j = Numbers(0, a + n)
  BY <1>3, <1>4, <1>5, SeqEqual
<1> QED BY <1>6 DEF j

LEMMA JoinThree ==
  ASSUME NEW S
  PROVE  \A s \in Seq(S), t \in Seq(S), u \in Seq(S) : (s \o t) \o u = s \o (t \o u)
BY ConcatAssociative

LEMMA JoinFour ==
  ASSUME NEW S, NEW g \in Seq(S), NEW b \in Seq(S), NEW x \in Seq(S), NEW y \in Seq(S)
  PROVE  g \o b \o (x \o y) = g \o (b \o x) \o y
<1>1. g \o b \in Seq(S) /\ b \o x \in Seq(S)
  BY ConcatProperties
<1>2. g \o b \o (x \o y) = ((g \o b) \o x) \o y
  <2>1. ASSUME NEW h \in Seq(S)
        PROVE  (h \o x) \o y = h \o (x \o y)
    BY ConcatAssociative, SMTT(60)
  <2> QED BY <1>1, <2>1, Zenon
<1>3. (g \o b) \o x = g \o (b \o x)
  BY JoinThree
<1> QED BY <1>2, <1>3

LEMMA SplitAt ==
  ASSUME NEW S, NEW s \in Seq(S), NEW n \in 1 .. Len(s)
  PROVE  s = SubSeq(s, 1, n) \o SubSeq(s, n + 1, Len(s))
<1>1. Len(s) \in Nat /\ s = SubSeq(s, 1, Len(s))
  BY LenProperties, SubSeqFull
<1>2. 1 \in 1 .. Len(s) + 1 /\ n \in 1 - 1 .. Len(s) /\ Len(s) \in n .. Len(s)
  BY <1>1
<1>3. SubSeq(s, 1, n) \o SubSeq(s, n + 1, Len(s)) = SubSeq(s, 1, Len(s))
  BY <1>2, ConcatAdjacentSubSeq
<1> QED BY <1>1, <1>3

LEMMA PartSent ==
  ASSUME NEW n \in Nat, NEW m \in Nat, NEW k \in Nat, NEW max \in Nat, k > 0, k < m, m <= max
  PROVE  n + (m - k) >= n /\ n + (m - k) < n + max
OBVIOUS

-----------------------------------------------------------------------------
LEMMA TcpInvInit == Init => TcpInv
<1> SUFFICES ASSUME Init
             PROVE  TcpInv
  OBVIOUS
<1> USE TransferAssumption
<1>0. Len(<< >>) = 0 /\ << >> \in Seq(1 .. Size)
  BY EmptySeq
<1>1. WriterInv
  BY <1>0 DEF Init, TcpInit, WriterInv, ClaimsOnlySent
<1>2. StreamInv
  <2>1. Numbers(0, 0) = << >>
    BY DEF Numbers
  <2>2. put = << >> /\ stream = << >>
    BY DEF Init, TcpInit
  <2> QED BY <1>0, <2>1, <2>2 DEF StreamInv
<1>3. ReaderInv
  <2>1. /\ rpc = "call" /\ readBuf = [i \in 1 .. ReadSize |-> 0] /\ readLen = 0
        /\ got = << >> /\ put = << >> /\ stream = << >>
    BY DEF Init, TcpInit
  <2>2. InHand = << >>
    BY <2>1 DEF InHand
  <2>3. << >> \o << >> \o << >> = << >>
    BY <1>0, ConcatEmptySeq
  <2> QED BY <1>0, <2>1, <2>2, <2>3 DEF ReaderInv
<1>4. up \in BOOLEAN
  BY DEF Init, TcpInit
<1> QED BY <1>1, <1>2, <1>3, <1>4 DEF TcpInv

(* Steps of the writer that hand nothing to the connection *)
LEMMA WriterQuiet ==
  ASSUME TcpInv,
         \/ NextChunk \/ WriteReturns \/ SelectReady
         \/ SelectFails \/ SelectTimesOut \/ SendAgain \/ SendFails
  PROVE  TcpInv'
<1> USE TransferAssumption
<1>1. UNCHANGED <<readerVars, stream, up, put>>
  BY DEF NextChunk, WriteReturns, SelectReady, SelectFails, SelectTimesOut, SendAgain, SendFails
<1>2. StreamInv' /\ up' \in BOOLEAN
  BY <1>1 DEF TcpInv, StreamInv
<1>3. ReaderInv'
  BY <1>1 DEF TcpInv, ReaderInv, readerVars, InHand
<1>4. Len(put) \in Nat /\ put' = put
  BY <1>1, LenProperties DEF TcpInv, StreamInv
<1>5. CASE NextChunk
  <2>1. Smaller(Size - counted, MaxMtu) \in 1 .. MaxMtu /\ counted + Smaller(Size - counted, MaxMtu) <= Size
    BY <1>5 DEF NextChunk, TcpInv, WriterInv, Smaller
  <2> QED BY <1>2, <1>3, <1>4, <1>5, <2>1 DEF NextChunk, TcpInv, WriterInv, UnderWay, ClaimsOnlySent
<1>6. CASE WriteReturns
  BY <1>2, <1>3, <1>4, <1>6 DEF WriteReturns, TcpInv, WriterInv, UnderWay, ClaimsOnlySent
<1>7. CASE SelectReady
  BY <1>2, <1>3, <1>4, <1>7 DEF SelectReady, TcpInv, WriterInv, UnderWay, ClaimsOnlySent
<1>8. CASE SelectFails
  BY <1>2, <1>3, <1>4, <1>8 DEF SelectFails, GiveUp, TcpInv, WriterInv, UnderWay, ClaimsOnlySent
<1>9. CASE SelectTimesOut
  BY <1>2, <1>3, <1>4, <1>9 DEF SelectTimesOut, GiveUp, TcpInv, WriterInv, UnderWay, ClaimsOnlySent
<1>10. CASE SendAgain
  BY <1>2, <1>3, <1>4, <1>10 DEF SendAgain, TcpInv, WriterInv, UnderWay, ClaimsOnlySent
<1>11. CASE SendFails
  BY <1>2, <1>3, <1>4, <1>11 DEF SendFails, GiveUp, TcpInv, WriterInv, UnderWay, ClaimsOnlySent
<1> QED BY <1>5, <1>6, <1>7, <1>8, <1>9, <1>10, <1>11

(* Some bytes of the chunk are handed over, the next ones in order. *)
LEMMA SendKeeps ==
  ASSUME TcpInv, SendSome
  PROVE  TcpInv'
<1> USE TransferAssumption
<1>1. PICK len \in 1 .. Smaller(size, Room - Len(stream)) :
        /\ stream' = stream \o Numbers(SendFrom, len)
        /\ put' = put \o Numbers(SendFrom, len)
        /\ size' = size - len
  BY DEF SendSome
<1>2. /\ wpc = "send" /\ UnderWay /\ put \in Seq(1 .. Size) /\ stream \in Seq(1 .. Size)
      /\ Len(put) \in Nat /\ Len(stream) \in Nat /\ Len(stream) <= Room
      /\ counted \in 0 .. Size /\ put = Numbers(0, Len(put))
  BY LenProperties DEF SendSome, TcpInv, WriterInv, StreamInv
<1>3. SendFrom = Len(put)
  BY <1>2 DEF SendFrom, UnderWay
<1>4. len \in Nat \ {0} /\ len <= size /\ Len(stream) + len <= Room /\ Len(put) + len <= Size
  BY <1>2 DEF Smaller, UnderWay
<1>5. /\ Numbers(Len(put), len) \in Seq(1 .. Size) /\ Len(Numbers(Len(put), len)) = len
  BY <1>2, <1>4, NumbersSeq
<1>6. /\ put' \in Seq(1 .. Size) /\ Len(put') = Len(put) + len
      /\ stream' \in Seq(1 .. Size) /\ Len(stream') = Len(stream) + len
  <2> DEFINE more == Numbers(Len(put), len)
  <2>1. more \in Seq(1 .. Size) /\ Len(more) = len
    BY <1>5
  <2>2. put' = put \o more /\ stream' = stream \o more
    BY <1>1, <1>3
  <2> HIDE DEF more
  <2> QED BY <1>2, <2>1, <2>2, ConcatProperties
<1>7. put' = Numbers(0, Len(put) + len)
  BY <1>1, <1>2, <1>3, <1>4, NumbersJoin
<1>8. StreamInv'
  BY <1>4, <1>6, <1>7 DEF StreamInv
<1>9. WriterInv'
  <2>1. size1' = size1 /\ selectcnt' = selectcnt
    BY DEF SendSome
  <2>2. selectcnt' \in 0 .. SelectMax /\ selectcnt' < SelectMax
    BY <1>2, <2>1 DEF TcpInv, WriterInv
  <2>3. /\ size' \in 0 .. size1 /\ size' < size1
        /\ size1 \in 1 .. MaxMtu /\ counted + size1 <= Size
        /\ Len(put') = counted + (size1 - size')
    <3>1. /\ size1 \in 1 .. MaxMtu /\ size \in 1 .. size1 /\ counted + size1 <= Size
          /\ Len(put) = counted + (size1 - size)
      BY <1>2 DEF UnderWay
    <3>2. size' \in 0 .. size1 /\ size' < size1
      BY <1>1, <1>4, <3>1
    <3>3. Len(put') = counted + (size1 - size) + len
      BY <1>6, <3>1
    <3>4. counted + (size1 - size) + len = counted + (size1 - (size - len))
      BY <1>2, <1>4, <3>1
    <3> QED BY <1>1, <3>1, <3>2, <3>3, <3>4
  <2>4. CASE size' > 0
    <3>1. wpc' = "select" /\ counted' = counted
      BY <2>4 DEF SendSome
    <3>2. UnderWay'
      BY <2>1, <2>3, <2>4, <3>1 DEF UnderWay
    <3>3. ClaimsOnlySent'
      <4>1. /\ counted \in Nat /\ size1 \in Nat /\ size' \in Nat /\ size' > 0 /\ size' < size1
            /\ MaxMtu \in Nat /\ size1 <= MaxMtu
        BY <1>2, <2>3, <2>4
      <4>2. counted + (size1 - size') >= counted /\ counted + (size1 - size') < counted + MaxMtu
        <5> HIDE TransferAssumption
        <5> QED BY <4>1, PartSent
      <4>3. counted' < Size
        <5>1. counted < Size
          BY <2>3, <4>1, Size \in Nat
        <5> QED BY <3>1, <5>1
      <4> QED BY <2>3, <3>1, <4>2, <4>3 DEF ClaimsOnlySent
    <3> QED BY <1>2, <2>1, <2>2, <2>3, <3>1, <3>2, <3>3 DEF WriterInv
  <2>5. CASE ~(size' > 0)
    <3>1. wpc' = "packet" /\ counted' = counted + size1
      BY <2>5 DEF SendSome
    <3>2. counted' \in 0 .. Size /\ Len(put') = counted'
      <4>1. counted \in Nat /\ size1 \in Nat /\ size' = 0
        BY <1>2, <2>3, <2>5
      <4>2. counted + (size1 - size') = counted + size1 /\ counted + size1 \in 0 .. Size
        BY <2>3, <4>1
      <4> QED BY <2>3, <3>1, <4>2
    <3>3. ClaimsOnlySent'
      BY <3>1, <3>2 DEF ClaimsOnlySent
    <3> QED BY <2>1, <2>2, <2>3, <3>1, <3>2, <3>3 DEF WriterInv
  <2> QED BY <2>4, <2>5
<1>10. ReaderInv'
  <2>1. UNCHANGED readerVars
    BY DEF SendSome
  <2>2. InHand \in Seq(1 .. Size) /\ got \in Seq(1 .. Size) /\ put = got \o InHand \o stream
    <3>1. readLen \in Nat /\ 1 <= readLen + 1 /\ \A i \in 1 .. readLen : readBuf[i] \in 1 .. Size
      BY DEF TcpInv, ReaderInv
    <3>2. SubSeq(readBuf, 1, readLen) \in Seq(1 .. Size)
      BY <3>1, Slice
    <3> QED BY <3>2, EmptySeq DEF InHand, TcpInv, ReaderInv
  <2>3. got \o InHand \in Seq(1 .. Size)
    BY <2>2, ConcatProperties
  <2>4. put' = (got \o InHand) \o (stream \o Numbers(Len(put), len))
    <3> DEFINE more == Numbers(Len(put), len)
              before == got \o InHand
    <3>1. more \in Seq(1 .. Size) /\ before \in Seq(1 .. Size) /\ stream \in Seq(1 .. Size)
      BY <1>2, <1>5, <2>3
    <3>2. put' = (before \o stream) \o more
      BY <1>1, <1>3, <2>2
    <3> HIDE DEF more, before
    <3>3. put' = before \o (stream \o more)
      <4>1. (before \o stream) \o more = before \o (stream \o more)
        <5> DEFINE Byte == 1 .. Size
        <5>1. before \in Seq(Byte) /\ stream \in Seq(Byte) /\ more \in Seq(Byte)
          BY <3>1
        <5> HIDE DEF Byte
        <5> QED BY <5>1, JoinThree, SMTT(60)
      <4> QED BY <3>2, <4>1
    <3> QED BY <3>3 DEF more, before
  <2>5. put' = got \o InHand \o stream'
    BY <1>1, <1>3, <2>4
  <2> QED BY <2>1, <2>5 DEF TcpInv, ReaderInv, readerVars, InHand
<1>11. up' \in BOOLEAN
  BY DEF SendSome, TcpInv, readerVars
<1> QED BY <1>8, <1>9, <1>10, <1>11 DEF TcpInv

-----------------------------------------------------------------------------
(* The reader *)

LEMMA InHandIsSlice ==
  ASSUME TcpInv
  PROVE  /\ SubSeq(readBuf, 1, readLen) \in Seq(1 .. Size)
         /\ Len(SubSeq(readBuf, 1, readLen)) = readLen
         /\ \A i \in 1 .. readLen : SubSeq(readBuf, 1, readLen)[i] = readBuf[i]
<1>1. readLen \in Nat /\ \A i \in 1 .. readLen : readBuf[i] \in 1 .. Size
  BY TransferAssumption DEF TcpInv, ReaderInv
<1> QED BY <1>1, FirstOf

LEMMA ReadCallKeeps ==
  ASSUME TcpInv, ReadCall
  PROVE  TcpInv'
<1> USE TransferAssumption
<1>1. /\ UNCHANGED <<writerVars, stream, up, put, got>>
      /\ rpc = "call" /\ rpc' = "read" /\ readLen' = 0
      /\ readBuf' = [i \in 1 .. ReadSize |-> 0]
  BY DEF ReadCall
<1>2. WriterInv' /\ StreamInv' /\ up' \in BOOLEAN
  BY <1>1 DEF TcpInv, WriterInv, writerVars, UnderWay, ClaimsOnlySent, StreamInv
<1>3. InHand = << >> /\ InHand' = << >>
  <2>1. InHand' = SubSeq(readBuf', 1, 0)
    BY <1>1 DEF InHand
  <2>2. SubSeq(readBuf', 1, 0) = << >>
    BY SubSeqEmpty
  <2> QED BY <1>1, <2>1, <2>2 DEF InHand
<1>4. readBuf' \in [1 .. ReadSize -> 0 .. Size] /\ readLen' \in 0 .. ReadSize /\ readLen' < ReadSize
  BY <1>1
<1>5. ReaderInv'
  BY <1>1, <1>3, <1>4 DEF TcpInv, ReaderInv
<1> QED BY <1>2, <1>5 DEF TcpInv

LEMMA ReadStopsKeeps ==
  ASSUME TcpInv, ReadStops
  PROVE  TcpInv'
<1> USE TransferAssumption
<1>1. /\ UNCHANGED <<writerVars, stream, up, put, readBuf, readLen>>
      /\ rpc = "read" /\ rpc' = "call" /\ got' = got \o SubSeq(readBuf, 1, readLen)
  BY DEF ReadStops, ExReadReturns
<1>2. WriterInv' /\ StreamInv' /\ up' \in BOOLEAN
  BY <1>1 DEF TcpInv, WriterInv, writerVars, UnderWay, ClaimsOnlySent, StreamInv
<1>3. InHand = SubSeq(readBuf, 1, readLen) /\ InHand' = << >>
  BY <1>1 DEF InHand
<1>4. got' \in Seq(1 .. Size)
  BY <1>1, InHandIsSlice, ConcatProperties DEF TcpInv, ReaderInv
<1>5. put' = got' \o InHand' \o stream'
  <2>1. got' \o << >> = got'
    BY <1>4, ConcatEmptySeq
  <2> QED BY <1>1, <1>3, <2>1 DEF TcpInv, ReaderInv
<1>6. ReaderInv'
  BY <1>1, <1>4, <1>5 DEF TcpInv, ReaderInv
<1> QED BY <1>2, <1>6 DEF TcpInv

(* The bytes received follow those the buffer holds. *)
LEMMA ReadSomeKeeps ==
  ASSUME TcpInv, ReadSome
  PROVE  TcpInv'
<1> USE TransferAssumption
<1>1. PICK len \in 1 .. Smaller(ReadSize - readLen, Len(stream)) :
        /\ readBuf' = [i \in 1 .. ReadSize |->
                         IF i - readLen \in 1 .. len THEN stream[i - readLen] ELSE readBuf[i]]
        /\ readLen' = readLen + len
        /\ stream' = SubSeq(stream, len + 1, Len(stream))
  BY DEF ReadSome
<1>2. /\ UNCHANGED <<writerVars, up, put>> /\ rpc = "read"
      /\ IF readLen' = ReadSize THEN ExReadReturns(readLen', readBuf') ELSE UNCHANGED <<rpc, got>>
  BY DEF ReadSome
<1>3. /\ stream \in Seq(1 .. Size) /\ Len(stream) \in Nat /\ Len(stream) <= Room
      /\ \A i \in 1 .. Len(stream) : stream[i] \in 1 .. Size
      /\ readLen \in Nat /\ got \in Seq(1 .. Size)
      /\ readBuf \in [1 .. ReadSize -> 0 .. Size]
      /\ \A i \in 1 .. readLen : readBuf[i] \in 1 .. Size
  <2>1. stream \in Seq(1 .. Size) /\ Len(stream) <= Room
    BY DEF TcpInv, StreamInv
  <2>2. Len(stream) \in Nat /\ \A i \in 1 .. Len(stream) : stream[i] \in 1 .. Size
    BY <2>1, LenProperties, ElementOfSeq
  <2>3. /\ readLen \in Nat /\ got \in Seq(1 .. Size)
        /\ readBuf \in [1 .. ReadSize -> 0 .. Size]
        /\ \A i \in 1 .. readLen : readBuf[i] \in 1 .. Size
    BY DEF TcpInv, ReaderInv
  <2> QED BY <2>1, <2>2, <2>3
<1>4. len \in Nat \ {0} /\ readLen + len <= ReadSize /\ len <= Len(stream)
  BY <1>3, ReadSize \in Nat DEF Smaller
<1>5. WriterInv' /\ up' \in BOOLEAN
  BY <1>2 DEF TcpInv, WriterInv, writerVars, UnderWay, ClaimsOnlySent
<1> DEFINE held == SubSeq(readBuf, 1, readLen)
           first == SubSeq(stream, 1, len)
<1>6. /\ held \in Seq(1 .. Size) /\ Len(held) = readLen
      /\ \A i \in 1 .. readLen : held[i] = readBuf[i]
  BY InHandIsSlice
<1>7. /\ first \in Seq(1 .. Size) /\ Len(first) = len
      /\ \A i \in 1 .. len : first[i] = stream[i]
  <2>1. len \in Nat /\ \A i \in 1 .. len : stream[i] \in 1 .. Size
    BY <1>3, <1>4
  <2> QED BY <2>1, FirstOf
<1>8. /\ stream' \in Seq(1 .. Size) /\ Len(stream') = Len(stream) - len
      /\ stream = first \o stream'
  <2>1. /\ len + 1 \in Nat \ {0} /\ len + 1 <= Len(stream) + 1
        /\ \A i \in len + 1 .. Len(stream) : stream[i] \in 1 .. Size
    BY <1>3, <1>4
  <2>2. stream' \in Seq(1 .. Size) /\ Len(stream') = Len(stream) - (len + 1) + 1
    BY <1>1, <1>3, <2>1, Slice
  <2>3. Len(stream) - (len + 1) + 1 = Len(stream) - len
    BY <1>3, <1>4
  <2>4. len \in 1 .. Len(stream)
    BY <1>3, <1>4
  <2> QED BY <1>1, <1>3, <2>2, <2>3, <2>4, SplitAt
<1>9. StreamInv'
  <2>1. Len(stream') <= Room
    BY <1>3, <1>4, <1>8
  <2> QED BY <1>2, <1>8, <2>1 DEF TcpInv, StreamInv
<1>10. /\ readBuf' \in [1 .. ReadSize -> 0 .. Size]
       /\ readLen' \in 0 .. ReadSize
       /\ \A i \in 1 .. readLen' : readBuf'[i] = IF i <= readLen THEN readBuf[i] ELSE stream[i - readLen]
  <2>1. ASSUME NEW i \in 1 .. ReadSize
        PROVE  (IF i - readLen \in 1 .. len THEN stream[i - readLen] ELSE readBuf[i]) \in 0 .. Size
    <3>1. CASE i - readLen \in 1 .. len
      <4>1. i - readLen \in 1 .. Len(stream)
        BY <1>3, <1>4, <3>1
      <4>2. stream[i - readLen] \in 1 .. Size
        BY <1>3, <4>1
      <4> QED BY <3>1, <4>2
    <3>2. CASE ~(i - readLen \in 1 .. len)
      <4>1. readBuf[i] \in 0 .. Size
        BY <1>3
      <4> QED BY <3>2, <4>1
    <3> QED BY <3>1, <3>2
  <2>2. readBuf' \in [1 .. ReadSize -> 0 .. Size]
    BY <1>1, <2>1
  <2>3. readLen' \in 0 .. ReadSize
    BY <1>1, <1>3, <1>4
  <2>4. ASSUME NEW i \in 1 .. readLen'
        PROVE  readBuf'[i] = IF i <= readLen THEN readBuf[i] ELSE stream[i - readLen]
    <3>1. i \in 1 .. ReadSize /\ (i - readLen \in 1 .. len <=> ~(i <= readLen))
      BY <1>1, <1>3, <1>4
    <3> QED BY <1>1, <3>1
  <2> QED BY <2>2, <2>3, <2>4
<1> DEFINE now == SubSeq(readBuf', 1, readLen')
<1>11. \A i \in 1 .. readLen' : readBuf'[i] \in 1 .. Size
  <2>1. ASSUME NEW i \in 1 .. readLen'
        PROVE  readBuf'[i] \in 1 .. Size
    <3>1. CASE i <= readLen
      BY <1>3, <1>10, <3>1
    <3>2. CASE ~(i <= readLen)
      <4>1. i - readLen \in 1 .. Len(stream)
        BY <1>1, <1>3, <1>4, <3>2
      <4>2. stream[i - readLen] \in 1 .. Size
        BY <1>3, <4>1
      <4> QED BY <1>10, <3>2, <4>2
    <3> QED BY <3>1, <3>2
  <2> QED BY <2>1
<1>12. now \in Seq(1 .. Size) /\ now = held \o first
  <2>1. readLen' \in Nat
    BY <1>1, <1>3, <1>4
  <2>2. /\ now \in Seq(1 .. Size) /\ Len(now) = readLen'
        /\ \A i \in 1 .. readLen' : now[i] = readBuf'[i]
    BY <1>11, <2>1, FirstOf, Zenon
  <2> HIDE DEF now, held, first
  <2>5. /\ held \o first \in Seq(1 .. Size) /\ Len(held \o first) = readLen + len
        /\ \A i \in 1 .. readLen + len :
             (held \o first)[i] = IF i <= readLen THEN held[i] ELSE first[i - readLen]
    <3>1. \A s \in Seq(1 .. Size), t \in Seq(1 .. Size) :
            /\ s \o t \in Seq(1 .. Size) /\ Len(s \o t) = Len(s) + Len(t)
            /\ \A i \in 1 .. Len(s) + Len(t) :
                 (s \o t)[i] = IF i <= Len(s) THEN s[i] ELSE t[i - Len(s)]
      BY ConcatProperties, Zenon
    <3>2. /\ held \o first \in Seq(1 .. Size) /\ Len(held \o first) = Len(held) + Len(first)
          /\ \A i \in 1 .. Len(held) + Len(first) :
               (held \o first)[i] = IF i <= Len(held) THEN held[i] ELSE first[i - Len(held)]
      BY <1>6, <1>7, <3>1, Zenon
    <3>3. Len(held) = readLen /\ Len(first) = len
      BY <1>6, <1>7
    <3> QED BY <3>2, <3>3, Zenon
  <2>6. ASSUME NEW i \in 1 .. Len(now)
        PROVE  now[i] = (held \o first)[i]
    <3>1. i \in 1 .. readLen' /\ i \in 1 .. readLen + len
      BY <1>1, <2>2
    <3>2. CASE i <= readLen
      <4>1. i \in 1 .. readLen
        BY <1>3, <3>1, <3>2
      <4> QED BY <1>6, <1>10, <2>2, <2>5, <3>1, <3>2, <4>1
    <3>3. CASE ~(i <= readLen)
      <4>1. i - readLen \in 1 .. len
        BY <1>3, <1>4, <3>1, <3>3
      <4> QED BY <1>7, <1>10, <2>2, <2>5, <3>1, <3>3, <4>1
    <3> QED BY <3>2, <3>3
  <2> QED BY <1>1, <2>2, <2>5, <2>6, SeqEqual
<1>13. put = got \o now \o stream'
  <2>1. put = got \o held \o (first \o stream')
    BY <1>2, <1>8 DEF TcpInv, ReaderInv, InHand
  <2> HIDE DEF held, first, now
  <2>2. got \o held \o (first \o stream') = got \o (held \o first) \o stream'
    <3> DEFINE Byte == 1 .. Size
    <3>1. got \in Seq(Byte) /\ held \in Seq(Byte) /\ first \in Seq(Byte) /\ stream' \in Seq(Byte)
      BY <1>3, <1>6, <1>7, <1>8
    <3> HIDE DEF Byte
    <3>2. ASSUME NEW g \in Seq(Byte), NEW b \in Seq(Byte), NEW x \in Seq(Byte), NEW y \in Seq(Byte)
          PROVE  g \o b \o (x \o y) = g \o (b \o x) \o y
      BY JoinFour, SMTT(60)
    <3> QED BY <3>1, <3>2, SMTT(60)
  <2> QED BY <1>12, <2>1, <2>2
<1>14. CASE readLen' = ReadSize
  <2>1. rpc' = "call" /\ got' = got \o now
    BY <1>2, <1>14 DEF ExReadReturns
  <2>2. InHand' = << >>
    BY <2>1 DEF InHand
  <2> HIDE DEF held, first, now
  <2>3. got' \in Seq(1 .. Size)
    BY <1>3, <1>12, <2>1, ConcatProperties
  <2>4. got' \o << >> = got'
    BY <2>3, ConcatEmptySeq
  <2>5. put' = got' \o InHand' \o stream'
    BY <1>2, <1>13, <2>1, <2>2, <2>4
  <2>6. ReaderInv'
    BY <1>10, <1>11, <2>1, <2>3, <2>5 DEF ReaderInv
  <2> QED BY <1>5, <1>9, <2>6 DEF TcpInv
<1>15. CASE ~(readLen' = ReadSize)
  <2>1. rpc' = "read" /\ got' = got
    BY <1>2, <1>15
  <2>2. InHand' = now
    BY <2>1 DEF InHand
  <2> HIDE DEF held, first, now
  <2>3. put' = got' \o InHand' \o stream'
    BY <1>2, <1>13, <2>1, <2>2
  <2>4. readLen' < ReadSize
    BY <1>10, <1>15
  <2>5. ReaderInv'
    BY <1>3, <1>10, <1>11, <2>1, <2>3, <2>4 DEF ReaderInv
  <2> QED BY <1>5, <1>9, <2>5 DEF TcpInv
<1> QED BY <1>14, <1>15

-----------------------------------------------------------------------------
LEMMA TcpUnchangedKeeps ==
  ASSUME TcpInv, UNCHANGED tcpVars
  PROVE  TcpInv'
<1>1. UNCHANGED <<wpc, counted, size1, size, selectcnt, rpc, readBuf, readLen, got, stream, up, put>>
  BY DEF tcpVars, writerVars, readerVars
<1>2. WriterInv'
  BY <1>1 DEF TcpInv, WriterInv, UnderWay, ClaimsOnlySent
<1>3. StreamInv'
  BY <1>1 DEF TcpInv, StreamInv
<1>4. ReaderInv'
  BY <1>1 DEF TcpInv, ReaderInv, InHand
<1> QED BY <1>1, <1>2, <1>3, <1>4 DEF TcpInv

LEMMA BreaksKeeps ==
  ASSUME TcpInv, Breaks
  PROVE  TcpInv'
<1>1. /\ up' = FALSE
      /\ UNCHANGED <<wpc, counted, size1, size, selectcnt, rpc, readBuf, readLen, got, stream, put>>
  BY DEF Breaks, writerVars, readerVars
<1>2. WriterInv'
  BY <1>1 DEF TcpInv, WriterInv, UnderWay, ClaimsOnlySent
<1>3. StreamInv'
  BY <1>1 DEF TcpInv, StreamInv
<1>4. ReaderInv'
  BY <1>1 DEF TcpInv, ReaderInv, InHand
<1> QED BY <1>1, <1>2, <1>3, <1>4 DEF TcpInv

LEMMA TcpInvNext == TcpInv /\ [Next]_socketVars => TcpInv'
<1> SUFFICES ASSUME TcpInv, [Next]_socketVars
             PROVE  TcpInv'
  OBVIOUS
<1>1. CASE OverTcp
  <2>1. CASE NextChunk \/ WriteReturns \/ SelectReady \/ SelectFails \/ SelectTimesOut
             \/ SendAgain \/ SendFails
    BY <2>1, WriterQuiet
  <2>2. CASE SendSome
    BY <2>2, SendKeeps
  <2>3. CASE ReadCall
    BY <2>3, ReadCallKeeps
  <2>4. CASE ReadSome
    BY <2>4, ReadSomeKeeps
  <2>5. CASE ReadStops
    BY <2>5, ReadStopsKeeps
  <2>6. CASE Breaks
    BY <2>6, BreaksKeeps
  <2> QED BY <1>1, <2>1, <2>2, <2>3, <2>4, <2>5, <2>6 DEF OverTcp, TcpNext, Writer, Reader
<1>2. CASE OverUdp
  BY <1>2, TcpUnchangedKeeps DEF OverUdp
<1>3. CASE UNCHANGED socketVars
  BY <1>3, TcpUnchangedKeeps DEF socketVars
<1> QED BY <1>1, <1>2, <1>3 DEF Next

(***************************************************************************)
(* What is claimed, what was handed over and what was read fit together in *)
(* every reachable state.                                                  *)
(***************************************************************************)
LEMMA TcpInvAlways == Spec => []TcpInv
<1> QED BY TcpInvInit, TcpInvNext, PTL DEF Spec

(***************************************************************************)
(* The variables of the writer, the reader and the connection keep their   *)
(* types: the chunk and what is left of it stay within MaxMtu, the reader  *)
(* never gets past the end of its buffer (tcpsocket.c:267-351).            *)
(***************************************************************************)
THEOREM TypeCorrect == Spec => []TcpTypeOK
<1>1. TcpInv => TcpTypeOK
  BY DEF TcpInv, WriterInv, StreamInv, ReaderInv, TcpTypeOK
<1> QED BY <1>1, TcpInvAlways, PTL

(***************************************************************************)
(* The bytes that comm_tcp_write_packet hands to the connection are those  *)
(* of its buffer in order, and the calls of comm_tcp_exRead return them in *)
(* order, none missing and none twice (tcpsocket.c:271, :317).             *)
(***************************************************************************)
THEOREM BytesCrossInOrder == Spec => []BytesInOrder
<1>1. TcpInv => BytesInOrder
  BY DEF TcpInv, StreamInv, ReaderInv, InHand, BytesInOrder
<1> QED BY <1>1, TcpInvAlways, PTL

(***************************************************************************)
(* comm_tcp_write_packet never claims a byte that was not sent, and falls  *)
(* short by less than a chunk (tcpsocket.c:331, :344).                     *)
(***************************************************************************)
THEOREM NothingOverclaimed == Spec => []ClaimsOnlySent
<1>1. TcpInv => ClaimsOnlySent
  BY DEF TcpInv, WriterInv
<1> QED BY <1>1, TcpInvAlways, PTL
-----------------------------------------------------------------------------
(* The datagrams.  Modulo the width of a short, slen is always the length  *)
(* of what was sent of a chunk less the number of interruptions.           *)

LEMMA ShortOfSum ==
  ASSUME NEW a \in Int, NEW b \in Int
  PROVE  /\ Short(a) \in Int
         /\ Short(Short(a) + b) = Short(a + b)
<1>1. PICK M \in Nat \ {0} : M = ShortMod
  BY UdpAssumption
<1>2. ASSUME NEW x \in Int
      PROVE  /\ x = M * (x \div M) + (x % M) /\ x % M \in 0 .. M - 1
             /\ x \div M \in Int
  OBVIOUS
<1>3. PICK q \in Int, t \in 0 .. M - 1 : a = M * q + t /\ t = a % M
  BY <1>2
<1>4. PICK c \in 0 .. 1 : Short(a) = t - M * c
  BY <1>1, <1>3 DEF Short
<1>5. Short(a) \in Int
  BY <1>4
<1>6. (Short(a) + b) % M = (a + b) % M
  <2>1. PICK x \in Int : x = a + b
    OBVIOUS
  <2>2. PICK u \in Int, r \in 0 .. M - 1 : x = M * u + r /\ x % M = r
    BY <1>2
  <2>3. PICK v \in Int : v = u - q - c
    OBVIOUS
  <2>4. M * v = M * u - M * q - M * c
    BY <2>3
  <2>5. a = M * q + t /\ x = M * u + r
    BY <1>3, <2>2
  <2>6. Short(a) + b = M * v + r
    BY <1>4, <2>1, <2>4, <2>5
  <2>7. (M * v + r) % M = r
    OBVIOUS
  <2> QED BY <2>1, <2>2, <2>6, <2>7
<1> QED BY <1>1, <1>5, <1>6 DEF Short

LEMMA ShortOfSmall ==
  ASSUME NEW n \in Nat, 2 * n < ShortMod
  PROVE  Short(n) = n
<1>1. n % ShortMod = n
  BY UdpAssumption
<1> QED BY <1>1 DEF Short

\* What is left of the buffer, or as much of it as fits
LEMMA LeastFacts ==
  ASSUME NEW b \in Int, NEW l \in Int, NEW m \in Int, m > 0, b < l,
         NEW n, n = l - b, NEW k, k = b + m
  PROVE  /\ LeastOf(n, m) \in Nat \ {0} /\ LeastOf(n, m) <= m
         /\ b + LeastOf(n, m) <= l
         /\ b + LeastOf(n, m) = LeastOf(k, l)
BY DEF LeastOf

Before(i) == IF i = 1 THEN [to |-> 0, late |-> 0] ELSE datagrams[i - 1]
EndToEnd(i) ==
  /\ datagrams[i].to = LeastOf(Before(i).to + mtu, length)
  /\ datagrams[i].from = Before(i).to - (datagrams[i].late - Before(i).late)

LastSent == Before(Len(datagrams) + 1)
Chunk == LeastOf(length - buf, mtu)
Since == retries - LastSent.late     \* interruptions since the last datagram

LEMMA ChunkFacts ==
  ASSUME length \in Nat, mtu \in Nat, mtu > 0, buf \in Int, buf < length
  PROVE  /\ Chunk \in Nat \ {0} /\ Chunk <= mtu /\ buf + Chunk <= length
         /\ buf + Chunk = LeastOf(buf + mtu, length)
<1>1. PICK n \in Int, k \in Int : n = length - buf /\ k = buf + mtu
  OBVIOUS
<1>2. length \in Int /\ mtu \in Int
  OBVIOUS
<1>3. /\ LeastOf(n, mtu) \in Nat \ {0} /\ LeastOf(n, mtu) <= mtu
      /\ buf + LeastOf(n, mtu) <= length
      /\ buf + LeastOf(n, mtu) = LeastOf(k, length)
  BY <1>1, <1>2, LeastFacts
<1> QED BY <1>1, <1>3 DEF Chunk

UdpTypes ==
  /\ length \in Nat /\ mtu \in Nat \ {0}
  /\ upc \in {"packet", "write", "done"}
  /\ buf \in Int /\ p \in Int /\ remain \in 0 .. ShortMod - 1 /\ slen \in Int
  /\ retries \in 0 .. MaxRetries
  /\ datagrams \in Seq([from : Int, to : Int, late : Nat])

ChunkInv ==
  /\ buf \in 0 .. length
  /\ \A i \in 1 .. Len(datagrams) : EndToEnd(i)
  /\ upc \in {"packet", "done"} => buf = LastSent.to
  /\ upc = "packet" => Since = 0
  /\ upc = "write" /\ remain > 0 =>
       /\ buf = LastSent.to /\ buf < length
       /\ Since \in Nat /\ p = buf - Since /\ remain = Chunk + Since /\ slen = Short(-Since)
  /\ upc = "write" /\ remain = 0 =>
       /\ slen \in Nat \ {0} /\ Since = 0
       /\ LastSent.to = buf + slen /\ buf + slen <= length

UdpInv == UdpTypes /\ (ShortsSuffice => ChunkInv)

(* The constants of a call *)
LEMMA UdpConstants ==
  ASSUME UdpInv
  PROVE  /\ length \in Nat /\ mtu \in Nat /\ mtu > 0 /\ ShortMod \in Nat /\ ShortMod > 0
         /\ Len(datagrams) \in Nat /\ retries \in Nat
         /\ LastSent.to \in Int /\ LastSent.late \in Nat /\ Since \in Int
         /\ Since = retries - LastSent.late
<1>1. /\ length \in Nat /\ mtu \in Nat /\ mtu > 0 /\ ShortMod \in Nat /\ ShortMod > 0
      /\ Len(datagrams) \in Nat /\ retries \in Nat
  BY UdpAssumption DEF UdpInv, UdpTypes
<1>2. LastSent.to \in Int /\ LastSent.late \in Nat
  <2>1. CASE Len(datagrams) = 0
    BY <2>1 DEF LastSent, Before
  <2>2. CASE Len(datagrams) # 0
    <3>1. datagrams[Len(datagrams)] \in [from : Int, to : Int, late : Nat]
      <4>1. Len(datagrams) \in 1 .. Len(datagrams)
        BY <1>1, <2>2
      <4>2. datagrams \in Seq([from : Int, to : Int, late : Nat])
        BY DEF UdpInv, UdpTypes
      <4> QED BY <4>1, <4>2, ElementOfSeq
    <3>2. LastSent = datagrams[Len(datagrams)]
      BY <1>1, <2>2 DEF LastSent, Before
    <3> QED BY <3>1, <3>2
  <2> QED BY <2>1, <2>2
<1> QED BY <1>1, <1>2 DEF Since

(* Nothing was sent since: what is known of the datagrams stays known *)
LEMMA SentStays ==
  ASSUME UNCHANGED <<length, mtu, datagrams>>
  PROVE  /\ LastSent' = LastSent
         /\ (\A i \in 1 .. Len(datagrams) : EndToEnd(i))
               => (\A i \in 1 .. Len(datagrams) : EndToEnd(i))'
BY DEF LastSent, Before, EndToEnd

LEMMA UdpInvInit == Init => UdpInv
<1> SUFFICES ASSUME UdpInit PROVE UdpInv
  BY DEF Init
<1>1. Len(datagrams) = 0 /\ LastSent = [to |-> 0, late |-> 0]
  BY DEF UdpInit, LastSent, Before
<1>2. UdpTypes
  BY UdpAssumption DEF UdpInit, UdpTypes
<1>3. ChunkInv
  BY <1>1, <1>2 DEF UdpInit, UdpTypes, ChunkInv, Since
<1> QED BY <1>2, <1>3 DEF UdpInv

LEMMA WriteDatagramKeeps == UdpInv /\ WriteDatagram => UdpInv'
<1> SUFFICES ASSUME UdpInv, WriteDatagram PROVE UdpInv'
  OBVIOUS
<1>1. buf \in Int /\ length \in Nat /\ mtu \in Nat /\ mtu > 0 /\ ShortMod \in Nat /\ ShortMod > 0
  BY UdpConstants DEF UdpInv, UdpTypes
<1>2. PICK c \in Nat \ {0} : c = Chunk /\ c <= mtu
  <2>1. buf < length
    BY DEF WriteDatagram
  <2>2. Chunk \in Nat \ {0} /\ Chunk <= mtu
    BY <1>1, <2>1, ChunkFacts
  <2> QED BY <2>2
<1>3. remain' = c % ShortMod
  BY <1>2 DEF WriteDatagram, Chunk
<1>4. UdpTypes'
  BY <1>1, <1>2, <1>3 DEF UdpInv, UdpTypes, WriteDatagram
<1>5. ASSUME ShortsSuffice, ChunkInv
      PROVE  ChunkInv'
  <2>1. c < ShortMod
    BY <1>1, <1>2, <1>5, UdpAssumption DEF ShortsSuffice
  <2>2. remain' = c
    BY <1>1, <1>2, <1>3, <2>1
  <2>3. /\ Since = 0 /\ buf = LastSent.to /\ LastSent' = LastSent
        /\ Since' = Since /\ Chunk' = Chunk
    BY <1>5, SentStays DEF WriteDatagram, ChunkInv, Since, Chunk
  <2>4. Short(0) = 0
    BY <1>1, ShortOfSmall
  <2> QED BY <1>1, <1>2, <1>5, <2>2, <2>3, <2>4, SentStays DEF WriteDatagram, ChunkInv
<1> QED BY <1>4, <1>5 DEF UdpInv, ShortsSuffice, WriteDatagram

LEMMA SendtoKeeps == UdpInv /\ Sendto => UdpInv'
<1> SUFFICES ASSUME UdpInv, Sendto PROVE UdpInv'
  OBVIOUS
<1> DEFINE d == [from |-> p, to |-> p + remain, late |-> retries]
           n == Len(datagrams)
<1>1. /\ length \in Nat /\ mtu \in Nat /\ mtu > 0 /\ ShortMod \in Nat /\ ShortMod > 0
      /\ buf \in Int /\ p \in Int /\ remain \in 0 .. ShortMod - 1 /\ remain > 0 /\ slen \in Int
      /\ retries \in Nat /\ n \in Nat
      /\ datagrams \in Seq([from : Int, to : Int, late : Nat])
  BY UdpConstants DEF UdpInv, UdpTypes, Sendto
<1>2. remain' = 0 /\ p' = p + remain /\ slen' = Short(slen + remain)
  BY <1>1 DEF Sendto, Account
<1>3. d \in [from : Int, to : Int, late : Nat] /\ datagrams' = Append(datagrams, d)
  BY <1>1 DEF Sendto
<1>4. /\ datagrams' \in Seq([from : Int, to : Int, late : Nat])
      /\ Len(datagrams') = n + 1 /\ datagrams'[n + 1] = d
      /\ \A i \in 1 .. n : datagrams'[i] = datagrams[i]
  BY <1>1, <1>3, AppendProperties
<1>5. UdpTypes'
  <2>1. slen' \in Int
    BY <1>1, <1>2, ShortOfSum
  <2> QED BY <1>1, <1>2, <1>4, <2>1 DEF UdpInv, UdpTypes, Sendto
<1>6. ASSUME ShortsSuffice, ChunkInv
      PROVE  ChunkInv'
  <2>1. /\ buf = LastSent.to /\ buf < length
        /\ Since \in Nat /\ p = buf - Since /\ remain = Chunk + Since /\ slen = Short(-Since)
        /\ buf \in 0 .. length
    BY <1>1, <1>6 DEF ChunkInv, Sendto
  <2>2. PICK c \in Nat \ {0} : c = Chunk /\ c <= mtu /\ buf + c = LeastOf(buf + mtu, length)
                                /\ buf + c <= length
    <3>1. /\ Chunk \in Nat \ {0} /\ Chunk <= mtu /\ buf + Chunk <= length
          /\ buf + Chunk = LeastOf(buf + mtu, length)
      BY <1>1, <2>1, ChunkFacts
    <3> QED BY <3>1
  <2>3. p + remain = buf + c /\ buf + c <= length
    BY <1>1, <2>1, <2>2
  <2>4. slen' = c
    <3>1. Short(-Since + remain) = Short(slen + remain)
      BY <1>1, <2>1, ShortOfSum
    <3>2. -Since + remain = c
      BY <1>1, <2>1, <2>2
    <3>3. Short(c) = c
      BY <1>1, <1>6, <2>2, ShortOfSmall DEF ShortsSuffice
    <3> QED BY <1>2, <3>1, <3>2, <3>3
  <2>5. LastSent' = d
    <3>1. n + 1 + 1 # 1 /\ n + 1 + 1 - 1 = n + 1
      BY <1>1
    <3> QED BY <1>4, <3>1 DEF LastSent, Before
  <2>6. Since' = 0
    BY <1>1, <2>5 DEF Since, Sendto
  <2>7. ASSUME NEW i \in 1 .. n + 1
        PROVE  EndToEnd(i)'
    <3>1. Before(i)' = Before(i)
      <4>1. i # 1 => i - 1 \in 1 .. n
        BY <1>1
      <4> QED BY <1>4, <4>1 DEF Before
    <3>2. CASE i \in 1 .. n
      BY <1>4, <1>6, <3>1, <3>2 DEF EndToEnd, ChunkInv, Sendto
    <3>3. CASE i = n + 1
      <4>1. Before(i) = LastSent
        BY <3>3 DEF LastSent
      <4>2. d.to = LeastOf(LastSent.to + mtu, length)
        BY <2>1, <2>2, <2>3
      <4>3. d.from = LastSent.to - (d.late - LastSent.late)
        BY <1>1, <2>1, UdpConstants
      <4> QED BY <1>4, <3>1, <3>3, <4>1, <4>2, <4>3 DEF EndToEnd, Sendto
    <3> QED BY <1>1, <3>2, <3>3
  <2>8. LastSent'.to = buf + slen'
    BY <2>3, <2>4, <2>5
  <2>9. upc' = "write" /\ buf' = buf /\ length' = length
    BY DEF Sendto
  <2>10. slen' \in Nat \ {0} /\ buf + slen' <= length
    BY <2>3, <2>4
  <2>11. (\A i \in 1 .. Len(datagrams) : EndToEnd(i))'
    BY <1>4, <2>7
  <2> QED BY <1>2, <2>1, <2>6, <2>8, <2>9, <2>10, <2>11 DEF ChunkInv
<1> QED BY <1>5, <1>6 DEF UdpInv, ShortsSuffice, Sendto

LEMMA InterruptedKeeps == UdpInv /\ SendtoInterrupted => UdpInv'
<1> SUFFICES ASSUME UdpInv, SendtoInterrupted PROVE UdpInv'
  OBVIOUS
<1>1. /\ length \in Nat /\ mtu \in Nat /\ mtu > 0 /\ ShortMod \in Nat /\ ShortMod > 0
      /\ buf \in Int /\ p \in Int /\ remain \in 0 .. ShortMod - 1 /\ remain > 0 /\ slen \in Int
      /\ retries \in Nat /\ retries < MaxRetries /\ MaxRetries \in Nat
      /\ LastSent.late \in Nat
  BY UdpConstants, UdpAssumption DEF UdpInv, UdpTypes, SendtoInterrupted
<1>2. /\ remain' = (remain + 1) % ShortMod /\ p' = p - 1 /\ slen' = Short(slen + (-1))
      /\ retries' = retries + 1 /\ buf' = buf /\ UNCHANGED <<length, mtu, datagrams, upc>>
      /\ upc = "write"
  BY <1>1 DEF SendtoInterrupted, Account
<1>3. UdpTypes'
  <2>1. slen' \in Int
    BY <1>1, <1>2, ShortOfSum
  <2>2. remain' \in 0 .. ShortMod - 1
    BY <1>1, <1>2
  <2> QED BY <1>1, <1>2, <2>1, <2>2 DEF UdpInv, UdpTypes
<1>4. ASSUME ShortsSuffice, ChunkInv
      PROVE  ChunkInv'
  <2>1. /\ buf = LastSent.to /\ buf < length /\ buf \in 0 .. length
        /\ Since \in Nat /\ p = buf - Since /\ remain = Chunk + Since /\ slen = Short(-Since)
    BY <1>1, <1>2, <1>4 DEF ChunkInv
  <2>2. Since' = Since + 1 /\ Chunk' = Chunk /\ LastSent' = LastSent
    BY <1>1, <1>2, SentStays DEF Since, Chunk
  <2>3. Since < MaxRetries /\ Chunk <= mtu /\ Chunk \in Nat
    BY <1>1, <2>1, ChunkFacts DEF Since
  <2>4. remain' = remain + 1
    <3>1. remain + 1 < ShortMod
      BY <1>1, <1>4, <2>1, <2>3 DEF ShortsSuffice
    <3> QED BY <1>1, <1>2, <3>1
  <2>5. slen' = Short(-(Since + 1))
    <3>1. Short(-Since + (-1)) = Short(slen + (-1))
      BY <2>1, ShortOfSum
    <3>2. -Since + (-1) = -(Since + 1)
      BY <2>1
    <3> QED BY <1>2, <3>1, <3>2
  <2>6. remain' > 0 /\ remain' = Chunk' + Since' /\ Since' \in Nat /\ p' = buf' - Since'
    BY <1>1, <1>2, <2>1, <2>2, <2>3, <2>4
  <2>7. slen' = Short(-Since')
    BY <2>2, <2>5
  <2>8. (\A i \in 1 .. Len(datagrams) : EndToEnd(i))'
    BY <1>2, <1>4, SentStays DEF ChunkInv
  <2>9. buf' = LastSent'.to /\ buf' < length' /\ buf' \in 0 .. length' /\ upc' = "write"
    BY <1>2, <2>1, <2>2
  <2> QED BY <2>6, <2>7, <2>8, <2>9 DEF ChunkInv
<1> QED BY <1>2, <1>3, <1>4 DEF UdpInv, ShortsSuffice

LEMMA WriteReturnsKeeps == UdpInv /\ WriteReturnsSlen => UdpInv'
<1> SUFFICES ASSUME UdpInv, WriteReturnsSlen PROVE UdpInv'
  OBVIOUS
<1>1. UdpTypes'
  BY DEF UdpInv, UdpTypes, WriteReturnsSlen, Advanced
<1>2. ASSUME ShortsSuffice, ChunkInv
      PROVE  ChunkInv'
  <2>1. LastSent' = LastSent /\ Since' = Since
    BY SentStays DEF WriteReturnsSlen, Since
  <2>2. /\ slen \in Nat \ {0} /\ Since = 0
        /\ LastSent.to = buf + slen /\ buf + slen <= length
    BY <1>2 DEF ChunkInv, WriteReturnsSlen
  <2>3. buf' = buf + slen /\ upc' = "packet"
    BY <2>2 DEF WriteReturnsSlen, Advanced
  <2> QED BY <1>1, <1>2, <2>1, <2>2, <2>3, SentStays DEF UdpTypes, ChunkInv, WriteReturnsSlen
<1> QED BY <1>1, <1>2 DEF UdpInv, ShortsSuffice, WriteReturnsSlen

LEMMA UdpStopsKeeps == UdpInv /\ (PacketReturns \/ SendtoFails) => UdpInv'
<1> SUFFICES ASSUME UdpInv, PacketReturns \/ SendtoFails PROVE UdpInv'
  OBVIOUS
<1>1. UNCHANGED <<length, mtu, buf, p, remain, slen, retries, datagrams>> /\ upc' = "done"
  BY DEF PacketReturns, SendtoFails
<1>2. UdpTypes'
  BY <1>1 DEF UdpInv, UdpTypes
<1>3. ChunkInv => ChunkInv'
  <2>1. LastSent' = LastSent
    BY <1>1, SentStays
  <2>2. ChunkInv => buf = LastSent.to
    BY UdpConstants DEF ChunkInv, PacketReturns, SendtoFails
  <2> QED BY <1>1, <2>1, <2>2, SentStays DEF ChunkInv
<1> QED BY <1>1, <1>2, <1>3 DEF UdpInv, ShortsSuffice

LEMMA UdpUnchangedKeeps == UdpInv /\ UNCHANGED udpVars => UdpInv'
<1> SUFFICES ASSUME UdpInv, UNCHANGED udpVars PROVE UdpInv'
  OBVIOUS
<1>1. LastSent' = LastSent /\ Since' = Since /\ Chunk' = Chunk
  BY SentStays DEF udpVars, Since, Chunk
<1>2. ChunkInv => ChunkInv'
  BY <1>1, SentStays DEF udpVars, ChunkInv
<1> QED BY <1>2 DEF UdpInv, UdpTypes, ShortsSuffice, udpVars

LEMMA UdpInvNext == UdpInv /\ [Next]_socketVars => UdpInv'
BY WriteDatagramKeeps, SendtoKeeps, InterruptedKeeps, WriteReturnsKeeps, UdpStopsKeeps,
   UdpUnchangedKeeps
   DEF Next, OverTcp, OverUdp, UdpNext, socketVars

(***************************************************************************)
(* Datagrams end where the chunks of the buffer end, and begin where the   *)
(* one before has ended, or one byte earlier for each interruption of      *)
(* sendto, for any sizes whose chunks a short can count (udpsocket.c:74).  *)
(***************************************************************************)
THEOREM DatagramsFollowChunks == Spec => []DatagramsEndToEnd
<1>1. UdpInv => DatagramsEndToEnd
  <2> SUFFICES ASSUME UdpInv, ShortsSuffice
               PROVE  /\ \A i \in 1 .. Len(datagrams) : EndToEnd(i)
                      /\ upc = "done" => buf = LastSent.to
    <3>1. DOMAIN datagrams = 1 .. Len(datagrams) /\ Len(datagrams) \in Nat
      BY UdpConstants DEF UdpInv, UdpTypes
    <3>2. LastSent.to = IF datagrams = << >> THEN 0 ELSE datagrams[Len(datagrams)].to
      BY UdpConstants, EmptySeq DEF LastSent, Before, UdpInv, UdpTypes
    <3> QED BY <3>1, <3>2 DEF DatagramsEndToEnd, EndToEnd, Before
  <2> QED BY DEF UdpInv, ChunkInv
<1> QED BY <1>1, UdpInvInit, UdpInvNext, PTL DEF Spec
=============================================================================
