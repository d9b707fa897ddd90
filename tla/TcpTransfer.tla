------------------------------ MODULE TcpTransfer ------------------------------
(***************************************************************************)
(* common/tcpsocket.c: one program writes a buffer in chunks of at most    *)
(* maxMtu bytes with comm_tcp_write_packet, another reads records of a     *)
(* fixed size with comm_tcp_exRead, over non-blocking sockets.  A byte is  *)
(* its position in the writer's buffer.                                    *)
(***************************************************************************)
EXTENDS Naturals, Sequences

CONSTANTS Size,         \* bytes to write
          MaxMtu,       \* maxMtu
          ReadSize,     \* bytes the reader asks for
          Room,         \* bytes the connection takes before it is full
          SelectMax     \* 11: failures of select in one comm_tcp_write

ASSUME TransferAssumption ==
  /\ Size \in Nat
  /\ MaxMtu \in Nat \ {0} /\ ReadSize \in Nat \ {0}
  /\ Room \in Nat \ {0} /\ SelectMax \in Nat \ {0}

VARIABLES
  wpc,         \* writer: "packet" (the loop of write_packet), "select", "send", "done"
  counted,     \* buf - ptr of comm_tcp_write_packet
  size1,       \* comm_tcp_write: bytes of the chunk
  size,        \*                 those not sent yet
  selectcnt,   \*                 failures of select
  rpc,         \* reader: "call" (between calls), "read" (in comm_tcp_read)
  readBuf,     \* the reader's buffer
  readLen,     \* size1 of comm_tcp_exRead
  stream,      \* the bytes on their way
  up,          \* the connection is usable
  put,         \* history: what was handed to the connection
  got          \* history: the bytes the calls of comm_tcp_exRead have returned

writerVars == <<wpc, counted, size1, size, selectcnt>>
readerVars == <<rpc, readBuf, readLen, got>>
tcpVars == <<writerVars, readerVars, stream, up, put>>

Smaller(a, b) == IF a < b THEN a ELSE b
Numbers(from, n) == [i \in 1 .. n |-> from + i]

TcpInit ==
  /\ wpc = "packet" /\ counted = 0 /\ size1 = 0 /\ size = 0 /\ selectcnt = 0
  /\ rpc = "call" /\ readBuf = [i \in 1 .. ReadSize |-> 0] /\ readLen = 0
  /\ stream = << >> /\ put = << >> /\ got = << >>
  /\ up = TRUE

-----------------------------------------------------------------------------
(* The writer *)

NextChunk ==
  /\ wpc = "packet" /\ counted < Size
  /\ size1' = Smaller(Size - counted, MaxMtu)
  /\ size' = size1'
  /\ selectcnt' = 0
  /\ wpc' = "select"
  /\ UNCHANGED <<counted, readerVars, stream, up, put>>

WriteReturns ==
  /\ wpc = "packet" /\ counted = Size
  /\ wpc' = "done"
  /\ UNCHANGED <<counted, size1, size, selectcnt, readerVars, stream, up, put>>

\* Mutated: the bytes of the chunk are counted all the same
GiveUpClaimsChunk == wpc' = "done" /\ counted' = counted + size1 /\ UNCHANGED <<size1, size>>

\* Mutated: write_packet calls comm_tcp_write again
GiveUpTriesAgain == wpc' = "packet" /\ UNCHANGED <<counted, size1, size>>

\* comm_tcp_write has returned 0 or -1: write_packet leaves its loop.
GiveUp == wpc' = "done" /\ UNCHANGED <<counted, size1, size>>

Writable == Len(stream) < Room \/ ~up

SelectReady ==
  /\ wpc = "select" /\ Writable
  /\ wpc' = "send"
  /\ UNCHANGED <<counted, size1, size, selectcnt, readerVars, stream, up, put>>

\* EINTR and EAGAIN are tried again, but not for ever; other errors are not.
SelectFails ==
  /\ wpc = "select"
  /\ selectcnt' = selectcnt + 1
  /\ \/ selectcnt' < SelectMax /\ UNCHANGED <<wpc, counted, size1, size>>
     \/ GiveUp
  /\ UNCHANGED <<readerVars, stream, up, put>>

\* Whichever of 0 and -1 the errno of an earlier call makes of a time-out.
SelectTimesOut ==
  /\ wpc = "select" /\ ~Writable
  /\ GiveUp
  /\ UNCHANGED <<selectcnt, readerVars, stream, up, put>>

\* Mutated: what is left of the chunk is sent from its beginning
ChunkStart == counted

\* Where buf of comm_tcp_write points.
SendFrom == counted + (size1 - size)

SendSome ==
  /\ wpc = "send" /\ up
  /\ \E len \in 1 .. Smaller(size, Room - Len(stream)) :
       LET bytes == Numbers(SendFrom, len)
       IN /\ stream' = stream \o bytes
          /\ put' = put \o bytes
          /\ size' = size - len
  /\ IF size' > 0
     THEN wpc' = "select" /\ UNCHANGED counted
     ELSE wpc' = "packet" /\ counted' = counted + size1
  /\ UNCHANGED <<size1, selectcnt, readerVars, up>>

\* EINTR or EAGAIN
SendAgain ==
  /\ wpc = "send"
  /\ wpc' = "select"
  /\ UNCHANGED <<counted, size1, size, selectcnt, readerVars, stream, up, put>>

SendFails ==
  /\ wpc = "send" /\ ~up
  /\ GiveUp
  /\ UNCHANGED <<selectcnt, readerVars, stream, up, put>>

-----------------------------------------------------------------------------
(* The reader *)

ReadCall ==
  /\ rpc = "call"
  /\ readBuf' = [i \in 1 .. ReadSize |-> 0]
  /\ readLen' = 0
  /\ rpc' = "read"
  /\ UNCHANGED <<got, writerVars, stream, up, put>>

ExReadReturns(n, buf) ==
  /\ got' = got \o SubSeq(buf, 1, n)
  /\ rpc' = "call"

ReadSome ==
  /\ rpc = "read"
  /\ \E len \in 1 .. Smaller(ReadSize - readLen, Len(stream)) :
       /\ readBuf' = [i \in 1 .. ReadSize |->
                        IF i - readLen \in 1 .. len THEN stream[i - readLen] ELSE readBuf[i]]
       /\ readLen' = readLen + len
       /\ stream' = SubSeq(stream, len + 1, Len(stream))
  /\ IF readLen' = ReadSize THEN ExReadReturns(readLen', readBuf')
     ELSE UNCHANGED <<rpc, got>>
  /\ UNCHANGED <<writerVars, up, put>>

\* select fails or times out, recv fails, or the writer has closed the connection:
\* the call returns what it has.
ReadStops ==
  /\ rpc = "read"
  /\ ExReadReturns(readLen, readBuf)
  /\ UNCHANGED <<readBuf, readLen, writerVars, stream, up, put>>

\* The connection breaks; what is on its way may still be read.
Breaks ==
  /\ up
  /\ up' = FALSE
  /\ UNCHANGED <<writerVars, readerVars, stream, put>>

Writer == \/ NextChunk \/ WriteReturns
          \/ SelectReady \/ SelectFails \/ SelectTimesOut
          \/ SendSome \/ SendAgain \/ SendFails
Reader == ReadCall \/ ReadSome \/ ReadStops

TcpNext == Writer \/ Reader \/ Breaks

-----------------------------------------------------------------------------
TcpTypeOK ==
  /\ wpc \in {"packet", "select", "send", "done"}
  /\ counted \in 0 .. Size /\ size1 \in 0 .. MaxMtu /\ size \in 0 .. size1
  /\ selectcnt \in 0 .. SelectMax
  /\ rpc \in {"call", "read"}
  /\ readBuf \in [1 .. ReadSize -> 0 .. Size] /\ readLen \in 0 .. ReadSize
  /\ up \in BOOLEAN
  /\ stream \in Seq(1 .. Size) /\ Len(stream) <= Room
  /\ put \in Seq(1 .. Size) /\ got \in Seq(1 .. Size)

(***************************************************************************)
(* The bytes cross in order, none missing and none twice, whatever calls   *)
(* were interrupted, cut short or repeated on both sides                   *)
(* (tcpsocket.c:271 and :317).                                             *)
(***************************************************************************)
BytesInOrder ==
  LET inHand == IF rpc = "read" THEN SubSeq(readBuf, 1, readLen) ELSE << >>
  IN /\ put = Numbers(0, Len(put))
     /\ put = got \o inHand \o stream

(***************************************************************************)
(* comm_tcp_write_packet never claims a byte that was not sent, but it may *)
(* fall short by part of a chunk: comm_tcp_write forgets what it has sent  *)
(* when it fails or times out (tcpsocket.c:331, :344).                     *)
(***************************************************************************)
ClaimsOnlySent ==
  /\ counted <= Len(put)
  /\ Len(put) < counted + MaxMtu
  /\ (wpc = "packet" \/ counted = Size) => Len(put) = counted
=============================================================================
