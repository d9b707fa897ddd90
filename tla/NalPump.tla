-------------------------------- MODULE NalPump --------------------------------
(***************************************************************************)
(* The main loop of client/multicast/client.c (client/udp/client.c has the *)
(* same, sending RTP): a file is read in chunks of MAXBUF bytes, each is   *)
(* searched for start codes, the NALs between two of them are sent, and an *)
(* incomplete last one is moved to the front of the buffer.  A start code  *)
(* has two bytes here instead of four, so that a chunk can end inside it.   *)
(***************************************************************************)
EXTENDS Integers, Sequences

CONSTANTS MaxBuf,          \* MAXBUF
          MaxDatagram,     \* the longest datagram sendto accepts
          H264Files,       \* the files: sequences of NALs without start code
          PastBytes,       \* what may follow the buffer in memory
          SendErrors       \* sendto may also fail for another reason

Zero == << 0, 0 >>
One == << 0, 1 >>
Other == << 0, 2 >>        \* garbage that is part of no start code
StartCode == << Zero, One >>
Code == Len(StartCode)
None == -1                 \* NULL

Byte == Nat \X Nat

(* MAXBUF is 200 KiB, a UDP datagram at most 65507 bytes *)
ASSUME BufAssumption == /\ MaxBuf \in Nat /\ MaxDatagram \in Nat
                        /\ Code < MaxDatagram /\ MaxDatagram + Code <= MaxBuf
(* What H.264 says of a byte stream: a NAL has a byte, does not end in one  *)
(* that begins a start code, and holds no start code.                      *)
HoldsNoCode(nal) ==
  /\ nal # << >> /\ nal[Len(nal)] # Zero
  /\ \A k \in 1 .. Len(nal) - 1 : ~(nal[k] = Zero /\ nal[k + 1] = One)

ASSUME NalAssumption ==
  \A f \in H264Files : /\ f \in Seq(Seq(Byte)) \ {<< >>}
                       /\ \A i \in 1 .. Len(f) : HoldsNoCode(f[i])
ASSUME MemoryAssumption == PastBytes \subseteq Byte /\ SendErrors \in BOOLEAN

VARIABLES h264,            \* SEND_FILE
          pos,             \* position of f_h264
          buf,             \* the buffer: uninitialised at first
          past,            \* the byte in memory that follows the buffer
          n, nLast,        \* bytes in the buffer, and left from the last chunk
          startCode,       \* offset of the NAL to send next
          sendLen,         \* bytes of this chunk sent
          sendCount,       \* NALs of this chunk sent
          pc,              \* what main does next
          due, lastSent    \* history: the next NAL due, the last datagram sent

chunk == << n, nLast, startCode, sendLen, sendCount >>
pumpVars == << h264, pos, buf, past, chunk, pc, due, lastSent >>

-----------------------------------------------------------------------------
(* The NALs as they are in the file, and the bytes of the file *)
H264Nals(f) == [i \in 1 .. Len(f) |-> StartCode \o f[i]]

Bytes(f) ==
  LET upTo[i \in 0 .. Len(f)] == IF i = 0 THEN << >> ELSE upTo[i - 1] \o H264Nals(f)[i]
  IN upTo[Len(f)]

(* Memory as the code reads it: offsets past the end are read too *)
At(i) == IF i < MaxBuf THEN buf[i] ELSE past

Matches(i) == At(i) = Zero /\ At(i + 1) = One

First(offsets) ==
  IF offsets = {} THEN None ELSE CHOOSE i \in offsets : \A j \in offsets : i <= j

(* The search stops one offset early *)
FindShort(from, len) ==
  First({i \in from .. from + len - Code - 2 : Matches(i)})

(* find_nal_start_code(buf + from, len): the offset of the first start code *)
FindNalStartCode(from, len) ==
  First({i \in from .. from + len - Code - 1 : Matches(i)})

Segment(from, len) == [i \in 1 .. len |-> At(from + i - 1)]

EndCode == FindNalStartCode(startCode + Code, n - sendLen)

-----------------------------------------------------------------------------
(* The file is opened once, before the loop *)
OpenWithoutRewind ==
  /\ pc = "open"
  /\ pc' = "read"
  /\ UNCHANGED << h264, pos, buf, past, chunk, due, lastSent >>

(* fopen(SEND_FILE) *)
Open ==
  /\ pc = "open"
  /\ pos' = 0
  /\ pc' = "read"
  /\ UNCHANGED << h264, buf, past, chunk, due, lastSent >>

BytesRead == LET room == MaxBuf - nLast
                 left == Len(Bytes(h264)) - pos
             IN IF left < room THEN left ELSE room

(* fread and the search for the first start code, in the whole buffer *)
Read ==
  /\ pc = "read" /\ BytesRead > 0
  /\ buf' = [i \in 0 .. MaxBuf - 1 |->
               IF i \in nLast .. nLast + BytesRead - 1
               THEN Bytes(h264)[pos + i - nLast + 1] ELSE buf[i]]
  /\ pos' = pos + BytesRead
  /\ n' = nLast + BytesRead
  /\ startCode' = First({i \in 0 .. MaxBuf - Code - 1 :
                            buf'[i] = Zero /\ buf'[i + 1] = One})
  /\ sendLen' = 0
  /\ sendCount' = 0
  /\ pc' = IF startCode' = None THEN "read" ELSE "scan"
  /\ UNCHANGED << h264, past, nLast, due, lastSent >>

(* fread returns 0: fclose and sleep.  What is left over stays in buf. *)
EndOfFile ==
  /\ pc = "read" /\ BytesRead = 0
  /\ n' = 0
  /\ pc' = "open"
  /\ UNCHANGED << h264, pos, buf, past, nLast, startCode, sendLen, sendCount, due, lastSent >>

(* sendto succeeds *)
Sent(datagram) ==
  /\ Len(datagram) <= MaxDatagram
  /\ lastSent' = datagram
  /\ due' = (due % Len(h264)) + 1

(* sendto fails: main returns *)
Failed(datagram) ==
  /\ Len(datagram) > MaxDatagram \/ SendErrors
  /\ pc' = "exited"
  /\ UNCHANGED << h264, pos, buf, past, chunk, due, lastSent >>

(* A NAL between two start codes *)
SendNal ==
  /\ pc = "scan" /\ EndCode # None
  /\ Sent(Segment(startCode, EndCode - startCode))
  /\ sendCount' = sendCount + 1
  /\ sendLen' = sendLen + (EndCode - startCode)
  /\ startCode' = EndCode
  /\ UNCHANGED << h264, pos, buf, past, n, nLast, pc >>

SendNalFails ==
  /\ pc = "scan" /\ EndCode # None
  /\ Failed(Segment(startCode, EndCode - startCode))

CarryOver == sendCount > 0 /\ n = MaxBuf

(* What is left is neither sent nor kept *)
KeepRestForgotten ==
  /\ pc = "scan" /\ EndCode = None /\ CarryOver
  /\ nLast' = 0
  /\ pc' = "read"
  /\ UNCHANGED << h264, pos, buf, past, n, startCode, sendLen, sendCount, due, lastSent >>

(* The chunk ends inside a NAL: memmove it to the front *)
KeepRest ==
  /\ pc = "scan" /\ EndCode = None /\ CarryOver
  /\ nLast' = n - startCode
  /\ buf' = [i \in 0 .. MaxBuf - 1 |-> IF i < nLast' THEN buf[startCode + i] ELSE buf[i]]
  /\ pc' = "read"
  /\ UNCHANGED << h264, pos, past, n, startCode, sendLen, sendCount, due, lastSent >>

(* The file ends with this chunk: send the last NAL *)
SendRest ==
  /\ pc = "scan" /\ EndCode = None /\ ~CarryOver
  /\ Sent(Segment(startCode, n - sendLen))
  /\ nLast' = 0
  /\ pc' = "read"
  /\ UNCHANGED << h264, pos, buf, past, n, startCode, sendLen, sendCount >>

SendRestFails ==
  /\ pc = "scan" /\ EndCode = None /\ ~CarryOver
  /\ Failed(Segment(startCode, n - sendLen))

-----------------------------------------------------------------------------
PumpInit ==
  /\ h264 \in H264Files
  /\ pos = 0
  /\ \E garbage \in {Zero, One, Other} : buf = [i \in 0 .. MaxBuf - 1 |-> garbage]
  /\ past \in PastBytes
  /\ n = 0 /\ nLast = 0 /\ startCode = None /\ sendLen = 0 /\ sendCount = 0
  /\ pc = "open"
  /\ due = 1
  /\ lastSent = << >>

PumpNext ==
  \/ Open
  \/ Read
  \/ EndOfFile
  \/ SendNal
  \/ SendNalFails
  \/ KeepRest
  \/ SendRest
  \/ SendRestFails

PumpSpec == PumpInit /\ [][PumpNext]_pumpVars

(* main runs on, and reads on while sendto does not fail *)
PumpFairSpec == PumpSpec /\ WF_pumpVars(PumpNext)

-----------------------------------------------------------------------------
PumpTypeOK ==
  /\ h264 \in H264Files
  /\ pos \in 0 .. Len(Bytes(h264))
  /\ buf \in [0 .. MaxBuf - 1 -> Byte]
  /\ past \in Byte
  /\ n \in 0 .. MaxBuf
  /\ nLast \in 0 .. MaxBuf - 1
  /\ startCode \in -1 .. MaxBuf - 1
  /\ sendLen \in 0 .. MaxBuf
  /\ sendCount \in 0 .. MaxBuf
  /\ pc \in {"open", "read", "scan", "exited"}
  /\ due \in 1 .. Len(h264)
  /\ lastSent \in Seq(Byte)

(* README.md:4, the client reads the file over and over and sends it: in    *)
(* datagrams that are its NALs, in their order, wherever the chunks end.    *)
FileLoop == INSTANCE NalLoop
              WITH Nals <- H264Nals, file <- h264, turn <- due, last <- lastSent
SendsTheFile == FileLoop!Spec

(* README.md:4 again: while sendto does not fail the client keeps sending,  *)
(* every NAL again and again.                                               *)
KeepsSending ==
  \A i \in UNION {DOMAIN f : f \in H264Files} :
    []<>(due = i \/ i \notin DOMAIN h264 \/ pc = "exited")
=============================================================================
