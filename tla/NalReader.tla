------------------------------- MODULE NalReader -------------------------------
(***************************************************************************)
(* copy_nal_from_file of send_h264file_rtp.c and test_tcp_send_nal.c, and  *)
(* the loop of main around it: an automaton that reads the file byte by    *)
(* byte and returns the NAL it has copied when it meets a start code,      *)
(* 00 00 01 or 00 00 00 01.  It never looks ahead, so a byte of the file   *)
(* is chosen when it is read.                                              *)
(***************************************************************************)
EXTENDS Naturals, Sequences

CONSTANTS Other,       \* the bytes that are neither 0 nor 1
          MaxBytes     \* bound: the length of the file

ASSUME ByteAssumption == {0, 1} \cap Other = {} /\ MaxBytes \in Nat

VARIABLES
  file,      \* history: the bytes read so far
  flag,      \* how many zeros are held back in tmpbuf
  buf,       \* what the call has copied: buf and *len
  ended,     \* fread has met the end of the file and the call returned -1
  nals,      \* history: what the calls have returned
  starts     \* history: where in the file each call has started to read

readerVars == <<file, flag, buf, ended, nals, starts>>

Byte == {0, 1} \cup Other

ReaderInit ==
  /\ file = << >>
  /\ flag = 0
  /\ buf = << >>
  /\ ended = FALSE
  /\ nals = << >>
  /\ starts = <<1>>

Read(b) == file' = Append(file, b)
Hold(n) == flag' = n /\ UNCHANGED buf
Copy(bytes) == flag' = 0 /\ buf' = buf \o bytes
SameCall == UNCHANGED <<ended, nals, starts>>

\* The call returns *len; main sends the NAL and calls again.
ReturnNal ==
  /\ nals' = Append(nals, buf)
  /\ starts' = Append(starts, Len(file) + 2)
  /\ flag' = 0
  /\ buf' = << >>
  /\ UNCHANGED ended

NoZeroHeld(b) ==
  /\ flag = 0
  /\ IF b = 0 THEN Hold(1) ELSE Copy(<<b>>)
  /\ SameCall

OneZeroHeld(b) ==
  /\ flag = 1
  /\ IF b = 0 THEN Hold(2) ELSE Copy(<<0, b>>)
  /\ SameCall

\* Mutated: one of the zeros is forgotten
TwoZerosOneCopied(b) ==
  /\ flag = 2
  /\ CASE b = 0 -> Hold(3) /\ SameCall
       [] b = 1 -> ReturnNal
       [] OTHER -> Copy(<<0, b>>) /\ SameCall

TwoZerosHeld(b) ==
  /\ flag = 2
  /\ CASE b = 0 -> Hold(3) /\ SameCall
       [] b = 1 -> ReturnNal
       [] OTHER -> Copy(<<0, 0, b>>) /\ SameCall

\* Mutated: only the short start code is known
ThreeZerosNoCode(b) ==
  /\ flag = 3
  /\ Copy(IF b = 1 THEN <<0, 0, 0, 1>> ELSE << >>) /\ SameCall

\* What does not turn out to be a start code is not copied, b included.
ThreeZerosHeld(b) ==
  /\ flag = 3
  /\ IF b = 1 THEN ReturnNal ELSE Copy(<< >>) /\ SameCall

ReadByte(b) ==
  /\ ~ended /\ Len(file) < MaxBytes
  /\ Read(b)
  /\ NoZeroHeld(b) \/ OneZeroHeld(b) \/ TwoZerosHeld(b) \/ ThreeZerosHeld(b)

\* The call returns -1 whatever it has copied.
EndOfFile ==
  /\ ~ended
  /\ ended' = TRUE
  /\ UNCHANGED <<file, flag, buf, nals, starts>>

ReaderNext == (\E b \in Byte : ReadByte(b)) \/ EndOfFile

ReaderSpec == ReaderInit /\ [][ReaderNext]_readerVars

-----------------------------------------------------------------------------
ReaderTypeOK ==
  /\ file \in Seq(Byte)
  /\ flag \in 0 .. 3
  /\ buf \in Seq(Byte)
  /\ ended \in BOOLEAN
  /\ nals \in Seq(Seq(Byte))
  /\ starts \in Seq(Nat \ {0})

\* What a file holds, whatever reads it.
LongCode == <<0, 0, 0, 1>>
ShortCode == <<0, 0, 1>>

CodeEndsAt(p) ==      \* a start code ends with byte p
  /\ p \in 3 .. Len(file)
  /\ file[p] = 1 /\ file[p - 1] = 0 /\ file[p - 2] = 0

\* Three zeros that 1 does not follow.  H.264 has none in a NAL, but may have
\* them behind one: of 00 00 00 00 01 the reader drops the zeros, copies the 1
\* and knows no start code.
StrayZerosAt(p) ==
  /\ p \in 4 .. Len(file)
  /\ file[p - 1] = 0 /\ file[p - 2] = 0 /\ file[p - 3] = 0
  /\ file[p] # 1

\* From where the call that returned NAL i started to read to where the next did.
Region(i) == starts[i] .. starts[i + 1] - 1
Clean(region) == \A p \in region : p - 3 \in region => ~StrayZerosAt(p)

(***************************************************************************)
(* Every NAL returned is, byte for byte, what the file has between two     *)
(* start codes, and no start code is inside it, whatever zeros were held   *)
(* back and copied late, and with both lengths of start codes              *)
(* (send_h264file_rtp.c:385).  Nothing is claimed of what a call returns   *)
(* that has met three zeros without a 1 behind them, even if a start code  *)
(* ends with them, one zero too long; what the next calls return is right. *)
(***************************************************************************)
CutsAtStartCodes ==
  \A i \in DOMAIN nals :
    Clean(Region(i)) =>
      /\ \E code \in {LongCode, ShortCode} :
           SubSeq(file, starts[i], starts[i + 1] - 1) = nals[i] \o code
      /\ nals[i] # << >> => nals[i][Len(nals[i])] # 0
      /\ \A p \in Region(i) :
           (p - 2 \in Region(i) /\ p + 1 \in Region(i)) => ~CodeEndsAt(p)

(***************************************************************************)
(* What has been read and not returned holds no start code: a call never   *)
(* reads past one.  At the end of the file this is the last NAL, which is  *)
(* never returned (send_h264file_rtp.c:380).                               *)
(***************************************************************************)
RestHasNoCode ==
  LET rest == starts[Len(starts)] .. Len(file)
  IN Clean(rest) =>
       /\ SubSeq(file, starts[Len(starts)], Len(file)) = buf \o [i \in 1 .. flag |-> 0]
       /\ \A p \in rest : p - 2 \in rest => ~CodeEndsAt(p)
=============================================================================
