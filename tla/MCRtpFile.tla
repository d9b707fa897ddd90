------------------------------ MODULE MCRtpFile ------------------------------
(* Instances of RtpFile for TLC: files of up to MaxNals NALs of 1 to MaxLen  *)
(* bytes, with PayloadMax = 2 so that a NAL is sent in one, two or three     *)
(* packets, its last fragment full or not.                                   *)
EXTENDS RtpFile

CONSTANTS MaxNals, MaxLen

MCFiles == UNION {[1 .. n -> 1 .. MaxLen] : n \in 0 .. MaxNals}
=============================================================================
