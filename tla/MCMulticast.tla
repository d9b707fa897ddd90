----------------------------- MODULE MCMulticast -----------------------------
(* Instances of MulticastPair for TLC, with the files of MCNalPump for the  *)
(* client.  For the server, 7 SPS, 8 PPS, 5 and 1 slices: one file has its  *)
(* parameter sets at the beginning, one repeats them, one is short.         *)
EXTENDS MulticastPair, MCNalPump

MCRecorded == { << 7, 8, 5, 1 >>, << 7, 8, 5, 7, 8, 1, 1 >>, << 7, 8, 5 >> }
=============================================================================
