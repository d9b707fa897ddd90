------------------------------ MODULE MCNalPump ------------------------------
(* Instances of NalPump for TLC: files of 1 to MaxNals NALs of 1 to MaxLen   *)
(* bytes, so that chunks end before, inside and after start codes; the second *)
(* byte of a NAL, if it is not the last, is one that begins a start code.     *)
EXTENDS NalPump

CONSTANTS MaxNals, MaxLen

MCFiles ==
  LET lengths == UNION {[1 .. k -> 1 .. MaxLen] : k \in 1 .. MaxNals}
      nal(i, l) == [k \in 1 .. l |-> IF k = 2 /\ k < l THEN Zero ELSE << i, k >>]
  IN {[i \in 1 .. Len(l) |-> nal(i, l[i])] : l \in lengths}

(* The byte that follows the buffer does not complete a start code, or does *)
MCHarmless == {Zero, Other}
MCHarmful == {One}
=============================================================================
