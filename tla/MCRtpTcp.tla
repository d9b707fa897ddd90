------------------------------ MODULE MCRtpTcp ------------------------------
(* An instance of RtpTcp for TLC: two peers, three packets.                  *)
EXTENDS RtpTcp, TLC

CONSTANTS c1, c2

MCPackets == (c1 :> <<"start", "end">>) @@ (c2 :> <<"single">>)
=============================================================================
