-------------------------------- MODULE SocketIO --------------------------------
(***************************************************************************)
(* A program that uses the helpers of common/ on a socket of one of the    *)
(* two types that comm_isocket_creat makes.                                *)
(***************************************************************************)
EXTENDS TcpTransfer, UdpTransfer

VARIABLE socktype     \* INTF_TCP or INTF_UDP

socketVars == <<socktype, tcpVars, udpVars>>

Init == socktype \in {"INTF_TCP", "INTF_UDP"} /\ TcpInit /\ UdpInit

OverTcp == socktype = "INTF_TCP" /\ TcpNext /\ UNCHANGED <<socktype, udpVars>>
OverUdp == socktype = "INTF_UDP" /\ UdpNext /\ UNCHANGED <<socktype, tcpVars>>

Next == OverTcp \/ OverUdp

Spec == Init /\ [][Next]_socketVars

\* The writer is scheduled, time passes, and send is not interrupted for ever.
\* The reader may pause between its calls.
WriterStep == socktype = "INTF_TCP" /\ Writer /\ UNCHANGED <<socktype, udpVars>>
SendOutcome ==
  socktype = "INTF_TCP" /\ (SendSome \/ SendFails) /\ UNCHANGED <<socktype, udpVars>>

FairSpec == /\ Spec
            /\ WF_socketVars(WriterStep) /\ SF_socketVars(SendOutcome)
            /\ WF_socketVars(OverUdp)

(***************************************************************************)
(* A write returns: a reader that does not read leads to a time-out, after *)
(* which no further chunk is tried (tcpsocket.c:278, :300), and the loops  *)
(* over chunks advance (udpsocket.c:89) unless the length of one is 0 as   *)
(* an unsigned short.                                                      *)
(***************************************************************************)
WritesReturn ==
  <>(IF socktype = "INTF_TCP" THEN wpc = "done" ELSE upc = "done" \/ mtu >= ShortMod)
=============================================================================
