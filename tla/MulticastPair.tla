----------------------------- MODULE MulticastPair -----------------------------
(***************************************************************************)
(* The two programs of the multicast demonstration, each by itself: the    *)
(* client that reads chunks of a file (NalPump), and the server that       *)
(* records what a client sends it (Multicast).  A run is one or the other. *)
(***************************************************************************)
EXTENDS Multicast, NalPump

VARIABLE program           \* which of them it is: "client" or "server"

pairVars == << vars, pumpVars, program >>

(* What is not used is any of its initial states *)
AnyFile == CHOOSE f \in Files : TRUE
AnyH264File == CHOOSE f \in H264Files : TRUE
AnyPast == CHOOSE b \in PastBytes : TRUE

PairInit ==
  /\ program \in {"client", "server"}
  /\ Init
  /\ program = "client" => file = AnyFile
  /\ PumpInit
  /\ program = "server" => h264 = AnyH264File /\ past = AnyPast /\ buf[0] = Zero

ClientRuns == program = "client" /\ PumpNext /\ UNCHANGED << vars, program >>

(* The server, and the client it listens to as far as NalLoop describes it *)
ServerHears == program = "server" /\ Client /\ UNCHANGED << pumpVars, program >>
ServerJoins == program = "server" /\ Join /\ UNCHANGED << pumpVars, program >>
ServerRuns == program = "server" /\ Server /\ UNCHANGED << pumpVars, program >>

PairNext == ClientRuns \/ ServerHears \/ ServerJoins \/ ServerRuns

PairSpec == PairInit /\ [][PairNext]_pairVars

(* Each of them runs on; nothing obliges the server to join *)
PairFairSpec ==
  PairSpec /\ WF_pairVars(ClientRuns) /\ WF_pairVars(ServerHears) /\ WF_pairVars(ServerRuns)
=============================================================================
