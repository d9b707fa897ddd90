------------------------------ MODULE SingleThread ------------------------------
(***************************************************************************)
(* The parts that one thread drives, with nobody beside it: the menus      *)
(* queue_linear_arrary_test.c, queue_linear_pointer_test.c and             *)
(* queue_list_test.c, from which a user calls the functions of one queue   *)
(* in any order; a user of the client list; and the reading loop of        *)
(* send_h264file_rtp.c.                                                    *)
(***************************************************************************)
EXTENDS RingQueue, ListQueue, ClientList, NalReader

VARIABLE program     \* which of them it is: "ring", "list", "clients" or "reader"

threadVars == <<ringVars, listVars, clientVars, readerVars, program>>

Init ==
  /\ RingInit /\ ListInit /\ ClientInit /\ ReaderInit
  /\ program \in {"ring", "list", "clients", "reader"}
  /\ program # "ring" => kind = "array"      \* no ring is used

MenuOfRing ==
  /\ program = "ring" /\ RingNext
  /\ UNCHANGED <<listVars, clientVars, readerVars, program>>

MenuOfList ==
  /\ program = "list" /\ ListNext
  /\ UNCHANGED <<ringVars, clientVars, readerVars, program>>

UsesClients ==
  /\ program = "clients" /\ ClientNext
  /\ UNCHANGED <<ringVars, listVars, readerVars, program>>

ReadsFile ==
  /\ program = "reader" /\ ReaderNext
  /\ UNCHANGED <<ringVars, listVars, clientVars, program>>

Next == MenuOfRing \/ MenuOfList \/ UsesClients \/ ReadsFile

Spec == Init /\ [][Next]_threadVars
=============================================================================
