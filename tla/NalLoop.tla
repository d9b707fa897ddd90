-------------------------------- MODULE NalLoop --------------------------------
(***************************************************************************)
(* What README.md asks of a client: it reads an h264 file over and over    *)
(* and sends it.  Each datagram is one whole NAL of the file, start code    *)
(* included; they go out in file order and start again after the last one. *)
(***************************************************************************)
EXTENDS Naturals, Sequences

CONSTANT Nals(_)           \* the NALs of a file, in order

VARIABLES file,            \* the file that is read
          turn,            \* the number of the NAL to send next
          last             \* the datagram sent last

Init ==
  /\ turn = 1
  /\ last = << >>

SendNal ==
  /\ last' = Nals(file)[turn]
  /\ turn' = (turn % Len(Nals(file))) + 1
  /\ UNCHANGED file

Spec == Init /\ [][SendNal]_<< file, turn, last >>
=============================================================================
