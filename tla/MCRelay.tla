------------------------------ MODULE MCRelay ------------------------------
(***************************************************************************)
(* Relay for TLC: its constants are given in the .cfg files.               *)
(*                                                                         *)
(* EagerSpec keeps main() as prompt as its priority makes it (main runs at *)
(* 0, rx_thread at 6, tx_thread at 7): while it has a signalled eventfd to *)
(* read or a message to publish, no other thread moves.                    *)
(***************************************************************************)
EXTENDS Relay

MainReady ==
    \/ main_pc = "loop" /\ serving /\ Readable # {}
    \/ main_pc = "read" /\ lock[main_chan] = "free"
    \/ main_pc = "publish"

EagerSpec == Init /\ [][Next /\ (MainReady => Main \/ MainSession)]_vars
=============================================================================
