------------------------------ MODULE MCTailer ------------------------------
(***************************************************************************)
(* Tailer for TLC, with one stream handler.                                *)
(***************************************************************************)
EXTENDS Tailer

CONSTANT c1
=============================================================================
