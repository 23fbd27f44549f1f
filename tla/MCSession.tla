------------------------------ MODULE MCSession ------------------------------
(***************************************************************************)
(* Session for TLC: mounts are interchangeable, so they come in one order. *)
(***************************************************************************)
EXTENDS Session

CONSTANTS m1, m2

InOrder == phase[m1] = "new" => phase[m2] = "new"
=============================================================================
