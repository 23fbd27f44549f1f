---------------------------- MODULE MCFederation ----------------------------
(***************************************************************************)
(* Federation for TLC: the clock of the peer is fast.                      *)
(***************************************************************************)
EXTENDS Federation, TLC

CONSTANTS a, b

\* One scan at a time is overtaken.
OneSlowScan == slow[a] = None \/ slow[b] = None

MCSkew == a :> 0 @@ b :> 1
=============================================================================
