----------------------------- MODULE MCOwnerLock -----------------------------
(***************************************************************************)
(* OwnerLock for TLC: instance a has two slots, instance b has one.        *)
(***************************************************************************)
EXTENDS OwnerLock

CONSTANTS a, b, a1, a2, b1

MCInstanceOf == [s \in {a1, a2, b1} |-> IF s = b1 THEN b ELSE a]
=============================================================================
