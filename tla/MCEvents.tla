------------------------------ MODULE MCEvents ------------------------------
(***************************************************************************)
(* Events for TLC: mounts are interchangeable.                             *)
(***************************************************************************)
EXTENDS Events, TLC

\* A client that ClientSeesState says nothing of is not followed further; the
\* slot does all it can do without one.
Watchable == stream => ~raced /\ ~dropped

Symmetry == Permutations(Mounts)
=============================================================================
