----------------------------- MODULE MCServerDir -----------------------------
(***************************************************************************)
(* ServerDir for TLC: the PATCH asks for a reserved key, too.              *)
(***************************************************************************)
EXTENDS ServerDir, TLC

CONSTANTS rcon, query, motd, p1

MCBody == p1 :> {rcon, query, motd}
\* Of the Start calls, the updates and the PATCH.
ThreeAtMost ==
    Cardinality({s \in Starts : start[s] # "new"})
        + Cardinality({u \in Updates : upc[u] # "new"})
        + Cardinality({p \in Patches : ppc[p] # "new"}) <= 3

Symmetry == Permutations(Starts) \cup Permutations(Updates)
=============================================================================
