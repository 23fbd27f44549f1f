------------------------------ MODULE MCAudit ------------------------------
(***************************************************************************)
(* Audit for TLC.                                                          *)
(***************************************************************************)
EXTENDS Audit

CONSTANTS k1, k2

\* At most one month's file ends within a line.
OneTorn == Cardinality(torn) <= 1

\* Entries of the other kind are there for the client only.
Paging == cursor # 0 \/ \E e \in Known : e.kind = k2

\* A client pages at the turn of the month, with the janitor idle and at most one
\* entry on its way to its file or torn there: List looks at none of these.
FewWhilePaging ==
    Paging =>
        /\ now >= MonthLen - 1 /\ old = {}
        /\ Cardinality(writing) + Cardinality(torn) <= 1
=============================================================================
