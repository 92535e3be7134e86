----------------------------- MODULE MCLocalComm -----------------------------
\* Two resources: a publisher in each, both of one group, whose subscribers are
\* in the second.
EXTENDS LocalComm, TLC

CONSTANTS r1, r2, p1, p2, s2, t2, g1

MCResOf == (p1 :> r1) @@ (p2 :> r2) @@ (s2 :> r2) @@ (t2 :> r2)
MCIDOf == [f \in {p1, p2, s2, t2} |-> g1]
MCRank == (r1 :> 1) @@ (r2 :> 2)
==============================================================================
