---- MODULE MCStandingApprovals ----
(* Small instances of StandingApprovals for TLC. *)
EXTENDS StandingApprovals, TLC

CONSTANTS s1, s2, w1, w2, e1, e2, r1, r2, p1, p2

Symmetry == Permutations(SAIds) \cup Permutations(Workers) \cup Permutations(Editors)

\* Constraints that admit the first parameter, and none.
Open == {{p1}}
OpenOrShut == {{p1}, {}}
====
