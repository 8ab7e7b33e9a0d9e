---------------------------- MODULE MCMatchFlow ----------------------------
(* Small instances of MatchFlow for TLC. *)
EXTENDS MatchFlow, TLC

CONSTANTS p1, p2, p3

\* A party of two never fills a team of one: it stays queued.
SomeParties == {{p1, p2}}
NoParties == {}

Symmetry == Permutations(Tickets) \cup Permutations(Matches) \cup Permutations(Workers)
=============================================================================
