---------------------------- MODULE MCMatchPlay ----------------------------
(* Small instances of MatchPlay for TLC. *)
EXTENDS MatchPlay, TLC

CONSTANTS a, b, c1, c2, full, part, other

\* The whole roster, a part of it with a different digest, and somebody else.
Named == (full :> {a, b}) @@ (part :> {a}) @@ (other :> {a, None})

\* Retries, a conflict, a second sequence and a result about somebody else.
Sent == {<<1, full>>, <<1, part>>, <<2, full>>, <<2, other>>}

Symmetry == Permutations({c1, c2})
=============================================================================
