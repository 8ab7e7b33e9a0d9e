--------------------------- MODULE MCDefinitions ---------------------------
(* A small instance of Definitions for TLC. *)
EXTENDS Definitions, TLC

CONSTANTS alice, bob, carol, h1, h2, b1, b2

Symmetry == Permutations({alice, bob, carol}) \cup Permutations({h1, h2}) \cup Permutations({b1, b2})
=============================================================================
