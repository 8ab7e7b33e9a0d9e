--------------------------- MODULE MCRateLimiter ---------------------------
(* A small instance of RateLimiter for TLC. *)
EXTENDS RateLimiter, TLC

CONSTANTS c1, c2

Symmetry == Permutations({c1, c2})

\* Two addresses, one of which uses a path with a limit of its own.
AllKeys == {"ip1", "ip2", "ip1path"}
Costs == [k \in AllKeys |-> IF k = "ip1path" THEN 2 ELSE 1]
Caps == [k \in AllKeys |-> 2]
AllRoutes == {<<"ip1", "ip1path">>, <<"ip1">>, <<"ip2">>}
=============================================================================
