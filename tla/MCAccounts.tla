----------------------------- MODULE MCAccounts -----------------------------
(* Small instances of Accounts for TLC. *)
EXTENDS Accounts, TLC

CONSTANTS p1, p2, k1, k2, k3

Call(p, k, o) == [player |-> p, key |-> k, op |-> o]

(***************************************************************************)
(* Two deletions of p1 under different keys, an export of p2 with the key  *)
(* of one of them, a patch of p1 sent twice at once and another patch.     *)
(***************************************************************************)
Overlapping ==
    <<Call(p1, k1, "delete"), Call(p1, k2, "delete"), Call(p2, k1, "export"),
      Call(p1, k2, "patch"), Call(p1, k2, "patch"), Call(p1, k3, "patch")>>
=============================================================================
