------------------------------ MODULE MCOutbox ------------------------------
(* Small instances of Outbox for TLC. *)
EXTENDS Outbox, TLC

CONSTANTS w1, w2, w3, e1, e2

\* Two replicas of cmd/outbox-worker and one of cmd/leaderboard-worker.
Three == (w1 :> "stdout") @@ (w2 :> "stdout") @@ (w3 :> "leaderboard")
=============================================================================
