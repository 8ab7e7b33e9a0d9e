------------------------------ MODULE MatchRow ------------------------------
(***************************************************************************)
(* The row of one match in match.matches from Ready on, which the result   *)
(* transaction, the admission of players, the abandon command and the      *)
(* reconciler all update, each with its own list of states in its WHERE.   *)
(* Finalizing exists only inside the result transaction.                   *)
(***************************************************************************)
EXTENDS Naturals, FiniteSets

CONSTANTS
    Roster,  \* the players of the match
    None

VARIABLES
    state,   \* match.matches.state
    server   \* the game server's process: "up" until it is shut down or dies

MatchStates == {"Ready", "Running", "Completed", "Disputed", "Abandoned"}

rowVars == <<state, server>>

RowInit == state = "Ready" /\ server = "up"

\* Mutant of StartRunning: no state in the WHERE clause.
StartRunningAlways == state' = "Running"

\* StartRunning: idempotent, refused once the match is over.
StartRunning ==
    /\ state \in {"Ready", "Running"}
    /\ state' = "Running"

\* match.abandon of a roster member.
Abandon ==
    /\ state \in {"Ready", "Running"}
    /\ state' = "Abandoned"
    /\ UNCHANGED server

\* Mutant of HeartbeatTimeout: the state of a failed allocation.
HeartbeatTimeoutFails ==
    /\ state = "Running"
    /\ state' = "Failed"
    /\ UNCHANGED server

\* RecoverStaleRunningMatches: no heartbeat for the timeout.
HeartbeatTimeout ==
    /\ state = "Running"
    /\ state' = "Abandoned"
    /\ UNCHANGED server

\* The server's process dies; what it has sent is on its way.
ServerDies ==
    /\ server = "up"
    /\ server' = "down"
    /\ UNCHANGED state
=============================================================================
