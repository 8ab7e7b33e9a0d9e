----------------------------- MODULE MatchPlay -----------------------------
(***************************************************************************)
(* A match from Ready to its end: players are admitted, the server submits *)
(* results, players abandon, the reconciler gives the match up and the     *)
(* server dies, all on one row of match.matches.                           *)
(***************************************************************************)
EXTENDS Results, Admission

vars == <<rowVars, resultVars, admissionVars>>

Init == RowInit /\ ResultsInit /\ AdmissionInit

RowStep == Abandon \/ HeartbeatTimeout \/ ServerDies

Next ==
    \/ (\E c \in Calls : ResultStep(c)) /\ UNCHANGED admissionVars
    \/ AdmissionStep /\ UNCHANGED resultVars
    \/ RowStep /\ UNCHANGED <<resultVars, admissionVars>>

Spec == Init /\ [][Next]_vars

\* Every variable has the type of its row, event or local variable.
TypeOK == state \in MatchStates /\ server \in {"up", "down"} /\ ResultsTypeOK /\ AdmissionTypeOK
=============================================================================
