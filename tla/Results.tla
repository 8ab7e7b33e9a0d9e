------------------------------ MODULE Results ------------------------------
(***************************************************************************)
(* The result of a match: simulator.Server.SubmitResult, the results       *)
(* endpoint of the Control API, ResultFinalizer.Submit and                 *)
(* RecordResultConflict.                                                   *)
(*                                                                         *)
(* A call is one POST /result of the game server with its HTTP call to the *)
(* Control API.  The endpoint reads the state, runs the result transaction *)
(* and, after a conflict, a second transaction.  The result transaction is *)
(* one action: it holds the rows it wrote, and the state in the WHERE of   *)
(* its UPDATE is the one that is committed when it gets the row.           *)
(* A payload stands for its digest.                                        *)
(***************************************************************************)
EXTENDS MatchRow

CONSTANTS
    Calls,
    Sequences,
    Payloads,
    Submissions, \* the pairs of a sequence and a payload the server may send: a bound
    PlayersOf,   \* the players each payload names
    HasReward    \* whether the result policy of the match mode names a reward

ASSUME ResultConstants ==
    /\ PlayersOf \in [Payloads -> SUBSET (Roster \cup {None})]
    /\ Submissions \subseteq Sequences \X Payloads
    /\ None \notin Payloads

ASSUME RewardConstant == HasReward \in BOOLEAN

VARIABLES
    results,    \* match.results by sequence
    conflicts,  \* match.result_conflicts
    rewards,    \* economy.reward_claims: <<player, sequence>> of sourceId match:sequence
    completed,  \* outbox events match.completed.v1, by sequence
    call,       \* what each call is doing
    acked       \* history: <<sequence, payload>> the server saw accepted

resultVars == <<results, conflicts, rewards, completed, call, acked>>

CallLabels == {"idle", "posted", "open", "committed", "conflict"}

NoCall == [pc |-> "idle", seq |-> None, payload |-> None]

ResultsInit ==
    /\ results = [s \in Sequences |-> None]
    /\ conflicts = {} /\ rewards = {} /\ completed = {} /\ acked = {}
    /\ call = [c \in Calls |-> NoCall]

Step(c, label) == call' = [call EXCEPT ![c].pc = label]
Return(c) == call' = [call EXCEPT ![c] = NoCall]

-----------------------------------------------------------------------------
\* The server validates the result and sends it, for the first time or again.
PostResult(c, sub) ==
    /\ server = "up" /\ call[c] = NoCall
    /\ call' = [call EXCEPT ![c] = [pc |-> "posted", seq |-> sub[1], payload |-> sub[2]]]
    /\ UNCHANGED <<rowVars, results, conflicts, rewards, completed, acked>>

\* The endpoint's read before the transaction; Completed passes so that a retry can be answered.
ReadState(c) ==
    /\ call[c].pc = "posted"
    /\ IF state \in {"Running", "Completed"} THEN Step(c, "open") ELSE Return(c)
    /\ UNCHANGED <<rowVars, results, conflicts, rewards, completed, acked>>

\* resultPlayers and validateResultRoster: some of the roster, and nobody else.
WellFormed(p) == PlayersOf[p] # {} /\ PlayersOf[p] \subseteq Roster

Stored(c) == results[call[c].seq]

\* Mutant of Finalizable: the state read by the endpoint is relied on.
FinalizableAsRead(c) == Stored(c) = None

\* INSERT of the result, then UPDATE ... WHERE state IN ('Running','Finalizing').
Finalizable(c) == Stored(c) = None /\ state = "Running"

\* Those a result pays: the whole roster if the mode has a reward, whoever the result names.
Rewarded == IF HasReward THEN Roster ELSE {}

\* A first result: it is stored, the rewards are paid, the match completed.
Finalize(c) ==
    LET s == call[c].seq p == call[c].payload
    IN /\ call[c].pc = "open" /\ WellFormed(p) /\ Finalizable(c)
       /\ results' = [results EXCEPT ![s] = p]
       /\ rewards' = rewards \cup (Rewarded \X {s})
       /\ state' = "Completed"
       /\ completed' = completed \cup {s}
       /\ Step(c, "committed")
       /\ UNCHANGED <<server, conflicts, acked>>

\* Mutant of Duplicate: any result of a stored sequence counts as its retry.
DuplicateOfAny(c) ==
    /\ call[c].pc = "open" /\ WellFormed(call[c].payload)
    /\ Stored(c) # None
    /\ Step(c, "committed")
    /\ UNCHANGED <<rowVars, results, conflicts, rewards, completed, acked>>

\* The same result again is answered as accepted.
Duplicate(c) ==
    /\ call[c].pc = "open" /\ WellFormed(call[c].payload)
    /\ Stored(c) = call[c].payload
    /\ Step(c, "committed")
    /\ UNCHANGED <<rowVars, results, conflicts, rewards, completed, acked>>

\* ErrResultDigestMismatch: another payload under the same sequence.
Mismatch(c) ==
    /\ call[c].pc = "open" /\ WellFormed(call[c].payload)
    /\ Stored(c) \notin {None, call[c].payload}
    /\ Step(c, "conflict")
    /\ UNCHANGED <<rowVars, results, conflicts, rewards, completed, acked>>

(***************************************************************************)
(* ErrMatchNotRunning, a result about others than the roster, a reward the *)
(* economy rejects, a failing statement: all of the transaction is undone. *)
(***************************************************************************)
Reject(c) ==
    /\ call[c].pc = "open"
    /\ Return(c)
    /\ UNCHANGED <<rowVars, results, conflicts, rewards, completed, acked>>

\* Mutant of RecordResultConflict: the state list forgets Completed.
RecordConflictRunning(c) ==
    /\ call[c].pc = "conflict"
    /\ conflicts' = conflicts \cup {<<call[c].seq, Stored(c), call[c].payload>>}
    /\ state' = IF state = "Running" THEN "Disputed" ELSE state
    /\ Return(c)
    /\ UNCHANGED <<server, results, rewards, completed, acked>>

\* The second transaction: the evidence and the dispute.
RecordResultConflict(c) ==
    /\ call[c].pc = "conflict"
    /\ conflicts' = conflicts \cup {<<call[c].seq, Stored(c), call[c].payload>>}
    /\ state' = IF state \in {"Running", "Completed"} THEN "Disputed" ELSE state
    /\ Return(c)
    /\ UNCHANGED <<server, results, rewards, completed, acked>>

\* ... which may fail, or never begin because the process dies.
ConflictIsLost(c) ==
    /\ call[c].pc = "conflict"
    /\ Return(c)
    /\ UNCHANGED <<rowVars, results, conflicts, rewards, completed, acked>>

\* The answer arrives: resultAcknowledged, and Lifecycle.Shutdown, which may fail.
Acknowledge(c) ==
    /\ call[c].pc = "committed" /\ server = "up"
    /\ acked' = acked \cup {<<call[c].seq, call[c].payload>>}
    /\ server' \in {"up", "down"}
    /\ Return(c)
    /\ UNCHANGED <<state, results, conflicts, rewards, completed>>

\* The answer is lost, the client times out after 10 s, or there is nobody to get it.
AnswerIsLost(c) ==
    /\ call[c].pc = "committed"
    /\ Return(c)
    /\ UNCHANGED <<rowVars, results, conflicts, rewards, completed, acked>>

ResultStep(c) ==
    \/ \E sub \in Submissions : PostResult(c, sub)
    \/ ReadState(c)
    \/ Finalize(c) \/ Duplicate(c) \/ Mismatch(c) \/ Reject(c)
    \/ RecordResultConflict(c) \/ ConflictIsLost(c)
    \/ Acknowledge(c) \/ AnswerIsLost(c)

-----------------------------------------------------------------------------
(* Properties *)

\* Every result variable has the type of its row, event or local variable.
ResultsTypeOK ==
    /\ results \in [Sequences -> Payloads \cup {None}]
    /\ conflicts \subseteq Sequences \X Payloads \X Payloads
    /\ rewards \subseteq Roster \X Sequences
    /\ completed \subseteq Sequences
    /\ call \in [Calls -> [pc : CallLabels, seq : Sequences \cup {None}, payload : Payloads \cup {None}]]
    /\ acked \subseteq Sequences \X Payloads

Accepted == {s \in Sequences : results[s] # None}

(***************************************************************************)
(* "The authoritative result committed exactly once": a match has at most  *)
(* one stored result, whatever sequences and payloads are submitted at the *)
(* same time and again after lost answers.                                 *)
(***************************************************************************)
OneResult == \A s, t \in Accepted : s = t

(***************************************************************************)
(* Result, rewards and event are one commit with the state: a match that   *)
(* is Completed or Disputed has its result, everybody on its roster was    *)
(* rewarded for it, if the mode rewards at all, and for nothing else, and  *)
(* one that was abandoned, by a player or by the timeout, pays nothing.    *)
(***************************************************************************)
ResultPaysOnce ==
    /\ (Accepted # {}) <=> (state \in {"Completed", "Disputed"})
    /\ rewards = Rewarded \X Accepted
    /\ completed = Accepted

(***************************************************************************)
(* The server shuts down only for a result that is stored as it sent it.   *)
(***************************************************************************)
AcknowledgedIsStored == \A a \in acked : results[a[1]] = a[2]

(***************************************************************************)
(* A match is disputed exactly when there is evidence for it: a stored     *)
(* result and a different one for the same sequence.                       *)
(***************************************************************************)
DisputesHaveEvidence ==
    /\ (state = "Disputed") <=> (conflicts # {})
    /\ \A x \in conflicts : results[x[1]] = x[2] /\ x[2] # x[3]
=============================================================================
