----------------------------- MODULE MatchFlow -----------------------------
(***************************************************************************)
(* From a matchmaking ticket to a finished match.                          *)
(*                                                                         *)
(* The parts that share the match schema of PostgreSQL: players and        *)
(* trusted services that create and cancel tickets (internal/matchmaking   *)
(* store), replicas of the matchmaking worker (internal/matchmaking        *)
(* worker), the match store with the callbacks of the dedicated server     *)
(* (internal/matches, cmd/control-api, cmd/simulator-server) and the       *)
(* reconciliation worker (internal/reconciliation).                        *)
(*                                                                         *)
(* One action is one committed statement or transaction.  RunOnce of the   *)
(* worker keeps nothing locked between its statements, so it is one action *)
(* per statement, with a program counter; everything else interleaves.     *)
(*                                                                         *)
(* Clocks are abstracted to what the SQL conditions tell apart: tdue[t]    *)
(* says expires_at <= now() and mstale[m] says updated_at < cutoff.        *)
(***************************************************************************)
EXTENDS Naturals, FiniteSets

CONSTANTS
    Tickets,      \* ticket IDs: the bound on tickets ever created
    Matches,      \* match IDs: the bound on matches ever persisted
    Players,
    Workers,      \* replicas of the matchmaking worker
    Parties,      \* the member sets a trusted service may enqueue
    TeamSize,     \* Policy.TeamSize
    Teams,        \* Policy.Teams
    MaxAttempts,  \* MaxAllocationAttempts
    Faults,       \* which of the failures below may happen
    NoMatch       \* the NULL of match.tickets.match_id

(***************************************************************************)
(* crash         a worker replica dies between two of its statements       *)
(* dbError       a statement of the worker fails and has no effect         *)
(* lostReply     a call takes effect but its caller sees an error          *)
(* serverCrash   a dedicated server dies                                   *)
(*                                                                         *)
(* Server claims that run out and heartbeats that are late are no faults:  *)
(* nothing renews a claim, and nothing bounds the delay of a heartbeat.    *)
(***************************************************************************)
FaultKinds == {"crash", "dbError", "lostReply", "serverCrash"}

ASSUME FlowConstants ==
    /\ Parties \subseteq SUBSET Players
    /\ NoMatch \notin Matches
    /\ TeamSize \in Nat /\ Teams \in Nat
    /\ MaxAttempts \in Nat \ {0}
    /\ Faults \subseteq FaultKinds

VARIABLES
    tstatus,    \* match.tickets.status, "none" before the row exists
    tmembers,   \* match.ticket_members of the ticket
    tmatch,     \* match.tickets.match_id
    tattempts,  \* match.tickets.allocation_attempts
    tdue,       \* expires_at has passed
    mstate,     \* match.matches.state, "None" before the row exists
    mroster,    \* match.roster_members of the match
    mstale,     \* updated_at is older than the reconciler's cutoff
    mbatch,     \* history: the tickets the match was made from
    late,       \* history: matches whose heartbeats have been late since their last update
    wpc,        \* the next statement of the worker's RunOnce
    wbatch,     \* its local variable ids
    wmatch,     \* its local variable matchID
    server,     \* the dedicated server allocated for a match ID
    expired,    \* match IDs whose server claim has expired
    events      \* the match events in ops.outbox_events

ticketVars == <<tstatus, tmembers, tmatch, tattempts, tdue>>
matchVars  == <<mstate, mroster, mstale, mbatch, late>>
workerVars == <<wpc, wbatch, wmatch>>
serverVars == <<server, expired>>
vars == <<ticketVars, matchVars, workerVars, serverVars, events>>

TicketStatus == {"none", "queued", "matching", "matched", "cancelled", "expired"}

(***************************************************************************)
(* Queued and Cancelled are declared in the source but no statement writes *)
(* them; Finalizing is overwritten by Completed in the transaction that    *)
(* writes it, so no other transaction sees it.                             *)
(***************************************************************************)
MatchState ==
    {"None", "Matched", "Allocating", "Ready", "Running",
     "Completed", "Abandoned", "Disputed", "Failed"}

WorkerPC ==
    {"idle", "selected", "claimed", "allocFailed", "allocated",
     "created", "allocating", "giveUp"}

\* The statements before which RunOnce owns the tickets of its batch.
Owning == {"claimed", "allocFailed", "allocated", "created", "allocating", "giveUp"}

ServerState == {"none", "assigned", "serving", "gone"}

MatchEvents == {"match.failed.v1", "match.abandoned.v1", "match.completed.v1"}

\* The server process runs, whatever the control plane knows about it.
Alive(m) == server[m] \in {"assigned", "serving"}

\* verifyServerRequest: the row exists and the claim is inside its window.
Verified(m) == Alive(m) /\ mstate[m] # "None" /\ m \notin expired

(***************************************************************************)
(* The simulator starts its heartbeat loop once its ready report has been  *)
(* accepted; a heartbeat lands while the match is Ready or Running.        *)
(***************************************************************************)
Heartbeating(m) ==
    server[m] = "serving" /\ Verified(m) /\ mstate[m] \in {"Ready", "Running"}

Init ==
    /\ tstatus = [t \in Tickets |-> "none"]
    /\ tmembers = [t \in Tickets |-> {}]
    /\ tmatch = [t \in Tickets |-> NoMatch]
    /\ tattempts = [t \in Tickets |-> 0]
    /\ tdue = [t \in Tickets |-> FALSE]
    /\ mstate = [m \in Matches |-> "None"]
    /\ mroster = [m \in Matches |-> {}]
    /\ mstale = [m \in Matches |-> FALSE]
    /\ mbatch = [m \in Matches |-> {}]
    /\ late = {}
    /\ wpc = [w \in Workers |-> "idle"]
    /\ wbatch = [w \in Workers |-> {}]
    /\ wmatch = [w \in Workers |-> NoMatch]
    /\ server = [m \in Matches |-> "none"]
    /\ expired = {}
    /\ events = {}

-----------------------------------------------------------------------------
(* Tickets *)

\* The EXISTS query of Create and CreateTx: only an unexpired queued ticket counts.
HasActiveTicket(p) ==
    \E t \in Tickets : p \in tmembers[t] /\ tstatus[t] = "queued" /\ ~tdue[t]

\* INSERT of the ticket and its members, the ticket ID being new.
InsertTicket(t, party) ==
    /\ tstatus[t] = "none"
    /\ tstatus' = [tstatus EXCEPT ![t] = "queued"]
    /\ tmembers' = [tmembers EXCEPT ![t] = party]
    /\ UNCHANGED <<tmatch, tattempts, tdue, matchVars, workerVars, serverVars, events>>

(***************************************************************************)
(* A player session enqueues itself: ValidatePlayerTicket admits a solo    *)
(* ticket only.  The advisory lock per player makes check and insert one   *)
(* step for that player.                                                   *)
(***************************************************************************)
Create(t, p) == ~HasActiveTicket(p) /\ InsertTicket(t, {p})

\* matchmaking.enqueue of a trusted actor, which may name a whole party.
CreateTx(t, party) ==
    (\A p \in party : ~HasActiveTicket(p)) /\ InsertTicket(t, party)

\* Mutant of Cancel: a matched ticket can be cancelled as well.
CancelMatched(t) ==
    /\ tstatus[t] \in {"queued", "matched"}
    /\ tstatus' = [tstatus EXCEPT ![t] = "cancelled"]
    /\ UNCHANGED <<tmembers, tmatch, tattempts, tdue, matchVars, workerVars, serverVars, events>>

Cancel(t) ==
    /\ tstatus[t] = "queued"
    /\ tstatus' = [tstatus EXCEPT ![t] = "cancelled"]
    /\ UNCHANGED <<tmembers, tmatch, tattempts, tdue, matchVars, workerVars, serverVars, events>>

\* The clock passes expires_at; the row itself is not touched.
TicketDue(t) ==
    /\ tstatus[t] \in {"queued", "matching"} /\ ~tdue[t]
    /\ tdue' = [tdue EXCEPT ![t] = TRUE]
    /\ UNCHANGED <<tstatus, tmembers, tmatch, tattempts, matchVars, workerVars, serverVars, events>>

-----------------------------------------------------------------------------
(* The matchmaking worker: RunOnce, statement by statement *)

Goto(w, label) ==
    wpc' = [wpc EXCEPT ![w] = label] /\ UNCHANGED <<wbatch, wmatch>>

\* RunOnce returns: its local variables are gone.
Return(w) ==
    /\ wpc' = [wpc EXCEPT ![w] = "idle"]
    /\ wbatch' = [wbatch EXCEPT ![w] = {}]
    /\ wmatch' = [wmatch EXCEPT ![w] = NoMatch]

Lost == "lostReply" \in Faults
DbError == "dbError" \in Faults

\* WHERE status='matching': what releasing the batch of w changes.
SetTicketStatus(w, status) ==
    tstatus' = [t \in Tickets |->
                  IF t \in wbatch[w] /\ tstatus[t] = "matching" THEN status ELSE tstatus[t]]

Claimable(t) == tstatus[t] = "queued" /\ ~tdue[t]

(***************************************************************************)
(* queued() followed by Batch.  Any complete batch of full teams may come  *)
(* out: creation times and IDs, which decide among them, are not modelled  *)
(* here, and all tickets are of one mode, region and build.                *)
(***************************************************************************)
IsBatch(batch) ==
    /\ TeamSize > 0 /\ Teams > 0
    /\ Cardinality(batch) = Teams
    /\ \A t \in batch : Claimable(t) /\ Cardinality(tmembers[t]) = TeamSize

SelectBatch(w) ==
    /\ wpc[w] = "idle"
    /\ \E batch \in SUBSET Tickets \ {{}} :
         /\ IsBatch(batch)
         /\ wbatch' = [wbatch EXCEPT ![w] = batch]
    /\ wpc' = [wpc EXCEPT ![w] = "selected"]
    /\ UNCHANGED <<wmatch, ticketVars, matchVars, serverVars, events>>

\* newID: an ID that no row, server or worker mentions.
Fresh(m) == mstate[m] = "None" /\ server[m] = "none" /\ \A w \in Workers : wmatch[w] # m

\* Mutant of Claim: also claims what another replica has claimed since SelectBatch.
ClaimStale(w) ==
    /\ wpc[w] = "selected"
    /\ \A t \in wbatch[w] : tstatus[t] \in {"queued", "matching"}
    /\ tstatus' = [t \in Tickets |-> IF t \in wbatch[w] THEN "matching" ELSE tstatus[t]]
    /\ \E m \in Matches :
         /\ Fresh(m)
         /\ wmatch' = [wmatch EXCEPT ![w] = m]
         /\ wpc' = [wpc EXCEPT ![w] = "claimed"]
    /\ UNCHANGED <<wbatch, tmembers, tmatch, tattempts, tdue, matchVars, serverVars, events>>

(***************************************************************************)
(* claim: all tickets of the batch become 'matching', or the transaction   *)
(* is rolled back and RunOnce returns.  The match ID is drawn right after. *)
(***************************************************************************)
Claim(w) ==
    /\ wpc[w] = "selected"
    /\ \A t \in wbatch[w] : Claimable(t)
    /\ tstatus' = [t \in Tickets |-> IF t \in wbatch[w] THEN "matching" ELSE tstatus[t]]
    /\ \/ \E m \in Matches :
            /\ Fresh(m)
            /\ wmatch' = [wmatch EXCEPT ![w] = m]
            /\ wpc' = [wpc EXCEPT ![w] = "claimed"]
            /\ UNCHANGED wbatch
       \/ Lost /\ Return(w)
    /\ UNCHANGED <<tmembers, tmatch, tattempts, tdue, matchVars, serverVars, events>>

ClaimRefused(w) ==
    /\ wpc[w] = "selected"
    /\ \E t \in wbatch[w] : ~Claimable(t)
    /\ Return(w)
    /\ UNCHANGED <<ticketVars, matchVars, serverVars, events>>

\* newID, serverClaimToken or selector.Validate fails: on to setTicketStatus.
PrepareFails(w) ==
    /\ wpc[w] = "claimed"
    /\ Goto(w, "giveUp")
    /\ UNCHANGED <<ticketVars, matchVars, serverVars, events>>

(***************************************************************************)
(* Allocator.Allocate, outside any transaction.  The allocation metadata   *)
(* tells the server its match before the match row exists.                 *)
(***************************************************************************)
Allocate(w) ==
    /\ wpc[w] = "claimed"
    /\ server' = [server EXCEPT ![wmatch[w]] = "assigned"]
    /\ Goto(w, "allocated") \/ (Lost /\ Goto(w, "allocFailed"))
    /\ UNCHANGED <<ticketVars, matchVars, expired, events>>

AllocateFails(w) ==
    /\ wpc[w] = "claimed"
    /\ Goto(w, "allocFailed")
    /\ UNCHANGED <<ticketVars, matchVars, serverVars, events>>

\* Mutant of AllocationFailureStatus: one attempt too many.
OneMoreAttempt(attempts) == IF attempts >= MaxAttempts THEN "expired" ELSE "queued"

AllocationFailureStatus(attempts) == IF attempts + 1 >= MaxAttempts THEN "expired" ELSE "queued"

RecordAllocationFailure(w) ==
    /\ wpc[w] = "allocFailed"
    /\ LET hit == {t \in wbatch[w] : tstatus[t] = "matching"}
       IN /\ tattempts' = [t \in Tickets |-> IF t \in hit THEN tattempts[t] + 1 ELSE tattempts[t]]
          /\ tstatus' = [t \in Tickets |-> IF t \in hit THEN AllocationFailureStatus(tattempts[t])
                                                        ELSE tstatus[t]]
    /\ Return(w)
    /\ UNCHANGED <<tmembers, tmatch, tdue, matchVars, serverVars, events>>

\* The primary key of roster_members refuses a player who is seated twice.
RosterInsertable(batch) ==
    \A t1, t2 \in batch : t1 # t2 => tmembers[t1] \cap tmembers[t2] = {}

\* MatchStore.Create: the match in state Matched and its roster, one transaction.
CreateMatch(w) ==
    LET m == wmatch[w] IN
    /\ wpc[w] = "allocated"
    /\ RosterInsertable(wbatch[w])
    /\ mstate' = [mstate EXCEPT ![m] = "Matched"]
    /\ mroster' = [mroster EXCEPT ![m] = UNION {tmembers[t] : t \in wbatch[w]}]
    /\ mstale' = [mstale EXCEPT ![m] = FALSE]
    /\ mbatch' = [mbatch EXCEPT ![m] = wbatch[w]]
    /\ Goto(w, "created") \/ (Lost /\ Goto(w, "giveUp"))
    /\ UNCHANGED <<late, ticketVars, serverVars, events>>

CreateMatchFails(w) ==
    /\ wpc[w] = "allocated"
    /\ DbError \/ ~RosterInsertable(wbatch[w])
    /\ Goto(w, "giveUp")
    /\ UNCHANGED <<ticketVars, matchVars, serverVars, events>>

\* An UPDATE of match.matches that also sets updated_at=now().
SetMatchState(m, state) ==
    /\ mstate' = [mstate EXCEPT ![m] = state]
    /\ mstale' = [mstale EXCEPT ![m] = FALSE]
    /\ late' = late \ {m}
    /\ UNCHANGED <<mroster, mbatch>>

MarkAllocating(w) ==
    /\ wpc[w] = "created"
    /\ mstate[wmatch[w]] = "Matched"
    /\ SetMatchState(wmatch[w], "Allocating")
    /\ Goto(w, "allocating") \/ (Lost /\ Goto(w, "giveUp"))
    /\ UNCHANGED <<ticketVars, serverVars, events>>

MarkAllocatingFails(w) ==
    /\ wpc[w] = "created"
    /\ DbError
    /\ Goto(w, "giveUp")
    /\ UNCHANGED <<ticketVars, matchVars, serverVars, events>>

\* Mutant of FinishBatch: forgets to write match_id.
FinishWithoutMatch(w) ==
    /\ wpc[w] = "allocating"
    /\ SetTicketStatus(w, "matched")
    /\ Return(w)
    /\ UNCHANGED <<tmembers, tmatch, tattempts, tdue, matchVars, serverVars, events>>

\* The last UPDATE of RunOnce; both its outcomes return.
FinishBatch(w) ==
    /\ wpc[w] = "allocating"
    /\ SetTicketStatus(w, "matched")
    /\ tmatch' = [t \in Tickets |->
                    IF t \in wbatch[w] /\ tstatus[t] = "matching" THEN wmatch[w] ELSE tmatch[t]]
    /\ Return(w)
    /\ UNCHANGED <<tmembers, tattempts, tdue, matchVars, serverVars, events>>

\* Mutant of Requeue: an error path that returns without releasing the batch.
ForgetBatch(w) ==
    /\ wpc[w] = "giveUp"
    /\ Return(w)
    /\ UNCHANGED <<ticketVars, matchVars, serverVars, events>>

\* setTicketStatus(ids, "queued") on an error path.
Requeue(w) ==
    /\ wpc[w] = "giveUp"
    /\ SetTicketStatus(w, "queued")
    /\ Return(w)
    /\ UNCHANGED <<tmembers, tmatch, tattempts, tdue, matchVars, serverVars, events>>

\* Mutant of StatementFails: the error of the last UPDATE requeues the batch as well.
RequeueOnAnyFailure(w) ==
    /\ DbError
    /\ \/ wpc[w] \in {"selected", "allocFailed", "giveUp"} /\ Return(w)
       \/ wpc[w] = "allocating" /\ Goto(w, "giveUp")
    /\ UNCHANGED <<ticketVars, matchVars, serverVars, events>>

(***************************************************************************)
(* A statement whose error RunOnce ignores or only returns: claim,         *)
(* recordAllocationFailure, setTicketStatus and the last UPDATE.           *)
(***************************************************************************)
StatementFails(w) ==
    /\ DbError
    /\ wpc[w] \in {"selected", "allocFailed", "giveUp", "allocating"}
    /\ Return(w)
    /\ UNCHANGED <<ticketVars, matchVars, serverVars, events>>

\* The process dies; main starts the next RunOnce from nothing.
Crash(w) ==
    /\ "crash" \in Faults
    /\ wpc[w] # "idle"
    /\ Return(w)
    /\ UNCHANGED <<ticketVars, matchVars, serverVars, events>>

-----------------------------------------------------------------------------
(* The dedicated server and its callbacks *)

(***************************************************************************)
(* watchAssignment reports ready every 500 ms until the report is accepted,*)
(* and only then starts the heartbeats.  MarkReady wants Allocating.       *)
(***************************************************************************)
MarkReady(m) ==
    /\ server[m] = "assigned" /\ Verified(m)
    /\ mstate[m] = "Allocating"
    /\ SetMatchState(m, "Ready")
    /\ \/ server' = [server EXCEPT ![m] = "serving"]
       \/ Lost /\ UNCHANGED server
    /\ UNCHANGED <<ticketVars, workerVars, expired, events>>

\* An admitted join makes the server call start; StartRunning is idempotent.
StartRunning(m) ==
    /\ Verified(m)
    /\ mstate[m] \in {"Ready", "Running"}
    /\ SetMatchState(m, "Running")
    /\ UNCHANGED <<ticketVars, workerVars, serverVars, events>>

\* Mutant of Heartbeat: it is acknowledged, and updated_at stays as it is.
HeartbeatUnstored(m) ==
    /\ Heartbeating(m)
    /\ late' = late \ {m}
    /\ UNCHANGED <<mstate, mroster, mstale, mbatch, ticketVars, workerVars, serverVars, events>>

\* The endpoint's UPDATE of updated_at: the match is no longer stale.
Heartbeat(m) ==
    /\ Heartbeating(m)
    /\ mstale' = [mstale EXCEPT ![m] = FALSE]
    /\ late' = late \ {m}
    /\ UNCHANGED <<mstate, mroster, mbatch, ticketVars, workerVars, serverVars, events>>

(***************************************************************************)
(* An accepted result completes the match in one transaction.  Sequences,  *)
(* digests and rewards are the subject of a module of their own.           *)
(***************************************************************************)
SubmitResult(m) ==
    /\ Verified(m)
    /\ mstate[m] = "Running"
    /\ SetMatchState(m, "Completed")
    /\ events' = events \cup {<<"match.completed.v1", m>>}
    /\ UNCHANGED <<ticketVars, workerVars, serverVars>>

\* Once its result is acknowledged the server asks Agones to shut it down.
Shutdown(m) ==
    /\ Alive(m) /\ mstate[m] \in {"Completed", "Disputed"}
    /\ server' = [server EXCEPT ![m] = "gone"]
    /\ UNCHANGED <<ticketVars, matchVars, workerVars, expired, events>>

\* A second result with another digest: RecordResultConflict.
RecordResultConflict(m) ==
    /\ Verified(m)
    /\ mstate[m] = "Completed"
    /\ SetMatchState(m, "Disputed")
    /\ UNCHANGED <<ticketVars, workerVars, serverVars, events>>

ServerCrash(m) ==
    /\ "serverCrash" \in Faults
    /\ Alive(m)
    /\ server' = [server EXCEPT ![m] = "gone"]
    /\ UNCHANGED <<ticketVars, matchVars, workerVars, expired, events>>

\* The claim is signed once, before the allocation, for SERVER_CLAIM_TTL_SECONDS, and never
\* renewed: a match that lasts longer goes on with a server that nobody believes.
TokenExpires(m) ==
    /\ Alive(m) /\ m \notin expired
    /\ expired' = expired \cup {m}
    /\ UNCHANGED <<ticketVars, matchVars, workerVars, server, events>>

\* match.abandon of a roster member.
Abandon(m) ==
    /\ mstate[m] \in {"Ready", "Running"}
    /\ mroster[m] # {}
    /\ SetMatchState(m, "Abandoned")
    /\ UNCHANGED <<ticketVars, workerVars, serverVars, events>>

-----------------------------------------------------------------------------
(* The reconciliation worker *)

\* No update of the match for the whole timeout of its state, and none to come.
GoStale(m) ==
    /\ mstate[m] \in {"Allocating", "Running"} /\ ~mstale[m]
    /\ ~Heartbeating(m)
    /\ mstale' = [mstale EXCEPT ![m] = TRUE]
    /\ UNCHANGED <<mstate, mroster, mbatch, late, ticketVars, workerVars, serverVars, events>>

(***************************************************************************)
(* The cutoff overtakes a server that does send heartbeats: the simulator  *)
(* only logs those that fail, so several may be lost or slow in a row.     *)
(***************************************************************************)
HeartbeatsLate(m) ==
    /\ mstate[m] = "Running" /\ ~mstale[m]
    /\ Heartbeating(m)
    /\ mstale' = [mstale EXCEPT ![m] = TRUE]
    /\ late' = late \cup {m}
    /\ UNCHANGED <<mstate, mroster, mbatch, ticketVars, workerVars, serverVars, events>>

\* One recovery transaction: the stale matches, their matched tickets, the events.
Recover(from, to, event) ==
    LET stale == {m \in Matches : mstate[m] = from /\ mstale[m]} IN
    /\ stale # {}
    /\ mstate' = [m \in Matches |-> IF m \in stale THEN to ELSE mstate[m]]
    /\ mstale' = [m \in Matches |-> IF m \in stale THEN FALSE ELSE mstale[m]]
    /\ late' = late \ stale
    /\ tstatus' = [t \in Tickets |->
                     IF tstatus[t] = "matched" /\ tmatch[t] \in stale THEN "expired" ELSE tstatus[t]]
    /\ events' = events \cup {<<event, m>> : m \in stale}
    /\ UNCHANGED <<tmembers, tmatch, tattempts, tdue, mroster, mbatch, workerVars, serverVars>>

\* Mutants of the two recoveries: each scans for the wrong state.
RecoverStaleMatched == Recover("Matched", "Failed", "match.failed.v1")
RecoverStaleReady == Recover("Ready", "Abandoned", "match.abandoned.v1")

RecoverStaleAllocations == Recover("Allocating", "Failed", "match.failed.v1")

RecoverStaleRunningMatches == Recover("Running", "Abandoned", "match.abandoned.v1")

-----------------------------------------------------------------------------
(* Specification *)

Player ==
    \E t \in Tickets :
      \/ \E p \in Players : Create(t, p)
      \/ \E party \in Parties : CreateTx(t, party)
      \/ Cancel(t)
      \/ TicketDue(t)

\* The steps of RunOnce once a batch is selected, the failing answers included.
RunOnce(w) ==
    \/ Claim(w) \/ ClaimRefused(w)
    \/ PrepareFails(w) \/ Allocate(w) \/ AllocateFails(w)
    \/ RecordAllocationFailure(w)
    \/ CreateMatch(w) \/ CreateMatchFails(w)
    \/ MarkAllocating(w) \/ MarkAllocatingFails(w)
    \/ FinishBatch(w) \/ Requeue(w)

WorkerFault(w) == StatementFails(w) \/ Crash(w)

Server(m) ==
    \/ MarkReady(m) \/ StartRunning(m) \/ Heartbeat(m)
    \/ SubmitResult(m) \/ RecordResultConflict(m) \/ Shutdown(m)
    \/ ServerCrash(m) \/ TokenExpires(m)

Reconciler ==
    RecoverStaleAllocations \/ RecoverStaleRunningMatches

Next ==
    \/ Player
    \/ \E w \in Workers : SelectBatch(w) \/ RunOnce(w) \/ WorkerFault(w)
    \/ \E m \in Matches : Server(m) \/ Abandon(m) \/ GoStale(m) \/ HeartbeatsLate(m)
    \/ Reconciler

Spec == Init /\ [][Next]_vars

(***************************************************************************)
(* A running replica executes its next statement, time passes, and the     *)
(* reconciler runs every RECONCILIATION_INTERVAL_SECONDS.  Players,        *)
(* servers and the selection of a batch owe nothing.                       *)
(***************************************************************************)
Fairness ==
    /\ \A w \in Workers : WF_vars(RunOnce(w))
    /\ \A m \in Matches : WF_vars(GoStale(m))
    /\ WF_vars(RecoverStaleAllocations)
    /\ WF_vars(RecoverStaleRunningMatches)

FairSpec == Spec /\ Fairness

-----------------------------------------------------------------------------
(* Properties *)

\* Every variable has the type of its column or local variable.
TypeOK ==
    /\ tstatus \in [Tickets -> TicketStatus]
    /\ tmembers \in [Tickets -> SUBSET Players]
    /\ tmatch \in [Tickets -> Matches \cup {NoMatch}]
    /\ tattempts \in [Tickets -> Nat]
    /\ tdue \in [Tickets -> BOOLEAN]
    /\ mstate \in [Matches -> MatchState]
    /\ mroster \in [Matches -> SUBSET Players]
    /\ mstale \in [Matches -> BOOLEAN]
    /\ mbatch \in [Matches -> SUBSET Tickets]
    /\ late \in SUBSET Matches
    /\ wpc \in [Workers -> WorkerPC]
    /\ wbatch \in [Workers -> SUBSET Tickets]
    /\ wmatch \in [Workers -> Matches \cup {NoMatch}]
    /\ server \in [Matches -> ServerState]
    /\ expired \in SUBSET Matches
    /\ events \in SUBSET (MatchEvents \X Matches)

(***************************************************************************)
(* claim is the only mutual exclusion between worker replicas.  From claim *)
(* to the last statement of RunOnce the batch belongs to one replica: its  *)
(* tickets stay 'matching' whatever players, servers, the reconciler and   *)
(* the other replicas do, and no other replica owns any of them.           *)
(***************************************************************************)
ClaimedTicketsAreOwned ==
    \A w \in Workers : wpc[w] \in Owning =>
        /\ \A t \in wbatch[w] : tstatus[t] = "matching"
        /\ \A v \in Workers \ {w} : wpc[v] \in Owning => wbatch[v] \cap wbatch[w] = {}

(***************************************************************************)
(* A player polls a matched ticket for its match ID.  That match exists,   *)
(* has left Matched, was made from this ticket and seats all its members.  *)
(***************************************************************************)
MatchedTicketIsSeated ==
    \A t \in Tickets : tstatus[t] = "matched" =>
        /\ tmatch[t] \in Matches
        /\ mstate[tmatch[t]] \notin {"None", "Matched"}
        /\ t \in mbatch[tmatch[t]]
        /\ tmembers[t] \subseteq mroster[tmatch[t]]

\* The match has reached a server: it may become, or has become, playable.
Launched(m) == mstate[m] \notin {"None", "Matched"}

(***************************************************************************)
(* However often allocation fails, the error paths of RunOnce requeue the  *)
(* tickets, or replicas race, no ticket launches two matches.              *)
(***************************************************************************)
OneLaunchPerTicket ==
    \A m1, m2 \in Matches :
        m1 # m2 /\ Launched(m1) /\ Launched(m2) => mbatch[m1] \cap mbatch[m2] = {}

(***************************************************************************)
(* TestWorkerExpiresTicketsAfterAllocationRetries: a ticket leaves the     *)
(* queue for good at the attempt that reaches MaxAttempts, never later.    *)
(***************************************************************************)
RetriesAreBounded ==
    \A t \in Tickets :
        /\ tattempts[t] <= MaxAttempts
        /\ tattempts[t] = MaxAttempts => tstatus[t] = "expired"

(***************************************************************************)
(* A ticket that was cancelled or has expired is never used again, and a   *)
(* matched one can only expire and keeps its match.                        *)
(***************************************************************************)
SettledTicketsStaySettled ==
    [][\A t \in Tickets :
         /\ tstatus[t] \in {"cancelled", "expired"} => tstatus'[t] = tstatus[t]
         /\ tstatus[t] = "matched" =>
              tstatus'[t] \in {"matched", "expired"} /\ tmatch'[t] = tmatch[t]]_vars

\* Why nothing is heard of a server: it is gone, the answer to its ready report was lost and it
\* never began, its claim has run out, or its heartbeats are late and none has landed since.
Silent(m) ==
    \/ ~Alive(m)
    \/ Lost /\ server[m] = "assigned"
    \/ m \in expired
    \/ m \in late

(***************************************************************************)
(* README: the reconciler abandons Running matches "when authenticated     *)
(* server heartbeats stop".  A timeout takes no match from a server whose  *)
(* heartbeats land: not while the match is Ready or starts running, and    *)
(* not if a late heartbeat lands before the UPDATE of the reconciler.      *)
(* Being alive does not save a match: its server may be silent.            *)
(***************************************************************************)
OnlySilentServersTimeOut ==
    [][\A m \in Matches :
         <<"match.abandoned.v1", m>> \in events' \ events => Silent(m)]_vars

(***************************************************************************)
(* RunOnce gives back every ticket it claims: a ticket does not stay       *)
(* 'matching'.                                                             *)
(***************************************************************************)
ClaimIsResolved ==
    \A t \in Tickets : tstatus[t] = "matching" ~> tstatus[t] # "matching"

\* A match that waits for its server is settled by the server or the reconciler.
AllocationIsResolved ==
    \A m \in Matches : mstate[m] = "Allocating" ~> mstate[m] # "Allocating"

\* A running match whose server died does not run forever.
DeadServerIsNoticed ==
    \A m \in Matches :
        mstate[m] = "Running" /\ server[m] = "gone" ~> mstate[m] # "Running"

-----------------------------------------------------------------------------
(* What the documentation says and the code does not do *)

(***************************************************************************)
(* RecoverStaleAllocations "prevents a failed server bootstrap from        *)
(* leaving players permanently matched".                                   *)
(***************************************************************************)
FailedMatchHoldsNoTicket ==
    \A t \in Tickets : tstatus[t] = "matched" => mstate[tmatch[t]] # "Failed"
=============================================================================
