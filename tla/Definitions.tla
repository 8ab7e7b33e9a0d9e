---------------------------- MODULE Definitions ----------------------------
(***************************************************************************)
(* Publication, approval and activation of the definitions of one game     *)
(* (internal/definitions, the admin endpoints of cmd/control-api).         *)
(*                                                                         *)
(* A request runs as a handler of the Control API.  One action is one      *)
(* committed transaction, or one statement of a transaction where another  *)
(* one can come between: under READ COMMITTED every statement reads what   *)
(* is committed when it starts, and waits for rows another one wrote.      *)
(* A definition is abstracted to its body; its digest also covers the      *)
(* revision number, so two revisions never have the same digest.           *)
(* The rollback endpoint and command differ from those of activate in the  *)
(* name in the audit record only, and are the same action here.            *)
(***************************************************************************)
EXTENDS Naturals, FiniteSets

CONSTANTS
    Revisions,
    Bodies,       \* what the compiler accepts: digests of canonical bodies
    Environments,
    Production,   \* those for which requiresFourEyes holds
    Actors,       \* operators with every definition scope
    Handlers,     \* requests served at the same time
    MaxRequests,  \* bound: requests ever begun
    None          \* SQL NULL, no row

Statuses == {"published", "activated", "superseded"}

ASSUME DefinitionsConstants ==
    /\ Production \subseteq Environments
    /\ MaxRequests \in Nat
    /\ None \notin Revisions /\ None \notin Bodies
    /\ None \notin Actors /\ None \notin Environments /\ None \notin Statuses

VARIABLES
    status,     \* definition_revisions.status, None without a row
    body,       \* what the row's digest is of
    approvals,  \* definition_approvals: by request, whose order is that of created_at
    active,     \* definition_activations: [rev, by] per environment
    clock,      \* requests begun so far: now() of their transactions
    handler,    \* the request each handler works on
    published,  \* history: <<revision, body>> answered with 201
    activated,  \* history: the audit records of activations
    latest,     \* history: the revision of the last activation
    overlapped  \* history: two activations have run at the same time

rows == <<status, body, approvals, active>>
history == <<published, activated, latest, overlapped>>
vars == <<rows, clock, handler, history>>

Requests == 1..MaxRequests

Labels == {"idle", "insert", "approve", "answer", "select", "scan", "supersede", "commit"}

\* now: the request's transaction; seen: the approval it read, 0 for none; targets, locked: the
\* revisions the first UPDATE found and wrote.
Job == [pc : Labels, via : {"http", "command"}, actor : Actors \cup {None},
        env : Environments \cup {None}, rev : Revisions \cup {None}, body : Bodies \cup {None},
        now : 0..MaxRequests, seen : 0..MaxRequests,
        targets : SUBSET Revisions, locked : SUBSET Revisions]

Idle == [pc |-> "idle", via |-> "http", actor |-> None, env |-> None, rev |-> None, body |-> None,
         now |-> 0, seen |-> 0, targets |-> {}, locked |-> {}]

\* A row of definition_approvals: approver is None while it is pending.
ApprovalRow == [by : Actors \cup {None}, approver : Actors \cup {None},
                env : Environments \cup {None}, rev : Revisions \cup {None}, body : Bodies \cup {None}]

NoApproval == [by |-> None, approver |-> None, env |-> None, rev |-> None, body |-> None]

Init ==
    /\ status = [r \in Revisions |-> None]
    /\ body = [r \in Revisions |-> None]
    /\ approvals = [i \in Requests |-> NoApproval]
    /\ active = [e \in Environments |-> [rev |-> None, by |-> None]]
    /\ clock = 0
    /\ handler = [h \in Handlers |-> Idle]
    /\ published = {} /\ activated = {} /\ latest = None /\ overlapped = FALSE

Goto(h, label) == handler' = [handler EXCEPT ![h].pc = label]
Finish(h) == handler' = [handler EXCEPT ![h] = Idle]
Begin(h) == handler[h] = Idle /\ clock < MaxRequests /\ clock' = clock + 1

-----------------------------------------------------------------------------
(* Publish, publishTx *)

\* Mutant of Accepts: the digests of an existing row and of the report are not compared.
AcceptsAny(r, b) == TRUE

\* INSERT ... ON CONFLICT DO NOTHING, then ErrImmutableConflict unless it is the same definition.
Accepts(r, b) == body[r] \in {None, b}

InsertRevision(h, r, b) ==
    /\ Begin(h)
    /\ Accepts(r, b)
    /\ body' = [body EXCEPT ![r] = IF @ = None THEN b ELSE @]
    /\ status' = [status EXCEPT ![r] = IF @ = None THEN "published" ELSE @]
    /\ published' = published \cup {<<r, b>>}
    /\ UNCHANGED <<approvals, active, handler, activated, latest, overlapped>>

\* The command definition.publish; a refusal is stored as the command's result.
CommandPublish(h, r, b) == InsertRevision(h, r, b)

\* The endpoint compiles the source and calls Store.Publish.
Publish(h, r, b) == InsertRevision(h, r, b)

-----------------------------------------------------------------------------
(* RequestOrApprove *)

Of(e, r) == {i \in Requests : approvals[i].by # None /\ approvals[i].env = e /\ approvals[i].rev = r}
Pending(i) == approvals[i].approver = None

\* ORDER BY created_at DESC LIMIT 1, 0 when there is no row.
LatestApproval(e, r) ==
    IF Of(e, r) = {} THEN 0 ELSE CHOOSE i \in Of(e, r) : \A j \in Of(e, r) : j <= i

\* The two SELECTs: the revision, and the latest approval as it is now.
ReadApproval(h, a, e, r) ==
    /\ Begin(h)
    /\ status[r] \in {"published", "activated"}
    /\ LET i == LatestApproval(e, r)
       IN handler' = [handler EXCEPT ![h] =
            [Idle EXCEPT !.pc = IF i = 0 THEN "insert" ELSE IF Pending(i) THEN "approve" ELSE "answer",
                         !.actor = a, !.env = e, !.rev = r, !.body = body[r],
                         !.now = clock + 1, !.seen = i]]
    /\ UNCHANGED <<rows, history>>

\* INSERT a pending row; definition_approvals_pending_key allows one.
InsertApproval(h) ==
    LET q == handler[h]
    IN /\ q.pc = "insert"
       /\ IF \E i \in Of(q.env, q.rev) : Pending(i)
          THEN UNCHANGED approvals
          ELSE approvals' = [approvals EXCEPT ![q.now] =
                 [by |-> q.actor, approver |-> None, env |-> q.env, rev |-> q.rev, body |-> q.body]]
       /\ Finish(h)
       /\ UNCHANGED <<status, body, active, clock, history>>

\* Mutant of ApproveRow: an update of whatever the row has become.
ReapproveRow(h) ==
    LET q == handler[h]
    IN /\ q.pc = "approve"
       /\ approvals' = IF approvals[q.seen].by = q.actor THEN approvals
                       ELSE [approvals EXCEPT ![q.seen].approver = q.actor]
       /\ Finish(h)
       /\ UNCHANGED <<status, body, active, clock, history>>

\* UPDATE ... WHERE status='pending', unless the requester is the one who asks.
ApproveRow(h) ==
    LET q == handler[h]
    IN /\ q.pc = "approve"
       /\ approvals' = IF approvals[q.seen].by = q.actor THEN approvals
                       ELSE [approvals EXCEPT ![q.seen].approver = IF @ = None THEN q.actor ELSE @]
       /\ Finish(h)
       /\ UNCHANGED <<status, body, active, clock, history>>

\* An approved row is returned as it is.
AnswerApproved(h) ==
    /\ handler[h].pc = "answer"
    /\ Finish(h)
    /\ UNCHANGED <<rows, clock, history>>

-----------------------------------------------------------------------------
(* Activation and rollback *)

StartActivation(h, a, e, r, via) ==
    handler' = [handler EXCEPT ![h] =
        [Idle EXCEPT !.pc = "select", !.via = via, !.actor = a, !.env = e, !.rev = r]]

HasApprovedActivation(a, e, r) ==
    \E i \in Of(e, r) : approvals[i].approver \notin {None, a} /\ approvals[i].body = body[r]

\* The endpoints: in production the approval is read before the transaction begins.
HTTPActivate(h, a, e, r) ==
    /\ Begin(h)
    /\ e \in Production => HasApprovedActivation(a, e, r)
    /\ StartActivation(h, a, e, r, "http")
    /\ UNCHANGED <<rows, history>>

\* The commands definition.activate and definition.rollback of an admin.
CommandActivate(h, a, e, r) ==
    /\ Begin(h)
    /\ StartActivation(h, a, e, r, "command")
    /\ UNCHANGED <<rows, history>>

\* ActivateTx also takes a superseded revision, setActive does not.
Activatable(via) == {"published", "activated"} \cup (IF via = "command" THEN {"superseded"} ELSE {})

\* Mutant of SelectRevision: the revision need not exist.
SelectAny(h) == handler[h].pc = "select" /\ Goto(h, "scan") /\ UNCHANGED <<rows, clock, history>>

SelectRevision(h) ==
    LET q == handler[h]
    IN /\ q.pc = "select"
       /\ IF status[q.rev] \in Activatable(q.via) THEN Goto(h, "scan") ELSE Finish(h)
       /\ UNCHANGED <<rows, clock, history>>

\* Mutant of ScanActivated: only what this environment runs is superseded.
ScanEnvironment(h) ==
    LET q == handler[h]
    IN /\ q.pc = "scan"
       /\ handler' = [handler EXCEPT ![h].pc = "supersede",
                        ![h].targets = {r \in Revisions \ {q.rev} : active[q.env].rev = r}]
       /\ overlapped' = (overlapped \/ \E g \in Handlers : handler[g].pc \in {"supersede", "commit"})
       /\ UNCHANGED <<rows, clock, published, activated, latest>>

\* The UPDATE of the other revisions finds its rows in the snapshot it starts with ...
ScanActivated(h) ==
    LET q == handler[h]
    IN /\ q.pc = "scan"
       /\ handler' = [handler EXCEPT ![h].pc = "supersede",
                        ![h].targets = {r \in Revisions \ {q.rev} : status[r] = "activated"}]
       /\ overlapped' = (overlapped \/ \E g \in Handlers : handler[g].pc \in {"supersede", "commit"})
       /\ UNCHANGED <<rows, clock, published, activated, latest>>

\* No other transaction has written these rows and not ended yet.
Free(h, revs) == \A g \in Handlers \ {h} : handler[g].locked \cap revs = {}

\* ... waits until they are free, and writes those that still match.
Supersede(h) ==
    LET q == handler[h]
    IN /\ q.pc = "supersede"
       /\ Free(h, q.targets)
       /\ handler' = [handler EXCEPT ![h].pc = "commit",
                        ![h].locked = {r \in q.targets : status[r] = "activated"}]
       /\ UNCHANGED <<rows, clock, history>>

Record(q) == [actor |-> q.actor, env |-> q.env, rev |-> q.rev, body |-> body[q.rev], via |-> q.via]

\* Mutant of CommitActivation: the upsert keeps who activated before.
CommitKeepingActor(h) ==
    LET q == handler[h]
    IN /\ q.pc = "commit"
       /\ Free(h, {q.rev})
       /\ status' = [r \in Revisions |-> IF r = q.rev THEN "activated"
                                         ELSE IF r \in q.locked THEN "superseded" ELSE status[r]]
       /\ active' = [active EXCEPT ![q.env] = [@ EXCEPT !.rev = q.rev]]
       /\ activated' = activated \cup {Record(q)}
       /\ latest' = q.rev
       /\ Finish(h)
       /\ UNCHANGED <<body, approvals, clock, published, overlapped>>

\* The UPDATE of the revision, the upsert of the activation, the audit record and the commit.
CommitActivation(h) ==
    LET q == handler[h]
    IN /\ q.pc = "commit"
       /\ Free(h, {q.rev})
       /\ status' = [r \in Revisions |-> IF r = q.rev THEN "activated"
                                         ELSE IF r \in q.locked THEN "superseded" ELSE status[r]]
       /\ active' = [active EXCEPT ![q.env] = [rev |-> q.rev, by |-> q.actor]]
       /\ activated' = activated \cup {Record(q)}
       /\ latest' = q.rev
       /\ Finish(h)
       /\ UNCHANGED <<body, approvals, clock, published, overlapped>>

\* A statement fails, the client goes away or a deadlock is broken: ROLLBACK.
Abort(h) ==
    /\ handler[h] # Idle
    /\ Finish(h)
    /\ UNCHANGED <<rows, clock, history>>

-----------------------------------------------------------------------------
Approval(h) ==
    \/ \E a \in Actors, e \in Environments, r \in Revisions : ReadApproval(h, a, e, r)
    \/ InsertApproval(h) \/ ApproveRow(h) \/ AnswerApproved(h)

Activation(h) ==
    \/ \E a \in Actors, e \in Environments, r \in Revisions :
         HTTPActivate(h, a, e, r) \/ CommandActivate(h, a, e, r)
    \/ SelectRevision(h) \/ ScanActivated(h) \/ Supersede(h) \/ CommitActivation(h)

Next ==
    \E h \in Handlers :
        \/ \E r \in Revisions, b \in Bodies : Publish(h, r, b) \/ CommandPublish(h, r, b)
        \/ Approval(h) \/ Activation(h) \/ Abort(h)

Spec == Init /\ [][Next]_vars

-----------------------------------------------------------------------------
(* Properties *)

\* Every variable has the type of its column or local variable.
TypeOK ==
    /\ status \in [Revisions -> Statuses \cup {None}]
    /\ body \in [Revisions -> Bodies \cup {None}]
    /\ approvals \in [Requests -> ApprovalRow]
    /\ active \in [Environments -> [rev : Revisions \cup {None}, by : Actors \cup {None}]]
    /\ clock \in 0..MaxRequests
    /\ handler \in [Handlers -> Job]
    /\ published \subseteq Revisions \X Bodies
    /\ activated \subseteq [actor : Actors, env : Environments, rev : Revisions,
                            body : Bodies, via : {"http", "command"}]
    /\ latest \in Revisions \cup {None}
    /\ overlapped \in BOOLEAN

(***************************************************************************)
(* "Immutable": a revision that was answered as published with a digest    *)
(* has that digest forever, whoever else publishes the same revision.      *)
(***************************************************************************)
PublicationIsFinal == \A p \in published : body[p[1]] = p[2]

\* Two people stand behind the activation x: one asked, another one approved what was activated,
\* and the one who approved is not the one who activated.
TwoActorsBehind(x) ==
    \E i \in Of(x.env, x.rev) :
        /\ approvals[i].approver \notin {None, approvals[i].by, x.actor}
        /\ approvals[i].body = x.body

(***************************************************************************)
(* README: "one actor creates the approval and a different actor approves  *)
(* the same game, environment, revision, and digest".  True of what the    *)
(* production endpoints activate, although the approval is read before the *)
(* transaction begins and approvers race each other and publications.      *)
(***************************************************************************)
EndpointsNeedTwoActors ==
    \A x \in activated : x.env \in Production /\ x.via = "http" => TwoActorsBehind(x)

(***************************************************************************)
(* While activations do not overlap, the revision activated last, and no   *)
(* other, is activated, although every environment shares the column.      *)
(* When they overlap each can miss the other's row and both stay.          *)
(***************************************************************************)
OneActivatedUnlessOverlapped ==
    ~overlapped => \A r \in Revisions : (status[r] = "activated") <=> (r = latest)

(***************************************************************************)
(* What an environment runs was published, is what was audited for it, and *)
(* is not a revision that nobody activated.                                *)
(***************************************************************************)
ActiveIsAudited ==
    \A e \in Environments : active[e].rev # None =>
        \E x \in activated : x.env = e /\ x.rev = active[e].rev /\ x.actor = active[e].by
                            /\ x.body = body[x.rev]
=============================================================================
