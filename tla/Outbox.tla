------------------------------- MODULE Outbox -------------------------------
(***************************************************************************)
(* Delivery of ops.outbox_events (internal/outbox).                        *)
(*                                                                         *)
(* Two consumers run the same Worker on the same rows: cmd/outbox-worker   *)
(* ("stdout": EventType is empty, every event, progress in published_at)   *)
(* and cmd/leaderboard-worker ("leaderboard": one event type, progress in  *)
(* ops.delivery_checkpoints).  attempts, leased_until and dead_lettered_at *)
(* are columns of the event, shared by both.                               *)
(*                                                                         *)
(* One action is one committed statement or one call of the publisher.     *)
(* leased_until is abstracted to whether it still lies in the future.      *)
(***************************************************************************)
EXTENDS Naturals, FiniteSets

CONSTANTS
    Events,        \* event IDs: the bound on events ever appended
    ResultEvents,  \* those of type match.result.accepted.v1
    Workers,       \* replicas of both programs
    Consumer,      \* the Consumer name each replica is configured with
    BatchSize,
    MaxAttempts,
    Faults,        \* which failures may happen: see FaultKinds
    FaultBudget    \* how many of them, so that attempts stays finite

Consumers == {"stdout", "leaderboard"}

(***************************************************************************)
(* crash    a replica dies                                                 *)
(* dbError  a statement of deliver fails; its error is discarded           *)
(* slow     a replica is still delivering when its lease runs out          *)
(***************************************************************************)
FaultKinds == {"crash", "dbError", "slow"}

ASSUME OutboxConstants ==
    /\ ResultEvents \subseteq Events
    /\ IsFiniteSet(Workers)
    /\ Consumer \in [Workers -> Consumers]
    /\ BatchSize \in Nat \ {0}
    /\ MaxAttempts \in Nat \ {0}
    /\ Faults \subseteq FaultKinds
    /\ FaultBudget \in Nat

VARIABLES
    appended,     \* the rows of ops.outbox_events
    published,    \* published_at is set
    dead,         \* dead_lettered_at is set
    leased,       \* leased_until lies in the future
    attempts,     \* the column attempts
    checkpoints,  \* the rows <<consumer, event>> of ops.delivery_checkpoints
    wpc,          \* where the replica is in deliver
    wqueue,       \* the events of its batch it is not done with
    wcur,         \* the event it delivers, a subset of wqueue with at most one element
    wseen,        \* Event.Attempts as the claim returned it
    delivered,    \* history: accepted Publish calls per consumer and event
    failed,       \* history: failed Publish calls per consumer and event
    overrun,      \* history: events whose lease ran out in the hands of a replica
    budget        \* faults still allowed

rowVars == <<appended, published, dead, leased, attempts, checkpoints>>
workerVars == <<wpc, wqueue, wcur, wseen>>
history == <<delivered, failed, overrun>>
vars == <<rowVars, workerVars, history, budget>>

WorkerPC == {"next", "checkpoint", "settle", "fail"}

Init ==
    /\ appended = {} /\ published = {} /\ dead = {} /\ leased = {} /\ checkpoints = {}
    /\ attempts = [e \in Events |-> 0]
    /\ wpc = [w \in Workers |-> "next"]
    /\ wqueue = [w \in Workers |-> {}]
    /\ wcur = [w \in Workers |-> {}]
    /\ wseen = [w \in Workers |-> [e \in Events |-> 0]]
    /\ delivered = [c \in Consumers |-> [e \in Events |-> 0]]
    /\ failed = [c \in Consumers |-> [e \in Events |-> 0]]
    /\ overrun = {}
    /\ budget = FaultBudget

\* A domain transaction that appends the event commits.
Append(e) ==
    /\ e \notin appended
    /\ appended' = appended \cup {e}
    /\ UNCHANGED <<published, dead, leased, attempts, checkpoints, workerVars, history, budget>>

-----------------------------------------------------------------------------
(* RunOnce: the claim *)

Wants(c, e) == c = "stdout" \/ e \in ResultEvents

\* What tells a consumer that it is through with an event.
Done(c, e) == IF c = "stdout" THEN e \in published ELSE <<c, e>> \in checkpoints

\* Mutants of Claimable: a claim that forgets the lease; one that stops at MaxAttempts.
ClaimableLeased(c, e) == e \in appended \ dead /\ Wants(c, e) /\ ~Done(c, e)
ClaimableBelowMax(c, e) ==
    e \notin leased /\ attempts[e] < MaxAttempts /\ ClaimableLeased(c, e)

\* The WHERE clause of the claim.
Claimable(c, e) ==
    e \in appended \ dead /\ e \notin leased /\ Wants(c, e) /\ ~Done(c, e)

\* Mutant of Claim: the claim does not count an attempt.
ClaimUncounted(w) ==
    /\ wpc[w] = "next" /\ wqueue[w] = {}
    /\ \E batch \in SUBSET {e \in Events : Claimable(Consumer[w], e)} \ {{}} :
         /\ Cardinality(batch) <= BatchSize
         /\ leased' = leased \cup batch
         /\ wqueue' = [wqueue EXCEPT ![w] = batch]
         /\ wseen' = [wseen EXCEPT ![w] = attempts]
    /\ UNCHANGED <<appended, published, dead, attempts, checkpoints, wpc, wcur, history, budget>>

(***************************************************************************)
(* FOR UPDATE SKIP LOCKED LIMIT: rows locked by the claim of another       *)
(* replica are left out, so any part of the claimable rows may be taken.   *)
(***************************************************************************)
Claim(w) ==
    /\ wpc[w] = "next" /\ wqueue[w] = {}
    /\ \E batch \in SUBSET {e \in Events : Claimable(Consumer[w], e)} \ {{}} :
         /\ Cardinality(batch) <= BatchSize
         /\ leased' = leased \cup batch
         /\ attempts' = [e \in Events |-> IF e \in batch THEN attempts[e] + 1 ELSE attempts[e]]
         /\ wqueue' = [wqueue EXCEPT ![w] = batch]
         /\ wseen' = [wseen EXCEPT ![w] = attempts']
    /\ UNCHANGED <<appended, published, dead, checkpoints, wpc, wcur, history, budget>>

-----------------------------------------------------------------------------
(* deliver *)

Goto(w, label) == wpc' = [wpc EXCEPT ![w] = label]

\* deliver returns and the loop of RunOnce goes on.
DeliverReturns(w) ==
    /\ Goto(w, "next")
    /\ wqueue' = [wqueue EXCEPT ![w] = @ \ wcur[w]]
    /\ wcur' = [wcur EXCEPT ![w] = {}]
    /\ UNCHANGED wseen

Count(log, w, e) == [log EXCEPT ![Consumer[w]][e] = @ + 1]

\* Publisher.Publish accepts the event.
Publish(w, e) ==
    /\ wpc[w] = "next" /\ e \in wqueue[w]
    /\ delivered' = Count(delivered, w, e)
    /\ wcur' = [wcur EXCEPT ![w] = {e}]
    /\ Goto(w, "checkpoint")
    /\ UNCHANGED <<rowVars, wqueue, wseen, failed, overrun, budget>>

\* Publisher.Publish returns an error.
PublishFails(w, e) ==
    /\ wpc[w] = "next" /\ e \in wqueue[w]
    /\ failed' = Count(failed, w, e)
    /\ wcur' = [wcur EXCEPT ![w] = {e}]
    /\ Goto(w, "fail")
    /\ UNCHANGED <<rowVars, wqueue, wseen, delivered, overrun, budget>>

\* INSERT INTO ops.delivery_checkpoints ... ON CONFLICT DO NOTHING
InsertCheckpoint(w) ==
    /\ wpc[w] = "checkpoint"
    /\ checkpoints' = checkpoints \cup ({Consumer[w]} \X wcur[w])
    /\ Goto(w, "settle")
    /\ UNCHANGED <<appended, published, dead, leased, attempts, wqueue, wcur, wseen, history, budget>>

\* Mutant of Settle: any consumer marks the event as published.
SettleForAll(w) ==
    /\ wpc[w] = "settle"
    /\ published' = published \cup wcur[w]
    /\ leased' = leased \ wcur[w]
    /\ DeliverReturns(w)
    /\ UNCHANGED <<appended, dead, attempts, checkpoints, history, budget>>

\* The UPDATE after a delivery: only the unfiltered consumer sets published_at.
Settle(w) ==
    /\ wpc[w] = "settle"
    /\ published' = published \cup (IF Consumer[w] = "stdout" THEN wcur[w] ELSE {})
    /\ leased' = leased \ wcur[w]
    /\ DeliverReturns(w)
    /\ UNCHANGED <<appended, dead, attempts, checkpoints, history, budget>>

\* Mutant of Exhausted: one attempt too early.
ExhaustedEarly(w) == {e \in wcur[w] : wseen[w][e] + 1 >= MaxAttempts}

Exhausted(w) == {e \in wcur[w] : wseen[w][e] >= MaxAttempts}

\* The UPDATE after a failure: dead-letter the event or give it back.
Fail(w) ==
    /\ wpc[w] = "fail"
    /\ dead' = dead \cup Exhausted(w)
    /\ leased' = leased \ wcur[w]
    /\ DeliverReturns(w)
    /\ UNCHANGED <<appended, published, attempts, checkpoints, history, budget>>

-----------------------------------------------------------------------------
(* Faults and time *)

Spend(kind) == kind \in Faults /\ budget > 0 /\ budget' = budget - 1

\* The errors of the statements of deliver are discarded and it carries on.
StatementFails(w) ==
    /\ Spend("dbError")
    /\ \/ wpc[w] = "checkpoint" /\ Goto(w, "settle") /\ UNCHANGED <<wqueue, wcur, wseen>>
       \/ wpc[w] \in {"settle", "fail"} /\ DeliverReturns(w)
    /\ UNCHANGED <<rowVars, history>>

\* The process dies with its batch; its leases stay in the rows.
Crash(w) ==
    /\ Spend("crash")
    /\ wqueue[w] # {}
    /\ Goto(w, "next")
    /\ wqueue' = [wqueue EXCEPT ![w] = {}]
    /\ wcur' = [wcur EXCEPT ![w] = {}]
    /\ UNCHANGED <<wseen, rowVars, history>>

Held(e) == \E w \in Workers : e \in wqueue[w]

\* leased_until passes; under the replica that holds the event only if it is slow.
LeaseExpires(e) ==
    /\ e \in leased
    /\ IF Held(e) THEN Spend("slow") /\ overrun' = overrun \cup {e}
                  ELSE UNCHANGED <<budget, overrun>>
    /\ leased' = leased \ {e}
    /\ UNCHANGED <<appended, published, dead, attempts, checkpoints, workerVars, delivered, failed>>

Deliver(w) ==
    \/ \E e \in Events : Publish(w, e) \/ PublishFails(w, e)
    \/ InsertCheckpoint(w) \/ Settle(w) \/ Fail(w)

RunOnce(w) == Claim(w) \/ Deliver(w)

Next ==
    \/ \E e \in Events : Append(e) \/ LeaseExpires(e)
    \/ \E w \in Workers : RunOnce(w) \/ StatementFails(w) \/ Crash(w)

Spec == Init /\ [][Next]_vars

(***************************************************************************)
(* Both programs call RunOnce again and again, and time passes.  Nothing   *)
(* is assumed of the publisher: it may refuse an event every time.         *)
(***************************************************************************)
Fairness ==
    /\ \A w \in Workers : WF_vars(RunOnce(w))
    /\ \A e \in Events : WF_vars(LeaseExpires(e) /\ ~Held(e))

FairSpec == Spec /\ Fairness

-----------------------------------------------------------------------------
(* Properties *)

\* Every variable has the type of its column or local variable.
TypeOK ==
    /\ appended \subseteq Events /\ published \subseteq Events
    /\ dead \subseteq Events /\ leased \subseteq Events
    /\ attempts \in [Events -> Nat]
    /\ checkpoints \subseteq Consumers \X Events
    /\ wpc \in [Workers -> WorkerPC]
    /\ wqueue \in [Workers -> SUBSET Events]
    /\ wcur \in [Workers -> SUBSET Events]
    /\ wseen \in [Workers -> [Events -> Nat]]
    /\ delivered \in [Consumers -> [Events -> Nat]]
    /\ failed \in [Consumers -> [Events -> Nat]]
    /\ overrun \subseteq Events
    /\ budget \in Nat

(***************************************************************************)
(* At least once: published_at and checkpoints are the only record of      *)
(* progress, and neither is ever written for a consumer that has not had   *)
(* the event accepted, whichever statements fail and replicas die.         *)
(***************************************************************************)
NothingIsSkipped ==
    /\ \A e \in published : delivered["stdout"][e] > 0
    /\ \A c \in Consumers, e \in Events : <<c, e>> \in checkpoints => delivered[c][e] > 0

(***************************************************************************)
(* "Use leases, and record attempts": every call of a publisher, of either *)
(* consumer, is paid for by an attempt recorded before it, so a crash can  *)
(* lose a delivery but never the trace of one.                             *)
(***************************************************************************)
EveryCallIsAnAttempt ==
    \A e \in Events :
        delivered["stdout"][e] + failed["stdout"][e]
          + delivered["leaderboard"][e] + failed["leaderboard"][e] <= attempts[e]

(***************************************************************************)
(* Bounded retries: an event is given up only when a publisher refused it  *)
(* and MaxAttempts attempts are on record.                                 *)
(***************************************************************************)
DeadAfterMaxAttempts ==
    \A e \in dead :
        attempts[e] >= MaxAttempts /\ \E c \in Consumers : Wants(c, e) /\ failed[c][e] > 0

(***************************************************************************)
(* An event whose lease has never run out under the replica that delivers  *)
(* it is in the hands of one replica at a time, of whichever consumer, and *)
(* it is leased: its deliveries never overlap, whichever replicas die and  *)
(* statements fail, and however long other events take.                    *)
(***************************************************************************)
OneHolder ==
    \A w \in Workers : \A e \in wqueue[w] \ overrun :
        e \in leased /\ \A v \in Workers \ {w} : e \notin wqueue[v]

(***************************************************************************)
(* A consumer gets an event twice only because of a fault, and no oftener  *)
(* than there were faults: without one, delivery is exactly once, although *)
(* a late release of one replica frees the lease another one holds.        *)
(***************************************************************************)
DuplicatesNeedFaults ==
    \A c \in Consumers, e \in Events : delivered[c][e] <= 1 + (FaultBudget - budget)

(***************************************************************************)
(* Every appended event is, for each consumer that wants it, either done   *)
(* or dead-lettered in the end, even if the publisher refuses it forever.  *)
(***************************************************************************)
EveryEventIsSettled ==
    \A e \in Events :
        e \in appended ~> e \in dead \/ \A w \in Workers : Wants(Consumer[w], e) => Done(Consumer[w], e)

(***************************************************************************)
(* What leases, attempts, checkpoints and published_at are for.            *)
(***************************************************************************)
Promise ==
    INSTANCE Delivery WITH
        accepted <- appended,
        received <- {ce \in Consumers \X Events : delivered[ce[1]][ce[2]] > 0},
        refused <- {ce \in Consumers \X Events : failed[ce[1]][ce[2]] > 0},
        done <- {ce \in Consumers \X Events : Done(ce[1], ce[2])},
        given <- dead

(***************************************************************************)
(* The workers implement Delivery: with failing statements, crashes and    *)
(* outlived leases, every step of RunOnce is a step of it or none.         *)
(***************************************************************************)
ImplementsDelivery == Promise!Spec
=============================================================================
