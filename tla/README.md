# TLA+ models of GameService

GameService is the control plane of a multiplayer game: players enqueue for
matches and submit commands, workers make matches and allocate dedicated
servers, servers report back, and every domain change is appended to an outbox
that other workers deliver.  All durable state is in one PostgreSQL database,
and nearly everything that is hard about the system is an interleaving of
transactions of independent processes on the same rows, with a failure
somewhere in between.  That is what these modules model.

| module | models | checked by | proved in |
|---|---|---|---|
| `MatchFlow` | tickets, matchmaking worker, match store, server callbacks, reconciler | `MCMatchFlow` | `MatchFlowProofs` |
| `MatchPlay` = `MatchRow` + `Results` + `Admission` | one match from Ready to its end: results, disputes, join claims, restrictions | `MCMatchPlay` | `MatchPlayProofs` |
| `Outbox` | `internal/outbox` with the consumers of outbox-worker and leaderboard-worker | `MCOutbox` | `OutboxProofs` |
| `Delivery` | the abstract specification `Outbox` implements | `MCOutbox` | `OutboxProofs` |
| `Economy`, on `EconomyRules` | `internal/commandstore`, `internal/economy`, `admin.execute_command`; their accounts, commands and limits | `MCEconomy` | `EconomyProofs`, `BankProofs` |
| `Bank`, on `EconomyRules` | the abstract specification `Economy` implements | `MCEconomy` | `BankProofs` |
| `Definitions` | `internal/definitions` and the definition endpoints | `MCDefinitions` | `DefinitionsProofs` |
| `Accounts` | privacy and profile endpoints across Nakama and PostgreSQL | `MCAccounts` | `AccountsProofs` |
| `RateLimiter` | `internal/ratelimit` | `MCRateLimiter` | `RateLimiterProofs` |

`PROJECT.json` maps every definition to the lines it models and lists runs,
findings, hazards and theorems.  To check a run: `tlc -config <run>.cfg
<MC module>`; to check proofs: `tlapm <proof module>.tla`.

## 1. The system

| component | state | operations | talks to |
|---|---|---|---|
| Control API (`cmd/control-api`) | none of its own | HTTP endpoints: commands, tickets, claims, results, ready/start/heartbeat, definitions, privacy | all stores; Nakama |
| Command store (`internal/commandstore`) | `platform.command_requests` | `SubmitWith`: reserve, run handler, store result and event, commit | every command handler, in its transaction |
| Economy (`internal/economy`) | wallets, ledger, inventory, entitlements, progression, reward claims | credit, debit, transfer, grant, consume, claim, ... | command store |
| Tickets (`internal/matchmaking/store.go`) | `match.tickets`, `match.ticket_members` | create, cancel, read | worker, reconciler through the rows |
| Matchmaking worker (`worker.go`, `matcher.go`) | local variables of `RunOnce` | select a batch, claim, allocate, create match, finish or give up | tickets, match store, allocator |
| Match store (`internal/matches`) | `match.matches`, roster, join claims, results | create, mark allocating/ready/running, heartbeat, abandon, submit result, dispute | worker, servers, reconciler |
| Dedicated server (`cmd/simulator-server`) | its assignment, whether it is ready | ready report, heartbeats, join, result, shutdown | Control API with a signed server claim |
| Allocator (`internal/allocation`) | Agones | allocate | worker |
| Reconciler (`internal/reconciliation`) | none | fail stale allocations, abandon stale running matches, scan wallets | tickets, matches, outbox |
| Outbox (`internal/outbox`) | `ops.outbox_events`, `ops.delivery_checkpoints` | claim with lease, deliver, settle or dead-letter | publishers: stdout, Nakama leaderboards |
| Definitions (`internal/definitions`, `internal/compiler`) | revisions, active revision, approvals, audit | publish, request/approve, activate, roll back | economy and matchmaking read them |
| Admin (`internal/admin`) | restrictions, audit | restrict, unrestrict, snapshot, execute | tickets, join claims, economy |
| Accounts (privacy and profile endpoints) | accounts in Nakama; `account_privacy_requests`, tombstones, `command_requests` | export, delete, patch | Nakama first, then PostgreSQL |
| Rate limiter (`internal/ratelimit`) | buckets in memory | allow, evict | Control API middleware |
| Nakama client and runtime, auth, metrics, tracing, seed, SDK | external or none | I/O | - |

What is hard, and where a property is aimed at it, is the list `hazards` of
`PROJECT.json`.  In short:

- `RunOnce` of the matchmaking worker is six commits and one remote call with
  no lease, lock or fencing token held between them, while several replicas,
  players and the reconciler work on the same rows;
- servers retry callbacks whose answers were lost, and are judged by timeouts;
- two outbox consumers share lease, attempt counter and dead letter of a row,
  and errors of the bookkeeping statements are discarded;
- commands are retried concurrently, and a business error *commits*;
- transfers lock rows in an order that depends on which rows exist;
- results, abandonment, timeout and disputes update one match row, each with
  its own list of states, after the endpoint has read the state;
- activations supersede what their snapshot shows, and production approvals are
  read before the transaction that relies on them;
- operations across Nakama and PostgreSQL are two commits in a fixed order;
- the rate limiter evicts buckets, and sees times out of order.

The properties that make each component correct: a claimed ticket belongs to
one replica, launches at most one match and ends in a settled state; a match
is settled by its server or by the reconciler; outbox events reach each
consumer at least once and duplicates have a cause; a command takes effect
exactly once; balances stay explained by the ledger and inside their limits;
a reward is granted once; a match has one result, paid once; a published
revision is final and production needs two people; a deletion that is reported
is done (one case apart, see section 3); a key is granted its rate and its burst.

## 2. How the modules correspond to the code

### MatchFlow

One action is one committed statement or transaction; the remote call
`Allocate` is an action too.  The worker has a program counter (`wpc`) that
names its next statement:

    idle --SelectBatch--> selected --Claim--> claimed --Allocate--> allocated
      --CreateMatch--> created --MarkAllocating--> allocating --FinishBatch--> idle

with the error paths `allocFailed` (recordAllocationFailure: attempts + 1,
queued or expired) and `giveUp` (setTicketStatus: queued).  `Faults` selects
the failures that may happen: `crash`, `dbError` (a statement fails without
effect), `lostReply` (it takes effect and its caller sees an error) and
`serverCrash`.  Failures of the allocator and of the preparation are always
possible, since the code treats them as normal.  So are a server claim that
runs out (`TokenExpires`: it is signed once for `SERVER_CLAIM_TTL_SECONDS`, 600
by default, and nothing renews it) and heartbeats that the cutoff overtakes
(`HeartbeatsLate`: sent every 10 s, failures only logged, nothing bounds their
delay).

Abstractions: a ticket is its members, status, attempts and match; `tdue` says
that `expires_at` has passed and `mstale` that `updated_at` is older than the
cutoff of the reconciler, so clocks only matter through the comparisons the
SQL makes.  All tickets are of one mode, region and build, and `SelectBatch`
may choose any complete batch of full teams: which one `Batch` prefers depends
on creation times and IDs, which no property here distinguishes.  `mbatch` and
`late` (stale matches whose server does send heartbeats, until one lands) are
history variables.  Match state `Finalizing` is written and overwritten in one
transaction, so it is no state of the model.

### Outbox

`Claim` is the UPDATE with `FOR UPDATE SKIP LOCKED`; `Publish`/`PublishFails`
the call of the publisher; `InsertCheckpoint`, `Settle` and `Fail` the
statements of `deliver`.  `StatementFails` skips such a statement, as the
discarded errors do.  A lease is reduced to whether it has run out;
`LeaseExpires` is free when nobody holds the event and a fault (`slow`) when
somebody does.  `delivered`, `failed` and `overrun` (events whose lease ran out
under a delivery) are history variables.  `attempts` grows without bound under
faults, so `FaultBudget` bounds their number.

`Delivery` is the promise without leases, attempts and replicas: accepted
events are received or refused by the consumers that want them, what is on
record as done was received, what is given up was refused.  `Promise` in
`Outbox` is the refinement mapping: received and refused are the events with a
positive count, done is `Done` (`published_at` or a checkpoint), given is
`dead`.

### Economy

A submission is one `POST /v1/commands`.  Its transaction is cut at the
statements that may wait for another transaction; what it writes is private
until `Commit`.  `Reserved` is the wait for an uncommitted request ID,
`locks` the row locks, `ClaimBlocked` the advisory lock or the uncommitted
claim row, `ObjectiveBlocked` the uncommitted completion.  `DeadlockAbort` is
PostgreSQL's deadlock detector, `Rollback` any other error, `CommitUnanswered`
a commit whose answer is lost.

`EconomyRules` has what commands, accounts and the definition's limits are,
without state.  Every operation that changes state is an action.  Wallets and inventories run
the same statements except for the ledger and the lower limit, so an account is
an asset of a player; experience is an asset without limits, an entitlement one
that holds 0 or 1.  A command may be the argument of an
`admin.execute_command`: then `Permitted` is the list of nested operations, and
the result of the nested command decides about the outer one in the same
transaction, with one audit record.  `ValidAmount` is `intArg`.  Business errors
(`INSUFFICIENT`, `LIMIT`, `INVALID_REWARD`, `INVALID_ARGUMENT`) finish the
handler and go on to `Commit`, because `Handle` turns them into results.  Not
modelled: reads that cannot fail, `version` columns, and `bigint` overflow,
which is an error and so a `Rollback`.

`Bank` is the promise without transactions, locks and statements: a request is
executed at most once, alone and in one step, on the tables as they are in that
step (`Execute`), repeated requests get the stored result (`Repeat`), and an
answer may be an error that tells nothing (`GiveUp`).  The refinement mapping is
the identity on the tables and the answers; a request takes effect where its
transaction commits.  `Performing` says what each operation does to the tables
of that moment.  What `Bank` leaves open is what READ COMMITTED leaves open: a
debit or transfer may be refused, and a `wallet.get` rejected, for a balance
that has changed since (`Refusals`); a revocation may miss an entitlement that
was granted after it looked; and the upper limit of a target without a row is
checked against the first transfer only, as nothing is locked for it.

### MatchPlay: MatchRow, Results, Admission

`MatchRow` is the row of one match from Ready on with the updates that belong
to nobody else (`Abandon`, `HeartbeatTimeout`, `ServerDies`); both other modules
extend it and `MatchPlay` composes them: a step of one leaves the variables of
the other alone and they meet in `state` and `server`.

`Results`: a call goes from the server's `POST /result` (`PostResult`) over the
endpoint's read of the state (`ReadState`) to the result transaction
(`Finalize`, `Duplicate`, `Mismatch`, `Reject`), the second transaction of a
conflict (`RecordResultConflict`, or `ConflictIsLost`) and the answer
(`Acknowledge`, `AnswerIsLost`).  A payload stands for its digest and the
players it names.  `HasReward` says whether the mode has a reward.  `acked` is a
history variable.

`Admission`: `Restrict` and `Unrestrict` are the admin commands; a claim is
issued by the endpoint (`IssueJoinClaim`, which looks at no restriction) or by
the command (`CheckRestriction`, then `IssueJoinClaimTx`); `AuthorizeJoin`,
`StartJoin` and `StartFails` are `POST /join` of the game server.  Of the claims
of a player the last is kept.  `since` is a history variable.

### Definitions

A handler of the Control API works on one request.  Publication is one commit;
`RequestOrApprove` is cut between its SELECT and its write (`ReadApproval`, then
`InsertApproval`, `ApproveRow` or `AnswerApproved`); an activation is the
approval check of the endpoint (`HTTPActivate`; none in `CommandActivate`), the
SELECT of the revision, the UPDATE that supersedes the others in two parts, its
snapshot (`ScanActivated`) and its wait for rows (`Supersede`), and the rest
with the commit.  `Abort` is a rollback anywhere.  Rollback and activate differ
in the audit record's name only and share the actions.

### Accounts

Export, deletion and profile patch call Nakama and then write their record; the
labels `check`, `rpc`, `read` and `record` are the places where a call can be
`Interrupted` or overtaken.  A call that is idle again may be made again.
`DeleteAccount` is the RPC that deletes the account or finds it absent;
`TakenForAbsent` the one whose two calls of Nakama both fail, which the RPC
cannot tell from an absent account: it answers as if it were deleted.  Of
the rows a deletion removes the model has those that a call reads again.
`told`, `answers`, `applied` and `misjudged` (players whose account was taken
for absent while it was there) are history variables.

### RateLimiter

`Allow` runs under a mutex and is one action (`Grant`, `Refuse`, `TurnAway`,
each with the eviction in it); the middleware asks for several keys, one call
after the other, with the time it read first.  Tokens are counted in units that
are whole numbers, so that a tick of the clock adds one unit.  `window` and
`spent` count what a key is granted from an arbitrary moment on.

## 3. Runs

Passing runs:

| run | instance | shows |
|---|---|---|
| `flow_safety` | 3 tickets, 2 players, 2 matches, 2 replicas; crash, dbError, serverCrash | ownership of claims, one launch per ticket, settled tickets stay settled; claims run out and heartbeats are late |
| `flow_faults` | 2 tickets, 2 matches, 2 replicas; all faults | matched tickets are seated and retries bounded under lost replies too; the running timeout takes a match only from a silent server |
| `flow_live` | 2 tickets, 2 matches, 2 replicas, solo and party tickets; serverCrash | claims, allocations and dead running servers are resolved |
| `play` | 1 match, 2 concurrent result calls, 4 submissions, 1 joiner, 3 units of time | one result, paid once; acknowledged results are stored; disputes have evidence; restrictions keep players out after the life of a claim |
| `outbox` | 2 events, 3 replicas of 2 consumers, 1 fault of any kind | every call is an attempt, dead letters are earned, no more duplicates than faults, one holder until a lease is outlived, every event is settled, `Delivery` is implemented |
| `economy_safety` | 3 requests, one submitted twice, every choice of 9 commands on 2 players | exactly once, every addition counts, no overdraft, ledger explains wallets up to rejected changes, one claim per player, `Bank` is implemented |
| `economy_live` | 3 requests, with a reward that cannot be paid, refusals and deadlocks | every submission ends |
| `definitions` | 2 revisions, 2 bodies, 2 environments, 3 operators, 2 handlers, 5 requests | publications are final, production endpoints need two people, one revision is activated unless activations overlap, what runs was audited |
| `accounts` | 2 players, 3 keys, 6 calls, 1 interruption or misjudged deletion | reported deletions are recorded, and done unless the account was misjudged; patches of a key answer alike, a retry finishes a deletion |
| `rate_limiter` | 3 keys, map of 2, 2 requests at once, 5 ticks | types and bounds of map and buckets, the rate over every window, the burst is free |

The type invariants of `MatchFlow`, `Outbox` and `Economy` are proved and not run.

The bounds are the smallest in which the cases meet: two replicas to race, a
third ticket so that a player re-enqueues while claimed, two matches so that a
requeued ticket could launch twice, `MaxAttempts = 2` so that there is one
retry and one exhaustion; two consumers and a second replica of one; two
result calls, two payloads for one sequence and a second sequence; two handlers
and a third operator; two deletions and the same patch twice; fewer places than
keys and more time than `EvictAge`; two wallets for opposite transfers, a third
request for the row that appears in between, a second submission for the retry.  Tickets, matches and replicas are
interchangeable in `flow_safety` and `flow_faults`, which check no liveness, so
symmetry is sound there; so are operators, handlers and bodies in `definitions`
and the calls and requests of `play` and `rate_limiter`; in `economy_safety`
the two submissions of one request are, and the two other requests together
with their submissions.  `CHECK_DEADLOCK FALSE` everywhere: the bounded sets of
tickets, events, submissions, requests and times run out.

Fairness.  `FairSpec` of `MatchFlow`: a running replica executes its next
statement, the reconciler runs every interval (both are endless loops in
`main`), and time passes.  Nothing is asked of players, servers or the choice
of a batch.  `Outbox`: both mains call `RunOnce` in an endless loop and time
passes; nothing is assumed of publishers.  `Economy`: a request handler runs to
its end, and PostgreSQL resolves deadlocks.  `Accounts`: the handler of a
deletion runs on, and its client makes the call again until it is answered,
which `docs/privacy-retention.md:15` relies on; nothing is assumed of exports and
patches.

Runs that must be violated (`findings` quotes the lines):

| run | what happens |
|---|---|
| `flow_failed_match` | the reconciler fails a match just before the worker marks its tickets matched |
| `economy_limits` | a change that is rejected for the limits is committed, without ledger entries |

Further disagreements between documents and code, found while modelling and not
kept as runs:

- A replica that dies between its claim and its last UPDATE leaves its tickets
  `matching` for ever (`worker.go:160`); `README.md:387` says "worker replicas
  use leases and idempotency".
- When the answer to a ready report is lost, the repeated report is refused
  (`store.go:163`), the server never serves, and its match ends in the timeout;
  `codex(7).md:531`: "Duplicate callback: return the stored result".
- A server claim lasts 600 s and is never renewed (`matchmaking-worker/main.go:56`),
  while `definitions/examples/arena.yaml:20` allows matches of 20 minutes.  From
  then on the heartbeats and the result of a living server are refused, and 180 s
  later its match is abandoned.  Late heartbeats end a match in the same way.
  `README.md:166` has the reconciler act "when authenticated server heartbeats
  stop", and the comment at `reconciliation.go:58` calls it "the server-crash
  policy"; no crash is needed.  `OnlySilentServersTimeOut` says exactly when a
  living server can lose its match: this case, the lost ready report and late
  heartbeats.
- The RPC that deletes an account takes any error of `accountGetId` for "already
  absent" (`nakama/runtime/index.js:296`).  When Nakama's database fails both
  calls, the deletion is recorded and reported and the account stays; all later
  deletions are answered from the tombstone, so it stays for good.  The comment
  above it: "Preserve every other error".  `DeletionIsReal` says that this is the
  only way to a tombstone for an account that exists.
- Two activations that overlap each supersede what their snapshot shows and can
  leave two revisions `activated` (`definitions/store.go:251`).
  `OneActivatedUnlessOverlapped` says that it takes an overlap.
- Attempts and dead letters are columns of the event, so the failures of one
  consumer withhold it from the other (`outbox/worker.go:115`);
  `docs/adr/002-postgresql-outbox.md:15` has "durable per-consumer checkpoints".
- The commands `definition.activate` and `definition.rollback` ask for no
  approval (`definitions/commands.go:62`), so one operator can activate in
  production; `docs/adr/011-production-definition-approval.md:18`: "without
  gaining a single-actor path to production".
- The rollback endpoint refuses superseded revisions (`definitions/store.go:245`),
  which are the ones to roll back to; the command accepts them.
- An operator who asks for an approval that is already approved is audited with
  `definition.approval.approved` as well (`definitions/store.go:74`).
- The join-claims endpoint and the ticket endpoint look at no restriction
  (`control-api/main.go:281`); `docs/data-ownership.md:23` names "transactional
  queue/join checks".  And a queue restriction replaces a ban, as there is one
  row per player.
- Join claims can be used again until they expire: `ConsumeClaim` has no caller
  (`codex(7).md:466`: "one-time or reconnect-bounded").
- A deletion removes the `playerId` of every player from the results it scrubs
  (`control-api/main.go:247`; `docs/privacy-retention.md:24`: "deleted player
  IDs removed"), so a leaderboard delivery of such a result that is still
  outstanding fails.
- A deletion leaves `match.roster_members`, and commands in flight are not
  stopped: a later result or command recreates rows of the player.
- The loser of two exports with one key answers its own result and not the
  stored one; a patch may reach Nakama again by a retry.
- `wallet.get` is rejected for good once a rejected change has left the balance
  outside of its bounds (`economy/service.go:224`).
- The audit chain links to the record with the latest `created_at`, which is the
  start of its transaction, so records of overlapping transactions can have the
  same predecessor (`004_audit_chain.sql:28`; `docs/adr/011` speaks of "the
  append-only audit chain").
- A ticket that a failed allocation puts back to `queued` is active next to one
  its player created meanwhile, because only `queued` tickets count in the
  check (`store.go:188`, `worker.go:179`); `codex(7).md:622` wants active
  tickets to be unique per player.
- `match.abandon` takes a match from Ready to Abandoned and a conflicting
  result takes it from Completed to Disputed; neither is an edge of
  `Transition` (`state.go:21`), which no statement consults.
- A server that dies while its match is Ready is never noticed: the reconciler
  scans Allocating and Running (`codex(7).md:533`).
- An event during whose delivery the worker dies is claimed again without
  bound: `MaxAttempts` is looked at only after a returned error
  (`outbox/worker.go:114`, `codex(7).md:716`).
- A reward with a currency amount of 0, which the compiler lets through, is
  rejected half-way and committed with its claim and its earlier grants
  (`economy/service.go:591`, `codex(7).md:1013`).
- Two opposite transfers can deadlock although the SELECT locks in order: a row
  inserted between SELECT and upsert is locked last (`operations.go:67` declares
  "ordered-resource-rows").  `DeadlockAbort` fires in `economy_live`.

## 4. Proofs

Every safety invariant and every action property that a passing run checks is
proved as well, for every value of the constants that satisfies the named
assumptions: any number of tickets, players, matches, replicas, events,
requests, retries, revisions, operators, calls and keys, and every choice of
faults.  So are both refinements.  Each proof module has one inductive
invariant (`BankProofs` adds to that of `EconomyProofs`); its parts that no run
checks were tried with TLC on the instances of section 3 before they were proved.

Assumptions on constants.  Most are types.  The others: `Workers` of `Outbox`
and `Keys` of `RateLimiter` are finite (both are counted), and so is `Requests` of
`Economy` (what requests add is summed up); `None`, which stands
for NULL, is no player, status or row; a bucket holds enough for one request,
and `EvictAge` is at least the time a bucket takes to fill plus the delay of a
request in the middleware (ten minutes against the burst of the configuration);
`MaxTime` of `Admission` is positive.  One theorem, `OneLaunch`, has a hypothesis
of its own about the faults that may happen.

`MatchFlowProofs`
- `Ownership`, `Seated` (all faults): types, `ClaimedTicketsAreOwned`,
  `MatchedTicketIsSeated`.  The strengthening is `WorkerMatch`: what a replica
  at each statement knows of the match it is building (its ID is its own, its
  row is in the state the last statement wrote and made from its batch).
  Without it the last UPDATE could not be shown to write a match that seats
  the members.
- `OneLaunch` (no `lostReply`): `OneLaunchPerTicket`, with
  `LaunchedTicketsAreSpent`: the tickets of a launched match are settled, or
  `matching` under no replica but the one that has only its last UPDATE to do.  The
  assumption is necessary: a requeue after a MarkAllocating that took effect
  launches the tickets again.
- `BoundedRetries`: `RetriesAreBounded` is inductive on typed states.
- `SettledTickets`: the action property, from the ownership invariant.
- `SilentServers` (all faults): `OnlySilentServersTimeOut`, with `ServerInv`: only
  a lost answer leaves the server of a Ready or Running match waiting for it, and
  a Running match that is stale has a silent server, where silent means gone,
  waiting in that way, without a valid claim, or late with no heartbeat landed
  since.  Every statement that lands makes the match fresh, so a server that is
  not silent has nothing to fear from the cutoff.

`OutboxProofs`
- `AtLeastOnce` (all faults): types, `NothingIsSkipped`, `DeadAfterMaxAttempts`,
  with `DeliverInv`, what a replica in the middle of `deliver` knows of the
  call it has made.
- `LeaseExcludes` (all faults): `OneHolder`, which is inductive on typed states.
  The history variable `overrun` makes it unconditional: an event whose lease
  never ran out under a delivery is unaffected by those whose lease did.
- `Implementation` (all faults): `Spec => ImplementsDelivery`.  Besides the
  invariant of `AtLeastOnce`, which justifies `Record` and `GiveUp`, it needs
  `BatchInv`: a replica holds only appended events and works on one at a time,
  so that a statement is at most one step of `Delivery`.
- `AttemptsAreRecorded`, `FaultsBoundDuplicates` (all faults):
  `EveryCallIsAnAttempt` and `DuplicatesNeedFaults`, from `CountInv`, which
  counts replicas.  The calls for an event and the holders that still owe one
  are at most its attempts.  For duplicates the holders are not enough, because
  the release by one replica frees the lease that another, of either consumer,
  has taken meanwhile: while a consumer is not done with the event, its accepted
  calls and the holders that may let the event go unrecorded (`Unsure`) are at
  most the lease, if somebody holds it, and the faults.  Every way to get rid of
  a holder without a record costs the lease or a fault.  Once the consumer is
  done there are no new claims, and the calls still owed only become calls.

`MatchPlayProofs`
- `ResultIsUnique`, `RewardsFollowResults`, `AcknowledgementIsTrue`,
  `DisputesAreFounded` and the types: together inductive with `CallInv`, what a
  call knows between its transactions.  The stored result of a call at
  `committed` is its own and that of a call at `conflict` is another; as no
  statement changes a result, both still hold when the call goes on.
- `Exclusion`: the action property `BarredIsKeptOut`, with `ClaimInv`: a command
  that is past its check took that check at most `MaxDelay` ago, and what a
  barred player holds from commands rests on a check before the restriction.

`RateLimiterProofs`
- `RateIsKept`: `RateHolds`, from `SpentInv`, an account per key.  While the
  bucket is in the map, what was spent and what is left is at most the burst and
  the time between the window's start, less `MaxDelay`, and the time of the
  bucket.  Once it is evicted, time alone has paid for what was spent, which is
  where the assumption on `EvictAge` is used.  `TimeInv` bounds the age of the
  times that requests carry.
- `BurstIsGranted`: `BurstIsFree`, with `BurstInv`: counted from the start, a
  bucket holds what is left of the burst.
- `BoundedStore`: types, among them the bound on the map, which needs the
  cardinality of what an eviction leaves.

`AccountsProofs`
- `DeletionIsHonest`, `PatchesAreIdempotent` and the types, with `CallInv`: when
  a deletion is to be recorded the account is gone from Nakama, where accounts do
  not come back, or was misjudged, and when a patch
  is read back or recorded it has been applied; and `RowsAreApplied`.

`DefinitionsProofs`
- `Immutable`, `FourEyes`, `OneActivated`, `Audited` and the types.  `RowInv`
  says that an approval is of the body the revision has and that requester and
  approver differ; `JobInv` what the request of a handler rests on: the time of
  its pending row is its own, and in production two others stand behind what an
  endpoint has begun to activate.  The approval is read before the transaction,
  so this must stay true while others publish, ask and approve; it does because
  bodies and approvals are never changed.  `OverlapInv` says that without an
  overlap the rows an activation found are still those there are.  That the
  latest approval exists is the well-foundedness of the order on times, cited
  from the library.

`EconomyProofs`
- `Idempotent` (`ExactlyOnce`), `Solvent` (`NoOverdraft`), `Reconciled`
  (`LedgerExplainsWallet`), `ClaimedOnce` (`OneClaim`) and the types.  `WorkInv`
  says what a transaction has done by the statement it has come to: it writes
  only rows it has locked, its writes leave them at zero or above, and what it
  writes without ledger entries is no currency or will be rejected for the
  limits.  `LockInv` is mutual exclusion on rows and request IDs, so the
  balances it has read are still there at `Commit`.  `ClaimInv` says that an
  inserted claim or completion has no rival, committed or not.

`BankProofs`
- `Implementation`: `Spec => ImplementsBank`.  The invariant of `EconomyProofs`
  says that a commit does no harm; the refinement needs that it does exactly
  what the command would do now, although the handler looked at the tables
  statements ago.  `AlwaysAble` is that strengthening: `StageInv` says what a
  transaction has in hand by the statement it has come to (the debit of a
  transfer, the sum of the grants so far), and, when it has come to the commit,
  that there is an effect of `Bank` which its writes, ledger entries, insertion
  and result amount to.  `Settled` says why nobody can take that effect away: it
  is a refusal, or the transaction has locked the account it rests on, or it
  rests on claims or completions and `ClaimInv` applies.  One lemma per kind of
  statement shows that it leads there, `StoreSettled` that commits of others
  keep it, `StoreRefines` that the commit is then a step `Execute`.
- `AdditionsCount` (`EveryAdditionCounts`): of all effects only that of an
  addition that succeeds changes experience (`ExperienceChange`), so a commit
  adds to the balance what it adds to the sum.
- `TotalAdd`: adding a member to a finite set adds its value to the sum.  The
  sum is a fold that takes members in an order of its own.  As the library's
  induction theorems cannot be instantiated, the lemma is proved from the
  well-foundedness of the naturals, with a smallest set on which the fold does
  not exist, or depends on the order.

Only model-checked:
- the liveness properties (`ClaimIsResolved`, `AllocationIsResolved`,
  `DeadServerIsNoticed`, `EveryEventIsSettled`, `EverySubmissionEnds`,
  `RetryFinalizes`): fairness and ENABLED are outside of the prover.

There are no recursive operators.

## 5. Plan

Done: the modules above with their runs, the theorems of section 4, the
refinements of `Delivery` and `Bank`.

Next, in this order:
1. `Matcher`: `Batch` as a function, against the rule that tickets are taken in
   order and teams are full, over all short queues.
2. The audit chain of `004_audit_chain.sql` under overlapping transactions.

Not modelled, and not planned: authentication and signatures (cryptography),
HTTP routing and JSON validation (stateless), metrics and tracing, the Nakama
client and runtime beyond the calls that `Accounts` and the workers make, the
idempotency store (`internal/idempotency`, which no program imports),
`ConsumeClaim` (no caller), unlimited rates (no configuration has one), reads,
the generated SDK, seed data and deployment manifests.
