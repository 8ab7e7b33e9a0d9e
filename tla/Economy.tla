------------------------------ MODULE Economy ------------------------------
(***************************************************************************)
(* Commands on wallets, inventories, entitlements, progression and rewards *)
(* (internal/commandstore, internal/economy), and admin.execute_command    *)
(* around them (internal/admin).                                           *)
(*                                                                         *)
(* A submission is one POST /v1/commands.  SubmitWith runs it in one READ  *)
(* COMMITTED transaction: reserve the request ID, run the handler, store   *)
(* the result and its event, commit.  Submissions interleave wherever a    *)
(* statement may wait for a row or key lock of another transaction; what a *)
(* transaction does between two such statements is one action.  Its writes *)
(* are private until Commit.                                               *)
(***************************************************************************)
EXTENDS EconomyRules

VARIABLES
    cmd,      \* the command each request ID stands for
    request,  \* the stored result of platform.command_requests, "none" without a row
    events,   \* command.accepted.v1 events of the request in ops.outbox_events
    audits,   \* admin.execute_command records of the request in ops.audit_log
    rows,     \* accounts with a row
    balance,  \* balance, quantity or xp of the row, 1 while an entitlement is not revoked
    ledger,   \* sum of the player's economy.ledger_entries
    claims,   \* the rows <<player, source, request>> of economy.reward_claims
    completed,  \* the rows of progression.objective_completions, with the request that inserted them
    pc,       \* the next statement of the submission that may wait
    locks,    \* rows the transaction has locked
    seen,     \* rows the SELECT ... FOR UPDATE of a transfer returns
    write,    \* what the transaction adds to each account
    post,     \* it has appended ledger entries for those writes
    claim,    \* it has inserted its row of reward_claims or objective_completions
    step,     \* the next grant of the reward
    outcome,  \* the result its handler returned
    reply     \* what the client was told

tables == <<cmd, request, events, audits, rows, balance, ledger, claims, completed>>
txVars == <<pc, locks, seen, write, post, claim, step, outcome>>
vars == <<tables, txVars, reply>>

PCs == {"start", "run", "locking", "upsert", "grant", "commit", "done"}

Cmd(s) == cmd[RequestOf[s]]
Account(s) == <<Cmd(s).asset, Cmd(s).player>>
Target(s) == <<Cmd(s).asset, Cmd(s).target>>

NoWrite == [a \in Accounts |-> 0]

Init ==
    /\ cmd \in [Requests -> Commands]
    /\ request = [r \in Requests |-> "none"]
    /\ events = [r \in Requests |-> 0] /\ audits = [r \in Requests |-> 0]
    /\ rows = {a \in Accounts : Start[a] > 0}
    /\ balance = Start
    /\ ledger = [p \in Players |-> Start[<<"currency", p>>]]
    /\ claims = {} /\ completed = {}
    /\ pc = [s \in Submissions |-> "start"]
    /\ locks = [s \in Submissions |-> {}]
    /\ seen = [s \in Submissions |-> {}]
    /\ write = [s \in Submissions |-> NoWrite]
    /\ post = [s \in Submissions |-> FALSE]
    /\ claim = [s \in Submissions |-> FALSE]
    /\ step = [s \in Submissions |-> 1]
    /\ outcome = [s \in Submissions |-> "none"]
    /\ reply = [s \in Submissions |-> "none"]

Active(s) == pc[s] \notin {"start", "done"}

\* No other transaction holds the lock of the row.
Free(s, a) == \A t \in Submissions \ {s} : a \notin locks[t]

Goto(s, label) == pc' = [pc EXCEPT ![s] = label]

(***************************************************************************)
(* The handler is through, and SubmitWith goes on to store the result.  An *)
(* execute_command is accepted or rejected with the command it nests.      *)
(***************************************************************************)
Finish(s, result) ==
    /\ Goto(s, "commit")
    /\ outcome' = [outcome EXCEPT ![s] =
                     IF Cmd(s).admin /\ result # "succeeded" THEN "NESTED_COMMAND_REJECTED" ELSE result]

\* Mutant of Write: the balance is read before and written without waiting for the row.
WriteBlindly(s, a, n) ==
    /\ locks' = [locks EXCEPT ![s] = @ \cup {a}]
    /\ write' = [write EXCEPT ![s][a] = n]

\* The statement locks row a and adds n to it.
Write(s, a, n) ==
    /\ Free(s, a)
    /\ locks' = [locks EXCEPT ![s] = @ \cup {a}]
    /\ write' = [write EXCEPT ![s][a] = n]

-----------------------------------------------------------------------------
(* SubmitWith: the request ID *)

\* Mutant of Reserved: look up the request first, insert it later.
NeverReserved(s) == FALSE

\* Another transaction has inserted the request ID and not ended.
Reserved(s) == \E t \in Submissions \ {s} : RequestOf[t] = RequestOf[s] /\ Active(t)

\* INSERT ... ON CONFLICT DO NOTHING returns the new row.
Reserve(s) ==
    /\ pc[s] = "start"
    /\ ~Reserved(s) /\ request[RequestOf[s]] = "none"
    /\ Goto(s, "run")
    /\ UNCHANGED <<tables, locks, seen, write, post, claim, step, outcome, reply>>

\* The row was there: the stored result is the answer.
Replay(s) ==
    /\ pc[s] = "start"
    /\ ~Reserved(s) /\ request[RequestOf[s]] # "none"
    /\ reply' = [reply EXCEPT ![s] = request[RequestOf[s]]]
    /\ Goto(s, "done")
    /\ UNCHANGED <<tables, locks, seen, write, post, claim, step, outcome>>

-----------------------------------------------------------------------------
(* Handle: of the admin commands, and of the economy *)

ExecuteForbidden(s) ==
    /\ pc[s] = "run" /\ ~Permitted(Cmd(s))
    /\ Goto(s, "commit")
    /\ outcome' = [outcome EXCEPT ![s] = "NESTED_OPERATION_FORBIDDEN"]
    /\ UNCHANGED <<tables, locks, seen, write, post, claim, step, reply>>

ArgumentRefused(s) ==
    /\ pc[s] = "run" /\ Permitted(Cmd(s)) /\ ~ValidAmount(Cmd(s))
    /\ Finish(s, "INVALID_ARGUMENT")
    /\ UNCHANGED <<tables, locks, seen, write, post, claim, step, reply>>

\* The operation's function is reached, its arguments read.
Running(s, op) ==
    pc[s] = "run" /\ Cmd(s).op = op /\ Permitted(Cmd(s)) /\ ValidAmount(Cmd(s))

\* walletGet: a read that rejects what an earlier command has left outside of the limits.
WalletGet(s) ==
    /\ Running(s, "get")
    /\ Finish(s, IF Within("currency", balance[Account(s)]) THEN "succeeded" ELSE "LIMIT")
    /\ UNCHANGED <<tables, locks, seen, write, post, claim, step, reply>>

-----------------------------------------------------------------------------
(* walletChange, inventoryChange *)

\* Mutant of Change: the ledger entries are forgotten.
ChangeUnposted(s, n) ==
    /\ Write(s, Account(s), n)
    /\ Finish(s, IF Within(Cmd(s).asset, balance[Account(s)] + n) THEN "succeeded" ELSE "LIMIT")
    /\ UNCHANGED <<tables, seen, post, claim, step, reply>>

(***************************************************************************)
(* The limits are checked on the balance the UPDATE returned.  The error   *)
(* becomes a rejected result, with which SubmitWith commits.               *)
(***************************************************************************)
Change(s, n) ==
    LET ok == Within(Cmd(s).asset, balance[Account(s)] + n) IN
    /\ Write(s, Account(s), n)
    /\ post' = [post EXCEPT ![s] = ok]
    /\ Finish(s, IF ok THEN "succeeded" ELSE "LIMIT")
    /\ UNCHANGED <<tables, seen, claim, step, reply>>

Credit(s) ==
    /\ Running(s, "credit")
    /\ Change(s, Cmd(s).amount)

\* WHERE balance >= amount, on the committed row.
Affordable(s) == Account(s) \in rows /\ balance[Account(s)] >= Cmd(s).amount

Debit(s) ==
    /\ Running(s, "debit") /\ Affordable(s)
    /\ Change(s, -Cmd(s).amount)

\* No row qualifies: the statement does not even wait.
DebitRefused(s) ==
    /\ Running(s, "debit") /\ ~Affordable(s)
    /\ Finish(s, "INSUFFICIENT")
    /\ UNCHANGED <<tables, locks, seen, write, post, claim, step, reply>>

-----------------------------------------------------------------------------
(* walletTransfer, inventoryTransfer *)

\* SELECT ... ORDER BY player_id FOR UPDATE: the rows its snapshot has.
TransferSelect(s) ==
    /\ Running(s, "transfer")
    /\ seen' = [seen EXCEPT ![s] = rows \cap {Account(s), Target(s)}]
    /\ Goto(s, "locking")
    /\ UNCHANGED <<tables, locks, write, post, claim, step, outcome, reply>>

Unlocked(s) == seen[s] \ locks[s]

\* Mutant of TransferLock: a plain SELECT, without FOR UPDATE.
TransferRead(s) ==
    /\ pc[s] = "locking" /\ Unlocked(s) # {}
    /\ locks' = [locks EXCEPT ![s] = @ \cup Unlocked(s)]
    /\ UNCHANGED <<tables, pc, seen, write, post, claim, step, outcome, reply>>

\* It locks them one at a time, the lowest player ID first.
TransferLock(s) ==
    /\ pc[s] = "locking"
    /\ \E a \in Unlocked(s) :
         /\ \A b \in Unlocked(s) : a[2] <= b[2]
         /\ Free(s, a)
         /\ locks' = [locks EXCEPT ![s] = @ \cup {a}]
    /\ UNCHANGED <<tables, pc, seen, write, post, claim, step, outcome, reply>>

Covered(s) == Account(s) \in seen[s] /\ balance[Account(s)] >= Cmd(s).amount

\* A target without a row counts as zero, and nothing is locked for it.
TargetBalance(s) ==
    (IF Target(s) \in seen[s] THEN balance[Target(s)] ELSE 0) + Cmd(s).amount

TransferRefused(s) ==
    /\ pc[s] = "locking" /\ Unlocked(s) = {}
    /\ ~Covered(s) \/ ~Within(Cmd(s).asset, TargetBalance(s))
    /\ Finish(s, IF ~Covered(s) THEN "INSUFFICIENT" ELSE "LIMIT")
    /\ UNCHANGED <<tables, locks, seen, write, post, claim, step, reply>>

TransferDebit(s) ==
    /\ pc[s] = "locking" /\ Unlocked(s) = {}
    /\ Covered(s) /\ Within(Cmd(s).asset, TargetBalance(s))
    /\ write' = [write EXCEPT ![s][Account(s)] = -Cmd(s).amount]
    /\ Goto(s, "upsert")
    /\ UNCHANGED <<tables, locks, seen, post, claim, step, outcome, reply>>

TransferUpsert(s) ==
    /\ pc[s] = "upsert"
    /\ Write(s, Target(s), Cmd(s).amount)
    /\ post' = [post EXCEPT ![s] = TRUE]
    /\ Finish(s, "succeeded")
    /\ UNCHANGED <<tables, seen, claim, step, reply>>

-----------------------------------------------------------------------------
(* progressionAddXP, entitlementChange, objectiveComplete *)

AddXP(s) ==
    /\ Running(s, "addXP")
    /\ Write(s, Account(s), Cmd(s).amount)
    /\ Finish(s, "succeeded")
    /\ UNCHANGED <<tables, seen, post, claim, step, reply>>

\* INSERT ... ON CONFLICT DO UPDATE SET revoked_at=NULL
Entitle(s) ==
    /\ Running(s, "entitle")
    /\ Write(s, Account(s), 1 - balance[Account(s)])
    /\ Finish(s, "succeeded")
    /\ UNCHANGED <<tables, seen, post, claim, step, reply>>

\* UPDATE ... SET revoked_at=now(): succeeds without a row, and then waits for nobody.
Revoke(s) ==
    /\ Running(s, "revoke")
    /\ IF Account(s) \in rows THEN Write(s, Account(s), -balance[Account(s)])
                              ELSE UNCHANGED <<locks, write>>
    /\ Finish(s, "succeeded")
    /\ UNCHANGED <<tables, seen, post, claim, step, reply>>

ClaimKey(s) == <<Cmd(s).player, Cmd(s).source>>

\* Another transaction has inserted the same completion and not ended.
ObjectiveBlocked(s) ==
    \E t \in Submissions \ {s} :
        pc[t] = "commit" /\ Cmd(t).op = "objective" /\ claim[t] /\ ClaimKey(t) = ClaimKey(s)

\* INSERT ... ON CONFLICT DO NOTHING: the result says whether the row is new.
CompleteObjective(s) ==
    /\ Running(s, "objective") /\ ~ObjectiveBlocked(s)
    /\ claim' = [claim EXCEPT ![s] = \A c \in completed : <<c[1], c[2]>> # ClaimKey(s)]
    /\ Finish(s, "succeeded")
    /\ UNCHANGED <<tables, locks, seen, write, post, step, reply>>

-----------------------------------------------------------------------------
(* rewardClaim *)

\* Mutant of ClaimBlocked: without the advisory lock.
ClaimBlockedBySource(s) ==
    \E t \in Submissions \ {s} :
        pc[t] \in {"grant", "commit"} /\ Cmd(t).op = "claim" /\ claim[t] /\ ClaimKey(t) = ClaimKey(s)

(***************************************************************************)
(* The advisory lock on player and reward if it is once per player, the    *)
(* uncommitted row of the same source otherwise.                           *)
(***************************************************************************)
ClaimBlocked(s) ==
    \E t \in Submissions \ {s} :
        /\ pc[t] \in {"grant", "commit"} /\ Cmd(t).op = "claim"
        /\ IF OncePerPlayer THEN Cmd(t).player = Cmd(s).player
                            ELSE claim[t] /\ ClaimKey(t) = ClaimKey(s)

Claimed(s) ==
    \E c \in claims : c[1] = Cmd(s).player /\ (OncePerPlayer \/ c[2] = Cmd(s).source)

ClaimDuplicate(s) ==
    /\ Running(s, "claim")
    /\ ~ClaimBlocked(s) /\ Claimed(s)
    /\ Finish(s, "succeeded")
    /\ UNCHANGED <<tables, locks, seen, write, post, claim, step, reply>>

ClaimReward(s) ==
    /\ Running(s, "claim")
    /\ ~ClaimBlocked(s) /\ ~Claimed(s)
    /\ claim' = [claim EXCEPT ![s] = TRUE]
    /\ Goto(s, "grant")
    /\ UNCHANGED <<tables, locks, seen, write, post, step, outcome, reply>>

\* One grant of the loop; rewardClaim does not check the limits.
Grant(s) ==
    LET grant == Grants[step[s]]
        a == <<grant[1], Cmd(s).player>>
    IN  /\ pc[s] = "grant" /\ Payable(grant)
        /\ Write(s, a, write[s][a] + grant[2])
        /\ post' = [post EXCEPT ![s] = TRUE]
        /\ IF step[s] = Len(Grants)
             THEN Finish(s, "succeeded") /\ UNCHANGED step
             ELSE step' = [step EXCEPT ![s] = @ + 1] /\ UNCHANGED <<pc, outcome>>
        /\ UNCHANGED <<tables, seen, claim, reply>>

\* "invalid reward" is a business error: SubmitWith commits what was done so far.
GrantRefused(s) ==
    /\ pc[s] = "grant" /\ ~Payable(Grants[step[s]])
    /\ Finish(s, "INVALID_REWARD")
    /\ UNCHANGED <<tables, locks, seen, write, post, claim, step, reply>>

-----------------------------------------------------------------------------
(* The end of the transaction *)

\* Mutant of Release: the transaction is never ended.
Leak(s) ==
    /\ Goto(s, "done")
    /\ UNCHANGED <<locks, seen, write, post, claim, step, outcome>>

\* The row locks are gone with the transaction.
Release(s) ==
    /\ Goto(s, "done")
    /\ locks' = [locks EXCEPT ![s] = {}]
    /\ UNCHANGED <<seen, write, post, claim, step, outcome>>

\* The row the transaction has inserted into the table of the operation.
Inserted(s, op) ==
    IF claim[s] /\ Cmd(s).op = op THEN {<<Cmd(s).player, Cmd(s).source, RequestOf[s]>>} ELSE {}

\* What appendLedgerEntries and appendTransferLedgerEntries have added for the player.
Posted(s, p) == IF post[s] THEN write[s][<<"currency", p>>] ELSE 0

(***************************************************************************)
(* INSERT of the audit record, UPDATE of the request, INSERT of the event, *)
(* COMMIT.  The lock of the audit chain is held from here to the end and   *)
(* so is never waited for in a cycle.  A row that the transaction has      *)
(* locked was there or has been inserted by it.                            *)
(***************************************************************************)
Store(s) ==
    /\ pc[s] = "commit"
    /\ request' = [request EXCEPT ![RequestOf[s]] = outcome[s]]
    /\ events' = [events EXCEPT ![RequestOf[s]] = @ + 1]
    /\ balance' = [a \in Accounts |-> balance[a] + write[s][a]]
    /\ rows' = rows \cup locks[s]
    /\ audits' = [audits EXCEPT ![RequestOf[s]] =
                    IF Cmd(s).admin /\ Permitted(Cmd(s)) THEN @ + 1 ELSE @]
    /\ ledger' = [p \in Players |-> ledger[p] + Posted(s, p)]
    /\ claims' = claims \cup Inserted(s, "claim")
    /\ completed' = completed \cup Inserted(s, "objective")
    /\ Release(s)
    /\ UNCHANGED cmd

Commit(s) == Store(s) /\ reply' = [reply EXCEPT ![s] = outcome[s]]

\* The transaction commits and the answer is lost: to SubmitWith or to the client.
CommitUnanswered(s) ==
    "lostReply" \in Faults /\ Store(s) /\ reply' = [reply EXCEPT ![s] = "error"]

\* An error that is not a business error, or a failing commit: 503 and rollback.
Rollback(s) ==
    /\ "rollback" \in Faults /\ Active(s)
    /\ reply' = [reply EXCEPT ![s] = "error"]
    /\ Release(s)
    /\ UNCHANGED tables

\* The row the next statement of s waits for.
Awaits(s, a) ==
    \/ a = Account(s)
       /\ \/ Running(s, "credit") \/ Running(s, "addXP") \/ Running(s, "entitle")
          \/ Running(s, "debit") /\ Affordable(s)
          \/ Running(s, "revoke") /\ a \in rows
    \/ pc[s] = "locking" /\ a \in Unlocked(s) /\ \A b \in Unlocked(s) : a[2] <= b[2]
    \/ pc[s] = "upsert" /\ a = Target(s)
    \/ pc[s] = "grant" /\ Payable(Grants[step[s]]) /\ a = <<Grants[step[s]][1], Cmd(s).player>>

WaitsFor(s, t) == s # t /\ \E a \in locks[t] : Awaits(s, a)

\* PostgreSQL ends a cycle of waiting transactions by aborting one of them.
DeadlockAbort(s) ==
    /\ \E cycle \in SUBSET Submissions :
         /\ s \in cycle
         /\ \A t \in cycle : (\E u \in cycle : WaitsFor(t, u)) /\ (\E u \in cycle : WaitsFor(u, t))
    /\ reply' = [reply EXCEPT ![s] = "error"]
    /\ Release(s)
    /\ UNCHANGED tables

SubmitWith(s) ==
    \/ Reserve(s) \/ Replay(s) \/ ExecuteForbidden(s) \/ ArgumentRefused(s)
    \/ WalletGet(s) \/ AddXP(s) \/ Entitle(s) \/ Revoke(s) \/ CompleteObjective(s)
    \/ Credit(s) \/ Debit(s) \/ DebitRefused(s)
    \/ TransferSelect(s) \/ TransferLock(s) \/ TransferRefused(s)
    \/ TransferDebit(s) \/ TransferUpsert(s)
    \/ ClaimDuplicate(s) \/ ClaimReward(s) \/ Grant(s) \/ GrantRefused(s)
    \/ Commit(s) \/ DeadlockAbort(s)

Next == \E s \in Submissions : SubmitWith(s) \/ CommitUnanswered(s) \/ Rollback(s)

Spec == Init /\ [][Next]_vars

\* A request handler runs its transaction to the end.
FairSpec == Spec /\ \A s \in Submissions : WF_vars(SubmitWith(s))

-----------------------------------------------------------------------------
(* Properties *)

\* Every variable has the type of its column or local variable.
TypeOK ==
    /\ cmd \in [Requests -> Commands]
    /\ request \in [Requests -> Results \cup {"none"}]
    /\ events \in [Requests -> Nat] /\ audits \in [Requests -> Nat]
    /\ rows \subseteq Accounts
    /\ balance \in [Accounts -> Int]
    /\ ledger \in [Players -> Int]
    /\ claims \subseteq Players \X Nat \X Requests
    /\ completed \subseteq Players \X Nat \X Requests
    /\ pc \in [Submissions -> PCs]
    /\ locks \in [Submissions -> SUBSET Accounts]
    /\ seen \in [Submissions -> SUBSET Accounts]
    /\ write \in [Submissions -> [Accounts -> Int]]
    /\ post \in [Submissions -> BOOLEAN]
    /\ claim \in [Submissions -> BOOLEAN]
    /\ step \in [Submissions -> 1..Len(Grants)]
    /\ outcome \in [Submissions -> Results \cup {"none"}]
    /\ reply \in [Submissions -> Results \cup {"none", "error"}]

(***************************************************************************)
(* However often a request is submitted and whatever fails, it takes       *)
(* effect at most once, appends one event and, if an admin executes it,    *)
(* one audit record when it does, and everyone who gets an answer gets the *)
(* stored result.                                                          *)
(***************************************************************************)
ExactlyOnce ==
    /\ \A r \in Requests :
         LET stored == request[r] # "none" IN
         /\ events[r] = (IF stored THEN 1 ELSE 0)
         /\ audits[r] = (IF stored /\ cmd[r].admin /\ Permitted(cmd[r]) THEN 1 ELSE 0)
    /\ \A s \in Submissions :
         reply[s] \in Results => reply[s] = request[RequestOf[s]]

(***************************************************************************)
(* Experience is the sum of what the succeeded requests added: no addition *)
(* is lost, and none is made twice or by a request that was rejected.      *)
(***************************************************************************)
EveryAdditionCounts ==
    \A p \in Players :
        balance[<<"xp", p>>] = Start[<<"xp", p>>] + Total([r \in Requests |-> cmd[r].amount],
            {r \in Requests : request[r] = "succeeded" /\ cmd[r].op = "addXP" /\ cmd[r].player = p})

(***************************************************************************)
(* Checks on a balance and the writes that rest on them never let it go    *)
(* below zero, and no account has value without a row.                     *)
(***************************************************************************)
NoOverdraft ==
    \A a \in Accounts : balance[a] >= 0 /\ (a \notin rows => balance[a] = 0)

(***************************************************************************)
(* Scan of the reconciler: wallet and ledger agree, except for the players *)
(* of credits and debits that were rejected for the currency bounds.       *)
(***************************************************************************)
LedgerExplainsWallet ==
    \A p \in Players :
        \/ balance[<<"currency", p>>] = ledger[p]
        \/ \E r \in Requests :
             /\ request[r] \in {"LIMIT", "NESTED_COMMAND_REJECTED"}
             /\ cmd[r].op \in {"credit", "debit"} /\ cmd[r].asset = "currency" /\ cmd[r].player = p

(***************************************************************************)
(* A reward is granted once per source, and once per player if it says so, *)
(* and an objective is completed once per source, whatever sources and     *)
(* requests claim them at the same time.                                   *)
(***************************************************************************)
OneClaim ==
    /\ \A c, d \in claims : c[1] = d[1] /\ (OncePerPlayer \/ c[2] = d[2]) => c = d
    /\ \A c, d \in completed : c[1] = d[1] /\ c[2] = d[2] => c = d

(***************************************************************************)
(* However the statements of transactions interleave, fail and are         *)
(* repeated, the tables and the answers are those of commands that are     *)
(* executed one at a time, in the order of their commits: no transaction   *)
(* acts on a balance, a claim or a completion that is out of date.         *)
(***************************************************************************)
B == INSTANCE Bank
ImplementsBank == B!BankSpec

\* Every submission is answered: lock waits end.
EverySubmissionEnds == \A s \in Submissions : <>(pc[s] = "done")

-----------------------------------------------------------------------------
(* What the documentation says and the code does not do *)

\* The contract: "wallet balances cannot violate configured minimum/maximum".
BalanceWithinLimits ==
    \A a \in rows : a[1] \in Limited => Within(a[1], balance[a])
=============================================================================
