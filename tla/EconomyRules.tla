---------------------------- MODULE EconomyRules ----------------------------
(***************************************************************************)
(* What the economy is about: accounts, commands and the rules of the      *)
(* definition, shared by Economy and by Bank, the specification that       *)
(* Economy implements.                                                     *)
(*                                                                         *)
(* Wallets and inventories differ only in the limits and in the ledger, so *)
(* an account is an asset of a player, and credit stands for wallet.credit *)
(* and inventory.grant, debit for wallet.debit and inventory.consume,      *)
(* transfer for both transfers.  Experience is an account without limits   *)
(* and ledger; an entitlement is one that holds 1 or 0.  The definition    *)
(* has one currency, one item and one reward; there is one entitlement,    *)
(* one track and one objective.                                            *)
(***************************************************************************)
EXTENDS Integers, Sequences, FiniteSets, FiniteSetsExt

CONSTANTS
    Players,        \* numbers: the order of player_id decides the order of locks
    Requests,       \* request IDs
    Submissions,    \* the submissions made, retries included
    RequestOf,      \* the request ID of a submission
    Commands,       \* the commands a client may put into an envelope
    MaxCommandAmount,
    Lower, Upper,   \* minBalance and maxBalance, 0 and stackLimit
    Grants,         \* the grants of the reward, in order: <<asset, amount>>, 0 passes the compiler
    OncePerPlayer,  \* its oncePerPlayer
    Start,          \* the balances to begin with; no row where 0
    Faults          \* "rollback": a statement or the commit fails; "lostReply": see CommitUnanswered

Limited == {"currency", "item"}
Assets == Limited \cup {"xp", "entitlement"}
Accounts == Assets \X Players

\* The asset each operation is about; rewards and objectives have none.
AssetsOf ==
    [credit |-> Limited, debit |-> Limited, transfer |-> Limited, get |-> {"currency"},
     addXP |-> {"xp"}, entitle |-> {"entitlement"}, revoke |-> {"entitlement"},
     objective |-> Assets, claim |-> Assets]
Operations == DOMAIN AssetsOf

\* admin: the command is the argument of an admin.execute_command.
Envelopes ==
    [op : Operations, asset : Assets, player : Players, target : Players,
     amount : Nat, source : Nat, admin : BOOLEAN]

ASSUME EconomyConstants ==
    /\ Players \subseteq Nat
    /\ IsFiniteSet(Requests) /\ RequestOf \in [Submissions -> Requests]
    /\ Commands \subseteq Envelopes
    /\ \A c \in Commands : c.asset \in AssetsOf[c.op] /\ (c.op = "transfer" => c.target # c.player)
    /\ MaxCommandAmount \in Nat \ {0}
    /\ Lower \in [Limited -> Nat] /\ Upper \in [Limited -> Nat]
    /\ Grants \in Seq(Limited \X Nat) /\ Grants # <<>>
    /\ OncePerPlayer \in BOOLEAN
    /\ Start \in [Accounts -> Nat] /\ \A p \in Players : Start[<<"entitlement", p>>] \in 0..1
    /\ Faults \subseteq {"rollback", "lostReply"}

Results ==
    {"succeeded", "INVALID_ARGUMENT", "INSUFFICIENT", "LIMIT", "INVALID_REWARD",
     "NESTED_OPERATION_FORBIDDEN", "NESTED_COMMAND_REJECTED"}

\* The limits of the definition.
Within(asset, n) == Lower[asset] <= n /\ n <= Upper[asset]

\* What an admin may put into an execute_command.
allowedNestedOperation(op) == op \notin {"transfer", "get"}

Permitted(c) == c.admin => allowedNestedOperation(c.op)

\* intArg: positive, and not above maxCommandAmount.
ValidAmount(c) ==
    c.op \in {"credit", "debit", "transfer", "addXP"} => c.amount \in 1..MaxCommandAmount

\* The compiler lets an amount of 0 through, rewardClaim refuses it for a currency.
Payable(grant) == grant[1] = "item" \/ grant[2] >= 1

\* The sum of what f gives to the members of S.
Total(f, S) == MapThenSumSet(LAMBDA x : f[x], S)
=============================================================================
