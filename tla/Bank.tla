-------------------------------- MODULE Bank --------------------------------
(***************************************************************************)
(* What the command store and the economy promise, without transactions,   *)
(* locks and statements: a request is executed at most once, alone and in  *)
(* one step, on the tables as they are in that step, and a submission is   *)
(* answered at most once, with the stored result or with an error that     *)
(* tells nothing.  Economy implements it: a request takes effect where its *)
(* transaction commits.                                                    *)
(***************************************************************************)
EXTENDS EconomyRules

VARIABLES
    cmd,        \* the command each request ID stands for
    request,    \* its result, "none" until it is executed
    balance,    \* what each account holds
    ledger,     \* sum of the player's ledger entries
    claims,     \* rewards claimed: <<player, source, request>>
    completed,  \* objectives completed: <<player, source, request>>
    reply       \* what each submission was told

bankVars == <<cmd, request, balance, ledger, claims, completed, reply>>

BankInit ==
    /\ cmd \in [Requests -> Commands]
    /\ request = [r \in Requests |-> "none"]
    /\ balance = Start
    /\ ledger = [p \in Players |-> Start[<<"currency", p>>]]
    /\ claims = {} /\ completed = {}
    /\ reply = [s \in Submissions |-> "none"]

-----------------------------------------------------------------------------
(* What a command may do to the accounts *)

\* A result, what is added to each account, and whether a claim or completion is recorded.
Effect(result, change, inserted) == [result |-> result, change |-> change, inserted |-> inserted]

Nothing == [a \in Accounts |-> 0]
Adding(a, n) == [Nothing EXCEPT ![a] = n]

Holder(c) == <<c.asset, c.player>>
Receiver(c) == <<c.asset, c.target>>

Valid(c) == Permitted(c) /\ ValidAmount(c)

(***************************************************************************)
(* Refusals leave everything as it was.  A debit, a transfer or a read may *)
(* be refused for a balance that has changed by the time of the answer.    *)
(***************************************************************************)
Refusals(c) ==
    {x \in Results :
        \/ x = "NESTED_OPERATION_FORBIDDEN" /\ ~Permitted(c)
        \/ x = "INVALID_ARGUMENT" /\ Permitted(c) /\ ~ValidAmount(c)
        \/ x = "INSUFFICIENT" /\ Valid(c) /\ c.op \in {"debit", "transfer"}
        \/ x = "LIMIT" /\ Valid(c) /\ c.op \in {"transfer", "get"}}

Refused(c) == {Effect(x, Nothing, FALSE) : x \in Refusals(c)}

\* Rejected or not, the change is made; the limits decide on the result.
Changing(c, n) ==
    {Effect(IF Within(c.asset, balance[Holder(c)] + n) THEN "succeeded" ELSE "LIMIT",
            Adding(Holder(c), n), FALSE)}

Covers(c) == balance[Holder(c)] >= c.amount

\* What arrives is what leaves.  The limits of a new account are those of its first transfer.
Moving(c) == [Adding(Holder(c), -c.amount) EXCEPT ![Receiver(c)] = c.amount]

\* The grants before the first that cannot be paid.
Paid == {i \in 1..Len(Grants) : \A j \in 1..i : Payable(Grants[j])}
Amounts == [i \in 1..Len(Grants) |-> Grants[i][2]]

Reward(c) ==
    [a \in Accounts |->
        IF a[2] = c.player THEN Total(Amounts, {i \in Paid : Grants[i][1] = a[1]}) ELSE 0]

HasClaimed(c) == \E x \in claims : x[1] = c.player /\ (OncePerPlayer \/ x[2] = c.source)
HasCompleted(c) == \E x \in completed : x[1] = c.player /\ x[2] = c.source

\* A revocation may miss an entitlement that was granted after it looked.
Performing(c) ==
    CASE c.op = "credit"    -> Changing(c, c.amount)
      [] c.op = "debit"     -> IF Covers(c) THEN Changing(c, -c.amount) ELSE {}
      [] c.op = "transfer"  -> IF Covers(c) /\ c.amount <= Upper[c.asset]
                                 THEN {Effect("succeeded", Moving(c), FALSE)} ELSE {}
      [] c.op = "get"       -> {Effect("succeeded", Nothing, FALSE)}
      [] c.op = "addXP"     -> {Effect("succeeded", Adding(Holder(c), c.amount), FALSE)}
      [] c.op = "entitle"   -> {Effect("succeeded", Adding(Holder(c), 1 - balance[Holder(c)]), FALSE)}
      [] c.op = "revoke"    -> {Effect("succeeded", Adding(Holder(c), -balance[Holder(c)]), FALSE),
                                Effect("succeeded", Nothing, FALSE)}
      [] c.op = "objective" -> {Effect("succeeded", Nothing, ~HasCompleted(c))}
      [] c.op = "claim"     -> IF HasClaimed(c) THEN {Effect("succeeded", Nothing, FALSE)}
                               ELSE {Effect(IF Paid = 1..Len(Grants) THEN "succeeded" ELSE "INVALID_REWARD",
                                            Reward(c), TRUE)}

Effects(c) == Refused(c) \cup (IF Valid(c) THEN Performing(c) ELSE {})

-----------------------------------------------------------------------------
(* The bank *)

\* Why an admin's command is rejected is not stored.
Coded(c, result) ==
    IF c.admin /\ result \notin {"succeeded", "NESTED_OPERATION_FORBIDDEN"}
      THEN "NESTED_COMMAND_REJECTED" ELSE result

Record(r, op, inserted) ==
    IF inserted /\ cmd[r].op = op THEN {<<cmd[r].player, cmd[r].source, r>>} ELSE {}

\* Every change of a wallet is in the ledger, but the one of a command rejected for the limits.
Booked(e, p) == IF e.result = "LIMIT" THEN 0 ELSE e.change[<<"currency", p>>]

Perform(r, e) ==
    /\ request' = [request EXCEPT ![r] = Coded(cmd[r], e.result)]
    /\ balance' = [a \in Accounts |-> balance[a] + e.change[a]]
    /\ ledger' = [p \in Players |-> ledger[p] + Booked(e, p)]
    /\ claims' = claims \cup Record(r, "claim", e.inserted)
    /\ completed' = completed \cup Record(r, "objective", e.inserted)
    /\ UNCHANGED cmd

Tell(s, answer) == reply' = [reply EXCEPT ![s] = answer]

\* The answer to the submission that has the request executed may be lost.
Execute(s) ==
    LET r == RequestOf[s] IN
    /\ request[r] = "none" /\ reply[s] = "none"
    /\ \E e \in Effects(cmd[r]) :
         /\ Perform(r, e)
         /\ Tell(s, Coded(cmd[r], e.result)) \/ Tell(s, "error")

Repeat(s) ==
    /\ request[RequestOf[s]] # "none" /\ reply[s] = "none"
    /\ Tell(s, request[RequestOf[s]])
    /\ UNCHANGED <<cmd, request, balance, ledger, claims, completed>>

GiveUp(s) ==
    /\ reply[s] = "none" /\ Tell(s, "error")
    /\ UNCHANGED <<cmd, request, balance, ledger, claims, completed>>

BankNext == \E s \in Submissions : Execute(s) \/ Repeat(s) \/ GiveUp(s)

BankSpec == BankInit /\ [][BankNext]_bankVars
=============================================================================
