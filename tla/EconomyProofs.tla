--------------------------- MODULE EconomyProofs ---------------------------
(* Proofs about Economy. *)
EXTENDS Economy, TLAPS

-----------------------------------------------------------------------------
(* The inductive invariant *)

(***************************************************************************)
(* What a transaction has done by the statement it has come to: it writes  *)
(* rows that it has locked, its writes leave them at zero or above, and    *)
(* what it writes without ledger entries is no currency or is rejected.    *)
(***************************************************************************)
Unwritten(s) == \A a \in Accounts : write[s][a] = 0

Excused(s, p) ==
    /\ Cmd(s).op \in {"credit", "debit"} /\ Cmd(s).asset = "currency" /\ Cmd(s).player = p
    /\ outcome[s] \in {"LIMIT", "NESTED_COMMAND_REJECTED"}

WorkInv(s) ==
    /\ pc[s] \in {"start", "run", "locking"} => Unwritten(s)
    /\ pc[s] \in {"start", "run", "locking", "upsert"} => ~claim[s]
    /\ pc[s] = "grant" => Cmd(s).op = "claim" /\ (post[s] \/ Unwritten(s))
    /\ pc[s] = "commit" =>
         /\ outcome[s] \in Results
         /\ \A p \in Players : post[s] \/ write[s][<<"currency", p>>] = 0 \/ Excused(s, p)
    /\ Active(s) => /\ request[RequestOf[s]] = "none"
                    /\ \A a \in Accounts : /\ write[s][a] # 0 => a \in locks[s]
                                           /\ balance[a] + write[s][a] >= 0
    /\ reply[s] \in Results => pc[s] = "done"

\* One transaction at a time has a row or a request ID.
LockInv ==
    /\ \A s, t \in Submissions : \A a \in Accounts : a \in locks[s] /\ a \in locks[t] => s = t
    /\ \A s, t \in Submissions : Active(s) /\ Active(t) /\ RequestOf[s] = RequestOf[t] => s = t

\* The transaction has inserted a row of the operation's table that is not committed yet.
Holds(s, op) == claim[s] /\ Cmd(s).op = op /\ pc[s] \in {"grant", "commit"}

Rivals(s, t) == Cmd(s).player = Cmd(t).player /\ (OncePerPlayer \/ Cmd(s).source = Cmd(t).source)

\* What is inserted and not committed has no rival, committed or not.
ClaimInv ==
    /\ \A s \in Submissions : Holds(s, "claim") => ~Claimed(s)
    /\ \A s, t \in Submissions : Holds(s, "claim") /\ Holds(t, "claim") /\ Rivals(s, t) => s = t
    /\ \A s \in Submissions : Holds(s, "objective") => \A c \in completed : <<c[1], c[2]>> # ClaimKey(s)
    /\ \A s, t \in Submissions :
         Holds(s, "objective") /\ Holds(t, "objective") /\ ClaimKey(s) = ClaimKey(t) => s = t

Inv ==
    /\ TypeOK /\ (\A s \in Submissions : WorkInv(s)) /\ LockInv /\ ClaimInv
    /\ ExactlyOnce /\ NoOverdraft /\ LedgerExplainsWallet /\ OneClaim

-----------------------------------------------------------------------------
(* Constants *)

\* What the constants are, as far as the proofs go.
LEMMA Constants ==
    /\ RequestOf \in [Submissions -> Requests]
    /\ \A c \in Commands : /\ c.op \in Operations /\ c.asset \in Assets /\ c.asset \in AssetsOf[c.op]
                           /\ c.player \in Players /\ c.target \in Players
                           /\ c.amount \in Nat /\ c.source \in Nat /\ c.admin \in BOOLEAN
    /\ Start \in [Accounts -> Nat]
BY EconomyConstants DEF Envelopes

\* The grants of a reward are amounts of a currency or an item, and there is a first one.
LEMMA GrantFacts ==
    /\ Len(Grants) \in Nat /\ 1 \in 1 .. Len(Grants)
    /\ \A i \in 1 .. Len(Grants) : Grants[i][1] \in Limited /\ Grants[i][2] \in Nat
<1>1. Grants \in Seq(Limited \X Nat) /\ Grants # <<>>
  BY EconomyConstants
<1>2. Len(Grants) \in Nat /\ Len(Grants) # 0
  BY <1>1
<1>3. \A i \in 1 .. Len(Grants) : Grants[i] \in Limited \X Nat
  BY <1>1
<1>4. QED
  BY <1>2, <1>3

\* What the command of a submission names.
LEMMA CommandFacts ==
    ASSUME TypeOK, NEW s \in Submissions
    PROVE  /\ RequestOf[s] \in Requests /\ Cmd(s) \in Commands
           /\ Cmd(s).op \in Operations /\ Cmd(s).asset \in AssetsOf[Cmd(s).op]
           /\ Cmd(s).player \in Players /\ Cmd(s).amount \in Nat /\ Cmd(s).source \in Nat
           /\ Account(s) \in Accounts /\ Target(s) \in Accounts
           /\ Account(s) = <<Cmd(s).asset, Cmd(s).player>>
<1>1. RequestOf[s] \in Requests /\ Cmd(s) \in Commands
  BY Constants DEF TypeOK, Cmd
<1>2. QED
  BY <1>1, Constants DEF Account, Target, Accounts

-----------------------------------------------------------------------------
(* What the statements do *)

\* The transaction of t is where it was.
SameTx(t) ==
    /\ pc'[t] = pc[t] /\ locks'[t] = locks[t] /\ write'[t] = write[t] /\ post'[t] = post[t]
    /\ claim'[t] = claim[t] /\ outcome'[t] = outcome[t] /\ reply'[t] = reply[t]

\* A handler that is through has a result, and goes on to the commit.
LEMMA FinishEffect ==
    ASSUME TypeOK, NEW s \in Submissions, NEW result \in Results, Finish(s, result)
    PROVE  /\ pc'[s] = "commit" /\ outcome'[s] \in Results
           /\ outcome'[s] \in {result, "NESTED_COMMAND_REJECTED"}
           /\ \A t \in Submissions \ {s} : pc'[t] = pc[t] /\ outcome'[t] = outcome[t]
           /\ pc' \in [Submissions -> PCs] /\ outcome' \in [Submissions -> Results \cup {"none"}]
BY DEF Finish, Goto, TypeOK, Results, PCs

\* A statement that writes a row locks it, and nobody else has.
LEMMA WriteEffect ==
    ASSUME TypeOK, NEW s \in Submissions, NEW a \in Accounts, NEW n \in Int, Write(s, a, n)
    PROVE  /\ locks'[s] = locks[s] \cup {a} /\ write'[s][a] = n
           /\ \A b \in Accounts \ {a} : write'[s][b] = write[s][b]
           /\ \A t \in Submissions \ {s} : locks'[t] = locks[t] /\ write'[t] = write[t] /\ a \notin locks[t]
           /\ locks' \in [Submissions -> SUBSET Accounts]
           /\ write' \in [Submissions -> [Accounts -> Int]]
<1>1. locks \in [Submissions -> SUBSET Accounts] /\ write \in [Submissions -> [Accounts -> Int]]
  BY DEF TypeOK
<1>2. /\ locks' = [locks EXCEPT ![s] = @ \cup {a}] /\ write' = [write EXCEPT ![s][a] = n]
      /\ \A t \in Submissions \ {s} : a \notin locks[t]
  BY DEF Write, Free
<1>3. write[s] \in [Accounts -> Int] /\ write'[s] = [write[s] EXCEPT ![a] = n]
  BY <1>1, <1>2
<1>4. write'[s] \in [Accounts -> Int]
  BY <1>3
<1>5. write' \in [Submissions -> [Accounts -> Int]]
  BY <1>1, <1>2, <1>3, <1>4
<1>6. QED
  BY <1>1, <1>2, <1>3, <1>5

\* A request that is refused, or needs no write, only gets its result.
Refuse(s) ==
    \/ ExecuteForbidden(s) \/ ArgumentRefused(s) \/ WalletGet(s) \/ DebitRefused(s)
    \/ TransferRefused(s) \/ ClaimDuplicate(s) \/ GrantRefused(s)
    \/ Revoke(s) /\ Account(s) \notin rows

\* It writes nothing, and changes nothing of the others.
LEMMA RefuseEffect ==
    ASSUME TypeOK, NEW s \in Submissions, Refuse(s)
    PROVE  /\ pc[s] \in {"run", "locking", "grant"} /\ pc'[s] = "commit" /\ outcome'[s] \in Results
           /\ \A t \in Submissions \ {s} : pc'[t] = pc[t] /\ outcome'[t] = outcome[t]
           /\ pc' \in [Submissions -> PCs] /\ outcome' \in [Submissions -> Results \cup {"none"}]
           /\ UNCHANGED <<tables, locks, seen, write, post, claim, step, reply>>
<1>1. CASE ExecuteForbidden(s)
  BY <1>1 DEF ExecuteForbidden, Goto, TypeOK, Results, PCs
<1>2. CASE \E result \in Results :
             /\ Finish(s, result) /\ pc[s] \in {"run", "locking", "grant"}
             /\ UNCHANGED <<tables, locks, seen, write, post, claim, step, reply>>
  BY <1>2, FinishEffect
<1>3. CASE ArgumentRefused(s) \/ WalletGet(s) \/ DebitRefused(s)
  BY <1>2, <1>3 DEF ArgumentRefused, WalletGet, DebitRefused, Running, Results
<1>4. CASE TransferRefused(s) \/ ClaimDuplicate(s) \/ GrantRefused(s)
  BY <1>2, <1>4 DEF TransferRefused, ClaimDuplicate, GrantRefused, Running, Results
<1>5. CASE Revoke(s) /\ Account(s) \notin rows
  BY <1>2, <1>5 DEF Revoke, Running, Results
<1>6. QED
  BY <1>1, <1>3, <1>4, <1>5 DEF Refuse

\* A command that changes one account: what it adds, and whether it appends ledger entries.
Deposit(s, n) ==
    \/ Credit(s) /\ n = Cmd(s).amount
    \/ Debit(s) /\ n = -Cmd(s).amount
    \/ AddXP(s) /\ n = Cmd(s).amount
    \/ Entitle(s) /\ n = 1 - balance[Account(s)]
    \/ Revoke(s) /\ Account(s) \in rows /\ n = -balance[Account(s)]

\* Every such command adds a number.
LEMMA DepositNumbers ==
    ASSUME TypeOK, NEW s \in Submissions,
           \/ Credit(s) \/ Debit(s) \/ AddXP(s) \/ Entitle(s)
           \/ Revoke(s) /\ Account(s) \in rows
    PROVE  \E n \in Int : Deposit(s, n)
<1>1. Cmd(s).amount \in Int /\ -Cmd(s).amount \in Int
  BY CommandFacts
<1>2. balance[Account(s)] \in Int
  BY CommandFacts DEF TypeOK
<1>3. 1 - balance[Account(s)] \in Int /\ -balance[Account(s)] \in Int
  BY <1>2
<1>4. QED
  BY <1>1, <1>3 DEF Deposit

\* It locks and writes the account of the command, and finishes.
LEMMA DepositEffect ==
    ASSUME TypeOK, NoOverdraft, NEW s \in Submissions, NEW n \in Int, Deposit(s, n)
    PROVE  /\ pc[s] = "run" /\ pc'[s] = "commit" /\ outcome'[s] \in Results
           /\ Write(s, Account(s), n) /\ balance[Account(s)] + n >= 0
           /\ \/ post'[s]
              \/ Cmd(s).asset # "currency"
              \/ /\ Cmd(s).op \in {"credit", "debit"} /\ Cmd(s).asset = "currency"
                 /\ outcome'[s] \in {"LIMIT", "NESTED_COMMAND_REJECTED"} /\ ~post'[s]
           /\ \A t \in Submissions \ {s} : pc'[t] = pc[t] /\ outcome'[t] = outcome[t] /\ post'[t] = post[t]
           /\ pc' \in [Submissions -> PCs] /\ outcome' \in [Submissions -> Results \cup {"none"}]
           /\ post' \in [Submissions -> BOOLEAN]
           /\ UNCHANGED <<tables, seen, claim, step, reply>>
<1>0. /\ Account(s) \in Accounts /\ Cmd(s).amount \in Nat /\ post \in [Submissions -> BOOLEAN]
      /\ balance[Account(s)] \in Int /\ balance[Account(s)] >= 0
      /\ Cmd(s).asset \in AssetsOf[Cmd(s).op]
  BY CommandFacts DEF TypeOK, NoOverdraft
<1>1. CASE Credit(s) \/ Debit(s)
  <2>1. /\ pc[s] = "run" /\ Cmd(s).op \in {"credit", "debit"} /\ Change(s, n)
        /\ balance[Account(s)] + n >= 0
    <3>1. CASE Credit(s) /\ n = Cmd(s).amount
      BY <1>0, <3>1 DEF Credit, Running
    <3>2. CASE Debit(s) /\ n = -Cmd(s).amount
      <4>1. balance[Account(s)] >= Cmd(s).amount
        BY <3>2 DEF Debit, Affordable
      <4>2. QED
        BY <1>0, <3>2, <4>1 DEF Debit, Running
    <3>3. QED
      BY <1>1, <3>1, <3>2 DEF Deposit, Credit, Debit, AddXP, Entitle, Revoke, Running
  <2> DEFINE ok == Within(Cmd(s).asset, balance[Account(s)] + n)
  <2>2. /\ Write(s, Account(s), n) /\ post' = [post EXCEPT ![s] = ok]
        /\ Finish(s, IF ok THEN "succeeded" ELSE "LIMIT")
        /\ UNCHANGED <<tables, seen, claim, step, reply>>
    BY <2>1 DEF Change
  <2>3. ok \in BOOLEAN
    BY DEF Within
  <2> HIDE DEF ok
  <2>4. /\ post'[s] = ok /\ \A t \in Submissions \ {s} : post'[t] = post[t]
        /\ post' \in [Submissions -> BOOLEAN]
    BY <1>0, <2>2, <2>3
  <2>5. /\ pc'[s] = "commit" /\ outcome'[s] \in Results
        /\ ~ok => outcome'[s] \in {"LIMIT", "NESTED_COMMAND_REJECTED"}
        /\ \A t \in Submissions \ {s} : pc'[t] = pc[t] /\ outcome'[t] = outcome[t]
        /\ pc' \in [Submissions -> PCs] /\ outcome' \in [Submissions -> Results \cup {"none"}]
    <3>1. CASE ok
      BY <2>2, <3>1, FinishEffect DEF Results
    <3>2. CASE ~ok
      BY <2>2, <3>2, FinishEffect DEF Results
    <3>3. QED
      BY <3>1, <3>2
  <2>6. CASE ok
    BY <2>1, <2>2, <2>4, <2>5, <2>6
  <2>7. CASE ~ok /\ Cmd(s).asset = "currency"
    BY <2>1, <2>2, <2>4, <2>5, <2>7
  <2>8. CASE ~ok /\ Cmd(s).asset # "currency"
    BY <2>1, <2>2, <2>4, <2>5, <2>8
  <2>9. QED
    BY <2>6, <2>7, <2>8
<1>2. CASE ~Credit(s) /\ ~Debit(s)
  <2>1. /\ pc[s] = "run" /\ Cmd(s).op \in {"addXP", "entitle", "revoke"} /\ balance[Account(s)] + n >= 0
        /\ Write(s, Account(s), n) /\ Finish(s, "succeeded")
        /\ UNCHANGED <<tables, seen, post, claim, step, reply>>
    BY <1>0, <1>2 DEF Deposit, AddXP, Entitle, Revoke, Running
  <2>2. Cmd(s).asset # "currency"
    BY <1>0, <2>1 DEF AssetsOf
  <2>3. QED
    BY <1>0, <2>1, <2>2, FinishEffect DEF Results
<1>3. QED
  BY <1>1, <1>2

\* The transaction ends without an effect.
Fail(s) == Rollback(s) \/ DeadlockAbort(s)

\* The end of a transaction frees its rows and leaves the others alone.
LEMMA ReleaseEffect ==
    ASSUME TypeOK, NEW s \in Submissions, Release(s)
    PROVE  /\ pc'[s] = "done" /\ locks'[s] = {}
           /\ \A t \in Submissions \ {s} : pc'[t] = pc[t] /\ locks'[t] = locks[t]
           /\ pc' \in [Submissions -> PCs] /\ locks' \in [Submissions -> SUBSET Accounts]
           /\ UNCHANGED <<seen, write, post, claim, step, outcome>>
BY DEF Release, Goto, TypeOK, PCs

\* One grant of a reward adds to an account of the player, and goes on or ends the claim.
LEMMA GrantEffect ==
    ASSUME TypeOK, NEW s \in Submissions, Grant(s)
    PROVE  /\ pc[s] = "grant" /\ pc'[s] \in {"grant", "commit"}
           /\ pc'[s] = "commit" => outcome'[s] \in Results
           /\ \E a \in Accounts, n \in Nat : Write(s, a, write[s][a] + n)
           /\ post'[s]
           /\ \A t \in Submissions \ {s} : pc'[t] = pc[t] /\ outcome'[t] = outcome[t] /\ post'[t] = post[t]
           /\ pc' \in [Submissions -> PCs] /\ outcome' \in [Submissions -> Results \cup {"none"}]
           /\ post' \in [Submissions -> BOOLEAN] /\ step' \in [Submissions -> 1 .. Len(Grants)]
           /\ UNCHANGED <<tables, seen, claim, reply>>
<1> DEFINE grant == Grants[step[s]]
           a == <<grant[1], Cmd(s).player>>
<1>0. /\ step \in [Submissions -> 1 .. Len(Grants)] /\ post \in [Submissions -> BOOLEAN]
      /\ step[s] \in 1 .. Len(Grants) /\ Len(Grants) \in Nat
      /\ pc \in [Submissions -> PCs] /\ outcome \in [Submissions -> Results \cup {"none"}]
  BY GrantFacts DEF TypeOK
<1>1. a \in Accounts /\ grant[2] \in Nat
  BY <1>0, GrantFacts, CommandFacts DEF Accounts, Assets
<1>2. /\ pc[s] = "grant" /\ Write(s, a, write[s][a] + grant[2])
      /\ post' = [post EXCEPT ![s] = TRUE] /\ UNCHANGED <<tables, seen, claim, reply>>
  BY DEF Grant
<1>3. /\ pc'[s] \in {"grant", "commit"}
      /\ pc'[s] = "commit" => outcome'[s] \in Results
      /\ \A t \in Submissions \ {s} : pc'[t] = pc[t] /\ outcome'[t] = outcome[t]
      /\ pc' \in [Submissions -> PCs] /\ outcome' \in [Submissions -> Results \cup {"none"}]
      /\ step' \in [Submissions -> 1 .. Len(Grants)]
  <2>1. CASE step[s] = Len(Grants)
    <3>1. Finish(s, "succeeded") /\ UNCHANGED step
      BY <2>1 DEF Grant
    <3>2. "succeeded" \in Results
      BY DEF Results
    <3>3. QED
      BY <1>0, <3>1, <3>2, FinishEffect
  <2>2. CASE step[s] # Len(Grants)
    <3>1. step' = [step EXCEPT ![s] = @ + 1] /\ UNCHANGED <<pc, outcome>>
      BY <2>2 DEF Grant
    <3>2. step[s] + 1 \in 1 .. Len(Grants)
      BY <1>0, <2>2
    <3>3. step' \in [Submissions -> 1 .. Len(Grants)]
      BY <1>0, <3>1, <3>2
    <3>4. QED
      BY <1>0, <1>2, <3>1, <3>3
  <2>3. QED
    BY <2>1, <2>2
<1>4. /\ post'[s] /\ \A t \in Submissions \ {s} : post'[t] = post[t]
      /\ post' \in [Submissions -> BOOLEAN]
  BY <1>0, <1>2
<1> HIDE DEF grant
<1>5. \E b \in Accounts, n \in Nat : Write(s, b, write[s][b] + n)
  BY <1>1, <1>2
<1>6. QED
  BY <1>2, <1>3, <1>4, <1>5

\* The upsert of a transfer adds to the target and appends the ledger entries.
LEMMA UpsertEffect ==
    ASSUME TypeOK, NEW s \in Submissions, TransferUpsert(s)
    PROVE  /\ pc[s] = "upsert" /\ pc'[s] = "commit" /\ outcome'[s] \in Results
           /\ Write(s, Target(s), Cmd(s).amount) /\ post'[s]
           /\ \A t \in Submissions \ {s} : pc'[t] = pc[t] /\ outcome'[t] = outcome[t] /\ post'[t] = post[t]
           /\ pc' \in [Submissions -> PCs] /\ outcome' \in [Submissions -> Results \cup {"none"}]
           /\ post' \in [Submissions -> BOOLEAN]
           /\ UNCHANGED <<tables, seen, claim, step, reply>>
<1>1. /\ Finish(s, "succeeded") /\ "succeeded" \in Results /\ post' = [post EXCEPT ![s] = TRUE]
      /\ post \in [Submissions -> BOOLEAN]
  BY DEF TransferUpsert, Results, TypeOK
<1>2. QED
  BY <1>1, FinishEffect DEF TransferUpsert

\* The UPDATE of a transfer takes from a row that it has locked and that covers the amount.
LEMMA DebitEffect ==
    ASSUME TypeOK, NEW s \in Submissions, TransferDebit(s)
    PROVE  /\ pc[s] = "locking" /\ pc'[s] = "upsert" /\ Account(s) \in locks[s]
           /\ balance[Account(s)] >= Cmd(s).amount /\ write'[s][Account(s)] = -Cmd(s).amount
           /\ \A b \in Accounts \ {Account(s)} : write'[s][b] = write[s][b]
           /\ \A t \in Submissions \ {s} : pc'[t] = pc[t] /\ write'[t] = write[t]
           /\ pc' \in [Submissions -> PCs] /\ write' \in [Submissions -> [Accounts -> Int]]
           /\ UNCHANGED <<tables, locks, seen, post, claim, step, outcome, reply>>
<1>0. /\ write \in [Submissions -> [Accounts -> Int]] /\ pc \in [Submissions -> PCs]
      /\ Account(s) \in Accounts /\ Cmd(s).amount \in Nat /\ -Cmd(s).amount \in Int
  <2>1. Account(s) \in Accounts /\ Cmd(s).amount \in Nat
    BY CommandFacts
  <2>2. QED
    BY <2>1 DEF TypeOK
<1>1. /\ pc[s] = "locking" /\ pc' = [pc EXCEPT ![s] = "upsert"]
      /\ write' = [write EXCEPT ![s][Account(s)] = -Cmd(s).amount]
      /\ UNCHANGED <<tables, locks, seen, post, claim, step, outcome, reply>>
  BY DEF TransferDebit, Goto
<1>2. balance[Account(s)] >= Cmd(s).amount /\ Account(s) \in locks[s]
  BY DEF TransferDebit, Covered, Unlocked
<1>3. write'[s] = [write[s] EXCEPT ![Account(s)] = -Cmd(s).amount] /\ write[s] \in [Accounts -> Int]
  BY <1>0, <1>1
<1>4. write'[s] \in [Accounts -> Int] /\ write'[s][Account(s)] = -Cmd(s).amount
      /\ \A b \in Accounts \ {Account(s)} : write'[s][b] = write[s][b]
  BY <1>0, <1>3
<1>5. write' \in [Submissions -> [Accounts -> Int]]
  BY <1>0, <1>1, <1>3, <1>4
<1>6. pc'[s] = "upsert" /\ pc' \in [Submissions -> PCs]
      /\ \A t \in Submissions \ {s} : pc'[t] = pc[t] /\ write'[t] = write[t]
  BY <1>0, <1>1 DEF PCs
<1>7. QED
  BY <1>1, <1>2, <1>4, <1>5, <1>6

\* The UPDATE and INSERTs that end every transaction.
LEMMA StoreEffect ==
    ASSUME TypeOK, NEW s \in Submissions, Store(s)
    PROVE  /\ pc[s] = "commit" /\ pc'[s] = "done" /\ request'[RequestOf[s]] = outcome[s]
           /\ \A r \in Requests \ {RequestOf[s]} :
                request'[r] = request[r] /\ events'[r] = events[r] /\ audits'[r] = audits[r]
           /\ events'[RequestOf[s]] = events[RequestOf[s]] + 1
           /\ audits'[RequestOf[s]] = IF Cmd(s).admin /\ Permitted(Cmd(s)) THEN audits[RequestOf[s]] + 1
                                      ELSE audits[RequestOf[s]]
           /\ \A a \in Accounts : balance'[a] = balance[a] + write[s][a]
           /\ \A p \in Players : ledger'[p] = ledger[p] + Posted(s, p)
           /\ rows' = rows \cup locks[s] /\ cmd' = cmd
           /\ claims' = claims \cup Inserted(s, "claim")
           /\ completed' = completed \cup Inserted(s, "objective")
           /\ Release(s)
<1>1. RequestOf[s] \in Requests
  BY CommandFacts
<1>2. request \in [Requests -> Results \cup {"none"}] /\ events \in [Requests -> Nat]
      /\ audits \in [Requests -> Nat]
  BY DEF TypeOK
<1>3. pc'[s] = "done" /\ Release(s)
  BY ReleaseEffect DEF Store
<1>4. /\ request' = [request EXCEPT ![RequestOf[s]] = outcome[s]]
      /\ events' = [events EXCEPT ![RequestOf[s]] = @ + 1]
      /\ audits' = [audits EXCEPT ![RequestOf[s]] =
                      IF Cmd(s).admin /\ Permitted(Cmd(s)) THEN @ + 1 ELSE @]
  BY DEF Store
<1>5. /\ pc[s] = "commit" /\ rows' = rows \cup locks[s] /\ cmd' = cmd
      /\ claims' = claims \cup Inserted(s, "claim")
      /\ completed' = completed \cup Inserted(s, "objective")
      /\ \A a \in Accounts : balance'[a] = balance[a] + write[s][a]
      /\ \A p \in Players : ledger'[p] = ledger[p] + Posted(s, p)
  BY DEF Store
<1>6. /\ request'[RequestOf[s]] = outcome[s] /\ events'[RequestOf[s]] = events[RequestOf[s]] + 1
      /\ audits'[RequestOf[s]] = IF Cmd(s).admin /\ Permitted(Cmd(s)) THEN audits[RequestOf[s]] + 1
                                 ELSE audits[RequestOf[s]]
      /\ \A r \in Requests \ {RequestOf[s]} :
           request'[r] = request[r] /\ events'[r] = events[r] /\ audits'[r] = audits[r]
  BY <1>1, <1>2, <1>4
<1>7. QED
  BY <1>3, <1>5, <1>6

-----------------------------------------------------------------------------
(* Types *)

\* A commit keeps every column in its type.
LEMMA StoreTypes ==
    ASSUME TypeOK, NEW s \in Submissions, Store(s),
           reply' \in [Submissions -> Results \cup {"none", "error"}]
    PROVE  TypeOK'
<1>1. /\ RequestOf[s] \in Requests /\ outcome[s] \in Results \cup {"none"}
      /\ Cmd(s).player \in Players /\ Cmd(s).source \in Nat
  BY CommandFacts DEF TypeOK
<1>2. request' \in [Requests -> Results \cup {"none"}]
  BY <1>1 DEF TypeOK, Store
<1>3. events' \in [Requests -> Nat]
  BY <1>1 DEF TypeOK, Store
<1>4. audits' \in [Requests -> Nat]
  BY <1>1 DEF TypeOK, Store
<1>5. balance' \in [Accounts -> Int] /\ ledger' \in [Players -> Int]
  <2>1. /\ balance \in [Accounts -> Int] /\ ledger \in [Players -> Int] /\ write[s] \in [Accounts -> Int]
        /\ \A p \in Players : <<"currency", p>> \in Accounts
    <3>1. \A p \in Players : <<"currency", p>> \in Accounts
      BY DEF Accounts, Assets, Limited
    <3>2. QED
      BY <3>1 DEF TypeOK
  <2>2. ASSUME NEW p \in Players PROVE Posted(s, p) \in Int
    <3> DEFINE a == <<"currency", p>>
    <3>1. a \in Accounts
      BY <2>1
    <3> HIDE DEF a
    <3>2. write[s][a] \in Int
      BY <2>1, <3>1
    <3>3. Posted(s, p) = IF post[s] THEN write[s][a] ELSE 0
      BY DEF Posted, a
    <3>4. QED
      BY <3>2, <3>3
  <2>3. QED
    <3>1. balance' = [a \in Accounts |-> balance[a] + write[s][a]]
          /\ ledger' = [p \in Players |-> ledger[p] + Posted(s, p)]
      BY DEF Store
    <3>2. \A a \in Accounts : balance[a] + write[s][a] \in Int
      BY <2>1
    <3>3. \A p \in Players : ledger[p] + Posted(s, p) \in Int
      BY <2>1, <2>2
    <3>4. QED
      BY <3>1, <3>2, <3>3
<1>6. rows' \subseteq Accounts /\ cmd' \in [Requests -> Commands]
  BY DEF TypeOK, Store
<1>7. claims' \subseteq Players \X Nat \X Requests /\ completed' \subseteq Players \X Nat \X Requests
  <2>1. \A op : Inserted(s, op) \subseteq Players \X Nat \X Requests
    BY <1>1 DEF Inserted
  <2>2. QED
    BY <2>1 DEF TypeOK, Store
<1>8. Release(s)
  BY DEF Store
<1>9. QED
  BY <1>2, <1>3, <1>4, <1>5, <1>6, <1>7, <1>8, ReleaseEffect DEF TypeOK

\* Before the commit only local variables change.
LEMMA LocalTypes ==
    ASSUME TypeOK, UNCHANGED <<tables, seen, claim>>,
           pc' \in [Submissions -> PCs], locks' \in [Submissions -> SUBSET Accounts],
           write' \in [Submissions -> [Accounts -> Int]], post' \in [Submissions -> BOOLEAN],
           step' \in [Submissions -> 1 .. Len(Grants)], outcome' \in [Submissions -> Results \cup {"none"}],
           reply' \in [Submissions -> Results \cup {"none", "error"}]
    PROVE  TypeOK'
BY DEF TypeOK, tables

\* Every step keeps every column and every local variable in its type.
LEMMA TypeStep ==
    ASSUME TypeOK, NoOverdraft, NEW s \in Submissions, SubmitWith(s) \/ CommitUnanswered(s) \/ Rollback(s)
    PROVE  TypeOK'
<1> USE DEF tables
<1>0. RequestOf[s] \in Requests /\ request[RequestOf[s]] \in Results \cup {"none"}
  BY CommandFacts DEF TypeOK
<1>1. CASE Reserve(s)
  BY <1>1 DEF Reserve, Goto, TypeOK, PCs
<1>2. CASE Replay(s)
  BY <1>0, <1>2 DEF Replay, Goto, TypeOK, PCs
<1>3. CASE Refuse(s)
  BY <1>3, RefuseEffect DEF TypeOK
<1>4. ASSUME NEW n \in Int, Deposit(s, n) PROVE TypeOK'
  <2>1. Account(s) \in Accounts
    BY CommandFacts
  <2>2. /\ Write(s, Account(s), n) /\ UNCHANGED <<tables, seen, claim, step, reply>>
        /\ pc' \in [Submissions -> PCs] /\ outcome' \in [Submissions -> Results \cup {"none"}]
        /\ post' \in [Submissions -> BOOLEAN]
    BY <1>4, DepositEffect
  <2>3. locks' \in [Submissions -> SUBSET Accounts] /\ write' \in [Submissions -> [Accounts -> Int]]
    BY <1>4, <2>1, <2>2, WriteEffect
  <2>4. step' \in [Submissions -> 1 .. Len(Grants)] /\ reply' \in [Submissions -> Results \cup {"none", "error"}]
    BY <2>2 DEF TypeOK
  <2>5. QED
    BY <2>2, <2>3, <2>4, LocalTypes
<1>5. CASE CompleteObjective(s)
  <2>1. Finish(s, "succeeded") /\ "succeeded" \in Results
    BY <1>5 DEF CompleteObjective, Results
  <2>2. QED
    BY <1>5, <2>1, FinishEffect DEF CompleteObjective, TypeOK
<1>6. CASE TransferSelect(s)
  BY <1>6 DEF TransferSelect, Goto, TypeOK, PCs
<1>7. CASE TransferLock(s)
  BY <1>7 DEF TransferLock, Unlocked, TypeOK
<1>8. CASE TransferDebit(s)
  BY <1>8, DebitEffect DEF TypeOK
<1>9. CASE TransferUpsert(s)
  <2>1. Target(s) \in Accounts /\ Cmd(s).amount \in Int
    BY CommandFacts
  <2>2. QED
    <3>1. /\ Write(s, Target(s), Cmd(s).amount) /\ UNCHANGED <<tables, seen, claim, step, reply>>
          /\ pc' \in [Submissions -> PCs] /\ outcome' \in [Submissions -> Results \cup {"none"}]
          /\ post' \in [Submissions -> BOOLEAN]
      BY <1>9, UpsertEffect
    <3>2. locks' \in [Submissions -> SUBSET Accounts] /\ write' \in [Submissions -> [Accounts -> Int]]
      BY <2>1, <3>1, WriteEffect
    <3>3. step' \in [Submissions -> 1 .. Len(Grants)] /\ reply' \in [Submissions -> Results \cup {"none", "error"}]
      BY <3>1 DEF TypeOK
    <3>4. QED
      BY <3>1, <3>2, <3>3, LocalTypes
<1>10. CASE ClaimReward(s)
  BY <1>10 DEF ClaimReward, Goto, TypeOK, PCs
<1>11. CASE Grant(s)
  <2>1. PICK a \in Accounts, n \in Nat : Write(s, a, write[s][a] + n)
    BY <1>11, GrantEffect
  <2>2. write[s][a] + n \in Int
    BY DEF TypeOK
  <2>3. QED
    <3>1. /\ UNCHANGED <<tables, seen, claim, reply>>
          /\ pc' \in [Submissions -> PCs] /\ outcome' \in [Submissions -> Results \cup {"none"}]
          /\ post' \in [Submissions -> BOOLEAN] /\ step' \in [Submissions -> 1 .. Len(Grants)]
      BY <1>11, GrantEffect
    <3>2. locks' \in [Submissions -> SUBSET Accounts] /\ write' \in [Submissions -> [Accounts -> Int]]
      BY <2>1, <2>2, WriteEffect
    <3>3. reply' \in [Submissions -> Results \cup {"none", "error"}]
      BY <3>1 DEF TypeOK
    <3>4. QED
      BY <3>1, <3>2, <3>3, LocalTypes
<1>12. CASE Fail(s)
  BY <1>12, ReleaseEffect DEF Fail, Rollback, DeadlockAbort, TypeOK
<1>13. CASE Commit(s) \/ CommitUnanswered(s)
  <2>1. Store(s) /\ reply' \in [Submissions -> Results \cup {"none", "error"}]
    BY <1>13 DEF Commit, CommitUnanswered, TypeOK
  <2>2. QED
    BY <2>1, StoreTypes
<1>14. QED
  <2>1. CASE \E n \in Int : Deposit(s, n)
    BY <1>4, <2>1
  <2>2. CASE Credit(s) \/ Debit(s) \/ AddXP(s) \/ Entitle(s) \/ (Revoke(s) /\ Account(s) \in rows)
    BY <2>1, <2>2, DepositNumbers DEF Deposit
  <2>3. QED
    BY <1>1, <1>2, <1>3, <1>5, <1>6, <1>7, <1>8, <1>9, <1>10, <1>11, <1>12, <1>13, <2>2
       DEF SubmitWith, Refuse, Fail

-----------------------------------------------------------------------------
(* Steps before the commit *)

\* A step of a submission other than a commit.
Local(s) ==
    \/ Reserve(s) \/ Replay(s) \/ Refuse(s) \/ (\E n \in Int : Deposit(s, n)) \/ CompleteObjective(s)
    \/ TransferSelect(s) \/ TransferLock(s) \/ TransferDebit(s) \/ TransferUpsert(s)
    \/ ClaimReward(s) \/ Grant(s) \/ Fail(s)

\* The steps of a submission are those and the two ways to commit.
LEMMA StepKinds ==
    ASSUME TypeOK, NEW s \in Submissions, SubmitWith(s) \/ CommitUnanswered(s) \/ Rollback(s)
    PROVE  \/ Local(s)
           \/ Store(s) /\ (reply' = [reply EXCEPT ![s] = outcome[s]] \/ reply' = [reply EXCEPT ![s] = "error"])
<1>1. CASE Credit(s) \/ Debit(s) \/ AddXP(s) \/ Entitle(s) \/ (Revoke(s) /\ Account(s) \in rows)
  BY <1>1, DepositNumbers DEF Local
<1>2. QED
  BY <1>1 DEF SubmitWith, Local, Refuse, Fail, Commit, CommitUnanswered

\* Until it commits, a transaction changes no table and nothing of another transaction.
LEMMA LocalFrame ==
    ASSUME TypeOK, NoOverdraft, NEW s \in Submissions, Local(s)
    PROVE  UNCHANGED tables /\ \A t \in Submissions \ {s} : SameTx(t)
<1> USE DEF SameTx
<1>1. CASE Reserve(s)
  BY <1>1 DEF Reserve, Goto, TypeOK
<1>2. CASE Replay(s)
  BY <1>2 DEF Replay, Goto, TypeOK
<1>3. CASE Refuse(s)
  BY <1>3, RefuseEffect
<1>4. ASSUME NEW n \in Int, Deposit(s, n) PROVE UNCHANGED tables /\ \A t \in Submissions \ {s} : SameTx(t)
  <2>1. Account(s) \in Accounts /\ Write(s, Account(s), n)
    BY <1>4, CommandFacts, DepositEffect
  <2>2. \A t \in Submissions \ {s} : locks'[t] = locks[t] /\ write'[t] = write[t]
    BY <2>1, WriteEffect
  <2>3. QED
    BY <1>4, <2>2, DepositEffect
<1>5. CASE CompleteObjective(s)
  BY <1>5 DEF CompleteObjective, Finish, Goto, TypeOK
<1>6. CASE TransferSelect(s) \/ TransferLock(s) \/ ClaimReward(s)
  BY <1>6 DEF TransferSelect, TransferLock, ClaimReward, Goto, TypeOK
<1>7. CASE TransferDebit(s)
  BY <1>7, DebitEffect
<1>8. CASE TransferUpsert(s)
  <2>1. Target(s) \in Accounts /\ Cmd(s).amount \in Int /\ Write(s, Target(s), Cmd(s).amount)
    BY <1>8, CommandFacts, UpsertEffect
  <2>2. \A t \in Submissions \ {s} : locks'[t] = locks[t] /\ write'[t] = write[t]
    BY <2>1, WriteEffect
  <2>3. QED
    BY <1>8, <2>2, UpsertEffect
<1>9. CASE Grant(s)
  <2>1. PICK a \in Accounts, n \in Nat : Write(s, a, write[s][a] + n)
    BY <1>9, GrantEffect
  <2>2. write[s][a] + n \in Int
    BY DEF TypeOK
  <2>3. \A t \in Submissions \ {s} : locks'[t] = locks[t] /\ write'[t] = write[t]
    BY <2>1, <2>2, WriteEffect
  <2>4. QED
    BY <1>9, <2>3, GrantEffect
<1>10. CASE Fail(s)
  <2>1. /\ Release(s) /\ UNCHANGED tables /\ reply' = [reply EXCEPT ![s] = "error"]
        /\ reply \in [Submissions -> Results \cup {"none", "error"}]
    BY <1>10 DEF Fail, Rollback, DeadlockAbort, TypeOK
  <2>2. QED
    BY <2>1, ReleaseEffect
<1>11. QED
  BY <1>1, <1>2, <1>3, <1>4, <1>5, <1>6, <1>7, <1>8, <1>9, <1>10 DEF Local

\* Another transaction rests on what it did.
LEMMA OthersWork ==
    ASSUME NEW t \in Submissions, WorkInv(t), SameTx(t), UNCHANGED tables
    PROVE  WorkInv(t)'
BY DEF WorkInv, SameTx, tables, Unwritten, Excused, Active, Cmd

\* An active transaction has locked what it writes, and leaves it at zero or above.
LEMMA ActiveWork ==
    ASSUME NEW s \in Submissions, WorkInv(s)
    PROVE  Active(s) => /\ request[RequestOf[s]] = "none" /\ reply[s] \notin Results
                        /\ \A a \in Accounts : /\ write[s][a] # 0 => a \in locks[s]
                                               /\ balance[a] + write[s][a] >= 0
BY DEF WorkInv, Active

\* What the transaction itself rests on after its next statement.
LEMMA OwnWork ==
    ASSUME TypeOK, NoOverdraft, NEW s \in Submissions, WorkInv(s), Local(s), UNCHANGED tables
    PROVE  WorkInv(s)'
<1> DEFINE Sound == \A a \in Accounts : /\ write'[s][a] # 0 => a \in locks'[s]
                                        /\ balance[a] + write'[s][a] >= 0
           Explained == \A p \in Players : \/ post'[s] \/ write'[s][<<"currency", p>>] = 0
                                           \/ /\ Cmd(s).op \in {"credit", "debit"}
                                              /\ Cmd(s).asset = "currency" /\ Cmd(s).player = p
                                              /\ outcome'[s] \in {"LIMIT", "NESTED_COMMAND_REJECTED"}
<1>0. /\ Cmd(s)' = Cmd(s) /\ UNCHANGED <<request, balance>> /\ balance \in [Accounts -> Int]
      /\ write[s] \in [Accounts -> Int] /\ \A a \in Accounts : balance[a] >= 0
      /\ \A p \in Players : <<"currency", p>> \in Accounts
  <2>1. \A p \in Players : <<"currency", p>> \in Accounts
    BY DEF Accounts, Assets, Limited
  <2>2. QED
    BY <2>1 DEF TypeOK, NoOverdraft, tables, Cmd
<1>1. ASSUME pc'[s] = "commit", outcome'[s] \in Results, Sound, Explained,
             request[RequestOf[s]] = "none", reply'[s] \notin Results
      PROVE  WorkInv(s)'
  BY <1>0, <1>1 DEF WorkInv, Active, Excused
<1>2. ASSUME pc'[s] = "done" PROVE WorkInv(s)'
  BY <1>2 DEF WorkInv, Active
<1>3. Active(s) => /\ request[RequestOf[s]] = "none" /\ reply[s] \notin Results
                   /\ \A a \in Accounts : /\ write[s][a] # 0 => a \in locks[s]
                                          /\ balance[a] + write[s][a] >= 0
  BY ActiveWork
<1>4. CASE Reserve(s)
  BY <1>0, <1>4 DEF Reserve, Goto, TypeOK, WorkInv, Active, Unwritten
<1>5. CASE Replay(s)
  BY <1>2, <1>5 DEF Replay, Goto, TypeOK
<1>6. CASE Refuse(s)
  <2>1. /\ pc[s] \in {"run", "locking", "grant"} /\ pc'[s] = "commit" /\ outcome'[s] \in Results
        /\ UNCHANGED <<locks, write, post, reply>>
    BY <1>6, RefuseEffect
  <2>2. post[s] \/ Unwritten(s)
    BY <2>1 DEF WorkInv
  <2>3. Explained
    BY <1>0, <2>1, <2>2 DEF Unwritten
  <2>4. QED
    BY <1>0, <1>1, <1>3, <2>1, <2>3 DEF Active
<1>7. ASSUME NEW n \in Int, Deposit(s, n) PROVE WorkInv(s)'
  <2>1. /\ pc[s] = "run" /\ pc'[s] = "commit" /\ outcome'[s] \in Results /\ reply' = reply
        /\ Write(s, Account(s), n) /\ balance[Account(s)] + n >= 0
    BY <1>7, DepositEffect
  <2>2. /\ Account(s) \in Accounts /\ locks'[s] = locks[s] \cup {Account(s)} /\ write'[s][Account(s)] = n
        /\ \A b \in Accounts \ {Account(s)} : write'[s][b] = 0
    BY <2>1, WriteEffect, CommandFacts DEF WorkInv, Unwritten
  <2>3. Sound
    BY <1>0, <2>1, <2>2
  <2>4. Explained
    <3> SUFFICES ASSUME NEW p \in Players, ~post'[s], write'[s][<<"currency", p>>] # 0
                 PROVE  /\ Cmd(s).op \in {"credit", "debit"}
                        /\ Cmd(s).asset = "currency" /\ Cmd(s).player = p
                        /\ outcome'[s] \in {"LIMIT", "NESTED_COMMAND_REJECTED"}
      OBVIOUS
    <3>1. Account(s) = <<"currency", p>>
      BY <1>0, <2>2
    <3>2. Cmd(s).asset = "currency" /\ Cmd(s).player = p
      BY <3>1 DEF Account
    <3>3. QED
      BY <1>7, <3>2, DepositEffect
  <2>5. QED
    BY <1>1, <1>3, <2>1, <2>3, <2>4 DEF Active
<1>8. CASE CompleteObjective(s)
  <2>1. /\ pc[s] = "run" /\ Finish(s, "succeeded") /\ "succeeded" \in Results
        /\ UNCHANGED <<locks, write, post, reply>>
    BY <1>8 DEF CompleteObjective, Running, Results
  <2>2. pc'[s] = "commit" /\ outcome'[s] \in Results
    BY <2>1, FinishEffect
  <2>3. Explained
    BY <1>0, <2>1 DEF WorkInv, Unwritten
  <2>4. QED
    BY <1>0, <1>1, <1>3, <2>1, <2>2, <2>3 DEF Active
<1>9. CASE TransferSelect(s)
  BY <1>0, <1>9 DEF TransferSelect, Running, Goto, TypeOK, WorkInv, Active, Unwritten
<1>10. CASE TransferLock(s)
  <2>1. pc[s] = "locking" /\ UNCHANGED <<pc, write, post, claim, outcome, reply>>
    BY <1>10 DEF TransferLock
  <2>2. \A a \in Accounts : write[s][a] = 0
    BY <2>1 DEF WorkInv, Unwritten
  <2>3. QED
    BY <1>0, <1>3, <2>1, <2>2 DEF WorkInv, Active, Unwritten
<1>11. CASE TransferDebit(s)
  <2> DEFINE m == Cmd(s).amount
  <2>1. /\ pc[s] = "locking" /\ pc'[s] = "upsert" /\ Account(s) \in locks[s]
        /\ balance[Account(s)] >= m /\ write'[s][Account(s)] = -m
        /\ \A b \in Accounts \ {Account(s)} : write'[s][b] = write[s][b]
        /\ UNCHANGED <<locks, claim, reply>>
    BY <1>11, DebitEffect
  <2>2. m \in Nat /\ Account(s) \in Accounts
    BY CommandFacts
  <2>3. \A a \in Accounts : write[s][a] = 0
    BY <2>1 DEF WorkInv, Unwritten
  <2> HIDE DEF m
  <2>4. Sound
    BY <1>0, <2>1, <2>2, <2>3
  <2>5. ~claim[s] /\ Active(s)
    BY <2>1 DEF WorkInv, Active
  <2>6. QED
    BY <1>0, <1>3, <2>1, <2>4, <2>5 DEF WorkInv, Active
<1>12. CASE TransferUpsert(s)
  <2> DEFINE m == Cmd(s).amount
  <2>1. /\ pc[s] = "upsert" /\ pc'[s] = "commit" /\ outcome'[s] \in Results /\ reply' = reply
        /\ Write(s, Target(s), m) /\ post'[s]
    BY <1>12, UpsertEffect
  <2>2. m \in Nat /\ m \in Int /\ Target(s) \in Accounts
    BY CommandFacts
  <2>3. /\ locks'[s] = locks[s] \cup {Target(s)} /\ write'[s][Target(s)] = m
        /\ \A b \in Accounts \ {Target(s)} : write'[s][b] = write[s][b]
    BY <2>1, <2>2, WriteEffect
  <2>4. Active(s)
    BY <2>1 DEF Active
  <2> HIDE DEF m
  <2>5. Sound
    BY <1>0, <1>3, <2>2, <2>3, <2>4
  <2>6. QED
    BY <1>1, <1>3, <2>1, <2>4, <2>5
<1>13. CASE ClaimReward(s)
  BY <1>0, <1>13 DEF ClaimReward, Running, Goto, TypeOK, WorkInv, Active, Unwritten
<1>14. CASE Grant(s)
  <2>1. /\ pc[s] = "grant" /\ pc'[s] \in {"grant", "commit"} /\ post'[s] /\ UNCHANGED <<claim, reply>>
        /\ pc'[s] = "commit" => outcome'[s] \in Results
    BY <1>14, GrantEffect
  <2>2. PICK a \in Accounts, n \in Nat : Write(s, a, write[s][a] + n)
    BY <1>14, GrantEffect
  <2>3. write[s][a] + n \in Int
    BY <1>0
  <2>4. /\ locks'[s] = locks[s] \cup {a} /\ write'[s][a] = write[s][a] + n
        /\ \A b \in Accounts \ {a} : write'[s][b] = write[s][b]
    BY <2>2, <2>3, WriteEffect
  <2>5. Active(s) /\ Cmd(s).op = "claim"
    BY <2>1 DEF Active, WorkInv
  <2>6. Sound
    BY <1>0, <1>3, <2>4, <2>5
  <2>7. CASE pc'[s] = "commit"
    BY <1>1, <1>3, <2>1, <2>5, <2>6, <2>7
  <2>8. CASE pc'[s] = "grant"
    BY <1>0, <1>3, <2>1, <2>5, <2>6, <2>8 DEF WorkInv, Active
  <2>9. QED
    BY <2>1, <2>7, <2>8
<1>15. CASE Fail(s)
  BY <1>2, <1>15, ReleaseEffect DEF Fail, Rollback, DeadlockAbort
<1>16. QED
  BY <1>4, <1>5, <1>6, <1>7, <1>8, <1>9, <1>10, <1>11, <1>12, <1>13, <1>14, <1>15 DEF Local

\* A row that a transaction locks was free; only Reserve makes a submission active.
LEMMA LocalLocks ==
    ASSUME TypeOK, NoOverdraft, NEW s \in Submissions, Local(s)
    PROVE  /\ \A a \in locks'[s] \ locks[s] : \A t \in Submissions \ {s} : a \notin locks[t]
           /\ ~Active(s) /\ Active(s)' => ~Reserved(s) /\ request[RequestOf[s]] = "none"
<1> DEFINE Goal == \A a \in locks'[s] \ locks[s] : \A t \in Submissions \ {s} : a \notin locks[t]
<1>1. CASE Reserve(s)
  BY <1>1 DEF Reserve
<1>2. CASE Replay(s) \/ Fail(s)
  BY <1>2, ReleaseEffect DEF Replay, Fail, Rollback, DeadlockAbort, Goto, TypeOK, Active
<1>3. CASE Refuse(s)
  BY <1>3, RefuseEffect DEF Active
<1>4. ASSUME NEW n \in Int, Deposit(s, n) PROVE Goal /\ Active(s)
  <2>1. Account(s) \in Accounts /\ Write(s, Account(s), n) /\ pc[s] = "run"
    BY <1>4, CommandFacts, DepositEffect
  <2>2. QED
    BY <2>1, WriteEffect DEF Active
<1>5. CASE CompleteObjective(s) \/ TransferSelect(s) \/ ClaimReward(s)
  BY <1>5 DEF CompleteObjective, TransferSelect, ClaimReward, Running, Active
<1>6. CASE TransferLock(s)
  BY <1>6 DEF TransferLock, Free, TypeOK, Active
<1>7. CASE TransferDebit(s)
  BY <1>7, DebitEffect DEF Active
<1>8. CASE TransferUpsert(s)
  <2>1. Target(s) \in Accounts /\ Cmd(s).amount \in Int /\ Write(s, Target(s), Cmd(s).amount) /\ pc[s] = "upsert"
    BY <1>8, CommandFacts, UpsertEffect
  <2>2. QED
    BY <2>1, WriteEffect DEF Active
<1>9. CASE Grant(s)
  <2>1. PICK a \in Accounts, n \in Nat : Write(s, a, write[s][a] + n)
    BY <1>9, GrantEffect
  <2>2. pc[s] = "grant"
    BY <1>9, GrantEffect
  <2>3. write[s][a] + n \in Int
    BY DEF TypeOK
  <2>4. QED
    BY <2>1, <2>2, <2>3, WriteEffect DEF Active
<1>10. QED
  BY <1>1, <1>2, <1>3, <1>4, <1>5, <1>6, <1>7, <1>8, <1>9 DEF Local

\* No two transactions come to have the same row or the same request ID.
LEMMA LocalLockInv ==
    ASSUME TypeOK, NoOverdraft, LockInv, NEW s \in Submissions, Local(s)
    PROVE  LockInv'
<1>1. \A t \in Submissions \ {s} : SameTx(t)
  BY LocalFrame
<1>2. \A a \in locks'[s] : a \in locks[s] \/ \A t \in Submissions \ {s} : a \notin locks[t]
  BY LocalLocks
<1>3. ASSUME NEW t \in Submissions \ {s}, NEW a, a \in locks'[s], a \in locks'[t], a \in Accounts
      PROVE  FALSE
  BY <1>1, <1>2, <1>3 DEF SameTx, LockInv
<1>4. ASSUME NEW t \in Submissions \ {s}, Active(s)', Active(t)', RequestOf[s] = RequestOf[t]
      PROVE  FALSE
  <2>1. Active(t)
    BY <1>1, <1>4 DEF SameTx, Active
  <2>2. CASE Active(s)
    BY <1>4, <2>1, <2>2 DEF LockInv
  <2>3. CASE ~Active(s)
    BY <1>4, <2>1, <2>3, LocalLocks DEF Reserved
  <2>4. QED
    BY <2>2, <2>3
<1>5. /\ \A t, u \in Submissions \ {s} : \A a \in Accounts : a \in locks'[t] /\ a \in locks'[u] => t = u
      /\ \A t, u \in Submissions \ {s} : Active(t)' /\ Active(u)' /\ RequestOf[t] = RequestOf[u] => t = u
  BY <1>1 DEF SameTx, LockInv, Active
<1>6. \A t, u \in Submissions : \A a \in Accounts : a \in locks'[t] /\ a \in locks'[u] => t = u
  BY <1>3, <1>5
<1>7. \A t, u \in Submissions : Active(t)' /\ Active(u)' /\ RequestOf[t] = RequestOf[u] => t = u
  BY <1>4, <1>5
<1>8. QED
  BY <1>6, <1>7 DEF LockInv

\* The transaction has such a row after the step.
HoldsNext(s, op) == claim'[s] /\ Cmd(s).op = op /\ pc'[s] \in {"grant", "commit"}

\* A row is inserted only where there is no rival, committed or not.
LEMMA LocalHolds ==
    ASSUME TypeOK, NoOverdraft, NEW s \in Submissions, WorkInv(s), Local(s)
    PROVE  /\ HoldsNext(s, "claim") /\ ~Holds(s, "claim") => ~ClaimBlocked(s) /\ ~Claimed(s)
           /\ HoldsNext(s, "objective") /\ ~Holds(s, "objective") =>
                ~ObjectiveBlocked(s) /\ \A c \in completed : <<c[1], c[2]>> # ClaimKey(s)
<1>1. ASSUME claim'[s] = claim[s], pc[s] # "grant" => ~claim[s] PROVE \A op : HoldsNext(s, op) => Holds(s, op)
  BY <1>1 DEF Holds, HoldsNext
<1>2. CASE Reserve(s) \/ Replay(s) \/ TransferSelect(s) \/ TransferLock(s)
  <2>1. claim' = claim /\ pc[s] \in {"start", "run", "locking"}
    BY <1>2 DEF Reserve, Replay, TransferSelect, TransferLock, Running
  <2>2. QED
    BY <1>1, <2>1 DEF WorkInv
<1>3. CASE Fail(s)
  BY <1>3, ReleaseEffect DEF Fail, Rollback, DeadlockAbort, HoldsNext
<1>4. CASE Refuse(s)
  <2>1. claim' = claim /\ pc[s] \in {"run", "locking", "grant"}
    BY <1>4, RefuseEffect
  <2>2. QED
    BY <1>1, <2>1 DEF WorkInv
<1>5. CASE \E n \in Int : Deposit(s, n)
  <2>1. claim' = claim /\ pc[s] = "run"
    BY <1>5, DepositEffect
  <2>2. QED
    BY <1>1, <2>1 DEF WorkInv
<1>6. CASE TransferDebit(s) \/ TransferUpsert(s)
  <2>1. claim' = claim /\ pc[s] \in {"locking", "upsert"}
    BY <1>6, DebitEffect, UpsertEffect
  <2>2. QED
    BY <1>1, <2>1 DEF WorkInv
<1>7. CASE Grant(s)
  <2>1. claim' = claim /\ pc[s] = "grant"
    BY <1>7, GrantEffect
  <2>2. QED
    BY <1>1, <2>1
<1>8. CASE CompleteObjective(s)
  <2>1. /\ Cmd(s).op = "objective" /\ ~ObjectiveBlocked(s)
        /\ claim'[s] = (\A c \in completed : <<c[1], c[2]>> # ClaimKey(s))
    BY <1>8 DEF CompleteObjective, Running, TypeOK
  <2>2. QED
    BY <2>1 DEF HoldsNext
<1>9. CASE ClaimReward(s)
  BY <1>9 DEF ClaimReward, Running, HoldsNext
<1>10. QED
  BY <1>2, <1>3, <1>4, <1>5, <1>6, <1>7, <1>8, <1>9 DEF Local

\* No two transactions come to hold rival claims or completions.
LEMMA LocalClaimInv ==
    ASSUME TypeOK, NoOverdraft, \A t \in Submissions : WorkInv(t), ClaimInv, NEW s \in Submissions, Local(s)
    PROVE  ClaimInv'
<1>1. UNCHANGED tables /\ \A t \in Submissions \ {s} : SameTx(t)
  BY LocalFrame
<1>2. /\ HoldsNext(s, "claim") /\ ~Holds(s, "claim") => ~ClaimBlocked(s) /\ ~Claimed(s)
      /\ HoldsNext(s, "objective") /\ ~Holds(s, "objective") =>
           ~ObjectiveBlocked(s) /\ \A c \in completed : <<c[1], c[2]>> # ClaimKey(s)
  BY LocalHolds
<1>3. ASSUME NEW t \in Submissions, HoldsNext(t, "claim") PROVE ~Claimed(t)
  <2>1. CASE Holds(t, "claim")
    BY <2>1 DEF ClaimInv
  <2>2. CASE ~Holds(t, "claim")
    <3>1. t = s
      BY <1>1, <1>3, <2>2 DEF SameTx, Holds, HoldsNext
    <3>2. QED
      BY <1>2, <1>3, <2>2, <3>1
  <2>3. QED
    BY <2>1, <2>2
<1>4. ASSUME NEW t \in Submissions, HoldsNext(t, "objective")
      PROVE  \A c \in completed : <<c[1], c[2]>> # ClaimKey(t)
  <2>1. CASE Holds(t, "objective")
    BY <2>1 DEF ClaimInv
  <2>2. CASE ~Holds(t, "objective")
    <3>1. t = s
      BY <1>1, <1>4, <2>2 DEF SameTx, Holds, HoldsNext
    <3>2. QED
      BY <1>2, <1>4, <2>2, <3>1
  <2>3. QED
    BY <2>1, <2>2
<1>5. ASSUME NEW t \in Submissions \ {s}, HoldsNext(s, "claim"), HoldsNext(t, "claim"), Rivals(s, t) \/ Rivals(t, s)
      PROVE  FALSE
  <2>1. Holds(t, "claim") /\ Rivals(s, t) /\ Rivals(t, s)
    <3>1. Holds(t, "claim")
      BY <1>1, <1>5 DEF SameTx, Holds, HoldsNext
    <3>2. Rivals(s, t) /\ Rivals(t, s)
      BY <1>5 DEF Rivals
    <3>3. QED
      BY <3>1, <3>2
  <2>2. CASE Holds(s, "claim")
    BY <2>1, <2>2 DEF ClaimInv
  <2>3. CASE ~Holds(s, "claim")
    <3>1. ~ClaimBlocked(s)
      BY <1>2, <1>5, <2>3
    <3>2. QED
      BY <2>1, <3>1 DEF ClaimBlocked, Holds, Rivals, ClaimKey
  <2>4. QED
    BY <2>2, <2>3
<1>6. ASSUME NEW t \in Submissions \ {s}, HoldsNext(s, "objective"), HoldsNext(t, "objective"),
             ClaimKey(s) = ClaimKey(t)
      PROVE  FALSE
  <2>1. Holds(t, "objective")
    BY <1>1, <1>6 DEF SameTx, Holds, HoldsNext
  <2>2. CASE Holds(s, "objective")
    BY <1>6, <2>1, <2>2 DEF ClaimInv
  <2>3. CASE ~Holds(s, "objective")
    <3>1. ~ObjectiveBlocked(s) /\ pc[t] = "commit" /\ claim[t] /\ Cmd(t).op = "objective"
      <4>1. ~ObjectiveBlocked(s)
        BY <1>2, <1>6, <2>3
      <4>2. QED
        BY <2>1, <4>1 DEF Holds, WorkInv
    <3>2. QED
      BY <1>6, <3>1 DEF ObjectiveBlocked
  <2>4. QED
    BY <2>2, <2>3
<1>7. /\ \A t, u \in Submissions : HoldsNext(t, "claim") /\ HoldsNext(u, "claim") /\ Rivals(t, u) => t = u
      /\ \A t, u \in Submissions :
           HoldsNext(t, "objective") /\ HoldsNext(u, "objective") /\ ClaimKey(t) = ClaimKey(u) => t = u
  <2>1. /\ \A t, u \in Submissions \ {s} :
             HoldsNext(t, "claim") /\ HoldsNext(u, "claim") /\ Rivals(t, u) => t = u
        /\ \A t, u \in Submissions \ {s} :
             HoldsNext(t, "objective") /\ HoldsNext(u, "objective") /\ ClaimKey(t) = ClaimKey(u) => t = u
    BY <1>1 DEF ClaimInv, SameTx, Holds, HoldsNext, Rivals, ClaimKey
  <2>2. QED
    BY <1>5, <1>6, <2>1
<1>8. cmd' = cmd /\ claims' = claims /\ completed' = completed
  BY <1>1 DEF tables
<1>9. QED
  <2>1. \A t \in Submissions : Holds(t, "claim")' => HoldsNext(t, "claim") /\ ~Claimed(t)
    BY <1>3, <1>8 DEF Holds, HoldsNext, Cmd
  <2>2. \A t \in Submissions : Holds(t, "objective")' =>
           HoldsNext(t, "objective") /\ \A c \in completed : <<c[1], c[2]>> # ClaimKey(t)
    BY <1>4, <1>8 DEF Holds, HoldsNext, Cmd
  <2>3. QED
    BY <1>7, <1>8, <2>1, <2>2 DEF ClaimInv, Rivals, Claimed, ClaimKey, Cmd

\* Steps before the commit tell a client nothing but what is stored.
LEMMA LocalReplies ==
    ASSUME TypeOK, NEW s \in Submissions, Local(s), NoOverdraft
    PROVE  reply'[s] \in Results => reply'[s] = reply[s] \/ reply'[s] = request[RequestOf[s]]
<1>0. reply \in [Submissions -> Results \cup {"none", "error"}]
  BY DEF TypeOK
<1>1. CASE reply' = reply
  BY <1>1
<1>2. CASE Replay(s)
  BY <1>0, <1>2 DEF Replay
<1>3. CASE Fail(s)
  BY <1>0, <1>3 DEF Fail, Rollback, DeadlockAbort, Results
<1>4. QED
  <2>1. CASE Refuse(s)
    BY <1>1, <2>1, RefuseEffect
  <2>2. CASE \E n \in Int : Deposit(s, n)
    BY <1>1, <2>2, DepositEffect
  <2>3. CASE Grant(s) \/ TransferUpsert(s) \/ TransferDebit(s)
    BY <1>1, <2>3, GrantEffect, UpsertEffect, DebitEffect
  <2>4. CASE Reserve(s) \/ CompleteObjective(s) \/ TransferSelect(s) \/ TransferLock(s) \/ ClaimReward(s)
    BY <1>1, <2>4 DEF Reserve, CompleteObjective, TransferSelect, TransferLock, ClaimReward
  <2>5. QED
    BY <1>2, <1>3, <2>1, <2>2, <2>3, <2>4 DEF Local

\* Steps before the commit keep the properties.
LEMMA LocalProperties ==
    ASSUME TypeOK, ExactlyOnce, NoOverdraft, LedgerExplainsWallet, OneClaim, NEW s \in Submissions, Local(s)
    PROVE  ExactlyOnce' /\ NoOverdraft' /\ LedgerExplainsWallet' /\ OneClaim'
<1>1. UNCHANGED tables /\ \A t \in Submissions \ {s} : SameTx(t)
  BY LocalFrame
<1>2. NoOverdraft' /\ OneClaim'
  BY <1>1 DEF tables, NoOverdraft, OneClaim
<1>3. LedgerExplainsWallet'
  BY <1>1 DEF tables, LedgerExplainsWallet
<1>4. \A t \in Submissions : reply'[t] \in Results => reply'[t] = request[RequestOf[t]]
  BY <1>1, LocalReplies DEF SameTx, ExactlyOnce
<1>5. ExactlyOnce'
  BY <1>1, <1>4 DEF tables, ExactlyOnce
<1>6. QED
  BY <1>2, <1>3, <1>5

-----------------------------------------------------------------------------
(* The commit *)

\* A commit makes a balance what its writes were checked to leave.
LEMMA StoreBalances ==
    ASSUME TypeOK, NoOverdraft, NEW s \in Submissions, WorkInv(s), Store(s)
    PROVE  NoOverdraft'
<1>1. /\ pc[s] = "commit" /\ rows' = rows \cup locks[s]
      /\ \A a \in Accounts : balance'[a] = balance[a] + write[s][a]
  BY StoreEffect
<1>2. \A a \in Accounts : /\ write[s][a] # 0 => a \in locks[s]
                          /\ balance[a] + write[s][a] >= 0
  <2>1. Active(s)
    BY <1>1 DEF Active
  <2>2. QED
    BY <2>1, ActiveWork
<1>3. \A a \in Accounts : a \notin rows' => balance[a] = 0 /\ write[s][a] = 0
  BY <1>1, <1>2 DEF NoOverdraft
<1>4. QED
  BY <1>1, <1>2, <1>3 DEF NoOverdraft

\* The other transactions have other rows and another request.
LEMMA StoreOthers ==
    ASSUME TypeOK, NoOverdraft, NoOverdraft', LockInv, NEW s \in Submissions, Store(s), WorkInv(s),
           NEW t \in Submissions \ {s}, WorkInv(t), reply'[t] = reply[t]
    PROVE  WorkInv(t)'
<1>1. /\ pc[s] = "commit" /\ Release(s) /\ cmd' = cmd
      /\ \A r \in Requests \ {RequestOf[s]} : request'[r] = request[r]
      /\ \A a \in Accounts : balance'[a] = balance[a] + write[s][a]
  BY StoreEffect
<1>2. /\ pc'[t] = pc[t] /\ locks'[t] = locks[t] /\ UNCHANGED <<write, post, claim, outcome>>
  BY <1>1, ReleaseEffect
<1>3. Active(s) /\ RequestOf[t] \in Requests
  BY <1>1, CommandFacts DEF Active
<1>4. ASSUME Active(t)
      PROVE  /\ request'[RequestOf[t]] = "none"
             /\ \A a \in Accounts : /\ write[t][a] # 0 => a \in locks[t]
                                    /\ balance'[a] + write[t][a] >= 0
  <2>1. request'[RequestOf[t]] = "none"
    BY <1>1, <1>3, <1>4 DEF LockInv, WorkInv
  <2>2. ASSUME NEW a \in Accounts PROVE balance'[a] + write[t][a] >= 0
    <3>0. balance[a] \in Int /\ write[s][a] \in Int /\ write[t][a] \in Int
      BY DEF TypeOK
    <3>1. CASE write[t][a] = 0
      <4>1. balance'[a] >= 0 /\ balance'[a] \in Int
        BY <1>1, <3>0 DEF NoOverdraft
      <4>2. QED
        BY <3>1, <4>1
    <3>2. CASE write[t][a] # 0
      <4>1. a \in locks[t] /\ balance[a] + write[t][a] >= 0
        BY <1>4, <3>2 DEF WorkInv
      <4>2. write[s][a] = 0
        BY <1>3, <4>1 DEF LockInv, WorkInv
      <4>3. QED
        BY <1>1, <3>0, <4>1, <4>2
    <3>3. QED
      BY <3>1, <3>2
  <2>3. QED
    BY <1>4, <2>1, <2>2 DEF WorkInv
<1>5. QED
  BY <1>1, <1>2, <1>4 DEF WorkInv, Active, Unwritten, Excused, Cmd

\* The row and key locks of the one who commits are gone, the others keep theirs.
LEMMA StoreLockInv ==
    ASSUME TypeOK, LockInv, NEW s \in Submissions, Store(s)
    PROVE  LockInv'
<1>1. /\ pc'[s] = "done" /\ locks'[s] = {}
      /\ \A t \in Submissions \ {s} : pc'[t] = pc[t] /\ locks'[t] = locks[t]
  BY StoreEffect, ReleaseEffect
<1>2. QED
  BY <1>1 DEF LockInv, Active

\* A request is stored once, with its event and its audit record, and its answer is what is stored.
LEMMA StoreExactlyOnce ==
    ASSUME TypeOK, ExactlyOnce, LockInv, NEW s \in Submissions, WorkInv(s), Store(s),
           \/ reply' = [reply EXCEPT ![s] = outcome[s]]
           \/ reply' = [reply EXCEPT ![s] = "error"]
    PROVE  ExactlyOnce'
<1> DEFINE q == RequestOf[s]
<1>1. /\ pc[s] = "commit" /\ request'[q] = outcome[s] /\ cmd' = cmd /\ q \in Requests
      /\ \A r \in Requests \ {q} :
            request'[r] = request[r] /\ events'[r] = events[r] /\ audits'[r] = audits[r]
      /\ events'[q] = events[q] + 1
      /\ audits'[q] = IF Cmd(s).admin /\ Permitted(Cmd(s)) THEN audits[q] + 1 ELSE audits[q]
  BY StoreEffect, CommandFacts
<1>2. request[q] = "none" /\ outcome[s] \in Results /\ outcome[s] # "none"
  BY <1>1 DEF WorkInv, Active, Results
<1>3. events[q] = 0 /\ audits[q] = 0
  BY <1>1, <1>2 DEF ExactlyOnce
<1>4. \A r \in Requests :
         /\ events'[r] = (IF request'[r] # "none" THEN 1 ELSE 0)
         /\ audits'[r] = (IF request'[r] # "none" /\ cmd[r].admin /\ Permitted(cmd[r]) THEN 1 ELSE 0)
  <2>1. /\ events'[q] = 1 /\ audits'[q] = (IF cmd[q].admin /\ Permitted(cmd[q]) THEN 1 ELSE 0)
        /\ request'[q] # "none"
    BY <1>1, <1>2, <1>3 DEF Cmd
  <2>2. ASSUME NEW r \in Requests \ {q}
        PROVE /\ events'[r] = (IF request'[r] # "none" THEN 1 ELSE 0)
              /\ audits'[r] = (IF request'[r] # "none" /\ cmd[r].admin /\ Permitted(cmd[r]) THEN 1 ELSE 0)
    BY <1>1 DEF ExactlyOnce
  <2>3. QED
    BY <2>1, <2>2
<1>5. ASSUME NEW t \in Submissions, reply'[t] \in Results PROVE reply'[t] = request'[RequestOf[t]]
  <2>0. reply \in [Submissions -> Results \cup {"none", "error"}] /\ RequestOf[t] \in Requests
    BY CommandFacts DEF TypeOK
  <2>1. CASE t = s
    BY <1>1, <1>5, <2>0, <2>1 DEF Results
  <2>2. CASE t # s
    <3>1. reply'[t] = reply[t]
      BY <2>0, <2>2
    <3>2. reply[t] = request[RequestOf[t]] /\ request[RequestOf[t]] # "none"
      BY <1>5, <3>1 DEF ExactlyOnce, Results
    <3>3. RequestOf[t] # q
      BY <1>2, <3>2
    <3>4. QED
      BY <1>1, <2>0, <3>1, <3>2, <3>3
  <2>3. QED
    BY <2>1, <2>2
<1>6. QED
  BY <1>1, <1>4, <1>5 DEF ExactlyOnce

\* Wallet and ledger move together, or the command that moves the wallet alone is rejected.
LEMMA StoreLedger ==
    ASSUME TypeOK, LedgerExplainsWallet, NEW s \in Submissions, WorkInv(s), Store(s)
    PROVE  LedgerExplainsWallet'
<1> SUFFICES ASSUME NEW p \in Players
             PROVE  \/ balance'[<<"currency", p>>] = ledger'[p]
                    \/ \E r \in Requests :
                         /\ request'[r] \in {"LIMIT", "NESTED_COMMAND_REJECTED"}
                         /\ cmd'[r].op \in {"credit", "debit"} /\ cmd'[r].asset = "currency"
                         /\ cmd'[r].player = p
  BY DEF LedgerExplainsWallet
<1> DEFINE a == <<"currency", p>>
           q == RequestOf[s]
<1>0. a \in Accounts
  BY DEF Accounts, Assets, Limited
<1>1. /\ pc[s] = "commit" /\ request'[q] = outcome[s] /\ cmd' = cmd /\ q \in Requests
      /\ \A r \in Requests \ {q} : request'[r] = request[r]
      /\ balance'[a] = balance[a] + write[s][a] /\ ledger'[p] = ledger[p] + Posted(s, p)
  BY <1>0, StoreEffect, CommandFacts
<1>2. /\ request[q] = "none"
      /\ post[s] \/ write[s][a] = 0 \/ Excused(s, p)
  BY <1>1 DEF WorkInv, Active
<1>3. CASE Excused(s, p)
  BY <1>1, <1>3 DEF Excused, Cmd
<1>4. CASE ~Excused(s, p)
  <2>1. Posted(s, p) = write[s][a]
    BY <1>2, <1>4 DEF Posted
  <2>2. CASE balance[a] = ledger[p]
    BY <1>1, <2>1, <2>2
  <2>3. CASE balance[a] # ledger[p]
    <3>1. PICK r \in Requests :
            /\ request[r] \in {"LIMIT", "NESTED_COMMAND_REJECTED"}
            /\ cmd[r].op \in {"credit", "debit"} /\ cmd[r].asset = "currency" /\ cmd[r].player = p
      BY <2>3 DEF LedgerExplainsWallet
    <3>2. r # q
      BY <1>2, <3>1
    <3>3. QED
      BY <1>1, <3>1, <3>2
  <2>4. QED
    BY <2>2, <2>3
<1>5. QED
  BY <1>3, <1>4

\* What is inserted has no rival among what is committed, and gets none.
LEMMA StoreClaims ==
    ASSUME TypeOK, ClaimInv, OneClaim, NEW s \in Submissions, WorkInv(s), Store(s)
    PROVE  ClaimInv' /\ OneClaim'
<1> DEFINE row == <<Cmd(s).player, Cmd(s).source, RequestOf[s]>>
<1>1. /\ pc[s] = "commit" /\ pc'[s] = "done" /\ cmd' = cmd
      /\ claims' = claims \cup Inserted(s, "claim") /\ completed' = completed \cup Inserted(s, "objective")
      /\ claim' = claim /\ \A t \in Submissions \ {s} : pc'[t] = pc[t]
  BY StoreEffect, ReleaseEffect
<1>2. /\ \A c \in claims' : c \in claims \/ (Holds(s, "claim") /\ c = row)
      /\ \A c \in completed' : c \in completed \/ (Holds(s, "objective") /\ c = row)
  BY <1>1 DEF Inserted, Holds
<1>3. row[1] = Cmd(s).player /\ row[2] = Cmd(s).source
  OBVIOUS
<1> HIDE DEF row
<1>4. OneClaim'
  <2>1. Holds(s, "claim") => \A c \in claims : ~(c[1] = row[1] /\ (OncePerPlayer \/ c[2] = row[2]))
    BY <1>3 DEF ClaimInv, Claimed
  <2>2. Holds(s, "objective") => \A c \in completed : ~(c[1] = row[1] /\ c[2] = row[2])
    BY <1>3 DEF ClaimInv, ClaimKey
  <2>3. \A c, d \in claims' : c[1] = d[1] /\ (OncePerPlayer \/ c[2] = d[2]) => c = d
    BY <1>2, <2>1 DEF OneClaim
  <2>4. \A c, d \in completed' : c[1] = d[1] /\ c[2] = d[2] => c = d
    BY <1>2, <2>2 DEF OneClaim
  <2>5. QED
    BY <2>3, <2>4 DEF OneClaim
<1>5. ClaimInv'
  <2>1. \A t \in Submissions : \A op \in {"claim", "objective"} : HoldsNext(t, op) => Holds(t, op) /\ t # s
    BY <1>1 DEF Holds, HoldsNext
  <2>2. ASSUME NEW t \in Submissions, HoldsNext(t, "claim")
        PROVE  \A c \in claims' : ~(c[1] = Cmd(t).player /\ (OncePerPlayer \/ c[2] = Cmd(t).source))
    <3>1. Holds(t, "claim") /\ t # s
      BY <2>1, <2>2
    <3>2. \A c \in claims : ~(c[1] = Cmd(t).player /\ (OncePerPlayer \/ c[2] = Cmd(t).source))
      BY <3>1 DEF ClaimInv, Claimed
    <3>3. Holds(s, "claim") => ~Rivals(s, t)
      BY <3>1 DEF ClaimInv
    <3>4. QED
      BY <1>2, <1>3, <3>2, <3>3 DEF Rivals
  <2>3. ASSUME NEW t \in Submissions, HoldsNext(t, "objective")
        PROVE  \A c \in completed' : <<c[1], c[2]>> # ClaimKey(t)
    <3>1. Holds(t, "objective") /\ t # s
      BY <2>1, <2>3
    <3>2. \A c \in completed : <<c[1], c[2]>> # ClaimKey(t)
      BY <3>1 DEF ClaimInv
    <3>3. Holds(s, "objective") => ClaimKey(s) # ClaimKey(t)
      BY <3>1 DEF ClaimInv
    <3>4. <<row[1], row[2]>> = ClaimKey(s)
      BY <1>3 DEF ClaimKey
    <3>5. QED
      BY <1>2, <3>2, <3>3, <3>4
  <2>4. /\ \A t, u \in Submissions : HoldsNext(t, "claim") /\ HoldsNext(u, "claim") /\ Rivals(t, u) => t = u
        /\ \A t, u \in Submissions :
             HoldsNext(t, "objective") /\ HoldsNext(u, "objective") /\ ClaimKey(t) = ClaimKey(u) => t = u
    BY <2>1 DEF ClaimInv, Holds, HoldsNext
  <2>5. QED
    BY <1>1, <2>2, <2>3, <2>4 DEF ClaimInv, Holds, HoldsNext, Rivals, Claimed, ClaimKey, Cmd
<1>6. QED
  BY <1>4, <1>5

-----------------------------------------------------------------------------
(* Theorems *)

\* Tables without a command and submissions that have not begun satisfy the invariant.
LEMMA InitInv == Init => Inv
<1> SUFFICES ASSUME Init PROVE Inv
  OBVIOUS
<1>0. /\ \A s \in Submissions : /\ pc[s] = "start" /\ locks[s] = {} /\ write[s] = NoWrite
                                /\ claim[s] = FALSE /\ reply[s] = "none"
      /\ balance = Start /\ rows = {a \in Accounts : Start[a] > 0} /\ claims = {} /\ completed = {}
  BY DEF Init
<1>1. TypeOK
  <2>1. /\ NoWrite \in [Accounts -> Int] /\ balance \in [Accounts -> Int] /\ rows \subseteq Accounts
    BY <1>0, Constants DEF NoWrite
  <2>2. ledger \in [Players -> Int]
    <3>1. \A p \in Players : <<"currency", p>> \in Accounts
      BY DEF Accounts, Assets, Limited
    <3>2. ASSUME NEW p \in Players PROVE Start[<<"currency", p>>] \in Int
      <4> DEFINE a == <<"currency", p>>
      <4>1. a \in Accounts
        BY <3>1
      <4> HIDE DEF a
      <4>2. Start[a] \in Int
        BY <4>1, Constants
      <4>3. QED
        BY <4>2 DEF a
    <3>3. QED
      BY <3>2 DEF Init
  <2>3. step \in [Submissions -> 1 .. Len(Grants)]
    BY GrantFacts DEF Init
  <2>4. pc \in [Submissions -> PCs] /\ locks \in [Submissions -> SUBSET Accounts]
        /\ seen \in [Submissions -> SUBSET Accounts] /\ write \in [Submissions -> [Accounts -> Int]]
    BY <2>1 DEF Init, PCs
  <2>5. QED
    BY <2>1, <2>2, <2>3, <2>4 DEF Init, TypeOK
<1>2. \A s \in Submissions : WorkInv(s)
  BY <1>0 DEF WorkInv, Unwritten, NoWrite, Active, Results
<1>3. LockInv /\ ClaimInv
  BY <1>0 DEF LockInv, ClaimInv, Active, Holds
<1>4. ExactlyOnce
  <2>1. \A s \in Submissions : reply[s] \notin Results
    BY <1>0 DEF Results
  <2>2. QED
    BY <2>1 DEF Init, ExactlyOnce
<1>5. NoOverdraft
  BY <1>0, Constants DEF NoOverdraft
<1>6. LedgerExplainsWallet /\ OneClaim
  BY DEF Init, LedgerExplainsWallet, OneClaim
<1>7. QED
  BY <1>1, <1>2, <1>3, <1>4, <1>5, <1>6 DEF Inv

\* Every step keeps the invariant.
LEMMA StepInv == Inv /\ [Next]_vars => Inv'
<1> SUFFICES ASSUME Inv, [Next]_vars PROVE Inv'
  OBVIOUS
<1>0. /\ TypeOK /\ (\A s \in Submissions : WorkInv(s)) /\ LockInv /\ ClaimInv
      /\ ExactlyOnce /\ NoOverdraft /\ LedgerExplainsWallet /\ OneClaim
  BY DEF Inv
<1>1. CASE UNCHANGED vars
  <2> USE <1>1 DEF vars, tables, txVars
  <2>1. TypeOK'
    BY <1>0 DEF TypeOK
  <2>2. ASSUME NEW s \in Submissions PROVE WorkInv(s)'
    BY <1>0, OthersWork DEF SameTx
  <2>3. LockInv'
    BY <1>0 DEF LockInv, Active
  <2>4. ClaimInv'
    BY <1>0 DEF ClaimInv, Holds, Claimed, Rivals, ClaimKey, Cmd
  <2>5. ExactlyOnce' /\ NoOverdraft' /\ OneClaim'
    BY <1>0 DEF ExactlyOnce, NoOverdraft, OneClaim
  <2>6. LedgerExplainsWallet'
    BY <1>0 DEF LedgerExplainsWallet
  <2>7. QED
    BY <2>1, <2>2, <2>3, <2>4, <2>5, <2>6 DEF Inv
<1>2. ASSUME NEW s \in Submissions, SubmitWith(s) \/ CommitUnanswered(s) \/ Rollback(s) PROVE Inv'
  <2>1. TypeOK'
    BY <1>0, <1>2, TypeStep
  <2>2. CASE Local(s)
    <3>1. UNCHANGED tables /\ \A t \in Submissions \ {s} : SameTx(t)
      BY <1>0, <2>2, LocalFrame
    <3>2. ASSUME NEW t \in Submissions PROVE WorkInv(t)'
      <4>1. CASE t = s
        BY <1>0, <2>2, <3>1, <4>1, OwnWork
      <4>2. CASE t # s
        BY <1>0, <3>1, <4>2, OthersWork
      <4>3. QED
        BY <4>1, <4>2
    <3>3. LockInv' /\ ClaimInv'
      BY <1>0, <2>2, LocalLockInv, LocalClaimInv
    <3>4. ExactlyOnce' /\ NoOverdraft' /\ LedgerExplainsWallet' /\ OneClaim'
      BY <1>0, <2>2, LocalProperties
    <3>5. QED
      BY <2>1, <3>2, <3>3, <3>4 DEF Inv
  <2>3. CASE Store(s) /\ (reply' = [reply EXCEPT ![s] = outcome[s]] \/ reply' = [reply EXCEPT ![s] = "error"])
    <3>1. NoOverdraft' /\ LockInv' /\ ClaimInv' /\ OneClaim'
      BY <1>0, <2>3, StoreBalances, StoreLockInv, StoreClaims
    <3>2. ASSUME NEW t \in Submissions PROVE WorkInv(t)'
      <4>1. CASE t = s
        BY <2>3, <1>0, <4>1, StoreEffect DEF WorkInv, Active
      <4>2. CASE t # s
        <5>1. reply'[t] = reply[t]
          BY <1>0, <2>3, <4>2 DEF TypeOK
        <5>2. QED
          BY <1>0, <2>3, <3>1, <4>2, <5>1, StoreOthers
      <4>3. QED
        BY <4>1, <4>2
    <3>3. ExactlyOnce' /\ LedgerExplainsWallet'
      BY <1>0, <2>3, StoreExactlyOnce, StoreLedger
    <3>4. QED
      BY <2>1, <3>1, <3>2, <3>3 DEF Inv
  <2>4. QED
    BY <1>0, <1>2, <2>2, <2>3, StepKinds
<1>3. QED
  BY <1>1, <1>2 DEF Next

(***************************************************************************)
(* The inductive invariant holds of every behaviour, for any players,      *)
(* requests, retries, commands, limits, grants, balances and faults.       *)
(***************************************************************************)
THEOREM Invariance == Spec => []Inv
BY InitInv, StepInv, PTL DEF Spec

\* Every column and local variable of the command store and the economy keeps its type.
THEOREM TypeCorrect == Spec => []TypeOK
<1>1. Inv => TypeOK
  BY DEF Inv
<1>2. QED
  BY <1>1, Invariance, PTL

(***************************************************************************)
(* SubmitWith takes effect at most once per request ID, with one event and *)
(* one audit record, and answers with the stored result, whatever retries, *)
(* rollbacks and lost answers there are.                                   *)
(***************************************************************************)
THEOREM Idempotent == Spec => []ExactlyOnce
<1>1. Inv => ExactlyOnce
  BY DEF Inv
<1>2. QED
  BY <1>1, Invariance, PTL

\* No interleaving of debits, transfers and revocations takes an account below zero.
THEOREM Solvent == Spec => []NoOverdraft
<1>1. Inv => NoOverdraft
  BY DEF Inv
<1>2. QED
  BY <1>1, Invariance, PTL

\* Wallet and ledger differ only for players of a credit or debit rejected for the currency bounds.
THEOREM Reconciled == Spec => []LedgerExplainsWallet
<1>1. Inv => LedgerExplainsWallet
  BY DEF Inv
<1>2. QED
  BY <1>1, Invariance, PTL

\* rewardClaim and objectiveComplete insert one row per source, or per player, under every race.
THEOREM ClaimedOnce == Spec => []OneClaim
<1>1. Inv => OneClaim
  BY DEF Inv
<1>2. QED
  BY <1>1, Invariance, PTL
=============================================================================
