----------------------------- MODULE BankProofs -----------------------------
(***************************************************************************)
(* Proofs that Economy implements Bank, and that every addition counts,    *)
(* which is about a sum over requests.                                     *)
(***************************************************************************)
EXTENDS EconomyProofs, FiniteSetTheorems, WellFoundedInduction

-----------------------------------------------------------------------------
(* Sums over finite sets *)

\* A set of natural numbers that is not empty has a least element.
LEMMA Least ==
    ASSUME NEW N \in SUBSET Nat, N # {}
    PROVE  \E n \in N : \A m \in N : n <= m
<1>1. PICK n \in N : \A m \in N : <<m, n>> \notin OpToRel(<, Nat)
  BY NatLessThanWellFounded, WFMin
<1>2. \A m \in N : ~(m < n)
  BY <1>1 DEF OpToRel
<1>3. QED
  BY <1>2

\* The element that the fold of the library takes out of a set, and the sums it computes.
Picked(s) == CHOOSE x \in s : TRUE

Sums(g, f, D) == g = [s \in D |-> IF s = {} THEN 0 ELSE f[Picked(s)] + g[s \ {Picked(s)}]]

\* A total is such a sum.
LEMMA TotalIsFold ==
    ASSUME NEW f, NEW S PROVE Total(f, S) = (CHOOSE g : Sums(g, f, SUBSET S))[S]
BY DEF Total, MapThenSumSet, MapThenFoldSet, Sums, Picked

\* There are such sums over the subsets of a finite set.
LEMMA SumsExist ==
    ASSUME NEW S, IsFiniteSet(S), NEW f
    PROVE  \E g : Sums(g, f, SUBSET S)
<1> DEFINE D(n) == {s \in SUBSET S : Cardinality(s) <= n}
           Missing == {n \in Nat : ~\E g : Sums(g, f, D(n))}
<1>1. \A s \in SUBSET S : /\ IsFiniteSet(s) /\ Cardinality(s) \in Nat /\ Cardinality(s) <= Cardinality(S)
                          /\ (Cardinality(s) = 0 <=> s = {})
  BY FS_Subset, FS_CardinalityType, FS_EmptySet
<1>2. \A s \in SUBSET S : s # {} => /\ Picked(s) \in s /\ s \ {Picked(s)} \in SUBSET S
                                    /\ Cardinality(s \ {Picked(s)}) = Cardinality(s) - 1
  <2> TAKE s \in SUBSET S
  <2> HAVE s # {}
  <2>1. Picked(s) \in s
    BY DEF Picked
  <2>2. QED
    BY <1>1, <2>1, FS_RemoveElement
<1>3. Sums([s \in D(0) |-> 0], f, D(0))
  <2>1. \A s \in D(0) : s = {}
    BY <1>1
  <2>2. QED
    BY <2>1 DEF Sums
<1>4. ASSUME NEW n \in Nat, NEW g, Sums(g, f, D(n)) PROVE \E h : Sums(h, f, D(n + 1))
  <2> DEFINE h == [s \in D(n + 1) |-> IF s = {} THEN 0 ELSE f[Picked(s)] + g[s \ {Picked(s)}]]
  <2>1. \A s \in D(n) : s \in D(n + 1)
    BY <1>1
  <2>2. \A s \in D(n) : h[s] = g[s]
    BY <1>4, <2>1 DEF Sums
  <2>3. \A s \in D(n + 1) : s # {} => s \ {Picked(s)} \in D(n)
    BY <1>1, <1>2
  <2>4. h = [s \in D(n + 1) |-> IF s = {} THEN 0 ELSE f[Picked(s)] + h[s \ {Picked(s)}]]
    BY <2>2, <2>3
  <2>5. QED
    BY <2>4 DEF Sums
<1>5. Missing = {}
  <2> SUFFICES ASSUME Missing # {} PROVE FALSE
    OBVIOUS
  <2> HIDE DEF D
  <2>1. PICK n \in Missing : \A m \in Missing : n <= m
    BY Least
  <2>2. n \in Nat /\ n # 0
    BY <1>3, <2>1
  <2>3. n - 1 \in Nat /\ n - 1 \notin Missing /\ (n - 1) + 1 = n
    BY <2>1, <2>2
  <2>4. PICK g : Sums(g, f, D(n - 1))
    BY <2>3
  <2>5. QED
    BY <1>4, <2>1, <2>3, <2>4
<1>6. Cardinality(S) \in Nat /\ D(Cardinality(S)) = SUBSET S
  BY <1>1, FS_CardinalityType
<1>7. QED
  BY <1>5, <1>6

\* They do not depend on the order in which the elements are taken out.
LEMMA SumsInAnyOrder ==
    ASSUME NEW S, IsFiniteSet(S), NEW f, \A x \in S : f[x] \in Int, NEW g, Sums(g, f, SUBSET S)
    PROVE  /\ g[{}] = 0
           /\ \A s \in SUBSET S : g[s] \in Int /\ \A x \in s : g[s] = g[s \ {x}] + f[x]
<1> DEFINE Good(s) == g[s] \in Int /\ \A x \in s : g[s] = g[s \ {x}] + f[x]
           Bad == {n \in Nat : \E s \in SUBSET S : Cardinality(s) = n /\ ~Good(s)}
<1>1. \A s \in SUBSET S : IsFiniteSet(s) /\ Cardinality(s) \in Nat
  BY FS_Subset, FS_CardinalityType
<1>2. \A s \in SUBSET S : \A x \in s : s \ {x} \in SUBSET S /\ Cardinality(s \ {x}) = Cardinality(s) - 1
  BY <1>1, FS_RemoveElement
<1>3. /\ g[{}] = 0
      /\ \A s \in SUBSET S : s # {} => Picked(s) \in s /\ g[s] = f[Picked(s)] + g[s \ {Picked(s)}]
  BY DEF Sums, Picked
<1>4. ASSUME NEW s \in SUBSET S, \A t \in SUBSET S : Cardinality(t) < Cardinality(s) => Good(t)
      PROVE  Good(s)
  <2>1. CASE s = {}
    BY <1>3, <2>1
  <2>2. CASE s # {}
    <3> DEFINE c == Picked(s)
    <3>1. c \in s /\ g[s] = f[c] + g[s \ {c}] /\ f[c] \in Int
      BY <1>3, <2>2
    <3>2. Good(s \ {c})
      BY <1>1, <1>2, <1>4, <3>1
    <3> HIDE DEF c
    <3>3. g[s] \in Int /\ g[s \ {c}] \in Int
      BY <3>1, <3>2
    <3>4. ASSUME NEW x \in s, x # c PROVE g[s] = g[s \ {x}] + f[x]
      <4>1. Good(s \ {x})
        BY <1>1, <1>2, <1>4
      <4>2. g[s \ {c}] = g[(s \ {c}) \ {x}] + f[x] /\ g[s \ {x}] = g[(s \ {x}) \ {c}] + f[c]
        BY <3>1, <3>2, <3>4, <4>1
      <4>3. (s \ {c}) \ {x} = (s \ {x}) \ {c} /\ (s \ {c}) \ {x} \in SUBSET S /\ x \in S
        OBVIOUS
      <4>4. g[(s \ {c}) \ {x}] \in Int
        <5>1. x \in s \ {c} /\ s \ {c} \in SUBSET S
          BY <3>4
        <5>2. Cardinality((s \ {c}) \ {x}) = Cardinality(s \ {c}) - 1 /\ Cardinality(s \ {c}) = Cardinality(s) - 1
          BY <1>2, <3>1, <5>1
        <5>3. Cardinality((s \ {c}) \ {x}) < Cardinality(s)
          BY <1>1, <5>2
        <5>4. QED
          BY <1>4, <4>3, <5>3
      <4>5. f[x] \in Int
        BY <4>3
      <4> DEFINE u == (s \ {c}) \ {x}
      <4>6. g[s \ {c}] = g[u] + f[x] /\ g[s \ {x}] = g[u] + f[c] /\ g[u] \in Int
        BY <4>2, <4>3, <4>4
      <4> HIDE DEF u
      <4>7. QED
        BY <3>1, <4>5, <4>6
    <3>5. g[s] = g[s \ {c}] + f[c]
      BY <3>1, <3>3
    <3>6. \A x \in s : g[s] = g[s \ {x}] + f[x]
      BY <3>4, <3>5
    <3>7. QED
      BY <3>3, <3>6
  <2>3. QED
    BY <2>1, <2>2
<1> HIDE DEF Good
<1>5. Bad = {}
  <2> SUFFICES ASSUME Bad # {} PROVE FALSE
    OBVIOUS
  <2>1. PICK n \in Bad : \A m \in Bad : n <= m
    BY Least
  <2>2. PICK s \in SUBSET S : Cardinality(s) = n /\ ~Good(s)
    BY <2>1
  <2>3. \A t \in SUBSET S : Cardinality(t) < Cardinality(s) => Good(t)
    BY <1>1, <2>1, <2>2
  <2>4. QED
    BY <1>4, <2>2, <2>3
<1>6. \A s \in SUBSET S : Good(s)
  BY <1>1, <1>5
<1>7. QED
  BY <1>3, <1>6 DEF Good

\* Nor on the set whose subsets they are over.
LEMMA SumsAgree ==
    ASSUME NEW T, IsFiniteSet(T), NEW S \in SUBSET T, NEW f, NEW g, NEW h,
           Sums(g, f, SUBSET S), Sums(h, f, SUBSET T)
    PROVE  g[S] = h[S]
<1> DEFINE Bad == {n \in Nat : \E s \in SUBSET S : Cardinality(s) = n /\ g[s] # h[s]}
<1>1. \A s \in SUBSET S : IsFiniteSet(s) /\ Cardinality(s) \in Nat /\ s \in SUBSET T
  BY FS_Subset, FS_CardinalityType
<1>2. ASSUME NEW s \in SUBSET S, \A t \in SUBSET S : Cardinality(t) < Cardinality(s) => g[t] = h[t]
      PROVE  g[s] = h[s]
  <2>1. CASE s = {}
    BY <2>1, <1>1 DEF Sums
  <2>2. CASE s # {}
    <3>1. Picked(s) \in s
      BY <2>2 DEF Picked
    <3>2. s \ {Picked(s)} \in SUBSET S /\ Cardinality(s \ {Picked(s)}) < Cardinality(s)
      <4>1. Cardinality(s \ {Picked(s)}) = Cardinality(s) - 1
        BY <1>1, <3>1, FS_RemoveElement
      <4>2. QED
        BY <1>1, <4>1
    <3>3. g[s \ {Picked(s)}] = h[s \ {Picked(s)}]
      BY <1>2, <3>2
    <3>4. QED
      BY <1>1, <2>2, <3>3 DEF Sums
  <2>3. QED
    BY <2>1, <2>2
<1>3. Bad = {}
  <2> SUFFICES ASSUME Bad # {} PROVE FALSE
    OBVIOUS
  <2>1. PICK n \in Bad : \A m \in Bad : n <= m
    BY Least
  <2>2. PICK s \in SUBSET S : Cardinality(s) = n /\ g[s] # h[s]
    BY <2>1
  <2>3. \A t \in SUBSET S : Cardinality(t) < Cardinality(s) => g[t] = h[t]
    BY <1>1, <2>1, <2>2
  <2>4. QED
    BY <1>2, <2>2, <2>3
<1>4. QED
  BY <1>1, <1>3

(***************************************************************************)
(* The total over no element is zero, and one more element adds its value. *)
(***************************************************************************)
LEMMA TotalEmpty == ASSUME NEW f PROVE Total(f, {}) = 0
<1> DEFINE g == CHOOSE g : Sums(g, f, SUBSET {})
<1>1. Sums(g, f, SUBSET {})
  BY SumsExist, FS_EmptySet
<1>2. g[{}] = 0
  BY <1>1 DEF Sums
<1>3. QED
  BY <1>2, TotalIsFold

\* A new member adds its value to the sum.
LEMMA TotalAdd ==
    ASSUME NEW S, IsFiniteSet(S), NEW x, x \notin S, NEW f, \A y \in S \cup {x} : f[y] \in Int
    PROVE  Total(f, S) \in Int /\ Total(f, S \cup {x}) = Total(f, S) + f[x]
<1> DEFINE T == S \cup {x}
           g == CHOOSE g : Sums(g, f, SUBSET S)
           h == CHOOSE h : Sums(h, f, SUBSET T)
<1>1. IsFiniteSet(T) /\ S \in SUBSET T /\ T \ {x} = S /\ x \in T
  BY FS_AddElement
<1>2. Sums(g, f, SUBSET S)
  BY SumsExist
<1>3. Sums(h, f, SUBSET T)
  BY <1>1, SumsExist
<1>4. Total(f, S) = g[S] /\ Total(f, T) = h[T]
  BY TotalIsFold
<1> HIDE DEF g, h, T
<1>5. g[S] = h[S]
  BY <1>1, <1>2, <1>3, SumsAgree
<1>6. h[T] = h[S] + f[x] /\ h[S] \in Int
  <2>1. \A y \in T : f[y] \in Int
    BY DEF T
  <2>2. \A s \in SUBSET T : h[s] \in Int /\ \A y \in s : h[s] = h[s \ {y}] + f[y]
    <3>1. IsFiniteSet(T)
      BY <1>1
    <3>2. QED
      BY ONLY <1>3, <2>1, <3>1, SumsInAnyOrder
  <2>3. h[T] = h[T \ {x}] + f[x] /\ h[S] \in Int
    <3>1. T \in SUBSET T
      OBVIOUS
    <3>2. QED
      BY <1>1, <2>2, <3>1
  <2>4. QED
    BY <1>1, <2>3
<1>7. QED
  BY <1>4, <1>5, <1>6 DEF T
-----------------------------------------------------------------------------
(* What a transaction is about to do, by the statement it has come to *)

\* A transaction with this result, writes, ledger entries and insertion does e.
Matches(c, e, result, added, inserted, posted) ==
    /\ result = B!Coded(c, e.result) /\ added = e.change /\ inserted = e.inserted
    /\ \A p \in Players : (IF posted THEN added[<<"currency", p>>] ELSE 0) = B!Booked(e, p)

(***************************************************************************)
(* Nobody else can make e impossible: it is a refusal, or what it rests on *)
(* is locked.  What rests on claims and completions is up to ClaimInv.     *)
(***************************************************************************)
Settled(c, e, held) ==
    \/ e \in B!Refused(c)
    \/ /\ B!Valid(c) /\ e \in B!Performing(c)
       /\ c.op \in {"credit", "debit", "transfer", "entitle"} => B!Holder(c) \in held
       /\ c.op = "revoke" => B!Holder(c) \in held \/ e.change = B!Nothing

\* What the first k grants of the reward come to.
Granted(c, k) ==
    [a \in Accounts |->
        IF a[2] = c.player THEN Total(B!Amounts, {i \in 1 .. k : Grants[i][1] = a[1]}) ELSE 0]

StageInv(s) ==
    /\ pc[s] \in {"start", "run"} => step[s] = 1
    /\ pc[s] \in {"locking", "upsert", "grant"} => B!Valid(Cmd(s))
    /\ pc[s] \in {"locking", "upsert"} => Cmd(s).op = "transfer"
    /\ pc[s] = "upsert" =>
         /\ Account(s) \in locks[s] /\ write[s] = B!Adding(Account(s), -Cmd(s).amount)
         /\ balance[Account(s)] >= Cmd(s).amount /\ Cmd(s).amount <= Upper[Cmd(s).asset]
    /\ pc[s] = "grant" =>
         /\ claim[s] /\ write[s] = Granted(Cmd(s), step[s] - 1)
         /\ \A i \in 1 .. (step[s] - 1) : Payable(Grants[i])
    /\ pc[s] = "commit" =>
         \E e \in B!Effects(Cmd(s)) :
            /\ Matches(Cmd(s), e, outcome[s], write[s], claim[s], post[s])
            /\ Settled(Cmd(s), e, locks[s])
    /\ pc[s] # "done" => reply[s] = "none"

\* Both specifications have the same accounts and the same rules.
LEMMA SameRules ==
    /\ B!Accounts = Accounts /\ B!Results = Results
    /\ \A c : B!Permitted(c) = Permitted(c) /\ B!ValidAmount(c) = ValidAmount(c)
    /\ \A asset, n : B!Within(asset, n) = Within(asset, n)
    /\ \A grant : B!Payable(grant) = Payable(grant)
<1>1. B!Accounts = Accounts /\ B!Results = Results
  BY DEF B!Accounts, B!Assets, B!Limited, Accounts, Assets, Limited, B!Results, Results
<1>2. \A c : B!Permitted(c) = Permitted(c) /\ B!ValidAmount(c) = ValidAmount(c)
  BY DEF B!Permitted, B!allowedNestedOperation, B!ValidAmount, Permitted, allowedNestedOperation, ValidAmount
<1>3. /\ \A asset, n : B!Within(asset, n) = Within(asset, n)
      /\ \A grant : B!Payable(grant) = Payable(grant)
  BY DEF B!Within, Within, B!Payable, Payable
<1>4. QED
  BY <1>1, <1>2, <1>3

\* What is settled is a possible effect.
LEMMA SettledEffect ==
    ASSUME NEW c, NEW e, NEW held, Settled(c, e, held)
    PROVE  e \in B!Effects(c)
BY DEF Settled, B!Effects

\* The parts of an effect.
LEMMA EffectParts ==
    ASSUME NEW x, NEW w, NEW k
    PROVE  /\ B!Effect(x, w, k).result = x /\ B!Effect(x, w, k).change = w
           /\ B!Effect(x, w, k).inserted = k
BY DEF B!Effect

\* The command of a submission and its accounts are the same in both specifications.
LEMMA SameAccounts ==
    ASSUME NEW s
    PROVE  B!Holder(Cmd(s)) = Account(s) /\ B!Receiver(Cmd(s)) = Target(s)
BY DEF B!Holder, B!Receiver, Account, Target

\* Changes that are none, of one account and of two.
LEMMA ChangeFacts ==
    ASSUME NEW a \in Accounts, NEW n \in Int
    PROVE  /\ B!Nothing \in [Accounts -> Int] /\ \A b \in Accounts : B!Nothing[b] = 0
           /\ B!Adding(a, n) \in [Accounts -> Int] /\ B!Adding(a, n)[a] = n
           /\ \A b \in Accounts \ {a} : B!Adding(a, n)[b] = 0
BY SameRules DEF B!Nothing, B!Adding

\* A function that is zero, or zero but for one account, is such a change.
LEMMA ChangeIs ==
    ASSUME NEW w \in [Accounts -> Int], NEW a \in Accounts, \A b \in Accounts \ {a} : w[b] = 0
    PROVE  w = B!Adding(a, w[a]) /\ (w[a] = 0 => w = B!Nothing)
<1>1. w[a] \in Int
  OBVIOUS
<1>2. /\ B!Adding(a, w[a]) \in [Accounts -> Int] /\ B!Adding(a, w[a])[a] = w[a]
      /\ \A b \in Accounts \ {a} : B!Adding(a, w[a])[b] = 0
      /\ B!Nothing \in [Accounts -> Int] /\ \A b \in Accounts : B!Nothing[b] = 0
  BY <1>1, ChangeFacts
<1>3. \A b \in Accounts : w[b] = B!Adding(a, w[a])[b] /\ (w[a] = 0 => w[b] = B!Nothing[b])
  BY <1>2
<1>4. QED
  BY <1>2, <1>3

-----------------------------------------------------------------------------
(* Steps before the commit *)

\* A transaction that comes to the commit with a settled effect.
LEMMA Concluded ==
    ASSUME NEW s \in Submissions, UNCHANGED tables, pc'[s] = "commit", reply'[s] = "none",
           NEW e, Matches(Cmd(s), e, outcome'[s], write'[s], claim'[s], post'[s]),
           Settled(Cmd(s), e, locks'[s])
    PROVE  StageInv(s)'
<1>1. Cmd(s)' = Cmd(s) /\ balance' = balance /\ claims' = claims /\ completed' = completed
  BY DEF tables, Cmd
<1>2. B!Performing(Cmd(s))' = B!Performing(Cmd(s))
  BY <1>1 DEF B!Performing, B!Changing, B!Covers, B!HasClaimed, B!HasCompleted
<1>3. Settled(Cmd(s), e, locks[s])' /\ e \in B!Effects(Cmd(s))'
  BY <1>1, <1>2, SettledEffect DEF Settled, B!Effects
<1>4. Matches(Cmd(s), e, outcome[s], write[s], claim[s], post[s])'
  BY <1>1 DEF Matches
<1>5. QED
  BY <1>1, <1>3, <1>4 DEF StageInv

\* The ledger entries a transaction has appended are those of its result.
Bookkept(result, added, posted) ==
    \A p \in Players : \/ posted /\ result # "LIMIT"
                       \/ ~posted /\ result = "LIMIT"
                       \/ added[<<"currency", p>>] = 0

\* A handler that is through comes to the commit with the effect of its result and writes.
LEMMA Finished ==
    ASSUME TypeOK, NEW s \in Submissions, UNCHANGED tables, StageInv(s), pc[s] # "done", reply' = reply,
           NEW result \in Results, result # "NESTED_OPERATION_FORBIDDEN", Finish(s, result),
           Settled(Cmd(s), B!Effect(result, write'[s], claim'[s]), locks'[s]),
           Bookkept(result, write'[s], post'[s])
    PROVE  StageInv(s)'
<1> DEFINE e == B!Effect(result, write'[s], claim'[s])
<1>1. e.result = result /\ e.change = write'[s] /\ e.inserted = claim'[s]
  BY EffectParts
<1>2. pc'[s] = "commit" /\ outcome'[s] = B!Coded(Cmd(s), result)
  BY DEF Finish, Goto, TypeOK, B!Coded
<1>3. \A p \in Players : (IF post'[s] THEN write'[s][<<"currency", p>>] ELSE 0) = B!Booked(e, p)
  <2> HIDE DEF e
  <2>1. QED
    BY <1>1 DEF Bookkept, B!Booked
<1>4. reply'[s] = "none"
  BY DEF StageInv
<1> HIDE DEF e
<1>5. Matches(Cmd(s), e, outcome'[s], write'[s], claim'[s], post'[s])
  BY <1>1, <1>2, <1>3 DEF Matches
<1>6. Settled(Cmd(s), e, locks'[s])
  BY DEF e
<1>7. QED
  BY <1>2, <1>4, <1>5, <1>6, Concluded

\* Nothing is written before the handler has begun to write, and nothing is no change.
LEMMA Blank ==
    ASSUME TypeOK, NEW s \in Submissions, Unwritten(s)
    PROVE  /\ write[s] = B!Nothing /\ \A result, posted : Bookkept(result, write[s], posted)
<1>1. write[s] \in [Accounts -> Int] /\ \A a \in Accounts : write[s][a] = 0
  BY DEF TypeOK, Unwritten
<1>2. B!Nothing = [a \in Accounts |-> 0]
  BY SameRules DEF B!Nothing
<1>3. \A p \in Players : <<"currency", p>> \in Accounts
  BY DEF Accounts, Assets, Limited
<1>4. QED
  BY <1>1, <1>2, <1>3 DEF Bookkept

\* A request that is refused, or finds nothing to do, has no effect.
LEMMA RefusedStage ==
    ASSUME TypeOK, NEW s \in Submissions, WorkInv(s), StageInv(s), UNCHANGED tables,
           Refuse(s), ~GrantRefused(s)
    PROVE  StageInv(s)'
<1>1. /\ pc[s] \in {"run", "locking"} /\ pc'[s] = "commit"
      /\ UNCHANGED <<locks, write, post, claim, reply>>
  <2>1. pc[s] # "grant"
    BY DEF Refuse, ExecuteForbidden, ArgumentRefused, WalletGet, DebitRefused, TransferRefused,
           ClaimDuplicate, Revoke, Running
  <2>2. QED
    BY <2>1, RefuseEffect
<1>2. /\ Unwritten(s) /\ claim'[s] = FALSE
  BY <1>1 DEF WorkInv, TypeOK
<1>3. write'[s] = B!Nothing /\ \A result, posted : Bookkept(result, write'[s], posted)
  BY <1>1, <1>2, Blank
<1>4. ASSUME NEW x \in Results, x # "NESTED_OPERATION_FORBIDDEN", Finish(s, x),
             Settled(Cmd(s), B!Effect(x, B!Nothing, FALSE), locks'[s])
      PROVE  StageInv(s)'
  BY <1>1, <1>2, <1>3, <1>4, Finished
<1>5. ASSUME NEW x \in Results, x # "NESTED_OPERATION_FORBIDDEN", Finish(s, x), x \in B!Refusals(Cmd(s))
      PROVE  StageInv(s)'
  BY <1>4, <1>5 DEF Settled, B!Refused
<1>6. ASSUME NEW x \in Results, x # "NESTED_OPERATION_FORBIDDEN", Finish(s, x), B!Valid(Cmd(s)),
             Cmd(s).op \in {"get", "claim", "revoke"},
             B!Effect(x, B!Nothing, FALSE) \in B!Performing(Cmd(s))
      PROVE  StageInv(s)'
  <2>1. B!Effect(x, B!Nothing, FALSE).change = B!Nothing
    BY DEF B!Effect
  <2>2. Settled(Cmd(s), B!Effect(x, B!Nothing, FALSE), locks'[s])
    BY <1>6, <2>1 DEF Settled
  <2>3. QED
    BY <1>4, <1>6, <2>2
<1>7. CASE ExecuteForbidden(s)
  <2> DEFINE x == "NESTED_OPERATION_FORBIDDEN"
             e == B!Effect(x, B!Nothing, FALSE)
  <2>1. outcome'[s] = x /\ ~Permitted(Cmd(s)) /\ reply'[s] = "none"
    <3>1. outcome' = [outcome EXCEPT ![s] = x] /\ ~Permitted(Cmd(s))
      BY <1>7 DEF ExecuteForbidden
    <3>2. reply'[s] = "none"
      BY <1>1 DEF StageInv
    <3>3. QED
      BY <3>1, <3>2 DEF TypeOK
  <2>2. e.result = x /\ e.change = B!Nothing /\ e.inserted = FALSE
    BY DEF B!Effect
  <2>3. x \in B!Refusals(Cmd(s))
    BY <2>1, SameRules DEF B!Refusals, Results
  <2>4. Settled(Cmd(s), e, locks'[s])
    BY <2>3 DEF Settled, B!Refused
  <2>5. B!Coded(Cmd(s), x) = x
    BY DEF B!Coded
  <2>6. \A p \in Players : (IF post'[s] THEN write'[s][<<"currency", p>>] ELSE 0) = B!Booked(e, p)
    BY <1>3, <2>2 DEF Bookkept, B!Booked
  <2> HIDE DEF e
  <2>7. QED
    BY <1>1, <1>2, <1>3, <2>1, <2>2, <2>4, <2>5, <2>6, Concluded DEF Matches
<1>8. CASE ArgumentRefused(s)
  <2>1. Finish(s, "INVALID_ARGUMENT") /\ Permitted(Cmd(s)) /\ ~ValidAmount(Cmd(s))
    BY <1>8 DEF ArgumentRefused
  <2>2. "INVALID_ARGUMENT" \in B!Refusals(Cmd(s)) /\ "INVALID_ARGUMENT" \in Results
    BY <2>1, SameRules DEF B!Refusals, Results
  <2>3. QED
    BY <1>5, <2>1, <2>2
<1>9. ASSUME Permitted(Cmd(s)), ValidAmount(Cmd(s))
      PROVE  /\ B!Valid(Cmd(s))
             /\ Cmd(s).op \in {"debit", "transfer"} => "INSUFFICIENT" \in B!Refusals(Cmd(s))
             /\ Cmd(s).op \in {"transfer", "get"} => "LIMIT" \in B!Refusals(Cmd(s))
  BY <1>9, SameRules DEF B!Valid, B!Refusals, Results
<1>10. {"succeeded", "INSUFFICIENT", "LIMIT"} \subseteq Results
  BY DEF Results
<1>11. CASE WalletGet(s)
  <2>1. /\ Cmd(s).op = "get" /\ Permitted(Cmd(s)) /\ ValidAmount(Cmd(s))
        /\ Finish(s, "succeeded") \/ Finish(s, "LIMIT")
    BY <1>11 DEF WalletGet, Running
  <2>2. B!Effect("succeeded", B!Nothing, FALSE) \in B!Performing(Cmd(s))
    BY <2>1 DEF B!Performing
  <2>3. QED
    BY <1>5, <1>6, <1>9, <1>10, <2>1, <2>2
<1>12. CASE DebitRefused(s)
  BY <1>5, <1>9, <1>10, <1>12 DEF DebitRefused, Running
<1>13. CASE TransferRefused(s)
  <2>1. /\ Cmd(s).op = "transfer" /\ B!Valid(Cmd(s))
        /\ Finish(s, "INSUFFICIENT") \/ Finish(s, "LIMIT")
    BY <1>13 DEF TransferRefused, StageInv
  <2>2. Permitted(Cmd(s)) /\ ValidAmount(Cmd(s))
    BY <2>1, SameRules DEF B!Valid
  <2>3. QED
    BY <1>5, <1>9, <1>10, <2>1, <2>2
<1>14. CASE ClaimDuplicate(s)
  <2>1. /\ Cmd(s).op = "claim" /\ Permitted(Cmd(s)) /\ ValidAmount(Cmd(s)) /\ Claimed(s)
        /\ Finish(s, "succeeded")
    BY <1>14 DEF ClaimDuplicate, Running
  <2>2. B!Effect("succeeded", B!Nothing, FALSE) \in B!Performing(Cmd(s))
    BY <2>1 DEF B!Performing, B!HasClaimed, Claimed
  <2>3. QED
    BY <1>6, <1>9, <1>10, <2>1, <2>2
<1>15. CASE Revoke(s) /\ Account(s) \notin rows
  <2>1. /\ Cmd(s).op = "revoke" /\ Permitted(Cmd(s)) /\ ValidAmount(Cmd(s)) /\ Finish(s, "succeeded")
    BY <1>15 DEF Revoke, Running
  <2>2. B!Effect("succeeded", B!Nothing, FALSE) \in B!Performing(Cmd(s))
    BY <2>1 DEF B!Performing
  <2>3. QED
    BY <1>6, <1>9, <1>10, <2>1, <2>2
<1>16. QED
  BY <1>7, <1>8, <1>11, <1>12, <1>13, <1>14, <1>15 DEF Refuse

\* A command that changes one account does so on the balance it has locked.
LEMMA DepositStage ==
    ASSUME TypeOK, NoOverdraft, NEW s \in Submissions, WorkInv(s), StageInv(s), UNCHANGED tables,
           NEW n \in Int, Deposit(s, n)
    PROVE  StageInv(s)'
<1> DEFINE c == Cmd(s)
           a == Account(s)
<1>0. a \in Accounts /\ c.asset \in AssetsOf[c.op] /\ a = <<c.asset, c.player>> /\ B!Holder(c) = a
  BY CommandFacts, SameAccounts
<1>1. /\ pc[s] = "run" /\ Write(s, a, n) /\ UNCHANGED <<claim, reply>>
  BY DepositEffect
<1>2. claim'[s] = FALSE /\ Unwritten(s)
  BY <1>1 DEF WorkInv, TypeOK
<1>3. /\ a \in locks'[s] /\ write'[s][a] = n /\ write'[s] \in [Accounts -> Int]
      /\ \A b \in Accounts \ {a} : write'[s][b] = 0
  BY <1>0, <1>1, <1>2, WriteEffect DEF Unwritten
<1>4. write'[s] = B!Adding(a, n)
  BY <1>0, <1>3, ChangeIs
<1>5. ASSUME NEW x \in Results, x # "NESTED_OPERATION_FORBIDDEN", Finish(s, x), B!Valid(c),
             B!Effect(x, B!Adding(a, n), FALSE) \in B!Performing(c),
             Bookkept(x, write'[s], post'[s])
      PROVE  StageInv(s)'
  <2>1. Settled(c, B!Effect(x, write'[s], claim'[s]), locks'[s])
    BY <1>0, <1>2, <1>3, <1>4, <1>5 DEF Settled
  <2>2. QED
    BY <1>1, <1>5, <2>1, Finished
<1> HIDE DEF c, a
<1>6. {"succeeded", "LIMIT"} \subseteq Results
  BY DEF Results
<1>7. ASSUME c.op \in {"credit", "debit"}, Change(s, n), B!Valid(c),
             B!Performing(c) = B!Changing(c, n)
      PROVE  StageInv(s)'
  <2> DEFINE ok == Within(c.asset, balance[a] + n)
             x == IF ok THEN "succeeded" ELSE "LIMIT"
  <2>1. post' = [post EXCEPT ![s] = ok] /\ Finish(s, x)
    BY <1>7 DEF Change, c, a
  <2>2. ok \in BOOLEAN
    BY DEF Within
  <2>3. B!Effect(x, B!Adding(a, n), FALSE) \in B!Performing(c)
    BY <1>0, <1>7, SameRules DEF B!Changing
  <2> HIDE DEF ok
  <2>4. post'[s] = ok
    BY <2>1, <2>2 DEF TypeOK
  <2>5. Bookkept(x, write'[s], post'[s])
    BY <2>2, <2>4 DEF Bookkept
  <2>6. x \in Results /\ x # "NESTED_OPERATION_FORBIDDEN"
    BY <1>6
  <2> HIDE DEF x
  <2>7. QED
    BY <1>5, <1>7, <2>1, <2>3, <2>5, <2>6
<1>8. ASSUME c.asset # "currency" PROVE \A x, posted : Bookkept(x, write'[s], posted)
  <2>1. ASSUME NEW p \in Players PROVE write'[s][<<"currency", p>>] = 0
    <3>1. <<"currency", p>> \in Accounts /\ <<"currency", p>> # a
      BY <1>0, <1>8 DEF Accounts, Assets, Limited
    <3>2. QED
      BY <1>3, <3>1
  <2>2. QED
    BY <2>1 DEF Bookkept
<1>9. Permitted(c) /\ ValidAmount(c) => B!Valid(c)
  BY SameRules DEF B!Valid
<1>10. CASE Credit(s) /\ n = c.amount
  <2>1. c.op = "credit" /\ B!Valid(c) /\ Change(s, n)
    BY <1>9, <1>10 DEF Credit, Running, c
  <2>2. B!Performing(c) = B!Changing(c, n)
    BY <1>10, <2>1 DEF B!Performing
  <2>3. QED
    BY <1>7, <2>1, <2>2
<1>11. CASE Debit(s) /\ n = -c.amount
  <2>1. c.op = "debit" /\ B!Valid(c) /\ Change(s, n) /\ balance[a] >= c.amount
    BY <1>9, <1>11 DEF Debit, Affordable, Running, c, a
  <2>2. B!Performing(c) = B!Changing(c, n)
    BY <1>0, <1>11, <2>1 DEF B!Performing, B!Covers
  <2>3. QED
    BY <1>7, <2>1, <2>2
<1>12. CASE AddXP(s) /\ n = c.amount
  <2>1. c.op = "addXP" /\ B!Valid(c) /\ Finish(s, "succeeded")
    BY <1>9, <1>12 DEF AddXP, Running, c
  <2>2. c.asset # "currency"
    BY <1>0, <2>1 DEF AssetsOf
  <2>3. B!Effect("succeeded", B!Adding(a, n), FALSE) \in B!Performing(c)
    BY <1>0, <1>12, <2>1 DEF B!Performing
  <2>4. QED
    BY <1>5, <1>6, <1>8, <2>1, <2>2, <2>3
<1>13. CASE Entitle(s) /\ n = 1 - balance[a]
  <2>1. c.op = "entitle" /\ B!Valid(c) /\ Finish(s, "succeeded")
    BY <1>9, <1>13 DEF Entitle, Running, c
  <2>2. c.asset # "currency"
    BY <1>0, <2>1 DEF AssetsOf
  <2>3. B!Effect("succeeded", B!Adding(a, n), FALSE) \in B!Performing(c)
    BY <1>0, <1>13, <2>1 DEF B!Performing
  <2>4. QED
    BY <1>5, <1>6, <1>8, <2>1, <2>2, <2>3
<1>14. CASE Revoke(s) /\ n = -balance[a]
  <2>1. c.op = "revoke" /\ B!Valid(c) /\ Finish(s, "succeeded")
    BY <1>9, <1>14 DEF Revoke, Running, c
  <2>2. c.asset # "currency"
    BY <1>0, <2>1 DEF AssetsOf
  <2>3. B!Effect("succeeded", B!Adding(a, n), FALSE) \in B!Performing(c)
    BY <1>0, <1>14, <2>1 DEF B!Performing
  <2>4. QED
    BY <1>5, <1>6, <1>8, <2>1, <2>2, <2>3
<1>15. QED
  BY <1>10, <1>11, <1>12, <1>13, <1>14 DEF Deposit, c, a

\* An objective is completed if it is not yet.
LEMMA ObjectiveStage ==
    ASSUME TypeOK, NEW s \in Submissions, WorkInv(s), StageInv(s), UNCHANGED tables, CompleteObjective(s)
    PROVE  StageInv(s)'
<1> DEFINE k == ~B!HasCompleted(Cmd(s))
<1>1. /\ pc[s] = "run" /\ Cmd(s).op = "objective" /\ Permitted(Cmd(s)) /\ ValidAmount(Cmd(s))
      /\ Finish(s, "succeeded") /\ UNCHANGED <<locks, write, post, reply>>
      /\ claim' = [claim EXCEPT ![s] = \A x \in completed : <<x[1], x[2]>> # ClaimKey(s)]
  BY DEF CompleteObjective, Running
<1>2. (\A x \in completed : <<x[1], x[2]>> # ClaimKey(s)) = k
  BY DEF ClaimKey, B!HasCompleted
<1>3. claim'[s] = k
  BY <1>1, <1>2 DEF TypeOK
<1>4. write'[s] = B!Nothing /\ Bookkept("succeeded", write'[s], post'[s])
  BY <1>1, Blank DEF WorkInv
<1>5. B!Effect("succeeded", B!Nothing, k) \in B!Performing(Cmd(s)) /\ B!Valid(Cmd(s))
  BY <1>1, SameRules DEF B!Performing, B!Valid
<1> HIDE DEF k
<1>6. Settled(Cmd(s), B!Effect("succeeded", write'[s], claim'[s]), locks'[s])
  BY <1>1, <1>3, <1>4, <1>5 DEF Settled
<1>7. "succeeded" \in Results
  BY DEF Results
<1>8. QED
  BY <1>1, <1>4, <1>6, <1>7, Finished

\* A transfer takes what its source covers.
LEMMA TransferDebitStage ==
    ASSUME TypeOK, NoOverdraft, NEW s \in Submissions, WorkInv(s), StageInv(s), UNCHANGED tables,
           TransferDebit(s)
    PROVE  StageInv(s)'
<1> DEFINE m == Cmd(s).amount
           a == Account(s)
<1>0. /\ Cmd(s)' = Cmd(s) /\ Account(s)' = a /\ balance' = balance /\ a \in Accounts /\ m \in Nat
      /\ Cmd(s).asset \in AssetsOf[Cmd(s).op] /\ Target(s) \in Accounts
  BY CommandFacts DEF tables, Cmd, Account
<1>1. /\ pc[s] = "locking" /\ pc'[s] = "upsert" /\ a \in locks[s] /\ balance[a] >= m
      /\ write'[s][a] = -m /\ \A b \in Accounts \ {a} : write'[s][b] = write[s][b]
      /\ write' \in [Submissions -> [Accounts -> Int]] /\ UNCHANGED <<locks, reply>>
  BY DebitEffect
<1>2. \A b \in Accounts \ {a} : write'[s][b] = 0
  BY <1>1 DEF WorkInv, Unwritten
<1>3. write'[s] = B!Adding(a, -m)
  BY <1>0, <1>1, <1>2, ChangeIs
<1>4. Cmd(s).op = "transfer" /\ B!Valid(Cmd(s)) /\ reply[s] = "none"
  BY <1>1 DEF StageInv
<1>5. m <= Upper[Cmd(s).asset]
  <2>1. Cmd(s).asset \in Limited
    BY <1>0, <1>4 DEF AssetsOf
  <2>2. Upper[Cmd(s).asset] \in Nat
    BY <2>1, EconomyConstants
  <2>3. \A b \in Accounts : balance[b] \in Int /\ balance[b] >= 0
    BY DEF TypeOK, NoOverdraft
  <2>4. TargetBalance(s) <= Upper[Cmd(s).asset]
    BY DEF TransferDebit, Within
  <2>5. CASE Target(s) \in seen[s]
    <3>1. balance[Target(s)] + m <= Upper[Cmd(s).asset]
      BY <2>4, <2>5 DEF TargetBalance
    <3>2. QED
      BY <1>0, <2>2, <2>3, <3>1
  <2>6. CASE Target(s) \notin seen[s]
    BY <1>0, <2>4, <2>6 DEF TargetBalance
  <2>7. QED
    BY <2>5, <2>6
<1> HIDE DEF m, a
<1>6. QED
  BY <1>0, <1>1, <1>3, <1>4, <1>5 DEF StageInv, m, a

\* And what it took is what the target gets.
LEMMA TransferUpsertStage ==
    ASSUME TypeOK, NEW s \in Submissions, WorkInv(s), StageInv(s), UNCHANGED tables, TransferUpsert(s)
    PROVE  StageInv(s)'
<1> DEFINE c == Cmd(s)
           m == c.amount
           a == Account(s)
           b == Target(s)
<1>0. /\ a \in Accounts /\ b \in Accounts /\ m \in Int /\ c \in Commands /\ -m \in Int
      /\ B!Holder(c) = a /\ B!Receiver(c) = b
  BY CommandFacts, SameAccounts
<1>1. /\ pc[s] = "upsert" /\ Write(s, b, m) /\ post'[s] /\ UNCHANGED <<claim, reply>>
      /\ Finish(s, "succeeded")
  BY UpsertEffect DEF TransferUpsert
<1>2. /\ B!Valid(c) /\ c.op = "transfer" /\ a \in locks[s] /\ write[s] = B!Adding(a, -m)
      /\ balance[a] >= m /\ m <= Upper[c.asset]
  BY <1>1 DEF StageInv
<1>3. /\ a \in locks'[s] /\ write'[s][b] = m /\ write'[s] \in [Accounts -> Int]
      /\ \A d \in Accounts \ {b} : write'[s][d] = write[s][d]
  BY <1>0, <1>1, <1>2, WriteEffect
<1>4. write'[s] = B!Moving(c)
  <2>1. B!Adding(a, -m) \in [Accounts -> Int]
    BY <1>0, ChangeFacts
  <2>2. B!Moving(c) = [B!Adding(a, -m) EXCEPT ![b] = m]
    BY <1>0 DEF B!Moving
  <2> HIDE DEF c, m, a, b
  <2>3. B!Moving(c) \in [Accounts -> Int] /\ B!Moving(c)[b] = m
        /\ \A d \in Accounts \ {b} : B!Moving(c)[d] = B!Adding(a, -m)[d]
    BY <1>0, <2>1, <2>2
  <2>4. QED
    BY <1>2, <1>3, <2>3
<1>5. claim'[s] = FALSE
  BY <1>1 DEF TypeOK, WorkInv
<1> HIDE DEF m, a, b
<1>6. B!Effect("succeeded", B!Moving(c), FALSE) \in B!Performing(c)
  BY <1>0, <1>2 DEF B!Performing, B!Covers, m
<1>7. Settled(c, B!Effect("succeeded", write'[s], claim'[s]), locks'[s])
  BY <1>0, <1>2, <1>3, <1>4, <1>5, <1>6 DEF Settled
<1>8. Bookkept("succeeded", write'[s], post'[s])
  BY <1>1 DEF Bookkept
<1>9. "succeeded" \in Results
  BY DEF Results
<1>10. QED
  BY <1>1, <1>7, <1>8, <1>9, Finished

\* Both specifications add up in the same way.
LEMMA SameTotal == ASSUME NEW f, NEW S PROVE B!Total(f, S) = Total(f, S)
<1>1. B!Total(f, S) = (CHOOSE g : Sums(g, f, SUBSET S))[S]
  BY DEF B!Total, B!MapThenSumSet, B!MapThenFoldSet, Sums, Picked
<1>2. QED
  BY <1>1, TotalIsFold

\* Before the first grant nothing is granted.
LEMMA GrantedNone == ASSUME NEW c PROVE Granted(c, 0) = B!Nothing
<1>1. \A asset : {i \in 1 .. 0 : Grants[i][1] = asset} = {}
  OBVIOUS
<1>2. \A a \in Accounts : Granted(c, 0)[a] = 0
  BY <1>1, TotalEmpty DEF Granted
<1>3. QED
  BY <1>2, SameRules DEF Granted, B!Nothing

\* A grant adds its amount to its account and nothing to the others.
LEMMA GrantedMore ==
    ASSUME NEW c, NEW k \in 1 .. Len(Grants), c.player \in Players
    PROVE  LET a == <<Grants[k][1], c.player>> IN
           /\ Granted(c, k)[a] = Granted(c, k - 1)[a] + Grants[k][2]
           /\ \A b \in Accounts \ {a} : Granted(c, k)[b] = Granted(c, k - 1)[b]
<1> DEFINE a == <<Grants[k][1], c.player>>
           Before(asset) == {i \in 1 .. (k - 1) : Grants[i][1] = asset}
           Until(asset) == {i \in 1 .. k : Grants[i][1] = asset}
<1>0. /\ Len(Grants) \in Nat /\ k \in Nat /\ k - 1 \in Nat
      /\ \A i \in 1 .. Len(Grants) : Grants[i][1] \in Limited /\ Grants[i][2] \in Nat
  BY GrantFacts
<1>1. a \in Accounts /\ a[1] = Grants[k][1] /\ a[2] = c.player
  BY <1>0 DEF Accounts, Assets
<1>2. \A i \in 1 .. Len(Grants) : B!Amounts[i] = Grants[i][2]
  BY DEF B!Amounts
<1>3. Granted(c, k)[a] = Granted(c, k - 1)[a] + Grants[k][2]
  <2> DEFINE S == Before(a[1])
  <2>1. Until(a[1]) = S \cup {k} /\ k \notin S
    BY <1>0, <1>1
  <2>2. \A i \in S \cup {k} : B!Amounts[i] \in Int
    BY <1>0, <1>2
  <2>3. IsFiniteSet(S)
    <3>1. IsFiniteSet(1 .. (k - 1))
      BY <1>0, FS_Interval
    <3>2. QED
      BY <3>1, FS_Subset
  <2>4. Granted(c, k)[a] = Total(B!Amounts, Until(a[1])) /\ Granted(c, k - 1)[a] = Total(B!Amounts, S)
    BY <1>1 DEF Granted
  <2> HIDE DEF S, a
  <2>5. Total(B!Amounts, S \cup {k}) = Total(B!Amounts, S) + B!Amounts[k]
    BY <2>1, <2>2, <2>3, TotalAdd
  <2>6. QED
    BY <1>2, <2>1, <2>4, <2>5
<1>4. ASSUME NEW b \in Accounts \ {a} PROVE Granted(c, k)[b] = Granted(c, k - 1)[b]
  <2>1. CASE b[2] = c.player
    <3>1. b[1] # Grants[k][1]
      BY <1>4, <2>1 DEF Accounts
    <3>2. Until(b[1]) = Before(b[1])
      BY <1>0, <3>1
    <3>3. QED
      BY <2>1, <3>2 DEF Granted
  <2>2. CASE b[2] # c.player
    BY <2>2 DEF Granted
  <2>3. QED
    BY <2>1, <2>2
<1>5. QED
  BY <1>3, <1>4

\* The grants up to the first that cannot be paid are the reward.
LEMMA RewardIs ==
    ASSUME NEW c, NEW k \in 0 .. Len(Grants), \A i \in 1 .. k : Payable(Grants[i]),
           k # Len(Grants) => ~Payable(Grants[k + 1])
    PROVE  B!Paid = 1 .. k /\ B!Reward(c) = Granted(c, k)
<1>0. Len(Grants) \in Nat /\ k \in Nat
  BY GrantFacts
<1>1. B!Paid = {i \in 1 .. Len(Grants) : \A j \in 1 .. i : Payable(Grants[j])}
  BY SameRules DEF B!Paid
<1>2. ASSUME NEW i \in 1 .. Len(Grants), \A j \in 1 .. i : Payable(Grants[j]) PROVE i \in 1 .. k
  <2> SUFFICES ASSUME i > k PROVE FALSE
    BY <1>0
  <2>1. k + 1 \in 1 .. i /\ k # Len(Grants)
    BY <1>0
  <2>2. QED
    BY <1>2, <2>1
<1>3. ASSUME NEW i \in 1 .. k PROVE i \in 1 .. Len(Grants) /\ \A j \in 1 .. i : Payable(Grants[j])
  BY <1>0
<1>4. B!Paid = 1 .. k
  BY <1>1, <1>2, <1>3
<1>5. QED
  BY <1>4, SameRules, SameTotal DEF B!Reward, Granted

\* A claim that is complete, or cannot be, has the effect of the reward.
LEMMA ClaimConcludes ==
    ASSUME TypeOK, ClaimInv, NEW s \in Submissions, StageInv(s), WorkInv(s), UNCHANGED tables,
           pc[s] = "grant", UNCHANGED <<claim, reply>>,
           NEW k \in 0 .. Len(Grants), \A i \in 1 .. k : Payable(Grants[i]),
           k # Len(Grants) => ~Payable(Grants[k + 1]),
           Finish(s, IF k = Len(Grants) THEN "succeeded" ELSE "INVALID_REWARD"),
           write'[s] = Granted(Cmd(s), k), post'[s] \/ write'[s] = B!Nothing
    PROVE  StageInv(s)'
<1> DEFINE c == Cmd(s)
           x == IF k = Len(Grants) THEN "succeeded" ELSE "INVALID_REWARD"
<1>0. Len(Grants) \in Nat
  BY GrantFacts
<1>1. B!Paid = 1 .. k /\ B!Reward(c) = write'[s]
  BY RewardIs
<1>2. B!Paid = 1 .. Len(Grants) <=> k = Len(Grants)
  BY <1>0, <1>1
<1>3. B!Valid(c) /\ c.op = "claim" /\ claim[s] = TRUE
  BY DEF StageInv, WorkInv, TypeOK
<1>4. ~B!HasClaimed(c)
  BY <1>3 DEF ClaimInv, Holds, Claimed, B!HasClaimed
<1>5. B!Effect(x, write'[s], TRUE) \in B!Performing(c)
  BY <1>1, <1>2, <1>3, <1>4 DEF B!Performing
<1>6. Settled(c, B!Effect(x, write'[s], claim'[s]), locks'[s])
  BY <1>3, <1>5 DEF Settled
<1>7. Bookkept(x, write'[s], post'[s])
  <2>1. \A p \in Players : <<"currency", p>> \in Accounts
    BY DEF Accounts, Assets, Limited
  <2>2. \A p \in Players : B!Nothing[<<"currency", p>>] = 0
    BY <2>1, SameRules DEF B!Nothing
  <2>3. QED
    BY <2>2 DEF Bookkept
<1>8. x \in Results /\ x # "NESTED_OPERATION_FORBIDDEN"
  BY DEF Results
<1>9. QED
  BY <1>6, <1>7, <1>8, Finished

\* One grant adds to what was granted; the last one, or one that cannot be paid, ends the claim.
LEMMA GrantStage ==
    ASSUME TypeOK, ClaimInv, NEW s \in Submissions, WorkInv(s), StageInv(s), UNCHANGED tables, Grant(s)
    PROVE  StageInv(s)'
<1> DEFINE c == Cmd(s)
           k == step[s]
           a == <<Grants[k][1], c.player>>
<1>0. /\ k \in 1 .. Len(Grants) /\ Len(Grants) \in Nat /\ k \in 0 .. Len(Grants) /\ k - 1 \in Nat
      /\ Grants[k][1] \in Limited /\ Grants[k][2] \in Nat /\ c.player \in Players
  <2>1. k \in 1 .. Len(Grants)
    BY DEF TypeOK
  <2>2. c.player \in Players
    BY CommandFacts
  <2> HIDE DEF c, k
  <2>3. QED
    BY <2>1, <2>2, GrantFacts
<1>1. /\ pc[s] = "grant" /\ Payable(Grants[k]) /\ Write(s, a, write[s][a] + Grants[k][2])
      /\ post' = [post EXCEPT ![s] = TRUE] /\ UNCHANGED <<claim, reply>>
  BY DEF Grant
<1>2. /\ claim[s] /\ write[s] = Granted(c, k - 1) /\ \A i \in 1 .. (k - 1) : Payable(Grants[i])
      /\ B!Valid(c) /\ reply[s] = "none"
  BY <1>1 DEF StageInv
<1>3. a \in Accounts
  BY <1>0 DEF Accounts, Assets
<1>4. write'[s] = Granted(c, k)
  <2>1. write[s] \in [Accounts -> Int] /\ write[s][a] + Grants[k][2] \in Int
    BY <1>0, <1>3 DEF TypeOK
  <2>2. /\ write'[s] \in [Accounts -> Int] /\ write'[s][a] = write[s][a] + Grants[k][2]
        /\ \A b \in Accounts \ {a} : write'[s][b] = write[s][b]
    BY <1>1, <1>3, <2>1, WriteEffect
  <2>3. /\ Granted(c, k)[a] = Granted(c, k - 1)[a] + Grants[k][2]
        /\ \A b \in Accounts \ {a} : Granted(c, k)[b] = Granted(c, k - 1)[b]
    BY <1>0, GrantedMore
  <2> HIDE DEF a, c, k
  <2>4. \A b \in Accounts : write'[s][b] = Granted(c, k)[b]
    BY <1>2, <2>2, <2>3
  <2>5. Granted(c, k) = [b \in Accounts |-> Granted(c, k)[b]]
    BY DEF Granted
  <2>6. QED
    BY <2>2, <2>4, <2>5
<1>5. \A i \in 1 .. k : Payable(Grants[i])
  BY <1>0, <1>1, <1>2
<1>6. CASE k = Len(Grants)
  <2>1. Finish(s, "succeeded") /\ post'[s]
    BY <1>1, <1>6 DEF Grant, TypeOK
  <2>2. QED
    BY <1>0, <1>1, <1>4, <1>5, <1>6, <2>1, ClaimConcludes
<1>7. CASE k # Len(Grants)
  <2>1. step'[s] = k + 1 /\ pc' = pc /\ Cmd(s)' = c /\ (k + 1) - 1 = k
    BY <1>0, <1>7 DEF Grant, TypeOK, tables, Cmd
  <2>2. B!Valid(Cmd(s))'
    BY <1>2, <2>1
  <2>3. Granted(Cmd(s), step[s] - 1)' = Granted(c, k)
    BY <2>1
  <2> HIDE DEF c, k
  <2>4. QED
    BY <1>1, <1>2, <1>4, <1>5, <2>1, <2>2, <2>3 DEF StageInv
<1>8. QED
  BY <1>6, <1>7

\* A reward with a grant that cannot be paid ends with the grants before it.
LEMMA GrantRefusedStage ==
    ASSUME TypeOK, ClaimInv, NEW s \in Submissions, WorkInv(s), StageInv(s), UNCHANGED tables, GrantRefused(s)
    PROVE  StageInv(s)'
<1> DEFINE k == step[s] - 1
<1>0. k \in 0 .. Len(Grants) /\ k # Len(Grants) /\ k + 1 = step[s]
  BY GrantFacts DEF TypeOK
<1>1. /\ pc[s] = "grant" /\ ~Payable(Grants[k + 1]) /\ Finish(s, "INVALID_REWARD")
      /\ UNCHANGED <<locks, write, post, claim, reply>>
  BY <1>0 DEF GrantRefused
<1>2. write'[s] = Granted(Cmd(s), k) /\ \A i \in 1 .. k : Payable(Grants[i])
  BY <1>1 DEF StageInv
<1>3. post'[s] \/ write'[s] = B!Nothing
  BY <1>1, Blank DEF WorkInv
<1> HIDE DEF k
<1>4. QED
  BY <1>0, <1>1, <1>2, <1>3, ClaimConcludes

\* What a transaction is about to do after its next statement.
LEMMA OwnStage ==
    ASSUME TypeOK, NoOverdraft, ClaimInv, NEW s \in Submissions, WorkInv(s), StageInv(s), Local(s),
           UNCHANGED tables
    PROVE  StageInv(s)'
<1>0. Cmd(s)' = Cmd(s) /\ balance' = balance
  BY DEF tables, Cmd
<1>1. ASSUME pc'[s] = "done" PROVE StageInv(s)'
  BY <1>1 DEF StageInv
<1>2. CASE Reserve(s)
  <2>1. pc[s] = "start" /\ pc'[s] = "run" /\ UNCHANGED <<step, reply>>
    BY <1>2 DEF Reserve, Goto, TypeOK
  <2>2. QED
    BY <2>1 DEF StageInv
<1>3. CASE Replay(s)
  BY <1>1, <1>3 DEF Replay, Goto, TypeOK
<1>4. CASE Fail(s)
  BY <1>1, <1>4, ReleaseEffect DEF Fail, Rollback, DeadlockAbort
<1>5. CASE Refuse(s)
  BY <1>5, RefusedStage, GrantRefusedStage
<1>6. CASE \E n \in Int : Deposit(s, n)
  BY <1>6, DepositStage
<1>7. CASE TransferSelect(s)
  <2>1. /\ pc[s] = "run" /\ pc'[s] = "locking" /\ reply' = reply /\ Cmd(s).op = "transfer"
        /\ Permitted(Cmd(s)) /\ ValidAmount(Cmd(s))
    BY <1>7 DEF TransferSelect, Running, Goto, TypeOK
  <2>2. B!Valid(Cmd(s))
    BY <2>1, SameRules DEF B!Valid
  <2>3. QED
    BY <1>0, <2>1, <2>2 DEF StageInv
<1>8. CASE TransferLock(s)
  BY <1>0, <1>8 DEF TransferLock, StageInv
<1>9. CASE ClaimReward(s)
  <2>1. /\ pc[s] = "run" /\ pc'[s] = "grant" /\ Permitted(Cmd(s)) /\ ValidAmount(Cmd(s))
        /\ claim' = [claim EXCEPT ![s] = TRUE] /\ UNCHANGED <<write, step, reply>>
    BY <1>9 DEF ClaimReward, Running, Goto, TypeOK
  <2>2. B!Valid(Cmd(s))
    BY <2>1, SameRules DEF B!Valid
  <2>3. step[s] = 1 /\ reply[s] = "none"
    BY <2>1 DEF StageInv
  <2>4. write[s] = Granted(Cmd(s), 0)
    BY <2>1, Blank, GrantedNone DEF WorkInv
  <2>5. write'[s] = Granted(Cmd(s), step'[s] - 1) /\ \A i \in 1 .. (step'[s] - 1) : Payable(Grants[i])
    BY <2>1, <2>3, <2>4
  <2>6. claim'[s]
    BY <2>1 DEF TypeOK
  <2>7. Granted(Cmd(s), step[s] - 1)' = Granted(Cmd(s), step'[s] - 1)
    BY <1>0
  <2>8. QED
    BY <1>0, <2>1, <2>2, <2>3, <2>5, <2>6, <2>7 DEF StageInv
<1>10. QED
  BY <1>2, <1>3, <1>4, <1>5, <1>6, <1>7, <1>8, <1>9, ObjectiveStage, TransferDebitStage,
     TransferUpsertStage, GrantStage DEF Local

\* A submission counts its own grants.
LEMMA LocalSteps ==
    ASSUME TypeOK, NoOverdraft, NEW s \in Submissions, Local(s)
    PROVE  \A t \in Submissions \ {s} : step'[t] = step[t]
<1>1. CASE step' = step
  BY <1>1
<1>2. CASE Grant(s)
  BY <1>2 DEF Grant, TypeOK
<1>3. CASE Refuse(s)
  BY <1>1, <1>3, RefuseEffect
<1>4. CASE \E n \in Int : Deposit(s, n)
  BY <1>1, <1>4, DepositEffect
<1>5. CASE TransferDebit(s) \/ TransferUpsert(s)
  BY <1>1, <1>5, DebitEffect, UpsertEffect
<1>6. CASE Fail(s)
  BY <1>1, <1>6, ReleaseEffect DEF Fail, Rollback, DeadlockAbort
<1>7. QED
  BY <1>1, <1>2, <1>3, <1>4, <1>5, <1>6
     DEF Local, Reserve, Replay, CompleteObjective, TransferSelect, TransferLock, ClaimReward

\* Another transaction is about to do what it was.
LEMMA OthersStage ==
    ASSUME NEW t \in Submissions, StageInv(t), SameTx(t), step'[t] = step[t], UNCHANGED tables
    PROVE  StageInv(t)'
<1>0. /\ Cmd(t)' = Cmd(t) /\ Account(t)' = Account(t) /\ balance' = balance
      /\ pc'[t] = pc[t] /\ locks'[t] = locks[t] /\ write'[t] = write[t] /\ post'[t] = post[t]
      /\ claim'[t] = claim[t] /\ outcome'[t] = outcome[t] /\ reply'[t] = reply[t]
  BY DEF tables, Cmd, Account, SameTx
<1>1. CASE pc[t] = "commit"
  <2>1. PICK e \in B!Effects(Cmd(t)) :
          Matches(Cmd(t), e, outcome[t], write[t], claim[t], post[t]) /\ Settled(Cmd(t), e, locks[t])
    BY <1>1 DEF StageInv
  <2>2. reply'[t] = "none"
    BY <1>0, <1>1 DEF StageInv
  <2>3. QED
    BY <1>0, <1>1, <2>1, <2>2, Concluded
<1>2. CASE pc[t] = "grant"
  <2>1. Granted(Cmd(t), step[t] - 1)' = Granted(Cmd(t), step[t] - 1)
    BY <1>0
  <2>2. QED
    BY <1>0, <1>2, <2>1 DEF StageInv
<1>3. CASE pc[t] \notin {"grant", "commit"}
  BY <1>0, <1>3 DEF StageInv
<1>4. QED
  BY <1>1, <1>2, <1>3

-----------------------------------------------------------------------------
(* The commit *)

\* What is settled stays so when others commit.
LEMMA StoreSettled ==
    ASSUME Inv, Inv', NEW s \in Submissions, Store(s), NEW t \in Submissions \ {s}, pc[t] = "commit",
           NEW e, Matches(Cmd(t), e, outcome[t], write[t], claim[t], post[t]),
           Settled(Cmd(t), e, locks[t]), balance'[Account(t)] = balance[Account(t)] \/ Account(t) \notin locks[t]
    PROVE  Settled(Cmd(t), e, locks[t])'
<1> DEFINE c == Cmd(t)
<1>0. TypeOK /\ ClaimInv' /\ B!Holder(c) = Account(t)
  BY SameAccounts DEF Inv
<1>1. /\ Cmd(t)' = c /\ locks'[t] = locks[t] /\ claims \subseteq claims' /\ completed \subseteq completed'
      /\ pc'[t] = pc[t] /\ claim' = claim
  BY <1>0, StoreEffect, ReleaseEffect DEF Cmd
<1>2. /\ claim[t] = e.inserted /\ c.op \in Operations
  BY <1>0, CommandFacts DEF Matches
<1>3. CASE e \in B!Refused(c)
  BY <1>1, <1>3 DEF Settled
<1>4. ASSUME B!Valid(c), e \in B!Performing(c),
             c.op \in {"credit", "debit", "transfer", "entitle"} => Account(t) \in locks[t],
             c.op = "revoke" => Account(t) \in locks[t] \/ e.change = B!Nothing
      PROVE  e \in B!Performing(c)'
  <2>1. CASE c.op \in {"credit", "debit"}
    <3>1. balance'[Account(t)] = balance[Account(t)]
      BY <1>4, <2>1
    <3>2. QED
      BY <1>0, <1>1, <1>4, <2>1, <3>1 DEF B!Performing, B!Changing, B!Covers
  <2>2. CASE c.op \in {"transfer", "entitle"}
    <3>1. balance'[Account(t)] = balance[Account(t)]
      BY <1>4, <2>2
    <3>2. QED
      BY <1>0, <1>1, <1>4, <2>2, <3>1 DEF B!Performing, B!Covers
  <2>3. CASE c.op = "revoke"
    <3>1. CASE balance'[Account(t)] = balance[Account(t)]
      BY <1>0, <1>1, <1>4, <2>3, <3>1 DEF B!Performing
    <3>2. CASE balance'[Account(t)] # balance[Account(t)]
      <4>1. e = B!Effect("succeeded", B!Nothing, FALSE)
        <5>1. e.change = B!Nothing
          BY <1>4, <2>3, <3>2
        <5>2. \/ e = B!Effect("succeeded", B!Nothing, FALSE)
              \/ e = B!Effect("succeeded", B!Adding(Account(t), -balance[Account(t)]), FALSE)
          BY <1>0, <1>4, <2>3 DEF B!Performing
        <5>3. QED
          BY <5>1, <5>2 DEF B!Effect
      <4>2. QED
        BY <1>1, <2>3, <4>1 DEF B!Performing
    <3>3. QED
      BY <3>1, <3>2
  <2>4. CASE c.op \in {"get", "addXP"}
    BY <1>1, <1>4, <2>4 DEF B!Performing
  <2>5. CASE c.op = "objective"
    <3>1. e = B!Effect("succeeded", B!Nothing, ~B!HasCompleted(c))
      BY <1>4, <2>5 DEF B!Performing
    <3>2. claim[t] = ~B!HasCompleted(c)
      BY <1>2, <3>1 DEF B!Effect
    <3>3. CASE B!HasCompleted(c)
      <4>1. B!HasCompleted(c)'
        BY <1>1, <3>3 DEF B!HasCompleted
      <4>2. QED
        BY <1>1, <2>5, <3>1, <3>3, <4>1 DEF B!Performing
    <3>4. CASE ~B!HasCompleted(c)
      <4>1. \A x \in completed' : <<x[1], x[2]>> # <<c.player, c.source>>
        BY <1>0, <1>1, <2>5, <3>2, <3>4 DEF ClaimInv, Holds, ClaimKey
      <4>2. ~B!HasCompleted(c)'
        BY <1>1, <4>1 DEF B!HasCompleted
      <4>3. QED
        BY <1>1, <2>5, <3>1, <3>4, <4>2 DEF B!Performing
    <3>5. QED
      BY <3>3, <3>4
  <2>6. CASE c.op = "claim"
    <3>1. CASE B!HasClaimed(c)
      <4>1. B!HasClaimed(c)'
        BY <1>1, <3>1 DEF B!HasClaimed
      <4>2. QED
        BY <1>1, <1>4, <2>6, <3>1, <4>1 DEF B!Performing
    <3>2. CASE ~B!HasClaimed(c)
      <4>1. claim[t]
        BY <1>2, <1>4, <2>6, <3>2 DEF B!Performing, B!Effect
      <4>2. ~Claimed(t)'
        BY <1>0, <1>1, <2>6, <4>1 DEF ClaimInv, Holds
      <4>3. ~B!HasClaimed(c)'
        BY <1>1, <4>2 DEF Claimed, B!HasClaimed
      <4>4. QED
        BY <1>1, <1>4, <2>6, <3>2, <4>3 DEF B!Performing
    <3>3. QED
      BY <3>1, <3>2
  <2>7. QED
    BY <1>2, <2>1, <2>2, <2>3, <2>4, <2>5, <2>6 DEF Operations, AssetsOf
<1>5. QED
  BY <1>0, <1>1, <1>3, <1>4 DEF Settled

\* Another transaction is about to do what it was: the one that commits has other rows.
LEMMA StoreOthersStage ==
    ASSUME Inv, Inv', NEW s \in Submissions, Store(s), NEW t \in Submissions \ {s}, StageInv(t),
           reply'[t] = reply[t]
    PROVE  StageInv(t)'
<1>0. TypeOK /\ LockInv /\ WorkInv(s)
  BY DEF Inv
<1>1. /\ Cmd(t)' = Cmd(t) /\ Account(t)' = Account(t) /\ pc'[t] = pc[t] /\ locks'[t] = locks[t]
      /\ UNCHANGED <<write, post, claim, step, outcome>>
  BY <1>0, StoreEffect, ReleaseEffect DEF Cmd, Account
<1>2. Account(t) \in Accounts
  BY <1>0, CommandFacts
<1>3. balance'[Account(t)] = balance[Account(t)] \/ Account(t) \notin locks[t]
  <2> DEFINE a == Account(t)
  <2>1. SUFFICES ASSUME a \in locks[t] PROVE balance'[a] = balance[a]
    OBVIOUS
  <2>2. a \in Accounts
    BY <1>2
  <2> HIDE DEF a
  <2>3. pc[s] = "commit" /\ balance'[a] = balance[a] + write[s][a]
    BY <1>0, <2>2, StoreEffect
  <2>4. Active(s) /\ a \notin locks[s]
    BY <1>0, <2>1, <2>2, <2>3 DEF LockInv, Active
  <2>5. write[s][a] = 0 /\ balance[a] \in Int
    BY <1>0, <2>2, <2>4, ActiveWork DEF TypeOK
  <2>6. QED
    BY <2>3, <2>5
<1>4. CASE pc[t] = "commit"
  <2>1. PICK e \in B!Effects(Cmd(t)) :
          Matches(Cmd(t), e, outcome[t], write[t], claim[t], post[t]) /\ Settled(Cmd(t), e, locks[t])
    BY <1>4 DEF StageInv
  <2>2. Settled(Cmd(t), e, locks[t])'
    BY <1>3, <1>4, <2>1, StoreSettled
  <2>3. e \in B!Effects(Cmd(t))'
    BY <2>2 DEF Settled, B!Effects
  <2>4. Matches(Cmd(t), e, outcome[t], write[t], claim[t], post[t])'
    BY <1>1, <2>1 DEF Matches
  <2>5. reply'[t] = "none"
    BY <1>4 DEF StageInv
  <2>6. QED
    BY <1>1, <1>4, <2>2, <2>3, <2>4, <2>5 DEF StageInv
<1>5. CASE pc[t] = "grant"
  <2>1. Granted(Cmd(t), step[t] - 1)' = Granted(Cmd(t), step[t] - 1)
    BY <1>1
  <2>2. QED
    BY <1>1, <1>5, <2>1 DEF StageInv
<1>6. CASE pc[t] \notin {"grant", "commit"}
  BY <1>1, <1>3, <1>6 DEF StageInv
<1>7. QED
  BY <1>4, <1>5, <1>6

-----------------------------------------------------------------------------
(* The invariant *)

Stages == \A s \in Submissions : StageInv(s)

\* Nobody has begun.
LEMMA InitStages == Init => Stages
BY DEF Init, Stages, StageInv

\* Every step leaves every transaction with something it is able to do.
LEMMA StepStages == Inv /\ Stages /\ [Next]_vars => Stages'
<1> SUFFICES ASSUME Inv, Stages, [Next]_vars, NEW t \in Submissions PROVE StageInv(t)'
  BY DEF Stages
<1>0. /\ TypeOK /\ ClaimInv /\ NoOverdraft /\ StageInv(t) /\ Inv'
      /\ \A s \in Submissions : WorkInv(s) /\ StageInv(s)
  BY StepInv DEF Inv, Stages
<1>1. CASE UNCHANGED vars
  BY <1>0, <1>1, OthersStage DEF vars, txVars, SameTx
<1>2. ASSUME NEW s \in Submissions, Local(s) PROVE StageInv(t)'
  <2>1. UNCHANGED tables /\ \A u \in Submissions \ {s} : SameTx(u) /\ step'[u] = step[u]
    BY <1>0, <1>2, LocalFrame, LocalSteps
  <2>2. CASE t = s
    BY <1>0, <1>2, <2>1, <2>2, OwnStage
  <2>3. CASE t # s
    BY <1>0, <2>1, <2>3, OthersStage
  <2>4. QED
    BY <2>2, <2>3
<1>3. ASSUME NEW s \in Submissions, Store(s),
             reply' = [reply EXCEPT ![s] = outcome[s]] \/ reply' = [reply EXCEPT ![s] = "error"]
      PROVE  StageInv(t)'
  <2>1. CASE t = s
    <3>1. pc'[t] = "done"
      BY <1>0, <1>3, <2>1, StoreEffect
    <3>2. QED
      BY <3>1 DEF StageInv
  <2>2. CASE t # s
    <3>1. reply'[t] = reply[t]
      BY <1>0, <1>3, <2>2 DEF TypeOK
    <3>2. QED
      BY <1>0, <1>3, <2>2, <3>1, StoreOthersStage
  <2>3. QED
    BY <2>1, <2>2
<1>4. QED
  BY <1>0, <1>1, <1>2, <1>3, StepKinds DEF Next

(***************************************************************************)
(* At every point of its transaction, whatever the others do, a submission *)
(* is able to do at once, on the tables as they are, all it has done so    *)
(* far and has in hand.                                                    *)
(***************************************************************************)
THEOREM AlwaysAble == Spec => []Stages
<1>1. Init => Inv /\ Stages
  BY InitInv, InitStages
<1>2. Inv /\ Stages /\ [Next]_vars => (Inv /\ Stages)'
  BY StepInv, StepStages
<1>3. QED
  BY <1>1, <1>2, PTL DEF Spec

-----------------------------------------------------------------------------
(* The refinement *)

\* A transaction that fails has not ended before.
LEMMA FailsOnce ==
    ASSUME NEW s \in Submissions, Fail(s)
    PROVE  pc[s] # "done" /\ reply' = [reply EXCEPT ![s] = "error"] /\ UNCHANGED tables
<1>1. CASE Rollback(s)
  BY <1>1 DEF Rollback, Active
<1>2. CASE DeadlockAbort(s)
  <2>1. PICK u \in Submissions : WaitsFor(s, u)
    BY <1>2 DEF DeadlockAbort
  <2>2. PICK a \in locks[u] : Awaits(s, a)
    BY <2>1 DEF WaitsFor
  <2>3. QED
    BY <1>2, <2>2 DEF DeadlockAbort, Awaits, Running
<1>3. QED
  BY <1>1, <1>2 DEF Fail

\* Before the commit only a replay and a failure are answers.
LEMMA LocalAnswers ==
    ASSUME TypeOK, NoOverdraft, NEW s \in Submissions, Local(s)
    PROVE  reply' = reply \/ Replay(s) \/ Fail(s)
<1>1. CASE Refuse(s)
  BY <1>1, RefuseEffect
<1>2. CASE \E n \in Int : Deposit(s, n)
  BY <1>2, DepositEffect
<1>3. CASE Grant(s) \/ TransferUpsert(s) \/ TransferDebit(s)
  BY <1>3, GrantEffect, UpsertEffect, DebitEffect
<1>4. CASE Reserve(s) \/ CompleteObjective(s) \/ TransferSelect(s) \/ TransferLock(s) \/ ClaimReward(s)
  BY <1>4 DEF Reserve, CompleteObjective, TransferSelect, TransferLock, ClaimReward
<1>5. QED
  BY <1>1, <1>2, <1>3, <1>4 DEF Local

\* Statements are steps of the bank only if they answer: an ended request again, or with an error.
LEMMA LocalRefines ==
    ASSUME TypeOK, NoOverdraft, NEW s \in Submissions, StageInv(s), Local(s)
    PROVE  UNCHANGED B!bankVars \/ B!Repeat(s) \/ B!GiveUp(s)
<1>0. UNCHANGED <<cmd, request, balance, ledger, claims, completed>>
  BY LocalFrame DEF tables
<1>1. CASE reply' = reply
  BY <1>0, <1>1 DEF B!bankVars
<1>2. CASE Replay(s)
  <2>1. reply[s] = "none"
    BY <1>2 DEF Replay, StageInv
  <2>2. QED
    BY <1>0, <1>2, <2>1 DEF Replay, B!Repeat, B!Tell
<1>3. CASE Fail(s)
  <2>1. reply[s] = "none" /\ reply' = [reply EXCEPT ![s] = "error"]
    BY <1>3, FailsOnce DEF StageInv
  <2>2. QED
    BY <1>0, <2>1 DEF B!GiveUp, B!Tell
<1>4. QED
  BY <1>1, <1>2, <1>3, LocalAnswers

\* A commit is where a request takes effect, all of it and on the tables as they are.
LEMMA StoreRefines ==
    ASSUME Inv, NEW s \in Submissions, StageInv(s), Store(s),
           reply' = [reply EXCEPT ![s] = outcome[s]] \/ reply' = [reply EXCEPT ![s] = "error"]
    PROVE  B!Execute(s)
<1> DEFINE r == RequestOf[s]
<1>0. TypeOK /\ WorkInv(s) /\ pc[s] = "commit"
  BY DEF Inv, Store
<1>1. request[r] = "none" /\ reply[s] = "none"
  BY <1>0 DEF WorkInv, Active, StageInv
<1>2. PICK e \in B!Effects(Cmd(s)) : Matches(Cmd(s), e, outcome[s], write[s], claim[s], post[s])
  BY <1>0 DEF StageInv
<1>3. /\ outcome[s] = B!Coded(cmd[r], e.result) /\ write[s] = e.change /\ claim[s] = e.inserted
      /\ \A p \in Players : (IF post[s] THEN write[s][<<"currency", p>>] ELSE 0) = B!Booked(e, p)
  BY <1>2 DEF Matches, Cmd
<1>4. request' = [request EXCEPT ![r] = B!Coded(cmd[r], e.result)] /\ cmd' = cmd
  BY <1>3 DEF Store
<1>5. balance' = [a \in B!Accounts |-> balance[a] + e.change[a]]
  BY <1>3, SameRules DEF Store
<1>6. ledger' = [p \in Players |-> ledger[p] + B!Booked(e, p)]
  <2>1. \A p \in Players : Posted(s, p) = B!Booked(e, p)
    BY <1>3 DEF Posted
  <2>2. ledger' = [p \in Players |-> ledger[p] + Posted(s, p)]
    BY DEF Store
  <2>3. QED
    BY <2>1, <2>2
<1>7. /\ claims' = claims \cup B!Record(r, "claim", e.inserted)
      /\ completed' = completed \cup B!Record(r, "objective", e.inserted)
  BY <1>3 DEF Store, Inserted, B!Record, Cmd
<1>8. B!Perform(r, e)
  BY <1>4, <1>5, <1>6, <1>7 DEF B!Perform
<1>9. B!Tell(s, B!Coded(cmd[r], e.result)) \/ B!Tell(s, "error")
  BY <1>3 DEF B!Tell
<1>10. QED
  BY <1>1, <1>2, <1>8, <1>9 DEF B!Execute, Cmd

\* The tables before the first command are those of the bank.
LEMMA InitRefines == Init => B!BankInit
BY DEF Init, B!BankInit

\* Every step of a submission is a step of the bank or no step.
LEMMA StepRefines == Inv /\ Stages /\ [Next]_vars => [B!BankNext]_(B!bankVars)
<1> SUFFICES ASSUME Inv, Stages, [Next]_vars PROVE [B!BankNext]_(B!bankVars)
  OBVIOUS
<1>0. TypeOK /\ NoOverdraft /\ \A s \in Submissions : StageInv(s)
  BY DEF Inv, Stages
<1>1. CASE UNCHANGED vars
  BY <1>1 DEF vars, tables, B!bankVars
<1>2. ASSUME NEW s \in Submissions, Local(s) PROVE [B!BankNext]_(B!bankVars)
  BY <1>0, <1>2, LocalRefines DEF B!BankNext
<1>3. ASSUME NEW s \in Submissions, Store(s),
             reply' = [reply EXCEPT ![s] = outcome[s]] \/ reply' = [reply EXCEPT ![s] = "error"]
      PROVE  [B!BankNext]_(B!bankVars)
  BY <1>0, <1>3, StoreRefines DEF B!BankNext
<1>4. QED
  BY <1>0, <1>1, <1>2, <1>3, StepKinds DEF Next

(***************************************************************************)
(* SubmitWith and the handlers implement the bank: for any players,        *)
(* requests, retries, limits, grants and faults, and however the           *)
(* statements of READ COMMITTED transactions interleave, the tables and    *)
(* the answers are those of commands executed one at a time.               *)
(***************************************************************************)
THEOREM Implementation == Spec => ImplementsBank
<1>1. Spec => [](Inv /\ Stages)
  BY Invariance, AlwaysAble, PTL
<1>2. QED
  BY <1>1, InitRefines, StepRefines, PTL DEF Spec, ImplementsBank, B!BankSpec

-----------------------------------------------------------------------------
(* What the additions of experience come to *)

\* A request that adds experience to the player, and has succeeded with this result.
Adds(c, result, p) == result = "succeeded" /\ c.op = "addXP" /\ c.player = p

\* The effects of commands on experience: only what addXP adds when it succeeds.
LEMMA ExperienceChange ==
    ASSUME NEW c \in Commands, balance \in [Accounts -> Int], NEW e, NEW held, Settled(c, e, held),
           NEW p \in Players
    PROVE  e.change[<<"xp", p>>] = IF Adds(c, B!Coded(c, e.result), p) THEN c.amount ELSE 0
<1> DEFINE x == <<"xp", p>>
<1>0. /\ c.op \in Operations /\ c.asset \in AssetsOf[c.op] /\ c.asset \in Assets /\ c.player \in Players
      /\ c.target \in Players /\ c.amount \in Nat
  BY Constants
<1>1. x \in Accounts /\ B!Holder(c) \in Accounts /\ B!Receiver(c) \in Accounts
  BY <1>0 DEF Accounts, Assets, B!Holder, B!Receiver
<1>2. B!Nothing[x] = 0
  BY <1>1, ChangeFacts
<1>3. ASSUME NEW n \in Int, B!Holder(c) # x PROVE B!Adding(B!Holder(c), n)[x] = 0
  BY <1>1, <1>3, ChangeFacts
<1>4. c.op \notin {"addXP", "objective", "claim"} => B!Holder(c) # x /\ B!Receiver(c) # x
  <2>1. c.op \notin {"addXP", "objective", "claim"} => c.asset # "xp"
    BY <1>0 DEF Operations, AssetsOf, Limited
  <2>2. QED
    BY <2>1 DEF B!Holder, B!Receiver
<1>5. CASE e \in B!Refused(c)
  <2>1. PICK result \in B!Refusals(c) : e = B!Effect(result, B!Nothing, FALSE)
    BY <1>5 DEF B!Refused
  <2>2. e.result = result /\ e.change = B!Nothing
    BY <2>1 DEF B!Effect
  <2>3. B!Coded(c, result) # "succeeded"
    BY DEF B!Refusals, B!Coded
  <2>4. QED
    BY <1>2, <2>2, <2>3 DEF Adds
<1>6. ASSUME e \in B!Performing(c) PROVE e.change[x] = IF Adds(c, B!Coded(c, e.result), p) THEN c.amount ELSE 0
  <2>1. CASE c.op = "addXP"
    <3>1. e = B!Effect("succeeded", B!Adding(B!Holder(c), c.amount), FALSE)
      BY <1>6, <2>1 DEF B!Performing
    <3>2. e.result = "succeeded" /\ e.change = B!Adding(B!Holder(c), c.amount)
      BY <3>1 DEF B!Effect
    <3>3. B!Coded(c, e.result) = "succeeded"
      BY <3>2 DEF B!Coded
    <3>4. B!Holder(c) = <<"xp", c.player>> /\ c.amount \in Int
      BY <1>0, <2>1 DEF B!Holder, AssetsOf
    <3>5. CASE c.player = p
      BY <1>1, <2>1, <3>2, <3>3, <3>4, <3>5, ChangeFacts DEF Adds
    <3>6. CASE c.player # p
      <4>1. B!Holder(c) # x
        BY <3>4, <3>6
      <4>2. B!Adding(B!Holder(c), c.amount)[x] = 0
        BY <1>3, <3>4, <4>1
      <4>3. QED
        BY <3>2, <3>6, <4>2 DEF Adds
    <3>7. QED
      BY <3>5, <3>6
  <2>2. ASSUME c.op # "addXP" PROVE e.change[x] = 0
    <3>1. CASE c.op \in {"credit", "debit"}
      <4>0. c.amount \in Int /\ -c.amount \in Int
        BY <1>0
      <4>1. PICK n \in Int : e \in B!Changing(c, n)
        <5>1. e \in B!Changing(c, c.amount) \/ e \in B!Changing(c, -c.amount)
          BY <1>6, <3>1 DEF B!Performing
        <5>2. QED
          BY <4>0, <5>1
      <4>2. e.change = B!Adding(B!Holder(c), n)
        BY <4>1 DEF B!Changing, B!Effect
      <4>3. QED
        BY <1>3, <1>4, <2>2, <3>1, <4>2
    <3>2. CASE c.op = "transfer"
      <4>1. e.change = B!Moving(c)
        BY <1>6, <3>2 DEF B!Performing, B!Effect
      <4>2. -c.amount \in Int
        BY <1>0
      <4>3. B!Receiver(c) # x /\ B!Adding(B!Holder(c), -c.amount)[x] = 0
        BY <1>3, <1>4, <3>2, <4>2
      <4>4. B!Adding(B!Holder(c), -c.amount) \in [Accounts -> Int]
        BY <1>1, <4>2, ChangeFacts
      <4>5. QED
        BY <1>1, <4>1, <4>3, <4>4 DEF B!Moving
    <3>3. CASE c.op \in {"get", "objective"}
      <4>1. e.change = B!Nothing
        BY <1>6, <3>3 DEF B!Performing, B!Effect
      <4>2. QED
        BY <1>2, <4>1
    <3>4. CASE c.op \in {"entitle", "revoke"}
      <4>1. balance[B!Holder(c)] \in Int
        BY <1>1
      <4>2. PICK n \in Int : e.change = B!Adding(B!Holder(c), n) \/ e.change = B!Nothing
        BY <1>6, <3>4, <4>1 DEF B!Performing, B!Effect
      <4>3. QED
        BY <1>2, <1>3, <1>4, <2>2, <3>4, <4>2
    <3>5. CASE c.op = "claim"
      <4>1. e.change = B!Nothing \/ e.change = B!Reward(c)
        BY <1>6, <3>5 DEF B!Performing, B!Effect
      <4>2. {i \in B!Paid : Grants[i][1] = "xp"} = {}
        BY GrantFacts DEF B!Paid, Limited
      <4>3. B!Total(B!Amounts, {}) = 0
        BY SameTotal, TotalEmpty
      <4>4. B!Reward(c)[x] = 0
        BY <1>1, <4>2, <4>3, SameRules DEF B!Reward
      <4>5. QED
        BY <1>2, <4>1, <4>4
    <3>6. QED
      BY <1>0, <2>2, <3>1, <3>2, <3>3, <3>4, <3>5 DEF Operations, AssetsOf
  <2>3. QED
    BY <2>1, <2>2 DEF Adds
<1>7. QED
  BY <1>5, <1>6 DEF Settled

\* Before the first command experience is what it was.
LEMMA InitAdditions == Init => EveryAdditionCounts
<1> SUFFICES ASSUME Init, NEW p \in Players
             PROVE  balance[<<"xp", p>>] = Start[<<"xp", p>>] + Total([r \in Requests |-> cmd[r].amount],
                      {r \in Requests : request[r] = "succeeded" /\ cmd[r].op = "addXP" /\ cmd[r].player = p})
  BY DEF EveryAdditionCounts
<1> DEFINE x == <<"xp", p>>
           f == [r \in Requests |-> cmd[r].amount]
           S == {r \in Requests : request[r] = "succeeded" /\ cmd[r].op = "addXP" /\ cmd[r].player = p}
<1>1. S = {}
  BY DEF Init
<1>2. Total(f, {}) = 0
  BY TotalEmpty
<1>3. balance[x] = Start[x] /\ Start[x] \in Int
  <2>1. x \in Accounts
    BY DEF Accounts, Assets
  <2> HIDE DEF x
  <2>2. QED
    BY <2>1, Constants DEF Init
<1> HIDE DEF x, f, S
<1>4. balance[x] = Start[x] + Total(f, S)
  BY <1>1, <1>2, <1>3
<1>5. QED
  BY <1>4 DEF x, f, S

\* A commit adds to experience what its request adds to the sum.
LEMMA StoreAdditions ==
    ASSUME Inv, EveryAdditionCounts, NEW s \in Submissions, StageInv(s), Store(s)
    PROVE  EveryAdditionCounts'
<1> DEFINE r0 == RequestOf[s]
           f == [r \in Requests |-> cmd[r].amount]
           S(p) == {r \in Requests : request[r] = "succeeded" /\ cmd[r].op = "addXP" /\ cmd[r].player = p}
           T(p) == {r \in Requests : request'[r] = "succeeded" /\ cmd[r].op = "addXP" /\ cmd[r].player = p}
<1> SUFFICES ASSUME NEW p \in Players PROVE balance'[<<"xp", p>>] = Start[<<"xp", p>>] + Total(f, T(p))
  <2>1. cmd' = cmd
    BY DEF Store
  <2>2. QED
    BY <2>1 DEF EveryAdditionCounts
<1> DEFINE x == <<"xp", p>>
<1>0. TypeOK /\ WorkInv(s) /\ pc[s] = "commit" /\ r0 \in Requests /\ Cmd(s) \in Commands /\ Cmd(s) = cmd[r0]
  BY CommandFacts DEF Inv, Store, Cmd
<1>1. request[r0] = "none"
  BY <1>0 DEF WorkInv, Active
<1>2. x \in Accounts
  BY DEF Accounts, Assets
<1>3. write[s][x] = IF Adds(cmd[r0], outcome[s], p) THEN cmd[r0].amount ELSE 0
  <2>1. PICK e \in B!Effects(Cmd(s)) :
          Matches(Cmd(s), e, outcome[s], write[s], claim[s], post[s]) /\ Settled(Cmd(s), e, locks[s])
    BY <1>0 DEF StageInv
  <2>2. balance \in [Accounts -> Int]
    BY <1>0 DEF TypeOK
  <2>3. e.change[x] = IF Adds(Cmd(s), B!Coded(Cmd(s), e.result), p) THEN Cmd(s).amount ELSE 0
    BY <1>0, <2>1, <2>2, ExperienceChange
  <2>4. QED
    BY <1>0, <2>1, <2>3 DEF Matches
<1>4. balance'[x] = balance[x] + write[s][x]
  <2> HIDE DEF x
  <2>1. QED
    BY <1>0, <1>2, StoreEffect
<1>5. balance[x] = Start[x] + Total(f, S(p))
  BY DEF EveryAdditionCounts
<1>6. /\ request'[r0] = outcome[s] /\ \A r \in Requests \ {r0} : request'[r] = request[r]
  BY <1>0, StoreEffect
<1>7. IsFiniteSet(S(p)) /\ r0 \notin S(p) /\ Start[x] \in Int
  <2>1. IsFiniteSet(S(p))
    BY EconomyConstants, FS_Subset
  <2>2. Start[x] \in Int
    <3> HIDE DEF x
    <3>1. QED
      BY <1>2, Constants
  <2>3. QED
    BY <1>1, <2>1, <2>2
<1>8. f[r0] = cmd[r0].amount /\ \A r \in S(p) \cup {r0} : f[r] \in Int
  <2>1. \A r \in Requests : f[r] \in Int
    BY <1>0, Constants DEF TypeOK
  <2>2. QED
    BY <1>0, <2>1
<1>9. Total(f, S(p)) \in Int /\ Total(f, S(p) \cup {r0}) = Total(f, S(p)) + f[r0]
  <2> HIDE DEF f, S, r0
  <2>1. QED
    BY <1>7, <1>8, TotalAdd
<1>10. T(p) = IF Adds(cmd[r0], outcome[s], p) THEN S(p) \cup {r0} ELSE S(p)
  BY <1>0, <1>1, <1>6 DEF Adds
<1>11. QED
  <2> HIDE DEF f, S, T, r0, x
  <2>1. cmd[r0].amount \in Int
    BY <1>8
  <2>2. balance'[x] = Start[x] + Total(f, T(p))
    BY <1>3, <1>4, <1>5, <1>7, <1>8, <1>9, <1>10, <2>1
  <2>3. QED
    BY <2>2 DEF x

\* Nothing else adds experience, or makes a request succeed.
LEMMA StepAdditions == Inv /\ Stages /\ EveryAdditionCounts /\ [Next]_vars => EveryAdditionCounts'
<1> SUFFICES ASSUME Inv, Stages, EveryAdditionCounts, [Next]_vars PROVE EveryAdditionCounts'
  OBVIOUS
<1>0. TypeOK /\ NoOverdraft /\ \A s \in Submissions : StageInv(s)
  BY DEF Inv, Stages
<1>1. CASE UNCHANGED tables
  BY <1>1 DEF tables, EveryAdditionCounts
<1>2. CASE UNCHANGED vars
  BY <1>1, <1>2 DEF vars
<1>3. ASSUME NEW s \in Submissions, SubmitWith(s) \/ CommitUnanswered(s) \/ Rollback(s)
      PROVE  EveryAdditionCounts'
  BY <1>0, <1>1, <1>3, StepKinds, LocalFrame, StoreAdditions
<1>4. QED
  BY <1>2, <1>3 DEF Next

(***************************************************************************)
(* progressionAddXP loses no addition and makes none twice, for any number *)
(* of requests, retries and faults: the experience of a player is what the *)
(* requests that succeeded have added to it.                               *)
(***************************************************************************)
THEOREM AdditionsCount == Spec => []EveryAdditionCounts
<1>1. Spec => [](Inv /\ Stages)
  BY Invariance, AlwaysAble, PTL
<1>2. QED
  BY <1>1, InitAdditions, StepAdditions, PTL DEF Spec
=============================================================================
