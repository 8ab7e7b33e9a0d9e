---------------------------- MODULE OutboxProofs ----------------------------
(* Proofs about Outbox. *)
EXTENDS Outbox, FiniteSetTheorems, TLAPS

USE OutboxConstants DEF Consumers

(***************************************************************************)
(* What a replica in the middle of deliver knows: its batch is of events   *)
(* its consumer wants, the attempts it saw are on record, and between      *)
(* Publish and the last statement the call of Publish has been made.       *)
(***************************************************************************)
DeliverInv ==
    \A w \in Workers :
      /\ wcur[w] \subseteq wqueue[w]
      /\ \A e \in wqueue[w] : Wants(Consumer[w], e) /\ wseen[w][e] <= attempts[e]
      /\ wpc[w] \in {"checkpoint", "settle"} => \A e \in wcur[w] : delivered[Consumer[w]][e] > 0
      /\ wpc[w] = "fail" => \A e \in wcur[w] : failed[Consumer[w]][e] > 0

Inv == TypeOK /\ DeliverInv /\ NothingIsSkipped /\ DeadAfterMaxAttempts

\* Every step keeps every column, local variable and counter in its type.
LEMMA TypeStep == TypeOK /\ [Next]_vars => TypeOK'
<1> SUFFICES ASSUME TypeOK, [Next]_vars PROVE TypeOK'
  OBVIOUS
<1> USE DEF TypeOK, rowVars, workerVars, history, WorkerPC
<1>1. CASE UNCHANGED vars
  BY <1>1 DEF vars
<1>2. ASSUME NEW e \in Events, Append(e) PROVE TypeOK'
  BY <1>2 DEF Append
<1>3. ASSUME NEW e \in Events, LeaseExpires(e) PROVE TypeOK'
  BY <1>3 DEF LeaseExpires, Spend
<1>4. ASSUME NEW w \in Workers, Claim(w) PROVE TypeOK'
  <2>1. PICK batch \in SUBSET Events :
          /\ leased' = leased \cup batch
          /\ attempts' = [e \in Events |-> IF e \in batch THEN attempts[e] + 1 ELSE attempts[e]]
          /\ wqueue' = [wqueue EXCEPT ![w] = batch]
          /\ wseen' = [wseen EXCEPT ![w] = attempts']
    BY <1>4 DEF Claim
  <2>2. attempts' \in [Events -> Nat]
    BY <2>1
  <2>3. wseen' \in [Workers -> [Events -> Nat]]
    BY <2>1, <2>2
  <2>4. QED
    BY <1>4, <2>1, <2>2, <2>3 DEF Claim
<1>5. ASSUME NEW w \in Workers, NEW e \in Events, Publish(w, e) \/ PublishFails(w, e) PROVE TypeOK'
  <2>1. Consumer[w] \in Consumers
    OBVIOUS
  <2>2. ASSUME NEW log \in [Consumers -> [Events -> Nat]]
        PROVE  Count(log, w, e) \in [Consumers -> [Events -> Nat]]
    BY <2>1 DEF Count
  <2>3. CASE Publish(w, e)
    <3>1. delivered' \in [Consumers -> [Events -> Nat]]
      BY <2>2, <2>3 DEF Publish
    <3>2. QED
      BY <2>3, <3>1 DEF Publish, Goto
  <2>4. CASE PublishFails(w, e)
    <3>1. failed' \in [Consumers -> [Events -> Nat]]
      BY <2>2, <2>4 DEF PublishFails
    <3>2. QED
      BY <2>4, <3>1 DEF PublishFails, Goto
  <2>5. QED
    BY <1>5, <2>3, <2>4
<1>6. ASSUME NEW w \in Workers, InsertCheckpoint(w) PROVE TypeOK'
  BY <1>6 DEF InsertCheckpoint, Goto
<1>7. ASSUME NEW w \in Workers, Settle(w) PROVE TypeOK'
  BY <1>7 DEF Settle, DeliverReturns, Goto
<1>8. ASSUME NEW w \in Workers, Fail(w) PROVE TypeOK'
  BY <1>8 DEF Fail, Exhausted, DeliverReturns, Goto
<1>9. ASSUME NEW w \in Workers, StatementFails(w) \/ Crash(w) PROVE TypeOK'
  <2>1. CASE StatementFails(w)
    <3>1. budget' \in Nat
      BY <2>1 DEF StatementFails, Spend
    <3>2. CASE wpc[w] = "checkpoint"
      BY <2>1, <3>1, <3>2 DEF StatementFails, Goto
    <3>3. CASE DeliverReturns(w)
      BY <2>1, <3>1, <3>3 DEF StatementFails, DeliverReturns, Goto
    <3>4. QED
      BY <2>1, <3>2, <3>3 DEF StatementFails
  <2>2. CASE Crash(w)
    BY <2>2 DEF Crash, Spend, Goto
  <2>3. QED
    BY <1>9, <2>1, <2>2
<1> HIDE DEF TypeOK, rowVars, workerVars, history, WorkerPC
<1>10. QED
  BY <1>1, <1>2, <1>3, <1>4, <1>5, <1>6, <1>7, <1>8, <1>9 DEF Next, RunOnce, Deliver

\* The call history only grows, by one call of the replica that publishes.
LEMMA CountGrows ==
    ASSUME NEW log \in [Consumers -> [Events -> Nat]], NEW w \in Workers, NEW e \in Events,
           NEW c \in Consumers, NEW f \in Events
    PROVE  /\ Count(log, w, e)[c][f] >= log[c][f]
           /\ Count(log, w, e)[Consumer[w]][e] > 0
<1>1. Consumer[w] \in Consumers
  OBVIOUS
<1>2. QED
  BY <1>1 DEF Count

\* Every step keeps the records of progress honest.
LEMMA DeliveryStep == Inv /\ [Next]_vars => Inv'
<1> SUFFICES ASSUME Inv, [Next]_vars PROVE (DeliverInv /\ NothingIsSkipped /\ DeadAfterMaxAttempts)'
  BY TypeStep DEF Inv
<1> DEFINE Goal == DeliverInv /\ NothingIsSkipped /\ DeadAfterMaxAttempts
<1> USE DEF Inv, TypeOK, rowVars, workerVars, history, Wants
<1>1. ASSUME UNCHANGED vars PROVE Goal'
  BY <1>1 DEF vars, DeliverInv, NothingIsSkipped, DeadAfterMaxAttempts
<1>2. ASSUME NEW e \in Events, Append(e) \/ LeaseExpires(e) PROVE Goal'
  BY <1>2 DEF Append, LeaseExpires, DeliverInv, NothingIsSkipped, DeadAfterMaxAttempts
<1>3. ASSUME NEW w \in Workers, Claim(w) PROVE Goal'
  <2>1. PICK batch \in SUBSET Events :
          /\ \A e \in batch : Wants(Consumer[w], e)
          /\ attempts' = [e \in Events |-> IF e \in batch THEN attempts[e] + 1 ELSE attempts[e]]
          /\ wqueue' = [wqueue EXCEPT ![w] = batch]
          /\ wseen' = [wseen EXCEPT ![w] = attempts']
    BY <1>3 DEF Claim, Claimable
  <2>2. wpc[w] = "next" /\ wqueue[w] = {}
        /\ UNCHANGED <<published, dead, checkpoints, wpc, wcur, delivered, failed>>
    BY <1>3 DEF Claim
  <2>3. \A e \in Events : attempts'[e] >= attempts[e]
    BY <2>1
  <2>4. \A e \in Events : wseen'[w][e] = attempts'[e]
    BY <2>1
  <2>5. \A v \in Workers \ {w} : wseen'[v] = wseen[v] /\ wqueue'[v] = wqueue[v]
    BY <2>1
  <2>6. TypeOK'
    BY TypeStep
  <2>7. DeliverInv'
    <3> SUFFICES ASSUME NEW v \in Workers
                 PROVE /\ wcur[v] \subseteq wqueue'[v]
                       /\ \A e \in wqueue'[v] : Wants(Consumer[v], e) /\ wseen'[v][e] <= attempts'[e]
                       /\ wpc[v] \in {"checkpoint", "settle"} =>
                            \A e \in wcur[v] : delivered[Consumer[v]][e] > 0
                       /\ wpc[v] = "fail" => \A e \in wcur[v] : failed[Consumer[v]][e] > 0
      BY <2>2 DEF DeliverInv
    <3>1. CASE v = w
      BY <2>1, <2>2, <2>4, <2>6, <3>1 DEF DeliverInv
    <3>2. CASE v # w
      BY <2>3, <2>5, <2>6, <3>2 DEF DeliverInv
    <3>3. QED
      BY <3>1, <3>2
  <2>8. NothingIsSkipped'
    BY <2>2 DEF NothingIsSkipped
  <2>9. DeadAfterMaxAttempts'
    BY <2>2, <2>3, <2>6 DEF DeadAfterMaxAttempts
  <2>10. QED
    BY <2>7, <2>8, <2>9
<1>4. ASSUME NEW w \in Workers, NEW e \in Events, Publish(w, e) PROVE Goal'
  <2>1. /\ \A c \in Consumers, f \in Events : delivered'[c][f] >= delivered[c][f]
        /\ delivered'[Consumer[w]][e] > 0
    BY <1>4, CountGrows DEF Publish
  <2>2. TypeOK'
    BY TypeStep
  <2>3. QED
    BY <1>4, <2>1, <2>2 DEF Publish, Goto, DeliverInv, NothingIsSkipped, DeadAfterMaxAttempts
<1>5. ASSUME NEW w \in Workers, NEW e \in Events, PublishFails(w, e) PROVE Goal'
  <2>1. /\ \A c \in Consumers, f \in Events : failed'[c][f] >= failed[c][f]
        /\ failed'[Consumer[w]][e] > 0
    BY <1>5, CountGrows DEF PublishFails
  <2>2. TypeOK'
    BY TypeStep
  <2>3. QED
    BY <1>5, <2>1, <2>2 DEF PublishFails, Goto, DeliverInv, NothingIsSkipped, DeadAfterMaxAttempts
<1>6. ASSUME NEW w \in Workers, InsertCheckpoint(w) PROVE Goal'
  BY <1>6 DEF InsertCheckpoint, Goto, DeliverInv, NothingIsSkipped, DeadAfterMaxAttempts
<1>7. ASSUME NEW w \in Workers, Settle(w) PROVE Goal'
  BY <1>7 DEF Settle, DeliverReturns, Goto, DeliverInv, NothingIsSkipped, DeadAfterMaxAttempts
<1>8. ASSUME NEW w \in Workers, Fail(w) PROVE Goal'
  <2>1. \A e \in Exhausted(w) :
           attempts[e] >= MaxAttempts /\ \E c \in Consumers : Wants(c, e) /\ failed[c][e] > 0
    BY <1>8 DEF Fail, Exhausted, DeliverInv
  <2>2. QED
    BY <1>8, <2>1 DEF Fail, DeliverReturns, Goto, DeliverInv, NothingIsSkipped, DeadAfterMaxAttempts
<1>9. ASSUME NEW w \in Workers, StatementFails(w) PROVE Goal'
  <2>1. CASE wpc[w] = "checkpoint"
    BY <1>9, <2>1 DEF StatementFails, DeliverReturns, Goto, DeliverInv, NothingIsSkipped,
                DeadAfterMaxAttempts
  <2>2. CASE DeliverReturns(w)
    <3>1. UNCHANGED <<rowVars, history>>
      BY <1>9 DEF StatementFails
    <3>2. DeliverInv'
      BY <2>2, <3>1 DEF DeliverReturns, Goto, DeliverInv
    <3>3. (NothingIsSkipped /\ DeadAfterMaxAttempts)'
      BY <3>1 DEF NothingIsSkipped, DeadAfterMaxAttempts
    <3>4. QED
      BY <3>2, <3>3
  <2>3. QED
    BY <1>9, <2>1, <2>2 DEF StatementFails
<1>10. ASSUME NEW w \in Workers, Crash(w) PROVE Goal'
  BY <1>10 DEF Crash, Goto, DeliverInv, NothingIsSkipped, DeadAfterMaxAttempts
<1> HIDE DEF Goal, Inv, TypeOK, rowVars, workerVars, history, Wants
<1>11. Goal'
  BY <1>1, <1>2, <1>3, <1>4, <1>5, <1>6, <1>7, <1>8, <1>9, <1>10 DEF Next, RunOnce, Deliver
<1>12. QED
  BY <1>11 DEF Goal

\* The empty outbox satisfies the inductive invariant.
LEMMA DeliveryInit == Init => Inv
BY DEF Init, Inv, TypeOK, DeliverInv, NothingIsSkipped, DeadAfterMaxAttempts, WorkerPC

(***************************************************************************)
(* For every number of events and replicas, and whatever fails: no event   *)
(* is recorded as delivered to a consumer that did not accept it, and none *)
(* is given up before MaxAttempts recorded attempts and a failed call.     *)
(***************************************************************************)
THEOREM AtLeastOnce == Spec => [](TypeOK /\ NothingIsSkipped /\ DeadAfterMaxAttempts)
<1>1. Inv => TypeOK /\ NothingIsSkipped /\ DeadAfterMaxAttempts
  BY DEF Inv
<1>2. QED
  BY DeliveryInit, DeliveryStep, <1>1, PTL DEF Spec

(***************************************************************************)
(* The lease is a mutual exclusion between all replicas of both consumers, *)
(* event by event, until it runs out under a delivery of that event.       *)
(***************************************************************************)
THEOREM LeaseExcludes == Spec => []OneHolder
<1> DEFINE HolderInv == Inv /\ OneHolder
<1>1. Init => HolderInv
  BY DeliveryInit DEF Init, OneHolder
<1>2. HolderInv /\ [Next]_vars => HolderInv'
  <2> SUFFICES ASSUME HolderInv, [Next]_vars PROVE OneHolder'
    BY DeliveryStep
  <2> USE DEF Inv, TypeOK, rowVars, workerVars, history, OneHolder
  <2>1. CASE UNCHANGED vars
    BY <2>1 DEF vars
  <2>2. ASSUME NEW e \in Events, Append(e) \/ LeaseExpires(e) PROVE OneHolder'
    <3>1. CASE Append(e)
      BY <3>1 DEF Append
    <3>2. CASE LeaseExpires(e)
      <4>1. wqueue' = wqueue /\ leased' = leased \ {e}
        BY <3>2 DEF LeaseExpires
      <4>2. overrun \subseteq overrun' /\ (Held(e) => e \in overrun')
        BY <3>2 DEF LeaseExpires
      <4>3. QED
        BY <4>1, <4>2 DEF Held
    <3>3. QED
      BY <2>2, <3>1, <3>2
  <2>3. ASSUME NEW w \in Workers, Claim(w) PROVE OneHolder'
    BY <2>3 DEF Claim, Claimable
  <2>4. ASSUME NEW w \in Workers, Deliver(w) PROVE OneHolder'
    <3>1. CASE UNCHANGED <<leased, wqueue, overrun>>
      BY <3>1
    <3>2. CASE Settle(w) \/ Fail(w)
      <4>1. /\ leased' = leased \ wcur[w] /\ wqueue' = [wqueue EXCEPT ![w] = @ \ wcur[w]]
            /\ UNCHANGED overrun
        BY <3>2 DEF Settle, Fail, DeliverReturns
      <4>2. wcur[w] \subseteq wqueue[w]
        BY DEF DeliverInv
      <4>3. QED
        BY <4>1, <4>2
    <3>3. QED
      BY <2>4, <3>1, <3>2 DEF Deliver, Publish, PublishFails, InsertCheckpoint
  <2>5. ASSUME NEW w \in Workers, StatementFails(w) \/ Crash(w) PROVE OneHolder'
    <3>1. UNCHANGED <<leased, overrun>> /\ \A v \in Workers : wqueue'[v] \subseteq wqueue[v]
      BY <2>5 DEF StatementFails, Crash, DeliverReturns
    <3>2. QED
      BY <3>1
  <2> HIDE DEF Inv, TypeOK, rowVars, workerVars, history, OneHolder
  <2>6. QED
    BY <2>1, <2>2, <2>3, <2>4, <2>5 DEF Next, RunOnce
<1>3. QED
  BY <1>1, <1>2, PTL DEF Spec

-----------------------------------------------------------------------------
(* Outbox implements Delivery *)

\* A replica works on one appended event at a time.
BatchInv ==
    \A w \in Workers :
      /\ wqueue[w] \subseteq appended
      /\ \A e, f \in wcur[w] : e = f

\* Every step keeps batches appended and deliveries single.
LEMMA BatchStep == Inv /\ BatchInv /\ [Next]_vars => BatchInv'
<1> SUFFICES ASSUME Inv, BatchInv, [Next]_vars PROVE BatchInv'
  OBVIOUS
<1> USE DEF Inv, TypeOK, rowVars, workerVars, history, BatchInv
<1>1. CASE UNCHANGED vars
  BY <1>1 DEF vars
<1>2. ASSUME NEW e \in Events, Append(e) \/ LeaseExpires(e) PROVE BatchInv'
  BY <1>2 DEF Append, LeaseExpires
<1>3. ASSUME NEW w \in Workers, Claim(w) PROVE BatchInv'
  BY <1>3 DEF Claim, Claimable
<1>4. ASSUME NEW w \in Workers, Deliver(w) \/ StatementFails(w) \/ Crash(w) PROVE BatchInv'
  BY <1>4 DEF Deliver, Publish, PublishFails, InsertCheckpoint, Settle, Fail, StatementFails, Crash,
              DeliverReturns
<1> HIDE DEF Inv, TypeOK, rowVars, workerVars, history, BatchInv
<1>5. QED
  BY <1>1, <1>2, <1>3, <1>4 DEF Next, RunOnce

(***************************************************************************)
(* For every number of events and replicas, the workers implement          *)
(* Delivery: every statement and call is one step of it or none.           *)
(***************************************************************************)
THEOREM Implementation == Spec => ImplementsDelivery
<1> DEFINE ImplInv == Inv /\ BatchInv
<1>1. Init => ImplInv /\ Promise!Init
  <2> SUFFICES ASSUME Init PROVE BatchInv /\ Promise!Init
    BY DeliveryInit
  <2>1. BatchInv
    BY DEF Init, BatchInv
  <2>2. Promise!Init
    BY DEF Init, Promise!Init, Done
  <2>3. QED
    BY <2>1, <2>2
<1>2. ImplInv /\ [Next]_vars => [Promise!Next]_(Promise!vars)
  <2> SUFFICES ASSUME ImplInv, [Next]_vars, ~UNCHANGED Promise!vars PROVE Promise!Next
    BY DEF Promise!vars
  <2> USE DEF Inv, TypeOK, rowVars, workerVars, history
  <2>1. CASE UNCHANGED vars
    BY <2>1 DEF vars, Promise!vars, Done
  <2>2. ASSUME NEW e \in Events, Append(e) PROVE Promise!Next
    <3>1. Promise!Accept(e)
      BY <2>2 DEF Append, Promise!Accept, Done
    <3>2. QED
      BY <3>1 DEF Promise!Next
  <2>3. ASSUME NEW e \in Events, LeaseExpires(e) PROVE FALSE
    BY <2>3 DEF LeaseExpires, Promise!vars, Done
  <2>4. ASSUME NEW w \in Workers, Claim(w) PROVE FALSE
    BY <2>4 DEF Claim, Promise!vars, Done
  <2>5. ASSUME NEW w \in Workers, NEW e \in Events, Publish(w, e) PROVE Promise!Next
    <3>1. e \in appended /\ Wants(Consumer[w], e) /\ Consumer[w] \in Consumers
      BY <2>5 DEF Publish, BatchInv, DeliverInv
    <3>2. /\ delivered' = Count(delivered, w, e)
          /\ UNCHANGED <<appended, failed, dead, published, checkpoints>>
      BY <2>5 DEF Publish
    <3>3. {ce \in Consumers \X Events : delivered'[ce[1]][ce[2]] > 0}
            = {ce \in Consumers \X Events : delivered[ce[1]][ce[2]] > 0} \cup {<<Consumer[w], e>>}
      <4>1. \A c \in Consumers, f \in Events :
              delivered'[c][f] > 0 <=> delivered[c][f] > 0 \/ (c = Consumer[w] /\ f = e)
        BY <3>1, <3>2 DEF Count
      <4>2. QED
        BY <3>1, <4>1
    <3>4. Promise!Receive(Consumer[w], e)
      BY <3>1, <3>2, <3>3 DEF Promise!Receive, Done
    <3>5. QED
      BY <3>1, <3>4 DEF Promise!Next
  <2>6. ASSUME NEW w \in Workers, NEW e \in Events, PublishFails(w, e) PROVE Promise!Next
    <3>1. e \in appended /\ Wants(Consumer[w], e) /\ Consumer[w] \in Consumers
      BY <2>6 DEF PublishFails, BatchInv, DeliverInv
    <3>2. /\ failed' = Count(failed, w, e)
          /\ UNCHANGED <<appended, delivered, dead, published, checkpoints>>
      BY <2>6 DEF PublishFails
    <3>3. {ce \in Consumers \X Events : failed'[ce[1]][ce[2]] > 0}
            = {ce \in Consumers \X Events : failed[ce[1]][ce[2]] > 0} \cup {<<Consumer[w], e>>}
      <4>1. \A c \in Consumers, f \in Events :
              failed'[c][f] > 0 <=> failed[c][f] > 0 \/ (c = Consumer[w] /\ f = e)
        BY <3>1, <3>2 DEF Count
      <4>2. QED
        BY <3>1, <4>1
    <3>4. Promise!Refuse(Consumer[w], e)
      BY <3>1, <3>2, <3>3 DEF Promise!Refuse, Done
    <3>5. QED
      BY <3>1, <3>4 DEF Promise!Next
  <2>7. ASSUME NEW w \in Workers, InsertCheckpoint(w) \/ Settle(w) PROVE Promise!Next
    <3>1. UNCHANGED <<appended, delivered, failed, dead>>
      BY <2>7 DEF InsertCheckpoint, Settle
    <3>2. CASE wcur[w] = {}
      <4>1. UNCHANGED <<published, checkpoints>>
        BY <2>7, <3>2 DEF InsertCheckpoint, Settle
      <4>2. QED
        BY <3>1, <4>1 DEF Promise!vars, Done
    <3>3. ASSUME NEW e \in wcur[w] PROVE Promise!Next
      <4>1. wcur[w] = {e} /\ e \in Events /\ Consumer[w] \in Consumers
        BY DEF BatchInv
      <4>2. delivered[Consumer[w]][e] > 0
        BY <2>7, <4>1 DEF InsertCheckpoint, Settle, DeliverInv
      <4>3. \A c \in Consumers, f \in Events :
              Done(c, f)' => Done(c, f) \/ (c = Consumer[w] /\ f = e)
        BY <2>7, <4>1 DEF InsertCheckpoint, Settle, Done
      <4>4. \A c \in Consumers, f \in Events : Done(c, f) => Done(c, f)'
        BY <2>7 DEF InsertCheckpoint, Settle, Done
      <4>5. Done(Consumer[w], e)'
        <5>1. PICK c \in Consumers, f \in Events : ~(Done(c, f)' <=> Done(c, f))
          BY <3>1 DEF Promise!vars
        <5>2. QED
          BY <4>3, <4>4, <5>1
      <4>6. Promise!Record(Consumer[w], e)
        BY <3>1, <4>1, <4>2, <4>3, <4>4, <4>5 DEF Promise!Record
      <4>7. QED
        BY <4>1, <4>6 DEF Promise!Next
    <3>4. QED
      BY <3>2, <3>3
  <2>8. ASSUME NEW w \in Workers, Fail(w) PROVE Promise!Next
    <3>1. UNCHANGED <<appended, delivered, failed, published, checkpoints>>
      BY <2>8 DEF Fail
    <3>2. dead' = dead \cup Exhausted(w)
      BY <2>8 DEF Fail
    <3>3. PICK e \in Exhausted(w) : TRUE
      BY <3>1, <3>2 DEF Promise!vars, Done
    <3>4. e \in wcur[w] /\ e \in Events /\ Exhausted(w) = {e} /\ Consumer[w] \in Consumers
      BY <3>3 DEF Exhausted, BatchInv
    <3>5. failed[Consumer[w]][e] > 0
      BY <2>8, <3>4 DEF Fail, DeliverInv
    <3>6. Promise!GiveUp(e)
      BY <3>1, <3>2, <3>4, <3>5 DEF Promise!GiveUp, Done
    <3>7. QED
      BY <3>4, <3>6 DEF Promise!Next
  <2>9. ASSUME NEW w \in Workers, StatementFails(w) \/ Crash(w) PROVE FALSE
    BY <2>9 DEF StatementFails, Crash, Promise!vars, Done
  <2> HIDE DEF Inv, TypeOK, rowVars, workerVars, history
  <2>10. QED
    BY <2>1, <2>2, <2>3, <2>4, <2>5, <2>6, <2>7, <2>8, <2>9 DEF Next, RunOnce, Deliver
<1>3. ImplInv /\ [Next]_vars => ImplInv'
  BY DeliveryStep, BatchStep
<1>4. QED
  BY <1>1, <1>2, <1>3, PTL DEF Spec, ImplementsDelivery, Promise!Spec

-----------------------------------------------------------------------------
(* Attempts and duplicates are counted *)

\* The replicas that hold the event and have not called Publish for it.
Owing(e) == {w \in Workers : e \in wqueue[w] \ wcur[w]}

OwingOf(c, e) == {w \in Owing(e) : Consumer[w] = c}

(***************************************************************************)
(* Between the accepted call and the statement that records it: for        *)
(* "stdout" that is the UPDATE, for "leaderboard" the checkpoint.          *)
(***************************************************************************)
Recording(w, e) ==
    /\ e \in wcur[w]
    /\ wpc[w] = "checkpoint" \/ (wpc[w] = "settle" /\ Consumer[w] = "stdout")

\* The holders of the event that are not about to record that c has it.
Unsure(c, e) == {w \in Workers : e \in wqueue[w] /\ ~(Consumer[w] = c /\ Recording(w, e))}

\* The lease counts while a replica holds the event.
Lease(e) == IF e \in leased /\ Held(e) THEN 1 ELSE 0

(***************************************************************************)
(* A replica that is between two events delivers none; faults only spend   *)
(* the budget; a holder still owes the call its attempt was recorded for;  *)
(* while c is not through with an event, its accepted calls and the        *)
(* holders that may let the event go unrecorded are the lease and faults.  *)
(***************************************************************************)
CountInv ==
    /\ \A w \in Workers : wpc[w] = "next" => wcur[w] = {}
    /\ budget <= FaultBudget
    /\ \A e \in Events :
          delivered["stdout"][e] + failed["stdout"][e] + delivered["leaderboard"][e]
            + failed["leaderboard"][e] + Cardinality(Owing(e)) <= attempts[e]
    /\ \A c \in Consumers, e \in Events :
          delivered[c][e] + Cardinality(OwingOf(c, e)) <= 1 + (FaultBudget - budget)
    /\ \A c \in Consumers, e \in Events :
          ~Done(c, e) =>
            delivered[c][e] + Cardinality(Unsure(c, e)) <= Lease(e) + (FaultBudget - budget)

\* Sets of replicas are finite: one replica more or less is one more or less.
LEMMA ReplicaCount ==
    ASSUME NEW S \in SUBSET Workers, NEW T \in SUBSET Workers, NEW w
    PROVE  /\ Cardinality(S) \in Nat
           /\ T \subseteq S => Cardinality(T) <= Cardinality(S)
           /\ w \in S /\ T \subseteq S \ {w} => Cardinality(T) + 1 <= Cardinality(S)
           /\ T \subseteq S \cup {w} => Cardinality(T) <= Cardinality(S) + 1
<1>1. IsFiniteSet(S) /\ IsFiniteSet(T)
  BY FS_Subset
<1>2. Cardinality(S) \in Nat /\ Cardinality(T) \in Nat
  BY <1>1, FS_CardinalityType
<1>3. T \subseteq S => Cardinality(T) <= Cardinality(S)
  BY <1>1, FS_Subset
<1>4. ASSUME w \in S, T \subseteq S \ {w} PROVE Cardinality(T) + 1 <= Cardinality(S)
  <2>1. IsFiniteSet(S \ {w}) /\ Cardinality(S \ {w}) = Cardinality(S) - 1
    BY <1>1, <1>4, FS_RemoveElement
  <2>2. Cardinality(T) <= Cardinality(S \ {w})
    BY <1>4, <2>1, FS_Subset
  <2>3. QED
    BY <1>2, <2>1, <2>2
<1>5. ASSUME T \subseteq S \cup {w} PROVE Cardinality(T) <= Cardinality(S) + 1
  <2>1. /\ IsFiniteSet(S \cup {w})
        /\ Cardinality(S \cup {w}) = IF w \in S THEN Cardinality(S) ELSE Cardinality(S) + 1
    BY <1>1, FS_AddElement
  <2>2. Cardinality(T) <= Cardinality(S \cup {w})
    BY <1>5, <2>1, FS_Subset
  <2>3. QED
    BY <1>2, <2>1, <2>2
<1>6. QED
  BY <1>2, <1>3, <1>4, <1>5

\* What a step does to the calls of one consumer for one event.
LEMMA CallEffect ==
    ASSUME NEW log \in [Consumers -> [Events -> Nat]], NEW w \in Workers, NEW e \in Events,
           NEW c \in Consumers, NEW f \in Events
    PROVE  Count(log, w, e)[c][f] = IF c = Consumer[w] /\ f = e THEN log[c][f] + 1 ELSE log[c][f]
<1>1. Consumer[w] \in Consumers
  OBVIOUS
<1>2. QED
  BY <1>1 DEF Count

\* A step that calls no publisher leaves the calls alone and lets no holder owe one more.
LEMMA QuietStep ==
    ASSUME TypeOK, DeliverInv,
           \/ \E f \in Events : Append(f) \/ LeaseExpires(f)
           \/ \E w \in Workers : InsertCheckpoint(w) \/ Settle(w) \/ Fail(w) \/ StatementFails(w) \/ Crash(w)
           \/ UNCHANGED vars
    PROVE  /\ UNCHANGED <<delivered, failed, attempts>> /\ budget' <= budget
           /\ \A w \in Workers : wqueue'[w] \ wcur'[w] \subseteq wqueue[w] \ wcur[w]
<1> USE DEF TypeOK, rowVars, workerVars, history
<1>1. CASE \E f \in Events : Append(f) \/ LeaseExpires(f)
  BY <1>1 DEF Append, LeaseExpires, Spend
<1>2. ASSUME NEW w \in Workers, InsertCheckpoint(w) \/ Settle(w) \/ Fail(w)
      PROVE  /\ UNCHANGED <<delivered, failed, attempts, budget>>
             /\ \A v \in Workers : wqueue'[v] \ wcur'[v] \subseteq wqueue[v] \ wcur[v]
  BY <1>2 DEF InsertCheckpoint, Settle, Fail, DeliverReturns
<1>3. ASSUME NEW w \in Workers, StatementFails(w)
      PROVE  /\ UNCHANGED <<delivered, failed, attempts>> /\ budget' <= budget
             /\ \A v \in Workers : wqueue'[v] \ wcur'[v] \subseteq wqueue[v] \ wcur[v]
  <2>1. UNCHANGED <<delivered, failed, attempts>> /\ budget' <= budget
    BY <1>3 DEF StatementFails, Spend
  <2>2. UNCHANGED <<wqueue, wcur>> \/ DeliverReturns(w)
    BY <1>3 DEF StatementFails
  <2>3. QED
    BY <2>1, <2>2 DEF DeliverReturns
<1>4. ASSUME NEW w \in Workers, Crash(w)
      PROVE  /\ UNCHANGED <<delivered, failed, attempts>> /\ budget' <= budget
             /\ \A v \in Workers : wqueue'[v] \ wcur'[v] \subseteq wqueue[v] \ wcur[v]
  BY <1>4 DEF Crash, Spend
<1>5. CASE UNCHANGED vars
  BY <1>5 DEF vars
<1> HIDE DEF TypeOK, rowVars, workerVars, history
<1>6. budget <= budget
  BY DEF TypeOK
<1>7. QED
  BY <1>1, <1>2, <1>3, <1>4, <1>5, <1>6

\* Every step keeps each call paid for by an attempt.
LEMMA AttemptStep ==
    ASSUME Inv, CountInv, [Next]_vars, NEW e \in Events
    PROVE  (delivered["stdout"][e] + failed["stdout"][e] + delivered["leaderboard"][e]
              + failed["leaderboard"][e] + Cardinality(Owing(e)) <= attempts[e])'
<1> SUFFICES ASSUME NEW after \in SUBSET Workers,
                    after = {w \in Workers : e \in wqueue'[w] \ wcur'[w]}
             PROVE  delivered'["stdout"][e] + failed'["stdout"][e] + delivered'["leaderboard"][e]
                      + failed'["leaderboard"][e] + Cardinality(after) <= attempts'[e]
  BY DEF Owing
<1> DEFINE Before == Owing(e)
<1>1. Before \in SUBSET Workers
  BY DEF Owing
<1> HIDE DEF Before
<1>2. /\ Cardinality(Before) \in Nat /\ Cardinality(after) \in Nat
      /\ after \subseteq Before => Cardinality(after) <= Cardinality(Before)
      /\ \A w : w \in Before /\ after \subseteq Before \ {w} =>
                  Cardinality(after) + 1 <= Cardinality(Before)
      /\ \A w : after \subseteq Before \cup {w} => Cardinality(after) <= Cardinality(Before) + 1
  BY <1>1, ReplicaCount
<1>3. /\ delivered["stdout"][e] \in Nat /\ failed["stdout"][e] \in Nat
      /\ delivered["leaderboard"][e] \in Nat /\ failed["leaderboard"][e] \in Nat
      /\ attempts[e] \in Nat
  BY DEF Inv, TypeOK
<1>4. delivered["stdout"][e] + failed["stdout"][e] + delivered["leaderboard"][e]
        + failed["leaderboard"][e] + Cardinality(Before) <= attempts[e]
  BY DEF CountInv, Before
<1> DEFINE Goal == delivered'["stdout"][e] + failed'["stdout"][e] + delivered'["leaderboard"][e]
                     + failed'["leaderboard"][e] + Cardinality(after) <= attempts'[e]
<1>5. ASSUME \A c \in Consumers : delivered'[c][e] = delivered[c][e] /\ failed'[c][e] = failed[c][e],
             attempts'[e] = attempts[e],
             \A w \in Workers : e \in wqueue'[w] \ wcur'[w] => e \in wqueue[w] \ wcur[w]
      PROVE  Goal
  <2>1. after \subseteq Before
    BY <1>5 DEF Before, Owing
  <2>2. QED
    BY <1>2, <1>3, <1>4, <1>5, <2>1
<1>6. ASSUME NEW w \in Workers, Claim(w) PROVE Goal
  <2>1. PICK batch \in SUBSET Events :
          /\ attempts' = [f \in Events |-> IF f \in batch THEN attempts[f] + 1 ELSE attempts[f]]
          /\ wqueue' = [wqueue EXCEPT ![w] = batch]
    BY <1>6 DEF Claim
  <2>2. UNCHANGED <<delivered, failed, wcur>>
    BY <1>6 DEF Claim, history
  <2>3. CASE e \in batch
    <3>1. after \subseteq Before \cup {w}
      BY <2>1, <2>2 DEF Before, Owing, Inv, TypeOK
    <3>2. attempts'[e] = attempts[e] + 1
      BY <2>1, <2>3
    <3>3. Cardinality(after) <= Cardinality(Before) + 1
      BY <1>2, <3>1
    <3>4. QED
      BY <1>2, <1>3, <1>4, <2>2, <3>2, <3>3
  <2>4. CASE e \notin batch
    <3>1. attempts'[e] = attempts[e]
      BY <2>1, <2>4
    <3>2. \A v \in Workers : e \in wqueue'[v] \ wcur'[v] => e \in wqueue[v] \ wcur[v]
      BY <2>1, <2>2, <2>4 DEF Inv, TypeOK
    <3>3. QED
      BY <1>5, <2>2, <3>1, <3>2
  <2>5. QED
    BY <2>3, <2>4
<1>7. ASSUME NEW w \in Workers, NEW f \in Events, Publish(w, f) \/ PublishFails(w, f) PROVE Goal
  <2>1. /\ wcur[w] = {} /\ f \in wqueue[w] /\ wqueue' = wqueue /\ attempts' = attempts
        /\ wcur' = [wcur EXCEPT ![w] = {f}]
    BY <1>7 DEF Publish, PublishFails, rowVars, CountInv
  <2>2. \/ delivered' = Count(delivered, w, f) /\ failed' = failed
        \/ failed' = Count(failed, w, f) /\ delivered' = delivered
    BY <1>7 DEF Publish, PublishFails
  <2>3. /\ delivered \in [Consumers -> [Events -> Nat]] /\ failed \in [Consumers -> [Events -> Nat]]
        /\ Consumer[w] \in Consumers
    BY DEF Inv, TypeOK
  <2>4. CASE f = e
    <3>1. w \in Before /\ after \subseteq Before \ {w}
      BY <2>1, <2>4 DEF Before, Owing, Inv, TypeOK
    <3>2. \A c \in Consumers :
            \/ /\ delivered'[c][e] = IF c = Consumer[w] THEN delivered[c][e] + 1 ELSE delivered[c][e]
               /\ failed' = failed
            \/ /\ failed'[c][e] = IF c = Consumer[w] THEN failed[c][e] + 1 ELSE failed[c][e]
               /\ delivered' = delivered
      BY <2>2, <2>3, <2>4, CallEffect
    <3>3. delivered'["stdout"][e] + failed'["stdout"][e] + delivered'["leaderboard"][e]
            + failed'["leaderboard"][e]
          = delivered["stdout"][e] + failed["stdout"][e] + delivered["leaderboard"][e]
              + failed["leaderboard"][e] + 1
      BY <1>3, <2>3, <3>2
    <3>4. QED
      BY <1>2, <1>3, <1>4, <2>1, <3>1, <3>3
  <2>5. CASE f # e
    <3>1. \A c \in Consumers : delivered'[c][e] = delivered[c][e] /\ failed'[c][e] = failed[c][e]
      BY <2>2, <2>3, <2>5, CallEffect
    <3>2. \A v \in Workers : e \in wqueue'[v] \ wcur'[v] => e \in wqueue[v] \ wcur[v]
      BY <2>1, <2>5 DEF Inv, TypeOK
    <3>3. QED
      BY <1>5, <2>1, <3>1, <3>2
  <2>6. QED
    BY <2>4, <2>5
<1>8. CASE \/ \E f \in Events : Append(f) \/ LeaseExpires(f)
           \/ \E w \in Workers : InsertCheckpoint(w) \/ Settle(w) \/ Fail(w) \/ StatementFails(w) \/ Crash(w)
           \/ UNCHANGED vars
  <2>1. /\ UNCHANGED <<delivered, failed, attempts>>
        /\ \A w \in Workers : wqueue'[w] \ wcur'[w] \subseteq wqueue[w] \ wcur[w]
    BY <1>8, QuietStep DEF Inv
  <2>2. QED
    BY <1>5, <2>1
<1>9. Goal
  BY <1>6, <1>7, <1>8 DEF Next, RunOnce, Deliver
<1>10. QED
  BY <1>9

\* Every step keeps the calls a consumer got, and those it is still to get, within the faults.
LEMMA DuplicateStep ==
    ASSUME Inv, CountInv, [Next]_vars, TypeOK', NEW c \in Consumers, NEW e \in Events
    PROVE  (delivered[c][e] + Cardinality(OwingOf(c, e)) <= 1 + (FaultBudget - budget))'
<1> SUFFICES ASSUME NEW after \in SUBSET Workers,
                    after = {w \in Workers : e \in wqueue'[w] \ wcur'[w] /\ Consumer[w] = c}
             PROVE  delivered'[c][e] + Cardinality(after) <= 1 + (FaultBudget - budget')
  <2>1. OwingOf(c, e)' = {w \in Workers : e \in wqueue'[w] \ wcur'[w] /\ Consumer[w] = c}
    BY DEF OwingOf, Owing
  <2>2. QED
    BY <2>1 DEF OwingOf, Owing
<1> DEFINE Before == OwingOf(c, e)
<1>1. Before \in SUBSET Workers
  BY DEF OwingOf, Owing
<1> HIDE DEF Before
<1>2. /\ Cardinality(Before) \in Nat /\ Cardinality(after) \in Nat
      /\ after \subseteq Before => Cardinality(after) <= Cardinality(Before)
      /\ \A w : w \in Before /\ after \subseteq Before \ {w} =>
                  Cardinality(after) + 1 <= Cardinality(Before)
  BY <1>1, ReplicaCount
<1>3. delivered[c][e] \in Nat /\ budget \in Nat /\ budget' \in Nat
  BY DEF Inv, TypeOK
<1>4. delivered[c][e] + Cardinality(Before) <= 1 + (FaultBudget - budget)
  BY DEF CountInv, Before
<1> DEFINE Goal == delivered'[c][e] + Cardinality(after) <= 1 + (FaultBudget - budget')
<1>5. ASSUME delivered'[c][e] = delivered[c][e], budget' <= budget,
             \A w \in Workers :
                e \in wqueue'[w] \ wcur'[w] /\ Consumer[w] = c => e \in wqueue[w] \ wcur[w]
      PROVE  Goal
  <2>1. after \subseteq Before
    BY <1>5 DEF Before, OwingOf, Owing
  <2>2. QED
    BY <1>2, <1>3, <1>4, <1>5, <2>1
<1>6. ASSUME NEW w \in Workers, Claim(w) PROVE Goal
  <2>1. PICK batch \in SUBSET Events :
          /\ \A f \in batch : Claimable(Consumer[w], f)
          /\ wqueue' = [wqueue EXCEPT ![w] = batch]
    BY <1>6 DEF Claim
  <2>2. UNCHANGED <<delivered, wcur, budget>>
    BY <1>6 DEF Claim, history
  <2>3. CASE e \in batch /\ Consumer[w] = c
    <3>1. ~Done(c, e) /\ Lease(e) = 0
      BY <2>1, <2>3 DEF Claimable, Lease
    <3>2. delivered[c][e] + Cardinality(Unsure(c, e)) <= FaultBudget - budget
      <4>1. delivered[c][e] + Cardinality(Unsure(c, e)) <= 0 + (FaultBudget - budget)
        BY <3>1 DEF CountInv
      <4>2. QED
        BY <1>3, <4>1
    <3>3. Unsure(c, e) \in SUBSET Workers /\ after \subseteq Unsure(c, e) \cup {w}
      BY <2>1, <2>2 DEF Unsure, Recording, Inv, TypeOK
    <3>4. Cardinality(Unsure(c, e)) \in Nat /\ Cardinality(after) <= Cardinality(Unsure(c, e)) + 1
      BY <3>3, ReplicaCount
    <3>5. QED
      BY <1>2, <1>3, <2>2, <3>2, <3>4
  <2>4. CASE e \notin batch \/ Consumer[w] # c
    <3>1. \A v \in Workers :
            e \in wqueue'[v] \ wcur'[v] /\ Consumer[v] = c => e \in wqueue[v] \ wcur[v]
      BY <2>1, <2>2, <2>4 DEF Inv, TypeOK
    <3>2. QED
      BY <1>3, <1>5, <2>2, <3>1
  <2>5. QED
    BY <2>3, <2>4
<1>7. ASSUME NEW w \in Workers, NEW f \in Events, Publish(w, f) \/ PublishFails(w, f) PROVE Goal
  <2>1. /\ wcur[w] = {} /\ f \in wqueue[w] /\ wqueue' = wqueue /\ budget' = budget
        /\ wcur' = [wcur EXCEPT ![w] = {f}]
    BY <1>7 DEF Publish, PublishFails, CountInv
  <2>2. delivered' = Count(delivered, w, f) \/ delivered' = delivered
    BY <1>7 DEF Publish, PublishFails
  <2>3. delivered \in [Consumers -> [Events -> Nat]]
    BY DEF Inv, TypeOK
  <2>4. CASE f = e /\ Consumer[w] = c
    <3>1. w \in Before /\ after \subseteq Before \ {w}
      BY <2>1, <2>4 DEF Before, OwingOf, Owing, Inv, TypeOK
    <3>2. delivered'[c][e] <= delivered[c][e] + 1 /\ delivered'[c][e] \in Nat
      BY <1>3, <2>2, <2>3, <2>4, CallEffect
    <3>3. QED
      BY <1>2, <1>3, <1>4, <2>1, <3>1, <3>2
  <2>5. CASE f # e \/ Consumer[w] # c
    <3>1. delivered'[c][e] = delivered[c][e]
      BY <2>2, <2>3, <2>5, CallEffect
    <3>2. \A v \in Workers :
            e \in wqueue'[v] \ wcur'[v] /\ Consumer[v] = c => e \in wqueue[v] \ wcur[v]
      BY <2>1, <2>5 DEF Inv, TypeOK
    <3>3. QED
      BY <1>3, <1>5, <2>1, <3>1, <3>2
  <2>6. QED
    BY <2>4, <2>5
<1>8. CASE \/ \E f \in Events : Append(f) \/ LeaseExpires(f)
           \/ \E w \in Workers : InsertCheckpoint(w) \/ Settle(w) \/ Fail(w) \/ StatementFails(w) \/ Crash(w)
           \/ UNCHANGED vars
  <2>1. /\ UNCHANGED delivered /\ budget' <= budget
        /\ \A w \in Workers : wqueue'[w] \ wcur'[w] \subseteq wqueue[w] \ wcur[w]
    BY <1>8, QuietStep DEF Inv
  <2>2. QED
    BY <1>5, <2>1
<1>9. Goal
  BY <1>6, <1>7, <1>8 DEF Next, RunOnce, Deliver
<1>10. QED
  BY <1>9

(***************************************************************************)
(* Every step keeps, while c is not through with the event, its accepted   *)
(* calls and the holders that may let the event go unrecorded within the   *)
(* lease and the faults: what lets a holder go without a record gives up   *)
(* the lease or is a fault, and the replica that is recording makes c done.*)
(***************************************************************************)
LEMMA UnsureStep ==
    ASSUME Inv, CountInv, [Next]_vars, TypeOK', NEW c \in Consumers, NEW e \in Events,
           ~Done(c, e)'
    PROVE  (delivered[c][e] + Cardinality(Unsure(c, e)) <= Lease(e) + (FaultBudget - budget))'
<1> SUFFICES ASSUME NEW after \in SUBSET Workers,
                    after = {w \in Workers :
                               /\ e \in wqueue'[w]
                               /\ ~ /\ Consumer[w] = c /\ e \in wcur'[w]
                                    /\ \/ wpc'[w] = "checkpoint"
                                       \/ wpc'[w] = "settle" /\ Consumer[w] = "stdout"},
                    NEW lease,
                    lease = IF e \in leased' /\ \E w \in Workers : e \in wqueue'[w] THEN 1 ELSE 0
             PROVE  delivered'[c][e] + Cardinality(after) <= lease + (FaultBudget - budget')
  BY DEF Unsure, Recording, Lease, Held
<1> DEFINE Before == Unsure(c, e)
<1>1. Before \in SUBSET Workers
  BY DEF Unsure
<1> HIDE DEF Before
<1>2. /\ Cardinality(Before) \in Nat /\ Cardinality(after) \in Nat
      /\ after \subseteq Before => Cardinality(after) <= Cardinality(Before)
      /\ \A w : w \in Before /\ after \subseteq Before \ {w} =>
                  Cardinality(after) + 1 <= Cardinality(Before)
      /\ \A w : after \subseteq Before \cup {w} => Cardinality(after) <= Cardinality(Before) + 1
  BY <1>1, ReplicaCount
<1>3. delivered[c][e] \in Nat /\ budget \in Nat /\ budget' \in Nat /\ Lease(e) \in {0, 1} /\ lease \in {0, 1}
  BY DEF Inv, TypeOK, Lease
<1>4. ~Done(c, e) => delivered[c][e] + Cardinality(Before) <= Lease(e) + (FaultBudget - budget)
  BY DEF CountInv, Before
<1> DEFINE Goal == delivered'[c][e] + Cardinality(after) <= lease + (FaultBudget - budget')
<1>5. ASSUME ~Done(c, e), delivered'[c][e] = delivered[c][e], after \subseteq Before,
             (budget' = budget /\ lease = Lease(e)) \/ budget' = budget - 1
      PROVE  Goal
  BY <1>2, <1>3, <1>4, <1>5
<1>6. ASSUME ~Done(c, e), delivered'[c][e] = delivered[c][e], budget' = budget,
             NEW w \in Before, after \subseteq Before \ {w}
      PROVE  Goal
  <2>1. Cardinality(after) + 1 <= Cardinality(Before)
    BY <1>2, <1>6
  <2>2. QED
    BY <1>2, <1>3, <1>4, <1>6, <2>1
<1>call. ASSUME NEW w \in Workers, NEW f \in Events, delivered' = Count(delivered, w, f)
         PROVE  delivered'[c][e] = IF c = Consumer[w] /\ e = f THEN delivered[c][e] + 1 ELSE delivered[c][e]
  <2>1. delivered \in [Consumers -> [Events -> Nat]]
    BY DEF Inv, TypeOK
  <2>2. QED
    BY <1>call, <2>1, CallEffect
<1> USE DEF Inv, TypeOK
<1>7. CASE UNCHANGED vars
  <2>1. UNCHANGED <<published, checkpoints, leased, wpc, wqueue, wcur, delivered, budget>>
    BY <1>7 DEF vars, rowVars, workerVars, history
  <2>2. after \subseteq Before /\ lease = Lease(e)
    BY <2>1 DEF Before, Unsure, Recording, Lease, Held
  <2>3. QED
    BY <1>5, <2>1, <2>2 DEF Done
<1>8. ASSUME NEW f \in Events, Append(f) \/ LeaseExpires(f) PROVE Goal
  <2>1. UNCHANGED <<published, checkpoints, wpc, wqueue, wcur, delivered>>
    BY <1>8 DEF Append, LeaseExpires, workerVars, history
  <2>2. after \subseteq Before
    BY <2>1 DEF Before, Unsure, Recording
  <2>3. (budget' = budget /\ lease = Lease(e)) \/ budget' = budget - 1
    BY <1>8, <2>1 DEF Append, LeaseExpires, Spend, Lease, Held
  <2>4. QED
    BY <1>5, <2>1, <2>2, <2>3 DEF Done
<1>9. ASSUME NEW w \in Workers, Claim(w) PROVE Goal
  <2>1. PICK batch \in SUBSET Events :
          /\ \A f \in batch : Claimable(Consumer[w], f)
          /\ leased' = leased \cup batch
          /\ wqueue' = [wqueue EXCEPT ![w] = batch]
    BY <1>9 DEF Claim
  <2>2. UNCHANGED <<published, checkpoints, wpc, wcur, delivered, budget>> /\ wqueue[w] = {}
    BY <1>9 DEF Claim, history
  <2>3. CASE e \in batch
    <3>1. after \subseteq Before \cup {w}
      BY <2>1, <2>2 DEF Before, Unsure, Recording
    <3>2. Cardinality(after) <= Cardinality(Before) + 1
      BY <1>2, <3>1
    <3>3. Lease(e) = 0 /\ lease = 1
      BY <2>1, <2>3 DEF Claimable, Lease
    <3>4. QED
      BY <1>2, <1>3, <1>4, <2>2, <3>2, <3>3 DEF Done
  <2>4. CASE e \notin batch
    <3>1. after \subseteq Before /\ lease = Lease(e)
      BY <2>1, <2>2, <2>4 DEF Before, Unsure, Recording, Lease, Held
    <3>2. QED
      BY <1>5, <2>2, <3>1 DEF Done
  <2>5. QED
    BY <2>3, <2>4
<1>10. ASSUME NEW w \in Workers, NEW f \in Events, Publish(w, f) \/ PublishFails(w, f) PROVE Goal
  <2>1. /\ wpc[w] = "next" /\ wcur[w] = {} /\ f \in wqueue[w]
        /\ wcur' = [wcur EXCEPT ![w] = {f}]
        /\ UNCHANGED <<published, checkpoints, leased, wqueue, budget>>
    BY <1>10 DEF Publish, PublishFails, CountInv, rowVars
  <2>2. lease = Lease(e) /\ ~Done(c, e)
    BY <2>1 DEF Lease, Held, Done
  <2>3. CASE Publish(w, f) /\ f = e /\ Consumer[w] = c
    <3>1. wpc' = [wpc EXCEPT ![w] = "checkpoint"] /\ delivered' = Count(delivered, w, f)
      BY <2>3 DEF Publish, Goto
    <3>2. w \in Before /\ after \subseteq Before \ {w}
      BY <2>1, <2>3, <3>1 DEF Before, Unsure, Recording
    <3>3. Cardinality(after) + 1 <= Cardinality(Before)
      BY <1>2, <3>2
    <3>4. delivered'[c][e] = delivered[c][e] + 1
      <4>1. delivered'[c][e] = IF c = Consumer[w] /\ e = f THEN delivered[c][e] + 1 ELSE delivered[c][e]
        BY <3>1, <1>call
      <4>2. QED
        BY <2>3, <4>1
    <3>5. QED
      BY <1>2, <1>3, <1>4, <2>1, <2>2, <3>3, <3>4
  <2>4. CASE PublishFails(w, f) \/ f # e \/ Consumer[w] # c
    <3>1. delivered'[c][e] = delivered[c][e]
      <4>1. CASE PublishFails(w, f)
        BY <4>1 DEF PublishFails
      <4>2. CASE Publish(w, f) /\ (f # e \/ Consumer[w] # c)
        <5>1. delivered' = Count(delivered, w, f)
          BY <4>2 DEF Publish
        <5>2. delivered'[c][e] = IF c = Consumer[w] /\ e = f THEN delivered[c][e] + 1 ELSE delivered[c][e]
          BY <5>1, <1>call
        <5>3. QED
          BY <4>2, <5>2
      <4>3. QED
        BY <1>10, <2>4, <4>1, <4>2
    <3>2. \A v \in Workers \ {w} : wpc'[v] = wpc[v] /\ wcur'[v] = wcur[v]
      BY <1>10 DEF Publish, PublishFails, Goto
    <3>3. after \subseteq Before
      BY <2>1, <3>2 DEF Before, Unsure, Recording
    <3>4. QED
      BY <1>5, <2>1, <2>2, <3>1, <3>3
  <2>5. QED
    BY <1>10, <2>3, <2>4
<1>11. ASSUME NEW w \in Workers, InsertCheckpoint(w) PROVE Goal
  <2>1. /\ wpc[w] = "checkpoint" /\ wpc' = [wpc EXCEPT ![w] = "settle"]
        /\ UNCHANGED <<published, leased, wqueue, wcur, delivered, budget>>
        /\ checkpoints' = checkpoints \cup ({Consumer[w]} \X wcur[w])
    BY <1>11 DEF InsertCheckpoint, Goto, history
  <2>2. ~Done(c, e) /\ lease = Lease(e)
    BY <2>1 DEF Done, Lease, Held
  <2>3. ~(e \in wcur[w] /\ Consumer[w] = c /\ c = "leaderboard")
    BY <2>1 DEF Done
  <2>4. after \subseteq Before
    BY <2>1, <2>3 DEF Before, Unsure, Recording
  <2>5. QED
    BY <1>5, <2>1, <2>2, <2>4
<1>12. ASSUME NEW w \in Workers, Settle(w) \/ Fail(w) PROVE Goal
  <2>1. /\ wpc' = [wpc EXCEPT ![w] = "next"] /\ wcur' = [wcur EXCEPT ![w] = {}]
        /\ wqueue' = [wqueue EXCEPT ![w] = @ \ wcur[w]]
        /\ leased' = leased \ wcur[w] /\ UNCHANGED <<checkpoints, delivered, budget>>
        /\ published \subseteq published' /\ wcur[w] \subseteq wqueue[w]
    BY <1>12 DEF Settle, Fail, DeliverReturns, Goto, history, DeliverInv
  <2>2. ~Done(c, e)
    BY <2>1 DEF Done
  <2>3. CASE e \in wcur[w]
    <3>1. w \in Before
      BY <1>12, <2>1, <2>3 DEF Before, Unsure, Recording, Settle, Fail, Done
    <3>2. after \subseteq Before \ {w}
      BY <2>1, <2>3 DEF Before, Unsure, Recording
    <3>3. QED
      BY <1>6, <2>1, <2>2, <3>1, <3>2
  <2>4. CASE e \notin wcur[w]
    <3>1. after \subseteq Before /\ lease = Lease(e)
      BY <2>1, <2>4 DEF Before, Unsure, Recording, Lease, Held
    <3>2. QED
      BY <1>5, <2>1, <2>2, <3>1
  <2>5. QED
    BY <2>3, <2>4
<1>13. ASSUME NEW w \in Workers, StatementFails(w) PROVE Goal
  <2>1. budget' = budget - 1 /\ UNCHANGED <<published, checkpoints, leased, delivered>>
    BY <1>13 DEF StatementFails, Spend, rowVars, history
  <2>2. ~Done(c, e)
    BY <2>1 DEF Done
  <2>3. CASE wpc[w] = "checkpoint"
    <3>1. wpc' = [wpc EXCEPT ![w] = "settle"] /\ UNCHANGED <<wqueue, wcur>>
      BY <1>13, <2>3 DEF StatementFails, Goto
    <3>2. after \subseteq Before \cup {w} /\ lease = Lease(e)
      BY <2>1, <3>1 DEF Before, Unsure, Recording, Lease, Held
    <3>3. Cardinality(after) <= Cardinality(Before) + 1
      BY <1>2, <3>2
    <3>4. QED
      BY <1>2, <1>3, <1>4, <2>1, <2>2, <3>2, <3>3
  <2>4. CASE DeliverReturns(w)
    <3>1. after \subseteq Before
      BY <2>4 DEF DeliverReturns, Goto, Before, Unsure, Recording
    <3>2. QED
      BY <1>5, <2>1, <2>2, <3>1
  <2>5. QED
    BY <1>13, <2>3, <2>4 DEF StatementFails
<1>14. ASSUME NEW w \in Workers, Crash(w) PROVE Goal
  <2>1. budget' = budget - 1 /\ UNCHANGED <<published, checkpoints, delivered>>
    BY <1>14 DEF Crash, Spend, rowVars, history
  <2>2. after \subseteq Before
    BY <1>14 DEF Crash, Goto, Before, Unsure, Recording
  <2>3. QED
    BY <1>5, <2>1, <2>2 DEF Done
<1> HIDE DEF Inv, TypeOK
<1>15. Goal
  BY <1>7, <1>8, <1>9, <1>10, <1>11, <1>12, <1>13, <1>14 DEF Next, RunOnce, Deliver
<1>16. QED
  BY <1>15

\* The empty outbox satisfies the counting invariant.
LEMMA CountInit == Init => CountInv
<1> SUFFICES ASSUME Init PROVE CountInv
  OBVIOUS
<1>1. \A e \in Events : Owing(e) = {} /\ \A c \in Consumers : OwingOf(c, e) = {} /\ Unsure(c, e) = {}
  BY DEF Init, Owing, OwingOf, Unsure
<1>2. Cardinality({}) = 0
  BY FS_EmptySet
<1>3. \A e \in Events : Lease(e) = 0
  BY DEF Init, Lease
<1>4. \A c \in Consumers, e \in Events : delivered[c][e] = 0 /\ failed[c][e] = 0 /\ attempts[e] = 0
  BY DEF Init
<1>5. budget = FaultBudget /\ \A w \in Workers : wcur[w] = {}
  BY DEF Init
<1>6. \A e \in Events :
        /\ Cardinality(Owing(e)) = 0
        /\ \A c \in Consumers : Cardinality(OwingOf(c, e)) = 0 /\ Cardinality(Unsure(c, e)) = 0
  BY <1>1, <1>2
<1>7. \A e \in Events :
        delivered["stdout"][e] + failed["stdout"][e] + delivered["leaderboard"][e]
          + failed["leaderboard"][e] + Cardinality(Owing(e)) <= attempts[e]
  BY <1>4, <1>6
<1>8. \A c \in Consumers, e \in Events :
        /\ delivered[c][e] + Cardinality(OwingOf(c, e)) <= 1 + (FaultBudget - budget)
        /\ delivered[c][e] + Cardinality(Unsure(c, e)) <= Lease(e) + (FaultBudget - budget)
  BY <1>3, <1>4, <1>5, <1>6
<1>9. QED
  BY <1>5, <1>7, <1>8 DEF CountInv

\* Every step keeps the counts.
LEMMA CountStep == Inv /\ CountInv /\ [Next]_vars => CountInv'
<1> SUFFICES ASSUME Inv, CountInv, [Next]_vars PROVE CountInv'
  OBVIOUS
<1>1. TypeOK'
  BY TypeStep DEF Inv
<1>2. (\A w \in Workers : wpc[w] = "next" => wcur[w] = {})'
  <2> USE DEF Inv, TypeOK, CountInv, rowVars, workerVars, history, Goto
  <2>1. CASE UNCHANGED vars
    BY <2>1 DEF vars
  <2>2. ASSUME NEW f \in Events, Append(f) \/ LeaseExpires(f) PROVE UNCHANGED <<wpc, wcur>>
    BY <2>2 DEF Append, LeaseExpires
  <2>3. ASSUME NEW w \in Workers, RunOnce(w) \/ StatementFails(w) \/ Crash(w)
        PROVE  \A v \in Workers : wpc'[v] = "next" => wcur'[v] = {}
    <3>1. CASE Claim(w)
      BY <3>1 DEF Claim
    <3>2. CASE \E f \in Events : Publish(w, f) \/ PublishFails(w, f)
      BY <3>2 DEF Publish, PublishFails
    <3>3. CASE InsertCheckpoint(w)
      BY <3>3 DEF InsertCheckpoint
    <3>4. CASE DeliverReturns(w)
      BY <3>4 DEF DeliverReturns
    <3>5. CASE StatementFails(w) /\ ~DeliverReturns(w)
      BY <3>5 DEF StatementFails
    <3>6. CASE Crash(w)
      BY <3>6 DEF Crash
    <3>7. QED
      BY <2>3, <3>1, <3>2, <3>3, <3>4, <3>5, <3>6 DEF RunOnce, Deliver, Settle, Fail
  <2>4. QED
    BY <2>1, <2>2, <2>3 DEF Next
<1>3. budget' <= FaultBudget
  <2>1. budget' <= budget
    <3>1. CASE \E w \in Workers : Claim(w) \/ \E f \in Events : Publish(w, f) \/ PublishFails(w, f)
      BY <3>1 DEF Claim, Publish, PublishFails, Inv, TypeOK
    <3>2. CASE \/ \E f \in Events : Append(f) \/ LeaseExpires(f)
               \/ \E w \in Workers : InsertCheckpoint(w) \/ Settle(w) \/ Fail(w) \/ StatementFails(w) \/ Crash(w)
               \/ UNCHANGED vars
      BY <3>2, QuietStep DEF Inv
    <3>3. QED
      BY <3>1, <3>2 DEF Next, RunOnce, Deliver
  <2>2. QED
    BY <1>1, <2>1 DEF CountInv, Inv, TypeOK
<1>4. (\A e \in Events :
          delivered["stdout"][e] + failed["stdout"][e] + delivered["leaderboard"][e]
            + failed["leaderboard"][e] + Cardinality(Owing(e)) <= attempts[e])'
  BY AttemptStep
<1>5. (\A c \in Consumers, e \in Events :
          delivered[c][e] + Cardinality(OwingOf(c, e)) <= 1 + (FaultBudget - budget))'
  BY <1>1, DuplicateStep
<1>6. (\A c \in Consumers, e \in Events :
          ~Done(c, e) =>
            delivered[c][e] + Cardinality(Unsure(c, e)) <= Lease(e) + (FaultBudget - budget))'
  BY <1>1, UnsureStep
<1>7. QED
  BY <1>2, <1>3, <1>4, <1>5, <1>6 DEF CountInv

\* For every number of events, replicas and faults, the counts hold in every state.
LEMMA Counting == Spec => [](Inv /\ CountInv)
<1>1. Init => Inv /\ CountInv
  BY DeliveryInit, CountInit
<1>2. Inv /\ CountInv /\ [Next]_vars => (Inv /\ CountInv)'
  BY DeliveryStep, CountStep
<1>3. QED
  BY <1>1, <1>2, PTL DEF Spec

(***************************************************************************)
(* For every number of events and replicas of both consumers: each call of *)
(* a publisher has an attempt of its own, recorded by the claim before it, *)
(* although two replicas may hold the event at once.                       *)
(***************************************************************************)
THEOREM AttemptsAreRecorded == Spec => []EveryCallIsAnAttempt
<1>1. Inv /\ CountInv => EveryCallIsAnAttempt
  <2> SUFFICES ASSUME Inv, CountInv, NEW e \in Events
               PROVE  delivered["stdout"][e] + failed["stdout"][e] + delivered["leaderboard"][e]
                        + failed["leaderboard"][e] <= attempts[e]
    BY DEF EveryCallIsAnAttempt
  <2>1. Cardinality(Owing(e)) \in Nat
    BY ReplicaCount DEF Owing
  <2>2. QED
    BY <2>1 DEF CountInv, Inv, TypeOK
<1>2. QED
  BY <1>1, Counting, PTL

(***************************************************************************)
(* For every number of events and replicas: a consumer is given an event   *)
(* at most once more than there were crashes, failed statements and leases *)
(* outlived, so without a fault exactly-once delivery is all there is.     *)
(***************************************************************************)
THEOREM FaultsBoundDuplicates == Spec => []DuplicatesNeedFaults
<1>1. Inv /\ CountInv => DuplicatesNeedFaults
  <2> SUFFICES ASSUME Inv, CountInv, NEW c \in Consumers, NEW e \in Events
               PROVE  delivered[c][e] <= 1 + (FaultBudget - budget)
    BY DEF DuplicatesNeedFaults
  <2>1. Cardinality(OwingOf(c, e)) \in Nat
    BY ReplicaCount DEF OwingOf, Owing
  <2>2. QED
    BY <2>1 DEF CountInv, Inv, TypeOK
<1>2. QED
  BY <1>1, Counting, PTL
=============================================================================
