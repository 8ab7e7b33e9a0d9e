-------------------------- MODULE MatchFlowProofs --------------------------
(* Proofs about MatchFlow. *)
EXTENDS MatchFlow, TLAPS

USE FlowConstants

\* Every step keeps every column and local variable in its type.
LEMMA TypeStep == TypeOK /\ [Next]_vars => TypeOK'
<1> SUFFICES ASSUME TypeOK, [Next]_vars PROVE TypeOK'
  OBVIOUS
<1> USE DEF TypeOK, vars, ticketVars, matchVars, workerVars, serverVars
<1>1. CASE UNCHANGED vars
  BY <1>1
<1>2. CASE Player
  <2>1. ASSUME NEW t \in Tickets, NEW party \in SUBSET Players, InsertTicket(t, party)
        PROVE TypeOK'
    BY <2>1 DEF InsertTicket, TicketStatus
  <2>2. ASSUME NEW t \in Tickets, Cancel(t) \/ TicketDue(t) PROVE TypeOK'
    BY <2>2 DEF Cancel, TicketDue, TicketStatus
  <2> HIDE DEF TypeOK, vars, ticketVars, matchVars, workerVars, serverVars
  <2>3. ASSUME NEW t \in Tickets, NEW p \in Players, Create(t, p) PROVE TypeOK'
    <3>1. {p} \in SUBSET Players
      OBVIOUS
    <3>2. QED
      BY <2>1, <2>3, <3>1 DEF Create
  <2>4. ASSUME NEW t \in Tickets, NEW party \in Parties, CreateTx(t, party) PROVE TypeOK'
    <3>1. party \in SUBSET Players
      OBVIOUS
    <3>2. QED
      BY <2>1, <2>4, <3>1 DEF CreateTx
  <2>5. QED
    BY <1>2, <2>2, <2>3, <2>4 DEF Player
<1>3. ASSUME NEW w \in Workers, SelectBatch(w) PROVE TypeOK'
  BY <1>3 DEF SelectBatch, WorkerPC
<1>4. ASSUME NEW w \in Workers, Claim(w) PROVE TypeOK'
  BY <1>4 DEF Claim, Return, WorkerPC, TicketStatus
<1>5. ASSUME NEW w \in Workers, ClaimRefused(w) \/ PrepareFails(w) \/ WorkerFault(w) PROVE TypeOK'
  BY <1>5 DEF ClaimRefused, PrepareFails, WorkerFault, StatementFails, Crash, Return, Goto, WorkerPC
<1>6. ASSUME NEW w \in Workers, Allocate(w) \/ AllocateFails(w) PROVE TypeOK'
  BY <1>6 DEF Allocate, AllocateFails, Goto, WorkerPC, ServerState
<1>7. ASSUME NEW w \in Workers, RecordAllocationFailure(w) PROVE TypeOK'
  BY <1>7 DEF RecordAllocationFailure, AllocationFailureStatus, Return, WorkerPC, TicketStatus
<1>8. ASSUME NEW w \in Workers, CreateMatch(w) \/ CreateMatchFails(w) PROVE TypeOK'
  <2>1. (UNION {tmembers[t] : t \in wbatch[w]}) \in SUBSET Players
    OBVIOUS
  <2>2. CASE CreateMatch(w)
    <3> DEFINE seated == UNION {tmembers[t] : t \in wbatch[w]}
    <3>1. mroster' = [mroster EXCEPT ![wmatch[w]] = seated]
      BY <2>2 DEF CreateMatch
    <3>2. mroster' \in [Matches -> SUBSET Players]
      <4> HIDE DEF seated
      <4>1. seated \in SUBSET Players
        BY <2>1 DEF seated
      <4>2. QED
        BY <3>1, <4>1
    <3>3. mstate' \in [Matches -> MatchState] /\ mstale' \in [Matches -> BOOLEAN]
      BY <2>2 DEF CreateMatch, MatchState
    <3>4. mbatch' \in [Matches -> SUBSET Tickets] /\ late' \in SUBSET Matches
      BY <2>2 DEF CreateMatch
    <3>5. /\ wpc' \in [Workers -> WorkerPC]
          /\ UNCHANGED <<wbatch, wmatch, ticketVars, serverVars, events>>
      BY <2>2 DEF CreateMatch, Goto, WorkerPC
    <3>6. QED
      BY <3>2, <3>3, <3>4, <3>5
  <2>3. CASE CreateMatchFails(w)
    BY <2>3 DEF CreateMatchFails, Goto, WorkerPC
  <2>4. QED
    BY <1>8, <2>2, <2>3
<1>9. ASSUME NEW w \in Workers, MarkAllocating(w) \/ MarkAllocatingFails(w) PROVE TypeOK'
  <2>1. CASE MarkAllocating(w)
    <3>1. mstate' \in [Matches -> MatchState] /\ mstale' \in [Matches -> BOOLEAN]
      BY <2>1 DEF MarkAllocating, SetMatchState, MatchState
    <3>2. late' \in SUBSET Matches
      BY <2>1 DEF MarkAllocating, SetMatchState
    <3>3. wpc' \in [Workers -> WorkerPC]
      BY <2>1 DEF MarkAllocating, Goto, WorkerPC
    <3>4. UNCHANGED <<mroster, mbatch, wbatch, wmatch, ticketVars, serverVars, events>>
      BY <2>1 DEF MarkAllocating, SetMatchState, Goto
    <3>5. QED
      BY <3>1, <3>2, <3>3, <3>4
  <2>2. CASE MarkAllocatingFails(w)
    BY <2>2 DEF MarkAllocatingFails, Goto, WorkerPC
  <2>3. QED
    BY <1>9, <2>1, <2>2
<1>10. ASSUME NEW w \in Workers, FinishBatch(w) PROVE TypeOK'
  BY <1>10 DEF FinishBatch, SetTicketStatus, Return, WorkerPC, TicketStatus
<1>11. ASSUME NEW w \in Workers, Requeue(w) PROVE TypeOK'
  BY <1>11 DEF Requeue, SetTicketStatus, Return, WorkerPC, TicketStatus
<1>12. ASSUME NEW m \in Matches, Server(m) PROVE TypeOK'
  <2>1. CASE SubmitResult(m)
    <3>1. <<"match.completed.v1", m>> \in MatchEvents \X Matches
      BY DEF MatchEvents
    <3>2. events' \in SUBSET (MatchEvents \X Matches)
      BY <2>1, <3>1 DEF SubmitResult
    <3>3. QED
      BY <2>1, <3>2 DEF SubmitResult, SetMatchState, MatchState
  <2>2. CASE MarkReady(m)
    BY <2>2 DEF MarkReady, SetMatchState, MatchState, ServerState
  <2>3. CASE StartRunning(m) \/ RecordResultConflict(m) \/ Heartbeat(m)
    BY <2>3 DEF StartRunning, RecordResultConflict, Heartbeat, SetMatchState, MatchState
  <2>4. CASE Shutdown(m) \/ ServerCrash(m) \/ TokenExpires(m)
    BY <2>4 DEF Shutdown, ServerCrash, TokenExpires, ServerState
  <2>5. QED
    BY <1>12, <2>1, <2>2, <2>3, <2>4 DEF Server
<1>13. ASSUME NEW m \in Matches, Abandon(m) \/ GoStale(m) \/ HeartbeatsLate(m) PROVE TypeOK'
  BY <1>13 DEF Abandon, GoStale, HeartbeatsLate, SetMatchState, MatchState
<1>14. CASE Reconciler
  <2>1. ASSUME NEW from \in MatchState, NEW to \in MatchState, NEW event \in MatchEvents,
               Recover(from, to, event)
        PROVE TypeOK'
    <3> DEFINE stale == {m \in Matches : mstate[m] = from /\ mstale[m]}
    <3>1. events' \in SUBSET (MatchEvents \X Matches)
      <4>1. {<<event, m>> : m \in stale} \subseteq MatchEvents \X Matches
        OBVIOUS
      <4>2. events' = events \cup {<<event, m>> : m \in stale}
        BY <2>1 DEF Recover
      <4>3. QED
        BY <4>1, <4>2
    <3>2. QED
      BY <2>1, <3>1 DEF Recover, TicketStatus
  <2>2. QED
    BY <1>14, <2>1 DEF Reconciler, RecoverStaleAllocations, RecoverStaleRunningMatches,
         MatchState, MatchEvents
<1>15. QED
  BY <1>1, <1>2, <1>3, <1>4, <1>5, <1>6, <1>7, <1>8, <1>9, <1>10, <1>11, <1>12, <1>13, <1>14
     DEF Next, RunOnce

-----------------------------------------------------------------------------
(***************************************************************************)
(* The local variables of RunOnce agree with the rows it has written: two  *)
(* owning replicas work on different match IDs, the match row appears with *)
(* CreateMatch and leaves Matched with MarkAllocating, and it was made     *)
(* from the batch the replica owns.                                        *)
(***************************************************************************)
WorkerMatch ==
    \A w \in Workers :
      /\ wpc[w] \in Owning =>
           /\ wmatch[w] \in Matches
           /\ \A v \in Workers \ {w} : wpc[v] \in Owning => wmatch[v] # wmatch[w]
      /\ wpc[w] \in {"claimed", "allocFailed", "allocated"} => mstate[wmatch[w]] = "None"
      /\ wpc[w] = "created" => mstate[wmatch[w]] = "Matched"
      /\ wpc[w] = "allocating" => Launched(wmatch[w])
      /\ wpc[w] \in {"created", "allocating"} =>
           /\ mbatch[wmatch[w]] = wbatch[w]
           /\ \A t \in wbatch[w] : tmembers[t] \subseteq mroster[wmatch[w]]

OwnershipInv == TypeOK /\ ClaimedTicketsAreOwned /\ WorkerMatch /\ MatchedTicketIsSeated

(***************************************************************************)
(* A ticket whose match was launched is not in the queue, and a replica    *)
(* that still owns it has only the last UPDATE for that match to do.       *)
(***************************************************************************)
LaunchedTicketsAreSpent ==
    \A m \in Matches : Launched(m) =>
      \A t \in mbatch[m] :
        /\ tstatus[t] \notin {"none", "queued"}
        /\ \A w \in Workers :
             wpc[w] \in Owning /\ t \in wbatch[w] => wpc[w] = "allocating" /\ wmatch[w] = m

(***************************************************************************)
(* Only a lost answer leaves a server of a Ready or Running match waiting  *)
(* for it, and a stale Running match has a silent server.                  *)
(***************************************************************************)
ServerInv ==
    \A m \in Matches :
      /\ mstate[m] \in {"Ready", "Running"} => server[m] # "assigned" \/ Lost
      /\ mstate[m] = "Running" /\ mstale[m] => Silent(m)

-----------------------------------------------------------------------------
(* The mutual exclusion of claim and what the last UPDATE of RunOnce writes. *)

\* Every step keeps the batch owned, the worker in step with its match, the seats.
LEMMA OwnershipStep == OwnershipInv /\ [Next]_vars => OwnershipInv'
<1> SUFFICES ASSUME OwnershipInv, [Next]_vars
             PROVE  (ClaimedTicketsAreOwned /\ WorkerMatch /\ MatchedTicketIsSeated)'
  BY TypeStep DEF OwnershipInv
<1> USE DEF OwnershipInv, TypeOK, ticketVars, matchVars, workerVars, serverVars,
            Owning, Launched
<1>1. CASE UNCHANGED vars
  BY <1>1 DEF vars, ClaimedTicketsAreOwned, WorkerMatch, MatchedTicketIsSeated
<1>2. ASSUME NEW t \in Tickets, NEW party \in SUBSET Players, InsertTicket(t, party)
      PROVE  (ClaimedTicketsAreOwned /\ WorkerMatch /\ MatchedTicketIsSeated)'
  BY <1>2 DEF InsertTicket, ClaimedTicketsAreOwned, WorkerMatch, MatchedTicketIsSeated
<1>3. ASSUME NEW t \in Tickets, Cancel(t) \/ TicketDue(t)
      PROVE  (ClaimedTicketsAreOwned /\ WorkerMatch /\ MatchedTicketIsSeated)'
  BY <1>3 DEF Cancel, TicketDue, ClaimedTicketsAreOwned, WorkerMatch, MatchedTicketIsSeated
<1>4. ASSUME NEW w \in Workers, SelectBatch(w)
      PROVE  (ClaimedTicketsAreOwned /\ WorkerMatch /\ MatchedTicketIsSeated)'
  <2>1. ClaimedTicketsAreOwned'
    BY <1>4 DEF SelectBatch, ClaimedTicketsAreOwned
  <2>2. WorkerMatch'
    BY <1>4 DEF SelectBatch, ClaimedTicketsAreOwned, WorkerMatch
  <2>3. MatchedTicketIsSeated'
    BY <1>4 DEF SelectBatch, ClaimedTicketsAreOwned, WorkerMatch, MatchedTicketIsSeated
  <2>4. QED
    BY <2>1, <2>2, <2>3
<1>5. ASSUME NEW w \in Workers, Claim(w)
      PROVE  (ClaimedTicketsAreOwned /\ WorkerMatch /\ MatchedTicketIsSeated)'
  <2>1. ClaimedTicketsAreOwned'
    BY <1>5 DEF Claim, Claimable, Fresh, Return, ClaimedTicketsAreOwned
  <2>2. WorkerMatch'
    BY <1>5 DEF Claim, Claimable, Fresh, Return, ClaimedTicketsAreOwned, WorkerMatch
  <2>3. MatchedTicketIsSeated'
    BY <1>5 DEF Claim, Claimable, Fresh, Return, ClaimedTicketsAreOwned, WorkerMatch, MatchedTicketIsSeated
  <2>4. QED
    BY <2>1, <2>2, <2>3
<1>6. ASSUME NEW w \in Workers, ClaimRefused(w)
      PROVE  (ClaimedTicketsAreOwned /\ WorkerMatch /\ MatchedTicketIsSeated)'
  <2>1. ClaimedTicketsAreOwned'
    BY <1>6 DEF ClaimRefused, Return, ClaimedTicketsAreOwned
  <2>2. WorkerMatch'
    BY <1>6 DEF ClaimRefused, Return, ClaimedTicketsAreOwned, WorkerMatch
  <2>3. MatchedTicketIsSeated'
    BY <1>6 DEF ClaimRefused, Return, ClaimedTicketsAreOwned, WorkerMatch, MatchedTicketIsSeated
  <2>4. QED
    BY <2>1, <2>2, <2>3
<1>7. ASSUME NEW w \in Workers, PrepareFails(w)
      PROVE  (ClaimedTicketsAreOwned /\ WorkerMatch /\ MatchedTicketIsSeated)'
  <2>1. ClaimedTicketsAreOwned'
    BY <1>7 DEF PrepareFails, Goto, ClaimedTicketsAreOwned
  <2>2. WorkerMatch'
    BY <1>7 DEF PrepareFails, Goto, ClaimedTicketsAreOwned, WorkerMatch
  <2>3. MatchedTicketIsSeated'
    BY <1>7 DEF PrepareFails, Goto, ClaimedTicketsAreOwned, WorkerMatch, MatchedTicketIsSeated
  <2>4. QED
    BY <2>1, <2>2, <2>3
<1>8. ASSUME NEW w \in Workers, Allocate(w)
      PROVE  (ClaimedTicketsAreOwned /\ WorkerMatch /\ MatchedTicketIsSeated)'
  <2>1. ClaimedTicketsAreOwned'
    BY <1>8 DEF Allocate, Goto, ClaimedTicketsAreOwned
  <2>2. WorkerMatch'
    BY <1>8 DEF Allocate, Goto, ClaimedTicketsAreOwned, WorkerMatch
  <2>3. MatchedTicketIsSeated'
    BY <1>8 DEF Allocate, Goto, ClaimedTicketsAreOwned, WorkerMatch, MatchedTicketIsSeated
  <2>4. QED
    BY <2>1, <2>2, <2>3
<1>9. ASSUME NEW w \in Workers, AllocateFails(w)
      PROVE  (ClaimedTicketsAreOwned /\ WorkerMatch /\ MatchedTicketIsSeated)'
  <2>1. ClaimedTicketsAreOwned'
    BY <1>9 DEF AllocateFails, Goto, ClaimedTicketsAreOwned
  <2>2. WorkerMatch'
    BY <1>9 DEF AllocateFails, Goto, ClaimedTicketsAreOwned, WorkerMatch
  <2>3. MatchedTicketIsSeated'
    BY <1>9 DEF AllocateFails, Goto, ClaimedTicketsAreOwned, WorkerMatch, MatchedTicketIsSeated
  <2>4. QED
    BY <2>1, <2>2, <2>3
<1>10. ASSUME NEW w \in Workers, RecordAllocationFailure(w)
      PROVE  (ClaimedTicketsAreOwned /\ WorkerMatch /\ MatchedTicketIsSeated)'
  <2>1. ClaimedTicketsAreOwned'
    BY <1>10 DEF RecordAllocationFailure, Return, ClaimedTicketsAreOwned
  <2>2. WorkerMatch'
    BY <1>10 DEF RecordAllocationFailure, Return, ClaimedTicketsAreOwned, WorkerMatch
  <2>3. MatchedTicketIsSeated'
    BY <1>10 DEF RecordAllocationFailure, AllocationFailureStatus, Return, ClaimedTicketsAreOwned,
                WorkerMatch, MatchedTicketIsSeated
  <2>4. QED
    BY <2>1, <2>2, <2>3
<1>11. ASSUME NEW w \in Workers, CreateMatch(w)
      PROVE  (ClaimedTicketsAreOwned /\ WorkerMatch /\ MatchedTicketIsSeated)'
  <2>1. ClaimedTicketsAreOwned'
    BY <1>11 DEF CreateMatch, Goto, ClaimedTicketsAreOwned
  <2>2. WorkerMatch'
    BY <1>11 DEF CreateMatch, Goto, ClaimedTicketsAreOwned, WorkerMatch
  <2>3. MatchedTicketIsSeated'
    BY <1>11 DEF CreateMatch, Goto, ClaimedTicketsAreOwned, WorkerMatch, MatchedTicketIsSeated
  <2>4. QED
    BY <2>1, <2>2, <2>3
<1>12. ASSUME NEW w \in Workers, CreateMatchFails(w)
      PROVE  (ClaimedTicketsAreOwned /\ WorkerMatch /\ MatchedTicketIsSeated)'
  <2>1. ClaimedTicketsAreOwned'
    BY <1>12 DEF CreateMatchFails, Goto, ClaimedTicketsAreOwned
  <2>2. WorkerMatch'
    BY <1>12 DEF CreateMatchFails, Goto, ClaimedTicketsAreOwned, WorkerMatch
  <2>3. MatchedTicketIsSeated'
    BY <1>12 DEF CreateMatchFails, Goto, ClaimedTicketsAreOwned, WorkerMatch, MatchedTicketIsSeated
  <2>4. QED
    BY <2>1, <2>2, <2>3
<1>13. ASSUME NEW w \in Workers, MarkAllocating(w)
      PROVE  (ClaimedTicketsAreOwned /\ WorkerMatch /\ MatchedTicketIsSeated)'
  <2>1. ClaimedTicketsAreOwned'
    BY <1>13 DEF MarkAllocating, SetMatchState, Goto, ClaimedTicketsAreOwned
  <2>2. WorkerMatch'
    BY <1>13 DEF MarkAllocating, SetMatchState, Goto, ClaimedTicketsAreOwned, WorkerMatch
  <2>3. MatchedTicketIsSeated'
    BY <1>13 DEF MarkAllocating, SetMatchState, Goto, ClaimedTicketsAreOwned, WorkerMatch, MatchedTicketIsSeated
  <2>4. QED
    BY <2>1, <2>2, <2>3
<1>14. ASSUME NEW w \in Workers, MarkAllocatingFails(w)
      PROVE  (ClaimedTicketsAreOwned /\ WorkerMatch /\ MatchedTicketIsSeated)'
  <2>1. ClaimedTicketsAreOwned'
    BY <1>14 DEF MarkAllocatingFails, Goto, ClaimedTicketsAreOwned
  <2>2. WorkerMatch'
    BY <1>14 DEF MarkAllocatingFails, Goto, ClaimedTicketsAreOwned, WorkerMatch
  <2>3. MatchedTicketIsSeated'
    BY <1>14 DEF MarkAllocatingFails, Goto, ClaimedTicketsAreOwned, WorkerMatch, MatchedTicketIsSeated
  <2>4. QED
    BY <2>1, <2>2, <2>3
<1>15. ASSUME NEW w \in Workers, FinishBatch(w)
      PROVE  (ClaimedTicketsAreOwned /\ WorkerMatch /\ MatchedTicketIsSeated)'
  <2>1. ClaimedTicketsAreOwned'
    BY <1>15 DEF FinishBatch, SetTicketStatus, Return, ClaimedTicketsAreOwned
  <2>2. WorkerMatch'
    BY <1>15 DEF FinishBatch, SetTicketStatus, Return, ClaimedTicketsAreOwned, WorkerMatch
  <2>3. MatchedTicketIsSeated'
    BY <1>15 DEF FinishBatch, SetTicketStatus, Return, ClaimedTicketsAreOwned, WorkerMatch, MatchedTicketIsSeated
  <2>4. QED
    BY <2>1, <2>2, <2>3
<1>16. ASSUME NEW w \in Workers, Requeue(w)
      PROVE  (ClaimedTicketsAreOwned /\ WorkerMatch /\ MatchedTicketIsSeated)'
  <2>1. ClaimedTicketsAreOwned'
    BY <1>16 DEF Requeue, SetTicketStatus, Return, ClaimedTicketsAreOwned
  <2>2. WorkerMatch'
    BY <1>16 DEF Requeue, SetTicketStatus, Return, ClaimedTicketsAreOwned, WorkerMatch
  <2>3. MatchedTicketIsSeated'
    BY <1>16 DEF Requeue, SetTicketStatus, Return, ClaimedTicketsAreOwned, WorkerMatch, MatchedTicketIsSeated
  <2>4. QED
    BY <2>1, <2>2, <2>3
<1>17. ASSUME NEW w \in Workers, WorkerFault(w)
      PROVE  (ClaimedTicketsAreOwned /\ WorkerMatch /\ MatchedTicketIsSeated)'
  <2>1. ClaimedTicketsAreOwned'
    BY <1>17 DEF WorkerFault, StatementFails, Crash, Return, ClaimedTicketsAreOwned
  <2>2. WorkerMatch'
    BY <1>17 DEF WorkerFault, StatementFails, Crash, Return, ClaimedTicketsAreOwned, WorkerMatch
  <2>3. MatchedTicketIsSeated'
    BY <1>17 DEF WorkerFault, StatementFails, Crash, Return, ClaimedTicketsAreOwned, WorkerMatch, MatchedTicketIsSeated
  <2>4. QED
    BY <2>1, <2>2, <2>3
<1>18. ASSUME NEW m \in Matches, Server(m) \/ Abandon(m) \/ GoStale(m) \/ HeartbeatsLate(m)
      PROVE  (ClaimedTicketsAreOwned /\ WorkerMatch /\ MatchedTicketIsSeated)'
  BY <1>18 DEF Server, MarkReady, StartRunning, Heartbeat, SubmitResult, RecordResultConflict,
       Shutdown, ServerCrash, TokenExpires, Abandon, GoStale, HeartbeatsLate, SetMatchState,
       ClaimedTicketsAreOwned, WorkerMatch, MatchedTicketIsSeated
<1>19. CASE Reconciler
  <2>1. ASSUME NEW from \in {"Allocating", "Running"}, NEW to \in {"Failed", "Abandoned"}, NEW event,
               Recover(from, to, event)
        PROVE  (ClaimedTicketsAreOwned /\ WorkerMatch /\ MatchedTicketIsSeated)'
    <3> DEFINE stale == {m \in Matches : mstate[m] = from /\ mstale[m]}
    <3>1. /\ mstate' = [m \in Matches |-> IF m \in stale THEN to ELSE mstate[m]]
          /\ tstatus' = [t \in Tickets |->
               IF tstatus[t] = "matched" /\ tmatch[t] \in stale THEN "expired" ELSE tstatus[t]]
          /\ UNCHANGED <<tmembers, tmatch, mroster, mbatch, wpc, wbatch, wmatch>>
      BY <2>1 DEF Recover
    <3>2. \A m \in stale : mstate[m] = from
      OBVIOUS
    <3> HIDE DEF stale
    <3>3. ClaimedTicketsAreOwned'
      BY <3>1 DEF ClaimedTicketsAreOwned
    <3>4. WorkerMatch'
      BY <3>1, <3>2 DEF WorkerMatch
    <3>5. MatchedTicketIsSeated'
      BY <3>1, <3>2 DEF MatchedTicketIsSeated
    <3>6. QED
      BY <3>3, <3>4, <3>5
  <2>2. QED
    BY <1>19, <2>1 DEF Reconciler, RecoverStaleAllocations, RecoverStaleRunningMatches
<1>20. QED
  BY <1>1, <1>2, <1>3, <1>4, <1>5, <1>6, <1>7, <1>8, <1>9, <1>10, <1>11, <1>12, <1>13, <1>14, <1>15, <1>16, <1>17, <1>18, <1>19 DEF Next, Player, RunOnce, Create, CreateTx

\* The empty tables and the idle workers satisfy the ownership invariant.
LEMMA OwnershipInit == Init => OwnershipInv
BY DEF Init, OwnershipInv, TypeOK, ClaimedTicketsAreOwned, WorkerMatch, MatchedTicketIsSeated,
       Owning, TicketStatus, MatchState, WorkerPC, ServerState

(***************************************************************************)
(* For every number of tickets, players, matches and worker replicas, and  *)
(* whatever fails: the variables keep their types, a claimed batch belongs *)
(* to one replica until RunOnce is through with it, and a matched ticket   *)
(* names a launched match that seats its members.                          *)
(***************************************************************************)
THEOREM Ownership == Spec => [](TypeOK /\ ClaimedTicketsAreOwned /\ MatchedTicketIsSeated)
<1>1. OwnershipInv => TypeOK /\ ClaimedTicketsAreOwned /\ MatchedTicketIsSeated
  BY DEF OwnershipInv
<1>2. QED
  BY OwnershipInit, OwnershipStep, <1>1, PTL DEF Spec

(***************************************************************************)
(* A ticket that shows its player a match is never left hanging: the match *)
(* was launched and has a seat for every member, whatever RunOnce and the  *)
(* statements after the allocation ran into.                               *)
(***************************************************************************)
THEOREM Seated == Spec => []MatchedTicketIsSeated
BY Ownership, PTL

-----------------------------------------------------------------------------
(* One launch per ticket *)

\* Without lost replies no step launches a match from a spent ticket.
LEMMA LaunchStep ==
    ASSUME ~Lost, OwnershipInv, OwnershipInv', LaunchedTicketsAreSpent, [Next]_vars
    PROVE  LaunchedTicketsAreSpent'
<1> USE DEF OwnershipInv, TypeOK, ticketVars, matchVars, workerVars, serverVars,
            Owning, Launched, LaunchedTicketsAreSpent
<1>1. CASE UNCHANGED vars
  BY <1>1 DEF vars
<1>2. ASSUME NEW t \in Tickets, NEW party \in SUBSET Players, InsertTicket(t, party)
      PROVE  LaunchedTicketsAreSpent'
  BY <1>2 DEF InsertTicket
<1>3. ASSUME NEW t \in Tickets, Cancel(t) \/ TicketDue(t) PROVE LaunchedTicketsAreSpent'
  BY <1>3 DEF Cancel, TicketDue
<1>4. ASSUME NEW w \in Workers, SelectBatch(w) PROVE LaunchedTicketsAreSpent'
  BY <1>4 DEF SelectBatch
<1>5. ASSUME NEW w \in Workers, Claim(w) PROVE LaunchedTicketsAreSpent'
  BY <1>5 DEF Claim, Claimable, ClaimedTicketsAreOwned
<1>6. ASSUME NEW w \in Workers, ClaimRefused(w) \/ WorkerFault(w) PROVE LaunchedTicketsAreSpent'
  BY <1>6 DEF ClaimRefused, WorkerFault, StatementFails, Crash, Return
<1>7. ASSUME NEW w \in Workers, PrepareFails(w) \/ Allocate(w) \/ AllocateFails(w)
      PROVE  LaunchedTicketsAreSpent'
  BY <1>7 DEF PrepareFails, Allocate, AllocateFails, Goto
<1>8. ASSUME NEW w \in Workers, RecordAllocationFailure(w) PROVE LaunchedTicketsAreSpent'
  BY <1>8 DEF RecordAllocationFailure, Return
<1>9. ASSUME NEW w \in Workers, CreateMatch(w) PROVE LaunchedTicketsAreSpent'
  BY <1>9 DEF CreateMatch, Goto, WorkerMatch
<1>10. ASSUME NEW w \in Workers, CreateMatchFails(w) \/ MarkAllocatingFails(w)
       PROVE  LaunchedTicketsAreSpent'
  BY <1>10 DEF CreateMatchFails, MarkAllocatingFails, Goto
<1>11. ASSUME NEW w \in Workers, MarkAllocating(w) PROVE LaunchedTicketsAreSpent'
  BY <1>11 DEF MarkAllocating, SetMatchState, Goto, WorkerMatch, ClaimedTicketsAreOwned
<1>12. ASSUME NEW w \in Workers, FinishBatch(w) PROVE LaunchedTicketsAreSpent'
  BY <1>12 DEF FinishBatch, SetTicketStatus, Return
<1>13. ASSUME NEW w \in Workers, Requeue(w) PROVE LaunchedTicketsAreSpent'
  BY <1>13 DEF Requeue, SetTicketStatus, Return
<1>14. ASSUME NEW m \in Matches, Server(m) \/ Abandon(m) \/ GoStale(m) \/ HeartbeatsLate(m)
       PROVE  LaunchedTicketsAreSpent'
  <2>1. /\ \A n \in Matches : Launched(n)' => Launched(n)
        /\ UNCHANGED <<mbatch, tstatus, wpc, wbatch, wmatch>>
    BY <1>14 DEF Server, MarkReady, StartRunning, Heartbeat, SubmitResult, RecordResultConflict,
         Shutdown, ServerCrash, TokenExpires, Abandon, GoStale, HeartbeatsLate, SetMatchState
  <2>2. QED
    BY <2>1
<1>15. CASE Reconciler
  <2>1. ASSUME NEW from \in {"Allocating", "Running"}, NEW to, NEW event, Recover(from, to, event)
        PROVE  LaunchedTicketsAreSpent'
    <3>1. \A n \in Matches : Launched(n)' => Launched(n)
      BY <2>1 DEF Recover
    <3>2. \A t \in Tickets : tstatus'[t] = tstatus[t] \/ tstatus'[t] = "expired"
      BY <2>1 DEF Recover
    <3>3. UNCHANGED <<mbatch, wpc, wbatch, wmatch>>
      BY <2>1 DEF Recover
    <3>4. QED
      BY <3>1, <3>2, <3>3
  <2>2. QED
    BY <1>15, <2>1 DEF Reconciler, RecoverStaleAllocations, RecoverStaleRunningMatches
<1> HIDE DEF OwnershipInv, TypeOK, ticketVars, matchVars, workerVars, serverVars,
             Owning, Launched, LaunchedTicketsAreSpent
<1>16. QED
  BY <1>1, <1>2, <1>3, <1>4, <1>5, <1>6, <1>7, <1>8, <1>9, <1>10, <1>11, <1>12, <1>13, <1>14, <1>15
     DEF Next, Player, RunOnce, Create, CreateTx

(***************************************************************************)
(* Without lost replies only MarkAllocating launches a match, and the      *)
(* batch of a launched match never changes.                                *)
(***************************************************************************)
LEMMA LaunchingStep ==
    ASSUME ~Lost, OwnershipInv, [Next]_vars, NEW m \in Matches, Launched(m)'
    PROVE  /\ Launched(m) \/ \E w \in Workers : MarkAllocating(w) /\ wmatch[w] = m
           /\ mbatch'[m] = mbatch[m]
<1> USE DEF OwnershipInv, TypeOK, ticketVars, matchVars, workerVars, serverVars, Launched
<1> DEFINE Goal == /\ Launched(m) \/ \E w \in Workers : MarkAllocating(w) /\ wmatch[w] = m
                   /\ mbatch'[m] = mbatch[m]
<1>1. ASSUME UNCHANGED vars \/ UNCHANGED <<mstate, mbatch>> PROVE Goal
  BY <1>1 DEF vars
<1>2. ASSUME NEW w \in Workers, CreateMatch(w) PROVE Goal
  BY <1>2 DEF CreateMatch, WorkerMatch, Owning
<1>3. ASSUME NEW w \in Workers, MarkAllocating(w) PROVE Goal
  BY <1>3 DEF MarkAllocating, SetMatchState
<1>4. ASSUME NEW n \in Matches, Server(n) \/ Abandon(n) \/ GoStale(n) \/ HeartbeatsLate(n) PROVE Goal
  BY <1>4 DEF Server, MarkReady, StartRunning, Heartbeat, SubmitResult, RecordResultConflict,
       Shutdown, ServerCrash, TokenExpires, Abandon, GoStale, HeartbeatsLate, SetMatchState
<1>5. ASSUME Reconciler PROVE Goal
  <2>1. ASSUME NEW from \in {"Allocating", "Running"}, NEW to, NEW event, Recover(from, to, event)
        PROVE  Goal
    BY <2>1 DEF Recover
  <2>2. QED
    BY <1>5, <2>1 DEF Reconciler, RecoverStaleAllocations, RecoverStaleRunningMatches
<1>6. ASSUME Player PROVE Goal
  BY <1>1, <1>6 DEF Player, Create, CreateTx, InsertTicket, Cancel, TicketDue
<1>7. ASSUME NEW w \in Workers, SelectBatch(w) \/ WorkerFault(w) PROVE Goal
  BY <1>1, <1>7 DEF SelectBatch, WorkerFault, StatementFails, Crash
<1>8. ASSUME NEW w \in Workers, RunOnce(w) PROVE Goal
  BY <1>1, <1>2, <1>3, <1>8 DEF RunOnce, Claim, ClaimRefused, PrepareFails, Allocate, AllocateFails,
     RecordAllocationFailure, CreateMatchFails, MarkAllocatingFails, FinishBatch, Requeue
<1> HIDE DEF Goal
<1>9. Goal
  BY <1>1, <1>4, <1>5, <1>6, <1>7, <1>8 DEF Next
<1>10. QED
  BY <1>9 DEF Goal

(***************************************************************************)
(* The hard question of the worker: with no lease and no fencing, requeued *)
(* tickets, crashed replicas and failing statements never put one ticket   *)
(* into two launched matches, provided no caller sees an error of a call   *)
(* that took effect.                                                       *)
(***************************************************************************)
THEOREM OneLaunch == ASSUME ~Lost PROVE Spec => []OneLaunchPerTicket
<1> DEFINE Inv == OwnershipInv /\ LaunchedTicketsAreSpent /\ OneLaunchPerTicket
<1>1. Init => Inv
  <2>1. Init => LaunchedTicketsAreSpent /\ OneLaunchPerTicket
    BY DEF Init, LaunchedTicketsAreSpent, OneLaunchPerTicket, Launched
  <2>2. QED
    BY <2>1, OwnershipInit
<1>2. Inv /\ [Next]_vars => Inv'
  <2> SUFFICES ASSUME Inv, [Next]_vars PROVE Inv'
    OBVIOUS
  <2>1. OwnershipInv'
    BY OwnershipStep
  <2>2. LaunchedTicketsAreSpent'
    BY <2>1, LaunchStep
  <2>3. ASSUME NEW m1 \in Matches, NEW m2 \in Matches, m1 # m2, Launched(m1)', Launched(m2)'
        PROVE  mbatch'[m1] \cap mbatch'[m2] = {}
    <3>1. mbatch'[m1] = mbatch[m1] /\ mbatch'[m2] = mbatch[m2]
      BY <2>3, LaunchingStep
    <3>2. ASSUME NEW a \in Matches, NEW b \in Matches, NEW w \in Workers, Launched(b),
                 MarkAllocating(w), wmatch[w] = a, a # b
          PROVE  mbatch[a] \cap mbatch[b] = {}
      BY <3>2 DEF LaunchedTicketsAreSpent, OwnershipInv, WorkerMatch, MarkAllocating, Owning
    <3>3. CASE Launched(m1) /\ Launched(m2)
      BY <2>3, <3>1, <3>3 DEF OneLaunchPerTicket
    <3>4. CASE ~Launched(m1)
      <4>1. PICK w \in Workers : MarkAllocating(w) /\ wmatch[w] = m1
        BY <2>3, <3>4, LaunchingStep
      <4>2. Launched(m2)
        BY <2>3, <4>1 DEF MarkAllocating, SetMatchState, Launched, OwnershipInv, TypeOK
      <4>3. QED
        BY <2>3, <3>1, <3>2, <4>1, <4>2
    <3>5. CASE ~Launched(m2)
      <4>1. PICK w \in Workers : MarkAllocating(w) /\ wmatch[w] = m2
        BY <2>3, <3>5, LaunchingStep
      <4>2. Launched(m1)
        BY <2>3, <4>1 DEF MarkAllocating, SetMatchState, Launched, OwnershipInv, TypeOK
      <4>3. QED
        BY <2>3, <3>1, <3>2, <4>1, <4>2
    <3>6. QED
      BY <3>3, <3>4, <3>5
  <2>4. OneLaunchPerTicket'
    BY <2>3 DEF OneLaunchPerTicket
  <2>5. QED
    BY <2>1, <2>2, <2>4
<1>3. QED
  BY <1>1, <1>2, PTL DEF Spec

-----------------------------------------------------------------------------
(* What happens to a ticket's row *)

(***************************************************************************)
(* The statements that write status and allocation_attempts are guarded by *)
(* the status they find, so this holds of every step from any typed state. *)
(***************************************************************************)
LEMMA TicketRowStep ==
    ASSUME TypeOK, [Next]_vars, NEW t \in Tickets
    PROVE  /\ tstatus[t] \in {"cancelled", "expired"} =>
                tstatus'[t] = tstatus[t] /\ tattempts'[t] = tattempts[t]
           /\ tstatus[t] = "matched" =>
                tstatus'[t] \in {"matched", "expired"} /\ tmatch'[t] = tmatch[t]
           /\ tattempts'[t] # tattempts[t] =>
                /\ tattempts'[t] = tattempts[t] + 1
                /\ tstatus'[t] = AllocationFailureStatus(tattempts[t])
<1> USE DEF TypeOK, ticketVars, matchVars, workerVars, serverVars
<1> DEFINE Goal ==
           /\ tstatus[t] \in {"cancelled", "expired"} =>
                tstatus'[t] = tstatus[t] /\ tattempts'[t] = tattempts[t]
           /\ tstatus[t] = "matched" =>
                tstatus'[t] \in {"matched", "expired"} /\ tmatch'[t] = tmatch[t]
           /\ tattempts'[t] # tattempts[t] =>
                /\ tattempts'[t] = tattempts[t] + 1
                /\ tstatus'[t] = AllocationFailureStatus(tattempts[t])
<1>1. ASSUME UNCHANGED vars \/ UNCHANGED ticketVars PROVE Goal
  BY <1>1 DEF vars
<1>2. ASSUME Player PROVE Goal
  BY <1>2 DEF Player, Create, CreateTx, InsertTicket, Cancel, TicketDue
<1>3. ASSUME NEW w \in Workers, Claim(w) PROVE Goal
  BY <1>3 DEF Claim, Claimable
<1>4. ASSUME NEW w \in Workers, RecordAllocationFailure(w) PROVE Goal
  BY <1>4 DEF RecordAllocationFailure
<1>5. ASSUME NEW w \in Workers, FinishBatch(w) \/ Requeue(w) PROVE Goal
  BY <1>5 DEF FinishBatch, Requeue, SetTicketStatus
<1>6. ASSUME NEW w \in Workers, SelectBatch(w) \/ RunOnce(w) \/ WorkerFault(w) PROVE Goal
  <2> HIDE DEF Goal
  <2>1. QED
    BY <1>1, <1>3, <1>4, <1>5, <1>6 DEF RunOnce, SelectBatch, WorkerFault, StatementFails, Crash,
       ClaimRefused, PrepareFails, Allocate, AllocateFails, CreateMatch, CreateMatchFails,
       MarkAllocating, MarkAllocatingFails
<1>7. ASSUME NEW m \in Matches, Server(m) \/ Abandon(m) \/ GoStale(m) \/ HeartbeatsLate(m) PROVE Goal
  <2> HIDE DEF Goal
  <2>1. QED
    BY <1>1, <1>7 DEF Server, MarkReady, StartRunning, Heartbeat, SubmitResult, RecordResultConflict,
       Shutdown, ServerCrash, TokenExpires, Abandon, GoStale, HeartbeatsLate
<1>8. ASSUME Reconciler PROVE Goal
  <2>1. ASSUME NEW from, NEW to, NEW event, Recover(from, to, event) PROVE Goal
    BY <2>1 DEF Recover
  <2>2. QED
    BY <1>8, <2>1 DEF Reconciler, RecoverStaleAllocations, RecoverStaleRunningMatches
<1>9. Goal
  <2> HIDE DEF Goal
  <2>1. QED
    BY <1>1, <1>2, <1>6, <1>7, <1>8 DEF Next
<1>10. QED
  BY <1>9

(***************************************************************************)
(* allocation_attempts never passes MaxAttempts, and a ticket that reaches *)
(* it has expired: RetriesAreBounded is inductive over typed states.       *)
(***************************************************************************)
THEOREM BoundedRetries == Spec => []RetriesAreBounded
<1>1. Init => TypeOK /\ RetriesAreBounded
  BY OwnershipInit DEF OwnershipInv, Init, RetriesAreBounded
<1>2. TypeOK /\ RetriesAreBounded /\ [Next]_vars => (TypeOK /\ RetriesAreBounded)'
  <2> SUFFICES ASSUME TypeOK, RetriesAreBounded, [Next]_vars PROVE (TypeOK /\ RetriesAreBounded)'
    OBVIOUS
  <2>1. ASSUME NEW t \in Tickets
        PROVE  tattempts'[t] <= MaxAttempts /\ (tattempts'[t] = MaxAttempts => tstatus'[t] = "expired")
    <3>1. tattempts[t] \in Nat /\ tattempts[t] <= MaxAttempts
          /\ (tattempts[t] = MaxAttempts => tstatus[t] = "expired")
      BY DEF TypeOK, RetriesAreBounded
    <3>2. CASE tattempts'[t] = tattempts[t]
      BY <3>1, <3>2, TicketRowStep
    <3>3. CASE tattempts'[t] # tattempts[t]
      <4>1. tattempts'[t] = tattempts[t] + 1 /\ tstatus'[t] = AllocationFailureStatus(tattempts[t])
        BY <3>3, TicketRowStep
      <4>2. tattempts[t] # MaxAttempts
        BY <3>1, <3>3, TicketRowStep
      <4>3. QED
        BY <3>1, <4>1, <4>2 DEF AllocationFailureStatus
    <3>4. QED
      BY <3>2, <3>3
  <2>2. QED
    BY <2>1, TypeStep DEF RetriesAreBounded
<1>3. QED
  BY <1>1, <1>2, PTL DEF Spec

\* No step of any actor brings back a cancelled, expired or matched ticket.
THEOREM SettledTickets == Spec => SettledTicketsStaySettled
<1>1. TypeOK /\ [Next]_vars =>
        [\A t \in Tickets :
          /\ tstatus[t] \in {"cancelled", "expired"} => tstatus'[t] = tstatus[t]
          /\ tstatus[t] = "matched" =>
               tstatus'[t] \in {"matched", "expired"} /\ tmatch'[t] = tmatch[t]]_vars
  BY TicketRowStep
<1>2. Spec => []TypeOK
  BY Ownership, PTL
<1>3. QED
  BY <1>1, <1>2, PTL DEF Spec, SettledTicketsStaySettled

-----------------------------------------------------------------------------
(* Heartbeats and the running timeout *)

\* Every step leaves a stale Running match with a silent server only.
LEMMA ServerStep ==
    ASSUME OwnershipInv, ServerInv, [Next]_vars
    PROVE  ServerInv'
<1> USE DEF OwnershipInv, TypeOK, ticketVars, matchVars, workerVars, serverVars, ServerInv, Alive,
            Silent
<1>1. ASSUME UNCHANGED vars \/ UNCHANGED <<expired, late, mstate, mstale, server>> PROVE ServerInv'
  BY <1>1 DEF vars
<1>2. ASSUME Player PROVE ServerInv'
  BY <1>1, <1>2 DEF Player, Create, CreateTx, InsertTicket, Cancel, TicketDue
<1>3. ASSUME NEW w \in Workers, Allocate(w) PROVE ServerInv'
  BY <1>3 DEF Allocate, WorkerMatch, Owning
<1>4. ASSUME NEW w \in Workers, CreateMatch(w) \/ MarkAllocating(w) PROVE ServerInv'
  BY <1>4 DEF CreateMatch, MarkAllocating, SetMatchState
<1>5. ASSUME NEW w \in Workers, SelectBatch(w) \/ RunOnce(w) \/ WorkerFault(w) PROVE ServerInv'
  BY <1>1, <1>3, <1>4, <1>5 DEF RunOnce, SelectBatch, WorkerFault, StatementFails, Crash, Claim,
     ClaimRefused, PrepareFails, AllocateFails, RecordAllocationFailure, CreateMatchFails,
     MarkAllocatingFails, FinishBatch, Requeue
<1>6. ASSUME NEW m \in Matches, MarkReady(m) PROVE ServerInv'
  BY <1>6 DEF MarkReady, SetMatchState
<1>7. ASSUME NEW m \in Matches, StartRunning(m) \/ Heartbeat(m) PROVE ServerInv'
  BY <1>7 DEF StartRunning, Heartbeat, SetMatchState
<1>8. ASSUME NEW m \in Matches, SubmitResult(m) \/ RecordResultConflict(m) \/ Abandon(m)
      PROVE  ServerInv'
  BY <1>8 DEF SubmitResult, RecordResultConflict, Abandon, SetMatchState
<1>9. ASSUME NEW m \in Matches, Shutdown(m) \/ ServerCrash(m) \/ TokenExpires(m) PROVE ServerInv'
  BY <1>9 DEF Shutdown, ServerCrash, TokenExpires, ServerState
<1>10. ASSUME NEW m \in Matches, GoStale(m) \/ HeartbeatsLate(m) PROVE ServerInv'
  BY <1>10 DEF GoStale, HeartbeatsLate, Heartbeating, Verified, ServerState
<1>11. ASSUME Reconciler PROVE ServerInv'
  <2>1. ASSUME NEW from, NEW to \in {"Failed", "Abandoned"}, NEW event, Recover(from, to, event)
        PROVE ServerInv'
    BY <2>1 DEF Recover
  <2>2. QED
    BY <1>11, <2>1 DEF Reconciler, RecoverStaleAllocations, RecoverStaleRunningMatches
<1> HIDE DEF OwnershipInv, TypeOK, ticketVars, matchVars, workerVars, serverVars, ServerInv, Alive,
             Silent
<1>12. QED
  BY <1>1, <1>2, <1>5, <1>6, <1>7, <1>8, <1>9, <1>10, <1>11 DEF Next, Server

(***************************************************************************)
(* Whatever fails, runs out or comes late, the reconciler abandons no      *)
(* match whose server's heartbeats land; it does abandon matches of living *)
(* servers, in the three cases Silent names and in no other.               *)
(***************************************************************************)
THEOREM SilentServers == Spec => OnlySilentServersTimeOut
<1> DEFINE Inv == OwnershipInv /\ ServerInv
<1>1. Init => Inv
  BY OwnershipInit DEF Init, ServerInv
<1>2. Inv /\ [Next]_vars => Inv'
  BY OwnershipStep, ServerStep
<1>3. Inv /\ [Next]_vars =>
        [\A m \in Matches : <<"match.abandoned.v1", m>> \in events' \ events => Silent(m)]_vars
  <2> SUFFICES ASSUME Inv, Next, NEW m \in Matches, <<"match.abandoned.v1", m>> \in events' \ events
               PROVE  Silent(m)
    OBVIOUS
  <2>1. CASE RecoverStaleRunningMatches
    <3>1. mstate[m] = "Running" /\ mstale[m]
      BY <2>1 DEF RecoverStaleRunningMatches, Recover
    <3>2. QED
      BY <3>1 DEF ServerInv
  <2>2. CASE RecoverStaleAllocations
    BY <2>2 DEF RecoverStaleAllocations, Recover
  <2>3. ASSUME NEW n \in Matches, Server(n) PROVE FALSE
    BY <2>3 DEF Server, MarkReady, StartRunning, Heartbeat, SubmitResult, RecordResultConflict,
       Shutdown, ServerCrash, TokenExpires
  <2>4. CASE UNCHANGED events
    BY <2>4
  <2>5. QED
    BY <2>1, <2>2, <2>3, <2>4 DEF Next, Player, Create, CreateTx, InsertTicket, Cancel, TicketDue,
       RunOnce, SelectBatch, WorkerFault, StatementFails, Crash, Claim,
       ClaimRefused, PrepareFails, Allocate, AllocateFails, RecordAllocationFailure, CreateMatch,
       CreateMatchFails, MarkAllocating, MarkAllocatingFails, FinishBatch, Requeue, Abandon, GoStale,
       HeartbeatsLate, Reconciler
<1>4. QED
  BY <1>1, <1>2, <1>3, PTL DEF Spec, OnlySilentServersTimeOut

=============================================================================
