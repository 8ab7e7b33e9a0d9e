--------------------------- MODULE MatchPlayProofs ---------------------------
(* Proofs about MatchPlay. *)
EXTENDS MatchPlay, TLAPS

USE ResultConstants, AdmissionConstants

(***************************************************************************)
(* What a call knows between its transactions: it carries a submission,    *)
(* after the commit the stored result is its own, and after a mismatch it  *)
(* is another one.  Results are never changed, so both go on to hold.      *)
(***************************************************************************)
CallInv ==
    \A c \in Calls :
      /\ call[c] # NoCall => call[c].seq \in Sequences /\ call[c].payload \in Payloads
      /\ call[c].pc = "committed" => call[c] # NoCall /\ Stored(c) = call[c].payload
      /\ call[c].pc = "conflict" => call[c] # NoCall /\ Stored(c) \notin {None, call[c].payload}
      /\ call[c].pc \in {"posted", "open"} => call[c] # NoCall

ResultInv ==
    /\ state \in MatchStates /\ server \in {"up", "down"} /\ ResultsTypeOK
    /\ CallInv /\ OneResult /\ ResultPaysOnce /\ AcknowledgedIsStored /\ DisputesHaveEvidence

(***************************************************************************)
(* How late a claim can be: no claim is good for longer than TTL from now, *)
(* a command past its check took that check at most MaxDelay ago, and what *)
(* a barred player got or is getting from commands rests on a check that   *)
(* came before the restriction.                                            *)
(***************************************************************************)
ClaimInv ==
    /\ \A p \in Joiners, w \in Ways : exp[p][w] <= clock + TTL
    /\ \A p \in Joiners : Barred(p) => exp[p]["command"] <= since[p] + MaxDelay + TTL
    /\ issue # NoIssue =>
         /\ issue.player \in Joiners
         /\ issue.checked <= clock /\ clock <= issue.checked + MaxDelay
         /\ Barred(issue.player) => issue.checked <= since[issue.player]

Inv == ResultInv /\ AdmissionTypeOK /\ ClaimInv

-----------------------------------------------------------------------------
(* The result *)

\* A step that leaves the results alone and does not end or reopen the match.
LEMMA RowStepKeepsResults ==
    ASSUME ResultInv, UNCHANGED resultVars,
           server' \in {"up", "down"},
           \/ state' = state
           \/ state \in {"Ready", "Running"} /\ state' \in {"Running", "Abandoned"}
    PROVE  ResultInv'
<1> USE DEF ResultInv, resultVars, MatchStates
<1>1. state' \in MatchStates /\ ResultsTypeOK'
  BY DEF ResultsTypeOK
<1>2. CallInv' /\ OneResult' /\ AcknowledgedIsStored'
  BY DEF CallInv, Stored, OneResult, Accepted, AcknowledgedIsStored
<1>3. ResultPaysOnce' /\ DisputesHaveEvidence'
  BY DEF ResultPaysOnce, DisputesHaveEvidence, Accepted
<1>4. QED
  BY <1>1, <1>2, <1>3

\* The call returns or goes on, and no row changes.
LEMMA LocalStepKeepsResults ==
    ASSUME ResultInv, NEW c \in Calls,
           UNCHANGED <<rowVars, results, conflicts, rewards, completed, acked>>,
           NEW q \in [pc : CallLabels, seq : Sequences \cup {None}, payload : Payloads \cup {None}],
           call' = [call EXCEPT ![c] = q],
           q # NoCall => q.seq \in Sequences /\ q.payload \in Payloads,
           q.pc = "committed" => q # NoCall /\ results[q.seq] = q.payload,
           q.pc = "conflict" => q # NoCall /\ results[q.seq] \notin {None, q.payload},
           q.pc \in {"posted", "open"} => q # NoCall
    PROVE  ResultInv'
<1> USE DEF ResultInv, rowVars
<1>1. ResultsTypeOK'
  BY DEF ResultsTypeOK
<1>2. CallInv'
  BY DEF CallInv, Stored, ResultsTypeOK
<1>3. OneResult' /\ ResultPaysOnce' /\ AcknowledgedIsStored' /\ DisputesHaveEvidence'
  BY DEF OneResult, Accepted, ResultPaysOnce, AcknowledgedIsStored, DisputesHaveEvidence
<1>4. QED
  BY <1>1, <1>2, <1>3

\* Every step of a call keeps what is known of results.
LEMMA ResultStepInv ==
    ASSUME ResultInv, NEW c \in Calls, ResultStep(c)
    PROVE  ResultInv'
<1> DEFINE Jobs == [pc : CallLabels, seq : Sequences \cup {None}, payload : Payloads \cup {None}]
<1>1. /\ call \in [Calls -> Jobs]
      /\ call[c] \in Jobs
      /\ results \in [Sequences -> Payloads \cup {None}]
  BY DEF ResultInv, ResultsTypeOK
<1>2. NoCall \in Jobs /\ NoCall.pc = "idle"
  BY DEF NoCall, CallLabels
<1>3. ASSUME NEW sub \in Submissions, PostResult(c, sub) PROVE ResultInv'
  <2> DEFINE q == [pc |-> "posted", seq |-> sub[1], payload |-> sub[2]]
  <2>1. sub[1] \in Sequences /\ sub[2] \in Payloads
    OBVIOUS
  <2>2. q \in Jobs /\ q # NoCall /\ q.pc = "posted" /\ q.seq \in Sequences /\ q.payload \in Payloads
    BY <2>1, <1>2 DEF CallLabels
  <2>3. call' = [call EXCEPT ![c] = q]
        /\ UNCHANGED <<rowVars, results, conflicts, rewards, completed, acked>>
    BY <1>3 DEF PostResult
  <2> HIDE DEF q
  <2>4. QED
    BY <2>2, <2>3, LocalStepKeepsResults
<1>4. ASSUME Return(c), UNCHANGED <<rowVars, results, conflicts, rewards, completed, acked>>
      PROVE  ResultInv'
  BY <1>2, <1>4, LocalStepKeepsResults DEF Return
<1>5. ASSUME NEW label \in CallLabels, Step(c, label), call[c] # NoCall, label # "idle",
             UNCHANGED <<rowVars, results, conflicts, rewards, completed, acked>>,
             label = "committed" => Stored(c) = call[c].payload,
             label = "conflict" => Stored(c) \notin {None, call[c].payload}
      PROVE  ResultInv'
  <2> DEFINE q == [call[c] EXCEPT !.pc = label]
  <2>1. call' = [call EXCEPT ![c] = q]
    BY <1>1, <1>5 DEF Step
  <2>2. q \in Jobs /\ q.pc = label /\ q.seq = call[c].seq /\ q.payload = call[c].payload
    BY <1>1
  <2>3. q # NoCall
    BY <1>2, <1>5, <2>2
  <2>4. q.seq \in Sequences /\ q.payload \in Payloads
    BY <1>5, <2>2 DEF ResultInv, CallInv
  <2> HIDE DEF q
  <2>5. QED
    BY <1>5, <2>1, <2>2, <2>3, <2>4, LocalStepKeepsResults DEF Stored
<1>6. ASSUME call[c].pc \in {"posted", "open", "committed", "conflict"}
      PROVE  call[c] # NoCall /\ call[c].seq \in Sequences /\ call[c].payload \in Payloads
  BY <1>6 DEF ResultInv, CallInv
<1>7. CASE ReadState(c)
  <2>1. CASE Step(c, "open")
    BY <1>5, <1>6, <1>7, <2>1 DEF ReadState, CallLabels
  <2>2. CASE Return(c)
    BY <1>4, <1>7, <2>2 DEF ReadState
  <2>3. QED
    BY <1>7, <2>1, <2>2 DEF ReadState
<1>8. CASE Finalize(c)
  <2> DEFINE s == call[c].seq
             p == call[c].payload
             q == [call[c] EXCEPT !.pc = "committed"]
  <2>1. /\ results' = [results EXCEPT ![s] = p]
        /\ rewards' = rewards \cup (Rewarded \X {s})
        /\ state = "Running" /\ state' = "Completed"
        /\ completed' = completed \cup {s}
        /\ call' = [call EXCEPT ![c] = q]
        /\ results[s] = None
        /\ UNCHANGED <<server, conflicts, acked>>
    BY <1>1, <1>8 DEF Finalize, Finalizable, Stored, Step
  <2>2. s \in Sequences /\ p \in Payloads /\ p # None
    BY <1>6, <1>8 DEF Finalize
  <2>3. Accepted = {}
    BY <2>1 DEF ResultInv, ResultPaysOnce
  <2>4. rewards = {} /\ completed = {} /\ conflicts = {} /\ \A t \in Sequences : results[t] = None
    BY <2>1, <2>3 DEF ResultInv, ResultPaysOnce, Accepted, DisputesHaveEvidence
  <2>5. Accepted' = {s}
    BY <1>1, <2>1, <2>2, <2>4 DEF Accepted
  <2>6. q \in Jobs /\ q.pc = "committed" /\ q.seq = s /\ q.payload = p /\ q # NoCall
    BY <1>1, <1>2 DEF CallLabels
  <2>7. ResultsTypeOK'
    <3>1. Rewarded \subseteq Roster
      BY DEF Rewarded
    <3>2. rewards' \subseteq Roster \X Sequences
      BY <2>1, <2>2, <3>1 DEF ResultInv, ResultsTypeOK
    <3>3. QED
      BY <2>1, <2>2, <2>6, <3>2 DEF ResultInv, ResultsTypeOK
  <2>8. CallInv'
    <3> SUFFICES ASSUME NEW d \in Calls
                 PROVE  /\ call'[d] # NoCall => call'[d].seq \in Sequences /\ call'[d].payload \in Payloads
                        /\ call'[d].pc = "committed" => call'[d] # NoCall /\ results'[call'[d].seq] = call'[d].payload
                        /\ call'[d].pc = "conflict" =>
                             call'[d] # NoCall /\ results'[call'[d].seq] \notin {None, call'[d].payload}
                        /\ call'[d].pc \in {"posted", "open"} => call'[d] # NoCall
      BY DEF CallInv, Stored
    <3>1. CASE d = c
      BY <1>1, <2>1, <2>2, <2>6, <3>1
    <3>2. CASE d # c
      <4>1. call'[d] = call[d]
        BY <1>1, <2>1, <3>2
      <4>2. call[d].pc \notin {"committed", "conflict"}
        BY <2>2, <2>4 DEF ResultInv, CallInv, Stored
      <4>3. QED
        BY <4>1, <4>2 DEF ResultInv, CallInv
    <3>3. QED
      BY <3>1, <3>2
  <2>9. OneResult' /\ ResultPaysOnce'
    BY <2>1, <2>4, <2>5 DEF OneResult, ResultPaysOnce
  <2>10. AcknowledgedIsStored'
    <3>1. acked = {}
      BY <2>4 DEF ResultInv, ResultsTypeOK, AcknowledgedIsStored
    <3>2. QED
      BY <2>1, <3>1 DEF AcknowledgedIsStored
  <2>11. DisputesHaveEvidence'
    BY <2>1, <2>4 DEF DisputesHaveEvidence
  <2>12. QED
    BY <2>1, <2>7, <2>8, <2>9, <2>10, <2>11 DEF ResultInv, MatchStates
<1>9. CASE Duplicate(c)
  BY <1>5, <1>6, <1>9 DEF Duplicate, CallLabels
<1>10. CASE Mismatch(c)
  BY <1>5, <1>6, <1>10 DEF Mismatch, CallLabels
<1>11. CASE Reject(c) \/ ConflictIsLost(c) \/ AnswerIsLost(c)
  BY <1>4, <1>11 DEF Reject, ConflictIsLost, AnswerIsLost
<1>12. CASE RecordResultConflict(c)
  <2> DEFINE s == call[c].seq
             p == call[c].payload
  <2>1. /\ conflicts' = conflicts \cup {<<s, results[s], p>>}
        /\ state' = IF state \in {"Running", "Completed"} THEN "Disputed" ELSE state
        /\ call' = [call EXCEPT ![c] = NoCall]
        /\ UNCHANGED <<server, results, rewards, completed, acked>>
    BY <1>12 DEF RecordResultConflict, Return, Stored
  <2>2. s \in Sequences /\ p \in Payloads /\ results[s] \notin {None, p} /\ results[s] \in Payloads
    BY <1>1, <1>6, <1>12 DEF RecordResultConflict, ResultInv, CallInv, Stored
  <2>3. s \in Accepted
    BY <2>2 DEF Accepted
  <2>4. state \in {"Completed", "Disputed"} /\ state' = "Disputed"
    BY <2>1, <2>3 DEF ResultInv, ResultPaysOnce
  <2>5. ResultsTypeOK'
    BY <1>2, <2>1, <2>2 DEF ResultInv, ResultsTypeOK
  <2>6. CallInv'
    BY <1>1, <1>2, <2>1 DEF ResultInv, CallInv, Stored
  <2>7. OneResult' /\ ResultPaysOnce' /\ AcknowledgedIsStored'
    BY <2>1, <2>4 DEF ResultInv, OneResult, ResultPaysOnce, Accepted, AcknowledgedIsStored
  <2>8. DisputesHaveEvidence'
    <3> SUFFICES ASSUME NEW x \in conflicts' PROVE results[x[1]] = x[2] /\ x[2] # x[3]
      BY <2>1, <2>4 DEF DisputesHaveEvidence
    <3>1. CASE x = <<s, results[s], p>>
      BY <2>2, <3>1
    <3>2. CASE x \in conflicts
      BY <3>2 DEF ResultInv, DisputesHaveEvidence
    <3>3. QED
      BY <2>1, <3>1, <3>2
  <2>9. QED
    BY <2>1, <2>4, <2>5, <2>6, <2>7, <2>8 DEF ResultInv, MatchStates
<1>13. CASE Acknowledge(c)
  <2>1. /\ acked' = acked \cup {<<call[c].seq, call[c].payload>>}
        /\ server' \in {"up", "down"}
        /\ call' = [call EXCEPT ![c] = NoCall]
        /\ UNCHANGED <<state, results, conflicts, rewards, completed>>
    BY <1>13 DEF Acknowledge, Return
  <2>2. /\ call[c].seq \in Sequences /\ call[c].payload \in Payloads
        /\ results[call[c].seq] = call[c].payload
    BY <1>6, <1>13 DEF Acknowledge, ResultInv, CallInv, Stored
  <2>3. ResultsTypeOK'
    BY <1>2, <2>1, <2>2 DEF ResultInv, ResultsTypeOK
  <2>4. CallInv'
    BY <1>1, <1>2, <2>1 DEF ResultInv, CallInv, Stored
  <2>5. AcknowledgedIsStored'
    BY <2>1, <2>2 DEF ResultInv, AcknowledgedIsStored
  <2>6. OneResult' /\ ResultPaysOnce' /\ DisputesHaveEvidence'
    BY <2>1 DEF ResultInv, OneResult, ResultPaysOnce, Accepted, DisputesHaveEvidence
  <2>7. QED
    BY <2>1, <2>3, <2>4, <2>5, <2>6 DEF ResultInv
<1>14. QED
  BY <1>3, <1>7, <1>8, <1>9, <1>10, <1>11, <1>12, <1>13 DEF ResultStep

-----------------------------------------------------------------------------
(* Admission *)

\* Every step of the admission keeps its types and what is known of claims.
LEMMA AdmissionStepInv ==
    ASSUME AdmissionTypeOK, ClaimInv, AdmissionStep
    PROVE  AdmissionTypeOK' /\ ClaimInv'
<1> USE DEF AdmissionTypeOK, Never, Kinds, Ways, NoIssue, NoJoin
<1>1. ASSUME NEW p \in Joiners, NEW kind \in Kinds, NEW until \in {clock + 1, Never},
             Restrict(p, kind, until)
      PROVE  AdmissionTypeOK' /\ ClaimInv'
  <2>1. /\ restriction' = [restriction EXCEPT ![p] = [kind |-> kind, until |-> until]]
        /\ since' = [since EXCEPT ![p] = IF Barred(p) THEN @ ELSE clock]
        /\ UNCHANGED <<rowVars, clock, exp, issue, join>>
    BY <1>1 DEF Restrict
  <2>2. until \in 1 .. Never
    OBVIOUS
  <2>3. AdmissionTypeOK'
    BY <2>1, <2>2
  <2>4. \A q \in Joiners : q # p => (Barred(q)' <=> Barred(q)) /\ since'[q] = since[q]
    BY <2>1 DEF Barred
  <2>5. since'[p] = IF Barred(p) THEN since[p] ELSE clock
    BY <2>1
  <2>6. ClaimInv'
    BY <2>1, <2>3, <2>4, <2>5 DEF ClaimInv
  <2>7. QED
    BY <2>3, <2>6
<1>2. ASSUME NEW p \in Joiners, Unrestrict(p) PROVE AdmissionTypeOK' /\ ClaimInv'
  <2>1. /\ restriction' = [restriction EXCEPT ![p] = None]
        /\ since' = [since EXCEPT ![p] = 0]
        /\ UNCHANGED <<rowVars, clock, exp, issue, join>>
    BY <1>2 DEF Unrestrict
  <2>2. AdmissionTypeOK'
    BY <2>1
  <2>3. /\ ~Barred(p)'
        /\ \A q \in Joiners : q # p => (Barred(q)' <=> Barred(q)) /\ since'[q] = since[q]
    BY <2>1 DEF Barred
  <2>4. QED
    BY <2>1, <2>2, <2>3 DEF ClaimInv
<1>3. ASSUME NEW p \in Joiners, IssueJoinClaim(p) PROVE AdmissionTypeOK' /\ ClaimInv'
  <2>1. /\ exp' = [exp EXCEPT ![p]["http"] = clock + TTL]
        /\ UNCHANGED <<rowVars, clock, restriction, since, issue, join>>
    BY <1>3 DEF IssueJoinClaim, Issue
  <2>2. /\ exp' \in [Joiners -> [Ways -> 0 .. MaxTime + TTL]]
        /\ exp'[p]["http"] = clock + TTL /\ exp'[p]["command"] = exp[p]["command"]
        /\ \A q \in Joiners : q # p => exp'[q] = exp[q]
    BY <2>1
  <2>3. \A q \in Joiners : (Barred(q)' <=> Barred(q))
    BY <2>1 DEF Barred
  <2>4. QED
    BY <2>1, <2>2, <2>3 DEF ClaimInv
<1>4. ASSUME NEW p \in Joiners, CheckRestriction(p) PROVE AdmissionTypeOK' /\ ClaimInv'
  <2>1. /\ ~Barred(p)
        /\ issue' = [player |-> p, checked |-> clock]
        /\ UNCHANGED <<rowVars, clock, restriction, since, exp, join>>
    BY <1>4 DEF CheckRestriction
  <2>2. \A q \in Joiners : (Barred(q)' <=> Barred(q))
    BY <2>1 DEF Barred
  <2>3. QED
    BY <2>1, <2>2 DEF ClaimInv
<1>5. ASSUME NEW p \in Joiners, NEW way \in Ways, AuthorizeJoin(p, way)
      PROVE  AdmissionTypeOK' /\ ClaimInv'
  BY <1>5 DEF AuthorizeJoin, ClaimInv, Barred
<1>6. CASE IssueJoinClaimTx
  <2> DEFINE p == issue.player
  <2>1. /\ issue # NoIssue /\ issue' = NoIssue
        /\ UNCHANGED <<rowVars, clock, restriction, since, join>>
    BY <1>6 DEF IssueJoinClaimTx
  <2>2. p \in Joiners
    BY <2>1 DEF ClaimInv
  <2>3. \A q \in Joiners : (Barred(q)' <=> Barred(q))
    BY <2>1 DEF Barred
  <2>4. CASE UNCHANGED exp
    BY <2>1, <2>3, <2>4 DEF ClaimInv
  <2>5. CASE exp' = [exp EXCEPT ![p]["command"] = clock + TTL]
    <3>1. /\ exp' \in [Joiners -> [Ways -> 0 .. MaxTime + TTL]]
          /\ exp'[p]["command"] = clock + TTL /\ exp'[p]["http"] = exp[p]["http"]
          /\ \A q \in Joiners : q # p => exp'[q] = exp[q]
      BY <2>2, <2>5
    <3>2. Barred(p) => clock + TTL <= since[p] + MaxDelay + TTL
      BY <2>1, <2>2 DEF ClaimInv
    <3> HIDE DEF p
    <3>3. QED
      BY <2>1, <2>2, <2>3, <3>1, <3>2, SMTT(30) DEF ClaimInv
  <2>6. QED
    BY <1>6, <2>4, <2>5 DEF IssueJoinClaimTx, Issue
<1>7. CASE StartJoin \/ StartFails
  BY <1>7 DEF StartJoin, StartFails, ClaimInv, Barred
<1>8. CASE Tick
  <2>1. /\ clock < MaxTime /\ clock' = clock + 1
        /\ issue # NoIssue => clock < issue.checked + MaxDelay
        /\ UNCHANGED <<rowVars, restriction, since, exp, issue, join>>
    BY <1>8 DEF Tick
  <2>2. \A q \in Joiners : Barred(q)' => Barred(q)
    BY <2>1 DEF Barred
  <2>3. QED
    BY <2>1, <2>2 DEF ClaimInv
<1>9. QED
  BY <1>1, <1>2, <1>3, <1>4, <1>5, <1>6, <1>7, <1>8 DEF AdmissionStep

\* Of the row, the admission changes nothing but Ready to Running.
LEMMA AdmissionStepRow ==
    ASSUME AdmissionStep
    PROVE  /\ server' = server
           /\ state' = state \/ (state \in {"Ready", "Running"} /\ state' = "Running")
BY DEF AdmissionStep, Restrict, Unrestrict, IssueJoinClaim, CheckRestriction, AuthorizeJoin,
       IssueJoinClaimTx, StartJoin, StartFails, Tick, StartRunning, rowVars

-----------------------------------------------------------------------------
(* The composition *)

\* Nothing has happened yet.
LEMMA InitInv == Init => Inv
<1> SUFFICES ASSUME Init PROVE Inv
  OBVIOUS
<1> USE DEF Init, RowInit, ResultsInit, AdmissionInit
<1>1. ResultsTypeOK /\ CallInv
  BY DEF ResultsTypeOK, CallInv, NoCall, CallLabels, Stored
<1>2. Accepted = {}
  BY DEF Accepted
<1>3. OneResult /\ ResultPaysOnce /\ AcknowledgedIsStored /\ DisputesHaveEvidence
  BY <1>2 DEF OneResult, ResultPaysOnce, AcknowledgedIsStored, DisputesHaveEvidence
<1>4. AdmissionTypeOK
  BY DEF AdmissionTypeOK, NoIssue, NoJoin, Ways
<1>5. ClaimInv
  BY DEF ClaimInv, Barred, NoIssue
<1>6. QED
  BY <1>1, <1>3, <1>4, <1>5 DEF Inv, ResultInv, MatchStates

\* Every step of every part keeps the whole invariant.
LEMMA StepInv == Inv /\ [Next]_vars => Inv'
<1> SUFFICES ASSUME Inv, [Next]_vars PROVE Inv'
  OBVIOUS
<1> USE DEF Inv
<1>1. ASSUME UNCHANGED admissionVars PROVE AdmissionTypeOK' /\ ClaimInv'
  BY <1>1 DEF admissionVars, AdmissionTypeOK, ClaimInv, Barred
<1>2. ASSUME NEW c \in Calls, ResultStep(c), UNCHANGED admissionVars PROVE Inv'
  BY <1>1, <1>2, ResultStepInv
<1>3. ASSUME AdmissionStep, UNCHANGED resultVars PROVE Inv'
  <2>1. server' \in {"up", "down"}
    BY <1>3, AdmissionStepRow DEF ResultInv
  <2>2. ResultInv'
    BY <1>3, <2>1, AdmissionStepRow, RowStepKeepsResults
  <2>3. QED
    BY <1>3, <2>2, AdmissionStepInv
<1>4. ASSUME RowStep, UNCHANGED <<resultVars, admissionVars>> PROVE Inv'
  <2>1. /\ server' \in {"up", "down"}
        /\ \/ state' = state
           \/ state \in {"Ready", "Running"} /\ state' \in {"Running", "Abandoned"}
    BY <1>4 DEF RowStep, Abandon, HeartbeatTimeout, ServerDies, ResultInv
  <2>2. QED
    BY <1>1, <1>4, <2>1, RowStepKeepsResults
<1>5. ASSUME UNCHANGED vars PROVE Inv'
  <2>1. UNCHANGED <<rowVars, resultVars, admissionVars>>
    BY <1>5 DEF vars
  <2>2. server' \in {"up", "down"} /\ state' = state
    BY <2>1 DEF ResultInv, rowVars
  <2>3. QED
    BY <1>1, <2>1, <2>2, RowStepKeepsResults
<1>6. QED
  BY <1>2, <1>3, <1>4, <1>5 DEF Next

(***************************************************************************)
(* Every reachable state has its types and is consistent, for any roster,  *)
(* any number of overlapping calls, sequences and payloads, any clock.     *)
(***************************************************************************)
THEOREM Invariance == Spec => []Inv
<1>1. QED
  BY InitInv, StepInv, PTL DEF Spec

(***************************************************************************)
(* Type correctness of match row, results, calls, restrictions and claims. *)
(***************************************************************************)
THEOREM TypeCorrect == Spec => []TypeOK
<1>1. Inv => TypeOK
  BY DEF Inv, ResultInv, TypeOK
<1>2. QED
  BY <1>1, Invariance, PTL

(***************************************************************************)
(* ResultFinalizer.Submit: for every number of servers, sequences and      *)
(* payloads, retries after lost answers and concurrent submissions leave   *)
(* a match with one stored result.                                         *)
(***************************************************************************)
THEOREM ResultIsUnique == Spec => []OneResult
<1>1. Inv => OneResult
  BY DEF Inv, ResultInv
<1>2. QED
  BY <1>1, Invariance, PTL

(***************************************************************************)
(* Result, state and rewards are one commit, against a player's abandon,   *)
(* the heartbeat timeout and the death of the server: the roster is paid   *)
(* once for the stored result, and an abandoned match pays nothing.        *)
(***************************************************************************)
THEOREM RewardsFollowResults == Spec => []ResultPaysOnce
<1>1. Inv => ResultPaysOnce
  BY DEF Inv, ResultInv
<1>2. QED
  BY <1>1, Invariance, PTL

(***************************************************************************)
(* The game server's retry loop ends only with an answer that is true: the *)
(* result it shuts down for is in the table as it was sent.                *)
(***************************************************************************)
THEOREM AcknowledgementIsTrue == Spec => []AcknowledgedIsStored
<1>1. Inv => AcknowledgedIsStored
  BY DEF Inv, ResultInv
<1>2. QED
  BY <1>1, Invariance, PTL

(***************************************************************************)
(* RecordResultConflict: a match is disputed if and only if a result and a *)
(* different one for the same sequence are on record, although the refusal *)
(* and the record of the conflict are two transactions.                    *)
(***************************************************************************)
THEOREM DisputesAreFounded == Spec => []DisputesHaveEvidence
<1>1. Inv => DisputesHaveEvidence
  BY DEF Inv, ResultInv
<1>2. QED
  BY <1>1, Invariance, PTL

(***************************************************************************)
(* AuthorizeJoin of the game server: by a claim of the command nobody gets *)
(* in who has been barred for TTL and MaxDelay, whatever restrictions,     *)
(* claims and clocks come between the check and the join.                  *)
(***************************************************************************)
THEOREM Exclusion == Spec => BarredIsKeptOut
<1>1. ASSUME Inv, [Next]_vars, NEW p \in Joiners,
             join = NoJoin, join' = [player |-> p, way |-> "command"], Barred(p)
      PROVE  clock < since[p] + MaxDelay + TTL
  <2>1. join' # join
    BY <1>1 DEF NoJoin
  <2>2. PICK q \in Joiners, w \in Ways : AuthorizeJoin(q, w)
    BY <1>1, <2>1 DEF Next, vars, admissionVars, AdmissionStep, Restrict, Unrestrict,
         IssueJoinClaim, CheckRestriction, IssueJoinClaimTx, StartJoin, StartFails, Tick
  <2>3. q = p /\ w = "command"
    BY <1>1, <2>2 DEF AuthorizeJoin
  <2>4. exp[p]["command"] > clock
    BY <2>2, <2>3 DEF AuthorizeJoin, ClaimIsValid
  <2>5. exp[p]["command"] <= since[p] + MaxDelay + TTL
    BY <1>1 DEF Inv, ClaimInv
  <2>6. exp[p]["command"] \in Nat /\ clock \in Nat /\ since[p] \in Nat
    BY <1>1 DEF Inv, AdmissionTypeOK, Ways
  <2>7. QED
    BY <2>4, <2>5, <2>6
<1>2. Inv /\ [Next]_vars =>
        [ \A p \in Joiners :
            join = NoJoin /\ join' = [player |-> p, way |-> "command"] /\ Barred(p)
              => clock < since[p] + MaxDelay + TTL ]_<<rowVars, admissionVars>>
  BY <1>1
<1>3. QED
  BY <1>2, Invariance, PTL DEF Spec, BarredIsKeptOut
=============================================================================
