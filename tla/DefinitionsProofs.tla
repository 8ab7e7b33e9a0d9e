-------------------------- MODULE DefinitionsProofs --------------------------
(* Proofs about Definitions. *)
EXTENDS Definitions, WellFoundedInduction, TLAPS

USE DefinitionsConstants DEF Requests

Activated == {r \in Revisions : status[r] = "activated"}

(***************************************************************************)
(* The rows: a revision has a status and a body or neither, an approval is *)
(* of a published body and by somebody else than its approver, and what    *)
(* was audited is still what the revision is.                              *)
(***************************************************************************)
RowInv ==
    /\ \A r \in Revisions : (status[r] = None) <=> (body[r] = None)
    /\ \A i \in Requests : approvals[i].by # None =>
         /\ i <= clock
         /\ approvals[i].rev \in Revisions /\ approvals[i].body # None
         /\ approvals[i].body = body[approvals[i].rev]
    /\ \A i \in Requests : approvals[i].approver # None => approvals[i].approver # approvals[i].by
    /\ \A x \in activated : x.body = body[x.rev]

Writing == {"select", "scan", "supersede", "commit"}

(***************************************************************************)
(* What the request of a handler rests on.  A pending row is inserted under*)
(* the request's own time, which nobody else has; what is activated has    *)
(* been found, and in production approved by another, before.              *)
(***************************************************************************)
JobInv(h) ==
    LET q == handler[h]
    IN /\ q.pc # "idle" => q.actor \in Actors /\ q.env \in Environments /\ q.rev \in Revisions
       /\ q.pc \in {"insert", "approve", "answer"} => q.body # None /\ q.body = body[q.rev]
       /\ q.pc = "insert" => /\ q.now \in Requests /\ q.now <= clock
                             /\ approvals[q.now].by = None
       /\ q.pc \in {"scan", "supersede", "commit"} => status[q.rev] # None
       /\ \A r \in q.locked : status[r] # None
       /\ q.pc \in Writing /\ q.via = "http" /\ q.env \in Production => TwoActorsBehind(Record(q))

HandlerInv ==
    /\ \A h \in Handlers : JobInv(h)
    /\ \A g, h \in Handlers :
         handler[g].pc = "insert" /\ handler[h].pc = "insert" /\ handler[g].now = handler[h].now => g = h

(***************************************************************************)
(* While activations do not overlap, one handler at a time is between its  *)
(* first UPDATE and its commit, and what it found is still what is there.  *)
(***************************************************************************)
OverlapInv ==
    ~overlapped =>
      /\ \A g, h \in Handlers :
           handler[g].pc \in {"supersede", "commit"} /\ handler[h].pc \in {"supersede", "commit"} => g = h
      /\ \A h \in Handlers :
           /\ handler[h].pc = "supersede" => handler[h].targets = Activated \ {handler[h].rev}
           /\ handler[h].pc = "commit" => handler[h].locked = Activated \ {handler[h].rev}

Inv ==
    /\ TypeOK /\ RowInv /\ HandlerInv /\ OverlapInv
    /\ PublicationIsFinal /\ EndpointsNeedTwoActors /\ OneActivatedUnlessOverlapped /\ ActiveIsAudited

-----------------------------------------------------------------------------
(* The latest approval *)

\* A set of requests that is not empty has a last one.
LEMMA LastRequest ==
    ASSUME NEW S \in SUBSET Requests, S # {}
    PROVE  \E i \in S : \A j \in S : j <= i
<1> DEFINE before == {n \in Nat : \E i \in S : n = MaxRequests - i}
<1>1. before # {} /\ before \subseteq Nat
  <2>1. PICK i \in S : TRUE
    OBVIOUS
  <2>2. MaxRequests - i \in before
    BY <2>1
  <2>3. QED
    BY <2>2
<1>2. PICK n \in before : \A m \in before : <<m, n>> \notin OpToRel(<, Nat)
  <2> HIDE DEF before
  <2>1. QED
    BY <1>1, NatLessThanWellFounded, WFMin
<1>3. \A m \in before : ~(m < n)
  BY <1>2 DEF OpToRel
<1>4. PICK i \in S : n = MaxRequests - i
  OBVIOUS
<1>5. ASSUME NEW j \in S, j > i PROVE FALSE
  <2>1. MaxRequests - j \in before /\ MaxRequests - j < n
    BY <1>4, <1>5
  <2>2. QED
    BY <1>3, <2>1
<1>6. QED
  BY <1>5

\* ORDER BY created_at DESC LIMIT 1 returns one of the rows, or none.
LEMMA LatestApprovalFacts ==
    ASSUME NEW e, NEW r
    PROVE  /\ LatestApproval(e, r) \in 0 .. MaxRequests
           /\ Of(e, r) # {} => LatestApproval(e, r) \in Of(e, r)
           /\ LatestApproval(e, r) = 0 => Of(e, r) = {}
<1>1. Of(e, r) \subseteq Requests
  BY DEF Of
<1>2. CASE Of(e, r) = {}
  BY <1>2 DEF LatestApproval
<1>3. CASE Of(e, r) # {}
  <2>1. \E i \in Of(e, r) : \A j \in Of(e, r) : j <= i
    BY <1>1, <1>3, LastRequest
  <2>2. LatestApproval(e, r) \in Of(e, r)
    BY <1>3, <2>1 DEF LatestApproval
  <2>3. QED
    BY <1>1, <1>3, <2>2
<1>4. QED
  BY <1>2, <1>3

-----------------------------------------------------------------------------
(* Types *)

\* The fields of a request that is under way.
LEMMA IdleFacts ==
    /\ Idle \in Job
    /\ Idle.pc = "idle" /\ Idle.via = "http" /\ Idle.targets = {} /\ Idle.locked = {}
    /\ NoApproval \in ApprovalRow /\ NoApproval.by = None /\ NoApproval.approver = None
BY DEF Idle, Job, Labels, NoApproval, ApprovalRow

\* A statement of a transaction changes where the request is and what it has found or written.
LEMMA JobUpdate ==
    ASSUME NEW q \in Job, NEW label \in Labels, NEW revs \in SUBSET Revisions
    PROVE  /\ [q EXCEPT !.pc = label] \in Job
           /\ [q EXCEPT !.pc = label, !.targets = revs] \in Job
           /\ [q EXCEPT !.pc = label, !.locked = revs] \in Job
BY DEF Job

\* What an activation begins with.
LEMMA JobStart ==
    ASSUME NEW q \in Job, NEW via \in {"http", "command"},
           NEW a \in Actors, NEW e \in Environments, NEW r \in Revisions
    PROVE  [q EXCEPT !.pc = "select", !.via = via, !.actor = a, !.env = e, !.rev = r] \in Job
BY DEF Job, Labels

\* A row that is approved is still a row.
LEMMA RowUpdate ==
    ASSUME NEW row \in ApprovalRow, NEW a \in Actors
    PROVE  [row EXCEPT !.approver = IF @ = None THEN a ELSE @] \in ApprovalRow
BY DEF ApprovalRow

\* Every step keeps every column and every local variable in its type.
LEMMA TypeStep == TypeOK /\ HandlerInv /\ RowInv /\ [Next]_vars => TypeOK'
<1> SUFFICES ASSUME TypeOK, HandlerInv, RowInv, [Next]_vars PROVE TypeOK'
  OBVIOUS
<1> USE DEF TypeOK, rows, history
<1>1. CASE UNCHANGED vars
  BY <1>1 DEF vars
<1>2. ASSUME NEW h \in Handlers, Finish(h) PROVE handler' \in [Handlers -> Job]
  BY <1>2, IdleFacts DEF Finish
<1>3. ASSUME NEW h \in Handlers, NEW label \in Labels, Goto(h, label) PROVE handler' \in [Handlers -> Job]
  <2>1. [handler[h] EXCEPT !.pc = label] \in Job
    BY JobUpdate
  <2>2. QED
    BY <1>3, <2>1 DEF Goto
<1>4. ASSUME NEW h \in Handlers, NEW r \in Revisions, NEW b \in Bodies, InsertRevision(h, r, b)
      PROVE  TypeOK'
  BY <1>4 DEF InsertRevision, Begin, Statuses
<1>5. ASSUME NEW h \in Handlers, NEW a \in Actors, NEW e \in Environments, NEW r \in Revisions,
             ReadApproval(h, a, e, r)
      PROVE  TypeOK'
  <2> DEFINE i == LatestApproval(e, r)
             q == [Idle EXCEPT !.pc = IF i = 0 THEN "insert" ELSE IF Pending(i) THEN "approve" ELSE "answer",
                         !.actor = a, !.env = e, !.rev = r, !.body = body[r],
                         !.now = clock + 1, !.seen = i]
  <2>1. i \in 0 .. MaxRequests
    BY LatestApprovalFacts
  <2>2. clock' = clock + 1 /\ clock + 1 \in 0 .. MaxRequests
    BY <1>5 DEF ReadApproval, Begin
  <2>3. q \in Job
    BY <2>1, <2>2 DEF Idle, Job, Labels
  <2>4. handler' = [handler EXCEPT ![h] = q]
    BY <1>5 DEF ReadApproval
  <2>5. QED
    BY <1>5, <2>2, <2>3, <2>4 DEF ReadApproval
<1>6. ASSUME NEW h \in Handlers, InsertApproval(h) PROVE TypeOK'
  <2> DEFINE q == handler[h]
             row == [by |-> q.actor, approver |-> None, env |-> q.env, rev |-> q.rev, body |-> q.body]
  <2>1. row \in ApprovalRow
    BY DEF Job, ApprovalRow
  <2>2. approvals' = approvals \/ approvals' = [approvals EXCEPT ![q.now] = row]
    BY <1>6 DEF InsertApproval
  <2> HIDE DEF row
  <2>3. approvals' \in [Requests -> ApprovalRow]
    BY <2>1, <2>2
  <2>4. QED
    BY <1>2, <1>6, <2>3 DEF InsertApproval
<1>7. ASSUME NEW h \in Handlers, ApproveRow(h) PROVE TypeOK'
  <2> DEFINE q == handler[h]
  <2>1. q.actor \in Actors
    BY <1>7 DEF ApproveRow, HandlerInv, JobInv
  <2>2. approvals' \in [Requests -> ApprovalRow]
    <3>1. CASE approvals' = approvals
      BY <3>1
    <3>2. CASE approvals' = [approvals EXCEPT ![q.seen].approver = IF @ = None THEN q.actor ELSE @]
      BY <2>1, <3>2, RowUpdate
    <3>3. QED
      BY <1>7, <3>1, <3>2 DEF ApproveRow
  <2>3. QED
    BY <1>2, <1>7, <2>2 DEF ApproveRow
<1>8. ASSUME NEW h \in Handlers, AnswerApproved(h) \/ Abort(h) PROVE TypeOK'
  BY <1>2, <1>8 DEF AnswerApproved, Abort
<1>9. ASSUME NEW h \in Handlers, NEW a \in Actors, NEW e \in Environments, NEW r \in Revisions,
             HTTPActivate(h, a, e, r) \/ CommandActivate(h, a, e, r)
      PROVE  TypeOK'
  <2>1. ASSUME NEW via \in {"http", "command"}, StartActivation(h, a, e, r, via)
        PROVE  handler' \in [Handlers -> Job]
    <3>1. [Idle EXCEPT !.pc = "select", !.via = via, !.actor = a, !.env = e, !.rev = r] \in Job
      BY IdleFacts, JobStart
    <3>2. QED
      BY <2>1, <3>1 DEF StartActivation
  <2>2. clock' \in 0 .. MaxRequests
    BY <1>9 DEF HTTPActivate, CommandActivate, Begin
  <2>3. QED
    BY <1>9, <2>1, <2>2 DEF HTTPActivate, CommandActivate
<1>10. ASSUME NEW h \in Handlers, SelectRevision(h) PROVE TypeOK'
  BY <1>2, <1>3, <1>10 DEF SelectRevision, Labels
<1>11. ASSUME NEW h \in Handlers, ScanActivated(h) PROVE TypeOK'
  <2> DEFINE q == handler[h]
             found == {r \in Revisions \ {q.rev} : status[r] = "activated"}
  <2>1. [q EXCEPT !.pc = "supersede", !.targets = found] \in Job
    BY JobUpdate DEF Labels
  <2>2. handler' = [handler EXCEPT ![h] = [q EXCEPT !.pc = "supersede", !.targets = found]]
    BY <1>11 DEF ScanActivated
  <2>3. QED
    BY <1>11, <2>1, <2>2 DEF ScanActivated
<1>12. ASSUME NEW h \in Handlers, Supersede(h) PROVE TypeOK'
  <2> DEFINE q == handler[h]
             written == {r \in q.targets : status[r] = "activated"}
  <2>1. written \subseteq Revisions
    BY DEF Job
  <2>2. [q EXCEPT !.pc = "commit", !.locked = written] \in Job
    BY <2>1, JobUpdate DEF Labels
  <2>3. handler' = [handler EXCEPT ![h] = [q EXCEPT !.pc = "commit", !.locked = written]]
    BY <1>12 DEF Supersede
  <2>4. QED
    BY <1>12, <2>2, <2>3 DEF Supersede
<1>13. ASSUME NEW h \in Handlers, CommitActivation(h) PROVE TypeOK'
  <2> DEFINE q == handler[h]
  <2>1. /\ q.actor \in Actors /\ q.env \in Environments /\ q.rev \in Revisions
        /\ q.via \in {"http", "command"} /\ body[q.rev] \in Bodies
    BY <1>13 DEF CommitActivation, HandlerInv, JobInv, RowInv, Job
  <2>2. Record(q) \in [actor : Actors, env : Environments, rev : Revisions,
                       body : Bodies, via : {"http", "command"}]
    BY <2>1 DEF Record
  <2>3. status' \in [Revisions -> Statuses \cup {None}]
    BY <1>13 DEF CommitActivation, Statuses
  <2>4. active' \in [Environments -> [rev : Revisions \cup {None}, by : Actors \cup {None}]]
    BY <1>13, <2>1 DEF CommitActivation
  <2>5. QED
    BY <1>2, <1>13, <2>1, <2>2, <2>3, <2>4 DEF CommitActivation
<1> HIDE DEF TypeOK
<1>14. QED
  BY <1>1, <1>4, <1>5, <1>6, <1>7, <1>8, <1>9, <1>10, <1>11, <1>12, <1>13
     DEF Next, Publish, CommandPublish, Approval, Activation

-----------------------------------------------------------------------------
(* What a step leaves alone *)

\* The step of one handler.
Step(h) ==
    \/ \E r \in Revisions, b \in Bodies : InsertRevision(h, r, b)
    \/ Approval(h) \/ Activation(h) \/ Abort(h)

\* No step of one handler touches the request of another.
LEMMA OthersWait ==
    ASSUME TypeOK, NEW h \in Handlers, Step(h), NEW g \in Handlers, g # h
    PROVE  handler'[g] = handler[g]
<1> USE DEF TypeOK
<1>1. \/ handler' = handler
      \/ \E q : handler' = [handler EXCEPT ![h] = q]
  BY DEF Step, InsertRevision, Approval, ReadApproval, InsertApproval, ApproveRow, AnswerApproved,
         Activation, HTTPActivate, CommandActivate, StartActivation, SelectRevision, ScanActivated,
         Supersede, CommitActivation, Abort, Goto, Finish
<1>2. QED
  BY <1>1

\* Rows are only added and filled in: what was published, asked for, approved or audited stays.
Grows ==
    /\ \A r \in Revisions : /\ body[r] # None => body'[r] = body[r]
                            /\ status[r] # None => status'[r] # None
    /\ \A i \in Requests : approvals[i].by # None =>
         /\ approvals'[i].by = approvals[i].by /\ approvals'[i].env = approvals[i].env
         /\ approvals'[i].rev = approvals[i].rev /\ approvals'[i].body = approvals[i].body
         /\ approvals[i].approver # None => approvals'[i].approver = approvals[i].approver
    /\ clock <= clock'
    /\ activated \subseteq activated'

\* A row of an approval that is filled in keeps the rest of its columns.
LEMMA ApproveKeeps ==
    ASSUME NEW row \in ApprovalRow, NEW a
    PROVE  LET new == [row EXCEPT !.approver = IF @ = None THEN a ELSE @]
           IN /\ new.by = row.by /\ new.env = row.env /\ new.rev = row.rev /\ new.body = row.body
              /\ new.approver = IF row.approver = None THEN a ELSE row.approver
BY DEF ApprovalRow

\* ApproveRow writes one row, and only a pending one.
LEMMA ApproveEffect ==
    ASSUME TypeOK, NEW h \in Handlers, ApproveRow(h), NEW i \in Requests
    PROVE  /\ approvals'[i].by = approvals[i].by /\ approvals'[i].env = approvals[i].env
           /\ approvals'[i].rev = approvals[i].rev /\ approvals'[i].body = approvals[i].body
           /\ \/ approvals'[i].approver = approvals[i].approver
              \/ /\ approvals[i].approver = None
                 /\ approvals'[i].approver = handler[h].actor
                 /\ approvals'[i].approver # approvals[i].by
<1> DEFINE q == handler[h]
<1>1. CASE approvals' = approvals
  BY <1>1
<1>2. CASE /\ approvals[q.seen].by # q.actor
           /\ approvals' = [approvals EXCEPT ![q.seen].approver = IF @ = None THEN q.actor ELSE @]
  <2>1. approvals[i] \in ApprovalRow
    BY DEF TypeOK
  <2>2. CASE i = q.seen
    <3>1. approvals'[i] = [approvals[i] EXCEPT !.approver = IF @ = None THEN q.actor ELSE @]
      BY <1>2, <2>2 DEF TypeOK
    <3>2. QED
      BY <1>2, <2>1, <2>2, <3>1, ApproveKeeps
  <2>3. CASE i # q.seen
    BY <1>2, <2>3 DEF TypeOK
  <2>4. QED
    BY <2>2, <2>3
<1>3. QED
  BY <1>1, <1>2 DEF ApproveRow

\* InsertApproval writes a row under its own time, which is of no other row.
LEMMA InsertEffect ==
    ASSUME TypeOK, HandlerInv, NEW h \in Handlers, InsertApproval(h), NEW i \in Requests
    PROVE  \/ approvals'[i] = approvals[i]
           \/ /\ i = handler[h].now /\ approvals[i].by = None
              /\ approvals'[i] = [by |-> handler[h].actor, approver |-> None, env |-> handler[h].env,
                                  rev |-> handler[h].rev, body |-> handler[h].body]
<1>1. handler[h].pc = "insert" /\ approvals[handler[h].now].by = None
  BY DEF InsertApproval, HandlerInv, JobInv
<1>2. QED
  BY <1>1 DEF InsertApproval, TypeOK

\* Every step of every handler only adds and fills in.
LEMMA StepGrows ==
    ASSUME TypeOK, RowInv, HandlerInv, NEW h \in Handlers, Step(h)
    PROVE  Grows
<1> USE DEF rows, history
<1>0. clock \in Nat
  BY DEF TypeOK
<1>1. CASE \E r \in Revisions, b \in Bodies : InsertRevision(h, r, b)
  <2>1. /\ \A r \in Revisions : body[r] # None => body'[r] = body[r]
        /\ \A r \in Revisions : status[r] # None => status'[r] # None
    BY <1>1 DEF InsertRevision, TypeOK
  <2>2. clock' = clock + 1 /\ UNCHANGED <<approvals, activated>>
    BY <1>1 DEF InsertRevision, Begin
  <2>3. QED
    BY <1>0, <2>1, <2>2 DEF Grows
<1>2. CASE \E a \in Actors, e \in Environments, r \in Revisions : ReadApproval(h, a, e, r)
  BY <1>0, <1>2 DEF ReadApproval, Begin, Grows
<1>3. CASE InsertApproval(h)
  BY <1>0, <1>3, InsertEffect DEF InsertApproval, Grows
<1>4. CASE ApproveRow(h)
  BY <1>0, <1>4, ApproveEffect DEF ApproveRow, Grows
<1>5. CASE AnswerApproved(h) \/ Abort(h)
  BY <1>0, <1>5 DEF AnswerApproved, Abort, Grows
<1>6. CASE \E a \in Actors, e \in Environments, r \in Revisions :
             HTTPActivate(h, a, e, r) \/ CommandActivate(h, a, e, r)
  BY <1>0, <1>6 DEF HTTPActivate, CommandActivate, Begin, Grows
<1>7. CASE SelectRevision(h) \/ ScanActivated(h) \/ Supersede(h)
  BY <1>0, <1>7 DEF SelectRevision, ScanActivated, Supersede, Grows
<1>8. CASE CommitActivation(h)
  <2>1. \A r \in Revisions : status[r] # None => status'[r] # None
    BY <1>8 DEF CommitActivation, Statuses
  <2>2. UNCHANGED <<body, approvals, clock>> /\ activated \subseteq activated'
    BY <1>8 DEF CommitActivation
  <2>3. QED
    BY <1>0, <2>1, <2>2 DEF Grows
<1>9. QED
  BY <1>1, <1>2, <1>3, <1>4, <1>5, <1>6, <1>7, <1>8 DEF Step, Approval, Activation

\* Once two people stand behind an activation, they always do.
LEMMA BehindStays ==
    ASSUME Grows, NEW x, TwoActorsBehind(x)
    PROVE  TwoActorsBehind(x)'
BY DEF Grows, TwoActorsBehind, Of

-----------------------------------------------------------------------------
(* The rows *)

\* A step keeps RowInv.
LEMMA RowStep ==
    ASSUME TypeOK, RowInv, HandlerInv, NEW h \in Handlers, Step(h)
    PROVE  RowInv'
<1> USE DEF rows, history
<1>0. clock \in Nat /\ Grows
  BY StepGrows DEF TypeOK
<1>1. ASSUME UNCHANGED <<rows, activated>>, clock <= clock', clock' \in Nat PROVE RowInv'
  BY <1>0, <1>1 DEF RowInv
<1>2. CASE \E r \in Revisions, b \in Bodies : InsertRevision(h, r, b)
  <2>1. PICK r \in Revisions, b \in Bodies : InsertRevision(h, r, b)
    BY <1>2
  <2>2. \A s \in Revisions : (status'[s] = None) <=> (body'[s] = None)
    BY <2>1 DEF InsertRevision, TypeOK, RowInv, Statuses
  <2>3. clock' = clock + 1 /\ UNCHANGED <<approvals, activated>>
    BY <2>1 DEF InsertRevision, Begin
  <2>4. \A x \in activated : x.rev \in Revisions /\ x.body # None
    BY DEF TypeOK
  <2>5. QED
    BY <1>0, <2>2, <2>3, <2>4 DEF RowInv, Grows
<1>3. CASE \E a \in Actors, e \in Environments, r \in Revisions :
             \/ ReadApproval(h, a, e, r)
             \/ HTTPActivate(h, a, e, r) \/ CommandActivate(h, a, e, r)
  <2>1. clock' = clock + 1 /\ UNCHANGED <<rows, activated>>
    BY <1>3 DEF ReadApproval, HTTPActivate, CommandActivate, Begin
  <2>2. QED
    BY <1>0, <1>1, <2>1
<1>4. CASE InsertApproval(h)
  <2> DEFINE q == handler[h]
  <2>1. /\ q.rev \in Revisions /\ q.body # None /\ q.body = body[q.rev] /\ q.now <= clock
        /\ UNCHANGED <<status, body, clock, activated>>
    BY <1>4 DEF InsertApproval, HandlerInv, JobInv
  <2>2. \A i \in Requests : approvals'[i].by # None =>
           /\ i <= clock
           /\ approvals'[i].rev \in Revisions /\ approvals'[i].body # None
           /\ approvals'[i].body = body[approvals'[i].rev]
    <3> SUFFICES ASSUME NEW i \in Requests, approvals'[i].by # None
                 PROVE  /\ i <= clock
                        /\ approvals'[i].rev \in Revisions /\ approvals'[i].body # None
                        /\ approvals'[i].body = body[approvals'[i].rev]
      OBVIOUS
    <3>1. CASE approvals'[i] = approvals[i]
      BY <3>1 DEF RowInv
    <3>2. CASE /\ i = q.now
               /\ approvals'[i] = [by |-> q.actor, approver |-> None, env |-> q.env, rev |-> q.rev, body |-> q.body]
      BY <2>1, <3>2
    <3>3. QED
      BY <1>4, <3>1, <3>2, InsertEffect
  <2>3. \A i \in Requests : approvals'[i].approver # None => approvals'[i].approver # approvals'[i].by
    <3> SUFFICES ASSUME NEW i \in Requests, approvals'[i].approver # None
                 PROVE  approvals'[i].approver # approvals'[i].by
      OBVIOUS
    <3>1. CASE approvals'[i] = approvals[i]
      BY <3>1 DEF RowInv
    <3>2. CASE approvals'[i] = [by |-> q.actor, approver |-> None, env |-> q.env, rev |-> q.rev, body |-> q.body]
      BY <3>2
    <3>3. QED
      BY <1>4, <3>1, <3>2, InsertEffect
  <2>4. QED
    BY <2>1, <2>2, <2>3 DEF RowInv
<1>5. CASE ApproveRow(h)
  <2>1. UNCHANGED <<status, body, clock, activated>>
    BY <1>5 DEF ApproveRow
  <2>2. QED
    BY <1>5, <2>1, ApproveEffect DEF RowInv
<1>6. CASE AnswerApproved(h) \/ Abort(h) \/ SelectRevision(h) \/ ScanActivated(h) \/ Supersede(h)
  BY <1>0, <1>1, <1>6 DEF AnswerApproved, Abort, SelectRevision, ScanActivated, Supersede
<1>7. CASE CommitActivation(h)
  <2> DEFINE q == handler[h]
  <2>1. /\ q.rev \in Revisions /\ status[q.rev] # None /\ \A r \in q.locked : status[r] # None
        /\ UNCHANGED <<body, approvals, clock>> /\ activated' = activated \cup {Record(q)}
    BY <1>7 DEF CommitActivation, HandlerInv, JobInv
  <2>2. \A r \in Revisions : (status'[r] = None) <=> (body[r] = None)
    BY <1>7, <2>1 DEF CommitActivation, RowInv, Statuses
  <2>3. Record(q).body = body[Record(q).rev]
    BY DEF Record
  <2>4. QED
    BY <2>1, <2>2, <2>3 DEF RowInv
<1>8. QED
  BY <1>2, <1>3, <1>4, <1>5, <1>6, <1>7 DEF Step, Approval, Activation

\* What other handlers do leaves a request with what it rests on.
LEMMA JobStays ==
    ASSUME TypeOK, RowInv, HandlerInv, Grows, clock' \in Nat, NEW g \in Handlers,
           handler'[g] = handler[g],
           handler[g].pc = "insert" => approvals'[handler[g].now].by = None
    PROVE  JobInv(g)'
<1> DEFINE q == handler[g]
<1>1. JobInv(g) /\ q.locked \subseteq Revisions /\ clock \in Nat /\ q.now \in Nat
  BY DEF HandlerInv, TypeOK, Job
<1>2. q.pc # "idle" => q.actor \in Actors /\ q.env \in Environments /\ q.rev \in Revisions
  BY <1>1 DEF JobInv
<1>3. q.pc \in {"insert", "approve", "answer"} => q.body # None /\ q.body = body'[q.rev]
  BY <1>1, <1>2 DEF JobInv, Grows
<1>4. q.pc = "insert" => q.now \in Requests /\ q.now <= clock'
  BY <1>1 DEF JobInv, Grows
<1>5. /\ q.pc \in {"scan", "supersede", "commit"} => status'[q.rev] # None
      /\ \A r \in q.locked : status'[r] # None
  BY <1>1, <1>2 DEF JobInv, Grows
<1>6. ASSUME q.pc \in Writing /\ q.via = "http" /\ q.env \in Production
      PROVE  TwoActorsBehind(Record(q))'
  <2>1. q.rev \in Revisions /\ TwoActorsBehind(Record(q))
    BY <1>1, <1>6 DEF JobInv, Writing
  <2>2. PICK i \in Of(q.env, q.rev) : /\ approvals[i].approver \notin {None, approvals[i].by, q.actor}
                                      /\ approvals[i].body = body[q.rev]
    BY <2>1 DEF TwoActorsBehind, Record
  <2>3. i \in Requests /\ approvals[i].by # None /\ approvals[i].env = q.env /\ approvals[i].rev = q.rev
    BY <2>2 DEF Of
  <2>4. body[q.rev] # None
    BY <2>2, <2>3 DEF RowInv
  <2>5. /\ approvals'[i].by = approvals[i].by /\ approvals'[i].env = q.env /\ approvals'[i].rev = q.rev
        /\ approvals'[i].body = approvals[i].body /\ approvals'[i].approver = approvals[i].approver
        /\ body'[q.rev] = body[q.rev]
    BY <2>1, <2>2, <2>3, <2>4 DEF Grows
  <2>6. handler'[g].env = q.env /\ handler'[g].rev = q.rev /\ handler'[g].actor = q.actor
    OBVIOUS
  <2>7. QED
    BY <2>2, <2>3, <2>5, <2>6 DEF TwoActorsBehind, Of, Record
<1>7. QED
  BY <1>2, <1>3, <1>4, <1>5, <1>6 DEF JobInv

-----------------------------------------------------------------------------
(* The requests *)

\* The job of a handler that ends rests on nothing.
LEMMA IdleJob ==
    ASSUME NEW h \in Handlers, handler'[h] = Idle
    PROVE  JobInv(h)'
BY IdleFacts DEF JobInv, Writing

\* A request keeps who it is of when it goes on, and its locks until it commits.
LEMMA JobFields ==
    ASSUME NEW q \in Job, NEW label \in Labels, NEW revs \in SUBSET Revisions
    PROVE  /\ LET p == [q EXCEPT !.pc = label]
              IN /\ p.pc = label /\ p.via = q.via /\ p.actor = q.actor /\ p.env = q.env /\ p.rev = q.rev
                 /\ p.locked = q.locked
           /\ LET p == [q EXCEPT !.pc = label, !.targets = revs]
              IN /\ p.pc = label /\ p.via = q.via /\ p.actor = q.actor /\ p.env = q.env /\ p.rev = q.rev
                 /\ p.locked = q.locked /\ p.targets = revs
           /\ LET p == [q EXCEPT !.pc = label, !.locked = revs]
              IN /\ p.pc = label /\ p.via = q.via /\ p.actor = q.actor /\ p.env = q.env /\ p.rev = q.rev
                 /\ p.locked = revs
BY DEF Job

\* An activation goes on with what it began with while the rows stay.
LEMMA WritingGoesOn ==
    ASSUME TypeOK, HandlerInv, NEW h \in Handlers, handler[h].pc \in Writing, UNCHANGED <<rows, clock>>,
           handler'[h].pc \in {"scan", "supersede", "commit"},
           handler'[h].via = handler[h].via, handler'[h].actor = handler[h].actor,
           handler'[h].env = handler[h].env, handler'[h].rev = handler[h].rev,
           status[handler[h].rev] # None,
           \A r \in handler'[h].locked : status[r] # None
    PROVE  JobInv(h)'
<1>1. JobInv(h)
  BY DEF HandlerInv
<1>2. handler[h].via = "http" /\ handler[h].env \in Production => TwoActorsBehind(Record(handler[h]))'
  BY <1>1 DEF JobInv, TwoActorsBehind, Record, Of, rows
<1>3. QED
  BY <1>1, <1>2 DEF JobInv, Writing, rows

\* Every step leaves every request with what it rests on.
LEMMA HandlerStep ==
    ASSUME TypeOK, RowInv, HandlerInv, NEW h \in Handlers, Step(h), clock' \in Nat
    PROVE  HandlerInv'
<1> DEFINE q == handler[h]
           Same == /\ handler'[h].via = q.via /\ handler'[h].actor = q.actor
                   /\ handler'[h].env = q.env /\ handler'[h].rev = q.rev
<1> USE DEF rows, history
<1>0. /\ clock \in Nat /\ Grows /\ q \in Job /\ JobInv(h) /\ handler \in [Handlers -> Job]
      /\ \A g \in Handlers \ {h} : handler'[g] = handler[g]
  BY StepGrows, OthersWait DEF TypeOK, HandlerInv
<1>1. ASSUME \A g \in Handlers \ {h} : handler[g].pc = "insert" => approvals'[handler[g].now].by = None
      PROVE  \A g \in Handlers \ {h} : JobInv(g)'
  BY <1>0, <1>1, JobStays
<1>2. ASSUME handler'[h] = Idle \/ handler'[h].pc # "insert" PROVE
        \A f, g \in Handlers : handler'[f].pc = "insert" /\ handler'[g].pc = "insert"
                              /\ handler'[f].now = handler'[g].now => f = g
  BY <1>0, <1>2, IdleFacts DEF HandlerInv
<1>3. ASSUME UNCHANGED approvals, JobInv(h)', handler'[h] = Idle \/ handler'[h].pc # "insert"
      PROVE  HandlerInv'
  <2>1. \A g \in Handlers \ {h} : JobInv(g)'
    BY <1>0, <1>1, <1>3 DEF HandlerInv, JobInv
  <2>2. QED
    BY <1>2, <1>3, <2>1 DEF HandlerInv
<1>4. ASSUME UNCHANGED approvals, Finish(h) PROVE HandlerInv'
  <2>1. handler'[h] = Idle
    BY <1>0, <1>4 DEF Finish
  <2>2. QED
    BY <1>3, <1>4, <2>1, IdleJob
<1>5. CASE \E r \in Revisions, b \in Bodies : InsertRevision(h, r, b)
  <2>1. handler' = handler /\ q = Idle /\ UNCHANGED approvals
    BY <1>5 DEF InsertRevision, Begin
  <2>2. QED
    BY <1>3, <2>1, IdleJob
<1>6. CASE \E a \in Actors, e \in Environments, r \in Revisions : ReadApproval(h, a, e, r)
  <2>1. PICK a \in Actors, e \in Environments, r \in Revisions : ReadApproval(h, a, e, r)
    BY <1>6
  <2> DEFINE p == handler'[h]
  <2>2. /\ clock' = clock + 1 /\ clock + 1 \in Requests /\ UNCHANGED <<rows, history>>
        /\ status[r] # None /\ body[r] # None
    BY <1>0, <2>1 DEF ReadApproval, Begin, RowInv, Statuses, TypeOK
  <2>3. /\ p.pc \in {"insert", "approve", "answer"} /\ p.actor = a /\ p.env = e /\ p.rev = r
        /\ p.body = body[r] /\ p.now = clock + 1 /\ p.locked = {}
    BY <1>0, <2>1 DEF ReadApproval, Idle
  <2>4. approvals[clock + 1].by = None
    BY <1>0, <2>2 DEF RowInv
  <2>5. JobInv(h)'
    BY <1>0, <2>2, <2>3, <2>4 DEF JobInv, Writing
  <2>6. \A g \in Handlers \ {h} : JobInv(g)' /\ (handler[g].pc = "insert" => handler[g].now # clock + 1)
    <3>1. \A g \in Handlers \ {h} : handler[g].pc = "insert" =>
             approvals[handler[g].now].by = None /\ handler[g].now \in Nat /\ handler[g].now <= clock
      BY DEF HandlerInv, JobInv
    <3>2. QED
      BY <1>0, <1>1, <2>2, <3>1
  <2>7. \A f, g \in Handlers : handler'[f].pc = "insert" /\ handler'[g].pc = "insert"
                              /\ handler'[f].now = handler'[g].now => f = g
    BY <1>0, <2>3, <2>6 DEF HandlerInv
  <2>8. QED
    BY <2>5, <2>6, <2>7 DEF HandlerInv
<1>7. CASE InsertApproval(h)
  <2>1. handler'[h] = Idle
    BY <1>0, <1>7 DEF InsertApproval, Finish
  <2>2. \A g \in Handlers \ {h} : handler[g].pc = "insert" => approvals'[handler[g].now].by = None
    <3> SUFFICES ASSUME NEW g \in Handlers \ {h}, handler[g].pc = "insert"
                 PROVE  approvals'[handler[g].now].by = None
      OBVIOUS
    <3>1. handler[g].now \in Requests /\ approvals[handler[g].now].by = None /\ handler[g].now # q.now
      BY <1>7 DEF HandlerInv, JobInv, InsertApproval
    <3>2. approvals'[handler[g].now] = approvals[handler[g].now]
      BY <1>7, <3>1, InsertEffect
    <3>3. QED
      BY <3>1, <3>2
  <2>3. QED
    BY <1>1, <1>2, <2>1, <2>2, IdleJob DEF HandlerInv
<1>8. CASE ApproveRow(h)
  <2>1. handler'[h] = Idle
    BY <1>0, <1>8 DEF ApproveRow, Finish
  <2>2. \A g \in Handlers \ {h} : handler[g].pc = "insert" => approvals'[handler[g].now].by = None
    BY <1>8, ApproveEffect DEF HandlerInv, JobInv
  <2>3. QED
    BY <1>1, <1>2, <2>1, <2>2, IdleJob DEF HandlerInv
<1>9. CASE AnswerApproved(h) \/ Abort(h) \/ CommitActivation(h)
  BY <1>4, <1>9 DEF AnswerApproved, Abort, CommitActivation
<1>10. ASSUME NEW a \in Actors, NEW e \in Environments, NEW r \in Revisions,
              HTTPActivate(h, a, e, r) \/ CommandActivate(h, a, e, r)
       PROVE  HandlerInv'
  <2> DEFINE p == handler'[h]
  <2>1. /\ p.pc = "select" /\ p.actor = a /\ p.env = e /\ p.rev = r /\ p.locked = {}
        /\ UNCHANGED rows
    <3>1. PICK via \in {"http", "command"} : StartActivation(h, a, e, r, via)
      BY <1>10 DEF HTTPActivate, CommandActivate
    <3>2. p = [Idle EXCEPT !.pc = "select", !.via = via, !.actor = a, !.env = e, !.rev = r]
      BY <1>0, <3>1 DEF StartActivation
    <3>3. UNCHANGED rows
      BY <1>10 DEF HTTPActivate, CommandActivate
    <3>4. QED
      BY <3>2, <3>3 DEF Idle
  <2>2. ASSUME p.via = "http", e \in Production PROVE TwoActorsBehind(Record(handler[h]))'
    <3>1. HTTPActivate(h, a, e, r)
      BY <1>0, <1>10, <2>2 DEF CommandActivate, StartActivation, Idle
    <3>2. PICK i \in Of(e, r) : approvals[i].approver \notin {None, a} /\ approvals[i].body = body[r]
      BY <2>2, <3>1 DEF HTTPActivate, HasApprovedActivation
    <3>3. approvals[i].approver # approvals[i].by
      BY <3>2 DEF RowInv, Of
    <3>4. QED
      BY <2>1, <3>2, <3>3 DEF TwoActorsBehind, Of, Record
  <2>3. JobInv(h)'
    BY <2>1, <2>2 DEF JobInv, Writing
  <2>4. QED
    BY <1>3, <2>1, <2>3
<1>11. CASE SelectRevision(h)
  <2>1. CASE Finish(h)
    BY <1>4, <1>11, <2>1 DEF SelectRevision
  <2>2. CASE status[q.rev] \in Activatable(q.via) /\ Goto(h, "scan")
    <3>1. status[q.rev] # None
      BY <2>2 DEF Activatable, Statuses
    <3>2. handler'[h] = [q EXCEPT !.pc = "scan"]
      BY <1>0, <2>2 DEF Goto
    <3>3. handler'[h].pc = "scan" /\ Same /\ handler'[h].locked = q.locked
      BY <1>0, <3>2, JobFields DEF Labels
    <3>4. q.pc \in Writing /\ UNCHANGED <<rows, clock>> /\ \A r \in q.locked : status[r] # None
      BY <1>0, <1>11 DEF SelectRevision, Writing, JobInv
    <3>5. JobInv(h)'
      BY <3>1, <3>3, <3>4, WritingGoesOn
    <3>6. QED
      BY <1>3, <3>3, <3>4, <3>5
  <2>3. QED
    BY <1>11, <2>1, <2>2 DEF SelectRevision
<1>12. CASE ScanActivated(h)
  <2> DEFINE found == {r \in Revisions \ {q.rev} : status[r] = "activated"}
  <2>1. handler'[h] = [q EXCEPT !.pc = "supersede", !.targets = found]
    BY <1>0, <1>12 DEF ScanActivated
  <2>2. handler'[h].pc = "supersede" /\ Same /\ handler'[h].locked = q.locked
    BY <1>0, <2>1, JobFields DEF Labels
  <2>3. /\ q.pc \in Writing /\ UNCHANGED <<rows, clock>> /\ status[q.rev] # None
        /\ \A r \in q.locked : status[r] # None
    BY <1>0, <1>12 DEF ScanActivated, Writing, JobInv
  <2>4. JobInv(h)'
    BY <2>2, <2>3, WritingGoesOn
  <2>5. QED
    BY <1>3, <2>2, <2>3, <2>4
<1>13. CASE Supersede(h)
  <2> DEFINE written == {r \in q.targets : status[r] = "activated"}
  <2>1. handler'[h] = [q EXCEPT !.pc = "commit", !.locked = written]
    BY <1>0, <1>13 DEF Supersede
  <2>2. written \subseteq Revisions /\ \A r \in written : status[r] # None
    BY <1>0 DEF Job, Statuses
  <2> HIDE DEF written
  <2>3. handler'[h].pc = "commit" /\ Same /\ handler'[h].locked = written
    BY <1>0, <2>1, <2>2, JobFields DEF Labels
  <2>4. q.pc \in Writing /\ UNCHANGED <<rows, clock>> /\ status[q.rev] # None
    BY <1>0, <1>13 DEF Supersede, Writing, JobInv
  <2>5. JobInv(h)'
    BY <2>2, <2>3, <2>4, WritingGoesOn
  <2>6. QED
    BY <1>3, <2>3, <2>4, <2>5
<1>14. QED
  BY <1>5, <1>6, <1>7, <1>8, <1>9, <1>10, <1>11, <1>12, <1>13 DEF Step, Approval, Activation

-----------------------------------------------------------------------------
(* What is activated *)

\* Only a commit activates a revision or takes that from one.
LEMMA StatusSteps ==
    ASSUME TypeOK, NEW h \in Handlers, Step(h), ~CommitActivation(h)
    PROVE  UNCHANGED <<latest, active, activated>> /\ Activated' = Activated
<1> USE DEF rows, history
<1>1. CASE \E r \in Revisions, b \in Bodies : InsertRevision(h, r, b)
  <2>1. \A s \in Revisions : (status'[s] = "activated") <=> (status[s] = "activated")
    BY <1>1 DEF InsertRevision, TypeOK, Statuses
  <2>2. QED
    BY <1>1, <2>1 DEF InsertRevision, Activated
<1>2. CASE Approval(h) \/ Activation(h) \/ Abort(h)
  <2>1. UNCHANGED <<status, latest, active, activated>>
    BY <1>2 DEF Approval, ReadApproval, InsertApproval, ApproveRow, AnswerApproved, Activation,
                HTTPActivate, CommandActivate, SelectRevision, ScanActivated, Supersede, Abort
  <2>2. QED
    BY <2>1 DEF Activated
<1>3. QED
  BY <1>1, <1>2 DEF Step

Updating == {"supersede", "commit"}

\* Only the two UPDATEs bring a handler between its first UPDATE and its commit.
LEMMA UpdatingSteps ==
    ASSUME TypeOK, NEW h \in Handlers, Step(h), ~ScanActivated(h), ~Supersede(h)
    PROVE  handler'[h].pc \notin Updating /\ overlapped' = overlapped
<1> USE DEF rows, history
<1>0. handler \in [Handlers -> Job]
  BY DEF TypeOK
<1>1. ASSUME Finish(h) PROVE handler'[h].pc \notin Updating
  BY <1>0, <1>1, IdleFacts DEF Finish, Updating
<1>2. CASE \E r \in Revisions, b \in Bodies : InsertRevision(h, r, b)
  BY <1>2, IdleFacts DEF InsertRevision, Begin, Updating
<1>3. CASE \E a \in Actors, e \in Environments, r \in Revisions : ReadApproval(h, a, e, r)
  <2>1. handler'[h].pc \in {"insert", "approve", "answer"} /\ overlapped' = overlapped
    BY <1>0, <1>3 DEF ReadApproval, Idle
  <2>2. QED
    BY <2>1 DEF Updating
<1>4. CASE InsertApproval(h) \/ ApproveRow(h) \/ AnswerApproved(h) \/ Abort(h) \/ CommitActivation(h)
  BY <1>1, <1>4 DEF InsertApproval, ApproveRow, AnswerApproved, Abort, CommitActivation
<1>5. CASE \E a \in Actors, e \in Environments, r \in Revisions :
             HTTPActivate(h, a, e, r) \/ CommandActivate(h, a, e, r)
  <2>1. handler'[h].pc = "select" /\ overlapped' = overlapped
    BY <1>0, <1>5 DEF HTTPActivate, CommandActivate, StartActivation, Idle
  <2>2. QED
    BY <2>1 DEF Updating
<1>6. CASE SelectRevision(h)
  <2>1. CASE Finish(h)
    BY <1>1, <1>6, <2>1 DEF SelectRevision
  <2>2. CASE Goto(h, "scan")
    <3>1. handler'[h] = [handler[h] EXCEPT !.pc = "scan"]
      BY <1>0, <2>2 DEF Goto
    <3>2. QED
      BY <1>0, <1>6, <3>1, JobFields DEF SelectRevision, Labels, Updating
  <2>3. QED
    BY <1>6, <2>1, <2>2 DEF SelectRevision
<1>7. QED
  BY <1>2, <1>3, <1>4, <1>5, <1>6 DEF Step, Approval, Activation

\* While activations do not overlap, what one has found stays what is there until it commits.
LEMMA OverlapStep ==
    ASSUME TypeOK, OverlapInv, NEW h \in Handlers, Step(h)
    PROVE  OverlapInv'
<1> SUFFICES ASSUME ~overlapped'
             PROVE  /\ \A f, g \in Handlers :
                         handler'[f].pc \in Updating /\ handler'[g].pc \in Updating => f = g
                    /\ \A g \in Handlers :
                         /\ handler'[g].pc = "supersede" => handler'[g].targets = Activated' \ {handler'[g].rev}
                         /\ handler'[g].pc = "commit" => handler'[g].locked = Activated' \ {handler'[g].rev}
  BY DEF OverlapInv, Updating
<1> DEFINE q == handler[h]
<1> USE DEF rows, history
<1>0. /\ handler \in [Handlers -> Job] /\ q \in Job
      /\ \A g \in Handlers \ {h} : handler'[g] = handler[g]
  BY OthersWait DEF TypeOK
<1>1. /\ ~overlapped
      /\ \A f, g \in Handlers : handler[f].pc \in Updating /\ handler[g].pc \in Updating => f = g
      /\ \A g \in Handlers :
           /\ handler[g].pc = "supersede" => handler[g].targets = Activated \ {handler[g].rev}
           /\ handler[g].pc = "commit" => handler[g].locked = Activated \ {handler[g].rev}
  <2>1. ~overlapped
    BY UpdatingSteps DEF ScanActivated, Supersede
  <2>2. QED
    BY <2>1 DEF OverlapInv, Updating
<1>2. CASE ScanActivated(h)
  <2> DEFINE found == {r \in Revisions \ {q.rev} : status[r] = "activated"}
  <2>1. handler'[h] = [q EXCEPT !.pc = "supersede", !.targets = found]
    BY <1>0, <1>2 DEF ScanActivated
  <2>2. handler'[h].pc = "supersede" /\ handler'[h].targets = found /\ handler'[h].rev = q.rev
    BY <1>0, <2>1, JobFields DEF Labels
  <2>3. found = Activated' \ {q.rev} /\ Activated' = Activated
    BY <1>2 DEF ScanActivated, Activated
  <2> HIDE DEF found
  <2>4. \A g \in Handlers \ {h} : handler'[g].pc \notin Updating
    BY <1>0, <1>2 DEF ScanActivated, Updating
  <2>5. QED
    BY <2>2, <2>3, <2>4 DEF Updating
<1>3. CASE Supersede(h)
  <2> DEFINE written == {r \in q.targets : status[r] = "activated"}
  <2>1. handler'[h] = [q EXCEPT !.pc = "commit", !.locked = written]
    BY <1>0, <1>3 DEF Supersede
  <2>2. written \subseteq Revisions
    BY <1>0 DEF Job
  <2>3. written = Activated \ {q.rev}
    BY <1>1, <1>3 DEF Supersede, Activated
  <2> HIDE DEF written
  <2>4. handler'[h].pc = "commit" /\ handler'[h].locked = written /\ handler'[h].rev = q.rev
    BY <1>0, <2>1, <2>2, JobFields DEF Labels
  <2>5. q.pc \in Updating /\ Activated' = Activated
    BY <1>3 DEF Supersede, Activated, Updating
  <2>6. \A g \in Handlers \ {h} : handler'[g].pc \notin Updating
    BY <1>0, <1>1, <2>5
  <2>7. QED
    BY <2>3, <2>4, <2>5, <2>6 DEF Updating
<1>4. CASE CommitActivation(h)
  <2>1. q.pc \in Updating /\ handler'[h].pc \notin Updating
    BY <1>0, <1>4, IdleFacts DEF CommitActivation, Finish, Updating
  <2>2. \A g \in Handlers : handler'[g].pc \notin Updating
    BY <1>0, <1>1, <2>1
  <2>3. QED
    BY <2>2 DEF Updating
<1>5. CASE ~ScanActivated(h) /\ ~Supersede(h) /\ ~CommitActivation(h)
  <2>1. handler'[h].pc \notin Updating /\ Activated' = Activated
    BY <1>5, UpdatingSteps, StatusSteps
  <2>2. \A f, g \in Handlers : handler'[f].pc \in Updating /\ handler'[g].pc \in Updating => f = g
    BY <1>0, <1>1, <2>1
  <2>3. \A g \in Handlers : handler'[g].pc \in Updating => handler'[g] = handler[g]
    BY <1>0, <2>1
  <2>4. QED
    BY <1>1, <2>1, <2>2, <2>3 DEF Updating
<1>6. QED
  BY <1>2, <1>3, <1>4, <1>5

\* ... so that the one which commits leaves its own revision activated and no other.
LEMMA OneActivatedStep ==
    ASSUME TypeOK, OverlapInv, OneActivatedUnlessOverlapped, NEW h \in Handlers, Step(h)
    PROVE  OneActivatedUnlessOverlapped'
<1> SUFFICES ASSUME ~overlapped', NEW r \in Revisions
             PROVE  (status'[r] = "activated") <=> (r = latest')
  BY DEF OneActivatedUnlessOverlapped
<1>1. ~overlapped
  BY UpdatingSteps DEF ScanActivated, Supersede, history
<1>2. CASE CommitActivation(h)
  <2>1. handler[h].locked = Activated \ {handler[h].rev}
    BY <1>1, <1>2 DEF OverlapInv, CommitActivation
  <2>2. /\ latest' = handler[h].rev
        /\ status'[r] = IF r = handler[h].rev THEN "activated"
                        ELSE IF r \in handler[h].locked THEN "superseded" ELSE status[r]
    BY <1>2 DEF CommitActivation
  <2>3. QED
    BY <2>1, <2>2 DEF Activated
<1>3. CASE ~CommitActivation(h)
  BY <1>1, <1>3, StatusSteps DEF Activated, OneActivatedUnlessOverlapped
<1>4. QED
  BY <1>2, <1>3

-----------------------------------------------------------------------------
(* The answers and the audit *)

\* A step keeps what was answered as published.
LEMMA PublicationStep ==
    ASSUME TypeOK, RowInv, HandlerInv, PublicationIsFinal, NEW h \in Handlers, Step(h)
    PROVE  PublicationIsFinal'
<1> USE DEF rows, history
<1>0. Grows /\ \A p \in published : p[1] \in Revisions /\ p[2] \in Bodies /\ body[p[1]] = p[2]
  BY StepGrows DEF TypeOK, PublicationIsFinal
<1>1. \A p \in published : body'[p[1]] = p[2]
  BY <1>0 DEF Grows
<1>2. CASE \E r \in Revisions, b \in Bodies : InsertRevision(h, r, b)
  <2>1. PICK r \in Revisions, b \in Bodies : InsertRevision(h, r, b)
    BY <1>2
  <2>2. body'[r] = b /\ published' = published \cup {<<r, b>>}
    BY <2>1 DEF InsertRevision, Accepts, TypeOK
  <2>3. QED
    BY <1>1, <2>2 DEF PublicationIsFinal
<1>3. CASE Approval(h) \/ Activation(h) \/ Abort(h)
  <2>1. published' = published
    BY <1>3 DEF Approval, ReadApproval, InsertApproval, ApproveRow, AnswerApproved, Activation, Abort,
                HTTPActivate, CommandActivate, SelectRevision, ScanActivated, Supersede, CommitActivation
  <2>2. QED
    BY <1>1, <2>1 DEF PublicationIsFinal
<1>4. QED
  BY <1>2, <1>3 DEF Step

\* A step keeps two people behind what the production endpoints have activated.
LEMMA TwoActorsStep ==
    ASSUME TypeOK, RowInv, HandlerInv, EndpointsNeedTwoActors, NEW h \in Handlers, Step(h)
    PROVE  EndpointsNeedTwoActors'
<1> SUFFICES ASSUME NEW x \in activated', x.env \in Production, x.via = "http"
             PROVE  TwoActorsBehind(x)'
  BY DEF EndpointsNeedTwoActors
<1>1. CASE x \in activated
  BY <1>1, StepGrows, BehindStays DEF EndpointsNeedTwoActors
<1>2. CASE x \notin activated
  <2>1. CommitActivation(h) /\ x = Record(handler[h])
    <3>1. CommitActivation(h)
      BY <1>2, StatusSteps
    <3>2. QED
      BY <1>2, <3>1 DEF CommitActivation
  <2>2. /\ handler[h].pc = "commit" /\ handler[h].env \in Production /\ handler[h].via = "http"
        /\ JobInv(h)
    BY <2>1 DEF CommitActivation, Record, HandlerInv
  <2>3. TwoActorsBehind(x)
    BY <2>1, <2>2 DEF JobInv, Writing
  <2>4. QED
    BY <2>3, StepGrows, BehindStays
<1>3. QED
  BY <1>1, <1>2

\* A step keeps what an environment runs among what was audited for it.
LEMMA AuditStep ==
    ASSUME TypeOK, RowInv, HandlerInv, RowInv', ActiveIsAudited, NEW h \in Handlers, Step(h)
    PROVE  ActiveIsAudited'
<1> SUFFICES ASSUME NEW e \in Environments, active'[e].rev # None
             PROVE  \E x \in activated' : /\ x.env = e /\ x.rev = active'[e].rev
                                          /\ x.actor = active'[e].by /\ x.body = body'[x.rev]
  BY DEF ActiveIsAudited
<1>0. activated \subseteq activated' /\ \A x \in activated' : x.body = body'[x.rev]
  BY StepGrows DEF Grows, RowInv
<1>1. CASE active'[e] = active[e]
  <2>1. PICK x \in activated : x.env = e /\ x.rev = active[e].rev /\ x.actor = active[e].by
    BY <1>1 DEF ActiveIsAudited
  <2>2. QED
    BY <1>0, <1>1, <2>1
<1>2. CASE active'[e] # active[e]
  <2> DEFINE q == handler[h]
  <2>1. CommitActivation(h)
    BY <1>2, StatusSteps
  <2>2. e = q.env /\ active'[e] = [rev |-> q.rev, by |-> q.actor] /\ Record(q) \in activated'
    BY <1>2, <2>1 DEF CommitActivation, TypeOK
  <2>3. Record(q).env = q.env /\ Record(q).rev = q.rev /\ Record(q).actor = q.actor
    BY DEF Record
  <2>4. QED
    BY <1>0, <2>2, <2>3
<1>3. QED
  BY <1>1, <1>2

-----------------------------------------------------------------------------
(* Theorems *)

\* A server with no rows and no request satisfies the invariant.
LEMMA InitInv == Init => Inv
<1> SUFFICES ASSUME Init PROVE Inv
  OBVIOUS
<1> USE DEF Init
<1>1. TypeOK
  <2>1. /\ approvals \in [Requests -> ApprovalRow] /\ handler \in [Handlers -> Job]
        /\ clock \in 0 .. MaxRequests
    BY IdleFacts
  <2>2. active \in [Environments -> [rev : Revisions \cup {None}, by : Actors \cup {None}]]
    OBVIOUS
  <2>3. QED
    BY <2>1, <2>2 DEF TypeOK
<1>2. RowInv
  BY IdleFacts DEF RowInv
<1>3. HandlerInv
  BY IdleFacts DEF HandlerInv, JobInv, Writing
<1>4. OverlapInv
  BY IdleFacts DEF OverlapInv
<1>5. PublicationIsFinal /\ EndpointsNeedTwoActors /\ ActiveIsAudited
  BY DEF PublicationIsFinal, EndpointsNeedTwoActors, ActiveIsAudited
<1>6. OneActivatedUnlessOverlapped
  BY DEF OneActivatedUnlessOverlapped, Statuses
<1>7. QED
  BY <1>1, <1>2, <1>3, <1>4, <1>5, <1>6 DEF Inv

\* Every step keeps the invariant.
LEMMA StepInv == Inv /\ [Next]_vars => Inv'
<1> SUFFICES ASSUME Inv, [Next]_vars PROVE Inv'
  OBVIOUS
<1>0. TypeOK /\ RowInv /\ HandlerInv /\ OverlapInv /\ PublicationIsFinal
      /\ EndpointsNeedTwoActors /\ OneActivatedUnlessOverlapped /\ ActiveIsAudited
  BY DEF Inv
<1>1. TypeOK' /\ clock' \in Nat
  BY <1>0, TypeStep DEF TypeOK
<1>2. CASE UNCHANGED vars
  <2> USE <1>2 DEF vars, rows, history
  <2>1. RowInv'
    BY <1>0 DEF RowInv
  <2>2. HandlerInv'
    BY <1>0 DEF HandlerInv, JobInv, TwoActorsBehind, Of, Record
  <2>3. OverlapInv' /\ OneActivatedUnlessOverlapped'
    BY <1>0 DEF OverlapInv, Activated, OneActivatedUnlessOverlapped
  <2>4. PublicationIsFinal' /\ ActiveIsAudited'
    BY <1>0 DEF PublicationIsFinal, ActiveIsAudited
  <2>5. EndpointsNeedTwoActors'
    BY <1>0 DEF EndpointsNeedTwoActors, TwoActorsBehind, Of
  <2>6. QED
    BY <1>1, <2>1, <2>2, <2>3, <2>4, <2>5 DEF Inv
<1>3. ASSUME NEW h \in Handlers, Step(h) PROVE Inv'
  <2>1. RowInv' /\ HandlerInv'
    BY <1>0, <1>1, <1>3, RowStep, HandlerStep
  <2>2. OverlapInv' /\ OneActivatedUnlessOverlapped'
    BY <1>0, <1>3, OverlapStep, OneActivatedStep
  <2>3. PublicationIsFinal' /\ EndpointsNeedTwoActors' /\ ActiveIsAudited'
    BY <1>0, <1>3, <2>1, PublicationStep, TwoActorsStep, AuditStep
  <2>4. QED
    BY <1>1, <2>1, <2>2, <2>3 DEF Inv
<1>4. QED
  BY <1>2, <1>3 DEF Next, Step, Publish, CommandPublish

(***************************************************************************)
(* The inductive invariant holds of every behaviour, for any number of     *)
(* revisions, bodies, environments, operators and requests at once.        *)
(***************************************************************************)
THEOREM Invariance == Spec => []Inv
BY InitInv, StepInv, PTL DEF Spec

\* Every column and local variable of publication, approval and activation keeps its type.
THEOREM TypeCorrect == Spec => []TypeOK
<1>1. Inv => TypeOK
  BY DEF Inv
<1>2. QED
  BY <1>1, Invariance, PTL

\* A revision keeps the digest publishTx answered with, whoever publishes it again.
THEOREM Immutable == Spec => []PublicationIsFinal
<1>1. Inv => PublicationIsFinal
  BY DEF Inv
<1>2. QED
  BY <1>1, Invariance, PTL

(***************************************************************************)
(* What the production endpoints activate was asked for by one operator    *)
(* and approved by another, who is not the one who activates it, however   *)
(* RequestOrApprove, publications and activations interleave.              *)
(***************************************************************************)
THEOREM FourEyes == Spec => []EndpointsNeedTwoActors
<1>1. Inv => EndpointsNeedTwoActors
  BY DEF Inv
<1>2. QED
  BY <1>1, Invariance, PTL

\* While no two activations overlap, exactly the revision activated last is activated.
THEOREM OneActivated == Spec => []OneActivatedUnlessOverlapped
<1>1. Inv => OneActivatedUnlessOverlapped
  BY DEF Inv
<1>2. QED
  BY <1>1, Invariance, PTL

\* What definition_activations names for an environment was audited for it with its body and actor.
THEOREM Audited == Spec => []ActiveIsAudited
<1>1. Inv => ActiveIsAudited
  BY DEF Inv
<1>2. QED
  BY <1>1, Invariance, PTL
=============================================================================
