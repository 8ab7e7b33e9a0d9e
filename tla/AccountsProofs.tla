--------------------------- MODULE AccountsProofs ---------------------------
(* Proofs about Accounts. *)
EXTENDS Accounts, TLAPS

USE AccountConstants

(***************************************************************************)
(* What a call knows between its two halves: the account a deletion is to  *)
(* record is gone from Nakama, where accounts never come back, or was      *)
(* misjudged, and the patch another is to record has reached its account.  *)
(***************************************************************************)
CallInv ==
    \A c \in Calls :
      /\ Is(c, "delete", "record") => PlayerOf(c) \notin identities \ misjudged
      /\ Is(c, "patch", "read") \/ Is(c, "patch", "record") => KeyOf(c) \in applied

\* A command has a row only for a patch that was made.
RowsAreApplied == \A k \in Keys : commands[k] # None => k \in applied

Inv == TypeOK /\ CallInv /\ RowsAreApplied /\ DeletionIsReal /\ PatchesAnswerAlike

-----------------------------------------------------------------------------
\* A call is of one player, under one key, for one operation.
LEMMA CallFacts ==
    ASSUME NEW c \in Calls
    PROVE  PlayerOf(c) \in Players /\ KeyOf(c) \in Keys /\ CallOf[c].op \in Operations
BY DEF PlayerOf, KeyOf

\* Taking a row from its actor leaves its result, and makes and removes no row.
LEMMA PseudonymisedFacts ==
    ASSUME TypeOK, NEW p \in Players
    PROVE  /\ Pseudonymised(p) \in [Keys -> CommandRow \cup {None}]
           /\ \A k \in Keys : (Pseudonymised(p)[k] # None) <=> (commands[k] # None)
           /\ \A k \in Keys : commands[k] # None => Pseudonymised(p)[k].result = commands[k].result
<1> DEFINE row(k) == IF commands[k] # None /\ commands[k].actor = p
                     THEN [commands[k] EXCEPT !.actor = None] ELSE commands[k]
<1>1. ASSUME NEW k \in Keys
      PROVE  /\ row(k) \in CommandRow \cup {None}
             /\ (row(k) # None) <=> (commands[k] # None)
             /\ commands[k] # None => row(k).result = commands[k].result
  <2>1. commands[k] \in CommandRow \cup {None}
    BY DEF TypeOK
  <2>2. CASE commands[k] # None /\ commands[k].actor = p
    <3>1. row(k) \in CommandRow /\ row(k).result = commands[k].result
      BY <2>1, <2>2 DEF CommandRow
    <3>2. QED
      BY <2>2, <3>1
  <2>3. CASE ~(commands[k] # None /\ commands[k].actor = p)
    BY <2>1, <2>3
  <2>4. QED
    BY <2>2, <2>3
<1>2. Pseudonymised(p) = [k \in Keys |-> row(k)]
  BY DEF Pseudonymised
<1> HIDE DEF row
<1>3. QED
  BY <1>1, <1>2

\* Every step keeps every row, account and local variable in its type.
LEMMA TypeStep == TypeOK /\ [Next]_vars => TypeOK'
<1> SUFFICES ASSUME TypeOK, [Next]_vars PROVE TypeOK'
  OBVIOUS
<1> USE DEF TypeOK, nakamaVars, callVars, Goto, Labels, Tell
<1>1. CASE UNCHANGED vars
  BY <1>1 DEF vars
<1>2. ASSUME NEW c \in Calls, RecordRequest(c) PROVE privacy' \in [Keys -> PrivacyRow \cup {None}]
  <2>1. [player |-> PlayerOf(c), op |-> CallOf[c].op] \in PrivacyRow
    BY CallFacts DEF PrivacyRow
  <2>2. QED
    BY <1>2, <2>1, CallFacts DEF RecordRequest
<1>3. ASSUME NEW c \in Calls, Delete(c) PROVE TypeOK'
  <2>1. CASE LookupDelete(c)
    BY <2>1, CallFacts DEF LookupDelete
  <2>2. CASE CheckTombstone(c)
    BY <2>2, CallFacts DEF CheckTombstone
  <2>3. CASE DeleteAccount(c) \/ TakenForAbsent(c)
    BY <2>3, CallFacts DEF DeleteAccount, TakenForAbsent
  <2>4. CASE DeleteRows(c)
    <3>1. commands' \in [Keys -> CommandRow \cup {None}]
      BY <2>4, CallFacts, PseudonymisedFacts DEF DeleteRows
    <3>2. QED
      BY <1>2, <2>4, <3>1, CallFacts DEF DeleteRows
  <2>5. QED
    BY <1>3, <2>1, <2>2, <2>3, <2>4 DEF Delete
<1>4. ASSUME NEW c \in Calls, Export(c) PROVE TypeOK'
  BY <1>2, <1>4 DEF Export, LookupExport, ExportAccount, StoreExport
<1>5. ASSUME NEW c \in Calls, Patch(c) PROVE TypeOK'
  <2>1. CASE LookupPatch(c)
    <3>1. commands[KeyOf(c)] # None => commands[KeyOf(c)].result \in Keys \cup {None}
      BY CallFacts DEF CommandRow
    <3>2. answers' \subseteq Keys \X (Keys \cup {None})
      BY <2>1, <3>1, CallFacts DEF LookupPatch, Answer
    <3>3. QED
      BY <2>1, <3>2 DEF LookupPatch
  <2>2. CASE UpdateAccount(c)
    BY <2>2, CallFacts DEF UpdateAccount
  <2>3. CASE ReadAccount(c)
    BY <2>3, CallFacts DEF ReadAccount
  <2>4. CASE ProfileUnavailable(c)
    BY <2>4 DEF ProfileUnavailable
  <2>5. CASE RecordPatch(c)
    <3>1. [actor |-> PlayerOf(c), result |-> seen[c]] \in CommandRow
      BY CallFacts DEF CommandRow
    <3>2. commands' \in [Keys -> CommandRow \cup {None}] /\ commands'[KeyOf(c)] \in CommandRow
      BY <2>5, <3>1, CallFacts DEF RecordPatch
    <3>3. answers' \subseteq Keys \X (Keys \cup {None})
      BY <2>5, <3>2, CallFacts DEF RecordPatch, Answer, CommandRow
    <3>4. QED
      BY <2>5, <3>2, <3>3 DEF RecordPatch
  <2>6. QED
    BY <1>5, <2>1, <2>2, <2>3, <2>4, <2>5 DEF Patch
<1>6. ASSUME NEW c \in Calls, Interrupted(c) PROVE TypeOK'
  BY <1>6 DEF Interrupted
<1> HIDE DEF TypeOK
<1>7. QED
  BY <1>1, <1>3, <1>4, <1>5, <1>6 DEF Next

(***************************************************************************)
(* A step of a call that changes neither the rows nor the accounts, and    *)
(* after which the call still knows what its label stands for.             *)
(***************************************************************************)
LEMMA LocalStep ==
    ASSUME Inv, TypeOK', NEW c \in Calls, NEW label \in Labels, Goto(c, label),
           UNCHANGED <<nakamaVars, privacy, tombstones, commands, told, answers>>,
           CallOf[c].op = "delete" /\ label = "record" => PlayerOf(c) \notin identities \ misjudged,
           CallOf[c].op = "patch" /\ label \in {"read", "record"} => KeyOf(c) \in applied
    PROVE  Inv'
<1> USE DEF Inv, nakamaVars
<1>1. CallInv'
  BY DEF CallInv, Is, PlayerOf, KeyOf, Goto, TypeOK
<1>2. RowsAreApplied' /\ DeletionIsReal' /\ PatchesAnswerAlike'
  BY DEF RowsAreApplied, DeletionIsReal, PatchesAnswerAlike
<1>3. QED
  BY <1>1, <1>2

\* A deletion tells its player only of what both stores have done.
LEMMA DeleteStep ==
    ASSUME Inv, TypeOK', NEW c \in Calls, Delete(c)
    PROVE  Inv'
<1> USE DEF Inv, nakamaVars
<1>1. CASE LookupDelete(c)
  <2>1. CASE Recorded(c)
    <3>1. PlayerOf(c) \in tombstones
      <4>1. [player |-> PlayerOf(c), op |-> CallOf[c].op] \in PrivacyRow
        BY CallFacts DEF PrivacyRow
      <4>2. privacy[KeyOf(c)] # None /\ privacy[KeyOf(c)].op = "delete"
            /\ privacy[KeyOf(c)].player = PlayerOf(c)
        BY <1>1, <2>1, <4>1 DEF LookupDelete, Recorded, Is
      <4>3. QED
        BY <4>2, CallFacts DEF DeletionIsReal
    <3>2. told' = told \cup {PlayerOf(c)}
          /\ UNCHANGED <<nakamaVars, privacy, tombstones, commands, answers, pc>>
      BY <1>1, <2>1 DEF LookupDelete, Tell
    <3>3. QED
      BY <3>1, <3>2 DEF CallInv, Is, RowsAreApplied, DeletionIsReal, PatchesAnswerAlike
  <2>2. CASE ~Recorded(c)
    BY <1>1, <2>2, LocalStep DEF LookupDelete, Labels
  <2>3. QED
    BY <2>1, <2>2
<1>2. CASE CheckTombstone(c)
  <2>1. CASE PlayerOf(c) \in tombstones
    <3>1. /\ told' = told \cup {PlayerOf(c)}
          /\ pc' = [pc EXCEPT ![c] = "idle"]
          /\ UNCHANGED <<nakamaVars, privacy, tombstones, commands, answers>>
      BY <1>2, <2>1 DEF CheckTombstone, Tell, Goto
    <3>2. CallInv'
      BY <3>1 DEF CallInv, Is, TypeOK
    <3>3. QED
      BY <2>1, <3>1, <3>2 DEF RowsAreApplied, DeletionIsReal, PatchesAnswerAlike
  <2>2. CASE PlayerOf(c) \notin tombstones
    BY <1>2, <2>2, LocalStep DEF CheckTombstone, Labels
  <2>3. QED
    BY <2>1, <2>2
<1>3. CASE DeleteAccount(c)
  <2>1. /\ identities' = identities \ {PlayerOf(c)}
        /\ pc' = [pc EXCEPT ![c] = "record"]
        /\ CallOf[c].op = "delete"
        /\ UNCHANGED <<profile, applied, misjudged, privacy, tombstones, commands, told, answers>>
    BY <1>3 DEF DeleteAccount, Goto, Is
  <2>2. CallInv'
    BY <2>1 DEF CallInv, Is, TypeOK
  <2>3. QED
    BY <2>1, <2>2 DEF RowsAreApplied, DeletionIsReal, PatchesAnswerAlike
<1>4. CASE TakenForAbsent(c)
  <2>1. /\ misjudged' = misjudged \cup {PlayerOf(c)}
        /\ pc' = [pc EXCEPT ![c] = "record"]
        /\ CallOf[c].op = "delete"
        /\ UNCHANGED <<identities, profile, applied, privacy, tombstones, commands, told, answers>>
    BY <1>4 DEF TakenForAbsent, Goto, Is
  <2>2. CallInv'
    BY <2>1 DEF CallInv, Is, TypeOK
  <2>3. QED
    BY <2>1, <2>2 DEF RowsAreApplied, DeletionIsReal, PatchesAnswerAlike
<1>5. CASE DeleteRows(c)
  <2> DEFINE p == PlayerOf(c)
             record == [player |-> p, op |-> "delete"]
  <2>1. /\ privacy' = [privacy EXCEPT ![KeyOf(c)] = IF @ = None THEN record ELSE @]
        /\ commands' = Pseudonymised(p)
        /\ tombstones' = tombstones \cup {p}
        /\ told' = told \cup {p}
        /\ pc' = [pc EXCEPT ![c] = "idle"]
        /\ UNCHANGED <<nakamaVars, answers>>
    BY <1>5 DEF DeleteRows, RecordRequest, Tell, Goto, Is
  <2>2. p \in Players /\ KeyOf(c) \in Keys /\ p \notin identities \ misjudged
    BY <1>5, CallFacts DEF DeleteRows, CallInv
  <2>3. CallInv'
    BY <2>1 DEF CallInv, Is, TypeOK
  <2>4. /\ \A k \in Keys : (commands'[k] # None) <=> (commands[k] # None)
        /\ \A k \in Keys : commands[k] # None => commands'[k].result = commands[k].result
    BY <2>1, <2>2, PseudonymisedFacts
  <2>5. RowsAreApplied'
    BY <2>1, <2>4 DEF RowsAreApplied
  <2>6. PatchesAnswerAlike'
    <3>1. \A a \in answers : a[1] \in Keys
      BY DEF TypeOK
    <3>2. QED
      BY <2>1, <2>4, <3>1 DEF PatchesAnswerAlike
  <2>7. DeletionIsReal'
    <3>1. \A k \in Keys : privacy'[k] = privacy[k] \/ privacy'[k] = record
      BY <2>1, <2>2 DEF TypeOK
    <3>2. record.player = p
      OBVIOUS
    <3> HIDE DEF record
    <3>3. QED
      BY <2>1, <2>2, <3>1, <3>2 DEF DeletionIsReal
  <2>8. QED
    BY <2>3, <2>5, <2>6, <2>7
<1>6. QED
  BY <1>1, <1>2, <1>3, <1>4, <1>5 DEF Delete

\* An export never stands for a deletion, even under its key.
LEMMA ExportStep ==
    ASSUME Inv, TypeOK', NEW c \in Calls, Export(c)
    PROVE  Inv'
<1> USE DEF Inv, nakamaVars
<1>1. CASE LookupExport(c)
  BY <1>1, LocalStep DEF LookupExport, Labels, Is
<1>2. CASE ExportAccount(c)
  BY <1>2, LocalStep DEF ExportAccount, Labels, Is
<1>3. CASE StoreExport(c)
  <2> DEFINE record == [player |-> PlayerOf(c), op |-> "export"]
  <2>1. /\ privacy' = [privacy EXCEPT ![KeyOf(c)] = IF @ = None THEN record ELSE @]
        /\ pc' = [pc EXCEPT ![c] = "idle"]
        /\ UNCHANGED <<nakamaVars, tombstones, commands, told, answers>>
    BY <1>3 DEF StoreExport, RecordRequest, Goto, Is
  <2>2. \A k \in Keys : privacy'[k] = privacy[k] \/ privacy'[k] = record
    BY <2>1, CallFacts DEF TypeOK
  <2>3. record.op # "delete"
    OBVIOUS
  <2> HIDE DEF record
  <2>4. DeletionIsReal'
    BY <2>1, <2>2, <2>3 DEF DeletionIsReal
  <2>5. CallInv'
    BY <2>1 DEF CallInv, Is, TypeOK
  <2>6. QED
    BY <2>1, <2>4, <2>5 DEF RowsAreApplied, PatchesAnswerAlike
<1>4. QED
  BY <1>1, <1>2, <1>3 DEF Export

\* A patch is answered with the stored result, and stored once it was made.
LEMMA PatchStep ==
    ASSUME Inv, TypeOK', NEW c \in Calls, Patch(c)
    PROVE  Inv'
<1> USE DEF Inv, nakamaVars
<1>1. CASE LookupPatch(c)
  <2> DEFINE row == commands[KeyOf(c)]
  <2>1. CASE row # None /\ row.actor = PlayerOf(c)
    <3>1. /\ answers' = answers \cup {<<KeyOf(c), row.result>>}
          /\ UNCHANGED <<nakamaVars, privacy, tombstones, commands, told, pc>>
      BY <1>1, <2>1 DEF LookupPatch, Answer
    <3>2. KeyOf(c) \in applied
      BY <2>1, CallFacts DEF RowsAreApplied
    <3>3. PatchesAnswerAlike'
      BY <2>1, <3>1, <3>2 DEF PatchesAnswerAlike
    <3>4. QED
      BY <3>1, <3>3 DEF CallInv, Is, RowsAreApplied, DeletionIsReal
  <2>2. CASE ~(row # None /\ row.actor = PlayerOf(c))
    BY <1>1, <2>2, LocalStep DEF LookupPatch, Labels, Is
  <2>3. QED
    BY <2>1, <2>2
<1>2. CASE UpdateAccount(c)
  <2>1. /\ applied' = applied \cup {KeyOf(c)}
        /\ pc' = [pc EXCEPT ![c] = "read"]
        /\ CallOf[c].op = "patch"
        /\ UNCHANGED <<identities, misjudged, privacy, tombstones, commands, told, answers>>
    BY <1>2 DEF UpdateAccount, Goto, Is
  <2>2. CallInv'
    BY <2>1 DEF CallInv, Is, TypeOK
  <2>3. QED
    BY <2>1, <2>2 DEF RowsAreApplied, DeletionIsReal, PatchesAnswerAlike
<1>3. CASE ReadAccount(c)
  BY <1>3, LocalStep DEF ReadAccount, Labels, Is, CallInv
<1>4. CASE ProfileUnavailable(c)
  BY <1>4, LocalStep DEF ProfileUnavailable, Labels
<1>5. CASE RecordPatch(c)
  <2> DEFINE k == KeyOf(c)
             record == [actor |-> PlayerOf(c), result |-> seen[c]]
  <2>1. /\ commands' = [commands EXCEPT ![k] = IF @ = None THEN record ELSE @]
        /\ answers' = answers \cup {<<k, commands'[k].result>>}
        /\ pc' = [pc EXCEPT ![c] = "idle"]
        /\ UNCHANGED <<nakamaVars, privacy, tombstones, told>>
    BY <1>5 DEF RecordPatch, Answer, Goto
  <2>2. k \in Keys /\ k \in applied
    BY <1>5, CallFacts DEF RecordPatch, CallInv
  <2>3. record # None
    <3>1. record \in CommandRow
      BY CallFacts DEF CommandRow, TypeOK
    <3>2. QED
      BY <3>1
  <2> HIDE DEF record
  <2>4. /\ commands'[k] # None
        /\ \A j \in Keys : commands[j] # None => commands'[j] = commands[j]
        /\ \A j \in Keys : j # k => commands'[j] = commands[j]
    BY <2>1, <2>2, <2>3 DEF TypeOK
  <2>5. CallInv'
    BY <2>1 DEF CallInv, Is, TypeOK
  <2>6. RowsAreApplied'
    BY <2>1, <2>2, <2>4 DEF RowsAreApplied
  <2>7. PatchesAnswerAlike'
    <3>1. \A a \in answers : a[1] \in Keys
      BY DEF TypeOK
    <3>2. QED
      BY <2>1, <2>2, <2>4, <3>1 DEF PatchesAnswerAlike
  <2>8. DeletionIsReal'
    BY <2>1 DEF DeletionIsReal
  <2>9. QED
    BY <2>5, <2>6, <2>7, <2>8
<1>6. QED
  BY <1>1, <1>2, <1>3, <1>4, <1>5 DEF Patch

\* Every step, an interruption at any point included, keeps both stores consistent.
LEMMA StepInv == Inv /\ [Next]_vars => Inv'
<1> SUFFICES ASSUME Inv, [Next]_vars PROVE Inv'
  OBVIOUS
<1>1. TypeOK'
  BY TypeStep DEF Inv
<1>2. CASE UNCHANGED vars
  BY <1>1, <1>2 DEF vars, nakamaVars, callVars, Inv, CallInv, Is, RowsAreApplied, DeletionIsReal,
                    PatchesAnswerAlike
<1>3. ASSUME NEW c \in Calls, Interrupted(c) PROVE Inv'
  BY <1>1, <1>3, LocalStep DEF Interrupted, Labels
<1>4. QED
  BY <1>1, <1>2, <1>3, DeleteStep, ExportStep, PatchStep DEF Next

\* Everybody has an account and nothing was asked for.
LEMMA InitInv == Init => Inv
<1> SUFFICES ASSUME Init PROVE Inv
  OBVIOUS
<1>1. TypeOK
  BY DEF Init, TypeOK, Labels
<1>2. CallInv
  BY DEF Init, CallInv, Is
<1>3. QED
  BY <1>1, <1>2 DEF Inv, Init, RowsAreApplied, DeletionIsReal, PatchesAnswerAlike

(***************************************************************************)
(* Nakama and PostgreSQL agree, up to misjudged accounts, in every state.  *)
(***************************************************************************)
THEOREM Invariance == Spec => []Inv
<1>1. QED
  BY InitInv, StepInv, PTL DEF Spec

(***************************************************************************)
(* Types of accounts, request rows and calls, for any players, keys, calls *)
(* and number of interruptions.                                            *)
(***************************************************************************)
THEOREM TypeCorrect == Spec => []TypeOK
<1>1. Inv => TypeOK
  BY DEF Inv
<1>2. QED
  BY <1>1, Invariance, PTL

(***************************************************************************)
(* The privacy delete endpoint: nobody is told of a deletion, and no       *)
(* answer is stored, before the transaction has written the tombstone, and *)
(* an account that is still in Nakama gets a tombstone only if the RPC     *)
(* took it for absent because both of its calls failed.                    *)
(***************************************************************************)
THEOREM DeletionIsHonest == Spec => []DeletionIsReal
<1>1. Inv => DeletionIsReal
  BY DEF Inv
<1>2. QED
  BY <1>1, Invariance, PTL

(***************************************************************************)
(* The profile commands: all answers to one request ID are the stored      *)
(* result of a patch that was made, whichever calls overlap and fail.      *)
(***************************************************************************)
THEOREM PatchesAreIdempotent == Spec => []PatchesAnswerAlike
<1>1. Inv => PatchesAnswerAlike
  BY DEF Inv
<1>2. QED
  BY <1>1, Invariance, PTL
=============================================================================
