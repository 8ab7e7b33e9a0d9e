------------------------------ MODULE Accounts ------------------------------
(***************************************************************************)
(* The operations of the Control API that span Nakama, which owns the      *)
(* accounts, and PostgreSQL: privacy export and deletion, and the profile  *)
(* commands.  Each calls Nakama first and writes its record afterwards, so *)
(* a call can be interrupted between the two and made again.               *)
(*                                                                         *)
(* A call is a client's request with its idempotency key (the request ID   *)
(* of a command), made again at will; two calls with one key are retries   *)
(* that overlap.  Sessions are verified without Nakama, so those of a      *)
(* deleted account go on working until they expire.                        *)
(***************************************************************************)
EXTENDS Naturals, FiniteSets

CONSTANTS
    Players,
    Keys,
    Calls,
    CallOf,     \* the player, key and operation of each call
    Interrupts, \* bound on interrupted and misjudged calls
    None

Operations == {"delete", "export", "patch"}

\* Rows of platform.account_privacy_requests and platform.command_requests; None is no row, and
\* as an actor that of a deleted player.
PrivacyRow == [player : Players, op : Operations]
CommandRow == [actor : Players \cup {None}, result : Keys \cup {None}]

ASSUME AccountConstants ==
    /\ CallOf \in [Calls -> [player : Players, key : Keys, op : Operations]]
    /\ Interrupts \in Nat
    /\ None \notin Players
    /\ None \notin Keys
    /\ None \notin PrivacyRow
    /\ None \notin CommandRow

VARIABLES
    identities, \* the accounts in Nakama
    profile,    \* the patch each account shows
    privacy,    \* platform.account_privacy_requests by request_id
    tombstones, \* platform.deleted_account_tombstones
    commands,   \* platform.command_requests: actor and result by request_id
    pc,         \* where each call is
    seen,       \* the profile a patch got back from Nakama
    told,       \* history: players whose deletion was answered as done
    answers,    \* history: <<key, result>> of answered patches
    applied,    \* history: patches that reached the account
    misjudged,  \* history: players whose account was taken for absent while it was there
    budget

nakamaVars == <<identities, profile, applied, misjudged>>
callVars == <<pc, seen, told, answers>>
vars == <<nakamaVars, privacy, tombstones, commands, callVars, budget>>

Labels == {"idle", "check", "rpc", "read", "record"}

PlayerOf(c) == CallOf[c].player
KeyOf(c) == CallOf[c].key
Is(c, op, label) == CallOf[c].op = op /\ pc[c] = label
Goto(c, label) == pc' = [pc EXCEPT ![c] = label]

Init ==
    /\ identities = Players
    /\ profile = [p \in Players |-> None]
    /\ privacy = [k \in Keys |-> None]
    /\ tombstones = {}
    /\ commands = [k \in Keys |-> None]
    /\ pc = [c \in Calls |-> "idle"]
    /\ seen = [c \in Calls |-> None]
    /\ told = {} /\ answers = {} /\ applied = {} /\ misjudged = {}
    /\ budget = Interrupts

-----------------------------------------------------------------------------
(* POST /v1/players/me/privacy/delete *)

Recorded(c) == privacy[KeyOf(c)] = [player |-> PlayerOf(c), op |-> CallOf[c].op]

Tell(c) == told' = told \cup {PlayerOf(c)}

\* The stored answer is replayed, or the tombstone is looked at.
LookupDelete(c) ==
    /\ Is(c, "delete", "idle")
    /\ IF Recorded(c) THEN Tell(c) /\ UNCHANGED pc ELSE Goto(c, "check") /\ UNCHANGED told
    /\ UNCHANGED <<nakamaVars, privacy, tombstones, commands, seen, answers, budget>>

\* A deletion under another key was there first.
CheckTombstone(c) ==
    /\ Is(c, "delete", "check")
    /\ IF PlayerOf(c) \in tombstones THEN Tell(c) /\ Goto(c, "idle")
                                     ELSE Goto(c, "rpc") /\ UNCHANGED told
    /\ UNCHANGED <<nakamaVars, privacy, tombstones, commands, seen, answers, budget>>

\* Mutant of DeleteAccount: the RPC does not look whether the account is absent, and reports any
\* failed deletion as done.
DeleteAccountUnchecked(c) ==
    /\ Is(c, "delete", "rpc")
    /\ identities' \in {identities, identities \ {PlayerOf(c)}}
    /\ Goto(c, "record")
    /\ UNCHANGED <<profile, applied, misjudged, privacy, tombstones, commands, seen, told, answers, budget>>

\* Mutant of DeleteAccount: an absent account is an error.
DeleteAccountPresent(c) ==
    /\ Is(c, "delete", "rpc")
    /\ PlayerOf(c) \in identities
    /\ identities' = identities \ {PlayerOf(c)}
    /\ Goto(c, "record")
    /\ UNCHANGED <<profile, applied, misjudged, privacy, tombstones, commands, seen, told, answers, budget>>

\* gameservicePrivacy: accountDeleteId; an account that is already absent is no error.
DeleteAccount(c) ==
    /\ Is(c, "delete", "rpc")
    /\ identities' = identities \ {PlayerOf(c)}
    /\ Goto(c, "record")
    /\ UNCHANGED <<profile, applied, misjudged, privacy, tombstones, commands, seen, told, answers, budget>>

(***************************************************************************)
(* The catch in it takes whatever accountGetId throws for "absent".  When  *)
(* accountDeleteId and then accountGetId fail, as with a database that is  *)
(* down, the RPC answers deleted:true and the account stays.               *)
(***************************************************************************)
TakenForAbsent(c) ==
    /\ Is(c, "delete", "rpc")
    /\ PlayerOf(c) \in identities
    /\ budget > 0
    /\ budget' = budget - 1
    /\ misjudged' = misjudged \cup {PlayerOf(c)}
    /\ Goto(c, "record")
    /\ UNCHANGED <<identities, profile, applied, privacy, tombstones, commands, seen, told, answers>>

\* INSERT ... ON CONFLICT (request_id) DO NOTHING
RecordRequest(c) ==
    privacy' = [privacy EXCEPT ![KeyOf(c)] =
                  IF @ = None THEN [player |-> PlayerOf(c), op |-> CallOf[c].op] ELSE @]

\* UPDATE platform.command_requests SET actor_id='deleted:...'
Pseudonymised(p) ==
    [k \in Keys |-> IF commands[k] # None /\ commands[k].actor = p
                    THEN [commands[k] EXCEPT !.actor = None] ELSE commands[k]]

(***************************************************************************)
(* One transaction: the request, the rows of the player, the scrubbed      *)
(* results, the tombstone and the audit record.  Of the rows it deletes or *)
(* rewrites the model has those that a call here reads again.              *)
(***************************************************************************)
DeleteRows(c) ==
    /\ Is(c, "delete", "record")
    /\ RecordRequest(c)
    /\ commands' = Pseudonymised(PlayerOf(c))
    /\ tombstones' = tombstones \cup {PlayerOf(c)}
    /\ Tell(c)
    /\ Goto(c, "idle")
    /\ UNCHANGED <<nakamaVars, seen, answers, budget>>

-----------------------------------------------------------------------------
(* POST /v1/players/me/privacy/export *)

LookupExport(c) ==
    /\ Is(c, "export", "idle")
    /\ ~Recorded(c)
    /\ Goto(c, "rpc")
    /\ UNCHANGED <<nakamaVars, privacy, tombstones, commands, seen, told, answers, budget>>

\* accountExportId fails for an account that is gone: 422.
ExportAccount(c) ==
    /\ Is(c, "export", "rpc")
    /\ Goto(c, IF PlayerOf(c) \in identities THEN "record" ELSE "idle")
    /\ UNCHANGED <<nakamaVars, privacy, tombstones, commands, seen, told, answers, budget>>

StoreExport(c) ==
    /\ Is(c, "export", "record")
    /\ RecordRequest(c)
    /\ Goto(c, "idle")
    /\ UNCHANGED <<nakamaVars, tombstones, commands, seen, told, answers, budget>>

-----------------------------------------------------------------------------
(* POST /v1/commands with profile.patch_public_fields *)

Answer(c, result) == answers' = answers \cup {<<KeyOf(c), result>>}

\* GetForActor: the stored result if the row is the caller's, else the RPC.
LookupPatch(c) ==
    LET row == commands[KeyOf(c)]
        found == row # None /\ row.actor = PlayerOf(c)
    IN /\ Is(c, "patch", "idle")
       /\ IF found THEN Answer(c, row.result) /\ UNCHANGED pc
                   ELSE Goto(c, "rpc") /\ UNCHANGED answers
       /\ UNCHANGED <<nakamaVars, privacy, tombstones, commands, seen, told, budget>>

\* gameserviceProfile: accountUpdateId ...
UpdateAccount(c) ==
    /\ Is(c, "patch", "rpc")
    /\ PlayerOf(c) \in identities
    /\ profile' = [profile EXCEPT ![PlayerOf(c)] = KeyOf(c)]
    /\ applied' = applied \cup {KeyOf(c)}
    /\ Goto(c, "read")
    /\ UNCHANGED <<identities, misjudged, privacy, tombstones, commands, seen, told, answers, budget>>

\* ... then accountGetId, which may show a patch that came in between.
ReadAccount(c) ==
    /\ Is(c, "patch", "read")
    /\ PlayerOf(c) \in identities
    /\ seen' = [seen EXCEPT ![c] = profile[PlayerOf(c)]]
    /\ Goto(c, "record")
    /\ UNCHANGED <<nakamaVars, privacy, tombstones, commands, told, answers, budget>>

\* The account is gone: 503.
ProfileUnavailable(c) ==
    /\ Is(c, "patch", "rpc") \/ Is(c, "patch", "read")
    /\ PlayerOf(c) \notin identities
    /\ Goto(c, "idle")
    /\ UNCHANGED <<nakamaVars, privacy, tombstones, commands, seen, told, answers, budget>>

\* Mutant of RecordPatch: the caller's own result is returned, not the stored one.
RecordPatchOwn(c) ==
    /\ Is(c, "patch", "record")
    /\ commands' = [commands EXCEPT ![KeyOf(c)] =
                      IF @ = None THEN [actor |-> PlayerOf(c), result |-> seen[c]] ELSE @]
    /\ Answer(c, seen[c])
    /\ Goto(c, "idle")
    /\ seen' = [seen EXCEPT ![c] = None]
    /\ UNCHANGED <<nakamaVars, privacy, tombstones, told, budget>>

\* Mutant of RecordPatch: the row is reserved and its result never written.
RecordPatchPending(c) ==
    /\ Is(c, "patch", "record")
    /\ commands' = [commands EXCEPT ![KeyOf(c)] =
                      IF @ = None THEN [actor |-> PlayerOf(c), result |-> "pending"] ELSE @]
    /\ Answer(c, seen[c])
    /\ Goto(c, "idle")
    /\ seen' = [seen EXCEPT ![c] = None]
    /\ UNCHANGED <<nakamaVars, privacy, tombstones, told, budget>>

\* SubmitWith: the row of the first that commits is the answer to all.
RecordPatch(c) ==
    /\ Is(c, "patch", "record")
    /\ commands' = [commands EXCEPT ![KeyOf(c)] =
                      IF @ = None THEN [actor |-> PlayerOf(c), result |-> seen[c]] ELSE @]
    /\ Answer(c, commands'[KeyOf(c)].result)
    /\ Goto(c, "idle")
    /\ seen' = [seen EXCEPT ![c] = None]
    /\ UNCHANGED <<nakamaVars, privacy, tombstones, told, budget>>

-----------------------------------------------------------------------------
(***************************************************************************)
(* The call ends without an answer: the process dies, a query or the RPC   *)
(* fails or the transaction is rolled back.  An RPC that was carried out   *)
(* and lost its answer is one that succeeded and was interrupted then.     *)
(***************************************************************************)
Interrupted(c) ==
    /\ pc[c] # "idle" /\ budget > 0
    /\ budget' = budget - 1
    /\ Goto(c, "idle")
    /\ seen' = [seen EXCEPT ![c] = None]
    /\ UNCHANGED <<nakamaVars, privacy, tombstones, commands, told, answers>>

Delete(c) ==
    \/ LookupDelete(c) \/ CheckTombstone(c) \/ DeleteAccount(c) \/ TakenForAbsent(c)
    \/ DeleteRows(c)
Export(c) == LookupExport(c) \/ ExportAccount(c) \/ StoreExport(c)
Patch(c) ==
    \/ LookupPatch(c) \/ UpdateAccount(c) \/ ReadAccount(c) \/ RecordPatch(c)
    \/ ProfileUnavailable(c)

Next == \E c \in Calls : Delete(c) \/ Export(c) \/ Patch(c) \/ Interrupted(c)

Spec == Init /\ [][Next]_vars

(***************************************************************************)
(* Handlers run on, and the client of a deletion makes its call again      *)
(* until it is answered.  Nothing is assumed of the other calls.           *)
(***************************************************************************)
FairSpec == Spec /\ \A c \in {d \in Calls : CallOf[d].op = "delete"} : WF_vars(Delete(c))

-----------------------------------------------------------------------------
(* Properties *)

\* Every variable has the type of its row, account or local variable.
TypeOK ==
    /\ identities \subseteq Players
    /\ profile \in [Players -> Keys \cup {None}]
    /\ privacy \in [Keys -> PrivacyRow \cup {None}]
    /\ tombstones \subseteq Players
    /\ commands \in [Keys -> CommandRow \cup {None}]
    /\ pc \in [Calls -> Labels]
    /\ seen \in [Calls -> Keys \cup {None}]
    /\ told \subseteq Players
    /\ answers \subseteq Keys \X (Keys \cup {None})
    /\ applied \subseteq Keys
    /\ misjudged \subseteq Players
    /\ budget \in 0 .. Interrupts

(***************************************************************************)
(* A player is told of the deletion only when the tombstone is written,    *)
(* and so is every stored answer, whichever calls overlap, fail and use    *)
(* each other's keys.  An account that Nakama still has gets a tombstone   *)
(* in one case only: both calls of the RPC failed and it was misjudged.    *)
(***************************************************************************)
DeletionIsReal ==
    /\ told \subseteq tombstones
    /\ tombstones \cap identities \subseteq misjudged
    /\ \A k \in Keys : privacy[k] # None /\ privacy[k].op = "delete"
                          => privacy[k].player \in tombstones

(***************************************************************************)
(* However often a patch is sent and however its calls overlap, all are    *)
(* answered alike, with the stored result, and only once the patch was     *)
(* made, also across the deletion of the account, which takes the rows     *)
(* away from their actor.                                                  *)
(***************************************************************************)
PatchesAnswerAlike ==
    \A a \in answers :
        /\ commands[a[1]] # None /\ commands[a[1]].result = a[2]
        /\ a[1] \in applied

(***************************************************************************)
(* "A retry can finalize the GameService transaction after an interruption *)
(* because an already-absent Nakama account is treated as an idempotent    *)
(* delete": an account that is gone gets its tombstone.                    *)
(***************************************************************************)
RetryFinalizes == \A p \in Players : p \notin identities ~> p \in tombstones
=============================================================================
