----------------------------- MODULE Admission -----------------------------
(***************************************************************************)
(* Who gets into a match: the restriction commands of internal/admin, the  *)
(* two ways to a join claim (the endpoint of the Control API and the       *)
(* command match.issue_join_claim), and POST /join of the game server.     *)
(*                                                                         *)
(* A claim is a signed token the player keeps; match.join_claims is        *)
(* written and, ConsumeClaim having no caller, never read.  Of the claims  *)
(* a player got by one way the last is kept: it is good for longest.       *)
(* Time is in units of the clock that tokens and restrictions share.       *)
(***************************************************************************)
EXTENDS MatchRow

CONSTANTS
    Joiners,  \* those of the roster who come to join: a bound
    TTL,      \* ClaimTTL
    MaxDelay, \* the longest from the restriction check to the time of the claim
    MaxTime   \* bound on the clock

ASSUME AdmissionConstants ==
    /\ Joiners \subseteq Roster /\ None \notin Joiners
    /\ TTL \in Nat \ {0} /\ MaxDelay \in Nat /\ MaxTime \in Nat \ {0}

VARIABLES
    clock,
    restriction, \* platform.player_restrictions: at most one row per player
    since,       \* history: when the player was last barred, having been free
    exp,         \* exp of the last claim by player and way; 0: none
    issue,       \* the player's match.issue_join_claim past its check, and when it was
    join         \* the player POST /join has authorized and not yet answered

admissionVars == <<clock, restriction, since, exp, issue, join>>

Ways == {"http", "command"}
Kinds == {"ban", "queue", "admission"}
Never == MaxTime + 1  \* a restriction without expires_at

NoIssue == [player |-> None, checked |-> 0]
NoJoin == [player |-> None, way |-> None]

AdmissionInit ==
    /\ clock = 1
    /\ restriction = [p \in Joiners |-> None]
    /\ since = [p \in Joiners |-> 0]
    /\ exp = [p \in Joiners |-> [w \in Ways |-> 0]]
    /\ issue = NoIssue
    /\ join = NoJoin

-----------------------------------------------------------------------------
(* Restrictions *)

\* The WHERE clause of the check: "expires_at>now() AND kind IN ('ban','admission')".
Barred(p) ==
    /\ restriction[p] # None
    /\ restriction[p].until > clock
    /\ restriction[p].kind \in {"ban", "admission"}

\* admin.player_restrict with a future expiry or none: the upsert replaces whatever restriction there was.
Restrict(p, kind, until) ==
    /\ restriction' = [restriction EXCEPT ![p] = [kind |-> kind, until |-> until]]
    /\ since' = [since EXCEPT ![p] = IF Barred(p) THEN @ ELSE clock]
    /\ UNCHANGED <<rowVars, clock, exp, issue, join>>

\* admin.player_unrestrict
Unrestrict(p) ==
    /\ restriction[p] # None
    /\ restriction' = [restriction EXCEPT ![p] = None]
    /\ since' = [since EXCEPT ![p] = 0]
    /\ UNCHANGED <<rowVars, clock, exp, issue, join>>

-----------------------------------------------------------------------------
(* Join claims *)

Joinable == state \in {"Ready", "Running"}

\* issueJoinClaim: the claim is good for TTL from the time it is called.
Issue(p, way) ==
    /\ Joinable
    /\ exp' = [exp EXCEPT ![p][way] = clock + TTL]

\* POST /v1/matches/{matchId}/join-claims does not look at restrictions.
IssueJoinClaim(p) ==
    /\ Issue(p, "http")
    /\ UNCHANGED <<rowVars, clock, restriction, since, issue, join>>

\* Mutant of CheckRestriction: the kind 'admission' is forgotten.
CheckBans(p) ==
    /\ issue = NoIssue
    /\ ~(Barred(p) /\ restriction[p].kind = "ban")
    /\ issue' = [player |-> p, checked |-> clock]
    /\ UNCHANGED <<rowVars, clock, restriction, since, exp, join>>

\* match.issue_join_claim: the check, in the transaction but without a lock.
CheckRestriction(p) ==
    /\ issue = NoIssue
    /\ ~Barred(p)
    /\ issue' = [player |-> p, checked |-> clock]
    /\ UNCHANGED <<rowVars, clock, restriction, since, exp, join>>

\* ... then the claim, or MATCH_NOT_JOINABLE.
IssueJoinClaimTx ==
    /\ issue # NoIssue
    /\ IF Joinable THEN Issue(issue.player, "command") ELSE UNCHANGED exp
    /\ issue' = NoIssue
    /\ UNCHANGED <<rowVars, clock, restriction, since, join>>

-----------------------------------------------------------------------------
(* POST /join of the game server *)

\* VerifyClaim: the validity window; signature, audience, match and build agree.
ClaimIsValid(p, way) == exp[p][way] > clock

\* The claim of a roster member with its slot; the same claim may be used again.
AuthorizeJoin(p, way) ==
    /\ server = "up" /\ join = NoJoin
    /\ ClaimIsValid(p, way)
    /\ join' = [player |-> p, way |-> way]
    /\ UNCHANGED <<rowVars, clock, restriction, since, exp, issue>>

\* Starter.Start, then the player is let in ...
StartJoin ==
    /\ join # NoJoin /\ server = "up"
    /\ StartRunning
    /\ join' = NoJoin
    /\ UNCHANGED <<server, clock, restriction, since, exp, issue>>

\* ... or 503: the match is over, the call failed, or the server died under it.
StartFails ==
    /\ join # NoJoin
    /\ join' = NoJoin
    /\ UNCHANGED <<rowVars, clock, restriction, since, exp, issue>>

\* A command between its check and its claim does not take longer than MaxDelay.
Tick ==
    /\ clock < MaxTime
    /\ issue # NoIssue => clock < issue.checked + MaxDelay
    /\ clock' = clock + 1
    /\ UNCHANGED <<rowVars, restriction, since, exp, issue, join>>

AdmissionStep ==
    \/ \E p \in Joiners :
         \/ \E kind \in Kinds, until \in {clock + 1, Never} : Restrict(p, kind, until)
         \/ Unrestrict(p) \/ IssueJoinClaim(p) \/ CheckRestriction(p)
         \/ \E way \in Ways : AuthorizeJoin(p, way)
    \/ IssueJoinClaimTx \/ StartJoin \/ StartFails \/ Tick

-----------------------------------------------------------------------------
(* Properties *)

\* Every admission variable has the type of its row, token or local variable.
AdmissionTypeOK ==
    /\ clock \in 1 .. MaxTime
    /\ restriction \in [Joiners -> [kind : Kinds, until : 1 .. Never] \cup {None}]
    /\ since \in [Joiners -> 0 .. MaxTime]
    /\ exp \in [Joiners -> [Ways -> 0 .. MaxTime + TTL]]
    /\ issue \in [player : Joiners \cup {None}, checked : 0 .. MaxTime]
    /\ join \in [player : Joiners \cup {None}, way : Ways \cup {None}]

(***************************************************************************)
(* A claim outlives the check it was issued on, so a restriction does not  *)
(* keep a player out at once.  It does so after the time to live of a      *)
(* claim and the delay of a command already past its check: by a claim of  *)
(* the command, nobody is authorized who has been barred for longer.       *)
(***************************************************************************)
BarredIsKeptOut ==
    [][ \A p \in Joiners :
          join = NoJoin /\ join' = [player |-> p, way |-> "command"] /\ Barred(p)
            => clock < since[p] + MaxDelay + TTL ]_<<rowVars, admissionVars>>
=============================================================================
