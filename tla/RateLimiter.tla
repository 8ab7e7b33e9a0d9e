---------------------------- MODULE RateLimiter ----------------------------
(***************************************************************************)
(* The limiter in front of the Control API (internal/ratelimit): one       *)
(* token bucket per key in a map of bounded size.                          *)
(*                                                                         *)
(* Allow holds the mutex from its first read to its last write, so a call  *)
(* is one action; a request makes several calls, and those of others come  *)
(* between.  A request reads the clock before it asks for the mutex, so    *)
(* the times the buckets see are not in order.                             *)
(* Units: in one tick of the clock every bucket regains one unit, and a    *)
(* request costs Cost[k] of them, that is a rate of 1/Cost[k] per tick; a  *)
(* burst of b requests is Cap[k] = b * Cost[k].  All rates of              *)
(* DefaultConfig are positive, so no key is unlimited.                     *)
(***************************************************************************)
EXTENDS Naturals, Sequences, FiniteSets

CONSTANTS
    Keys,      \* "ip:...", "ip:...|path:...", "actor:...", "expensive:..."
    Cost, Cap, \* per key, in units
    Routes,    \* the keys a request asks for, in order
    Clients,   \* requests in the middleware at the same time
    MaxKeys,
    EvictAge,  \* ten minutes
    MaxDelay,  \* ticks from reading the clock to the last call of Allow
    MaxTime    \* bound on the clock

(***************************************************************************)
(* A bucket is full again long before it may be evicted: 30 to 120 seconds *)
(* against ten minutes in DefaultConfig.                                   *)
(***************************************************************************)
ASSUME LimiterConstants ==
    /\ IsFiniteSet(Keys)
    /\ Cost \in [Keys -> Nat \ {0}]
    /\ Cap \in [Keys -> Nat]
    /\ \A k \in Keys : Cost[k] <= Cap[k]
    /\ Routes \subseteq Seq(Keys)
    /\ MaxKeys \in Nat \ {0} /\ EvictAge \in Nat /\ MaxDelay \in Nat /\ MaxTime \in Nat
    /\ \A k \in Keys : Cap[k] + MaxDelay <= EvictAge

VARIABLES
    clock,
    present,   \* the keys of the map
    tokens, seen,
    todo,      \* the keys a request has still to ask for
    stamp,     \* the time it read
    window,    \* history: when somebody starts to count
    spent,     \* history: units granted per key since then
    refused    \* history: keys whose own bucket refused a request

buckets == <<present, tokens, seen>>
vars == <<clock, buckets, todo, stamp, window, spent, refused>>

Init ==
    /\ clock = 0
    /\ present = {}
    /\ tokens = [k \in Keys |-> 0]
    /\ seen = [k \in Keys |-> 0]
    /\ todo = [c \in Clients |-> <<>>]
    /\ stamp = [c \in Clients |-> 0]
    /\ window \in 0..MaxTime
    /\ spent = [k \in Keys |-> 0]
    /\ refused = {}

\* Time passes, but no request stays in the middleware for longer than MaxDelay.
Tick ==
    /\ clock < MaxTime
    /\ \A c \in Clients : todo[c] # <<>> => clock < stamp[c] + MaxDelay
    /\ clock' = clock + 1
    /\ UNCHANGED <<buckets, todo, stamp, window, spent, refused>>

\* A request reads the clock.
Arrive(c, route) ==
    /\ todo[c] = <<>>
    /\ todo' = [todo EXCEPT ![c] = route]
    /\ stamp' = [stamp EXCEPT ![c] = clock]
    /\ UNCHANGED <<clock, buckets, window, spent, refused>>

-----------------------------------------------------------------------------
(* Allow *)

\* Mutant of Evicted: whatever is old enough to have regained a single request goes.
EvictedEarly(k, now) ==
    IF k \notin present /\ Cardinality(present) >= MaxKeys
    THEN {x \in present : seen[x] + Cost[x] <= now} ELSE {}

\* evict, called when a new key meets a full map.
Evicted(k, now) ==
    IF k \notin present /\ Cardinality(present) >= MaxKeys
    THEN {x \in present : seen[x] + EvictAge < now} ELSE {}

Kept(k, now) == present \ Evicted(k, now)

\* Mutant of Full: off by one.
FullOneLater(k, now) == k \notin present /\ Cardinality(Kept(k, now)) > MaxKeys

Full(k, now) == k \notin present /\ Cardinality(Kept(k, now)) >= MaxKeys

\* Mutant of Level: an empty new bucket.
LevelFromZero(k, now) ==
    IF k \notin present THEN 0
    ELSE IF now <= seen[k] THEN tokens[k]
    ELSE IF tokens[k] + (now - seen[k]) > Cap[k] THEN Cap[k] ELSE tokens[k] + (now - seen[k])

\* What is in the bucket after the refill.
Level(k, now) ==
    IF k \notin present THEN Cap[k]
    ELSE IF now <= seen[k] THEN tokens[k]
    ELSE IF tokens[k] + (now - seen[k]) > Cap[k] THEN Cap[k] ELSE tokens[k] + (now - seen[k])

Seen(k, now) == IF k \in present /\ now <= seen[k] THEN seen[k] ELSE now

\* Write the bucket back.
Put(k, now, level) ==
    /\ present' = Kept(k, now) \cup {k}
    /\ tokens' = [tokens EXCEPT ![k] = level]
    /\ seen' = [seen EXCEPT ![k] = Seen(k, now)]

\* Enough in the bucket: the request goes on to its next key, or to the handler.
Grant(c) ==
    LET k == Head(todo[c]) now == stamp[c]
    IN /\ todo[c] # <<>> /\ ~Full(k, now)
       /\ Level(k, now) >= Cost[k]
       /\ Put(k, now, Level(k, now) - Cost[k])
       /\ todo' = [todo EXCEPT ![c] = Tail(@)]
       /\ spent' = IF clock >= window THEN [spent EXCEPT ![k] = @ + Cost[k]] ELSE spent
       /\ UNCHANGED <<clock, stamp, window, refused>>

\* Not enough in the bucket: the request is answered 429 and asks for no further key.
Refuse(c) ==
    LET k == Head(todo[c]) now == stamp[c]
    IN /\ todo[c] # <<>> /\ ~Full(k, now)
       /\ Level(k, now) < Cost[k]
       /\ Put(k, now, Level(k, now))
       /\ todo' = [todo EXCEPT ![c] = <<>>]
       /\ refused' = refused \cup {k}
       /\ UNCHANGED <<clock, stamp, window, spent>>

\* No room for the key even after evict.
TurnAway(c) ==
    LET k == Head(todo[c]) now == stamp[c]
    IN /\ todo[c] # <<>> /\ Full(k, now)
       /\ present' = Kept(k, now)
       /\ todo' = [todo EXCEPT ![c] = <<>>]
       /\ UNCHANGED <<clock, tokens, seen, stamp, window, spent, refused>>

Allow(c) == Grant(c) \/ Refuse(c) \/ TurnAway(c)

Middleware(c) == (\E route \in Routes : Arrive(c, route)) \/ Allow(c)

Next == Tick \/ \E c \in Clients : Middleware(c)

Spec == Init /\ [][Next]_vars

-----------------------------------------------------------------------------
(* Properties *)

(***************************************************************************)
(* Every variable has its type, and the store is "bounded": whatever keys  *)
(* requests carry, the map never grows beyond maxKeys and a bucket never   *)
(* beyond its burst.                                                       *)
(***************************************************************************)
TypeOK ==
    /\ clock \in 0..MaxTime
    /\ present \subseteq Keys /\ Cardinality(present) <= MaxKeys
    /\ tokens \in [Keys -> Nat] /\ \A k \in Keys : tokens[k] <= Cap[k]
    /\ seen \in [Keys -> 0..MaxTime]
    /\ todo \in [Clients -> Seq(Keys)]
    /\ stamp \in [Clients -> 0..MaxTime]
    /\ window \in 0..MaxTime
    /\ spent \in [Keys -> Nat]
    /\ refused \subseteq Keys

(***************************************************************************)
(* From whatever moment one counts, a key is granted no more than its      *)
(* burst and what the rate adds, although buckets are evicted and made     *)
(* anew and although requests arrive at them with old times.               *)
(***************************************************************************)
RateHolds ==
    \A k \in Keys : clock >= window => spent[k] <= Cap[k] + (clock - window) + MaxDelay

(***************************************************************************)
(* No client is refused by its own bucket before it has used its burst, so *)
(* the traffic of other keys never takes tokens away.                      *)
(***************************************************************************)
BurstIsFree == window = 0 => \A k \in refused : spent[k] + Cost[k] > Cap[k]
=============================================================================
