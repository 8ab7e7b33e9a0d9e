-------------------------- MODULE RateLimiterProofs --------------------------
(* Proofs about RateLimiter. *)
EXTENDS RateLimiter, FiniteSetTheorems, TLAPS

\* The numbers of the configuration.
LEMMA Numbers ==
    /\ MaxDelay \in Nat /\ EvictAge \in Nat /\ MaxTime \in Nat /\ MaxKeys \in Nat /\ MaxKeys > 0
    /\ \A k \in Keys : Cap[k] \in Nat /\ Cost[k] \in Nat
    /\ \A k \in Keys : Cost[k] <= Cap[k]
    /\ \A k \in Keys : Cap[k] + MaxDelay <= EvictAge
BY LimiterConstants

\* What a refill may add to both sides of an account.
LEMMA Refill ==
    \A s, left, w, c, old, level, now \in Nat :
        s + left + w <= c + old /\ level + old <= left + now => s + level + w <= c + now
OBVIOUS

\* What a bucket made anew may add, if time has paid for what was spent before.
LEMMA Restart ==
    \A s, w, t, level, c, now, d, later \in Nat :
        s + w <= t /\ level <= c /\ t <= now + d /\ now <= later => s + level + w <= c + d + later
OBVIOUS

USE Numbers

(***************************************************************************)
(* The times the limiter sees: none is later than the clock, and that of a *)
(* request in the middleware is at most MaxDelay old.                      *)
(***************************************************************************)
TimeInv ==
    /\ \A k \in Keys : seen[k] <= clock
    /\ \A c \in Clients :
         /\ stamp[c] <= clock
         /\ todo[c] # <<>> => clock <= stamp[c] + MaxDelay

(***************************************************************************)
(* What a key has been granted since the window began, on the account of   *)
(* its bucket: what was spent and what is left came from the burst and     *)
(* from the time between the oldest request the window can see, MaxDelay   *)
(* before it, and the bucket's own time.  A bucket is evicted so late that *)
(* by then time alone pays for all that was spent.                         *)
(***************************************************************************)
Account(k) ==
    IF k \in present
    THEN /\ window <= seen[k] + MaxDelay
         /\ spent[k] + tokens[k] + window <= Cap[k] + MaxDelay + seen[k]
    ELSE spent[k] + window <= clock

SpentInv ==
    \A k \in Keys :
      /\ clock < window => spent[k] = 0
      /\ spent[k] > 0 => Account(k)

(***************************************************************************)
(* Counted from the start, a bucket holds at least what is left of the     *)
(* burst.                                                                  *)
(***************************************************************************)
BurstInv ==
    window = 0 => \A k \in present : tokens[k] + spent[k] >= Cap[k]

Inv == TypeOK /\ TimeInv /\ SpentInv /\ BurstInv /\ BurstIsFree

-----------------------------------------------------------------------------
(* The operators of Allow *)

\* A bucket never holds more than its burst, nor less than it did; it gains at most the time passed.
LEMMA LevelFacts ==
    ASSUME TypeOK, NEW k \in Keys, NEW now \in 0 .. MaxTime
    PROVE  /\ Level(k, now) \in Nat /\ Level(k, now) <= Cap[k]
           /\ k \notin present => Level(k, now) = Cap[k]
           /\ k \in present => Level(k, now) >= tokens[k]
           /\ k \in present => Level(k, now) + seen[k] <= tokens[k] + Seen(k, now)
BY DEF TypeOK, Level, Seen

\* The time of a bucket does not go back, and is that of some request.
LEMMA SeenFacts ==
    ASSUME TypeOK, TimeInv, NEW k \in Keys, NEW c \in Clients
    PROVE  /\ Seen(k, stamp[c]) \in 0 .. MaxTime
           /\ Seen(k, stamp[c]) >= stamp[c] /\ Seen(k, stamp[c]) <= clock
           /\ k \in present => Seen(k, stamp[c]) >= seen[k]
BY DEF TypeOK, TimeInv, Seen

\* evict leaves a present key's map alone, and Allow adds a key only where there is room.
LEMMA MapIsBounded ==
    ASSUME TypeOK, NEW k \in Keys, NEW now
    PROVE  /\ Kept(k, now) \subseteq Keys /\ Cardinality(Kept(k, now)) <= MaxKeys
           /\ ~Full(k, now) => Cardinality(Kept(k, now) \cup {k}) <= MaxKeys
           /\ k \in present => Kept(k, now) = present
<1>1. IsFiniteSet(present) /\ present \subseteq Keys /\ Cardinality(present) <= MaxKeys
  BY FS_Subset, LimiterConstants DEF TypeOK
<1>2. Kept(k, now) \subseteq present
  BY DEF Kept
<1>3. /\ IsFiniteSet(Kept(k, now))
      /\ Cardinality(Kept(k, now)) \in Nat
      /\ Cardinality(present) \in Nat
      /\ Cardinality(Kept(k, now)) <= Cardinality(present)
  BY <1>1, <1>2, FS_Subset, FS_CardinalityType
<1>4. k \in present => Kept(k, now) = present
  BY DEF Kept, Evicted
<1>5. k \in present => Kept(k, now) \cup {k} = present
  BY <1>4
<1>6. ASSUME k \notin present, ~Full(k, now) PROVE Cardinality(Kept(k, now) \cup {k}) <= MaxKeys
  <2>1. Cardinality(Kept(k, now)) < MaxKeys
    BY <1>3, <1>6 DEF Full
  <2>2. Cardinality(Kept(k, now) \cup {k}) = Cardinality(Kept(k, now)) + 1
    BY <1>2, <1>3, <1>6, FS_AddElement
  <2>3. QED
    BY <1>3, <2>1, <2>2
<1>7. Cardinality(Kept(k, now)) <= MaxKeys
  BY <1>1, <1>3
<1>8. ~Full(k, now) => Cardinality(Kept(k, now) \cup {k}) <= MaxKeys
  BY <1>1, <1>5, <1>6
<1>9. QED
  BY <1>1, <1>2, <1>4, <1>7, <1>8

\* A bucket is evicted only when the clock alone pays for what was spent from it.
LEMMA EvictedIsPaid ==
    ASSUME Inv, NEW c \in Clients, NEW k \in Keys, NEW x \in Evicted(k, stamp[c]), spent[x] > 0
    PROVE  spent[x] + window <= clock
<1>1. x \in present /\ x \in Keys /\ seen[x] + EvictAge < stamp[c]
  BY DEF Evicted, Inv, TypeOK
<1>2. spent[x] + tokens[x] + window <= Cap[x] + MaxDelay + seen[x]
  BY <1>1 DEF Inv, SpentInv, Account
<1>3. stamp[c] <= clock
  BY DEF Inv, TimeInv
<1>4. Cap[x] + MaxDelay <= EvictAge /\ Cap[x] \in Nat /\ MaxDelay \in Nat /\ EvictAge \in Nat
  BY <1>1
<1>5. /\ spent[x] \in Nat /\ tokens[x] \in Nat /\ window \in Nat
      /\ seen[x] \in Nat /\ stamp[c] \in Nat /\ clock \in Nat
  BY <1>1 DEF Inv, TypeOK
<1>6. QED
  BY <1>1, <1>2, <1>3, <1>4, <1>5

-----------------------------------------------------------------------------
(* The steps *)

(***************************************************************************)
(* Allow writes a bucket back with n units less than its level: a granted  *)
(* request takes its cost, a refused one nothing.                          *)
(***************************************************************************)
LEMMA PutInv ==
    ASSUME Inv, NEW c \in Clients, NEW k \in Keys, NEW n \in Nat,
           todo[c] # <<>>, ~Full(k, stamp[c]),
           n <= Level(k, stamp[c]), Put(k, stamp[c], Level(k, stamp[c]) - n),
           UNCHANGED <<clock, window>>,
           spent' = IF clock >= window THEN [spent EXCEPT ![k] = @ + n] ELSE spent
    PROVE  /\ present' \subseteq Keys /\ Cardinality(present') <= MaxKeys
           /\ tokens' \in [Keys -> Nat] /\ \A x \in Keys : tokens'[x] <= Cap[x]
           /\ seen' \in [Keys -> 0 .. MaxTime]
           /\ spent' \in [Keys -> Nat] /\ \A x \in Keys : spent'[x] >= spent[x]
           /\ \A x \in Keys : seen'[x] <= clock
           /\ SpentInv' /\ BurstInv'
<1> DEFINE now == stamp[c]
           level == Level(k, now)
<1>1. /\ present' = Kept(k, now) \cup {k}
      /\ tokens' = [tokens EXCEPT ![k] = level - n]
      /\ seen' = [seen EXCEPT ![k] = Seen(k, now)]
  BY DEF Put
<1>2. /\ present \subseteq Keys
      /\ tokens \in [Keys -> Nat] /\ \A x \in Keys : tokens[x] <= Cap[x]
      /\ seen \in [Keys -> 0 .. MaxTime] /\ spent \in [Keys -> Nat]
      /\ clock \in Nat /\ window \in Nat /\ now \in 0 .. MaxTime
      /\ now \in Nat /\ Cap[k] \in Nat /\ MaxDelay \in Nat
  <2>1. TypeOK
    BY DEF Inv
  <2>2. now \in 0 .. MaxTime /\ clock \in 0 .. MaxTime /\ window \in 0 .. MaxTime
    BY <2>1 DEF TypeOK
  <2>3. now \in Nat /\ clock \in Nat /\ window \in Nat
    BY <2>2
  <2>4. QED
    BY <2>1, <2>2, <2>3 DEF TypeOK
<1>3. /\ level \in Nat /\ level <= Cap[k] /\ (k \notin present => level = Cap[k])
      /\ k \in present => level >= tokens[k] /\ level + seen[k] <= tokens[k] + Seen(k, now)
  BY <1>2, LevelFacts DEF Inv
<1>4. /\ Seen(k, now) \in 0 .. MaxTime /\ Seen(k, now) >= now /\ Seen(k, now) <= clock
      /\ k \in present => Seen(k, now) >= seen[k]
  BY SeenFacts DEF Inv
<1>5. clock <= now + MaxDelay
  BY DEF Inv, TimeInv
<1> HIDE DEF level, now
<1>6. present' \subseteq Keys /\ Cardinality(present') <= MaxKeys
  BY <1>1, MapIsBounded DEF Inv, now
<1>7. /\ tokens' \in [Keys -> Nat] /\ \A x \in Keys : tokens'[x] <= Cap[x]
      /\ tokens'[k] = level - n
      /\ \A x \in Keys : x # k => tokens'[x] = tokens[x]
  <2>1. level - n \in Nat /\ level - n <= Cap[k]
    BY <1>3 DEF level, now
  <2>2. QED
    BY <1>1, <1>2, <2>1
<1>8. /\ seen' \in [Keys -> 0 .. MaxTime] /\ seen'[k] = Seen(k, now)
      /\ \A x \in Keys : x # k => seen'[x] = seen[x]
      /\ \A x \in Keys : seen'[x] <= clock
  BY <1>1, <1>2, <1>4 DEF Inv, TimeInv
<1>9. /\ spent' \in [Keys -> Nat] /\ \A x \in Keys : spent'[x] >= spent[x]
      /\ \A x \in Keys : x # k => spent'[x] = spent[x]
      /\ spent'[k] = IF clock >= window THEN spent[k] + n ELSE spent[k]
  BY <1>2
<1>10. \A x \in Keys : clock < window => spent'[x] = 0
  BY <1>2 DEF Inv, SpentInv
<1>11. ASSUME NEW x \in Keys, x # k, spent'[x] > 0 PROVE Account(x)'
  <2>1. spent[x] > 0 /\ spent'[x] = spent[x] /\ tokens'[x] = tokens[x] /\ seen'[x] = seen[x]
    BY <1>7, <1>8, <1>9, <1>11
  <2>2. Account(x)
    BY <2>1 DEF Inv, SpentInv
  <2>3. CASE x \in present'
    <3>1. x \in present
      BY <1>1, <1>11, <2>3 DEF Kept
    <3>2. QED
      BY <2>1, <2>2, <2>3, <3>1 DEF Account
  <2>4. CASE x \notin present' /\ x \in present
    <3>1. x \in Evicted(k, now)
      BY <1>1, <2>4 DEF Kept
    <3>2. QED
      BY <2>1, <2>4, <3>1, EvictedIsPaid DEF Account, now
  <2>5. CASE x \notin present' /\ x \notin present
    BY <2>1, <2>2, <2>5 DEF Account
  <2>6. QED
    BY <2>3, <2>4, <2>5
<1>12. ASSUME spent'[k] > 0 PROVE Account(k)'
  <2>1. clock >= window
    BY <1>2, <1>9, <1>10, <1>12
  <2>2. spent'[k] = spent[k] + n /\ spent'[k] + tokens'[k] = spent[k] + level
    BY <1>2, <1>3, <1>7, <1>9, <2>1
  <2>3. window <= Seen(k, now) + MaxDelay
    BY <1>2, <1>4, <1>5, <2>1
  <2>4. spent[k] + level + window <= Cap[k] + MaxDelay + Seen(k, now)
    <3> DEFINE seenNow == Seen(k, now)
    <3>0. /\ seenNow \in Nat /\ level \in Nat /\ spent[k] \in Nat
          /\ tokens[k] \in Nat /\ seen[k] \in Nat /\ window \in Nat /\ Cap[k] \in Nat
          /\ clock \in Nat /\ now \in Nat
          /\ seenNow + MaxDelay >= window /\ seenNow >= now /\ clock <= now + MaxDelay
          /\ level <= Cap[k]
      BY <1>2, <1>3, <1>4, <1>5, <2>3
    <3>  SUFFICES spent[k] + level + window <= Cap[k] + MaxDelay + seenNow
      OBVIOUS
    <3>5. k \in present => level + seen[k] <= tokens[k] + seenNow
      BY <1>3
    <3> HIDE DEF seenNow
    <3>1. CASE spent[k] = 0
      BY <3>0, <3>1
    <3>2. CASE spent[k] > 0 /\ k \in present
      <4>1. spent[k] + tokens[k] + window <= Cap[k] + MaxDelay + seen[k]
        BY <3>2 DEF Inv, SpentInv, Account
      <4>2. level + seen[k] <= tokens[k] + seenNow
        BY <3>2, <3>5
      <4>3. /\ Cap[k] + MaxDelay \in Nat
            /\ spent[k] + tokens[k] + window <= (Cap[k] + MaxDelay) + seen[k]
        BY <3>0, <4>1
      <4>4. spent[k] + level + window <= (Cap[k] + MaxDelay) + seenNow
        BY <3>0, <4>2, <4>3, Refill
      <4>5. QED
        BY <3>0, <4>4
    <3>3. CASE spent[k] > 0 /\ k \notin present
      <4>1. spent[k] + window <= clock
        BY <3>3 DEF Inv, SpentInv, Account
      <4>2. MaxDelay \in Nat /\ now <= seenNow
        BY <3>0
      <4> HIDE DEF level, now
      <4>3. QED
        BY <3>0, <4>1, <4>2, Restart
    <3>4. QED
      BY <3>0, <3>1, <3>2, <3>3
  <2>5. k \in present'
    BY <1>1
  <2>6. QED
    BY <1>8, <2>2, <2>3, <2>4, <2>5 DEF Account
<1>13. SpentInv'
  BY <1>10, <1>11, <1>12 DEF SpentInv
<1>14. BurstInv'
  <2> SUFFICES ASSUME window = 0, NEW x \in present' PROVE tokens'[x] + spent'[x] >= Cap[x]
    BY DEF BurstInv
  <2>1. CASE x = k
    <3>1. tokens'[k] + spent'[k] = level + spent[k]
      BY <1>2, <1>3, <1>7, <1>9
    <3>2. k \in present => tokens[k] + spent[k] >= Cap[k]
      BY DEF Inv, BurstInv
    <3>3. QED
      BY <1>2, <1>3, <2>1, <3>1, <3>2
  <2>2. CASE x # k
    <3>1. x \in present /\ x \in Keys
      BY <1>1, <1>6, <2>2 DEF Kept
    <3>2. QED
      BY <1>7, <1>9, <2>2, <3>1 DEF Inv, BurstInv
  <2>3. QED
    BY <2>1, <2>2
<1>15. QED
  BY <1>6, <1>7, <1>8, <1>9, <1>13, <1>14

\* The key a request asks for is a key, and what is left of its route is a route.
LEMMA RouteFacts ==
    ASSUME TypeOK, NEW c \in Clients, todo[c] # <<>>
    PROVE  Head(todo[c]) \in Keys /\ Tail(todo[c]) \in Seq(Keys)
BY DEF TypeOK

\* Every step of a request and of the clock keeps the accounts.
LEMMA StepInv == Inv /\ [Next]_vars => Inv'
<1> SUFFICES ASSUME Inv, [Next]_vars PROVE Inv'
  OBVIOUS
<1>1. CASE UNCHANGED vars
  BY <1>1 DEF vars, buckets, Inv, TypeOK, TimeInv, SpentInv, Account, BurstInv, BurstIsFree
<1>2. CASE Tick
  <2>1. /\ clock < MaxTime /\ clock' = clock + 1
        /\ \A c \in Clients : todo[c] # <<>> => clock < stamp[c] + MaxDelay
        /\ UNCHANGED <<present, tokens, seen, todo, stamp, window, spent, refused>>
    BY <1>2 DEF Tick, buckets
  <2>2. TypeOK'
    BY <2>1 DEF Inv, TypeOK
  <2>3. TimeInv'
    BY <2>1 DEF Inv, TypeOK, TimeInv
  <2>4. SpentInv'
    BY <2>1 DEF Inv, TypeOK, SpentInv, Account
  <2>5. BurstInv' /\ BurstIsFree'
    BY <2>1 DEF Inv, BurstInv, BurstIsFree
  <2>6. QED
    BY <2>2, <2>3, <2>4, <2>5 DEF Inv
<1>3. ASSUME NEW c \in Clients, NEW route \in Routes, Arrive(c, route) PROVE Inv'
  <2>1. /\ todo' = [todo EXCEPT ![c] = route]
        /\ stamp' = [stamp EXCEPT ![c] = clock]
        /\ UNCHANGED <<clock, present, tokens, seen, window, spent, refused>>
    BY <1>3 DEF Arrive, buckets
  <2>2. TypeOK'
    BY <2>1, LimiterConstants DEF Inv, TypeOK
  <2>3. TimeInv'
    BY <2>1 DEF Inv, TypeOK, TimeInv
  <2>4. SpentInv' /\ BurstInv' /\ BurstIsFree'
    BY <2>1 DEF Inv, SpentInv, Account, BurstInv, BurstIsFree
  <2>5. QED
    BY <2>2, <2>3, <2>4 DEF Inv
<1>4. ASSUME NEW c \in Clients, Grant(c) PROVE Inv'
  <2> DEFINE k == Head(todo[c])
  <2>1. /\ todo[c] # <<>> /\ ~Full(k, stamp[c])
        /\ Cost[k] <= Level(k, stamp[c])
        /\ Put(k, stamp[c], Level(k, stamp[c]) - Cost[k])
        /\ todo' = [todo EXCEPT ![c] = Tail(@)]
        /\ spent' = IF clock >= window THEN [spent EXCEPT ![k] = @ + Cost[k]] ELSE spent
        /\ UNCHANGED <<clock, stamp, window, refused>>
    BY <1>4, RouteFacts, LevelFacts DEF Grant, Inv, TypeOK
  <2>2. k \in Keys /\ Tail(todo[c]) \in Seq(Keys) /\ Cost[k] \in Nat
    BY <2>1, RouteFacts DEF Inv
  <2> HIDE DEF k
  <2>3. /\ present' \subseteq Keys /\ Cardinality(present') <= MaxKeys
        /\ tokens' \in [Keys -> Nat] /\ \A x \in Keys : tokens'[x] <= Cap[x]
        /\ seen' \in [Keys -> 0 .. MaxTime]
        /\ spent' \in [Keys -> Nat] /\ \A x \in Keys : spent'[x] >= spent[x]
        /\ \A x \in Keys : seen'[x] <= clock
        /\ SpentInv' /\ BurstInv'
    BY <2>1, <2>2, PutInv
  <2>4. TypeOK'
    BY <2>1, <2>2, <2>3 DEF Inv, TypeOK
  <2>5. TimeInv'
    BY <2>1, <2>2, <2>3 DEF Inv, TypeOK, TimeInv
  <2>6. BurstIsFree'
    <3>1. \A x \in refused : x \in Keys /\ spent[x] \in Nat /\ spent'[x] \in Nat
      BY <2>3 DEF Inv, TypeOK
    <3>2. QED
      BY <2>1, <2>3, <3>1 DEF Inv, BurstIsFree
  <2>7. QED
    BY <2>3, <2>4, <2>5, <2>6 DEF Inv
<1>5. ASSUME NEW c \in Clients, Refuse(c) PROVE Inv'
  <2> DEFINE k == Head(todo[c])
  <2>1. /\ todo[c] # <<>> /\ ~Full(k, stamp[c])
        /\ Level(k, stamp[c]) < Cost[k]
        /\ Put(k, stamp[c], Level(k, stamp[c]))
        /\ todo' = [todo EXCEPT ![c] = <<>>]
        /\ refused' = refused \cup {k}
        /\ UNCHANGED <<clock, stamp, window, spent>>
    BY <1>5 DEF Refuse
  <2>2. k \in Keys /\ stamp[c] \in 0 .. MaxTime /\ spent \in [Keys -> Nat]
    BY <2>1, RouteFacts DEF Inv, TypeOK
  <2> HIDE DEF k
  <2>3. /\ Level(k, stamp[c]) \in Nat
        /\ k \notin present => Level(k, stamp[c]) = Cap[k]
        /\ k \in present => Level(k, stamp[c]) >= tokens[k]
    BY <2>2, LevelFacts DEF Inv
  <2>4. /\ Level(k, stamp[c]) - 0 = Level(k, stamp[c])
        /\ spent' = IF clock >= window THEN [spent EXCEPT ![k] = @ + 0] ELSE spent
    BY <2>1, <2>2, <2>3
  <2>5. /\ present' \subseteq Keys /\ Cardinality(present') <= MaxKeys
        /\ tokens' \in [Keys -> Nat] /\ \A x \in Keys : tokens'[x] <= Cap[x]
        /\ seen' \in [Keys -> 0 .. MaxTime]
        /\ \A x \in Keys : seen'[x] <= clock
        /\ SpentInv' /\ BurstInv'
    <3>1. Put(k, stamp[c], Level(k, stamp[c]) - 0) /\ 0 <= Level(k, stamp[c])
      BY <2>1, <2>3, <2>4
    <3>2. QED
      BY <2>1, <2>2, <2>4, <3>1, PutInv
  <2>6. TypeOK'
    <3>1. todo' \in [Clients -> Seq(Keys)] /\ refused' \subseteq Keys
      BY <2>1, <2>2 DEF Inv, TypeOK
    <3>2. QED
      BY <2>1, <2>2, <2>5, <3>1 DEF Inv, TypeOK
  <2>7. TimeInv'
    BY <2>1, <2>2, <2>5 DEF Inv, TypeOK, TimeInv
  <2>8. BurstIsFree'
    <3>1. ASSUME window = 0 PROVE spent[k] + Cost[k] > Cap[k]
      <4>1. k \in present
        BY <2>1, <2>2, <2>3
      <4>2. tokens[k] + spent[k] >= Cap[k]
        BY <3>1, <4>1 DEF Inv, BurstInv
      <4>3. tokens[k] \in Nat /\ spent[k] \in Nat
        BY <2>2 DEF Inv, TypeOK
      <4>4. QED
        BY <2>1, <2>2, <2>3, <4>1, <4>2, <4>3
    <3>2. QED
      BY <2>1, <3>1 DEF Inv, BurstIsFree
  <2>9. QED
    BY <2>5, <2>6, <2>7, <2>8 DEF Inv
<1>6. ASSUME NEW c \in Clients, TurnAway(c) PROVE Inv'
  <2> DEFINE k == Head(todo[c])
  <2>1. /\ todo[c] # <<>>
        /\ present' = Kept(k, stamp[c])
        /\ todo' = [todo EXCEPT ![c] = <<>>]
        /\ UNCHANGED <<clock, tokens, seen, stamp, window, spent, refused>>
    BY <1>6 DEF TurnAway
  <2>2. k \in Keys
    BY <2>1, RouteFacts DEF Inv
  <2> HIDE DEF k
  <2>3. present' \subseteq Keys /\ Cardinality(present') <= MaxKeys
    BY <2>1, <2>2, MapIsBounded DEF Inv
  <2>4. TypeOK'
    BY <2>1, <2>3 DEF Inv, TypeOK
  <2>5. TimeInv'
    BY <2>1 DEF Inv, TypeOK, TimeInv
  <2>6. SpentInv'
    <3>1. ASSUME NEW x \in Keys, spent[x] > 0 PROVE Account(x)'
      <4>1. CASE x \in Evicted(k, stamp[c])
        BY <2>1, <2>2, <3>1, <4>1, EvictedIsPaid DEF Account, Kept
      <4>2. CASE x \notin Evicted(k, stamp[c])
        BY <2>1, <3>1, <4>2 DEF Inv, SpentInv, Account, Kept
      <4>3. QED
        BY <4>1, <4>2
    <3>2. QED
      BY <2>1, <3>1 DEF Inv, SpentInv
  <2>7. BurstInv' /\ BurstIsFree'
    BY <2>1 DEF Inv, BurstInv, BurstIsFree, Kept
  <2>8. QED
    BY <2>4, <2>5, <2>6, <2>7 DEF Inv
<1>7. QED
  BY <1>1, <1>2, <1>3, <1>4, <1>5, <1>6 DEF Next, Middleware, Allow

\* An empty map and idle clients.
LEMMA InitInv == Init => Inv
<1> SUFFICES ASSUME Init PROVE Inv
  OBVIOUS
<1>1. Cardinality({}) = 0
  BY FS_EmptySet
<1>2. TypeOK
  BY <1>1 DEF Init, TypeOK
<1>3. QED
  BY <1>2 DEF Init, Inv, TimeInv, SpentInv, BurstInv, BurstIsFree

(***************************************************************************)
(* The accounts of Allow are right in every reachable state.               *)
(***************************************************************************)
THEOREM Invariance == Spec => []Inv
<1>1. QED
  BY InitInv, StepInv, PTL DEF Spec

(***************************************************************************)
(* The map of the limiter never holds more than maxKeys buckets and no     *)
(* bucket more than its burst, for any keys, routes, clients and limits.   *)
(***************************************************************************)
THEOREM BoundedStore == Spec => []TypeOK
<1>1. Inv => TypeOK
  BY DEF Inv
<1>2. QED
  BY <1>1, Invariance, PTL

(***************************************************************************)
(* Allow keeps the rate of every key from whatever moment one counts,      *)
(* although evict forgets buckets and stamps arrive out of order.          *)
(***************************************************************************)
THEOREM RateIsKept == Spec => []RateHolds
<1>1. Inv => RateHolds
  <2> SUFFICES ASSUME Inv, NEW k \in Keys, clock >= window
               PROVE  spent[k] <= Cap[k] + (clock - window) + MaxDelay
    BY DEF RateHolds
  <2>1. /\ spent[k] \in Nat /\ tokens[k] \in Nat /\ window \in Nat
        /\ seen[k] \in Nat /\ clock \in Nat /\ Cap[k] \in Nat
    BY DEF Inv, TypeOK
  <2>2. seen[k] <= clock
    BY DEF Inv, TimeInv
  <2>3. spent[k] > 0 => Account(k)
    BY DEF Inv, SpentInv
  <2>4. MaxDelay \in Nat
    OBVIOUS
  <2>5. CASE spent[k] = 0
    BY <2>1, <2>4, <2>5
  <2>6. CASE spent[k] > 0 /\ k \in present
    BY <2>1, <2>2, <2>3, <2>4, <2>6 DEF Account
  <2>7. CASE spent[k] > 0 /\ k \notin present
    BY <2>1, <2>3, <2>4, <2>7 DEF Account
  <2>8. QED
    BY <2>1, <2>5, <2>6, <2>7
<1>2. QED
  BY <1>1, Invariance, PTL

(***************************************************************************)
(* No key is refused by its own bucket before it has used its burst.       *)
(***************************************************************************)
THEOREM BurstIsGranted == Spec => []BurstIsFree
<1>1. Inv => BurstIsFree
  BY DEF Inv
<1>2. QED
  BY <1>1, Invariance, PTL
=============================================================================
