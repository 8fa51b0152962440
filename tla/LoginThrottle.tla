---------------------------- MODULE LoginThrottle ----------------------------
(***************************************************************************)
(* The token buckets that throttle password logins (auth/ratelimit.go):    *)
(* one limiter per client address and one per username, each a map bounded *)
(* in size whose idle buckets are pruned.  Every call holds the limiter's  *)
(* mutex from start to end, so it is one step.                             *)
(***************************************************************************)
EXTENDS Integers, FiniteSets

CONSTANTS
  Limiters,    \* the limiters of the process
  Keys,        \* addresses and usernames
  Burst,       \* Burst[lim]: tokens of a full bucket
  Interval,    \* Interval[lim]: time to regain one token
  MaxKeys,     \* MaxKeys[lim]: buckets the map may hold
  PruneEvery,  \* how often idle buckets are swept
  MaxTime      \* bound: the clock stops here

ASSUME ThrottleAssumption ==
  /\ Burst \in [Limiters -> Nat] /\ Interval \in [Limiters -> Nat \ {0}]
  /\ MaxKeys \in [Limiters -> Nat]
  /\ PruneEvery \in Nat /\ MaxTime \in Nat
  /\ IsFiniteSet(Keys)

VARIABLES
  now,        \* the clock
  tracked,    \* tracked[lim]: the keys of the map `buckets`
  bucket,     \* bucket[lim][k]: the bucket, or NoBucket if k is not tracked
  lastPrune,  \* lastPrune[lim]: when idle buckets were last swept
  ideal       \* ghost: tokens of a limiter that regains them all the time and
              \* forgets nobody

throttleVars == <<now, tracked, bucket, lastPrune, ideal>>

-----------------------------------------------------------------------------

\* A token is worth Interval[lim] units of time, so that fractions stay exact.
Full(lim) == Burst[lim] * Interval[lim]

Bucket == [credit: Nat, last: Nat]
NoBucket == [credit |-> 0, last |-> 0]

\* What is regained in `time`, up to a full bucket.
Regained(lim, credit, time) == IF credit + time < Full(lim) THEN credit + time ELSE Full(lim)

\* refillLocked
Refilled(lim, b) == [credit |-> Regained(lim, b.credit, now - b.last), last |-> now]

\* A token is taken if there is one.
Spent(lim, credit) == IF credit >= Interval[lim] THEN credit - Interval[lim] ELSE credit

\* A new bucket, or one that was idle for long.
Fresh(lim) == [credit |-> Full(lim), last |-> now]

Prunes(lim) ==
  \/ Cardinality(tracked[lim]) >= MaxKeys[lim]
  \/ now - lastPrune[lim] >= PruneEvery

\* Faulty: a bucket goes as soon as it holds a token.
Kept_Eager(lim) ==
  IF Prunes(lim) THEN {k \in tracked[lim] : Refilled(lim, bucket[lim][k]).credit < Interval[lim]}
  ELSE tracked[lim]

\* The keys pruneLocked leaves.
Kept(lim) ==
  IF Prunes(lim) THEN {k \in tracked[lim] : Refilled(lim, bucket[lim][k]).credit < Full(lim)}
  ELSE tracked[lim]

\* ... and the bucket each key then has.
Swept(lim) == [k \in Keys |-> IF k \notin Kept(lim) THEN NoBucket
                              ELSE IF Prunes(lim) THEN Refilled(lim, bucket[lim][k])
                              ELSE bucket[lim][k]]

\* Faulty: new keys are always tracked.
Crowded_Never(lim, k) == FALSE

\* Full even after pruning: a new key is refused rather than tracked.
Crowded(lim, k) == k \notin Kept(lim) /\ Cardinality(Kept(lim)) >= MaxKeys[lim]

\* The bucket allow looks at.
Looked(lim, k) == IF k \in Kept(lim) THEN Refilled(lim, Swept(lim)[k]) ELSE Fresh(lim)

Granted(lim, k) == ~Crowded(lim, k) /\ Looked(lim, k).credit >= Interval[lim]

\* allow: prune, then take a token if there is one.
Allow(lim, k) ==
  /\ lastPrune' = [lastPrune EXCEPT ![lim] = IF Prunes(lim) THEN now ELSE @]
  /\ IF Crowded(lim, k)
     THEN /\ tracked' = [tracked EXCEPT ![lim] = Kept(lim)]
          /\ bucket' = [bucket EXCEPT ![lim] = Swept(lim)]
          /\ UNCHANGED ideal
     ELSE /\ tracked' = [tracked EXCEPT ![lim] = Kept(lim) \cup {k}]
          /\ bucket' = [bucket EXCEPT ![lim] =
                         [Swept(lim) EXCEPT ![k] = [credit |-> Spent(lim, Looked(lim, k).credit),
                                                    last |-> now]]]
          /\ ideal' = [ideal EXCEPT ![lim][k] = Spent(lim, @)]
  /\ UNCHANGED now

\* reset: the key is forgotten, and with it what was spent.
Reset(lim, k) ==
  /\ tracked' = [tracked EXCEPT ![lim] = @ \ {k}]
  /\ bucket' = [bucket EXCEPT ![lim][k] = NoBucket]
  /\ ideal' = [ideal EXCEPT ![lim][k] = Full(lim)]
  /\ UNCHANGED <<now, lastPrune>>

Tick ==
  /\ now < MaxTime
  /\ now' = now + 1
  /\ ideal' = [lim \in Limiters |-> [k \in Keys |-> Regained(lim, ideal[lim][k], 1)]]
  /\ UNCHANGED <<tracked, bucket, lastPrune>>

\* The zero time of lastPrune is long ago.
ThrottleInit ==
  /\ now = 0
  /\ tracked = [lim \in Limiters |-> {}]
  /\ bucket = [lim \in Limiters |-> [k \in Keys |-> NoBucket]]
  /\ lastPrune = [lim \in Limiters |-> -PruneEvery]
  /\ ideal = [lim \in Limiters |-> [k \in Keys |-> Full(lim)]]

ThrottleNext ==
  \/ Tick
  \/ \E lim \in Limiters, k \in Keys : Allow(lim, k) \/ Reset(lim, k)

ThrottleSpec == ThrottleInit /\ [][ThrottleNext]_throttleVars

-----------------------------------------------------------------------------

ThrottleTypeOK ==
  /\ now \in 0..MaxTime
  /\ tracked \in [Limiters -> SUBSET Keys]
  /\ bucket \in [Limiters -> [Keys -> Bucket]]
  /\ lastPrune \in [Limiters -> -PruneEvery..MaxTime]
  /\ ideal \in [Limiters -> [Keys -> Nat]]

\* Pruning is not seen: a tracked key has the tokens it would have in a limiter
\* that refills all the time and keeps every bucket for ever, and a key without a
\* bucket would have them all (the comment on pruneLocked: dropped buckets are
\* equivalent to fresh ones).  So no sweep gives an attempt away, and none takes
\* one.
PruningUnseen ==
  \A lim \in Limiters, k \in Keys :
    ideal[lim][k] = IF k \in tracked[lim] THEN Refilled(lim, bucket[lim][k]).credit
                    ELSE Full(lim)

\* The maps stay bounded (loginLimiterMaxKeys), whatever keys are asked for.
MapsBounded == \A lim \in Limiters : Cardinality(tracked[lim]) <= MaxKeys[lim]
=============================================================================
