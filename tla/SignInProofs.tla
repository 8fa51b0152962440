---------------------------- MODULE SignInProofs ----------------------------
(* Theorems about LoginThrottle, for any number of limiters and keys, any   *)
(* burst, interval and bound, and any clock; and about SignIn, whose steps  *)
(* are calls of LoginThrottle, so that they hold of it too: its types, and  *)
(* that a session token never changes its user and a cookie tells who has   *)
(* signed in.  For any number of requests, users, tokens and bounds.        *)
EXTENDS SignIn, FiniteSetTheorems, TLAPS

-----------------------------------------------------------------------------
(* The throttle: the token buckets of LoginThrottle.                       *)

\* No bucket was refilled in the future.
InOrder == \A lim \in Limiters, k \in Keys : bucket[lim][k].last <= now

ThrottleInv == ThrottleTypeOK /\ InOrder /\ PruningUnseen /\ MapsBounded

-----------------------------------------------------------------------------
(* What the operators on buckets compute.                                  *)

\* A full bucket is a natural number of units, and so is a token.
LEMMA FullIsNat ==
  ASSUME NEW lim \in Limiters
  PROVE  Full(lim) \in Nat /\ Interval[lim] \in Nat /\ MaxKeys[lim] \in Nat
<1>1. Burst[lim] \in Nat /\ Interval[lim] \in Nat /\ MaxKeys[lim] \in Nat
  BY ThrottleAssumption
<1> QED BY <1>1 DEF Full

\* What is regained is no more than a full bucket.
LEMMA RegainedFacts ==
  ASSUME NEW lim \in Limiters, NEW c \in Nat, NEW d \in Nat
  PROVE  Regained(lim, c, d) \in Nat /\ Regained(lim, c, d) <= Full(lim)
BY FullIsNat DEF Regained

\* It is the same to refill once or in two steps: refillLocked may be called at
\* any time.
LEMMA RegainedInSteps ==
  ASSUME NEW lim \in Limiters, NEW c \in Nat, NEW d \in Nat, NEW e \in Nat
  PROVE  Regained(lim, Regained(lim, c, d), e) = Regained(lim, c, d + e)
<1>1. Full(lim) \in Nat
  BY FullIsNat
<1>2. CASE c + d < Full(lim)
  <2>1. Regained(lim, c, d) = c + d
    BY <1>2 DEF Regained
  <2> QED BY <2>1 DEF Regained
<1>3. CASE ~(c + d < Full(lim))
  <2>1. Regained(lim, c, d) = Full(lim) /\ ~(c + (d + e) < Full(lim))
    BY <1>1, <1>3 DEF Regained
  <2>2. ~(Full(lim) + e < Full(lim))
    BY <1>1
  <2> QED BY <2>1, <2>2 DEF Regained
<1> QED BY <1>2, <1>3

\* refillLocked: a bucket of now, no fuller than full.
LEMMA RefilledFacts ==
  ASSUME NEW lim \in Limiters, NEW b \in Bucket, now \in Nat, b.last <= now
  PROVE  /\ Refilled(lim, b) \in Bucket
         /\ Refilled(lim, b).last = now
         /\ Refilled(lim, b).credit <= Full(lim)
<1>1. b.credit \in Nat /\ now - b.last \in Nat
  BY DEF Bucket
<1>2. Regained(lim, b.credit, now - b.last) \in Nat /\ Regained(lim, b.credit, now - b.last) <= Full(lim)
  BY <1>1, RegainedFacts
<1> QED BY <1>2 DEF Refilled, Bucket

\* To refill a bucket of now adds nothing.
LEMMA RefilledNow ==
  ASSUME NEW lim \in Limiters, now \in Nat, NEW c \in Nat, c <= Full(lim)
  PROVE  Refilled(lim, [credit |-> c, last |-> now]).credit = c
<1>1. Full(lim) \in Nat /\ now - now = 0 /\ c + 0 = c
  BY FullIsNat
<1>2. Regained(lim, c, 0) = c
  BY <1>1 DEF Regained
<1> QED BY <1>1, <1>2 DEF Refilled

\* A second refill changes nothing.
LEMMA RefilledTwice ==
  ASSUME NEW lim \in Limiters, NEW b \in Bucket, now \in Nat, b.last <= now
  PROVE  Refilled(lim, Refilled(lim, b)).credit = Refilled(lim, b).credit
<1> DEFINE c == Refilled(lim, b)
<1>1. c \in Bucket /\ c.last = now /\ c.credit <= Full(lim)
  BY RefilledFacts
<1>2. c.credit \in Nat /\ c = [credit |-> c.credit, last |-> now]
  BY <1>1 DEF Bucket
<1> HIDE DEF c
<1>3. Refilled(lim, c).credit = c.credit
  BY <1>1, <1>2, RefilledNow
<1> QED BY <1>3 DEF c

\* A token is taken or none, never more than there are.
LEMMA SpentFacts ==
  ASSUME NEW lim \in Limiters, NEW c \in Nat
  PROVE  Spent(lim, c) \in Nat /\ Spent(lim, c) <= c
BY FullIsNat DEF Spent

-----------------------------------------------------------------------------
(* What pruning does.                                                      *)

\* What is known of one bucket.
LEMMA BucketTypes ==
  ASSUME ThrottleTypeOK, InOrder, NEW lim \in Limiters, NEW k \in Keys
  PROVE  /\ now \in Nat
         /\ bucket[lim][k] \in Bucket /\ bucket[lim][k].last <= now
         /\ ideal[lim][k] \in Nat
BY ThrottleAssumption DEF ThrottleTypeOK, InOrder

\* A sweep only drops buckets.
LEMMA KeptIsTracked == ASSUME NEW lim \in Limiters PROVE Kept(lim) \subseteq tracked[lim]
BY DEF Kept

\* A sweep leaves well-formed buckets, worth what they were worth before.
LEMMA SweptFacts ==
  ASSUME ThrottleTypeOK, InOrder, NEW lim \in Limiters, NEW k \in Keys
  PROVE  /\ Swept(lim)[k] \in Bucket /\ Swept(lim)[k].last <= now
         /\ k \in Kept(lim) =>
              Refilled(lim, Swept(lim)[k]).credit = Refilled(lim, bucket[lim][k]).credit
<1> DEFINE b == bucket[lim][k]
<1>1. now \in Nat /\ b \in Bucket /\ b.last <= now
  BY BucketTypes
<1>2. Swept(lim)[k] = IF k \notin Kept(lim) THEN NoBucket
                      ELSE IF Prunes(lim) THEN Refilled(lim, b) ELSE b
  BY DEF Swept
<1>3. NoBucket \in Bucket /\ NoBucket.last <= now
  BY <1>1 DEF NoBucket, Bucket
<1> HIDE DEF b
<1>4. /\ Refilled(lim, b) \in Bucket /\ Refilled(lim, b).last = now
      /\ Refilled(lim, Refilled(lim, b)).credit = Refilled(lim, b).credit
  BY <1>1, RefilledFacts, RefilledTwice
<1>5. /\ Swept(lim)[k] \in Bucket /\ Swept(lim)[k].last <= now
      /\ k \in Kept(lim) => Refilled(lim, Swept(lim)[k]).credit = Refilled(lim, b).credit
  BY <1>1, <1>2, <1>3, <1>4
<1> QED BY <1>5 DEF b

\* What a sweep leaves is what the ideal limiter has; what it drops was full.
LEMMA SweptIsUnseen ==
  ASSUME ThrottleTypeOK, InOrder, PruningUnseen, NEW lim \in Limiters, NEW k \in Keys
  PROVE  ideal[lim][k] = IF k \in Kept(lim) THEN Refilled(lim, Swept(lim)[k]).credit ELSE Full(lim)
<1>1. CASE k \in Kept(lim)
  BY <1>1, SweptFacts, KeptIsTracked DEF PruningUnseen
<1>2. CASE k \in tracked[lim] /\ k \notin Kept(lim)
  <2>1. ~(Refilled(lim, bucket[lim][k]).credit < Full(lim))
    BY <1>2 DEF Kept
  <2>2. /\ Refilled(lim, bucket[lim][k]).credit \in Nat
        /\ Refilled(lim, bucket[lim][k]).credit <= Full(lim)
    BY BucketTypes, RefilledFacts DEF Bucket
  <2>3. Refilled(lim, bucket[lim][k]).credit = Full(lim)
    BY <2>1, <2>2, FullIsNat
  <2> QED BY <1>2, <2>3 DEF PruningUnseen
<1>3. CASE k \notin tracked[lim]
  BY <1>3, KeptIsTracked DEF PruningUnseen
<1> QED BY <1>1, <1>2, <1>3

\* allow looks at the tokens it would find had nothing ever been pruned.
LEMMA LookedIsIdeal ==
  ASSUME ThrottleTypeOK, InOrder, PruningUnseen, NEW lim \in Limiters, NEW k \in Keys
  PROVE  Looked(lim, k).credit = ideal[lim][k] /\ ideal[lim][k] <= Full(lim)
<1>1. Looked(lim, k).credit = ideal[lim][k]
  BY SweptIsUnseen DEF Looked, Fresh
<1>2. CASE k \in Kept(lim)
  <2>1. ideal[lim][k] = Refilled(lim, Swept(lim)[k]).credit
    BY <1>2, SweptIsUnseen
  <2>2. now \in Nat /\ Swept(lim)[k] \in Bucket /\ Swept(lim)[k].last <= now
    BY BucketTypes, SweptFacts
  <2>3. Refilled(lim, Swept(lim)[k]).credit <= Full(lim)
    BY <2>2, RefilledFacts
  <2> QED BY <1>1, <2>1, <2>3
<1>3. CASE k \notin Kept(lim)
  BY <1>1, <1>3, SweptIsUnseen, FullIsNat
<1> QED BY <1>2, <1>3
-----------------------------------------------------------------------------
(* The steps.                                                              *)

\* The bucket a call of allow leaves behind for its key.
Left(lim, k) == [credit |-> Spent(lim, Looked(lim, k).credit), last |-> now]

\* What is left after a call is what the bucket that is never pruned has left.
LEMMA LeftFacts ==
  ASSUME ThrottleTypeOK, InOrder, PruningUnseen, NEW lim \in Limiters, NEW k \in Keys
  PROVE  /\ Left(lim, k) \in Bucket /\ Left(lim, k).last = now
         /\ Spent(lim, ideal[lim][k]) \in Nat
         /\ Refilled(lim, Left(lim, k)).credit = Spent(lim, ideal[lim][k])
<1>1. now \in Nat /\ ideal[lim][k] \in Nat /\ Full(lim) \in Nat
  BY BucketTypes, FullIsNat
<1>2. Looked(lim, k).credit = ideal[lim][k] /\ ideal[lim][k] <= Full(lim)
  BY LookedIsIdeal
<1>3. Spent(lim, ideal[lim][k]) \in Nat /\ Spent(lim, ideal[lim][k]) <= Full(lim)
  BY <1>1, <1>2, SpentFacts
<1>4. Left(lim, k) = [credit |-> Spent(lim, ideal[lim][k]), last |-> now]
  BY <1>2 DEF Left
<1>5. Left(lim, k) \in Bucket /\ Left(lim, k).last = now
  BY <1>1, <1>3, <1>4 DEF Bucket
<1>6. Refilled(lim, Left(lim, k)).credit = Spent(lim, ideal[lim][k])
  BY <1>1, <1>3, <1>4, RefilledNow
<1> QED BY <1>3, <1>5, <1>6

\* All buckets are full.
LEMMA ThrottleInitOK == ThrottleInit => ThrottleInv
<1> SUFFICES ASSUME ThrottleInit PROVE ThrottleInv
  OBVIOUS
<1> USE DEF ThrottleInit
<1>1. ThrottleTypeOK
  <2>1. NoBucket \in Bucket
    BY DEF NoBucket, Bucket
  <2>2. \A lim \in Limiters : Full(lim) \in Nat
    BY FullIsNat
  <2>3. -PruneEvery \in -PruneEvery..MaxTime /\ now \in 0..MaxTime
    BY ThrottleAssumption
  <2> QED BY <2>1, <2>2, <2>3 DEF ThrottleTypeOK
<1>2. InOrder
  BY DEF InOrder, NoBucket
<1>3. PruningUnseen
  BY DEF PruningUnseen
<1>4. MapsBounded
  <2>1. Cardinality({}) = 0
    BY FS_EmptySet
  <2> QED BY <2>1, FullIsNat DEF MapsBounded
<1> QED BY <1>1, <1>2, <1>3, <1>4 DEF ThrottleInv

\* A step that replaces what one limiter keeps: the new map is bounded, nothing in it
\* is of the future, and the ideal limiter agrees with it.
Replaced(lim, T, B, I, p) ==
  /\ T \in SUBSET Keys /\ B \in [Keys -> Bucket] /\ I \in [Keys -> Nat]
  /\ p \in -PruneEvery..MaxTime
  /\ UNCHANGED now
  /\ tracked' = [tracked EXCEPT ![lim] = T]
  /\ bucket' = [bucket EXCEPT ![lim] = B]
  /\ ideal' = [ideal EXCEPT ![lim] = I]
  /\ lastPrune' = [lastPrune EXCEPT ![lim] = p]
  /\ Cardinality(T) <= MaxKeys[lim]
  /\ \A k \in Keys : B[k].last <= now
  /\ \A k \in Keys : I[k] = IF k \in T THEN Refilled(lim, B[k]).credit ELSE Full(lim)

\* Such a step keeps the invariant.
LEMMA OneLimiterStep ==
  ASSUME ThrottleInv, NEW lim \in Limiters, NEW T, NEW B, NEW I, NEW p, Replaced(lim, T, B, I, p)
  PROVE  ThrottleInv'
<1> USE DEF ThrottleInv, Replaced
<1>1. /\ now \in 0..MaxTime
      /\ tracked \in [Limiters -> SUBSET Keys] /\ bucket \in [Limiters -> [Keys -> Bucket]]
      /\ lastPrune \in [Limiters -> -PruneEvery..MaxTime] /\ ideal \in [Limiters -> [Keys -> Nat]]
  BY DEF ThrottleTypeOK
<1>2. ThrottleTypeOK'
  BY <1>1 DEF ThrottleTypeOK
<1>3. InOrder'
  BY <1>1 DEF InOrder
<1>4. PruningUnseen'
  BY <1>1 DEF PruningUnseen, Refilled
<1>5. MapsBounded'
  BY <1>1 DEF MapsBounded
<1> QED BY <1>2, <1>3, <1>4, <1>5

\* The maps are finite, and pruning does not enlarge them.
LEMMA KeptIsBounded ==
  ASSUME ThrottleInv, NEW lim \in Limiters
  PROVE  /\ Kept(lim) \subseteq Keys /\ IsFiniteSet(Kept(lim))
         /\ Cardinality(Kept(lim)) <= MaxKeys[lim]
<1>1. tracked[lim] \in SUBSET Keys /\ IsFiniteSet(Keys)
  BY ThrottleAssumption DEF ThrottleInv, ThrottleTypeOK
<1>2. Kept(lim) \subseteq tracked[lim]
  BY KeptIsTracked
<1>3. IsFiniteSet(tracked[lim])
  BY <1>1, FS_Subset
<1>4. /\ IsFiniteSet(Kept(lim))
      /\ Cardinality(Kept(lim)) \in Nat /\ Cardinality(tracked[lim]) \in Nat
      /\ Cardinality(Kept(lim)) <= Cardinality(tracked[lim])
  BY <1>2, <1>3, FS_Subset, FS_CardinalityType
<1>5. Cardinality(tracked[lim]) <= MaxKeys[lim]
  BY DEF ThrottleInv, MapsBounded
<1> QED BY <1>1, <1>2, <1>4, <1>5, FullIsNat

\* A sweep leaves buckets.
LEMMA SweptIsMap ==
  ASSUME ThrottleTypeOK, InOrder, NEW lim \in Limiters
  PROVE  Swept(lim) \in [Keys -> Bucket]
<1>1. \A j \in Keys : Swept(lim)[j] \in Bucket
  BY SweptFacts
<1>2. Swept(lim) = [j \in Keys |-> Swept(lim)[j]]
  BY DEF Swept
<1> QED BY <1>1, <1>2

\* allow.
LEMMA AllowStep ==
  ASSUME ThrottleInv, NEW lim \in Limiters, NEW k \in Keys, Allow(lim, k)
  PROVE  ThrottleInv'
<1> USE DEF ThrottleInv
<1> DEFINE p == IF Prunes(lim) THEN now ELSE lastPrune[lim]
<1>1. /\ p \in -PruneEvery..MaxTime /\ lastPrune' = [lastPrune EXCEPT ![lim] = p]
      /\ UNCHANGED now
  <2>1. now \in -PruneEvery..MaxTime /\ lastPrune[lim] \in -PruneEvery..MaxTime
    BY ThrottleAssumption DEF ThrottleTypeOK
  <2> QED BY <2>1 DEF Allow
<1>2. Swept(lim) \in [Keys -> Bucket] /\ Kept(lim) \in SUBSET Keys
  BY SweptIsMap, KeptIsBounded
<1>3. ideal \in [Limiters -> [Keys -> Nat]] /\ now \in Nat
  BY BucketTypes DEF ThrottleTypeOK
<1> HIDE DEF p
<1>4. CASE Crowded(lim, k)
  <2>1. /\ tracked' = [tracked EXCEPT ![lim] = Kept(lim)]
        /\ bucket' = [bucket EXCEPT ![lim] = Swept(lim)]
        /\ ideal' = [ideal EXCEPT ![lim] = ideal[lim]]
    BY <1>3, <1>4 DEF Allow
  <2>2. /\ ideal[lim] \in [Keys -> Nat]
        /\ Cardinality(Kept(lim)) <= MaxKeys[lim]
        /\ \A j \in Keys : Swept(lim)[j].last <= now
        /\ \A j \in Keys : ideal[lim][j] = IF j \in Kept(lim) THEN Refilled(lim, Swept(lim)[j]).credit
                                          ELSE Full(lim)
    BY <1>3, KeptIsBounded, SweptFacts, SweptIsUnseen
  <2>3. Replaced(lim, Kept(lim), Swept(lim), ideal[lim], p)
    BY <1>1, <1>2, <2>1, <2>2 DEF Replaced
  <2> QED BY <2>3, OneLimiterStep
<1>5. CASE ~Crowded(lim, k)
  <2> DEFINE T == Kept(lim) \cup {k}
             B == [Swept(lim) EXCEPT ![k] = Left(lim, k)]
             I == [ideal[lim] EXCEPT ![k] = Spent(lim, @)]
  <2>1. /\ tracked' = [tracked EXCEPT ![lim] = T]
        /\ bucket' = [bucket EXCEPT ![lim] = B]
        /\ ideal' = [ideal EXCEPT ![lim] = I]
    BY <1>3, <1>5 DEF Allow, Left
  <2>2. /\ T \in SUBSET Keys /\ B \in [Keys -> Bucket] /\ I \in [Keys -> Nat]
    BY <1>2, <1>3, LeftFacts
  <2>3. Cardinality(T) <= MaxKeys[lim]
    <3>1. IsFiniteSet(Kept(lim)) /\ Cardinality(Kept(lim)) <= MaxKeys[lim]
      BY KeptIsBounded
    <3>2. Cardinality(Kept(lim)) \in Nat
      BY <3>1, FS_CardinalityType
    <3>3. CASE k \in Kept(lim)
      <4>1. T = Kept(lim)
        BY <3>3
      <4> QED BY <3>1, <4>1
    <3>4. CASE k \notin Kept(lim)
      <4>1. Cardinality(T) = Cardinality(Kept(lim)) + 1
        BY <3>1, <3>4, FS_AddElement
      <4>2. ~(Cardinality(Kept(lim)) >= MaxKeys[lim])
        BY <1>5, <3>4 DEF Crowded
      <4> QED BY <3>2, <4>1, <4>2, FullIsNat
    <3> QED BY <3>3, <3>4
  <2>4. \A j \in Keys : B[j].last <= now
    BY <1>2, <1>3, LeftFacts, SweptFacts
  <2>5. ASSUME NEW j \in Keys
        PROVE  I[j] = IF j \in T THEN Refilled(lim, B[j]).credit ELSE Full(lim)
    <3>1. CASE j = k
      <4>1. B[j] = Left(lim, k) /\ I[j] = Spent(lim, ideal[lim][k]) /\ j \in T
        BY <1>2, <1>3, <3>1
      <4> QED BY <4>1, LeftFacts
    <3>2. CASE j # k
      <4>1. B[j] = Swept(lim)[j] /\ I[j] = ideal[lim][j] /\ (j \in T <=> j \in Kept(lim))
        BY <1>2, <1>3, <3>2
      <4> QED BY <4>1, SweptIsUnseen
    <3> QED BY <3>1, <3>2
  <2> HIDE DEF T, B, I
  <2>6. Replaced(lim, T, B, I, p)
    BY <1>1, <2>1, <2>2, <2>3, <2>4, <2>5 DEF Replaced
  <2> QED BY <2>6, OneLimiterStep
<1> QED BY <1>4, <1>5

\* reset.
LEMMA ResetStep ==
  ASSUME ThrottleInv, NEW lim \in Limiters, NEW k \in Keys, Reset(lim, k)
  PROVE  ThrottleInv'
<1> USE DEF ThrottleInv
<1> DEFINE T == tracked[lim] \ {k}
           B == [bucket[lim] EXCEPT ![k] = NoBucket]
           I == [ideal[lim] EXCEPT ![k] = Full(lim)]
<1>1. /\ now \in 0..MaxTime
      /\ tracked \in [Limiters -> SUBSET Keys] /\ bucket \in [Limiters -> [Keys -> Bucket]]
      /\ lastPrune \in [Limiters -> -PruneEvery..MaxTime] /\ ideal \in [Limiters -> [Keys -> Nat]]
  BY DEF ThrottleTypeOK
<1>2. /\ tracked' = [tracked EXCEPT ![lim] = T]
      /\ bucket' = [bucket EXCEPT ![lim] = B]
      /\ ideal' = [ideal EXCEPT ![lim] = I]
      /\ lastPrune' = [lastPrune EXCEPT ![lim] = lastPrune[lim]]
      /\ UNCHANGED now
  BY <1>1 DEF Reset
<1>3. /\ T \in SUBSET Keys /\ B \in [Keys -> Bucket] /\ I \in [Keys -> Nat]
      /\ lastPrune[lim] \in -PruneEvery..MaxTime
  BY <1>1, FullIsNat DEF NoBucket, Bucket
<1>4. Cardinality(T) <= MaxKeys[lim]
  <2>1. IsFiniteSet(tracked[lim])
    BY <1>1, ThrottleAssumption, FS_Subset
  <2>2. /\ Cardinality(T) \in Nat /\ Cardinality(tracked[lim]) \in Nat
        /\ Cardinality(T) <= Cardinality(tracked[lim])
    BY <2>1, FS_Subset, FS_CardinalityType
  <2>3. Cardinality(tracked[lim]) <= MaxKeys[lim]
    BY DEF MapsBounded
  <2> QED BY <2>2, <2>3, FullIsNat
<1>5. \A j \in Keys : B[j].last <= now
  BY <1>1 DEF InOrder, NoBucket
<1>6. \A j \in Keys : I[j] = IF j \in T THEN Refilled(lim, B[j]).credit ELSE Full(lim)
  BY <1>1 DEF PruningUnseen
<1> HIDE DEF T, B, I
<1>7. Replaced(lim, T, B, I, lastPrune[lim])
  BY <1>2, <1>3, <1>4, <1>5, <1>6 DEF Replaced
<1> QED BY <1>7, OneLimiterStep

\* Time passes: every bucket regains what the ideal limiter does.
LEMMA TickStep ==
  ASSUME ThrottleInv, Tick
  PROVE  ThrottleInv'
<1> USE DEF ThrottleInv
<1>1. /\ now \in 0..MaxTime /\ now < MaxTime /\ now' = now + 1 /\ MaxTime \in Nat
      /\ UNCHANGED <<tracked, bucket, lastPrune>>
      /\ ideal' = [lim \in Limiters |-> [k \in Keys |-> Regained(lim, ideal[lim][k], 1)]]
  BY ThrottleAssumption DEF Tick, ThrottleTypeOK
<1>2. ASSUME NEW lim \in Limiters, NEW k \in Keys
      PROVE  /\ ideal'[lim][k] = Regained(lim, ideal[lim][k], 1)
             /\ ideal'[lim][k] \in Nat
  <2>1. ideal'[lim][k] = Regained(lim, ideal[lim][k], 1)
    BY <1>1
  <2> QED BY <2>1, BucketTypes, RegainedFacts
<1>3. ThrottleTypeOK'
  <2>1. now' \in 0..MaxTime
    BY <1>1
  <2>2. ideal' \in [Limiters -> [Keys -> Nat]]
    BY <1>1, <1>2
  <2> QED BY <1>1, <2>1, <2>2 DEF ThrottleTypeOK
<1>4. InOrder'
  <2>1. ASSUME NEW lim \in Limiters, NEW k \in Keys PROVE bucket[lim][k].last <= now + 1
    BY BucketTypes DEF Bucket
  <2> QED BY <1>1, <2>1 DEF InOrder
<1>5. PruningUnseen'
  <2>1. ASSUME NEW lim \in Limiters, NEW k \in Keys
        PROVE  ideal'[lim][k] = IF k \in tracked'[lim]
                                THEN Regained(lim, bucket'[lim][k].credit, now' - bucket'[lim][k].last)
                                ELSE Full(lim)
    <3> DEFINE b == bucket[lim][k]
    <3>1. b.credit \in Nat /\ now - b.last \in Nat /\ (now - b.last) + 1 = now' - b.last
      <4>1. b \in Bucket /\ b.last <= now /\ now \in Nat
        BY BucketTypes
      <4> HIDE DEF b, ThrottleInv
      <4> QED BY <1>1, <4>1 DEF Bucket
    <3>2. CASE k \in tracked[lim]
      <4>1. ideal[lim][k] = Regained(lim, b.credit, now - b.last)
        BY <3>2 DEF PruningUnseen, Refilled
      <4>2. Regained(lim, Regained(lim, b.credit, now - b.last), 1)
              = Regained(lim, b.credit, (now - b.last) + 1)
        <5>1. PICK c \in Nat, d \in Nat : c = b.credit /\ d = now - b.last
          BY <3>1
        <5>2. 1 \in Nat
          OBVIOUS
        <5>3. Regained(lim, Regained(lim, c, d), 1) = Regained(lim, c, d + 1)
          BY <5>2, RegainedInSteps, Zenon
        <5>. HIDE DEF b
        <5> QED BY <5>1, <5>3, Zenon
      <4> QED BY <1>1, <1>2, <3>1, <3>2, <4>1, <4>2
    <3>3. CASE k \notin tracked[lim]
      <4>1. ideal[lim][k] = Full(lim)
        BY <3>3 DEF PruningUnseen
      <4>2. Regained(lim, Full(lim), 1) = Full(lim)
        BY FullIsNat DEF Regained
      <4> QED BY <1>1, <1>2, <3>3, <4>1, <4>2
    <3> QED BY <3>2, <3>3
  <2> QED BY <2>1 DEF PruningUnseen, Refilled
<1>6. MapsBounded'
  BY <1>1 DEF MapsBounded
<1> QED BY <1>3, <1>4, <1>5, <1>6

\* The steps, by the actions.
LEMMA ThrottleStep == ThrottleInv /\ [ThrottleNext]_throttleVars => ThrottleInv'
<1> SUFFICES ASSUME ThrottleInv, [ThrottleNext]_throttleVars PROVE ThrottleInv'
  OBVIOUS
<1>1. CASE Tick
  BY <1>1, TickStep
<1>2. ASSUME NEW lim \in Limiters, NEW k \in Keys, Allow(lim, k) PROVE ThrottleInv'
  BY <1>2, AllowStep
<1>3. ASSUME NEW lim \in Limiters, NEW k \in Keys, Reset(lim, k) PROVE ThrottleInv'
  BY <1>3, ResetStep
<1>4. CASE UNCHANGED throttleVars
  BY <1>4 DEF throttleVars, ThrottleInv, ThrottleTypeOK, InOrder, PruningUnseen, MapsBounded, Refilled
<1> QED BY <1>1, <1>2, <1>3, <1>4 DEF ThrottleNext

-----------------------------------------------------------------------------

\* The invariant behind the theorems below: a map is within its bound, no bucket
\* was refilled in the future, and every bucket agrees with the ideal limiter.
THEOREM ThrottleInvariant == ThrottleSpec => []ThrottleInv
BY ThrottleInitOK, ThrottleStep, PTL DEF ThrottleSpec

\* The state of both limiters keeps its types (the maps of auth/ratelimit.go).
THEOREM ThrottleTypeCorrect == ThrottleSpec => []ThrottleTypeOK
<1>1. ThrottleInv => ThrottleTypeOK
  BY DEF ThrottleInv
<1> QED BY <1>1, ThrottleInvariant, PTL

\* No call of allow or reset, at whatever times and for whatever keys, can tell
\* that pruneLocked ever dropped a bucket.
THEOREM PruningIsUnseen == ThrottleSpec => []PruningUnseen
<1>1. ThrottleInv => PruningUnseen
  BY DEF ThrottleInv
<1> QED BY <1>1, ThrottleInvariant, PTL

\* The maps of both limiters stay within their bound, whatever keys are asked for.
THEOREM MapsStayBounded == ThrottleSpec => []MapsBounded
<1>1. ThrottleInv => MapsBounded
  BY DEF ThrottleInv
<1> QED BY <1>1, ThrottleInvariant, PTL

-----------------------------------------------------------------------------
(* Sign-in.                                                                *)

\* What a request carries where its handler needs it: the name that was typed, the
\* user who is being signed in.
RequestOK(x) ==
  /\ x.kind = "password" \/ x.at \in {"name", "lookup", "wait", "compare", "reset"} => x.name \in Names
  /\ x.at \in {"renew", "upsert"} => x.told \in Users

RequestsOK == \A r \in Requests : RequestOK(req[r])

\* Tokens are handed out one after the other, and used only then.
IssuedFirst ==
  /\ \A t \in Tokens : t > issued => store[t] = Absent
  /\ \A r \in Requests : req[r].token <= issued /\ req[r].sets <= issued
  /\ cookie <= issued

TokenInv == IssuedFirst /\ TokenMeansOneUser

\* TypeOK in parts, and what makes them inductive.
SlotsOK ==
  /\ comparing = {r \in Requests : req[r].at = "compare"}
  /\ IsFiniteSet(comparing) /\ Cardinality(comparing) <= Comparisons

RequestInv == req \in [Requests -> Request] /\ RequestsOK /\ SlotsOK

OthersOK ==
  /\ store \in [Tokens -> Session \cup {Absent}]
  /\ issued \in 0..MaxTokens /\ cookie \in 0..MaxTokens
  /\ code \in [Flows -> {"unasked", "asked", "spent"} \cup SsoUsers] /\ flows \in 0..MaxFlows
  /\ members \subseteq Users
  /\ sends \in 0..MaxSends /\ failures \in 0..MaxFailures
  /\ who \in Users \cup {"nobody", "unknown"}

BrowserInv == RequestInv /\ OthersOK /\ TokenInv

SignInInv == ThrottleInv /\ BrowserInv

-----------------------------------------------------------------------------
(* Every step of SignIn is at most one call of a limiter.                  *)

\* The two limiters know every key a handler asks them for.
LEMMA KeysKnown ==
  /\ Address \in Keys /\ Names \subseteq Keys
  /\ "ip" \in Limiters /\ "user" \in Limiters
BY SignInAssumption

\* Every step is a call of the throttle, or leaves it alone.
LEMMA CallsThrottle ==
  ASSUME RequestsOK, [Next]_vars
  PROVE  [ThrottleNext]_throttleVars
<1>1. ASSUME NEW r \in Requests, Sends(r) PROVE UNCHANGED throttleVars
  BY <1>1 DEF Sends, StartSso, ClickLogout, SubmitPassword, ReturnFromProvider, Send
<1>2. ASSUME NEW r \in Requests, Runs(r) PROVE [ThrottleNext]_throttleVars
  <2>1. CASE ThrottleAddress(r)
    <3>1. Allow("ip", Address)
      BY <2>1 DEF ThrottleAddress
    <3> QED BY <3>1, KeysKnown DEF ThrottleNext
  <2>2. CASE ThrottleName(r)
    <3>1. Allow("user", req[r].name) /\ req[r].at = "name"
      BY <2>2 DEF ThrottleName
    <3>2. req[r].name \in Keys
      BY <3>1, KeysKnown DEF RequestsOK, RequestOK
    <3> QED BY <3>1, <3>2, KeysKnown DEF ThrottleNext
  <2>3. CASE ResetName(r)
    <3>1. Reset("user", req[r].name) /\ req[r].at = "reset"
      BY <2>3 DEF ResetName
    <3>2. req[r].name \in Keys
      BY <3>1, KeysKnown DEF RequestsOK, RequestOK
    <3> QED BY <3>1, <3>2, KeysKnown DEF ThrottleNext
  <2>4. CASE LoadSession(r) \/ CommitSession(r) \/ CommitFails(r)
             \/ SsoLogin(r) \/ CallbackRejected(r) \/ CallbackAccepted(r)
             \/ Exchange(r) \/ ExchangeFails(r) \/ LookUp(r) \/ LookUpFails(r)
             \/ AcquireSlot(r) \/ GiveUpWaiting(r) \/ Compare(r)
    BY <2>4 DEF LoadSession, CommitSession, CommitFails, SsoLogin, CallbackRejected,
                CallbackAccepted, Exchange, ExchangeFails, LookUp, LookUpFails,
                AcquireSlot, GiveUpWaiting, Compare
  <2>5. CASE RenewToken(r) \/ RenewTokenFails(r) \/ UpsertMember(r) \/ UpsertMemberFails(r)
             \/ Logout(r) \/ LogoutFails(r) \/ Deliver(r) \/ LoseAnswer(r)
    BY <2>5 DEF RenewToken, RenewTokenFails, UpsertMember, UpsertMemberFails, Logout,
                LogoutFails, Deliver, LoseAnswer
  <2> QED BY <1>2, <2>1, <2>2, <2>3, <2>4, <2>5 DEF Runs
<1>3. ASSUME NEW f \in Flows, NEW u \in SsoUsers, SignInAtProvider(f, u) PROVE UNCHANGED throttleVars
  BY <1>3 DEF SignInAtProvider
<1>4. ASSUME NEW t \in Tokens, Expire(t) PROVE UNCHANGED throttleVars
  BY <1>4 DEF Expire
<1>5. CASE Passes
  BY <1>5 DEF Passes, ThrottleNext
<1>6. CASE UNCHANGED vars
  BY <1>6 DEF vars
<1> QED BY <1>1, <1>2, <1>3, <1>4, <1>5, <1>6 DEF Next

-----------------------------------------------------------------------------
(* Types.                                                                  *)

\* The bounds are numbers.
LEMMA BoundsAreNat ==
  /\ Comparisons \in Nat /\ MaxSends \in Nat /\ MaxFlows \in Nat
  /\ MaxTokens \in Nat /\ MaxFailures \in Nat
BY SignInAssumption

\* A request that is not in use is well formed.
LEMMA FreeIsOK == Free \in Request /\ RequestOK(Free) /\ Empty \in Session
BY BoundsAreNat DEF Free, Request, Session, Empty, RequestOK

\* A request stays one when only its place, and whom it makes the browser, change.
LEMMA AnsweredIsRequest ==
  ASSUME NEW f \in Request, NEW alone \in BOOLEAN,
         NEW told \in Users \cup {"nobody", "same", "unknown"}
  PROVE  [f EXCEPT !.at = "answer", !.alone = alone, !.told = told] \in Request
BY DEF Request

\* A handler that is done leaves a well-formed request.
LEMMA OverIsOK ==
  ASSUME NEW x \in Request
  PROVE  /\ Over(x) \in Request /\ RequestOK(Over(x))
         /\ Over(x).at = "answer" /\ Over(x).token = 0 /\ Over(x).sets = -1
         /\ Over(x).kind = "none"
<1>1. x.alone \in BOOLEAN /\ x.told \in Users \cup {"nobody", "same", "unknown"}
  BY DEF Request
<1>2. Free \in Request /\ Free.token = 0 /\ Free.sets = -1 /\ Free.kind = "none"
  BY FreeIsOK DEF Free
<1>3. Over(x) \in Request
  <2>1. PICK f \in Request : f = Free
    BY <1>2
  <2>2. PICK alone \in BOOLEAN, told \in Users \cup {"nobody", "same", "unknown"} :
          alone = x.alone /\ told = x.told
    BY <1>1
  <2>3. [f EXCEPT !.at = "answer", !.alone = alone, !.told = told] \in Request
    BY AnsweredIsRequest, Zenon
  <2> QED BY <2>1, <2>2, <2>3, Zenon DEF Over
<1>4. /\ Over(x).at = "answer" /\ Over(x).token = 0 /\ Over(x).sets = -1
      /\ Over(x).kind = "none"
  BY <1>1, <1>2 DEF Over, Request
<1>5. RequestOK(Over(x))
  BY <1>4 DEF RequestOK
<1> QED BY <1>3, <1>4, <1>5

\* Nobody has asked for anything.
LEMMA InitOK == Init => SignInInv
<1> SUFFICES ASSUME Init PROVE SignInInv
  OBVIOUS
<1> USE DEF Init
<1>1. ThrottleInv
  BY ThrottleInitOK
<1>2. \A r \in Requests : req[r] = Free
  OBVIOUS
<1>3. Free.at = "free" /\ Free.token = 0 /\ Free.sets = -1
  BY DEF Free
<1>4. SlotsOK
  <2>1. comparing = {r \in Requests : req[r].at = "compare"}
    BY <1>2, <1>3
  <2>2. IsFiniteSet(comparing) /\ Cardinality(comparing) = 0
    BY FS_EmptySet
  <2> QED BY <2>1, <2>2, BoundsAreNat DEF SlotsOK
<1>5. RequestInv
  BY <1>2, <1>4, FreeIsOK DEF RequestInv, RequestsOK
<1>6. OthersOK
  BY BoundsAreNat DEF OthersOK
<1>7. TokenInv
  BY <1>2, <1>3 DEF TokenInv, IssuedFirst, TokenMeansOneUser, Tokens
<1> QED BY <1>1, <1>5, <1>6, <1>7 DEF SignInInv, BrowserInv

-----------------------------------------------------------------------------
(* One request moves on.                                                   *)

\* Request r becomes x, and no slot changes hands.
Moves(r, x) ==
  /\ x \in Request /\ RequestOK(x)
  /\ req' = [req EXCEPT ![r] = x]
  /\ req[r].at # "compare" /\ x.at # "compare"
  /\ UNCHANGED comparing

\* A request that moves on keeps the types,
LEMMA MovesOK ==
  ASSUME RequestInv, NEW r \in Requests, NEW x, Moves(r, x)
  PROVE  RequestInv'
<1> USE DEF RequestInv, Moves
<1>1. req' \in [Requests -> Request]
  OBVIOUS
<1>2. RequestsOK'
  BY DEF RequestsOK
<1>3. \A q \in Requests : req'[q].at = "compare" <=> req[q].at = "compare"
  OBVIOUS
<1>4. SlotsOK'
  BY <1>3 DEF SlotsOK
<1> QED BY <1>1, <1>2, <1>4

\* x works on no session or on the one r works on, with the same user.
SameToken(r, x) ==
  /\ UNCHANGED <<store, issued>>
  /\ req' = [req EXCEPT ![r] = x]
  /\ \/ x.token = 0
     \/ /\ x.token = req[r].token /\ x.data.user = req[r].data.user
        /\ req[r].at \notin {"free", "sent"}
  /\ x.sets \in {-1, 0} \cup {req[r].sets}
  /\ cookie' \in {cookie, req[r].sets}

\* ... and the tokens when it keeps its own.
LEMMA SameTokenOK ==
  ASSUME RequestInv, OthersOK, TokenInv, NEW r \in Requests, NEW x, SameToken(r, x)
  PROVE  TokenInv'
<1> USE DEF RequestInv, SameToken, TokenInv
<1>1. issued \in Nat /\ req' \in [Requests -> {req[q] : q \in Requests} \cup {x}]
  BY BoundsAreNat DEF OthersOK
<1>2. \A q \in Requests : req'[q] = IF q = r THEN x ELSE req[q]
  OBVIOUS
<1>3. IssuedFirst'
  BY <1>1, <1>2 DEF IssuedFirst
<1>4. TokenMeansOneUser'
  BY <1>1, <1>2 DEF TokenMeansOneUser
<1> QED BY <1>3, <1>4

-----------------------------------------------------------------------------
(* The steps of one request.                                               *)

\* What is known of request r and of its session.
LEMMA RequestTypes ==
  ASSUME RequestInv, OthersOK, NEW r \in Requests
  PROVE  /\ req[r] \in Request /\ RequestOK(req[r])
         /\ Over(req[r]) \in Request /\ RequestOK(Over(req[r]))
         /\ Over(req[r]).at = "answer" /\ Over(req[r]).token = 0 /\ Over(req[r]).sets = -1
         /\ Over(req[r]).kind = "none"
         /\ issued \in Nat
BY OverIsOK, BoundsAreNat DEF RequestInv, RequestsOK, OthersOK

\* A refusal, or any other end of a handler that leaves the session alone.
LEMMA OverStep ==
  ASSUME RequestInv, OthersOK, TokenInv, NEW r \in Requests,
         NEW told \in Users \cup {"nobody", "same", "unknown"},
         req' = [req EXCEPT ![r] = [Over(@) EXCEPT !.told = told]],
         req[r].at # "compare", UNCHANGED <<comparing, store, issued, cookie>>
  PROVE  RequestInv' /\ TokenInv'
<1> DEFINE x == [Over(req[r]) EXCEPT !.told = told]
<1>1. /\ req[r] \in Request /\ Over(req[r]) \in Request
      /\ Over(req[r]).at = "answer" /\ Over(req[r]).token = 0 /\ Over(req[r]).sets = -1
      /\ Over(req[r]).kind = "none"
  BY RequestTypes
<1>2. x \in Request /\ x.at = "answer" /\ x.kind = "none" /\ x.token = 0 /\ x.sets = -1
  BY <1>1 DEF Request
<1>3. req' = [req EXCEPT ![r] = x]
  BY DEF RequestInv
<1> HIDE DEF x
<1>4. Moves(r, x)
  BY <1>2, <1>3 DEF Moves, RequestOK
<1>5. SameToken(r, x)
  BY <1>2, <1>3 DEF SameToken
<1> QED BY <1>4, <1>5, MovesOK, SameTokenOK

\* A refusal touches no session.
LEMMA RefusesStep ==
  ASSUME RequestInv, OthersOK, TokenInv, NEW r \in Requests, Refuses(r),
         req[r].at # "compare", UNCHANGED <<comparing, store, issued, cookie>>
  PROVE  RequestInv' /\ TokenInv'
<1> DEFINE x == Over(req[r])
<1>1. /\ x \in Request /\ RequestOK(x) /\ x.at = "answer" /\ x.token = 0 /\ x.sets = -1
      /\ req' = [req EXCEPT ![r] = x]
  BY RequestTypes DEF Refuses, RequestInv
<1> HIDE DEF x
<1>2. Moves(r, x) /\ SameToken(r, x)
  BY <1>1 DEF Moves, SameToken
<1> QED BY <1>2, MovesOK, SameTokenOK

\* A step of a handler that goes on at another place.
LEMMA GoesStep ==
  ASSUME RequestInv, OthersOK, TokenInv, NEW r \in Requests,
         NEW place \in {"name", "lookup", "wait", "renew", "upsert", "reset", "commit", "exchange"},
         Goes(r, place), RequestOK([req[r] EXCEPT !.at = place]),
         req[r].at \notin {"compare", "free", "sent"},
         UNCHANGED <<comparing, store, issued, cookie>>
  PROVE  RequestInv' /\ TokenInv'
<1> DEFINE x == [req[r] EXCEPT !.at = place]
<1>1. req[r] \in Request
  BY RequestTypes
<1>2. /\ x \in Request /\ x.at = place /\ x.token = req[r].token /\ x.sets = req[r].sets
      /\ x.data = req[r].data
  BY <1>1 DEF Request
<1>3. req' = [req EXCEPT ![r] = x] /\ RequestOK(x)
  BY DEF Goes, RequestInv
<1> HIDE DEF x
<1>4. Moves(r, x) /\ SameToken(r, x)
  BY <1>2, <1>3 DEF Moves, SameToken
<1> QED BY <1>4, MovesOK, SameTokenOK

-----------------------------------------------------------------------------
(* The session manager.                                                    *)

\* A new request, or one that has been answered.
LEMMA LoadSessionStep ==
  ASSUME BrowserInv, NEW r \in Requests, LoadSession(r)
  PROVE  BrowserInv'
<1> USE DEF BrowserInv
<1> DEFINE t == req[r].token
           gone == t = 0 \/ store[t] = Absent
           T == IF gone THEN 0 ELSE t
           D == IF gone THEN Empty ELSE store[t]
           x == [req[r] EXCEPT !.at = "handle", !.token = T, !.data = D]
<1>1. /\ req[r] \in Request /\ RequestOK(req[r]) /\ issued \in Nat /\ req[r].at = "sent"
  BY RequestTypes DEF LoadSession
<1>2. t \in 0..MaxTokens /\ T \in 0..MaxTokens /\ T <= issued
  BY <1>1, BoundsAreNat DEF Request, TokenInv, IssuedFirst
<1>3. D \in Session
  BY <1>2, FreeIsOK, BoundsAreNat DEF OthersOK, Tokens
<1>4. req' = [req EXCEPT ![r] = x]
  BY DEF LoadSession, RequestInv
<1>5. T # 0 => D = store[T] /\ store[T] # Absent
  OBVIOUS
<1> HIDE DEF gone, T, D
<1>6. /\ x \in Request /\ x.at = "handle" /\ x.token = T /\ x.data = D /\ x.sets = req[r].sets
      /\ x.kind = req[r].kind /\ x.name = req[r].name
  BY <1>1, <1>2, <1>3 DEF Request
<1> HIDE DEF x
<1>7. Moves(r, x)
  BY <1>1, <1>4, <1>6 DEF Moves, RequestOK, LoadSession
<1>8. OthersOK' /\ UNCHANGED <<store, issued, cookie>>
  BY DEF LoadSession, OthersOK, outside
<1>9. \A q \in Requests : req'[q] = IF q = r THEN x ELSE req[q]
  BY <1>4 DEF RequestInv
<1>10. IssuedFirst'
  BY <1>2, <1>6, <1>8, <1>9 DEF TokenInv, IssuedFirst
<1>11. ASSUME NEW q \in Requests, req'[q].at \notin {"free", "sent"}, req'[q].token # 0,
              NEW p \in Requests, req'[p].at \notin {"free", "sent"}, req'[p].token = req'[q].token
       PROVE  /\ store'[req'[q].token] # Absent => store'[req'[q].token].user = req'[q].data.user
              /\ req'[p].data.user = req'[q].data.user
  <2>1. store' = store
    BY <1>8
  <2>2. \A o \in Requests \ {r} : req'[o] = req[o]
    BY <1>9
  <2>3. req'[r].token = T /\ req'[r].data = D
    BY <1>6, <1>9
  <2>4. \A o \in Requests \ {r} :
           req[o].at \notin {"free", "sent"} /\ req[o].token # 0 /\ store[req[o].token] # Absent
             => store[req[o].token].user = req[o].data.user
    BY DEF TokenInv, TokenMeansOneUser
  <2>5. CASE p # r /\ q # r
    BY <1>11, <2>1, <2>2, <2>5 DEF TokenInv, TokenMeansOneUser
  <2>6. CASE p = r \/ q = r
    BY <1>5, <1>11, <2>1, <2>2, <2>3, <2>4, <2>6
  <2> QED BY <2>5, <2>6
<1>12. TokenMeansOneUser'
  BY <1>11 DEF TokenMeansOneUser
<1> QED BY <1>7, <1>8, <1>10, <1>12, MovesOK DEF TokenInv

\* The copy is written under its own token, or a new one.
LEMMA CommitSessionStep ==
  ASSUME BrowserInv, NEW r \in Requests, CommitSession(r)
  PROVE  BrowserInv'
<1> USE DEF BrowserInv
<1> DEFINE t == IF req[r].token = 0 THEN issued + 1 ELSE req[r].token
           x == [Over(req[r]) EXCEPT !.sets = t]
<1>1. /\ req[r] \in Request /\ Over(req[r]) \in Request /\ issued \in Nat
      /\ Over(req[r]).at = "answer" /\ Over(req[r]).token = 0 /\ Over(req[r]).kind = "none"
      /\ req[r].at = "commit" /\ req[r].token \in Nat /\ req[r].data \in Session
      /\ req[r].token <= issued
  <2>1. req[r].token \in Nat /\ req[r].data \in Session
    BY RequestTypes, BoundsAreNat DEF Request
  <2> QED BY <2>1, RequestTypes DEF CommitSession, TokenInv, IssuedFirst
<1>2. /\ t \in 1..MaxTokens /\ issued' \in 0..MaxTokens /\ t <= issued' /\ issued <= issued'
      /\ store' = [store EXCEPT ![t] = req[r].data]
      /\ req' = [req EXCEPT ![r] = x]
  BY <1>1, BoundsAreNat DEF CommitSession, OthersOK, RequestInv
<1>3. req[r].token = 0 => t > issued
  BY <1>1
<1>4. req[r].token # 0 => t = req[r].token
  OBVIOUS
<1> HIDE DEF t
<1>5. x \in Request /\ x.at = "answer" /\ x.kind = "none" /\ x.token = 0 /\ x.sets = t
  BY <1>1, <1>2, BoundsAreNat DEF Request
<1> HIDE DEF x
<1>6. Moves(r, x)
  BY <1>1, <1>2, <1>5 DEF Moves, RequestOK, CommitSession
<1>7. OthersOK'
  BY <1>1, <1>2 DEF CommitSession, OthersOK, outside, Tokens
<1>8. /\ \A q \in Requests : req'[q] = IF q = r THEN x ELSE req[q]
      /\ \A u \in Tokens : store'[u] = IF u = t THEN req[r].data ELSE store[u]
  BY <1>2 DEF RequestInv, OthersOK
<1>9. \A q \in Requests : req[q].token \in 0..MaxTokens /\ req[q].sets \in -1..MaxTokens
  BY DEF RequestInv, Request
<1>10. IssuedFirst'
  <2>1. \A u \in Tokens : u > issued' => store'[u] = Absent
    BY <1>1, <1>2, <1>8 DEF TokenInv, IssuedFirst, Tokens
  <2>2. \A q \in Requests : req'[q].token <= issued' /\ req'[q].sets <= issued'
    BY <1>1, <1>2, <1>5, <1>8, <1>9 DEF TokenInv, IssuedFirst
  <2>3. cookie' <= issued'
    BY <1>1, <1>2, BoundsAreNat DEF TokenInv, IssuedFirst, CommitSession, outside, OthersOK
  <2> QED BY <2>1, <2>2, <2>3 DEF IssuedFirst
<1>11. TokenMeansOneUser'
  <2> SUFFICES ASSUME NEW q \in Requests, req'[q].at \notin {"free", "sent"}, req'[q].token # 0
               PROVE  /\ store'[req'[q].token] # Absent
                            => store'[req'[q].token].user = req'[q].data.user
                      /\ \A p \in Requests :
                           req'[p].at \notin {"free", "sent"} /\ req'[p].token = req'[q].token
                             => req'[p].data.user = req'[q].data.user
    BY DEF TokenMeansOneUser
  <2>1. q # r /\ req'[q] = req[q] /\ req[q].token \in Tokens /\ req[q].token <= issued
    BY <1>5, <1>8, <1>9, BoundsAreNat DEF TokenInv, IssuedFirst, Tokens
  <2>2. \A p \in Requests :
           req'[p].at \notin {"free", "sent"} /\ req'[p].token = req'[q].token
             => req'[p].data.user = req'[q].data.user
    BY <1>5, <1>8, <2>1 DEF TokenInv, TokenMeansOneUser
  <2>3. CASE req[q].token = t
    <3>1. req[r].token = t
      BY <1>1, <1>2, <1>3, <1>4, <2>1, <2>3 DEF Tokens
    <3>2. req[q].data.user = req[r].data.user
      BY <1>1, <2>1, <2>3, <3>1 DEF TokenInv, TokenMeansOneUser
    <3> QED BY <1>8, <2>1, <2>2, <2>3, <3>2
  <2>4. CASE req[q].token # t
    BY <1>8, <2>1, <2>2, <2>4 DEF TokenInv, TokenMeansOneUser
  <2> QED BY <2>3, <2>4
<1> QED BY <1>6, <1>7, <1>10, <1>11, MovesOK DEF TokenInv

\* What a step that changes one request and at most these leaves of the rest.
LEMMA OthersKept ==
  ASSUME OthersOK, UNCHANGED <<store, issued, code, flows, members>>,
         cookie' \in 0..MaxTokens, sends' \in 0..MaxSends, who' \in Users \cup {"nobody", "unknown"},
         failures' = failures \/ Fails
  PROVE  OthersOK'
<1>1. failures' \in 0..MaxFailures
  BY BoundsAreNat DEF OthersOK, Fails
<1> QED BY <1>1 DEF OthersOK

\* A step that leaves the session table and the provider alone keeps the rest.
LEMMA OutsideKept ==
  ASSUME OthersOK, UNCHANGED <<store, issued, code, flows, members, outside>>,
         failures' = failures \/ Fails
  PROVE  OthersOK'
<1>1. /\ cookie' \in 0..MaxTokens /\ sends' \in 0..MaxSends
      /\ who' \in Users \cup {"nobody", "unknown"}
  BY DEF OthersOK, outside
<1> QED BY <1>1, OthersKept

\* The failures and the steps of the throttle and the comparisons that end a
\* handler or move it on.
LEMMA PlainSteps ==
  ASSUME BrowserInv, NEW r \in Requests,
         \/ CommitFails(r) \/ CallbackRejected(r) \/ ExchangeFails(r)
         \/ ThrottleAddress(r) \/ ThrottleName(r) \/ LookUp(r) \/ LookUpFails(r)
         \/ GiveUpWaiting(r) \/ ResetName(r) \/ LogoutFails(r)
  PROVE  BrowserInv'
<1> USE DEF BrowserInv
<1>1. OthersOK' /\ UNCHANGED <<comparing, store, issued, cookie>>
  <2>1. /\ UNCHANGED <<store, issued, code, flows, members, comparing, outside>>
        /\ failures' = failures \/ Fails
    BY DEF CommitFails, CallbackRejected, ExchangeFails, ThrottleAddress, ThrottleName, LookUp,
           LookUpFails, GiveUpWaiting, ResetName, LogoutFails
  <2>2. UNCHANGED cookie
    BY <2>1 DEF outside
  <2> QED BY <2>1, <2>2, OutsideKept
<1>2. CASE CommitFails(r)
  BY <1>1, <1>2, OverStep DEF CommitFails
<1>3. CASE CallbackRejected(r) \/ LookUpFails(r) \/ GiveUpWaiting(r) \/ LogoutFails(r)
  <2>1. Refuses(r) /\ req[r].at # "compare"
    BY <1>3 DEF CallbackRejected, LookUpFails, GiveUpWaiting, LogoutFails, At
  <2> QED BY <1>1, <2>1, RefusesStep
<1>4. CASE ExchangeFails(r) \/ ResetName(r)
  <2>1. Goes(r, "commit") /\ req[r].at \in {"exchange", "reset"}
    BY <1>4 DEF ExchangeFails, ResetName
  <2>2. RequestOK([req[r] EXCEPT !.at = "commit"])
    BY <2>1, RequestTypes DEF RequestOK, Request
  <2> QED BY <1>1, <2>1, <2>2, GoesStep
<1>5. CASE ThrottleAddress(r)
  <2>1. Goes(r, "name") \/ Refuses(r)
    BY <1>5 DEF ThrottleAddress
  <2>2. req[r].at = "handle" /\ req[r].kind = "password"
    BY <1>5 DEF ThrottleAddress, At
  <2>3. RequestOK([req[r] EXCEPT !.at = "name"])
    BY <2>2, RequestTypes DEF RequestOK, Request
  <2> QED BY <1>1, <2>1, <2>2, <2>3, GoesStep, RefusesStep
<1>6. CASE ThrottleName(r)
  <2>1. (Goes(r, "lookup") \/ Refuses(r)) /\ req[r].at = "name"
    BY <1>6 DEF ThrottleName
  <2>2. RequestOK([req[r] EXCEPT !.at = "lookup"])
    BY <2>1, RequestTypes DEF RequestOK, Request
  <2> QED BY <1>1, <2>1, <2>2, GoesStep, RefusesStep
<1>7. CASE LookUp(r)
  <2>1. Goes(r, "wait") /\ req[r].at = "lookup"
    BY <1>7 DEF LookUp
  <2>2. RequestOK([req[r] EXCEPT !.at = "wait"])
    BY <2>1, RequestTypes DEF RequestOK, Request
  <2> QED BY <1>1, <2>1, <2>2, GoesStep
<1> QED BY <1>1, <1>2, <1>3, <1>4, <1>5, <1>6, <1>7

-----------------------------------------------------------------------------
(* The SSO round trip.                                                     *)

\* The steps of the sign-in with the provider,
LEMMA SsoSteps ==
  ASSUME BrowserInv, NEW r \in Requests, SsoLogin(r) \/ CallbackAccepted(r) \/ Exchange(r)
  PROVE  BrowserInv'
<1> USE DEF BrowserInv
<1>1. /\ req[r] \in Request /\ RequestOK(req[r]) /\ req[r].data \in Session /\ issued \in Nat
  BY RequestTypes DEF Request
<1>2. CASE SsoLogin(r)
  <2> DEFINE d == [req[r].data EXCEPT !.flow = flows + 1]
             x == [req[r] EXCEPT !.at = "commit", !.data = d]
  <2>1. flows \in 0..MaxFlows /\ flows < MaxFlows /\ flows + 1 \in 1..MaxFlows
    BY <1>2, BoundsAreNat DEF SsoLogin, OthersOK
  <2>2. req' = [req EXCEPT ![r] = x] /\ req[r].at = "handle"
    BY <1>2 DEF SsoLogin, RequestInv, At
  <2>data. d \in Session /\ d.user = req[r].data.user
    BY <1>1, <2>1 DEF Session
  <2> HIDE DEF d
  <2>3. /\ x \in Request /\ x.at = "commit" /\ x.token = req[r].token /\ x.sets = req[r].sets
        /\ x.data.user = req[r].data.user /\ x.kind = req[r].kind /\ x.name = req[r].name
    BY <1>1, <2>data DEF Request
  <2> HIDE DEF x
  <2>4. Moves(r, x) /\ SameToken(r, x)
    BY <1>1, <1>2, <2>2, <2>3 DEF Moves, SameToken, RequestOK, SsoLogin, outside
  <2>5. OthersOK'
    BY <1>2, <2>1 DEF SsoLogin, OthersOK, outside, Flows
  <2> QED BY <2>4, <2>5, MovesOK, SameTokenOK
<1>3. CASE CallbackAccepted(r)
  <2> DEFINE place == IF code[req[r].flow] = "asked" THEN "commit" ELSE "exchange"
             d == [req[r].data EXCEPT !.flow = 0]
             x == [req[r] EXCEPT !.at = place, !.data = d]
  <2>1. req' = [req EXCEPT ![r] = x] /\ req[r].at = "handle" /\ place \in {"commit", "exchange"}
    BY <1>3 DEF CallbackAccepted, RequestInv, At
  <2>data. d \in Session /\ d.user = req[r].data.user
    BY <1>1, BoundsAreNat DEF Session
  <2> HIDE DEF place, d
  <2>2. /\ x \in Request /\ x.at = place /\ x.token = req[r].token /\ x.sets = req[r].sets
        /\ x.data.user = req[r].data.user /\ x.kind = req[r].kind /\ x.name = req[r].name
    BY <1>1, <2>1, <2>data DEF Request
  <2> HIDE DEF x
  <2>3. Moves(r, x) /\ SameToken(r, x)
    BY <1>1, <1>3, <2>1, <2>2 DEF Moves, SameToken, RequestOK, CallbackAccepted, outside
  <2>4. OthersOK'
    BY <1>3, OutsideKept DEF CallbackAccepted
  <2> QED BY <2>3, <2>4, MovesOK, SameTokenOK
<1>4. CASE Exchange(r)
  <2> DEFINE u == code[req[r].flow]
             x == [req[r] EXCEPT !.at = "renew", !.flow = 0, !.told = u]
  <2>1. /\ req' = [req EXCEPT ![r] = x] /\ req[r].at = "exchange"
        /\ u \in SsoUsers
        /\ code' = [code EXCEPT ![req[r].flow] = "spent"]
    BY <1>4 DEF Exchange, RequestInv
  <2>user. u \in Users /\ 0 \in 0..MaxFlows
    BY <2>1, BoundsAreNat DEF Users
  <2> HIDE DEF u
  <2>2. /\ x \in Request /\ x.at = "renew" /\ x.token = req[r].token /\ x.sets = req[r].sets
        /\ x.data = req[r].data /\ x.kind = req[r].kind /\ x.name = req[r].name
        /\ x.told = u
    BY <1>1, <2>user DEF Request
  <2> HIDE DEF x
  <2>3. Moves(r, x) /\ SameToken(r, x)
    BY <1>1, <1>4, <2>1, <2>2, <2>user DEF Moves, SameToken, RequestOK, Exchange, outside
  <2>4. OthersOK'
    BY <1>4 DEF Exchange, OthersOK, outside
  <2> QED BY <2>3, <2>4, MovesOK, SameTokenOK
<1> QED BY <1>2, <1>3, <1>4

-----------------------------------------------------------------------------
(* The slots of bcryptSem.                                                 *)

\* A slot is taken or given back by r, which becomes x.
LEMMA SlotStep ==
  ASSUME RequestInv, NEW r \in Requests, NEW x \in Request, RequestOK(x),
         req' = [req EXCEPT ![r] = x],
         \/ /\ x.at = "compare" /\ req[r].at # "compare"
            /\ comparing' = comparing \cup {r} /\ Cardinality(comparing) < Comparisons
         \/ x.at # "compare" /\ comparing' = comparing \ {r}
  PROVE  RequestInv'
<1> USE DEF RequestInv
<1>1. req' \in [Requests -> Request] /\ RequestsOK'
  BY DEF RequestsOK
<1>2. comparing' = {q \in Requests : req'[q].at = "compare"}
  BY DEF SlotsOK
<1>3. IsFiniteSet(comparing) /\ Cardinality(comparing) \in Nat /\ Cardinality(comparing) <= Comparisons
  BY FS_CardinalityType DEF SlotsOK
<1>4. IsFiniteSet(comparing') /\ Cardinality(comparing') <= Comparisons
  <2>1. CASE comparing' = comparing \cup {r} /\ Cardinality(comparing) < Comparisons
    <3>1. /\ IsFiniteSet(comparing')
          /\ Cardinality(comparing') = Cardinality(comparing) \/ Cardinality(comparing') = Cardinality(comparing) + 1
      BY <1>3, <2>1, FS_AddElement
    <3> QED BY <1>3, <2>1, <3>1, BoundsAreNat
  <2>2. CASE comparing' = comparing \ {r}
    <3>1. comparing' \subseteq comparing
      BY <2>2
    <3>2. /\ IsFiniteSet(comparing') /\ Cardinality(comparing') \in Nat
          /\ Cardinality(comparing') <= Cardinality(comparing)
      BY <1>3, <3>1, FS_Subset, FS_CardinalityType
    <3> QED BY <1>3, <3>2, BoundsAreNat
  <2> QED BY <2>1, <2>2
<1> QED BY <1>1, <1>2, <1>4 DEF SlotsOK

\* ... of the comparison,
LEMMA CompareSteps ==
  ASSUME BrowserInv, NEW r \in Requests, AcquireSlot(r) \/ Compare(r)
  PROVE  BrowserInv'
<1> USE DEF BrowserInv
<1>1. req[r] \in Request /\ RequestOK(req[r])
  BY RequestTypes
<1>2. OthersOK' /\ UNCHANGED <<store, issued, cookie>>
  <2>1. UNCHANGED <<store, issued, code, flows, members, failures, outside>>
    BY DEF AcquireSlot, Compare
  <2> QED BY <2>1, OutsideKept DEF outside
<1>3. CASE AcquireSlot(r)
  <2> DEFINE x == [req[r] EXCEPT !.at = "compare"]
  <2>1. /\ req' = [req EXCEPT ![r] = x] /\ req[r].at = "wait"
        /\ comparing' = comparing \cup {r} /\ Cardinality(comparing) < Comparisons
    BY <1>3 DEF AcquireSlot, Goes, RequestInv
  <2>2. /\ x \in Request /\ x.at = "compare" /\ x.token = req[r].token /\ x.sets = req[r].sets
        /\ x.data = req[r].data /\ x.kind = req[r].kind /\ x.name = req[r].name
    BY <1>1 DEF Request
  <2> HIDE DEF x
  <2>3. SameToken(r, x) /\ RequestOK(x)
    BY <1>1, <1>2, <2>1, <2>2 DEF SameToken, RequestOK
  <2> QED BY <1>2, <2>1, <2>2, <2>3, SlotStep, SameTokenOK
<1>4. CASE Compare(r)
  <2>1. req[r].at = "compare" /\ comparing' = comparing \ {r}
    BY <1>4 DEF Compare
  <2>2. CASE Matches(r)
    <3> DEFINE u == req[r].name
               x == [req[r] EXCEPT !.at = "renew", !.told = u]
    <3>1. u \in Users /\ req' = [req EXCEPT ![r] = x]
      BY <2>2 DEF Matches, Users, RequestInv
    <3> HIDE DEF u
    <3>2. /\ x \in Request /\ x.at = "renew" /\ x.token = req[r].token /\ x.sets = req[r].sets
          /\ x.data = req[r].data /\ x.kind = req[r].kind /\ x.name = req[r].name /\ x.told = u
      BY <1>1, <3>1 DEF Request
    <3> HIDE DEF x
    <3>3. SameToken(r, x) /\ RequestOK(x)
      BY <1>1, <1>2, <2>1, <3>1, <3>2 DEF SameToken, RequestOK
    <3> QED BY <1>2, <2>1, <3>1, <3>2, <3>3, SlotStep, SameTokenOK
  <2>3. CASE Refuses(r)
    <3> DEFINE x == Over(req[r])
    <3>1. /\ x \in Request /\ RequestOK(x) /\ x.at = "answer" /\ x.token = 0 /\ x.sets = -1
          /\ req' = [req EXCEPT ![r] = x]
      BY <2>3, RequestTypes DEF Refuses, RequestInv
    <3> HIDE DEF x
    <3>2. SameToken(r, x)
      BY <1>2, <3>1 DEF SameToken
    <3> QED BY <1>2, <2>1, <3>1, <3>2, SlotStep, SameTokenOK
  <2> QED BY <1>4, <2>2, <2>3 DEF Compare
<1> QED BY <1>3, <1>4

-----------------------------------------------------------------------------
(* establishSession and Logout.                                            *)

\* The copy goes on under a token nobody has had, and the old one is gone.
LEMMA RenewTokenStep ==
  ASSUME BrowserInv, NEW r \in Requests, RenewToken(r)
  PROVE  BrowserInv'
<1> USE DEF BrowserInv
<1> DEFINE u == req[r].told
           d == [req[r].data EXCEPT !.user = u]
           n == issued + 1
           x == [req[r] EXCEPT !.at = "upsert", !.token = n, !.data = d]
<1>1. /\ req[r] \in Request /\ RequestOK(req[r]) /\ req[r].at = "renew"
      /\ issued \in Nat /\ issued + 1 \in Tokens /\ u \in Users
  BY RequestTypes, BoundsAreNat DEF RenewToken, RequestOK, Tokens
<1>2. d \in Session /\ d.user = u
  BY <1>1 DEF Request, Session
<1>3. /\ req' = [req EXCEPT ![r] = x] /\ issued' = issued + 1
      /\ store' = [t \in Tokens |-> IF t = req[r].token THEN Absent ELSE store[t]]
      /\ UNCHANGED <<comparing, cookie>>
  BY DEF RenewToken, RequestInv, outside
<1>new. n \in 0..MaxTokens
  BY <1>1, BoundsAreNat DEF Tokens
<1> HIDE DEF d, n, u
<1>has. /\ x \in Request /\ x.at = "upsert" /\ x.token = n /\ x.sets = req[r].sets
        /\ x.data = d /\ x.kind = req[r].kind /\ x.name = req[r].name /\ x.told = req[r].told
  BY <1>1, <1>2, <1>new DEF Request
<1> HIDE DEF x
<1>4. /\ x \in Request /\ x.at = "upsert" /\ x.token = issued + 1 /\ x.sets = req[r].sets
      /\ x.data = d /\ x.kind = req[r].kind /\ x.name = req[r].name /\ x.told = u
  BY <1>has DEF n, u
<1>5. Moves(r, x)
  BY <1>1, <1>3, <1>4 DEF Moves, RequestOK
<1>6. OthersOK'
  BY <1>1, <1>3, BoundsAreNat DEF RenewToken, OthersOK, outside, Tokens
<1>7. \A q \in Requests : /\ req'[q] = IF q = r THEN x ELSE req[q]
                          /\ req[q].token \in 0..MaxTokens /\ req[q].sets \in -1..MaxTokens
                          /\ req[q].token <= issued /\ req[q].sets <= issued
  BY <1>3 DEF RequestInv, Request, TokenInv, IssuedFirst
<1>8. IssuedFirst'
  <2>1. \A t \in Tokens : t > issued' => store'[t] = Absent
    BY <1>1, <1>3, BoundsAreNat DEF TokenInv, IssuedFirst, Tokens
  <2>2. \A q \in Requests : req'[q].token <= issued' /\ req'[q].sets <= issued'
    BY <1>1, <1>3, <1>4, <1>7
  <2>3. cookie' <= issued'
    BY <1>1, <1>3, BoundsAreNat DEF TokenInv, IssuedFirst, OthersOK
  <2> QED BY <2>1, <2>2, <2>3 DEF IssuedFirst
<1>9. \A q \in Requests : req'[q].token = issued + 1 => q = r
  BY <1>1, <1>7, BoundsAreNat
<1>10. store'[issued + 1] = Absent
  <2>1. store[issued + 1] = Absent
    BY <1>1 DEF TokenInv, IssuedFirst
  <2> QED BY <1>1, <1>3, <2>1
<1>11. \A q \in Requests : req[q].token # 0 =>
           store'[req[q].token] = Absent \/ store'[req[q].token] = store[req[q].token]
  BY <1>3, <1>7, BoundsAreNat DEF Tokens
<1>12. TokenMeansOneUser'
  <2> SUFFICES ASSUME NEW q \in Requests, req'[q].at \notin {"free", "sent"}, req'[q].token # 0,
                      NEW p \in Requests, req'[p].at \notin {"free", "sent"}, req'[p].token = req'[q].token
               PROVE  /\ store'[req'[q].token] # Absent => store'[req'[q].token].user = req'[q].data.user
                      /\ req'[p].data.user = req'[q].data.user
    BY DEF TokenMeansOneUser
  <2>1. CASE q = r
    <3>1. req'[q].token = issued + 1 /\ p = r
      BY <1>4, <1>7, <1>9, <2>1
    <3> QED BY <1>10, <2>1, <3>1
  <2>2. CASE q # r
    <3>1. req'[q].token # issued + 1 /\ req'[q] = req[q]
      BY <1>7, <1>9, <2>2
    <3>2. p # r /\ req'[p] = req[p]
      BY <1>4, <1>7, <3>1
    <3> QED BY <1>11, <3>1, <3>2 DEF TokenInv, TokenMeansOneUser
  <2> QED BY <2>1, <2>2
<1> QED BY <1>5, <1>6, <1>8, <1>12, MovesOK DEF TokenInv

\* ... of the session that is set up,
LEMMA EstablishSteps ==
  ASSUME BrowserInv, NEW r \in Requests,
         RenewTokenFails(r) \/ UpsertMember(r) \/ UpsertMemberFails(r)
  PROVE  BrowserInv'
<1> USE DEF BrowserInv
<1>1. req[r] \in Request /\ RequestOK(req[r])
  BY RequestTypes
<1>2. UNCHANGED <<comparing, store, issued, cookie>>
  BY DEF RenewTokenFails, UpsertMember, UpsertMemberFails, outside
<1>3. CASE RenewTokenFails(r)
  <2>1. OthersOK' /\ req[r].at = "renew"
    BY <1>3, OutsideKept DEF RenewTokenFails
  <2>2. CASE req[r].kind = "callback"
    <3> DEFINE x == [req[r] EXCEPT !.at = "commit", !.told = "same"]
    <3>1. req' = [req EXCEPT ![r] = x]
      BY <1>3, <2>2 DEF RenewTokenFails, RequestInv
    <3>2. /\ x \in Request /\ x.at = "commit" /\ x.token = req[r].token /\ x.sets = req[r].sets
          /\ x.data = req[r].data /\ x.kind = req[r].kind /\ x.name = req[r].name
      BY <1>1 DEF Request
    <3> HIDE DEF x
    <3>3. Moves(r, x) /\ SameToken(r, x)
      BY <1>1, <1>2, <2>1, <3>1, <3>2 DEF Moves, SameToken, RequestOK
    <3> QED BY <2>1, <3>3, MovesOK, SameTokenOK
  <2>3. CASE req[r].kind # "callback"
    <3>1. req' = [req EXCEPT ![r] = [Over(@) EXCEPT !.told = "same"]]
      BY <1>3, <2>3 DEF RenewTokenFails, RequestInv
    <3> QED BY <1>2, <2>1, <3>1, OverStep
  <2> QED BY <2>2, <2>3
<1>4. CASE UpsertMember(r)
  <2> DEFINE place == IF req[r].kind = "password" THEN "reset" ELSE "commit"
  <2>1. Goes(r, place) /\ req[r].at = "upsert"
    BY <1>4 DEF UpsertMember
  <2>2. place \in {"reset", "commit"} /\ (place = "reset" => req[r].kind = "password")
    OBVIOUS
  <2> HIDE DEF place
  <2>3. RequestOK([req[r] EXCEPT !.at = place])
    BY <1>1, <2>2 DEF RequestOK, Request
  <2>4. req[r].told \in Users
    BY <1>1, <2>1 DEF RequestOK
  <2>5. OthersOK'
    BY <1>4, <2>4 DEF UpsertMember, OthersOK, outside
  <2> QED BY <1>2, <2>1, <2>2, <2>3, <2>5, GoesStep
<1>5. CASE UpsertMemberFails(r)
  <2> DEFINE x == [req[r] EXCEPT !.at = "commit", !.told = "unknown"]
  <2>1. req' = [req EXCEPT ![r] = x] /\ req[r].at = "upsert"
    BY <1>5 DEF UpsertMemberFails, RequestInv
  <2>2. /\ x \in Request /\ x.at = "commit" /\ x.token = req[r].token /\ x.sets = req[r].sets
        /\ x.data = req[r].data /\ x.kind = req[r].kind /\ x.name = req[r].name
    BY <1>1 DEF Request
  <2> HIDE DEF x
  <2>3. Moves(r, x) /\ SameToken(r, x)
    BY <1>1, <1>2, <2>1, <2>2 DEF Moves, SameToken, RequestOK
  <2>4. OthersOK'
    BY <1>5, OutsideKept DEF UpsertMemberFails
  <2> QED BY <2>3, <2>4, MovesOK, SameTokenOK
<1> QED BY <1>3, <1>4, <1>5

\* Sessions that disappear disturb no other.
LEMMA FewerSessions ==
  ASSUME OthersOK, TokenInv, NEW t \in 0..MaxTokens,
         \A q \in Requests : req[q].token \in 0..MaxTokens,
         store' = [u \in Tokens |-> IF u = t THEN Absent ELSE store[u]],
         UNCHANGED <<issued, cookie>>,
         \A q \in Requests : /\ req'[q].sets <= issued
                            /\ \/ req'[q].token = 0
                               \/ /\ req'[q].token = req[q].token /\ req'[q].data = req[q].data
                                  /\ req'[q].at = req[q].at
  PROVE  TokenInv'
<1> USE DEF TokenInv
<1>1. \A u \in Tokens : store'[u] = Absent \/ store'[u] = store[u]
  OBVIOUS
<1>2. issued \in Nat /\ Tokens = 0..MaxTokens \ {0}
  BY BoundsAreNat DEF OthersOK, Tokens
<1>3. IssuedFirst'
  BY <1>1, <1>2 DEF IssuedFirst
<1>4. TokenMeansOneUser'
  <2> SUFFICES ASSUME NEW q \in Requests, req'[q].at \notin {"free", "sent"}, req'[q].token # 0,
                      NEW p \in Requests, req'[p].at \notin {"free", "sent"}, req'[p].token = req'[q].token
               PROVE  /\ store'[req'[q].token] # Absent => store'[req'[q].token].user = req'[q].data.user
                      /\ req'[p].data.user = req'[q].data.user
    BY DEF TokenMeansOneUser
  <2>1. /\ req'[q].token = req[q].token /\ req'[q].data = req[q].data /\ req'[q].at = req[q].at
        /\ req'[p].token = req[p].token /\ req'[p].data = req[p].data /\ req'[p].at = req[p].at
        /\ req[q].token \in Tokens
    BY <1>2
  <2> QED BY <1>1, <2>1 DEF TokenMeansOneUser
<1> QED BY <1>3, <1>4

\* ... of the sign-out.
LEMMA LogoutStep ==
  ASSUME BrowserInv, NEW r \in Requests, Logout(r)
  PROVE  BrowserInv'
<1> USE DEF BrowserInv
<1> DEFINE o == Over(req[r])
           x == [o EXCEPT !.sets = 0, !.told = "nobody"]
<1>1. /\ req[r] \in Request /\ req[r].at = "handle" /\ req[r].token \in 0..MaxTokens
      /\ issued \in Nat
      /\ o \in Request /\ o.at = "answer" /\ o.token = 0 /\ o.kind = "none"
  BY RequestTypes DEF Logout, At, Request
<1>2. /\ req' = [req EXCEPT ![r] = x]
      /\ store' = [t \in Tokens |-> IF t = req[r].token THEN Absent ELSE store[t]]
      /\ UNCHANGED <<issued, cookie, comparing>>
  BY DEF Logout, RequestInv, outside
<1> HIDE DEF o
<1>3. x \in Request /\ x.at = "answer" /\ x.token = 0 /\ x.kind = "none" /\ x.sets = 0
  <2>1. 0 \in -1..MaxTokens
    BY BoundsAreNat
  <2> QED BY <1>1, <2>1 DEF Request
<1> HIDE DEF x
<1>4. Moves(r, x)
  BY <1>1, <1>2, <1>3 DEF Moves, RequestOK
<1>5. OthersOK'
  BY <1>2 DEF Logout, OthersOK, outside
<1>6. \A q \in Requests : /\ req[q].token \in 0..MaxTokens /\ req[q].sets <= issued
                          /\ req'[q] = IF q = r THEN x ELSE req[q]
  BY <1>2 DEF RequestInv, Request, TokenInv, IssuedFirst
<1>7. TokenInv'
  BY <1>1, <1>2, <1>3, <1>6, FewerSessions
<1> QED BY <1>4, <1>5, <1>7, MovesOK

-----------------------------------------------------------------------------
(* The browser, the provider and the clock.                                *)

\* What is left of the invariant when only the flags `alone` change.
LEMMA AloneStep ==
  ASSUME RequestInv, UNCHANGED comparing, NEW f \in [Requests -> BOOLEAN],
         req' = [q \in Requests |-> [req[q] EXCEPT !.alone = f[q]]]
  PROVE  /\ RequestInv'
         /\ \A q \in Requests : /\ req'[q].token = req[q].token /\ req'[q].data = req[q].data
                                /\ req'[q].sets = req[q].sets /\ req'[q].at = req[q].at
<1> USE DEF RequestInv
<1>1. ASSUME NEW q \in Requests
      PROVE  /\ req'[q] \in Request
             /\ req'[q].at = req[q].at /\ req'[q].kind = req[q].kind /\ req'[q].name = req[q].name
             /\ req'[q].told = req[q].told /\ req'[q].token = req[q].token
             /\ req'[q].data = req[q].data /\ req'[q].sets = req[q].sets
  <2> DEFINE x == req[q]
             b == f[q]
             y == [x EXCEPT !.alone = b]
  <2>1. req'[q] = y /\ x \in Request /\ b \in BOOLEAN
    OBVIOUS
  <2> HIDE DEF x, b
  <2>2. /\ y \in Request /\ y.at = x.at /\ y.kind = x.kind /\ y.name = x.name /\ y.told = x.told
        /\ y.token = x.token /\ y.data = x.data /\ y.sets = x.sets
    BY <2>1 DEF Request
  <2> QED BY <2>1, <2>2 DEF x
<1>2. req' \in [Requests -> Request]
  BY <1>1
<1>3. RequestsOK'
  BY <1>1 DEF RequestsOK, RequestOK
<1>4. SlotsOK'
  BY <1>1 DEF SlotsOK
<1> QED BY <1>1, <1>2, <1>3, <1>4

\* A request leaves the browser with its cookie, and without a copy of a session.
LEMMA SendStep ==
  ASSUME BrowserInv, NEW r \in Requests, NEW new \in Request, RequestOK(new), Send(r, new),
         new.sets = -1, new.at = "free"
  PROVE  BrowserInv'
<1> USE DEF BrowserInv
<1> DEFINE lonely == InFlight = {}
           c == cookie
           x == [new EXCEPT !.at = "sent", !.token = c, !.alone = lonely]
           f == [q \in Requests |-> req[q].alone /\ req[q].at = "free"]
           others == [q \in Requests |-> [req[q] EXCEPT !.alone = f[q]]]
<1>1. /\ req' = [q \in Requests |-> IF q = r THEN x ELSE others[q]]
      /\ req[r].at = "free"
      /\ UNCHANGED <<store, issued, cookie, code, flows, members, comparing, failures>>
      /\ sends < MaxSends /\ sends' = sends + 1
      /\ who' \in {who, "unknown"}
  BY DEF Send
<1>2. c \in 0..MaxTokens /\ c <= issued /\ issued \in Nat
  BY BoundsAreNat DEF OthersOK, TokenInv, IssuedFirst
<1>3. f \in [Requests -> BOOLEAN] /\ lonely \in BOOLEAN
  OBVIOUS
<1> HIDE DEF lonely, f, c
<1>4. /\ x \in Request /\ x.at = "sent" /\ x.token = c /\ x.sets = -1
      /\ x.kind = new.kind /\ x.name = new.name
  BY <1>2, <1>3 DEF Request
<1>5. RequestOK(x)
  BY <1>4 DEF RequestOK
<1> HIDE DEF x
<1>6. ASSUME NEW q \in Requests
      PROVE  /\ others[q] \in Request
             /\ others[q].at = req[q].at /\ others[q].kind = req[q].kind
             /\ others[q].name = req[q].name /\ others[q].told = req[q].told
             /\ others[q].token = req[q].token /\ others[q].data = req[q].data
             /\ others[q].sets = req[q].sets
  <2> DEFINE z == req[q]
             b == f[q]
             y == [z EXCEPT !.alone = b]
  <2>1. others[q] = y /\ z \in Request /\ b \in BOOLEAN
    BY <1>3 DEF RequestInv
  <2> HIDE DEF z, b, others
  <2>2. /\ y \in Request /\ y.at = z.at /\ y.kind = z.kind /\ y.name = z.name /\ y.told = z.told
        /\ y.token = z.token /\ y.data = z.data /\ y.sets = z.sets
    BY <2>1 DEF Request
  <2> QED BY <2>1, <2>2 DEF z
<1> HIDE DEF others
<1>7. \A q \in Requests : req'[q] = IF q = r THEN x ELSE others[q]
  BY <1>1
<1>8. RequestInv'
  <2>1. req' \in [Requests -> Request]
    BY <1>1, <1>4, <1>6
  <2>2. RequestsOK'
    BY <1>5, <1>6, <1>7 DEF RequestInv, RequestsOK, RequestOK
  <2>3. SlotsOK'
    BY <1>1, <1>4, <1>6, <1>7 DEF RequestInv, SlotsOK
  <2> QED BY <2>1, <2>2, <2>3 DEF RequestInv
<1>9. OthersOK'
  <2>1. sends' \in 0..MaxSends
    BY <1>1, BoundsAreNat DEF OthersOK
  <2> QED BY <1>1, <2>1 DEF OthersOK
<1>10. IssuedFirst'
  BY <1>1, <1>2, <1>4, <1>6, <1>7 DEF TokenInv, IssuedFirst
<1>11. TokenMeansOneUser'
  <2>1. \A q \in Requests : req'[q].at \notin {"free", "sent"} =>
           q # r /\ req'[q].at = req[q].at /\ req'[q].token = req[q].token /\ req'[q].data = req[q].data
    BY <1>4, <1>6, <1>7
  <2> QED BY <1>1, <2>1 DEF TokenInv, TokenMeansOneUser
<1> QED BY <1>8, <1>9, <1>10, <1>11 DEF TokenInv

\* A request is sent with the cookie the browser has,
LEMMA SendsStep ==
  ASSUME BrowserInv, NEW r \in Requests, Sends(r)
  PROVE  BrowserInv'
<1>1. CASE StartSso(r) \/ ClickLogout(r)
  <2>1. PICK kind \in {"sso", "logout"} : Send(r, [Free EXCEPT !.kind = kind])
    BY <1>1 DEF StartSso, ClickLogout
  <2> DEFINE new == [Free EXCEPT !.kind = kind]
  <2>2. new \in Request /\ RequestOK(new) /\ new.sets = -1 /\ new.at = "free"
    BY FreeIsOK DEF Free, Request, RequestOK
  <2> QED BY <2>1, <2>2, SendStep
<1>2. ASSUME NEW name \in Names, SubmitPassword(r, name) PROVE BrowserInv'
  <2> DEFINE new == [Free EXCEPT !.kind = "password", !.name = name]
  <2>1. new \in Request /\ RequestOK(new) /\ new.sets = -1 /\ new.at = "free"
    BY FreeIsOK DEF Free, Request, RequestOK
  <2> QED BY <1>2, <2>1, SendStep DEF SubmitPassword
<1>3. ASSUME NEW f \in Flows, ReturnFromProvider(r, f) PROVE BrowserInv'
  <2> DEFINE new == [Free EXCEPT !.kind = "callback", !.flow = f]
  <2>1. f \in 0..MaxFlows
    BY BoundsAreNat DEF Flows
  <2>2. new \in Request /\ RequestOK(new) /\ new.sets = -1 /\ new.at = "free"
    BY <2>1, FreeIsOK DEF Free, Request, RequestOK
  <2> QED BY <1>3, <2>2, SendStep DEF ReturnFromProvider
<1> QED BY <1>1, <1>2, <1>3 DEF Sends

\* An answer, or its loss, frees the slot; its cookie replaces the browser's.
LEMMA AnswerSteps ==
  ASSUME BrowserInv, NEW r \in Requests, Deliver(r) \/ LoseAnswer(r)
  PROVE  BrowserInv'
<1> USE DEF BrowserInv
<1>1. /\ req[r].at = "answer" /\ req' = [req EXCEPT ![r] = Free]
      /\ UNCHANGED <<store, issued, code, flows, members, comparing>>
      /\ cookie' \in {cookie, req[r].sets} /\ (cookie' # cookie => req[r].sets # -1)
      /\ sends' = sends /\ (failures' = failures \/ Fails)
  BY DEF Deliver, LoseAnswer
<1>2. req[r] \in Request /\ req[r].sets \in -1..MaxTokens
  BY RequestTypes DEF Request
<1>3. Free \in Request /\ RequestOK(Free) /\ Free.at = "free" /\ Free.token = 0 /\ Free.sets = -1
  BY FreeIsOK DEF Free
<1>4. Moves(r, Free) /\ SameToken(r, Free)
  BY <1>1, <1>3 DEF Moves, SameToken
<1>5. cookie' \in 0..MaxTokens /\ sends' \in 0..MaxSends
  BY <1>1, <1>2, BoundsAreNat DEF OthersOK
<1>6. who' \in Users \cup {"nobody", "unknown"}
  <2>1. req[r].told \in Users \cup {"nobody", "same", "unknown"} /\ who \in Users \cup {"nobody", "unknown"}
    BY <1>2 DEF Request, OthersOK
  <2> QED BY <2>1 DEF Deliver, LoseAnswer
<1>7. OthersOK'
  BY <1>1, <1>5, <1>6, OthersKept
<1> QED BY <1>4, <1>7, MovesOK, SameTokenOK

\* ... and sessions expire.
LEMMA ExpireStep ==
  ASSUME BrowserInv, NEW t \in Tokens, Expire(t)
  PROVE  BrowserInv'
<1> USE DEF BrowserInv
<1> DEFINE f == [q \in Requests |-> req[q].alone /\ req[q].at = "free"]
<1>1. /\ req' = [q \in Requests |-> [req[q] EXCEPT !.alone = f[q]]]
      /\ store' = [u \in Tokens |-> IF u = t THEN Absent ELSE store[u]]
      /\ UNCHANGED <<issued, cookie, code, flows, members, comparing, sends>>
      /\ who' \in {"unknown", "nobody", who} /\ Fails
  BY DEF Expire, OthersOK
<1>2. f \in [Requests -> BOOLEAN]
  OBVIOUS
<1> HIDE DEF f
<1>3. /\ RequestInv'
      /\ \A q \in Requests : /\ req'[q].token = req[q].token /\ req'[q].data = req[q].data
                             /\ req'[q].sets = req[q].sets /\ req'[q].at = req[q].at
  BY <1>1, <1>2, AloneStep
<1>4. \A q \in Requests : req[q].token \in 0..MaxTokens /\ req[q].sets <= issued
  BY DEF RequestInv, Request, TokenInv, IssuedFirst
<1>5. t \in 0..MaxTokens
  BY BoundsAreNat DEF Tokens
<1>6. TokenInv'
  BY <1>1, <1>3, <1>4, <1>5, FewerSessions
<1>7. OthersOK'
  <2>1. failures' \in 0..MaxFailures
    BY <1>1, BoundsAreNat DEF OthersOK, Fails
  <2> QED BY <1>1, <2>1 DEF OthersOK
<1> QED BY <1>3, <1>6, <1>7

\* What the browser's requests do not take part in.
LEMMA ElsewhereStep ==
  ASSUME BrowserInv, UNCHANGED <<store, issued, cookie, req, comparing, flows, members, sends, failures, who>>,
         code' = code \/ \E f \in Flows, u \in SsoUsers : SignInAtProvider(f, u)
  PROVE  BrowserInv'
<1> USE DEF BrowserInv
<1>1. code' \in [Flows -> {"unasked", "asked", "spent"} \cup SsoUsers]
  BY DEF OthersOK, SignInAtProvider
<1>2. OthersOK'
  BY <1>1 DEF OthersOK
<1>3. RequestInv'
  BY DEF RequestInv, RequestsOK, SlotsOK
<1>4. TokenInv'
  BY DEF TokenInv, IssuedFirst, TokenMeansOneUser
<1> QED BY <1>2, <1>3, <1>4

\* The steps, by the actions.
LEMMA SignInStep == SignInInv /\ [Next]_vars => SignInInv'
<1> SUFFICES ASSUME SignInInv, [Next]_vars PROVE SignInInv'
  OBVIOUS
<1>1. ThrottleInv /\ BrowserInv /\ RequestsOK
  BY DEF SignInInv, BrowserInv, RequestInv
<1>2. ThrottleInv'
  BY <1>1, CallsThrottle, ThrottleStep
<1> SUFFICES BrowserInv'
  BY <1>2 DEF SignInInv
<1>3. ASSUME NEW r \in Requests, Sends(r) PROVE BrowserInv'
  BY <1>1, <1>3, SendsStep
<1>4. ASSUME NEW r \in Requests, Runs(r) PROVE BrowserInv'
  <2>1. CASE LoadSession(r)
    BY <1>1, <2>1, LoadSessionStep
  <2>2. CASE CommitSession(r)
    BY <1>1, <2>2, CommitSessionStep
  <2>3. CASE \/ CommitFails(r) \/ CallbackRejected(r) \/ ExchangeFails(r)
            \/ ThrottleAddress(r) \/ ThrottleName(r) \/ LookUp(r) \/ LookUpFails(r)
            \/ GiveUpWaiting(r) \/ ResetName(r) \/ LogoutFails(r)
    BY <1>1, <2>3, PlainSteps
  <2>4. CASE SsoLogin(r) \/ CallbackAccepted(r) \/ Exchange(r)
    BY <1>1, <2>4, SsoSteps
  <2>5. CASE AcquireSlot(r) \/ Compare(r)
    BY <1>1, <2>5, CompareSteps
  <2>6. CASE RenewToken(r)
    BY <1>1, <2>6, RenewTokenStep
  <2>7. CASE RenewTokenFails(r) \/ UpsertMember(r) \/ UpsertMemberFails(r)
    BY <1>1, <2>7, EstablishSteps
  <2>8. CASE Logout(r)
    BY <1>1, <2>8, LogoutStep
  <2>9. CASE Deliver(r) \/ LoseAnswer(r)
    BY <1>1, <2>9, AnswerSteps
  <2> QED BY <1>4, <2>1, <2>2, <2>3, <2>4, <2>5, <2>6, <2>7, <2>8, <2>9 DEF Runs
<1>5. CASE \E f \in Flows, u \in SsoUsers : SignInAtProvider(f, u)
  <2>1. UNCHANGED <<store, issued, cookie, req, comparing, flows, members, sends, failures, who>>
    BY <1>5 DEF SignInAtProvider, outside
  <2> QED BY <1>1, <1>5, <2>1, ElsewhereStep
<1>6. ASSUME NEW t \in Tokens, Expire(t) PROVE BrowserInv'
  BY <1>1, <1>6, ExpireStep
<1>7. CASE Passes
  BY <1>1, <1>7, ElsewhereStep DEF Passes
<1>8. CASE UNCHANGED vars
  BY <1>1, <1>8, ElsewhereStep DEF vars
<1> QED BY <1>3, <1>4, <1>5, <1>6, <1>7, <1>8 DEF Next

-----------------------------------------------------------------------------

\* The inductive invariant of sign-in: the throttle's, the types with what each
\* handler step needs, the slots, and the history of the session tokens.
THEOREM SignInSafe == Spec => []SignInInv
BY InitOK, SignInStep, PTL DEF Spec

\* Types, and at most Comparisons password comparisons at a time, each holding
\* exactly one slot of bcryptSem (verifyPassword).
THEOREM TypeCorrect == Spec => []TypeOK
<1>1. SignInInv => TypeOK
  BY DEF SignInInv, ThrottleInv, BrowserInv, RequestInv, SlotsOK, OthersOK, TypeOK
<1> QED BY <1>1, SignInSafe, PTL

\* However requests of a browser cross, no session token ever stands for two
\* users (establishSession: RenewToken before putSessionData).
THEOREM TokensMeanOneUser == Spec => []TokenMeansOneUser
<1>1. SignInInv => TokenMeansOneUser
  BY DEF SignInInv, BrowserInv, TokenInv
<1> QED BY <1>1, SignInSafe, PTL

\* The login handler uses the limiters as LoginThrottle describes, one call at a
\* time: what is proved of LoginThrottle holds of it.
THEOREM UsesThrottle == Spec => ThrottleSpec
<1>1. Init => ThrottleInit
  BY DEF Init
<1>2. SignInInv /\ [Next]_vars => [ThrottleNext]_throttleVars
  BY CallsThrottle DEF SignInInv, BrowserInv, RequestInv
<1> QED BY <1>1, <1>2, SignInSafe, PTL DEF Spec, ThrottleSpec

\* In particular no login can tell that a bucket was ever pruned, and the maps of
\* both limiters stay within their bound.
THEOREM LoginThrottled == Spec => [](PruningUnseen /\ MapsBounded)
BY UsesThrottle, PruningIsUnseen, MapsStayBounded, PTL

-----------------------------------------------------------------------------
(* Whom the cookie makes the browser.                                      *)

\* The browser is who it was last told to be, and may be that.
Settled == who # "unknown" => WhoIs(cookie) = who /\ who \in members \cup {"nobody"}

Asking == {"handle", "exchange", "name", "lookup", "wait", "compare"}

\* What a request that nothing crosses has made of that: a handler up to its
\* RenewToken works on the session of the cookie; one past it signs a member in;
\* one that is over answers with a cookie that means what it told.
Stage(x) ==
  /\ x.at = "sent" => Settled /\ x.told = "same" /\ x.token = cookie
  /\ x.at \in Asking => Settled /\ x.told = "same" /\ x.data.user = WhoIs(cookie)
  /\ x.at = "renew" => Settled /\ x.data.user = WhoIs(cookie)
  /\ x.at = "upsert" => x.told \in Users /\ x.data.user = x.told
  /\ x.at = "reset" => x.told \in Users \cap members /\ x.data.user = x.told
  /\ x.at = "commit" => \/ x.told = "unknown"
                        \/ x.told = "same" /\ Settled /\ x.data.user = WhoIs(cookie)
                        \/ x.told \in Users \cap members /\ x.data.user = x.told
  /\ x.at = "answer" =>
       LET c == IF x.sets = -1 THEN cookie ELSE x.sets IN
       /\ x.told = "same" /\ who # "unknown" => WhoIs(c) = who /\ who \in members \cup {"nobody"}
       /\ x.told \notin {"same", "unknown"} => WhoIs(c) = x.told /\ x.told \in members \cup {"nobody"}

\* Request r alone is in flight, or nobody knows who the browser is.
StageOK(r) ==
  req[r].at # "free" =>
    IF req[r].alone THEN Stage(req[r]) /\ \A q \in Requests \ {r} : req[q].at = "free"
                    ELSE who = "unknown"

CookieInv == (InFlight = {} => Settled) /\ \A r \in Requests : StageOK(r)

\* What an answer keeps of the request.
LEMMA OverKeeps ==
  ASSUME NEW x \in Request
  PROVE  Over(x).told = x.told /\ Over(x).alone = x.alone
<1>1. x.alone \in BOOLEAN /\ x.told \in Users \cup {"nobody", "same", "unknown"}
  BY DEF Request
<1>2. Free \in Request
  BY FreeIsOK
<1> QED BY <1>1, <1>2 DEF Over, Request

\* No user is called like what an answer can tell besides.
LEMMA UserNames == "nobody" \notin Users /\ "same" \notin Users /\ "unknown" \notin Users
BY SignInAssumption DEF Users

\* A step of a handler: only if nothing crosses it has it to keep its stage.
LEMMA CookieMoves ==
  ASSUME BrowserInv, CookieInv, NEW r \in Requests, NEW x \in Request,
         req' = [req EXCEPT ![r] = x], req[r].at # "free", x.at # "free",
         x.alone = req[r].alone, UNCHANGED who,
         x.alone => Stage(x)'
  PROVE  CookieInv'
<1>1. req'[r] = x /\ \A q \in Requests \ {r} : req'[q] = req[q]
  BY DEF BrowserInv, RequestInv
<1>2. InFlight' # {}
  BY <1>1 DEF InFlight
<1>3. StageOK(r)'
  <2>1. CASE x.alone
    BY <1>1, <2>1 DEF CookieInv, StageOK
  <2>2. CASE ~x.alone
    BY <1>1, <2>2 DEF CookieInv, StageOK
  <2> QED BY <2>1, <2>2
<1>4. ASSUME NEW q \in Requests \ {r} PROVE StageOK(q)'
  <2>1. CASE req[q].at = "free"
    BY <1>1, <2>1 DEF StageOK
  <2>2. CASE req[q].at # "free"
    <3>1. ~req[q].alone /\ who = "unknown"
      BY <2>2 DEF CookieInv, StageOK
    <3> QED BY <1>1, <3>1 DEF StageOK
  <2> QED BY <2>1, <2>2
<1> QED BY <1>2, <1>3, <1>4 DEF CookieInv

\* A handler that has told nothing yet goes on, or ends what it was at.
LEMMA AskingGoes ==
  ASSUME BrowserInv, CookieInv, NEW r \in Requests, NEW x \in Request,
         req' = [req EXCEPT ![r] = x], req[r].at \in Asking, x.at \in Asking \cup {"commit"},
         x.alone = req[r].alone, x.told = req[r].told, x.data.user = req[r].data.user,
         UNCHANGED <<store, cookie, members, who>>
  PROVE  CookieInv'
<1>1. req[r].at # "free" /\ x.at # "free"
  BY DEF Asking
<1>2. ASSUME x.alone PROVE Stage(x)'
  <2>1. Stage(req[r])
    BY <1>1, <1>2 DEF CookieInv, StageOK
  <2>2. Settled' <=> Settled
    BY DEF Settled, WhoIs
  <2>3. WhoIs(cookie)' = WhoIs(cookie)
    BY DEF WhoIs
  <2> QED BY <2>1, <2>2, <2>3 DEF Stage, Asking
<1> QED BY <1>1, <1>2, CookieMoves

\* Or it refuses, and the browser stays who it was.
LEMMA AskingRefuses ==
  ASSUME BrowserInv, CookieInv, NEW r \in Requests, Refuses(r), req[r].at \in Asking,
         UNCHANGED <<store, cookie, members, who>>
  PROVE  CookieInv'
<1>0. PICK x : x = Over(req[r])
  OBVIOUS
<1>1. /\ x \in Request /\ x.at = "answer" /\ x.sets = -1
      /\ x.told = req[r].told /\ x.alone = req[r].alone
      /\ req' = [req EXCEPT ![r] = x]
  BY <1>0, RequestTypes, OverKeeps DEF Refuses, BrowserInv, RequestInv
<1>2. req[r].at # "free"
  BY DEF Asking
<1>3. ASSUME x.alone PROVE Stage(x)'
  <2>1. Stage(req[r])
    BY <1>1, <1>2, <1>3 DEF CookieInv, StageOK
  <2>2. WhoIs(cookie)' = WhoIs(cookie)
    BY DEF WhoIs
  <2>3. x.told = "same" /\ (who # "unknown" => WhoIs(cookie) = who /\ who \in members \cup {"nobody"})
    BY <1>1, <2>1 DEF Stage, Settled
  <2>4. who' # "unknown" => WhoIs(cookie)' = who' /\ who' \in members' \cup {"nobody"}
    BY <2>2, <2>3
  <2> QED BY <1>1, <2>3, <2>4 DEF Stage, Asking
<1> QED BY <1>1, <1>2, <1>3, CookieMoves

\* The handlers up to the point where a user is found.
LEMMA AskingCookie ==
  ASSUME BrowserInv, CookieInv, NEW r \in Requests,
         \/ SsoLogin(r) \/ CallbackRejected(r) \/ CallbackAccepted(r) \/ ExchangeFails(r)
         \/ ThrottleAddress(r) \/ ThrottleName(r) \/ LookUp(r) \/ LookUpFails(r)
         \/ AcquireSlot(r) \/ GiveUpWaiting(r) \/ (Compare(r) /\ Refuses(r)) \/ LogoutFails(r)
  PROVE  CookieInv'
<1>0. req[r] \in Request
  BY RequestTypes DEF BrowserInv
<1>1. UNCHANGED <<store, cookie, members, who>> /\ req[r].at \in Asking
  BY DEF SsoLogin, CallbackRejected, CallbackAccepted, ExchangeFails, ThrottleAddress, ThrottleName,
         LookUp, LookUpFails, AcquireSlot, GiveUpWaiting, Compare, LogoutFails, outside, At, Asking
<1>2. CASE Refuses(r)
  BY <1>1, <1>2, AskingRefuses
<1>3. ASSUME NEW place \in Asking \cup {"commit"}, Goes(r, place) PROVE CookieInv'
  <2> DEFINE x == [req[r] EXCEPT !.at = place]
  <2>1. /\ x \in Request /\ x.at = place
        /\ x.alone = req[r].alone /\ x.told = req[r].told /\ x.data = req[r].data
    BY <1>0 DEF Request, Asking
  <2>2. req' = [req EXCEPT ![r] = x]
    BY <1>3 DEF Goes, BrowserInv, RequestInv
  <2> HIDE DEF x
  <2> QED BY <1>1, <2>1, <2>2, AskingGoes
<1>4. CASE Goes(r, "commit") \/ Goes(r, "name") \/ Goes(r, "lookup") \/ Goes(r, "wait") \/ Goes(r, "compare")
  BY <1>3, <1>4 DEF Asking
<1>5. ASSUME NEW place \in {"commit", "exchange"}, NEW f \in 0..MaxFlows,
             req' = [req EXCEPT ![r].at = place, ![r].data.flow = f]
      PROVE  CookieInv'
  <2>0. req[r].data \in Session
    BY <1>0 DEF Request
  <2> DEFINE d == [req[r].data EXCEPT !.flow = f]
  <2>1. d \in Session /\ d.user = req[r].data.user
    BY <2>0 DEF Session
  <2> HIDE DEF d
  <2> DEFINE x == [req[r] EXCEPT !.at = place, !.data = d]
  <2>2. /\ x \in Request /\ x.at = place
        /\ x.alone = req[r].alone /\ x.told = req[r].told /\ x.data = d
    BY <1>0, <2>1 DEF Request
  <2>3. req' = [req EXCEPT ![r] = x]
    BY <1>0, <1>5 DEF d, BrowserInv, RequestInv, Request
  <2> HIDE DEF x
  <2> QED BY <1>1, <2>1, <2>2, <2>3, AskingGoes DEF Asking
<1>6. CASE SsoLogin(r)
  <2>1. flows + 1 \in 0..MaxFlows
    BY <1>6, BoundsAreNat DEF SsoLogin, BrowserInv, OthersOK
  <2> QED BY <1>5, <1>6, <2>1 DEF SsoLogin
<1>7. CASE CallbackAccepted(r)
  <2>1. 0 \in 0..MaxFlows
    BY BoundsAreNat
  <2> QED BY <1>5, <1>7, <2>1 DEF CallbackAccepted
<1> QED
  BY <1>2, <1>4, <1>6, <1>7
     DEF CallbackRejected, ExchangeFails, ThrottleAddress, ThrottleName, LookUp, LookUpFails,
         AcquireSlot, GiveUpWaiting, LogoutFails

\* A user is found: by the code of a round trip, or by a password.
LEMMA FoundCookie ==
  ASSUME BrowserInv, CookieInv, NEW r \in Requests, Exchange(r) \/ (Compare(r) /\ Matches(r))
  PROVE  CookieInv'
<1>0. req[r] \in Request /\ Users = Accounts \cup SsoUsers
  BY RequestTypes DEF BrowserInv, Users
<1>1. UNCHANGED <<store, cookie, members, who>> /\ req[r].at \in {"exchange", "compare"}
  BY DEF Exchange, Compare, outside
<1>2. PICK u \in Users, f \in 0..MaxFlows :
        req' = [req EXCEPT ![r] = [req[r] EXCEPT !.at = "renew", !.flow = f, !.told = u]]
  <2>1. CASE Exchange(r)
    <3>1. 0 \in 0..MaxFlows
      BY BoundsAreNat
    <3>2. PICK u \in Users : u = code[req[r].flow]
      BY <1>0, <2>1 DEF Exchange
    <3>3. req' = [req EXCEPT ![r] = [req[r] EXCEPT !.at = "renew", !.flow = 0, !.told = u]]
      BY <2>1, <3>2 DEF Exchange, BrowserInv, RequestInv
    <3> QED BY <3>1, <3>3
  <2>2. CASE Matches(r)
    <3>1. PICK u \in Users : u = req[r].name
      BY <1>0, <2>2 DEF Matches
    <3>2. req' = [req EXCEPT ![r] = [req[r] EXCEPT !.at = "renew", !.told = u]]
      BY <2>2, <3>1 DEF Matches, BrowserInv, RequestInv
    <3>3. PICK f \in 0..MaxFlows : f = req[r].flow
      BY <1>0 DEF Request
    <3>4. [req[r] EXCEPT !.at = "renew", !.told = u] = [req[r] EXCEPT !.at = "renew", !.flow = f, !.told = u]
      BY <1>0, <3>3 DEF Request
    <3> QED BY <3>2, <3>4
  <2> QED BY <2>1, <2>2
<1>3. PICK x : x = [req[r] EXCEPT !.at = "renew", !.flow = f, !.told = u]
  OBVIOUS
<1>4. /\ x \in Request /\ x.at = "renew" /\ x.told = u
      /\ x.alone = req[r].alone /\ x.data = req[r].data
  BY <1>0, <1>3 DEF Request
<1>5. ASSUME x.alone PROVE Stage(x)'
  <2>1. Stage(req[r])
    BY <1>1, <1>4, <1>5 DEF CookieInv, StageOK
  <2>2. Settled' <=> Settled
    BY <1>1 DEF Settled, WhoIs
  <2>3. WhoIs(cookie)' = WhoIs(cookie)
    BY <1>1 DEF WhoIs
  <2> QED BY <1>1, <1>4, <2>1, <2>2, <2>3 DEF Stage, Asking
<1>6. req' = [req EXCEPT ![r] = x] /\ req[r].at # "free" /\ x.at # "free"
  BY <1>1, <1>2, <1>3, <1>4
<1> QED BY <1>1, <1>4, <1>5, <1>6, CookieMoves

\* The session as the store has it, or an empty one.
LEMMA LoadCookie ==
  ASSUME BrowserInv, CookieInv, NEW r \in Requests, LoadSession(r)
  PROVE  CookieInv'
<1>0. req[r] \in Request /\ 0 \in 0..MaxTokens
  BY RequestTypes, BoundsAreNat DEF BrowserInv
<1>1. UNCHANGED <<store, cookie, members, who>> /\ req[r].at = "sent"
  BY DEF LoadSession, outside
<1>2. PICK t \in 0..MaxTokens, d \in Session :
        /\ t = IF req[r].token = 0 \/ store[req[r].token] = Absent THEN 0 ELSE req[r].token
        /\ d = IF req[r].token = 0 \/ store[req[r].token] = Absent THEN Empty ELSE store[req[r].token]
  <2>1. req[r].token \in 0..MaxTokens
    BY <1>0 DEF Request
  <2>2. req[r].token # 0 => store[req[r].token] \in Session \cup {Absent}
    BY <2>1, BoundsAreNat DEF BrowserInv, OthersOK, Tokens
  <2> QED BY <1>0, <2>1, <2>2, FreeIsOK
<1>3. PICK x : x = [req[r] EXCEPT !.at = "handle", !.token = t, !.data = d]
  OBVIOUS
<1>4. /\ x \in Request /\ x.at = "handle" /\ x.told = req[r].told
      /\ x.alone = req[r].alone /\ x.data = d
  BY <1>0, <1>3 DEF Request
<1>5. req' = [req EXCEPT ![r] = x]
  BY <1>2, <1>3 DEF LoadSession, BrowserInv, RequestInv
<1>6. d.user = WhoIs(req[r].token)
  BY <1>2 DEF WhoIs, Empty
<1>7. ASSUME x.alone PROVE Stage(x)'
  <2>1. Stage(req[r])
    BY <1>1, <1>4, <1>7 DEF CookieInv, StageOK
  <2>2. Settled' <=> Settled
    BY <1>1 DEF Settled, WhoIs
  <2>3. WhoIs(cookie)' = WhoIs(cookie)
    BY <1>1 DEF WhoIs
  <2> QED BY <1>1, <1>4, <1>6, <2>1, <2>2, <2>3 DEF Stage, Asking
<1> QED BY <1>1, <1>4, <1>5, <1>7, CookieMoves

\* The handler's copy is written, under its token or a new one, and the cookie will
\* be that token; or it cannot be written.
LEMMA CommitCookie ==
  ASSUME BrowserInv, CookieInv, NEW r \in Requests, CommitSession(r) \/ CommitFails(r)
  PROVE  CookieInv'
<1>0. req[r] \in Request /\ issued \in Nat /\ issued <= MaxTokens
  BY RequestTypes DEF BrowserInv, OthersOK
<1>1. UNCHANGED <<cookie, members, who>> /\ req[r].at = "commit"
  BY DEF CommitSession, CommitFails, outside
<1>a. PICK o : o = Over(req[r])
  OBVIOUS
<1>b. /\ o \in Request /\ o.at = "answer" /\ o.sets = -1
      /\ o.told = req[r].told /\ o.alone = req[r].alone
  BY <1>0, <1>a, RequestTypes, OverKeeps DEF BrowserInv
<1>2. CASE CommitSession(r)
  <2>1. PICK t \in Tokens : /\ t = IF req[r].token = 0 THEN issued + 1 ELSE req[r].token
                            /\ store' = [store EXCEPT ![t] = req[r].data]
                            /\ req' = [req EXCEPT ![r] = [o EXCEPT !.sets = t]]
    <3>1. req[r].token \in 0..MaxTokens
      BY <1>0 DEF Request
    <3>2. PICK t \in Tokens : t = IF req[r].token = 0 THEN issued + 1 ELSE req[r].token
      BY <1>0, <1>2, <3>1, BoundsAreNat DEF CommitSession, Tokens
    <3>3. store' = [store EXCEPT ![t] = req[r].data]
      BY <1>2, <3>2 DEF CommitSession
    <3>4. req' = [req EXCEPT ![r] = [Over(@) EXCEPT !.sets = t]]
      BY <1>2, <3>2 DEF CommitSession
    <3>5. req' = [req EXCEPT ![r] = [o EXCEPT !.sets = t]]
      BY <1>a, <3>4
    <3> QED BY <3>2, <3>3, <3>5
  <2>2. PICK x : x = [o EXCEPT !.sets = t]
    OBVIOUS
  <2>3. /\ x \in Request /\ x.at = "answer" /\ x.told = req[r].told
        /\ x.alone = req[r].alone /\ x.sets = t /\ x.sets # -1 /\ t # 0
    BY <1>b, <2>2, BoundsAreNat DEF Request, Tokens
  <2>4. req[r].data \in Session
    BY <1>0 DEF Request
  <2>5. store'[t] = req[r].data /\ store'[t] # Absent
    BY <2>1, <2>4, AbsentAssumption DEF BrowserInv, OthersOK
  <2>6. WhoIs(t)' = req[r].data.user
    BY <2>3, <2>5 DEF WhoIs
  <2>7. ASSUME x.alone PROVE Stage(x)'
    <3>1. Stage(req[r])
      BY <1>1, <2>3, <2>7 DEF CookieInv, StageOK
    <3>2. /\ x.told = "same" /\ who # "unknown" => WhoIs(t)' = who /\ who \in members \cup {"nobody"}
          /\ x.told \notin {"same", "unknown"} => WhoIs(t)' = x.told /\ x.told \in members
      BY <1>1, <2>3, <2>6, <3>1, UserNames DEF Stage, Settled
    <3> QED BY <1>1, <2>3, <3>2 DEF Stage, Asking
  <2> QED BY <1>1, <2>1, <2>2, <2>3, <2>7, CookieMoves
<1>3. CASE CommitFails(r)
  <2>1. PICK x : x = [o EXCEPT !.told = "unknown"]
    OBVIOUS
  <2>2. /\ x \in Request /\ x.at = "answer" /\ x.told = "unknown" /\ x.alone = req[r].alone
    BY <1>b, <2>1 DEF Request
  <2>3. req' = [req EXCEPT ![r] = x]
    BY <1>3, <1>a, <2>1 DEF CommitFails, BrowserInv, RequestInv
  <2>4. Stage(x)'
    BY <2>2 DEF Stage, Asking
  <2> QED BY <1>1, <2>2, <2>3, <2>4, CookieMoves
<1> QED BY <1>2, <1>3

\* The old session goes and the copy gets a new token and the user; if the store is
\* down the browser stays who it was.
LEMMA RenewCookie ==
  ASSUME BrowserInv, CookieInv, NEW r \in Requests, RenewToken(r) \/ RenewTokenFails(r)
  PROVE  CookieInv'
<1>0. /\ req[r] \in Request /\ issued \in Nat /\ req[r].at = "renew"
      /\ UNCHANGED <<cookie, members, who>>
  BY RequestTypes DEF BrowserInv, RenewToken, RenewTokenFails, outside
<1>1. PICK u \in Users : u = req[r].told
  BY <1>0 DEF BrowserInv, RequestInv, RequestsOK, RequestOK
<1>2. CASE RenewToken(r)
  <2>0. req[r].data \in Session
    BY <1>0 DEF Request
  <2>1. PICK d \in Session : d = [req[r].data EXCEPT !.user = u] /\ d.user = u
    <3>1. PICK v \in Session : v = req[r].data
      BY <2>0
    <3>2. [v EXCEPT !.user = u] \in Session /\ [v EXCEPT !.user = u].user = u
      BY DEF Session
    <3> QED BY <3>1, <3>2
  <2>2. PICK t \in 0..MaxTokens : t = issued + 1
    BY <1>0, <1>2, BoundsAreNat DEF RenewToken
  <2>3. PICK x : x = [req[r] EXCEPT !.at = "upsert", !.token = t, !.data = d]
    OBVIOUS
  <2>4. /\ x \in Request /\ x.at = "upsert" /\ x.told = u /\ x.alone = req[r].alone /\ x.data = d
    BY <1>0, <1>1, <2>3 DEF Request
  <2>5. req' = [req EXCEPT ![r] = x]
    <3>1. req' = [req EXCEPT ![r].at = "upsert", ![r].token = t, ![r].data.user = u]
      BY <1>1, <1>2, <2>2 DEF RenewToken
    <3> QED BY <1>0, <2>1, <2>3, <3>1 DEF BrowserInv, RequestInv
  <2>6. Stage(x)'
    BY <2>1, <2>4 DEF Stage, Asking
  <2> QED BY <1>0, <1>2, <2>4, <2>5, <2>6, CookieMoves DEF RenewToken
<1>3. CASE RenewTokenFails(r)
  <2>1. PICK y : y = IF req[r].kind = "callback" THEN [req[r] EXCEPT !.at = "commit"] ELSE Over(req[r])
    OBVIOUS
  <2>2. /\ y \in Request /\ y.alone = req[r].alone
        /\ \/ y.at = "commit" /\ y.data = req[r].data
           \/ y.at = "answer" /\ y.sets = -1
    <3>1. /\ Over(req[r]) \in Request /\ Over(req[r]).at = "answer" /\ Over(req[r]).sets = -1
          /\ Over(req[r]).alone = req[r].alone
      BY <1>0, OverIsOK, OverKeeps
    <3> QED BY <1>0, <2>1, <3>1 DEF Request
  <2>3. PICK x : x = [y EXCEPT !.told = "same"]
    OBVIOUS
  <2>4. /\ x \in Request /\ x.alone = req[r].alone /\ x.told = "same"
        /\ \/ x.at = "commit" /\ x.data = req[r].data
           \/ x.at = "answer" /\ x.sets = -1
    BY <2>2, <2>3 DEF Request
  <2>5. req' = [req EXCEPT ![r] = x]
    BY <1>3, <2>1, <2>3 DEF RenewTokenFails, BrowserInv, RequestInv
  <2>6. ASSUME x.alone PROVE Stage(x)'
    <3>1. Stage(req[r])
      BY <1>0, <2>4, <2>6 DEF CookieInv, StageOK
    <3>2. UNCHANGED store
      BY <1>3 DEF RenewTokenFails
    <3>3. WhoIs(cookie)' = WhoIs(cookie)
      BY <1>0, <3>2 DEF WhoIs
    <3>4. Settled' /\ (who' # "unknown" => WhoIs(cookie)' = who' /\ who' \in members' \cup {"nobody"})
      BY <1>0, <3>1, <3>3 DEF Stage, Settled
    <3>5. x.at = "commit" => x.data.user = WhoIs(cookie)'
      BY <1>0, <2>4, <3>1, <3>3 DEF Stage
    <3>6. CASE x.at = "commit"
      BY <2>4, <3>4, <3>5, <3>6 DEF Stage, Asking
    <3>7. CASE x.at = "answer" /\ x.sets = -1
      BY <2>4, <3>4, <3>7 DEF Stage, Asking
    <3> QED BY <2>4, <3>6, <3>7
  <2> QED BY <1>0, <2>4, <2>5, <2>6, CookieMoves DEF RenewTokenFails
<1> QED BY <1>2, <1>3

\* The member is recorded before the session is written; if that fails the answer
\* does not say who the browser is.
LEMMA UpsertCookie ==
  ASSUME BrowserInv, CookieInv, NEW r \in Requests,
         UpsertMember(r) \/ UpsertMemberFails(r) \/ ResetName(r)
  PROVE  CookieInv'
<1>0. /\ req[r] \in Request /\ req[r].at \in {"upsert", "reset"}
      /\ UNCHANGED <<cookie, who>> /\ members \subseteq members'
  BY RequestTypes DEF BrowserInv, UpsertMember, UpsertMemberFails, ResetName, outside
<1>1. CASE UpsertMember(r) \/ ResetName(r)
  <2>1. PICK place \in {"reset", "commit"} : Goes(r, place)
    BY <1>1 DEF UpsertMember, ResetName
  <2>2. PICK x : x = [req[r] EXCEPT !.at = place]
    OBVIOUS
  <2>3. /\ x \in Request /\ x.at = place
        /\ x.alone = req[r].alone /\ x.told = req[r].told /\ x.data = req[r].data
    BY <1>0, <2>2 DEF Request
  <2>4. req' = [req EXCEPT ![r] = x]
    BY <2>1, <2>2 DEF Goes, BrowserInv, RequestInv
  <2>5. ASSUME x.alone PROVE Stage(x)'
    <3>1. Stage(req[r])
      BY <1>0, <2>3, <2>5 DEF CookieInv, StageOK
    <3>2. x.told \in Users /\ x.data.user = x.told /\ x.told \in members'
      BY <1>0, <1>1, <2>3, <3>1 DEF Stage, UpsertMember, ResetName
    <3> QED BY <2>3, <3>2 DEF Stage, Asking
  <2> QED BY <1>0, <2>3, <2>4, <2>5, CookieMoves
<1>2. CASE UpsertMemberFails(r)
  <2>1. PICK x : x = [req[r] EXCEPT !.at = "commit", !.told = "unknown"]
    OBVIOUS
  <2>2. x \in Request /\ x.at = "commit" /\ x.told = "unknown" /\ x.alone = req[r].alone
    BY <1>0, <2>1 DEF Request
  <2>3. req' = [req EXCEPT ![r] = x]
    BY <1>2, <2>1 DEF UpsertMemberFails, BrowserInv, RequestInv
  <2>4. Stage(x)'
    BY <2>2 DEF Stage, Asking
  <2> QED BY <1>0, <2>2, <2>3, <2>4, CookieMoves
<1> QED BY <1>1, <1>2

\* The session goes and the answer clears the cookie.
LEMMA LogoutCookie ==
  ASSUME BrowserInv, CookieInv, NEW r \in Requests, Logout(r)
  PROVE  CookieInv'
<1>0. /\ req[r] \in Request /\ req[r].at = "handle" /\ UNCHANGED <<cookie, members, who>>
      /\ 0 \in 0..MaxTokens
  BY RequestTypes, BoundsAreNat DEF BrowserInv, Logout, At, outside
<1>1. PICK o : o = Over(req[r])
  OBVIOUS
<1>2. o \in Request /\ o.at = "answer" /\ o.alone = req[r].alone
  BY <1>0, <1>1, OverIsOK, OverKeeps
<1>3. PICK x : x = [o EXCEPT !.sets = 0, !.told = "nobody"]
  OBVIOUS
<1>4. /\ x \in Request /\ x.at = "answer" /\ x.sets = 0 /\ x.told = "nobody"
      /\ x.alone = req[r].alone
  <2>1. 0 \in -1..MaxTokens /\ "nobody" \in Users \cup {"nobody", "same", "unknown"}
    BY BoundsAreNat
  <2>2. x.at = "answer" /\ x.sets = 0 /\ x.told = "nobody" /\ x.alone = req[r].alone
    BY <1>2, <1>3 DEF Request
  <2>3. x \in Request
    BY <1>2, <1>3, <2>1 DEF Request
  <2> QED BY <2>2, <2>3
<1>5. req' = [req EXCEPT ![r] = x]
  BY <1>1, <1>3 DEF Logout, BrowserInv, RequestInv
<1>6. WhoIs(0)' = "nobody"
  BY DEF WhoIs
<1>7. Stage(x)'
  BY <1>4, <1>6 DEF Stage, Asking
<1> QED BY <1>0, <1>4, <1>5, <1>7, CookieMoves

\* The answer arrives, or is lost.
LEMMA AnswerCookie ==
  ASSUME BrowserInv, CookieInv, NEW r \in Requests, Deliver(r) \/ LoseAnswer(r)
  PROVE  CookieInv'
<1>0. /\ req[r].at = "answer" /\ req' = [req EXCEPT ![r] = Free] /\ UNCHANGED <<store, members>>
  BY DEF Deliver, LoseAnswer
<1>1. /\ req'[r] = Free /\ Free.at = "free"
      /\ \A q \in Requests \ {r} : req'[q] = req[q]
  BY <1>0 DEF BrowserInv, RequestInv, Free
<1>2. CASE who' = "unknown"
  <2>1. Settled'
    BY <1>2 DEF Settled
  <2>2. ASSUME NEW q \in Requests, req'[q].at # "free" PROVE ~req'[q].alone
    <3>1. q # r /\ req'[q] = req[q]
      BY <1>1, <2>2
    <3> QED BY <1>0, <2>2, <3>1 DEF CookieInv, StageOK
  <2> QED BY <1>2, <2>1, <2>2 DEF CookieInv, StageOK
<1>3. CASE who' # "unknown"
  <2>1. Deliver(r) /\ req[r].alone
    BY <1>3 DEF Deliver, LoseAnswer
  <2>2. Stage(req[r]) /\ \A q \in Requests \ {r} : req[q].at = "free"
    BY <1>0, <2>1 DEF CookieInv, StageOK
  <2>3. PICK c : c = IF req[r].sets = -1 THEN cookie ELSE req[r].sets
    OBVIOUS
  <2>4. cookie' = c /\ who' = IF req[r].told = "same" THEN who ELSE req[r].told
    BY <2>1, <2>3 DEF Deliver
  <2>5. WhoIs(c) = who' /\ who' \in members \cup {"nobody"}
    <3>1. /\ req[r].told = "same" /\ who # "unknown" => WhoIs(c) = who /\ who \in members \cup {"nobody"}
          /\ req[r].told \notin {"same", "unknown"} => /\ WhoIs(c) = req[r].told
                                                       /\ req[r].told \in members \cup {"nobody"}
      BY <1>0, <2>2, <2>3 DEF Stage
    <3> QED BY <1>3, <2>4, <3>1
  <2>6. Settled'
    BY <1>0, <2>4, <2>5 DEF Settled, WhoIs
  <2>7. \A q \in Requests : req'[q].at = "free"
    BY <1>1, <2>2
  <2> QED BY <2>6, <2>7 DEF CookieInv, StageOK
<1> QED BY <1>2, <1>3

\* A request alone is sent with the cookie; one that finds another in flight makes
\* both of them cross.
LEMMA SendCookie ==
  ASSUME BrowserInv, CookieInv, NEW r \in Requests, Sends(r)
  PROVE  CookieInv'
<1>0. PICK new \in Request : Send(r, new) /\ new.told = "same"
  <2>1. /\ Free \in Request /\ Free.told = "same"
    BY FreeIsOK DEF Free
  <2>2. CASE StartSso(r) \/ ClickLogout(r)
    <3>1. PICK kind \in {"sso", "logout"} : Send(r, [Free EXCEPT !.kind = kind])
      BY <2>2 DEF StartSso, ClickLogout
    <3>2. [Free EXCEPT !.kind = kind] \in Request /\ [Free EXCEPT !.kind = kind].told = "same"
      BY <2>1 DEF Request
    <3> QED BY <3>1, <3>2
  <2>3. CASE \E name \in Names : SubmitPassword(r, name)
    <3>1. PICK name \in Names : Send(r, [Free EXCEPT !.kind = "password", !.name = name])
      BY <2>3 DEF SubmitPassword
    <3>2. /\ [Free EXCEPT !.kind = "password", !.name = name] \in Request
          /\ [Free EXCEPT !.kind = "password", !.name = name].told = "same"
      BY <2>1 DEF Request
    <3> QED BY <3>1, <3>2
  <2>4. CASE \E f \in Flows : ReturnFromProvider(r, f)
    <3>1. PICK f \in Flows : Send(r, [Free EXCEPT !.kind = "callback", !.flow = f])
      BY <2>4 DEF ReturnFromProvider
    <3>2. f \in 0..MaxFlows
      BY BoundsAreNat DEF Flows
    <3>3. /\ [Free EXCEPT !.kind = "callback", !.flow = f] \in Request
          /\ [Free EXCEPT !.kind = "callback", !.flow = f].told = "same"
      BY <2>1, <3>2 DEF Request
    <3> QED BY <3>1, <3>3
  <2> QED BY <2>2, <2>3, <2>4 DEF Sends
<1>1. PICK b \in BOOLEAN : b = (InFlight = {})
  <2>1. (InFlight = {}) \in BOOLEAN
    OBVIOUS
  <2> QED BY <2>1, Zenon
<1>2. PICK x : x = [new EXCEPT !.at = "sent", !.token = cookie, !.alone = b]
  OBVIOUS
<1>3. x.at = "sent" /\ x.token = cookie /\ x.alone = b /\ x.told = "same"
  BY <1>0, <1>2 DEF Request
<1>4. /\ req[r].at = "free" /\ UNCHANGED <<store, cookie, members>>
      /\ req' = [q \in Requests |-> IF q = r THEN x
                                    ELSE [req[q] EXCEPT !.alone = @ /\ req[q].at = "free"]]
      /\ who' = IF InFlight = {} THEN who ELSE "unknown"
  BY <1>0, <1>1, <1>2 DEF Send
<1>5. \A q \in Requests : req[q] \in Request
  BY DEF BrowserInv, RequestInv
<1>6. ASSUME NEW q \in Requests \ {r}
      PROVE  /\ req'[q].at = req[q].at
             /\ req[q].at # "free" => ~req'[q].alone
  <2>1. PICK y \in Request : y = req[q]
    BY <1>5
  <2>2. PICK c \in BOOLEAN : c = (y.alone /\ y.at = "free")
    <3>1. (y.alone /\ y.at = "free") \in BOOLEAN
      OBVIOUS
    <3> QED BY <3>1, Zenon
  <2>3. req'[q] = [y EXCEPT !.alone = c]
    BY <1>4, <2>1, <2>2
  <2>4. req'[q].at = y.at /\ req'[q].alone = c
    BY <2>3 DEF Request
  <2> QED BY <2>1, <2>2, <2>4
<1>7. req'[r] = x
  BY <1>4
<1>8. InFlight' # {}
  BY <1>3, <1>7 DEF InFlight
<1>9. CASE InFlight = {}
  <2>1. Settled' /\ b
    BY <1>1, <1>4, <1>9 DEF CookieInv, Settled, WhoIs
  <2>2. Stage(x)'
    BY <1>3, <1>4, <2>1 DEF Stage, Asking
  <2>3. \A q \in Requests \ {r} : req'[q].at = "free"
    BY <1>6, <1>9 DEF InFlight
  <2> QED BY <1>3, <1>7, <1>8, <2>1, <2>2, <2>3 DEF CookieInv, StageOK
<1>10. CASE InFlight # {}
  <2>1. who' = "unknown" /\ ~b
    BY <1>1, <1>4, <1>10
  <2>2. \A q \in Requests : req'[q].at # "free" => ~req'[q].alone
    BY <1>3, <1>6, <1>7, <2>1
  <2> QED BY <1>8, <2>1, <2>2 DEF CookieInv, StageOK
<1> QED BY <1>9, <1>10

\* A session that ends under a request crosses it like another request.
LEMMA ExpireCookie ==
  ASSUME BrowserInv, CookieInv, NEW t \in Tokens, Expire(t)
  PROVE  CookieInv'
<1>1. \A q \in Requests : req[q] \in Request
  BY DEF BrowserInv, RequestInv
<1>2. ASSUME NEW q \in Requests
      PROVE  /\ req'[q].at = req[q].at
             /\ req[q].at # "free" => ~req'[q].alone
  <2>1. PICK y \in Request : y = req[q]
    BY <1>1
  <2>2. PICK c \in BOOLEAN : c = (y.alone /\ y.at = "free")
    <3>1. (y.alone /\ y.at = "free") \in BOOLEAN
      OBVIOUS
    <3> QED BY <3>1, Zenon
  <2>3. req'[q] = [y EXCEPT !.alone = c]
    BY <2>1, <2>2 DEF Expire
  <2>4. req'[q].at = y.at /\ req'[q].alone = c
    BY <2>3 DEF Request
  <2> QED BY <2>1, <2>2, <2>4
<1>3. UNCHANGED <<cookie, members>> /\ store' = [store EXCEPT ![t] = Absent]
  BY DEF Expire
<1>4. InFlight' = InFlight
  BY <1>2 DEF InFlight
<1>5. CASE InFlight = {}
  <2>1. who' = IF t = cookie THEN "nobody" ELSE who
    BY <1>5 DEF Expire
  <2>2. Settled
    BY <1>5 DEF CookieInv
  <2>3. CASE t = cookie
    <3>1. store'[cookie] = Absent
      BY <1>3, <2>3 DEF BrowserInv, OthersOK
    <3>2. WhoIs(cookie)' = "nobody"
      BY <1>3, <3>1 DEF WhoIs
    <3> QED BY <1>2, <1>5, <2>1, <2>3, <3>2 DEF CookieInv, Settled, StageOK, InFlight
  <2>4. CASE t # cookie
    <3>1. store'[cookie] = store[cookie] \/ cookie = 0
      BY <1>3, <2>4, BoundsAreNat DEF BrowserInv, OthersOK, Tokens
    <3>2. WhoIs(cookie)' = WhoIs(cookie)
      BY <1>3, <3>1 DEF WhoIs
    <3> QED BY <1>2, <1>3, <1>5, <2>1, <2>2, <2>4, <3>2 DEF CookieInv, Settled, StageOK, InFlight
  <2> QED BY <2>3, <2>4
<1>6. CASE InFlight # {}
  <2>1. who' = "unknown"
    BY <1>6 DEF Expire
  <2> QED BY <1>2, <1>4, <1>6, <2>1 DEF CookieInv, StageOK
<1> QED BY <1>5, <1>6

\* While requests of a browser do not cross, the browser is who the last answer said
\* (CookieTellsWho): both sign-ins, refusals, failures, expiries and the logout.
THEOREM CookieIsWho == Spec => []CookieTellsWho
<1>1. Init => CookieInv
  <2> SUFFICES ASSUME Init PROVE CookieInv
    OBVIOUS
  <2>1. \A r \in Requests : req[r].at = "free"
    BY DEF Init, Free
  <2>2. Settled
    BY DEF Init, Settled, WhoIs
  <2> QED BY <2>1, <2>2 DEF CookieInv, StageOK
<1>2. SignInInv /\ CookieInv /\ [Next]_vars => CookieInv'
  <2> SUFFICES ASSUME SignInInv, CookieInv, [Next]_vars PROVE CookieInv'
    OBVIOUS
  <2>1. BrowserInv
    BY DEF SignInInv
  <2>2. ASSUME NEW r \in Requests, Runs(r) PROVE CookieInv'
    <3>1. Compare(r) => (Compare(r) /\ Matches(r)) \/ (Compare(r) /\ Refuses(r))
      BY DEF Compare
    <3> QED
      BY <2>1, <2>2, <3>1, LoadCookie, CommitCookie, AskingCookie, FoundCookie, RenewCookie,
         UpsertCookie, LogoutCookie, AnswerCookie DEF Runs
  <2>3. CASE UNCHANGED <<store, cookie, members, req, who>>
    <3>1. (Settled' <=> Settled) /\ InFlight' = InFlight
      BY <2>3 DEF Settled, WhoIs, InFlight
    <3>2. \A c : WhoIs(c)' = WhoIs(c)
      BY <2>3 DEF WhoIs
    <3>3. \A q \in Requests : StageOK(q)'
      BY <2>3, <3>1, <3>2 DEF CookieInv, StageOK, Stage
    <3> QED BY <3>1, <3>3 DEF CookieInv
  <2>4. ASSUME NEW f \in Flows, NEW u \in SsoUsers, SignInAtProvider(f, u) PROVE CookieInv'
    BY <2>3, <2>4 DEF SignInAtProvider, outside
  <2>5. CASE Passes \/ UNCHANGED vars
    BY <2>3, <2>5 DEF Passes, vars
  <2> QED BY <2>1, <2>2, <2>4, <2>5, SendCookie, ExpireCookie DEF Next
<1>3. CookieInv => CookieTellsWho
  BY DEF CookieInv, Settled, CookieTellsWho
<1> QED BY <1>1, <1>2, <1>3, SignInSafe, PTL DEF Spec
=============================================================================
