------------------------- MODULE RateLimiterProofs -------------------------
(***************************************************************************)
(* Acquire for any number of callers and any set of rates.  On DynamoDB    *)
(* the conditional update never lets a call through beyond its own rate.   *)
(* On Redis, racing calls do overshoot, by the other callers at most.  On  *)
(* both, calls delayed until the item expired pass once more at most.      *)
(***************************************************************************)
EXTENDS RateLimiterDDB, RateLimiterRedis, FiniteSetTheorems, WellFoundedInduction,
        NaturalsInduction, TLAPS

\* A caller under way has a bucket and a rate.
LEMMA CallFacts ==
  ASSUME TypeOK, NEW p \in Proc
  PROVE  /\ Bucket(p) \in Buckets
         /\ count[Bucket(p)] \in Nat /\ granted[Bucket(p)] \in Nat
         /\ pc[p] = "ask" => call[p].rate \in Rates /\ call[p].rate \in Nat
<1>1. call[p] \in [rate : Rates \cup {0}, bucket : Buckets]
  BY DEF TypeOK
<1>2. Bucket(p) \in Buckets
  BY <1>1 DEF Bucket
<1> QED
  BY Zenon, <1>2, RateLimiterAssumption DEF TypeOK

\* Ending a call keeps the callers well typed.
LEMMA EndTypes ==
  ASSUME TypeOK, NEW p \in Proc, End(p)
  PROVE  /\ pc' \in [Proc -> {"idle", "ask", "new", "expire", "incr"}]
         /\ call' \in [Proc -> [rate : Rates \cup {0}, bucket : Buckets]]
         /\ \A q \in Proc : pc'[q] # "idle" => call'[q].rate \in Rates
<1>1. NoCall \in [rate : Rates \cup {0}, bucket : Buckets]
  BY RateLimiterAssumption DEF NoCall, Buckets
<1> QED
  BY <1>1 DEF TypeOK, End

\* The clock stays in its bounds.
LEMMA TickTypes ==
  ASSUME TypeOK, Tick
  PROVE  TypeOK'
<1>1. minute' \in Buckets
  BY RateLimiterAssumption DEF Tick, TypeOK, Buckets
<1> QED
  BY <1>1 DEF Tick, TypeOK

\* An expired item leaves an empty bucket.
LEMMA ExpireTypes ==
  ASSUME TypeOK, NEW b \in Buckets, Expire(b)
  PROVE  TypeOK'
<1>1. past' \in [Buckets -> Nat]
  BY DEF Expire, TypeOK
<1>2. /\ count' \in [Buckets -> Nat] /\ granted' \in [Buckets -> Nat]
      /\ ttl' \in [Buckets -> Nat]
  BY Zenon DEF Expire, TypeOK
<1> QED
  BY <1>1, <1>2 DEF Expire, TypeOK

\* A new call has one of the rates and the bucket of the clock.
LEMMA BeginTypes ==
  ASSUME TypeOK, NEW p \in Proc, Begin(p)
  PROVE  TypeOK'
<1>1. PICK r \in Rates : call' = [call EXCEPT ![p] = [rate |-> r, bucket |-> minute]]
  BY Zenon DEF Begin
<1>2. call' \in [Proc -> [rate : Rates \cup {0}, bucket : Buckets]]
  BY Zenon, <1>1 DEF TypeOK
<1>3. \A q \in Proc : pc'[q] # "idle" => call'[q].rate \in Rates
  BY <1>1 DEF Begin, TypeOK
<1> QED
  BY <1>2, <1>3 DEF Begin, TypeOK

\* A scope starts without items and without callers.
LEMMA InitTypes == Init => TypeOK
<1>1. NoCall \in [rate : Rates \cup {0}, bucket : Buckets] /\ 0 \in Buckets
  BY RateLimiterAssumption DEF NoCall, Buckets
<1> QED
  BY <1>1 DEF Init, TypeOK

-----------------------------------------------------------------------------
\* What the DynamoDB limiter keeps true.
Inv == TypeOK /\ CountCoversGrants

\* The update keeps the counters well typed and counts one more.
LEMMA ApplyFacts ==
  ASSUME TypeOK, NEW p \in Proc, Apply(p)
  PROVE  /\ count' \in [Buckets -> Nat] /\ ttl' \in [Buckets -> Nat]
         /\ count'[Bucket(p)] = count[Bucket(p)] + 1
         /\ \A b \in Buckets : b # Bucket(p) => count'[b] = count[b]
<1>1. Bucket(p) \in Buckets /\ Bucket(p) + TTL \in Nat
  BY CallFacts, RateLimiterAssumption DEF Buckets
<1>2. /\ count' = [count EXCEPT ![Bucket(p)] = @ + 1]
      /\ ttl' = [ttl EXCEPT ![Bucket(p)] = IF @ = 0 THEN Bucket(p) + TTL ELSE @]
  BY DEF Apply, Increment
<1> QED
  BY <1>1, <1>2 DEF TypeOK

\* Every step keeps the counters and the callers well typed.
LEMMA TypeStep ==
  ASSUME TypeOK, [Next]_vars
  PROVE  TypeOK'
<1>1. CASE Tick
  BY <1>1, TickTypes
<1>2. ASSUME NEW b \in Buckets, Expire(b)
      PROVE  TypeOK'
  BY <1>2, ExpireTypes
<1>3. ASSUME NEW p \in Proc, Begin(p)
      PROVE  TypeOK'
  BY <1>3, BeginTypes
<1>4. ASSUME NEW p \in Proc, Update(p)
      PROVE  TypeOK'
  <2>1. granted' \in [Buckets -> Nat] /\ End(p)
    BY <1>4, CallFacts DEF Update, Grant, TypeOK
  <2> QED
    BY <1>4, <2>1, EndTypes, ApplyFacts DEF Update, TypeOK
<1>5. ASSUME NEW p \in Proc, Limited(p) \/ Fail(p)
      PROVE  TypeOK'
  BY <1>5, EndTypes DEF Limited, Fail, Refuse, TypeOK
<1>6. ASSUME NEW p \in Proc, LostReply(p)
      PROVE  TypeOK'
  <2>1. /\ Apply(p) /\ granted' = granted /\ minute' = minute /\ past' = past
        /\ End(p) \/ (pc' = pc /\ call' = call)
    BY <1>6 DEF LostReply, Refuse
  <2>2. CASE End(p)
    BY <2>1, <2>2, EndTypes, ApplyFacts DEF TypeOK
  <2>3. CASE pc' = pc /\ call' = call
    BY <2>1, <2>3, ApplyFacts DEF TypeOK
  <2> QED
    BY <2>1, <2>2, <2>3
<1>7. CASE UNCHANGED vars
  BY <1>7 DEF vars, TypeOK
<1> QED
  BY <1>1, <1>2, <1>3, <1>4, <1>5, <1>6, <1>7 DEF Next

\* A counted update stays below some caller's rate and covers the grants, with
\* or without one more of them.
LEMMA CountStep ==
  ASSUME Inv, NEW p \in Proc, pc[p] = "ask", BelowCap(p), Apply(p),
         \/ granted' = granted
         \/ granted' = [granted EXCEPT ![Bucket(p)] = @ + 1]
  PROVE  CountCoversGrants'
<1> SUFFICES ASSUME NEW b \in Buckets
             PROVE  /\ granted'[b] <= count'[b]
                    /\ count'[b] > 0 => \E r \in Rates : count'[b] <= r
  BY DEF CountCoversGrants
<1>1. /\ TypeOK /\ count[b] \in Nat /\ granted[b] \in Nat /\ granted[b] <= count[b]
      /\ count[b] > 0 => \E r \in Rates : count[b] <= r
  BY DEF Inv, TypeOK, CountCoversGrants
<1>2. CASE b = Bucket(p)
  <2>1. count'[b] = count[b] + 1 /\ count[b] < call[p].rate
    BY <1>1, <1>2, ApplyFacts DEF BelowCap
  <2>2. call[p].rate \in Rates /\ call[p].rate \in Nat
    BY <1>1, CallFacts
  <2>3. granted'[b] \in {granted[b], granted[b] + 1}
    BY <1>1, <1>2 DEF TypeOK
  <2> QED
    BY <1>1, <2>1, <2>2, <2>3
<1>3. CASE b # Bucket(p)
  <2>1. count'[b] = count[b] /\ granted'[b] = granted[b]
    BY <1>1, <1>3, ApplyFacts DEF TypeOK
  <2> QED
    BY <1>1, <2>1
<1> QED
  BY <1>2, <1>3

\* Every step preserves the invariant.
LEMMA InvStep ==
  ASSUME Inv, [Next]_vars
  PROVE  Inv'
<1>1. TypeOK'
  BY TypeStep DEF Inv
<1>2. ASSUME NEW p \in Proc, Update(p)
      PROVE  CountCoversGrants'
  BY Zenon, <1>2, CountStep DEF Update, Grant
<1>3. ASSUME NEW p \in Proc, LostReply(p)
      PROVE  CountCoversGrants'
  BY <1>3, CountStep DEF LostReply, Refuse
<1>4. ASSUME NEW b \in Buckets, Expire(b)
      PROVE  CountCoversGrants'
  <2>1. \A c \in Buckets :
          /\ c = b => count'[c] = 0 /\ granted'[c] = 0
          /\ c # b => count'[c] = count[c] /\ granted'[c] = granted[c]
    BY <1>4 DEF Expire, Inv, TypeOK
  <2> QED
    BY <2>1 DEF Inv, CountCoversGrants
<1>5. ASSUME count' = count /\ granted' = granted
      PROVE  CountCoversGrants'
  BY <1>5 DEF Inv, CountCoversGrants
<1>6. ASSUME NEW p \in Proc, Begin(p) \/ Limited(p) \/ Fail(p)
      PROVE  count' = count /\ granted' = granted
  BY <1>6 DEF Begin, Limited, Fail, Refuse
<1>7. Tick \/ UNCHANGED vars => count' = count /\ granted' = granted
  BY DEF Tick, vars
<1> QED
  BY <1>1, <1>2, <1>3, <1>4, <1>5, <1>6, <1>7 DEF Next, Inv
-----------------------------------------------------------------------------
\* The inductive invariant of the DynamoDB limiter: no bucket starts with a
\* count, and every step preserves it.
THEOREM Invariance == Spec => []Inv
<1>1. Init => Inv
  <2> SUFFICES ASSUME Init PROVE Inv
    OBVIOUS
  <2>1. TypeOK
    BY InitTypes
  <2> QED
    BY <2>1 DEF Init, Inv, CountCoversGrants
<1>2. Inv /\ [Next]_vars => Inv'
  BY InvStep
<1> QED
  BY <1>1, <1>2, PTL DEF Spec

\* Counters and callers of the DynamoDB limiter stay well typed.
THEOREM TypeCorrect == Spec => []TypeOK
<1>1. Inv => TypeOK
  BY DEF Inv
<1> QED
  BY <1>1, Invariance, PTL

\* Successes are counted, and a count never passes the rate of some caller.
THEOREM CountsCoverGrants == Spec => []CountCoversGrants
<1>1. Inv => CountCoversGrants
  BY DEF Inv
<1> QED
  BY <1>1, Invariance, PTL

\* Whatever the rates of the callers that share a scope, no call succeeds
\* beyond its own rate in its bucket.
THEOREM GrantsWithinRate == Spec => GrantWithinRate
<1> DEFINE A == \A p \in Proc :
             pc'[p] # pc[p] /\ granted'[Bucket(p)] > granted[Bucket(p)]
               => granted'[Bucket(p)] <= call[p].rate
<1>1. Inv /\ [Next]_vars => [A]_vars
  <2> SUFFICES ASSUME Inv, Next, NEW p \in Proc, pc'[p] # pc[p],
                      granted'[Bucket(p)] > granted[Bucket(p)]
               PROVE  granted'[Bucket(p)] <= call[p].rate
    OBVIOUS
  <2>1. /\ TypeOK /\ Bucket(p) \in Buckets
        /\ count[Bucket(p)] \in Nat /\ granted[Bucket(p)] \in Nat
        /\ granted[Bucket(p)] <= count[Bucket(p)]
    BY CallFacts DEF Inv, CountCoversGrants
  <2>2. granted' # granted
    BY <2>1
  <2>3. pc' # pc
    OBVIOUS
  <2>4. PICK q \in Proc : Update(q)
    BY <2>2, <2>3 DEF Next, Tick, Expire, Begin, Limited, Fail, LostReply, Refuse
  <2>5. q = p
    BY <2>1, <2>4 DEF Update, Grant, End, TypeOK
  <2>6. /\ count[Bucket(p)] < call[p].rate /\ call[p].rate \in Nat
        /\ granted'[Bucket(p)] = granted[Bucket(p)] + 1
    BY <2>1, <2>4, <2>5, CallFacts DEF Update, Grant, BelowCap, TypeOK
  <2> QED
    BY <2>1, <2>6
<1> QED
  BY <1>1, Invariance, PTL DEF Spec, GrantWithinRate
-----------------------------------------------------------------------------
\* The callers of bucket b that are in the counter and not among the grants
\* yet, and all of its callers.
Expiring(b) == {p \in Proc : pc[p] = "expire" /\ Bucket(p) = b}
Under(b) == {p \in Proc : pc[p] # "idle" /\ Bucket(p) = b}

\* Until its item expires, a bucket has counted every call it lets through.
Covered(b) == granted[b] + Cardinality(Expiring(b)) <= count[b]

\* Once it has expired, its minute is over: nobody joins, and each of the
\* callers it still has passes once at most.
Closed(b) == minute > b /\ granted[b] + Cardinality(Under(b)) <= Cardinality(Proc)

\* What OvershootBound says of one bucket.
WithinBound(b) ==
  granted[b] + Cardinality(InFlight(b)) <= Max(Rates) + Cardinality(Proc) - 1

BucketOK(b) == (Covered(b) \/ Closed(b)) /\ WithinBound(b)

\* What the Redis limiter keeps true.
RedisInv ==
  /\ TypeOK
  /\ \A p \in Proc : pc[p] # "idle" => Bucket(p) <= minute
  /\ \A b \in Buckets : ttl[b] # 0 => ttl[b] > b
  /\ \A b \in Buckets : BucketOK(b)

\* A finite set of numbers has a largest one: the one with the fewest above it.
LEMMA FiniteMax ==
  ASSUME NEW S \in SUBSET Nat, S # {}, IsFiniteSet(S)
  PROVE  Max(S) \in S /\ \A x \in S : x <= Max(S)
<1> DEFINE Above(x) == {y \in S : y > x}
           Sizes == {Cardinality(Above(x)) : x \in S}
<1>1. ASSUME NEW x \in S
      PROVE  IsFiniteSet(Above(x)) /\ Cardinality(Above(x)) \in Nat
  BY FS_Subset, FS_CardinalityType
<1>2. PICK n \in Sizes : \A m \in Sizes : ~(m < n)
  <2>1. Sizes \subseteq Nat /\ Sizes # {}
    BY Zenon, <1>1
  <2> HIDE DEF Sizes
  <2>2. \E n \in Sizes : \A m \in Sizes : <<m, n>> \notin OpToRel(<, Nat)
    BY <2>1, NatLessThanWellFounded, WFMin
  <2> QED
    BY Zenon, <2>1, <2>2 DEF OpToRel
<1>3. PICK x \in S : n = Cardinality(Above(x))
  BY DEF Sizes
<1>4. ASSUME NEW y \in S, y > x
      PROVE  FALSE
  <2>1. Above(y) \subseteq Above(x) \ {y} /\ y \in Above(x)
    <3>1. \A z \in S : z \in Nat
      OBVIOUS
    <3>2. y \in Above(x) /\ \A z \in Above(y) : z \in S /\ z > x /\ z # y
      BY <1>4, <3>1
    <3> QED
      BY Zenon, <3>2
  <2>2. IsFiniteSet(Above(x)) /\ Cardinality(Above(x)) \in Nat /\ Cardinality(Above(y)) \in Nat
    BY <1>1
  <2> HIDE DEF Above
  <2>3. Cardinality(Above(x) \ {y}) = Cardinality(Above(x)) - 1 /\ IsFiniteSet(Above(x) \ {y})
    BY <2>1, <2>2, FS_RemoveElement
  <2>4. Cardinality(Above(y)) <= Cardinality(Above(x) \ {y})
    BY <2>1, <2>3, FS_Subset
  <2>5. Cardinality(Above(y)) \in Sizes
    OBVIOUS
  <2> QED
    BY <1>2, <1>3, <2>2, <2>3, <2>4, <2>5
<1>5. \A y \in S : x >= y
  BY <1>4
<1> QED
  BY Zenon, <1>5 DEF Max

\* The rates have a largest one, and it is positive.
LEMMA MaxRate ==
  /\ Max(Rates) \in Nat /\ Max(Rates) >= 1
  /\ \A r \in Rates : r \in Nat /\ r <= Max(Rates)
<1>1. Rates \in SUBSET Nat /\ Rates # {} /\ IsFiniteSet(Rates) /\ 0 \notin Rates
  BY RateLimiterAssumption
<1>2. Max(Rates) \in Rates /\ \A r \in Rates : r <= Max(Rates)
  BY <1>1, FiniteMax
<1>3. \A r \in Rates : r \in Nat /\ r # 0
  BY <1>1
<1>4. Max(Rates) \in Nat /\ Max(Rates) # 0
  BY <1>2, <1>3
<1> QED
  BY <1>2, <1>3, <1>4

\* Counting callers: a smaller set, a set without p, a set with p added.
LEMMA CallerSets ==
  ASSUME NEW S \in SUBSET Proc, NEW T \in SUBSET Proc
  PROVE  /\ Cardinality(S) \in Nat /\ Cardinality(Proc) \in Nat
         /\ Cardinality(S) <= Cardinality(Proc)
         /\ S \subseteq T => Cardinality(S) <= Cardinality(T)
         /\ \A p \in T : S \subseteq T \ {p} => Cardinality(S) + 1 <= Cardinality(T)
         /\ \A p \in Proc : S \subseteq T \cup {p} => Cardinality(S) <= Cardinality(T) + 1
<1>1. IsFiniteSet(Proc)
  BY RateLimiterAssumption
<1>2. /\ IsFiniteSet(S) /\ IsFiniteSet(T) /\ Cardinality(S) <= Cardinality(Proc)
      /\ Cardinality(S) \in Nat /\ Cardinality(T) \in Nat /\ Cardinality(Proc) \in Nat
  BY <1>1, FS_Subset, FS_CardinalityType
<1>3. S \subseteq T => Cardinality(S) <= Cardinality(T)
  BY <1>2, FS_Subset
<1>4. ASSUME NEW p \in T, S \subseteq T \ {p}
      PROVE  Cardinality(S) + 1 <= Cardinality(T)
  <2>1. IsFiniteSet(T \ {p}) /\ Cardinality(T \ {p}) = Cardinality(T) - 1
    BY <1>2, FS_RemoveElement
  <2>2. Cardinality(S) <= Cardinality(T \ {p})
    BY <1>4, <2>1, FS_Subset
  <2> QED
    BY <1>2, <2>1, <2>2
<1>5. ASSUME NEW p \in Proc, S \subseteq T \cup {p}
      PROVE  Cardinality(S) <= Cardinality(T) + 1
  <2>1. /\ IsFiniteSet(T \cup {p})
        /\ Cardinality(T \cup {p}) = Cardinality(T) \/ Cardinality(T \cup {p}) = Cardinality(T) + 1
    BY <1>2, FS_AddElement
  <2>2. Cardinality(S) <= Cardinality(T \cup {p})
    BY <1>5, <2>1, FS_Subset
  <2> QED
    BY <1>2, <2>1, <2>2
<1> QED
  BY <1>2, <1>3, <1>4, <1>5

\* The numbers of a bucket, now and after a step.
LEMMA BucketNumbers ==
  ASSUME TypeOK, NEW b \in Buckets
  PROVE  /\ b \in Nat /\ minute \in Nat /\ count[b] \in Nat /\ granted[b] \in Nat
         /\ Cardinality(Expiring(b)) \in Nat /\ Cardinality(InFlight(b)) \in Nat
         /\ Cardinality(Under(b)) \in Nat /\ Cardinality(Proc) \in Nat
         /\ Cardinality(InFlight(b)) <= Cardinality(Proc)
         /\ Cardinality(InFlight(b)) <= Cardinality(Under(b))
         /\ Cardinality(Under(b)) <= Cardinality(Proc)
<1>1. /\ Expiring(b) \in SUBSET Proc /\ InFlight(b) \in SUBSET Proc
      /\ Under(b) \in SUBSET Proc /\ InFlight(b) \subseteq Under(b)
  BY DEF Expiring, InFlight, Under
<1>2. b \in Nat /\ minute \in Nat /\ count[b] \in Nat /\ granted[b] \in Nat
  BY RateLimiterAssumption DEF TypeOK, Buckets
<1> QED
  BY <1>1, <1>2, CallerSets

\* A step that lets no call through in bucket b and brings it no new caller on
\* the way to a grant keeps its bounds.
LEMMA BucketKept ==
  ASSUME RedisInv, TypeOK', NEW b \in Buckets,
         minute' >= minute, count'[b] >= count[b], granted'[b] = granted[b],
         Expiring(b)' \subseteq Expiring(b), InFlight(b)' \subseteq InFlight(b),
         minute > b => Under(b)' \subseteq Under(b)
  PROVE  BucketOK(b)'
<1>1. BucketOK(b) /\ TypeOK
  BY DEF RedisInv
<1>2. /\ Expiring(b) \in SUBSET Proc /\ Expiring(b)' \in SUBSET Proc
      /\ InFlight(b) \in SUBSET Proc /\ InFlight(b)' \in SUBSET Proc
      /\ Under(b) \in SUBSET Proc /\ Under(b)' \in SUBSET Proc
  BY DEF Expiring, InFlight, Under
<1>3. /\ Cardinality(Expiring(b)') <= Cardinality(Expiring(b))
      /\ Cardinality(InFlight(b)') <= Cardinality(InFlight(b))
      /\ minute > b => Cardinality(Under(b)') <= Cardinality(Under(b))
  BY <1>2, CallerSets
<1>4. /\ Cardinality(Expiring(b)') \in Nat /\ Cardinality(InFlight(b)') \in Nat
      /\ Cardinality(Under(b)') \in Nat
  BY <1>2, CallerSets
<1>5. minute' \in Nat /\ count'[b] \in Nat
  BY RateLimiterAssumption DEF TypeOK, Buckets
<1>6. CASE Covered(b)
  <2>1. Covered(b)'
    BY <1>1, <1>3, <1>4, <1>5, <1>6, BucketNumbers DEF Covered
  <2> QED
    BY <1>1, <1>3, <1>4, <2>1, BucketNumbers, MaxRate DEF BucketOK, WithinBound
<1>7. CASE Closed(b)
  <2>1. Closed(b)'
    BY <1>1, <1>3, <1>4, <1>5, <1>7, BucketNumbers DEF Closed
  <2> QED
    BY <1>1, <1>3, <1>4, <2>1, BucketNumbers, MaxRate DEF BucketOK, WithinBound
<1> QED
  BY <1>1, <1>6, <1>7 DEF BucketOK

\* A call on its way to a grant in bucket b gets it: it was counted before, or
\* the step counts it.
LEMMA BucketGrants ==
  ASSUME RedisInv, TypeOK', NEW b \in Buckets, NEW p \in InFlight(b),
         minute' = minute, granted'[b] = granted[b] + 1,
         InFlight(b)' \subseteq InFlight(b) \ {p}, Under(b)' \subseteq Under(b) \ {p},
         \/ /\ p \in Expiring(b) /\ count'[b] = count[b]
            /\ Expiring(b)' \subseteq Expiring(b) \ {p}
         \/ count'[b] = count[b] + 1 /\ Expiring(b)' \subseteq Expiring(b)
  PROVE  BucketOK(b)'
<1>1. BucketOK(b) /\ TypeOK
  BY DEF RedisInv
<1>2. /\ Expiring(b) \in SUBSET Proc /\ Expiring(b)' \in SUBSET Proc
      /\ InFlight(b) \in SUBSET Proc /\ InFlight(b)' \in SUBSET Proc
      /\ Under(b) \in SUBSET Proc /\ Under(b)' \in SUBSET Proc
      /\ p \in Proc /\ p \in Under(b)
  BY DEF Expiring, InFlight, Under
<1>3. /\ Cardinality(InFlight(b)') + 1 <= Cardinality(InFlight(b))
      /\ Cardinality(Under(b)') + 1 <= Cardinality(Under(b))
  BY <1>2, CallerSets
<1>4. \/ /\ count'[b] = count[b]
         /\ Cardinality(Expiring(b)') + 1 <= Cardinality(Expiring(b))
      \/ count'[b] = count[b] + 1 /\ Cardinality(Expiring(b)') <= Cardinality(Expiring(b))
  BY <1>2, CallerSets
<1>5. /\ Cardinality(Expiring(b)') \in Nat /\ Cardinality(InFlight(b)') \in Nat
      /\ Cardinality(Under(b)') \in Nat
  BY <1>2, CallerSets
<1>6. CASE Covered(b)
  <2>1. Covered(b)'
    BY <1>1, <1>4, <1>5, <1>6, BucketNumbers DEF Covered
  <2> QED
    BY <1>1, <1>3, <1>5, <2>1, BucketNumbers, MaxRate DEF BucketOK, WithinBound
<1>7. CASE Closed(b)
  <2>1. Closed(b)'
    BY <1>1, <1>3, <1>5, <1>7, BucketNumbers DEF Closed
  <2> QED
    BY <1>1, <1>3, <1>5, <2>1, BucketNumbers, MaxRate DEF BucketOK, WithinBound
<1> QED
  BY <1>1, <1>6, <1>7 DEF BucketOK

\* A call that found room in bucket b joins those on the way to a grant.
LEMMA BucketJoined ==
  ASSUME RedisInv, TypeOK', NEW b \in Buckets,
         minute' = minute, count'[b] = count[b], granted'[b] = granted[b],
         count[b] < Max(Rates),
         Expiring(b)' \subseteq Expiring(b), Under(b)' \subseteq Under(b)
  PROVE  BucketOK(b)'
<1>1. BucketOK(b) /\ TypeOK
  BY DEF RedisInv
<1>2. /\ Expiring(b) \in SUBSET Proc /\ Expiring(b)' \in SUBSET Proc
      /\ Under(b) \in SUBSET Proc /\ Under(b)' \in SUBSET Proc
      /\ InFlight(b)' \in SUBSET Proc /\ InFlight(b)' \subseteq Under(b)'
  BY DEF Expiring, InFlight, Under
<1>3. /\ Cardinality(Expiring(b)') <= Cardinality(Expiring(b))
      /\ Cardinality(Under(b)') <= Cardinality(Under(b))
      /\ Cardinality(InFlight(b)') <= Cardinality(Proc)
      /\ Cardinality(InFlight(b)') <= Cardinality(Under(b)')
  BY <1>2, CallerSets
<1>4. /\ Cardinality(Expiring(b)') \in Nat /\ Cardinality(InFlight(b)') \in Nat
      /\ Cardinality(Under(b)') \in Nat
  BY <1>2, CallerSets
<1>5. CASE Covered(b)
  <2>1. Covered(b)'
    BY <1>1, <1>3, <1>4, <1>5, BucketNumbers DEF Covered
  <2>2. granted[b] <= count[b]
    BY <1>1, <1>5, BucketNumbers DEF Covered
  <2> QED
    BY <1>1, <1>3, <1>4, <2>1, <2>2, BucketNumbers, MaxRate DEF BucketOK, WithinBound
<1>6. CASE Closed(b)
  <2>1. Closed(b)'
    BY <1>1, <1>3, <1>4, <1>6, BucketNumbers DEF Closed
  <2>2. granted[b] + Cardinality(InFlight(b)') <= Cardinality(Proc)
    BY <1>1, <1>3, <1>4, <1>6, BucketNumbers DEF Closed
  <2> QED
    BY <1>1, <1>4, <2>1, <2>2, BucketNumbers, MaxRate DEF BucketOK, WithinBound
<1> QED
  BY <1>1, <1>5, <1>6 DEF BucketOK

\* A call of bucket b counts itself and goes on to set the expiry.
LEMMA BucketCounts ==
  ASSUME RedisInv, TypeOK', NEW b \in Buckets, NEW p \in Proc,
         minute' = minute, count'[b] = count[b] + 1, granted'[b] = granted[b],
         Expiring(b)' \subseteq Expiring(b) \cup {p},
         InFlight(b)' \subseteq InFlight(b), Under(b)' \subseteq Under(b)
  PROVE  BucketOK(b)'
<1>1. BucketOK(b) /\ TypeOK
  BY DEF RedisInv
<1>2. /\ Expiring(b) \in SUBSET Proc /\ Expiring(b)' \in SUBSET Proc
      /\ InFlight(b) \in SUBSET Proc /\ InFlight(b)' \in SUBSET Proc
      /\ Under(b) \in SUBSET Proc /\ Under(b)' \in SUBSET Proc
  BY DEF Expiring, InFlight, Under
<1>3. /\ Cardinality(Expiring(b)') <= Cardinality(Expiring(b)) + 1
      /\ Cardinality(InFlight(b)') <= Cardinality(InFlight(b))
      /\ Cardinality(Under(b)') <= Cardinality(Under(b))
  BY Zenon, <1>2, CallerSets
<1>4. /\ Cardinality(Expiring(b)') \in Nat /\ Cardinality(InFlight(b)') \in Nat
      /\ Cardinality(Under(b)') \in Nat
  BY <1>2, CallerSets
<1>5. WithinBound(b)'
  BY <1>1, <1>3, <1>4, BucketNumbers, MaxRate DEF BucketOK, WithinBound
<1>6. CASE Covered(b)
  BY <1>1, <1>3, <1>4, <1>5, <1>6, BucketNumbers DEF BucketOK, Covered
<1>7. CASE Closed(b)
  BY <1>1, <1>3, <1>4, <1>5, <1>7, BucketNumbers DEF BucketOK, Closed
<1> QED
  BY <1>1, <1>6, <1>7 DEF BucketOK

\* The callers of each bucket after a call has ended.
LEMMA EndSets ==
  ASSUME TypeOK, NEW p \in Proc, End(p), NEW b \in Buckets
  PROVE  /\ Expiring(b)' \subseteq Expiring(b) \ {p}
         /\ InFlight(b)' \subseteq InFlight(b) \ {p}
         /\ Under(b)' \subseteq Under(b) \ {p}
<1>1. pc'[p] = "idle" /\ \A q \in Proc : q # p => pc'[q] = pc[q] /\ call'[q] = call[q]
  BY DEF End, TypeOK
<1> QED
  BY <1>1 DEF Expiring, InFlight, Under, Bucket

\* The callers of each bucket after call p has moved on to stage s.
LEMMA MoveSets ==
  ASSUME TypeOK, NEW p \in Proc, NEW s \in {"new", "expire", "incr"}, pc[p] # "idle",
         pc' = [pc EXCEPT ![p] = s], call' = call, NEW b \in Buckets
  PROVE  /\ Under(b)' \subseteq Under(b)
         /\ Expiring(b)' \subseteq
              IF s = "expire" /\ b = Bucket(p) THEN Expiring(b) \cup {p} ELSE Expiring(b)
         /\ InFlight(b)' \subseteq
              IF pc[p] = "ask" /\ b = Bucket(p) THEN Proc ELSE InFlight(b)
<1>1. pc'[p] = s /\ \A q \in Proc : q # p => pc'[q] = pc[q]
  BY DEF TypeOK
<1>2. pc[p] \in {"ask", "new", "expire", "incr"}
  BY DEF TypeOK
<1> QED
  BY <1>1, <1>2 DEF Expiring, InFlight, Under, Bucket

\* Clock, buckets and expiry times are numbers.
LEMMA ClockFacts ==
  ASSUME TypeOK
  PROVE  /\ minute \in Nat /\ minute + TTL \in Nat /\ TTL \in Nat /\ TTL > 0
         /\ \A b \in Buckets : b \in Nat
<1>1. minute \in Buckets
  BY DEF TypeOK
<1>2. MaxMinute \in Nat /\ TTL \in Nat /\ TTL > 0
  BY RateLimiterAssumption
<1> QED
  BY <1>1, <1>2 DEF Buckets

\* Moving a call on to its next command keeps the callers well typed.
LEMMA MoveTypes ==
  ASSUME TypeOK, NEW p \in Proc, NEW s \in {"new", "expire", "incr"}, pc[p] # "idle",
         pc' = [pc EXCEPT ![p] = s], call' = call
  PROVE  /\ pc' \in [Proc -> {"idle", "ask", "new", "expire", "incr"}]
         /\ call' \in [Proc -> [rate : Rates \cup {0}, bucket : Buckets]]
         /\ \A q \in Proc : pc'[q] # "idle" => call'[q].rate \in Rates
  BY DEF TypeOK

\* The counters stay well typed, whichever of them a command touches.
LEMMA CounterTypes ==
  ASSUME TypeOK, NEW p \in Proc
  PROVE  /\ Increment(p) => /\ count' \in [Buckets -> Nat]
                            /\ count'[Bucket(p)] = count[Bucket(p)] + 1
                            /\ \A b \in Buckets : b # Bucket(p) => count'[b] = count[b]
         /\ SetTTL(p) => ttl' \in [Buckets -> Nat]
         /\ Grant(p) => /\ granted' \in [Buckets -> Nat] /\ End(p)
                        /\ granted'[Bucket(p)] = granted[Bucket(p)] + 1
                        /\ \A b \in Buckets : b # Bucket(p) => granted'[b] = granted[b]
<1>1. Bucket(p) \in Buckets /\ minute + TTL \in Nat
  BY CallFacts, ClockFacts
<1>2. ASSUME Increment(p)
      PROVE  /\ count' \in [Buckets -> Nat]
             /\ count'[Bucket(p)] = count[Bucket(p)] + 1
             /\ \A b \in Buckets : b # Bucket(p) => count'[b] = count[b]
  BY <1>1, <1>2 DEF Increment, TypeOK
<1>3. ASSUME SetTTL(p)
      PROVE  ttl' \in [Buckets -> Nat]
  BY <1>1, <1>3 DEF SetTTL, TypeOK
<1>4. ASSUME Grant(p)
      PROVE  /\ granted' \in [Buckets -> Nat] /\ End(p)
             /\ granted'[Bucket(p)] = granted[Bucket(p)] + 1
             /\ \A b \in Buckets : b # Bucket(p) => granted'[b] = granted[b]
  BY <1>1, <1>4 DEF Grant, TypeOK
<1> QED
  BY <1>2, <1>3, <1>4

\* What a lost reply may have done.
LEMMA LostCases ==
  ASSUME NEW p \in Proc, CommandLost(p)
  PROVE  /\ minute' = minute /\ granted' = granted /\ past' = past /\ pc[p] # "idle"
         /\ End(p) \/ (pc' = pc /\ call' = call)
         /\ (Increment(p) /\ ttl' = ttl) \/ (SetTTL(p) /\ count' = count)
<1>1. CASE /\ pc[p] \in {"new", "incr"} /\ Increment(p) /\ UNCHANGED ttl
           /\ Refuse(p) \/ (count[Bucket(p)] < RetryBound /\ UNCHANGED <<granted, pc, call>>)
           /\ UNCHANGED <<minute, past>>
  <2> HIDE DEF Increment, SetTTL, RetryBound, Bucket, End
  <2> QED
    BY <1>1 DEF Refuse
<1>2. CASE pc[p] = "expire" /\ SetTTL(p) /\ Refuse(p) /\ UNCHANGED count /\ UNCHANGED <<minute, past>>
  BY <1>2 DEF Refuse
<1> QED
  BY <1>1, <1>2 DEF CommandLost

\* Every step on Redis keeps the counters and the callers well typed.
LEMMA RedisTypeStep ==
  ASSUME TypeOK, [RedisNext]_vars
  PROVE  TypeOK'
<1>1. CASE Tick
  BY <1>1, TickTypes
<1>2. ASSUME NEW b \in Buckets, Expire(b)
      PROVE  TypeOK'
  BY <1>2, ExpireTypes
<1>3. ASSUME NEW p \in Proc, Begin(p)
      PROVE  TypeOK'
  BY <1>3, BeginTypes
<1>4. ASSUME NEW p \in Proc, HGet(p)
      PROVE  TypeOK'
  <2>1. CASE Route(p) = "full"
    BY <1>4, <2>1, EndTypes DEF HGet, Refuse, TypeOK
  <2>2. CASE Route(p) # "full"
    <3>1. Route(p) \in {"new", "incr"}
      BY <2>2 DEF Route
    <3>2. pc[p] = "ask" /\ pc' = [pc EXCEPT ![p] = Route(p)] /\ call' = call
      BY <1>4, <2>2 DEF HGet
    <3>3. PICK s \in {"new", "incr"} : s = Route(p)
      BY <3>1
    <3> QED
      BY <1>4, <2>2, <3>2, <3>3, MoveTypes DEF HGet, TypeOK
  <2> QED
    BY <2>1, <2>2
<1>5. ASSUME NEW p \in Proc, HIncrNew(p)
      PROVE  TypeOK'
  BY <1>5, MoveTypes, CounterTypes DEF HIncrNew, TypeOK
<1>6. ASSUME NEW p \in Proc, SetExpire(p)
      PROVE  TypeOK'
  BY <1>6, EndTypes, CounterTypes DEF SetExpire, TypeOK
<1>7. ASSUME NEW p \in Proc, HIncr(p)
      PROVE  TypeOK'
  BY <1>7, EndTypes, CounterTypes DEF HIncr, TypeOK
<1>8. ASSUME NEW p \in Proc, CommandFail(p)
      PROVE  TypeOK'
  BY <1>8, EndTypes DEF CommandFail, Refuse, TypeOK
<1>9. ASSUME NEW p \in Proc, CommandLost(p)
      PROVE  TypeOK'
  <2>1. /\ minute' = minute /\ granted' = granted /\ past' = past
        /\ count' \in [Buckets -> Nat] /\ ttl' \in [Buckets -> Nat]
    BY <1>9, LostCases, CounterTypes DEF TypeOK
  <2>2. CASE End(p)
    BY <2>1, <2>2, EndTypes DEF TypeOK
  <2>3. CASE pc' = pc /\ call' = call
    BY <2>1, <2>3 DEF TypeOK
  <2> QED
    BY <1>9, <2>2, <2>3, LostCases
<1>10. CASE UNCHANGED vars
  BY <1>10 DEF vars, TypeOK
<1> QED
  BY <1>1, <1>2, <1>3, <1>4, <1>5, <1>6, <1>7, <1>8, <1>9, <1>10 DEF RedisNext

\* No call is ahead of the clock, and no item expires before its minute ends.
LEMMA ClockStep ==
  ASSUME RedisInv, [RedisNext]_vars, TypeOK'
  PROVE  /\ \A p \in Proc : pc'[p] # "idle" => Bucket(p)' <= minute'
         /\ \A b \in Buckets : ttl'[b] # 0 => ttl'[b] > b
<1>0. /\ TypeOK /\ minute \in Nat /\ TTL \in Nat /\ TTL > 0
      /\ \A p \in Proc : pc[p] # "idle" => Bucket(p) <= minute
      /\ \A b \in Buckets : ttl[b] # 0 => ttl[b] > b
  BY ClockFacts DEF RedisInv
<1>n. \A b \in Buckets : b \in Nat
  BY <1>0, ClockFacts
<1>1. ASSUME NEW p \in Proc, End(p), minute' = minute
      PROVE  \A q \in Proc : pc'[q] # "idle" => Bucket(q)' <= minute'
  BY <1>0, <1>1 DEF End, Bucket, TypeOK
<1>2. ASSUME NEW p \in Proc, pc[p] # "idle", NEW s, pc' = [pc EXCEPT ![p] = s],
             call' = call, minute' = minute
      PROVE  \A q \in Proc : pc'[q] # "idle" => Bucket(q)' <= minute'
  BY <1>0, <1>2 DEF Bucket, TypeOK
<1>3. ASSUME NEW p \in Proc, pc[p] # "idle", SetTTL(p)
      PROVE  \A b \in Buckets : ttl'[b] # 0 => ttl'[b] > b
  <2>1. \A b \in Buckets : ttl'[b] = ttl[b] \/ (b = Bucket(p) /\ ttl'[b] = minute + TTL)
    BY <1>0, <1>3 DEF SetTTL, TypeOK
  <2>2. Bucket(p) <= minute /\ Bucket(p) \in Nat
    BY <1>0, <1>3, <1>n, CallFacts
  <2> QED
    BY <1>0, <1>n, <2>1, <2>2
<1>4. CASE Tick
  <2>1. \A p \in Proc : Bucket(p) \in Nat
    BY <1>0, <1>n, CallFacts
  <2> QED
    BY <1>0, <1>4, <2>1 DEF Tick, Bucket
<1>5. ASSUME NEW b \in Buckets, Expire(b)
      PROVE  /\ \A p \in Proc : pc'[p] # "idle" => Bucket(p)' <= minute'
             /\ \A c \in Buckets : ttl'[c] # 0 => ttl'[c] > c
  BY <1>0, <1>5 DEF Expire, Bucket, TypeOK
<1>6. ASSUME NEW p \in Proc, Begin(p)
      PROVE  /\ \A q \in Proc : pc'[q] # "idle" => Bucket(q)' <= minute'
             /\ \A c \in Buckets : ttl'[c] # 0 => ttl'[c] > c
  <2>1. PICK r \in Rates : call' = [call EXCEPT ![p] = [rate |-> r, bucket |-> minute]]
    BY Zenon, <1>6 DEF Begin
  <2>2. \A q \in Proc : call'[q].bucket = minute \/ (call'[q] = call[q] /\ pc'[q] = pc[q])
    BY <1>6, <2>1 DEF Begin, TypeOK
  <2> QED
    BY <1>0, <1>6, <2>2 DEF Begin, Bucket
<1>7. ASSUME NEW p \in Proc, HGet(p)
      PROVE  /\ \A q \in Proc : pc'[q] # "idle" => Bucket(q)' <= minute'
             /\ \A c \in Buckets : ttl'[c] # 0 => ttl'[c] > c
  <2>1. /\ minute' = minute /\ ttl' = ttl
        /\ End(p) \/ (pc[p] # "idle" /\ pc' = [pc EXCEPT ![p] = Route(p)] /\ call' = call)
    BY <1>7 DEF HGet, Refuse
  <2>2. PICK s : s = Route(p)
    OBVIOUS
  <2> QED
    BY <1>0, <1>1, <1>2, <2>1, <2>2
<1>8. ASSUME NEW p \in Proc, HIncrNew(p)
      PROVE  /\ \A q \in Proc : pc'[q] # "idle" => Bucket(q)' <= minute'
             /\ \A c \in Buckets : ttl'[c] # 0 => ttl'[c] > c
  BY Zenon, <1>0, <1>2, <1>8 DEF HIncrNew
<1>9. ASSUME NEW p \in Proc, SetExpire(p)
      PROVE  /\ \A q \in Proc : pc'[q] # "idle" => Bucket(q)' <= minute'
             /\ \A c \in Buckets : ttl'[c] # 0 => ttl'[c] > c
  BY <1>1, <1>3, <1>9 DEF SetExpire, Grant
<1>10. ASSUME NEW p \in Proc, HIncr(p) \/ CommandFail(p)
       PROVE  /\ \A q \in Proc : pc'[q] # "idle" => Bucket(q)' <= minute'
              /\ \A c \in Buckets : ttl'[c] # 0 => ttl'[c] > c
  BY <1>0, <1>1, <1>10 DEF HIncr, CommandFail, Grant, Refuse
<1>11. ASSUME NEW p \in Proc, CommandLost(p)
       PROVE  /\ \A q \in Proc : pc'[q] # "idle" => Bucket(q)' <= minute'
              /\ \A c \in Buckets : ttl'[c] # 0 => ttl'[c] > c
  <2>1. \A c \in Buckets : ttl'[c] # 0 => ttl'[c] > c
    BY <1>0, <1>3, <1>11, LostCases
  <2>2. \A q \in Proc : pc'[q] # "idle" => Bucket(q)' <= minute'
    BY <1>0, <1>1, <1>11, LostCases DEF Bucket
  <2> QED
    BY <2>1, <2>2
<1>12. CASE UNCHANGED vars
  BY <1>0, <1>12 DEF vars, Bucket
<1> QED
  BY <1>4, <1>5, <1>6, <1>7, <1>8, <1>9, <1>10, <1>11, <1>12 DEF RedisNext

\* Every step keeps the bounds of every bucket.
LEMMA BucketStep ==
  ASSUME RedisInv, [RedisNext]_vars, TypeOK', NEW b \in Buckets
  PROVE  BucketOK(b)'
<1>0. /\ TypeOK /\ minute \in Nat /\ count[b] \in Nat /\ count'[b] \in Nat
      /\ granted[b] \in Nat /\ b \in Nat
  BY ClockFacts DEF RedisInv, TypeOK
<1>1. ASSUME NEW p \in Proc, End(p)
      PROVE  /\ Expiring(b)' \subseteq Expiring(b) \ {p}
             /\ InFlight(b)' \subseteq InFlight(b) \ {p}
             /\ Under(b)' \subseteq Under(b) \ {p}
  BY <1>0, <1>1, EndSets
<1>2. ASSUME pc' = pc, call' = call
      PROVE  /\ Expiring(b)' = Expiring(b) /\ InFlight(b)' = InFlight(b)
             /\ Under(b)' = Under(b)
  BY <1>2 DEF Expiring, InFlight, Under, Bucket
<1>3. CASE Tick
  BY <1>0, <1>2, <1>3, BucketKept DEF Tick
<1>4. ASSUME NEW c \in Buckets, Expire(c)
      PROVE  BucketOK(b)'
  <2>1. CASE b # c
    <3>1. count'[b] = count[b] /\ granted'[b] = granted[b]
      BY <1>0, <1>4, <2>1 DEF Expire, TypeOK
    <3> QED
      BY <1>0, <1>2, <1>4, <3>1, BucketKept DEF Expire
  <2>2. CASE b = c
    <3>1. granted'[b] = 0 /\ minute' = minute /\ minute > b
      BY <1>0, <1>4, <2>2 DEF Expire, TypeOK, RedisInv
    <3>2. /\ Under(b)' = Under(b) /\ InFlight(b)' = InFlight(b)
          /\ Cardinality(Under(b)) <= Cardinality(Proc)
          /\ Cardinality(InFlight(b)) <= Cardinality(Proc)
          /\ Cardinality(Under(b)) \in Nat /\ Cardinality(InFlight(b)) \in Nat
          /\ Cardinality(Proc) \in Nat
      BY <1>0, <1>2, <1>4, BucketNumbers DEF Expire
    <3> QED
      BY <3>1, <3>2, MaxRate DEF BucketOK, Closed, WithinBound
  <2> QED
    BY <2>1, <2>2
<1>5. ASSUME NEW p \in Proc, Begin(p)
      PROVE  BucketOK(b)'
  <2>1. PICK r \in Rates : call' = [call EXCEPT ![p] = [rate |-> r, bucket |-> minute]]
    BY Zenon, <1>5 DEF Begin
  <2>2. /\ pc[p] = "idle" /\ pc'[p] = "ask" /\ call'[p].bucket = minute
        /\ \A q \in Proc : q # p => pc'[q] = pc[q] /\ call'[q] = call[q]
    BY <1>0, <1>5, <2>1 DEF Begin, TypeOK
  <2>3. /\ Expiring(b)' \subseteq Expiring(b) /\ InFlight(b)' \subseteq InFlight(b)
        /\ minute > b => Under(b)' \subseteq Under(b)
    BY <1>0, <2>2 DEF Expiring, InFlight, Under, Bucket
  <2> QED
    BY <1>0, <1>5, <2>3, BucketKept DEF Begin
<1>6. ASSUME NEW p \in Proc, HGet(p)
      PROVE  BucketOK(b)'
  <2>1. pc[p] = "ask" /\ minute' = minute /\ count' = count /\ granted' = granted
    BY <1>6 DEF HGet, Refuse
  <2>2. CASE Route(p) = "full"
    BY <1>0, <1>1, <1>6, <2>1, <2>2, BucketKept DEF HGet, Refuse
  <2>3. CASE Route(p) # "full"
    <3>1. PICK s \in {"new", "incr"} : s = Route(p)
      BY <2>3 DEF Route
    <3>2. pc' = [pc EXCEPT ![p] = s] /\ call' = call
      BY <1>6, <2>3, <3>1 DEF HGet
    <3>3. /\ Under(b)' \subseteq Under(b) /\ Expiring(b)' \subseteq Expiring(b)
          /\ b # Bucket(p) => InFlight(b)' \subseteq InFlight(b)
      BY Zenon, <1>0, <2>1, <3>2, MoveSets
    <3>4. CASE b # Bucket(p)
      BY <1>0, <2>1, <3>3, <3>4, BucketKept
    <3>5. CASE b = Bucket(p)
      <4>1. call[p].rate \in Nat /\ call[p].rate <= Max(Rates)
        BY <1>0, <2>1, MaxRate, CallFacts
      <4>2. count[b] = 0 \/ count[b] < call[p].rate
        BY <1>0, <2>3, <3>5, <4>1 DEF Route
      <4>3. count[b] < Max(Rates)
        BY <1>0, <4>1, <4>2, MaxRate
      <4> QED
        BY <2>1, <3>3, <4>3, BucketJoined
    <3> QED
      BY <3>4, <3>5
  <2> QED
    BY <2>2, <2>3
<1>7. ASSUME NEW p \in Proc, HIncrNew(p)
      PROVE  BucketOK(b)'
  <2>1. /\ pc[p] = "new" /\ pc' = [pc EXCEPT ![p] = "expire"] /\ call' = call
        /\ minute' = minute /\ granted' = granted /\ Increment(p)
    BY <1>7 DEF HIncrNew
  <2>2. /\ Under(b)' \subseteq Under(b) /\ InFlight(b)' \subseteq InFlight(b)
        /\ Expiring(b)' \subseteq Expiring(b) \cup {p}
        /\ b # Bucket(p) => Expiring(b)' \subseteq Expiring(b)
    BY Zenon, <1>0, <2>1, MoveSets
  <2>3. CASE b = Bucket(p)
    BY <1>0, <2>1, <2>2, <2>3, CounterTypes, BucketCounts
  <2>4. CASE b # Bucket(p)
    BY <1>0, <2>1, <2>2, <2>4, CounterTypes, BucketKept
  <2> QED
    BY <2>3, <2>4
<1>8. ASSUME NEW p \in Proc, SetExpire(p) \/ HIncr(p)
      PROVE  BucketOK(b)'
  <2>1. minute' = minute /\ Grant(p) /\ End(p)
    BY <1>8 DEF SetExpire, HIncr, Grant
  <2>2. \/ pc[p] = "expire" /\ count' = count
        \/ pc[p] = "incr" /\ Increment(p)
    BY <1>8 DEF SetExpire, HIncr
  <2>3. CASE b = Bucket(p)
    <3>1. p \in InFlight(b) /\ granted'[b] = granted[b] + 1
      BY <1>0, <2>1, <2>2, <2>3, CounterTypes DEF InFlight
    <3>2. \/ p \in Expiring(b) /\ count'[b] = count[b]
          \/ count'[b] = count[b] + 1
      BY <1>0, <2>2, <2>3, CounterTypes DEF Expiring
    <3>3. /\ Expiring(b)' \subseteq Expiring(b) \ {p}
          /\ InFlight(b)' \subseteq InFlight(b) \ {p}
          /\ Under(b)' \subseteq Under(b) \ {p}
      BY <1>1, <2>1
    <3> QED
      BY <2>1, <3>1, <3>2, <3>3, BucketGrants
  <2>4. CASE b # Bucket(p)
    BY <1>0, <1>1, <2>1, <2>2, <2>4, CounterTypes, BucketKept
  <2> QED
    BY <2>3, <2>4
<1>9. ASSUME NEW p \in Proc, CommandFail(p)
      PROVE  BucketOK(b)'
  BY <1>0, <1>1, <1>9, BucketKept DEF CommandFail, Refuse
<1>10. ASSUME NEW p \in Proc, CommandLost(p)
       PROVE  BucketOK(b)'
  <2>1. count'[b] >= count[b]
    BY <1>0, <1>10, LostCases, CounterTypes
  <2>2. /\ Expiring(b)' \subseteq Expiring(b) /\ InFlight(b)' \subseteq InFlight(b)
        /\ Under(b)' \subseteq Under(b)
    BY <1>1, <1>2, <1>10, LostCases
  <2> QED
    BY <1>0, <1>10, <2>1, <2>2, LostCases, BucketKept
<1>11. CASE UNCHANGED vars
  BY <1>0, <1>2, <1>11, BucketKept DEF vars
<1> QED
  BY <1>3, <1>4, <1>5, <1>6, <1>7, <1>8, <1>9, <1>10, <1>11 DEF RedisNext

\* The inductive invariant of the Redis limiter: every bucket starts empty and
\* without callers, and every command, failure, lost reply and expiry keeps it.
THEOREM RedisInvariance == RedisSpec => []RedisInv
<1>1. Init => RedisInv
  <2> SUFFICES ASSUME Init PROVE RedisInv
    OBVIOUS
  <2>1. TypeOK
    BY InitTypes
  <2>2. ASSUME NEW b \in Buckets
        PROVE  BucketOK(b)
    <3>1. /\ Expiring(b) = {} /\ InFlight(b) = {} /\ granted[b] = 0 /\ count[b] = 0
      BY DEF Init, Expiring, InFlight
    <3>2. Cardinality({}) = 0 /\ Cardinality(Proc) \in Nat
      BY FS_EmptySet, FS_CardinalityType, RateLimiterAssumption
    <3> QED
      BY <3>1, <3>2, MaxRate DEF BucketOK, Covered, WithinBound
  <2> QED
    BY <2>1, <2>2 DEF Init, RedisInv
<1>2. RedisInv /\ [RedisNext]_vars => RedisInv'
  <2> SUFFICES ASSUME RedisInv, [RedisNext]_vars PROVE RedisInv'
    OBVIOUS
  <2>1. TypeOK'
    BY RedisTypeStep DEF RedisInv
  <2> QED
    BY <2>1, ClockStep, BucketStep DEF RedisInv
<1> QED
  BY <1>1, <1>2, PTL DEF RedisSpec

\* However many callers race over however many rates, and whatever fails, is
\* retried or expires, a bucket grants no more than the largest rate plus one
\* for each caller but one.
THEOREM OvershootBounded == RedisSpec => []OvershootBound
<1>1. RedisInv => OvershootBound
  BY DEF RedisInv, BucketOK, WithinBound, OvershootBound
<1> QED
  BY <1>1, RedisInvariance, PTL
-----------------------------------------------------------------------------
\* Once an item of bucket b has let calls through and expired, the minute is
\* over: what it granted, and the callers it still has, stay within K.
Late(b, K) ==
  \/ past[b] = 0
  \/ minute > b /\ past[b] + granted[b] + Cardinality(Under(b)) <= K

\* A step that forgets no grants, and turns callers into grants at most, keeps
\* the bound.
LEMMA LateKept ==
  ASSUME TypeOK, TypeOK', NEW b \in Buckets, NEW K \in Nat, Late(b, K),
         minute' >= minute, past'[b] = past[b],
         minute > b => granted'[b] + Cardinality(Under(b)')
                         <= granted[b] + Cardinality(Under(b))
  PROVE  Late(b, K)'
<1>1. /\ Under(b) \in SUBSET Proc /\ Under(b)' \in SUBSET Proc
  BY DEF Under
<1>2. /\ Cardinality(Under(b)) \in Nat /\ Cardinality(Under(b)') \in Nat
  BY <1>1, CallerSets
<1>3. /\ granted[b] \in Nat /\ granted'[b] \in Nat /\ past[b] \in Nat
      /\ minute \in Nat /\ minute' \in Nat /\ b \in Nat
  BY RateLimiterAssumption DEF TypeOK, Buckets
<1> QED
  BY <1>2, <1>3 DEF Late

\* The steps of a caller under way: it ends, with a grant or without, or goes
\* on to another command of the same bucket, or sends the same one again.
LEMMA LateCall ==
  ASSUME TypeOK, TypeOK', NEW b \in Buckets, NEW K \in Nat, Late(b, K),
         NEW p \in Proc, pc[p] # "idle", minute' = minute, past' = past,
         \/ Grant(p)
         \/ granted' = granted /\ End(p)
         \/ granted' = granted /\ call' = call /\ pc' = pc
         \/ /\ granted' = granted /\ call' = call
            /\ \E s \in {"new", "expire", "incr"} : pc' = [pc EXCEPT ![p] = s]
  PROVE  Late(b, K)'
<1>1. /\ Under(b) \in SUBSET Proc /\ Under(b)' \in SUBSET Proc
  BY DEF Under
<1>2. /\ Cardinality(Under(b)) \in Nat /\ Cardinality(Under(b)') \in Nat
      /\ Under(b)' \subseteq Under(b) => Cardinality(Under(b)') <= Cardinality(Under(b))
      /\ p \in Under(b) /\ Under(b)' \subseteq Under(b) \ {p}
           => Cardinality(Under(b)') + 1 <= Cardinality(Under(b))
  BY <1>1, CallerSets
<1>3. granted[b] \in Nat /\ minute \in Nat
  BY ClockFacts DEF TypeOK
<1>4. CASE Grant(p)
  <2>1. Under(b)' \subseteq Under(b) \ {p}
    BY <1>4, EndSets DEF Grant
  <2>2. CASE b = Bucket(p)
    <3>1. p \in Under(b) /\ granted'[b] = granted[b] + 1
      BY <1>4, <2>2, CounterTypes DEF Under
    <3> QED
      BY <1>2, <1>3, <2>1, <3>1, LateKept
  <2>3. CASE b # Bucket(p)
    <3>1. granted'[b] = granted[b]
      BY <1>4, <2>3, CounterTypes
    <3>2. Under(b)' \subseteq Under(b)
      BY <2>1
    <3> QED
      BY <1>2, <1>3, <3>1, <3>2, LateKept
  <2> QED
    BY <2>2, <2>3
<1>5. CASE granted' = granted /\ Under(b)' \subseteq Under(b)
  BY <1>2, <1>3, <1>5, LateKept
<1>6. CASE granted' = granted /\ End(p)
  <2>1. Under(b)' \subseteq Under(b) \ {p}
    BY <1>6, EndSets
  <2> QED
    BY <1>5, <1>6, <2>1
<1>7. CASE granted' = granted /\ call' = call /\ pc' = pc
  BY <1>5, <1>7 DEF Under, Bucket
<1>8. ASSUME granted' = granted, call' = call,
             NEW s \in {"new", "expire", "incr"}, pc' = [pc EXCEPT ![p] = s]
      PROVE  Late(b, K)'
  BY Zenon, <1>5, <1>8, MoveSets
<1> QED
  BY <1>4, <1>6, <1>7, <1>8

\* The steps both backends share.  An expiring item adds what it granted to the
\* past; from then on only the callers under way can still pass.
LEMMA LateShared ==
  ASSUME TypeOK, TypeOK', NEW b \in Buckets, NEW K \in Nat, Late(b, K),
         ttl[b] # 0 => ttl[b] > b, granted[b] + Cardinality(Proc) <= K,
         \/ Tick \/ UNCHANGED vars
         \/ \E c \in Buckets : Expire(c)
         \/ \E p \in Proc : Begin(p)
  PROVE  Late(b, K)'
<1>0. /\ minute \in Nat /\ minute' \in Nat /\ b \in Nat /\ ttl[b] \in Nat
      /\ granted[b] \in Nat /\ past[b] \in Nat
  BY ClockFacts, RateLimiterAssumption DEF TypeOK, Buckets
<1>1. /\ Cardinality(Under(b)) \in Nat /\ Cardinality(Proc) \in Nat
      /\ Cardinality(Under(b)) <= Cardinality(Proc)
  BY BucketNumbers
<1>2. ASSUME pc' = pc, call' = call
      PROVE  Under(b)' = Under(b)
  BY <1>2 DEF Under, Bucket
<1>3. CASE Tick
  BY <1>0, <1>1, <1>2, <1>3, LateKept DEF Tick
<1>4. CASE UNCHANGED vars
  BY <1>0, <1>1, <1>2, <1>4, LateKept DEF vars
<1>5. ASSUME NEW c \in Buckets, Expire(c)
      PROVE  Late(b, K)'
  <2>1. Under(b)' = Under(b) /\ minute' = minute
    BY <1>2, <1>5 DEF Expire
  <2>2. CASE b # c
    <3>1. past'[b] = past[b] /\ granted'[b] = granted[b]
      BY <1>5, <2>2 DEF Expire, TypeOK
    <3> QED
      BY <1>0, <1>1, <2>1, <3>1, LateKept
  <2>3. CASE b = c
    <3>1. past'[b] = past[b] + granted[b] /\ granted'[b] = 0 /\ minute > b
      BY <1>0, <1>5, <2>3 DEF Expire, TypeOK
    <3> QED
      BY <1>0, <1>1, <2>1, <3>1 DEF Late
  <2> QED
    BY <2>2, <2>3
<1>6. ASSUME NEW p \in Proc, Begin(p)
      PROVE  Late(b, K)'
  <2>1. PICK r \in Rates : call' = [call EXCEPT ![p] = [rate |-> r, bucket |-> minute]]
    BY Zenon, <1>6 DEF Begin
  <2>2. /\ pc[p] = "idle" /\ call'[p].bucket = minute
        /\ \A q \in Proc : q # p => pc'[q] = pc[q] /\ call'[q] = call[q]
    BY SMTT(30), <1>6, <2>1 DEF Begin, TypeOK
  <2>3. minute > b => Under(b)' = Under(b)
    BY <1>0, <2>2 DEF Under, Bucket
  <2> QED
    BY <1>0, <1>1, <1>6, <2>3, LateKept DEF Begin
<1> QED
  BY <1>3, <1>4, <1>5, <1>6

\* What every bucket of the DynamoDB limiter keeps true of expired items.
LateInv ==
  \A b \in Buckets :
    (ttl[b] # 0 => ttl[b] > b) /\ Late(b, Max(Rates) + Cardinality(Proc))

\* An item is created with a time to live beyond its minute.
LEMMA TtlStep ==
  ASSUME TypeOK, [Next]_vars, NEW b \in Buckets, ttl[b] # 0 => ttl[b] > b
  PROVE  ttl'[b] # 0 => ttl'[b] > b
<1>1. ASSUME NEW p \in Proc, Apply(p)
      PROVE  ttl'[b] # 0 => ttl'[b] > b
  <2>1. ttl'[b] = ttl[b] \/ (b = Bucket(p) /\ ttl'[b] = b + TTL)
    BY <1>1 DEF Apply, TypeOK
  <2> QED
    BY <2>1, ClockFacts
<1>2. ASSUME NEW c \in Buckets, Expire(c)
      PROVE  ttl'[b] # 0 => ttl'[b] > b
  BY <1>2 DEF Expire, TypeOK
<1>3. ASSUME ttl' = ttl
      PROVE  ttl'[b] # 0 => ttl'[b] > b
  BY <1>3
<1>4. CASE Tick \/ UNCHANGED vars
  BY <1>3, <1>4 DEF Tick, vars
<1>5. ASSUME NEW p \in Proc, Begin(p) \/ Limited(p) \/ Fail(p)
      PROVE  ttl' = ttl
  BY <1>5 DEF Begin, Limited, Fail
<1>6. ASSUME NEW p \in Proc, Update(p) \/ LostReply(p)
      PROVE  Apply(p)
  BY <1>6 DEF Update, LostReply
<1> QED
  BY <1>1, <1>2, <1>3, <1>4, <1>5, <1>6 DEF Next

\* On DynamoDB the counts bound what an item grants before it expires.
LEMMA LateStep ==
  ASSUME Inv, LateInv, [Next]_vars
  PROVE  LateInv'
<1> DEFINE K == Max(Rates) + Cardinality(Proc)
<1> SUFFICES ASSUME NEW b \in Buckets
             PROVE  (ttl'[b] # 0 => ttl'[b] > b) /\ Late(b, K)'
  BY DEF LateInv
<1>1. TypeOK /\ TypeOK' /\ Late(b, K) /\ (ttl[b] # 0 => ttl[b] > b)
  BY TypeStep DEF Inv, LateInv
<1>2. ttl'[b] # 0 => ttl'[b] > b
  BY <1>1, TtlStep
<1>3. K \in Nat
  BY <1>1, MaxRate, BucketNumbers
<1>4. granted[b] + Cardinality(Proc) <= K
  BY <1>1, MaxRate, BucketNumbers DEF Inv, CountCoversGrants
<1> HIDE DEF K
<1>5. CASE Tick \/ UNCHANGED vars \/ (\E c \in Buckets : Expire(c)) \/ \E p \in Proc : Begin(p)
  BY <1>1, <1>2, <1>3, <1>4, <1>5, LateShared
<1>6. ASSUME NEW p \in Proc, Update(p) \/ Limited(p) \/ Fail(p) \/ LostReply(p)
      PROVE  Late(b, K)'
  <2>1. /\ pc[p] # "idle" /\ minute' = minute /\ past' = past
        /\ \/ Grant(p)
           \/ granted' = granted /\ End(p)
           \/ granted' = granted /\ call' = call /\ pc' = pc
    BY <1>6 DEF Update, Limited, Fail, LostReply, Refuse
  <2> QED
    BY <1>1, <1>3, <2>1, LateCall
<1> QED
  BY <1>2, <1>5, <1>6 DEF Next

\* Whatever is delayed, lost or repeated, the successes of a bucket over all its
\* items stay within the largest rate plus one for each caller.
THEOREM LateGrantsBounded == Spec => []LateGrants
<1>1. Init => LateInv
  BY DEF Init, LateInv, Late
<1>2. Inv /\ LateInv /\ [Next]_vars => LateInv'
  BY LateStep
<1>3. Inv /\ LateInv => LateGrants
  <2> SUFFICES ASSUME Inv, LateInv, NEW b \in Buckets
               PROVE  past[b] + granted[b] <= Max(Rates) + Cardinality(Proc)
    BY DEF LateGrants
  <2>1. TypeOK /\ past[b] \in Nat
    BY DEF Inv, TypeOK
  <2> QED
    BY <2>1, MaxRate, BucketNumbers DEF Inv, CountCoversGrants, LateInv, Late
<1> QED
  BY <1>1, <1>2, <1>3, Invariance, PTL DEF Spec

\* The bound for the buckets of the Redis limiter.
RedisLateInv == \A b \in Buckets : Late(b, Max(Rates) + 2 * Cardinality(Proc) - 1)

\* On Redis the overshoot of racing callers is what an item may have granted.
LEMMA RedisLateStep ==
  ASSUME RedisInv, RedisLateInv, [RedisNext]_vars
  PROVE  RedisLateInv'
<1> DEFINE K == Max(Rates) + 2 * Cardinality(Proc) - 1
<1> SUFFICES ASSUME NEW b \in Buckets
             PROVE  Late(b, K)'
  BY DEF RedisLateInv
<1>1. TypeOK /\ TypeOK' /\ Late(b, K) /\ (ttl[b] # 0 => ttl[b] > b) /\ WithinBound(b)
  BY RedisTypeStep DEF RedisInv, RedisLateInv, BucketOK
<1>3. K \in Nat
  BY <1>1, MaxRate, BucketNumbers
<1>4. granted[b] + Cardinality(Proc) <= K
  BY <1>1, MaxRate, BucketNumbers DEF WithinBound
<1> HIDE DEF K
<1>5. CASE Tick \/ UNCHANGED vars \/ (\E c \in Buckets : Expire(c)) \/ \E p \in Proc : Begin(p)
  BY <1>1, <1>3, <1>4, <1>5, LateShared
<1>6. ASSUME NEW p \in Proc, HIncrNew(p) \/ SetExpire(p) \/ HIncr(p) \/ CommandFail(p)
      PROVE  Late(b, K)'
  <2>1. /\ pc[p] # "idle" /\ minute' = minute /\ past' = past
        /\ \/ Grant(p)
           \/ granted' = granted /\ End(p)
           \/ granted' = granted /\ call' = call /\ pc' = [pc EXCEPT ![p] = "expire"]
    BY <1>6 DEF HIncrNew, SetExpire, HIncr, CommandFail, Refuse
  <2> QED
    BY <1>1, <1>3, <2>1, LateCall
<1>7. ASSUME NEW p \in Proc, HGet(p)
      PROVE  Late(b, K)'
  <2>1. pc[p] # "idle" /\ minute' = minute /\ past' = past /\ granted' = granted
    BY <1>7 DEF HGet, Refuse
  <2>2. CASE End(p)
    BY <1>1, <1>3, <2>1, <2>2, LateCall
  <2>3. CASE ~End(p)
    <3>1. PICK s \in {"new", "incr"} : s = Route(p)
      BY <1>7, <2>3 DEF HGet, Refuse, Route
    <3>2. pc' = [pc EXCEPT ![p] = s] /\ call' = call
      BY <1>7, <2>3, <3>1 DEF HGet, Refuse
    <3> QED
      BY Zenon, <1>1, <1>3, <2>1, <3>2, LateCall
  <2> QED
    BY <2>2, <2>3
<1>8. ASSUME NEW p \in Proc, CommandLost(p)
      PROVE  Late(b, K)'
  BY <1>1, <1>3, <1>8, LostCases, LateCall
<1> QED
  BY <1>5, <1>6, <1>7, <1>8 DEF RedisNext

\* On Redis, racing and delayed callers together exceed the largest rate, over
\* all items of a bucket, by less than twice their number.
THEOREM LateOvershootBounded == RedisSpec => []LateOvershoot
<1>1. Init => RedisLateInv
  BY DEF Init, RedisLateInv, Late
<1>2. RedisInv /\ RedisLateInv /\ [RedisNext]_vars => RedisLateInv'
  BY RedisLateStep
<1>3. RedisInv /\ RedisLateInv => LateOvershoot
  <2> SUFFICES ASSUME RedisInv, RedisLateInv, NEW b \in Buckets
               PROVE  past[b] + granted[b] <= Max(Rates) + 2 * Cardinality(Proc) - 1
    BY DEF LateOvershoot
  <2>1. TypeOK /\ past[b] \in Nat /\ WithinBound(b)
    BY DEF RedisInv, TypeOK, BucketOK
  <2> QED
    BY <2>1, MaxRate, BucketNumbers DEF RedisLateInv, Late, WithinBound
<1> QED
  BY <1>1, <1>2, <1>3, RedisInvariance, PTL DEF RedisSpec
=============================================================================
