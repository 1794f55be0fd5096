--------------------------- MODULE RateLimiterDDB ---------------------------
(***************************************************************************)
(* Acquire on DynamoDB: one conditional UpdateItem that counts and sets    *)
(* the ttl.  The reply of an applied update may be lost; the AWS client    *)
(* then sends it again or gives up with an error.                          *)
(***************************************************************************)
EXTENDS RateLimiter

\* Mutant: the comparison lets one more through.
BelowCapInclusive(p) == count[Bucket(p)] <= call[p].rate

\* attribute_not_exists(#count) OR #count < :cap
BelowCap(p) == count[Bucket(p)] < call[p].rate

\* Mutant: the count only changes when the item exists.
ApplyToExisting(p) ==
  /\ count' = [count EXCEPT ![Bucket(p)] = IF @ = 0 THEN 0 ELSE @ + 1]
  /\ ttl' = [ttl EXCEPT ![Bucket(p)] = IF @ = 0 THEN Bucket(p) + TTL ELSE @]

\* Mutant: the item's time to live is forgotten, it expires at once.
ApplyNoTTL(p) ==
  /\ Increment(p)
  /\ ttl' = [ttl EXCEPT ![Bucket(p)] = IF @ = 0 THEN Bucket(p) ELSE @]

\* SET ttl = if_not_exists(ttl, now + window + 2 min) ADD count 1
Apply(p) ==
  /\ Increment(p)
  /\ ttl' = [ttl EXCEPT ![Bucket(p)] = IF @ = 0 THEN Bucket(p) + TTL ELSE @]

Update(p) ==
  /\ pc[p] = "ask" /\ BelowCap(p)
  /\ Apply(p)
  /\ Grant(p)
  /\ UNCHANGED <<minute, past>>

Limited(p) ==
  /\ pc[p] = "ask" /\ ~BelowCap(p)
  /\ Refuse(p)
  /\ UNCHANGED <<minute, count, ttl, past>>

Fail(p) ==
  /\ pc[p] = "ask"
  /\ Refuse(p)
  /\ UNCHANGED <<minute, count, ttl, past>>

LostReply(p) ==
  /\ pc[p] = "ask" /\ BelowCap(p)
  /\ Apply(p)
  /\ Refuse(p) \/ UNCHANGED <<granted, pc, call>>
  /\ UNCHANGED <<minute, past>>

Next ==
  \/ Tick
  \/ \E b \in Buckets : Expire(b)
  \/ \E p \in Proc : Begin(p) \/ Update(p) \/ Limited(p) \/ Fail(p) \/ LostReply(p)

Spec == Init /\ [][Next]_vars
-----------------------------------------------------------------------------
\* Every success is counted and the count stops at a caller's rate: what
\* failures and lost replies use up is capacity, never permission.
CountCoversGrants ==
  \A b \in Buckets :
    /\ granted[b] <= count[b]
    /\ count[b] > 0 => \E r \in Rates : count[b] <= r

\* A call fixes its bucket before it asks and may be delayed until the item has
\* expired; it then begins a new count for a minute that was used up.  Over all
\* items of a bucket no more calls succeed than the largest rate plus one for
\* each caller: items outlive their minute, so nobody joins a second time.
LateGrants ==
  \A b \in Buckets : past[b] + granted[b] <= Max(Rates) + Cardinality(Proc)
=============================================================================
