-------------------------- MODULE RateLimiterRedis --------------------------
(***************************************************************************)
(* Acquire on Redis: HGET the count, then HINCRBY it, then, for a key that *)
(* HGET did not find, EXPIRE it.  Each command is atomic, the sequence is  *)
(* not; go-redis sends a command again when its reply is lost.             *)
(***************************************************************************)
EXTENDS RateLimiter

\* Mutant: a full bucket is not refused.
RouteNeverFull(p) == IF count[Bucket(p)] = 0 THEN "new" ELSE "incr"

\* Where the HGET sends the call.
Route(p) ==
  IF count[Bucket(p)] = 0 THEN "new"
  ELSE IF count[Bucket(p)] >= call[p].rate THEN "full" ELSE "incr"

HGet(p) ==
  /\ pc[p] = "ask"
  /\ IF Route(p) = "full" THEN Refuse(p)
     ELSE pc' = [pc EXCEPT ![p] = Route(p)] /\ UNCHANGED <<granted, call>>
  /\ UNCHANGED <<minute, count, ttl, past>>

HIncrNew(p) ==
  /\ pc[p] = "new"
  /\ Increment(p)
  /\ pc' = [pc EXCEPT ![p] = "expire"]
  /\ UNCHANGED <<minute, ttl, granted, call, past>>

\* Mutant: the duration is rounded down to nothing.
SetNoTTL(p) == ttl' = [ttl EXCEPT ![Bucket(p)] = IF count[Bucket(p)] = 0 THEN @ ELSE minute]

\* EXPIRE of a key that has gone is no error.
SetTTL(p) == ttl' = [ttl EXCEPT ![Bucket(p)] = IF count[Bucket(p)] = 0 THEN @ ELSE minute + TTL]

SetExpire(p) ==
  /\ pc[p] = "expire"
  /\ SetTTL(p)
  /\ Grant(p)
  /\ UNCHANGED <<minute, count, past>>

HIncr(p) ==
  /\ pc[p] = "incr"
  /\ Increment(p)
  /\ Grant(p)
  /\ UNCHANGED <<minute, ttl, past>>

\* A command fails, or the process dies, before the command took effect.
CommandFail(p) ==
  /\ pc[p] # "idle"
  /\ Refuse(p)
  /\ UNCHANGED <<minute, count, ttl, past>>

\* Bound on how far retried HINCRBYs may push a count.
RetryBound == Max(Rates) + Cardinality(Proc)

CommandLost(p) ==
  /\ \/ /\ pc[p] \in {"new", "incr"} /\ Increment(p) /\ UNCHANGED ttl
        /\ Refuse(p) \/ (count[Bucket(p)] < RetryBound /\ UNCHANGED <<granted, pc, call>>)
     \/ pc[p] = "expire" /\ SetTTL(p) /\ Refuse(p) /\ UNCHANGED count
  /\ UNCHANGED <<minute, past>>

RedisNext ==
  \/ Tick
  \/ \E b \in Buckets : Expire(b)
  \/ \E p \in Proc :
       \/ Begin(p) \/ HGet(p) \/ HIncrNew(p) \/ SetExpire(p) \/ HIncr(p)
       \/ CommandFail(p) \/ CommandLost(p)

RedisSpec == Init /\ [][RedisNext]_vars
-----------------------------------------------------------------------------
\* The calls that may still pass although the bucket has filled up since they
\* looked.
InFlight(b) == {p \in Proc : pc[p] \in {"new", "expire", "incr"} /\ Bucket(p) = b}

\* Racing calls overshoot the rate by the other callers at most: a bucket
\* grants no more than the largest rate plus one for each caller but one.
OvershootBound ==
  \A b \in Buckets :
    granted[b] + Cardinality(InFlight(b)) <= Max(Rates) + Cardinality(Proc) - 1

\* The same over all items of a bucket: calls that were delayed until the key
\* expired find no count, and each of them passes once more at most.
LateOvershoot ==
  \A b \in Buckets : past[b] + granted[b] <= Max(Rates) + 2 * Cardinality(Proc) - 1
=============================================================================
