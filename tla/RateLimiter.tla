---------------------------- MODULE RateLimiter ----------------------------
(***************************************************************************)
(* DataStore.Acquire for one rate-limiting scope: a counter per minute     *)
(* bucket, shared by concurrent callers.  An "IP:" scope is shared by      *)
(* clients whose ip_rpm differ, so every call brings its own rate.         *)
(* RateLimiterDDB and RateLimiterRedis add what each backend does.         *)
(***************************************************************************)
EXTENDS Integers, FiniteSets, FiniteSetsExt

CONSTANTS
  Proc,        \* concurrent callers
  Rates,       \* values of ratePerWindow; the callers pass positive ones only
  MaxMinute,   \* bound on the clock, in minutes
  TTL          \* minutes an item lives

ASSUME RateLimiterAssumption ==
  /\ IsFiniteSet(Proc)
  /\ Rates \subseteq Nat \ {0} /\ Rates # {} /\ IsFiniteSet(Rates)
  /\ MaxMinute \in Nat /\ TTL \in Nat \ {0}

VARIABLES
  minute,      \* time.Now().Unix() / 60
  count,       \* per bucket, the stored count; 0 when there is no item
  ttl,         \* per bucket, the minute the item expires in; 0 when it has none
  granted,     \* per bucket, the calls its present item has let through
  past,        \* per bucket, the calls let through by items that have expired
  pc, call     \* per caller

vars == <<minute, count, ttl, granted, past, pc, call>>

Buckets == 0..MaxMinute
NoCall == [rate |-> 0, bucket |-> 0]

Init ==
  /\ minute = 0
  /\ count = [b \in Buckets |-> 0]
  /\ ttl = [b \in Buckets |-> 0]
  /\ granted = [b \in Buckets |-> 0]
  /\ past = [b \in Buckets |-> 0]
  /\ pc = [p \in Proc |-> "idle"]
  /\ call = [p \in Proc |-> NoCall]

Tick ==
  /\ minute < MaxMinute
  /\ minute' = minute + 1
  /\ UNCHANGED <<count, ttl, granted, past, pc, call>>

\* Mutant: a limit of zero, which means none, is asked for.
BeginAnyRate(p) ==
  /\ pc[p] = "idle"
  /\ \E r \in Rates \cup {0} : call' = [call EXCEPT ![p] = [rate |-> r, bucket |-> minute]]
  /\ pc' = [pc EXCEPT ![p] = "ask"]
  /\ UNCHANGED <<minute, count, ttl, granted, past>>

\* The bucket is fixed by the clock before the store is asked.
Begin(p) ==
  /\ pc[p] = "idle"
  /\ \E r \in Rates : call' = [call EXCEPT ![p] = [rate |-> r, bucket |-> minute]]
  /\ pc' = [pc EXCEPT ![p] = "ask"]
  /\ UNCHANGED <<minute, count, ttl, granted, past>>

Bucket(p) == call[p].bucket

Increment(p) == count' = [count EXCEPT ![Bucket(p)] = @ + 1]

\* Acquire returned (true, nil), or anything else.
End(p) ==
  /\ pc' = [pc EXCEPT ![p] = "idle"]
  /\ call' = [call EXCEPT ![p] = NoCall]
Grant(p) == granted' = [granted EXCEPT ![Bucket(p)] = @ + 1] /\ End(p)
Refuse(p) == UNCHANGED granted /\ End(p)

\* The store drops an item whose time to live is over.
Expire(b) ==
  /\ ttl[b] # 0 /\ minute >= ttl[b]
  /\ count' = [count EXCEPT ![b] = 0]
  /\ ttl' = [ttl EXCEPT ![b] = 0]
  /\ granted' = [granted EXCEPT ![b] = 0]
  /\ past' = [past EXCEPT ![b] = @ + granted[b]]
  /\ UNCHANGED <<minute, pc, call>>
-----------------------------------------------------------------------------
\* Counters are numbers, and a caller under way has a rate and a bucket.
TypeOK ==
  /\ minute \in Buckets
  /\ count \in [Buckets -> Nat] /\ granted \in [Buckets -> Nat]
  /\ ttl \in [Buckets -> Nat] /\ past \in [Buckets -> Nat]
  /\ pc \in [Proc -> {"idle", "ask", "new", "expire", "incr"}]
  /\ call \in [Proc -> [rate : Rates \cup {0}, bucket : Buckets]]
  /\ \A p \in Proc : pc[p] # "idle" => call[p].rate \in Rates

\* "ratePerWindow is the maximum allowed **successful** acquires in the
\* window" (ports/datastore.go), for callers of one scope with several rates:
\* no call succeeds that makes more successes in its bucket than its own rate.
GrantWithinRate ==
  [][\A p \in Proc :
       pc'[p] # pc[p] /\ granted'[Bucket(p)] > granted[Bucket(p)]
         => granted'[Bucket(p)] <= call[p].rate]_vars
=============================================================================
