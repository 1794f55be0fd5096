---------------------------- MODULE ConfigCache ----------------------------
(***************************************************************************)
(* LoadCachedClientConfig and Auth (internal/flow) for concurrent requests *)
(* of one process: the TTL cache in front of a store that operators change *)
(* meanwhile.  Looking up, reading the store and filling the cache are     *)
(* separate steps.  Times run with the clock instead of being points of    *)
(* it, so that nothing bounds it: an entry has time left, and its lag      *)
(* tells for how long it has been cached without being what is stored.     *)
(***************************************************************************)
EXTENDS ClientStores

CONSTANTS
  Requests,    \* handler goroutines
  TTL,         \* 300 seconds in the code
  MaxLag       \* bound on lag

ASSUME CacheAssumption == TTL \in Nat /\ MaxLag \in Nat

VARIABLES cache, req
cacheVars == <<cache, req>>

Entry(cc) == [cc |-> cc, left |-> TTL, lag |-> 0]
NoEntry == [cc |-> Nil, left |-> 0, lag |-> 0]

Idle == [phase |-> "idle", client |-> Nil, cc |-> Nil]
InFlight == {r \in Requests : req[r] # Idle}

CacheInit ==
  /\ cache = [c \in Clients |-> NoEntry]
  /\ req = [r \in Requests |-> Idle]

Step(r, phase, c, cc) == req' = [req EXCEPT ![r] = [phase |-> phase, client |-> c, cc |-> cc]]
End(r) == req' = [req EXCEPT ![r] = Idle]

Keys == {cc.ClientKey : cc \in Configs}

\* Auth of a request for c that has loaded cc.
Auth(r, c, cc) ==
  \E key \in Keys : IF key = cc.ClientKey THEN Step(r, "serve", c, Nil) ELSE End(r)

\* Mutant: a hit prolongs the entry.
HitProlongs(c) == [cache EXCEPT ![c].left = TTL]

\* TTL.Get changes nothing, not even an entry that has expired.
Hit(c) == cache

\* A request arrives and looks into the cache.
LookUp(r) ==
  /\ req[r] = Idle
  /\ \E c \in Clients :
       IF cache[c] # NoEntry
       THEN cache' = Hit(c) /\ Auth(r, c, cache[c].cc)
       ELSE UNCHANGED cache /\ Step(r, "read", c, Nil)
  /\ UNCHANGED storeVars

\* GetClientConfig; "unknown client" when it is missing or cannot be read.
Read(r) ==
  /\ req[r].phase = "read"
  /\ LET c == req[r].client
     IN  \/ (ddbGet(c) \/ redisGet(c)) /\ Step(r, "fill", c, profile[c])
         \/ End(r)
  /\ UNCHANGED <<cache, storeVars>>

\* TTL.Set, whatever another request has cached meanwhile.
Fill(r) ==
  /\ req[r].phase = "fill"
  /\ LET c == req[r].client
     IN  cache' = [cache EXCEPT ![c] = Entry(req[r].cc)] /\ Auth(r, c, req[r].cc)
  /\ UNCHANGED storeVars

\* The rest of the handler: it writes for the client, or does not get so far.
Serve(r) ==
  /\ req[r].phase = "serve"
  /\ WriteData(req[r].client) \/ UNCHANGED storeVars
  /\ End(r)
  /\ UNCHANGED cache

\* Mutant: entries do not expire.
AgedNever(c) == cache[c]

\* A second later.  After its time an entry is not found any more, as if there
\* were none.
Aged(c) ==
  LET e == cache[c]
  IN  IF e.left = 0 THEN NoEntry
      ELSE [e EXCEPT !.left = @ - 1,
                     !.lag = IF e.cc = profile[c] THEN 0 ELSE IF @ < MaxLag THEN @ + 1 ELSE @]

Elapse ==
  /\ cache' = [c \in Clients |-> Aged(c)]
  /\ UNCHANGED <<req, storeVars>>
-----------------------------------------------------------------------------
\* A configuration that the store does not hold any more is used from the cache
\* no longer than the TTL after it was cached: using an entry does not renew it.
HitIsRecent == \A c \in Clients : cache[c].lag <= TTL

\* A stored change takes effect: if the profile of a client does not change any
\* more, from some time on the cache holds that configuration or none, even when
\* a slow request has cached an older one over it.
ChangeTakesEffect ==
  \A c \in Clients, cc \in Valid \cup {Nil} :
    <>[](profile[c] = cc) => <>[](cache[c] = NoEntry \/ cache[c].cc = cc)
=============================================================================
