----------------------- MODULE ServerLifecycleProofs -----------------------
(***************************************************************************)
(* For any clients, configurations, number of requests, time to live and   *)
(* grace period: what is stored and cached is valid, a cached              *)
(* configuration is used for its time to live at most, and ClearAll purges *)
(* what it answers for.                                                    *)
(***************************************************************************)
EXTENDS ServerLifecycle, TLAPS

Profiles == Valid \cup {Nil}

\* An entry has been stale no longer than it has been cached.
CacheInv ==
  /\ cache \in [Clients -> [cc : Profiles, left : 0..TTL, lag : Nat]]
  /\ \A c \in Clients : cache[c].lag + cache[c].left <= TTL

\* A request under way has a client, and what it is going to cache is valid.
ReqInv ==
  /\ req \in [Requests -> [phase : {"idle", "read", "fill", "serve"},
                           client : Clients \cup {Nil}, cc : Profiles]]
  /\ \A r \in Requests :
       req[r] = Idle \/ (req[r].phase # "idle" /\ req[r].client \in Clients)

\* While ClearAll runs, for the clients nobody touches: the profiles went with
\* the table, or those that were found go in the end; on DynamoDB all data went
\* with the table, on Redis the edges of the clients it is done with have gone.
ClearInv ==
  LET untouched == Clients \ clear.excused
  IN  /\ backend \in [client : {"redis", "ddb"}, data : {"redis", "ddb"}]
      /\ clear \in [pc : {"idle", "waiting", "data", "returned"}, keys : SUBSET Clients,
                    todo : SUBSET Clients, rows : SUBSET (Clients \X DataKinds),
                    excused : SUBSET Clients]
      /\ clear.pc \in {"waiting", "returned"} => \A c \in untouched : profile[c] = Nil
      /\ clear.pc = "data" => \A c \in untouched \ clear.keys : profile[c] = Nil
      /\ clear.pc = "data" => backend.client = "redis"
      /\ clear.pc = "waiting" => backend.client = "ddb"
      /\ clear.pc # "idle" /\ backend.client = "ddb" /\ backend.data = "ddb"
           => clear.rows = {}
      /\ clear.pc # "idle" /\ backend.client = "redis" /\ backend.data = "redis"
           => \A c \in (untouched \cap clear.keys) \ clear.todo : <<c, "edge">> \notin clear.rows
      /\ clear.pc \in {"waiting", "returned"} => clear.todo = {}

LifeInv ==
  /\ grace \in 0..Grace /\ doneCh \in {"empty", "nil", "err"}
  /\ caller = "stopping" => stopper # "waiting"

Inv == profile \in [Clients -> Profiles] /\ CacheInv /\ ReqInv /\ ClearInv /\ LifeInv

\* Nothing holds in the initial states but what the code starts with.
LEMMA InvInit == Init => Inv
<1> USE CacheAssumption, GraceAssumption
<1> SUFFICES ASSUME Init PROVE Inv
  OBVIOUS
<1>1. profile \in [Clients -> Profiles]
  BY DEF Init, StoreInit, Profiles
<1>2. CacheInv
  BY DEF Init, CacheInit, CacheInv, NoEntry, Profiles
<1>3. ReqInv
  BY DEF Init, CacheInit, ReqInv, Idle, Profiles
<1>4. ClearInv
  <2>1. backend \in [client : {"redis", "ddb"}, data : {"redis", "ddb"}]
    <3>1. PICK client, data \in {"redis", "ddb", ""} :
            backend = [client |-> ClientBackendFromEnv(client), data |-> DataBackendFromEnv(data)]
      BY Zenon DEF Init, StoreInit
    <3>2. /\ ClientBackendFromEnv(client) \in {"redis", "ddb"}
          /\ DataBackendFromEnv(data) \in {"redis", "ddb"}
      BY DEF ClientBackendFromEnv, DataBackendFromEnv
    <3> HIDE DEF ClientBackendFromEnv, DataBackendFromEnv
    <3> QED BY <3>1, <3>2
  <2>2. clear = NoClear
    BY DEF Init, StoreInit
  <2> QED BY <2>1, <2>2 DEF NoClear, ClearInv
<1>5. LifeInv
  BY DEF Init, ServerInit, LifeInv
<1> QED BY <1>1, <1>2, <1>3, <1>4, <1>5 DEF Inv

\* Operators' puts, deletes and the steps of ClearAll keep profiles valid, and
\* keep what ClearAll has achieved for the clients nobody touches.
LEMMA StoreStep ==
  ASSUME profile \in [Clients -> Profiles], ClearInv, Operate
  PROVE  (profile \in [Clients -> Profiles])' /\ ClearInv'
<1>1. ASSUME NEW c \in Clients, Put(c)
      PROVE  (profile \in [Clients -> Profiles])' /\ ClearInv'
  <2>1. PICK cc \in Configs : Accepted(cc) /\ profile' = [profile EXCEPT ![c] = cc]
    BY Zenon, <1>1 DEF Put
  <2>2. cc \in Profiles
    BY <2>1 DEF Accepted, Valid, Profiles
  <2> QED BY <1>1, <2>1, <2>2 DEF Put, ClearInv, Excuse, NoClear
<1>2. ASSUME NEW c \in Clients, Delete(c)
      PROVE  (profile \in [Clients -> Profiles])' /\ ClearInv'
  BY <1>2 DEF Delete, ClearInv, Profiles
<1>3. CASE DeleteTable
  <2> DEFINE all == Clients \X DataKinds
             left == IF backend.data = "ddb" THEN {} ELSE all
  <2>1. left \in SUBSET all /\ (backend.data = "ddb" => left = {})
    OBVIOUS
  <2>2. /\ backend' = backend /\ backend.client = "ddb"
        /\ profile' = [c \in Clients |-> Nil]
        /\ clear' = [pc |-> "waiting", keys |-> Clients, todo |-> {}, rows |-> left,
                     excused |-> {}]
    BY Zenon, <1>3 DEF DeleteTable, NoClear
  <2> HIDE DEF left, all
  <2>3. /\ clear'.pc = "waiting" /\ clear'.rows = left
        /\ clear' \in [pc : {"idle", "waiting", "data", "returned"}, keys : SUBSET Clients,
                       todo : SUBSET Clients, rows : SUBSET all, excused : SUBSET Clients]
    BY <2>1, <2>2
  <2> QED BY <2>1, <2>2, <2>3 DEF ClearInv, Profiles, all
<1>4. CASE WaitAndRecreate
  BY <1>4 DEF WaitAndRecreate, ClearInv, NoClear
<1>5. CASE TableStatus
  BY <1>5 DEF TableStatus, ClearInv
<1>6. CASE KeysOfProfiles
  <2> DEFINE all == Clients \X DataKinds
             keys == {c \in Clients : profile[c] # Nil}
             pc == IF keys = {} THEN "returned" ELSE "data"
  <2>1. /\ pc \in {"returned", "data"} /\ (pc = "returned" => keys = {})
        /\ keys \in SUBSET Clients /\ \A c \in Clients \ keys : profile[c] = Nil
    OBVIOUS
  <2>2. /\ backend' = backend /\ backend.client = "redis" /\ profile' = profile
        /\ clear' = [pc |-> pc, keys |-> keys, todo |-> keys, rows |-> all, excused |-> {}]
    BY Zenon, <1>6 DEF KeysOfProfiles, NoClear
  <2> HIDE DEF pc, keys, all
  <2>3. /\ clear'.pc = pc /\ clear'.keys = keys /\ clear'.todo = keys /\ clear'.excused = {}
        /\ clear' \in [pc : {"idle", "waiting", "data", "returned"}, keys : SUBSET Clients,
                       todo : SUBSET Clients, rows : SUBSET all, excused : SUBSET Clients]
    BY <2>1, <2>2
  <2> QED BY <2>1, <2>2, <2>3 DEF ClearInv, all
<1>7. ASSUME NEW c \in Clients, KeysAndDel(c)
      PROVE  (profile \in [Clients -> Profiles])' /\ ClearInv'
  <2>1. CASE clear' = [clear EXCEPT !.todo = @ \ {c}, !.rows = @ \ DataOf(c)]
    <3>1. backend.client = "redis" /\ backend' = backend
      BY <1>7 DEF KeysAndDel, ClearInv
    <3>2. backend.data = "redis" => DataOf(c) = {<<c, "edge">>}
      BY DEF DataOf
    <3>3. DataOf(c) \in SUBSET (Clients \X DataKinds)
      BY DEF DataOf, DataKinds
    <3> HIDE DEF DataOf
    <3> QED BY Zenon, <1>7, <2>1, <3>1, <3>2, <3>3 DEF KeysAndDel, ClearInv
  <2>2. CASE clear' = [clear EXCEPT !.todo = @ \ {c}, !.excused = @ \cup {c}]
    BY Zenon, <1>7, <2>2 DEF KeysAndDel, ClearInv
  <2> QED BY <1>7, <2>1, <2>2 DEF KeysAndDel
<1>8. CASE DelProfiles
  BY <1>8 DEF DelProfiles, ClearInv, NoClear, Profiles
<1>9. CASE Cleared
  BY <1>9 DEF Cleared, ClearInv, NoClear
<1> QED
  BY <1>1, <1>2, <1>3, <1>4, <1>5, <1>6, <1>7, <1>8, <1>9
  DEF Operate, ClearAll, ddbPutClientConfig, redisPutClientConfig,
      ddbDeleteClientConfig, redisDeleteClientConfig

\* A write for a client only excuses ClearAll from answering for it.
LEMMA WriteStep ==
  ASSUME profile \in [Clients -> Profiles], ClearInv, NEW c \in Clients,
         WriteData(c) \/ UNCHANGED storeVars
  PROVE  (profile \in [Clients -> Profiles])' /\ ClearInv'
<1>1. CASE WriteData(c)
  BY <1>1 DEF WriteData, ClearInv, Excuse, NoClear
<1>2. CASE UNCHANGED storeVars
  BY <1>2 DEF storeVars, ClearInv
<1> QED BY <1>1, <1>2

\* The steps of a request keep entries and requests well formed; only Fill
\* makes an entry, with its whole time left.
LEMMA RequestStep ==
  ASSUME profile \in [Clients -> Profiles], CacheInv, ReqInv, NEW r \in Requests,
         LookUp(r) \/ Read(r) \/ Fill(r) \/ Serve(r)
  PROVE  CacheInv' /\ ReqInv'
<1> USE CacheAssumption
<1>1. ASSUME NEW c \in Clients, NEW cc \in Profiles, NEW phase \in {"read", "fill", "serve"},
             Step(r, phase, c, cc)
      PROVE  ReqInv'
  BY <1>1 DEF Step, ReqInv
<1>2. ASSUME End(r)
      PROVE  ReqInv'
  BY <1>2 DEF End, Idle, ReqInv, Profiles
<1>3. ASSUME NEW c \in Clients, NEW cc, Auth(r, c, cc)
      PROVE  ReqInv'
  <2>1. Step(r, "serve", c, Nil) \/ End(r)
    BY <1>3 DEF Auth
  <2>2. Nil \in Profiles
    BY DEF Profiles
  <2> QED BY <1>1, <1>2, <2>1, <2>2
<1>4. CASE LookUp(r)
  <2>1. UNCHANGED cache
    BY <1>4 DEF LookUp, Hit
  <2>2. PICK c \in Clients : Auth(r, c, cache[c].cc) \/ Step(r, "read", c, Nil)
    BY <1>4 DEF LookUp
  <2>3. Nil \in Profiles
    BY DEF Profiles
  <2> QED BY <1>1, <1>3, <2>1, <2>2, <2>3 DEF CacheInv
<1>5. CASE Read(r)
  <2>1. req[r].client \in Clients
    BY <1>5 DEF Read, ReqInv, Idle
  <2>2. Step(r, "fill", req[r].client, profile[req[r].client]) \/ End(r)
    BY <1>5 DEF Read
  <2>3. UNCHANGED cache
    BY <1>5 DEF Read
  <2> QED BY <1>1, <1>2, <2>1, <2>2, <2>3 DEF CacheInv
<1>6. CASE Fill(r)
  <2>1. req[r].client \in Clients /\ req[r].cc \in Profiles
    BY <1>6 DEF Fill, ReqInv, Idle
  <2>2. Auth(r, req[r].client, req[r].cc)
    BY <1>6 DEF Fill
  <2>3. cache' = [cache EXCEPT ![req[r].client] = Entry(req[r].cc)]
    BY <1>6 DEF Fill
  <2>4. CacheInv'
    BY <2>1, <2>3 DEF CacheInv, Entry
  <2> QED BY <1>3, <2>1, <2>2, <2>4
<1>7. CASE Serve(r)
  BY <1>2, <1>7 DEF Serve, CacheInv
<1> QED BY <1>4, <1>5, <1>6, <1>7

\* A second takes from an entry's time what it adds, at most, to its lag.
LEMMA ElapseStep ==
  ASSUME CacheInv, Elapse
  PROVE  CacheInv'
<1> USE CacheAssumption
<1>1. ASSUME NEW c \in Clients
      PROVE  /\ Aged(c) \in [cc : Profiles, left : 0..TTL, lag : Nat]
             /\ Aged(c).lag + Aged(c).left <= TTL
  <2>1. cache[c] \in [cc : Profiles, left : 0..TTL, lag : Nat]
        /\ cache[c].lag + cache[c].left <= TTL
    BY DEF CacheInv
  <2>2. CASE cache[c].left = 0
    BY <2>2 DEF Aged, NoEntry, Profiles
  <2>3. CASE cache[c].left # 0
    <3> DEFINE lag == IF cache[c].cc = profile[c] THEN 0
                      ELSE IF cache[c].lag < MaxLag THEN cache[c].lag + 1 ELSE cache[c].lag
    <3>1. Aged(c) = [cache[c] EXCEPT !.left = @ - 1, !.lag = lag]
      BY <2>3 DEF Aged
    <3>2. lag \in Nat /\ lag <= cache[c].lag + 1
      BY <2>1
    <3>3. cache[c].left - 1 \in 0..TTL
      BY <2>1, <2>3
    <3> HIDE DEF lag
    <3>4. /\ Aged(c) \in [cc : Profiles, left : 0..TTL, lag : Nat]
          /\ Aged(c).lag = lag /\ Aged(c).left = cache[c].left - 1
      BY Zenon, <2>1, <3>1, <3>2, <3>3
    <3> QED BY <2>1, <3>2, <3>4
  <2> QED BY <2>2, <2>3
<1>2. cache' = [c \in Clients |-> Aged(c)]
  BY DEF Elapse
<1> HIDE DEF Aged
<1> QED BY <1>1, <1>2 DEF CacheInv

\* One step per action of Next.
LEMMA InvNext == Inv /\ [Next]_vars => Inv'
<1> USE CacheAssumption, GraceAssumption
<1> SUFFICES ASSUME Inv, [Next]_vars PROVE Inv'
  OBVIOUS
<1>0. profile \in [Clients -> Profiles] /\ CacheInv /\ ReqInv /\ ClearInv /\ LifeInv
  BY DEF Inv
<1>1. ASSUME NEW r \in Requests, Accept(r)
      PROVE  Inv'
  BY <1>0, <1>1, RequestStep
  DEF Accept, LookUp, storeVars, serverVars, Inv, ClearInv, LifeInv
<1>2. ASSUME NEW r \in Requests, Handle(r)
      PROVE  Inv'
  <2>1. CacheInv' /\ ReqInv'
    BY <1>0, <1>2, RequestStep DEF Handle
  <2>2. LifeInv'
    BY <1>0, <1>2 DEF Handle, serverVars, LifeInv
  <2>3. CASE Serve(r)
    <3>1. req[r].client \in Clients
      BY <1>0, <2>3 DEF Serve, ReqInv, Idle
    <3> QED BY <1>0, <2>1, <2>2, <2>3, <3>1, WriteStep DEF Serve, Inv
  <2>4. CASE Read(r) \/ Fill(r)
    BY <1>0, <2>1, <2>2, <2>4 DEF Read, Fill, storeVars, Inv, ClearInv
  <2> QED BY <1>2, <2>3, <2>4 DEF Handle
<1>3. CASE ServeReturns
  BY <1>0, <1>3 DEF ServeReturns, Signal, storeVars, cacheVars,
                    Inv, CacheInv, ReqInv, ClearInv, LifeInv
<1>4. CASE Stop
  BY <1>0, <1>4 DEF Stop, storeVars, cacheVars, Inv, CacheInv, ReqInv, ClearInv, LifeInv
<1>5. CASE ShutdownReturns
  BY <1>0, <1>5 DEF ShutdownReturns, storeVars, cacheVars,
                    Inv, CacheInv, ReqInv, ClearInv, LifeInv
<1>6. CASE ReceiveDone
  BY <1>0, <1>6 DEF ReceiveDone, storeVars, cacheVars,
                    Inv, CacheInv, ReqInv, ClearInv, LifeInv
<1>7. CASE Restart
  <2>1. CacheInv'
    BY <1>7 DEF Restart, CacheInv, NoEntry, Profiles
  <2>2. ReqInv'
    BY <1>7 DEF Restart, ReqInv, Idle, Profiles
  <2> QED BY <1>0, <1>7, <2>1, <2>2 DEF Restart, Inv, ClearInv, LifeInv
<1>8. CASE Tick
  <2>1. CacheInv'
    BY <1>0, <1>8, ElapseStep DEF Tick
  <2> QED BY <1>0, <1>8, <2>1 DEF Tick, Elapse, storeVars, Inv, ReqInv, ClearInv, LifeInv
<1>9. CASE Operate /\ UNCHANGED <<cacheVars, serverVars>>
  BY <1>0, <1>9, StoreStep DEF cacheVars, serverVars, Inv, CacheInv, ReqInv, LifeInv
<1>10. CASE UNCHANGED vars
  BY <1>0, <1>10 DEF vars, storeVars, cacheVars, serverVars,
                     Inv, CacheInv, ReqInv, ClearInv, LifeInv
<1> QED
  BY <1>1, <1>2, <1>3, <1>4, <1>5, <1>6, <1>7, <1>8, <1>9, <1>10 DEF Next

\* The inductive invariant holds in every behaviour of the service.
LEMMA Invariance == Spec => []Inv
BY InvInit, InvNext, PTL DEF Spec

\* Only validated configurations are stored, cached and used
\* (PutClientConfig, LoadCachedClientConfig), and the lifecycle's state is
\* well formed.
THEOREM TypeCorrect == Spec => []TypeOK
<1>1. Inv => TypeOK
  <2> SUFFICES ASSUME Inv PROVE TypeOK
    OBVIOUS
  <2>1. \A c \in Clients : cache[c].cc \in Valid \cup {Nil} /\ cache[c].left \in 0..TTL
    BY DEF Inv, CacheInv, Profiles
  <2>2. ASSUME NEW r \in InFlight
        PROVE  req[r].client \in Clients /\ req[r].cc \in Valid \cup {Nil}
    BY DEF Inv, ReqInv, InFlight, Profiles
  <2> QED BY <2>1, <2>2 DEF TypeOK, Inv, LifeInv, Profiles
<1> QED BY <1>1, Invariance, PTL

\* A configuration the store does not hold any more is used from the cache for
\* the time to live at most (TTL.Get, TTL.Set).
THEOREM HitsAreRecent == Spec => []HitIsRecent
<1>1. Inv => HitIsRecent
  BY CacheAssumption DEF Inv, CacheInv, HitIsRecent
<1> QED BY <1>1, Invariance, PTL

\* While the service and other operators go on, ClearAll leaves no profile of a
\* client that nobody touches, none of its data on DynamoDB and none of the edges
\* of those it found on Redis.  It promises nothing of Redis's rate counters, nor
\* of the edges of clients without a profile: the code leaves both.
THEOREM ClearAllPurgesUntouched == Spec => []ClearAllPurges
<1>1. Inv => ClearAllPurges
  <2> SUFFICES ASSUME ClearInv, clear.pc = "returned", NEW c \in Clients \ clear.excused
               PROVE  /\ profile[c] = Nil
                      /\ backend = [client |-> "ddb", data |-> "ddb"]
                           => \A kind \in DataKinds : <<c, kind>> \notin clear.rows
                      /\ backend = [client |-> "redis", data |-> "redis"] /\ c \in clear.keys
                           => <<c, "edge">> \notin clear.rows
    BY DEF Inv, ClearAllPurges
  <2>1. profile[c] = Nil
    BY DEF ClearInv
  <2>2. ASSUME backend = [client |-> "ddb", data |-> "ddb"]
        PROVE  clear.rows = {}
    BY <2>2 DEF ClearInv
  <2>3. ASSUME backend = [client |-> "redis", data |-> "redis"], c \in clear.keys
        PROVE  <<c, "edge">> \notin clear.rows
    BY <2>3 DEF ClearInv
  <2> QED BY <2>1, <2>2, <2>3
<1> QED BY <1>1, Invariance, PTL
=============================================================================
