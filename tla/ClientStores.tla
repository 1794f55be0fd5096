---------------------------- MODULE ClientStores ----------------------------
(***************************************************************************)
(* ports.ClientStore on both backends: the profile of each client, and     *)
(* what ClearAll leaves of its data.  On DynamoDB ClearAll deletes the     *)
(* table and creates it again; on Redis it finds and deletes the keys of   *)
(* some of the data, one command after the other, while the service goes   *)
(* on.                                                                     *)
(***************************************************************************)
EXTENDS Integers, FiniteSets

CONSTANTS
  Clients,
  Configs,              \* what operators try to store, valid or not
  Nil,                  \* no profile
  ClientKeyMinLength,
  MinWindowSizeSeconds

\* ClientConfig.Validate; a key is known by its length and its text.
Validate(cc) ==
  /\ cc.ClientID # "" /\ cc.ClientName # ""
  /\ cc.ClientKey.len >= ClientKeyMinLength
  /\ cc.IPRPM >= 0 /\ cc.ClientRPM >= 0
  /\ cc.Flapping # Nil =>
       /\ cc.Flapping.WindowSeconds >= MinWindowSizeSeconds
       /\ cc.Flapping.SuppressBelow \in 0..cc.Flapping.WindowSeconds

Valid == {cc \in Configs : Validate(cc)}

VARIABLES
  backend,              \* of the clients and of the data, from CLIENT_BACKEND and DATA_BACKEND
  profile,              \* per client, the stored configuration
  table,                \* status of the DynamoDB table
  clear                 \* the ClearAll under way

storeVars == <<backend, profile, table, clear>>

\* What the data store holds for a client: its edges, and the rate counters of
\* its CLIENT and TARGET scopes.
DataKinds == {"edge", "counter"}

\* keys: the clients whose profiles are to be deleted; todo: those whose data is
\* still to be deleted; rows: the clients and kinds of data that may be left,
\* all of them when ClearAll begins; excused: the clients put or written since,
\* or whose data was left alone because of an ignored error.
NoClear == [pc |-> "idle", keys |-> {}, todo |-> {}, rows |-> {}, excused |-> {}]

\* CLIENT_BACKEND and DATA_BACKEND may differ.
ClientBackendFromEnv(v) == IF v = "redis" THEN "redis" ELSE "ddb"
DataBackendFromEnv(v) == IF v = "redis" THEN "redis" ELSE "ddb"

StoreInit ==
  /\ \E client, data \in {"redis", "ddb", ""} :
       backend = [client |-> ClientBackendFromEnv(client), data |-> DataBackendFromEnv(data)]
  /\ profile \in [Clients -> Valid \cup {Nil}]
  /\ table = "active" /\ clear = NoClear

Available(b) == b = "redis" \/ table = "active"
Excuse(c) == IF clear = NoClear THEN NoClear ELSE [clear EXCEPT !.excused = @ \cup {c}]

\* GetClientConfig returns the profile, or else an error.
ddbGet(c) == backend.client = "ddb" /\ table = "active" /\ profile[c] # Nil
redisGet(c) == backend.client = "redis" /\ profile[c] # Nil

\* Mutant: a configuration is stored without being validated.
AcceptedAny(cc) == TRUE

Accepted(cc) == Validate(cc)

\* An error, of validation or of the store, leaves the profile as it is.
Put(c) ==
  /\ \E cc \in Configs : Accepted(cc) /\ profile' = [profile EXCEPT ![c] = cc]
  /\ clear' = Excuse(c)
  /\ UNCHANGED <<backend, table>>

Delete(c) == profile' = [profile EXCEPT ![c] = Nil] /\ UNCHANGED <<backend, table, clear>>

ddbPutClientConfig(c) == backend.client = "ddb" /\ table = "active" /\ Put(c)
redisPutClientConfig(c) == backend.client = "redis" /\ Put(c)
ddbDeleteClientConfig(c) == backend.client = "ddb" /\ table = "active" /\ Delete(c)
redisDeleteClientConfig(c) == backend.client = "redis" /\ Delete(c)

\* What the flow writes for a client: edges and counters.
WriteData(c) ==
  /\ Available(backend.data)
  /\ clear' = Excuse(c)
  /\ UNCHANGED <<backend, profile, table>>

(***************************************************************************)
(* ClearAll on DynamoDB: DeleteTable, wait until the table has gone,       *)
(* CreateTable.  When waiting or creating fails there is no table.         *)
(***************************************************************************)
\* A table that exists, in whatever status, is left alone.
createTableIfNotExists == table' = IF table = "absent" THEN "creating" ELSE table

DeleteTable ==
  /\ backend.client = "ddb" /\ table = "active" /\ clear.pc = "idle"
  /\ profile' = [c \in Clients |-> Nil] /\ table' = "deleting"
  /\ clear' = [NoClear EXCEPT !.pc = "waiting", !.keys = Clients,
                              !.rows = IF backend.data = "ddb" THEN {} ELSE Clients \X DataKinds]
  /\ UNCHANGED backend

WaitAndRecreate ==
  /\ clear.pc = "waiting"
  /\ \/ table = "absent" /\ createTableIfNotExists /\ clear' = [clear EXCEPT !.pc = "returned"]
     \/ clear' = NoClear /\ UNCHANGED table
  /\ UNCHANGED <<backend, profile>>

\* DynamoDB completes what it has begun with the table.
TableStatus ==
  /\ \/ table = "deleting" /\ table' = "absent"
     \/ table = "creating" /\ table' = "active"
  /\ UNCHANGED <<backend, profile, clear>>

(***************************************************************************)
(* ClearAll on Redis: KEYS for the profiles, and nothing else when there   *)
(* is none; KEYS and DEL for the edges of each, errors ignored; one DEL    *)
(* for the profiles.  What is written between a KEYS and its DEL is        *)
(* written after ClearAll began: the two are one step.                     *)
(***************************************************************************)
KeysOfProfiles ==
  /\ backend.client = "redis" /\ clear.pc = "idle"
  /\ LET keys == {c \in Clients : profile[c] # Nil}
     IN  clear' = [NoClear EXCEPT !.pc = IF keys = {} THEN "returned" ELSE "data",
                                  !.keys = keys, !.todo = keys, !.rows = Clients \X DataKinds]
  /\ UNCHANGED <<backend, profile, table>>

\* Mutant: the profiles are deleted, not the data.
DataOfNone(c) == {}

\* _enoti_data_<id>_s*, not the counters, _enoti_rwin_*.
DataOf(c) == IF backend.data = "redis" THEN {<<c, "edge">>} ELSE {}

KeysAndDel(c) ==
  /\ clear.pc = "data" /\ c \in clear.todo
  /\ \/ clear' = [clear EXCEPT !.todo = @ \ {c}, !.rows = @ \ DataOf(c)]
     \/ clear' = [clear EXCEPT !.todo = @ \ {c}, !.excused = @ \cup {c}]
  /\ UNCHANGED <<backend, profile, table>>

DelProfiles ==
  /\ clear.pc = "data" /\ clear.todo = {}
  /\ \/ /\ profile' = [c \in Clients |-> IF c \in clear.keys THEN Nil ELSE profile[c]]
        /\ clear' = [clear EXCEPT !.pc = "returned"]
     \/ UNCHANGED profile /\ clear' = NoClear
  /\ UNCHANGED <<backend, table>>

\* The caller of ClearAll goes on after its success.
Cleared == clear.pc = "returned" /\ clear' = NoClear /\ UNCHANGED <<backend, profile, table>>

ClearAll ==
  \/ DeleteTable \/ WaitAndRecreate \/ KeysOfProfiles \/ DelProfiles \/ Cleared
  \/ \E c \in Clients : KeysAndDel(c)

Operate ==
  \/ ClearAll \/ TableStatus
  \/ \E c \in Clients :
       \/ ddbPutClientConfig(c) \/ redisPutClientConfig(c)
       \/ ddbDeleteClientConfig(c) \/ redisDeleteClientConfig(c)
-----------------------------------------------------------------------------
\* "ClearAll purges all client configurations and data" (ports/clientstore.go),
\* as far as the code keeps it while the service runs.  When ClearAll has
\* returned nil, a client that nobody put or wrote since and for which no error
\* was ignored has no profile.  With clients and data in DynamoDB it has no data
\* either; with both in Redis it has no edges if it had a profile.  The rest of
\* the sentence does not hold: Redis keeps the rate counters, and the edges of
\* clients without a profile, all of them when there is no profile.
ClearAllPurges ==
  clear.pc = "returned" =>
    \A c \in Clients \ clear.excused :
      /\ profile[c] = Nil
      /\ backend = [client |-> "ddb", data |-> "ddb"]
           => \A kind \in DataKinds : <<c, kind>> \notin clear.rows
      /\ backend = [client |-> "redis", data |-> "redis"] /\ c \in clear.keys
           => <<c, "edge">> \notin clear.rows
=============================================================================
