--------------------------- MODULE EdgeEvalRedis ---------------------------
(***************************************************************************)
(* EdgeEval over the Redis data store (internal/backends/redis): UpsertCAS *)
(* is an unconditional HMSET for a row Load did not find, and otherwise an *)
(* HMGET of the version followed by an HMSET.  HMSET is atomic; the pair   *)
(* is not.  go-redis retries a command whose reply was lost.               *)
(***************************************************************************)
EXTENDS EdgeEval

\* The HMGET of ver: a missing or another version answers (false, nil).
CheckVersion(p) ==
  /\ pc[p] = "cas" /\ loaded[p].ver # 0
  /\ IF row.ver = loaded[p].ver
     THEN pc' = [pc EXCEPT ![p] = "write"] /\ UNCHANGED res
     ELSE Raced(p)
  /\ UNCHANGED <<clock, arrived, row, history, req, loaded, announced>>

Writing(p) == pc[p] = "write" \/ (pc[p] = "cas" /\ loaded[p].ver = 0)

HMSet(p) ==
  /\ Writing(p)
  /\ Write(p)
  /\ Won(p)
  /\ UNCHANGED <<clock, arrived, req, loaded, announced>>

\* HMGET or HMSET fails.
CommandFail(p) ==
  /\ pc[p] \in {"cas", "write"}
  /\ Failed(p)
  /\ UNCHANGED <<clock, arrived, row, history, req, loaded, announced>>

\* Bound: one retry of a command (MaxRetries is 3 in go-redis).
MayRetry(p) == \A i \in 1..Len(history) : history[i].payload # req[p].payload

CommandLost(p) ==
  /\ Writing(p)
  /\ Write(p)
  /\ Failed(p) \/ (MayRetry(p) /\ UNCHANGED <<pc, res>>)
  /\ UNCHANGED <<clock, arrived, req, loaded, announced>>

RedisNext ==
  \/ Tick
  \/ \E p \in Proc :
       \/ Begin(p) \/ Step(p) \/ Crash(p)
       \/ CheckVersion(p) \/ HMSet(p) \/ CommandFail(p) \/ CommandLost(p)

RedisSpec == Init /\ [][RedisNext]_vars

\* No two requests are under way.
OneAtATime == \A p, q \in Proc : pc[p] # "idle" /\ pc[q] # "idle" => p = q
-----------------------------------------------------------------------------
\* However the writes race, the row is what its last writer computed, never a
\* mixture of two writers: its flips form one chain that ends, unless an
\* aggregate has just emptied it, in LastValue at LastChangeTS.
RowIsWhole ==
  row.edge # Nil =>
    LET rs == row.edge.Recent
    IN  /\ row.edge.LastValue = history[Len(history)].val
        /\ row.edge.FlipCount = history[Len(history)].flips
        /\ \A i \in 1..(Len(rs) - 1) : rs[i].To = rs[i + 1].From
        /\ row.ver > 1 /\ history[Len(history)].act # "AggregateSent" =>
             /\ Len(rs) > 0
             /\ rs[Len(rs)].To = row.edge.LastValue
             /\ rs[Len(rs)].At = row.edge.LastChangeTS

\* "Implementations MUST support compare-and-set (CAS) semantics to avoid
\* races" (ports/datastore.go): an update replaces the version it was made from.
UpdateReplacesItsVersion ==
  [][row' # row /\ row'.ver > 1 => row.ver = row'.ver - 1]_vars
=============================================================================
