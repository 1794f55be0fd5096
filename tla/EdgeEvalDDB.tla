---------------------------- MODULE EdgeEvalDDB ----------------------------
(***************************************************************************)
(* EdgeEval over the DynamoDB data store (internal/backends/ddb): UpsertCAS *)
(* is one conditional PutItem or UpdateItem.  The reply to a write that    *)
(* was applied may be lost; the AWS client then retries the request, which *)
(* meets its own write, or gives up with an error.                         *)
(***************************************************************************)
EXTENDS EdgeEval

\* Mutant: the condition expression is missing.
VersionMatchesAlways(p) == TRUE

\* attribute_not_exists(#pk) for prevVersion 0, #ver = :prev otherwise.
VersionMatches(p) == row.ver = loaded[p].ver

Commit(p) ==
  /\ pc[p] = "cas" /\ VersionMatches(p)
  /\ Write(p)
  /\ Won(p)
  /\ UNCHANGED <<clock, arrived, req, loaded, announced>>

LoseRace(p) ==
  /\ pc[p] = "cas" /\ ~VersionMatches(p)
  /\ Raced(p)
  /\ UNCHANGED <<clock, arrived, row, history, req, loaded, announced>>

CasFail(p) ==
  /\ pc[p] = "cas"
  /\ Failed(p)
  /\ UNCHANGED <<clock, arrived, row, history, req, loaded, announced>>

LostReply(p) ==
  /\ pc[p] = "cas" /\ VersionMatches(p)
  /\ Write(p)
  /\ Failed(p) \/ UNCHANGED <<pc, res>>
  /\ UNCHANGED <<clock, arrived, req, loaded, announced>>

Cas(p) == Commit(p) \/ LoseRace(p) \/ CasFail(p)

Next ==
  \/ Tick
  \/ \E p \in Proc : Begin(p) \/ Step(p) \/ Cas(p) \/ LostReply(p) \/ Crash(p)

Spec == Init /\ [][Next]_vars
-----------------------------------------------------------------------------
\* A request whose version check is going to pass holds the row as it is: the
\* version counts the writes, so it never comes back to an earlier value.
SnapshotCurrent ==
  /\ row.ver = Len(history)
  /\ \A p \in Proc : pc[p] = "cas" =>
       /\ loaded[p].ver <= row.ver
       /\ loaded[p].ver = row.ver => loaded[p] = row

\* "one retry on CAS race" (flow.go), "Callers SHOULD retry once on CAS
\* collision" (edge_flap.go): a request whose compare-and-set meets another
\* request's version is not answered before it has loaded again.
RaceIsRetried ==
  [][\A p \in Proc :
       /\ pc[p] = "cas" /\ ~VersionMatches(p)
       /\ history[Len(history)].payload # req[p].payload
       /\ pc'[p] = "done"
       => res'[p].err]_vars
=============================================================================
