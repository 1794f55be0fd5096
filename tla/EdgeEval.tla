------------------------------ MODULE EdgeEval ------------------------------
(***************************************************************************)
(* Requests for one (clientID, scopeKey) running EvaluateEdgeAndFlap       *)
(* concurrently against one stored row: read the clock, Load, decide,      *)
(* UpsertCAS, answer.  What UpsertCAS does is the backend's: EdgeEvalDDB   *)
(* and EdgeEvalRedis add it.                                               *)
(***************************************************************************)
EXTENDS EdgeFlap

CONSTANTS
  Proc,        \* handler goroutines or Lambda instances
  MaxTime      \* bound on the clock

ASSUME EdgeEvalAssumption == MaxTime \in Nat

VARIABLES
  clock,       \* wall clock, in seconds
  arrived,     \* notifications whose evaluation has begun
  row,         \* the stored row: [edge, ver], version 0 when there is none
  history,     \* every write to the row, in order
  pc, req, loaded, res,   \* per request: where it is, its observation,
                          \* what Load returned, what it answers
  announced    \* the answers that make the caller notify the target

vars == <<clock, arrived, row, history, pc, req, loaded, res, announced>>

NoRow == [edge |-> Nil, ver |-> 0]
NoRequest == [payload |-> Nil, val |-> Nil, now |-> 0, f |-> Nil]

\* An answer: the action, whether err is non-nil, the version the request
\* wrote (0 if it knows of none) and the aggregate.
Answer(act, err, ver, agg) == [act |-> act, err |-> err, ver |-> ver, agg |-> agg]
NoAnswer == Answer("NoOp", FALSE, 0, Nil)

Init ==
  /\ clock = 0 /\ arrived = {}
  /\ row = NoRow /\ history = <<>>
  /\ pc = [p \in Proc |-> "idle"]
  /\ req = [p \in Proc |-> NoRequest]
  /\ loaded = [p \in Proc |-> NoRow]
  /\ res = [p \in Proc |-> NoAnswer]
  /\ announced = {}

Tick ==
  /\ clock < MaxTime
  /\ clock' = clock + 1
  /\ UNCHANGED <<arrived, row, history, pc, req, loaded, res, announced>>

\* EpochTime() is read before the row is.
BeginWith(p, n, v, f) ==
  /\ pc[p] = "idle"
  /\ arrived' = arrived \cup {n}
  /\ req' = [req EXCEPT ![p] = [payload |-> n, val |-> v, now |-> clock, f |-> f]]
  /\ pc' = [pc EXCEPT ![p] = "load"]
  /\ UNCHANGED <<clock, row, history, loaded, res, announced>>

Begin(p) ==
  \E n \in Payloads \ arrived, v \in Values, f \in FlapConfigs : BeginWith(p, n, v, f)

Finish(p, answer) ==
  /\ res' = [res EXCEPT ![p] = answer]
  /\ pc' = [pc EXCEPT ![p] = "done"]

\* Load is one consistent read (ddb) or one HGETALL (redis).
Load(p) ==
  /\ pc[p] = "load"
  /\ loaded' = [loaded EXCEPT ![p] = row]
  /\ IF Stable(row.edge, req[p])
     THEN Finish(p, NoAnswer)
     ELSE /\ pc' = [pc EXCEPT ![p] = "cas"]
          /\ UNCHANGED res
  /\ UNCHANGED <<clock, arrived, row, history, req, announced>>

LoadFail(p) ==
  /\ pc[p] = "load"
  /\ Finish(p, Answer("NoOp", TRUE, 0, Nil))
  /\ UNCHANGED <<clock, arrived, row, history, req, loaded, announced>>

PlanOf(p) == Evaluate(loaded[p].edge, req[p])

\* Mutants: the version is not bumped; the recent field is not written.
NewRowSameVersion(p) ==
  [edge |-> PlanOf(p).next, ver |-> IF loaded[p].ver = 0 THEN 1 ELSE loaded[p].ver]
NewRowNoRecent(p) ==
  [edge |-> IF loaded[p].edge = Nil THEN PlanOf(p).next
            ELSE [PlanOf(p).next EXCEPT !.Recent = loaded[p].edge.Recent],
   ver |-> loaded[p].ver + 1]

\* What UpsertCAS writes: every field of the edge and the next version.
NewRow(p) == [edge |-> PlanOf(p).next, ver |-> loaded[p].ver + 1]

\* A repeated write of the same row is no new write.
Write(p) ==
  /\ row' = NewRow(p)
  /\ history' = IF row' = row THEN history
                ELSE Append(history, Entry(req[p], PlanOf(p)))

\* Mutant: the first result of UpsertCAS is not looked at.
RacedUnnoticed(p) ==
  Finish(p, Answer(PlanOf(p).act, FALSE, loaded[p].ver + 1, PlanOf(p).agg))

\* UpsertCAS returned (true, nil), (false, nil) or an error.
Won(p) == Finish(p, Answer(PlanOf(p).act, FALSE, loaded[p].ver + 1, PlanOf(p).agg))
Raced(p) == Finish(p, Answer(PlanOf(p).onRace, FALSE, 0, Nil))
Failed(p) ==
  LET act == PlanOf(p).onFail
  IN  Finish(p, IF act = "error" THEN Answer("NoOp", TRUE, 0, Nil)
                                 ELSE Answer(act, FALSE, 0, Nil))

\* Nothing of a request is kept once it is over.
Forget(p) ==
  /\ pc' = [pc EXCEPT ![p] = "idle"]
  /\ req' = [req EXCEPT ![p] = NoRequest]
  /\ loaded' = [loaded EXCEPT ![p] = NoRow]
  /\ res' = [res EXCEPT ![p] = NoAnswer]

\* The caller takes the answer: only a forward or an aggregate reaches the
\* target.
Announcement(p) == [payload |-> req[p].payload, ver |-> res[p].ver, act |-> res[p].act]

Return(p) ==
  /\ pc[p] = "done"
  /\ announced' = IF ~res[p].err /\ res[p].act \in Notifying
                  THEN announced \cup {Announcement(p)} ELSE announced
  /\ Forget(p)
  /\ UNCHANGED <<clock, arrived, row, history>>

\* The process dies, or the platform stops it, before the caller has notified.
Crash(p) ==
  /\ pc[p] # "idle"
  /\ Forget(p)
  /\ UNCHANGED <<clock, arrived, row, history, announced>>

\* The steps of a request that every backend shares; the caller must give it
\* time to take them.
Step(p) == Load(p) \/ LoadFail(p) \/ Return(p)
-----------------------------------------------------------------------------
Request == [payload : Payloads, val : Values, now : 0..MaxTime, f : FlapConfigs]
Stored == [edge : Edge \cup {Nil}, ver : Nat]
Answers == [act : Notifying \cup {"SuppressFlapping", "NoOp"}, err : BOOLEAN,
            ver : Nat, agg : Aggregate \cup {Nil}]

\* The row, every copy of it a request holds and every answer are well typed;
\* a request has an observation from Begin on and nothing before.
EvalTypeOK ==
  /\ clock \in 0..MaxTime /\ arrived \subseteq Payloads
  /\ row \in Stored /\ history \in Seq(LogEntry)
  /\ pc \in [Proc -> {"idle", "load", "cas", "write", "done"}]
  /\ req \in [Proc -> Request \cup {NoRequest}]
  /\ \A p \in Proc : req[p] \in (IF pc[p] = "idle" THEN {NoRequest} ELSE Request)
  /\ loaded \in [Proc -> Stored] /\ res \in [Proc -> Answers]
  /\ announced \subseteq [payload : Payloads, ver : Nat, act : Notifying]

\* What the target is notified of has been committed by that very request:
\* neither a lost race nor an error nor a lost reply lets a request notify, and
\* of requests that raced for a version one announces it at most.
AnnouncedIsCommitted ==
  \A a \in announced :
    /\ a.ver \in 1..Len(history)
    /\ history[a.ver].payload = a.payload
    /\ history[a.ver].act = a.act
=============================================================================
