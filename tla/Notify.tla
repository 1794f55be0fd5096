------------------------------- MODULE Notify -------------------------------
(***************************************************************************)
(* A notification from the HTTP request to the reply: handleNotify         *)
(* (internal/api) around flow.Run (internal/flow), for one client whose    *)
(* requests come from one address.  The edge evaluation is EdgeEvalDDB,    *)
(* step by step; Acquire is one step, as RateLimiterDDB justifies.         *)
(***************************************************************************)
EXTENDS EdgeEvalDDB, Functions

CONSTANTS
  Configs,         \* client configurations, see ClientConfig
  MinuteSeconds    \* length of a rate-limiting bucket

VARIABLES
  stage, job,      \* per handler: where it is in the pipeline, what it handles
  seen,            \* notifications that have been received
  used,            \* per scope, the count of the current minute's bucket
  published,       \* what was published to the SNS topic, copies not counted
  replies          \* what the clients were answered

flowVars == <<stage, job, seen, used, published, replies>>
allVars == <<vars, flowVars>>

\* watch: Trigger.FieldExpr is not empty; pass: a passthrough is configured.
ClientConfig == [IPRPM : Nat, ClientRPM : Nat, SNSRPM : Nat,
                 watch : BOOLEAN, pass : BOOLEAN, Flapping : FlapConfigs]

ASSUME NotifyAssumption ==
  /\ Configs \subseteq ClientConfig /\ Configs # {}
  /\ MinuteSeconds \in Nat \ {0}

Scopes == {"IP", "CLIENT", "TARGET"}
Minute == clock \div MinuteSeconds
NoJob == [payload |-> Nil, cc |-> Nil, act |-> "NoOp", ver |-> 0, minute |-> 0]

NotifyInit ==
  /\ Init
  /\ stage = [p \in Proc |-> "idle"]
  /\ job = [p \in Proc |-> NoJob]
  /\ seen = {} /\ published = {} /\ replies = {}
  /\ used = [s \in Scopes |-> 0]

\* A minute's counters are never looked at again in the next.
NotifyTick ==
  /\ Tick
  /\ used' = IF (clock + 1) % MinuteSeconds = 0 THEN [s \in Scopes |-> 0] ELSE used
  /\ UNCHANGED <<stage, job, seen, published, replies>>

GoTo(p, s) == stage' = [stage EXCEPT ![p] = s]

\* http.Error (err) or writeJSON; the handler is done.
Answering(p, code, err, status) ==
  /\ replies' = replies \cup {[payload |-> job[p].payload, code |-> code,
                               err |-> err, status |-> status]}
  /\ GoTo(p, "idle")
  /\ job' = [job EXCEPT ![p] = NoJob]

\* LoadCachedClientConfig, Auth and the reading of the body succeed ...
Arrive(p) ==
  /\ stage[p] = "idle"
  /\ \E n \in Payloads \ seen, cc \in Configs :
       /\ seen' = seen \cup {n}
       /\ job' = [job EXCEPT ![p] = [NoJob EXCEPT !.payload = n, !.cc = cc]]
  /\ GoTo(p, "ip")
  /\ UNCHANGED <<vars, used, published, replies>>

\* ... or one of them refuses the request.
Reject ==
  \E n \in Payloads \ seen, code \in {400, 401, 405} :
    /\ seen' = seen \cup {n}
    /\ replies' = replies \cup {[payload |-> n, code |-> code, err |-> TRUE,
                                 status |-> "rejected"]}
    /\ UNCHANGED <<vars, stage, job, used, published>>

\* Mutant: a call that fails gives back what it may not have taken.
AcquireGivesBack(scope, rate, onOk, onLimited, onError) ==
  \/ used[scope] < rate /\ used' = [used EXCEPT ![scope] = @ + 1] /\ onOk
  \/ used[scope] >= rate /\ UNCHANGED used /\ onLimited
  \/ used' = [used EXCEPT ![scope] = @ - 1] /\ onError

\* DataStore.Acquire; a failed call may have been counted.
Acquire(scope, rate, onOk, onLimited, onError) ==
  LET counted == [used EXCEPT ![scope] = @ + 1]
  IN  \/ used[scope] < rate /\ used' = counted /\ onOk
      \/ used[scope] >= rate /\ UNCHANGED used /\ onLimited
      \/ used' = used /\ onError
      \/ used[scope] < rate /\ used' = counted /\ onError

\* Mutant: a limited request is answered but goes on.
LimitCallerGoesOn(p, here, scope, rate, next) ==
  /\ stage[p] = here
  /\ IF rate > 0
     THEN Acquire(scope, rate,
                  GoTo(p, next) /\ UNCHANGED <<job, replies>>,
                  /\ GoTo(p, next) /\ UNCHANGED job
                  /\ replies' = replies \cup {[payload |-> job[p].payload, code |-> 202,
                                               err |-> TRUE, status |-> "rate limit"]},
                  Answering(p, 202, TRUE, "rate limit check failed"))
     ELSE GoTo(p, next) /\ UNCHANGED <<job, replies, used>>
  /\ UNCHANGED <<vars, seen, published>>

\* The IP and the client limit: both answer with an error and status 202.
LimitCaller(p, here, scope, rate, next) ==
  /\ stage[p] = here
  /\ IF rate > 0
     THEN Acquire(scope, rate,
                  GoTo(p, next) /\ UNCHANGED <<job, replies>>,
                  Answering(p, 202, TRUE, "rate limit"),
                  Answering(p, 202, TRUE, "rate limit check failed"))
     ELSE GoTo(p, next) /\ UNCHANGED <<job, replies, used>>
  /\ UNCHANGED <<vars, seen, published>>

LimitIP(p) == LimitCaller(p, "ip", "IP", job[p].cc.IPRPM, "client")
LimitClient(p) == LimitCaller(p, "client", "CLIENT", job[p].cc.ClientRPM, "route")

\* CheckPassthrough matched, or there is no field to watch.
ForwardAsIs(p) ==
  /\ stage[p] = "route" /\ (job[p].cc.pass \/ ~job[p].cc.watch)
  /\ job' = [job EXCEPT ![p].act = "ForwardedAsIs"]
  /\ GoTo(p, "publish")
  /\ UNCHANGED <<vars, seen, used, published, replies>>

\* EvalString fails, finds no value, or finds one to evaluate.
NoTriggerValue(p) ==
  /\ stage[p] = "route" /\ job[p].cc.watch
  /\ Answering(p, 400, TRUE, "trigger field eval error") \/ Answering(p, 202, FALSE, "NoOp")
  /\ UNCHANGED <<vars, seen, used, published>>

Evaluating(p) ==
  /\ stage[p] = "route" /\ job[p].cc.watch
  /\ \E v \in Values : BeginWith(p, job[p].payload, v, job[p].cc.Flapping)
  /\ GoTo(p, "edge")
  /\ UNCHANGED <<job, seen, used, published, replies>>

EdgeStep(p) ==
  /\ stage[p] = "edge"
  /\ Load(p) \/ LoadFail(p) \/ Cas(p) \/ LostReply(p)
  /\ UNCHANGED flowVars

\* Mutant: a suppressed notification is not answered.
EvaluatedSilently(p) ==
  /\ stage[p] = "edge"
  /\ Return(p)
  /\ IF res[p].err THEN Answering(p, 500, TRUE, "edge evaluation error")
     ELSE /\ UNCHANGED replies
          /\ IF res[p].act \in Notifying
             THEN /\ GoTo(p, "target")
                  /\ job' = [job EXCEPT ![p].act = res[p].act, ![p].ver = res[p].ver]
             ELSE GoTo(p, "idle") /\ job' = [job EXCEPT ![p] = NoJob]
  /\ UNCHANGED <<seen, used, published>>

\* EvaluateEdgeAndFlap has returned to Run.
Evaluated(p) ==
  /\ stage[p] = "edge"
  /\ Return(p)
  /\ IF res[p].err THEN Answering(p, 500, TRUE, "edge evaluation error")
     ELSE IF res[p].act \in Notifying
          THEN /\ GoTo(p, "target")
               /\ job' = [job EXCEPT ![p].act = res[p].act, ![p].ver = res[p].ver]
               /\ UNCHANGED replies
          ELSE Answering(p, 202, FALSE, res[p].act)
  /\ UNCHANGED <<seen, used, published>>

\* Mutant: aggregates are not counted against the target's limit.
TargetRateOfForwards(p) == IF job[p].act = "AggregateSent" THEN 0 ELSE job[p].cc.SNSRPM

TargetRate(p) == job[p].cc.SNSRPM

LimitTarget(p) ==
  /\ stage[p] = "target"
  /\ LET pass == /\ GoTo(p, "publish")
                  /\ job' = [job EXCEPT ![p].minute = Minute]
                  /\ UNCHANGED replies
     IN  IF TargetRate(p) > 0
         THEN Acquire("TARGET", TargetRate(p), pass,
                      Answering(p, 429, FALSE, "NoOp"),
                      Answering(p, 500, TRUE, "rate limit check failed"))
         ELSE pass /\ UNCHANGED used
  /\ UNCHANGED <<vars, seen, published>>

Message(p) == [payload |-> job[p].payload, ver |-> job[p].ver, act |-> job[p].act,
               minute |-> job[p].minute, rate |-> job[p].cc.SNSRPM]

\* PublishRaw succeeds; or its reply is lost, and the AWS client publishes once
\* more or reports an error; or it fails.
Publish(p) ==
  /\ stage[p] = "publish"
  /\ published' = published \cup {Message(p)}
  /\ \/ GoTo(p, "reply") /\ UNCHANGED <<job, replies>>
     \/ UNCHANGED <<stage, job, replies>>
     \/ Answering(p, 500, TRUE, "failed to publish")
  /\ UNCHANGED <<vars, seen, used>>

\* Mutant: a publish error is not looked at.
PublishFailIgnored(p) ==
  /\ stage[p] = "publish"
  /\ GoTo(p, "reply")
  /\ UNCHANGED <<vars, seen, used, published, job, replies>>

PublishFail(p) ==
  /\ stage[p] = "publish"
  /\ Answering(p, 500, TRUE, "failed to publish")
  /\ UNCHANGED <<vars, seen, used, published>>

Reply(p) ==
  /\ stage[p] = "reply"
  /\ Answering(p, 202, FALSE, job[p].act)
  /\ UNCHANGED <<vars, seen, used, published>>

NotifyCrash(p) ==
  /\ stage[p] # "idle"
  /\ GoTo(p, "idle")
  /\ job' = [job EXCEPT ![p] = NoJob]
  /\ IF pc[p] # "idle" THEN Crash(p) ELSE UNCHANGED vars
  /\ UNCHANGED <<seen, used, published, replies>>

Handle(p) ==
  \/ LimitIP(p) \/ LimitClient(p)
  \/ ForwardAsIs(p) \/ NoTriggerValue(p) \/ Evaluating(p)
  \/ EdgeStep(p) \/ Evaluated(p)
  \/ LimitTarget(p) \/ Publish(p) \/ PublishFail(p) \/ Reply(p)

NotifyNext ==
  \/ NotifyTick \/ Reject
  \/ \E p \in Proc : Arrive(p) \/ Handle(p) \/ NotifyCrash(p)

NotifySpec == NotifyInit /\ [][NotifyNext]_allVars

\* A process that is not killed: its handlers run, and every call to a store or
\* to SNS returns.
RunningNext == NotifyTick \/ Reject \/ \E p \in Proc : Arrive(p) \/ Handle(p)
RunningSpec ==
  /\ NotifyInit /\ [][RunningNext]_allVars
  /\ \A p \in Proc : WF_allVars(Handle(p))
-----------------------------------------------------------------------------
Statuses == {"rejected", "rate limit", "rate limit check failed",
             "trigger field eval error", "edge evaluation error",
             "failed to publish", "NoOp", "SuppressFlapping", "ForwardedAsIs"} \cup Notifying

\* Every handler is at a known stage with a job, counters are numbers and
\* replies carry a status the code produces; a handler evaluates an edge only
\* between the routing and the target limit.
NotifyTypeOK ==
  /\ EvalTypeOK
  /\ stage \in [Proc -> {"idle", "ip", "client", "route", "edge", "target", "publish", "reply"}]
  /\ \A p \in Proc : stage[p] # "idle" => job[p].payload \in seen /\ job[p].cc \in Configs
  /\ \A p \in Proc : pc[p] # "idle" <=> stage[p] = "edge"
  /\ used \in [Scopes -> Nat] /\ seen \subseteq Payloads
  /\ \A r \in replies : r.payload \in seen /\ r.status \in Statuses /\ r.err \in BOOLEAN

Edges == {m \in published : m.act # "ForwardedAsIs"}
Committed == {history[i].payload : i \in 1..Len(history)}

\* What is published as an edge or an aggregate was committed to the row by the
\* same request as that very decision, and no other request publishes it.
PublishedIsCommitted ==
  \A m \in Edges :
    /\ m.ver \in 1..Len(history)
    /\ history[m.ver].payload = m.payload /\ history[m.ver].act = m.act

\* Of the edges and aggregates of configurations with an sns_rpm that came to
\* the target limit in one minute, no more are published than the largest
\* sns_rpm allows (they can be numbered up to an sns_rpm), however publishing
\* is delayed.
TargetBudget ==
  \A t \in 0..Minute :
    \E cc \in Configs :
      ExistsInjection({m \in Edges : m.minute = t /\ m.rate > 0}, 1..cc.SNSRPM)

\* A request refused before the edge evaluation (rejected, rate limited, or
\* with a trigger field that cannot be evaluated) has neither touched the edge
\* state nor published.
RefusedLeavesNoTrace ==
  \A r \in replies :
    r.status \in {"rejected", "rate limit", "trigger field eval error"} =>
      r.payload \notin Committed \cup {m.payload : m \in published}

\* The reply tells what happened to the notification: a success status is sent
\* after publishing, and no_op, suppressed and 429 mean nothing was published.
RepliesAreTrue ==
  \A r \in replies :
    /\ r.status \in Notifying \cup {"ForwardedAsIs"} =>
         \E m \in published : m.payload = r.payload /\ m.act = r.status
    /\ r.status \in {"NoOp", "SuppressFlapping"} =>
         \A m \in published : m.payload # r.payload

\* Every request is answered, whatever races, errors and lost replies it meets
\* on its way: no branch of handleNotify and Run ends without a reply, and a
\* retry after a lost reply never repeats for ever.
EveryRequestAnswered ==
  \A n \in Payloads : n \in seen ~> \E r \in replies : r.payload = n
=============================================================================
