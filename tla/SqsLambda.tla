----------------------------- MODULE SqsLambda -----------------------------
(***************************************************************************)
(* The SQS consumer (cmd/lambda-sqs): HandleSQSEvent takes a batch of one  *)
(* message group of a FIFO queue through processMessage, record by record, *)
(* and reports the records that failed.  The queue delivers at least once: *)
(* a batch is a run of messages from its head, hidden while the function   *)
(* runs, and what is not deleted then is delivered again, MaxReceive times *)
(* at most.  HTTP requests evaluate notifications of the same scope in     *)
(* between, each in one Observe step, as EdgeEvalDDB justifies.            *)
(***************************************************************************)
EXTENDS EdgeDetector, FiniteSets

CONSTANTS
  Field,           \* per message, in the order of sending: its trigger value
  Elsewhere,       \* how many notifications arrive by HTTP
  BatchSize, MaxReceive

\* Messages are numbered in the order of sending; a payload tells the message
\* and the delivery.
Messages == DOMAIN Field
Http == {<<0, k>> : k \in 1..Elsewhere}

ASSUME SqsAssumption ==
  /\ Field \in Seq(Values) /\ Elsewhere \in Nat
  /\ BatchSize \in Nat \ {0} /\ MaxReceive \in Nat \ {0}
  /\ (Messages \X (1..MaxReceive)) \cup Http \subseteq Payloads

VARIABLES
  queue,           \* the messages of the group that SQS holds
  received,        \* how often each was received
  deleted, dead,   \* the ones SQS deleted, or moved to the dead-letter queue
  running,         \* the records of the present invocation, none when it is over
  batch,           \* those of them that are not processed yet
  failures,        \* batchItemFailures
  stage, job,      \* processMessage: where it is, and what it knows
  published,       \* edges and aggregates that were published, copies not counted
  handled,         \* messages that some delivery processed without an error
  failed           \* messages with a delivery that failed or was cut short

queueVars == <<queue, received, deleted, dead>>
batchVars == <<running, batch, failures, handled, failed>>
sqsVars == <<vars, queueVars, batchVars, stage, job, published>>

NoJob == [obs |-> Nil, plan |-> Nil, ver |-> 0]

SqsInit ==
  /\ Init
  /\ queue = Messages /\ received = [m \in Messages |-> 0]
  /\ deleted = {} /\ dead = {} /\ handled = {} /\ failed = {}
  /\ running = {} /\ batch = {} /\ failures = {}
  /\ stage = "idle" /\ job = NoJob /\ published = {}

HttpRequest ==
  /\ \E o \in Observations : o.payload \in Http /\ Observe(o)
  /\ UNCHANGED <<queueVars, batchVars, stage, job, published>>

\* SQS gives the function messages from the head of the queue ...
Poll ==
  /\ running = {}
  /\ \E last \in queue :
       /\ running' = {m \in queue : m <= last}
       /\ Cardinality(running') <= BatchSize
  /\ \A m \in running' : received[m] < MaxReceive
  /\ received' = [m \in Messages |-> received[m] + IF m \in running' THEN 1 ELSE 0]
  /\ batch' = running'
  /\ UNCHANGED <<vars, queue, deleted, dead, failures, handled, failed, stage, job, published>>

\* ... but gives up one that was received too often.
DeadLetter ==
  /\ running = {}
  /\ \E m \in queue :
       /\ \A n \in queue : m <= n
       /\ received[m] = MaxReceive
       /\ queue' = queue \ {m} /\ dead' = dead \cup {m}
  /\ UNCHANGED <<vars, received, deleted, batchVars, stage, job, published>>

\* Mutants: the batch is taken from its end; the loop stops at a failure, or
\* tries the failed record again.
IsNextLast(m) == \A n \in batch : n <= m
RestFailedStops(m) == {}
RestFailedRetries(m) == batch

\* for _, record := range sqsEvent.Records
IsNext(m) == \A n \in batch : m <= n
Rest(m) == batch \ {m}
RestFailed(m) == Rest(m)

\* processMessage returns nil ...
Done(m) ==
  /\ batch' = Rest(m) /\ handled' = handled \cup {m}
  /\ stage' = "idle" /\ job' = NoJob
  /\ UNCHANGED <<running, failures, failed>>

\* ... or an error.
Fail(m) ==
  /\ batch' = RestFailed(m) /\ failures' = failures \cup {m} /\ failed' = failed \cup {m}
  /\ stage' = "idle" /\ job' = NoJob
  /\ UNCHANGED <<running, handled>>

GoOn(s, j) == stage' = s /\ job' = j /\ UNCHANGED batchVars

\* The client's id or key is missing.
extractMessageAttributes(m) == Fail(m)

\* An error of the configuration, the authentication, the body, the limits on
\* address and client, the trigger expression, or the publishing of a message
\* that is passed through.
Refused(m) == Fail(m)

\* A record fails early; it is passed through, or has no trigger value, and
\* leaves the row alone; or it has a value to evaluate.
Begin ==
  /\ stage = "idle"
  /\ \E m \in batch :
       /\ IsNext(m)
       /\ \/ extractMessageAttributes(m) \/ Refused(m) \/ Done(m)
          \/ \E t \in 0..MaxTime, f \in FlapConfigs :
               GoOn("load", [NoJob EXCEPT !.obs =
                 [payload |-> <<m, received[m]>>, val |-> Field[m], now |-> t, f |-> f]])
  /\ UNCHANGED <<vars, queueVars, published>>

Message == job.obs.payload[1]

\* EvaluateEdgeAndFlap: Load, the decision on what was loaded ...
LoadRow ==
  /\ stage = "load"
  /\ \/ Fail(Message)
     \/ IF Stable(edge, job.obs) THEN Done(Message)
        ELSE GoOn("cas", [obs |-> job.obs, plan |-> Evaluate(edge, job.obs), ver |-> Len(log)])
  /\ UNCHANGED <<vars, queueVars, published>>

Answer(act) == IF act = "error" THEN Fail(Message) ELSE Done(Message)

\* Mutant: the first result of UpsertCAS is not looked at.
RacedUnnoticed ==
  IF job.plan.act \in Notifying THEN GoOn("target", [job EXCEPT !.ver = @ + 1])
                                ELSE Done(Message)

Raced == Answer(job.plan.onRace)

\* ... and UpsertCAS.  It is applied, and the reply may be lost: that is an
\* error or, after the AWS client's retry, a lost race ...
Commit ==
  /\ stage = "cas" /\ Len(log) = job.ver
  /\ Observe(job.obs)
  /\ \/ IF job.plan.act \in Notifying
        THEN GoOn("target", [job EXCEPT !.ver = @ + 1])
        ELSE Done(Message)
     \/ Answer(job.plan.onFail) \/ Raced
  /\ UNCHANGED <<queueVars, published>>

\* ... or it loses a race, or fails.
NotCommitted ==
  /\ stage = "cas"
  /\ (Len(log) # job.ver /\ Raced) \/ Answer(job.plan.onFail)
  /\ UNCHANGED <<vars, queueVars, published>>

\* The limit on the target lets the message pass, drops it (no_op, no error),
\* or cannot be asked.
LimitTarget ==
  /\ stage = "target"
  /\ GoOn("publish", job) \/ Done(Message) \/ Fail(Message)
  /\ UNCHANGED <<vars, queueVars, published>>

\* PublishRaw publishes, with or without its reply arriving, or fails.
Publish ==
  /\ stage = "publish"
  /\ LET sent == published \cup {[payload |-> job.obs.payload, ver |-> job.ver, act |-> job.plan.act]}
     IN  \/ published' = sent /\ Done(Message)
         \/ published' \in {published, sent} /\ Fail(Message)
  /\ UNCHANGED <<vars, queueVars>>

\* HandleSQSEvent returns, and SQS deletes what is not reported.
Respond ==
  /\ running # {} /\ batch = {}
  /\ queue' = queue \ (running \ failures)
  /\ deleted' = deleted \cup (running \ failures)
  /\ running' = {} /\ failures' = {}
  /\ UNCHANGED <<vars, received, dead, batch, handled, failed, stage, job, published>>

\* The function is stopped, by its timeout or a crash, before it returns.
Cut ==
  /\ running # {}
  /\ failed' = failed \cup running
  /\ running' = {} /\ batch' = {} /\ failures' = {}
  /\ stage' = "idle" /\ job' = NoJob
  /\ UNCHANGED <<vars, queueVars, handled, published>>

Consume ==
  \/ Poll \/ DeadLetter \/ Respond
  \/ Begin \/ LoadRow \/ Commit \/ NotCommitted \/ LimitTarget \/ Publish

SqsNext == Consume \/ Cut \/ HttpRequest

\* SQS goes on polling, the function is scheduled and its calls return.
SqsSpec == SqsInit /\ [][SqsNext]_sqsVars /\ WF_sqsVars(Consume)
-----------------------------------------------------------------------------
MessageAt(i) == log[i].payload[1]

\* The queue holds what is neither deleted nor dead, an invocation works on a run
\* of it from the head, and its unprocessed records are the last of these.
SqsTypeOK ==
  /\ TypeOK
  /\ received \in [Messages -> 0..MaxReceive]
  /\ queue = Messages \ (deleted \cup dead)
  /\ running \subseteq queue /\ \A m \in running, n \in queue \ running : m < n
  /\ batch \subseteq running /\ \A m \in batch, n \in running \ batch : n < m
  /\ stage \in {"idle", "load", "cas", "target", "publish"}
  /\ stage # "idle" => Message \in batch /\ IsNext(Message)

\* A message leaves the queue for good only after processMessage returned nil
\* for it: a failure, a cut invocation or a neighbour's failure never deletes it.
DeletedWasHandled == deleted \subseteq handled

\* The row takes the values of the group in the order of sending, except where
\* a delivery of the message written late had failed or was cut short.
OutOfOrderHadFailed ==
  \A i, j \in DOMAIN log :
    i < j /\ 0 < MessageAt(j) /\ MessageAt(j) < MessageAt(i) => MessageAt(j) \in failed

\* A message that is delivered again is published again only if it had failed
\* and another value was written in between: a redelivery that finds its own
\* value in the row stays silent.
RepublishedAfterAnother ==
  \A a, b \in published :
    a.payload[1] = b.payload[1] /\ a.ver < b.ver =>
      /\ a.payload[1] \in failed
      /\ \E k \in a.ver..b.ver : log[k].val # Field[a.payload[1]]

\* What is published as an edge or an aggregate is a committed version of the
\* row, and the delivery that committed it publishes it: a redelivery never
\* publishes in the place of the one before.
PublishedByItsDelivery ==
  \A msg \in published : log[msg.ver].payload = msg.payload /\ log[msg.ver].act = msg.act

\* Every message is processed, or given up after MaxReceive deliveries, whatever
\* fails on its way.
EveryMessageSettled == <>(queue = {})

\* "Failed messages block subsequent messages in the same MessageGroup"
\* (cmd/lambda-sqs/README.md), "report failure to preserve ordering" (main.go).
FailedMessageBlocks ==
  \A m \in handled : \A earlier \in 1..(m - 1) : earlier \in handled \cup dead
=============================================================================
