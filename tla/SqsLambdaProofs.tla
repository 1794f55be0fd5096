-------------------------- MODULE SqsLambdaProofs --------------------------
(***************************************************************************)
(* The SQS consumer for every sequence of messages, batch size and number  *)
(* of deliveries.  The argument has two stages.  QueueInv and JobInv say   *)
(* where the records of an invocation are; with them every step of the     *)
(* consumer is a step of EdgeDetector or leaves the row alone, so that the *)
(* theorems about EdgeDetector hold here.  With those, LogInv says which   *)
(* messages may still write behind a later one.                            *)
(***************************************************************************)
EXTENDS SqsLambda, EdgeDetectorProofs

QueueInv ==
  /\ queue = Messages \ (deleted \cup dead)
  /\ received \in [Messages -> 0..MaxReceive]
  /\ running \subseteq queue /\ \A m \in running, n \in queue \ running : m < n
  /\ batch \subseteq running /\ \A m \in batch, n \in running \ batch : n < m
  /\ \A m \in running : received[m] >= 1
  /\ failures \subseteq running \ batch /\ failures \subseteq failed
  /\ running \ batch \subseteq handled \cup failures
  /\ deleted \subseteq handled

JobInv ==
  /\ stage \in {"idle", "load", "cas", "target", "publish"}
  /\ stage = "idle" => job = NoJob
  /\ job = [obs |-> job.obs, plan |-> job.plan, ver |-> job.ver]
  /\ stage # "idle" =>
       /\ job.obs \in Observations
       /\ Message \in batch /\ IsNext(Message)
       /\ job.obs.payload = <<Message, received[Message]>>
       /\ job.obs.val = Field[Message]

ConsumerInv == QueueInv /\ JobInv

LEMMA MessagesAreNumbers == Messages \subseteq Nat \ {0}
BY SqsAssumption DEF Messages

\* What the record in work leaves behind when processMessage returns.
LEMMA RecordEnds ==
  ASSUME QueueInv, NEW m \in batch, IsNext(m), Done(m) \/ Fail(m), UNCHANGED queueVars
  PROVE  ConsumerInv'
<1>1. batch \subseteq Nat /\ running \subseteq Nat
  BY MessagesAreNumbers DEF QueueInv
<1>2. \A n \in batch : n # m => m < n
  BY <1>1 DEF IsNext
<1>3. /\ batch' = batch \ {m} /\ running' = running
      /\ queue' = queue /\ received' = received /\ deleted' = deleted /\ dead' = dead
      /\ handled \subseteq handled' /\ failed \subseteq failed'
      /\ \/ failures' = failures /\ m \in handled'
         \/ failures' = failures \cup {m} /\ m \in failed'
  BY DEF Done, Fail, RestFailed, Rest, queueVars
<1>4. \A k \in batch', n \in running' \ batch' : n < k
  BY <1>2, <1>3 DEF QueueInv
<1>5. QueueInv'
  BY <1>3, <1>4 DEF QueueInv, Messages
<1>6. JobInv'
  BY DEF Done, Fail, JobInv, NoJob
<1> QED
  BY <1>5, <1>6 DEF ConsumerInv

\* A step that goes on with the record in work.
LEMMA RecordGoesOn ==
  ASSUME ConsumerInv, NEW s \in {"cas", "target", "publish"}, NEW plan, NEW ver, stage # "idle",
         GoOn(s, [obs |-> job.obs, plan |-> plan, ver |-> ver]), UNCHANGED queueVars
  PROVE  ConsumerInv'
<1>1. QueueInv'
  BY DEF ConsumerInv, QueueInv, GoOn, batchVars, queueVars, Messages
<1>2. job' = [obs |-> job.obs, plan |-> plan, ver |-> ver] /\ stage' = s
      /\ batch' = batch /\ received' = received
  BY DEF GoOn, batchVars, queueVars
<1>3. job'.obs = job.obs /\ Message' = Message
  BY <1>2 DEF Message
<1>4. JobInv'
  BY <1>2, <1>3 DEF ConsumerInv, JobInv, IsNext, Observations
<1> QED
  BY <1>1, <1>4 DEF ConsumerInv

\* Answer, and so Raced, ends the record.
LEMMA AnswerEnds ==
  ASSUME NEW act, Answer(act)
  PROVE  Done(Message) \/ Fail(Message)
BY DEF Answer

\* What every step does to the record in work: it ends, or goes on.
LEMMA StageSteps ==
  ASSUME ConsumerInv
  PROVE  /\ LoadRow => \/ Done(Message) \/ Fail(Message)
                       \/ GoOn("cas", [obs |-> job.obs, plan |-> Evaluate(edge, job.obs), ver |-> Len(log)])
                          /\ ~Stable(edge, job.obs)
         /\ Commit => \/ Done(Message) \/ Fail(Message)
                      \/ GoOn("target", [obs |-> job.obs, plan |-> job.plan, ver |-> job.ver + 1])
         /\ NotCommitted => Done(Message) \/ Fail(Message)
         /\ LimitTarget => \/ Done(Message) \/ Fail(Message)
                           \/ GoOn("publish", [obs |-> job.obs, plan |-> job.plan, ver |-> job.ver])
         /\ Publish => Done(Message) \/ Fail(Message)
<1>0. job = [obs |-> job.obs, plan |-> job.plan, ver |-> job.ver]
  BY DEF ConsumerInv, JobInv
<1>2. [job EXCEPT !.ver = @ + 1] = [obs |-> job.obs, plan |-> job.plan, ver |-> job.ver + 1]
  BY <1>0
<1>3. LoadRow => \/ Done(Message) \/ Fail(Message)
                 \/ GoOn("cas", [obs |-> job.obs, plan |-> Evaluate(edge, job.obs), ver |-> Len(log)])
                    /\ ~Stable(edge, job.obs)
  BY DEF LoadRow
<1>4. Commit => \/ Done(Message) \/ Fail(Message)
                \/ GoOn("target", [obs |-> job.obs, plan |-> job.plan, ver |-> job.ver + 1])
  BY <1>2, AnswerEnds DEF Commit, Raced
<1>5. NotCommitted => Done(Message) \/ Fail(Message)
  BY AnswerEnds DEF NotCommitted, Raced
<1>6. LimitTarget => \/ Done(Message) \/ Fail(Message)
                     \/ GoOn("publish", [obs |-> job.obs, plan |-> job.plan, ver |-> job.ver])
  BY <1>0 DEF LimitTarget
<1>7. Publish => Done(Message) \/ Fail(Message)
  BY DEF Publish
<1> QED
  BY <1>3, <1>4, <1>5, <1>6, <1>7

LEMMA PollStep ==
  ASSUME ConsumerInv, Poll
  PROVE  ConsumerInv'
<1>1. PICK last \in queue : running' = {m \in queue : m <= last}
  BY DEF Poll
<1>2. queue \subseteq Nat
  BY Zenon, MessagesAreNumbers DEF ConsumerInv, QueueInv
<1>3. running = {} /\ batch = {} /\ failures = {} /\ stage = "idle"
  BY DEF Poll, ConsumerInv, QueueInv, JobInv
<1>4. \A m \in running', n \in queue \ running' : m < n
  BY <1>1, <1>2
<1>5. \A m \in running' : received[m] < MaxReceive
  BY DEF Poll
<1>6. received' \in [Messages -> 0..MaxReceive] /\ \A m \in running' : received'[m] >= 1
  <2>1. received \in [Messages -> 0..MaxReceive] /\ queue \subseteq Messages
    BY DEF ConsumerInv, QueueInv
  <2>2. received' = [m \in Messages |-> received[m] + IF m \in running' THEN 1 ELSE 0]
    BY DEF Poll
  <2>3. \A m \in Messages : m \in running' => received'[m] = received[m] + 1
    BY <2>2
  <2>4. \A m \in Messages : m \notin running' => received'[m] = received[m] + 0
    BY <2>2
  <2>5. \A m \in Messages : received[m] \in 0..MaxReceive
    BY <2>1
  <2>6. \A m \in Messages : received'[m] \in 0..MaxReceive
    BY <1>5, <2>3, <2>4, <2>5, SqsAssumption
  <2>7. \A m \in running' : received'[m] >= 1
    BY <1>1, <2>1, <2>3, <2>5, SqsAssumption
  <2> QED
    BY <2>2, <2>6, <2>7
<1>7. QueueInv'
  BY <1>1, <1>3, <1>4, <1>6 DEF Poll, ConsumerInv, QueueInv, Messages
<1>8. JobInv'
  BY <1>3 DEF Poll, ConsumerInv, JobInv, NoJob
<1> QED
  BY <1>7, <1>8 DEF ConsumerInv

LEMMA DeadLetterStep ==
  ASSUME ConsumerInv, DeadLetter
  PROVE  ConsumerInv'
<1>1. running = {} /\ batch = {} /\ failures = {} /\ stage = "idle"
  BY DEF DeadLetter, ConsumerInv, QueueInv, JobInv
<1>2. QueueInv'
  BY <1>1 DEF DeadLetter, ConsumerInv, QueueInv, Messages, batchVars
<1>3. JobInv'
  BY <1>1 DEF DeadLetter, ConsumerInv, JobInv, NoJob, batchVars
<1> QED
  BY <1>2, <1>3 DEF ConsumerInv

LEMMA RespondStep ==
  ASSUME ConsumerInv, Respond
  PROVE  ConsumerInv'
<1>1. batch = {} /\ stage = "idle"
  BY DEF Respond, ConsumerInv, JobInv
<1>2. running \ failures \subseteq handled
  BY <1>1 DEF ConsumerInv, QueueInv
<1>3. QueueInv'
  BY <1>1, <1>2 DEF Respond, ConsumerInv, QueueInv, Messages
<1>4. JobInv'
  BY <1>1 DEF Respond, ConsumerInv, JobInv, NoJob
<1> QED
  BY <1>3, <1>4 DEF ConsumerInv

LEMMA CutStep ==
  ASSUME ConsumerInv, Cut
  PROVE  ConsumerInv'
<1>1. QueueInv'
  BY DEF Cut, ConsumerInv, QueueInv, Messages, queueVars
<1>2. JobInv'
  BY DEF Cut, JobInv, NoJob
<1> QED
  BY <1>1, <1>2 DEF ConsumerInv

\* A record in work has an observation that EdgeDetector allows.
LEMMA BeginStep ==
  ASSUME ConsumerInv, Begin
  PROVE  ConsumerInv'
<1>1. PICK m \in batch :
        /\ IsNext(m)
        /\ \/ Done(m) \/ Fail(m)
           \/ \E t \in 0..MaxTime, f \in FlapConfigs :
                GoOn("load", [NoJob EXCEPT !.obs =
                  [payload |-> <<m, received[m]>>, val |-> Field[m], now |-> t, f |-> f]])
  BY SMTT(30) DEF Begin, extractMessageAttributes, Refused
<1>2. UNCHANGED queueVars
  BY DEF Begin
<1>3. CASE Done(m) \/ Fail(m)
  BY <1>1, <1>2, <1>3, RecordEnds DEF ConsumerInv
<1>4. ASSUME NEW t \in 0..MaxTime, NEW f \in FlapConfigs,
             GoOn("load", [NoJob EXCEPT !.obs =
               [payload |-> <<m, received[m]>>, val |-> Field[m], now |-> t, f |-> f]])
      PROVE  ConsumerInv'
  <2> DEFINE o == [payload |-> <<m, received[m]>>, val |-> Field[m], now |-> t, f |-> f]
  <2>1. m \in Messages /\ received[m] \in 1..MaxReceive
    BY SqsAssumption DEF ConsumerInv, QueueInv
  <2>2. <<m, received[m]>> \in Payloads
    BY <2>1, SqsAssumption
  <2>3. Field[m] \in Values
    BY <2>1, SqsAssumption DEF Messages
  <2>4. o \in Observations
    BY <2>2, <2>3 DEF Observations
  <2>5. stage' = "load" /\ job' = [obs |-> o, plan |-> Nil, ver |-> 0] /\ UNCHANGED batchVars
    BY <1>4 DEF GoOn, NoJob
  <2>6. o.payload = <<m, received[m]>> /\ o.val = Field[m] /\ o.payload[1] = m
    OBVIOUS
  <2> HIDE DEF o
  <2>7. job'.obs = o /\ Message' = m
    BY <2>5, <2>6 DEF Message
  <2>8. QueueInv'
    BY <1>2, <2>5 DEF ConsumerInv, QueueInv, batchVars, queueVars, Messages
  <2>9. JobInv'
    BY <1>1, <1>2, <2>4, <2>5, <2>6, <2>7 DEF JobInv, batchVars, queueVars, IsNext, Observations
  <2> QED
    BY <2>8, <2>9 DEF ConsumerInv
<1> QED
  BY Zenon, <1>1, <1>3, <1>4

LEMMA ConsumerStep ==
  ASSUME ConsumerInv, [SqsNext]_sqsVars
  PROVE  ConsumerInv'
<1>1. CASE LoadRow \/ Commit \/ NotCommitted \/ LimitTarget \/ Publish
  <2>1. stage # "idle" /\ UNCHANGED queueVars
    BY <1>1 DEF LoadRow, Commit, NotCommitted, LimitTarget, Publish
  <2>2. Message \in batch /\ IsNext(Message)
    BY <2>1 DEF ConsumerInv, JobInv
  <2>3. CASE Done(Message) \/ Fail(Message)
    BY <2>1, <2>2, <2>3, RecordEnds DEF ConsumerInv
  <2>4. CASE \E s \in {"cas", "target", "publish"}, plan \in {Evaluate(edge, job.obs), job.plan},
                ver \in {Len(log), job.ver, job.ver + 1} :
               GoOn(s, [obs |-> job.obs, plan |-> plan, ver |-> ver])
    BY <2>1, <2>4, RecordGoesOn
  <2> QED
    BY <1>1, <2>3, <2>4, StageSteps
<1>2. CASE HttpRequest \/ UNCHANGED sqsVars
  <2>1. UNCHANGED <<queueVars, batchVars, stage, job>>
    BY <1>2 DEF HttpRequest, sqsVars
  <2>2. QueueInv'
    BY <2>1 DEF ConsumerInv, QueueInv, batchVars, queueVars, Messages
  <2>3. JobInv'
    BY <2>1 DEF ConsumerInv, JobInv, batchVars, queueVars, Message, IsNext, Observations
  <2> QED
    BY <2>2, <2>3 DEF ConsumerInv
<1> QED
  BY <1>1, <1>2, PollStep, DeadLetterStep, RespondStep, CutStep, BeginStep DEF SqsNext, Consume

LEMMA ConsumerInvariance == SqsInit /\ [][SqsNext]_sqsVars => []ConsumerInv
<1>1. SqsInit => ConsumerInv
  BY SqsAssumption DEF SqsInit, ConsumerInv, QueueInv, JobInv, NoJob, Messages
<1> QED
  BY <1>1, ConsumerStep, PTL

\* A step of the consumer evaluates a notification as EdgeDetector does, or
\* leaves the row alone.
LEMMA StepImplements ==
  ASSUME ConsumerInv, [SqsNext]_sqsVars
  PROVE  [Next]_vars
<1>1. CASE Commit
  BY <1>1 DEF Commit, ConsumerInv, JobInv, Next
<1>2. CASE HttpRequest
  BY <1>2 DEF HttpRequest, Next
<1>3. CASE Poll \/ DeadLetter \/ Respond \/ Cut
  BY <1>3 DEF Poll, DeadLetter, Respond, Cut
<1>4. CASE Begin \/ LoadRow \/ NotCommitted \/ LimitTarget \/ Publish
  BY <1>4 DEF Begin, LoadRow, NotCommitted, LimitTarget, Publish
<1>5. CASE UNCHANGED sqsVars
  BY <1>5 DEF sqsVars
<1> QED
  BY <1>1, <1>2, <1>3, <1>4, <1>5 DEF SqsNext, Consume

\* The consumer and the HTTP requests beside it implement EdgeDetector: cut
\* invocations, redeliveries and lost replies add nothing that one evaluation
\* after the other does not do, so EdgeDetector's theorems hold of it.
THEOREM ConsumerImplements == SqsSpec => Spec
<1>1. SqsInit => Init
  BY DEF SqsInit
<1> QED
  BY <1>1, StepImplements, ConsumerInvariance, PTL DEF SqsSpec, Spec

\* Messages that write no more in the present or a later delivery, unless one of
\* their deliveries had failed.
Settled(m) == m \in failed \/ m \notin queue \/ m \in running \ batch

Writing == stage \in {"target", "publish"}

OrderInv ==
  /\ \A i \in 1..Len(log) :
       /\ MessageAt(i) \in Messages \cup {0}
       /\ MessageAt(i) # 0 => log[i].val = Field[MessageAt(i)]
       /\ \A m \in Messages : m < MessageAt(i) => Settled(m)
       /\ MessageAt(i) # 0 => Settled(MessageAt(i)) \/ (Writing /\ MessageAt(i) = Message)
  /\ \A i, j \in 1..Len(log) :
       i < j /\ MessageAt(j) # 0 /\ MessageAt(j) <= MessageAt(i) => MessageAt(j) \in failed
  /\ \A i \in 2..Len(log) : log[i - 1].val # log[i].val

WriteInv ==
  /\ stage = "cas" =>
       /\ job.ver \in 0..Len(log)
       /\ job.ver = Len(log) => job.plan = Evaluate(edge, job.obs)
  /\ Writing =>
       /\ job.ver \in 1..Len(log)
       /\ log[job.ver].payload = job.obs.payload /\ log[job.ver].act = job.plan.act
  /\ \A msg \in published :
       /\ msg.ver \in 1..Len(log) /\ MessageAt(msg.ver) # 0
       /\ log[msg.ver].payload = msg.payload /\ log[msg.ver].act = msg.act

\* What a step does to the sets of messages while processMessage runs.
LEMMA RecordFrame ==
  ASSUME ConsumerInv, Begin \/ LoadRow \/ Commit \/ NotCommitted \/ LimitTarget \/ Publish
  PROVE  queue' = queue /\ running' = running /\ batch' \subseteq batch /\ failed \subseteq failed'
<1>1. UNCHANGED queueVars
  BY DEF Begin, LoadRow, Commit, NotCommitted, LimitTarget, Publish
<1>2. CASE \E m \in batch : Done(m) \/ Fail(m)
  BY <1>1, <1>2 DEF Done, Fail, Rest, RestFailed, queueVars
<1>3. CASE \E s, j : GoOn(s, j)
  BY <1>1, <1>3 DEF GoOn, batchVars, queueVars
<1>4. CASE Begin
  BY Zenon, <1>2, <1>3, <1>4 DEF Begin, extractMessageAttributes, Refused
<1>5. CASE LoadRow \/ Commit \/ NotCommitted \/ LimitTarget \/ Publish
  <2>1. Message \in batch
    BY <1>5 DEF LoadRow, Commit, NotCommitted, LimitTarget, Publish, ConsumerInv, JobInv
  <2> QED
    BY <1>2, <1>3, <1>5, <2>1, StageSteps
<1> QED
  BY <1>4, <1>5

\* A settled message stays settled: only a failure brings it back to a batch.
LEMMA SettledStays ==
  ASSUME ConsumerInv, [SqsNext]_sqsVars
  PROVE  /\ failed \subseteq failed'
         /\ \A m : Settled(m) => Settled(m)'
<1>1. CASE Begin \/ LoadRow \/ Commit \/ NotCommitted \/ LimitTarget \/ Publish
  BY <1>1, RecordFrame DEF Settled
<1>2. CASE Poll
  BY <1>2 DEF Poll, Settled
<1>3. CASE DeadLetter
  BY <1>3 DEF DeadLetter, Settled, batchVars
<1>4. CASE Respond
  BY <1>4 DEF Respond, Settled, ConsumerInv, QueueInv
<1>5. CASE Cut
  BY <1>5 DEF Cut, Settled, queueVars
<1>6. CASE HttpRequest \/ UNCHANGED sqsVars
  BY <1>6 DEF HttpRequest, sqsVars, Settled, batchVars, queueVars
<1> QED
  BY <1>1, <1>2, <1>3, <1>4, <1>5, <1>6 DEF SqsNext, Consume

\* The record in work ends or is cut short, and is settled, or stays in work.
LEMMA RecordSettles ==
  ASSUME ConsumerInv, [SqsNext]_sqsVars, stage # "idle", NEW k, k = Message
  PROVE  Settled(k)' \/ (Message' = k /\ (Writing \/ Commit => Writing'))
<1>1. k \in batch /\ k \in running
  BY DEF ConsumerInv, QueueInv, JobInv
<1>2. CASE LoadRow \/ Commit \/ NotCommitted \/ LimitTarget \/ Publish
  <2>1. CASE Done(k) \/ Fail(k)
    BY <1>1, <2>1 DEF Done, Fail, Rest, RestFailed, Settled
  <2>2. CASE LoadRow
    <3>1. SUFFICES ASSUME NEW p, NEW v, GoOn("cas", [obs |-> job.obs, plan |-> p, ver |-> v])
                   PROVE  Message' = k /\ ~Writing /\ ~Commit
      BY <2>1, <2>2, StageSteps
    <3> QED
      BY <2>2, <3>1 DEF GoOn, Message, Writing, Commit, LoadRow
  <2>3. CASE Commit \/ NotCommitted \/ LimitTarget \/ Publish
    <3>1. SUFFICES ASSUME NEW s \in {"target", "publish"}, NEW v,
                          GoOn(s, [obs |-> job.obs, plan |-> job.plan, ver |-> v])
                   PROVE  Message' = k /\ Writing'
      BY <2>1, <2>3, StageSteps
    <3> QED
      BY <3>1 DEF GoOn, Message, Writing
  <2> QED
    BY <1>2, <2>2, <2>3
<1>3. CASE Cut
  BY <1>1, <1>3 DEF Cut, Settled
<1>4. CASE HttpRequest \/ UNCHANGED sqsVars
  <2>1. stage' = stage /\ job' = job
    BY <1>4 DEF HttpRequest, sqsVars
  <2>2. Commit => stage' # "cas"
    BY <1>1, StageSteps DEF Commit, Done, Fail, GoOn
  <2> QED
    BY <2>1, <2>2 DEF Writing, Message, Commit
<1>5. ~Poll /\ ~DeadLetter /\ ~Respond /\ ~Begin
  BY <1>1 DEF Poll, DeadLetter, Respond, Begin
<1> QED
  BY <1>2, <1>3, <1>4, <1>5 DEF SqsNext, Consume

LEMMA OrderKept ==
  ASSUME ConsumerInv, OrderInv, [SqsNext]_sqsVars, UNCHANGED vars
  PROVE  OrderInv'
<1>1. log' = log /\ \A i : MessageAt(i)' = MessageAt(i)
  BY DEF vars, MessageAt
<1>2. failed \subseteq failed' /\ \A m : Settled(m) => Settled(m)'
  BY SettledStays
<1>3. ASSUME NEW i \in 1..Len(log), MessageAt(i) # 0
      PROVE  Settled(MessageAt(i))' \/ (Writing' /\ MessageAt(i) = Message')
  <2>1. CASE Settled(MessageAt(i))
    BY <1>1, <1>2, <2>1 DEF Settled
  <2>2. CASE Writing /\ MessageAt(i) = Message
    <3>1. stage # "idle"
      BY <2>2 DEF Writing
    <3>2. PICK k : k = Message
      OBVIOUS
    <3>3. Settled(k)' \/ (Message' = k /\ Writing')
      BY <2>2, <3>1, <3>2, RecordSettles
    <3> QED
      BY <1>1, <2>2, <3>2, <3>3 DEF Settled
  <2> QED
    BY <1>3, <2>1, <2>2 DEF OrderInv
<1>4. \A i \in 1..Len(log) : \A m \in Messages : m < MessageAt(i) => Settled(m)'
  BY <1>2 DEF OrderInv
<1> QED
  BY <1>1, <1>2, <1>3, <1>4 DEF OrderInv, Messages

\* A write adds the message of the record in work, or of an HTTP request, to
\* the log.
LEMMA OrderExtended ==
  ASSUME ConsumerInv, OrderInv, Inv, SqsNext, NEW o \in Observations, Observe(o),
         \/ o.payload \in Http
         \/ Commit /\ o = job.obs
  PROVE  OrderInv'
<1>n. PICK n : n = Len(log) + 1
  OBVIOUS
<1>k. PICK k : k = o.payload[1]
  OBVIOUS
<1>1. /\ Len(log') = n /\ Len(log) \in Nat
      /\ log'[n].payload = o.payload /\ log'[n].val = o.val
      /\ \A i \in 1..Len(log) : log'[i] = log[i]
  <2>1. /\ Len(log') = n /\ Len(log) \in Nat /\ log'[n] = Entry(o, Evaluate(edge, o))
        /\ \A i \in 1..Len(log) : log'[i] = log[i]
    BY <1>n, ObserveFacts
  <2>2. \A plan : Entry(o, plan).payload = o.payload /\ Entry(o, plan).val = o.val
    BY DEF Entry
  <2> QED
    BY <2>1, <2>2
<1>2. MessageAt(n)' = k /\ \A i \in 1..Len(log) : MessageAt(i)' = MessageAt(i)
  BY <1>1, <1>k DEF MessageAt
<1>3. failed \subseteq failed' /\ \A m : Settled(m) => Settled(m)'
  BY SettledStays
<1>4. \/ k = 0
      \/ /\ Commit /\ k = Message /\ stage = "cas" /\ k \in batch /\ IsNext(k)
         /\ o.val = Field[k]
  BY <1>k DEF Http, Commit, ConsumerInv, JobInv, Message
<1>5. queue \subseteq Messages /\ batch \subseteq Messages /\ Messages \subseteq Nat \ {0}
  BY MessagesAreNumbers DEF ConsumerInv, QueueInv
<1>6. \A i \in 1..Len(log') : i = n \/ i \in 1..Len(log)
  BY <1>1, <1>n
<1>7. k \in Messages \cup {0} /\ (k # 0 => o.val = Field[k])
  BY Zenon, <1>4, <1>5
<1>8. ASSUME NEW m \in Messages, m < k
      PROVE  Settled(m)'
  <2>1. k \in batch /\ IsNext(k)
    BY <1>4, <1>5, <1>8
  <2>2. m \notin batch
    BY <1>5, <1>8, <2>1 DEF IsNext
  <2>3. m \notin queue \ running
    BY <1>5, <1>8, <2>1 DEF ConsumerInv, QueueInv
  <2> QED
    BY <1>3, <2>2, <2>3 DEF Settled
<1>9. k # 0 => Settled(k)' \/ (Writing' /\ k = Message')
  <2>1. SUFFICES ASSUME k # 0 PROVE Settled(k)' \/ (Writing' /\ k = Message')
    OBVIOUS
  <2>2. Commit /\ k = Message /\ stage # "idle"
    BY <1>4, <2>1
  <2> QED
    BY <2>2, RecordSettles
<1>10. ASSUME NEW i \in 1..Len(log), MessageAt(i) # 0
       PROVE  Settled(MessageAt(i))' \/ (Writing' /\ MessageAt(i) = Message')
  <2>1. CASE Settled(MessageAt(i))
    BY <1>2, <1>3, <2>1 DEF Settled
  <2>2. CASE Writing /\ MessageAt(i) = Message
    <3>1. stage # "idle"
      BY <2>2 DEF Writing
    <3>2. PICK c : c = Message
      OBVIOUS
    <3>3. Settled(c)' \/ (Message' = c /\ Writing')
      BY <2>2, <3>1, <3>2, RecordSettles
    <3> QED
      BY <1>2, <2>2, <3>2, <3>3 DEF Settled
  <2> QED
    BY <1>10, <2>1, <2>2 DEF OrderInv
<1>11. ASSUME NEW i \in 1..Len(log), k # 0, k <= MessageAt(i)
       PROVE  k \in failed'
  <2>1. k \in batch /\ k \in queue /\ ~Writing /\ k \in Messages
    BY Zenon, <1>4, <1>5, <1>11 DEF ConsumerInv, QueueInv, Writing
  <2>2. MessageAt(i) \in Messages \cup {0}
    BY DEF OrderInv
  <2>3. k \in Nat /\ MessageAt(i) \in Nat
    <3>1. \A m \in Messages \cup {0} : m \in Nat
      BY <1>5
    <3> QED
      BY <2>1, <2>2, <3>1
  <2>4. k < MessageAt(i) \/ (k = MessageAt(i) /\ MessageAt(i) # 0)
    BY <1>11, <2>3
  <2>5. Settled(k)
    BY <2>1, <2>4 DEF OrderInv
  <2> QED
    BY <1>3, <2>1, <2>5 DEF Settled
<1>12. Len(log) # 0 => log[Len(log)].val # o.val
  BY DEF Observe, Stable, Inv, EdgeRemembers, RecentIsLogSuffix
<1>13. \A i \in 1..Len(log') :
         /\ MessageAt(i)' \in Messages \cup {0}
         /\ MessageAt(i)' # 0 => log'[i].val = Field[MessageAt(i)']
  BY SMTT(30), <1>1, <1>2, <1>6, <1>7 DEF OrderInv
<1>14. \A i \in 1..Len(log') : \A m \in Messages : m < MessageAt(i)' => Settled(m)'
  BY <1>2, <1>3, <1>6, <1>8 DEF OrderInv
<1>15. \A i \in 1..Len(log') :
         MessageAt(i)' # 0 => Settled(MessageAt(i))' \/ (Writing' /\ MessageAt(i)' = Message')
  BY <1>2, <1>6, <1>9, <1>10 DEF Settled
<1>16. \A i, j \in 1..Len(log') :
         i < j /\ MessageAt(j)' # 0 /\ MessageAt(j)' <= MessageAt(i)' => MessageAt(j)' \in failed'
  <2>1. \A i \in 1..Len(log') : ~(n < i)
    BY <1>1
  <2> QED
    BY <1>2, <1>3, <1>6, <1>11, <2>1 DEF OrderInv
<1>17. \A i \in 2..Len(log') : log'[i - 1].val # log'[i].val
  <2>1. TAKE i \in 2..Len(log')
  <2>2. CASE i = n
    <3>1. i - 1 = Len(log) /\ i - 1 \in 1..Len(log) /\ Len(log) # 0
      BY <1>1, <1>n, <2>2
    <3> QED
      BY <1>1, <1>12, <2>2, <3>1
  <2>3. CASE i # n
    <3>1. i \in 2..Len(log) /\ i \in 1..Len(log) /\ i - 1 \in 1..Len(log)
      BY <1>1, <1>n, <2>3
    <3> QED
      BY <1>1, <3>1 DEF OrderInv
  <2> QED
    BY <2>2, <2>3
<1>18. Messages' = Messages
  BY DEF Messages
<1> QED
  BY <1>13, <1>14, <1>15, <1>16, <1>17, <1>18 DEF OrderInv

\* Steps of the consumer that leave the row alone, a first write and a publish
\* included, keep what is known of the writes.
LEMMA WriteKept ==
  ASSUME ConsumerInv, OrderInv, WriteInv, Inv, [SqsNext]_sqsVars, UNCHANGED vars
  PROVE  WriteInv'
<1>1. log' = log /\ edge' = edge /\ Len(log) \in Nat /\ \A i : MessageAt(i)' = MessageAt(i)
  BY DEF vars, MessageAt, Inv, TypeOK
<1>2. CASE published' = published /\ stage' = "idle"
  BY <1>1, <1>2 DEF WriteInv, Writing
<1>3. CASE published' = published /\ stage' = stage /\ job' = job
  BY <1>1, <1>3 DEF WriteInv, Writing
<1>4. CASE Begin
  <2>1. published' = published /\ stage' \in {"idle", "load"}
    BY <1>4 DEF Begin, extractMessageAttributes, Refused, Done, Fail, GoOn
  <2> QED
    BY <1>1, <2>1 DEF WriteInv, Writing
<1>5. CASE LoadRow
  <2>1. SUFFICES ASSUME GoOn("cas", [obs |-> job.obs, plan |-> Evaluate(edge, job.obs), ver |-> Len(log)])
                 PROVE  WriteInv'
    BY Zenon, <1>2, <1>5, StageSteps DEF LoadRow, Done, Fail
  <2>2. stage' = "cas" /\ job'.ver = Len(log) /\ job'.plan = Evaluate(edge, job'.obs)
    BY SMTT(30), <2>1 DEF GoOn
  <2>3. published' = published /\ ~Writing'
    BY Zenon, <1>5, <2>2 DEF LoadRow, Writing
  <2>4. stage' = "cas" =>
          /\ job'.ver \in 0..Len(log')
          /\ job'.ver = Len(log') => job'.plan = Evaluate(edge', job'.obs)
    BY SMTT(30), <1>1, <2>2
  <2> QED
    BY SMTT(30), <1>1, <2>3, <2>4 DEF WriteInv
<1>6. CASE NotCommitted
  BY SMTT(30), <1>2, <1>6, StageSteps DEF NotCommitted, Done, Fail
<1>7. CASE LimitTarget
  <2>1. SUFFICES ASSUME GoOn("publish", [obs |-> job.obs, plan |-> job.plan, ver |-> job.ver])
                 PROVE  WriteInv'
    BY Zenon, <1>2, <1>7, StageSteps DEF LimitTarget, Done, Fail
  <2>2. /\ Writing /\ stage' # "cas" /\ published' = published
        /\ job'.obs = job.obs /\ job'.plan = job.plan /\ job'.ver = job.ver
    BY <1>7, <2>1 DEF GoOn, LimitTarget, Writing
  <2> QED
    BY SMTT(30), <1>1, <2>2 DEF WriteInv
<1>8. CASE Publish
  <2> DEFINE msg == [payload |-> job.obs.payload, ver |-> job.ver, act |-> job.plan.act]
  <2>1. stage' = "idle" /\ published' \subseteq published \cup {msg}
    BY Zenon, <1>8, StageSteps DEF Publish, Done, Fail
  <2>2. Writing /\ stage # "idle"
    BY <1>8 DEF Publish, Writing
  <2>3. msg.ver = job.ver /\ msg.payload = job.obs.payload /\ msg.act = job.plan.act
    BY SMTT(30)
  <2>4. job.ver \in 1..Len(log) /\ log[job.ver].payload = job.obs.payload
        /\ log[job.ver].act = job.plan.act
    BY <2>2 DEF WriteInv
  <2>5. MessageAt(job.ver) # 0
    <3>1. MessageAt(job.ver) = Message
      BY <2>4 DEF MessageAt, Message
    <3>2. Message \in Messages
      BY SMTT(30), <2>2 DEF ConsumerInv, QueueInv, JobInv
    <3> QED
      BY <3>1, <3>2, MessagesAreNumbers
  <2> HIDE DEF msg
  <2>6. \A p \in published \cup {msg} :
          /\ p.ver \in 1..Len(log) /\ MessageAt(p.ver) # 0
          /\ log[p.ver].payload = p.payload /\ log[p.ver].act = p.act
    BY <2>3, <2>4, <2>5 DEF WriteInv
  <2> QED
    BY SMTT(30), <1>1, <2>1, <2>6 DEF WriteInv, Writing
<1>9. CASE Commit
  BY <1>9, ObserveFacts DEF Commit, ConsumerInv, JobInv, vars
<1>10. CASE Poll \/ DeadLetter \/ Respond \/ Cut \/ HttpRequest \/ UNCHANGED sqsVars
  BY <1>2, <1>3, <1>10 DEF Poll, DeadLetter, Respond, Cut, HttpRequest, sqsVars
<1> QED
  BY <1>4, <1>5, <1>6, <1>7, <1>8, <1>9, <1>10 DEF SqsNext, Consume

\* A write leaves the versions that others work on or have published in place,
\* and the record in work publishes the version that it wrote.
LEMMA WriteExtended ==
  ASSUME ConsumerInv, WriteInv, Inv, NEW o \in Observations, Observe(o),
         \/ HttpRequest
         \/ Commit /\ o = job.obs
  PROVE  WriteInv'
<1>n. PICK n : n = Len(log) + 1
  BY SMTT(30)
<1>1. /\ Len(log') = n /\ Len(log) \in Nat /\ log'[n] = Entry(o, Evaluate(edge, o))
      /\ \A i \in 1..Len(log) : log'[i] = log[i]
  BY <1>n, ObserveFacts
<1>2. \A i \in 1..Len(log) : i \in 1..Len(log') /\ MessageAt(i)' = MessageAt(i)
  BY <1>1, <1>n DEF MessageAt
<1>3. published' = published
  BY DEF HttpRequest, Commit
<1>4. \A msg \in published' :
        /\ msg.ver \in 1..Len(log') /\ (MessageAt(msg.ver) # 0)'
        /\ log'[msg.ver].payload = msg.payload /\ log'[msg.ver].act = msg.act
  BY SMTT(30), <1>1, <1>2, <1>3 DEF WriteInv
<1>5. CASE HttpRequest
  <2>1. stage' = stage /\ job' = job
    BY <1>5 DEF HttpRequest
  <2>2. stage' = "cas" => job'.ver \in 0..Len(log') /\ job'.ver # Len(log')
    BY SMTT(30), <1>1, <1>n, <2>1 DEF WriteInv
  <2>3. Writing' =>
          /\ job'.ver \in 1..Len(log')
          /\ log'[job'.ver].payload = job'.obs.payload /\ log'[job'.ver].act = job'.plan.act
    BY SMTT(30), <1>1, <1>2, <2>1 DEF WriteInv, Writing
  <2> QED
    BY <1>4, <2>2, <2>3 DEF WriteInv
<1>6. CASE Commit /\ o = job.obs
  <2>1. CASE Done(Message) \/ Fail(Message)
    BY SMTT(30), <1>4, <2>1 DEF Done, Fail, WriteInv, Writing
  <2>2. CASE GoOn("target", [obs |-> job.obs, plan |-> job.plan, ver |-> job.ver + 1])
    <3>1. stage' = "target" /\ job'.obs = job.obs /\ job'.plan = job.plan /\ job'.ver = job.ver + 1
      BY <2>2 DEF GoOn
    <3>2. job.ver = Len(log) /\ job.plan = Evaluate(edge, o)
      BY SMTT(30), <1>6 DEF Commit, WriteInv
    <3>3. job'.ver = n /\ n \in 1..Len(log')
      BY <1>1, <1>n, <3>1, <3>2
    <3>4. \A plan : Entry(o, plan).payload = o.payload /\ Entry(o, plan).act = plan.act
      BY SMTT(30) DEF Entry
    <3>5. log'[job'.ver].payload = job'.obs.payload /\ log'[job'.ver].act = job'.plan.act
      BY <1>1, <1>6, <3>1, <3>2, <3>3, <3>4
    <3> QED
      BY <1>4, <3>1, <3>3, <3>5 DEF WriteInv
  <2> QED
    BY SMTT(30), <1>6, <2>1, <2>2, StageSteps
<1> QED
  BY <1>5, <1>6

LEMMA LogStep ==
  ASSUME ConsumerInv, OrderInv, WriteInv, Inv, [SqsNext]_sqsVars
  PROVE  OrderInv' /\ WriteInv'
<1>1. CASE UNCHANGED vars
  BY <1>1, OrderKept, WriteKept
<1>2. CASE HttpRequest
  <2>1. PICK o \in Observations : o.payload \in Http /\ Observe(o)
    BY <1>2 DEF HttpRequest
  <2> QED
    BY <1>2, <2>1, OrderExtended, WriteExtended DEF SqsNext
<1>3. CASE Commit
  <2>1. job.obs \in Observations /\ Observe(job.obs)
    BY <1>3 DEF Commit, ConsumerInv, JobInv
  <2>2. PICK o \in Observations : o = job.obs /\ Observe(o)
    BY <2>1
  <2> QED
    BY <1>3, <2>2, OrderExtended, WriteExtended DEF SqsNext, Consume
<1>4. CASE Poll \/ DeadLetter \/ Respond \/ Cut \/ UNCHANGED sqsVars
  BY <1>1, <1>4 DEF Poll, DeadLetter, Respond, Cut, sqsVars
<1>5. CASE Begin \/ LoadRow \/ NotCommitted \/ LimitTarget \/ Publish
  BY <1>1, <1>5 DEF Begin, LoadRow, NotCommitted, LimitTarget, Publish
<1> QED
  BY <1>2, <1>3, <1>4, <1>5 DEF SqsNext, Consume

LEMMA LogInvariance == SqsSpec => [](ConsumerInv /\ Inv /\ OrderInv /\ WriteInv)
<1>1. SqsInit => OrderInv /\ WriteInv
  BY DEF SqsInit, Init, OrderInv, WriteInv, Writing
<1>2. SqsSpec => []Inv
  BY ConsumerImplements, Invariance, PTL
<1> QED
  BY <1>1, <1>2, ConsumerInvariance, LogStep, PTL DEF SqsSpec

\* The queue, the invocation and the row stay well-formed for every batch size
\* and number of deliveries: HandleSQSEvent works on a run of messages from the
\* head of the queue, in their order.
THEOREM SqsTypeCorrect == SqsSpec => []SqsTypeOK
<1>1. ConsumerInv /\ Inv => SqsTypeOK
  BY DEF ConsumerInv, QueueInv, JobInv, Inv, SqsTypeOK
<1> QED
  BY <1>1, LogInvariance, PTL

\* SQS deletes a message only after processMessage returned nil for it, in any
\* invocation, whatever failed or was cut short beside it.
THEOREM OnlyHandledIsDeleted == SqsSpec => []DeletedWasHandled
<1>1. ConsumerInv => DeletedWasHandled
  BY DEF ConsumerInv, QueueInv, DeletedWasHandled
<1> QED
  BY <1>1, LogInvariance, PTL

\* The row takes the values of a message group in the order of sending, except
\* those of messages that processMessage failed on or that were cut short: the
\* loop of HandleSQSEvent, which goes on after a failure, is the only source of
\* disorder.
THEOREM WrittenInOrder == SqsSpec => []OutOfOrderHadFailed
<1>1. ConsumerInv /\ Inv /\ OrderInv => OutOfOrderHadFailed
  <2> SUFFICES ASSUME ConsumerInv, Inv, OrderInv, NEW i \in DOMAIN log, NEW j \in DOMAIN log,
                      i < j, 0 < MessageAt(j), MessageAt(j) < MessageAt(i)
               PROVE  MessageAt(j) \in failed
    BY DEF OutOfOrderHadFailed
  <2>1. i \in 1..Len(log) /\ j \in 1..Len(log)
    BY DEF Inv, TypeOK
  <2>2. MessageAt(i) \in Messages \cup {0} /\ MessageAt(j) \in Messages \cup {0}
    BY <2>1 DEF OrderInv
  <2>3. \A m \in Messages \cup {0} : m \in Nat
    BY MessagesAreNumbers
  <2>4. MessageAt(j) # 0 /\ MessageAt(j) <= MessageAt(i)
    BY <2>2, <2>3
  <2> QED
    BY <2>1, <2>4 DEF OrderInv
<1> QED
  BY <1>1, LogInvariance, PTL

\* What is published as an edge or an aggregate is a version of the row, and the
\* delivery that wrote it publishes it: EvaluateEdgeAndFlap answers a lost race
\* with no action to notify.
THEOREM DeliveryPublishesItsOwn == SqsSpec => []PublishedByItsDelivery
<1>1. WriteInv => PublishedByItsDelivery
  BY DEF WriteInv, PublishedByItsDelivery
<1> QED
  BY <1>1, LogInvariance, PTL

\* A message is published twice only if a delivery of it failed or was cut short
\* and another value was written before the later one: consecutive versions of
\* the row differ in their value, so a redelivery that finds its own value stays
\* silent.
THEOREM RedeliveryStaysSilent == SqsSpec => []RepublishedAfterAnother
<1>1. Inv /\ OrderInv /\ WriteInv => RepublishedAfterAnother
  <2> SUFFICES ASSUME Inv, OrderInv, WriteInv, NEW a \in published, NEW b \in published,
                      a.payload[1] = b.payload[1], a.ver < b.ver
               PROVE  /\ a.payload[1] \in failed
                      /\ \E k \in a.ver..b.ver : log[k].val # Field[a.payload[1]]
    BY DEF RepublishedAfterAnother
  <2>1. /\ a.ver \in 1..Len(log) /\ MessageAt(a.ver) = a.payload[1]
        /\ b.ver \in 1..Len(log) /\ MessageAt(b.ver) = b.payload[1] /\ MessageAt(b.ver) # 0
    BY DEF WriteInv, MessageAt
  <2>2. MessageAt(b.ver) \in Messages \cup {0} /\ log[b.ver].val = Field[MessageAt(b.ver)]
    BY <2>1 DEF OrderInv
  <2>3. \A m \in Messages \cup {0} : m \in Nat
    BY MessagesAreNumbers
  <2>4. MessageAt(b.ver) <= MessageAt(a.ver)
    BY <2>1, <2>2, <2>3
  <2>5. a.payload[1] \in failed
    BY <2>1, <2>4 DEF OrderInv
  <2>6. Len(log) \in Nat
    BY DEF Inv, TypeOK
  <2>7. b.ver \in 2..Len(log) /\ b.ver - 1 \in a.ver..b.ver
    BY <2>1, <2>6
  <2>8. log[b.ver - 1].val # log[b.ver].val
    BY <2>7 DEF OrderInv
  <2> QED
    BY <2>1, <2>2, <2>5, <2>7, <2>8
<1> QED
  BY <1>1, LogInvariance, PTL
=============================================================================
