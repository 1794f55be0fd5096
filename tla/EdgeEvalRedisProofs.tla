------------------------ MODULE EdgeEvalRedisProofs ------------------------
(***************************************************************************)
(* Requests racing over the Redis store, for any number of requests: the   *)
(* row stays whole, and as long as no two requests have overlapped they    *)
(* implement the atomic detector and announce what they committed.         *)
(***************************************************************************)
EXTENDS EdgeEvalProofs, EdgeEvalSerial
-----------------------------------------------------------------------------
(***************************************************************************)
(* Redis, whatever overlaps: every copy of the row is the product of whole *)
(* evaluations.                                                            *)
(***************************************************************************)
CopyOK(r) ==
  /\ r.edge = Nil <=> r.ver = 0
  /\ r.edge # Nil => Chained(r.edge)

Copies == CopyOK(row) /\ \A p \in Proc : CopyOK(loaded[p])

\* A request handles, and the history names, only notifications that arrived.
Arrivals ==
  /\ \A p \in Proc : pc[p] # "idle" => req[p].payload \in arrived
  /\ \A i \in 1..Len(history) : history[i].payload \in arrived

RowInv == EvalTypeOK /\ Copies /\ Arrivals /\ RowIsWhole

\* What a plan makes of a sound copy of the row: a chain of flips that, unless
\* an aggregate has emptied it, ends in the observed change.
LEMMA PlanChains ==
  ASSUME EvalTypeOK, NEW p \in Proc, pc[p] # "idle", CopyOK(loaded[p])
  PROVE  LET next == PlanOf(p).next
             rs   == next.Recent
         IN  /\ Chained(next)
             /\ next.LastValue = req[p].val
             /\ loaded[p].edge # Nil /\ PlanOf(p).act # "AggregateSent" =>
                  /\ Len(rs) > 0 /\ rs[Len(rs)].To = next.LastValue
                  /\ rs[Len(rs)].At = next.LastChangeTS
<1>1. req[p] \in Observation /\ loaded[p].edge \in Edge \cup {Nil}
  BY RequestTyped DEF EvalTypeOK, Stored
<1>2. CASE loaded[p].edge = Nil
  <2>1. PlanOf(p) = FirstObservation(req[p])
    BY <1>2 DEF PlanOf, Evaluate
  <2>2. PlanOf(p).next.Recent = <<>> /\ PlanOf(p).next.LastValue = req[p].val
    BY SMTT(30), <2>1 DEF FirstObservation, Plan
  <2> QED
    BY <1>2, <2>2 DEF Chained
<1>3. CASE loaded[p].edge # Nil
  <2>1. loaded[p].edge \in Edge /\ Chained(loaded[p].edge)
    BY <1>1, <1>3 DEF CopyOK
  <2>2. Evaluate(loaded[p].edge, req[p]).next.LastValue = req[p].val
    BY <1>1, <2>1, EvaluateIsTransition DEF Transition
  <2> QED
    BY <1>1, <2>1, <2>2, EvaluateChains DEF PlanOf
<1> QED
  BY <1>2, <1>3

\* A write leaves a whole row, whichever row it replaces.
LEMMA WriteWhole ==
  ASSUME RowInv, NEW p \in Proc, pc[p] # "idle", Write(p)
  PROVE  /\ row' \in Stored /\ history' \in Seq(LogEntry)
         /\ CopyOK(row') /\ RowIsWhole'
         /\ \A i \in 1..Len(history') : history'[i].payload \in arrived
<1> DEFINE n == PlanOf(p).next
           h == Entry(req[p], PlanOf(p))
<1>1. /\ n \in Edge /\ n # Nil /\ h \in LogEntry
      /\ loaded[p].ver \in Nat /\ Len(history) \in Nat /\ history \in Seq(LogEntry)
  BY PlanTyped, SeqFacts, EdgeFlapAssumption DEF RowInv, EvalTypeOK, Stored
<1>2. /\ h.payload = req[p].payload /\ h.val = req[p].val /\ h.act = PlanOf(p).act
      /\ h.flips = n.FlipCount /\ req[p].payload \in arrived
  BY DEF Entry, RowInv, Arrivals
<1>3. /\ Chained(n) /\ n.LastValue = req[p].val
      /\ loaded[p].edge # Nil /\ PlanOf(p).act # "AggregateSent" =>
           /\ Len(n.Recent) > 0 /\ n.Recent[Len(n.Recent)].To = n.LastValue
           /\ n.Recent[Len(n.Recent)].At = n.LastChangeTS
  BY PlanChains DEF RowInv, Copies
<1>4. /\ row' = [edge |-> n, ver |-> loaded[p].ver + 1]
      /\ history' = IF row' = row THEN history ELSE Append(history, h)
  BY DEF Write, NewRow
<1>5. loaded[p].edge = Nil <=> loaded[p].ver = 0
  BY DEF RowInv, Copies, CopyOK
<1> HIDE DEF n, h
<1>6. row'.edge = n /\ row'.ver = loaded[p].ver + 1 /\ row' \in Stored
  BY <1>1, <1>4 DEF Stored
<1>7. CopyOK(row')
  BY <1>1, <1>3, <1>6 DEF CopyOK
<1>8. CASE row' = row
  <2>1. history' = history
    BY <1>4, <1>8
  <2> QED
    BY SMTT(30), <1>1, <1>6, <1>7, <1>8, <2>1 DEF RowInv, RowIsWhole, Arrivals
<1>9. CASE row' # row
  <2>1. /\ history' \in Seq(LogEntry) /\ Len(history') = Len(history) + 1
        /\ history'[Len(history')] = h
        /\ \A i \in 1..Len(history) : history'[i] = history[i]
    BY SMTT(30), <1>1, <1>4, <1>9, AppendFacts
  <2>2. RowIsWhole'
    BY <1>1, <1>2, <1>3, <1>5, <1>6, <2>1 DEF RowIsWhole, Chained
  <2>3. \A i \in 1..Len(history') : history'[i].payload \in arrived
    BY <1>1, <1>2, <2>1 DEF RowInv, Arrivals
  <2> QED
    BY <1>6, <1>7, <2>1, <2>2, <2>3
<1> QED
  BY <1>8, <1>9

\* What a step may do to the row and its history: a write, or nothing.
Grown ==
  /\ row' \in Stored /\ history' \in Seq(LogEntry)
  /\ CopyOK(row') /\ RowIsWhole'
  /\ \A i \in 1..Len(history') : history'[i].payload \in arrived

\* Nothing happens to the row.
LEMMA NotWritten ==
  ASSUME RowInv, row' = row, history' = history
  PROVE  Grown
<1>1. RowIsWhole'
  BY DEF RowInv, RowIsWhole
<1> QED
  BY <1>1 DEF RowInv, Grown, EvalTypeOK, Copies, Arrivals

\* The steps of a request under way: it moves on, with or without an answer,
\* keeps its observation and holds the copy it had or a new one.
LEMMA MoveStep ==
  ASSUME RowInv, Grown, NEW p \in Proc, pc[p] # "idle",
         NEW s \in {"cas", "write", "done"}, pc' = [pc EXCEPT ![p] = s],
         res' \in [Proc -> Answers], loaded' \in [Proc -> Stored],
         \A q \in Proc : loaded'[q] \in {loaded[q], row},
         UNCHANGED <<clock, arrived, req, announced>>
  PROVE  RowInv'
<1>1. clock' = clock /\ arrived' = arrived /\ req' = req /\ announced' = announced
  OBVIOUS
<1>2. pc'[p] # "idle" /\ \A q \in Proc : q # p => pc'[q] = pc[q]
  BY DEF RowInv, EvalTypeOK
<1>3. EvalTypeOK'
  <2>1. pc' \in [Proc -> {"idle", "load", "cas", "write", "done"}]
    BY DEF RowInv, EvalTypeOK
  <2>2. \A q \in Proc : req'[q] \in (IF pc'[q] = "idle" THEN {NoRequest} ELSE Request)
    BY <1>1, <1>2 DEF RowInv, EvalTypeOK
  <2> QED
    BY <1>1, <2>1, <2>2 DEF RowInv, EvalTypeOK, Grown
<1>4. Copies'
  <2>1. \A q \in Proc : CopyOK(loaded'[q])
    BY DEF RowInv, Copies
  <2> QED
    BY <2>1 DEF Copies, Grown, CopyOK
<1>5. Arrivals'
  BY <1>1, <1>2 DEF RowInv, Arrivals, Grown
<1> QED
  BY <1>3, <1>4, <1>5 DEF RowInv, Grown

\* The same, with an answer.
LEMMA FinishStep ==
  ASSUME RowInv, Grown, NEW p \in Proc, pc[p] # "idle", NEW a \in Answers, Finish(p, a),
         loaded' \in [Proc -> Stored], \A q \in Proc : loaded'[q] \in {loaded[q], row},
         UNCHANGED <<clock, arrived, req, announced>>
  PROVE  RowInv'
<1>1. res' \in [Proc -> Answers] /\ pc' = [pc EXCEPT ![p] = "done"]
  BY DEF Finish, RowInv, EvalTypeOK
<1> QED
  BY Zenon, <1>1, MoveStep

\* The answers of a write that committed, lost its race or failed.
LEMMA AnswersTyped ==
  ASSUME EvalTypeOK, NEW p \in Proc, pc[p] # "idle"
  PROVE  /\ NoAnswer \in Answers /\ Answer("NoOp", TRUE, 0, Nil) \in Answers
         /\ Answer(PlanOf(p).act, FALSE, loaded[p].ver + 1, PlanOf(p).agg) \in Answers
         /\ Answer(PlanOf(p).onRace, FALSE, 0, Nil) \in Answers
         /\ (IF PlanOf(p).onFail = "error" THEN Answer("NoOp", TRUE, 0, Nil)
                                           ELSE Answer(PlanOf(p).onFail, FALSE, 0, Nil)) \in Answers
<1> DEFINE plan == PlanOf(p)
<1>1. /\ plan.act \in Notifying \cup {"SuppressFlapping"}
      /\ plan.agg \in Aggregate \cup {Nil}
      /\ plan.onRace \in {"SuppressFlapping", "NoOp"}
      /\ plan.onFail \in {"SuppressFlapping", "error"}
  BY PlanTyped
<1>2. loaded[p].ver + 1 \in Nat
  BY DEF EvalTypeOK, Stored
<1> HIDE DEF plan
<1>3. ASSUME NEW act \in Notifying \cup {"SuppressFlapping", "NoOp"}, NEW err \in BOOLEAN,
             NEW ver \in Nat, NEW agg \in Aggregate \cup {Nil}
      PROVE  Answer(act, err, ver, agg) \in Answers
  BY DEF Answer, Answers
<1> QED
  BY Zenon, <1>1, <1>2, <1>3 DEF NoAnswer, plan

\* A request that is over, told to notify or not.
LEMMA OverStep ==
  ASSUME RowInv, NEW p \in Proc, pc[p] # "idle", Forget(p),
         announced' \subseteq [payload : Payloads, ver : Nat, act : Notifying],
         UNCHANGED <<clock, arrived, row, history>>
  PROVE  RowInv'
<1>1. /\ clock' = clock /\ arrived' = arrived /\ row' = row /\ history' = history
      /\ pc' = [pc EXCEPT ![p] = "idle"] /\ req' = [req EXCEPT ![p] = NoRequest]
      /\ loaded' = [loaded EXCEPT ![p] = NoRow] /\ res' = [res EXCEPT ![p] = NoAnswer]
  BY DEF Forget
<1>2. /\ pc'[p] = "idle" /\ req'[p] = NoRequest /\ loaded'[p] = NoRow
      /\ \A q \in Proc : q # p => pc'[q] = pc[q] /\ req'[q] = req[q] /\ loaded'[q] = loaded[q]
  BY <1>1 DEF RowInv, EvalTypeOK
<1>3. EvalTypeOK'
  <2>1. pc' \in [Proc -> {"idle", "load", "cas", "write", "done"}]
    BY <1>1 DEF RowInv, EvalTypeOK
  <2>2. req' \in [Proc -> Request \cup {NoRequest}]
    BY <1>1 DEF RowInv, EvalTypeOK
  <2>3. \A q \in Proc : req'[q] \in (IF pc'[q] = "idle" THEN {NoRequest} ELSE Request)
    BY <1>2 DEF RowInv, EvalTypeOK
  <2>4. loaded' \in [Proc -> Stored]
    BY <1>1 DEF RowInv, EvalTypeOK, NoRow, Stored
  <2>5. res' \in [Proc -> Answers]
    BY Zenon, <1>1, AnswersTyped DEF RowInv, EvalTypeOK
  <2> QED
    BY SMTT(30), <1>1, <2>1, <2>2, <2>3, <2>4, <2>5 DEF RowInv, EvalTypeOK
<1>4. Copies'
  <2>1. CopyOK(NoRow)
    BY DEF CopyOK, NoRow
  <2>2. CopyOK(row') /\ \A q \in Proc : CopyOK(loaded'[q])
    BY <1>1, <1>2, <2>1 DEF RowInv, Copies
  <2> QED
    BY <2>2 DEF Copies, CopyOK
<1>5. Arrivals' /\ RowIsWhole'
  BY <1>1, <1>2 DEF RowInv, Arrivals, RowIsWhole
<1> QED
  BY <1>3, <1>4, <1>5 DEF RowInv

\* A request begins.
LEMMA BeginRow ==
  ASSUME RowInv, NEW p \in Proc, NEW n \in Payloads \ arrived, NEW v \in Values,
         NEW f \in FlapConfigs, BeginWith(p, n, v, f)
  PROVE  RowInv'
<1> DEFINE r == [payload |-> n, val |-> v, now |-> clock, f |-> f]
<1>1. /\ pc[p] = "idle" /\ arrived' = arrived \cup {n} /\ clock' = clock
      /\ req' = [req EXCEPT ![p] = r] /\ pc' = [pc EXCEPT ![p] = "load"]
      /\ row' = row /\ history' = history /\ loaded' = loaded /\ res' = res
      /\ announced' = announced
  BY DEF BeginWith
<1>2. r \in Request /\ r.payload = n
  BY DEF RowInv, EvalTypeOK, Request
<1> HIDE DEF r
<1>3. /\ pc'[p] = "load" /\ req'[p] = r
      /\ \A q \in Proc : q # p => pc'[q] = pc[q] /\ req'[q] = req[q]
  BY <1>1 DEF RowInv, EvalTypeOK
<1>4. EvalTypeOK'
  <2>1. pc' \in [Proc -> {"idle", "load", "cas", "write", "done"}]
    BY <1>1 DEF RowInv, EvalTypeOK
  <2>2. req' \in [Proc -> Request \cup {NoRequest}]
    BY <1>1, <1>2 DEF RowInv, EvalTypeOK
  <2>3. \A q \in Proc : req'[q] \in (IF pc'[q] = "idle" THEN {NoRequest} ELSE Request)
    BY <1>2, <1>3 DEF RowInv, EvalTypeOK
  <2> QED
    BY <1>1, <2>1, <2>2, <2>3 DEF RowInv, EvalTypeOK
<1>5. Copies'
  BY <1>1 DEF RowInv, Copies, CopyOK
<1>6. Arrivals'
  BY <1>1, <1>2, <1>3 DEF RowInv, Arrivals
<1>7. RowIsWhole'
  BY <1>1 DEF RowInv, RowIsWhole
<1> QED
  BY <1>4, <1>5, <1>6, <1>7 DEF RowInv

\* Load takes a copy of the row, and may answer at once.
LEMMA LoadRow ==
  ASSUME RowInv, NEW p \in Proc, Load(p)
  PROVE  RowInv'
<1>1. /\ pc[p] = "load" /\ loaded' = [loaded EXCEPT ![p] = row]
      /\ row' = row /\ history' = history
      /\ UNCHANGED <<clock, arrived, req, announced>>
  BY DEF Load
<1>2. loaded' \in [Proc -> Stored] /\ \A q \in Proc : loaded'[q] \in {loaded[q], row}
  BY <1>1 DEF RowInv, EvalTypeOK
<1>3. Grown
  BY <1>1, NotWritten
<1>4. CASE Stable(row.edge, req[p])
  <2>1. Finish(p, NoAnswer)
    BY <1>4 DEF Load
  <2> QED
    BY Zenon, <1>1, <1>2, <1>3, <2>1, FinishStep, AnswersTyped DEF RowInv
<1>5. CASE ~Stable(row.edge, req[p])
  <2>1. pc' = [pc EXCEPT ![p] = "cas"] /\ res' \in [Proc -> Answers]
    BY <1>5 DEF Load, RowInv, EvalTypeOK
  <2> QED
    BY Zenon, <1>1, <1>2, <1>3, <2>1, MoveStep
<1> QED
  BY <1>4, <1>5

\* The caller takes the answer.
LEMMA ReturnRow ==
  ASSUME RowInv, NEW p \in Proc, Return(p)
  PROVE  RowInv'
<1>1. /\ pc[p] = "done" /\ Forget(p) /\ UNCHANGED <<clock, arrived, row, history>>
      /\ announced' = IF ~res[p].err /\ res[p].act \in Notifying
                      THEN announced \cup {Announcement(p)} ELSE announced
  BY Zenon DEF Return
<1>2. req[p].payload \in Payloads
  BY <1>1 DEF RowInv, EvalTypeOK, Request
<1>3. res[p].ver \in Nat
  BY DEF RowInv, EvalTypeOK, Answers
<1>4. res[p].act \in Notifying =>
        Announcement(p) \in [payload : Payloads, ver : Nat, act : Notifying]
  BY <1>2, <1>3 DEF Announcement
<1>5. announced' \subseteq [payload : Payloads, ver : Nat, act : Notifying]
  BY <1>1, <1>4 DEF RowInv, EvalTypeOK
<1> QED
  BY <1>1, <1>5, OverStep

\* A command that wrote the row, whether or not its reply came.
LEMMA WriteRow ==
  ASSUME RowInv, NEW p \in Proc, Writing(p), Write(p),
         Won(p) \/ Failed(p) \/ UNCHANGED <<pc, res>>,
         UNCHANGED <<clock, arrived, req, loaded, announced>>
  PROVE  RowInv'
<1>1. pc[p] \in {"cas", "write"} /\ pc[p] # "idle"
  BY DEF Writing
<1>2. Grown
  BY <1>1, WriteWhole DEF Grown
<1>3. loaded' \in [Proc -> Stored] /\ \A q \in Proc : loaded'[q] \in {loaded[q], row}
  BY DEF RowInv, EvalTypeOK
<1>4. CASE Won(p) \/ Failed(p)
  <2>1. PICK a \in Answers : Finish(p, a)
    BY Zenon, <1>1, <1>4, AnswersTyped DEF RowInv, Won, Failed
  <2> QED
    BY SMTT(30), <1>1, <1>2, <1>3, <2>1, FinishStep
<1>5. CASE UNCHANGED <<pc, res>>
  <2>1. pc' = [pc EXCEPT ![p] = pc[p]] /\ res' \in [Proc -> Answers]
    BY <1>5 DEF RowInv, EvalTypeOK
  <2> QED
    BY Zenon, <1>1, <1>2, <1>3, <2>1, MoveStep
<1> QED
  BY <1>4, <1>5

\* A command that did not.
LEMMA UnwrittenRow ==
  ASSUME RowInv, NEW p \in Proc, LoadFail(p) \/ CheckVersion(p) \/ CommandFail(p)
  PROVE  RowInv'
<1>1. /\ pc[p] # "idle" /\ row' = row /\ history' = history /\ loaded' = loaded
      /\ UNCHANGED <<clock, arrived, req, announced>>
  BY Zenon DEF LoadFail, CheckVersion, CommandFail
<1>2. Grown
  BY <1>1, NotWritten
<1>3. loaded' \in [Proc -> Stored] /\ \A q \in Proc : loaded'[q] \in {loaded[q], row}
  BY <1>1 DEF RowInv, EvalTypeOK
<1>4. \/ \E a \in Answers : Finish(p, a)
      \/ pc' = [pc EXCEPT ![p] = "write"] /\ res' = res
  BY Zenon, <1>1, AnswersTyped DEF RowInv, LoadFail, CheckVersion, Raced, CommandFail, Failed
<1>5. CASE \E a \in Answers : Finish(p, a)
  BY <1>1, <1>2, <1>3, <1>5, FinishStep
<1>6. CASE pc' = [pc EXCEPT ![p] = "write"] /\ res' = res
  <2>1. res' \in [Proc -> Answers]
    BY <1>6 DEF RowInv, EvalTypeOK
  <2> QED
    BY Zenon, <1>1, <1>2, <1>3, <1>6, <2>1, MoveStep
<1> QED
  BY <1>4, <1>5, <1>6

\* The clock is not the row's.
LEMMA ClockRow ==
  ASSUME RowInv, clock' \in 0..MaxTime,
         UNCHANGED <<arrived, row, history, pc, req, loaded, res, announced>>
  PROVE  RowInv'
<1>1. /\ arrived' = arrived /\ row' = row /\ history' = history /\ pc' = pc
      /\ req' = req /\ loaded' = loaded /\ res' = res /\ announced' = announced
  OBVIOUS
<1>2. EvalTypeOK'
  BY <1>1 DEF RowInv, EvalTypeOK
<1>3. Copies' /\ Arrivals'
  BY <1>1 DEF RowInv, Copies, CopyOK, Arrivals
<1>4. RowIsWhole'
  BY <1>1 DEF RowInv, RowIsWhole
<1> QED
  BY <1>2, <1>3, <1>4 DEF RowInv

\* Every step over the Redis store keeps the row whole.
LEMMA RedisStep ==
  ASSUME RowInv, [RedisNext]_vars
  PROVE  RowInv'
<1>1. CASE Tick \/ UNCHANGED vars
  <2>1. clock' \in 0..MaxTime /\ UNCHANGED <<arrived, row, history, pc, req, loaded, res, announced>>
    BY <1>1, EdgeEvalAssumption DEF Tick, vars, RowInv, EvalTypeOK
  <2> QED
    BY <2>1, ClockRow
<1>2. ASSUME NEW p \in Proc, Begin(p)
      PROVE  RowInv'
  BY <1>2, BeginRow DEF Begin
<1>3. ASSUME NEW p \in Proc, Load(p)
      PROVE  RowInv'
  BY <1>3, LoadRow
<1>4. ASSUME NEW p \in Proc, Return(p)
      PROVE  RowInv'
  BY <1>4, ReturnRow
<1>5. ASSUME NEW p \in Proc, Crash(p)
      PROVE  RowInv'
  <2>1. /\ pc[p] # "idle" /\ Forget(p) /\ UNCHANGED <<clock, arrived, row, history>>
        /\ announced' = announced
    BY Zenon, <1>5 DEF Crash
  <2>2. announced' \subseteq [payload : Payloads, ver : Nat, act : Notifying]
    BY <2>1 DEF RowInv, EvalTypeOK
  <2> QED
    BY <2>1, <2>2, OverStep
<1>6. ASSUME NEW p \in Proc, HMSet(p) \/ CommandLost(p)
      PROVE  RowInv'
  <2>1. /\ Writing(p) /\ Write(p)
        /\ Won(p) \/ Failed(p) \/ UNCHANGED <<pc, res>>
        /\ UNCHANGED <<clock, arrived, req, loaded, announced>>
    BY Zenon, <1>6 DEF HMSet, CommandLost
  <2> QED
    BY <2>1, WriteRow
<1>7. ASSUME NEW p \in Proc, LoadFail(p) \/ CheckVersion(p) \/ CommandFail(p)
      PROVE  RowInv'
  BY <1>7, UnwrittenRow
<1> QED
  BY Zenon, <1>1, <1>2, <1>3, <1>4, <1>5, <1>6, <1>7 DEF RedisNext, Step

\* For any number of requests racing over the Redis store the copies of the row
\* stay what whole evaluations made of it,
THEOREM RowInvariance == RedisSpec => []RowInv
<1>1. Init => RowInv
  <2> SUFFICES ASSUME Init PROVE RowInv
    OBVIOUS
  <2>1. /\ row = NoRow /\ history = <<>> /\ arrived = {} /\ announced = {} /\ clock = 0
        /\ \A p \in Proc : pc[p] = "idle" /\ req[p] = NoRequest /\ loaded[p] = NoRow
    BY DEF Init
  <2>2. NoRow \in Stored /\ NoAnswer \in Answers /\ CopyOK(NoRow) /\ NoRow.edge = Nil
    BY DEF NoRow, Stored, NoAnswer, Answer, Answers, CopyOK
  <2>3. EvalTypeOK
    BY <2>1, <2>2, EdgeEvalAssumption DEF Init, EvalTypeOK
  <2>4. Copies /\ Arrivals /\ RowIsWhole
    BY <2>1, <2>2 DEF Copies, Arrivals, RowIsWhole
  <2> QED
    BY <2>3, <2>4 DEF RowInv
<1> QED
  BY <1>1, RedisStep, PTL DEF RedisSpec

\* so everything they store, hold and answer is well typed
THEOREM RedisRequestsTyped == RedisSpec => []EvalTypeOK
<1>1. RowInv => EvalTypeOK
  BY DEF RowInv
<1> QED
  BY <1>1, RowInvariance, PTL

\* and the row is its last writer's, never a mixture of two, although HMGET and
\* HMSET are two commands and others come between them.
THEOREM RowStaysWhole == RedisSpec => []RowIsWhole
<1>1. RowInv => RowIsWhole
  BY SMTT(30) DEF RowInv
<1> QED
  BY <1>1, RowInvariance, PTL

-----------------------------------------------------------------------------
(***************************************************************************)
(* Redis, as long as no two requests have overlapped: a request that is    *)
(* about to write holds the row itself, or the row is what it has already  *)
(* written and a retry writes again.                                       *)
(***************************************************************************)
WritesRow(p) ==
  /\ ~Stable(loaded[p].edge, req[p])
  /\ \/ loaded[p] = row /\ ~Logged(req[p].payload)
     \/ /\ row = NewRow(p) /\ Len(history) > 0
        /\ history[Len(history)] = Entry(req[p], PlanOf(p))

NoOverlap ==
  /\ OneAtATime
  /\ row.ver = Len(history)
  /\ \A p \in Proc : pc[p] = "load" => ~Logged(req[p].payload)
  /\ \A p \in Proc : pc[p] \in {"cas", "write"} => WritesRow(p)
  /\ AnswersCommitted /\ AnnouncedIsCommitted

\* The write of a request that is alone replaces the row it was decided from or
\* repeats the last write, and makes the newest version the request's own.
LEMMA WriteAlone ==
  ASSUME RowInv, NoOverlap, NEW p \in Proc, pc[p] \in {"cas", "write"}, Write(p)
  PROVE  /\ \/ /\ loaded[p] = row
               /\ ~Logged(req[p].payload) /\ ~Stable(row.edge, req[p])
               /\ history' = Append(history, Entry(req[p], PlanOf(p)))
            \/ row' = row /\ history' = history
         /\ row' = NewRow(p) /\ row'.ver = loaded[p].ver + 1
         /\ Len(history') \in Nat \ {0} /\ row'.ver = Len(history')
         /\ history'[Len(history')] = Entry(req[p], PlanOf(p))
         /\ Len(history) \in Nat /\ Len(history) <= Len(history')
         /\ \A i \in 1..Len(history) : history'[i] = history[i]
<1>1. /\ row' = NewRow(p)
      /\ history' = IF row' = row THEN history
                    ELSE Append(history, Entry(req[p], PlanOf(p)))
  BY DEF Write
<1>2. row'.ver = loaded[p].ver + 1
  BY <1>1 DEF NewRow
<1>3. /\ Entry(req[p], PlanOf(p)) \in LogEntry /\ history \in Seq(LogEntry)
      /\ Len(history) \in Nat /\ row.ver = Len(history) /\ EvalTypeOK
  BY SMTT(30), PlanTyped, SeqFacts DEF RowInv, EvalTypeOK, NoOverlap
<1>4. CASE loaded[p] = row /\ ~Logged(req[p].payload)
  <2>1. row' # row
    BY <1>2, <1>3, <1>4
  <2>2. history' = Append(history, Entry(req[p], PlanOf(p)))
    BY <1>1, <2>1
  <2>3. /\ Len(history') = Len(history) + 1
        /\ history'[Len(history) + 1] = Entry(req[p], PlanOf(p))
        /\ \A i \in 1..Len(history) : history'[i] = history[i]
    BY <1>3, <2>2, AppendFacts
  <2>4. ~Stable(row.edge, req[p])
    BY <1>4 DEF NoOverlap, WritesRow
  <2> QED
    BY SMTT(30), <1>1, <1>2, <1>3, <1>4, <2>2, <2>3, <2>4
<1>5. CASE /\ row = NewRow(p) /\ Len(history) > 0
           /\ history[Len(history)] = Entry(req[p], PlanOf(p))
  <2>1. row' = row /\ history' = history
    BY <1>1, <1>5
  <2> QED
    BY SMTT(30), <1>1, <1>2, <1>3, <1>5, <2>1
<1> QED
  BY <1>4, <1>5 DEF NoOverlap, WritesRow

\* What is committed stays so while the history only grows.
LEMMA CommittedGrows ==
  ASSUME Len(history) \in Nat, Len(history') \in Nat, Len(history) <= Len(history'),
         \A i \in 1..Len(history) : history'[i] = history[i],
         AnnouncedIsCommitted, announced' = announced
  PROVE  AnnouncedIsCommitted'
BY DEF AnnouncedIsCommitted

\* While p acts alone nobody else is under way.
LEMMA OthersIdle ==
  ASSUME EvalTypeOK, OneAtATime, NEW p \in Proc, pc[p] # "idle", NEW s,
         pc' = [pc EXCEPT ![p] = s]
  PROVE  /\ pc'[p] = s
         /\ \A q \in Proc : q # p => pc'[q] = "idle"
         /\ OneAtATime'
BY DEF EvalTypeOK, OneAtATime

\* A request begins.
LEMMA BeginAlone ==
  ASSUME RowInv, NoOverlap, OneAtATime', NEW p \in Proc, Begin(p)
  PROVE  NoOverlap'
<1>1. PICK n \in Payloads \ arrived, v \in Values, f \in FlapConfigs : BeginWith(p, n, v, f)
  BY DEF Begin
<1> DEFINE r == [payload |-> n, val |-> v, now |-> clock, f |-> f]
<1>2. /\ req' = [req EXCEPT ![p] = r] /\ pc' = [pc EXCEPT ![p] = "load"]
      /\ row' = row /\ history' = history /\ announced' = announced
  BY <1>1 DEF BeginWith
<1>3. r.payload = n
  OBVIOUS
<1> HIDE DEF r
<1>4. /\ pc'[p] = "load" /\ req'[p].payload = n
      /\ \A q \in Proc : q # p => pc'[q] = "idle"
  BY <1>2, <1>3 DEF RowInv, EvalTypeOK, OneAtATime
<1>5. ~Logged(n)'
  BY <1>2 DEF RowInv, Arrivals, Logged
<1>6. (\A q \in Proc : pc[q] = "load" => ~Logged(req[q].payload))'
  BY SMTT(30), <1>4, <1>5 DEF Logged
<1>7. AnswersCommitted' /\ AnnouncedIsCommitted' /\ row'.ver = Len(history')
  BY SMTT(30), <1>2, <1>4 DEF NoOverlap, AnswersCommitted, AnnouncedIsCommitted
<1> QED
  BY <1>4, <1>6, <1>7 DEF NoOverlap

\* A request is over; what it makes the caller notify of was committed.
LEMMA OverAlone ==
  ASSUME RowInv, NoOverlap, NEW p \in Proc, Return(p) \/ Crash(p)
  PROVE  NoOverlap'
<1>1. /\ pc[p] # "idle" /\ pc' = [pc EXCEPT ![p] = "idle"]
      /\ row' = row /\ history' = history
      /\ \/ announced' = announced
         \/ /\ pc[p] = "done" /\ Notifies(p)
            /\ announced' = announced \cup {Announcement(p)}
  BY DEF Return, Crash, Forget, Notifies
<1>2. OneAtATime' /\ \A q \in Proc : pc'[q] = "idle"
  BY Zenon, <1>1, OthersIdle DEF RowInv, NoOverlap
<1>3. AnnouncedIsCommitted'
  <2>1. CASE announced' = announced
    BY SMTT(30), <1>1, <2>1 DEF NoOverlap, AnnouncedIsCommitted
  <2>2. CASE /\ pc[p] = "done" /\ Notifies(p)
             /\ announced' = announced \cup {Announcement(p)}
    <3>1. CommittedAs(req[p].payload, res[p].ver, res[p].act)
      BY SMTT(30), <2>2 DEF NoOverlap, AnswersCommitted
    <3> QED
      BY SMTT(30), <1>1, <2>2, <3>1 DEF NoOverlap, AnnouncedIsCommitted, CommittedAs, Announcement
  <2> QED
    BY <1>1, <2>1, <2>2
<1>4. row'.ver = Len(history') /\ AnswersCommitted'
  BY <1>1, <1>2 DEF NoOverlap, AnswersCommitted
<1> QED
  BY <1>2, <1>3, <1>4 DEF NoOverlap

\* An answer that notifies nobody.
LEMMA QuietAlone ==
  ASSUME RowInv, NoOverlap, NEW p \in Proc, pc[p] # "idle", NEW a, Finish(p, a),
         a.err \/ a.act \notin Notifying,
         row' = row, history' = history, announced' = announced
  PROVE  NoOverlap'
<1>1. pc' = [pc EXCEPT ![p] = "done"] /\ res'[p] = a
  BY DEF Finish, RowInv, EvalTypeOK
<1>2. OneAtATime' /\ pc'[p] = "done" /\ \A q \in Proc : q # p => pc'[q] = "idle"
  BY Zenon, <1>1, OthersIdle DEF RowInv, NoOverlap
<1>3. AnswersCommitted'
  BY SMTT(30), <1>1, <1>2 DEF AnswersCommitted, Notifies
<1>4. row'.ver = Len(history') /\ AnnouncedIsCommitted'
  BY DEF NoOverlap, AnnouncedIsCommitted
<1> QED
  BY <1>2, <1>3, <1>4 DEF NoOverlap

\* A write that failed, or lost its race, notifies nobody.
LEMMA FailedQuiet ==
  ASSUME RowInv, NEW p \in Proc, pc[p] # "idle", Failed(p) \/ Raced(p)
  PROVE  \E a : Finish(p, a) /\ (a.err \/ a.act \notin Notifying)
<1>1. /\ PlanOf(p).onRace \in {"SuppressFlapping", "NoOp"}
      /\ PlanOf(p).onFail \in {"SuppressFlapping", "error"}
  BY PlanTyped DEF RowInv
<1>2. ASSUME NEW act \in {"SuppressFlapping", "NoOp"}, NEW err
      PROVE  Answer(act, err, 0, Nil).act \notin Notifying
  BY DEF Answer, Notifying
<1>3. CASE Raced(p)
  BY Zenon, <1>1, <1>2, <1>3 DEF Raced
<1>4. CASE Failed(p)
  BY ZenonT(30), <1>1, <1>2, <1>4 DEF Failed
<1> QED
  BY <1>3, <1>4

\* A step that moves a request towards its write.
LEMMA TowardsWrite ==
  ASSUME RowInv, NoOverlap, NEW p \in Proc, pc[p] # "idle", NEW s \in {"cas", "write"},
         pc' = [pc EXCEPT ![p] = s], WritesRow(p)',
         row'.ver = Len(history'), AnnouncedIsCommitted'
  PROVE  NoOverlap'
<1>1. OneAtATime' /\ pc'[p] = s /\ \A q \in Proc : q # p => pc'[q] = "idle"
  BY Zenon, OthersIdle DEF RowInv, NoOverlap
<1>2. AnswersCommitted'
  BY <1>1 DEF AnswersCommitted
<1>3. (\A q \in Proc : pc[q] \in {"cas", "write"} => WritesRow(q))'
  BY <1>1
<1>4. (\A q \in Proc : pc[q] = "load" => ~Logged(req[q].payload))'
  BY <1>1
<1> QED
  BY <1>1, <1>2, <1>3, <1>4 DEF NoOverlap

\* Load gives a request that is alone the row itself.
LEMMA LoadAlone ==
  ASSUME RowInv, NoOverlap, NEW p \in Proc, Load(p)
  PROVE  NoOverlap'
<1>1. /\ pc[p] = "load" /\ loaded' = [loaded EXCEPT ![p] = row]
      /\ row' = row /\ history' = history /\ req' = req /\ announced' = announced
  BY DEF Load
<1>2. CASE Stable(row.edge, req[p])
  <2>1. Finish(p, NoAnswer)
    BY <1>2 DEF Load
  <2>2. NoAnswer.act \notin Notifying
    BY DEF NoAnswer, Answer, Notifying
  <2> QED
    BY <1>1, <2>1, <2>2, QuietAlone
<1>3. CASE ~Stable(row.edge, req[p])
  <2>1. pc' = [pc EXCEPT ![p] = "cas"]
    BY <1>3 DEF Load
  <2>2. loaded'[p] = row'
    BY <1>1 DEF RowInv, EvalTypeOK
  <2>3. ~Logged(req[p].payload)' /\ ~Stable(loaded[p].edge, req[p])'
    BY <1>1, <1>3, <2>2 DEF NoOverlap, Logged, Stable
  <2>4. WritesRow(p)'
    BY <2>2, <2>3 DEF WritesRow
  <2>5. row'.ver = Len(history') /\ AnnouncedIsCommitted'
    BY <1>1 DEF NoOverlap, AnnouncedIsCommitted
  <2> QED
    BY Zenon, <1>1, <2>1, <2>4, <2>5, TowardsWrite
<1> QED
  BY <1>2, <1>3

\* The version check of a request that is alone.
LEMMA CheckAlone ==
  ASSUME RowInv, NoOverlap, NEW p \in Proc, CheckVersion(p)
  PROVE  NoOverlap'
<1>1. /\ pc[p] = "cas" /\ row' = row /\ history' = history
      /\ req' = req /\ loaded' = loaded /\ announced' = announced
      /\ Raced(p) \/ pc' = [pc EXCEPT ![p] = "write"]
  BY Zenon DEF CheckVersion
<1>2. CASE Raced(p)
  BY <1>1, <1>2, FailedQuiet, QuietAlone
<1>3. CASE pc' = [pc EXCEPT ![p] = "write"]
  <2>1. WritesRow(p)
    BY SMTT(30), <1>1 DEF NoOverlap
  <2>2. WritesRow(p)'
    BY SMTT(30), <1>1, <2>1 DEF WritesRow, Logged, NewRow, PlanOf
  <2>3. row'.ver = Len(history') /\ AnnouncedIsCommitted'
    BY <1>1 DEF NoOverlap, AnnouncedIsCommitted
  <2> QED
    BY Zenon, <1>1, <1>3, <2>2, <2>3, TowardsWrite
<1> QED
  BY <1>1, <1>2, <1>3

\* The write of a request that is alone, whatever becomes of its reply: the
\* version it answers with is its own, and a retry finds the row it wrote.
LEMMA SetAlone ==
  ASSUME RowInv, NoOverlap, NEW p \in Proc, pc[p] \in {"cas", "write"}, Write(p),
         Won(p) \/ Failed(p) \/ UNCHANGED <<pc, res>>,
         req' = req, loaded' = loaded, announced' = announced
  PROVE  NoOverlap'
<1>1. /\ row' = NewRow(p) /\ row'.ver = loaded[p].ver + 1
      /\ Len(history') \in Nat \ {0} /\ row'.ver = Len(history')
      /\ history'[Len(history')] = Entry(req[p], PlanOf(p))
      /\ Len(history) \in Nat /\ Len(history) <= Len(history')
      /\ \A i \in 1..Len(history) : history'[i] = history[i]
  BY SMTT(30), WriteAlone
<1>2. AnnouncedIsCommitted'
  BY <1>1, CommittedGrows DEF NoOverlap
<1>3. CASE UNCHANGED <<pc, res>>
  <2>1. pc' = [pc EXCEPT ![p] = pc[p]]
    BY <1>3 DEF RowInv, EvalTypeOK
  <2>2. ~Stable(loaded[p].edge, req[p])
    BY SMTT(30) DEF NoOverlap, WritesRow
  <2>3. WritesRow(p)'
    BY SMTT(30), <1>1, <2>2 DEF WritesRow, NewRow, PlanOf
  <2> QED
    BY Zenon, <1>1, <1>2, <2>1, <2>3, TowardsWrite
<1>4. CASE Won(p) \/ Failed(p)
  <2>1. PICK a : /\ Finish(p, a)
                 /\ \/ a.err \/ a.act \notin Notifying
                    \/ a.ver = loaded[p].ver + 1 /\ a.act = PlanOf(p).act
    <3>1. CASE Failed(p)
      BY SMTT(30), <3>1, FailedQuiet
    <3>2. CASE Won(p)
      BY SMTT(30), <3>2 DEF Won, Answer
    <3> QED
      BY SMTT(30), <1>4, <3>1, <3>2
  <2>2. pc' = [pc EXCEPT ![p] = "done"] /\ res'[p] = a
    BY <2>1 DEF Finish, RowInv, EvalTypeOK
  <2>3. OneAtATime' /\ pc'[p] = "done" /\ \A q \in Proc : q # p => pc'[q] = "idle"
    BY Zenon, <2>2, OthersIdle DEF RowInv, NoOverlap
  <2>4. /\ Entry(req[p], PlanOf(p)).payload = req[p].payload
        /\ Entry(req[p], PlanOf(p)).act = PlanOf(p).act
    BY SMTT(30) DEF Entry
  <2>5. AnswersCommitted'
    BY <1>1, <2>1, <2>2, <2>3, <2>4 DEF AnswersCommitted, Notifies, CommittedAs
  <2> QED
    BY SMTT(30), <1>1, <1>2, <2>3, <2>5 DEF NoOverlap
<1> QED
  BY SMTT(30), <1>3, <1>4

\* Every step taken without an overlap keeps it so.
LEMMA StepAlone ==
  ASSUME RowInv, NoOverlap, OneAtATime', [RedisNext]_vars
  PROVE  NoOverlap'
<1>1. CASE Tick \/ UNCHANGED vars
  <2>1. UNCHANGED <<row, history, pc, req, loaded, res, announced>>
    BY ZenonT(30), <1>1 DEF Tick, vars
  <2>2. row'.ver = Len(history') /\ AnswersCommitted' /\ AnnouncedIsCommitted'
    BY <2>1 DEF NoOverlap, AnswersCommitted, Notifies, CommittedAs, AnnouncedIsCommitted
  <2>3. (\A p \in Proc : pc[p] = "load" => ~Logged(req[p].payload))'
    BY SMTT(30), <2>1 DEF NoOverlap, Logged
  <2>4. (\A p \in Proc : pc[p] \in {"cas", "write"} => WritesRow(p))'
    BY <2>1 DEF NoOverlap, WritesRow, Logged, NewRow, PlanOf
  <2> QED
    BY <2>2, <2>3, <2>4 DEF NoOverlap
<1>2. ASSUME NEW p \in Proc, Begin(p)
      PROVE  NoOverlap'
  BY <1>2, BeginAlone
<1>3. ASSUME NEW p \in Proc, Load(p)
      PROVE  NoOverlap'
  BY <1>3, LoadAlone
<1>4. ASSUME NEW p \in Proc, Return(p) \/ Crash(p)
      PROVE  NoOverlap'
  BY <1>4, OverAlone
<1>5. ASSUME NEW p \in Proc, CheckVersion(p)
      PROVE  NoOverlap'
  BY <1>5, CheckAlone
<1>6. ASSUME NEW p \in Proc, HMSet(p) \/ CommandLost(p)
      PROVE  NoOverlap'
  <2>1. /\ pc[p] \in {"cas", "write"} /\ Write(p)
        /\ Won(p) \/ Failed(p) \/ UNCHANGED <<pc, res>>
        /\ req' = req /\ loaded' = loaded /\ announced' = announced
    BY <1>6 DEF HMSet, CommandLost, Writing
  <2> QED
    BY SMTT(30), <2>1, SetAlone
<1>7. ASSUME NEW p \in Proc, LoadFail(p) \/ CommandFail(p)
      PROVE  NoOverlap'
  <2>1. /\ pc[p] # "idle" /\ row' = row /\ history' = history /\ announced' = announced
        /\ Failed(p) \/ Finish(p, Answer("NoOp", TRUE, 0, Nil))
    BY Zenon, <1>7 DEF LoadFail, CommandFail
  <2>2. PICK a : Finish(p, a) /\ (a.err \/ a.act \notin Notifying)
    BY <2>1, FailedQuiet DEF Answer
  <2> QED
    BY <2>1, <2>2, QuietAlone
<1> QED
  BY ZenonT(30), <1>1, <1>2, <1>3, <1>4, <1>5, <1>6, <1>7 DEF RedisNext, Step
-----------------------------------------------------------------------------
SerialInv == serial => NoOverlap

\* A step that leaves no two requests overlapping keeps the invariant.
LEMMA SerialStep ==
  ASSUME RowInv, SerialInv, [SerialNext]_<<vars, serial>>
  PROVE  SerialInv'
<1> SUFFICES ASSUME serial' PROVE NoOverlap'
  BY DEF SerialInv
<1>1. NoOverlap /\ [RedisNext]_vars /\ OneAtATime'
  BY Zenon DEF SerialInv, SerialNext, NoOverlap, OneAtATime, vars
<1> QED
  BY <1>1, StepAlone

\* Observing the overlaps does not disturb the requests.
LEMMA SerialObserves == SerialSpec => RedisSpec
<1>1. SerialInit => Init
  BY DEF SerialInit
<1>2. [SerialNext]_<<vars, serial>> => [RedisNext]_vars
  BY DEF SerialNext
<1> QED
  BY <1>1, <1>2, PTL DEF SerialSpec, RedisSpec

\* Until two requests overlap, a request that writes holds the row itself or
\* repeats its own write.
THEOREM SerialInvariance == SerialSpec => []SerialInv
<1>1. SerialInit => SerialInv
  <2> SUFFICES ASSUME Init PROVE NoOverlap
    BY DEF SerialInit, SerialInv
  <2>1. /\ \A p \in Proc : pc[p] = "idle"
        /\ row.ver = 0 /\ history = <<>> /\ announced = {}
    BY DEF Init, NoRow
  <2> QED
    BY <2>1 DEF NoOverlap, OneAtATime, AnswersCommitted, AnnouncedIsCommitted
<1> QED
  BY <1>1, SerialStep, SerialObserves, RowInvariance, PTL DEF SerialSpec

\* As long as requests over the Redis store do not overlap, nothing is notified
\* that its request did not commit.
THEOREM SerialNotifiesCommitted == SerialSpec => []SerialAnnouncesCommitted
<1>1. SerialInv => SerialAnnouncesCommitted
  BY DEF SerialInv, NoOverlap, SerialAnnouncesCommitted
<1> QED
  BY <1>1, SerialInvariance, PTL

\* As long as they do not, through failures, lost replies, retries and crashes,
\* every write is one step of the atomic detector.
THEOREM SerialRefinement == SerialSpec => SerialImplements
<1>1. RowInv /\ SerialInv /\ [SerialNext]_<<vars, serial>> =>
        [serial' => Detector!Next \/ UNCHANGED Detector!vars]_<<vars, serial>>
  <2> SUFFICES ASSUME RowInv, SerialInv, SerialNext, serial'
               PROVE  Detector!Next \/ UNCHANGED Detector!vars
    OBVIOUS
  <2>1. NoOverlap /\ RedisNext
    BY Zenon DEF SerialNext, SerialInv
  <2>2. ASSUME NEW p \in Proc, HMSet(p) \/ CommandLost(p)
        PROVE  Detector!Next \/ (row' = row /\ history' = history)
    <3>1. pc[p] \in {"cas", "write"} /\ Write(p)
      BY SMTT(30), <2>2 DEF HMSet, CommandLost, Writing
    <3>2. /\ row' = NewRow(p)
          /\ \/ /\ loaded[p] = row
                /\ ~Logged(req[p].payload) /\ ~Stable(row.edge, req[p])
                /\ history' = Append(history, Entry(req[p], PlanOf(p)))
             \/ row' = row /\ history' = history
      BY <2>1, <3>1, WriteAlone
    <3>3. EvalTypeOK
      BY DEF RowInv
    <3> QED
      BY <3>1, <3>2, <3>3, Observes
  <2>3. CASE Tick
    BY <2>3 DEF Tick, Detector!vars
  <2>4. ASSUME NEW p \in Proc, Begin(p) \/ Step(p) \/ Crash(p) \/ CheckVersion(p) \/ CommandFail(p)
        PROVE  row' = row /\ history' = history
    BY Zenon, <2>4 DEF Begin, BeginWith, Step, Load, LoadFail, Return, Crash, CheckVersion,
       CommandFail
  <2> QED
    BY <2>1, <2>2, <2>3, <2>4 DEF RedisNext, Detector!vars
<1> QED
  BY <1>1, SerialInvariance, SerialObserves, RowInvariance, PTL DEF SerialSpec, SerialImplements
=============================================================================
