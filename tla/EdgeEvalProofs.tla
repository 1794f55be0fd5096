--------------------------- MODULE EdgeEvalProofs ---------------------------
(***************************************************************************)
(* Requests racing over the DynamoDB store, for any number of requests:    *)
(* the compare-and-set serialises them, so the row is always what one      *)
(* atomic evaluation after the other makes of it (EdgeDetector), and what  *)
(* is announced was committed, once.                                       *)
(***************************************************************************)
EXTENDS EdgeEvalDDB, EdgeEvalAtomic, EdgeFlapProofs

CommittedAs(payload, ver, act) ==
  /\ ver \in 1..Len(history)
  /\ history[ver].payload = payload /\ history[ver].act = act

Logged(payload) == \E i \in 1..Len(history) : history[i].payload = payload

\* A notification is handled by one request and logged only if it arrived.
OneRequestEach ==
  /\ \A p \in Proc : pc[p] # "idle" => req[p].payload \in arrived
  /\ \A p, q \in Proc :
       p # q /\ pc[p] # "idle" /\ pc[q] # "idle" => req[p].payload # req[q].payload
  /\ \A i \in 1..Len(history) : history[i].payload \in arrived

\* A request that may still write its row has not written it.
Unwritten ==
  \A p \in Proc :
    pc[p] = "load" \/ (pc[p] = "cas" /\ loaded[p].ver = row.ver) => ~Logged(req[p].payload)

\* A request gets to the write only with a value that differs.
Changing == \A p \in Proc : pc[p] = "cas" => ~Stable(loaded[p].edge, req[p])

Notifies(p) == ~res[p].err /\ res[p].act \in Notifying

\* An answer that will notify the target has been committed.
AnswersCommitted ==
  \A p \in Proc : pc[p] = "done" /\ Notifies(p) =>
    CommittedAs(req[p].payload, res[p].ver, res[p].act)

IInv ==
  /\ EvalTypeOK /\ SnapshotCurrent /\ OneRequestEach /\ Unwritten
  /\ Changing /\ AnswersCommitted /\ AnnouncedIsCommitted
-----------------------------------------------------------------------------
\* The observation of a request under way is one the decision is defined for.
LEMMA RequestTyped ==
  ASSUME EvalTypeOK, NEW p \in Proc, pc[p] # "idle"
  PROVE  req[p] \in Request /\ req[p] \in Observation
<1>1. req[p] \in Request
  BY DEF EvalTypeOK
<1> QED
  BY <1>1, EdgeEvalAssumption DEF Request, Observation

\* The plan of a request under way is well typed and never notifies when the
\* write does not commit.
LEMMA PlanTyped ==
  ASSUME EvalTypeOK, NEW p \in Proc, pc[p] # "idle"
  PROVE  /\ PlanOf(p).next \in Edge
         /\ PlanOf(p).act \in Notifying \cup {"SuppressFlapping"}
         /\ PlanOf(p).agg \in Aggregate \cup {Nil}
         /\ PlanOf(p).onRace \in {"SuppressFlapping", "NoOp"}
         /\ PlanOf(p).onFail \in {"SuppressFlapping", "error"}
         /\ Entry(req[p], PlanOf(p)) \in LogEntry
<1>1. req[p] \in Observation
  BY RequestTyped
<1>2. loaded[p].edge \in Edge \cup {Nil}
  BY DEF EvalTypeOK, Stored
<1> QED
  BY Zenon, <1>1, <1>2, EvaluateTyped DEF PlanOf

\* The same of a request, from the invariant,
LEMMA RequestObserves ==
  ASSUME IInv, NEW p \in Proc, pc[p] # "idle"
  PROVE  req[p] \in Request /\ req[p] \in Observation
BY RequestTyped DEF IInv

\* and of its plan at the write.
LEMMA PlanFacts ==
  ASSUME IInv, NEW p \in Proc, pc[p] = "cas"
  PROVE  /\ PlanOf(p).next \in Edge
         /\ PlanOf(p).act \in Notifying \cup {"SuppressFlapping"}
         /\ PlanOf(p).agg \in Aggregate \cup {Nil}
         /\ PlanOf(p).onRace \in {"SuppressFlapping", "NoOp"}
         /\ PlanOf(p).onFail \in {"SuppressFlapping", "error"}
         /\ Entry(req[p], PlanOf(p)) \in LogEntry
BY PlanTyped DEF IInv

\* A write whose version check passed replaces the row it was computed from by
\* the next version and logs one entry.
LEMMA WriteFacts ==
  ASSUME IInv, NEW p \in Proc, pc[p] = "cas", VersionMatches(p), Write(p)
  PROVE  /\ loaded[p] = row
         /\ row' = [edge |-> PlanOf(p).next, ver |-> row.ver + 1]
         /\ row' \in Stored /\ row.ver \in Nat /\ row'.ver = row.ver + 1
         /\ history' = Append(history, Entry(req[p], PlanOf(p)))
         /\ history' \in Seq(LogEntry)
         /\ Len(history) \in Nat /\ Len(history') = Len(history) + 1
         /\ \A i \in 1..Len(history) : history'[i] = history[i]
         /\ history'[Len(history) + 1] = Entry(req[p], PlanOf(p))
<1>1. loaded[p] = row /\ row.ver \in Nat
  BY DEF IInv, SnapshotCurrent, VersionMatches, EvalTypeOK, Stored
<1>2. row' = [edge |-> PlanOf(p).next, ver |-> row.ver + 1]
  BY <1>1 DEF Write, NewRow
<1>3. row'.ver = row.ver + 1 /\ row'.edge = PlanOf(p).next
  BY <1>2
<1>4. row' # row
  BY <1>1, <1>3
<1>5. row' \in Stored
  BY <1>1, <1>2, PlanFacts DEF Stored
<1>6. history' = Append(history, Entry(req[p], PlanOf(p)))
  BY <1>4 DEF Write
<1>7. history \in Seq(LogEntry) /\ Entry(req[p], PlanOf(p)) \in LogEntry
  BY PlanFacts DEF IInv, EvalTypeOK
<1>8. /\ history' \in Seq(LogEntry) /\ Len(history) \in Nat
      /\ Len(history') = Len(history) + 1
      /\ history'[Len(history) + 1] = Entry(req[p], PlanOf(p))
      /\ \A i \in 1..Len(history) : history'[i] = history[i]
  BY <1>6, <1>7, AppendFacts, SeqFacts
<1> QED
  BY <1>1, <1>2, <1>3, <1>5, <1>6, <1>8

\* The invariant reads everything but the clock.
LEMMA ClockStep ==
  ASSUME IInv, clock' \in 0..MaxTime,
         UNCHANGED <<arrived, row, history, pc, req, loaded, res, announced>>
  PROVE  IInv'
<1>1. /\ arrived' = arrived /\ row' = row /\ history' = history /\ pc' = pc
      /\ req' = req /\ loaded' = loaded /\ res' = res /\ announced' = announced
  OBVIOUS
<1>2. EvalTypeOK'
  BY <1>1 DEF IInv, EvalTypeOK
<1>3. SnapshotCurrent' /\ OneRequestEach'
  BY <1>1 DEF IInv, SnapshotCurrent, OneRequestEach
<1>4. Unwritten' /\ Changing'
  BY <1>1 DEF IInv, Unwritten, Logged, Changing
<1>5. AnswersCommitted' /\ AnnouncedIsCommitted'
  BY <1>1 DEF IInv, AnswersCommitted, Notifies, CommittedAs, AnnouncedIsCommitted
<1> QED
  BY <1>2, <1>3, <1>4, <1>5 DEF IInv

\* The clock's tick changes nothing the invariant reads.
LEMMA TickStep ==
  ASSUME IInv, Tick
  PROVE  IInv'
<1>1. clock' \in 0..MaxTime
  BY EdgeEvalAssumption DEF Tick, IInv, EvalTypeOK
<1>2. UNCHANGED <<arrived, row, history, pc, req, loaded, res, announced>>
  BY DEF Tick
<1> QED
  BY <1>1, <1>2, ClockStep

\* A request begins with a notification nobody else handles or has logged.
LEMMA BeginStep ==
  ASSUME IInv, NEW p \in Proc, NEW n \in Payloads \ arrived, NEW v \in Values,
         NEW f \in FlapConfigs, BeginWith(p, n, v, f)
  PROVE  IInv'
<1> DEFINE r == [payload |-> n, val |-> v, now |-> clock, f |-> f]
<1>1. /\ pc[p] = "idle" /\ arrived' = arrived \cup {n} /\ clock' = clock
      /\ req' = [req EXCEPT ![p] = r] /\ pc' = [pc EXCEPT ![p] = "load"]
      /\ row' = row /\ history' = history /\ loaded' = loaded /\ res' = res
      /\ announced' = announced
  BY DEF BeginWith
<1>2. r \in Request /\ r.payload = n
  BY DEF IInv, EvalTypeOK, Request
<1> HIDE DEF r
<1>3. /\ pc'[p] = "load" /\ req'[p] = r
      /\ \A q \in Proc : q # p => pc'[q] = pc[q] /\ req'[q] = req[q]
  BY <1>1 DEF IInv, EvalTypeOK
<1>4. EvalTypeOK'
  <2>1. pc' \in [Proc -> {"idle", "load", "cas", "write", "done"}]
    BY <1>1 DEF IInv, EvalTypeOK
  <2>2. req' \in [Proc -> Request \cup {NoRequest}]
    BY <1>1, <1>2 DEF IInv, EvalTypeOK
  <2>3. \A q \in Proc : req'[q] \in (IF pc'[q] = "idle" THEN {NoRequest} ELSE Request)
    BY <1>2, <1>3 DEF IInv, EvalTypeOK
  <2> QED
    BY <1>1, <2>1, <2>2, <2>3 DEF IInv, EvalTypeOK
<1>5. SnapshotCurrent'
  BY <1>1, <1>3 DEF IInv, SnapshotCurrent
<1>6. OneRequestEach'
  BY <1>1, <1>2, <1>3 DEF IInv, OneRequestEach
<1>7. Unwritten'
  BY SMTT(30), <1>1, <1>2, <1>3 DEF IInv, OneRequestEach, Unwritten, Logged
<1>8. Changing' /\ AnswersCommitted' /\ AnnouncedIsCommitted'
  BY <1>1, <1>3 DEF IInv, Changing, AnswersCommitted, Notifies, CommittedAs,
     AnnouncedIsCommitted
<1> QED
  BY <1>4, <1>5, <1>6, <1>7, <1>8 DEF IInv

\* A request that is answered without a write and is not told to notify.
LEMMA AnswerStep ==
  ASSUME IInv, NEW p \in Proc, pc[p] # "idle", NEW a \in Answers, Finish(p, a),
         a.err \/ a.act \notin Notifying,
         loaded' \in [Proc -> Stored], \A q \in Proc : q # p => loaded'[q] = loaded[q],
         UNCHANGED <<clock, arrived, row, history, req, announced>>
  PROVE  IInv'
<1>1. /\ res' = [res EXCEPT ![p] = a] /\ pc' = [pc EXCEPT ![p] = "done"]
      /\ clock' = clock /\ arrived' = arrived /\ row' = row /\ history' = history
      /\ req' = req /\ announced' = announced
  BY DEF Finish
<1>2. /\ pc'[p] = "done" /\ res'[p] = a
      /\ \A q \in Proc : q # p => pc'[q] = pc[q] /\ res'[q] = res[q]
  BY <1>1 DEF IInv, EvalTypeOK
<1>3. EvalTypeOK'
  <2>1. pc' \in [Proc -> {"idle", "load", "cas", "write", "done"}]
    BY <1>1 DEF IInv, EvalTypeOK
  <2>2. res' \in [Proc -> Answers]
    BY <1>1 DEF IInv, EvalTypeOK
  <2>3. \A q \in Proc : req'[q] \in (IF pc'[q] = "idle" THEN {NoRequest} ELSE Request)
    BY <1>1, <1>2 DEF IInv, EvalTypeOK
  <2> QED
    BY <1>1, <2>1, <2>2, <2>3 DEF IInv, EvalTypeOK
<1>4. SnapshotCurrent'
  BY <1>1, <1>2 DEF IInv, SnapshotCurrent
<1>5. OneRequestEach'
  BY <1>1, <1>2 DEF IInv, OneRequestEach
<1>6. Unwritten'
  BY <1>1, <1>2 DEF IInv, Unwritten, Logged
<1>7. Changing'
  BY <1>1, <1>2 DEF IInv, Changing
<1>8. AnswersCommitted'
  BY <1>1, <1>2 DEF IInv, AnswersCommitted, Notifies, CommittedAs
<1>9. AnnouncedIsCommitted'
  BY <1>1 DEF IInv, AnnouncedIsCommitted
<1> QED
  BY <1>3, <1>4, <1>5, <1>6, <1>7, <1>8, <1>9 DEF IInv

\* Load takes a copy of the row; a value that repeats is answered at once.
LEMMA LoadStep ==
  ASSUME IInv, NEW p \in Proc, Load(p)
  PROVE  IInv'
<1>1. /\ pc[p] = "load" /\ loaded' = [loaded EXCEPT ![p] = row]
      /\ clock' = clock /\ arrived' = arrived /\ row' = row /\ history' = history
      /\ req' = req /\ announced' = announced
  BY DEF Load
<1>2. /\ loaded' \in [Proc -> Stored] /\ loaded'[p] = row
      /\ \A q \in Proc : q # p => loaded'[q] = loaded[q]
  BY <1>1 DEF IInv, EvalTypeOK
<1>3. CASE Stable(row.edge, req[p])
  <2>1. Finish(p, NoAnswer)
    BY <1>3 DEF Load
  <2>2. NoAnswer \in Answers /\ NoAnswer.act \notin Notifying
    BY DEF NoAnswer, Answer, Answers, Notifying
  <2> QED
    BY <1>1, <1>2, <2>1, <2>2, AnswerStep
<1>4. CASE ~Stable(row.edge, req[p])
  <2>1. pc' = [pc EXCEPT ![p] = "cas"] /\ res' = res
    BY <1>4 DEF Load
  <2>2. pc'[p] = "cas" /\ \A q \in Proc : q # p => pc'[q] = pc[q]
    BY <2>1 DEF IInv, EvalTypeOK
  <2>3. EvalTypeOK'
    <3>1. pc' \in [Proc -> {"idle", "load", "cas", "write", "done"}]
      BY <2>1 DEF IInv, EvalTypeOK
    <3>2. \A q \in Proc : req'[q] \in (IF pc'[q] = "idle" THEN {NoRequest} ELSE Request)
      BY <1>1, <2>2 DEF IInv, EvalTypeOK
    <3> QED
      BY <1>1, <1>2, <2>1, <3>1, <3>2 DEF IInv, EvalTypeOK
  <2>4. SnapshotCurrent'
    <3>1. row.ver \in Nat
      BY DEF IInv, EvalTypeOK, Stored
    <3> QED
      BY <1>1, <1>2, <2>2, <3>1 DEF IInv, SnapshotCurrent
  <2>5. OneRequestEach'
    BY <1>1, <2>2 DEF IInv, OneRequestEach
  <2>6. Unwritten'
    BY <1>1, <1>2, <2>2 DEF IInv, Unwritten, Logged
  <2>7. Changing'
    BY <1>1, <1>2, <1>4, <2>2 DEF IInv, Changing, Stable
  <2>8. AnswersCommitted' /\ AnnouncedIsCommitted'
    BY <1>1, <2>1, <2>2 DEF IInv, AnswersCommitted, Notifies, CommittedAs,
       AnnouncedIsCommitted
  <2> QED
    BY <2>3, <2>4, <2>5, <2>6, <2>7, <2>8 DEF IInv
<1> QED
  BY <1>3, <1>4

\* A request is over; what it announces, if anything, was committed.
LEMMA ForgetStep ==
  ASSUME IInv, NEW p \in Proc, pc[p] # "idle", Forget(p),
         \/ announced' = announced
         \/ /\ pc[p] = "done" /\ Notifies(p)
            /\ announced' = announced \cup {Announcement(p)},
         UNCHANGED <<clock, arrived, row, history>>
  PROVE  IInv'
<1>1. /\ pc' = [pc EXCEPT ![p] = "idle"] /\ req' = [req EXCEPT ![p] = NoRequest]
      /\ loaded' = [loaded EXCEPT ![p] = NoRow] /\ res' = [res EXCEPT ![p] = NoAnswer]
      /\ clock' = clock /\ arrived' = arrived /\ row' = row /\ history' = history
  BY DEF Forget
<1>2. /\ pc'[p] = "idle" /\ req'[p] = NoRequest
      /\ \A q \in Proc : q # p => /\ pc'[q] = pc[q] /\ req'[q] = req[q]
                                 /\ loaded'[q] = loaded[q] /\ res'[q] = res[q]
  BY <1>1 DEF IInv, EvalTypeOK
<1>3. /\ announced' \subseteq [payload : Payloads, ver : Nat, act : Notifying]
      /\ AnnouncedIsCommitted'
  <2>1. CASE announced' = announced
    BY <1>1, <2>1 DEF IInv, EvalTypeOK, AnnouncedIsCommitted
  <2>2. CASE /\ pc[p] = "done" /\ Notifies(p)
             /\ announced' = announced \cup {Announcement(p)}
    <3>1. CommittedAs(req[p].payload, res[p].ver, res[p].act)
      BY <2>2 DEF IInv, AnswersCommitted
    <3>2. req[p] \in Request /\ res[p] \in Answers
      BY SMTT(30), RequestObserves DEF IInv, EvalTypeOK
    <3>3. Announcement(p) \in [payload : Payloads, ver : Nat, act : Notifying]
      BY <2>2, <3>2 DEF Announcement, Request, Answers, Notifies
    <3>4. /\ Announcement(p).ver \in 1..Len(history)
          /\ history[Announcement(p).ver].payload = Announcement(p).payload
          /\ history[Announcement(p).ver].act = Announcement(p).act
      BY <3>1 DEF Announcement, CommittedAs
    <3> QED
      BY <1>1, <2>2, <3>3, <3>4 DEF IInv, EvalTypeOK, AnnouncedIsCommitted
  <2> QED
    BY <2>1, <2>2
<1>4. EvalTypeOK'
  <2>1. NoRow \in Stored /\ NoAnswer \in Answers
    BY DEF NoRow, Stored, NoAnswer, Answer, Answers
  <2>2. pc' \in [Proc -> {"idle", "load", "cas", "write", "done"}]
    BY <1>1 DEF IInv, EvalTypeOK
  <2>3. req' \in [Proc -> Request \cup {NoRequest}]
    BY <1>1 DEF IInv, EvalTypeOK
  <2>4. loaded' \in [Proc -> Stored] /\ res' \in [Proc -> Answers]
    BY <1>1, <2>1 DEF IInv, EvalTypeOK
  <2>5. \A q \in Proc : req'[q] \in (IF pc'[q] = "idle" THEN {NoRequest} ELSE Request)
    BY <1>2 DEF IInv, EvalTypeOK
  <2> QED
    BY <1>1, <1>3, <2>2, <2>3, <2>4, <2>5 DEF IInv, EvalTypeOK
<1>5. SnapshotCurrent' /\ OneRequestEach'
  BY SMTT(30), <1>1, <1>2 DEF IInv, SnapshotCurrent, OneRequestEach
<1>6. Unwritten' /\ Changing'
  BY <1>1, <1>2 DEF IInv, Unwritten, Logged, Changing
<1>7. AnswersCommitted'
  BY <1>1, <1>2 DEF IInv, AnswersCommitted, Notifies, CommittedAs
<1> QED
  BY <1>3, <1>4, <1>5, <1>6, <1>7 DEF IInv

\* A write took effect: the request waits on, or is answered as the commit
\* says, or is answered without being told to notify.
LEMMA WriteStep ==
  ASSUME IInv, NEW p \in Proc, pc[p] = "cas", VersionMatches(p), Write(p),
         \/ pc' = pc /\ res' = res
         \/ \E a \in Answers :
              /\ Finish(p, a)
              /\ ~a.err /\ a.act \in Notifying =>
                   a.act = PlanOf(p).act /\ a.ver = loaded[p].ver + 1,
         UNCHANGED <<clock, arrived, req, loaded, announced>>
  PROVE  IInv'
<1> DEFINE new == Entry(req[p], PlanOf(p))
           len == Len(history)
<1>1. /\ loaded[p] = row /\ row' \in Stored /\ row.ver \in Nat /\ row'.ver = row.ver + 1
      /\ history' \in Seq(LogEntry) /\ len \in Nat /\ Len(history') = len + 1
      /\ \A i \in 1..len : history'[i] = history[i]
      /\ history'[len + 1] = new
  BY WriteFacts
<1>2. new.payload = req[p].payload /\ new.act = PlanOf(p).act
  BY DEF Entry
<1>3. /\ clock' = clock /\ arrived' = arrived /\ req' = req /\ loaded' = loaded
      /\ announced' = announced
  OBVIOUS
<1>4. /\ pc' \in [Proc -> {"idle", "load", "cas", "write", "done"}]
      /\ res' \in [Proc -> Answers]
      /\ pc'[p] \in {"cas", "done"}
      /\ \A q \in Proc : q # p => pc'[q] = pc[q] /\ res'[q] = res[q]
  BY DEF Finish, IInv, EvalTypeOK
<1>5. row.ver = len
  BY SMTT(30) DEF IInv, SnapshotCurrent
<1> HIDE DEF new, len
<1>6. EvalTypeOK'
  <2>1. \A q \in Proc : req'[q] \in (IF pc'[q] = "idle" THEN {NoRequest} ELSE Request)
    BY <1>3, <1>4 DEF IInv, EvalTypeOK
  <2> QED
    BY <1>1, <1>3, <1>4, <2>1 DEF IInv, EvalTypeOK
<1>7. SnapshotCurrent'
  <2>1. \A q \in Proc : pc'[q] = "cas" => loaded[q].ver <= row.ver /\ loaded[q].ver \in Nat
    BY <1>1, <1>4 DEF IInv, SnapshotCurrent, EvalTypeOK, Stored
  <2> QED
    BY SMTT(30), <1>1, <1>3, <1>5, <2>1 DEF SnapshotCurrent
<1>8. OneRequestEach'
  <2>1. \A i \in 1..(len + 1) : history'[i].payload \in arrived
    <3> SUFFICES ASSUME NEW i \in 1..(len + 1) PROVE history'[i].payload \in arrived
      OBVIOUS
    <3>1. CASE i = len + 1
      BY <1>1, <1>2, <3>1 DEF IInv, OneRequestEach
    <3>2. CASE i # len + 1
      <4>1. i \in 1..len
        BY <1>1, <3>2
      <4> QED
        BY <1>1, <4>1 DEF IInv, OneRequestEach, len
    <3> QED
      BY <3>1, <3>2
  <2> QED
    BY <1>1, <1>3, <1>4, <2>1 DEF IInv, OneRequestEach
<1>9. Unwritten'
  <2> SUFFICES ASSUME NEW q \in Proc,
                      pc'[q] = "load" \/ (pc'[q] = "cas" /\ loaded'[q].ver = row'.ver),
                      NEW i \in 1..(len + 1)
               PROVE  history'[i].payload # req[q].payload
    BY SMTT(30), <1>1, <1>3 DEF Unwritten, Logged
  <2>1. pc'[q] = "cas" => loaded[q].ver <= row.ver /\ loaded[q].ver \in Nat
    BY <1>1, <1>4 DEF IInv, SnapshotCurrent, EvalTypeOK, Stored
  <2>2. pc'[q] = "load" /\ q # p /\ pc[q] = "load"
    BY SMTT(30), <1>1, <1>3, <1>4, <2>1
  <2>3. CASE i = len + 1
    BY <1>1, <1>2, <2>2, <2>3 DEF IInv, OneRequestEach
  <2>4. CASE i # len + 1
    <3>1. i \in 1..len
      BY <1>1, <2>4
    <3> QED
      BY <1>1, <2>2, <3>1 DEF IInv, Unwritten, Logged, len
  <2> QED
    BY SMTT(30), <2>3, <2>4
<1>10. Changing'
  BY <1>3, <1>4 DEF IInv, Changing, Stable
<1>11. \A payload, ver, act : CommittedAs(payload, ver, act) =>
         /\ ver \in 1..(len + 1)
         /\ history'[ver].payload = payload /\ history'[ver].act = act
  BY <1>1 DEF CommittedAs, len
<1>12. AnswersCommitted'
  <2> SUFFICES ASSUME NEW q \in Proc, pc'[q] = "done", ~res'[q].err, res'[q].act \in Notifying
               PROVE  /\ res'[q].ver \in 1..(len + 1)
                      /\ history'[res'[q].ver].payload = req[q].payload
                      /\ history'[res'[q].ver].act = res'[q].act
    BY <1>1, <1>3 DEF AnswersCommitted, Notifies, CommittedAs
  <2>1. CASE q # p
    <3>1. CommittedAs(req[q].payload, res[q].ver, res[q].act)
      BY <1>4, <2>1 DEF IInv, AnswersCommitted, Notifies
    <3> QED
      BY <1>4, <1>11, <2>1, <3>1
  <2>2. CASE q = p
    <3>1. PICK a \in Answers :
            /\ Finish(p, a)
            /\ ~a.err /\ a.act \in Notifying =>
                 a.act = PlanOf(p).act /\ a.ver = loaded[p].ver + 1
      BY SMTT(30), <2>2
    <3>2. res'[p] = a
      BY <3>1 DEF Finish, IInv, EvalTypeOK
    <3>3. res'[p].act = PlanOf(p).act /\ res'[p].ver = len + 1
      BY SMTT(30), <1>1, <1>5, <2>2, <3>1, <3>2
    <3> QED
      BY <1>1, <1>2, <2>2, <3>3
  <2> QED
    BY <2>1, <2>2
<1>13. AnnouncedIsCommitted'
  BY SMTT(30), <1>1, <1>3, <1>11 DEF IInv, AnnouncedIsCommitted, CommittedAs
<1> QED
  BY SMTT(30), <1>6, <1>7, <1>8, <1>9, <1>10, <1>12, <1>13 DEF IInv

\* Every step of the requests and of the clock preserves the invariant.
LEMMA NextStep ==
  ASSUME IInv, [Next]_vars
  PROVE  IInv'
<1>1. CASE Tick
  BY <1>1, TickStep
<1>2. ASSUME NEW p \in Proc, Begin(p)
      PROVE  IInv'
  BY <1>2, BeginStep DEF Begin
<1>3. ASSUME NEW p \in Proc, Load(p)
      PROVE  IInv'
  BY SMTT(30), <1>3, LoadStep
<1>4. ASSUME NEW p \in Proc, LoadFail(p)
      PROVE  IInv'
  <2>1. /\ Answer("NoOp", TRUE, 0, Nil) \in Answers
        /\ Answer("NoOp", TRUE, 0, Nil).err
    BY DEF Answer, Answers
  <2>2. /\ pc[p] # "idle" /\ Finish(p, Answer("NoOp", TRUE, 0, Nil))
        /\ loaded' = loaded /\ UNCHANGED <<clock, arrived, row, history, req, announced>>
    BY Zenon, <1>4 DEF LoadFail
  <2> QED
    BY Zenon, <2>1, <2>2, AnswerStep DEF IInv, EvalTypeOK
<1>5. ASSUME NEW p \in Proc, Return(p)
      PROVE  IInv'
  BY <1>5, ForgetStep DEF Return, Notifies
<1>6. ASSUME NEW p \in Proc, Commit(p)
      PROVE  IInv'
  <2> DEFINE a == Answer(PlanOf(p).act, FALSE, loaded[p].ver + 1, PlanOf(p).agg)
  <2>1. /\ pc[p] = "cas" /\ VersionMatches(p) /\ Write(p) /\ Finish(p, a)
        /\ UNCHANGED <<clock, arrived, req, loaded, announced>>
    BY Zenon, <1>6 DEF Commit, Won
  <2>2. loaded[p].ver \in Nat
    BY DEF IInv, EvalTypeOK, Stored
  <2>3. a \in Answers /\ a.act = PlanOf(p).act /\ a.ver = loaded[p].ver + 1
    BY <2>1, <2>2, PlanFacts DEF Answer, Answers
  <2> HIDE DEF a
  <2> QED
    BY <2>1, <2>3, WriteStep
<1>7. ASSUME NEW p \in Proc, LoseRace(p)
      PROVE  IInv'
  <2> DEFINE a == Answer(PlanOf(p).onRace, FALSE, 0, Nil)
  <2>1. /\ pc[p] = "cas" /\ Finish(p, a) /\ loaded' = loaded
        /\ UNCHANGED <<clock, arrived, row, history, req, announced>>
    BY ZenonT(30), <1>7 DEF LoseRace, Raced
  <2>2. a \in Answers /\ a.act \notin Notifying
    BY <2>1, PlanFacts DEF Answer, Answers, Notifying
  <2> HIDE DEF a
  <2> QED
    BY <2>1, <2>2, AnswerStep DEF IInv, EvalTypeOK
<1>8. ASSUME NEW p \in Proc, pc[p] = "cas", Failed(p)
      PROVE  \E a \in Answers : Finish(p, a) /\ (a.err \/ a.act \notin Notifying)
  <2> DEFINE a == IF PlanOf(p).onFail = "error" THEN Answer("NoOp", TRUE, 0, Nil)
                  ELSE Answer(PlanOf(p).onFail, FALSE, 0, Nil)
  <2>1. Finish(p, a)
    BY Zenon, <1>8 DEF Failed
  <2>2. a \in Answers /\ (a.err \/ a.act \notin Notifying)
    BY <1>8, PlanFacts DEF Answer, Answers, Notifying
  <2> QED
    BY Zenon, <2>1, <2>2
<1>9. ASSUME NEW p \in Proc, CasFail(p)
      PROVE  IInv'
  <2>1. /\ pc[p] = "cas" /\ Failed(p) /\ loaded' = loaded
        /\ UNCHANGED <<clock, arrived, row, history, req, announced>>
    BY <1>9 DEF CasFail
  <2> QED
    BY <1>8, <2>1, AnswerStep DEF IInv, EvalTypeOK
<1>10. ASSUME NEW p \in Proc, LostReply(p)
       PROVE  IInv'
  <2>1. /\ pc[p] = "cas" /\ VersionMatches(p) /\ Write(p)
        /\ Failed(p) \/ (pc' = pc /\ res' = res)
        /\ UNCHANGED <<clock, arrived, req, loaded, announced>>
    BY <1>10 DEF LostReply
  <2>2. CASE Failed(p)
    BY <1>8, <2>1, <2>2, WriteStep
  <2>3. CASE pc' = pc /\ res' = res
    BY <2>1, <2>3, WriteStep
  <2> QED
    BY <2>1, <2>2, <2>3
<1>11. ASSUME NEW p \in Proc, Crash(p)
       PROVE  IInv'
  <2>1. /\ pc[p] # "idle" /\ Forget(p)
        /\ UNCHANGED <<clock, arrived, row, history, announced>>
    BY Zenon, <1>11 DEF Crash
  <2> QED
    BY <2>1, ForgetStep
<1>12. CASE UNCHANGED vars
  <2>1. clock' \in 0..MaxTime /\ UNCHANGED <<arrived, row, history, pc, req, loaded, res, announced>>
    BY <1>12 DEF vars, IInv, EvalTypeOK
  <2> QED
    BY <2>1, ClockStep
<1> QED
  BY <1>1, <1>2, <1>3, <1>4, <1>5, <1>6, <1>7, <1>9, <1>10, <1>11, <1>12
  DEF Next, Step, Cas
-----------------------------------------------------------------------------
\* With no row and no request the invariant holds.
LEMMA InitIInv ==
  ASSUME Init
  PROVE  IInv
<1>1. history = <<>> /\ Len(history) = 0 /\ history \in Seq(LogEntry) /\ 1..Len(history) = {}
  BY DEF Init
<1>2. \A p \in Proc : pc[p] = "idle" /\ req[p] = NoRequest
  BY DEF Init
<1>3. EvalTypeOK
  <2>1. NoRow \in Stored /\ NoAnswer \in Answers
    BY DEF NoRow, Stored, NoAnswer, Answer, Answers
  <2>2. 0 \in 0..MaxTime
    BY EdgeEvalAssumption
  <2> QED
    BY <1>1, <1>2, <2>1, <2>2 DEF Init, EvalTypeOK
<1>4. SnapshotCurrent
  BY <1>1, <1>2 DEF Init, SnapshotCurrent, NoRow
<1> QED
  BY Zenon, <1>1, <1>2, <1>3, <1>4 DEF Init, IInv, OneRequestEach, Unwritten, Changing,
     AnswersCommitted, AnnouncedIsCommitted

\* The inductive invariant of the requests over DynamoDB: it starts true with
\* no row and no request, and every step preserves it.
THEOREM Invariance == Spec => []IInv
<1>1. Init => IInv
  BY InitIInv
<1>2. IInv /\ [Next]_vars => IInv'
  BY NextStep
<1> QED
  BY <1>1, <1>2, PTL DEF Spec

\* Every copy of the row, request and answer stays well typed.
THEOREM TypeCorrect == Spec => []EvalTypeOK
<1>1. IInv => EvalTypeOK
  BY DEF IInv
<1> QED
  BY <1>1, Invariance, PTL

\* A request whose version check will pass holds the row as it is.
THEOREM SnapshotsAreCurrent == Spec => []SnapshotCurrent
<1>1. IInv => SnapshotCurrent
  BY DEF IInv
<1> QED
  BY <1>1, Invariance, PTL

\* Whatever is announced to the target was committed by the same request,
\* through lost races, errors, lost replies and crashes.
THEOREM AnnouncementsAreCommitted == Spec => []AnnouncedIsCommitted
<1>1. IInv => AnnouncedIsCommitted
  BY DEF IInv
<1> QED
  BY <1>1, Invariance, PTL
-----------------------------------------------------------------------------
\* The detector's decision is the requests' one, under the instance's names.
LEMMA SameDecision ==
  ASSUME NEW e, NEW o
  PROVE  /\ Detector!Evaluate(e, o) = Evaluate(e, o)
         /\ Detector!Stable(e, o) <=> Stable(e, o)
         /\ \A plan : Detector!Entry(o, plan) = Entry(o, plan)
<1>1. Detector!Evaluate(e, o) = Evaluate(e, o)
  BY Zenon DEF Evaluate, FirstObservation, Forward, EvaluateFlapping, RecordFlip, CountFlip,
     NewWindow, AggregateDue, SendAggregate, Hold, Tolerate, Plan, StartCooldown,
     DrainRecent, BuildAggregate, AggregateItem, EncodePayload, DecodePayload,
     AppendRecent, Detector!Evaluate, Detector!FirstObservation,
     Detector!Forward, Detector!EvaluateFlapping, Detector!RecordFlip,
     Detector!CountFlip, Detector!NewWindow, Detector!AggregateDue,
     Detector!SendAggregate, Detector!Hold, Detector!Tolerate, Detector!Plan,
     Detector!StartCooldown, Detector!DrainRecent, Detector!BuildAggregate,
     Detector!AggregateItem, Detector!EncodePayload, Detector!DecodePayload,
     Detector!AppendRecent
<1> QED
  BY ZenonT(30), <1>1 DEF Stable, Detector!Stable, Entry, Detector!Entry

\* A write is one step of the detector if the request is new to the log and was
\* decided from the row it replaces.
LEMMA Observes ==
  ASSUME EvalTypeOK, NEW p \in Proc, pc[p] # "idle", loaded[p] = row,
         ~Logged(req[p].payload), ~Stable(row.edge, req[p]),
         row' = NewRow(p), history' = Append(history, Entry(req[p], PlanOf(p)))
  PROVE  Detector!Next
<1>1. PlanOf(p) = Evaluate(row.edge, req[p]) /\ row'.edge = PlanOf(p).next
  BY SMTT(30) DEF PlanOf, NewRow
<1>2. req[p] \in Detector!Observations
  BY RequestTyped DEF Detector!Observations, Request
<1>3. req[p].payload \notin Detector!Logged
  BY DEF Detector!Logged, Logged
<1>4. ~Detector!Stable(row.edge, req[p])
  BY SMTT(30), SameDecision
<1>5. /\ row'.edge = Detector!Evaluate(row.edge, req[p]).next
      /\ history' = Append(history,
                       Detector!Entry(req[p], Detector!Evaluate(row.edge, req[p])))
  BY SMTT(30), <1>1, SameDecision
<1>6. Detector!Observe(req[p])
  BY <1>3, <1>4, <1>5 DEF Detector!Observe
<1> QED
  BY SMTT(30), <1>2, <1>6 DEF Detector!Next

\* A write whose version check passed is.
LEMMA WriteObserves ==
  ASSUME IInv, NEW p \in Proc, pc[p] = "cas", VersionMatches(p), Write(p)
  PROVE  Detector!Next
<1>1. /\ loaded[p] = row /\ row' = NewRow(p)
      /\ history' = Append(history, Entry(req[p], PlanOf(p)))
  BY SMTT(30), WriteFacts DEF Write
<1>2. ~Logged(req[p].payload) /\ ~Stable(row.edge, req[p])
  BY <1>1 DEF IInv, Unwritten, Changing, VersionMatches
<1>3. EvalTypeOK
  BY DEF IInv
<1> QED
  BY <1>1, <1>2, <1>3, Observes

\* DynamoDB's conditional writes make the requests atomic: for any number of
\* them, with lost replies, retries, errors and crashes, the row and the log of
\* its writes behave as the detector's.
THEOREM Refinement == Spec => Implements
<1>1. Init => Detector!Init
  BY DEF Init, Detector!Init, NoRow
<1>2. IInv /\ [Next]_vars => [Detector!Next]_Detector!vars
  <2> SUFFICES ASSUME IInv, [Next]_vars
               PROVE  Detector!Next \/ (row' = row /\ history' = history)
    BY DEF Detector!vars
  <2>1. ASSUME NEW p \in Proc, Commit(p) \/ LostReply(p)
        PROVE  Detector!Next
    BY <2>1, WriteObserves DEF Commit, LostReply
  <2>2. CASE Tick \/ UNCHANGED vars
    BY <2>2 DEF Tick, vars
  <2>3. ASSUME NEW p \in Proc, Begin(p) \/ Step(p) \/ LoseRace(p) \/ CasFail(p) \/ Crash(p)
        PROVE  row' = row /\ history' = history
    BY Zenon, <2>3 DEF Begin, BeginWith, Step, Load, LoadFail, Return, LoseRace, CasFail, Crash
  <2> QED
    BY <2>1, <2>2, <2>3 DEF Next, Cas
<1> QED
  BY <1>1, <1>2, Invariance, PTL DEF Spec, Implements, Detector!Spec
=============================================================================
