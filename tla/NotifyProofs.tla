---------------------------- MODULE NotifyProofs ----------------------------
(***************************************************************************)
(* The HTTP pipeline for any number of handlers, notifications and         *)
(* configurations: its edge evaluations are those of EdgeEvalDDB, so that  *)
(* what is proved there holds in it, and what it publishes and replies     *)
(* agrees with what was committed.                                         *)
(***************************************************************************)
EXTENDS Notify, EdgeEvalProofs

Stages == {"idle", "ip", "client", "route", "edge", "target", "publish", "reply"}
Early == {"ip", "client", "route"}
Late == {"target", "publish", "reply"}
Sendable == Notifying \cup {"ForwardedAsIs"}
Refusals == {"rejected", "rate limit", "trigger field eval error"}

Jobs == [payload : Payloads \cup {Nil}, cc : Configs \cup {Nil}, act : Sendable \cup {"NoOp"},
         ver : Nat, minute : {c \div MinuteSeconds : c \in 0..MaxTime} \cup {0}]

FlowTyped ==
  /\ stage \in [Proc -> Stages] /\ job \in [Proc -> Jobs]
  /\ used \in [Scopes -> Nat] /\ seen \subseteq Payloads /\ clock \in Nat

\* What a handler beyond the evaluation is going to publish, or has published.
Sends(p) ==
  \/ job[p].act \in Notifying /\ CommittedAs(job[p].payload, job[p].ver, job[p].act)
  \/ job[p].act = "ForwardedAsIs" /\ stage[p] # "target"

\* A notification is handled once; it gets to the evaluation from its handler.
HandlerInv ==
  /\ arrived \subseteq seen
  /\ \A p \in Proc : stage[p] # "idle" => job[p].payload \in seen /\ job[p].cc \in Configs
  /\ \A p, q \in Proc :
       p # q /\ stage[p] # "idle" /\ stage[q] # "idle" => job[p].payload # job[q].payload
  /\ \A p \in Proc : pc[p] # "idle" <=> stage[p] = "edge"
  /\ \A p \in Proc : stage[p] = "edge" => req[p].payload = job[p].payload
  /\ \A p \in Proc : stage[p] \in Early => job[p].payload \notin arrived
  /\ \A p \in Proc : stage[p] \in Late => Sends(p)

Published(payload, act) == \E m \in published : m.payload = payload /\ m.act = act

PublishedInv ==
  /\ \A m \in published :
       /\ m.payload \in seen /\ m.act \in Sendable
       /\ m.act \in Notifying => CommittedAs(m.payload, m.ver, m.act)
       /\ \A p \in Proc : stage[p] \notin {"idle", "publish", "reply"} => job[p].payload # m.payload
  /\ \A p \in Proc : stage[p] = "reply" => Published(job[p].payload, job[p].act)

ReplyInv ==
  \A r \in replies :
    /\ r.payload \in seen /\ r.status \in Statuses /\ r.err \in BOOLEAN
    /\ \A p \in Proc : stage[p] # "idle" => job[p].payload # r.payload
    /\ r.status \in Refusals => r.payload \notin arrived
    /\ r.status \in Refusals \cup {"NoOp", "SuppressFlapping"} =>
         \A m \in published : m.payload # r.payload
    /\ r.status \in Sendable => Published(r.payload, r.status)

\* What the target's limit let pass in minute t, published or about to be.
Pending == {Message(p) : p \in {q \in Proc : stage[q] = "publish"}}
Granted(t) ==
  {m \in published \cup Pending : m.act # "ForwardedAsIs" /\ m.minute = t /\ m.rate > 0}

\* It can be numbered up to the minute's counter, which stays within an sns_rpm.
BudgetInv ==
  /\ \E cc \in Configs : used["TARGET"] <= cc.SNSRPM
  /\ Numbered(Granted(Minute), used["TARGET"])
  /\ \A t \in Nat : t < Minute => \E cc \in Configs : Numbered(Granted(t), cc.SNSRPM)
  /\ \A t \in Nat : t > Minute => Granted(t) = {}

FlowInv == FlowTyped /\ HandlerInv /\ PublishedInv /\ ReplyInv /\ BudgetInv
-----------------------------------------------------------------------------
Stays == \A x, v, a : CommittedAs(x, v, a) => CommittedAs(x, v, a)'

\* What is committed stays committed.
LEMMA CommittedStays ==
  ASSUME IInv, [Next]_vars
  PROVE  Stays
<1>1. ASSUME NEW p \in Proc, Commit(p) \/ LostReply(p)
      PROVE  Stays
  <2>1. /\ Len(history) \in Nat /\ Len(history') = Len(history) + 1
        /\ \A i \in 1..Len(history) : history'[i] = history[i]
    BY <1>1, WriteFacts DEF Commit, LostReply
  <2> QED
    BY <2>1 DEF CommittedAs, Stays
<1>2. CASE history' = history
  BY <1>2 DEF CommittedAs, Stays
<1>3. ASSUME NEW p \in Proc, Begin(p) \/ Step(p) \/ LoseRace(p) \/ CasFail(p) \/ Crash(p)
      PROVE  history' = history
  BY <1>3, Zenon DEF Begin, BeginWith, Step, Load, LoadFail, Return, LoseRace, CasFail, Crash
<1>4. Tick \/ UNCHANGED vars => history' = history
  BY DEF Tick, vars
<1> QED
  BY <1>1, <1>2, <1>3, <1>4 DEF Next, Cas

\* The reply of handler p, in its present stage, is r.
Replies(p, r) ==
  /\ r.payload = job[p].payload /\ r.status \in Statuses \ {"rejected"} /\ r.err \in BOOLEAN
  /\ r.status \in Refusals => stage[p] \in Early
  /\ r.status \in {"NoOp", "SuppressFlapping"} => stage[p] \notin {"publish", "reply"}
  /\ r.status \in Sendable => stage[p] = "reply" /\ r.status = job[p].act

\* What handler p may add to the target's counter.
Counts(p) ==
  \/ used'["TARGET"] = used["TARGET"]
  \/ used'["TARGET"] = used["TARGET"] + 1 /\ used'["TARGET"] <= job[p].cc.SNSRPM

\* What the publishing of job j costs: nothing more, nothing, or one of the budget.
Paid(p, j) ==
  \/ stage[p] = "publish" /\ j = job[p]
  \/ j.act = "ForwardedAsIs" \/ ~(j.cc.SNSRPM > 0)
  \/ j.minute = Minute /\ used'["TARGET"] = used["TARGET"] + 1

\* A step of one handler that goes on to stage s with job j, or ends.
HandlerMoves(p, s, j) ==
  /\ stage[p] # "idle"
  /\ stage' = [stage EXCEPT ![p] = s] /\ job' = [job EXCEPT ![p] = j]
  /\ seen' = seen /\ used' \in [Scopes -> Nat]
  /\ \A q \in Proc : q # p => pc'[q] = pc[q] /\ req'[q] = req[q]
  /\ pc'[p] # "idle" <=> s = "edge"
  /\ s # "idle" => j.payload = job[p].payload /\ j.cc = job[p].cc
  /\ \/ arrived' = arrived
     \/ s = "edge" /\ arrived' = arrived \cup {job[p].payload}
  /\ s = "edge" => req'[p].payload = job[p].payload
  /\ s \in Early => stage[p] \in Early
  /\ s \in Late => \/ j.act \in Notifying /\ CommittedAs(job[p].payload, j.ver, j.act)
                   \/ j.act = "ForwardedAsIs" /\ s # "target"
  /\ \/ published' = published
     \/ stage[p] = "publish" /\ published' = published \cup {Message(p)}
  /\ stage[p] \in {"publish", "reply"} => s \in {"idle", "publish", "reply"}
  /\ s = "reply" => Message(p) \in published' /\ j = job[p]
  /\ \/ replies' = replies
     \/ s = "idle" /\ \E r : Replies(p, r) /\ replies' = replies \cup {r}
  /\ clock' = clock /\ Counts(p) /\ (s = "publish" => Paid(p, j))

\* The limits and the counter are numbers.
LEMMA BudgetTyped ==
  ASSUME FlowInv
  PROVE  /\ used["TARGET"] \in Nat /\ clock \in Nat /\ Minute \in Nat
         /\ \A cc \in Configs : cc.SNSRPM \in Nat
<1>1. used["TARGET"] \in Nat /\ clock \in Nat
  BY DEF FlowInv, FlowTyped, Scopes
<1>2. Minute \in Nat
  BY <1>1, CountedOn, NotifyAssumption DEF Minute
<1> QED
  BY <1>1, <1>2, NotifyAssumption DEF ClientConfig

\* Within a minute the budget is kept if at most one message is granted, and
\* that is counted.
LEMMA BudgetStep ==
  ASSUME FlowInv, clock' = clock, NEW m,
         \/ used'["TARGET"] = used["TARGET"]
         \/ /\ used'["TARGET"] = used["TARGET"] + 1
            /\ \E cc \in Configs : used'["TARGET"] <= cc.SNSRPM,
         \A t : \/ Granted(t)' \subseteq Granted(t)
                \/ /\ t = Minute /\ used'["TARGET"] = used["TARGET"] + 1
                   /\ Granted(t)' \subseteq Granted(t) \cup {m}
  PROVE  BudgetInv'
<1>1. /\ used["TARGET"] \in Nat /\ used'["TARGET"] \in Nat /\ Minute \in Nat /\ Minute' = Minute
      /\ \A cc \in Configs : cc.SNSRPM \in Nat
  BY BudgetTyped DEF Minute
<1>2. \E cc \in Configs : used'["TARGET"] <= cc.SNSRPM
  BY DEF FlowInv, BudgetInv
<1>3. Numbered(Granted(Minute), used["TARGET"])'
  <2>1. Numbered(Granted(Minute), used["TARGET"])
    BY DEF FlowInv, BudgetInv
  <2>2. Numbered(Granted(Minute)', used'["TARGET"])
    BY SMTT(30), <1>1, <2>1, NumberedFewer, NumberedMore DEF Granted
  <2> QED
    BY <2>2 DEF Numbered
<1>4. ASSUME NEW t \in Nat, t < Minute
      PROVE  \E cc \in Configs : Numbered(Granted(t)', cc.SNSRPM)
  <2>1. PICK cc \in Configs : Numbered(Granted(t), cc.SNSRPM)
    BY <1>4 DEF FlowInv, BudgetInv
  <2>2. Granted(t)' \subseteq Granted(t)
    BY <1>1, <1>4
  <2> QED
    BY <1>1, <2>1, <2>2, NumberedFewer
<1>5. ASSUME NEW t \in Nat, t > Minute
      PROVE  Granted(t)' = {}
  BY <1>1, <1>5 DEF FlowInv, BudgetInv
<1> QED
  BY SMTT(30), <1>1, <1>2, <1>3, <1>4, <1>5 DEF BudgetInv, Numbered

\* So it is if nothing is granted, nothing counted and nothing published.
LEMMA NothingGranted ==
  ASSUME FlowInv, clock' = clock, used' = used, published' = published, Pending' \subseteq Pending
  PROVE  BudgetInv'
<1>1. \A t : Granted(t)' \subseteq Granted(t)
  BY DEF Granted
<1> QED
  BY <1>1, BudgetStep

\* A step of one handler keeps the budget: what it publishes was granted, and
\* what goes to the publishing is granted and counted.
LEMMA HandlerBudget ==
  ASSUME FlowInv, NEW p \in Proc, NEW s, NEW j, HandlerMoves(p, s, j)
  PROVE  BudgetInv'
<1>1. /\ stage'[p] = s /\ job'[p] = j
      /\ \A q \in Proc : q # p => stage'[q] = stage[q] /\ job'[q] = job[q]
  BY DEF HandlerMoves, FlowInv, FlowTyped
<1>2. published' \subseteq published \cup Pending
  BY DEF HandlerMoves, Pending
<1>3. PICK m : m = Message(p)'
  OBVIOUS
<1>4. /\ \A q \in Proc : q # p => Message(q)' = Message(q)
      /\ s = "publish" => \/ stage[p] = "publish" /\ m = Message(p)
                          \/ m.act = "ForwardedAsIs" \/ ~(m.rate > 0)
                          \/ m.minute = Minute /\ used'["TARGET"] = used["TARGET"] + 1
  BY <1>1, <1>3 DEF HandlerMoves, Message, Paid
<1>5. \A x \in Pending' : x \in Pending \/ (x = m /\ s = "publish")
  BY <1>1, <1>3, <1>4, Zenon DEF Pending
<1>6. \A t : \/ Granted(t)' \subseteq Granted(t)
             \/ /\ t = Minute /\ used'["TARGET"] = used["TARGET"] + 1
                /\ Granted(t)' \subseteq Granted(t) \cup {m}
  <2>1. s = "publish" /\ stage[p] = "publish" /\ m = Message(p) => m \in Pending
    BY SMTT(30) DEF Pending
  <2> QED
    BY <1>2, <1>4, <1>5, <2>1 DEF Granted
<1>7. clock' = clock /\ Counts(p) /\ job[p].cc \in Configs
  BY DEF HandlerMoves, FlowInv, HandlerInv
<1> QED
  BY SMTT(30), <1>6, <1>7, BudgetStep DEF Counts

\* Such a step preserves the invariant, whichever handler takes it.
LEMMA HandlerStep ==
  ASSUME FlowInv, Stays,
         NEW p \in Proc, NEW s \in Stages, NEW j \in Jobs, HandlerMoves(p, s, j)
  PROVE  FlowInv'
<1>1. /\ stage'[p] = s /\ job'[p] = j
      /\ \A q \in Proc : q # p => stage'[q] = stage[q] /\ job'[q] = job[q]
  BY DEF HandlerMoves, FlowInv, FlowTyped
<1>2. FlowTyped'
  BY DEF HandlerMoves, FlowInv, FlowTyped, Stages, Scopes
<1>3. /\ job[p].payload \in seen /\ job[p].cc \in Configs /\ stage[p] # "idle"
      /\ \A q \in Proc : q # p /\ stage[q] # "idle" => job[q].payload # job[p].payload
  BY SMTT(30) DEF HandlerMoves, FlowInv, HandlerInv
<1>4. seen' = seen /\ arrived' \subseteq arrived \cup {job[p].payload} /\ arrived' \subseteq seen
  BY SMTT(30), <1>3 DEF HandlerMoves, FlowInv, HandlerInv
<1>5. HandlerInv'
  <2>1. \A q \in Proc : stage'[q] # "idle" => job'[q].payload \in seen /\ job'[q].cc \in Configs
    BY SMTT(30), <1>1, <1>3 DEF HandlerMoves, FlowInv, HandlerInv
  <2>2. \A q, r \in Proc :
          q # r /\ stage'[q] # "idle" /\ stage'[r] # "idle" => job'[q].payload # job'[r].payload
    BY <1>1, <1>3 DEF HandlerMoves, FlowInv, HandlerInv
  <2>3. \A q \in Proc : /\ pc'[q] # "idle" <=> stage'[q] = "edge"
                        /\ stage'[q] = "edge" => req'[q].payload = job'[q].payload
    BY <1>1 DEF HandlerMoves, FlowInv, HandlerInv
  <2>4. \A q \in Proc : stage'[q] \in Early => job'[q].payload \notin arrived'
    BY <1>1, <1>3, <1>4 DEF HandlerMoves, FlowInv, HandlerInv, Early
  <2>5. ASSUME NEW q \in Proc, stage'[q] \in Late
        PROVE  Sends(q)'
    <3>1. CASE q = p
      <4>1. /\ s \in Late /\ j.payload = job[p].payload
            /\ \/ j.act \in Notifying /\ CommittedAs(j.payload, j.ver, j.act)
               \/ j.act = "ForwardedAsIs" /\ s # "target"
        BY <1>1, <2>5, <3>1 DEF HandlerMoves, Late
      <4>2. CommittedAs(j.payload, j.ver, j.act) => CommittedAs(j.payload, j.ver, j.act)'
        BY DEF Stays
      <4> QED
        BY SMTT(30), <1>1, <3>1, <4>1, <4>2 DEF Sends, CommittedAs
    <3>2. CASE q # p
      <4>1. stage'[q] = stage[q] /\ job'[q] = job[q] /\ Sends(q)
        BY <1>1, <2>5, <3>2 DEF FlowInv, HandlerInv
      <4> QED
        BY <4>1 DEF Sends, CommittedAs, Stays
    <3> QED
      BY <3>1, <3>2
  <2> QED
    BY <1>4, <2>1, <2>2, <2>3, <2>4, <2>5, SMTT(30) DEF HandlerInv
<1>6. \A m \in published' : m \in published \/ (stage[p] = "publish" /\ m = Message(p))
  BY DEF HandlerMoves
<1>7. published \subseteq published'
  BY DEF HandlerMoves
<1>8. PublishedInv'
  <2>1. ASSUME NEW m \in published'
        PROVE  /\ m.payload \in seen' /\ m.act \in Sendable
               /\ m.act \in Notifying => CommittedAs(m.payload, m.ver, m.act)'
               /\ \A q \in Proc : stage'[q] \notin {"idle", "publish", "reply"} =>
                                 job'[q].payload # m.payload
    <3>1. CASE m \in published
      <4>1. /\ m.payload \in seen /\ m.act \in Sendable
            /\ m.act \in Notifying => CommittedAs(m.payload, m.ver, m.act)
            /\ \A q \in Proc : stage[q] \notin {"idle", "publish", "reply"} =>
                              job[q].payload # m.payload
        BY <3>1 DEF FlowInv, PublishedInv
      <4>2. m.act \in Notifying => CommittedAs(m.payload, m.ver, m.act)'
        BY <4>1 DEF Stays
      <4>3. \A q \in Proc : stage'[q] \notin {"idle", "publish", "reply"} =>
                           job'[q].payload # m.payload
        BY <1>1, <4>1 DEF HandlerMoves
      <4> QED
        BY <1>4, <4>1, <4>2, <4>3
    <3>2. CASE stage[p] = "publish" /\ m = Message(p)
      <4>1. m.payload = job[p].payload /\ m.act = job[p].act /\ m.ver = job[p].ver
        BY <3>2 DEF Message
      <4>2. Sends(p)
        BY <3>2 DEF FlowInv, HandlerInv, Late
      <4>3. /\ m.act \in Sendable
            /\ m.act \in Notifying => CommittedAs(m.payload, m.ver, m.act)
        BY <4>1, <4>2 DEF Sends, Sendable, Notifying
      <4>4. m.act \in Notifying => CommittedAs(m.payload, m.ver, m.act)'
        BY <4>3 DEF Stays
      <4>5. \A q \in Proc : stage'[q] \notin {"idle", "publish", "reply"} =>
                           job'[q].payload # m.payload
        BY <1>1, <1>3, <3>2, <4>1 DEF HandlerMoves
      <4> QED
        BY <1>3, <1>4, <4>1, <4>3, <4>4, <4>5, SMTT(30)
    <3> QED
      BY <1>6, <3>1, <3>2
  <2>2. ASSUME NEW q \in Proc, stage'[q] = "reply"
        PROVE  Published(job[q].payload, job[q].act)'
    <3>1. CASE q = p
      <4>1. Message(p) \in published' /\ job'[q] = job[p]
        BY <1>1, <2>2, <3>1 DEF HandlerMoves
      <4>2. Message(p).payload = job[p].payload /\ Message(p).act = job[p].act
        BY DEF Message
      <4> QED
        BY <4>1, <4>2 DEF Published
    <3>2. CASE q # p
      <4>1. job'[q] = job[q] /\ Published(job[q].payload, job[q].act)
        BY SMTT(30), <1>1, <2>2, <3>2 DEF FlowInv, PublishedInv
      <4> QED
        BY <1>7, <4>1 DEF Published
    <3> QED
      BY <3>1, <3>2
  <2> QED
    BY <2>1, <2>2 DEF PublishedInv
<1>9. ReplyInv'
  <2>1. ASSUME NEW r \in replies
        PROVE  /\ r.payload \in seen' /\ r.status \in Statuses /\ r.err \in BOOLEAN
               /\ \A q \in Proc : stage'[q] # "idle" => job'[q].payload # r.payload
               /\ r.status \in Refusals => r.payload \notin arrived'
               /\ r.status \in Refusals \cup {"NoOp", "SuppressFlapping"} =>
                    \A m \in published' : m.payload # r.payload
               /\ r.status \in Sendable => Published(r.payload, r.status)'
    <3>1. /\ r.payload \in seen /\ r.status \in Statuses /\ r.err \in BOOLEAN
          /\ \A q \in Proc : stage[q] # "idle" => job[q].payload # r.payload
          /\ r.status \in Refusals => r.payload \notin arrived
          /\ r.status \in Refusals \cup {"NoOp", "SuppressFlapping"} =>
               \A m \in published : m.payload # r.payload
          /\ r.status \in Sendable => Published(r.payload, r.status)
      BY SMTT(30) DEF FlowInv, ReplyInv
    <3>2. \A q \in Proc : stage'[q] # "idle" => job'[q].payload # r.payload
      BY SMTT(30), <1>1, <1>3, <3>1 DEF HandlerMoves
    <3>3. r.status \in Refusals => r.payload \notin arrived'
      BY <1>3, <1>4, <3>1
    <3>4. Message(p).payload = job[p].payload
      BY DEF Message
    <3>5. r.status \in Refusals \cup {"NoOp", "SuppressFlapping"} =>
            \A m \in published' : m.payload # r.payload
      BY SMTT(30), <1>3, <1>6, <3>1, <3>4
    <3>6. r.status \in Sendable => Published(r.payload, r.status)'
      BY SMTT(30), <1>7, <3>1 DEF Published
    <3> QED
      BY <1>4, <3>1, <3>2, <3>3, <3>5, <3>6, SMTT(30)
  <2>2. ASSUME NEW r, Replies(p, r), s = "idle"
        PROVE  /\ r.payload \in seen' /\ r.status \in Statuses /\ r.err \in BOOLEAN
               /\ \A q \in Proc : stage'[q] # "idle" => job'[q].payload # r.payload
               /\ r.status \in Refusals => r.payload \notin arrived'
               /\ r.status \in Refusals \cup {"NoOp", "SuppressFlapping"} =>
                    \A m \in published' : m.payload # r.payload
               /\ r.status \in Sendable => Published(r.payload, r.status)'
    <3>1. r.payload \in seen' /\ r.status \in Statuses /\ r.err \in BOOLEAN
      BY <1>3, <1>4, <2>2, SMTT(30) DEF Replies
    <3>2. \A q \in Proc : stage'[q] # "idle" => job'[q].payload # r.payload
      BY <1>1, <1>3, <2>2, SMTT(30) DEF Replies
    <3>3. r.status \in Refusals => r.payload \notin arrived'
      BY SMTT(30), <2>2 DEF Replies, HandlerMoves, FlowInv, HandlerInv
    <3>4. r.status \in Refusals \cup {"NoOp", "SuppressFlapping"} =>
            \A m \in published' : m.payload # r.payload
      <4>1. SUFFICES ASSUME r.status \in Refusals \cup {"NoOp", "SuppressFlapping"}
                     PROVE  \A m \in published' : m.payload # r.payload
        BY SMTT(30)
      <4>2. stage[p] \notin {"idle", "publish", "reply"} /\ r.payload = job[p].payload
        BY <1>3, <2>2, <4>1, SMTT(30) DEF Replies, Early
      <4> QED
        BY SMTT(30), <1>6, <4>2 DEF FlowInv, PublishedInv
    <3>5. r.status \in Sendable => Published(r.payload, r.status)'
      BY <1>7, <2>2, SMTT(30) DEF Replies, FlowInv, PublishedInv, Published
    <3> QED
      BY <3>1, <3>2, <3>3, <3>4, <3>5, SMTT(30)
  <2>3. \/ replies' = replies
        \/ s = "idle" /\ \E r : Replies(p, r) /\ replies' = replies \cup {r}
    BY DEF HandlerMoves
  <2> QED
    BY SMTT(30), <2>1, <2>2, <2>3 DEF ReplyInv
<1>10. BudgetInv'
  BY HandlerBudget
<1> QED
  BY SMTT(30), <1>2, <1>5, <1>8, <1>9, <1>10 DEF FlowInv

\* A step of handler p that leaves the evaluations of the others alone.
Alone(p) ==
  /\ seen' = seen /\ used' \in [Scopes -> Nat] /\ arrived' = arrived
  /\ \A q \in Proc : q # p => pc'[q] = pc[q] /\ req'[q] = req[q]
  /\ clock' = clock /\ Counts(p)

\* What handler p may answer, having published or not.
Answerable(p, status) ==
  /\ stage[p] # "idle" /\ pc'[p] = "idle" /\ Alone(p)
  /\ \/ published' = published
     \/ stage[p] = "publish" /\ published' = published \cup {Message(p)}
  /\ status \in Statuses \ {"rejected"}
  /\ status \in Refusals => stage[p] \in Early
  /\ status \in {"NoOp", "SuppressFlapping"} => stage[p] \notin {"publish", "reply"}
  /\ status \in Sendable => stage[p] = "reply" /\ status = job[p].act

\* Answering the client ends the handler.
LEMMA AnsweringStep ==
  ASSUME FlowInv, Stays, NEW p \in Proc, NEW code, NEW err \in BOOLEAN, NEW status,
         Answering(p, code, err, status), Answerable(p, status)
  PROVE  FlowInv'
<1>1. PICK r : r = [payload |-> job[p].payload, code |-> code, err |-> err, status |-> status]
  BY Zenon
<1>2. Replies(p, r)
  BY <1>1 DEF Replies, Answerable
<1>3. NoJob \in Jobs /\ "idle" \in Stages
  BY SMTT(30) DEF NoJob, Jobs, Stages, Sendable
<1>4. HandlerMoves(p, "idle", NoJob)
  BY SMTT(30), <1>1, <1>2 DEF HandlerMoves, Answerable, Answering, GoTo, Alone, Early, Late
<1> QED
  BY <1>3, <1>4, HandlerStep

\* What the actions outside the evaluation leave alone.
LEMMA UnchangedAlone ==
  ASSUME FlowInv, UNCHANGED vars, NEW p \in Proc, seen' = seen, used' \in [Scopes -> Nat],
         Counts(p)
  PROVE  Alone(p) /\ pc'[p] = pc[p] /\ (stage[p] # "edge" => pc'[p] = "idle")
BY DEF Alone, vars, FlowInv, HandlerInv

\* A limit of the caller sends the request on, or answers it before anything
\* was evaluated.
LEMMA LimitCallerStep ==
  ASSUME FlowInv, Stays, NEW p \in Proc, NEW here \in Early, NEW scope \in {"IP", "CLIENT"}, NEW rate,
         NEW next \in {"client", "route"}, LimitCaller(p, here, scope, rate, next)
  PROVE  FlowInv'
<1>1. /\ stage[p] = here /\ UNCHANGED vars /\ seen' = seen /\ published' = published
      /\ \/ GoTo(p, next) /\ UNCHANGED <<job, replies>>
         \/ Answering(p, 202, TRUE, "rate limit")
         \/ Answering(p, 202, TRUE, "rate limit check failed")
  BY Zenon DEF LimitCaller, Acquire
<1>2. used' = used \/ used' = [used EXCEPT ![scope] = @ + 1]
  BY Zenon DEF LimitCaller, Acquire
<1>3. used' \in [Scopes -> Nat] /\ Counts(p)
  BY <1>2 DEF FlowInv, FlowTyped, Scopes, Counts
<1>4. Alone(p) /\ pc'[p] = "idle" /\ stage[p] # "idle" /\ req' = req /\ arrived' = arrived
  BY <1>1, <1>3, UnchangedAlone, Zenon DEF Early, vars
<1>5. CASE GoTo(p, next) /\ UNCHANGED <<job, replies>>
  <2>1. PICK j : j = job[p]
    OBVIOUS
  <2>2. j \in Jobs /\ next \in Stages /\ job' = [job EXCEPT ![p] = j]
    BY <1>5, <2>1 DEF FlowInv, FlowTyped, Stages
  <2>3. HandlerMoves(p, next, j)
    BY <1>1, <1>4, <1>5, <2>1, <2>2, Zenon DEF HandlerMoves, GoTo, Alone, Early, Late
  <2> QED
    BY <2>2, <2>3, HandlerStep
<1>6. /\ Answerable(p, "rate limit")
      /\ Answerable(p, "rate limit check failed")
  BY <1>1, <1>4, Zenon DEF Answerable, Statuses, Sendable, Notifying, Refusals
<1>7. CASE Answering(p, 202, TRUE, "rate limit")
  BY <1>6, <1>7, AnsweringStep, Zenon
<1>8. CASE Answering(p, 202, TRUE, "rate limit check failed")
  BY <1>6, <1>8, AnsweringStep, Zenon
<1> QED
  BY <1>1, <1>5, <1>7, <1>8, Zenon

\* The target's limit sends the request on to the publishing, or answers it
\* before anything was published.
LEMMA LimitTargetStep ==
  ASSUME IInv, FlowInv, Stays, NEW p \in Proc, LimitTarget(p)
  PROVE  FlowInv'
<1>1. /\ stage[p] = "target" /\ UNCHANGED vars /\ seen' = seen /\ published' = published
      /\ \/ /\ GoTo(p, "publish") /\ job' = [job EXCEPT ![p].minute = Minute] /\ UNCHANGED replies
            /\ ~(TargetRate(p) > 0) \/ used' = [used EXCEPT !["TARGET"] = @ + 1]
         \/ Answering(p, 429, FALSE, "NoOp")
         \/ Answering(p, 500, TRUE, "rate limit check failed")
  BY Zenon DEF LimitTarget, Acquire
<1>2. \/ used' = used
      \/ used' = [used EXCEPT !["TARGET"] = @ + 1] /\ used["TARGET"] < TargetRate(p)
  BY ZenonT(30) DEF LimitTarget, Acquire
<1>3. used' \in [Scopes -> Nat] /\ Counts(p)
  <2>1. job[p].cc.SNSRPM \in Nat /\ used["TARGET"] \in Nat
    BY <1>1, BudgetTyped DEF FlowInv, HandlerInv
  <2>2. \/ used' = used
        \/ /\ used' = [used EXCEPT !["TARGET"] = used["TARGET"] + 1]
           /\ used["TARGET"] + 1 <= job[p].cc.SNSRPM
    BY <1>2, <2>1 DEF TargetRate
  <2> QED
    BY <2>1, <2>2 DEF FlowInv, FlowTyped, Scopes, Counts
<1>4. Alone(p) /\ pc'[p] = "idle" /\ req' = req /\ arrived' = arrived
  BY <1>1, <1>3, UnchangedAlone, Zenon DEF vars
<1>5. CASE /\ GoTo(p, "publish") /\ job' = [job EXCEPT ![p].minute = Minute] /\ UNCHANGED replies
           /\ ~(TargetRate(p) > 0) \/ used' = [used EXCEPT !["TARGET"] = @ + 1]
  <2>1. PICK j : j = [job[p] EXCEPT !.minute = Minute]
    BY Zenon
  <2>2. Minute \in {c \div MinuteSeconds : c \in 0..MaxTime}
    BY DEF Minute, IInv, EvalTypeOK
  <2>3. /\ j \in Jobs /\ j.payload = job[p].payload /\ j.cc = job[p].cc
        /\ j.act = job[p].act /\ j.ver = job[p].ver /\ j.minute = Minute
    BY <2>1, <2>2 DEF FlowInv, FlowTyped, Jobs
  <2>4. job' = [job EXCEPT ![p] = j] /\ "publish" \in Stages
    BY <1>5, <2>1 DEF FlowInv, FlowTyped, Stages
  <2>5. j.act \in Notifying /\ CommittedAs(job[p].payload, j.ver, j.act)
    BY <1>1, <2>3, Zenon DEF FlowInv, HandlerInv, Sends, Late
  <2>6. Paid(p, j)
    BY <1>5, <2>3 DEF Paid, TargetRate, FlowInv, FlowTyped, Scopes
  <2>7. HandlerMoves(p, "publish", j)
    BY <1>1, <1>4, <1>5, <2>3, <2>4, <2>5, <2>6, Zenon DEF HandlerMoves, GoTo, Alone, Early, Late
  <2> QED
    BY <2>3, <2>4, <2>7, HandlerStep
<1>6. Answerable(p, "NoOp") /\ Answerable(p, "rate limit check failed")
  BY <1>1, <1>4, Zenon DEF Answerable, Statuses, Sendable, Notifying, Refusals
<1>7. CASE Answering(p, 429, FALSE, "NoOp")
  BY <1>6, <1>7, AnsweringStep, ZenonT(30)
<1>8. CASE Answering(p, 500, TRUE, "rate limit check failed")
  BY <1>6, <1>8, AnsweringStep, Zenon
<1> QED
  BY <1>1, <1>5, <1>7, <1>8, Zenon

\* The route of a request: forwarded as it is, answered for want of a value,
\* or evaluated.
LEMMA RouteStep ==
  ASSUME IInv, FlowInv, Stays, NEW p \in Proc, ForwardAsIs(p) \/ NoTriggerValue(p) \/ Evaluating(p)
  PROVE  FlowInv'
<1>1. /\ stage[p] = "route" /\ seen' = seen /\ published' = published /\ used' = used
      /\ used' \in [Scopes -> Nat] /\ pc[p] = "idle" /\ Counts(p)
  BY Zenon DEF ForwardAsIs, NoTriggerValue, Evaluating, FlowInv, FlowTyped, HandlerInv, Counts
<1>2. CASE ForwardAsIs(p)
  <2>1. PICK j : j = [job[p] EXCEPT !.act = "ForwardedAsIs"]
    BY Zenon
  <2>2. /\ j \in Jobs /\ j.payload = job[p].payload /\ j.cc = job[p].cc
        /\ j.act = "ForwardedAsIs"
    BY <2>1 DEF FlowInv, FlowTyped, Jobs, Sendable
  <2>3. job' = [job EXCEPT ![p] = j] /\ "publish" \in Stages
    BY <1>2, <2>1 DEF ForwardAsIs, FlowInv, FlowTyped, Stages
  <2>4. Alone(p) /\ pc'[p] = "idle"
    BY <1>1, <1>2, UnchangedAlone DEF ForwardAsIs
  <2>5. HandlerMoves(p, "publish", j)
    BY <1>1, <1>2, <2>2, <2>3, <2>4, Zenon
    DEF ForwardAsIs, HandlerMoves, GoTo, Alone, Early, Late, Paid
  <2> QED
    BY <2>2, <2>3, <2>5, HandlerStep, SMTT(30)
<1>3. CASE NoTriggerValue(p)
  <2>1. Alone(p) /\ pc'[p] = "idle"
    BY <1>1, <1>3, UnchangedAlone, Zenon DEF NoTriggerValue
  <2>2. Answerable(p, "NoOp") /\ Answerable(p, "trigger field eval error")
    BY <1>1, <2>1 DEF Answerable, Statuses, Sendable, Notifying, Refusals, Early
  <2> QED
    BY <1>3, <2>2, AnsweringStep, ZenonT(30) DEF NoTriggerValue
<1>4. CASE Evaluating(p)
  <2>1. PICK j : j = job[p]
    OBVIOUS
  <2>2. j \in Jobs /\ "edge" \in Stages /\ job' = [job EXCEPT ![p] = j]
    BY <1>4, <2>1, SMTT(30) DEF Evaluating, FlowInv, FlowTyped, Stages
  <2>3. PICK v \in Values : BeginWith(p, job[p].payload, v, job[p].cc.Flapping)
    BY SMTT(30), <1>4 DEF Evaluating
  <2>4. /\ pc'[p] = "load" /\ req'[p].payload = job[p].payload
        /\ arrived' = arrived \cup {job[p].payload} /\ clock' = clock
        /\ \A q \in Proc : q # p => pc'[q] = pc[q] /\ req'[q] = req[q]
    BY <2>3 DEF BeginWith, IInv, EvalTypeOK
  <2>5. HandlerMoves(p, "edge", j)
    BY <1>1, <1>4, <2>1, <2>2, <2>4, Zenon DEF Evaluating, HandlerMoves, GoTo, Early, Late
  <2> QED
    BY <2>2, <2>5, HandlerStep
<1> QED
  BY <1>2, <1>3, <1>4

\* A step of the evaluation leaves the rest of the pipeline as it is.
LEMMA EdgeStepStep ==
  ASSUME IInv, FlowInv, Stays, NEW p \in Proc, EdgeStep(p)
  PROVE  FlowInv'
<1>1. /\ stage[p] = "edge" /\ UNCHANGED flowVars
      /\ Load(p) \/ LoadFail(p) \/ Commit(p) \/ LoseRace(p) \/ CasFail(p) \/ LostReply(p)
  BY DEF EdgeStep, Cas
<1>2. /\ pc[p] # "idle" /\ req' = req /\ arrived' = arrived /\ clock' = clock
      /\ pc' = pc \/ \E c \in {"cas", "done"} : pc' = [pc EXCEPT ![p] = c]
  BY <1>1, Zenon
  DEF Load, LoadFail, Commit, LoseRace, CasFail, LostReply, Finish, Won, Raced, Failed
<1>3. pc'[p] # "idle" /\ \A q \in Proc : q # p => pc'[q] = pc[q]
  BY <1>2 DEF IInv, EvalTypeOK
<1>4. PICK j : j = job[p]
  OBVIOUS
<1>5. /\ j \in Jobs /\ "edge" \in Stages /\ used' \in [Scopes -> Nat]
      /\ job' = [job EXCEPT ![p] = j] /\ stage' = [stage EXCEPT ![p] = "edge"]
  BY <1>1, <1>4 DEF flowVars, FlowInv, FlowTyped, Stages
<1>6. req[p].payload = job[p].payload
  BY <1>1 DEF FlowInv, HandlerInv
<1>7. HandlerMoves(p, "edge", j)
  BY <1>1, <1>2, <1>3, <1>4, <1>5, <1>6, ZenonT(30) DEF flowVars, HandlerMoves, Early, Late, Counts
<1> QED
  BY <1>5, <1>7, HandlerStep

\* A request over, by its return or by a crash, leaves the others alone.
LEMMA ForgetAlone ==
  ASSUME IInv, FlowInv, NEW p \in Proc, Forget(p), arrived' = arrived, seen' = seen, used' = used,
         clock' = clock
  PROVE  Alone(p) /\ pc'[p] = "idle"
BY DEF Forget, Alone, Counts, IInv, EvalTypeOK, FlowInv, FlowTyped

\* The evaluation's result sends the request on only when it was committed.
LEMMA EvaluatedStep ==
  ASSUME IInv, FlowInv, Stays, NEW p \in Proc, Evaluated(p)
  PROVE  FlowInv'
<1>1. /\ stage[p] = "edge" /\ pc[p] = "done" /\ seen' = seen /\ published' = published
      /\ used' = used /\ arrived' = arrived /\ clock' = clock /\ Forget(p)
  BY Zenon DEF Evaluated, Return
<1>2. Alone(p) /\ pc'[p] = "idle"
  BY <1>1, ForgetAlone
<1>3. /\ res[p].act \in Notifying \cup {"SuppressFlapping", "NoOp"} /\ res[p].ver \in Nat
      /\ res[p].err \in BOOLEAN
  BY DEF IInv, EvalTypeOK, Answers
<1>4. CASE res[p].err
  <2>1. Answerable(p, "edge evaluation error")
    BY <1>1, <1>2 DEF Answerable, Statuses, Sendable, Notifying, Refusals
  <2> QED
    BY <1>4, <2>1, AnsweringStep, ZenonT(30) DEF Evaluated
<1>5. CASE ~res[p].err /\ res[p].act \in Notifying
  <2>1. PICK j : j = [job[p] EXCEPT !.act = res[p].act, !.ver = res[p].ver]
    OBVIOUS
  <2>2. /\ j.payload = job[p].payload /\ j.cc = job[p].cc
        /\ j.act = res[p].act /\ j.ver = res[p].ver
    BY <2>1 DEF FlowInv, FlowTyped, Jobs
  <2>3. j \in Jobs /\ "target" \in Stages
    BY <1>3, <1>5, <2>1, ZenonT(30) DEF FlowInv, FlowTyped, Jobs, Sendable, Stages
  <2>4. /\ job' = [job EXCEPT ![p].act = res[p].act, ![p].ver = res[p].ver]
        /\ GoTo(p, "target") /\ replies' = replies
    BY <1>5 DEF Evaluated
  <2>5. job' = [job EXCEPT ![p] = j]
    BY <2>1, <2>4, Zenon DEF FlowInv, FlowTyped
  <2>6. CommittedAs(job[p].payload, j.ver, j.act) /\ j.act \in Notifying
    BY <1>1, <1>5, <2>2 DEF IInv, AnswersCommitted, Notifies, FlowInv, HandlerInv
  <2>7. HandlerMoves(p, "target", j)
    BY <1>1, <1>2, <2>2, <2>4, <2>5, <2>6, Zenon DEF HandlerMoves, GoTo, Alone, Early, Late
  <2> QED
    BY <2>3, <2>7, HandlerStep
<1>6. CASE ~res[p].err /\ res[p].act \notin Notifying
  <2>1. PICK a : a = res[p].act
    OBVIOUS
  <2>2. a \in {"SuppressFlapping", "NoOp"} /\ Answering(p, 202, FALSE, a)
    BY <1>3, <1>6, <2>1, Zenon DEF Evaluated
  <2>3. Answerable(p, a)
    BY <1>1, <1>2, <2>2, Zenon DEF Answerable, Statuses, Sendable, Notifying, Refusals
  <2> QED
    BY <2>2, <2>3, AnsweringStep, Zenon
<1> QED
  BY <1>3, <1>4, <1>5, <1>6

\* Publishing, its retries and its failures, and the reply after it.
LEMMA PublishStep ==
  ASSUME FlowInv, Stays, NEW p \in Proc, Publish(p) \/ PublishFail(p) \/ Reply(p)
  PROVE  FlowInv'
<1>1. /\ stage[p] \in {"publish", "reply"} /\ UNCHANGED vars /\ seen' = seen /\ used' = used
      /\ \/ published' = published
         \/ stage[p] = "publish" /\ published' = published \cup {Message(p)}
  BY ZenonT(30) DEF Publish, PublishFail, Reply
<1>2. Alone(p) /\ pc'[p] = "idle" /\ arrived' = arrived
  BY <1>1, UnchangedAlone, SMTT(30) DEF FlowInv, FlowTyped, vars, Counts
<1>3. Sends(p)
  BY <1>1 DEF FlowInv, HandlerInv, Late
<1>4. PICK j : j = job[p]
  OBVIOUS
<1>5. j \in Jobs /\ "publish" \in Stages /\ "reply" \in Stages
  BY <1>4 DEF FlowInv, FlowTyped, Stages
<1>6. ASSUME NEW s \in {"publish", "reply"}, stage' = [stage EXCEPT ![p] = s],
             UNCHANGED <<job, replies>>, stage[p] = "publish",
             published' = published \cup {Message(p)}
      PROVE  FlowInv'
  <2>1. job' = [job EXCEPT ![p] = j]
    BY <1>4, <1>6 DEF FlowInv, FlowTyped
  <2>2. HandlerMoves(p, s, j)
    BY <1>1, <1>2, <1>3, <1>4, <1>6, <2>1, Zenon
    DEF HandlerMoves, Alone, Early, Late, Sends, Paid
  <2> QED
    BY <1>5, <1>6, <2>2, HandlerStep, SMTT(30)
<1>7. CASE Publish(p) /\ GoTo(p, "reply") /\ UNCHANGED <<job, replies>>
  BY <1>6, <1>7 DEF Publish, GoTo
<1>8. CASE Publish(p) /\ UNCHANGED <<stage, job, replies>>
  <2>1. stage' = [stage EXCEPT ![p] = "publish"]
    BY <1>8 DEF Publish, FlowInv, FlowTyped
  <2> QED
    BY <1>6, <1>8, <2>1, Zenon DEF Publish
<1>9. CASE Answering(p, 500, TRUE, "failed to publish")
  <2>1. Answerable(p, "failed to publish")
    BY <1>1, <1>2 DEF Answerable, Statuses, Sendable, Notifying, Refusals
  <2> QED
    BY <1>9, <2>1, AnsweringStep, ZenonT(30)
<1>10. CASE Reply(p)
  <2>1. PICK a : a = job[p].act
    OBVIOUS
  <2>2. a \in Sendable /\ Answering(p, 202, FALSE, a) /\ stage[p] = "reply"
    BY <1>3, <1>10, <2>1, Zenon DEF Reply, Sends, Sendable
  <2>3. Answerable(p, a)
    BY <1>1, <1>2, <2>1, <2>2, Zenon DEF Answerable, Statuses, Sendable, Notifying, Refusals
  <2> QED
    BY <2>2, <2>3, AnsweringStep, Zenon
<1> QED
  BY <1>7, <1>8, <1>9, <1>10, Zenon DEF Publish, PublishFail

\* A crash ends a handler wherever it is.
LEMMA CrashStep ==
  ASSUME IInv, FlowInv, Stays, NEW p \in Proc, NotifyCrash(p)
  PROVE  FlowInv'
<1>1. /\ stage[p] # "idle" /\ GoTo(p, "idle") /\ job' = [job EXCEPT ![p] = NoJob]
      /\ seen' = seen /\ used' = used /\ published' = published /\ replies' = replies
  BY DEF NotifyCrash
<1>2. Alone(p) /\ pc'[p] = "idle"
  <2>1. CASE pc[p] # "idle"
    BY <1>1, <2>1, ForgetAlone, SMTT(30) DEF NotifyCrash, Crash
  <2>2. CASE pc[p] = "idle"
    BY <1>1, <2>2, UnchangedAlone, SMTT(30) DEF NotifyCrash, FlowInv, FlowTyped, Counts
  <2> QED
    BY <2>1, <2>2
<1>3. NoJob \in Jobs /\ "idle" \in Stages
  BY SMTT(30) DEF NoJob, Jobs, Stages, Sendable
<1>4. HandlerMoves(p, "idle", NoJob)
  BY <1>1, <1>2 DEF HandlerMoves, GoTo, Alone, Early, Late
<1> QED
  BY <1>3, <1>4, HandlerStep

\* A request that arrives brings a notification nobody has seen.
LEMMA ArriveStep ==
  ASSUME FlowInv, NEW p \in Proc, Arrive(p)
  PROVE  FlowInv'
<1>1. PICK n \in Payloads \ seen, cc \in Configs :
        /\ seen' = seen \cup {n}
        /\ job' = [job EXCEPT ![p] = [NoJob EXCEPT !.payload = n, !.cc = cc]]
  BY Zenon DEF Arrive
<1>2. PICK j : j = [NoJob EXCEPT !.payload = n, !.cc = cc]
  OBVIOUS
<1>3. j \in Jobs /\ j.payload = n /\ j.cc = cc
  BY <1>2, Zenon DEF NoJob, Jobs, Sendable
<1>4. /\ stage[p] = "idle" /\ stage' = [stage EXCEPT ![p] = "ip"] /\ job' = [job EXCEPT ![p] = j]
      /\ pc' = pc /\ req' = req /\ arrived' = arrived /\ history' = history
      /\ used' = used /\ published' = published /\ replies' = replies /\ clock' = clock
  BY <1>1, <1>2, Zenon DEF Arrive, GoTo, vars
<1>5. /\ stage'[p] = "ip" /\ job'[p] = j
      /\ \A q \in Proc : q # p => stage'[q] = stage[q] /\ job'[q] = job[q]
  BY <1>4 DEF FlowInv, FlowTyped
<1>6. FlowTyped'
  BY SMTT(30), <1>1, <1>3, <1>4 DEF FlowInv, FlowTyped, Stages
<1>7. HandlerInv'
  <2>1. /\ arrived' \subseteq seen' /\ n \notin arrived
        /\ \A q \in Proc : stage'[q] # "idle" => job'[q].payload \in seen' /\ job'[q].cc \in Configs
    BY <1>1, <1>3, <1>4, <1>5, SMTT(30) DEF FlowInv, HandlerInv
  <2>2. \A q, r \in Proc :
          q # r /\ stage'[q] # "idle" /\ stage'[r] # "idle" => job'[q].payload # job'[r].payload
    BY SMTT(30), <1>1, <1>3, <1>5 DEF FlowInv, HandlerInv
  <2>3. \A q \in Proc : /\ pc'[q] # "idle" <=> stage'[q] = "edge"
                        /\ stage'[q] = "edge" => req'[q].payload = job'[q].payload
    BY SMTT(30), <1>4, <1>5 DEF FlowInv, HandlerInv
  <2>4. \A q \in Proc : stage'[q] \in Early => job'[q].payload \notin arrived'
    BY <1>3, <1>4, <1>5, <2>1, SMTT(30) DEF FlowInv, HandlerInv
  <2>5. \A q \in Proc : stage'[q] \in Late => Sends(q)'
    BY <1>4, <1>5 DEF FlowInv, HandlerInv, Late, Sends, CommittedAs
  <2> QED
    BY <2>1, <2>2, <2>3, <2>4, <2>5, SMTT(30) DEF HandlerInv
<1>8. PublishedInv'
  BY <1>1, <1>3, <1>4, <1>5 DEF FlowInv, PublishedInv, Published, CommittedAs
<1>9. ReplyInv'
  BY <1>1, <1>3, <1>4, <1>5 DEF FlowInv, ReplyInv, Published
<1>10. BudgetInv'
  <2>1. Pending' \subseteq Pending
    BY <1>5, Zenon DEF Pending, Message
  <2> QED
    BY <1>4, <2>1, NothingGranted
<1> QED
  BY <1>6, <1>7, <1>8, <1>9, <1>10, SMTT(30) DEF FlowInv

\* A request refused at the door leaves only its reply.
LEMMA RejectStep ==
  ASSUME FlowInv, Reject
  PROVE  FlowInv'
<1>1. PICK n \in Payloads \ seen, code \in {400, 401, 405} :
        /\ seen' = seen \cup {n}
        /\ replies' = replies \cup {[payload |-> n, code |-> code, err |-> TRUE,
                                     status |-> "rejected"]}
        /\ UNCHANGED <<vars, stage, job, used, published>>
  BY Zenon DEF Reject
<1> DEFINE r == [payload |-> n, code |-> code, err |-> TRUE, status |-> "rejected"]
<1>2. r.payload = n /\ r.err \in BOOLEAN /\ r.status = "rejected"
  OBVIOUS
<1>3. /\ r.payload = n /\ r.err \in BOOLEAN /\ r.status = "rejected"
      /\ seen' = seen \cup {n} /\ replies' = replies \cup {r}
  BY <1>1, <1>2, Zenon
<1> HIDE DEF r
<1>4. /\ pc' = pc /\ req' = req /\ arrived' = arrived /\ history' = history /\ clock' = clock
      /\ stage' = stage /\ job' = job /\ used' = used /\ published' = published
  BY <1>1, Zenon DEF vars
<1>5. /\ n \notin seen /\ arrived \subseteq seen
      /\ \A p \in Proc : stage[p] # "idle" => job[p].payload \in seen
      /\ \A m \in published : m.payload \in seen
  BY <1>1, Zenon DEF FlowInv, HandlerInv, PublishedInv
<1>6. FlowTyped'
  BY <1>1, <1>3, <1>4, SMTT(30) DEF FlowInv, FlowTyped
<1>7. HandlerInv'
  BY <1>3, <1>4, SMTT(30) DEF FlowInv, HandlerInv, Sends, CommittedAs
<1>8. PublishedInv'
  BY <1>3, <1>4, SMTT(30) DEF FlowInv, PublishedInv, CommittedAs, Published
<1>9. ReplyInv'
  <2>1. r.status \in Statuses /\ r.status \notin Sendable
    BY <1>3, Zenon DEF Statuses, Sendable, Notifying
  <2>2. /\ \A p \in Proc : stage[p] # "idle" => job[p].payload # r.payload
        /\ r.payload \notin arrived /\ \A m \in published : m.payload # r.payload
    BY <1>3, <1>5, SMTT(30)
  <2>3. \A x \in replies' : x \in replies \/ x = r
    BY <1>3, Zenon
  <2> QED
    BY <1>3, <1>4, <2>1, <2>2, <2>3, SMTT(30) DEF FlowInv, ReplyInv, Published
<1>10. BudgetInv'
  BY <1>4, NothingGranted, SMTT(30) DEF Pending, Message
<1> QED
  BY <1>6, <1>7, <1>8, <1>9, <1>10, Zenon DEF FlowInv
-----------------------------------------------------------------------------
\* Every step of the pipeline is a step of the requests, or none of theirs.
LEMMA PipelineStep ==
  ASSUME IInv, FlowInv, [NotifyNext]_allVars
  PROVE  [Next]_vars
<1>1. ASSUME NEW p \in Proc, Evaluating(p)
      PROVE  Begin(p)
  <2>1. PICK v \in Values : BeginWith(p, job[p].payload, v, job[p].cc.Flapping)
    BY SMTT(30), <1>1 DEF Evaluating
  <2>2. job[p].payload \in Payloads \ arrived
    BY <1>1, SMTT(30) DEF Evaluating, FlowInv, FlowTyped, HandlerInv, Early
  <2>3. job[p].cc.Flapping \in FlapConfigs
    BY <1>1, NotifyAssumption DEF Evaluating, FlowInv, HandlerInv, ClientConfig
  <2> QED
    BY <2>1, <2>2, <2>3 DEF Begin
<1>2. ASSUME NEW p \in Proc, EdgeStep(p) \/ Evaluated(p)
      PROVE  Step(p) \/ Cas(p) \/ LostReply(p)
  BY <1>2, Zenon DEF EdgeStep, Evaluated, Step
<1>3. ASSUME NEW p \in Proc, NotifyCrash(p)
      PROVE  Crash(p) \/ UNCHANGED vars
  BY <1>3 DEF NotifyCrash
<1>4. ASSUME NEW p \in Proc, \/ Arrive(p) \/ LimitIP(p) \/ LimitClient(p) \/ ForwardAsIs(p)
                             \/ NoTriggerValue(p) \/ LimitTarget(p) \/ Publish(p)
                             \/ PublishFail(p) \/ Reply(p)
      PROVE  UNCHANGED vars
  BY <1>4, Zenon DEF Arrive, LimitIP, LimitClient, LimitCaller, ForwardAsIs, NoTriggerValue,
     LimitTarget, Publish, PublishFail, Reply
<1>5. NotifyTick => Tick
  BY DEF NotifyTick
<1>6. Reject \/ UNCHANGED allVars => UNCHANGED vars
  BY DEF Reject, allVars
<1> QED
  BY <1>1, <1>2, <1>3, <1>4, <1>5, <1>6, SMTT(30) DEF NotifyNext, Handle, Next

\* The minute of the next second is the same, or the next one.
LEMMA NextMinute ==
  ASSUME FlowInv, clock' = clock + 1
  PROVE  \/ (clock + 1) % MinuteSeconds = 0 /\ Minute' = Minute + 1
         \/ (clock + 1) % MinuteSeconds # 0 /\ Minute' = Minute
<1>1. clock \in Nat /\ MinuteSeconds \in Nat \ {0}
  BY NotifyAssumption DEF FlowInv, FlowTyped
<1> DEFINE x == clock % MinuteSeconds
           y == (clock + 1) % MinuteSeconds
<1>2. x \in 0..(MinuteSeconds - 1) /\ ((y = 0 /\ Minute' = Minute + 1) \/ (y = x + 1 /\ Minute' = Minute))
  BY Zenon, <1>1, CountedOn DEF Minute
<1> HIDE DEF x, y
<1>3. (y = 0 /\ Minute' = Minute + 1) \/ (y # 0 /\ Minute' = Minute)
  BY <1>1, <1>2
<1> QED
  BY Zenon, <1>3 DEF y

\* A second that ends the minute ends its budget.
LEMMA BudgetTick ==
  ASSUME FlowInv, NotifyTick
  PROVE  BudgetInv'
<1>1. /\ used["TARGET"] \in Nat /\ Minute \in Nat /\ \A cc \in Configs : cc.SNSRPM \in Nat
      /\ \/ (clock + 1) % MinuteSeconds = 0 /\ Minute' = Minute + 1
         \/ (clock + 1) % MinuteSeconds # 0 /\ Minute' = Minute
  BY BudgetTyped, NextMinute, Zenon DEF NotifyTick, Tick
<1>2. Pending' = Pending /\ published' = published
  BY DEF NotifyTick, Pending, Message
<1>3. \A t : Granted(t)' = Granted(t)
  BY <1>2 DEF Granted
<1>4. CASE (clock + 1) % MinuteSeconds = 0 /\ Minute' = Minute + 1
  <2>1. used'["TARGET"] = 0
    BY <1>4 DEF NotifyTick, Scopes
  <2>2. \E cc \in Configs : used'["TARGET"] <= cc.SNSRPM
    BY <1>1, <2>1, NotifyAssumption
  <2>3. Granted(Minute)' = {}
    <3>1. Granted(Minute + 1) = {}
      BY <1>1 DEF FlowInv, BudgetInv
    <3> QED
      BY <1>2, <1>4, <3>1 DEF Granted
  <2>4. Numbered(Granted(Minute), used["TARGET"])'
    BY <2>1, <2>3, NumberedNone DEF Numbered
  <2>5. ASSUME NEW t \in Nat, t < Minute + 1
        PROVE  \E cc \in Configs : Numbered(Granted(t), cc.SNSRPM)
    <3>1. PICK cc \in Configs : used["TARGET"] <= cc.SNSRPM
      BY DEF FlowInv, BudgetInv
    <3>2. CASE t = Minute
      BY <1>1, <3>1, <3>2, NumberedFewer DEF FlowInv, BudgetInv
    <3> QED
      BY <1>1, <2>5, <3>2 DEF FlowInv, BudgetInv
  <2>6. ASSUME NEW t \in Nat, t > Minute + 1
        PROVE  Granted(t) = {}
    BY <1>1, <2>6 DEF FlowInv, BudgetInv
  <2> QED
    BY <1>3, <1>4, <2>2, <2>4, <2>5, <2>6 DEF BudgetInv, Numbered
<1>5. CASE (clock + 1) % MinuteSeconds # 0 /\ Minute' = Minute
  <2>1. used' = used
    BY <1>5 DEF NotifyTick
  <2>2. Granted(Minute)' = Granted(Minute)
    BY <1>2, <1>5 DEF Granted
  <2> QED
    BY <1>3, <1>5, <2>1, <2>2 DEF FlowInv, BudgetInv, Numbered
<1> QED
  BY <1>1, <1>4, <1>5

\* The rest of the invariant asks of clock and counters only that they are numbers.
LEMMA UntouchedStep ==
  ASSUME FlowInv, BudgetInv', clock' \in Nat, used' \in [Scopes -> Nat],
         UNCHANGED <<stage, job, seen, published, replies, arrived, pc, req, history>>
  PROVE  FlowInv'
<1>1. /\ stage' = stage /\ job' = job /\ seen' = seen /\ published' = published
      /\ replies' = replies /\ arrived' = arrived /\ pc' = pc /\ req' = req
      /\ history' = history
  OBVIOUS
<1>2. FlowTyped'
  BY SMTT(30), <1>1 DEF FlowInv, FlowTyped
<1>3. HandlerInv'
  BY <1>1 DEF FlowInv, HandlerInv, Sends, CommittedAs
<1>4. PublishedInv'
  BY SMTT(30), <1>1 DEF FlowInv, PublishedInv, CommittedAs, Published
<1>5. ReplyInv'
  BY <1>1 DEF FlowInv, ReplyInv, Published
<1> QED
  BY <1>2, <1>3, <1>4, <1>5 DEF FlowInv

\* Every step of the pipeline preserves its invariant.
LEMMA FlowStep ==
  ASSUME IInv, FlowInv, [NotifyNext]_allVars
  PROVE  FlowInv'
<1>1. Stays
  BY PipelineStep, CommittedStays
<1>2. ASSUME NEW p \in Proc, LimitIP(p) \/ LimitClient(p)
      PROVE  FlowInv'
  <2>1. PICK r1, r2 : r1 = job[p].cc.IPRPM /\ r2 = job[p].cc.ClientRPM
    OBVIOUS
  <2>2. \/ LimitCaller(p, "ip", "IP", r1, "client")
        \/ LimitCaller(p, "client", "CLIENT", r2, "route")
    BY <1>2, <2>1 DEF LimitIP, LimitClient
  <2>3. {"ip", "client"} \subseteq Early
    BY DEF Early
  <2> QED
    BY <1>1, <2>2, <2>3, LimitCallerStep
<1>3. ASSUME NEW p \in Proc, Arrive(p) \/ Handle(p) \/ NotifyCrash(p)
      PROVE  FlowInv'
  BY <1>1, <1>2, <1>3, ArriveStep, RouteStep, EdgeStepStep, EvaluatedStep, LimitTargetStep,
     PublishStep, CrashStep, SMTT(30) DEF Handle
<1>4. CASE NotifyTick
  <2>1. clock' \in Nat /\ used' \in [Scopes -> Nat]
    BY <1>4 DEF NotifyTick, Tick, FlowInv, FlowTyped
  <2>2. UNCHANGED <<stage, job, seen, published, replies, arrived, pc, req, history>>
    BY Zenon, <1>4 DEF NotifyTick, Tick
  <2> QED
    BY <1>4, <2>1, <2>2, BudgetTick, UntouchedStep
<1>5. CASE UNCHANGED allVars
  <2>1. /\ clock' = clock /\ used' = used
        /\ UNCHANGED <<stage, job, seen, published, replies, arrived, pc, req, history>>
    BY <1>5 DEF allVars, flowVars, vars
  <2>2. BudgetInv'
    BY <2>1, NothingGranted DEF Pending, Message
  <2> QED
    BY <2>1, <2>2, UntouchedStep DEF FlowInv, FlowTyped
<1> QED
  BY <1>3, <1>4, <1>5, RejectStep, SMTT(30) DEF NotifyNext

\* The inductive invariant of the pipeline, with that of its evaluations.
THEOREM FlowInvariance == NotifySpec => [](IInv /\ FlowInv)
<1>1. NotifyInit => IInv /\ FlowInv
  <2> SUFFICES ASSUME NotifyInit PROVE IInv /\ FlowInv
    OBVIOUS
  <2>1. IInv
    BY InitIInv DEF NotifyInit
  <2>2. FlowTyped
    <3>1. NoJob \in Jobs /\ "idle" \in Stages
      BY SMTT(30) DEF NoJob, Jobs, Stages, Sendable
    <3> QED
      BY SMTT(30), <2>1, <3>1 DEF NotifyInit, FlowTyped, IInv, EvalTypeOK
  <2>3. HandlerInv /\ PublishedInv /\ ReplyInv
    BY Zenon DEF NotifyInit, Init, HandlerInv, PublishedInv, ReplyInv, Early, Late
  <2>4. BudgetInv
    <3>1. used["TARGET"] = 0 /\ published = {} /\ \A p \in Proc : stage[p] # "publish"
      BY DEF NotifyInit, Scopes
    <3>2. \A t : Granted(t) = {}
      BY <3>1 DEF Granted, Pending
    <3>3. \E cc \in Configs : 0 <= cc.SNSRPM
      BY NotifyAssumption DEF ClientConfig
    <3>4. \A cc \in Configs : Numbered({}, cc.SNSRPM) /\ Numbered({}, 0)
      BY NumberedNone, NotifyAssumption DEF ClientConfig
    <3> QED
      BY <3>1, <3>2, <3>3, <3>4 DEF BudgetInv
  <2> QED
    BY <2>1, <2>2, <2>3, <2>4 DEF FlowInv
<1>2. IInv /\ FlowInv /\ [NotifyNext]_allVars => (IInv /\ FlowInv)'
  BY PipelineStep, NextStep, FlowStep
<1> QED
  BY <1>1, <1>2, PTL DEF NotifySpec

\* The handlers' evaluations are those of concurrent requests over the DynamoDB
\* store: limits, publishing, errors and crashes around an evaluation are no
\* step of it, and no notification is evaluated twice.
THEOREM PipelineEvaluates == NotifySpec => Spec
<1>1. NotifyInit => Init
  BY DEF NotifyInit
<1>2. IInv /\ FlowInv /\ [NotifyNext]_allVars => [Next]_vars
  BY PipelineStep
<1> QED
  BY <1>1, <1>2, FlowInvariance, PTL DEF NotifySpec, Spec

\* Every stage, counter and reply stays well typed, and a handler evaluates
\* only at its evaluation stage.
THEOREM PipelineTypeCorrect == NotifySpec => []NotifyTypeOK
<1>1. IInv /\ FlowInv => NotifyTypeOK
  BY DEF IInv, FlowInv, FlowTyped, HandlerInv, ReplyInv, NotifyTypeOK, Stages
<1> QED
  BY <1>1, FlowInvariance, PTL

\* What is published as an edge or an aggregate was committed by the same
\* request as that decision, whatever happened between the two.
THEOREM PublicationsAreCommitted == NotifySpec => []PublishedIsCommitted
<1>1. FlowInv => PublishedIsCommitted
  BY DEF FlowInv, PublishedInv, PublishedIsCommitted, Edges, Sendable, CommittedAs
<1> QED
  BY <1>1, FlowInvariance, PTL

\* A request refused before its evaluation never touches the edge state and
\* never publishes, then or later.
THEOREM RefusalsLeaveNoTrace == NotifySpec => []RefusedLeavesNoTrace
<1>1. IInv /\ FlowInv => RefusedLeavesNoTrace
  <2> SUFFICES ASSUME IInv, FlowInv, NEW r \in replies, r.status \in Refusals
               PROVE  r.payload \notin Committed \cup {m.payload : m \in published}
    BY Zenon DEF RefusedLeavesNoTrace, Refusals
  <2>1. r.payload \notin arrived /\ \A m \in published : m.payload # r.payload
    BY DEF FlowInv, ReplyInv
  <2>2. r.payload \notin Committed
    BY <2>1 DEF IInv, OneRequestEach, Committed
  <2> QED
    BY <2>1, <2>2
<1> QED
  BY <1>1, FlowInvariance, PTL

\* A reply tells what happened to the notification: a success status follows
\* its publication, and after no_op, suppressed and 429 nothing is published.
THEOREM RepliesTellTheTruth == NotifySpec => []RepliesAreTrue
<1>1. FlowInv => RepliesAreTrue
  BY DEF FlowInv, ReplyInv, RepliesAreTrue, Sendable, Published
<1> QED
  BY <1>1, FlowInvariance, PTL

\* In no minute does the target get more edges and aggregates than an sns_rpm
\* allows, however long they wait between the limit and the publishing, and
\* whatever crashes, fails or is published twice in between.
THEOREM TargetWithinBudget == NotifySpec => []TargetBudget
<1>1. FlowInv => TargetBudget
  <2> SUFFICES ASSUME FlowInv, NEW t \in 0..Minute
               PROVE  \E cc \in Configs :
                        Numbered({m \in Edges : m.minute = t /\ m.rate > 0}, cc.SNSRPM)
    BY DEF TargetBudget, Numbered
  <2>1. /\ used["TARGET"] \in Nat /\ Minute \in Nat
        /\ \A cc \in Configs : cc.SNSRPM \in Nat
    BY BudgetTyped
  <2>2. {m \in Edges : m.minute = t /\ m.rate > 0} \subseteq Granted(t)
    BY DEF Edges, Granted
  <2>3. PICK cc \in Configs : used["TARGET"] <= cc.SNSRPM
    BY DEF FlowInv, BudgetInv
  <2>4. CASE t = Minute
    BY <2>1, <2>2, <2>3, <2>4, NumberedFewer DEF FlowInv, BudgetInv
  <2>5. CASE t < Minute
    BY <2>1, <2>2, <2>5, NumberedFewer DEF FlowInv, BudgetInv
  <2> QED
    BY <2>1, <2>4, <2>5
<1> QED
  BY <1>1, FlowInvariance, PTL

\* The row of a running server is what one atomic evaluation after the other
\* makes of it: the pipeline around the evaluations does not change that.
THEOREM PipelineRefinement == NotifySpec => Implements
BY PipelineEvaluates, Refinement, PTL
=============================================================================
