------------------------- MODULE EdgeDetectorProofs -------------------------
(***************************************************************************)
(* The properties of EdgeDetector for every set of values, notifications   *)
(* and configurations and every HardLimitRecentItems.                      *)
(***************************************************************************)
EXTENDS EdgeDetector, EdgeFlapProofs

\* The index of a flip that an aggregate lists in k-th place.
LEMMA ListedPosition ==
  ASSUME NEW len \in Nat, NEW old \in Nat, NEW k \in 1..(old + 1), k # 1, old < len
  PROVE  /\ old + 2 - k \in 1..old
         /\ len - old + (old + 2 - k) = (len + 1) - k + 1
         /\ (len + 1) - k + 1 \in 2..len
OBVIOUS

Inv ==
  /\ TypeOK /\ EdgeRemembers
  /\ RecentIsLogSuffix /\ AggregatesListNewFlips /\ CooldownSpacing /\ ForwardSpacing

\* A step appends one well-typed entry to the log.
LEMMA ObserveFacts ==
  ASSUME Inv, NEW o \in Observations, Observe(o)
  PROVE  LET plan == Evaluate(edge, o)
             n    == Len(log) + 1
         IN  /\ o \in Observation
             /\ edge' = plan.next /\ edge' \in Edge /\ edge' # Nil
             /\ log' \in Seq(LogEntry)
             /\ Len(log') = n /\ Len(log) \in Nat
             /\ log'[n] = Entry(o, plan)
             /\ \A i \in 1..Len(log) : log'[i] = log[i] /\ log[i] \in LogEntry
             /\ edge = Nil => plan = FirstObservation(o)
             /\ edge # Nil => edge \in Edge /\ Transition(edge, o, plan)
<1> DEFINE plan == Evaluate(edge, o)
<1>1. o \in Observation
  BY MaxTimeAssumption DEF Observations, Observation
<1>2. edge = Nil => plan = FirstObservation(o)
  BY DEF Evaluate
<1>3. edge # Nil => edge \in Edge /\ Transition(edge, o, plan)
  BY <1>1, EvaluateIsTransition DEF Inv, TypeOK
<1>4. edge' = plan.next /\ log' = Append(log, Entry(o, plan)) /\ log \in Seq(LogEntry)
  BY DEF Observe, Inv, TypeOK
<1>5. plan.next \in Edge /\ Entry(o, plan) \in LogEntry
  BY <1>1, EvaluateTyped DEF Inv, TypeOK
<1> HIDE DEF plan
<1>6. edge' # Nil
  BY <1>4, <1>5, EdgeFlapAssumption
<1>7. /\ log' \in Seq(LogEntry) /\ Len(log') = Len(log) + 1 /\ Len(log) \in Nat
      /\ log'[Len(log) + 1] = Entry(o, plan)
      /\ \A i \in 1..Len(log) : log'[i] = log[i]
  BY <1>4, <1>5, AppendFacts, SeqFacts
<1>8. \A i \in 1..Len(log) : log[i] \in LogEntry
  BY <1>4, SeqFacts
<1> QED
  BY <1>1, <1>2, <1>3, <1>4, <1>5, <1>6, <1>7, <1>8 DEF plan

\* Flips already in the log stay as they are, and the step adds the one that
\* Recent gets.
LEMMA LogFlips ==
  ASSUME Inv, NEW o \in Observations, Observe(o)
  PROVE  /\ \A i \in 2..Len(log) : FlipAt(log, i) = FlipAt(log', i)
         /\ edge # Nil => NewFlip(edge, o) = FlipAt(log', Len(log) + 1)
<1>1. /\ Len(log) \in Nat /\ \A i \in 1..Len(log) : log'[i] = log[i]
      /\ log'[Len(log) + 1] = Entry(o, Evaluate(edge, o))
  BY ObserveFacts
<1>2. ASSUME NEW i \in 2..Len(log)
      PROVE  FlipAt(log, i) = FlipAt(log', i)
  <2>1. i \in 1..Len(log) /\ i - 1 \in 1..Len(log)
    BY <1>1
  <2>2. log'[i] = log[i] /\ log'[i - 1] = log[i - 1]
    BY <1>1, <2>1
  <2> QED
    BY <2>2 DEF FlipAt
<1>3. ASSUME edge # Nil
      PROVE  NewFlip(edge, o) = FlipAt(log', Len(log) + 1)
  <2>1. edge.LastValue = log[Len(log)].val /\ Len(log) # 0
    BY <1>3 DEF Inv, RecentIsLogSuffix, EdgeRemembers
  <2>2. (Len(log) + 1) - 1 = Len(log) /\ Len(log) \in 1..Len(log)
    BY <1>1, <2>1
  <2>3. log'[(Len(log) + 1) - 1].val = edge.LastValue
    BY <1>1, <2>1, <2>2
  <2> QED
    BY <1>1, <2>3 DEF NewFlip, FlipAt, Entry
<1> QED
  BY <1>2, <1>3

\* Recent stays a suffix of the log.
LEMMA StepSuffix ==
  ASSUME Inv, NEW o \in Observations, Observe(o)
  PROVE  RecentIsLogSuffix'
<1> DEFINE plan == Evaluate(edge, o)
           n == Len(log) + 1
<1>1. /\ edge' = plan.next /\ edge' \in Edge /\ edge' # Nil
      /\ Len(log') = n /\ Len(log) \in Nat /\ log'[n] = Entry(o, plan)
      /\ \A i \in 1..Len(log) : log'[i] = log[i]
      /\ edge = Nil => plan = FirstObservation(o)
      /\ edge # Nil => edge \in Edge /\ Transition(edge, o, plan)
  BY ObserveFacts
<1>2. log'[n].val = o.val /\ log'[n].at = o.now /\ log'[n].payload = o.payload
  BY <1>1 DEF Entry
<1> HIDE DEF plan
<1>3. CASE edge = Nil
  <2>1. edge'.Recent = <<>> /\ edge'.LastValue = o.val
    BY <1>1, <1>3 DEF FirstObservation, Plan
  <2>2. Len(edge'.Recent) = 0
    BY <2>1
  <2> QED
    BY <1>1, <1>2, <2>1, <2>2 DEF RecentIsLogSuffix
<1>4. CASE edge # Nil
  <2> DEFINE old == Len(edge.Recent)
             new == Len(edge'.Recent)
  <2>1. old \in Nat
    BY <1>1, <1>4 DEF Edge
  <2>2. /\ old < Len(log) /\ edge.LastValue = log[Len(log)].val
        /\ \A i \in 1..old : edge.Recent[i] = FlipAt(log, Len(log) - old + i)
    BY Zenon, <1>4 DEF Inv, RecentIsLogSuffix
  <2>3. /\ edge'.LastValue = o.val /\ new \in 0..(old + 1)
        /\ \A i \in 1..new :
             edge'.Recent[i] = IF i = new THEN NewFlip(edge, o) ELSE edge.Recent[old + 1 - new + i]
    BY Zenon, <1>1, <1>4 DEF Transition, Shifted
  <2>4. NewFlip(edge, o) = FlipAt(log', n)
    BY <1>4, LogFlips
  <2>5. \A i \in 2..Len(log) : FlipAt(log, i) = FlipAt(log', i)
    BY LogFlips
  <2> HIDE DEF old, new, n
  <2>6. ASSUME NEW i \in 1..new
        PROVE  edge'.Recent[i] = FlipAt(log', n - new + i)
    <3>1. CASE i = new
      <4>1. n \in Nat /\ new \in Nat
        BY <1>1, <2>1, <2>3 DEF n
      <4>2. n - new + i = n
        BY <3>1, <4>1
      <4> QED
        BY <2>3, <2>4, <3>1, <4>2
    <3>2. CASE i # new
      <4> DEFINE j == old + 1 - new + i
      <4>1. n = Len(log) + 1 /\ Len(log) \in Nat
        BY <1>1 DEF n
      <4>2. j \in 1..old /\ Len(log) - old + j = n - new + i /\ n - new + i \in 2..Len(log)
        BY SMTT(30), <4>1, <2>1, <2>2, <2>3, <3>2, ShiftedPosition
      <4>3. edge'.Recent[i] = edge.Recent[j]
        BY <2>3, <3>2
      <4>4. edge.Recent[j] = FlipAt(log, Len(log) - old + j)
        BY <2>2, <4>2
      <4> QED
        BY <2>5, <4>2, <4>3, <4>4
    <3> QED
      BY <3>1, <3>2
  <2>7. new < n
    BY <1>1, <2>1, <2>2, <2>3 DEF n
  <2> QED
    BY <1>1, <1>2, <2>3, <2>6, <2>7 DEF RecentIsLogSuffix, new
<1> QED
  BY <1>3, <1>4

\* The configuration of an entry with an aggregate has a cooldown.
LEMMA CooldownIsNat ==
  ASSUME NEW f \in FlapConfigs, f # Nil
  PROVE  f.AggregateCooldownSeconds \in Nat /\ f.WindowSeconds \in Nat
<1>1. f \in FlapConfig /\ f.AggregateCooldownSeconds >= 0
      /\ f.WindowSeconds >= MinWindowSizeSeconds /\ MinWindowSizeSeconds \in Nat
  BY EdgeFlapAssumption DEF ValidFlap
<1> QED
  BY <1>1 DEF FlapConfig

\* The row goes on remembering what EdgeRemembers says.
LEMMA StepRemembers ==
  ASSUME Inv, NEW o \in Observations, Observe(o)
  PROVE  EdgeRemembers'
<1> DEFINE plan == Evaluate(edge, o)
           n == Len(log) + 1
<1>1. /\ o \in Observation
      /\ edge' = plan.next /\ edge' \in Edge /\ edge' # Nil
      /\ Len(log') = n /\ Len(log) \in Nat /\ log'[n] = Entry(o, plan)
      /\ \A i \in 1..Len(log) : log'[i] = log[i] /\ log[i] \in LogEntry
      /\ edge = Nil => plan = FirstObservation(o)
      /\ edge # Nil => edge \in Edge /\ Transition(edge, o, plan)
  BY ObserveFacts
<1>2. /\ log'[n].at = o.now /\ log'[n].f = o.f /\ log'[n].act = plan.act
      /\ o.f \in FlapConfigs /\ o.now \in Nat
  BY <1>1 DEF Entry, Observation
<1> HIDE DEF plan
<1>3. CASE edge = Nil
  <2>1. /\ plan.act = "EdgeTriggeredForward" /\ edge'.WindowStart = o.now
    BY <1>1, <1>3 DEF FirstObservation, Plan
  <2>2. Len(log) = 0
    BY <1>3 DEF Inv, EdgeRemembers
  <2>3. n = 1 /\ \A m \in 1..Len(log') : m = n
    BY <1>1, <2>2
  <2>4. \A m \in 1..Len(log') : log'[m].act = "EdgeTriggeredForward" /\ log'[m].at = o.now
    BY <1>2, <2>1, <2>3
  <2> QED
    <3>1. \A m \in 1..Len(log') : ~Sent(m)' /\ log'[m].at <= edge'.WindowStart
      BY <1>2, <2>1, <2>4 DEF Sent
    <3>2. Len(log') # 0 /\ edge' # Nil
      BY <1>1
    <3> QED
      BY <3>1, <3>2 DEF EdgeRemembers
<1>4. CASE edge # Nil
  <2>1. /\ edge \in Edge /\ Transition(edge, o, plan)
        /\ edge.AggUntilTS \in Nat /\ edge.WindowStart \in Nat /\ edge'.WindowStart \in Nat
        /\ Len(edge.Recent) \in Nat /\ Len(edge'.Recent) \in 0..(Len(edge.Recent) + 1)
    <3>1. edge \in Edge /\ edge' \in Edge /\ Transition(edge, o, plan)
      BY <1>1, <1>4
    <3>2. Shifted(edge'.Recent, edge.Recent, NewFlip(edge, o))
      BY <1>1, <3>1 DEF Transition
    <3>3. Len(edge'.Recent) \in 0..(Len(edge.Recent) + 1)
      BY <3>2 DEF Shifted
    <3> QED
      BY <3>1, <3>3 DEF Edge
  <2>2. edge.AggUntilTS <= edge'.AggUntilTS /\ edge'.AggUntilTS \in Nat
    <3>1. CASE plan.act = "AggregateSent"
      <4>1. o.now >= edge.AggUntilTS /\ o.f # Nil
            /\ edge'.AggUntilTS = o.now + o.f.AggregateCooldownSeconds
        BY <1>1, <2>1, <3>1 DEF Transition
      <4>2. o.f.AggregateCooldownSeconds \in Nat
        BY <1>2, <4>1, CooldownIsNat
      <4> QED
        BY SMTT(30), <1>2, <2>1, <4>1, <4>2
    <3>2. CASE plan.act # "AggregateSent"
      BY <1>1, <2>1, <3>2 DEF Transition
    <3> QED
      BY <3>1, <3>2
  <2>3. ASSUME NEW m \in 1..Len(log'), Sent(m)'
        PROVE  /\ log'[m].f # Nil
               /\ log'[m].at + log'[m].f.AggregateCooldownSeconds <= edge'.AggUntilTS
               /\ m <= Len(log') - Len(edge'.Recent)
    <3>0. log'[m].act = "AggregateSent"
      BY <2>3 DEF Sent
    <3>1. CASE m = n
      <4>1. plan.act = "AggregateSent"
        BY <1>2, <3>0, <3>1
      <4>2. /\ o.f # Nil /\ edge'.Recent = <<>>
            /\ edge'.AggUntilTS = o.now + o.f.AggregateCooldownSeconds
        BY <1>1, <2>1, <4>1 DEF Transition
      <4>3. Len(edge'.Recent) = 0
        BY <4>2
      <4>4. o.f.AggregateCooldownSeconds \in Nat
        BY <1>2, <4>2, CooldownIsNat
      <4> QED
        BY <1>1, <1>2, <3>1, <4>2, <4>3, <4>4
    <3>2. CASE m # n
      <4>1. m \in 1..Len(log) /\ log'[m] = log[m] /\ log[m] \in LogEntry
        BY <1>1, <3>2
      <4>2. Sent(m)
        BY <3>0, <4>1 DEF Sent
      <4>3. /\ log[m].f # Nil
            /\ log[m].at + log[m].f.AggregateCooldownSeconds <= edge.AggUntilTS
            /\ m <= Len(log) - Len(edge.Recent)
        BY <1>4, <4>1, <4>2 DEF Inv, EdgeRemembers
      <4>4. log[m].f \in FlapConfigs /\ log[m].at \in Nat
        BY <4>1 DEF LogEntry
      <4>5. log[m].f.AggregateCooldownSeconds \in Nat
        BY <4>3, <4>4, CooldownIsNat
      <4>6. log[m].at + log[m].f.AggregateCooldownSeconds \in Nat
        BY SMTT(30), <4>4, <4>5
      <4>7. log[m].at + log[m].f.AggregateCooldownSeconds <= edge'.AggUntilTS
        BY <2>1, <2>2, <4>3, <4>6
      <4>8. m <= Len(log') - Len(edge'.Recent)
        BY SMTT(30), <1>1, <2>1, <4>3
      <4> QED
        BY <4>1, <4>3, <4>7, <4>8
    <3> QED
      BY <3>1, <3>2
  <2>4. edge.WindowStart <= edge'.WindowStart
    <3>1. CASE o.f # Nil /\ NewWindow(edge, o)
      <4>1. edge'.WindowStart = o.now
        BY <1>1, <2>1, <3>1 DEF Transition
      <4>2. o.f.WindowSeconds \in Nat /\ o.now - edge.WindowStart > o.f.WindowSeconds
        BY <1>2, <3>1, CooldownIsNat DEF NewWindow
      <4> QED
        BY <1>2, <2>1, <4>1, <4>2
    <3>2. CASE ~(o.f # Nil /\ NewWindow(edge, o))
      BY <1>1, <2>1, <3>2 DEF Transition
    <3> QED
      BY <3>1, <3>2
  <2>5. ASSUME OnlyAggregating', NEW m \in 1..Len(log'), Forwarded(m)'
        PROVE  log'[m].at <= edge'.WindowStart
    <3>0. log'[m].act = "EdgeTriggeredForward"
      BY <2>5 DEF Forwarded
    <3>1. CASE m = n
      <4>1. plan.act = "EdgeTriggeredForward" /\ o.f # Nil /\ o.f.AggregateAt > 0
        BY <1>1, <1>2, <2>5, <3>0, <3>1 DEF OnlyAggregating
      <4>2. edge'.WindowStart = o.now
        BY <1>1, <2>1, <4>1 DEF Transition
      <4> QED
        BY <1>2, <3>1, <4>2
    <3>2. CASE m # n
      <4>1. m \in 1..Len(log) /\ log'[m] = log[m] /\ log[m] \in LogEntry
        BY <1>1, <3>2
      <4>2. OnlyAggregating
        BY <1>1, <2>5 DEF OnlyAggregating
      <4>3. log[m].at <= edge.WindowStart
        BY <1>4, <3>0, <4>1, <4>2 DEF Inv, EdgeRemembers, Forwarded
      <4>4. log[m].at \in Nat
        BY <4>1 DEF LogEntry
      <4> QED
        BY SMTT(30), <2>1, <2>4, <4>1, <4>3, <4>4
    <3> QED
      BY <3>1, <3>2
  <2>6. edge' # Nil /\ Len(log') # 0
    BY <1>1
  <2> QED
    BY <2>3, <2>5, <2>6 DEF EdgeRemembers
<1> QED
  BY <1>3, <1>4

\* An aggregate lists the latest flips and none of an earlier aggregate.
LEMMA StepLists ==
  ASSUME Inv, NEW o \in Observations, Observe(o)
  PROVE  AggregatesListNewFlips'
<1> DEFINE plan == Evaluate(edge, o)
           n == Len(log) + 1
           old == Len(edge.Recent)
<1>1. /\ Len(log') = n /\ Len(log) \in Nat /\ log'[n] = Entry(o, plan)
      /\ \A i \in 1..Len(log) : log'[i] = log[i]
      /\ edge = Nil => plan = FirstObservation(o)
      /\ edge # Nil => edge \in Edge /\ Transition(edge, o, plan)
  BY ObserveFacts
<1>2. log'[n].act = plan.act /\ log'[n].agg = plan.agg
  BY <1>1 DEF Entry
<1> HIDE DEF plan
<1> SUFFICES ASSUME NEW j \in 1..Len(log'), log'[j].act = "AggregateSent",
                    NEW k \in 1..Len(log'[j].agg.recent)
             PROVE  /\ k < j
                    /\ log'[j].agg.recent[k] = AggregateItem(FlipAt(log', j - k + 1))
                    /\ \A m \in 1..(j - 1) : log'[m].act = "AggregateSent" => m < j - k + 1
  BY DEF AggregatesListNewFlips, Sent
<1>3. CASE j # n
  <2>1. j \in 1..Len(log) /\ log'[j] = log[j]
    BY <1>1, <1>3
  <2>2. /\ k < j /\ log[j].agg.recent[k] = AggregateItem(FlipAt(log, j - k + 1))
        /\ \A m \in 1..(j - 1) : log[m].act = "AggregateSent" => m < j - k + 1
    BY <2>1 DEF Inv, AggregatesListNewFlips, Sent
  <2>3. j - k + 1 \in 2..Len(log)
    BY <1>1, <2>1, <2>2
  <2>4. FlipAt(log, j - k + 1) = FlipAt(log', j - k + 1)
    BY <2>3, LogFlips
  <2>5. \A m \in 1..(j - 1) : log'[m] = log[m]
    BY <1>1, <2>1
  <2> QED
    BY <2>1, <2>2, <2>4, <2>5
<1>4. CASE j = n
  <2>1. plan.act = "AggregateSent" /\ log'[j].agg = plan.agg
    BY <1>2, <1>4
  <2>2. edge # Nil
    BY <1>1, <2>1 DEF FirstObservation, Plan
  <2>3. /\ Len(plan.agg.recent) \in 0..(old + 1)
        /\ plan.agg.recent[k] =
             AggregateItem(IF k = 1 THEN NewFlip(edge, o) ELSE edge.Recent[old + 2 - k])
    BY Zenon, <1>1, <2>1, <2>2 DEF Transition
  <2>4. old \in Nat
    BY <1>1, <2>2 DEF Edge
  <2>5. /\ old < Len(log)
        /\ \A i \in 1..old : edge.Recent[i] = FlipAt(log, Len(log) - old + i)
    BY Zenon, <2>2 DEF Inv, RecentIsLogSuffix
  <2> HIDE DEF old, n
  <2>6. n = Len(log) + 1 /\ k \in 1..(old + 1)
    BY <2>1, <2>3, <2>4 DEF n
  <2>7. k < j
    BY <1>1, <1>4, <2>4, <2>5, <2>6
  <2>8. plan.agg.recent[k] = AggregateItem(FlipAt(log', j - k + 1))
    <3>1. CASE k = 1
      <4>1. j - k + 1 = Len(log) + 1
        BY <1>1, <1>4, <2>6, <3>1
      <4> QED
        BY <2>2, <2>3, <3>1, <4>1, LogFlips
    <3>2. CASE k # 1
      <4>1. /\ old + 2 - k \in 1..old
            /\ Len(log) - old + (old + 2 - k) = j - k + 1
            /\ j - k + 1 \in 2..Len(log)
        BY <1>1, <1>4, <2>4, <2>5, <2>6, <3>2, ListedPosition
      <4>2. edge.Recent[old + 2 - k] = FlipAt(log, j - k + 1)
        BY <2>5, <4>1
      <4> QED
        BY SMTT(30), <2>3, <3>2, <4>1, <4>2, LogFlips
    <3> QED
      BY <3>1, <3>2
  <2>9. ASSUME NEW m \in 1..(j - 1), log'[m].act = "AggregateSent"
        PROVE  m < j - k + 1
    <3>1. m \in 1..Len(log) /\ log[m].act = "AggregateSent"
      BY <1>1, <1>4, <2>6, <2>9
    <3>2. m <= Len(log) - old
      BY <2>2, <3>1 DEF Inv, EdgeRemembers, Sent, old
    <3> QED
      BY <1>1, <1>4, <2>4, <2>6, <3>1, <3>2
  <2> QED
    BY <2>1, <2>7, <2>8, <2>9
<1> QED
  BY SMTT(30), <1>3, <1>4

\* A step's aggregate is sent after the cooldown of each earlier one.
LEMMA StepCooldown ==
  ASSUME Inv, NEW o \in Observations, Observe(o)
  PROVE  CooldownSpacing'
<1> DEFINE plan == Evaluate(edge, o)
           n == Len(log) + 1
<1>0. /\ o \in Observation /\ log'[n] = Entry(o, plan)
      /\ Len(log') = n /\ Len(log) \in Nat
      /\ \A i \in 1..Len(log) : log'[i] = log[i] /\ log[i] \in LogEntry
      /\ edge = Nil => plan = FirstObservation(o)
      /\ edge # Nil => edge \in Edge /\ Transition(edge, o, plan)
  BY ObserveFacts
<1>1. o.now \in Nat /\ log'[n].at = o.now /\ log'[n].act = plan.act
  BY <1>0 DEF Entry, Observation
<1> HIDE DEF plan
<1> SUFFICES ASSUME NEW m \in 1..Len(log'), NEW j \in 1..Len(log'), m < j,
                    log'[m].act = "AggregateSent", log'[j].act = "AggregateSent"
             PROVE  log'[j].at >= log'[m].at + log'[m].f.AggregateCooldownSeconds
  BY DEF CooldownSpacing, Sent
<1>2. m \in 1..Len(log) /\ log'[m] = log[m] /\ log[m] \in LogEntry
  BY <1>0, <1>1
<1>3. CASE j # n
  <2>1. j \in 1..Len(log) /\ log'[j] = log[j]
    BY <1>0, <1>1, <1>3
  <2> QED
    BY <1>2, <2>1 DEF Inv, CooldownSpacing, Sent
<1>4. CASE j = n
  <2>1. plan.act = "AggregateSent" /\ edge # Nil
    BY <1>0, <1>1, <1>4 DEF FirstObservation, Plan
  <2>2. o.now >= edge.AggUntilTS /\ edge.AggUntilTS \in Nat
    BY <1>0, <1>1, <2>1 DEF Transition, Edge
  <2>3. /\ log[m].f # Nil
        /\ log[m].at + log[m].f.AggregateCooldownSeconds <= edge.AggUntilTS
    BY <1>2, <2>1 DEF Inv, EdgeRemembers, Sent
  <2>4. log[m].at \in Nat /\ log[m].f.AggregateCooldownSeconds \in Nat
    BY <1>2, <2>3, CooldownIsNat DEF LogEntry
  <2> QED
    BY SMTT(30), <1>0, <1>1, <1>2, <1>4, <2>2, <2>3, <2>4
<1> QED
  BY <1>3, <1>4

\* A step's forwarded edge opens a window.
LEMMA StepForward ==
  ASSUME Inv, NEW o \in Observations, Observe(o)
  PROVE  ForwardSpacing'
<1> DEFINE plan == Evaluate(edge, o)
           n == Len(log) + 1
<1>0. /\ o \in Observation /\ log'[n] = Entry(o, plan)
      /\ Len(log') = n /\ Len(log) \in Nat
      /\ \A i \in 1..Len(log) : log'[i] = log[i] /\ log[i] \in LogEntry
      /\ edge # Nil => edge \in Edge /\ Transition(edge, o, plan)
  BY ObserveFacts
<1>1. /\ o.now \in Nat /\ o.f \in FlapConfigs
      /\ log'[n].at = o.now /\ log'[n].act = plan.act /\ log'[n].f = o.f
  BY <1>0 DEF Entry, Observation
<1> HIDE DEF plan
<1> SUFFICES ASSUME OnlyAggregating',
                    NEW m \in 1..Len(log'), NEW j \in 1..Len(log'), m < j,
                    log'[m].act = "EdgeTriggeredForward",
                    log'[j].act = "EdgeTriggeredForward"
             PROVE  log'[j].at - log'[m].at > log'[j].f.WindowSeconds
  BY DEF ForwardSpacing, Forwarded
<1>2. m \in 1..Len(log) /\ log'[m] = log[m] /\ log[m] \in LogEntry
  BY <1>0, <1>1
<1>3. OnlyAggregating
  BY <1>0 DEF OnlyAggregating
<1>4. CASE j # n
  <2>1. j \in 1..Len(log) /\ log'[j] = log[j]
    BY <1>0, <1>1, <1>4
  <2> QED
    BY <1>2, <1>3, <2>1 DEF Inv, ForwardSpacing, Forwarded
<1>5. CASE j = n
  <2>1. edge # Nil
    BY <1>0, <1>1, <1>2 DEF Inv, EdgeRemembers
  <2>2. o.f # Nil /\ o.f.AggregateAt > 0
    BY <1>0, <1>1 DEF OnlyAggregating
  <2>3. NewWindow(edge, o) /\ edge.WindowStart \in Nat
    BY <1>0, <1>1, <1>5, <2>1, <2>2 DEF Transition, Edge
  <2>4. o.now - edge.WindowStart > o.f.WindowSeconds /\ o.f.WindowSeconds \in Nat
    BY <1>0, <1>1, <2>2, <2>3, CooldownIsNat DEF NewWindow
  <2>5. log[m].at <= edge.WindowStart /\ log[m].at \in Nat
    BY <1>2, <1>3, <2>1 DEF Inv, EdgeRemembers, Forwarded, LogEntry
  <2> QED
    BY SMTT(30), <1>0, <1>1, <1>2, <1>5, <2>3, <2>4, <2>5
<1> QED
  BY <1>4, <1>5

\* The inductive invariant holds of every behaviour of the detector, for every
\* set of values, notifications and valid configurations, every cap on Recent
\* and every order of the clocks: it starts true with no row, and each
\* evaluation preserves it conjunct by conjunct.
THEOREM Invariance == Spec => []Inv
<1>1. Init => Inv
  <2> SUFFICES ASSUME Init PROVE Inv
    OBVIOUS
  <2>1. edge = Nil /\ log = <<>> /\ Len(log) = 0 /\ log \in Seq(LogEntry)
    BY DEF Init
  <2>2. 1..Len(log) = {}
    BY <2>1
  <2> QED
    BY <2>1, <2>2 DEF Inv, TypeOK, EdgeRemembers, RecentIsLogSuffix,
       AggregatesListNewFlips, CooldownSpacing, ForwardSpacing
<1>2. Inv /\ [Next]_vars => Inv'
  <2> SUFFICES ASSUME Inv, [Next]_vars PROVE Inv'
    OBVIOUS
  <2>1. ASSUME NEW o \in Observations, Observe(o)
        PROVE  Inv'
    <3>1. TypeOK'
      BY SMTT(30), <2>1, ObserveFacts DEF TypeOK
    <3> QED
      BY <2>1, <3>1, StepRemembers, StepSuffix, StepLists, StepCooldown, StepForward
      DEF Inv
  <2>2. CASE UNCHANGED vars
    BY Zenon, <2>2 DEF vars, Inv, TypeOK, EdgeRemembers, RecentIsLogSuffix,
       AggregatesListNewFlips, CooldownSpacing, ForwardSpacing, OnlyAggregating,
       Sent, Forwarded, FlipAt
  <2> QED
    BY <2>1, <2>2 DEF Next
<1> QED
  BY <1>1, <1>2, PTL DEF Spec

\* The row and the log stay well-typed: what EvaluateEdgeAndFlap writes is
\* always a types.Edge with natural counters and times.
THEOREM TypeCorrect == Spec => []TypeOK
<1>1. Inv => TypeOK
  BY DEF Inv
<1> QED
  BY <1>1, Invariance, PTL

\* The stored row remembers of the past what the cooldown, the draining of Recent
\* and the windows of EvaluateEdgeAndFlap rely on.
THEOREM EdgeRemembersThePast == Spec => []EdgeRemembers
<1>1. Inv => EdgeRemembers
  BY DEF Inv
<1> QED
  BY <1>1, Invariance, PTL

\* Edge.Recent is always a suffix of the committed flips, in commit order.
THEOREM RecentSuffix == Spec => []RecentIsLogSuffix
<1>1. Inv => RecentIsLogSuffix
  BY DEF Inv
<1> QED
  BY <1>1, Invariance, PTL

\* An aggregate lists the latest flips, newest first, and no flip twice.
THEOREM AggregatesListFlipsOnce == Spec => []AggregatesListNewFlips
<1>1. Inv => AggregatesListNewFlips
  BY DEF Inv
<1> QED
  BY <1>1, Invariance, PTL

\* Aggregates of a scope keep the cooldown between them, even where the clocks
\* of the evaluations are not in the order of their commits.
THEOREM AggregatesCoolDown == Spec => []CooldownSpacing
<1>1. Inv => CooldownSpacing
  BY DEF Inv
<1> QED
  BY <1>1, Invariance, PTL

\* As long as every configuration in use aggregates, edges forwarded as they came are more
\* than a window apart.
THEOREM ForwardsAreSpaced == Spec => []ForwardSpacing
<1>1. Inv => ForwardSpacing
  BY DEF Inv
<1> QED
  BY <1>1, Invariance, PTL

-----------------------------------------------------------------------------
(***************************************************************************)
(* The threshold.  FlipCount and Recent are trimmed at different moments,  *)
(* yet Recent never holds fewer flips than FlipCount is past the last      *)
(* multiple of AggregateAt: both restart together at a new window, and an  *)
(* aggregate empties Recent only where FlipCount is such a multiple.       *)
(***************************************************************************)
\* A flip recorded and counted: Recent grows up to its cap as FlipCount does,
\* and a new window starts both with this flip.
LEMMA CountedFlip ==
  ASSUME NEW e \in Edge, NEW o \in Observation, o.f # Nil
  PROVE  LET w == CountFlip(RecordFlip(e, o), o)
         IN  IF NewWindow(e, o)
             THEN w.FlipCount = 1 /\ Len(w.Recent) = 1
             ELSE /\ w.FlipCount = e.FlipCount + 1
                  /\ Len(w.Recent) = Len(e.Recent) + 1 \/ Len(w.Recent) = HardLimitRecentItems
<1> DEFINE r == RecordFlip(e, o)
           rs == AppendRecent(e.Recent, NewFlip(e, o), HardLimitRecentItems)
<1>1. /\ r \in Edge /\ r.WindowStart = e.WindowStart /\ r.FlipCount = e.FlipCount
      /\ Shifted(r.Recent, e.Recent, NewFlip(e, o)) /\ Len(r.Recent) > 0
  BY RecordFlipFacts
<1>2. e.Recent \in Seq(Flip) /\ NewFlip(e, o) \in Flip
  BY DEF Edge, Flip, NewFlip, Observation, EncodePayload
<1>3. NewWindow(r, o) <=> NewWindow(e, o)
  BY <1>1 DEF NewWindow
<1>4. CASE NewWindow(e, o)
  <2> DEFINE one == SubSeq(r.Recent, Len(r.Recent), Len(r.Recent))
  <2>1. Len(one) = 1
    BY <1>1, <1>2, ShiftedTail
  <2>2. CountFlip(r, o) = [r EXCEPT !.WindowStart = o.now, !.FlipCount = 1, !.Recent = one]
    BY <1>3, <1>4 DEF CountFlip
  <2> HIDE DEF r, one
  <2>3. CountFlip(r, o).FlipCount = 1 /\ CountFlip(r, o).Recent = one
    BY <1>1, <2>2 DEF Edge
  <2> QED
    BY <1>4, <2>1, <2>3 DEF r
<1>5. CASE ~NewWindow(e, o)
  <2>1. r.Recent = rs
    BY DEF RecordFlip, NewFlip, Edge
  <2>2. Len(rs) = Len(e.Recent) + 1 \/ Len(rs) = HardLimitRecentItems
    <3> DEFINE longer == Append(e.Recent, NewFlip(e, o))
               cap == HardLimitRecentItems
    <3>1. longer \in Seq(Flip) /\ Len(longer) = Len(e.Recent) + 1 /\ Len(e.Recent) \in Nat
      BY <1>2, AppendFacts
    <3>2. CASE Len(longer) > cap
      <4>1. /\ rs = SubSeq(longer, Len(longer) - cap + 1, Len(longer))
            /\ Len(longer) - cap + 1 \in 1..Len(longer)
        BY <3>1, <3>2, EdgeFlapAssumption DEF AppendRecent
      <4> HIDE DEF longer
      <4>2. Len(rs) = Len(longer) - (Len(longer) - cap + 1) + 1
        BY <3>1, <4>1, SubSeqFacts
      <4> QED
        BY <3>1, <4>2, EdgeFlapAssumption
    <3>3. CASE ~(Len(longer) > cap)
      BY <3>1, <3>3 DEF AppendRecent
    <3> QED
      BY <3>2, <3>3
  <2>3. CountFlip(r, o) = [r EXCEPT !.FlipCount = @ + 1]
    BY <1>3, <1>5 DEF CountFlip
  <2> HIDE DEF r, rs
  <2>4. CountFlip(r, o).FlipCount = e.FlipCount + 1 /\ CountFlip(r, o).Recent = rs
    BY <1>1, <2>1, <2>3 DEF Edge
  <2> QED
    BY <1>5, <2>2, <2>4 DEF r
<1> QED
  BY <1>4, <1>5

\* Recent holds at least as many flips as FlipCount is past a multiple of k.
Enough(e, k) == Len(e.Recent) >= e.FlipCount % k

\* A threshold that Recent can hold at all.
Reachable(f) == f # Nil /\ f.AggregateAt \in 1..HardLimitRecentItems

\* An evaluation keeps enough flips, and sends an aggregate where one is due.
LEMMA EvaluateCounts ==
  ASSUME NEW e \in Edge, NEW o \in Observation, Reachable(o.f), Enough(e, o.f.AggregateAt)
  PROVE  LET plan == Evaluate(e, o)
         IN  /\ Enough(plan.next, o.f.AggregateAt)
             /\ /\ plan.next.FlipCount > 1 /\ plan.next.FlipCount > o.f.SuppressBelow
                /\ plan.next.FlipCount % o.f.AggregateAt = 0 /\ o.now >= e.AggUntilTS
                => plan.act = "AggregateSent"
<1> DEFINE w == CountFlip(RecordFlip(e, o), o)
           at == o.f.AggregateAt
           plan == Evaluate(e, o)
<1>1. /\ e # Nil /\ o.f # Nil /\ at \in Nat \ {0} /\ at \in 1..HardLimitRecentItems
      /\ HardLimitRecentItems \in Nat /\ e.FlipCount \in Nat /\ Len(e.Recent) \in Nat
      /\ o.f.SuppressBelow \in Int
  BY EdgeFlapAssumption DEF Edge, Reachable, Observation, FlapConfig
<1>2. w \in Edge /\ w.AggUntilTS = e.AggUntilTS
  BY <1>1, CountFlipFacts
<1>3. IF NewWindow(e, o)
      THEN w.FlipCount = 1 /\ Len(w.Recent) = 1
      ELSE /\ w.FlipCount = e.FlipCount + 1
           /\ Len(w.Recent) = Len(e.Recent) + 1 \/ Len(w.Recent) = HardLimitRecentItems
  BY <1>1, CountedFlip
<1>4. plan = EvaluateFlapping(w, NewWindow(e, o), o)
  BY <1>1 DEF Evaluate
<1> HIDE DEF w
<1>5. w.FlipCount \in Nat /\ Len(w.Recent) \in Nat
  BY <1>2 DEF Edge
<1>6. Enough(w, at) /\ (~NewWindow(e, o) /\ w.FlipCount % at = 0 => Len(w.Recent) >= at)
  <2>1. CASE NewWindow(e, o)
    <3>1. 0 % at = 0 /\ 1 % at <= 1
      BY <1>1
    <3> QED
      BY Zenon, <1>3, <2>1, <3>1 DEF Enough
  <2>2. CASE ~NewWindow(e, o)
    <3> DEFINE c == e.FlipCount
    <3>1. /\ c % at \in 0..(at - 1) /\ (c + 1) % at \in 0..(at - 1)
          /\ \/ c % at = at - 1 /\ (c + 1) % at = 0
             \/ (c + 1) % at = (c % at) + 1
      <4>1. c + 1 \in Nat
        BY <1>1
      <4> QED
        BY Zenon, <1>1, <4>1, CountedOn
    <3>2. Len(e.Recent) >= c % at
      BY DEF Enough
    <3>3. w.FlipCount = c + 1
      BY <1>3, <2>2
    <3> DEFINE x == c % at
               y == (c + 1) % at
    <3> HIDE DEF x, y
    <3>4. /\ x \in 0..(at - 1) /\ y \in 0..(at - 1)
          /\ (x = at - 1 /\ y = 0) \/ y = x + 1
          /\ Len(e.Recent) >= x
      BY <3>1, <3>2 DEF x, y
    <3>5. Len(w.Recent) = Len(e.Recent) + 1 \/ Len(w.Recent) = HardLimitRecentItems
      BY <1>3, <2>2
    <3>6. Len(w.Recent) >= y /\ (y = 0 => Len(w.Recent) >= at)
      BY <1>1, <1>5, <3>4, <3>5
    <3> QED
      BY <3>3, <3>6 DEF y, Enough
  <2> QED
    BY <2>1, <2>2
<1>7. CASE w.FlipCount <= o.f.SuppressBelow
  <2>1. plan.next = w
    BY <1>4, <1>7 DEF EvaluateFlapping, Tolerate, Plan
  <2> QED
    BY <1>1, <1>5, <1>6, <1>7, <2>1
<1>8. CASE ~(w.FlipCount <= o.f.SuppressBelow) /\ NewWindow(e, o)
  <2>1. plan.next = w
    BY <1>4, <1>8 DEF EvaluateFlapping, Forward, Plan
  <2> QED
    BY <1>3, <1>6, <1>8, <2>1
<1>9. CASE /\ ~(w.FlipCount <= o.f.SuppressBelow) /\ ~NewWindow(e, o)
           /\ AggregateDue(w, o)
  <2>1. plan = SendAggregate(w, o)
    BY <1>1, <1>4, <1>9 DEF EvaluateFlapping
  <2>2. /\ plan.act = "AggregateSent"
        /\ plan.next = DrainRecent(StartCooldown(w, o))
    BY <2>1 DEF SendAggregate, Plan
  <2>3. plan.next.FlipCount = w.FlipCount /\ plan.next.Recent = <<>>
    BY <1>2, <2>2 DEF DrainRecent, StartCooldown, Edge
  <2>4. w.FlipCount % at = 0
    BY <1>9 DEF AggregateDue
  <2> QED
    BY <2>2, <2>3, <2>4 DEF Enough
<1>10. CASE /\ ~(w.FlipCount <= o.f.SuppressBelow) /\ ~NewWindow(e, o)
            /\ ~AggregateDue(w, o)
  <2>1. plan = Hold(w)
    BY <1>1, <1>4, <1>10 DEF EvaluateFlapping
  <2>2. plan.next = w
    BY <2>1 DEF Hold, Plan
  <2> QED
    BY <1>2, <1>6, <1>10, <2>2 DEF AggregateDue
<1> QED
  BY <1>7, <1>8, <1>9, <1>10

\* Every notification from the second on was evaluated under f.
Under(f) == \A i \in 2..Len(log) : log[i].f = f

\* Under one configuration Recent always holds enough flips for its threshold.
EnoughRecent ==
  edge # Nil => \A f \in FlapConfigs : Reachable(f) /\ Under(f) => Enough(edge, f.AggregateAt)

\* A running cooldown is that of an aggregate sent.
CooldownIsSent ==
  edge # Nil /\ edge.AggUntilTS # 0 =>
    \E m \in 2..Len(log) :
      Sent(m) /\ edge.AggUntilTS = log[m].at + log[m].f.AggregateCooldownSeconds

ThresholdInv == EnoughRecent /\ CooldownIsSent /\ AggregateAtThreshold

\* A step is evaluated under f if all notifications including its own are.
LEMMA StepEnough ==
  ASSUME Inv, EnoughRecent, NEW o \in Observations, Observe(o)
  PROVE  EnoughRecent'
<1> DEFINE plan == Evaluate(edge, o)
           n == Len(log) + 1
<1>1. /\ o \in Observation /\ edge' = plan.next
      /\ Len(log') = n /\ Len(log) \in Nat /\ log'[n] = Entry(o, plan)
      /\ \A i \in 1..Len(log) : log'[i] = log[i]
      /\ edge = Nil => plan = FirstObservation(o)
      /\ edge # Nil => edge \in Edge
  BY ObserveFacts
<1>2. log'[n].f = o.f
  BY <1>1 DEF Entry
<1> SUFFICES ASSUME NEW f \in FlapConfigs, Reachable(f), Under(f)'
             PROVE  Enough(plan.next, f.AggregateAt)
  BY <1>1 DEF EnoughRecent, Reachable, Enough
<1>3. CASE edge = Nil
  <2>1. plan.next.FlipCount = 0 /\ Len(plan.next.Recent) = 0
    BY <1>1, <1>3 DEF FirstObservation, Plan
  <2>2. 0 % f.AggregateAt = 0
    BY EdgeFlapAssumption DEF Reachable
  <2> QED
    BY SMTT(30), <2>1, <2>2 DEF Enough
<1>4. CASE edge # Nil
  <2>1. n \in 2..Len(log')
    BY <1>1, <1>4 DEF Inv, EdgeRemembers
  <2>2. o.f = f
    BY <1>2, <2>1 DEF Under
  <2>3. Under(f)
    BY <1>1 DEF Under
  <2>4. Enough(edge, o.f.AggregateAt)
    BY <1>4, <2>2, <2>3 DEF EnoughRecent
  <2> QED
    BY <1>1, <1>4, <2>2, <2>4, EvaluateCounts
<1> QED
  BY <1>3, <1>4

\* AggUntilTS is set by an aggregate, which no first observation is.
LEMMA StepCooldownIsSent ==
  ASSUME Inv, CooldownIsSent, NEW o \in Observations, Observe(o)
  PROVE  CooldownIsSent'
<1> DEFINE plan == Evaluate(edge, o)
           n == Len(log) + 1
<1>1. /\ o \in Observation /\ edge' = plan.next
      /\ Len(log') = n /\ Len(log) \in Nat /\ log'[n] = Entry(o, plan)
      /\ \A i \in 1..Len(log) : log'[i] = log[i]
      /\ edge = Nil => plan = FirstObservation(o)
      /\ edge # Nil => edge \in Edge /\ Transition(edge, o, plan)
  BY ObserveFacts
<1>2. log'[n].at = o.now /\ log'[n].f = o.f /\ log'[n].act = plan.act
  BY <1>1 DEF Entry
<1> HIDE DEF plan
<1> SUFFICES ASSUME plan.next.AggUntilTS # 0
             PROVE  \E m \in 2..n :
                      /\ log'[m].act = "AggregateSent"
                      /\ plan.next.AggUntilTS = log'[m].at + log'[m].f.AggregateCooldownSeconds
  BY <1>1 DEF CooldownIsSent, Sent
<1>3. edge # Nil
  BY <1>1 DEF FirstObservation, Plan
<1>4. n \in 2..n
  BY <1>1, <1>3 DEF Inv, EdgeRemembers
<1>5. CASE plan.act = "AggregateSent"
  <2>1. plan.next.AggUntilTS = o.now + o.f.AggregateCooldownSeconds
    BY <1>1, <1>3, <1>5 DEF Transition
  <2> QED
    BY <1>2, <1>4, <1>5, <2>1
<1>6. CASE plan.act # "AggregateSent"
  <2>1. plan.next.AggUntilTS = edge.AggUntilTS
    BY <1>1, <1>3, <1>6 DEF Transition
  <2>2. PICK m \in 2..Len(log) :
          /\ log[m].act = "AggregateSent"
          /\ edge.AggUntilTS = log[m].at + log[m].f.AggregateCooldownSeconds
    BY <1>3, <2>1 DEF CooldownIsSent, Sent
  <2>3. m \in 2..n /\ log'[m] = log[m]
    BY <1>1, <2>2
  <2> QED
    BY SMTT(30), <2>1, <2>2, <2>3
<1> QED
  BY <1>5, <1>6

\* A flip at the threshold finds enough flips and, if the cooldowns of the
\* aggregates before it are over, no AggUntilTS ahead of it.
LEMMA StepThreshold ==
  ASSUME Inv, ThresholdInv, NEW o \in Observations, Observe(o)
  PROVE  AggregateAtThreshold'
<1> DEFINE plan == Evaluate(edge, o)
           n == Len(log) + 1
<1>1. /\ o \in Observation
      /\ Len(log') = n /\ Len(log) \in Nat /\ log'[n] = Entry(o, plan)
      /\ \A i \in 1..Len(log) : log'[i] = log[i]
      /\ edge = Nil => plan = FirstObservation(o)
      /\ edge # Nil => edge \in Edge
  BY ObserveFacts
<1>2. /\ log'[n].at = o.now /\ log'[n].f = o.f /\ log'[n].act = plan.act
      /\ log'[n].flips = plan.next.FlipCount
      /\ o.f \in FlapConfigs /\ o.now \in Nat
  BY <1>1 DEF Entry, Observation
<1> HIDE DEF plan
<1> SUFFICES ASSUME NEW j \in 1..n,
                    LET f == log'[j].f
                        m == log'[j].flips
                    IN  /\ f # Nil /\ f.AggregateAt <= HardLimitRecentItems
                        /\ \A i \in 2..j : log'[i].f = f
                        /\ f.AggregateAt > 0 /\ m > 1 /\ m > f.SuppressBelow
                        /\ m % f.AggregateAt = 0
                        /\ \A i \in 1..(j - 1) :
                             log'[i].act = "AggregateSent" =>
                               log'[j].at >= log'[i].at + f.AggregateCooldownSeconds
             PROVE  log'[j].act = "AggregateSent"
  BY <1>1 DEF AggregateAtThreshold, Sent
<1>3. CASE j # n
  <2>1. j \in 1..Len(log) /\ \A i \in 1..j : log'[i] = log[i]
    BY <1>1, <1>3
  <2>2. /\ \A i \in 2..j : log'[i] = log[i]
        /\ \A i \in 1..(j - 1) : log'[i] = log[i]
        /\ log'[j] = log[j]
    BY SMTT(30), <2>1
  <2> QED
    BY <2>1, <2>2 DEF ThresholdInv, AggregateAtThreshold, Sent
<1>4. CASE j = n
  <2>1. /\ o.f # Nil /\ o.f.AggregateAt <= HardLimitRecentItems /\ o.f.AggregateAt > 0
        /\ plan.next.FlipCount > 1 /\ plan.next.FlipCount > o.f.SuppressBelow
        /\ plan.next.FlipCount % o.f.AggregateAt = 0
        /\ \A i \in 2..n : log'[i].f = o.f
        /\ \A i \in 1..(n - 1) :
             log'[i].act = "AggregateSent" =>
               o.now >= log'[i].at + o.f.AggregateCooldownSeconds
    BY <1>2, <1>4
  <2>2. edge # Nil
    BY <1>1, <2>1 DEF FirstObservation, Plan
  <2>3. Reachable(o.f)
    <3>1. o.f \in FlapConfig /\ HardLimitRecentItems \in Nat
      BY SMTT(30), <1>2, <2>1, EdgeFlapAssumption
    <3> QED
      BY <2>1, <3>1 DEF Reachable, FlapConfig
  <2>4. Under(o.f)
    BY <1>1, <2>1 DEF Under
  <2>5. Enough(edge, o.f.AggregateAt)
    BY <1>2, <2>2, <2>3, <2>4 DEF ThresholdInv, EnoughRecent
  <2>6. o.now >= edge.AggUntilTS
    <3>1. CASE edge.AggUntilTS = 0
      BY <1>2, <3>1
    <3>2. CASE edge.AggUntilTS # 0
      <4>1. PICK m \in 2..Len(log) :
              /\ log[m].act = "AggregateSent"
              /\ edge.AggUntilTS = log[m].at + log[m].f.AggregateCooldownSeconds
        BY <2>2, <3>2 DEF ThresholdInv, CooldownIsSent, Sent
      <4>2. m \in 1..(n - 1) /\ log'[m] = log[m] /\ log[m].f = o.f
        BY <1>1, <2>4, <4>1 DEF Under
      <4> QED
        BY <2>1, <4>1, <4>2
    <3> QED
      BY <3>1, <3>2
  <2> QED
    BY <1>1, <1>2, <1>4, <2>1, <2>2, <2>3, <2>5, <2>6, EvaluateCounts DEF plan
<1> QED
  BY <1>3, <1>4

\* Recent keeps pace with FlipCount and AggUntilTS is an aggregate's cooldown in
\* every behaviour of the detector, so its thresholds never pass unnoticed.
THEOREM ThresholdInvariance == Spec => []ThresholdInv
<1>1. Init => ThresholdInv
  <2> SUFFICES ASSUME Init PROVE ThresholdInv
    OBVIOUS
  <2>1. edge = Nil /\ Len(log) = 0
    BY DEF Init
  <2>2. 1..Len(log) = {}
    BY <2>1
  <2> QED
    BY <2>1, <2>2 DEF ThresholdInv, EnoughRecent, CooldownIsSent, AggregateAtThreshold
<1>2. Inv /\ ThresholdInv /\ [Next]_vars => ThresholdInv'
  <2> SUFFICES ASSUME Inv, ThresholdInv, [Next]_vars PROVE ThresholdInv'
    OBVIOUS
  <2>1. ASSUME NEW o \in Observations, Observe(o)
        PROVE  ThresholdInv'
    BY <2>1, StepEnough, StepCooldownIsSent, StepThreshold DEF ThresholdInv
  <2>2. CASE UNCHANGED vars
    BY Zenon, <2>2 DEF vars, ThresholdInv, EnoughRecent, Under, CooldownIsSent,
       AggregateAtThreshold, Sent
  <2> QED
    BY <2>1, <2>2 DEF Next
<1> QED
  BY <1>1, <1>2, Invariance, PTL DEF Spec

\* Under one configuration a flip beyond the tolerance whose number in the
\* window is a multiple of AggregateAt sends an aggregate unless a cooldown runs,
\* whatever the order of the clocks and wherever the windows begin.
THEOREM ThresholdSendsAggregate == Spec => []AggregateAtThreshold
<1>1. ThresholdInv => AggregateAtThreshold
  BY DEF ThresholdInv
<1> QED
  BY <1>1, ThresholdInvariance, PTL
=============================================================================
