--------------------------- MODULE EdgeFlapProofs ---------------------------
(***************************************************************************)
(* What EvaluateEdgeAndFlap's decision does to a stored edge, for every    *)
(* edge and every notification: the facts the proofs about EdgeDetector    *)
(* and about the backends rest on.                                         *)
(***************************************************************************)
EXTENDS EdgeFlap, Functions, TLAPS

\* The members of a sequence,
LEMMA SeqFacts ==
  ASSUME NEW S, NEW s \in Seq(S)
  PROVE  Len(s) \in Nat /\ \A i \in 1..Len(s) : s[i] \in S
OBVIOUS

\* of a longer one
LEMMA AppendFacts ==
  ASSUME NEW S, NEW s \in Seq(S), NEW e \in S
  PROVE  /\ Append(s, e) \in Seq(S)
         /\ Len(Append(s, e)) = Len(s) + 1
         /\ Append(s, e)[Len(s) + 1] = e
         /\ \A i \in 1..Len(s) : Append(s, e)[i] = s[i]
OBVIOUS

\* and of a part of one.
LEMMA SubSeqFacts ==
  ASSUME NEW S, NEW s \in Seq(S), NEW m \in 1..Len(s), NEW n \in m..Len(s)
  PROVE  /\ SubSeq(s, m, n) \in Seq(S)
         /\ Len(SubSeq(s, m, n)) = n - m + 1
         /\ \A i \in 1..(n - m + 1) : SubSeq(s, m, n)[i] = s[m + i - 1]
OBVIOUS

\* A number is divided with one remainder.
LEMMA Division ==
  ASSUME NEW c \in Nat, NEW k \in Nat \ {0}
  PROVE  c = k * (c \div k) + (c % k) /\ c \div k \in Nat /\ c % k \in 0..(k - 1)
OBVIOUS

\* A larger quotient leaves no room for the remainder.
LEMMA LargerQuotient ==
  ASSUME NEW k \in Nat \ {0}, NEW q \in Nat, NEW p \in Nat, q < p,
         NEW r \in 0..(k - 1), NEW s \in 0..(k - 1)
  PROVE  k * q + r # k * p + s
<1>1. PICK d \in Nat : p = q + 1 + d
  <2>1. p - q - 1 \in Nat /\ p = q + 1 + (p - q - 1)
    OBVIOUS
  <2> QED
    BY <2>1
<1>2. k * p = k * q + k + k * d
  BY <1>1
<1>3. k * d \in Nat /\ k * q \in Nat
  OBVIOUS
<1> QED
  BY <1>2, <1>3

\* So a number has one quotient and one remainder.
LEMMA SameDivision ==
  ASSUME NEW k \in Nat \ {0}, NEW q \in Nat, NEW p \in Nat,
         NEW r \in 0..(k - 1), NEW s \in 0..(k - 1), k * q + r = k * p + s
  PROVE  q = p /\ r = s
<1>1. ~(q < p) /\ ~(p < q)
  BY LargerQuotient
<1>2. q = p
  BY <1>1
<1> QED
  BY <1>2

\* Counting one further raises the remainder, or raises the quotient and brings
\* the remainder back to zero.
LEMMA CountedOn ==
  ASSUME NEW c \in Nat, NEW k \in Nat \ {0}
  PROVE  /\ c \div k \in Nat /\ c % k \in 0..(k - 1)
         /\ \/ /\ c % k = k - 1 /\ (c + 1) % k = 0
               /\ (c + 1) \div k = (c \div k) + 1
            \/ /\ (c + 1) % k = (c % k) + 1
               /\ (c + 1) \div k = c \div k
<1> DEFINE q == c \div k
           r == c % k
           p == (c + 1) \div k
           s == (c + 1) % k
<1>1. c = k * q + r /\ q \in Nat /\ r \in 0..(k - 1)
  BY Zenon, Division
<1>2. c + 1 \in Nat
  OBVIOUS
<1>3. c + 1 = k * p + s /\ p \in Nat /\ s \in 0..(k - 1)
  BY Zenon, <1>2, Division
<1> HIDE DEF q, r, p, s
<1>4. CASE r = k - 1
  <2>1. k * p + s = k * (q + 1) + 0 /\ q + 1 \in Nat /\ 0 \in 0..(k - 1)
    BY <1>1, <1>3, <1>4
  <2>2. p = q + 1 /\ s = 0
    BY <1>3, <2>1, SameDivision
  <2> QED
    BY <1>1, <1>4, <2>2 DEF q, r, p, s
<1>5. CASE r # k - 1
  <2>1. k * p + s = k * q + (r + 1) /\ r + 1 \in 0..(k - 1)
    BY <1>1, <1>3, <1>5
  <2>2. p = q /\ s = r + 1
    BY <1>1, <1>3, <2>1, SameDivision
  <2> QED
    BY <1>1, <2>2 DEF q, r, p, s
<1> QED
  BY <1>4, <1>5

\* The members of S can be numbered up to n.
Numbered(S, n) == ExistsInjection(S, 1..n)

\* Fewer are numbered by the same numbers, and larger numbers will do.
LEMMA NumberedFewer ==
  ASSUME NEW S, NEW n \in Nat, Numbered(S, n), NEW T, T \subseteq S, NEW k \in Nat, n <= k
  PROVE  Numbered(T, k)
<1>1. PICK num \in [S -> 1..n] : \A a, b \in S : num[a] = num[b] => a = b
  BY DEF Numbered, ExistsInjection, Injection, IsInjective
<1> DEFINE new == [x \in T |-> num[x]]
<1>2. new \in [T -> 1..k] /\ \A a, b \in T : new[a] = new[b] => a = b
  BY <1>1
<1> HIDE DEF new
<1>3. IsInjective(new)
  BY <1>2 DEF IsInjective
<1> QED
  BY <1>2, <1>3 DEF Numbered, ExistsInjection, Injection

\* One more takes the next number.
LEMMA NumberedMore ==
  ASSUME NEW S, NEW n \in Nat, Numbered(S, n), NEW m, NEW T, T \subseteq S \cup {m}
  PROVE  Numbered(T, n + 1)
<1>1. PICK num \in [S -> 1..n] : \A a, b \in S : num[a] = num[b] => a = b
  BY DEF Numbered, ExistsInjection, Injection, IsInjective
<1> DEFINE new == [x \in T |-> IF x \in S THEN num[x] ELSE n + 1]
<1>2. new \in [T -> 1..(n + 1)]
  BY <1>1
<1>3. \A a, b \in T : new[a] = new[b] => a = b
  BY <1>1
<1> HIDE DEF new
<1>4. IsInjective(new)
  BY <1>2, <1>3 DEF IsInjective
<1> QED
  BY <1>2, <1>4 DEF Numbered, ExistsInjection, Injection

\* None are numbered in any way.
LEMMA NumberedNone ==
  ASSUME NEW n \in Nat
  PROVE  Numbered({}, n)
<1> DEFINE new == [x \in {} |-> 1]
<1>1. new \in [{} -> 1..n] /\ IsInjective(new)
  BY DEF IsInjective
<1> QED
  BY Zenon, <1>1 DEF Numbered, ExistsInjection, Injection

Items == [at : Nat, from : Values, to : Values, payload : Payloads]

NewFlip(e, o) == [At |-> o.now, From |-> e.LastValue, To |-> o.val,
                  Payload |-> EncodePayload(o.payload)]

\* rs is what is left of old after one flip was added at its end and some flips
\* were dropped at its front.
Shifted(rs, old, flip) ==
  /\ rs \in Seq(Flip)
  /\ Len(rs) \in 0..(Len(old) + 1)
  /\ \A i \in 1..Len(rs) :
       rs[i] = IF i = Len(rs) THEN flip ELSE old[Len(old) + 1 - Len(rs) + i]

\* The index of an old flip, counted from the end of Recent.
LEMMA ShiftedIndex ==
  ASSUME NEW old \in Nat, NEW new \in Nat, NEW k \in Nat
  PROVE  old + 1 - new + (new - k + 1) = old + 2 - k
OBVIOUS

\* The index of an old flip in the log before and after one entry was added.
LEMMA ShiftedPosition ==
  ASSUME NEW len \in Nat, NEW old \in Nat, NEW new \in 0..(old + 1), NEW i \in 1..new,
         i # new, old < len
  PROVE  /\ old + 1 - new + i \in 1..old
         /\ len - old + (old + 1 - new + i) = (len + 1) - new + i
         /\ (len + 1) - new + i \in 2..len
OBVIOUS

\* AppendRecent adds the flip at the end and drops flips at the front only.
LEMMA AppendRecentShifts ==
  ASSUME NEW rs \in Seq(Flip), NEW f \in Flip, NEW cap \in Nat \ {0}
  PROVE  /\ Shifted(AppendRecent(rs, f, cap), rs, f)
         /\ Len(AppendRecent(rs, f, cap)) > 0
<1> DEFINE longer == Append(rs, f)
<1>1. /\ longer \in Seq(Flip)
      /\ Len(longer) = Len(rs) + 1
      /\ longer[Len(rs) + 1] = f
      /\ \A i \in 1..Len(rs) : longer[i] = rs[i]
  BY AppendFacts
<1>2. CASE Len(longer) > cap
  <2> DEFINE m == Len(longer) - cap + 1
             cut == SubSeq(longer, m, Len(longer))
  <2>1. AppendRecent(rs, f, cap) = cut
    BY <1>2 DEF AppendRecent
  <2> HIDE DEF longer
  <2>2. /\ m \in 1..Len(longer) /\ Len(longer) \in m..Len(longer)
        /\ Len(longer) - m + 1 = cap
    BY <1>1, <1>2
  <2> HIDE DEF m
  <2>3. /\ cut \in Seq(Flip) /\ Len(cut) = Len(longer) - m + 1
        /\ \A i \in 1..(Len(longer) - m + 1) : cut[i] = longer[m + i - 1]
    BY ZenonT(30), <1>1, <2>2, SubSeqFacts
  <2> HIDE DEF cut
  <2>4. Len(cut) = cap /\ \A i \in 1..cap : cut[i] = longer[m + i - 1]
    BY Zenon, <2>2, <2>3
  <2>5. Len(rs) \in Nat /\ cap < Len(rs) + 1 /\ m = Len(rs) + 2 - cap
    BY <1>1, <1>2 DEF m
  <2>6. ASSUME NEW i \in 1..cap
        PROVE  cut[i] = IF i = cap THEN f ELSE rs[Len(rs) + 1 - cap + i]
    <3>1. cut[i] = longer[Len(rs) + 1 - cap + i]
      BY SMTT(30), <2>4, <2>5
    <3> QED
      BY SMTT(30), <3>1, <1>1, <2>5
  <2>7. \A i \in 1..Len(cut) :
          cut[i] = IF i = Len(cut) THEN f ELSE rs[Len(rs) + 1 - Len(cut) + i]
    BY <2>4, <2>6
  <2>8. Len(cut) \in 0..(Len(rs) + 1) /\ Len(cut) > 0
    BY <2>4, <2>5
  <2> QED
    BY SMTT(30), <2>1, <2>3, <2>7, <2>8 DEF Shifted
<1>3. CASE ~(Len(longer) > cap)
  <2>1. AppendRecent(rs, f, cap) = longer
    BY <1>3 DEF AppendRecent
  <2> HIDE DEF longer
  <2> QED
    BY <2>1, <1>1 DEF Shifted
<1> QED
  BY <1>2, <1>3

\* Dropping all flips but the last, or all of them, leaves a shifted sequence.
LEMMA ShiftedTail ==
  ASSUME NEW rs, NEW old \in Seq(Flip), NEW f \in Flip, Shifted(rs, old, f), Len(rs) > 0
  PROVE  /\ Shifted(SubSeq(rs, Len(rs), Len(rs)), old, f)
         /\ Len(SubSeq(rs, Len(rs), Len(rs))) = 1
<1> DEFINE last == SubSeq(rs, Len(rs), Len(rs))
<1>1. rs \in Seq(Flip) /\ Len(rs) \in Nat /\ Len(old) \in Nat /\ rs[Len(rs)] = f
  BY DEF Shifted
<1>2. \A i \in Len(rs)..Len(rs) : rs[i] \in Flip
  BY <1>1
<1>3. last \in Seq(Flip) /\ Len(last) = 1 /\ last[1] = f
  BY <1>1, <1>2, SubSeqFacts
<1> HIDE DEF last
<1> QED
  BY <1>1, <1>3 DEF Shifted

\* Recording a flip changes the last value and the recent flips, not the window.
LEMMA RecordFlipFacts ==
  ASSUME NEW e \in Edge, NEW o \in Observation
  PROVE  LET r == RecordFlip(e, o)
         IN  /\ r \in Edge
             /\ r.LastValue = o.val /\ r.LastChangeTS = o.now
             /\ r.WindowStart = e.WindowStart /\ r.FlipCount = e.FlipCount
             /\ r.AggUntilTS = e.AggUntilTS
             /\ Shifted(r.Recent, e.Recent, NewFlip(e, o)) /\ Len(r.Recent) > 0
<1> DEFINE rs == AppendRecent(e.Recent, NewFlip(e, o), HardLimitRecentItems)
<1>1. e.Recent \in Seq(Flip) /\ NewFlip(e, o) \in Flip
  BY DEF Edge, Flip, NewFlip, Observation, EncodePayload
<1>2. Shifted(rs, e.Recent, NewFlip(e, o)) /\ Len(rs) > 0
  BY <1>1, AppendRecentShifts, EdgeFlapAssumption
<1>3. rs \in Seq(Flip)
  BY <1>2 DEF Shifted
<1>4. RecordFlip(e, o) = [e EXCEPT !.Recent = rs, !.LastValue = o.val, !.LastChangeTS = o.now]
  BY DEF RecordFlip, NewFlip
<1> HIDE DEF rs
<1> QED
  BY Zenon, <1>2, <1>3, <1>4 DEF Edge, Observation

\* Counting a flip in the running window raises FlipCount and nothing else.
LEMMA OneMoreFlip ==
  ASSUME NEW e \in Edge, NEW w, w = [e EXCEPT !.FlipCount = @ + 1]
  PROVE  /\ w \in Edge
         /\ w.LastValue = e.LastValue /\ w.LastChangeTS = e.LastChangeTS
         /\ w.AggUntilTS = e.AggUntilTS
         /\ w.WindowStart = e.WindowStart /\ w.Recent = e.Recent
<1>1. e.FlipCount + 1 \in Nat
  BY DEF Edge
<1>2. w = [LastValue |-> e.LastValue, LastChangeTS |-> e.LastChangeTS,
           WindowStart |-> e.WindowStart, FlipCount |-> e.FlipCount + 1,
           Recent |-> e.Recent, AggUntilTS |-> e.AggUntilTS]
  BY DEF Edge
<1> QED
  BY <1>1, <1>2 DEF Edge

\* Counting it may open a window, which keeps this flip only.
LEMMA CountFlipFacts ==
  ASSUME NEW e \in Edge, NEW o \in Observation, o.f # Nil
  PROVE  LET w == CountFlip(RecordFlip(e, o), o)
         IN  /\ w \in Edge
             /\ w.LastValue = o.val /\ w.LastChangeTS = o.now
             /\ w.AggUntilTS = e.AggUntilTS
             /\ w.WindowStart = IF NewWindow(e, o) THEN o.now ELSE e.WindowStart
             /\ Shifted(w.Recent, e.Recent, NewFlip(e, o)) /\ Len(w.Recent) > 0
<1> DEFINE r == RecordFlip(e, o)
           one == SubSeq(r.Recent, Len(r.Recent), Len(r.Recent))
<1>1. /\ r \in Edge
      /\ r.LastValue = o.val /\ r.LastChangeTS = o.now /\ r.WindowStart = e.WindowStart
      /\ r.FlipCount = e.FlipCount /\ r.AggUntilTS = e.AggUntilTS
      /\ Shifted(r.Recent, e.Recent, NewFlip(e, o)) /\ Len(r.Recent) > 0
  BY RecordFlipFacts
<1>2. e.Recent \in Seq(Flip) /\ NewFlip(e, o) \in Flip
  BY DEF Edge, Flip, NewFlip, Observation, EncodePayload
<1>3. Shifted(one, e.Recent, NewFlip(e, o)) /\ Len(one) = 1
  BY <1>1, <1>2, ShiftedTail
<1>4. one \in Seq(Flip)
  BY <1>3 DEF Shifted
<1>5. NewWindow(r, o) <=> NewWindow(e, o)
  BY <1>1 DEF NewWindow
<1>6. CountFlip(r, o) = IF NewWindow(e, o)
                        THEN [r EXCEPT !.WindowStart = o.now, !.FlipCount = 1, !.Recent = one]
                        ELSE [r EXCEPT !.FlipCount = @ + 1]
  BY <1>5 DEF CountFlip
<1>7. o.now \in Nat
  BY DEF Observation
<1> DEFINE w == CountFlip(r, o)
<1> SUFFICES /\ w \in Edge
             /\ w.LastValue = o.val /\ w.LastChangeTS = o.now
             /\ w.AggUntilTS = e.AggUntilTS
             /\ w.WindowStart = IF NewWindow(e, o) THEN o.now ELSE e.WindowStart
             /\ Shifted(w.Recent, e.Recent, NewFlip(e, o)) /\ Len(w.Recent) > 0
  OBVIOUS
<1> HIDE DEF r, one
<1>8. CASE NewWindow(e, o)
  <2>1. w = [r EXCEPT !.WindowStart = o.now, !.FlipCount = 1, !.Recent = one]
    BY <1>6, <1>8
  <2>2. /\ w \in Edge
        /\ w.LastValue = r.LastValue /\ w.LastChangeTS = r.LastChangeTS
        /\ w.AggUntilTS = r.AggUntilTS
        /\ w.WindowStart = o.now /\ w.Recent = one
    <3> HIDE DEF w
    <3>1. r \in Edge
      BY <1>1
    <3> QED
      BY Zenon, <2>1, <3>1, <1>4, <1>7 DEF Edge
  <2>3. Len(w.Recent) > 0 /\ Shifted(w.Recent, e.Recent, NewFlip(e, o))
    BY <2>2, <1>3
  <2> QED
    BY <2>2, <2>3, <1>1, <1>8
<1>9. CASE ~NewWindow(e, o)
  <2>1. w = [r EXCEPT !.FlipCount = @ + 1]
    BY <1>6, <1>9
  <2>2. /\ w \in Edge
        /\ w.LastValue = r.LastValue /\ w.LastChangeTS = r.LastChangeTS
        /\ w.AggUntilTS = r.AggUntilTS
        /\ w.WindowStart = r.WindowStart /\ w.Recent = r.Recent
    <3> HIDE DEF w
    <3>1. r \in Edge
      BY <1>1
    <3> QED
      BY ONLY <2>1, <3>1, OneMoreFlip
  <2> QED
    BY <2>2, <1>1, <1>9
<1> QED
  BY <1>8, <1>9

\* BuildAggregate lists flips of Recent from its end backwards.
LEMMA BuildAggregateFacts ==
  ASSUME NEW e \in Edge, NEW k \in Int
  PROVE  LET items == BuildAggregate(e, k).recent
         IN  /\ BuildAggregate(e, k) \in Aggregate
             /\ Len(items) \in 0..Len(e.Recent)
             /\ \A i \in 1..Len(items) :
                  items[i] = AggregateItem(e.Recent[Len(e.Recent) - i + 1])
<1> DEFINE num   == Len(e.Recent)
           size  == IF k <= 0 THEN 0 ELSE IF k > num THEN num ELSE k
           items == [i \in 1..size |-> AggregateItem(e.Recent[num - i + 1])]
<1>1. e.Recent \in Seq(Flip) /\ num \in Nat
  BY DEF Edge
<1>2. size \in 0..num
  BY <1>1
<1> HIDE DEF size
<1>3. ASSUME NEW i \in 1..size
      PROVE  AggregateItem(e.Recent[num - i + 1]) \in Items
  <2>1. e.Recent[num - i + 1] \in Flip
    BY <1>1, <1>2
  <2> QED
    BY <2>1 DEF AggregateItem, DecodePayload, Flip, Items
<1>4. items \in Seq(Items) /\ Len(items) = size
  BY <1>2, <1>3
<1>5. BuildAggregate(e, k) = [last_value |-> e.LastValue, window_start |-> e.WindowStart,
                              flip_count |-> e.FlipCount, recent |-> items]
  BY DEF BuildAggregate, size
<1> HIDE DEF items
<1>6. BuildAggregate(e, k).recent = items /\ BuildAggregate(e, k) \in Aggregate
  BY <1>4, <1>5 DEF Aggregate, Edge, Items
<1> QED
  BY <1>2, <1>4, <1>6 DEF items

\* What an evaluation does to a stored edge.
Transition(e, o, plan) ==
  /\ plan.next \in Edge /\ plan.next.LastValue = o.val /\ plan.next.LastChangeTS = o.now
  /\ plan.act \in Notifying \cup {"SuppressFlapping"}
  /\ plan.agg \in Aggregate \cup {Nil}
  /\ Shifted(plan.next.Recent, e.Recent, NewFlip(e, o))
  /\ plan.next.WindowStart = IF o.f # Nil /\ NewWindow(e, o) THEN o.now ELSE e.WindowStart
  /\ plan.act # "AggregateSent" =>
       plan.next.AggUntilTS = e.AggUntilTS /\ Len(plan.next.Recent) > 0
  /\ plan.act = "EdgeTriggeredForward" /\ o.f # Nil /\ o.f.AggregateAt > 0 => NewWindow(e, o)
  /\ plan.act = "AggregateSent" =>
       /\ o.f # Nil /\ o.now >= e.AggUntilTS
       /\ plan.next.AggUntilTS = o.now + o.f.AggregateCooldownSeconds
       /\ plan.next.Recent = <<>>
       /\ Len(plan.agg.recent) \in 0..(Len(e.Recent) + 1)
       /\ \A k \in 1..Len(plan.agg.recent) :
            plan.agg.recent[k] =
              AggregateItem(IF k = 1 THEN NewFlip(e, o) ELSE e.Recent[Len(e.Recent) + 2 - k])

\* EvaluateEdgeAndFlap's decision on a stored edge is such a transition.
LEMMA EvaluateIsTransition ==
  ASSUME NEW e \in Edge, NEW o \in Observation
  PROVE  Transition(e, o, Evaluate(e, o))
<1> DEFINE r == RecordFlip(e, o)
           w == CountFlip(r, o)
<1>0. e # Nil /\ e.Recent \in Seq(Flip) /\ Len(e.Recent) \in Nat /\ o.now \in Nat
  BY EdgeFlapAssumption DEF Edge, Observation
<1>1. CASE o.f = Nil
  <2>1. Evaluate(e, o) = Forward(r)
    BY <1>0, <1>1 DEF Evaluate
  <2>2. /\ r \in Edge /\ r.LastValue = o.val /\ r.LastChangeTS = o.now
        /\ r.WindowStart = e.WindowStart /\ r.AggUntilTS = e.AggUntilTS
        /\ Shifted(r.Recent, e.Recent, NewFlip(e, o)) /\ Len(r.Recent) > 0
    BY RecordFlipFacts
  <2> HIDE DEF r
  <2> QED
    BY <1>1, <2>1, <2>2 DEF Transition, Forward, Plan, Notifying
<1>2. CASE o.f # Nil
  <2>1. Evaluate(e, o) = EvaluateFlapping(w, NewWindow(e, o), o)
    BY <1>0, <1>2 DEF Evaluate
  <2>2. /\ w \in Edge /\ w.LastValue = o.val /\ w.LastChangeTS = o.now
        /\ w.AggUntilTS = e.AggUntilTS
        /\ w.WindowStart = IF NewWindow(e, o) THEN o.now ELSE e.WindowStart
        /\ Shifted(w.Recent, e.Recent, NewFlip(e, o)) /\ Len(w.Recent) > 0
    BY <1>2, CountFlipFacts
  <2>3. /\ o.f \in FlapConfig /\ o.f.AggregateMaxItems \in Int
        /\ o.f.AggregateCooldownSeconds \in Nat
    BY <1>2, EdgeFlapAssumption DEF Observation, FlapConfig
  <2> HIDE DEF w, r
  <2>4. CASE Evaluate(e, o) = Tolerate(w) \/ Evaluate(e, o) = Hold(w)
    BY <1>2, <2>2, <2>4 DEF Transition, Tolerate, Hold, Plan, Notifying
  <2>5. CASE Evaluate(e, o) = Forward(w) /\ (o.f.AggregateAt > 0 => NewWindow(e, o))
    BY <1>2, <2>2, <2>5 DEF Transition, Forward, Plan, Notifying
  <2>6. CASE /\ Evaluate(e, o) = SendAggregate(w, o)
             /\ ~NewWindow(e, o) /\ o.now >= w.AggUntilTS
    <3> DEFINE c   == StartCooldown(w, o)
               d   == DrainRecent(c)
               agg == BuildAggregate(c, o.f.AggregateMaxItems)
    <3>1. /\ c \in Edge /\ c.Recent = w.Recent /\ c.LastValue = w.LastValue
          /\ c.WindowStart = w.WindowStart /\ c.LastChangeTS = w.LastChangeTS
          /\ c.AggUntilTS = o.now + o.f.AggregateCooldownSeconds
      <4>1. w \in Edge /\ o.now + o.f.AggregateCooldownSeconds \in Nat
        BY <1>0, <2>2, <2>3
      <4>2. c = [w EXCEPT !.AggUntilTS = o.now + o.f.AggregateCooldownSeconds]
        BY DEF StartCooldown
      <4> HIDE DEF c
      <4> QED
        BY SMTT(30), <4>1, <4>2 DEF Edge
    <3>2. /\ d \in Edge /\ d.Recent = <<>> /\ d.LastValue = c.LastValue
          /\ d.WindowStart = c.WindowStart /\ d.AggUntilTS = c.AggUntilTS
          /\ d.LastChangeTS = c.LastChangeTS
      <4>1. d = [c EXCEPT !.Recent = <<>>] /\ c \in Edge /\ <<>> \in Seq(Flip)
        BY <3>1 DEF DrainRecent
      <4> HIDE DEF c, d
      <4> QED
        BY Zenon, <4>1 DEF Edge
    <3>3. /\ agg \in Aggregate /\ Len(agg.recent) \in 0..Len(w.Recent)
          /\ \A k \in 1..Len(agg.recent) :
               agg.recent[k] = AggregateItem(w.Recent[Len(w.Recent) - k + 1])
      <4>1. c \in Edge /\ c.Recent = w.Recent /\ o.f.AggregateMaxItems \in Int
        BY <2>3, <3>1
      <4> HIDE DEF c
      <4>2. /\ agg \in Aggregate /\ Len(agg.recent) \in 0..Len(c.Recent)
            /\ \A k \in 1..Len(agg.recent) :
                 agg.recent[k] = AggregateItem(c.Recent[Len(c.Recent) - k + 1])
        BY Zenon, <4>1, BuildAggregateFacts
      <4> HIDE DEF agg
      <4> QED
        BY Zenon, <4>1, <4>2
    <3>4. /\ Evaluate(e, o).next = d /\ Evaluate(e, o).act = "AggregateSent"
          /\ Evaluate(e, o).agg = agg
      BY <2>6 DEF SendAggregate, Plan
    <3> HIDE DEF c, d, agg
    <3>5. Len(w.Recent) \in 1..(Len(e.Recent) + 1)
      BY <1>0, <2>2 DEF Shifted
    <3>6. ASSUME NEW k \in 1..Len(agg.recent)
          PROVE  agg.recent[k] =
                   AggregateItem(IF k = 1 THEN NewFlip(e, o) ELSE e.Recent[Len(e.Recent) + 2 - k])
      <4>1. Len(w.Recent) - k + 1 \in 1..Len(w.Recent)
        BY <3>3, <3>5
      <4>2. w.Recent[Len(w.Recent) - k + 1] =
              IF Len(w.Recent) - k + 1 = Len(w.Recent) THEN NewFlip(e, o)
              ELSE e.Recent[Len(e.Recent) + 1 - Len(w.Recent) + (Len(w.Recent) - k + 1)]
        BY Zenon, <2>2, <4>1 DEF Shifted
      <4>3. Len(w.Recent) \in Nat /\ Len(e.Recent) \in Nat /\ k \in Nat
        BY <1>0, <3>3, <3>5
      <4>4. (Len(w.Recent) - k + 1 = Len(w.Recent)) <=> (k = 1)
        BY <4>3
      <4>5. Len(e.Recent) + 1 - Len(w.Recent) + (Len(w.Recent) - k + 1) = Len(e.Recent) + 2 - k
        BY Zenon, <4>3, ShiftedIndex
      <4> QED
        BY Zenon, <3>3, <4>2, <4>4, <4>5
    <3>7. Shifted(d.Recent, e.Recent, NewFlip(e, o))
      BY <1>0, <3>2 DEF Shifted
    <3> QED
      BY <1>2, <2>2, <2>6, <3>1, <3>2, <3>3, <3>4, <3>5, <3>6, <3>7 DEF Transition, Notifying
  <2> QED
    BY <2>1, <2>4, <2>5, <2>6 DEF EvaluateFlapping, AggregateDue
<1> QED
  BY <1>1, <1>2

\* The flips of an edge form a chain that ends in its last value.
Chained(e) ==
  /\ \A i \in 1..(Len(e.Recent) - 1) : e.Recent[i].To = e.Recent[i + 1].From
  /\ Len(e.Recent) > 0 => e.Recent[Len(e.Recent)].To = e.LastValue

\* An evaluation continues the chain: the flip it adds starts where it ended.
LEMMA EvaluateChains ==
  ASSUME NEW e \in Edge, Chained(e), NEW o \in Observation
  PROVE  LET plan == Evaluate(e, o)
             rs   == plan.next.Recent
         IN  /\ Chained(plan.next)
             /\ plan.act # "AggregateSent" =>
                  /\ Len(rs) > 0 /\ rs[Len(rs)].To = plan.next.LastValue
                  /\ rs[Len(rs)].At = plan.next.LastChangeTS
<1> DEFINE n    == Evaluate(e, o).next
           rs   == n.Recent
           flip == NewFlip(e, o)
<1>1. /\ Shifted(rs, e.Recent, flip) /\ n.LastValue = o.val /\ n.LastChangeTS = o.now
      /\ Evaluate(e, o).act # "AggregateSent" => Len(rs) > 0
  BY EvaluateIsTransition DEF Transition
<1>2. flip.From = e.LastValue /\ flip.To = o.val /\ flip.At = o.now
  BY DEF NewFlip
<1>3. Len(e.Recent) \in Nat
  BY SeqFacts DEF Edge
<1> HIDE DEF n, rs, flip
<1>4. /\ Len(rs) \in 0..(Len(e.Recent) + 1)
      /\ \A i \in 1..Len(rs) :
           rs[i] = IF i = Len(rs) THEN flip ELSE e.Recent[Len(e.Recent) + 1 - Len(rs) + i]
  BY <1>1 DEF Shifted
<1>5. Len(rs) > 0 => rs[Len(rs)] = flip
  BY <1>3, <1>4
<1>6. ASSUME NEW i \in 1..(Len(rs) - 1)
      PROVE  rs[i].To = rs[i + 1].From
  <2> DEFINE j == Len(e.Recent) + 1 - Len(rs) + i
  <2>1. /\ i \in 1..Len(rs) /\ i + 1 \in 1..Len(rs) /\ i # Len(rs)
        /\ j \in 1..Len(e.Recent) /\ Len(e.Recent) + 1 - Len(rs) + (i + 1) = j + 1
        /\ (i + 1 = Len(rs)) <=> (j = Len(e.Recent))
        /\ j # Len(e.Recent) => j \in 1..(Len(e.Recent) - 1)
        /\ j = Len(e.Recent) => Len(e.Recent) > 0
    <3>1. PICK new, old : new = Len(rs) /\ old = Len(e.Recent)
      BY Zenon
    <3>2. old \in Nat /\ new \in 0..(old + 1) /\ i \in 1..(new - 1)
      BY <1>3, <1>4, <3>1
    <3>3. /\ i \in 1..new /\ i + 1 \in 1..new /\ i # new
          /\ old + 1 - new + i \in 1..old
          /\ old + 1 - new + (i + 1) = (old + 1 - new + i) + 1
          /\ (i + 1 = new) <=> (old + 1 - new + i = old)
          /\ old + 1 - new + i # old => old + 1 - new + i \in 1..(old - 1)
          /\ old + 1 - new + i = old => old > 0
      BY <3>2
    <3> QED
      BY Zenon, <3>1, <3>3
  <2>2. rs[i] = e.Recent[j]
    BY <1>4, <2>1
  <2>3. rs[i + 1] = IF i + 1 = Len(rs) THEN flip
                    ELSE e.Recent[Len(e.Recent) + 1 - Len(rs) + (i + 1)]
    BY <1>4, <2>1
  <2> HIDE DEF j
  <2>4. rs[i + 1] = IF j = Len(e.Recent) THEN flip ELSE e.Recent[j + 1]
    BY <2>1, <2>3
  <2> QED
    BY SMTT(30), <1>2, <2>1, <2>2, <2>4 DEF Chained
<1> QED
  BY <1>1, <1>2, <1>5, <1>6 DEF Chained, n, rs

\* A decision's edge and log entry are well typed, and only a committed write
\* lets a caller notify: the answers to a lost race and to a failed write are
\* no notifications.
LEMMA EvaluateTyped ==
  ASSUME NEW e \in Edge \cup {Nil}, NEW o \in Observation
  PROVE  /\ Evaluate(e, o).next \in Edge
         /\ Evaluate(e, o).act \in Notifying \cup {"SuppressFlapping"}
         /\ Evaluate(e, o).agg \in Aggregate \cup {Nil}
         /\ Evaluate(e, o).onRace \in {"SuppressFlapping", "NoOp"}
         /\ Evaluate(e, o).onFail \in {"SuppressFlapping", "error"}
         /\ Entry(o, Evaluate(e, o)) \in LogEntry
<1> DEFINE plan == Evaluate(e, o)
<1>1. /\ plan.onRace \in {"SuppressFlapping", "NoOp"}
      /\ plan.onFail \in {"SuppressFlapping", "error"}
  BY DEF Evaluate, EvaluateFlapping, FirstObservation, Forward, Tolerate, Hold,
     SendAggregate, Plan
<1>2. /\ plan.next \in Edge /\ plan.agg \in Aggregate \cup {Nil}
      /\ plan.act \in Notifying \cup {"SuppressFlapping"}
  <2>1. CASE e = Nil
    <3>1. plan = FirstObservation(o)
      BY <2>1 DEF Evaluate
    <3> HIDE DEF plan
    <3>2. <<>> \in Seq(Flip) /\ o.val \in Values /\ o.now \in Nat
      BY DEF Observation
    <3>3. plan.next \in Edge
      BY <3>1, <3>2 DEF FirstObservation, Plan, Edge
    <3> QED
      BY <3>1, <3>3 DEF FirstObservation, Plan, Notifying
  <2>2. CASE e # Nil
    BY <2>2, EvaluateIsTransition DEF Transition
  <2> QED
    BY <2>1, <2>2
<1> HIDE DEF plan
<1>3. Entry(o, plan) \in LogEntry
  <2>1. plan.next.FlipCount \in Nat
    BY <1>2 DEF Edge
  <2> QED
    BY <1>2, <2>1 DEF Entry, LogEntry, Observation
<1> QED
  BY <1>1, <1>2, <1>3 DEF plan
=============================================================================
