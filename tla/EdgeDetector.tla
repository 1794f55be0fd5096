---------------------------- MODULE EdgeDetector ----------------------------
(***************************************************************************)
(* What the edge store and EvaluateEdgeAndFlap promise together: every     *)
(* notification that changes the edge state of a scope is evaluated        *)
(* against the state left by the one before it, in one step.  log is the   *)
(* history of these steps; its n-th entry made version n of the row.       *)
(*                                                                         *)
(* The seconds at which notifications are evaluated are any numbers up to  *)
(* MaxTime, in any order: EvaluateEdgeAndFlap reads the clock before it    *)
(* loads the row, so commits need not follow the order of their clocks.    *)
(***************************************************************************)
EXTENDS EdgeFlap

CONSTANT MaxTime       \* bound on the clock

ASSUME MaxTimeAssumption == MaxTime \in Nat

VARIABLES edge, log
vars == <<edge, log>>

Logged == {log[i].payload : i \in 1..Len(log)}

Init == edge = Nil /\ log = <<>>

\* EvaluateEdgeAndFlap as if it ran alone.
Observe(o) ==
  /\ o.payload \notin Logged
  /\ ~Stable(edge, o)
  /\ LET plan == Evaluate(edge, o)
     IN  /\ edge' = plan.next
         /\ log' = Append(log, Entry(o, plan))

Observations == [payload : Payloads, val : Values, now : 0..MaxTime, f : FlapConfigs]

Next == \E o \in Observations : Observe(o)

Spec == Init /\ [][Next]_vars
-----------------------------------------------------------------------------
\* The row is absent or a well-typed types.Edge, and what is logged of a commit
\* is one of the answers EvaluateEdgeAndFlap gives for a change.
TypeOK ==
  /\ edge \in Edge \cup {Nil}
  /\ log \in Seq(LogEntry)

Sent(n) == log[n].act = "AggregateSent"
Forwarded(n) == log[n].act = "EdgeTriggeredForward"

\* The flip that the n-th commit of a log recorded.
FlipAt(l, n) == [At |-> l[n].at, From |-> l[n - 1].val, To |-> l[n].val,
                 Payload |-> EncodePayload(l[n].payload)]

\* Edge.Recent is always the latest committed flips, all of them from some
\* commit on, in the order of the commits: AppendRecent's cap, the trimming at
\* a new window and the reset after an aggregate drop old flips only.
RecentIsLogSuffix ==
  edge # Nil =>
    /\ Len(edge.Recent) < Len(log)
    /\ edge.LastValue = log[Len(log)].val
    /\ \A i \in 1..Len(edge.Recent) :
         edge.Recent[i] = FlipAt(log, Len(log) - Len(edge.Recent) + i)

\* An aggregate lists the latest flips, newest first, and none that an earlier
\* aggregate of the scope listed: Recent is emptied by the write that decides
\* to send the aggregate.
AggregatesListNewFlips ==
  \A n \in 1..Len(log) : Sent(n) =>
    \A k \in 1..Len(log[n].agg.recent) :
      /\ k < n
      /\ log[n].agg.recent[k] = AggregateItem(FlipAt(log, n - k + 1))
      /\ \A m \in 1..(n - 1) : Sent(m) => m < n - k + 1

\* Aggregates of a scope are at least the cooldown of the earlier one apart,
\* whatever the order in which the clocks were read: AggUntilTS guards the
\* send and is written with it.
CooldownSpacing ==
  \A m, n \in 1..Len(log) : m < n /\ Sent(m) /\ Sent(n) =>
    log[n].at >= log[m].at + log[m].f.AggregateCooldownSeconds

OnlyAggregating == \A i \in 1..Len(log) : log[i].f # Nil /\ log[i].f.AggregateAt > 0

\* As long as every configuration in use aggregates, two edges forwarded as they came are
\* more than a window apart: inside a window flips are only suppressed or
\* aggregated.
ForwardSpacing ==
  OnlyAggregating =>
    \A m, n \in 1..Len(log) : m < n /\ Forwarded(m) /\ Forwarded(n) =>
      log[n].at - log[m].at > log[n].f.WindowSeconds

\* What the row remembers of the past: AggUntilTS covers the cooldown of every
\* aggregate sent, Recent starts after the last of them, and no edge was
\* forwarded after WindowStart.  The three properties above follow from it.
EdgeRemembers ==
  /\ edge = Nil <=> Len(log) = 0
  /\ edge # Nil => \A m \in 1..Len(log) : Sent(m) =>
       /\ log[m].f # Nil
       /\ log[m].at + log[m].f.AggregateCooldownSeconds <= edge.AggUntilTS
       /\ m <= Len(log) - Len(edge.Recent)
  /\ edge # Nil /\ OnlyAggregating =>
       \A m \in 1..Len(log) : Forwarded(m) => log[m].at <= edge.WindowStart

\* "AggregateAt is the threshold: if flips >= this, send an aggregated message
\* instead of forwarding originals" (types/config.go), as the code counts:
\* under one configuration, a flip beyond the tolerance whose number in the
\* window is a multiple of AggregateAt sends an aggregate unless the cooldown
\* of an earlier one runs: enough flips are then always in Recent.  The first
\* flip of a window is left out (m > 1): the code forwards the flip that opens a
\* new window without a look at AggregateAt.  (Beyond HardLimitRecentItems the threshold is out of reach:
\* Recent never holds as many.)
AggregateAtThreshold ==
  \A n \in 1..Len(log) :
    LET f == log[n].f
        m == log[n].flips
    IN  /\ f # Nil /\ f.AggregateAt <= HardLimitRecentItems
        /\ \A i \in 2..n : log[i].f = f
        /\ f.AggregateAt > 0 /\ m > 1 /\ m > f.SuppressBelow
        /\ m % f.AggregateAt = 0
        /\ \A i \in 1..(n - 1) :
             Sent(i) => log[n].at >= log[i].at + f.AggregateCooldownSeconds
        => Sent(n)
=============================================================================
