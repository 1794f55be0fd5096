------------------------------ MODULE EdgeFlap ------------------------------
(***************************************************************************)
(* The decision EvaluateEdgeAndFlap takes (internal/flow/edge_flap.go):    *)
(* what becomes of the stored edge state of one (clientID, scopeKey) when  *)
(* one notification is observed.  No state lives here: the modules that    *)
(* load and persist the edge apply Evaluate to what they loaded.           *)
(*                                                                         *)
(* Time is counted in abstract seconds; a flapping configuration is scaled *)
(* with MinWindowSizeSeconds (10 in the code), and HardLimitRecentItems    *)
(* (128 in the code) is a parameter, so that a small instance meets both   *)
(* bounds.                                                                 *)
(***************************************************************************)
EXTENDS Integers, Sequences

CONSTANTS
  Values,                \* string-coerced values of the trigger field
  Payloads,              \* notifications, each of them one request
  FlapConfigs,           \* flapping configurations a client may have, Nil too
  Nil,                   \* Go's nil: no row, no flapping section, no aggregate
  HardLimitRecentItems,
  MinWindowSizeSeconds

FlapConfig == [WindowSeconds : Int, SuppressBelow : Int, AggregateAt : Int,
               AggregateMaxItems : Int, AggregateCooldownSeconds : Int]

\* The flapping part of ClientConfig.Validate: PutClientConfig stores nothing
\* else.
ValidFlap(f) ==
  /\ f.WindowSeconds >= MinWindowSizeSeconds
  /\ f.SuppressBelow >= 0
  /\ f.SuppressBelow <= f.WindowSeconds

(***************************************************************************)
(* The persisted state (internal/types/state.go).  A flip keeps its        *)
(* notification compressed and encoded; the aggregate carries it decoded.  *)
(***************************************************************************)
EncodePayload(d) == [zstd |-> d]
DecodePayload(in) == in.zstd

Flip == [At : Nat, From : Values, To : Values, Payload : [zstd : Payloads]]

Edge == [LastValue : Values, LastChangeTS : Nat, WindowStart : Nat,
         FlipCount : Nat, Recent : Seq(Flip), AggUntilTS : Nat]

ASSUME EdgeFlapAssumption ==
  /\ HardLimitRecentItems \in Nat \ {0}
  /\ MinWindowSizeSeconds \in Nat \ {0}
  /\ Nil \notin FlapConfig /\ Nil \notin Edge
  /\ \A f \in FlapConfigs \ {Nil} :
       f \in FlapConfig /\ ValidFlap(f) /\ f.AggregateCooldownSeconds >= 0

\* One notification under evaluation: its trigger value, the second at which
\* EpochTime was read and the flapping section of its client's configuration.
Observation == [payload : Payloads, val : Values, now : Nat, f : FlapConfigs]

\* Mutant: the cap keeps the oldest flips.
AppendRecentKeepsOldest(rs, f, cap) ==
  LET longer == Append(rs, f)
  IN  IF Len(longer) > cap THEN SubSeq(longer, 1, cap) ELSE longer

AppendRecent(rs, f, cap) ==
  LET longer == Append(rs, f)
  IN  IF Len(longer) > cap
      THEN SubSeq(longer, Len(longer) - cap + 1, Len(longer))
      ELSE longer

(***************************************************************************)
(* What an evaluation wants: the edge to persist, the action to answer     *)
(* when the write commits, the aggregate to send, and the answers when the *)
(* compare-and-set loses a race or fails.                                  *)
(***************************************************************************)
Plan(next, act, agg, onRace, onFail) ==
  [next |-> next, act |-> act, agg |-> agg, onRace |-> onRace, onFail |-> onFail]

FirstObservation(o) ==
  Plan([LastValue |-> o.val, LastChangeTS |-> o.now, WindowStart |-> o.now,
        FlipCount |-> 0, Recent |-> <<>>, AggUntilTS |-> 0],
       "EdgeTriggeredForward", Nil, "SuppressFlapping", "error")

RecordFlip(e, o) ==
  [e EXCEPT !.Recent = AppendRecent(@, [At |-> o.now, From |-> e.LastValue,
                                        To |-> o.val,
                                        Payload |-> EncodePayload(o.payload)],
                                    HardLimitRecentItems),
            !.LastValue = o.val,
            !.LastChangeTS = o.now]

\* Mutant: the window is over one second early.
NewWindowInclusive(e, o) ==
  o.f.WindowSeconds > 0 /\ o.now - e.WindowStart >= o.f.WindowSeconds

NewWindow(e, o) ==
  o.f.WindowSeconds > 0 /\ o.now - e.WindowStart > o.f.WindowSeconds

\* Mutant: the opening flip is dropped with the old window's.
CountFlipDropsOpening(e, o) ==
  IF NewWindow(e, o)
  THEN [e EXCEPT !.WindowStart = o.now, !.FlipCount = 1, !.Recent = <<>>]
  ELSE [e EXCEPT !.FlipCount = @ + 1]

\* The first flip after the window opens the next one and is the only flip
\* kept of the old one.
CountFlip(e, o) ==
  IF NewWindow(e, o)
  THEN [e EXCEPT !.WindowStart = o.now, !.FlipCount = 1,
                 !.Recent = SubSeq(@, Len(@), Len(@))]
  ELSE [e EXCEPT !.FlipCount = @ + 1]

AggregateDue(e, o) ==
  /\ e.FlipCount % o.f.AggregateAt = 0
  /\ o.now >= e.AggUntilTS
  /\ Len(e.Recent) >= o.f.AggregateAt

AggregateItem(flip) ==
  [at |-> flip.At, from |-> flip.From, to |-> flip.To,
   payload |-> DecodePayload(flip.Payload)]

Aggregate ==
  [last_value : Values, window_start : Nat, flip_count : Nat,
   recent : Seq([at : Nat, from : Values, to : Values, payload : Payloads])]

\* The newest min(k, num) flips, newest first; none when k <= 0.
BuildAggregate(e, k) ==
  LET num  == Len(e.Recent)
      size == IF k <= 0 THEN 0 ELSE IF k > num THEN num ELSE k
  IN  [last_value |-> e.LastValue, window_start |-> e.WindowStart,
       flip_count |-> e.FlipCount,
       recent |-> [i \in 1..size |-> AggregateItem(e.Recent[num - i + 1])]]

\* Mutants: the cooldown is not started; it is started in the past.
StartNoCooldown(e, o) == e
StartCooldownBackwards(e, o) ==
  [e EXCEPT !.AggUntilTS = o.now - o.f.AggregateCooldownSeconds]

StartCooldown(e, o) ==
  [e EXCEPT !.AggUntilTS = o.now + o.f.AggregateCooldownSeconds]

\* Mutant: the flips an aggregate listed stay in Recent.
DrainNothing(e) == e

DrainRecent(e) == [e EXCEPT !.Recent = <<>>]

\* Within the tolerance: whatever the write does, the flip is suppressed.
Tolerate(e) == Plan(e, "SuppressFlapping", Nil, "SuppressFlapping", "SuppressFlapping")

Hold(e) == Plan(e, "SuppressFlapping", Nil, "NoOp", "error")

SendAggregate(e, o) ==
  LET cooled == StartCooldown(e, o)
  IN  Plan(DrainRecent(cooled), "AggregateSent",
           BuildAggregate(cooled, o.f.AggregateMaxItems), "NoOp", "error")

Forward(e) == Plan(e, "EdgeTriggeredForward", Nil, "NoOp", "error")

EvaluateFlapping(counted, newWindow, o) ==
  IF counted.FlipCount <= o.f.SuppressBelow
  THEN Tolerate(counted)
  ELSE IF o.f.AggregateAt > 0 /\ ~newWindow
       THEN IF AggregateDue(counted, o) THEN SendAggregate(counted, o) ELSE Hold(counted)
       ELSE Forward(counted)

\* Mutant: a repeated value counts as a change.
StableNever(e, o) == FALSE

\* An observation that repeats the last value changes nothing and answers NoOp.
Stable(e, o) == e # Nil /\ e.LastValue = o.val

Evaluate(e, o) ==
  IF e = Nil
  THEN FirstObservation(o)
  ELSE IF o.f = Nil
       THEN Forward(RecordFlip(e, o))
       ELSE EvaluateFlapping(CountFlip(RecordFlip(e, o), o), NewWindow(e, o), o)

\* What the history of a scope keeps of a committed evaluation.
Entry(o, plan) ==
  [payload |-> o.payload, val |-> o.val, at |-> o.now, f |-> o.f, act |-> plan.act,
   flips |-> plan.next.FlipCount, agg |-> plan.agg]

\* The actions that make the caller notify the target.
Notifying == {"EdgeTriggeredForward", "AggregateSent"}

LogEntry == [payload : Payloads, val : Values, at : Nat, f : FlapConfigs,
             act : Notifying \cup {"SuppressFlapping"}, flips : Nat,
             agg : Aggregate \cup {Nil}]
=============================================================================
