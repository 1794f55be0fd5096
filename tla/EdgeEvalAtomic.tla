--------------------------- MODULE EdgeEvalAtomic ---------------------------
(***************************************************************************)
(* What concurrent evaluations promise: the row they share is the edge of  *)
(* EdgeDetector, and what they write to it is its log.                     *)
(***************************************************************************)
EXTENDS EdgeEval

Detector == INSTANCE EdgeDetector WITH edge <- row.edge, log <- history

\* The row is at all times as one atomic evaluation after the other would have
\* left it, however requests, errors, lost replies and crashes interleave.
Implements == Detector!Spec
=============================================================================
