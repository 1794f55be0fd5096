------------------------------ MODULE MCNotify ------------------------------
EXTENDS Notify, EdgeEvalAtomic, TLC

Flap(window, suppress, at, max, cooldown) ==
  [WindowSeconds |-> window, SuppressBelow |-> suppress, AggregateAt |-> at,
   AggregateMaxItems |-> max, AggregateCooldownSeconds |-> cooldown]

MCFlap == Flap(1, 0, 1, 1, 0)
MCFlaps == {MCFlap}

\* Limits small enough to be met; the second configuration has a passthrough
\* and no limit on the address and the target.
MCConfigs == {[IPRPM |-> 2, ClientRPM |-> 0, SNSRPM |-> 1, watch |-> TRUE,
               pass |-> FALSE, Flapping |-> MCFlap],
              [IPRPM |-> 0, ClientRPM |-> 1, SNSRPM |-> 0, watch |-> TRUE,
               pass |-> TRUE, Flapping |-> MCFlap]}

MCSymmetry == Permutations(Payloads) \cup Permutations(Proc) \cup Permutations(Values)
=============================================================================
