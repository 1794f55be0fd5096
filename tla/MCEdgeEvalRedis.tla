-------------------------- MODULE MCEdgeEvalRedis --------------------------
EXTENDS EdgeEvalSerial, TLC

Flap(window, suppress, at, max, cooldown) ==
  [WindowSeconds |-> window, SuppressBelow |-> suppress, AggregateAt |-> at,
   AggregateMaxItems |-> max, AggregateCooldownSeconds |-> cooldown]

MCFlaps == {Flap(1, 0, 2, 2, 1)}
MCPlain == {Nil}

MCSymmetry == Permutations(Payloads) \cup Permutations(Proc) \cup Permutations(Values)
=============================================================================
