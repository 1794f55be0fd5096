--------------------------- MODULE MCEdgeDetector ---------------------------
(***************************************************************************)
(* Instances of EdgeDetector.  A behaviour keeps to one of the aggregating *)
(* configurations, or lets the configuration change between notifications. *)
(***************************************************************************)
EXTENDS EdgeDetector, TLC

VARIABLE conf

Flap(window, suppress, at, max, cooldown) ==
  [WindowSeconds |-> window, SuppressBelow |-> suppress, AggregateAt |-> at,
   AggregateMaxItems |-> max, AggregateCooldownSeconds |-> cooldown]

\* Configurations kept for a whole behaviour, none beyond HardLimitRecentItems.
MCAggregating == {Flap(2, 0, 2, 2, 2), Flap(2, 1, 2, 1, 0), Flap(4, 2, 3, 5, 1),
                  Flap(3, 0, 1, 1, 1), Flap(5, 0, 2, 3, 4)}

\* Changing ones: aggregating, tolerant and forwarding, no flapping section.
MCMixed == {Flap(2, 0, 2, 3, 1), Flap(1, 1, 0, 0, 0), Nil}

MCConfigs == MCAggregating \cup MCMixed
MCUses == {{f} : f \in MCAggregating} \cup {MCMixed}

\* Payloads are numbered in the order of the commits: the detector does not
\* tell them apart.
InOrder(o) == o.payload = Len(log) + 1

\* Bounds on the behaviours that choose a configuration at every step.
MixedLength == 5
MixedTime == 3
WithinBounds(o) == conf = MCMixed => o.payload <= MixedLength /\ o.now <= MixedTime

MCInit == Init /\ conf \in MCUses
MCNext ==
  \E o \in Observations :
    InOrder(o) /\ o.f \in conf /\ WithinBounds(o) /\ Observe(o) /\ UNCHANGED conf
MCSpec == MCInit /\ [][MCNext]_<<vars, conf>>

MCSymmetry == Permutations(Values)
=============================================================================
