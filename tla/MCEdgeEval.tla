----------------------------- MODULE MCEdgeEval -----------------------------
EXTENDS EdgeEvalDDB, TLC

MCPlain == {Nil}

MCSymmetry == Permutations(Payloads) \cup Permutations(Proc) \cup Permutations(Values)
=============================================================================
