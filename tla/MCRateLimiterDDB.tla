-------------------------- MODULE MCRateLimiterDDB --------------------------
EXTENDS RateLimiterDDB, TLC

MCSymmetry == Permutations(Proc)
=============================================================================
