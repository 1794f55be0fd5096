------------------------- MODULE MCRateLimiterRedis -------------------------
EXTENDS RateLimiterRedis, TLC

MCSymmetry == Permutations(Proc)
=============================================================================
