SPECIFICATION RedisSpec
CONSTANTS
  Proc = {p1, p2, p3}
  Rates = {1, 2}
  MaxMinute = 1
  TTL = 1
SYMMETRY MCSymmetry
INVARIANTS OvershootBound LateOvershoot
CHECK_DEADLOCK FALSE
