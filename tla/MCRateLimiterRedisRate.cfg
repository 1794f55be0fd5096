SPECIFICATION RedisSpec
CONSTANTS
  Proc = {p1, p2}
  Rates = {1}
  MaxMinute = 1
  TTL = 2
SYMMETRY MCSymmetry
PROPERTY GrantWithinRate
CHECK_DEADLOCK FALSE
