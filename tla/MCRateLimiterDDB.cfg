SPECIFICATION Spec
CONSTANTS
  Proc = {p1, p2, p3}
  Rates = {1, 2}
  MaxMinute = 3
  TTL = 3
SYMMETRY MCSymmetry
INVARIANTS TypeOK CountCoversGrants LateGrants
PROPERTY GrantWithinRate
CHECK_DEADLOCK FALSE
