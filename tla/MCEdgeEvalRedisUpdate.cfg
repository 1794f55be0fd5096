SPECIFICATION SerialSpec
CONSTANTS
  Proc = {p1, p2}
  Values = {up, down}
  Payloads = {n1, n2, n3}
  FlapConfigs <- MCPlain
  Nil = Nil
  HardLimitRecentItems = 2
  MinWindowSizeSeconds = 1
  MaxTime = 1
SYMMETRY MCSymmetry
PROPERTY UpdateReplacesItsVersion
CHECK_DEADLOCK FALSE
