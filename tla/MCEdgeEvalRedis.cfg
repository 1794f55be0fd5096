SPECIFICATION SerialSpec
CONSTANTS
  Proc = {p1, p2}
  Values = {up, down}
  Payloads = {n1, n2, n3, n4}
  FlapConfigs <- MCFlaps
  Nil = Nil
  HardLimitRecentItems = 2
  MinWindowSizeSeconds = 1
  MaxTime = 2
SYMMETRY MCSymmetry
INVARIANTS EvalTypeOK RowIsWhole SerialAnnouncesCommitted
PROPERTY SerialImplements
CHECK_DEADLOCK FALSE
