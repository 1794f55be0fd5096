SPECIFICATION MCSpec
CONSTANTS
  Values = {up, down}
  Payloads = {1, 2, 3, 4, 5, 6}
  FlapConfigs <- MCConfigs
  Nil = Nil
  HardLimitRecentItems = 3
  MinWindowSizeSeconds = 1
  MaxTime = 5
SYMMETRY MCSymmetry
INVARIANTS
  TypeOK EdgeRemembers RecentIsLogSuffix AggregatesListNewFlips CooldownSpacing ForwardSpacing AggregateAtThreshold
CHECK_DEADLOCK FALSE
