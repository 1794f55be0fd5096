SPECIFICATION RunningSpec
CONSTANTS
  Proc = {p1, p2}
  Values = {up, down}
  Payloads = {n1, n2}
  FlapConfigs <- MCFlaps
  Configs <- MCConfigs
  MinuteSeconds = 1
  Nil = Nil
  HardLimitRecentItems = 2
  MinWindowSizeSeconds = 1
  MaxTime = 1
PROPERTY EveryRequestAnswered
CHECK_DEADLOCK FALSE
