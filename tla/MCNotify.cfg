SPECIFICATION NotifySpec
CONSTANTS
  Proc = {p1, p2}
  Values = {up, down}
  Payloads = {n1, n2, n3}
  FlapConfigs <- MCFlaps
  Configs <- MCConfigs
  MinuteSeconds = 1
  Nil = Nil
  HardLimitRecentItems = 2
  MinWindowSizeSeconds = 1
  MaxTime = 1
SYMMETRY MCSymmetry
INVARIANTS NotifyTypeOK PublishedIsCommitted TargetBudget RefusedLeavesNoTrace RepliesAreTrue SnapshotCurrent AnnouncedIsCommitted
PROPERTY Implements
CHECK_DEADLOCK FALSE
