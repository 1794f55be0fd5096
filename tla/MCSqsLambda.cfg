SPECIFICATION SqsSpec
CONSTANTS
  up = up
  down = down
  Values = {up, down}
  Payloads <- MCPayloads
  Field <- MCField
  Elsewhere = 1
  BatchSize = 3
  MaxReceive = 2
  FlapConfigs <- MCFlaps
  Nil = Nil
  HardLimitRecentItems = 2
  MinWindowSizeSeconds = 1
  MaxTime = 0
INVARIANTS SqsTypeOK DeletedWasHandled OutOfOrderHadFailed RepublishedAfterAnother PublishedByItsDelivery
PROPERTY EveryMessageSettled
CHECK_DEADLOCK FALSE
