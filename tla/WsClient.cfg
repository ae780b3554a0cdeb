SPECIFICATION FairSpec
CONSTANTS
  MaxRetries = 0
  FailureBound = 3
INVARIANTS TypeOK ActiveIsCurrent EndsOnlyWhenTold FailingBlocksTrading
PROPERTIES KeepsTrying
CHECK_DEADLOCK FALSE
