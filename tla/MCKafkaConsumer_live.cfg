SPECIFICATION FairSpec
CONSTANTS
  c1 = c1
  c2 = c2
  none = none
  a = a
  Consumers <- MCConsumers
  NoConsumer <- none
  Tuples <- MCTuples
  Messages <- MCMessagesValid
  CommitModulo = 2
  CommitOnRebalance = TRUE
  CommitOnShutdown = TRUE
  MaxRetries = 0
  Env <- ReturnEnv
  MaxLog = 2
  MaxLock = 8
  MaxFaults = 2
PROPERTY EveryMessageHandled
CHECK_DEADLOCK FALSE
