SPECIFICATION Spec
CONSTANTS
  c1 = c1
  c2 = c2
  none = none
  a = a
  Consumers <- MCConsumers
  NoConsumer <- none
  Tuples <- MCTuples
  Messages <- MCMessagesKinds
  CommitModulo = 2
  CommitOnRebalance = TRUE
  CommitOnShutdown = TRUE
  MaxRetries = 0
  Env <- FullEnv
  MaxLog = 2
  MaxLock = 3
  MaxFaults = 2
SYMMETRY Symmetry
INVARIANT OneWriter
PROPERTY ImplementsPipeline
CHECK_DEADLOCK FALSE
