SPECIFICATION Spec
CONSTANTS
  c1 = c1
  c2 = c2
  none = none
  a = a
  Consumers <- MCConsumers
  NoConsumer <- none
  Tuples <- MCTuples
  Messages <- MCMessages
  CommitModulo = 2
  CommitOnRebalance = TRUE
  CommitOnShutdown = TRUE
  MaxRetries = 1
  Env <- ReturnEnv
  MaxLog = 1
  MaxLock = 4
  MaxFaults = 3
SYMMETRY Symmetry
INVARIANTS Converged
CHECK_DEADLOCK FALSE
