SPECIFICATION Spec
CONSTANTS
  c1 = c1
  c2 = c2
  none = none
  a = a
  Consumers <- MCConsumers
  NoConsumer <- none
  Tuples <- MCTuples
  Messages <- MCMessagesAll
  CommitModulo = 2
  CommitOnRebalance = TRUE
  CommitOnShutdown = TRUE
  MaxRetries = 1
  Env <- AsyncEnv
  MaxLog = 2
  MaxLock = 3
  MaxFaults = 2
SYMMETRY Symmetry
INVARIANTS Converged ConvergenceInv
CHECK_DEADLOCK FALSE
