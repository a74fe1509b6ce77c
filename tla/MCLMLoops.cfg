SPECIFICATION FairSpec
CONSTANTS
  Programs <- LoopPrograms
  MaxBlockLen = 2
  MaxBlockLenAcc = 1
  MaxLds = 2
  MaxExs = 2
  MaxSts = 2
  SpHalf = 8
  AccHalf = 6
  Dim = 3
INVARIANTS OperandsInPlace StoresFinalResult UtilizationExact ProgramOrder
PROPERTIES LoopsStoreAll PassesInOrder EventuallyIdle
