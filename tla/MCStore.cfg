CONSTANTS
  BlockRows = 2
  BlockCols = 2
  InputBytes = 1
  AccBytes = 2
  BeatBytes = 2
  MaxBytes = 8
  PageBytes = 8
  NXacts = 2
  SpBanks = 2
  SpBankRows = 4
  AccBanks = 1
  AccBankRows = 8
  DispatchDepth = 2
  NormDepth = 2
  ScaleDepth = 2
  IssueDepth = 1
  PipeDepth = 2
  AccScaleDepth = 1
  StoresAtOnce = 2
  Programs <- MovedOut
CHECK_DEADLOCK FALSE
SPECIFICATION FairSpec
INVARIANTS
  
  
  RowsAccounted
  
PROPERTY EventuallyWritten
