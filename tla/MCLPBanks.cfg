CONSTANTS
  BlockRows = 2
  BlockCols = 2
  InputBytes = 1
  AccBytes = 2
  BeatBytes = 2
  MaxBytes = 4
  NXacts = 2
  SpRows = 8
  SpBankRows = 4
  AccRows = 4
  AccBankRows = 2
  IssueDepth = 2
  ScaleDepth = 2
  Programs <- TwoBanks
CHECK_DEADLOCK FALSE
SPECIFICATION Spec
INVARIANT LoadedAsWritten
