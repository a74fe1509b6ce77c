CONSTANTS
  SpRows = 8
  AccRows = 4
  AccBankRows = 2
  LdEntries = 2
  ExEntries = 2
  StEntries = 2
  BlockRows = 2
  BlockCols = 2
  FirstLayerOpt = TRUE
  Interleave = TRUE
  MaxInst = 3
  Cmds <- SpadMoveCmds
  InitRegs <- PlainRegs
SPECIFICATION Spec
INVARIANT DependenciesAwaited
