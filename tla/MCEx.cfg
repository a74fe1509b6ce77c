SPECIFICATION Spec
CONSTANTS
  BlockSize = 8
  MeshLatency = 16
  MaxMatmuls = 5
  SpBanks = 2
  SpBankEntries = 32
  SpadReadDelay = 4
  ExQueueLength = 8
  ExWriteToSpad = TRUE
  AccBanks = 2
  AccBankEntries = 8
  AccLatency = 2
  MaxHolds = 1
  Programs <- MCPrograms
INVARIANTS ResultsAsProgrammed CompletedOnce WritesTaken
PROPERTY EventuallyExecuted
