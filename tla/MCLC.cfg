SPECIFICATION FairSpec
CONSTANTS
  Programs <- ConvPrograms
  DIM = 2
  SP_ROWS = 32
  ACC_ROWS = 32
  SizeofAcc = 4
  NORM_STAT_IDS = 1
  MAX_BLOCK_LEN = 2
  MAX_BLOCK_LEN_ACC = 1
  MaxLds = 2
  MaxExs = 2
  MaxSts = 1
INVARIANTS StoredAsSimulated LoopsStoreAll ReadsAsSimulated
PROPERTIES PassesAlone EventuallyIdle
