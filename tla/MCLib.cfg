SPECIFICATION Spec
CONSTANTS
    DIM = 2
    SP_ROWS = 64
    ACC_ROWS = 16
    SizeofAcc = 4
    NORM_STAT_IDS = 2
    MAX_BLOCK_LEN = 2
    MAX_BLOCK_LEN_ACC = 1
INVARIANTS
    ResultIsCpu
    ReadsInArrays
    
PROPERTIES
    StoredOnce
    SearchEnds
