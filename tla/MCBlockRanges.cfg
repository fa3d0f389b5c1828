CONSTANTS
    StartBlocks = {0, 1, 2, 3, 4, 5}
    LastBlocks = {0, 1, 2, 3, 4, 5, 6, 7, 8, 9, 10, 11, 12}
    Steps = {0, 1, 2, 3, 4, 5}
SPECIFICATION Spec
INVARIANT TypeOK
INVARIANT ChunksPartitionRange
