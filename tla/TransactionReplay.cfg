SPECIFICATION Spec
CONSTANTS
    N = 3
    Partitions = {"raw0", "raw1"}
    Dlq = "dlq"
    Retries = 1
    PartitionOf <- MCPartitionOf
CHECK_DEADLOCK FALSE
INVARIANTS
    TypeOK
    PartitionChronological
    BoundedDuplicates
    NoSilentLoss
PROPERTIES
    ReplayEnds
