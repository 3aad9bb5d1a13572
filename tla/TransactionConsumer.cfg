SPECIFICATION Spec
CONSTANTS
    Partitions = {"p0", "p1"}
    Len = 3
    Poisons <- MCPoisons
    MaxMessages = {0, 2}
INVARIANTS
    TypeOK
    CommittedWereHandedOut
PROPERTIES
    CommitsNeverRegress
    CatchesUp
