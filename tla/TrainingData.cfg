SPECIFICATION Spec
CONSTANTS
    Rows = 4
    Times = {0, 1, 2, 3, 4, 5, 6, 7}
    Entities = {e1, e2}
    Files <- MCFiles
    TrainEnd = 1
    ValStart = 3
    CalibEnd = 3
    OptStart = 5
    ValEnd = 5
    TestStart = 7
SYMMETRY EntitySymmetry
CHECK_DEADLOCK FALSE
INVARIANTS
    TypeOK
    ReportIsExact
    PartsInTime
    RowsAlign
    NoLookAhead
