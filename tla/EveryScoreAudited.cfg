SPECIFICATION Spec
CONSTANTS
    MaxScore = 10
    LowMax = 1
    MediumMax = 4
    HighMax = 7
    ApproveMax = 2
    ReviewMax = 6
    Lost = {3, 7}
    Txns = {t1, t2}
    Probabilities <- MCProbabilities
    MaxBatch = 2
    Keys = {k1, k2}
    ValidKeys = {k1}
    NoKey = NoKey
    Development = FALSE
    RootLevel = 30
    MaxRequests = 2
    MaxCrashes = 1
SYMMETRY TxnSymmetry
INVARIANTS
    AnswersAreAudited
