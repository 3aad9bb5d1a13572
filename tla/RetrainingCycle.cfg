SPECIFICATION Spec
CONSTANTS
    Rows = {1, 2}
    Scale = 10
    AvgFraudLoss = 50
    FalsePositiveCost = 25
    ManualReviewCost = 5
    PrAucs = {1, 2}
    Frauds <- MCFrauds
    Amounts <- MCAmounts
    Calibrated <- MCCalibrated
    ApproveGrid <- MCApproveGrid
    BlockGrid <- MCBlockGrid
    Features = {f1, f2}
    Readings <- MCReadings
    Performances <- MCPerformances
    Candidates <- MCCandidates
    PsiWarning = 10
    PsiCritical = 20
    KsWarning = 5
    KsCritical = 10
    MinPrAuc = 30
    MinRecall = 70
    MaxFpr = 10
    MaxBrier = 5
    MaxCost = 30
CHECK_DEADLOCK FALSE
INVARIANTS
    TypeOK
    FirstOptimum
    GuardedPromotion
    DriftIsReported
