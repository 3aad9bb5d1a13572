SPECIFICATION Spec
CONSTANTS
    MaxRun = 2
    Absent = Absent
    Torn = Torn
    Workers = {w1}
    Installed <- MCInstalled
PROPERTY
    RollbackTakesEffect
