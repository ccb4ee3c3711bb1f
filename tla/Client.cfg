SPECIFICATION ClientSpec
CONSTANTS
    Flows = {"f1", "f2", "out"}
    LogoutFlow = "out"
    MaxNesting = 1
    MaxActs = 4
    Refusing = FALSE
    Children = {"a", "b"}
    BatchSize = 2
    MaxHits = 6
INVARIANTS
    ClientTypeOK
    TargetKept
    QueueDrains
    InstallationSound
PROPERTIES
    RequestsSettle
    FailureLeadsToLogin
    AppEnds
CHECK_DEADLOCK FALSE
