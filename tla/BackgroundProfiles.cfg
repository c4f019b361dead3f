CONSTANTS
    TaskCount = 6
    Timed = {"first", "second"}
    Inter = "inter"
    Update = "update"
    NameOf <- MCNameOf
    SampleSize <- MCSampleSize
    WarmupSize <- MCWarmupSize
    Fractions <- MCFractions
    Modulus = 8
    MaxNow = 2
    Readings = {0, 2}
    MaxCount = 3
    Task = {"once", "again"}
    Requests <- MCRequests
    TimerInterval = 2
    TimerCounts = {2}
    MaxAdjusts = 1
    MaxWall = 5
    Interval = 3
    AllowedMisses = 1
    MaxLag = 1
    MaxPeriod = 2
    MaxTime = 20
    IntegerModulus = 64
    Significands = 64
    Places <- MCPlaces
    Scale = 512
    Units <- MCUnits
    TrueWords <- MCTrueWords
    MaxScopes = 2
    Text <- MCText
    Missing = Missing
    Configurations <- MCConfigurations
    MaxReloads = 2
    MaxReads = 1
SPECIFICATION MCSpec
CHECK_DEADLOCK FALSE
INVARIANTS LeaveNoDataOut
