\* Two triggers, their runs, a fault, a restart and status requests; fair threads.
SPECIFICATION FairServiceSpec
CONSTANTS
    a = a
    b = b
    Requests = {a, b}
    WithBody = {a}
    Forced = {a}
    None = None
    MaxRestarts = 1
    MaxRetries = 2
    MsgCount = 2
    KindOf <- MCKinds
    IdOf <- MCIds
    LocalBox <- MCNoBox
    BatchSize = 1
    Starts = {"api"}
    Forces = {TRUE, FALSE}
    FaultKinds = {"crash", "s3", "row", "fts", "db"}
    MaxFaults = 2
    MaxTags = 4
\* Every request may be over.
CHECK_DEADLOCK FALSE
INVARIANTS ServiceTypeOK OneRunAtATime FlagMeansRun ErrorOfLastRun StatusClaimsHold
PROPERTIES RunsOfIngestion StartedRunsEnd
