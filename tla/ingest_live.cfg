\* An operator who keeps starting runs; a message that cannot be fetched.
SPECIFICATION OperatedSpec
CONSTANTS
    MsgCount = 3
    KindOf <- MCUnframed
    IdOf <- MCIds
    LocalBox <- MCNoBox
    BatchSize = 2
    Starts = {"api", "cli"}
    Forces = {FALSE}
    FaultKinds = {"crash", "s3", "row", "fts", "db"}
    MaxFaults = 2
    MaxTags = 6
\* The archive may stop growing with nobody to start a run.
CHECK_DEADLOCK FALSE
PROPERTIES RunsEnd EventuallyCaughtUp
