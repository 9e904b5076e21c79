\* Every entry point, message kind and fault.
SPECIFICATION Spec
CONSTANTS
    MsgCount = 4
    KindOf <- MCMixed
    IdOf <- MCIds
    LocalBox <- MCBox
    BatchSize = 2
    Starts = {"api", "cli", "local"}
    Forces = {TRUE, FALSE}
    FaultKinds = {"crash", "s3", "row", "fts", "db"}
    MaxFaults = 2
    MaxTags = 3
\* The archive may stop growing with nobody to start a run.
CHECK_DEADLOCK FALSE
INVARIANTS TypeOK CompletedCovers IngestionInv MailOnce
PROPERTY IndexSpec
