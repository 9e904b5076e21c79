\* A crash after a checkpoint.
SPECIFICATION Spec
CONSTANTS
    MsgCount = 3
    KindOf <- MCPlain
    IdOf <- MCOwnIds
    LocalBox <- MCNoBox
    BatchSize = 1
    Starts = {"api"}
    Forces = {FALSE}
    FaultKinds = {"crash"}
    MaxFaults = 1
    MaxTags = 3
\* The archive may stop growing with nobody to start a run.
CHECK_DEADLOCK FALSE
INVARIANT ResumesAtCheckpoint
