\* Runs over S3 while the process does not die.
SPECIFICATION Spec
CONSTANTS
    MsgCount = 3
    KindOf <- MCMixed
    IdOf <- MCIds
    LocalBox <- MCNoBox
    BatchSize = 2
    Starts = {"api", "cli"}
    Forces = {TRUE, FALSE}
    FaultKinds = {"s3", "row"}
    MaxFaults = 2
    MaxTags = 3
\* The archive may stop growing with nobody to start a run.
CHECK_DEADLOCK FALSE
INVARIANTS CheckpointTruthful SearchableWhenCompleted FinishedRunOnRecord CompletedTotal
