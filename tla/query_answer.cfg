\* One request of every kind, while rows are ingested, one of them in place of another.
SPECIFICATION Spec
CONSTANTS
    q1 = q1
    q2 = q2
    q3 = q3
    Mail <- MCCopied
    IdOf <- MCId
    StampOf <- MCErrorStamp
    ThreadOf <- MCThread
    SenderOf <- MCSender
    SentTo <- MCSentTo
    SubjectOf <- MCSubject
    TextOf <- MCText
    Attached <- MCAttached
    Requests = {q1}
    Asks <- MCAsks
    IntentsOf <- MCAnyIntent
    Llm = TRUE
    Fts = TRUE
    Loaded <- MCOld
    None = None
    MaxFaults = 1
\* Every request may be over and every row in the table.
CHECK_DEADLOCK FALSE
INVARIANTS TypeOK ThreadWhole ListsOnlyMeant ListsAllMeant  WordsMatchTable AuditedOnce
