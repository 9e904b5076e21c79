\* Two requests on a fair event loop, while a row comes and another is replaced.
SPECIFICATION FairSpec
CONSTANTS
    q1 = q1
    q2 = q2
    q3 = q3
    Mail <- MCPairMail
    IdOf <- MCId
    StampOf <- MCStamp
    ThreadOf <- MCThread
    SenderOf <- MCSender
    SentTo <- MCSentTo
    SubjectOf <- MCSubject
    TextOf <- MCText
    Attached <- MCAttached
    Requests = {q1, q2}
    Asks <- MCPair
    IntentsOf <- MCVague
    Llm = TRUE
    Fts = FALSE
    Loaded <- MCOld
    None = None
    MaxFaults = 1
\* Every request may be over and every row in the table.
CHECK_DEADLOCK FALSE
INVARIANTS ExportCoversAnswer PagesMissNothingCounted PagesDisjoint DialogsFindTheirMail
PROPERTY RequestsEnd
