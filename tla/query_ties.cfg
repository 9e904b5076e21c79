\* Two mails of one second.
SPECIFICATION Spec
CONSTANTS
    q1 = q1
    q2 = q2
    q3 = q3
    Mail <- MCMail
    IdOf <- MCId
    StampOf <- MCTies
    ThreadOf <- MCThread
    SenderOf <- MCSender
    SentTo <- MCSentTo
    SubjectOf <- MCSubject
    TextOf <- MCText
    Attached <- MCAttached
    Requests = {q1, q2, q3}
    Asks <- MCPages
    IntentsOf <- MCNoIntent
    Llm = FALSE
    Fts = TRUE
    Loaded <- MCMail
    None = None
    MaxFaults = 0
\* Every request may be over and every row in the table.
CHECK_DEADLOCK FALSE
INVARIANT PagesMissNothing
