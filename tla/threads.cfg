\* Mail clients of both habits, and mails attached to mails.
SPECIFICATION ContentsSpec
CONSTANTS
    MaxMails = 4
    Habits = {"chain", "parent_only"}
    Shapes <- MCShapes
    MaxParts = 2
    MaxRich = 2
\* Every mail may be sent and indexed.
CHECK_DEADLOCK FALSE
INVARIANTS ThreadsApart ThreadsWhole OwnTextShown BodyIsNoAttachment
