\* Any use of the page.
SPECIFICATION FairSpec
CONSTANTS
    Queries <- MCQueries
    Statistics = "statistics"
    PagesOf <- MCPagesOf
    MaxSubmissions = 3
\* The bound on submissions may be reached.
CHECK_DEADLOCK FALSE
INVARIANTS TypeOK ShownIsCurrent ButtonFollowsRequests RequestedPagesExist ExportsTheListOnView
PROPERTY PageSettles
