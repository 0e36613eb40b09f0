\* Two requests in flight at once.
CONSTANTS
    Requests = {r1, r2}
    PostBodies <- TwoBodies
    RefundBodies <- FullRefund
    InitialAmounts = {0}
    Roles = {"MANAGER", "SALES", "OPERATION"}
    OrderTotal = 3
    Overlap = TRUE
SPECIFICATION FairSpec
INVARIANTS
    AckedIsRecorded
    RefundsAreBacked
    VersionCountsPostings
PROPERTIES
    LedgerIsAppendOnly
    EveryRequestEnds
