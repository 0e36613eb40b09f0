\* Requests on the order one at a time.
CONSTANTS
    Requests = {r1}
    PostBodies <- TwoBodies
    RefundBodies <- FullAndPartialRefund
    InitialAmounts = {0, 1}
    Roles = {"MANAGER", "SALES", "OPERATION"}
    OrderTotal = 3
    Overlap = FALSE
SPECIFICATION Spec
INVARIANTS
    SingleRecord
    BalanceMatchesLedger
    MailOrderBooksAgree
    AnnouncedOnce
    TypeOK
PROPERTY ImplementsLedger
