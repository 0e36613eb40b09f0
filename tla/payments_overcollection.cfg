\* Two pending mail orders, approved one after the other.
CONSTANTS
    Requests = {r1}
    PostBodies <- TwoMailOrders
    RefundBodies <- FullRefund
    InitialAmounts = {0}
    Roles = {"MANAGER", "OPERATION"}
    OrderTotal = 3
    Overlap = FALSE
SPECIFICATION Spec
INVARIANT NeverOverCollected
