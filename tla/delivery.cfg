\* Two requests, two shipments, one plan.
CONSTANTS
    Requests = {r1, r2}
    Lines = {l1}
    Ordered = 2
    Saved = {"PLANNED"}
    Elsewhere = {"OTHER"}
    MaxShipments = 2
    MaxPlans = 1
    MaxRaces = 1
\* With its bounds used up and nothing in flight, the system is at rest.
CHECK_DEADLOCK FALSE
SPECIFICATION Spec
SYMMETRY Symmetry
INVARIANTS
    TypeOK
    NeverOverReserved
    GoodsBeforeShipment
    HistoryIsComplete
    ConfirmedWasDelivered
PROPERTY ShipmentsMoveForward
