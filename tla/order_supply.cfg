\* Two requests on an order with two lines and one missing item.
CONSTANTS
    Requests = {r1, r2}
    Lines = {l1, l2}
    MissingItems = {m1}
    Ordered = 2
    Elsewhere = {"OTHER", "CANCELED"}
    Targets = {"ORDERED", "ARRIVED", "READY_FOR_SHIPMENT", "RESOLVED"}
    MaxReceived = 3
    MaxRaces = 2
SPECIFICATION Spec
SYMMETRY Symmetry
INVARIANTS
    TypeOK
    ArrivalsAreReceipted
    StockIsAccountedFor
    LinesAreConsistent
    DisplayFollowsGoods
PROPERTY AtomicWhenAlone
