\* One request at a time, nobody else writes the order's status.
CONSTANTS
    Requests = {r1}
    Lines = {l1}
    Ordered = 1
    Saved = {"PLANNED"}
    Elsewhere = {}
    MaxShipments = 1
    MaxPlans = 1
    MaxRaces = 0
\* With its bounds used up and nothing in flight, the system is at rest.
CHECK_DEADLOCK FALSE
SPECIFICATION Spec
PROPERTY
    ConfirmationDelivers
