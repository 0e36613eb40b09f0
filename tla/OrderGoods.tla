----------------------------- MODULE OrderGoods -----------------------------
(***************************************************************************)
(* What the goods of one order promise, without requests, transactions and *)
(* warehouse statuses: lines that are ordered from the supplier, filled,   *)
(* emptied and called off, items reported missing, and a status shown to   *)
(* everybody that follows from both, each at one moment.                   *)
(***************************************************************************)
EXTENDS Integers

CONSTANTS
    Lines,
    Items,    \* the items that may be missing
    Ordered,  \* quantity of every line, more than none
    Later,    \* the statuses an item may be given after each status
    Ends,     \* the shown statuses that no goods change
    Others    \* the statuses others may show

VARIABLES
    goods,  \* what of each line is due from the supplier, and what is in stock
    items,  \* status of each missing item
    shown   \* status of the order

vars == <<goods, items, shown>>

Show(g, i, status) ==
    IF status \in Ends THEN status
    ELSE IF \A l \in Lines : g[l].stock = 0 THEN "WAITING"
    ELSE IF \E l \in Lines : g[l].stock < Ordered THEN "PARTIAL_ARRIVED"
    ELSE IF \E m \in Items : i[m] \notin {"ABSENT", "RESOLVED"} THEN "ARRIVED"
    ELSE "SHIPMENT_READY"

Init ==
    /\ goods = [l \in Lines |-> [due |-> 0, stock |-> 0]]
    /\ items = [m \in Items |-> "ABSENT"]
    /\ shown = "WAITING"

\* A line that was only ordered shows nothing new.
Order(ls) ==
    /\ ls # {} /\ \A l \in ls : goods[l].due = 0
    /\ goods' = [l \in Lines |-> IF l \in ls THEN [goods[l] EXCEPT !.due = Ordered] ELSE goods[l]]
    /\ UNCHANGED <<items, shown>>

Set(l, due, stock) ==
    /\ goods' = [goods EXCEPT ![l] = [due |-> due, stock |-> stock]]
    /\ shown' = Show(goods', items, shown)
    /\ UNCHANGED items

\* Never more than was ordered.
Receive(l, n) ==
    /\ goods[l].stock + n <= goods[l].due
    /\ Set(l, goods[l].due, goods[l].stock + n)

TakeBack(l) ==
    /\ goods[l].stock > 0
    /\ Set(l, goods[l].due, 0)

\* Only what never came.
CallOff(l) ==
    /\ goods[l].due > 0 /\ goods[l].stock = 0
    /\ Set(l, 0, 0)

Give(m, status) ==
    /\ items' = [items EXCEPT ![m] = status]
    /\ shown' = Show(goods, items', shown)
    /\ UNCHANGED goods

Report(m) == items[m] = "ABSENT" /\ Give(m, "OPEN")

Advance(m, to) == to \in Later[items[m]] /\ Give(m, to)

ShowElsewhere(status) == shown' = status /\ UNCHANGED <<goods, items>>

Next ==
    \/ \E ls \in SUBSET Lines : Order(ls)
    \/ \E l \in Lines : \/ \E n \in 1..Ordered : Receive(l, n)
                        \/ TakeBack(l) \/ CallOff(l)
    \/ \E m \in Items : \/ Report(m)
                        \/ \E to \in Later[items[m]] : Advance(m, to)
    \/ \E status \in Others : ShowElsewhere(status)

Spec == Init /\ [][Next]_vars
=============================================================================
