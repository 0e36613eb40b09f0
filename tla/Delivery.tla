------------------------------ MODULE Delivery ------------------------------
(***************************************************************************)
(* Bringing one sales order to the customer: its shipments, its shipment   *)
(* plan, and the display status all of them write.                         *)
(*                                                                         *)
(* Every handler reads and checks outside its transaction (Start), and     *)
(* writes in it (Commit).  Two have more steps:                            *)
(*   - saving the plan reads the display status inside its transaction,    *)
(*     with the plan's row locked (Write);                                 *)
(*   - confirming a delivery moves the latest shipment to DELIVERED stage  *)
(*     by stage, each stage a patchShipmentStatus with a check (Step) and  *)
(*     a transaction (Commit) of its own, and closes the plan in one more  *)
(*     transaction: it can stop, or die, after any of them.                *)
(*                                                                         *)
(* Goods that come in or are taken back, and the other writers of the      *)
(* display status (supply, PATCH .../status), are environment actions.     *)
(***************************************************************************)
EXTENDS Integers, FiniteSets, FiniteSetsExt

CONSTANTS
    Requests,      \* the requests the API can be serving at one moment
    Lines,         \* the order's lines
    Ordered,       \* qtyOrdered of every line
    Saved,         \* the statuses clients save a plan with
    Elsewhere,     \* the display statuses other writers of the order set
    MaxShipments,  \* bound: shipments created for the order, ever
    MaxPlans,      \* bound: plans created for the order, ever
    MaxRaces       \* bound: how often a request meets another one

VARIABLES
    shipment,   \* shipments with their shipment_lines
    plan,       \* the order's row in shipment_plans
    display,    \* sales_orders.displayStatus
    received,   \* order_lines.qtyReceived
    told,       \* the stages of each shipment the order's events tell of
    confirmed,  \* the shipments for which a confirmation closed the plan (history)
    basis,      \* what each line's shipments rest on (history)
    races,      \* how often a request, or another writer, met one (history)
    pc,         \* where each request stands
    call        \* the call each request is serving, with what it read

vars == <<shipment, plan, display, received, told, confirmed, basis, races, pc, call>>

-----------------------------------------------------------------------------
(* Shipments                                                                *)

ShipmentIds == 1..MaxShipments          \* in the order they are created
Quantities  == [Lines -> 0..Ordered]
Stages == {"PLANNED", "LOADED", "DISPATCHED", "DELIVERED", "INSTALLATION_DONE", "ISSUE"}

Shipment == [status : Stages \cup {"ABSENT"}, qty : Quantities]
NoShipment == [status |-> "ABSENT", qty |-> [l \in Lines |-> 0]]

Created == {s \in ShipmentIds : shipment[s].status # "ABSENT"}

\* The latest shipment of the order, 0 if there is none.
IsLatest(s) ==
    IF Created = {} THEN s = 0 ELSE s \in Created /\ \A other \in Created : other <= s

\* SHIPMENT_STATUS_FLOW
StageAfter == [PLANNED |-> "LOADED", LOADED |-> "DISPATCHED",
               DISPATCHED |-> "DELIVERED", DELIVERED |-> "INSTALLATION_DONE"]

\* nextShipmentOperationStatus
NextStage(from) == IF from \in DOMAIN StageAfter THEN StageAfter[from] ELSE "NONE"

\* Fault: a shipment with an issue may go on.
MayMoveOnAfterIssue(from, to) ==
    \/ to = "ISSUE" /\ from \notin {"ABSENT", "INSTALLATION_DONE", "ISSUE"}
    \/ from = "ISSUE" /\ to # "ISSUE"
    \/ NextStage(from) = to

\* Fault: stages may be left out.
MayMoveAhead(from, to) ==
    \/ to = "ISSUE" /\ from \notin {"ABSENT", "INSTALLATION_DONE", "ISSUE"}
    \/ NextStage(from) = to
    \/ from = "LOADED" /\ to = "DELIVERED"

\* canTransitionShipmentStatus
MayMove(from, to) ==
    \/ to = "ISSUE" /\ from \notin {"ABSENT", "INSTALLATION_DONE", "ISSUE"}
    \/ NextStage(from) = to

\* Fault: a delivered shipment does not hold its goods any longer.
ReservedUndelivered(l) ==
    MapThenSumSet(LAMBDA s : IF shipment[s].status \in {"ABSENT", "ISSUE", "DELIVERED"} THEN 0
                             ELSE shipment[s].qty[l], ShipmentIds)

\* computeShipmentPlanLines
Reserved(l) ==
    MapThenSumSet(LAMBDA s : IF shipment[s].status \in {"ABSENT", "ISSUE"} THEN 0
                             ELSE shipment[s].qty[l], ShipmentIds)
Remaining(l) == Max({0, Ordered - Reserved(l)})

\* Fault: goods that other shipments took are offered again.
ShippableOfReceived(l) == Min({Remaining(l), received[l]})

\* computeQtyShippable
Shippable(l) == Min({Remaining(l), Max({0, received[l] - Reserved(l)})})

\* What the check of a creation says of the goods it takes of a line: they were
\* "counted" against what came in and is not reserved; or some of the line had been
\* "seen" to come in; or "nothing", as somebody took the risk.
Bases == {"counted", "seen", "nothing"}

\* Several shipments rest on the weakest of their checks.
Weaker(a, b) ==
    IF a = "nothing" \/ b = "nothing" THEN "nothing"
    ELSE IF a = "seen" \/ b = "seen" THEN "seen" ELSE "counted"

-----------------------------------------------------------------------------
(* Plans and display statuses                                               *)

PlanStatuses == {"PLANNED", "APPLIED", "IN_TRANSIT", "PENDING_DELIVERY_CONFIRM",
                 "DELIVERED", "DELIVERY_FAILED", "POSTPONED", "CANCELLED"}
QueueEligible == {"PLANNED", "APPLIED", "IN_TRANSIT"}

\* id: a deleted plan's successor is another row.  plannedDate is left out: clients
\* set it as they like, and it passes at any time.
Plan == [id : 0..MaxPlans, status : PlanStatuses \cup {"ABSENT"}]

\* "Teslim Edildi" and all the others ("Sevke Hazir", "Sevk Planlandi", "Yola
\* Cikti", "Teslim Onayi Bekliyor", ...): no check tells those apart.
Statuses == {"DELIVERED", "OTHER"}

ASSUME BoundsAssumption ==
    /\ Saved \subseteq PlanStatuses /\ Elsewhere \subseteq Statuses
    /\ Ordered \in Nat \ {0} /\ IsFiniteSet(Lines) /\ Lines # {}
    /\ MaxShipments \in Nat /\ MaxPlans \in Nat /\ MaxRaces \in Nat

-----------------------------------------------------------------------------
(* Calls: the operation and what Start read; plan is the plan's id (0: none), *)
(* stage the stage a confirmation has reached ("NONE" without a shipment);    *)
(* show: a saved plan shows in the order's status.                          *)

Calls == [op : {"create"}, id : ShipmentIds, qty : Quantities, rest : Bases]
         \cup [op : {"patch"}, ship : ShipmentIds, to : Stages]
         \cup [op : {"confirm"}, plan : 1..MaxPlans, ship : 0..MaxShipments,
               stage : Stages \cup {"NONE"}]
         \cup [op : {"fail", "postpone", "revert", "delete", "queue"}, plan : 1..MaxPlans]
         \cup [op : {"save"}, plan : 0..MaxPlans, to : PlanStatuses, show : BOOLEAN]
         \cup [op : {"group"}]
NoCall == [op |-> "none"]

Init ==
    /\ shipment = [s \in ShipmentIds |-> NoShipment]
    /\ plan = [id |-> 0, status |-> "ABSENT"]
    /\ display = "OTHER"
    /\ received = [l \in Lines |-> 0]
    /\ told = [s \in ShipmentIds |-> {}]
    /\ confirmed = {}
    /\ basis = [l \in Lines |-> "counted"]
    /\ races = 0
    /\ pc = [r \in Requests |-> "idle"]
    /\ call = [r \in Requests |-> NoCall]

Busy == \E q \in Requests : pc[q] # "idle"

CountRace ==
    /\ Busy => races < MaxRaces
    /\ races' = IF Busy THEN races + 1 ELSE races

Accept(r, c) ==
    /\ pc' = [pc EXCEPT ![r] = "checked"]
    /\ call' = [call EXCEPT ![r] = c]
    /\ CountRace
    /\ UNCHANGED <<shipment, plan, display, received, told, confirmed, basis>>

-----------------------------------------------------------------------------
(* Shipments: create and move on                                            *)

\* A creation that asks to waive a check it would pass is one that does not ask: the
\* flag changes nothing.

\* The lines the client selects.  Only the risk flag lets it take more of a line than
\* came in and is not reserved.
MaySelect(qty, rest) ==
    LET fits == \A l \in Lines : qty[l] > 0 => qty[l] <= Shippable(l)
    IN
    /\ \A l \in Lines : qty[l] > 0 => qty[l] <= Remaining(l)
    /\ \/ rest = "counted" /\ fits
       \/ rest = "nothing" /\ ~fits

\* Without a selection, everything that remains.  Lines of which nothing came in are
\* refused, unless the risk is taken or that policy is overridden; a line of which some
\* came in is taken whole.
MayTakeAll(qty, rest) ==
    LET came == \A l \in Lines : qty[l] > 0 => received[l] > 0
    IN
    /\ qty = [l \in Lines |-> Remaining(l)]
    /\ \/ rest = "seen" /\ came
       \/ rest = "nothing" /\ ~came

\* Ids are taken from the clock: requests that overlap take different ones.  Lines
\* with an open missing item are refused whatever is asked: a choice of fewer lines.
StartCreate(r, qty, rest) ==
    LET Taken == Created \cup {call[q].id : q \in {p \in Requests : call[p].op = "create"}}
        Free  == ShipmentIds \ Taken
    IN
    /\ \E l \in Lines : qty[l] > 0
    /\ MaySelect(qty, rest) \/ MayTakeAll(qty, rest)
    /\ \E id \in Free :
          /\ \A other \in Free : id <= other
          /\ Accept(r, [op |-> "create", id |-> id, qty |-> qty, rest |-> rest])

StartPatch(r, s, to) ==
    /\ MayMove(shipment[s].status, to)
    /\ Accept(r, [op |-> "patch", ship |-> s, to |-> to])

-----------------------------------------------------------------------------
(* Plans: save, group, queue, confirm, fail, postpone, revert, delete       *)

PlanExists == plan.status # "ABSENT"

\* POST /shipment-plans with a status, or PATCH, which keeps the one it read.
StartSave(r, to) ==
    /\ PlanExists \/ plan.id < MaxPlans
    /\ Accept(r, [op |-> "save", plan |-> IF PlanExists THEN plan.id ELSE 0,
                  to |-> to, show |-> FALSE])

StartGroup(r) ==
    /\ PlanExists \/ plan.id < MaxPlans
    /\ Accept(r, [op |-> "group"])

\* GET /shipment-plans promotes the plans whose date has passed before it lists them.
StartQueue(r) ==
    /\ plan.status \in QueueEligible
    /\ display # "DELIVERED"
    /\ Accept(r, [op |-> "queue", plan |-> plan.id])

StartConfirm(r) ==
    /\ plan.status = "PENDING_DELIVERY_CONFIRM"
    /\ \E s \in 0..MaxShipments :
          /\ IsLatest(s)
          /\ Accept(r, [op |-> "confirm", plan |-> plan.id, ship |-> s,
                        stage |-> IF s = 0 THEN "NONE" ELSE shipment[s].status])

StartDecide(r, op) ==
    /\ plan.status = "PENDING_DELIVERY_CONFIRM"
    /\ Accept(r, [op |-> op, plan |-> plan.id])

StartRevert(r) ==
    /\ plan.status = "DELIVERED"
    /\ Accept(r, [op |-> "revert", plan |-> plan.id])

StartDelete(r) ==
    /\ PlanExists
    /\ Accept(r, [op |-> "delete", plan |-> plan.id])

Start(r) ==
    /\ pc[r] = "idle"
    /\ \/ \E qty \in Quantities, rest \in Bases : StartCreate(r, qty, rest)
       \/ \E s \in Created, to \in Stages : StartPatch(r, s, to)
       \/ \E to \in Saved \cup ({plan.status} \ {"ABSENT"}) : StartSave(r, to)
       \/ StartGroup(r) \/ StartQueue(r) \/ StartConfirm(r) \/ StartRevert(r) \/ StartDelete(r)
       \/ \E op \in {"fail", "postpone"} : StartDecide(r, op)

-----------------------------------------------------------------------------
Finish(r) ==
    /\ pc' = [pc EXCEPT ![r] = "idle"]
    /\ call' = [call EXCEPT ![r] = NoCall]
    /\ UNCHANGED races

\* The plan a call found (or found missing) is still there (or missing).
SamePlan(c) == IF c.plan = 0 THEN ~PlanExists ELSE PlanExists /\ plan.id = c.plan

PlanLocked(r) == \E q \in Requests \ {r} : pc[q] = "writing"

CommitCreate(r) ==
    LET c == call[r] IN
    /\ pc[r] = "checked" /\ c.op = "create"
    /\ shipment' = [shipment EXCEPT ![c.id] = [status |-> "PLANNED", qty |-> c.qty]]
    /\ told' = [told EXCEPT ![c.id] = @ \cup {"PLANNED"}]
    /\ basis' = [l \in Lines |-> IF c.qty[l] > 0 THEN Weaker(basis[l], c.rest) ELSE basis[l]]
    /\ Finish(r)
    /\ UNCHANGED <<plan, display, received, confirmed>>

\* The transaction of patchShipmentStatus.
MoveShipment(s, to) ==
    /\ shipment' = [shipment EXCEPT ![s].status = to]
    /\ told' = [told EXCEPT ![s] = @ \cup {to}]
    /\ display' = CASE to = "DELIVERED" -> "DELIVERED" [] to = "DISPATCHED" -> "OTHER" [] OTHER -> display
    /\ UNCHANGED <<plan, received, confirmed, basis>>

CommitPatch(r) ==
    /\ pc[r] = "checked" /\ call[r].op = "patch"
    /\ MoveShipment(call[r].ship, call[r].to)
    /\ Finish(r)

\* Saving a plan: its row is locked, then the display status is read.
Write(r) ==
    /\ pc[r] = "checked" /\ call[r].op = "save"
    /\ SamePlan(call[r])
    /\ ~PlanLocked(r)
    /\ PlanExists \/ plan.id < MaxPlans
    /\ pc' = [pc EXCEPT ![r] = "writing"]
    /\ call' = [call EXCEPT ![r].show = (display # "DELIVERED")]
    /\ UNCHANGED <<shipment, plan, display, received, told, confirmed, basis, races>>

\* A row keeps its id when it is updated.
PlanWith(status) ==
    [id |-> IF PlanExists THEN plan.id ELSE plan.id + 1, status |-> status]

CommitSave(r) ==
    LET c == call[r] IN
    /\ pc[r] = "writing"
    /\ plan' = PlanWith(c.to)
    /\ display' = IF c.show THEN "OTHER" ELSE display
    /\ Finish(r)
    /\ UNCHANGED <<shipment, received, told, confirmed, basis>>

\* createShipmentGroup upserts the plans of its orders; no display status is set.
CommitGroup(r) ==
    /\ pc[r] = "checked" /\ call[r].op = "group"
    /\ ~PlanLocked(r)
    /\ PlanExists \/ plan.id < MaxPlans
    /\ plan' = PlanWith("APPLIED")
    /\ Finish(r)
    /\ UNCHANGED <<shipment, display, received, told, confirmed, basis>>

\* What a decision makes of the plan; all of them but the deletion set the display
\* status as well ("Teslim Onayi Bekliyor", "Sevke Hazir", "Planlandi").
Decided(op) ==
    CASE op \in {"queue", "revert"} -> "PENDING_DELIVERY_CONFIRM"
      [] op = "fail"               -> "DELIVERY_FAILED"
      [] op = "postpone"           -> "PLANNED"
      [] op = "delete"             -> "ABSENT"

CommitDecision(r) ==
    LET c == call[r] IN
    /\ pc[r] = "checked" /\ c.op \in {"queue", "revert", "fail", "postpone", "delete"}
    /\ SamePlan(c)
    /\ ~PlanLocked(r)
    /\ plan' = [plan EXCEPT !.status = Decided(c.op)]
    /\ display' = IF c.op = "delete" THEN display ELSE "OTHER"
    /\ Finish(r)
    /\ UNCHANGED <<shipment, received, told, confirmed, basis>>

-----------------------------------------------------------------------------
(* Confirming                                                               *)

Confirming(r) == pc[r] = "checked" /\ call[r].op = "confirm"

\* Fault: it is not looked at whether there is a next stage.
MayStepAnywhere(c) ==
    \/ NextStage(c.stage) = "NONE"
    \/ MayMove(shipment[c.ship].status, NextStage(c.stage))

\* A stage that the shipment's status, read again, does not allow ends the request.
MayStep(c) ==
    /\ NextStage(c.stage) # "NONE"
    /\ MayMove(shipment[c.ship].status, NextStage(c.stage))

\* Still to be moved: there is a shipment, and it was not delivered when last seen.
Underway(c) == c.ship # 0 /\ c.stage # "DELIVERED"

Step(r) ==
    /\ Confirming(r)
    /\ Underway(call[r]) /\ MayStep(call[r])
    /\ pc' = [pc EXCEPT ![r] = "moving"]
    /\ UNCHANGED <<shipment, plan, display, received, told, confirmed, basis, races, call>>

CommitStep(r) ==
    LET to == NextStage(call[r].stage) IN
    /\ pc[r] = "moving"
    /\ MoveShipment(call[r].ship, to)
    /\ pc' = [pc EXCEPT ![r] = "checked"]
    /\ call' = [call EXCEPT ![r].stage = to]
    /\ UNCHANGED races

\* An order without shipments is shown as delivered right away.
ShowDelivered(r) ==
    /\ Confirming(r)
    /\ call[r].ship = 0 /\ call[r].stage = "NONE"
    /\ display' = "DELIVERED"
    /\ call' = [call EXCEPT ![r].stage = "DELIVERED"]
    /\ UNCHANGED <<shipment, plan, received, told, confirmed, basis, races, pc>>

\* Fault: the plan is closed before its shipment is delivered.
ClosePlanFirst(r) ==
    LET c == call[r] IN
    /\ Confirming(r)
    /\ SamePlan(c)
    /\ ~PlanLocked(r)
    /\ plan' = [plan EXCEPT !.status = "DELIVERED"]
    /\ confirmed' = confirmed \cup ({c.ship} \ {0})
    /\ Finish(r)
    /\ UNCHANGED <<shipment, display, received, told, basis>>

ClosePlan(r) ==
    LET c == call[r] IN
    /\ Confirming(r)
    /\ c.stage = "DELIVERED"
    /\ SamePlan(c)
    /\ ~PlanLocked(r)
    /\ plan' = [plan EXCEPT !.status = "DELIVERED"]
    /\ confirmed' = confirmed \cup ({c.ship} \ {0})
    /\ Finish(r)
    /\ UNCHANGED <<shipment, display, received, told, basis>>

-----------------------------------------------------------------------------
\* The transaction finds the plan gone (or made by somebody else), or a stage of
\* the confirmation is refused: what was committed before stays.
Refuse(r) ==
    LET c == call[r] IN
    /\ pc[r] = "checked"
    /\ \/ c.op \in {"save", "queue", "fail", "postpone", "revert", "delete"} /\ ~SamePlan(c)
       \/ c.op = "confirm" /\ c.stage = "DELIVERED" /\ ~SamePlan(c)
       \/ c.op = "confirm" /\ Underway(c) /\ ~MayStep(c)
    /\ Finish(r)
    /\ UNCHANGED <<shipment, plan, display, received, told, confirmed, basis>>

\* The request dies: its open transaction is rolled back.
Abort(r) ==
    /\ pc[r] # "idle"
    /\ Finish(r)
    /\ UNCHANGED <<shipment, plan, display, received, told, confirmed, basis>>

\* Goods come in.
ReceiveGoods(l) ==
    /\ received[l] < Ordered
    /\ received' = [received EXCEPT ![l] = @ + 1]
    /\ CountRace
    /\ UNCHANGED <<shipment, plan, display, told, confirmed, basis, pc, call>>

\* All that came in of a line is taken back.  Nobody looks at the shipments: those that
\* hold some of it rest on nothing now.
TakeBackGoods(l) ==
    /\ received[l] > 0
    /\ received' = [received EXCEPT ![l] = 0]
    /\ basis' = [basis EXCEPT ![l] = IF Reserved(l) > 0 THEN "nothing" ELSE @]
    /\ CountRace
    /\ UNCHANGED <<shipment, plan, display, told, confirmed, pc, call>>

\* Supply and PATCH .../status.
WriteDisplayElsewhere(status) ==
    /\ status # display
    /\ display' = status
    /\ CountRace
    /\ UNCHANGED <<shipment, plan, received, told, confirmed, basis, pc, call>>

Progress(r) ==
    \/ CommitCreate(r) \/ CommitPatch(r)
    \/ Write(r) \/ CommitSave(r) \/ CommitGroup(r) \/ CommitDecision(r)
    \/ Step(r) \/ CommitStep(r) \/ ShowDelivered(r) \/ ClosePlan(r)
    \/ Refuse(r)

Next ==
    \/ \E r \in Requests : Start(r) \/ Progress(r) \/ Abort(r)
    \/ \E l \in Lines : ReceiveGoods(l) \/ TakeBackGoods(l)
    \/ \E status \in Elsewhere : WriteDisplayElsewhere(status)

Spec == Init /\ [][Next]_vars

-----------------------------------------------------------------------------
(* What must hold.                                                          *)

\* Every variable has the shape its table or record has in the code.
TypeOK ==
    /\ shipment \in [ShipmentIds -> Shipment]
    /\ plan \in Plan
    /\ display \in Statuses
    /\ received \in Quantities
    /\ told \in [ShipmentIds -> SUBSET Stages]
    /\ confirmed \subseteq ShipmentIds
    /\ basis \in [Lines -> Bases] /\ races \in Nat
    /\ pc \in [Requests -> {"idle", "checked", "writing", "moving"}]
    /\ call \in [Requests -> Calls \cup {NoCall}]

\* As long as no two requests overlap, the order's shipments never hold more of a
\* line than was ordered.
Held(l) ==
    LET Good == {s \in ShipmentIds : shipment[s].status \notin {"ABSENT", "ISSUE"}}
    IN  MapThenSumSet(LAMBDA s : shipment[s].qty[l], Good)

NeverOverReserved == races = 0 => \A l \in Lines : Held(l) <= Ordered

\* ... nor more than came in, where every shipment that took some of the line was
\* selected and counted; where one took all that remained, something came in.  Nothing
\* can be said of a line for which somebody took the risk, or whose goods were taken
\* back from under a shipment.
GoodsBeforeShipment ==
    races = 0 => \A l \in Lines :
        /\ basis[l] = "counted" => Held(l) <= received[l]
        /\ basis[l] = "seen" /\ Held(l) > 0 => received[l] > 0

\* The events of the order tell of every stage a shipment went through, whatever
\* raced: none is delivered that was never dispatched, loaded and planned.
HistoryIsComplete ==
    \A s \in ShipmentIds :
        /\ shipment[s].status = "ABSENT" \/ shipment[s].status \in told[s]
        /\ \A from \in DOMAIN StageAfter : StageAfter[from] \in told[s] => from \in told[s]

\* A plan a confirmation closed had its shipment delivered, in all its stages,
\* though other requests may have moved it and earlier attempts may have died.
ConfirmedWasDelivered ==
    \A s \in confirmed : "DELIVERED" \in told[s]

StageRank(s) ==
    CASE s = "ABSENT" -> 0 [] s = "PLANNED" -> 1 [] s = "LOADED" -> 2 [] s = "DISPATCHED" -> 3
      [] s = "DELIVERED" -> 4 [] s = "INSTALLATION_DONE" -> 5 [] s = "ISSUE" -> 6

\* No shipment goes back to an earlier stage, or leaves an issue, whether moved by
\* hand or by a confirmation.
ShipmentsMoveForward ==
    [][races' = 0 => \A s \in ShipmentIds :
          StageRank(shipment[s].status) <= StageRank(shipment'[s].status)]_vars

-----------------------------------------------------------------------------
(* What a test claims.                                                      *)

\* deliveryConfirmationQueue.test.js, "confirm delivery marks order delivered".
ConfirmationDelivers ==
    [][races' = 0 /\ plan.status # "DELIVERED" /\ plan'.status = "DELIVERED"
       /\ (\E r \in Requests : call[r].op = "confirm")
        => display' = "DELIVERED"]_vars
=============================================================================
