--------------------------- MODULE DeliveryProofs ---------------------------
(***************************************************************************)
(* Theorems about Delivery, for every number of requests, lines, shipments *)
(* and plans, every ordered quantity and whatever the bounds are.          *)
(***************************************************************************)
EXTENDS Delivery, SumTheorems, TLAPS

-----------------------------------------------------------------------------
(* Stages                                                                   *)

\* The stage after a stage, if there is one, is another stage and determines it.
LEMMA NextFacts ==
    /\ DOMAIN StageAfter = {"PLANNED", "LOADED", "DISPATCHED", "DELIVERED"}
    /\ StageAfter["PLANNED"] = "LOADED" /\ StageAfter["LOADED"] = "DISPATCHED"
    /\ StageAfter["DISPATCHED"] = "DELIVERED"
    /\ StageAfter["DELIVERED"] = "INSTALLATION_DONE"
BY DEF StageAfter

LEMMA NextIsStage ==
    ASSUME NEW from, NextStage(from) # "NONE"
    PROVE  from \in DOMAIN StageAfter /\ NextStage(from) = StageAfter[from] /\ NextStage(from) \in Stages
BY NextFacts DEF NextStage, Stages

\* A stage that is reached by a move is an issue or follows the one before.
LEMMA MoveFollows ==
    ASSUME NEW from, NEW to \in Stages, MayMove(from, to)
    PROVE  /\ from # "ABSENT"
           /\ \A before \in DOMAIN StageAfter : StageAfter[before] = to => before = from
<1>1. CASE to = "ISSUE"
  BY <1>1, NextFacts DEF MayMove, NextStage
<1>2. CASE to # "ISSUE"
  <2>1. NextStage(from) = to /\ to # "NONE"
    BY <1>2 DEF MayMove, Stages
  <2>2. from \in DOMAIN StageAfter /\ StageAfter[from] = to
    BY <2>1, NextIsStage
  <2> QED  BY <2>2, NextFacts
<1> QED  BY <1>1, <1>2

\* Nothing is moved that does not exist or that had an issue.
LEMMA MoveLeavesHeld ==
    ASSUME NEW from, NEW to \in Stages, MayMove(from, to)
    PROVE  from \notin {"ABSENT", "ISSUE"}
<1>1. CASE to = "ISSUE"
  BY <1>1, NextFacts DEF MayMove, NextStage
<1>2. CASE to # "ISSUE"
  <2>1. NextStage(from) # "NONE"
    BY <1>2 DEF MayMove, Stages
  <2> QED  BY <2>1, NextIsStage, NextFacts
<1> QED  BY <1>1, <1>2

LEMMA MoveClimbs ==
    ASSUME NEW from \in Stages \cup {"ABSENT"}, NEW to \in Stages, MayMove(from, to)
    PROVE  StageRank(from) <= StageRank(to)
<1>1. CASE to = "ISSUE"
  BY <1>1 DEF StageRank, Stages
<1>2. CASE to # "ISSUE"
  <2>1. from \in DOMAIN StageAfter /\ StageAfter[from] = to
    BY <1>2, NextIsStage DEF MayMove, Stages
  <2> QED  BY <2>1, NextFacts DEF StageRank
<1> QED  BY <1>1, <1>2

-----------------------------------------------------------------------------
(* Type correctness.  Only one transaction at a time holds the plan's row,  *)
(* and a row that exists has an id.                                         *)

CallsInFlight ==
    \A r \in Requests :
        /\ pc[r] # "idle" => call[r] \in Calls
        /\ pc[r] = "writing" => call[r].op = "save" /\ (PlanExists \/ plan.id < MaxPlans)
        /\ pc[r] = "moving" => /\ call[r].op = "confirm" /\ call[r].ship # 0
                               /\ NextStage(call[r].stage) # "NONE"

OneWriter == \A q, r \in Requests : pc[q] = "writing" /\ pc[r] = "writing" => q = r

TypeInv ==
    /\ TypeOK /\ CallsInFlight /\ OneWriter
    /\ PlanExists => plan.id # 0

LEMMA InitTypes == Init => TypeInv
<1> SUFFICES ASSUME Init
             PROVE  TypeInv
  OBVIOUS
<1>1. [l \in Lines |-> 0] \in Quantities
  BY BoundsAssumption DEF Quantities
<1>2. shipment \in [ShipmentIds -> Shipment] /\ received \in Quantities
  BY <1>1 DEF Init, NoShipment, Shipment
<1>3. plan \in Plan /\ ~PlanExists
  BY BoundsAssumption DEF Init, Plan, PlanExists
<1>4. /\ display \in Statuses
      /\ told \in [ShipmentIds -> SUBSET Stages]
      /\ confirmed \subseteq ShipmentIds
      /\ basis \in [Lines -> Bases] /\ races \in Nat
  BY DEF Init, Statuses, Bases
<1>5. /\ pc \in [Requests -> {"idle", "checked", "writing", "moving"}]
      /\ call \in [Requests -> Calls \cup {NoCall}]
      /\ CallsInFlight /\ OneWriter
  BY DEF Init, CallsInFlight, OneWriter
<1> QED  BY <1>2, <1>3, <1>4, <1>5 DEF TypeInv, TypeOK

\* What the rows are like when a request reads and checks them for call c.
Fresh(c) ==
    /\ c.op = "create" => shipment[c.id].status = "ABSENT"
    /\ c.op = "patch" => MayMove(shipment[c.ship].status, c.to)
    /\ c.op = "confirm" /\ c.ship # 0 => /\ shipment[c.ship].status = c.stage
                                         /\ c.stage # "ABSENT"

LEMMA StartAccepts ==
    ASSUME TypeInv, NEW r \in Requests, Start(r)
    PROVE  pc[r] = "idle" /\ \E c \in Calls : Accept(r, c) /\ Fresh(c)
<1> USE DEF Start
<1>1. ASSUME NEW qty \in Quantities, NEW rest \in Bases, StartCreate(r, qty, rest)
      PROVE  \E c \in Calls : Accept(r, c) /\ Fresh(c)
  <2>1. PICK id \in ShipmentIds \ Created :
            Accept(r, [op |-> "create", id |-> id, qty |-> qty, rest |-> rest])
    BY <1>1 DEF StartCreate
  <2> DEFINE c == [op |-> "create", id |-> id, qty |-> qty, rest |-> rest]
  <2>2. c \in Calls
    BY DEF Calls
  <2>3. Fresh(c)
    BY DEF Fresh, Created
  <2> QED  BY <2>1, <2>2, <2>3
<1>2. ASSUME NEW s \in Created, NEW to \in Stages, StartPatch(r, s, to)
      PROVE  \E c \in Calls : Accept(r, c) /\ Fresh(c)
  <2> DEFINE c == [op |-> "patch", ship |-> s, to |-> to]
  <2>1. c \in Calls
    BY DEF Calls, Created
  <2>2. Accept(r, c)
    BY <1>2 DEF StartPatch
  <2>3. Fresh(c)
    BY <1>2 DEF StartPatch, Fresh
  <2> QED  BY <2>1, <2>2, <2>3
<1>3. ASSUME NEW to \in Saved \cup ({plan.status} \ {"ABSENT"}), StartSave(r, to)
      PROVE  \E c \in Calls : Accept(r, c) /\ Fresh(c)
  <2>1. PICK id \in 0..MaxPlans : Accept(r, [op |-> "save", plan |-> id, to |-> to, show |-> FALSE])
    <3>1. plan.id \in 0..MaxPlans /\ 0 \in 0..MaxPlans
      BY BoundsAssumption DEF TypeInv, TypeOK, Plan
    <3>2. CASE PlanExists
      BY <1>3, <3>1, <3>2 DEF StartSave
    <3>3. CASE ~PlanExists
      BY <1>3, <3>1, <3>3 DEF StartSave
    <3> QED  BY <3>2, <3>3
  <2> DEFINE c == [op |-> "save", plan |-> id, to |-> to, show |-> FALSE]
  <2>2. to \in PlanStatuses
    BY BoundsAssumption DEF TypeInv, TypeOK, Plan
  <2>3. c \in Calls
    BY <2>2 DEF Calls
  <2>4. Fresh(c)
    BY DEF Fresh
  <2> QED  BY <2>1, <2>3, <2>4
<1>4. CASE StartGroup(r)
  <2>1. [op |-> "group"] \in Calls
    BY DEF Calls
  <2> QED  BY <1>4, <2>1 DEF StartGroup, Fresh
<1>5. ASSUME NEW op \in {"fail", "postpone", "revert", "delete", "queue"},
             PlanExists, Accept(r, [op |-> op, plan |-> plan.id])
      PROVE  \E c \in Calls : Accept(r, c) /\ Fresh(c)
  <2>1. plan.id \in 1..MaxPlans
    BY <1>5, BoundsAssumption DEF TypeInv, TypeOK, Plan
  <2>2. [op |-> op, plan |-> plan.id] \in Calls
    BY <2>1 DEF Calls
  <2>3. Fresh([op |-> op, plan |-> plan.id])
    BY DEF Fresh
  <2> QED  BY <1>5, <2>2, <2>3
<1>6. CASE StartQueue(r) \/ StartRevert(r) \/ StartDelete(r) \/ \E op \in {"fail", "postpone"} : StartDecide(r, op)
  BY <1>5, <1>6 DEF StartQueue, StartRevert, StartDelete, StartDecide, PlanExists, QueueEligible
<1>7. CASE StartConfirm(r)
  <2>1. plan.id \in 1..MaxPlans
    BY <1>7, BoundsAssumption DEF StartConfirm, PlanExists, TypeInv, TypeOK, Plan
  <2>2. PICK s \in 0..MaxShipments :
            /\ IsLatest(s)
            /\ Accept(r, [op |-> "confirm", plan |-> plan.id, ship |-> s,
                          stage |-> IF s = 0 THEN "NONE" ELSE shipment[s].status])
    BY <1>7 DEF StartConfirm
  <2> DEFINE c == [op |-> "confirm", plan |-> plan.id, ship |-> s,
                   stage |-> IF s = 0 THEN "NONE" ELSE shipment[s].status]
  <2>3. s # 0 => s \in Created
    BY <2>2 DEF IsLatest
  <2>4. s # 0 => shipment[s].status \in Stages /\ shipment[s].status # "ABSENT"
    BY <2>3 DEF Created, TypeInv, TypeOK, Shipment
  <2>5. c \in Calls
    BY <2>1, <2>4 DEF Calls
  <2>6. Fresh(c)
    BY <2>4 DEF Fresh
  <2> QED  BY <2>2, <2>5, <2>6
<1> QED  BY <1>1, <1>2, <1>3, <1>4, <1>6, <1>7

LEMMA AcceptTypes ==
    ASSUME TypeInv, NEW r \in Requests, NEW c \in Calls, Accept(r, c)
    PROVE  TypeInv'
<1>1. /\ pc' \in [Requests -> {"idle", "checked", "writing", "moving"}]
      /\ call' \in [Requests -> Calls \cup {NoCall}]
      /\ pc'[r] = "checked" /\ call'[r] = c
      /\ \A q \in Requests : q # r => pc'[q] = pc[q] /\ call'[q] = call[q]
      /\ UNCHANGED <<shipment, plan, display, received, told, confirmed, basis>>
      /\ races' \in Nat
  BY DEF TypeInv, TypeOK, Accept, CountRace
<1>2. CallsInFlight' /\ OneWriter'
  BY <1>1 DEF TypeInv, CallsInFlight, OneWriter, PlanExists
<1> QED  BY <1>1, <1>2 DEF TypeInv, TypeOK, PlanExists

\* A request that ends forgets its call; the others' stay.
LEMMA FinishFacts ==
    ASSUME TypeInv, NEW r \in Requests, Finish(r)
    PROVE  /\ pc' \in [Requests -> {"idle", "checked", "writing", "moving"}]
           /\ call' \in [Requests -> Calls \cup {NoCall}]
           /\ pc'[r] = "idle" /\ races' = races
           /\ \A q \in Requests : q # r => pc'[q] = pc[q] /\ call'[q] = call[q]
BY DEF Finish, TypeInv, TypeOK

\* When a request ends, the others' calls stay legal if the plan's row is as it was
\* or nobody else holds it.
LEMMA FinishTypes ==
    ASSUME TypeInv, NEW r \in Requests, Finish(r),
           plan' = plan \/ \A q \in Requests \ {r} : pc[q] # "writing"
    PROVE  CallsInFlight' /\ OneWriter'
<1>1. /\ pc'[r] = "idle"
      /\ \A q \in Requests : q # r => pc'[q] = pc[q] /\ call'[q] = call[q]
  BY FinishFacts
<1>2. OneWriter'
  BY <1>1 DEF TypeInv, OneWriter
<1>3. CallsInFlight'
  BY <1>1 DEF TypeInv, CallsInFlight, PlanExists
<1> QED  BY <1>2, <1>3

\* The transaction that moves a shipment touches that shipment and the status.
LEMMA MoveTypes ==
    ASSUME TypeInv, NEW s \in ShipmentIds, NEW to \in Stages, MoveShipment(s, to)
    PROVE  /\ shipment' \in [ShipmentIds -> Shipment]
           /\ told' \in [ShipmentIds -> SUBSET Stages]
           /\ display' \in Statuses
           /\ UNCHANGED <<plan, received, confirmed, basis>>
           /\ shipment'[s].status = to /\ told'[s] = told[s] \cup {to}
           /\ \A o \in ShipmentIds : o # s => shipment'[o] = shipment[o] /\ told'[o] = told[o]
<1>1. shipment \in [ShipmentIds -> Shipment] /\ told \in [ShipmentIds -> SUBSET Stages]
  BY DEF TypeInv, TypeOK
<1> DEFINE new == [shipment[s] EXCEPT !.status = to]
<1>2. new \in Shipment /\ new.status = to
  BY <1>1 DEF Shipment
<1>3. shipment' = [shipment EXCEPT ![s] = new]
  BY DEF MoveShipment
<1> HIDE DEF new
<1>4. /\ shipment' \in [ShipmentIds -> Shipment] /\ shipment'[s].status = to
      /\ \A o \in ShipmentIds : o # s => shipment'[o] = shipment[o]
  BY <1>1, <1>2, <1>3
<1>5. /\ told' \in [ShipmentIds -> SUBSET Stages] /\ told'[s] = told[s] \cup {to}
      /\ \A o \in ShipmentIds : o # s => told'[o] = told[o]
  BY <1>1 DEF MoveShipment
<1>6. display' \in Statuses /\ UNCHANGED <<plan, received, confirmed, basis>>
  BY DEF MoveShipment, TypeInv, TypeOK, Statuses
<1> QED  BY <1>4, <1>5, <1>6

LEMMA CreateTypes ==
    ASSUME TypeInv, NEW r \in Requests, CommitCreate(r)
    PROVE  TypeInv'
<1> DEFINE c == call[r]
<1>1. c \in Calls /\ c.op = "create"
  BY DEF CommitCreate, TypeInv, CallsInFlight
<1>2. c.id \in ShipmentIds /\ c.qty \in Quantities /\ c.rest \in Bases
  BY <1>1 DEF Calls
<1>3. [status |-> "PLANNED", qty |-> c.qty] \in Shipment
  BY <1>2 DEF Shipment, Stages
<1>4. shipment' \in [ShipmentIds -> Shipment]
  BY <1>2, <1>3 DEF CommitCreate, TypeInv, TypeOK
<1>5. told' \in [ShipmentIds -> SUBSET Stages]
  BY <1>2 DEF CommitCreate, TypeInv, TypeOK, Stages
<1>6. basis' \in [Lines -> Bases] /\ UNCHANGED <<plan, display, received, confirmed>>
  BY <1>2 DEF CommitCreate, Weaker, Bases, TypeInv, TypeOK
<1>7. CallsInFlight' /\ OneWriter'
  BY <1>6, FinishTypes DEF CommitCreate
<1> QED  BY <1>4, <1>5, <1>6, <1>7, FinishFacts DEF CommitCreate, TypeInv, TypeOK, PlanExists

LEMMA PatchTypes ==
    ASSUME TypeInv, NEW r \in Requests, CommitPatch(r)
    PROVE  TypeInv'
<1>1. call[r] \in Calls /\ call[r].op = "patch"
  BY DEF CommitPatch, TypeInv, CallsInFlight
<1>2. call[r].ship \in ShipmentIds /\ call[r].to \in Stages
  BY <1>1 DEF Calls
<1>3. /\ shipment' \in [ShipmentIds -> Shipment] /\ told' \in [ShipmentIds -> SUBSET Stages]
      /\ display' \in Statuses /\ UNCHANGED <<plan, received, confirmed, basis>>
  BY <1>2, MoveTypes DEF CommitPatch
<1>4. CallsInFlight' /\ OneWriter'
  BY <1>3, FinishTypes DEF CommitPatch
<1> QED  BY <1>3, <1>4, FinishFacts DEF CommitPatch, TypeInv, TypeOK, PlanExists

LEMMA WriteTypes ==
    ASSUME TypeInv, NEW r \in Requests, Write(r)
    PROVE  TypeInv'
<1> DEFINE new == [call[r] EXCEPT !.show = (display # "DELIVERED")]
<1>1. call[r] \in Calls /\ call[r].op = "save" /\ pc[r] = "checked"
  BY DEF Write, TypeInv, CallsInFlight
<1>2. new \in Calls /\ new.op = "save"
  <2> DEFINE Saves == [op : {"save"}, plan : 0..MaxPlans, to : PlanStatuses, show : BOOLEAN]
  <2>1. call[r] \in Saves
    BY <1>1 DEF Calls
  <2>2. (display # "DELIVERED") \in BOOLEAN
    OBVIOUS
  <2>3. new \in Saves /\ new.op = "save"
    BY <2>1, <2>2
  <2> QED  BY <2>3 DEF Calls
<1>3. call' = [call EXCEPT ![r] = new]
  BY DEF Write
<1> HIDE DEF new
<1>4. /\ call' \in [Requests -> Calls \cup {NoCall}] /\ call'[r] = new
      /\ pc' \in [Requests -> {"idle", "checked", "writing", "moving"}] /\ pc'[r] = "writing"
      /\ \A q \in Requests : q # r => pc'[q] = pc[q] /\ call'[q] = call[q]
      /\ \A q \in Requests : q # r => pc[q] # "writing"
      /\ PlanExists \/ plan.id < MaxPlans
      /\ UNCHANGED <<shipment, plan, display, received, told, confirmed, basis, races>>
  BY <1>2, <1>3 DEF Write, PlanLocked, TypeInv, TypeOK
<1>5. CallsInFlight' /\ OneWriter'
  BY <1>2, <1>4 DEF TypeInv, CallsInFlight, OneWriter, PlanExists
<1> QED  BY <1>4, <1>5 DEF TypeInv, TypeOK, PlanExists

\* The plan's row is written by one request, which then ends.
LEMMA PlanTypes ==
    ASSUME TypeInv, NEW r \in Requests, Finish(r),
           plan' \in Plan, PlanExists' => plan'.id # 0,
           \A q \in Requests \ {r} : pc[q] # "writing",
           display' \in Statuses, confirmed' \subseteq ShipmentIds,
           UNCHANGED <<shipment, received, told, basis>>
    PROVE  TypeInv'
<1>1. CallsInFlight' /\ OneWriter'
  BY FinishTypes
<1> QED  BY <1>1, FinishFacts DEF TypeInv, TypeOK

LEMMA SaveTypes ==
    ASSUME TypeInv, NEW r \in Requests, CommitSave(r)
    PROVE  TypeInv'
<1>1. call[r] \in Calls /\ call[r].op = "save" /\ (PlanExists \/ plan.id < MaxPlans)
  BY DEF CommitSave, TypeInv, CallsInFlight
<1>2. call[r].to \in PlanStatuses
  BY <1>1 DEF Calls
<1>3. plan' \in Plan /\ plan'.id # 0
  <2>1. plan.id \in 0..MaxPlans /\ (PlanExists => plan.id # 0) /\ MaxPlans \in Nat
    BY BoundsAssumption DEF TypeInv, TypeOK, Plan
  <2>2. (IF PlanExists THEN plan.id ELSE plan.id + 1) \in 1..MaxPlans
    BY <1>1, <2>1
  <2> QED  BY <1>2, <2>2 DEF CommitSave, PlanWith, Plan
<1>4. \A q \in Requests \ {r} : pc[q] # "writing"
  BY DEF CommitSave, TypeInv, OneWriter
<1>5. display' \in Statuses
  BY DEF CommitSave, TypeInv, TypeOK, Statuses
<1> QED  BY <1>3, <1>4, <1>5, PlanTypes DEF CommitSave, TypeInv, TypeOK

LEMMA GroupTypes ==
    ASSUME TypeInv, NEW r \in Requests, CommitGroup(r)
    PROVE  TypeInv'
<1>1. plan' \in Plan /\ plan'.id # 0
  <2>1. plan.id \in 0..MaxPlans /\ (PlanExists => plan.id # 0) /\ MaxPlans \in Nat
    BY BoundsAssumption DEF TypeInv, TypeOK, Plan
  <2>2. (IF PlanExists THEN plan.id ELSE plan.id + 1) \in 1..MaxPlans
    BY <2>1 DEF CommitGroup
  <2> QED  BY <2>2 DEF CommitGroup, PlanWith, Plan, PlanStatuses
<1>2. \A q \in Requests \ {r} : pc[q] # "writing"
  BY DEF CommitGroup, PlanLocked
<1> QED  BY <1>1, <1>2, PlanTypes DEF CommitGroup, TypeInv, TypeOK

LEMMA DecisionTypes ==
    ASSUME TypeInv, NEW r \in Requests, CommitDecision(r)
    PROVE  TypeInv'
<1> DEFINE status == Decided(call[r].op)
<1>1. status \in PlanStatuses \cup {"ABSENT"}
  BY DEF CommitDecision, Decided, PlanStatuses
<1>2. call[r] \in Calls /\ call[r].plan \in 1..MaxPlans
  <2>1. call[r] \in Calls
    BY DEF CommitDecision, TypeInv, CallsInFlight
  <2> QED  BY <2>1 DEF CommitDecision, Calls
<1>3. PlanExists /\ plan.id # 0
  BY <1>2, BoundsAssumption DEF CommitDecision, SamePlan, TypeInv
<1>4. plan' = [plan EXCEPT !.status = status]
  BY DEF CommitDecision
<1> HIDE DEF status
<1>5. plan' \in Plan /\ plan'.id # 0
  BY <1>1, <1>3, <1>4 DEF TypeInv, TypeOK, Plan
<1>6. \A q \in Requests \ {r} : pc[q] # "writing"
  BY DEF CommitDecision, PlanLocked
<1>7. display' \in Statuses
  BY DEF CommitDecision, TypeInv, TypeOK, Statuses
<1> QED  BY <1>5, <1>6, <1>7, PlanTypes DEF CommitDecision, TypeInv, TypeOK

LEMMA CloseTypes ==
    ASSUME TypeInv, NEW r \in Requests, ClosePlan(r)
    PROVE  TypeInv'
<1>1. call[r] \in Calls /\ call[r].op = "confirm"
  BY DEF ClosePlan, Confirming, TypeInv, CallsInFlight
<1>2. call[r].plan \in 1..MaxPlans /\ call[r].ship \in 0..MaxShipments
  BY <1>1 DEF Calls
<1>3. PlanExists /\ plan.id # 0
  BY <1>2, BoundsAssumption DEF ClosePlan, SamePlan, TypeInv
<1>4. plan' \in Plan /\ plan'.id # 0
  BY <1>3 DEF ClosePlan, TypeInv, TypeOK, Plan, PlanStatuses
<1>5. confirmed' \subseteq ShipmentIds
  BY <1>2, BoundsAssumption DEF ClosePlan, TypeInv, TypeOK, ShipmentIds
<1>6. \A q \in Requests \ {r} : pc[q] # "writing"
  BY DEF ClosePlan, PlanLocked
<1> QED  BY <1>4, <1>5, <1>6, PlanTypes DEF ClosePlan, TypeInv, TypeOK

\* A stage of a confirmation: what the request is about to do, and has done.
LEMMA ConfirmFacts ==
    ASSUME TypeInv, NEW r \in Requests, pc[r] # "idle", call[r].op = "confirm"
    PROVE  /\ call[r] \in Calls
           /\ call[r].ship # 0 => call[r].ship \in ShipmentIds
           /\ call[r].stage \in Stages \cup {"NONE"}
           /\ \A to \in Stages : [call[r] EXCEPT !.stage = to] \in Calls
<1>1. call[r] \in Calls
  BY DEF TypeInv, CallsInFlight
<1>2. call[r] \in [op : {"confirm"}, plan : 1..MaxPlans, ship : 0..MaxShipments,
                   stage : Stages \cup {"NONE"}]
  BY <1>1 DEF Calls
<1>3. \A to \in Stages : [call[r] EXCEPT !.stage = to] \in
            [op : {"confirm"}, plan : 1..MaxPlans, ship : 0..MaxShipments, stage : Stages \cup {"NONE"}]
  BY <1>2
<1> QED  BY <1>1, <1>2, <1>3, BoundsAssumption DEF ShipmentIds, Calls

LEMMA StepTypesOK ==
    ASSUME TypeInv, NEW r \in Requests, Step(r)
    PROVE  TypeInv'
<1>1. /\ pc' \in [Requests -> {"idle", "checked", "writing", "moving"}] /\ pc'[r] = "moving"
      /\ \A q \in Requests : q # r => pc'[q] = pc[q]
      /\ call[r] \in Calls /\ call[r].op = "confirm" /\ call[r].ship # 0
      /\ NextStage(call[r].stage) # "NONE"
      /\ UNCHANGED <<shipment, plan, display, received, told, confirmed, basis, races, call>>
  BY DEF Step, Confirming, Underway, MayStep, TypeInv, TypeOK, CallsInFlight
<1>2. CallsInFlight' /\ OneWriter'
  BY <1>1 DEF TypeInv, CallsInFlight, OneWriter, PlanExists
<1> QED  BY <1>1, <1>2 DEF TypeInv, TypeOK, PlanExists

LEMMA CommitStepTypes ==
    ASSUME TypeInv, NEW r \in Requests, CommitStep(r)
    PROVE  /\ TypeInv'
           /\ call[r].op = "confirm" /\ call[r].ship \in ShipmentIds
           /\ NextStage(call[r].stage) # "NONE" /\ NextStage(call[r].stage) \in Stages
           /\ MoveShipment(call[r].ship, NextStage(call[r].stage))
           /\ call'[r] = [call[r] EXCEPT !.stage = NextStage(call[r].stage)]
           /\ pc'[r] = "checked"
           /\ \A q \in Requests : q # r => pc'[q] = pc[q] /\ call'[q] = call[q]
<1> DEFINE to == NextStage(call[r].stage)
           new == [call[r] EXCEPT !.stage = to]
<1>1. /\ pc[r] = "moving" /\ call[r].op = "confirm" /\ call[r].ship \in ShipmentIds
      /\ to # "NONE" /\ to \in Stages
  BY NextIsStage, ConfirmFacts DEF CommitStep, TypeInv, CallsInFlight
<1>2. new \in Calls
  BY <1>1, ConfirmFacts
<1>3. call' = [call EXCEPT ![r] = new] /\ MoveShipment(call[r].ship, to)
  BY DEF CommitStep
<1> HIDE DEF new, to
<1>4. /\ pc' \in [Requests -> {"idle", "checked", "writing", "moving"}] /\ pc'[r] = "checked"
      /\ call' \in [Requests -> Calls \cup {NoCall}] /\ call'[r] = new
      /\ \A q \in Requests : q # r => pc'[q] = pc[q] /\ call'[q] = call[q]
      /\ races' = races
  BY <1>2, <1>3 DEF CommitStep, TypeInv, TypeOK
<1>5. /\ shipment' \in [ShipmentIds -> Shipment] /\ told' \in [ShipmentIds -> SUBSET Stages]
      /\ display' \in Statuses /\ UNCHANGED <<plan, received, confirmed, basis>>
  BY <1>1, <1>3, MoveTypes
<1>6. CallsInFlight' /\ OneWriter'
  BY <1>2, <1>4, <1>5 DEF TypeInv, CallsInFlight, OneWriter, PlanExists
<1>7. TypeInv'
  BY <1>4, <1>5, <1>6 DEF TypeInv, TypeOK, PlanExists
<1> QED  BY <1>1, <1>3, <1>4, <1>7 DEF new, to

LEMMA ShowTypes ==
    ASSUME TypeInv, NEW r \in Requests, ShowDelivered(r)
    PROVE  /\ TypeInv'
           /\ call'[r] = [call[r] EXCEPT !.stage = "DELIVERED"]
           /\ \A q \in Requests : q # r => call'[q] = call[q]
<1> DEFINE new == [call[r] EXCEPT !.stage = "DELIVERED"]
<1>1. new \in Calls /\ pc[r] = "checked" /\ call[r].op = "confirm"
  BY ConfirmFacts DEF ShowDelivered, Confirming, Stages
<1>2. call' = [call EXCEPT ![r] = new]
  BY DEF ShowDelivered
<1> HIDE DEF new
<1>3. /\ call' \in [Requests -> Calls \cup {NoCall}] /\ call'[r] = new
      /\ \A q \in Requests : q # r => call'[q] = call[q]
      /\ display' \in Statuses
      /\ UNCHANGED <<shipment, plan, received, told, confirmed, basis, races, pc>>
  BY <1>1, <1>2 DEF ShowDelivered, Statuses, TypeInv, TypeOK
<1>4. CallsInFlight' /\ OneWriter'
  BY <1>1, <1>3 DEF TypeInv, CallsInFlight, OneWriter, PlanExists
<1>5. TypeInv'
  BY <1>3, <1>4 DEF TypeInv, TypeOK, PlanExists
<1> QED  BY <1>3, <1>5 DEF new

\* Steps that end a request, or are not a request's, and leave plan and shipments alone.
LEMMA EndTypes ==
    ASSUME TypeInv, NEW r \in Requests, Refuse(r) \/ Abort(r)
    PROVE  TypeInv'
<1>1. Finish(r) /\ UNCHANGED <<shipment, plan, display, received, told, confirmed, basis>>
  BY DEF Refuse, Abort
<1>2. CallsInFlight' /\ OneWriter'
  BY <1>1, FinishTypes
<1> QED  BY <1>1, <1>2, FinishFacts DEF TypeInv, TypeOK, PlanExists

LEMMA ElsewhereTypes ==
    ASSUME TypeInv,
           \/ \E l \in Lines : ReceiveGoods(l) \/ TakeBackGoods(l)
           \/ \E status \in Elsewhere : WriteDisplayElsewhere(status)
    PROVE  TypeInv'
<1>1. UNCHANGED <<shipment, plan, told, confirmed, pc, call>> /\ races' \in Nat
  BY DEF ReceiveGoods, TakeBackGoods, WriteDisplayElsewhere, CountRace, TypeInv, TypeOK
<1>2. received' \in Quantities
  BY BoundsAssumption DEF ReceiveGoods, TakeBackGoods, WriteDisplayElsewhere, TypeInv, TypeOK,
     Quantities
<1>3. display' \in Statuses
  BY BoundsAssumption DEF ReceiveGoods, TakeBackGoods, WriteDisplayElsewhere, TypeInv, TypeOK
<1>4. basis' \in [Lines -> Bases]
  BY DEF ReceiveGoods, TakeBackGoods, WriteDisplayElsewhere, TypeInv, TypeOK, Bases
<1> QED  BY <1>1, <1>2, <1>3, <1>4 DEF TypeInv, TypeOK, CallsInFlight, OneWriter, PlanExists

LEMMA StepTypes == TypeInv /\ [Next]_vars => TypeInv'
<1> SUFFICES ASSUME TypeInv, [Next]_vars
             PROVE  TypeInv'
  OBVIOUS
<1>1. ASSUME NEW r \in Requests, Start(r) \/ Progress(r) \/ Abort(r)
      PROVE  TypeInv'
  BY <1>1, StartAccepts, AcceptTypes, CreateTypes, PatchTypes, WriteTypes, SaveTypes, GroupTypes,
     DecisionTypes, StepTypesOK, CommitStepTypes, ShowTypes, CloseTypes, EndTypes
     DEF Progress
<1>2. CASE UNCHANGED vars
  BY <1>2 DEF vars, TypeInv, TypeOK, CallsInFlight, OneWriter, PlanExists
<1> QED  BY <1>1, <1>2, ElsewhereTypes DEF Next

\* The rows and the calls in flight keep their shape; a plan that exists has an id.
THEOREM TypeCorrect == Spec => []TypeOK
<1>1. TypeInv => TypeOK
  BY DEF TypeInv
<1> QED  BY <1>1, InitTypes, StepTypes, PTL DEF Spec

-----------------------------------------------------------------------------
(* The events tell the whole history.  A stage that is about to be written  *)
(* follows one the events already tell of, whatever the row says by now.    *)

CallsFollow ==
    \A r \in Requests :
        pc[r] # "idle" =>
            /\ call[r].op = "patch" =>
                  \A from \in DOMAIN StageAfter :
                      StageAfter[from] = call[r].to => from \in told[call[r].ship]
            /\ call[r].op = "confirm" /\ call[r].ship # 0 =>
                  call[r].stage \in told[call[r].ship]

HistoryInv == TypeInv /\ HistoryIsComplete /\ CallsFollow /\ ConfirmedWasDelivered

\* A request that is accepted asks for a stage the history allows.
LEMMA AcceptHistory ==
    ASSUME HistoryInv, NEW r \in Requests, NEW c \in Calls, Accept(r, c), Fresh(c)
    PROVE  HistoryIsComplete' /\ CallsFollow' /\ ConfirmedWasDelivered'
<1>1. /\ UNCHANGED <<shipment, told, confirmed>>
      /\ call'[r] = c
      /\ \A q \in Requests : q # r => pc'[q] = pc[q] /\ call'[q] = call[q]
  BY DEF Accept, HistoryInv, TypeInv, TypeOK
<1>2. ASSUME c.op = "patch", NEW from \in DOMAIN StageAfter, StageAfter[from] = c.to
      PROVE  from \in told[c.ship]
  <2>1. c.ship \in ShipmentIds /\ c.to \in Stages
    BY <1>2 DEF Calls
  <2>2. from = shipment[c.ship].status /\ shipment[c.ship].status # "ABSENT"
    BY <1>2, <2>1, MoveFollows DEF Fresh
  <2> QED  BY <2>1, <2>2 DEF HistoryInv, HistoryIsComplete
<1>3. ASSUME c.op = "confirm", c.ship # 0
      PROVE  c.stage \in told[c.ship]
  <2>1. c.ship \in ShipmentIds
    BY <1>3, BoundsAssumption DEF Calls, ShipmentIds
  <2>2. shipment[c.ship].status = c.stage /\ c.stage # "ABSENT"
    BY <1>3 DEF Fresh
  <2> QED  BY <2>1, <2>2 DEF HistoryInv, HistoryIsComplete
<1>4. CallsFollow'
  BY <1>1, <1>2, <1>3 DEF HistoryInv, CallsFollow
<1> QED  BY <1>1, <1>4 DEF HistoryInv, HistoryIsComplete, ConfirmedWasDelivered

\* A stage is written: the shipment shows it, and the events tell of it.
LEMMA StageHistory ==
    ASSUME HistoryInv, NEW s \in ShipmentIds, NEW to \in Stages,
           shipment'[s].status = to, told'[s] = told[s] \cup {to}, confirmed' = confirmed,
           \A o \in ShipmentIds : o # s => shipment'[o] = shipment[o] /\ told'[o] = told[o],
           \A from \in DOMAIN StageAfter : StageAfter[from] = to => from \in told[s]
    PROVE  /\ HistoryIsComplete' /\ ConfirmedWasDelivered'
           /\ \A o \in ShipmentIds : told[o] \subseteq told'[o]
<1>1. \A o \in ShipmentIds : told[o] \subseteq told'[o]
  OBVIOUS
<1>2. HistoryIsComplete'
  BY DEF HistoryInv, HistoryIsComplete
<1>3. ConfirmedWasDelivered'
  BY <1>1 DEF HistoryInv, TypeInv, TypeOK, ConfirmedWasDelivered
<1> QED  BY <1>1, <1>2, <1>3

\* What the calls in flight rely on is never taken from the history.
LEMMA OthersFollow ==
    ASSUME HistoryInv, NEW q \in Requests, pc[q] # "idle", call'[q] = call[q],
           \A o \in ShipmentIds : told[o] \subseteq told'[o]
    PROVE  /\ call'[q].op = "patch" =>
                  \A from \in DOMAIN StageAfter :
                      StageAfter[from] = call'[q].to => from \in told'[call'[q].ship]
           /\ call'[q].op = "confirm" /\ call'[q].ship # 0 =>
                  call'[q].stage \in told'[call'[q].ship]
<1>1. call[q] \in Calls
  BY DEF HistoryInv, TypeInv, CallsInFlight
<1>2. /\ call[q].op = "patch" => call[q].ship \in ShipmentIds
      /\ call[q].op = "confirm" /\ call[q].ship # 0 => call[q].ship \in ShipmentIds
  BY <1>1, BoundsAssumption DEF Calls, ShipmentIds
<1> QED  BY <1>2 DEF HistoryInv, CallsFollow

LEMMA CreateHistory ==
    ASSUME HistoryInv, NEW r \in Requests, CommitCreate(r)
    PROVE  HistoryIsComplete' /\ CallsFollow' /\ ConfirmedWasDelivered'
<1> DEFINE id == call[r].id
<1>1. id \in ShipmentIds /\ call[r].op = "create"
  <2>1. call[r] \in Calls
    BY DEF CommitCreate, HistoryInv, TypeInv, CallsInFlight
  <2> QED  BY <2>1 DEF CommitCreate, Calls
<1>2. /\ shipment'[id].status = "PLANNED" /\ told'[id] = told[id] \cup {"PLANNED"}
      /\ \A o \in ShipmentIds : o # id => shipment'[o] = shipment[o] /\ told'[o] = told[o]
      /\ confirmed' = confirmed
  BY <1>1 DEF CommitCreate, HistoryInv, TypeInv, TypeOK
<1>3. \A from \in DOMAIN StageAfter : StageAfter[from] # "PLANNED"
  BY NextFacts
<1>4. /\ HistoryIsComplete' /\ ConfirmedWasDelivered'
      /\ \A o \in ShipmentIds : told[o] \subseteq told'[o]
  <2>1. "PLANNED" \in Stages
    BY DEF Stages
  <2> QED  BY <1>1, <1>2, <1>3, <2>1, StageHistory
<1>5. /\ pc'[r] = "idle"
      /\ \A q \in Requests : q # r => pc'[q] = pc[q] /\ call'[q] = call[q]
  BY FinishFacts DEF CommitCreate, HistoryInv
<1>6. CallsFollow'
  BY <1>4, <1>5, OthersFollow DEF CallsFollow
<1> QED  BY <1>4, <1>6

LEMMA PatchHistory ==
    ASSUME HistoryInv, NEW r \in Requests, CommitPatch(r)
    PROVE  HistoryIsComplete' /\ CallsFollow' /\ ConfirmedWasDelivered'
<1> DEFINE s  == call[r].ship
           to == call[r].to
<1>1. s \in ShipmentIds /\ to \in Stages /\ call[r].op = "patch" /\ pc[r] # "idle"
  <2>1. call[r] \in Calls
    BY DEF CommitPatch, HistoryInv, TypeInv, CallsInFlight
  <2> QED  BY <2>1 DEF CommitPatch, Calls
<1>2. /\ shipment'[s].status = to /\ told'[s] = told[s] \cup {to} /\ confirmed' = confirmed
      /\ \A o \in ShipmentIds : o # s => shipment'[o] = shipment[o] /\ told'[o] = told[o]
  BY <1>1, MoveTypes DEF CommitPatch, HistoryInv
<1>3. \A from \in DOMAIN StageAfter : StageAfter[from] = to => from \in told[s]
  BY <1>1 DEF HistoryInv, CallsFollow
<1>4. /\ HistoryIsComplete' /\ ConfirmedWasDelivered'
      /\ \A o \in ShipmentIds : told[o] \subseteq told'[o]
  BY <1>1, <1>2, <1>3, StageHistory
<1>5. /\ pc'[r] = "idle"
      /\ \A q \in Requests : q # r => pc'[q] = pc[q] /\ call'[q] = call[q]
  BY FinishFacts DEF CommitPatch, HistoryInv
<1>6. CallsFollow'
  BY <1>4, <1>5, OthersFollow DEF CallsFollow
<1> QED  BY <1>4, <1>6

LEMMA StageOfConfirmHistory ==
    ASSUME HistoryInv, NEW r \in Requests, CommitStep(r)
    PROVE  HistoryIsComplete' /\ CallsFollow' /\ ConfirmedWasDelivered'
<1> DEFINE s  == call[r].ship
           to == NextStage(call[r].stage)
<1>1. /\ s \in ShipmentIds /\ to \in Stages /\ to # "NONE" /\ call[r].op = "confirm"
      /\ MoveShipment(s, to)
      /\ call'[r] = [call[r] EXCEPT !.stage = to] /\ pc'[r] = "checked" /\ pc[r] = "moving"
      /\ \A q \in Requests : q # r => pc'[q] = pc[q] /\ call'[q] = call[q]
  BY CommitStepTypes DEF CommitStep, HistoryInv
<1>2. /\ shipment'[s].status = to /\ told'[s] = told[s] \cup {to} /\ confirmed' = confirmed
      /\ \A o \in ShipmentIds : o # s => shipment'[o] = shipment[o] /\ told'[o] = told[o]
  BY <1>1, MoveTypes DEF HistoryInv
<1>3. \A from \in DOMAIN StageAfter : StageAfter[from] = to => from \in told[s]
  <2>1. call[r].stage \in told[s]
    <3>1. s # 0
      BY <1>1, BoundsAssumption DEF ShipmentIds
    <3> QED  BY <1>1, <3>1 DEF HistoryInv, CallsFollow
  <2>2. call[r].stage \in DOMAIN StageAfter /\ to = StageAfter[call[r].stage]
    BY <1>1, NextIsStage
  <2>3. \A from \in DOMAIN StageAfter : StageAfter[from] = to => from = call[r].stage
    BY <2>2, NextFacts
  <2> QED  BY <2>1, <2>3
<1>4. /\ HistoryIsComplete' /\ ConfirmedWasDelivered'
      /\ \A o \in ShipmentIds : told[o] \subseteq told'[o]
  BY <1>1, <1>2, <1>3, StageHistory
<1>5. call'[r].op = "confirm" /\ call'[r].ship = s /\ call'[r].stage = to
  <2>1. call[r] \in [op : {"confirm"}, plan : 1..MaxPlans, ship : 0..MaxShipments,
                     stage : Stages \cup {"NONE"}]
    <3>1. call[r] \in Calls
      BY <1>1 DEF HistoryInv, TypeInv, CallsInFlight
    <3> QED  BY <1>1, <3>1 DEF Calls
  <2> QED  BY <1>1, <2>1
<1>6. CallsFollow'
  BY <1>1, <1>2, <1>4, <1>5, OthersFollow DEF CallsFollow
<1> QED  BY <1>4, <1>6

LEMMA ShowHistory ==
    ASSUME HistoryInv, NEW r \in Requests, ShowDelivered(r)
    PROVE  HistoryIsComplete' /\ CallsFollow' /\ ConfirmedWasDelivered'
<1>1. /\ UNCHANGED <<shipment, told, confirmed, pc>>
      /\ call[r].ship = 0 /\ call[r].op = "confirm" /\ pc[r] # "idle"
      /\ call'[r] = [call[r] EXCEPT !.stage = "DELIVERED"]
      /\ \A q \in Requests : q # r => call'[q] = call[q]
  BY ShowTypes DEF ShowDelivered, Confirming, HistoryInv
<1>2. call'[r].op = "confirm" /\ call'[r].ship = 0
  <2>1. call[r] \in [op : {"confirm"}, plan : 1..MaxPlans, ship : 0..MaxShipments,
                     stage : Stages \cup {"NONE"}]
    <3>1. call[r] \in Calls
      BY <1>1 DEF HistoryInv, TypeInv, CallsInFlight
    <3> QED  BY <1>1, <3>1 DEF Calls
  <2> QED  BY <1>1, <2>1
<1>3. CallsFollow'
  BY <1>1, <1>2 DEF HistoryInv, CallsFollow
<1> QED  BY <1>1, <1>3 DEF HistoryInv, HistoryIsComplete, ConfirmedWasDelivered

LEMMA CloseHistory ==
    ASSUME HistoryInv, NEW r \in Requests, ClosePlan(r)
    PROVE  HistoryIsComplete' /\ CallsFollow' /\ ConfirmedWasDelivered'
<1>1. /\ UNCHANGED <<shipment, told>> /\ confirmed' = confirmed \cup ({call[r].ship} \ {0})
      /\ pc[r] # "idle" /\ call[r].op = "confirm" /\ call[r].stage = "DELIVERED"
  BY DEF ClosePlan, Confirming
<1>2. ConfirmedWasDelivered'
  BY <1>1 DEF HistoryInv, CallsFollow, ConfirmedWasDelivered
<1>3. /\ pc'[r] = "idle"
      /\ \A q \in Requests : q # r => pc'[q] = pc[q] /\ call'[q] = call[q]
  BY FinishFacts DEF ClosePlan, HistoryInv
<1>4. CallsFollow'
  BY <1>1, <1>3 DEF HistoryInv, CallsFollow
<1> QED  BY <1>1, <1>2, <1>4 DEF HistoryInv, HistoryIsComplete

\* The steps that write nothing of this.
LEMMA SameHistory ==
    ASSUME HistoryInv, UNCHANGED <<shipment, told, confirmed>>,
           \A q \in Requests : pc'[q] # "idle" /\ call'[q].op \in {"patch", "confirm"} =>
              pc[q] # "idle" /\ call'[q] = call[q]
    PROVE  HistoryIsComplete' /\ CallsFollow' /\ ConfirmedWasDelivered'
BY DEF HistoryInv, CallsFollow, HistoryIsComplete, ConfirmedWasDelivered

LEMMA StepHistory == HistoryInv /\ [Next]_vars => HistoryInv'
<1> SUFFICES ASSUME HistoryInv, [Next]_vars
             PROVE  HistoryIsComplete' /\ CallsFollow' /\ ConfirmedWasDelivered'
  BY StepTypes DEF HistoryInv
<1>1. ASSUME NEW r \in Requests, Start(r)
      PROVE  HistoryIsComplete' /\ CallsFollow' /\ ConfirmedWasDelivered'
  BY <1>1, StartAccepts, AcceptHistory DEF HistoryInv
<1>2. ASSUME NEW r \in Requests,
             CommitSave(r) \/ CommitGroup(r) \/ CommitDecision(r) \/ Refuse(r) \/ Abort(r)
      PROVE  HistoryIsComplete' /\ CallsFollow' /\ ConfirmedWasDelivered'
  <2>1. Finish(r) /\ UNCHANGED <<shipment, told, confirmed>>
    BY <1>2 DEF CommitSave, CommitGroup, CommitDecision, Refuse, Abort
  <2> QED  BY <2>1, FinishFacts, SameHistory DEF HistoryInv
<1>3. ASSUME NEW r \in Requests, Write(r)
      PROVE  HistoryIsComplete' /\ CallsFollow' /\ ConfirmedWasDelivered'
  <2> DEFINE new == [call[r] EXCEPT !.show = (display # "DELIVERED")]
  <2>1. new.op = "save"
    <3>1. call[r] \in Calls /\ call[r].op = "save"
      BY <1>3 DEF Write, HistoryInv, TypeInv, CallsInFlight
    <3>2. call[r] \in [op : {"save"}, plan : 0..MaxPlans, to : PlanStatuses, show : BOOLEAN]
      BY <3>1 DEF Calls
    <3> QED  BY <3>1, <3>2
  <2>2. call' = [call EXCEPT ![r] = new]
    BY <1>3 DEF Write
  <2> HIDE DEF new
  <2>3. /\ UNCHANGED <<shipment, told, confirmed>> /\ call'[r].op = "save"
        /\ \A q \in Requests : q # r => pc'[q] = pc[q] /\ call'[q] = call[q]
    BY <1>3, <2>1, <2>2 DEF Write, HistoryInv, TypeInv, TypeOK
  <2> QED  BY <2>3, SameHistory
<1>4. ASSUME NEW r \in Requests, Step(r)
      PROVE  HistoryIsComplete' /\ CallsFollow' /\ ConfirmedWasDelivered'
  <2>1. /\ UNCHANGED <<shipment, told, confirmed, call>> /\ pc[r] # "idle"
        /\ \A q \in Requests : q # r => pc'[q] = pc[q]
    BY <1>4 DEF Step, Confirming, HistoryInv, TypeInv, TypeOK
  <2> QED  BY <2>1, SameHistory
<1>5. CASE \/ \E l \in Lines : ReceiveGoods(l) \/ TakeBackGoods(l)
           \/ \E status \in Elsewhere : WriteDisplayElsewhere(status)
  BY <1>5, SameHistory DEF ReceiveGoods, TakeBackGoods, WriteDisplayElsewhere
<1>6. CASE UNCHANGED vars
  BY <1>6, SameHistory DEF vars
<1> QED  BY <1>1, <1>2, <1>3, <1>4, <1>5, <1>6, CreateHistory, PatchHistory,
            StageOfConfirmHistory, ShowHistory, CloseHistory DEF Next, Progress

LEMMA InitHistory == Init => HistoryInv
<1>1. Init => HistoryIsComplete /\ CallsFollow /\ ConfirmedWasDelivered
  <2> SUFFICES ASSUME Init
               PROVE  HistoryIsComplete /\ CallsFollow /\ ConfirmedWasDelivered
    OBVIOUS
  <2>1. \A s \in ShipmentIds : shipment[s].status = "ABSENT" /\ told[s] = {}
    BY DEF Init, NoShipment
  <2> QED  BY <2>1 DEF Init, HistoryIsComplete, CallsFollow, ConfirmedWasDelivered
<1> QED  BY <1>1, InitTypes DEF HistoryInv

\* However requests overlap and die, the order's events tell of every stage a
\* shipment went through, and of all the stages before it.
THEOREM HistoriesAreComplete == Spec => []HistoryIsComplete
<1>1. HistoryInv => HistoryIsComplete
  BY DEF HistoryInv
<1> QED  BY <1>1, InitHistory, StepHistory, PTL DEF Spec

\* However requests overlap and die, a plan that a confirmation closed had its
\* shipment delivered.
THEOREM ConfirmationsAreBacked == Spec => []ConfirmedWasDelivered
<1>1. HistoryInv => ConfirmedWasDelivered
  BY DEF HistoryInv
<1> QED  BY <1>1, InitHistory, StepHistory, PTL DEF Spec

-----------------------------------------------------------------------------
(* One request at a time: a shipment is still where the request found it.   *)

Alone == \A q, r \in Requests : pc[q] # "idle" /\ pc[r] # "idle" => q = r

FlightInv == Alone /\ \A r \in Requests : pc[r] # "idle" => Fresh(call[r])

SerialInv == TypeInv /\ (races = 0 => FlightInv)

\* No step moves a shipment back.
Forward == \A s \in ShipmentIds : StageRank(shipment[s].status) <= StageRank(shipment'[s].status)

LEMMA StageRankType ==
    ASSUME NEW s \in Stages \cup {"ABSENT"}
    PROVE  StageRank(s) \in 0..6
BY DEF StageRank, Stages

LEMMA SameForward ==
    ASSUME TypeInv, shipment' = shipment
    PROVE  Forward
<1>1. \A s \in ShipmentIds : StageRank(shipment[s].status) \in 0..6
  BY StageRankType DEF TypeInv, TypeOK, Shipment
<1> QED  BY <1>1 DEF Forward

LEMMA OneForward ==
    ASSUME TypeInv, NEW s \in ShipmentIds,
           StageRank(shipment[s].status) <= StageRank(shipment'[s].status),
           \A o \in ShipmentIds : o # s => shipment'[o] = shipment[o]
    PROVE  Forward
<1>1. \A o \in ShipmentIds : StageRank(shipment[o].status) \in 0..6
  BY StageRankType DEF TypeInv, TypeOK, Shipment
<1> QED  BY <1>1 DEF Forward

\* A request that ends leaves nobody in flight.
LEMMA FinishAlone ==
    ASSUME TypeInv, FlightInv, NEW r \in Requests, pc[r] # "idle", Finish(r)
    PROVE  FlightInv'
<1>1. \A q \in Requests : pc'[q] = "idle"
  BY FinishFacts DEF FlightInv, Alone
<1> QED  BY <1>1 DEF FlightInv, Alone

LEMMA StepSerial ==
    SerialInv /\ [Next]_vars => SerialInv' /\ (races' = 0 => Forward)
<1> SUFFICES ASSUME SerialInv, [Next]_vars, races' = 0
             PROVE  FlightInv' /\ Forward
  BY StepTypes DEF SerialInv
<1> USE DEF SerialInv
<1>1. ASSUME NEW r \in Requests, Start(r)
      PROVE  FlightInv' /\ Forward
  <2>1. PICK c \in Calls : Accept(r, c) /\ Fresh(c)
    BY <1>1, StartAccepts
  <2>2. ~Busy
    BY <2>1 DEF Accept, CountRace, TypeInv, TypeOK
  <2>3. /\ shipment' = shipment /\ call'[r] = c
        /\ \A q \in Requests : q # r => pc'[q] = "idle"
    BY <2>1, <2>2 DEF Accept, Busy, TypeInv, TypeOK
  <2>4. FlightInv'
    BY <2>1, <2>3 DEF FlightInv, Alone, Fresh
  <2> QED  BY <2>3, <2>4, SameForward
<1>2. ASSUME NEW r \in Requests,
             \/ CommitSave(r) \/ CommitGroup(r) \/ CommitDecision(r) \/ ClosePlan(r)
             \/ Refuse(r) \/ Abort(r)
      PROVE  FlightInv' /\ Forward
  <2>1. Finish(r) /\ pc[r] # "idle" /\ shipment' = shipment
    BY <1>2 DEF CommitSave, CommitGroup, CommitDecision, ClosePlan, Confirming, Refuse, Abort
  <2>2. FlightInv
    BY <2>1 DEF Finish
  <2> QED  BY <2>1, <2>2, FinishAlone, SameForward
<1>3. ASSUME NEW r \in Requests, CommitCreate(r)
      PROVE  FlightInv' /\ Forward
  <2>1. Finish(r) /\ pc[r] # "idle" /\ call[r].op = "create" /\ FlightInv
    BY <1>3 DEF CommitCreate, Finish
  <2>2. call[r].id \in ShipmentIds /\ shipment[call[r].id].status = "ABSENT"
    BY <2>1 DEF TypeInv, CallsInFlight, Calls, FlightInv, Fresh
  <2>3. /\ shipment'[call[r].id].status = "PLANNED"
        /\ \A o \in ShipmentIds : o # call[r].id => shipment'[o] = shipment[o]
    BY <1>3, <2>2 DEF CommitCreate, TypeInv, TypeOK
  <2>4. StageRank(shipment[call[r].id].status) <= StageRank(shipment'[call[r].id].status)
    BY <2>2, <2>3 DEF StageRank
  <2> QED  BY <2>1, <2>2, <2>3, <2>4, OneForward, FinishAlone
<1>4. ASSUME NEW r \in Requests, CommitPatch(r)
      PROVE  FlightInv' /\ Forward
  <2> DEFINE s  == call[r].ship
             to == call[r].to
  <2>1. Finish(r) /\ pc[r] # "idle" /\ call[r].op = "patch" /\ MoveShipment(s, to) /\ FlightInv
    BY <1>4 DEF CommitPatch, Finish
  <2>2. s \in ShipmentIds /\ to \in Stages /\ MayMove(shipment[s].status, to)
    BY <2>1 DEF TypeInv, CallsInFlight, Calls, FlightInv, Fresh
  <2>3. shipment'[s].status = to /\ \A o \in ShipmentIds : o # s => shipment'[o] = shipment[o]
    BY <2>1, <2>2, MoveTypes
  <2>4. StageRank(shipment[s].status) <= StageRank(to)
    BY <2>2, MoveClimbs DEF TypeInv, TypeOK, Shipment
  <2> QED  BY <2>1, <2>2, <2>3, <2>4, OneForward, FinishAlone
<1>5. ASSUME NEW r \in Requests, CommitStep(r)
      PROVE  FlightInv' /\ Forward
  <2> DEFINE s  == call[r].ship
             to == NextStage(call[r].stage)
  <2>1. /\ s \in ShipmentIds /\ to \in Stages /\ to # "NONE" /\ call[r].op = "confirm"
        /\ MoveShipment(s, to)
        /\ call'[r] = [call[r] EXCEPT !.stage = to] /\ pc[r] # "idle"
        /\ \A q \in Requests : q # r => pc'[q] = pc[q] /\ call'[q] = call[q]
        /\ FlightInv
    BY <1>5, CommitStepTypes DEF CommitStep
  <2>2. shipment'[s].status = to /\ \A o \in ShipmentIds : o # s => shipment'[o] = shipment[o]
    BY <2>1, MoveTypes
  <2>3. shipment[s].status = call[r].stage
    BY <2>1, BoundsAssumption DEF ShipmentIds, FlightInv, Fresh
  <2>4. StageRank(shipment[s].status) <= StageRank(to)
    BY <2>1, <2>3, MoveClimbs DEF MayMove, TypeInv, TypeOK, Shipment
  <2>5. call'[r].op = "confirm" /\ call'[r].ship = s /\ call'[r].stage = to
    <3>1. call[r] \in [op : {"confirm"}, plan : 1..MaxPlans, ship : 0..MaxShipments,
                       stage : Stages \cup {"NONE"}]
      <4>1. call[r] \in Calls
        BY <2>1 DEF TypeInv, CallsInFlight
      <4> QED  BY <2>1, <4>1 DEF Calls
    <3> QED  BY <2>1, <3>1
  <2>6. \A q \in Requests : q # r => pc'[q] = "idle"
    BY <2>1 DEF FlightInv, Alone
  <2>7. Fresh(call[r])'
    BY <2>1, <2>2, <2>5 DEF Fresh, Stages
  <2>8. FlightInv'
    BY <2>6, <2>7 DEF FlightInv, Alone
  <2> QED  BY <2>1, <2>2, <2>4, <2>8, OneForward
<1>6. ASSUME NEW r \in Requests, Write(r)
      PROVE  FlightInv' /\ Forward
  <2> DEFINE new == [call[r] EXCEPT !.show = (display # "DELIVERED")]
  <2>1. new.op = "save"
    <3>1. call[r] \in Calls /\ call[r].op = "save"
      BY <1>6 DEF Write, TypeInv, CallsInFlight
    <3>2. call[r] \in [op : {"save"}, plan : 0..MaxPlans, to : PlanStatuses, show : BOOLEAN]
      BY <3>1 DEF Calls
    <3> QED  BY <3>1, <3>2
  <2>2. call' = [call EXCEPT ![r] = new]
    BY <1>6 DEF Write
  <2> HIDE DEF new
  <2>3. /\ call'[r].op = "save" /\ shipment' = shipment /\ FlightInv /\ pc[r] # "idle"
        /\ \A q \in Requests : q # r => pc'[q] = pc[q]
    BY <1>6, <2>1, <2>2 DEF Write, TypeInv, TypeOK
  <2>4. \A q \in Requests : q # r => pc'[q] = "idle"
    BY <2>3 DEF FlightInv, Alone
  <2>5. FlightInv'
    BY <2>3, <2>4 DEF FlightInv, Alone, Fresh
  <2> QED  BY <2>3, <2>5, SameForward
<1>7. ASSUME NEW r \in Requests, Step(r)
      PROVE  FlightInv' /\ Forward
  <2>1. /\ UNCHANGED <<shipment, call>> /\ pc[r] # "idle" /\ FlightInv
        /\ \A q \in Requests : q # r => pc'[q] = pc[q]
    BY <1>7 DEF Step, Confirming, TypeInv, TypeOK
  <2>2. FlightInv'
    BY <2>1 DEF FlightInv, Alone, Fresh
  <2> QED  BY <2>1, <2>2, SameForward
<1>8. ASSUME NEW r \in Requests, ShowDelivered(r)
      PROVE  FlightInv' /\ Forward
  <2>1. /\ UNCHANGED <<shipment, pc>> /\ pc[r] # "idle" /\ FlightInv
        /\ call[r].op = "confirm" /\ call[r].ship = 0
        /\ call'[r] = [call[r] EXCEPT !.stage = "DELIVERED"]
        /\ \A q \in Requests : q # r => call'[q] = call[q]
    BY <1>8, ShowTypes DEF ShowDelivered, Confirming
  <2>2. call'[r].op = "confirm" /\ call'[r].ship = 0
    <3>1. call[r] \in [op : {"confirm"}, plan : 1..MaxPlans, ship : 0..MaxShipments,
                       stage : Stages \cup {"NONE"}]
      <4>1. call[r] \in Calls
        BY <2>1 DEF TypeInv, CallsInFlight
      <4> QED  BY <2>1, <4>1 DEF Calls
    <3> QED  BY <2>1, <3>1
  <2>3. FlightInv'
    BY <2>1, <2>2 DEF FlightInv, Alone, Fresh
  <2> QED  BY <2>1, <2>3, SameForward
<1>9. CASE \/ \E l \in Lines : ReceiveGoods(l) \/ TakeBackGoods(l)
           \/ \E status \in Elsewhere : WriteDisplayElsewhere(status)
  <2>1. UNCHANGED <<shipment, pc, call>> /\ races = 0
    BY <1>9 DEF ReceiveGoods, TakeBackGoods, WriteDisplayElsewhere, CountRace, TypeInv, TypeOK
  <2>2. FlightInv'
    BY <2>1 DEF FlightInv, Alone, Fresh
  <2> QED  BY <2>1, <2>2, SameForward
<1>10. CASE UNCHANGED vars
  <2>1. FlightInv'
    BY <1>10 DEF vars, FlightInv, Alone, Fresh
  <2> QED  BY <1>10, <2>1, SameForward DEF vars
<1> QED  BY <1>1, <1>2, <1>3, <1>4, <1>5, <1>6, <1>7, <1>8, <1>9, <1>10 DEF Next, Progress

\* With one request at a time no shipment goes back to an earlier stage, or leaves an
\* issue, whether it is moved by hand or by a confirmation.
THEOREM StagesMoveForward == Spec => ShipmentsMoveForward
<1>1. Init => SerialInv
  BY InitTypes DEF Init, SerialInv, FlightInv, Alone
<1>2. SerialInv /\ [Next]_vars => SerialInv'
  BY StepSerial
<1>3. SerialInv /\ [Next]_vars =>
        [races' = 0 => \A s \in ShipmentIds :
            StageRank(shipment[s].status) <= StageRank(shipment'[s].status)]_vars
  BY StepSerial DEF Forward
<1> QED  BY <1>1, <1>2, <1>3, PTL DEF Spec, ShipmentsMoveForward

-----------------------------------------------------------------------------
(* One request at a time: what the shipments of an order hold.              *)

\* What a shipment of this table holds of a line.
Weight(tbl, l) ==
    [s \in ShipmentIds |-> IF tbl[s].status \in {"ABSENT", "ISSUE"} THEN 0 ELSE tbl[s].qty[l]]

HeldIn(tbl, l) == Sum(Weight(tbl, l), ShipmentIds)

LEMMA IdsAreFinite == IsFiniteSet(ShipmentIds)
BY BoundsAssumption, FS_Interval DEF ShipmentIds

LEMMA WeightType ==
    ASSUME NEW tbl \in [ShipmentIds -> Shipment], NEW l \in Lines
    PROVE  /\ \A s \in ShipmentIds : Weight(tbl, l)[s] \in Nat
           /\ HeldIn(tbl, l) \in Int /\ HeldIn(tbl, l) >= 0
<1>1. \A s \in ShipmentIds : Weight(tbl, l)[s] \in Nat
  <2> SUFFICES ASSUME NEW s \in ShipmentIds
               PROVE  Weight(tbl, l)[s] \in Nat
    OBVIOUS
  <2>1. tbl[s].qty \in Quantities
    BY DEF Shipment
  <2>2. tbl[s].qty[l] \in Nat
    BY <2>1, BoundsAssumption DEF Quantities
  <2> QED  BY <2>2 DEF Weight
<1>2. \A s \in ShipmentIds : Weight(tbl, l)[s] \in Int
  BY <1>1
<1>3. HeldIn(tbl, l) \in Int
  BY <1>2, IdsAreFinite, SumIsInteger DEF HeldIn
<1>4. HeldIn(tbl, l) >= 0
  <2> DEFINE w == Weight(tbl, l)
             none == [s \in ShipmentIds |-> 0]
  <2>1. \A s \in ShipmentIds : none[s] = 0
    OBVIOUS
  <2>2. \A s \in ShipmentIds : none[s] \in Int /\ w[s] \in Int /\ none[s] <= w[s]
    <3> HIDE DEF none
    <3> QED  BY <1>1, <2>1
  <2> HIDE DEF w, none
  <2>3. Sum(none, ShipmentIds) = 0 /\ Sum(none, ShipmentIds) <= Sum(w, ShipmentIds)
    BY <2>1, <2>2, IdsAreFinite, SumOfZeros, SumIsMonotonic
  <2>4. HeldIn(tbl, l) = Sum(w, ShipmentIds)
    BY DEF HeldIn, w
  <2> QED  BY <1>3, <2>3, <2>4
<1> QED  BY <1>1, <1>3, <1>4

\* computeShipmentPlanLines sums the weights.
LEMMA ReservedIsHeld ==
    ASSUME NEW l \in Lines
    PROVE  Reserved(l) = HeldIn(shipment, l)
<1> DEFINE w == Weight(shipment, l)
           body(iter) ==
             [T \in SUBSET ShipmentIds |->
                IF T = {} THEN 0
                ELSE (IF shipment[CHOOSE x \in T : TRUE].status \in {"ABSENT", "ISSUE"} THEN 0
                      ELSE shipment[CHOOSE x \in T : TRUE].qty[l])
                     + iter[T \ {CHOOSE x \in T : TRUE}]]
           h == CHOOSE iter : iter = body(iter)
<1>1. ASSUME NEW f
      PROVE  f = body(f) <=> Adds(f, w, ShipmentIds)
  <2>1. ASSUME NEW T \in SUBSET ShipmentIds, T # {}
        PROVE  w[First(T)] = IF shipment[CHOOSE x \in T : TRUE].status \in {"ABSENT", "ISSUE"}
                             THEN 0 ELSE shipment[CHOOSE x \in T : TRUE].qty[l]
    <3>1. First(T) \in ShipmentIds
      BY <2>1, FirstIsElement
    <3> QED  BY <3>1 DEF Weight, First
  <2> DEFINE sums == [T \in SUBSET ShipmentIds |-> IF T = {} THEN 0 ELSE w[First(T)] + f[T \ {First(T)}]]
  <2>2. body(f) = sums
    <3> HIDE DEF w
    <3> QED  BY <2>1 DEF First
  <2>3. Adds(f, w, ShipmentIds) <=> f = sums
    <3> HIDE DEF w
    <3> QED  BY DEF Adds
  <2> HIDE DEF body, sums
  <2> QED  BY <2>2, <2>3
<1>2. \E f : f = body(f)
  <2> HIDE DEF w, body
  <2> QED  BY <1>1, IdsAreFinite, AddsExists
<1>3. h = body(h)
  <2> HIDE DEF body
  <2> QED  BY <1>2
<1>4. Reserved(l) = h[ShipmentIds]
  BY DEF Reserved, MapThenSumSet, MapThenFoldSet
<1>5. Adds(h, w, ShipmentIds)
  <2> HIDE DEF w, h, body
  <2> QED  BY <1>1, <1>3
<1> QED
  <2> HIDE DEF w, h
  <2>1. Sum(w, ShipmentIds) = h[ShipmentIds]
    BY <1>5, IdsAreFinite, SumIsWhatAdds
  <2> QED  BY <1>4, <2>1 DEF HeldIn, w

\* ... and so does the invariant, over the shipments that hold something.
LEMMA HeldIsHeld ==
    ASSUME TypeOK, NEW l \in Lines
    PROVE  Held(l) = HeldIn(shipment, l)
<1> DEFINE Good == {s \in ShipmentIds : shipment[s].status \notin {"ABSENT", "ISSUE"}}
           w == Weight(shipment, l)
           body(iter) ==
             [T \in SUBSET Good |->
                IF T = {} THEN 0
                ELSE shipment[CHOOSE x \in T : TRUE].qty[l] + iter[T \ {CHOOSE x \in T : TRUE}]]
           h == CHOOSE iter : iter = body(iter)
<1>1. ASSUME NEW f
      PROVE  f = body(f) <=> Adds(f, w, Good)
  <2>1. ASSUME NEW T \in SUBSET Good, T # {}
        PROVE  w[First(T)] = shipment[CHOOSE x \in T : TRUE].qty[l]
    <3>1. First(T) \in Good
      BY <2>1, FirstIsElement
    <3> QED  BY <3>1 DEF Weight, First
  <2> DEFINE sums == [T \in SUBSET Good |-> IF T = {} THEN 0 ELSE w[First(T)] + f[T \ {First(T)}]]
  <2>2. body(f) = sums
    <3> HIDE DEF w, Good
    <3> QED  BY <2>1 DEF First
  <2>3. Adds(f, w, Good) <=> f = sums
    <3> HIDE DEF w, Good
    <3> QED  BY DEF Adds
  <2> HIDE DEF body, sums, Good
  <2> QED  BY <2>2, <2>3
<1>2. Good \subseteq ShipmentIds /\ IsFiniteSet(Good)
  <2>1. Good \subseteq ShipmentIds
    OBVIOUS
  <2> HIDE DEF Good
  <2> QED  BY <2>1, IdsAreFinite, FS_Subset
<1>3. \E f : f = body(f)
  <2> HIDE DEF w, body, Good
  <2> QED  BY <1>1, <1>2, AddsExists
<1>4. h = body(h)
  <2> HIDE DEF body
  <2> QED  BY <1>3
<1>5. Held(l) = h[Good]
  BY DEF Held, MapThenSumSet, MapThenFoldSet
<1>6. Sum(w, Good) = h[Good]
  <2> HIDE DEF w, h, body, Good
  <2> QED  BY <1>1, <1>2, <1>4, SumIsWhatAdds
<1>7. \A s \in ShipmentIds : w[s] \in Int
  BY WeightType DEF TypeOK
<1>8. \A s \in ShipmentIds \ Good : w[s] = 0
  BY DEF Weight
<1>9. Sum(w, Good) = Sum(w, ShipmentIds)
  <2> HIDE DEF w, Good
  <2> QED  BY <1>2, <1>7, <1>8, IdsAreFinite, SumWithoutZeros
<1> QED  BY <1>5, <1>6, <1>9 DEF HeldIn

LEMMA GreaterOfTwo ==
    ASSUME NEW a \in Int, NEW b \in Int
    PROVE  /\ Max({a, b}) \in {a, b} /\ Max({a, b}) >= a /\ Max({a, b}) >= b
           /\ Min({a, b}) \in {a, b} /\ Min({a, b}) <= a /\ Min({a, b}) <= b
<1>1. \E m \in {a, b} : \A n \in {a, b} : m >= n
  OBVIOUS
<1>2. \E m \in {a, b} : \A n \in {a, b} : m <= n
  OBVIOUS
<1> QED  BY <1>1, <1>2 DEF Max, Min

\* What a line's shipments rest on tells how much of it may be held.
Backs(rests, held, came) ==
    /\ rests = "counted" => held <= came
    /\ rests = "seen" /\ held > 0 => came > 0

\* A shipment that is created finds room for what it takes.
HasRoom(c) ==
    c.op = "create" =>
        \A l \in Lines :
            c.qty[l] > 0 => /\ c.qty[l] + HeldIn(shipment, l) <= Ordered
                            /\ Backs(c.rest, c.qty[l] + HeldIn(shipment, l), received[l])

StockInv ==
    /\ \A l \in Lines : /\ HeldIn(shipment, l) <= Ordered
                        /\ Backs(basis[l], HeldIn(shipment, l), received[l])
    /\ \A r \in Requests : pc[r] # "idle" => HasRoom(call[r])

GoodsInv == SerialInv /\ (races = 0 => StockInv)

\* What was checked for a part, and for all that is held with it, holds for the weaker.
LEMMA WeakerBacks ==
    ASSUME NEW a \in Bases, NEW b \in Bases, NEW held \in Nat, NEW qty \in Nat, qty > 0,
           NEW came \in Nat, Backs(a, held, came), Backs(b, qty + held, came)
    PROVE  Backs(Weaker(a, b), qty + held, came)
BY DEF Backs, Weaker, Bases

\* What the checks of a new shipment say.
LEMMA RoomIsChecked ==
    ASSUME TypeInv, StockInv, NEW r \in Requests, NEW qty \in Quantities, NEW rest \in Bases,
           StartCreate(r, qty, rest), NEW l \in Lines, qty[l] > 0
    PROVE  /\ qty[l] + HeldIn(shipment, l) <= Ordered
           /\ Backs(rest, qty[l] + HeldIn(shipment, l), received[l])
<1> DEFINE held == HeldIn(shipment, l)
<1>1. /\ held \in Int /\ received[l] \in Nat /\ qty[l] \in Nat /\ Ordered \in Nat
      /\ held <= Ordered
  BY WeightType, BoundsAssumption DEF TypeInv, TypeOK, Quantities, StockInv
<1>2. Reserved(l) = held
  BY ReservedIsHeld
<1> HIDE DEF held
<1>3. Remaining(l) = Ordered - held
  <2> DEFINE n == Ordered - held
  <2>1. n \in Int /\ n >= 0
    BY <1>1
  <2>2. Remaining(l) = Max({0, n})
    BY <1>2 DEF Remaining
  <2> HIDE DEF n
  <2>3. Max({0, n}) \in {0, n} /\ Max({0, n}) >= n
    BY <2>1, GreaterOfTwo
  <2>4. Max({0, n}) = n
    BY <2>1, <2>3
  <2> QED  BY <2>2, <2>4 DEF n
<1>4. CASE MaySelect(qty, rest)
  <2>1. qty[l] <= Remaining(l) /\ (rest = "nothing" \/ (rest = "counted" /\ qty[l] <= Shippable(l)))
    BY <1>4 DEF MaySelect
  <2>2. ASSUME qty[l] <= Shippable(l)
        PROVE  qty[l] <= received[l] - held
    <3> DEFINE n == received[l] - held
               left == Max({0, n})
               room == Ordered - held
    <3>1. n \in Int /\ room \in Int
      BY <1>1
    <3>2. Shippable(l) = Min({room, left})
      BY <1>2, <1>3 DEF Shippable
    <3> HIDE DEF n, room
    <3>3. left \in {0, n}
      <4> HIDE DEF left
      <4>1. left = Max({0, n})
        BY DEF left
      <4>2. Max({0, n}) \in {0, n} /\ Max({0, n}) >= n
        <5>1. n \in Int
          BY <3>1
        <5> QED  BY <5>1, GreaterOfTwo
      <4> QED  BY <4>1, <4>2
    <3>4. left \in Int
      BY <3>1, <3>3
    <3> HIDE DEF left
    <3>5. Min({room, left}) \in {room, left} /\ Min({room, left}) <= left
      BY <3>1, <3>4, GreaterOfTwo
    <3>6. qty[l] <= left
      BY <1>1, <2>2, <3>1, <3>2, <3>4, <3>5
    <3> QED  BY <1>1, <3>3, <3>6 DEF n
  <2>3. qty[l] + held <= Ordered /\ (rest = "nothing" \/ (rest = "counted" /\ qty[l] + held <= received[l]))
    BY <1>1, <1>3, <2>1, <2>2
  <2> QED  BY <2>3 DEF Backs, held
<1>5. CASE MayTakeAll(qty, rest)
  <2>1. qty[l] = Remaining(l) /\ (rest = "nothing" \/ (rest = "seen" /\ received[l] > 0))
    BY <1>5 DEF MayTakeAll
  <2>2. qty[l] + held <= Ordered
    BY <1>1, <1>3, <2>1
  <2> QED  BY <2>1, <2>2 DEF Backs, held
<1> QED  BY <1>4, <1>5 DEF StartCreate

\* Only a creation takes goods.
LEMMA OthersTakeNothing ==
    ASSUME TypeInv, NEW r \in Requests, Start(r)
    PROVE  \/ \E qty \in Quantities, rest \in Bases : StartCreate(r, qty, rest)
           \/ call'[r].op # "create"
BY DEF Start, StartPatch, StartSave, StartGroup, StartQueue, StartConfirm, StartDecide,
       StartRevert, StartDelete, Accept, TypeInv, TypeOK

\* A step that takes no goods, and no goods back, leaves the stock in order.
LEMMA StockStays ==
    ASSUME TypeInv, TypeInv', StockInv, basis' = basis,
           \A l \in Lines : /\ HeldIn(shipment', l) <= HeldIn(shipment, l)
                            /\ received[l] <= received'[l],
           \A r \in Requests :
              pc'[r] # "idle" /\ call'[r].op = "create" =>
                 call'[r] = call[r] /\ pc[r] # "idle"
    PROVE  StockInv'
<1>1. \A l \in Lines :
         /\ HeldIn(shipment, l) \in Int /\ HeldIn(shipment', l) \in Int
         /\ received[l] \in Nat /\ received'[l] \in Nat /\ Ordered \in Nat
  BY WeightType, BoundsAssumption DEF TypeInv, TypeOK, Quantities
<1>2. ASSUME NEW rest, NEW qty \in Nat, NEW l \in Lines,
             Backs(rest, qty + HeldIn(shipment, l), received[l])
      PROVE  Backs(rest, qty + HeldIn(shipment', l), received'[l])
  BY <1>1, <1>2 DEF Backs
<1>3. ASSUME NEW r \in Requests, pc'[r] # "idle", call'[r].op = "create", NEW l \in Lines,
             call'[r].qty[l] > 0
      PROVE  /\ call'[r].qty[l] + HeldIn(shipment', l) <= Ordered
             /\ Backs(call'[r].rest, call'[r].qty[l] + HeldIn(shipment', l), received'[l])
  <2>1. call'[r] = call[r] /\ pc[r] # "idle" /\ call[r].op = "create"
    BY <1>3
  <2>2. call[r].qty \in Quantities
    BY <2>1 DEF TypeInv, CallsInFlight, Calls
  <2>3. call[r].qty[l] \in Nat
    BY <2>2, BoundsAssumption DEF Quantities
  <2>4. /\ call[r].qty[l] + HeldIn(shipment, l) <= Ordered
        /\ Backs(call[r].rest, call[r].qty[l] + HeldIn(shipment, l), received[l])
    BY <1>3, <2>1 DEF StockInv, HasRoom
  <2>5. Backs(call[r].rest, call[r].qty[l] + HeldIn(shipment', l), received'[l])
    BY <1>2, <2>3, <2>4
  <2>6. call[r].qty[l] + HeldIn(shipment', l) <= Ordered
    BY <1>1, <2>3, <2>4
  <2> QED  BY <2>1, <2>5, <2>6
<1>4. \A l \in Lines : /\ HeldIn(shipment', l) <= Ordered
                       /\ Backs(basis'[l], HeldIn(shipment', l), received'[l])
  BY <1>1 DEF StockInv, Backs
<1> QED  BY <1>3, <1>4 DEF StockInv, HasRoom

LEMMA SameStock ==
    ASSUME TypeInv, TypeInv', StockInv, UNCHANGED <<shipment, received, basis>>,
           \A r \in Requests :
              pc'[r] # "idle" /\ call'[r].op = "create" =>
                 call'[r] = call[r] /\ pc[r] # "idle"
    PROVE  StockInv'
<1>1. \A l \in Lines : /\ HeldIn(shipment', l) <= HeldIn(shipment, l)
                       /\ received[l] <= received'[l]
  BY WeightType DEF TypeInv, TypeOK, Quantities
<1> QED  BY <1>1, StockStays

\* Goods that are taken back while nobody creates a shipment: a line with shipments
\* rests on nothing, another one has nothing to rest.
LEMMA TakenBack ==
    ASSUME TypeInv, StockInv, NEW k \in Lines, TakeBackGoods(k), ~Busy
    PROVE  StockInv'
<1>1. UNCHANGED <<shipment, pc, call>> /\ \A r \in Requests : pc'[r] = "idle"
  BY DEF TakeBackGoods, Busy
<1>2. /\ received'[k] = 0
      /\ basis'[k] = IF Reserved(k) > 0 THEN "nothing" ELSE basis[k]
      /\ \A l \in Lines : l # k => received'[l] = received[l] /\ basis'[l] = basis[l]
  BY DEF TakeBackGoods, TypeInv, TypeOK, Quantities
<1>3. HeldIn(shipment, k) \in Int /\ HeldIn(shipment, k) >= 0 /\ Reserved(k) = HeldIn(shipment, k)
  BY WeightType, ReservedIsHeld DEF TypeInv, TypeOK
<1>4. Backs(basis'[k], HeldIn(shipment, k), received'[k])
  BY <1>2, <1>3 DEF Backs
<1>5. \A l \in Lines : /\ HeldIn(shipment', l) <= Ordered
                       /\ Backs(basis'[l], HeldIn(shipment', l), received'[l])
  BY <1>1, <1>2, <1>4 DEF StockInv
<1> QED  BY <1>1, <1>5 DEF StockInv

\* Moving a shipment on takes no goods; an issue gives them back.
LEMMA MoveFrees ==
    ASSUME TypeInv, NEW s \in ShipmentIds, NEW to \in Stages, MoveShipment(s, to),
           shipment[s].status \notin {"ABSENT", "ISSUE"}, NEW l \in Lines
    PROVE  HeldIn(shipment', l) <= HeldIn(shipment, l)
<1>1. shipment \in [ShipmentIds -> Shipment] /\ shipment' \in [ShipmentIds -> Shipment]
  BY MoveTypes DEF TypeInv, TypeOK
<1>2. shipment'[s].qty = shipment[s].qty /\ \A o \in ShipmentIds : o # s => shipment'[o] = shipment[o]
  BY <1>1 DEF MoveShipment, Shipment
<1> DEFINE g == Weight(shipment', l)
           h == Weight(shipment, l)
<1>3. \A o \in ShipmentIds : g[o] \in Nat /\ h[o] \in Nat
  BY <1>1, WeightType
<1>4. ASSUME NEW o \in ShipmentIds
      PROVE  g[o] <= h[o]
  <2>1. CASE o = s
    <3>1. h[s] = shipment[s].qty[l] /\ (g[s] = 0 \/ g[s] = shipment[s].qty[l])
      BY <1>2 DEF Weight
    <3> HIDE DEF g, h
    <3> QED  BY <1>3, <2>1, <3>1
  <2>2. CASE o # s
    <3>1. g[o] = h[o]
      BY <1>2, <2>2 DEF Weight
    <3> HIDE DEF g, h
    <3> QED  BY <1>3, <3>1
  <2> QED  BY <2>1, <2>2
<1>5. \A o \in ShipmentIds : g[o] \in Int /\ h[o] \in Int /\ g[o] <= h[o]
  <2> HIDE DEF g, h
  <2> QED  BY <1>3, <1>4
<1>6. Sum(g, ShipmentIds) <= Sum(h, ShipmentIds)
  <2> HIDE DEF g, h
  <2> QED  BY <1>5, IdsAreFinite, SumIsMonotonic
<1> QED  BY <1>6 DEF HeldIn

\* A new shipment takes what it holds.
LEMMA CreateTakes ==
    ASSUME TypeInv, NEW s \in ShipmentIds, NEW qty \in Quantities,
           shipment[s].status = "ABSENT",
           shipment' = [shipment EXCEPT ![s] = [status |-> "PLANNED", qty |-> qty]],
           NEW l \in Lines
    PROVE  HeldIn(shipment', l) = qty[l] + HeldIn(shipment, l)
<1>1. shipment \in [ShipmentIds -> Shipment] /\ shipment' \in [ShipmentIds -> Shipment]
  BY DEF TypeInv, TypeOK, Shipment, Stages
<1> DEFINE g == Weight(shipment, l)
           h == Weight(shipment', l)
<1>2. \A o \in ShipmentIds : g[o] \in Nat /\ h[o] \in Nat
  BY <1>1, WeightType
<1>3. g[s] = 0 /\ h[s] = qty[l]
  BY <1>1 DEF Weight
<1>4. \A o \in ShipmentIds \ {s} : g[o] = h[o]
  BY <1>1 DEF Weight
<1>5. Sum(g, ShipmentIds) \in Int
  BY <1>1, WeightType DEF HeldIn
<1>6. Sum(h, ShipmentIds) = Sum(g, ShipmentIds) - g[s] + h[s]
  <2> HIDE DEF g, h
  <2>1. \A o \in ShipmentIds : g[o] \in Int /\ h[o] \in Int
    BY <1>2
  <2>2. \A x \in ShipmentIds :
          (\A o \in ShipmentIds \ {x} : g[o] = h[o])
             => Sum(h, ShipmentIds) = Sum(g, ShipmentIds) - g[x] + h[x]
    BY <2>1, IdsAreFinite, SumUpdate
  <2> QED  BY <1>4, <2>2
<1>7. HeldIn(shipment, l) = Sum(g, ShipmentIds) /\ HeldIn(shipment', l) = Sum(h, ShipmentIds)
  BY DEF HeldIn
<1>8. qty[l] \in Int
  BY BoundsAssumption DEF Quantities
<1> HIDE DEF g, h
<1> QED  BY <1>3, <1>5, <1>6, <1>7, <1>8

LEMMA StepGoods == GoodsInv /\ [Next]_vars => GoodsInv'
<1> SUFFICES ASSUME GoodsInv, [Next]_vars, races' = 0
             PROVE  StockInv'
  BY StepSerial DEF GoodsInv
<1>1. TypeInv /\ TypeInv' /\ SerialInv /\ SerialInv'
  BY StepSerial DEF GoodsInv, SerialInv
<1>2. ASSUME NEW r \in Requests, Start(r)
      PROVE  StockInv'
  <2>1. PICK c \in Calls : Accept(r, c) /\ Fresh(c)
    BY <1>1, <1>2, StartAccepts
  <2>2. ~Busy /\ races = 0
    BY <1>1, <2>1 DEF Accept, CountRace, TypeInv, TypeOK
  <2>3. StockInv
    BY <2>2 DEF GoodsInv
  <2>4. UNCHANGED <<shipment, received, basis>>
    BY <2>1 DEF Accept
  <2>5. \A q \in Requests : q # r => pc'[q] = "idle"
    BY <1>1, <2>1, <2>2 DEF Accept, Busy, TypeInv, TypeOK
  <2>6. CASE call'[r].op # "create"
    BY <1>1, <2>3, <2>4, <2>5, <2>6, SameStock
  <2>7. ASSUME NEW qty \in Quantities, NEW rest \in Bases, StartCreate(r, qty, rest)
        PROVE  StockInv'
    <3>1. /\ call'[r].qty = qty /\ call'[r].rest = rest
      BY <1>1, <2>7 DEF StartCreate, Accept, TypeInv, TypeOK
    <3>2. \A l \in Lines :
             qty[l] > 0 => /\ qty[l] + HeldIn(shipment, l) <= Ordered
                           /\ Backs(rest, qty[l] + HeldIn(shipment, l), received[l])
      BY <1>1, <2>3, <2>7, RoomIsChecked
    <3>3. HasRoom(call[r])'
      BY <2>4, <3>1, <3>2 DEF HasRoom
    <3>4. \A l \in Lines : /\ HeldIn(shipment', l) <= Ordered
                           /\ Backs(basis'[l], HeldIn(shipment', l), received'[l])
      BY <2>3, <2>4 DEF StockInv
    <3> QED  BY <2>5, <3>3, <3>4 DEF StockInv
  <2> QED  BY <1>1, <1>2, <2>6, <2>7, OthersTakeNothing
<1>3. ASSUME NEW r \in Requests,
             \/ CommitSave(r) \/ CommitGroup(r) \/ CommitDecision(r) \/ ClosePlan(r)
             \/ Refuse(r) \/ Abort(r)
      PROVE  StockInv'
  <2>1. Finish(r) /\ UNCHANGED <<shipment, received, basis>>
    BY <1>3 DEF CommitSave, CommitGroup, CommitDecision, ClosePlan, Refuse, Abort
  <2>2. /\ StockInv /\ pc'[r] = "idle"
        /\ \A q \in Requests : q # r => pc'[q] = pc[q] /\ call'[q] = call[q]
    BY <1>1, <2>1, FinishFacts DEF GoodsInv
  <2> QED  BY <1>1, <2>1, <2>2, SameStock
<1>4. ASSUME NEW r \in Requests, CommitCreate(r)
      PROVE  StockInv'
  <2> DEFINE c == call[r]
  <2>1. Finish(r) /\ pc[r] # "idle" /\ c.op = "create" /\ races = 0
    BY <1>4 DEF CommitCreate, Finish
  <2>2. StockInv /\ FlightInv
    BY <2>1 DEF GoodsInv, SerialInv
  <2>3. /\ c.id \in ShipmentIds /\ c.qty \in Quantities /\ c.rest \in Bases
        /\ shipment[c.id].status = "ABSENT" /\ HasRoom(c)
    BY <1>1, <2>1, <2>2 DEF TypeInv, CallsInFlight, Calls, FlightInv, Fresh, StockInv
  <2>4. /\ shipment' = [shipment EXCEPT ![c.id] = [status |-> "PLANNED", qty |-> c.qty]]
        /\ basis' = [l \in Lines |-> IF c.qty[l] > 0 THEN Weaker(basis[l], c.rest) ELSE basis[l]]
        /\ received' = received
    BY <1>4 DEF CommitCreate
  <2>5. \A l \in Lines : HeldIn(shipment', l) = c.qty[l] + HeldIn(shipment, l)
    <3> HIDE DEF c
    <3> QED  BY <1>1, <2>3, <2>4, CreateTakes
  <2>6. \A q \in Requests : pc'[q] = "idle"
    BY <1>1, <2>1, <2>2, FinishFacts DEF FlightInv, Alone
  <2>7. ASSUME NEW l \in Lines
        PROVE  /\ HeldIn(shipment', l) <= Ordered
               /\ Backs(basis'[l], HeldIn(shipment', l), received'[l])
    <3> DEFINE held == HeldIn(shipment, l)
    <3>1. /\ held \in Nat /\ c.qty[l] \in Nat /\ received[l] \in Nat /\ basis[l] \in Bases
          /\ held <= Ordered /\ Backs(basis[l], held, received[l])
      BY <1>1, <2>2, <2>3, WeightType, BoundsAssumption DEF TypeInv, TypeOK, Quantities, StockInv
    <3>2. HeldIn(shipment', l) = c.qty[l] + held /\ received'[l] = received[l]
      BY <2>4, <2>5
    <3> HIDE DEF held, c
    <3>3. CASE c.qty[l] = 0
      <4>1. c.qty[l] + held = held /\ basis'[l] = basis[l]
        BY <2>4, <3>1, <3>3
      <4> QED  BY <3>1, <3>2, <4>1
    <3>4. CASE c.qty[l] > 0
      <4>1. /\ c.qty[l] + held <= Ordered /\ Backs(c.rest, c.qty[l] + held, received[l])
            /\ basis'[l] = Weaker(basis[l], c.rest)
        BY <2>1, <2>3, <2>4, <3>4 DEF HasRoom, held
      <4> QED  BY <2>3, <3>1, <3>2, <3>4, <4>1, WeakerBacks
    <3> QED  BY <3>1, <3>3, <3>4
  <2> QED  BY <2>6, <2>7 DEF StockInv
<1>5. ASSUME NEW r \in Requests, CommitPatch(r)
      PROVE  StockInv'
  <2> DEFINE s  == call[r].ship
             to == call[r].to
  <2>1. Finish(r) /\ pc[r] # "idle" /\ call[r].op = "patch" /\ MoveShipment(s, to) /\ races = 0
    BY <1>5 DEF CommitPatch, Finish
  <2>2. StockInv /\ FlightInv
    BY <2>1 DEF GoodsInv, SerialInv
  <2>3. s \in ShipmentIds /\ to \in Stages /\ MayMove(shipment[s].status, to)
    BY <1>1, <2>1, <2>2 DEF TypeInv, CallsInFlight, Calls, FlightInv, Fresh
  <2>4. shipment[s].status \notin {"ABSENT", "ISSUE"}
    BY <2>3, NextFacts DEF MayMove, NextStage, Stages
  <2> HIDE DEF s, to
  <2>5. \A l \in Lines : HeldIn(shipment', l) <= HeldIn(shipment, l)
    BY <1>1, <2>1, <2>3, <2>4, MoveFrees
  <2>6. received' = received /\ basis' = basis
    BY <2>1 DEF MoveShipment
  <2>7. \A l \in Lines : received[l] <= received'[l]
    BY <1>1, <2>6, BoundsAssumption DEF TypeInv, TypeOK, Quantities
  <2>8. pc'[r] = "idle" /\ \A q \in Requests : q # r => pc'[q] = pc[q] /\ call'[q] = call[q]
    BY <1>1, <2>1, FinishFacts
  <2> QED  BY <1>1, <2>2, <2>5, <2>6, <2>7, <2>8, StockStays
<1>6. ASSUME NEW r \in Requests, CommitStep(r)
      PROVE  StockInv'
  <2> DEFINE s  == call[r].ship
             to == NextStage(call[r].stage)
  <2>1. /\ s \in ShipmentIds /\ to \in Stages /\ to # "NONE" /\ call[r].op = "confirm"
        /\ MoveShipment(s, to) /\ pc[r] # "idle" /\ races = 0
        /\ call'[r] = [call[r] EXCEPT !.stage = to]
        /\ \A q \in Requests : q # r => pc'[q] = pc[q] /\ call'[q] = call[q]
    BY <1>1, <1>6, CommitStepTypes DEF CommitStep
  <2>2. StockInv /\ FlightInv
    BY <2>1 DEF GoodsInv, SerialInv
  <2>3. shipment[s].status = call[r].stage
    BY <2>1, <2>2, BoundsAssumption DEF ShipmentIds, FlightInv, Fresh
  <2>4. shipment[s].status \notin {"ABSENT", "ISSUE"}
    BY <2>1, <2>3, NextFacts DEF NextStage
  <2>5. call'[r].op # "create"
    <3>1. call[r] \in Calls /\ call[r].op = "confirm"
      BY <1>1, <2>1 DEF TypeInv, CallsInFlight
    <3>2. call[r] \in [op : {"confirm"}, plan : 1..MaxPlans, ship : 0..MaxShipments,
                       stage : Stages \cup {"NONE"}]
      BY <3>1 DEF Calls
    <3> QED  BY <2>1, <3>2
  <2> HIDE DEF s, to
  <2>6. \A l \in Lines : HeldIn(shipment', l) <= HeldIn(shipment, l)
    BY <1>1, <2>1, <2>4, MoveFrees
  <2>7. received' = received /\ basis' = basis
    BY <2>1 DEF MoveShipment
  <2>8. \A l \in Lines : received[l] <= received'[l]
    BY <1>1, <2>7, BoundsAssumption DEF TypeInv, TypeOK, Quantities
  <2> QED  BY <1>1, <2>1, <2>2, <2>5, <2>6, <2>7, <2>8, StockStays
<1>7. ASSUME NEW r \in Requests, Write(r) \/ ShowDelivered(r)
      PROVE  StockInv'
  <2>1. UNCHANGED <<shipment, received, basis, races>> /\ pc[r] # "idle"
    BY <1>7 DEF Write, ShowDelivered, Confirming
  <2>2. /\ StockInv
        /\ \A q \in Requests : q # r => pc'[q] = pc[q] /\ call'[q] = call[q]
    BY <1>1, <1>7, <2>1 DEF GoodsInv, Write, ShowDelivered, TypeInv, TypeOK
  <2>3. call'[r].op # "create"
    <3>1. CASE Write(r)
      <4>1. call[r] \in [op : {"save"}, plan : 0..MaxPlans, to : PlanStatuses, show : BOOLEAN]
        BY <1>1, <3>1 DEF Write, TypeInv, CallsInFlight, Calls
      <4>2. call'[r] = [call[r] EXCEPT !.show = (display # "DELIVERED")]
        BY <1>1, <3>1 DEF Write, TypeInv, TypeOK
      <4> QED  BY <4>1, <4>2
    <3>2. CASE ShowDelivered(r)
      <4>1. call[r] \in [op : {"confirm"}, plan : 1..MaxPlans, ship : 0..MaxShipments,
                         stage : Stages \cup {"NONE"}]
        BY <1>1, <3>2, ConfirmFacts, <2>1 DEF ShowDelivered, Confirming, TypeInv, CallsInFlight, Calls
      <4>2. call'[r] = [call[r] EXCEPT !.stage = "DELIVERED"]
        BY <1>1, <3>2, ShowTypes
      <4> QED  BY <4>1, <4>2
    <3> QED  BY <1>7, <3>1, <3>2
  <2> QED  BY <1>1, <2>1, <2>2, <2>3, SameStock
<1>8. ASSUME NEW r \in Requests, Step(r)
      PROVE  StockInv'
  <2>1. /\ UNCHANGED <<shipment, received, basis, races, call>> /\ pc[r] # "idle"
        /\ \A q \in Requests : q # r => pc'[q] = pc[q]
    BY <1>1, <1>8 DEF Step, Confirming, TypeInv, TypeOK
  <2>2. StockInv
    BY <2>1 DEF GoodsInv
  <2> QED  BY <1>1, <2>1, <2>2, SameStock
<1>9. ASSUME NEW k \in Lines, ReceiveGoods(k)
      PROVE  StockInv'
  <2>1. UNCHANGED <<shipment, basis, pc, call>> /\ races = 0
    BY <1>1, <1>9 DEF ReceiveGoods, CountRace, TypeInv, TypeOK
  <2>2. \A l \in Lines : HeldIn(shipment', l) <= HeldIn(shipment, l)
    BY <1>1, <2>1, WeightType DEF TypeInv, TypeOK
  <2>3. \A l \in Lines : received[l] <= received'[l]
    BY <1>1, <1>9, BoundsAssumption DEF ReceiveGoods, TypeInv, TypeOK, Quantities
  <2>4. StockInv
    BY <2>1 DEF GoodsInv
  <2> QED  BY <1>1, <2>1, <2>2, <2>3, <2>4, StockStays
<1>10. ASSUME NEW k \in Lines, TakeBackGoods(k)
       PROVE  StockInv'
  <2>1. ~Busy /\ races = 0
    BY <1>1, <1>10 DEF TakeBackGoods, CountRace, TypeInv, TypeOK
  <2> QED  BY <1>1, <1>10, <2>1, TakenBack DEF GoodsInv
<1>11. CASE (\E status \in Elsewhere : WriteDisplayElsewhere(status)) \/ UNCHANGED vars
  <2>1. UNCHANGED <<shipment, received, basis, pc, call>> /\ races = 0
    BY <1>1, <1>11 DEF WriteDisplayElsewhere, CountRace, vars, TypeInv, TypeOK
  <2>2. StockInv
    BY <2>1 DEF GoodsInv
  <2> QED  BY <1>1, <2>1, <2>2, SameStock
<1> QED  BY <1>2, <1>3, <1>4, <1>5, <1>6, <1>7, <1>8, <1>9, <1>10, <1>11 DEF Next, Progress

LEMMA GoodsInvariant == Spec => []GoodsInv
<1>1. Init => GoodsInv
  <2> SUFFICES ASSUME Init PROVE GoodsInv
    OBVIOUS
  <2>1. TypeInv /\ SerialInv
    BY InitTypes DEF Init, SerialInv, FlightInv, Alone
  <2>2. \A l \in Lines : HeldIn(shipment, l) = 0
    <3> SUFFICES ASSUME NEW l \in Lines PROVE HeldIn(shipment, l) = 0
      OBVIOUS
    <3> DEFINE w == Weight(shipment, l)
    <3>1. \A s \in ShipmentIds : w[s] = 0
      BY DEF Init, NoShipment, Weight
    <3> HIDE DEF w
    <3>2. Sum(w, ShipmentIds) = 0
      BY <3>1, IdsAreFinite, SumOfZeros
    <3> QED  BY <3>2 DEF HeldIn, w
  <2>3. StockInv
    BY <2>2, BoundsAssumption DEF Init, StockInv, Backs, Quantities
  <2> QED  BY <2>1, <2>3 DEF GoodsInv
<1> QED  BY <1>1, StepGoods, PTL DEF Spec

\* As long as no two requests overlap, shipments never promise more of a line than was
\* ordered: what a creation may take is checked against all the other shipments.
THEOREM NothingIsPromisedTwice == Spec => []NeverOverReserved
<1>1. GoodsInv => NeverOverReserved
  BY HeldIsHeld DEF GoodsInv, SerialInv, StockInv, NeverOverReserved, TypeInv
<1> QED  BY <1>1, GoodsInvariant, PTL

\* ... nor more than came in of a line whose shipments were all counted against the
\* goods, and nothing of a line of which nothing came in, unless somebody took the risk
\* or took the goods back from under a shipment.
THEOREM GoodsComeFirst == Spec => []GoodsBeforeShipment
<1>1. GoodsInv => GoodsBeforeShipment
  BY HeldIsHeld DEF GoodsInv, SerialInv, StockInv, Backs, GoodsBeforeShipment, TypeInv
<1> QED  BY <1>1, GoodsInvariant, PTL

-----------------------------------------------------------------------------
(* How far requests that overlap can go.  The invariant gives every          *)
(* shipment its share of a line, enough for what it holds and for what a     *)
(* request in flight may still put into it or bring back with it; together   *)
(* the shares are not more than the order's quantity for every request.      *)

\* The requests about to create a shipment, and those about to move one.
Putting == {q \in Requests : pc[q] = "checked" /\ call[q].op = "create"}
Moving  == {q \in Requests : pc[q] = "moving" \/ (pc[q] = "checked" /\ call[q].op = "patch")}

Covers(w, l) ==
    /\ \A s \in ShipmentIds : Weight(shipment, l)[s] <= w[s]
    /\ \A q \in Putting : call[q].qty[l] <= w[call[q].id]
    /\ \A q \in Moving : shipment[call[q].ship].qty[l] <= w[call[q].ship]

Shares == [ShipmentIds -> Nat]

IsShared(l) ==
    \E w \in Shares : Covers(w, l) /\ Sum(w, ShipmentIds) <= Cardinality(Requests) * Ordered

ShareInv == TypeInv /\ \A l \in Lines : IsShared(l)

\* What the calls in flight are about.
LEMMA InFlightFacts ==
    ASSUME TypeInv
    PROVE  /\ \A q \in Putting : call[q].id \in ShipmentIds /\ call[q].qty \in Quantities
           /\ \A q \in Moving : call[q].ship \in ShipmentIds
<1>1. ASSUME NEW q \in Putting
      PROVE  call[q].id \in ShipmentIds /\ call[q].qty \in Quantities
  <2>1. call[q] \in Calls /\ call[q].op = "create"
    BY <1>1 DEF Putting, TypeInv, CallsInFlight
  <2> QED  BY <2>1 DEF Calls
<1>2. ASSUME NEW q \in Moving
      PROVE  call[q].ship \in ShipmentIds
  <2>1. CASE pc[q] = "moving"
    BY <1>2, <2>1, ConfirmFacts DEF Moving, TypeInv, CallsInFlight
  <2>2. CASE pc[q] = "checked" /\ call[q].op = "patch"
    <3>1. call[q] \in Calls
      BY <1>2, <2>2 DEF Moving, TypeInv, CallsInFlight
    <3> QED  BY <2>2, <3>1 DEF Calls
  <2> QED  BY <1>2, <2>1, <2>2 DEF Moving
<1> QED  BY <1>1, <1>2

\* Shares that cover what a step leads to need not change.
LEMMA SharesStay ==
    ASSUME NEW l \in Lines, IsShared(l), \A w \in Shares : Covers(w, l) => Covers(w, l)'
    PROVE  IsShared(l)'
<1>1. PICK w \in Shares : Covers(w, l) /\ Sum(w, ShipmentIds) <= Cardinality(Requests) * Ordered
  BY DEF IsShared
<1>2. Covers(w, l)'
  BY <1>1
<1> QED  BY <1>1, <1>2 DEF IsShared

\* A step after which r, if it is about to move a shipment at all, is about to move
\* one that holds its goods.
LEMMA QuietStep ==
    ASSUME TypeInv, NEW l \in Lines, IsShared(l), NEW r,
           shipment' = shipment,
           \A q \in Requests : q # r => pc'[q] = pc[q] /\ call'[q] = call[q],
           r \notin Putting',
           r \in Moving' => /\ call'[r].ship \in ShipmentIds
                            /\ shipment[call'[r].ship].status \notin {"ABSENT", "ISSUE"}
    PROVE  IsShared(l)'
<1> SUFFICES ASSUME NEW w \in Shares, Covers(w, l)
             PROVE  Covers(w, l)'
  BY SharesStay
<1>1. \A s \in ShipmentIds : Weight(shipment', l)[s] <= w[s]
  BY DEF Covers
<1>2. \A q \in Putting' : call'[q].qty[l] <= w[call'[q].id]
  BY DEF Covers, Putting
<1>3. ASSUME NEW q \in Moving'
      PROVE  shipment'[call'[q].ship].qty[l] <= w[call'[q].ship]
  <2>1. CASE q = r
    <3>1. Weight(shipment, l)[call'[r].ship] = shipment[call'[r].ship].qty[l]
      BY <1>3, <2>1 DEF Weight
    <3> QED  BY <1>3, <2>1, <3>1 DEF Covers
  <2>2. CASE q # r
    BY <1>3, <2>2 DEF Covers, Moving
  <2> QED  BY <2>1, <2>2
<1> QED  BY <1>1, <1>2, <1>3 DEF Covers

\* A request that ends takes nothing.
LEMMA EndQuiet ==
    ASSUME TypeInv, NEW l \in Lines, IsShared(l), NEW r \in Requests, Finish(r), shipment' = shipment
    PROVE  IsShared(l)'
<1>1. pc'[r] = "idle" /\ \A q \in Requests : q # r => pc'[q] = pc[q] /\ call'[q] = call[q]
  BY FinishFacts
<1>2. r \notin Putting' /\ r \notin Moving'
  BY <1>1 DEF Putting, Moving
<1> QED  BY <1>1, <1>2, QuietStep

\* A shipment that is created holds what its request had a share for.
LEMMA CreateShared ==
    ASSUME TypeInv, NEW l \in Lines, IsShared(l), NEW r \in Requests, CommitCreate(r)
    PROVE  IsShared(l)'
<1> SUFFICES ASSUME NEW w \in Shares, Covers(w, l)
             PROVE  Covers(w, l)'
  BY SharesStay
<1> DEFINE id == call[r].id
           new == [status |-> "PLANNED", qty |-> call[r].qty]
<1>1. r \in Putting
  BY DEF CommitCreate, Putting
<1>2. id \in ShipmentIds /\ new.qty[l] <= w[id]
  BY <1>1, InFlightFacts DEF Covers
<1>3. /\ shipment'[id] = new /\ \A s \in ShipmentIds \ {id} : shipment'[s] = shipment[s]
  BY <1>2 DEF CommitCreate, TypeInv, TypeOK
<1>4. pc'[r] = "idle" /\ \A q \in Requests : q # r => pc'[q] = pc[q] /\ call'[q] = call[q]
  BY FinishFacts DEF CommitCreate
<1>5. ASSUME NEW s \in ShipmentIds
      PROVE  Weight(shipment', l)[s] <= w[s]
  <2>1. CASE s = id
    <3>1. Weight(shipment', l)[id] = new.qty[l]
      BY <1>2, <1>3 DEF Weight
    <3> QED  BY <1>2, <2>1, <3>1
  <2>2. CASE s # id
    <3>1. Weight(shipment', l)[s] = Weight(shipment, l)[s]
      BY <1>3, <2>2 DEF Weight
    <3> QED  BY <3>1 DEF Covers
  <2> QED  BY <2>1, <2>2
<1>6. \A q \in Putting' : call'[q].qty[l] <= w[call'[q].id]
  BY <1>4 DEF Covers, Putting
<1>7. ASSUME NEW q \in Moving'
      PROVE  shipment'[call'[q].ship].qty[l] <= w[call'[q].ship]
  <2>1. q \in Moving /\ call'[q] = call[q]
    BY <1>4, <1>7 DEF Moving
  <2>2. call[q].ship \in ShipmentIds /\ shipment[call[q].ship].qty[l] <= w[call[q].ship]
    BY <2>1, InFlightFacts DEF Covers
  <2> QED  BY <1>2, <1>3, <2>1, <2>2
<1> QED  BY <1>5, <1>6, <1>7 DEF Covers

\* A shipment that is moved, even one that had an issue meanwhile, holds no more
\* than its share.
LEMMA MoveShared ==
    ASSUME TypeInv, NEW l \in Lines, IsShared(l), NEW r \in Moving, NEW to \in Stages,
           MoveShipment(call[r].ship, to),
           \A q \in Requests : q # r => pc'[q] = pc[q] /\ call'[q] = call[q],
           r \notin Putting', r \notin Moving'
    PROVE  IsShared(l)'
<1> SUFFICES ASSUME NEW w \in Shares, Covers(w, l)
             PROVE  Covers(w, l)'
  BY SharesStay
<1> DEFINE id == call[r].ship
<1>1. id \in ShipmentIds /\ shipment[id].qty[l] <= w[id]
  BY InFlightFacts DEF Covers
<1>2. shipment \in [ShipmentIds -> Shipment]
  BY DEF TypeInv, TypeOK
<1>3. \A s \in ShipmentIds : /\ shipment'[s].qty = shipment[s].qty
                             /\ s # id => shipment'[s] = shipment[s]
  BY <1>1, <1>2 DEF MoveShipment, Shipment
<1>4. ASSUME NEW s \in ShipmentIds
      PROVE  Weight(shipment', l)[s] <= w[s]
  <2>1. CASE s = id
    <3>1. Weight(shipment', l)[id] \in {0, shipment[id].qty[l]}
      BY <1>1, <1>3 DEF Weight
    <3>2. w[id] \in Nat
      BY <1>1 DEF Shares
    <3> QED  BY <1>1, <2>1, <3>1, <3>2
  <2>2. CASE s # id
    <3>1. Weight(shipment', l)[s] = Weight(shipment, l)[s]
      BY <1>3, <2>2 DEF Weight
    <3> QED  BY <3>1 DEF Covers
  <2> QED  BY <2>1, <2>2
<1>5. \A q \in Putting' : call'[q].qty[l] <= w[call'[q].id]
  BY DEF Covers, Putting
<1>6. ASSUME NEW q \in Moving'
      PROVE  shipment'[call'[q].ship].qty[l] <= w[call'[q].ship]
  <2>1. q \in Moving /\ call'[q] = call[q]
    BY <1>6 DEF Moving
  <2>2. call[q].ship \in ShipmentIds /\ shipment[call[q].ship].qty[l] <= w[call[q].ship]
    BY <2>1, InFlightFacts DEF Covers
  <2> QED  BY <1>3, <2>1, <2>2
<1> QED  BY <1>4, <1>5, <1>6 DEF Covers

\* A creation takes nothing, or no more than the shipments leave of the order.
LEMMA TakesWhatIsLeft ==
    ASSUME TypeInv, NEW r \in Requests, NEW qty \in Quantities, NEW rest \in Bases,
           StartCreate(r, qty, rest), NEW l \in Lines
    PROVE  qty[l] = 0 \/ qty[l] + HeldIn(shipment, l) <= Ordered
<1> DEFINE n == Ordered - HeldIn(shipment, l)
<1>1. HeldIn(shipment, l) \in Int /\ n \in Int /\ qty[l] \in Nat
  BY WeightType, BoundsAssumption DEF TypeInv, TypeOK, Quantities
<1>2. Remaining(l) = Max({0, n})
  BY ReservedIsHeld DEF Remaining
<1>3. qty[l] = 0 \/ qty[l] <= Remaining(l)
  <2>1. CASE MaySelect(qty, rest)
    BY <1>1, <2>1 DEF MaySelect
  <2>2. CASE qty = [k \in Lines |-> Remaining(k)]
    BY <1>1, <2>2
  <2> QED  BY <2>1, <2>2 DEF StartCreate, MayTakeAll
<1>4. qty[l] = 0 \/ qty[l] <= n
  <2> HIDE DEF n
  <2>1. 0 \in Int /\ n \in Int
    BY <1>1
  <2>2. Max({0, n}) \in {0, n}
    BY <2>1, GreaterOfTwo
  <2>3. Remaining(l) = 0 \/ Remaining(l) = n
    BY <1>2, <2>2
  <2> QED  BY <1>1, <1>3, <2>3
<1> QED  BY <1>1, <1>4, BoundsAssumption

\* With its creation under way, a request has a share of what it takes; the others'
\* shipments need no more than the ordered quantity each.
LEMMA StartShared ==
    ASSUME TypeInv, NEW l \in Lines, IsShared(l), IsFiniteSet(Requests),
           NEW r \in Requests, NEW qty \in Quantities, NEW rest \in Bases,
           StartCreate(r, qty, rest)
    PROVE  IsShared(l)'
<1>1. PICK id \in ShipmentIds \ Created :
          Accept(r, [op |-> "create", id |-> id, qty |-> qty, rest |-> rest])
  BY DEF StartCreate
<1> DEFINE c == [op |-> "create", id |-> id, qty |-> qty, rest |-> rest]
<1>2. /\ shipment' = shipment /\ pc'[r] = "checked" /\ call'[r] = c
      /\ \A q \in Requests : q # r => pc'[q] = pc[q] /\ call'[q] = call[q]
  BY <1>1 DEF Accept, TypeInv, TypeOK
<1>3. qty[l] \in 0..Ordered /\ Ordered \in Nat
  BY BoundsAssumption DEF Quantities
<1>4. r \notin Moving'
  BY <1>2 DEF Moving
<1>5. \A q \in Putting' : q = r \/ (q \in Putting /\ call'[q] = call[q])
  BY <1>2 DEF Putting
<1>6. \A q \in Moving' : q \in Moving /\ call'[q] = call[q]
  BY <1>2, <1>4 DEF Moving
<1>7. CASE qty[l] = 0
  <2> SUFFICES ASSUME NEW w \in Shares, Covers(w, l)
               PROVE  Covers(w, l)'
    BY SharesStay
  <2>1. \A q \in Putting' : call'[q].qty[l] <= w[call'[q].id]
    BY <1>2, <1>5, <1>7 DEF Covers, Shares
  <2> QED  BY <1>2, <1>6, <2>1 DEF Covers
<1>8. CASE qty[l] # 0
  <2> DEFINE Others == Requests \ {r}
             ship == [q \in Others |-> IF q \in Putting THEN call[q].id ELSE call[q].ship]
             Theirs == {ship[q] : q \in Others} \cap ShipmentIds
             held == Weight(shipment, l)
             theirs == [s \in ShipmentIds |-> IF s \in Theirs THEN Ordered ELSE 0]
             mine == [s \in ShipmentIds |-> held[s] + IF s = id THEN qty[l] ELSE 0]
             w == [s \in ShipmentIds |-> mine[s] + theirs[s]]
  <2>1. \A s \in ShipmentIds : held[s] \in Nat
    BY WeightType DEF TypeInv, TypeOK
  <2>2. /\ \A s \in ShipmentIds : mine[s] \in Nat /\ theirs[s] \in Nat /\ w[s] \in Nat
        /\ \A s \in ShipmentIds : held[s] <= mine[s] /\ mine[s] <= w[s] /\ theirs[s] <= w[s]
    <3> HIDE DEF held, Theirs
    <3> QED  BY <1>3, <2>1
  <2>3. w \in Shares
    <3>1. w \in Shares <=> \A s \in ShipmentIds : w[s] \in Nat
      <4> HIDE DEF mine, theirs
      <4> QED  BY DEF Shares
    <3> HIDE DEF w
    <3> QED  BY <2>2, <3>1
  <2>4. Sum(mine, ShipmentIds) = HeldIn(shipment, l) + qty[l]
    <3>1. held[id] = 0
      BY <1>1 DEF Weight, Created
    <3>2. mine[id] = qty[l] /\ \A s \in ShipmentIds \ {id} : held[s] = mine[s]
      <4> HIDE DEF held
      <4> QED  BY <1>3, <2>1, <3>1
    <3>3. Sum(held, ShipmentIds) \in Int
      BY WeightType DEF HeldIn, TypeInv, TypeOK
    <3>4. Sum(mine, ShipmentIds) = Sum(held, ShipmentIds) - held[id] + mine[id]
      <4> HIDE DEF held, mine
      <4>1. \A s \in ShipmentIds : held[s] \in Int /\ mine[s] \in Int
        BY <2>1, <2>2
      <4>2. \A x \in ShipmentIds :
              (\A s \in ShipmentIds \ {x} : held[s] = mine[s])
                 => Sum(mine, ShipmentIds) = Sum(held, ShipmentIds) - held[x] + mine[x]
        BY <4>1, IdsAreFinite, SumUpdate
      <4> QED  BY <3>2, <4>2
    <3>5. HeldIn(shipment, l) = Sum(held, ShipmentIds)
      BY DEF HeldIn
    <3> HIDE DEF held, mine
    <3> QED  BY <1>3, <3>1, <3>2, <3>3, <3>4, <3>5
  <2>5. IsFiniteSet(Others) /\ Cardinality(Others) = Cardinality(Requests) - 1
    BY FS_RemoveElement
  <2>6. Cardinality(Theirs) \in Nat /\ Cardinality(Theirs) <= Cardinality(Others)
    <3> DEFINE All == {ship[q] : q \in Others}
    <3>1. IsFiniteSet(All) /\ Cardinality(All) <= Cardinality(Others)
      <4> HIDE DEF Others, ship
      <4> QED  BY <2>5, FiniteImage, ImageIsNoLarger
    <3>2. Theirs = All \cap ShipmentIds
      OBVIOUS
    <3> HIDE DEF Others, All, Theirs
    <3>3. IsFiniteSet(Theirs) /\ Cardinality(Theirs) <= Cardinality(All)
      BY <3>1, <3>2, FS_Subset
    <3> QED  BY <2>5, <3>1, <3>3, FS_CardinalityType
  <2>7. Sum(theirs, ShipmentIds) <= Cardinality(Theirs) * Ordered
    <3>1. Theirs \subseteq ShipmentIds
      OBVIOUS
    <3> HIDE DEF Theirs
    <3>2. \A s \in ShipmentIds : theirs[s] = IF s \in Theirs THEN Ordered ELSE 0
      OBVIOUS
    <3> HIDE DEF theirs
    <3> QED  BY <1>3, <3>1, <3>2, IdsAreFinite, SumOfPart
  <2>8. Sum(w, ShipmentIds) = Sum(mine, ShipmentIds) + Sum(theirs, ShipmentIds)
    <3>1. \A s \in ShipmentIds : w[s] = mine[s] + theirs[s] /\ mine[s] \in Int /\ theirs[s] \in Int
      <4> HIDE DEF mine, theirs
      <4> QED  BY <2>2
    <3> HIDE DEF w, mine, theirs
    <3> QED  BY <3>1, IdsAreFinite, SumOfSums
  <2>9. Sum(w, ShipmentIds) <= Cardinality(Requests) * Ordered
    <3>1. qty[l] + HeldIn(shipment, l) <= Ordered
      BY <1>8, TakesWhatIsLeft
    <3>2. Sum(theirs, ShipmentIds) \in Int
      <4>1. \A s \in ShipmentIds : theirs[s] \in Int
        BY <2>2
      <4> HIDE DEF theirs
      <4> QED  BY <4>1, IdsAreFinite, SumIsInteger
    <3>3. HeldIn(shipment, l) \in Int
      BY WeightType DEF TypeInv, TypeOK
    <3>4. Cardinality(Requests) \in Nat
      BY FS_CardinalityType
    <3> DEFINE m == Cardinality(Theirs)
               n == Cardinality(Requests)
               all == Sum(w, ShipmentIds)
               others == Sum(theirs, ShipmentIds)
               has == HeldIn(shipment, l)
    <3>5. /\ m \in Nat /\ n \in Nat /\ m <= n - 1 /\ others \in Int /\ has \in Int
          /\ others <= m * Ordered /\ qty[l] + has <= Ordered
          /\ all = (has + qty[l]) + others
      BY <2>4, <2>5, <2>6, <2>7, <2>8, <3>1, <3>2, <3>3, <3>4
    <3> HIDE DEF m, n, all, others, has
    <3>6. m * Ordered <= (n - 1) * Ordered
      BY <1>3, <3>5
    <3>7. (n - 1) * Ordered + Ordered = n * Ordered
      BY <1>3, <3>5
    <3>8. m * Ordered \in Int /\ (n - 1) * Ordered \in Int /\ n * Ordered \in Int
      BY <1>3, <3>5
    <3>9. all <= n * Ordered
      <4> DEFINE x == m * Ordered
                 y == (n - 1) * Ordered
                 z == n * Ordered
      <4>1. x \in Int /\ y \in Int /\ z \in Int /\ x <= y /\ y + Ordered = z /\ others <= x
        BY <3>5, <3>6, <3>7, <3>8
      <4> HIDE DEF x, y, z
      <4>2. all <= z
        BY <1>3, <3>5, <4>1
      <4> QED  BY <4>2 DEF z
    <3> QED  BY <3>9 DEF all, n
  <2>10. /\ \A s \in ShipmentIds : Weight(shipment', l)[s] <= w[s]
         /\ \A q \in Putting' : call'[q].qty[l] <= w[call'[q].id]
         /\ \A q \in Moving' : shipment'[call'[q].ship].qty[l] <= w[call'[q].ship]
    <3>1. \A s \in ShipmentIds : Weight(shipment', l)[s] <= w[s]
      <4>1. \A s \in ShipmentIds : held[s] <= w[s]
        <5> HIDE DEF held, mine, theirs, w
        <5>1. \A s \in ShipmentIds : held[s] \in Int /\ mine[s] \in Int /\ w[s] \in Int
          BY <2>1, <2>2
        <5> QED  BY <2>2, <5>1
      <4> QED  BY <1>2, <4>1
    <3>2. \A q \in Others : (q \in Putting => call[q].id \in Theirs) /\ (q \in Moving => call[q].ship \in Theirs)
      BY InFlightFacts DEF Putting, Moving, TypeInv, CallsInFlight
    <3>3. \A s \in Theirs : Ordered <= w[s]
      <4>1. \A s \in Theirs : s \in ShipmentIds /\ theirs[s] = Ordered
        OBVIOUS
      <4> HIDE DEF Theirs, theirs, mine, w
      <4> QED  BY <2>2, <4>1
    <3>4. ASSUME NEW q \in Putting'
          PROVE  call'[q].qty[l] <= w[call'[q].id]
      <4>1. CASE q = r
        <5>1. mine[id] <= w[id] /\ w[id] \in Nat
          BY <2>2
        <5>2. mine[id] = held[id] + qty[l] /\ held[id] \in Nat
          BY <2>1
        <5> HIDE DEF mine, w, held
        <5> QED  BY <1>2, <1>3, <4>1, <5>1, <5>2
      <4>2. CASE q # r
        <5>1. q \in Putting /\ call'[q] = call[q]
          BY <1>5, <3>4, <4>2
        <5>2. call[q].qty[l] \in 0..Ordered
          BY <5>1, InFlightFacts DEF Quantities
        <5>3. q \in Others /\ call[q].id \in Theirs /\ call[q].id \in ShipmentIds
          BY <3>2, <4>2, <5>1, InFlightFacts DEF Putting
        <5>4. Ordered <= w[call[q].id] /\ w[call[q].id] \in Nat
          <6> HIDE DEF Theirs, w
          <6> QED  BY <2>2, <3>3, <5>3
        <5> HIDE DEF w
        <5> QED  BY <1>3, <5>1, <5>2, <5>4
      <4> QED  BY <4>1, <4>2
    <3>5. ASSUME NEW q \in Moving'
          PROVE  shipment'[call'[q].ship].qty[l] <= w[call'[q].ship]
      <4>1. q \in Moving /\ call'[q] = call[q] /\ q # r
        BY <1>4, <1>6, <3>5
      <4>2. call[q].ship \in ShipmentIds
        BY <4>1, InFlightFacts
      <4>3. shipment[call[q].ship].qty[l] \in 0..Ordered
        <5>1. shipment[call[q].ship].qty \in Quantities
          BY <4>2 DEF TypeInv, TypeOK, Shipment
        <5> QED  BY <5>1 DEF Quantities
      <4>4. q \in Others /\ call[q].ship \in Theirs
        BY <3>2, <4>1 DEF Moving
      <4>5. Ordered <= w[call[q].ship] /\ w[call[q].ship] \in Nat
        <5> HIDE DEF Theirs, w
        <5> QED  BY <2>2, <3>3, <4>2, <4>4
      <4> HIDE DEF w
      <4> QED  BY <1>2, <1>3, <4>1, <4>3, <4>5
    <3> HIDE DEF w
    <3> QED  BY <3>1, <3>4, <3>5
  <2> HIDE DEF w
  <2>11. PICK v \in Shares : v = w
    BY <2>3
  <2>12. Covers(v, l)'
    BY <2>10, <2>11 DEF Covers
  <2> QED  BY <2>9, <2>11, <2>12 DEF IsShared
<1> QED  BY <1>7, <1>8

\* What starts beside a creation takes goods of no shipment that gave them up.
LEMMA OthersShared ==
    ASSUME TypeInv, NEW l \in Lines, IsShared(l), NEW r \in Requests, Start(r),
           call'[r].op # "create"
    PROVE  IsShared(l)'
<1>1. PICK c \in Calls : Accept(r, c) /\ Fresh(c)
  BY StartAccepts
<1>2. /\ shipment' = shipment /\ pc'[r] = "checked" /\ call'[r] = c
      /\ \A q \in Requests : q # r => pc'[q] = pc[q] /\ call'[q] = call[q]
  BY <1>1 DEF Accept, TypeInv, TypeOK
<1>3. r \notin Putting'
  BY <1>2 DEF Putting
<1>4. ASSUME r \in Moving'
      PROVE  /\ call'[r].ship \in ShipmentIds
             /\ shipment[call'[r].ship].status \notin {"ABSENT", "ISSUE"}
  <2>1. c.op = "patch" /\ MayMove(shipment[c.ship].status, c.to)
    BY <1>1, <1>2, <1>4 DEF Moving, Fresh
  <2>2. c.ship \in ShipmentIds /\ c.to \in Stages
    BY <2>1 DEF Calls
  <2> QED  BY <1>2, <2>1, <2>2, MoveLeavesHeld
<1> QED  BY <1>2, <1>3, <1>4, QuietStep

\* A confirmation's next stage begins with a shipment that holds its goods.
LEMMA StageShared ==
    ASSUME TypeInv, NEW l \in Lines, IsShared(l), NEW r \in Requests, Step(r)
    PROVE  IsShared(l)'
<1>1. /\ call' = call /\ shipment' = shipment /\ pc'[r] = "moving"
      /\ \A q \in Requests : q # r => pc'[q] = pc[q] /\ call'[q] = call[q]
  BY DEF Step, TypeInv, TypeOK
<1>2. call[r].ship \in ShipmentIds
  BY ConfirmFacts DEF Step, Confirming, Underway
<1>3. NextStage(call[r].stage) \in Stages
  BY NextIsStage DEF Step, MayStep
<1>4. shipment[call[r].ship].status \notin {"ABSENT", "ISSUE"}
  BY <1>3, MoveLeavesHeld DEF Step, MayStep
<1>5. r \notin Putting'
  BY <1>1 DEF Putting
<1> QED  BY <1>1, <1>2, <1>4, <1>5, QuietStep

LEMMA StepShared ==
    IsFiniteSet(Requests) /\ ShareInv /\ [Next]_vars => ShareInv'
<1> SUFFICES ASSUME IsFiniteSet(Requests), ShareInv, [Next]_vars
             PROVE  ShareInv'
  OBVIOUS
<1> USE DEF ShareInv
<1>1. TypeInv'
  BY StepTypes
<1> SUFFICES ASSUME NEW l \in Lines
             PROVE  IsShared(l)'
  BY <1>1
<1>2. IsShared(l)
  OBVIOUS
<1>3. ASSUME NEW r \in Requests, Start(r)
      PROVE  IsShared(l)'
  <2>1. CASE call'[r].op # "create"
    BY <1>2, <1>3, <2>1, OthersShared
  <2>2. ASSUME NEW qty \in Quantities, NEW rest \in Bases, StartCreate(r, qty, rest)
        PROVE  IsShared(l)'
    BY <1>2, <2>2, StartShared
  <2> QED  BY <1>3, <2>1, <2>2, OthersTakeNothing
<1>4. ASSUME NEW r \in Requests, CommitCreate(r)
      PROVE  IsShared(l)'
  BY <1>2, <1>4, CreateShared
<1>5. ASSUME NEW r \in Requests, CommitPatch(r)
      PROVE  IsShared(l)'
  <2>1. r \in Moving /\ call[r] \in Calls /\ call[r].op = "patch"
    BY <1>5 DEF CommitPatch, Moving, TypeInv, CallsInFlight
  <2>2. call[r].to \in Stages
    BY <2>1 DEF Calls
  <2>3. pc'[r] = "idle" /\ \A q \in Requests : q # r => pc'[q] = pc[q] /\ call'[q] = call[q]
    BY <1>5, FinishFacts DEF CommitPatch
  <2>4. r \notin Putting' /\ r \notin Moving'
    BY <2>3 DEF Putting, Moving
  <2> QED  BY <1>2, <1>5, <2>1, <2>2, <2>3, <2>4, MoveShared DEF CommitPatch
<1>6. ASSUME NEW r \in Requests, CommitStep(r)
      PROVE  IsShared(l)'
  <2> DEFINE to == NextStage(call[r].stage)
  <2>1. r \in Moving /\ pc[r] = "moving" /\ call[r].op = "confirm" /\ to \in Stages
    BY <1>6, NextIsStage DEF CommitStep, Moving, TypeInv, CallsInFlight
  <2> HIDE DEF to
  <2>2. [call[r] EXCEPT !.stage = to].op = "confirm"
    BY <2>1, ConfirmFacts DEF Calls
  <2>3. /\ pc'[r] = "checked" /\ call'[r].op = "confirm"
        /\ \A q \in Requests : q # r => pc'[q] = pc[q] /\ call'[q] = call[q]
    <3> DEFINE new == [call[r] EXCEPT !.stage = to]
    <3>1. call' = [call EXCEPT ![r] = new] /\ pc' = [pc EXCEPT ![r] = "checked"]
      BY <1>6 DEF CommitStep, to
    <3>2. new.op = "confirm"
      BY <2>2
    <3> HIDE DEF new
    <3> QED  BY <3>1, <3>2 DEF TypeInv, TypeOK
  <2>4. r \notin Putting' /\ r \notin Moving'
    BY <2>3 DEF Putting, Moving
  <2>5. MoveShipment(call[r].ship, to)
    BY <1>6 DEF CommitStep, to
  <2> QED  BY <1>2, <2>1, <2>3, <2>4, <2>5, MoveShared
<1>7. ASSUME NEW r \in Requests, Step(r)
      PROVE  IsShared(l)'
  BY <1>2, <1>7, StageShared
<1>8. ASSUME NEW r \in Requests, Write(r) \/ ShowDelivered(r)
      PROVE  IsShared(l)'
  <2>1. /\ shipment' = shipment
        /\ pc'[r] = "writing" \/ (pc'[r] = "checked" /\ call'[r].op = "confirm")
        /\ \A q \in Requests : q # r => pc'[q] = pc[q] /\ call'[q] = call[q]
    <3>1. CASE Write(r)
      BY <3>1 DEF Write, TypeInv, TypeOK
    <3>2. CASE ShowDelivered(r)
      <4> DEFINE new == [call[r] EXCEPT !.stage = "DELIVERED"]
      <4>1. new.op = "confirm"
        BY <3>2, ConfirmFacts DEF ShowDelivered, Confirming, Calls
      <4>2. /\ call' = [call EXCEPT ![r] = new] /\ pc' = pc /\ pc[r] = "checked"
            /\ shipment' = shipment
        BY <3>2 DEF ShowDelivered, Confirming
      <4> HIDE DEF new
      <4> QED  BY <4>1, <4>2 DEF TypeInv, TypeOK
    <3> QED  BY <1>8, <3>1, <3>2
  <2>2. r \notin Putting' /\ r \notin Moving'
    BY <2>1 DEF Putting, Moving
  <2> QED  BY <1>2, <2>1, <2>2, QuietStep
<1>9. ASSUME NEW r \in Requests,
             CommitSave(r) \/ CommitGroup(r) \/ CommitDecision(r) \/ ClosePlan(r)
               \/ Refuse(r) \/ Abort(r)
      PROVE  IsShared(l)'
  <2>1. Finish(r) /\ shipment' = shipment
    BY <1>9 DEF CommitSave, CommitGroup, CommitDecision, ClosePlan, Refuse, Abort
  <2> QED  BY <1>2, <2>1, EndQuiet
<1>10. ASSUME UNCHANGED <<shipment, pc, call>>
       PROVE  IsShared(l)'
  BY <1>2, <1>10, SharesStay DEF Covers, Putting, Moving
<1>11. CASE \E k \in Lines : ReceiveGoods(k) \/ TakeBackGoods(k)
  BY <1>10, <1>11 DEF ReceiveGoods, TakeBackGoods
<1>12. CASE \E status \in Elsewhere : WriteDisplayElsewhere(status)
  BY <1>10, <1>12 DEF WriteDisplayElsewhere
<1>13. CASE UNCHANGED vars
  BY <1>10, <1>13 DEF vars
<1> QED  BY <1>3, <1>4, <1>5, <1>6, <1>7, <1>8, <1>9, <1>11, <1>12, <1>13 DEF Next, Progress

LEMMA InitShared == IsFiniteSet(Requests) /\ Init => ShareInv
<1> SUFFICES ASSUME IsFiniteSet(Requests), Init, NEW l \in Lines
             PROVE  IsShared(l)
  BY InitTypes DEF ShareInv
<1> DEFINE w == [s \in ShipmentIds |-> 0]
<1>1. w \in Shares /\ \A s \in ShipmentIds : w[s] = 0
  BY DEF Shares
<1>2. Covers(w, l)
  BY DEF Covers, Init, NoShipment, Weight, Putting, Moving
<1> HIDE DEF w
<1>3. Sum(w, ShipmentIds) = 0
  BY <1>1, IdsAreFinite, SumOfZeros
<1>4. 0 <= Cardinality(Requests) * Ordered
  <2>1. Cardinality(Requests) \in Nat /\ Ordered \in Nat
    BY FS_CardinalityType, BoundsAssumption
  <2> HIDE DEF Cardinality
  <2> QED  BY <2>1
<1> QED  BY <1>1, <1>2, <1>3, <1>4 DEF IsShared

\* However requests overlap, the shipments of an order hold at most the ordered
\* quantity for every request there can be at a time: racing creations, and moves
\* that bring back a shipment which had an issue meanwhile, do not add up further.
OverReservationIsBounded ==
    \A l \in Lines : Held(l) <= Cardinality(Requests) * Ordered

THEOREM OverReservationStaysBounded ==
    IsFiniteSet(Requests) /\ Spec => []OverReservationIsBounded
<1> SUFFICES ASSUME IsFiniteSet(Requests)
             PROVE  Spec => []OverReservationIsBounded
  OBVIOUS
<1>1. ASSUME ShareInv
      PROVE  OverReservationIsBounded
  <2> SUFFICES ASSUME NEW l \in Lines
               PROVE  Held(l) <= Cardinality(Requests) * Ordered
    BY DEF OverReservationIsBounded
  <2>1. PICK w \in Shares : Covers(w, l) /\ Sum(w, ShipmentIds) <= Cardinality(Requests) * Ordered
    BY <1>1 DEF ShareInv, IsShared
  <2> DEFINE held == Weight(shipment, l)
  <2>2. \A s \in ShipmentIds : held[s] \in Int /\ w[s] \in Int /\ held[s] <= w[s]
    BY <1>1, <2>1, WeightType DEF ShareInv, TypeInv, TypeOK, Covers, Shares
  <2>3. /\ Sum(held, ShipmentIds) <= Sum(w, ShipmentIds)
        /\ Sum(held, ShipmentIds) \in Int /\ Sum(w, ShipmentIds) \in Int
    <3> HIDE DEF held
    <3> QED  BY <2>2, IdsAreFinite, SumIsMonotonic, SumIsInteger
  <2>4. Held(l) = Sum(held, ShipmentIds)
    BY <1>1, HeldIsHeld DEF ShareInv, TypeInv, HeldIn
  <2>5. Cardinality(Requests) * Ordered \in Int
    <3>1. Cardinality(Requests) \in Nat /\ Ordered \in Nat
      BY FS_CardinalityType, BoundsAssumption
    <3> QED  BY <3>1
  <2> HIDE DEF held
  <2> QED  BY <2>1, <2>3, <2>4, <2>5
<1>2. Init => ShareInv
  BY InitShared
<1>3. ShareInv /\ [Next]_vars => ShareInv'
  BY StepShared
<1> QED  BY <1>1, <1>2, <1>3, PTL DEF Spec

=============================================================================
