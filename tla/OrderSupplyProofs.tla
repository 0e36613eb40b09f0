-------------------------- MODULE OrderSupplyProofs --------------------------
(***************************************************************************)
(* Theorems about OrderSupply, for every number of requests, lines and     *)
(* missing items, every ordered quantity and whatever the bounds are.      *)
(***************************************************************************)
EXTENDS OrderSupply, TLAPS

-----------------------------------------------------------------------------
(* The operators: what a correction, a quantity and the display status are. *)

LEMMA EntryStatusType ==
    ASSUME NEW supply, NEW received \in Nat
    PROVE  EntryStatus(supply, received) \in WarehouseStatuses
BY BoundsAssumption DEF EntryStatus, WarehouseStatuses

LEMMA NothingCame == EntryStatus("SENT", 0) = "WAITING"
<1>1. ~(0 >= Ordered)
  BY BoundsAssumption
<1> QED  BY <1>1 DEF EntryStatus

LEMMA NewLineType == NewLine \in Line
BY BoundsAssumption DEF NewLine, Line, SupplyStatuses, WarehouseStatuses

\* A correction never adds goods.
LEMMA CorrectedFacts ==
    ASSUME NEW ln \in Line
    PROVE  Corrected(ln) \in Line /\ Corrected(ln).received <= ln.received
<1>1. /\ ln.received \in 0..Ordered /\ ln.received \in Nat
      /\ Ordered \in Nat
  BY BoundsAssumption DEF Line
<1>2. CASE ln.supply # "SENT" /\ (ln.warehouse = "ARRIVED" \/ ln.received > 0)
  <2>1. Corrected(ln) = NewLine
    BY <1>2 DEF Corrected
  <2> QED  BY <1>1, <2>1, NewLineType DEF NewLine
<1>3. CASE ~(ln.supply # "SENT" /\ (ln.warehouse = "ARRIVED" \/ ln.received > 0))
  <2>1. Corrected(ln) = [ln EXCEPT !.warehouse = EntryStatus(ln.supply, ln.received)]
    BY <1>3 DEF Corrected
  <2> QED  BY <1>1, <2>1, EntryStatusType DEF Line
<1> QED  BY <1>2, <1>3

LEMMA DerivedType ==
    ASSUME NEW lns, NEW items, NEW stored \in Statuses
    PROVE  Derived(lns, items, stored) \in Statuses
BY DEF Derived, Progressed, Statuses

\* What was derived once is derived again from the same rows.
LEMMA DerivedTwice ==
    ASSUME NEW lns, NEW items, NEW stored
    PROVE  Derived(lns, items, Derived(lns, items, stored)) = Derived(lns, items, stored)
BY DEF Derived, Progressed, Final

\* The display status looks at which lines arrived, in part or whole, and at the items.
LEMMA DerivedAlike ==
    ASSUME NEW lns, NEW lnsNow, NEW items, NEW stored,
           \A l \in Lines : \A w \in {"ARRIVED", "PARTIAL_ARRIVED"} :
              lnsNow[l].warehouse = w <=> lns[l].warehouse = w
    PROVE  Derived(lnsNow, items, stored) = Derived(lns, items, stored)
<1>1. Arrived(lnsNow) = Arrived(lns)
  BY DEF Arrived
<1>2. InProgress(lnsNow) = InProgress(lns)
  BY DEF InProgress
<1> QED  BY <1>1, <1>2 DEF Derived, Progressed

-----------------------------------------------------------------------------
(* Type correctness.  A request in flight serves a call, and the goods it   *)
(* books in fit the line as it read it.                                     *)

CallsInFlight ==
    \A r \in Requests :
        pc[r] # "idle" =>
            /\ call[r] \in Calls
            /\ call[r].op = "receive" => call[r].snap.received + call[r].qty <= Ordered

TypeInv == TypeOK /\ CallsInFlight

LEMMA InitTypes == Init => TypeInv
<1> SUFFICES ASSUME Init
             PROVE  TypeInv
  OBVIOUS
<1>1. line \in [Lines -> Line] /\ missing \in [MissingItems -> MissingStatuses]
  BY NewLineType DEF Init, MissingStatuses
<1>2. /\ display \in Statuses
      /\ receipts \in [Lines -> Nat] /\ returned \in [Lines -> Nat]
      /\ foreign \in BOOLEAN /\ races \in Nat
  BY DEF Init, Statuses
<1>3. /\ pc \in [Requests -> {"idle", "checked", "writing"}]
      /\ call \in [Requests -> Calls \cup {NoCall}]
      /\ draft \in [Requests -> Statuses \cup {NoDraft}]
      /\ CallsInFlight
  BY DEF Init, CallsInFlight
<1> QED  BY <1>1, <1>2, <1>3 DEF TypeInv, TypeOK

LEMMA AcceptTypes ==
    ASSUME TypeInv, NEW r \in Requests, NEW c \in Calls, Accept(r, c),
           c.op = "receive" => c.snap.received + c.qty <= Ordered
    PROVE  TypeInv'
<1>1. /\ pc' \in [Requests -> {"idle", "checked", "writing"}]
      /\ call' \in [Requests -> Calls \cup {NoCall}]
      /\ pc'[r] = "checked" /\ call'[r] = c
      /\ \A q \in Requests : q # r => pc'[q] = pc[q] /\ call'[q] = call[q]
      /\ UNCHANGED <<line, missing, display, receipts, returned, foreign, draft>>
      /\ races' \in Nat
  BY DEF TypeInv, TypeOK, Accept, CountRace, history
<1>2. CallsInFlight'
  BY <1>1 DEF TypeInv, CallsInFlight
<1> QED  BY <1>1, <1>2 DEF TypeInv, TypeOK

\* What the rows are like when a request reads and checks them for call c.
Fresh(c) ==
    /\ c.op = "confirm" => c.lines # {} /\ \A l \in c.lines : line[l].supply # "SENT"
    /\ c.op = "revertArrival" => line[c.on].supply = "SENT" /\ line[c.on].received > 0
    /\ c.op = "revertSupply" => line[c.on].supply = "SENT" /\ line[c.on].received = 0
    /\ c.op \in {"reconcile", "receive"} => c.snap = line[c.on]
    /\ c.op = "reconcile" => Corrected(line[c.on]) # line[c.on]
    /\ c.op = "receive" => line[c.on].supply = "SENT" /\ c.snap.received + c.qty <= Ordered
    /\ c.op = "createMissing" => missing[c.item] = "ABSENT"
    /\ c.op = "patchMissing" => MayChangeItem(missing[c.item], c.to)

LEMMA StartAccepts ==
    ASSUME TypeInv, NEW r \in Requests, Start(r)
    PROVE  \E c \in Calls : Accept(r, c) /\ Fresh(c)
<1>1. ASSUME NEW ls \in SUBSET Lines, StartConfirm(r, ls)
      PROVE  \E c \in Calls : Accept(r, c) /\ Fresh(c)
  <2>1. [op |-> "confirm", lines |-> ls] \in Calls
    BY DEF Calls
  <2> DEFINE c == [op |-> "confirm", lines |-> ls]
  <2>3. Accept(r, c)
    BY <1>1 DEF StartConfirm
  <2>4. Fresh(c)
    BY <1>1, <2>1 DEF StartConfirm, Fresh
  <2> QED  BY <2>1, <2>3, <2>4
<1>2. ASSUME NEW l \in Lines, StartRevertArrival(r, l)
      PROVE  \E c \in Calls : Accept(r, c) /\ Fresh(c)
  <2>1. [op |-> "revertArrival", on |-> l] \in Calls
    BY DEF Calls
  <2> DEFINE c == [op |-> "revertArrival", on |-> l]
  <2>3. Accept(r, c)
    BY <1>2 DEF StartRevertArrival
  <2>4. Fresh(c)
    BY <1>2, <2>1 DEF StartRevertArrival, Fresh
  <2> QED  BY <2>1, <2>3, <2>4
<1>3. ASSUME NEW l \in Lines, StartRevertSupply(r, l)
      PROVE  \E c \in Calls : Accept(r, c) /\ Fresh(c)
  <2>1. [op |-> "revertSupply", on |-> l] \in Calls
    BY DEF Calls
  <2> DEFINE c == [op |-> "revertSupply", on |-> l]
  <2>3. Accept(r, c)
    BY <1>3 DEF StartRevertSupply
  <2>4. Fresh(c)
    BY <1>3, <2>1 DEF StartRevertSupply, CanRevertSupplySent, Fresh
  <2> QED  BY <2>1, <2>3, <2>4
<1>4. ASSUME NEW l \in Lines, StartReconcile(r, l)
      PROVE  \E c \in Calls : Accept(r, c) /\ Fresh(c)
  <2>1. [op |-> "reconcile", on |-> l, snap |-> line[l]] \in Calls
    BY DEF Calls, TypeInv, TypeOK
  <2> DEFINE c == [op |-> "reconcile", on |-> l, snap |-> line[l]]
  <2>3. Accept(r, c)
    BY <1>4 DEF StartReconcile
  <2>4. Fresh(c)
    BY <1>4, <2>1 DEF StartReconcile, Fresh
  <2> QED  BY <2>1, <2>3, <2>4
<1>5. ASSUME NEW l \in Lines, NEW qty \in 1..Ordered, StartReceipt(r, l, qty)
      PROVE  \E c \in Calls : Accept(r, c) /\ Fresh(c)
  <2>1. [op |-> "receive", on |-> l, snap |-> line[l], qty |-> qty] \in Calls
    BY DEF Calls, TypeInv, TypeOK
  <2>2. line[l].received + qty <= Ordered
    BY <1>5, BoundsAssumption DEF StartReceipt, FitsPending, TypeInv, TypeOK, Line
  <2> DEFINE c == [op |-> "receive", on |-> l, snap |-> line[l], qty |-> qty]
  <2>3. Accept(r, c)
    BY <1>5 DEF StartReceipt
  <2>4. Fresh(c)
    BY <1>5, <2>1, <2>2 DEF StartReceipt, Fresh
  <2> QED  BY <2>1, <2>3, <2>4
<1>6. ASSUME NEW m \in MissingItems, StartCreateMissing(r, m)
      PROVE  \E c \in Calls : Accept(r, c) /\ Fresh(c)
  <2>1. [op |-> "createMissing", item |-> m] \in Calls
    BY DEF Calls
  <2> DEFINE c == [op |-> "createMissing", item |-> m]
  <2>3. Accept(r, c)
    BY <1>6 DEF StartCreateMissing
  <2>4. Fresh(c)
    BY <1>6, <2>1 DEF StartCreateMissing, Fresh
  <2> QED  BY <2>1, <2>3, <2>4
<1>7. ASSUME NEW m \in MissingItems, NEW to \in Targets, StartPatchMissing(r, m, to)
      PROVE  \E c \in Calls : Accept(r, c) /\ Fresh(c)
  <2>1. [op |-> "patchMissing", item |-> m, to |-> to] \in Calls
    BY BoundsAssumption DEF Calls
  <2> DEFINE c == [op |-> "patchMissing", item |-> m, to |-> to]
  <2>3. Accept(r, c)
    BY <1>7 DEF StartPatchMissing
  <2>4. Fresh(c)
    BY <1>7, <2>1 DEF StartPatchMissing, Fresh
  <2> QED  BY <2>1, <2>3, <2>4
<1> QED  BY <1>1, <1>2, <1>3, <1>4, <1>5, <1>6, <1>7 DEF Start

LEMMA StartTypes ==
    ASSUME TypeInv, NEW r \in Requests, Start(r)
    PROVE  TypeInv'
<1>1. PICK c \in Calls : Accept(r, c) /\ Fresh(c)
  BY StartAccepts
<1> QED  BY <1>1, AcceptTypes DEF Fresh

\* The row of a line as a call leaves it: well typed, and with goods that are booked.
LEMMA LineWrittenFacts ==
    ASSUME TypeInv, NEW r \in Requests, pc[r] # "idle", NEW l \in LinesOf(call[r])
    PROVE  /\ l \in Lines
           /\ LineWritten(call[r], l) \in Line
           /\ call[r].op \in {"reconcile", "receive"} => call[r].snap \in Line /\ call[r].on = l
           /\ call[r].op = "receive" =>
                 /\ call[r].qty \in Nat
                 /\ LineWritten(call[r], l).received = call[r].snap.received + call[r].qty
           /\ call[r].op # "receive" => LineWritten(call[r], l).received <=
                 IF call[r].op = "reconcile" THEN call[r].snap.received ELSE line[l].received
<1> DEFINE c == call[r]
<1>1. /\ c \in Calls
      /\ c.op = "receive" => c.snap.received + c.qty <= Ordered
  BY DEF TypeInv, CallsInFlight
<1>2. l \in Lines /\ line[l] \in Line
  BY <1>1 DEF LinesOf, Calls, TypeInv, TypeOK
<1>3. line[l].received \in 0..Ordered /\ 0 \in 0..Ordered
  BY <1>2, BoundsAssumption DEF Line
<1>4. CASE c.op = "confirm"
  <2>1. LineWritten(c, l) = [line[l] EXCEPT !.supply = "SENT", !.warehouse = "WAITING"]
    BY <1>4 DEF LineWritten
  <2>2. LineWritten(c, l) \in Line
    BY <1>2, <2>1 DEF Line, SupplyStatuses, WarehouseStatuses
  <2>3. LineWritten(c, l).received = line[l].received
    BY <1>2, <2>1 DEF Line
  <2> QED  BY <1>2, <1>3, <1>4, <2>2, <2>3
<1>5. CASE c.op = "revertArrival"
  <2>1. LineWritten(c, l) = [line[l] EXCEPT !.warehouse = "WAITING", !.received = 0]
    BY <1>5 DEF LineWritten
  <2>2. LineWritten(c, l) \in Line
    BY <1>2, <1>3, <2>1 DEF Line, WarehouseStatuses
  <2>3. LineWritten(c, l).received = 0
    BY <1>2, <2>1 DEF Line
  <2> QED  BY <1>2, <1>3, <1>5, <2>2, <2>3
<1>6. CASE c.op = "revertSupply"
  <2>1. LineWritten(c, l) = NewLine
    BY <1>6 DEF LineWritten
  <2> QED  BY <1>2, <1>3, <1>6, <2>1, NewLineType, BoundsAssumption DEF NewLine
<1>7. CASE c.op = "reconcile"
  <2>1. LineWritten(c, l) = Corrected(c.snap)
    BY <1>7 DEF LineWritten
  <2>2. c.snap \in Line /\ c.on = l
    BY <1>1, <1>7 DEF Calls, LinesOf
  <2> QED  BY <1>2, <1>7, <2>1, <2>2, CorrectedFacts
<1>8. CASE c.op = "receive"
  <2>1. LineWritten(c, l) = [line[l] EXCEPT !.received = c.snap.received + c.qty,
                                !.warehouse = EntryStatus(c.snap.supply, c.snap.received + c.qty)]
    BY <1>8 DEF LineWritten
  <2>2. c.snap \in Line /\ c.qty \in 1..Ordered /\ c.on = l
    BY <1>1, <1>8 DEF Calls, LinesOf
  <2>3. /\ c.snap.received \in Nat /\ c.qty \in Nat
        /\ c.snap.received + c.qty \in 0..Ordered
    BY <1>1, <1>8, <2>2, BoundsAssumption DEF Line
  <2>4. EntryStatus(c.snap.supply, c.snap.received + c.qty) \in WarehouseStatuses
    BY <2>3, EntryStatusType
  <2> QED  BY <1>2, <1>8, <2>1, <2>2, <2>3, <2>4 DEF Line
<1> QED  BY <1>1, <1>2, <1>4, <1>5, <1>6, <1>7, <1>8 DEF LinesOf

LEMMA FinishTypes ==
    ASSUME TypeInv, NEW r \in Requests, Finish(r)
    PROVE  /\ pc' \in [Requests -> {"idle", "checked", "writing"}]
           /\ call' \in [Requests -> Calls \cup {NoCall}]
           /\ draft' \in [Requests -> Statuses \cup {NoDraft}]
           /\ races' \in Nat
           /\ CallsInFlight'
<1>1. /\ pc' \in [Requests -> {"idle", "checked", "writing"}]
      /\ call' \in [Requests -> Calls \cup {NoCall}]
      /\ draft' \in [Requests -> Statuses \cup {NoDraft}]
      /\ pc'[r] = "idle" /\ races' = races
      /\ \A q \in Requests : q # r => pc'[q] = pc[q] /\ call'[q] = call[q]
  BY DEF TypeInv, TypeOK, Finish
<1> QED  BY <1>1 DEF TypeInv, TypeOK, CallsInFlight

LEMMA CommitTypes ==
    ASSUME TypeInv, NEW r \in Requests, Commit(r)
    PROVE  TypeInv'
<1> DEFINE c == call[r]
<1>1. pc[r] # "idle" /\ c \in Calls
  BY DEF Commit, TypeInv, CallsInFlight
<1>2. line' \in [Lines -> Line]
  <2>1. \A l \in LinesOf(c) : LineWritten(c, l) \in Line
    BY <1>1, LineWrittenFacts
  <2> QED  BY <2>1 DEF Commit, LinesWith, TypeInv, TypeOK
<1>3. missing' \in [MissingItems -> MissingStatuses]
  <2>1. \A m \in ItemsOf(c) : (IF c.op = "createMissing" THEN "OPEN" ELSE c.to) \in MissingStatuses
    BY <1>1 DEF Calls, ItemsOf, MissingStatuses
  <2> QED  BY <2>1 DEF Commit, ItemsWith, TypeInv, TypeOK
<1>4. display' \in Statuses
  BY DEF Commit, TypeInv, TypeOK
<1>5. receipts' \in [Lines -> Nat]
  <2>1. \A l \in Lines : Booked(c, l) \in Nat
    BY <1>1, LineWrittenFacts DEF Booked, TypeInv, TypeOK
  <2> QED  BY <2>1 DEF Commit
<1>6. returned' \in [Lines -> Nat]
  <2>1. CASE c.op = "revertArrival"
    <3>1. c.on \in Lines /\ line[c.on].received \in Nat
      BY <1>1, <2>1 DEF Calls, TypeInv, TypeOK, Line
    <3> QED  BY <2>1, <3>1 DEF Commit, TypeInv, TypeOK
  <2> QED  BY <2>1 DEF Commit, TypeInv, TypeOK
<1>7. foreign' \in BOOLEAN
  BY DEF Commit, TypeInv, TypeOK
<1> QED  BY <1>2, <1>3, <1>4, <1>5, <1>6, <1>7, FinishTypes DEF Commit, TypeInv, TypeOK

LEMMA StepTypes == TypeInv /\ [Next]_vars => TypeInv'
<1> SUFFICES ASSUME TypeInv, [Next]_vars
             PROVE  TypeInv'
  OBVIOUS
<1>1. ASSUME NEW r \in Requests, Write(r)
      PROVE  TypeInv'
  <2>1. DerivedAfter(call[r]) \in Statuses
    BY DerivedType DEF DerivedAfter, TypeInv, TypeOK
  <2>2. draft' \in [Requests -> Statuses \cup {NoDraft}]
    BY <1>1, <2>1 DEF Write, TypeInv, TypeOK
  <2>3. /\ pc' \in [Requests -> {"idle", "checked", "writing"}] /\ pc[r] # "idle"
        /\ \A q \in Requests : q # r => pc'[q] = pc[q]
        /\ call' = call
    BY <1>1 DEF Write, TypeInv, TypeOK
  <2>4. CallsInFlight'
    BY <2>3 DEF TypeInv, CallsInFlight
  <2> QED  BY <1>1, <2>2, <2>3, <2>4 DEF Write, TypeInv, TypeOK, history
<1>2. ASSUME NEW r \in Requests, Abort(r)
      PROVE  TypeInv'
  BY <1>2, FinishTypes DEF Abort, TypeInv, TypeOK, history
<1>3. ASSUME NEW status \in Elsewhere, WriteDisplayElsewhere(status)
      PROVE  TypeInv'
  BY <1>3, BoundsAssumption DEF WriteDisplayElsewhere, CountRace, TypeInv, TypeOK, CallsInFlight, history
<1>4. CASE UNCHANGED vars
  BY <1>4 DEF vars, history, TypeInv, TypeOK, CallsInFlight
<1> QED  BY <1>1, <1>2, <1>3, <1>4, StartTypes, CommitTypes DEF Next, Progress

\* The rows keep their shape and no line holds more than was ordered, however the
\* requests overlap.
THEOREM TypeCorrect == Spec => []TypeOK
<1>1. TypeInv => TypeOK
  BY DEF TypeInv
<1> QED  BY <1>1, InitTypes, StepTypes, PTL DEF Spec

-----------------------------------------------------------------------------
(* Goods are never made up.  What a request read is no more than what was   *)
(* booked in by then, and bookings only grow.                               *)

SnapsAreReceipted ==
    \A r \in Requests :
        pc[r] # "idle" /\ call[r].op \in {"reconcile", "receive"} =>
            call[r].snap.received <= receipts[call[r].on]

ReceiptInv == TypeInv /\ ArrivalsAreReceipted /\ SnapsAreReceipted

LEMMA AcceptReceipts ==
    ASSUME ReceiptInv, NEW r \in Requests, NEW c \in Calls, Accept(r, c), Fresh(c)
    PROVE  ArrivalsAreReceipted' /\ SnapsAreReceipted'
<1>1. UNCHANGED <<line, receipts>>
  BY DEF Accept, history
<1>2. call'[r] = c /\ \A q \in Requests : q # r => pc'[q] = pc[q] /\ call'[q] = call[q]
  BY DEF Accept, ReceiptInv, TypeInv, TypeOK
<1>3. c.op \in {"reconcile", "receive"} => c.on \in Lines /\ c.snap.received <= receipts[c.on]
  <2>1. c.op \in {"reconcile", "receive"} => c.on \in Lines /\ c.snap = line[c.on]
    BY DEF Fresh, Calls
  <2> QED  BY <2>1 DEF ReceiptInv, ArrivalsAreReceipted
<1> QED  BY <1>1, <1>2, <1>3 DEF ReceiptInv, ArrivalsAreReceipted, SnapsAreReceipted

\* The call of a request that ends is forgotten; the others' stay.
LEMMA FinishOthers ==
    ASSUME TypeInv, NEW r \in Requests, Finish(r)
    PROVE  /\ pc'[r] = "idle"
           /\ \A q \in Requests : q # r =>
                 pc'[q] = pc[q] /\ call'[q] = call[q] /\ draft'[q] = draft[q]
BY DEF Finish, TypeInv, TypeOK

LEMMA CommitReceipts ==
    ASSUME ReceiptInv, NEW r \in Requests, Commit(r)
    PROVE  ArrivalsAreReceipted' /\ SnapsAreReceipted'
<1> DEFINE c == call[r]
<1>1. pc[r] # "idle" /\ TypeInv /\ c \in Calls
  BY DEF Commit, ReceiptInv, TypeInv, CallsInFlight
<1>2. \A l \in Lines : /\ receipts'[l] \in Nat /\ receipts[l] \in Nat
                        /\ receipts'[l] >= receipts[l]
  <2> SUFFICES ASSUME NEW l \in Lines
               PROVE  /\ receipts'[l] \in Nat /\ receipts[l] \in Nat
                      /\ receipts'[l] >= receipts[l]
    OBVIOUS
  <2>1. receipts'[l] = Booked(c, l) /\ receipts[l] \in Nat
    BY <1>1 DEF Commit, TypeInv, TypeOK
  <2>2. l \in LinesOf(c) /\ c.op = "receive" => c.qty \in Nat
    BY <1>1, LineWrittenFacts
  <2> QED  BY <2>1, <2>2 DEF Booked
<1>3. ASSUME NEW l \in Lines
      PROVE  line'[l].received <= receipts'[l]
  <2>1. line'[l] = (IF l \in LinesOf(c) THEN LineWritten(c, l) ELSE line[l])
    BY DEF Commit, LinesWith
  <2>2. line[l].received \in Nat /\ line[l].received <= receipts[l]
    BY <1>1 DEF ReceiptInv, ArrivalsAreReceipted, TypeInv, TypeOK, Line
  <2>3. CASE l \notin LinesOf(c)
    BY <1>2, <2>1, <2>2, <2>3
  <2>4. CASE l \in LinesOf(c) /\ c.op = "receive"
    <3>1. /\ c.qty \in Nat /\ c.snap \in Line /\ c.on = l
          /\ line'[l].received = c.snap.received + c.qty
      BY <1>1, <2>1, <2>4, LineWrittenFacts
    <3>2. c.snap.received \in Nat /\ c.snap.received <= receipts[l]
      BY <1>1, <2>4, <3>1 DEF ReceiptInv, SnapsAreReceipted, Line
    <3>3. receipts'[l] = receipts[l] + c.qty
      BY <2>4 DEF Commit, Booked
    <3> QED  BY <1>2, <3>1, <3>2, <3>3
  <2>5. CASE l \in LinesOf(c) /\ c.op = "reconcile"
    <3>1. /\ c.snap \in Line /\ c.on = l
          /\ line'[l].received <= c.snap.received /\ line'[l] \in Line
      BY <1>1, <2>1, <2>5, LineWrittenFacts
    <3>2. c.snap.received \in Nat /\ c.snap.received <= receipts[l] /\ line'[l].received \in Nat
      BY <1>1, <2>5, <3>1 DEF ReceiptInv, SnapsAreReceipted, Line
    <3> QED  BY <1>2, <3>1, <3>2
  <2>6. CASE l \in LinesOf(c) /\ c.op \notin {"receive", "reconcile"}
    <3>1. line'[l].received <= line[l].received /\ line'[l] \in Line
      BY <1>1, <2>1, <2>6, LineWrittenFacts
    <3>2. line'[l].received \in Nat
      BY <3>1 DEF Line
    <3> QED  BY <1>2, <2>2, <3>1, <3>2
  <2> QED  BY <2>3, <2>4, <2>5, <2>6
<1>4. SnapsAreReceipted'
  <2> SUFFICES ASSUME NEW q \in Requests, pc'[q] # "idle", call'[q].op \in {"reconcile", "receive"}
               PROVE  call'[q].snap.received <= receipts'[call'[q].on]
    BY DEF SnapsAreReceipted
  <2>1. pc[q] # "idle" /\ call'[q] = call[q]
    BY <1>1, FinishOthers DEF Commit
  <2>2. /\ call[q].on \in Lines /\ call[q].snap.received \in Nat
        /\ call[q].snap.received <= receipts[call[q].on]
    <3>1. call[q] \in Calls
      BY <1>1, <2>1 DEF TypeInv, CallsInFlight
    <3> QED  BY <2>1, <3>1 DEF ReceiptInv, SnapsAreReceipted, Calls, Line
  <2> QED  BY <1>2, <2>1, <2>2
<1> QED  BY <1>3, <1>4 DEF ArrivalsAreReceipted

LEMMA StepReceipts == ReceiptInv /\ [Next]_vars => ReceiptInv'
<1> SUFFICES ASSUME ReceiptInv, [Next]_vars
             PROVE  ArrivalsAreReceipted' /\ SnapsAreReceipted'
  BY StepTypes DEF ReceiptInv
<1> USE DEF ReceiptInv
<1>1. ASSUME NEW r \in Requests, Start(r)
      PROVE  ArrivalsAreReceipted' /\ SnapsAreReceipted'
  BY <1>1, StartAccepts, AcceptReceipts
<1>2. ASSUME NEW r \in Requests, Write(r)
      PROVE  ArrivalsAreReceipted' /\ SnapsAreReceipted'
  <2>1. /\ UNCHANGED <<line, receipts, call>>
        /\ pc[r] # "idle"
        /\ \A q \in Requests : q # r => pc'[q] = pc[q]
    BY <1>2 DEF Write, history, TypeInv, TypeOK
  <2> QED  BY <2>1 DEF ArrivalsAreReceipted, SnapsAreReceipted
<1>3. ASSUME NEW r \in Requests, Abort(r)
      PROVE  ArrivalsAreReceipted' /\ SnapsAreReceipted'
  BY <1>3, FinishOthers DEF Abort, history, ArrivalsAreReceipted, SnapsAreReceipted
<1>4. ASSUME NEW status \in Elsewhere, WriteDisplayElsewhere(status)
      PROVE  ArrivalsAreReceipted' /\ SnapsAreReceipted'
  BY <1>4 DEF WriteDisplayElsewhere, history, ArrivalsAreReceipted, SnapsAreReceipted
<1>5. CASE UNCHANGED vars
  BY <1>5 DEF vars, history, ArrivalsAreReceipted, SnapsAreReceipted
<1> QED  BY <1>1, <1>2, <1>3, <1>4, <1>5, CommitReceipts DEF Next, Progress

\* No line ever shows goods that were not booked in and credited to the supplier,
\* however receipts, reverts and reconciliations overlap.
THEOREM GoodsAreReceipted == Spec => []ArrivalsAreReceipted
<1>1. Init => ReceiptInv
  <2>1. Init => ArrivalsAreReceipted /\ SnapsAreReceipted
    BY DEF Init, ArrivalsAreReceipted, SnapsAreReceipted, NewLine
  <2> QED  BY <2>1, InitTypes DEF ReceiptInv
<1>2. ReceiptInv => ArrivalsAreReceipted
  BY DEF ReceiptInv
<1> QED  BY <1>1, <1>2, StepReceipts, PTL DEF Spec

-----------------------------------------------------------------------------
(* One request at a time.  Then what a request read is still what the rows  *)
(* say when it commits, and the status it computed is the right one.        *)

Alone == \A q, r \in Requests : pc[q] # "idle" /\ pc[r] # "idle" => q = r

WrittenStatus(r) == IF draft[r] = NoDraft THEN display ELSE draft[r]
StatusAfter(c)   == IF Syncs(c) THEN DerivedAfter(c) ELSE display

FlightInv ==
    /\ Alone
    /\ \A r \in Requests :
          /\ pc[r] # "idle" => Fresh(call[r])
          /\ pc[r] = "writing" => WrittenStatus(r) = StatusAfter(call[r])

ConsistentLine(ln) ==
    /\ ln.warehouse = EntryStatus(ln.supply, ln.received)
    /\ ln.supply = "NOT_SENT" => ln.received = 0

RowsInv ==
    \A l \in Lines : ConsistentLine(line[l]) /\ line[l].received = receipts[l] - returned[l]

DisplayInv == ~foreign => display = Derived(line, missing, display)

SerialInv == TypeInv /\ (races = 0 => FlightInv /\ RowsInv /\ DisplayInv)

LEMMA InitSerial == Init => SerialInv
<1> SUFFICES ASSUME Init
             PROVE  FlightInv /\ RowsInv /\ DisplayInv
  BY InitTypes DEF SerialInv
<1>1. FlightInv
  BY DEF Init, FlightInv, Alone
<1>2. RowsInv
  BY DEF Init, RowsInv, ConsistentLine, NewLine, EntryStatus
<1>3. DisplayInv
  <2>1. InProgress(line) = {}
    BY DEF Init, InProgress, NewLine
  <2>2. display = "WAITING"
    BY DEF Init
  <2> QED  BY <2>1, <2>2 DEF DisplayInv, Derived, Progressed, Final
<1> QED  BY <1>1, <1>2, <1>3

\* Nothing is lost by a correction of a line that is consistent.
LEMMA CorrectedSame ==
    ASSUME NEW ln \in Line, ConsistentLine(ln)
    PROVE  Corrected(ln) = ln
<1>1. /\ ln.supply \in {"NOT_SENT", "SENT"}
      /\ ln = [ln EXCEPT !.warehouse = ln.warehouse]
  BY DEF Line, SupplyStatuses
<1>2. ~(ln.supply # "SENT" /\ (ln.warehouse = "ARRIVED" \/ ln.received > 0))
  <2> SUFFICES ASSUME ln.supply = "NOT_SENT"
               PROVE  ln.warehouse # "ARRIVED" /\ ~(ln.received > 0)
    BY <1>1
  <2>1. ln.received = 0 /\ ln.warehouse = "NOT_SENT"
    BY DEF ConsistentLine, EntryStatus
  <2> QED  BY <2>1
<1>3. Corrected(ln) = [ln EXCEPT !.warehouse = EntryStatus(ln.supply, ln.received)]
  BY <1>2 DEF Corrected
<1> QED  BY <1>1, <1>3 DEF ConsistentLine

\* What a request without rivals makes of a line, case by case.
LEMMA LineWrittenAlone ==
    ASSUME TypeInv, RowsInv, NEW r \in Requests, pc[r] # "idle", Fresh(call[r]),
           NEW l \in LinesOf(call[r])
    PROVE  /\ ConsistentLine(LineWritten(call[r], l))
           /\ LineWritten(call[r], l).received =
                 CASE call[r].op = "receive"       -> line[l].received + call[r].qty
                   [] call[r].op = "revertArrival" -> 0
                   [] OTHER                        -> line[l].received
           /\ call[r].op = "confirm" => /\ line[l].warehouse = "NOT_SENT"
                                        /\ LineWritten(call[r], l).warehouse = "WAITING"
<1> DEFINE c == call[r]
           new == LineWritten(c, l)
<1>1. c \in Calls /\ l \in Lines /\ line[l] \in Line /\ ConsistentLine(line[l])
  BY LineWrittenFacts DEF TypeInv, TypeOK, CallsInFlight, RowsInv
<1>2. line[l].received \in Nat /\ line[l].supply \in {"NOT_SENT", "SENT"}
  BY <1>1 DEF Line, SupplyStatuses
<1>3. CASE c.op = "confirm"
  <2>1. line[l].supply = "NOT_SENT"
    BY <1>2, <1>3 DEF Fresh, LinesOf
  <2>2. line[l].received = 0 /\ line[l].warehouse = "NOT_SENT"
    BY <1>1, <2>1 DEF ConsistentLine, EntryStatus
  <2>3. new = [line[l] EXCEPT !.supply = "SENT", !.warehouse = "WAITING"]
    BY <1>3 DEF LineWritten
  <2>4. new.supply = "SENT" /\ new.warehouse = "WAITING" /\ new.received = line[l].received
    BY <1>1, <2>3 DEF Line
  <2> QED  BY <1>3, <2>2, <2>4, NothingCame DEF ConsistentLine
<1>4. CASE c.op = "revertArrival"
  <2>1. c.on = l /\ line[l].supply = "SENT"
    BY <1>4 DEF Fresh, LinesOf
  <2>2. new = [line[l] EXCEPT !.warehouse = "WAITING", !.received = 0]
    BY <1>4 DEF LineWritten
  <2>3. new.supply = "SENT" /\ new.warehouse = "WAITING" /\ new.received = 0
    BY <1>1, <2>1, <2>2 DEF Line
  <2> QED  BY <1>4, <2>3, NothingCame DEF ConsistentLine
<1>5. CASE c.op = "revertSupply"
  <2>1. line[l].received = 0
    BY <1>5 DEF Fresh, LinesOf
  <2>2. new = NewLine
    BY <1>5 DEF LineWritten
  <2> QED  BY <1>5, <2>1, <2>2 DEF NewLine, ConsistentLine, EntryStatus
<1>6. CASE c.op = "reconcile"
  <2>1. c.snap = line[l]
    BY <1>6 DEF Fresh, LinesOf
  <2>2. new = line[l]
    BY <1>1, <1>6, <2>1, CorrectedSame DEF LineWritten
  <2> QED  BY <1>1, <1>6, <2>2
<1>7. CASE c.op = "receive"
  <2>1. c.on = l /\ c.snap = line[l] /\ line[l].supply = "SENT"
    BY <1>7 DEF Fresh, LinesOf
  <2>2. new = [line[l] EXCEPT !.received = line[l].received + c.qty,
                              !.warehouse = EntryStatus("SENT", line[l].received + c.qty)]
    BY <1>7, <2>1 DEF LineWritten
  <2>3. /\ new.supply = "SENT" /\ new.received = line[l].received + c.qty
        /\ new.warehouse = EntryStatus("SENT", line[l].received + c.qty)
    BY <1>1, <2>1, <2>2 DEF Line
  <2> QED  BY <1>7, <2>3 DEF ConsistentLine
<1> QED  BY <1>1, <1>3, <1>4, <1>5, <1>6, <1>7 DEF LinesOf

LEMMA AcceptSerial ==
    ASSUME SerialInv, NEW r \in Requests, NEW c \in Calls, Accept(r, c), Fresh(c)
    PROVE  races' = 0 => FlightInv' /\ RowsInv' /\ DisplayInv'
<1> SUFFICES ASSUME races' = 0
             PROVE  FlightInv' /\ RowsInv' /\ DisplayInv'
  OBVIOUS
<1>1. races = 0 /\ ~Busy
  BY DEF Accept, CountRace, SerialInv, TypeInv, TypeOK
<1>2. /\ UNCHANGED <<line, missing, display, receipts, returned, foreign, draft>>
      /\ call'[r] = c /\ pc'[r] = "checked"
      /\ \A q \in Requests : q # r => pc'[q] = "idle"
  BY <1>1 DEF Accept, Busy, history, SerialInv, TypeInv, TypeOK
<1>3. RowsInv' /\ DisplayInv'
  BY <1>1, <1>2 DEF SerialInv, RowsInv, DisplayInv
<1>4. Fresh(c)'
  BY <1>2 DEF Fresh
<1>5. FlightInv'
  BY <1>2, <1>4 DEF FlightInv, Alone, Fresh
<1> QED  BY <1>3, <1>5

LEMMA WriteSerial ==
    ASSUME SerialInv, NEW r \in Requests, Write(r)
    PROVE  races' = 0 => FlightInv' /\ RowsInv' /\ DisplayInv'
<1> SUFFICES ASSUME races' = 0
             PROVE  FlightInv' /\ RowsInv' /\ DisplayInv'
  OBVIOUS
<1>1. /\ UNCHANGED <<line, missing, display, receipts, returned, foreign, races, call>>
      /\ pc[r] # "idle"
      /\ \A q \in Requests : q # r => pc'[q] = pc[q] /\ draft'[q] = draft[q]
      /\ draft'[r] = IF StatusAfter(call[r]) = display THEN NoDraft ELSE StatusAfter(call[r])
  BY DEF Write, history, StatusAfter, SerialInv, TypeInv, TypeOK
<1>2. FlightInv /\ RowsInv /\ DisplayInv
  BY <1>1 DEF SerialInv
<1>3. RowsInv' /\ DisplayInv'
  BY <1>1, <1>2 DEF RowsInv, DisplayInv
<1>4. \A q \in Requests : Fresh(call[q])' <=> Fresh(call[q])
  BY <1>1 DEF Fresh
<1>5. Alone'
  BY <1>1, <1>2 DEF FlightInv, Alone
<1>6. WrittenStatus(r)' = StatusAfter(call[r])
  <2>1. display # NoDraft /\ StatusAfter(call[r]) # NoDraft
    <3>1. display \in Statuses /\ DerivedAfter(call[r]) \in Statuses
      BY DerivedType DEF DerivedAfter, SerialInv, TypeInv, TypeOK
    <3> QED  BY <3>1 DEF StatusAfter, Statuses, NoDraft
  <2> QED  BY <1>1, <2>1 DEF WrittenStatus
<1>7. StatusAfter(call[r])' = StatusAfter(call[r])
  BY <1>1 DEF StatusAfter, DerivedAfter, LinesWith, ItemsWith, LineWritten
<1>8. \A q \in Requests : q # r => pc'[q] # "writing"
  BY <1>1, <1>2 DEF FlightInv, Alone
<1>9. \A q \in Requests : pc'[q] # "idle" => Fresh(call[q])'
  BY <1>1, <1>2, <1>4 DEF FlightInv
<1>10. \A q \in Requests : pc'[q] = "writing" => WrittenStatus(q)' = StatusAfter(call[q])'
  BY <1>6, <1>7, <1>8
<1> QED  BY <1>3, <1>5, <1>9, <1>10 DEF FlightInv

LEMMA FinishSerial ==
    ASSUME TypeInv, FlightInv, NEW r \in Requests, pc[r] # "idle", Finish(r)
    PROVE  FlightInv'
<1>1. \A q \in Requests : pc'[q] = "idle"
  BY FinishOthers DEF FlightInv, Alone
<1> QED  BY <1>1 DEF FlightInv, Alone

LEMMA CommitSerial ==
    ASSUME SerialInv, NEW r \in Requests, Commit(r)
    PROVE  races' = 0 => FlightInv' /\ RowsInv' /\ DisplayInv'
<1> SUFFICES ASSUME races' = 0
             PROVE  FlightInv' /\ RowsInv' /\ DisplayInv'
  OBVIOUS
<1> DEFINE c == call[r]
<1>1. FlightInv /\ RowsInv /\ DisplayInv /\ TypeInv
  BY DEF Commit, Finish, SerialInv
<1>2. pc[r] # "idle" /\ c \in Calls /\ Fresh(c)
  BY <1>1 DEF Commit, FlightInv, TypeInv, CallsInFlight
<1>3. FlightInv'
  BY <1>1, <1>2, FinishSerial DEF Commit
<1>4. ASSUME NEW l \in Lines
      PROVE  ConsistentLine(line'[l]) /\ line'[l].received = receipts'[l] - returned'[l]
  <2>1. line'[l] = (IF l \in LinesOf(c) THEN LineWritten(c, l) ELSE line[l])
    BY DEF Commit, LinesWith
  <2>2. /\ ConsistentLine(line[l]) /\ line[l].received = receipts[l] - returned[l]
        /\ line[l].received \in Nat /\ receipts[l] \in Nat /\ returned[l] \in Nat
    BY <1>1 DEF RowsInv, TypeInv, TypeOK, Line
  <2>3. receipts'[l] = Booked(c, l)
    BY DEF Commit
  <2>4. returned'[l] = IF c.op = "revertArrival" /\ c.on = l
                       THEN returned[l] + line[l].received ELSE returned[l]
    BY <1>1 DEF Commit, TypeInv, TypeOK
  <2>5. CASE l \notin LinesOf(c)
    <3>1. ~(c.op = "revertArrival" /\ c.on = l)
      BY <2>5 DEF LinesOf
    <3> QED  BY <2>1, <2>2, <2>3, <2>4, <2>5, <3>1 DEF Booked
  <2>6. CASE l \in LinesOf(c)
    <3>1. /\ ConsistentLine(line'[l])
          /\ line'[l].received =
                CASE c.op = "receive"       -> line[l].received + c.qty
                  [] c.op = "revertArrival" -> 0
                  [] OTHER                  -> line[l].received
      BY <1>1, <1>2, <2>1, <2>6, LineWrittenAlone
    <3>2. c.op = "receive" => c.qty \in Nat
      BY <1>1, <1>2, <2>6, LineWrittenFacts
    <3>3. c.op = "revertArrival" => c.on = l
      BY <2>6 DEF LinesOf
    <3>4. CASE c.op = "receive"
      BY <2>2, <2>3, <2>4, <2>6, <3>1, <3>2, <3>4 DEF Booked
    <3>5. CASE c.op = "revertArrival"
      BY <2>2, <2>3, <2>4, <2>6, <3>1, <3>3, <3>5 DEF Booked
    <3>6. CASE c.op \notin {"receive", "revertArrival"}
      BY <2>2, <2>3, <2>4, <2>6, <3>1, <3>6 DEF Booked
    <3> QED  BY <3>4, <3>5, <3>6
  <2> QED  BY <2>5, <2>6
<1>5. RowsInv'
  BY <1>4 DEF RowsInv
<1>6. DisplayInv'
  <2>1. display' = StatusAfter(c)
    BY <1>1 DEF Commit, FlightInv, WrittenStatus
  <2>2. line' = LinesWith(c) /\ missing' = ItemsWith(c) /\ foreign' = (foreign /\ ~Syncs(c))
    BY DEF Commit
  <2>3. CASE Syncs(c)
    <3>1. display' = Derived(line', missing', display)
      BY <2>1, <2>2, <2>3 DEF StatusAfter, DerivedAfter
    <3> QED  BY <3>1, DerivedTwice DEF DisplayInv
  <2>4. CASE ~Syncs(c)
    <3>1. c.op = "confirm" /\ display' = display /\ missing' = missing /\ foreign' = (foreign /\ TRUE)
      <4>1. c.op = "confirm" /\ display' = display
        BY <2>1, <2>4 DEF Syncs, StatusAfter
      <4>2. missing' = missing
        BY <1>1, <2>2, <4>1 DEF ItemsWith, ItemsOf, TypeInv, TypeOK
      <4> QED  BY <2>2, <2>4, <4>1, <4>2
    <3>2. ASSUME NEW l \in Lines, NEW w \in {"ARRIVED", "PARTIAL_ARRIVED"}
          PROVE  line'[l].warehouse = w <=> line[l].warehouse = w
      <4>1. CASE l \in LinesOf(c)
        <5>1. line'[l] = LineWritten(c, l)
          BY <2>2, <4>1 DEF LinesWith
        <5>2. line[l].warehouse = "NOT_SENT" /\ line'[l].warehouse = "WAITING"
          BY <1>1, <1>2, <3>1, <4>1, <5>1, LineWrittenAlone
        <5> QED  BY <5>2
      <4>2. CASE l \notin LinesOf(c)
        BY <2>2, <4>2 DEF LinesWith
      <4> QED  BY <4>1, <4>2
    <3>3. Derived(line', missing, display) = Derived(line, missing, display)
      BY <3>2, DerivedAlike
    <3> QED  BY <1>1, <3>1, <3>3 DEF DisplayInv
  <2> QED  BY <2>3, <2>4
<1> QED  BY <1>3, <1>5, <1>6

LEMMA StepSerial == SerialInv /\ [Next]_vars => SerialInv'
<1> SUFFICES ASSUME SerialInv, [Next]_vars, races' = 0
             PROVE  FlightInv' /\ RowsInv' /\ DisplayInv'
  BY StepTypes DEF SerialInv
<1>1. ASSUME NEW r \in Requests, Start(r)
      PROVE  FlightInv' /\ RowsInv' /\ DisplayInv'
  BY <1>1, StartAccepts, AcceptSerial DEF SerialInv
<1>2. ASSUME NEW r \in Requests, Abort(r)
      PROVE  FlightInv' /\ RowsInv' /\ DisplayInv'
  <2>1. FlightInv /\ RowsInv /\ DisplayInv /\ TypeInv
    BY <1>2 DEF Abort, Finish, SerialInv
  <2>2. FlightInv'
    BY <1>2, <2>1, FinishSerial DEF Abort
  <2>3. RowsInv' /\ DisplayInv'
    BY <1>2, <2>1 DEF Abort, history, RowsInv, DisplayInv
  <2> QED  BY <2>2, <2>3
<1>3. ASSUME NEW status \in Elsewhere, WriteDisplayElsewhere(status)
      PROVE  FlightInv' /\ RowsInv' /\ DisplayInv'
  <2>1. /\ races = 0 /\ ~Busy
        /\ UNCHANGED <<line, receipts, returned, pc, call>> /\ foreign' = TRUE
    BY <1>3 DEF WriteDisplayElsewhere, CountRace, history, SerialInv, TypeInv, TypeOK
  <2>2. FlightInv'
    BY <2>1 DEF Busy, FlightInv, Alone
  <2>3. RowsInv' /\ DisplayInv'
    BY <2>1 DEF SerialInv, RowsInv, DisplayInv
  <2> QED  BY <2>2, <2>3
<1>4. CASE UNCHANGED vars
  <2>1. FlightInv /\ RowsInv /\ DisplayInv
    BY <1>4 DEF vars, SerialInv
  <2>2. RowsInv' /\ DisplayInv'
    BY <1>4, <2>1 DEF vars, history, RowsInv, DisplayInv
  <2>3. \A q \in Requests :
          /\ Fresh(call[q])' <=> Fresh(call[q])
          /\ WrittenStatus(q)' = WrittenStatus(q)
          /\ StatusAfter(call[q])' = StatusAfter(call[q])
    BY <1>4 DEF vars, history, Fresh, WrittenStatus, StatusAfter, DerivedAfter,
                LinesWith, ItemsWith, LineWritten
  <2>4. FlightInv'
    BY <1>4, <2>1, <2>3 DEF vars, FlightInv, Alone
  <2> QED  BY <2>2, <2>4
<1> QED  BY <1>1, <1>2, <1>3, <1>4, WriteSerial, CommitSerial DEF Next, Progress

\* With one request at a time a line holds what came in for it less what was taken
\* back, through receipts, reverts and reconciliations.
THEOREM SerialStock == Spec => []StockIsAccountedFor
<1>1. SerialInv => StockIsAccountedFor
  BY DEF SerialInv, RowsInv, StockIsAccountedFor
<1> QED  BY <1>1, InitSerial, StepSerial, PTL DEF Spec

\* With one request at a time no line contradicts itself: there is nothing for the
\* reconciliation to correct.
THEOREM SerialLines == Spec => []LinesAreConsistent
<1>1. SerialInv => LinesAreConsistent
  BY DEF SerialInv, RowsInv, ConsistentLine, LinesAreConsistent
<1> QED  BY <1>1, InitSerial, StepSerial, PTL DEF Spec

\* With one request at a time the display status is the one the lines and missing
\* items imply, until somebody else sets it; the confirmation need not derive it.
THEOREM SerialDisplay == Spec => []DisplayFollowsGoods
<1>1. SerialInv => DisplayFollowsGoods
  BY DEF SerialInv, DisplayInv, DisplayFollowsGoods
<1> QED  BY <1>1, InitSerial, StepSerial, PTL DEF Spec

\* With one request at a time the derivation never reopens an order that is canceled
\* or delivered.
THEOREM FinalStays == Spec => SyncKeepsFinal
<1>1. SerialInv /\ [Next]_vars => [Final(display) /\ races' = 0 /\ pc' # pc => display' = display]_vars
  <2> SUFFICES ASSUME SerialInv, Next, Final(display), races' = 0, pc' # pc
               PROVE  display' = display
    OBVIOUS
  <2>1. ASSUME NEW r \in Requests, Start(r)
        PROVE  display' = display
    <3>1. PICK c \in Calls : Accept(r, c)
      BY <2>1, StartAccepts DEF SerialInv
    <3> QED  BY <3>1 DEF Accept
  <2>2. ASSUME NEW r \in Requests, Write(r) \/ Abort(r)
        PROVE  display' = display
    BY <2>2 DEF Write, Abort
  <2>3. ASSUME NEW r \in Requests, Commit(r)
        PROVE  display' = display
    <3>1. FlightInv
      BY <2>3 DEF Commit, Finish, SerialInv
    <3>2. display' = StatusAfter(call[r])
      BY <2>3, <3>1 DEF Commit, FlightInv, WrittenStatus
    <3> QED  BY <3>2 DEF StatusAfter, DerivedAfter, Derived
  <2>4. ASSUME NEW status \in Elsewhere, WriteDisplayElsewhere(status)
        PROVE  display' = display
    BY <2>4 DEF WriteDisplayElsewhere
  <2> QED  BY <2>1, <2>2, <2>3, <2>4 DEF Next, Progress
<1> QED  BY <1>1, InitSerial, StepSerial, PTL DEF Spec, SyncKeepsFinal

-----------------------------------------------------------------------------
(* One request at a time is one change of the goods or of one item: the     *)
(* rows implement OrderGoods.                                               *)

\* The quantities of lines that do not contradict themselves say what their warehouse
\* statuses say.
LEMMA WarehouseSays ==
    ASSUME NEW ln \in Line, ConsistentLine(ln)
    PROVE  /\ ln.warehouse \in {"ARRIVED", "PARTIAL_ARRIVED"} <=> ln.received # 0
           /\ ln.warehouse = "ARRIVED" <=> ~(ln.received < Ordered)
<1>1. /\ ln.received \in Nat /\ ln.supply \in {"NOT_SENT", "SENT"}
      /\ Ordered \in Nat /\ Ordered > 0
  BY BoundsAssumption DEF Line, SupplyStatuses
<1>2. CASE ln.supply = "NOT_SENT"
  BY <1>1, <1>2 DEF ConsistentLine, EntryStatus
<1>3. CASE ln.supply = "SENT"
  <2>1. ln.warehouse = EntryStatus("SENT", ln.received)
    BY <1>3 DEF ConsistentLine
  <2>2. CASE ln.received = 0
    BY <1>1, <2>1, <2>2, NothingCame
  <2>3. CASE ln.received # 0 /\ ln.received >= Ordered
    BY <1>1, <2>1, <2>3 DEF EntryStatus
  <2>4. CASE ln.received # 0 /\ ~(ln.received >= Ordered)
    BY <1>1, <2>1, <2>4 DEF EntryStatus
  <2> QED  BY <2>2, <2>3, <2>4
<1> QED  BY <1>1, <1>2, <1>3

\* The derivation, which reads warehouse statuses, shows what the goods imply.
LEMMA DerivedShows ==
    ASSUME NEW lns \in [Lines -> Line], \A l \in Lines : ConsistentLine(lns[l]),
           NEW items \in [MissingItems -> MissingStatuses], NEW stored,
           NEW g, \A l \in Lines : g[l].stock = lns[l].received
    PROVE  Goods!Show(g, items, stored) = Derived(lns, items, stored)
<1>1. \A l \in Lines :
         /\ lns[l].warehouse \in {"ARRIVED", "PARTIAL_ARRIVED"} <=> g[l].stock # 0
         /\ lns[l].warehouse = "ARRIVED" <=> ~(g[l].stock < Ordered)
  BY WarehouseSays
<1>2. InProgress(lns) = {} <=> \A l \in Lines : g[l].stock = 0
  BY <1>1 DEF InProgress
<1>3. Arrived(lns) # Lines <=> \E l \in Lines : g[l].stock < Ordered
  BY <1>1 DEF Arrived
<1>4. (\A m \in MissingItems : ~IsOpen(items[m]))
        <=> ~(\E m \in MissingItems : items[m] \notin {"ABSENT", "RESOLVED"})
  BY DEF IsOpen
<1> QED  BY <1>2, <1>3, <1>4 DEF Goods!Show, Derived, Progressed, Final

\* Committing without rivals is one step of the goods.
LEMMA CommitIsAtomic ==
    ASSUME SerialInv, NEW r \in Requests, Commit(r), races' = 0
    PROVE  Goods!Next
<1> DEFINE c == call[r]
<1>1. FlightInv /\ RowsInv /\ TypeInv
  BY DEF Commit, Finish, SerialInv
<1>2. pc[r] # "idle" /\ c \in Calls /\ Fresh(c)
  BY <1>1 DEF Commit, FlightInv, TypeInv, CallsInFlight
<1>3. RowsInv' /\ TypeInv'
  BY <1>1, CommitSerial, CommitTypes
<1>4. /\ line' = LinesWith(c) /\ missing' = ItemsWith(c)
      /\ display' = StatusAfter(c)
  BY <1>1 DEF Commit, FlightInv, WrittenStatus
<1>5. /\ line \in [Lines -> Line] /\ line' \in [Lines -> Line]
      /\ missing \in [MissingItems -> MissingStatuses]
      /\ missing' \in [MissingItems -> MissingStatuses]
      /\ \A l \in Lines : ConsistentLine(line[l]) /\ ConsistentLine(line'[l])
  BY <1>1, <1>3 DEF RowsInv, TypeInv, TypeOK
<1>6. /\ \A l \in Lines : Stock[l] = [due   |-> IF line[l].supply = "SENT" THEN Ordered ELSE 0,
                                      stock |-> line[l].received]
      /\ \A l \in Lines : Stock'[l] = [due   |-> IF line'[l].supply = "SENT" THEN Ordered ELSE 0,
                                       stock |-> line'[l].received]
      /\ Stock = [l \in Lines |-> Stock[l]] /\ Stock' = [l \in Lines |-> Stock'[l]]
  BY DEF Stock
<1>7. Syncs(c) => display' = Goods!Show(Stock', missing', display)
  <2> SUFFICES ASSUME Syncs(c)
               PROVE  display' = Goods!Show(Stock', missing', display)
    OBVIOUS
  <2>1. display' = Derived(line', missing', display)
    BY <1>4 DEF StatusAfter, DerivedAfter
  <2>2. \A l \in Lines : Stock'[l].stock = line'[l].received
    BY <1>6
  <2> HIDE DEF c
  <2>3. Goods!Show(Stock', missing', display) = Derived(line', missing', display)
    BY <1>5, <2>2, DerivedShows
  <2> QED  BY <2>1, <2>3
<1>8. \A l \in Lines : l \notin LinesOf(c) => Stock'[l] = Stock[l]
  BY <1>4, <1>6 DEF LinesWith
<1>9. ItemsOf(c) = {} => missing' = missing
  BY <1>4, <1>5 DEF ItemsWith
<1>10. ASSUME NEW l \in Lines, LinesOf(c) = {l}, NEW due, NEW stock, ItemsOf(c) = {}, Syncs(c),
              Stock'[l] = [due |-> due, stock |-> stock]
       PROVE  Goods!Set(l, due, stock)
  <2>1. Stock' = [Stock EXCEPT ![l] = [due |-> due, stock |-> stock]]
    BY <1>6, <1>8, <1>10
  <2>2. missing' = missing
    BY <1>9, <1>10
  <2> QED  BY <1>7, <1>10, <2>1, <2>2 DEF Goods!Set
<1>11. ASSUME NEW m \in MissingItems, ItemsOf(c) = {m}, LinesOf(c) = {}, Syncs(c), NEW status,
              missing'[m] = status
       PROVE  Goods!Give(m, status)
  <2>1. \A i \in MissingItems : i # m => missing'[i] = missing[i]
    BY <1>4, <1>11 DEF ItemsWith
  <2>2. missing' = [missing EXCEPT ![m] = status]
    BY <1>5, <1>11, <2>1
  <2>3. Stock' = Stock
    BY <1>6, <1>8, <1>11
  <2> QED  BY <1>7, <1>11, <2>2, <2>3 DEF Goods!Give
<1>12. CASE c.op = "confirm"
  <2>1. c.lines # {} /\ c.lines \in SUBSET Lines /\ LinesOf(c) = c.lines /\ ItemsOf(c) = {}
    BY <1>2, <1>12 DEF Fresh, Calls, LinesOf, ItemsOf
  <2>2. ASSUME NEW l \in c.lines
        PROVE  Stock[l].due = 0 /\ Stock'[l] = [Stock[l] EXCEPT !.due = Ordered]
    <3>1. l \in Lines /\ line[l] \in Line /\ line[l].supply # "SENT"
      BY <1>2, <1>5, <1>12, <2>1 DEF Fresh
    <3>2. line'[l] = [line[l] EXCEPT !.supply = "SENT", !.warehouse = "WAITING"]
      BY <1>4, <1>12, <2>1, <3>1 DEF LinesWith, LineWritten
    <3>3. line'[l].supply = "SENT" /\ line'[l].received = line[l].received
      BY <3>1, <3>2 DEF Line
    <3>4. Stock[l] = [due |-> 0, stock |-> line[l].received]
      BY <1>6, <3>1
    <3> QED  BY <1>6, <3>1, <3>3, <3>4
  <2>3. Stock' = [l \in Lines |-> IF l \in c.lines THEN [Stock[l] EXCEPT !.due = Ordered] ELSE Stock[l]]
    BY <1>6, <1>8, <2>1, <2>2
  <2>4. missing' = missing /\ display' = display
    BY <1>4, <1>9, <1>12, <2>1 DEF StatusAfter, Syncs
  <2>5. Goods!Order(c.lines)
    BY <2>1, <2>2, <2>3, <2>4 DEF Goods!Order
  <2> QED  BY <2>1, <2>5 DEF Goods!Next
<1>13. CASE c.op \in {"revertArrival", "revertSupply", "reconcile", "receive"}
  <2>1. c.on \in Lines /\ LinesOf(c) = {c.on} /\ ItemsOf(c) = {} /\ Syncs(c)
    BY <1>2, <1>13 DEF Calls, LinesOf, ItemsOf, Syncs
  <2>2. PICK l \in Lines : l = c.on
    BY <2>1
  <2>3. /\ line[l] \in Line /\ ConsistentLine(line[l])
        /\ line[l].received \in Nat /\ Ordered \in Nat
        /\ line'[l] = LineWritten(c, l)
    BY <1>4, <1>5, <2>1, <2>2, BoundsAssumption DEF LinesWith, Line
  <2>4. CASE c.op = "revertArrival"
    <3>1. line'[l] = [line[l] EXCEPT !.warehouse = "WAITING", !.received = 0]
      BY <2>3, <2>4 DEF LineWritten
    <3>2. line[l].supply = "SENT" /\ line[l].received > 0
      BY <1>2, <2>2, <2>4 DEF Fresh
    <3>3. Stock'[l] = [due |-> Ordered, stock |-> 0]
      BY <1>6, <2>3, <3>1, <3>2 DEF Line
    <3>4. Stock[l].due = Ordered /\ Stock[l].stock > 0
      BY <1>6, <3>2
    <3>5. Goods!Set(l, Ordered, 0)
      BY <1>10, <2>1, <2>2, <3>3
    <3>6. Goods!TakeBack(l)
      BY <3>4, <3>5 DEF Goods!TakeBack
    <3> QED  BY <3>6 DEF Goods!Next
  <2>5. CASE c.op = "revertSupply"
    <3>1. line'[l] = NewLine
      BY <2>3, <2>5 DEF LineWritten
    <3>2. line[l].supply = "SENT" /\ line[l].received = 0
      BY <1>2, <2>2, <2>5 DEF Fresh
    <3>3. Stock'[l] = [due |-> 0, stock |-> 0]
      <4>1. line'[l].supply = "NOT_SENT" /\ line'[l].received = 0
        BY <3>1 DEF NewLine
      <4> QED  BY <1>6, <4>1
    <3>4. Stock[l].due > 0 /\ Stock[l].stock = 0
      BY <1>6, <3>2, BoundsAssumption
    <3>5. Goods!Set(l, 0, 0)
      BY <1>10, <2>1, <2>2, <3>3
    <3>6. Goods!CallOff(l)
      BY <3>4, <3>5 DEF Goods!CallOff
    <3> QED  BY <3>6 DEF Goods!Next
  <2>6. CASE c.op = "reconcile"
    <3>1. Corrected(line[l]) # line[l]
      BY <1>2, <2>2, <2>6 DEF Fresh
    <3> QED  BY <2>3, <3>1, CorrectedSame
  <2>7. CASE c.op = "receive"
    <3>1. PICK n : n = c.qty
      OBVIOUS
    <3>2. c.snap = line[l] /\ line[l].supply = "SENT" /\ line[l].received + n <= Ordered
      BY <1>2, <2>2, <2>7, <3>1 DEF Fresh
    <3>3. n \in 1..Ordered
      BY <1>2, <2>7, <3>1 DEF Calls
    <3>4. line'[l] = [line[l] EXCEPT !.received = line[l].received + n,
                                     !.warehouse = EntryStatus("SENT", line[l].received + n)]
      BY <2>3, <2>7, <3>1, <3>2 DEF LineWritten
    <3>5. Stock[l] = [due |-> Ordered, stock |-> line[l].received]
      BY <1>6, <3>2
    <3>6. line'[l].supply = "SENT" /\ line'[l].received = line[l].received + n
      BY <2>3, <3>2, <3>4 DEF Line
    <3>7. Stock'[l] = [due |-> Stock[l].due, stock |-> Stock[l].stock + n]
      BY <1>6, <3>5, <3>6
    <3>8. Goods!Set(l, Stock[l].due, Stock[l].stock + n)
      BY <1>10, <2>1, <2>2, <3>7
    <3>9. Stock[l].stock + n <= Stock[l].due
      BY <3>2, <3>5
    <3>10. Goods!Receive(l, n)
      BY <3>8, <3>9 DEF Goods!Receive
    <3> QED  BY <3>3, <3>10 DEF Goods!Next
  <2> QED  BY <1>13, <2>4, <2>5, <2>6, <2>7
<1>14. CASE c.op \in {"createMissing", "patchMissing"}
  <2>1. /\ c.item \in MissingItems /\ ItemsOf(c) = {c.item} /\ LinesOf(c) = {} /\ Syncs(c)
    BY <1>2, <1>14 DEF Calls, LinesOf, ItemsOf, Syncs
  <2>2. PICK m \in MissingItems : m = c.item
    BY <2>1
  <2>3. missing[m] \in MissingStatuses
    BY <1>5
  <2>4. CASE c.op = "createMissing"
    <3>1. missing'[m] = "OPEN" /\ missing[m] = "ABSENT"
      BY <1>2, <1>4, <2>1, <2>2, <2>4 DEF ItemsWith, Fresh
    <3>2. Goods!Report(m)
      BY <1>11, <2>1, <2>2, <3>1 DEF Goods!Report
    <3> QED  BY <3>2 DEF Goods!Next
  <2>5. CASE c.op = "patchMissing"
    <3>1. PICK to \in MissingStatuses : to = c.to
      BY <1>2, <2>5 DEF Calls
    <3>2. missing'[m] = to /\ MayChangeItem(missing[m], to)
      BY <1>2, <1>4, <2>1, <2>2, <2>5, <3>1 DEF ItemsWith, Fresh
    <3>3. Goods!Give(m, to)
      BY <1>11, <2>1, <2>2, <3>2
    <3>4. to \in [from \in MissingStatuses |->
                     {s \in MissingStatuses : MayChangeItem(from, s)}][missing[m]]
      BY <2>3, <3>1, <3>2
    <3>5. Goods!Advance(m, to)
      BY <3>3, <3>4 DEF Goods!Advance
    <3> QED  BY <3>4, <3>5 DEF Goods!Next
  <2> QED  BY <1>14, <2>4, <2>5
<1> QED  BY <1>2, <1>12, <1>13, <1>14 DEF Calls

LEMMA StepIsAtomic == SerialInv /\ [Next]_vars => [races' = 0 => [Goods!Next]_(Goods!vars)]_vars
<1> SUFFICES ASSUME SerialInv, Next, races' = 0
             PROVE  Goods!Next \/ UNCHANGED <<Stock, missing, display>>
  BY DEF Goods!vars
<1>1. ASSUME NEW r \in Requests, Start(r)
      PROVE  UNCHANGED <<Stock, missing, display>>
  <2>1. PICK c \in Calls : Accept(r, c)
    BY <1>1, StartAccepts DEF SerialInv
  <2> QED  BY <2>1 DEF Accept, Stock
<1>2. ASSUME NEW r \in Requests, Write(r) \/ Abort(r)
      PROVE  UNCHANGED <<Stock, missing, display>>
  BY <1>2 DEF Write, Abort, Stock
<1>3. ASSUME NEW status \in Elsewhere, WriteDisplayElsewhere(status)
      PROVE  Goods!Next
  <2>1. Goods!ShowElsewhere(status)
    BY <1>3 DEF WriteDisplayElsewhere, Goods!ShowElsewhere, Stock
  <2> QED  BY <2>1 DEF Goods!Next
<1> QED  BY <1>1, <1>2, <1>3, CommitIsAtomic DEF Next, Progress

LEMMA InitIsAtomic == Init => Goods!Init
<1> SUFFICES ASSUME Init
             PROVE  Goods!Init
  OBVIOUS
<1>1. \A l \in Lines : line[l] = NewLine
  BY DEF Init
<1>2. NewLine.supply # "SENT" /\ NewLine.received = 0
  BY DEF NewLine
<1>3. Stock = [l \in Lines |-> [due |-> 0, stock |-> 0]]
  BY <1>1, <1>2 DEF Stock
<1> QED  BY <1>3 DEF Init, Goods!Init

\* As long as no two requests overlap, each confirmation, receipt, revert and change of
\* a missing item is one step of the goods, checks and derived status included, and a
\* reconciliation finds nothing to do.
THEOREM SerialRequestsAreAtomic == Spec => AtomicWhenAlone
<1> QED  BY InitIsAtomic, InitSerial, StepSerial, StepIsAtomic, PTL DEF Spec, AtomicWhenAlone

AloneInv == SerialInv /\ races = 0

\* An API that never serves two requests of an order at once implements the goods.
THEOREM OneAtATimeIsOrderGoods == MaxRaces = 0 /\ Spec => Goods!Spec
<1> SUFFICES ASSUME MaxRaces = 0
             PROVE  Spec => Goods!Spec
  OBVIOUS
<1>1. Init => AloneInv
  BY InitSerial DEF Init, AloneInv
<1>2. AloneInv /\ [Next]_vars => AloneInv' /\ [Goods!Next]_(Goods!vars)
  <2> SUFFICES ASSUME AloneInv, [Next]_vars
               PROVE  AloneInv' /\ [Goods!Next]_(Goods!vars)
    OBVIOUS
  <2>1. races' = 0
    <3>1. ASSUME NEW r \in Requests, Start(r)
          PROVE  races' = 0
      <4>1. PICK c \in Calls : Accept(r, c)
        BY <3>1, StartAccepts DEF AloneInv, SerialInv
      <4> QED  BY <4>1 DEF Accept, CountRace, AloneInv
    <3>2. ASSUME NEW r \in Requests, Progress(r) \/ Abort(r)
          PROVE  races' = 0
      BY <3>2 DEF Progress, Write, Commit, Abort, Finish, AloneInv
    <3>3. ASSUME NEW status \in Elsewhere, WriteDisplayElsewhere(status)
          PROVE  races' = 0
      BY <3>3 DEF WriteDisplayElsewhere, CountRace, AloneInv
    <3>4. CASE UNCHANGED vars
      BY <3>4 DEF vars, AloneInv
    <3> QED  BY <3>1, <3>2, <3>3, <3>4 DEF Next
  <2>2. [Goods!Next]_(Goods!vars)
    <3>1. CASE UNCHANGED vars
      BY <3>1 DEF vars, Goods!vars, Stock
    <3>2. CASE ~UNCHANGED vars
      BY <2>1, <3>2, StepIsAtomic DEF AloneInv
    <3> QED  BY <3>1, <3>2
  <2> QED  BY <2>1, <2>2, StepSerial DEF AloneInv
<1> QED  BY <1>1, <1>2, InitIsAtomic, PTL DEF Spec, Goods!Spec
=============================================================================
