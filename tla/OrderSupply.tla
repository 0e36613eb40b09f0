---------------------------- MODULE OrderSupply ----------------------------
(***************************************************************************)
(* Supplying one sales order: ordering its lines from the supplier, taking *)
(* the goods in, undoing both, the missing-item records, and the display   *)
(* status of the order that is derived from all of them.                   *)
(*                                                                         *)
(*   Start    the rows are read and checked; all handlers do this outside  *)
(*            the transaction but the goods receipt, whose transaction     *)
(*            starts with that read: it locks nothing either way;          *)
(*   Write    the rows are updated from what Start read (and locked), and  *)
(*            syncSalesOrderDisplayStatusFromLines computes the display    *)
(*            status from the rows this transaction sees;                  *)
(*   Commit   everything becomes visible.                                  *)
(*                                                                         *)
(* Shipments, deliveries and PATCH .../status write the display status as  *)
(* well: here they are one environment action.  The order's version, which *)
(* only counts the writes of the status, is left out.                      *)
(***************************************************************************)
EXTENDS Integers, FiniteSets, FiniteSetsExt

CONSTANTS
    Requests,      \* the requests the API can be serving at one moment
    Lines,         \* the order's lines
    MissingItems,  \* the missing-item records it may get
    Ordered,       \* qtyOrdered of every line
    Elsewhere,     \* the statuses other writers of the order may set
    Targets,       \* the statuses clients set a missing item to
    MaxReceived,   \* bound: goods booked in for the order, ever
    MaxRaces       \* bound: how often a request meets another one

VARIABLES
    line,      \* order_lines: supplyStatus, warehouseEntryStatus, qtyReceived
    missing,   \* order_missing_items.status
    display,   \* sales_orders.displayStatus
    receipts,  \* quantity of each line's incoming_goods_records, credited to
               \* the supplier in the same transaction
    returned,  \* quantity taken back by revertOrderLineWarehouseArrival (history)
    foreign,   \* the display status was last written by somebody else (history)
    races,     \* how often a request, or another writer, met one (history)
    pc,        \* where each request stands
    call,      \* the call each request is serving, with the rows it read
    draft      \* the display status it is about to write, if that is another one

history == <<receipts, returned>>
vars == <<line, missing, display, receipts, returned, foreign, races,
          pc, call, draft>>

-----------------------------------------------------------------------------
(* Lines                                                                    *)

SupplyStatuses    == {"NOT_SENT", "SENT"}
WarehouseStatuses == {"NOT_SENT", "WAITING", "PARTIAL_ARRIVED", "ARRIVED"}

\* shipmentReady is not kept: nothing ever sets it (canMarkShipmentReady is FALSE).
Line == [supply : SupplyStatuses, warehouse : WarehouseStatuses, received : 0..Ordered]

NewLine == [supply |-> "NOT_SENT", warehouse |-> "NOT_SENT", received |-> 0]

\* computeWarehouseEntryStatusFromQty
EntryStatus(supply, received) ==
    IF supply # "SENT" THEN "NOT_SENT"
    ELSE CASE received = 0        -> "WAITING"
           [] received >= Ordered -> "ARRIVED"
           [] OTHER               -> "PARTIAL_ARRIVED"

\* buildOrderLineStateCorrection
Corrected(ln) ==
    IF ln.supply # "SENT" /\ (ln.warehouse = "ARRIVED" \/ ln.received > 0) THEN NewLine
    ELSE [ln EXCEPT !.warehouse = EntryStatus(ln.supply, ln.received)]

-----------------------------------------------------------------------------
(* Missing items                                                            *)

MissingStatuses == {"ABSENT", "OPEN", "ORDERED", "ARRIVED", "READY_FOR_SHIPMENT", "RESOLVED"}

ItemRank(s) ==
    CASE s = "ABSENT" -> 0 [] s = "OPEN" -> 1 [] s = "ORDERED" -> 2
      [] s = "ARRIVED" -> 3 [] s = "READY_FOR_SHIPMENT" -> 4 [] OTHER -> 5

\* canTransitionMissingItemStatus: forwards, steps may be skipped.
MayChangeItem(from, to) == from # "ABSENT" /\ ItemRank(from) < ItemRank(to)

\* isMissingItemResolvedStatus, negated.
IsOpen(s) == s \notin {"ABSENT", "RESOLVED"}

-----------------------------------------------------------------------------
(* Display status                                                           *)

\* The statuses other writers use ("Sevk Planlandi", "Yola Cikti", ...) that the
\* derivation treats alike are one value.
Statuses == {"WAITING", "PARTIAL_ARRIVED", "ARRIVED", "SHIPMENT_READY", "OTHER",
             "CANCELED", "DELIVERED"}

ASSUME BoundsAssumption ==
    /\ Elsewhere \subseteq Statuses /\ Targets \subseteq MissingStatuses
    /\ Ordered \in Nat \ {0} /\ MaxReceived \in Nat /\ MaxRaces \in Nat
    /\ Lines # {} /\ IsFiniteSet(Lines)

Final(s) == s \in {"CANCELED", "DELIVERED"}

Arrived(lns)    == {l \in Lines : lns[l].warehouse = "ARRIVED"}
InProgress(lns) == {l \in Lines : lns[l].warehouse \in {"ARRIVED", "PARTIAL_ARRIVED"}}

\* deriveOrderDisplayStatusFromLines, for an order that is not final.
Progressed(lns, items) ==
    IF InProgress(lns) = {} THEN "WAITING"
    ELSE IF Arrived(lns) # Lines THEN "PARTIAL_ARRIVED"
    ELSE IF \A m \in MissingItems : ~IsOpen(items[m]) THEN "SHIPMENT_READY" ELSE "ARRIVED"

\* Fault: an order that was canceled is derived again.
DerivedAfterCancel(lns, items, stored) ==
    IF stored = "DELIVERED" THEN stored ELSE Progressed(lns, items)

Derived(lns, items, stored) ==
    IF Final(stored) THEN stored ELSE Progressed(lns, items)

-----------------------------------------------------------------------------
(* Calls: the operation, the rows it concerns as Start read them.           *)

Calls == [op : {"confirm"}, lines : SUBSET Lines]
         \cup [op : {"revertArrival", "revertSupply"}, on : Lines]
         \cup [op : {"reconcile"}, on : Lines, snap : Line]
         \cup [op : {"receive"}, on : Lines, snap : Line, qty : 1..Ordered]
         \cup [op : {"createMissing"}, item : MissingItems]
         \cup [op : {"patchMissing"}, item : MissingItems, to : MissingStatuses]
NoCall == [op |-> "none"]

LinesOf(c) ==
    CASE c.op = "confirm" -> c.lines
      [] c.op \in {"revertArrival", "revertSupply", "reconcile", "receive"} -> {c.on}
      [] OTHER -> {}

ItemsOf(c) == IF c.op \in {"createMissing", "patchMissing"} THEN {c.item} ELSE {}

\* Fault: the warehouse status is forgotten when the goods are taken back.
LineWrittenAlmost(c, l) ==
    CASE c.op = "confirm"      -> [line[l] EXCEPT !.supply = "SENT", !.warehouse = "WAITING"]
      [] c.op = "revertArrival" -> [line[l] EXCEPT !.received = 0]
      [] c.op = "revertSupply"  -> NewLine
      [] c.op = "reconcile"     -> Corrected(c.snap)
      [] OTHER -> [line[l] EXCEPT
                      !.received  = c.snap.received + c.qty,
                      !.warehouse = EntryStatus(c.snap.supply, c.snap.received + c.qty)]

\* The row of line l as the call leaves it.  The columns it does not set keep what
\* is there by then; those it sets are computed from what Start read.
LineWritten(c, l) ==
    CASE c.op = "confirm"      -> [line[l] EXCEPT !.supply = "SENT", !.warehouse = "WAITING"]
      [] c.op = "revertArrival" -> [line[l] EXCEPT !.warehouse = "WAITING", !.received = 0]
      [] c.op = "revertSupply"  -> NewLine
      [] c.op = "reconcile"     -> Corrected(c.snap)
      [] OTHER -> [line[l] EXCEPT
                      !.received  = c.snap.received + c.qty,
                      !.warehouse = EntryStatus(c.snap.supply, c.snap.received + c.qty)]

LinesWith(c) == [l \in Lines |-> IF l \in LinesOf(c) THEN LineWritten(c, l) ELSE line[l]]

ItemsWith(c) ==
    [m \in MissingItems |->
        IF m \notin ItemsOf(c) THEN missing[m]
        ELSE IF c.op = "createMissing" THEN "OPEN" ELSE c.to]

Locked(r) ==
    \E q \in Requests \ {r} :
        /\ pc[q] = "writing"
        /\ \/ LinesOf(call[q]) \cap LinesOf(call[r]) # {}
           \/ ItemsOf(call[q]) \cap ItemsOf(call[r]) # {}

NoDraft == "NONE"

-----------------------------------------------------------------------------
Init ==
    /\ line = [l \in Lines |-> NewLine]
    /\ missing = [m \in MissingItems |-> "ABSENT"]
    /\ display = "WAITING"
    /\ receipts = [l \in Lines |-> 0]
    /\ returned = [l \in Lines |-> 0]
    /\ foreign = FALSE
    /\ races = 0
    /\ pc = [r \in Requests |-> "idle"]
    /\ call = [r \in Requests |-> NoCall]
    /\ draft = [r \in Requests |-> NoDraft]

Busy == \E q \in Requests : pc[q] # "idle"

CountRace ==
    /\ Busy => races < MaxRaces
    /\ races' = IF Busy THEN races + 1 ELSE races

Accept(r, c) ==
    /\ pc[r] = "idle"
    /\ pc' = [pc EXCEPT ![r] = "checked"]
    /\ call' = [call EXCEPT ![r] = c]
    /\ CountRace
    /\ UNCHANGED <<line, missing, display, history, foreign, draft>>

StartConfirm(r, ls) ==
    /\ ls # {}
    /\ \A l \in ls : line[l].supply # "SENT"
    /\ Accept(r, [op |-> "confirm", lines |-> ls])

StartRevertArrival(r, l) ==
    /\ line[l].supply = "SENT"
    /\ line[l].received > 0
    /\ Accept(r, [op |-> "revertArrival", on |-> l])

\* Fault: goods that came in do not stand in the way.
CanRevertSentOnly(ln) == ln.supply = "SENT" /\ ln.warehouse # "ARRIVED"

\* canRevertSupplySent
CanRevertSupplySent(ln) ==
    ln.supply = "SENT" /\ ln.received = 0 /\ ln.warehouse # "ARRIVED"

StartRevertSupply(r, l) ==
    /\ CanRevertSupplySent(line[l])
    /\ Accept(r, [op |-> "revertSupply", on |-> l])

StartReconcile(r, l) ==
    /\ Corrected(line[l]) # line[l]
    /\ Accept(r, [op |-> "reconcile", on |-> l, snap |-> line[l]])

\* Fault: the quantity is compared with what was ordered.
FitsOrdered(l, qty) == qty <= Ordered

FitsPending(l, qty) == qty <= Ordered - line[l].received

StartReceipt(r, l, qty) ==
    /\ line[l].supply = "SENT"
    /\ FitsPending(l, qty)
    /\ MapThenSumSet(LAMBDA k : receipts[k], Lines) + qty <= MaxReceived
    /\ Accept(r, [op |-> "receive", on |-> l, snap |-> line[l], qty |-> qty])

\* The record's id is taken from the clock: a new one each time.
StartCreateMissing(r, m) ==
    /\ missing[m] = "ABSENT"
    /\ \A q \in Requests : m \notin ItemsOf(call[q])
    /\ Accept(r, [op |-> "createMissing", item |-> m])

\* PATCH .../status and POST .../ready-for-shipment.
StartPatchMissing(r, m, to) ==
    /\ MayChangeItem(missing[m], to)
    /\ Accept(r, [op |-> "patchMissing", item |-> m, to |-> to])

\* confirmOrderLineSupplySent alone does not derive the display status again.
Syncs(c) == c.op # "confirm"

\* Fault: the status is computed from the rows as they were.
DerivedBefore(c) == Derived(line, missing, display)

\* The transaction sees the committed rows and its own writes.
DerivedAfter(c) == Derived(LinesWith(c), ItemsWith(c), display)

Write(r) ==
    LET status == IF Syncs(call[r]) THEN DerivedAfter(call[r]) ELSE display IN
    /\ pc[r] = "checked"
    /\ ~Locked(r)
    /\ pc' = [pc EXCEPT ![r] = "writing"]
    /\ draft' = [draft EXCEPT ![r] = IF status = display THEN NoDraft ELSE status]
    /\ UNCHANGED <<line, missing, display, history, foreign, races, call>>

Finish(r) ==
    /\ pc' = [pc EXCEPT ![r] = "idle"]
    /\ call' = [call EXCEPT ![r] = NoCall]
    /\ draft' = [draft EXCEPT ![r] = NoDraft]
    /\ UNCHANGED races

\* Fault: taking the goods back deletes the records they came in with.
BookedOrErased(c, l) ==
    IF l \notin LinesOf(c) THEN receipts[l]
    ELSE CASE c.op = "receive"       -> receipts[l] + c.qty
           [] c.op = "revertArrival" -> 0
           [] OTHER                  -> receipts[l]

\* incomingGoodsRecord.create and the supplier's credit; nothing takes them back.
Booked(c, l) ==
    IF l \in LinesOf(c) /\ c.op = "receive" THEN receipts[l] + c.qty ELSE receipts[l]

Commit(r) ==
    LET c == call[r] IN
    /\ pc[r] = "writing"
    /\ line' = LinesWith(c)
    /\ missing' = ItemsWith(c)
    /\ display' = IF draft[r] = NoDraft THEN display ELSE draft[r]
    /\ receipts' = [l \in Lines |-> Booked(c, l)]
    /\ returned' = IF c.op = "revertArrival"
                   THEN [returned EXCEPT ![c.on] = @ + line[c.on].received] ELSE returned
    /\ foreign' = (foreign /\ ~Syncs(c))
    /\ Finish(r)

\* The request dies before it commits: the transaction is rolled back.
Abort(r) ==
    /\ pc[r] # "idle"
    /\ Finish(r)
    /\ UNCHANGED <<line, missing, display, history, foreign>>

\* Shipments, delivery confirmations and PATCH .../status.
WriteDisplayElsewhere(status) ==
    /\ status # display
    /\ display' = status
    /\ foreign' = TRUE
    /\ CountRace
    /\ UNCHANGED <<line, missing, history, pc, call, draft>>

Start(r) ==
    \/ \E ls \in SUBSET Lines : StartConfirm(r, ls)
    \/ \E l \in Lines : StartRevertArrival(r, l) \/ StartRevertSupply(r, l) \/ StartReconcile(r, l)
    \/ \E l \in Lines, qty \in 1..Ordered : StartReceipt(r, l, qty)
    \/ \E m \in MissingItems : StartCreateMissing(r, m)
    \/ \E m \in MissingItems, to \in Targets : StartPatchMissing(r, m, to)

Progress(r) == Write(r) \/ Commit(r)

Next ==
    \/ \E r \in Requests : Start(r) \/ Progress(r) \/ Abort(r)
    \/ \E status \in Elsewhere : WriteDisplayElsewhere(status)

Spec == Init /\ [][Next]_vars

-----------------------------------------------------------------------------
(* What must hold.                                                          *)

\* Every variable has the shape its table or record has in the code; no line ever
\* holds more than was ordered.
TypeOK ==
    /\ line \in [Lines -> Line]
    /\ missing \in [MissingItems -> MissingStatuses]
    /\ display \in Statuses
    /\ receipts \in [Lines -> Nat] /\ returned \in [Lines -> Nat]
    /\ foreign \in BOOLEAN /\ races \in Nat
    /\ pc \in [Requests -> {"idle", "checked", "writing"}]
    /\ call \in [Requests -> Calls \cup {NoCall}]
    /\ draft \in [Requests -> Statuses \cup {NoDraft}]

\* A line never shows goods nobody booked in, and none that the supplier was not
\* credited for: lost updates of qtyReceived only ever lose goods.
ArrivalsAreReceipted == \A l \in Lines : line[l].received <= receipts[l]

\* As long as no two requests overlap, what a line holds is what came in for it
\* less what was taken back (and came in, and was credited, once more).
StockIsAccountedFor ==
    races = 0 => \A l \in Lines : line[l].received = receipts[l] - returned[l]

\* ... the warehouse status is the one the quantities imply, and a line that was
\* never ordered from the supplier holds nothing: the contradictions that
\* detectOrderLineStateInconsistency looks for do not arise.
LinesAreConsistent ==
    races = 0 => \A l \in Lines :
        /\ line[l].warehouse = EntryStatus(line[l].supply, line[l].received)
        /\ line[l].supply = "NOT_SENT" => line[l].received = 0

\* ... and the order's display status follows its lines and missing items, although
\* a confirmation does not derive it; until somebody else writes it.
DisplayFollowsGoods ==
    races = 0 /\ ~foreign => display = Derived(line, missing, display)

\* Goods and missing items never reopen an order that is canceled or delivered.
SyncKeepsFinal ==
    [][Final(display) /\ races' = 0 /\ pc' # pc => display' = display]_vars

-----------------------------------------------------------------------------
(* The abstract goods these requests implement when no two of them overlap. *)

\* Warehouse statuses, snapshots and transactions are the means and stay hidden.
Stock == [l \in Lines |-> [due   |-> IF line[l].supply = "SENT" THEN Ordered ELSE 0,
                           stock |-> line[l].received]]

Goods == INSTANCE OrderGoods
            WITH Items <- MissingItems, Others <- Elsewhere, Ends <- {"CANCELED", "DELIVERED"},
                 Later <- [from \in MissingStatuses |->
                              {to \in MissingStatuses : MayChangeItem(from, to)}],
                 goods <- Stock, items <- missing, shown <- display

\* A handler reads, checks, writes and derives in several steps.  As long as no two
\* requests overlap each is one change of the goods or of one item, with the order's
\* status right for what it leaves: no warehouse status that lags behind, no status
\* derived from rows as they were.
AtomicWhenAlone == Goods!Init /\ [][races' = 0 => [Goods!Next]_(Goods!vars)]_vars
=============================================================================
