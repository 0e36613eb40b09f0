-------------------------- MODULE CustomerPayments --------------------------
(***************************************************************************)
(* The customer side of the payment ledger of one sales order: creating    *)
(* the order with an optional first payment, posting, approving, rejecting *)
(* and reversing payments, and the supplier-ledger entry that every mail   *)
(* order carries along.                                                    *)
(*                                                                         *)
(* Each HTTP request reads and checks the database OUTSIDE its transaction *)
(* and then writes inside one at PostgreSQL's default isolation level,     *)
(* READ COMMITTED.  A request that recomputes the balance therefore takes  *)
(* three steps:                                                            *)
(*                                                                         *)
(*   Start*     the reads and guards before prisma.$transaction;           *)
(*   WriteRow   the payment row is inserted or updated (it stays           *)
(*              uncommitted and locked) and the POSTED rows this           *)
(*              transaction can see are summed;                            *)
(*   Commit     the order row is overwritten with that sum, the events are *)
(*              written and everything becomes visible.                    *)
(*                                                                         *)
(* Requests that do not touch the balance take two.  The table is indexed  *)
(* by primary key; a row whose status is "ABSENT" is not in the database.  *)
(***************************************************************************)
EXTENDS Integers, FiniteSets, FiniteSetsExt

CONSTANTS
    Requests,        \* the requests the API can be serving at one moment
    PostBodies,      \* bodies of POST .../payments: [key, kind, amount]
    RefundBodies,    \* bodies of POST .../reverse: [key, amount]
    InitialAmounts,  \* values of paidAmount in POST /orders
    Roles,           \* roles of the users that call the API
    OrderTotal,      \* totalAmount of the order
    Overlap          \* whether two requests may be in flight at once

VARIABLES
    payments,        \* payment_transactions, by primary key
    order,           \* the balance columns of the sales_orders row
    supplierLedger,  \* status of each payment's supplier_ledger_entries row
    supplierActive,  \* Supplier.isActive
    postedEvents,    \* how many payment.posted events each payment has
    pc,              \* where each request stands
    call,            \* the call each request is serving
    draft,           \* the uncommitted writes of each open transaction
    acked            \* the inserts the clients have seen succeed

vars == <<payments, order, supplierLedger, supplierActive, postedEvents,
          pc, call, draft, acked>>

-----------------------------------------------------------------------------
(* Identifiers.  A body without a key ("") gets one derived from its        *)
(* content; the primary key is a hash of the order and that key, modelled   *)
(* as an injective constructor.                                             *)

Null == << >>

EffectiveKey(b) == IF b.key = "" THEN <<"IDK", b.amount, b.kind>>
                                 ELSE <<"key", b.key>>

PostId(k) == <<"PTX", k>>
InitialId == <<"PTX", <<"initial">>>>

RefundKey(p, b, amount) == IF b.key = "" THEN <<"IDKR", p, amount>>
                                         ELSE <<"key", b.key>>
RefundId(p, k) == <<"RFX", p, k>>

PostKeys  == {EffectiveKey(b) : b \in PostBodies}
SourceIds == {InitialId} \cup {PostId(k) : k \in PostKeys}
Amounts   == {0} \cup InitialAmounts \cup {b.amount : b \in PostBodies}
                            \cup {b.amount : b \in RefundBodies}
RefundKeys(p) == {RefundKey(p, b, a) : b \in RefundBodies, a \in Amounts}
RefundIds == UNION {{RefundId(p, k) : k \in RefundKeys(p)} : p \in SourceIds}
PaymentIds == SourceIds \cup RefundIds
Keys == PostKeys \cup UNION {RefundKeys(p) : p \in SourceIds}

-----------------------------------------------------------------------------
(* Rows                                                                     *)

ApproverRoles == {"ADMIN", "MANAGER", "FINANCE"}
AllRoles == ApproverRoles \cup {"SALES", "OPERATION"}

ASSUME CallersAssumption == Roles \subseteq AllRoles /\ Overlap \in BOOLEAN
ASSUME AmountsAssumption ==
    /\ OrderTotal \in Nat
    /\ InitialAmounts \subseteq 0..OrderTotal
    /\ \A b \in PostBodies : b.amount \in Nat \ {0} /\ b.kind \in {"CAPTURE", "MAIL_ORDER"}
    /\ \A b \in RefundBodies : b.amount \in Nat

AutoApproves(role, kind) ==
    role \in ApproverRoles \/ (kind # "MAIL_ORDER" /\ role = "SALES")

InitialStatus(auto) == IF auto THEN "POSTED" ELSE "PENDING_APPROVAL"

Row == [kind   : {"CAPTURE", "MAIL_ORDER", "REFUND"},
        status : {"ABSENT", "PENDING_APPROVAL", "POSTED", "CANCELLED"},
        amount : Amounts,
        key    : Keys \cup {Null},
        source : PaymentIds \cup {Null}]

AbsentRow == [kind |-> "CAPTURE", status |-> "ABSENT", amount |-> 0,
              key |-> Null, source |-> Null]

Exists(p) == payments[p].status # "ABSENT"

\* Fault: the index on reversalSourcePaymentId is missing.
CollidesOnKeyOnly(r1, r2) == r1.key # Null /\ r1.key = r2.key

\* The unique indexes: (salesOrderId, idempotencyKey) and
\* (reversalSourcePaymentId).  NULLs never collide.
Collides(r1, r2) ==
    \/ r1.key # Null /\ r1.key = r2.key
    \/ r1.source # Null /\ r1.source = r2.source

-----------------------------------------------------------------------------
(* Balance                                                                  *)

\* Fault: Math.max(0, ...) forgotten.
NonNegativeUnclamped(n) == n

NonNegative(n) == IF n \in Nat THEN n ELSE 0

Signed(row) == IF row.kind = "REFUND" THEN 0 - row.amount ELSE row.amount

PostedEntries(tbl) ==
    {[id |-> p, delta |-> Signed(tbl[p])] :
        p \in {q \in PaymentIds : tbl[q].status = "POSTED"}}

SumDeltas(entries) == MapThenSumSet(LAMBDA e : e.delta, entries)

SumPosted(tbl) == NonNegative(SumDeltas(PostedEntries(tbl)))

Balance(paid, version) ==
    LET due == NonNegative(OrderTotal - paid)
    IN  [paid |-> paid, remaining |-> due, fullyPaid |-> (due = 0), version |-> version]

\* Before POST /orders there is no row; version 0 marks that.
NoOrder == [paid |-> 0, remaining |-> 0, fullyPaid |-> FALSE, version |-> 0]

Placed == order.version > 0
-----------------------------------------------------------------------------
(* Calls.  A request in flight serves one of these.                         *)

PostCalls     == [op : {"post"}, auto : BOOLEAN, body : PostBodies]
DecisionCalls == [op : {"approve", "reject"}, target : PaymentIds]
ReverseCalls  == [op : {"reverse"}, target : SourceIds, body : RefundBodies]
Calls  == PostCalls \cup DecisionCalls \cup ReverseCalls
NoCall == [op |-> "none"]

RefundAmount(c) == IF c.body.amount = 0 THEN payments[c.target].amount ELSE c.body.amount

\* The primary key of the row the call writes.
RowId(c) ==
    CASE c.op = "post"    -> PostId(EffectiveKey(c.body))
      [] c.op = "reverse" -> RefundId(c.target, RefundKey(c.target, c.body, RefundAmount(c)))
      [] OTHER            -> c.target

\* The row as the call leaves it.
RowWritten(c) ==
    CASE c.op = "post" ->
            [kind |-> c.body.kind, status |-> InitialStatus(c.auto),
             amount |-> c.body.amount, key |-> EffectiveKey(c.body), source |-> Null]
      [] c.op = "reverse" ->
            [kind |-> "REFUND", status |-> "POSTED", amount |-> RefundAmount(c),
             key |-> RefundKey(c.target, c.body, RefundAmount(c)), source |-> c.target]
      [] c.op = "approve" -> [payments[c.target] EXCEPT !.status = "POSTED"]
      [] OTHER            -> [payments[c.target] EXCEPT !.status = "CANCELLED"]

Inserts(c) == c.op \in {"post", "reverse"}

\* Whether the call goes through finalizeOrderPaymentPosting.
Finalizes(c) ==
    \/ c.op \in {"approve", "reverse"}
    \/ c.op = "post" /\ c.auto

IsMailOrder(row) == row.kind = "MAIL_ORDER"

NoDraft == [id |-> Null, row |-> AbsentRow, paid |-> 0]

\* Some other open transaction holds the row, or an index entry, that the call
\* is about to write: the statement waits for it to end.
Locked(r) ==
    \E q \in Requests \ {r} :
        /\ pc[q] = "writing"
        /\ \/ draft[q].id = RowId(call[r])
           \/ Inserts(call[r]) /\ Collides(draft[q].row, RowWritten(call[r]))

\* Fault: the payment is upserted instead of created.
NeverDuplicate(c) == FALSE

\* The insert runs into a committed row with the same primary key or index entry.
Duplicate(c) ==
    /\ Inserts(c)
    /\ \/ Exists(RowId(c))
       \/ \E p \in PaymentIds : Exists(p) /\ Collides(payments[p], RowWritten(c))

-----------------------------------------------------------------------------
Init ==
    /\ payments = [p \in PaymentIds |-> AbsentRow]
    /\ order = NoOrder
    /\ supplierLedger = [p \in PaymentIds |-> "NONE"]
    /\ supplierActive = TRUE
    /\ postedEvents = [p \in PaymentIds |-> 0]
    /\ pc = [r \in Requests |-> "idle"]
    /\ call = [r \in Requests |-> NoCall]
    /\ draft = [r \in Requests |-> NoDraft]
    /\ acked = {}

\* POST /orders: one transaction, invisible to everybody until it commits.
CreateSalesOrder(role, kind, amount) ==
    LET posted == AutoApproves(role, kind)
        row == [kind |-> kind, status |-> InitialStatus(posted),
                amount |-> amount, key |-> Null, source |-> Null]
        tbl == [payments EXCEPT ![InitialId] = row]
    IN
    /\ ~Placed
    /\ amount > 0 /\ IsMailOrder(row) => supplierActive
    /\ IF amount = 0
       THEN /\ order' = Balance(0, 1)
            /\ UNCHANGED <<payments, supplierLedger, postedEvents>>
       ELSE /\ payments' = tbl
            /\ order' = IF posted THEN Balance(SumPosted(tbl), 2) ELSE Balance(0, 1)
            /\ supplierLedger' = IF ~IsMailOrder(row) THEN supplierLedger
                                 ELSE [supplierLedger EXCEPT ![InitialId] =
                                        IF posted THEN "APPROVED" ELSE "PENDING"]
            /\ postedEvents' = IF posted THEN [postedEvents EXCEPT ![InitialId] = 1]
                               ELSE postedEvents
    /\ UNCHANGED <<supplierActive, pc, call, draft, acked>>

-----------------------------------------------------------------------------
(* Reads and guards outside the transaction.  A refused call changes        *)
(* nothing, so only the accepted ones are steps.                            *)

MayStart(r) ==
    /\ Placed
    /\ pc[r] = "idle"
    /\ Overlap \/ \A q \in Requests : pc[q] = "idle"

Accept(r, c) ==
    /\ pc' = [pc EXCEPT ![r] = "checked"]
    /\ call' = [call EXCEPT ![r] = c]
    /\ UNCHANGED <<payments, order, supplierLedger, supplierActive,
                   postedEvents, draft, acked>>

FitsBalance(b) == SumPosted(payments) + b.amount <= OrderTotal

StartPost(r, role, b) ==
    /\ MayStart(r)
    /\ FitsBalance(b)
    /\ Accept(r, [op |-> "post", auto |-> AutoApproves(role, b.kind), body |-> b])

\* Fault: a payment that is already posted may be approved once more.
UndecidedOrPosted(p) == payments[p].status \in {"PENDING_APPROVAL", "POSTED"}

Undecided(p) == payments[p].status = "PENDING_APPROVAL"

StartDecision(r, op, role, p) ==
    /\ MayStart(r)
    /\ role \in ApproverRoles
    /\ Undecided(p)
    /\ Accept(r, [op |-> op, target |-> p])

\* Fault: the source's status is not checked.
ReversibleInAnyStatus(p) == Exists(p) /\ payments[p].kind # "REFUND"

Reversible(p) == payments[p].status = "POSTED" /\ payments[p].kind # "REFUND"

StartReverse(r, role, p, b) ==
    /\ MayStart(r)
    /\ role \in ApproverRoles
    /\ Reversible(p)
    /\ Accept(r, [op |-> "reverse", target |-> p, body |-> b])

-----------------------------------------------------------------------------
(* Inside the transaction.                                                  *)

Finish(r) ==
    /\ pc' = [pc EXCEPT ![r] = "idle"]
    /\ call' = [call EXCEPT ![r] = NoCall]
    /\ draft' = [draft EXCEPT ![r] = NoDraft]

\* What a client remembers of a call that was answered with success.
Receipts == [op : {"post"}, body : PostBodies] \cup [op : {"reverse"}, target : SourceIds]

Receipt(c) ==
    CASE c.op = "post"    -> {[op |-> "post", body |-> c.body]}
      [] c.op = "reverse" -> {[op |-> "reverse", target |-> c.target]}
      [] OTHER            -> {}

\* What a transaction sees: the committed rows and its own write.
View(id, row) == [payments EXCEPT ![id] = row]

\* Fault: the POSTED rows are read before the payment row is written.
PaidBeforeWrite(id, row) == SumPosted(payments)

PaidAfter(id, row) == SumPosted(View(id, row))

WriteRow(r) ==
    LET id  == RowId(call[r])
        row == RowWritten(call[r])
    IN
    /\ pc[r] = "checked"
    /\ Finalizes(call[r])
    /\ ~Locked(r)
    /\ ~Duplicate(call[r])
    /\ IsMailOrder(row) => supplierActive
    /\ pc' = [pc EXCEPT ![r] = "writing"]
    /\ draft' = [draft EXCEPT ![r] =
                    [id |-> id, row |-> row, paid |-> PaidAfter(id, row)]]
    /\ UNCHANGED <<payments, order, supplierLedger, supplierActive,
                   postedEvents, call, acked>>

\* approveMailOrderSupplierLedger: whatever status the entry had.
LedgerAfterApproval(id, row) ==
    IF IsMailOrder(row) THEN [supplierLedger EXCEPT ![id] = "APPROVED"]
    ELSE supplierLedger

\* Fault: a reversal leaves the version alone.
VersionSkippingRefunds(row) ==
    IF row.kind = "REFUND" THEN order.version ELSE order.version + 1

NextVersion(row) == order.version + 1

Commit(r) ==
    LET d == draft[r]
    IN
    /\ pc[r] = "writing"
    /\ payments' = View(d.id, d.row)
    /\ order' = Balance(d.paid, NextVersion(d.row))
    /\ supplierLedger' = LedgerAfterApproval(d.id, d.row)
    /\ postedEvents' = [postedEvents EXCEPT ![d.id] = @ + 1]
    /\ acked' = acked \cup Receipt(call[r])
    /\ Finish(r)
    /\ UNCHANGED supplierActive

\* The transaction of a payment that has to wait for approval.
CommitPending(r) ==
    LET id  == RowId(call[r])
        row == RowWritten(call[r])
    IN
    /\ pc[r] = "checked"
    /\ call[r].op = "post" /\ ~Finalizes(call[r])
    /\ ~Locked(r)
    /\ ~Duplicate(call[r])
    /\ IsMailOrder(row) => supplierActive
    /\ payments' = View(id, row)
    /\ supplierLedger' = IF IsMailOrder(row) /\ supplierLedger[id] = "NONE"
                         THEN [supplierLedger EXCEPT ![id] = "PENDING"]
                         ELSE supplierLedger
    /\ acked' = acked \cup Receipt(call[r])
    /\ Finish(r)
    /\ UNCHANGED <<order, supplierActive, postedEvents>>

\* Fault: a rejection leaves the supplier's entry pending.
LedgerUntouched(id, row) == supplierLedger

\* rejectPendingMailOrderSupplierLedger: only an entry that is still PENDING.
LedgerAfterRejection(id, row) ==
    IF IsMailOrder(row) /\ supplierLedger[id] = "PENDING"
    THEN [supplierLedger EXCEPT ![id] = "REJECTED"]
    ELSE supplierLedger

CommitReject(r) ==
    LET id  == RowId(call[r])
        row == RowWritten(call[r])
    IN
    /\ pc[r] = "checked"
    /\ call[r].op = "reject"
    /\ ~Locked(r)
    /\ payments' = View(id, row)
    /\ supplierLedger' = LedgerAfterRejection(id, row)
    /\ Finish(r)
    /\ UNCHANGED <<order, supplierActive, postedEvents, acked>>

\* After a unique violation the handler looks for the record it collided with,
\* and answers success when it finds one.
AlreadyDone(c) ==
    \E p \in PaymentIds :
        /\ Exists(p)
        /\ IF c.op = "post" THEN payments[p].key = EffectiveKey(c.body)
                            ELSE p = RowId(c) \/ payments[p].source = c.target

\* Fault: a replay does not wait for the transaction it collides with.
AnswerDuplicateEarly(r) ==
    /\ pc[r] = "checked"
    /\ Inserts(call[r])
    /\ Locked(r) \/ Duplicate(call[r])
    /\ acked' = acked \cup Receipt(call[r])
    /\ Finish(r)
    /\ UNCHANGED <<payments, order, supplierLedger, supplierActive, postedEvents>>

AnswerDuplicate(r) ==
    /\ pc[r] = "checked"
    /\ ~Locked(r)
    /\ Duplicate(call[r])
    /\ acked' = IF AlreadyDone(call[r]) THEN acked \cup Receipt(call[r]) ELSE acked
    /\ Finish(r)
    /\ UNCHANGED <<payments, order, supplierLedger, supplierActive, postedEvents>>

\* Fault: the error never reaches the client.
NeverRefused(r) == FALSE

\* assertActiveSupplier throws: the transaction is rolled back.
RefuseInactiveSupplier(r) ==
    /\ pc[r] = "checked"
    /\ call[r].op \in {"post", "approve"}
    /\ ~Locked(r)
    /\ ~Duplicate(call[r])
    /\ IsMailOrder(RowWritten(call[r])) /\ ~supplierActive
    /\ Finish(r)
    /\ UNCHANGED <<payments, order, supplierLedger, supplierActive,
                   postedEvents, acked>>

\* The request dies before it commits (a timeout, a lost connection, a crash):
\* the transaction is rolled back.
Abort(r) ==
    /\ pc[r] # "idle"
    /\ Finish(r)
    /\ UNCHANGED <<payments, order, supplierLedger, supplierActive,
                   postedEvents, acked>>

\* PATCH /suppliers/:id.
SetSupplierActive(active) ==
    /\ supplierActive # active
    /\ supplierActive' = active
    /\ UNCHANGED <<payments, order, supplierLedger, postedEvents,
                   pc, call, draft, acked>>

-----------------------------------------------------------------------------
Start(r) ==
    \/ \E role \in Roles, b \in PostBodies : StartPost(r, role, b)
    \/ \E op \in {"approve", "reject"}, role \in Roles, p \in PaymentIds :
           StartDecision(r, op, role, p)
    \/ \E role \in Roles, p \in SourceIds, b \in RefundBodies : StartReverse(r, role, p, b)

Progress(r) ==
    \/ WriteRow(r) \/ Commit(r) \/ CommitPending(r) \/ CommitReject(r)
    \/ AnswerDuplicate(r) \/ RefuseInactiveSupplier(r)

Next ==
    \/ \E role \in Roles, kind \in {"CAPTURE", "MAIL_ORDER"}, amount \in InitialAmounts :
           CreateSalesOrder(role, kind, amount)
    \/ \E r \in Requests : Start(r) \/ Progress(r) \/ Abort(r)
    \/ \E active \in BOOLEAN : SetSupplierActive(active)

Spec == Init /\ [][Next]_vars

\* PostgreSQL queues the waiters of a row lock and Node serves every socket: a
\* request that is able to go on again and again does go on.
FairSpec == Spec /\ \A r \in Requests : SF_vars(Progress(r))

-----------------------------------------------------------------------------
(* What must hold however the requests interleave.                          *)

Draft == [id : PaymentIds \cup {Null}, row : Row, paid : Nat]

\* Every variable has the shape its table, row or record has in the code.
TypeOK ==
    /\ payments \in [PaymentIds -> Row]
    /\ order \in [paid : Nat, remaining : Nat, fullyPaid : BOOLEAN, version : Nat]
    /\ supplierLedger \in [PaymentIds -> {"NONE", "PENDING", "APPROVED", "REJECTED"}]
    /\ supplierActive \in BOOLEAN
    /\ postedEvents \in [PaymentIds -> Nat]
    /\ pc \in [Requests -> {"idle", "checked", "writing"}]
    /\ call \in [Requests -> Calls \cup {NoCall}]
    /\ draft \in [Requests -> Draft]
    /\ acked \subseteq Receipts

\* Retries and races of one idempotency key leave a single record, and a payment
\* is reversed at most once (the unique indexes, with the open transactions that
\* may be inserting at the same time).
SingleRecord ==
    \A p, q \in PaymentIds :
        p # q /\ Exists(p) /\ Exists(q) =>
            /\ payments[p].key = payments[q].key => payments[p].key = Null
            /\ payments[p].source = payments[q].source => payments[p].source = Null

\* A client that was told "success" finds its payment, or its refund, on the
\* ledger: a replay answered from the catch branch never invents one.
AckedIsRecorded ==
    \A c \in acked :
        /\ c.op = "post" =>
              LET row == payments[PostId(EffectiveKey(c.body))]
              IN  row.status # "ABSENT" /\ row.kind = c.body.kind /\ row.amount = c.body.amount
        /\ c.op = "reverse" =>
              \E p \in RefundIds : Exists(p) /\ payments[p].source = c.target

\* Money is only given back for a payment that was really taken: a refund's source
\* is a capture or a mail order that went through finalizeOrderPaymentPosting,
\* whatever a late rejection did to its status since.
RefundsAreBacked ==
    \A p \in PaymentIds :
        Exists(p) /\ payments[p].kind = "REFUND" =>
            LET s == payments[p].source
            IN  s \in SourceIds /\ payments[s].kind # "REFUND" /\ postedEvents[s] > 0

\* Even when a balance update is lost, its version increment and its event are
\* not: SalesOrder.version counts the payment.posted events of the order (here nothing
\* else, such as a new status, increments it).
VersionCountsPostings ==
    Placed => order.version = 1 + MapThenSumSet(LAMBDA p : postedEvents[p], PaymentIds)

\* The ledger is append-only: a record never disappears, its kind, amount, key and
\* source never change, and once decided it never waits for approval again.
RowsOnlyAdvance ==
    \A p \in PaymentIds :
        Exists(p) => /\ payments'[p] = [payments[p] EXCEPT !.status = payments'[p].status]
                     /\ payments'[p].status # "ABSENT"
                     /\ ~Undecided(p) => payments'[p].status # "PENDING_APPROVAL"

LedgerIsAppendOnly == [][RowsOnlyAdvance]_vars

\* No request waits for ever: the row locks of two payments of one order cannot
\* deadlock, and a duplicate, an inactive supplier or a lost race is answered.
EveryRequestEnds == \A r \in Requests : pc[r] # "idle" ~> pc[r] = "idle"

-----------------------------------------------------------------------------
(* What holds when the requests on the order come one at a time.            *)

\* The stored balance is the one the ledger implies: paid is the POSTED captures
\* less the refunds, remaining what is left of the total.
BalanceMatchesLedger ==
    Placed => order = Balance(SumPosted(payments), order.version)

\* Approving or rejecting a mail order settles both books the same way.
MailOrderBooksAgree ==
    \A p \in PaymentIds :
        supplierLedger[p] =
            IF ~Exists(p) \/ ~IsMailOrder(payments[p]) THEN "NONE"
            ELSE CASE payments[p].status = "PENDING_APPROVAL" -> "PENDING"
                   [] payments[p].status = "POSTED"           -> "APPROVED"
                   [] OTHER                                   -> "REJECTED"

\* A payment is announced (payment.posted) exactly when it counts, and once.
AnnouncedOnce ==
    \A p \in PaymentIds :
        postedEvents[p] = IF payments[p].status = "POSTED" THEN 1 ELSE 0

-----------------------------------------------------------------------------
(* What the code, its tests or its documents claim, and races break.        *)

\* postOrderPayment refuses with "Odeme tutari kalan bakiyeyi asamaz": payments
\* never exceed what the order is worth.
NeverOverCollected == SumPosted(payments) <= OrderTotal

-----------------------------------------------------------------------------
(* The abstract ledger these requests implement when they come one at a     *)
(* time.                                                                    *)

EntryStatus(status) ==
    CASE status = "ABSENT"           -> "NONE"
      [] status = "PENDING_APPROVAL" -> "PENDING"
      [] status = "POSTED"           -> "POSTED"
      [] OTHER                       -> "REJECTED"

Book == [p \in PaymentIds |-> [status |-> EntryStatus(payments[p].status),
                              delta  |-> Signed(payments[p]),
                              of     |-> payments[p].source]]

Ledger == INSTANCE PaymentLedger
              WITH Ids <- PaymentIds, Amounts <- Amounts, None <- Null,
                   book <- Book, paid <- order.paid

\* What the order is taken to be paid changes only together with the records it is
\* made of, every payment is decided once and given back at most once: rows, keys,
\* balance and the steps of the transactions are no more than that to the outside.
ImplementsLedger == Ledger!Spec
=============================================================================
