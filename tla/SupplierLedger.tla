--------------------------- MODULE SupplierLedger ---------------------------
(***************************************************************************)
(* The ledger of one supplier: what the shop owes it for goods received    *)
(* and for mail orders it collected, and what it was paid.  The balance is *)
(* never stored.  Every writer sums the committed rows inside its own      *)
(* transaction, and keeps on its row what the balance is after it          *)
(* (balanceAfter).  At READ COMMITTED two writers may read the same sum.   *)
(*                                                                         *)
(*   Start    the reads and guards before prisma.$transaction;             *)
(*   Write    the balance is read and the row is built; it stays           *)
(*            uncommitted, and locked where it updates an existing row;    *)
(*   Commit   the row becomes visible and the client is answered.          *)
(*                                                                         *)
(* Two inserts of one key are both let through Write: which of the two     *)
(* reaches the unique index first is decided at Commit.  Goods received    *)
(* for an order line go through OrderSupply; here they are stock.          *)
(***************************************************************************)
EXTENDS Integers, FiniteSets, FiniteSetsExt

CONSTANTS
    Requests,     \* the requests the API can be serving at one moment
    PayBodies,    \* bodies of POST /suppliers/:id/payments: [key, amount]
    Totals,       \* line totals of the goods received
    MailOrders,   \* the mail-order payments that go to this supplier
    MailAmount,   \* what each of them is worth
    MaxReceipts   \* bound: deliveries of goods

VARIABLES
    entries,         \* supplier_ledger_entries, by id
    supplierActive,  \* Supplier.isActive
    pc,              \* where each request stands
    call,            \* the call each request is serving
    draft,           \* the uncommitted row of each open transaction
    acked,           \* the payments the clients have seen succeed
    statement,       \* balanceAfter of the row written last (history)
    raced            \* whether two requests ever overlapped (history)

vars == <<entries, supplierActive, pc, call, draft, acked, statement, raced>>

ASSUME BoundsAssumption ==
    /\ MaxReceipts \in Nat /\ MailAmount \in Nat
    /\ Totals \subseteq Nat
    /\ \A b \in PayBodies : b.amount \in Nat \ {0}

-----------------------------------------------------------------------------
(* Rows                                                                     *)

\* Fault: the derived key forgets the amount.
KeyWithoutAmount(b) == IF b.key = "" THEN <<"IDK">> ELSE <<"key", b.key>>

\* A body without a key ("") gets one derived from its content.
PaymentKey(b) == IF b.key = "" THEN <<"IDK", b.amount>> ELSE <<"key", b.key>>

PaymentId(b) == <<"SPAY", PaymentKey(b)>>
ReceiptId(n) == <<"IGR", n>>
MailOrderId(m) == <<"MO", m>>

EntryIds == {PaymentId(b) : b \in PayBodies}
            \cup {ReceiptId(n) : n \in 1..MaxReceipts}
            \cup {MailOrderId(m) : m \in MailOrders}

Entry == [status : {"ABSENT", "PENDING", "APPROVED", "REJECTED"},
          credit : Nat, debit : Nat]

NoEntry == [status |-> "ABSENT", credit |-> 0, debit |-> 0]

\* An uncommitted row, with its balanceAfter.  Nothing reads that column but the
\* statement the supplier gets; of the committed ones only the latest is kept.
NoDraft == [row |-> NoEntry, balanceAfter |-> 0]

Exists(id) == entries[id].status # "ABSENT"

\* isSupplierLedgerBalanceStatus; nothing in the program writes REVERSED.
Counts(e) == e.status = "APPROVED"

Credits == MapThenSumSet(LAMBDA id : entries[id].credit,
                         {id \in EntryIds : Counts(entries[id])})
Debits  == MapThenSumSet(LAMBDA id : entries[id].debit,
                         {id \in EntryIds : Counts(entries[id])})

\* Fault: Math.max(0, ...) forgotten.
SignedBalance == Credits - Debits

\* Math.max(0, credits - debits)
OpenBalance == LET balance == Credits - Debits IN IF balance \in Nat THEN balance ELSE 0

-----------------------------------------------------------------------------
(* Calls                                                                    *)

Calls == [op : {"pay"}, body : PayBodies]
         \cup [op : {"receive"}, id : 1..MaxReceipts, total : Totals]
         \cup [op : {"post"}, mail : MailOrders, auto : BOOLEAN]
         \cup [op : {"approve", "reject"}, mail : MailOrders]
NoCall == [op |-> "none"]

\* The database gives every receipt an id of its own.
FreeReceipts ==
    {n \in 1..MaxReceipts :
        /\ ~Exists(ReceiptId(n))
        /\ \A r \in Requests : call[r].op = "receive" => call[r].id # n}

IsNextReceipt(n) == n \in FreeReceipts /\ \A other \in FreeReceipts : n <= other

\* The row a call writes.
Target(c) ==
    CASE c.op = "pay"     -> PaymentId(c.body)
      [] c.op = "receive" -> ReceiptId(c.id)
      [] OTHER            -> MailOrderId(c.mail)

OnMailOrder(c) == c.op \in {"post", "approve", "reject"}

\* Another open transaction holds the row of this mail order's payment.
Locked(r) ==
    \E q \in Requests \ {r} :
        /\ pc[q] = "writing"
        /\ OnMailOrder(call[q]) /\ OnMailOrder(call[r])
        /\ call[q].mail = call[r].mail

\* Fault: a payment is not compared with what is owed.
AlwaysCovered(b) == TRUE

\* Exceeds open balance.  Amounts are whole: the tolerance of 0.009 has no counterpart.
Covered(b) == b.amount <= OpenBalance

\* assertActiveSupplier, inside the transaction of a mail order's payment.
NeedsActiveSupplier(c) == c.op \in {"post", "approve"}

\* Fault: a mail order's row takes the new balance before it counts.
BalanceWithPending(c, before) ==
    CASE c.op = "pay"     -> before - c.body.amount
      [] c.op = "receive" -> before + c.total
      [] c.op = "reject"  -> before
      [] OTHER            -> before + MailAmount

\* What the row says the balance is once it counts.  A rejection writes none.
BalanceWith(c, before) ==
    CASE c.op = "pay"     -> before - c.body.amount
      [] c.op = "receive" -> before + c.total
      [] c.op = "reject" \/ (c.op = "post" /\ ~c.auto) -> before
      [] OTHER            -> before + MailAmount

\* Fault: a rejection does not look at the entry's status.
RejectWhatever(e) == [e EXCEPT !.status = "REJECTED"]

\* rejectPendingMailOrderSupplierLedger: only an entry that is still PENDING.
RejectPending(e) == IF e.status = "PENDING" THEN [e EXCEPT !.status = "REJECTED"] ELSE e

RowWritten(c) ==
    CASE c.op = "pay"     -> [status |-> "APPROVED", credit |-> 0, debit |-> c.body.amount]
      [] c.op = "receive" -> [status |-> "APPROVED", credit |-> c.total, debit |-> 0]
      [] c.op = "reject"  -> RejectPending(entries[MailOrderId(c.mail)])
      [] OTHER -> [status |-> IF c.op = "post" /\ ~c.auto THEN "PENDING" ELSE "APPROVED",
                   credit |-> MailAmount, debit |-> 0]

-----------------------------------------------------------------------------
Init ==
    /\ entries = [id \in EntryIds |-> NoEntry]
    /\ supplierActive = TRUE
    /\ pc = [r \in Requests |-> "idle"]
    /\ call = [r \in Requests |-> NoCall]
    /\ draft = [r \in Requests |-> NoDraft]
    /\ acked = {}
    /\ statement = 0
    /\ raced = FALSE

\* Reads and guards outside the transaction.
Start(r, c) ==
    /\ pc[r] = "idle"
    /\ c.op \in {"pay", "receive"} => supplierActive
    /\ c.op = "receive" => IsNextReceipt(c.id)
    /\ c.op \in {"approve", "reject"} => entries[MailOrderId(c.mail)].status = "PENDING"
    /\ pc' = [pc EXCEPT ![r] = "checked"]
    /\ call' = [call EXCEPT ![r] = c]
    /\ raced' = (raced \/ \E q \in Requests : pc[q] # "idle")
    /\ UNCHANGED <<entries, supplierActive, draft, acked, statement>>

\* What the transaction finds that makes it throw.
Refused(r) ==
    \/ call[r].op = "pay" /\ ~Covered(call[r].body)
    \/ NeedsActiveSupplier(call[r]) /\ ~supplierActive

\* The payment of this mail order was inserted by somebody else.
AlreadyPosted(r) == call[r].op = "post" /\ Exists(Target(call[r]))

Write(r) ==
    /\ pc[r] = "checked"
    /\ ~Locked(r)
    /\ ~Refused(r) /\ ~AlreadyPosted(r)
    /\ pc' = [pc EXCEPT ![r] = "writing"]
    /\ draft' = [draft EXCEPT ![r] =
          [row |-> RowWritten(call[r]), balanceAfter |-> BalanceWith(call[r], OpenBalance)]]
    /\ UNCHANGED <<entries, supplierActive, call, acked, statement, raced>>

Finish(r) ==
    /\ pc' = [pc EXCEPT ![r] = "idle"]
    /\ call' = [call EXCEPT ![r] = NoCall]
    /\ draft' = [draft EXCEPT ![r] = NoDraft]
    /\ UNCHANGED <<supplierActive, raced>>

Acknowledge(c) == acked' = IF c.op = "pay" THEN acked \cup {c.body} ELSE acked

\* The payment runs into the unique indexes; the handler answers with the entry
\* that is there, whatever its amount.
Duplicate(r) == call[r].op = "pay" /\ Exists(Target(call[r]))

Commit(r) ==
    /\ pc[r] = "writing"
    /\ ~Duplicate(r)
    /\ entries' = [entries EXCEPT ![Target(call[r])] = draft[r].row]
    /\ statement' = IF call[r].op = "reject" THEN statement ELSE draft[r].balanceAfter
    /\ Acknowledge(call[r])
    /\ Finish(r)

AnswerDuplicate(r) ==
    /\ pc[r] = "writing"
    /\ Duplicate(r)
    /\ Acknowledge(call[r])
    /\ Finish(r)
    /\ UNCHANGED <<entries, statement>>

Refuse(r) ==
    /\ pc[r] = "checked"
    /\ ~Locked(r)
    /\ Refused(r) \/ AlreadyPosted(r)
    /\ Finish(r)
    /\ UNCHANGED <<entries, acked, statement>>

\* The request dies before it commits: the transaction is rolled back.
Abort(r) ==
    /\ pc[r] # "idle"
    /\ Finish(r)
    /\ UNCHANGED <<entries, acked, statement>>

\* PATCH /suppliers/:id.
SetSupplierActive(active) ==
    /\ supplierActive # active
    /\ supplierActive' = active
    /\ UNCHANGED <<entries, pc, call, draft, acked, statement, raced>>

Progress(r) == Write(r) \/ Commit(r) \/ AnswerDuplicate(r) \/ Refuse(r)

Next ==
    \/ \E r \in Requests : \/ \E c \in Calls : Start(r, c)
                           \/ Progress(r) \/ Abort(r)
    \/ \E active \in BOOLEAN : SetSupplierActive(active)

Spec == Init /\ [][Next]_vars

-----------------------------------------------------------------------------
(* What must hold.                                                          *)

\* Every variable has the shape its table or record has in the code; a balance
\* written on a row is never negative.
TypeOK ==
    /\ entries \in [EntryIds -> Entry]
    /\ supplierActive \in BOOLEAN
    /\ pc \in [Requests -> {"idle", "checked", "writing"}]
    /\ call \in [Requests -> Calls \cup {NoCall}]
    /\ draft \in [Requests -> [row : Entry, balanceAfter : Nat]]
    /\ acked \subseteq PayBodies
    /\ statement \in Nat
    /\ raced \in BOOLEAN

\* As long as no two requests overlap, the supplier's statement adds up: the
\* balanceAfter written last is what all rows that count sum to, through pending,
\* approved and rejected mail orders.
StatementAddsUp == ~raced => statement = OpenBalance

\* postSupplierPayment's "Exceeds open balance": when payments race, each was
\* covered by the balance it read.  What is paid too much stays below one largest
\* payment for every OTHER request, however long the API runs; nothing is, when
\* there is one request at a time.
OverdraftIsBounded ==
    PayBodies # {} =>
        Debits <= Credits + (Cardinality(Requests) - 1) * Max({b.amount : b \in PayBodies})

\* A client that was told "success" finds its payment on the ledger; unless it
\* chose the key itself and used it twice, with its own amount.
AnsweredIsBooked ==
    \A b \in acked :
        /\ Exists(PaymentId(b))
        /\ b.key = "" => entries[PaymentId(b)].debit = b.amount

\* An entry that counts never stops counting and keeps its amounts: a rejection
\* that comes after the approval finds nothing to reject.
BooksAreKept ==
    \A id \in EntryIds :
        Counts(entries[id]) =>
            /\ entries'[id].status = entries[id].status
            /\ entries'[id].credit = entries[id].credit
            /\ entries'[id].debit = entries[id].debit

CountedEntriesStay == [][BooksAreKept]_vars

-----------------------------------------------------------------------------
(* What the tests claim.                                                    *)

\* "supplier payment duplicate + race is single-record and balance-safe": a
\* payment that is recorded is answered with success when it is sent again.
ReplayRefused(r) ==
    /\ pc[r] = "checked" /\ call[r].op = "pay"
    /\ Exists(Target(call[r]))
    /\ Refuse(r)

ReplaysAreAnswered == [][\A r \in Requests : ~ReplayRefused(r)]_vars
=============================================================================
