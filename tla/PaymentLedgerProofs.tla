------------------------ MODULE PaymentLedgerProofs ------------------------
(***************************************************************************)
(* CustomerPayments, with requests that come one at a time, implements     *)
(* PaymentLedger: seen through Book, each of its steps is one entry of the *)
(* abstract ledger that changes, or none.                                  *)
(***************************************************************************)
EXTENDS CustomerPaymentsProofs

-----------------------------------------------------------------------------
(* The book of a table.                                                     *)

Entry(row) == [status |-> EntryStatus(row.status), delta |-> Signed(row), of |-> row.source]

BookOf(tbl) == [p \in PaymentIds |-> Entry(tbl[p])]

LEMMA BookIsOfPayments == Book = BookOf(payments)
BY DEF Book, BookOf, Entry

\* The abstract status of a row tells its status.
LEMMA EntryStatuses ==
    /\ EntryStatus("ABSENT") = "NONE" /\ EntryStatus("PENDING_APPROVAL") = "PENDING"
    /\ EntryStatus("POSTED") = "POSTED" /\ EntryStatus("CANCELLED") = "REJECTED"
BY DEF EntryStatus

\* What a book is worth is what the POSTED rows of its table add up to.
LEMMA BookWorth ==
    ASSUME NEW tbl \in [PaymentIds -> Row]
    PROVE  Ledger!Worth(BookOf(tbl)) = SumPosted(tbl)
<1> DEFINE entries == {[id |-> p, delta |-> BookOf(tbl)[p].delta] : p \in Ledger!Posted(BookOf(tbl))}
<1>1. \A p \in PaymentIds :
         /\ BookOf(tbl)[p].status = "POSTED" <=> tbl[p].status = "POSTED"
         /\ BookOf(tbl)[p].delta = Signed(tbl[p])
  <2>1. \A p \in PaymentIds : tbl[p].status \in {"ABSENT", "PENDING_APPROVAL", "POSTED", "CANCELLED"}
    BY DEF Row
  <2> QED  BY <2>1, EntryStatuses DEF BookOf, Entry
<1>2. Ledger!Posted(BookOf(tbl)) = {q \in PaymentIds : tbl[q].status = "POSTED"}
  BY <1>1 DEF Ledger!Posted
<1>3. entries = PostedEntries(tbl)
  BY <1>1, <1>2, Zenon DEF PostedEntries
<1> HIDE DEF entries
<1>4. Ledger!Worth(BookOf(tbl)) = NonNegative(SumDeltas(entries))
  BY Zenon DEF Ledger!Worth, NonNegative, SumDeltas, entries, MapThenSumSet, MapThenFoldSet,
         Ledger!MapThenSumSet, Ledger!MapThenFoldSet
<1> QED  BY <1>3, <1>4 DEF SumPosted

-----------------------------------------------------------------------------
(* What the steps rely on beside SerialInv and LedgerInv: a row that is not *)
(* there is blank, only refunds have a source, and nobody else touches the  *)
(* payment a reversal is about to give back.                                *)

Plain(row) == row.kind # "REFUND" => row.source = Null

BlankUntilWritten == \A p \in PaymentIds : ~Exists(p) => payments[p] = AbsentRow

OnlyRefundsHaveSources == \A p \in PaymentIds : Plain(payments[p])

ReversalsAreFresh ==
    \A r \in Requests : pc[r] # "idle" /\ call[r].op = "reverse" => Reversible(call[r].target)

RefundsAreFresh ==
    \A r \in Requests :
        pc[r] = "writing" =>
            /\ Plain(draft[r].row)
            /\ ~Exists(draft[r].id) /\ draft[r].row.kind = "REFUND" =>
                  Reversible(draft[r].row.source)

NothingPaidBeforeOrder == ~Placed => order.paid = 0

ImplInv ==
    /\ SerialInv
    /\ LedgerInv
    /\ BlankUntilWritten
    /\ OnlyRefundsHaveSources
    /\ ReversalsAreFresh
    /\ RefundsAreFresh
    /\ NothingPaidBeforeOrder

LEMMA InitImpl == Init => ImplInv
BY InitSerial, InitLedger
   DEF Init, ImplInv, BlankUntilWritten, OnlyRefundsHaveSources, ReversalsAreFresh,
       RefundsAreFresh, NothingPaidBeforeOrder, NoOrder, AbsentRow, Plain

\* One row is written: the others, and their entries, stay.
LEMMA OneRow ==
    ASSUME ImplInv, NEW id \in PaymentIds, NEW row \in Row, row.status # "ABSENT", Plain(row),
           payments' = View(id, row)
    PROVE  /\ payments'[id] = row
           /\ \A p \in PaymentIds : p # id => payments'[p] = payments[p]
           /\ Book' = [Book EXCEPT ![id] = Entry(row)]
           /\ BlankUntilWritten' /\ OnlyRefundsHaveSources'
<1>1. payments \in [PaymentIds -> Row]
  BY DEF ImplInv, SerialInv, TypeInv, TypeOK
<1>2. /\ payments'[id] = row
      /\ \A p \in PaymentIds : p # id => payments'[p] = payments[p]
  BY <1>1 DEF View
<1>3. Book' = BookOf(payments')
  BY DEF Book, BookOf, Entry
<1>4. Book' = [Book EXCEPT ![id] = Entry(row)]
  BY <1>2, <1>3, BookIsOfPayments DEF BookOf
<1>5. BlankUntilWritten' /\ OnlyRefundsHaveSources'
  BY <1>2 DEF ImplInv, BlankUntilWritten, OnlyRefundsHaveSources, Exists, Plain
<1> QED  BY <1>2, <1>4, <1>5

-----------------------------------------------------------------------------
(* Each committed row is a step of the abstract ledger.                     *)

\* The new balance is what the new book is worth.
LEMMA PaidIsWorth ==
    ASSUME SerialInv', Placed'
    PROVE  order'.paid = Ledger!Worth(Book')
<1>1. order'.paid = SumPosted(payments')
  BY DEF SerialInv, BalanceMatchesLedger, Balance
<1>2. payments' \in [PaymentIds -> Row]
  BY DEF SerialInv, TypeInv, TypeOK
<1>3. Book' = BookOf(payments')
  BY DEF Book, BookOf, Entry
<1> QED  BY <1>1, <1>2, <1>3, BookWorth

LEMMA InsertIsStep ==
    ASSUME ImplInv, SerialInv', Placed', NEW id \in PaymentIds, NEW row \in Row, ~Exists(id),
           payments' = View(id, row), Plain(row),
           \/ row.status = "PENDING_APPROVAL" /\ row.kind # "REFUND" /\ order'.paid = order.paid
           \/ /\ row.status = "POSTED"
              /\ row.kind = "REFUND" =>
                    /\ row.source \in PaymentIds /\ row.source # Null /\ Reversible(row.source)
                    /\ \A p \in PaymentIds : payments[p].source # row.source
    PROVE  Ledger!Next
<1>1. /\ Book' = [Book EXCEPT ![id] = Entry(row)]
      /\ payments'[id] = row
  BY OneRow
<1>2. payments \in [PaymentIds -> Row]
  BY DEF ImplInv, SerialInv, TypeInv, TypeOK
<1>3. Book[id] = Ledger!NoEntry
  <2>1. payments[id] = AbsentRow
    BY DEF ImplInv, BlankUntilWritten
  <2>2. Signed(AbsentRow) = 0
    BY DEF Signed, AbsentRow
  <2> QED  BY <2>1, <2>2, EntryStatuses DEF Book, AbsentRow, Ledger!NoEntry
<1>4. Book'[id] = Entry(row)
  BY <1>1 DEF Book
<1>5. row.amount \in Amounts
  BY DEF Row
<1>6. CASE row.status = "PENDING_APPROVAL" /\ row.kind # "REFUND" /\ order'.paid = order.paid
  <2>1. Entry(row) = [status |-> "PENDING", delta |-> row.amount, of |-> Null]
    BY <1>6, EntryStatuses DEF Entry, Signed, Plain
  <2>2. Ledger!Request(id, row.amount)
    BY <1>1, <1>3, <1>6, <2>1 DEF Ledger!Request, Ledger!Enter
  <2>3. Book'[id] # Book[id]
    BY <1>3, <1>4, <2>1 DEF Ledger!NoEntry
  <2> QED  BY <1>5, <2>2, <2>3 DEF Ledger!Next
<1>7. CASE row.status = "POSTED"
  <2>1. order'.paid = Ledger!Worth(Book')
    BY PaidIsWorth
  <2>2. CASE row.kind # "REFUND"
    <3>1. Entry(row) = [status |-> "POSTED", delta |-> row.amount, of |-> Null]
      BY <1>7, <2>2, EntryStatuses DEF Entry, Signed, Plain
    <3>2. Ledger!Collect(id, row.amount)
      BY <1>1, <1>3, <2>1, <3>1 DEF Ledger!Collect, Ledger!Enter
    <3>3. Book'[id] # Book[id]
      BY <1>3, <1>4, <3>1 DEF Ledger!NoEntry
    <3> QED  BY <1>5, <3>2, <3>3 DEF Ledger!Next
  <2>3. CASE row.kind = "REFUND"
    <3> DEFINE source == row.source
    <3>1. Entry(row) = [status |-> "POSTED", delta |-> 0 - row.amount, of |-> source]
      BY <1>7, <2>3, EntryStatuses DEF Entry, Signed
    <3>2. /\ source \in PaymentIds /\ Reversible(source)
          /\ \A p \in PaymentIds : payments[p].source # source
      BY <1>7, <2>3
    <3>3. /\ source \in Ledger!Posted(Book) /\ Book[source].of = Null
      BY <3>2, EntryStatuses
         DEF Ledger!Posted, Book, Reversible, ImplInv, OnlyRefundsHaveSources, Plain
    <3>4. \A q \in PaymentIds : Book[q].of # source
      BY <3>2 DEF Book
    <3>5. Ledger!Refund(id, source, row.amount)
      BY <1>1, <1>3, <2>1, <3>1, <3>3, <3>4 DEF Ledger!Refund, Ledger!Enter
    <3>6. Book'[id] # Book[id]
      BY <1>3, <1>4, <3>1 DEF Ledger!NoEntry
    <3> QED  BY <1>5, <3>3, <3>5, <3>6 DEF Ledger!Next
  <2> QED  BY <2>2, <2>3
<1> QED  BY <1>6, <1>7

LEMMA DecisionIsStep ==
    ASSUME ImplInv, SerialInv', Placed', NEW id \in PaymentIds, Undecided(id),
           NEW status \in {"POSTED", "CANCELLED"},
           payments' = View(id, [payments[id] EXCEPT !.status = status]),
           status = "CANCELLED" => order'.paid = order.paid
    PROVE  Ledger!Next
<1> DEFINE row == [payments[id] EXCEPT !.status = status]
<1>1. payments[id] \in Row
  BY DEF ImplInv, SerialInv, TypeInv, TypeOK
<1>2. /\ row \in Row /\ row.status = status
      /\ row.kind = payments[id].kind /\ row.amount = payments[id].amount
      /\ row.source = payments[id].source
  BY <1>1 DEF Row
<1>3. Plain(row)
  BY <1>2 DEF ImplInv, OnlyRefundsHaveSources, Plain
<1> HIDE DEF row
<1>4. Book' = [Book EXCEPT ![id] = Entry(row)]
  BY <1>2, <1>3, OneRow DEF row
<1>5. /\ Book[id].status = "PENDING"
      /\ Entry(row) = [Book[id] EXCEPT !.status = EntryStatus(status)]
  BY <1>2, EntryStatuses DEF Book, Entry, Signed, Undecided
<1>6. EntryStatus(status) # "PENDING" /\ Book'[id].status = EntryStatus(status)
  BY <1>4, <1>5, EntryStatuses DEF Book
<1>7. Book'[id] # Book[id]
  BY <1>5, <1>6
<1>8. Book' = [Book EXCEPT ![id].status = EntryStatus(status)]
  BY <1>4, <1>5
<1>9. CASE status = "POSTED"
  <2>1. order'.paid = Ledger!Worth(Book')
    BY PaidIsWorth
  <2>2. Ledger!Approve(id)
    BY <1>5, <1>8, <1>9, <2>1, EntryStatuses DEF Ledger!Approve
  <2> QED  BY <1>7, <2>2 DEF Ledger!Next
<1>10. CASE status = "CANCELLED"
  <2>1. Ledger!Reject(id)
    BY <1>5, <1>8, <1>10, EntryStatuses DEF Ledger!Reject
  <2> QED  BY <1>7, <2>1 DEF Ledger!Next
<1> QED  BY <1>9, <1>10

-----------------------------------------------------------------------------
(* Every action is such a step, or leaves the abstract ledger alone.        *)

Implements == ImplInv' /\ [Ledger!Next]_(Ledger!vars)

\* When nobody is in flight any more, nobody relies on anything.
LEMMA NobodyInFlight ==
    ASSUME \A r \in Requests : pc'[r] = "idle"
    PROVE  ReversalsAreFresh' /\ RefundsAreFresh'
BY DEF ReversalsAreFresh, RefundsAreFresh

\* A step that touches neither rows nor balance.
LEMMA QuietStep ==
    ASSUME ImplInv, SerialInv', LedgerInv', payments' = payments, order' = order,
           ReversalsAreFresh', RefundsAreFresh'
    PROVE  Implements
<1>1. BlankUntilWritten' /\ OnlyRefundsHaveSources' /\ NothingPaidBeforeOrder'
  BY DEF ImplInv, BlankUntilWritten, OnlyRefundsHaveSources, NothingPaidBeforeOrder, Placed, Exists
<1>2. Book' = Book /\ order'.paid = order.paid
  BY DEF Book
<1> QED  BY <1>1, <1>2 DEF Implements, ImplInv, Ledger!vars

LEMMA CreateIsStep ==
    ASSUME ImplInv, SerialInv', LedgerInv', NEW role \in Roles,
           NEW kind \in {"CAPTURE", "MAIL_ORDER"}, NEW amount \in InitialAmounts,
           CreateSalesOrder(role, kind, amount)
    PROVE  Implements
<1> DEFINE posted == AutoApproves(role, kind)
           row == [kind |-> kind, status |-> InitialStatus(posted),
                   amount |-> amount, key |-> Null, source |-> Null]
<1>1. ~Placed /\ order.paid = 0 /\ \A p \in PaymentIds : ~Exists(p)
  BY DEF CreateSalesOrder, ImplInv, NothingPaidBeforeOrder, SerialInv, NothingBeforeOrder
<1>2. \A r \in Requests : pc'[r] = "idle"
  BY DEF CreateSalesOrder, ImplInv, SerialInv, NothingBeforeOrder
<1>3. ReversalsAreFresh' /\ RefundsAreFresh'
  BY <1>2, NobodyInFlight
<1>4. CASE amount = 0
  <2>1. /\ payments' = payments /\ order' = Balance(0, 1)
    BY <1>4 DEF CreateSalesOrder
  <2>2. order'.paid = order.paid /\ NothingPaidBeforeOrder'
    BY <1>1, <2>1 DEF Balance, NothingPaidBeforeOrder
  <2>3. BlankUntilWritten' /\ OnlyRefundsHaveSources' /\ Book' = Book
    BY <2>1 DEF ImplInv, BlankUntilWritten, OnlyRefundsHaveSources, Exists, Book
  <2> QED  BY <1>3, <2>2, <2>3 DEF Implements, ImplInv, Ledger!vars
<1>5. CASE amount # 0
  <2>1. /\ payments' = View(InitialId, row)
        /\ order' = IF posted THEN Balance(SumPosted(View(InitialId, row)), 2) ELSE Balance(0, 1)
    BY <1>5 DEF CreateSalesOrder, View
  <2>2. row \in Row /\ row.status \in {"POSTED", "PENDING_APPROVAL"} /\ Plain(row)
    BY DEF Row, InitialStatus, Amounts, Plain
  <2>3. Placed' /\ (~posted => order'.paid = order.paid)
    BY <1>1, <2>1 DEF Balance, Placed
  <2>4. row.status = "PENDING_APPROVAL" => ~posted
    BY DEF InitialStatus
  <2>5. row.kind # "REFUND"
    OBVIOUS
  <2> HIDE DEF posted, row
  <2>6. BlankUntilWritten' /\ OnlyRefundsHaveSources'
    BY <2>1, <2>2, IdTypes, OneRow
  <2>7. Ledger!Next
    BY <1>1, <2>1, <2>2, <2>3, <2>4, <2>5, IdTypes, InsertIsStep
  <2> QED  BY <1>3, <2>3, <2>6, <2>7 DEF Implements, ImplInv, NothingPaidBeforeOrder
<1> QED  BY <1>4, <1>5

LEMMA StartIsStep ==
    ASSUME ImplInv, Overlap = FALSE, SerialInv', LedgerInv', NEW r \in Requests, Start(r)
    PROVE  Implements
<1>1. MayStart(r) /\ \E c : Accept(r, c) /\ (c.op = "reverse" => Reversible(c.target))
  <2>1. ASSUME NEW role \in Roles, NEW b \in PostBodies, StartPost(r, role, b)
        PROVE  MayStart(r) /\ \E c : Accept(r, c) /\ c.op = "post"
    BY <2>1 DEF StartPost
  <2>2. ASSUME NEW op \in {"approve", "reject"}, NEW role \in Roles, NEW p \in PaymentIds,
               StartDecision(r, op, role, p)
        PROVE  MayStart(r) /\ \E c : Accept(r, c) /\ c.op # "reverse"
    BY <2>2 DEF StartDecision
  <2>3. ASSUME NEW role \in Roles, NEW p \in SourceIds, NEW b \in RefundBodies,
               StartReverse(r, role, p, b)
        PROVE  MayStart(r) /\ \E c : Accept(r, c) /\ Reversible(c.target)
    BY <2>3 DEF StartReverse
  <2> QED  BY <2>1, <2>2, <2>3 DEF Start
<1>2. PICK c : Accept(r, c) /\ (c.op = "reverse" => Reversible(c.target))
  BY <1>1
<1>3. /\ payments' = payments /\ order' = order
      /\ pc' = [pc EXCEPT ![r] = "checked"] /\ call' = [call EXCEPT ![r] = c]
  BY <1>2 DEF Accept
<1>4. \A q \in Requests : pc[q] = "idle"
  BY <1>1 DEF MayStart
<1>5. /\ pc'[r] = "checked" /\ call'[r] = c
      /\ \A q \in Requests : q # r => pc'[q] = "idle"
  BY <1>3, <1>4 DEF ImplInv, SerialInv, TypeInv, TypeOK
<1>6. ReversalsAreFresh'
  <2>1. \A q \in Requests : pc'[q] # "idle" /\ call'[q].op = "reverse" =>
                              Reversible(call'[q].target)
    BY <1>2, <1>5
  <2> QED  BY <1>3, <2>1 DEF ReversalsAreFresh, Reversible
<1>7. RefundsAreFresh'
  BY <1>5 DEF RefundsAreFresh
<1> QED  BY <1>3, <1>6, <1>7, QuietStep

LEMMA WriteRowIsStep ==
    ASSUME ImplInv, SerialInv', LedgerInv', NEW r \in Requests, WriteRow(r)
    PROVE  Implements
<1> DEFINE id  == RowId(call[r])
           row == RowWritten(call[r])
<1>1. /\ pc[r] = "checked" /\ Finalizes(call[r])
      /\ payments' = payments /\ order' = order /\ call' = call
      /\ pc' = [pc EXCEPT ![r] = "writing"]
      /\ draft' = [draft EXCEPT ![r] = [id |-> id, row |-> row, paid |-> PaidAfter(id, row)]]
  BY DEF WriteRow
<1>2. call[r] \in Calls
  BY <1>1 DEF ImplInv, SerialInv, TypeInv, CallsInFlight
<1>3. Plain(row) /\ (~Exists(id) /\ row.kind = "REFUND" => Reversible(row.source))
  <2>1. CASE call[r].op = "post"
    <3>1. row.kind = call[r].body.kind /\ row.source = Null /\ call[r].body \in PostBodies
      BY <1>2, <2>1 DEF RowWritten, Calls, PostCalls, DecisionCalls, ReverseCalls
    <3> QED  BY <3>1, AmountsAssumption DEF Plain
  <2>2. CASE call[r].op = "reverse"
    <3>1. row.kind = "REFUND" /\ row.source = call[r].target
      BY <2>2 DEF RowWritten
    <3>2. Reversible(call[r].target)
      BY <1>1, <2>2 DEF ImplInv, ReversalsAreFresh
    <3> QED  BY <3>1, <3>2 DEF Plain
  <2>3. CASE call[r].op = "approve"
    <3>1. /\ id = call[r].target /\ row = [payments[id] EXCEPT !.status = "POSTED"]
          /\ id \in PaymentIds
      BY <1>2, <2>3 DEF RowId, RowWritten, Calls, PostCalls, DecisionCalls, ReverseCalls
    <3>2. payments[id] \in Row /\ Plain(payments[id])
      BY <3>1 DEF ImplInv, SerialInv, TypeInv, TypeOK, OnlyRefundsHaveSources
    <3>3. Exists(id)
      BY <1>1, <2>3, <3>1 DEF ImplInv, LedgerInv, TargetsAreKnown
    <3> QED  BY <3>1, <3>2, <3>3 DEF Plain, Row
  <2> QED  BY <1>1, <2>1, <2>2, <2>3 DEF Finalizes
<1> HIDE DEF id, row
<1>4. /\ draft'[r].id = id /\ draft'[r].row = row
      /\ \A q \in Requests : q # r => pc'[q] = "idle"
  BY <1>1, Alone DEF ImplInv, SerialInv, TypeInv, TypeOK
<1>5. ReversalsAreFresh'
  <2>1. \A q \in Requests : pc'[q] # "idle" => pc[q] # "idle"
    BY <1>1, <1>4
  <2> QED  BY <1>1, <2>1 DEF ImplInv, ReversalsAreFresh, Reversible
<1>6. RefundsAreFresh'
  <2>1. \A q \in Requests : pc'[q] = "writing" =>
           /\ Plain(draft'[q].row)
           /\ ~Exists(draft'[q].id) /\ draft'[q].row.kind = "REFUND" =>
                 Reversible(draft'[q].row.source)
    BY <1>3, <1>4
  <2> QED  BY <1>1, <2>1 DEF RefundsAreFresh, Reversible, Exists, Plain
<1> QED  BY <1>1, <1>5, <1>6, QuietStep

LEMMA SourcesAreIds == \A s \in SourceIds : s \in PaymentIds /\ s # Null
BY IdTypes DEF SourceIds, InitialId, PostId, Null

LEMMA CommitIsStep ==
    ASSUME ImplInv, SerialInv', LedgerInv', NEW r \in Requests, Commit(r)
    PROVE  Implements
<1> DEFINE id  == draft[r].id
           row == draft[r].row
<1>1. /\ pc[r] = "writing" /\ Finish(r) /\ payments' = View(id, row)
      /\ order' = Balance(draft[r].paid, order.version + 1)
  BY DEF Commit, NextVersion
<1>2. SoundDraft(draft[r])
  BY <1>1 DEF ImplInv, LedgerInv, DraftsAreSound
<1>3. /\ Plain(row)
      /\ ~Exists(id) /\ row.kind = "REFUND" => Reversible(row.source)
      /\ Exists(id) => Undecided(id)
  BY <1>1 DEF ImplInv, SerialInv, DraftsAreFresh, RefundsAreFresh
<1>4. id \in PaymentIds /\ row \in Row /\ row.status = "POSTED"
  BY <1>2 DEF SoundDraft
<1>5. Placed'
  <2>1. order.version \in Nat
    BY DEF ImplInv, SerialInv, TypeInv, TypeOK
  <2> QED  BY <1>1, <2>1 DEF Balance, Placed
<1>6. ReversalsAreFresh' /\ RefundsAreFresh'
  BY <1>1, AllIdleAfter, NobodyInFlight DEF ImplInv
<1>7. BlankUntilWritten' /\ OnlyRefundsHaveSources'
  BY <1>1, <1>3, <1>4, OneRow
<1>8. Ledger!Next
  <2>1. CASE Exists(id)
    <3>1. row = [payments[id] EXCEPT !.status = "POSTED"]
      BY <1>2, <2>1 DEF SoundDraft
    <3> HIDE DEF id, row
    <3> QED  BY <1>1, <1>3, <1>4, <1>5, <2>1, <3>1, DecisionIsStep
  <2>2. CASE ~Exists(id)
    <3>1. ASSUME row.kind = "REFUND"
          PROVE  /\ row.source \in PaymentIds /\ row.source # Null
                 /\ \A p \in PaymentIds : payments[p].source # row.source
      <4>1. row.source \in PaymentIds /\ row.source # Null
        BY <1>2, <3>1, SourcesAreIds DEF SoundDraft, Backed, Refundable
      <4>2. ASSUME NEW p \in PaymentIds  PROVE payments[p].source # row.source
        <5>1. CASE Exists(p)
          <6>1. ~Collides(payments[p], row)
            BY <1>2, <2>2, <5>1 DEF SoundDraft
          <6> QED  BY <4>1, <6>1 DEF Collides
        <5>2. CASE ~Exists(p)
          BY <4>1, <5>2 DEF ImplInv, BlankUntilWritten, AbsentRow
        <5> QED  BY <5>1, <5>2
      <4> QED  BY <4>1, <4>2
    <3> HIDE DEF id, row
    <3> QED  BY <1>1, <1>3, <1>4, <1>5, <2>2, <3>1, InsertIsStep
  <2> QED  BY <2>1, <2>2
<1> QED  BY <1>5, <1>6, <1>7, <1>8 DEF Implements, ImplInv, NothingPaidBeforeOrder

LEMMA CommitPendingIsStep ==
    ASSUME ImplInv, SerialInv', LedgerInv', NEW r \in Requests, CommitPending(r)
    PROVE  Implements
<1> DEFINE id  == RowId(call[r])
           row == RowWritten(call[r])
<1>1. /\ pc[r] = "checked" /\ call[r].op = "post" /\ Finish(r)
      /\ payments' = View(id, row) /\ order' = order /\ ~Finalizes(call[r])
      /\ ~Duplicate(call[r])
  BY DEF CommitPending
<1>2. call[r] \in Calls
  BY <1>1 DEF ImplInv, SerialInv, TypeInv, CallsInFlight
<1>3. id \in PaymentIds /\ row \in Row
  BY <1>2, CallTypes DEF ImplInv, SerialInv, TypeInv
<1>4. /\ row.status = "PENDING_APPROVAL" /\ row.kind # "REFUND" /\ row.source = Null
      /\ ~Exists(id)
  <2>1. call[r].body \in PostBodies
    BY <1>1, <1>2 DEF Calls, PostCalls, DecisionCalls, ReverseCalls
  <2>2. row.status = "PENDING_APPROVAL" /\ row.kind = call[r].body.kind /\ row.source = Null
    BY <1>1 DEF Finalizes, RowWritten, InitialStatus
  <2>3. ~Exists(id)
    BY <1>1 DEF Duplicate, Inserts
  <2> QED  BY <2>1, <2>2, <2>3, AmountsAssumption
<1>5. Placed /\ Placed'
  BY <1>1, Alone DEF ImplInv, Placed
<1>6. ReversalsAreFresh' /\ RefundsAreFresh'
  BY <1>1, AllIdleAfter, NobodyInFlight DEF ImplInv
<1> HIDE DEF id, row
<1>7. Plain(row)
  BY <1>4 DEF Plain
<1>8. BlankUntilWritten' /\ OnlyRefundsHaveSources'
  BY <1>1, <1>3, <1>4, <1>7, OneRow
<1>9. Ledger!Next
  BY <1>1, <1>3, <1>4, <1>5, <1>7, InsertIsStep
<1> QED  BY <1>5, <1>6, <1>8, <1>9 DEF Implements, ImplInv, NothingPaidBeforeOrder

LEMMA CommitRejectIsStep ==
    ASSUME ImplInv, SerialInv', LedgerInv', NEW r \in Requests, CommitReject(r)
    PROVE  Implements
<1> DEFINE id  == call[r].target
           row == [payments[id] EXCEPT !.status = "CANCELLED"]
<1>1. /\ pc[r] = "checked" /\ call[r].op = "reject" /\ Finish(r)
      /\ payments' = View(RowId(call[r]), RowWritten(call[r])) /\ order' = order
  BY DEF CommitReject
<1>2. payments' = View(id, row)
  BY <1>1 DEF RowId, RowWritten
<1>3. id \in PaymentIds
  BY <1>1 DEF ImplInv, SerialInv, TypeInv, CallsInFlight, Calls, PostCalls, DecisionCalls,
            ReverseCalls
<1>4. Undecided(id)
  BY <1>1 DEF ImplInv, SerialInv, DecisionsAreFresh
<1>5. Placed /\ Placed'
  BY <1>1, Alone DEF ImplInv, Placed
<1>6. ReversalsAreFresh' /\ RefundsAreFresh'
  BY <1>1, AllIdleAfter, NobodyInFlight DEF ImplInv
<1>7. payments[id] \in Row /\ Plain(payments[id])
  BY <1>3 DEF ImplInv, SerialInv, TypeInv, TypeOK, OnlyRefundsHaveSources
<1>8. row \in Row /\ row.status # "ABSENT" /\ Plain(row)
  BY <1>7 DEF Row, Plain
<1>9. BlankUntilWritten' /\ OnlyRefundsHaveSources'
  <2> HIDE DEF id, row
  <2> QED  BY <1>2, <1>3, <1>8, OneRow
<1>10. Ledger!Next
  <2> HIDE DEF id
  <2> QED  BY <1>1, <1>2, <1>3, <1>4, <1>5, DecisionIsStep
<1> QED  BY <1>5, <1>6, <1>9, <1>10 DEF Implements, ImplInv, NothingPaidBeforeOrder

-----------------------------------------------------------------------------
LEMMA ImplPreserved ==
    ASSUME Overlap = FALSE
    PROVE  ImplInv /\ [Next]_vars => ImplInv' /\ [Ledger!Next]_(Ledger!vars)
<1> SUFFICES ASSUME ImplInv, [Next]_vars  PROVE Implements
  BY DEF Implements
<1>1. SerialInv' /\ LedgerInv'
  BY SerialPreserved, LedgerPreserved DEF ImplInv
<1>2. ASSUME NEW role \in Roles, NEW kind \in {"CAPTURE", "MAIL_ORDER"},
             NEW amount \in InitialAmounts, CreateSalesOrder(role, kind, amount)
      PROVE  Implements
  BY <1>1, <1>2, CreateIsStep
<1>3. ASSUME NEW r \in Requests,
             AnswerDuplicate(r) \/ RefuseInactiveSupplier(r) \/ Abort(r)
      PROVE  Implements
  <2>1. pc[r] # "idle" /\ Finish(r) /\ payments' = payments /\ order' = order
    BY <1>3 DEF AnswerDuplicate, RefuseInactiveSupplier, Abort
  <2>2. ReversalsAreFresh' /\ RefundsAreFresh'
    BY <2>1, AllIdleAfter, NobodyInFlight DEF ImplInv
  <2> QED  BY <1>1, <2>1, <2>2, QuietStep
<1>4. ASSUME NEW r \in Requests, Start(r) \/ Progress(r) \/ Abort(r)
      PROVE  Implements
  BY <1>1, <1>3, <1>4, StartIsStep, WriteRowIsStep, CommitIsStep, CommitPendingIsStep,
     CommitRejectIsStep DEF Progress
<1>5. ASSUME UNCHANGED <<payments, order, pc, call, draft>>  PROVE Implements
  <2>1. ReversalsAreFresh' /\ RefundsAreFresh'
    BY <1>5 DEF ImplInv, ReversalsAreFresh, RefundsAreFresh, Reversible, Exists
  <2> QED  BY <1>1, <1>5, <2>1, QuietStep
<1>6. ASSUME NEW active \in BOOLEAN, SetSupplierActive(active)
      PROVE  Implements
  BY <1>5, <1>6 DEF SetSupplierActive
<1>7. CASE UNCHANGED vars
  BY <1>5, <1>7 DEF vars
<1> QED  BY <1>2, <1>4, <1>6, <1>7 DEF Next

LEMMA InitIsInit == Init => Ledger!Init
<1> SUFFICES ASSUME Init  PROVE Ledger!Init
  OBVIOUS
<1>1. Signed(AbsentRow) = 0
  BY DEF Signed, AbsentRow
<1>2. Book = [p \in PaymentIds |-> Ledger!NoEntry]
  BY <1>1, EntryStatuses DEF Init, Book, AbsentRow, Ledger!NoEntry
<1> QED  BY <1>2 DEF Init, Ledger!Init, NoOrder

\* Requests that come one at a time make the five handlers of the payments, with their
\* keys, replays, transactions and two books, an implementation of the abstract
\* ledger: every payment is decided once and given back at most once, and the paid
\* amount of the order changes together with the records it is made of.
THEOREM LedgerIsImplemented == Overlap = FALSE /\ Spec => ImplementsLedger
<1> SUFFICES ASSUME Overlap = FALSE  PROVE Spec => ImplementsLedger
  OBVIOUS
<1>1. Init => ImplInv /\ Ledger!Init
  BY InitImpl, InitIsInit
<1>2. ImplInv /\ [Next]_vars => ImplInv' /\ [Ledger!Next]_(Ledger!vars)
  BY ImplPreserved
<1> QED  BY <1>1, <1>2, PTL DEF Spec, ImplementsLedger, Ledger!Spec
=============================================================================
