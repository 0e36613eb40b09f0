------------------------ MODULE SupplierLedgerProofs ------------------------
(***************************************************************************)
(* Theorems about SupplierLedger, for every number of requests, payments,  *)
(* receipts and mail orders, and every amount.                             *)
(***************************************************************************)
EXTENDS SupplierLedger, SumTheorems, TLAPS

-----------------------------------------------------------------------------
(* Ids                                                                      *)

\* The three kinds of rows never share an id, and an id names one of its kind.
LEMMA IdsDiffer ==
    /\ \A b, n : PaymentId(b) # ReceiptId(n)
    /\ \A b, m : PaymentId(b) # MailOrderId(m)
    /\ \A n, m : ReceiptId(n) # MailOrderId(m)
    /\ \A m, n : ReceiptId(m) = ReceiptId(n) => m = n
    /\ \A m, n : MailOrderId(m) = MailOrderId(n) => m = n
BY DEF PaymentId, ReceiptId, MailOrderId

\* A key derived from the body determines the amount, and no client has it.
LEMMA KeysTellAmounts ==
    ASSUME NEW a, NEW b, PaymentId(a) = PaymentId(b), b.key = ""
    PROVE  a.key = "" /\ a.amount = b.amount
<1>1. PaymentKey(a) = PaymentKey(b)
  BY DEF PaymentId
<1>2. PaymentKey(b) = <<"IDK", b.amount>>
  BY DEF PaymentKey
<1>3. a.key = ""
  BY <1>1, <1>2 DEF PaymentKey
<1> QED  BY <1>1, <1>2, <1>3 DEF PaymentKey

\* The ledger has a row for each body, delivery and mail order: finitely many, if those are.
LEMMA EntryIdsAreFinite ==
    ASSUME IsFiniteSet(PayBodies), IsFiniteSet(MailOrders)
    PROVE  IsFiniteSet(EntryIds)
<1> DEFINE Paid     == {PaymentId(b) : b \in PayBodies}
           Received == {ReceiptId(n) : n \in 1..MaxReceipts}
           Mailed   == {MailOrderId(m) : m \in MailOrders}
<1>1. IsFiniteSet(Paid)
  <2> DEFINE f == [b \in PayBodies |-> PaymentId(b)]
  <2>1. Paid = {f[b] : b \in PayBodies}
    OBVIOUS
  <2> HIDE DEF f, Paid
  <2> QED  BY <2>1, FiniteImage
<1>2. IsFiniteSet(Received)
  <2> DEFINE f == [n \in 1..MaxReceipts |-> ReceiptId(n)]
  <2>1. Received = {f[n] : n \in 1..MaxReceipts}
    OBVIOUS
  <2>2. IsFiniteSet(1..MaxReceipts)
    BY FS_Interval, BoundsAssumption
  <2> HIDE DEF f, Received
  <2> QED  BY <2>1, <2>2, FiniteImage
<1>3. IsFiniteSet(Mailed)
  <2> DEFINE f == [m \in MailOrders |-> MailOrderId(m)]
  <2>1. Mailed = {f[m] : m \in MailOrders}
    OBVIOUS
  <2> HIDE DEF f, Mailed
  <2> QED  BY <2>1, FiniteImage
<1>4. IsFiniteSet(Paid \cup Received)
  <2> HIDE DEF Paid, Received
  <2> QED  BY <1>1, <1>2, FS_Union
<1>5. EntryIds = (Paid \cup Received) \cup Mailed
  BY DEF EntryIds
<1> HIDE DEF Paid, Received, Mailed
<1> QED  BY <1>3, <1>4, <1>5, FS_Union

LEMMA TargetIsId ==
    ASSUME NEW c \in Calls
    PROVE  Target(c) \in EntryIds
BY DEF Target, EntryIds, Calls

-----------------------------------------------------------------------------
(* Type correctness                                                         *)

TypeInv == TypeOK /\ \A r \in Requests : pc[r] # "idle" => call[r] \in Calls

LEMMA InitTypes == Init => TypeInv
<1> SUFFICES ASSUME Init
             PROVE  TypeInv
  OBVIOUS
<1>1. NoEntry \in Entry /\ NoDraft \in [row : Entry, balanceAfter : Nat]
  BY DEF NoEntry, NoDraft, Entry
<1>2. entries \in [EntryIds -> Entry] /\ draft \in [Requests -> [row : Entry, balanceAfter : Nat]]
  BY <1>1 DEF Init
<1> QED  BY <1>2 DEF Init, TypeInv, TypeOK

\* A request that ends forgets its call and its row; the others' stay.
LEMMA FinishFacts ==
    ASSUME TypeInv, NEW r \in Requests, Finish(r)
    PROVE  /\ pc' \in [Requests -> {"idle", "checked", "writing"}]
           /\ call' \in [Requests -> Calls \cup {NoCall}]
           /\ draft' \in [Requests -> [row : Entry, balanceAfter : Nat]]
           /\ pc'[r] = "idle" /\ call'[r] = NoCall
           /\ \A q \in Requests : q # r =>
                 pc'[q] = pc[q] /\ call'[q] = call[q] /\ draft'[q] = draft[q]
           /\ UNCHANGED <<supplierActive, raced>>
<1>1. NoDraft \in [row : Entry, balanceAfter : Nat]
  BY DEF NoDraft, NoEntry, Entry
<1> QED  BY <1>1 DEF Finish, TypeInv, TypeOK

\* The row a call writes; its balance is never negative, as a payment is compared
\* with what is owed first.
LEMMA DraftType ==
    ASSUME TypeInv, NEW r \in Requests, NEW c \in Calls,
           c.op = "pay" => Covered(c.body)
    PROVE  RowWritten(c) \in Entry /\ BalanceWith(c, OpenBalance) \in Nat
<1>1. OpenBalance \in Nat
  BY DEF OpenBalance
<1>2. CASE c.op = "pay"
  <2>1. c.body.amount \in Nat /\ c.body.amount <= OpenBalance
    BY <1>2, BoundsAssumption DEF Calls, Covered
  <2> QED  BY <1>1, <1>2, <2>1 DEF RowWritten, BalanceWith, Entry
<1>3. CASE c.op = "receive"
  <2>1. c.total \in Nat
    BY <1>3, BoundsAssumption DEF Calls
  <2> QED  BY <1>1, <1>3, <2>1 DEF RowWritten, BalanceWith, Entry
<1>4. CASE c.op = "reject"
  <2>1. entries[MailOrderId(c.mail)] \in Entry
    BY <1>4 DEF Calls, EntryIds, TypeInv, TypeOK
  <2>2. RejectPending(entries[MailOrderId(c.mail)]) \in Entry
    BY <2>1 DEF RejectPending, Entry
  <2> QED  BY <1>1, <1>4, <2>2 DEF RowWritten, BalanceWith
<1>5. CASE c.op \in {"post", "approve"}
  BY <1>1, <1>5, BoundsAssumption DEF RowWritten, BalanceWith, Entry
<1> QED  BY <1>2, <1>3, <1>4, <1>5 DEF Calls

LEMMA StartTypes ==
    ASSUME TypeInv, NEW r \in Requests, NEW c \in Calls, Start(r, c)
    PROVE  /\ TypeInv'
           /\ pc'[r] = "checked" /\ call'[r] = c
           /\ \A q \in Requests : q # r => pc'[q] = pc[q] /\ call'[q] = call[q]
BY DEF Start, TypeInv, TypeOK

LEMMA WriteTypes ==
    ASSUME TypeInv, NEW r \in Requests, Write(r)
    PROVE  /\ TypeInv'
           /\ pc'[r] = "writing" /\ draft'[r].row = RowWritten(call[r])
           /\ \A q \in Requests : q # r => pc'[q] = pc[q] /\ draft'[q] = draft[q]
           /\ UNCHANGED <<entries, call, acked>>
<1> DEFINE new == [row |-> RowWritten(call[r]), balanceAfter |-> BalanceWith(call[r], OpenBalance)]
<1>1. call[r] \in Calls /\ (call[r].op = "pay" => Covered(call[r].body))
  BY DEF Write, Refused, TypeInv
<1>2. new \in [row : Entry, balanceAfter : Nat] /\ new.row = RowWritten(call[r])
  BY <1>1, DraftType
<1>3. draft' = [draft EXCEPT ![r] = new]
  BY DEF Write
<1> HIDE DEF new
<1> QED  BY <1>2, <1>3 DEF Write, TypeInv, TypeOK

LEMMA CommitTypes ==
    ASSUME TypeInv, NEW r \in Requests, Commit(r)
    PROVE  TypeInv'
<1>1. call[r] \in Calls /\ Target(call[r]) \in EntryIds
  BY TargetIsId DEF Commit, TypeInv
<1>2. draft[r].row \in Entry /\ draft[r].balanceAfter \in Nat
  BY DEF TypeInv, TypeOK
<1>3. entries' \in [EntryIds -> Entry] /\ statement' \in Nat
  BY <1>1, <1>2 DEF Commit, TypeInv, TypeOK
<1>4. acked' \subseteq PayBodies
  BY <1>1 DEF Commit, Acknowledge, Calls, TypeInv, TypeOK
<1> QED  BY <1>3, <1>4, FinishFacts DEF Commit, TypeInv, TypeOK

LEMMA EndTypes ==
    ASSUME TypeInv, NEW r \in Requests, AnswerDuplicate(r) \/ Refuse(r) \/ Abort(r)
    PROVE  TypeInv'
<1>1. Finish(r) /\ UNCHANGED <<entries, statement>>
  BY DEF AnswerDuplicate, Refuse, Abort
<1>2. acked' \subseteq PayBodies
  BY DEF AnswerDuplicate, Refuse, Abort, Duplicate, Acknowledge, Calls, TypeInv, TypeOK
<1> QED  BY <1>1, <1>2, FinishFacts DEF TypeInv, TypeOK

LEMMA StepTypes == TypeInv /\ [Next]_vars => TypeInv'
<1> SUFFICES ASSUME TypeInv, [Next]_vars
             PROVE  TypeInv'
  OBVIOUS
<1>1. ASSUME NEW active \in BOOLEAN, SetSupplierActive(active)
      PROVE  TypeInv'
  BY <1>1 DEF SetSupplierActive, TypeInv, TypeOK
<1>2. CASE UNCHANGED vars
  BY <1>2 DEF vars, TypeInv, TypeOK
<1> QED  BY <1>1, <1>2, StartTypes, WriteTypes, CommitTypes, EndTypes DEF Next, Progress

\* The rows keep their shape, and no balance written on one is negative.
THEOREM TypeCorrect == Spec => []TypeOK
<1>1. TypeInv => TypeOK
  BY DEF TypeInv
<1> QED  BY <1>1, InitTypes, StepTypes, PTL DEF Spec

-----------------------------------------------------------------------------
(* The rows and the open transactions.                                      *)

\* What the committed rows say: a mail order's entry is worth its amount, and a
\* payment under a derived key has the amount the key was derived from.
RowsInv ==
    /\ \A m \in MailOrders :
          Exists(MailOrderId(m)) => /\ entries[MailOrderId(m)].credit = MailAmount
                                    /\ entries[MailOrderId(m)].debit = 0
    /\ \A b \in PayBodies :
          b.key = "" /\ Exists(PaymentId(b)) => entries[PaymentId(b)].debit = b.amount

\* A receipt in flight has an id of its own.
ReceiptsInv ==
    \A r \in Requests :
        call[r].op = "receive" =>
            /\ ~Exists(ReceiptId(call[r].id))
            /\ \A q \in Requests : call[q].op = "receive" /\ call[q].id = call[r].id => q = r

\* A decision on a mail order is about an entry that is there.
DecisionsInv ==
    \A r \in Requests :
        call[r].op \in {"approve", "reject"} => Exists(MailOrderId(call[r].mail))

\* An open transaction on a mail order is the only one, and its row still fits the
\* entry it is going to replace.
DraftsInv ==
    \A r \in Requests :
        pc[r] = "writing" =>
            /\ draft[r].row = RowWritten(call[r])
            /\ call[r].op = "post" => ~Exists(MailOrderId(call[r].mail))
            /\ OnMailOrder(call[r]) =>
                  \A q \in Requests :
                      pc[q] = "writing" /\ OnMailOrder(call[q]) /\ call[q].mail = call[r].mail => q = r

AckedInv == \A b \in acked : Exists(PaymentId(b))

IdleInv == \A r \in Requests : pc[r] = "idle" => call[r] = NoCall

LedgerInv ==
    /\ TypeInv /\ RowsInv /\ ReceiptsInv /\ DecisionsInv /\ DraftsInv /\ AckedInv /\ IdleInv

LEMMA InitLedger == Init => LedgerInv
<1> SUFFICES ASSUME Init
             PROVE  LedgerInv
  OBVIOUS
<1>1. \A id \in EntryIds : ~Exists(id)
  BY DEF Init, Exists, NoEntry
<1>2. RowsInv
  BY <1>1 DEF RowsInv, EntryIds
<1> QED  BY <1>2, InitTypes DEF Init, LedgerInv, ReceiptsInv, DecisionsInv, DraftsInv, AckedInv,
                               IdleInv, NoCall

\* A call in flight is a call.
LEMMA CallInFlight ==
    ASSUME LedgerInv, NEW r \in Requests, call[r].op # "none"
    PROVE  call[r] \in Calls /\ Target(call[r]) \in EntryIds
<1>1. pc[r] # "idle"
  BY DEF LedgerInv, IdleInv, NoCall
<1> QED  BY <1>1, TargetIsId DEF LedgerInv, TypeInv

LEMMA RowWrittenSame ==
    ASSUME NEW c, c.op = "reject" => entries'[MailOrderId(c.mail)] = entries[MailOrderId(c.mail)]
    PROVE  RowWritten(c)' = RowWritten(c)
BY DEF RowWritten, RejectPending

LEMMA StartLedger ==
    ASSUME LedgerInv, NEW r \in Requests, NEW c \in Calls, Start(r, c)
    PROVE  LedgerInv'
<1>1. /\ TypeInv' /\ pc'[r] = "checked" /\ call'[r] = c
      /\ \A q \in Requests : q # r => pc'[q] = pc[q] /\ call'[q] = call[q]
      /\ UNCHANGED <<entries, draft, acked>>
  BY StartTypes DEF Start, LedgerInv
<1>2. \A id : Exists(id)' <=> Exists(id)
  BY <1>1 DEF Exists
<1>3. RowsInv' /\ AckedInv'
  BY <1>1, <1>2 DEF LedgerInv, RowsInv, AckedInv
<1>4. ReceiptsInv'
  <2>1. c.op = "receive" =>
          ~Exists(ReceiptId(c.id)) /\ \A q \in Requests : call[q].op = "receive" => call[q].id # c.id
    BY DEF Start, IsNextReceipt, FreeReceipts
  <2> QED  BY <1>1, <1>2, <2>1 DEF LedgerInv, ReceiptsInv
<1>5. DecisionsInv'
  <2>1. c.op \in {"approve", "reject"} => Exists(MailOrderId(c.mail))
    BY DEF Start, Exists
  <2> QED  BY <1>1, <1>2, <2>1 DEF LedgerInv, DecisionsInv
<1>6. DraftsInv'
  <2>1. \A q \in Requests : q # r => RowWritten(call[q])' = RowWritten(call[q])
    BY <1>1 DEF RowWritten, RejectPending
  <2> QED  BY <1>1, <1>2, <2>1 DEF LedgerInv, DraftsInv
<1>7. IdleInv'
  BY <1>1 DEF LedgerInv, IdleInv
<1> QED  BY <1>1, <1>3, <1>4, <1>5, <1>6, <1>7 DEF LedgerInv

LEMMA WriteLedger ==
    ASSUME LedgerInv, NEW r \in Requests, Write(r)
    PROVE  LedgerInv'
<1>1. /\ TypeInv'
      /\ pc'[r] = "writing" /\ draft'[r].row = RowWritten(call[r]) /\ pc[r] = "checked"
      /\ \A q \in Requests : q # r => pc'[q] = pc[q] /\ draft'[q] = draft[q]
      /\ UNCHANGED <<entries, call, acked>>
  BY WriteTypes DEF Write, LedgerInv
<1>2. \A id : Exists(id)' <=> Exists(id)
  BY <1>1 DEF Exists
<1>3. RowsInv' /\ AckedInv' /\ ReceiptsInv' /\ DecisionsInv'
  BY <1>1, <1>2 DEF LedgerInv, RowsInv, AckedInv, ReceiptsInv, DecisionsInv
<1>4. \A q \in Requests : RowWritten(call[q])' = RowWritten(call[q])
  BY <1>1 DEF RowWritten, RejectPending
<1>5. call[r].op = "post" => ~Exists(MailOrderId(call[r].mail))
  BY DEF Write, AlreadyPosted, Target
<1>6. OnMailOrder(call[r]) =>
          \A q \in Requests : pc[q] = "writing" /\ OnMailOrder(call[q]) => call[q].mail # call[r].mail
  BY <1>1 DEF Write, Locked
<1>7. DraftsInv'
  <2> SUFFICES ASSUME NEW o \in Requests, pc'[o] = "writing"
               PROVE  /\ draft'[o].row = RowWritten(call[o])
                      /\ call[o].op = "post" => ~Exists(MailOrderId(call[o].mail))
                      /\ OnMailOrder(call[o]) =>
                            \A q \in Requests :
                                pc'[q] = "writing" /\ OnMailOrder(call[q]) /\ call[q].mail = call[o].mail
                                    => q = o
    BY <1>1, <1>2, <1>4 DEF DraftsInv, OnMailOrder
  <2>1. CASE o = r
    BY <1>1, <1>5, <1>6, <2>1
  <2>2. CASE o # r
    BY <1>1, <1>6, <2>2 DEF LedgerInv, DraftsInv
  <2> QED  BY <2>1, <2>2
<1>8. IdleInv'
  BY <1>1 DEF LedgerInv, IdleInv
<1> QED  BY <1>1, <1>3, <1>7, <1>8 DEF LedgerInv

\* A request that ends without writing a row.
LEMMA EndLedger ==
    ASSUME LedgerInv, TypeInv', NEW r \in Requests, Finish(r), entries' = entries,
           AckedInv'
    PROVE  LedgerInv'
<1>1. /\ pc'[r] = "idle" /\ call'[r] = NoCall
      /\ \A q \in Requests : q # r =>
            pc'[q] = pc[q] /\ call'[q] = call[q] /\ draft'[q] = draft[q]
  BY FinishFacts DEF LedgerInv
<1>2. \A id : Exists(id)' <=> Exists(id)
  BY DEF Exists
<1>3. RowsInv'
  BY <1>2 DEF LedgerInv, RowsInv
<1>4. ReceiptsInv' /\ DecisionsInv' /\ IdleInv'
  BY <1>1, <1>2 DEF LedgerInv, ReceiptsInv, DecisionsInv, IdleInv, NoCall
<1>5. DraftsInv'
  <2>1. \A q \in Requests : q # r => RowWritten(call[q])' = RowWritten(call[q])
    BY <1>1 DEF RowWritten, RejectPending
  <2> QED  BY <1>1, <1>2, <2>1 DEF LedgerInv, DraftsInv
<1> QED  BY <1>3, <1>4, <1>5 DEF LedgerInv

\* What a commit does to the rows: it writes one, which is there from then on, and
\* which counted before only if it stays the same.
LEMMA CommitRows ==
    ASSUME LedgerInv, NEW r \in Requests, Commit(r)
    PROVE  /\ call[r] \in Calls /\ Target(call[r]) \in EntryIds
           /\ entries'[Target(call[r])] = RowWritten(call[r])
           /\ \A id \in EntryIds : id # Target(call[r]) => entries'[id] = entries[id]
           /\ \A id \in EntryIds : Exists(id) => Exists(id)'
           /\ entries'[Target(call[r])].status # "ABSENT"
           /\ BooksAreKept
<1> DEFINE c == call[r]
           id == Target(c)
<1>1. c \in Calls /\ id \in EntryIds /\ pc[r] = "writing"
  BY TargetIsId DEF Commit, LedgerInv, TypeInv
<1>2. /\ entries'[id] = RowWritten(c)
      /\ \A o \in EntryIds : o # id => entries'[o] = entries[o]
  BY <1>1 DEF Commit, LedgerInv, TypeInv, TypeOK, DraftsInv
<1>3. RowWritten(c).status # "ABSENT"
  <2>1. CASE c.op = "reject"
    <3>1. entries[MailOrderId(c.mail)].status # "ABSENT" /\ entries[MailOrderId(c.mail)] \in Entry
      BY <1>1, <2>1 DEF LedgerInv, DecisionsInv, Exists, Target, TypeInv, TypeOK
    <3> QED  BY <2>1, <3>1 DEF RowWritten, RejectPending, Entry
  <2>2. CASE c.op # "reject"
    BY <1>1, <2>2 DEF RowWritten, Calls
  <2> QED  BY <2>1, <2>2
<1>4. entries'[id].status # "ABSENT" /\ \A o \in EntryIds : Exists(o) => Exists(o)'
  BY <1>2, <1>3 DEF Exists
<1>5. ASSUME Counts(entries[id])
      PROVE  /\ RowWritten(c).status = entries[id].status
             /\ RowWritten(c).credit = entries[id].credit
             /\ RowWritten(c).debit = entries[id].debit
  <2>1. entries[id].status = "APPROVED" /\ Exists(id)
    BY <1>5 DEF Counts, Exists
  <2>2. c.op \notin {"pay", "receive", "post"}
    BY <1>1, <2>1 DEF Commit, Duplicate, Target, LedgerInv, ReceiptsInv, DraftsInv
  <2>3. CASE c.op = "reject"
    BY <2>1, <2>3 DEF RowWritten, RejectPending, Target
  <2>4. CASE c.op = "approve"
    <3>1. id = MailOrderId(c.mail) /\ c.mail \in MailOrders
      BY <1>1, <2>4 DEF Target, Calls
    <3>2. entries[id].credit = MailAmount /\ entries[id].debit = 0
      BY <2>1, <3>1 DEF LedgerInv, RowsInv
    <3> QED  BY <2>1, <2>4, <3>2 DEF RowWritten
  <2> QED  BY <1>1, <2>2, <2>3, <2>4 DEF Calls
<1>6. BooksAreKept
  BY <1>2, <1>5 DEF BooksAreKept
<1> QED  BY <1>1, <1>2, <1>4, <1>6

LEMMA CommitLedger ==
    ASSUME LedgerInv, NEW r \in Requests, Commit(r)
    PROVE  LedgerInv'
<1> DEFINE c == call[r]
           id == Target(c)
<1>1. /\ c \in Calls /\ id \in EntryIds /\ entries'[id] = RowWritten(c)
      /\ \A o \in EntryIds : o # id => entries'[o] = entries[o]
      /\ \A o \in EntryIds : Exists(o) => Exists(o)'
      /\ entries'[id].status # "ABSENT"
  BY CommitRows
<1>2. /\ pc'[r] = "idle" /\ call'[r] = NoCall
      /\ \A q \in Requests : q # r =>
            pc'[q] = pc[q] /\ call'[q] = call[q] /\ draft'[q] = draft[q]
      /\ TypeInv' /\ pc[r] = "writing"
  BY FinishFacts, CommitTypes DEF Commit, LedgerInv
<1>3. \A o \in EntryIds : o # id => (Exists(o)' <=> Exists(o))
  BY <1>1 DEF Exists
<1>4. RowsInv'
  <2>1. ASSUME NEW m \in MailOrders, Exists(MailOrderId(m))'
        PROVE  entries'[MailOrderId(m)].credit = MailAmount /\ entries'[MailOrderId(m)].debit = 0
    <3>1. MailOrderId(m) \in EntryIds
      BY DEF EntryIds
    <3>2. CASE MailOrderId(m) # id
      BY <1>1, <1>3, <2>1, <3>1, <3>2 DEF LedgerInv, RowsInv
    <3>3. CASE MailOrderId(m) = id /\ c.op \in {"post", "approve"}
      BY <1>1, <3>3 DEF RowWritten
    <3>4. CASE MailOrderId(m) = id /\ c.op = "reject"
      <4>1. id = MailOrderId(c.mail) /\ Exists(id) /\ entries[id] \in Entry
        BY <1>1, <3>4 DEF Target, LedgerInv, DecisionsInv, TypeInv, TypeOK
      <4>2. entries[id].credit = MailAmount /\ entries[id].debit = 0
        BY <3>4, <4>1 DEF LedgerInv, RowsInv
      <4> QED  BY <1>1, <3>4, <4>1, <4>2 DEF RowWritten, RejectPending, Entry
    <3>5. MailOrderId(m) = id => c.op \in {"post", "approve", "reject"}
      BY <1>1, IdsDiffer DEF Target, Calls
    <3> QED  BY <3>2, <3>3, <3>4, <3>5
  <2>2. ASSUME NEW b \in PayBodies, b.key = "", Exists(PaymentId(b))'
        PROVE  entries'[PaymentId(b)].debit = b.amount
    <3>1. PaymentId(b) \in EntryIds
      BY DEF EntryIds
    <3>2. CASE PaymentId(b) # id
      BY <1>1, <1>3, <2>2, <3>1, <3>2 DEF LedgerInv, RowsInv
    <3>3. CASE PaymentId(b) = id
      <4>1. c.op = "pay" /\ PaymentId(c.body) = PaymentId(b)
        BY <1>1, <3>3, IdsDiffer DEF Target, Calls
      <4>2. c.body.amount = b.amount
        BY <2>2, <4>1, KeysTellAmounts
      <4> QED  BY <1>1, <3>3, <4>1, <4>2 DEF RowWritten
    <3> QED  BY <3>2, <3>3
  <2> QED  BY <2>1, <2>2 DEF RowsInv
<1>5. ReceiptsInv'
  <2> SUFFICES ASSUME NEW q \in Requests, call'[q].op = "receive"
               PROVE  /\ ~Exists(ReceiptId(call[q].id))'
                      /\ \A p \in Requests : call'[p].op = "receive" /\ call'[p].id = call'[q].id => p = q
    BY DEF ReceiptsInv, Exists
  <2>1. q # r /\ call'[q] = call[q]
    BY <1>2 DEF NoCall
  <2>2. /\ ~Exists(ReceiptId(call[q].id))
        /\ \A p \in Requests : call[p].op = "receive" /\ call[p].id = call[q].id => p = q
    BY <2>1 DEF LedgerInv, ReceiptsInv
  <2>3. ReceiptId(call[q].id) \in EntryIds
    BY <2>1, CallInFlight DEF Target
  <2>4. ReceiptId(call[q].id) # id
    BY <1>1, <2>1, <2>2, IdsDiffer DEF Target, Calls
  <2> QED  BY <1>2, <1>3, <2>1, <2>2, <2>3, <2>4 DEF NoCall
<1>6. DecisionsInv'
  <2> SUFFICES ASSUME NEW q \in Requests, call'[q].op \in {"approve", "reject"}
               PROVE  Exists(MailOrderId(call[q].mail))'
    BY DEF DecisionsInv, Exists
  <2>1. q # r /\ call'[q] = call[q]
    BY <1>2 DEF NoCall
  <2>2. MailOrderId(call[q].mail) \in EntryIds
    BY <2>1, CallInFlight DEF Target
  <2> QED  BY <1>1, <2>1, <2>2 DEF LedgerInv, DecisionsInv
<1>7. DraftsInv'
  <2> SUFFICES ASSUME NEW q \in Requests, pc'[q] = "writing"
               PROVE  /\ draft'[q].row = RowWritten(call[q])'
                      /\ call'[q].op = "post" => ~Exists(MailOrderId(call[q].mail))'
                      /\ OnMailOrder(call'[q]) =>
                            \A p \in Requests :
                                pc'[p] = "writing" /\ OnMailOrder(call'[p]) /\ call'[p].mail = call'[q].mail
                                    => p = q
    BY DEF DraftsInv, OnMailOrder, Exists, RowWritten, RejectPending
  <2>1. q # r /\ call'[q] = call[q] /\ pc[q] = "writing" /\ draft'[q] = draft[q] /\ call[q] \in Calls
    BY <1>2 DEF LedgerInv, TypeInv
  <2>2. OnMailOrder(call[q]) =>
          MailOrderId(call[q].mail) # id /\ MailOrderId(call[q].mail) \in EntryIds
    <3> SUFFICES ASSUME OnMailOrder(call[q])
                 PROVE  MailOrderId(call[q].mail) # id /\ MailOrderId(call[q].mail) \in EntryIds
      OBVIOUS
    <3>1. MailOrderId(call[q].mail) \in EntryIds
      BY <2>1 DEF OnMailOrder, Calls, EntryIds
    <3>2. OnMailOrder(c) => c.mail # call[q].mail
      BY <1>2, <2>1 DEF LedgerInv, DraftsInv
    <3> QED  BY <1>1, <3>1, <3>2, IdsDiffer DEF Target, OnMailOrder, Calls
  <2>3. OnMailOrder(call[q]) => entries'[MailOrderId(call[q].mail)] = entries[MailOrderId(call[q].mail)]
    BY <1>1, <2>2
  <2>4. RowWritten(call[q])' = RowWritten(call[q])
    BY <2>1, <2>3 DEF RowWritten, RejectPending, OnMailOrder
  <2>5. \A p \in Requests : pc'[p] = "writing" => pc[p] = "writing" /\ call'[p] = call[p]
    BY <1>2
  <2> QED  BY <2>1, <2>3, <2>4, <2>5 DEF LedgerInv, DraftsInv, Exists, OnMailOrder
<1>8. AckedInv'
  <2>1. \A b \in acked : Exists(PaymentId(b))'
    BY <1>1 DEF LedgerInv, AckedInv, TypeInv, TypeOK, EntryIds
  <2>2. acked' = (IF c.op = "pay" THEN acked \cup {c.body} ELSE acked)
    BY DEF Commit, Acknowledge
  <2>3. c.op = "pay" => id = PaymentId(c.body)
    BY DEF Target
  <2> QED  BY <1>1, <2>1, <2>2, <2>3 DEF AckedInv, Exists
<1>9. IdleInv'
  BY <1>2 DEF LedgerInv, IdleInv
<1> QED  BY <1>2, <1>4, <1>5, <1>6, <1>7, <1>8, <1>9 DEF LedgerInv

LEMMA StepLedger == LedgerInv /\ [Next]_vars => LedgerInv' /\ (BooksAreKept \/ UNCHANGED vars)
<1> SUFFICES ASSUME LedgerInv, [Next]_vars
             PROVE  LedgerInv' /\ (BooksAreKept \/ UNCHANGED vars)
  OBVIOUS
<1>1. ASSUME NEW r \in Requests, NEW c \in Calls, Start(r, c)
      PROVE  LedgerInv' /\ BooksAreKept
  BY <1>1, StartLedger DEF Start, BooksAreKept
<1>2. ASSUME NEW r \in Requests, Write(r)
      PROVE  LedgerInv' /\ BooksAreKept
  BY <1>2, WriteLedger DEF Write, BooksAreKept
<1>3. ASSUME NEW r \in Requests, Commit(r)
      PROVE  LedgerInv' /\ BooksAreKept
  BY <1>3, CommitLedger, CommitRows
<1>4. ASSUME NEW r \in Requests, Refuse(r) \/ Abort(r)
      PROVE  LedgerInv' /\ BooksAreKept
  <2>1. Finish(r) /\ UNCHANGED <<entries, acked>>
    BY <1>4 DEF Refuse, Abort
  <2>2. AckedInv'
    BY <2>1 DEF LedgerInv, AckedInv, Exists
  <2>3. TypeInv'
    BY <1>4, EndTypes DEF LedgerInv
  <2> QED  BY <2>1, <2>2, <2>3, EndLedger DEF BooksAreKept
<1>5. ASSUME NEW r \in Requests, AnswerDuplicate(r)
      PROVE  LedgerInv' /\ BooksAreKept
  <2>1. Finish(r) /\ entries' = entries /\ call[r].op = "pay" /\ Exists(Target(call[r]))
    BY <1>5 DEF AnswerDuplicate, Duplicate
  <2>2. AckedInv'
    <3>1. acked' = acked \cup {call[r].body} /\ Target(call[r]) = PaymentId(call[r].body)
      BY <1>5, <2>1 DEF AnswerDuplicate, Acknowledge, Target
    <3> QED  BY <2>1, <3>1 DEF LedgerInv, AckedInv, Exists
  <2>3. TypeInv'
    BY <1>5, EndTypes DEF LedgerInv
  <2> QED  BY <2>1, <2>2, <2>3, EndLedger DEF BooksAreKept
<1>6. ASSUME NEW active \in BOOLEAN, SetSupplierActive(active)
      PROVE  LedgerInv' /\ BooksAreKept
  <2>1. UNCHANGED <<entries, pc, call, draft, acked>> /\ TypeInv'
    BY <1>6 DEF SetSupplierActive, LedgerInv, TypeInv, TypeOK
  <2>2. \A q \in Requests : RowWritten(call[q])' = RowWritten(call[q])
    BY <2>1 DEF RowWritten, RejectPending
  <2>3. DraftsInv'
    BY <2>1, <2>2 DEF LedgerInv, DraftsInv, Exists, OnMailOrder
  <2>4. RowsInv' /\ ReceiptsInv' /\ DecisionsInv' /\ AckedInv' /\ IdleInv'
    BY <2>1 DEF LedgerInv, RowsInv, ReceiptsInv, DecisionsInv, AckedInv, IdleInv, Exists
  <2> QED  BY <2>1, <2>3, <2>4 DEF LedgerInv, BooksAreKept
<1>7. CASE UNCHANGED vars
  <2>1. UNCHANGED <<entries, pc, call, draft, acked>> /\ TypeInv'
    BY <1>7 DEF vars, LedgerInv, TypeInv, TypeOK
  <2>2. \A q \in Requests : RowWritten(call[q])' = RowWritten(call[q])
    BY <2>1 DEF RowWritten, RejectPending
  <2>3. DraftsInv'
    BY <2>1, <2>2 DEF LedgerInv, DraftsInv, Exists, OnMailOrder
  <2>4. RowsInv' /\ ReceiptsInv' /\ DecisionsInv' /\ AckedInv' /\ IdleInv'
    BY <2>1 DEF LedgerInv, RowsInv, ReceiptsInv, DecisionsInv, AckedInv, IdleInv, Exists
  <2> QED  BY <1>7, <2>1, <2>3, <2>4 DEF LedgerInv
<1> QED  BY <1>1, <1>2, <1>3, <1>4, <1>5, <1>6, <1>7 DEF Next, Progress

\* However requests overlap, a client that was told its payment succeeded finds it on
\* the ledger, with its amount if the key was derived from it.
THEOREM AnswersAreBooked == Spec => []AnsweredIsBooked
<1>1. LedgerInv => AnsweredIsBooked
  BY DEF LedgerInv, AckedInv, RowsInv, TypeInv, TypeOK, AnsweredIsBooked
<1>2. LedgerInv /\ [Next]_vars => LedgerInv'
  BY StepLedger
<1> QED  BY <1>1, <1>2, InitLedger, PTL DEF Spec

\* However approvals, rejections, payments and receipts overlap, an entry that counts
\* goes on counting, with its amounts.
THEOREM CountedStays == Spec => CountedEntriesStay
<1>1. LedgerInv /\ [Next]_vars => LedgerInv'
  BY StepLedger
<1>2. LedgerInv /\ [Next]_vars => [BooksAreKept]_vars
  BY StepLedger
<1> QED  BY <1>1, <1>2, InitLedger, PTL DEF Spec, CountedEntriesStay

-----------------------------------------------------------------------------
(* The balance.                                                             *)

\* What a row adds to each side of the books.
CreditOf(e) == IF Counts(e) THEN e.credit ELSE 0
DebitOf(e)  == IF Counts(e) THEN e.debit ELSE 0

CreditColumn(tbl) == [id \in EntryIds |-> CreditOf(tbl[id])]
DebitColumn(tbl)  == [id \in EntryIds |-> DebitOf(tbl[id])]

CreditIn(tbl) == Sum(CreditColumn(tbl), EntryIds)
DebitIn(tbl)  == Sum(DebitColumn(tbl), EntryIds)

LEMMA ColumnTypes ==
    ASSUME NEW tbl \in [EntryIds -> Entry]
    PROVE  \A id \in EntryIds : /\ CreditColumn(tbl)[id] \in Nat
                                /\ DebitColumn(tbl)[id] \in Nat
<1>1. \A id \in EntryIds : tbl[id].credit \in Nat /\ tbl[id].debit \in Nat
  BY DEF Entry
<1> QED  BY <1>1 DEF CreditColumn, DebitColumn, CreditOf, DebitOf

LEMMA SideTypes ==
    ASSUME NEW tbl \in [EntryIds -> Entry], IsFiniteSet(EntryIds)
    PROVE  CreditIn(tbl) \in Int /\ DebitIn(tbl) \in Int
<1> DEFINE g == CreditColumn(tbl)
           h == DebitColumn(tbl)
<1>1. \A id \in EntryIds : g[id] \in Int /\ h[id] \in Int
  BY ColumnTypes
<1> HIDE DEF g, h
<1>2. Sum(g, EntryIds) \in Int /\ Sum(h, EntryIds) \in Int
  BY <1>1, SumIsInteger
<1> QED  BY <1>2 DEF CreditIn, DebitIn, g, h

\* The two sums of the code are over the rows that count.
LEMMA CreditsAreSummed ==
    ASSUME TypeOK, IsFiniteSet(EntryIds)
    PROVE  Credits = CreditIn(entries)
<1> DEFINE Good == {id \in EntryIds : Counts(entries[id])}
           w == CreditColumn(entries)
           body(iter) ==
             [T \in SUBSET Good |->
                IF T = {} THEN 0
                ELSE entries[CHOOSE x \in T : TRUE].credit + iter[T \ {CHOOSE x \in T : TRUE}]]
           h == CHOOSE iter : iter = body(iter)
<1>1. ASSUME NEW f
      PROVE  f = body(f) <=> Adds(f, w, Good)
  <2>1. ASSUME NEW T \in SUBSET Good, T # {}
        PROVE  w[First(T)] = entries[CHOOSE x \in T : TRUE].credit
    <3>1. First(T) \in Good
      BY <2>1, FirstIsElement
    <3> QED  BY <3>1 DEF CreditColumn, CreditOf, First
  <2> DEFINE sums == [T \in SUBSET Good |-> IF T = {} THEN 0 ELSE w[First(T)] + f[T \ {First(T)}]]
  <2>2. body(f) = sums
    <3> HIDE DEF w, Good
    <3> QED  BY <2>1 DEF First
  <2>3. Adds(f, w, Good) <=> f = sums
    <3> HIDE DEF w, Good
    <3> QED  BY DEF Adds
  <2> HIDE DEF body, sums, Good
  <2> QED  BY <2>2, <2>3
<1>2. Good \subseteq EntryIds /\ IsFiniteSet(Good)
  <2>1. Good \subseteq EntryIds
    OBVIOUS
  <2> HIDE DEF Good
  <2> QED  BY <2>1, FS_Subset
<1>3. \E f : f = body(f)
  <2> HIDE DEF w, body, Good
  <2> QED  BY <1>1, <1>2, AddsExists
<1>4. h = body(h)
  <2> HIDE DEF body
  <2> QED  BY <1>3
<1>5. Credits = h[Good]
  BY DEF Credits, MapThenSumSet, MapThenFoldSet
<1>6. Sum(w, Good) = h[Good]
  <2> HIDE DEF w, h, body, Good
  <2> QED  BY <1>1, <1>2, <1>4, SumIsWhatAdds
<1>7. \A id \in EntryIds : w[id] \in Int
  BY ColumnTypes DEF TypeOK
<1>8. \A id \in EntryIds \ Good : w[id] = 0
  BY DEF CreditColumn, CreditOf
<1>9. Sum(w, Good) = Sum(w, EntryIds)
  <2> HIDE DEF w, Good
  <2> QED  BY <1>2, <1>7, <1>8, SumWithoutZeros
<1> QED  BY <1>5, <1>6, <1>9 DEF CreditIn

LEMMA DebitsAreSummed ==
    ASSUME TypeOK, IsFiniteSet(EntryIds)
    PROVE  Debits = DebitIn(entries)
<1> DEFINE Good == {id \in EntryIds : Counts(entries[id])}
           w == DebitColumn(entries)
           body(iter) ==
             [T \in SUBSET Good |->
                IF T = {} THEN 0
                ELSE entries[CHOOSE x \in T : TRUE].debit + iter[T \ {CHOOSE x \in T : TRUE}]]
           h == CHOOSE iter : iter = body(iter)
<1>1. ASSUME NEW f
      PROVE  f = body(f) <=> Adds(f, w, Good)
  <2>1. ASSUME NEW T \in SUBSET Good, T # {}
        PROVE  w[First(T)] = entries[CHOOSE x \in T : TRUE].debit
    <3>1. First(T) \in Good
      BY <2>1, FirstIsElement
    <3> QED  BY <3>1 DEF DebitColumn, DebitOf, First
  <2> DEFINE sums == [T \in SUBSET Good |-> IF T = {} THEN 0 ELSE w[First(T)] + f[T \ {First(T)}]]
  <2>2. body(f) = sums
    <3> HIDE DEF w, Good
    <3> QED  BY <2>1 DEF First
  <2>3. Adds(f, w, Good) <=> f = sums
    <3> HIDE DEF w, Good
    <3> QED  BY DEF Adds
  <2> HIDE DEF body, sums, Good
  <2> QED  BY <2>2, <2>3
<1>2. Good \subseteq EntryIds /\ IsFiniteSet(Good)
  <2>1. Good \subseteq EntryIds
    OBVIOUS
  <2> HIDE DEF Good
  <2> QED  BY <2>1, FS_Subset
<1>3. \E f : f = body(f)
  <2> HIDE DEF w, body, Good
  <2> QED  BY <1>1, <1>2, AddsExists
<1>4. h = body(h)
  <2> HIDE DEF body
  <2> QED  BY <1>3
<1>5. Debits = h[Good]
  BY DEF Debits, MapThenSumSet, MapThenFoldSet
<1>6. Sum(w, Good) = h[Good]
  <2> HIDE DEF w, h, body, Good
  <2> QED  BY <1>1, <1>2, <1>4, SumIsWhatAdds
<1>7. \A id \in EntryIds : w[id] \in Int
  BY ColumnTypes DEF TypeOK
<1>8. \A id \in EntryIds \ Good : w[id] = 0
  BY DEF DebitColumn, DebitOf
<1>9. Sum(w, Good) = Sum(w, EntryIds)
  <2> HIDE DEF w, Good
  <2> QED  BY <1>2, <1>7, <1>8, SumWithoutZeros
<1> QED  BY <1>5, <1>6, <1>9 DEF DebitIn

\* Writing one row changes each side by what the row adds.
LEMMA RowSums ==
    ASSUME TypeInv, TypeInv', IsFiniteSet(EntryIds), NEW t \in EntryIds,
           \A id \in EntryIds : id # t => entries'[id] = entries[id]
    PROVE  /\ CreditIn(entries') = CreditIn(entries) - CreditOf(entries[t]) + CreditOf(entries'[t])
           /\ DebitIn(entries') = DebitIn(entries) - DebitOf(entries[t]) + DebitOf(entries'[t])
<1>1. entries \in [EntryIds -> Entry] /\ entries' \in [EntryIds -> Entry]
  BY DEF TypeInv, TypeOK
<1> DEFINE g1 == CreditColumn(entries)
           h1 == CreditColumn(entries')
           g2 == DebitColumn(entries)
           h2 == DebitColumn(entries')
<1>2. \A id \in EntryIds : /\ g1[id] \in Int /\ h1[id] \in Int
                           /\ g2[id] \in Int /\ h2[id] \in Int
  BY <1>1, ColumnTypes
<1>3. \A id \in EntryIds \ {t} : g1[id] = h1[id] /\ g2[id] = h2[id]
  BY DEF CreditColumn, DebitColumn
<1>4. /\ g1[t] = CreditOf(entries[t]) /\ h1[t] = CreditOf(entries'[t])
      /\ g2[t] = DebitOf(entries[t]) /\ h2[t] = DebitOf(entries'[t])
  BY DEF CreditColumn, DebitColumn
<1>5. Sum(h1, EntryIds) = Sum(g1, EntryIds) - g1[t] + h1[t]
  <2> HIDE DEF g1, h1, g2, h2
  <2>1. \A id \in EntryIds : g1[id] \in Int /\ h1[id] \in Int
    BY <1>2
  <2>2. \A x \in EntryIds :
          (\A id \in EntryIds \ {x} : g1[id] = h1[id])
             => Sum(h1, EntryIds) = Sum(g1, EntryIds) - g1[x] + h1[x]
    BY <2>1, SumUpdate
  <2> QED  BY <1>3, <2>2
<1>6. Sum(h2, EntryIds) = Sum(g2, EntryIds) - g2[t] + h2[t]
  <2> HIDE DEF g1, h1, g2, h2
  <2>1. \A id \in EntryIds : g2[id] \in Int /\ h2[id] \in Int
    BY <1>2
  <2>2. \A x \in EntryIds :
          (\A id \in EntryIds \ {x} : g2[id] = h2[id])
             => Sum(h2, EntryIds) = Sum(g2, EntryIds) - g2[x] + h2[x]
    BY <2>1, SumUpdate
  <2> QED  BY <1>3, <2>2
<1> QED  BY <1>4, <1>5, <1>6 DEF CreditIn, DebitIn

\* What a commit does to the two sides: only a payment is a debit, and a credit is
\* never taken back.
LEMMA CommitSums ==
    ASSUME LedgerInv, NEW r \in Requests, Commit(r), IsFiniteSet(EntryIds)
    PROVE  /\ call[r].op = "pay" =>
                 /\ CreditIn(entries') = CreditIn(entries)
                 /\ DebitIn(entries') = DebitIn(entries) + call[r].body.amount
           /\ call[r].op # "pay" => DebitIn(entries') = DebitIn(entries)
           /\ CreditIn(entries') = CreditIn(entries) - CreditOf(entries[Target(call[r])])
                                     + CreditOf(RowWritten(call[r]))
           /\ CreditIn(entries) <= CreditIn(entries')
<1> DEFINE c == call[r]
           t == Target(c)
<1>1. /\ c \in Calls /\ t \in EntryIds /\ entries'[t] = RowWritten(c)
      /\ \A id \in EntryIds : id # t => entries'[id] = entries[id]
      /\ BooksAreKept /\ TypeInv /\ TypeInv'
  BY CommitRows, CommitTypes DEF LedgerInv
<1>2. /\ CreditIn(entries') = CreditIn(entries) - CreditOf(entries[t]) + CreditOf(RowWritten(c))
      /\ DebitIn(entries') = DebitIn(entries) - DebitOf(entries[t]) + DebitOf(RowWritten(c))
  <2> HIDE DEF t, c
  <2> QED  BY <1>1, RowSums
<1>3. CreditIn(entries) \in Int /\ DebitIn(entries) \in Int
  BY <1>1, SideTypes DEF TypeInv, TypeOK
<1>4. entries[t] \in Entry /\ RowWritten(c) \in Entry
  <2>1. entries[t] \in Entry /\ entries'[t] \in Entry
    BY <1>1 DEF TypeInv, TypeOK
  <2> QED  BY <1>1, <2>1
<1>5. /\ CreditOf(entries[t]) \in Nat /\ CreditOf(RowWritten(c)) \in Nat
      /\ DebitOf(entries[t]) \in Nat /\ DebitOf(RowWritten(c)) \in Nat
  BY <1>4 DEF CreditOf, DebitOf, Entry
<1>6. CASE Counts(entries[t])
  <2>1. CreditOf(RowWritten(c)) = CreditOf(entries[t]) /\ DebitOf(RowWritten(c)) = DebitOf(entries[t])
    BY <1>1, <1>6 DEF BooksAreKept, CreditOf, DebitOf, Counts
  <2>2. c.op # "pay"
    BY <1>6 DEF Commit, Duplicate, Exists, Counts
  <2> QED  BY <1>2, <1>3, <1>5, <2>1, <2>2
<1>7. CASE ~Counts(entries[t])
  <2>1. CreditOf(entries[t]) = 0 /\ DebitOf(entries[t]) = 0
    BY <1>7 DEF CreditOf, DebitOf
  <2>2. CASE c.op = "pay"
    <3>1. CreditOf(RowWritten(c)) = 0 /\ DebitOf(RowWritten(c)) = c.body.amount
      BY <2>2 DEF RowWritten, CreditOf, DebitOf, Counts
    <3> QED  BY <1>2, <1>3, <2>1, <2>2, <3>1
  <2>3. CASE c.op # "pay"
    <3>1. DebitOf(RowWritten(c)) = 0
      <4>1. CASE c.op = "reject"
        BY <1>7, <4>1 DEF RowWritten, RejectPending, Target, DebitOf, Counts
      <4>2. CASE c.op # "reject"
        BY <1>1, <2>3, <4>2 DEF Calls, RowWritten, DebitOf, Counts
      <4> QED  BY <4>1, <4>2
    <3> QED  BY <1>2, <1>3, <1>5, <2>1, <2>3, <3>1
  <2> QED  BY <2>2, <2>3
<1> QED  BY <1>6, <1>7

-----------------------------------------------------------------------------
(* Payments that race.  Each was covered by the balance it read; what can   *)
(* be paid too much is what the other open transactions are about to pay.   *)

\* What each open transaction is about to pay.
Risk == [r \in Requests |-> IF pc[r] = "writing" /\ call[r].op = "pay"
                            THEN call[r].body.amount ELSE 0]

AtRisk == Sum(Risk, Requests)

Largest == Max({b.amount : b \in PayBodies})

Allowed == (Cardinality(Requests) - 1) * Largest

\* Sums and maxima are over finite sets, and there is somebody to ask.
FiniteInstance ==
    /\ IsFiniteSet(EntryIds) /\ IsFiniteSet(Requests) /\ IsFiniteSet(PayBodies)
    /\ Requests # {} /\ PayBodies # {}

OverdraftInv ==
    LedgerInv /\ AtRisk + DebitIn(entries) <= CreditIn(entries) + Allowed

LEMMA AllowedType ==
    ASSUME FiniteInstance
    PROVE  /\ Largest \in Nat /\ \A b \in PayBodies : b.amount <= Largest
           /\ Cardinality(Requests) - 1 \in Nat
           /\ Allowed \in Nat
<1> DEFINE amounts == {b.amount : b \in PayBodies}
           f == [b \in PayBodies |-> b.amount]
<1>1. IsFiniteSet(amounts)
  <2>1. f \in Surjection(PayBodies, amounts)
    BY DEF Surjection
  <2> HIDE DEF f, amounts
  <2> QED  BY <2>1, FS_Surjection DEF FiniteInstance
<1>2. amounts \subseteq Int /\ amounts # {} /\ \A b \in PayBodies : b.amount \in amounts
  BY BoundsAssumption DEF FiniteInstance
<1>3. amounts \subseteq Nat
  BY BoundsAssumption
<1> HIDE DEF amounts
<1>4. Max(amounts) \in amounts /\ \A x \in amounts : x <= Max(amounts)
  BY <1>1, <1>2, FiniteHasMax
<1>5. Largest \in Nat /\ \A b \in PayBodies : b.amount <= Largest
  BY <1>2, <1>3, <1>4 DEF Largest, amounts
<1>6. Cardinality(Requests) - 1 \in Nat
  BY FS_CardinalityType, FS_EmptySet DEF FiniteInstance
<1> DEFINE k == Cardinality(Requests) - 1
<1>7. k * Largest \in Nat
  <2>1. k \in Nat
    BY <1>6
  <2> HIDE DEF k
  <2> QED  BY <1>5, <2>1
<1> QED  BY <1>5, <1>6, <1>7 DEF Allowed

LEMMA RiskType ==
    ASSUME TypeInv
    PROVE  \A r \in Requests : Risk[r] \in Nat
<1> SUFFICES ASSUME NEW r \in Requests, pc[r] = "writing", call[r].op = "pay"
             PROVE  call[r].body.amount \in Nat
  BY DEF Risk
<1>1. call[r].body \in PayBodies
  BY DEF TypeInv, Calls
<1> QED  BY <1>1, BoundsAssumption

\* One request is at risk with another amount than before.
LEMMA RiskUpdate ==
    ASSUME TypeInv, TypeInv', IsFiniteSet(Requests), NEW r \in Requests,
           \A q \in Requests : q # r => pc'[q] = pc[q] /\ call'[q] = call[q]
    PROVE  AtRisk' = AtRisk - Risk[r] + Risk'[r] /\ AtRisk \in Int
<1> DEFINE g == Risk
           h == Risk'
<1>1. \A q \in Requests : g[q] \in Nat /\ h[q] \in Nat
  <2>1. \A q \in Requests : Risk[q] \in Nat
    BY RiskType
  <2>2. ASSUME NEW q \in Requests, pc'[q] = "writing", call'[q].op = "pay"
        PROVE  call'[q].body.amount \in Nat
    <3>1. call'[q].body \in PayBodies
      BY <2>2 DEF TypeInv, Calls
    <3> QED  BY <3>1, BoundsAssumption
  <2>3. \A q \in Requests : Risk'[q] \in Nat
    BY <2>2 DEF Risk
  <2> QED  BY <2>1, <2>3
<1>2. \A q \in Requests \ {r} : g[q] = h[q]
  BY DEF Risk
<1>3. Sum(h, Requests) = Sum(g, Requests) - g[r] + h[r] /\ Sum(g, Requests) \in Int
  <2> HIDE DEF g, h
  <2>1. \A q \in Requests : g[q] \in Int /\ h[q] \in Int
    BY <1>1
  <2>2. \A x \in Requests :
          (\A q \in Requests \ {x} : g[q] = h[q])
             => Sum(h, Requests) = Sum(g, Requests) - g[x] + h[x]
    BY <2>1, SumUpdate
  <2>3. Sum(g, Requests) \in Int
    BY <2>1, SumIsInteger
  <2> QED  BY <1>2, <2>2, <2>3
<1> QED  BY <1>3 DEF AtRisk

\* What the other requests risk is less than what is allowed.
LEMMA OthersRisk ==
    ASSUME TypeInv, FiniteInstance, NEW r \in Requests
    PROVE  AtRisk - Risk[r] <= Allowed
<1> DEFINE g == Risk
           T == Requests \ {r}
<1>1. \A q \in Requests : g[q] \in Int
  BY RiskType
<1>2. \A q \in Requests : g[q] <= Largest
  <2> SUFFICES ASSUME NEW q \in Requests
               PROVE  Risk[q] <= Largest
    OBVIOUS
  <2>1. CASE pc[q] = "writing" /\ call[q].op = "pay"
    <3>1. call[q].body \in PayBodies
      BY <2>1 DEF TypeInv, Calls
    <3> QED  BY <2>1, <3>1, AllowedType DEF Risk
  <2>2. CASE ~ (pc[q] = "writing" /\ call[q].op = "pay")
    BY <2>2, AllowedType DEF Risk
  <2> QED  BY <2>1, <2>2
<1>3. IsFiniteSet(T) /\ Cardinality(T) = Cardinality(Requests) - 1
  BY FS_RemoveElement DEF FiniteInstance
<1>4. Sum(g, Requests) = g[r] + Sum(g, T)
  <2> HIDE DEF g
  <2> QED  BY <1>1, SumTakeOut DEF FiniteInstance
<1>5. Sum(g, T) <= Cardinality(T) * Largest
  <2>1. Largest \in Int /\ \A q \in T : g[q] \in Int /\ g[q] <= Largest
    BY <1>1, <1>2, AllowedType
  <2> HIDE DEF g, T
  <2> QED  BY <1>3, <2>1, SumIsBounded
<1>6. Sum(g, T) <= Allowed
  BY <1>3, <1>5 DEF Allowed
<1>7. Sum(g, T) \in Int
  <2>1. \A q \in T : g[q] \in Int
    BY <1>1
  <2> HIDE DEF g, T
  <2> QED  BY <1>3, <2>1, SumIsInteger
<1>8. g[r] \in Int
  BY <1>1
<1> HIDE DEF g, T
<1>9. Sum(g, Requests) - g[r] <= Allowed
  BY <1>4, <1>6, <1>7, <1>8
<1> QED  BY <1>9 DEF AtRisk, g

\* A payment that is covered may join those that are about to be written.
LEMMA PaidFromBalance ==
    \A risk, allowed, amount, debit, credit \in Int :
        risk <= allowed + amount /\ amount <= credit - debit => risk + debit <= credit + allowed
OBVIOUS

LEMMA StepOverdraft ==
    ASSUME FiniteInstance
    PROVE  OverdraftInv /\ [Next]_vars => OverdraftInv'
<1> SUFFICES ASSUME OverdraftInv, [Next]_vars PROVE OverdraftInv'
  OBVIOUS
<1> DEFINE debit  == DebitIn(entries)
           credit == CreditIn(entries)
           Bounded == AtRisk + debit <= credit + Allowed
<1>1. LedgerInv /\ LedgerInv' /\ TypeInv /\ TypeInv'
  BY StepLedger DEF OverdraftInv, LedgerInv
<1>2. debit \in Int /\ credit \in Int /\ debit' \in Int /\ credit' \in Int /\ Allowed \in Nat
  <2>1. entries \in [EntryIds -> Entry] /\ entries' \in [EntryIds -> Entry]
    BY <1>1 DEF TypeInv, TypeOK
  <2> QED  BY <2>1, SideTypes, AllowedType DEF FiniteInstance
<1>3. Bounded
  BY DEF OverdraftInv
<1>4. ASSUME NEW r \in Requests, entries' = entries,
             \A q \in Requests : q # r => pc'[q] = pc[q] /\ call'[q] = call[q],
             Risk'[r] = 0
      PROVE  Bounded'
  <2>1. AtRisk' = AtRisk - Risk[r] + Risk'[r] /\ AtRisk \in Int
    BY <1>1, <1>4, RiskUpdate DEF FiniteInstance
  <2>2. Risk[r] \in Nat
    BY <1>1, RiskType
  <2>3. debit' = debit /\ credit' = credit
    BY <1>4
  <2> HIDE DEF debit, credit
  <2> QED  BY <1>2, <1>3, <1>4, <2>1, <2>2, <2>3
<1>5. ASSUME NEW r \in Requests, NEW c \in Calls, Start(r, c)
      PROVE  Bounded'
  <2>1. /\ pc'[r] = "checked" /\ entries' = entries
        /\ \A q \in Requests : q # r => pc'[q] = pc[q] /\ call'[q] = call[q]
    BY <1>1, <1>5, StartTypes DEF Start
  <2>2. Risk'[r] = 0
    BY <2>1 DEF Risk
  <2> HIDE DEF Bounded
  <2> QED  BY <1>4, <2>1, <2>2
<1>6. ASSUME NEW r \in Requests, AnswerDuplicate(r) \/ Refuse(r) \/ Abort(r)
      PROVE  Bounded'
  <2>1. Finish(r) /\ entries' = entries
    BY <1>6 DEF AnswerDuplicate, Refuse, Abort
  <2>2. /\ pc'[r] = "idle"
        /\ \A q \in Requests : q # r => pc'[q] = pc[q] /\ call'[q] = call[q]
    BY <1>1, <2>1, FinishFacts
  <2>3. Risk'[r] = 0
    BY <2>2 DEF Risk
  <2> HIDE DEF Bounded
  <2> QED  BY <1>4, <2>1, <2>2, <2>3
<1>7. ASSUME NEW r \in Requests, Write(r)
      PROVE  Bounded'
  <2>1. /\ pc[r] = "checked" /\ UNCHANGED <<entries, call>> /\ ~Refused(r)
        /\ \A q \in Requests : q # r => pc'[q] = pc[q] /\ call'[q] = call[q]
    BY <1>1, <1>7, WriteTypes DEF Write
  <2>2. CASE call[r].op # "pay"
    <3>1. Risk'[r] = 0
      BY <2>1, <2>2 DEF Risk
    <3> HIDE DEF Bounded
    <3> QED  BY <1>4, <2>1, <3>1
  <2>3. CASE call[r].op = "pay"
    <3>1. AtRisk' = AtRisk - Risk[r] + Risk'[r] /\ AtRisk \in Int
      BY <1>1, <2>1, RiskUpdate DEF FiniteInstance
    <3>2. Risk[r] = 0
      BY <2>1 DEF Risk
    <3>3. AtRisk <= Allowed
      BY <1>1, <3>1, <3>2, OthersRisk
    <3>4. call[r].body \in PayBodies
      BY <1>1, <2>1, <2>3 DEF TypeInv, Calls
    <3>5. Risk'[r] \in Nat /\ (Risk'[r] = 0 \/ Risk'[r] = call[r].body.amount)
      BY <2>1, <2>3, <3>4, BoundsAssumption DEF Risk
    <3>6. OpenBalance = IF credit - debit \in Nat THEN credit - debit ELSE 0
      BY <1>1, CreditsAreSummed, DebitsAreSummed DEF OpenBalance, TypeInv, FiniteInstance
    <3>7. call[r].body.amount \in Nat \ {0} /\ call[r].body.amount <= OpenBalance
      BY <2>1, <2>3, <3>4, BoundsAssumption DEF Refused, Covered
    <3>8. call[r].body.amount <= credit - debit
      <4> HIDE DEF debit, credit
      <4> QED  BY <1>2, <3>6, <3>7
    <3>9. debit' = debit /\ credit' = credit
      BY <2>1
    <3>10. AtRisk' <= Allowed + call[r].body.amount
      BY <1>2, <3>1, <3>2, <3>3, <3>5, <3>7
    <3>11. AtRisk' \in Int
      BY <3>1, <3>2, <3>5
    <3>12. call[r].body.amount \in Int
      BY <3>7
    <3> HIDE DEF debit, credit
    <3>13. debit \in Int /\ credit \in Int /\ Allowed \in Int
      BY <1>2
    <3>14. AtRisk' + debit <= credit + Allowed
      BY <3>8, <3>10, <3>11, <3>12, <3>13, PaidFromBalance
    <3>15. AtRisk' + debit' <= credit' + Allowed
      BY <3>9, <3>14
    <3> QED  BY <3>15 DEF Bounded
  <2> QED  BY <2>2, <2>3
<1>8. ASSUME NEW r \in Requests, Commit(r)
      PROVE  Bounded'
  <2>1. /\ pc[r] = "writing" /\ pc'[r] = "idle"
        /\ \A q \in Requests : q # r => pc'[q] = pc[q] /\ call'[q] = call[q]
    BY <1>1, <1>8, FinishFacts DEF Commit
  <2>2. AtRisk' = AtRisk - Risk[r] + Risk'[r] /\ AtRisk \in Int
    BY <1>1, <2>1, RiskUpdate DEF FiniteInstance
  <2>3. Risk'[r] = 0 /\ Risk[r] = IF call[r].op = "pay" THEN call[r].body.amount ELSE 0
    BY <2>1 DEF Risk
  <2>4. Risk[r] \in Nat
    BY <1>1, RiskType
  <2>5. debit' = debit + Risk[r] /\ credit <= credit'
    <3>1. CASE call[r].op = "pay"
      BY <1>1, <1>8, <2>3, <3>1, CommitSums DEF FiniteInstance
    <3>2. CASE call[r].op # "pay"
      BY <1>1, <1>2, <1>8, <2>3, <3>2, CommitSums DEF FiniteInstance
    <3> QED  BY <3>1, <3>2
  <2> HIDE DEF debit, credit
  <2> QED  BY <1>2, <1>3, <2>2, <2>3, <2>4, <2>5
<1>9. ASSUME UNCHANGED <<entries, pc, call>>
      PROVE  Bounded'
  <2>1. Risk' = Risk
    BY <1>9 DEF Risk
  <2>2. AtRisk' = AtRisk
    BY <2>1 DEF AtRisk
  <2>3. debit' = debit /\ credit' = credit
    BY <1>9
  <2> HIDE DEF debit, credit
  <2> QED  BY <1>3, <2>2, <2>3
<1>10. ASSUME NEW active \in BOOLEAN, SetSupplierActive(active)
       PROVE  Bounded'
  <2> HIDE DEF Bounded
  <2> QED  BY <1>9, <1>10 DEF SetSupplierActive
<1>11. ASSUME UNCHANGED vars
       PROVE  Bounded'
  <2> HIDE DEF Bounded
  <2> QED  BY <1>9, <1>11 DEF vars
<1>12. Bounded'
  <2> HIDE DEF Bounded
  <2> QED  BY <1>5, <1>6, <1>7, <1>8, <1>10, <1>11 DEF Next, Progress
<1> QED  BY <1>1, <1>12 DEF OverdraftInv

\* However many payments race, what is paid beyond what is owed stays below one largest
\* payment for every other request; with one request there is no overdraft.
THEOREM OverdraftStaysBounded ==
    (PayBodies # {} =>
        /\ IsFiniteSet(PayBodies) /\ IsFiniteSet(MailOrders)
        /\ IsFiniteSet(Requests) /\ Requests # {}) /\ Spec
    => []OverdraftIsBounded
<1> SUFFICES ASSUME PayBodies # {} => FiniteInstance PROVE Spec => []OverdraftIsBounded
  BY EntryIdsAreFinite DEF FiniteInstance
<1>1. CASE PayBodies = {}
  <2>1. TypeInv => OverdraftIsBounded
    BY <1>1 DEF OverdraftIsBounded
  <2> QED  BY <2>1, InitTypes, StepTypes, PTL DEF Spec
<1>2. CASE PayBodies # {}
  <2>1. FiniteInstance
    BY <1>2
  <2>2. Init => OverdraftInv
    <3> SUFFICES ASSUME Init PROVE OverdraftInv
      OBVIOUS
    <3>1. \A id \in EntryIds : /\ CreditColumn(entries)[id] = 0
                               /\ DebitColumn(entries)[id] = 0
      BY DEF Init, NoEntry, CreditColumn, DebitColumn, CreditOf, DebitOf, Counts
    <3>2. \A r \in Requests : Risk[r] = 0
      BY DEF Init, Risk
    <3> DEFINE g == CreditColumn(entries)
               h == DebitColumn(entries)
    <3>3. Sum(g, EntryIds) = 0 /\ Sum(h, EntryIds) = 0 /\ Sum(Risk, Requests) = 0
      <4> HIDE DEF g, h
      <4> QED  BY <2>1, <3>1, <3>2, SumOfZeros DEF FiniteInstance, g, h
    <3>4. LedgerInv
      BY InitLedger
    <3> QED  BY <2>1, <3>3, <3>4, AllowedType DEF OverdraftInv, AtRisk, CreditIn, DebitIn
  <2>3. OverdraftInv /\ [Next]_vars => OverdraftInv'
    BY <2>1, StepOverdraft
  <2>4. OverdraftInv => OverdraftIsBounded
    <3> SUFFICES ASSUME OverdraftInv PROVE OverdraftIsBounded
      OBVIOUS
    <3>1. TypeInv /\ Credits = CreditIn(entries) /\ Debits = DebitIn(entries)
      BY <2>1, CreditsAreSummed, DebitsAreSummed DEF OverdraftInv, LedgerInv, TypeInv, FiniteInstance
    <3>2. Credits \in Int /\ Debits \in Int /\ Allowed \in Nat
      BY <2>1, <3>1, SideTypes, AllowedType DEF TypeInv, TypeOK, FiniteInstance
    <3>3. AtRisk \in Nat
      <4>1. \A r \in Requests : Risk[r] \in Nat
        BY <3>1, RiskType
      <4> DEFINE zero == [r \in Requests |-> 0]
                 g == Risk
      <4>2. \A r \in Requests : zero[r] \in Int /\ g[r] \in Int /\ zero[r] <= g[r]
        BY <4>1
      <4>3. \A r \in Requests : zero[r] = 0
        OBVIOUS
      <4> HIDE DEF zero, g
      <4>4. Sum(zero, Requests) = 0
        BY <2>1, <4>3, SumOfZeros DEF FiniteInstance
      <4>5. Sum(zero, Requests) <= Sum(g, Requests)
        BY <2>1, <4>2, SumIsMonotonic DEF FiniteInstance
      <4>6. \A r \in Requests : g[r] \in Int
        BY <4>2
      <4>7. Sum(g, Requests) \in Int
        BY <2>1, <4>6, SumIsInteger DEF FiniteInstance
      <4> QED  BY <4>4, <4>5, <4>7 DEF AtRisk, g
    <3>4. Debits <= Credits + Allowed
      BY <3>1, <3>2, <3>3 DEF OverdraftInv
    <3> QED  BY <3>4 DEF OverdraftIsBounded, Allowed, Largest
  <2> QED  BY <2>2, <2>3, <2>4, PTL DEF Spec
<1> QED  BY <1>1, <1>2

-----------------------------------------------------------------------------
(* One request at a time.                                                   *)

\* What is still owed, as a sum over the whole table.
Owed == CreditIn(entries) - DebitIn(entries)

BooksAgree == DebitIn(entries) <= CreditIn(entries) /\ statement = Owed

Alone == \A q, r \in Requests : pc[q] # "idle" /\ pc[r] # "idle" => q = r

\* What an open transaction read still holds.
ReadsAreFresh ==
    \A r \in Requests :
        /\ pc[r] = "writing" =>
              /\ draft[r].balanceAfter = BalanceWith(call[r], Owed)
              /\ call[r].op = "pay" => call[r].body.amount <= Owed
        /\ pc[r] # "idle" /\ call[r].op \in {"approve", "reject"} =>
              entries[MailOrderId(call[r].mail)].status = "PENDING"

SerialInv == LedgerInv /\ (~raced => BooksAgree /\ Alone /\ ReadsAreFresh)

LEMMA OwedIsRead ==
    ASSUME TypeOK, IsFiniteSet(EntryIds), BooksAgree
    PROVE  OpenBalance = Owed /\ Owed \in Nat
<1> DEFINE debit  == DebitIn(entries)
           credit == CreditIn(entries)
<1>1. debit \in Int /\ credit \in Int
  BY SideTypes DEF TypeOK
<1>2. OpenBalance = IF credit - debit \in Nat THEN credit - debit ELSE 0
  BY CreditsAreSummed, DebitsAreSummed DEF OpenBalance
<1>3. debit <= credit
  BY DEF BooksAgree
<1>4. Owed = credit - debit
  BY DEF Owed
<1> HIDE DEF debit, credit
<1>5. credit - debit \in Nat
  BY <1>1, <1>3
<1> QED  BY <1>2, <1>4, <1>5

\* The arms of BalanceWith, one by one.
LEMMA BalanceArms ==
    ASSUME NEW c, NEW before
    PROVE  /\ c.op = "pay" => BalanceWith(c, before) = before - c.body.amount
           /\ c.op = "receive" => BalanceWith(c, before) = before + c.total
           /\ c.op = "reject" \/ (c.op = "post" /\ ~c.auto) => BalanceWith(c, before) = before
           /\ c.op = "approve" \/ (c.op = "post" /\ c.auto) =>
                 BalanceWith(c, before) = before + MailAmount
BY DEF BalanceWith

\* A step that writes no row, and after which the requests that go on are as they were.
LEMMA NothingWritten ==
    ASSUME BooksAgree, Alone, ReadsAreFresh, UNCHANGED <<entries, statement>>,
           \A q \in Requests : pc'[q] # "idle" =>
               pc'[q] = pc[q] /\ call'[q] = call[q] /\ draft'[q] = draft[q]
    PROVE  BooksAgree' /\ Alone' /\ ReadsAreFresh'
<1>1. Owed' = Owed
  BY DEF Owed
<1>2. BooksAgree'
  BY <1>1 DEF BooksAgree
<1>3. Alone'
  BY DEF Alone
<1>4. \A q \in Requests : pc'[q] = "writing" => BalanceWith(call[q], Owed)' = BalanceWith(call[q], Owed)
  BY <1>1 DEF BalanceWith
<1>5. ReadsAreFresh'
  BY <1>1, <1>4 DEF ReadsAreFresh
<1> QED  BY <1>2, <1>3, <1>5

LEMMA StartSerial ==
    ASSUME SerialInv, NEW r \in Requests, NEW c \in Calls, Start(r, c), ~raced'
    PROVE  BooksAgree' /\ Alone' /\ ReadsAreFresh'
<1>1. /\ pc'[r] = "checked" /\ call'[r] = c
      /\ \A q \in Requests : q # r => pc'[q] = pc[q] /\ call'[q] = call[q]
      /\ UNCHANGED <<entries, draft, statement>>
  BY StartTypes DEF Start, SerialInv, LedgerInv
<1>2. ~raced /\ \A q \in Requests : pc[q] = "idle"
  BY DEF Start, SerialInv, LedgerInv, TypeInv, TypeOK
<1>3. c.op \in {"approve", "reject"} => entries[MailOrderId(c.mail)].status = "PENDING"
  BY DEF Start
<1>4. BooksAgree'
  BY <1>1, <1>2 DEF SerialInv, BooksAgree, Owed
<1>5. Alone' /\ ReadsAreFresh'
  BY <1>1, <1>2, <1>3 DEF Alone, ReadsAreFresh
<1> QED  BY <1>4, <1>5

LEMMA WriteSerial ==
    ASSUME SerialInv, IsFiniteSet(EntryIds), NEW r \in Requests, Write(r), ~raced'
    PROVE  BooksAgree' /\ Alone' /\ ReadsAreFresh'
<1>1. /\ pc'[r] = "writing" /\ pc[r] = "checked"
      /\ \A q \in Requests : q # r => pc'[q] = pc[q] /\ draft'[q] = draft[q]
      /\ UNCHANGED <<entries, call, statement, raced>>
  BY WriteTypes DEF Write, SerialInv, LedgerInv
<1>2. BooksAgree /\ Alone /\ ReadsAreFresh /\ TypeOK
  BY <1>1 DEF SerialInv, LedgerInv, TypeInv
<1>3. \A q \in Requests : q # r => pc'[q] = "idle"
  BY <1>1, <1>2 DEF Alone, TypeOK
<1>4. OpenBalance = Owed /\ Owed' = Owed
  BY <1>1, <1>2, OwedIsRead DEF Owed
<1>5. draft'[r].balanceAfter = BalanceWith(call[r], Owed)
  <2> DEFINE new == [row |-> RowWritten(call[r]),
                     balanceAfter |-> BalanceWith(call[r], OpenBalance)]
  <2>1. draft' = [draft EXCEPT ![r] = new] /\ new.balanceAfter = BalanceWith(call[r], OpenBalance)
    BY DEF Write
  <2> HIDE DEF new
  <2> QED  BY <1>2, <1>4, <2>1 DEF TypeOK
<1>6. call[r].op = "pay" => call[r].body.amount <= Owed
  BY <1>4 DEF Write, Refused, Covered
<1>7. BalanceWith(call[r], Owed)' = BalanceWith(call[r], Owed)
  BY <1>1, <1>4 DEF BalanceWith
<1>8. ReadsAreFresh'
  BY <1>1, <1>2, <1>3, <1>4, <1>5, <1>6, <1>7 DEF ReadsAreFresh
<1>9. BooksAgree' /\ Alone'
  BY <1>1, <1>2, <1>3, <1>4 DEF BooksAgree, Alone
<1> QED  BY <1>8, <1>9

LEMMA CommitSerial ==
    ASSUME SerialInv, IsFiniteSet(EntryIds), NEW r \in Requests, Commit(r), ~raced'
    PROVE  BooksAgree' /\ Alone' /\ ReadsAreFresh'
<1> DEFINE c == call[r]
           was == CreditOf(entries[Target(c)])
           now == CreditOf(RowWritten(c))
           debit  == DebitIn(entries)
           credit == CreditIn(entries)
<1>1. /\ LedgerInv /\ BooksAgree /\ Alone /\ ReadsAreFresh
      /\ pc[r] = "writing" /\ c \in Calls /\ ~Duplicate(r)
  BY DEF Commit, Finish, SerialInv, LedgerInv, TypeInv
<1>2. \A q \in Requests : pc'[q] = "idle"
  <2>1. pc'[r] = "idle" /\ \A q \in Requests : q # r => pc'[q] = pc[q]
    BY <1>1, FinishFacts DEF Commit, LedgerInv
  <2> QED  BY <1>1, <2>1 DEF Alone
<1>3. /\ draft[r].balanceAfter = BalanceWith(c, Owed)
      /\ c.op = "pay" => c.body.amount <= Owed
      /\ c.op \in {"approve", "reject"} => entries[MailOrderId(c.mail)].status = "PENDING"
  BY <1>1 DEF ReadsAreFresh
<1>4. statement' = IF c.op = "reject" THEN statement ELSE BalanceWith(c, Owed)
  BY <1>3 DEF Commit
<1>5. /\ c.op = "pay" => credit' = credit /\ debit' = debit + c.body.amount
      /\ c.op # "pay" => debit' = debit
      /\ credit' = credit - was + now
      /\ credit <= credit'
  BY <1>1, CommitSums
<1>6. c.op # "pay" => was = 0
  <2>1. ASSUME c.op = "receive" PROVE ~Exists(Target(c))
    BY <1>1, <2>1 DEF LedgerInv, ReceiptsInv, Target
  <2>2. ASSUME c.op = "post" PROVE ~Exists(Target(c))
    BY <1>1, <2>2 DEF LedgerInv, DraftsInv, Target
  <2>3. ASSUME c.op \in {"approve", "reject"} PROVE entries[Target(c)].status = "PENDING"
    BY <1>3, <2>3 DEF Target
  <2> QED  BY <1>1, <2>1, <2>2, <2>3 DEF Calls, Exists, CreditOf, Counts
<1>7. /\ c.op = "receive" => now = c.total
      /\ c.op = "reject" \/ (c.op = "post" /\ ~c.auto) => now = 0
      /\ c.op = "approve" \/ (c.op = "post" /\ c.auto) => now = MailAmount
  <2>1. ASSUME c.op = "receive" PROVE now = c.total
    BY <2>1 DEF RowWritten, CreditOf, Counts
  <2>2. ASSUME c.op = "reject" PROVE now = 0
    BY <1>3, <2>2 DEF RowWritten, RejectPending, CreditOf, Counts
  <2>3. ASSUME c.op = "post", ~c.auto PROVE now = 0
    BY <2>3 DEF RowWritten, CreditOf, Counts
  <2>4. ASSUME c.op = "approve" \/ (c.op = "post" /\ c.auto) PROVE now = MailAmount
    BY <2>4 DEF RowWritten, CreditOf, Counts
  <2> QED  BY <2>1, <2>2, <2>3, <2>4
<1>8. /\ c.op = "pay" => BalanceWith(c, Owed) = Owed - c.body.amount
      /\ c.op = "receive" => BalanceWith(c, Owed) = Owed + c.total
      /\ c.op = "reject" \/ (c.op = "post" /\ ~c.auto) => BalanceWith(c, Owed) = Owed
      /\ c.op = "approve" \/ (c.op = "post" /\ c.auto) => BalanceWith(c, Owed) = Owed + MailAmount
  <2> HIDE DEF c
  <2> QED  BY BalanceArms
<1>9. /\ debit \in Int /\ credit \in Int /\ debit' \in Int /\ credit' \in Int
      /\ Owed = credit - debit /\ Owed' = credit' - debit'
      /\ statement = Owed /\ debit <= credit /\ MailAmount \in Int
  <2>1. entries \in [EntryIds -> Entry] /\ entries' \in [EntryIds -> Entry]
    BY <1>1, CommitTypes DEF LedgerInv, TypeInv, TypeOK
  <2> QED  BY <1>1, <2>1, SideTypes, BoundsAssumption DEF Owed, BooksAgree
<1>10. /\ c.op = "pay" => c.body.amount \in Int
       /\ c.op = "receive" => c.total \in Int
       /\ c.op = "pay" \/ c.op = "receive" \/ c.op = "reject" \/ (c.op = "post" /\ ~c.auto)
            \/ c.op = "approve" \/ (c.op = "post" /\ c.auto)
  <2>1. c.op = "pay" => c.body.amount \in Int
    <3>1. c.op = "pay" => c.body \in PayBodies
      BY <1>1 DEF Calls
    <3> HIDE DEF c
    <3> QED  BY <3>1, BoundsAssumption
  <2>2. c.op = "receive" => c.total \in Int
    <3>1. c.op = "receive" => c.total \in Totals
      BY <1>1 DEF Calls
    <3>2. \A n \in Totals : n \in Int
      BY BoundsAssumption
    <3> QED  BY <3>1, <3>2
  <2>3. c.op \in {"pay", "receive", "post", "approve", "reject"}
    BY <1>1 DEF Calls
  <2> HIDE DEF c
  <2> QED  BY <2>1, <2>2, <2>3
<1>11. debit' <= credit' /\ statement' = Owed'
  <2> HIDE DEF c, was, now, debit, credit
  <2>1. CASE c.op = "pay"
    BY <1>3, <1>4, <1>5, <1>8, <1>9, <1>10, <2>1
  <2>2. CASE c.op = "receive"
    BY <1>4, <1>5, <1>6, <1>7, <1>8, <1>9, <1>10, <2>2
  <2>3. CASE c.op = "reject" \/ (c.op = "post" /\ ~c.auto)
    BY <1>4, <1>5, <1>6, <1>7, <1>8, <1>9, <2>3
  <2>4. CASE c.op = "approve" \/ (c.op = "post" /\ c.auto)
    <3>1. c.op # "reject" /\ c.op # "pay"
      BY <2>4
    <3>2. statement' = Owed + MailAmount /\ debit' = debit /\ credit' = credit + MailAmount
      BY <1>4, <1>5, <1>6, <1>7, <1>8, <1>9, <2>4, <3>1
    <3> QED  BY <1>5, <1>9, <3>2
  <2> QED  BY <1>10, <2>1, <2>2, <2>3, <2>4
<1>12. BooksAgree'
  BY <1>11 DEF BooksAgree
<1>13. Alone' /\ ReadsAreFresh'
  BY <1>2 DEF Alone, ReadsAreFresh
<1> QED  BY <1>12, <1>13

LEMMA SerialInductive ==
    ASSUME IsFiniteSet(EntryIds)
    PROVE  /\ Init => SerialInv
           /\ SerialInv /\ [Next]_vars => SerialInv'
<1>1. Init => SerialInv
  <2> SUFFICES ASSUME Init PROVE SerialInv
    OBVIOUS
  <2> DEFINE g == CreditColumn(entries)
             h == DebitColumn(entries)
  <2>1. \A id \in EntryIds : g[id] = 0 /\ h[id] = 0
    BY DEF Init, NoEntry, CreditColumn, DebitColumn, CreditOf, DebitOf, Counts
  <2>2. Sum(g, EntryIds) = 0 /\ Sum(h, EntryIds) = 0
    <3> HIDE DEF g, h
    <3> QED  BY <2>1, SumOfZeros
  <2>3. BooksAgree
    BY <2>2 DEF Init, BooksAgree, Owed, CreditIn, DebitIn
  <2> QED  BY <2>3, InitLedger DEF Init, SerialInv, Alone, ReadsAreFresh
<1>2. SerialInv /\ [Next]_vars => SerialInv'
  <2> SUFFICES ASSUME SerialInv, [Next]_vars, ~raced'
               PROVE  BooksAgree' /\ Alone' /\ ReadsAreFresh'
    BY StepLedger DEF SerialInv
  <2>1. ASSUME NEW r \in Requests, NEW c \in Calls, Start(r, c)
        PROVE  BooksAgree' /\ Alone' /\ ReadsAreFresh'
    BY <2>1, StartSerial
  <2>2. ASSUME NEW r \in Requests, Write(r)
        PROVE  BooksAgree' /\ Alone' /\ ReadsAreFresh'
    BY <2>2, WriteSerial
  <2>3. ASSUME NEW r \in Requests, Commit(r)
        PROVE  BooksAgree' /\ Alone' /\ ReadsAreFresh'
    BY <2>3, CommitSerial
  <2>4. ASSUME NEW r \in Requests, AnswerDuplicate(r) \/ Refuse(r) \/ Abort(r)
        PROVE  BooksAgree' /\ Alone' /\ ReadsAreFresh'
    <3>1. Finish(r) /\ UNCHANGED <<entries, statement>>
      BY <2>4 DEF AnswerDuplicate, Refuse, Abort
    <3>2. /\ pc'[r] = "idle" /\ raced' = raced
          /\ \A q \in Requests : q # r =>
                pc'[q] = pc[q] /\ call'[q] = call[q] /\ draft'[q] = draft[q]
      BY <3>1, FinishFacts DEF Finish, SerialInv, LedgerInv
    <3> QED  BY <3>1, <3>2, NothingWritten DEF SerialInv
  <2>5. ASSUME UNCHANGED <<entries, pc, call, draft, statement, raced>>
        PROVE  BooksAgree' /\ Alone' /\ ReadsAreFresh'
    BY <2>5, NothingWritten DEF SerialInv
  <2>6. ASSUME NEW active \in BOOLEAN, SetSupplierActive(active)
        PROVE  BooksAgree' /\ Alone' /\ ReadsAreFresh'
    BY <2>5, <2>6 DEF SetSupplierActive
  <2>7. ASSUME UNCHANGED vars
        PROVE  BooksAgree' /\ Alone' /\ ReadsAreFresh'
    BY <2>5, <2>7 DEF vars
  <2> QED  BY <2>1, <2>2, <2>3, <2>4, <2>6, <2>7 DEF Next, Progress
<1> QED  BY <1>1, <1>2

\* When requests never overlap, what the supplier is told it is owed is what its rows
\* sum to, whatever the sequence of payments, receipts and mail orders.
THEOREM SerialStatementAddsUp ==
    IsFiniteSet(PayBodies) /\ IsFiniteSet(MailOrders) /\ Spec => []StatementAddsUp
<1> SUFFICES ASSUME IsFiniteSet(EntryIds) PROVE Spec => []StatementAddsUp
  BY EntryIdsAreFinite
<1>1. SerialInv => StatementAddsUp
  <2> SUFFICES ASSUME SerialInv, ~raced PROVE statement = OpenBalance
    BY DEF StatementAddsUp
  <2>1. TypeOK /\ BooksAgree
    BY DEF SerialInv, LedgerInv, TypeInv
  <2> QED  BY <2>1, OwedIsRead DEF BooksAgree
<1> QED  BY <1>1, SerialInductive, PTL DEF Spec

\* "Exceeds open balance": when requests never overlap, however many the API may serve,
\* the supplier is never paid more than it is owed, and the clamp of the balance at
\* zero hides nothing.  Amounts are whole: the code lets a payment pass by 0.009.
NothingOverpaid == ~raced => Debits <= Credits /\ OpenBalance = Credits - Debits

THEOREM SerialPaymentsAreCovered ==
    IsFiniteSet(PayBodies) /\ IsFiniteSet(MailOrders) /\ Spec => []NothingOverpaid
<1> SUFFICES ASSUME IsFiniteSet(EntryIds) PROVE Spec => []NothingOverpaid
  BY EntryIdsAreFinite
<1>1. SerialInv => NothingOverpaid
  <2> SUFFICES ASSUME SerialInv, ~raced
               PROVE  Debits <= Credits /\ OpenBalance = Credits - Debits
    BY DEF NothingOverpaid
  <2>1. TypeOK /\ BooksAgree
    BY DEF SerialInv, LedgerInv, TypeInv
  <2>2. Credits = CreditIn(entries) /\ Debits = DebitIn(entries)
    BY <2>1, CreditsAreSummed, DebitsAreSummed
  <2> QED  BY <2>1, <2>2, OwedIsRead DEF BooksAgree, Owed
<1> QED  BY <1>1, SerialInductive, PTL DEF Spec
=============================================================================
