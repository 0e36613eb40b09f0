----------------------- MODULE CustomerPaymentsProofs -----------------------
(***************************************************************************)
(* Theorems about CustomerPayments, for every set of requests, bodies,     *)
(* amounts and roles.                                                      *)
(***************************************************************************)
EXTENDS CustomerPayments, SumTheorems, TLAPS

-----------------------------------------------------------------------------
(* Facts about the constants and the helpers.                               *)

\* Amounts are natural numbers.
LEMMA AmountsAreNat == \A a \in Amounts : a \in Nat
<1>1. \A a \in InitialAmounts : a \in Nat
  BY AmountsAssumption
<1>2. \A a \in {b.amount : b \in PostBodies} : a \in Nat
  BY AmountsAssumption
<1>3. \A a \in {b.amount : b \in RefundBodies} : a \in Nat
  BY AmountsAssumption
<1>4. \A a \in {0} : a \in Nat
  OBVIOUS
<1> QED  BY <1>1, <1>2, <1>3, <1>4, Zenon DEF Amounts

\* The identifiers a call can produce are identifiers of the table.
LEMMA IdTypes ==
    /\ InitialId \in PaymentIds
    /\ SourceIds \subseteq PaymentIds
    /\ \A b \in PostBodies : /\ EffectiveKey(b) \in Keys
                             /\ PostId(EffectiveKey(b)) \in SourceIds
    /\ \A p \in SourceIds, b \in RefundBodies, a \in Amounts :
          /\ RefundKey(p, b, a) \in Keys
          /\ RefundId(p, RefundKey(p, b, a)) \in PaymentIds
<1>1. \A b \in PostBodies : EffectiveKey(b) \in PostKeys
  BY DEF PostKeys
<1>2. \A p \in SourceIds, b \in RefundBodies, a \in Amounts :
         RefundKey(p, b, a) \in RefundKeys(p)
  BY DEF RefundKeys
<1>3. \A p \in SourceIds : \A k \in RefundKeys(p) : k \in Keys /\ RefundId(p, k) \in PaymentIds
  BY DEF Keys, PaymentIds, RefundIds
<1>4. InitialId \in PaymentIds /\ SourceIds \subseteq PaymentIds
  BY DEF PaymentIds, SourceIds
<1>5. \A k \in PostKeys : k \in Keys /\ PostId(k) \in SourceIds
  BY DEF Keys, SourceIds
<1> QED  BY <1>1, <1>2, <1>3, <1>4, <1>5

\* The table has a row for each body, amount and source: finitely many, if the bodies are.
LEMMA PaymentIdsAreFinite ==
    ASSUME IsFiniteSet(PostBodies), IsFiniteSet(RefundBodies)
    PROVE  IsFiniteSet(PaymentIds)
<1>1. IsFiniteSet(PostKeys)
  <2> DEFINE f == [b \in PostBodies |-> EffectiveKey(b)]
  <2>1. PostKeys = {f[b] : b \in PostBodies}
    BY DEF PostKeys
  <2> QED  BY <2>1, FiniteImage
<1>2. IsFiniteSet(SourceIds)
  <2> DEFINE f == [k \in PostKeys |-> PostId(k)]
  <2>1. {PostId(k) : k \in PostKeys} = {f[k] : k \in PostKeys}
    OBVIOUS
  <2>2. IsFiniteSet({PostId(k) : k \in PostKeys})
    <3> HIDE DEF f
    <3>1. IsFiniteSet({f[k] : k \in PostKeys})
      BY <1>1, FiniteImage
    <3> QED  BY <2>1, <3>1
  <2>3. IsFiniteSet({InitialId})
    BY FS_EmptySet, FS_AddElement
  <2> QED  BY <2>2, <2>3, FS_Union DEF SourceIds
<1>3. IsFiniteSet(Amounts)
  <2> DEFINE f == [b \in PostBodies |-> b.amount]
             g == [b \in RefundBodies |-> b.amount]
  <2>1. {b.amount : b \in PostBodies} = {f[b] : b \in PostBodies}
    OBVIOUS
  <2>2. {b.amount : b \in RefundBodies} = {g[b] : b \in RefundBodies}
    OBVIOUS
  <2>3. /\ IsFiniteSet({b.amount : b \in PostBodies})
        /\ IsFiniteSet({b.amount : b \in RefundBodies})
    <3> HIDE DEF f, g
    <3>1. IsFiniteSet({f[b] : b \in PostBodies})
      BY FiniteImage
    <3>2. IsFiniteSet({g[b] : b \in RefundBodies})
      BY FiniteImage
    <3> QED  BY <2>1, <2>2, <3>1, <3>2
  <2>4. IsFiniteSet(InitialAmounts)
    <3>1. InitialAmounts \subseteq 0..OrderTotal /\ IsFiniteSet(0..OrderTotal)
      BY AmountsAssumption, FS_Interval
    <3> QED  BY <3>1, FS_Subset
  <2>5. IsFiniteSet({0})
    BY FS_EmptySet, FS_AddElement
  <2>6. IsFiniteSet({0} \cup InitialAmounts)
    BY <2>4, <2>5, FS_Union
  <2>7. IsFiniteSet(({0} \cup InitialAmounts) \cup {b.amount : b \in PostBodies})
    BY <2>3, <2>6, FS_Union
  <2> QED  BY <2>3, <2>7, FS_Union DEF Amounts
<1>4. ASSUME NEW p
      PROVE  IsFiniteSet({RefundId(p, k) : k \in RefundKeys(p)})
  <2> DEFINE D == RefundBodies \X Amounts
             f == [x \in D |-> RefundId(p, RefundKey(p, x[1], x[2]))]
  <2>1. IsFiniteSet(D)
    BY <1>3, FS_Product
  <2>2. {RefundId(p, k) : k \in RefundKeys(p)} = {f[x] : x \in D}
    <3>1. ASSUME NEW id, id \in {RefundId(p, k) : k \in RefundKeys(p)}
          PROVE  id \in {f[x] : x \in D}
      <4>1. PICK b \in RefundBodies, a \in Amounts : id = RefundId(p, RefundKey(p, b, a))
        BY <3>1 DEF RefundKeys
      <4>2. f[<<b, a>>] = id /\ <<b, a>> \in D
        BY <4>1
      <4> HIDE DEF f, D
      <4> QED  BY <4>2
    <3>2. ASSUME NEW x \in D
          PROVE  f[x] \in {RefundId(p, k) : k \in RefundKeys(p)}
      BY <3>2 DEF RefundKeys
    <3> HIDE DEF f, D
    <3> QED  BY <3>1, <3>2
  <2> HIDE DEF f, D
  <2>3. IsFiniteSet({f[x] : x \in D})
    BY <2>1, FiniteImage
  <2> QED  BY <2>2, <2>3
<1>5. IsFiniteSet(RefundIds)
  <2> DEFINE f == [p \in SourceIds |-> {RefundId(p, k) : k \in RefundKeys(p)}]
             sets == {f[p] : p \in SourceIds}
  <2>1. RefundIds = UNION sets
    BY DEF RefundIds
  <2>2. \A T \in sets : IsFiniteSet(T)
    BY <1>4
  <2>3. IsFiniteSet(sets)
    <3> HIDE DEF f
    <3> QED  BY <1>2, FiniteImage
  <2> HIDE DEF sets
  <2> QED  BY <2>1, <2>2, <2>3, FS_UNION
<1> QED  BY <1>2, <1>5, FS_Union DEF PaymentIds

\* Math.max(0, n) is never negative, whatever is summed.
LEMMA NonNegativeType == \A n : NonNegative(n) \in Nat
BY DEF NonNegative

LEMMA BalanceType ==
    ASSUME NEW paid \in Nat, NEW version \in Nat
    PROVE  Balance(paid, version) \in
              [paid : Nat, remaining : Nat, fullyPaid : BOOLEAN, version : Nat]
BY NonNegativeType DEF Balance

LEMMA SumPostedType == \A tbl : SumPosted(tbl) \in Nat
BY NonNegativeType DEF SumPosted

-----------------------------------------------------------------------------
(* Type correctness.  A request that is in flight serves a call, so that    *)
(* the row it writes and the identifier it writes it under are defined.     *)

CallsInFlight == \A r \in Requests : pc[r] # "idle" => call[r] \in Calls

TypeInv == TypeOK /\ CallsInFlight

LEMMA CallTypes ==
    ASSUME TypeOK, NEW c \in Calls
    PROVE  /\ RowId(c) \in PaymentIds
           /\ RowWritten(c) \in Row
<1> USE DEF TypeOK
<1>1. CASE c \in PostCalls
  <2>1. c.op = "post" /\ c.body \in PostBodies /\ c.auto \in BOOLEAN
    BY <1>1 DEF PostCalls
  <2>2. c.body.amount \in Amounts /\ c.body.kind \in {"CAPTURE", "MAIL_ORDER"}
    BY <2>1, AmountsAssumption DEF Amounts
  <2>3. RowId(c) = PostId(EffectiveKey(c.body))
    BY <2>1 DEF RowId
  <2>4. InitialStatus(c.auto) \in {"PENDING_APPROVAL", "POSTED"}
    BY DEF InitialStatus
  <2>5. RowWritten(c) = [kind |-> c.body.kind, status |-> InitialStatus(c.auto),
                         amount |-> c.body.amount, key |-> EffectiveKey(c.body),
                         source |-> Null]
    BY <2>1 DEF RowWritten
  <2>6. EffectiveKey(c.body) \in Keys /\ PostId(EffectiveKey(c.body)) \in PaymentIds
    BY <2>1, IdTypes
  <2> QED  BY <2>2, <2>3, <2>4, <2>5, <2>6 DEF Row
<1>2. CASE c \in ReverseCalls
  <2>1. c.op = "reverse" /\ c.body \in RefundBodies /\ c.target \in SourceIds
    BY <1>2 DEF ReverseCalls
  <2>2. c.target \in PaymentIds
    BY <2>1, IdTypes
  <2>3. payments[c.target].amount \in Amounts
    BY <2>2 DEF Row
  <2>4. RefundAmount(c) \in Amounts
    BY <2>1, <2>3 DEF RefundAmount, Amounts
  <2>5. RowId(c) = RefundId(c.target, RefundKey(c.target, c.body, RefundAmount(c)))
    BY <2>1 DEF RowId
  <2>6. RowWritten(c) = [kind |-> "REFUND", status |-> "POSTED", amount |-> RefundAmount(c),
                         key |-> RefundKey(c.target, c.body, RefundAmount(c)),
                         source |-> c.target]
    BY <2>1 DEF RowWritten
  <2>7. /\ RefundKey(c.target, c.body, RefundAmount(c)) \in Keys
        /\ RowId(c) \in PaymentIds
    BY <2>1, <2>4, <2>5, IdTypes
  <2> QED  BY <2>2, <2>4, <2>6, <2>7 DEF Row
<1>3. CASE c \in DecisionCalls
  <2>1. c.op \in {"approve", "reject"} /\ c.target \in PaymentIds
    BY <1>3 DEF DecisionCalls
  <2>2. RowId(c) = c.target
    BY <2>1 DEF RowId
  <2>3. payments[c.target] \in Row
    BY <2>1
  <2>4. \/ RowWritten(c) = [payments[c.target] EXCEPT !.status = "POSTED"]
        \/ RowWritten(c) = [payments[c.target] EXCEPT !.status = "CANCELLED"]
    BY <2>1 DEF RowWritten
  <2> QED  BY <2>1, <2>2, <2>3, <2>4 DEF Row
<1> QED  BY <1>1, <1>2, <1>3 DEF Calls

\* Answering a call only adds receipts of the right shape.
LEMMA ReceiptTypes ==
    ASSUME NEW c \in Calls
    PROVE  Receipt(c) \subseteq Receipts
<1>1. CASE c \in PostCalls
  BY <1>1 DEF PostCalls, Receipt, Receipts
<1>2. CASE c \in ReverseCalls
  BY <1>2 DEF ReverseCalls, Receipt, Receipts
<1>3. CASE c \in DecisionCalls
  BY <1>3 DEF DecisionCalls, Receipt, Receipts
<1> QED  BY <1>1, <1>2, <1>3 DEF Calls

LEMMA AbsentRowType == AbsentRow \in Row /\ NoDraft \in Draft
BY DEF AbsentRow, Row, NoDraft, Draft, Amounts

\* Ending a request, whatever its answer, leaves its slot well formed.
LEMMA FinishTypes ==
    ASSUME TypeInv, NEW r \in Requests, Finish(r)
    PROVE  /\ pc' \in [Requests -> {"idle", "checked", "writing"}]
           /\ call' \in [Requests -> Calls \cup {NoCall}]
           /\ draft' \in [Requests -> Draft]
           /\ CallsInFlight'
BY AbsentRowType DEF TypeInv, TypeOK, CallsInFlight, Finish

LEMMA AcceptTypes ==
    ASSUME TypeInv, NEW r \in Requests, NEW c \in Calls, Accept(r, c)
    PROVE  TypeInv'
BY DEF TypeInv, TypeOK, CallsInFlight, Accept

LEMMA InitTypes == Init => TypeInv
BY AbsentRowType DEF Init, TypeInv, TypeOK, CallsInFlight, NoOrder

LEMMA CreateTypes ==
    ASSUME TypeInv, NEW role \in Roles, NEW kind \in {"CAPTURE", "MAIL_ORDER"},
           NEW amount \in InitialAmounts, CreateSalesOrder(role, kind, amount)
    PROVE  TypeInv'
<1> DEFINE posted == AutoApproves(role, kind)
           row == [kind |-> kind, status |-> InitialStatus(posted),
                   amount |-> amount, key |-> Null, source |-> Null]
           tbl == [payments EXCEPT ![InitialId] = row]
<1>1. row \in Row
  BY DEF Row, InitialStatus, Amounts
<1>2. \/ payments' = payments
      \/ payments' = tbl
  BY DEF CreateSalesOrder
<1>3. payments' \in [PaymentIds -> Row]
  BY <1>1, <1>2 DEF TypeInv, TypeOK
<1>4. \/ order' = Balance(0, 1)
      \/ order' = Balance(SumPosted(tbl), 2)
  BY DEF CreateSalesOrder
<1>5. order' \in [paid : Nat, remaining : Nat, fullyPaid : BOOLEAN, version : Nat]
  <2> HIDE DEF tbl
  <2> QED  BY <1>4, SumPostedType, BalanceType
<1>6. supplierLedger' \in [PaymentIds -> {"NONE", "PENDING", "APPROVED", "REJECTED"}]
  BY DEF CreateSalesOrder, TypeInv, TypeOK
<1>7. postedEvents' \in [PaymentIds -> Nat]
  BY DEF CreateSalesOrder, TypeInv, TypeOK
<1>8. UNCHANGED <<supplierActive, pc, call, draft, acked>>
  BY DEF CreateSalesOrder
<1> QED  BY <1>3, <1>5, <1>6, <1>7, <1>8 DEF TypeInv, TypeOK, CallsInFlight

LEMMA StartTypes ==
    ASSUME TypeInv, NEW r \in Requests, Start(r)
    PROVE  TypeInv'
<1>1. CASE \E role \in Roles, b \in PostBodies : StartPost(r, role, b)
  <2>1. PICK role \in Roles, b \in PostBodies : StartPost(r, role, b)
    BY <1>1
  <2>2. [op |-> "post", auto |-> AutoApproves(role, b.kind), body |-> b] \in Calls
    BY DEF Calls, PostCalls, AutoApproves
  <2> QED  BY <2>1, <2>2, AcceptTypes DEF StartPost
<1>2. CASE \E op \in {"approve", "reject"}, role \in Roles, p \in PaymentIds :
              StartDecision(r, op, role, p)
  <2>1. PICK op \in {"approve", "reject"}, role \in Roles, p \in PaymentIds :
             StartDecision(r, op, role, p)
    BY <1>2
  <2>2. [op |-> op, target |-> p] \in Calls
    BY DEF Calls, DecisionCalls
  <2> QED  BY <2>1, <2>2, AcceptTypes DEF StartDecision
<1>3. CASE \E role \in Roles, p \in SourceIds, b \in RefundBodies : StartReverse(r, role, p, b)
  <2>1. PICK role \in Roles, p \in SourceIds, b \in RefundBodies : StartReverse(r, role, p, b)
    BY <1>3
  <2>2. [op |-> "reverse", target |-> p, body |-> b] \in Calls
    BY DEF Calls, ReverseCalls
  <2> QED  BY <2>1, <2>2, AcceptTypes DEF StartReverse
<1> QED  BY <1>1, <1>2, <1>3 DEF Start

LEMMA WriteRowTypes ==
    ASSUME TypeInv, NEW r \in Requests, WriteRow(r)
    PROVE  TypeInv'
<1> DEFINE id  == RowId(call[r])
           row == RowWritten(call[r])
           d   == [id |-> id, row |-> row, paid |-> PaidAfter(id, row)]
<1>1. call[r] \in Calls
  BY DEF WriteRow, TypeInv, CallsInFlight
<1>2. d \in Draft
  BY <1>1, CallTypes, SumPostedType DEF TypeInv, Draft, PaidAfter
<1>3. draft' = [draft EXCEPT ![r] = d]
  BY DEF WriteRow
<1> HIDE DEF d
<1> QED  BY <1>1, <1>2, <1>3 DEF WriteRow, TypeInv, TypeOK, CallsInFlight

LEMMA CommitTypes ==
    ASSUME TypeInv, NEW r \in Requests, Commit(r)
    PROVE  TypeInv'
<1>1. call[r] \in Calls /\ draft[r] \in Draft
  BY DEF Commit, TypeInv, TypeOK, CallsInFlight
<1>2. payments' \in [PaymentIds -> Row]
  BY <1>1 DEF Commit, TypeInv, TypeOK, View, Draft
<1>3. order' \in [paid : Nat, remaining : Nat, fullyPaid : BOOLEAN, version : Nat]
  BY <1>1, BalanceType DEF Commit, TypeInv, TypeOK, NextVersion, Draft
<1>4. supplierLedger' \in [PaymentIds -> {"NONE", "PENDING", "APPROVED", "REJECTED"}]
  BY DEF Commit, LedgerAfterApproval, TypeInv, TypeOK
<1>5. postedEvents' \in [PaymentIds -> Nat]
  <2>1. postedEvents' = [postedEvents EXCEPT ![draft[r].id] = postedEvents[draft[r].id] + 1]
    BY DEF Commit
  <2>2. postedEvents \in [PaymentIds -> Nat]
    BY DEF TypeInv, TypeOK
  <2>3. postedEvents' = [p \in PaymentIds |-> IF p = draft[r].id THEN postedEvents[p] + 1
                                             ELSE postedEvents[p]]
    BY <2>1, <2>2
  <2>4. \A p \in PaymentIds : postedEvents[p] \in Nat
    BY <2>2
  <2> QED  BY <2>3, <2>4
<1>6. acked' \subseteq Receipts
  BY <1>1, ReceiptTypes DEF Commit, TypeInv, TypeOK
<1>7. Finish(r) /\ UNCHANGED supplierActive
  BY DEF Commit
<1> QED  BY <1>2, <1>3, <1>4, <1>5, <1>6, <1>7, FinishTypes DEF TypeInv, TypeOK

LEMMA CommitPendingTypes ==
    ASSUME TypeInv, NEW r \in Requests, CommitPending(r)
    PROVE  TypeInv'
<1>1. call[r] \in Calls
  BY DEF CommitPending, TypeInv, CallsInFlight
<1>2. RowWritten(call[r]) \in Row
  BY <1>1, CallTypes DEF TypeInv
<1>3. payments' \in [PaymentIds -> Row]
  BY <1>2 DEF CommitPending, TypeInv, TypeOK, View
<1>4. supplierLedger' \in [PaymentIds -> {"NONE", "PENDING", "APPROVED", "REJECTED"}]
  BY DEF CommitPending, TypeInv, TypeOK
<1>5. acked' \subseteq Receipts
  BY <1>1, ReceiptTypes DEF CommitPending, TypeInv, TypeOK
<1>6. Finish(r) /\ UNCHANGED <<order, supplierActive, postedEvents>>
  BY DEF CommitPending
<1> QED  BY <1>3, <1>4, <1>5, <1>6, FinishTypes DEF TypeInv, TypeOK

LEMMA CommitRejectTypes ==
    ASSUME TypeInv, NEW r \in Requests, CommitReject(r)
    PROVE  TypeInv'
<1>1. call[r] \in Calls
  BY DEF CommitReject, TypeInv, CallsInFlight
<1>2. RowWritten(call[r]) \in Row
  BY <1>1, CallTypes DEF TypeInv
<1>3. payments' \in [PaymentIds -> Row]
  BY <1>2 DEF CommitReject, TypeInv, TypeOK, View
<1>4. supplierLedger' \in [PaymentIds -> {"NONE", "PENDING", "APPROVED", "REJECTED"}]
  BY DEF CommitReject, LedgerAfterRejection, TypeInv, TypeOK
<1>5. Finish(r) /\ UNCHANGED <<order, supplierActive, postedEvents, acked>>
  BY DEF CommitReject
<1> QED  BY <1>3, <1>4, <1>5, FinishTypes DEF TypeInv, TypeOK

\* The answers that write nothing: a replay, a refusal, an aborted transaction.
LEMMA AnswerTypes ==
    ASSUME TypeInv, NEW r \in Requests,
           AnswerDuplicate(r) \/ RefuseInactiveSupplier(r) \/ Abort(r)
    PROVE  TypeInv'
<1>1. call[r] \in Calls
  BY DEF AnswerDuplicate, RefuseInactiveSupplier, Abort, TypeInv, CallsInFlight
<1>2. Receipt(call[r]) \subseteq Receipts
  BY <1>1, ReceiptTypes
<1>3. acked' = acked \/ acked' = acked \cup Receipt(call[r])
  BY DEF AnswerDuplicate, RefuseInactiveSupplier, Abort
<1>4. /\ Finish(r)
      /\ UNCHANGED <<payments, order, supplierLedger, supplierActive, postedEvents>>
  BY DEF AnswerDuplicate, RefuseInactiveSupplier, Abort
<1> QED  BY <1>2, <1>3, <1>4, FinishTypes DEF TypeInv, TypeOK

LEMMA TypesPreserved == TypeInv /\ [Next]_vars => TypeInv'
<1> SUFFICES ASSUME TypeInv, [Next]_vars  PROVE TypeInv'
  OBVIOUS
<1>1. ASSUME NEW role \in Roles, NEW kind \in {"CAPTURE", "MAIL_ORDER"},
             NEW amount \in InitialAmounts, CreateSalesOrder(role, kind, amount)
      PROVE  TypeInv'
  BY <1>1, CreateTypes
<1>2. ASSUME NEW r \in Requests, Start(r) \/ Progress(r) \/ Abort(r)
      PROVE  TypeInv'
  BY <1>2, StartTypes, WriteRowTypes, CommitTypes, CommitPendingTypes,
     CommitRejectTypes, AnswerTypes DEF Progress
<1>3. ASSUME NEW active \in BOOLEAN, SetSupplierActive(active)
      PROVE  TypeInv'
  BY <1>3 DEF SetSupplierActive, TypeInv, TypeOK, CallsInFlight
<1>4. CASE UNCHANGED vars
  BY <1>4 DEF vars, TypeInv, TypeOK, CallsInFlight
<1> QED  BY <1>1, <1>2, <1>3, <1>4 DEF Next

\* Every reachable state is well typed: no interleaving of requests, replies and
\* aborts leaves a table, a call or an open transaction in a shape the code does
\* not give it, whatever the bodies, amounts and roles.
THEOREM TypeCorrect == Spec => []TypeOK
<1>1. Spec => []TypeInv
  BY InitTypes, TypesPreserved, PTL DEF Spec
<1>2. TypeInv => TypeOK
  BY DEF TypeInv
<1> QED  BY <1>1, <1>2, PTL

-----------------------------------------------------------------------------
(* One request at a time.  While a request is between its guard and its     *)
(* commit nobody else writes, so what it read is still true when it writes. *)

OneInFlight == \A q, r \in Requests : pc[q] # "idle" /\ pc[r] # "idle" => q = r

NothingBeforeOrder ==
    ~Placed => /\ \A r \in Requests : pc[r] = "idle"
               /\ \A p \in PaymentIds : ~Exists(p)

DecisionsAreFresh ==
    \A r \in Requests :
        pc[r] # "idle" /\ call[r].op \in {"approve", "reject"} => Undecided(call[r].target)

DraftsAreFresh ==
    \A r \in Requests :
        pc[r] = "writing" =>
            LET d == draft[r]
            IN  /\ d.id \in PaymentIds
                /\ d.row.status = "POSTED"
                /\ d.paid = SumPosted(View(d.id, d.row))
                /\ Exists(d.id) => Undecided(d.id) /\ d.row.kind = payments[d.id].kind

SerialInv ==
    /\ TypeInv
    /\ OneInFlight
    /\ NothingBeforeOrder
    /\ DecisionsAreFresh
    /\ DraftsAreFresh
    /\ BalanceMatchesLedger
    /\ MailOrderBooksAgree
    /\ AnnouncedOnce

\* An empty ledger sums to nothing.
LEMMA SumOfNothing == SumDeltas({}) = 0
<1> DEFINE choose(s) == CHOOSE x \in s : TRUE
           body(iter, s) == IF s = {} THEN 0
                            ELSE LET x == choose(s) IN x.delta + iter[s \ {x}]
           sum  == CHOOSE iter : iter = [s \in SUBSET {} |-> body(iter, s)]
           zero == [s \in SUBSET {} |-> 0]
<1>1. SumDeltas({}) = sum[{}]
  BY DEF SumDeltas, MapThenSumSet, MapThenFoldSet
<1>2. zero = [s \in SUBSET {} |-> body(zero, s)]
  OBVIOUS
<1>3. sum = [s \in SUBSET {} |-> body(sum, s)]
  BY <1>2
<1>4. sum[{}] = 0
  BY <1>3
<1> QED  BY <1>1, <1>4

\* Only the POSTED rows count.
LEMMA SamePostedSameSum ==
    ASSUME NEW t1, NEW t2,
           \A p \in PaymentIds : t1[p] = t2[p] \/ (t1[p].status # "POSTED" /\ t2[p].status # "POSTED")
    PROVE  SumPosted(t1) = SumPosted(t2)
<1>1. \A p \in PaymentIds : t1[p].status = "POSTED" <=> t2[p].status = "POSTED"
  OBVIOUS
<1>2. \A p \in PaymentIds : t1[p].status = "POSTED" => Signed(t1[p]) = Signed(t2[p])
  OBVIOUS
<1>3. PostedEntries(t1) = PostedEntries(t2)
  BY <1>1, <1>2, Zenon DEF PostedEntries
<1> QED  BY <1>3 DEF SumPosted

LEMMA NonePostedNoSum ==
    ASSUME NEW tbl, \A p \in PaymentIds : tbl[p].status # "POSTED"
    PROVE  SumPosted(tbl) = 0
<1>1. PostedEntries(tbl) = {}
  BY DEF PostedEntries
<1> QED  BY <1>1, SumOfNothing DEF SumPosted, NonNegative

\* A request in flight is the only one, and its order exists.
LEMMA Alone ==
    ASSUME SerialInv, NEW r \in Requests, pc[r] # "idle"
    PROVE  Placed /\ \A q \in Requests : q # r => pc[q] = "idle"
BY DEF SerialInv, OneInFlight, NothingBeforeOrder

\* Once it ends, nobody is in flight.
LEMMA AllIdleAfter ==
    ASSUME SerialInv, NEW r \in Requests, pc[r] # "idle", Finish(r)
    PROVE  /\ \A q \in Requests : pc'[q] = "idle"
           /\ OneInFlight' /\ DecisionsAreFresh' /\ DraftsAreFresh'
<1>1. \A q \in Requests : pc'[q] = "idle"
  BY Alone DEF Finish, SerialInv, TypeInv, TypeOK
<1> QED  BY <1>1 DEF OneInFlight, DecisionsAreFresh, DraftsAreFresh

\* A step that leaves the tables alone leaves what is said about them alone.
LEMMA TablesUnchanged ==
    ASSUME SerialInv, UNCHANGED <<payments, order, supplierLedger, postedEvents>>
    PROVE  /\ BalanceMatchesLedger' /\ MailOrderBooksAgree' /\ AnnouncedOnce'
           /\ Placed' <=> Placed
           /\ \A p \in PaymentIds : /\ Exists(p)' <=> Exists(p)
                                    /\ Undecided(p)' <=> Undecided(p)
<1> SUFFICES ASSUME payments' = payments, order' = order,
                    supplierLedger' = supplierLedger, postedEvents' = postedEvents
             PROVE  /\ BalanceMatchesLedger' /\ MailOrderBooksAgree' /\ AnnouncedOnce'
                    /\ Placed' <=> Placed
                    /\ \A p \in PaymentIds : /\ Exists(p)' <=> Exists(p)
                                             /\ Undecided(p)' <=> Undecided(p)
  OBVIOUS
<1>1. BalanceMatchesLedger'
  BY DEF SerialInv, BalanceMatchesLedger, Placed
<1>2. MailOrderBooksAgree'
  BY DEF SerialInv, MailOrderBooksAgree, Exists
<1>3. AnnouncedOnce'
  BY DEF SerialInv, AnnouncedOnce
<1> QED  BY <1>1, <1>2, <1>3 DEF Placed, Exists, Undecided

LEMMA InitSerial == Init => SerialInv
<1> SUFFICES ASSUME Init PROVE SerialInv
  OBVIOUS
<1>1. TypeInv
  BY InitTypes
<1>2. ~Placed
  BY DEF Init, Placed, NoOrder
<1>3. \A p \in PaymentIds : ~Exists(p)
  BY DEF Init, Exists, AbsentRow
<1>4. \A r \in Requests : pc[r] = "idle"
  BY DEF Init
<1>5. MailOrderBooksAgree
  BY <1>3 DEF Init, MailOrderBooksAgree
<1>6. AnnouncedOnce
  BY DEF Init, AnnouncedOnce, AbsentRow
<1> QED  BY <1>1, <1>2, <1>3, <1>4, <1>5, <1>6
         DEF SerialInv, OneInFlight, NothingBeforeOrder, DecisionsAreFresh,
             DraftsAreFresh, BalanceMatchesLedger

LEMMA CreateSerial ==
    ASSUME SerialInv, NEW role \in Roles, NEW kind \in {"CAPTURE", "MAIL_ORDER"},
           NEW amount \in InitialAmounts, CreateSalesOrder(role, kind, amount)
    PROVE  SerialInv'
<1> DEFINE posted == AutoApproves(role, kind)
           row == [kind |-> kind, status |-> InitialStatus(posted),
                   amount |-> amount, key |-> Null, source |-> Null]
           tbl == [payments EXCEPT ![InitialId] = row]
<1>1. TypeInv'
  BY CreateTypes DEF SerialInv
<1>2. /\ \A r \in Requests : pc'[r] = "idle"
      /\ \A p \in PaymentIds : ~Exists(p)
  BY DEF CreateSalesOrder, SerialInv, NothingBeforeOrder
<1>3. OneInFlight' /\ DecisionsAreFresh' /\ DraftsAreFresh'
  BY <1>2 DEF OneInFlight, DecisionsAreFresh, DraftsAreFresh
<1>4. /\ payments \in [PaymentIds -> Row] /\ InitialId \in PaymentIds
      /\ supplierLedger \in [PaymentIds -> {"NONE", "PENDING", "APPROVED", "REJECTED"}]
      /\ postedEvents \in [PaymentIds -> Nat]
  BY IdTypes DEF SerialInv, TypeInv, TypeOK
<1>5. \A p \in PaymentIds : payments[p].status = "ABSENT" /\ supplierLedger[p] = "NONE"
                             /\ postedEvents[p] = 0
  BY <1>2 DEF SerialInv, MailOrderBooksAgree, AnnouncedOnce, Exists
<1>6. order' = Balance(SumPosted(payments'), order'.version) /\ order'.version > 0
  <2>1. CASE amount = 0
    <3>1. SumPosted(payments') = 0
      BY <1>5, <2>1, NonePostedNoSum DEF CreateSalesOrder
    <3> QED  BY <2>1, <3>1 DEF CreateSalesOrder, Balance
  <2>2. CASE amount # 0 /\ posted
    <3>1. payments' = tbl /\ order' = Balance(SumPosted(tbl), 2)
      BY <2>2 DEF CreateSalesOrder
    <3> HIDE DEF tbl
    <3>2. order' = Balance(SumPosted(payments'), 2)
      BY <3>1
    <3> QED  BY <3>2 DEF Balance
  <2>3. CASE amount # 0 /\ ~posted
    <3>1. payments' = tbl /\ order' = Balance(0, 1)
      BY <2>3 DEF CreateSalesOrder
    <3>2. \A p \in PaymentIds : tbl[p].status # "POSTED"
      BY <1>4, <1>5, <2>3 DEF InitialStatus
    <3>3. SumPosted(payments') = 0
      BY <3>1, <3>2, NonePostedNoSum
    <3> QED  BY <3>1, <3>3 DEF Balance
  <2> QED  BY <2>1, <2>2, <2>3
<1>7. BalanceMatchesLedger' /\ NothingBeforeOrder'
  BY <1>6 DEF BalanceMatchesLedger, NothingBeforeOrder, Placed
<1>8. MailOrderBooksAgree'
  <2>1. CASE amount = 0
    BY <1>5, <2>1 DEF CreateSalesOrder, MailOrderBooksAgree, Exists
  <2>2. CASE amount # 0
    <3>1. /\ payments' = tbl
          /\ supplierLedger' = IF kind # "MAIL_ORDER" THEN supplierLedger
                               ELSE [supplierLedger EXCEPT ![InitialId] =
                                      IF posted THEN "APPROVED" ELSE "PENDING"]
      BY <2>2 DEF CreateSalesOrder, IsMailOrder
    <3>2. \A p \in PaymentIds \ {InitialId} : payments'[p].status = "ABSENT"
                                             /\ supplierLedger'[p] = "NONE"
      BY <1>4, <1>5, <3>1
    <3>3. payments'[InitialId] = row
      BY <1>4, <3>1
    <3>4. supplierLedger'[InitialId] = IF kind # "MAIL_ORDER" THEN "NONE"
                                       ELSE IF posted THEN "APPROVED" ELSE "PENDING"
      BY <1>4, <1>5, <3>1
    <3> HIDE DEF posted
    <3> QED  BY <3>2, <3>3, <3>4 DEF MailOrderBooksAgree, Exists, IsMailOrder, InitialStatus
  <2> QED  BY <2>1, <2>2
<1>9. AnnouncedOnce'
  <2>1. CASE amount = 0
    BY <1>5, <2>1 DEF CreateSalesOrder, AnnouncedOnce
  <2>2. CASE amount # 0
    <3>1. /\ payments' = tbl
          /\ postedEvents' = IF posted THEN [postedEvents EXCEPT ![InitialId] = 1] ELSE postedEvents
      BY <2>2 DEF CreateSalesOrder
    <3> QED  BY <1>4, <1>5, <3>1 DEF AnnouncedOnce, InitialStatus
  <2> QED  BY <2>1, <2>2
<1> QED  BY <1>1, <1>3, <1>7, <1>8, <1>9 DEF SerialInv

LEMMA StartSerial ==
    ASSUME SerialInv, Overlap = FALSE, NEW r \in Requests, Start(r)
    PROVE  SerialInv'
<1>1. /\ MayStart(r)
      /\ \E c : /\ Accept(r, c)
                /\ c.op \in {"approve", "reject"} => Undecided(c.target)
  <2>1. ASSUME NEW role \in Roles, NEW b \in PostBodies, StartPost(r, role, b)
        PROVE  MayStart(r) /\ \E c : Accept(r, c) /\ c.op = "post"
    BY <2>1 DEF StartPost
  <2>2. ASSUME NEW op \in {"approve", "reject"}, NEW role \in Roles, NEW p \in PaymentIds,
               StartDecision(r, op, role, p)
        PROVE  MayStart(r) /\ \E c : Accept(r, c) /\ Undecided(c.target)
    BY <2>2 DEF StartDecision
  <2>3. ASSUME NEW role \in Roles, NEW p \in SourceIds, NEW b \in RefundBodies,
               StartReverse(r, role, p, b)
        PROVE  MayStart(r) /\ \E c : Accept(r, c) /\ c.op = "reverse"
    BY <2>3 DEF StartReverse
  <2> QED  BY <2>1, <2>2, <2>3 DEF Start
<1>2. PICK c : /\ Accept(r, c)
               /\ c.op \in {"approve", "reject"} => Undecided(c.target)
  BY <1>1
<1>3. Placed /\ \A q \in Requests : pc[q] = "idle"
  BY <1>1 DEF MayStart
<1>4. /\ BalanceMatchesLedger' /\ MailOrderBooksAgree' /\ AnnouncedOnce' /\ Placed'
      /\ \A p : Undecided(p)' <=> Undecided(p)
  <2>1. UNCHANGED <<payments, order, supplierLedger, postedEvents>>
    BY <1>2 DEF Accept
  <2> QED  BY <1>3, <2>1, TablesUnchanged DEF Undecided
<1>5. pc' = [pc EXCEPT ![r] = "checked"] /\ call' = [call EXCEPT ![r] = c]
  BY <1>2 DEF Accept
<1>6. /\ pc'[r] = "checked" /\ call'[r] = c
      /\ \A q \in Requests : q # r => pc'[q] = "idle"
  BY <1>3, <1>5 DEF SerialInv, TypeInv, TypeOK
<1>7. OneInFlight' /\ NothingBeforeOrder' /\ DraftsAreFresh'
  BY <1>4, <1>6 DEF OneInFlight, NothingBeforeOrder, DraftsAreFresh
<1>8. DecisionsAreFresh'
  <2>1. ASSUME NEW q \in Requests, pc'[q] # "idle", call'[q].op \in {"approve", "reject"}
        PROVE  Undecided(call[q].target)'
    <3>1. q = r /\ call'[q] = c
      BY <1>6, <2>1
    <3>2. payments[c.target].status = "PENDING_APPROVAL"
      BY <1>2, <2>1, <3>1 DEF Undecided
    <3>3. payments' = payments
      BY <1>2 DEF Accept
    <3> QED  BY <3>1, <3>2, <3>3 DEF Undecided
  <2> QED  BY <2>1 DEF DecisionsAreFresh
<1>9. TypeInv'
  BY StartTypes DEF SerialInv
<1> QED  BY <1>4, <1>7, <1>8, <1>9 DEF SerialInv

LEMMA WriteRowSerial ==
    ASSUME SerialInv, NEW r \in Requests, WriteRow(r)
    PROVE  SerialInv'
<1> DEFINE id  == RowId(call[r])
           row == RowWritten(call[r])
<1>1. TypeInv'
  BY WriteRowTypes DEF SerialInv
<1>2. /\ pc[r] = "checked" /\ pc' = [pc EXCEPT ![r] = "writing"]
      /\ draft' = [draft EXCEPT ![r] = [id |-> id, row |-> row, paid |-> PaidAfter(id, row)]]
      /\ payments' = payments /\ call' = call
      /\ UNCHANGED <<payments, order, supplierLedger, postedEvents>>
  BY DEF WriteRow
<1>3. Placed /\ \A q \in Requests : q # r => pc[q] = "idle"
  BY <1>2, Alone
<1>4. /\ BalanceMatchesLedger' /\ MailOrderBooksAgree' /\ AnnouncedOnce' /\ Placed'
  BY <1>2, <1>3, TablesUnchanged
<1>5. pc'[r] = "writing" /\ \A q \in Requests : q # r => pc'[q] = "idle"
  BY <1>2, <1>3 DEF SerialInv, TypeInv, TypeOK
<1>6. OneInFlight' /\ NothingBeforeOrder'
  BY <1>4, <1>5 DEF OneInFlight, NothingBeforeOrder
<1>7. DecisionsAreFresh'
  BY <1>2 DEF SerialInv, DecisionsAreFresh, Undecided
<1>8. DraftsAreFresh'
  <2>1. /\ draft'[r].id = id /\ draft'[r].row = row
        /\ draft'[r].paid = SumPosted(View(id, row))
    BY <1>2 DEF SerialInv, TypeInv, TypeOK, PaidAfter
  <2>2. call[r] \in Calls
    BY <1>2 DEF SerialInv, TypeInv, CallsInFlight
  <2>3. id \in PaymentIds
    BY <2>2, CallTypes DEF SerialInv, TypeInv
  <2>4. row.status = "POSTED" /\ (Exists(id) => Undecided(id) /\ row.kind = payments[id].kind)
    <3>1. CASE Inserts(call[r])
      <4>1. ~Exists(id)
        BY <3>1 DEF WriteRow, Duplicate
      <4>2. row.status = "POSTED"
        BY <3>1 DEF WriteRow, Finalizes, Inserts, RowWritten, InitialStatus
      <4> QED  BY <4>1, <4>2
    <3>2. CASE ~Inserts(call[r])
      <4>1. call[r].op = "approve"
        BY <3>2 DEF WriteRow, Finalizes, Inserts
      <4>2. id = call[r].target /\ row = [payments[id] EXCEPT !.status = "POSTED"]
        BY <4>1 DEF RowId, RowWritten
      <4>3. Undecided(id)
        BY <1>2, <4>1, <4>2 DEF SerialInv, DecisionsAreFresh
      <4>4. payments[id] \in Row
        BY <2>3 DEF SerialInv, TypeInv, TypeOK
      <4> QED  BY <4>2, <4>3, <4>4 DEF Row
    <3> QED  BY <3>1, <3>2
  <2> HIDE DEF id, row
  <2> SUFFICES ASSUME NEW q \in Requests, pc'[q] = "writing"
               PROVE  /\ draft'[q].id \in PaymentIds
                      /\ draft'[q].row.status = "POSTED"
                      /\ draft'[q].paid = SumPosted(View(draft[q].id, draft[q].row))'
                      /\ Exists(draft[q].id)' =>
                            /\ Undecided(draft[q].id)'
                            /\ draft'[q].row.kind = payments'[draft'[q].id].kind
    BY DEF DraftsAreFresh
  <2>5. q = r
    BY <1>5
  <2>6. SumPosted(View(draft[q].id, draft[q].row))' = SumPosted(View(id, row))
    <3>1. View(draft[q].id, draft[q].row)' = View(id, row)
      BY <1>2, <2>1, <2>5 DEF View
    <3> QED  BY <3>1 DEF SumPosted
  <2> QED  BY <1>2, <2>1, <2>3, <2>4, <2>5, <2>6 DEF Exists, Undecided
<1> QED  BY <1>1, <1>4, <1>6, <1>7, <1>8 DEF SerialInv

LEMMA CommitSerial ==
    ASSUME SerialInv, NEW r \in Requests, Commit(r)
    PROVE  SerialInv'
<1> DEFINE d == draft[r]
<1>1. TypeInv'
  BY CommitTypes DEF SerialInv
<1>2. /\ pc[r] = "writing" /\ Finish(r)
      /\ payments' = View(d.id, d.row)
      /\ order' = Balance(d.paid, order.version + 1)
      /\ supplierLedger' = LedgerAfterApproval(d.id, d.row)
      /\ postedEvents' = [postedEvents EXCEPT ![d.id] = postedEvents[d.id] + 1]
  BY DEF Commit, NextVersion
<1>3. /\ d.id \in PaymentIds /\ d.row.status = "POSTED"
      /\ d.paid = SumPosted(View(d.id, d.row))
      /\ Exists(d.id) => Undecided(d.id) /\ d.row.kind = payments[d.id].kind
  BY <1>2 DEF SerialInv, DraftsAreFresh
<1>4. /\ payments \in [PaymentIds -> Row] /\ order.version \in Nat
      /\ supplierLedger \in [PaymentIds -> {"NONE", "PENDING", "APPROVED", "REJECTED"}]
      /\ postedEvents \in [PaymentIds -> Nat]
  BY DEF SerialInv, TypeInv, TypeOK
<1>5. OneInFlight' /\ DecisionsAreFresh' /\ DraftsAreFresh'
  BY <1>2, AllIdleAfter
<1>6. order' = Balance(SumPosted(payments'), order'.version) /\ order'.version > 0
  <2>1. SumPosted(payments') = d.paid
    BY <1>2, <1>3
  <2> QED  BY <1>2, <1>4, <2>1 DEF Balance
<1>7. BalanceMatchesLedger' /\ NothingBeforeOrder'
  BY <1>6 DEF BalanceMatchesLedger, NothingBeforeOrder, Placed
<1>8. /\ payments'[d.id] = d.row
      /\ \A p \in PaymentIds : p # d.id => payments'[p] = payments[p]
  BY <1>2, <1>3, <1>4 DEF View
<1>9. MailOrderBooksAgree'
  <2>1. supplierLedger'[d.id] = IF d.row.kind = "MAIL_ORDER" THEN "APPROVED" ELSE "NONE"
    BY <1>2, <1>3, <1>4 DEF LedgerAfterApproval, IsMailOrder, SerialInv, MailOrderBooksAgree
  <2>2. \A p \in PaymentIds : p # d.id => supplierLedger'[p] = supplierLedger[p]
    BY <1>2, <1>4 DEF LedgerAfterApproval
  <2> QED  BY <1>3, <1>8, <2>1, <2>2 DEF SerialInv, MailOrderBooksAgree, Exists, IsMailOrder
<1>10. AnnouncedOnce'
  <2>1. postedEvents[d.id] = 0
    BY <1>3 DEF SerialInv, AnnouncedOnce, Exists, Undecided
  <2> QED  BY <1>2, <1>3, <1>4, <1>8, <2>1 DEF SerialInv, AnnouncedOnce
<1> QED  BY <1>1, <1>5, <1>7, <1>9, <1>10 DEF SerialInv

\* Inserting a pending payment, or rejecting one, posts nothing: the balance and
\* the announcements stay right.
LEMMA NothingPosted ==
    ASSUME SerialInv, NEW id \in PaymentIds, NEW row, ~Exists(id) \/ Undecided(id),
           row.status # "POSTED", payments' = View(id, row),
           UNCHANGED <<order, postedEvents>>
    PROVE  /\ BalanceMatchesLedger' /\ AnnouncedOnce' /\ Placed' <=> Placed
           /\ payments'[id] = row
           /\ \A p \in PaymentIds : p # id => payments'[p] = payments[p]
<1>1. /\ payments'[id] = row
      /\ \A p \in PaymentIds : p # id => payments'[p] = payments[p]
  BY DEF View, SerialInv, TypeInv, TypeOK
<1>2. payments[id].status # "POSTED"
  BY DEF Exists, Undecided
<1>3. SumPosted(payments') = SumPosted(payments)
  <2>1. \A p \in PaymentIds :
           \/ payments'[p] = payments[p]
           \/ payments'[p].status # "POSTED" /\ payments[p].status # "POSTED"
    BY <1>1, <1>2
  <2> QED  BY <2>1, SamePostedSameSum
<1>4. BalanceMatchesLedger' /\ (Placed' <=> Placed)
  BY <1>3 DEF SerialInv, BalanceMatchesLedger, Placed
<1>5. AnnouncedOnce'
  BY <1>1, <1>2 DEF SerialInv, AnnouncedOnce
<1> QED  BY <1>1, <1>4, <1>5

LEMMA CommitPendingSerial ==
    ASSUME SerialInv, NEW r \in Requests, CommitPending(r)
    PROVE  SerialInv'
<1> DEFINE id  == RowId(call[r])
           row == RowWritten(call[r])
<1>1. TypeInv'
  BY CommitPendingTypes DEF SerialInv
<1>2. /\ pc[r] = "checked" /\ call[r].op = "post" /\ Finish(r)
      /\ payments' = View(id, row)
      /\ supplierLedger' = IF IsMailOrder(row) /\ supplierLedger[id] = "NONE"
                           THEN [supplierLedger EXCEPT ![id] = "PENDING"] ELSE supplierLedger
      /\ UNCHANGED <<order, postedEvents>>
  BY DEF CommitPending
<1>3. id \in PaymentIds
  BY <1>2, CallTypes DEF SerialInv, TypeInv, CallsInFlight
<1>4. ~Exists(id)
  BY <1>2 DEF CommitPending, Duplicate, Inserts
<1>5. row.status = "PENDING_APPROVAL"
  BY <1>2 DEF CommitPending, Finalizes, RowWritten, InitialStatus
<1>6. OneInFlight' /\ DecisionsAreFresh' /\ DraftsAreFresh' /\ Placed
  BY <1>2, AllIdleAfter, Alone
<1> HIDE DEF id, row
<1>7. /\ BalanceMatchesLedger' /\ AnnouncedOnce' /\ Placed'
      /\ payments'[id] = row
      /\ \A p \in PaymentIds : p # id => payments'[p] = payments[p]
  BY <1>2, <1>3, <1>4, <1>5, <1>6, NothingPosted
<1>8. NothingBeforeOrder'
  BY <1>7 DEF NothingBeforeOrder
<1>9. MailOrderBooksAgree'
  <2>1. supplierLedger[id] = "NONE"
    BY <1>3, <1>4 DEF SerialInv, MailOrderBooksAgree
  <2>2. supplierLedger \in [PaymentIds -> {"NONE", "PENDING", "APPROVED", "REJECTED"}]
    BY DEF SerialInv, TypeInv, TypeOK
  <2>3. /\ supplierLedger'[id] = IF row.kind = "MAIL_ORDER" THEN "PENDING" ELSE "NONE"
        /\ \A p \in PaymentIds : p # id => supplierLedger'[p] = supplierLedger[p]
    BY <1>2, <1>3, <2>1, <2>2 DEF IsMailOrder
  <2> QED  BY <1>5, <1>7, <2>3 DEF SerialInv, MailOrderBooksAgree, Exists, IsMailOrder
<1> QED  BY <1>1, <1>6, <1>7, <1>8, <1>9 DEF SerialInv

LEMMA CommitRejectSerial ==
    ASSUME SerialInv, NEW r \in Requests, CommitReject(r)
    PROVE  SerialInv'
<1> DEFINE id  == RowId(call[r])
           row == RowWritten(call[r])
<1>1. TypeInv'
  BY CommitRejectTypes DEF SerialInv
<1>2. /\ pc[r] = "checked" /\ call[r].op = "reject" /\ Finish(r)
      /\ payments' = View(id, row)
      /\ supplierLedger' = IF IsMailOrder(row) /\ supplierLedger[id] = "PENDING"
                           THEN [supplierLedger EXCEPT ![id] = "REJECTED"] ELSE supplierLedger
      /\ UNCHANGED <<order, postedEvents>>
  BY DEF CommitReject, LedgerAfterRejection
<1>3. id \in PaymentIds
  BY <1>2, CallTypes DEF SerialInv, TypeInv, CallsInFlight
<1>4. id = call[r].target /\ row = [payments[id] EXCEPT !.status = "CANCELLED"]
  BY <1>2 DEF RowId, RowWritten
<1>5. Undecided(id)
  BY <1>2, <1>4 DEF SerialInv, DecisionsAreFresh
<1>6. row.status = "CANCELLED" /\ row.kind = payments[id].kind
  BY <1>3, <1>4 DEF SerialInv, TypeInv, TypeOK, Row
<1>7. OneInFlight' /\ DecisionsAreFresh' /\ DraftsAreFresh' /\ Placed
  BY <1>2, AllIdleAfter, Alone
<1> HIDE DEF id, row
<1>8. /\ BalanceMatchesLedger' /\ AnnouncedOnce' /\ Placed'
      /\ payments'[id] = row
      /\ \A p \in PaymentIds : p # id => payments'[p] = payments[p]
  BY <1>2, <1>3, <1>5, <1>6, <1>7, NothingPosted
<1>9. NothingBeforeOrder'
  BY <1>8 DEF NothingBeforeOrder
<1>10. MailOrderBooksAgree'
  <2>1. supplierLedger[id] = IF row.kind = "MAIL_ORDER" THEN "PENDING" ELSE "NONE"
    BY <1>3, <1>5, <1>6 DEF SerialInv, MailOrderBooksAgree, Exists, Undecided, IsMailOrder
  <2>2. supplierLedger \in [PaymentIds -> {"NONE", "PENDING", "APPROVED", "REJECTED"}]
    BY DEF SerialInv, TypeInv, TypeOK
  <2>3. /\ supplierLedger'[id] = IF row.kind = "MAIL_ORDER" THEN "REJECTED" ELSE "NONE"
        /\ \A p \in PaymentIds : p # id => supplierLedger'[p] = supplierLedger[p]
    BY <1>2, <1>3, <2>1, <2>2 DEF IsMailOrder
  <2> QED  BY <1>6, <1>8, <2>3 DEF SerialInv, MailOrderBooksAgree, Exists, IsMailOrder
<1> QED  BY <1>1, <1>7, <1>8, <1>9, <1>10 DEF SerialInv

LEMMA AnswerSerial ==
    ASSUME SerialInv, NEW r \in Requests,
           AnswerDuplicate(r) \/ RefuseInactiveSupplier(r) \/ Abort(r)
    PROVE  SerialInv'
<1>1. TypeInv'
  BY AnswerTypes DEF SerialInv
<1>2. /\ pc[r] # "idle" /\ Finish(r)
      /\ UNCHANGED <<payments, order, supplierLedger, postedEvents>>
  BY DEF AnswerDuplicate, RefuseInactiveSupplier, Abort
<1>3. OneInFlight' /\ DecisionsAreFresh' /\ DraftsAreFresh' /\ Placed
  BY <1>2, AllIdleAfter, Alone
<1>4. /\ BalanceMatchesLedger' /\ MailOrderBooksAgree' /\ AnnouncedOnce' /\ Placed'
  BY <1>2, <1>3, TablesUnchanged
<1>5. NothingBeforeOrder'
  BY <1>4 DEF NothingBeforeOrder
<1> QED  BY <1>1, <1>3, <1>4, <1>5 DEF SerialInv

\* Nothing a request relies on moves.
LEMMA IdleSerial ==
    ASSUME SerialInv, TypeInv',
           UNCHANGED <<payments, order, supplierLedger, postedEvents, pc, call, draft>>
    PROVE  SerialInv'
<1>1. /\ BalanceMatchesLedger' /\ MailOrderBooksAgree' /\ AnnouncedOnce'
      /\ Placed' <=> Placed
      /\ \A p \in PaymentIds : Exists(p)' <=> Exists(p)
  BY TablesUnchanged
<1>2. OneInFlight' /\ NothingBeforeOrder'
  BY <1>1 DEF SerialInv, OneInFlight, NothingBeforeOrder
<1>3. DecisionsAreFresh' /\ DraftsAreFresh'
  BY DEF SerialInv, DecisionsAreFresh, DraftsAreFresh, Undecided, Exists, View, SumPosted
<1> QED  BY <1>1, <1>2, <1>3 DEF SerialInv

LEMMA SerialPreserved ==
    ASSUME Overlap = FALSE
    PROVE  SerialInv /\ [Next]_vars => SerialInv'
<1> SUFFICES ASSUME SerialInv, [Next]_vars  PROVE SerialInv'
  OBVIOUS
<1>1. ASSUME NEW role \in Roles, NEW kind \in {"CAPTURE", "MAIL_ORDER"},
             NEW amount \in InitialAmounts, CreateSalesOrder(role, kind, amount)
      PROVE  SerialInv'
  BY <1>1, CreateSerial
<1>2. ASSUME NEW r \in Requests, Start(r) \/ Progress(r) \/ Abort(r)
      PROVE  SerialInv'
  BY <1>2, StartSerial, WriteRowSerial, CommitSerial, CommitPendingSerial,
     CommitRejectSerial, AnswerSerial DEF Progress
<1>3. TypeInv'
  BY TypesPreserved DEF SerialInv
<1>4. ASSUME NEW active \in BOOLEAN, SetSupplierActive(active)
      PROVE  SerialInv'
  BY <1>3, <1>4, IdleSerial DEF SetSupplierActive
<1>5. CASE UNCHANGED vars
  BY <1>3, <1>5, IdleSerial DEF vars
<1> QED  BY <1>1, <1>2, <1>4, <1>5 DEF Next

LEMMA SerialInvariant == Overlap = FALSE /\ Spec => []SerialInv
<1> SUFFICES ASSUME Overlap = FALSE  PROVE Spec => []SerialInv
  OBVIOUS
<1>1. SerialInv /\ [Next]_vars => SerialInv'
  BY SerialPreserved
<1> QED  BY <1>1, InitSerial, PTL DEF Spec

\* Requests that come one at a time keep the stored balance of the order equal to
\* what its ledger says (finalizeOrderPaymentPosting), whatever they are.
THEOREM SerialBalance == Overlap = FALSE /\ Spec => []BalanceMatchesLedger
<1>1. SerialInv => BalanceMatchesLedger
  BY DEF SerialInv
<1> QED  BY <1>1, SerialInvariant, PTL

\* ... keep the customer's and the supplier's book of every mail order in the same
\* state (appendMailOrderSupplierLedger) ...
THEOREM SerialBooksAgree == Overlap = FALSE /\ Spec => []MailOrderBooksAgree
<1>1. SerialInv => MailOrderBooksAgree
  BY DEF SerialInv
<1> QED  BY <1>1, SerialInvariant, PTL

\* ... and announce every payment that counts exactly once.
THEOREM SerialAnnouncements == Overlap = FALSE /\ Spec => []AnnouncedOnce
<1>1. SerialInv => AnnouncedOnce
  BY DEF SerialInv
<1> QED  BY <1>1, SerialInvariant, PTL

-----------------------------------------------------------------------------
(* Requests that overlap.  The balance is lost, but the ledger itself is    *)
(* not: the row locks and the unique indexes see to it.  Each table is      *)
(* related to what the requests in flight hold.                             *)

AnnouncedIsRecorded ==
    \A p \in PaymentIds : /\ payments[p].status = "POSTED" => postedEvents[p] > 0
                          /\ postedEvents[p] > 0 => Exists(p)

\* A refund may be written for it.
Refundable(s) == s \in SourceIds /\ payments[s].kind # "REFUND" /\ postedEvents[s] > 0

TargetsAreKnown ==
    \A r \in Requests :
        pc[r] # "idle" =>
            /\ call[r].op \in {"approve", "reject"} => Exists(call[r].target)
            /\ call[r].op = "reverse" => Refundable(call[r].target)

Backed(row) == row.kind = "REFUND" => Refundable(row.source)

\* A draft is a posted row that no committed row collides with; if it updates a
\* committed row it only changes its status.
SoundDraft(d) ==
    /\ d.id \in PaymentIds /\ d.row \in Row
    /\ d.row.status = "POSTED"
    /\ Exists(d.id) => d.row = [payments[d.id] EXCEPT !.status = "POSTED"]
    /\ \A p \in PaymentIds : p # d.id /\ Exists(p) => ~Collides(payments[p], d.row)
    /\ Backed(d.row)

DraftsAreSound == \A r \in Requests : pc[r] = "writing" => SoundDraft(draft[r])

LocksAreExclusive ==
    \A q, r \in Requests :
        q # r /\ pc[q] = "writing" /\ pc[r] = "writing" =>
            draft[q].id # draft[r].id /\ ~Collides(draft[q].row, draft[r].row)

LedgerInv ==
    /\ TypeInv
    /\ NothingBeforeOrder
    /\ AnnouncedIsRecorded
    /\ TargetsAreKnown
    /\ DraftsAreSound
    /\ LocksAreExclusive
    /\ SingleRecord
    /\ RefundsAreBacked

LEMMA CollidesIsSymmetric ==
    ASSUME NEW r1, NEW r2
    PROVE  Collides(r1, r2) <=> Collides(r2, r1)
BY DEF Collides

\* Changing the status of a row does not change what it collides with.
LEMMA CollidesIgnoresStatus ==
    ASSUME NEW r1 \in Row, NEW r2, NEW st
    PROVE  Collides([r1 EXCEPT !.status = st], r2) <=> Collides(r1, r2)
BY DEF Collides, Row

\* What an announced source allowed, it allows for ever.
LEMMA RefundableStays ==
    ASSUME LedgerInv, RowsOnlyAdvance, NEW s, Refundable(s),
           \A p \in PaymentIds : postedEvents'[p] >= postedEvents[p], TypeInv'
    PROVE  Refundable(s)'
<1>1. s \in PaymentIds
  BY IdTypes DEF Refundable
<1>2. Exists(s)
  BY <1>1 DEF LedgerInv, AnnouncedIsRecorded, Refundable
<1>3. payments[s] \in Row
  BY <1>1 DEF LedgerInv, TypeInv, TypeOK
<1>4. payments'[s] = [payments[s] EXCEPT !.status = payments'[s].status]
  BY <1>1, <1>2 DEF RowsOnlyAdvance
<1>5. payments'[s].kind = payments[s].kind
  BY <1>3, <1>4 DEF Row
<1>6. postedEvents'[s] \in Nat /\ postedEvents[s] \in Nat /\ postedEvents'[s] >= postedEvents[s]
  BY <1>1 DEF LedgerInv, TypeInv, TypeOK
<1> QED  BY <1>5, <1>6 DEF Refundable

\* Committing one row, which the committing request had locked.
LEMMA RowCommitted ==
    ASSUME LedgerInv, TypeInv', NEW r \in Requests, pc[r] # "idle", Finish(r),
           NEW id \in PaymentIds, NEW row \in Row, row.status # "ABSENT",
           Exists(id) => /\ row = [payments[id] EXCEPT !.status = row.status]
                         /\ row.status # "PENDING_APPROVAL",
           \A p \in PaymentIds : p # id /\ Exists(p) => ~Collides(payments[p], row),
           \A q \in Requests : q # r /\ pc[q] = "writing" =>
                draft[q].id # id /\ ~Collides(draft[q].row, row),
           Backed(row),
           payments' = View(id, row),
           order'.version > 0,
           \A p \in PaymentIds : /\ postedEvents'[p] >= postedEvents[p]
                                 /\ p # id => postedEvents'[p] = postedEvents[p],
           row.status = "POSTED" => postedEvents'[id] > 0
    PROVE  LedgerInv' /\ RowsOnlyAdvance
<1>1. /\ payments'[id] = row
      /\ \A p \in PaymentIds : p # id => payments'[p] = payments[p]
  BY DEF View, LedgerInv, TypeInv, TypeOK
<1>2. \A p \in PaymentIds : payments[p] \in Row /\ postedEvents[p] \in Nat /\ postedEvents'[p] \in Nat
  BY DEF LedgerInv, TypeInv, TypeOK
<1>3. RowsOnlyAdvance
  <2>1. ASSUME NEW p \in PaymentIds, Exists(p)
        PROVE  /\ payments'[p] = [payments[p] EXCEPT !.status = payments'[p].status]
               /\ payments'[p].status # "ABSENT"
               /\ ~Undecided(p) => payments'[p].status # "PENDING_APPROVAL"
    <3>1. CASE p = id
      BY <1>1, <2>1, <3>1
    <3>2. CASE p # id
      BY <1>1, <1>2, <2>1, <3>2 DEF Exists, Undecided, Row
    <3> QED  BY <3>1, <3>2
  <2> QED  BY <2>1 DEF RowsOnlyAdvance
<1>4. NothingBeforeOrder'
  BY DEF NothingBeforeOrder, Placed
<1>5. AnnouncedIsRecorded'
  BY <1>1, <1>2 DEF LedgerInv, AnnouncedIsRecorded, Exists
<1>6. \A p \in PaymentIds : Exists(p) => Exists(p)'
  BY <1>1 DEF Exists
<1>7. \A s : Refundable(s) => Refundable(s)'
  BY <1>3, RefundableStays
<1>8. /\ pc'[r] = "idle"
      /\ \A q \in Requests : q # r => pc'[q] = pc[q] /\ call'[q] = call[q] /\ draft'[q] = draft[q]
  BY DEF Finish, LedgerInv, TypeInv, TypeOK
<1>9. TargetsAreKnown'
  <2> SUFFICES ASSUME NEW q \in Requests, pc'[q] # "idle"
               PROVE  /\ call'[q].op \in {"approve", "reject"} => Exists(call[q].target)'
                      /\ call'[q].op = "reverse" => Refundable(call[q].target)'
    BY DEF TargetsAreKnown
  <2>1. q # r /\ pc[q] # "idle" /\ call'[q] = call[q]
    BY <1>8
  <2>2. call[q] \in Calls
    BY <2>1 DEF LedgerInv, TypeInv, CallsInFlight
  <2>3. call[q].op \in {"approve", "reject"} => call[q].target \in PaymentIds
    BY <2>2 DEF Calls, PostCalls, DecisionCalls, ReverseCalls
  <2>4. /\ call[q].op \in {"approve", "reject"} => Exists(call[q].target)
        /\ call[q].op = "reverse" => Refundable(call[q].target)
    BY <2>1 DEF LedgerInv, TargetsAreKnown
  <2>5. call'[q].op \in {"approve", "reject"} => Exists(call[q].target)'
    BY <1>6, <2>1, <2>3, <2>4 DEF Exists
  <2>6. call'[q].op = "reverse" => Refundable(call[q].target)'
    BY <1>7, <2>1, <2>4 DEF Refundable
  <2> QED  BY <2>5, <2>6
<1>10. DraftsAreSound'
  <2> SUFFICES ASSUME NEW q \in Requests, pc'[q] = "writing"
               PROVE  SoundDraft(draft[q])'
    BY DEF DraftsAreSound
  <2>1. q # r /\ pc[q] = "writing" /\ draft'[q] = draft[q]
    BY <1>8
  <2>2. draft[q].id # id /\ ~Collides(draft[q].row, row)
    BY <2>1
  <2>3. SoundDraft(draft[q])
    BY <2>1 DEF LedgerInv, DraftsAreSound
  <2>4. payments'[draft[q].id] = payments[draft[q].id]
    BY <1>1, <2>2, <2>3 DEF SoundDraft
  <2>5. ~Collides(row, draft[q].row)
    BY <2>2, CollidesIsSymmetric
  <2>6. \A p \in PaymentIds : p # draft[q].id /\ payments'[p].status # "ABSENT" =>
                              ~Collides(payments'[p], draft[q].row)
    BY <1>1, <2>3, <2>5 DEF SoundDraft, Exists
  <2>7. Backed(draft[q].row)'
    BY <1>7, <2>1, <2>3 DEF SoundDraft, Backed, Refundable
  <2> QED  BY <2>1, <2>3, <2>4, <2>6, <2>7 DEF SoundDraft, Exists
<1>11. LocksAreExclusive'
  BY <1>8 DEF LedgerInv, LocksAreExclusive
<1>12. SingleRecord'
  <2> SUFFICES ASSUME NEW p \in PaymentIds, NEW q \in PaymentIds, p # q,
                      payments'[p].status # "ABSENT", payments'[q].status # "ABSENT"
               PROVE  ~Collides(payments'[p], payments'[q])
    BY DEF SingleRecord, Exists, Collides
  <2>1. CASE p = id
    <3>1. ~Collides(payments[q], row)
      BY <1>1, <2>1 DEF Exists
    <3> QED  BY <1>1, <2>1, <3>1, CollidesIsSymmetric
  <2>2. CASE q = id
    BY <1>1, <2>2 DEF Exists
  <2>3. CASE p # id /\ q # id
    BY <1>1, <2>3 DEF LedgerInv, SingleRecord, Exists, Collides
  <2> QED  BY <2>1, <2>2, <2>3
<1>13. RefundsAreBacked'
  <2> SUFFICES ASSUME NEW p \in PaymentIds, payments'[p].status # "ABSENT",
                      payments'[p].kind = "REFUND"
               PROVE  Refundable(payments[p].source)'
    BY DEF RefundsAreBacked, Exists, Refundable
  <2>1. Refundable(payments'[p].source)
    <3>1. CASE p = id
      BY <1>1, <3>1 DEF Backed
    <3>2. CASE p # id
      BY <1>1, <3>2 DEF LedgerInv, RefundsAreBacked, Exists, Refundable
    <3> QED  BY <3>1, <3>2
  <2> QED  BY <1>7, <2>1 DEF Refundable
<1> QED  BY <1>3, <1>4, <1>5, <1>9, <1>10, <1>11, <1>12, <1>13 DEF LedgerInv

LEMMA InitLedger == Init => LedgerInv
<1> SUFFICES ASSUME Init PROVE LedgerInv
  OBVIOUS
<1>1. TypeInv
  BY InitTypes
<1>2. /\ \A p \in PaymentIds : payments[p] = AbsentRow /\ ~Exists(p) /\ postedEvents[p] = 0
      /\ \A r \in Requests : pc[r] = "idle"
  BY DEF Init, Exists, AbsentRow
<1>3. AnnouncedIsRecorded
  BY <1>2 DEF AnnouncedIsRecorded, AbsentRow
<1>4. NothingBeforeOrder /\ TargetsAreKnown /\ DraftsAreSound /\ LocksAreExclusive
  BY <1>2 DEF NothingBeforeOrder, TargetsAreKnown, DraftsAreSound, LocksAreExclusive
<1>5. SingleRecord /\ RefundsAreBacked
  BY <1>2 DEF SingleRecord, RefundsAreBacked
<1> QED  BY <1>1, <1>3, <1>4, <1>5 DEF LedgerInv

LEMMA CreateLedger ==
    ASSUME LedgerInv, NEW role \in Roles, NEW kind \in {"CAPTURE", "MAIL_ORDER"},
           NEW amount \in InitialAmounts, CreateSalesOrder(role, kind, amount)
    PROVE  LedgerInv' /\ RowsOnlyAdvance
<1> DEFINE posted == AutoApproves(role, kind)
           row == [kind |-> kind, status |-> InitialStatus(posted),
                   amount |-> amount, key |-> Null, source |-> Null]
           tbl == [payments EXCEPT ![InitialId] = row]
<1>1. TypeInv'
  BY CreateTypes DEF LedgerInv
<1>2. /\ \A r \in Requests : pc'[r] = "idle"
      /\ \A p \in PaymentIds : ~Exists(p)
  BY DEF CreateSalesOrder, LedgerInv, NothingBeforeOrder
<1>3. RowsOnlyAdvance
  BY <1>2 DEF RowsOnlyAdvance
<1>4. TargetsAreKnown' /\ DraftsAreSound' /\ LocksAreExclusive'
  BY <1>2 DEF TargetsAreKnown, DraftsAreSound, LocksAreExclusive
<1>5. order'.version > 0
  BY DEF CreateSalesOrder, Balance
<1>6. NothingBeforeOrder'
  BY <1>5 DEF NothingBeforeOrder, Placed
<1>7. \A p \in PaymentIds : payments[p].status = "ABSENT" /\ postedEvents[p] = 0
  BY <1>2 DEF Exists, LedgerInv, AnnouncedIsRecorded, TypeInv, TypeOK
<1>8. CASE amount = 0
  <2>1. payments' = payments /\ postedEvents' = postedEvents
    BY <1>8 DEF CreateSalesOrder
  <2>2. AnnouncedIsRecorded' /\ SingleRecord' /\ RefundsAreBacked'
    BY <1>7, <2>1 DEF AnnouncedIsRecorded, SingleRecord, RefundsAreBacked, Exists
  <2> QED  BY <1>1, <1>3, <1>4, <1>6, <2>2 DEF LedgerInv
<1>9. CASE amount # 0
  <2>1. /\ payments' = tbl
        /\ postedEvents' = IF posted THEN [postedEvents EXCEPT ![InitialId] = 1] ELSE postedEvents
    BY <1>9 DEF CreateSalesOrder
  <2>2. /\ payments'[InitialId] = row /\ row.status # "ABSENT"
        /\ \A p \in PaymentIds : p # InitialId => payments'[p] = payments[p]
    BY <2>1, IdTypes DEF LedgerInv, TypeInv, TypeOK, InitialStatus
  <2>3. AnnouncedIsRecorded'
    BY <1>7, <2>1, <2>2, IdTypes
       DEF AnnouncedIsRecorded, Exists, InitialStatus, LedgerInv, TypeInv, TypeOK
  <2>4. SingleRecord' /\ RefundsAreBacked'
    BY <1>7, <2>2 DEF SingleRecord, RefundsAreBacked, Exists
  <2> QED  BY <1>1, <1>3, <1>4, <1>6, <2>3, <2>4 DEF LedgerInv
<1> QED  BY <1>8, <1>9

\* Steps that leave the ledger and every other request alone.
LEMMA LedgerUnchanged ==
    ASSUME LedgerInv, TypeInv', UNCHANGED <<payments, postedEvents>>,
           order' = order, NothingBeforeOrder', TargetsAreKnown',
           DraftsAreSound', LocksAreExclusive'
    PROVE  LedgerInv' /\ RowsOnlyAdvance
<1>1. RowsOnlyAdvance
  BY DEF RowsOnlyAdvance, Exists, Undecided, LedgerInv, TypeInv, TypeOK, Row
<1>2. AnnouncedIsRecorded' /\ SingleRecord' /\ RefundsAreBacked'
  BY DEF LedgerInv, AnnouncedIsRecorded, SingleRecord, RefundsAreBacked, Exists
<1> QED  BY <1>1, <1>2 DEF LedgerInv

LEMMA StartLedger ==
    ASSUME LedgerInv, NEW r \in Requests, Start(r)
    PROVE  LedgerInv' /\ RowsOnlyAdvance
<1>1. /\ MayStart(r)
      /\ \E c : /\ Accept(r, c)
                /\ c.op \in {"approve", "reject"} => Exists(c.target)
                /\ c.op = "reverse" => Refundable(c.target)
  <2>1. ASSUME NEW role \in Roles, NEW b \in PostBodies, StartPost(r, role, b)
        PROVE  MayStart(r) /\ \E c : Accept(r, c) /\ c.op = "post"
    BY <2>1 DEF StartPost
  <2>2. ASSUME NEW op \in {"approve", "reject"}, NEW role \in Roles, NEW p \in PaymentIds,
               StartDecision(r, op, role, p)
        PROVE  MayStart(r) /\ \E c : Accept(r, c) /\ c.op \in {"approve", "reject"} /\ Exists(c.target)
    BY <2>2 DEF StartDecision, Undecided, Exists
  <2>3. ASSUME NEW role \in Roles, NEW p \in SourceIds, NEW b \in RefundBodies,
               StartReverse(r, role, p, b)
        PROVE  MayStart(r) /\ \E c : Accept(r, c) /\ c.op = "reverse" /\ Refundable(c.target)
    <3>1. Refundable(p)
      BY <2>3, IdTypes DEF StartReverse, Reversible, Refundable, LedgerInv, AnnouncedIsRecorded
    <3> QED  BY <2>3, <3>1 DEF StartReverse
  <2> QED  BY <2>1, <2>2, <2>3 DEF Start
<1>2. PICK c : /\ Accept(r, c)
               /\ c.op \in {"approve", "reject"} => Exists(c.target)
               /\ c.op = "reverse" => Refundable(c.target)
  BY <1>1
<1>3. /\ pc'[r] = "checked" /\ call'[r] = c
      /\ \A q \in Requests : q # r => pc'[q] = pc[q] /\ call'[q] = call[q]
      /\ payments' = payments /\ order' = order /\ postedEvents' = postedEvents /\ draft' = draft
  BY <1>2 DEF Accept, LedgerInv, TypeInv, TypeOK
<1>4. TypeInv'
  BY StartTypes DEF LedgerInv
<1>5. NothingBeforeOrder'
  BY <1>1, <1>3 DEF MayStart, NothingBeforeOrder, Placed
<1>6. TargetsAreKnown'
  <2> SUFFICES ASSUME NEW q \in Requests, pc'[q] # "idle"
               PROVE  /\ call'[q].op \in {"approve", "reject"} => Exists(call'[q].target)
                      /\ call'[q].op = "reverse" => Refundable(call'[q].target)
    BY <1>3 DEF TargetsAreKnown, Exists, Refundable
  <2> QED  BY <1>2, <1>3 DEF LedgerInv, TargetsAreKnown
<1>7. DraftsAreSound'
  BY <1>3 DEF LedgerInv, DraftsAreSound, SoundDraft, Exists, Backed, Refundable
<1>8. LocksAreExclusive'
  BY <1>3 DEF LedgerInv, LocksAreExclusive
<1> QED  BY <1>3, <1>4, <1>5, <1>6, <1>7, <1>8, LedgerUnchanged

\* The row a request is about to write, and what the locks and the unique indexes
\* tell about it.
LEMMA RowToWrite ==
    ASSUME LedgerInv, NEW r \in Requests, pc[r] # "idle", ~Locked(r), ~Duplicate(call[r])
    PROVE  LET id  == RowId(call[r])
               row == RowWritten(call[r])
           IN  /\ id \in PaymentIds /\ row \in Row /\ row.status # "ABSENT"
               /\ Exists(id) => /\ row = [payments[id] EXCEPT !.status = row.status]
                                /\ row.status # "PENDING_APPROVAL"
               /\ \A p \in PaymentIds : p # id /\ Exists(p) => ~Collides(payments[p], row)
               /\ \A q \in Requests : q # r /\ pc[q] = "writing" =>
                      draft[q].id # id /\ ~Collides(draft[q].row, row)
               /\ Backed(row)
<1> DEFINE id  == RowId(call[r])
           row == RowWritten(call[r])
<1>1. call[r] \in Calls
  BY DEF LedgerInv, TypeInv, CallsInFlight
<1>2. id \in PaymentIds /\ row \in Row
  BY <1>1, CallTypes DEF LedgerInv, TypeInv
<1>3. \A q \in Requests : q # r /\ pc[q] = "writing" => draft[q].id # id
  BY DEF Locked
<1>4. CASE call[r].op \in {"post", "reverse"}
  <2>1. ~Exists(id) /\ \A p \in PaymentIds : Exists(p) => ~Collides(payments[p], row)
    BY <1>4 DEF Duplicate, Inserts
  <2>2. \A q \in Requests : q # r /\ pc[q] = "writing" => ~Collides(draft[q].row, row)
    BY <1>4 DEF Locked, Inserts
  <2>3. row.status # "ABSENT"
    BY <1>4 DEF RowWritten, InitialStatus
  <2>4. Backed(row)
    <3>1. CASE call[r].op = "post"
      <4>1. row.kind = call[r].body.kind
        BY <3>1 DEF RowWritten
      <4>2. call[r].body \in PostBodies
        BY <1>1, <3>1 DEF Calls, PostCalls, DecisionCalls, ReverseCalls
      <4> QED  BY <4>1, <4>2, AmountsAssumption DEF Backed
    <3>2. CASE call[r].op = "reverse"
      <4>1. row.source = call[r].target
        BY <3>2 DEF RowWritten
      <4>2. Refundable(call[r].target)
        BY <3>2 DEF LedgerInv, TargetsAreKnown
      <4> QED  BY <4>1, <4>2 DEF Backed
    <3> QED  BY <1>4, <3>1, <3>2
  <2> QED  BY <1>2, <1>3, <2>1, <2>2, <2>3, <2>4
<1>5. CASE call[r].op \in {"approve", "reject"}
  <2>1. id = call[r].target
    BY <1>5 DEF RowId
  <2>2. Exists(id)
    BY <1>5, <2>1 DEF LedgerInv, TargetsAreKnown
  <2>3. PICK st \in {"POSTED", "CANCELLED"} : row = [payments[id] EXCEPT !.status = st]
    BY <1>5, <2>1 DEF RowWritten
  <2>4. payments[id] \in Row
    BY <1>2 DEF LedgerInv, TypeInv, TypeOK
  <2>5. row.status = st
    BY <2>3, <2>4 DEF Row
  <2> HIDE DEF id, row
  <2>6. \A p \in PaymentIds : p # id /\ Exists(p) => ~Collides(payments[p], row)
    <3>1. \A p \in PaymentIds : p # id /\ Exists(p) => ~Collides(payments[id], payments[p])
      BY <1>2, <2>2 DEF LedgerInv, SingleRecord, Collides
    <3> QED  BY <2>3, <2>4, <3>1, CollidesIgnoresStatus, CollidesIsSymmetric
  <2>7. \A q \in Requests : q # r /\ pc[q] = "writing" => ~Collides(draft[q].row, row)
    <3> SUFFICES ASSUME NEW q \in Requests, q # r, pc[q] = "writing"
                 PROVE  ~Collides(draft[q].row, row)
      OBVIOUS
    <3>1. ~Collides(payments[id], draft[q].row)
      BY <1>2, <1>3, <2>2 DEF LedgerInv, DraftsAreSound, SoundDraft
    <3>2. ~Collides(row, draft[q].row)
      BY <2>3, <2>4, <3>1, CollidesIgnoresStatus
    <3> QED  BY <3>2, CollidesIsSymmetric
  <2>8. Backed(row)
    <3>1. row.kind = payments[id].kind /\ row.source = payments[id].source
      BY <2>3, <2>4 DEF Row
    <3> QED  BY <1>2, <2>2, <3>1 DEF LedgerInv, RefundsAreBacked, Backed, Refundable
  <2> QED  BY <1>2, <1>3, <2>2, <2>3, <2>5, <2>6, <2>7, <2>8 DEF id, row
<1> QED  BY <1>1, <1>4, <1>5 DEF Calls, PostCalls, DecisionCalls, ReverseCalls

LEMMA WriteRowLedger ==
    ASSUME LedgerInv, NEW r \in Requests, WriteRow(r)
    PROVE  LedgerInv' /\ RowsOnlyAdvance
<1> DEFINE id  == RowId(call[r])
           row == RowWritten(call[r])
           d   == [id |-> id, row |-> row, paid |-> PaidAfter(id, row)]
<1>1. TypeInv'
  BY WriteRowTypes DEF LedgerInv
<1>2. pc[r] = "checked" /\ ~Locked(r) /\ ~Duplicate(call[r]) /\ Finalizes(call[r])
  BY DEF WriteRow
<1>3. /\ id \in PaymentIds /\ row \in Row
      /\ Exists(id) => row = [payments[id] EXCEPT !.status = row.status]
      /\ \A p \in PaymentIds : p # id /\ Exists(p) => ~Collides(payments[p], row)
      /\ \A q \in Requests : q # r /\ pc[q] = "writing" =>
             draft[q].id # id /\ ~Collides(draft[q].row, row)
      /\ Backed(row)
  BY <1>2, RowToWrite
<1>4. row.status = "POSTED"
  <2>1. CASE call[r].op = "approve"
    <3>1. id = call[r].target /\ row = [payments[id] EXCEPT !.status = "POSTED"]
      BY <2>1 DEF RowId, RowWritten
    <3> QED  BY <1>3, <3>1 DEF LedgerInv, TypeInv, TypeOK, Row
  <2>2. CASE call[r].op # "approve"
    BY <1>2, <2>2 DEF Finalizes, RowWritten, InitialStatus
  <2> QED  BY <2>1, <2>2
<1>5. /\ pc' = [pc EXCEPT ![r] = "writing"] /\ draft' = [draft EXCEPT ![r] = d]
      /\ UNCHANGED <<payments, order, postedEvents, call>>
  BY DEF WriteRow
<1>6. SoundDraft(d)
  BY <1>3, <1>4 DEF SoundDraft
<1>7. d.id = id /\ d.row = row
  OBVIOUS
<1> HIDE DEF id, row, d
<1>8. /\ pc'[r] = "writing" /\ draft'[r] = d
      /\ \A q \in Requests : q # r => pc'[q] = pc[q] /\ draft'[q] = draft[q]
  BY <1>5 DEF LedgerInv, TypeInv, TypeOK
<1>9. NothingBeforeOrder'
  BY <1>2, <1>5 DEF LedgerInv, NothingBeforeOrder, Placed
<1>10. TargetsAreKnown'
  BY <1>2, <1>5, <1>8 DEF LedgerInv, TargetsAreKnown, Exists, Refundable
<1>11. DraftsAreSound'
  <2>1. \A q \in Requests : pc'[q] = "writing" => SoundDraft(draft'[q])
    BY <1>6, <1>8 DEF LedgerInv, DraftsAreSound
  <2> QED  BY <1>5, <2>1 DEF DraftsAreSound, SoundDraft, Exists, Backed, Refundable
<1>12. LocksAreExclusive'
  <2> SUFFICES ASSUME NEW p \in Requests, NEW q \in Requests, p # q,
                      pc'[p] = "writing", pc'[q] = "writing"
               PROVE  draft'[p].id # draft'[q].id /\ ~Collides(draft'[p].row, draft'[q].row)
    BY DEF LocksAreExclusive, Collides
  <2>1. CASE p = r
    <3>1. draft[q].id # id /\ ~Collides(draft[q].row, row)
      BY <1>3, <1>8, <2>1
    <3>2. ~Collides(row, draft[q].row)
      BY <3>1, CollidesIsSymmetric
    <3> QED  BY <1>7, <1>8, <2>1, <3>1, <3>2
  <2>2. CASE q = r
    BY <1>3, <1>7, <1>8, <2>2
  <2>3. CASE p # r /\ q # r
    BY <1>8, <2>3 DEF LedgerInv, LocksAreExclusive
  <2> QED  BY <2>1, <2>2, <2>3
<1> QED  BY <1>1, <1>5, <1>9, <1>10, <1>11, <1>12, LedgerUnchanged

LEMMA CommitLedger ==
    ASSUME LedgerInv, NEW r \in Requests, Commit(r)
    PROVE  LedgerInv' /\ RowsOnlyAdvance
<1> DEFINE id  == draft[r].id
           row == draft[r].row
<1>1. TypeInv'
  BY CommitTypes DEF LedgerInv
<1>2. /\ pc[r] = "writing" /\ Finish(r)
      /\ payments' = View(id, row)
      /\ order' = Balance(draft[r].paid, order.version + 1)
      /\ postedEvents' = [postedEvents EXCEPT ![id] = postedEvents[id] + 1]
  BY DEF Commit, NextVersion
<1>3. SoundDraft(draft[r])
  BY <1>2 DEF LedgerInv, DraftsAreSound
<1>4. \A q \in Requests : q # r /\ pc[q] = "writing" =>
         draft[q].id # id /\ ~Collides(draft[q].row, row)
  BY <1>2 DEF LedgerInv, LocksAreExclusive
<1>5. /\ \A p \in PaymentIds : /\ postedEvents'[p] >= postedEvents[p]
                               /\ p # id => postedEvents'[p] = postedEvents[p]
      /\ postedEvents'[id] > 0
  <2>1. postedEvents \in [PaymentIds -> Nat] /\ id \in PaymentIds
    BY <1>3 DEF LedgerInv, TypeInv, TypeOK, SoundDraft
  <2> HIDE DEF id
  <2>2. \A p \in PaymentIds : /\ postedEvents[p] \in Nat
                              /\ postedEvents'[p] = IF p = id THEN postedEvents[p] + 1
                                                    ELSE postedEvents[p]
    BY <1>2, <2>1
  <2> QED  BY <2>1, <2>2
<1>6. order'.version > 0
  BY <1>2 DEF LedgerInv, TypeInv, TypeOK, Balance
<1>7. /\ id \in PaymentIds /\ row \in Row /\ row.status = "POSTED"
      /\ Exists(id) => row = [payments[id] EXCEPT !.status = row.status]
      /\ \A p \in PaymentIds : p # id /\ Exists(p) => ~Collides(payments[p], row)
      /\ Backed(row)
  BY <1>3 DEF SoundDraft
<1> HIDE DEF id, row
<1> QED  BY <1>1, <1>2, <1>4, <1>5, <1>6, <1>7, RowCommitted

LEMMA CommitDecisionLedger ==
    ASSUME LedgerInv, NEW r \in Requests, CommitPending(r) \/ CommitReject(r)
    PROVE  LedgerInv' /\ RowsOnlyAdvance
<1> DEFINE id  == RowId(call[r])
           row == RowWritten(call[r])
<1>1. TypeInv'
  BY CommitPendingTypes, CommitRejectTypes DEF LedgerInv
<1>2. /\ pc[r] # "idle" /\ Finish(r) /\ ~Locked(r) /\ ~Duplicate(call[r])
      /\ payments' = View(id, row)
      /\ order' = order /\ postedEvents' = postedEvents
  BY DEF CommitPending, CommitReject, Duplicate, Inserts
<1>3. /\ id \in PaymentIds /\ row \in Row /\ row.status # "ABSENT"
      /\ Exists(id) => /\ row = [payments[id] EXCEPT !.status = row.status]
                       /\ row.status # "PENDING_APPROVAL"
      /\ \A p \in PaymentIds : p # id /\ Exists(p) => ~Collides(payments[p], row)
      /\ \A q \in Requests : q # r /\ pc[q] = "writing" =>
             draft[q].id # id /\ ~Collides(draft[q].row, row)
      /\ Backed(row)
  BY <1>2, RowToWrite
<1>4. row.status # "POSTED"
  <2>1. CASE CommitPending(r)
    BY <2>1 DEF CommitPending, Finalizes, RowWritten, InitialStatus
  <2>2. CASE CommitReject(r)
    <3>1. id = call[r].target /\ row = [payments[id] EXCEPT !.status = "CANCELLED"]
      BY <2>2 DEF CommitReject, RowId, RowWritten
    <3> QED  BY <1>3, <3>1 DEF LedgerInv, TypeInv, TypeOK, Row
  <2> QED  BY <2>1, <2>2
<1>5. order'.version > 0
  BY <1>2 DEF LedgerInv, NothingBeforeOrder, Placed
<1>6. \A p \in PaymentIds : postedEvents'[p] >= postedEvents[p] /\ postedEvents'[p] = postedEvents[p]
  BY <1>2 DEF LedgerInv, TypeInv, TypeOK
<1> HIDE DEF id, row
<1> QED  BY <1>1, <1>2, <1>3, <1>4, <1>5, <1>6, RowCommitted

LEMMA AnswerLedger ==
    ASSUME LedgerInv, NEW r \in Requests,
           AnswerDuplicate(r) \/ RefuseInactiveSupplier(r) \/ Abort(r)
    PROVE  LedgerInv' /\ RowsOnlyAdvance
<1>1. TypeInv'
  BY AnswerTypes DEF LedgerInv
<1>2. /\ pc[r] # "idle" /\ Finish(r)
      /\ UNCHANGED <<payments, order, supplierLedger, postedEvents>>
  BY DEF AnswerDuplicate, RefuseInactiveSupplier, Abort
<1>3. /\ pc'[r] = "idle"
      /\ \A q \in Requests : q # r => pc'[q] = pc[q] /\ call'[q] = call[q] /\ draft'[q] = draft[q]
  BY <1>2 DEF Finish, LedgerInv, TypeInv, TypeOK
<1>4. NothingBeforeOrder'
  BY <1>2, <1>3 DEF LedgerInv, NothingBeforeOrder, Placed
<1>5. TargetsAreKnown'
  BY <1>2, <1>3 DEF LedgerInv, TargetsAreKnown, Exists, Refundable
<1>6. DraftsAreSound'
  BY <1>2, <1>3 DEF LedgerInv, DraftsAreSound, SoundDraft, Exists, Backed, Refundable
<1>7. LocksAreExclusive'
  BY <1>3 DEF LedgerInv, LocksAreExclusive
<1> QED  BY <1>1, <1>2, <1>4, <1>5, <1>6, <1>7, LedgerUnchanged

LEMMA IdleLedger ==
    ASSUME LedgerInv, TypeInv',
           UNCHANGED <<payments, order, supplierLedger, postedEvents, pc, call, draft>>
    PROVE  LedgerInv' /\ RowsOnlyAdvance
<1>1. NothingBeforeOrder' /\ TargetsAreKnown' /\ DraftsAreSound' /\ LocksAreExclusive'
  BY DEF LedgerInv, NothingBeforeOrder, TargetsAreKnown, DraftsAreSound, LocksAreExclusive,
         SoundDraft, Exists, Backed, Refundable, Placed
<1> QED  BY <1>1, LedgerUnchanged

LEMMA LedgerPreserved == LedgerInv /\ [Next]_vars => LedgerInv' /\ RowsOnlyAdvance
<1> SUFFICES ASSUME LedgerInv, [Next]_vars  PROVE LedgerInv' /\ RowsOnlyAdvance
  OBVIOUS
<1>1. ASSUME NEW role \in Roles, NEW kind \in {"CAPTURE", "MAIL_ORDER"},
             NEW amount \in InitialAmounts, CreateSalesOrder(role, kind, amount)
      PROVE  LedgerInv' /\ RowsOnlyAdvance
  BY <1>1, CreateLedger
<1>2. ASSUME NEW r \in Requests, Start(r) \/ Progress(r) \/ Abort(r)
      PROVE  LedgerInv' /\ RowsOnlyAdvance
  BY <1>2, StartLedger, WriteRowLedger, CommitLedger, CommitDecisionLedger,
     AnswerLedger DEF Progress
<1>3. TypeInv'
  BY TypesPreserved DEF LedgerInv
<1>4. ASSUME NEW active \in BOOLEAN, SetSupplierActive(active)
      PROVE  LedgerInv' /\ RowsOnlyAdvance
  BY <1>3, <1>4, IdleLedger DEF SetSupplierActive
<1>5. CASE UNCHANGED vars
  BY <1>3, <1>5, IdleLedger DEF vars
<1> QED  BY <1>1, <1>2, <1>4, <1>5 DEF Next

LEMMA LedgerInvariant == Spec => []LedgerInv
BY InitLedger, LedgerPreserved, PTL DEF Spec

\* However requests overlap, retry and abort, one idempotency key leaves one record
\* and one payment has at most one refund.
THEOREM KeysAreSingle == Spec => []SingleRecord
<1>1. LedgerInv => SingleRecord
  BY DEF LedgerInv
<1> QED  BY <1>1, LedgerInvariant, PTL

\* However they overlap, a refund gives back a payment that was really taken.
THEOREM RefundsBacked == Spec => []RefundsAreBacked
<1>1. LedgerInv => RefundsAreBacked
  BY DEF LedgerInv
<1> QED  BY <1>1, LedgerInvariant, PTL

\* However they overlap, the ledger only grows and only its statuses change.
THEOREM AppendOnly == Spec => LedgerIsAppendOnly
<1>1. LedgerInv /\ [Next]_vars => [RowsOnlyAdvance]_vars
  BY LedgerPreserved
<1> QED  BY <1>1, LedgerInvariant, PTL DEF Spec, LedgerIsAppendOnly

-----------------------------------------------------------------------------
(* What clients were told.  A replay is answered by looking for a key, so   *)
(* it is right only as long as a key stands for one call.                   *)

\* A client uses a key of its own for one payment, or for one refund.
KeysTellCalls ==
    /\ \A b1, b2 \in PostBodies : EffectiveKey(b1) = EffectiveKey(b2) =>
          b1.kind = b2.kind /\ b1.amount = b2.amount
    /\ \A b \in PostBodies, c \in RefundBodies : b.key = c.key => b.key = ""

\* The row tells its identifier, and what wrote it.
Named(p, row) ==
    \/ p = InitialId /\ row.kind # "REFUND" /\ row.key = Null /\ row.source = Null
    \/ \E b \in PostBodies :
          /\ p = PostId(EffectiveKey(b)) /\ row.key = EffectiveKey(b)
          /\ row.kind = b.kind /\ row.amount = b.amount /\ row.source = Null
    \/ \E s \in SourceIds : \E k \in RefundKeys(s) :
          p = RefundId(s, k) /\ row.key = k /\ row.kind = "REFUND" /\ row.source = s

RowsAreNamed == \A p \in PaymentIds : Exists(p) => Named(p, payments[p])

\* The draft of a request is what its call asked for.
Drafted(c, d) ==
    /\ Named(d.id, d.row)
    /\ c.op = "post" => /\ d.id = PostId(EffectiveKey(c.body))
                        /\ d.row.kind = c.body.kind /\ d.row.amount = c.body.amount
    /\ c.op = "reverse" => d.row.kind = "REFUND" /\ d.row.source = c.target

DraftsAreNamed == \A r \in Requests : pc[r] = "writing" => Drafted(call[r], draft[r])

AnswerInv ==
    /\ LedgerInv
    /\ RowsAreNamed
    /\ DraftsAreNamed
    /\ AckedIsRecorded

LEMMA NamedIgnoresStatus ==
    ASSUME NEW p, NEW row \in Row, NEW st, Named(p, row)
    PROVE  Named(p, [row EXCEPT !.status = st])
BY DEF Named, Row

\* A refund has the identifier of one.
LEMMA RefundsAreNamed ==
    ASSUME NEW p, NEW row, Named(p, row), row.kind = "REFUND"
    PROVE  p \in RefundIds
<1>1. \A b \in PostBodies : b.kind # "REFUND"
  BY AmountsAssumption
<1>2. PICK s \in SourceIds : \E k \in RefundKeys(s) : p = RefundId(s, k)
  BY <1>1 DEF Named
<1> QED  BY <1>2 DEF RefundIds

LEMMA CallsWriteNamedRows ==
    ASSUME LedgerInv, RowsAreNamed, NEW r \in Requests, pc[r] # "idle"
    PROVE  /\ Drafted(call[r], [id |-> RowId(call[r]), row |-> RowWritten(call[r]),
                                paid |-> PaidAfter(RowId(call[r]), RowWritten(call[r]))])
           /\ Named(RowId(call[r]), RowWritten(call[r]))
<1> DEFINE c   == call[r]
           id  == RowId(c)
           row == RowWritten(c)
<1>1. c \in Calls
  BY DEF LedgerInv, TypeInv, CallsInFlight
<1>2. CASE c.op = "post"
  <2>1. c.body \in PostBodies
    BY <1>1, <1>2 DEF Calls, PostCalls, DecisionCalls, ReverseCalls
  <2>2. /\ id = PostId(EffectiveKey(c.body)) /\ row.key = EffectiveKey(c.body)
        /\ row.kind = c.body.kind /\ row.amount = c.body.amount /\ row.source = Null
    BY <1>2 DEF RowId, RowWritten
  <2> QED  BY <1>2, <2>1, <2>2 DEF Drafted, Named
<1>3. CASE c.op = "reverse"
  <2>1. c.body \in RefundBodies /\ c.target \in SourceIds
    BY <1>1, <1>3 DEF Calls, PostCalls, DecisionCalls, ReverseCalls
  <2>2. payments[c.target].amount \in Amounts
    BY <2>1, IdTypes DEF LedgerInv, TypeInv, TypeOK, Row
  <2>3. RefundAmount(c) \in Amounts
    BY <2>1, <2>2 DEF RefundAmount, Amounts
  <2>4. RefundKey(c.target, c.body, RefundAmount(c)) \in RefundKeys(c.target)
    BY <2>1, <2>3 DEF RefundKeys
  <2>5. /\ id = RefundId(c.target, RefundKey(c.target, c.body, RefundAmount(c)))
        /\ row.key = RefundKey(c.target, c.body, RefundAmount(c))
        /\ row.kind = "REFUND" /\ row.source = c.target
    BY <1>3 DEF RowId, RowWritten
  <2> QED  BY <1>3, <2>1, <2>4, <2>5 DEF Drafted, Named
<1>4. CASE c.op \in {"approve", "reject"}
  <2>1. id = c.target /\ id \in PaymentIds
    BY <1>1, <1>4 DEF RowId, Calls, PostCalls, DecisionCalls, ReverseCalls
  <2>2. Exists(id)
    BY <1>4, <2>1 DEF LedgerInv, TargetsAreKnown
  <2>3. PICK st : row = [payments[id] EXCEPT !.status = st]
    BY <1>4, <2>1 DEF RowWritten
  <2>4. payments[id] \in Row /\ Named(id, payments[id])
    BY <2>1, <2>2 DEF LedgerInv, TypeInv, TypeOK, RowsAreNamed
  <2> HIDE DEF id, row
  <2>5. Named(id, row)
    BY <2>3, <2>4, NamedIgnoresStatus
  <2> QED  BY <1>4, <2>5 DEF Drafted, id, row
<1> QED  BY <1>1, <1>2, <1>3, <1>4 DEF Calls, PostCalls, DecisionCalls, ReverseCalls

\* What AckedIsRecorded says of one answer.
Recorded(a) ==
    /\ a.op = "post" =>
          LET row == payments[PostId(EffectiveKey(a.body))]
          IN  row.status # "ABSENT" /\ row.kind = a.body.kind /\ row.amount = a.body.amount
    /\ a.op = "reverse" => \E p \in RefundIds : Exists(p) /\ payments[p].source = a.target

LEMMA AckedAreRecorded == AckedIsRecorded <=> \A a \in acked : Recorded(a)
BY DEF AckedIsRecorded, Recorded

\* What was recorded stays recorded.
LEMMA RecordedStays ==
    ASSUME TypeInv, RowsOnlyAdvance, NEW a \in Receipts, Recorded(a)
    PROVE  Recorded(a)'
<1>1. \A p \in PaymentIds : Exists(p) =>
         /\ payments'[p].status # "ABSENT" /\ payments'[p].kind = payments[p].kind
         /\ payments'[p].amount = payments[p].amount /\ payments'[p].source = payments[p].source
  <2> SUFFICES ASSUME NEW p \in PaymentIds, Exists(p)
               PROVE  /\ payments'[p].status # "ABSENT" /\ payments'[p].kind = payments[p].kind
                      /\ payments'[p].amount = payments[p].amount
                      /\ payments'[p].source = payments[p].source
    OBVIOUS
  <2>1. payments[p] \in Row
    BY DEF TypeInv, TypeOK
  <2>2. /\ payments'[p] = [payments[p] EXCEPT !.status = payments'[p].status]
        /\ payments'[p].status # "ABSENT"
    BY DEF RowsOnlyAdvance
  <2> DEFINE status == payments'[p].status
  <2>3. payments'[p] = [payments[p] EXCEPT !.status = status]
    BY <2>2
  <2> HIDE DEF status
  <2> QED  BY <2>1, <2>2, <2>3 DEF Row
<1>2. CASE a.op = "post"
  <2>1. a.body \in PostBodies
    BY <1>2 DEF Receipts
  <2>2. PostId(EffectiveKey(a.body)) \in PaymentIds
    BY <2>1, IdTypes
  <2> QED  BY <1>1, <1>2, <2>2 DEF Recorded, Exists
<1>3. CASE a.op = "reverse"
  <2>1. RefundIds \subseteq PaymentIds
    BY DEF PaymentIds
  <2> QED  BY <1>1, <1>3, <2>1 DEF Recorded, Exists
<1> QED  BY <1>2, <1>3 DEF Receipts

\* The row just written is recorded.
LEMMA CommittedIsRecorded ==
    ASSUME NEW c \in Calls, NEW d, Drafted(c, d), payments' = View(d.id, d.row),
           TypeInv, d.id \in PaymentIds, d.row.status # "ABSENT"
    PROVE  \A a \in Receipt(c) : Recorded(a)'
<1>1. payments'[d.id] = d.row
  BY DEF View, TypeInv, TypeOK
<1>2. CASE c.op = "post"
  BY <1>1, <1>2 DEF Receipt, Recorded, Drafted
<1>3. CASE c.op = "reverse"
  <2>1. d.id \in RefundIds
    BY <1>3, RefundsAreNamed DEF Drafted
  <2> QED  BY <1>1, <1>3, <2>1 DEF Receipt, Recorded, Drafted, Exists
<1>4. CASE c.op \in {"approve", "reject"}
  BY <1>4 DEF Receipt
<1> QED  BY <1>2, <1>3, <1>4 DEF Calls, PostCalls, DecisionCalls, ReverseCalls

\* ... and so is what AnswerDuplicate finds.
LEMMA DuplicateIsRecorded ==
    ASSUME KeysTellCalls, RowsAreNamed, NEW c \in Calls, AlreadyDone(c), Inserts(c)
    PROVE  \A a \in Receipt(c) : Recorded(a)
<1>1. PICK p \in PaymentIds :
         /\ Exists(p) /\ Named(p, payments[p])
         /\ IF c.op = "post" THEN payments[p].key = EffectiveKey(c.body)
                              ELSE p = RowId(c) \/ payments[p].source = c.target
  BY DEF AlreadyDone, RowsAreNamed
<1>2. CASE c.op = "post"
  <2>1. c.body \in PostBodies /\ payments[p].key = EffectiveKey(c.body)
    BY <1>1, <1>2 DEF Calls, PostCalls, DecisionCalls, ReverseCalls
  <2>2. EffectiveKey(c.body) # Null
    BY DEF EffectiveKey, Null
  <2>3. \A s \in SourceIds : EffectiveKey(c.body) \notin RefundKeys(s)
    <3> SUFFICES ASSUME NEW s \in SourceIds, NEW b \in RefundBodies, NEW amount \in Amounts,
                        EffectiveKey(c.body) = RefundKey(s, b, amount)
                 PROVE  FALSE
      BY DEF RefundKeys
    <3> QED  BY <2>1 DEF EffectiveKey, RefundKey, KeysTellCalls
  <2>4. PICK b \in PostBodies : /\ p = PostId(EffectiveKey(b))
                               /\ payments[p].key = EffectiveKey(b)
                               /\ payments[p].kind = b.kind /\ payments[p].amount = b.amount
    BY <1>1, <2>1, <2>2, <2>3 DEF Named
  <2>5. b.kind = c.body.kind /\ b.amount = c.body.amount
    BY <2>1, <2>4 DEF KeysTellCalls
  <2> QED  BY <1>1, <1>2, <2>1, <2>4, <2>5 DEF Receipt, Recorded, Exists
<1>3. CASE c.op = "reverse"
  <2>1. c.target \in SourceIds /\ c.target # Null
    BY <1>3 DEF Calls, PostCalls, DecisionCalls, ReverseCalls, SourceIds, InitialId, PostId, Null
  <2>2. payments[p].kind = "REFUND" /\ payments[p].source = c.target
    <3>1. CASE payments[p].source = c.target
      BY <1>1, <2>1, <3>1 DEF Named
    <3>2. CASE p = RowId(c)
      <4>1. PICK k : p = RefundId(c.target, k)
        BY <1>3, <3>2 DEF RowId
      <4> QED  BY <1>1, <4>1 DEF Named, RefundId, PostId, InitialId
    <3> QED  BY <1>1, <1>3, <3>1, <3>2
  <2>3. p \in RefundIds
    BY <1>1, <2>2, RefundsAreNamed
  <2> QED  BY <1>1, <1>3, <2>2, <2>3 DEF Receipt, Recorded
<1> QED  BY <1>2, <1>3 DEF Inserts

\* Old answers stay right, whatever is written.
LEMMA AnswersStay ==
    ASSUME AnswerInv, RowsOnlyAdvance, \A a \in acked' : a \in acked \/ Recorded(a)'
    PROVE  AckedIsRecorded'
<1>1. \A a \in acked : a \in Receipts /\ Recorded(a)
  BY AckedAreRecorded DEF AnswerInv, LedgerInv, TypeInv, TypeOK
<1>2. \A a \in acked : Recorded(a)'
  BY <1>1, RecordedStays DEF AnswerInv, LedgerInv
<1>3. \A a \in acked' : Recorded(a)'
  BY <1>2
<1> QED  BY <1>3 DEF AckedIsRecorded, Recorded, Exists

\* A request that ends leaves the drafts of the others.
LEMMA DraftsStay ==
    ASSUME AnswerInv, NEW r \in Requests, Finish(r)
    PROVE  DraftsAreNamed'
<1>1. /\ pc'[r] = "idle"
      /\ \A q \in Requests : q # r => pc'[q] = pc[q] /\ call'[q] = call[q] /\ draft'[q] = draft[q]
  BY DEF Finish, AnswerInv, LedgerInv, TypeInv, TypeOK
<1>2. \A q \in Requests : pc'[q] = "writing" => Drafted(call'[q], draft'[q])
  BY <1>1 DEF AnswerInv, DraftsAreNamed
<1> QED  BY <1>2 DEF DraftsAreNamed

\* Writing one named row.
LEMMA RowNamed ==
    ASSUME AnswerInv, NEW id \in PaymentIds, NEW row, Named(id, row), payments' = View(id, row)
    PROVE  RowsAreNamed'
<1>1. /\ payments'[id] = row
      /\ \A p \in PaymentIds : p # id => payments'[p] = payments[p]
  BY DEF View, AnswerInv, LedgerInv, TypeInv, TypeOK
<1>2. \A p \in PaymentIds : payments'[p].status # "ABSENT" => Named(p, payments'[p])
  BY <1>1 DEF AnswerInv, RowsAreNamed, Exists
<1> QED  BY <1>2 DEF RowsAreNamed, Exists

LEMMA CommitAnswers ==
    ASSUME AnswerInv, LedgerInv', RowsOnlyAdvance, NEW r \in Requests, pc[r] # "idle",
           Finish(r), NEW d, Drafted(call[r], d), d.id \in PaymentIds, d.row.status # "ABSENT",
           payments' = View(d.id, d.row),
           acked' = acked \/ acked' = acked \cup Receipt(call[r])
    PROVE  AnswerInv'
<1>1. call[r] \in Calls
  BY DEF AnswerInv, LedgerInv, TypeInv, CallsInFlight
<1>2. \A a \in Receipt(call[r]) : Recorded(a)'
  BY <1>1, CommittedIsRecorded DEF AnswerInv, LedgerInv
<1>3. \A a \in acked' : a \in acked \/ Recorded(a)'
  BY <1>2
<1>4. RowsAreNamed'
  BY RowNamed DEF Drafted
<1> QED  BY <1>3, <1>4, AnswersStay, DraftsStay DEF AnswerInv

LEMMA AnswersPreserved ==
    ASSUME KeysTellCalls
    PROVE  AnswerInv /\ [Next]_vars => AnswerInv'
<1> SUFFICES ASSUME AnswerInv, [Next]_vars  PROVE AnswerInv'
  OBVIOUS
<1>1. LedgerInv' /\ RowsOnlyAdvance
  BY LedgerPreserved DEF AnswerInv
<1>2. ASSUME NEW role \in Roles, NEW kind \in {"CAPTURE", "MAIL_ORDER"},
             NEW amount \in InitialAmounts, CreateSalesOrder(role, kind, amount)
      PROVE  AnswerInv'
  <2> DEFINE row == [kind |-> kind, status |-> InitialStatus(AutoApproves(role, kind)),
                     amount |-> amount, key |-> Null, source |-> Null]
  <2>1. Named(InitialId, row)
    BY DEF Named
  <2>2. payments' = payments \/ payments' = View(InitialId, row)
    BY <1>2 DEF CreateSalesOrder, View
  <2> HIDE DEF row
  <2>3. RowsAreNamed'
    BY <2>1, <2>2, IdTypes, RowNamed DEF AnswerInv, RowsAreNamed, Exists
  <2>4. DraftsAreNamed' /\ acked' = acked
    BY <1>2 DEF CreateSalesOrder, AnswerInv, DraftsAreNamed
  <2> QED  BY <1>1, <2>3, <2>4, AnswersStay DEF AnswerInv
<1>3. ASSUME NEW r \in Requests, Start(r)  PROVE AnswerInv'
  <2>1. MayStart(r) /\ \E c : Accept(r, c)
    BY <1>3 DEF Start, StartPost, StartDecision, StartReverse
  <2>2. PICK c : Accept(r, c)
    BY <2>1
  <2>3. /\ payments' = payments /\ acked' = acked /\ draft' = draft
        /\ pc'[r] = "checked"
        /\ \A q \in Requests : q # r => pc'[q] = pc[q] /\ call'[q] = call[q]
    BY <2>2 DEF Accept, AnswerInv, LedgerInv, TypeInv, TypeOK
  <2>4. RowsAreNamed'
    BY <2>3 DEF AnswerInv, RowsAreNamed, Exists
  <2>5. DraftsAreNamed'
    BY <2>3 DEF AnswerInv, DraftsAreNamed
  <2> QED  BY <1>1, <2>3, <2>4, <2>5, AnswersStay DEF AnswerInv
<1>4. ASSUME NEW r \in Requests, WriteRow(r)  PROVE AnswerInv'
  <2> DEFINE d == [id |-> RowId(call[r]), row |-> RowWritten(call[r]),
                   paid |-> PaidAfter(RowId(call[r]), RowWritten(call[r]))]
  <2>1. /\ payments' = payments /\ acked' = acked /\ call' = call /\ pc[r] = "checked"
        /\ draft' = [draft EXCEPT ![r] = d] /\ pc' = [pc EXCEPT ![r] = "writing"]
    BY <1>4 DEF WriteRow
  <2>2. Drafted(call[r], d)
    BY <2>1, CallsWriteNamedRows DEF AnswerInv
  <2> HIDE DEF d
  <2>3. /\ draft'[r] = d
        /\ \A q \in Requests : q # r => pc'[q] = pc[q] /\ draft'[q] = draft[q]
    BY <2>1 DEF AnswerInv, LedgerInv, TypeInv, TypeOK
  <2>4. \A q \in Requests : pc'[q] = "writing" => Drafted(call'[q], draft'[q])
    BY <2>1, <2>2, <2>3 DEF AnswerInv, DraftsAreNamed
  <2>5. RowsAreNamed'
    BY <2>1 DEF AnswerInv, RowsAreNamed, Exists
  <2> QED  BY <1>1, <2>1, <2>4, <2>5, AnswersStay DEF AnswerInv, DraftsAreNamed
<1>5. ASSUME NEW r \in Requests, Commit(r)  PROVE AnswerInv'
  <2>1. /\ pc[r] = "writing" /\ Finish(r) /\ payments' = View(draft[r].id, draft[r].row)
        /\ acked' = acked \cup Receipt(call[r])
    BY <1>5 DEF Commit
  <2>2. Drafted(call[r], draft[r])
    BY <2>1 DEF AnswerInv, DraftsAreNamed
  <2>3. draft[r].id \in PaymentIds /\ draft[r].row.status # "ABSENT"
    BY <2>1 DEF AnswerInv, LedgerInv, DraftsAreSound, SoundDraft
  <2> QED  BY <1>1, <2>1, <2>2, <2>3, CommitAnswers
<1>6. ASSUME NEW r \in Requests, CommitPending(r) \/ CommitReject(r)  PROVE AnswerInv'
  <2> DEFINE d == [id |-> RowId(call[r]), row |-> RowWritten(call[r]),
                   paid |-> PaidAfter(RowId(call[r]), RowWritten(call[r]))]
  <2>1. /\ pc[r] = "checked" /\ Finish(r) /\ payments' = View(d.id, d.row)
        /\ acked' = acked \/ acked' = acked \cup Receipt(call[r])
    BY <1>6 DEF CommitPending, CommitReject
  <2>2. Drafted(call[r], d)
    BY <2>1, CallsWriteNamedRows DEF AnswerInv
  <2>3. d.id \in PaymentIds
    BY <2>1, CallTypes DEF AnswerInv, LedgerInv, TypeInv, CallsInFlight
  <2>4. d.row.status # "ABSENT"
    <3>1. CASE CommitPending(r)
      BY <3>1 DEF CommitPending, RowWritten, InitialStatus
    <3>2. CASE CommitReject(r)
      <4>1. call[r].op = "reject" /\ call[r] \in Calls
        BY <2>1, <3>2 DEF CommitReject, AnswerInv, LedgerInv, TypeInv, CallsInFlight
      <4>2. payments[call[r].target] \in Row
        BY <4>1 DEF AnswerInv, LedgerInv, TypeInv, TypeOK, Calls, PostCalls, DecisionCalls,
                   ReverseCalls
      <4>3. d.row = [payments[call[r].target] EXCEPT !.status = "CANCELLED"]
        BY <4>1 DEF RowWritten
      <4> HIDE DEF d
      <4> QED  BY <4>2, <4>3 DEF Row
    <3> QED  BY <1>6, <3>1, <3>2
  <2> HIDE DEF d
  <2> QED  BY <1>1, <2>1, <2>2, <2>3, <2>4, CommitAnswers
<1>7. ASSUME NEW r \in Requests,
             AnswerDuplicate(r) \/ RefuseInactiveSupplier(r) \/ Abort(r)
      PROVE  AnswerInv'
  <2>1. Finish(r) /\ payments' = payments
    BY <1>7 DEF AnswerDuplicate, RefuseInactiveSupplier, Abort
  <2>2. \A a \in acked' : a \in acked \/ Recorded(a)
    <3>1. CASE acked' = acked
      BY <3>1
    <3>2. CASE acked' # acked
      <4>1. /\ call[r] \in Calls /\ AlreadyDone(call[r]) /\ Inserts(call[r])
            /\ acked' = acked \cup Receipt(call[r])
        BY <1>7, <3>2 DEF AnswerDuplicate, RefuseInactiveSupplier, Abort, Duplicate,
                         AnswerInv, LedgerInv, TypeInv, CallsInFlight
      <4> QED  BY <4>1, DuplicateIsRecorded DEF AnswerInv
    <3> QED  BY <3>1, <3>2
  <2>3. \A a \in acked' : a \in acked \/ Recorded(a)'
    BY <2>1, <2>2 DEF Recorded, Exists
  <2>4. RowsAreNamed'
    BY <2>1 DEF AnswerInv, RowsAreNamed, Exists
  <2> QED  BY <1>1, <2>1, <2>3, <2>4, AnswersStay, DraftsStay DEF AnswerInv
<1>8. ASSUME UNCHANGED <<payments, pc, call, draft, acked>>  PROVE AnswerInv'
  <2>1. RowsAreNamed' /\ DraftsAreNamed'
    BY <1>8 DEF AnswerInv, RowsAreNamed, DraftsAreNamed, Exists
  <2> QED  BY <1>1, <1>8, <2>1, AnswersStay DEF AnswerInv
<1>9. ASSUME NEW active \in BOOLEAN, SetSupplierActive(active)  PROVE AnswerInv'
  BY <1>8, <1>9 DEF SetSupplierActive
<1>10. CASE UNCHANGED vars
  BY <1>8, <1>10 DEF vars
<1> QED  BY <1>2, <1>3, <1>4, <1>5, <1>6, <1>7, <1>9, <1>10 DEF Next, Progress

\* However requests overlap, retry and abort: as long as clients do not use a key of
\* their own for two different things, whoever was told "success" finds the payment,
\* or the refund, on the ledger (the catch branches of postOrderPayment and
\* reverseOrderPayment).
THEOREM AnswersAreRecorded == KeysTellCalls /\ Spec => []AckedIsRecorded
<1> SUFFICES ASSUME KeysTellCalls  PROVE Spec => []AckedIsRecorded
  OBVIOUS
<1>1. Init => AnswerInv
  <2>1. ASSUME Init  PROVE RowsAreNamed /\ DraftsAreNamed /\ AckedIsRecorded
    BY <2>1 DEF Init, RowsAreNamed, DraftsAreNamed, AckedIsRecorded, Exists, AbsentRow
  <2> QED  BY <2>1, InitLedger DEF AnswerInv
<1>2. AnswerInv /\ [Next]_vars => AnswerInv'
  BY AnswersPreserved
<1>3. AnswerInv => AckedIsRecorded
  BY DEF AnswerInv
<1> QED  BY <1>1, <1>2, <1>3, PTL DEF Spec

-----------------------------------------------------------------------------
(* The version counts the postings.                                         *)

Postings == Sum(postedEvents, PaymentIds)

VersionInv == LedgerInv /\ (Placed => order.version = 1 + Postings)

LEMMA VersionIsPostings == VersionCountsPostings <=> (Placed => order.version = 1 + Postings)
  BY DEF VersionCountsPostings, Postings, Sum

LEMMA NoPostingsBeforeOrder ==
    ASSUME LedgerInv, ~Placed, IsFiniteSet(PaymentIds)
    PROVE  Postings = 0
<1>1. \A p \in PaymentIds : postedEvents[p] = 0
  BY DEF LedgerInv, NothingBeforeOrder, AnnouncedIsRecorded, TypeInv, TypeOK
<1> QED  BY <1>1, SumOfZeros DEF Postings

\* One more posting is announced.
LEMMA OneMorePosting ==
    ASSUME LedgerInv, IsFiniteSet(PaymentIds), NEW p \in PaymentIds,
           postedEvents' = [postedEvents EXCEPT ![p] = @ + 1]
    PROVE  Postings' = Postings + 1
<1>1. postedEvents \in [PaymentIds -> Nat]
  BY DEF LedgerInv, TypeInv, TypeOK
<1>2. \A q \in PaymentIds : postedEvents[q] \in Int /\ postedEvents'[q] \in Int
  BY <1>1
<1>3. \A q \in PaymentIds \ {p} : postedEvents[q] = postedEvents'[q]
  BY <1>1
<1>4. postedEvents'[p] = postedEvents[p] + 1
  BY <1>1
<1> DEFINE g == postedEvents
           h == postedEvents'
<1>5. Sum(h, PaymentIds) = Sum(g, PaymentIds) - g[p] + h[p]
  <2>1. \A q \in PaymentIds : g[q] \in Int /\ h[q] \in Int
    BY <1>2
  <2>2. \A q \in PaymentIds \ {p} : g[q] = h[q]
    BY <1>3
  <2> HIDE DEF g, h
  <2>3. \A x \in PaymentIds :
          (\A q \in PaymentIds \ {x} : g[q] = h[q])
             => Sum(h, PaymentIds) = Sum(g, PaymentIds) - g[x] + h[x]
    BY <2>1, SumUpdate
  <2> QED  BY <2>2, <2>3
<1>6. Sum(postedEvents, PaymentIds) \in Int /\ postedEvents[p] \in Int
  BY <1>1, <1>2, SumIsInteger
<1>7. Postings' = Sum(postedEvents', PaymentIds)
  BY DEF Postings
<1> QED  BY <1>4, <1>5, <1>6, <1>7 DEF Postings

LEMMA VersionPreserved ==
    ASSUME IsFiniteSet(PaymentIds)
    PROVE  VersionInv /\ [Next]_vars => VersionInv'
<1> SUFFICES ASSUME VersionInv, [Next]_vars PROVE VersionInv'
  OBVIOUS
<1>1. LedgerInv'
  BY LedgerPreserved DEF VersionInv
<1> DEFINE Counted == Placed => order.version = 1 + Postings
<1>2. ASSUME UNCHANGED <<order, postedEvents>>
      PROVE  Counted'
  BY <1>2 DEF VersionInv, Placed, Postings
<1>3. ASSUME NEW role \in Roles, NEW kind \in {"CAPTURE", "MAIL_ORDER"},
             NEW amount \in InitialAmounts, CreateSalesOrder(role, kind, amount)
      PROVE  Counted'
  <2>1. Postings = 0
    BY <1>3, NoPostingsBeforeOrder DEF VersionInv, CreateSalesOrder
  <2>2. CASE amount # 0 /\ AutoApproves(role, kind)
    <3>1. InitialId \in PaymentIds /\ postedEvents \in [PaymentIds -> Nat]
      BY IdTypes DEF VersionInv, LedgerInv, TypeInv, TypeOK
    <3>2. postedEvents[InitialId] = 0
      BY <1>3, <3>1
         DEF VersionInv, LedgerInv, CreateSalesOrder, NothingBeforeOrder, AnnouncedIsRecorded
    <3>3. postedEvents' = [postedEvents EXCEPT ![InitialId] = @ + 1]
      BY <1>3, <2>2, <3>2 DEF CreateSalesOrder
    <3>4. Postings' = Postings + 1
      BY <3>1, <3>3, OneMorePosting DEF VersionInv
    <3>5. order'.version = 2
      BY <1>3, <2>2 DEF CreateSalesOrder, Balance
    <3> QED  BY <2>1, <3>4, <3>5
  <2>3. CASE ~ (amount # 0 /\ AutoApproves(role, kind))
    <3>1. postedEvents' = postedEvents /\ order' = Balance(0, 1)
      BY <1>3, <2>3 DEF CreateSalesOrder
    <3>2. Postings' = Postings
      BY <3>1 DEF Postings
    <3>3. order'.version = 1
      BY <3>1 DEF Balance
    <3> QED  BY <2>1, <3>2, <3>3
  <2> QED  BY <2>2, <2>3
<1>4. ASSUME NEW r \in Requests, Commit(r)
      PROVE  Counted'
  <2>1. draft[r].id \in PaymentIds
    BY <1>4 DEF Commit, VersionInv, LedgerInv, DraftsAreSound, SoundDraft
  <2>2. Placed
    BY <1>4 DEF Commit, VersionInv, LedgerInv, NothingBeforeOrder
  <2>3. postedEvents' = [postedEvents EXCEPT ![draft[r].id] = @ + 1]
    BY <1>4 DEF Commit
  <2>4. Postings' = Postings + 1
    BY <2>1, <2>3, OneMorePosting DEF VersionInv
  <2>5. order'.version = order.version + 1
    BY <1>4 DEF Commit, Balance, NextVersion
  <2>6. order.version \in Nat /\ order.version = 1 + Postings
    BY <2>2 DEF VersionInv, LedgerInv, TypeInv, TypeOK
  <2>7. Postings \in Int
    <3>1. \A p \in PaymentIds : postedEvents[p] \in Int
      BY DEF VersionInv, LedgerInv, TypeInv, TypeOK
    <3> QED  BY <3>1, SumIsInteger DEF Postings
  <2> QED  BY <2>4, <2>5, <2>6, <2>7
<1>5. ASSUME NEW r \in Requests, Start(r) \/ Abort(r)
      PROVE  Counted'
  BY <1>2, <1>5 DEF Start, StartPost, StartDecision, StartReverse, Accept, Abort
<1>6. ASSUME NEW r \in Requests, Progress(r)
      PROVE  Counted'
  <2>1. CASE WriteRow(r)
    BY <1>2, <2>1 DEF WriteRow
  <2>2. CASE CommitPending(r)
    BY <1>2, <2>2 DEF CommitPending
  <2>3. CASE CommitReject(r)
    BY <1>2, <2>3 DEF CommitReject
  <2>4. CASE AnswerDuplicate(r)
    BY <1>2, <2>4 DEF AnswerDuplicate
  <2>5. CASE RefuseInactiveSupplier(r)
    BY <1>2, <2>5 DEF RefuseInactiveSupplier
  <2> QED  BY <1>4, <1>6, <2>1, <2>2, <2>3, <2>4, <2>5 DEF Progress
<1>7. ASSUME NEW active \in BOOLEAN, SetSupplierActive(active)
      PROVE  Counted'
  BY <1>2, <1>7 DEF SetSupplierActive
<1>8. ASSUME UNCHANGED vars
      PROVE  Counted'
  BY <1>2, <1>8 DEF vars
<1>9. Counted'
  <2> HIDE DEF Counted
  <2> QED  BY <1>3, <1>5, <1>6, <1>7, <1>8 DEF Next
<1> QED  BY <1>1, <1>9 DEF VersionInv

\* However requests overlap, and though a late commit loses what an earlier one did
\* to the balance, SalesOrder.version loses no payment.posted event.  There are
\* finitely many bodies, and so rows; sums over infinite tables are not defined.
THEOREM VersionLosesNothing ==
    IsFiniteSet(PostBodies) /\ IsFiniteSet(RefundBodies) /\ Spec => []VersionCountsPostings
<1> SUFFICES ASSUME IsFiniteSet(PostBodies), IsFiniteSet(RefundBodies)
             PROVE  Spec => []VersionCountsPostings
  OBVIOUS
<1> IsFiniteSet(PaymentIds)
  BY PaymentIdsAreFinite
<1>1. Init => VersionInv
  <2>1. Init => LedgerInv
    BY InitLedger
  <2>2. Init => ~Placed
    BY DEF Init, Placed, NoOrder
  <2> QED  BY <2>1, <2>2 DEF VersionInv
<1>2. VersionInv /\ [Next]_vars => VersionInv'
  BY VersionPreserved
<1>3. VersionInv => VersionCountsPostings
  BY VersionIsPostings DEF VersionInv
<1> QED  BY <1>1, <1>2, <1>3, PTL DEF Spec

-----------------------------------------------------------------------------
(* What is collected.  One request at a time, only an approval can take the *)
(* payments beyond what the order is worth: the post checks the balance,    *)
(* but pending payments do not count in it.                                 *)

\* The sum of entries is the sum of their deltas.
LEMMA SumIsDeltas ==
    ASSUME NEW S, IsFiniteSet(S), NEW g, \A e \in S : g[e] = e.delta
    PROVE  SumDeltas(S) = Sum(g, S)
<1> DEFINE choose(s) == CHOOSE x \in s : TRUE
           body(iter, s) == IF s = {} THEN 0
                            ELSE LET x == choose(s) IN x.delta + iter[s \ {x}]
           sum == CHOOSE iter : iter = [s \in SUBSET S |-> body(iter, s)]
<1>1. SumDeltas(S) = sum[S]
  BY DEF SumDeltas, MapThenSumSet, MapThenFoldSet
<1>2. PICK f : Adds(f, g, S)
  BY AddsExists
<1>3. \A iter, T : T \in SUBSET S =>
         body(iter, T) = IF T = {} THEN 0 ELSE g[First(T)] + iter[T \ {First(T)}]
  <2> SUFFICES ASSUME NEW iter, NEW T \in SUBSET S, T # {}
               PROVE  body(iter, T) = g[First(T)] + iter[T \ {First(T)}]
    OBVIOUS
  <2>1. First(T) \in S
    BY FirstIsElement
  <2>2. choose(T) = First(T)
    BY DEF First
  <2> QED  BY <2>1, <2>2
<1>4. f = [s \in SUBSET S |-> body(f, s)]
  <2> HIDE DEF body
  <2>1. \A T \in SUBSET S : body(f, T) = IF T = {} THEN 0 ELSE g[First(T)] + f[T \ {First(T)}]
    BY <1>3
  <2> QED  BY <1>2, <2>1 DEF Adds
<1>5. sum = [s \in SUBSET S |-> body(sum, s)]
  <2> HIDE DEF body
  <2> QED  BY <1>4
<1>6. Adds(sum, g, S)
  <2> HIDE DEF body, sum
  <2>1. \A T \in SUBSET S : body(sum, T) = IF T = {} THEN 0 ELSE g[First(T)] + sum[T \ {First(T)}]
    BY <1>3
  <2> QED  BY <1>5, <2>1 DEF Adds
<1> HIDE DEF sum
<1> QED  BY <1>1, <1>6, SumIsWhatAdds

LEMMA SignedIsInteger ==
    ASSUME NEW row \in Row
    PROVE  Signed(row) \in Int
<1>1. row.amount \in Nat
  BY AmountsAreNat DEF Row
<1> QED  BY <1>1 DEF Signed

\* A row that is posted, and was not, adds what it is worth.
LEMMA OneMorePosted ==
    ASSUME IsFiniteSet(PaymentIds), NEW tbl \in [PaymentIds -> Row], NEW id \in PaymentIds,
           tbl[id].status # "POSTED", NEW row \in Row, row.status = "POSTED"
    PROVE  LET before == SumDeltas(PostedEntries(tbl))
               after  == SumDeltas(PostedEntries([tbl EXCEPT ![id] = row]))
           IN  before \in Int /\ after = before + Signed(row)
<1> DEFINE new == [tbl EXCEPT ![id] = row]
           Posted == {q \in PaymentIds : tbl[q].status = "POSTED"}
           old == PostedEntries(tbl)
           e == [id |-> id, delta |-> Signed(row)]
           all == old \cup {e}
           g == [x \in all |-> x.delta]
<1>1. new \in [PaymentIds -> Row]
  OBVIOUS
<1>2. PostedEntries(new) = all
  <2>1. ASSUME NEW x \in PostedEntries(new)
        PROVE  x \in all
    <3>1. PICK p \in PaymentIds : new[p].status = "POSTED" /\ x = [id |-> p, delta |-> Signed(new[p])]
      BY <2>1 DEF PostedEntries
    <3>2. CASE p = id
      BY <3>1, <3>2
    <3>3. CASE p # id
      <4>1. new[p] = tbl[p]
        BY <3>3
      <4>2. x \in old
        BY <3>1, <4>1 DEF PostedEntries
      <4> QED  BY <4>2
    <3> QED  BY <3>2, <3>3
  <2>2. ASSUME NEW x \in all
        PROVE  x \in PostedEntries(new)
    <3>1. CASE x = e
      <4>1. new[id] = row
        OBVIOUS
      <4> QED  BY <3>1, <4>1 DEF PostedEntries
    <3>2. CASE x \in old
      <4>1. PICK p \in PaymentIds : tbl[p].status = "POSTED" /\ x = [id |-> p, delta |-> Signed(tbl[p])]
        BY <3>2 DEF PostedEntries
      <4>2. new[p] = tbl[p]
        BY <4>1
      <4> QED  BY <4>1, <4>2 DEF PostedEntries
    <3> QED  BY <3>1, <3>2
  <2> HIDE DEF all, new
  <2> QED  BY <2>1, <2>2
<1>3. e \notin old
  <2>1. ASSUME NEW x \in old
        PROVE  x.id # id
    BY <2>1 DEF PostedEntries
  <2> QED  BY <2>1
<1>4. IsFiniteSet(old)
  <2> DEFINE f == [p \in Posted |-> [id |-> p, delta |-> Signed(tbl[p])]]
  <2>1. old = {f[p] : p \in Posted}
    BY DEF PostedEntries
  <2>2. IsFiniteSet(Posted)
    BY FS_Subset
  <2> HIDE DEF f, Posted
  <2> QED  BY <2>1, <2>2, FiniteImage
<1>5. IsFiniteSet(all)
  BY <1>4, FS_AddElement
<1>6. \A x \in all : g[x] \in Int /\ g[x] = x.delta
  <2>1. \A x \in old : x.delta \in Int
    <3> SUFFICES ASSUME NEW x \in old PROVE x.delta \in Int
      OBVIOUS
    <3>1. PICK p \in PaymentIds : x = [id |-> p, delta |-> Signed(tbl[p])]
      BY DEF PostedEntries
    <3> QED  BY <3>1, SignedIsInteger
  <2>2. e.delta \in Int
    BY SignedIsInteger
  <2> HIDE DEF old, e
  <2> QED  BY <2>1, <2>2
<1>7. e \in all /\ all \ {e} = old /\ g[e] = Signed(row)
  BY <1>3
<1> HIDE DEF g, all, e, old
<1>8. Sum(g, all) = g[e] + Sum(g, all \ {e})
  BY <1>5, <1>6, <1>7, SumTakeOut
<1>9. SumDeltas(all) = Sum(g, all)
  BY <1>5, <1>6, SumIsDeltas
<1>10. old \subseteq all
  BY DEF all
<1>11. SumDeltas(old) = Sum(g, old) /\ Sum(g, old) \in Int
  <2>1. \A x \in old : g[x] \in Int /\ g[x] = x.delta
    BY <1>6, <1>10
  <2>2. SumDeltas(old) = Sum(g, old)
    BY <1>4, <2>1, SumIsDeltas
  <2>3. Sum(g, old) \in Int
    BY <1>4, <2>1, SumIsInteger
  <2> QED  BY <2>2, <2>3
<1>12. SumDeltas(all) = SumDeltas(old) + Signed(row)
  <2>1. Sum(g, all \ {e}) = Sum(g, old)
    BY <1>7
  <2>2. SumDeltas(all) = Signed(row) + SumDeltas(old)
    BY <1>7, <1>8, <1>9, <1>11, <2>1
  <2>3. Signed(row) \in Int /\ SumDeltas(old) \in Int
    BY <1>11, SignedIsInteger
  <2> QED  BY <2>2, <2>3
<1> QED  BY <1>2, <1>11, <1>12 DEF old

LEMMA NonNegativeGrows ==
    ASSUME NEW m \in Int, NEW n \in Int, m <= n
    PROVE  m <= NonNegative(m) /\ NonNegative(m) <= NonNegative(n)
BY DEF NonNegative

\* No more than the order is worth, or no more than was collected before.
StaysCollected(n) == n <= OrderTotal \/ n <= SumPosted(payments)

FitsInv ==
    /\ SerialInv
    /\ \A r \in Requests :
          /\ pc[r] = "checked" /\ call[r].op = "post" => FitsBalance(call[r].body)
          /\ pc[r] = "writing" /\ call[r].op # "approve" =>
                StaysCollected(SumPosted(View(draft[r].id, draft[r].row)))

\* A step that collects more than before, and too much, is the commit of an approval.
GrowsByApproval ==
    \/ StaysCollected(SumPosted(payments'))
    \/ \E r \in Requests : pc[r] = "writing" /\ call[r].op = "approve"

LEMMA CreateFits ==
    ASSUME IsFiniteSet(PaymentIds), FitsInv,
           NEW role \in Roles, NEW kind \in {"CAPTURE", "MAIL_ORDER"},
           NEW amount \in InitialAmounts, CreateSalesOrder(role, kind, amount)
    PROVE  SumPosted(payments') <= OrderTotal
<1> DEFINE posted == AutoApproves(role, kind)
           row == [kind |-> kind, status |-> InitialStatus(posted),
                   amount |-> amount, key |-> Null, source |-> Null]
           tbl == [payments EXCEPT ![InitialId] = row]
<1>1. /\ payments \in [PaymentIds -> Row] /\ InitialId \in PaymentIds
      /\ \A p \in PaymentIds : payments[p].status = "ABSENT"
  BY IdTypes DEF FitsInv, SerialInv, TypeInv, TypeOK, CreateSalesOrder, NothingBeforeOrder, Exists
<1>2. OrderTotal \in Nat /\ amount \in Nat /\ amount <= OrderTotal /\ amount \in Amounts
  BY AmountsAssumption DEF Amounts
<1>3. CASE amount = 0 \/ ~posted
  <2>1. \A p \in PaymentIds : payments'[p].status # "POSTED"
    <3>1. CASE amount = 0
      BY <1>1, <3>1 DEF CreateSalesOrder
    <3>2. CASE amount # 0 /\ ~posted
      <4>1. payments' = tbl
        BY <3>2 DEF CreateSalesOrder
      <4> QED  BY <1>1, <3>2, <4>1 DEF InitialStatus
    <3> QED  BY <1>3, <3>1, <3>2
  <2>2. SumPosted(payments') = 0
    BY <2>1, NonePostedNoSum
  <2> QED  BY <1>2, <2>2
<1>4. CASE amount # 0 /\ posted
  <2>1. payments' = tbl
    BY <1>4 DEF CreateSalesOrder
  <2>2. row \in Row /\ row.status = "POSTED" /\ Signed(row) = amount
    BY <1>2, <1>4 DEF Row, InitialStatus, Signed
  <2>3. SumDeltas(PostedEntries(payments)) = 0
    <3>1. PostedEntries(payments) = {}
      BY <1>1 DEF PostedEntries
    <3> QED  BY <3>1, SumOfNothing
  <2> HIDE DEF row
  <2>4. SumDeltas(PostedEntries(tbl)) = amount
    <3>1. payments[InitialId].status # "POSTED"
      BY <1>1
    <3>2. SumDeltas(PostedEntries(tbl)) = SumDeltas(PostedEntries(payments)) + Signed(row)
      BY <1>1, <2>2, <3>1, OneMorePosted
    <3> QED  BY <1>2, <2>2, <2>3, <3>2
  <2> QED  BY <1>2, <2>1, <2>4 DEF SumPosted, NonNegative
<1> QED  BY <1>3, <1>4

LEMMA WriteRowFits ==
    ASSUME IsFiniteSet(PaymentIds), FitsInv, NEW r \in Requests, WriteRow(r),
           call[r].op # "approve"
    PROVE  StaysCollected(SumPosted(View(RowId(call[r]), RowWritten(call[r]))))
<1> DEFINE c   == call[r]
           id  == RowId(c)
           row == RowWritten(c)
           before == SumDeltas(PostedEntries(payments))
           after  == SumDeltas(PostedEntries(View(id, row)))
<1> SUFFICES StaysCollected(SumPosted(View(id, row)))
  OBVIOUS
<1>1. pc[r] = "checked" /\ c \in Calls /\ payments \in [PaymentIds -> Row]
  BY DEF WriteRow, FitsInv, SerialInv, TypeInv, TypeOK, CallsInFlight
<1>2. id \in PaymentIds /\ row \in Row
  BY <1>1, CallTypes DEF FitsInv, SerialInv, TypeInv
<1>3. Inserts(c) /\ payments[id].status # "POSTED" /\ row.status = "POSTED"
  <2>1. Inserts(c)
    BY DEF WriteRow, Finalizes, Inserts
  <2>2. ~Exists(id)
    BY <2>1 DEF WriteRow, Duplicate
  <2>3. row.status = "POSTED"
    BY <2>1 DEF WriteRow, Finalizes, Inserts, RowWritten, InitialStatus
  <2> QED  BY <2>1, <2>2, <2>3 DEF Exists
<1>4. before \in Int /\ after = before + Signed(row) /\ Signed(row) \in Int
  <2> HIDE DEF id, row
  <2> QED  BY <1>1, <1>2, <1>3, OneMorePosted, SignedIsInteger DEF View
<1>5. /\ SumPosted(payments) = NonNegative(before) /\ before <= NonNegative(before)
      /\ SumPosted(View(id, row)) = NonNegative(after)
      /\ NonNegative(before) \in Nat /\ OrderTotal \in Nat
  BY <1>4, NonNegativeGrows, NonNegativeType, AmountsAssumption DEF SumPosted
<1>6. CASE c.op = "post"
  <2>1. c.body.kind # "REFUND" /\ c.body.amount \in Nat
    BY <1>1, <1>6, AmountsAssumption DEF Calls, PostCalls, DecisionCalls, ReverseCalls
  <2>2. Signed(row) = c.body.amount
    BY <1>6, <2>1 DEF RowWritten, Signed
  <2>3. NonNegative(before) + c.body.amount <= OrderTotal
    <3>1. FitsBalance(c.body)
      BY <1>1, <1>6 DEF FitsInv
    <3> QED  BY <1>5, <3>1 DEF FitsBalance
  <2> HIDE DEF before, after, id, row
  <2>4. after \in Int /\ after <= OrderTotal
    BY <1>4, <1>5, <2>1, <2>2, <2>3
  <2>5. NonNegative(after) <= OrderTotal
    BY <1>5, <2>4 DEF NonNegative
  <2> QED  BY <1>5, <2>5 DEF StaysCollected
<1>7. CASE c.op = "reverse"
  <2>1. Signed(row) <= 0
    <3>1. row.kind = "REFUND"
      BY <1>7 DEF RowWritten
    <3>2. row.amount \in Nat
      BY <1>2, AmountsAreNat DEF Row
    <3> QED  BY <3>1, <3>2 DEF Signed
  <2> HIDE DEF before, after, id, row
  <2>2. after \in Int /\ after <= before
    BY <1>4, <2>1
  <2>3. NonNegative(after) <= NonNegative(before)
    BY <1>4, <2>2, NonNegativeGrows
  <2> QED  BY <1>5, <2>3 DEF StaysCollected
<1> QED  BY <1>3, <1>6, <1>7 DEF Inserts

LEMMA FitsPreserved ==
    ASSUME IsFiniteSet(PaymentIds), Overlap = FALSE
    PROVE  FitsInv /\ [Next]_vars => FitsInv' /\ GrowsByApproval
<1> SUFFICES ASSUME FitsInv, [Next]_vars PROVE FitsInv' /\ GrowsByApproval
  OBVIOUS
<1>1. SerialInv' /\ SerialInv
  BY SerialPreserved DEF FitsInv
<1>2. OrderTotal \in Nat /\ SumPosted(payments) \in Nat
  BY AmountsAssumption, SumPostedType
<1>3. ASSUME \A r \in Requests : pc'[r] = "idle"
      PROVE  FitsInv'
  BY <1>1, <1>3 DEF FitsInv
<1>4. ASSUME payments' = payments
      PROVE  GrowsByApproval
  BY <1>2, <1>4 DEF GrowsByApproval, StaysCollected
<1>5. ASSUME NEW role \in Roles, NEW kind \in {"CAPTURE", "MAIL_ORDER"},
             NEW amount \in InitialAmounts, CreateSalesOrder(role, kind, amount)
      PROVE  FitsInv' /\ GrowsByApproval
  <2>1. \A r \in Requests : pc'[r] = "idle"
    BY <1>1, <1>5 DEF CreateSalesOrder, SerialInv, NothingBeforeOrder
  <2>2. SumPosted(payments') <= OrderTotal
    BY <1>5, CreateFits
  <2> QED  BY <1>3, <2>1, <2>2 DEF GrowsByApproval, StaysCollected
<1>6. ASSUME NEW r \in Requests, Start(r)
      PROVE  FitsInv' /\ GrowsByApproval
  <2>1. PICK c : /\ Accept(r, c) /\ MayStart(r)
                 /\ c.op = "post" => FitsBalance(c.body)
    <3>1. ASSUME NEW role \in Roles, NEW b \in PostBodies, StartPost(r, role, b)
          PROVE  \E c : Accept(r, c) /\ MayStart(r) /\ (c.op = "post" => FitsBalance(c.body))
      BY <3>1 DEF StartPost
    <3>2. ASSUME NEW op \in {"approve", "reject"}, NEW role \in Roles, NEW p \in PaymentIds,
                 StartDecision(r, op, role, p)
          PROVE  \E c : Accept(r, c) /\ MayStart(r) /\ c.op # "post"
      BY <3>2 DEF StartDecision
    <3>3. ASSUME NEW role \in Roles, NEW p \in SourceIds, NEW b \in RefundBodies,
                 StartReverse(r, role, p, b)
          PROVE  \E c : Accept(r, c) /\ MayStart(r) /\ c.op # "post"
      BY <3>3 DEF StartReverse
    <3> QED  BY <1>6, <3>1, <3>2, <3>3 DEF Start
  <2>2. /\ payments' = payments /\ pc'[r] = "checked" /\ call'[r] = c
        /\ \A q \in Requests : q # r => pc'[q] = "idle"
    BY <1>1, <2>1 DEF Accept, MayStart, SerialInv, TypeInv, TypeOK
  <2>3. ASSUME NEW q \in Requests, pc'[q] = "checked", call'[q].op = "post"
        PROVE  SumPosted(payments') + call'[q].body.amount <= OrderTotal
    BY <2>1, <2>2, <2>3 DEF FitsBalance
  <2>4. \A q \in Requests : pc'[q] # "writing"
    BY <2>2
  <2>5. SumPosted(payments)' = SumPosted(payments')
    BY DEF SumPosted
  <2>6. FitsInv'
    BY <1>1, <2>3, <2>4, <2>5 DEF FitsInv, FitsBalance
  <2> QED  BY <1>4, <2>2, <2>6
<1>7. ASSUME NEW r \in Requests, WriteRow(r)
      PROVE  FitsInv' /\ GrowsByApproval
  <2> DEFINE id  == RowId(call[r])
             row == RowWritten(call[r])
  <2>1. /\ payments' = payments /\ call' = call /\ pc[r] # "idle"
        /\ pc'[r] = "writing"
        /\ draft'[r].id = id /\ draft'[r].row = row
    BY <1>1, <1>7 DEF WriteRow, SerialInv, TypeInv, TypeOK
  <2>2. \A q \in Requests : q # r => pc'[q] = "idle"
    <3>1. \A q \in Requests : q # r => pc[q] = "idle"
      BY <1>1, <2>1, Alone
    <3> QED  BY <1>7, <3>1 DEF WriteRow
  <2>3. call[r].op # "approve" => StaysCollected(SumPosted(View(id, row)))
    BY <1>7, WriteRowFits
  <2> HIDE DEF id, row
  <2>4. View(draft[r].id, draft[r].row)' = View(id, row)
    BY <2>1 DEF View
  <2>5. SumPosted(View(draft[r].id, draft[r].row))' = SumPosted(View(id, row))
    BY <2>4 DEF SumPosted
  <2>6. StaysCollected(SumPosted(View(draft[r].id, draft[r].row)))'
           <=> StaysCollected(SumPosted(View(id, row)))
    <3>1. SumPosted(payments)' = SumPosted(payments)
      BY <2>1 DEF SumPosted
    <3> QED  BY <2>5, <3>1 DEF StaysCollected
  <2>7. ASSUME NEW q \in Requests, pc'[q] = "writing", call'[q].op # "approve"
        PROVE  StaysCollected(SumPosted(View(draft[q].id, draft[q].row)))'
    <3>1. q = r
      BY <2>2, <2>7
    <3>2. StaysCollected(SumPosted(View(draft[r].id, draft[r].row)))'
      BY <2>1, <2>3, <2>6, <2>7, <3>1
    <3> QED  BY <3>1, <3>2
  <2>8. \A q \in Requests : pc'[q] # "checked"
    BY <2>1, <2>2
  <2>9. FitsInv'
    BY <1>1, <2>7, <2>8 DEF FitsInv
  <2> QED  BY <1>4, <2>1, <2>9
<1>8. ASSUME NEW r \in Requests, Commit(r)
      PROVE  FitsInv' /\ GrowsByApproval
  <2>1. /\ pc[r] = "writing" /\ Finish(r)
        /\ payments' = View(draft[r].id, draft[r].row)
    BY <1>8 DEF Commit
  <2>2. \A q \in Requests : pc'[q] = "idle"
    BY <1>1, <2>1, AllIdleAfter
  <2>3. GrowsByApproval
    BY <2>1 DEF GrowsByApproval, FitsInv
  <2> QED  BY <1>3, <2>2, <2>3
<1>9. ASSUME NEW r \in Requests, CommitPending(r) \/ CommitReject(r)
      PROVE  FitsInv' /\ GrowsByApproval
  <2> DEFINE id  == RowId(call[r])
             row == RowWritten(call[r])
  <2>1. /\ pc[r] = "checked" /\ Finish(r) /\ payments' = View(id, row)
        /\ UNCHANGED <<order, postedEvents>>
    BY <1>9 DEF CommitPending, CommitReject
  <2>2. \A q \in Requests : pc'[q] = "idle"
    BY <1>1, <2>1, AllIdleAfter
  <2>3. call[r] \in Calls /\ id \in PaymentIds
    <3>1. call[r] \in Calls
      BY <1>1, <2>1 DEF SerialInv, TypeInv, CallsInFlight
    <3> QED  BY <1>1, <3>1, CallTypes DEF SerialInv, TypeInv
  <2>4. payments[id].status # "POSTED" /\ row.status # "POSTED"
    <3>1. CASE CommitPending(r)
      BY <3>1 DEF CommitPending, Duplicate, Inserts, Finalizes, RowWritten, InitialStatus, Exists
    <3>2. CASE CommitReject(r)
      <4>1. call[r].op = "reject"
        BY <3>2 DEF CommitReject
      <4>2. id = call[r].target /\ row = [payments[id] EXCEPT !.status = "CANCELLED"]
        BY <4>1 DEF RowId, RowWritten
      <4>3. Undecided(id)
        BY <1>1, <2>1, <4>1, <4>2 DEF SerialInv, DecisionsAreFresh
      <4>4. payments[id] \in Row
        BY <1>1, <2>3 DEF SerialInv, TypeInv, TypeOK
      <4> QED  BY <4>2, <4>3, <4>4 DEF Undecided, Row
    <3> QED  BY <1>9, <3>1, <3>2
  <2>5. \A p \in PaymentIds :
           \/ payments'[p] = payments[p]
           \/ payments'[p].status # "POSTED" /\ payments[p].status # "POSTED"
    <3>1. payments \in [PaymentIds -> Row]
      BY <1>1 DEF SerialInv, TypeInv, TypeOK
    <3> HIDE DEF id, row
    <3> QED  BY <2>1, <2>3, <2>4, <3>1 DEF View
  <2>6. SumPosted(payments') = SumPosted(payments)
    BY <2>5, SamePostedSameSum
  <2> QED  BY <1>2, <1>3, <2>2, <2>6 DEF GrowsByApproval, StaysCollected
<1>10. ASSUME NEW r \in Requests, AnswerDuplicate(r) \/ RefuseInactiveSupplier(r) \/ Abort(r)
       PROVE  FitsInv' /\ GrowsByApproval
  <2>1. pc[r] # "idle" /\ Finish(r) /\ payments' = payments
    BY <1>10 DEF AnswerDuplicate, RefuseInactiveSupplier, Abort
  <2>2. \A q \in Requests : pc'[q] = "idle"
    BY <1>1, <2>1, AllIdleAfter
  <2> QED  BY <1>3, <1>4, <2>1, <2>2
<1>11. ASSUME UNCHANGED <<payments, pc, call, draft>>
       PROVE  FitsInv' /\ GrowsByApproval
  BY <1>1, <1>4, <1>11 DEF FitsInv, FitsBalance, StaysCollected, SumPosted, View
<1>12. ASSUME NEW active \in BOOLEAN, SetSupplierActive(active)
       PROVE  FitsInv' /\ GrowsByApproval
  BY <1>11, <1>12 DEF SetSupplierActive
<1>13. CASE UNCHANGED vars
  BY <1>11, <1>13 DEF vars
<1> QED  BY <1>5, <1>6, <1>7, <1>8, <1>9, <1>10, <1>12, <1>13 DEF Next, Progress

LEMMA InitFits == Init => FitsInv
<1>1. Init => \A r \in Requests : pc[r] = "idle"
  BY DEF Init
<1> QED  BY <1>1, InitSerial DEF FitsInv

\* Requests that come one at a time, whatever their callers may do: a step that collects
\* more than the order is worth, and more than before, is the commit of an approval.
\* The posting's check of the balance is enough for what is posted at once.
OnlyApprovalsOvercollect == [][GrowsByApproval]_vars

THEOREM PostingsNeverOvercollect ==
    IsFiniteSet(PostBodies) /\ IsFiniteSet(RefundBodies) /\ Overlap = FALSE /\ Spec
        => OnlyApprovalsOvercollect
<1> SUFFICES ASSUME IsFiniteSet(PostBodies), IsFiniteSet(RefundBodies), Overlap = FALSE
             PROVE  Spec => OnlyApprovalsOvercollect
  OBVIOUS
<1>1. FitsInv /\ [Next]_vars => FitsInv' /\ GrowsByApproval
  BY PaymentIdsAreFinite, FitsPreserved
<1> QED  BY <1>1, InitFits, PTL DEF Spec, OnlyApprovalsOvercollect

\* Nothing waits for approval.
NothingPending ==
    /\ \A p \in PaymentIds : ~Undecided(p)
    /\ \A r \in Requests : pc[r] # "idle" =>
          call[r].op \in {"post", "reverse"} /\ (call[r].op = "post" => call[r].auto)

LEMMA NothingBecomesPending ==
    ASSUME Roles \subseteq ApproverRoles
    PROVE  SerialInv /\ NothingPending /\ [Next]_vars => NothingPending'
<1> SUFFICES ASSUME SerialInv, NothingPending, [Next]_vars PROVE NothingPending'
  OBVIOUS
<1>1. \A role \in Roles : \A kind : AutoApproves(role, kind)
  BY DEF AutoApproves
<1>2. TypeInv /\ payments \in [PaymentIds -> Row]
  BY DEF SerialInv, TypeInv, TypeOK
<1> DEFINE Decided == \A p \in PaymentIds : payments[p].status # "PENDING_APPROVAL"
           Simple(q) == /\ call[q].op \in {"post", "reverse"}
                        /\ call[q].op = "post" => call[q].auto
<1>3. Decided /\ \A q \in Requests : pc[q] # "idle" => Simple(q)
  BY DEF NothingPending, Undecided
<1>4. ASSUME Decided', NEW r \in Requests, pc'[r] = "idle" \/ Simple(r)',
             \A q \in Requests : q # r => pc'[q] = pc[q] /\ call'[q] = call[q]
      PROVE  NothingPending'
  BY <1>3, <1>4 DEF NothingPending, Undecided
<1>5. ASSUME NEW role \in Roles, NEW kind \in {"CAPTURE", "MAIL_ORDER"},
             NEW amount \in InitialAmounts, CreateSalesOrder(role, kind, amount)
      PROVE  NothingPending'
  <2>1. InitialStatus(AutoApproves(role, kind)) = "POSTED"
    BY <1>1 DEF InitialStatus
  <2>2. Decided'
    BY <1>2, <1>3, <1>5, <2>1 DEF CreateSalesOrder
  <2>3. UNCHANGED <<pc, call>>
    BY <1>5 DEF CreateSalesOrder
  <2> QED  BY <1>3, <2>2, <2>3 DEF NothingPending, Undecided
<1>6. ASSUME NEW r \in Requests, NEW c, Accept(r, c), c.op \in {"post", "reverse"},
             c.op = "post" => c.auto
      PROVE  NothingPending'
  <2>1. /\ payments' = payments /\ call'[r] = c
        /\ \A q \in Requests : q # r => pc'[q] = pc[q] /\ call'[q] = call[q]
    BY <1>2, <1>6 DEF Accept, TypeInv, TypeOK
  <2> QED  BY <1>3, <1>4, <1>6, <2>1
<1>7. ASSUME NEW r \in Requests, Start(r)
      PROVE  NothingPending'
  <2>1. ASSUME NEW role \in Roles, NEW b \in PostBodies, StartPost(r, role, b)
        PROVE  NothingPending'
    <3> DEFINE c == [op |-> "post", auto |-> AutoApproves(role, b.kind), body |-> b]
    <3>1. Accept(r, c) /\ c.op = "post" /\ c.auto
      BY <1>1, <2>1 DEF StartPost
    <3> HIDE DEF c
    <3>2. c.op \in {"post", "reverse"} /\ (c.op = "post" => c.auto)
      BY <3>1
    <3> QED  BY <1>6, <3>1, <3>2
  <2>2. ASSUME NEW op \in {"approve", "reject"}, NEW role \in Roles, NEW p \in PaymentIds,
               StartDecision(r, op, role, p)
        PROVE  NothingPending'
    BY <1>3, <2>2 DEF StartDecision, Undecided
  <2>3. ASSUME NEW role \in Roles, NEW p \in SourceIds, NEW b \in RefundBodies,
               StartReverse(r, role, p, b)
        PROVE  NothingPending'
    <3> DEFINE c == [op |-> "reverse", target |-> p, body |-> b]
    <3>1. Accept(r, c) /\ c.op = "reverse"
      BY <2>3 DEF StartReverse
    <3> HIDE DEF c
    <3>2. c.op \in {"post", "reverse"} /\ (c.op = "post" => c.auto)
      BY <3>1
    <3> QED  BY <1>6, <3>1, <3>2
  <2> QED  BY <1>7, <2>1, <2>2, <2>3 DEF Start
<1>8. ASSUME NEW r \in Requests, Finish(r)
      PROVE  /\ pc'[r] = "idle"
             /\ \A q \in Requests : q # r => pc'[q] = pc[q] /\ call'[q] = call[q]
  BY <1>2, <1>8 DEF Finish, TypeInv, TypeOK
<1>9. ASSUME NEW r \in Requests, WriteRow(r)
      PROVE  NothingPending'
  BY <1>2, <1>3, <1>4, <1>9 DEF WriteRow, TypeInv, TypeOK
<1>10. ASSUME NEW r \in Requests, Commit(r)
       PROVE  NothingPending'
  <2>1. draft[r].row.status = "POSTED" /\ draft[r].id \in PaymentIds
    BY <1>10 DEF Commit, SerialInv, DraftsAreFresh
  <2>2. Decided'
    BY <1>2, <1>3, <1>10, <2>1 DEF Commit, View
  <2> QED  BY <1>4, <1>8, <1>10, <2>2 DEF Commit
<1>11. ASSUME NEW r \in Requests, CommitPending(r) \/ CommitReject(r)
       PROVE  FALSE
  BY <1>3, <1>11 DEF CommitPending, CommitReject, Finalizes
<1>12. ASSUME NEW r \in Requests, AnswerDuplicate(r) \/ RefuseInactiveSupplier(r) \/ Abort(r)
       PROVE  NothingPending'
  <2>1. Finish(r) /\ payments' = payments
    BY <1>12 DEF AnswerDuplicate, RefuseInactiveSupplier, Abort
  <2> QED  BY <1>3, <1>4, <1>8, <2>1
<1>13. ASSUME UNCHANGED <<payments, pc, call>>
       PROVE  NothingPending'
  BY <1>3, <1>13 DEF NothingPending, Undecided
<1>14. ASSUME NEW active \in BOOLEAN, SetSupplierActive(active)
       PROVE  NothingPending'
  BY <1>13, <1>14 DEF SetSupplierActive
<1>15. CASE UNCHANGED vars
  BY <1>13, <1>15 DEF vars
<1> QED  BY <1>5, <1>7, <1>9, <1>10, <1>11, <1>12, <1>14, <1>15 DEF Next, Progress

\* Where every caller may approve, so that nothing ever waits, and requests come one at
\* a time, payments never exceed what the order is worth: what postOrderPayment
\* promises and the run payments_overcollection refutes once payments wait.
THEOREM WithoutApprovalsNothingIsOvercollected ==
    IsFiniteSet(PostBodies) /\ IsFiniteSet(RefundBodies) /\ Overlap = FALSE
    /\ Roles \subseteq ApproverRoles /\ Spec => []NeverOverCollected
<1> SUFFICES ASSUME IsFiniteSet(PostBodies), IsFiniteSet(RefundBodies), Overlap = FALSE,
                    Roles \subseteq ApproverRoles
             PROVE  Spec => []NeverOverCollected
  OBVIOUS
<1> DEFINE Inv == FitsInv /\ NothingPending /\ NeverOverCollected
<1>1. Init => Inv
  <2> SUFFICES ASSUME Init PROVE NothingPending /\ NeverOverCollected
    BY InitFits
  <2>1. \A p \in PaymentIds : payments[p].status = "ABSENT"
    BY DEF Init, AbsentRow
  <2>2. SumPosted(payments) = 0
    BY <2>1, NonePostedNoSum
  <2>3. NeverOverCollected
    BY <2>2, AmountsAssumption DEF NeverOverCollected
  <2> QED  BY <2>1, <2>3 DEF Init, NothingPending, Undecided
<1>2. Inv /\ [Next]_vars => Inv'
  <2> SUFFICES ASSUME Inv, [Next]_vars PROVE Inv'
    OBVIOUS
  <2>1. FitsInv' /\ GrowsByApproval
    BY PaymentIdsAreFinite, FitsPreserved
  <2>2. NothingPending'
    BY NothingBecomesPending DEF FitsInv
  <2>3. StaysCollected(SumPosted(payments'))
    BY <2>1 DEF GrowsByApproval, NothingPending
  <2>4. SumPosted(payments) \in Nat /\ SumPosted(payments') \in Nat /\ OrderTotal \in Nat
    BY SumPostedType, AmountsAssumption
  <2>5. SumPosted(payments') <= OrderTotal
    BY <2>3, <2>4 DEF StaysCollected, NeverOverCollected
  <2>6. SumPosted(payments)' = SumPosted(payments')
    BY DEF SumPosted
  <2>7. NeverOverCollected'
    BY <2>5, <2>6 DEF NeverOverCollected
  <2> QED  BY <2>1, <2>2, <2>7
<1>3. Inv => NeverOverCollected
  OBVIOUS
<1> QED  BY <1>1, <1>2, <1>3, PTL DEF Spec

-----------------------------------------------------------------------------
(* Nobody waits for somebody who waits.                                     *)

\* The guards of the steps of Progress(r), in their order; each step is determined
\* by the state, so that one whose guard holds can be taken.
CanGoOn(r) ==
    LET c      == call[r]
        mayPay == IsMailOrder(RowWritten(c)) => supplierActive
    IN
    \/ pc[r] = "writing"                                              \* Commit
    \/ /\ pc[r] = "checked" /\ ~Locked(r)
       /\ \/ Finalizes(c) /\ ~Duplicate(c) /\ mayPay                  \* WriteRow
          \/ c.op = "post" /\ ~Finalizes(c) /\ ~Duplicate(c) /\ mayPay \* CommitPending
          \/ c.op = "reject"                                          \* CommitReject
          \/ Duplicate(c)                                             \* AnswerDuplicate
          \/ c.op \in {"post", "approve"} /\ ~Duplicate(c) /\ ~mayPay \* RefuseInactiveSupplier

\* A request that cannot go on waits for the locks of another one, which can: there is
\* no circle of waiting requests, and every answer the program may have to give is there.
NobodyIsStuck ==
    \A r \in Requests : pc[r] # "idle" =>
        \/ CanGoOn(r)
        \/ Locked(r) /\ \E q \in Requests \ {r} : pc[q] = "writing" /\ CanGoOn(q)

THEOREM WaitsAreNotCircular == Spec => []NobodyIsStuck
<1>1. TypeInv => NobodyIsStuck
  <2> SUFFICES ASSUME TypeInv, NEW r \in Requests, pc[r] # "idle"
               PROVE  \/ CanGoOn(r)
                      \/ Locked(r) /\ \E q \in Requests \ {r} : pc[q] = "writing" /\ CanGoOn(q)
    BY DEF NobodyIsStuck
  <2> DEFINE c == call[r]
  <2>1. pc[r] \in {"checked", "writing"} /\ c \in Calls
    BY DEF TypeInv, TypeOK, CallsInFlight
  <2>2. CASE pc[r] = "writing"
    BY <2>2 DEF CanGoOn
  <2>3. CASE pc[r] = "checked" /\ Locked(r)
    <3>1. PICK q \in Requests \ {r} : pc[q] = "writing"
      BY <2>3 DEF Locked
    <3>2. CanGoOn(q)
      BY <3>1 DEF CanGoOn
    <3> QED  BY <2>3, <3>1, <3>2
  <2>4. CASE pc[r] = "checked" /\ ~Locked(r)
    <3>1. c.op \in {"post", "approve", "reject", "reverse"}
      BY <2>1 DEF Calls, PostCalls, DecisionCalls, ReverseCalls
    <3>2. CASE Duplicate(c) \/ c.op = "reject"
      BY <2>4, <3>2 DEF CanGoOn
    <3>3. CASE c.op = "reverse" /\ ~Duplicate(c)
      <4>1. Finalizes(c)
        BY <3>3 DEF Finalizes
      <4>2. ~IsMailOrder(RowWritten(c))
        BY <3>3 DEF IsMailOrder, RowWritten
      <4> QED  BY <2>4, <3>3, <4>1, <4>2 DEF CanGoOn
    <3>4. CASE c.op \in {"post", "approve"} /\ ~Duplicate(c)
      <4>1. CASE IsMailOrder(RowWritten(c)) /\ ~supplierActive
        BY <2>4, <3>4, <4>1 DEF CanGoOn
      <4>2. CASE IsMailOrder(RowWritten(c)) => supplierActive
        <5>1. Finalizes(c) \/ (c.op = "post" /\ ~Finalizes(c))
          BY <3>4 DEF Finalizes
        <5> QED  BY <2>4, <3>4, <4>2, <5>1 DEF CanGoOn
      <4> QED  BY <4>1, <4>2
    <3> QED  BY <3>1, <3>2, <3>3, <3>4
  <2> QED  BY <2>1, <2>2, <2>3, <2>4
<1> QED  BY <1>1, InitTypes, TypesPreserved, PTL DEF Spec
=============================================================================
