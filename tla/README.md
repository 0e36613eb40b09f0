# mobilya-os: a verification project

mobilya-os is the back office of a furniture shop: a Node/Express API on PostgreSQL
(through Prisma, `src/backend`) and a React client that also works without a
connection (`src/client`). This directory holds TLA+ models of the parts whose
correctness depends on what several requests, pages or restarts do to shared state,
the TLC configurations that check them on small instances, and proofs, checked by
TLAPS, of the properties that matter most for every value of the constants.

## The system

| Component | State | Operations | What makes it hard | Status |
|---|---|---|---|---|
| Customer payments (`services/*OrderPayment.ts`, `finalizeOrderPaymentPosting.ts`, `appendMailOrderSupplierLedger.ts`) | `payment_transactions`, balance columns of `sales_orders`, the mail orders' rows of `supplier_ledger_entries`, `domain_events` | place an order, post, approve, reject, reverse | guards read outside the transaction; read-sum-overwrite; replays answered from a catch branch; two books | modelled, proved |
| Field operations (`services/fieldOperations/`) | `field_operations`, `field_operation_timeline`, `field_operation_assignments` | create, edit, transition, assign, unassign, soft delete | compare-and-set against stale loads; dedupe key; operation number with bounded retries; a timeline written by every handler but edit | modelled, proved |
| Offline queue of the client (`services/offline/`, `state/OfflineFirstProvider.jsx`, `state/NetworkStatusProvider.jsx`) | `sync_queue` in IndexedDB, flags and drain loop in memory | enqueue, drain, force a drain, reload | lost replies, reloads, several pages on one store, a flag that may be cleared too early | modelled, proved |
| Supplier ledger, goods receipts (`postSupplierPayment.ts`, `supplierBalance.ts`, `createIncomingGoods.ts`, `appendMailOrderSupplierLedger.ts`) | `supplier_ledger_entries`, `Supplier.isActive` | pay a supplier, receive goods, post, approve and reject a mail order | the open balance is checked before the insert and never stored; the retry of a payment meets that check first | modelled, proved |
| Order supply and missing items (`confirmOrderLineSupplySent.ts`, `orderLineSupplyActions.ts`, `createIncomingGoods.ts`, `createOrderMissingItem.ts`, `patchMissingItemStatus.ts`, `syncSalesOrderDisplayStatus.ts`) | supply status, warehouse status and `qtyReceived` of `order_lines`, `order_missing_items`, `displayStatus` | order from the supplier, receive, take both back, reconcile, create and patch missing items | absolute writes of counts read earlier; a derived status written from stale reads, and not by every handler | modelled, proved |
| Shipments, plans, delivery (`createOrderShipment.ts`, `patchShipmentStatus.ts`, `upsertShipmentPlan.ts`, `createShipmentGroup.ts`, `planDeliveryActions.ts`, `deliveryConfirmationQueue.ts`) | `shipments` with their lines, `shipment_plans`, `displayStatus`, the order's events | create and move a shipment; save, group, queue, confirm, fail, postpone, revert and delete a plan | quantities checked on a snapshot, and hardly at all without a selection; goods taken back from under a shipment; a confirmation is a transaction per stage and one more, and may be refused or die between any two | modelled, proved |
| Order header changes | `displayStatus` | `PATCH .../status` | writes over what the others derive | an environment action of the two modules above |
| Domain events, live events, automation jobs | `domain_events`, in-memory overrides | append, publish, approve, cancel, run | low | not modelled but for `payment.posted` and the shipment events |
| Product master, Woo, users, AI and analytics services, projections, UI, deployment | | | single-row CRUD, pure reads, external systems, presentation | not modelled |

How they interact. The client calls the API over HTTP; a retry after a timeout is a
second, concurrent request. Without a connection the client puts the call into the
offline queue and replays it later, so the queue is a source of duplicates for the
payment ledger, whose deterministic keys absorb them, and for orders, which have none.
A mail order is a customer payment that the supplier receives, so one transaction
writes the customer's and the supplier's book: `CustomerPayments` has both sides of one
order, `SupplierLedger` all entries of one supplier. A goods receipt credits the
supplier and, in the same transaction, changes an order line: the credit is in
`SupplierLedger`, the line in `OrderSupply`, where `receipts` stands for what was
credited. `OrderSupply` and `Delivery` share `order_lines.qtyReceived` and
`sales_orders.displayStatus`: in each the other is an environment action
(`ReceiveGoods`, `TakeBackGoods`, `WriteDisplayElsewhere`). A field
operation refers to an order or a shipment plan; the dedupe key is all they share.

What every backend component has in common is the shape of its handlers: *load and
check outside a transaction, then write inside one, at READ COMMITTED*. The models
keep these steps apart, since that is where the hazards are. `PROJECT.json` lists the
hazards with the lines at which they bite.

## Modules

| Module | Contents |
|---|---|
| `CustomerPayments`, `MCCustomerPayments` | the payment ledger of one order; request bodies for TLC |
| `PaymentLedger` | the abstract ledger that `CustomerPayments` implements |
| `CustomerPaymentsProofs`, `PaymentLedgerProofs` | theorems about `CustomerPayments`; the refinement |
| `SumTheorems` | the laws of sums over finite sets that the ledgers' proofs rest on |
| `FieldOperations`, `MCFieldOperations`, `FieldOperationsProofs` | field operations with their timeline; symmetry; theorems, the refinement among them |
| `FieldWork` | the abstract jobs that `FieldOperations` implements |
| `OfflineSync`, `MCOfflineSync`, `OfflineSyncProofs` | the offline queue and the pages that drain it; theorems |
| `SupplierLedger`, `MCSupplierLedger`, `SupplierLedgerProofs` | the ledger of one supplier; payments for TLC; theorems |
| `OrderSupply`, `MCOrderSupply`, `OrderSupplyProofs` | the goods of one order; symmetry; theorems, the refinement among them |
| `OrderGoods` | the abstract goods that `OrderSupply` implements while no two requests overlap |
| `Delivery`, `MCDelivery`, `DeliveryProofs` | shipments and the plan of one order; symmetry; theorems |

Definitions whose comment starts with *Fault:* are variants of the definition that
follows, with a plausible mistake in them. No behaviour uses them. Each property is
shown to fail when such a variant takes the place of its original (`mutants` in
`PROJECT.json`), so no property holds by the shape of the model alone.

### CustomerPayments

State. `payments` is the table of the order's payments, by primary key (status
`"ABSENT"`: no such row); `order` the balance columns and `version`;
`supplierLedger` the status of the entry each mail order carries along;
`postedEvents` how many `payment.posted` events each payment has. `pc`, `call` and
`draft` are the requests in flight: what each serves, where it stands, and what its
open transaction has written. `acked` is what clients were told.

Actions. `CreateSalesOrder` is `createSalesOrder`, one transaction nobody sees before
it commits. Every other call starts with a `Start*` action, the reads and guards
before `prisma.$transaction`. A call that goes through `finalizeOrderPaymentPosting`
then takes `WriteRow` (insert or update the payment row, keep it locked, sum the
POSTED rows that are visible) and `Commit` (overwrite the balance with that sum,
increment the version, settle the supplier's entry, write the event); a call that does
not, takes `CommitPending` or `CommitReject`. `AnswerDuplicate` is the catch branch of
a unique violation, `RefuseInactiveSupplier` the error of `assertActiveSupplier`, and
`Abort` a timeout, lost connection or crash at any point. `SetSupplierActive` is the
part of `patchSupplier` that matters here. A statement that needs a row or an index
entry another transaction holds waits (`Locked`).

Abstractions. Money is an integer; the tolerance of 0.009 for rounding has no
counterpart. Deterministic ids (a hash of order and key) are injective constructors.
There is one order, one supplier, and one `note`. `findPendingPaymentEvent` always
finds its event. `version` is also incremented by operations outside the module.

### PaymentLedger

What the payments of an order promise, without requests, transactions, keys and
suppliers: a book of entries, each entered once (`Request`, `Collect`), decided once
(`Approve`, `Reject`) and given back at most once (`Refund`), and a paid amount that
changes together with the entries and is what they are worth. `CustomerPayments` maps
its rows to entries (`Book`) and `order.paid` to `paid`; `ImplementsLedger` says that its
behaviours are behaviours of `PaymentLedger`. With one request at a time this holds, and
is checked and proved. With two it does not: a lost balance update leaves `paid` behind
the book.

### FieldOperations

State. `operations`, `timeline` and `assignments` are the three tables; a row's key is
its position. `pc` and `call` hold a request's progress and what it loaded.

Actions. `StartCreate` is the guard of `createFieldOperation`; `CountRows` is
`generateOperationNumber`; `Insert`, `RefuseDuplicate` and `RetryNumber` are the ends
of its transaction; `GiveUp` is the 500 after the last attempt. `StartTransition`,
`StartChange`, `StartAssign` and `StartUnassign` load and check; the `Commit*` actions
are the transactions, with the condition on `version` and `deletedAt` that the first
three of them have and the assignments do not; `Conflict` is the 409. `Abort` is as
above.

Abstractions. A transaction of this component writes one operation under its row lock,
and the timeline row with it, so it is one step. The timeline is ordered by commits;
the code sorts by `occurredAt`, which is taken before the transaction, so that events
of the same millisecond, or of an assignment that races, may be shown in another
order. Fields that `PATCH` edits are left out, `version` is not.

### FieldWork

What field operations promise, without requests, versions, numbers and keys: jobs that are
opened (`Open`), moved along the allowed path (`Move`), deleted and staffed, each at one
moment and on the job as it is then, and a story that tells it in the same breath.
`FieldOperations` maps a row to its source, status and deletion (`Jobs`), `timeline` to
`story` and `assignments` to `crew`; `HandlersAreAtomic` says that its behaviours are
behaviours of `FieldWork`. Unlike the payments it needs no condition: the comparison of
versions and the dedupe key do for any number of requests what a lock would do.

### OfflineSync

State. `queue` is the store, an item's position its `createdAt` (two items of the same
millisecond are not modelled, nor are errors of IndexedDB). `page` is the memory of
each page: `wasOffline`, whether the effect of `OfflineFirstProvider` is to run, the
drain in progress and its private copies of the items left. `records` is how many
records the server made for an item. `history` and `reloads` are not in the code: they
count sendings, lost answers and reloads.

Actions. `GoOffline`/`GoOnline` are the browser's events; `Enqueue` is
`runWithOfflineQueue`; `RunEffect` and `ForceSync` start a drain; `SkipItem`,
`SendItem`, `ExecuteItem`, `CompleteItem`, `RemoveItem`, `FailItem` and `EndDrain` are
the steps between the awaits of `drainOfflineSyncQueue` and `processQueueItem`;
`Reload` is a reload or a crash of the page at any of these points.

Abstractions. A local plan is saved without the server, and may fail as well: its module is
imported on demand and the browser's storage may be full. A reply lost after the server has done its work, an aborted request the
server goes on with, and a failing read after the mutation are all `FailItem` in stage
`"applied"`. The kinds of mutations are told apart by what a second execution does.
The conflict check compares the cached order with itself and has no effect, so it has
no action; the kinds that only cache something and send nothing are left out.

### SupplierLedger

State. `entries` are the rows by id, of payments, goods receipts and mail orders;
`draft` is the uncommitted row of each open transaction; `acked` what clients were told.
`statement` (the `balanceAfter` written last) and `raced` are history.

Actions. `Start` accepts a call, `Write` sums the committed rows and builds the row with
its `balanceAfter`, `Commit` makes it visible. `AnswerDuplicate` is the catch branch,
`Refuse` the errors (balance exceeded, inactive supplier), `Abort` a timeout or crash.
Two inserts of one key both pass `Write`; the unique index decides at `Commit`.

Abstractions. Money is an integer: the tolerance of 0.009 by which a payment may exceed the
open balance (`postSupplierPayment.ts:110`) has no counterpart, so what is said of payments
and of the balance holds up to that tolerance for each payment. A receipt has one amount, and receipts get their ids
in order up to `MaxReceipts`. A receipt for an order line looks like one for stock here.
`reverseApprovedMailOrderSupplierLedger` has no caller and no action.

### OrderSupply

State. `line`, `missing` and `display` are the rows; `receipts` is what was booked in and
credited for each line; `returned`, `foreign` and `races` are history.

Actions. `Start*` reads and checks, `Write` computes the display status from the rows the
transaction sees (`syncSalesOrderDisplayStatusFromLines`) and locks the rows the call
writes, `Commit` writes what `LineWritten` and the missing item's change say: from the
rows that `Start` read where the code does so (`snap`), from the current ones where it
does not. `confirm` does not derive the display status (`Syncs`).

Abstractions. Every line has the same `Ordered` quantity. The display statuses the
derivation treats alike are one value, `"OTHER"`. `shipmentReady` is left out: the two
handlers that would set it always answer 409. `plannedDate` and what only describes a
missing item are left out, and so is the order's `version`, which counts writes.

### OrderGoods

What the goods of one order promise, without requests, transactions and warehouse
statuses: lines are ordered, filled, emptied and called off, items are reported missing and
resolved, and the status shown follows from both in the same step. `OrderSupply` maps a
line to what is due and what is in stock (`Stock`). Overlapping requests break this (a
lost update, a status derived from rows as they were), so `AtomicWhenAlone` says that
every step is a step or a stutter of `OrderGoods` as long as `races` stays 0.

### Delivery

State. `shipment` with its quantities, the order's `plan`, `display` and `received`;
`told` is which stages of a shipment the order's events tell of. `confirmed`, `basis`
and `races` are history; `basis` is, for each line, the weakest check that its shipments
passed when they were created.

Actions. `StartCreate`/`CommitCreate` check the quantities and create a shipment. There are
two ways to ask for one. With `lines` (`MaySelect`), no line may exceed what came in and is
not reserved (`"counted"`), unless the caller sets `allowReceivingRisk`. Without `lines`
(`MayTakeAll`), everything that remains is taken (`createOrderShipment.ts:124-134`) and the
policies refuse only lines of which nothing came in (`evaluateOrderPolicies.ts:52-64`): of a
line with one piece of two received, both are shipped, and nobody waived anything
(`"seen"`). `"nothing"` is left to a caller who sets the risk flag or overrides that policy.
`TakeBackGoods` is the reverted arrival (`confirmOrderLineSupplySent.ts:125-181`), which
does not look at shipments: those that hold the goods then rest on `"nothing"`.
`StartPatch`/`CommitPatch` move one on. `StartSave`/`Write`/`CommitSave` save a plan;
`CommitGroup`, `CommitDecision` and `Refuse` are the other handlers of a plan. A
confirmation goes through `Step` and `CommitStep` once for each stage, or
`ShowDelivered` when the order has no shipment, and then `ClosePlan`; `Refuse` and
`Abort` may end it between any two of these.

`GoodsBeforeShipment` says how far goods may fall behind shipments on each of these bases.
"What is shipped has come in" is not true of the program, with one request at a time and
without anybody taking a risk, for two reasons: creation without a selection, and the
reverted arrival. The test "sevk adedi gelen adedi geçemez"
(`src/client/tests/foundation/productReadiness.test.js:40`) says it of selections, where it
holds. The shipment form sends a selection (`ShipmentOperationModal.jsx:272`); the mobile
page (`ShipmentsPage.jsx:166`) and the dispatch of a plan without a shipment
(`ShipmentOperationsPage.jsx:333`) do not.

Abstractions. Receipts that race for one line, and the conditions under which an arrival may
be taken back, are the business of `OrderSupply`. Of the display status only whether
it is `"DELIVERED"` is kept. The group row, dates, crews and amounts are left out. Plans and
shipments have their place in the order of creation for an id.

## Runs

Passing runs.

| Run | What is checked | Bounds and why they suffice |
|---|---|---|
| `payments_serial` | `SingleRecord`, `BalanceMatchesLedger`, `MailOrderBooksAgree`, `AnnouncedOnce`, `TypeOK`, the refinement `ImplementsLedger` | one request at a time, a keyed mail order, a cash payment with a derived key, full and partial refunds: every operation, replay and rejection meets every status; that a key is single however requests overlap is the theorem `KeysAreSingle` |
| `payments_races` | `AckedIsRecorded`, `RefundsAreBacked`, `VersionCountsPostings`, `LedgerIsAppendOnly`, `EveryRequestEnds` | two requests in flight: every property relates at most two calls |
| `field_history` | `TypeOK`, `TimelineTellsTheStory`, the refinement `HandlersAreAtomic` | one operation, two requests, four changes, assignments made and ended before the third event |
| `field_creation` | `OneActivePerSource`, `KeyHeldWhileActive`, `ExhaustedOnlyWhenRaced` | three operations of one source or of none, two requests, two attempts: the end or deletion of one races the creation of another, and a creation that meets three others runs out of its attempts |
| `offline_page` | `TypeOK`, `RepeatsAreExplained`, `AttemptsBounded`, `NothingLost`, `TriedInOrder`, `DrainEnds` | one page, two items of three kinds, two attempts, two reloads; that `NothingLost` and `TriedInOrder` hold with any number of pages is a theorem |
| `supplier_ledger` | `TypeOK`, `StatementAddsUp`, `OverdraftIsBounded`, `AnsweredIsBooked`, `CountedEntriesStay` | two requests, two payments of different amounts, a mail order and two receipts: enough to spend one balance twice, and for an approval and a rejection to cross |
| `order_supply` | `TypeOK`, `ArrivalsAreReceipted`, `StockIsAccountedFor`, `LinesAreConsistent`, `DisplayFollowsGoods`, the refinement `AtomicWhenAlone` | two lines of two pieces, three pieces received, a missing item, two requests that meet twice: a lost update needs one such meeting, undoing it and losing it again two |
| `delivery` | `TypeOK`, `NeverOverReserved`, `GoodsBeforeShipment`, `HistoryIsComplete`, `ConfirmedWasDelivered`, `ShipmentsMoveForward` | two shipments, one plan, two requests that meet once, goods that come in and are taken back: two shipments are enough to share a line on different bases; a confirmation may die after any stage, be repeated, and be met at any point by one other call |

The counters of `OfflineSync` stop at `MaxCount`; in `offline_page` they never reach it.
`MaxRaces` of `OrderSupply` and `Delivery` counts the steps taken while another request
is in flight, so that requests that overlap too often are cut off, not those of
one kind. Properties that start with `races = 0` say what holds as long as requests did
not overlap; what overlapping requests may do to those rows is in the hazards. The
runs of `FieldOperations` and `Delivery` do not check for deadlock: with their bounds used
up and no request in flight nothing is left to do.

Runs that find a violation. Each checks one sentence of the repository against what
the code does; none of them needs two requests at once.

| Run | Sentence | What happens |
|---|---|---|
| `payments_overcollection` | "Ödeme tutarı kalan bakiyeyi aşamaz" (`postOrderPayment.ts:88`) | the check counts POSTED payments only, and approving does not repeat it: two pending payments that each fit are both approved |
| `offline_reconnect` | "İşlemler kuyruğa alınır — bağlantı gelince senkron olur" (`OfflineBanner.jsx:23`) | an item is queued while a drain runs, the connection returns before it ends: the drain that should start is skipped and the flag that would start it is cleared |
| `supplier_replay` | "supplier payment duplicate + race is single-record and balance-safe" (`financialSafety.integration.test.ts:180`) | a payment that is recorded and used up the balance is refused with "Exceeds open balance" when it is sent again |
| `delivery_reconfirm` | "confirm delivery marks order delivered" (`deliveryConfirmationQueue.test.js:81`) | a delivery is taken back, its shipment stays DELIVERED; the second confirmation has nothing to move, closes the plan, and nobody writes the stored `sales_orders.displayStatus`, nor the `lifecycleStatus` computed from it; the DTO's `displayStatus` still reads "Teslim Edildi", which `orderShipmentDisplayStatus.ts:42` projects from the shipment |

Fairness. `CustomerPayments!FairSpec` assumes strong fairness of each request's
`Progress`: PostgreSQL grants a lock to its waiters in turn and Node serves every
socket, so a request that is again and again able to go on does. Nothing is assumed of
the clients, of `Abort` or of `SetSupplierActive`. `OfflineSync!FairSpec` assumes weak
fairness of each page's effect and drain loop: the event loop runs what is due and
`apiClient` aborts a request that is not answered. Nobody has to press a button, and
the connection need not return.

## Theorems

Proved for every set of requests, bodies, roles, sources and pages, every amount,
total and bound.

`CustomerPaymentsProofs`

- `TypeCorrect`: `TypeOK`, by the invariant `TypeInv`, which adds that a request that is
  writing has a draft, and that its call is one it may be serving.
- `SerialBalance`, `SerialBooksAgree`, `SerialAnnouncements`: with one request at a
  time (`Overlap = FALSE`). The three properties are not inductive by themselves: a step
  relies on what was read earlier. `SerialInv` adds that one request is in flight
  (`OneInFlight`), nothing happens before the order exists (`NothingBeforeOrder`),
  what a decision saw is still so (`DecisionsAreFresh`) and the sum in a draft is
  the sum of the rows it will leave (`DraftsAreFresh`).
- `KeysAreSingle`, `RefundsBacked`, `AppendOnly`: with any overlap. `LedgerInv` says what
  an open transaction may rely on: its row is not in the table or was announced
  (`TargetsAreKnown`, `AnnouncedIsRecorded`), the draft is what its call writes
  (`DraftsAreSound`), and two open transactions never hold colliding index entries
  (`LocksAreExclusive`), which is what makes the unique indexes hold at commit.
- `AnswersAreRecorded`: with any overlap, if a key stands for one call (`KeysTellCalls`).
  A repeated request is answered by looking for its key, whatever its amount, so the
  statement is false without that. `AnswerInv` adds that each row tells its identifier and
  what wrote it (`RowsAreNamed`), as does each draft (`DraftsAreNamed`).
- `VersionLosesNothing`: with any overlap, if the bodies clients may send are finitely
  many, because the version is compared with a sum over the rows (`PaymentIdsAreFinite`).
  `VersionInv` is `LedgerInv` with the property; its `NothingBeforeOrder` says that
  nothing is announced before the order exists.
- `PostingsNeverOvercollect`: with one request at a time and finitely many bodies, a step that collects more than the
  order is worth, and more than before, is the commit of an approval. `FitsInv` adds to
  `SerialInv` that a posting that was checked still fits the balance and that a draft
  keeps the paid amount within the total unless it approves.
  `WithoutApprovalsNothingIsOvercollected` follows: where every caller may approve, nothing
  is ever pending, and `NeverOverCollected` holds, the sentence that the run
  `payments_overcollection` refutes. Together they say exactly what that defect needs.
- `WaitsAreNotCircular`: with any overlap. `CanGoOn` says in terms of the state when a
  request has a step to take (the guards of `Progress`). A request without one waits for a
  lock that a writing request holds, and a writing request can always go on, so that the
  transactions never wait for each other in a circle.

`FieldOperationsProofs`

- `TypeCorrect` with `TypeInv`; `EndsAreFinal` with `LoadInv`: a loaded version is not
  newer than the row's, and if it is the row's, the loaded status is too
  (`LoadsAreHonest`), which is why comparing versions is enough.
- `KeysFollowTheWork`, `NoDuplicates` with `KeyInv` (`KeysAreUnique`).
- `NumbersSuffice` with `NumberInv`: a number is at most the rows plus the attempts
  (`NumbersStayLow`) and what an inserting request counted still bounds the table from
  below (`CountsAreSound`). The theorem holds for any `MAX_CREATE_ATTEMPTS` and any
  number of requests.
- `TimelineIsTheStory` with `StoryInv`.
- `CallsAreAtomic`: `Spec => HandlersAreAtomic`, with any number of requests. `AtomicInv`
  joins `KeyInv`, through which a commit that finds the version it loaded also finds the
  status it checked, and that a request which ends an assignment tells it of the
  operation the assignment belongs to (`CrewIsNamed`). Each commit is a step of `FieldWork`,
  every other action a stutter. Assignments compare no versions, and the abstract
  `Assign` shows what that allows: people are sent to a job that was deleted.

`OfflineSyncProofs`

A page works on private copies of the items, so each invariant says how the copies
relate to the store and to what has happened.

- `TypeCorrect` with `TypeInv`, which adds that copies are of items that exist and that a
  drain in the middle of an item has one (`CopiesOfItems`).
- `QueueLosesNothing` with `LossInv`, for any number of pages: a page that is past the
  request works on an item the server has (`AppliedIsRecorded`), which is what an old
  copy of another page cannot undo.
- `OrderOfAttempts` with `OrderInv`, for any number of pages: whatever is older than an
  item of a snapshot is in the snapshot too or was sent (`SnapshotsSkipNothing`), so the
  least item of the list is safe to send.
- `RepeatsExplained` and `AttemptsAreBounded`, for a browser with one page (`OnePage`),
  where copies and store agree but for the item in hand (`CopyInv`): with `RepeatInv`, a
  second record needs an answer that was lost; with `AttemptInv`, an attempt ends in
  `retryCount` or in a reload. With two pages both are false: each sends its own copy,
  and puts that copy's counter back. They hold for every `OFFLINE_SYNC_RETRY_MAX` and wherever the counters
  stop.
- `RecordsWereSent`, for any finite number of pages: an item has no more records than
  times it was sent. `SendInv` adds the pages that have sent it and not yet heard (`Senders`),
  each of which may still make a record.
- `DrainsRunDown`, for any number of pages: with `StepsLeft` for what a drain has left to
  do, each step of a page's loop lowers it or ends the drain, and no other step, of this
  page or another, raises it.

`PaymentLedgerProofs`

- `LedgerIsImplemented`: with `Overlap = FALSE`, `Spec => ImplementsLedger`. `ImplInv` joins
  `SerialInv` and `LedgerInv` and adds what the mapping needs: a row that is not there
  is blank (`BlankUntilWritten`), only refunds have a source (`OnlyRefundsHaveSources`),
  and a payment is still posted when the refund that was begun for it is committed
  (`ReversalsAreFresh`, `RefundsAreFresh`). `InsertIsStep` and `DecisionIsStep` show that a
  committed row is a step of the abstract ledger, `QuietStep` that everything else is a
  stutter.

`SupplierLedgerProofs`

- `TypeCorrect`; `AnswersAreBooked` and `CountedStays` with `LedgerInv`, for any number
  of requests: what each row may be (`RowsInv`), that receipts have ids of their own
  (`ReceiptsInv`), what a decision on a mail order may rely on (`DecisionsInv`), what is in
  a draft (`DraftsInv`), and that what was acknowledged exists (`AckedInv`).
- `OverdraftStaysBounded`: with any number of requests but none, if they, the payments
  clients may send and the mail orders are finitely many (then so are the entries,
  `EntryIdsAreFinite`). The bound alone is not inductive: a commit reduces the
  balance that other transactions have already read. `OverdraftInv` bounds what is paid
  together with what the open transactions are about to pay (`AtRisk`). A payment
  that passes the check adds its amount to a sum over the other requests, each of which
  has at most the largest payment at stake.
- `SerialStatementAddsUp` and `SerialPaymentsAreCovered`, for finitely many payments and mail
  orders, with `SerialInv`: until two requests overlap, one is in flight (`Alone`), the
  balance in its draft and the entry it decides on are still so (`ReadsAreFresh`), and no
  more was paid than was owed (`BooksAgree`). The second theorem is that last part: the open
  balance, which the code cuts off at zero, is then the plain difference of the two sums, in
  the whole amounts of the model: the code lets every payment pass by 0.009.

`OrderSupplyProofs`

- `TypeCorrect`; `GoodsAreReceipted` with `ReceiptInv`, for any number of requests: the
  copy of a line that a request read never holds more than was booked in
  (`SnapsAreReceipted`), so that writing it back late can only lose goods.
- `SerialStock`, `SerialLines`, `SerialDisplay`, `FinalStays` with `SerialInv`: until two
  requests overlap, one request is in flight, what it read is still so (`FlightInv`), and
  rows and status agree (`RowsInv`, `DisplayInv`).
- `SerialRequestsAreAtomic`: `Spec => AtomicWhenAlone`, from the same invariant: what a
  request checked still holds when it writes (`FlightInv`), so a commit is the step of
  `OrderGoods` with that name, a transaction that changes nothing, the reconciliation among
  them, is a stutter. `OneAtATimeIsOrderGoods`: with `MaxRaces = 0` the behaviours of
  `OrderSupply` are behaviours of `OrderGoods`.

`DeliveryProofs`

- `TypeCorrect` with `TypeInv`, which adds that calls are what their stage says and that
  one request at most has the plan's row locked (`OneWriter`).
- `HistoriesAreComplete`, `ConfirmationsAreBacked` with `HistoryInv`, for any number of
  requests: a confirmation never believes a stage that the events do not tell of
  (`CallsFollow`).
- `StagesMoveForward` with `SerialInv`: until two requests overlap, what a request read is
  still so (`Fresh`).
- `NothingIsPromisedTwice`, `GoodsComeFirst` with `GoodsInv`, under the same condition: the
  shipment that is being created still has the room its checks found (`HasRoom`), and each
  line has what its basis says (`Backs`). A new shipment makes the basis the weaker of two
  (`WeakerBacks`); a returned arrival takes it away (`TakenBack`), or finds nothing held. The
  case of a creation is the only one that lets a line hold more (`OthersTakeNothing`,
  `StockStays`).
- `OverReservationStaysBounded`: with any finite number of requests and any overlap, a line's
  shipments hold at most `Ordered` for every request. `NeverOverReserved` says nothing once
  requests overlap; this says how bad it can get, and it gets that bad when every request
  checks the quantities before any of them writes. The bound is not inductive: shipments that were given up for an issue come
  back when a move that was checked before is committed after. `ShareInv` gives each shipment a
  share (`Covers`) that is enough for what it holds and for what a request in flight
  may put into it (`Putting`) or bring back with it (`Moving`). Shares change only when a
  creation passes its check (`StartShared`): then what is held, with the creation, fits
  the order, and each other request has one shipment, of at most `Ordered`, at stake.

`SumTheorems`

- The code's sums are `MapThenSumSet`, a fold, and the library's induction theorems take
  an operator, which the provers cannot instantiate. The laws are proved without it: were
  one false, there would be a smallest finite set on which it is (`SmallestSubset`), and
  taking one element out of that set leads to a contradiction. From the existence and
  uniqueness of the summing function follow that a sum changes by what one term does
  (`SumUpdate`), that zeros do not matter (`SumWithoutZeros`), that it is monotonic and
  bounded (`SumIsMonotonic`, `SumIsBounded`), that sums add up (`SumOfSums`), and that a
  finite set of integers has a maximum (`FiniteHasMax`). `FiniteImage` and
  `ImageIsNoLarger` are the laws of images in a form that takes a function. Each proof module shows that the model's sums are these.

The assumptions are those the modules name: amounts are natural numbers and a first
payment fits the total (`AmountsAssumption`), roles are the code's
(`CallersAssumption`), `NoKey` is no source, there is at least one attempt, and so on.
TLC evaluates them in every run.

Only model-checked: the liveness properties `EveryRequestEnds` and `DrainEnds`. What is
missing to prove them is the step from fairness to progress, which needs `ENABLED`, and,
for a drain, an induction over its length. Their safety halves are theorems:
`WaitsAreNotCircular` (somebody can always go on) and `DrainsRunDown` (going on leads to
the end). That `CanGoOn` is the enabledness of `Progress` is not proved either.

## Plan

Written, in this order: the payment ledger of an order, field operations, the offline
queue; then the supplier's ledger, the supply of an order, its delivery, and the abstract
payment ledger with its refinement; then the abstract jobs and goods with theirs. Left:

1. A composition of `OrderSupply` and `Delivery` over one display status, in place of the
   environment action each has for the other.
2. A composition of the offline queue with the payment ledger: replays absorbed by keys.
3. Automation jobs, whose state is kept in the memory of the process.
4. Proofs: an abstract book that `SupplierLedger` implements, and an abstract log of
   shipments for `Delivery`.

## Not modelled

Hazards without a property. Some have no sentence of the code or its documents that
would say what is right: a missing item taken back by a change that crosses another
(`patchMissingItemStatus.ts`), a goods receipt booked twice by a retry (it has no
key), a plan put back in the queue
by the promotion of overdue plans while it is confirmed, a shipment dispatched after
another one was delivered. Others are races that the code does not prevent (an approval that
crosses a rejection, a display status written late, two shipments that reserve the same
goods): there the properties are stated for requests that do not overlap, and theorems bound
what overlap can do where a bound exists. The steps that lead there are in the models. The others are
outside them: the lookup among the last 50 events, the conflict check that compares an
order with itself. `PROJECT.json` has each with its line and reason.

Reads, projections and reports change nothing. Product master, variants and media are
edits of single rows. WooCommerce, object storage and the AI providers are outside the
repository. Sessions and the route table are reduced to the roles that may approve. The
status of an automation job is kept in the memory of the process and changed by
synchronous calls. The in-memory mock stores of the client serve demonstrations, and the
client is presentation but for the offline queue: this is most of the repository's code,
and a model of it would have no state of its own to be wrong about. Deployment,
migrations and seeds run outside the program.
