----------------------------- MODULE OfflineSync -----------------------------
(***************************************************************************)
(* The offline queue of the browser client.  Without a connection a        *)
(* mutation is put into the sync_queue store of IndexedDB, which all pages *)
(* (tabs) of the browser share and which survives a reload; when the       *)
(* connection is back, a page drains the queue: it takes a snapshot of the *)
(* pending items and sends them one by one.                                *)
(*                                                                         *)
(* In-memory state of a page (the wasOffline flag of NetworkStatusProvider,*)
(* the drain loop) is lost when the page is reloaded.  A request and its   *)
(* reply are separate steps: the reply, or one of the reads that follow    *)
(* the mutation, may fail after the server has done its work.              *)
(*                                                                         *)
(* Items are numbered in the order of createdAt.  An item that has been    *)
(* deleted from the store has status "REMOVED".  The conflict check        *)
(* compares the cached order with itself, so it never has an effect.       *)
(***************************************************************************)
EXTENDS Integers, Sequences

CONSTANTS
    Pages,                    \* the open pages of the browser
    Kinds,                    \* the kinds of mutations that get queued
    OFFLINE_SYNC_RETRY_MAX,
    MaxItems,                 \* bound on the items ever queued
    MaxReloads,               \* bound on page reloads
    MaxCount                  \* where the counters of records and sendings stop

\* Every execution makes a record of its own: orders get a fresh id, shipments too.
NewRecordKinds == {"CREATE_ORDER", "POST_SHIPMENT"}

\* Executing it again leaves what the first execution left: a payment without a key
\* has one derived from its body (the bodies of two items differ), a status is set, a
\* local plan is overwritten.
LocalKinds == {"UPSERT_SHIPMENT"}
AllKinds == NewRecordKinds \cup LocalKinds \cup {"POST_PAYMENT", "PATCH_SHIPMENT_STATUS"}

ASSUME KindsAssumption == Kinds \subseteq AllKinds
ASSUME RetryAssumption == OFFLINE_SYNC_RETRY_MAX \in Nat \ {0}
ASSUME BoundsAssumption == MaxCount \in Nat \ {0} /\ MaxReloads \in Nat

VARIABLES
    online,      \* navigator.onLine
    queue,       \* the sync_queue store
    page,        \* in-memory state of each page
    records,     \* how many records the server made for each item
    history,     \* not in the code: how often an item was sent, and how often its
                 \* sender did not hear of what the server had done
    reloads      \* not in the code: how many reloads there were

vars == <<online, queue, page, records, history, reloads>>

-----------------------------------------------------------------------------
Items == DOMAIN queue

Item == [kind : AllKinds, status : {"WAITING", "SYNCING", "OK", "ERROR", "REMOVED"},
         retryCount : Nat]

\* A page's copy of an item, as it was when the drain took its snapshot.
Copy == [id : Nat \ {0}, status : {"WAITING", "SYNCING", "ERROR"}, retryCount : Nat]

Page == [wasOffline : BOOLEAN,
         due        : BOOLEAN,        \* the effect on [online, wasOffline] is to run
         drain      : {"none", "auto", "manual"},
         todo       : SUBSET Copy,    \* what is left of the snapshot
         stage      : {"next", "sending", "applied", "answered"}]

FreshPage == [wasOffline |-> FALSE, due |-> FALSE, drain |-> "none", todo |-> {}, stage |-> "next"]

\* Fault: items that are through are still listed.
PendingOrDone(i) == queue[i].status # "REMOVED"

\* listPendingSyncItems: an item some page has left in SYNCING is pending too.
Pending(i) == queue[i].status \in {"WAITING", "ERROR", "SYNCING"}

Snapshot ==
    {[id |-> i, status |-> queue[i].status, retryCount |-> queue[i].retryCount] :
        i \in {j \in Items : Pending(j)}}

\* Fault: the list is not sorted.
AnyOf(todo) == CHOOSE c \in todo : \A d \in todo : d.id <= c.id

FirstOf(todo) == CHOOSE c \in todo : \A d \in todo : c.id <= d.id

Current(p) == FirstOf(page[p].todo)

\* Fault: a failure is not counted.
NeverExhausted(c) == FALSE

\* "Kalici hata": the item stays in the store, but is not sent again.
Exhausted(c) == c.status = "ERROR" /\ c.retryCount >= OFFLINE_SYNC_RETRY_MAX

\* Two pages that keep failing can send an item for ever; the counters stop.
OneMore(n) == IF n < MaxCount THEN n + 1 ELSE n

-----------------------------------------------------------------------------
Init ==
    /\ online = TRUE
    /\ queue = << >>
    /\ page = [p \in Pages |-> FreshPage]
    /\ records = << >>
    /\ history = << >>
    /\ reloads = 0

GoOffline ==
    /\ online
    /\ online' = FALSE
    /\ page' = [p \in Pages |-> [page[p] EXCEPT !.wasOffline = TRUE, !.due = FALSE]]
    /\ UNCHANGED <<queue, records, history, reloads>>

GoOnline ==
    /\ ~online
    /\ online' = TRUE
    /\ page' = [p \in Pages |-> [page[p] EXCEPT !.due = page[p].wasOffline]]
    /\ UNCHANGED <<queue, records, history, reloads>>

\* runWithOfflineQueue
Enqueue(kind) ==
    /\ ~online
    /\ Len(queue) < MaxItems
    /\ queue' = Append(queue, [kind |-> kind, status |-> "WAITING", retryCount |-> 0])
    /\ records' = Append(records, 0)
    /\ history' = Append(history, [sent |-> 0, unheard |-> 0])
    /\ UNCHANGED <<online, page, reloads>>

-----------------------------------------------------------------------------
(* Draining                                                                 *)

\* The effect of OfflineFirstProvider.  A drain that is already running is not
\* started twice, yet the flag is cleared all the same.
RunEffect(p) ==
    /\ page[p].due
    /\ page' = [page EXCEPT ![p] =
          IF @.drain = "none"
          THEN [@ EXCEPT !.due = FALSE, !.drain = "auto", !.todo = Snapshot, !.stage = "next"]
          ELSE [@ EXCEPT !.due = FALSE, !.wasOffline = FALSE]]
    /\ UNCHANGED <<online, queue, records, history, reloads>>

\* The user asks for it.
ForceSync(p) ==
    /\ online
    /\ page[p].drain = "none"
    /\ page' = [page EXCEPT ![p].drain = "manual", ![p].todo = Snapshot, ![p].stage = "next"]
    /\ UNCHANGED <<online, queue, records, history, reloads>>

AtNextItem(p) == page[p].drain # "none" /\ page[p].stage = "next" /\ page[p].todo # {}

SkipItem(p) ==
    /\ AtNextItem(p)
    /\ Exhausted(Current(p))
    /\ page' = [page EXCEPT ![p].todo = @ \ {Current(p)}]
    /\ UNCHANGED <<online, queue, records, history, reloads>>

\* updateSyncQueueItem puts the page's copy, whatever became of the item meanwhile.
Put(c, status, retryCount) ==
    queue' = [queue EXCEPT ![c.id].status = status, ![c.id].retryCount = retryCount]

SendItem(p) ==
    LET c == Current(p)
    IN
    /\ AtNextItem(p)
    /\ ~Exhausted(c)
    /\ Put(c, "SYNCING", c.retryCount)
    /\ page' = [page EXCEPT ![p].stage = "sending"]
    /\ history' = [history EXCEPT ![c.id].sent = OneMore(@)]
    /\ UNCHANGED <<online, records, reloads>>

ExecuteItem(p) ==
    LET i == Current(p).id
    IN
    /\ page[p].stage = "sending"
    /\ online \/ queue[i].kind \in LocalKinds
    /\ records' = [records EXCEPT ![i] = IF queue[i].kind \in NewRecordKinds THEN OneMore(@) ELSE 1]
    /\ page' = [page EXCEPT ![p].stage = "applied"]
    /\ UNCHANGED <<online, queue, history, reloads>>

\* Fault: the status is persisted before the item is executed.
CompleteEarly(p) ==
    /\ page[p].stage \in {"sending", "applied"}
    /\ Put(Current(p), "OK", Current(p).retryCount)
    /\ page' = [page EXCEPT ![p].stage = "answered"]
    /\ UNCHANGED <<online, records, history, reloads>>

CompleteItem(p) ==
    /\ page[p].stage = "applied"
    /\ Put(Current(p), "OK", Current(p).retryCount)
    /\ page' = [page EXCEPT ![p].stage = "answered"]
    /\ UNCHANGED <<online, records, history, reloads>>

RemoveItem(p) ==
    /\ page[p].stage = "answered"
    /\ queue' = [queue EXCEPT ![Current(p).id].status = "REMOVED"]
    /\ page' = [page EXCEPT ![p].stage = "next", ![p].todo = @ \ {Current(p)}]
    /\ UNCHANGED <<online, records, history, reloads>>

Unheard(p) ==
    history' = IF page[p].stage = "applied"
               THEN [history EXCEPT ![Current(p).id].unheard = OneMore(@)]
               ELSE history

\* Fault: the loop waits for a failed item instead of leaving it to the next drain.
FailItemAndRetry(p) ==
    LET c == Current(p)
    IN
    /\ page[p].stage \in {"sending", "applied"}
    /\ Put(c, "ERROR", c.retryCount)
    /\ page' = [page EXCEPT ![p].stage = "next"]
    /\ Unheard(p)
    /\ UNCHANGED <<online, records, reloads>>

\* No connection, a timeout, an error of the server, or of the reads that follow; for a
\* local kind, its module cannot be loaded or the browser's storage is full.
FailItem(p) ==
    LET c == Current(p)
    IN
    /\ page[p].stage \in {"sending", "applied"}
    /\ Put(c, "ERROR", c.retryCount + 1)
    /\ page' = [page EXCEPT ![p].stage = "next", ![p].todo = @ \ {c}]
    /\ Unheard(p)
    /\ UNCHANGED <<online, records, reloads>>

\* Only an automatic drain clears the flag when it ends.
EndDrain(p) ==
    /\ page[p].drain # "none" /\ page[p].stage = "next" /\ page[p].todo = {}
    /\ page' = [page EXCEPT ![p].drain = "none",
                            ![p].wasOffline = IF page[p].drain = "auto" THEN FALSE ELSE @]
    /\ UNCHANGED <<online, queue, records, history, reloads>>

\* The page is reloaded, or closed and opened again, at any point.
Reload(p) ==
    /\ reloads < MaxReloads
    /\ reloads' = reloads + 1
    /\ page' = [page EXCEPT ![p] = FreshPage]
    /\ Unheard(p)
    /\ UNCHANGED <<online, queue, records>>

-----------------------------------------------------------------------------
Loop(p) ==
    \/ SkipItem(p) \/ SendItem(p) \/ ExecuteItem(p) \/ CompleteItem(p) \/ RemoveItem(p)
    \/ FailItem(p) \/ EndDrain(p)

Next ==
    \/ GoOffline \/ GoOnline
    \/ \E kind \in Kinds : Enqueue(kind)
    \/ \E p \in Pages : RunEffect(p) \/ Loop(p) \/ ForceSync(p) \/ Reload(p)

Spec == Init /\ [][Next]_vars

\* The event loop of a page runs, and every request is answered or times out
\* (apiClient aborts it).  Nobody has to press "Simdi senkron et".
FairSpec == Spec /\ \A p \in Pages : WF_vars(RunEffect(p)) /\ WF_vars(Loop(p))

-----------------------------------------------------------------------------
(* Properties                                                               *)

TypeOK ==
    /\ online \in BOOLEAN
    /\ queue \in Seq(Item)
    /\ page \in [Pages -> Page]
    /\ records \in Seq(Nat)
    /\ history \in Seq([sent : Nat, unheard : Nat])
    /\ reloads \in Nat

\* Nothing that was queued is dropped before the server has it, whatever is reloaded,
\* and whichever other page works on the same queue.
NothingLost ==
    \A i \in Items : queue[i].status \in {"OK", "REMOVED"} => records[i] > 0

\* What depends on an earlier mutation is never sent before that one was at least tried
\* (listSyncQueueItems sorts; a reload or a second page does not change the order).
TriedInOrder ==
    \A i, j \in Items : i < j /\ history[j].sent > 0 => history[i].sent > 0

\* With one page, a mutation is done twice only because an answer did not arrive.
RepeatsAreExplained ==
    \A i \in Items : records[i] <= 1 + history[i].unheard

\* With one page, an item is sent OFFLINE_SYNC_RETRY_MAX times at most; only a reload
\* in the middle of an attempt is not counted.
AttemptsBounded ==
    \A i \in Items : history[i].sent <= OFFLINE_SYNC_RETRY_MAX + reloads

\* An item that fails again and again does not keep a drain from ending.
DrainEnds == \A p \in Pages : page[p].drain # "none" ~> page[p].drain = "none"

Waiting(i) == i \in Items /\ queue[i].status = "WAITING"

\* OfflineBanner: "Islemler kuyruga alinir -- baglanti gelince senkron olur": once the
\* connection stays, what waits in the queue does not wait for ever.
SyncsWhenConnected ==
    <>[]online => \A i \in 1..MaxItems :
        Waiting(i) ~> ~Waiting(i)
=============================================================================
