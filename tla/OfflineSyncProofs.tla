-------------------------- MODULE OfflineSyncProofs --------------------------
(***************************************************************************)
(* Theorems about the offline queue, for any number of pages, items,       *)
(* attempts and reloads.  What a page keeps between two steps is a private *)
(* copy of the items, so every invariant says how the copies relate to the *)
(* store and to what happened: TypeInv (copies are of items there are, and *)
(* a drain in the middle of an item has one), LossInv and OrderInv for any *)
(* number of pages, RepeatInv and AttemptInv for a single one.             *)
(***************************************************************************)
EXTENDS OfflineSync, SumTheorems, SequenceTheorems, WellFoundedInduction, TLAPS

\* A nonempty set of natural numbers has a least element: listSyncQueueItems has a
\* first item whenever there is one.
LEMMA NatMin ==
    ASSUME NEW T, T \subseteq Nat, T # {}
    PROVE  \E x \in T : \A y \in T : x <= y
<1>1. PICK x \in T : \A y \in T : ~(<<y, x>> \in OpToRel(<, Nat))
  BY WFMin, NatLessThanWellFounded, Zenon
<1>2. ASSUME NEW y \in T, y < x
      PROVE  FALSE
  <2>1. y \in Nat /\ x \in Nat
    OBVIOUS
  <2>2. <<y, x>> \in OpToRel(<, Nat)
    BY <1>2, <2>1, Zenon DEF OpToRel
  <2> QED
    BY <1>1, <2>2
<1> QED
  BY <1>2

\* The drain takes a member of its list, and none of the others is older.
LEMMA FirstIsLeast ==
    ASSUME NEW todo \in SUBSET Copy, todo # {}
    PROVE  FirstOf(todo) \in todo /\ \A d \in todo : FirstOf(todo).id <= d.id
<1> DEFINE ids == {c.id : c \in todo}
<1>1. ids \subseteq Nat /\ ids # {}
  BY DEF Copy
<1>2. PICK n \in ids : \A m \in ids : n <= m
  BY <1>1, NatMin
<1>3. \E c \in todo : \A d \in todo : c.id <= d.id
  BY <1>2
<1> QED
  BY <1>3 DEF FirstOf

LEMMA CounterType ==
    ASSUME NEW n \in Nat
    PROVE  /\ OneMore(n) \in Nat \ {0}
           /\ n <= OneMore(n) /\ OneMore(n) <= n + 1
           /\ n <= MaxCount => OneMore(n) <= MaxCount
           /\ n < MaxCount => OneMore(n) = n + 1
  BY BoundsAssumption DEF OneMore

-----------------------------------------------------------------------------
(* Types                                                                    *)

\* The copies are of items there are, and a drain that is not between two items has
\* one in its hands.
CopiesOfItems ==
    /\ Len(records) = Len(queue) /\ Len(history) = Len(queue)
    /\ \A p \in Pages : \A c \in page[p].todo : c.id \in Items
    /\ \A p \in Pages : page[p].stage # "next" => page[p].todo # {}

TypeInv == TypeOK /\ CopiesOfItems

LEMMA CurrentCopy ==
    ASSUME TypeInv, NEW p \in Pages, page[p].todo # {}
    PROVE  /\ Current(p) \in page[p].todo
           /\ Current(p) \in Copy
           /\ Current(p).id \in Items
           /\ \A d \in page[p].todo : Current(p).id <= d.id
<1>1. page[p].todo \in SUBSET Copy
  BY DEF TypeInv, TypeOK, Page
<1> QED
  BY <1>1, FirstIsLeast DEF Current, TypeInv, CopiesOfItems

LEMMA SeqElements ==
    ASSUME NEW S, NEW s \in Seq(S)
    PROVE  /\ Len(s) \in Nat /\ DOMAIN s = 1 .. Len(s)
           /\ \A i \in DOMAIN s : i \in Nat \ {0} /\ s[i] \in S
OBVIOUS

LEMMA ItemFacts ==
    ASSUME TypeInv
    PROVE  /\ Items = 1 .. Len(queue) /\ Len(queue) \in Nat
           /\ DOMAIN records = Items /\ DOMAIN history = Items
           /\ \A i \in Items : /\ queue[i] \in Item
                               /\ records[i] \in Nat
                               /\ history[i] \in [sent : Nat, unheard : Nat]
<1>1. /\ queue \in Seq(Item) /\ records \in Seq(Nat)
      /\ history \in Seq([sent : Nat, unheard : Nat])
      /\ Len(records) = Len(queue) /\ Len(history) = Len(queue)
  BY DEF TypeInv, TypeOK, CopiesOfItems
<1>2. DOMAIN queue = 1 .. Len(queue) /\ \A i \in DOMAIN queue : queue[i] \in Item
  BY <1>1, SeqElements
<1>3. DOMAIN records = 1 .. Len(records) /\ \A i \in DOMAIN records : records[i] \in Nat
  BY <1>1, SeqElements
<1>4. /\ DOMAIN history = 1 .. Len(history)
      /\ \A i \in DOMAIN history : history[i] \in [sent : Nat, unheard : Nat]
  BY <1>1, SeqElements
<1> QED  BY <1>1, <1>2, <1>3, <1>4 DEF Items

LEMMA SnapshotFacts ==
    ASSUME TypeInv
    PROVE  /\ Snapshot \in SUBSET Copy
           /\ \A c \in Snapshot : /\ c.id \in Items /\ Pending(c.id)
                                  /\ c.status = queue[c.id].status
                                  /\ c.retryCount = queue[c.id].retryCount
           /\ \A i \in Items : Pending(i) => \E c \in Snapshot : c.id = i
<1>1. ASSUME NEW i \in Items, Pending(i)
      PROVE  [id |-> i, status |-> queue[i].status, retryCount |-> queue[i].retryCount] \in Copy
  <2>1. i \in Nat \ {0} /\ queue[i] \in Item
    BY SeqElements DEF TypeInv, TypeOK, Items
  <2> QED  BY <1>1, <2>1 DEF Item, Copy, Pending
<1>2. ASSUME NEW c \in Snapshot
      PROVE  /\ c \in Copy /\ c.id \in Items /\ Pending(c.id)
             /\ c.status = queue[c.id].status /\ c.retryCount = queue[c.id].retryCount
  <2>1. PICK i \in Items : Pending(i) /\ c = [id |-> i, status |-> queue[i].status,
                                             retryCount |-> queue[i].retryCount]
    BY DEF Snapshot
  <2> QED  BY <1>1, <2>1
<1>3. ASSUME NEW i \in Items, Pending(i)
      PROVE  \E c \in Snapshot : c.id = i
  <2> DEFINE c == [id |-> i, status |-> queue[i].status, retryCount |-> queue[i].retryCount]
  <2>1. c \in Snapshot
    BY <1>3 DEF Snapshot
  <2> QED  BY <2>1
<1> QED  BY <1>2, <1>3

\* A step of one page leaves the others as they are.
LEMMA PageEffect ==
    ASSUME TypeInv, NEW p \in Pages, NEW new \in Page, page' = [page EXCEPT ![p] = new]
    PROVE  /\ page' \in [Pages -> Page]
           /\ page'[p] = new
           /\ \A q \in Pages : q # p => page'[q] = page[q]
BY DEF TypeInv, TypeOK

\* Putting a copy into the store touches one item.
LEMMA PutEffect ==
    ASSUME TypeInv, NEW c \in Copy, c.id \in Items, NEW n \in Nat,
           NEW status \in {"WAITING", "SYNCING", "OK", "ERROR", "REMOVED"},
           Put(c, status, n)
    PROVE  /\ queue' \in Seq(Item) /\ Len(queue') = Len(queue) /\ Items' = Items
           /\ queue'[c.id] = [queue[c.id] EXCEPT !.status = status, !.retryCount = n]
           /\ queue'[c.id].status = status /\ queue'[c.id].retryCount = n
           /\ \A i \in Items : i # c.id => queue'[i] = queue[i]
<1>1. queue[c.id] \in Item /\ queue \in Seq(Item)
  BY ItemFacts DEF TypeInv, TypeOK
<1>2. [queue[c.id] EXCEPT !.status = status, !.retryCount = n] \in Item
  BY <1>1 DEF Item
<1>3. queue' = [queue EXCEPT ![c.id] = [queue[c.id] EXCEPT !.status = status, !.retryCount = n]]
  BY <1>1 DEF Put
<1>4. queue' \in Seq(Item) /\ Len(queue') = Len(queue)
  BY <1>1, <1>2, <1>3, ExceptSeq DEF Items
<1>5. Items' = Items
  BY <1>3 DEF Items
<1>6. /\ queue'[c.id] = [queue[c.id] EXCEPT !.status = status, !.retryCount = n]
      /\ \A i \in Items : i # c.id => queue'[i] = queue[i]
  BY <1>3 DEF Items
<1> QED  BY <1>1, <1>4, <1>5, <1>6 DEF Item

LEMMA PageFacts ==
    ASSUME TypeInv, NEW p \in Pages
    PROVE  /\ page[p] \in Page
           /\ page[p].todo \in SUBSET Copy
           /\ \A c \in page[p].todo : c.id \in Items
           /\ page[p].stage # "next" => page[p].todo # {}
BY DEF TypeInv, TypeOK, CopiesOfItems, Page

\* The types after a step that touches one page and adds no item.
LEMMA StepTypes ==
    ASSUME TypeInv, NEW p \in Pages, NEW new \in Page, page' = [page EXCEPT ![p] = new],
           \A c \in new.todo : c.id \in Items,
           new.stage # "next" => new.todo # {},
           queue' \in Seq(Item), Len(queue') = Len(queue),
           records' \in Seq(Nat), Len(records') = Len(records),
           history' \in Seq([sent : Nat, unheard : Nat]), Len(history') = Len(history),
           online' \in BOOLEAN, reloads' \in Nat
    PROVE  TypeInv'
<1>1. Items' = Items
  BY DEF Items, TypeInv, TypeOK
<1> QED  BY <1>1, PageEffect DEF TypeInv, TypeOK, CopiesOfItems

LEMMA InitTypes == Init => TypeInv
<1> SUFFICES ASSUME Init PROVE TypeInv
  OBVIOUS
<1>1. FreshPage \in Page
  BY DEF FreshPage, Page
<1>2. TypeOK
  BY <1>1 DEF Init, TypeOK
<1>3. CopiesOfItems
  BY <1>1 DEF Init, CopiesOfItems, FreshPage
<1> QED  BY <1>2, <1>3 DEF TypeInv

LEMMA ConnectionTypes ==
    ASSUME TypeInv, GoOffline \/ GoOnline
    PROVE  /\ TypeInv'
           /\ UNCHANGED <<queue, records, history, reloads>>
           /\ \A p \in Pages : /\ page'[p].todo = page[p].todo
                               /\ page'[p].stage = page[p].stage
                               /\ page'[p].drain = page[p].drain
<1>1. /\ UNCHANGED <<queue, records, history, reloads>> /\ online' \in BOOLEAN
      /\ page' \in [Pages -> Page]
      /\ \A p \in Pages : /\ page'[p].todo = page[p].todo
                          /\ page'[p].stage = page[p].stage
                          /\ page'[p].drain = page[p].drain
  <2>1. CASE GoOffline
    BY <2>1 DEF GoOffline, TypeInv, TypeOK, Page
  <2>2. CASE GoOnline
    BY <2>2 DEF GoOnline, TypeInv, TypeOK, Page
  <2> QED  BY <2>1, <2>2
<1> QED  BY <1>1 DEF TypeInv, TypeOK, CopiesOfItems, Items

LEMMA EnqueueTypes ==
    ASSUME TypeInv, NEW kind \in Kinds, Enqueue(kind)
    PROVE  /\ TypeInv'
           /\ UNCHANGED <<page, reloads>>
           /\ Items' = Items \cup {Len(queue) + 1} /\ Len(queue) + 1 \notin Items
           /\ \A i \in Items : /\ queue'[i] = queue[i]
                               /\ records'[i] = records[i]
                               /\ history'[i] = history[i]
           /\ LET n == Len(queue) + 1
              IN  /\ queue'[n] = [kind |-> kind, status |-> "WAITING", retryCount |-> 0]
                  /\ records'[n] = 0
                  /\ history'[n] = [sent |-> 0, unheard |-> 0]
<1> DEFINE item == [kind |-> kind, status |-> "WAITING", retryCount |-> 0]
           n    == Len(queue) + 1
<1>1. item \in Item /\ [sent |-> 0, unheard |-> 0] \in [sent : Nat, unheard : Nat]
  BY KindsAssumption DEF Item
<1>2. /\ queue \in Seq(Item) /\ records \in Seq(Nat)
      /\ history \in Seq([sent : Nat, unheard : Nat])
      /\ Len(records) = Len(queue) /\ Len(history) = Len(queue)
  BY DEF TypeInv, TypeOK, CopiesOfItems
<1>3. /\ queue' \in Seq(Item) /\ Len(queue') = n /\ queue'[n] = item
      /\ \A i \in 1 .. Len(queue) : queue'[i] = queue[i]
  <2> HIDE DEF item
  <2> QED  BY <1>1, <1>2, AppendProperties DEF Enqueue, item
<1>4. /\ records' \in Seq(Nat) /\ Len(records') = n /\ records'[n] = 0
      /\ \A i \in 1 .. Len(queue) : records'[i] = records[i]
  BY <1>2, AppendProperties DEF Enqueue
<1>5. /\ history' \in Seq([sent : Nat, unheard : Nat]) /\ Len(history') = n
      /\ history'[n] = [sent |-> 0, unheard |-> 0]
      /\ \A i \in 1 .. Len(queue) : history'[i] = history[i]
  BY <1>1, <1>2, AppendProperties DEF Enqueue
<1>6. Items = 1 .. Len(queue) /\ Items' = 1 .. n /\ Len(queue) \in Nat
  BY <1>2, <1>3, SeqElements DEF Items
<1>7. TypeInv'
  BY <1>3, <1>4, <1>5, <1>6 DEF Enqueue, TypeInv, TypeOK, CopiesOfItems
<1> QED  BY <1>3, <1>4, <1>5, <1>6, <1>7 DEF Enqueue

\* The page takes a fresh snapshot, goes on with what it has, or drops everything.
LEMMA RunEffectTypes ==
    ASSUME TypeInv, NEW p \in Pages, RunEffect(p)
    PROVE  /\ TypeInv'
           /\ UNCHANGED <<queue, records, history, reloads>>
           /\ \A q \in Pages : q # p => page'[q] = page[q]
           /\ \/ page'[p].todo = Snapshot /\ page'[p].stage = "next"
              \/ page'[p].todo = page[p].todo /\ page'[p].stage = page[p].stage
<1> DEFINE new == IF page[p].drain = "none"
                  THEN [page[p] EXCEPT !.due = FALSE, !.drain = "auto", !.todo = Snapshot,
                                       !.stage = "next"]
                  ELSE [page[p] EXCEPT !.due = FALSE, !.wasOffline = FALSE]
<1>1. page' = [page EXCEPT ![p] = new] /\ UNCHANGED <<online, queue, records, history, reloads>>
  BY DEF RunEffect, TypeInv, TypeOK
<1>2. /\ new \in Page
      /\ \/ new.todo = Snapshot /\ new.stage = "next"
         \/ new.todo = page[p].todo /\ new.stage = page[p].stage
  BY PageFacts, SnapshotFacts DEF Page
<1>3. (\A c \in new.todo : c.id \in Items) /\ (new.stage # "next" => new.todo # {})
  <2> HIDE DEF new
  <2> QED  BY <1>2, SnapshotFacts, PageFacts
<1> HIDE DEF new
<1>4. TypeInv'
  BY <1>1, <1>2, <1>3, StepTypes DEF TypeInv, TypeOK
<1> QED  BY <1>1, <1>2, <1>4, PageEffect

LEMMA ForceSyncTypes ==
    ASSUME TypeInv, NEW p \in Pages, ForceSync(p)
    PROVE  /\ TypeInv'
           /\ UNCHANGED <<queue, records, history, reloads>>
           /\ \A q \in Pages : q # p => page'[q] = page[q]
           /\ page'[p].todo = Snapshot /\ page'[p].stage = "next"
<1> DEFINE new == [page[p] EXCEPT !.drain = "manual", !.todo = Snapshot, !.stage = "next"]
<1>1. page' = [page EXCEPT ![p] = new] /\ UNCHANGED <<online, queue, records, history, reloads>>
  BY DEF ForceSync, TypeInv, TypeOK
<1>2. new \in Page /\ new.todo = Snapshot /\ new.stage = "next"
  BY PageFacts, SnapshotFacts DEF Page
<1>3. \A c \in new.todo : c.id \in Items
  <2> HIDE DEF new
  <2> QED  BY <1>2, SnapshotFacts
<1> HIDE DEF new
<1>4. TypeInv'
  BY <1>1, <1>2, <1>3, StepTypes DEF TypeInv, TypeOK
<1> QED  BY <1>1, <1>2, <1>4, PageEffect

LEMMA EndDrainTypes ==
    ASSUME TypeInv, NEW p \in Pages, EndDrain(p)
    PROVE  /\ TypeInv'
           /\ UNCHANGED <<queue, records, history, reloads>>
           /\ \A q \in Pages : q # p => page'[q] = page[q]
           /\ page'[p].todo = {} /\ page'[p].stage = "next"
<1> DEFINE new == [page[p] EXCEPT !.drain = "none",
                                  !.wasOffline = IF page[p].drain = "auto" THEN FALSE ELSE @]
<1>1. /\ page' = [page EXCEPT ![p] = new]
      /\ UNCHANGED <<online, queue, records, history, reloads>>
      /\ page[p].stage = "next" /\ page[p].todo = {}
  BY DEF EndDrain, TypeInv, TypeOK
<1>2. new \in Page /\ new.todo = {} /\ new.stage = "next"
  BY <1>1, PageFacts DEF Page
<1> HIDE DEF new
<1>3. TypeInv'
  BY <1>1, <1>2, StepTypes DEF TypeInv, TypeOK
<1> QED  BY <1>1, <1>2, <1>3, PageEffect

LEMMA UnheardEffect ==
    ASSUME TypeInv, NEW p \in Pages, Unheard(p)
    PROVE  /\ history' \in Seq([sent : Nat, unheard : Nat]) /\ Len(history') = Len(history)
           /\ \A i \in Items : /\ history'[i].sent = history[i].sent
                               /\ history'[i].unheard \in Nat
                               /\ history[i].unheard <= history'[i].unheard
           /\ page[p].stage = "applied" =>
                 /\ history'[Current(p).id].unheard = OneMore(history[Current(p).id].unheard)
                 /\ \A i \in Items : i # Current(p).id => history'[i] = history[i]
           /\ page[p].stage # "applied" => history' = history
<1>1. /\ history \in Seq([sent : Nat, unheard : Nat]) /\ 1 .. Len(history) = Items
      /\ \A i \in Items : history[i] \in [sent : Nat, unheard : Nat]
  BY ItemFacts DEF TypeInv, TypeOK, CopiesOfItems
<1>2. CASE page[p].stage = "applied"
  <2> DEFINE i == Current(p).id
             h == [history[i] EXCEPT !.unheard = OneMore(@)]
  <2>1. i \in Items
    BY <1>2, PageFacts, CurrentCopy
  <2>2. /\ h \in [sent : Nat, unheard : Nat]
        /\ h.sent = history[i].sent /\ h.unheard = OneMore(history[i].unheard)
        /\ history[i].unheard <= h.unheard
    BY <1>1, <2>1, CounterType
  <2>3. history' = [history EXCEPT ![i] = h]
    BY <1>1, <1>2, <2>1 DEF Unheard
  <2> HIDE DEF h, i
  <2>4. /\ history' \in Seq([sent : Nat, unheard : Nat]) /\ Len(history') = Len(history)
        /\ \A j \in Items : history'[j] = IF j = i THEN h ELSE history[j]
    BY <1>1, <2>1, <2>2, <2>3, ExceptSeq
  <2>5. \A j \in Items : /\ history'[j].sent = history[j].sent
                          /\ history'[j].unheard \in Nat
                          /\ history[j].unheard <= history'[j].unheard
    <3>1. h.unheard \in Nat /\ \A j \in Items : history[j].unheard \in Nat
      BY <1>1, <2>2
    <3> QED  BY <2>2, <2>4, <3>1
  <2> QED  BY <1>2, <2>1, <2>2, <2>4, <2>5 DEF i
<1>3. CASE page[p].stage # "applied"
  BY <1>1, <1>3 DEF Unheard, TypeInv, TypeOK
<1> QED  BY <1>2, <1>3

LEMMA ReloadTypes ==
    ASSUME TypeInv, NEW p \in Pages, Reload(p)
    PROVE  /\ TypeInv'
           /\ UNCHANGED <<queue, records>> /\ Unheard(p) /\ reloads' = reloads + 1
           /\ \A q \in Pages : q # p => page'[q] = page[q]
           /\ page'[p].todo = {} /\ page'[p].stage = "next"
<1>1. /\ page' = [page EXCEPT ![p] = FreshPage] /\ Unheard(p)
      /\ UNCHANGED <<online, queue, records>> /\ reloads' = reloads + 1
  BY DEF Reload
<1>2. FreshPage \in Page /\ FreshPage.todo = {} /\ FreshPage.stage = "next"
  BY DEF FreshPage, Page
<1>3. TypeInv'
  <2>1. /\ history' \in Seq([sent : Nat, unheard : Nat]) /\ Len(history') = Len(history)
        /\ queue' \in Seq(Item) /\ records' \in Seq(Nat)
        /\ online' \in BOOLEAN /\ reloads' \in Nat
    BY <1>1, UnheardEffect DEF TypeInv, TypeOK
  <2> QED  BY <1>1, <1>2, <2>1, StepTypes
<1> QED  BY <1>1, <1>2, <1>3, PageEffect

LEMMA SkipItemTypes ==
    ASSUME TypeInv, NEW p \in Pages, SkipItem(p)
    PROVE  /\ TypeInv'
           /\ UNCHANGED <<queue, records, history, reloads>>
           /\ \A q \in Pages : q # p => page'[q] = page[q]
           /\ page'[p].todo = page[p].todo \ {Current(p)} /\ page'[p].stage = "next"
           /\ Current(p) \in page[p].todo /\ Exhausted(Current(p))
<1> DEFINE new == [page[p] EXCEPT !.todo = @ \ {Current(p)}]
<1>1. /\ page' = [page EXCEPT ![p] = new]
      /\ UNCHANGED <<online, queue, records, history, reloads>>
      /\ page[p].stage = "next" /\ page[p].todo # {} /\ Exhausted(Current(p))
  BY DEF SkipItem, AtNextItem, TypeInv, TypeOK
<1>2. /\ new \in Page /\ new.todo = page[p].todo \ {Current(p)} /\ new.stage = "next"
      /\ \A c \in new.todo : c.id \in Items
  BY <1>1, PageFacts DEF Page
<1> HIDE DEF new
<1>3. TypeInv'
  BY <1>1, <1>2, StepTypes DEF TypeInv, TypeOK
<1> QED  BY <1>1, <1>2, <1>3, PageEffect, CurrentCopy

LEMMA SendItemTypes ==
    ASSUME TypeInv, NEW p \in Pages, SendItem(p)
    PROVE  /\ TypeInv'
           /\ UNCHANGED <<records, reloads>>
           /\ \A q \in Pages : q # p => page'[q] = page[q]
           /\ page'[p].todo = page[p].todo /\ page'[p].stage = "sending"
           /\ page[p].todo # {} /\ page[p].stage = "next" /\ ~Exhausted(Current(p))
           /\ Put(Current(p), "SYNCING", Current(p).retryCount)
           /\ LET i == Current(p).id
              IN  /\ history'[i].sent = OneMore(history[i].sent)
                  /\ history'[i].unheard = history[i].unheard
           /\ \A i \in Items : i # Current(p).id => history'[i] = history[i]
<1> DEFINE new == [page[p] EXCEPT !.stage = "sending"]
           c   == Current(p)
           h   == [history[c.id] EXCEPT !.sent = OneMore(@)]
<1>1. /\ page' = [page EXCEPT ![p] = new] /\ UNCHANGED <<online, records, reloads>>
      /\ page[p].todo # {} /\ page[p].stage = "next" /\ ~Exhausted(c)
      /\ Put(c, "SYNCING", c.retryCount)
      /\ history' = [history EXCEPT ![c.id].sent = OneMore(@)]
  BY DEF SendItem, AtNextItem, TypeInv, TypeOK
<1>2. /\ new \in Page /\ new.todo = page[p].todo /\ new.stage = "sending"
      /\ \A d \in new.todo : d.id \in Items
  BY <1>1, PageFacts DEF Page
<1>3. /\ history \in Seq([sent : Nat, unheard : Nat]) /\ 1 .. Len(history) = Items
      /\ \A i \in Items : history[i] \in [sent : Nat, unheard : Nat]
  BY ItemFacts DEF TypeInv, TypeOK, CopiesOfItems
<1>4. c \in Copy /\ c.id \in Items /\ c.retryCount \in Nat
  BY <1>1, CurrentCopy DEF Copy
<1>5. /\ h \in [sent : Nat, unheard : Nat] /\ h.sent = OneMore(history[c.id].sent)
      /\ h.unheard = history[c.id].unheard
  BY <1>3, <1>4, CounterType
<1>6. history' = [history EXCEPT ![c.id] = h]
  BY <1>1, <1>3, <1>4
<1> HIDE DEF new, h, c
<1>7. /\ history' \in Seq([sent : Nat, unheard : Nat]) /\ Len(history') = Len(history)
      /\ \A j \in Items : history'[j] = IF j = c.id THEN h ELSE history[j]
  BY <1>3, <1>4, <1>5, <1>6, ExceptSeq
<1>8. queue' \in Seq(Item) /\ Len(queue') = Len(queue)
  BY <1>1, <1>4, PutEffect
<1>9. TypeInv'
  BY <1>1, <1>2, <1>7, <1>8, StepTypes DEF TypeInv, TypeOK
<1> QED  BY <1>1, <1>2, <1>4, <1>5, <1>7, <1>9, PageEffect DEF c

LEMMA ExecuteItemTypes ==
    ASSUME TypeInv, NEW p \in Pages, ExecuteItem(p)
    PROVE  /\ TypeInv'
           /\ UNCHANGED <<queue, history, reloads>>
           /\ \A q \in Pages : q # p => page'[q] = page[q]
           /\ page'[p].todo = page[p].todo /\ page'[p].stage = "applied"
           /\ page[p].todo # {} /\ page[p].stage = "sending"
           /\ records'[Current(p).id] \in {1, OneMore(records[Current(p).id])}
           /\ \A i \in Items : i # Current(p).id => records'[i] = records[i]
<1> DEFINE new == [page[p] EXCEPT !.stage = "applied"]
           i   == Current(p).id
           n   == IF queue[i].kind \in NewRecordKinds THEN OneMore(records[i]) ELSE 1
<1>1. /\ page' = [page EXCEPT ![p] = new] /\ UNCHANGED <<online, queue, history, reloads>>
      /\ page[p].stage = "sending"
      /\ records' = [records EXCEPT ![i] = n]
  BY DEF ExecuteItem, TypeInv, TypeOK
<1>2. /\ new \in Page /\ new.todo = page[p].todo /\ new.stage = "applied"
      /\ new.todo # {} /\ \A d \in new.todo : d.id \in Items
  BY <1>1, PageFacts DEF Page
<1>3. records \in Seq(Nat) /\ 1 .. Len(records) = Items /\ \A j \in Items : records[j] \in Nat
  BY ItemFacts DEF TypeInv, TypeOK, CopiesOfItems
<1>4. i \in Items
  BY <1>2, CurrentCopy
<1>5. n \in Nat /\ n \in {1, OneMore(records[i])}
  BY <1>3, <1>4, CounterType
<1> HIDE DEF new, i, n
<1>6. /\ records' \in Seq(Nat) /\ Len(records') = Len(records)
      /\ \A j \in Items : records'[j] = IF j = i THEN n ELSE records[j]
  BY <1>1, <1>3, <1>4, <1>5, ExceptSeq
<1>7. TypeInv'
  BY <1>1, <1>2, <1>6, StepTypes DEF TypeInv, TypeOK
<1> QED  BY <1>1, <1>2, <1>4, <1>5, <1>6, <1>7, PageEffect DEF i

LEMMA CompleteItemTypes ==
    ASSUME TypeInv, NEW p \in Pages, CompleteItem(p)
    PROVE  /\ TypeInv'
           /\ UNCHANGED <<records, history, reloads>>
           /\ \A q \in Pages : q # p => page'[q] = page[q]
           /\ page'[p].todo = page[p].todo /\ page'[p].stage = "answered"
           /\ page[p].todo # {} /\ page[p].stage = "applied"
           /\ Put(Current(p), "OK", Current(p).retryCount)
<1> DEFINE new == [page[p] EXCEPT !.stage = "answered"]
           c   == Current(p)
<1>1. /\ page' = [page EXCEPT ![p] = new] /\ UNCHANGED <<online, records, history, reloads>>
      /\ page[p].stage = "applied" /\ Put(c, "OK", c.retryCount)
  BY DEF CompleteItem, TypeInv, TypeOK
<1>2. /\ new \in Page /\ new.todo = page[p].todo /\ new.stage = "answered"
      /\ new.todo # {} /\ \A d \in new.todo : d.id \in Items
  BY <1>1, PageFacts DEF Page
<1>3. c \in Copy /\ c.id \in Items /\ c.retryCount \in Nat
  BY <1>2, CurrentCopy DEF Copy
<1> HIDE DEF new
<1>4. queue' \in Seq(Item) /\ Len(queue') = Len(queue)
  BY <1>1, <1>3, PutEffect
<1>5. TypeInv'
  BY <1>1, <1>2, <1>4, StepTypes DEF TypeInv, TypeOK
<1> QED  BY <1>1, <1>2, <1>5, PageEffect

LEMMA RemoveItemTypes ==
    ASSUME TypeInv, NEW p \in Pages, RemoveItem(p)
    PROVE  /\ TypeInv'
           /\ UNCHANGED <<records, history, reloads>>
           /\ \A q \in Pages : q # p => page'[q] = page[q]
           /\ page'[p].todo = page[p].todo \ {Current(p)} /\ page'[p].stage = "next"
           /\ page[p].todo # {} /\ page[p].stage = "answered"
           /\ queue'[Current(p).id].status = "REMOVED"
           /\ queue'[Current(p).id].retryCount = queue[Current(p).id].retryCount
           /\ \A i \in Items : i # Current(p).id => queue'[i] = queue[i]
<1> DEFINE new  == [page[p] EXCEPT !.stage = "next", !.todo = @ \ {Current(p)}]
           i    == Current(p).id
           item == [queue[i] EXCEPT !.status = "REMOVED"]
<1>1. /\ page' = [page EXCEPT ![p] = new] /\ UNCHANGED <<online, records, history, reloads>>
      /\ page[p].stage = "answered" /\ queue' = [queue EXCEPT ![i] = item]
  BY DEF RemoveItem, TypeInv, TypeOK
<1>2. /\ new \in Page /\ new.todo = page[p].todo \ {Current(p)} /\ new.stage = "next"
      /\ page[p].todo # {} /\ \A d \in new.todo : d.id \in Items
  BY <1>1, PageFacts DEF Page
<1>3. i \in Items
  BY <1>2, CurrentCopy
<1>4. queue \in Seq(Item) /\ 1 .. Len(queue) = Items /\ queue[i] \in Item
  BY <1>3, ItemFacts DEF TypeInv, TypeOK
<1>5. /\ item \in Item /\ item.status = "REMOVED"
      /\ item.retryCount = queue[i].retryCount
  BY <1>4 DEF Item
<1> HIDE DEF new, i, item
<1>6. /\ queue' \in Seq(Item) /\ Len(queue') = Len(queue)
      /\ \A j \in Items : queue'[j] = IF j = i THEN item ELSE queue[j]
  BY <1>1, <1>3, <1>4, <1>5, ExceptSeq
<1>7. TypeInv'
  BY <1>1, <1>2, <1>6, StepTypes DEF TypeInv, TypeOK
<1> QED  BY <1>1, <1>2, <1>3, <1>5, <1>6, <1>7, PageEffect DEF i

LEMMA FailItemTypes ==
    ASSUME TypeInv, NEW p \in Pages, FailItem(p)
    PROVE  /\ TypeInv'
           /\ UNCHANGED <<records, reloads>> /\ Unheard(p)
           /\ \A q \in Pages : q # p => page'[q] = page[q]
           /\ page'[p].todo = page[p].todo \ {Current(p)} /\ page'[p].stage = "next"
           /\ page[p].todo # {} /\ page[p].stage \in {"sending", "applied"}
           /\ Put(Current(p), "ERROR", Current(p).retryCount + 1)
<1> DEFINE new == [page[p] EXCEPT !.stage = "next", !.todo = @ \ {Current(p)}]
           c   == Current(p)
<1>1. /\ page' = [page EXCEPT ![p] = new] /\ UNCHANGED <<online, records, reloads>>
      /\ page[p].stage \in {"sending", "applied"} /\ Unheard(p)
      /\ Put(c, "ERROR", c.retryCount + 1)
  BY DEF FailItem, TypeInv, TypeOK
<1>2. /\ new \in Page /\ new.todo = page[p].todo \ {c} /\ new.stage = "next"
      /\ page[p].todo # {} /\ \A d \in new.todo : d.id \in Items
  BY <1>1, PageFacts DEF Page
<1>3. c \in Copy /\ c.id \in Items /\ c.retryCount + 1 \in Nat
  BY <1>2, CurrentCopy DEF Copy
<1> HIDE DEF new
<1>4. queue' \in Seq(Item) /\ Len(queue') = Len(queue)
  BY <1>1, <1>3, PutEffect
<1>5. history' \in Seq([sent : Nat, unheard : Nat]) /\ Len(history') = Len(history)
  BY <1>1, UnheardEffect
<1>6. TypeInv'
  BY <1>1, <1>2, <1>4, <1>5, StepTypes DEF TypeInv, TypeOK
<1> QED  BY <1>1, <1>2, <1>6, PageEffect

LEMMA NextTypes == TypeInv /\ [Next]_vars => TypeInv'
<1> SUFFICES ASSUME TypeInv, [Next]_vars PROVE TypeInv'
  OBVIOUS
<1>1. CASE UNCHANGED vars
  BY <1>1 DEF vars, TypeInv, TypeOK, CopiesOfItems, Items
<1>2. CASE GoOffline \/ GoOnline
  BY <1>2, ConnectionTypes
<1>3. CASE \E kind \in Kinds : Enqueue(kind)
  BY <1>3, EnqueueTypes
<1>4. ASSUME NEW p \in Pages, RunEffect(p) \/ Loop(p) \/ ForceSync(p) \/ Reload(p)
      PROVE  TypeInv'
  BY <1>4, RunEffectTypes, ForceSyncTypes, ReloadTypes, SkipItemTypes, SendItemTypes,
     ExecuteItemTypes, CompleteItemTypes, RemoveItemTypes, FailItemTypes, EndDrainTypes
     DEF Loop
<1> QED  BY <1>1, <1>2, <1>3, <1>4 DEF Next

\* The store, the pages and the counters keep their shapes: a page works on copies of
\* items that exist, whatever the other pages do to them (updateSyncQueueItem, the
\* drain loop of offlineSyncEngine).
THEOREM TypeCorrect == Spec => []TypeOK
<1>1. TypeInv => TypeOK
  BY DEF TypeInv
<1> QED  BY InitTypes, NextTypes, <1>1, PTL DEF Spec

\* What a page works on is settled by what is left of its snapshot.
LEMMA CurrentStays ==
    ASSUME NEW p \in Pages, page'[p].todo = page[p].todo
    PROVE  Current(p)' = Current(p)
BY DEF Current

-----------------------------------------------------------------------------
(* Nothing is lost, with any number of pages.                               *)

\* An item is only marked as done by a page that has seen it executed.
AppliedIsRecorded ==
    \A p \in Pages : page[p].stage \in {"applied", "answered"} => records[Current(p).id] > 0

LossInv == NothingLost /\ AppliedIsRecorded

LEMMA InitLoss == Init => LossInv
BY DEF Init, LossInv, NothingLost, AppliedIsRecorded, FreshPage, Items

\* A step of one page that forgets no record and marks only what is recorded.
LEMMA LossKept ==
    ASSUME TypeInv, LossInv, NEW p \in Pages,
           \A q \in Pages : q # p => page'[q] = page[q],
           Items' = Items,
           \A i \in Items : records[i] > 0 => records'[i] > 0,
           page'[p].stage \in {"applied", "answered"} => records'[Current(p)'.id] > 0,
           \A i \in Items : queue'[i].status \in {"OK", "REMOVED"} =>
               queue[i].status \in {"OK", "REMOVED"} \/ records'[i] > 0
    PROVE  LossInv'
<1>1. NothingLost'
  BY DEF LossInv, NothingLost
<1>2. ASSUME NEW q \in Pages, page'[q].stage \in {"applied", "answered"}
      PROVE  records'[Current(q)'.id] > 0
  <2>1. CASE q # p
    <3>1. Current(q)' = Current(q) /\ page[q].stage = page'[q].stage
      BY <2>1, CurrentStays
    <3>2. Current(q).id \in Items /\ records[Current(q).id] > 0
      BY <1>2, <3>1, PageFacts, CurrentCopy DEF LossInv, AppliedIsRecorded
    <3> QED  BY <3>1, <3>2
  <2> QED  BY <1>2, <2>1
<1> QED  BY <1>1, <1>2 DEF LossInv, AppliedIsRecorded

LEMMA LoopLoss ==
    ASSUME TypeInv, LossInv, NEW p \in Pages, Loop(p)
    PROVE  LossInv'
<1>1. CASE SkipItem(p)
  BY <1>1, SkipItemTypes, LossKept DEF Items
<1>2. CASE SendItem(p)
  <2>1. Current(p) \in Copy /\ Current(p).id \in Items /\ Current(p).retryCount \in Nat
    BY <1>2, SendItemTypes, CurrentCopy DEF Copy
  <2>2. Put(Current(p), "SYNCING", Current(p).retryCount)
    BY <1>2, SendItemTypes
  <2>3. /\ Items' = Items /\ queue'[Current(p).id].status = "SYNCING"
        /\ \A i \in Items : i # Current(p).id => queue'[i] = queue[i]
    BY <2>1, <2>2, PutEffect
  <2> QED  BY <1>2, <2>3, SendItemTypes, LossKept
<1>3. CASE ExecuteItem(p)
  <2>1. Current(p).id \in Items /\ Current(p)' = Current(p)
    BY <1>3, ExecuteItemTypes, CurrentCopy, CurrentStays
  <2>2. \A i \in Items : records[i] \in Nat
    BY ItemFacts
  <2>3. records'[Current(p).id] > 0
    BY <1>3, <2>1, <2>2, ExecuteItemTypes, CounterType
  <2>4. \A i \in Items : records[i] > 0 => records'[i] > 0
    BY <1>3, <2>3, ExecuteItemTypes
  <2> QED  BY <1>3, <2>1, <2>3, <2>4, ExecuteItemTypes, LossKept DEF Items
<1>4. CASE CompleteItem(p)
  <2>1. /\ Current(p) \in Copy /\ Current(p).id \in Items /\ Current(p).retryCount \in Nat
        /\ Current(p)' = Current(p)
    BY <1>4, CompleteItemTypes, CurrentCopy, CurrentStays DEF Copy
  <2>2. records[Current(p).id] > 0
    BY <1>4, CompleteItemTypes DEF LossInv, AppliedIsRecorded
  <2>3. Put(Current(p), "OK", Current(p).retryCount)
    BY <1>4, CompleteItemTypes
  <2>4. /\ Items' = Items
        /\ \A i \in Items : i # Current(p).id => queue'[i] = queue[i]
    BY <2>1, <2>3, PutEffect
  <2> QED  BY <1>4, <2>1, <2>2, <2>4, CompleteItemTypes, LossKept
<1>5. CASE RemoveItem(p)
  <2>1. Current(p).id \in Items /\ records[Current(p).id] > 0
    BY <1>5, RemoveItemTypes, CurrentCopy DEF LossInv, AppliedIsRecorded
  <2>2. Items' = Items
    BY <1>5 DEF RemoveItem, Items, TypeInv, TypeOK
  <2> QED  BY <1>5, <2>1, <2>2, RemoveItemTypes, LossKept
<1>6. CASE FailItem(p)
  <2>1. Current(p) \in Copy /\ Current(p).id \in Items /\ Current(p).retryCount + 1 \in Nat
    BY <1>6, FailItemTypes, CurrentCopy DEF Copy
  <2>2. Put(Current(p), "ERROR", Current(p).retryCount + 1)
    BY <1>6, FailItemTypes
  <2>3. /\ Items' = Items /\ queue'[Current(p).id].status = "ERROR"
        /\ \A i \in Items : i # Current(p).id => queue'[i] = queue[i]
    BY <2>1, <2>2, PutEffect
  <2> QED  BY <1>6, <2>3, FailItemTypes, LossKept
<1>7. CASE EndDrain(p)
  BY <1>7, EndDrainTypes, LossKept DEF Items
<1> QED  BY <1>1, <1>2, <1>3, <1>4, <1>5, <1>6, <1>7 DEF Loop

LEMMA NextLoss == TypeInv /\ LossInv /\ [Next]_vars => LossInv'
<1> SUFFICES ASSUME TypeInv, LossInv, [Next]_vars PROVE LossInv'
  OBVIOUS
<1>1. CASE UNCHANGED vars
  BY <1>1 DEF vars, LossInv, NothingLost, AppliedIsRecorded, Items, Current
<1>2. CASE GoOffline \/ GoOnline
  BY <1>2, ConnectionTypes DEF LossInv, NothingLost, AppliedIsRecorded, Items, Current
<1>3. ASSUME NEW kind \in Kinds, Enqueue(kind)
      PROVE  LossInv'
  <2>1. NothingLost'
    <3>1. queue'[Len(queue) + 1].status = "WAITING" /\ Items' = Items \cup {Len(queue) + 1}
      <4>1. /\ queue'[Len(queue) + 1] = [kind |-> kind, status |-> "WAITING", retryCount |-> 0]
            /\ Items' = Items \cup {Len(queue) + 1}
        BY <1>3, EnqueueTypes, Zenon
      <4> QED  BY <4>1
    <3>2. \A i \in Items : queue'[i] = queue[i] /\ records'[i] = records[i]
      BY <1>3, EnqueueTypes
    <3> QED  BY <3>1, <3>2 DEF LossInv, NothingLost
  <2>2. ASSUME NEW p \in Pages, page'[p].stage \in {"applied", "answered"}
        PROVE  records'[Current(p)'.id] > 0
    <3>1. page' = page
      BY <1>3, EnqueueTypes
    <3>2. Current(p)' = Current(p) /\ Current(p).id \in Items /\ records[Current(p).id] > 0
      BY <2>2, <3>1, PageFacts, CurrentCopy, CurrentStays DEF LossInv, AppliedIsRecorded
    <3> QED  BY <1>3, <3>2, EnqueueTypes
  <2> QED  BY <2>1, <2>2 DEF LossInv, AppliedIsRecorded
<1>4. ASSUME NEW p \in Pages, RunEffect(p)
      PROVE  LossInv'
  <2>1. page'[p].todo = page[p].todo => Current(p)' = Current(p)
    BY CurrentStays
  <2> QED  BY <1>4, <2>1, RunEffectTypes, LossKept DEF Items, LossInv, AppliedIsRecorded
<1>5. ASSUME NEW p \in Pages, ForceSync(p)
      PROVE  LossInv'
  BY <1>5, ForceSyncTypes, LossKept DEF Items
<1>6. ASSUME NEW p \in Pages, Reload(p)
      PROVE  LossInv'
  BY <1>6, ReloadTypes, LossKept DEF Items
<1> QED  BY <1>1, <1>2, <1>3, <1>4, <1>5, <1>6, LoopLoss DEF Next

\* However many pages drain the queue with old copies, and wherever they are reloaded,
\* an item leaves the queue only after the server has executed it.
THEOREM QueueLosesNothing == Spec => []NothingLost
<1>1. LossInv => NothingLost
  BY DEF LossInv
<1> QED  BY InitTypes, InitLoss, NextTypes, NextLoss, <1>1, PTL DEF Spec

-----------------------------------------------------------------------------
(* First attempts keep the order of the queue, with any number of pages.    *)

Sent(i) == history[i].sent > 0

OldItemsWereSent == \A i \in Items : queue[i].status # "WAITING" => Sent(i)

OldCopiesWereSent ==
    \A p \in Pages : \A c \in page[p].todo : c.status # "WAITING" => Sent(c.id)

InFlightWasSent == \A p \in Pages : page[p].stage # "next" => Sent(Current(p).id)

\* What is older than an item of a snapshot is in the snapshot too, or was sent.
SnapshotsSkipNothing ==
    \A p \in Pages : \A c \in page[p].todo, i \in Items :
        i < c.id => Sent(i) \/ \E d \in page[p].todo : d.id = i

OrderInv ==
    /\ TriedInOrder
    /\ OldItemsWereSent /\ OldCopiesWereSent /\ InFlightWasSent /\ SnapshotsSkipNothing

LEMMA InitOrder == Init => OrderInv
BY DEF Init, OrderInv, TriedInOrder, OldItemsWereSent, OldCopiesWereSent, InFlightWasSent,
       SnapshotsSkipNothing, FreshPage, Items

\* A step of one page that forgets no attempt.  What is asked of the page itself is
\* that its new list takes over from the old one, or is a new snapshot, or is empty.
LEMMA OrderKept ==
    ASSUME TypeInv, OrderInv, NEW p \in Pages,
           \A q \in Pages : q # p => page'[q] = page[q],
           Items' = Items,
           \A i \in Items : Sent(i) => Sent(i)',
           \A i \in Items : queue'[i].status # "WAITING" =>
               queue[i].status # "WAITING" \/ Sent(i)',
           page'[p].stage # "next" => Sent(Current(p).id)',
           \/ page'[p].todo \in SUBSET page[p].todo
                /\ \A c \in page[p].todo : c \in page'[p].todo \/ Sent(c.id)'
           \/ page'[p].todo = Snapshot
           \/ page'[p].todo = {},
           TriedInOrder'
    PROVE  OrderInv'
<1>1. OldItemsWereSent'
  BY DEF OrderInv, OldItemsWereSent
<1>2. \A q \in Pages : \A c \in page[q].todo : c.id \in Items
  BY PageFacts
<1>3. ASSUME NEW q \in Pages, q # p
      PROVE  /\ \A c \in page'[q].todo : c.status # "WAITING" => Sent(c.id)'
             /\ page'[q].stage # "next" => Sent(Current(q).id)'
             /\ \A c \in page'[q].todo, i \in Items :
                    i < c.id => Sent(i)' \/ \E d \in page'[q].todo : d.id = i
  <2>1. page'[q] = page[q] /\ Current(q)' = Current(q)
    BY <1>3, CurrentStays
  <2>2. \A c \in page'[q].todo : c.status # "WAITING" => Sent(c.id)'
    BY <1>2, <2>1 DEF OrderInv, OldCopiesWereSent
  <2>3. page'[q].stage # "next" => Sent(Current(q).id)'
    <3>1. page[q].stage # "next" => Current(q).id \in Items
      BY PageFacts, CurrentCopy
    <3>2. page[q].stage # "next" => Sent(Current(q).id)
      BY DEF OrderInv, InFlightWasSent
    <3> QED  BY <2>1, <3>1, <3>2
  <2>4. \A c \in page[q].todo, i \in Items :
            i < c.id => Sent(i) \/ \E d \in page[q].todo : d.id = i
    BY DEF OrderInv, SnapshotsSkipNothing
  <2> QED  BY <2>1, <2>2, <2>3, <2>4
<1>4. /\ \A c \in page'[p].todo : c.status # "WAITING" => Sent(c.id)'
      /\ \A c \in page'[p].todo, i \in Items :
             i < c.id => Sent(i)' \/ \E d \in page'[p].todo : d.id = i
  <2>1. CASE /\ page'[p].todo \in SUBSET page[p].todo
             /\ \A c \in page[p].todo : c \in page'[p].todo \/ Sent(c.id)'
    <3>1. \A c \in page'[p].todo : c.status # "WAITING" => Sent(c.id)'
      BY <1>2, <2>1 DEF OrderInv, OldCopiesWereSent
    <3>2. \A c \in page[p].todo, i \in Items :
              i < c.id => Sent(i) \/ \E d \in page[p].todo : d.id = i
      BY DEF OrderInv, SnapshotsSkipNothing
    <3> QED  BY <2>1, <3>1, <3>2
  <2>2. CASE page'[p].todo = Snapshot
    <3>1. \A c \in Snapshot : c.status # "WAITING" => Sent(c.id)'
      BY SnapshotFacts DEF OrderInv, OldItemsWereSent
    <3>2. \A i \in Items : Sent(i)' \/ \E d \in Snapshot : d.id = i
      BY SnapshotFacts DEF OrderInv, OldItemsWereSent, Pending
    <3> QED  BY <2>2, <3>1, <3>2
  <2> QED  BY <2>1, <2>2
<1>5. OldCopiesWereSent'
  BY <1>3, <1>4 DEF OldCopiesWereSent
<1>6. InFlightWasSent'
  BY <1>3 DEF InFlightWasSent
<1>7. SnapshotsSkipNothing'
  BY <1>3, <1>4 DEF SnapshotsSkipNothing
<1> QED  BY <1>1, <1>5, <1>6, <1>7 DEF OrderInv

\* Most steps send nothing.
LEMMA NothingSent ==
    ASSUME TypeInv, OrderInv, Items' = Items,
           \A i \in Items : history'[i].sent = history[i].sent
    PROVE  TriedInOrder' /\ \A i \in Items : Sent(i) => Sent(i)'
BY DEF OrderInv, TriedInOrder, Sent

LEMMA SendItemOrder ==
    ASSUME TypeInv, OrderInv, NEW p \in Pages, SendItem(p)
    PROVE  OrderInv'
<1> DEFINE c == Current(p)
<1>1. /\ c \in page[p].todo /\ c \in Copy /\ c.id \in Items /\ c.retryCount \in Nat
      /\ \A d \in page[p].todo : c.id <= d.id
  BY SendItemTypes, CurrentCopy DEF Copy
<1>2. Put(c, "SYNCING", c.retryCount) /\ c' = c
  BY SendItemTypes, CurrentStays
<1>3. Items' = Items /\ \A i \in Items : i # c.id => queue'[i] = queue[i]
  BY <1>1, <1>2, PutEffect
<1>4. \A i \in Items : history[i].sent \in Nat
  BY ItemFacts
<1>5. Sent(c.id)' /\ \A i \in Items : i # c.id => history'[i].sent = history[i].sent
  <2>1. /\ history'[c.id].sent = OneMore(history[c.id].sent)
        /\ \A i \in Items : i # c.id => history'[i] = history[i]
    BY SendItemTypes
  <2>2. OneMore(history[c.id].sent) \in Nat \ {0}
    BY <1>1, <1>4, CounterType
  <2> HIDE DEF c
  <2>3. history'[c.id].sent > 0
    BY <2>1, <2>2
  <2> QED  BY <1>2, <2>1, <2>3 DEF Sent
<1>6. \A i \in Items : Sent(i) => Sent(i)'
  BY <1>2, <1>5 DEF Sent
<1>7. ASSUME NEW i \in Items, i < c.id
      PROVE  Sent(i)
  <2>1. \A d \in page[p].todo : d.id # i
    BY <1>1, <1>7, ItemFacts
  <2> QED  BY <1>1, <1>7, <2>1 DEF OrderInv, SnapshotsSkipNothing
<1>8. TriedInOrder'
  <2> SUFFICES ASSUME NEW i \in Items, NEW j \in Items, i < j, Sent(j)'
               PROVE  Sent(i)'
    BY <1>3 DEF TriedInOrder, Sent
  <2>1. CASE j = c.id
    BY <1>6, <1>7, <2>1
  <2>2. CASE j # c.id
    BY <1>5, <1>6, <2>2 DEF OrderInv, TriedInOrder, Sent
  <2> QED  BY <2>1, <2>2
<1>9. \A i \in Items : queue'[i].status # "WAITING" => queue[i].status # "WAITING" \/ Sent(i)'
  BY <1>2, <1>3, <1>5 DEF Sent
<1>10. /\ page'[p].todo \in SUBSET page[p].todo
       /\ \A d \in page[p].todo : d \in page'[p].todo
       /\ \A q \in Pages : q # p => page'[q] = page[q]
  BY SendItemTypes
<1> QED  BY <1>3, <1>5, <1>6, <1>8, <1>9, <1>10, OrderKept

LEMMA LoopOrder ==
    ASSUME TypeInv, OrderInv, NEW p \in Pages, Loop(p)
    PROVE  OrderInv'
<1>1. CASE SkipItem(p)
  <2>1. Items' = Items /\ history' = history /\ queue' = queue
    BY <1>1, SkipItemTypes DEF Items
  <2>2. TriedInOrder' /\ \A i \in Items : Sent(i) => Sent(i)'
    BY <2>1, NothingSent
  <2>3. Current(p).id \in Items /\ Sent(Current(p).id)
    BY <1>1, SkipItemTypes, CurrentCopy DEF Exhausted, OrderInv, OldCopiesWereSent
  <2>4. \A c \in page[p].todo : c \in page'[p].todo \/ Sent(c.id)'
    BY <1>1, <2>1, <2>3, SkipItemTypes DEF Sent
  <2> QED  BY <1>1, <2>1, <2>2, <2>4, SkipItemTypes, OrderKept
<1>2. CASE SendItem(p)
  BY <1>2, SendItemOrder
<1>3. CASE ExecuteItem(p)
  <2>1. Items' = Items /\ history' = history /\ queue' = queue /\ Current(p)' = Current(p)
    BY <1>3, ExecuteItemTypes, CurrentStays DEF Items
  <2>2. TriedInOrder' /\ \A i \in Items : Sent(i) => Sent(i)'
    BY <2>1, NothingSent
  <2>3. Sent(Current(p).id)'
    BY <1>3, <2>1, ExecuteItemTypes DEF OrderInv, InFlightWasSent, Sent
  <2> QED  BY <1>3, <2>1, <2>2, <2>3, ExecuteItemTypes, OrderKept
<1>4. CASE CompleteItem(p)
  <2>1. /\ Current(p) \in Copy /\ Current(p).id \in Items /\ Current(p).retryCount \in Nat
        /\ Current(p)' = Current(p) /\ history' = history
    BY <1>4, CompleteItemTypes, CurrentCopy, CurrentStays DEF Copy
  <2>2. Put(Current(p), "OK", Current(p).retryCount)
    BY <1>4, CompleteItemTypes
  <2>3. Items' = Items /\ \A i \in Items : i # Current(p).id => queue'[i] = queue[i]
    BY <2>1, <2>2, PutEffect
  <2>4. TriedInOrder' /\ \A i \in Items : Sent(i) => Sent(i)'
    BY <2>1, <2>3, NothingSent
  <2>5. Sent(Current(p).id) /\ Sent(Current(p).id)'
    BY <1>4, <2>1, CompleteItemTypes DEF OrderInv, InFlightWasSent, Sent
  <2>6. \A i \in Items : queue'[i].status # "WAITING" => queue[i].status # "WAITING" \/ Sent(i)'
    BY <2>1, <2>3, <2>5 DEF Sent
  <2> QED  BY <1>4, <2>3, <2>4, <2>5, <2>6, CompleteItemTypes, OrderKept
<1>5. CASE RemoveItem(p)
  <2>1. Current(p).id \in Items /\ history' = history
    BY <1>5, RemoveItemTypes, CurrentCopy
  <2>2. Items' = Items /\ \A i \in Items : i # Current(p).id => queue'[i] = queue[i]
    BY <1>5, RemoveItemTypes DEF RemoveItem, Items, TypeInv, TypeOK
  <2>3. TriedInOrder' /\ \A i \in Items : Sent(i) => Sent(i)'
    BY <2>1, <2>2, NothingSent
  <2>4. Sent(Current(p).id)
    BY <1>5, RemoveItemTypes DEF OrderInv, InFlightWasSent
  <2>5. \A i \in Items : queue'[i].status # "WAITING" => queue[i].status # "WAITING" \/ Sent(i)'
    BY <2>1, <2>2, <2>4 DEF Sent
  <2>6. \A c \in page[p].todo : c \in page'[p].todo \/ Sent(c.id)'
    BY <1>5, <2>1, <2>4, RemoveItemTypes DEF Sent
  <2> QED  BY <1>5, <2>2, <2>3, <2>5, <2>6, RemoveItemTypes, OrderKept
<1>6. CASE FailItem(p)
  <2>1. /\ Current(p) \in Copy /\ Current(p).id \in Items /\ Current(p).retryCount + 1 \in Nat
        /\ \A i \in Items : history'[i].sent = history[i].sent
    BY <1>6, FailItemTypes, UnheardEffect, CurrentCopy DEF Copy
  <2>2. Put(Current(p), "ERROR", Current(p).retryCount + 1)
    BY <1>6, FailItemTypes
  <2>3. Items' = Items /\ \A i \in Items : i # Current(p).id => queue'[i] = queue[i]
    BY <2>1, <2>2, PutEffect
  <2>4. TriedInOrder' /\ \A i \in Items : Sent(i) => Sent(i)'
    BY <2>1, <2>3, NothingSent
  <2>5. Sent(Current(p).id)
    BY <1>6, FailItemTypes DEF OrderInv, InFlightWasSent
  <2>6. \A i \in Items : queue'[i].status # "WAITING" => queue[i].status # "WAITING" \/ Sent(i)'
    BY <2>1, <2>3, <2>5 DEF Sent
  <2>7. \A c \in page[p].todo : c \in page'[p].todo \/ Sent(c.id)'
    BY <1>6, <2>1, <2>5, FailItemTypes DEF Sent
  <2> QED  BY <1>6, <2>3, <2>4, <2>6, <2>7, FailItemTypes, OrderKept
<1>7. CASE EndDrain(p)
  <2>1. Items' = Items /\ history' = history /\ queue' = queue /\ page[p].todo = {}
    BY <1>7, EndDrainTypes DEF Items, EndDrain
  <2>2. TriedInOrder' /\ \A i \in Items : Sent(i) => Sent(i)'
    BY <2>1, NothingSent
  <2> QED  BY <1>7, <2>1, <2>2, EndDrainTypes, OrderKept
<1> QED  BY <1>1, <1>2, <1>3, <1>4, <1>5, <1>6, <1>7 DEF Loop

LEMMA EnqueueOrder ==
    ASSUME TypeInv, OrderInv, NEW kind \in Kinds, Enqueue(kind)
    PROVE  OrderInv'
<1> DEFINE n == Len(queue) + 1
<1>1. /\ page' = page /\ Items' = Items \cup {n} /\ n \notin Items
      /\ \A i \in Items : queue'[i] = queue[i] /\ history'[i] = history[i]
  BY EnqueueTypes
<1>2. queue'[n].status = "WAITING" /\ history'[n].sent = 0
  <2>1. /\ queue'[n] = [kind |-> kind, status |-> "WAITING", retryCount |-> 0]
        /\ history'[n] = [sent |-> 0, unheard |-> 0]
    BY EnqueueTypes, Zenon
  <2> QED  BY <2>1
<1>3. Items = 1 .. Len(queue) /\ Len(queue) \in Nat
  BY ItemFacts
<1>4. \A i \in Items : Sent(i)' <=> Sent(i)
  BY <1>1 DEF Sent
<1>5. \A p \in Pages : \A c \in page[p].todo : c.id \in Items
  BY PageFacts
<1>6. TriedInOrder'
  <2> SUFFICES ASSUME NEW i \in Items', NEW j \in Items', i < j, Sent(j)'
               PROVE  Sent(i)'
    BY DEF TriedInOrder, Sent
  <2>1. j \in Items
    BY <1>1, <1>2 DEF Sent
  <2>2. i \in Items
    BY <1>1, <1>3, <2>1
  <2> QED  BY <1>4, <2>1, <2>2 DEF OrderInv, TriedInOrder, Sent
<1>7. OldItemsWereSent'
  BY <1>1, <1>2, <1>4 DEF OrderInv, OldItemsWereSent
<1>8. OldCopiesWereSent'
  BY <1>1, <1>4, <1>5 DEF OrderInv, OldCopiesWereSent
<1>9. InFlightWasSent'
  <2> SUFFICES ASSUME NEW p \in Pages, page[p].stage # "next"
               PROVE  Sent(Current(p).id)'
    BY <1>1 DEF InFlightWasSent
  <2>1. Current(p)' = Current(p) /\ Current(p).id \in Items
    BY <1>1, PageFacts, CurrentCopy, CurrentStays
  <2>2. Sent(Current(p).id)
    BY DEF OrderInv, InFlightWasSent
  <2> QED  BY <1>1, <2>1, <2>2 DEF Sent
<1>10. SnapshotsSkipNothing'
  <2> SUFFICES ASSUME NEW p \in Pages, NEW c \in page[p].todo, NEW i \in Items', i < c.id
               PROVE  Sent(i)' \/ \E d \in page[p].todo : d.id = i
    BY <1>1 DEF SnapshotsSkipNothing
  <2>1. i \in Items
    BY <1>1, <1>3, <1>5
  <2> QED  BY <1>4, <2>1 DEF OrderInv, SnapshotsSkipNothing
<1> QED  BY <1>6, <1>7, <1>8, <1>9, <1>10 DEF OrderInv

LEMMA NextOrder == TypeInv /\ OrderInv /\ [Next]_vars => OrderInv'
<1> SUFFICES ASSUME TypeInv, OrderInv, [Next]_vars PROVE OrderInv'
  OBVIOUS
<1> USE DEF OrderInv, TriedInOrder, OldItemsWereSent, OldCopiesWereSent, InFlightWasSent,
            SnapshotsSkipNothing
<1>1. CASE UNCHANGED vars
  BY <1>1 DEF vars, Items, Current, Sent
<1>2. CASE GoOffline \/ GoOnline
  <2>1. /\ UNCHANGED <<queue, history>>
        /\ \A p \in Pages : page'[p].todo = page[p].todo /\ page'[p].stage = page[p].stage
    BY <1>2, ConnectionTypes
  <2>2. \A p \in Pages : Current(p)' = Current(p)
    BY <2>1, CurrentStays
  <2> QED  BY <2>1, <2>2 DEF Items, Sent
<1> USE DEF Items
<1>3. ASSUME NEW p \in Pages, RunEffect(p)
      PROVE  OrderInv'
  <2>1. Items' = Items /\ queue' = queue /\ history' = history
    BY <1>3, RunEffectTypes
  <2>2. TriedInOrder' /\ \A i \in Items : Sent(i) => Sent(i)'
    BY <2>1, NothingSent
  <2>3. page'[p].stage # "next" => Sent(Current(p).id)'
    BY <1>3, <2>1, RunEffectTypes, CurrentStays DEF Sent
  <2> QED  BY <1>3, <2>1, <2>2, <2>3, RunEffectTypes, OrderKept
<1>4. ASSUME NEW p \in Pages, ForceSync(p)
      PROVE  OrderInv'
  <2>1. Items' = Items /\ queue' = queue /\ history' = history
    BY <1>4, ForceSyncTypes
  <2>2. TriedInOrder' /\ \A i \in Items : Sent(i) => Sent(i)'
    BY <2>1, NothingSent
  <2> QED  BY <1>4, <2>1, <2>2, ForceSyncTypes, OrderKept
<1>5. ASSUME NEW p \in Pages, Reload(p)
      PROVE  OrderInv'
  <2>1. Items' = Items /\ queue' = queue /\ \A i \in Items : history'[i].sent = history[i].sent
    BY <1>5, ReloadTypes, UnheardEffect
  <2>2. TriedInOrder' /\ \A i \in Items : Sent(i) => Sent(i)'
    BY <2>1, NothingSent
  <2> QED  BY <1>5, <2>1, <2>2, ReloadTypes, OrderKept
<1> QED  BY <1>1, <1>2, <1>3, <1>4, <1>5, EnqueueOrder, LoopOrder DEF Next

\* A later mutation is never sent before an earlier one was tried, however many pages
\* take snapshots and however they are reloaded: listSyncQueueItems sorts by createdAt,
\* and an item that a snapshot does not hold is through or was sent before.
THEOREM OrderOfAttempts == Spec => []TriedInOrder
<1>1. OrderInv => TriedInOrder
  BY DEF OrderInv
<1> QED  BY InitTypes, InitOrder, NextTypes, NextOrder, <1>1, PTL DEF Spec

-----------------------------------------------------------------------------
(* With one page, its copies are what the store holds, except for the item  *)
(* it works on.                                                             *)

OnePage == \A p, q \in Pages : p = q

Settled(i) == queue[i].status \in {"OK", "REMOVED"}

\* The item in the page's hands is marked as such in the store.
InFlightIsMarked ==
    \A p \in Pages :
        LET item == queue[Current(p).id]
        IN  /\ page[p].stage \in {"sending", "applied"} => item.status = "SYNCING"
            /\ page[p].stage = "answered" => item.status = "OK"
            /\ page[p].stage # "next" => item.retryCount = Current(p).retryCount

CopiesAreCurrent ==
    \A p \in Pages :
        /\ \A c, d \in page[p].todo : c.id = d.id => c = d
        /\ \A c \in page[p].todo :
               \/ page[p].stage # "next" /\ c = Current(p)
               \/ /\ queue[c.id].status = c.status
                  /\ queue[c.id].retryCount = c.retryCount

CopyInv == InFlightIsMarked /\ CopiesAreCurrent

LEMMA InitCopies == Init => CopyInv
BY DEF Init, CopyInv, InFlightIsMarked, CopiesAreCurrent, FreshPage

\* The copy a page takes next is pending in the store.
LEMMA NextCopyIsPending ==
    ASSUME TypeInv, CopyInv, NEW p \in Pages, page[p].stage = "next", page[p].todo # {}
    PROVE  /\ queue[Current(p).id].status = Current(p).status
           /\ queue[Current(p).id].retryCount = Current(p).retryCount
           /\ ~Settled(Current(p).id)
<1>1. Current(p) \in page[p].todo /\ Current(p) \in Copy
  BY CurrentCopy
<1> QED  BY <1>1 DEF CopyInv, CopiesAreCurrent, Settled, Copy

\* Taking the current item off the list, with whatever status it leaves in the store.
LEMMA CopiesAfterItem ==
    ASSUME TypeInv, CopyInv, OnePage, NEW p \in Pages, page[p].todo # {},
           page'[p].todo = page[p].todo \ {Current(p)}, page'[p].stage = "next",
           \A i \in Items : i # Current(p).id => queue'[i] = queue[i]
    PROVE  CopyInv'
<1>1. \A c, d \in page[p].todo : c.id = d.id => c = d
  BY DEF CopyInv, CopiesAreCurrent
<1>2. Current(p) \in page[p].todo
  BY CurrentCopy
<1>3. ASSUME NEW c \in page[p].todo \ {Current(p)}
      PROVE  queue'[c.id].status = c.status /\ queue'[c.id].retryCount = c.retryCount
  <2>1. c.id \in Items /\ c.id # Current(p).id
    BY <1>1, <1>2, PageFacts
  <2> QED  BY <2>1 DEF CopyInv, CopiesAreCurrent
<1>4. CopiesAreCurrent'
  BY <1>1, <1>3 DEF CopiesAreCurrent, OnePage
<1>5. InFlightIsMarked'
  BY DEF InFlightIsMarked, OnePage
<1> QED  BY <1>4, <1>5 DEF CopyInv

\* Working on the current item: the list stays, the store has the item's new status.
LEMMA CopiesInFlight ==
    ASSUME TypeInv, CopyInv, OnePage, NEW p \in Pages, page[p].todo # {},
           page'[p].todo = page[p].todo,
           \/ page'[p].stage \in {"sending", "applied"}
                /\ queue'[Current(p).id].status = "SYNCING"
           \/ page'[p].stage = "answered" /\ queue'[Current(p).id].status = "OK",
           queue'[Current(p).id].retryCount = Current(p).retryCount,
           \A i \in Items : i # Current(p).id => queue'[i] = queue[i]
    PROVE  CopyInv'
<1>1. \A c, d \in page[p].todo : c.id = d.id => c = d
  BY DEF CopyInv, CopiesAreCurrent
<1>2. Current(p) \in page[p].todo /\ Current(p)' = Current(p)
  BY CurrentCopy, CurrentStays
<1>3. ASSUME NEW c \in page[p].todo, c # Current(p)
      PROVE  queue'[c.id].status = c.status /\ queue'[c.id].retryCount = c.retryCount
  <2>1. c.id \in Items /\ c.id # Current(p).id
    BY <1>1, <1>2, <1>3, PageFacts
  <2> QED  BY <1>3, <2>1 DEF CopyInv, CopiesAreCurrent
<1>4. CopiesAreCurrent'
  BY <1>1, <1>2, <1>3 DEF CopiesAreCurrent, OnePage
<1>5. InFlightIsMarked'
  BY <1>2 DEF InFlightIsMarked, OnePage
<1> QED  BY <1>4, <1>5 DEF CopyInv

\* A page that takes a snapshot or drops its list.
LEMMA CopiesAfterSnapshot ==
    ASSUME TypeInv, CopyInv, OnePage, NEW p \in Pages, queue' = queue,
           page'[p].stage = "next", page'[p].todo \in {Snapshot, {}}
    PROVE  CopyInv'
<1>1. \A c, d \in Snapshot : c.id = d.id => c = d
  BY DEF Snapshot
<1>2. \A c \in Snapshot : queue[c.id].status = c.status /\ queue[c.id].retryCount = c.retryCount
  BY SnapshotFacts
<1>3. CopiesAreCurrent'
  BY <1>1, <1>2 DEF CopiesAreCurrent, OnePage
<1>4. InFlightIsMarked'
  BY DEF InFlightIsMarked, OnePage
<1> QED  BY <1>3, <1>4 DEF CopyInv

\* A step that leaves the store's old items and the page's list alone.
LEMMA CopiesUndisturbed ==
    ASSUME TypeInv, CopyInv, \A i \in Items : queue'[i] = queue[i],
           \A p \in Pages : page'[p].todo = page[p].todo /\ page'[p].stage = page[p].stage
    PROVE  CopyInv'
<1>1. \A p \in Pages : /\ Current(p)' = Current(p)
                       /\ \A c \in page[p].todo : queue'[c.id] = queue[c.id]
                       /\ page[p].stage # "next" => queue'[Current(p).id] = queue[Current(p).id]
  BY CurrentStays, PageFacts, CurrentCopy
<1>2. CopiesAreCurrent'
  BY <1>1 DEF CopyInv, CopiesAreCurrent
<1>3. InFlightIsMarked'
  <2> SUFFICES ASSUME NEW p \in Pages
               PROVE  LET item == queue'[Current(p)'.id]
                      IN  /\ page[p].stage \in {"sending", "applied"} => item.status = "SYNCING"
                          /\ page[p].stage = "answered" => item.status = "OK"
                          /\ page[p].stage # "next" =>
                                 item.retryCount = Current(p)'.retryCount
    BY DEF InFlightIsMarked
  <2> QED  BY <1>1 DEF CopyInv, InFlightIsMarked
<1> QED  BY <1>2, <1>3 DEF CopyInv

LEMMA LoopCopies ==
    ASSUME TypeInv, CopyInv, OnePage, NEW p \in Pages, Loop(p)
    PROVE  CopyInv'
<1>1. CASE SkipItem(p)
  BY <1>1, SkipItemTypes, CopiesAfterItem
<1>2. CASE SendItem(p)
  <2>1. Current(p) \in Copy /\ Current(p).id \in Items /\ Current(p).retryCount \in Nat
    BY <1>2, SendItemTypes, CurrentCopy DEF Copy
  <2>2. Put(Current(p), "SYNCING", Current(p).retryCount)
    BY <1>2, SendItemTypes
  <2>3. /\ queue'[Current(p).id].status = "SYNCING"
        /\ queue'[Current(p).id].retryCount = Current(p).retryCount
        /\ \A i \in Items : i # Current(p).id => queue'[i] = queue[i]
    BY <2>1, <2>2, PutEffect
  <2> QED  BY <1>2, <2>3, SendItemTypes, CopiesInFlight
<1>3. CASE ExecuteItem(p)
  <2>1. /\ queue[Current(p).id].status = "SYNCING"
        /\ queue[Current(p).id].retryCount = Current(p).retryCount
    BY <1>3, ExecuteItemTypes DEF CopyInv, InFlightIsMarked
  <2> QED  BY <1>3, <2>1, ExecuteItemTypes, CopiesInFlight
<1>4. CASE CompleteItem(p)
  <2>1. Current(p) \in Copy /\ Current(p).id \in Items /\ Current(p).retryCount \in Nat
    BY <1>4, CompleteItemTypes, CurrentCopy DEF Copy
  <2>2. Put(Current(p), "OK", Current(p).retryCount)
    BY <1>4, CompleteItemTypes
  <2>3. /\ queue'[Current(p).id].status = "OK"
        /\ queue'[Current(p).id].retryCount = Current(p).retryCount
        /\ \A i \in Items : i # Current(p).id => queue'[i] = queue[i]
    BY <2>1, <2>2, PutEffect
  <2> QED  BY <1>4, <2>3, CompleteItemTypes, CopiesInFlight
<1>5. CASE RemoveItem(p)
  BY <1>5, RemoveItemTypes, CopiesAfterItem
<1>6. CASE FailItem(p)
  <2>1. Current(p) \in Copy /\ Current(p).id \in Items /\ Current(p).retryCount + 1 \in Nat
    BY <1>6, FailItemTypes, CurrentCopy DEF Copy
  <2>2. Put(Current(p), "ERROR", Current(p).retryCount + 1)
    BY <1>6, FailItemTypes
  <2>3. \A i \in Items : i # Current(p).id => queue'[i] = queue[i]
    BY <2>1, <2>2, PutEffect
  <2> QED  BY <1>6, <2>3, FailItemTypes, CopiesAfterItem
<1>7. CASE EndDrain(p)
  BY <1>7, EndDrainTypes, CopiesAfterSnapshot
<1> QED  BY <1>1, <1>2, <1>3, <1>4, <1>5, <1>6, <1>7 DEF Loop

LEMMA NextCopies == OnePage /\ TypeInv /\ CopyInv /\ [Next]_vars => CopyInv'
<1> SUFFICES ASSUME OnePage, TypeInv, CopyInv, [Next]_vars PROVE CopyInv'
  OBVIOUS
<1>1. CASE UNCHANGED vars
  BY <1>1, CopiesUndisturbed DEF vars
<1>2. CASE GoOffline \/ GoOnline
  BY <1>2, ConnectionTypes, CopiesUndisturbed
<1>3. ASSUME NEW kind \in Kinds, Enqueue(kind)
      PROVE  CopyInv'
  <2>1. page' = page /\ \A i \in Items : queue'[i] = queue[i]
    BY <1>3, EnqueueTypes
  <2> QED  BY <2>1, CopiesUndisturbed
<1>4. ASSUME NEW p \in Pages, RunEffect(p)
      PROVE  CopyInv'
  <2>1. CASE page'[p].todo = Snapshot /\ page'[p].stage = "next"
    BY <1>4, <2>1, RunEffectTypes, CopiesAfterSnapshot
  <2>2. CASE page'[p].todo = page[p].todo /\ page'[p].stage = page[p].stage
    BY <1>4, <2>2, RunEffectTypes, CopiesUndisturbed DEF OnePage
  <2> QED  BY <1>4, <2>1, <2>2, RunEffectTypes
<1>5. ASSUME NEW p \in Pages, ForceSync(p) \/ Reload(p)
      PROVE  CopyInv'
  BY <1>5, ForceSyncTypes, ReloadTypes, CopiesAfterSnapshot
<1> QED  BY <1>1, <1>2, <1>3, <1>4, <1>5, LoopCopies DEF Next

\* A page that is not draining is between two items.
IdleBetweenItems == \A p \in Pages : page[p].drain = "none" => page[p].stage = "next"

LEMMA InitIdle == Init => IdleBetweenItems
BY DEF Init, IdleBetweenItems, FreshPage

LEMMA NextIdle == TypeInv /\ IdleBetweenItems /\ [Next]_vars => IdleBetweenItems'
<1> SUFFICES ASSUME TypeInv, IdleBetweenItems, [Next]_vars PROVE IdleBetweenItems'
  OBVIOUS
<1> USE DEF IdleBetweenItems
<1>1. page \in [Pages -> Page]
  BY DEF TypeInv, TypeOK
<1>2. CASE UNCHANGED vars \/ \E kind \in Kinds : Enqueue(kind)
  BY <1>2 DEF vars, Enqueue
<1>3. CASE GoOffline \/ GoOnline
  BY <1>3, ConnectionTypes
<1>4. ASSUME NEW p \in Pages, RunEffect(p)
      PROVE  IdleBetweenItems'
  BY <1>1, <1>4 DEF RunEffect, Page
<1>5. ASSUME NEW p \in Pages, ForceSync(p) \/ Reload(p) \/ EndDrain(p)
      PROVE  IdleBetweenItems'
  BY <1>5, ForceSyncTypes, ReloadTypes, EndDrainTypes
<1>6. ASSUME NEW p \in Pages, SkipItem(p) \/ RemoveItem(p) \/ FailItem(p)
      PROVE  IdleBetweenItems'
  BY <1>6, SkipItemTypes, RemoveItemTypes, FailItemTypes
<1>7. ASSUME NEW p \in Pages, SendItem(p) \/ ExecuteItem(p) \/ CompleteItem(p)
      PROVE  IdleBetweenItems'
  <2>1. page[p].drain # "none"
    BY <1>7 DEF SendItem, AtNextItem, ExecuteItem, CompleteItem
  <2>2. page'[p].drain = page[p].drain /\ \A q \in Pages : q # p => page'[q] = page[q]
    <3>1. \E stage \in {"sending", "applied", "answered"} :
              page' = [page EXCEPT ![p] = [page[p] EXCEPT !.stage = stage]]
      BY <1>1, <1>7 DEF SendItem, ExecuteItem, CompleteItem
    <3> QED  BY <1>1, <3>1 DEF Page
  <2> QED  BY <2>1, <2>2
<1> QED  BY <1>2, <1>3, <1>4, <1>5, <1>6, <1>7 DEF Next, Loop

-----------------------------------------------------------------------------
(* With one page, what is repeated is explained by an answer nobody heard.  *)

Applied(i) ==
    \/ Settled(i)
    \/ \E p \in Pages : page[p].stage \in {"applied", "answered"} /\ Current(p).id = i

RepeatInv ==
    \A i \in Items :
        /\ records[i] <= MaxCount
        /\ records[i] <= history[i].unheard + 1
        /\ ~Applied(i) => records[i] <= history[i].unheard

LEMMA InitRepeats == Init => RepeatInv
BY DEF Init, RepeatInv, Items

\* A step that makes no record.
LEMMA RepeatsKept ==
    ASSUME TypeInv, RepeatInv, Items' = Items, records' = records,
           \A i \in Items : history'[i].unheard \in Nat
                            /\ history[i].unheard <= history'[i].unheard,
           \A i \in Items : Applied(i) => Applied(i)' \/ records[i] <= history'[i].unheard
    PROVE  RepeatInv'
<1>1. \A i \in Items : records[i] \in Nat /\ history[i].unheard \in Nat
  BY ItemFacts
<1> QED  BY <1>1, BoundsAssumption DEF RepeatInv

\* The item in a page's hands is the only one whose Applied a step of the page changes.
LEMMA OthersApplied ==
    ASSUME TypeInv, OnePage, NEW p \in Pages, NEW i \in Items,
           queue'[i] = queue[i],
           page[p].stage \in {"applied", "answered"} => Current(p).id # i,
           Applied(i)
    PROVE  Applied(i)'
BY DEF Applied, Settled, OnePage

\* An answer that is lost is counted, up to MaxCount.
LEMMA UnheardExplains ==
    ASSUME TypeInv, RepeatInv, NEW p \in Pages, page[p].stage = "applied", Unheard(p)
    PROVE  records[Current(p).id] <= history'[Current(p).id].unheard
<1> DEFINE i == Current(p).id
<1>1. /\ i \in Items
      /\ history'[i].unheard = OneMore(history[i].unheard)
  BY PageFacts, CurrentCopy, UnheardEffect
<1>2. records[i] \in Nat /\ history[i].unheard \in Nat /\ MaxCount \in Nat
  BY <1>1, ItemFacts, BoundsAssumption
<1>3. records[i] <= MaxCount /\ records[i] <= history[i].unheard + 1
  BY <1>1 DEF RepeatInv
<1> QED  BY <1>1, <1>2, <1>3 DEF OneMore

LEMMA LoopRepeats ==
    ASSUME TypeInv, CopyInv, RepeatInv, OnePage, NEW p \in Pages, Loop(p)
    PROVE  RepeatInv'
<1>h. \A i \in Items : records[i] \in Nat /\ history[i].unheard \in Nat
  BY ItemFacts
<1>1. CASE SkipItem(p) \/ EndDrain(p)
  <2>1. /\ Items' = Items /\ UNCHANGED <<queue, records, history>>
        /\ page[p].stage = "next"
    BY <1>1, SkipItemTypes, EndDrainTypes DEF Items, SkipItem, AtNextItem, EndDrain
  <2>2. \A i \in Items : Applied(i) => Applied(i)'
    BY <2>1, OthersApplied
  <2> QED  BY <1>h, <2>1, <2>2, RepeatsKept
<1>2. CASE SendItem(p)
  <2>1. /\ Current(p) \in Copy /\ Current(p).id \in Items /\ Current(p).retryCount \in Nat
        /\ ~Settled(Current(p).id) /\ page[p].stage = "next" /\ records' = records
    BY <1>2, SendItemTypes, CurrentCopy, NextCopyIsPending DEF Copy
  <2>2. Put(Current(p), "SYNCING", Current(p).retryCount)
    BY <1>2, SendItemTypes
  <2>3. Items' = Items /\ \A i \in Items : i # Current(p).id => queue'[i] = queue[i]
    BY <2>1, <2>2, PutEffect
  <2>4. \A i \in Items : history'[i].unheard = history[i].unheard
    BY <1>2, SendItemTypes
  <2>5. ASSUME NEW i \in Items, Applied(i)
        PROVE  Applied(i)'
    <3>1. i # Current(p).id
      BY <2>1, <2>5 DEF Applied, OnePage
    <3> QED  BY <2>1, <2>3, <2>5, <3>1, OthersApplied
  <2> QED  BY <1>h, <2>1, <2>3, <2>4, <2>5, RepeatsKept
<1>3. CASE ExecuteItem(p)
  <2> DEFINE k == Current(p).id
  <2>1. /\ k \in Items /\ Items' = Items /\ UNCHANGED <<queue, history>>
        /\ Current(p)' = Current(p)
        /\ page[p].stage = "sending" /\ page'[p].stage = "applied"
        /\ records'[k] \in {1, OneMore(records[k])}
        /\ \A i \in Items : i # k => records'[i] = records[i]
    BY <1>3, ExecuteItemTypes, CurrentCopy, CurrentStays DEF Items
  <2>2. ~Applied(k)
    BY <1>3, <2>1, ExecuteItemTypes DEF CopyInv, InFlightIsMarked, Applied, Settled, OnePage
  <2>3. Applied(k)'
    BY <2>1 DEF Applied
  <2>4. records'[k] <= MaxCount /\ records'[k] <= history[k].unheard + 1
    <3>1. /\ records[k] \in Nat /\ history[k].unheard \in Nat
          /\ records[k] <= MaxCount /\ records[k] <= history[k].unheard
      BY <1>h, <2>1, <2>2 DEF RepeatInv
    <3> QED  BY <2>1, <3>1, CounterType, BoundsAssumption
  <2>5. \A i \in Items : i # k => (Applied(i) => Applied(i)')
    BY <2>1, OthersApplied
  <2>6. ASSUME NEW i \in Items, i # k
        PROVE  /\ records'[i] <= MaxCount /\ records'[i] <= history'[i].unheard + 1
               /\ ~Applied(i)' => records'[i] <= history'[i].unheard
    BY <2>1, <2>5, <2>6 DEF RepeatInv
  <2>7. /\ records'[k] <= MaxCount /\ records'[k] <= history'[k].unheard + 1
    BY <2>1, <2>4
  <2> HIDE DEF k
  <2>8. ASSUME NEW i \in Items
        PROVE  /\ records'[i] <= MaxCount /\ records'[i] <= history'[i].unheard + 1
               /\ ~Applied(i)' => records'[i] <= history'[i].unheard
    <3>1. k' = k
      BY <2>1 DEF k
    <3>2. CASE i = k
      BY <2>3, <2>7, <3>1, <3>2
    <3> QED  BY <2>6, <3>2
  <2> QED  BY <2>1, <2>8 DEF RepeatInv
<1>4. CASE CompleteItem(p)
  <2>1. /\ Current(p) \in Copy /\ Current(p).id \in Items /\ Current(p).retryCount \in Nat
        /\ UNCHANGED <<records, history>>
    BY <1>4, CompleteItemTypes, CurrentCopy DEF Copy
  <2>2. Put(Current(p), "OK", Current(p).retryCount)
    BY <1>4, CompleteItemTypes
  <2>3. /\ Items' = Items /\ queue'[Current(p).id].status = "OK"
        /\ \A i \in Items : i # Current(p).id => queue'[i] = queue[i]
    BY <2>1, <2>2, PutEffect
  <2>4. ASSUME NEW i \in Items, Applied(i)
        PROVE  Applied(i)'
    <3>1. CASE i = Current(p).id
      BY <2>3, <3>1 DEF Applied, Settled
    <3>2. CASE i # Current(p).id
      BY <2>3, <2>4, <3>2, OthersApplied
    <3> QED  BY <3>1, <3>2
  <2> QED  BY <1>h, <2>1, <2>3, <2>4, RepeatsKept
<1>5. CASE RemoveItem(p)
  <2>1. /\ Items' = Items /\ UNCHANGED <<records, history>>
        /\ queue'[Current(p).id].status = "REMOVED"
        /\ \A i \in Items : i # Current(p).id => queue'[i] = queue[i]
    BY <1>5, RemoveItemTypes DEF RemoveItem, Items, TypeInv, TypeOK
  <2>2. ASSUME NEW i \in Items, Applied(i)
        PROVE  Applied(i)'
    <3>1. CASE i = Current(p).id
      BY <2>1, <3>1 DEF Applied, Settled
    <3>2. CASE i # Current(p).id
      BY <2>1, <2>2, <3>2, OthersApplied
    <3> QED  BY <3>1, <3>2
  <2> QED  BY <1>h, <2>1, <2>2, RepeatsKept
<1>6. CASE FailItem(p)
  <2>1. /\ Current(p) \in Copy /\ Current(p).id \in Items /\ Current(p).retryCount + 1 \in Nat
        /\ records' = records /\ Unheard(p) /\ page[p].stage \in {"sending", "applied"}
        /\ ~Settled(Current(p).id)
    BY <1>6, FailItemTypes, CurrentCopy DEF Copy, CopyInv, InFlightIsMarked, Settled
  <2>2. Put(Current(p), "ERROR", Current(p).retryCount + 1)
    BY <1>6, FailItemTypes
  <2>3. Items' = Items /\ \A i \in Items : i # Current(p).id => queue'[i] = queue[i]
    BY <2>1, <2>2, PutEffect
  <2>4. \A i \in Items : history'[i].unheard \in Nat /\ history[i].unheard <= history'[i].unheard
    BY <2>1, UnheardEffect
  <2>5. ASSUME NEW i \in Items, Applied(i)
        PROVE  Applied(i)' \/ records[i] <= history'[i].unheard
    <3>1. CASE i = Current(p).id
      <4>1. page[p].stage = "applied"
        BY <2>1, <2>5, <3>1 DEF Applied, OnePage
      <4> QED  BY <2>1, <3>1, <4>1, UnheardExplains
    <3>2. CASE i # Current(p).id
      BY <2>3, <2>5, <3>2, OthersApplied
    <3> QED  BY <3>1, <3>2
  <2> QED  BY <2>1, <2>3, <2>4, <2>5, RepeatsKept
<1> QED  BY <1>1, <1>2, <1>3, <1>4, <1>5, <1>6 DEF Loop

LEMMA NextRepeats ==
    OnePage /\ TypeInv /\ CopyInv /\ IdleBetweenItems /\ RepeatInv /\ [Next]_vars => RepeatInv'
<1> SUFFICES ASSUME OnePage, TypeInv, CopyInv, IdleBetweenItems, RepeatInv, [Next]_vars
             PROVE  RepeatInv'
  OBVIOUS
<1>h. \A i \in Items : records[i] \in Nat /\ history[i].unheard \in Nat
  BY ItemFacts
<1>1. CASE UNCHANGED vars
  BY <1>1 DEF vars, RepeatInv, Applied, Settled, Items, Current
<1>2. CASE GoOffline \/ GoOnline
  <2>1. /\ UNCHANGED <<queue, records, history>> /\ Items' = Items
        /\ \A p \in Pages : page'[p].todo = page[p].todo /\ page'[p].stage = page[p].stage
    BY <1>2, ConnectionTypes DEF Items
  <2>2. \A p \in Pages : Current(p)' = Current(p)
    BY <2>1, CurrentStays
  <2>3. \A i \in Items : Applied(i) => Applied(i)'
    BY <2>1, <2>2 DEF Applied, Settled
  <2> QED  BY <1>h, <2>1, <2>3, RepeatsKept
<1>3. ASSUME NEW kind \in Kinds, Enqueue(kind)
      PROVE  RepeatInv'
  <2> DEFINE n == Len(queue) + 1
  <2>1. /\ page' = page /\ Items' = Items \cup {n}
        /\ \A i \in Items : /\ queue'[i] = queue[i]
                            /\ records'[i] = records[i] /\ history'[i] = history[i]
    BY <1>3, EnqueueTypes
  <2>2. records'[n] = 0 /\ history'[n].unheard = 0
    <3>1. records'[n] = 0 /\ history'[n] = [sent |-> 0, unheard |-> 0]
      BY <1>3, EnqueueTypes, Zenon
    <3> QED  BY <3>1
  <2>3. \A i \in Items : Applied(i) => Applied(i)'
    BY <2>1, CurrentStays DEF Applied, Settled
  <2>4. MaxCount \in Nat
    BY BoundsAssumption
  <2> QED  BY <2>1, <2>2, <2>3, <2>4 DEF RepeatInv
<1>4. ASSUME NEW p \in Pages, RunEffect(p)
      PROVE  RepeatInv'
  <2>1. /\ UNCHANGED <<queue, records, history>> /\ Items' = Items
        /\ \A q \in Pages : q # p => page'[q] = page[q]
    BY <1>4, RunEffectTypes DEF Items
  <2>2. CASE page[p].drain = "none"
    <3>1. page[p].stage = "next"
      BY <2>2 DEF IdleBetweenItems
    <3>2. \A i \in Items : Applied(i) => Applied(i)'
      BY <2>1, <3>1, OthersApplied
    <3> QED  BY <1>h, <2>1, <3>2, RepeatsKept
  <2>3. CASE page[p].drain # "none"
    <3>1. page'[p].todo = page[p].todo /\ page'[p].stage = page[p].stage
      BY <1>4, <2>3 DEF RunEffect, TypeInv, TypeOK, Page
    <3>2. \A i \in Items : Applied(i) => Applied(i)'
      BY <2>1, <3>1, CurrentStays DEF Applied, Settled
    <3> QED  BY <1>h, <2>1, <3>2, RepeatsKept
  <2> QED  BY <2>2, <2>3
<1>5. ASSUME NEW p \in Pages, ForceSync(p)
      PROVE  RepeatInv'
  <2>1. /\ UNCHANGED <<queue, records, history>> /\ Items' = Items
        /\ page[p].stage = "next"
    BY <1>5, ForceSyncTypes DEF Items, ForceSync, IdleBetweenItems
  <2>2. \A i \in Items : Applied(i) => Applied(i)'
    BY <2>1, OthersApplied
  <2> QED  BY <1>h, <2>1, <2>2, RepeatsKept
<1>6. ASSUME NEW p \in Pages, Reload(p)
      PROVE  RepeatInv'
  <2>1. UNCHANGED <<queue, records>> /\ Items' = Items /\ Unheard(p)
    BY <1>6, ReloadTypes DEF Items
  <2>2. \A i \in Items : history'[i].unheard \in Nat /\ history[i].unheard <= history'[i].unheard
    BY <2>1, UnheardEffect
  <2>3. ASSUME NEW i \in Items, Applied(i)
        PROVE  Applied(i)' \/ records[i] <= history'[i].unheard
    <3>1. CASE Settled(i)
      BY <2>1, <3>1 DEF Applied, Settled
    <3>2. CASE ~Settled(i)
      <4>1. page[p].stage \in {"applied", "answered"} /\ Current(p).id = i
        BY <2>3, <3>2 DEF Applied, OnePage
      <4>2. page[p].stage = "applied"
        BY <3>2, <4>1 DEF CopyInv, InFlightIsMarked, Settled
      <4> QED  BY <2>1, <4>1, <4>2, UnheardExplains
    <3> QED  BY <3>1, <3>2
  <2> QED  BY <2>1, <2>2, <2>3, RepeatsKept
<1> QED  BY <1>1, <1>2, <1>3, <1>4, <1>5, <1>6, LoopRepeats DEF Next

\* A browser with one page, reloaded at any point: the server has a second record of an
\* item only when the page never heard of the first.
THEOREM RepeatsExplained == OnePage => (Spec => []RepeatsAreExplained)
<1> SUFFICES ASSUME OnePage PROVE Spec => []RepeatsAreExplained
  OBVIOUS
<1> DEFINE Inv == TypeInv /\ CopyInv /\ IdleBetweenItems /\ RepeatInv
<1>1. Init => Inv
  BY InitTypes, InitCopies, InitIdle, InitRepeats
<1>2. Inv /\ [Next]_vars => Inv'
  BY NextTypes, NextCopies, NextIdle, NextRepeats
<1>3. Inv => RepeatsAreExplained
  <2> SUFFICES ASSUME Inv, NEW i \in Items
               PROVE  records[i] <= 1 + history[i].unheard
    BY DEF RepeatsAreExplained
  <2>1. records[i] <= history[i].unheard + 1 /\ history[i].unheard \in Nat
    BY ItemFacts DEF RepeatInv
  <2> QED  BY <2>1
<1> QED  BY <1>1, <1>2, <1>3, PTL DEF Spec

-----------------------------------------------------------------------------
(* With one page, every attempt is counted, but for those a reload cut off. *)

Tried(i) ==
    \/ Settled(i)
    \/ \E p \in Pages : page[p].stage # "next" /\ Current(p).id = i

\* An attempt counts in retryCount once it has failed.
AttemptsOf(i) ==
    /\ queue[i].retryCount <= OFFLINE_SYNC_RETRY_MAX
    /\ queue[i].status # "ERROR" => queue[i].retryCount < OFFLINE_SYNC_RETRY_MAX
    /\ history[i].sent <= queue[i].retryCount + reloads + 1
    /\ ~Tried(i) => history[i].sent <= queue[i].retryCount + reloads

AttemptInv == \A i \in Items : AttemptsOf(i)

LEMMA InitAttempts == Init => AttemptInv
BY DEF Init, AttemptInv, Items

LEMMA AttemptFacts ==
    ASSUME TypeInv
    PROVE  /\ \A i \in Items : queue[i].retryCount \in Nat /\ history[i].sent \in Nat
           /\ reloads \in Nat
<1>1. \A i \in Items : queue[i] \in Item /\ history[i] \in [sent : Nat, unheard : Nat]
  BY ItemFacts
<1> QED  BY <1>1 DEF Item, TypeInv, TypeOK

\* What an item's attempts come to does not change as long as the item does not.
LEMMA AttemptsUndisturbed ==
    ASSUME TypeInv, AttemptInv, NEW i \in Items,
           queue'[i] = queue[i], history'[i].sent = history[i].sent, reloads' = reloads,
           Tried(i) => Tried(i)'
    PROVE  AttemptsOf(i)'
BY DEF AttemptInv, AttemptsOf

LEMMA OthersTried ==
    ASSUME TypeInv, OnePage, NEW p \in Pages, NEW i \in Items,
           queue'[i] = queue[i],
           page[p].stage # "next" => Current(p).id # i,
           Tried(i)
    PROVE  Tried(i)'
BY DEF Tried, Settled, OnePage

\* A step of a page that touches the attempts of its current item only.
LEMMA AttemptsKept ==
    ASSUME TypeInv, OnePage, AttemptInv, NEW p \in Pages, Current(p).id \in Items,
           Items' = Items, reloads' = reloads,
           \A i \in Items : i # Current(p).id =>
               queue'[i] = queue[i] /\ history'[i].sent = history[i].sent,
           NEW k, k = Current(p).id, AttemptsOf(k)'
    PROVE  AttemptInv'
<1>1. ASSUME NEW i \in Items, i # k
      PROVE  AttemptsOf(i)'
  <2>1. Tried(i) => Tried(i)'
    BY <1>1, OthersTried
  <2> QED  BY <1>1, <2>1, AttemptsUndisturbed
<1> QED  BY <1>1 DEF AttemptInv

\* The page leaves the attempts alone and is between two items before the step.
LEMMA AttemptsBetweenItems ==
    ASSUME TypeInv, OnePage, AttemptInv, NEW p \in Pages, page[p].stage = "next",
           UNCHANGED <<queue, history, reloads>>
    PROVE  AttemptInv'
<1>1. \A i \in Items : Tried(i) => Tried(i)'
  BY OthersTried
<1>2. \A i \in Items : AttemptsOf(i)'
  BY <1>1, AttemptsUndisturbed
<1> QED  BY <1>2 DEF AttemptInv, Items

\* Whatever the step does, the page has the same item in its hands.
LEMMA AttemptsInFlight ==
    ASSUME TypeInv, OnePage, AttemptInv, NEW p \in Pages,
           page'[p].todo = page[p].todo, page'[p].stage = "next" => page[p].stage = "next",
           UNCHANGED <<queue, history, reloads>>
    PROVE  AttemptInv'
<1>1. \A i \in Items : Tried(i) => Tried(i)'
  BY CurrentStays DEF Tried, Settled, OnePage
<1>2. \A i \in Items : AttemptsOf(i)'
  BY <1>1, AttemptsUndisturbed
<1> QED  BY <1>2 DEF AttemptInv, Items

LEMMA SendItemAttempts ==
    ASSUME TypeInv, CopyInv, OnePage, AttemptInv, NEW p \in Pages, SendItem(p)
    PROVE  AttemptInv'
<1> DEFINE c == Current(p)
<1>1. PICK k : k = c.id
  OBVIOUS
<1>2. /\ c \in Copy /\ k \in Items /\ c.retryCount \in Nat
      /\ queue[k].status = c.status /\ queue[k].retryCount = c.retryCount
      /\ ~Settled(k) /\ page[p].stage = "next" /\ ~Exhausted(c)
  BY <1>1, SendItemTypes, CurrentCopy, NextCopyIsPending DEF Copy
<1>3. Put(c, "SYNCING", c.retryCount)
  BY SendItemTypes
<1>4. /\ Items' = Items /\ queue'[k].status = "SYNCING" /\ queue'[k].retryCount = c.retryCount
      /\ \A i \in Items : i # k => queue'[i] = queue[i]
  BY <1>1, <1>2, <1>3, PutEffect
<1>5. /\ history'[k].sent = OneMore(history[k].sent)
      /\ \A i \in Items : i # k => history'[i] = history[i]
      /\ reloads' = reloads
  BY <1>1, SendItemTypes
<1>6. queue[k].retryCount < OFFLINE_SYNC_RETRY_MAX
  <2>1. queue[k].status # "ERROR" => queue[k].retryCount < OFFLINE_SYNC_RETRY_MAX
    BY <1>2 DEF AttemptInv, AttemptsOf
  <2>2. OFFLINE_SYNC_RETRY_MAX \in Nat
    BY RetryAssumption
  <2> QED  BY <1>2, <2>1, <2>2 DEF Exhausted
<1>7. history'[k].sent <= queue'[k].retryCount + reloads' + 1
  <2>1. ~Tried(k)
    BY <1>2 DEF Tried, OnePage
  <2>2. history[k].sent <= queue[k].retryCount + reloads
    BY <1>2, <2>1 DEF AttemptInv, AttemptsOf
  <2>3. history[k].sent \in Nat /\ queue[k].retryCount \in Nat /\ reloads \in Nat
    BY <1>2, AttemptFacts
  <2>4. OneMore(history[k].sent) \in Nat /\ OneMore(history[k].sent) <= history[k].sent + 1
    BY <2>3, CounterType
  <2> QED  BY <1>2, <1>4, <1>5, <2>2, <2>3, <2>4
<1>8. Tried(k)'
  <2>1. page'[p].stage = "sending" /\ Current(p)' = Current(p)
    BY SendItemTypes, CurrentStays
  <2> QED  BY <1>1, <2>1 DEF Tried
<1>9. queue'[k].retryCount < OFFLINE_SYNC_RETRY_MAX /\ queue'[k].retryCount \in Nat
      /\ OFFLINE_SYNC_RETRY_MAX \in Nat
  BY <1>2, <1>4, <1>6, RetryAssumption
<1>10. AttemptsOf(k)'
  BY <1>7, <1>8, <1>9 DEF AttemptsOf
<1> QED  BY <1>1, <1>2, <1>4, <1>5, <1>10, AttemptsKept

LEMMA CompleteItemAttempts ==
    ASSUME TypeInv, CopyInv, OnePage, AttemptInv, NEW p \in Pages, CompleteItem(p)
    PROVE  AttemptInv'
<1> DEFINE c == Current(p)
<1>1. PICK k : k = c.id
  OBVIOUS
<1>2. /\ c \in Copy /\ k \in Items /\ c.retryCount \in Nat
      /\ queue[k].status = "SYNCING" /\ queue[k].retryCount = c.retryCount
      /\ history' = history /\ reloads' = reloads
  BY <1>1, CompleteItemTypes, CurrentCopy DEF Copy, CopyInv, InFlightIsMarked
<1>3. Put(c, "OK", c.retryCount)
  BY CompleteItemTypes
<1>4. /\ Items' = Items /\ queue'[k].status = "OK" /\ queue'[k].retryCount = c.retryCount
      /\ \A i \in Items : i # k => queue'[i] = queue[i]
  BY <1>1, <1>2, <1>3, PutEffect
<1>5. Tried(k)'
  BY <1>4 DEF Tried, Settled
<1>6. AttemptsOf(k)'
  BY <1>2, <1>4, <1>5 DEF AttemptInv, AttemptsOf
<1> QED  BY <1>1, <1>2, <1>4, <1>6, AttemptsKept

LEMMA RemoveItemAttempts ==
    ASSUME TypeInv, CopyInv, OnePage, AttemptInv, NEW p \in Pages, RemoveItem(p)
    PROVE  AttemptInv'
<1>1. PICK k : k = Current(p).id
  OBVIOUS
<1>2. /\ k \in Items /\ Items' = Items /\ queue[k].status = "OK"
      /\ history' = history /\ reloads' = reloads
      /\ queue'[k].status = "REMOVED" /\ queue'[k].retryCount = queue[k].retryCount
      /\ \A i \in Items : i # k => queue'[i] = queue[i]
  BY <1>1, RemoveItemTypes, CurrentCopy
     DEF CopyInv, InFlightIsMarked, RemoveItem, Items, TypeInv, TypeOK
<1>3. Tried(k)'
  BY <1>2 DEF Tried, Settled
<1>4. AttemptsOf(k)'
  BY <1>2, <1>3 DEF AttemptInv, AttemptsOf
<1> QED  BY <1>1, <1>2, <1>4, AttemptsKept

LEMMA FailItemAttempts ==
    ASSUME TypeInv, CopyInv, OnePage, AttemptInv, NEW p \in Pages, FailItem(p)
    PROVE  AttemptInv'
<1> DEFINE c == Current(p)
<1>1. PICK k : k = c.id
  OBVIOUS
<1>2. /\ c \in Copy /\ k \in Items /\ c.retryCount \in Nat /\ c.retryCount + 1 \in Nat
      /\ queue[k].status = "SYNCING" /\ queue[k].retryCount = c.retryCount
      /\ reloads' = reloads /\ \A i \in Items : history'[i].sent = history[i].sent
  BY <1>1, FailItemTypes, UnheardEffect, CurrentCopy DEF Copy, CopyInv, InFlightIsMarked
<1>3. Put(c, "ERROR", c.retryCount + 1)
  BY FailItemTypes
<1>4. /\ Items' = Items /\ queue'[k].status = "ERROR"
      /\ queue'[k].retryCount = c.retryCount + 1
      /\ \A i \in Items : i # k => queue'[i] = queue[i]
  BY <1>1, <1>2, <1>3, PutEffect
<1>5. /\ c.retryCount < OFFLINE_SYNC_RETRY_MAX
      /\ history[k].sent <= c.retryCount + reloads + 1
  BY <1>2 DEF AttemptInv, AttemptsOf
<1>6. history[k].sent \in Nat /\ reloads \in Nat /\ OFFLINE_SYNC_RETRY_MAX \in Nat
  BY <1>2, AttemptFacts, RetryAssumption
<1> HIDE DEF c
<1>7. /\ queue'[k].retryCount <= OFFLINE_SYNC_RETRY_MAX
      /\ history'[k].sent <= queue'[k].retryCount + reloads'
      /\ history'[k].sent <= queue'[k].retryCount + reloads' + 1
  BY <1>2, <1>4, <1>5, <1>6
<1>8. AttemptsOf(k)'
  BY <1>4, <1>7 DEF AttemptsOf
<1> QED  BY <1>1, <1>2, <1>4, <1>8, AttemptsKept DEF c

LEMMA LoopAttempts ==
    ASSUME TypeInv, CopyInv, OnePage, AttemptInv, NEW p \in Pages, Loop(p)
    PROVE  AttemptInv'
<1>1. CASE SkipItem(p) \/ EndDrain(p)
  <2>1. page[p].stage = "next" /\ UNCHANGED <<queue, history, reloads>>
    BY <1>1 DEF SkipItem, AtNextItem, EndDrain
  <2> QED  BY <2>1, AttemptsBetweenItems
<1>2. CASE ExecuteItem(p)
  BY <1>2, ExecuteItemTypes, AttemptsInFlight
<1> QED  BY <1>1, <1>2, SendItemAttempts, CompleteItemAttempts, RemoveItemAttempts,
            FailItemAttempts DEF Loop

LEMMA EnqueueAttempts ==
    ASSUME TypeInv, OnePage, AttemptInv, NEW kind \in Kinds, Enqueue(kind)
    PROVE  AttemptInv'
<1> DEFINE n == Len(queue) + 1
<1>1. /\ page' = page /\ reloads' = reloads /\ Items' = Items \cup {n}
      /\ \A i \in Items : queue'[i] = queue[i] /\ history'[i] = history[i]
  BY EnqueueTypes
<1>2. queue'[n].status = "WAITING" /\ queue'[n].retryCount = 0 /\ history'[n].sent = 0
  <2>1. /\ queue'[n] = [kind |-> kind, status |-> "WAITING", retryCount |-> 0]
        /\ history'[n] = [sent |-> 0, unheard |-> 0]
    BY EnqueueTypes, Zenon
  <2> QED  BY <2>1
<1>3. \A i \in Items : Tried(i) => Tried(i)'
  BY <1>1, CurrentStays DEF Tried, Settled
<1>4. \A i \in Items : AttemptsOf(i)'
  BY <1>1, <1>3, AttemptsUndisturbed
<1>5. PICK k : k = n
  OBVIOUS
<1>6. /\ queue'[k].status = "WAITING" /\ queue'[k].retryCount = 0 /\ history'[k].sent = 0
      /\ reloads' \in Nat /\ OFFLINE_SYNC_RETRY_MAX \in Nat \ {0}
  BY <1>1, <1>2, <1>5, AttemptFacts, RetryAssumption
<1>7. AttemptsOf(k)'
  BY <1>6 DEF AttemptsOf
<1> QED  BY <1>1, <1>4, <1>5, <1>7 DEF AttemptInv

LEMMA ReloadAttempts ==
    ASSUME TypeInv, AttemptInv, NEW p \in Pages, Reload(p)
    PROVE  AttemptInv'
<1>1. /\ queue' = queue /\ Items' = Items /\ reloads' = reloads + 1
      /\ \A i \in Items : history'[i].sent = history[i].sent
  BY ReloadTypes, UnheardEffect DEF Items
<1>2. ASSUME NEW i \in Items
      PROVE  AttemptsOf(i)'
  <2>1. /\ history[i].sent \in Nat /\ queue[i].retryCount \in Nat /\ reloads \in Nat
        /\ history[i].sent <= queue[i].retryCount + reloads + 1
    BY AttemptFacts DEF AttemptInv, AttemptsOf
  <2>2. /\ history'[i].sent <= queue'[i].retryCount + reloads'
        /\ history'[i].sent <= queue'[i].retryCount + reloads' + 1
    BY <1>1, <2>1
  <2> QED  BY <1>1, <2>2 DEF AttemptInv, AttemptsOf
<1> QED  BY <1>1, <1>2 DEF AttemptInv

LEMMA NextAttempts ==
    OnePage /\ TypeInv /\ CopyInv /\ IdleBetweenItems /\ AttemptInv /\ [Next]_vars => AttemptInv'
<1> SUFFICES ASSUME OnePage, TypeInv, CopyInv, IdleBetweenItems, AttemptInv, [Next]_vars
             PROVE  AttemptInv'
  OBVIOUS
<1>1. CASE UNCHANGED vars
  BY <1>1 DEF vars, AttemptInv, AttemptsOf, Tried, Settled, Items, Current
<1>2. CASE GoOffline \/ GoOnline
  <2>1. /\ UNCHANGED <<queue, history, reloads>> /\ Items' = Items
        /\ \A p \in Pages : page'[p].todo = page[p].todo /\ page'[p].stage = page[p].stage
    BY <1>2, ConnectionTypes DEF Items
  <2>2. \A i \in Items : Tried(i) => Tried(i)'
    BY <2>1, CurrentStays DEF Tried, Settled
  <2>3. \A i \in Items : AttemptsOf(i)'
    BY <2>1, <2>2, AttemptsUndisturbed
  <2> QED  BY <2>1, <2>3 DEF AttemptInv
<1>3. ASSUME NEW p \in Pages, RunEffect(p)
      PROVE  AttemptInv'
  <2>1. CASE page[p].drain = "none"
    <3>1. page[p].stage = "next"
      BY <2>1 DEF IdleBetweenItems
    <3> QED  BY <1>3, <3>1, RunEffectTypes, AttemptsBetweenItems
  <2>2. CASE page[p].drain # "none"
    <3>1. page'[p].todo = page[p].todo /\ page'[p].stage = page[p].stage
      BY <1>3, <2>2 DEF RunEffect, TypeInv, TypeOK, Page
    <3> QED  BY <1>3, <3>1, RunEffectTypes, AttemptsInFlight
  <2> QED  BY <2>1, <2>2
<1>4. ASSUME NEW p \in Pages, ForceSync(p)
      PROVE  AttemptInv'
  <2>1. page[p].stage = "next"
    BY <1>4 DEF ForceSync, IdleBetweenItems
  <2> QED  BY <1>4, <2>1, ForceSyncTypes, AttemptsBetweenItems
<1> QED  BY <1>1, <1>2, <1>3, <1>4, EnqueueAttempts, ReloadAttempts, LoopAttempts DEF Next

\* A browser with one page: an item is sent OFFLINE_SYNC_RETRY_MAX times at most, plus
\* once for every reload, whatever fails (Exhausted, and retryCount put with ERROR).
THEOREM AttemptsAreBounded == OnePage => (Spec => []AttemptsBounded)
<1> SUFFICES ASSUME OnePage PROVE Spec => []AttemptsBounded
  OBVIOUS
<1> DEFINE Inv == TypeInv /\ CopyInv /\ IdleBetweenItems /\ AttemptInv
<1>1. Init => Inv
  BY InitTypes, InitCopies, InitIdle, InitAttempts
<1>2. Inv /\ [Next]_vars => Inv'
  BY NextTypes, NextCopies, NextIdle, NextAttempts
<1>3. Inv => AttemptsBounded
  <2> SUFFICES ASSUME Inv, NEW i \in Items
               PROVE  history[i].sent <= OFFLINE_SYNC_RETRY_MAX + reloads
    BY DEF AttemptsBounded
  <2>1. /\ history[i].sent \in Nat /\ queue[i].retryCount \in Nat /\ reloads \in Nat
        /\ OFFLINE_SYNC_RETRY_MAX \in Nat
    BY AttemptFacts, RetryAssumption
  <2>2. AttemptsOf(i)
    BY DEF AttemptInv
  <2>3. CASE queue[i].status # "ERROR"
    BY <2>1, <2>2, <2>3 DEF AttemptsOf
  <2>4. CASE queue[i].status = "ERROR"
    <3>1. ~Tried(i)
      <4>1. \A p \in Pages : /\ page[p].stage \in {"next", "sending", "applied", "answered"}
                             /\ page[p].stage # "next" =>
                                    queue[Current(p).id].status \in {"SYNCING", "OK"}
        BY PageFacts DEF Page, CopyInv, InFlightIsMarked
      <4> QED  BY <2>4, <4>1 DEF Tried, Settled
    <3> QED  BY <2>1, <2>2, <3>1 DEF AttemptsOf
  <2> QED  BY <2>3, <2>4
<1> QED  BY <1>1, <1>2, <1>3, PTL DEF Spec

-----------------------------------------------------------------------------
(* Every drain comes to its end, with any number of pages.                  *)

StageNumber == [next |-> 0, sending |-> 1, applied |-> 2, answered |-> 3]

\* How many steps of the loop a drain has left at most: four for each item (send,
\* execute, complete, remove), and its end.
StepsLeft(p) == 4 * Cardinality(page[p].todo) + 1 - StageNumber[page[p].stage]

\* A snapshot is finite, and every drain has one.
FiniteDrains == \A p \in Pages : IsFiniteSet(page[p].todo)

LEMMA SnapshotIsFinite ==
    ASSUME TypeInv
    PROVE  IsFiniteSet(Snapshot)
<1> DEFINE P == {j \in Items : Pending(j)}
           f == [i \in P |-> [id |-> i, status |-> queue[i].status,
                              retryCount |-> queue[i].retryCount]]
<1>1. IsFiniteSet(P)
  <2>1. Items = 1 .. Len(queue) /\ Len(queue) \in Nat
    BY ItemFacts
  <2>2. IsFiniteSet(Items)
    BY <2>1, FS_Interval
  <2> QED  BY <2>2, FS_Subset
<1>2. Snapshot = {f[i] : i \in P}
  BY DEF Snapshot
<1> HIDE DEF f, P
<1> QED  BY <1>1, <1>2, FiniteImage

\* What a step of the loop leaves to be done.
LEMMA StepsLeftType ==
    ASSUME TypeInv, FiniteDrains, NEW p \in Pages
    PROVE  /\ Cardinality(page[p].todo) \in Nat
           /\ page[p].todo # {} => Cardinality(page[p].todo) > 0
           /\ StageNumber[page[p].stage] \in 0..3
           /\ StepsLeft(p) \in Nat
<1>1. page[p].stage \in {"next", "sending", "applied", "answered"}
  BY PageFacts DEF Page
<1>2. StageNumber[page[p].stage] \in 0..3 /\ (page[p].stage = "next" => StageNumber[page[p].stage] = 0)
  BY <1>1 DEF StageNumber
<1>3. /\ Cardinality(page[p].todo) \in Nat
      /\ page[p].todo # {} => Cardinality(page[p].todo) > 0
  <2>1. IsFiniteSet(page[p].todo)
    BY DEF FiniteDrains
  <2>2. Cardinality(page[p].todo) \in Nat
    BY <2>1, FS_CardinalityType
  <2>3. Cardinality(page[p].todo) = 0 <=> page[p].todo = {}
    BY <2>1, FS_EmptySet
  <2> QED  BY <2>2, <2>3
<1>4. page[p].stage # "next" => page[p].todo # {}
  BY PageFacts
<1>5. StepsLeft(p) \in Nat
  <2> DEFINE n == Cardinality(page[p].todo)
             k == StageNumber[page[p].stage]
  <2>1. n \in Nat /\ k \in 0..3 /\ (k # 0 => n > 0)
    BY <1>2, <1>3, <1>4
  <2> HIDE DEF n, k
  <2>2. 4 * n + 1 - k \in Nat
    BY <2>1
  <2> QED  BY <2>2 DEF StepsLeft, n, k
<1> QED  BY <1>2, <1>3, <1>5

LEMMA ItemTakenOff ==
    ASSUME TypeInv, FiniteDrains, NEW p \in Pages, page[p].todo # {}
    PROVE  /\ IsFiniteSet(page[p].todo \ {Current(p)})
           /\ Cardinality(page[p].todo \ {Current(p)}) = Cardinality(page[p].todo) - 1
<1>1. IsFiniteSet(page[p].todo) /\ Current(p) \in page[p].todo
  BY CurrentCopy DEF FiniteDrains
<1> QED  BY <1>1, FS_RemoveElement

\* A step of the loop takes something off, or is the last one.
LEMMA LoopWorksOff ==
    ASSUME TypeInv, FiniteDrains, NEW p \in Pages, Loop(p)
    PROVE  /\ IsFiniteSet(page'[p].todo)
           /\ \A q \in Pages : q # p => page'[q] = page[q]
           /\ page'[p].drain = "none" \/ StepsLeft(p)' < StepsLeft(p)
<1> DEFINE n == Cardinality(page[p].todo)
           k == StageNumber[page[p].stage]
           m == Cardinality(page'[p].todo)
           j == StageNumber[page'[p].stage]
<1>1. n \in Nat /\ k \in 0..3 /\ IsFiniteSet(page[p].todo)
  BY StepsLeftType DEF FiniteDrains
<1>2. StepsLeft(p) = 4 * n + 1 - k /\ StepsLeft(p)' = 4 * m + 1 - j
  BY DEF StepsLeft, StageNumber
<1>3. ASSUME page[p].todo # {}, page'[p].todo = page[p].todo \ {Current(p)},
             page'[p].stage = "next"
      PROVE  IsFiniteSet(page'[p].todo) /\ StepsLeft(p)' < StepsLeft(p)
  <2>1. m = n - 1 /\ j = 0 /\ IsFiniteSet(page'[p].todo)
    BY <1>3, ItemTakenOff DEF StageNumber
  <2> HIDE DEF n, m, k, j
  <2> QED  BY <1>1, <1>2, <2>1
<1>4. ASSUME page'[p].todo = page[p].todo, j = k + 1
      PROVE  IsFiniteSet(page'[p].todo) /\ StepsLeft(p)' < StepsLeft(p)
  <2>1. m = n /\ IsFiniteSet(page'[p].todo)
    BY <1>1, <1>4
  <2> HIDE DEF n, m, k, j
  <2> QED  BY <1>1, <1>2, <1>4, <2>1
<1>5. CASE SkipItem(p)
  BY <1>3, <1>5, SkipItemTypes
<1>6. CASE SendItem(p)
  <2>1. /\ page'[p].todo = page[p].todo /\ j = k + 1
        /\ \A q \in Pages : q # p => page'[q] = page[q]
    BY <1>6, SendItemTypes DEF StageNumber
  <2> QED  BY <1>4, <2>1
<1>7. CASE ExecuteItem(p)
  <2>1. /\ page'[p].todo = page[p].todo /\ j = k + 1
        /\ \A q \in Pages : q # p => page'[q] = page[q]
    BY <1>7, ExecuteItemTypes DEF StageNumber
  <2> QED  BY <1>4, <2>1
<1>8. CASE CompleteItem(p)
  <2>1. /\ page'[p].todo = page[p].todo /\ j = k + 1
        /\ \A q \in Pages : q # p => page'[q] = page[q]
    BY <1>8, CompleteItemTypes DEF StageNumber
  <2> QED  BY <1>4, <2>1
<1>9. CASE RemoveItem(p)
  BY <1>3, <1>9, RemoveItemTypes
<1>10. CASE FailItem(p)
  BY <1>3, <1>10, FailItemTypes
<1>11. CASE EndDrain(p)
  <2>1. /\ page'[p].todo = {} /\ \A q \in Pages : q # p => page'[q] = page[q]
    BY <1>11, EndDrainTypes
  <2>2. page'[p].drain = "none"
    BY <1>11 DEF EndDrain, TypeInv, TypeOK, Page
  <2> QED  BY <2>1, <2>2, FS_EmptySet
<1> QED  BY <1>5, <1>6, <1>7, <1>8, <1>9, <1>10, <1>11 DEF Loop

WorksOff(p) ==
    page[p].drain # "none" =>
        /\ StepsLeft(p) \in Nat
        /\ page'[p].drain = "none" \/ StepsLeft(p)' <= StepsLeft(p)
        /\ Loop(p) => page'[p].drain = "none" \/ StepsLeft(p)' < StepsLeft(p)

LEMMA NextWorksOff ==
    TypeInv /\ FiniteDrains /\ [Next]_vars
        => FiniteDrains' /\ (\A p \in Pages : WorksOff(p))
<1> SUFFICES ASSUME TypeInv, FiniteDrains, [Next]_vars
             PROVE  FiniteDrains' /\ (\A p \in Pages : WorksOff(p))
  OBVIOUS
<1>1. \A q \in Pages : StepsLeft(q) \in Nat
  BY StepsLeftType
<1>2. \A q \in Pages : Loop(q) => page'[q].drain = "none" \/ StepsLeft(q)' < StepsLeft(q)
  BY LoopWorksOff
<1>3. ASSUME NEW q \in Pages, page'[q].todo = page[q].todo, page'[q].stage = page[q].stage
      PROVE  IsFiniteSet(page'[q].todo) /\ WorksOff(q)
  <2>1. StepsLeft(q)' = StepsLeft(q) /\ StepsLeft(q) \in Nat
    BY <1>1, <1>3 DEF StepsLeft, StageNumber
  <2>2. StepsLeft(q)' <= StepsLeft(q)
    BY <2>1
  <2>3. Loop(q) => page'[q].drain = "none" \/ StepsLeft(q)' < StepsLeft(q)
    BY <1>2
  <2>4. WorksOff(q)
    BY <2>1, <2>2, <2>3 DEF WorksOff
  <2> QED  BY <1>3, <2>4 DEF FiniteDrains
<1>4. ASSUME NEW p \in Pages, \A q \in Pages : q # p => page'[q] = page[q],
             IsFiniteSet(page'[p].todo), WorksOff(p)
      PROVE  FiniteDrains' /\ (\A q \in Pages : WorksOff(q))
  BY <1>3, <1>4 DEF FiniteDrains
<1>5. ASSUME \A q \in Pages : /\ page'[q].todo = page[q].todo
                               /\ page'[q].stage = page[q].stage
      PROVE  FiniteDrains' /\ (\A q \in Pages : WorksOff(q))
  BY <1>3, <1>5 DEF FiniteDrains
<1>6. CASE GoOffline \/ GoOnline
  BY <1>5, <1>6, ConnectionTypes
<1>7. CASE UNCHANGED vars \/ \E kind \in Kinds : Enqueue(kind)
  <2>1. page' = page
    BY <1>7 DEF vars, Enqueue
  <2> HIDE DEF WorksOff
  <2> QED  BY <1>5, <2>1
<1>8. ASSUME NEW p \in Pages, RunEffect(p) \/ ForceSync(p)
      PROVE  FiniteDrains' /\ (\A q \in Pages : WorksOff(q))
  <2>1. \A q \in Pages : q # p => page'[q] = page[q]
    BY <1>8, RunEffectTypes, ForceSyncTypes
  <2>2. CASE page[p].drain = "none"
    <3>1. IsFiniteSet(page'[p].todo)
      BY <1>8, RunEffectTypes, ForceSyncTypes, SnapshotIsFinite DEF FiniteDrains
    <3> QED  BY <1>4, <2>1, <2>2, <3>1 DEF WorksOff
  <2>3. CASE page[p].drain # "none"
    <3>1. page' = [page EXCEPT ![p] = [page[p] EXCEPT !.due = FALSE, !.wasOffline = FALSE]]
      BY <1>8, <2>3 DEF RunEffect, ForceSync, TypeInv, TypeOK
    <3>2. page[p] \in Page /\ page \in [Pages -> Page]
      BY DEF TypeInv, TypeOK
    <3>3. page'[p].todo = page[p].todo /\ page'[p].stage = page[p].stage
      BY <3>1, <3>2 DEF Page
    <3> HIDE DEF WorksOff
    <3> QED  BY <1>5, <2>1, <3>3
  <2> QED  BY <2>2, <2>3
<1>9. ASSUME NEW p \in Pages, Reload(p)
      PROVE  FiniteDrains' /\ (\A q \in Pages : WorksOff(q))
  <2>1. page'[p].todo = {} /\ \A q \in Pages : q # p => page'[q] = page[q]
    BY <1>9, ReloadTypes
  <2>2. page'[p].drain = "none"
    BY <1>9 DEF Reload, FreshPage, TypeInv, TypeOK
  <2> QED  BY <1>1, <1>4, <2>1, <2>2, FS_EmptySet DEF WorksOff
<1>10. ASSUME NEW p \in Pages, Loop(p)
       PROVE  FiniteDrains' /\ (\A q \in Pages : WorksOff(q))
  <2>1. /\ IsFiniteSet(page'[p].todo)
        /\ \A q \in Pages : q # p => page'[q] = page[q]
        /\ page'[p].drain = "none" \/ StepsLeft(p)' < StepsLeft(p)
    BY <1>10, LoopWorksOff
  <2>2. StepsLeft(p) \in Nat /\ (page'[p].drain = "none" \/ StepsLeft(p)' <= StepsLeft(p))
    <3>1. StepsLeft(p) \in Nat
      BY <1>1
    <3>2. TypeInv'
      BY NextTypes
    <3>3. page'[p].stage \in {"next", "sending", "applied", "answered"}
      BY <3>2, PageFacts DEF TypeInv, TypeOK, Page
    <3>4. StageNumber[page'[p].stage] \in Int
      BY <3>3 DEF StageNumber
    <3>5. Cardinality(page'[p].todo) \in Int
      BY <2>1, FS_CardinalityType
    <3>6. StepsLeft(p)' \in Int
      BY <3>4, <3>5 DEF StepsLeft, StageNumber
    <3> QED  BY <2>1, <3>1, <3>6
  <2> QED  BY <1>2, <1>4, <2>1, <2>2 DEF WorksOff
<1> QED  BY <1>6, <1>7, <1>8, <1>9, <1>10 DEF Next

\* A page's drain never gets more to do than its snapshot, and each step of its loop,
\* whatever fails, does some of it: nothing another page or the user does, and no
\* connection that comes and goes, makes it longer.
DrainsWorkOff == [][\A p \in Pages : WorksOff(p)]_vars

THEOREM DrainsRunDown == Spec => DrainsWorkOff
<1> DEFINE Inv == TypeInv /\ FiniteDrains
           Work == \A p \in Pages : WorksOff(p)
<1>1. Init => Inv
  <2> SUFFICES ASSUME Init, NEW p \in Pages PROVE IsFiniteSet(page[p].todo)
    BY InitTypes DEF FiniteDrains
  <2>1. page[p].todo = {}
    BY DEF Init, FreshPage
  <2> QED  BY <2>1, FS_EmptySet
<1>2. Inv /\ [Next]_vars => Inv' /\ Work
  <2> HIDE DEF WorksOff
  <2> QED  BY NextTypes, NextWorksOff
<1> HIDE DEF Inv
<1> QED  BY <1>1, <1>2, PTL DEF Spec, DrainsWorkOff

-----------------------------------------------------------------------------
(* With any number of pages, the server has done nothing that was not sent. *)

\* The pages that sent an item the server has not executed yet.
Senders == [i \in Nat |-> {p \in Pages : page[p].stage = "sending" /\ Current(p).id = i}]

\* Each record used up a sending of its own; where the counters stop, nothing is known.
SendInv ==
    \A i \in Items :
        /\ records[i] <= MaxCount
        /\ \/ records[i] + Cardinality(Senders[i]) <= history[i].sent
           \/ MaxCount <= history[i].sent

LEMMA SendingIsFinite ==
    ASSUME IsFiniteSet(Pages), NEW i \in Nat
    PROVE  IsFiniteSet(Senders[i]) /\ Cardinality(Senders[i]) \in Nat
<1>1. IsFiniteSet(Senders[i])
  BY FS_Subset DEF Senders
<1> QED  BY <1>1, FS_CardinalityType

\* A step that neither sends nor executes.
LEMMA SendsKept ==
    ASSUME TypeInv, SendInv, IsFiniteSet(Pages), Items' = Items, records' = records,
           \A i \in Items : history'[i].sent = history[i].sent,
           \A q \in Pages : page'[q].stage = "sending" =>
               page[q].stage = "sending" /\ page'[q].todo = page[q].todo
    PROVE  SendInv'
<1> SUFFICES ASSUME NEW i \in Items
             PROVE  /\ records[i] <= MaxCount
                    /\ \/ records[i] + Cardinality(Senders'[i]) <= history[i].sent
                       \/ MaxCount <= history[i].sent
  BY DEF SendInv
<1>0. Items \subseteq Nat
  BY ItemFacts
<1>1. Senders'[i] \subseteq Senders[i]
  BY <1>0, CurrentStays DEF Senders
<1>2. IsFiniteSet(Senders[i]) /\ Cardinality(Senders[i]) \in Nat
  BY <1>0, SendingIsFinite
<1>3. /\ Cardinality(Senders'[i]) \in Nat
      /\ Cardinality(Senders'[i]) <= Cardinality(Senders[i])
  <2>1. IsFiniteSet(Senders'[i]) /\ Cardinality(Senders'[i]) <= Cardinality(Senders[i])
    BY <1>1, <1>2, FS_Subset
  <2> QED  BY <2>1, FS_CardinalityType
<1>4. records[i] \in Nat /\ history[i].sent \in Nat /\ MaxCount \in Nat
  BY ItemFacts, BoundsAssumption
<1>5. /\ records[i] <= MaxCount
      /\ \/ records[i] + Cardinality(Senders[i]) <= history[i].sent
         \/ MaxCount <= history[i].sent
  BY DEF SendInv
<1> QED  BY <1>2, <1>3, <1>4, <1>5

LEMMA SendItemSends ==
    ASSUME TypeInv, SendInv, IsFiniteSet(Pages), NEW p \in Pages, SendItem(p)
    PROVE  SendInv'
<1> DEFINE k == Current(p).id
<1>0. Items \subseteq Nat
  BY ItemFacts
<1>1. /\ k \in Items /\ Current(p) \in Copy /\ Current(p)' = Current(p)
      /\ page[p].stage = "next" /\ page'[p].stage = "sending" /\ records' = records
      /\ \A q \in Pages : q # p => page'[q] = page[q]
      /\ history'[k].sent = OneMore(history[k].sent)
      /\ \A i \in Items : i # k => history'[i] = history[i]
  BY SendItemTypes, CurrentCopy, CurrentStays
<1>2. Items' = Items
  <2>1. Put(Current(p), "SYNCING", Current(p).retryCount)
    BY SendItemTypes
  <2>2. Current(p).retryCount \in Nat
    BY <1>1 DEF Copy
  <2> QED  BY <1>1, <2>1, <2>2, PutEffect
<1>3. \A i \in Nat : IsFiniteSet(Senders[i]) /\ Cardinality(Senders[i]) \in Nat
  BY SendingIsFinite
<1>4. Senders'[k] = Senders[k] \cup {p} /\ p \notin Senders[k]
  BY <1>0, <1>1 DEF Senders, Current
<1>5. ASSUME NEW i \in Items, i # k
      PROVE  Senders'[i] = Senders[i]
  <2>1. i \in Nat
    BY <1>0
  <2>2. \A q \in Pages : (page'[q].stage = "sending" /\ Current(q)'.id = i)
                          <=> (page[q].stage = "sending" /\ Current(q).id = i)
    BY <1>1, <1>5 DEF Current
  <2> QED  BY <2>1, <2>2 DEF Senders
<1>6. \A i \in Items : records[i] \in Nat /\ history[i].sent \in Nat
  BY ItemFacts
<1>7. Cardinality(Senders[k] \cup {p}) = Cardinality(Senders[k]) + 1
  BY <1>0, <1>1, <1>3, <1>4, FS_AddElement
<1>8. k' = k
  BY <1>1
<1> HIDE DEF k
<1>9. /\ records'[k] <= MaxCount
      /\ \/ records'[k] + Cardinality(Senders'[k]) <= history'[k].sent
         \/ MaxCount <= history'[k].sent
  <2> DEFINE n == Cardinality(Senders[k])
             s == history[k].sent
  <2>1. /\ records[k] <= MaxCount
        /\ records[k] + n <= s \/ MaxCount <= s
    BY <1>1 DEF SendInv
  <2>2. n \in Nat /\ s \in Nat /\ records[k] \in Nat /\ MaxCount \in Nat
    BY <1>0, <1>1, <1>3, <1>6, BoundsAssumption
  <2>3. Cardinality(Senders'[k]) = n + 1 /\ history'[k].sent = OneMore(s) /\ records'[k] = records[k]
    BY <1>1, <1>4, <1>7
  <2> HIDE DEF n, s
  <2> QED  BY <2>1, <2>2, <2>3 DEF OneMore
<1>10. \A i \in Items : i # k =>
          /\ records'[i] <= MaxCount
          /\ \/ records'[i] + Cardinality(Senders'[i]) <= history'[i].sent
             \/ MaxCount <= history'[i].sent
  BY <1>1, <1>5 DEF SendInv
<1>11. ASSUME NEW i \in Items
      PROVE  /\ records'[i] <= MaxCount
             /\ \/ records'[i] + Cardinality(Senders'[i]) <= history'[i].sent
                \/ MaxCount <= history'[i].sent
  BY <1>9, <1>10
<1> QED  BY <1>2, <1>11 DEF SendInv

LEMMA ExecuteItemSends ==
    ASSUME TypeInv, SendInv, IsFiniteSet(Pages), NEW p \in Pages, ExecuteItem(p)
    PROVE  SendInv'
<1> DEFINE k == Current(p).id
<1>0. Items \subseteq Nat
  BY ItemFacts
<1>1. /\ k \in Items /\ Current(p)' = Current(p) /\ Items' = Items
      /\ page[p].stage = "sending" /\ page'[p].stage = "applied" /\ history' = history
      /\ \A q \in Pages : q # p => page'[q] = page[q]
      /\ records'[k] \in {1, OneMore(records[k])}
      /\ \A i \in Items : i # k => records'[i] = records[i]
  BY ExecuteItemTypes, CurrentCopy, CurrentStays DEF Items
<1>2. \A i \in Nat : IsFiniteSet(Senders[i]) /\ Cardinality(Senders[i]) \in Nat
  BY SendingIsFinite
<1>3. Senders'[k] = Senders[k] \ {p} /\ p \in Senders[k]
  BY <1>0, <1>1 DEF Senders, Current
<1>4. \A i \in Items : i # k => Senders'[i] = Senders[i]
  BY <1>0, <1>1 DEF Senders, Current
<1>5. \A i \in Items : records[i] \in Nat /\ history[i].sent \in Nat
  BY ItemFacts
<1>6. Cardinality(Senders[k] \ {p}) = Cardinality(Senders[k]) - 1
  BY <1>0, <1>1, <1>2, <1>3, FS_RemoveElement
<1> HIDE DEF k
<1>7. /\ records'[k] <= MaxCount
      /\ \/ records'[k] + Cardinality(Senders'[k]) <= history'[k].sent
         \/ MaxCount <= history'[k].sent
  <2> DEFINE n == Cardinality(Senders[k])
             s == history[k].sent
  <2>1. /\ records[k] <= MaxCount
        /\ records[k] + n <= s \/ MaxCount <= s
    BY <1>1 DEF SendInv
  <2>2. n \in Nat /\ s \in Nat /\ records[k] \in Nat /\ MaxCount \in Nat \ {0}
    BY <1>0, <1>1, <1>2, <1>5, BoundsAssumption
  <2>3. /\ records'[k] \in Nat /\ records'[k] <= records[k] + 1 /\ records'[k] <= MaxCount
    BY <1>1, <2>1, <2>2 DEF OneMore
  <2>4. Cardinality(Senders'[k]) = n - 1 /\ history'[k].sent = s
    BY <1>1, <1>3, <1>6
  <2> HIDE DEF n, s
  <2> QED  BY <2>1, <2>2, <2>3, <2>4
<1>8. \A i \in Items : i # k =>
         /\ records'[i] <= MaxCount
         /\ \/ records'[i] + Cardinality(Senders'[i]) <= history'[i].sent
            \/ MaxCount <= history'[i].sent
  BY <1>1, <1>4 DEF SendInv
<1>9. ASSUME NEW i \in Items
      PROVE  /\ records'[i] <= MaxCount
             /\ \/ records'[i] + Cardinality(Senders'[i]) <= history'[i].sent
                \/ MaxCount <= history'[i].sent
  BY <1>7, <1>8
<1> QED  BY <1>1, <1>9 DEF SendInv

LEMMA EnqueueSends ==
    ASSUME TypeInv, SendInv, NEW kind \in Kinds, Enqueue(kind)
    PROVE  SendInv'
<1> DEFINE n == Len(queue) + 1
<1>0. Items \subseteq Nat /\ n \in Nat
  BY ItemFacts
<1>1. /\ page' = page /\ Items' = Items \cup {n} /\ n \notin Items
      /\ \A i \in Items : records'[i] = records[i] /\ history'[i] = history[i]
  BY EnqueueTypes
<1>2. records'[n] = 0 /\ history'[n].sent = 0
  <2>1. records'[n] = 0 /\ history'[n] = [sent |-> 0, unheard |-> 0]
    BY EnqueueTypes, Zenon
  <2> QED  BY <2>1
<1>3. \A i \in Nat : Senders'[i] = Senders[i]
  BY <1>1 DEF Senders, Current
<1>4. Senders[n] = {}
  <2>1. ASSUME NEW p \in Pages, page[p].stage = "sending"
        PROVE  Current(p).id \in Items
    BY <2>1, PageFacts, CurrentCopy
  <2> QED  BY <1>1, <2>1 DEF Senders
<1>5. Cardinality({}) = 0
  BY FS_EmptySet
<1> HIDE DEF n
<1>6. /\ records'[n] <= MaxCount
      /\ records'[n] + Cardinality(Senders'[n]) <= history'[n].sent
  <2>1. Senders'[n] = {}
    BY <1>0, <1>3, <1>4
  <2> QED  BY <1>2, <1>5, <2>1, BoundsAssumption
<1>7. \A i \in Items : /\ records'[i] <= MaxCount
                        /\ \/ records'[i] + Cardinality(Senders'[i]) <= history'[i].sent
                           \/ MaxCount <= history'[i].sent
  BY <1>0, <1>1, <1>3 DEF SendInv
<1>8. ASSUME NEW i \in Items'
      PROVE  /\ records'[i] <= MaxCount
             /\ \/ records'[i] + Cardinality(Senders'[i]) <= history'[i].sent
                \/ MaxCount <= history'[i].sent
  BY <1>1, <1>6, <1>7
<1> QED  BY <1>8 DEF SendInv

LEMMA NextSends ==
    ASSUME IsFiniteSet(Pages)
    PROVE  TypeInv /\ SendInv /\ [Next]_vars => SendInv'
<1> SUFFICES ASSUME TypeInv, SendInv, [Next]_vars PROVE SendInv'
  OBVIOUS
<1>1. CASE UNCHANGED vars
  BY <1>1, SendsKept DEF vars, Items
<1>2. CASE GoOffline \/ GoOnline
  BY <1>2, ConnectionTypes, SendsKept DEF Items
<1>3. ASSUME NEW p \in Pages, RunEffect(p) \/ ForceSync(p) \/ SkipItem(p) \/ EndDrain(p)
      PROVE  SendInv'
  <2>1. /\ UNCHANGED <<queue, records, history>>
        /\ \A q \in Pages : q # p => page'[q] = page[q]
        /\ \/ page'[p].stage = "next"
           \/ page'[p].todo = page[p].todo /\ page'[p].stage = page[p].stage
    BY <1>3, RunEffectTypes, ForceSyncTypes, SkipItemTypes, EndDrainTypes
  <2>2. \A q \in Pages : page'[q].stage = "sending" =>
           page[q].stage = "sending" /\ page'[q].todo = page[q].todo
    BY <2>1
  <2> QED  BY <2>1, <2>2, SendsKept DEF Items
<1>4. ASSUME NEW p \in Pages, Reload(p) \/ FailItem(p)
      PROVE  SendInv'
  <2>1. /\ records' = records /\ Unheard(p) /\ page'[p].stage = "next"
        /\ \A q \in Pages : q # p => page'[q] = page[q]
    BY <1>4, ReloadTypes, FailItemTypes
  <2>2. \A i \in Items : history'[i].sent = history[i].sent
    BY <2>1, UnheardEffect
  <2>3. Items' = Items
    <3>1. CASE Reload(p)
      BY <3>1, ReloadTypes DEF Items
    <3>2. CASE FailItem(p)
      <4>1. /\ Current(p) \in Copy /\ Current(p).id \in Items /\ Current(p).retryCount + 1 \in Nat
            /\ Put(Current(p), "ERROR", Current(p).retryCount + 1)
        BY <3>2, FailItemTypes, CurrentCopy DEF Copy
      <4> QED  BY <4>1, PutEffect
    <3> QED  BY <1>4, <3>1, <3>2
  <2> QED  BY <2>1, <2>2, <2>3, SendsKept
<1>5. ASSUME NEW p \in Pages, CompleteItem(p) \/ RemoveItem(p)
      PROVE  SendInv'
  <2>1. /\ UNCHANGED <<records, history>> /\ page'[p].stage \in {"next", "answered"}
        /\ \A q \in Pages : q # p => page'[q] = page[q]
    BY <1>5, CompleteItemTypes, RemoveItemTypes
  <2>2. Items' = Items
    BY <1>5 DEF CompleteItem, RemoveItem, Put, Items, TypeInv, TypeOK
  <2> QED  BY <2>1, <2>2, SendsKept
<1> QED  BY <1>1, <1>2, <1>3, <1>4, <1>5, EnqueueSends, SendItemSends, ExecuteItemSends
         DEF Next, Loop

\* However many pages drain the queue with copies of their own, and are reloaded, the
\* server made at most as many records for an item as it was sent: a page that fails,
\* completes or forgets an item never has it done once more.
EveryRecordWasSent == \A i \in Items : records[i] <= history[i].sent

THEOREM RecordsWereSent == IsFiniteSet(Pages) /\ Spec => []EveryRecordWasSent
<1> SUFFICES ASSUME IsFiniteSet(Pages) PROVE Spec => []EveryRecordWasSent
  OBVIOUS
<1> DEFINE Inv == TypeInv /\ SendInv
<1>1. Init => Inv
  BY InitTypes DEF Init, SendInv, Items
<1>2. Inv /\ [Next]_vars => Inv'
  BY NextTypes, NextSends
<1>3. Inv => EveryRecordWasSent
  <2> SUFFICES ASSUME Inv, NEW i \in Items PROVE records[i] <= history[i].sent
    BY DEF EveryRecordWasSent
  <2>1. /\ records[i] \in Nat /\ history[i].sent \in Nat /\ MaxCount \in Nat
        /\ Cardinality(Senders[i]) \in Nat
    <3>1. i \in Nat
      BY ItemFacts
    <3> QED  BY <3>1, ItemFacts, SendingIsFinite, BoundsAssumption
  <2>2. /\ records[i] <= MaxCount
        /\ \/ records[i] + Cardinality(Senders[i]) <= history[i].sent
           \/ MaxCount <= history[i].sent
    BY DEF SendInv
  <2> QED  BY <2>1, <2>2
<1> QED  BY <1>1, <1>2, <1>3, PTL DEF Spec
=============================================================================
