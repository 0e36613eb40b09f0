--------------------------- MODULE PaymentLedger ---------------------------
(***************************************************************************)
(* What the payments of one order promise, without requests, transactions, *)
(* keys and suppliers: a book of entries, each asked for or posted once,   *)
(* decided once and refunded at most once, and a balance that is at every  *)
(* moment what the posted entries are worth.                               *)
(***************************************************************************)
EXTENDS Integers, FiniteSets, FiniteSetsExt

CONSTANTS
    Ids,     \* the entries the book may get
    Amounts, \* what they may be worth
    None     \* no entry

VARIABLES
    book,   \* each entry's status, worth, and the entry it gives back
    paid    \* what the order is taken to be paid

vars == <<book, paid>>

NoEntry == [status |-> "NONE", delta |-> 0, of |-> None]

Posted(b) == {p \in Ids : b[p].status = "POSTED"}

\* Refunds never bring the order below zero.
Worth(b) ==
    LET sum == MapThenSumSet(LAMBDA e : e.delta, {[id |-> p, delta |-> b[p].delta] : p \in Posted(b)})
    IN  IF sum \in Nat THEN sum ELSE 0

Init ==
    /\ book = [p \in Ids |-> NoEntry]
    /\ paid = 0

Enter(p, entry) ==
    /\ book[p] = NoEntry
    /\ book' = [book EXCEPT ![p] = entry]

\* A payment somebody has to approve.
Request(p, amount) ==
    /\ Enter(p, [status |-> "PENDING", delta |-> amount, of |-> None])
    /\ UNCHANGED paid

Collect(p, amount) ==
    /\ Enter(p, [status |-> "POSTED", delta |-> amount, of |-> None])
    /\ paid' = Worth(book')

Approve(p) ==
    /\ book[p].status = "PENDING"
    /\ book' = [book EXCEPT ![p].status = "POSTED"]
    /\ paid' = Worth(book')

Reject(p) ==
    /\ book[p].status = "PENDING"
    /\ book' = [book EXCEPT ![p].status = "REJECTED"]
    /\ UNCHANGED paid

\* Of a posted payment, once.
Refund(p, source, amount) ==
    /\ source \in Posted(book) /\ book[source].of = None
    /\ \A q \in Ids : book[q].of # source
    /\ Enter(p, [status |-> "POSTED", delta |-> 0 - amount, of |-> source])
    /\ paid' = Worth(book')

\* One entry changes, in one of these ways.
Next ==
    \E p \in Ids :
        /\ book'[p] # book[p]
        /\ \/ \E amount \in Amounts : Request(p, amount) \/ Collect(p, amount)
           \/ Approve(p) \/ Reject(p)
           \/ \E source \in Posted(book), amount \in Amounts : Refund(p, source, amount)

Spec == Init /\ [][Next]_vars
=============================================================================
