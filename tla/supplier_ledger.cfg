\* Two requests on one supplier's ledger.
CONSTANTS
    Requests = {r1, r2}
    PayBodies <- TwoPayments
    Totals = {2}
    MailOrders = {m1}
    MailAmount = 1
    MaxReceipts = 2
SPECIFICATION Spec
INVARIANTS
    TypeOK
    StatementAddsUp
    OverdraftIsBounded
    AnsweredIsBooked
PROPERTY CountedEntriesStay
