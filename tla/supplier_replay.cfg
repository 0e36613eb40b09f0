\* One client that sends its payment again.
CONSTANTS
    Requests = {r1}
    PayBodies <- OneKey
    Totals = {2}
    MailOrders = {}
    MailAmount = 1
    MaxReceipts = 1
SPECIFICATION Spec
PROPERTY ReplaysAreAnswered
