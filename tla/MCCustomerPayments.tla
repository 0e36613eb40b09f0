------------------------- MODULE MCCustomerPayments -------------------------
(* Small instances of CustomerPayments for TLC.                             *)
EXTENDS CustomerPayments

Capture(k, n)   == [key |-> k, kind |-> "CAPTURE", amount |-> n]
MailOrder(k, n) == [key |-> k, kind |-> "MAIL_ORDER", amount |-> n]

\* One keyed mail order and one cash payment whose key is derived from its body.
TwoBodies == {MailOrder("m", 2), Capture("", 1)}

TwoMailOrders == {MailOrder("m", 2), MailOrder("n", 2)}

FullRefund == {[key |-> "", amount |-> 0]}
FullAndPartialRefund == FullRefund \cup {[key |-> "r", amount |-> 1]}
=============================================================================
