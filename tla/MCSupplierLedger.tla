-------------------------- MODULE MCSupplierLedger --------------------------
(* Small instances of SupplierLedger for TLC.                               *)
EXTENDS SupplierLedger

Pay(k, n) == [key |-> k, amount |-> n]

\* Two payments without a key: theirs are derived from the bodies.
TwoPayments == {Pay("", 1), Pay("", 2)}

OneKey == {Pay("a", 2)}
=============================================================================
