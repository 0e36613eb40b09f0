----------------------------- MODULE MCDelivery -----------------------------
(* Small instances of Delivery for TLC.                                     *)
EXTENDS Delivery, TLC

\* Requests and lines are interchangeable; only safety is checked with it.
Symmetry == Permutations(Requests) \cup Permutations(Lines)
=============================================================================
