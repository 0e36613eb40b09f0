--------------------------- MODULE MCOrderSupply ---------------------------
(* Small instances of OrderSupply for TLC.                                  *)
EXTENDS OrderSupply, TLC

\* Lines and requests are interchangeable; only safety is checked with it.
Symmetry == Permutations(Lines) \cup Permutations(Requests)
=============================================================================
