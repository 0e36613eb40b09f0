-------------------------- MODULE MCFieldOperations --------------------------
(* Small instances of FieldOperations for TLC.                              *)
EXTENDS FieldOperations, TLC

\* The slots that serve requests are interchangeable.
RequestSymmetry == Permutations(Requests)
=============================================================================
