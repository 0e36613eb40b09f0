---------------------------- MODULE MCOfflineSync ----------------------------
(* Small instances of OfflineSync for TLC.                                  *)
EXTENDS OfflineSync
=============================================================================
