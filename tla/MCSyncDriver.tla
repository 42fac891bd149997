---------------------------- MODULE MCSyncDriver ----------------------------
(* Instances of SyncDriver for TLC.                                         *)
EXTENDS SyncDriver, TLC

Drivers == Permutations(Driver)
=============================================================================
