---------------------------- MODULE MCSyncOutbox ----------------------------
(* Instances of SyncOutbox for TLC: their constants are in the .cfg files. *)
EXTENDS SyncOutbox
=============================================================================
