------------------------------- MODULE MCTill -------------------------------
(* An instance of OfflineSales for TLC: its constants are in the .cfg files. *)
EXTENDS OfflineSales
=============================================================================
