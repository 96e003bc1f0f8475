------------------------------ MODULE MCUpdater ------------------------------
(* An instance of Updater for TLC: its constants are in the .cfg files.    *)
EXTENDS Updater
=============================================================================
