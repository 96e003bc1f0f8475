---------------------------- MODULE MCSenderQueue ---------------------------
(* An instance of SenderQueue for TLC: its bounds are in the .cfg file.    *)
EXTENDS SenderQueue
=============================================================================
