---------------------------- MODULE MCSenderClient ---------------------------
(* An instance of SenderClient for TLC: its bounds are in the .cfg file.   *)
EXTENDS SenderClient
=============================================================================
