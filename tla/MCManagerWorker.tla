--------------------------- MODULE MCManagerWorker ---------------------------
(* Instances of the manager-and-worker prototype for TLC. *)
EXTENDS ManagerWorker
=============================================================================
