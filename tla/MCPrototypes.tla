---------------------------- MODULE MCPrototypes ----------------------------
(* Instances of the prototypes of the machine for TLC. *)
EXTENDS Prototypes, TLC

\* ListJobs is among GraphJobs here.  A job of the event daemons is an address,
\* and those have an order.
JobSymmetry == Permutations(ListJobs)
=============================================================================
