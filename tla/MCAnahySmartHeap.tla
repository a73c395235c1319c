-------------------------- MODULE MCAnahySmartHeap --------------------------
(* Instances of the job heap for TLC. *)
EXTENDS AnahySmartHeap

SevenIds == 1 .. 7
=============================================================================
