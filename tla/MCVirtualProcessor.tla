------------------------- MODULE MCVirtualProcessor -------------------------
(* Instances of the scheduler for TLC. *)
EXTENDS VirtualProcessorInv, TLC

\* Jobs are interchangeable when they have the same counters and flags.
JobSymmetry == Permutations(Jobs)

JoinOnce  == [j \in Jobs |-> 1]
JoinTwice == [j \in Jobs |-> 2]

\* Any function may fork a job.
AnyFunction == [j \in Jobs |-> Fns]

\* Who may join a job besides the function that forked it.
NobodyElse == [j \in Jobs |-> {}]
OtherJobs  == [j \in Jobs |-> Jobs \ {j}]
=============================================================================
