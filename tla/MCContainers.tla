---------------------------- MODULE MCContainers ----------------------------
(***************************************************************************)
(* The two containers of a virtual processor for TLC: a behaviour is a     *)
(* sequence of calls on one of them, and the other is left as constructed. *)
(***************************************************************************)
EXTENDS AnahySmartHeap, AnahySmartStack

VARIABLE container

SixteenIds == 1 .. 16

ContainersInit == Init /\ NewStack /\ container \in {"heap", "stack"}

OnHeap(A)  == container = "heap" /\ A /\ UNCHANGED <<stackVars, container>>
OnStack(A) == container = "stack" /\ A /\ UNCHANGED <<vars, container>>

ContainersNext == OnHeap(Next) \/ OnStack(StackNext)

\* A call on the heap that has begun goes on.
ContainersSpec ==
    /\ ContainersInit /\ [][ContainersNext]_<<vars, stackVars, container>>
    /\ WF_vars(OnHeap(HeapifyUp)) /\ WF_vars(OnHeap(HeapifyDown))
=============================================================================
