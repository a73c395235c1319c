--------------------------- MODULE AnahySmartHeap ---------------------------
(***************************************************************************)
(* SRC/lib/AnahySmartHeap.h, the job list of a virtual processor: an array *)
(* that grows and shrinks and is kept as a binary heap on the jobs' ids.   *)
(* The owner VP inserts and takes the last element, thieves take the       *)
(* first.  heap is the used part heap[1 .. _cur_size] of the array; one    *)
(* step is one call up to its sift loop, or one iteration of that loop.    *)
(* The list's mutex is held during a call, so calls do not overlap.        *)
(***************************************************************************)
EXTENDS Integers, Sequences

CONSTANTS
    Elements,    \* the ids of the jobs
    None,        \* the NULL that an extraction from an empty heap returns
    MinCapacity, \* the smallest array the constructor allocates (12)
    Size,        \* the constructor's argument (64)
    Increasing,  \* ids are given out in order, as fork_job does
    MaxSteals    \* bound on the calls of extract_min

ASSUME HeapAssumption ==
    /\ Elements \subseteq Nat
    /\ None \notin Elements
    /\ MinCapacity \in Nat /\ MinCapacity >= 4
    /\ Size \in Nat
    /\ Increasing \in BOOLEAN
    /\ MaxSteals \in Nat

VARIABLES
    heap,      \* the elements in use; Len(heap) is _cur_size
    upper,     \* _upper_bound: the slots of the array, slot 0 unused
    lower,     \* _lower_bound: the size at which the array is halved
    pc,        \* "idle", or in the loop of heapify_"up" or heapify_"down"
    idx,       \* child_index of heapify_up, parent_index of heapify_down
    out,       \* what the last extraction returned
    inserted,  \* every element inserted so far
    steals     \* calls of extract_min so far

vars == <<heap, upper, lower, pc, idx, out, inserted, steals>>

\* _min_size.
MinSize == IF Size < MinCapacity THEN MinCapacity ELSE Size

Init ==
    /\ heap = <<>>
    /\ upper = MinSize /\ lower = MinSize \div 4
    /\ pc = "idle" /\ idx = 1
    /\ out = None
    /\ inserted = {} /\ steals = 0

Pop(s) == SubSeq(s, 1, Len(s) - 1)

\* What an array of n slots holds of h: a slot that it does not have gives no
\* element back.
Stored(h, n) == [i \in 1 .. Len(h) |-> IF i < n THEN h[i] ELSE None]

Swap(h, i, k) == [h EXCEPT ![i] = h[k], ![k] = h[i]]

\* Mutant: the array is grown one element too late.
Grow_Late(n) ==
    LET k == IF n = upper + 1 THEN 2 ELSE 1
    IN  upper' = k * upper /\ lower' = k * lower

\* insert: the array is doubled when the new size n reaches it.
Grow(n) ==
    LET k == IF n = upper THEN 2 ELSE 1
    IN  upper' = k * upper /\ lower' = k * lower

\* Mutant: the array is halved when it is half empty.
Shrink_HalfEmpty(n) ==
    LET k == IF n = upper \div 2 /\ n > MinSize THEN 2 ELSE 1
    IN  upper' = upper \div k /\ lower' = lower \div k

\* extract_min, extract_last: halved at the lower bound, above the minimum.
Shrink(n) ==
    LET k == IF n = lower /\ n > MinSize THEN 2 ELSE 1
    IN  upper' = upper \div k /\ lower' = lower \div k

Insert(e) ==
    /\ pc = "idle" /\ e \notin inserted
    /\ Increasing => \A d \in Elements : d < e => d \in inserted
    /\ Grow(Len(heap) + 1)
    /\ heap' = Stored(Append(heap, e), upper')
    /\ pc' = "up" /\ idx' = Len(heap) + 1
    /\ inserted' = inserted \cup {e}
    /\ UNCHANGED <<out, steals>>

\* Mutant: the comparison is turned around.
Above_Reversed(i, k) == heap[i] < heap[k]

\* POINTER_GT_OPERATOR on two slots.
Above(i, k) == heap[i] > heap[k]

HeapifyUp ==
    /\ pc = "up"
    /\ LET parent == idx \div 2
       IN  IF parent >= 1 /\ idx > 1 /\ Above(parent, idx)
           THEN /\ heap' = Swap(heap, parent, idx)
                /\ idx' = parent /\ UNCHANGED pc
           ELSE /\ pc' = "idle" /\ idx' = 1 /\ UNCHANGED heap
    /\ UNCHANGED <<upper, lower, out, inserted, steals>>

\* heap[1] = heap[_cur_size]; _cur_size--.
WithoutFirst(h) == Pop([h EXCEPT ![1] = h[Len(h)]])

ExtractMin ==
    /\ pc = "idle" /\ heap # <<>> /\ steals < MaxSteals
    /\ out' = heap[1]
    /\ Shrink(Len(heap) - 1)
    /\ heap' = Stored(WithoutFirst(heap), upper')
    /\ pc' = "down" /\ idx' = 1
    /\ steals' = steals + 1
    /\ UNCHANGED inserted

\* Mutant: the loop forgets to go down to the child.
SiftTo_Same(c) == idx' = idx

\* parent_index = child_index.
SiftTo(c) == idx' = c

\* The loop always exchanges parent and smaller child: it never compares them.
HeapifyDown ==
    /\ pc = "down"
    /\ LET left  == 2 * idx
           right == 2 * idx + 1
           child == IF right <= Len(heap) /\ Above(left, right) THEN right ELSE left
       IN  IF left <= Len(heap)
           THEN /\ heap' = Swap(heap, idx, child)
                /\ SiftTo(child) /\ UNCHANGED pc
           ELSE /\ pc' = "idle" /\ idx' = 1 /\ UNCHANGED heap
    /\ UNCHANGED <<upper, lower, out, inserted, steals>>

ExtractLast ==
    /\ pc = "idle" /\ heap # <<>>
    /\ out' = heap[Len(heap)]
    /\ Shrink(Len(heap) - 1)
    /\ heap' = Stored(Pop(heap), upper')
    /\ UNCHANGED <<pc, idx, inserted, steals>>

\* Either extraction from an empty heap returns NULL.
ExtractEmpty ==
    /\ pc = "idle" /\ heap = <<>>
    /\ out' = None
    /\ UNCHANGED <<heap, upper, lower, pc, idx, inserted, steals>>

Next ==
    \/ \E e \in Elements : Insert(e)
    \/ HeapifyUp \/ HeapifyDown
    \/ ExtractMin \/ ExtractLast \/ ExtractEmpty

Spec == Init /\ [][Next]_vars

\* A call that has begun goes on: the caller's thread is scheduled.
FairSpec == Spec /\ WF_vars(HeapifyUp) /\ WF_vars(HeapifyDown)

-----------------------------------------------------------------------------
\* The type of every variable; a sift loop is at a slot in use.
TypeOK ==
    /\ heap \in Seq(Elements)
    /\ upper \in Nat /\ lower \in Nat
    /\ pc \in {"idle", "up", "down"}
    /\ idx \in Nat \ {0}
    /\ pc # "idle" => idx = 1 \/ idx <= Len(heap)
    /\ out \in Elements \cup {None}
    /\ inserted \in SUBSET Elements
    /\ steals \in 0 .. MaxSteals

\* No access is outside the array, whatever it grew and shrank through: every
\* slot in use, and the one the next insert writes, is one of its slots, and
\* halving never cuts a used slot off.
InBounds ==
    /\ Len(heap) < upper /\ upper >= MinSize
    /\ 4 * lower <= upper

Contents == {heap[i] : i \in 1 .. Len(heap)}

Pool == INSTANCE JobPool WITH pool <- Contents

\* The heap is a pool: sifting loses and duplicates no job, and an extraction
\* returns a job that was inserted and not yet extracted; no realloc cuts off a
\* slot in use.
IsPool == Pool!PoolSpec

\* As long as no thief came, the list is in fork order: the owner takes its
\* newest job and the first thief will take the oldest one.
InForkOrderUntilTheft ==
    Increasing /\ steals = 0 =>
        \A i, k \in 1 .. Len(heap) : i < k => heap[i] < heap[k]

\* extract_min returns the smallest element, the oldest job of the list.
MinIsReturned ==
    [][steals' # steals => \A x \in Contents : out' <= x]_vars

\* Every call returns.
CallReturns == pc # "idle" ~> pc = "idle"
=============================================================================
