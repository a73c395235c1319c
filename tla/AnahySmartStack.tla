--------------------------- MODULE AnahySmartStack ---------------------------
(***************************************************************************)
(* SRC/lib/AnahySmartStack.h, the context stack of a virtual processor: a  *)
(* stack in an array that realloc doubles and halves.  The array is        *)
(* explicit, with Garbage in the slots nothing was written to, so that a   *)
(* write outside the array or a slot that a realloc cut off shows.         *)
(***************************************************************************)
EXTENDS Integers

CONSTANTS
    Values,            \* what is pushed: the suspended jobs
    Garbage,           \* the content of a slot that malloc or realloc just made
    StackMinCapacity,  \* the smallest array the constructor allocates (12)
    StackSize,         \* the constructor's argument (1024)
    MaxDepth           \* bound on the pushes without a pop

ASSUME StackAssumption ==
    /\ Garbage \notin Values
    /\ StackMinCapacity \in Nat /\ StackMinCapacity >= 4
    /\ StackSize \in Nat
    /\ MaxDepth \in Nat

VARIABLES
    array,     \* _array
    cur,       \* _current_size
    capacity,  \* _upper_bound
    quarter    \* _lower_bound

stackVars == <<array, cur, capacity, quarter>>

StackMinSize == IF StackSize < StackMinCapacity THEN StackMinCapacity ELSE StackSize

\* realloc to n slots keeps what fits.
Realloc(n) ==
    [i \in 0 .. n - 1 |-> IF i \in DOMAIN array THEN array[i] ELSE Garbage]

NewStack ==
    /\ capacity = StackMinSize /\ quarter = StackMinSize \div 4
    /\ cur = 0
    /\ array = [i \in 0 .. StackMinSize - 1 |-> Garbage]

Full == cur = capacity

Push(v) ==
    /\ cur < MaxDepth
    /\ LET k == IF Full THEN 2 ELSE 1
       IN  /\ capacity' = k * capacity /\ quarter' = k * quarter
           /\ array' = [Realloc(k * capacity) EXCEPT ![cur] = v]
    /\ cur' = cur + 1

\* Mutant: the array is halved without looking at what is in use.
Sparse_AnySize == quarter > StackMinSize

Sparse == cur = quarter /\ quarter > StackMinSize

\* top() and pop(): a VP pops only what it pushed.
PopTop ==
    /\ cur > 0
    /\ LET k == IF Sparse THEN 2 ELSE 1
       IN  /\ capacity' = capacity \div k /\ quarter' = quarter \div k
           /\ array' = IF Sparse THEN Realloc(capacity \div 2) ELSE array
    /\ cur' = cur - 1

StackNext == (\E v \in Values : Push(v)) \/ PopTop

StackSpec == NewStack /\ [][StackNext]_stackVars

-----------------------------------------------------------------------------
\* The type of every variable; the array has _upper_bound slots.
StackTypeOK ==
    /\ capacity \in Nat /\ quarter \in Nat /\ cur \in Nat
    /\ array \in [0 .. capacity - 1 -> Values \cup {Garbage}]

\* Whatever the stack grew and shrank through, everything pushed fits, the
\* array is never smaller than at the start, and the size at which it is halved
\* is at most a quarter of its slots.
StackInBounds ==
    /\ cur <= capacity /\ capacity >= StackMinSize
    /\ 4 * quarter <= capacity

\* What top() returns was pushed: no resize loses a suspended context.
ContextsKept == \A i \in 0 .. cur - 1 : i < capacity /\ array[i] \in Values
=============================================================================
