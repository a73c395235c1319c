------------------------------ MODULE JobPool ------------------------------
(***************************************************************************)
(* What the scheduler relies on in a VP's job list: what is inserted comes *)
(* out exactly once.  No order is promised.                                *)
(***************************************************************************)
CONSTANTS Elements, None

VARIABLES pool, out

poolVars == <<pool, out>>

PoolInit == pool = {} /\ out = None

PoolInsert(e) ==
    /\ e \notin pool
    /\ pool' = pool \cup {e}
    /\ UNCHANGED out

PoolExtract(e) ==
    /\ e \in pool
    /\ pool' = pool \ {e}
    /\ out' = e

PoolExtractNone ==
    /\ pool = {} /\ out' = None
    /\ UNCHANGED pool

PoolNext ==
    \/ \E e \in Elements : PoolInsert(e) \/ PoolExtract(e)
    \/ PoolExtractNone

PoolSpec == PoolInit /\ [][PoolNext]_poolVars
=============================================================================
