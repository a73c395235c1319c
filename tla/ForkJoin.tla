------------------------------ MODULE ForkJoin ------------------------------
(***************************************************************************)
(* What the Anahy runtime promises to a fork/join program, whatever the    *)
(* number of virtual processors: a forked job is started once, by some VP; *)
(* a join returns only after the job's function has ended and uses up one  *)
(* of the joins the job was given; and the environment ends only when no   *)
(* forked job is waiting or running.                                       *)
(***************************************************************************)
EXTENDS Naturals

CONSTANTS Jobs, Joins

VARIABLES status, joins, ended

fjVars == <<status, joins, ended>>

FJInit ==
    /\ status = [j \in Jobs |-> "New"]
    /\ joins = Joins
    /\ ended = FALSE

Move(j, from, to) ==
    /\ status[j] = from
    /\ status' = [status EXCEPT ![j] = to]
    /\ UNCHANGED <<joins, ended>>

FJFork(j)   == Move(j, "New", "Ready")
FJStart(j)  == Move(j, "Ready", "Running")
FJFinish(j) == Move(j, "Running", "Finished")

FJJoin(j) ==
    /\ status[j] = "Finished" /\ joins[j] > 0
    /\ joins' = [joins EXCEPT ![j] = @ - 1]
    /\ UNCHANGED <<status, ended>>

FJEnd ==
    /\ \A j \in Jobs : status[j] \in {"New", "Finished"}
    /\ ended' = TRUE
    /\ UNCHANGED <<status, joins>>

FJNext ==
    /\ ~ended
    /\ \/ \E j \in Jobs : FJFork(j) \/ FJStart(j) \/ FJFinish(j) \/ FJJoin(j)
       \/ FJEnd

FJSpec == FJInit /\ [][FJNext]_fjVars
=============================================================================
