------------------------------ MODULE MainLoop ------------------------------
(***************************************************************************)
(* Sandbox/main_loop.cpp, the prototype of a scheduling loop with one      *)
(* shared task list, one mutex and one condition variable.  VPs take tasks *)
(* from the list; one that finds it empty waits, and the last one to do so *)
(* ends the program.  One action is one critical section of the mutex.     *)
(***************************************************************************)
EXTENDS Integers, Sequences, FiniteSets

CONSTANTS
    num_vps,
    num_tasks,
    MaxTasks,    \* after this many additions, new tasks have cost 4
    MaxSpurious  \* bound on the spurious returns of pthread_cond_wait

VARIABLES
    pc,                \* per VP
    task,              \* per VP, the task it runs
    task_list,
    vps_waiting,
    program_finished,
    started,           \* threads that main has created
    added, spurious    \* for the bounds MaxTasks and MaxSpurious

vars == <<pc, task, task_list, vps_waiting, program_finished, started, added,
          spurious>>

VPs == 1 .. num_vps

\* new_task: the cost is 3, 4 or 5; only 5 makes update_graph add a task, and
\* 4 stands for 3 too.
Costs == {4, 5}

Init ==
    /\ pc = [p \in VPs |-> "new"] /\ task = [p \in VPs |-> 0]
    /\ task_list \in [1 .. num_tasks -> Costs]
    /\ vps_waiting = 0 /\ program_finished = FALSE
    /\ started = 0 /\ added = 0 /\ spurious = 0

\* main's loop of pthread_create.
CreateVP ==
    /\ started < num_vps
    /\ started' = started + 1
    /\ pc' = [pc EXCEPT ![started'] = "loop"]
    /\ UNCHANGED <<task, task_list, vps_waiting, program_finished, added, spurious>>

\* pthread_cond_broadcast, after p has gone to where.
Broadcast(p, where) ==
    [q \in VPs |-> IF q = p THEN where
                   ELSE IF pc[q] = "waiting" THEN "woken" ELSE pc[q]]

\* Mutant: the waiting VPs are not told.
EndProgram_Silent(p) == program_finished' = TRUE /\ UNCHANGED pc

\* The last VP to become idle ends the program and wakes the others.
EndProgram(p) == program_finished' = TRUE /\ pc' = Broadcast(p, "loop")

\* Mutant: one VP too early.
LastToWait_Early(n) == n >= num_vps - 1

LastToWait(n) == n = num_vps

\* vp_func's critical section.
Loop(p) ==
    /\ pc[p] = "loop"
    /\ \/ /\ program_finished
          /\ pc' = [pc EXCEPT ![p] = "ended"]
          /\ UNCHANGED <<task, task_list, vps_waiting, program_finished>>
       \/ /\ ~program_finished /\ task_list # <<>>
          /\ task' = [task EXCEPT ![p] = Head(task_list)]
          /\ task_list' = Tail(task_list)
          /\ pc' = [pc EXCEPT ![p] = "run"]
          /\ UNCHANGED <<vps_waiting, program_finished>>
       \/ /\ ~program_finished /\ task_list = <<>>
          /\ vps_waiting' = vps_waiting + 1
          /\ IF LastToWait(vps_waiting')
             THEN EndProgram(p)
             ELSE pc' = [pc EXCEPT ![p] = "waiting"] /\ UNCHANGED program_finished
          /\ UNCHANGED <<task, task_list>>
    /\ UNCHANGED <<started, added, spurious>>

\* run_task and update_graph: a task of cost 5 adds a task and wakes the VPs
\* that wait.
RunTask(p) ==
    /\ pc[p] = "run"
    /\ IF task[p] = 5
       THEN /\ \E c \in IF added < MaxTasks THEN Costs ELSE {4} :
                  task_list' = Append(task_list, c)
            /\ added' = added + 1
            /\ pc' = Broadcast(p, "loop")
       ELSE /\ pc' = [pc EXCEPT ![p] = "loop"]
            /\ UNCHANGED <<task_list, added>>
    /\ task' = [task EXCEPT ![p] = 0]
    /\ UNCHANGED <<vps_waiting, program_finished, started, spurious>>

\* pthread_cond_wait returns with the mutex held.
Wake(p) ==
    /\ pc[p] = "woken"
    /\ vps_waiting' = vps_waiting - 1
    /\ pc' = [pc EXCEPT ![p] = "loop"]
    /\ UNCHANGED <<task, task_list, program_finished, started, added, spurious>>

\* pthread_cond_wait may return though nobody signalled.
SpuriousWake(p) ==
    /\ pc[p] = "waiting" /\ spurious < MaxSpurious
    /\ spurious' = spurious + 1
    /\ pc' = [pc EXCEPT ![p] = "woken"]
    /\ UNCHANGED <<task, task_list, vps_waiting, program_finished, started, added>>

\* main has joined every VP.
AllEnded == \A p \in VPs : pc[p] = "ended"

Step(p) == Loop(p) \/ RunTask(p) \/ Wake(p)

Next ==
    \/ CreateVP
    \/ \E p \in VPs : Step(p) \/ SpuriousWake(p)

Spec == Init /\ [][Next]_vars

-----------------------------------------------------------------------------
\* The program is declared finished only when no task is left in the list, no
\* VP runs one that could add another, and every VP that was woken and has not
\* got the mutex yet is still counted: a broadcast in update_graph that races
\* with the count of idle VPs ends nothing too early.
FinishedMeansDone ==
    program_finished => task_list = <<>> /\ \A p \in VPs : pc[p] \notin {"new", "run"}
=============================================================================
