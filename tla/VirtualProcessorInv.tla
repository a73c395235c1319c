------------------------- MODULE VirtualProcessorInv -------------------------
(***************************************************************************)
(* The inductive invariant of the scheduler, as long as fork_job never     *)
(* runs a job in place (Shallow).  It ties where a thread is (pc) to its   *)
(* C stack, its context stack, its list and the joins in progress.         *)
(***************************************************************************)
EXTENDS VirtualProcessor

\* No VP has so many suspended joins that fork_job would run a job in place.
Shallow == \A p \in VPs : Len(context_stack[p]) <= ContextLimit

\* The program has fewer jobs than a VP may have suspended joins.
FewJobs == IsFiniteSet(Jobs) /\ Cardinality(Jobs) < ContextLimit

\* In the code of a function on top of the stack, or in a join it called.
InFunction == {"user", "return", "check", "read", "dec"}
\* In run() itself, or not in run() at all.
NoFunction == {"start", "init", "idle", "sub", "left", "done"}

\* All functions of a stack but the top one are in a join; the top one is in a
\* join too unless its own code runs.  main() is only at the bottom of VP 0.
ShapeAt(p) ==
    /\ pc[p] \in InFunction \cup {"restore"} => frames[p] # <<>>
    /\ pc[p] \in NoFunction => frames[p] = <<>>
    /\ \A i \in 1 .. Len(frames[p]) :
          /\ i < Len(frames[p]) => joining[frames[p][i]] # NULL
          /\ i = Len(frames[p]) =>
                (joining[frames[p][i]] = NULL <=> pc[p] \in {"user", "return"})
          /\ frames[p][i] = NULL => p = 0 /\ i = 1
    /\ pc[p] = "return" => Fn(p) # NULL

\* The context stack repeats the suspended part of the C stack.
ContextAt(p) ==
    IF pc[p] \in InFunction
    THEN current_job[p] = Fn(p) /\ context_stack[p] = Pop(frames[p])
    ELSE context_stack[p] = frames[p]

\* current_job between a call of get_job or steal_job and the job's run.
HandAt(p) ==
    /\ pc[p] \in {"getcas", "stealcas"} => current_job[p] # NULL
    /\ pc[p] \in {"start", "init", "idle", "steal", "left"} =>
          current_job[p] = NULL

\* A VP that found its list empty has an empty list until it runs a function.
IdleAt(p) ==
    pc[p] \in NoFunction \/ (InRunLoop(p) /\ pc[p] \in {"steal", "stealcas"})
        => job_list[p] = {}

\* Jobs are marked Running when they run, and finished when a join sees them;
\* a function that returned has its value in place.
ResultAt(p) ==
    /\ \A i \in 1 .. Len(frames[p]) :
          frames[p][i] # NULL => state[frames[p][i]] = "Running"
    /\ pc[p] = "sub" /\ current_job[p] # NULL => state[current_job[p]] = "Running"
    /\ pc[p] = "return" => result[Fn(p)] # "Unset"
    /\ pc[p] \in {"read", "dec"} => state[joining[Fn(p)]] = "Finished"

\* Only functions on a stack are in a join.
JoinersOnStack ==
    \A f \in Fns : joining[f] # NULL =>
        \E p \in VPs : \E i \in 1 .. Len(frames[p]) : frames[p][i] = f

\* The result is in place when a job becomes Finished.
ResultsKept == \A j \in Jobs : state[j] = "Finished" => result[j] # "Unset"

\* Who is where during init and after terminate.
Phases ==
    /\ \A p \in VPs : pc[p] \in {"init", "done"} => p = 0
    /\ pc[0] = "init" =>
          /\ it[0] >= 1
          /\ \A q \in VPs : q >= it[0] => pc[q] = "start"
    /\ pc[0] = "done" => \A q \in VPs : q # 0 => pc[q] = "left"

\* The inductive invariant: on every VP, stack, contexts, hand and list fit
\* together, and every forked, unfinished job is in exactly one place.
IInv ==
    /\ TypeOK
    /\ \A p \in VPs : ShapeAt(p) /\ ContextAt(p) /\ HandAt(p) /\ IdleAt(p) /\ ResultAt(p)
    /\ JoinersOnStack
    /\ EveryJobInOnePlace
    /\ ResultsKept
    /\ Phases

-----------------------------------------------------------------------------
(* What the two counters of the scheduler stand for, on top of IInv *)

\* A VP leaves run() only in the first session: in a later one the static
\* idle_vps starts at N or more and is never equal to N after an increment.
LeavesInFirstSession ==
    session > 1 => \A p \in VPs : pc[p] \notin {"left", "done"}

\* Each join in progress is paid for by the job's counter; a job that was not
\* forked is joined by nobody.
JoinRights ==
    \A j \in Jobs :
        /\ IsFiniteSet(InJoin(j)) /\ Cardinality(InJoin(j)) <= join_counter[j]
        /\ state[j] = "New" => InJoin(j) = {} /\ join_counter[j] = Joins[j]

\* The jobs that the runtime deletes are joined once.
SmartJoinedOnce == \A j \in Smart : Joins[j] = 1

\* A job joined at most once is deleted by its only join.
DeletedByLastJoin ==
    \A j \in Jobs : /\ join_counter[j] <= Joins[j]
                    /\ j \in deleted => /\ j \in Smart /\ join_counter[j] = 0
                                       /\ state[j] = "Finished"

\* No function has a pointer to a job that another function forked.
OnlyForkersJoin == \A j \in Jobs : Joiners[j] = {}

\* Only functions that were called have forked jobs, so the forker of a job on a
\* stack is not above it; and a function joins what it forked.
ForkersBelow ==
    /\ \A j, f \in Jobs : state[j] # "New" /\ forker[j] = f =>
          /\ state[f] # "New"
          /\ \A p \in VPs : f \notin job_list[p] /\ ~(InHand(p) /\ current_job[p] = f)
    /\ \A f \in Fns : joining[f] # NULL =>
          forker[joining[f]] = f /\ state[joining[f]] # "New"
    /\ \A p \in VPs : \A i \in 1 .. Len(frames[p]) : \A k \in 1 .. i :
          frames[p][k] # NULL => forker[frames[p][k]] # frames[p][i]

-----------------------------------------------------------------------------
(* What holds of every program, those whose jobs fork_job runs in place too *)

\* No list, hand or stack has a job that another has, or has it twice, and none
\* has a job before its fork.
NoJobTwice ==
    \A j \in Jobs : NowhereElse(j) /\ (state[j] = "New" => ~Somewhere(j))

\* A job that is done does not come back: only its fork puts a job into a list
\* or on a stack that had it nowhere.
NoComeback ==
    \A j \in Jobs : Somewhere(j)' => Somewhere(j) \/ state[j] = "New"

\* A thread has a function on its stack where it returns to one; it has no job
\* when it starts to look for one and has one in hand when it found one.
ThreadAt(p) ==
    /\ pc[p] \in InFunction \cup {"restore"} => frames[p] # <<>>
    /\ pc[p] = "steal" => it[p] \in VPs
    /\ pc[p] \in {"idle", "steal"} => current_job[p] = NULL
    /\ InHand(p) => current_job[p] \in Jobs

\* The types that do not depend on the depth of the stacks.
OnceTypes ==
    /\ pc \in [VPs -> PCs] /\ it \in [VPs -> Nat]
    /\ frames \in [VPs -> Seq(Fns)] /\ job_list \in [VPs -> SUBSET Jobs]
    /\ current_job = [p \in VPs |-> current_job[p]]
    /\ state \in [Jobs -> {"New", "Ready", "Running", "Finished"}]

\* The inductive invariant behind NoJobTwice.
OnceInv == OnceTypes /\ (\A p \in VPs : ThreadAt(p)) /\ NoJobTwice
=============================================================================
