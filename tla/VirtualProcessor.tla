--------------------------- MODULE VirtualProcessor ---------------------------
(***************************************************************************)
(* The Anahy 3 scheduler: N virtual processors (VPs), each a thread with   *)
(* its own job list, run a fork/join program.  A VP takes jobs from its    *)
(* own list, steals from the others when it has none, and runs further     *)
(* jobs on top of its own C stack while a job it runs waits in a join.     *)
(*                                                                         *)
(* Models SRC/VirtualProcessor.cpp, SRC/AnahyJob.{h,cpp} and the life      *)
(* cycle in SRC/AnahyVM.cpp.  One action is one access to memory that VPs  *)
(* share (a critical section of a list's mutex, an atomic instruction, a   *)
(* read of another thread's result), together with the thread-private      *)
(* statements around it.  The program's own functions are the environment: *)
(* they fork, join, call _exit and return in any order.                    *)
(*                                                                         *)
(* job_list is a set from which an extraction takes any element: this is   *)
(* all that AnahySmartHeap promises (modules AnahySmartHeap, JobPool).     *)
(***************************************************************************)
EXTENDS Integers, Sequences, FiniteSets

CONSTANTS
    N,             \* num_vps; VP 0 is main_vp
    Jobs,          \* the job objects of the program
    NULL,          \* no job; as a function, the program's main()
    Smart,         \* jobs made by new_smart_job, deleted by the runtime
    Joins,         \* Joins[j]: the join counter the program gives to j
    Forkers,       \* Forkers[j]: the functions in which the program may fork j
    Joiners,       \* Joiners[j]: the functions that have a pointer to j and may
                   \* join it, besides the one that forked it
    Exiters,       \* jobs whose function calls AnahyVM::_exit
    ContextLimit,  \* fork_job runs the job in place above this depth (10000)
    Sessions       \* how many times the program calls init ... terminate

\* The values of an unsigned short.
Uint16 == 0 .. 65535

ASSUME VPAssumption ==
    /\ N \in Nat \ {0}
    /\ NULL \notin Jobs
    /\ Smart \subseteq Jobs
    /\ Exiters \subseteq Jobs
    /\ Joins \in [Jobs -> Uint16 \ {0}]
    /\ Forkers \in [Jobs -> SUBSET (Jobs \cup {NULL})]
    /\ Joiners \in [Jobs -> SUBSET (Jobs \cup {NULL})]
    /\ ContextLimit \in Nat
    /\ Sessions \in Nat \ {0}

VPs == 0 .. N - 1
Fns == Jobs \cup {NULL}

VARIABLES
    \* per VP, private to its thread
    pc,             \* where the thread is in run / join_job / suspend...
    frames,         \* the job functions on the thread's C stack, oldest first
    current_job,
    context_stack,
    it,             \* the iterator over vp_list (in VP 0, init's loop index)
    \* per VP, protected by its mutex
    job_list,
    \* class variable
    idle_vps,
    \* per job object
    state,          \* "New" until the program forks it
    parent,
    result,         \* "Unset", "Exit" (stored by _exit) or "Return" (by run)
    join_counter,
    deleted,        \* the job objects that were deleted
    \* of the program
    forker,         \* of each job: the function that forked it
    joining,        \* of each function: the job it is joining, or NULL
    \* per process
    session

privVars == <<frames, current_job, context_stack, it>>
jobVars  == <<state, parent, result, join_counter, deleted>>
userVars == <<forker, joining>>
vars == <<pc, frames, current_job, context_stack, it, job_list, idle_vps,
          state, parent, result, join_counter, deleted, forker, joining,
          session>>

PCs == {"start", "init", "user", "get", "getcas", "idle", "steal", "stealcas",
        "sub", "return", "restore", "check", "read", "dec", "left", "done"}

Top(s) == s[Len(s)]
Pop(s) == SubSeq(s, 1, Len(s) - 1)

\* The thread is in VirtualProcessor::run itself and in no job's function.
InRunLoop(p) == frames[p] = <<>>

\* The function on top of the thread's stack.
Fn(p) == Top(frames[p])

Init ==
    /\ pc = [p \in VPs |-> IF p = 0 THEN "init" ELSE "start"]
    /\ frames = [p \in VPs |-> <<>>]
    /\ current_job = [p \in VPs |-> NULL]
    /\ context_stack = [p \in VPs |-> <<>>]
    /\ it = [p \in VPs |-> 1]
    /\ job_list = [p \in VPs |-> {}]
    /\ idle_vps = 0
    /\ state = [j \in Jobs |-> "New"]
    /\ parent = [j \in Jobs |-> NULL]
    /\ result = [j \in Jobs |-> "Unset"]
    /\ join_counter = Joins
    /\ deleted = {}
    /\ forker = [j \in Jobs |-> NULL]
    /\ joining = [f \in Fns |-> NULL]
    /\ session = 1

-----------------------------------------------------------------------------
(* AnahyVM::init and AnahyVM::terminate *)

\* init's loop: pthread_create for the next VP; the new thread enters run().
CreateThread ==
    /\ pc[0] = "init" /\ it[0] < N
    /\ pc' = [pc EXCEPT ![it[0]] = "get"]
    /\ it' = [it EXCEPT ![0] = @ + 1]
    /\ UNCHANGED <<frames, current_job, context_stack, job_list, idle_vps,
                   jobVars, userVars, session>>

\* init returns and main() goes on.
StartMain ==
    /\ pc[0] = "init" /\ it[0] = N
    /\ pc' = [pc EXCEPT ![0] = "user"]
    /\ frames' = [frames EXCEPT ![0] = <<NULL>>]
    /\ UNCHANGED <<current_job, context_stack, it, job_list, idle_vps,
                   jobVars, userVars, session>>

\* main() calls terminate, which makes the main VP enter run().
Terminate ==
    /\ pc[0] = "user" /\ frames[0] = <<NULL>>
    /\ pc' = [pc EXCEPT ![0] = "get"]
    /\ frames' = [frames EXCEPT ![0] = <<>>]
    /\ current_job' = [current_job EXCEPT ![0] = NULL]
    /\ UNCHANGED <<context_stack, it, job_list, idle_vps, jobVars, userVars,
                   session>>

\* run() has returned in main; pthread_join of every thread, delete the VPs.
JoinThreads ==
    /\ \A p \in VPs : pc[p] = "left"
    /\ pc' = [pc EXCEPT ![0] = "done"]
    /\ UNCHANGED <<privVars, job_list, idle_vps, jobVars, userVars, session>>

\* The program calls init again: new VP objects, the same static idle_vps.
Reinit ==
    /\ pc[0] = "done" /\ session < Sessions
    /\ session' = session + 1
    /\ pc' = [p \in VPs |-> IF p = 0 THEN "init" ELSE "start"]
    /\ frames' = [p \in VPs |-> <<>>]
    /\ current_job' = [p \in VPs |-> NULL]
    /\ context_stack' = [p \in VPs |-> <<>>]
    /\ it' = [p \in VPs |-> 1]
    /\ job_list' = [p \in VPs |-> {}]
    /\ UNCHANGED <<idle_vps, jobVars, userVars>>

-----------------------------------------------------------------------------
(* Finding a job: get_job, steal_job and the loops that call them *)

\* The position in vp_list after the ones before i and p itself.
NextVictim(p, i) == IF i = p THEN i + 1 ELSE i

\* What follows the steal loop when it found nothing.
AfterSteal(p) == IF InRunLoop(p) THEN "sub" ELSE "restore"

\* The steal loop at position i: end of vp_list, or the next VP to ask.
ScanFrom(p, i) ==
    IF i < N THEN /\ pc' = [pc EXCEPT ![p] = "steal"]
                  /\ it' = [it EXCEPT ![p] = i]
             ELSE /\ pc' = [pc EXCEPT ![p] = AfterSteal(p)]
                  /\ it' = [it EXCEPT ![p] = 1]

\* current_job->run() calls the job's function.
CallFunction(p, j) ==
    /\ pc' = [pc EXCEPT ![p] = "user"]
    /\ frames' = [frames EXCEPT ![p] = Append(@, j)]

\* Mutant: the extraction forgets to shorten the list.
Extracted_Kept(list, j) == list

\* The list after extract_last or extract_min has returned j.
Extracted(list, j) == list \ {j}

\* get_job's critical section found a job.
GetJob(p) ==
    /\ pc[p] = "get"
    /\ \E j \in job_list[p] :
          /\ job_list' = [job_list EXCEPT ![p] = Extracted(@, j)]
          /\ current_job' = [current_job EXCEPT ![p] = j]
    /\ pc' = [pc EXCEPT ![p] = "getcas"]
    /\ UNCHANGED <<frames, context_stack, it, idle_vps, jobVars, userVars,
                   session>>

\* get_job's critical section found an empty list: NULL is returned.
GetNothing(p) ==
    /\ pc[p] = "get" /\ job_list[p] = {}
    /\ current_job' = [current_job EXCEPT ![p] = NULL]
    /\ IF InRunLoop(p)
       THEN /\ pc' = [pc EXCEPT ![p] = "idle"]
            /\ UNCHANGED it
       ELSE ScanFrom(p, NextVictim(p, 0))
    /\ UNCHANGED <<frames, context_stack, job_list, idle_vps, jobVars,
                   userVars, session>>

\* compare_and_swap_state(Ready, Running) on the job that was taken.
MarkRunning(j) ==
    state' = [state EXCEPT ![j] = IF @ = "Ready" THEN "Running" ELSE @]

\* get_job's compare and swap; the caller then runs the job.
GetCas(p) ==
    /\ pc[p] = "getcas"
    /\ MarkRunning(current_job[p])
    /\ CallFunction(p, current_job[p])
    /\ UNCHANGED <<current_job, context_stack, it, job_list, idle_vps, parent,
                   result, join_counter, deleted, userVars, session>>

\* Mutant: off by one.
LastIdle_OffByOne(k) == k >= N - 1

\* run()'s test of the incremented counter.
LastIdle(k) == k = N

\* Mutant: a VP that leaves takes itself out of the count.
IdleAdd_LeavesUncounted(p) ==
    /\ pc[p] = "idle"
    /\ IF LastIdle(idle_vps + 1)
       THEN /\ pc' = [pc EXCEPT ![p] = "left"]
            /\ UNCHANGED <<it, idle_vps>>
       ELSE /\ idle_vps' = idle_vps + 1
            /\ ScanFrom(p, NextVictim(p, 0))
    /\ UNCHANGED <<frames, current_job, context_stack, job_list, jobVars,
                   userVars, session>>

\* run(): the VP counts itself idle, and leaves if it is the last one.
IdleAdd(p) ==
    /\ pc[p] = "idle"
    /\ idle_vps' = idle_vps + 1
    /\ IF LastIdle(idle_vps + 1)
       THEN /\ pc' = [pc EXCEPT ![p] = "left"]
            /\ UNCHANGED it
       ELSE ScanFrom(p, NextVictim(p, 0))
    /\ UNCHANGED <<frames, current_job, context_stack, job_list, jobVars,
                   userVars, session>>

\* steal_job's critical section on the VP at the iterator found a job.
StealJob(p) ==
    /\ pc[p] = "steal"
    /\ \E j \in job_list[it[p]] :
          /\ job_list' = [job_list EXCEPT ![it[p]] = Extracted(@, j)]
          /\ current_job' = [current_job EXCEPT ![p] = j]
    /\ pc' = [pc EXCEPT ![p] = "stealcas"]
    /\ it' = [it EXCEPT ![p] = 1]
    /\ UNCHANGED <<frames, context_stack, idle_vps, jobVars, userVars, session>>

\* steal_job found that list empty: the loop goes on with the next VP.
StealNothing(p) ==
    /\ pc[p] = "steal" /\ job_list[it[p]] = {}
    /\ ScanFrom(p, NextVictim(p, it[p] + 1))
    /\ UNCHANGED <<frames, current_job, context_stack, job_list, idle_vps,
                   jobVars, userVars, session>>

\* steal_job's compare and swap; a suspended VP then runs the job.
StealCas(p) ==
    /\ pc[p] = "stealcas"
    /\ MarkRunning(current_job[p])
    /\ IF InRunLoop(p)
       THEN /\ pc' = [pc EXCEPT ![p] = "sub"]
            /\ UNCHANGED frames
       ELSE CallFunction(p, current_job[p])
    /\ UNCHANGED <<current_job, context_stack, it, job_list, idle_vps, parent,
                   result, join_counter, deleted, userVars, session>>

\* Mutant: the decrement is forgotten.
IdleSub_KeepsCount(p) ==
    /\ pc[p] = "sub"
    /\ IF current_job[p] = NULL
       THEN /\ pc' = [pc EXCEPT ![p] = "get"]
            /\ UNCHANGED frames
       ELSE CallFunction(p, current_job[p])
    /\ UNCHANGED <<current_job, context_stack, it, job_list, idle_vps, jobVars,
                   userVars, session>>

\* Mutant: the loop starts over without running what it stole.
IdleSub_DropsJob(p) ==
    /\ pc[p] = "sub"
    /\ idle_vps' = idle_vps - 1
    /\ pc' = [pc EXCEPT ![p] = "get"]
    /\ UNCHANGED <<privVars, job_list, jobVars, userVars, session>>

\* run(): the VP is no longer idle; it runs what it stole or tries again.
IdleSub(p) ==
    /\ pc[p] = "sub"
    /\ idle_vps' = idle_vps - 1
    /\ IF current_job[p] = NULL
       THEN /\ pc' = [pc EXCEPT ![p] = "get"]
            /\ UNCHANGED frames
       ELSE CallFunction(p, current_job[p])
    /\ UNCHANGED <<current_job, context_stack, it, job_list, jobVars, userVars,
                   session>>

-----------------------------------------------------------------------------
(* What a function of the program may do *)

\* fork(): the job enters the list of this VP, or, when too many joins are
\* suspended on this VP, its function is called at once.
Fork(p, j) ==
    /\ pc[p] = "user" /\ state[j] = "New" /\ Fn(p) \in Forkers[j]
    /\ state' = [state EXCEPT ![j] = "Ready"]
    /\ parent' = [parent EXCEPT ![j] = current_job[p]]
    /\ forker' = [forker EXCEPT ![j] = Fn(p)]
    /\ IF Len(context_stack[p]) > ContextLimit
       THEN /\ CallFunction(p, j)
            /\ UNCHANGED job_list
       ELSE /\ job_list' = [job_list EXCEPT ![p] = @ \cup {j}]
            /\ UNCHANGED <<pc, frames>>
    /\ UNCHANGED <<current_job, context_stack, it, idle_vps, result,
                   join_counter, deleted, joining, session>>

\* The functions that are in a join of j.
InJoin(j) == {f \in Fns : joining[f] = j}

\* join() is called: join_job begins.  A function joins a job that it forked or
\* has a pointer to, wherever the pointer came from, and all functions together
\* call join no more often than the job's attributes say.
JoinBegin(p, j) ==
    /\ pc[p] = "user" /\ state[j] # "New"
    /\ Fn(p) \in Joiners[j] \cup {forker[j]}
    /\ Cardinality(InJoin(j)) < join_counter[j]
    /\ joining' = [joining EXCEPT ![Fn(p)] = j]
    /\ pc' = [pc EXCEPT ![p] = "check"]
    /\ UNCHANGED <<privVars, job_list, idle_vps, jobVars, forker, session>>

\* _exit(): stores the value in the job that the VP calls current.
ExitValue(p) ==
    /\ pc[p] = "user" /\ Fn(p) \in Exiters
    /\ current_job[p] # NULL
    /\ result' = [result EXCEPT ![current_job[p]] = "Exit"]
    /\ UNCHANGED <<pc, privVars, job_list, idle_vps, state, parent,
                   join_counter, deleted, userVars, session>>

\* Mutant: AnahyJob::run does not store the value.
Return_NoStore(p) ==
    /\ pc[p] = "user" /\ Fn(p) # NULL
    /\ pc' = [pc EXCEPT ![p] = "return"]
    /\ UNCHANGED <<privVars, job_list, idle_vps, jobVars, userVars, session>>

\* The function returns and AnahyJob::run stores its value.
Return(p) ==
    /\ pc[p] = "user" /\ Fn(p) # NULL
    /\ result' = [result EXCEPT ![Fn(p)] = "Return"]
    /\ pc' = [pc EXCEPT ![p] = "return"]
    /\ UNCHANGED <<privVars, job_list, idle_vps, state, parent, join_counter,
                   deleted, userVars, session>>

\* Mutant: the compare and swap expects the wrong state.
MarkFinished_WrongState(j) ==
    state' = [state EXCEPT ![j] = IF @ = "Ready" THEN "Finished" ELSE @]

\* compare_and_swap_state(Running, Finished) on the job that was run.
MarkFinished(j) ==
    state' = [state EXCEPT ![j] = IF @ = "Running" THEN "Finished" ELSE @]

\* compare_and_swap_state(Running, Finished), and back to the caller of run():
\* the loop, the suspended join below, or fork_job in the function below.
Finish(p) ==
    /\ pc[p] = "return"
    /\ MarkFinished(Fn(p))
    /\ LET rest == Pop(frames[p])
       IN  /\ frames' = [frames EXCEPT ![p] = rest]
           /\ pc' = [pc EXCEPT ![p] =
                 IF rest = <<>> THEN "get"
                 ELSE IF joining[Top(rest)] # NULL THEN "restore" ELSE "user"]
    /\ UNCHANGED <<current_job, context_stack, it, job_list, idle_vps, parent,
                   result, join_counter, deleted, userVars, session>>

-----------------------------------------------------------------------------
(* join_job and suspend_current_job_and_run_another *)

\* Mutant: any state but Ready ends the loop.
CanReturn_Started(j) == state[j] # "Ready"

\* join_job's compare and swap (Finished, Finished).
CanReturn(j) == state[j] = "Finished"

\* The compare and swap of join_job's loop fails: suspend the current job.
Suspend(p) ==
    /\ pc[p] = "check" /\ ~CanReturn(joining[Fn(p)])
    /\ context_stack' = [context_stack EXCEPT ![p] = Append(@, current_job[p])]
    /\ pc' = [pc EXCEPT ![p] = "get"]
    /\ UNCHANGED <<frames, current_job, it, job_list, idle_vps, jobVars,
                   userVars, session>>

\* Mutant: current_job stays at the job that was run meanwhile.
Restore_NotCurrent(p) ==
    /\ pc[p] = "restore"
    /\ context_stack' = [context_stack EXCEPT ![p] = Pop(@)]
    /\ pc' = [pc EXCEPT ![p] = "check"]
    /\ UNCHANGED <<frames, current_job, it, job_list, idle_vps, jobVars,
                   userVars, session>>

\* The end of suspend_...: the suspended job is the current one again.
Restore(p) ==
    /\ pc[p] = "restore"
    /\ current_job' = [current_job EXCEPT ![p] = Top(context_stack[p])]
    /\ context_stack' = [context_stack EXCEPT ![p] = Pop(@)]
    /\ pc' = [pc EXCEPT ![p] = "check"]
    /\ UNCHANGED <<frames, it, job_list, idle_vps, jobVars, userVars, session>>

\* The compare and swap of join_job's loop succeeds.
JoinCheck(p) ==
    /\ pc[p] = "check" /\ CanReturn(joining[Fn(p)])
    /\ pc' = [pc EXCEPT ![p] = "read"]
    /\ UNCHANGED <<privVars, job_list, idle_vps, jobVars, userVars, session>>

\* ret_val = job->result().
JoinRead(p) ==
    /\ pc[p] = "read"
    /\ pc' = [pc EXCEPT ![p] = "dec"]
    /\ UNCHANGED <<privVars, job_list, idle_vps, jobVars, userVars, session>>

\* decrement_and_fetch_join_counter has no return statement, so whether its
\* value equals 0 is undefined: zero is any Boolean.
JoinReturn(p, zero) ==
    /\ pc[p] = "dec"
    /\ LET j == joining[Fn(p)]
       IN  /\ join_counter' = [join_counter EXCEPT ![j] = (@ - 1) % 65536]
           /\ deleted' = IF zero /\ j \in Smart THEN deleted \cup {j}
                                                ELSE deleted
    /\ joining' = [joining EXCEPT ![Fn(p)] = NULL]
    /\ pc' = [pc EXCEPT ![p] = "user"]
    /\ UNCHANGED <<privVars, job_list, idle_vps, state, parent, result,
                   forker, session>>

-----------------------------------------------------------------------------
\* One step of the code of the runtime on VP p's thread.
Runtime(p) ==
    \/ GetJob(p) \/ GetNothing(p) \/ GetCas(p)
    \/ IdleAdd(p) \/ StealJob(p) \/ StealNothing(p) \/ StealCas(p) \/ IdleSub(p)
    \/ Suspend(p) \/ Restore(p) \/ JoinCheck(p) \/ JoinRead(p)
    \/ \E zero \in BOOLEAN : JoinReturn(p, zero)
    \/ Finish(p)

\* One step of the program's function on top of VP p's stack.
Program(p) ==
    \/ \E j \in Jobs : Fork(p, j)
    \/ \E j \in Jobs : JoinBegin(p, j)
    \/ ExitValue(p)
    \/ Return(p)

\* One step of init or terminate in the main thread.
LifeCycle == CreateThread \/ StartMain \/ Terminate \/ JoinThreads

\* The program has called terminate for the last time.
Ended == pc[0] = "done" /\ session = Sessions /\ UNCHANGED vars

Next ==
    \/ \E p \in VPs : Runtime(p) \/ Program(p)
    \/ LifeCycle
    \/ Reinit
    \/ Ended

Spec == Init /\ [][Next]_vars

(***************************************************************************)
(* Fairness.  The operating system runs every thread, so a thread that is  *)
(* inside the runtime takes its next step; the program's functions go on   *)
(* until they return, and main() reaches terminate.  Nothing is assumed of *)
(* which thread wins a race.                                               *)
(***************************************************************************)
Fairness ==
    /\ \A p \in VPs : WF_vars(Runtime(p)) /\ WF_vars(Program(p))
    /\ WF_vars(LifeCycle)
    /\ WF_vars(Reinit)

FairSpec == Spec /\ Fairness

-----------------------------------------------------------------------------
(* Safety *)

\* The type of every variable; a VP that steals is at another VP of vp_list.
TypeOK ==
    /\ pc \in [VPs -> PCs]
    /\ frames \in [VPs -> Seq(Fns)]
    /\ current_job \in [VPs -> Fns]
    /\ context_stack \in [VPs -> Seq(Fns)]
    /\ it \in [VPs -> 0 .. N]
    /\ \A p \in VPs : pc[p] = "steal" => it[p] \in VPs \ {p}
    /\ job_list \in [VPs -> SUBSET Jobs]
    /\ idle_vps \in Int
    /\ state \in [Jobs -> {"New", "Ready", "Running", "Finished"}]
    /\ parent \in [Jobs -> Fns]
    /\ result \in [Jobs -> {"Unset", "Exit", "Return"}]
    /\ join_counter \in [Jobs -> Uint16]
    /\ deleted \in SUBSET Jobs
    /\ forker \in [Jobs -> Fns]
    /\ joining \in [Fns -> Fns]
    /\ session \in 1 .. Sessions

\* VP p holds a job it took from a list and has not called yet.
InHand(p) == \/ pc[p] \in {"getcas", "stealcas"}
             \/ pc[p] = "sub" /\ current_job[p] # NULL

\* Job j is at VP p: in its list (0), in its hands (-1), in stack frame i.
At(j, p, i) ==
    \/ i = 0 /\ j \in job_list[p]
    \/ i = -1 /\ InHand(p) /\ current_job[p] = j
    \/ i \in 1 .. Len(frames[p]) /\ frames[p][i] = j

Somewhere(j) == \E p \in VPs : \E i \in -1 .. Len(frames[p]) : At(j, p, i)

NowhereElse(j) ==
    \A p \in VPs : \A i \in -1 .. Len(frames[p]) : At(j, p, i) =>
        \A q \in VPs : \A k \in -1 .. Len(frames[q]) : At(j, q, k) => p = q /\ i = k

\* No job runs twice or is lost: between its fork and the end of its function
\* a job is in exactly one list, hand or stack frame, whatever VPs get, steal
\* and suspend, and before and after it is in none.
EveryJobInOnePlace ==
    \A j \in Jobs : /\ NowhereElse(j)
                    /\ Somewhere(j) <=> state[j] \in {"Ready", "Running"}

\* suspend_current_job_and_run_another puts current_job back however many jobs
\* ran on top of the suspended one: the context stack is the list of suspended
\* functions below, and code of a function runs with its own job as current.
ContextMatchesStack ==
    \A p \in VPs :
        /\ pc[p] \in {"user", "return", "check", "read", "dec"} =>
              current_job[p] = Fn(p) /\ context_stack[p] = Pop(frames[p])
        /\ pc[p] \in {"get", "getcas", "steal", "stealcas", "restore"} =>
              context_stack[p] = frames[p]

\* idle_vps counts the VPs between run()'s increment and its decrement and
\* those that left the loop, on top of the N that every session before left in
\* the static counter.
CountedIdle == {p \in VPs : /\ pc[p] \in {"steal", "stealcas", "sub", "left", "done"}
                            /\ InRunLoop(p)}
IdleCountExact == idle_vps = (session - 1) * N + Cardinality(CountedIdle)

\* Termination detection is not premature: a VP leaves run() only when main()
\* is inside terminate, so no job is forked by main after a VP has left.
NoVPLeavesBeforeTerminate ==
    (\E p \in VPs : pc[p] = "left") =>
        pc[0] # "init" /\ \A i \in 1 .. Len(frames[0]) : frames[0][i] # NULL

\* Nothing is left behind: a VP that left has an empty list for good, and when
\* terminate returns every job that was forked has finished.
NothingLeftBehind ==
    /\ \A p \in VPs : pc[p] = "left" => job_list[p] = {} /\ InRunLoop(p)
    /\ pc[0] = "done" => \A j \in Jobs : state[j] \in {"New", "Finished"}

\* A join reads a result that is final: the value is in place before any VP can
\* see the job as Finished, and from then on, while joins read it one after the
\* other, no late store of the function, of _exit or of another job changes it.
JoinReadsFinalResult ==
    [][/\ \A p \in VPs : pc[p] \in {"read", "dec"} => state[joining[Fn(p)]] = "Finished"
       /\ \A j \in Jobs : state[j] = "Finished" =>
             result[j] # "Unset" /\ result'[j] = result[j]]_vars

\* No VP touches a job object that was deleted: neither a join in progress,
\* nor the VP that still has the job in hand or on its stack, nor a list.
NoUseAfterDelete == \A j \in deleted : ~Somewhere(j) /\ InJoin(j) = {}

\* A VP never waits for a job that it has buried: the job a function on a
\* VP's stack joins is not further down on the same stack, where it could not
\* continue before the join returns.  It is so when every job is joined by the
\* function that forked it, and not in general.
NotBuried ==
    \A p \in VPs : \A i \in 1 .. Len(frames[p]) :
        joining[frames[p][i]] # NULL =>
            \A k \in 1 .. i : frames[p][k] # joining[frames[p][i]]

-----------------------------------------------------------------------------
(* The abstract promise.  A job is started when its compare and swap from    *)
(* Ready to Running succeeds; a join has returned when its counter is down.  *)
FJ == INSTANCE ForkJoin WITH status <- state,
                             joins  <- join_counter,
                             ended  <- pc[0] = "done"

\* The scheduler keeps the fork/join promise: however jobs are got, stolen and
\* nested, each starts once, joins return after the end, and terminate returns
\* only when nothing is pending.
ImplementsForkJoin == FJ!FJSpec

-----------------------------------------------------------------------------
(* Liveness, under FairSpec *)

\* Every join returns.
JoinReturns == \A f \in Fns : joining[f] # NULL ~> joining[f] = NULL

\* Every forked job finishes, joined or not.
ForkedJobFinishes ==
    \A j \in Jobs : state[j] = "Ready" ~> state[j] = "Finished"

\* Once all VPs but one have left, terminate returns.
LastVPLeaves ==
    \A p \in VPs :
        (\A q \in VPs \ {p} : pc[q] = "left") ~> pc[0] = "done"

\* terminate returns.
TerminateReturns == (pc[0] # "init" /\ InRunLoop(0)) ~> pc[0] = "done"

-----------------------------------------------------------------------------
(* What the documentation says of a job's result *)

\* "The datum that the join gets is defined by athread_exit": once a job's
\* function has called _exit, its result is that value.
ExitDefinesResult ==
    [][\A j \in Jobs : result[j] = "Exit" => result'[j] = "Exit"]_vars
=============================================================================
