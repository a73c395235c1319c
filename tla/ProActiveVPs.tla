---------------------------- MODULE ProActiveVPs ----------------------------
(***************************************************************************)
(* Sandbox/ProActivesVPS, the prototype in which VPs with a list of their  *)
(* own steal from each other, and a job is deleted by the join that brings *)
(* its join counter to zero.  The counter is changed by a compare and swap *)
(* whose arguments are two further loads of it, which is not retried, and  *)
(* after which dec_join_counter returns no value.                          *)
(*                                                                         *)
(* One action is one critical section of a list's mutex or one access to   *)
(* the counters; the change of a job from ready to running, which no other *)
(* thread looks at, goes with the list operation before it.  The program's *)
(* functions fork, join and return in any order.                           *)
(***************************************************************************)
EXTENDS PrototypeParameters, Sequences

VPs  == 0 .. N - 1
Jobs == ListJobs
Fns  == Jobs \cup {NULL}  \* NULL is the program's main()

VARIABLES
    vp,         \* per thread: pc, the functions on its C stack, current_job,
                \* context_stack, the iterator over vp_list, what it loaded
    job_list,   \* per VP, under its mutex
    idle_vps,
    state, num_joins,
    deleted,
    handles, joining,   \* per function: jobs it may join, the job it joins
    executed, raced     \* history: how often a job ran; jobs on which a
                        \* dec_join_counter failed

vars == <<vp, job_list, idle_vps, state, num_joins, deleted, handles, joining,
          executed, raced>>
attrVars == <<num_joins, deleted, raced>>
userVars == <<handles, joining>>
jobVars  == <<state, executed>>

Top(s) == s[Len(s)]
Pop(s) == SubSeq(s, 1, Len(s) - 1)

Init ==
    /\ vp = [p \in VPs |->
                [pc |-> IF p = 0 THEN "user" ELSE "start",
                 frames |-> IF p = 0 THEN <<NULL>> ELSE <<>>, current_job |-> NULL,
                 context_stack |-> <<>>, it |-> 0, old |-> 0, new |-> 0]]
    /\ job_list = [p \in VPs |-> <<>>]
    /\ idle_vps = 0
    /\ state = [j \in Jobs |-> "new"]
    /\ num_joins = [j \in Jobs |-> Joins]
    /\ deleted = {} /\ raced = {}
    /\ handles = [f \in Fns |-> {}] /\ joining = [f \in Fns |-> NULL]
    /\ executed = [j \in Jobs |-> 0]

Fn(p)        == Top(vp[p].frames)
InRunLoop(p) == vp[p].frames = <<>>
At(p, where) == vp[p].pc = where
Goto(p, where) == vp' = [vp EXCEPT ![p].pc = where]

\* The thread that init created for the VP calls run().
Begin(p) ==
    /\ At(p, "start")
    /\ Goto(p, "get")
    /\ UNCHANGED <<job_list, idle_vps, jobVars, attrVars, userVars>>

-----------------------------------------------------------------------------
(* run and suspend_current_job_and_run_another *)

\* p calls the function of j.
Call(p, j) ==
    /\ vp' = [vp EXCEPT ![p].pc = "user", ![p].current_job = j,
                        ![p].frames = Append(@, j)]
    /\ executed' = [executed EXCEPT ![j] = @ + 1]

\* compare_and_swap_state(ready, running).
MarkRunning(j) ==
    state' = [state EXCEPT ![j] = IF @ = "ready" THEN "running" ELSE @]

\* The loop over vp_list at position k, or after it.
ScanFrom(p, k) ==
    LET i == IF k = p THEN k + 1 ELSE k
    IN  vp' = [vp EXCEPT ![p].it = IF i < N THEN i ELSE 0,
                         ![p].current_job = NULL,
                         ![p].pc = IF i < N THEN "steal"
                                   ELSE IF InRunLoop(p) THEN "sub" ELSE "restore"]

\* get_job: the newest job of the VP's own list.
GetJob(p) ==
    /\ At(p, "get")
    /\ IF job_list[p] # <<>>
       THEN /\ job_list' = [job_list EXCEPT ![p] = Pop(@)]
            /\ MarkRunning(Top(job_list[p]))
            /\ Call(p, Top(job_list[p]))
       ELSE /\ IF InRunLoop(p) THEN Goto(p, "idle") ELSE ScanFrom(p, 0)
            /\ UNCHANGED <<job_list, jobVars>>
    /\ UNCHANGED <<idle_vps, attrVars, userVars>>

LastIdle(k) == k = N

\* run(): the VP counts itself idle, and leaves if it is the last one.
IdleAdd(p) ==
    /\ At(p, "idle")
    /\ idle_vps' = idle_vps + 1
    /\ IF LastIdle(idle_vps') THEN Goto(p, "left") ELSE ScanFrom(p, 0)
    /\ UNCHANGED <<job_list, jobVars, attrVars, userVars>>

\* steal_job on the VP at the iterator: its oldest job.
StealJob(p) ==
    LET q == vp[p].it IN
    /\ At(p, "steal")
    /\ IF job_list[q] = <<>>
       THEN ScanFrom(p, q + 1) /\ UNCHANGED <<job_list, jobVars>>
       ELSE LET j == Head(job_list[q]) IN
            /\ job_list' = [job_list EXCEPT ![q] = Tail(@)]
            /\ MarkRunning(j)
            /\ IF InRunLoop(p)
               THEN /\ vp' = [vp EXCEPT ![p].pc = "sub", ![p].current_job = j,
                                        ![p].it = 0]
                    /\ UNCHANGED executed
               ELSE Call(p, j)
    /\ UNCHANGED <<idle_vps, attrVars, userVars>>

\* Mutant: the loop starts over without running what it stole.
AfterIdle_Drops(p) == Goto(p, "get") /\ UNCHANGED executed

\* run() goes on with what was stolen, or tries again.
AfterIdle(p) ==
    IF vp[p].current_job = NULL THEN Goto(p, "get") /\ UNCHANGED executed
                                ELSE Call(p, vp[p].current_job)

IdleSub(p) ==
    /\ At(p, "sub")
    /\ idle_vps' = idle_vps - 1
    /\ AfterIdle(p)
    /\ UNCHANGED <<job_list, state, attrVars, userVars>>

\* The end of suspend_...: back to the suspended job.
Restore(p) ==
    /\ At(p, "restore")
    /\ vp' = [vp EXCEPT ![p].pc = "check", ![p].it = 0,
                        ![p].current_job = Top(vp[p].context_stack),
                        ![p].context_stack = Pop(@)]
    /\ UNCHANGED <<job_list, idle_vps, jobVars, attrVars, userVars>>

-----------------------------------------------------------------------------
(* The program *)

\* Functions that will still join j.
Holders(j) == {f \in Fns : j \in handles[f] \/ joining[f] = j}

\* create: the job enters the VP's list, or runs at once above the limit.  The
\* function passes on handles whose join counter allows one more join.
Create(p, j, H) ==
    /\ At(p, "user") /\ state[j] = "new"
    /\ H \subseteq {k \in handles[Fn(p)] : Cardinality(Holders(k)) < Joins
                                             /\ num_joins[k] = Joins}
    /\ state' = [state EXCEPT ![j] = "ready"]
    /\ handles' = [handles EXCEPT ![Fn(p)] = @ \cup {j}, ![j] = H]
    /\ IF Len(vp[p].context_stack) > ContextLimit
       THEN /\ vp' = [vp EXCEPT ![p].frames = Append(@, j)]
            /\ executed' = [executed EXCEPT ![j] = @ + 1]
            /\ UNCHANGED job_list
       ELSE /\ job_list' = [job_list EXCEPT ![p] = Append(@, j)]
            /\ UNCHANGED <<vp, executed>>
    /\ UNCHANGED <<idle_vps, attrVars, joining>>

\* Job::run stores the value and marks the job finished; its caller was run(),
\* a suspended join, or create_new_job.
Return(p) ==
    LET rest == Pop(vp[p].frames) IN
    /\ At(p, "user") /\ Fn(p) # NULL
    /\ state' = [state EXCEPT ![Fn(p)] = IF @ = "running" THEN "finished" ELSE @]
    /\ handles' = [handles EXCEPT ![Fn(p)] = {}]
    /\ vp' = [vp EXCEPT ![p].frames = rest,
                        ![p].pc = IF rest = <<>> THEN "get"
                                  ELSE IF joining[Top(rest)] # NULL THEN "restore"
                                  ELSE "user"]
    /\ UNCHANGED <<job_list, idle_vps, executed, attrVars, joining>>

\* main() calls terminate: main_vp->run().
Terminate ==
    /\ At(0, "user") /\ vp[0].frames = <<NULL>>
    /\ vp' = [vp EXCEPT ![0].pc = "get", ![0].frames = <<>>, ![0].current_job = NULL]
    /\ handles' = [handles EXCEPT ![NULL] = {}]
    /\ UNCHANGED <<job_list, idle_vps, jobVars, attrVars, joining>>

JoinThreads ==
    /\ \A p \in VPs : At(p, "left")
    /\ Goto(0, "done")
    /\ UNCHANGED <<job_list, idle_vps, jobVars, attrVars, userVars>>

-----------------------------------------------------------------------------
(* join_job and dec_join_counter *)

Join(p, j) ==
    /\ At(p, "user") /\ j \in handles[Fn(p)]
    /\ joining' = [joining EXCEPT ![Fn(p)] = j]
    /\ handles' = [handles EXCEPT ![Fn(p)] = @ \ {j}]
    /\ Goto(p, "check")
    /\ UNCHANGED <<job_list, idle_vps, jobVars, attrVars>>

Joined(p) == joining[Fn(p)]

\* compare_and_swap_state(finished, finished).
Finished(j) == state[j] = "finished"

\* The loop of join_job: suspend the current job, or read the value.
Check(p) ==
    /\ At(p, "check")
    /\ vp' = IF Finished(Joined(p)) THEN [vp EXCEPT ![p].pc = "load"]
             ELSE [vp EXCEPT ![p].pc = "get",
                             ![p].context_stack = Append(@, vp[p].current_job)]
    /\ UNCHANGED <<job_list, idle_vps, jobVars, attrVars, userVars>>

\* Mutant: one too many.
OneLess_Extra(n) == n - 2

OneLess(n) == n - 1

\* The two arguments of the compare and swap are loaded, in either order.
LoadOld(p, from, to) ==
    At(p, from) /\ vp' = [vp EXCEPT ![p].old = num_joins[Joined(p)], ![p].pc = to]

LoadNew(p, from, to) ==
    At(p, from) /\ vp' = [vp EXCEPT ![p].new = OneLess(num_joins[Joined(p)]), ![p].pc = to]

Load(p) ==
    /\ \/ LoadOld(p, "load", "loadnew") \/ LoadNew(p, "loadnew", "swap")
       \/ LoadNew(p, "load", "loadold") \/ LoadOld(p, "loadold", "swap")
    /\ UNCHANGED <<job_list, idle_vps, jobVars, attrVars, userVars>>

\* join_job returns to the function; what was loaded is not used again.
Back(p) ==
    /\ joining' = [joining EXCEPT ![Fn(p)] = NULL]
    /\ vp' = [vp EXCEPT ![p].pc = "user", ![p].old = 0, ![p].new = 0]

\* The first compare and swap.  If it fails, dec_join_counter ends without a
\* return statement and join_job sees true or false.
Swap(p) ==
    /\ At(p, "swap")
    /\ IF num_joins[Joined(p)] = vp[p].old
       THEN /\ num_joins' = [num_joins EXCEPT ![Joined(p)] = vp[p].new]
            /\ Goto(p, "last")
            /\ UNCHANGED <<raced, joining>>
       ELSE /\ raced' = raced \cup {Joined(p)}
            /\ \/ Goto(p, "delete") /\ UNCHANGED joining
               \/ Back(p)
            /\ UNCHANGED num_joins
    /\ UNCHANGED <<job_list, idle_vps, jobVars, deleted, handles>>

\* Mutant: the join before the last one deletes.
LastJoin_Early(n) == n \in {0, 1}

LastJoin(n) == n = 0

\* The second compare and swap (0, -1) tells whether this was the last join.
SwapLast(p) ==
    /\ At(p, "last")
    /\ IF LastJoin(num_joins[Joined(p)])
       THEN /\ num_joins' = [num_joins EXCEPT ![Joined(p)] = -1]
            /\ Goto(p, "delete") /\ UNCHANGED joining
       ELSE Back(p) /\ UNCHANGED num_joins
    /\ UNCHANGED <<job_list, idle_vps, jobVars, deleted, raced, handles>>

Delete(p) ==
    /\ At(p, "delete")
    /\ deleted' = deleted \cup {Joined(p)}
    /\ Back(p)
    /\ UNCHANGED <<job_list, idle_vps, jobVars, num_joins, raced, handles>>

-----------------------------------------------------------------------------
Step(p) ==
    \/ Begin(p) \/ GetJob(p) \/ IdleAdd(p) \/ StealJob(p) \/ IdleSub(p)
    \/ Restore(p) \/ Return(p)
    \/ Check(p) \/ Load(p) \/ Swap(p) \/ SwapLast(p) \/ Delete(p)
    \/ \E j \in Jobs : Join(p, j) \/ \E H \in SUBSET Jobs : Create(p, j, H)

Next == Terminate \/ JoinThreads \/ \E p \in VPs : Step(p)

Spec == Init /\ [][Next]_vars

-----------------------------------------------------------------------------
\* p is at one of the places in dec_join_counter of j.
Decrementing(p, j, places) == vp[p].pc \in places /\ Joined(p) = j

\* Functions that are at one of the places for their join of j.
DecrementingAt(j, places) == {Fn(p) : p \in {q \in VPs : Decrementing(q, j, places)}}

\* No join uses or deletes a job that was deleted (in dec_join_counter it uses
\* the attributes, which are not), unless two joins of the job met there and
\* one failed: however the loads and swaps of two joins interleave, even when
\* the first of them takes the second one's zero, that is the only way.
UseAfterDeleteNeedsRace ==
    \A j \in deleted :
        Holders(j) \ DecrementingAt(j, {"load", "loadold", "loadnew", "swap", "last"}) # {}
            => j \in raced

\* The functions whose join of j has not got through the first compare and swap.
Coming(j) == Holders(j) \ DecrementingAt(j, {"last", "delete"})

\* Interleaved loads and swaps only ever lose decrements: the counter covers
\* all joins to come, and a job is deleted too late or never, not too early.
CounterCoversJoins ==
    \A j \in Jobs : Coming(j) # {} => Cardinality(Coming(j)) <= num_joins[j]

\* When terminate returns every job that was created has run, once.
NothingLeftBehind ==
    At(0, "done") => \A j \in Jobs : executed[j] = IF state[j] = "new" THEN 0 ELSE 1
=============================================================================
