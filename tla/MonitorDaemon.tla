---------------------------- MODULE MonitorDaemon ----------------------------
(***************************************************************************)
(* Sandbox/newApproach: the daemon is a monitor that the virtual           *)
(* processors (VPs) call.  It keeps the job graph and the lists of running *)
(* and waiting VPs; a VP that finds no job waits on one condition variable *)
(* that all VPs share, and a posted job is given to the VP that has waited *)
(* longest before one of the sleepers, any of them, is signalled.          *)
(* One action is one critical section of the monitor's mutex, or what a VP *)
(* does before and after it.  A job's constructor is one step, although it *)
(* enters the job among its parent's children, without a lock, before it   *)
(* sets the state that helpers look at.                                    *)
(*                                                                         *)
(* The program is a nested fork/join: a body creates jobs, joins each of   *)
(* them once, and returns; main then terminates the machine.  A body that  *)
(* is run a second time does so again.                                     *)
(***************************************************************************)
EXTENDS PrototypeParameters, Sequences, SequencesExt

VPs  == 0 .. NumVPs - 1
Jobs == GraphJobs

VARIABLES
    state,       \* of each job: "none" (not created), "ready", "running", "finished"
    parent,      \* the current job of its creator when it was created
    handles,     \* of each body: the jobs it created and has not joined
    roots,       \* root_jobs
    map,         \* job_map, the jobs with a parent
    running,     \* vps_running
    waiting,     \* vps_waiting, oldest first
    current,     \* current_job of each VP
    shouldStop,  \* should_stop of each VP
    context,     \* context_stack of each VP
    frames,      \* of each VP: the bodies it is in and what each of them joins
    pc,          \* where each VP is
    stopping,    \* the VP whose thread main is joining
    crashed      \* a call through a null job

jobVars  == <<state, parent, handles>>
graph    == <<roots, map>>
lists    == <<running, waiting, shouldStop>>
vars == <<jobVars, graph, lists, current, context, frames, pc, stopping, crashed>>

Frame(b) == [body |-> b, joins |-> NULL]
Body(v)  == Last(frames[v]).body
Joined(v) == Last(frames[v]).joins

\* VP 0 is the main thread; the other VPs enter their loop.
Init ==
    /\ state = [j \in Jobs |-> "none"] /\ parent = [j \in Jobs |-> NULL]
    /\ handles = [b \in Jobs \cup {Main} |-> {}]
    /\ roots = <<>> /\ map = {}
    /\ running = [i \in 1 .. NumVPs |-> i - 1] /\ waiting = <<>>
    /\ current = [v \in VPs |-> NULL] /\ shouldStop = [v \in VPs |-> FALSE]
    /\ context = [v \in VPs |-> <<>>]
    /\ frames = [v \in VPs |-> IF v = 0 THEN <<Frame(Main)>> ELSE <<>>]
    /\ pc = [v \in VPs |-> IF v = 0 THEN "body" ELSE "loop"]
    /\ stopping = NULL /\ crashed = FALSE

-----------------------------------------------------------------------------
(* The job graph. *)

Ready(j) == state[j] = "ready"
\* Mutant: the job is found ready and not marked.
Claim_Unmarked(j) == state

\* The compare-and-swap of ready and running.
Claim(j) == [state EXCEPT ![j] = "running"]

Children(j) == {k \in Jobs : parent[k] = j}

\* find_a_root_ready_job takes the oldest root.
RootReady ==
    {j \in Jobs : Ready(j) /\ \E i \in DOMAIN roots :
                     roots[i] = j /\ \A k \in 1 .. i - 1 : ~Ready(roots[k])}

\* What find_a_ready_job may mark running.  Without a child of starting to look
\* at it searches the whole map.
Claimable(starting) ==
    {j \in IF starting = NULL \/ Children(starting) = {} THEN map
           ELSE Children(starting) : Ready(j)}

\* ... but what a nested search marks is not returned.
Returned(starting) == starting = NULL \/ Children(starting) # {}

-----------------------------------------------------------------------------
(* The daemon. *)

\* broadcast_null's loop over a waiting list: whom it erases, in order, and whom
\* it leaves.  The iterator is advanced over the VP behind each one it erases,
\* and from the end of the list, which is circular, back to its first element.
Skim[l \in Seq(VPs)] ==
    LET odds  == [i \in 1 .. (Len(l) + 1) \div 2 |-> l[2 * i - 1]]
        evens == [i \in 1 .. Len(l) \div 2 |-> l[2 * i]]
    IN  IF Len(l) % 2 = 0 THEN [erased |-> odds, left |-> evens]
        ELSE [erased |-> odds \o Skim[evens].erased, left |-> Skim[evens].left]

\* pthread_cond_signal by VP v, which then returns to its body: any one of the
\* sleeping VPs.
Signal(v) ==
    LET asleep == {w \in VPs : pc[w] = "wait"}
    IN  \E w \in IF asleep = {} THEN {v} ELSE asleep :
           pc' = [pc EXCEPT ![w] = "awake", ![v] = "body"]

\* Mutant: the VP is signalled without the job.
Answer_Empty(v, j) == current

\* What answer_oldest_vp_waiting writes into the VP it answers.
Answer(v, j) == [current EXCEPT ![v] = j]

\* post_job of the new job j, with answer_oldest_vp_waiting.
PostJob(v, j) ==
    /\ roots' = IF parent[j] = NULL THEN Append(roots, j) ELSE roots
    /\ map' = IF parent[j] = NULL THEN map ELSE map \cup {j}
    /\ LET found == {k \in map' : Ready(k)}
       IN IF waiting # <<>> /\ found # {}
          THEN \E k \in found :
                  /\ state' = Claim(k)
                  /\ current' = Answer(Head(waiting), k)
                  /\ running' = Append(running, Head(waiting))
                  /\ waiting' = Tail(waiting)
                  /\ Signal(v)
          ELSE /\ pc' = [pc EXCEPT ![v] = "body"]
               /\ UNCHANGED <<state, current, running, waiting>>
    /\ UNCHANGED shouldStop

\* broadcast_null, called by VP v: everyone on the running list, and those of
\* the waiting list that it reaches, are told to stop.
BroadcastNull(v) ==
    LET skim == Skim[waiting]
        told == Range(running) \cup Range(skim.erased)
    IN  /\ shouldStop' = [w \in VPs |-> shouldStop[w] \/ w \in told]
        /\ current' = [w \in VPs |-> IF w \in told THEN NULL ELSE current[w]]
        /\ running' = running \o skim.erased
        /\ waiting' = skim.left
        /\ pc' = [w \in VPs |-> IF w = v \/ pc[w] = "wait" THEN "awake" ELSE pc[w]]

\* list::remove: the list without the VP v, wherever it stands in it.
Without(list, v) ==
    LET kept    == {i \in DOMAIN list : list[i] # v}
        rank(i) == Cardinality({k \in kept : k <= i})
    IN  [r \in 1 .. Cardinality(kept) |-> list[CHOOSE i \in kept : rank(i) = r]]

\* Mutant: the VP that asks is counted among the waiting ones.
LastOne_Late == Len(waiting) = NumVPs

\* All the other VPs wait.
LastOne == Len(waiting) = NumVPs - 1

\* request_job up to its return ("awake") or its wait; the wait is not in a loop.
RequestJob(v, starting) ==
    LET found == IF v = 0 THEN RootReady ELSE Claimable(starting)
        given == {j \in found : v = 0 \/ Returned(starting)}
    IN  /\ \/ \E j \in given :
              /\ state' = Claim(j)
              /\ current' = [current EXCEPT ![v] = j]
              /\ pc' = [pc EXCEPT ![v] = "awake"]
              /\ UNCHANGED lists
           \/ /\ given = {}
              /\ \/ found = {} /\ UNCHANGED state
                 \/ \E j \in found : state' = Claim(j)
              /\ IF LastOne
                 THEN BroadcastNull(v)
                 ELSE /\ waiting' = Append(waiting, v)
                      /\ running' = Without(running, v)
                      /\ pc' = [pc EXCEPT ![v] = "wait"]
                      /\ UNCHANGED <<current, shouldStop>>
        /\ UNCHANGED <<parent, handles, graph, frames, stopping, crashed>>

-----------------------------------------------------------------------------
(* The virtual processors. *)

\* The head of run's loop.
Loop(v) ==
    /\ pc[v] = "loop"
    /\ IF shouldStop[v]
       THEN /\ pc' = [pc EXCEPT ![v] = "gone"]
            /\ UNCHANGED <<jobVars, graph, lists, current, frames, stopping, crashed>>
       ELSE RequestJob(v, NULL)
    /\ UNCHANGED context

\* Job::run of the current job.
Run(v) ==
    /\ frames' = [frames EXCEPT ![v] = Append(@, Frame(current[v]))]
    /\ pc' = [pc EXCEPT ![v] = "body"]

Popped(v) == Front(context[v])

\* request_job has returned, to run or to the helping join.
Requested(v) ==
    /\ pc[v] = "awake"
    /\ IF frames[v] = <<>>
       THEN /\ IF current[v] # NULL
               THEN Run(v)
               ELSE pc' = [pc EXCEPT ![v] = "loop"] /\ UNCHANGED frames
            /\ UNCHANGED <<context, crashed>>
       ELSE IF current[v] = Last(context[v])
       THEN /\ context' = [context EXCEPT ![v] = Popped(v)]
            /\ pc' = [pc EXCEPT ![v] = "join"]
            /\ UNCHANGED <<frames, crashed>>
       ELSE /\ IF current[v] = NULL
               THEN crashed' = TRUE /\ UNCHANGED <<frames, pc>>
               ELSE Run(v) /\ UNCHANGED crashed
            /\ UNCHANGED context
    /\ UNCHANGED <<jobVars, graph, lists, current, stopping>>

\* create_new_job up to the constructor's end: a helper that looks at the
\* children of the current job finds the new one ...
Create(v, j) ==
    /\ pc[v] = "body" /\ state[j] = "none"
    /\ state' = [state EXCEPT ![j] = "ready"]
    /\ parent' = [parent EXCEPT ![j] = current[v]]
    /\ handles' = [handles EXCEPT ![Body(v)] = @ \cup {j}, ![j] = {}]
    /\ pc' = [pc EXCEPT ![v] = "post"]
    /\ UNCHANGED <<graph, lists, current, context, frames, stopping, crashed>>

\* ... before post_job has the mutex.  The new job is the one of the body's that
\* is not in the graph.
Post(v, j) ==
    /\ pc[v] = "post"
    /\ j \in handles[Body(v)] \ (Range(roots) \cup map)
    /\ PostJob(v, j)
    /\ UNCHANGED <<parent, handles, context, frames, stopping, crashed>>

JoinBegin(v, j) ==
    /\ pc[v] = "body" /\ j \in handles[Body(v)]
    /\ frames' = [frames EXCEPT ![v][Len(frames[v])].joins = j]
    /\ pc' = [pc EXCEPT ![v] = "join"]
    /\ UNCHANGED <<jobVars, graph, lists, current, context, stopping, crashed>>

Joinable(j) == state[j] = "finished"

\* A turn of join_job's loop: run the job here, or find it finished, or help.
JoinTurn(v) ==
    /\ pc[v] = "join"
    /\ LET j == Joined(v)
       IN \/ /\ Ready(j)
             /\ state' = Claim(j)
             /\ context' = [context EXCEPT ![v] = Append(@, current[v])]
             /\ current' = [current EXCEPT ![v] = j]
             /\ frames' = [frames EXCEPT ![v] = Append(@, Frame(j))]
             /\ pc' = [pc EXCEPT ![v] = "body"]
             /\ UNCHANGED <<parent, handles>>
          \/ /\ Joinable(j)
             /\ pc' = [pc EXCEPT ![v] = "joined"]
             /\ UNCHANGED <<jobVars, context, current, frames>>
          \/ /\ ~Ready(j) /\ ~Joinable(j)
             /\ context' = [context EXCEPT ![v] = Append(@, current[v])]
             /\ pc' = [pc EXCEPT ![v] = "help"]
             /\ UNCHANGED <<jobVars, current, frames>>
    /\ UNCHANGED <<graph, lists, stopping, crashed>>

Help(v) == pc[v] = "help" /\ RequestJob(v, Joined(v)) /\ UNCHANGED context

\* The job's only join takes its counter to zero: erase_job takes the job out of
\* the graph and also forgets the VP's current job.
Join(v) ==
    /\ pc[v] = "joined"
    /\ LET j == Joined(v)
       IN /\ roots' = SelectSeq(roots, LAMBDA k : k # j)
          /\ map' = map \ {j}
          /\ handles' = [handles EXCEPT ![Body(v)] = @ \ {j}]
    /\ current' = [current EXCEPT ![v] = NULL]
    /\ frames' = [frames EXCEPT ![v][Len(frames[v])].joins = NULL]
    /\ pc' = [pc EXCEPT ![v] = "body"]
    /\ UNCHANGED <<state, parent, lists, context, stopping, crashed>>

\* A body returns to whoever called Job::run: the loop of run, or a join, which
\* restores the context it saved and either is done or looks again.
Return(v) ==
    /\ pc[v] = "body" /\ Body(v) # Main /\ handles[Body(v)] = {}
    /\ state' = [state EXCEPT ![Body(v)] = IF @ = "running" THEN "finished" ELSE @]
    /\ frames' = [frames EXCEPT ![v] = Front(@)]
    /\ IF Len(frames[v]) = 1
       THEN /\ pc' = [pc EXCEPT ![v] = "loop"]
            /\ UNCHANGED <<current, context>>
       ELSE /\ current' = [current EXCEPT ![v] = Last(context[v])]
            /\ context' = [context EXCEPT ![v] = Popped(v)]
            /\ pc' = [pc EXCEPT ![v] =
                         IF Last(Front(frames[v])).joins = Body(v)
                         THEN "joined" ELSE "join"]
    /\ UNCHANGED <<parent, handles, graph, lists, stopping, crashed>>

\* terminate: main joins the threads it finds on the running list.
StopVPs ==
    /\ \/ pc[0] = "body" /\ Body(0) = Main /\ handles[Main] = {}
       \/ pc[0] = "stop" /\ pc[stopping] = "gone"
    /\ LET left == SelectSeq(running, LAMBDA w : w # 0 /\ pc[w] # "gone")
       IN IF left = <<>>
          THEN stopping' = NULL /\ pc' = [pc EXCEPT ![0] = "ended"]
          ELSE stopping' = left[1] /\ pc' = [pc EXCEPT ![0] = "stop"]
    /\ UNCHANGED <<jobVars, graph, lists, current, context, frames, crashed>>

VP(v) ==
    /\ ~crashed /\ pc[0] # "ended"
    /\ \/ Loop(v) \/ Requested(v) \/ JoinTurn(v) \/ Help(v) \/ Join(v) \/ Return(v)
       \/ \E j \in Jobs : Create(v, j) \/ Post(v, j) \/ JoinBegin(v, j)
       \/ v = 0 /\ StopVPs

Next == \E v \in VPs : VP(v)

Spec == Init /\ [][Next]_vars

-----------------------------------------------------------------------------
\* However answers, joins and helping are interleaved, a job is in the hands of
\* one VP, and once on its stack.
OneExecutor ==
    \A v, w \in VPs : \A i \in DOMAIN frames[v], k \in DOMAIN frames[w] :
        frames[v][i].body = frames[w][k].body => v = w /\ i = k

\* What a step does that puts a finished job on a VP's stack: the VP was woken by
\* a signal meant for somebody else.
Rerun ==
    \A v \in VPs : /\ Len(frames'[v]) > Len(frames[v])
                   /\ state[Last(frames'[v]).body] = "finished"
                   => v \in Range(waiting)

\* A VP runs a finished job again only when a wake-up meant for somebody else
\* (or a broadcast that passed it over) woke it while it was still on the waiting
\* list; a VP that was answered never does.
RerunOnlyUnanswered == [][Rerun]_vars

\* When no thread can go on, the program has ended, or somebody was told to stop
\* by broadcast_null (a helping join then crashes or sleeps for ever), or main
\* joins the thread of a VP that sleeps in request_job.
StopsExplained ==
    ~ENABLED Next => \/ pc[0] = "ended"
                     \/ \E v \in VPs : shouldStop[v]
                     \/ pc[0] = "stop" /\ pc[stopping] = "wait"
=============================================================================
