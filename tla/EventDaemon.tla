----------------------------- MODULE EventDaemon -----------------------------
(***************************************************************************)
(* Sandbox/Anahy: daemons are threads that serve the events of their       *)
(* virtual processors (VPs) one by one.  A VP that asks for a job blocks   *)
(* on its own mutex, a semaphore, until its daemon resumes it.  The job    *)
(* graph and the count of idle daemons are shared by all daemons without a *)
(* lock: their calls are commented out.  Accesses to the graph are         *)
(* linearised here; the increment of the count is a read and a write, and  *)
(* its test another read.                                                  *)
(*                                                                         *)
(* The program is a nested fork/join: a body creates jobs, joins each of   *)
(* them once, and returns; main then terminates the machine.  A job is the *)
(* address of its object: a new one may be anywhere.                       *)
(***************************************************************************)
EXTENDS PrototypeParameters, Sequences, SequencesExt

Daemons == 0 .. NumDaemons - 1
VPs     == 0 .. NumDaemons * VPsPerDaemon - 1
Jobs    == 1 .. NumJobs
Boss(v) == v \div VPsPerDaemon
Mine(d) == {v \in VPs : Boss(v) = d}

VARIABLES
    state,           \* of each job: "none", "ready", "running", "finished"
    parent,          \* the current job of its creator
    handles,         \* of each body: the jobs it created and has not joined
    roots,           \* root_jobs
    daemonsWaiting,  \* daemons_waiting
    mainSet,         \* main_vp is set, main may go on
    dpc,             \* where each daemon is
    queue,           \* event_queue
    waiting,         \* vps_waiting: the GetJob events not answered, oldest first
    hand,            \* the event, the job or the count the daemon deals with
    shouldStop,      \* should_stop of each daemon
    pc,              \* where each VP is
    current,         \* current_job of each VP
    context,         \* context_stack of each VP
    frames,          \* of each VP: the bodies it is in and what each of them joins
    resumed,         \* the VP's mutex is unlocked: its next block() returns
    crashed          \* a call through a null job

jobVars == <<state, parent, handles>>
vmVars  == <<roots, daemonsWaiting, mainSet>>
dVars   == <<dpc, queue, waiting, hand, shouldStop>>
vpVars  == <<pc, current, context, frames, resumed>>
vars    == <<jobVars, vmVars, dVars, vpVars, crashed>>

Frame(b)  == [body |-> b, joins |-> NULL]
Body(v)   == Last(frames[v]).body
Joined(v) == Last(frames[v]).joins
Event(type, v, j) == [type |-> type, vp |-> v, job |-> j, fwd |-> FALSE]

Init ==
    /\ state = [j \in Jobs |-> "none"] /\ parent = [j \in Jobs |-> NULL]
    /\ handles = [b \in Jobs \cup {Main} |-> {}]
    /\ roots = <<>> /\ daemonsWaiting = 0 /\ mainSet = FALSE
    /\ dpc = [d \in Daemons |-> "start"]
    /\ queue = [d \in Daemons |-> <<>>] /\ waiting = [d \in Daemons |-> <<>>]
    /\ hand = [d \in Daemons |-> NULL] /\ shouldStop = [d \in Daemons |-> FALSE]
    /\ pc = [v \in VPs |-> "unborn"] /\ current = [v \in VPs |-> NULL]
    /\ context = [v \in VPs |-> <<>>] /\ frames = [v \in VPs |-> <<>>]
    /\ resumed = [v \in VPs |-> FALSE] /\ crashed = FALSE

Goto(v, l)  == pc' = [pc EXCEPT ![v] = l]

\* Mutant: nobody signals the daemon.
Woken_Not(l) == l

\* Where pthread_cond_signal leaves a daemon.
Woken(l) == IF l = "sleep" THEN "turn" ELSE l

\* push_event to daemon d.
Push(d, e) ==
    /\ queue' = [queue EXCEPT ![d] = Append(@, e)]
    /\ dpc' = [dpc EXCEPT ![d] = Woken(@)]

PushToBoss(v, e) == Push(Boss(v), e) /\ UNCHANGED <<waiting, hand, shouldStop>>

-----------------------------------------------------------------------------
(* The job graph. *)

Ready(j) == state[j] = "ready"

Children(j) == SetToSortSeq({k \in Jobs : parent[k] = j}, <)

\* find_a_ready_job from position i of the list l: a job that is not ready is
\* replaced by its children at the end of the list and erased, and the iterator
\* is advanced over the one behind it; from the end of the list, which is
\* circular, it comes back to the first element.
Find[l \in Seq(Jobs), i \in Nat \ {0}] ==
    IF i > Len(l) THEN NULL
    ELSE IF Ready(l[i]) THEN l[i]
    ELSE LET rest == RemoveAt(l \o Children(l[i]), i)
         IN  Find[rest, IF i > Len(rest) THEN 1 ELSE i + 1]

\* get_job: the ready job at which the search stops, if it stops at one.
FoundJob ==
    LET found == {j \in Jobs : Ready(j) /\ j = Find[roots, 1]}
    IN  IF found = {} THEN NULL ELSE CHOOSE j \in found : TRUE

\* Mutant: the job is found ready and not marked.
Claim_Unmarked(j) == state

\* The compare-and-swap of ready and running.
Claim(j) == IF j = NULL THEN state ELSE [state EXCEPT ![j] = "running"]

-----------------------------------------------------------------------------
(* The daemons. *)

StartVPs(d) ==
    /\ dpc[d] = "start"
    /\ dpc' = [dpc EXCEPT ![d] = "turn"]
    /\ shouldStop' = [shouldStop EXCEPT ![d] = FALSE]
    /\ pc' = [v \in VPs |-> IF v \in Mine(d) \ {0} THEN "loop" ELSE pc[v]]
    /\ mainSet' = (mainSet \/ d = 0)
    /\ UNCHANGED <<jobVars, roots, daemonsWaiting, queue, waiting, hand, current,
                   context, frames, resumed, crashed>>

\* A turn of run's loop, up to the unlock or the wait.
Turn(d) ==
    /\ dpc[d] = "turn"
    /\ IF queue[d] # <<>>
       THEN /\ hand' = [hand EXCEPT ![d] = Head(queue[d])]
            /\ queue' = [queue EXCEPT ![d] = Tail(@)]
            /\ dpc' = [dpc EXCEPT ![d] = "handle"]
       ELSE /\ dpc' = [dpc EXCEPT ![d] = IF Len(waiting[d]) = VPsPerDaemon
                                         THEN "blocking" ELSE "sleep"]
            /\ UNCHANGED <<queue, hand>>
    /\ UNCHANGED <<jobVars, vmVars, waiting, shouldStop, vpVars, crashed>>

\* Give the VPs vs the job j and resume them.
Answer(vs, j) ==
    /\ current' = [v \in VPs |-> IF v \in vs THEN j ELSE current[v]]
    /\ resumed' = [v \in VPs |-> resumed[v] \/ v \in vs]
    /\ UNCHANGED <<pc, context, frames>>

\* forward_to_other_daemons, from daemon d, which has dealt with its event.
Forward(d, e) ==
    /\ queue' = [k \in Daemons |->
                    IF k = d THEN queue[k] ELSE Append(queue[k], [e EXCEPT !.fwd = TRUE])]
    /\ dpc' = [k \in Daemons |-> IF k = d THEN "turn" ELSE Woken(dpc[k])]
    /\ daemonsWaiting' = 0

Handled(d) ==
    /\ dpc' = [dpc EXCEPT ![d] = "turn"]
    /\ UNCHANGED <<queue, daemonsWaiting>>

\* Mutant: the event of a VP that was answered stays on the list.
Pending_Kept(d, e, j) == Append(waiting[d], e)

\* The waiting events after GetJob event e was answered with job j.
Pending(d, e, j) == IF j = NULL THEN Append(waiting[d], e) ELSE waiting[d]

HandleGet(d, e) ==
    LET j == FoundJob
    IN  /\ e.type = "GetJob"
        /\ state' = Claim(j)
        /\ waiting' = [waiting EXCEPT ![d] = Pending(d, e, j)]
        /\ IF j = NULL THEN UNCHANGED vpVars ELSE Answer({e.vp}, j)
        /\ Handled(d)
        /\ UNCHANGED roots

\* The daemon the event comes from puts the job into the graph, and tells the
\* others of it if it has no VP for it and somebody waits.
HandleNew(d, e) ==
    LET taken == waiting[d] # <<>> /\ Ready(e.job)
    IN  /\ e.type = "NewJob"
        /\ roots' = IF ~e.fwd /\ parent[e.job] = NULL THEN Append(roots, e.job) ELSE roots
        /\ IF taken
           THEN /\ state' = Claim(e.job)
                /\ Answer({Head(waiting[d]).vp}, e.job)
                /\ waiting' = [waiting EXCEPT ![d] = Tail(@)]
                /\ Handled(d)
           ELSE /\ IF ~e.fwd /\ daemonsWaiting # 0 THEN Forward(d, e) ELSE Handled(d)
                /\ UNCHANGED <<state, waiting, vpVars>>

WaitsFor(e, j) == e.job = j

\* The VP that waits for the job that ended is resumed with its own current job;
\* a job is joined once, so there is at most one, and nothing depends on how the
\* loop goes on behind it.
HandleEnd(d, e) ==
    LET joiners == {i \in DOMAIN waiting[d] : WaitsFor(waiting[d][i], e.job)}
    IN  /\ e.type = "EndOfJob"
        /\ IF e.fwd THEN Handled(d) ELSE Forward(d, e)
        /\ \/ joiners = {} /\ UNCHANGED <<waiting, resumed>>
           \/ \E i \in joiners :
                 /\ waiting' = [waiting EXCEPT ![d] = RemoveAt(@, i)]
                 /\ resumed' = [resumed EXCEPT ![waiting[d][i].vp] = TRUE]
        /\ UNCHANGED <<state, roots, pc, current, context, frames>>

HandleDestroy(d, e) ==
    /\ e.type = "DestroyJob"
    /\ roots' = SelectSeq(roots, LAMBDA j : j # e.job)
    /\ Handled(d)
    /\ UNCHANGED <<state, waiting, vpVars>>

HandleEvent(d) ==
    /\ dpc[d] = "handle"
    /\ \/ HandleGet(d, hand[d]) \/ HandleNew(d, hand[d])
       \/ HandleEnd(d, hand[d]) \/ HandleDestroy(d, hand[d])
    /\ hand' = [hand EXCEPT ![d] = NULL]
    /\ UNCHANGED <<parent, handles, mainSet, shouldStop, crashed>>

\* blocking_get_job, which does not block: it finds a job, or reads the count of
\* the idle daemons ...
BlockingGet(d) ==
    LET j == FoundJob
    IN  /\ dpc[d] = "blocking"
        /\ state' = Claim(j)
        /\ hand' = [hand EXCEPT ![d] = IF j = NULL THEN daemonsWaiting ELSE j]
        /\ dpc' = [dpc EXCEPT ![d] = IF j = NULL THEN "count" ELSE "answer"]
        /\ UNCHANGED <<parent, handles, vmVars, queue, waiting, shouldStop, vpVars,
                       crashed>>

\* A count past NumDaemons never equals it again before it is reset, however far
\* the daemons go on counting: all such counts are one.
Counted(n) == IF n > NumDaemons THEN NumDaemons + 1 ELSE n

\* ... writes it back, incremented ...
Count(d) ==
    /\ dpc[d] = "count"
    /\ daemonsWaiting' = Counted(hand[d] + 1)
    /\ dpc' = [dpc EXCEPT ![d] = "counted"]
    /\ UNCHANGED <<jobVars, roots, mainSet, queue, waiting, hand, shouldStop, vpVars,
                   crashed>>

\* ... and reads it again.  The last daemon stops all of them.
CheckCount(d) ==
    /\ dpc[d] = "counted"
    /\ IF daemonsWaiting = NumDaemons
       THEN /\ shouldStop' = [k \in Daemons |-> TRUE]
            /\ daemonsWaiting' = 0
       ELSE UNCHANGED <<shouldStop, daemonsWaiting>>
    /\ hand' = [hand EXCEPT ![d] = NULL]
    /\ dpc' = [dpc EXCEPT ![d] = "answer"]
    /\ UNCHANGED <<jobVars, roots, mainSet, queue, waiting, vpVars, crashed>>

\* What run does with the answer.  A daemon that has to stop drops a job it found.
Answered(d) ==
    /\ dpc[d] = "answer"
    /\ IF shouldStop[d]
       THEN /\ Answer({waiting[d][i].vp : i \in DOMAIN waiting[d]}, NULL)
            /\ waiting' = [waiting EXCEPT ![d] = <<>>]
            /\ dpc' = [dpc EXCEPT ![d] = "stop"]
       ELSE /\ dpc' = [dpc EXCEPT ![d] = "turn"]
            /\ IF hand[d] = NULL
               THEN UNCHANGED <<waiting, vpVars>>
               ELSE /\ Answer({Head(waiting[d]).vp}, hand[d])
                    /\ waiting' = [waiting EXCEPT ![d] = Tail(@)]
    /\ hand' = [hand EXCEPT ![d] = NULL]
    /\ UNCHANGED <<jobVars, vmVars, queue, shouldStop, crashed>>

StopVPs(d) ==
    /\ dpc[d] = "stop" /\ \A v \in Mine(d) \ {0} : pc[v] = "gone"
    /\ dpc' = [dpc EXCEPT ![d] = "done"]
    /\ UNCHANGED <<jobVars, vmVars, queue, waiting, hand, shouldStop, vpVars, crashed>>

Daemon(d) ==
    /\ ~crashed
    /\ \/ StartVPs(d) \/ Turn(d) \/ HandleEvent(d) \/ BlockingGet(d) \/ Count(d)
       \/ CheckCount(d) \/ Answered(d) \/ StopVPs(d)

-----------------------------------------------------------------------------
(* The virtual processors. *)

\* start_vm returns in main.
StartMain ==
    /\ pc[0] = "unborn" /\ mainSet
    /\ Goto(0, "body")
    /\ frames' = [frames EXCEPT ![0] = <<Frame(Main)>>]
    /\ UNCHANGED <<jobVars, vmVars, dVars, current, context, resumed, crashed>>

\* The GetJob event of run's loop, or of a join that helps.
GetJob(v) ==
    /\ pc[v] \in {"loop", "help"}
    /\ PushToBoss(v, Event("GetJob", v, IF pc[v] = "loop" THEN NULL ELSE Joined(v)))
    /\ Goto(v, "blocked")
    /\ UNCHANGED <<jobVars, vmVars, current, context, frames, resumed, crashed>>

Popped(v) == Front(context[v])

\* block() returns: to run's loop, which stops without a job, or to the helping
\* join, which looks whether its current job is another one than it was.  Were the
\* block() after the end of a job to return, the loop would go on; nobody unlocks
\* its mutex (OneAnswerPerRequest).
Unblock(v) ==
    /\ pc[v] \in {"blocked", "endblock"} /\ resumed[v]
    /\ resumed' = [resumed EXCEPT ![v] = FALSE]
    /\ current' = [current EXCEPT ![v] = IF pc[v] = "endblock" THEN NULL ELSE @]
    /\ LET run == /\ Goto(v, "body")
                  /\ frames' = [frames EXCEPT ![v] = Append(@, Frame(current[v]))]
                  /\ UNCHANGED <<context, crashed>>
           idle(where) == Goto(v, where) /\ UNCHANGED <<context, frames, crashed>>
       IN IF pc[v] = "endblock" THEN idle("loop")
          ELSE IF frames[v] = <<>>
          THEN IF current[v] = NULL THEN idle("gone") ELSE run
          ELSE IF current[v] = Last(context[v])
          THEN /\ Goto(v, "join")
               /\ context' = [context EXCEPT ![v] = Popped(v)]
               /\ UNCHANGED <<frames, crashed>>
          ELSE IF current[v] = NULL
          THEN /\ crashed' = TRUE /\ Goto(v, "crash")
               /\ UNCHANGED <<context, frames>>
          ELSE run
    /\ UNCHANGED <<jobVars, vmVars, dVars>>

\* create_new_job.
Create(v, j) ==
    /\ pc[v] = "body" /\ state[j] = "none"
    /\ state' = [state EXCEPT ![j] = "ready"]
    /\ parent' = [parent EXCEPT ![j] = current[v]]
    /\ handles' = [handles EXCEPT ![Body(v)] = @ \cup {j}]
    /\ PushToBoss(v, Event("NewJob", v, j))
    /\ UNCHANGED <<vmVars, vpVars, crashed>>

JoinBegin(v, j) ==
    /\ pc[v] = "body" /\ j \in handles[Body(v)]
    /\ frames' = [frames EXCEPT ![v][Len(frames[v])].joins = j]
    /\ Goto(v, "join")
    /\ UNCHANGED <<jobVars, vmVars, dVars, current, context, resumed, crashed>>

Joinable(j) == state[j] = "finished"

\* A turn of join_job's loop: run the job here, or find it finished, or help.
JoinTurn(v) ==
    /\ pc[v] = "join"
    /\ LET j == Joined(v)
       IN \/ /\ Ready(j)
             /\ state' = Claim(j)
             /\ context' = [context EXCEPT ![v] = Append(@, current[v])]
             /\ current' = [current EXCEPT ![v] = j]
             /\ frames' = [frames EXCEPT ![v] = Append(@, Frame(j))]
             /\ Goto(v, "body")
          \/ /\ Joinable(j) /\ Goto(v, "joined")
             /\ UNCHANGED <<state, context, current, frames>>
          \/ /\ ~Ready(j) /\ ~Joinable(j) /\ Goto(v, "help")
             /\ context' = [context EXCEPT ![v] = Append(@, current[v])]
             /\ UNCHANGED <<state, current, frames>>
    /\ UNCHANGED <<parent, handles, vmVars, dVars, resumed, crashed>>

\* The job's only join takes its counter to zero: a DestroyJob event is sent.
Join(v) ==
    /\ pc[v] = "joined"
    /\ PushToBoss(v, Event("DestroyJob", v, Joined(v)))
    /\ handles' = [handles EXCEPT ![Body(v)] = @ \ {Joined(v)}]
    /\ frames' = [frames EXCEPT ![v][Len(frames[v])].joins = NULL]
    /\ Goto(v, "body")
    /\ UNCHANGED <<state, parent, vmVars, current, context, resumed, crashed>>

\* The body of a job returns.
Return(v) ==
    /\ pc[v] = "body" /\ Body(v) # Main /\ handles[Body(v)] = {}
    /\ state' = [state EXCEPT ![Body(v)] = "finished"]
    /\ Goto(v, "returned")
    /\ UNCHANGED <<parent, handles, vmVars, dVars, current, context, frames, resumed,
                   crashed>>

\* The caller of Job::run tells the daemon.  run's loop then blocks once more; a
\* join restores the context it saved and either is done or looks again.
EndOfJob(v) ==
    /\ pc[v] = "returned"
    /\ PushToBoss(v, Event("EndOfJob", v, current[v]))
    /\ frames' = [frames EXCEPT ![v] = Front(@)]
    /\ IF Len(frames[v]) = 1
       THEN Goto(v, "endblock") /\ UNCHANGED <<current, context>>
       ELSE /\ current' = [current EXCEPT ![v] = Last(context[v])]
            /\ context' = [context EXCEPT ![v] = Popped(v)]
            /\ Goto(v, IF Last(Front(frames[v])).joins = Body(v)
                       THEN "joined" ELSE "join")
    /\ UNCHANGED <<jobVars, vmVars, resumed, crashed>>

\* stop_vm: main enters run's loop, and then joins the daemons.
Terminate ==
    /\ pc[0] = "body" /\ Body(0) = Main /\ handles[Main] = {}
    /\ frames' = [frames EXCEPT ![0] = <<>>]
    /\ Goto(0, "loop")
    /\ UNCHANGED <<jobVars, vmVars, dVars, current, context, resumed, crashed>>

JoinDaemons ==
    /\ pc[0] = "gone" /\ \A d \in Daemons : dpc[d] = "done"
    /\ Goto(0, "ended")
    /\ UNCHANGED <<jobVars, vmVars, dVars, current, context, frames, resumed, crashed>>

VP(v) ==
    /\ ~crashed
    /\ \/ GetJob(v) \/ Unblock(v) \/ JoinTurn(v) \/ Join(v) \/ Return(v) \/ EndOfJob(v)
       \/ \E j \in Jobs : Create(v, j) \/ JoinBegin(v, j)
       \/ v = 0 /\ (StartMain \/ Terminate \/ JoinDaemons)

Next == (\E d \in Daemons : Daemon(d)) \/ (\E v \in VPs : VP(v))

Spec == Init /\ [][Next]_vars

-----------------------------------------------------------------------------
\* Whether it was found in the graph, announced, forwarded to another daemon or
\* joined, a job is run once: one VP is in its body, and nobody after its end.
RunOnce ==
    \A v \in VPs : \A i \in DOMAIN frames[v] : frames[v][i].body # Main =>
        /\ \A w \in VPs : \A k \in DOMAIN frames[w] :
              frames[v][i].body = frames[w][k].body => v = w /\ i = k
        /\ state[frames[v][i].body] = "finished"
              => i = Len(frames[v]) /\ pc[v] = "returned"

\* What can still unblock VP v: its GetJob event in the queue, in the hand or on
\* the waiting list of its daemon, or its mutex, unlocked.
Tokens(v) ==
    LET d == Boss(v)
        asks(e) == e.type = "GetJob" /\ e.vp = v
    IN     {<<"queue", i>> : i \in {i \in DOMAIN queue[d] : asks(queue[d][i])}}
      \cup {<<"waiting", i>> : i \in {i \in DOMAIN waiting[d] : asks(waiting[d][i])}}
      \cup {<<"hand", h>> : h \in {h \in {hand[d]} : dpc[d] = "handle" /\ asks(h)}}
      \cup {<<"mutex", r>> : r \in {resumed[v]} \cap {TRUE}}

\* The mutex of a VP works as a semaphore because a VP that blocks on a request
\* has exactly one answer to come, and any other VP, one that is blocked after
\* the end of its job included, has none.
OneAnswerPerRequest ==
    \A v \in VPs : Cardinality(Tokens(v)) = IF pc[v] = "blocked" THEN 1 ELSE 0

\* When no thread can go on, main has ended, or a helping join was answered with
\* no job by a daemon that stops, or a VP blocks after the end of its job, or it
\* asks a daemon that is gone.
StopsExplained ==
    ~ENABLED Next => \/ pc[0] = "ended"
                     \/ crashed /\ \E d \in Daemons : shouldStop[d]
                     \/ \E v \in VPs : pc[v] = "endblock"
                     \/ \E v \in VPs : pc[v] = "blocked" /\ dpc[Boss(v)] = "done"
=============================================================================
