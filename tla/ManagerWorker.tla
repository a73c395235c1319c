---------------------------- MODULE ManagerWorker ----------------------------
(***************************************************************************)
(* Sandbox/manager_and_worker: every manager is a thread that serves the   *)
(* events of its workers from a queue, takes work from the controller's    *)
(* pool, and sends its workers home when the controller has found every    *)
(* manager out of work.  Worker 0 runs in the main thread, and only once   *)
(* main has signalled every manager to stop.                               *)
(*                                                                         *)
(* A critical section of a worker, of main or of the controller is one     *)
(* step; only a manager keeps its mutex over several steps (locked).  The  *)
(* manager's accesses to its queue without the mutex are linearised.       *)
(***************************************************************************)
EXTENDS Integers, Sequences, FiniteSets

CONSTANTS
    NumManagers,        \* argv[1]
    WorkersPerManager,  \* argv[2]
    InitialWork,        \* argv[3]
    MaxWork,            \* bound on the work ever created
    NULL

ASSUME ManagerWorkerAssumption ==
    /\ NumManagers \in Nat \ {0} /\ WorkersPerManager \in Nat \ {0}
    /\ InitialWork \in Nat /\ MaxWork \in Nat /\ InitialWork <= MaxWork
    /\ NULL \notin Nat /\ NULL \notin {"GetWork", "PostWork", "Work"} \X Nat

Managers == 0 .. NumManagers - 1
Workers  == 0 .. NumManagers * WorkersPerManager - 1
Mine(m)  == {w \in Workers : w \div WorkersPerManager = m}
Boss(w)  == w \div WorkersPerManager

VARIABLES
    main,             \* the main thread: where it is and the manager it is at
    mainSet,          \* main_worker is set and the controller's mutex given back
    pool,             \* work_pool
    managersWaiting,  \* managers_waiting
    mpc,              \* where each manager is
    locked,           \* the manager holds its mutex
    queue,            \* event_queue: <<"PostWork", work>> or <<"GetWork", worker>>
    waiting,          \* workers_waiting, oldest first
    hand,             \* the event or the work the manager is dealing with
    wpc,              \* where each worker is
    current,          \* the worker's current work
    resumed,          \* the worker's own mutex, its semaphore, is unlocked
    created,          \* how much work was created
    done,             \* the work that was run
    crashed           \* pthread_join of a thread that was never created

mgrVars  == <<mpc, locked, queue, waiting, hand>>
wkrVars  == <<wpc, current, resumed>>
poolVars == <<pool, managersWaiting, mainSet>>
vars == <<main, poolVars, mgrVars, wkrVars, created, done, crashed>>

Init ==
    /\ main = <<"start", 0>> /\ mainSet = FALSE
    /\ pool = [i \in 1 .. InitialWork |-> i] /\ managersWaiting = 0
    /\ mpc = [m \in Managers |-> "start"] /\ locked = [m \in Managers |-> FALSE]
    /\ queue = [m \in Managers |-> <<>>] /\ waiting = [m \in Managers |-> <<>>]
    /\ hand = [m \in Managers |-> NULL]
    /\ wpc = [w \in Workers |-> "unborn"] /\ current = [w \in Workers |-> NULL]
    /\ resumed = [w \in Workers |-> FALSE]
    /\ created = InitialWork /\ done = {} /\ crashed = FALSE

Goto(m, l) == mpc' = [mpc EXCEPT ![m] = l]

-----------------------------------------------------------------------------
(* The threads of the workers. *)

\* push an event of manager m and signal it: a sleeping manager has to get its
\* mutex back, a manager that is not asleep yet does not notice.
PushEvent(m, e) ==
    /\ ~locked[m]
    /\ queue' = [queue EXCEPT ![m] = Append(@, e)]
    /\ mpc' = [mpc EXCEPT ![m] = IF @ = "sleep" THEN "lock" ELSE @]
    /\ UNCHANGED <<locked, waiting, hand>>

RequestWork(w) ==
    /\ wpc[w] = "request"
    /\ PushEvent(Boss(w), <<"GetWork", w>>)
    /\ wpc' = [wpc EXCEPT ![w] = "blocked"]
    /\ UNCHANGED <<main, poolVars, current, resumed, created, done, crashed>>

\* block() returns.
Resume(w) ==
    /\ wpc[w] = "blocked" /\ resumed[w]
    /\ resumed' = [resumed EXCEPT ![w] = FALSE]
    /\ wpc' = [wpc EXCEPT ![w] = IF current[w] = NULL THEN "gone" ELSE "run"]
    /\ UNCHANGED <<main, poolVars, mgrVars, current, created, done, crashed>>

\* Work::run asks for more work when its random amount is 2.
RunWork(w) ==
    /\ wpc[w] = "run"
    /\ done' = done \cup {current[w]}
    /\ \E amount \in 1 .. 2 :
          wpc' = [wpc EXCEPT ![w] = IF amount = 2 /\ created < MaxWork
                                    THEN "post" ELSE "request"]
    /\ UNCHANGED <<main, poolVars, mgrVars, current, resumed, created, crashed>>

PostWork(w) ==
    /\ wpc[w] = "post"
    /\ IF created < MaxWork
       THEN /\ PushEvent(Boss(w), <<"PostWork", created + 1>>)
            /\ created' = created + 1
       ELSE UNCHANGED <<mgrVars, created>>
    /\ wpc' = [wpc EXCEPT ![w] = "request"]
    /\ UNCHANGED <<main, poolVars, current, resumed, done, crashed>>

-----------------------------------------------------------------------------
(* The threads of the managers. *)

StartWorkers(m) ==
    /\ mpc[m] = "start" /\ Goto(m, "lock")
    /\ wpc' = [w \in Workers |-> IF w \in Mine(m) \ {0} THEN "request" ELSE wpc[w]]
    /\ mainSet' = (mainSet \/ m = 0)
    /\ UNCHANGED <<main, pool, managersWaiting, locked, queue, waiting, hand,
                   current, resumed, created, done, crashed>>

\* A turn of the loop of run, or of its inner loop over the events ("relock"),
\* from the lock to the unlock or the wait.  The turn after a blocking_get_work
\* ("top") has no lock: the queue it finds empty may have changed when it sleeps.
Turn(m) ==
    /\ mpc[m] \in {"lock", "relock", "top"}
    /\ mpc[m] # "top" => ~locked[m]
    /\ LET allWait == Len(waiting[m]) = WorkersPerManager
           serve   == queue[m] # <<>> /\ (mpc[m] = "relock" \/ ~allWait)
       IN \/ /\ serve
             /\ hand' = [hand EXCEPT ![m] = Head(queue[m])]
             /\ queue' = [queue EXCEPT ![m] = Tail(@)]
             /\ locked' = [locked EXCEPT ![m] = FALSE]
             /\ Goto(m, "handle")
          \/ /\ ~serve /\ allWait
             /\ locked' = [locked EXCEPT ![m] = mpc[m] # "top"]
             /\ Goto(m, "blocking")
             /\ UNCHANGED <<queue, hand>>
          \/ /\ ~serve /\ ~allWait
             /\ locked' = [locked EXCEPT ![m] = FALSE]
             /\ Goto(m, IF mpc[m] = "top" THEN "tosleep" ELSE "sleep")
             /\ UNCHANGED <<queue, hand>>
    /\ UNCHANGED <<main, poolVars, waiting, wkrVars, created, done, crashed>>

\* pthread_cond_wait of the turn without the mutex.
Sleep(m) ==
    /\ mpc[m] = "tosleep" /\ Goto(m, "sleep")
    /\ locked' = [locked EXCEPT ![m] = FALSE]
    /\ UNCHANGED <<main, poolVars, queue, waiting, hand, wkrVars, created, done,
                   crashed>>

\* Worker::assign_work_and_resume for every worker of ws.
Assign(ws, x) ==
    /\ current' = [w \in Workers |-> IF w \in ws THEN x ELSE current[w]]
    /\ resumed' = [w \in Workers |-> resumed[w] \/ w \in ws]
    /\ UNCHANGED wpc

\* Mutant: the work handed to a waiting worker goes to the pool as well.
PostToPool_Always(m, x) == pool' = Append(pool, x)

\* handle_event of PostWork puts the work into the pool if nobody waits for it.
PostToPool(m, x) == pool' = IF waiting[m] = <<>> THEN Append(pool, x) ELSE pool

\* ManagerController::post_work wakes one of the managers blocked in the
\* controller.
HandlePost(m) ==
    /\ mpc[m] = "handle" /\ hand[m][1] = "PostWork"
    /\ PostToPool(m, hand[m][2])
    /\ IF waiting[m] = <<>>
       THEN /\ mainSet
            /\ LET blocked == {k \in Managers : mpc[k] = "cwait"}
               IN \E k \in IF blocked = {} THEN {m} ELSE blocked :
                     mpc' = [mpc EXCEPT ![k] = "cwoken", ![m] = "relock"]
            /\ UNCHANGED <<waiting, wkrVars>>
       ELSE /\ Assign({Head(waiting[m])}, hand[m][2])
            /\ waiting' = [waiting EXCEPT ![m] = Tail(@)]
            /\ Goto(m, "relock")
    /\ hand' = [hand EXCEPT ![m] = NULL]
    /\ UNCHANGED <<main, mainSet, managersWaiting, locked, queue, created, done,
                   crashed>>

HandleGet(m) ==
    /\ mpc[m] = "handle" /\ hand[m][1] = "GetWork" /\ mainSet
    /\ IF pool = <<>>
       THEN /\ waiting' = [waiting EXCEPT ![m] = Append(@, hand[m][2])]
            /\ UNCHANGED <<pool, wkrVars>>
       ELSE /\ Assign({hand[m][2]}, Head(pool))
            /\ pool' = Tail(pool)
            /\ UNCHANGED waiting
    /\ hand' = [hand EXCEPT ![m] = NULL]
    /\ Goto(m, "relock")
    /\ UNCHANGED <<main, mainSet, managersWaiting, locked, queue, created, done,
                   crashed>>

\* Mutant: a manager that leaves with work is still counted as waiting.
Unblocked_Counted(n) == n

\* managers_waiting once a manager leaves blocking_get_work with work.
Unblocked(n) == n - 1

\* Mutant: the last manager leaves without waking the others.
Broadcast_None == mpc

Broadcast ==
    [k \in Managers |-> IF mpc[k] = "cwait" THEN "cwoken" ELSE mpc[k]]

\* managers_waiting in a turn of blocking_get_work's loop.
Blocked(m) == IF mpc[m] = "blocking" THEN managersWaiting + 1 ELSE managersWaiting

\* ManagerController::blocking_get_work, entered with the manager's mutex held:
\* one turn of its loop.
BlockingGetWork(m) ==
    /\ mpc[m] \in {"blocking", "cwoken"} /\ mainSet
    /\ LET n == Blocked(m)
       IN \/ /\ n = NumManagers
             /\ mpc' = [Broadcast EXCEPT ![m] = "got"]
             /\ managersWaiting' = n
             /\ UNCHANGED <<hand, pool>>
          \/ /\ n # NumManagers /\ pool # <<>>
             /\ hand' = [hand EXCEPT ![m] = <<"Work", Head(pool)>>]
             /\ pool' = Tail(pool)
             /\ managersWaiting' = Unblocked(n)
             /\ Goto(m, "got")
          \/ /\ n # NumManagers /\ pool = <<>>
             /\ managersWaiting' = n
             /\ Goto(m, "cwait")
             /\ UNCHANGED <<hand, pool>>
    /\ UNCHANGED <<main, mainSet, locked, queue, waiting, wkrVars, created, done,
                   crashed>>

\* What run does with the answer: no work sends everybody home, with the mutex
\* still held; work goes to the oldest waiting worker, and the next turn of the
\* loop starts without the mutex.
Answered(m) ==
    /\ mpc[m] = "got"
    /\ IF hand[m] = NULL
       THEN /\ Assign({waiting[m][i] : i \in DOMAIN waiting[m]}, NULL)
            /\ waiting' = [waiting EXCEPT ![m] = <<>>]
            /\ Goto(m, "stop")
            /\ UNCHANGED locked
       ELSE /\ Assign({Head(waiting[m])}, hand[m][2])
            /\ waiting' = [waiting EXCEPT ![m] = Tail(@)]
            /\ Goto(m, "top")
            /\ locked' = [locked EXCEPT ![m] = FALSE]
    /\ hand' = [hand EXCEPT ![m] = NULL]
    /\ UNCHANGED <<main, poolVars, queue, created, done, crashed>>

\* The manager joins the threads of its workers.  Worker 0 has none: its
\* uninitialised handle may crash the join or make it return at once.
StopWorkers(m) ==
    /\ mpc[m] = "stop"
    /\ \/ m = 0 /\ crashed' = TRUE /\ UNCHANGED mpc
       \/ /\ \A w \in Mine(m) \ {0} : wpc[w] = "gone"
          /\ Goto(m, "done") /\ UNCHANGED crashed
    /\ UNCHANGED <<main, poolVars, locked, queue, waiting, hand, wkrVars, created,
                   done>>

-----------------------------------------------------------------------------
(* The main thread. *)

\* start() waits for set_main_worker.
MainStarted ==
    /\ main[1] = "start" /\ mainSet
    /\ main' = <<"signal", 0>>
    /\ UNCHANGED <<poolVars, mgrVars, wkrVars, created, done, crashed>>

\* Manager::signal_stop; the stop_signal it sets is never read.
SignalStop ==
    /\ main[1] = "signal" /\ main[2] \in Managers /\ ~locked[main[2]]
    /\ mpc' = [mpc EXCEPT ![main[2]] = IF @ = "sleep" THEN "lock" ELSE @]
    /\ main' = <<"signal", main[2] + 1>>
    /\ UNCHANGED <<poolVars, locked, queue, waiting, hand, wkrVars, created, done,
                   crashed>>

RunMainWorker ==
    /\ main = <<"signal", NumManagers>>
    /\ wpc' = [wpc EXCEPT ![0] = "request"]
    /\ main' = <<"run", 0>>
    /\ UNCHANGED <<poolVars, mgrVars, current, resumed, created, done, crashed>>

MainWorkerHome ==
    /\ main[1] = "run" /\ wpc[0] = "gone"
    /\ main' = <<"join", 0>>
    /\ UNCHANGED <<poolVars, mgrVars, wkrVars, created, done, crashed>>

JoinManager ==
    /\ main[1] = "join" /\ main[2] \in Managers /\ mpc[main[2]] = "done"
    /\ main' = <<"join", main[2] + 1>>
    /\ UNCHANGED <<poolVars, mgrVars, wkrVars, created, done, crashed>>

\* Nothing runs after a crash.
Main ==
    /\ ~crashed
    /\ \/ MainStarted \/ SignalStop \/ RunMainWorker
       \/ MainWorkerHome \/ JoinManager

Manager(m) ==
    /\ ~crashed
    /\ \/ StartWorkers(m) \/ Turn(m) \/ Sleep(m)
       \/ HandlePost(m) \/ HandleGet(m) \/ BlockingGetWork(m) \/ Answered(m)
       \/ StopWorkers(m)

Worker(w) ==
    /\ ~crashed
    /\ RequestWork(w) \/ Resume(w) \/ RunWork(w) \/ PostWork(w)

Next ==
    \/ Main
    \/ \E m \in Managers : Manager(m)
    \/ \E w \in Workers : Worker(w)

\* Every thread is scheduled by the operating system.
Spec ==
    /\ Init /\ [][Next]_vars
    /\ WF_vars(Main)
    /\ \A m \in Managers : WF_vars(Manager(m))
    /\ \A w \in Workers : WF_vars(Worker(w))

-----------------------------------------------------------------------------
Ended == main = <<"join", NumManagers>>

\* Where work x is: the pool, a queue, a manager's hand, a worker that was
\* given it and has not finished it, or done.
Places(x) ==
       {<<"pool", i>> : i \in {i \in DOMAIN pool : pool[i] = x}}
  \cup {<<"queue", m>> : m \in {m \in Managers :
            \E i \in DOMAIN queue[m] : queue[m][i] = <<"PostWork", x>>}}
  \cup {<<"hand", m>> : m \in {m \in Managers :
            hand[m] \in {"PostWork", "Work"} \X {x}}}
  \cup {<<"worker", w>> : w \in {w \in Workers :
            current[w] = x /\ (resumed[w] \/ wpc[w] = "run")}}
  \cup {<<"done", 0>> : y \in done \cap {x}}

\* Whichever way a piece of work travels (pool, event queue, straight from one
\* worker to another), it is in exactly one place: never lost, never run twice.
WorkInOnePlace == \A x \in 1 .. created : Cardinality(Places(x)) = 1

\* blocking_get_work answers NULL only when all work there will ever be is done:
\* "every manager was waiting and there was no work".
SentHomeOnlyWhenDone ==
    (\E w \in Workers : wpc[w] = "gone")
        => /\ done = 1 .. created
           /\ \A w \in Workers : wpc[w] \in {"gone", "blocked"}

\* main waits for the mutex of a manager that is blocked in the controller
\* with it, until main's own worker asks for work.
StuckInSignalStop ==
    main[1] = "signal" /\ main[2] \in Managers /\ mpc[main[2]] = "cwait"

\* The unlocked turn of the loop slept through the event it should serve.
LostWakeup == \E m \in Managers : mpc[m] = "sleep" /\ queue[m] # <<>>

\* The program can stop short of its end in two ways only: main stuck in
\* signal_stop, or a manager asleep with an event in its queue.
HangsExplained ==
    ~ENABLED Next => Ended \/ crashed \/ StuckInSignalStop \/ LostWakeup

\* Once its main worker went home the program comes to its end (or crashes in
\* the join of worker 0's thread): every other manager is told too, and leaves.
EndsAfterMainWorker == (main[1] = "join") ~> (Ended \/ crashed)
=============================================================================
