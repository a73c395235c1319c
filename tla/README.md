# Anahy 3 in TLA+

Anahy 3 is a fork/join runtime in C++.  A program forks *jobs* and joins them;
`num_vps` *virtual processors* (VPs), one thread each, run the jobs.  A VP takes
jobs from its own list, steals from the other VPs when it has none, and, when a
job it runs must wait in a join, runs other jobs on top of the waiting one on
the same C stack.  This directory holds TLA+ modules of the runtime, the TLC
configurations that check them on small instances, and TLAPS proofs of the
properties that matter most for every number of VPs and jobs.  The prototypes
the runtime grew out of are modelled, model-checked and proved about too.

## Inventory

The product is `SRC/`; `Sandbox/` holds the prototypes it grew out of.

| Part | State | Operations | Interacts with |
|---|---|---|---|
| `VirtualProcessor` | per VP: `job_list` + mutex, `current_job`, `context_stack`, iterator over `vp_list`; static `idle_vps` | `run`, `fork_job`, `join_job`, `get_job`, `steal_job`, `suspend_current_job_and_run_another` | locks other VPs' lists, calls `AnahyJob::run`, which calls the program, which calls back into `fork` and `join` |
| `AnahyJob` | `_state`, `_parent`, `_result`, `_join_counter` | `run`, `compare_and_swap_state`, `decrement_and_fetch_join_counter`, constructor and destructor | shared by the VP that runs it and those that join it, through atomics only |
| `AnahyVM` | `vp_array`, `thread_array`, `main_vp` | `init`, `terminate`, `fork`, `join`, `_exit`, option parsing | creates and joins the threads; the caller of `terminate` becomes VP 0's loop |
| `AnahySmartHeap` | array, `_cur_size`, upper and lower bound | `insert`, `extract_min`, `extract_last`, sift loops, resizing | a VP's job list; used under the VP's mutex |
| `AnahySmartStack` | array, `_current_size`, bounds | `push`, `pop`, `top`, resizing | a VP's context stack; private to its thread |
| `AnahyJobAttributes` | plain values | getters and setters | not read by the scheduler |
| `Sandbox/Anahy` | per daemon: event queue, VPs waiting; shared: job graph, `daemons_waiting` | events `NewJob`, `GetJob`, `EndOfJob`; graph search; helping joins; `terminate` | VPs send events to their daemon and block on a mutex used as a semaphore; daemons forward events to each other |
| `Sandbox/newApproach` | one monitor: job graph, running and waiting VPs, one condition variable | `request_job`, `post_job`, `end_of_job`, helping joins, `terminate` | VPs call the monitor; it hands a posted job to the oldest waiter and signals anyone |
| `Sandbox/manager_and_worker` | per manager: event queue, waiting workers, mutex; the controller's pool and `managers_waiting` | requests, posts, blocking get, shutdown | workers to manager, manager to controller, `main` to every manager |
| `Sandbox/ProActivesVPS` | per VP as in `SRC`; join counter in the job's attributes | as in `SRC`, and `dec_join_counter` | the direct predecessor of `SRC` |
| `main_loop.cpp`, `atomic_decrement.cpp` | one task list and condition variable; one counter | VPs' loop; three ways to protect an update | programs of their own |
| `freq_change.c` | frequency table and level per CPU, options | options, tables, polling, `change_speed`, `terminate` | sysfs |
| `Sandbox/Heap`, `thread_specific.cpp`, `athread` layer | | | not modelled, see below |

What is hard:

* *Hand-over of jobs.*  A job leaves a list inside a critical section and is
  marked `Running` by a separate compare and swap afterwards; the owner and any
  number of thieves compete.
* *Nesting.*  A waiting join runs arbitrary jobs on its own stack, to any depth,
  and each of them changes `current_job`.
* *Termination detection.*  VPs count themselves idle with an atomic counter that
  says nothing about jobs already taken out of a list.
* *Results and deletion.*  A join reads the result without a lock, and the last
  join of a smart job deletes the object.
* *Limits.*  The context stack has a limit above which `fork_job` takes another
  path; both containers resize at computed boundaries; join counters are 16 bits.
* *Restart.*  `idle_vps` is static and survives `terminate`.
* *Wake-ups (prototypes).*  Condition variables without a loop around the wait,
  mutexes used as semaphores, queues looked at without their lock, and shutdown
  that races requests: signals reach the wrong thread or nobody.
* *Arithmetic (`freq_change`).*  Table sizes from truncated divisions, unsigned
  subtraction, indexes assigned only if something matches.

What makes the parts correct: every forked job runs exactly once and is never
lost; a join returns, with the final result, after the job has finished; the
context a join comes back to is the one it left; `terminate` returns, and only
when nothing is left; no object is used after its deletion; containers keep what
is put in and stay inside their arrays.

The product does not keep all of this for every program.  Joins return when each
job is joined by the function that forked it; a job that another function joins
can be buried under its joiner, and then neither goes on (`vp_buried`).  The final
result is the function's return value, also when the function called `_exit`
(`vp_exit`).  A deleted object is left alone when smart jobs are joined once.
`terminate` need not return with two VPs or more (`vp_terminate`), and jobs run in
place at the context stack's limit are never seen as finished (`vp_inline`).  For
the prototypes the same is asked, and where they do not keep it (they can hang,
and one can run a job again) the properties say in exactly which situations.

## Modules

| Module | Models |
|---|---|
| `VirtualProcessor` | the scheduler, jobs and the `init`/`terminate` life cycle |
| `ForkJoin` | the promise to the program: started once, joined after the end, ended when nothing is pending |
| `VirtualProcessorInv` | the inductive invariant of the scheduler, what is added to it for the counters, and the invariant that needs no bound |
| `VirtualProcessorProofs` | proof of the invariant, the theorems that follow from it, and that no job runs twice in any program |
| `VirtualProcessorCountProofs` | the idle counter and termination, deletion, buried jobs, the refinement of `ForkJoin`, programs of few jobs |
| `AnahySmartHeap`, `JobPool` | the job list in its array, and what the scheduler relies on in it |
| `AnahySmartStack` | the context stack in its array |
| `ContainerProofs` | the heap stays in its array, implements `JobPool` and keeps fork order until a theft; the stack loses no context |
| `ManagerWorker` | `Sandbox/manager_and_worker`: managers, workers, controller, `main` |
| `ManagerWorkerProofs` | work is in one place; workers go home when all is done |
| `EventDaemon` | `Sandbox/Anahy`: daemons, their events, the job graph, VPs |
| `EventDaemonProofs` | a job runs once; a blocked request has one answer to come; a job has one joiner |
| `MonitorDaemon` | `Sandbox/newApproach`: the monitor, the job graph, VPs |
| `MonitorDaemonProofs` | a job is in the hands of one VP; who may run a finished one again |
| `ProActiveVPs` | `Sandbox/ProActivesVPS`: the scheduler and the two-step join counter |
| `ProActiveVPsProofs` | the join counter under interleaved swaps, deletion, and that every job runs once |
| `PrototypeParameters` | the constants of the last three prototypes, with their assumptions |
| `Prototypes` | the last three prototypes side by side: a behaviour is one run of one of them; their theorems are about its `Spec`, of which `ED`, `MD` and `PA` are the instances |
| `MainLoop`, `AtomicDecrement`, `FreqChange` | the stand-alone programs |
| `MCContainers` | heap and stack side by side: a behaviour is a sequence of calls on one of them |
| `Sandbox` | the stand-alone programs side by side: a behaviour is one run of one of them |
| `SandboxProofs` | the end of `main_loop`, the pair of threads of `atomic_decrement`, the units, tables and watermarks of `freq_change` |
| `MCJoinTree` | one program for the scheduler, in which a job is joined by its sibling |
| other `MC...` and `*.cfg` | instances for TLC |

### How `VirtualProcessor` corresponds to the code

One action is one access to shared memory together with the thread-private
statements around it.  `pc[p]` says where VP p's thread is:

| `pc` | place in the code | actions from there |
|---|---|---|
| `start`, `init` | before `pthread_create`; VP 0 in `AnahyVM::init` | `CreateThread`, `StartMain` |
| `get`, `getcas` | `get_job`: critical section, compare and swap | `GetJob`, `GetNothing`, `GetCas` |
| `idle` | `run`, before the increment of `idle_vps` | `IdleAdd` |
| `steal`, `stealcas` | the loop over `vp_list`, in `run` or in `suspend_...` | `StealJob`, `StealNothing`, `StealCas` |
| `sub` | `run`, before the decrement | `IdleSub` |
| `user` | the program's code | `Fork`, `JoinBegin`, `ExitValue`, `Return`, `Terminate` |
| `return` | `AnahyJob::run` after storing the result | `Finish` |
| `check`, `read`, `dec` | `join_job`: loop test, result, counter | `Suspend`, `JoinCheck`, `JoinRead`, `JoinReturn` |
| `restore` | end of `suspend_...` | `Restore` |
| `left`, `done` | `run` returned; `terminate` returned | `JoinThreads`, `Reinit` |

`frames[p]` is the C stack as far as it matters: the job functions that are
active on the thread, `NULL` standing for `main()`.  A thread is in `run`'s own
loop exactly when `frames[p]` is empty; this is how the code that `run` and
`suspend_...` have in common (getting, stealing) knows where it returns to.

The program is the environment: any function may at any time fork a job, join a
job it may join, call `_exit` or return.  `Forkers[j]` are the functions in which
the program may fork j, and `forker[j]` is the one that did.  `Joiners[j]` are the
functions that have a pointer to j and may join it besides the one that forked it,
wherever the pointer came from: an argument, a result or a global variable.  The
code passes pointers without restriction, and so does the model.  The one rule the
program keeps is that of the join counter, which its job attributes give to each
job: all functions together call join on a job at most that often
(`Sandbox/Anahy/athread.h:34`, `AnahyDoc.tex:108`), so at most `join_counter[j]`
functions are in a join of j (`InJoin`, `JoinBegin`).

`job_list[p]` is a set and an extraction takes any element.  This is `JobPool`,
and run `containers` and theorem `HeapIsPool` show that the real list implements
it.  The list's *order* is not used by the scheduler's properties.

`decrement_and_fetch_join_counter` (`AnahyJob.h`) has no `return`: its value is
undefined, so `JoinReturn` is given any Boolean for the comparison with 0.

### The containers

`AnahySmartHeap` has one step per call up to its sift loop and one per iteration
of the loop, in the code's order of resizing and writing.  `AnahySmartStack` has
an explicit array in which slots never written hold `Garbage`, and `realloc`
keeps what fits.  The heap's array is cut in the same way: `Stored` is what lies
inside it, and an element that a `realloc` cut off would be read as `None`, which
`IsPool` notices.  A failing `realloc` ends the process and is not modelled.  The
stack's definitions have names of their own (`NewStack`, `StackNext`, `StackSpec`,
`StackInBounds`, ...) so that `MCContainers` can extend both modules.

### The prototypes

In the four scheduler prototypes the program is the environment, as above: bodies
create jobs, join them and return in any order.

* `ManagerWorker`.  `mpc[m]` is where a manager's thread is in its loop,
  `locked[m]` whether it holds its mutex, `hand[m]` the event or the work it is
  dealing with; `wpc` and `main` likewise.  The loop's turn after
  `blocking_get_work` is made *without* the mutex (`Manager.cpp:54`), so looking
  at the queue and going to sleep are two steps.  Worker 0 runs in the main thread
  after `signal_stop` of every manager; joining its thread, which was never
  created (`Manager.cpp:75`), sets `crashed`.
* `EventDaemon`.  `dpc[d]` follows a daemon through receiving, handling,
  answering, counting itself idle and stopping; events are records in `queue[d]`.
  Because its lock is commented out, the increment of `daemons_waiting` is a read
  (`BlockingGet`) and a write (`Count`), and the comparison reads the count again
  (`CheckCount`), so two daemons may both take it past `NumDaemons`.  All counts
  beyond are one (`Counted`): none of them is recognised, and the daemons then
  poll for ever (`AnahyVM.cpp:132-133`).  That is no standstill and the code
  promises no end of it, so no property is about it.  Concurrent accesses to the
  graph's containers are linearised (what a torn container does is undefined and
  is not explored).  The search for a ready job is the recursive function `Find`,
  in the code's order.  `frames[v]` and `context[v]` are the bodies a VP is in and
  its `context_stack`.
* `MonitorDaemon`.  All of the monitor is under one mutex, so an action is one
  call of it.  The constructor of a job is not: `Create` puts the new job among
  its parent's children, where a helper can find and claim it before `Post` has
  the mutex (a helper's look at the children while they change is linearised).
  `pthread_cond_signal` wakes any sleeper, and the wait is not in a loop: the VP
  that wakes goes on with whatever its `current_job` is, and a body that is run a
  second time behaves as the first time.  `Skim` is what `broadcast_null`'s loop,
  which erases behind its own iterator, leaves of the waiting list.
* `ProActiveVPs`.  One action is one load or swap of the join counter.
  `dec_join_counter` has no `return` after a failed swap, so the comparison with 0
  has any outcome then.  `executed` and `raced` are history: how often a job ran,
  and the jobs on which two joins met.  `ContextLimit` is 0, so jobs are run in
  place as well as from lists.
* `MainLoop`.  One action is one critical section; `pthread_cond_wait` may return
  without a signal, at most `MaxSpurious` times.
* `AtomicDecrement`.  One action is one access to the buffer or one call on a
  semaphore or the mutex; arguments of a compare and swap that name the buffer are
  loads of their own.  `Uint` is the width of the unsigned buffer.
* `FreqChange`.  A machine is what the drivers report for each CPU, an option
  record is a command line.  `change_speed`, the tables and the polling are the
  code's; where the program divides by zero, leaves an array or uses an index it
  never assigned, `pc` becomes `"undefined"` and nothing more is claimed.

## Runs

All passing runs finish with every reachable state explored.

| Run | Instance | Shows |
|---|---|---|
| `vp_safety` | 3 VPs, 3 jobs that any other function may join, two joins each | no job is lost, run twice or left behind; `ForkJoin` is implemented |
| `vp_nested` | 2 VPs, 4 smart jobs that may call `_exit`, each joined once by whichever function forked it; 2 sessions | the inductive invariant (types included); contexts come back in order; no VP waits for a job below on its own stack; a result is there when a join reads it and stays as it is; deleted objects are not touched; the idle counter is exact; no VP leaves before `terminate` |
| `vp_live` | 2 VPs, 3 jobs joined by who forked them, fair | joins return, forked jobs finish, the last VP to leave ends `terminate` |
| `containers` | heap: 16 ids in an array of 4 to begin with, up to 1 theft; stack: up to 100 deep | the heap stays in its array while it doubles to 32 slots and halves again at eight elements, is a pool that loses nothing to a `realloc`, keeps fork order until the first theft, and its sift loops end; the stack loses no context |
| `manager_worker` | 2 managers with 2 workers, 2 pieces of work and 1 more, fair | work is in one place and done once; workers are sent home only when all is done; the program can hang in two ways only; it ends once the main worker has gone home |
| `prototypes` | event daemons: 2 with 2 VPs each, 2 jobs; monitor: 3 VPs, 4 jobs; pro-active VPs: 3, 3 jobs that may be joined twice, `ContextLimit` 0 | see below |
| `sandbox` | `main_loop`: 3 VPs, 2 tasks and 2 more, 2 spurious wake-ups; `atomic_decrement`: 4 command lines; `freq_change`: 11 machines, 768 option records | see below |

`prototypes`, with the event daemons: a job runs once; a blocked request has
exactly one answer to come; when everything stands still it is for one of the
known reasons.  With the monitor: one executor per job; a finished job is run
again only by a VP nobody answered; standstill has known reasons only.  With the
pro-active VPs: decrements may be lost but never counted twice; use after deletion
needs two joins that met in `dec_join_counter`; when `terminate` returns every job
has run once.

`sandbox`: `main_loop` ends, and only when no task is left or running; one pair of
threads keeps the buffer of `atomic_decrement` in range and all its threads
finish; `freq_change` builds tables that span the driver's range, uses no index it
did not compute when the tables are sane, takes no CPU below the lower watermark,
and keeps the CPUs of one unit at one speed.

Runs that are expected to fail show where the code and what the repository says
of it disagree:

| Run | What happens |
|---|---|
| `vp_inline` | a job that `fork_job` runs in place is never marked `Finished`, so its join spins for ever |
| `vp_buried` | one program in which every job is joined once: a job is joined by its sibling, runs into a join of its own, and the VP takes the sibling on top of it; neither join returns |
| `vp_exit` | the value a function gave to `_exit` is overwritten by its return value, so no join gets it |
| `vp_terminate` | two VPs whose idle windows never overlap keep `terminate` from returning |
| `heap_min` | `heapify_down` never compares parent and child, so `extract_min` may return a job that is not the oldest |

More things the models make visible without a run of their own.

*The product.*  `IdleCountExact` says that `idle_vps` starts every later session
with the N of the sessions before, so no increment in them gives N and their
`terminate` does not return.  The same property counts a VP that holds a stolen
job as idle, so a VP may leave while work is left; `NothingLeftBehind` shows that
the VP with the job still finishes it.  `NotBuried` and the `JoinReturns` of
`vp_live` hold because there every job is joined by the function that forked it;
`vp_buried` is an exception on two VPs: main forks and joins m, m forks a and b
and gives b a pointer to a, a forks c and joins it, b joins a.  Main joins its own
jobs in main, as `AnahyDoc.tex:33-36` asks.  `NoUseAfterDelete` holds for smart
jobs that are joined once.  Give them two joins (`Joins <- JoinTwice`) and it
fails: the first of them may delete the job the second still uses, because
`decrement_and_fetch_join_counter` (`AnahyJob.h:67`) returns nothing.

*`Sandbox/manager_and_worker`.*  `HangsExplained` names the two hangs.  `main`
waits in `signal_stop` for the mutex of a manager that is blocked in the
controller with it and waits for work only `main`'s own worker would return for;
and an event pushed in the manager's unlocked turn (`Manager.cpp:54-59`) is slept
through.

*`Sandbox/Anahy`.*  A VP blocks after its first job (`VirtualProcessor.cpp:96`) with
no answer to come, which `OneAnswerPerRequest` states.  An `EndOfJob` that is
handled before the helper's `GetJob` wakes nobody.  A daemon that is alone awake
counts itself again (`AnahyVM.cpp:132`), so daemons stop early; a job found while
`should_stop` is set is dropped (`Daemon.cpp:65`); and the graph search passes over
ready jobs (`JobGraph.cpp:61`).

*`Sandbox/newApproach`.*  The signalled VP need not be the answered one and then
runs a finished job once more (`RerunOnlyUnanswered`); `broadcast_null` skips
every second waiter; a claimed job can be dropped by the search
(`JobGraph.cpp:66`); a helping join that is told to stop calls through a null job;
`terminate` hangs on a VP that sleeps in `request_job`.

*`Sandbox/ProActivesVPS`.*  The first of two joins can take the second one's zero
and delete the job; this is harmless, as the second has only the attributes left
to use.  A failed swap is not retried, so a job may never be deleted, or deleted
twice.  A job run in place keeps the state `ready`.

*`atomic_decrement`.*  The guard of the compare-and-swap mode does not hold for
two or more pairs of threads, nor do the semaphores protect the buffer for them
(`PairInRange` is about one pair).  Under the mutex the buffer passes below zero
and wraps, and ends at 0.

*`freq_change`.*  `DefinedWhenWellSet` lists what is left: a step of zero divides by
zero (386); `-u` accepts one CPU too many (707) and a core number that is scaled
past the last CPU (820); without an entry that matches a watermark, indexes stay
unassigned (193-199), which happens for MHz drivers, whose own tables are not
scaled (488-494).  A step above the minimum wraps the table (398-402).  The
polling loop uses a unit's number as its first CPU (801), so upper units are not
polled.  `terminate()` says "force it back to full speed" (521) and sets the lower
watermark.  In a unit whose CPUs have different maxima a sibling that is below its
own goes on voting to raise, and the index passes the first entry of the table;
the code says "We don't support mixed configs yet" (732) but only checks that the
CPUs are a multiple of the units' size, so `AllWellSet` has `SiblingsAlike` for it.

### Bounds

* VPs: two are enough for every race between an owner and a thief; three let two
  thieves compete for one list while the owner is active, and separate "the last
  VP" from "all but one".
* Jobs: three allow a job forked by a job forked by main, and a thief that runs a
  job on top of a suspended one; four allow two nested suspensions on one VP with
  a further job elsewhere.  Jobs are interchangeable (`JobSymmetry`) in the runs
  without liveness; `ForkJoin` does not tell them apart either.
* `ContextLimit`: 10000 in the code, which small instances never reach; 0 in
  `vp_inline`, the run about `fork_job`'s other path, and for the pro-active VPs
  of `prototypes`.
* `Sessions`: two in `vp_nested`, since only the first `init` differs from the
  others.
* Heap: smallest array 4 instead of 12 and sixteen ids, so that it doubles three
  times, to 32, and `extract` halves it while eight elements are left; `MaxSteals`
  bounds the thefts, at one.  Stack: the code's own 12, `MaxDepth` 100.
* `ManagerWorker`: two managers are needed for "every manager waits" and for work
  to travel through the pool; two workers each for work to go straight from one to
  another; `MaxWork` leaves one piece for a worker to create.
* `EventDaemon`: two daemons, for forwarding and for the race on the count; two
  VPs each, so that one can help while the other runs; two jobs, so that a job can
  be created by a job or joined while another is found.
* `MonitorDaemon`: three VPs, so that a signal can go to a VP other than the
  oldest waiter while a third runs; four jobs.
* `Prototypes`: `ListJobs` is a part of `GraphJobs`, so one permutation serves
  both; the jobs of the event daemons are addresses, which have an order.
* `ProActiveVPs`: three VPs, so that two joins meet while a third works.
* `MainLoop`: three VPs, so that "the last to wait" differs from "the other one".
  `AtomicDecrement`: four iterations for one pair, two for two pairs (each thread
  goes round its loop and through both branches); one pair only for the compare
  and swap, since the property is about a pair.  `Uint` 16 is far from what the
  buffer reaches from above; below zero it wraps.
* `FreqChange`: eleven machines with one to four CPUs, with and without a table, a
  range the step divides and one it does not, a range of a single frequency,
  drivers in MHz, and a unit whose CPUs differ; every combination of the options'
  relevant values, accepted or refused.

### Fairness

`FairSpec` assumes weak fairness of each VP's runtime steps, of each VP's
program steps, and of `init`/`terminate`: the operating system schedules every
thread, the program's functions go on until they return, and `main()` reaches
`terminate`.  Only finitely many forks and joins are possible, so a fair program
ends; nothing is assumed about who wins a race, which is why `vp_terminate` fails
although every thread is scheduled.

`ManagerWorker` assumes weak fairness of `main`, of each manager's and of each
worker's thread; `Sandbox` of the thread that creates the VPs, of each VP of
`main_loop` and of each thread of `atomic_decrement`.  Both are the operating
system's scheduling and no more; spurious wake-ups, and which waiter a signal
wakes, are not fair.  `containers` assumes that a sift loop that has begun goes
on.  The other runs check safety, and standstill by `~ENABLED Next`, which needs
no fairness.

`CHECK_DEADLOCK FALSE` stands where a system really stops: the prototypes and the
stand-alone programs end (or hang, which `HangsExplained`, `EventStopsExplained` and
`MonitorStopsExplained` are about).

## Proofs

Every theorem below is about all values of the constants that the named
assumptions allow (`VPAssumption`, `ProActiveAssumption`, ...), where the runs are
about one.  The invariants that the proofs use were checked by TLC first, `IInv` of
the scheduler as an invariant of run `vp_nested`.

### The scheduler (`VirtualProcessorProofs`)

* `SchedulerInvariant`: `Spec /\ []Shallow => []IInv`
* `JobsInOnePlace`, `ContextsMatch`, `TerminationClean`, `JoinsReadResults`:
  `EveryJobInOnePlace`, `ContextMatchesStack`, `NothingLeftBehind` and
  `JoinReadsFinalResult` under the same hypothesis.  The last is an action
  property: besides what `IInv` says of a finished job's result, no step changes
  it (`ResultStep`).

`Shallow` says that no VP has more suspended joins than `fork_job`'s limit.  It is
needed: on the other path `fork_job` leaves the job `Ready` and `current_job` as it
is, and the invariant is false (`vp_inline`).

None of the properties is inductive.  `IInv` adds what connects them.  Per VP:
which functions of the stack are in a join (`ShapeAt`), how `context_stack` and
`current_job` repeat the C stack (`ContextAt`), what a VP has in hand (`HandAt`),
that the list of an idle VP is empty (`IdleAt`), that jobs on a stack are
`Running` and jobs being read are `Finished` (`ResultAt`).  For the whole system:
joins in progress are on some stack (`JoinersOnStack`), results precede `Finished`
(`ResultsKept`), and who is where during `init` and after `terminate` (`Phases`).

The argument has three layers.  `OthersKept` and `ActorStep` show that a step of
one VP disturbs no other, because the functions and jobs it changes are on no
other VP; `NotOnOther` gets this from `EveryJobInOnePlace` itself.  `Take`, `Call`,
`Appear` and `Leave` are the four ways in which a job changes place.  One lemma
per action then looks only at the VP that acts.  `IdleAt` is what makes
`NothingLeftBehind` provable without any reasoning about the counter: a VP comes
to the increment with an empty list, and only its own functions fill that list.

* `NoJobRunsTwice`: `Spec => []NoJobTwice /\ [][NoComeback]_vars`, without
  `Shallow`.

A job that `fork_job` runs in place is `Ready` for ever, so `EveryJobInOnePlace`
is false of such programs; what remains true of them is that no job runs twice.
`NoJobTwice` says that no two lists, hands or stack frames have the same job and
that none has a job before its fork; `NoComeback`, that a job which is nowhere any
more is not put anywhere again.  The function of a job is called from a hand or
from its fork only, so it is called at most once.  The inductive invariant,
`OnceInv`, says nothing of the context stack, of states other than `New` or of
joins, because the other path of `fork_job` disturbs all of those: it adds the
types, that a thread which returns to a function has one on its stack, and that a
thread in a steal loop has no job and asks a VP (`ThreadAt`).  `Arrives` is the
one way for a job to come to a place: it leaves the place it was at, or is forked.
No run states the two formulas; TLC found `OnceInv` and `NoComeback` to hold of
two VPs, three jobs and a `ContextLimit` of 0 and 1 before they were proved.

### Counters, deletion and the promise (`VirtualProcessorCountProofs`)

All of these rest on `IInv` and so have `[]Shallow` as a hypothesis too.

* `IdleCountCorrect` (`IdleCountExact`).  A step changes whether its own VP is
  counted and nobody else's (`ControlOf`, `CountStep`), so the counter follows the
  cardinality of the set of counted VPs; `terminate` and a further `init` move all
  VPs at once, which is where the N of earlier sessions comes from.
* `TerminationNotPremature` (`NoVPLeavesBeforeTerminate`).  An increment that
  gives N means that all VPs are counted, VP 0 among them, and VP 0 is counted
  only when `main()` is in `terminate`.
* `LaterSessionsNeverEnd`.  In a later session the counter is never N after an
  increment, so no VP leaves `run()`.  No run states this; it is the consequence
  of the static counter in full generality.
* `KeepsPromise` (`ImplementsForkJoin`): initial states map to initial states and
  every step to a step of `ForkJoin` or a stutter.  Hypothesis `Sessions = 1`:
  `ForkJoin` promises one session, and ends with it.
* `DeletedJobsUnused` (`NoUseAfterDelete`).  Hypothesis `SmartJoinedOnce`: without
  it the property is false (see *Runs*), because the value that decides the
  deletion is undefined.  `JoinRights` says that the functions in a join of a job
  are at most as many as its counter (`RightsWithinCounters`), so when the only
  join of a job deletes it nobody else is in one.
* `JoinsNotBuried` (`NotBuried`).  Hypothesis `OnlyForkersJoin`: every job is
  joined by the function that forked it and by no other, as often as its counter
  allows.  Without it the property is false, also of jobs that are joined once
  (`vp_buried`).  `ForkersBelow`: on any stack the functions that a function
  forked are above it, and a function joins only those.
* `FewJobsAreShallow`: a program of fewer jobs than `ContextLimit` (`FewJobs`;
  10000 jobs in the code) satisfies `[]Shallow`, so the hypothesis of the theorems
  above becomes one about constants.  By `EveryJobInOnePlace` the functions on a C
  stack are different ones (`StackHasNoRepeats`), so there are at most as many as
  jobs, and `main()`; the context stack repeats them.  `SafeForFewJobs` and
  `PromiseForFewJobs` state the scheduler's properties and the refinement under
  it.

### Heap and context stack (`ContainerProofs`)

The module proves `HeapSafe` (types and `InBounds`) and `HeapIsPool`
(refinement of `JobPool`) for any ids, capacity and number of steals; the invariant
adds that the heap has no duplicates and how the bounds relate.  `ForkOrderKept`
(`InForkOrderUntilTheft`) strengthens it with `Ordered`: as long as nobody has
stolen the array is sorted, and a new id, being greater than all before, stays at
the end, so `heapify_up` has nothing to do.  For the stack it proves `StackSafe`
(`StackInBounds` and `ContextsKept`).

### Prototypes

The theorems about the event daemons, the monitor and the pro-active VPs are about
`Prototypes`, the composition that run `prototypes` checks.  Each is proved of the
prototype alone (`ED!Spec`, `MD!Spec`, `PA!Spec`; the lemmas named `...Alone`) and
carried over by `OneMachine`: a behaviour of the composition that begins as one
prototype is a behaviour of it, and in the others the property says nothing of it.
`JoinersUnique` is stated of `ED!Spec` only.

*`ManagerWorkerProofs`*: `WorkNeitherLostNorDoubled` (`WorkInOnePlace`) and
`HomeOnlyWhenDone` (`SentHomeOnlyWhenDone`).  Work and requests are tokens that
travel through sequences of several threads; `Works` and `Requests` say that each
is at one location.  The second theorem needs more.  `RequestFollows`: behind a
`PostWork` event there is always the `GetWork` of a worker of the same manager, or
one to come, so a manager all of whose workers wait has no work in its queue.
`AllWait`: a manager goes to the controller only then.  `StopWhenQuiet`: the count
of blocked managers is the cardinality of `CountedManagers`, and when it reaches
their number there is no work anywhere, and it stays that way.

*`ProActiveVPsProofs`*: `CounterNeverTooLow` (`CounterCoversJoins`),
`DeletedByLastJoin` (`UseAfterDeleteNeedsRace`) and `AllJobsRun`
(`NothingLeftBehind`), also where jobs run in place.  The arguments of the compare
and swap are loaded one by one while other joins decrement; `CoverAt` is the
invariant that survives it.  It is about the joins that have not got through the
first swap (`Coming`): the counter is at least their number, and what a thread has
loaded to *store* is at least that number without its own join, because the number
only falls after the load.  What it compares with does not matter.  Hence the
counter is 0 only when no join is to come, and the join that finds the 0 is alone
with it (`DeletedAt`).  `Handles` says why the number only falls: `create` passes
on a handle only while no join of the job has been counted.  `Unstarted` and
`Started` are the scheduler's half: a job that was created is in one list or hand
until it is called once.

*`MonitorDaemonProofs`*: `JobsHaveOneExecutor` (`OneExecutor`).  The answer of the
daemon and the wake-up that should go with it may reach different VPs, so
`current_job` of a VP may be overwritten in whatever it does; the invariant
therefore ties no place of a VP to its `current_job`.  `HeldAt` is about all that
a VP has of a job: its current job, the contexts it saved and the bodies it is in.
A job is held by one VP at most, and by nobody until it is marked running, so what
is claimed or answered is new to everybody.  `FreshAt`: a helping join has either
found its own context again or been given a job that is not on its stack; this
needs one saved context for every body below the top (`ShapeAt`), because
`Last(context[v])` is what `join_job` compares with.  That the order of
`broadcast_null`'s erasures does not matter here is part of the result: it only
ever takes current jobs away.  `RerunsUnanswered` (`RerunOnlyUnanswered`) adds the
daemon's lists.  `Queues`: every VP is on one of them, and one that was woken and
is not on the waiting list has either nothing or a job that has not finished; only
the holder of a job can finish it, and that is not a VP that waits.  Here it does
matter what the loop of `broadcast_null` leaves: `SkimKeeps` says that a VP it
does not erase is still on the waiting list.  `Skim` is recursive; `SkimDef` shows
that its equation defines it, and the lemmas about it take the shortest list on
which they would fail.

*`EventDaemonProofs`*: `JobsRunOnce` (`RunOnce`), `RequestsHaveOneAnswer`
(`OneAnswerPerRequest`) and `JoinersUnique`, from one invariant, `EDInv`.  It says
what is on the stacks of a VP (every body below the top is in a join and has its
context saved), and where two kinds of tokens are.  A request of a VP is in the
queue, the hand or the waiting list of its daemon, or is the answer that unlocks
its mutex: one of them if the VP is blocked and none otherwise.  A job that is
running is held by one VP or on its way to one in an answer; one that is ready is
held by nobody, so what a search of the graph claims, or a daemon forwards, is new
to everybody.  `JoinersUnique` is what the loop of `HandleEnd` over the waiting
VPs relies on when it erases while it goes on: no second VP waits for the same
job.

*`SandboxProofs`* is about `Sandbox`, the composition that run `sandbox` checks; the
hypotheses are about its constants and stand in the theorems.

* `EndsWhenDone` (`FinishedMeansDone`) and `NeverStuck`, for any number of VPs and
  tasks.  `WaitingExact`: `vps_waiting` is the number of VPs in
  `pthread_cond_wait`, including those that were woken and have not got the mutex,
  plus one for the VP that ended the program.  `SleepersTold`: while the program
  goes on somebody is awake, and after its end nobody sleeps without having been
  told.  `NeverStuck` is the part of `ProgramEnds` that needs no fairness.
* `PairStaysInRange` (`PairInRange`), for any loop size and any `Uint` of 2 or
  more.  With semaphores there is one token, in a semaphore or with a thread
  (`SemInv`); with compare and swap a thread between its test and its swap finds
  the buffer as it tested it, because the other thread's test fails (`CasInv`).
* `UnitsUniform` (`UnitUniform`), for any machines and options.  `UnitInv`: while
  the tables are set up every speed is the driver's maximum; afterwards
  `change_speed` sets all CPUs of a unit or none.  The property is about machines
  whose CPUs in a unit report the same maximum and frequency unit
  (`SiblingsAlike`; "We don't support mixed configs yet" in the code); otherwise
  they start at different speeds.
* `TablesSpanRange` (`TableSpansRange`), `IndexesDefined` (`DefinedWhenWellSet`)
  and `StaysAboveWatermark` (`NotBelowWatermark`), for any machines and command
  lines that `FreqConstants` allows: drivers report a maximum of at least 1, no
  less than the minimum and so small that 100 times it fits the unsigned type;
  options are integers.  The invariant is `FreqInv`.  A built table has the
  maximum first and the minimum last (`BuiltSpans`), whatever entries of earlier
  CPUs it was cut to; `Sorted` is defined by rank, so a sorted table is one that
  descends strictly, and the index of a speed in it is found again
  (`IndexInTable`).  A vote to raise is given only by a CPU below its maximum, and
  its siblings have the same one, so the index that `change_speed` decrements is
  not the first; a step down stops at the watermark's entry, and a leap goes to it
  (`SpeedsFromTable`).

### Only model-checked

* Everything under fairness (`JoinReturns`, `ForkedJobFinishes`, `LastVPLeaves`,
  `CallReturns`, `EndsAfterMainWorker`, `ProgramEnds`, `ThreadsFinish`) and what is
  stated with `ENABLED` (`HangsExplained`, `EventStopsExplained`,
  `MonitorStopsExplained`): out of the prover's reach.
* The runs that are expected to fail.


## Not modelled

*Of the product.*  Option parsing and help text; thread ids and affinity; job
attributes, which the scheduler does not read; the fork counter, which nothing
reads; failing allocations; memory-model effects weaker
than sequential consistency (the GCC `__sync` builtins used are full barriers).
The benchmarks under `SRC/tests` are programs and so instances of the environment.

*Of the prototypes.*  Logs, `display()` and attribute setters; jobs joined more
than once in `Sandbox/Anahy` and `newApproach`; what two threads do to one STL
container at the same time (undefined); spurious wake-ups other than in
`MainLoop`; results and `_exit` in `ProActivesVPS`, where they are as in the
product.  Reading, writing and permissions of sysfs in `freq_change` are
abstracted to what a driver reports; CPU usage is any value.

*Left out.*  The `athread` API is one call per function into the daemon prototype.
`Sandbox/Heap` is an earlier copy of `SRC` with the heap of `AnahySmartHeap`.
`thread_specific.cpp` keeps no shared state.

## Plan

Done: the scheduler, heap and stack with their abstract specifications, invariants
and theorems; the scheduler's counters and its refinement of `ForkJoin`; the four
scheduler prototypes and the stand-alone programs, with theorems about each.
Every safety property that a passing run checks and that is not stated with
`ENABLED` is stated by a theorem, and one of the scheduler's holds without its
bound on the depth of joins (`NoJobRunsTwice`).  Next: the scheduler composed with
the real list order (owner takes the newest, thieves take the root), for what
order it gives to nested joins.
