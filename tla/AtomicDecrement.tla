--------------------------- MODULE AtomicDecrement ---------------------------
(***************************************************************************)
(* Sandbox/atomic_decrement.cpp: num_threads threads increment and as many *)
(* decrement one buffer, loop_size times each, under compare and swap      *)
(* ("c"), semaphores ("s") or a mutex ("m").  One action is one access to  *)
(* the buffer, or one call on a semaphore or the mutex.  buffer++ and      *)
(* buffer-- are a load and a store, and each argument of a compare and     *)
(* swap that names the buffer is a load of its own, in either order.       *)
(***************************************************************************)
EXTENDS Integers, FiniteSets

CONSTANTS
    CommandLines,  \* records of control_type, num_threads and loop_size
    Uint           \* 2^w, w the width of an unsigned int

VARIABLES
    args,                      \* the command line
    buffer,
    bufferCheio, bufferVazio,  \* the semaphores
    mutex,                     \* free
    pc, loop_counter,          \* per thread
    old, new                   \* per thread, what it has loaded

sync == <<bufferCheio, bufferVazio, mutex>>
vars == <<args, buffer, sync, pc, loop_counter, old, new>>

control_type == args.control_type
num_threads  == args.num_threads
full_buffer == num_threads

\* <<1, i>> increments, <<-1, i>> decrements.
Threads == {1, -1} \X (1 .. num_threads)
Change(t) == t[1]

\* The value at which the compare-and-swap loop leaves the buffer alone.
Stop(t) == IF Change(t) = 1 THEN full_buffer ELSE 0

\* What a thread does first in an iteration.
First == CASE control_type = "c" -> "peek" [] control_type = "s" -> "wait"
           [] control_type = "m" -> "lock"

\* main's switch: initialise and create all the threads.
Init ==
    /\ args \in CommandLines
    /\ buffer = 0
    /\ bufferCheio = num_threads /\ bufferVazio = 0 /\ mutex = TRUE
    /\ pc = [t \in Threads |-> First]
    /\ loop_counter = [t \in Threads |-> args.loop_size]
    /\ old = [t \in Threads |-> 0] /\ new = [t \in Threads |-> 0]

Goto(t, where) == pc' = [pc EXCEPT ![t] = where]

\* loop_counter--, and the next iteration or the end.  What was loaded is not
\* used again.
EndIteration(t) ==
    /\ old' = [old EXCEPT ![t] = 0] /\ new' = [new EXCEPT ![t] = 0]
    /\ loop_counter' = [loop_counter EXCEPT ![t] = @ - 1]
    /\ Goto(t, IF loop_counter[t] = 1 THEN "done" ELSE First)

\* x + 1 or x - 1 in an unsigned int.
Next1(t, x) == (x + Change(t)) % Uint

-----------------------------------------------------------------------------
(* Compare and swap *)

\* The last argument of the first compare and swap is loaded.
Peek(t) ==
    /\ pc[t] = "peek"
    /\ new' = [new EXCEPT ![t] = buffer]
    /\ Goto(t, "test")
    /\ UNCHANGED <<args, buffer, sync, loop_counter, old>>

\* Mutant: a buffer found empty or full is changed all the same.
Test_Ignored(t) ==
    /\ pc[t] = "test"
    /\ Goto(t, "load")
    /\ UNCHANGED <<args, buffer, sync, loop_counter, old, new>>

\* __sync_bool_compare_and_swap(&buffer, full_buffer or 0, buffer): when it
\* succeeds it stores what was loaded before, and the iteration ends.
Test(t) ==
    /\ pc[t] = "test"
    /\ IF buffer = Stop(t)
       THEN buffer' = new[t] /\ EndIteration(t)
       ELSE Goto(t, "load") /\ UNCHANGED <<buffer, loop_counter, old, new>>
    /\ UNCHANGED <<args, sync>>

\* The two arguments of the second compare and swap, one after the other.
Load(t) ==
    /\ \/ /\ pc[t] = "load"
          /\ \/ old' = [old EXCEPT ![t] = buffer] /\ Goto(t, "loadnew") /\ UNCHANGED new
             \/ new' = [new EXCEPT ![t] = Next1(t, buffer)] /\ Goto(t, "loadold")
                /\ UNCHANGED old
       \/ /\ pc[t] = "loadnew" /\ new' = [new EXCEPT ![t] = Next1(t, buffer)]
          /\ Goto(t, "swap") /\ UNCHANGED old
       \/ /\ pc[t] = "loadold" /\ old' = [old EXCEPT ![t] = buffer]
          /\ Goto(t, "swap") /\ UNCHANGED new
    /\ UNCHANGED <<args, buffer, sync, loop_counter>>

\* The second compare and swap; nobody looks whether it succeeded.
Swap(t) ==
    /\ pc[t] = "swap"
    /\ buffer' = IF buffer = old[t] THEN new[t] ELSE buffer
    /\ EndIteration(t)
    /\ UNCHANGED <<args, sync>>

-----------------------------------------------------------------------------
(* Semaphores and mutex *)

\* sem_wait(&bufferCheio) of an increment, sem_wait(&bufferVazio) of a decrement.
Wait(t) ==
    /\ pc[t] = "wait"
    /\ IF Change(t) = 1
       THEN bufferCheio > 0 /\ bufferCheio' = bufferCheio - 1 /\ UNCHANGED bufferVazio
       ELSE bufferVazio > 0 /\ bufferVazio' = bufferVazio - 1 /\ UNCHANGED bufferCheio
    /\ Goto(t, "read")
    /\ UNCHANGED <<args, buffer, mutex, loop_counter, old, new>>

Lock(t) ==
    /\ pc[t] = "lock" /\ mutex
    /\ mutex' = FALSE
    /\ Goto(t, "read")
    /\ UNCHANGED <<args, buffer, bufferCheio, bufferVazio, loop_counter, old, new>>

\* buffer++ or buffer--: the load, then the store.
Read(t) ==
    /\ pc[t] = "read"
    /\ new' = [new EXCEPT ![t] = Next1(t, buffer)]
    /\ Goto(t, "write")
    /\ UNCHANGED <<args, buffer, sync, loop_counter, old>>

Write(t) ==
    /\ pc[t] = "write"
    /\ buffer' = new[t]
    /\ Goto(t, "release")
    /\ UNCHANGED <<args, sync, loop_counter, old, new>>

\* Mutant: a decrement gives its token back to the decrements.
Post_Same(t) ==
    IF Change(t) = 1
    THEN bufferCheio' = bufferCheio + 1 /\ UNCHANGED <<bufferVazio, mutex>>
    ELSE bufferVazio' = bufferVazio + 1 /\ UNCHANGED <<bufferCheio, mutex>>

\* sem_post of the other side's semaphore.
Post(t) ==
    IF Change(t) = 1
    THEN bufferVazio' = bufferVazio + 1 /\ UNCHANGED <<bufferCheio, mutex>>
    ELSE bufferCheio' = bufferCheio + 1 /\ UNCHANGED <<bufferVazio, mutex>>

\* sem_post or pthread_mutex_unlock.
Release(t) ==
    /\ pc[t] = "release"
    /\ IF control_type = "s" THEN Post(t)
       ELSE mutex' = TRUE /\ UNCHANGED <<bufferCheio, bufferVazio>>
    /\ EndIteration(t)
    /\ UNCHANGED <<args, buffer>>

Step(t) ==
    \/ Peek(t) \/ Test(t) \/ Load(t) \/ Swap(t)
    \/ Wait(t) \/ Lock(t) \/ Read(t) \/ Write(t) \/ Release(t)

Next == \E t \in Threads : Step(t)

Spec == Init /\ [][Next]_vars

Finished == \A t \in Threads : pc[t] = "done"

-----------------------------------------------------------------------------
\* One incrementing and one decrementing thread keep the buffer between empty
\* and full, with the semaphores though the buffer itself is not protected, and
\* with compare and swap though each call loads its arguments separately.
PairInRange ==
    control_type # "m" /\ num_threads = 1 => buffer \in 0 .. full_buffer
=============================================================================
