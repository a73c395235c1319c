------------------------------- MODULE Sandbox -------------------------------
(***************************************************************************)
(* The three stand-alone programs of Sandbox/: a behaviour is one run of   *)
(* one program, and the variables of the others are not used.              *)
(***************************************************************************)
EXTENDS Integers, Sequences

CONSTANTS
    num_vps, num_tasks, MaxTasks, MaxSpurious,  \* of MainLoop
    CommandLines, Uint,                         \* of AtomicDecrement
    Machines, Options, Ulong                    \* of FreqChange

VARIABLES
    program, pc,
    task, task_list, vps_waiting, program_finished, started, added, spurious,
    args, buffer, bufferCheio, bufferVazio, mutex, loop_counter, old, new,
    machine, opt, step, func, counter, i, cpu

mlVars == <<task, task_list, vps_waiting, program_finished, started, added, spurious>>
adVars == <<args, buffer, bufferCheio, bufferVazio, mutex, loop_counter, old, new>>
fcVars == <<machine, opt, step, func, counter, i, cpu>>
vars   == <<program, pc, mlVars, adVars, fcVars>>

ML == INSTANCE MainLoop
AD == INSTANCE AtomicDecrement
FC == INSTANCE FreqChange

NoMainLoop ==
    /\ task = 0 /\ task_list = <<>> /\ vps_waiting = 0 /\ program_finished = FALSE
    /\ started = 0 /\ added = 0 /\ spurious = 0
NoAtomicDecrement ==
    /\ args = 0 /\ buffer = 0 /\ bufferCheio = 0 /\ bufferVazio = 0
    /\ mutex = TRUE /\ loop_counter = 0 /\ old = 0 /\ new = 0
NoFreqChange ==
    /\ machine = <<>> /\ opt = 0 /\ step = 0 /\ func = 0
    /\ counter = 0 /\ i = 0 /\ cpu = <<>>

Init ==
    \/ program = "main_loop" /\ ML!Init /\ NoAtomicDecrement /\ NoFreqChange
    \/ program = "atomic_decrement" /\ AD!Init /\ NoMainLoop /\ NoFreqChange
    \/ program = "freq_change" /\ FC!Init /\ NoMainLoop /\ NoAtomicDecrement

MainLoop(A)        == program = "main_loop" /\ A /\ UNCHANGED <<program, adVars, fcVars>>
AtomicDecrement(A) == program = "atomic_decrement" /\ A /\ UNCHANGED <<program, mlVars, fcVars>>
FreqChange(A)      == program = "freq_change" /\ A /\ UNCHANGED <<program, mlVars, adVars>>

Next == MainLoop(ML!Next) \/ AtomicDecrement(AD!Next) \/ FreqChange(FC!Next)

\* Every thread of the two concurrent programs is scheduled.
Spec ==
    /\ Init /\ [][Next]_vars
    /\ WF_vars(MainLoop(ML!CreateVP))
    /\ \A p \in ML!VPs : WF_vars(MainLoop(ML!Step(p)))
    /\ \A t \in {1, -1} \X (1 .. 2) :
          WF_vars(AtomicDecrement(t \in AD!Threads /\ AD!Step(t)))

-----------------------------------------------------------------------------
(* The programs' properties, stated and explained in their own modules *)

\* main_loop ends only when no task is left or running.
FinishedMeansDone == program = "main_loop" => ML!FinishedMeansDone
\* All VPs of main_loop leave, and main returns from its joins.
ProgramEnds == <>(program = "main_loop" => ML!AllEnded)
\* A pair of threads of atomic_decrement keeps the buffer in range.
PairInRange == program = "atomic_decrement" => AD!PairInRange
\* main's joins return in atomic_decrement: in no order of the threads does one
\* wait for a token or for the mutex for ever.
ThreadsFinish == <>(program = "atomic_decrement" => AD!Finished)
\* A table freq_change builds spans the driver's range.
TableSpansRange == program = "freq_change" => FC!TableSpansRange
\* freq_change uses no index it did not compute, given sane tables.
DefinedWhenWellSet == program = "freq_change" => FC!DefinedWhenWellSet
\* freq_change takes no CPU below the lower watermark.
NotBelowWatermark == program = "freq_change" => FC!NotBelowWatermark
\* The CPUs of a scalable unit have one speed.
UnitUniform == program = "freq_change" => FC!UnitUniform
=============================================================================
