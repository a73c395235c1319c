------------------------- MODULE PrototypeParameters -------------------------
(***************************************************************************)
(* The parameters of the three prototypes of the machine in Sandbox/       *)
(* (EventDaemon, MonitorDaemon and ProActiveVPs): their arguments and      *)
(* options in the source, and the jobs of the programs they run, which are *)
(* bounds of the models.                                                   *)
(***************************************************************************)
EXTENDS Integers, FiniteSets

CONSTANTS
    NULL,          \* no job
    Main           \* the body of main, which is not a job

CONSTANTS
    NumDaemons,    \* the arguments of AnahyVM::init in Sandbox/Anahy
    VPsPerDaemon,
    NumJobs        \* bound on the jobs the program creates

ASSUME EventDaemonAssumption ==
    /\ NumDaemons \in Nat \ {0} /\ VPsPerDaemon \in Nat \ {0} /\ NumJobs \in Nat
    /\ Main \notin 1 .. NumJobs /\ NULL \notin (1 .. NumJobs) \cup {Main}

CONSTANTS
    NumVPs,        \* the argument of AnahyVM::init in Sandbox/newApproach
    GraphJobs      \* the jobs the program may create

ASSUME MonitorAssumption ==
    NumVPs \in Nat \ {0} /\ Main \notin GraphJobs /\ NULL \notin GraphJobs \cup {Main}

CONSTANTS
    N,             \* num_vps in Sandbox/ProActivesVPS; VP 0 is main_vp
    ListJobs,      \* the jobs the program may create
    Joins,         \* num_joins of every job's attributes
    ContextLimit   \* create_new_job runs the job in place above it (10000)

ASSUME ProActiveAssumption ==
    /\ N \in Nat \ {0} /\ Joins \in Nat \ {0}
    /\ IsFiniteSet(ListJobs) /\ NULL \notin ListJobs
=============================================================================
