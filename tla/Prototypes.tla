----------------------------- MODULE Prototypes -----------------------------
(***************************************************************************)
(* The three prototypes of the machine in Sandbox/: a behaviour is one run *)
(* of one of them, and the variables of the others are not used.           *)
(***************************************************************************)
EXTENDS PrototypeParameters

VARIABLES
    machine,
    state, handles,
    \* of the daemons of both kinds
    parent, roots, waiting, shouldStop, pc, current, context, frames, crashed,
    \* of the event daemons
    daemonsWaiting, mainSet, dpc, queue, hand, resumed,
    \* of the monitor daemon
    map, running, stopping,
    \* of the pro-active VPs
    vp, job_list, idle_vps, num_joins, deleted, joining, executed, raced

daemonVars    == <<parent, roots, waiting, shouldStop, pc, current, context, frames, crashed>>
eventVars     == <<daemonsWaiting, mainSet, dpc, queue, hand, resumed>>
monitorVars   == <<map, running, stopping>>
proActiveVars == <<vp, job_list, idle_vps, num_joins, deleted, joining, executed, raced>>
vars == <<machine, state, handles, daemonVars, eventVars, monitorVars, proActiveVars>>

ED == INSTANCE EventDaemon
MD == INSTANCE MonitorDaemon
PA == INSTANCE ProActiveVPs

NoDaemon ==
    /\ parent = 0 /\ roots = 0 /\ waiting = 0 /\ shouldStop = 0 /\ pc = 0
    /\ current = 0 /\ context = 0 /\ frames = 0 /\ crashed = FALSE
NoEventDaemon ==
    /\ daemonsWaiting = 0 /\ mainSet = FALSE /\ dpc = 0 /\ queue = 0 /\ hand = 0
    /\ resumed = 0
NoMonitor   == map = {} /\ running = 0 /\ stopping = 0
NoProActive ==
    /\ vp = 0 /\ job_list = 0 /\ idle_vps = 0 /\ num_joins = 0 /\ deleted = {}
    /\ joining = 0 /\ executed = 0 /\ raced = {}

Init ==
    \/ machine = "event" /\ ED!Init /\ NoMonitor /\ NoProActive
    \/ machine = "monitor" /\ MD!Init /\ NoEventDaemon /\ NoProActive
    \/ machine = "pro_active" /\ PA!Init /\ NoDaemon /\ NoEventDaemon /\ NoMonitor

Event(A)   == machine = "event" /\ A /\ UNCHANGED <<machine, monitorVars, proActiveVars>>
Monitor(A) == machine = "monitor" /\ A /\ UNCHANGED <<machine, eventVars, proActiveVars>>
ProActive(A) ==
    /\ machine = "pro_active" /\ A
    /\ UNCHANGED <<machine, daemonVars, eventVars, monitorVars>>

Next == Event(ED!Next) \/ Monitor(MD!Next) \/ ProActive(PA!Next)

Spec == Init /\ [][Next]_vars

-----------------------------------------------------------------------------
(* The prototypes' properties, stated and explained in their own modules *)

\* No job of the event daemons is in two bodies, or in one after its end.
RunOnce == machine = "event" => ED!RunOnce
\* A VP has exactly one answer of its event daemon to come while it is blocked.
OneAnswerPerRequest == machine = "event" => ED!OneAnswerPerRequest
\* Every standstill of the event daemons is one of the known ones.
EventStopsExplained == machine = "event" => ED!StopsExplained
\* A job of the monitor daemon is on one VP's stack, once.
OneExecutor == machine = "monitor" => MD!OneExecutor
\* Only a VP that was not answered runs a finished job of the monitor daemon again.
RerunOnlyUnanswered == [][machine = "monitor" => MD!Rerun]_vars
\* Every standstill of the monitor daemon is one of the known ones.
MonitorStopsExplained == machine = "monitor" => MD!StopsExplained
\* The pro-active VPs use a deleted job only after a failed decrement.
UseAfterDeleteNeedsRace == machine = "pro_active" => PA!UseAfterDeleteNeedsRace
\* A job's counter covers its joins to come on the pro-active VPs.
CounterCoversJoins == machine = "pro_active" => PA!CounterCoversJoins
\* The pro-active VPs have run every job once when terminate returns.
NothingLeftBehind == machine = "pro_active" => PA!NothingLeftBehind
=============================================================================
