---------------------- MODULE VirtualProcessorCountProofs ----------------------
(***************************************************************************)
(* Proofs about the scheduler's two counters and what rests on them:       *)
(* idle_vps and the detection of termination, join_counter and the life of *)
(* a job object, and the abstract promise of fork and join.                *)
(***************************************************************************)
EXTENDS VirtualProcessorProofs, FiniteSetTheorems

-----------------------------------------------------------------------------
(* What a step does to the control state of its VP *)

\* VP p is one of those that idle_vps counts.
Counted(p) == /\ pc[p] \in {"steal", "stealcas", "sub", "left", "done"}
              /\ InRunLoop(p)

\* A VP's stack stays, gets the job in hand on top, or loses its top.
StackStep(p) ==
    \/ frames'[p] = frames[p]
    \/ InHand(p) /\ frames'[p] = Append(frames[p], current_job[p])
    \/ pc[p] = "return" /\ frames[p] # <<>> /\ frames'[p] = Pop(frames[p])

\* VP p counts itself, takes itself out of the count, or does neither.
CountStep(p) ==
    \/ /\ pc'[p] # "left" /\ idle_vps' = idle_vps /\ (Counted(p)' <=> Counted(p))
    \/ /\ ~Counted(p) /\ Counted(p)' /\ idle_vps' = idle_vps + 1
       /\ pc'[p] = "left" => idle_vps + 1 = N
    \/ /\ Counted(p) /\ ~Counted(p)' /\ idle_vps' = idle_vps - 1
       /\ pc'[p] # "left"

\* A step of p as far as pc, stacks and idle_vps go.
ControlOf(p) ==
    /\ \A q \in VPs \ {p} : pc'[q] = pc[q] /\ frames'[q] = frames[q]
    /\ pc[p] \notin {"start", "init", "left", "done"}
    /\ pc'[p] \notin {"start", "init", "done"}
    /\ session' = session
    /\ StackStep(p)
    /\ CountStep(p)

\* The stack of the thread after a call is not empty.
LEMMA CallControl ==
  ASSUME IInv, NEW p \in VPs, InHand(p), CallFunction(p, current_job[p])
  PROVE  /\ \A q \in VPs \ {p} : pc'[q] = pc[q] /\ frames'[q] = frames[q]
         /\ pc'[p] = "user" /\ StackStep(p)
<1>1. TypeOK
  BY DEF IInv
<1>2. pc \in [VPs -> PCs] /\ frames \in [VPs -> Seq(Fns)]
  BY <1>1 DEF TypeOK
<1>. QED BY <1>2 DEF CallFunction, StackStep

\* Steps of the runtime that look for a job.
LEMMA SearchControl ==
  ASSUME IInv, NEW p \in VPs,
         GetJob(p) \/ GetNothing(p) \/ StealJob(p) \/ StealNothing(p) \/ IdleAdd(p)
  PROVE  ControlOf(p)
<1>1. /\ TypeOK /\ LocalInv(p) /\ N \in Nat /\ 0 \in 0 .. N
      /\ pc \in [VPs -> PCs] /\ it \in [VPs -> 0 .. N]
  BY VPAssumption DEF IInv, LocalInv, TypeOK
<1>2. CASE GetJob(p)
  BY <1>1, <1>2 DEF GetJob, ControlOf, StackStep, CountStep, Counted, InRunLoop
<1>3. CASE GetNothing(p)
  <2>1. CASE InRunLoop(p)
    BY <1>1, <1>3, <2>1 DEF GetNothing, ControlOf, StackStep, CountStep, Counted
  <2>2. CASE ~InRunLoop(p)
    <3>1. ScanFrom(p, NextVictim(p, 0)) /\ AfterSteal(p) = "restore" /\ pc[p] = "get"
          /\ UNCHANGED <<frames, idle_vps, session>>
      BY <1>3, <2>2 DEF GetNothing, AfterSteal
    <3>2. /\ \A q \in VPs \ {p} : pc'[q] = pc[q]
          /\ pc'[p] \in {"steal", "restore"}
      BY <1>1, <3>1, Scan
    <3>. QED BY <2>2, <3>1, <3>2
             DEF ControlOf, StackStep, CountStep, Counted, InRunLoop
  <2>. QED BY <2>1, <2>2
<1>4. CASE StealJob(p)
  BY <1>1, <1>4 DEF StealJob, ControlOf, StackStep, CountStep, Counted, InRunLoop
<1>5. CASE StealNothing(p)
  <2>1. /\ ScanFrom(p, NextVictim(p, it[p] + 1)) /\ pc[p] = "steal"
        /\ UNCHANGED <<frames, idle_vps, session>>
    BY <1>5 DEF StealNothing
  <2>0. it[p] + 1 \in 0 .. N
    BY <1>1, <2>1 DEF TypeOK, VPs
  <2>2. /\ \A q \in VPs \ {p} : pc'[q] = pc[q]
        /\ pc'[p] \in {"steal", AfterSteal(p)}
    BY <1>1, <2>0, <2>1, Scan
  <2>. QED BY <2>1, <2>2
           DEF AfterSteal, ControlOf, StackStep, CountStep, Counted, InRunLoop
<1>6. CASE IdleAdd(p)
  <2>1. pc[p] = "idle" /\ idle_vps' = idle_vps + 1 /\ UNCHANGED <<frames, session>>
    BY <1>6 DEF IdleAdd
  <2>2. InRunLoop(p) /\ frames'[p] = <<>>
    BY <1>1, <2>1 DEF LocalInv, ShapeAt, NoFunction, InRunLoop
  <2>3. /\ \A q \in VPs \ {p} : pc'[q] = pc[q]
        /\ pc'[p] \in {"steal", "sub", "left"}
        /\ pc'[p] = "left" => idle_vps + 1 = N
    <3>1. CASE LastIdle(idle_vps + 1)
      BY <1>1, <1>6, <3>1 DEF IdleAdd, LastIdle
    <3>2. CASE ~LastIdle(idle_vps + 1)
      <4>1. ScanFrom(p, NextVictim(p, 0)) /\ AfterSteal(p) = "sub"
        BY <1>6, <2>2, <3>2 DEF IdleAdd, AfterSteal
      <4>. QED BY <1>1, <4>1, Scan
    <3>. QED BY <3>1, <3>2
  <2>. QED BY <2>1, <2>2, <2>3 DEF ControlOf, StackStep, CountStep, Counted, InRunLoop
<1>. QED BY <1>2, <1>3, <1>4, <1>5, <1>6

\* Steps of the runtime that start or end a job.
LEMMA RunControl ==
  ASSUME IInv, NEW p \in VPs, GetCas(p) \/ StealCas(p) \/ IdleSub(p) \/ Finish(p)
  PROVE  ControlOf(p)
<1>1. /\ TypeOK /\ LocalInv(p)
      /\ pc \in [VPs -> PCs] /\ frames \in [VPs -> Seq(Fns)]
  BY DEF IInv, LocalInv, TypeOK
<1>2. CASE GetCas(p)
  <2>1. pc[p] = "getcas" /\ InHand(p) /\ CallFunction(p, current_job[p])
        /\ UNCHANGED <<idle_vps, session>>
    BY <1>2 DEF GetCas, InHand
  <2>. QED BY <2>1, CallControl DEF ControlOf, CountStep, Counted
<1>3. CASE StealCas(p)
  <2>1. pc[p] = "stealcas" /\ InHand(p) /\ UNCHANGED <<idle_vps, session>>
    BY <1>3 DEF StealCas, InHand
  <2>2. CASE InRunLoop(p)
    BY <1>1, <1>3, <2>1, <2>2
       DEF StealCas, ControlOf, StackStep, CountStep, Counted, InRunLoop
  <2>3. CASE ~InRunLoop(p)
    <3>1. CallFunction(p, current_job[p])
      BY <1>3, <2>3 DEF StealCas
    <3>. QED BY <2>1, <2>3, <3>1, CallControl DEF ControlOf, CountStep, Counted
  <2>. QED BY <2>2, <2>3
<1>4. CASE IdleSub(p)
  <2>1. pc[p] = "sub" /\ idle_vps' = idle_vps - 1 /\ session' = session
    BY <1>4 DEF IdleSub
  <2>2. Counted(p)
    BY <1>1, <2>1 DEF LocalInv, ShapeAt, NoFunction, Counted, InRunLoop
  <2>3. CASE current_job[p] = NULL
    <3>1. pc' = [pc EXCEPT ![p] = "get"] /\ frames' = frames
      BY <1>4, <2>3 DEF IdleSub
    <3>. QED BY <1>1, <2>1, <2>2, <3>1 DEF ControlOf, StackStep, CountStep, Counted
  <2>4. CASE current_job[p] # NULL
    <3>1. InHand(p) /\ CallFunction(p, current_job[p])
      BY <1>4, <2>1, <2>4 DEF IdleSub, InHand
    <3>. QED BY <2>1, <2>2, <3>1, CallControl DEF ControlOf, CountStep, Counted
  <2>. QED BY <2>3, <2>4
<1>5. CASE Finish(p)
  <2>1. /\ pc[p] = "return" /\ UNCHANGED <<idle_vps, session>>
        /\ frames' = [frames EXCEPT ![p] = Pop(frames[p])]
        /\ \E c \in {"get", "restore", "user"} : pc' = [pc EXCEPT ![p] = c]
    BY <1>5 DEF Finish
  <2>2. frames[p] # <<>>
    BY <1>1, <2>1 DEF LocalInv, ShapeAt, InFunction
  <2>3. /\ \A q \in VPs \ {p} : pc'[q] = pc[q] /\ frames'[q] = frames[q]
        /\ pc'[p] \in {"get", "restore", "user"} /\ frames'[p] = Pop(frames[p])
    BY <1>1, <2>1
  <2>. QED BY <2>1, <2>2, <2>3 DEF ControlOf, StackStep, CountStep, Counted
<1>. QED BY <1>2, <1>3, <1>4, <1>5

\* Steps of a join and of a function of the program.
LEMMA FunctionControl ==
  ASSUME IInv, Shallow, NEW p \in VPs,
         \/ Suspend(p) \/ Restore(p) \/ JoinCheck(p) \/ JoinRead(p)
         \/ \E zero \in BOOLEAN : JoinReturn(p, zero)
         \/ Program(p)
  PROVE  ControlOf(p) /\ frames' = frames
<1>1. /\ TypeOK /\ pc \in [VPs -> PCs]
      /\ Len(context_stack[p]) <= ContextLimit /\ Len(context_stack[p]) \in Nat
      /\ ContextLimit \in Nat
  BY SeqTypes, VPAssumption DEF IInv, TypeOK, Shallow
<1>2. ~(Len(context_stack[p]) > ContextLimit)
  BY <1>1
<1>3. /\ pc[p] \in {"check", "restore", "read", "dec", "user"}
      /\ \E c \in {"get", "check", "read", "dec", "user", "return"} :
            pc' = [pc EXCEPT ![p] = c]
      /\ UNCHANGED <<frames, idle_vps, session>>
  <2>1. CASE Suspend(p)
    BY <2>1 DEF Suspend
  <2>2. CASE Restore(p)
    BY <2>2 DEF Restore
  <2>3. CASE JoinCheck(p)
    BY <2>3 DEF JoinCheck, privVars
  <2>4. CASE JoinRead(p)
    BY <2>4 DEF JoinRead, privVars
  <2>5. CASE \E zero \in BOOLEAN : JoinReturn(p, zero)
    BY <2>5 DEF JoinReturn, privVars
  <2>6. CASE \E j \in Jobs : Fork(p, j)
    <3>1. pc[p] = "user" /\ UNCHANGED <<pc, frames, idle_vps, session>>
      BY <1>2, <2>6 DEF Fork
    <3>2. pc' = [pc EXCEPT ![p] = "user"]
      BY <1>1, <3>1
    <3>. QED BY <3>1, <3>2
  <2>7. CASE \E j \in Jobs : JoinBegin(p, j)
    BY <2>7 DEF JoinBegin, privVars
  <2>8. CASE ExitValue(p)
    <3>1. pc[p] = "user" /\ UNCHANGED <<pc, frames, idle_vps, session>>
      BY <2>8 DEF ExitValue, privVars
    <3>2. pc' = [pc EXCEPT ![p] = "user"]
      BY <1>1, <3>1
    <3>. QED BY <3>1, <3>2
  <2>9. CASE Return(p)
    BY <2>9 DEF Return, privVars
  <2>. QED BY <2>1, <2>2, <2>3, <2>4, <2>5, <2>6, <2>7, <2>8, <2>9 DEF Program
<1>. QED BY <1>1, <1>3 DEF ControlOf, StackStep, CountStep, Counted

\* Every step of a VP's thread.
LEMMA ControlStep ==
  ASSUME IInv, Shallow, NEW p \in VPs, Runtime(p) \/ Program(p)
  PROVE  ControlOf(p)
BY SearchControl, RunControl, FunctionControl DEF Runtime
-----------------------------------------------------------------------------
(* idle_vps *)

\* The counted VPs are a finite set; one of them more or less is counted so.
LEMMA CountedFinite ==
  /\ IsFiniteSet(CountedIdle) /\ Cardinality(CountedIdle) \in Nat
  /\ \A S \in SUBSET VPs : IsFiniteSet(S)
<1>1. IsFiniteSet(VPs)
  BY VPAssumption, FS_Interval DEF VPs
<1>2. \A S \in SUBSET VPs : IsFiniteSet(S)
  BY <1>1, FS_Subset
<1>3. CountedIdle \in SUBSET VPs
  BY DEF CountedIdle
<1>. QED BY <1>2, <1>3, FS_CardinalityType

\* A step of one VP changes the count as it changes idle_vps.
LEMMA CountedStep ==
  ASSUME IInv, NEW p \in VPs, ControlOf(p), IdleCountExact
  PROVE  IdleCountExact'
<1>1. /\ CountedIdle = {q \in VPs : Counted(q)}
      /\ CountedIdle' = {q \in VPs : Counted(q)'}
  BY DEF CountedIdle, Counted
<1>2. \A q \in VPs \ {p} : Counted(q)' <=> Counted(q)
  BY DEF ControlOf, Counted, InRunLoop
<1>3. /\ IsFiniteSet(CountedIdle) /\ Cardinality(CountedIdle) \in Nat
  BY CountedFinite
<1>4. N \in Nat /\ session \in Nat /\ idle_vps \in Int /\ session' = session
  BY VPAssumption DEF IInv, TypeOK, ControlOf
<1>5. PICK base \in Int : base = (session - 1) * N
  BY <1>4
<1>6. idle_vps = base + Cardinality(CountedIdle)
  BY <1>5 DEF IdleCountExact
<1>7. idle_vps' = base + Cardinality(CountedIdle')
  <2>1. CASE idle_vps' = idle_vps /\ (Counted(p)' <=> Counted(p))
    <3>1. CountedIdle' = CountedIdle
      BY <1>1, <1>2, <2>1
    <3>. QED BY <1>6, <2>1, <3>1
  <2>2. CASE ~Counted(p) /\ Counted(p)' /\ idle_vps' = idle_vps + 1
    <3>1. CountedIdle' = CountedIdle \cup {p} /\ p \notin CountedIdle
      BY <1>1, <1>2, <2>2
    <3>2. Cardinality(CountedIdle') = Cardinality(CountedIdle) + 1
      BY <1>3, <3>1, FS_AddElement
    <3>. QED BY <1>3, <1>4, <1>6, <2>2, <3>2
  <2>3. CASE Counted(p) /\ ~Counted(p)' /\ idle_vps' = idle_vps - 1
    <3>1. CountedIdle' = CountedIdle \ {p} /\ p \in CountedIdle
      BY <1>1, <1>2, <2>3
    <3>2. Cardinality(CountedIdle') = Cardinality(CountedIdle) - 1
      BY <1>3, <3>1, FS_RemoveElement
    <3>. QED BY <1>3, <1>4, <1>6, <2>3, <3>2
  <2>. QED BY <2>1, <2>2, <2>3 DEF ControlOf, CountStep
<1>. QED BY <1>4, <1>5, <1>7 DEF IdleCountExact

\* init, terminate and their loops leave the count as it is.
LEMMA LifeCycleControl ==
  ASSUME IInv, LifeCycle
  PROVE  /\ \A q \in VPs : Counted(q)' <=> Counted(q)
         /\ \A q \in VPs : pc'[q] \in {"left", "done"} => pc[q] = "left"
         /\ UNCHANGED <<idle_vps, session>>
         /\ pc'[0] = "init" => pc[0] = "init"
         /\ pc[0] # "done"
         /\ pc'[0] = "done" => JoinThreads
<1>1. /\ TypeOK /\ 0 \in VPs /\ pc \in [VPs -> PCs] /\ frames \in [VPs -> Seq(Fns)]
      /\ N \in Nat /\ Phases
  BY VPFact DEF IInv, TypeOK
<1>2. CASE CreateThread
  <2>1. /\ pc[0] = "init" /\ it[0] < N /\ pc' = [pc EXCEPT ![it[0]] = "get"]
        /\ UNCHANGED <<frames, idle_vps, session>>
    BY <1>2 DEF CreateThread
  <2>2. it[0] \in VPs /\ it[0] # 0
    BY <1>1, <2>1 DEF Phases, TypeOK, VPs
  <2>3. pc[it[0]] = "start"
    BY <1>1, <2>1, <2>2, VPFact DEF Phases
  <2>. QED BY <1>1, <2>1, <2>2, <2>3 DEF Counted, InRunLoop, Phases
<1>3. CASE StartMain
  BY <1>1, <1>3 DEF StartMain, Counted, InRunLoop, Phases
<1>4. CASE Terminate
  BY <1>1, <1>4 DEF Terminate, Counted, InRunLoop, Phases
<1>5. CASE JoinThreads
  <2>1. /\ \A p \in VPs : pc[p] = "left"
        /\ pc' = [pc EXCEPT ![0] = "done"]
        /\ UNCHANGED <<frames, idle_vps, session>>
    BY <1>5 DEF JoinThreads, privVars
  <2>. QED BY <1>1, <1>5, <2>1 DEF Counted, InRunLoop
<1>. QED BY <1>2, <1>3, <1>4, <1>5 DEF LifeCycle

\* When terminate has returned every VP is counted.
LEMMA DoneCounted ==
  ASSUME IInv, pc[0] = "done"
  PROVE  CountedIdle = VPs /\ Cardinality(CountedIdle) = N
<1>1. \A q \in VPs : pc[q] \in {"left", "done"} /\ InRunLoop(q)
  BY DoneFact DEF IInv, Phases, InRunLoop
<1>2. CountedIdle = VPs
  BY <1>1 DEF CountedIdle
<1>3. Cardinality(VPs) = N
  <2>1. Cardinality(0 .. N - 1) = IF 0 > N - 1 THEN 0 ELSE (N - 1) - 0 + 1
    BY VPAssumption, FS_Interval
  <2>. QED BY <2>1, VPAssumption DEF VPs
<1>. QED BY <1>2, <1>3

\* A new session finds N more in idle_vps and nobody counted.
LEMMA ReinitCount ==
  ASSUME IInv, Reinit, IdleCountExact
  PROVE  IdleCountExact'
<1>1. idle_vps' = idle_vps /\ session' = session + 1 /\ pc[0] = "done"
  BY DEF Reinit
<1>2. CountedIdle' = {}
  BY DEF Reinit, CountedIdle
<1>3. Cardinality(CountedIdle') = 0
  BY <1>2, FS_EmptySet
<1>4. Cardinality(CountedIdle) = N
  BY <1>1, DoneCounted
<1>5. session \in Int /\ N \in Int
  BY VPAssumption DEF IInv, TypeOK
<1>6. (session + 1 - 1) * N + 0 = (session - 1) * N + N
  BY <1>5
<1>7. idle_vps = (session - 1) * N + N
  BY <1>4 DEF IdleCountExact
<1>8. (session' - 1) * N + Cardinality(CountedIdle') = (session + 1 - 1) * N + 0
  BY <1>1, <1>3, <1>5
<1>9. idle_vps' = (session' - 1) * N + Cardinality(CountedIdle')
  BY <1>1, <1>6, <1>7, <1>8
<1>. QED BY <1>9 DEF IdleCountExact

\* Every step keeps the count exact.
LEMMA IdleCountStep ==
  ASSUME IInv, Shallow, [Next]_vars, IdleCountExact
  PROVE  IdleCountExact'
<1>1. CASE \E p \in VPs : Runtime(p) \/ Program(p)
  BY <1>1, ControlStep, CountedStep
<1>2. CASE LifeCycle
  <2>1. CountedIdle' = CountedIdle
    <3>1. /\ CountedIdle = {q \in VPs : Counted(q)}
          /\ CountedIdle' = {q \in VPs : Counted(q)'}
      BY DEF CountedIdle, Counted
    <3>. QED BY <1>2, <3>1, LifeCycleControl
  <2>2. idle_vps' = idle_vps /\ session' = session
    BY <1>2, LifeCycleControl
  <2>. QED BY <2>1, <2>2 DEF IdleCountExact
<1>3. CASE Reinit
  BY <1>3, ReinitCount
<1>4. CASE UNCHANGED vars
  BY <1>4 DEF vars, IdleCountExact, CountedIdle, InRunLoop
<1>. QED BY <1>1, <1>2, <1>3, <1>4 DEF Next, Ended

\* At the start nobody is idle.
LEMMA IdleCountInit ==
  ASSUME Init
  PROVE  IdleCountExact
<1>1. CountedIdle = {}
  BY DEF Init, CountedIdle
<1>2. Cardinality(CountedIdle) = 0 /\ N \in Nat
  BY <1>1, FS_EmptySet, VPAssumption
<1>. QED BY <1>2 DEF Init, IdleCountExact

\* idle_vps is exact between any two steps of any VPs, whatever the order of
\* the increments and decrements in run(), for any number of VPs and sessions.
THEOREM IdleCountCorrect == Spec /\ []Shallow => []IdleCountExact
<1>1. Init => IdleCountExact
  BY IdleCountInit
<1>2. IInv /\ Shallow /\ [Next]_vars /\ IdleCountExact => IdleCountExact'
  BY IdleCountStep
<1>. QED BY <1>1, <1>2, SchedulerInvariant, PTL DEF Spec

\* When an increment of idle_vps gives N, it is the first session and all VPs
\* are in run(): main() has called terminate.
LEMMA LastOneLeaves ==
  ASSUME IInv, IdleCountExact, IdleCountExact', NEW p \in VPs, ControlOf(p),
         pc'[p] = "left"
  PROVE  session = 1 /\ \A q \in VPs : Counted(q)'
<1>1. ~Counted(p) /\ Counted(p)' /\ idle_vps' = idle_vps + 1 /\ idle_vps + 1 = N
  BY DEF ControlOf, CountStep
<1>2. N \in Nat \ {0} /\ session \in Nat \ {0} /\ session' = session
  BY VPAssumption DEF IInv, TypeOK, ControlOf
<1>3. Cardinality(CountedIdle) \in Nat /\ CountedIdle' \subseteq VPs
  BY CountedFinite DEF CountedIdle
<1>4. session = 1
  <2>. SUFFICES ASSUME session # 1 PROVE FALSE
    OBVIOUS
  <2>1. PICK k \in Nat : session - 1 = k + 1
    <3>1. session - 2 \in Nat /\ session - 1 = (session - 2) + 1
      BY <1>2
    <3>. QED BY <3>1
  <2>2. (k + 1) * N = k * N + N /\ k * N >= 0 /\ k * N \in Nat
    BY <1>2
  <2>3. idle_vps = k * N + N + Cardinality(CountedIdle)
    BY <1>2, <2>1, <2>2 DEF IdleCountExact
  <2>. QED BY <1>1, <1>2, <1>3, <2>2, <2>3
<1>5. Cardinality(CountedIdle') = N
  <2>1. idle_vps' = (1 - 1) * N + Cardinality(CountedIdle')
    BY <1>2, <1>4 DEF IdleCountExact
  <2>2. Cardinality(CountedIdle') \in Nat
    BY <1>3, CountedFinite, FS_CardinalityType
  <2>. QED BY <1>1, <1>2, <2>1, <2>2
<1>6. Cardinality(VPs) = N /\ IsFiniteSet(VPs)
  <2>1. /\ IsFiniteSet(0 .. N - 1)
        /\ Cardinality(0 .. N - 1) = IF 0 > N - 1 THEN 0 ELSE (N - 1) - 0 + 1
    BY VPAssumption, FS_Interval
  <2>. QED BY <2>1, VPAssumption DEF VPs
<1>7. CountedIdle' = VPs
  BY <1>3, <1>5, <1>6, FS_Subset
<1>. QED BY <1>4, <1>7 DEF CountedIdle, Counted

\* Only a step of a VP that ends an increment at N makes it leave.
LEMMA LeaveStep ==
  ASSUME IInv, Shallow, [Next]_vars, IdleCountExact, LeavesInFirstSession
  PROVE  LeavesInFirstSession'
<1>1. CASE \E p \in VPs : Runtime(p) \/ Program(p)
  <2>1. PICK p \in VPs : ControlOf(p)
    BY <1>1, ControlStep
  <2>2. IdleCountExact'
    BY IdleCountStep
  <2>3. CASE pc'[p] = "left"
    <3>1. session = 1 /\ session' = session
      BY <2>1, <2>2, <2>3, LastOneLeaves DEF ControlOf
    <3>. QED BY <3>1 DEF LeavesInFirstSession
  <2>4. CASE pc'[p] # "left"
    BY <2>1, <2>4 DEF ControlOf, LeavesInFirstSession
  <2>. QED BY <2>3, <2>4
<1>2. CASE LifeCycle
  BY <1>2, LifeCycleControl DEF LeavesInFirstSession
<1>3. CASE Reinit
  BY <1>3 DEF Reinit, LeavesInFirstSession
<1>4. CASE UNCHANGED vars
  BY <1>4 DEF vars, LeavesInFirstSession
<1>. QED BY <1>1, <1>2, <1>3, <1>4 DEF Next, Ended

\* After a first terminate the static idle_vps is too high for good: in a later
\* session no VP ever leaves run(), so terminate cannot return.
THEOREM LaterSessionsNeverEnd == Spec /\ []Shallow => []LeavesInFirstSession
<1>1. Init => LeavesInFirstSession
  BY DEF Init, LeavesInFirstSession
<1>2. IInv /\ Shallow /\ [Next]_vars /\ IdleCountExact /\ LeavesInFirstSession
        => LeavesInFirstSession'
  BY LeaveStep
<1>. QED BY <1>1, <1>2, SchedulerInvariant, IdleCountCorrect, PTL DEF Spec

\* main() is on no stack.
NoMain == pc[0] # "init" /\ \A i \in 1 .. Len(frames[0]) : frames[0][i] # NULL

\* A step of a VP does not bring main() back.
LEMMA NoMainKept ==
  ASSUME IInv, NEW p \in VPs, ControlOf(p), NoMain
  PROVE  NoMain'
<1>1. 0 \in VPs /\ TypeOK /\ frames[0] \in Seq(Fns) /\ Len(frames[0]) \in Nat
  BY VPFact, SeqTypes DEF IInv
<1>2. CASE p # 0
  BY <1>1, <1>2 DEF ControlOf, NoMain
<1>3. CASE p = 0
  <2>1. pc'[0] # "init"
    BY <1>3 DEF ControlOf
  <2>2. CASE frames'[0] = frames[0]
    BY <2>1, <2>2 DEF NoMain
  <2>3. CASE InHand(0) /\ frames'[0] = Append(frames[0], current_job[0])
    <3>1. current_job[0] \in Fns /\ current_job[0] # NULL
      BY <1>1, <2>3, InHandFact, VPAssumption DEF Fns
    <3>2. /\ Len(frames'[0]) = Len(frames[0]) + 1
          /\ \A i \in 1 .. Len(frames[0]) : frames'[0][i] = frames[0][i]
          /\ frames'[0][Len(frames[0]) + 1] = current_job[0]
      BY <1>1, <2>3, <3>1, AppendProperties
    <3>3. \A i \in 1 .. Len(frames'[0]) :
             i \in 1 .. Len(frames[0]) \/ i = Len(frames[0]) + 1
      BY <1>1, <3>2
    <3>4. \A i \in 1 .. Len(frames[0]) : frames[0][i] # NULL
      BY DEF NoMain
    <3>5. \A i \in 1 .. Len(frames'[0]) : frames'[0][i] # NULL
      BY <3>1, <3>2, <3>3, <3>4
    <3>. QED BY <2>1, <3>5 DEF NoMain
  <2>4. CASE frames[0] # <<>> /\ frames'[0] = Pop(frames[0])
    <3>1. /\ Len(frames'[0]) = Len(frames[0]) - 1
          /\ \A i \in 1 .. Len(frames[0]) - 1 : frames'[0][i] = frames[0][i]
      BY <1>1, <2>4, PopFact
    <3>2. \A i \in 1 .. Len(frames'[0]) : i \in 1 .. Len(frames[0]) - 1
      BY <1>1, <3>1
    <3>3. \A i \in 1 .. Len(frames[0]) - 1 : i \in 1 .. Len(frames[0])
      BY <1>1
    <3>4. \A i \in 1 .. Len(frames[0]) : frames[0][i] # NULL
      BY DEF NoMain
    <3>5. \A i \in 1 .. Len(frames'[0]) : frames'[0][i] # NULL
      BY <3>1, <3>2, <3>3, <3>4
    <3>. QED BY <2>1, <3>5 DEF NoMain
  <2>. QED BY <1>3, <2>2, <2>3, <2>4 DEF ControlOf, StackStep
<1>. QED BY <1>2, <1>3

\* Every step keeps termination detection from being premature.
LEMMA NotPremature ==
  ASSUME IInv, Shallow, [Next]_vars, IdleCountExact, NoVPLeavesBeforeTerminate
  PROVE  NoVPLeavesBeforeTerminate'
<1>. SUFFICES ASSUME NEW q \in VPs, pc'[q] = "left"
              PROVE  NoMain'
  BY DEF NoVPLeavesBeforeTerminate, NoMain
<1>1. CASE \E p \in VPs : Runtime(p) \/ Program(p)
  <2>1. PICK p \in VPs : ControlOf(p)
    BY <1>1, ControlStep
  <2>2. CASE pc[q] = "left"
    BY <2>1, <2>2, NoMainKept DEF NoVPLeavesBeforeTerminate, NoMain
  <2>3. CASE pc[q] # "left"
    <3>1. q = p
      BY <2>1, <2>3 DEF ControlOf
    <3>2. Counted(0)'
      BY <2>1, <3>1, IdleCountStep, LastOneLeaves, VPFact
    <3>. QED BY <3>2 DEF Counted, InRunLoop, NoMain
  <2>. QED BY <2>2, <2>3
<1>2. CASE LifeCycle
  <2>1. NoMain
    BY <1>2, LifeCycleControl DEF NoVPLeavesBeforeTerminate, NoMain
  <2>2. 0 \in VPs /\ frames \in [VPs -> Seq(Fns)]
    BY VPFact DEF IInv, TypeOK
  <2>3. frames'[0] \in {frames[0], <<>>}
    BY <1>2, <2>1, <2>2
       DEF LifeCycle, CreateThread, StartMain, Terminate, JoinThreads, privVars, NoMain
  <2>. QED BY <1>2, <2>1, <2>3, LifeCycleControl DEF NoMain
<1>3. CASE Reinit
  BY <1>3 DEF Reinit
<1>4. CASE UNCHANGED vars
  BY <1>4 DEF vars, NoVPLeavesBeforeTerminate, NoMain
<1>. QED BY <1>1, <1>2, <1>3, <1>4 DEF Next, Ended

\* No VP mistakes a moment in which everybody else looks idle for the end: it
\* leaves run() only when main() is inside terminate.
THEOREM TerminationNotPremature == Spec /\ []Shallow => []NoVPLeavesBeforeTerminate
<1>1. Init => NoVPLeavesBeforeTerminate
  BY DEF Init, NoVPLeavesBeforeTerminate
<1>2. IInv /\ Shallow /\ [Next]_vars /\ IdleCountExact /\ NoVPLeavesBeforeTerminate
        => NoVPLeavesBeforeTerminate'
  BY NotPremature
<1>. QED BY <1>1, <1>2, SchedulerInvariant, IdleCountCorrect, PTL DEF Spec

-----------------------------------------------------------------------------
(* join_counter *)

\* The values of an unsigned short.
LEMMA Uint16Fact == \A c \in Int : c \in Uint16 <=> 0 <= c /\ c <= 65535
BY SMTT(30) DEF Uint16

\* They are numbers.
LEMMA Uint16Int == \A c \in Uint16 : c \in Int
<1>1. \A c \in 0 .. 65535 : c \in Int
  BY SMTT(30)
<1>. QED BY SMTT(30), <1>1 DEF Uint16

\* The counters are 16 bit numbers.
LEMMA CounterTypes ==
  ASSUME IInv, NEW j \in Jobs
  PROVE  /\ join_counter[j] \in Nat /\ join_counter[j] <= 65535
         /\ Joins[j] \in Nat /\ Joins[j] >= 1
<1>1. join_counter[j] \in Uint16
  BY DEF IInv, TypeOK
<1>2. Joins[j] \in Uint16 \ {0}
  BY VPAssumption
<1>3. join_counter[j] \in Int /\ Joins[j] \in Int /\ Joins[j] # 0
  BY <1>1, <1>2, Uint16Int, Zenon
<1>. QED BY <1>1, <1>2, <1>3, Uint16Fact

\* What JoinRights says of one job.
LEMMA RightsOf ==
  ASSUME IInv, JoinRights, NEW j \in Jobs
  PROVE  /\ IsFiniteSet(InJoin(j)) /\ Cardinality(InJoin(j)) <= join_counter[j]
         /\ state[j] = "New" => InJoin(j) = {} /\ join_counter[j] = Joins[j]
         /\ Cardinality(InJoin(j)) \in Nat /\ join_counter[j] \in Nat
<1>1. /\ IsFiniteSet(InJoin(j)) /\ Cardinality(InJoin(j)) <= join_counter[j]
      /\ state[j] = "New" => InJoin(j) = {} /\ join_counter[j] = Joins[j]
  BY DEF JoinRights
<1>. QED BY <1>1, CounterTypes, FS_CardinalityType

\* Fork puts the job in the list and notes who forked it.
LEMMA ForkFact ==
  ASSUME IInv, Shallow, NEW p \in VPs, NEW x \in Jobs, Fork(p, x)
  PROVE  /\ pc[p] = "user" /\ frames[p] # <<>> /\ state[x] = "New"
         /\ Fn(p) \in Fns
         /\ state' = [state EXCEPT ![x] = "Ready"]
         /\ forker' = [forker EXCEPT ![x] = Fn(p)]
         /\ job_list' = [job_list EXCEPT ![p] = @ \cup {x}]
         /\ UNCHANGED <<pc, current_job, frames, joining, join_counter, deleted>>
<1>1. TypeOK /\ LocalInv(p)
  BY DEF IInv, LocalInv
<1>2. ~(Len(context_stack[p]) > ContextLimit)
  <2>1. Len(context_stack[p]) <= ContextLimit /\ Len(context_stack[p]) \in Nat
    BY <1>1, SeqTypes DEF Shallow
  <2>. QED BY <2>1, VPAssumption
<1>3. /\ pc[p] = "user" /\ state[x] = "New"
      /\ state' = [state EXCEPT ![x] = "Ready"]
      /\ forker' = [forker EXCEPT ![x] = Fn(p)]
      /\ job_list' = [job_list EXCEPT ![p] = @ \cup {x}]
      /\ UNCHANGED <<pc, current_job, frames, joining, join_counter, deleted>>
  BY <1>2 DEF Fork
<1>4. frames[p] # <<>>
  BY <1>1, <1>3 DEF LocalInv, ShapeAt, InFunction
<1>. QED BY <1>3, <1>4, TopFact

\* The function on top of a stack whose join is over has counted the job down.
LEMMA JoinReturnFact ==
  ASSUME IInv, JoinRights, NEW p \in VPs, NEW zero \in BOOLEAN, JoinReturn(p, zero)
  PROVE  \E x \in Jobs :
           /\ joining[Fn(p)] = x /\ state[x] = "Finished" /\ Fn(p) \in Fns
           /\ Fn(p) \in InJoin(x)
           /\ join_counter[x] \in Nat \ {0} /\ join_counter[x] - 1 \in Uint16
           /\ join_counter' = [join_counter EXCEPT ![x] = @ - 1]
           /\ deleted' = IF zero /\ x \in Smart THEN deleted \cup {x} ELSE deleted
           /\ joining' = [joining EXCEPT ![Fn(p)] = NULL]
           /\ UNCHANGED <<frames, state, forker>>
<1>. DEFINE x == joining[Fn(p)]
<1>0. join_counter' = [join_counter EXCEPT ![x] = (@ - 1) % 65536]
  BY DEF JoinReturn
<1>1. /\ pc[p] = "dec"
      /\ deleted' = IF zero /\ x \in Smart THEN deleted \cup {x} ELSE deleted
      /\ joining' = [joining EXCEPT ![Fn(p)] = NULL]
      /\ UNCHANGED <<frames, state, forker>>
  BY DEF JoinReturn, privVars
<1>2. TypeOK /\ frames[p] # <<>> /\ state[x] = "Finished"
  BY <1>1 DEF IInv, ShapeAt, ResultAt, InFunction
<1>3. /\ Fn(p) \in Fns /\ x # NULL
      /\ joining \in [Fns -> Fns] /\ join_counter \in [Jobs -> Uint16]
  <2>1. Fn(p) \in Fns /\ x # NULL
    BY <1>1, <1>2, TopOnVP DEF IInv, ShapeAt
  <2>. QED BY <1>2, <2>1 DEF TypeOK
<1>4. x \in Jobs
  BY <1>3 DEF Fns
<1>. HIDE DEF x
<1>5. Fn(p) \in InJoin(x)
  BY <1>3 DEF InJoin, x
<1>6. /\ IsFiniteSet(InJoin(x)) /\ Cardinality(InJoin(x)) \in Nat
      /\ Cardinality(InJoin(x)) <= join_counter[x]
  BY <1>4, RightsOf
<1>7. Cardinality(InJoin(x)) >= 1
  <2>1. Cardinality(InJoin(x)) # 0
    BY <1>5, <1>6, FS_EmptySet
  <2>. QED BY <1>6, <2>1
<1>8. PICK c \in Nat \ {0} : c = join_counter[x] /\ c <= 65535
  BY <1>4, <1>6, <1>7, CounterTypes
<1>9. c - 1 \in Int /\ 0 <= c - 1 /\ c - 1 <= 65535 /\ (c - 1) % 65536 = c - 1
  BY <1>8
<1>10. join_counter' = [join_counter EXCEPT ![x] = @ - 1]
  <2>1. (join_counter[x] - 1) % 65536 = join_counter[x] - 1
    BY <1>8, <1>9
  <2>2. PICK d : d = (join_counter[x] - 1) % 65536
    OBVIOUS
  <2>3. join_counter' = [join_counter EXCEPT ![x] = d]
    BY <1>0, <2>2
  <2>4. d = join_counter[x] - 1
    BY <2>1, <2>2
  <2>. QED BY <2>3, <2>4, Zenon
<1>11. join_counter[x] \in Nat \ {0} /\ join_counter[x] - 1 \in Uint16
  BY <1>8, <1>9, Uint16Fact
<1>12. joining[Fn(p)] = x
  BY DEF x
<1>. WITNESS x \in Jobs
<1>. QED BY <1>1, <1>2, <1>3, <1>5, <1>7, <1>10, <1>11, <1>12, Zenon

\* A join that returns counts its job down by the one that it was.
LEMMA JoinReturnRights ==
  ASSUME IInv, JoinRights, NEW p \in VPs, NEW zero \in BOOLEAN, JoinReturn(p, zero)
  PROVE  JoinRights'
<1>. DEFINE g == Fn(p)
<1>1. PICK x \in Jobs :
        /\ joining[g] = x /\ state[x] = "Finished" /\ g \in Fns /\ g \in InJoin(x)
        /\ join_counter[x] \in Nat \ {0}
        /\ join_counter' = [join_counter EXCEPT ![x] = @ - 1]
        /\ joining' = [joining EXCEPT ![g] = NULL]
        /\ state' = state
  BY JoinReturnFact
<1>. HIDE DEF g
<1>2. /\ join_counter \in [Jobs -> Uint16] /\ joining \in [Fns -> Fns] /\ NULL \notin Jobs
  BY VPAssumption DEF IInv, TypeOK
<1>3. joining'[g] = NULL /\ \A f \in Fns \ {g} : joining'[f] = joining[f]
  BY <1>1, <1>2
<1>4. ASSUME NEW k \in Jobs
      PROVE  /\ IsFiniteSet(InJoin(k)') /\ Cardinality(InJoin(k)') <= join_counter'[k]
             /\ state'[k] = "New" => InJoin(k)' = {} /\ join_counter'[k] = Joins[k]
  <2>1. /\ IsFiniteSet(InJoin(k)) /\ Cardinality(InJoin(k)) <= join_counter[k]
        /\ state[k] = "New" => InJoin(k) = {} /\ join_counter[k] = Joins[k]
        /\ Cardinality(InJoin(k)) \in Nat /\ join_counter[k] \in Nat
    BY RightsOf
  <2>2. InJoin(k)' = {f \in Fns : joining'[f] = k}
    BY DEF InJoin
  <2>3. CASE k = x
    <3>1. InJoin(k)' = InJoin(k) \ {g}
      BY <1>1, <1>2, <1>3, <2>2, <2>3 DEF InJoin
    <3>2. IsFiniteSet(InJoin(k)') /\ Cardinality(InJoin(k)') = Cardinality(InJoin(k)) - 1
      BY <1>1, <2>1, <2>3, <3>1, FS_RemoveElement
    <3>3. join_counter'[k] = join_counter[k] - 1 /\ state'[k] # "New"
      BY <1>1, <1>2, <2>3
    <3>. QED BY <2>1, <3>2, <3>3
  <2>4. CASE k # x
    <3>1. InJoin(k)' = InJoin(k)
      BY <1>1, <1>2, <1>3, <2>2, <2>4 DEF InJoin
    <3>2. join_counter'[k] = join_counter[k] /\ state'[k] = state[k]
      BY <1>1, <1>2, <2>4
    <3>. QED BY <2>1, <3>1, <3>2
  <2>. QED BY <2>3, <2>4
<1>. QED BY <1>4 DEF JoinRights
\* The state of at most one job moves, and only forward.
StateStep ==
    \/ state' = state
    \/ \E j \in Jobs : state[j] = "Ready" /\ state' = [state EXCEPT ![j] = "Running"]
    \/ \E j \in Jobs : state[j] = "Running" /\ state' = [state EXCEPT ![j] = "Finished"]

\* Steps that touch no fork, no join and no counter.
Searches(p) ==
    \/ GetJob(p) \/ GetNothing(p) \/ GetCas(p) \/ IdleAdd(p) \/ StealJob(p)
    \/ StealNothing(p) \/ StealCas(p) \/ IdleSub(p) \/ Suspend(p) \/ Restore(p)
    \/ JoinCheck(p) \/ JoinRead(p) \/ Finish(p) \/ ExitValue(p)

\* Steps of a VP sorted by what they do to forks and joins.
LEMMA SortedSteps ==
  ASSUME NEW p \in VPs, Runtime(p) \/ Program(p)
  PROVE  \/ Searches(p)
         \/ \E x \in Jobs : Fork(p, x)
         \/ \E x \in Jobs : JoinBegin(p, x)
         \/ \E zero \in BOOLEAN : JoinReturn(p, zero)
         \/ Return(p)
BY DEF Runtime, Program, Searches

\* What the compare and swap on a job in hand does to its state.
LEMMA MarkStep ==
  ASSUME IInv, NEW p \in VPs, InHand(p), MarkRunning(current_job[p])
  PROVE  StateStep
<1>1. /\ state \in [Jobs -> {"New", "Ready", "Running", "Finished"}]
      /\ current_job[p] \in Jobs
  BY InHandFact DEF IInv, TypeOK
<1>2. CASE state[current_job[p]] = "Ready"
  BY <1>1, <1>2 DEF MarkRunning, StateStep
<1>3. CASE state[current_job[p]] # "Ready"
  <2>1. state' = state
    BY <1>1, <1>3 DEF MarkRunning
  <2>. QED BY <2>1 DEF StateStep
<1>. QED BY <1>2, <1>3

\* All that the search for jobs does to jobs is to mark them.
LEMMA SearchFact ==
  ASSUME IInv, NEW p \in VPs, Searches(p)
  PROVE  StateStep /\ UNCHANGED <<forker, joining, join_counter, deleted>>
<1>1. CASE GetCas(p) \/ StealCas(p)
  <2>1. InHand(p) /\ MarkRunning(current_job[p])
    BY <1>1 DEF GetCas, StealCas, InHand
  <2>2. UNCHANGED <<forker, joining, join_counter, deleted>>
    BY <1>1 DEF GetCas, StealCas, userVars
  <2>. QED BY <2>1, <2>2, MarkStep
<1>2. CASE Finish(p)
  <2>1. /\ pc[p] = "return" /\ MarkFinished(Fn(p))
        /\ UNCHANGED <<forker, joining, join_counter, deleted>>
    BY <1>2 DEF Finish, userVars
  <2>2. frames[p] # <<>> /\ Fn(p) # NULL
    BY <2>1 DEF IInv, ShapeAt, InFunction
  <2>3. Fn(p) \in Jobs /\ state[Fn(p)] = "Running"
    BY <2>2, TopFact
  <2>4. state' = [state EXCEPT ![Fn(p)] = "Finished"]
    BY <2>1, <2>3 DEF MarkFinished
  <2>. QED BY <2>1, <2>3, <2>4 DEF StateStep
<1>3. CASE GetJob(p) \/ GetNothing(p) \/ IdleAdd(p) \/ StealJob(p) \/ StealNothing(p)
  BY <1>3 DEF GetJob, GetNothing, IdleAdd, StealJob, StealNothing, StateStep,
              jobVars, userVars
<1>4. CASE IdleSub(p) \/ Suspend(p) \/ Restore(p) \/ JoinCheck(p) \/ JoinRead(p)
  BY <1>4 DEF IdleSub, Suspend, Restore, JoinCheck, JoinRead, StateStep,
              jobVars, userVars
<1>5. CASE ExitValue(p)
  BY <1>5 DEF ExitValue, StateStep, userVars
<1>. QED BY <1>1, <1>2, <1>3, <1>4, <1>5 DEF Searches

\* The rights are the same when joins and counters are.
LEMMA SameRights ==
  ASSUME IInv, JoinRights, StateStep, UNCHANGED <<joining, join_counter>>
  PROVE  JoinRights'
<1>1. \A j \in Jobs : InJoin(j)' = InJoin(j)
  BY DEF InJoin
<1>2. \A j \in Jobs : state'[j] = "New" => state[j] = "New"
  BY DEF StateStep, IInv, TypeOK
<1>. QED BY <1>1, <1>2 DEF JoinRights

\* A forked job is no longer New; nothing else changes.
LEMMA ForkRights ==
  ASSUME IInv, Shallow, NEW p \in VPs, NEW x \in Jobs, Fork(p, x), JoinRights
  PROVE  JoinRights'
<1>1. /\ state' = [state EXCEPT ![x] = "Ready"]
      /\ joining' = joining /\ join_counter' = join_counter
  BY ForkFact
<1>2. \A j \in Jobs : InJoin(j)' = InJoin(j)
  BY <1>1 DEF InJoin
<1>3. \A j \in Jobs : state'[j] = "New" => state[j] = "New"
  BY <1>1 DEF IInv, TypeOK
<1>. QED BY <1>1, <1>2, <1>3 DEF JoinRights

\* A function may begin a join of a job it forked or has a pointer to, as long
\* as the counter pays for it.
LEMMA JoinBeginFact ==
  ASSUME IInv, NEW p \in VPs, NEW x \in Jobs, JoinBegin(p, x)
  PROVE  /\ frames[p] # <<>> /\ Fn(p) \in Fns /\ state[x] # "New"
         /\ Fn(p) \in Joiners[x] \cup {forker[x]}
         /\ Cardinality(InJoin(x)) < join_counter[x]
         /\ joining[Fn(p)] = NULL
         /\ joining' = [joining EXCEPT ![Fn(p)] = x]
         /\ UNCHANGED <<frames, state, forker, join_counter, deleted>>
<1>1. /\ pc[p] = "user" /\ state[x] # "New"
      /\ Fn(p) \in Joiners[x] \cup {forker[x]}
      /\ Cardinality(InJoin(x)) < join_counter[x]
      /\ joining' = [joining EXCEPT ![Fn(p)] = x]
      /\ UNCHANGED <<frames, state, forker, join_counter, deleted>>
  BY DEF JoinBegin, privVars, jobVars
<1>2. TypeOK /\ frames[p] # <<>> /\ ShapeAt(p)
  BY <1>1 DEF IInv, ShapeAt, InFunction
<1>3. Fn(p) \in Fns /\ joining[Fn(p)] = NULL
  BY <1>1, <1>2, TopOnVP DEF ShapeAt
<1>. QED BY <1>1, <1>2, <1>3

\* One more join is in progress, and paid for.
LEMMA JoinBeginRights ==
  ASSUME IInv, JoinRights, NEW p \in VPs, NEW x \in Jobs, JoinBegin(p, x)
  PROVE  JoinRights'
<1>. DEFINE g == Fn(p)
<1>1. /\ g \in Fns /\ state[x] # "New" /\ joining[g] = NULL
      /\ Cardinality(InJoin(x)) < join_counter[x]
      /\ joining' = [joining EXCEPT ![g] = x]
      /\ UNCHANGED <<state, join_counter>>
  BY JoinBeginFact
<1>. HIDE DEF g
<1>2. joining \in [Fns -> Fns] /\ NULL \notin Jobs
  BY VPAssumption DEF IInv, TypeOK
<1>3. joining'[g] = x /\ \A f \in Fns \ {g} : joining'[f] = joining[f]
  BY <1>1, <1>2
<1>4. ASSUME NEW k \in Jobs
      PROVE  /\ IsFiniteSet(InJoin(k)') /\ Cardinality(InJoin(k)') <= join_counter'[k]
             /\ state'[k] = "New" => InJoin(k)' = {} /\ join_counter'[k] = Joins[k]
  <2>1. /\ IsFiniteSet(InJoin(k)) /\ Cardinality(InJoin(k)) <= join_counter[k]
        /\ state[k] = "New" => InJoin(k) = {} /\ join_counter[k] = Joins[k]
        /\ Cardinality(InJoin(k)) \in Nat /\ join_counter[k] \in Nat
    BY RightsOf
  <2>2. InJoin(k)' = {f \in Fns : joining'[f] = k}
    BY DEF InJoin
  <2>3. CASE k = x
    <3>1. InJoin(k)' = InJoin(k) \cup {g} /\ g \notin InJoin(k)
      BY <1>1, <1>2, <1>3, <2>2, <2>3 DEF InJoin
    <3>2. IsFiniteSet(InJoin(k)') /\ Cardinality(InJoin(k)') = Cardinality(InJoin(k)) + 1
      BY <2>1, <3>1, FS_AddElement
    <3>. QED BY <1>1, <2>1, <2>3, <3>2
  <2>4. CASE k # x
    <3>1. InJoin(k)' = InJoin(k)
      BY <1>1, <1>2, <1>3, <2>2, <2>4 DEF InJoin
    <3>. QED BY <1>1, <2>1, <3>1
  <2>. QED BY <2>3, <2>4
<1>. QED BY <1>4 DEF JoinRights

\* A function that returns.
LEMMA ReturnFact ==
  ASSUME NEW p \in VPs, Return(p)
  PROVE  UNCHANGED <<frames, state, forker, join_counter, deleted, joining>>
BY DEF Return, privVars, userVars

\* init and terminate leave jobs and joins alone.
LEMMA LifeCycleFact ==
  ASSUME LifeCycle \/ Reinit
  PROVE  UNCHANGED <<state, join_counter, joining, forker, deleted>>
BY DEF LifeCycle, CreateThread, StartMain, Terminate, JoinThreads, Reinit, jobVars, userVars

\* Every step keeps the rights within the counters.
LEMMA RightsStep ==
  ASSUME IInv, Shallow, [Next]_vars, JoinRights
  PROVE  JoinRights'
<1>1. ASSUME NEW p \in VPs, Runtime(p) \/ Program(p) PROVE JoinRights'
  <2>1. CASE Searches(p)
    BY <2>1, SearchFact, SameRights
  <2>2. CASE \E x \in Jobs : Fork(p, x)
    BY <2>2, ForkRights
  <2>3. CASE \E x \in Jobs : JoinBegin(p, x)
    BY <2>3, JoinBeginRights
  <2>4. CASE \E zero \in BOOLEAN : JoinReturn(p, zero)
    BY <2>4, JoinReturnRights
  <2>5. CASE Return(p)
    BY <2>5, ReturnFact, SameRights DEF StateStep
  <2>. QED BY <1>1, <2>1, <2>2, <2>3, <2>4, <2>5, SortedSteps
<1>2. CASE LifeCycle \/ Reinit
  BY <1>2, LifeCycleFact, SameRights DEF StateStep
<1>3. CASE UNCHANGED vars
  BY <1>3, SameRights DEF vars, StateStep
<1>. QED BY <1>1, <1>2, <1>3 DEF Next, Ended

\* At the start nobody is in a join.
LEMMA RightsInit ==
  ASSUME Init
  PROVE  JoinRights
<1>1. \A j \in Jobs : InJoin(j) = {}
  BY VPAssumption DEF Init, InJoin
<1>2. \A j \in Jobs : IsFiniteSet(InJoin(j)) /\ Cardinality(InJoin(j)) = 0
  BY <1>1, FS_EmptySet
<1>3. \A j \in Jobs : join_counter[j] = Joins[j] /\ join_counter[j] >= 0
  BY InitInv, CounterTypes DEF Init
<1>. QED BY <1>1, <1>2, <1>3 DEF JoinRights

\* A program that joins no job more often than its attributes say keeps the
\* joins in progress within the counters.
LEMMA RightsWithinCounters == Spec /\ []Shallow => []JoinRights
<1>1. IInv /\ Shallow /\ [Next]_vars /\ JoinRights => JoinRights'
  BY RightsStep
<1>. QED BY <1>1, RightsInit, SchedulerInvariant, PTL DEF Spec
-----------------------------------------------------------------------------
(* The promise of fork and join *)

\* A thread takes steps only before terminate has returned.
LEMMA NotDone ==
  ASSUME IInv, NEW p \in VPs, ControlOf(p)
  PROVE  pc[0] # "done" /\ pc'[0] # "done"
<1>1. 0 \in VPs /\ (pc[0] = "done" => \A q \in VPs : q # 0 => pc[q] = "left")
  BY VPFact DEF IInv, Phases
<1>2. pc[0] # "done"
  BY <1>1 DEF ControlOf
<1>. QED BY <1>1, <1>2 DEF ControlOf

\* A step that marks a job is a start, an end or no step of the promise.
LEMMA MarkPromise ==
  ASSUME pc[0] # "done", pc'[0] # "done", StateStep, join_counter' = join_counter
  PROVE  [FJ!FJNext]_(FJ!fjVars)
<1>1. (pc[0] = "done")' = (pc[0] = "done")
  OBVIOUS
<1>2. CASE state' = state
  BY <1>1, <1>2 DEF FJ!fjVars
<1>3. ASSUME NEW j \in Jobs, state[j] = "Ready", state' = [state EXCEPT ![j] = "Running"]
      PROVE  FJ!FJNext
  BY <1>1, <1>3 DEF FJ!FJNext, FJ!FJStart, FJ!Move
<1>4. ASSUME NEW j \in Jobs, state[j] = "Running", state' = [state EXCEPT ![j] = "Finished"]
      PROVE  FJ!FJNext
  BY <1>1, <1>4 DEF FJ!FJNext, FJ!FJFinish, FJ!Move
<1>. QED BY <1>2, <1>3, <1>4 DEF StateStep

\* Every step of the scheduler is a step of the promise or changes nothing of it.
LEMMA PromiseStep ==
  ASSUME IInv, Shallow, JoinRights, [Next]_vars, Sessions = 1
  PROVE  [FJ!FJNext]_(FJ!fjVars)
<1>1. ASSUME NEW p \in VPs, Runtime(p) \/ Program(p)
      PROVE  [FJ!FJNext]_(FJ!fjVars)
  <2>0. /\ pc[0] # "done" /\ pc'[0] # "done"
        /\ (pc[0] = "done")' = (pc[0] = "done")
    BY <1>1, ControlStep, NotDone
  <2>1. CASE Searches(p)
    BY <2>0, <2>1, SearchFact, MarkPromise
  <2>2. CASE \E x \in Jobs : Fork(p, x)
    <3>1. PICK x \in Jobs : /\ state[x] = "New" /\ state' = [state EXCEPT ![x] = "Ready"]
                            /\ join_counter' = join_counter
      BY <2>2, ForkFact
    <3>. QED BY <2>0, <3>1 DEF FJ!FJNext, FJ!FJFork, FJ!Move
  <2>3. CASE \E x \in Jobs : JoinBegin(p, x)
    BY <2>0, <2>3, JoinBeginFact DEF FJ!fjVars
  <2>4. CASE \E zero \in BOOLEAN : JoinReturn(p, zero)
    <3>1. PICK x \in Jobs : /\ state[x] = "Finished" /\ state' = state
                            /\ join_counter[x] \in Nat \ {0}
                            /\ join_counter' = [join_counter EXCEPT ![x] = @ - 1]
      BY <2>4, JoinReturnFact
    <3>2. join_counter[x] > 0
      BY <3>1
    <3>. QED BY <2>0, <3>1, <3>2 DEF FJ!FJNext, FJ!FJJoin
  <2>5. CASE Return(p)
    BY <2>0, <2>5, ReturnFact DEF FJ!fjVars
  <2>. QED BY <1>1, <2>1, <2>2, <2>3, <2>4, <2>5, SortedSteps
<1>2. CASE LifeCycle
  <2>1. pc[0] # "done" /\ UNCHANGED <<state, join_counter>>
    BY <1>2, LifeCycleControl, LifeCycleFact
  <2>2. CASE pc'[0] = "done"
    <3>1. IInv'
      BY NextInv
    <3>2. \A j \in Jobs : state'[j] \in {"New", "Finished"}
      <4>1. IInv /\ pc[0] = "done" => \A j \in Jobs : state[j] \in {"New", "Finished"}
        BY DoneFact
      <4>2. (IInv /\ pc[0] = "done" => \A j \in Jobs : state[j] \in {"New", "Finished"})'
        BY <4>1, DoneFact, PTL
      <4>. QED BY <2>2, <3>1, <4>2
    <3>. QED BY <2>1, <2>2, <3>2 DEF FJ!FJNext, FJ!FJEnd
  <2>3. CASE pc'[0] # "done"
    BY <2>1, <2>3 DEF FJ!fjVars
  <2>. QED BY <2>2, <2>3
<1>3. CASE Reinit
  <2>1. session < Sessions /\ session \in 1 .. Sessions
    BY <1>3 DEF Reinit, IInv, TypeOK
  <2>. QED BY <2>1
<1>4. CASE UNCHANGED vars
  BY <1>4 DEF vars, FJ!fjVars
<1>. QED BY <1>1, <1>2, <1>3, <1>4 DEF Next, Ended

\* The scheduler implements the promise: each forked job starts once and after
\* its fork, each join returns after the job's end and uses up one of its
\* joins, and terminate returns with no job waiting or running.
THEOREM KeepsPromise ==
  ASSUME Sessions = 1
  PROVE  Spec /\ []Shallow => ImplementsForkJoin
<1>1. Init => FJ!FJInit
  <2>. SUFFICES ASSUME Init PROVE FJ!FJInit
    OBVIOUS
  <2>1. pc[0] = "init"
    BY VPFact DEF Init
  <2>. QED BY <2>1 DEF Init, FJ!FJInit
<1>2. IInv /\ Shallow /\ JoinRights /\ [Next]_vars => [FJ!FJNext]_(FJ!fjVars)
  BY PromiseStep
<1>. QED BY <1>1, <1>2, SchedulerInvariant, RightsWithinCounters, PTL
         DEF Spec, ImplementsForkJoin, FJ!FJSpec
-----------------------------------------------------------------------------
(* The end of a job object *)

\* A job that is finished stays finished.
LEMMA FinishedStays ==
  ASSUME IInv, Shallow, [Next]_vars, NEW j \in Jobs, state[j] = "Finished"
  PROVE  state'[j] = "Finished"
<1>1. state \in [Jobs -> {"New", "Ready", "Running", "Finished"}]
  BY DEF IInv, TypeOK
<1>2. ASSUME NEW p \in VPs, Runtime(p) \/ Program(p) PROVE state'[j] = "Finished"
  <2>1. CASE Searches(p)
    BY <1>1, <2>1, SearchFact DEF StateStep
  <2>2. CASE \E x \in Jobs : Fork(p, x)
    <3>1. PICK x \in Jobs : state[x] = "New" /\ state' = [state EXCEPT ![x] = "Ready"]
      BY <2>2, ForkFact
    <3>. QED BY <1>1, <3>1
  <2>3. CASE \E x \in Jobs : JoinBegin(p, x)
    BY <2>3, JoinBeginFact
  <2>4. CASE \E zero \in BOOLEAN : JoinReturn(p, zero)
    BY <2>4 DEF JoinReturn
  <2>5. CASE Return(p)
    BY <2>5, ReturnFact
  <2>. QED BY <1>2, <2>1, <2>2, <2>3, <2>4, <2>5, SortedSteps
<1>3. CASE LifeCycle \/ Reinit
  BY <1>3, LifeCycleFact
<1>4. CASE UNCHANGED vars
  BY <1>4 DEF vars
<1>. QED BY <1>2, <1>3, <1>4 DEF Next, Ended

\* Only a join that returns touches a counter or deletes a job.
LEMMA CounterStep ==
  ASSUME IInv, Shallow, [Next]_vars, JoinRights
  PROVE  \/ UNCHANGED <<join_counter, deleted>>
         \/ \E x \in Jobs : /\ join_counter[x] \in Nat \ {0}
                            /\ join_counter' = [join_counter EXCEPT ![x] = @ - 1]
                            /\ state[x] = "Finished"
                            /\ \/ deleted' = deleted
                               \/ x \in Smart /\ deleted' = deleted \cup {x}
<1>1. ASSUME NEW p \in VPs, Runtime(p) \/ Program(p),
             ~\E zero \in BOOLEAN : JoinReturn(p, zero)
      PROVE  UNCHANGED <<join_counter, deleted>>
  <2>1. CASE Searches(p)
    BY <2>1, SearchFact
  <2>2. CASE \E x \in Jobs : Fork(p, x)
    BY <2>2, ForkFact
  <2>3. CASE \E x \in Jobs : JoinBegin(p, x)
    BY <2>3, JoinBeginFact
  <2>4. CASE Return(p)
    BY <2>4, ReturnFact
  <2>. QED BY <1>1, <2>1, <2>2, <2>3, <2>4, SortedSteps
<1>2. ASSUME NEW p \in VPs, NEW zero \in BOOLEAN, JoinReturn(p, zero)
      PROVE  \E x \in Jobs : /\ join_counter[x] \in Nat \ {0}
                             /\ join_counter' = [join_counter EXCEPT ![x] = @ - 1]
                             /\ state[x] = "Finished"
                             /\ \/ deleted' = deleted
                                \/ x \in Smart /\ deleted' = deleted \cup {x}
  <2>1. PICK x \in Jobs :
           /\ state[x] = "Finished" /\ join_counter[x] \in Nat \ {0}
           /\ join_counter' = [join_counter EXCEPT ![x] = @ - 1]
           /\ deleted' = IF zero /\ x \in Smart THEN deleted \cup {x} ELSE deleted
    BY <1>2, JoinReturnFact
  <2>2. \/ deleted' = deleted
        \/ x \in Smart /\ deleted' = deleted \cup {x}
    BY <2>1, Zenon
  <2>. QED BY <2>1, <2>2
<1>3. CASE LifeCycle \/ Reinit
  BY <1>3, LifeCycleFact
<1>4. CASE UNCHANGED vars
  BY <1>4 DEF vars
<1>. QED BY <1>1, <1>2, <1>3, <1>4 DEF Next, Ended

\* The join that deletes a job joined once is its last.
LEMMA DeleteStep ==
  ASSUME SmartJoinedOnce, IInv, Shallow, [Next]_vars, JoinRights, DeletedByLastJoin
  PROVE  DeletedByLastJoin'
<1>1. join_counter \in [Jobs -> Uint16]
  BY DEF IInv, TypeOK
<1>. SUFFICES ASSUME NEW j \in Jobs
              PROVE  /\ join_counter'[j] <= Joins[j]
                     /\ j \in deleted' => /\ j \in Smart /\ join_counter'[j] = 0
                                          /\ state'[j] = "Finished"
  BY DEF DeletedByLastJoin
<1>2. /\ join_counter[j] \in Nat /\ Joins[j] \in Nat /\ join_counter[j] <= Joins[j]
      /\ j \in deleted => /\ j \in Smart /\ join_counter[j] = 0
                          /\ state[j] = "Finished"
  BY CounterTypes DEF DeletedByLastJoin
<1>3. CASE UNCHANGED <<join_counter, deleted>>
  BY <1>2, <1>3, FinishedStays
<1>4. ASSUME NEW x \in Jobs, join_counter[x] \in Nat \ {0},
             join_counter' = [join_counter EXCEPT ![x] = @ - 1],
             state[x] = "Finished",
             \/ deleted' = deleted
             \/ x \in Smart /\ deleted' = deleted \cup {x}
      PROVE  /\ join_counter'[j] <= Joins[j]
             /\ j \in deleted' => /\ j \in Smart /\ join_counter'[j] = 0
                                  /\ state'[j] = "Finished"
  <2>1. CASE j = x
    <3>1. join_counter'[j] = join_counter[j] - 1 /\ j \notin deleted
      BY <1>1, <1>2, <1>4, <2>1
    <3>2. j \in Smart => Joins[j] = 1
      BY DEF SmartJoinedOnce
    <3>3. join_counter'[j] <= Joins[j]
      BY <1>2, <3>1
    <3>4. j \in deleted' => j \in Smart
      BY <1>4, <2>1, <3>1
    <3>5. j \in Smart => join_counter'[j] = 0
      BY <1>2, <1>4, <2>1, <3>1, <3>2
    <3>. QED BY <1>4, <2>1, <3>3, <3>4, <3>5, FinishedStays
  <2>2. CASE j # x
    <3>1. join_counter'[j] = join_counter[j] /\ (j \in deleted' => j \in deleted)
      BY <1>1, <1>4, <2>2
    <3>. QED BY <1>2, <3>1, FinishedStays
  <2>. QED BY <2>1, <2>2
<1>. QED BY <1>3, <1>4, CounterStep

\* When the jobs that new_smart_job makes are joined once, no VP, no list and
\* no join in progress refers to a job after join_job has deleted it.
THEOREM DeletedJobsUnused ==
  ASSUME SmartJoinedOnce
  PROVE  Spec /\ []Shallow => []NoUseAfterDelete
<1>1. Init => DeletedByLastJoin
  <2>. SUFFICES ASSUME Init PROVE DeletedByLastJoin
    OBVIOUS
  <2>1. \A j \in Jobs : join_counter[j] = Joins[j] /\ Joins[j] \in Nat
    BY InitInv, CounterTypes DEF Init
  <2>. QED BY <2>1 DEF Init, DeletedByLastJoin
<1>2. IInv /\ Shallow /\ [Next]_vars /\ JoinRights /\ DeletedByLastJoin
        => DeletedByLastJoin'
  BY DeleteStep
<1>3. IInv /\ JoinRights /\ DeletedByLastJoin => NoUseAfterDelete
  <2>. SUFFICES ASSUME IInv, JoinRights, DeletedByLastJoin, NEW j \in deleted
                PROVE  ~Somewhere(j) /\ InJoin(j) = {}
    BY DEF NoUseAfterDelete
  <2>1. j \in Jobs
    BY DEF IInv, TypeOK
  <2>2. state[j] = "Finished" /\ join_counter[j] = 0
    BY <2>1 DEF DeletedByLastJoin
  <2>3. ~Somewhere(j)
    BY <2>1, <2>2 DEF IInv, EveryJobInOnePlace
  <2>4. InJoin(j) = {}
    <3>1. /\ IsFiniteSet(InJoin(j)) /\ Cardinality(InJoin(j)) \in Nat
          /\ Cardinality(InJoin(j)) <= 0
      BY <2>1, <2>2, RightsOf
    <3>2. Cardinality(InJoin(j)) = 0
      BY <3>1
    <3>. QED BY <3>1, <3>2, FS_EmptySet
  <2>. QED BY <2>3, <2>4
<1>. QED BY <1>1, <1>2, <1>3, SchedulerInvariant, RightsWithinCounters, PTL DEF Spec
-----------------------------------------------------------------------------
(* Joins and the C stack *)

\* On VP q's stack no function forked what is below it.
ForkedAbove(q) ==
    \A i \in 1 .. Len(frames[q]) : \A k \in 1 .. i :
        frames[q][k] # NULL => forker[frames[q][k]] # frames[q][i]

\* Job f was not called yet: it waits in a list or in a VP's hands.
Uncalled(f) == \E q \in VPs : f \in job_list[q] \/ (InHand(q) /\ current_job[q] = f)

\* Functions that were not called have forked nothing.
CallersFork ==
    \A j, f \in Jobs : state[j] # "New" /\ forker[j] = f => state[f] # "New" /\ ~Uncalled(f)

\* A function joins what it forked.
JoinsOwn ==
    \A f \in Fns : joining[f] # NULL =>
        forker[joining[f]] = f /\ state[joining[f]] # "New"

\* ForkersBelow in these terms.
LEMMA BelowForm == ForkersBelow <=> CallersFork /\ JoinsOwn /\ \A q \in VPs : ForkedAbove(q)
BY DEF ForkersBelow, CallersFork, Uncalled, JoinsOwn, ForkedAbove

\* The search for jobs puts no job into a list or a hand that was in none.
LEMMA SearchUncalled ==
  ASSUME IInv, NEW p \in VPs, Searches(p), NEW f \in Jobs, Uncalled(f)'
  PROVE  Uncalled(f)
<1>1. /\ TypeOK /\ HandAt(p) /\ NULL \notin Jobs
      /\ pc \in [VPs -> PCs] /\ current_job \in [VPs -> Fns]
      /\ job_list \in [VPs -> SUBSET Jobs] /\ it \in [VPs -> 0 .. N]
  BY VPAssumption DEF IInv, TypeOK
<1>2. CASE GetJob(p) \/ StealJob(p)
  <2>1. PICK v \in VPs, j \in Jobs :
          /\ j \in job_list[v]
          /\ job_list' = [job_list EXCEPT ![v] = @ \ {j}]
          /\ current_job' = [current_job EXCEPT ![p] = j]
          /\ \E c \in {"getcas", "stealcas"} : pc' = [pc EXCEPT ![p] = c]
    <3>1. PICK v \in VPs : \E j \in job_list[v] :
            /\ job_list' = [job_list EXCEPT ![v] = Extracted(@, j)]
            /\ current_job' = [current_job EXCEPT ![p] = j]
      <4>1. CASE GetJob(p)
        BY <4>1 DEF GetJob
      <4>2. CASE StealJob(p)
        <5>1. it[p] \in VPs
          BY <1>1, <4>2 DEF StealJob, TypeOK
        <5>. QED BY <4>2, <5>1 DEF StealJob
      <4>. QED BY <1>2, <4>1, <4>2
    <3>2. \E c \in {"getcas", "stealcas"} : pc' = [pc EXCEPT ![p] = c]
      BY <1>2 DEF GetJob, StealJob
    <3>3. job_list[v] \subseteq Jobs
      BY <1>1
    <3>. QED BY <3>1, <3>2, <3>3 DEF Extracted
  <2>2. \A q \in VPs : job_list'[q] \subseteq job_list[q]
    BY <1>1, <2>1
  <2>3. /\ \A q \in VPs \ {p} : pc'[q] = pc[q] /\ current_job'[q] = current_job[q]
        /\ current_job'[p] \in job_list[v]
    BY <1>1, <2>1
  <2>. QED BY <2>2, <2>3 DEF Uncalled, InHand
<1>3. CASE GetNothing(p) \/ StealNothing(p) \/ IdleAdd(p)
  <2>1. /\ current_job'[p] = NULL /\ job_list' = job_list
        /\ \A q \in VPs \ {p} : pc'[q] = pc[q] /\ current_job'[q] = current_job[q]
    <3>1. CASE GetNothing(p)
      BY <1>1, <3>1 DEF GetNothing, ScanFrom
    <3>2. CASE StealNothing(p)
      BY <1>1, <3>2 DEF StealNothing, ScanFrom, HandAt
    <3>3. CASE IdleAdd(p)
      BY <1>1, <3>3 DEF IdleAdd, ScanFrom, HandAt
    <3>. QED BY <1>3, <3>1, <3>2, <3>3
  <2>. QED BY <1>1, <2>1 DEF Uncalled, InHand
<1>4. CASE GetCas(p) \/ StealCas(p) \/ IdleSub(p)
  <2>1. /\ UNCHANGED <<current_job, job_list>>
        /\ \E c \in {"user", "sub", "get"} : pc' = [pc EXCEPT ![p] = c]
        /\ pc[p] = "sub" => \E c \in {"user", "get"} : pc' = [pc EXCEPT ![p] = c]
        /\ pc[p] \in {"getcas", "stealcas", "sub"}
    BY <1>4 DEF GetCas, StealCas, IdleSub, CallFunction
  <2>2. /\ \A q \in VPs \ {p} : pc'[q] = pc[q]
        /\ InHand(p)' => InHand(p)
    BY <1>1, <2>1 DEF InHand
  <2>. QED BY <2>1, <2>2 DEF Uncalled, InHand
<1>5. CASE \/ Suspend(p) \/ Restore(p) \/ JoinCheck(p) \/ JoinRead(p) \/ Finish(p)
           \/ ExitValue(p)
  <2>1. /\ job_list' = job_list
        /\ \A q \in VPs \ {p} : pc'[q] = pc[q] /\ current_job'[q] = current_job[q]
        /\ pc'[p] \in {"get", "check", "read", "dec", "restore", "user"}
    <3>1. CASE Suspend(p) \/ Restore(p)
      BY <1>1, <3>1 DEF Suspend, Restore
    <3>2. CASE JoinCheck(p) \/ JoinRead(p)
      BY <1>1, <3>2 DEF JoinCheck, JoinRead, privVars
    <3>3. CASE Finish(p)
      <4>1. /\ UNCHANGED <<job_list, current_job>>
            /\ \E c \in {"get", "restore", "user"} : pc' = [pc EXCEPT ![p] = c]
        BY <3>3 DEF Finish
      <4>. QED BY <1>1, <4>1
    <3>4. CASE ExitValue(p)
      BY <1>1, <3>4 DEF ExitValue, privVars
    <3>. QED BY <1>5, <3>1, <3>2, <3>3, <3>4
  <2>. QED BY <2>1 DEF Uncalled, InHand
<1>. QED BY <1>2, <1>3, <1>4, <1>5 DEF Searches

\* Nor does any other step but the job's fork.
LEMMA UncalledStep ==
  ASSUME IInv, Shallow, [Next]_vars, NEW f \in Jobs, Uncalled(f)'
  PROVE  Uncalled(f) \/ state[f] = "New"
<1>1. /\ pc \in [VPs -> PCs] /\ job_list \in [VPs -> SUBSET Jobs] /\ 0 \in VPs
  BY VPFact DEF IInv, TypeOK
<1>2. ASSUME NEW p \in VPs, NEW x \in Jobs, Fork(p, x)
      PROVE  Uncalled(f) \/ state[f] = "New"
  <2>1. /\ state[x] = "New" /\ UNCHANGED <<pc, current_job>>
        /\ job_list' = [job_list EXCEPT ![p] = @ \cup {x}]
    BY <1>2, ForkFact
  <2>2. \A q \in VPs : job_list'[q] \subseteq job_list[q] \cup {x}
    BY <1>1, <2>1
  <2>. QED BY <2>1, <2>2 DEF Uncalled, InHand
<1>3. ASSUME NEW p \in VPs, \/ \E x \in Jobs : JoinBegin(p, x)
                            \/ \E zero \in BOOLEAN : JoinReturn(p, zero)
                            \/ Return(p)
      PROVE  Uncalled(f)
  <2>1. /\ UNCHANGED <<job_list, current_job>>
        /\ \E c \in {"check", "user", "return"} : pc' = [pc EXCEPT ![p] = c]
    BY <1>3 DEF JoinBegin, JoinReturn, Return, privVars
  <2>2. /\ \A q \in VPs \ {p} : pc'[q] = pc[q]
        /\ ~InHand(p)'
    BY <1>1, <2>1 DEF InHand
  <2>. QED BY <2>1, <2>2 DEF Uncalled, InHand
<1>4. ASSUME LifeCycle PROVE Uncalled(f)
  <2>1. \A q \in VPs : InHand(q)' => InHand(q) /\ current_job'[q] = current_job[q]
    <3>1. CASE CreateThread
      <4>1. pc' = [pc EXCEPT ![it[0]] = "get"] /\ current_job' = current_job
        BY <3>1 DEF CreateThread
      <4>. QED BY <1>1, <4>1 DEF InHand
    <3>2. CASE StartMain
      BY <1>1, <3>2 DEF StartMain, InHand
    <3>3. CASE Terminate
      <4>1. /\ pc' = [pc EXCEPT ![0] = "get"]
            /\ current_job' = [current_job EXCEPT ![0] = NULL]
        BY <3>3 DEF Terminate
      <4>2. \A q \in VPs \ {0} : pc'[q] = pc[q] /\ current_job'[q] = current_job[q]
        BY <4>1 DEF IInv, TypeOK
      <4>3. pc'[0] = "get"
        BY <1>1, <4>1
      <4>. QED BY <4>2, <4>3 DEF InHand
    <3>4. CASE JoinThreads
      BY <1>1, <3>4 DEF JoinThreads, privVars, InHand
    <3>. QED BY <1>4, <3>1, <3>2, <3>3, <3>4 DEF LifeCycle
  <2>2. job_list' = job_list
    BY <1>4 DEF LifeCycle, CreateThread, StartMain, Terminate, JoinThreads
  <2>. QED BY <2>1, <2>2 DEF Uncalled
<1>5. CASE Reinit
  BY <1>5 DEF Reinit, Uncalled, InHand
<1>6. CASE UNCHANGED vars
  BY <1>6 DEF vars, Uncalled, InHand
<1>7. ASSUME NEW p \in VPs, Runtime(p) \/ Program(p)
      PROVE  Uncalled(f) \/ state[f] = "New"
  BY <1>2, <1>3, <1>7, SearchUncalled, SortedSteps
<1>. QED BY <1>4, <1>5, <1>6, <1>7 DEF Next, Ended

\* What a step does to forks and joins.
ProgramStep ==
    /\ \A j \in Jobs : state[j] # "New" => state'[j] # "New" /\ forker'[j] = forker[j]
    /\ \A j \in Jobs : state[j] = "New" /\ state'[j] # "New" =>
          \E p \in VPs : frames[p] # <<>> /\ forker'[j] = Fn(p)
    /\ \A f \in Fns : joining'[f] # NULL =>
          \/ joining'[f] = joining[f]
          \/ /\ joining'[f] \in Jobs /\ state[joining'[f]] # "New"
             /\ f \in Joiners[joining'[f]] \cup {forker[joining'[f]]}

\* Every step is such a step.
LEMMA ProgramSteps ==
  ASSUME IInv, Shallow, [Next]_vars
  PROVE  ProgramStep
<1>1. /\ state \in [Jobs -> {"New", "Ready", "Running", "Finished"}]
      /\ forker \in [Jobs -> Fns] /\ joining \in [Fns -> Fns]
  BY DEF IInv, TypeOK
<1>2. ASSUME StateStep, UNCHANGED <<forker, joining>>
      PROVE  ProgramStep
  BY <1>1, <1>2 DEF StateStep, ProgramStep
<1>3. ASSUME NEW p \in VPs, Runtime(p) \/ Program(p)
      PROVE  ProgramStep
  <2>1. CASE Searches(p)
    BY <1>2, <2>1, SearchFact
  <2>2. CASE \E x \in Jobs : Fork(p, x)
    <3>1. PICK x \in Jobs : /\ frames[p] # <<>> /\ state[x] = "New"
                            /\ state' = [state EXCEPT ![x] = "Ready"]
                            /\ forker' = [forker EXCEPT ![x] = Fn(p)]
                            /\ joining' = joining
      BY <2>2, ForkFact
    <3>2. /\ forker'[x] = Fn(p) /\ \A j \in Jobs \ {x} : forker'[j] = forker[j]
          /\ \A j \in Jobs \ {x} : state'[j] = state[j]
      BY <1>1, <3>1
    <3>. QED BY <3>1, <3>2 DEF ProgramStep
  <2>3. CASE \E x \in Jobs : JoinBegin(p, x)
    <3>1. PICK x \in Jobs : /\ Fn(p) \in Fns /\ state[x] # "New"
                            /\ Fn(p) \in Joiners[x] \cup {forker[x]}
                            /\ joining' = [joining EXCEPT ![Fn(p)] = x]
                            /\ UNCHANGED <<state, forker>>
      BY <2>3, JoinBeginFact
    <3>2. joining'[Fn(p)] = x /\ \A f \in Fns \ {Fn(p)} : joining'[f] = joining[f]
      BY <1>1, <3>1
    <3>. QED BY <3>1, <3>2 DEF ProgramStep
  <2>4. CASE \E zero \in BOOLEAN : JoinReturn(p, zero)
    <3>1. /\ joining' = [joining EXCEPT ![Fn(p)] = NULL]
          /\ UNCHANGED <<state, forker>>
      BY <2>4 DEF JoinReturn
    <3>. QED BY <1>1, <3>1 DEF ProgramStep
  <2>5. CASE Return(p)
    BY <1>2, <2>5, ReturnFact DEF StateStep
  <2>. QED BY <1>3, <2>1, <2>2, <2>3, <2>4, <2>5, SortedSteps
<1>4. CASE LifeCycle \/ Reinit
  BY <1>2, <1>4, LifeCycleFact DEF StateStep
<1>5. CASE UNCHANGED vars
  BY <1>2, <1>5 DEF vars, StateStep
<1>. QED BY <1>3, <1>4, <1>5 DEF Next, Ended

\* Only a function on top of a stack forks, and it is in no list or hand.
LEMMA CallersForkStep ==
  ASSUME IInv, Shallow, [Next]_vars, CallersFork
  PROVE  CallersFork'
<1>. SUFFICES ASSUME NEW j \in Jobs, NEW f \in Jobs, state'[j] # "New", forker'[j] = f
              PROVE  state'[f] # "New" /\ ~Uncalled(f)'
  BY DEF CallersFork
<1>1. ProgramStep
  BY ProgramSteps
<1>. SUFFICES state[f] # "New" /\ ~Uncalled(f)
  BY <1>1, UncalledStep DEF ProgramStep
<1>2. CASE state[j] # "New"
  BY <1>1, <1>2 DEF ProgramStep, CallersFork
<1>3. CASE state[j] = "New"
  <2>1. PICK p \in VPs : frames[p] # <<>> /\ Fn(p) = f
    BY <1>1, <1>3 DEF ProgramStep
  <2>2. f # NULL
    BY VPAssumption
  <2>3. state[f] = "Running"
    BY <2>1, <2>2, TopFact
  <2>4. At(f, p, Len(frames[p])) /\ Len(frames[p]) \in Int /\ Len(frames[p]) > 0
    <3>1. /\ f = frames[p][Len(frames[p])] /\ Len(frames[p]) \in 1 .. Len(frames[p])
          /\ Len(frames[p]) \in Nat
      BY <2>1, TopOnVP, SeqTypes DEF IInv
    <3>. QED BY <3>1 DEF At
  <2>5. ASSUME Uncalled(f) PROVE FALSE
    <3>1. PICK q \in VPs : At(f, q, 0) \/ At(f, q, -1)
      BY <2>5 DEF Uncalled, At
    <3>. QED BY <2>4, <3>1, OnePlace
  <2>. QED BY <2>3, <2>5
<1>. QED BY <1>2, <1>3

\* A function joins what it forked when no other has a pointer.
LEMMA JoinsOwnStep ==
  ASSUME OnlyForkersJoin, IInv, Shallow, [Next]_vars, JoinsOwn
  PROVE  JoinsOwn'
<1>. SUFFICES ASSUME NEW f \in Fns, joining'[f] # NULL
              PROVE  forker'[joining'[f]] = f /\ state'[joining'[f]] # "New"
  BY DEF JoinsOwn
<1>1. ProgramStep
  BY ProgramSteps
<1>2. /\ joining'[f] \in Jobs
      /\ forker[joining'[f]] = f /\ state[joining'[f]] # "New"
  <2>1. CASE joining'[f] = joining[f]
    BY <2>1 DEF JoinsOwn, IInv, TypeOK, Fns
  <2>2. CASE joining'[f] # joining[f]
    BY <1>1, <2>2 DEF ProgramStep, OnlyForkersJoin
  <2>. QED BY <2>1, <2>2
<1>. QED BY <1>1, <1>2 DEF ProgramStep

\* A stack that does not change, or loses its top, keeps the order.
LEMMA SameAbove ==
  ASSUME IInv, ProgramStep, NEW q \in VPs, ForkedAbove(q), Len(frames'[q]) \in Nat,
         Len(frames'[q]) <= Len(frames[q]),
         \A i \in 1 .. Len(frames'[q]) : frames'[q][i] = frames[q][i]
  PROVE  ForkedAbove(q)'
<1>. SUFFICES ASSUME NEW i \in 1 .. Len(frames'[q]), NEW k \in 1 .. i, frames[q][k] # NULL
              PROVE  forker'[frames[q][k]] # frames[q][i]
  <2>1. \A i \in 1 .. Len(frames'[q]) : \A k \in 1 .. i : k \in 1 .. Len(frames'[q])
    OBVIOUS
  <2>. QED BY <2>1 DEF ForkedAbove
<1>1. /\ Len(frames[q]) \in Nat /\ i \in 1 .. Len(frames[q])
      /\ k \in 1 .. Len(frames[q]) /\ frames[q][k] \in Fns
  BY SeqTypes DEF IInv
<1>2. frames[q][k] \in Jobs /\ state[frames[q][k]] = "Running"
  BY <1>1 DEF IInv, ResultAt, Fns
<1>3. forker[frames[q][k]] # frames[q][i]
  BY <1>1 DEF ForkedAbove
<1>. QED BY <1>2, <1>3 DEF ProgramStep

\* The job that a VP calls has forked nothing yet, so nothing below it.
LEMMA CallAbove ==
  ASSUME IInv, ProgramStep, NEW p \in VPs, CallersFork, ForkedAbove(p), InHand(p),
         frames'[p] = Append(frames[p], current_job[p])
  PROVE  ForkedAbove(p)'
<1>. DEFINE x == current_job[p]
<1>1. /\ x \in Jobs /\ x \in Fns /\ Pending(x) /\ Uncalled(x)
      /\ frames[p] \in Seq(Fns) /\ Len(frames[p]) \in Nat
  BY InHandFact, SeqTypes DEF Fns, Uncalled, IInv
<1>. HIDE DEF x
<1>2. /\ Len(frames'[p]) = Len(frames[p]) + 1
      /\ \A i \in 1 .. Len(frames[p]) : frames'[p][i] = frames[p][i]
      /\ frames'[p][Len(frames[p]) + 1] = x
  BY <1>1, AppendProperties DEF x
<1>3. ASSUME NEW i \in 1 .. Len(frames'[p]), NEW k \in 1 .. i, frames'[p][k] # NULL
      PROVE  forker'[frames'[p][k]] # frames'[p][i]
  <2>1. /\ i \in 1 .. Len(frames[p]) \/ i = Len(frames[p]) + 1
        /\ k \in 1 .. Len(frames[p]) \/ (k = Len(frames[p]) + 1 /\ i = k)
    BY <1>1, <1>2
  <2>2. frames'[p][k] \in Jobs /\ state[frames'[p][k]] # "New"
    <3>1. CASE k \in 1 .. Len(frames[p])
      <4>1. frames'[p][k] = frames[p][k] /\ frames[p][k] \in Fns
        BY <1>2, <3>1, SeqTypes DEF IInv
      <4>. QED BY <1>3, <3>1, <4>1 DEF IInv, ResultAt, Fns
    <3>2. CASE k = Len(frames[p]) + 1
      BY <1>1, <1>2, <3>2 DEF Pending
    <3>. QED BY <2>1, <3>1, <3>2
  <2>3. forker'[frames'[p][k]] = forker[frames'[p][k]]
    BY <2>2 DEF ProgramStep
  <2>4. CASE i = Len(frames[p]) + 1
    <3>1. frames'[p][i] = x
      BY <1>2, <2>4
    <3>. QED BY <1>1, <2>2, <2>3, <3>1 DEF CallersFork
  <2>5. CASE i \in 1 .. Len(frames[p])
    <3>1. k \in 1 .. Len(frames[p])
      BY <1>1, <2>5
    <3>2. frames'[p][i] = frames[p][i] /\ frames'[p][k] = frames[p][k]
      BY <1>2, <2>5, <3>1
    <3>. QED BY <1>3, <2>3, <2>5, <3>2 DEF ForkedAbove
  <2>. QED BY <2>1, <2>4, <2>5
<1>. QED BY <1>3 DEF ForkedAbove

\* Every step keeps the order on every stack.
LEMMA AboveStep ==
  ASSUME IInv, Shallow, [Next]_vars, CallersFork, NEW q \in VPs, ForkedAbove(q)
  PROVE  ForkedAbove(q)'
<1>1. /\ ProgramStep /\ frames[q] \in Seq(Fns) /\ Len(frames[q]) \in Nat
      /\ frames \in [VPs -> Seq(Fns)] /\ 0 \in VPs
  BY ProgramSteps, SeqTypes, VPFact DEF IInv, TypeOK
<1>2. CASE frames'[q] = frames[q]
  BY <1>1, <1>2, SameAbove
<1>3. ASSUME NEW p \in VPs, ControlOf(p) PROVE ForkedAbove(q)'
  <2>1. CASE q # p
    BY <1>2, <1>3, <2>1 DEF ControlOf
  <2>2. CASE q = p /\ InHand(p) /\ frames'[p] = Append(frames[p], current_job[p])
    BY <1>1, <2>2, CallAbove
  <2>3. CASE q = p /\ frames[p] # <<>> /\ frames'[p] = Pop(frames[p])
    <3>1. /\ Len(frames'[q]) = Len(frames[q]) - 1
          /\ \A i \in 1 .. Len(frames[q]) - 1 : frames'[q][i] = frames[q][i]
      <4>1. frames[q] # <<>> /\ frames'[q] = Pop(frames[q])
        BY <2>3
      <4>. QED BY <1>1, <4>1, PopFact
    <3>2. Len(frames[q]) # 0
      BY <1>1, <2>3, EmptySeq
    <3>. QED BY <1>1, <3>1, <3>2, SameAbove
  <2>. QED BY <1>2, <1>3, <2>1, <2>2, <2>3 DEF ControlOf, StackStep
<1>4. CASE LifeCycle
  <2>1. frames'[q] \in {frames[q], <<>>, <<NULL>>}
    <3>1. CASE CreateThread \/ JoinThreads
      BY <3>1 DEF CreateThread, JoinThreads, privVars
    <3>2. CASE StartMain \/ Terminate
      BY <1>1, <3>2 DEF StartMain, Terminate
    <3>. QED BY <1>4, <3>1, <3>2 DEF LifeCycle
  <2>2. CASE frames'[q] = <<>>
    BY <2>2 DEF ForkedAbove
  <2>3. CASE frames'[q] = <<NULL>>
    <3>1. \A i \in 1 .. Len(frames'[q]) : \A k \in 1 .. i : frames'[q][k] = NULL
      BY <2>3
    <3>. QED BY <3>1 DEF ForkedAbove
  <2>. QED BY <1>2, <2>1, <2>2, <2>3
<1>5. CASE Reinit
  <2>1. frames'[q] = <<>>
    BY <1>5 DEF Reinit
  <2>. QED BY <2>1 DEF ForkedAbove
<1>6. CASE UNCHANGED vars
  BY <1>2, <1>6 DEF vars
<1>. QED BY <1>3, <1>4, <1>5, <1>6, ControlStep DEF Next, Ended

\* When each job is joined by the function that forked it and by no other, no
\* function ever joins a job below it on its VP's stack, so however
\* suspend_current_job_and_run_another stacks jobs it never buries the job that
\* a join waits for under the join itself.
THEOREM JoinsNotBuried ==
  ASSUME OnlyForkersJoin
  PROVE  Spec /\ []Shallow => []NotBuried
<1>1. Init => ForkersBelow
  <2>. SUFFICES ASSUME Init PROVE CallersFork /\ JoinsOwn /\ \A q \in VPs : ForkedAbove(q)
    BY BelowForm
  <2>1. \A q \in VPs : Len(frames[q]) = 0
    BY DEF Init
  <2>. QED BY <2>1 DEF Init, CallersFork, JoinsOwn, ForkedAbove
<1>2. IInv /\ Shallow /\ [Next]_vars /\ ForkersBelow => ForkersBelow'
  <2>. SUFFICES ASSUME IInv, Shallow, [Next]_vars, ForkersBelow
                PROVE  (CallersFork /\ JoinsOwn /\ \A q \in VPs : ForkedAbove(q))'
    BY BelowForm DEF ForkersBelow, CallersFork, Uncalled, JoinsOwn, ForkedAbove
  <2>1. CallersFork /\ JoinsOwn /\ \A q \in VPs : ForkedAbove(q)
    BY BelowForm
  <2>. QED BY <2>1, CallersForkStep, JoinsOwnStep, AboveStep
<1>3. IInv /\ ForkersBelow => NotBuried
  <2>. SUFFICES ASSUME IInv, JoinsOwn, NEW p \in VPs, ForkedAbove(p),
                       NEW i \in 1 .. Len(frames[p]), NEW k \in 1 .. i,
                       joining[frames[p][i]] # NULL, frames[p][k] = joining[frames[p][i]]
                PROVE  FALSE
    BY BelowForm DEF NotBuried
  <2>1. frames[p][i] \in Fns
    BY SeqTypes DEF IInv
  <2>2. forker[frames[p][k]] = frames[p][i]
    BY <2>1 DEF JoinsOwn
  <2>. QED BY <2>2 DEF ForkedAbove
<1>. QED BY <1>1, <1>2, <1>3, SchedulerInvariant, PTL DEF Spec

-----------------------------------------------------------------------------
(* Programs of few jobs *)

\* A function is on the stacks of all VPs together at most once.
LEMMA StackHasNoRepeats ==
  ASSUME IInv, NEW p \in VPs, NEW i \in 1 .. Len(frames[p]), NEW k \in 1 .. Len(frames[p]),
         frames[p][i] = frames[p][k]
  PROVE  i = k
<1>1. /\ Len(frames[p]) \in Nat /\ frames[p][i] \in Fns
      /\ i \in -1 .. Len(frames[p]) /\ k \in -1 .. Len(frames[p])
  BY SeqTypes DEF IInv
<1>2. CASE frames[p][i] = NULL
  <2>1. \A m \in 1 .. Len(frames[p]) : frames[p][m] = NULL => m = 1
    BY DEF IInv, ShapeAt
  <2>2. i = 1 /\ k = 1
    BY <1>2, <2>1
  <2>. QED BY <2>2
<1>3. CASE frames[p][i] # NULL
  <2>1. PICK j \in Jobs : j = frames[p][i]
    BY <1>1, <1>3 DEF Fns
  <2>2. At(j, p, i) /\ At(j, p, k)
    BY <2>1 DEF At
  <2>. QED BY <1>1, <2>1, <2>2 DEF IInv, EveryJobInOnePlace, NowhereElse
<1>. QED BY <1>2, <1>3

\* So a stack is no longer than all jobs and main() together.
LEMMA StackBound ==
  ASSUME IInv, IsFiniteSet(Jobs), NEW p \in VPs
  PROVE  Cardinality(Jobs) \in Nat /\ Len(frames[p]) <= Cardinality(Jobs) + 1
<1>1. Cardinality(Jobs) \in Nat
  BY FS_CardinalityType
<1>2. IsFiniteSet(Fns) /\ Cardinality(Fns) = Cardinality(Jobs) + 1
  BY FS_AddElement, VPAssumption DEF Fns
<1>3. PICK n \in Nat : n = Len(frames[p])
  BY SeqTypes DEF IInv
<1>4. PICK f : f = [i \in 1 .. n |-> frames[p][i]]
  OBVIOUS
<1>5. f \in [1 .. n -> Fns]
  BY <1>3, <1>4, SeqTypes DEF IInv
<1>6. \A i, k \in 1 .. n : f[i] = f[k] => i = k
  BY <1>3, <1>4, StackHasNoRepeats
<1>7. f \in Injection(1 .. n, Fns)
  BY <1>5, <1>6 DEF Injection, IsInjective
<1>8. Cardinality(1 .. n) <= Cardinality(Fns)
  BY <1>2, <1>7, FS_Injection
<1>9. Cardinality(1 .. n) = n
  <2>1. 1 \in Int /\ n \in Int
    OBVIOUS
  <2>2. Cardinality(1 .. n) = IF 1 > n THEN 0 ELSE n - 1 + 1
    BY <2>1, FS_Interval
  <2>. QED BY <2>2
<1>. QED BY <1>1, <1>2, <1>3, <1>8, <1>9

\* With fewer jobs than the limit fork_job never meets it.
LEMMA FewJobsStep ==
  ASSUME FewJobs, IInv
  PROVE  Shallow
<1>. SUFFICES ASSUME NEW p \in VPs PROVE Len(context_stack[p]) <= ContextLimit
  BY DEF Shallow
<1>1. Cardinality(Jobs) \in Nat /\ Len(frames[p]) <= Cardinality(Jobs) + 1
  BY StackBound DEF FewJobs
<1>2. Cardinality(Jobs) < ContextLimit /\ ContextLimit \in Nat
  BY VPAssumption DEF FewJobs
<1>3. Len(context_stack[p]) <= Len(frames[p])
      /\ Len(frames[p]) \in Nat /\ Len(context_stack[p]) \in Nat
  <2>1. /\ frames[p] \in Seq(Fns) /\ Len(frames[p]) \in Nat
        /\ Len(context_stack[p]) \in Nat
    BY SeqTypes DEF IInv
  <2>2. CASE pc[p] \in InFunction
    <3>1. frames[p] # <<>> /\ context_stack[p] = Pop(frames[p])
      BY <2>2 DEF IInv, ShapeAt, ContextAt
    <3>2. Len(Pop(frames[p])) = Len(frames[p]) - 1
      BY <2>1, <3>1, PopFact
    <3>. QED BY <2>1, <3>1, <3>2
  <2>3. CASE pc[p] \notin InFunction
    <3>1. context_stack[p] = frames[p]
      BY <2>3 DEF IInv, ContextAt
    <3>. QED BY <2>1, <3>1
  <2>. QED BY <2>2, <2>3
<1>. QED BY <1>1, <1>2, <1>3

\* The hypothesis of the theorems above follows from one about a constant: a
\* program of fewer jobs than fork_job's limit (10000) stays below it on every
\* VP, because the suspended functions of a VP are different ones.
THEOREM FewJobsAreShallow == ASSUME FewJobs PROVE Spec => []Shallow
<1>1. Init => IInv
  BY InitInv
<1>2. IInv => Shallow
  BY FewJobsStep
<1>3. IInv /\ Shallow /\ [Next]_vars => IInv'
  BY NextInv
<1>. QED BY <1>1, <1>2, <1>3, PTL DEF Spec

\* What vp_safety and vp_nested check of any program.
SchedulerSafe ==
    /\ EveryJobInOnePlace
    /\ ContextMatchesStack
    /\ IdleCountExact
    /\ NoVPLeavesBeforeTerminate
    /\ NothingLeftBehind

\* The scheduler keeps all its promises to a program of fewer jobs than the
\* limit: jobs stay in one place, contexts match the stack, joins read results
\* when they are final, idle_vps is exact, and VPs leave run() only after
\* terminate, with nothing left behind.
THEOREM SafeForFewJobs == ASSUME FewJobs PROVE Spec => []SchedulerSafe /\ JoinReadsFinalResult
<1>1. (/\ EveryJobInOnePlace /\ ContextMatchesStack /\ IdleCountExact
       /\ NoVPLeavesBeforeTerminate /\ NothingLeftBehind) => SchedulerSafe
  BY DEF SchedulerSafe
<1>. QED BY <1>1, FewJobsAreShallow, JobsInOnePlace, ContextsMatch, JoinsReadResults,
            IdleCountCorrect, TerminationNotPremature, TerminationClean, PTL

\* fork, join and terminate do what ForkJoin promises to a program of fewer jobs
\* than the limit, in its first session.
THEOREM PromiseForFewJobs ==
  ASSUME FewJobs, Sessions = 1
  PROVE  Spec => ImplementsForkJoin
<1>. QED BY FewJobsAreShallow, KeepsPromise, PTL
=============================================================================
