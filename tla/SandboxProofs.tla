--------------------------- MODULE SandboxProofs ---------------------------
(***************************************************************************)
(* Proofs about the stand-alone programs, for all values of the constants. *)
(*                                                                         *)
(* main_loop stops by counting the VPs that wait, and a VP that was woken  *)
(* counts until it has the mutex again: MLInv says what the count then     *)
(* means.  In atomic_decrement the one token says whose turn it is, and    *)
(* with compare and swap each of two threads only ever makes the move that *)
(* the other one cannot undo behind its back: PairInv.  freq_change either *)
(* changes all CPUs of a unit or none, UnitInv, and with sane tables the   *)
(* speed of a unit is an entry of its table that the levels find again:    *)
(* FreqInv.                                                                *)
(***************************************************************************)
EXTENDS Sandbox, FiniteSetTheorems, SequenceTheorems, WellFoundedInduction, TLAPS

-----------------------------------------------------------------------------
(* main_loop: the invariant *)

MLStates == {"new", "loop", "run", "waiting", "woken", "ended"}

MLTypeOK ==
    /\ pc \in [ML!VPs -> MLStates]
    /\ task_list \in Seq(ML!Costs)
    /\ vps_waiting \in Int
    /\ program_finished \in BOOLEAN
    /\ started \in 0 .. num_vps

\* The VPs that are in pthread_cond_wait, told or not.
Asleep == {p \in ML!VPs : pc[p] \in {"waiting", "woken"}}

\* main creates the threads in order.
CreatedInOrder == \A p \in ML!VPs : pc[p] = "new" <=> p > started

\* vps_waiting is the number of VPs asleep.  The one that ended the program
\* counted itself and has not slept.
WaitingExact ==
    vps_waiting = Cardinality(Asleep) + (IF program_finished THEN 1 ELSE 0)

\* A VP leaves only a finished program, in which nobody sleeps unaware; before
\* that, somebody is awake.
SleepersTold ==
    /\ program_finished => \A p \in ML!VPs : pc[p] # "waiting"
    /\ ~program_finished => Cardinality(Asleep) < num_vps
    /\ ~program_finished => \A p \in ML!VPs : pc[p] # "ended"

MLInv ==
    MLTypeOK /\ CreatedInOrder /\ WaitingExact /\ SleepersTold /\ ML!FinishedMeansDone

\* main has a thread to create, a VP has a step to take, or all have ended: no
\* order of waits, broadcasts and spurious returns leaves main_loop stuck.
SomebodyCanMove ==
    \/ started < num_vps
    \/ \E p \in ML!VPs : pc[p] \in {"loop", "run", "woken"}
    \/ ML!AllEnded
-----------------------------------------------------------------------------
(* main_loop: the sleepers *)

\* The VPs that sleep are finitely many.
LEMMA AsleepFinite ==
  ASSUME num_vps \in Nat
  PROVE  /\ IsFiniteSet(ML!VPs) /\ Cardinality(ML!VPs) = num_vps
         /\ IsFiniteSet(Asleep) /\ Cardinality(Asleep) \in Nat
<1>1. IsFiniteSet(ML!VPs) /\ Cardinality(ML!VPs) = num_vps
  BY FS_Interval DEF ML!VPs
<1>2. Asleep \subseteq ML!VPs
  BY DEF Asleep
<1>. QED BY <1>1, <1>2, FS_Subset, FS_CardinalityType

\* When all but one of the VPs sleep, that one is the only one awake.
LEMMA OnlyOneAwake ==
  ASSUME num_vps \in Nat, NEW p \in ML!VPs, p \notin Asleep,
         Cardinality(Asleep) = num_vps - 1
  PROVE  Asleep = ML!VPs \ {p}
<1>1. /\ IsFiniteSet(ML!VPs \ {p})
      /\ Cardinality(ML!VPs \ {p}) = num_vps - 1
  BY AsleepFinite, FS_RemoveElement
<1>2. Asleep \subseteq ML!VPs \ {p}
  BY DEF Asleep
<1>. QED BY <1>1, <1>2, FS_Subset

\* Nobody goes to sleep and nobody gets up.
LEMMA SameAsleep ==
  ASSUME \A q \in ML!VPs : pc'[q] \in {"waiting", "woken"} <=> pc[q] \in {"waiting", "woken"}
  PROVE  Asleep' = Asleep
  BY DEF Asleep, ML!VPs

\* A step that neither puts a VP to sleep nor gets one up, nor ends the program.
LEMMA CountKept ==
  ASSUME WaitingExact, UNCHANGED <<vps_waiting, program_finished>>,
         \A q \in ML!VPs : pc'[q] \in {"waiting", "woken"} <=> pc[q] \in {"waiting", "woken"}
  PROVE  WaitingExact' /\ Asleep' = Asleep
<1>1. Asleep' = Asleep
  BY SameAsleep
<1>. QED BY <1>1 DEF WaitingExact

\* One VP goes to sleep.
LEMMA OneMoreAsleep ==
  ASSUME num_vps \in Nat, NEW p \in ML!VPs, p \notin Asleep, Asleep' = Asleep \cup {p}
  PROVE  Cardinality(Asleep') = Cardinality(Asleep) + 1
  BY AsleepFinite, FS_AddElement

\* One VP gets up.
LEMMA OneLessAsleep ==
  ASSUME num_vps \in Nat, NEW p \in Asleep, Asleep' = Asleep \ {p}
  PROVE  Cardinality(Asleep') = Cardinality(Asleep) - 1
  BY AsleepFinite, FS_RemoveElement

-----------------------------------------------------------------------------
(* main_loop: the actions *)

LEMMA CreateVPInv ==
  ASSUME num_vps \in Nat, MLInv, ML!CreateVP
  PROVE  MLInv'
<1>. USE DEF MLInv, MLTypeOK
<1>. DEFINE n == started + 1
<1>1. /\ n \in ML!VPs /\ n > started /\ started' = n /\ n \in 0 .. num_vps
      /\ pc' = [pc EXCEPT ![n] = "loop"]
      /\ UNCHANGED <<task_list, vps_waiting, program_finished>>
  BY DEF ML!CreateVP, ML!VPs
<1>2. pc[n] = "new"
  BY <1>1 DEF CreatedInOrder
<1>3. ~program_finished
  BY <1>1, <1>2 DEF ML!FinishedMeansDone
<1>4. MLTypeOK'
  BY <1>1 DEF MLStates, ML!VPs
<1>5. CreatedInOrder'
  BY <1>1 DEF CreatedInOrder, ML!VPs
<1>6. \A q \in ML!VPs : pc'[q] = IF q = n THEN "loop" ELSE pc[q]
  BY <1>1
<1>7. WaitingExact' /\ Asleep' = Asleep
  <2>1. \A q \in ML!VPs : pc'[q] \in {"waiting", "woken"} <=> pc[q] \in {"waiting", "woken"}
    BY <1>2, <1>6
  <2>. QED BY <1>1, <2>1, CountKept
<1>8. SleepersTold'
  BY <1>1, <1>3, <1>6, <1>7 DEF SleepersTold, ML!VPs
<1>9. ML!FinishedMeansDone'
  BY <1>1, <1>3 DEF ML!FinishedMeansDone
<1>. QED BY <1>4, <1>5, <1>7, <1>8, <1>9

\* A VP that finds the program finished leaves.
LEMMA LeaveInv ==
  ASSUME num_vps \in Nat, MLInv, NEW p \in ML!VPs, pc[p] = "loop", program_finished,
         pc' = [pc EXCEPT ![p] = "ended"],
         UNCHANGED <<task_list, vps_waiting, program_finished, started>>
  PROVE  MLInv'
<1>. USE DEF MLInv, MLTypeOK
<1>1. \A q \in ML!VPs : pc'[q] = IF q = p THEN "ended" ELSE pc[q]
  OBVIOUS
<1>2. MLTypeOK'
  BY DEF MLStates, ML!VPs
<1>3. CreatedInOrder'
  BY <1>1 DEF CreatedInOrder, ML!VPs
<1>4. WaitingExact'
  <2>1. \A q \in ML!VPs : pc'[q] \in {"waiting", "woken"} <=> pc[q] \in {"waiting", "woken"}
    BY <1>1
  <2>. QED BY <2>1, CountKept
<1>5. SleepersTold' /\ ML!FinishedMeansDone'
  BY <1>1 DEF SleepersTold, ML!FinishedMeansDone, ML!VPs
<1>. QED BY <1>2, <1>3, <1>4, <1>5

\* A VP takes a task from the list.
LEMMA TakeInv ==
  ASSUME num_vps \in Nat, MLInv, NEW p \in ML!VPs, pc[p] = "loop", ~program_finished,
         task_list # <<>>, task_list' = Tail(task_list),
         pc' = [pc EXCEPT ![p] = "run"],
         UNCHANGED <<vps_waiting, program_finished, started>>
  PROVE  MLInv'
<1>. USE DEF MLInv, MLTypeOK
<1>1. \A q \in ML!VPs : pc'[q] = IF q = p THEN "run" ELSE pc[q]
  OBVIOUS
<1>2. MLTypeOK'
  <2>1. task_list' \in Seq(ML!Costs)
    BY HeadTailProperties
  <2>. QED BY <2>1 DEF MLStates, ML!VPs
<1>3. CreatedInOrder'
  BY <1>1 DEF CreatedInOrder, ML!VPs
<1>4. WaitingExact' /\ Asleep' = Asleep
  <2>1. \A q \in ML!VPs : pc'[q] \in {"waiting", "woken"} <=> pc[q] \in {"waiting", "woken"}
    BY <1>1
  <2>. QED BY <2>1, CountKept
<1>5. SleepersTold' /\ ML!FinishedMeansDone'
  BY <1>1, <1>4 DEF SleepersTold, ML!FinishedMeansDone, ML!VPs
<1>. QED BY <1>2, <1>3, <1>4, <1>5

\* A VP finds the list empty, and it is not the last one: it waits.
LEMMA FallAsleepInv ==
  ASSUME num_vps \in Nat, MLInv, NEW p \in ML!VPs, pc[p] = "loop", ~program_finished,
         vps_waiting' = vps_waiting + 1, ~ML!LastToWait(vps_waiting'),
         pc' = [pc EXCEPT ![p] = "waiting"],
         UNCHANGED <<task_list, program_finished, started>>
  PROVE  MLInv'
<1>. USE DEF MLInv, MLTypeOK
<1>1. \A q \in ML!VPs : pc'[q] = IF q = p THEN "waiting" ELSE pc[q]
  OBVIOUS
<1>2. MLTypeOK'
  BY DEF MLStates, ML!VPs
<1>3. CreatedInOrder'
  BY <1>1 DEF CreatedInOrder, ML!VPs
<1>4. Cardinality(Asleep') = Cardinality(Asleep) + 1
  <2>1. p \notin Asleep
    BY DEF Asleep
  <2>2. Asleep' = Asleep \cup {p}
    BY <1>1 DEF Asleep, ML!VPs
  <2>. QED BY <2>1, <2>2, OneMoreAsleep
<1>5. Cardinality(Asleep) \in Nat
  BY AsleepFinite
<1>6. WaitingExact'
  BY <1>4, <1>5 DEF WaitingExact
<1>7. SleepersTold' /\ ML!FinishedMeansDone'
  BY <1>1, <1>4, <1>5 DEF SleepersTold, ML!FinishedMeansDone, WaitingExact, ML!LastToWait, ML!VPs
<1>. QED BY <1>2, <1>3, <1>6, <1>7

\* The last one ends the program: all the others sleep, and are told.
LEMMA EndProgramInv ==
  ASSUME num_vps \in Nat, MLInv, NEW p \in ML!VPs, pc[p] = "loop", ~program_finished,
         task_list = <<>>, vps_waiting' = vps_waiting + 1, ML!LastToWait(vps_waiting'),
         ML!EndProgram(p), UNCHANGED <<task_list, started>>
  PROVE  MLInv'
<1>. USE DEF MLInv, MLTypeOK
<1>1. \A q \in ML!VPs : pc'[q] = IF q = p THEN "loop"
                              ELSE IF pc[q] = "waiting" THEN "woken" ELSE pc[q]
  BY DEF ML!EndProgram, ML!Broadcast
<1>2. MLTypeOK'
  BY DEF ML!EndProgram, ML!Broadcast, MLStates, ML!VPs
<1>3. CreatedInOrder'
  BY <1>1 DEF CreatedInOrder, ML!VPs
<1>4. Asleep' = Asleep
  <2>1. \A q \in ML!VPs : pc'[q] \in {"waiting", "woken"} <=> pc[q] \in {"waiting", "woken"}
    BY <1>1
  <2>. QED BY <2>1, SameAsleep
<1>5. WaitingExact'
  BY <1>4, AsleepFinite DEF WaitingExact, ML!EndProgram
<1>6. Asleep = ML!VPs \ {p}
  <2>1. Cardinality(Asleep) = num_vps - 1
    BY AsleepFinite DEF WaitingExact, ML!LastToWait
  <2>2. p \notin Asleep
    BY DEF Asleep
  <2>. QED BY <2>1, <2>2, OnlyOneAwake
<1>7. \A q \in ML!VPs : pc'[q] \in {"loop", "woken"}
  BY <1>1, <1>6 DEF Asleep
<1>8. SleepersTold' /\ ML!FinishedMeansDone'
  BY <1>7 DEF SleepersTold, ML!FinishedMeansDone, ML!EndProgram, ML!VPs
<1>. QED BY <1>2, <1>3, <1>5, <1>8

LEMMA LoopInv ==
  ASSUME num_vps \in Nat, MLInv, NEW p \in ML!VPs, ML!Loop(p)
  PROVE  MLInv'
  BY LeaveInv, TakeInv, FallAsleepInv, EndProgramInv DEF ML!Loop

\* A task of cost 5 adds a task and wakes the VPs that wait.
LEMMA RunTaskInv ==
  ASSUME num_vps \in Nat, MLInv, NEW p \in ML!VPs, ML!RunTask(p)
  PROVE  MLInv'
<1>. USE DEF MLInv, MLTypeOK
<1>1. /\ pc[p] = "run" /\ UNCHANGED <<vps_waiting, program_finished, started>>
      /\ pc' \in [ML!VPs -> MLStates] /\ task_list' \in Seq(ML!Costs)
      /\ \A q \in ML!VPs : \/ q = p /\ pc'[q] = "loop"
                           \/ q # p /\ pc'[q] = pc[q]
                           \/ q # p /\ pc[q] = "waiting" /\ pc'[q] = "woken"
  <2>1. CASE task[p] = 5
    <3>1. task_list' \in Seq(ML!Costs)
      BY SMTT(30), <2>1, AppendProperties DEF ML!RunTask, ML!Costs
    <3>. QED BY <2>1, <3>1 DEF ML!RunTask, ML!Broadcast, MLStates
  <2>2. CASE task[p] # 5
    BY <2>2 DEF ML!RunTask, MLStates
  <2>. QED BY <2>1, <2>2
<1>2. ~program_finished
  BY <1>1 DEF ML!FinishedMeansDone
<1>3. MLTypeOK'
  BY <1>1 DEF ML!VPs
<1>4. CreatedInOrder'
  BY <1>1 DEF CreatedInOrder, ML!VPs
<1>5. WaitingExact' /\ Asleep' = Asleep
  <2>1. \A q \in ML!VPs : pc'[q] \in {"waiting", "woken"} <=> pc[q] \in {"waiting", "woken"}
    BY <1>1
  <2>. QED BY <1>1, <2>1, CountKept
<1>6. SleepersTold' /\ ML!FinishedMeansDone'
  BY <1>1, <1>2, <1>5 DEF SleepersTold, ML!FinishedMeansDone, ML!VPs
<1>. QED BY <1>3, <1>4, <1>5, <1>6

\* A VP that was woken gets the mutex and no longer counts.
LEMMA WakeInv ==
  ASSUME num_vps \in Nat, MLInv, NEW p \in ML!VPs, ML!Wake(p)
  PROVE  MLInv'
<1>. USE DEF MLInv, MLTypeOK
<1>1. /\ pc[p] = "woken" /\ UNCHANGED <<task_list, program_finished, started>>
      /\ vps_waiting' = vps_waiting - 1 /\ pc' = [pc EXCEPT ![p] = "loop"]
  BY DEF ML!Wake
<1>2. \A q \in ML!VPs : pc'[q] = IF q = p THEN "loop" ELSE pc[q]
  BY <1>1
<1>3. MLTypeOK'
  BY <1>1 DEF MLStates, ML!VPs
<1>4. CreatedInOrder'
  BY <1>1, <1>2 DEF CreatedInOrder, ML!VPs
<1>5. Cardinality(Asleep') = Cardinality(Asleep) - 1
  <2>1. p \in Asleep
    BY <1>1 DEF Asleep
  <2>2. Asleep' = Asleep \ {p}
    BY <1>2 DEF Asleep, ML!VPs
  <2>. QED BY <2>1, <2>2, OneLessAsleep
<1>6. Cardinality(Asleep) \in Nat
  BY AsleepFinite
<1>7. WaitingExact'
  BY <1>1, <1>5, <1>6 DEF WaitingExact
<1>8. SleepersTold' /\ ML!FinishedMeansDone'
  BY <1>1, <1>2, <1>5, <1>6 DEF SleepersTold, ML!FinishedMeansDone, ML!VPs
<1>. QED BY <1>3, <1>4, <1>7, <1>8

\* A return without a signal changes who is about to get up, not who counts.
LEMMA SpuriousWakeInv ==
  ASSUME num_vps \in Nat, MLInv, NEW p \in ML!VPs, ML!SpuriousWake(p)
  PROVE  MLInv'
<1>. USE DEF MLInv, MLTypeOK
<1>1. /\ pc[p] = "waiting" /\ pc' = [pc EXCEPT ![p] = "woken"]
      /\ UNCHANGED <<task_list, vps_waiting, program_finished, started>>
  BY DEF ML!SpuriousWake
<1>2. \A q \in ML!VPs : pc'[q] = IF q = p THEN "woken" ELSE pc[q]
  BY <1>1
<1>3. MLTypeOK'
  BY <1>1 DEF MLStates, ML!VPs
<1>4. CreatedInOrder'
  BY <1>1, <1>2 DEF CreatedInOrder, ML!VPs
<1>5. WaitingExact' /\ Asleep' = Asleep
  <2>1. \A q \in ML!VPs : pc'[q] \in {"waiting", "woken"} <=> pc[q] \in {"waiting", "woken"}
    BY <1>1, <1>2
  <2>. QED BY <1>1, <2>1, CountKept
<1>6. SleepersTold' /\ ML!FinishedMeansDone'
  BY <1>1, <1>2, <1>5 DEF SleepersTold, ML!FinishedMeansDone, ML!VPs
<1>. QED BY <1>3, <1>4, <1>5, <1>6

LEMMA MLInitInv ==
  ASSUME num_vps \in Nat \ {0}, num_tasks \in Nat, ML!Init
  PROVE  MLInv
<1>1. MLTypeOK
  <2>1. task_list \in Seq(ML!Costs)
    BY SeqDef DEF ML!Init
  <2>2. pc \in [ML!VPs -> MLStates]
    BY DEF ML!Init, MLStates
  <2>3. started = 0 /\ vps_waiting = 0 /\ program_finished \in BOOLEAN
    BY DEF ML!Init
  <2>4. started \in 0 .. num_vps /\ vps_waiting \in Int
    BY <2>3
  <2>. QED BY <2>1, <2>2, <2>3, <2>4 DEF MLTypeOK
<1>2. Cardinality(Asleep) = 0
  <2>1. Asleep = {}
    BY DEF ML!Init, Asleep
  <2>. QED BY <2>1, FS_EmptySet
<1>3. CreatedInOrder /\ WaitingExact /\ SleepersTold /\ ML!FinishedMeansDone
  BY <1>2 DEF ML!Init, CreatedInOrder, WaitingExact, SleepersTold, ML!FinishedMeansDone, ML!VPs
<1>. QED BY <1>1, <1>3 DEF MLInv

LEMMA MLNextInv ==
  ASSUME num_vps \in Nat, MLInv, ML!Next \/ UNCHANGED ML!vars
  PROVE  MLInv'
<1>1. CASE UNCHANGED ML!vars
  BY <1>1 DEF ML!vars, MLInv, MLTypeOK, CreatedInOrder, WaitingExact, Asleep, SleepersTold,
              ML!FinishedMeansDone, ML!VPs
<1>2. CASE ML!CreateVP
  BY <1>2, CreateVPInv
<1>3. CASE \E p \in ML!VPs : ML!Step(p) \/ ML!SpuriousWake(p)
  BY <1>3, LoopInv, RunTaskInv, WakeInv, SpuriousWakeInv DEF ML!Step
<1>. QED BY <1>1, <1>2, <1>3 DEF ML!Next

\* Unless main has a thread to create or all have ended, some VP has a step to
\* take: otherwise all would sleep, and the last one to wait does not.
LEMMA MLMoves ==
  ASSUME num_vps \in Nat \ {0}, MLInv
  PROVE  SomebodyCanMove
<1>. SUFFICES ASSUME MLInv, ~(started < num_vps), ~ML!AllEnded,
                     \A p \in ML!VPs : pc[p] \notin {"loop", "run", "woken"}
              PROVE  FALSE
  BY DEF SomebodyCanMove
<1>1. \A p \in ML!VPs : pc[p] \in {"waiting", "ended"}
  BY DEF MLInv, MLTypeOK, CreatedInOrder, MLStates, ML!VPs
<1>2. CASE program_finished
  BY <1>1, <1>2 DEF MLInv, SleepersTold, ML!AllEnded
<1>3. CASE ~program_finished
  <2>1. Asleep = ML!VPs
    BY <1>1, <1>3 DEF MLInv, SleepersTold, Asleep
  <2>2. Cardinality(Asleep) = num_vps
    BY <2>1, AsleepFinite
  <2>. QED BY <1>3, <2>2 DEF MLInv, SleepersTold
<1>. QED BY <1>2, <1>3 DEF MLInv, MLTypeOK

-----------------------------------------------------------------------------
(* atomic_decrement: the invariant *)

\* The only thread of each kind.
Incr == <<1, 1>>
Decr == <<-1, 1>>

\* Where a thread of the compare-and-swap loop, or of the other two, can be.
Swapping == {"load", "loadnew", "loadold", "swap"}
CasStates == {"peek", "test", "done"} \cup Swapping
SemStates == {"wait", "read", "write", "release", "done"}

PairTypeOK(States) ==
    /\ pc \in [AD!Threads -> States]
    /\ old \in [AD!Threads -> {0, 1}] /\ new \in [AD!Threads -> {0, 1}]
    /\ buffer \in {0, 1}

\* Thread t of the compare-and-swap loop.  What it stores after its test is what
\* the buffer is by then, if that is where it would stop; and from its test to
\* its swap the buffer waits, at the value before, for the move of t alone.
CasThread(t, before, after) ==
    /\ pc[t] = "test" /\ new[t] = before => buffer = before
    /\ pc[t] \in Swapping => buffer = before
    /\ pc[t] \in {"loadnew", "swap"} => old[t] = before
    /\ pc[t] \in {"loadold", "swap"} => new[t] = after

CasInv ==
    /\ PairTypeOK(CasStates)
    /\ CasThread(Incr, 0, 1) /\ CasThread(Decr, 1, 0)

\* Thread t is between its sem_wait and its sem_post.
Inside(t) == pc[t] \in {"read", "write", "release"}

\* What the buffer is while t is inside.
SemThread(t, before, after) ==
    /\ pc[t] \in {"read", "write"} => buffer = before
    /\ pc[t] = "write" => new[t] = after
    /\ pc[t] = "release" => buffer = after

\* The one token is in one of the semaphores or with one of the threads.
SemInv ==
    /\ PairTypeOK(SemStates)
    /\ SemThread(Incr, 0, 1) /\ SemThread(Decr, 1, 0)
    /\ \/ /\ bufferCheio = 1 /\ bufferVazio = 0 /\ buffer = 0
          /\ ~Inside(Incr) /\ ~Inside(Decr)
       \/ /\ bufferCheio = 0 /\ bufferVazio = 1 /\ buffer = 1
          /\ ~Inside(Incr) /\ ~Inside(Decr)
       \/ /\ bufferCheio = 0 /\ bufferVazio = 0
          /\ Inside(Incr) /\ ~Inside(Decr)
       \/ /\ bufferCheio = 0 /\ bufferVazio = 0
          /\ ~Inside(Incr) /\ Inside(Decr)

PairInv ==
    /\ AD!control_type \in {"c", "s", "m"}
    /\ AD!num_threads = 1 /\ AD!control_type = "c" => CasInv
    /\ AD!num_threads = 1 /\ AD!control_type = "s" => SemInv
-----------------------------------------------------------------------------
(* atomic_decrement: the two threads *)

\* One thread of each kind, and their moves.
LEMMA PairFact ==
  ASSUME AD!num_threads = 1, Uint \in Nat, Uint >= 2
  PROVE  /\ AD!Threads = {Incr, Decr} /\ Incr # Decr
         /\ AD!Change(Incr) = 1 /\ AD!Change(Decr) = -1
         /\ AD!Stop(Incr) = 1 /\ AD!Stop(Decr) = 0
         /\ AD!Next1(Incr, 0) = 1 /\ AD!Next1(Decr, 1) = 0
<1>1. 1 .. AD!num_threads = {1}
  OBVIOUS
<1>2. AD!Threads = {Incr, Decr} /\ Incr # Decr
  BY <1>1 DEF AD!Threads, Incr, Decr
<1>3. AD!Change(Incr) = 1 /\ AD!Change(Decr) = -1
  BY DEF AD!Change, Incr, Decr
<1>4. AD!Stop(Incr) = 1 /\ AD!Stop(Decr) = 0
  BY <1>3 DEF AD!Stop, AD!full_buffer
<1>5. 1 % Uint = 1 /\ 0 % Uint = 0
  OBVIOUS
<1>6. AD!Next1(Incr, 0) = 1 /\ AD!Next1(Decr, 1) = 0
  BY <1>3, <1>5 DEF AD!Next1
<1>. QED BY <1>2, <1>3, <1>4, <1>6

\* No step changes the command line.
LEMMA ArgsKept ==
  ASSUME NEW t, AD!Step(t)
  PROVE  args' = args
  BY DEF AD!Step, AD!Peek, AD!Test, AD!Load, AD!Swap, AD!Wait, AD!Lock, AD!Read, AD!Write, AD!Release

\* At the end of an iteration only the place of t and what it loaded change.
LEMMA EndFact ==
  ASSUME NEW t \in AD!Threads, NEW States, PairTypeOK(States), AD!EndIteration(t),
         AD!First \in States, "done" \in States
  PROVE  /\ pc' \in [AD!Threads -> States]
         /\ old' \in [AD!Threads -> {0, 1}] /\ new' \in [AD!Threads -> {0, 1}]
         /\ pc'[t] \in {AD!First, "done"}
         /\ \A u \in AD!Threads \ {t} : pc'[u] = pc[u] /\ old'[u] = old[u] /\ new'[u] = new[u]
<1>. DEFINE where == IF loop_counter[t] = 1 THEN "done" ELSE AD!First
<1>1. where \in States /\ where \in {AD!First, "done"}
  OBVIOUS
<1>2. /\ pc' = [pc EXCEPT ![t] = where]
      /\ old' = [old EXCEPT ![t] = 0] /\ new' = [new EXCEPT ![t] = 0]
  BY DEF AD!EndIteration, AD!Goto
<1>. HIDE DEF where
<1>. QED BY <1>1, <1>2 DEF PairTypeOK

-----------------------------------------------------------------------------
(* atomic_decrement: compare and swap *)

\* A step of thread t, which moves the buffer from before to after, while u
\* moves it back.
LEMMA CasMove ==
  ASSUME NEW t \in AD!Threads, NEW u \in AD!Threads, AD!Threads = {t, u}, t # u,
         NEW before \in {0, 1}, NEW after \in {0, 1}, before # after,
         AD!Stop(t) = after, AD!Next1(t, before) = after,
         AD!control_type = "c", PairTypeOK(CasStates),
         CasThread(t, before, after), CasThread(u, after, before), AD!Step(t)
  PROVE  /\ pc' \in [AD!Threads -> CasStates]
         /\ old' \in [AD!Threads -> {0, 1}] /\ new' \in [AD!Threads -> {0, 1}]
         /\ buffer' \in {0, 1}
         /\ CasThread(t, before, after)' /\ CasThread(u, after, before)'
<1>1. AD!First = "peek" /\ AD!First \in CasStates /\ "done" \in CasStates
  BY DEF AD!First, CasStates
<1>2. pc[t] \in CasStates /\ pc[u] \in CasStates
  BY DEF PairTypeOK
<1>3. CASE AD!Peek(t)
  BY <1>3 DEF AD!Peek, AD!Goto, PairTypeOK, CasThread, CasStates, Swapping
<1>4. CASE AD!Test(t)
  <2>1. CASE buffer = after
    <3>1. AD!EndIteration(t) /\ buffer' = new[t] /\ new[t] = after
      BY <1>4, <2>1 DEF AD!Test, PairTypeOK, CasThread
    <3>2. pc'[t] \in {"peek", "done"} /\ buffer' = buffer
      BY <1>1, <2>1, <3>1, EndFact
    <3>. QED BY <1>1, <3>1, <3>2, EndFact DEF PairTypeOK, CasThread, Swapping
  <2>2. CASE buffer # after
    <3>1. buffer = before
      BY <2>2 DEF PairTypeOK
    <3>. QED BY <1>4, <2>2, <3>1 DEF AD!Test, AD!Goto, PairTypeOK, CasThread, CasStates, Swapping
  <2>. QED BY <2>1, <2>2
<1>5. CASE AD!Load(t)
  <2>1. buffer = before
    BY <1>5 DEF AD!Load, CasThread, Swapping
  <2>. QED BY <1>5, <2>1 DEF AD!Load, AD!Goto, PairTypeOK, CasThread, CasStates, Swapping
<1>6. CASE AD!Swap(t)
  <2>1. AD!EndIteration(t) /\ buffer' = after /\ buffer = before
    BY <1>6 DEF AD!Swap, CasThread, Swapping
  <2>2. pc'[t] \in {"peek", "done"}
    BY <1>1, <2>1, EndFact
  <2>3. pc[u] \notin Swapping /\ pc'[u] = pc[u] /\ new'[u] = new[u]
    BY <1>1, <2>1, EndFact DEF CasThread
  <2>. QED BY <1>1, <2>1, <2>2, <2>3, EndFact DEF CasThread, Swapping
<1>7. ~AD!Wait(t) /\ ~AD!Lock(t) /\ ~AD!Read(t) /\ ~AD!Write(t) /\ ~AD!Release(t)
  BY <1>2 DEF CasStates, Swapping, AD!Wait, AD!Lock, AD!Read, AD!Write, AD!Release
<1>. QED BY <1>3, <1>4, <1>5, <1>6, <1>7 DEF AD!Step

LEMMA CasNext ==
  ASSUME Uint \in Nat, Uint >= 2, AD!num_threads = 1, AD!control_type = "c", CasInv,
         NEW t \in AD!Threads, AD!Step(t)
  PROVE  CasInv'
<1>. USE PairFact
<1>1. AD!Threads' = AD!Threads
  BY ArgsKept DEF AD!Threads, AD!num_threads
<1>2. CASE t = Incr
  BY <1>1, <1>2, CasMove DEF CasInv, PairTypeOK
<1>3. CASE t = Decr
  BY <1>1, <1>3, CasMove DEF CasInv, PairTypeOK
<1>. QED BY <1>2, <1>3
-----------------------------------------------------------------------------
(* atomic_decrement: semaphores *)

\* Thread t takes the token that own is before the step.
LEMMA SemWait ==
  ASSUME Uint \in Nat, Uint >= 2, AD!num_threads = 1, SemInv, NEW t \in AD!Threads, AD!Wait(t)
  PROVE  SemInv'
<1>. USE PairFact
<1>1. /\ pc[t] = "wait" /\ UNCHANGED <<args, buffer, old, new>>
      /\ pc' = [pc EXCEPT ![t] = "read"] /\ AD!Threads' = AD!Threads
  BY DEF AD!Wait, AD!Goto, AD!Threads, AD!num_threads
<1>2. PairTypeOK(SemStates)'
  BY <1>1 DEF SemInv, PairTypeOK, SemStates
<1>3. pc'[t] = "read" /\ \A u \in AD!Threads \ {t} : pc'[u] = pc[u]
  BY <1>1 DEF SemInv, PairTypeOK
<1>4. CASE t = Incr
  <2>1. /\ bufferCheio = 1 /\ bufferVazio = 0 /\ buffer = 0 /\ ~Inside(Decr)
        /\ bufferCheio' = 0 /\ bufferVazio' = 0
    BY <1>4 DEF SemInv, AD!Wait
  <2>2. Inside(Incr)' /\ ~Inside(Decr)' /\ SemThread(Incr, 0, 1)' /\ SemThread(Decr, 1, 0)'
    BY <1>1, <1>3, <1>4, <2>1 DEF Inside, SemThread
  <2>. QED BY <1>2, <2>1, <2>2 DEF SemInv
<1>5. CASE t = Decr
  <2>1. /\ bufferCheio = 0 /\ bufferVazio = 1 /\ buffer = 1 /\ ~Inside(Incr)
        /\ bufferCheio' = 0 /\ bufferVazio' = 0
    BY <1>5 DEF SemInv, AD!Wait
  <2>2. ~Inside(Incr)' /\ Inside(Decr)' /\ SemThread(Incr, 0, 1)' /\ SemThread(Decr, 1, 0)'
    BY <1>1, <1>3, <1>5, <2>1 DEF Inside, SemThread
  <2>. QED BY <1>2, <2>1, <2>2 DEF SemInv
<1>. QED BY <1>4, <1>5

\* The thread that is inside goes on while the other one is outside.
LEMMA SemGoOn ==
  ASSUME Uint \in Nat, Uint >= 2, AD!num_threads = 1, SemInv, NEW t \in AD!Threads,
         AD!Read(t) \/ AD!Write(t)
  PROVE  SemInv'
<1>. USE PairFact
<1>. DEFINE where == IF pc[t] = "read" THEN "write" ELSE "release"
            before == IF t = Incr THEN 0 ELSE 1
            after  == IF t = Incr THEN 1 ELSE 0
<1>1. /\ pc[t] \in {"read", "write"} /\ UNCHANGED <<args, bufferCheio, bufferVazio, old>>
      /\ pc' = [pc EXCEPT ![t] = where] /\ AD!Threads' = AD!Threads
  BY DEF AD!Read, AD!Write, AD!Goto, AD!sync, AD!Threads, AD!num_threads
<1>2. buffer = before
  BY <1>1 DEF SemInv, SemThread
<1>3. CASE pc[t] = "read"
  <2>1. buffer' = buffer /\ new' = [new EXCEPT ![t] = after]
    BY <1>2, <1>3 DEF AD!Read, AD!Write
  <2>2. PairTypeOK(SemStates)'
    BY <1>1, <1>3, <2>1 DEF SemInv, PairTypeOK, SemStates
  <2>3. /\ pc'[t] = "write" /\ new'[t] = after
        /\ \A u \in AD!Threads \ {t} : pc'[u] = pc[u] /\ new'[u] = new[u]
    BY <1>1, <1>3, <2>1 DEF SemInv, PairTypeOK
  <2>. QED BY <1>1, <1>2, <1>3, <2>1, <2>2, <2>3 DEF SemInv, SemThread, Inside
<1>4. CASE pc[t] = "write"
  <2>1. buffer' = after /\ new' = new
    BY <1>1, <1>4 DEF AD!Read, AD!Write, SemInv, SemThread
  <2>2. PairTypeOK(SemStates)'
    BY <1>1, <1>4, <2>1 DEF SemInv, PairTypeOK, SemStates
  <2>3. pc'[t] = "release" /\ \A u \in AD!Threads \ {t} : pc'[u] = pc[u]
    BY <1>1, <1>4 DEF SemInv, PairTypeOK
  <2>. QED BY <1>1, <1>4, <2>1, <2>2, <2>3 DEF SemInv, SemThread, Inside
<1>. QED BY <1>1, <1>3, <1>4

\* The thread that is inside hands the token to the other one.
LEMMA SemRelease ==
  ASSUME Uint \in Nat, Uint >= 2, AD!num_threads = 1, AD!control_type = "s", SemInv,
         NEW t \in AD!Threads, AD!Release(t)
  PROVE  SemInv'
<1>. USE PairFact
<1>1. /\ pc[t] = "release" /\ UNCHANGED <<args, buffer>> /\ AD!Post(t) /\ AD!EndIteration(t)
      /\ AD!Threads' = AD!Threads
  BY DEF AD!Release, AD!Threads, AD!num_threads
<1>2. AD!First = "wait" /\ AD!First \in SemStates /\ "done" \in SemStates /\ PairTypeOK(SemStates)
  BY DEF AD!First, SemStates, SemInv
<1>3. /\ pc' \in [AD!Threads -> SemStates]
      /\ old' \in [AD!Threads -> {0, 1}] /\ new' \in [AD!Threads -> {0, 1}]
      /\ pc'[t] \in {"wait", "done"}
      /\ \A u \in AD!Threads \ {t} : pc'[u] = pc[u] /\ new'[u] = new[u]
  BY <1>1, <1>2, EndFact
<1>4. PairTypeOK(SemStates)'
  BY <1>1, <1>2, <1>3 DEF PairTypeOK
<1>5. CASE t = Incr
  <2>1. /\ buffer = 1 /\ ~Inside(Decr) /\ bufferCheio' = 0 /\ bufferVazio' = 1
    BY <1>1, <1>5 DEF SemInv, SemThread, Inside, AD!Post
  <2>2. /\ ~Inside(Incr)' /\ ~Inside(Decr)'
        /\ SemThread(Incr, 0, 1)' /\ SemThread(Decr, 1, 0)'
    BY <1>3, <1>5, <2>1 DEF SemThread, Inside
  <2>. QED BY <1>1, <1>4, <2>1, <2>2 DEF SemInv
<1>6. CASE t = Decr
  <2>1. /\ buffer = 0 /\ ~Inside(Incr) /\ bufferCheio' = 1 /\ bufferVazio' = 0
    BY <1>1, <1>6 DEF SemInv, SemThread, Inside, AD!Post
  <2>2. /\ ~Inside(Incr)' /\ ~Inside(Decr)'
        /\ SemThread(Incr, 0, 1)' /\ SemThread(Decr, 1, 0)'
    BY <1>3, <1>6, <2>1 DEF SemThread, Inside
  <2>. QED BY <1>1, <1>4, <2>1, <2>2 DEF SemInv
<1>. QED BY <1>5, <1>6

LEMMA SemNext ==
  ASSUME Uint \in Nat, Uint >= 2, AD!num_threads = 1, AD!control_type = "s", SemInv,
         NEW t \in AD!Threads, AD!Step(t)
  PROVE  SemInv'
<1>1. pc[t] \in SemStates
  BY DEF SemInv, PairTypeOK
<1>2. ~AD!Peek(t) /\ ~AD!Test(t) /\ ~AD!Load(t) /\ ~AD!Swap(t) /\ ~AD!Lock(t)
  BY <1>1 DEF SemStates, AD!Peek, AD!Test, AD!Load, AD!Swap, AD!Lock
<1>. QED BY <1>2, SemWait, SemGoOn, SemRelease DEF AD!Step

LEMMA PairInitInv ==
  ASSUME \A a \in CommandLines : a.control_type \in {"c", "s", "m"},
         Uint \in Nat, Uint >= 2, AD!Init
  PROVE  PairInv
<1>1. AD!control_type \in {"c", "s", "m"}
  BY DEF AD!Init, AD!control_type
<1>2. ASSUME AD!num_threads = 1, NEW States, AD!First \in States
      PROVE  PairTypeOK(States)
  BY <1>2 DEF AD!Init, PairTypeOK
<1>3. ASSUME AD!num_threads = 1
      PROVE  /\ pc[Incr] = AD!First /\ pc[Decr] = AD!First
             /\ buffer = 0 /\ bufferCheio = 1 /\ bufferVazio = 0
  BY <1>3, PairFact DEF AD!Init
<1>4. CASE AD!control_type = "c"
  <2>1. AD!First = "peek"
    BY <1>4 DEF AD!First
  <2>. QED BY <1>1, <1>2, <1>3, <1>4, <2>1
           DEF PairInv, CasInv, CasThread, CasStates, Swapping
<1>5. CASE AD!control_type = "s"
  <2>1. AD!First = "wait"
    BY <1>5 DEF AD!First
  <2>. QED BY <1>1, <1>2, <1>3, <1>5, <2>1
           DEF PairInv, SemInv, SemThread, SemStates, Inside
<1>. QED BY <1>1, <1>4, <1>5 DEF PairInv

LEMMA PairNextInv ==
  ASSUME Uint \in Nat, Uint >= 2, PairInv, AD!Next \/ UNCHANGED AD!vars
  PROVE  PairInv'
<1>1. CASE UNCHANGED AD!vars
  BY <1>1 DEF AD!vars, AD!sync, PairInv, CasInv, SemInv, PairTypeOK, CasThread, SemThread,
              Inside, AD!Threads, AD!num_threads, AD!control_type
<1>2. ASSUME NEW t \in AD!Threads, AD!Step(t)
      PROVE  PairInv'
  <2>1. AD!control_type' = AD!control_type /\ AD!num_threads' = AD!num_threads
    BY <1>2, ArgsKept DEF AD!control_type, AD!num_threads
  <2>. QED BY <1>2, <2>1, CasNext, SemNext DEF PairInv
<1>. QED BY <1>1, <1>2 DEF AD!Next

-----------------------------------------------------------------------------
(* freq_change: the CPUs of a unit *)

\* The speed a CPU starts with, its maximum.
TopSpeed(c) ==
    LET d == machine[c + 1] IN (IF d.mhz THEN 1000 ELSE 1) * d.max

\* Once all CPUs are set up, each has the speed of its unit.
OneSpeed ==
    DOMAIN cpu = FC!CPUs => \A c \in FC!CPUs : cpu[c].speed = cpu[FC!scalable_unit(c)].speed

\* While the tables are set up nothing has changed a speed; afterwards the CPUs
\* are as many, and each has the speed of its unit.
UnitInv ==
    /\ opt \in Options /\ FC!ncpus \in Nat
    /\ pc = "options" => i = 0 /\ cpu = <<>>
    /\ pc = "setup" => /\ i \in 0 .. FC!ncpus /\ DOMAIN cpu = 0 .. i - 1
                       /\ \A c \in DOMAIN cpu : cpu[c].speed = TopSpeed(c)
    /\ pc \notin {"options", "setup", "exit", "undefined"} => DOMAIN cpu = FC!CPUs
    /\ pc \in {"poll", "decide", "terminate"} => i \in Int
    /\ \A c \in DOMAIN cpu : "speed" \in DOMAIN cpu[c]
    /\ FC!SiblingsAlike => OneSpeed

\* Multiples of T that are less than T apart are one.
LEMMA SameMultiple ==
  ASSUME NEW T \in Nat, NEW a \in Int, NEW b \in Int, a * T < b * T + T, b * T < a * T + T
  PROVE  a = b
<1>1. CASE a < b
  <2>1. PICK k \in Nat : b = a + 1 + k
    BY <1>1
  <2>2. b * T = a * T + T + k * T
    BY <2>1
  <2>3. k * T \in Nat /\ a * T \in Int /\ b * T \in Int
    BY <2>1
  <2>. QED BY <2>2, <2>3
<1>2. CASE b < a
  <2>1. PICK k \in Nat : a = b + 1 + k
    BY <1>2
  <2>2. a * T = b * T + T + k * T
    BY <2>1
  <2>3. k * T \in Nat /\ a * T \in Int /\ b * T \in Int
    BY <2>1
  <2>. QED BY <2>2, <2>3
<1>. QED BY <1>1, <1>2

\* A unit begins at a CPU of the machine, and any CPU in it is of that unit.
LEMMA UnitFact ==
  ASSUME FC!ncpus \in Nat, opt.c \in Int
  PROVE  /\ \A c \in FC!CPUs : FC!scalable_unit(c) \in FC!CPUs
         /\ \A c \in FC!CPUs, u \in Int :
               u = FC!scalable_unit(u)
                  => (c \in FC!Unit(u) <=> FC!scalable_unit(c) \in FC!Unit(u))
<1>. DEFINE T == FC!threads_per_core
<1>1. T \in Nat \ {0}
  BY DEF FC!threads_per_core
<1>. HIDE DEF T
<1>2. \A c \in Int : /\ c \div T \in Int /\ (c \div T) * T \in Int
                     /\ (c \div T) * T <= c /\ c < (c \div T) * T + T
  BY <1>1
<1>3. \A c \in Int : FC!scalable_unit(c) = (c \div T) * T /\ FC!Unit(c) = c .. c + T - 1
  BY DEF FC!scalable_unit, FC!Unit, T
<1>4. \A c \in FC!CPUs : FC!scalable_unit(c) \in FC!CPUs
  <2>. SUFFICES ASSUME NEW c \in FC!CPUs PROVE (c \div T) * T \in FC!CPUs
    BY <1>3 DEF FC!CPUs
  <2>1. c \in Nat /\ c <= FC!ncpus - 1
    BY DEF FC!CPUs
  <2>2. c \div T \in Nat
    BY <1>1, <2>1
  <2>3. (c \div T) * T \in Nat
    BY <1>1, <2>2
  <2>. QED BY <1>2, <2>1, <2>3 DEF FC!CPUs
<1>5. \A a \in Int, b \in Int : a * T < b * T + T /\ b * T < a * T + T => a = b
  BY <1>1, SameMultiple
<1>6. ASSUME NEW c \in FC!CPUs, NEW u \in Int, u = FC!scalable_unit(u)
      PROVE  c \in FC!Unit(u) <=> FC!scalable_unit(c) \in FC!Unit(u)
  <2>. DEFINE a == u \div T
              b == c \div T
  <2>1. c \in Int /\ a \in Int /\ b \in Int /\ u = a * T
    BY <1>2, <1>3, <1>6 DEF FC!CPUs
  <2>2. b * T \in Int /\ b * T <= c /\ c < b * T + T
    BY <1>2, <2>1
  <2>. HIDE DEF a, b
  <2>3. FC!scalable_unit(c) = b * T /\ FC!Unit(u) = u .. u + T - 1
    BY <1>3, <2>1 DEF b
  <2>4. CASE c \in u .. u + T - 1
    <3>1. b * T < a * T + T /\ a * T < b * T + T
      BY <1>1, <2>1, <2>2, <2>4
    <3>2. a = b
      BY <1>5, <2>1, <3>1
    <3>. QED BY <1>1, <2>1, <2>3, <2>4, <3>2
  <2>5. CASE b * T \in u .. u + T - 1
    <3>1. a = b
      BY <1>1, <1>5, <2>1, <2>2, <2>5
    <3>. QED BY <1>1, <2>1, <2>2, <2>3, <2>5, <3>1
  <2>. QED BY <2>3, <2>4, <2>5
<1>. QED BY <1>4, <1>6

\* change_speed leaves alone a CPU that is not the first of its unit, and
\* changes all of a unit at once.
LEMMA ChangeSpeedKeeps ==
  ASSUME UnitInv, \A o \in Options : o.c \in Int, DOMAIN cpu = FC!CPUs,
         NEW c \in Int, NEW mode, NEW f, NEW next, FC!ChangeSpeed(c, mode, f, next),
         UNCHANGED <<machine, opt>>
  PROVE  /\ DOMAIN cpu' = FC!CPUs
         /\ \A d \in DOMAIN cpu' : "speed" \in DOMAIN cpu'[d]
         /\ (FC!SiblingsAlike => OneSpeed)'
<1>1. CASE UNCHANGED cpu
  BY <1>1 DEF UnitInv, FC!SiblingsAlike, OneSpeed, FC!CPUs, FC!ncpus,
              FC!scalable_unit, FC!threads_per_core
<1>2. CASE cpu' # cpu
  <2>1. c = FC!scalable_unit(c)
    BY <1>2 DEF FC!ChangeSpeed
  <2>2. PICK v : cpu' = [d \in FC!CPUs |-> IF d \in FC!Unit(c)
                                           THEN [cpu[d] EXCEPT !.speed = v] ELSE cpu[d]]
    BY <1>2, <2>1 DEF FC!ChangeSpeed
  <2>3. \A d \in FC!CPUs : cpu'[d].speed = IF d \in FC!Unit(c) THEN v ELSE cpu[d].speed
    BY <2>2 DEF UnitInv
  <2>4. \A d \in FC!CPUs : "speed" \in DOMAIN cpu'[d]
    BY <2>2 DEF UnitInv
  <2>5. FC!CPUs' = FC!CPUs /\ \A d : FC!scalable_unit(d)' = FC!scalable_unit(d)
    BY DEF FC!CPUs, FC!ncpus, FC!scalable_unit, FC!threads_per_core
  <2>6. FC!SiblingsAlike' <=> FC!SiblingsAlike
    BY <2>5 DEF FC!SiblingsAlike
  <2>7. ASSUME OneSpeed PROVE OneSpeed'
    <3>1. \A d \in FC!CPUs :
             /\ cpu[d].speed = cpu[FC!scalable_unit(d)].speed
             /\ FC!scalable_unit(d) \in FC!CPUs
             /\ d \in FC!Unit(c) <=> FC!scalable_unit(d) \in FC!Unit(c)
      BY <2>1, <2>7, UnitFact DEF OneSpeed, UnitInv
    <3>2. \A d \in FC!CPUs : cpu'[d].speed = cpu'[FC!scalable_unit(d)].speed
      BY <2>3, <3>1
    <3>. QED BY <2>5, <3>2 DEF OneSpeed
  <2>. QED BY <2>2, <2>4, <2>6, <2>7 DEF UnitInv
<1>. QED BY <1>1, <1>2

LEMMA UnitInitInv ==
  ASSUME \A m \in Machines : Len(m) \in Nat, FC!Init
  PROVE  UnitInv
<1>1. DOMAIN cpu = {}
  BY DEF FC!Init
<1>2. FC!ncpus \in Nat
  BY DEF FC!Init, FC!ncpus
<1>3. OneSpeed
  BY <1>1, <1>2 DEF OneSpeed
<1>. QED BY <1>1, <1>2, <1>3 DEF FC!Init, UnitInv

\* The table of one more CPU, at its maximum.
LEMMA SetupInv ==
  ASSUME UnitInv, \A o \in Options : o.c \in Int, FC!Setup
  PROVE  UnitInv'
<1>. DEFINE d == machine[i + 1]
<1>1. /\ pc = "setup" /\ i \in 0 .. FC!ncpus /\ i < FC!ncpus /\ DOMAIN cpu = 0 .. i - 1
      /\ \A c \in DOMAIN cpu : cpu[c].speed = TopSpeed(c) /\ "speed" \in DOMAIN cpu[c]
      /\ machine' = machine /\ opt' = opt
  BY DEF FC!Setup, UnitInv, FC!config
<1>2. FC!ncpus' = FC!ncpus /\ FC!CPUs' = FC!CPUs /\ \A c : TopSpeed(c)' = TopSpeed(c)
  BY <1>1 DEF FC!ncpus, FC!CPUs, TopSpeed
<1>3. \A c : FC!scalable_unit(c)' = FC!scalable_unit(c)
  BY <1>1, <1>2 DEF FC!scalable_unit, FC!threads_per_core
<1>4. /\ DOMAIN cpu' \subseteq 0 .. i' - 1 /\ i' \in 0 .. FC!ncpus
      /\ pc' \in {"setup", "undefined"}
      /\ pc' = "setup" => DOMAIN cpu' = 0 .. i' - 1
      /\ \A c \in DOMAIN cpu' : cpu'[c].speed = TopSpeed(c) /\ "speed" \in DOMAIN cpu'[c]
  <2>1. CASE cpu' = cpu /\ i' = i /\ pc' = "undefined"
    BY <1>1, <2>1
  <2>2. CASE /\ cpu' = [c \in 0 .. i |-> IF c = i THEN FC!NewCpu(d, step') ELSE cpu[c]]
             /\ i' = i + 1 /\ pc' = pc
    <3>1. FC!NewCpu(d, step').speed = TopSpeed(i) /\ "speed" \in DOMAIN FC!NewCpu(d, step')
      BY DEF FC!NewCpu, TopSpeed
    <3>2. DOMAIN cpu' = 0 .. i' - 1
      BY <1>1, <2>2
    <3>. QED BY <1>1, <2>2, <3>1, <3>2 DEF UnitInv
  <2>. QED BY <2>1, <2>2 DEF FC!Setup
<1>5. ASSUME FC!SiblingsAlike' PROVE OneSpeed'
  <2>1. \A c \in FC!CPUs : FC!scalable_unit(c) \in FC!CPUs
    BY UnitFact DEF UnitInv
  <2>2. \A c \in FC!CPUs : TopSpeed(c) = TopSpeed(FC!scalable_unit(c))
    BY <1>1, <1>2, <1>3, <1>5 DEF FC!SiblingsAlike, TopSpeed
  <2>. QED BY <1>2, <1>3, <1>4, <2>1, <2>2 DEF OneSpeed
<1>. QED BY <1>1, <1>2, <1>4, <1>5 DEF UnitInv

LEMMA UnitNextInv ==
  ASSUME \A o \in Options : o.c \in Int /\ o.u \in Int,
         UnitInv, FC!Next \/ UNCHANGED FC!vars
  PROVE  UnitInv'
<1>1. opt.c \in Int /\ opt.u \in Int /\ machine' = machine /\ opt' = opt
  BY DEF UnitInv, FC!Next, FC!vars, FC!config, FC!CheckOptions, FC!Setup, FC!SetupFails,
         FC!SetupDone, FC!Measure, FC!Adjust, FC!LeaveLoop, FC!Terminate
<1>2. FC!ncpus' = FC!ncpus /\ FC!CPUs' = FC!CPUs /\ \A c : TopSpeed(c)' = TopSpeed(c)
  BY <1>1 DEF FC!ncpus, FC!CPUs, TopSpeed
<1>3. \A c : FC!scalable_unit(c)' = FC!scalable_unit(c)
  BY <1>1, <1>2 DEF FC!scalable_unit, FC!threads_per_core
<1>4. FC!SiblingsAlike' <=> FC!SiblingsAlike
  BY <1>1, <1>2, <1>3 DEF FC!SiblingsAlike
<1>5. ASSUME cpu' = cpu PROVE OneSpeed' <=> OneSpeed
  BY <1>2, <1>3, <1>5 DEF OneSpeed
<1>6. CASE UNCHANGED FC!vars
  BY <1>2, <1>4, <1>5, <1>6 DEF FC!vars, UnitInv
<1>7. CASE FC!CheckOptions
  BY <1>2, <1>4, <1>5, <1>7 DEF FC!CheckOptions, FC!config, UnitInv
<1>8. CASE FC!Setup
  BY <1>8, SetupInv
<1>9. CASE FC!SetupFails
  BY <1>2, <1>4, <1>5, <1>9 DEF FC!SetupFails, FC!config, UnitInv
<1>10. CASE FC!SetupDone
  BY <1>2, <1>4, <1>5, <1>10 DEF FC!SetupDone, FC!config, UnitInv, FC!CPUs
<1>11. CASE FC!Measure
  <2>1. pc = "poll" /\ i' = i /\ pc' \in {"decide", "undefined"} /\ DOMAIN cpu = FC!CPUs
    BY <1>11 DEF FC!Measure, UnitInv
  <2>2. /\ DOMAIN cpu' = FC!CPUs
        /\ \A c \in FC!CPUs : /\ cpu'[c].speed = cpu[c].speed
                              /\ "speed" \in DOMAIN cpu'[c]
    BY <1>11, <2>1 DEF FC!Measure, UnitInv
  <2>3. OneSpeed' <=> OneSpeed
    <3>1. \A c \in FC!CPUs : FC!scalable_unit(c) \in FC!CPUs
      BY <1>1, UnitFact DEF UnitInv
    <3>. QED BY <1>2, <1>3, <2>1, <2>2, <3>1 DEF OneSpeed
  <2>. QED BY <1>1, <1>2, <1>4, <2>1, <2>2, <2>3 DEF UnitInv
<1>12. CASE FC!Adjust
  <2>1. /\ pc = "decide" /\ DOMAIN cpu = FC!CPUs /\ i \in Int /\ i' \in Int
        /\ pc' \in {"poll", "undefined"}
    BY <1>12 DEF FC!Adjust, FC!ChangeSpeed, UnitInv
  <2>2. FC!cpubase \in Int
    BY <1>1, <2>1 DEF FC!cpubase, FC!threads_per_core, UnitInv
  <2>3. /\ DOMAIN cpu' = FC!CPUs
        /\ \A c \in DOMAIN cpu' : "speed" \in DOMAIN cpu'[c]
        /\ FC!SiblingsAlike' => OneSpeed'
    <3>1. CASE cpu' = cpu
      BY <1>4, <1>5, <2>1, <3>1 DEF UnitInv
    <3>2. CASE cpu' # cpu
      <4>1. PICK change : FC!ChangeSpeed(FC!cpubase, change, func, "poll")
        BY <1>12, <3>2 DEF FC!Adjust
      <4>. QED BY <1>1, <2>1, <2>2, <4>1, ChangeSpeedKeeps
    <3>. QED BY <3>1, <3>2
  <2>. QED BY <1>1, <1>2, <2>1, <2>3 DEF UnitInv
<1>13. CASE FC!LeaveLoop
  BY <1>1, <1>2, <1>4, <1>5, <1>13 DEF FC!LeaveLoop, FC!config, UnitInv
<1>14. CASE FC!Terminate
  <2>1. /\ pc = "terminate" /\ DOMAIN cpu = FC!CPUs /\ i \in Int /\ i' = i + 1
        /\ pc' \in {"terminate", "exit", "undefined"}
    BY <1>14 DEF FC!Terminate, FC!ChangeSpeed, UnitInv
  <2>2. /\ DOMAIN cpu' = FC!CPUs
        /\ \A c \in DOMAIN cpu' : "speed" \in DOMAIN cpu'[c]
        /\ FC!SiblingsAlike' => OneSpeed'
    <3>1. CASE cpu' = cpu
      BY <1>4, <1>5, <2>1, <3>1 DEF UnitInv
    <3>2. CASE cpu' # cpu
      <4>1. PICK next : FC!ChangeSpeed(i, FC!LOWER, FC!LEAPS, next)
        BY <1>14, <3>2 DEF FC!Terminate
      <4>. QED BY <1>1, <2>1, <4>1, ChangeSpeedKeeps
    <3>. QED BY <3>1, <3>2
  <2>. QED BY <1>1, <1>2, <2>1, <2>2 DEF UnitInv
<1>. QED BY <1>6, <1>7, <1>8, <1>9, <1>10, <1>11, <1>12, <1>13, <1>14 DEF FC!Next

-----------------------------------------------------------------------------
(* freq_change: least and greatest numbers *)

\* A set of natural numbers has a least one.
LEMMA LeastNat ==
  ASSUME NEW S \in SUBSET Nat, S # {}
  PROVE  \E x \in S : \A y \in S : x <= y
<1>1. PICK x \in S : \A y \in S : ~(<<y, x>> \in OpToRel(<, Nat))
  BY NatLessThanWellFounded, WFMin
<1>2. \A y \in S : y < x => <<y, x>> \in OpToRel(<, Nat)
  BY DEF OpToRel
<1>3. \A y \in S : ~(y < x)
  BY <1>1, <1>2
<1>4. \A y \in S : x <= y
  BY <1>3
<1>. QED BY <1>1, <1>4

\* A bounded one has a greatest one.
LEMMA GreatestNat ==
  ASSUME NEW n \in Nat, NEW S \in SUBSET (0 .. n), S # {}
  PROVE  \E x \in S : \A y \in S : y <= x
<1>. DEFINE R == {k \in Nat : n - k \in S}
<1>1. PICK x \in S : TRUE
  OBVIOUS
<1>2. n - x \in R
  BY <1>1
<1>3. PICK k \in R : \A j \in R : k <= j
  BY <1>2, LeastNat
<1>4. \A y \in S : n - y \in R
  OBVIOUS
<1>5. \A y \in S : y <= n - k
  BY <1>3, <1>4
<1>. QED BY <1>3, <1>5

\* Max of a bounded set of natural numbers.
LEMMA MaxFact ==
  ASSUME NEW n \in Nat, NEW S \in SUBSET (0 .. n), S # {}
  PROVE  FC!Max(S) \in S /\ \A y \in S : FC!Max(S) >= y
<1>1. \E x \in S : \A y \in S : x >= y
  BY GreatestNat
<1>. QED BY <1>1 DEF FC!Max

-----------------------------------------------------------------------------
(* freq_change: the sorted table *)

\* An interval that begins at 1.
LEMMA UpTo ==
  ASSUME NEW n \in Nat
  PROVE  IsFiniteSet(1 .. n) /\ Cardinality(1 .. n) = n
  BY FS_Interval

\* The positions of t with a larger entry than v, and those with one as large.
Above(t, v) == {k \in DOMAIN t : t[k] > v}
NotBelow(t, v) == {k \in DOMAIN t : t[k] >= v}
\* v is the r-th entry of t in descending order.
HasRank(t, r, v) ==
    /\ v \in {t[k] : k \in DOMAIN t}
    /\ Cardinality(Above(t, v)) < r
    /\ r <= Cardinality(NotBelow(t, v))

\* The positions counted are finitely many.
LEMMA RankCounts ==
  ASSUME NEW t \in Seq(Nat), NEW v \in Nat
  PROVE  /\ IsFiniteSet(Above(t, v)) /\ Cardinality(Above(t, v)) \in Nat
         /\ IsFiniteSet(NotBelow(t, v)) /\ Cardinality(NotBelow(t, v)) \in Nat
<1>1. IsFiniteSet(DOMAIN t)
  <2>1. DOMAIN t = 1 .. Len(t) /\ Len(t) \in Nat
    BY LenProperties
  <2>. QED BY <2>1, FS_Interval
<1>2. Above(t, v) \subseteq DOMAIN t /\ NotBelow(t, v) \subseteq DOMAIN t
  BY DEF Above, NotBelow
<1>. QED BY <1>1, <1>2, FS_Subset, FS_CardinalityType

\* A larger value has a lower rank.
LEMMA RanksDescend ==
  ASSUME NEW t \in Seq(Nat), NEW r \in Nat, NEW s \in Nat, r <= s,
         NEW v, NEW w, HasRank(t, r, v), HasRank(t, s, w)
  PROVE  v \in Nat /\ w \in Nat /\ v >= w
<1>1. v \in Nat /\ w \in Nat
  BY ElementOfSeq, LenProperties DEF HasRank
<1>2. ASSUME v < w PROVE FALSE
  <2>1. NotBelow(t, w) \subseteq Above(t, v)
    <3>1. \A k \in DOMAIN t : t[k] \in Nat
      BY ElementOfSeq, LenProperties
    <3>. QED BY <1>1, <1>2, <3>1 DEF Above, NotBelow
  <2>2. Cardinality(NotBelow(t, w)) <= Cardinality(Above(t, v))
    BY <1>1, <2>1, RankCounts, FS_Subset
  <2>3. s <= Cardinality(NotBelow(t, w)) /\ Cardinality(Above(t, v)) < r
    BY DEF HasRank
  <2>. QED BY <1>1, <2>2, <2>3, RankCounts
<1>. QED BY <1>1, <1>2

\* Every rank is somebody's: of the values that enough entries reach, the one
\* that the fewest reach; otherwise the next larger one would do as well.
LEMMA RankExists ==
  ASSUME NEW t \in Seq(Nat), NEW r \in DOMAIN t
  PROVE  \E v : HasRank(t, r, v)
<1>. DEFINE R == {t[k] : k \in DOMAIN t}
            D(v) == Cardinality(NotBelow(t, v))
            W == {v \in R : r <= D(v)}
            N == {D(v) : v \in W}
<1>1. /\ DOMAIN t = 1 .. Len(t) /\ Len(t) \in Nat /\ r \in Nat /\ r >= 1 /\ r <= Len(t)
      /\ \A k \in DOMAIN t : t[k] \in Nat
  BY ElementOfSeq, LenProperties
<1>2. W # {}
  <2>1. R \in SUBSET Nat /\ R # {}
    BY <1>1
  <2>2. PICK v \in R : \A w \in R : v <= w
    BY <2>1, LeastNat
  <2>3. NotBelow(t, v) = 1 .. Len(t)
    BY <1>1, <2>1, <2>2 DEF NotBelow
  <2>4. D(v) = Len(t)
    <3>1. Cardinality(1 .. Len(t)) = Len(t)
      BY <1>1, UpTo
    <3>. QED BY <2>3, <3>1
  <2>. QED BY <1>1, <2>2, <2>4
<1>3. N \in SUBSET Nat /\ N # {}
  BY <1>1, <1>2, RankCounts
<1>4. PICK v \in W : \A w \in W : D(v) <= D(w)
  <2>1. PICK n \in N : \A m \in N : n <= m
    BY <1>3, LeastNat
  <2>. QED BY <2>1
<1>5. v \in Nat /\ v \in R /\ r <= D(v) /\ D(v) \in Nat /\ Cardinality(Above(t, v)) \in Nat
  BY <1>1, <1>4, RankCounts
<1>6. ASSUME r <= Cardinality(Above(t, v)) PROVE FALSE
  <2>. DEFINE U == {x \in R : x > v}
  <2>1. U \in SUBSET Nat /\ U # {}
    <3>1. Above(t, v) # {}
      <4>1. Cardinality(Above(t, v)) # 0
        BY <1>1, <1>5, <1>6
      <4>. QED BY <4>1, FS_EmptySet
    <3>. QED BY <1>1, <3>1 DEF Above
  <2>2. PICK w \in U : \A x \in U : w <= x
    BY <2>1, LeastNat
  <2>3. w \in Nat /\ w \in R /\ w > v
    BY <2>1, <2>2
  <2>4. NotBelow(t, w) = Above(t, v)
    BY <1>1, <1>5, <2>2, <2>3 DEF NotBelow, Above
  <2>5. w \in W
    BY <1>6, <2>3, <2>4
  <2>6. Above(t, v) \subseteq NotBelow(t, v) /\ Above(t, v) # NotBelow(t, v)
    BY <1>1, <1>5 DEF NotBelow, Above
  <2>7. Cardinality(Above(t, v)) < D(v)
    <3>1. IsFiniteSet(NotBelow(t, v))
      BY <1>5, RankCounts
    <3>2. /\ Cardinality(Above(t, v)) <= D(v)
          /\ Cardinality(NotBelow(t, v)) # Cardinality(Above(t, v))
      BY <2>6, <3>1, FS_Subset
    <3>. QED BY <1>5, <3>2
  <2>8. D(v) <= D(w)
    BY <1>4, <2>5
  <2>. QED BY <1>5, <2>4, <2>7, <2>8
<1>7. HasRank(t, r, v)
  BY <1>1, <1>5, <1>6 DEF HasRank
<1>. QED BY <1>7

\* What qsort with faked_compare leaves: the same values, in descending order,
\* and a table that descends strictly as it was.
LEMMA SortedFact ==
  ASSUME NEW t \in Seq(Nat)
  PROVE  /\ FC!Sorted(t) \in Seq(Nat) /\ Len(FC!Sorted(t)) = Len(t)
         /\ \A j, k \in DOMAIN t : j <= k => FC!Sorted(t)[j] >= FC!Sorted(t)[k]
         /\ \A k \in DOMAIN t : FC!Sorted(t)[1] >= t[k]
         /\ (\A j, k \in DOMAIN t : j < k => t[j] > t[k]) => FC!Sorted(t) = t
<1>. DEFINE s == FC!Sorted(t)
<1>1. /\ DOMAIN t = 1 .. Len(t) /\ Len(t) \in Nat
      /\ \A k \in DOMAIN t : t[k] \in Nat
  BY ElementOfSeq, LenProperties
<1>2. \A r \in DOMAIN t : HasRank(t, r, s[r])
  <2>. SUFFICES ASSUME NEW r \in DOMAIN t PROVE HasRank(t, r, s[r])
    OBVIOUS
  <2>. DEFINE R == {t[k] : k \in DOMAIN t}
              P(v) == /\ FC!Cardinality({k \in DOMAIN t : t[k] > v}) < r
                      /\ r <= FC!Cardinality({k \in DOMAIN t : t[k] >= v})
  <2>1. \A x : FC!Cardinality(x) = Cardinality(x)
    BY DEF FC!Cardinality, Cardinality
  <2>2. \A v : v \in R /\ P(v) <=> HasRank(t, r, v)
    BY <2>1 DEF HasRank, Above, NotBelow
  <2>3. s[r] = CHOOSE v \in R : P(v)
    BY DEF FC!Sorted
  <2>4. \E v \in R : P(v)
    BY <2>2, RankExists
  <2>. HIDE DEF P, R
  <2>5. s[r] \in R /\ P(s[r])
    BY <2>3, <2>4
  <2>. QED BY <2>2, <2>5
<1>3. DOMAIN s = DOMAIN t /\ s = [r \in DOMAIN t |-> s[r]]
  <2>. DEFINE e(r) ==
         CHOOSE v \in {t[k] : k \in DOMAIN t} :
            /\ FC!Cardinality({k \in DOMAIN t : t[k] > v}) < r
            /\ r <= FC!Cardinality({k \in DOMAIN t : t[k] >= v})
  <2>1. s = [r \in DOMAIN t |-> e(r)]
    BY DEF FC!Sorted
  <2>. HIDE DEF e, s
  <2>. QED BY <2>1
<1>. HIDE DEF s
<1>4. \A r \in DOMAIN t : s[r] \in Nat
  BY <1>1, <1>2 DEF HasRank
<1>5. s \in [1 .. Len(t) -> Nat]
  BY <1>1, <1>3, <1>4
<1>6. s \in Seq(Nat) /\ Len(s) = Len(t)
  <2>1. s \in Seq(Nat)
    BY <1>1, <1>5, SeqDef
  <2>. QED BY <1>1, <1>3, <2>1, LenProperties
<1>7. \A j, k \in DOMAIN t : j <= k => s[j] >= s[k]
  BY <1>1, <1>2, RanksDescend
<1>8. ASSUME NEW k \in DOMAIN t PROVE s[1] >= t[k]
  <2>1. HasRank(t, 1, s[1]) /\ s[1] \in Nat
    BY <1>1, <1>2, <1>4
  <2>2. Cardinality(Above(t, s[1])) = 0
    <3>1. Cardinality(Above(t, s[1])) \in Nat
      BY <2>1, RankCounts
    <3>2. Cardinality(Above(t, s[1])) < 1
      BY <2>1 DEF HasRank
    <3>. QED BY <3>1, <3>2
  <2>3. Above(t, s[1]) = {}
    BY <2>1, <2>2, RankCounts, FS_EmptySet
  <2>. QED BY <1>1, <2>1, <2>3 DEF Above
<1>9. ASSUME \A j, k \in DOMAIN t : j < k => t[j] > t[k] PROVE s = t
  <2>1. ASSUME NEW r \in DOMAIN t PROVE HasRank(t, r, t[r])
    <3>1. /\ r \in Nat /\ r - 1 \in Int /\ r >= 1
          /\ \A k \in DOMAIN t : (t[k] > t[r] <=> k < r) /\ (t[k] >= t[r] <=> k <= r)
      <4>1. r \in Nat /\ r >= 1 /\ t[r] \in Nat
        BY <1>1
      <4>2. ASSUME NEW k \in DOMAIN t
            PROVE  (t[k] > t[r] <=> k < r) /\ (t[k] >= t[r] <=> k <= r)
        <5>1. k \in Nat /\ t[k] \in Nat /\ (k < r \/ k = r \/ r < k)
          BY <1>1, <4>1
        <5>2. (k < r => t[k] > t[r]) /\ (r < k => t[r] > t[k])
          BY <1>9
        <5>. QED BY <4>1, <5>1, <5>2
      <4>. QED BY <4>1, <4>2
    <3>2. Above(t, t[r]) = 1 .. r - 1
      BY <1>1, <3>1 DEF Above
    <3>3. NotBelow(t, t[r]) = 1 .. r
      BY <1>1, <3>1 DEF NotBelow
    <3>4. Cardinality(1 .. r - 1) = r - 1 /\ Cardinality(1 .. r) = r
      <4>1. r - 1 \in Nat
        BY <3>1
      <4>. QED BY <3>1, <4>1, UpTo
    <3>. QED BY <1>1, <3>1, <3>2, <3>3, <3>4 DEF HasRank
  <2>2. \A r \in DOMAIN t : s[r] >= t[r] /\ t[r] >= s[r]
    BY <1>1, <1>2, <2>1, RanksDescend
  <2>3. \A r \in DOMAIN t : s[r] = t[r]
    BY <1>1, <1>4, <2>2
  <2>4. t = [r \in DOMAIN t |-> t[r]]
    BY <1>1
  <2>. QED BY <1>3, <2>3, <2>4
<1>. QED BY <1>6, <1>7, <1>8, <1>9 DEF s

-----------------------------------------------------------------------------
(* freq_change: the built table *)

\* The unsigned value of a number that fits, and of a small negative one.
LEMMA ModFact ==
  ASSUME NEW m \in Nat \ {0}, NEW a \in Int
  PROVE  /\ a \in 0 .. m - 1 => a % m = a
         /\ a < 0 /\ a + m >= 0 => a % m = a + m
  OBVIOUS

\* Multiples of st ascend in steps of at least st.
LEMMA Multiples ==
  ASSUME NEW st \in Nat, NEW a \in Nat, NEW b \in Nat, a < b
  PROVE  a * st \in Nat /\ b * st \in Nat /\ a * st + st <= b * st
<1>1. PICK k \in Nat : b = a + 1 + k
  OBVIOUS
<1>2. b * st = a * st + st + k * st
  BY <1>1
<1>3. k * st \in Nat /\ a * st \in Nat
  BY <1>1
<1>. QED BY <1>2, <1>3

\* Quotient and remainder.
LEMMA DivFact ==
  ASSUME NEW R \in Nat, NEW st \in Nat \ {0}
  PROVE  /\ R \div st \in Nat /\ R % st \in Nat /\ R % st < st
         /\ R = (R \div st) * st + (R % st)
  OBVIOUS

\* The table built from a maximum, a minimum and a step that is not larger than
\* the range: it descends from max to min, unless the last subtraction wraps,
\* which takes a step larger than min and leaves an entry larger than max.
LEMMA BuiltSpans ==
  ASSUME Ulong \in Nat, NEW d, d.max \in Nat, d.min \in 0 .. d.max, 2 * d.max < Ulong,
         NEW st \in Nat \ {0}, st <= d.max - d.min
  PROVE  LET t == FC!BuiltTable(d, st) IN
         /\ t \in Seq(Nat) /\ Len(t) = FC!TableSize(d, st) /\ Len(t) \in Nat \ {0}
         /\ \/ /\ t[1] = d.max /\ t[Len(t)] = d.min
               /\ \A j, k \in DOMAIN t : j < k => t[j] > t[k]
            \/ (\E k \in DOMAIN t : t[k] > d.max) /\ st > d.min
<1>. DEFINE t == FC!BuiltTable(d, st)
            n == FC!TableSize(d, st)
            R == d.max - d.min
            q == R \div st
            r == R % st
            raw(k) == d.max - (k - 1) * st
<1>1. /\ d.max \in Nat /\ d.min \in Nat /\ R \in Nat /\ R <= d.max /\ d.max < Ulong
      /\ Ulong \in Nat \ {0}
  OBVIOUS
<1>2. q \in Nat /\ r \in Nat /\ r < st /\ R = q * st + r
  BY <1>1, DivFact
<1>3. n = q + 1 + (IF r # 0 THEN 1 ELSE 0)
  BY DEF FC!TableSize
<1>4. /\ DOMAIN t = 1 .. n
      /\ \A k \in 1 .. n : t[k] = LET f == raw(k) % Ulong IN IF d.min < f THEN f ELSE d.min
  BY DEF FC!BuiltTable
<1>5. t = [k \in 1 .. n |-> t[k]]
  BY DEF FC!BuiltTable
<1>. HIDE DEF t, n, q, r, R
<1>6. q * st \in Nat /\ n \in Nat \ {0} /\ q + 1 <= n /\ n <= q + 2
  BY <1>2, <1>3
<1>7. \A k \in 1 .. n : raw(k) \in Int
  BY <1>1, <1>6
<1>8. ASSUME NEW k \in 1 .. q + 1 PROVE raw(k) >= d.min + r /\ raw(k) <= d.max
  <2>1. (k - 1) * st \in Nat /\ (k - 1) * st <= q * st
    <3>1. k - 1 \in Nat /\ (k - 1 < q \/ k - 1 = q)
      BY <1>2
    <3>2. CASE k - 1 < q
      BY <1>2, <3>1, <3>2, Multiples
    <3>3. CASE k - 1 = q
      BY <1>6, <3>3
    <3>. QED BY <3>1, <3>2, <3>3
  <2>2. d.max = d.min + q * st + r
    BY <1>1, <1>2 DEF R
  <2>. QED BY <1>1, <1>2, <1>6, <2>1, <2>2
<1>9. raw(1) = d.max /\ raw(q + 1) = d.min + r /\ raw(q + 2) = d.min + r - st
  <2>1. (q + 1 - 1) * st = q * st /\ (q + 2 - 1) * st = q * st + st /\ (1 - 1) * st = 0
    BY <1>2
  <2>. QED BY <1>1, <1>2, <1>6, <2>1 DEF R
<1>10. \A j, k \in 1 .. q + 1 : j < k => raw(j) > raw(k)
  <2>. SUFFICES ASSUME NEW j \in 1 .. q + 1, NEW k \in 1 .. q + 1, j < k
                PROVE  raw(j) > raw(k)
    OBVIOUS
  <2>1. j - 1 \in Nat /\ k - 1 \in Nat /\ j - 1 < k - 1
    BY <1>2
  <2>2. (j - 1) * st \in Nat /\ (k - 1) * st \in Nat /\ (j - 1) * st + st <= (k - 1) * st
    BY <2>1, Multiples
  <2>. QED BY <1>1, <2>2
<1>11. raw(q + 2) \in Int
  BY <1>1, <1>2, <1>9
<1>. HIDE DEF raw
<1>12. ASSUME NEW k \in 1 .. q + 1 PROVE t[k] = raw(k)
  <2>1. raw(k) \in 0 .. Ulong - 1 /\ raw(k) >= d.min /\ k \in 1 .. n
    <3>1. k \in 1 .. n
      BY <1>2, <1>6
    <3>2. raw(k) \in Int /\ raw(k) >= d.min + r /\ raw(k) <= d.max
      BY <1>7, <1>8, <3>1
    <3>3. r \in Nat /\ d.max \in Nat /\ d.min \in Nat /\ d.max < Ulong /\ Ulong \in Nat
      BY <1>1, <1>2
    <3>4. raw(k) >= d.min /\ raw(k) >= 0 /\ raw(k) <= Ulong - 1
      BY <3>2, <3>3
    <3>. QED BY <3>1, <3>2, <3>3, <3>4
  <2>2. raw(k) % Ulong = raw(k)
    BY <1>1, <2>1, ModFact
  <2>3. k \in 1 .. n /\ raw(k) \in Int /\ raw(k) >= d.min /\ d.min \in Int
    BY <1>1, <2>1
  <2>4. t[k] = IF d.min < raw(k) THEN raw(k) ELSE d.min
    BY <1>4, <2>2, <2>3
  <2>. HIDE <1>4
  <2>. QED BY <2>3, <2>4
<1>13. ASSUME n = q + 2
       PROVE  /\ raw(n) >= 0 => t[n] = d.min
              /\ raw(n) < 0 => t[n] > d.max /\ st > d.min
  <2>1. raw(n) = d.min + r - st /\ raw(n) \in Int /\ n \in 1 .. n
    BY <1>6, <1>9, <1>11, <1>13
  <2>2. raw(n) < d.min /\ raw(n) >= 0 - d.max
    BY <1>1, <1>2, <2>1 DEF R
  <2>3. ASSUME raw(n) >= 0 PROVE t[n] = d.min
    <3>1. raw(n) % Ulong = raw(n)
      BY <1>1, <2>1, <2>2, <2>3, ModFact
    <3>. QED BY <1>1, <1>4, <2>1, <2>2, <2>3, <3>1
  <2>4. ASSUME raw(n) < 0 PROVE t[n] > d.max /\ st > d.min
    <3>1. raw(n) + Ulong > d.max
      BY <1>1, <2>1, <2>2
    <3>2. raw(n) % Ulong = raw(n) + Ulong
      BY <1>1, <2>1, <2>4, <3>1, ModFact
    <3>3. t[n] = raw(n) + Ulong
      BY <1>1, <1>4, <2>1, <3>1, <3>2
    <3>4. st > d.min
      BY <1>1, <1>2, <2>1, <2>4
    <3>. QED BY <2>4, <3>1, <3>3, <3>4
  <2>. QED BY <2>3, <2>4
<1>14. t[1] = d.max /\ \A k \in 1 .. q + 1 : t[k] \in Nat /\ t[k] >= d.min + r
  BY <1>1, <1>2, <1>7, <1>8, <1>9, <1>12, <1>6
<1>15. \A j, k \in 1 .. q + 1 : j < k => t[j] > t[k]
  BY <1>10, <1>12
<1>16. /\ \A k \in 1 .. n : t[k] \in Nat
       /\ \/ t[n] = d.min /\ \A j, k \in 1 .. n : j < k => t[j] > t[k]
          \/ (\E k \in 1 .. n : t[k] > d.max) /\ st > d.min
  <2>1. CASE r = 0
    <3>1. n = q + 1 /\ t[n] = d.min
      BY <1>1, <1>2, <1>3, <1>9, <1>12, <2>1
    <3>. QED BY <1>14, <1>15, <3>1
  <2>2. CASE r # 0
    <3>1. n = q + 2 /\ n \in 1 .. n /\ \A k \in 1 .. n : k = n \/ k \in 1 .. q + 1
      BY <1>2, <1>3, <2>2
    <3>2. raw(n) \in Int
      BY <1>7, <3>1
    <3>3. CASE raw(n) >= 0
      <4>1. t[n] = d.min /\ d.min + r > d.min
        BY <1>1, <1>2, <1>13, <2>2, <3>1, <3>3
      <4>2. \A k \in 1 .. n : t[k] \in Nat
        BY <1>1, <1>14, <3>1, <4>1
      <4>3. ASSUME NEW j \in 1 .. n, NEW k \in 1 .. n, j < k PROVE t[j] > t[k]
        <5>1. j \in 1 .. q + 1
          BY <1>2, <3>1, <4>3
        <5>2. CASE k = n
          BY <1>1, <1>2, <1>14, <4>1, <5>1, <5>2
        <5>3. CASE k \in 1 .. q + 1
          BY <1>15, <4>3, <5>1, <5>3
        <5>. QED BY <3>1, <5>2, <5>3
      <4>. QED BY <4>1, <4>2, <4>3
    <3>4. CASE raw(n) < 0
      <4>1. t[n] > d.max /\ st > d.min /\ t[n] \in Nat
        BY <1>1, <1>4, <1>13, <3>1, <3>2, <3>4
      <4>. QED BY <1>14, <3>1, <4>1
    <3>. QED BY <3>2, <3>3, <3>4
  <2>. QED BY <2>1, <2>2
<1>17. t \in Seq(Nat) /\ Len(t) = n
  <2>1. t \in [1 .. n -> Nat]
    BY <1>5, <1>16
  <2>2. t \in Seq(Nat)
    BY <1>6, <2>1, SeqDef
  <2>. QED BY <1>4, <1>6, <2>2, LenProperties
<1>. QED BY <1>4, <1>6, <1>14, <1>16, <1>17 DEF t, n

-----------------------------------------------------------------------------
(* freq_change: the tables and the speeds *)

\* What the kernel promises of a driver.  Its frequencies, at most some GHz in
\* kHz, fit an unsigned long also in percent.
SaneDriver(d) ==
    /\ d.max \in Nat \ {0} /\ d.min \in 0 .. d.max /\ 100 * d.max < Ulong
    /\ d.saf \in Seq(Nat) /\ d.mhz \in BOOLEAN

\* The numbers of the command line, of which the step is unsigned.
SaneOption(o) == o.c \in Int /\ o.u \in Int /\ o.s \in Nat

Descends(t) == \A j, k \in DOMAIN t : j <= k => t[j] >= t[k]

\* The disjunction of TableSpansRange, for the driver d, its table t, a step s.
Spans(d, t, s) ==
    \/ /\ t[1] = d.max /\ t[Len(t)] = d.min
       /\ \A k \in 1 .. Len(t) - 1 : t[k] > t[k + 1]
    \/ t[1] > d.max /\ s > d.min

\* The table of a new CPU, read or built, and sorted.
LEMMA NewTable ==
  ASSUME Ulong \in Nat, NEW d, SaneDriver(d), NEW st \in Nat, st <= d.max - d.min,
         FC!Built(d) => st # 0
  PROVE  LET t == FC!NewCpu(d, st).table IN
         /\ t \in Seq(Nat) /\ Descends(t)
         /\ FC!Built(d) => Spans(d, t, st)
<1>. DEFINE t == FC!NewCpu(d, st).table
<1>1. CASE ~FC!Built(d)
  <2>1. t = FC!Sorted(d.saf) /\ d.saf \in Seq(Nat)
    BY <1>1 DEF FC!NewCpu, SaneDriver
  <2>2. t \in Seq(Nat) /\ Descends(t)
    <3>1. /\ FC!Sorted(d.saf) \in Seq(Nat) /\ Len(FC!Sorted(d.saf)) = Len(d.saf)
          /\ \A j, k \in DOMAIN d.saf :
                j <= k => FC!Sorted(d.saf)[j] >= FC!Sorted(d.saf)[k]
      BY <2>1, SortedFact
    <3>. QED BY <2>1, <3>1, LenProperties DEF Descends
  <2>. QED BY <1>1, <2>2
<1>2. CASE FC!Built(d)
  <2>. DEFINE b == FC!BuiltTable(d, st)
  <2>1. /\ b \in Seq(Nat) /\ Len(b) \in Nat \ {0}
        /\ \/ /\ b[1] = d.max /\ b[Len(b)] = d.min
              /\ \A j, k \in DOMAIN b : j < k => b[j] > b[k]
           \/ (\E k \in DOMAIN b : b[k] > d.max) /\ st > d.min
    <3>1. d.max \in Nat /\ d.min \in 0 .. d.max /\ 2 * d.max < Ulong /\ st \in Nat \ {0}
      BY <1>2 DEF SaneDriver
    <3>. QED BY <3>1, BuiltSpans
  <2>2. t = FC!Sorted(b)
    BY <1>2 DEF FC!NewCpu
  <2>. HIDE DEF b, t
  <2>3. /\ t \in Seq(Nat) /\ Len(t) = Len(b)
        /\ \A j, k \in DOMAIN b : j <= k => t[j] >= t[k]
        /\ \A k \in DOMAIN b : t[1] >= b[k]
        /\ (\A j, k \in DOMAIN b : j < k => b[j] > b[k]) => t = b
    BY <2>1, <2>2, SortedFact
  <2>4. DOMAIN b = 1 .. Len(b) /\ DOMAIN t = 1 .. Len(b)
    BY <2>1, <2>3, LenProperties
  <2>5. Descends(t)
    BY <2>3, <2>4 DEF Descends
  <2>6. Spans(d, t, st)
    <3>1. CASE /\ b[1] = d.max /\ b[Len(b)] = d.min
               /\ \A j, k \in DOMAIN b : j < k => b[j] > b[k]
      <4>1. t = b
        BY <2>3, <3>1
      <4>2. ASSUME NEW k \in 1 .. Len(b) - 1 PROVE b[k] > b[k + 1]
        <5>1. k \in DOMAIN b /\ k + 1 \in DOMAIN b /\ k < k + 1
          BY <2>1, <2>4
        <5>. QED BY <3>1, <5>1
      <4>. QED BY <3>1, <4>1, <4>2 DEF Spans
    <3>2. CASE (\E k \in DOMAIN b : b[k] > d.max) /\ st > d.min
      <4>1. PICK k \in DOMAIN b : b[k] > d.max
        BY <3>2
      <4>2. t[1] >= b[k] /\ 1 \in DOMAIN t
        BY <2>1, <2>3, <2>4
      <4>3. b[k] \in Nat /\ t[1] \in Nat /\ d.max \in Nat
        BY <2>1, <2>3, <2>4, <4>2, ElementOfSeq DEF SaneDriver
      <4>4. t[1] > d.max
        BY <4>1, <4>2, <4>3
      <4>. QED BY <3>2, <4>4 DEF Spans
    <3>. QED BY <2>1, <3>1, <3>2
  <2>. QED BY <2>3, <2>5, <2>6 DEF t
<1>. QED BY <1>1, <1>2

\* The CPUs of the unit that begins at c are CPUs of the machine and have c as
\* their unit.
LEMMA LeaderUnit ==
  ASSUME FC!ncpus \in Nat \ {0}, opt.c \in Int, FC!Accepted,
         NEW c \in FC!CPUs, c = FC!scalable_unit(c)
  PROVE  /\ c \in FC!Unit(c)
         /\ \A x \in FC!Unit(c) : x \in FC!CPUs /\ FC!scalable_unit(x) = c
<1>. DEFINE T == FC!threads_per_core
            N == FC!ncpus \div T
            a == c \div T
<1>1. T \in Nat \ {0}
  BY DEF FC!threads_per_core
<1>2. c \in Nat /\ c < FC!ncpus
  BY DEF FC!CPUs
<1>3. FC!ncpus % T = 0
  BY DEF FC!Accepted
<1>4. c = a * T /\ FC!Unit(c) = c .. c + T - 1
  BY DEF FC!scalable_unit, FC!Unit
<1>5. \A x : FC!scalable_unit(x) = (x \div T) * T
  BY DEF FC!scalable_unit
<1>. HIDE DEF T
<1>6. a \in Nat /\ N \in Nat /\ FC!ncpus = N * T
  <2>1. N \in Nat /\ FC!ncpus = N * T + (FC!ncpus % T)
    BY <1>1, DivFact
  <2>2. a \in Nat
    BY <1>1, <1>2
  <2>3. N * T \in Nat
    BY <1>1, <2>1
  <2>. QED BY <1>3, <2>1, <2>2, <2>3
<1>. HIDE DEF a, N
<1>7. a < N
  <2>. SUFFICES ASSUME N <= a PROVE FALSE
    BY <1>6
  <2>1. CASE N = a
    BY <1>2, <1>4, <1>6, <2>1
  <2>2. CASE N < a
    <3>1. N * T \in Nat /\ a * T \in Nat /\ N * T + T <= a * T
      BY <1>1, <1>6, <2>2, Multiples
    <3>. QED BY <1>1, <1>2, <1>4, <1>6, <3>1
  <2>. QED BY <1>6, <2>1, <2>2
<1>8. c + T <= FC!ncpus
  <2>1. a * T + T <= N * T
    BY <1>1, <1>6, <1>7, Multiples
  <2>. QED BY <1>4, <1>6, <2>1
<1>9. ASSUME NEW x \in c .. c + T - 1 PROVE x \in FC!CPUs /\ (x \div T) * T = c
  <2>1. x \in Nat /\ c <= x /\ x < c + T /\ x \in FC!CPUs
    BY <1>1, <1>2, <1>8 DEF FC!CPUs
  <2>. DEFINE b == x \div T
  <2>2. b \in Int /\ b * T \in Int /\ b * T <= x /\ x < b * T + T
    BY <1>1, <2>1
  <2>. HIDE DEF b
  <2>3. a * T < b * T + T /\ b * T < a * T + T
    BY <1>1, <1>2, <1>4, <2>1, <2>2
  <2>4. a = b
    BY <1>1, <1>6, <2>2, <2>3, SameMultiple
  <2>. QED BY <1>4, <2>1, <2>4 DEF b
<1>10. c \in c .. c + T - 1
  BY <1>1, <1>2
<1>11. \A x \in c .. c + T - 1 : x \in FC!CPUs /\ FC!scalable_unit(x) = c
  BY <1>5, <1>9
<1>. QED BY <1>4, <1>10, <1>11

CpuRec == [table : Seq(Nat), max : Nat \ {0}, min : Nat, mhz : BOOLEAN,
           speed : Nat, level : Int]

\* What a CPU that is set up keeps of its driver: its maximum and a table that
\* descends, and spans the range where the program built it.
CpuOK(c) ==
    LET d == machine[c + 1]
        t == cpu[c].table
    IN  /\ c \in FC!CPUs /\ cpu[c] \in CpuRec
        /\ cpu[c].max = TopSpeed(c) /\ cpu[c].mhz = d.mhz
        /\ Descends(t)
        /\ FC!Built(d) => Spans(d, t, opt.s)

\* The entries at a watermark, and the lowest of them.
AtMark(c) ==
    LET t == cpu[c].table IN {k \in DOMAIN t : FC!mtr(t)[k] \in {opt.e, opt.b}}
Mark(c) == FC!Max(AtMark(c))

\* With sane tables the speed of a unit is an entry of its first CPU's table,
\* not below the watermark.
SpeedFromTable(c) ==
    \E k \in DOMAIN cpu[c].table : k <= Mark(c) /\ cpu[c].speed = cpu[c].table[k]

SpeedsFromTable ==
    FC!AllWellSet => \A c \in FC!CPUs : c = FC!scalable_unit(c) => SpeedFromTable(c)

\* current_level of c is up to date.
Fresh(c) == cpu[c].level = (100 * cpu[c].speed) \div cpu[c].max

FreqInv ==
    /\ UnitInv
    /\ machine \in Machines /\ step \in Nat /\ step <= opt.s
    /\ pc \notin {"options", "exit"} => FC!Accepted
    /\ \A c \in DOMAIN cpu : CpuOK(c)
    /\ pc \in {"poll", "decide"} /\ opt.u = -1 => i \in 0 .. FC!num_real_cpus - 1
    /\ pc = "terminate" => IF opt.u = -1 THEN i \in FC!CPUs ELSE i = opt.u
    /\ pc = "decide" => FC!cpubase \in FC!CPUs /\ Fresh(FC!cpubase)
    /\ SpeedsFromTable
    /\ FC!DefinedWhenWellSet

\* The constants: no empty machine, sane drivers and options.
FreqConstants ==
    /\ Ulong \in Nat
    /\ \A m \in Machines : Len(m) \in Nat /\ \A k \in 1 .. Len(m) : SaneDriver(m[k])
    /\ \A o \in Options : SaneOption(o)

\* The lowest entry at a watermark is one of the table's.
LEMMA MarkFact ==
  ASSUME NEW c, cpu[c].table \in Seq(Nat), FC!WellSet(c)
  PROVE  /\ Mark(c) \in DOMAIN cpu[c].table
         /\ FC!muda(c) = {Mark(c)}
         /\ FC!WatermarkSpeed(c) = cpu[c].table[Mark(c)]
<1>. DEFINE t == cpu[c].table
<1>1. DOMAIN t = 1 .. Len(t) /\ Len(t) \in Nat
  BY LenProperties
<1>2. AtMark(c) \in SUBSET (0 .. Len(t)) /\ AtMark(c) # {}
  BY <1>1 DEF AtMark, FC!WellSet
<1>3. Mark(c) \in AtMark(c)
  BY <1>1, <1>2, MaxFact DEF Mark
<1>4. FC!muda(c) = {Mark(c)}
  BY <1>2 DEF FC!muda, FC!LocalIndex, AtMark, Mark
<1>5. FC!WatermarkSpeed(c) = t[Mark(c)]
  BY DEF FC!WatermarkSpeed, AtMark, Mark
<1>. QED BY <1>3, <1>4, <1>5 DEF AtMark

\* The entry that change_speed finds to be the present one.
LEMMA PresentEntry ==
  ASSUME FreqConstants, FreqInv, NEW c \in FC!CPUs, CpuOK(c), FC!WellSet(c), Fresh(c),
         NEW k \in DOMAIN cpu[c].table, cpu[c].speed = cpu[c].table[k]
  PROVE  FC!atual(c) = {k}
<1>. DEFINE t == cpu[c].table
            d == machine[c + 1]
            A == {j \in DOMAIN t : FC!mtr(t)[j] = cpu[c].level}
<1>1. /\ t \in Seq(Nat) /\ DOMAIN t = 1 .. Len(t) /\ Len(t) \in Nat
      /\ \A j \in DOMAIN t : t[j] \in Nat
  BY LenProperties, ElementOfSeq DEF CpuOK, CpuRec
<1>2. SaneDriver(d)
  BY DEF FreqInv, UnitInv, FreqConstants, FC!ncpus, FC!CPUs
<1>3. cpu[c].max = d.max /\ t[1] = d.max
  <2>1. ~d.mhz /\ t[1] = cpu[c].max /\ d.max \in Nat
    BY <1>2 DEF CpuOK, FC!WellSet, SaneDriver
  <2>2. cpu[c].max = 1 * d.max
    BY <2>1 DEF CpuOK, TopSpeed
  <2>. QED BY <2>1, <2>2
<1>4. t[k] <= d.max
  BY <1>1, <1>3 DEF CpuOK, Descends
<1>5. (t[k] * 100) % Ulong = 100 * t[k]
  <2>1. t[k] * 100 \in 0 .. Ulong - 1 /\ Ulong \in Nat \ {0} /\ t[k] * 100 = 100 * t[k]
    <3>1. t[k] \in Nat /\ d.max \in Nat /\ 100 * d.max < Ulong /\ Ulong \in Nat
      BY <1>1, <1>2 DEF SaneDriver, FreqConstants
    <3>. HIDE DEF t, d
    <3>. QED BY <1>4, <3>1
  <2>. QED BY <2>1, ModFact
<1>6. FC!mtr(t)[k] = cpu[c].level
  BY <1>3, <1>5 DEF FC!mtr, Fresh
<1>7. A = {k}
  BY <1>6 DEF FC!WellSet
<1>8. FC!Max(A) = k
  <2>1. A \in SUBSET (0 .. Len(t)) /\ A # {}
    BY <1>1, <1>7
  <2>. QED BY <1>1, <1>7, <2>1, MaxFact
<1>. QED BY <1>7, <1>8 DEF FC!atual, FC!LocalIndex

\* With sane tables change_speed computes an index of the table that is not
\* below the watermark: where it leaps, and where the level is up to date and a
\* unit at full speed is not raised.
LEMMA IndexInTable ==
  ASSUME FreqConstants, FreqInv, NEW c \in FC!CPUs, CpuOK(c), FC!WellSet(c),
         SpeedFromTable(c), NEW mode, NEW f, mode \in {FC!LOWER, FC!RAISE},
         \/ mode = FC!LOWER /\ f = FC!LEAPS
         \/ Fresh(c) /\ (mode = FC!RAISE => cpu[c].speed # cpu[c].max),
         NEW a \in FC!atual(c), NEW m \in FC!muda(c)
  PROVE  /\ FC!SpeedIndex(a, m, mode, f) \in DOMAIN cpu[c].table
         /\ FC!SpeedIndex(a, m, mode, f) <= Mark(c)
<1>. DEFINE t == cpu[c].table
<1>1. t \in Seq(Nat) /\ DOMAIN t = 1 .. Len(t) /\ Len(t) \in Nat
  BY LenProperties DEF CpuOK, CpuRec
<1>2. m = Mark(c) /\ m \in DOMAIN t
  BY <1>1, MarkFact
<1>3. CASE FC!SpeedIndex(a, m, mode, f) = m
  BY <1>1, <1>2, <1>3
<1>4. CASE FC!SpeedIndex(a, m, mode, f) # m
  <2>1. a # m /\ ~(mode = FC!LOWER /\ f = FC!LEAPS)
    BY <1>4 DEF FC!SpeedIndex, FC!LOWER, FC!RAISE
  <2>2. Fresh(c) /\ (mode = FC!RAISE => cpu[c].speed # cpu[c].max)
    BY <2>1
  <2>3. PICK k \in DOMAIN t : k <= Mark(c) /\ cpu[c].speed = t[k]
    BY DEF SpeedFromTable
  <2>4. a = k
    BY <2>2, <2>3, PresentEntry
  <2>5. CASE mode = FC!RAISE
    <3>1. FC!SpeedIndex(a, m, mode, f) = k - 1
      BY <1>4, <2>4, <2>5 DEF FC!SpeedIndex
    <3>2. k # 1
      BY <2>2, <2>3, <2>5 DEF FC!WellSet
    <3>. QED BY <1>1, <1>2, <2>3, <3>1, <3>2
  <2>6. CASE mode # FC!RAISE
    <3>1. FC!SpeedIndex(a, m, mode, f) = k + 1
      BY <1>4, <2>4, <2>6 DEF FC!SpeedIndex
    <3>. QED BY <1>1, <1>2, <2>1, <2>3, <2>4, <3>1
  <2>. QED BY <2>5, <2>6
<1>. QED BY <1>3, <1>4

\* A step after the setup changes speeds and levels only: the tables, the
\* watermarks and what AllWellSet says of them stay.
LEMMA SameTables ==
  ASSUME UNCHANGED <<machine, opt>>, DOMAIN cpu' = DOMAIN cpu,
         \A c \in DOMAIN cpu : /\ cpu'[c].table = cpu[c].table /\ cpu'[c].max = cpu[c].max
                               /\ cpu'[c].min = cpu[c].min /\ cpu'[c].mhz = cpu[c].mhz
  PROVE  /\ FC!ncpus' = FC!ncpus /\ FC!CPUs' = FC!CPUs
         /\ FC!num_real_cpus' = FC!num_real_cpus /\ FC!Accepted' = FC!Accepted
         /\ \A c : FC!scalable_unit(c)' = FC!scalable_unit(c)
         /\ FC!AllWellSet' <=> FC!AllWellSet
         /\ \A c \in DOMAIN cpu : Mark(c)' = Mark(c)
<1>1. /\ FC!ncpus' = FC!ncpus /\ FC!CPUs' = FC!CPUs
      /\ FC!num_real_cpus' = FC!num_real_cpus /\ FC!Accepted' = FC!Accepted
      /\ \A c : FC!scalable_unit(c)' = FC!scalable_unit(c)
  BY DEF FC!ncpus, FC!CPUs, FC!num_real_cpus, FC!Accepted, FC!scalable_unit,
         FC!threads_per_core
<1>2. FC!SiblingsAlike' <=> FC!SiblingsAlike
  BY <1>1 DEF FC!SiblingsAlike
<1>3. \A c \in DOMAIN cpu : FC!WellSet(c)' <=> FC!WellSet(c)
  <2>. SUFFICES ASSUME NEW c \in DOMAIN cpu PROVE FC!WellSet(c)' <=> FC!WellSet(c)
    OBVIOUS
  <2>1. FC!mtr(cpu[c].table)' = FC!mtr(cpu[c].table)
    BY DEF FC!mtr
  <2>. QED BY <2>1 DEF FC!WellSet
<1>4. \A c \in DOMAIN cpu : Mark(c)' = Mark(c)
  BY DEF Mark, AtMark, FC!mtr
<1>5. FC!AllWellSet' <=> FC!AllWellSet
  BY <1>1, <1>2, <1>3 DEF FC!AllWellSet
<1>. QED BY <1>1, <1>4, <1>5

\* A step of which only pc, i and counter know leaves the CPUs as they are.
LEMMA SameCpus ==
  ASSUME FreqInv, UNCHANGED <<machine, opt, cpu>>
  PROVE  /\ \A c \in DOMAIN cpu' : CpuOK(c)'
         /\ SpeedsFromTable'
<1>1. /\ FC!CPUs' = FC!CPUs /\ \A c : FC!scalable_unit(c)' = FC!scalable_unit(c)
      /\ FC!AllWellSet' <=> FC!AllWellSet
      /\ \A c \in DOMAIN cpu : Mark(c)' = Mark(c)
  BY SameTables
<1>2. \A c \in DOMAIN cpu' : CpuOK(c)'
  BY <1>1 DEF FreqInv, CpuOK, TopSpeed, FC!Built
<1>3. SpeedsFromTable'
  BY <1>1 DEF FreqInv, SpeedsFromTable, SpeedFromTable, FC!AllWellSet
<1>. QED BY <1>2, <1>3

\* change_speed keeps all this.
LEMMA ChangeSpeedOK ==
  ASSUME FreqConstants, FreqInv, FC!Accepted, DOMAIN cpu = FC!CPUs,
         NEW c \in FC!CPUs, NEW mode, NEW f, NEW next,
         FC!ChangeSpeed(c, mode, f, next), UNCHANGED <<machine, opt>>,
         FC!AllWellSet /\ c = FC!scalable_unit(c) =>
            /\ mode \in {FC!LOWER, FC!RAISE}
            /\ \/ mode = FC!LOWER /\ f = FC!LEAPS
               \/ Fresh(c) /\ (mode = FC!RAISE => cpu[c].speed # cpu[c].max)
  PROVE  /\ DOMAIN cpu' = FC!CPUs
         /\ \A d \in DOMAIN cpu' : CpuOK(d)'
         /\ SpeedsFromTable'
         /\ FC!AllWellSet' <=> FC!AllWellSet
         /\ pc' = next \/ (pc' = "undefined" /\ ~FC!AllWellSet)
<1>1. CASE c # FC!scalable_unit(c)
  <2>1. cpu' = cpu /\ pc' = next
    BY <1>1 DEF FC!ChangeSpeed
  <2>. QED BY <2>1, SameCpus, SameTables
<1>2. CASE c = FC!scalable_unit(c)
  <2>1. PICK a \in FC!atual(c), m \in FC!muda(c) :
           LET k == FC!SpeedIndex(a, m, mode, f) IN
           IF k \in DOMAIN cpu[c].table
           THEN /\ pc' = next
                /\ cpu' = [d \in FC!CPUs |->
                     IF d \in FC!Unit(c)
                     THEN [cpu[d] EXCEPT !.speed = cpu[c].table[k]] ELSE cpu[d]]
           ELSE pc' = "undefined" /\ UNCHANGED cpu
    BY <1>2 DEF FC!ChangeSpeed
  <2>. DEFINE k == FC!SpeedIndex(a, m, mode, f)
  <2>2. ASSUME FC!AllWellSet PROVE k \in DOMAIN cpu[c].table /\ k <= Mark(c)
    <3>1. CpuOK(c) /\ FC!WellSet(c) /\ SpeedFromTable(c)
      BY <1>2, <2>2 DEF FreqInv, FC!AllWellSet, SpeedsFromTable
    <3>2. /\ mode \in {FC!LOWER, FC!RAISE}
          /\ \/ mode = FC!LOWER /\ f = FC!LEAPS
             \/ Fresh(c) /\ (mode = FC!RAISE => cpu[c].speed # cpu[c].max)
      BY <1>2, <2>2
    <3>. QED BY <3>1, <3>2, IndexInTable
  <2>. HIDE DEF k
  <2>3. CASE k \notin DOMAIN cpu[c].table
    <3>1. cpu' = cpu /\ pc' = "undefined" /\ ~FC!AllWellSet
      BY <2>1, <2>2, <2>3 DEF k
    <3>. QED BY <3>1, SameCpus, SameTables
  <2>4. CASE k \in DOMAIN cpu[c].table
    <3>. DEFINE v == cpu[c].table[k]
    <3>1. /\ pc' = next
          /\ cpu' = [d \in FC!CPUs |-> IF d \in FC!Unit(c)
                                       THEN [cpu[d] EXCEPT !.speed = v] ELSE cpu[d]]
      BY <2>1, <2>4 DEF k
    <3>2. \A d \in FC!CPUs : CpuOK(d) /\ cpu[d] \in CpuRec
      BY DEF FreqInv, CpuOK
    <3>3. v \in Nat
      BY <2>4, <3>2, ElementOfSeq, LenProperties DEF CpuRec
    <3>. HIDE DEF v
    <3>4. \A d \in FC!CPUs :
             /\ cpu'[d] \in CpuRec
             /\ cpu'[d].table = cpu[d].table /\ cpu'[d].max = cpu[d].max
             /\ cpu'[d].min = cpu[d].min /\ cpu'[d].mhz = cpu[d].mhz
             /\ cpu'[d].speed = IF d \in FC!Unit(c) THEN v ELSE cpu[d].speed
      BY <3>1, <3>2, <3>3 DEF CpuRec
    <3>5. /\ FC!CPUs' = FC!CPUs /\ \A d : FC!scalable_unit(d)' = FC!scalable_unit(d)
          /\ FC!AllWellSet' <=> FC!AllWellSet
          /\ \A d \in FC!CPUs : Mark(d)' = Mark(d)
      BY <3>1, <3>4, SameTables
    <3>6. \A d \in DOMAIN cpu' : CpuOK(d)'
      <4>. SUFFICES ASSUME NEW d \in FC!CPUs PROVE CpuOK(d)'
        BY <3>1
      <4>1. CpuOK(d) /\ cpu'[d] \in CpuRec
        BY <3>2, <3>4
      <4>. QED BY <3>4, <3>5, <4>1 DEF CpuOK, TopSpeed, FC!Built
    <3>7. SpeedsFromTable'
      <4>. SUFFICES ASSUME FC!AllWellSet, NEW d \in FC!CPUs, d = FC!scalable_unit(d)
                    PROVE  \E j \in DOMAIN cpu[d].table :
                              j <= Mark(d) /\ cpu'[d].speed = cpu[d].table[j]
        BY <3>4, <3>5 DEF SpeedsFromTable, SpeedFromTable
      <4>1. CASE d \in FC!Unit(c)
        <5>1. d = c
          <6>1. FC!ncpus \in Nat \ {0} /\ opt.c \in Int
            BY DEF FreqInv, UnitInv, FC!Accepted, FreqConstants, SaneOption
          <6>. QED BY <1>2, <4>1, <6>1, LeaderUnit
        <5>. QED BY <2>2, <2>4, <3>4, <4>1, <5>1 DEF v
      <4>2. CASE d \notin FC!Unit(c)
        <5>1. SpeedFromTable(d)
          BY DEF FreqInv, SpeedsFromTable
        <5>. QED BY <3>4, <4>2, <5>1 DEF SpeedFromTable
      <4>. QED BY <4>1, <4>2
    <3>. QED BY <3>1, <3>5, <3>6, <3>7
  <2>. QED BY <2>3, <2>4
<1>. QED BY <1>1, <1>2

\* A decision to change the speed is one to lower or to raise, and nobody asks
\* a unit at full speed to be raised: a CPU of it that does not run at its own
\* maximum does not run at that of the first, which is the same.
LEMMA VoteFact ==
  ASSUME FreqConstants, FreqInv, FC!AllWellSet, pc = "decide",
         FC!cpubase = FC!scalable_unit(FC!cpubase),
         NEW change \in FC!Votes(FC!Asked), change # FC!SAME
  PROVE  /\ change \in {FC!LOWER, FC!RAISE}
         /\ change = FC!RAISE => cpu[FC!cpubase].speed # cpu[FC!cpubase].max
<1>. DEFINE c == FC!cpubase
<1>1. /\ c \in FC!CPUs /\ c \in Int /\ DOMAIN cpu = FC!CPUs /\ FC!Accepted
      /\ FC!ncpus \in Nat \ {0} /\ opt.c \in Int /\ ~opt.n
  BY DEF FreqInv, UnitInv, FC!AllWellSet, FC!Accepted, FreqConstants, SaneOption, FC!CPUs
<1>2. c \in FC!Asked /\ \A x \in FC!Asked : x = c \/ x \in FC!Unit(c)
  <2>1. c \in FC!Unit(c)
    BY <1>1, LeaderUnit
  <2>. HIDE DEF c
  <2>2. FC!Asked \in {FC!Unit(c), {c}}
    BY DEF FC!Asked, FC!Unit, c
  <2>. QED BY <2>1, <2>2
<1>3. PICK v \in [FC!Asked -> 0 .. 3] :
         /\ \A x \in FC!Asked : v[x] \in FC!Decide(cpu[x])
         /\ change = FC!Max({v[x] : x \in FC!Asked})
  BY DEF FC!Votes
<1>4. PICK x \in FC!Asked : change = v[x]
  <2>1. {v[y] : y \in FC!Asked} \in SUBSET (0 .. 3) /\ {v[y] : y \in FC!Asked} # {}
    BY <1>2
  <2>2. FC!Max({v[y] : y \in FC!Asked}) \in {v[y] : y \in FC!Asked}
    BY <2>1, MaxFact
  <2>. QED BY <1>3, <2>2
<1>5. change \in FC!Decide(cpu[x])
  BY <1>3, <1>4
<1>6. /\ change \in {FC!LOWER, FC!RAISE}
      /\ change = FC!RAISE => cpu[x].speed # cpu[x].max
  BY <1>1, <1>5 DEF FC!Decide, FC!LOWER, FC!SAME, FC!RAISE
<1>7. x \in FC!CPUs /\ FC!scalable_unit(x) = c
  BY <1>1, <1>2, LeaderUnit
<1>8. cpu[x].speed = cpu[c].speed
  BY <1>1, <1>7 DEF FreqInv, UnitInv, OneSpeed, FC!AllWellSet
<1>9. cpu[x].max = cpu[c].max
  <2>1. CpuOK(x) /\ CpuOK(c)
    BY <1>1, <1>7 DEF FreqInv
  <2>2. TopSpeed(x) = TopSpeed(c)
    BY <1>7 DEF FC!AllWellSet, FC!SiblingsAlike, TopSpeed
  <2>. QED BY <2>1, <2>2 DEF CpuOK
<1>. QED BY <1>6, <1>8, <1>9

\* The first CPU of a unit is of that unit.
LEMMA UnitOfUnit ==
  ASSUME FC!ncpus \in Nat, opt.c \in Int, NEW c \in FC!CPUs
  PROVE  FC!scalable_unit(FC!scalable_unit(c)) = FC!scalable_unit(c)
<1>. DEFINE T == FC!threads_per_core
            a == c \div T
            b == (a * T) \div T
<1>1. T \in Nat \ {0} /\ c \in Int
  BY DEF FC!threads_per_core, FC!CPUs
<1>2. FC!scalable_unit(c) = a * T /\ FC!scalable_unit(a * T) = b * T
  BY DEF FC!scalable_unit
<1>. HIDE DEF T
<1>3. a \in Int /\ a * T \in Int
  BY <1>1
<1>. HIDE DEF a
<1>4. b \in Int /\ b * T \in Int /\ b * T <= a * T /\ a * T < b * T + T
  BY <1>1, <1>3
<1>. HIDE DEF b
<1>5. b * T < a * T + T
  BY <1>1, <1>3, <1>4
<1>6. a = b
  BY <1>1, <1>3, <1>4, <1>5, SameMultiple
<1>. QED BY <1>2, <1>6

\* There is a unit, and there are not more units than CPUs.
LEMMA UnitsCount ==
  ASSUME FC!ncpus \in Nat \ {0}, opt.c \in Int, FC!Accepted
  PROVE  FC!num_real_cpus \in 1 .. FC!ncpus
<1>. DEFINE T == FC!threads_per_core
            N == FC!ncpus \div T
<1>1. T \in Nat \ {0} /\ FC!ncpus % T = 0
  BY DEF FC!threads_per_core, FC!Accepted
<1>. HIDE DEF T
<1>2. N \in Nat /\ FC!ncpus = N * T
  <2>1. N \in Nat /\ FC!ncpus = N * T + (FC!ncpus % T)
    BY <1>1, DivFact
  <2>2. N * T \in Nat
    BY <1>1, <2>1
  <2>. QED BY <1>1, <2>1, <2>2
<1>3. FC!num_real_cpus = N
  BY DEF FC!num_real_cpus, T
<1>. HIDE DEF N
<1>4. N # 0
  BY <1>1, <1>2
<1>5. N <= FC!ncpus
  <2>1. PICK j \in Nat : T = 1 + j
    BY <1>1
  <2>2. N * T = N + N * j /\ N * j \in Nat
    BY <1>2, <2>1
  <2>. QED BY <1>2, <2>2
<1>. QED BY <1>2, <1>3, <1>4, <1>5

-----------------------------------------------------------------------------
(* freq_change: the actions *)

LEMMA FreqInitInv ==
  ASSUME FreqConstants, FC!Init
  PROVE  FreqInv
<1>1. UnitInv
  BY UnitInitInv DEF FreqConstants
<1>2. machine \in Machines /\ opt \in Options /\ step = opt.s /\ pc = "options" /\ DOMAIN cpu = {}
  BY DEF FC!Init
<1>3. step \in Nat /\ step <= opt.s
  BY <1>2 DEF FreqConstants, SaneOption
<1>4. SpeedsFromTable
  BY <1>2 DEF SpeedsFromTable, FC!AllWellSet
<1>. QED BY <1>1, <1>2, <1>3, <1>4 DEF FreqInv, FC!DefinedWhenWellSet

\* One more CPU is set up, or the program divides by a step of zero.
LEMMA FreqSetup ==
  ASSUME FreqConstants, FreqInv, FC!Setup, UnitInv'
  PROVE  FreqInv'
<1>. DEFINE d == machine[i + 1]
<1>1. /\ pc = "setup" /\ i \in 0 .. FC!ncpus /\ i < FC!ncpus /\ DOMAIN cpu = 0 .. i - 1
      /\ FC!ncpus \in Nat /\ FC!Accepted /\ machine \in Machines /\ opt \in Options
      /\ step \in Nat /\ step <= opt.s /\ opt.s \in Nat
      /\ machine' = machine /\ opt' = opt /\ step' = FC!Truncated(d)
  BY DEF FreqInv, UnitInv, FC!Setup, FC!config, FreqConstants, SaneOption
<1>2. SaneDriver(d)
  BY <1>1 DEF FreqConstants, FC!ncpus
<1>3. step' \in Nat /\ step' <= opt.s /\ step' <= d.max - d.min
  <2>1. d.max \in Nat /\ d.min \in Nat /\ d.max - d.min \in Nat
    BY <1>2 DEF SaneDriver
  <2>. HIDE DEF d
  <2>. QED BY <1>1, <2>1 DEF FC!Truncated
<1>4. /\ FC!ncpus' = FC!ncpus /\ FC!CPUs' = FC!CPUs /\ FC!Accepted'
      /\ \A c : FC!scalable_unit(c)' = FC!scalable_unit(c) /\ TopSpeed(c)' = TopSpeed(c)
      /\ \A e : FC!Built(e)' <=> FC!Built(e)
  BY <1>1 DEF FC!ncpus, FC!CPUs, FC!Accepted, FC!scalable_unit, FC!threads_per_core,
              TopSpeed, FC!Built
<1>5. CASE FC!Built(d) /\ step' = 0
  <2>1. pc' = "undefined" /\ cpu' = cpu
    BY <1>5 DEF FC!Setup
  <2>2. (\A c \in DOMAIN cpu' : CpuOK(c)') /\ SpeedsFromTable'
    BY <1>1, <2>1, SameCpus
  <2>3. FC!DefinedWhenWellSet'
    BY <1>5 DEF FC!DefinedWhenWellSet
  <2>. QED BY <1>1, <1>3, <1>4, <2>1, <2>2, <2>3 DEF FreqInv
<1>6. CASE ~(FC!Built(d) /\ step' = 0)
  <2>1. /\ cpu' = [c \in 0 .. i |-> IF c = i THEN FC!NewCpu(d, step') ELSE cpu[c]]
        /\ pc' = "setup"
    BY <1>1, <1>6 DEF FC!Setup
  <2>2. ASSUME NEW c \in DOMAIN cpu' PROVE CpuOK(c)'
    <3>1. CASE c # i
      <4>1. c \in DOMAIN cpu /\ cpu'[c] = cpu[c]
        BY <1>1, <2>1, <3>1
      <4>2. CpuOK(c)
        BY <4>1 DEF FreqInv
      <4>. QED BY <1>1, <1>4, <4>1, <4>2 DEF CpuOK
    <3>2. CASE c = i
      <4>. DEFINE n == FC!NewCpu(d, step')
      <4>1. cpu'[c] = n /\ c \in FC!CPUs
        BY <1>1, <2>1, <3>2 DEF FC!CPUs
      <4>2. /\ n.table \in Seq(Nat) /\ Descends(n.table)
            /\ FC!Built(d) => Spans(d, n.table, step')
        BY <1>2, <1>3, <1>6, NewTable DEF FreqConstants
      <4>3. /\ n.max = TopSpeed(i) /\ n.speed = TopSpeed(i) /\ n.mhz = d.mhz
            /\ n.min = (IF d.mhz THEN 1000 ELSE 1) * d.min /\ n.level = 0
            /\ n = [table |-> n.table, max |-> n.max, min |-> n.min, mhz |-> n.mhz,
                    speed |-> n.speed, level |-> n.level]
        BY DEF FC!NewCpu, TopSpeed
      <4>4. TopSpeed(i) \in Nat \ {0} /\ n.min \in Nat
        BY <1>2, <4>3 DEF SaneDriver, TopSpeed
      <4>. HIDE DEF n
      <4>5. n \in CpuRec
        BY <1>2, <4>2, <4>3, <4>4 DEF CpuRec, SaneDriver
      <4>6. Spans(d, n.table, step') => Spans(d, n.table, opt.s)
        <5>1. d.min \in Nat
          BY <1>2 DEF SaneDriver
        <5>. QED BY <1>1, <1>3, <5>1 DEF Spans
      <4>. QED BY <1>1, <1>4, <3>2, <4>1, <4>2, <4>3, <4>5, <4>6 DEF CpuOK
    <3>. QED BY <3>1, <3>2
  <2>3. SpeedsFromTable'
    <3>. SUFFICES ASSUME FC!AllWellSet', NEW c \in FC!CPUs' PROVE SpeedFromTable(c)'
      BY DEF SpeedsFromTable
    <3>. DEFINE t == cpu'[c].table
    <3>1. /\ c \in DOMAIN cpu' /\ CpuOK(c)' /\ FC!WellSet(c)'
      BY <2>2 DEF FC!AllWellSet
    <3>2. cpu'[c].speed = t[1]
      <4>1. cpu'[c].speed = TopSpeed(c)'
        BY <2>1, <3>1 DEF UnitInv
      <4>. QED BY <3>1, <4>1 DEF CpuOK, FC!WellSet
    <3>3. t \in Seq(Nat) /\ DOMAIN t = 1 .. Len(t) /\ Len(t) \in Nat
      BY <3>1, LenProperties DEF CpuOK, CpuRec
    <3>4. AtMark(c)' \in SUBSET (0 .. Len(t)) /\ AtMark(c)' # {}
      BY <3>1, <3>3 DEF AtMark, FC!WellSet
    <3>5. Mark(c)' \in AtMark(c)'
      BY <3>3, <3>4, MaxFact DEF Mark
    <3>6. Mark(c)' \in DOMAIN t
      BY <3>5 DEF AtMark
    <3>. QED BY <3>2, <3>3, <3>6 DEF SpeedFromTable
  <2>. QED BY <1>1, <1>3, <1>4, <2>1, <2>2, <2>3 DEF FreqInv, FC!DefinedWhenWellSet
<1>. QED BY <1>5, <1>6

\* The actions of which the CPUs know nothing.
LEMMA FreqQuiet ==
  ASSUME FreqConstants, FreqInv, UnitInv',
         \/ UNCHANGED FC!vars \/ FC!CheckOptions \/ FC!SetupFails
         \/ FC!SetupDone \/ FC!LeaveLoop
  PROVE  FreqInv'
<1>1. machine' = machine /\ opt' = opt /\ step' = step /\ cpu' = cpu
  BY DEF FC!vars, FC!config, FC!CheckOptions, FC!SetupFails, FC!SetupDone, FC!LeaveLoop
<1>2. /\ machine \in Machines /\ opt \in Options /\ step \in Nat /\ step <= opt.s
      /\ FC!ncpus \in Nat /\ opt.c \in Int
  BY DEF FreqInv, UnitInv, FreqConstants, SaneOption
<1>3. (\A c \in DOMAIN cpu' : CpuOK(c)') /\ SpeedsFromTable'
  BY <1>1, SameCpus
<1>4. /\ FC!ncpus' = FC!ncpus /\ FC!CPUs' = FC!CPUs /\ FC!Accepted' = FC!Accepted
      /\ FC!num_real_cpus' = FC!num_real_cpus /\ (FC!AllWellSet' <=> FC!AllWellSet)
      /\ FC!threads_per_core' = FC!threads_per_core
  BY <1>1, SameTables DEF FC!threads_per_core, FC!ncpus
<1>5. CASE UNCHANGED FC!vars
  <2>1. pc' = pc /\ i' = i /\ cpu' = cpu
    BY <1>5 DEF FC!vars
  <2>2. FC!cpubase' = FC!cpubase
    BY <1>1, <1>4, <2>1 DEF FC!cpubase
  <2>3. Fresh(FC!cpubase)' <=> Fresh(FC!cpubase)
    BY <2>1, <2>2 DEF Fresh
  <2>4. FC!DefinedWhenWellSet'
    BY <1>1, <1>4, <2>1 DEF FreqInv, FC!DefinedWhenWellSet
  <2>. QED BY <1>1, <1>2, <1>3, <1>4, <2>1, <2>2, <2>3, <2>4 DEF FreqInv
<1>6. CASE FC!CheckOptions
  <2>1. pc' \in {"setup", "exit"} /\ (pc' = "setup" => FC!Accepted)
    BY <1>6 DEF FC!CheckOptions
  <2>. QED BY <1>1, <1>2, <1>3, <1>4, <2>1 DEF FreqInv, FC!DefinedWhenWellSet
<1>7. CASE FC!SetupFails
  <2>1. pc' = "exit"
    BY <1>7 DEF FC!SetupFails
  <2>. QED BY <1>1, <1>2, <1>3, <1>4, <2>1 DEF FreqInv, FC!DefinedWhenWellSet
<1>8. CASE FC!SetupDone
  <2>1. pc = "setup" /\ pc' = "poll" /\ i' = 0 /\ FC!Accepted
    BY <1>8 DEF FC!SetupDone, FreqInv
  <2>2. 0 \in 0 .. FC!num_real_cpus - 1
    BY <1>2, <2>1, UnitsCount DEF FC!Accepted
  <2>. QED BY <1>1, <1>2, <1>3, <1>4, <2>1, <2>2 DEF FreqInv, FC!DefinedWhenWellSet
<1>9. CASE FC!LeaveLoop
  <2>1. /\ pc = "poll" /\ pc' = "terminate" /\ FC!Accepted
        /\ i' = IF opt.u = -1 THEN 0 ELSE opt.u
    BY <1>9 DEF FC!LeaveLoop, FreqInv
  <2>2. 0 \in FC!CPUs
    BY <1>2, <2>1 DEF FC!Accepted, FC!CPUs
  <2>. QED BY <1>1, <1>2, <1>3, <1>4, <2>1, <2>2 DEF FreqInv, FC!DefinedWhenWellSet
<1>. QED BY <1>5, <1>6, <1>7, <1>8, <1>9

\* The level of the CPU that the iteration is about becomes up to date.
LEMMA FreqMeasure ==
  ASSUME FreqConstants, FreqInv, UnitInv', FC!Measure
  PROVE  FreqInv'
<1>. DEFINE c == FC!cpubase
<1>1. /\ pc = "poll" /\ i' = i /\ machine' = machine /\ opt' = opt /\ step' = step
      /\ machine \in Machines /\ opt \in Options /\ step \in Nat /\ step <= opt.s
      /\ FC!ncpus \in Nat \ {0} /\ opt.c \in Int /\ opt.u \in Int
      /\ FC!Accepted /\ DOMAIN cpu = FC!CPUs
  BY DEF FreqInv, UnitInv, FreqConstants, SaneOption, FC!Measure, FC!config, FC!Accepted
<1>2. CASE c \notin FC!CPUs
  <2>1. cpu' = cpu /\ pc' = "undefined"
    BY <1>2 DEF FC!Measure
  <2>2. (\A x \in DOMAIN cpu' : CpuOK(x)') /\ SpeedsFromTable'
    BY <1>1, <2>1, SameCpus
  <2>3. FC!CPUs' = FC!CPUs /\ FC!Accepted' /\ FC!threads_per_core' = FC!threads_per_core
    BY <1>1, <2>1, SameTables DEF FC!threads_per_core, FC!ncpus
  <2>4. opt.u # -1
    <3>. SUFFICES ASSUME opt.u = -1 PROVE c \in FC!CPUs
      BY <1>2
    <3>1. i \in 0 .. FC!num_real_cpus - 1 /\ FC!num_real_cpus \in 1 .. FC!ncpus
      BY <1>1, UnitsCount DEF FreqInv
    <3>. QED BY <1>1, <3>1 DEF FC!cpubase, FC!CPUs
  <2>5. c = opt.u * FC!threads_per_core
    BY <2>4 DEF FC!cpubase
  <2>6. FC!DefinedWhenWellSet'
    BY <1>1, <1>2, <2>3, <2>4, <2>5 DEF FC!DefinedWhenWellSet
  <2>. QED BY <1>1, <2>1, <2>2, <2>3, <2>6 DEF FreqInv
<1>3. CASE c \in FC!CPUs
  <2>. DEFINE l == (100 * cpu[c].speed) \div cpu[c].max
  <2>1. pc' = "decide" /\ cpu' = [cpu EXCEPT ![c].level = l]
    BY <1>3 DEF FC!Measure
  <2>2. \A x \in FC!CPUs : CpuOK(x) /\ cpu[x] \in CpuRec
    BY <1>1 DEF FreqInv, CpuOK
  <2>3. l \in Int
    <3>1. cpu[c].speed \in Nat /\ cpu[c].max \in Nat \ {0}
      BY <1>3, <2>2 DEF CpuRec
    <3>. QED BY <3>1
  <2>4. cpu'[c].level = l
    BY <1>1, <1>3, <2>1, <2>2 DEF CpuRec
  <2>. HIDE DEF l
  <2>5. \A x \in FC!CPUs :
           /\ cpu'[x] \in CpuRec
           /\ cpu'[x].table = cpu[x].table /\ cpu'[x].max = cpu[x].max
           /\ cpu'[x].min = cpu[x].min /\ cpu'[x].mhz = cpu[x].mhz
           /\ cpu'[x].speed = cpu[x].speed
    BY <1>1, <2>1, <2>2, <2>3 DEF CpuRec
  <2>6. /\ DOMAIN cpu' = DOMAIN cpu
        /\ FC!CPUs' = FC!CPUs /\ FC!Accepted' /\ FC!num_real_cpus' = FC!num_real_cpus
        /\ \A x : FC!scalable_unit(x)' = FC!scalable_unit(x)
        /\ FC!AllWellSet' <=> FC!AllWellSet
        /\ \A x \in FC!CPUs : Mark(x)' = Mark(x)
    BY <1>1, <2>1, <2>5, SameTables
  <2>7. ASSUME NEW x \in DOMAIN cpu' PROVE CpuOK(x)'
    <3>1. x \in FC!CPUs /\ CpuOK(x)
      BY <1>1, <2>2, <2>6
    <3>. QED BY <1>1, <2>5, <2>6, <3>1 DEF CpuOK, TopSpeed, FC!Built
  <2>8. SpeedsFromTable'
    <3>. SUFFICES ASSUME FC!AllWellSet, NEW x \in FC!CPUs, x = FC!scalable_unit(x)
                  PROVE  \E j \in DOMAIN cpu[x].table :
                            j <= Mark(x) /\ cpu[x].speed = cpu[x].table[j]
      BY <2>5, <2>6 DEF SpeedsFromTable, SpeedFromTable
    <3>. QED BY DEF FreqInv, SpeedsFromTable, SpeedFromTable
  <2>9. FC!cpubase' = c
    BY <1>1 DEF FC!cpubase, FC!threads_per_core, FC!ncpus
  <2>10. Fresh(FC!cpubase)'
    <3>1. cpu'[c].level = (100 * cpu'[c].speed) \div cpu'[c].max
      BY <1>3, <2>4, <2>5 DEF l
    <3>. QED BY <2>9, <3>1 DEF Fresh
  <2>. QED BY <1>1, <1>3, <2>1, <2>6, <2>7, <2>8, <2>9, <2>10 DEF FreqInv, FC!DefinedWhenWellSet
<1>. QED BY <1>2, <1>3

\* The CPUs of the unit have voted.
LEMMA FreqAdjust ==
  ASSUME FreqConstants, FreqInv, UnitInv', FC!Adjust
  PROVE  FreqInv'
<1>. DEFINE c == FC!cpubase
<1>1. /\ pc = "decide" /\ machine' = machine /\ opt' = opt /\ step' = step
      /\ machine \in Machines /\ opt \in Options /\ step \in Nat /\ step <= opt.s
      /\ FC!ncpus \in Nat \ {0} /\ opt.c \in Int
      /\ FC!Accepted /\ DOMAIN cpu = FC!CPUs /\ c \in FC!CPUs /\ Fresh(c)
  BY DEF FreqInv, UnitInv, FreqConstants, SaneOption, FC!Adjust, FC!config, FC!Accepted
<1>2. PICK change \in FC!Votes(FC!Asked) :
         IF change = FC!SAME
         THEN pc' = "poll" /\ UNCHANGED cpu
         ELSE FC!ChangeSpeed(c, change, func, "poll")
  BY DEF FC!Adjust
<1>. HIDE DEF c
<1>3. /\ DOMAIN cpu' = FC!CPUs
      /\ \A d \in DOMAIN cpu' : CpuOK(d)'
      /\ SpeedsFromTable'
      /\ FC!AllWellSet' <=> FC!AllWellSet
      /\ pc' = "poll" \/ (pc' = "undefined" /\ ~FC!AllWellSet)
  <2>1. CASE change = FC!SAME
    <3>1. pc' = "poll" /\ cpu' = cpu
      BY <1>2, <2>1
    <3>. QED BY <1>1, <3>1, SameCpus, SameTables
  <2>2. CASE change # FC!SAME
    <3>1. FC!ChangeSpeed(c, change, func, "poll")
      BY <1>2, <2>2
    <3>2. ASSUME FC!AllWellSet, c = FC!scalable_unit(c)
          PROVE  /\ change \in {FC!LOWER, FC!RAISE}
                 /\ Fresh(c) /\ (change = FC!RAISE => cpu[c].speed # cpu[c].max)
      BY <1>1, <2>2, <3>2, VoteFact DEF c
    <3>. QED BY <1>1, <3>1, <3>2, ChangeSpeedOK
  <2>. QED BY <2>1, <2>2
<1>4. /\ FC!CPUs' = FC!CPUs /\ FC!Accepted' /\ FC!num_real_cpus' = FC!num_real_cpus
      /\ FC!threads_per_core' = FC!threads_per_core
  BY <1>1 DEF FC!ncpus, FC!CPUs, FC!num_real_cpus, FC!Accepted, FC!threads_per_core
<1>5. opt.u = -1 => i' \in 0 .. FC!num_real_cpus - 1
  <2>. SUFFICES ASSUME opt.u = -1 PROVE i' \in 0 .. FC!num_real_cpus - 1
    OBVIOUS
  <2>1. i \in 0 .. FC!num_real_cpus - 1 /\ FC!num_real_cpus \in 1 .. FC!ncpus
    BY <1>1, UnitsCount DEF FreqInv
  <2>2. i' = IF i + 1 < FC!num_real_cpus THEN i + 1 ELSE 0
    BY DEF FC!Adjust
  <2>. QED BY <1>1, <2>1, <2>2
<1>. QED BY <1>1, <1>3, <1>4, <1>5 DEF FreqInv, FC!DefinedWhenWellSet

\* terminate() sends every unit, or one, to the watermark.
LEMMA FreqTerminate ==
  ASSUME FreqConstants, FreqInv, UnitInv', FC!Terminate
  PROVE  FreqInv'
<1>1. /\ pc = "terminate" /\ machine' = machine /\ opt' = opt /\ step' = step
      /\ i' = i + 1
      /\ machine \in Machines /\ opt \in Options /\ step \in Nat /\ step <= opt.s
      /\ FC!ncpus \in Nat \ {0} /\ opt.c \in Int
      /\ FC!Accepted /\ DOMAIN cpu = FC!CPUs
      /\ IF opt.u = -1 THEN i \in FC!CPUs ELSE i = opt.u
  BY DEF FreqInv, UnitInv, FreqConstants, SaneOption, FC!Terminate, FC!config, FC!Accepted
<1>2. /\ FC!CPUs' = FC!CPUs /\ FC!Accepted' /\ FC!num_real_cpus' = FC!num_real_cpus
      /\ FC!threads_per_core' = FC!threads_per_core
  BY <1>1 DEF FC!ncpus, FC!CPUs, FC!num_real_cpus, FC!Accepted, FC!threads_per_core
<1>3. CASE i \notin FC!CPUs
  <2>1. pc' = "undefined" /\ cpu' = cpu
    BY <1>3 DEF FC!Terminate
  <2>2. (\A x \in DOMAIN cpu' : CpuOK(x)') /\ SpeedsFromTable'
    BY <1>1, <2>1, SameCpus
  <2>3. opt.u # -1 /\ opt.u \notin FC!CPUs
    BY <1>1, <1>3
  <2>4. FC!DefinedWhenWellSet'
    BY <1>1, <1>2, <2>3 DEF FC!DefinedWhenWellSet
  <2>. QED BY <1>1, <1>2, <2>1, <2>2, <2>4 DEF FreqInv
<1>4. CASE i \in FC!CPUs
  <2>. DEFINE next == IF opt.u = -1 /\ i < FC!ncpus - 1 THEN "terminate" ELSE "exit"
  <2>1. FC!ChangeSpeed(i, FC!LOWER, FC!LEAPS, next)
    BY <1>4 DEF FC!Terminate
  <2>2. next \in {"terminate", "exit"} /\ (next = "terminate" => opt.u = -1 /\ i + 1 \in FC!CPUs)
    BY <1>1, <1>4 DEF FC!CPUs
  <2>. HIDE DEF next
  <2>3. /\ DOMAIN cpu' = FC!CPUs
        /\ \A d \in DOMAIN cpu' : CpuOK(d)'
        /\ SpeedsFromTable'
        /\ FC!AllWellSet' <=> FC!AllWellSet
        /\ pc' = next \/ (pc' = "undefined" /\ ~FC!AllWellSet)
    BY <1>1, <1>4, <2>1, ChangeSpeedOK
  <2>. QED BY <1>1, <1>2, <2>2, <2>3 DEF FreqInv, FC!DefinedWhenWellSet
<1>. QED BY <1>3, <1>4

LEMMA FreqNextInv ==
  ASSUME FreqConstants, FreqInv, FC!Next \/ UNCHANGED FC!vars
  PROVE  FreqInv'
<1>1. UnitInv'
  BY UnitNextInv DEF FreqInv, FreqConstants, SaneOption
<1>. QED BY <1>1, FreqSetup, FreqQuiet, FreqMeasure, FreqAdjust, FreqTerminate DEF FC!Next

-----------------------------------------------------------------------------
(* The theorems *)

\* A step is a step of the program that runs, or changes none of its variables.
LEMMA OneProgram ==
  ASSUME [Next]_vars
  PROVE  /\ program' = program
         /\ program = "main_loop" => ML!Next \/ UNCHANGED ML!vars
         /\ program = "atomic_decrement" => AD!Next \/ UNCHANGED AD!vars
         /\ program = "freq_change" => FC!Next \/ UNCHANGED FC!vars
<1>1. CASE UNCHANGED vars
  BY <1>1 DEF vars, mlVars, adVars, fcVars, ML!vars, AD!vars, AD!sync, FC!vars
<1>2. CASE MainLoop(ML!Next)
  BY <1>2 DEF MainLoop
<1>3. CASE AtomicDecrement(AD!Next)
  BY <1>3 DEF AtomicDecrement
<1>4. CASE FreqChange(FC!Next)
  BY <1>4 DEF FreqChange
<1>. QED BY <1>1, <1>2, <1>3, <1>4 DEF Next

\* main_loop is declared finished only when the list is empty and no VP is new
\* or runs a task, for every number of VPs, tasks, added tasks and spurious
\* returns.
THEOREM EndsWhenDone ==
  ASSUME num_vps \in Nat \ {0}, num_tasks \in Nat
  PROVE  Spec => []FinishedMeansDone
<1>. DEFINE Inv == program = "main_loop" => MLInv
<1>1. Init => Inv
  BY MLInitInv DEF Init
<1>2. Inv /\ [Next]_vars => Inv'
  BY MLNextInv, OneProgram
<1>3. Inv => FinishedMeansDone
  BY DEF MLInv, FinishedMeansDone
<1>. QED BY <1>1, <1>2, <1>3, PTL DEF Spec

\* No order of waits and broadcasts leaves every VP of main_loop asleep: the
\* part of its termination that needs no fairness.
THEOREM NeverStuck ==
  ASSUME num_vps \in Nat \ {0}, num_tasks \in Nat
  PROVE  Spec => [](program = "main_loop" => SomebodyCanMove)
<1>. DEFINE Inv == program = "main_loop" => MLInv
<1>1. Init => Inv
  BY MLInitInv DEF Init
<1>2. Inv /\ [Next]_vars => Inv'
  BY MLNextInv, OneProgram
<1>3. Inv => (program = "main_loop" => SomebodyCanMove)
  BY MLMoves
<1>. QED BY <1>1, <1>2, <1>3, PTL DEF Spec

\* One incrementing and one decrementing thread of atomic_decrement keep the
\* buffer between empty and full, under compare and swap and with semaphores,
\* however often they loop and however wide an unsigned int is.
THEOREM PairStaysInRange ==
  ASSUME \A a \in CommandLines : a.control_type \in {"c", "s", "m"},
         Uint \in Nat, Uint >= 2
  PROVE  Spec => []PairInRange
<1>. DEFINE Inv == program = "atomic_decrement" => PairInv
<1>1. Init => Inv
  BY PairInitInv DEF Init
<1>2. Inv /\ [Next]_vars => Inv'
  BY PairNextInv, OneProgram
<1>3. Inv => PairInRange
  <2>. SUFFICES ASSUME PairInv, AD!control_type # "m", AD!num_threads = 1
                PROVE  buffer \in 0 .. AD!full_buffer
    BY DEF PairInRange, AD!PairInRange
  <2>1. buffer \in {0, 1}
    BY DEF PairInv, CasInv, SemInv, PairTypeOK
  <2>. QED BY <2>1 DEF AD!full_buffer
<1>. QED BY <1>1, <1>2, <1>3, PTL DEF Spec

\* The CPUs of one scalable unit have one speed in freq_change, if they start
\* with one: for all machines, options, tables and usages, and also where the
\* program is undefined.
THEOREM UnitsUniform ==
  ASSUME \A m \in Machines : Len(m) \in Nat,
         \A o \in Options : o.c \in Int /\ o.u \in Int
  PROVE  Spec => []UnitUniform
<1>. DEFINE Inv == program = "freq_change" => UnitInv
<1>1. Init => Inv
  BY UnitInitInv DEF Init
<1>2. Inv /\ [Next]_vars => Inv'
  BY UnitNextInv, OneProgram
<1>3. Inv => UnitUniform
  BY DEF UnitInv, OneSpeed, UnitUniform, FC!UnitUniform
<1>. QED BY <1>1, <1>2, <1>3, PTL DEF Spec

\* A table freq_change builds runs from the maximum down to the minimum without
\* a repeated entry, except where the last subtraction wraps: for all drivers,
\* steps and orders of the CPUs, whichever of them truncates the step.
THEOREM TablesSpanRange ==
  ASSUME FreqConstants
  PROVE  Spec => []TableSpansRange
<1>. DEFINE Inv == program = "freq_change" => FreqInv
<1>1. Init => Inv
  BY FreqInitInv DEF Init
<1>2. Inv /\ [Next]_vars => Inv'
  BY FreqNextInv, OneProgram
<1>3. Inv => TableSpansRange
  BY DEF FreqInv, CpuOK, Spans, TableSpansRange, FC!TableSpansRange
<1>. QED BY <1>1, <1>2, <1>3, PTL DEF Spec

\* With sane tables freq_change uses no index outside them and none it did not
\* compute: for all machines and options, in all modes, and whatever the CPUs
\* decide.
THEOREM IndexesDefined ==
  ASSUME FreqConstants
  PROVE  Spec => []DefinedWhenWellSet
<1>. DEFINE Inv == program = "freq_change" => FreqInv
<1>1. Init => Inv
  BY FreqInitInv DEF Init
<1>2. Inv /\ [Next]_vars => Inv'
  BY FreqNextInv, OneProgram
<1>3. Inv => DefinedWhenWellSet
  BY DEF FreqInv, DefinedWhenWellSet
<1>. QED BY <1>1, <1>2, <1>3, PTL DEF Spec

\* With sane tables no sequence of raises and lowers takes a CPU of freq_change
\* below the entry of the lower watermark.
THEOREM StaysAboveWatermark ==
  ASSUME FreqConstants
  PROVE  Spec => []NotBelowWatermark
<1>. DEFINE Inv == program = "freq_change" => FreqInv
<1>1. Init => Inv
  BY FreqInitInv DEF Init
<1>2. Inv /\ [Next]_vars => Inv'
  BY FreqNextInv, OneProgram
<1>3. Inv => NotBelowWatermark
  <2>. SUFFICES ASSUME FreqInv, FC!AllWellSet, NEW c \in FC!CPUs
                PROVE  cpu[c].speed >= FC!WatermarkSpeed(FC!scalable_unit(c))
    BY DEF NotBelowWatermark, FC!NotBelowWatermark
  <2>. DEFINE u == FC!scalable_unit(c)
              t == cpu[u].table
  <2>1. u \in FC!CPUs /\ u = FC!scalable_unit(u)
    <3>1. FC!ncpus \in Nat /\ opt.c \in Int
      BY DEF FreqInv, UnitInv, FreqConstants, SaneOption
    <3>. QED BY <3>1, UnitFact, UnitOfUnit
  <2>2. CpuOK(u) /\ FC!WellSet(u) /\ SpeedFromTable(u)
    BY <2>1 DEF FreqInv, SpeedsFromTable, FC!AllWellSet
  <2>3. t \in Seq(Nat) /\ Mark(u) \in DOMAIN t /\ FC!WatermarkSpeed(u) = t[Mark(u)]
    BY <2>2, MarkFact DEF CpuOK, CpuRec
  <2>4. cpu[c].speed = cpu[u].speed
    BY DEF FreqInv, UnitInv, OneSpeed, FC!AllWellSet
  <2>5. PICK k \in DOMAIN t : k <= Mark(u) /\ cpu[u].speed = t[k]
    BY <2>2 DEF SpeedFromTable
  <2>. QED BY <2>2, <2>3, <2>4, <2>5 DEF CpuOK, Descends
<1>. QED BY <1>1, <1>2, <1>3, PTL DEF Spec
=============================================================================
