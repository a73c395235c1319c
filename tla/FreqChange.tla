----------------------------- MODULE FreqChange -----------------------------
(***************************************************************************)
(* Sandbox/freq_change.c, the daemon that sets CPU frequencies: it checks  *)
(* its options, builds a frequency table per CPU, polls ncpus times, each  *)
(* time raising or lowering scalable units towards the watermarks -e and   *)
(* -b, and sets them a last time in terminate().                           *)
(*                                                                         *)
(* Frequencies are small integers; the widths that matter are kept: the    *)
(* table is computed in unsigned longs, here modulo Ulong.  pc becomes     *)
(* "undefined" where the program divides by zero, indexes an array outside *)
(* its bounds or uses an index that was never assigned and is not one of   *)
(* the table's: nothing is claimed of what it does then.                   *)
(***************************************************************************)
EXTENDS Integers, Sequences, FiniteSetsExt

CONSTANTS
    Machines,  \* sequences of drivers, one per CPU: what sysfs shows
    Options,   \* command lines
    Ulong      \* 2^w, w the width of an unsigned long

VARIABLES
    pc,
    machine,   \* a driver: cpuinfo_max_freq, cpuinfo_min_freq, the entries of
               \* scaling_available_frequencies (<<>>: no file), MHz or kHz
    opt,       \* u: selector_cpu, n: -n given, c: t_per_core (0: not given),
               \* m: func, s: step, given: step_specified,
               \* e: highwater, b: lowwater
    step,      \* the global step
    func,
    counter,
    i,         \* the index of the loop in progress
    cpu        \* all_cpus

vars == <<pc, machine, opt, step, func, counter, i, cpu>>
config == <<machine, opt>>

LOWER == 0
SAME  == 1
RAISE == 2
SINE       == 0
AGGRESSIVE == 1
PASSIVE    == 2
LEAPS      == 3

ncpus == Len(machine)
CPUs  == 0 .. ncpus - 1

\* main's static mapping of CPUs to scalable units.
threads_per_core == IF opt.c > 0 /\ opt.c <= ncpus THEN opt.c ELSE 1
num_real_cpus    == ncpus \div threads_per_core
scalable_unit(c) == (c \div threads_per_core) * threads_per_core

Init ==
    /\ machine \in Machines /\ opt \in Options
    /\ pc = "options"
    /\ step = opt.s /\ func = opt.m
    /\ counter = 0 /\ i = 0 /\ cpu = <<>>

\* The option and sanity checks before anything is allocated.
Accepted ==
    /\ opt.u >= -1 /\ opt.m \in SINE .. LEAPS
    /\ opt.e \in 0 .. 100 /\ opt.b \in 0 .. 100
    /\ opt.u <= ncpus
    /\ ncpus # 0 /\ ncpus % threads_per_core = 0

CheckOptions ==
    /\ pc = "options"
    /\ pc' = IF Accepted THEN "setup" ELSE "exit"
    /\ UNCHANGED <<config, step, func, counter, i, cpu>>

-----------------------------------------------------------------------------
(* get_per_cpu_info *)

\* The step is never larger than the range; it is global and stays truncated.
Truncated(d) == IF step > d.max - d.min THEN d.max - d.min ELSE step

\* Mutant: the remainder gets no entry of its own.
TableSize_NoRemainder(d, st) == (d.max - d.min) \div st + 1

TableSize(d, st) ==
    (d.max - d.min) \div st + 1 + (IF (d.max - d.min) % st # 0 THEN 1 ELSE 0)

\* The table built from max, min and step: the subtraction is unsigned.
BuiltTable(d, st) ==
    [k \in 1 .. TableSize(d, st) |->
        LET f == (d.max - (k - 1) * st) % Ulong IN IF d.min < f THEN f ELSE d.min]

\* qsort with faked_compare: descending.  Fewer than r entries are larger than
\* the r-th, and at least r entries are not smaller.
Sorted(t) ==
    [r \in DOMAIN t |->
        CHOOSE v \in {t[k] : k \in DOMAIN t} :
            /\ Cardinality({k \in DOMAIN t : t[k] > v}) < r
            /\ r <= Cardinality({k \in DOMAIN t : t[k] >= v})]

Built(d) == d.saf = <<>> \/ opt.given

NewCpu(d, st) ==
    LET k == IF d.mhz THEN 1000 ELSE 1 IN
    [table |-> Sorted(IF Built(d) THEN BuiltTable(d, st) ELSE d.saf),
     max |-> k * d.max, min |-> k * d.min, mhz |-> d.mhz,
     speed |-> k * d.max, level |-> 0]

\* main's loop over get_per_cpu_info, at CPU i.
Setup ==
    LET d == machine[i + 1] IN
    /\ pc = "setup" /\ i < ncpus
    /\ step' = Truncated(d)
    /\ IF Built(d) /\ step' = 0
       THEN pc' = "undefined" /\ UNCHANGED <<i, cpu>>
       ELSE /\ cpu' = [c \in 0 .. i |-> IF c = i THEN NewCpu(d, step') ELSE cpu[c]]
            /\ i' = i + 1 /\ UNCHANGED pc
    /\ UNCHANGED <<config, func, counter>>

\* sysfs or the governor refuses: main goes to out.
SetupFails ==
    /\ pc = "setup" /\ i < ncpus
    /\ pc' = "exit"
    /\ UNCHANGED <<config, step, func, counter, i, cpu>>

SetupDone ==
    /\ pc = "setup" /\ i = ncpus
    /\ pc' = "poll" /\ counter' = ncpus /\ i' = 0
    /\ UNCHANGED <<config, step, func, cpu>>

-----------------------------------------------------------------------------
(* change_speed *)

\* The table in percent of its first entry.
mtr(t) == [k \in DOMAIN t |-> ((t[k] * 100) % Ulong) \div t[1]]

\* The values a local index may have after the loop over the table: the last
\* one assigned, or whatever it held, 0 standing for all values out of range.
LocalIndex(t, assigned) ==
    IF assigned = {} THEN 0 .. Len(t) ELSE {Max(assigned)}

muda(c) == LET t == cpu[c].table IN
    LocalIndex(t, {k \in DOMAIN t : mtr(t)[k] \in {opt.e, opt.b}})

atual(c) == LET t == cpu[c].table IN
    LocalIndex(t, {k \in DOMAIN t : mtr(t)[k] = cpu[c].level})

\* Mutant: the step goes on past the watermark.
SpeedIndex_Past(a, m, mode, f) ==
    IF mode = RAISE
    THEN IF f \in {AGGRESSIVE, LEAPS} THEN m ELSE a - 1
    ELSE IF f \in {PASSIVE, LEAPS} THEN m ELSE a + 1

\* Mutant: the directions are exchanged.
SpeedIndex_Reversed(a, m, mode, f) ==
    IF mode = RAISE
    THEN IF f \in {AGGRESSIVE, LEAPS} \/ a = m THEN m ELSE a + 1
    ELSE IF f \in {PASSIVE, LEAPS} \/ a = m THEN m ELSE a - 1

\* Straight to the watermark m, or one entry up or down unless already at it.
SpeedIndex(a, m, mode, f) ==
    IF mode = RAISE
    THEN IF f \in {AGGRESSIVE, LEAPS} \/ a = m THEN m ELSE a - 1
    ELSE IF f \in {PASSIVE, LEAPS} \/ a = m THEN m ELSE a + 1

\* Mutant: only the first CPU of the unit.
Unit_First(c) == {c}

\* The CPUs that share c's frequency.
Unit(c) == c .. c + threads_per_core - 1

\* change_speed(all_cpus[c], mode).  A failed write to scaling_setspeed is not
\* seen: the callers drop the error and current_speed is set before it.
ChangeSpeed(c, mode, f, next) ==
    IF c # scalable_unit(c)
    THEN pc' = next /\ UNCHANGED cpu
    ELSE \E a \in atual(c), m \in muda(c) :
            LET k == SpeedIndex(a, m, mode, f) IN
            IF k \in DOMAIN cpu[c].table
            THEN /\ pc' = next
                 /\ cpu' = [d \in CPUs |->
                       IF d \in Unit(c)
                       THEN [cpu[d] EXCEPT !.speed = cpu[c].table[k]] ELSE cpu[d]]
            ELSE pc' = "undefined" /\ UNCHANGED cpu

-----------------------------------------------------------------------------
(* The main loop *)

\* decide_speed.  With -n it returns the usage in percent: LOWER, SAME, RAISE
\* by chance, or a larger number (3) that change_speed takes for LOWER.
Decide(x) ==
    IF opt.n THEN 0 .. 3
    ELSE {IF opt.e # 0 /\ opt.e >= x.level /\ x.speed # x.max THEN RAISE
          ELSE IF opt.b # 0 /\ opt.b <= x.level /\ x.speed # x.min THEN LOWER
          ELSE SAME}

\* The largest decision of the CPUs in cs, each deciding once.
Votes(cs) ==
    {Max({v[c] : c \in cs}) : v \in {w \in [cs -> 0 .. 3] :
                                        \A c \in cs : w[c] \in Decide(cpu[c])}}

\* The CPU the iteration is about: main does not scale i to the units' first
\* CPUs, and it does scale selector_cpu.
cpubase == IF opt.u = -1 THEN i ELSE opt.u * threads_per_core

\* The CPUs asked; with -u the first one is asked for each of its threads.
Asked ==
    IF opt.u = -1 THEN cpubase .. cpubase + threads_per_core - 1 ELSE {cpubase}

\* current_level of the first CPU, and only of it, is brought up to date.
Measure ==
    /\ pc = "poll" /\ counter > 0
    /\ IF cpubase \in CPUs
       THEN /\ cpu' = [cpu EXCEPT ![cpubase].level = (100 * cpu[cpubase].speed)
                                                       \div cpu[cpubase].max]
            /\ pc' = "decide"
       ELSE pc' = "undefined" /\ UNCHANGED cpu
    /\ UNCHANGED <<config, step, func, counter, i>>

Adjust ==
    /\ pc = "decide"
    /\ \E change \in Votes(Asked) :
          IF change = SAME
          THEN pc' = "poll" /\ UNCHANGED cpu
          ELSE ChangeSpeed(cpubase, change, func, "poll")
    /\ IF opt.u = -1 /\ i + 1 < num_real_cpus
       THEN i' = i + 1 /\ UNCHANGED counter
       ELSE i' = 0 /\ counter' = counter - 1
    /\ UNCHANGED <<config, step, func>>

\* terminate(): func = LEAPS; change_speed(cpu, LOWER) on all CPUs, or on
\* all_cpus[selector_cpu].
LeaveLoop ==
    /\ pc = "poll" /\ counter = 0
    /\ pc' = "terminate" /\ func' = LEAPS
    /\ i' = IF opt.u = -1 THEN 0 ELSE opt.u
    /\ UNCHANGED <<config, step, counter, cpu>>

Terminate ==
    /\ pc = "terminate"
    /\ IF i \in CPUs
       THEN ChangeSpeed(i, LOWER, LEAPS,
                        IF opt.u = -1 /\ i < ncpus - 1 THEN "terminate" ELSE "exit")
       ELSE pc' = "undefined" /\ UNCHANGED cpu
    /\ i' = i + 1
    /\ UNCHANGED <<config, step, func, counter>>

Next ==
    \/ CheckOptions \/ Setup \/ SetupFails \/ SetupDone
    \/ Measure \/ Adjust \/ LeaveLoop \/ Terminate

Spec == Init /\ [][Next]_vars

-----------------------------------------------------------------------------
\* The table is what the driver has: from max down to min in steps of at least
\* one percent, with an entry at a watermark.
WellSet(c) ==
    LET t == cpu[c].table IN
    /\ ~cpu[c].mhz
    /\ t[1] = cpu[c].max /\ t[Len(t)] = cpu[c].min
    /\ \A j, k \in DOMAIN t : j # k => mtr(t)[j] # mtr(t)[k]
    /\ \E k \in DOMAIN t : mtr(t)[k] \in {opt.e, opt.b}

\* The drivers of one unit's CPUs report the same maximum, in the same unit of
\* measure: "We don't support mixed configs yet".
SiblingsAlike ==
    \A c \in CPUs :
        LET d == machine[c + 1]
            e == machine[scalable_unit(c) + 1]
        IN  d.max = e.max /\ d.mhz = e.mhz

\* All CPUs are set up, well, and -n was not given.
AllWellSet ==
    DOMAIN cpu = CPUs /\ ~opt.n /\ SiblingsAlike /\ \A c \in CPUs : WellSet(c)

\* The entry of the lower watermark.
WatermarkSpeed(c) == LET t == cpu[c].table IN
    t[Max({k \in DOMAIN t : mtr(t)[k] \in {opt.e, opt.b}})]

\* A table built from max, min and step runs from max down to min without a
\* repeated entry, also when an earlier CPU truncated the step.  Only where the
\* unsigned subtraction wraps does it not, which takes a step above min.
TableSpansRange ==
    \A c \in DOMAIN cpu :
        LET d == machine[c + 1]
            t == cpu[c].table
        IN  Built(d) =>
                \/ /\ t[1] = d.max /\ t[Len(t)] = d.min
                   /\ \A k \in 1 .. Len(t) - 1 : t[k] > t[k + 1]
                \/ t[1] > d.max /\ opt.s > d.min

\* With sane tables change_speed never uses an index it did not compute or one
\* outside the table, in any mode and whatever both watermarks are; what is
\* left is a step of zero and a -u that names no CPU.
DefinedWhenWellSet ==
    pc = "undefined" =>
        \/ step = 0
        \/ opt.u # -1 /\ {opt.u, opt.u * threads_per_core} \ CPUs # {}
        \/ ~AllWellSet

\* No sequence of raises and lowers takes a CPU below the lower watermark.
NotBelowWatermark ==
    AllWellSet => \A c \in CPUs : cpu[c].speed >= WatermarkSpeed(scalable_unit(c))

\* The CPUs of one scalable unit always have the same recorded speed, if their
\* drivers do not differ.
UnitUniform ==
    SiblingsAlike /\ DOMAIN cpu = CPUs
        => \A c \in CPUs : cpu[c].speed = cpu[scalable_unit(c)].speed
=============================================================================
