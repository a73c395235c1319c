----------------------------- MODULE MCJoinTree -----------------------------
(***************************************************************************)
(* One program for the scheduler, which keeps to the rule of the           *)
(* documentation for main's jobs: main forks m and joins it; m forks a and *)
(* b and gives b a pointer to a; a forks c and joins it; b joins a.        *)
(***************************************************************************)
EXTENDS VirtualProcessor

CONSTANTS m, a, b, c

TreeJobs == {m, a, b, c}
TreeForkers == [j \in TreeJobs |-> CASE j = m -> {NULL} [] j = c -> {a} [] OTHER -> {m}]
TreeJoiners == [j \in TreeJobs |-> IF j = a THEN {b} ELSE {}]
TreeJoins   == [j \in TreeJobs |-> 1]
=============================================================================
