------------------------------ MODULE MCSandbox ------------------------------
(* Instances of the stand-alone programs for TLC. *)
EXTENDS Sandbox

Line(control, threads, loop) ==
    [control_type |-> control, num_threads |-> threads, loop_size |-> loop]

MCCommandLines ==
    {Line("c", 1, 4), Line("s", 1, 4), Line("s", 2, 2), Line("m", 2, 2)}

\* A driver in kHz with the table saf, or with none.
Driver(max, min, saf) == [max |-> max, min |-> min, saf |-> saf, mhz |-> FALSE]

Plain  == Driver(12, 3, <<>>)
Table  == Driver(12, 3, <<6, 3, 12>>)
Narrow == Driver(12, 10, <<12, 10>>)
Half   == Driver(12, 6, <<6, 12>>)
Twice  == Driver(24, 12, <<12, 24>>)
Fixed  == Driver(12, 12, <<>>)
Fine   == Driver(900, 891, <<>>)
Boost  == Driver(12, 3, <<11, 6, 3>>)
InMHz  == [Table EXCEPT !.mhz = TRUE]

MCMachines ==
    {<<Plain>>, <<Fine>>, <<Boost>>, <<InMHz>>, <<Table, Table>>, <<Narrow, Plain>>,
     <<Plain, Narrow>>,
     <<Fixed, Plain>>, <<Fixed, Fixed, Fixed>>, <<Half, Half, Half, Half>>,
     <<Half, Twice, Half, Half>>}

MCOptions ==
    {o \in [u : {-2, -1, 1, 2}, n : BOOLEAN, c : {0, 2}, m : 0 .. 3, s : {0, 3, 7, 100},
            given : BOOLEAN, e : {0, 75}, b : {0, 50}] :
        /\ o.n => o.c = 0
        /\ o.given <=> o.s # 100}
=============================================================================
