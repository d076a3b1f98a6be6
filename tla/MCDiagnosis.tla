------------------------------ MODULE MCDiagnosis ------------------------------
(* A machine with some of the V20's own reads, and ways for it to be broken. *)
EXTENDS BootReport

MCProgram == { <<Lines(0), Lines(243)>>,       \* DI at $0000
               <<Lines(727), Lines(62)>>,      \* LD A at $02D7
               <<Lines(32117), {}>>,           \* $7D75, a zero byte
               <<Lines(62399), DataLines>> }   \* $F3BF, RAM full of ones

MCFaults == { Intact,
              [Intact EXCEPT !.hi = {3}],
              [Intact EXCEPT !.lo = {0, 5}],
              [Intact EXCEPT !.ahi = {14}],
              [Intact EXCEPT !.hi = DataLines, !.alo = 6 .. 15],
              [Intact EXCEPT !.hi = 0 .. 3, !.lo = 4 .. 7, !.alo = 6 .. 15] }

Probe(khz, reset, wait) == [khz |-> khz, reset |-> reset, wait |-> wait]
MCProbes == { Probe(3580, {"hi"}, {"hi", "lo"}),      \* healthy
              Probe(0, {"lo"}, {"lo"}),
              Probe(5000, {"hi", "lo"}, {"hi"}),
              Probe(10134, {"hi"}, {"hi"}) }          \* read as 3.58 MHz

MCProgress == {{}, {0, 1, 2}, 0 .. 8}
===============================================================================
