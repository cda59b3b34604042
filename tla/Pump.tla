--------------------------------- MODULE Pump ---------------------------------
(***************************************************************************)
(* What the owner of the plant is promised of the pump, whatever the mode, *)
(* the readings and the commands: it runs for MaxRun at most, and between  *)
(* two runs it rests for MinRest.                                          *)
(*                                                                         *)
(* The one exception is the program's own: it remembers the time of the    *)
(* last stop as a clock value, and 0 stands for "never", so that a stop    *)
(* while the clock reads 0 is forgotten.  Irrigation implements this.      *)
(***************************************************************************)
EXTENDS Naturals

CONSTANTS
    MaxRun,     \* the longest run, in ticks
    MinRest     \* the shortest rest between two runs

VARIABLES
    on,         \* the pump runs
    run,        \* for how long it has
    rest,       \* for how long it has not, up to MinRest
    forgotten,  \* no earlier run is remembered
    zero        \* the clock reads 0

vars == <<on, run, rest, forgotten, zero>>

-----------------------------------------------------------------------------
SwitchOn ==
    /\ ~on /\ (rest = MinRest \/ forgotten)
    /\ on' = TRUE /\ run' = 0
    /\ UNCHANGED <<rest, forgotten, zero>>

SwitchOff ==
    /\ on
    /\ on' = FALSE /\ run' = 0 /\ rest' = 0
    /\ forgotten' = zero
    /\ UNCHANGED zero

(* A tick passes; a run that has lasted MaxRun has to be ended first. *)
Pass ==
    /\ on => run < MaxRun
    /\ run' = IF on THEN run + 1 ELSE 0
    /\ rest' = IF rest < MinRest THEN rest + 1 ELSE rest
    /\ zero' \in BOOLEAN
    /\ UNCHANGED <<on, forgotten>>

Init ==
    /\ on = FALSE /\ run = 0 /\ rest = MinRest
    /\ forgotten = TRUE /\ zero \in BOOLEAN

Next == SwitchOn \/ SwitchOff \/ Pass

Spec == Init /\ [][Next]_vars
=============================================================================
