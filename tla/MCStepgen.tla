----------------------------- MODULE MCStepgen ------------------------------
(***************************************************************************)
(* Two step generators for TLC: a step is 4, the accumulator has 4 bits and*)
(* so overflows every 4 steps, and the frequencies reach the thread's own. *)
(***************************************************************************)
EXTENDS Stepgen, TLC

CONSTANTS j1, j2

MCFreqs == {-5, -3, 0, 1, 5}
MCPins == 2 .. 7
MCStepPin == j1 :> 2 @@ j2 :> 4
MCDirectionPin == j1 :> 3 @@ j2 :> 5
\* The Y and Z axes of boardconfig.h:50-51: the second steps on GP06.
BoardStepPin == j1 :> 4 @@ j2 :> 6
BoardDirectionPin == j1 :> 5 @@ j2 :> 7
=============================================================================
