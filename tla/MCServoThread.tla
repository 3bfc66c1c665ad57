--------------------------- MODULE MCServoThread ---------------------------
(***************************************************************************)
(* A small instance of ServoThread for TLC.                                *)
(***************************************************************************)
EXTENDS ServoThread

CONSTANTS o1, i1

OneOutput == {o1}
OneInput == {i1}

\* The part of a state that can still matter (see MCDataExchange).
When(alive, v) == IF alive THEN v ELSE <<>>

LiveServo ==
  << timingVars, bufVars, todo, module, level, c0, rst, historyVars,
     When(module \in Outputs, rxPtr), When(module \in Inputs, txPtr),
     When(c0 = "copied", datagram), When(c0 # "poll", txBuffer),
     When(rst # "out", rstPtr) >>
=============================================================================
