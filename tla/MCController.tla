---------------------------- MODULE MCController ----------------------------
(***************************************************************************)
(* Small instances of Controller for TLC.                                  *)
(***************************************************************************)
EXTENDS Controller

Enabled(w) == [freq |-> [j \in Joints |-> w], enable |-> Joints]
OnlyHold == {Enabled(Zero)}

(***************************************************************************)
(* The part of a state that can still matter (see MCDataExchange): every   *)
(* action that changes anything changes it, and two states that agree on   *)
(* it have the same continuations.  The frequencies are zero throughout.   *)
(***************************************************************************)
When(alive, v) == IF alive THEN v ELSE <<>>

\* A pointer is told by whether it is to the current buffer, as in MCDataExchange.
BuffersInOrder ==
  << IF currentRxBuffer = 0 THEN <<rxEnable[0], rxEnable[1]>>
                            ELSE <<rxEnable[1], rxEnable[0]>>,
     IF currentTxBuffer = 0 THEN <<txFeedback[0], txFeedback[1]>>
                            ELSE <<txFeedback[1], txFeedback[0]>> >>

LiveController ==
  << BuffersInOrder, semaphore,
     c0, c1, rawCount, left, overtaken, watchdogVars, hostAlive,
     When(c0 # "poll", <<pkt.header, When(pkt.full, pkt.cmd), rxBuffer = currentRxBuffer>>),
     When(c0 \in {"copyHigh", "dispatch"}, rxHeader[rxBuffer]),
     When(c1 \in C1Locked, todo),
     When(c1 \in {"enable", "freq", "store"},
          <<joint, jRx = currentRxBuffer, jTx = currentTxBuffer>>),
     When(left # {}, pruRxData = currentRxBuffer) >>
=============================================================================
