--------------------------- MODULE CommsWatchdog ---------------------------
(***************************************************************************)
(* Core 1's main state machine (core1_entry in remora.cpp) and the module  *)
(* it decides by: RemoraComms (modules/comms), which the servo thread      *)
(* updates once per servo interrupt and core 0 tells of each datagram.     *)
(* The flag "data" is shared by the cores; reading it and clearing it are  *)
(* two accesses, and a datagram may come between.                          *)
(***************************************************************************)
EXTENDS Naturals

CONSTANTS
  DataErrMax,   \* DATA_ERR_MAX: silent updates that are still tolerated
  CountMax      \* the largest value of noDataCount, a uint8_t

ASSUME WatchdogAssumption ==
  DataErrMax \in Nat /\ CountMax \in Nat /\ DataErrMax < CountMax

VARIABLES
  currentState,   \* of core1_entry
  data, status, noDataCount,  \* of RemoraComms
  execute,        \* servoThread->execute, set by the servo interrupt
  update          \* where the servo thread is in its run

commsVars == <<data, status, noDataCount>>
watchdogVars == <<currentState, commsVars, execute, update>>

\* No statement assigns ST_STOP or ST_WDRESET, and ST_STOP is never left.
States == {"SETUP", "START", "IDLE", "RUNNING", "RESET"}

WatchdogTypeOK ==
  /\ currentState \in States
  /\ data \in BOOLEAN /\ status \in BOOLEAN
  /\ noDataCount \in 0 .. CountMax
  /\ execute \in BOOLEAN
  /\ update \in {"before", "clear", "rest"}

(***************************************************************************)
(* SETUP creates the threads and the RemoraComms object, whose constructor *)
(* initialises none of its fields; START starts the timers.                *)
(***************************************************************************)
WatchdogInit ==
  /\ currentState = "SETUP"
  /\ data \in BOOLEAN /\ status \in BOOLEAN /\ noDataCount \in 0 .. CountMax
  /\ execute = FALSE
  /\ update = "before"

Setup ==
  /\ currentState = "SETUP"
  /\ currentState' = "START"
  /\ UNCHANGED <<commsVars, execute, update>>

Start ==
  /\ currentState = "START"
  /\ currentState' = "IDLE"
  /\ UNCHANGED <<commsVars, execute, update>>

\* Timer interrupt 1: it only sets the flag, the thread runs below interrupts.
ServoTick ==
  /\ currentState \notin {"SETUP", "START"}
  /\ execute' = TRUE
  /\ UNCHANGED <<currentState, commsVars, update>>

\* Core 0: RemoraComms::dataReceived, once the object exists.
DataReceived ==
  /\ currentState # "SETUP"
  /\ data' = TRUE
  /\ UNCHANGED <<currentState, status, noDataCount, execute, update>>

\* A mutant: a lost connection enters WDRESET instead of RESET.
NextWatchdogReset ==
  IF status' THEN "RUNNING"
  ELSE IF currentState = "RUNNING" THEN "WDRESET" ELSE "IDLE"

\* The end of a turn of the state machine in IDLE and in RUNNING.
NextState ==
  IF status' THEN "RUNNING"
  ELSE IF currentState = "RUNNING" THEN "RESET" ELSE "IDLE"

\* A turn in which servoThread->run() returns at once.
IdleTurn ==
  /\ currentState \in {"IDLE", "RUNNING"}
  /\ update = "before" /\ ~execute
  /\ UNCHANGED <<commsVars, execute, update>>
  /\ currentState' = NextState

\* RemoraComms::update reads the flag, counts and judges ...
Counted == IF data \/ noDataCount = CountMax THEN 0 ELSE noDataCount + 1
TripsLate(n) == n > DataErrMax + 1  \* a mutant: one update too late
Trips(n) == n > DataErrMax

UpdateTest ==
  /\ currentState \in {"IDLE", "RUNNING"}
  /\ update = "before" /\ execute
  /\ update' = "clear"
  /\ noDataCount' = IF Trips(Counted) THEN 0 ELSE Counted
  /\ status' = IF Trips(Counted) THEN FALSE ELSE data \/ status
  /\ UNCHANGED <<currentState, data, execute>>

\* ... then clears it, whatever it is by now.
UpdateEnd ==
  /\ update = "clear"
  /\ update' = "rest"
  /\ data' = FALSE
  /\ UNCHANGED <<currentState, status, noDataCount, execute>>

\* The thread's run ends and getStatus decides the next state; a servo
\* interrupt that came during the run is forgotten with the one it served.
RunEnd ==
  /\ update = "rest"
  /\ update' = "before"
  /\ execute' = FALSE
  /\ UNCHANGED commsVars
  /\ currentState' = NextState

\* RESET is over: its effect on the receive buffer is DataExchange's.
ResetDone ==
  /\ currentState = "RESET"
  /\ currentState' = "IDLE"
  /\ UNCHANGED <<commsVars, execute, update>>

Core1Thread ==
  \/ Setup \/ Start \/ IdleTurn \/ UpdateTest \/ UpdateEnd \/ RunEnd
  \/ ResetDone

WatchdogNext == Core1Thread \/ ServoTick \/ DataReceived

WatchdogSpec == WatchdogInit /\ [][WatchdogNext]_watchdogVars
=============================================================================
