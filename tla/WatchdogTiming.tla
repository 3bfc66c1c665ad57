--------------------------- MODULE WatchdogTiming ---------------------------
(***************************************************************************)
(* CommsWatchdog with two history variables, and what it promises in their *)
(* terms: when the watchdog trips, and what makes the machine run.         *)
(***************************************************************************)
EXTENDS CommsWatchdog

VARIABLES
  silentUpdates,  \* updates completed since core 0 last called dataReceived
  heard           \* core 0 has called dataReceived

timingVars == <<watchdogVars, silentUpdates, heard>>

\* The number of updates in which the watchdog must trip; silentUpdates is not
\* counted beyond it.
SilentLimit == DataErrMax + 2

TimingTypeOK ==
  /\ WatchdogTypeOK
  /\ silentUpdates \in 0 .. SilentLimit
  /\ heard \in BOOLEAN

TimingInit == WatchdogInit /\ silentUpdates = 0 /\ heard = FALSE

Hear ==
  /\ DataReceived
  /\ silentUpdates' = 0 /\ heard' = TRUE

CountUpdate ==
  /\ UpdateEnd
  /\ silentUpdates' = IF silentUpdates = SilentLimit THEN SilentLimit
                                                     ELSE silentUpdates + 1
  /\ UNCHANGED heard

Otherwise ==
  /\ \/ Setup \/ Start \/ ServoTick \/ IdleTurn \/ UpdateTest \/ RunEnd
     \/ ResetDone
  /\ UNCHANGED <<silentUpdates, heard>>

TimingNext == Hear \/ CountUpdate \/ Otherwise

TimingSpec == TimingInit /\ [][TimingNext]_timingVars

-----------------------------------------------------------------------------
\* The watchdog trips in time (RemoraComms.cpp:23): whatever the uninitialised
\* fields held, and even if a notification was lost, status is false once
\* DataErrMax + 2 updates have passed without a datagram.
TripsInTime == silentUpdates = SilentLimit => ~status

\* Nothing but a datagram makes the machine run (remora.cpp:581, "wait for data
\* before changing to running state").
RunningNeedsData == currentState = "RUNNING" => heard
=============================================================================
