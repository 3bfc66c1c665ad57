----------------------------- MODULE Controller -----------------------------
(***************************************************************************)
(* The two cores together: DataExchange and CommsWatchdog, which meet in   *)
(* two places.  Core 0's callback notifies RemoraComms of a datagram, and  *)
(* the state machine's RESET zeroes the receive buffer.  The state machine *)
(* and the servo thread run below the interrupts of core 1: they stand     *)
(* still during a base tick.  The host may die.                            *)
(***************************************************************************)
EXTENDS DataExchange, CommsWatchdog

VARIABLE hostAlive

controllerVars == <<vars, watchdogVars, hostAlive>>

ControllerTypeOK == TypeOK /\ WatchdogTypeOK /\ hostAlive \in BOOLEAN

ControllerInit == Init /\ WatchdogInit /\ hostAlive = TRUE

\* Core 0.  The callback's call of comms->dataReceived() is the one step that
\* touches the state of CommsWatchdog.
HostSends ==
  /\ hostAlive
  /\ \E p \in Packets : Receive(p)
  /\ UNCHANGED <<watchdogVars, hostAlive>>

CallbackStep ==
  /\ Callback
  /\ UNCHANGED <<watchdogVars, hostAlive>>

NotifyStep ==
  /\ Notify
  /\ DataReceived
  /\ UNCHANGED hostAlive

\* Core 1, interrupt level; the timers run from START on, and the two timer
\* interrupts have the same priority.
BaseInterrupt ==
  /\ currentState \notin {"SETUP", "START"}
  /\ Tick
  /\ UNCHANGED <<watchdogVars, hostAlive>>

BaseStep ==
  /\ BaseTick
  /\ UNCHANGED <<watchdogVars, hostAlive>>

ServoInterrupt ==
  /\ c1 = "out"
  /\ ServoTick
  /\ UNCHANGED <<vars, hostAlive>>

\* Core 1, thread level.
ThreadStep ==
  /\ c1 = "out"
  /\ Setup \/ Start \/ IdleTurn \/ UpdateTest \/ UpdateEnd \/ RunEnd
  /\ UNCHANGED <<vars, hostAlive>>

ResetStep ==
  /\ currentState = "RESET"
  /\ ResetBegin \/ (\E n \in left : left # {n} /\ ResetByte(n))
  /\ UNCHANGED <<watchdogVars, hostAlive>>

\* With the last byte zeroed, the state machine moves on.
ResetEnd ==
  /\ \E n \in left : left = {n} /\ ResetByte(n)
  /\ ResetDone
  /\ UNCHANGED hostAlive

HostDies ==
  /\ hostAlive
  /\ hostAlive' = FALSE
  /\ UNCHANGED <<vars, watchdogVars>>

Thread == ThreadStep \/ ResetStep \/ ResetEnd

ControllerNext ==
  \/ HostSends \/ CallbackStep \/ NotifyStep
  \/ BaseInterrupt \/ BaseStep \/ ServoInterrupt
  \/ Thread
  \/ HostDies

ControllerSpec == ControllerInit /\ [][ControllerNext]_controllerVars

(***************************************************************************)
(* Each core runs its program.  A spinning core reads the semaphore every  *)
(* few cycles while ticks are BASE_PERIOD apart and datagrams further, so  *)
(* it cannot miss for ever a flag that is FALSE again and again; and a tick*)
(* is shorter than BASE_PERIOD, so the thread and the servo interrupt get  *)
(* their turn between ticks.                                               *)
(***************************************************************************)
ControllerFairness ==
  /\ WF_controllerVars(CallbackStep) /\ WF_controllerVars(NotifyStep)
  /\ SF_controllerVars(CallbackStep /\ Spin0)
  /\ WF_controllerVars(BaseStep) /\ SF_controllerVars(BaseStep /\ Spin1)
  /\ SF_controllerVars(ServoInterrupt) /\ SF_controllerVars(Thread)

ControllerFairSpec == ControllerSpec /\ ControllerFairness

-----------------------------------------------------------------------------
Stopped == rxEnable[currentRxBuffer] = {}

\* A running machine whose host has died, with no datagram left to answer,
\* comes to rest: the watchdog trips and RESET disables every joint in the
\* buffer in force (remora.cpp:601-643, RemoraComms.cpp:23-27).
RunningComesToRest ==
  currentState = "RUNNING" /\ ~hostAlive /\ c0 = "poll" ~> Stopped

\* The machine is only ever at rest for good: once the host is dead, joints
\* that some WRITE enabled are disabled in the end (RemoraComms.cpp:6, "an
\* Ethernet communication monitoring module").
DeadHostMeansRest == ~hostAlive ~> Stopped
=============================================================================
