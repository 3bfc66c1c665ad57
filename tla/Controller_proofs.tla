-------------------------- MODULE Controller_proofs --------------------------
(***************************************************************************)
(* The two cores together implement each of the parts they are made of:    *)
(* what is proved of the exchange holds of the whole controller, for any   *)
(* joints, commands and tolerance, and a host that may die.                *)
(***************************************************************************)
EXTENDS Controller, DataExchange_proofs

LEMMA ControllerStepIsExchange ==
  [ControllerNext]_controllerVars => [Next]_vars
<1> SUFFICES ASSUME [ControllerNext]_controllerVars
             PROVE  Next \/ UNCHANGED vars
  OBVIOUS
<1>1. CASE HostSends
  BY <1>1 DEF HostSends, Next
<1>2. CASE CallbackStep \/ NotifyStep
  BY <1>2 DEF CallbackStep, NotifyStep, Next, Core0
<1>3. CASE BaseInterrupt \/ BaseStep
  BY <1>3 DEF BaseInterrupt, BaseStep, Next
<1>4. CASE ResetStep \/ ResetEnd
  BY <1>4 DEF ResetStep, ResetEnd, Next, Reset
<1>5. CASE ServoInterrupt \/ ThreadStep \/ HostDies
  BY <1>5 DEF ServoInterrupt, ThreadStep, HostDies
<1>6. CASE UNCHANGED controllerVars
  BY <1>6 DEF controllerVars
<1>7. QED
  BY <1>1, <1>2, <1>3, <1>4, <1>5, <1>6 DEF ControllerNext, Thread

\* Whatever the state machine and the watchdog do, the exchange behaves as
\* DataExchange says: RESET is only one of the moments it is ready for.
THEOREM ControllerIsExchange == ControllerSpec => Spec
<1>1. ControllerInit => Init
  BY DEF ControllerInit
<1>2. QED
  BY <1>1, ControllerStepIsExchange, PTL DEF ControllerSpec, Spec

LEMMA ControllerStepIsWatchdog ==
  [ControllerNext]_controllerVars => [WatchdogNext]_watchdogVars
<1> SUFFICES ASSUME [ControllerNext]_controllerVars
             PROVE  WatchdogNext \/ UNCHANGED watchdogVars
  OBVIOUS
<1>1. CASE HostSends \/ CallbackStep \/ BaseInterrupt \/ BaseStep \/ ResetStep \/ HostDies
  BY <1>1 DEF HostSends, CallbackStep, BaseInterrupt, BaseStep, ResetStep, HostDies
<1>2. CASE NotifyStep \/ ServoInterrupt
  BY <1>2 DEF NotifyStep, ServoInterrupt, WatchdogNext
<1>3. CASE ThreadStep \/ ResetEnd
  BY <1>3 DEF ThreadStep, ResetEnd, WatchdogNext, Core1Thread
<1>4. CASE UNCHANGED controllerVars
  BY <1>4 DEF controllerVars
<1>5. QED
  BY <1>1, <1>2, <1>3, <1>4 DEF ControllerNext, Thread

\* Whatever the buffers, the ticks and the host do, the watchdog behaves as
\* CommsWatchdog says.
THEOREM ControllerIsWatchdog == ControllerSpec => WatchdogSpec
<1>1. ControllerInit => WatchdogInit
  BY DEF ControllerInit
<1>2. QED
  BY <1>1, ControllerStepIsWatchdog, PTL DEF ControllerSpec, WatchdogSpec

-----------------------------------------------------------------------------
LEMMA WatchdogTypeInit == WatchdogInit => WatchdogTypeOK
BY WatchdogAssumption DEF WatchdogInit, WatchdogTypeOK, States

LEMMA WatchdogTypeStep ==
  WatchdogTypeOK /\ [WatchdogNext]_watchdogVars => WatchdogTypeOK'
<1> SUFFICES ASSUME WatchdogTypeOK, [WatchdogNext]_watchdogVars
             PROVE  WatchdogTypeOK'
  OBVIOUS
<1> USE WatchdogAssumption DEF WatchdogTypeOK, States
<1>1. CASE UpdateTest
  <2>1. noDataCount' \in 0 .. CountMax
    BY <1>1 DEF UpdateTest, Counted, Trips
  <2>2. status' \in BOOLEAN
    BY <1>1 DEF UpdateTest
  <2>3. QED
    BY <1>1, <2>1, <2>2 DEF UpdateTest
<1>2. CASE Setup \/ Start \/ UpdateEnd \/ ResetDone
  BY <1>2 DEF Setup, Start, UpdateEnd, ResetDone, commsVars
<1>3. CASE IdleTurn \/ RunEnd
  BY <1>3 DEF IdleTurn, RunEnd, NextState, commsVars
<1>4. CASE ServoTick \/ DataReceived
  BY <1>4 DEF ServoTick, DataReceived, commsVars
<1>5. CASE UNCHANGED watchdogVars
  BY <1>5 DEF watchdogVars, commsVars
<1>6. QED
  BY <1>1, <1>2, <1>3, <1>4, <1>5 DEF WatchdogNext, Core1Thread

\* Every variable of both cores keeps its type.
THEOREM ControllerTypeCorrect == ControllerSpec => []ControllerTypeOK
<1>1. ControllerSpec => []TypeOK
  BY ControllerIsExchange, TypeCorrect, PTL
<1>2. ControllerSpec => []WatchdogTypeOK
  BY ControllerIsWatchdog, WatchdogTypeInit, WatchdogTypeStep, PTL DEF WatchdogSpec
<1>3. ControllerSpec => [](hostAlive \in BOOLEAN)
  <2>1. ControllerInit => hostAlive \in BOOLEAN
    BY DEF ControllerInit
  <2>2. hostAlive \in BOOLEAN /\ [ControllerNext]_controllerVars =>
          (hostAlive \in BOOLEAN)'
    BY DEF ControllerNext, HostSends, CallbackStep, NotifyStep, BaseInterrupt, BaseStep,
           ServoInterrupt, Thread, ThreadStep, ResetStep, ResetEnd, HostDies,
           controllerVars
  <2>3. QED
    BY <2>1, <2>2, PTL DEF ControllerSpec
<1>4. TypeOK /\ WatchdogTypeOK /\ hostAlive \in BOOLEAN => ControllerTypeOK
  BY DEF ControllerTypeOK
<1>5. QED
  BY <1>1, <1>2, <1>3, <1>4, PTL

\* With RESET entered by the watchdog, while datagrams come in, the step
\* generators still read only words of the last WRITE, or zero.
THEOREM ControllerCommandsIntact == ControllerSpec => []NoForeignCommand
BY ControllerIsExchange, CommandsIntact, PTL

\* With the whole machine in motion, the semaphore is set only while one of the
\* cores is about to clear it ...
THEOREM ControllerSemaphoreFreed == ControllerSpec => []SemaphoreOwned
BY ControllerIsExchange, SemaphoreFreed, PTL

\* ... no step is lost to the swaps ...
THEOREM ControllerFeedbackKept == ControllerSpec => []FeedbackHeld
BY ControllerIsExchange, FeedbackKept, PTL

\* ... and, if a tick ends before core 0 has handled two datagrams, a joint steps
\* as one WRITE asks: the last one, or the zeros of a RESET.
THEOREM ControllerStepsObey ==
  ASSUME ShortTicks
  PROVE  ControllerSpec => StepObeysOneCommand
BY ControllerIsExchange, StepsObeyOneCommand

\* Under the same condition the two cores implement what the host is promised
\* (HostExchange), though core 1 resets the buffers under it.
THEOREM ControllerKeepsPromise ==
  ASSUME ShortTicks
  PROVE  ControllerSpec => KeepsPromise
BY ControllerIsExchange, PromiseKept
=============================================================================
