----------------------- MODULE WatchdogTiming_proofs -----------------------
(***************************************************************************)
(* The watchdog trips in time, for every DATA_ERR_MAX below the largest    *)
(* value of the counter and whatever the uninitialised fields held.        *)
(***************************************************************************)
EXTENDS WatchdogTiming, TLAPS

\* While status is true the counter keeps up with the silent updates: it is
\* one behind between updates, and level with them between the test and the
\* clear.  A value beyond the threshold can only be the uninitialised one.
KeepsUp ==
  /\ data => silentUpdates = 0
  /\ update \in {"before", "rest"} =>
       /\ noDataCount > DataErrMax => silentUpdates = 0
       /\ status => silentUpdates <= noDataCount + 1
  /\ update = "clear" =>
       /\ noDataCount <= DataErrMax
       /\ status => silentUpdates <= noDataCount

TimingInv == TimingTypeOK /\ KeepsUp

LEMMA InitialKeepsUp == TimingInit => TimingInv
<1> SUFFICES ASSUME TimingInit PROVE TimingInv
  OBVIOUS
<1> USE WatchdogAssumption DEF TimingInit, WatchdogInit, SilentLimit
<1>1. TimingTypeOK
  <2>1. silentUpdates \in 0 .. SilentLimit
    OBVIOUS
  <2>2. heard \in BOOLEAN /\ execute \in BOOLEAN
    OBVIOUS
  <2>3. currentState \in States /\ update \in {"before", "clear", "rest"}
    BY DEF States
  <2>4. data \in BOOLEAN /\ status \in BOOLEAN /\ noDataCount \in 0 .. CountMax
    OBVIOUS
  <2>5. QED
    BY <2>1, <2>2, <2>3, <2>4 DEF TimingTypeOK, WatchdogTypeOK
<1>2. KeepsUp
  <2>1. noDataCount \in Nat /\ silentUpdates = 0
    OBVIOUS
  <2>2. QED
    BY <2>1 DEF KeepsUp
<1>3. QED
  BY <1>1, <1>2 DEF TimingInv

LEMMA TimingTypeStep == TimingTypeOK /\ [TimingNext]_timingVars => TimingTypeOK'
<1> SUFFICES ASSUME TimingTypeOK, [TimingNext]_timingVars PROVE TimingTypeOK'
  OBVIOUS
<1> USE WatchdogAssumption DEF TimingTypeOK, WatchdogTypeOK, SilentLimit, States
<1>1. CASE Hear
  BY <1>1 DEF Hear, DataReceived
<1>2. CASE CountUpdate
  <2>1. silentUpdates' \in 0 .. SilentLimit
    BY <1>2 DEF CountUpdate
  <2>2. currentState' \in States
    BY <1>2 DEF CountUpdate, UpdateEnd
  <2>3. data' \in BOOLEAN /\ execute' \in BOOLEAN /\ update' \in {"before", "clear", "rest"}
    BY <1>2 DEF CountUpdate, UpdateEnd
  <2>4. UNCHANGED <<status, noDataCount, heard>>
    BY <1>2 DEF CountUpdate, UpdateEnd
  <2>5. QED
    BY <2>1, <2>2, <2>3, <2>4
<1>3. ASSUME Otherwise PROVE TimingTypeOK'
  <2>1. CASE UpdateTest
    <3>1. noDataCount' \in 0 .. CountMax
      BY <2>1 DEF UpdateTest, Counted, Trips
    <3>2. status' \in BOOLEAN
      BY <2>1 DEF UpdateTest
    <3>3. QED
      BY <1>3, <2>1, <3>1, <3>2 DEF Otherwise, UpdateTest
  <2>2. CASE IdleTurn
    BY <1>3, <2>2 DEF Otherwise, IdleTurn, NextState, commsVars
  <2>5. CASE RunEnd
    BY <1>3, <2>5 DEF Otherwise, RunEnd, NextState, commsVars
  <2>3. CASE Setup \/ Start \/ ServoTick \/ ResetDone
    BY <1>3, <2>3 DEF Otherwise, Setup, Start, ServoTick, ResetDone, commsVars
  <2>4. QED
    BY <1>3, <2>1, <2>2, <2>3, <2>5 DEF Otherwise
<1>4. CASE UNCHANGED timingVars
  BY <1>4 DEF timingVars, watchdogVars, commsVars
<1>5. QED
  BY <1>1, <1>2, <1>3, <1>4 DEF TimingNext

LEMMA KeepsUpStep ==
  ASSUME TimingTypeOK, KeepsUp, [TimingNext]_timingVars
  PROVE  KeepsUp'
<1> USE WatchdogAssumption DEF TimingTypeOK, WatchdogTypeOK, SilentLimit
<1> DEFINE others == UNCHANGED <<data, status, noDataCount, update, silentUpdates>>
<1>1. CASE Hear
  BY <1>1 DEF Hear, DataReceived, KeepsUp
<1>2. CASE CountUpdate
  BY <1>2 DEF CountUpdate, UpdateEnd, KeepsUp
<1>3. CASE UpdateTest /\ UNCHANGED silentUpdates
  <2>1. CASE Trips(Counted)
    BY <1>3, <2>1 DEF UpdateTest, KeepsUp
  <2>2. CASE data /\ ~Trips(Counted)
    BY <1>3, <2>2 DEF UpdateTest, KeepsUp, Counted
  <2>3. CASE ~data /\ ~Trips(Counted)
    BY <1>3, <2>3 DEF UpdateTest, KeepsUp, Counted, Trips
  <2>4. QED
    BY <2>1, <2>2, <2>3
<1>4. CASE others
  BY <1>4 DEF KeepsUp
<1>5. CASE RunEnd /\ UNCHANGED silentUpdates
  BY <1>5 DEF RunEnd, commsVars, KeepsUp
<1>6. IdleTurn /\ UNCHANGED silentUpdates => others
  BY DEF IdleTurn, commsVars
<1>7. (Setup \/ Start \/ ServoTick \/ ResetDone) /\ UNCHANGED silentUpdates => others
  BY DEF Setup, Start, ServoTick, ResetDone, commsVars
<1>8. UNCHANGED timingVars => others
  BY DEF timingVars, watchdogVars, commsVars
<1>9. QED
  BY <1>1, <1>2, <1>3, <1>4, <1>5, <1>6, <1>7, <1>8 DEF TimingNext, Otherwise

\* Every variable keeps its type (WatchdogTiming!TimingTypeOK).
THEOREM TimingTypeCorrect == TimingSpec => []TimingTypeOK
<1>1. TimingInit => TimingTypeOK
  BY InitialKeepsUp DEF TimingInv
<1>2. QED
  BY <1>1, TimingTypeStep, PTL DEF TimingSpec

\* status is false once DataErrMax + 2 updates have passed without a datagram
\* (WatchdogTiming!TripsInTime).
THEOREM WatchdogTrips == TimingSpec => []TripsInTime
<1>1. TimingInv /\ [TimingNext]_timingVars => TimingInv'
  BY TimingTypeStep, KeepsUpStep DEF TimingInv
<1>2. TimingInv => TripsInTime
  BY WatchdogAssumption
  DEF TimingInv, TimingTypeOK, WatchdogTypeOK, KeepsUp, TripsInTime, SilentLimit
<1>3. QED
  BY InitialKeepsUp, <1>1, <1>2, PTL DEF TimingSpec
=============================================================================
