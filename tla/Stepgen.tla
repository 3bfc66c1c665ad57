------------------------------ MODULE Stepgen -------------------------------
(***************************************************************************)
(* The step generators of the base thread (modules/stepgen/stepgen.cpp, run*)
(* by thread/pruThread.cpp): a direct digital synthesis accumulator per    *)
(* joint, the step and direction pins, the raw count that is reported as   *)
(* feedback, and the motor that a driver moves on each rising edge of the  *)
(* step pin.  What a joint is commanded in a tick is any command: module   *)
(* DataExchange says which.                                                *)
(***************************************************************************)
EXTENDS Integers

CONSTANTS
  Joints,      \* the joints with a step generator in the base thread
  Unit,        \* 2^STEPBIT, the accumulator's value of one step
  Half,        \* 2^31: the accumulator is an int32_t
  ThreadFreq,  \* PRU_BASEFREQ
  Freqs,       \* the frequency commands
  Pins, StepPin, DirectionPin,
  DebugPin,    \* the pin pruThread::run drives itself
  MaxTravel    \* bound: no joint travels further than this (in Units / Unit)

ASSUME UnitAssumption == Unit \in Nat \ {0}
ASSUME HalfAssumption == Half \in Nat /\ \E k \in 1 .. Half : Half = k * (2 * Unit)
ASSUME ThreadFreqAssumption == ThreadFreq \in Nat \ {0}
ASSUME FreqsAssumption == Freqs \subseteq -ThreadFreq .. ThreadFreq
ASSUME TravelAssumption == MaxTravel \in Nat
ASSUME PinsAssumption ==
  StepPin \in [Joints -> Pins] /\ DirectionPin \in [Joints -> Pins]

VARIABLES
  accumulator, forward, rawCount,  \* members of each Stepgen
  level,                           \* the level of each pin
  stage, joint, todo,              \* where pruThread::run is
  motor,                           \* the motor of each joint
  travel, wraps   \* history: the sum of the add values, and the overflows

sgVars == <<accumulator, forward, rawCount, level, stage, joint, todo,
            motor, travel, wraps>>

Stages == {"out", "update", "direction", "step", "count", "post", "end"}

Init ==
  /\ accumulator = [j \in Joints |-> 0]
  /\ forward = [j \in Joints |-> FALSE] /\ rawCount = [j \in Joints |-> 0]
  /\ level = [p \in Pins |-> FALSE]
  /\ stage = "out" /\ joint \in Joints /\ todo = {}
  /\ motor = [j \in Joints |-> 0]
  /\ travel = [j \in Joints |-> 0] /\ wraps = [j \in Joints |-> 0]

(***************************************************************************)
(* Arithmetic.  The add value is a float product cut to an int32_t: next to*)
(* an integer the float may have been rounded up to it.  The sum wraps.    *)
(***************************************************************************)
Magnitudes(f) ==
  LET n == (IF f < 0 THEN -f ELSE f) * Unit
  IN {n \div ThreadFreq} \cup IF n % ThreadFreq = 0 THEN {} ELSE {n \div ThreadFreq + 1}

AddValues(f) == {IF f < 0 THEN -m ELSE m : m \in Magnitudes(f)}

\* How often the sum has left the int32_t range, up or down.
NeverOverflows(x) == 0  \* a mutant
Overflows(x) == (x + Half) \div (2 * Half)

\* Bit STEPBIT of a two's complement number.
CoarseBit(x) == (x \div (2 * Unit)) % 2  \* a mutant: one bit too high
Bit(x) == (x \div Unit) % 2

(***************************************************************************)
(* Pins: a driver moves its motor when its step pin rises, in the direction*)
(* its direction pin then has.                                             *)
(***************************************************************************)
Driven(p, v) ==
  /\ level' = [level EXCEPT ![p] = v]
  /\ motor' = [j \in Joints |->
       IF StepPin[j] = p /\ v /\ ~level[p]
       THEN motor[j] + IF level[DirectionPin[j]] THEN 1 ELSE -1
       ELSE motor[j]]

(***************************************************************************)
(* pruThread::run: the modules' update, then their updatePost.             *)
(***************************************************************************)
BaseTick ==
  /\ stage = "out"
  /\ stage' = "update" /\ todo' = Joints
  /\ Driven(DebugPin, TRUE)
  /\ UNCHANGED <<accumulator, forward, rawCount, joint, travel, wraps>>

\* The next module of the list, or the second list when this one has ended.
Proceed(from) ==
  IF from = {} THEN stage' = "post" /\ todo' = Joints
               ELSE stage' = "update" /\ todo' = from

\* A joint that is not enabled is left alone.
Disabled(j) ==
  /\ stage = "update" /\ j \in todo
  /\ Proceed(todo \ {j})
  /\ UNCHANGED <<accumulator, forward, rawCount, level, joint, motor,
                 travel, wraps>>

IsForward(a) == a > 0

Accumulate(j, a) ==
  LET sum == accumulator[j] + a
      acc == sum - Overflows(sum) * (2 * Half)
  IN /\ stage = "update" /\ j \in todo
     /\ travel[j] + a \in -MaxTravel .. MaxTravel
     /\ joint' = j
     /\ accumulator' = [accumulator EXCEPT ![j] = acc]
     /\ wraps' = [wraps EXCEPT ![j] = wraps[j] + Overflows(sum)]
     /\ travel' = [travel EXCEPT ![j] = travel[j] + a]
     /\ forward' = [forward EXCEPT ![j] = IsForward(a)]
     /\ IF Bit(accumulator[j]) # Bit(acc)
        THEN stage' = "direction" /\ UNCHANGED todo
        ELSE Proceed(todo \ {j})
     /\ UNCHANGED <<rawCount, level, motor>>

SetDirection ==
  /\ stage = "direction"
  /\ stage' = "step"
  /\ Driven(DirectionPin[joint], forward[joint])
  /\ UNCHANGED <<accumulator, forward, rawCount, joint, todo, travel, wraps>>

RaiseStep ==
  /\ stage = "step"
  /\ stage' = "count"
  /\ Driven(StepPin[joint], TRUE)
  /\ UNCHANGED <<accumulator, forward, rawCount, joint, todo, travel, wraps>>

CountStep ==
  /\ stage = "count"
  /\ Proceed(todo \ {joint})
  /\ rawCount' = [rawCount EXCEPT ![joint] =
                    rawCount[joint] + IF forward[joint] THEN 1 ELSE -1]
  /\ UNCHANGED <<accumulator, forward, level, joint, motor, travel, wraps>>

KeepPulse(j) == Driven(StepPin[j], level[StepPin[j]])  \* a mutant
LowerStep(j) == Driven(StepPin[j], FALSE)

StopPulses(j) ==
  /\ stage = "post" /\ j \in todo
  /\ todo' = todo \ {j}
  /\ stage' = IF todo' = {} THEN "end" ELSE "post"
  /\ LowerStep(j)
  /\ UNCHANGED <<accumulator, forward, rawCount, joint, travel, wraps>>

TickEnd ==
  /\ stage = "end"
  /\ stage' = "out"
  /\ Driven(DebugPin, FALSE)
  /\ UNCHANGED <<accumulator, forward, rawCount, joint, todo, travel, wraps>>

Next ==
  \/ BaseTick \/ SetDirection \/ RaiseStep \/ CountStep \/ TickEnd
  \/ \E j \in Joints :
       \/ Disabled(j) \/ StopPulses(j)
       \/ \E f \in Freqs : \E a \in AddValues(f) : Accumulate(j, a)

Spec == Init /\ [][Next]_sgVars

-----------------------------------------------------------------------------
(***************************************************************************)
(* Properties.                                                             *)
(***************************************************************************)
StepgenTypeOK ==
  /\ accumulator \in [Joints -> -Half .. Half - 1]
  /\ forward \in [Joints -> BOOLEAN]
  /\ rawCount \in [Joints -> Int]
  /\ level \in [Pins -> BOOLEAN]
  /\ stage \in Stages /\ joint \in Joints /\ todo \in SUBSET Joints
  /\ motor \in [Joints -> Int]
  /\ travel \in [Joints -> Int] /\ wraps \in [Joints -> Int]

\* The step that joint is about to count.
Pending(j) == stage \in {"direction", "step", "count"} /\ joint = j

\* No step is lost or invented, however often the accumulator overflows and the
\* direction changes: the raw count is the whole number of steps in the sum of
\* the add values, what the line commented out in its place (stepgen.cpp:95)
\* would have computed from an accumulator that never overflowed.
CountIsTravel ==
  \A j \in Joints :
    rawCount[j] + (IF ~Pending(j) THEN 0 ELSE IF forward[j] THEN 1 ELSE -1)
      = travel[j] \div Unit

\* The motors are where the raw counts say ("current position raw count",
\* stepgen.h:29), but for the step between its edge and its count
\* (stepgen.cpp:108-118).
MotorIsAtCount ==
  \A j \in Joints :
    motor[j] = rawCount[j] + IF stage = "count" /\ joint = j
                             THEN IF forward[j] THEN 1 ELSE -1
                             ELSE 0

\* A driver's direction input is steady while its step input is high: the step
\* pins are lowered (stepgen.cpp:128) before any direction pin is set again
\* (stepgen.cpp:108).
DirectionSteady ==
  [][ \A j \in Joints :
        level[StepPin[j]] =>
          level'[DirectionPin[j]] = level[DirectionPin[j]] ]_sgVars
=============================================================================
