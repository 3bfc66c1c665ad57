--------------------------- MODULE Stepgen_proofs ---------------------------
(***************************************************************************)
(* Proofs about module Stepgen: for every step size, accumulator width,    *)
(* thread frequency and number of joints, no step is lost or invented.     *)
(***************************************************************************)
EXTENDS Stepgen, TLAPS

-----------------------------------------------------------------------------
(***************************************************************************)
(* Division by a positive number, rounding down.                           *)
(***************************************************************************)
\* The quotient is the one number of units that fits.
LEMMA DivBounds ==
  ASSUME NEW d \in Nat \ {0}, NEW x \in Int
  PROVE  /\ x \div d \in Int
         /\ d * (x \div d) <= x
         /\ x < d * (x \div d) + d
  OBVIOUS

LEMMA DivRemainder ==
  ASSUME NEW d \in Nat \ {0}, NEW x \in Int
  PROVE  x % d = x - d * (x \div d)
OBVIOUS

LEMMA DivUnique ==
  ASSUME NEW d \in Nat \ {0}, NEW x \in Int, NEW q \in Int,
         d * q <= x, x < d * q + d
  PROVE  q = x \div d
<1> DEFINE p == x \div d
<1>1. p \in Int /\ d * p <= x /\ x < d * p + d
  BY DivBounds
<1>2. d * (p - q) < d /\ d * (q - p) < d
  BY <1>1
<1>3. p - q < 1 /\ q - p < 1
  BY <1>1, <1>2
<1> QED
  BY <1>1, <1>3

\* A multiple of the divisor comes out of the quotient.
LEMMA DivShift ==
  ASSUME NEW d \in Nat \ {0}, NEW x \in Int, NEW m \in Int
  PROVE  (x - m * d) \div d = x \div d - m
<1> DEFINE p == x \div d
<1>1. p \in Int /\ d * p <= x /\ x < d * p + d
  BY DivBounds
<1>2. d * (p - m) = d * p - m * d
  BY <1>1
<1>3. x - m * d \in Int /\ p - m \in Int
  BY <1>1
<1> HIDE DEF p
<1>4. d * (p - m) <= x - m * d /\ x - m * d < d * (p - m) + d
  BY <1>1, <1>2, <1>3
<1>5. p - m = (x - m * d) \div d
  BY <1>3, <1>4, DivUnique
<1> QED
  BY <1>5 DEF p

\* An add value of at most one unit changes the quotient by at most one, in its
\* own direction.
LEMMA DivStep ==
  ASSUME NEW d \in Nat \ {0}, NEW x \in Int, NEW a \in -d .. d
  PROVE  \/ (x + a) \div d = x \div d
         \/ a > 0 /\ (x + a) \div d = x \div d + 1
         \/ a < 0 /\ (x + a) \div d = x \div d - 1
<1> DEFINE p == x \div d
           q == (x + a) \div d
<1>1. p \in Int /\ d * p <= x /\ x < d * p + d
  BY DivBounds
<1>2. q \in Int /\ d * q <= x + a /\ x + a < d * q + d
  BY DivBounds
<1> HIDE DEF p, q
<1>3. d * (q - p) < d + a /\ d * (p - q) < d - a
  BY <1>1, <1>2
<1>4. q - p < 2 /\ p - q < 2
  <2>1. d * (q - p) < d * 2 /\ d * (p - q) < d * 2
    BY <1>1, <1>2, <1>3
  <2> QED
    BY <2>1, <1>1, <1>2
<1>5. CASE q - p = 1
  <2>1. d * (q - p) = d
    BY <1>5
  <2>2. a > 0 /\ q = p + 1
    BY <1>1, <1>2, <1>3, <1>5, <2>1
  <2> QED
    BY <2>2 DEF p, q
<1>6. CASE p - q = 1
  <2>1. d * (p - q) = d
    BY <1>6
  <2>2. a < 0 /\ q = p - 1
    BY <1>1, <1>2, <1>3, <1>6, <2>1
  <2> QED
    BY <2>2 DEF p, q
<1>7. CASE q = p
  BY <1>7 DEF p, q
<1> QED
  BY <1>1, <1>2, <1>4, <1>5, <1>6, <1>7

LEMMA Parity ==
  ASSUME NEW p \in Int, NEW q \in Int, q = p + 1 \/ q = p - 1
  PROVE  p % 2 # q % 2
  OBVIOUS

-----------------------------------------------------------------------------
(***************************************************************************)
(* The accumulator's arithmetic.                                           *)
(***************************************************************************)
\* Within the thread's frequency an add value is at most one step.
LEMMA AddValueBound ==
  ASSUME NEW f \in Freqs, NEW a \in AddValues(f)
  PROVE  a \in -Unit .. Unit
<1> DEFINE m == IF f < 0 THEN -f ELSE f
           n == m * Unit
           q == n \div ThreadFreq
<1>1. f \in Int /\ m \in 0 .. ThreadFreq
  BY FreqsAssumption, ThreadFreqAssumption
<1>2. n \in Nat /\ n <= ThreadFreq * Unit
  BY <1>1, UnitAssumption, ThreadFreqAssumption
<1>3. q \in Int /\ ThreadFreq * q <= n /\ n < ThreadFreq * q + ThreadFreq
  BY <1>2, DivBounds, ThreadFreqAssumption
<1>4. n % ThreadFreq = n - ThreadFreq * q
  <2>1. n \in Int /\ ThreadFreq \in Nat \ {0}
    BY <1>2, ThreadFreqAssumption
  <2> HIDE DEF n
  <2> QED
    BY <2>1, DivRemainder
<1> HIDE DEF n, q
<1>5. q >= 0
  <2>1. ThreadFreq * (q + 1) > 0
    BY <1>2, <1>3, ThreadFreqAssumption
  <2>2. q + 1 > 0
    BY <2>1, <1>3, ThreadFreqAssumption
  <2> QED
    BY <2>2, <1>3
<1>6. q <= Unit
  <2>1. ThreadFreq * (q - Unit) <= 0
    BY <1>2, <1>3, ThreadFreqAssumption, UnitAssumption
  <2> QED
    BY <2>1, <1>3, ThreadFreqAssumption, UnitAssumption
<1>7. n % ThreadFreq # 0 => q + 1 <= Unit
  <2>1. n % ThreadFreq # 0 => ThreadFreq * (q - Unit) < 0
    BY <1>2, <1>3, <1>4, ThreadFreqAssumption, UnitAssumption
  <2> QED
    BY <2>1, <1>3, ThreadFreqAssumption, UnitAssumption
<1>8. \A k \in Magnitudes(f) : k \in 0 .. Unit
  <2>1. Magnitudes(f) = {q} \cup IF n % ThreadFreq = 0 THEN {} ELSE {q + 1}
    BY DEF Magnitudes, n, q
  <2> QED
    BY <2>1, <1>3, <1>5, <1>6, <1>7, UnitAssumption
<1> QED
  BY <1>1, <1>8, UnitAssumption DEF AddValues

\* Overflowing does not disturb the step bit.
LEMMA BitOfOverflow ==
  ASSUME NEW x \in Int, NEW w \in Int
  PROVE  Bit(x - w * (2 * Half)) = Bit(x)
<1> PICK k \in 1 .. Half : Half = k * (2 * Unit)
  BY HalfAssumption
<1>0. k \in Int /\ Unit \in Nat \ {0} /\ Half \in Int
  BY HalfAssumption, UnitAssumption
<1>1. w * (2 * Half) = (2 * (2 * w * k)) * Unit
  BY <1>0
<1>2. 2 * (2 * w * k) \in Int
  BY <1>0
<1>3. (x - w * (2 * Half)) \div Unit = x \div Unit - 2 * (2 * w * k)
  BY <1>0, <1>1, <1>2, DivShift
<1>4. x \div Unit \in Int
  BY <1>0, DivBounds
<1>5. \A y, z \in Int : (y - 2 * z) % 2 = y % 2
  OBVIOUS
<1>6. 2 * w * k \in Int
  BY <1>0
<1> QED
  BY <1>3, <1>4, <1>5, <1>6 DEF Bit
-----------------------------------------------------------------------------
(***************************************************************************)
(* No step is lost or invented.                                            *)
(***************************************************************************)
\* The accumulator is the travel, less what its overflows took away.
Unwrapped ==
  \A j \in Joints : accumulator[j] = travel[j] - wraps[j] * (2 * Half)

CountInv == StepgenTypeOK /\ Unwrapped /\ CountIsTravel

LEMMA CountInit == Init => CountInv
<1> SUFFICES ASSUME Init PROVE CountInv
  OBVIOUS
<1>1. Half \in Nat \ {0}
  BY HalfAssumption, UnitAssumption
<1>2. StepgenTypeOK
  <2>1. 0 \in -Half .. Half - 1
    BY <1>1
  <2>2. /\ accumulator \in [Joints -> -Half .. Half - 1]
        /\ rawCount \in [Joints -> Int] /\ motor \in [Joints -> Int]
        /\ travel \in [Joints -> Int] /\ wraps \in [Joints -> Int]
    BY <2>1 DEF Init
  <2>3. forward \in [Joints -> BOOLEAN] /\ level \in [Pins -> BOOLEAN]
    BY Zenon DEF Init
  <2> QED
    BY <2>2, <2>3 DEF Init, StepgenTypeOK, Stages
<1>3. Unwrapped
  <2>1. 0 * (2 * Half) = 0
    BY <1>1
  <2>2. ASSUME NEW j \in Joints
        PROVE  accumulator[j] = 0 /\ travel[j] = 0 /\ wraps[j] = 0
    BY DEF Init
  <2>3. 0 = 0 - 0 * (2 * Half)
    BY <2>1
  <2>4. ASSUME NEW j \in Joints
        PROVE  accumulator[j] = travel[j] - wraps[j] * (2 * Half)
    BY <2>2, <2>3
  <2> QED
    BY <2>4 DEF Unwrapped
<1>4. 0 = 0 \div Unit
  BY UnitAssumption, DivUnique
<1>5. CountIsTravel
  <2>1. ASSUME NEW j \in Joints PROVE ~Pending(j) /\ rawCount[j] = 0 /\ travel[j] = 0
    BY DEF Init, Pending
  <2>2. ASSUME NEW j \in Joints
        PROVE rawCount[j] + (IF ~Pending(j) THEN 0 ELSE IF forward[j] THEN 1 ELSE -1)
                = travel[j] \div Unit
    BY <1>4, <2>1
  <2> QED
    BY <2>2 DEF CountIsTravel
<1> QED
  BY <1>2, <1>3, <1>5 DEF CountInv

\* An addition to the accumulator of joint j: the only step that changes what
\* CountIsTravel relates.
LEMMA AccumulatePreserves ==
  ASSUME CountInv, NEW j \in Joints, NEW f \in Freqs, NEW a \in AddValues(f),
         Accumulate(j, a)
  PROVE  CountInv'
<1> DEFINE sum == accumulator[j] + a
           acc == sum - Overflows(sum) * (2 * Half)
           go == Bit(accumulator[j]) # Bit(acc)
<1> USE DEF CountInv
<1>1. /\ Unit \in Nat \ {0} /\ Half \in Nat \ {0} /\ a \in -Unit .. Unit
  BY AddValueBound, UnitAssumption, HalfAssumption
<1>2. /\ accumulator[j] \in -Half .. Half - 1
      /\ travel[j] \in Int /\ wraps[j] \in Int /\ sum \in Int
  BY <1>1 DEF StepgenTypeOK
<1>3. /\ Overflows(sum) \in Int /\ acc \in -Half .. Half - 1
  <2>1. 2 * Half \in Nat \ {0} /\ sum + Half \in Int
    BY <1>1, <1>2
  <2> DEFINE o == (sum + Half) \div (2 * Half)
  <2>2. o \in Int /\ (2 * Half) * o <= sum + Half /\ sum + Half < (2 * Half) * o + 2 * Half
    BY <2>1, DivBounds
  <2>3. (2 * Half) * o = o * (2 * Half)
    BY <2>1, <2>2
  <2>4. Overflows(sum) = o
    BY DEF Overflows
  <2> HIDE DEF o
  <2> QED
    BY <1>1, <1>2, <2>2, <2>3, <2>4
<1>4. acc = (travel[j] + a) - (wraps[j] + Overflows(sum)) * (2 * Half)
  <2>1. accumulator[j] = travel[j] - wraps[j] * (2 * Half)
    BY DEF Unwrapped
  <2> HIDE DEF sum
  <2>2. sum = travel[j] + a - wraps[j] * (2 * Half)
    BY <1>1, <1>2, <2>1 DEF sum
  <2> QED
    BY <1>1, <1>2, <1>3, <2>2
<1>5. /\ travel' = [travel EXCEPT ![j] = travel[j] + a]
      /\ wraps' = [wraps EXCEPT ![j] = wraps[j] + Overflows(sum)]
      /\ accumulator' = [accumulator EXCEPT ![j] = acc]
      /\ forward' = [forward EXCEPT ![j] = a > 0]
      /\ joint' = j /\ stage = "update" /\ j \in todo
      /\ UNCHANGED <<rawCount, level, motor>>
      /\ IF go THEN stage' = "direction" /\ UNCHANGED todo ELSE Proceed(todo \ {j})
  BY DEF Accumulate, IsForward
<1>6. StepgenTypeOK'
  <2> HIDE DEF acc, go
  <2>1. stage' \in Stages /\ todo' \in SUBSET Joints
    BY <1>5 DEF Proceed, Stages, StepgenTypeOK
  <2>2. /\ travel' \in [Joints -> Int] /\ wraps' \in [Joints -> Int]
        /\ accumulator' \in [Joints -> -Half .. Half - 1]
    BY <1>1, <1>2, <1>3, <1>5 DEF StepgenTypeOK
  <2> QED
    BY <1>5, <2>1, <2>2 DEF StepgenTypeOK
<1>7. Unwrapped'
  <2> HIDE DEF acc, go, sum
  <2> SUFFICES ASSUME NEW k \in Joints
               PROVE accumulator'[k] = travel'[k] - wraps'[k] * (2 * Half)
    BY DEF Unwrapped
  <2>1. CASE k = j
    BY <2>1, <1>4, <1>5 DEF StepgenTypeOK
  <2>2. CASE k # j
    BY <2>2, <1>5 DEF StepgenTypeOK, Unwrapped
  <2> QED
    BY <2>1, <2>2
<1>8. CountIsTravel'
  <2> DEFINE p == travel[j] \div Unit
             q == (travel[j] + a) \div Unit
  <2>1. rawCount[j] = p
    BY <1>5 DEF CountIsTravel, Pending, StepgenTypeOK
  <2>2. Bit(accumulator[j]) = p % 2
    BY <1>2, BitOfOverflow DEF Unwrapped, Bit
  <2>3. Bit(acc) = q % 2
    <3>1. travel[j] + a \in Int /\ wraps[j] + Overflows(sum) \in Int
      BY <1>1, <1>2, <1>3
    <3> QED
      BY <3>1, <1>4, BitOfOverflow DEF Bit
  <2>4. p \in Int /\ q \in Int
    BY <1>1, <1>2, DivBounds
  <2>5. q = p \/ (a > 0 /\ q = p + 1) \/ (a < 0 /\ q = p - 1)
    BY <1>1, <1>2, DivStep
  <2>6. go <=> p % 2 # q % 2
    BY <2>2, <2>3
  <2>7. go <=> p # q
    BY <2>4, <2>5, <2>6, Parity
  <2> HIDE DEF p, q, go, acc
  <2>8. rawCount'[j] + (IF ~Pending(j)' THEN 0 ELSE IF forward'[j] THEN 1 ELSE -1) = q
    <3>1. forward'[j] = (a > 0)
      BY <1>5 DEF StepgenTypeOK
    <3>2. CASE go
      <4>1. Pending(j)'
        BY <3>2, <1>5 DEF Pending
      <4>2. (a > 0 /\ q = p + 1) \/ (a < 0 /\ q = p - 1)
        BY <3>2, <2>5, <2>7
      <4>3. rawCount'[j] = p
        BY <1>5, <2>1
      <4>4. CASE a > 0 /\ q = p + 1
        <5>1. forward'[j]
          BY <4>4, <3>1
        <5> QED
          BY <4>1, <4>3, <4>4, <5>1
      <4>5. CASE a < 0 /\ q = p - 1
        <5>1. ~forward'[j]
          <6>1. ~(a > 0)
            BY <4>5, <1>1
          <6> QED
            BY <6>1, <3>1
        <5> QED
          BY <2>4, <4>1, <4>3, <4>5, <5>1
      <4> QED
        BY <4>2, <4>4, <4>5
    <3>3. CASE ~go
      <4>1. ~Pending(j)'
        BY <3>3, <1>5 DEF Pending, Proceed
      <4> QED
        BY <4>1, <3>3, <2>1, <2>4, <2>7, <1>5
    <3> QED
      BY <3>2, <3>3
  <2>9. travel'[j] \div Unit = q
    BY <1>5 DEF StepgenTypeOK, q
  <2>10. ASSUME NEW k \in Joints \ {j}
         PROVE  /\ travel'[k] = travel[k] /\ rawCount'[k] = rawCount[k]
                /\ ~Pending(k) /\ ~Pending(k)'
    BY <1>5 DEF StepgenTypeOK, Pending
  <2> QED
    BY <2>8, <2>9, <2>10 DEF CountIsTravel
<1> QED
  BY <1>6, <1>7, <1>8

\* Driving a pin keeps the types.
LEMMA DrivenTyped ==
  ASSUME StepgenTypeOK, NEW p, NEW v \in BOOLEAN, Driven(p, v)
  PROVE  level' \in [Pins -> BOOLEAN] /\ motor' \in [Joints -> Int]
<1>1. level' \in [Pins -> BOOLEAN]
  BY Zenon DEF Driven, StepgenTypeOK
<1>2. motor' \in [Joints -> Int]
  BY DEF Driven, StepgenTypeOK
<1> QED
  BY <1>1, <1>2

\* A step that changes none of the counting preserves the invariant.
LEMMA CountUnchanged ==
  ASSUME CountInv, StepgenTypeOK',
         UNCHANGED <<accumulator, forward, rawCount, travel, wraps>>,
         \A j \in Joints : Pending(j)' <=> Pending(j)
  PROVE  CountInv'
<1>1. Unwrapped'
  BY DEF CountInv, Unwrapped
<1>2. CountIsTravel'
  BY DEF CountInv, CountIsTravel
<1> QED
  BY <1>1, <1>2 DEF CountInv

\* The other steps move what is pending to the raw count, or change nothing of it.
LEMMA CountNext == CountInv /\ [Next]_sgVars => CountInv'
<1> SUFFICES ASSUME CountInv, [Next]_sgVars PROVE CountInv'
  OBVIOUS
<1>0. StepgenTypeOK
  BY DEF CountInv
<1>1. CASE BaseTick
  <2>1. Driven(DebugPin, TRUE)
    BY <1>1 DEF BaseTick
  <2>2. level' \in [Pins -> BOOLEAN] /\ motor' \in [Joints -> Int]
    BY <1>0, <2>1, DrivenTyped
  <2>3. StepgenTypeOK'
    BY <1>0, <1>1, <2>2 DEF BaseTick, StepgenTypeOK, Stages
  <2> QED
    BY <1>1, <2>3, CountUnchanged DEF BaseTick, Pending
<1>2. CASE SetDirection
  <2>1. Driven(DirectionPin[joint], forward[joint])
    BY <1>2 DEF SetDirection
  <2>2. level' \in [Pins -> BOOLEAN] /\ motor' \in [Joints -> Int]
    BY <1>0, <2>1, DrivenTyped DEF StepgenTypeOK
  <2>3. StepgenTypeOK'
    BY <1>0, <1>2, <2>2 DEF SetDirection, StepgenTypeOK, Stages
  <2> QED
    BY <1>2, <2>3, CountUnchanged DEF SetDirection, Pending
<1>3. CASE RaiseStep
  <2>1. Driven(StepPin[joint], TRUE)
    BY <1>3 DEF RaiseStep
  <2>2. level' \in [Pins -> BOOLEAN] /\ motor' \in [Joints -> Int]
    BY <1>0, <2>1, DrivenTyped
  <2>3. StepgenTypeOK'
    BY <1>0, <1>3, <2>2 DEF RaiseStep, StepgenTypeOK, Stages
  <2> QED
    BY <1>3, <2>3, CountUnchanged DEF RaiseStep, Pending
<1>4. CASE CountStep
  <2> DEFINE d(k) == IF forward[k] THEN 1 ELSE -1
  <2>1. /\ rawCount' = [rawCount EXCEPT ![joint] = rawCount[joint] + d(joint)]
        /\ Pending(joint) /\ \A k \in Joints : ~Pending(k)'
        /\ \A k \in Joints \ {joint} : ~Pending(k)
        /\ UNCHANGED <<accumulator, forward, level, joint, motor, travel, wraps>>
    BY <1>4 DEF CountStep, Proceed, Pending
  <2>2. joint \in Joints /\ rawCount \in [Joints -> Int]
    BY <1>0 DEF StepgenTypeOK
  <2>3. StepgenTypeOK'
    BY <1>0, <1>4, <2>1, <2>2 DEF CountStep, Proceed, StepgenTypeOK, Stages
  <2>4. CountIsTravel'
    BY <2>1, <2>2 DEF CountInv, CountIsTravel
  <2> QED
    BY <2>1, <2>3, <2>4 DEF CountInv, Unwrapped
<1>5. CASE TickEnd
  <2>1. Driven(DebugPin, FALSE)
    BY <1>5 DEF TickEnd
  <2>2. level' \in [Pins -> BOOLEAN] /\ motor' \in [Joints -> Int]
    BY <1>0, <2>1, DrivenTyped
  <2>3. StepgenTypeOK'
    BY <1>0, <1>5, <2>2 DEF TickEnd, StepgenTypeOK, Stages
  <2> QED
    BY <1>5, <2>3, CountUnchanged DEF TickEnd, Pending
<1>6. ASSUME NEW j \in Joints, Disabled(j) PROVE CountInv'
  <2>1. StepgenTypeOK'
    BY <1>0, <1>6 DEF Disabled, Proceed, StepgenTypeOK, Stages
  <2> QED
    BY <1>6, <2>1, CountUnchanged DEF Disabled, Proceed, Pending
<1>7. ASSUME NEW j \in Joints, StopPulses(j) PROVE CountInv'
  <2>1. Driven(StepPin[j], FALSE)
    BY <1>7 DEF StopPulses, LowerStep
  <2>2. level' \in [Pins -> BOOLEAN] /\ motor' \in [Joints -> Int]
    BY <1>0, <2>1, DrivenTyped
  <2>3. StepgenTypeOK'
    BY <1>0, <1>7, <2>2 DEF StopPulses, StepgenTypeOK, Stages
  <2> QED
    BY <1>7, <2>3, CountUnchanged DEF StopPulses, Pending
<1>8. ASSUME NEW j \in Joints, NEW f \in Freqs, NEW a \in AddValues(f), Accumulate(j, a)
      PROVE CountInv'
  BY <1>8, AccumulatePreserves
<1>9. CASE UNCHANGED sgVars
  BY <1>9 DEF sgVars, CountInv, StepgenTypeOK, Unwrapped, CountIsTravel, Pending
<1> QED
  BY <1>1, <1>2, <1>3, <1>4, <1>5, <1>6, <1>7, <1>8, <1>9 DEF Next

\* Whatever the frequencies up to the thread's own, and however often the
\* accumulator overflows and turns back, the raw count is the whole number of
\* steps in the sum of the add values (stepgen.cpp:89-117).
THEOREM NoStepLost == Spec => []CountIsTravel
<1>1. CountInv => CountIsTravel
  BY DEF CountInv
<1> QED
  BY <1>1, CountInit, CountNext, PTL DEF Spec

\* The accumulators never leave their width, the thread's stages and pins their
\* ranges.
THEOREM StepgenTypeCorrect == Spec => []StepgenTypeOK
<1>1. CountInv => StepgenTypeOK
  BY DEF CountInv
<1> QED
  BY <1>1, CountInit, CountNext, PTL DEF Spec

-----------------------------------------------------------------------------
(***************************************************************************)
(* The pins, when nothing else drives a step generator's.                  *)
(***************************************************************************)
\* Each step pin is one joint's alone; no direction pin is a step pin or the
\* debugging pin of pruThread.cpp:66, and it is one joint's alone too.
OwnPins ==
  /\ \A j, k \in Joints :
       /\ StepPin[j] # DirectionPin[k]
       /\ j # k => StepPin[j] # StepPin[k] /\ DirectionPin[j] # DirectionPin[k]
  /\ \A j \in Joints : DebugPin # StepPin[j] /\ DebugPin # DirectionPin[j]

\* A step pin that is high was raised in this tick and is yet to be lowered.
Raised(j) ==
  \/ stage \in {"update", "direction", "step"} /\ j \notin todo
  \/ stage = "count" /\ (j \notin todo \/ j = joint)
  \/ stage = "post" /\ j \in todo

PinInv ==
  /\ StepgenTypeOK
  /\ stage \in {"direction", "step", "count"} => joint \in todo
  /\ \A j \in Joints : level[StepPin[j]] => Raised(j)
  /\ stage = "step" => level[DirectionPin[joint]] = forward[joint]
  /\ MotorIsAtCount

\* What driving pin p does to another pin, to itself and to a motor.
LEMMA DrivenOther ==
  ASSUME StepgenTypeOK, NEW p, NEW v, Driven(p, v), NEW q \in Pins, q # p
  PROVE  level'[q] = level[q]
BY DEF Driven, StepgenTypeOK

LEMMA DrivenSame ==
  ASSUME StepgenTypeOK, NEW p \in Pins, NEW v, Driven(p, v)
  PROVE  level'[p] = v
BY DEF Driven, StepgenTypeOK

LEMMA DrivenMotor ==
  ASSUME StepgenTypeOK, NEW p, NEW v \in BOOLEAN, Driven(p, v), NEW j \in Joints,
         StepPin[j] # p \/ v = FALSE
  PROVE  motor'[j] = motor[j]
BY DEF Driven, StepgenTypeOK

LEMMA DrivenEdge ==
  ASSUME StepgenTypeOK, NEW j \in Joints, Driven(StepPin[j], TRUE), ~level[StepPin[j]]
  PROVE  motor'[j] = motor[j] + IF level[DirectionPin[j]] THEN 1 ELSE -1
BY DEF Driven, StepgenTypeOK

LEMMA PinInit == Init => PinInv
<1> SUFFICES ASSUME Init PROVE PinInv
  OBVIOUS
<1>1. StepgenTypeOK
  BY CountInit DEF CountInv
<1>2. \A j \in Joints : ~level[StepPin[j]]
  BY PinsAssumption DEF Init
<1>3. MotorIsAtCount
  <2>1. \A j \in Joints : motor[j] = 0 /\ rawCount[j] = 0
    BY DEF Init
  <2>2. stage # "count"
    BY DEF Init
  <2>3. ASSUME NEW j \in Joints
        PROVE  motor[j] = rawCount[j] + IF stage = "count" /\ joint = j
                                        THEN IF forward[j] THEN 1 ELSE -1
                                        ELSE 0
    <3>1. motor[j] = rawCount[j] + 0
      BY <2>1
    <3> QED
      BY <2>2, <3>1, Zenon
  <2> QED
    BY <2>3 DEF MotorIsAtCount
<1> QED
  BY <1>1, <1>2, <1>3 DEF Init, PinInv

\* One step of the thread: what it does to each part of the invariant, and that
\* a direction pin is left alone while its step pin is high.
LEMMA PinNext ==
  ASSUME OwnPins, PinInv, StepgenTypeOK', [Next]_sgVars
  PROVE  /\ PinInv'
         /\ \A j \in Joints : level[StepPin[j]] =>
              level'[DirectionPin[j]] = level[DirectionPin[j]]
<1>0. /\ StepgenTypeOK /\ joint \in Joints
      /\ \A j \in Joints : StepPin[j] \in Pins /\ DirectionPin[j] \in Pins
  BY PinsAssumption DEF PinInv, StepgenTypeOK
<1>1. CASE BaseTick
  <2>1. Driven(DebugPin, TRUE)
    BY <1>1 DEF BaseTick
  <2>2. \A j \in Joints : /\ level'[StepPin[j]] = level[StepPin[j]]
                          /\ level'[DirectionPin[j]] = level[DirectionPin[j]]
                          /\ motor'[j] = motor[j]
    <3> TAKE j \in Joints
    <3>1. DebugPin # StepPin[j] /\ DebugPin # DirectionPin[j]
      BY DEF OwnPins
    <3>2. level'[StepPin[j]] = level[StepPin[j]]
      BY <1>0, <2>1, <3>1, DrivenOther
    <3>3. level'[DirectionPin[j]] = level[DirectionPin[j]]
      BY <1>0, <2>1, <3>1, DrivenOther
    <3>4. motor'[j] = motor[j]
      BY <1>0, <2>1, <3>1, DrivenMotor
    <3> QED
      BY <3>2, <3>3, <3>4
  <2> QED
    BY <1>1, <2>2 DEF BaseTick, PinInv, Raised, MotorIsAtCount
<1>2. CASE SetDirection
  <2>1. Driven(DirectionPin[joint], forward[joint])
    BY <1>2 DEF SetDirection
  <2>2. /\ \A j \in Joints : level'[StepPin[j]] = level[StepPin[j]]
        /\ \A j \in Joints : motor'[j] = motor[j]
        /\ \A j \in Joints \ {joint} :
             level'[DirectionPin[j]] = level[DirectionPin[j]]
        /\ level'[DirectionPin[joint]] = forward[joint]
    <3>1. forward[joint] \in BOOLEAN
      BY <1>0 DEF StepgenTypeOK
    <3>2. \A j \in Joints : StepPin[j] # DirectionPin[joint]
      BY <1>0 DEF OwnPins
    <3>3. \A j \in Joints : level'[StepPin[j]] = level[StepPin[j]]
      BY <1>0, <2>1, <3>2, DrivenOther
    <3>4. \A j \in Joints : motor'[j] = motor[j]
      BY <1>0, <2>1, <3>1, <3>2, DrivenMotor
    <3>5. \A j \in Joints \ {joint} : DirectionPin[j] # DirectionPin[joint]
      BY <1>0 DEF OwnPins
    <3>6. \A j \in Joints \ {joint} :
            level'[DirectionPin[j]] = level[DirectionPin[j]]
      BY <1>0, <2>1, <3>5, DrivenOther
    <3>7. level'[DirectionPin[joint]] = forward[joint]
      BY <1>0, <2>1, DrivenSame
    <3> QED
      BY <3>3, <3>4, <3>6, <3>7
  <2>3. ~level[StepPin[joint]]
    BY <1>0, <1>2 DEF SetDirection, PinInv, Raised
  <2> QED
    BY <1>2, <2>2, <2>3 DEF SetDirection, PinInv, Raised, MotorIsAtCount
<1>3. CASE RaiseStep
  <2>1. Driven(StepPin[joint], TRUE)
    BY <1>3 DEF RaiseStep
  <2>2. ~level[StepPin[joint]]
    BY <1>0, <1>3 DEF RaiseStep, PinInv, Raised
  <2>3. /\ \A j \in Joints : level'[DirectionPin[j]] = level[DirectionPin[j]]
        /\ \A j \in Joints \ {joint} : /\ level'[StepPin[j]] = level[StepPin[j]]
                                       /\ motor'[j] = motor[j]
        /\ motor'[joint] = motor[joint] + IF level[DirectionPin[joint]] THEN 1 ELSE -1
    <3>1. \A j \in Joints : DirectionPin[j] # StepPin[joint]
      BY <1>0 DEF OwnPins
    <3>2. \A j \in Joints : level'[DirectionPin[j]] = level[DirectionPin[j]]
      BY <1>0, <2>1, <3>1, DrivenOther
    <3>3. \A j \in Joints \ {joint} : StepPin[j] # StepPin[joint]
      BY <1>0 DEF OwnPins
    <3>4. \A j \in Joints \ {joint} : level'[StepPin[j]] = level[StepPin[j]]
      BY <1>0, <2>1, <3>3, DrivenOther
    <3>5. \A j \in Joints \ {joint} : motor'[j] = motor[j]
      BY <1>0, <2>1, <3>3, DrivenMotor
    <3> QED
      BY <1>0, <2>1, <2>2, <3>2, <3>4, <3>5, DrivenEdge
  <2>4. MotorIsAtCount'
    <3> SUFFICES ASSUME NEW j \in Joints
                 PROVE  motor'[j] = rawCount'[j] + IF stage' = "count" /\ joint' = j
                                                   THEN IF forward'[j] THEN 1 ELSE -1
                                                   ELSE 0
      BY DEF MotorIsAtCount
    <3>1. motor[j] = rawCount[j] /\ motor[j] \in Int
      BY <1>0, <1>3 DEF RaiseStep, PinInv, MotorIsAtCount, StepgenTypeOK
    <3>2. /\ stage' = "count" /\ joint' = joint
          /\ rawCount'[j] = rawCount[j] /\ forward'[j] = forward[j]
          /\ level[DirectionPin[joint]] = forward[joint]
      BY <1>3 DEF RaiseStep, PinInv
    <3>3. CASE j = joint
      <4>1. motor'[j] = rawCount[j] + IF forward[j] THEN 1 ELSE -1
        BY <2>3, <3>1, <3>2, <3>3, Zenon
      <4> QED
        BY <3>2, <3>3, <4>1, Zenon
    <3>4. CASE j # joint
      <4>1. motor'[j] = rawCount[j] + 0
        BY <2>3, <3>1, <3>4
      <4> QED
        BY <3>2, <3>4, <4>1, Zenon
    <3> QED
      BY <3>3, <3>4
  <2> QED
    BY <1>3, <2>3, <2>4 DEF RaiseStep, PinInv, Raised
<1>4. CASE CountStep
  <2>1. /\ UNCHANGED <<level, motor, forward, joint>> /\ stage = "count"
        /\ stage' # "count" /\ stage' # "step" /\ stage' # "direction"
        /\ rawCount' = [rawCount EXCEPT ![joint] =
                          rawCount[joint] + IF forward[joint] THEN 1 ELSE -1]
        /\ \A j \in Joints : Raised(j) => Raised(j)'
    BY <1>4 DEF CountStep, Proceed, Raised
  <2>2. MotorIsAtCount'
    BY <1>0, <2>1 DEF PinInv, MotorIsAtCount, StepgenTypeOK
  <2> QED
    BY <2>1, <2>2 DEF PinInv
<1>5. CASE TickEnd
  <2>1. Driven(DebugPin, FALSE)
    BY <1>5 DEF TickEnd
  <2>2. \A j \in Joints : /\ level'[StepPin[j]] = level[StepPin[j]]
                          /\ level'[DirectionPin[j]] = level[DirectionPin[j]]
                          /\ motor'[j] = motor[j]
    <3> TAKE j \in Joints
    <3>1. DebugPin # StepPin[j] /\ DebugPin # DirectionPin[j]
      BY DEF OwnPins
    <3>2. level'[StepPin[j]] = level[StepPin[j]]
      BY <1>0, <2>1, <3>1, DrivenOther
    <3>3. level'[DirectionPin[j]] = level[DirectionPin[j]]
      BY <1>0, <2>1, <3>1, DrivenOther
    <3>4. motor'[j] = motor[j]
      BY <1>0, <2>1, <3>1, DrivenMotor
    <3> QED
      BY <3>2, <3>3, <3>4
  <2> QED
    BY <1>5, <2>2 DEF TickEnd, PinInv, Raised, MotorIsAtCount
<1>6. ASSUME NEW k \in Joints, Disabled(k)
      PROVE  PinInv' /\ UNCHANGED level
  BY <1>6 DEF Disabled, Proceed, PinInv, Raised, MotorIsAtCount
<1>7. ASSUME NEW k \in Joints, StopPulses(k)
      PROVE  PinInv' /\ \A j \in Joints :
               level'[DirectionPin[j]] = level[DirectionPin[j]]
  <2>1. Driven(StepPin[k], FALSE)
    BY <1>7 DEF StopPulses, LowerStep
  <2>2. \A j \in Joints :
          /\ level'[DirectionPin[j]] = level[DirectionPin[j]]
          /\ motor'[j] = motor[j]
          /\ level'[StepPin[j]] => level[StepPin[j]] /\ j # k
    <3> TAKE j \in Joints
    <3>1. DirectionPin[j] # StepPin[k] /\ (j # k => StepPin[j] # StepPin[k])
      BY DEF OwnPins
    <3>2. level'[DirectionPin[j]] = level[DirectionPin[j]]
      BY <1>0, <2>1, <3>1, DrivenOther
    <3>3. motor'[j] = motor[j]
      BY <1>0, <2>1, DrivenMotor
    <3>4. j # k => level'[StepPin[j]] = level[StepPin[j]]
      BY <1>0, <2>1, <3>1, DrivenOther
    <3>5. level'[StepPin[k]] = FALSE
      BY <1>0, <2>1, DrivenSame
    <3> QED
      BY <3>2, <3>3, <3>4, <3>5
  <2> QED
    BY <1>7, <2>2 DEF StopPulses, PinInv, Raised, MotorIsAtCount
<1>8. ASSUME NEW k \in Joints, NEW f \in Freqs, NEW a \in AddValues(f), Accumulate(k, a)
      PROVE  PinInv' /\ UNCHANGED level
  BY <1>8 DEF Accumulate, Proceed, PinInv, Raised, MotorIsAtCount
<1>9. CASE UNCHANGED sgVars
  BY <1>9 DEF sgVars, PinInv, Raised, MotorIsAtCount
<1> QED
  BY <1>1, <1>2, <1>3, <1>4, <1>5, <1>6, <1>7, <1>8, <1>9 DEF Next

\* With pins of its own each motor is where the raw count says
\* (stepgen.cpp:108-118).
THEOREM MotorFollows ==
  ASSUME OwnPins
  PROVE  Spec => []MotorIsAtCount
<1>1. CountInv => StepgenTypeOK
  BY DEF CountInv
<1>2. PinInv /\ StepgenTypeOK' /\ [Next]_sgVars => PinInv'
  BY PinNext
<1>3. PinInv => MotorIsAtCount
  BY DEF PinInv
<1> QED
  BY <1>1, <1>2, <1>3, CountInit, CountNext, PinInit, PTL DEF Spec

\* With pins of its own each driver sees a steady direction during every pulse
\* (stepgen.cpp:108-128).
THEOREM DirectionHolds ==
  ASSUME OwnPins
  PROVE  Spec => DirectionSteady
<1> DEFINE Steady == \A j \in Joints : level[StepPin[j]] =>
                       level'[DirectionPin[j]] = level[DirectionPin[j]]
<1>1. CountInv => StepgenTypeOK
  BY DEF CountInv
<1>2. PinInv /\ StepgenTypeOK' /\ [Next]_sgVars => PinInv' /\ [Steady]_sgVars
  BY PinNext
<1> QED
  BY <1>1, <1>2, CountInit, CountNext, PinInit, PTL DEF Spec, DirectionSteady
=============================================================================
