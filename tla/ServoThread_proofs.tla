------------------------- MODULE ServoThread_proofs -------------------------
(***************************************************************************)
(* What TLAPS proves of ServoThread, for any number of digital inputs and  *)
(* outputs, inverted or not, and the watchdog's every tolerance.           *)
(***************************************************************************)
EXTENDS ServoThread, WatchdogTiming_proofs

-----------------------------------------------------------------------------
(***************************************************************************)
(* The pins, the buffers and RESET touch the watchdog only by its own      *)
(* steps.                                                                  *)
(***************************************************************************)
LEMMA ServoStepIsTiming == [ServoNext]_servoVars => [TimingNext]_timingVars
<1> SUFFICES ASSUME [ServoNext]_servoVars
             PROVE  TimingNext \/ UNCHANGED timingVars
  OBVIOUS
<1>1. CASE Turn
  BY <1>1 DEF Turn, TimingNext, Otherwise
<1>2. CASE RunDone \/ ResetZero
  BY <1>2 DEF RunDone, ResetZero, TimingNext, Otherwise
<1>3. CASE CommsDone \/ Tell
  BY <1>3 DEF CommsDone, Tell, TimingNext
<1>4. ASSUME NEW d \in Datagrams, CopyDatagram(d)
      PROVE  UNCHANGED timingVars
  BY <1>4 DEF CopyDatagram
<1>5. ASSUME NEW m \in Modules, TakePointers(m)
      PROVE  UNCHANGED timingVars
  BY <1>5 DEF TakePointers
<1>6. ASSUME NEW i \in Inputs, InputMoves(i)
      PROVE  UNCHANGED timingVars
  BY <1>6 DEF InputMoves
<1>7. CASE Swap \/ Reply \/ DriveOutput \/ SampleInput \/ ResetTake
  BY <1>7 DEF Swap, Reply, DriveOutput, SampleInput, ResetTake
<1>8. CASE UNCHANGED servoVars
  BY <1>8 DEF servoVars
<1>9. QED
  BY <1>1, <1>2, <1>3, <1>4, <1>5, <1>6, <1>7, <1>8
     DEF ServoNext, Core0Turn, ThreadTurn

\* The whole servo thread implements the watchdog that is proved by itself ...
THEOREM ServoIsTiming == ServoSpec => TimingSpec
<1>1. ServoInit => TimingInit
  BY DEF ServoInit
<1>2. QED
  BY <1>1, ServoStepIsTiming, PTL DEF ServoSpec, TimingSpec

\* ... so that it trips in time however long the other modules take
\* (RemoraComms.cpp:23).
THEOREM ServoTrips == ServoSpec => []TripsInTime
BY ServoIsTiming, WatchdogTrips, PTL

-----------------------------------------------------------------------------
(***************************************************************************)
(* Type correctness; the watchdog's part is TimingTypeCorrect.             *)
(***************************************************************************)
BufTypes ==
  /\ rxCurrent \in Bufs /\ outputs \in [Bufs -> SUBSET Outputs]
  /\ txCurrent \in Bufs /\ inputs \in [Bufs -> SUBSET Inputs]

RunTypes ==
  /\ todo \in SUBSET Modules /\ module \in Modules \cup {"none"}
  /\ rxPtr \in Bufs /\ txPtr \in Bufs
  /\ level \in SUBSET Modules

OtherTypes ==
  /\ c0 \in {"poll", "copied", "swapped", "told"}
  /\ datagram \in Datagrams /\ txBuffer \in Bufs
  /\ rst \in {"out", "zero"} /\ rstPtr \in Bufs
  /\ force \in SUBSET Outputs /\ prior \in SUBSET Outputs
  /\ overtaken \in BOOLEAN
  /\ sampled \in SUBSET (Inputs \X BOOLEAN) /\ sent \in SUBSET (Inputs \X BOOLEAN)

PinTypes == BufTypes /\ RunTypes /\ OtherTypes

LEMMA PinTypesInit == ServoInit => PinTypes
<1> SUFFICES ASSUME ServoInit PROVE PinTypes
  OBVIOUS
<1>1. [header |-> "read", outputs |-> {}] \in Datagrams
  BY DEF Datagrams
<1>2. BufTypes
  BY DEF ServoInit, BufTypes, Bufs
<1>3. RunTypes
  BY DEF ServoInit, RunTypes, Bufs
<1>4. OtherTypes
  <2>1. {} \in SUBSET Outputs /\ {} \in SUBSET (Inputs \X BOOLEAN) /\ 0 \in Bufs
    BY DEF Bufs
  <2>2. QED
    BY <1>1, <2>1 DEF ServoInit, OtherTypes
<1>5. QED
  BY <1>2, <1>3, <1>4 DEF PinTypes

LEMMA PinTypesStep == PinTypes /\ [ServoNext]_servoVars => PinTypes'
<1> SUFFICES ASSUME PinTypes, [ServoNext]_servoVars
             PROVE  PinTypes'
  OBVIOUS
<1> USE DEF PinTypes, BufTypes, RunTypes, OtherTypes
<1>1. ASSUME NEW d \in Datagrams, CopyDatagram(d)
      PROVE  PinTypes'
  <2>1. d.outputs \in SUBSET Outputs
    BY DEF Datagrams
  <2>2. BufTypes'
    BY <1>1, <2>1 DEF CopyDatagram, CopyTarget
  <2>3. RunTypes'
    BY <1>1 DEF CopyDatagram, runVars
  <2>4. OtherTypes'
    BY <1>1 DEF CopyDatagram, resetVars, historyVars, forceVars
  <2>5. QED
    BY <2>2, <2>3, <2>4
<1>2. CASE Swap
  <2>1. datagram.outputs \in SUBSET Outputs
    BY DEF Datagrams
  <2>2. BufTypes'
    BY <1>2 DEF Swap, Bufs
  <2>3. RunTypes'
    BY <1>2 DEF Swap, runVars
  <2>4. OtherTypes'
    BY <1>2, <2>1 DEF Swap, resetVars, forceVars
  <2>5. QED
    BY <2>2, <2>3, <2>4
<1>3. CASE Tell \/ Reply
  BY <1>3 DEF Tell, Reply, bufVars, runVars, resetVars, historyVars, forceVars
<1>4. CASE Turn \/ RunDone \/ UNCHANGED servoVars
  BY <1>4 DEF Turn, RunDone, servoVars, bufVars, runVars, core0Vars, resetVars,
              historyVars, forceVars
<1>5. CASE CommsDone
  BY <1>5 DEF CommsDone, bufVars, core0Vars, resetVars, historyVars, forceVars
<1>6. ASSUME NEW m \in Modules, TakePointers(m)
      PROVE  PinTypes'
  BY <1>6 DEF TakePointers, bufVars, core0Vars, resetVars, historyVars, forceVars
<1>7. CASE DriveOutput
  BY <1>7 DEF DriveOutput, Modules, bufVars, core0Vars, resetVars, forceVars
<1>8. CASE SampleInput
  <2> DEFINE on == Through(module, module \in level)
             others == {s \in Inputs \X BOOLEAN : s[1] # module}
  <2>1. module \in Inputs /\ on \in BOOLEAN /\ others \subseteq Inputs \X BOOLEAN
    BY <1>8 DEF SampleInput, Through
  <2> HIDE DEF on
  <2>2. WithBit(inputs[txPtr], module, on) \in SUBSET Inputs
    BY <2>1 DEF WithBit
  <2>3. inputs' = [inputs EXCEPT ![txPtr] = WithBit(inputs[txPtr], module, on)]
    BY <1>8 DEF SampleInput, on
  <2>4. BufTypes'
    BY <1>8, <2>2, <2>3 DEF SampleInput
  <2>5. RunTypes'
    BY <1>8 DEF SampleInput
  <2>6. <<module, on>> \in Inputs \X BOOLEAN
    BY <2>1
  <2>7. sampled' \in SUBSET (Inputs \X BOOLEAN) /\ sent' \in SUBSET (Inputs \X BOOLEAN)
    <3>1. \/ UNCHANGED sampled /\ sent' = sent \cap others
          \/ UNCHANGED sent /\ sampled' = (sampled \cap others) \cup {<<module, on>>}
      BY <1>8 DEF SampleInput, on
    <3>2. QED
      BY <2>6, <3>1
  <2>8. OtherTypes'
    BY <1>8, <2>7 DEF SampleInput, core0Vars, resetVars, forceVars
  <2>9. QED
    BY <2>4, <2>5, <2>8
<1>9. CASE ResetTake \/ ResetZero
  BY <1>9 DEF ResetTake, ResetZero, Zeroed, bufVars, runVars, core0Vars, historyVars,
              forceVars
<1>10. ASSUME NEW i \in Inputs, InputMoves(i)
       PROVE  PinTypes'
  BY <1>10 DEF InputMoves, Modules, bufVars, runVars, core0Vars, resetVars,
               historyVars, forceVars
<1>11. QED
  BY <1>1, <1>2, <1>3, <1>4, <1>5, <1>6, <1>7, <1>8, <1>9, <1>10
     DEF ServoNext, Core0Turn, ThreadTurn

\* Every variable keeps its type, the pins', the buffers' and the watchdog's.
THEOREM ServoTypeCorrect == ServoSpec => []ServoTypeOK
<1>1. ServoSpec => []PinTypes
  BY PinTypesInit, PinTypesStep, PTL DEF ServoSpec
<1>2. ServoSpec => []TimingTypeOK
  BY ServoIsTiming, TimingTypeCorrect, PTL
<1>3. PinTypes /\ TimingTypeOK => ServoTypeOK
  BY DEF PinTypes, BufTypes, RunTypes, OtherTypes, ServoTypeOK
<1>4. QED
  BY <1>1, <1>2, <1>3, PTL

-----------------------------------------------------------------------------
(***************************************************************************)
(* A pin's update is overtaken by one swap at most, and no datagram is     *)
(* copied then: a pointer that is not current any more names the buffer    *)
(* that was current at the swap.                                           *)
(***************************************************************************)
Overtaking ==
  /\ overtaken => module # "none"
  /\ c0 = "copied" => ~overtaken

\* Outputs: the buffer in force holds what its WRITE asked for (or what RESET
\* left of it), the other one, while its datagram waits for the swap, what that
\* will ask for.
OutputBuffers ==
  /\ outputs[rxCurrent] \subseteq force
  /\ c0 = "copied" => outputs[1 - rxCurrent] \subseteq datagram.outputs
  /\ module # "none" =>
       \/ rxPtr = rxCurrent
       \/ overtaken /\ outputs[rxPtr] \subseteq prior

\* Inputs: each buffer holds the samples that are counted for it.
Holds(b, samples) == \A s \in samples : (s[1] \in inputs[b]) = s[2]

InputBuffers ==
  /\ Holds(txCurrent, sampled)
  /\ c0 = "copied" => txBuffer = txCurrent
  /\ c0 \in {"swapped", "told"} => txBuffer = 1 - txCurrent /\ Holds(txBuffer, sent)
  /\ c0 \in {"poll", "copied"} => sent = {}
  /\ module # "none" => txPtr = IF overtaken THEN 1 - txCurrent ELSE txCurrent

PinInv == Overtaking /\ OutputBuffers /\ InputBuffers

LEMMA PinInit == ServoInit => PinInv
BY DEF ServoInit, PinInv, Overtaking, OutputBuffers, InputBuffers, Holds, Bufs

\* What neither moves a buffer nor a pin's update keeps all of it.
LEMMA PinUnchanged ==
  ASSUME PinInv,
         UNCHANGED <<bufVars, module, rxPtr, txPtr, c0, datagram, txBuffer,
                     force, prior, overtaken, sampled, sent>>
  PROVE  PinInv'
BY DEF PinInv, Overtaking, OutputBuffers, InputBuffers, Holds, bufVars

LEMMA PinStep == PinTypes /\ PinInv /\ [ServoNext]_servoVars => PinInv'
<1> SUFFICES ASSUME PinTypes, PinInv, [ServoNext]_servoVars
             PROVE  PinInv'
  OBVIOUS
<1> USE DEF PinInv
<1>1. ASSUME NEW d \in Datagrams, CopyDatagram(d)
      PROVE  PinInv'
  <2>1. Overtaking'
    BY <1>1 DEF CopyDatagram, Overtaking, runVars, historyVars
  <2>2. OutputBuffers'
    BY <1>1 DEF CopyDatagram, CopyTarget, OutputBuffers, Overtaking, runVars, historyVars,
                forceVars, PinTypes, BufTypes, Bufs
  <2>3. InputBuffers'
    BY <1>1 DEF CopyDatagram, InputBuffers, Holds, runVars, historyVars
  <2>4. QED
    BY <2>1, <2>2, <2>3
<1>2. CASE Swap
  <2>1. Overtaking'
    BY <1>2 DEF Swap, Overtaking, runVars
  <2>2. OutputBuffers'
    <3>1. CASE datagram.header = "writ"
      BY <1>2, <3>1 DEF Swap, OutputBuffers, Overtaking, runVars, PinTypes, BufTypes, Bufs
    <3>2. CASE datagram.header # "writ"
      BY <1>2, <3>2 DEF Swap, OutputBuffers, Overtaking, runVars, forceVars
    <3>3. QED
      BY <3>1, <3>2
  <2>3. InputBuffers'
    <3>1. /\ txBuffer = txCurrent /\ ~overtaken /\ Holds(txCurrent, sampled)
          /\ module # "none" => txPtr = txCurrent
      BY <1>2 DEF Swap, InputBuffers, Overtaking
    <3>2. txCurrent' = 1 - txCurrent /\ txCurrent = 1 - txCurrent'
      BY <1>2 DEF Swap, PinTypes, BufTypes, Bufs
    <3>3. /\ c0' = "swapped" /\ sent' = sampled /\ sampled' = {}
          /\ overtaken' = (module # "none")
          /\ UNCHANGED <<inputs, module, txPtr, txBuffer>>
      BY <1>2 DEF Swap, runVars
    <3>4. Holds(txCurrent, sampled)' /\ Holds(txBuffer, sent)'
      BY <3>1, <3>3 DEF Holds
    <3>5. QED
      BY <3>1, <3>2, <3>3, <3>4 DEF InputBuffers
  <2>4. QED
    BY <2>1, <2>2, <2>3
<1>3. CASE Tell
  BY <1>3 DEF Tell, Overtaking, OutputBuffers, InputBuffers, Holds, bufVars, runVars,
              historyVars, forceVars
<1>4. CASE Reply
  BY <1>4 DEF Reply, Overtaking, OutputBuffers, InputBuffers, Holds, bufVars, runVars,
              forceVars
<1>5. CASE Turn \/ CommsDone \/ RunDone \/ ResetTake \/ UNCHANGED servoVars
  BY <1>5, PinUnchanged
     DEF Turn, CommsDone, RunDone, ResetTake, servoVars, runVars, core0Vars,
         historyVars, forceVars
<1>6. ASSUME NEW m \in Modules, TakePointers(m)
      PROVE  PinInv'
  BY <1>6 DEF TakePointers, Overtaking, OutputBuffers, InputBuffers, Holds, bufVars,
              core0Vars, historyVars, forceVars
<1>7. CASE DriveOutput
  BY <1>7 DEF DriveOutput, Overtaking, OutputBuffers, InputBuffers, Holds, bufVars,
              core0Vars, forceVars
<1>8. CASE SampleInput
  <2> DEFINE on == Through(module, module \in level)
             others == {s \in Inputs \X BOOLEAN : s[1] # module}
  <2>1. Overtaking' /\ OutputBuffers'
    BY <1>8 DEF SampleInput, Overtaking, OutputBuffers, core0Vars, forceVars
  <2>2. module # "none" /\ module \in Inputs /\ on \in BOOLEAN
    BY <1>8, ServoAssumption DEF SampleInput, Through
  <2> HIDE DEF on
  <2>3. inputs' = [inputs EXCEPT ![txPtr] = WithBit(inputs[txPtr], module, on)]
    BY <1>8 DEF SampleInput, on
  <2>4. ASSUME NEW b \in Bufs
        PROVE  /\ b # txPtr => inputs'[b] = inputs[b]
               /\ \A i \in Inputs \ {module} : (i \in inputs'[b]) = (i \in inputs[b])
               /\ (module \in inputs'[txPtr]) = on
    BY <2>2, <2>3 DEF WithBit, PinTypes, BufTypes, RunTypes
  <2>5. InputBuffers'
    <3>1. CASE overtaken
      <4>1. UNCHANGED sampled /\ sent' = sent \cap others /\ txPtr = 1 - txCurrent
        BY <1>8, <2>2, <3>1 DEF SampleInput, InputBuffers
      <4>2. Holds(txCurrent, sampled)'
        BY <1>8, <2>4, <4>1 DEF SampleInput, InputBuffers, Holds, PinTypes, BufTypes, Bufs
      <4>3. c0 \in {"swapped", "told"} => Holds(txBuffer, sent)'
        BY <1>8, <2>4, <4>1
           DEF SampleInput, InputBuffers, Holds, core0Vars, PinTypes, BufTypes, OtherTypes
      <4>4. QED
        BY <1>8, <4>1, <4>2, <4>3 DEF SampleInput, InputBuffers, core0Vars
    <3>2. CASE ~overtaken
      <4>1. /\ sampled' = (sampled \cap others) \cup {<<module, on>>}
            /\ UNCHANGED sent /\ txPtr = txCurrent
        BY <1>8, <2>2, <3>2 DEF SampleInput, InputBuffers, on
      <4>2. Holds(txCurrent, sampled)'
        BY <1>8, <2>4, <4>1
           DEF SampleInput, InputBuffers, Holds, PinTypes, BufTypes, OtherTypes
      <4>3. c0 \in {"swapped", "told"} => Holds(txBuffer, sent)'
        BY <1>8, <2>4, <4>1
           DEF SampleInput, InputBuffers, Holds, core0Vars, PinTypes, BufTypes, Bufs
      <4>4. QED
        BY <1>8, <4>1, <4>2, <4>3 DEF SampleInput, InputBuffers, core0Vars
    <3>3. QED
      BY <3>1, <3>2
  <2>6. QED
    BY <2>1, <2>5
<1>9. CASE ResetZero
  <2>1. \A b \in Bufs : outputs'[b] \subseteq outputs[b]
    BY <1>9 DEF ResetZero, Zeroed, PinTypes, BufTypes
  <2>2. Overtaking' /\ InputBuffers'
    BY <1>9 DEF ResetZero, Overtaking, InputBuffers, Holds, runVars, core0Vars, historyVars
  <2>3. OutputBuffers'
    BY <1>9, <2>1
       DEF ResetZero, OutputBuffers, runVars, core0Vars, historyVars, forceVars,
           PinTypes, BufTypes, RunTypes, Bufs
  <2>4. QED
    BY <2>2, <2>3
<1>10. ASSUME NEW i \in Inputs, InputMoves(i)
       PROVE  PinInv'
  BY <1>10, PinUnchanged DEF InputMoves, runVars, core0Vars, historyVars, forceVars
<1>11. QED
  BY <1>1, <1>2, <1>3, <1>4, <1>5, <1>6, <1>7, <1>8, <1>9, <1>10
     DEF ServoNext, Core0Turn, ThreadTurn

LEMMA PinsKeep == ServoSpec => [](PinTypes /\ PinInv)
BY PinTypesInit, PinTypesStep, PinInit, PinStep, PTL DEF ServoSpec

\* The reply carries every input sampled since the last datagram as it was
\* sampled (digitalPin.cpp:83-101, remora.cpp:855-903), whichever buffer the
\* thread was writing to when core 0 swapped them.
THEOREM RepliesCarrySamples == ServoSpec => []InputsReported
<1>1. PinInv => InputsReported
  BY DEF PinInv, InputBuffers, Holds, InputsReported
<1>2. QED
  BY <1>1, PinsKeep, PTL

\* An output moves only to what a WRITE in force asks for, or to rest
\* (digitalPin.cpp:102-110): never to what a datagram not in force carries.
THEOREM PinsObeyWrites == ServoSpec => OutputsObey
<1> DEFINE Obeys(o) ==
      (o \in level) # (o \in level') =>
         LET on == (o \in level') # (o \in Inverted)
         IN ~on \/ o \in force \/ (overtaken /\ o \in prior)
<1>1. PinTypes /\ PinInv /\ [ServoNext]_servoVars =>
        [\A o \in Outputs : Obeys(o)]_servoVars
  <2> SUFFICES ASSUME PinTypes, PinInv, ServoNext, NEW o \in Outputs
               PROVE  Obeys(o)
    OBVIOUS
  <2>1. CASE DriveOutput
    <3> DEFINE asked == module \in outputs[rxPtr]
    <3>1. module # "none" /\ module \in Outputs
      BY <2>1, ServoAssumption DEF DriveOutput
    <3>2. asked => module \in force \/ (overtaken /\ module \in prior)
      BY <3>1 DEF PinInv, OutputBuffers
    <3>3. o # module => (o \in level) = (o \in level')
      BY <2>1 DEF DriveOutput
    <3>4. (module \in level') = (asked # (module \in Inverted))
      BY <2>1 DEF DriveOutput, Through
    <3> HIDE DEF asked
    <3>5. ((module \in level') # (module \in Inverted)) = asked
      <4>1. asked \in BOOLEAN
        BY DEF asked
      <4>2. QED
        BY <3>4, <4>1
    <3>6. QED
      BY <3>2, <3>3, <3>5
  <2>2. ASSUME NEW i \in Inputs, InputMoves(i)
        PROVE  Obeys(o)
    <3>1. o # i
      BY ServoAssumption
    <3>2. QED
      BY <2>2, <3>1 DEF InputMoves
  <2>3. CASE UNCHANGED level
    BY <2>3
  <2>4. QED
    BY <2>1, <2>2, <2>3
       DEF ServoNext, Core0Turn, ThreadTurn, CopyDatagram, Swap, Tell, Reply, Turn,
           CommsDone, TakePointers, SampleInput, RunDone, ResetTake, ResetZero
<1>2. QED
  BY <1>1, PinsKeep, PTL DEF ServoSpec, OutputsObey
=============================================================================
