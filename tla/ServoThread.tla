----------------------------- MODULE ServoThread -----------------------------
(***************************************************************************)
(* The servo thread's whole run: RemoraComms first (WatchdogTiming), then  *)
(* the digital outputs and inputs (modules/digitalPin), while core 0       *)
(* replaces the buffers they use; and RESET, which zeroes the command      *)
(* below the thread.  What core 0 does with a datagram is DataExchange's   *)
(* in fewer steps: a pin uses one buffer of one kind, so the order of the  *)
(* two swaps cannot matter to it.                                          *)
(***************************************************************************)
EXTENDS WatchdogTiming, FiniteSets

CONSTANTS
  Outputs, Inputs,  \* the digital pins, each with its own data bit
  Inverted          \* those configured with "Invert": "True"

ASSUME ServoAssumption ==
  /\ Outputs \cap Inputs = {} /\ "none" \notin Outputs \cup Inputs
  /\ Inverted \subseteq Outputs \cup Inputs

Bufs == 0 .. 1
Modules == Outputs \cup Inputs

VARIABLES
  rxCurrent, outputs,  \* the receive buffers' outputs words
  txCurrent, inputs,   \* the transmit buffers' inputs words
  todo, module, rxPtr, txPtr,  \* the module being updated and its pointers
  level,               \* the levels of the pins, inputs and outputs
  c0, datagram, txBuffer,  \* core 0: udp_data_callback
  rst, rstPtr,         \* RESET
  force, prior, overtaken,  \* history: the outputs of the last two WRITEs
  sampled, sent        \* history: inputs sampled since the last swap, and
                       \* those sampled for the reply under way

bufVars == <<rxCurrent, outputs, txCurrent, inputs>>
runVars == <<todo, module, rxPtr, txPtr>>
core0Vars == <<c0, datagram, txBuffer>>
resetVars == <<rst, rstPtr>>
forceVars == <<force, prior>>
historyVars == <<forceVars, overtaken, sampled, sent>>
servoVars == <<timingVars, bufVars, runVars, level, core0Vars,
               resetVars, historyVars>>

Datagrams == [header : {"read", "writ"}, outputs : SUBSET Outputs]

ServoTypeOK ==
  /\ TimingTypeOK
  /\ rxCurrent \in Bufs /\ outputs \in [Bufs -> SUBSET Outputs]
  /\ txCurrent \in Bufs /\ inputs \in [Bufs -> SUBSET Inputs]
  /\ todo \in SUBSET Modules /\ module \in Modules \cup {"none"}
  /\ rxPtr \in Bufs /\ txPtr \in Bufs
  /\ level \in SUBSET Modules
  /\ c0 \in {"poll", "copied", "swapped", "told"}
  /\ datagram \in Datagrams /\ txBuffer \in Bufs
  /\ rst \in {"out", "zero"} /\ rstPtr \in Bufs
  /\ force \in SUBSET Outputs /\ prior \in SUBSET Outputs
  /\ overtaken \in BOOLEAN
  /\ sampled \in SUBSET (Inputs \X BOOLEAN) /\ sent \in SUBSET (Inputs \X BOOLEAN)

ServoInit ==
  /\ TimingInit
  /\ rxCurrent = 0 /\ outputs = [b \in Bufs |-> {}]
  /\ txCurrent = 0 /\ inputs = [b \in Bufs |-> {}]
  /\ todo = {} /\ module = "none" /\ rxPtr = 0 /\ txPtr = 0
  /\ level = {}
  /\ c0 = "poll" /\ datagram = [header |-> "read", outputs |-> {}] /\ txBuffer = 0
  /\ rst = "out" /\ rstPtr = 0
  /\ force = {} /\ prior = {} /\ overtaken = FALSE
  /\ sampled = {} /\ sent = {}

-----------------------------------------------------------------------------
(***************************************************************************)
(* Core 0 copies the datagram into the receive buffer not in force (what a *)
(* READ carries is copied too), swaps the transmit buffers and, for a      *)
(* WRITE, the receive buffers, tells the watchdog and sends the buffer it  *)
(* swapped out.  The update of one pin takes less than the time between    *)
(* two datagrams: it is overtaken by one swap at most.                     *)
(***************************************************************************)
CopyCurrent == rxCurrent  \* a mutant: into the buffer in force
CopyTarget == 1 - rxCurrent

CopyDatagram(d) ==
  /\ currentState # "SETUP" /\ c0 = "poll" /\ ~overtaken
  /\ c0' = "copied" /\ datagram' = d /\ txBuffer' = txCurrent
  /\ outputs' = [outputs EXCEPT ![CopyTarget] = d.outputs]
  /\ UNCHANGED <<timingVars, rxCurrent, txCurrent, inputs, runVars, level,
                 resetVars, historyVars>>

Swap ==
  /\ c0 = "copied" /\ c0' = "swapped"
  /\ txCurrent' = 1 - txCurrent
  /\ sent' = sampled /\ sampled' = {} /\ overtaken' = (module # "none")
  /\ IF datagram.header = "writ"
     THEN rxCurrent' = 1 - rxCurrent /\ force' = datagram.outputs /\ prior' = force
     ELSE UNCHANGED <<rxCurrent, forceVars>>
  /\ UNCHANGED <<timingVars, outputs, inputs, runVars, level, datagram,
                 txBuffer, resetVars>>

Tell ==
  /\ c0 = "swapped" /\ c0' = "told"
  /\ Hear
  /\ UNCHANGED <<bufVars, runVars, level, datagram, txBuffer, resetVars,
                 historyVars>>

Reply ==
  /\ c0 = "told" /\ c0' = "poll"
  /\ sent' = {}
  /\ UNCHANGED <<timingVars, bufVars, runVars, level, datagram, txBuffer,
                 resetVars, forceVars, overtaken, sampled>>

-----------------------------------------------------------------------------
\* The turns of the state machine that touch nothing of this module, and the
\* interrupt.
Turn ==
  /\ \/ Setup \/ Start \/ IdleTurn \/ UpdateTest \/ ServoTick
  /\ UNCHANGED <<silentUpdates, heard, bufVars, runVars, level, core0Vars, resetVars, historyVars>>

\* RemoraComms is registered first; the other modules follow in the order of
\* the configuration.
CommsDone ==
  /\ CountUpdate
  /\ todo' = Modules
  /\ UNCHANGED <<bufVars, module, rxPtr, txPtr, level, core0Vars,
                 resetVars, historyVars>>

\* DigitalPin::update takes both pointers ...
TakePointers(m) ==
  /\ update = "rest" /\ module = "none" /\ m \in todo
  /\ module' = m /\ todo' = todo \ {m}
  /\ rxPtr' = rxCurrent /\ txPtr' = txCurrent
  /\ UNCHANGED <<timingVars, bufVars, level, core0Vars, resetVars,
                 historyVars>>

\* ... and moves one bit.
Through(m, on) == on # (m \in Inverted)

DriveOutput ==
  /\ module \in Outputs
  /\ level' = IF Through(module, module \in outputs[rxPtr])
              THEN level \cup {module} ELSE level \ {module}
  /\ module' = "none" /\ overtaken' = FALSE
  /\ UNCHANGED <<timingVars, bufVars, todo, rxPtr, txPtr, core0Vars,
                 resetVars, forceVars, sampled, sent>>

OnlyRaise(word, m, on) == IF on THEN word \cup {m} ELSE word  \* a mutant
WithBit(word, m, on) == IF on THEN word \cup {m} ELSE word \ {m}

\* A sample that was overtaken lands in the buffer about to be sent, or being
\* sent: then the reply carries the one or the other.
SampleInput ==
  /\ module \in Inputs
  /\ LET on == Through(module, module \in level)
         others == {s \in Inputs \X BOOLEAN : s[1] # module}
     IN /\ inputs' = [inputs EXCEPT ![txPtr] = WithBit(@, module, on)]
        /\ IF overtaken
           THEN UNCHANGED sampled /\ sent' = sent \cap others
           ELSE UNCHANGED sent /\ sampled' = (sampled \cap others) \cup {<<module, on>>}
  /\ module' = "none" /\ overtaken' = FALSE
  /\ UNCHANGED <<timingVars, rxCurrent, outputs, txCurrent, todo, rxPtr, txPtr,
                 level, core0Vars, resetVars, forceVars>>

RunDone ==
  /\ todo = {} /\ module = "none"
  /\ RunEnd
  /\ UNCHANGED <<silentUpdates, heard, bufVars, runVars, level, core0Vars, resetVars, historyVars>>

\* RESET takes the pointer, and zeroes that buffer whether or not it is still
\* the one in force.
ResetTake ==
  /\ currentState = "RESET" /\ rst = "out"
  /\ rst' = "zero" /\ rstPtr' = rxCurrent
  /\ UNCHANGED <<timingVars, bufVars, runVars, level, core0Vars,
                 historyVars>>

NotZeroed == outputs  \* a mutant: the loop stops above the outputs word
Zeroed == [outputs EXCEPT ![rstPtr] = {}]

ResetZero ==
  /\ rst = "zero" /\ rst' = "out"
  /\ outputs' = Zeroed
  /\ ResetDone
  /\ UNCHANGED <<silentUpdates, heard, rxCurrent, txCurrent, inputs, runVars, level,
                 core0Vars, rstPtr, historyVars>>

\* The world moves an input.
InputMoves(i) ==
  /\ level' = IF i \in level THEN level \ {i} ELSE level \cup {i}
  /\ UNCHANGED <<timingVars, bufVars, runVars, core0Vars, resetVars,
                 historyVars>>

ThreadTurn ==
  \/ Turn \/ CommsDone \/ (\E m \in Modules : TakePointers(m)) \/ DriveOutput
  \/ SampleInput \/ RunDone \/ ResetTake \/ ResetZero

Core0Turn == Swap \/ Tell \/ Reply

ServoNext ==
  \/ \E d \in Datagrams : CopyDatagram(d)
  \/ Core0Turn \/ ThreadTurn
  \/ \E i \in Inputs : InputMoves(i)

ServoSpec == ServoInit /\ [][ServoNext]_servoVars

\* Both cores run, and the timer's interrupts keep coming (ServoTick is a part
\* of Turn, and the only enabled one that changes anything while IDLE waits).
FairServoSpec == ServoSpec /\ WF_servoVars(ThreadTurn) /\ WF_servoVars(Core0Turn)

-----------------------------------------------------------------------------
\* An output pin only ever moves to what the WRITE in force says of it, to what
\* the one before says if that was replaced while this pin was being updated,
\* or to rest (digitalPin.cpp:102-110): never to what a datagram carries that is
\* not in force (remora.cpp:861 copies it first), inverted as configured.
OutputsObey ==
  [][\A o \in Outputs : (o \in level) # (o \in level') =>
       LET on == (o \in level') # (o \in Inverted)
       IN ~on \/ o \in force \/ (overtaken /\ o \in prior)]_servoVars

\* An input sampled since the previous datagram is reported as it was sampled:
\* the buffer core 0 swaps out holds the sample (digitalPin.cpp:83-101,
\* remora.cpp:855-891), whatever else the thread has written by then.
InputsReported ==
  c0 = "told" => \A s \in sent : (s[1] \in inputs[txBuffer]) = s[2]

AtRest == \A o \in Outputs : (o \in level) = (o \in Inverted)

\* When the machine is running and the host is never heard again, the outputs
\* come to rest and stay there: the watchdog trips, RESET zeroes the buffer in
\* force and the thread drives the pins from it (remora.cpp:601-643).
OutputsComeToRest ==
  [](currentState = "RUNNING" /\ [](c0 = "poll") => <>[]AtRest)
=============================================================================
