---------------------------- MODULE DataExchange ----------------------------
(***************************************************************************)
(* The exchange between LinuxCNC and the step generators: core 0 answers   *)
(* each datagram in udp_data_callback (remora.cpp), core 1 runs the base   *)
(* thread as a timer interrupt (thread/pruThread.cpp and                   *)
(* modules/stepgen/stepgen.cpp) and, in its main state machine, RESET.     *)
(* The two cores share the receive and transmit ping-pong buffers and the  *)
(* base thread's semaphore.  Every access to the semaphore, to a pointer   *)
(* and to a word that is tested is an action of its own, and RESET zeroes  *)
(* byte by byte; an action that takes several bytes at once says why.      *)
(***************************************************************************)
EXTENDS Integers, FiniteSets

CONSTANTS
  Joints,        \* the joints with a step generator in the base thread
  LastWord,      \* JOINTS: word 0 of a buffer is its header, 1.. the joints'
  Top, Radix,    \* a word is the bytes 0..Top, a byte one of 0..Radix-1
  Commands,      \* the bodies of the datagrams a host may send
  HostHeaders,   \* the kinds of datagrams the host sends
  MaxCount,      \* bound: no raw count leaves -MaxCount..MaxCount
  LockOutcomes,  \* what the compiler may have made of the semaphore
  ResetInOrder,  \* TRUE: the build keeps the order in which RESET zeroes
  HostCycle,     \* TRUE: the host alternates READ and WRITE
  ShortTicks     \* TRUE: a base tick never outlasts two datagrams

(***************************************************************************)
(* pruThread::semaphore is a plain bool that two cores share, which is a   *)
(* data race: the build may reload it on every turn of a while loop, delete*)
(* the loop (a loop without side effects may be assumed to end), read it   *)
(* only once, or drop core 0's "true" store, which its own "false" store   *)
(* overwrites.                                                             *)
(***************************************************************************)
AllLockOutcomes == {"reload", "deleted", "hoisted", "elided"}

(***************************************************************************)
(* A frequency is an int32_t in two's complement, the lowest byte first.   *)
(***************************************************************************)
WordBytes == 0 .. Top
Words == [WordBytes -> 0 .. Radix - 1]
Zero == [i \in WordBytes |-> 0]
Negative(w) == w[Top] >= Radix \div 2

Command == [freq : [Joints -> Words], enable : SUBSET Joints]
NoCommand == [freq |-> [j \in Joints |-> Zero], enable |-> {}]

Headers == {"read", "writ", "othr"}

ASSUME JointsAssumption ==
  LastWord \in Nat /\ Joints \subseteq 1 .. LastWord /\ Joints # {}
ASSUME WordAssumption == Top \in Nat /\ Radix \in Nat \ {0, 1}
ASSUME CommandsAssumption == Commands \subseteq Command /\ Commands # {}
ASSUME HeadersAssumption == HostHeaders \subseteq Headers
ASSUME MaxCountAssumption == MaxCount \in Nat \ {0}
ASSUME LockAssumption == LockOutcomes \subseteq AllLockOutcomes
ASSUME ModeAssumption ==
  HostCycle \in BOOLEAN /\ ShortTicks \in BOOLEAN /\ ResetInOrder \in BOOLEAN

(***************************************************************************)
(* A WRITE carries a whole rxData_t; a READ may be as short as its header, *)
(* and what else it carries is arbitrary.  Datagrams with another header   *)
(* are answered with an empty payload.                                     *)
(***************************************************************************)
Datagram == [header : Headers, full : BOOLEAN, cmd : Commands]
WellFormed(p) == p.header = "writ" => p.full
Packets == {p \in Datagram : p.header \in HostHeaders /\ WellFormed(p)}

Bufs == 0 .. 1

\* The bytes of a receive buffer that matter here: the words', in order, and
\* above them jointEnable (remora.h:14-20).
Address(j, i) == j * (Top + 1) + i
EnableByte == Address(LastWord + 1, 0)
Counts == -MaxCount .. MaxCount

VARIABLES
  currentRxBuffer, rxHeader, rxFreq, rxEnable,  \* RxPingPongBuffer
  currentTxBuffer, txHeader, txFeedback,        \* TxPingPongBuffer
  semaphore,                                    \* baseThread->semaphore
  c0, pkt, rxBuffer, txBuffer, reply,  \* core 0: udp_data_callback
  c1, todo, joint, jRx, jTx, rawCount, \* core 1: base interrupt, step generators
  left, pruRxData,                     \* core 1: RESET, the bytes it has left
  raced,            \* history: RESET is at the buffer the datagram is copied to
  force, prior,     \* history: the last two WRITEs swapped in
  overtaken         \* history: core 0 swapped during the present tick

rxVars == <<currentRxBuffer, rxHeader, rxFreq, rxEnable>>
txVars == <<currentTxBuffer, txHeader, txFeedback>>
c0Vars == <<c0, pkt, rxBuffer, txBuffer, reply>>
c1Vars == <<c1, todo, joint, jRx, jTx, rawCount>>
rstVars == <<left, pruRxData>>
history == <<raced, force, prior, overtaken>>
vars == <<rxVars, txVars, semaphore, c0Vars, c1Vars, rstVars, history>>

C0Locked == {"swapTx", "swapRx", "release"}
C0Stages == {"poll", "copyLow", "copyHigh", "dispatch", "spin", "take",
             "header", "notify", "reply", "drop", "hung"} \cup C0Locked
C1Locked == {"fetch", "enable", "freq", "store", "release"}
C1Stages == {"out", "spin", "take", "hung"} \cup C1Locked

NoReply == [header |-> "none", feedback |-> [j \in Joints |-> 0]]
\* A WRITE in force: its body, and whether it raced a RESET.
Swapped(c, r) == [freq |-> c.freq, enable |-> c.enable, raced |-> r]
NoWrite == Swapped(NoCommand, FALSE)
InForce == [freq : [Joints -> Words], enable : SUBSET Joints, raced : BOOLEAN]

Replies == [header : {"none", "empty", "zero", "data", "ackn"},
            feedback : [Joints -> Counts]]

TypeOK ==
  /\ currentRxBuffer \in Bufs
  /\ rxHeader \in [Bufs -> Headers \cup {"zero"}]
  /\ rxFreq \in [Bufs -> [Joints -> Words]]
  /\ rxEnable \in [Bufs -> SUBSET Joints]
  /\ currentTxBuffer \in Bufs
  /\ txHeader \in [Bufs -> {"zero", "data", "ackn"}]
  /\ txFeedback \in [Bufs -> [Joints -> Counts]]
  /\ semaphore \in BOOLEAN
  /\ c0 \in C0Stages
  /\ pkt \in Datagram
  /\ rxBuffer \in Bufs /\ txBuffer \in Bufs
  /\ reply \in Replies
  /\ c1 \in C1Stages
  /\ todo \in SUBSET Joints
  /\ joint \in Joints
  /\ jRx \in Bufs /\ jTx \in Bufs
  /\ rawCount \in [Joints -> Counts]
  /\ left \subseteq 0 .. EnableByte
  /\ pruRxData \in Bufs
  /\ raced \in BOOLEAN
  /\ force \in InForce /\ prior \in InForce
  /\ overtaken \in BOOLEAN

\* The threads have just been started: everything is still zero.
Init ==
  /\ currentRxBuffer = 0
  /\ rxHeader = [b \in Bufs |-> "zero"]
  /\ rxFreq = [b \in Bufs |-> NoCommand.freq]
  /\ rxEnable = [b \in Bufs |-> NoCommand.enable]
  /\ currentTxBuffer = 0
  /\ txHeader = [b \in Bufs |-> "zero"]
  /\ txFeedback = [b \in Bufs |-> [j \in Joints |-> 0]]
  /\ semaphore = FALSE
  /\ c0 = "poll"
  /\ pkt = [header |-> "writ", full |-> TRUE, cmd |-> CHOOSE c \in Commands : TRUE]
  /\ rxBuffer = 0 /\ txBuffer = 0
  /\ reply = NoReply
  /\ c1 = "out" /\ todo = {} /\ joint = (CHOOSE j \in Joints : TRUE)
  /\ jRx = 0 /\ jTx = 0
  /\ rawCount = [j \in Joints |-> 0]
  /\ left = {} /\ pruRxData = 0
  /\ raced = FALSE
  /\ force = NoWrite /\ prior = NoWrite
  /\ overtaken = FALSE

(***************************************************************************)
(* The semaphore, the same few lines in three places: a while loop that    *)
(* waits for FALSE, then a separate store of TRUE.                         *)
(***************************************************************************)
Passes == \/ "reload" \in LockOutcomes /\ ~semaphore
          \/ "deleted" \in LockOutcomes
          \/ "hoisted" \in LockOutcomes /\ ~semaphore
Hangs == "hoisted" \in LockOutcomes /\ semaphore

KeepSemaphore == semaphore' = semaphore  \* a mutant: the clear is missing
ClearSemaphore == semaphore' = FALSE

(***************************************************************************)
(* The ping-pong buffers: the index of the other buffer, and the buffer    *)
(* core 0 receives into.                                                   *)
(***************************************************************************)
OtherPlusOne(b) == b + 1  \* a mutant
Other(b) == 1 - b

CurrentRxBuffer == currentRxBuffer  \* a mutant: into the buffer in force
AltRxBuffer == 1 - currentRxBuffer

(***************************************************************************)
(* Core 0: udp_data_callback.                                              *)
(***************************************************************************)
\* A datagram is handed to the callback, which takes its two pointers.
Receive(p) ==
  /\ c0 = "poll"
  /\ HostCycle => {p.header, pkt.header} = {"read", "writ"}
  /\ ShortTicks => ~overtaken
  /\ c0' = "copyLow"
  /\ pkt' = p
  /\ rxBuffer' = AltRxBuffer
  /\ txBuffer' = currentTxBuffer
  /\ reply' = NoReply
  /\ raced' = (left # {} /\ pruRxData = AltRxBuffer)
  /\ UNCHANGED <<rxVars, txVars, semaphore, c1Vars, rstVars, force, prior, overtaken>>

\* The memcpy, upwards: first the header and jointFreqCmd, taken at once: only
\* RESET may be at the same bytes, and it leaves zeros below one byte and the
\* datagram above, wherever downwards it meets the copy going upwards ...
CopyLow ==
  /\ c0 = "copyLow"
  /\ c0' = "copyHigh"
  /\ rxHeader' = [rxHeader EXCEPT ![rxBuffer] = pkt.header]
  /\ rxFreq' = IF pkt.full THEN [rxFreq EXCEPT ![rxBuffer] = pkt.cmd.freq]
                           ELSE rxFreq
  /\ UNCHANGED <<currentRxBuffer, rxEnable, txVars, semaphore,
                 pkt, rxBuffer, txBuffer, reply, c1Vars, rstVars, history>>

\* ... then jointEnable.
CopyHigh ==
  /\ c0 = "copyHigh"
  /\ c0' = "dispatch"
  /\ rxEnable' = IF pkt.full THEN [rxEnable EXCEPT ![rxBuffer] = pkt.cmd.enable]
                             ELSE rxEnable
  /\ UNCHANGED <<currentRxBuffer, rxHeader, rxFreq, txVars, semaphore,
                 pkt, rxBuffer, txBuffer, reply, c1Vars, rstVars, history>>

\* The header is read back from the buffer, where RESET may have zeroed it:
\* the datagram then counts as one with an unknown header.
Dispatch ==
  /\ c0 = "dispatch"
  /\ c0' = IF rxHeader[rxBuffer] \in {"read", "writ"} THEN "spin" ELSE "drop"
  /\ UNCHANGED <<rxVars, txVars, semaphore,
                 pkt, rxBuffer, txBuffer, reply, c1Vars, rstVars, history>>

Spin0 ==
  /\ c0 = "spin"
  /\ \/ Passes /\ c0' = "take"
     \/ Hangs /\ c0' = "hung"
  /\ UNCHANGED <<rxVars, txVars, semaphore,
                 pkt, rxBuffer, txBuffer, reply, c1Vars, rstVars, history>>

Take0 ==
  /\ c0 = "take"
  /\ c0' = "swapTx"
  /\ \/ semaphore' = TRUE
     \/ "elided" \in LockOutcomes /\ semaphore' = semaphore
  /\ UNCHANGED <<rxVars, txVars,
                 pkt, rxBuffer, txBuffer, reply, c1Vars, rstVars, history>>

\* Both a READ and a WRITE swap the transmit buffers ...
SwapTxBuffers ==
  /\ c0 = "swapTx"
  /\ c0' = IF pkt.header = "writ" THEN "swapRx" ELSE "release"
  /\ currentTxBuffer' = Other(currentTxBuffer)
  /\ overtaken' = (c1 \in C1Locked)
  /\ UNCHANGED <<rxVars, txHeader, txFeedback, semaphore,
                 pkt, rxBuffer, txBuffer, reply, c1Vars, rstVars, raced, force, prior>>

\* ... and a WRITE then swaps the receive buffers, which puts it in force.
SwapRxBuffers ==
  /\ c0 = "swapRx"
  /\ c0' = "release"
  /\ currentRxBuffer' = Other(currentRxBuffer)
  /\ force' = Swapped(pkt.cmd, raced) /\ prior' = force
  /\ overtaken' = (c1 \in C1Locked)
  /\ UNCHANGED <<rxHeader, rxFreq, rxEnable, txVars, semaphore,
                 pkt, rxBuffer, txBuffer, reply, c1Vars, rstVars, raced>>

Release0 ==
  /\ c0 = "release"
  /\ c0' = "header"
  /\ ClearSemaphore
  /\ UNCHANGED <<rxVars, txVars,
                 pkt, rxBuffer, txBuffer, reply, c1Vars, rstVars, history>>

\* The kind of reply goes into the buffer taken before the swap.
SetHeader ==
  /\ c0 = "header"
  /\ c0' = "notify"
  /\ txHeader' = [txHeader EXCEPT ![txBuffer] =
                    IF pkt.header = "writ" THEN "ackn" ELSE "data"]
  /\ UNCHANGED <<rxVars, currentTxBuffer, txFeedback, semaphore,
                 pkt, rxBuffer, txBuffer, reply, c1Vars, rstVars, history>>

\* comms->dataReceived(): its state is that of module CommsWatchdog.
Notify ==
  /\ c0 = "notify"
  /\ c0' = "reply"
  /\ UNCHANGED <<rxVars, txVars, semaphore,
                 pkt, rxBuffer, txBuffer, reply, c1Vars, rstVars, history>>

SwappedIn == currentTxBuffer  \* a mutant: the buffer now in use is sent
Sent == txBuffer

\* pbuf_take copies the old transmit buffer, udp_send hands it to the network;
\* nothing is copied (txlen is 0) when the header was neither READ nor WRITE.
Reply ==
  /\ c0 \in {"reply", "drop"}
  /\ c0' = "poll"
  /\ reply' = IF c0 = "drop"
              THEN [NoReply EXCEPT !.header = "empty"]
              ELSE [header |-> txHeader[Sent],
                    feedback |-> txFeedback[Sent]]
  /\ UNCHANGED <<rxVars, txVars, semaphore,
                 pkt, rxBuffer, txBuffer, c1Vars, rstVars, history>>

(***************************************************************************)
(* Core 1, timer interrupt 0: pruThread::run of the base thread.           *)
(***************************************************************************)
Tick ==
  /\ c1 = "out"
  /\ c1' = "spin"
  /\ UNCHANGED <<rxVars, txVars, semaphore, c0Vars,
                 todo, joint, jRx, jTx, rawCount, rstVars, history>>

Spin1 ==
  /\ c1 = "spin"
  /\ \/ Passes /\ c1' = "take"
     \/ Hangs /\ c1' = "hung"
  /\ UNCHANGED <<rxVars, txVars, semaphore, c0Vars,
                 todo, joint, jRx, jTx, rawCount, rstVars, history>>

Take1 ==
  /\ c1 = "take"
  /\ c1' = "fetch"
  /\ semaphore' = TRUE
  /\ todo' = Joints
  /\ UNCHANGED <<rxVars, txVars, c0Vars,
                 joint, jRx, jTx, rawCount, rstVars, history>>

\* Stepgen::makePulses of joint j begins: the two buffer pointers are taken.
Fetch(j) ==
  /\ c1 = "fetch"
  /\ j \in todo
  /\ c1' = "enable"
  /\ joint' = j
  /\ jRx' = currentRxBuffer
  /\ jTx' = currentTxBuffer
  /\ UNCHANGED <<rxVars, txVars, semaphore, c0Vars,
                 todo, rawCount, rstVars, history>>

NextJoint ==
  /\ todo' = todo \ {joint}
  /\ c1' = IF todo = {joint} THEN "release" ELSE "fetch"

IsEnabled == joint \in rxEnable[jRx]

ReadEnable ==
  /\ c1 = "enable"
  /\ IF IsEnabled
     THEN c1' = "freq" /\ UNCHANGED todo
     ELSE NextJoint
  /\ UNCHANGED <<rxVars, txVars, semaphore, c0Vars,
                 joint, jRx, jTx, rawCount, rstVars, history>>

\* The accumulator adds the command and steps or not (module Stepgen); a step
\* moves the raw count in the direction of the command.  A word takes several
\* accesses; RESET stands still meanwhile, being below this interrupt, and core 0
\* copies into the other buffer.
Direction(f) == IF Negative(f) THEN -1 ELSE 1

ReadFreq ==
  /\ c1 = "freq"
  /\ LET f == rxFreq[jRx][joint]
         moved == rawCount[joint] + Direction(f)
     IN \/ /\ f # Zero /\ moved \in Counts
           /\ rawCount' = [rawCount EXCEPT ![joint] = moved]
           /\ c1' = "store" /\ UNCHANGED todo
        \/ NextJoint /\ UNCHANGED rawCount
  /\ UNCHANGED <<rxVars, txVars, semaphore, c0Vars,
                 joint, jRx, jTx, rstVars, history>>

\* A mutant: the feedback is stored before the step is counted.
LateFeedback == [txFeedback EXCEPT ![jTx][joint] =
                   rawCount[joint] - Direction(rxFreq[jRx][joint])]
Feedback == [txFeedback EXCEPT ![jTx][joint] = rawCount[joint]]

\* The feedback is written only on a step, into the buffer taken before.
StoreFeedback ==
  /\ c1 = "store"
  /\ NextJoint
  /\ txFeedback' = Feedback
  /\ UNCHANGED <<rxVars, currentTxBuffer, txHeader, semaphore, c0Vars,
                 joint, jRx, jTx, rawCount, rstVars, history>>

Release1 ==
  /\ c1 = "release"
  /\ c1' = "out"
  /\ ClearSemaphore
  /\ overtaken' = FALSE
  /\ UNCHANGED <<rxVars, txVars, c0Vars,
                 todo, joint, jRx, jTx, rawCount, rstVars, raced, force, prior>>

(***************************************************************************)
(* Core 1, thread level: RESET takes the current receive buffer, prints,   *)
(* then zeroes the bytes from the last to the first.  A base tick may      *)
(* interrupt it between any two, and it waits until the tick is over.  The *)
(* buffer is not volatile, whatever remora.cpp:630 says, so that a build   *)
(* may zero the bytes in another order.                                    *)
(***************************************************************************)
ResetOther == AltRxBuffer  \* a mutant
ResetBuffer == currentRxBuffer

ResetBegin ==
  /\ c1 = "out" /\ left = {}
  /\ left' = 0 .. EnableByte
  /\ pruRxData' = ResetBuffer
  /\ UNCHANGED <<rxVars, txVars, semaphore, c0Vars, c1Vars, history>>

\* What is left of frequencies f once byte n is zero.
WithoutByte(f, n) ==
  [j \in Joints |-> [i \in WordBytes |-> IF n = Address(j, i) THEN 0 ELSE f[j][i]]]

FromHeader(n) == n >= 0  \* a mutant: the other end is taken for the last
FromTheTop(n) == \A m \in left : m <= n

ResetByte(n) ==
  /\ c1 = "out"
  /\ n \in left
  /\ ResetInOrder => FromTheTop(n)
  /\ left' = left \ {n}
  /\ rxEnable' = IF n = EnableByte THEN [rxEnable EXCEPT ![pruRxData] = {}]
                                   ELSE rxEnable
  /\ rxFreq' = [rxFreq EXCEPT ![pruRxData] = WithoutByte(@, n)]
  /\ rxHeader' = IF n \in WordBytes THEN [rxHeader EXCEPT ![pruRxData] = "zero"]
                                    ELSE rxHeader
  /\ UNCHANGED <<currentRxBuffer, txVars, semaphore, c0Vars, c1Vars, pruRxData, history>>

(***************************************************************************)
(* The specification.                                                      *)
(***************************************************************************)
Callback ==
  \/ CopyLow \/ CopyHigh \/ Dispatch \/ Spin0 \/ Take0 \/ SwapTxBuffers
  \/ SwapRxBuffers \/ Release0 \/ SetHeader \/ Reply

Core0 == Callback \/ Notify

BaseTick ==
  \/ Spin1 \/ Take1 \/ (\E j \in Joints : Fetch(j)) \/ ReadEnable
  \/ ReadFreq \/ StoreFeedback \/ Release1

Reset == ResetBegin \/ \E n \in left : ResetByte(n)

Next ==
  \/ \E p \in Packets : Receive(p)
  \/ Core0
  \/ Tick
  \/ BaseTick
  \/ Reset

Spec == Init /\ [][Next]_vars

-----------------------------------------------------------------------------
(***************************************************************************)
(* Properties.                                                             *)
(***************************************************************************)
\* A RESET may have zeroed part of a word of this WRITE: it was copied into a
\* buffer RESET still held a pointer to, or the build zeroes as it likes.
Torn(c) == c.raced \/ (~ResetInOrder /\ left # {})

\* Whatever became of the semaphore, and though RESET may zero a buffer that
\* a swap has taken from under it, byte by byte (remora.cpp:631-640), what the
\* step generators find (remora.cpp:669) is the enable bits of the last WRITE
\* or none, and for a joint enabled the frequency of that WRITE: not one of a
\* READ or of an older WRITE, and with bytes zeroed only if the datagram was
\* copied (remora.cpp:861) into the buffer a RESET was still at.
NoForeignCommand ==
  /\ rxEnable[currentRxBuffer] \in {force.enable, {}}
  /\ \A j \in rxEnable[currentRxBuffer] :
       LET found == rxFreq[currentRxBuffer][j]
       IN \/ found = force.freq[j]
          \/ Torn(force) /\ \A i \in WordBytes : found[i] \in {force.freq[j][i], 0}

\* The ways joint j may step on behalf of c: as c says, or forward by what is
\* left of a backward command when its top byte is zeroed first.
Ways(c, j) == {Direction(c.freq[j])} \cup (IF Torn(c) THEN {1} ELSE {})

\* A joint steps only as the WRITE in force asks, or the one before it when the
\* swap came during this very tick: the frequency it obeys (stepgen.cpp:89) is
\* not combined with the enable bit (stepgen.cpp:85) of another datagram,
\* although the two are read at different times, and a step in the wrong
\* direction needs a WRITE that raced a RESET.
StepObeysOneCommand ==
  [][\A j \in Joints :
       rawCount'[j] # rawCount[j] =>
         \E c \in {force} \cup (IF overtaken THEN {prior} ELSE {}) :
           /\ j \in c.enable
           /\ c.freq[j] # Zero
           /\ rawCount'[j] - rawCount[j] \in Ways(c, j)]_vars

\* No step is lost to the swaps (remora.cpp:661-667): one of the two transmit
\* buffers always holds the raw count of each joint, but for the instant
\* between counting a step and storing it (stepgen.cpp:112-118).
FeedbackHeld ==
  \A j \in Joints :
    \/ \E b \in Bufs : txFeedback[b][j] = rawCount[j]
    \/ c1 = "store" /\ joint = j

\* The semaphore, when it is set, will be cleared: one of the two cores is
\* between its own set and its own clear (pruThread.cpp:62-91,
\* remora.cpp:871-877 and 887-894), though each may clear what the other set.
SemaphoreOwned ==
  semaphore => c0 \in C0Locked \/ c1 \in C1Locked

\* The callback ends: core 0, which is also the network's only poller, never
\* waits for ever for the base thread (remora.cpp:871, 887).
CallbackEnds == c0 # "poll" ~> c0 = "poll"

\* A base tick ends: the interrupt never waits for ever for core 0
\* (pruThread.cpp:62).
TickEnds == c1 # "out" ~> c1 = "out"

\* The exchange keeps its promise to the host (module HostExchange): a WRITE
\* is acknowledged (remora.cpp:898, read back and sent at :904-915) exactly if
\* it came into force (:893), all of it at the moment of the swap.
Asked(c) == [way |-> [j \in Joints |-> IF j \in c.enable /\ c.freq[j] # Zero
                                       THEN Direction(c.freq[j]) ELSE 0],
             raced |-> c.raced]

Promised(h, c) == [header |-> h, cmd |-> Asked(c)]
AtHand ==
  IF c0 = "poll" THEN Promised("none", NoWrite)
  ELSE Promised(pkt.header, IF pkt.header = "writ" THEN Swapped(pkt.cmd, raced)
                                                   ELSE NoWrite)

Promise == INSTANCE HostExchange WITH
  Ordered <- ResetInOrder,
  request <- AtHand,
  applied <- c0 \in {"release", "header", "notify", "reply"},
  answer <- reply.header,
  force <- Asked(force), prior <- Asked(prior),
  late <- overtaken /\ c0 # "swapRx",
  resetting <- left # {},
  count <- rawCount

KeepsPromise == Promise!HostSpec

\* What the host takes the feedback for ("POSITION_FEEDBACK = ACTUAL"): the
\* buffer that is swapped out to be sent, outside a tick, holds the position.
SentFeedbackIsPosition ==
  [][ currentTxBuffer' # currentTxBuffer /\ c1 = "out"
        => txFeedback[currentTxBuffer] = rawCount ]_vars
=============================================================================
