------------------------ MODULE DataExchange_proofs ------------------------
(***************************************************************************)
(* Proofs about DataExchange, for any joints, words, commands and count    *)
(* bound, and for every outcome of compiling the semaphore and RESET.      *)
(***************************************************************************)
EXTENDS DataExchange, TLAPS

USE DEF Bufs, Other, AltRxBuffer, ClearSemaphore, IsEnabled, Feedback, ResetBuffer

\* The initial values Init chooses exist.
LEMMA Choices ==
  /\ (CHOOSE c \in Commands : TRUE) \in Commands
  /\ (CHOOSE j \in Joints : TRUE) \in Joints
  BY JointsAssumption, CommandsAssumption

LEMMA WordType ==
  /\ Zero \in Words /\ 0 \in 0 .. Radix - 1
  /\ \A f \in [Joints -> Words] : \A n :
       /\ WithoutByte(f, n) \in [Joints -> Words]
       /\ \A j \in Joints : \A i \in WordBytes : WithoutByte(f, n)[j][i] \in {f[j][i], 0}
<1>1. 0 \in 0 .. Radix - 1
  BY WordAssumption
<1>2. Zero \in Words
  BY <1>1 DEF Zero, Words
<1>3. ASSUME NEW f \in [Joints -> Words], NEW n,
             NEW j \in Joints, NEW i \in WordBytes
      PROVE  (IF n = Address(j, i) THEN 0 ELSE f[j][i]) \in 0 .. Radix - 1
  BY <1>1, <1>3 DEF Words
<1>4. QED
  BY <1>1, <1>2, <1>3 DEF WithoutByte, Words

LEMMA CommandType ==
  /\ NoCommand \in Command
  /\ \A r \in BOOLEAN : \A c \in Command : Swapped(c, r) \in InForce
  /\ \A c \in Commands : c.freq \in [Joints -> Words] /\ c.enable \in SUBSET Joints
  /\ \A p \in Datagram : p.cmd \in Command /\ p.header \in Headers /\ p.full \in BOOLEAN
<1>1. NoCommand \in Command
  BY WordType DEF NoCommand, Command
<1>2. \A r \in BOOLEAN : \A c \in Command : Swapped(c, r) \in InForce
  BY DEF Swapped, InForce, Command
<1>3. QED
  BY <1>1, <1>2, CommandsAssumption DEF Command, Datagram

LEMMA CountsType == 0 \in Counts /\ Counts \subseteq Int
  BY MaxCountAssumption DEF Counts

\* Every variable keeps its type (DataExchange!TypeOK).
THEOREM TypeCorrect == Spec => []TypeOK
<1>1. Init => TypeOK
  <2> SUFFICES ASSUME Init PROVE TypeOK
    OBVIOUS
  <2>1. pkt \in Datagram /\ joint \in Joints
    BY Choices DEF Init, Headers, Datagram
  <2>2. reply \in Replies
    BY CountsType DEF Init, NoReply, Replies
  <2>9. force \in InForce /\ prior \in InForce
    BY CommandType DEF Init, NoWrite
  <2>3. /\ rxFreq \in [Bufs -> [Joints -> Words]]
        /\ rxEnable \in [Bufs -> SUBSET Joints]
    BY CommandType DEF Init, NoCommand, Command
  <2>4. /\ txFeedback \in [Bufs -> [Joints -> Counts]]
        /\ rawCount \in [Joints -> Counts]
    BY CountsType DEF Init
  <2>5. /\ rxHeader \in [Bufs -> Headers \cup {"zero"}]
        /\ txHeader \in [Bufs -> {"zero", "data", "ackn"}]
    BY DEF Init
  <2>6. /\ currentRxBuffer \in Bufs /\ currentTxBuffer \in Bufs
        /\ rxBuffer \in Bufs /\ txBuffer \in Bufs
        /\ jRx \in Bufs /\ jTx \in Bufs /\ pruRxData \in Bufs
    BY DEF Init
  <2>7. /\ semaphore \in BOOLEAN /\ overtaken \in BOOLEAN /\ raced \in BOOLEAN
        /\ c0 \in C0Stages /\ c1 \in C1Stages /\ left \subseteq 0 .. EnableByte
        /\ todo \in SUBSET Joints
    BY DEF Init, C0Stages, C1Stages
  <2>8. QED
    BY <2>1, <2>2, <2>3, <2>4, <2>5, <2>6, <2>7, <2>9 DEF TypeOK
<1>2. TypeOK /\ [Next]_vars => TypeOK'
  <2> SUFFICES ASSUME TypeOK, [Next]_vars PROVE TypeOK'
    OBVIOUS
  <2> USE DEF TypeOK
  <2>1. ASSUME NEW p \in Packets, Receive(p) PROVE TypeOK'
    <3>1. pkt' \in Datagram
      BY <2>1 DEF Packets, Receive
    <3>2. reply' \in Replies
      BY <2>1, CountsType DEF Receive, NoReply, Replies
    <3>3. QED
      BY <2>1, <3>1, <3>2
      DEF Receive, rxVars, txVars, c1Vars, rstVars, history, C0Stages
  <2>2. CASE CopyLow
    BY <2>2, CommandType DEF CopyLow, txVars, c1Vars, rstVars, history, C0Stages, Command
  <2>3. CASE CopyHigh
    BY <2>3, CommandType DEF CopyHigh, txVars, c1Vars, rstVars, history, C0Stages, Command
  <2>4. CASE Dispatch
    BY <2>4 DEF Dispatch, rxVars, txVars, c1Vars, rstVars, history, C0Stages
  <2>5. CASE Spin0
    BY <2>5 DEF Spin0, rxVars, txVars, c1Vars, rstVars, history, C0Stages
  <2>6. CASE Take0
    BY <2>6 DEF Take0, rxVars, txVars, c1Vars, rstVars, history, C0Stages, C0Locked
  <2>7. CASE SwapTxBuffers
    BY <2>7 DEF SwapTxBuffers, rxVars, c1Vars, rstVars, C0Stages, C0Locked
  <2>8. CASE SwapRxBuffers
    <3>1. Swapped(pkt.cmd, raced) \in InForce
      BY CommandType
    <3>2. QED
      BY <2>8, <3>1 DEF SwapRxBuffers, txVars, c1Vars, rstVars, C0Stages, C0Locked
  <2>9. CASE Release0
    BY <2>9 DEF Release0, rxVars, txVars, c1Vars, rstVars, history, C0Stages
  <2>10. CASE SetHeader
    BY <2>10 DEF SetHeader, rxVars, c1Vars, rstVars, history, C0Stages
  <2>11. CASE Notify
    BY <2>11 DEF Notify, rxVars, txVars, c1Vars, rstVars, history, C0Stages
  <2>12. CASE Reply
    <3>1. reply' \in Replies
      <4>1. CASE c0 = "drop"
        BY <2>12, <4>1, CountsType DEF Reply, NoReply, Replies
      <4>2. CASE c0 # "drop"
        <5>1. txHeader[txBuffer] \in {"zero", "data", "ackn"}
          OBVIOUS
        <5>. QED BY <2>12, <4>2, <5>1 DEF Reply, Sent, Replies
      <4>3. QED
        BY <4>1, <4>2
    <3>2. QED
      BY <2>12, <3>1 DEF Reply, rxVars, txVars, c1Vars, rstVars, history, C0Stages
  <2>13. CASE Tick
    BY <2>13 DEF Tick, rxVars, txVars, c0Vars, rstVars, history, C1Stages
  <2>14. CASE Spin1
    BY <2>14 DEF Spin1, rxVars, txVars, c0Vars, rstVars, history, C1Stages
  <2>15. CASE Take1
    BY <2>15 DEF Take1, rxVars, txVars, c0Vars, rstVars, history, C1Stages, C1Locked
  <2>16. ASSUME NEW j \in Joints, Fetch(j) PROVE TypeOK'
    BY <2>16 DEF Fetch, rxVars, txVars, c0Vars, rstVars, history, C1Stages, C1Locked
  <2>17. CASE ReadEnable
    BY <2>17 DEF ReadEnable, NextJoint, rxVars, txVars, c0Vars, rstVars, history, C1Stages, C1Locked
  <2>18. CASE ReadFreq
    BY <2>18 DEF ReadFreq, NextJoint, rxVars, txVars, c0Vars, rstVars, history, C1Stages, C1Locked
  <2>19. CASE StoreFeedback
    BY <2>19 DEF StoreFeedback, NextJoint, rxVars, c0Vars, rstVars, history, C1Stages, C1Locked
  <2>20. CASE Release1
    BY <2>20 DEF Release1, rxVars, txVars, c0Vars, rstVars, C1Stages
  <2>21. CASE ResetBegin
    BY <2>21 DEF ResetBegin, rxVars, txVars, c0Vars, c1Vars, history
  <2>22. ASSUME NEW n \in left, ResetByte(n) PROVE TypeOK'
    <3>1. rxFreq' \in [Bufs -> [Joints -> Words]]
      BY <2>22, WordType DEF ResetByte
    <3>2. /\ rxEnable' \in [Bufs -> SUBSET Joints]
          /\ rxHeader' \in [Bufs -> Headers \cup {"zero"}]
          /\ left' \subseteq 0 .. EnableByte
      BY <2>22 DEF ResetByte
    <3>3. QED
      BY <2>22, <3>1, <3>2 DEF ResetByte, txVars, c0Vars, c1Vars, history
  <2>25. CASE UNCHANGED vars
    BY <2>25 DEF vars, rxVars, txVars, c0Vars, c1Vars, rstVars, history
  <2>26. QED
    BY <2>1, <2>2, <2>3, <2>4, <2>5, <2>6, <2>7, <2>8, <2>9, <2>10, <2>11, <2>12,
       <2>13, <2>14, <2>15, <2>16, <2>17, <2>18, <2>19, <2>20, <2>21, <2>22, <2>25
    DEF Next, Core0, Callback, BaseTick, Reset
<1>3. QED
  BY <1>1, <1>2, PTL DEF Spec

-----------------------------------------------------------------------------
(***************************************************************************)
(* The buffer in force holds the last WRITE, or zeros in its place.  For   *)
(* that to be inductive, the buffer that will come into force next must be *)
(* followed from the memcpy that fills it to the swap; and for the words   *)
(* to be whole, where RESET is must be known too.                          *)
(***************************************************************************)
Copied == {"copyHigh", "dispatch", "spin", "take", "swapTx", "swapRx"}
Held == {"copyLow"} \cup Copied

\* Buffer b holds the frequencies of c, or those RESET has left of them.
FreqsRemain(b, c) ==
  \A j \in Joints : \A i \in WordBytes : rxFreq[b][j][i] \in {c.freq[j][i], 0}

Remains(b, c) == FreqsRemain(b, c) /\ rxEnable[b] \in {c.enable, {}}

\* RESET is zeroing buffer b.
AtBuffer(b) == left # {} /\ pruRxData = b

\* No enabled joint of b has a frequency RESET has damaged.
Whole(b, c) ==
  rxFreq[b] = c.freq \/ rxEnable[b] = {} \/ (~ResetInOrder /\ AtBuffer(b))

\* What core 0 has copied of the datagram at hand, RESET may have zeroed, but
\* only if it was at that buffer already when the datagram came.
CopyInv ==
  /\ WellFormed(pkt)
  /\ c0 \in Held => rxBuffer = 1 - currentRxBuffer
  /\ c0 = "swapRx" => pkt.header = "writ"
  /\ c0 \in Copied /\ pkt.full => FreqsRemain(rxBuffer, pkt.cmd)
  /\ c0 \in Copied \ {"copyHigh"} /\ pkt.full =>
       rxEnable[rxBuffer] \in {pkt.cmd.enable, {}}
  /\ c0 \in Held /\ ~raced => ~AtBuffer(rxBuffer)
  /\ c0 \in Copied /\ pkt.full /\ ~raced => rxFreq[rxBuffer] = pkt.cmd.freq

\* Of a WRITE that raced no RESET, one that began later disables every joint
\* before it comes to the frequencies, or at the latest when it ends.
ForceInv ==
  /\ Remains(currentRxBuffer, force)
  /\ ~force.raced =>
       /\ Whole(currentRxBuffer, force)
       /\ AtBuffer(currentRxBuffer) /\ EnableByte \notin left =>
            rxEnable[currentRxBuffer] = {}

CommandInv == TypeOK /\ ForceInv /\ CopyInv

LEMMA ForceObeyed ==
  ASSUME TypeOK, ForceInv
  PROVE  NoForeignCommand
<1> USE DEF ForceInv, Remains, FreqsRemain, Whole, AtBuffer, Torn
<1>1. rxEnable[currentRxBuffer] \in {force.enable, {}}
  OBVIOUS
<1>2. ASSUME NEW j \in rxEnable[currentRxBuffer]
      PROVE  \/ rxFreq[currentRxBuffer][j] = force.freq[j]
             \/ Torn(force) /\ \A i \in WordBytes :
                  rxFreq[currentRxBuffer][j][i] \in {force.freq[j][i], 0}
  <2>1. j \in Joints
    BY DEF TypeOK
  <2>2. QED
    BY <2>1, <1>2
<1>3. QED
  BY <1>1, <1>2 DEF NoForeignCommand

\* The steps of the base tick leave what CommandInv speaks of alone.
commandVars ==
  <<currentRxBuffer, rxFreq, rxEnable, c0, pkt, rxBuffer, force, raced, rstVars>>

LEMMA TickKeepsCommands ==
  (Tick \/ BaseTick \/ UNCHANGED vars) => UNCHANGED commandVars
  BY DEF Tick, BaseTick, Spin1, Take1, Fetch, ReadEnable, ReadFreq, StoreFeedback,
     Release1, commandVars, vars, rxVars, txVars, c0Vars, history

LEMMA EnableByteType == EnableByte \in 0 .. EnableByte
<1>1. \A a, b \in Nat : (a + 1) * (b + 1) + 0 \in Nat
  OBVIOUS
<1>2. EnableByte \in Nat
  BY <1>1, JointsAssumption, WordAssumption DEF EnableByte, Address
<1>3. QED
  BY <1>2

\* What one byte of RESET does to the two buffers.
LEMMA ByteZeroed ==
  ASSUME TypeOK, NEW n \in left, ResetByte(n)
  PROVE  /\ c1 = "out" /\ left' = left \ {n}
         /\ UNCHANGED <<currentRxBuffer, c0, c1, pkt, rxBuffer, force, prior,
                        raced, overtaken, pruRxData>>
         /\ \A b \in Bufs \ {pruRxData} :
              rxFreq'[b] = rxFreq[b] /\ rxEnable'[b] = rxEnable[b]
         /\ \A b \in Bufs : \A j \in Joints : \A i \in WordBytes :
              rxFreq'[b][j][i] \in {rxFreq[b][j][i], 0}
         /\ \A b \in Bufs : rxEnable'[b] \in {rxEnable[b], {}}
         /\ n = EnableByte => rxEnable'[pruRxData] = {}
         /\ ResetInOrder /\ n # EnableByte => EnableByte \notin left
<1> USE DEF TypeOK
<1>1. /\ c1 = "out" /\ left' = left \ {n}
      /\ UNCHANGED <<currentRxBuffer, c0, c1, pkt, rxBuffer, force, prior,
                     raced, overtaken, pruRxData>>
  BY DEF ResetByte, c0Vars, c1Vars, history
<1>2. /\ \A b \in Bufs \ {pruRxData} :
            rxFreq'[b] = rxFreq[b] /\ rxEnable'[b] = rxEnable[b]
      /\ rxFreq'[pruRxData] = WithoutByte(rxFreq[pruRxData], n)
      /\ \A b \in Bufs : rxEnable'[b] \in {rxEnable[b], {}}
      /\ n = EnableByte => rxEnable'[pruRxData] = {}
  BY DEF ResetByte
<1>3. \A b \in Bufs : \A j \in Joints : \A i \in WordBytes :
        rxFreq'[b][j][i] \in {rxFreq[b][j][i], 0}
  <2>1. \A b \in Bufs : rxFreq[b] \in [Joints -> Words]
    OBVIOUS
  <2>2. QED
    BY <1>2, <2>1, WordType
<1>4. ResetInOrder /\ n # EnableByte => EnableByte \notin left
  <2>1. ResetInOrder /\ EnableByte \in left => EnableByte <= n
    BY DEF ResetByte, FromTheTop
  <2>2. n <= EnableByte /\ n \in Int /\ EnableByte \in Int
    BY EnableByteType
  <2>3. QED
    BY <2>1, <2>2
<1>5. QED
  BY <1>1, <1>2, <1>3, <1>4

LEMMA ResetStepKeeps ==
  ASSUME CommandInv, Reset
  PROVE  ForceInv' /\ CopyInv'
<1> USE DEF CommandInv, ForceInv, CopyInv, Remains, FreqsRemain, Whole, AtBuffer
<1>1. CASE ResetBegin
  <2>1. /\ UNCHANGED <<currentRxBuffer, rxFreq, rxEnable, c0, pkt, rxBuffer, force, raced>>
        /\ left = {} /\ EnableByte \in left' /\ pruRxData' = currentRxBuffer
    BY <1>1, EnableByteType DEF ResetBegin, rxVars, c0Vars, history
  <2>2. currentRxBuffer # 1 - currentRxBuffer
    BY DEF TypeOK
  <2>3. QED
    BY <2>1, <2>2
<1>2. ASSUME NEW n \in left, ResetByte(n) PROVE ForceInv' /\ CopyInv'
  <2> DEFINE b == currentRxBuffer
  <2>1. currentRxBuffer \in Bufs /\ rxBuffer \in Bufs
    BY DEF TypeOK
  <2>2. Remains(currentRxBuffer, force)'
    BY <1>2, <2>1, ByteZeroed
  <2>3. ASSUME ~force'.raced
        PROVE  /\ Whole(currentRxBuffer, force)'
               /\ (AtBuffer(currentRxBuffer) /\ EnableByte \notin left)' =>
                    rxEnable'[currentRxBuffer'] = {}
    <3>1. CASE pruRxData # currentRxBuffer
      BY <1>2, <2>1, <2>3, <3>1, ByteZeroed
    <3>2. CASE pruRxData = currentRxBuffer
      <4>1. EnableByte \notin left' => rxEnable'[currentRxBuffer] = {}
        BY <1>2, <2>1, <2>3, <3>2, ByteZeroed
      <4>2. ResetInOrder => EnableByte \notin left'
        BY <1>2, ByteZeroed
      <4>3. left' = {} => EnableByte \notin left'
        OBVIOUS
      <4>4. QED
        BY <1>2, <2>1, <3>2, <4>1, <4>2, <4>3, ByteZeroed
    <3>3. QED
      BY <3>1, <3>2
  <2>4. CopyInv'
    <3>1. /\ left' \subseteq left
          /\ UNCHANGED <<currentRxBuffer, c0, pkt, rxBuffer, raced, pruRxData>>
          /\ \A j \in Joints : \A i \in WordBytes :
               rxFreq'[rxBuffer][j][i] \in {rxFreq[rxBuffer][j][i], 0}
          /\ rxEnable'[rxBuffer] \in {rxEnable[rxBuffer], {}}
          /\ ~AtBuffer(rxBuffer) => rxFreq'[rxBuffer] = rxFreq[rxBuffer]
      BY <1>2, <2>1, ByteZeroed
    <3>2. c0 \in Copied => c0 \in Held
      BY DEF Held
    <3>3. c0 \in Copied /\ pkt.full => FreqsRemain(rxBuffer, pkt.cmd)'
      BY <3>1
    <3>4. c0 \in Copied /\ pkt.full /\ ~raced => rxFreq'[rxBuffer] = pkt.cmd.freq
      BY <3>1, <3>2
    <3>5. QED
      BY <3>1, <3>3, <3>4
  <2>5. QED
    BY <2>2, <2>3, <2>4
<1>3. QED
  BY <1>1, <1>2 DEF Reset

LEMMA CommandStep ==
  ASSUME CommandInv, TypeOK', [Next]_vars
  PROVE  ForceInv' /\ CopyInv'
<1> USE DEF CommandInv, ForceInv, CopyInv, Remains, FreqsRemain, Whole, AtBuffer,
            Held, Copied
<1>1. CASE UNCHANGED commandVars
  BY <1>1 DEF commandVars, rstVars
<1>2. ASSUME NEW p \in Packets, Receive(p) PROVE ForceInv' /\ CopyInv'
  BY <1>2 DEF Packets, Receive, rxVars, rstVars
<1>3. CASE CopyLow
  <2>1. /\ rxBuffer # currentRxBuffer
        /\ UNCHANGED <<currentRxBuffer, rxEnable, pkt, rxBuffer, force, raced, left, pruRxData>>
        /\ rxFreq'[currentRxBuffer] = rxFreq[currentRxBuffer]
        /\ pkt.full => rxFreq'[rxBuffer] = pkt.cmd.freq
        /\ c0 = "copyLow" /\ c0' = "copyHigh"
    BY <1>3 DEF CopyLow, history, rstVars, TypeOK
  <2>2. QED
    BY <2>1
<1>4. CASE CopyHigh
  <2>1. /\ rxBuffer # currentRxBuffer
        /\ UNCHANGED <<currentRxBuffer, rxFreq, pkt, rxBuffer, force, raced, left, pruRxData>>
        /\ rxEnable'[currentRxBuffer] = rxEnable[currentRxBuffer]
        /\ pkt.full => rxEnable'[rxBuffer] = pkt.cmd.enable
        /\ c0 = "copyHigh" /\ c0' = "dispatch"
    BY <1>4 DEF CopyHigh, history, rstVars, TypeOK
  <2>2. QED
    BY <2>1
<1>5. CASE Dispatch
  BY <1>5 DEF Dispatch, rxVars, rstVars, history
<1>6. CASE Spin0
  BY <1>6 DEF Spin0, rxVars, rstVars, history
<1>7. CASE Take0
  BY <1>7 DEF Take0, rxVars, rstVars, history
<1>8. CASE SwapTxBuffers
  BY <1>8 DEF SwapTxBuffers, rxVars, rstVars
<1>9. CASE SwapRxBuffers
  \* The buffer that comes into force holds the datagram, which is a whole WRITE.
  <2>1. /\ pkt.full /\ currentRxBuffer' = rxBuffer
        /\ force'.freq = pkt.cmd.freq /\ force'.enable = pkt.cmd.enable
        /\ force'.raced = raced
        /\ c0 = "swapRx" /\ c0' = "release"
        /\ UNCHANGED <<rxFreq, rxEnable, pkt, left, pruRxData>>
    BY <1>9 DEF SwapRxBuffers, WellFormed, Swapped, rstVars
  <2>2. QED
    BY <2>1
<1>10. CASE Release0 \/ SetHeader \/ Notify \/ Reply
  BY <1>10 DEF Release0, SetHeader, Notify, Reply, rxVars, rstVars, history
<1>11. CASE Reset
  BY <1>11, ResetStepKeeps
<1>12. QED
  BY <1>1, <1>2, <1>3, <1>4, <1>5, <1>6, <1>7, <1>8, <1>9, <1>10, <1>11, TickKeepsCommands
  DEF Next, Core0, Callback

LEMMA CommandInit ==
  ASSUME Init
  PROVE  ForceInv /\ CopyInv
BY Choices
DEF Init, ForceInv, CopyInv, Remains, FreqsRemain, Whole, AtBuffer, Held, Copied,
    WellFormed, Swapped, NoWrite, NoCommand

\* What the step generators find in force is the last WRITE's or zero, and a
\* frequency in force is whole unless its WRITE raced a RESET
\* (DataExchange!NoForeignCommand), whatever the semaphore does and however
\* long a tick or a RESET takes.
THEOREM CommandsIntact == Spec => []NoForeignCommand
<1>1. Init => ForceInv /\ CopyInv
  BY CommandInit
<1>2. TypeOK /\ TypeOK' /\ (ForceInv /\ CopyInv) /\ [Next]_vars => (ForceInv /\ CopyInv)'
  BY CommandStep DEF CommandInv
<1>3. TypeOK /\ ForceInv => NoForeignCommand
  BY ForceObeyed
<1>4. QED
  BY <1>1, <1>2, <1>3, TypeCorrect, PTL DEF Spec

-----------------------------------------------------------------------------
(***************************************************************************)
(* A step generator holds its buffer pointer across several reads.  The    *)
(* buffer it points to is in force, or was until a swap during this tick,  *)
(* and then no datagram can be copied into it before the tick is over.     *)
(***************************************************************************)
Reading == {"enable", "freq"}

PointerInv ==
  /\ overtaken => c1 \in C1Locked /\ c0 \notin Held \ {"swapRx"}
  /\ c1 \in Reading /\ jRx # currentRxBuffer =>
       /\ overtaken /\ c0 # "swapRx"
       /\ Remains(jRx, prior)
       /\ ~prior.raced => Whole(jRx, prior)
  /\ c1 = "freq" => joint \in rxEnable[jRx]

StepInv == CommandInv /\ PointerInv

LEMMA PointerStep ==
  ASSUME ShortTicks, StepInv, TypeOK', [Next]_vars
  PROVE  PointerInv'
<1> USE DEF StepInv, CommandInv, PointerInv, TypeOK, Held, Copied, Reading, C1Locked,
            Remains, FreqsRemain, Whole, AtBuffer, rstVars
<1>1. ASSUME NEW p \in Packets, Receive(p) PROVE PointerInv'
  BY <1>1 DEF Receive, rxVars, c1Vars, history
<1>2. CASE CopyLow
  <2>1. c1 \in Reading => jRx # rxBuffer /\ rxFreq'[jRx] = rxFreq[jRx]
    BY <1>2 DEF CopyLow, CopyInv
  <2>2. QED
    BY <1>2, <2>1 DEF CopyLow, c1Vars, history
<1>3. CASE CopyHigh
  <2>1. c1 \in Reading => jRx # rxBuffer /\ rxEnable'[jRx] = rxEnable[jRx]
    BY <1>3 DEF CopyHigh, CopyInv
  <2>2. QED
    BY <1>3, <2>1 DEF CopyHigh, c1Vars, history
<1>4. CASE Dispatch \/ Spin0 \/ Take0
  BY <1>4 DEF Dispatch, Spin0, Take0, rxVars, c1Vars, history
<1>5. CASE SwapTxBuffers
  BY <1>5 DEF SwapTxBuffers, rxVars, c1Vars
<1>6. CASE SwapRxBuffers
  \* A pointer held now is to the buffer that was in force.
  <2>1. c1 \in Reading => jRx = currentRxBuffer
    BY <1>6 DEF SwapRxBuffers
  <2>2. QED
    BY <1>6, <2>1 DEF SwapRxBuffers, c1Vars, ForceInv
<1>7. CASE Release0 \/ SetHeader \/ Notify \/ Reply
  BY <1>7 DEF Release0, SetHeader, Notify, Reply, rxVars, c1Vars, history
<1>8. CASE Tick \/ Spin1 \/ Take1
  BY <1>8 DEF Tick, Spin1, Take1, rxVars, c0Vars, history
<1>9. ASSUME NEW j \in Joints, Fetch(j) PROVE PointerInv'
  BY <1>9 DEF Fetch, rxVars, c0Vars, history
<1>10. CASE ReadEnable
  BY <1>10 DEF ReadEnable, NextJoint, rxVars, c0Vars, history
<1>11. CASE ReadFreq \/ StoreFeedback
  BY <1>11 DEF ReadFreq, StoreFeedback, NextJoint, rxVars, c0Vars, history
<1>12. CASE Release1
  BY <1>12 DEF Release1, rxVars, c0Vars
<1>13. CASE Reset
  \* RESET runs at thread level: no tick is in progress.
  <2>1. c1 = "out" /\ UNCHANGED <<c0, c1, overtaken>>
    BY <1>13 DEF Reset, ResetBegin, ResetByte, c0Vars, c1Vars, history
  <2>2. QED
    BY <2>1
<1>14. CASE UNCHANGED vars
  BY <1>14 DEF vars, rxVars, c0Vars, c1Vars, history
<1>15. QED
  BY <1>1, <1>2, <1>3, <1>4, <1>5, <1>6, <1>7, <1>8, <1>9, <1>10, <1>11, <1>12, <1>13, <1>14
  DEF Next, Core0, Callback, BaseTick

\* A raw count changes in ReadFreq alone.
LEMMA CountsMoveInReadFreq ==
  [Next]_vars /\ rawCount' # rawCount => ReadFreq
  BY DEF Next, Core0, Callback, BaseTick, Reset, Receive, CopyLow, CopyHigh, Dispatch, Spin0, Take0,
     SwapTxBuffers, SwapRxBuffers, Release0, SetHeader, Notify, Reply, Tick, Spin1, Take1,
     Fetch, ReadEnable, StoreFeedback, Release1, ResetBegin, ResetByte, c1Vars, vars

OneCommand(j) ==
  rawCount'[j] # rawCount[j] =>
    \E c \in {force} \cup (IF overtaken THEN {prior} ELSE {}) :
      /\ j \in c.enable
      /\ c.freq[j] # Zero
      /\ rawCount'[j] - rawCount[j] \in Ways(c, j)

\* What is left of a word without some of its bytes: a forward word stays one,
\* a backward one does unless its top byte is gone.
LEMMA DamagedWord ==
  ASSUME NEW v \in Words, NEW w \in Words, w # Zero,
         \A i \in WordBytes : w[i] \in {v[i], 0}
  PROVE  v # Zero /\ (Direction(w) = Direction(v) \/ Direction(w) = 1)
<1>1. v # Zero
  <2>1. PICK i \in WordBytes : w[i] # 0
    BY DEF Words, Zero
  <2>2. v[i] # 0
    BY <2>1
  <2>3. QED
    BY <2>2 DEF Zero
<1>2. CASE w[Top] = v[Top]
  BY <1>1, <1>2 DEF Direction, Negative
<1>3. CASE w[Top] = 0
  <2>1. ~(0 >= Radix \div 2)
    BY WordAssumption
  <2>2. QED
    BY <1>1, <1>3, <2>1 DEF Direction, Negative
<1>4. QED
  BY <1>2, <1>3, WordAssumption DEF WordBytes

\* What the interrupt has read when it steps is left of one WRITE's frequency,
\* and is the whole of it unless that WRITE raced a RESET.
LEMMA ReadsOneCommand ==
  ASSUME StepInv, c1 = "freq"
  PROVE  \E c \in {force} \cup (IF overtaken /\ c0 # "swapRx" THEN {prior} ELSE {}) :
           /\ joint \in c.enable
           /\ \A i \in WordBytes : rxFreq[jRx][joint][i] \in {c.freq[joint][i], 0}
           /\ rxFreq[jRx][joint] = c.freq[joint] \/ Torn(c)
<1> USE DEF StepInv, CommandInv, TypeOK, Remains, FreqsRemain, Whole, AtBuffer, Torn
<1>1. joint \in rxEnable[jRx]
  BY DEF PointerInv
<1>2. CASE jRx = currentRxBuffer
  BY <1>1, <1>2 DEF ForceInv
<1>3. CASE jRx # currentRxBuffer
  BY <1>1, <1>3 DEF PointerInv, Reading
<1>4. QED
  BY <1>2, <1>3

\* The same for the step itself: j is the joint, f the word that was read.
LEMMA StepWay ==
  ASSUME StepInv, ReadFreq, NEW j \in Joints, rawCount'[j] # rawCount[j]
  PROVE  /\ j = joint
         /\ \E c \in {force} \cup (IF overtaken /\ c0 # "swapRx" THEN {prior} ELSE {}) :
              /\ j \in c.enable
              /\ c.freq[j] # Zero
              /\ \E way \in Ways(c, j) :
                   rawCount' = [rawCount EXCEPT ![j] = rawCount[j] + way]
<1> USE DEF StepInv, CommandInv
<1>1. PICK f \in Words : f = rxFreq[jRx][joint]
  BY DEF TypeOK
<1>2. /\ c1 = "freq" /\ j = joint /\ f # Zero
      /\ rawCount' = [rawCount EXCEPT ![joint] = rawCount[joint] + Direction(f)]
  BY <1>1 DEF ReadFreq, TypeOK
<1>3. PICK c \in {force} \cup (IF overtaken /\ c0 # "swapRx" THEN {prior} ELSE {}) :
        /\ joint \in c.enable
        /\ \A i \in WordBytes : f[i] \in {c.freq[joint][i], 0}
        /\ f = c.freq[joint] \/ Torn(c)
  BY <1>1, <1>2, ReadsOneCommand
<1>4. c.freq[joint] \in Words
  BY DEF TypeOK, InForce
<1>5. c.freq[joint] # Zero /\ Direction(f) \in Ways(c, joint)
  BY <1>2, <1>3, <1>4, DamagedWord DEF Ways
<1>6. QED
  BY <1>2, <1>3, <1>5

LEMMA StepFollows ==
  ASSUME StepInv, [Next]_vars, NEW j \in Joints
  PROVE  OneCommand(j)
<1> SUFFICES ASSUME rawCount'[j] # rawCount[j] PROVE OneCommand(j)
  BY DEF OneCommand
<1>1. ReadFreq
  BY CountsMoveInReadFreq
<1>2. PICK c \in {force} \cup (IF overtaken THEN {prior} ELSE {}) :
        /\ j \in c.enable
        /\ c.freq[j] # Zero
        /\ \E way \in Ways(c, j) :
             rawCount' = [rawCount EXCEPT ![j] = rawCount[j] + way]
  BY <1>1, StepWay
<1>3. PICK way \in Ways(c, j) : rawCount' = [rawCount EXCEPT ![j] = rawCount[j] + way]
  BY <1>2
<1>4. rawCount'[j] - rawCount[j] = way
  <2>0. Ways(c, j) \subseteq Int
    BY DEF Ways, Direction
  <2>1. way \in Int /\ rawCount \in [Joints -> Counts] /\ rawCount[j] \in Int
    BY <1>3, <2>0, CountsType DEF StepInv, CommandInv, TypeOK
  <2>2. rawCount'[j] = rawCount[j] + way
    BY <1>3, <2>1
  <2>3. QED
    BY <2>1, <2>2
<1>5. QED
  BY <1>2, <1>4 DEF OneCommand

\* A joint steps only as one of the two WRITEs that can be in force during its
\* tick asks, and in another direction only forward and only for a WRITE that
\* raced a RESET (DataExchange!StepObeysOneCommand), provided a tick ends
\* before core 0 has handled two datagrams.
THEOREM StepsObeyOneCommand ==
  ASSUME ShortTicks
  PROVE  Spec => StepObeysOneCommand
<1>1. Init => PointerInv
  BY DEF Init, PointerInv, Reading, C1Locked
<1>2. Init => ForceInv /\ CopyInv
  BY CommandInit
<1>3. TypeOK /\ TypeOK' /\ (ForceInv /\ CopyInv /\ PointerInv) /\ [Next]_vars
        => (ForceInv /\ CopyInv /\ PointerInv)'
  BY CommandStep, PointerStep DEF StepInv, CommandInv
<1>4. TypeOK /\ ForceInv /\ CopyInv /\ PointerInv /\ [Next]_vars
        => [\A j \in Joints : OneCommand(j)]_vars
  BY StepFollows DEF StepInv, CommandInv
<1>5. Spec => [][\A j \in Joints : OneCommand(j)]_vars
  BY <1>1, <1>2, <1>3, <1>4, TypeCorrect, PTL DEF Spec
<1>6. QED
  BY <1>5 DEF StepObeysOneCommand, OneCommand

-----------------------------------------------------------------------------
(***************************************************************************)
(* The feedback and the semaphore: each of the two invariants is inductive *)
(* on its own, given the types.                                            *)
(***************************************************************************)
feedbackVars == <<txFeedback, rawCount, c1, joint>>

LEMMA FeedbackStep ==
  ASSUME TypeOK, FeedbackHeld, [Next]_vars
  PROVE  FeedbackHeld'
<1> USE DEF TypeOK, FeedbackHeld
<1>1. CASE UNCHANGED feedbackVars
  BY <1>1 DEF feedbackVars
<1>2. CASE Tick \/ Spin1 \/ Take1 \/ Release1 \/ ReadEnable
  BY <1>2 DEF Tick, Spin1, Take1, Release1, ReadEnable, txVars
<1>3. ASSUME NEW j \in Joints, Fetch(j) PROVE FeedbackHeld'
  BY <1>3 DEF Fetch, txVars
<1>4. CASE ReadFreq
  \* The joint that steps has its count stored next, the others keep theirs.
  <2>1. \A j \in Joints : rawCount'[j] # rawCount[j] => c1' = "store" /\ j = joint'
    BY <1>4 DEF ReadFreq
  <2>2. c1 # "store" /\ UNCHANGED txFeedback
    BY <1>4 DEF ReadFreq, txVars
  <2>3. QED
    BY <2>1, <2>2
<1>5. CASE StoreFeedback
  <2>1. txFeedback'[jTx][joint] = rawCount'[joint]
    BY <1>5 DEF StoreFeedback
  <2>2. \A j \in Joints \ {joint} : \A b \in Bufs : txFeedback'[b][j] = txFeedback[b][j]
    BY <1>5 DEF StoreFeedback
  <2>3. QED
    BY <1>5, <2>1, <2>2 DEF StoreFeedback
<1>6. QED
  <2>1. ASSUME NEW p \in Packets, Receive(p) PROVE UNCHANGED feedbackVars
    BY <2>1 DEF Receive, txVars, c1Vars, feedbackVars
  <2>2. Core0 \/ Reset \/ UNCHANGED vars => UNCHANGED feedbackVars
    BY DEF Core0, Callback, Reset, CopyLow, CopyHigh, Dispatch, Spin0, Take0, SwapTxBuffers,
       SwapRxBuffers, Release0, SetHeader, Notify, Reply, ResetBegin, ResetByte,
       feedbackVars, txVars, c1Vars, vars
  <2>3. QED
    BY <1>1, <1>2, <1>3, <1>4, <1>5, <2>1, <2>2 DEF Next, BaseTick

\* A transmit buffer holds the raw count of each joint (DataExchange!FeedbackHeld):
\* the swaps delay a count on its way to the host, they do not destroy it.
THEOREM FeedbackKept == Spec => []FeedbackHeld
<1>1. Init => FeedbackHeld
  BY DEF Init, FeedbackHeld
<1>2. TypeOK /\ FeedbackHeld /\ [Next]_vars => FeedbackHeld'
  BY FeedbackStep
<1>3. QED
  BY <1>1, <1>2, TypeCorrect, PTL DEF Spec

LEMMA SemaphoreStep ==
  ASSUME TypeOK, SemaphoreOwned, [Next]_vars
  PROVE  SemaphoreOwned'
<1> USE DEF TypeOK, SemaphoreOwned, C0Locked, C1Locked
<1>1. ASSUME NEW p \in Packets, Receive(p) PROVE SemaphoreOwned'
  BY <1>1 DEF Receive, c1Vars
<1>2. CASE CopyLow \/ CopyHigh \/ Dispatch \/ Spin0 \/ SetHeader \/ Notify \/ Reply
  BY <1>2 DEF CopyLow, CopyHigh, Dispatch, Spin0, SetHeader, Notify, Reply, c1Vars
<1>3. CASE Take0 \/ SwapTxBuffers \/ SwapRxBuffers \/ Release0
  BY <1>3 DEF Take0, SwapTxBuffers, SwapRxBuffers, Release0, c1Vars
<1>4. CASE Tick \/ Spin1 \/ Take1 \/ Release1
  BY <1>4 DEF Tick, Spin1, Take1, Release1, c0Vars
<1>5. ASSUME NEW j \in Joints, Fetch(j) PROVE SemaphoreOwned'
  BY <1>5 DEF Fetch, c0Vars
<1>6. CASE ReadEnable \/ ReadFreq \/ StoreFeedback
  BY <1>6 DEF ReadEnable, ReadFreq, StoreFeedback, NextJoint, c0Vars
<1>7. CASE Reset \/ UNCHANGED vars
  BY <1>7 DEF Reset, ResetBegin, ResetByte, c0Vars, c1Vars, vars
<1>8. QED
  BY <1>1, <1>2, <1>3, <1>4, <1>5, <1>6, <1>7 DEF Next, Core0, Callback, BaseTick

\* The semaphore is never left set (DataExchange!SemaphoreOwned): whichever way
\* the two cores' sets and clears interleave, the last one is a clear.
THEOREM SemaphoreFreed == Spec => []SemaphoreOwned
<1>1. Init => SemaphoreOwned
  BY DEF Init, SemaphoreOwned
<1>2. TypeOK /\ SemaphoreOwned /\ [Next]_vars => SemaphoreOwned'
  BY SemaphoreStep
<1>3. QED
  BY <1>1, <1>2, TypeCorrect, PTL DEF Spec

-----------------------------------------------------------------------------
(***************************************************************************)
(* The refinement: every step of the two cores is one step of HostExchange *)
(* or none of it.                                                          *)
(***************************************************************************)
Handled == {"spin", "take", "swapTx", "swapRx", "release", "header", "notify", "reply"}

\* The header dispatched on is the datagram's, and so is the header sent back.
AnswerInv ==
  /\ c0 \in {"copyHigh", "dispatch"} => rxHeader[rxBuffer] \in {pkt.header, "zero"}
  /\ c0 \in Handled => pkt.header \in {"read", "writ"}
  /\ c0 \in {"notify", "reply"} =>
       txHeader[txBuffer] = IF pkt.header = "writ" THEN "ackn" ELSE "data"

LEMMA AnswerStep ==
  ASSUME TypeOK, AnswerInv, [Next]_vars
  PROVE  AnswerInv'
<1> USE DEF TypeOK, AnswerInv, Handled
<1>1. ASSUME NEW p \in Packets, Receive(p) PROVE AnswerInv'
  BY <1>1 DEF Receive, rxVars, txVars
<1>2. CASE CopyLow
  BY <1>2 DEF CopyLow, txVars
<1>3. CASE CopyHigh \/ Dispatch
  BY <1>3 DEF CopyHigh, Dispatch, rxVars, txVars, Headers
<1>4. CASE Spin0 \/ Take0 \/ SwapTxBuffers \/ SwapRxBuffers \/ Release0
  BY <1>4 DEF Spin0, Take0, SwapTxBuffers, SwapRxBuffers, Release0, rxVars, txVars
<1>5. CASE SetHeader
  BY <1>5 DEF SetHeader, rxVars
<1>6. CASE Notify \/ Reply
  BY <1>6 DEF Notify, Reply, rxVars, txVars
<1>7. CASE Tick \/ BaseTick
  <2>1. UNCHANGED <<c0, pkt, rxBuffer, txBuffer, rxHeader, txHeader>>
    BY <1>7 DEF Tick, BaseTick, Spin1, Take1, Fetch, ReadEnable, ReadFreq, StoreFeedback,
       Release1, rxVars, txVars, c0Vars
  <2>2. QED
    BY <2>1
<1>8. CASE Reset
  <2>1. /\ UNCHANGED <<c0, pkt, rxBuffer, txBuffer, txHeader>>
        /\ \A b \in Bufs : rxHeader'[b] \in {rxHeader[b], "zero"}
    BY <1>8 DEF Reset, ResetBegin, ResetByte, rxVars, txVars, c0Vars
  <2>2. QED
    BY <2>1
<1>9. CASE UNCHANGED vars
  BY <1>9 DEF vars, rxVars, txVars, c0Vars
<1>10. QED
  BY <1>1, <1>2, <1>3, <1>4, <1>5, <1>6, <1>7, <1>8, <1>9 DEF Next, Core0, Callback

PromiseInv == TypeOK /\ CommandInv /\ PointerInv /\ AnswerInv

PromiseStep == Promise!HostNext \/ UNCHANGED Promise!hostVars

\* What each command asks of the joints is a command of HostExchange.
LEMMA AskedType ==
  /\ \A c : Asked(c).raced = c.raced
  /\ \A c \in InForce : \A h \in {"read", "writ", "othr"} :
       Promised(h, c) \in Promise!Requests
  /\ Asked(NoWrite) = Promise!NoCommand
  /\ Promised("none", NoWrite) = Promise!NoRequest
<1>1. \A c \in InForce : Asked(c) \in Promise!HostCommands
  BY DEF Asked, InForce, Promise!HostCommands, Direction
<1>2. Asked(NoWrite) = Promise!NoCommand
  BY DEF Asked, Swapped, NoWrite, NoCommand, Promise!NoCommand
<1>3. QED
  BY <1>1, <1>2 DEF Asked, Promised, Promise!Requests, Promise!NoRequest

LEMMA ReceiveAsks ==
  ASSUME PromiseInv, TypeOK', NEW p \in Packets, Receive(p)
  PROVE  PromiseStep
<1>1. PICK c : c = IF p.header = "writ" THEN Swapped(p.cmd, raced')
                                         ELSE NoWrite
  OBVIOUS
<1>2. PICK r : r = Promised(p.header, c)
  OBVIOUS
<1>3. r \in Promise!Requests
  <2>1. c \in InForce /\ p.header \in {"read", "writ", "othr"}
    BY <1>1, CommandType DEF Packets, TypeOK, Headers, NoWrite
  <2>2. QED
    BY <1>2, <2>1, AskedType
<1>4. r.cmd.raced => left # {}
  <2>1. c.raced => left # {}
    BY <1>1 DEF Swapped, NoWrite, Receive
  <2>2. r.cmd.raced = c.raced
    BY <1>2, AskedType DEF Promised
  <2>3. QED
    BY <2>1, <2>2
<1>5. /\ c0 = "poll" /\ c0' = "copyLow" /\ pkt' = p /\ reply'.header = "none"
      /\ UNCHANGED <<force, prior, overtaken, left, rawCount>>
  BY DEF Receive, NoReply, c1Vars, rstVars
<1>6. Promise!Ask
  <2>1. AtHand = Promise!NoRequest /\ AtHand' = r
    BY <1>1, <1>2, <1>5, AskedType DEF AtHand
  <2>2. QED
    BY <1>3, <1>4, <1>5, <2>1 DEF Promise!Ask
<1>7. QED
  BY <1>6 DEF PromiseStep, Promise!HostNext

\* The stages of a callback after its swap.
Applied == {"release", "header", "notify", "reply"}

LEMMA HiddenStep ==
  ASSUME UNCHANGED <<pkt, reply, raced, force, prior, left, rawCount>>,
         c0 # "poll", c0' # "poll",
         c0' \in Applied <=> c0 \in Applied,
         overtaken' /\ c0' # "swapRx" <=> overtaken /\ c0 # "swapRx"
  PROVE  PromiseStep
BY DEF PromiseStep, Promise!hostVars, Applied, AtHand

\* Before a swap and after it the callback changes nothing the host can see.
LEMMA CallbackStutters ==
  ASSUME PromiseInv,
         \/ CopyLow \/ CopyHigh \/ Dispatch \/ Spin0 \/ Take0 \/ Release0
         \/ SetHeader \/ Notify \/ (SwapTxBuffers /\ pkt.header = "writ")
  PROVE  PromiseStep
<1>1. /\ UNCHANGED <<pkt, reply, raced, force, prior, left, rawCount>>
      /\ c0 # "poll" /\ c0' # "poll"
      /\ c0' \in Applied <=> c0 \in Applied
  BY DEF CopyLow, CopyHigh, Dispatch, Spin0, Take0, Release0, SetHeader, Notify,
     SwapTxBuffers, Applied, c1Vars, rstVars, history
<1>2. overtaken' /\ c0' # "swapRx" <=> overtaken /\ c0 # "swapRx"
  <2>1. CASE SwapTxBuffers /\ pkt.header = "writ"
    BY <2>1 DEF SwapTxBuffers, PromiseInv, PointerInv, Held, Copied
  <2>2. CASE \/ CopyLow \/ CopyHigh \/ Dispatch \/ Spin0 \/ Take0 \/ Release0
             \/ SetHeader \/ Notify
    BY <2>2 DEF CopyLow, CopyHigh, Dispatch, Spin0, Take0, Release0, SetHeader, Notify,
       history
  <2>3. QED
    BY <2>1, <2>2
<1>3. QED
  BY <1>1, <1>2, HiddenStep

LEMMA SwapTakesEffect ==
  ASSUME PromiseInv, TypeOK', SwapRxBuffers \/ (SwapTxBuffers /\ pkt.header # "writ")
  PROVE  PromiseStep
<1>1. pkt.header \in {"read", "writ"} /\ (SwapRxBuffers => pkt.header = "writ")
  BY DEF PromiseInv, AnswerInv, Handled, CommandInv, CopyInv, SwapRxBuffers, SwapTxBuffers
<1>2. /\ c0 \in {"swapRx", "swapTx"} /\ c0' = "release"
      /\ UNCHANGED <<pkt, reply, raced, left, rawCount>>
      /\ IF pkt.header = "writ" THEN force' = Swapped(pkt.cmd, raced) /\ prior' = force
                                ELSE UNCHANGED <<force, prior>>
  BY <1>1 DEF SwapRxBuffers, SwapTxBuffers, c1Vars, rstVars
<1>3. PICK l \in BOOLEAN : l = overtaken'
  BY DEF TypeOK
<1>4. (overtaken /\ c0 # "swapRx")' = l
  BY <1>2, <1>3
<1>5. /\ AtHand' = AtHand /\ AtHand.header = pkt.header
      /\ pkt.header = "writ" => AtHand.cmd = Asked(Swapped(pkt.cmd, raced))
  BY <1>2 DEF AtHand, Promised
<1>6. Promise!TakeEffect(l)
  BY <1>1, <1>2, <1>4, <1>5 DEF Promise!TakeEffect
<1>7. QED
  BY <1>6 DEF PromiseStep, Promise!HostNext

LEMMA ReplyAnswers ==
  ASSUME PromiseInv, Reply
  PROVE  PromiseStep
<1>1. pkt.header \in Headers
  BY CommandType DEF PromiseInv, TypeOK
<1>2. Promise!Answer
  <2>1. c0 \in {"reply", "drop"} /\ c0' = "poll" /\ UNCHANGED <<force, prior, overtaken, left, rawCount>>
    BY DEF Reply, c1Vars, rstVars, history
  <2>2. c0 = "drop" => reply'.header = "empty"
    BY DEF Reply, NoReply
  <2>3. c0 = "reply" => reply'.header = IF pkt.header = "writ" THEN "ackn" ELSE "data"
    BY DEF Reply, Sent, PromiseInv, AnswerInv
  <2>4. AtHand' = Promise!NoRequest
    BY <2>1, AskedType DEF AtHand
  <2>5. AtHand.header = pkt.header /\ AtHand # Promise!NoRequest
    <3>1. AtHand.header = pkt.header
      BY <2>1 DEF AtHand, Promised
    <3>2. Promise!NoRequest.header = "none"
      BY DEF Promise!NoRequest
    <3>3. QED
      BY <1>1, <3>1, <3>2 DEF Headers
  <2>6. QED
    BY <1>1, <2>1, <2>2, <2>3, <2>4, <2>5
    DEF Promise!Answer, Headers
<1>3. QED
  BY <1>2 DEF PromiseStep, Promise!HostNext

\* A step obeys the command in force, or its predecessor once the swap is over.
LEMMA ReadFreqSteps ==
  ASSUME PromiseInv, ReadFreq
  PROVE  PromiseStep
<1>0. UNCHANGED <<c0, pkt, reply, raced, force, prior, overtaken, left>>
  BY DEF ReadFreq, c0Vars, rstVars, history
<1>1. CASE UNCHANGED rawCount
  BY <1>0, <1>1 DEF PromiseStep, Promise!hostVars, AtHand
<1>2. CASE rawCount' # rawCount
  <2>1. PICK j \in Joints : rawCount'[j] # rawCount[j]
    BY <1>2 DEF PromiseInv, TypeOK, ReadFreq
  <2>2. PICK c \in {force} \cup (IF overtaken /\ c0 # "swapRx" THEN {prior} ELSE {}) :
          /\ j \in c.enable
          /\ c.freq[j] # Zero
          /\ \E way \in Ways(c, j) :
               rawCount' = [rawCount EXCEPT ![j] = rawCount[j] + way]
    BY <2>1, StepWay DEF PromiseInv, StepInv
  <2>3. /\ Asked(c).way[j] = Direction(c.freq[j]) /\ Asked(c).way[j] # 0
        /\ Asked(c).raced = c.raced
    BY <2>2 DEF Asked, Direction
  <2>4. PICK way \in Ways(c, j) : rawCount' = [rawCount EXCEPT ![j] = rawCount[j] + way]
    BY <2>2
  <2>5. way \in {Asked(c).way[j]} \cup (IF Promise!Damaged(Asked(c)) THEN {1} ELSE {})
    BY <2>3 DEF Ways, Torn, Promise!Damaged
  <2>6. Asked(c) = Asked(force) \/ (overtaken /\ c0 # "swapRx" /\ Asked(c) = Asked(prior))
    BY <2>2
  <2>7. Promise!StepJoint(j, Asked(c))
    BY <1>0, <2>3, <2>4, <2>5, <2>6 DEF Promise!StepJoint, AtHand
  <2>8. QED
    BY <2>6, <2>7 DEF PromiseStep, Promise!HostNext
<1>3. QED
  BY <1>1, <1>2

LEMMA CoreOneStutters ==
  ASSUME PromiseInv,
         \/ Tick \/ Spin1 \/ Take1 \/ ReadEnable \/ StoreFeedback
         \/ (\E j \in Joints : Fetch(j)) \/ UNCHANGED vars
  PROVE  PromiseStep
<1>1. UNCHANGED <<c0, pkt, reply, raced, force, prior, overtaken, left, rawCount>>
  BY DEF Tick, Spin1, Take1, ReadEnable, StoreFeedback, Fetch, c0Vars, c1Vars,
     rstVars, history, vars
<1>2. QED
  BY <1>1 DEF PromiseStep, Promise!hostVars, AtHand

\* The first byte and the last turn a reset on and off, the others are hidden.
LEMMA ResetShows ==
  ASSUME PromiseInv, Reset
  PROVE  PromiseStep
<1>1. UNCHANGED <<c0, pkt, reply, raced, force, prior, overtaken, rawCount>>
  BY DEF Reset, ResetBegin, ResetByte, c0Vars, c1Vars, history
<1>2. CASE (left' # {}) = (left # {})
  BY <1>1, <1>2 DEF PromiseStep, Promise!hostVars, AtHand
<1>3. CASE (left' # {}) = ~(left # {})
  <2>1. Promise!ResetTurns
    BY <1>1, <1>3 DEF Promise!ResetTurns, AtHand
  <2>2. QED
    BY <2>1 DEF PromiseStep, Promise!HostNext
<1>4. QED
  BY <1>2, <1>3

LEMMA ReleaseEndsTick ==
  ASSUME Release1
  PROVE  PromiseStep
<1>1. ~overtaken' /\ UNCHANGED <<c0, pkt, reply, raced, force, prior, left, rawCount>>
  BY DEF Release1, c0Vars, rstVars
<1>2. Promise!TickOver
  BY <1>1 DEF Promise!TickOver, AtHand
<1>3. QED
  BY <1>2 DEF PromiseStep, Promise!HostNext

\* DataExchange implements HostExchange: what the host is told is what
\* happened, and nothing else moves a joint (remora.cpp:849-923,
\* stepgen.cpp:78-123), provided a tick ends before core 0 has handled two
\* datagrams.
THEOREM PromiseKept ==
  ASSUME ShortTicks
  PROVE  Spec => KeepsPromise
<1>1. Init => Promise!HostInit
  <2> SUFFICES ASSUME Init PROVE Promise!HostInit
    OBVIOUS
  <2>1. c0 = "poll" /\ reply.header = "none" /\ overtaken = FALSE /\ left = {}
        /\ force = NoWrite /\ prior = NoWrite
        /\ rawCount = [j \in Joints |-> 0]
    BY DEF Init, NoReply
  <2>2. /\ AtHand = Promise!NoRequest
        /\ Asked(force) = Promise!NoCommand /\ Asked(prior) = Promise!NoCommand
    BY <2>1, AskedType DEF AtHand
  <2>3. QED
    BY <2>1, <2>2 DEF Promise!HostInit
<1>2. Init => ForceInv /\ CopyInv /\ PointerInv /\ AnswerInv
  BY CommandInit DEF Init, PointerInv, Reading, C1Locked, AnswerInv, Handled, Held, Copied
<1>3. TypeOK /\ TypeOK' /\ (ForceInv /\ CopyInv /\ PointerInv /\ AnswerInv)
        /\ [Next]_vars
        => (ForceInv /\ CopyInv /\ PointerInv /\ AnswerInv)'
  BY CommandStep, PointerStep, AnswerStep DEF StepInv, CommandInv
<1>4. TypeOK /\ TypeOK' /\ ForceInv /\ CopyInv /\ PointerInv /\ AnswerInv
        /\ [Next]_vars => PromiseStep
  BY ReceiveAsks, CallbackStutters, SwapTakesEffect, ReplyAnswers, ReadFreqSteps,
     CoreOneStutters, ResetShows, ReleaseEndsTick
  DEF PromiseInv, CommandInv, Next, Core0, Callback, BaseTick
<1>5. TypeOK /\ TypeOK' /\ ForceInv /\ CopyInv /\ PointerInv /\ AnswerInv
        /\ [Next]_vars => [Promise!HostNext]_(Promise!hostVars)
  BY <1>4 DEF PromiseStep
<1>6. QED
  BY <1>1, <1>2, <1>3, <1>5, TypeCorrect, PTL DEF Spec, KeepsPromise, Promise!HostSpec
=============================================================================
