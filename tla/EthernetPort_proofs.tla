------------------------ MODULE EthernetPort_proofs ------------------------
(***************************************************************************)
(* What TLAPS proves of EthernetPort, for any frames, any ring, any pool of*)
(* packet buffers and any number of control blocks.                        *)
(***************************************************************************)
EXTENDS EthernetPort, SequenceTheorems, TLAPS

-----------------------------------------------------------------------------
(***************************************************************************)
(* Division and remainder by a positive number.                            *)
(***************************************************************************)
LEMMA DivBounds ==
  ASSUME NEW d \in Nat \ {0}, NEW x \in Int
  PROVE  /\ x \div d \in Int
         /\ d * (x \div d) <= x
         /\ x < d * (x \div d) + d
OBVIOUS

LEMMA DivRemainder ==
  ASSUME NEW d \in Nat \ {0}, NEW x \in Int
  PROVE  (x % d) = x - d * (x \div d) /\ (x % d) \in 0 .. d - 1
OBVIOUS

\* A quotient and a remainder are the only ones.
LEMMA DivUnique ==
  ASSUME NEW d \in Nat \ {0}, NEW q \in Int, NEW r \in 0 .. d - 1
  PROVE  (d * q + r) \div d = q /\ (d * q + r) % d = r
<1> DEFINE x == d * q + r
           p == x \div d
<1>1. x \in Int /\ d * q <= x /\ x < d * q + d
  OBVIOUS
<1>2. p \in Int /\ d * p <= x /\ x < d * p + d
  BY <1>1, DivBounds
<1>3. (x % d) = x - d * p
  <2> HIDE DEF x
  <2> QED
    BY <1>1, DivRemainder
<1>4. d * (p - q) < d /\ d * (q - p) < d
  <2> HIDE DEF x, p
  <2> QED
    BY <1>1, <1>2
<1>5. p - q < 1 /\ q - p < 1
  <2> HIDE DEF x, p
  <2> QED
    BY <1>2, <1>4
<1>6. p = q
  <2> HIDE DEF x, p
  <2> QED
    BY <1>2, <1>5
<1> QED
  BY <1>3, <1>6

LEMMA DivMonotonic ==
  ASSUME NEW d \in Nat \ {0}, NEW x \in Int, NEW y \in Int, x <= y
  PROVE  x \div d <= y \div d
<1> DEFINE p == x \div d
           q == y \div d
<1>1. p \in Int /\ d * p <= x /\ q \in Int /\ y < d * q + d
  BY DivBounds
<1> HIDE DEF p, q
<1>2. d * (p - q) < d
  BY <1>1
<1>3. p - q < 1
  BY <1>1, <1>2
<1> QED
  BY <1>1, <1>3 DEF p, q

\* A pointer that is advanced wraps as if it had never wrapped before.
LEMMA ModAdd ==
  ASSUME NEW d \in Nat \ {0}, NEW x \in Nat, NEW n \in Nat
  PROVE  ((x % d) + n) % d = (x + n) % d
<1> DEFINE q == x \div d
           p == (x + n) \div d
           t == (x + n) % d
<1>0. x \in Int /\ x + n \in Int
  OBVIOUS
<1>1. q \in Int /\ (x % d) = x - d * q
  BY <1>0, DivBounds, DivRemainder
<1>2. p \in Int /\ t = (x + n) - d * p /\ t \in 0 .. d - 1
  BY <1>0, DivBounds, DivRemainder
<1>3. (x % d) + n = d * (p - q) + t
  <2> HIDE DEF p, q, t
  <2> QED
    BY <1>1, <1>2
<1>4. p - q \in Int
  BY <1>1, <1>2
<1> HIDE DEF p, q, t
<1>5. ((x % d) + n) % d = t
  <2>1. (d * (p - q) + t) % d = t
    BY <1>2, <1>4, DivUnique
  <2> QED
    BY <1>3, <2>1
<1> QED
  BY <1>5 DEF t

\* The distance of two pointers is what lies between them, wrapped or not.
LEMMA ModDistance ==
  ASSUME NEW d \in Nat \ {0}, NEW x \in Nat, NEW n \in 0 .. d - 1
  PROVE  (((x + n) % d) - (x % d)) % d = n
<1> DEFINE q == x \div d
           p == (x + n) \div d
<1>0. x \in Int /\ x + n \in Int
  OBVIOUS
<1>1. q \in Int /\ (x % d) = x - d * q
  BY <1>0, DivBounds, DivRemainder
<1>2. p \in Int /\ (x + n) % d = (x + n) - d * p
  BY <1>0, DivBounds, DivRemainder
<1>3. ((x + n) % d) - (x % d) = d * (q - p) + n
  <2> HIDE DEF p, q
  <2> QED
    BY <1>1, <1>2
<1>4. q - p \in Int
  BY <1>1, <1>2
<1> HIDE DEF p, q
<1> QED
  BY <1>3, <1>4, DivUnique

\* A value put together from the high byte of one reading and the low byte of
\* another is right if a later reading of both bytes, of values that have only
\* grown, gives the same value.
LEMMA AgreedIsRead ==
  ASSUME NEW d \in Nat \ {0}, NEW a \in Nat, NEW b \in Nat, NEW c \in Nat, NEW e \in Nat,
         a <= b, b <= c,
         (a \div d) * d + (b % d) = (c \div d) * d + (e % d)
  PROVE  (a \div d) * d + (b % d) = b
<1> DEFINE p == a \div d
           q == c \div d
           m == b \div d
<1>0. {a, b, c, e} \subseteq Int
  OBVIOUS
<1>1. p \in Int /\ q \in Int /\ m \in Int
  BY <1>0, DivBounds
<1>2. (b % d) \in 0 .. d - 1 /\ (e % d) \in 0 .. d - 1 /\ (b % d) = b - d * m
  BY <1>0, DivRemainder
<1>3. p <= m /\ m <= q
  BY <1>0, DivMonotonic
<1> HIDE DEF p, q, m
<1>4. d * p + (b % d) = d * q + (e % d)
  <2>1. p * d + (b % d) = q * d + (e % d)
    BY DEF p, q
  <2>2. p * d = d * p /\ q * d = d * q
    BY <1>1
  <2> QED
    BY <2>1, <2>2
<1>5. p = q
  <2>1. (d * p + (b % d)) \div d = p
    BY <1>1, <1>2, DivUnique
  <2>2. (d * q + (e % d)) \div d = q
    BY <1>1, <1>2, DivUnique
  <2> QED
    BY <1>4, <2>1, <2>2
<1>6. m = p
  BY <1>1, <1>3, <1>5
<1>7. p * d + (b % d) = b
  BY <1>1, <1>2, <1>6
<1> QED
  BY <1>7 DEF p

-----------------------------------------------------------------------------
USE PortAssumption

(***************************************************************************)
(* Where a frame is, and with it the packet buffers it holds: its own when *)
(* lwIP has it, then those of a whole chain, then one more for the reply.  *)
(***************************************************************************)
WithFrame == {"input", "deliver", "send", "stopped"}

HeldByFrame ==
  /\ pc = "input" => held = 1
  /\ pc \in WithFrame => held >= 1
  /\ pc \notin WithFrame => held = 0

PoolInv ==
  /\ pool \in Nat /\ held \in Nat /\ kept \in Nat /\ lost \in Nat
  /\ HeldByFrame
  /\ PbufsAccounted

\* A control block is free, a transfer's, or lost.
ControlInv == pcbs \in Nat /\ open \in Nat /\ pcbs + open <= TransferPcbs

LEMMA PoolInit == PortInit => PoolInv /\ ControlInv
BY DEF PortInit, PoolInv, HeldByFrame, WithFrame, PbufsAccounted, ControlInv

\* Getting a frame out of the ring touches no buffer.
LEMMA RingKeepsPool ==
  ASSUME PoolInv, UNCHANGED poolVars,
         pc \notin WithFrame, pc' \notin WithFrame
  PROVE  PoolInv'
BY DEF poolVars, PoolInv, HeldByFrame, PbufsAccounted, WithFrame

LEMMA ReassembleStep ==
  ASSUME PoolInv, Reassemble
  PROVE  PoolInv'
<1> USE DEF PoolInv, HeldByFrame, WithFrame, PbufsAccounted
<1>1. pc = "input" /\ held = 1
  BY DEF Reassemble
<1>2. CASE pc' = "deliver" /\ UNCHANGED <<pool, held, kept, lost>>
  BY <1>1, <1>2
<1>3. ASSUME NEW n \in 1 .. kept, pc' = "deliver",
             held' = held + n, kept' = kept - n, UNCHANGED <<pool, lost>>
      PROVE  PoolInv'
  BY <1>1, <1>3
<1>4. CASE pc' = "high" /\ held' = 0 /\ kept' = kept + held /\ UNCHANGED <<pool, lost>>
  BY <1>1, <1>4
<1>5. CASE GiveBack /\ UNCHANGED kept
  BY <1>1, <1>5 DEF GiveBack, AllHeld
<1> QED
  BY <1>2, <1>3, <1>4, <1>5 DEF Reassemble

LEMMA DeliverStep ==
  ASSUME PoolInv, Deliver
  PROVE  PoolInv'
<1> USE DEF PoolInv, HeldByFrame, WithFrame, PbufsAccounted
<1>1. pc = "deliver" /\ held >= 1 /\ kept' = kept
  BY DEF Deliver
<1>2. CASE GiveBack
  BY <1>1, <1>2 DEF GiveBack, AllHeld
<1>3. CASE Acknowledge
  BY <1>1, <1>2, <1>3 DEF Acknowledge
<1>4. CASE Lose
  BY <1>1, <1>4 DEF Lose
<1>5. CASE pc' \in {"send", "stopped"} /\ UNCHANGED <<pool, held, lost>>
  BY <1>1, <1>5
<1> QED
  BY <1>2, <1>3, <1>4, <1>5
     DEF Deliver, Request, NoControlBlock, BindFails, OpenTransfer, ChainReceived,
         BlockReceived, EndTransfer, OtherInput

LEMMA PoolStep == PoolInv /\ [PortNext]_portVars => PoolInv'
<1> SUFFICES ASSUME PoolInv, [PortNext]_portVars
             PROVE  PoolInv'
  OBVIOUS
<1>1. ASSUME NEW f \in Frames, Arrive(f)
      PROVE  PoolInv'
  BY <1>1 DEF Arrive, poolVars, PoolInv, HeldByFrame, PbufsAccounted
<1>2. CASE ReadSize
  <2>1. pc \notin WithFrame /\ pc' \notin WithFrame
    BY <1>2 DEF ReadSize, ReadHigh, ReadLow, ReadHigh2, ReadLow2, Return, WithFrame
  <2>2. UNCHANGED poolVars
    BY <1>2 DEF ReadSize, ReadHigh, ReadLow, ReadHigh2, ReadLow2, SizeFrame
  <2>3. QED
    BY <2>1, <2>2, RingKeepsPool
<1>3. CASE ReadHead \/ ReadBody
  BY <1>3, RingKeepsPool DEF ReadHead, ReadBody, WithFrame
<1>4. CASE TakePbuf
  BY <1>4 DEF TakePbuf, PoolInv, HeldByFrame, WithFrame, PbufsAccounted
<1>5. CASE Send
  BY <1>5 DEF Send, GiveBack, AllHeld, PoolInv, HeldByFrame, WithFrame, PbufsAccounted
<1>6. CASE TimeOut
  BY <1>6 DEF TimeOut, PoolInv, HeldByFrame, WithFrame, PbufsAccounted
<1>7. CASE UNCHANGED portVars
  BY <1>7 DEF portVars, poolVars, PoolInv, HeldByFrame, PbufsAccounted
<1>8. QED
  BY <1>1, <1>2, <1>3, <1>4, <1>5, <1>6, <1>7, ReassembleStep, DeliverStep
     DEF PortNext, Core0, Stopped

LEMMA ControlStep == ControlInv /\ [PortNext]_portVars => ControlInv'
<1> SUFFICES ASSUME ControlInv, [PortNext]_portVars
             PROVE  ControlInv'
  OBVIOUS
<1>1. CASE UNCHANGED <<pcbs, open>>
  BY <1>1 DEF ControlInv
<1>2. CASE Deliver
  <2>1. CASE BindFails
    BY <2>1 DEF BindFails, ControlInv
  <2>2. CASE OpenTransfer
    BY <1>1, <2>2 DEF OpenTransfer, ControlInv
  <2>3. CASE EndTransfer
    BY <2>3 DEF EndTransfer, OfTransfer, ControlInv
  <2> QED
    BY <1>1, <1>2, <2>1, <2>2, <2>3
       DEF Deliver, Request, NoControlBlock, ChainReceived, BlockReceived, OtherInput
<1> QED
  BY <1>1, <1>2
     DEF PortNext, Core0, Arrive, ReadSize, ReadHigh, ReadLow, ReadHigh2, ReadLow2,
         SizeFrame, ReadHead, ReadBody, TakePbuf, Reassemble, Send, Stopped, TimeOut,
         portVars, poolVars

\* However replies fail for want of memory and however datagrams are fragmented,
\* the pool loses a packet buffer only to the returns of the TFTP server that give
\* nothing back (tftpserver.cpp:165-168, 289-293, 301-305).
THEOREM NoPbufLeaks == PortSpec => []PbufsAccounted
<1>1. PortSpec => []PoolInv
  BY PoolInit, PoolStep, PTL DEF PortSpec
<1>2. PoolInv => PbufsAccounted
  BY DEF PoolInv
<1>3. QED
  BY <1>1, <1>2, PTL

-----------------------------------------------------------------------------
(***************************************************************************)
(* The ring: the frames lie one behind the other, from a place "base" of an*)
(* endless ring on; offset[i] is where the i-th begins, and the last offset*)
(* is the end of them all.                                                 *)
(***************************************************************************)
\* What recv_lwip has taken of the oldest frame: its head.
Taken == IF pc = "body" THEN HeadLen ELSE 0

Offsets == [1 .. Len(rx) + 1 -> Nat]

Layout(base, offset) ==
  /\ offset[1] = 0
  /\ \A i \in 1 .. Len(rx) :
       /\ offset[i+1] = offset[i] + SizeOf(rx[i].frame)
       /\ rx[i].at = (base + offset[i]) % Mod
  /\ \A i, j \in 1 .. Len(rx) + 1 : i <= j => offset[i] <= offset[j]
  /\ offset[Len(rx) + 1] <= RxMax + Taken
  /\ rd = (base + Taken) % Mod
  /\ wr = (base + offset[Len(rx) + 1]) % Mod

RingInv == \E base \in Nat, offset \in Offsets : Layout(base, offset)

LEMMA ModIsPositive == Mod \in Nat \ {0} /\ RxMax < Mod
<1>1. \A n \in Nat \ {0} : n * n \in Nat \ {0}
  OBVIOUS
<1> QED
  BY <1>1 DEF Mod

LEMMA SizeOfFrame ==
  ASSUME NEW f \in Frames
  PROVE  SizeOf(f) \in Nat /\ SizeOf(f) > HeadLen /\ DataLen(f) = SizeOf(f) - HeadLen
BY FramesAssumption DEF SizeOf, DataLen, HeadLen

LEMMA RingTyped ==
  ASSUME PortTypeOK
  PROVE  /\ Len(rx) \in Nat /\ (rx # <<>> <=> Len(rx) > 0)
         /\ \A i \in 1 .. Len(rx) : rx[i].frame \in Frames /\ rx[i].at \in 0 .. Mod - 1
         /\ rx # <<>> => Head(rx) = rx[1] /\ Head(rx).frame \in Frames
<1> DEFINE R == [frame : Frames, at : 0 .. Mod - 1]
<1>1. rx \in Seq(R)
  BY DEF PortTypeOK
<1>2. Len(rx) \in Nat /\ (rx # <<>> <=> Len(rx) > 0)
  BY <1>1, EmptySeq
<1>3. \A i \in 1 .. Len(rx) : rx[i] \in R
  BY <1>1, ElementOfSeq
<1>4. rx # <<>> => Head(rx) = rx[1]
  BY <1>1
<1> QED
  BY <1>2, <1>3, <1>4

\* The bytes in the ring.
LEMMA LayoutSize ==
  ASSUME PortTypeOK, pc = "body" => rx # <<>>,
         NEW base \in Nat, NEW offset \in Offsets, Layout(base, offset)
  PROVE  /\ offset[Len(rx) + 1] \in Nat
         /\ ReceivedSize = offset[Len(rx) + 1] - Taken
         /\ ReceivedSize \in 0 .. RxMax
         /\ rx # <<>> => /\ offset[2] = SizeOf(Head(rx).frame)
                         /\ offset[2] <= offset[Len(rx) + 1]
<1> DEFINE end == offset[Len(rx) + 1]
<1>1. Len(rx) \in Nat /\ (rx # <<>> <=> Len(rx) > 0)
  BY RingTyped
<1>2. end \in Nat /\ end <= RxMax + Taken
  BY <1>1 DEF Offsets, Layout
<1>3. ASSUME rx # <<>>
      PROVE  offset[2] = SizeOf(Head(rx).frame) /\ offset[2] <= end /\ offset[2] > HeadLen
  <2>1. 1 \in 1 .. Len(rx) /\ 2 \in 1 .. Len(rx) + 1 /\ Len(rx) + 1 \in 1 .. Len(rx) + 1
        /\ 2 <= Len(rx) + 1
    BY <1>1, <1>3
  <2>2. offset[1 + 1] = offset[1] + SizeOf(rx[1].frame) /\ offset[1] = 0
    BY <2>1 DEF Layout
  <2>3. offset[2] <= end
    BY <2>1 DEF Layout
  <2>4. rx[1] = Head(rx) /\ Head(rx).frame \in Frames
    BY <1>3, RingTyped
  <2> QED
    BY <2>2, <2>3, <2>4, SizeOfFrame
<1>4. Taken \in Nat /\ Taken <= end
  <2>1. CASE pc = "body"
    <3>1. rx # <<>> /\ Taken = HeadLen
      BY <2>1 DEF Taken
    <3>2. offset[2] <= end /\ offset[2] > HeadLen /\ offset[2] \in Nat
      BY <1>1, <1>3, <3>1 DEF Offsets
    <3> HIDE DEF end
    <3> QED
      BY <3>1, <3>2, <1>2 DEF HeadLen
  <2>2. CASE pc # "body"
    BY <2>2, <1>2 DEF Taken
  <2> QED
    BY <2>1, <2>2
<1>5. wr = ((base + Taken) + (end - Taken)) % Mod /\ rd = (base + Taken) % Mod
  <2>1. wr = (base + end) % Mod /\ rd = (base + Taken) % Mod
    BY DEF Layout
  <2> HIDE DEF end
  <2>2. base + end = (base + Taken) + (end - Taken)
    BY <1>2, <1>4
  <2> QED
    BY <2>1, <2>2
<1>6. base + Taken \in Nat /\ end - Taken \in 0 .. RxMax /\ end - Taken \in 0 .. Mod - 1
  <2> HIDE DEF end
  <2> QED
    BY <1>2, <1>4, ModIsPositive
<1>7. ReceivedSize = end - Taken
  <2> HIDE DEF end
  <2> QED
    BY <1>5, <1>6, ModIsPositive, ModDistance DEF ReceivedSize
<1> QED
  BY <1>2, <1>3, <1>6, <1>7

\* What the register holds: a value in range, nothing if the ring is empty, at
\* least the oldest frame otherwise.
LEMMA RingSize ==
  ASSUME PortTypeOK, RingInv, pc = "body" => rx # <<>>
  PROVE  /\ ReceivedSize \in 0 .. RxMax
         /\ rx = <<>> => ReceivedSize = 0
         /\ rx # <<>> => SizeOf(Head(rx).frame) - Taken <= ReceivedSize
<1>1. PICK base \in Nat, offset \in Offsets : Layout(base, offset)
  BY DEF RingInv
<1>2. /\ ReceivedSize = offset[Len(rx) + 1] - Taken /\ ReceivedSize \in 0 .. RxMax
      /\ offset[Len(rx) + 1] \in Nat
      /\ rx # <<>> => /\ offset[2] = SizeOf(Head(rx).frame)
                      /\ offset[2] <= offset[Len(rx) + 1]
  BY <1>1, LayoutSize
<1>3. rx = <<>> => ReceivedSize = 0
  <2> HAVE rx = <<>>
  <2>1. offset[Len(rx) + 1] = 0 /\ Taken = 0
    <3>1. Len(rx) = 0 /\ pc # "body"
      BY RingTyped, EmptySeq
    <3>2. 0 + 1 = 1 /\ offset[1] = 0
      BY <1>1 DEF Layout
    <3> QED
      BY <3>1, <3>2 DEF Taken
  <2> QED
    BY <2>1, <1>2
<1>4. rx # <<>> => SizeOf(Head(rx).frame) - Taken <= ReceivedSize
  <2> HAVE rx # <<>>
  <2>1. offset[2] \in Nat /\ offset[2] <= offset[Len(rx) + 1]
        /\ offset[2] = SizeOf(Head(rx).frame)
    BY <1>2, RingTyped DEF Offsets
  <2>2. Taken \in Nat
    BY DEF Taken, HeadLen
  <2> QED
    BY <1>2, <2>1, <2>2
<1> QED
  BY <1>2, <1>3, <1>4

\* A step that touches neither the ring nor what has been taken of its head.
LEMMA RingUntouched ==
  ASSUME RingInv, UNCHANGED <<rx, rd, wr>>, Taken' = Taken
  PROVE  RingInv' /\ ReceivedSize' = ReceivedSize
BY DEF RingInv, Offsets, Layout, ReceivedSize

\* A frame that arrives is put behind the others.
LEMMA ArriveKeepsRing ==
  ASSUME PortTypeOK, RingInv, pc = "body" => rx # <<>>, NEW f \in Frames, Arrive(f)
  PROVE  /\ RingInv'
         /\ ReceivedSize' >= ReceivedSize
         /\ rx' # <<>> /\ Len(rx') = Len(rx) + 1
         /\ rx # <<>> => Head(rx') = Head(rx)
         /\ rx' \in Seq([frame : Frames, at : 0 .. Mod - 1])
<1> DEFINE n == Len(rx)
           R == [frame : Frames, at : 0 .. Mod - 1]
           new == [frame |-> f, at |-> wr]
<1>1. PICK base \in Nat, offset \in Offsets : Layout(base, offset)
  BY DEF RingInv
<1> DEFINE end == offset[n + 1]
<1>2. /\ end \in Nat
      /\ ReceivedSize = end - Taken /\ ReceivedSize \in 0 .. RxMax
  BY <1>1, LayoutSize
<1>3. n \in Nat /\ rx \in Seq(R) /\ new \in R
  BY RingTyped DEF PortTypeOK
<1>4. /\ rx' = Append(rx, new) /\ wr' = (wr + SizeOf(f)) % Mod
      /\ UNCHANGED <<rd, pc>> /\ ReceivedSize + SizeOf(f) <= RxMax
  BY DEF Arrive, Advance
<1>5. /\ rx' \in Seq(R) /\ rx' # <<>> /\ Len(rx') = n + 1
      /\ \A i \in 1 .. n : rx'[i] = rx[i]
      /\ rx'[n + 1] = new
  <2> HIDE DEF R, new
  <2> QED
    BY <1>3, <1>4, AppendProperties
<1>6. Taken' = Taken /\ Taken \in Nat
  BY <1>4 DEF Taken, HeadLen
<1>7. SizeOf(f) \in Nat /\ SizeOf(f) > HeadLen
  BY SizeOfFrame
<1>8. wr' = (base + (end + SizeOf(f))) % Mod
  <2>1. wr = (base + end) % Mod
    BY <1>1 DEF Layout
  <2> HIDE DEF end
  <2>2. (((base + end) % Mod) + SizeOf(f)) % Mod = ((base + end) + SizeOf(f)) % Mod
    <3>1. base + end \in Nat
      BY <1>2
    <3> QED
      BY <1>7, <3>1, ModIsPositive, ModAdd
  <2>3. (base + end) + SizeOf(f) = base + (end + SizeOf(f))
    BY <1>2, <1>7
  <2> QED
    BY <1>4, <2>1, <2>2, <2>3
<1>9. PICK longer \in [1 .. n + 2 -> Nat] :
        /\ \A i \in 1 .. n + 1 : longer[i] = offset[i]
        /\ longer[n + 2] = end + SizeOf(f)
  <2> DEFINE o == [i \in 1 .. n + 2 |->
                       IF i <= n + 1 THEN offset[i] ELSE end + SizeOf(f)]
  <2>1. \A i \in 1 .. n + 1 : offset[i] \in Nat
    BY DEF Offsets
  <2>2. end + SizeOf(f) \in Nat
    BY <1>2, <1>7
  <2>3. /\ o \in [1 .. n + 2 -> Nat]
        /\ \A i \in 1 .. n + 1 : o[i] = offset[i]
        /\ o[n + 2] = end + SizeOf(f)
    BY <1>3, <2>1, <2>2
  <2> HIDE DEF o
  <2> QED
    BY <2>3
<1>10. Layout(base, longer)'
  <2>1. longer[1] = 0
    <3>1. 1 \in 1 .. n + 1
      BY <1>1, <1>3
    <3>2. offset[1] = 0
      BY <1>1 DEF Layout
    <3> QED
      BY <1>9, <3>1, <3>2
  <2>2. ASSUME NEW i \in 1 .. n + 1
        PROVE  /\ longer[i+1] = longer[i] + SizeOf(rx'[i].frame)
               /\ rx'[i].at = (base + longer[i]) % Mod
    <3>1. CASE i \in 1 .. n
      <4>1. i + 1 \in 1 .. n + 1
        BY <1>3, <3>1
      <4>2. rx'[i] = rx[i]
        BY <1>5, <3>1
      <4>3. longer[i] = offset[i] /\ longer[i+1] = offset[i+1]
        BY <1>9, <4>1
      <4> QED
        BY <1>1, <3>1, <4>2, <4>3 DEF Layout
    <3>2. CASE i = n + 1
      <4>1. longer[i] = end /\ longer[i+1] = end + SizeOf(f)
        BY <1>3, <1>9, <3>2
      <4>2. rx'[i].frame = f /\ rx'[i].at = wr
        BY <1>5, <3>2
      <4> QED
        BY <1>1, <4>1, <4>2 DEF Layout
    <3> QED
      BY <1>3, <3>1, <3>2
  <2>3. ASSUME NEW i \in 1 .. n + 2, NEW j \in 1 .. n + 2, i <= j
        PROVE  longer[i] <= longer[j]
    <3>1. \A k \in 1 .. n + 1 : longer[k] \in Nat /\ longer[k] <= end
      <4>1. ASSUME NEW k \in 1 .. n + 1
            PROVE  longer[k] \in Nat /\ longer[k] <= end
        <5>1. n + 1 \in 1 .. n + 1 /\ k <= n + 1
          BY <1>3
        <5>2. offset[k] <= end
          BY <1>1, <5>1 DEF Layout
        <5> QED
          BY <1>9, <5>2 DEF Offsets
      <4> QED
        BY <4>1
    <3>2. CASE j \in 1 .. n + 1
      <4>1. i \in 1 .. n + 1
        BY <1>3, <2>3, <3>2
      <4>2. offset[i] <= offset[j]
        BY <1>1, <2>3, <3>2, <4>1 DEF Layout
      <4> QED
        BY <1>9, <3>2, <4>1, <4>2
    <3>3. CASE j = n + 2 /\ i \in 1 .. n + 1
      <4> HIDE DEF end
      <4> QED
        BY <1>2, <1>7, <1>9, <3>1, <3>3
    <3>4. CASE j = n + 2 /\ i = n + 2
      BY <1>9, <3>4
    <3> QED
      BY <1>3, <3>2, <3>3, <3>4
  <2>4. end + SizeOf(f) <= RxMax + Taken
    <3> HIDE DEF end
    <3> QED
      BY <1>2, <1>4, <1>6, <1>7
  <2>5. rd' = (base + Taken') % Mod
    BY <1>1, <1>4, <1>6 DEF Layout
  <2>6. Len(rx') + 1 = n + 2
    BY <1>3, <1>5
  <2> QED
    BY <1>5, <1>6, <1>8, <1>9, <2>1, <2>2, <2>3, <2>4, <2>5, <2>6 DEF Layout
<1>11. longer \in Offsets'
  BY <1>3, <1>5, <1>9 DEF Offsets
<1>12. RingInv'
  BY <1>10, <1>11 DEF RingInv
<1>13. ReceivedSize' >= ReceivedSize
  <2>1. ReceivedSize' = (end + SizeOf(f)) - Taken
    <3>1. wr' = ((base + Taken) + ((end + SizeOf(f)) - Taken)) % Mod
      <4> HIDE DEF end
      <4>1. base + (end + SizeOf(f)) = (base + Taken) + ((end + SizeOf(f)) - Taken)
        BY <1>2, <1>6, <1>7
      <4> QED
        BY <1>8, <4>1
    <3>2. rd' = (base + Taken) % Mod
      BY <1>1, <1>4 DEF Layout
    <3>3. base + Taken \in Nat /\ (end + SizeOf(f)) - Taken \in 0 .. Mod - 1
      <4> HIDE DEF end
      <4> QED
        BY <1>2, <1>4, <1>6, <1>7, ModIsPositive
    <3> HIDE DEF end
    <3> QED
      BY <3>1, <3>2, <3>3, ModIsPositive, ModDistance DEF ReceivedSize
  <2> HIDE DEF end
  <2> QED
    BY <1>2, <1>6, <1>7, <2>1
<1>14. rx # <<>> => Head(rx') = Head(rx)
  BY <1>3, <1>4, HeadTailAppend
<1> QED
  BY <1>5, <1>12, <1>13, <1>14

\* The head is taken.
LEMMA HeadKeepsRing ==
  ASSUME PortTypeOK, RingInv, rx # <<>>, ReadHead
  PROVE  RingInv'
<1>1. PICK base \in Nat, offset \in Offsets : Layout(base, offset)
  BY DEF RingInv
<1>2. Taken = 0 /\ Taken' = HeadLen /\ UNCHANGED <<rx, wr>> /\ rd' = (rd + HeadLen) % Mod
  BY DEF ReadHead, Taken, Advance
<1>3. rd' = (base + Taken') % Mod
  <2>1. rd = base % Mod
    BY <1>1, <1>2 DEF Layout
  <2>2. ((base % Mod) + HeadLen) % Mod = (base + HeadLen) % Mod
    BY ModIsPositive, ModAdd DEF HeadLen
  <2> QED
    BY <1>2, <2>1, <2>2
<1>4. offset[Len(rx) + 1] <= RxMax + Taken'
  <2>1. offset[Len(rx) + 1] \in Nat
    BY <1>1, <1>2, LayoutSize DEF Taken
  <2>2. offset[Len(rx) + 1] <= RxMax + 0
    BY <1>1, <1>2 DEF Layout
  <2> QED
    BY <1>2, <2>1, <2>2 DEF HeadLen
<1>5. Layout(base, offset)'
  BY <1>1, <1>2, <1>3, <1>4 DEF Layout
<1>6. offset \in Offsets'
  BY <1>2 DEF Offsets
<1> QED
  BY <1>5, <1>6 DEF RingInv

\* The rest of the oldest frame is taken or ignored: the next one begins where the
\* read pointer is then.
LEMMA BodyKeepsRing ==
  ASSUME PortTypeOK, RingInv, rx # <<>>, packLen = DataLen(Head(rx).frame), ReadBody
  PROVE  /\ RingInv'
         /\ rx' \in Seq([frame : Frames, at : 0 .. Mod - 1]) /\ Len(rx') = Len(rx) - 1
<1> DEFINE n == Len(rx)
           R == [frame : Frames, at : 0 .. Mod - 1]
<1>1. PICK base \in Nat, offset \in Offsets : Layout(base, offset)
  BY DEF RingInv
<1> DEFINE size == offset[2]
<1>2. n \in Nat /\ n > 0 /\ rx \in Seq(R) /\ Head(rx).frame \in Frames
  BY RingTyped DEF PortTypeOK
<1>3. /\ pc = "body" /\ pc' # "body" /\ rx' = Tail(rx) /\ wr' = wr
      /\ rd' = (rd + packLen) % Mod
  BY DEF ReadBody, Advance
<1>4. Taken = HeadLen /\ Taken' = 0
  BY <1>3 DEF Taken
<1>5. /\ rx' \in Seq(R) /\ Len(rx') = n - 1
      /\ \A i \in 1 .. n - 1 : rx'[i] = rx[i+1]
  <2> HIDE DEF R
  <2> QED
    BY <1>2, <1>3, HeadTailProperties
<1>6. /\ size = SizeOf(Head(rx).frame) /\ size \in Nat /\ size > HeadLen
      /\ packLen = size - HeadLen /\ offset[n + 1] \in Nat
  BY <1>1, <1>2, <1>3, LayoutSize, SizeOfFrame
<1>7. \A i \in 1 .. n : offset[i+1] \in Nat /\ size <= offset[i+1]
  <2>1. ASSUME NEW i \in 1 .. n
        PROVE  offset[i+1] \in Nat /\ size <= offset[i+1]
    <3>1. 2 \in 1 .. n + 1 /\ i + 1 \in 1 .. n + 1 /\ 2 <= i + 1
      BY <1>2
    <3> QED
      BY <1>1, <3>1 DEF Layout, Offsets
  <2> QED
    BY <2>1
<1>8. PICK rest \in [1 .. n -> Nat] : \A i \in 1 .. n : rest[i] = offset[i+1] - size
  <2> DEFINE o == [i \in 1 .. n |-> offset[i+1] - size]
  <2>1. \A i \in 1 .. n : offset[i+1] - size \in Nat
    <3> HIDE DEF size
    <3> QED
      BY <1>6, <1>7
  <2>2. o \in [1 .. n -> Nat] /\ \A i \in 1 .. n : o[i] = offset[i+1] - size
    BY <2>1
  <2> HIDE DEF o
  <2> QED
    BY <2>2
<1> HIDE DEF size
<1>9. base + size \in Nat
  BY <1>6
<1>10. Layout(base + offset[2], rest)'
  <2>1. rest[1] = 0
    BY <1>2, <1>6, <1>8 DEF size
  <2>2. ASSUME NEW i \in 1 .. n - 1
        PROVE  /\ rest[i+1] = rest[i] + SizeOf(rx'[i].frame)
               /\ rx'[i].at = (base + size + rest[i]) % Mod
    <3>1. i \in 1 .. n /\ i + 1 \in 1 .. n /\ i \in Nat
      <4> HIDE DEF n
      <4> QED
        BY <1>2
    <3>2. rest[i] = offset[i+1] - size /\ rest[i+1] = offset[(i+1)+1] - size
      BY <1>8, <3>1
    <3>3. offset[i+1] \in Nat /\ offset[(i+1)+1] \in Nat
      BY <1>7, <3>1
    <3>4. /\ offset[(i+1)+1] = offset[i+1] + SizeOf(rx[i+1].frame)
          /\ rx[i+1].at = (base + offset[i+1]) % Mod
      BY <1>1, <3>1 DEF Layout
    <3>5. rx'[i] = rx[i+1] /\ rx[i+1].frame \in Frames
      BY <1>5, <3>1, RingTyped
    <3>6. SizeOf(rx[i+1].frame) \in Nat
      BY <3>5, SizeOfFrame
    <3>7. base + size + rest[i] = base + offset[i+1]
      BY <1>6, <3>2, <3>3
    <3>8. rest[i+1] = rest[i] + SizeOf(rx[i+1].frame)
      BY <1>6, <3>2, <3>3, <3>4, <3>6
    <3> QED
      BY <3>4, <3>5, <3>7, <3>8
  <2>3. ASSUME NEW i \in 1 .. n, NEW j \in 1 .. n, i <= j
        PROVE  rest[i] <= rest[j]
    <3>1. i + 1 \in 1 .. n + 1 /\ j + 1 \in 1 .. n + 1 /\ i + 1 <= j + 1
      <4> HIDE DEF n
      <4> QED
        BY <1>2, <2>3
    <3>2. offset[i+1] <= offset[j+1]
      BY <1>1, <3>1 DEF Layout
    <3>3. offset[i+1] \in Nat /\ offset[j+1] \in Nat
      BY <1>7
    <3> QED
      BY <1>6, <1>8, <3>2, <3>3
  <2>4. rest[n] = offset[n + 1] - size
    BY <1>2, <1>8
  <2>5. rest[n] <= RxMax + 0
    <3>1. offset[n + 1] <= RxMax + HeadLen
      BY <1>1, <1>4 DEF Layout
    <3> QED
      BY <1>6, <2>4, <3>1 DEF HeadLen
  <2>6. rd' = (base + size + 0) % Mod
    <3>1. rd = (base + HeadLen) % Mod
      BY <1>1, <1>4 DEF Layout
    <3>2. (((base + HeadLen) % Mod) + packLen) % Mod = ((base + HeadLen) + packLen) % Mod
      <4>1. base + HeadLen \in Nat /\ packLen \in Nat
        BY <1>6 DEF HeadLen
      <4> QED
        BY <4>1, ModIsPositive, ModAdd
    <3>3. (base + HeadLen) + packLen = base + size + 0
      BY <1>6 DEF HeadLen
    <3> QED
      BY <1>3, <3>1, <3>2, <3>3
  <2>7. wr' = (base + size + rest[n]) % Mod
    <3>1. base + size + rest[n] = base + offset[n + 1]
      BY <1>6, <2>4
    <3> QED
      BY <1>1, <1>3, <3>1 DEF Layout
  <2>8. Len(rx') = n - 1 /\ (n - 1) + 1 = n /\ Taken' = 0
    BY <1>2, <1>4, <1>5
  <2> QED
    BY <2>1, <2>2, <2>3, <2>5, <2>6, <2>7, <2>8 DEF Layout, size
<1>11. rest \in Offsets'
  <2>1. Len(rx') + 1 = n
    BY <1>2, <1>5
  <2> QED
    BY <1>8, <2>1 DEF Offsets
<1>12. RingInv'
  BY <1>9, <1>10, <1>11 DEF RingInv, size
<1> QED
  BY <1>5, <1>12

-----------------------------------------------------------------------------
(***************************************************************************)
(* What getSn_RX_RSR has in its hands.  Until core 0 takes the oldest frame*)
(* the register only grows; each byte is that of a value it held then.     *)
(***************************************************************************)
\* A value the register may have held since the last frame was taken.
Possible(b) ==
  /\ b \in Nat /\ b <= ReceivedSize
  /\ b # 0 => rx # <<>> /\ SizeOf(Head(rx).frame) <= b

High(a) == (a \div Radix) * Radix

Reading ==
  /\ pc = "low" => \E a \in Nat : Possible(a) /\ val1 = High(a)
  /\ pc = "high2" => \E a, b \in Nat :
       Possible(a) /\ Possible(b) /\ a <= b /\ val1 = High(a) + (b % Radix)
  /\ pc = "low2" => \E a, b, c \in Nat :
       /\ Possible(a) /\ Possible(b) /\ Possible(c) /\ a <= b /\ b <= c
       /\ val1 = High(a) + (b % Radix) /\ val = High(c)

\* The length EthernetTasks has polled when recv_lwip polls again.
Polled ==
  caller = "recv_lwip" => /\ pc \in {"high", "low", "high2", "low2"}
                          /\ Possible(len) /\ len # 0

\* recv_lwip is at a frame, which the length polled covers.
AtFrame ==
  /\ pc = "head" => rx # <<>> /\ SizeOf(Head(rx).frame) <= len
  /\ pc = "body" => rx # <<>> /\ packLen = DataLen(Head(rx).frame) /\ packLen <= len

PortInv ==
  PortTypeOK /\ PoolInv /\ ControlInv /\ RingInv /\ Reading /\ Polled /\ AtFrame

LEMMA PortInvInit == PortInit => PortInv
<1> SUFFICES ASSUME PortInit PROVE PortInv
  OBVIOUS
<1>1. 0 \in 0 .. Mod - 1
  BY ModIsPositive
<1>2. <<>> \in Seq([frame : Frames, at : 0 .. Mod - 1]) /\ Len(<<>>) = 0
  BY EmptySeq
<1>3. PortTypeOK
  <2>1. {rd, wr, val, val1, len, packLen} \subseteq 0 .. Mod - 1
    BY <1>1 DEF PortInit
  <2> QED
    BY <1>2, <2>1 DEF PortInit, PortTypeOK
<1>4. RingInv
  <2>1. PICK offset \in [1 .. 1 -> Nat] : offset[1] = 0
    <3> DEFINE o == [i \in 1 .. 1 |-> 0]
    <3>1. o \in [1 .. 1 -> Nat] /\ o[1] = 0
      OBVIOUS
    <3> QED
      BY <3>1
  <2>2. Len(rx) = 0 /\ Len(rx) + 1 = 1 /\ Taken = 0
    BY <1>2 DEF PortInit, Taken
  <2>3. 0 % Mod = 0
    <3>1. \A d \in Nat \ {0} : 0 % d = 0
      OBVIOUS
    <3> QED
      BY <3>1, ModIsPositive
  <2>4. Layout(0, offset)
    <3>1. \A i, j \in 1 .. 1 : i = 1 /\ j = 1
      OBVIOUS
    <3>2. ASSUME NEW i \in 1 .. 1, NEW j \in 1 .. 1
          PROVE  offset[i] <= offset[j]
      BY <2>1, <3>1
    <3>3. 1 .. 0 = {}
      OBVIOUS
    <3> QED
      BY <2>1, <2>2, <2>3, <3>2, <3>3 DEF Layout, PortInit
  <2>5. offset \in Offsets
    BY <2>2 DEF Offsets
  <2> QED
    BY <2>4, <2>5 DEF RingInv
<1> QED
  BY <1>2, <1>3, <1>4, PoolInit
     DEF PortInv, PortInit, Reading, Polled, AtFrame

\* The register, when no head has been taken from the ring.
LEMMA Register ==
  ASSUME PortInv, pc # "body"
  PROVE  /\ ReceivedSize \in Nat /\ Possible(ReceivedSize)
         /\ HighByte = High(ReceivedSize)
<1>1. Taken = 0
  BY DEF Taken
<1>2. /\ ReceivedSize \in 0 .. RxMax
      /\ rx = <<>> => ReceivedSize = 0
      /\ rx # <<>> => SizeOf(Head(rx).frame) - Taken <= ReceivedSize
  BY RingSize DEF PortInv
<1>3. rx # <<>> => SizeOf(Head(rx).frame) \in Nat
  BY RingTyped, SizeOfFrame DEF PortInv
<1> QED
  BY <1>1, <1>2, <1>3 DEF Possible, HighByte, High

\* Two bytes make a value in range.
LEMMA BytesTyped ==
  ASSUME NEW a \in 0 .. RxMax, NEW b \in Nat
  PROVE  High(a) \in 0 .. Mod - 1 /\ High(a) + (b % Radix) \in 0 .. Mod - 1
<1> DEFINE p == a \div Radix
           r == b % Radix
<1>1. Radix \in Nat \ {0} /\ a \in Int /\ a >= 0 /\ b \in Int /\ a < Radix * Radix
  BY ModIsPositive DEF Mod
<1>2. p \in Int /\ Radix * p <= a /\ a < Radix * p + Radix /\ r \in 0 .. Radix - 1
  BY <1>1, DivBounds, DivRemainder
<1> HIDE DEF p, r
<1>3. p >= 0
  <2>1. Radix * (p + 1) > 0
    BY <1>1, <1>2
  <2>2. p + 1 > 0
    BY <1>1, <1>2, <2>1
  <2> QED
    BY <1>2, <2>2
<1>4. p < Radix
  <2>1. Radix * (p - Radix) < 0
    BY <1>1, <1>2
  <2> QED
    BY <1>1, <1>2, <2>1
<1>5. p * Radix >= 0 /\ p * Radix <= Radix * Radix - Radix
  <2>1. (Radix - 1 - p) * Radix >= 0 /\ p * Radix >= 0
    BY <1>1, <1>2, <1>3, <1>4
  <2> QED
    BY <1>1, <1>2, <2>1
<1>6. p * Radix \in Int /\ Radix * Radix \in Int
  BY <1>1, <1>2
<1>7. p * Radix \in 0 .. Radix * Radix - 1 /\ p * Radix + r \in 0 .. Radix * Radix - 1
  BY <1>1, <1>2, <1>5, <1>6
<1> QED
  BY <1>7 DEF High, Mod, p, r

\* What was possible stays so while the register only grows.
LEMMA StillPossible ==
  ASSUME ReceivedSize \in Nat, ReceivedSize' \in Nat, ReceivedSize' >= ReceivedSize,
         rx # <<>> => rx' # <<>> /\ Head(rx') = Head(rx)
  PROVE  /\ \A b \in Nat : Possible(b) => Possible(b)'
         /\ len' = len => (Possible(len) => Possible(len)')
BY DEF Possible

LEMMA ReadingKept ==
  ASSUME Reading, Polled, AtFrame, UNCHANGED <<pc, caller, val, val1, len, packLen>>,
         \A b \in Nat : Possible(b) => Possible(b)',
         Possible(len) => Possible(len)',
         rx # <<>> => rx' # <<>> /\ Head(rx') = Head(rx)
  PROVE  Reading' /\ Polled' /\ AtFrame'
<1>1. Reading'
  <2>1. pc = "low" => \E a \in Nat : Possible(a)' /\ val1 = High(a)
    BY DEF Reading
  <2>2. pc = "high2" => \E a, b \in Nat :
          Possible(a)' /\ Possible(b)' /\ a <= b /\ val1 = High(a) + (b % Radix)
    BY DEF Reading
  <2>3. pc = "low2" => \E a, b, c \in Nat :
          /\ Possible(a)' /\ Possible(b)' /\ Possible(c)' /\ a <= b /\ b <= c
          /\ val1 = High(a) + (b % Radix) /\ val = High(c)
    BY DEF Reading
  <2> QED
    BY <2>1, <2>2, <2>3 DEF Reading, High
<1>2. Polled'
  BY DEF Polled
<1>3. AtFrame'
  BY DEF AtFrame
<1> QED
  BY <1>1, <1>2, <1>3

\* The end of getSn_RX_RSR, with a value the register has held.
LEMMA ReturnPolls ==
  ASSUME PortInv, NEW v \in Nat, Possible(v), Return(v),
         pc \in {"low", "low2"},
         \A b \in Nat : Possible(b) => Possible(b)',
         len' = len /\ Possible(len) => Possible(len)', UNCHANGED <<rx, packLen>>
  PROVE  Reading' /\ Polled' /\ AtFrame'
<1>1. Reading'
  BY DEF Return, Reading
<1>2. CASE caller = "EthernetTasks" /\ v > 0
  <2>1. caller' = "recv_lwip" /\ len' = v /\ pc' = "high"
    BY <1>2 DEF Return
  <2>2. Possible(v)'
    OBVIOUS
  <2>3. len' \in Nat /\ len' <= ReceivedSize'
        /\ (len' # 0 => rx' # <<>> /\ SizeOf(Head(rx').frame) <= len')
    BY <2>1, <2>2 DEF Possible
  <2>4. Possible(len)'
    BY <2>3 DEF Possible, SizeOf
  <2> QED
    BY <1>1, <1>2, <2>1, <2>4 DEF Polled, AtFrame
<1>3. CASE ~(caller = "EthernetTasks" /\ v > 0)
  <2>1. caller' = "EthernetTasks" /\ len' = len /\ pc' = IF v > 0 THEN "head" ELSE "high"
    BY <1>3 DEF Return
  <2>2. ASSUME v > 0
        PROVE  rx # <<>> /\ SizeOf(Head(rx).frame) <= len
    <3>1. caller = "recv_lwip"
      BY <1>3, <2>2 DEF PortInv, PortTypeOK
    <3> QED
      BY <3>1 DEF PortInv, Polled, Possible
  <2> QED
    BY <1>1, <2>1, <2>2 DEF Polled, AtFrame, SizeOf
<1> QED
  BY <1>2, <1>3

LEMMA ReadSizeStep ==
  ASSUME PortInv, ReadSize
  PROVE  /\ RingInv' /\ Reading' /\ Polled' /\ AtFrame'
         /\ {val', val1', len'} \subseteq 0 .. Mod - 1
<1>1. /\ UNCHANGED <<chipVars, packLen>> /\ pc \in {"high", "low", "high2", "low2"}
      /\ pc' \in {"high", "low", "high2", "low2", "head"}
  BY DEF ReadSize, ReadHigh, ReadLow, ReadHigh2, ReadLow2, Return, SizeFrame
<1>2. UNCHANGED <<rx, rd, wr>> /\ Taken' = Taken
  BY <1>1 DEF chipVars, Taken
<1>3. RingInv' /\ ReceivedSize' = ReceivedSize
  BY <1>2, RingUntouched DEF PortInv
<1>4. /\ ReceivedSize \in Nat /\ Possible(ReceivedSize)
      /\ HighByte = High(ReceivedSize) /\ LowByte = ReceivedSize % Radix
  BY <1>1, Register DEF LowByte
<1>5. \A b \in Nat : Possible(b) => Possible(b)'
  BY <1>2, <1>3, <1>4, StillPossible
<1>6. len' = len /\ Possible(len) => Possible(len)'
  BY <1>2, <1>3, <1>4, StillPossible
<1>7. /\ \A b \in Nat : Possible(b) => b \in 0 .. RxMax /\ b <= ReceivedSize
      /\ {val, val1, len} \subseteq 0 .. Mod - 1 /\ 0 \in 0 .. Mod - 1
  <2>1. ReceivedSize \in 0 .. RxMax
    BY RingSize DEF PortInv, AtFrame
  <2> QED
    BY <2>1, ModIsPositive DEF PortInv, PortTypeOK, Possible
<1>8. CASE ReadHigh
  <2>1. /\ pc' = "low" /\ val1' = High(ReceivedSize)
        /\ UNCHANGED <<caller, val, len>>
    BY <1>4, <1>8 DEF ReadHigh
  <2>2. Possible(ReceivedSize)' /\ ReceivedSize' \in Nat
    BY <1>3, <1>4, <1>5
  <2>3. Reading'
    <3>1. \E a \in Nat : Possible(a)' /\ val1' = High(a)
      BY <1>3, <1>4, <1>5, <2>1
    <3> QED
      BY <2>1, <3>1 DEF Reading, High
  <2>4. val1' \in 0 .. Mod - 1
    BY <1>4, <1>7, <2>1, BytesTyped
  <2> QED
    BY <1>1, <1>2, <1>3, <1>6, <1>7, <2>1, <2>3, <2>4 DEF PortInv, Polled, AtFrame
<1>9. CASE ReadLow
  <2>1. PICK a \in Nat : Possible(a) /\ val1 = High(a)
    BY <1>9 DEF ReadLow, PortInv, Reading
  <2>2. a <= ReceivedSize /\ a \in 0 .. RxMax
    BY <1>7, <2>1
  <2>3. val1 + LowByte \in 0 .. Mod - 1
    BY <1>4, <2>1, <2>2, BytesTyped
  <2>4. CASE /\ pc' = "high2" /\ val1' = val1 + LowByte
             /\ UNCHANGED <<caller, val, len>>
    <3>1. \E x, y \in Nat : Possible(x)' /\ Possible(y)' /\ x <= y
                            /\ val1' = High(x) + (y % Radix)
      BY <1>4, <1>5, <2>1, <2>2, <2>4
    <3>2. Reading'
      BY <2>4, <3>1 DEF Reading, High
    <3> QED
      BY <1>3, <1>6, <1>7, <2>3, <2>4, <3>2 DEF PortInv, Polled, AtFrame
  <2>5. CASE Return(0)
    <3>1. Possible(0)
      BY <1>4 DEF Possible
    <3>2. Reading' /\ Polled' /\ AtFrame'
      BY <1>2, <1>1, <1>5, <1>6, <1>9, <2>5, <3>1, ReturnPolls DEF ReadLow
    <3>3. val' = 0 /\ val1' = 0 /\ len' = len
      BY <2>5 DEF Return
    <3> QED
      BY <1>3, <1>7, <3>2, <3>3
  <2>6. CASE pc' = "high" /\ UNCHANGED <<caller, val, val1, len>>
    BY <1>3, <1>6, <1>7, <2>6 DEF PortInv, Reading, Polled, AtFrame
  <2> QED
    BY <1>9, <2>4, <2>5, <2>6 DEF ReadLow
<1>10. CASE ReadHigh2
  <2>1. /\ pc = "high2" /\ pc' = "low2" /\ val' = High(ReceivedSize)
        /\ UNCHANGED <<caller, val1, len>>
    BY <1>4, <1>10 DEF ReadHigh2
  <2>2. PICK a \in Nat, b \in Nat :
          Possible(a) /\ Possible(b) /\ a <= b /\ val1 = High(a) + (b % Radix)
    BY <2>1 DEF PortInv, Reading
  <2>3. b <= ReceivedSize
    BY <1>7, <2>2
  <2>4. \E x, y, z \in Nat :
          /\ Possible(x)' /\ Possible(y)' /\ Possible(z)' /\ x <= y /\ y <= z
          /\ val1' = High(x) + (y % Radix) /\ val' = High(z)
    BY <1>4, <1>5, <2>1, <2>2, <2>3
  <2>5. Reading'
    BY <2>1, <2>4 DEF Reading, High
  <2>6. val' \in 0 .. Mod - 1
    BY <1>4, <1>7, <2>1, BytesTyped
  <2> QED
    BY <1>3, <1>6, <1>7, <2>1, <2>5, <2>6 DEF PortInv, Polled, AtFrame
<1>11. CASE ReadLow2
  <2>1. PICK a \in Nat, b \in Nat, c \in Nat :
          /\ Possible(a) /\ Possible(b) /\ Possible(c) /\ a <= b /\ b <= c
          /\ val1 = High(a) + (b % Radix) /\ val = High(c)
    BY <1>11 DEF ReadLow2, PortInv, Reading
  <2>2. val + LowByte \in 0 .. Mod - 1
    BY <1>4, <1>7, <2>1, BytesTyped
  <2>3. CASE Agreed(val + LowByte) /\ Return(val1)
    <3>1. High(a) + (b % Radix) = High(c) + (ReceivedSize % Radix)
      BY <1>4, <2>1, <2>3 DEF Agreed
    <3>2. val1 = b
      BY <1>4, <2>1, <3>1, AgreedIsRead DEF High
    <3>3. Reading' /\ Polled' /\ AtFrame'
      BY <1>1, <1>2, <1>5, <1>6, <1>11, <2>1, <2>3, <3>2, ReturnPolls DEF ReadLow2
    <3>4. val' = 0 /\ val1' = 0 /\ (len' = len \/ len' = val1)
      BY <2>3 DEF Return
    <3> QED
      BY <1>3, <1>7, <3>3, <3>4
  <2>4. CASE pc' = "high" /\ val' = val + LowByte /\ UNCHANGED <<caller, val1, len>>
    BY <1>3, <1>6, <1>7, <2>2, <2>4 DEF PortInv, Reading, Polled, AtFrame
  <2> QED
    BY <1>11, <2>3, <2>4 DEF ReadLow2
<1> QED
  BY <1>8, <1>9, <1>10, <1>11 DEF ReadSize

\* Any step keeps the invariant; core 0 touches the ring only in ReadHead and
\* ReadBody.
LEMMA PortStep == PortInv /\ [PortNext]_portVars => PortInv'
<1> SUFFICES ASSUME PortInv, [PortNext]_portVars PROVE PortInv'
  OBVIOUS
<1>0. PortTypeOK /\ PoolInv /\ RingInv /\ Reading /\ Polled /\ AtFrame /\ ControlInv
  BY DEF PortInv
<1>1. PoolInv' /\ ControlInv'
  BY <1>0, PoolStep, ControlStep
<1>2. /\ {pool', held', kept', lost'} \subseteq 0 .. PoolSize
      /\ {pcbs', open'} \subseteq 0 .. TransferPcbs
  <2>1. /\ pool' \in Nat /\ held' \in Nat /\ kept' \in Nat /\ lost' \in Nat
        /\ pool' + held' + kept' + lost' = PoolSize
    BY <1>1 DEF PoolInv, PbufsAccounted
  <2>2. \A a, b, c, d \in Nat : a + b + c + d = PoolSize =>
          a \in 0 .. PoolSize /\ b \in 0 .. PoolSize /\ c \in 0 .. PoolSize /\ d \in 0 .. PoolSize
    OBVIOUS
  <2>3. /\ pool' \in 0 .. PoolSize /\ held' \in 0 .. PoolSize
        /\ kept' \in 0 .. PoolSize /\ lost' \in 0 .. PoolSize
    BY <2>1, <2>2
  <2>4. pcbs' \in Nat /\ open' \in Nat /\ pcbs' + open' <= TransferPcbs
    BY <1>1 DEF ControlInv
  <2>5. pcbs' \in 0 .. TransferPcbs /\ open' \in 0 .. TransferPcbs
    <3>1. \A a, b \in Nat : a + b <= TransferPcbs => a \in 0 .. TransferPcbs /\ b \in 0 .. TransferPcbs
      OBVIOUS
    <3> QED
      BY <2>4, <3>1
  <2> QED
    BY <2>3, <2>5
<1>3. ASSUME RingInv', Reading', Polled', AtFrame',
             rx' \in Seq([frame : Frames, at : 0 .. Mod - 1]),
             arrived' \in 0 .. MaxFrames,
             {rd', wr', val', val1', len', packLen'} \subseteq 0 .. Mod - 1,
             pc' \in {"high", "low", "high2", "low2", "head", "body", "take", "input",
                     "deliver", "send", "stopped"},
             caller' \in {"EthernetTasks", "recv_lwip"},
             frame' \in Frames
      PROVE  PortInv'
  <2>1. PortTypeOK'
    BY <1>2, <1>3 DEF PortTypeOK
  <2> QED
    BY <1>1, <1>3, <2>1 DEF PortInv
<1>4. pc = "body" => rx # <<>>
  BY <1>0 DEF AtFrame
<1>5. /\ Len(rx) \in Nat /\ Mod \in Nat \ {0}
      /\ {rd, wr, len, packLen} \subseteq 0 .. Mod - 1
      /\ arrived \in Nat
  BY <1>0, RingTyped, ModIsPositive DEF PortTypeOK
<1>6. ASSUME NEW f \in Frames, Arrive(f)
      PROVE  PortInv'
  <2>1. /\ RingInv' /\ ReceivedSize' >= ReceivedSize
        /\ rx' # <<>> /\ Len(rx') = Len(rx) + 1
        /\ rx # <<>> => Head(rx') = Head(rx)
        /\ rx' \in Seq([frame : Frames, at : 0 .. Mod - 1])
    BY <1>0, <1>4, <1>6, ArriveKeepsRing
  <2>2. /\ arrived' = arrived + 1 /\ arrived < MaxFrames
        /\ UNCHANGED <<rd, pc, caller, val, val1, len, packLen, frame>>
        /\ wr' = (wr + SizeOf(f)) % Mod
    BY <1>6 DEF Arrive, Advance, sizeVars, poolVars
  <2>3. ReceivedSize \in Nat /\ ReceivedSize' \in Nat
    <3>1. ReceivedSize \in 0 .. RxMax
      BY <1>0, <1>4, RingSize
    <3>2. ReceivedSize' \in Int
      <4>1. /\ wr + SizeOf(f) \in Int /\ rd' \in Int /\ Mod \in Nat \ {0}
        BY <1>5, <2>2, SizeOfFrame
      <4>2. wr' \in Int
        BY <2>2, <4>1, DivRemainder
      <4>3. wr' - rd' \in Int
        BY <4>1, <4>2
      <4> QED
        BY <4>1, <4>3, DivRemainder DEF ReceivedSize
    <3> QED
      BY <2>1, <3>1, <3>2
  <2>4. Reading' /\ Polled' /\ AtFrame'
    BY <1>0, <2>1, <2>2, <2>3, StillPossible, ReadingKept
  <2>5. wr' \in 0 .. Mod - 1
    <3>1. wr + SizeOf(f) \in Int
      BY <1>5, SizeOfFrame
    <3> QED
      BY <1>5, <2>2, <3>1, DivRemainder
  <2> QED
    BY <1>0, <1>3, <2>1, <2>2, <2>4, <2>5 DEF PortTypeOK
<1>7. CASE ReadSize
  <2>1. /\ RingInv' /\ Reading' /\ Polled' /\ AtFrame'
        /\ {val', val1', len'} \subseteq 0 .. Mod - 1
    BY <1>7, ReadSizeStep
  <2>2. /\ UNCHANGED <<rx, rd, wr, arrived, packLen, frame>>
        /\ pc \in {"high", "low", "high2", "low2"}
        /\ pc' \in {"high", "low", "high2", "low2", "head"}
        /\ caller' \in {caller, "EthernetTasks", "recv_lwip"}
    BY <1>7 DEF ReadSize, ReadHigh, ReadLow, ReadHigh2, ReadLow2, Return, SizeFrame,
                chipVars, poolVars
  <2> QED
    BY <1>0, <1>3, <2>1, <2>2 DEF PortTypeOK
<1>8. CASE ReadHead
  <2>1. /\ pc = "head" /\ pc' = "body" /\ packLen' = DataLen(Head(rx).frame)
        /\ rd' = (rd + HeadLen) % Mod
        /\ UNCHANGED <<rx, wr, arrived, caller, val, val1, len, frame>>
    BY <1>8 DEF ReadHead, Advance, sizeVars, poolVars
  <2>2. rx # <<>> /\ SizeOf(Head(rx).frame) <= len /\ Head(rx).frame \in Frames
    BY <1>0, <2>1, RingTyped DEF AtFrame
  <2>3. RingInv'
    BY <1>0, <1>8, <2>2, HeadKeepsRing
  <2>4. DataLen(Head(rx).frame) \in 0 .. Mod - 1 /\ DataLen(Head(rx).frame) <= len
    <3>1. len \in 0 .. Mod - 1
      BY <1>5
    <3>2. /\ SizeOf(Head(rx).frame) \in Nat /\ SizeOf(Head(rx).frame) > HeadLen
          /\ DataLen(Head(rx).frame) = SizeOf(Head(rx).frame) - HeadLen
      BY <2>2, SizeOfFrame
    <3> QED
      BY <1>5, <2>2, <3>1, <3>2 DEF HeadLen
  <2>5. Reading' /\ Polled' /\ AtFrame'
    BY <1>0, <2>1, <2>2, <2>4 DEF Reading, Polled, AtFrame, DataLen, SizeOf
  <2>6. rd' \in 0 .. Mod - 1
    <3>1. rd + HeadLen \in Int
      BY <1>5 DEF HeadLen
    <3> QED
      BY <1>5, <2>1, <3>1, DivRemainder
  <2> QED
    BY <1>0, <1>3, <2>1, <2>3, <2>4, <2>5, <2>6 DEF PortTypeOK
<1>9. CASE ReadBody
  <2>1. /\ pc = "body" /\ pc' \in {"high", "take"} /\ caller' = "EthernetTasks"
        /\ rd' = (rd + packLen) % Mod
        /\ frame' \in {frame, Head(rx).frame}
        /\ UNCHANGED <<wr, arrived, val, val1, len, packLen>>
    BY <1>9 DEF ReadBody, Advance, poolVars
  <2>2. rx # <<>> /\ packLen = DataLen(Head(rx).frame) /\ Head(rx).frame \in Frames
    BY <1>0, <2>1, RingTyped DEF AtFrame
  <2>3. /\ RingInv' /\ Len(rx') = Len(rx) - 1
        /\ rx' \in Seq([frame : Frames, at : 0 .. Mod - 1])
    BY <1>0, <1>9, <2>2, BodyKeepsRing
  <2>4. Reading' /\ Polled' /\ AtFrame'
    BY <2>1 DEF Reading, Polled, AtFrame
  <2>5. rd' \in 0 .. Mod - 1
    <3>1. rd + packLen \in Int
      BY <1>5
    <3> QED
      BY <1>5, <2>1, <3>1, DivRemainder
  <2> QED
    BY <1>0, <1>3, <2>1, <2>2, <2>3, <2>4, <2>5 DEF PortTypeOK
<1>10. CASE TakePbuf \/ Reassemble \/ Deliver \/ Send \/ TimeOut
  <2>1. /\ UNCHANGED <<rx, rd, wr, arrived, caller, val, val1, len, packLen, frame>>
        /\ \/ UNCHANGED pc /\ pc = "high" /\ caller = "EthernetTasks"
           \/ /\ pc \in {"take", "input", "deliver", "send"}
              /\ pc' \in {"high", "input", "deliver", "send", "stopped"}
    <3>1. CASE TakePbuf
      BY <3>1 DEF TakePbuf, CoreFrame, chipVars, sizeVars
    <3>2. CASE Reassemble
      BY <3>2 DEF Reassemble, GiveBack, CoreFrame, chipVars, sizeVars
    <3>3. CASE Deliver
      BY <3>3 DEF Deliver, Request, NoControlBlock, BindFails, OpenTransfer,
                  ChainReceived, BlockReceived, EndTransfer, OtherInput, Acknowledge,
                  Lose, GiveBack, CoreFrame, chipVars, sizeVars
    <3>4. CASE Send
      BY <3>4 DEF Send, GiveBack, CoreFrame, chipVars, sizeVars
    <3>5. CASE TimeOut
      BY <3>5 DEF TimeOut, CoreFrame, chipVars, sizeVars
    <3> QED
      BY <1>10, <3>1, <3>2, <3>3, <3>4, <3>5
  <2>2. Taken' = Taken
    BY <2>1 DEF Taken
  <2>3. RingInv'
    BY <1>0, <2>1, <2>2, RingUntouched
  <2>4. Reading' /\ Polled' /\ AtFrame'
    BY <1>0, <2>1 DEF Reading, Polled, AtFrame
  <2> QED
    BY <1>0, <1>3, <2>1, <2>3, <2>4 DEF PortTypeOK
<1>11. CASE UNCHANGED portVars
  <2>1. UNCHANGED <<rx, rd, wr, arrived, pc, caller, val, val1, len, packLen, frame>>
    BY <1>11 DEF portVars, chipVars, sizeVars
  <2>2. RingInv' /\ ReceivedSize' = ReceivedSize
    BY <1>0, <2>1, RingUntouched DEF Taken
  <2>3. Reading' /\ Polled' /\ AtFrame'
    BY <1>0, <2>1, <2>2 DEF Reading, Polled, AtFrame, Possible, High, SizeOf, DataLen
  <2> QED
    BY <1>0, <1>3, <2>1, <2>2, <2>3 DEF PortTypeOK
<1> QED
  BY <1>6, <1>7, <1>8, <1>9, <1>10, <1>11 DEF PortNext, Core0, Stopped

LEMMA PortInvariant == PortSpec => []PortInv
BY PortInvInit, PortStep, PTL DEF PortSpec

\* Every pointer and length of the frame path stays in its range.
THEOREM PortTypeCorrect == PortSpec => []PortTypeOK
<1>1. PortInv => PortTypeOK
  BY DEF PortInv
<1> QED
  BY <1>1, PortInvariant, PTL

\* Over any number of frames of any lengths, and over any number of wraps, the
\* read pointer is at the head of the oldest frame whenever recv_lwip is not in
\* the middle of it (w5x00_lwip.c:87-104).
THEOREM StaysInStep == PortSpec => []InStep
<1>1. ASSUME PortInv PROVE InStep
  <2> SUFFICES ASSUME pc # "body"
               PROVE  rd = IF rx = <<>> THEN wr ELSE Head(rx).at
    BY DEF InStep
  <2>1. PICK base \in Nat, offset \in Offsets : Layout(base, offset)
    BY <1>1 DEF PortInv, RingInv
  <2>2. /\ Len(rx) \in Nat /\ (rx # <<>> <=> Len(rx) > 0)
        /\ rx # <<>> => Head(rx) = rx[1]
    BY <1>1, RingTyped DEF PortInv
  <2>3. offset[1] = 0 /\ rd = base % Mod
    BY <2>1 DEF Layout, Taken
  <2>4. CASE rx = <<>>
    <3>1. Len(rx) + 1 = 1
      BY <2>2, <2>4
    <3>2. wr = base % Mod
      BY <2>1, <2>3, <3>1 DEF Layout
    <3> QED
      BY <2>3, <2>4, <3>2
  <2>5. CASE rx # <<>>
    <3>1. rx[1].at = base % Mod
      BY <2>1, <2>2, <2>3, <2>5 DEF Layout
    <3> QED
      BY <2>2, <2>3, <2>5, <3>1
  <2> QED
    BY <2>4, <2>5
<1> QED
  BY <1>1, PortInvariant, PTL

\* However the reads of the size register's bytes and the arrivals interleave, the
\* length polled covers the oldest frame, and recv_lwip never ignores one
\* (w5x00_lwip.c:95-97).
THEOREM NoFrameIgnored == PortSpec => []NoneIgnored
<1>1. ASSUME PortInv PROVE NoneIgnored
  <2> SUFFICES ASSUME pc = "body" PROVE ~Ignored
    BY DEF NoneIgnored
  <2>1. packLen <= len
    BY <1>1 DEF PortInv, AtFrame
  <2>2. packLen \in Int /\ len \in Int
    BY <1>1, ModIsPositive DEF PortInv, PortTypeOK
  <2> QED
    BY <2>1, <2>2 DEF Ignored
<1> QED
  BY <1>1, PortInvariant, PTL
=============================================================================
