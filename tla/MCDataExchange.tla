--------------------------- MODULE MCDataExchange ---------------------------
(***************************************************************************)
(* Small instances of DataExchange for TLC: words of two bytes of one bit. *)
(***************************************************************************)
EXTENDS DataExchange

Word(low, top) == [i \in WordBytes |-> IF i = 0 THEN low ELSE top]
AllJoints(w, e) == [freq |-> [j \in Joints |-> w], enable |-> e]

\* The second joint has a frequency too, but it is disabled.
FirstBackward == AllJoints(Word(1, 1), {1})
\* Must not be obeyed; and a backward word without its top byte looks the same.
ForwardDisabled == AllJoints(Word(1, 0), {})

BackwardOrDisabled == {FirstBackward, ForwardDisabled}
OnlyForward == {AllJoints(Word(1, 0), Joints)}

(***************************************************************************)
(* The part of a state that can still matter: two states that differ only  *)
(* in a variable that will be written before it is read again (a local of  *)
(* the callback after its return, say) have the same view.  Of the other   *)
(* receive buffer only a WRITE being copied matters, or what a tick that   *)
(* holds a pointer to it will read; of the frequencies only those of the   *)
(* joints enabled, unless the enable bits are still to be copied; and of a *)
(* WRITE in force only that which still enables a joint.                   *)
(***************************************************************************)
When(alive, v) == IF alive THEN v ELSE <<>>

Copying == c0 \in {"copyLow", "copyHigh", "dispatch", "spin", "take", "swapTx", "swapRx"}
Writing == Copying /\ pkt.header = "writ"
OtherBufferMatters ==
  \/ Writing /\ c0 # "copyLow"
  \/ c1 \in {"enable", "freq"} /\ jRx = AltRxBuffer

Obeyable(b) ==
  << rxEnable[b],
     [j \in (IF c0 = "copyHigh" /\ b = rxBuffer THEN Joints ELSE rxEnable[b])
        |-> rxFreq[b][j]] >>

\* The two buffers of a kind differ in their indices only, and no property speaks
\* of an index: a pointer is told by whether it is to the current buffer.
FeedbackInOrder ==
  IF currentTxBuffer = 0 THEN <<txFeedback[0], txFeedback[1]>>
                         ELSE <<txFeedback[1], txFeedback[0]>>

LiveState ==
  << Obeyable(currentRxBuffer),
     When(OtherBufferMatters, Obeyable(AltRxBuffer)),
     When(rxEnable[currentRxBuffer] # {}, force),
     When(c1 \in {"enable", "freq"} /\ jRx = AltRxBuffer, prior),
     semaphore, c0, c1, left, overtaken,
     When(c1 # "hung", <<rawCount, FeedbackInOrder>>),
     When(HostCycle, pkt.header),
     When(c0 \notin {"poll", "hung"}, pkt.header), When(Writing, <<pkt.cmd, raced>>),
     When(c0 \in {"copyHigh", "dispatch"}, rxHeader[rxBuffer]),
     When(c1 \in C1Locked, todo),
     When(c1 \in {"enable", "freq"}, <<joint, jRx = currentRxBuffer>>),
     When(c1 \in {"enable", "freq", "store"}, <<joint, jTx = currentTxBuffer>>),
     When(left # {}, pruRxData = currentRxBuffer) >>
=============================================================================
