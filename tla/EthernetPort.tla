---------------------------- MODULE EthernetPort ----------------------------
(***************************************************************************)
(* Frames between the W5500's receive ring (socket 0, MACRAW) and lwIP:    *)
(* EthernetTasks (remora.cpp), recv_lwip and send_lwip (w5x00_lwip.c) and  *)
(* the registers they read (w5500.c), with the packet buffers each frame   *)
(* costs until the callback that got it gives them back.  The chip adds    *)
(* frames at any moment, also between the reads of the two bytes of a      *)
(* register.  lwIP itself is external: it puts fragments together, hands a *)
(* datagram to the callback of its port, and asserts.                      *)
(***************************************************************************)
EXTENDS Integers, Sequences

CONSTANTS
  Frames,        \* the frames that may arrive
  Radix,         \* the values of a byte; a register or pointer has two bytes
  RxMax,         \* the size of the receive ring in bytes
  PackSize,      \* the size of "pack", ETHERNET_MTU
  PoolSize,      \* pbufs in the pool
  TransferPcbs,  \* UDP control blocks left for transfers
  MaxFrames      \* bound: how many frames arrive

HeadLen == 2
Mod == Radix * Radix

ASSUME PortAssumption ==
  /\ Radix \in Nat \ {0} /\ RxMax \in Nat /\ RxMax < Mod
  /\ PackSize \in Nat
  /\ PoolSize \in Nat \ {0} /\ TransferPcbs \in Nat /\ MaxFrames \in Nat

\* A frame is for LinuxCNC's port, for port 69, the last block of a transfer or an
\* earlier one, or what lwIP uses itself or rejects.  It is a whole datagram, some
\* fragment of one, or the fragment that may end one.
Kinds == {"request", "tftp", "block", "last", "other"}
Parts == {"whole", "some", "end"}

ASSUME FramesAssumption ==
  Frames \subseteq [kind : Kinds, part : Parts, len : 1 .. PackSize]

VARIABLES
  rx, rd, wr, arrived,  \* the ring's frames and where each begins, its pointers;
                        \* frames so far
  pc, caller,           \* core 0; who called getSn_RX_RSR
  val, val1,            \* its locals
  len, packLen, frame,  \* pack_len as polled and in recv_lwip; what is in pack
  pool, pcbs,           \* pbufs and control blocks that are free
  open,                 \* transfers that are open
  held, kept, lost      \* pbufs in use by the frame at hand, kept by lwIP as
                        \* fragments, and (history) never given back

chipVars == <<rx, rd, wr, arrived>>
sizeVars == <<caller, val, val1, len>>
poolVars == <<pool, pcbs, open, held, kept, lost>>
portVars == <<chipVars, pc, sizeVars, packLen, frame, poolVars>>

PortTypeOK ==
  /\ rx \in Seq([frame : Frames, at : 0 .. Mod - 1]) /\ arrived \in 0 .. MaxFrames
  /\ {rd, wr, val, val1, len, packLen} \subseteq 0 .. Mod - 1
  /\ pc \in {"high", "low", "high2", "low2", "head", "body", "take", "input", "deliver",
             "send", "stopped"}
  /\ caller \in {"EthernetTasks", "recv_lwip"}
  /\ frame \in Frames
  /\ {pool, held, kept, lost} \subseteq 0 .. PoolSize
  /\ {pcbs, open} \subseteq 0 .. TransferPcbs

PortInit ==
  /\ rx = <<>> /\ rd = 0 /\ wr = 0 /\ arrived = 0
  /\ pc = "high" /\ caller = "EthernetTasks" /\ val = 0 /\ val1 = 0
  /\ len = 0 /\ packLen = 0 /\ frame \in Frames
  /\ pool = PoolSize /\ pcbs = TransferPcbs /\ open = 0
  /\ held = 0 /\ kept = 0 /\ lost = 0

Unwrapped(p, n) == p + n  \* a mutant: a pointer wider than its register
Advance(p, n) == (p + n) % Mod

\* The chip: a frame that fits goes, behind its head, into the ring.
SizeOf(f) == f.len + HeadLen
ReceivedSize == (wr - rd) % Mod

Arrive(f) ==
  /\ arrived < MaxFrames
  /\ ReceivedSize + SizeOf(f) <= RxMax
  /\ arrived' = arrived + 1
  /\ rx' = Append(rx, [frame |-> f, at |-> wr]) /\ wr' = Advance(wr, SizeOf(f))
  /\ UNCHANGED <<rd, pc, sizeVars, packLen, frame, poolVars>>

-----------------------------------------------------------------------------
(***************************************************************************)
(* getSn_RX_RSR: the two bytes of the register are two accesses.  The value*)
(* is read until two readings agree, except that a first reading of 0 is   *)
(* compared with what the last round found.  EthernetTasks takes it for    *)
(* pack_len, recv_lwip only tests it.                                      *)
(***************************************************************************)
SizeFrame == UNCHANGED <<chipVars, packLen, frame, poolVars>>

HighByte == (ReceivedSize \div Radix) * Radix
LowByte == ReceivedSize % Radix

Return(v) ==
  /\ val' = 0 /\ val1' = 0
  /\ IF caller = "EthernetTasks" /\ v > 0
     THEN caller' = "recv_lwip" /\ len' = v /\ pc' = "high"
     ELSE /\ caller' = "EthernetTasks" /\ UNCHANGED len
          /\ pc' = IF v > 0 THEN "head" ELSE "high"

ReadHigh ==
  /\ pc = "high" /\ pc' = "low"
  /\ val1' = HighByte
  /\ UNCHANGED <<caller, val, len>> /\ SizeFrame

ReadLow ==
  /\ pc = "low"
  /\ \/ val1 + LowByte # 0
        /\ pc' = "high2" /\ val1' = val1 + LowByte /\ UNCHANGED <<caller, val, len>>
     \/ val1 + LowByte = 0 /\ val = 0 /\ Return(0)
     \/ val1 + LowByte = 0 /\ val # 0
        /\ pc' = "high" /\ UNCHANGED <<caller, val, val1, len>>
  /\ SizeFrame

ReadHigh2 ==
  /\ pc = "high2" /\ pc' = "low2"
  /\ val' = HighByte
  /\ UNCHANGED <<caller, val1, len>> /\ SizeFrame

Believed(v) == TRUE  \* a mutant: the value is read once
Agreed(v) == v = val1

ReadLow2 ==
  /\ pc = "low2"
  /\ \/ Agreed(val + LowByte) /\ Return(val1)
     \/ ~Agreed(val + LowByte)
        /\ pc' = "high" /\ val' = val + LowByte /\ UNCHANGED <<caller, val1, len>>
  /\ SizeFrame

ReadSize == ReadHigh \/ ReadLow \/ ReadHigh2 \/ ReadLow2

-----------------------------------------------------------------------------
(***************************************************************************)
(* recv_lwip: the head, which counts itself, then as many bytes as it says *)
(* -- or none, if that is more than len.  Each RECV takes effect before    *)
(* the next access over the slow bus.                                      *)
(***************************************************************************)
WithHead(f) == SizeOf(f)  \* a mutant: the head's own length is not taken off
DataLen(f) == SizeOf(f) - HeadLen

ReadHead ==
  /\ pc = "head" /\ pc' = "body"
  /\ packLen' = DataLen(Head(rx).frame)
  /\ rd' = Advance(rd, HeadLen)
  /\ UNCHANGED <<rx, wr, arrived, sizeVars, frame, poolVars>>

Ignored == packLen > len

ReadBody ==
  /\ pc = "body"
  /\ rx' = Tail(rx) /\ rd' = Advance(rd, packLen)
  /\ caller' = "EthernetTasks"
  /\ \/ Ignored /\ pc' = "high" /\ UNCHANGED frame
     \/ ~Ignored /\ pc' = "take" /\ frame' = Head(rx).frame
  /\ UNCHANGED <<wr, arrived, val, val1, len, packLen, poolVars>>

-----------------------------------------------------------------------------
(***************************************************************************)
(* The rest of EthernetTasks.  Without a pbuf the frame is forgotten; with *)
(* one it goes to lwIP, which passes a whole datagram to the callback of   *)
(* its port.  The callback gives it back after the reply, if there is      *)
(* memory for one; lwIP gives back what it rejects, or EthernetTasks does. *)
(* Three returns of the TFTP server give nothing back.                     *)
(***************************************************************************)
CoreFrame == UNCHANGED <<chipVars, sizeVars, packLen, frame>>

WaitForPbuf ==  \* a mutant
  /\ pc = "take"
  /\ \/ pool > 0 /\ pc' = "input" /\ pool' = pool - 1 /\ held' = 1
     \/ pool = 0 /\ UNCHANGED <<pc, pool, held>>
  /\ UNCHANGED <<pcbs, open, kept, lost>> /\ CoreFrame

TakePbuf ==
  /\ pc = "take"
  /\ \/ pool > 0 /\ pc' = "input" /\ pool' = pool - 1 /\ held' = 1
     \/ pool = 0 /\ pc' = "high" /\ UNCHANGED <<pool, held>>
  /\ UNCHANGED <<pcbs, open, kept, lost>> /\ CoreFrame

OnlyReply == pool + held - 1  \* a mutant: the frame's own pbuf is kept
AllHeld == pool + held

GiveBack == pc' = "high" /\ pool' = AllHeld /\ held' = 0 /\ UNCHANGED lost

\* lwIP keeps a fragment, or has no room for it, until the datagram is complete: its
\* fragments are one chain of pbufs.
Reassemble ==
  /\ pc = "input"
  /\ \/ frame.part = "whole" /\ pc' = "deliver" /\ UNCHANGED <<pool, held, kept, lost>>
     \/ frame.part = "end" /\ pc' = "deliver"
        /\ \E n \in 1 .. kept : held' = held + n /\ kept' = kept - n
        /\ UNCHANGED <<pool, lost>>
     \/ frame.part # "whole" /\ pc' = "high"
        /\ held' = 0 /\ kept' = kept + held /\ UNCHANGED <<pool, lost>>
     \/ frame.part # "whole" /\ GiveBack /\ UNCHANGED kept
  /\ UNCHANGED <<pcbs, open>> /\ CoreFrame

\* udp_data_callback: the reply is taken from the heap, which may be full.  Then
\* pbuf_free(NULL) fails lwIP's assertion, which may stop the core, before the
\* request is given back.
Request ==
  /\ frame.kind = "request"
  /\ \/ pc' \in {"send", "stopped"} /\ UNCHANGED <<pool, held, lost>>
     \/ GiveBack
  /\ UNCHANGED <<pcbs, open>>

\* IAP_tftp_send_ack_packet: the acknowledgement comes from the pool.
Acknowledge ==
  \/ pool > 0 /\ pc' = "send" /\ pool' = pool - 1 /\ held' = held + 1 /\ UNCHANGED lost
  \/ pool = 0 /\ GiveBack

\* The returns without pbuf_free.
Lose == pc' = "high" /\ held' = 0 /\ lost' = lost + held /\ UNCHANGED pool

\* IAP_tftp_recv_callback: a control block that is had but cannot be bound is lost
\* as well; it is removed if the packet is no write request or there is no memory
\* for the transfer.
NoControlBlock ==
  /\ frame.kind = "tftp" /\ pcbs = 0
  /\ Lose /\ UNCHANGED <<pcbs, open>>

BindFails ==
  /\ frame.kind = "tftp" /\ pcbs > 0
  /\ pcbs' = pcbs - 1 /\ Lose /\ UNCHANGED open

OpenTransfer ==
  /\ frame.kind = "tftp" /\ pcbs > 0
  /\ \/ pcbs' = pcbs - 1 /\ open' = open + 1 /\ Acknowledge
     \/ GiveBack /\ UNCHANGED <<pcbs, open>>

\* IAP_wrq_recv_callback takes no chain.
OfTransfer == frame.kind \in {"block", "last"} /\ open > 0
Chained == held > 1

ChainReceived == OfTransfer /\ Chained /\ Lose /\ UNCHANGED <<pcbs, open>>

BlockReceived ==
  /\ OfTransfer /\ ~Chained /\ frame.kind = "block"
  /\ Acknowledge /\ UNCHANGED <<pcbs, open>>

EndTransfer ==
  /\ OfTransfer /\ ~Chained /\ frame.kind = "last"
  /\ pcbs' = pcbs + 1 /\ open' = open - 1 /\ Acknowledge

OtherInput ==
  /\ frame.kind = "other" \/ (frame.kind \in {"block", "last"} /\ open = 0)
  /\ GiveBack /\ UNCHANGED <<pcbs, open>>

Deliver ==
  /\ pc = "deliver"
  /\ \/ Request \/ NoControlBlock \/ BindFails \/ OpenTransfer
     \/ ChainReceived \/ BlockReceived \/ EndTransfer \/ OtherInput
  /\ UNCHANGED kept /\ CoreFrame

\* netif_output and send_lwip, which waits for SENDOK while nothing else happens.
Send ==
  /\ pc = "send"
  /\ GiveBack
  /\ UNCHANGED <<pcbs, open, kept>> /\ CoreFrame

\* The assertion that failed never returns.
Stopped == pc = "stopped" /\ UNCHANGED portVars

\* sys_check_timeouts: lwIP gives up waiting for the rest of a datagram.
TimeOut ==
  /\ pc = "high" /\ caller = "EthernetTasks"
  /\ \E n \in 1 .. kept : pool' = pool + n /\ kept' = kept - n
  /\ UNCHANGED <<pc, pcbs, open, held, lost>> /\ CoreFrame

Core0 ==
  \/ ReadSize \/ ReadHead \/ ReadBody
  \/ TakePbuf \/ Reassemble \/ Deliver \/ Send \/ Stopped

PortNext == (\E f \in Frames : Arrive(f)) \/ Core0 \/ TimeOut

PortSpec == PortInit /\ [][PortNext]_portVars

\* The main loop turns, and the chip reports SENDOK.
PortFairSpec == PortSpec /\ WF_portVars(Core0)

-----------------------------------------------------------------------------
\* The read pointer stays in step with the frames, over any number of them and
\* over the wrap of the pointers: the two bytes taken for a length are the head of
\* the oldest frame, and an empty ring is one in which both pointers meet
\* (w5x00_lwip.c:87-104).
InStep ==
  pc # "body" => rd = IF rx = <<>> THEN wr ELSE Head(rx).at

\* No frame is ignored for its length (w5x00_lwip.c:95-97, "Packet is bigger than
\* buffer - drop the packet"): the length polled covers the oldest frame however
\* the bytes of the register were read while more frames came in.
NoneIgnored == pc = "body" => ~Ignored

\* Each pbuf is free, with the frame at hand, kept by lwIP, or lost: to a packet for
\* port 69 that found no control block (tftpserver.cpp:289-293) or one that could
\* not be bound (tftpserver.cpp:301-305), or to a chained block of a transfer
\* (tftpserver.cpp:165-168).  Nothing else drains the pool, whatever part of a reply
\* could not be had.
PbufsAccounted == pool + held + kept + lost = PoolSize

\* What has arrived is taken out of the ring: core 0 never stops polling, even
\* with an empty pool, unless lwIP's assertion stops it (remora.cpp:919).
RingDrains == <>[](rx = <<>> \/ pc = "stopped")
=============================================================================
