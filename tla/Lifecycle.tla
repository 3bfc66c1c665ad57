------------------------------ MODULE Lifecycle ------------------------------
(***************************************************************************)
(* ConfigUpload on the machine it happens to: core 0 also answers LinuxCNC *)
(* (udp_data_callback), core 1 sets up, runs base ticks, and is reset by a *)
(* write request at whatever it is doing.  The two meet at the base        *)
(* thread's semaphore and at the objects SETUP creates.  The buffers and   *)
(* the semaphore's races are DataExchange's; here it is taken in one step. *)
(***************************************************************************)
EXTENDS ConfigUpload

VARIABLES
  setup,      \* SETUP is over: baseThread and comms point to their objects
  tick,       \* core 1 is inside pruThread::run, holding the semaphore
  semaphore,  \* of baseThread
  callback,   \* core 0 in udp_data_callback
  cut, early  \* history: core 1 was reset in a tick; a datagram came before setup

machineVars == <<setup, tick, semaphore, callback, cut, early>>
lifeVars == <<uploadVars, machineVars>>

\* "hung": the null pointer led core 0 into a fault or an endless wait.
LifeTypeOK ==
  /\ setup \in BOOLEAN /\ tick \in BOOLEAN /\ semaphore \in BOOLEAN
  /\ callback \in {"out", "wait", "swap", "hung"}
  /\ cut \in BOOLEAN /\ early \in BOOLEAN
  /\ tick => core1 /\ setup

Fresh ==
  /\ setup' = FALSE /\ tick' = FALSE /\ semaphore' = FALSE
  /\ callback' = "out" /\ cut' = FALSE /\ early' = FALSE

LifeInit ==
  /\ UploadInit
  /\ setup = FALSE /\ tick = FALSE /\ semaphore = FALSE
  /\ callback = "out" /\ cut = FALSE /\ early = FALSE

-----------------------------------------------------------------------------
\* Core 1: SETUP and START, then the base ticks.
SetupDone ==
  /\ core1 /\ ~setup
  /\ setup' = TRUE /\ semaphore' = FALSE
  /\ UNCHANGED <<uploadVars, tick, callback, cut, early>>

TickBegins ==
  /\ core1 /\ setup /\ ~tick /\ ~semaphore
  /\ tick' = TRUE /\ semaphore' = TRUE
  /\ UNCHANGED <<uploadVars, setup, callback, cut, early>>

LeaveSemaphore == semaphore  \* a mutant: the clear is missing
Cleared == FALSE

TickOver ==
  /\ tick
  /\ tick' = FALSE /\ semaphore' = Cleared
  /\ UNCHANGED <<uploadVars, setup, callback, cut, early>>

-----------------------------------------------------------------------------
(***************************************************************************)
(* Core 0: a datagram.  Before SETUP is over baseThread is null, and what  *)
(* is read and written through it is whatever the address space holds      *)
(* there; the write through comms may fault.                               *)
(***************************************************************************)
Datagram ==
  /\ main = "poll" /\ callback = "out"
  /\ IF setup THEN callback' = "wait" /\ UNCHANGED early
              ELSE callback' \in {"out", "hung"} /\ early' = TRUE
  /\ UNCHANGED <<uploadVars, setup, tick, semaphore, cut>>

TakeSemaphore ==
  /\ callback = "wait" /\ ~semaphore
  /\ callback' = "swap" /\ semaphore' = TRUE
  /\ UNCHANGED <<uploadVars, setup, tick, cut, early>>

Answer ==
  /\ callback = "swap"
  /\ callback' = "out" /\ semaphore' = Cleared
  /\ UNCHANGED <<uploadVars, setup, tick, cut, early>>

\* The TFTP server runs on the same core: never within a datagram.
KeepsTicking == tick  \* a mutant
TickAfterReset == tick /\ core1'

HandleRequest ==
  /\ callback = "out"
  /\ WriteRequest
  /\ tick' = TickAfterReset /\ cut' = (cut \/ tick # tick')
  /\ UNCHANGED <<setup, semaphore, callback, early>>

HandleBlock(m) ==
  /\ callback = "out"
  /\ ReceiveBlock(m)
  /\ UNCHANGED machineVars

MainLoop ==
  /\ callback = "out"
  /\ \/ (CheckJson \/ EraseStorage \/ ProgramStorage) /\ UNCHANGED machineVars
     \/ Reboot /\ Fresh

\* A host that neither gives up nor repeats a request; those that do, and power
\* failures, are in ConfigUpload's runs.
Host ==
  /\ \/ \E f \in Files : StartUpload(f)
     \/ \E a \in toClient : HearAck(a)
  /\ UNCHANGED machineVars

LifeNext ==
  \/ SetupDone \/ TickBegins \/ TickOver
  \/ Datagram \/ TakeSemaphore \/ Answer
  \/ HandleRequest \/ (\E m \in toServer : HandleBlock(m)) \/ MainLoop
  \/ Host

LifeSpec == LifeInit /\ [][LifeNext]_lifeVars

(***************************************************************************)
(* Core 1 finishes what it does.  Core 0 takes packets in the order the    *)
(* W5500 keeps them, so none waits for ever behind datagrams; the free     *)
(* moments between two ticks are long, so a wait for the semaphore hits    *)
(* one if they keep coming.                                                *)
(***************************************************************************)
LifeFairness ==
  /\ WF_lifeVars(SetupDone) /\ WF_lifeVars(TickOver) /\ WF_lifeVars(Answer)
  /\ SF_lifeVars(TakeSemaphore)
  /\ SF_lifeVars(HandleRequest)
  /\ SF_lifeVars(\E m \in toServer :
                   HandleBlock(m) /\ Expected(conns[m.port], m.packet))
  /\ WF_lifeVars((\E a \in toClient : HearAck(a)) /\ UNCHANGED machineVars)
  /\ SF_lifeVars(MainLoop)

LifeFairSpec == LifeSpec /\ LifeFairness

-----------------------------------------------------------------------------
\* Core 0 is never left waiting for the semaphore (remora.cpp:871, 887), but by
\* a write request that resets core 1 inside a tick (tftpserver.cpp:257), whose
\* flag nobody clears.
AnsweredUnlessCut == callback = "wait" ~> callback # "wait" \/ cut

\* The flag is set only while a core that will clear it runs, or by a tick that
\* was cut off: a reset at any other moment, a failed upload and a reboot leave
\* it clear.
FlagHasOwner == semaphore => tick \/ callback = "swap" \/ cut

\* A good upload, started while core 1 runs, takes effect on a machine that goes
\* on answering LinuxCNC meanwhile (tftpserver.cpp:257, remora.cpp:720-730): core
\* 1 runs again, with the new configuration, unless the reset cut a tick off or a
\* datagram met the null pointers.
TakesEffectUnlessCut ==
  \A f \in Files \ Corrupt :
    client = "request" /\ file = f /\ core1 ~> (core1 /\ config = f) \/ cut \/ early
=============================================================================
