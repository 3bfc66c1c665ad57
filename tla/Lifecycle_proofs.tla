-------------------------- MODULE Lifecycle_proofs --------------------------
(***************************************************************************)
(* What TLAPS proves of Lifecycle, for any files, control blocks and number*)
(* of uploads.                                                             *)
(***************************************************************************)
EXTENDS Lifecycle, ConfigUpload_proofs

-----------------------------------------------------------------------------
(***************************************************************************)
(* The machine around an upload takes part in it only by the upload's own  *)
(* steps.                                                                  *)
(***************************************************************************)
LEMMA LifeStepIsUpload ==
  [LifeNext]_lifeVars => [UploadNext]_uploadVars
<1> SUFFICES ASSUME [LifeNext]_lifeVars
             PROVE  UploadNext \/ UNCHANGED uploadVars
  OBVIOUS
<1>1. CASE SetupDone \/ TickBegins \/ TickOver \/ Datagram \/ TakeSemaphore \/ Answer
  BY <1>1 DEF SetupDone, TickBegins, TickOver, Datagram, TakeSemaphore, Answer
<1>2. CASE HandleRequest
  BY <1>2 DEF HandleRequest, UploadNext
<1>3. ASSUME NEW m \in toServer, HandleBlock(m)
      PROVE  UploadNext
  BY <1>3 DEF HandleBlock, UploadNext
<1>4. CASE MainLoop
  BY <1>4 DEF MainLoop, UploadNext
<1>5. CASE Host
  BY <1>5 DEF Host, UploadNext
<1>6. CASE UNCHANGED lifeVars
  BY <1>6 DEF lifeVars
<1>7. QED
  BY <1>1, <1>2, <1>3, <1>4, <1>5, <1>6 DEF LifeNext

\* The whole machine implements the upload: what is proved of ConfigUpload, of
\* its flash and of what a reboot loads, holds of the machine that answers
\* LinuxCNC and loses core 1 meanwhile.
THEOREM LifeIsUpload == LifeSpec => UploadSpec
<1>1. LifeInit => UploadInit
  BY DEF LifeInit
<1>2. QED
  BY <1>1, LifeStepIsUpload, PTL DEF LifeSpec, UploadSpec

-----------------------------------------------------------------------------
(***************************************************************************)
(* Who owns the semaphore.                                                 *)
(***************************************************************************)
OwnerInv == LifeTypeOK /\ FlagHasOwner

LEMMA OwnerInit == LifeInit => OwnerInv
BY DEF LifeInit, OwnerInv, LifeTypeOK, FlagHasOwner

LEMMA OwnerStep ==
  UploadTypeOK /\ UploadTypeOK' /\ OwnerInv /\ [LifeNext]_lifeVars => OwnerInv'
<1> SUFFICES ASSUME UploadTypeOK, UploadTypeOK', OwnerInv, [LifeNext]_lifeVars
             PROVE  OwnerInv'
  OBVIOUS
<1> USE DEF OwnerInv, LifeTypeOK, FlagHasOwner
<1>1. CASE SetupDone
  BY <1>1 DEF SetupDone, uploadVars, serverVars
<1>2. CASE TickBegins
  BY <1>2 DEF TickBegins, uploadVars, serverVars
<1>3. CASE TickOver
  BY <1>3 DEF TickOver, Cleared, uploadVars, serverVars
<1>4. CASE Datagram
  BY <1>4 DEF Datagram, uploadVars, serverVars
<1>5. CASE TakeSemaphore
  BY <1>5 DEF TakeSemaphore, uploadVars, serverVars
<1>6. CASE Answer
  BY <1>6 DEF Answer, Cleared, uploadVars, serverVars
<1>7. CASE HandleRequest
  <2>1. core1' \in BOOLEAN
    BY DEF UploadTypeOK
  <2>2. tick' = (tick /\ core1') /\ cut' = (cut \/ tick # tick')
    BY <1>7 DEF HandleRequest, TickAfterReset
  <2>3. UNCHANGED <<setup, semaphore, callback, early>>
    BY <1>7 DEF HandleRequest
  <2>4. CASE tick /\ ~core1'
    BY <2>2, <2>3, <2>4
  <2>5. CASE ~tick \/ core1'
    BY <2>1, <2>2, <2>3, <2>5
  <2>6. QED
    BY <2>1, <2>4, <2>5
<1>8. ASSUME NEW m \in toServer, HandleBlock(m)
      PROVE  OwnerInv'
  BY <1>8 DEF HandleBlock, ReceiveBlock, machineVars
<1>9. CASE MainLoop
  <2>1. CASE (CheckJson \/ EraseStorage \/ ProgramStorage) /\ UNCHANGED machineVars
    BY <2>1 DEF CheckJson, EraseStorage, ProgramStorage, machineVars
  <2>2. CASE Fresh
    BY <2>2 DEF Fresh
  <2>3. QED
    BY <1>9, <2>1, <2>2 DEF MainLoop
<1>10. CASE Host
  BY <1>10 DEF Host, StartUpload, HearAck, serverVars, machineVars
<1>11. CASE UNCHANGED lifeVars
  BY <1>11 DEF lifeVars, machineVars, uploadVars, serverVars
<1>12. QED
  BY <1>1, <1>2, <1>3, <1>4, <1>5, <1>6, <1>7, <1>8, <1>9, <1>10, <1>11
     DEF LifeNext

\* The base thread's semaphore is set only while a core that will clear it runs,
\* or by a tick that a reset cut off.
THEOREM SemaphoreKeepsOwner == LifeSpec => []FlagHasOwner
<1>1. LifeSpec => []OwnerInv
  <2>1. LifeSpec => []UploadTypeOK
    BY LifeIsUpload, UploadTypeCorrect, PTL
  <2>2. QED
    BY <2>1, OwnerInit, OwnerStep, PTL DEF LifeSpec
<1>2. OwnerInv => FlagHasOwner
  BY DEF OwnerInv
<1>3. QED
  BY <1>1, <1>2, PTL

\* A tick runs only on a core that runs, after SETUP (and the other types).
THEOREM LifeTypeCorrect == LifeSpec => []LifeTypeOK
<1>1. LifeSpec => []OwnerInv
  <2>1. LifeSpec => []UploadTypeOK
    BY LifeIsUpload, UploadTypeCorrect, PTL
  <2>2. QED
    BY <2>1, OwnerInit, OwnerStep, PTL DEF LifeSpec
<1>2. OwnerInv => LifeTypeOK
  BY DEF OwnerInv
<1>3. QED
  BY <1>1, <1>2, PTL

-----------------------------------------------------------------------------
(***************************************************************************)
(* What the upload promises, on the machine it happens to.                 *)
(***************************************************************************)
\* The host of Lifecycle neither gives an upload up nor repeats a request.
LEMMA LifeStepIsSteady ==
  [LifeNext]_lifeVars => [SteadyNext]_uploadVars
<1> SUFFICES ASSUME [LifeNext]_lifeVars
             PROVE  SteadyNext \/ UNCHANGED uploadVars
  OBVIOUS
<1>1. CASE SetupDone \/ TickBegins \/ TickOver \/ Datagram \/ TakeSemaphore \/ Answer
  BY <1>1 DEF SetupDone, TickBegins, TickOver, Datagram, TakeSemaphore, Answer
<1>2. CASE HandleRequest \/ MainLoop
  BY <1>2 DEF HandleRequest, MainLoop, SteadyNext
<1>3. ASSUME NEW m \in toServer, HandleBlock(m)
      PROVE  SteadyNext
  BY <1>3 DEF HandleBlock, SteadyNext
<1>4. CASE Host
  BY <1>4 DEF Host, SteadyNext
<1>5. CASE UNCHANGED lifeVars
  BY <1>5 DEF lifeVars
<1>6. QED
  BY <1>1, <1>2, <1>3, <1>4, <1>5 DEF LifeNext

LEMMA LifeWhole == LifeSpec => []WholeInv
<1>1. LifeInit => WholeInv
  BY WholeInit DEF LifeInit
<1>2. UploadTypeOK /\ WholeInv /\ [LifeNext]_lifeVars => WholeInv'
  BY LifeStepIsSteady, WholeStep
<1>3. QED
  BY <1>1, <1>2, LifeIsUpload, UploadTypeCorrect, PTL DEF LifeSpec

\* A transfer ends only when its whole file is in the upload region
\* (tftpserver.cpp:206), however the network loses, repeats and delays packets,
\* and whatever core 1 and LinuxCNC are at.
THEOREM LifeWholeFileReceived == LifeSpec => []ReceivedWholeFile
<1>1. WholeInv => ReceivedWholeFile
  BY DEF WholeInv
<1>2. QED
  BY <1>1, LifeWhole, PTL

\* If every file fits its region and has one of the StoredLengths, the reboot
\* makes core 1 load what main accepted (remora.cpp:720-730), with datagrams and
\* ticks at any moment.
THEOREM LifeAcceptedLoaded ==
  ASSUME \A f \in Files : Fits(f) /\ JsonLength[f] \in StoredLengths
  PROVE  LifeSpec => AcceptedIsLoaded
BY LifeIsUpload, AcceptedLoaded

\* One transfer at a time needs no more room than its own file.
LEMMA LifeProgramsRegion ==
  ASSUME \A f \in Files : Fits(f), UploadTypeOK, WholeInv,
         NEW m \in toServer, ReceiveBlock(m),
         Expected(conns[m.port], m.packet), HasBytes(m.packet)
  PROVE  writeAddress \in Blocks
<1>1. m.packet \in Packet /\ m.port \in Pcbs /\ conns[m.port].open
  BY ReceivingTransfer
<1>2. /\ m.packet.file = file /\ m.packet.number = conns[m.port].block + 1
      /\ writeAddress = conns[m.port].block + 1
      /\ conns[m.port].block < Packets[file]
  BY <1>1 DEF WholeInv, TransferInv, InTransfer, ClientInv, Expected, UploadTypeOK
<1>3. /\ file \in Files /\ Packets[file] \in Nat
      /\ conns[m.port].block \in Nat
      /\ m.packet = [file |-> file, number |-> writeAddress]
  BY <1>1, <1>2, TwoPackets, ReceivingTransfer DEF UploadTypeOK, Packet
<1>4. writeAddress \in 1 .. Packets[file]
  BY <1>2, <1>3
<1>5. writeAddress \in Filled(file)
  BY <1>3, <1>4 DEF Filled
<1> QED
  BY <1>3, <1>5 DEF Fits

\* If every file fits the upload region, only the move of an accepted upload
\* changes what is stored (configuration.h:40) ...
THEOREM LifeOnlyMoveStores ==
  ASSUME \A f \in Files : Fits(f)
  PROVE  LifeSpec => StorageChangesByMove
<1>1. UploadTypeOK /\ WholeInv /\ [LifeNext]_lifeVars =>
        [storage' # storage => main \in {"erase", "program"}]_uploadVars
  <2> SUFFICES ASSUME UploadTypeOK, WholeInv, SteadyNext
               PROVE  storage' # storage => main \in {"erase", "program"}
    BY LifeStepIsSteady
  <2>1. ASSUME NEW m \in toServer, ReceiveBlock(m)
        PROVE  storage' = storage
    <3>1. CASE Expected(conns[m.port], m.packet) /\ HasBytes(m.packet)
      BY <2>1, <3>1, LifeProgramsRegion DEF ReceiveBlock, ProgramBlock
    <3>2. CASE ~(Expected(conns[m.port], m.packet) /\ HasBytes(m.packet))
      BY <2>1, <3>2 DEF ReceiveBlock
    <3> QED
      BY <3>1, <3>2
  <2> QED
    BY <2>1
       DEF SteadyNext, StartUpload, HearAck, WriteRequest, CheckJson, EraseStorage,
           ProgramStorage, Reboot, PowerFails
<1> QED
  BY <1>1, LifeWhole, LifeIsUpload, UploadTypeCorrect, PTL
     DEF LifeSpec, StorageChangesByMove

\* ... and the flash, the storage region after the upload region included, is
\* programmed only where it is erased (tftpserver.cpp:182, remora.cpp:238-266).
THEOREM LifeFlashRespected ==
  ASSUME \A f \in Files : Fits(f)
  PROVE  LifeSpec => ProgramsErased
<1> DEFINE Erases ==
      /\ writeAddress' > writeAddress =>
           writeAddress \in Blocks /\ upload[writeAddress] = Erased
      /\ main = "program" /\ storage' # storage => storage = Empty
<1>1. UploadTypeOK /\ WholeInv /\ EraseInv /\ EmptiedInv /\ [LifeNext]_lifeVars =>
        [Erases]_uploadVars
  <2> SUFFICES ASSUME UploadTypeOK, WholeInv, EraseInv, EmptiedInv, UploadNext
               PROVE  Erases
    BY LifeStepIsUpload
  <2>1. ASSUME writeAddress' > writeAddress
        PROVE  writeAddress \in Blocks /\ upload[writeAddress] = Erased
    <3>1. PICK m \in toServer : /\ ReceiveBlock(m)
                               /\ Expected(conns[m.port], m.packet)
                               /\ HasBytes(m.packet)
      BY <2>1, MovesOn
    <3>2. writeAddress \in Blocks
      BY <3>1, LifeProgramsRegion
    <3>3. AheadErased
      BY <3>1, ReceivingTransfer DEF EraseInv
    <3> QED
      BY <3>2, <3>3 DEF AheadErased, Blocks
  <2> QED
    BY <2>1 DEF EmptiedInv
<1>2. UploadSpec => [](UploadTypeOK /\ EraseInv /\ EmptiedInv)
  BY UploadTypeCorrect, EraseInit, EraseStep, EmptiedInit, EmptiedStep, PTL
     DEF UploadSpec
<1> QED
  BY <1>1, <1>2, LifeWhole, LifeIsUpload, PTL DEF LifeSpec, ProgramsErased
=============================================================================
