------------------------ MODULE ConfigUpload_proofs ------------------------
(***************************************************************************)
(* What TLAPS proves of ConfigUpload, for any files, any number of control *)
(* blocks, uploads and repeated requests, and a power supply that fails.   *)
(***************************************************************************)
EXTENDS ConfigUpload, FiniteSets, FiniteSetTheorems, TLAPS

-----------------------------------------------------------------------------
(***************************************************************************)
(* The byte counts (StorageLayout), for files of every length.             *)
(***************************************************************************)
LEMMA RemainderOfSmaller ==
  ASSUME NEW k \in Nat, k < 65536
  PROVE  k % 65536 = k
OBVIOUS

\* checkJson (remora.cpp:189-207) sums up the words the script summed up and
\* sent: with the metadata they are the whole upload.
THEOREM SummedUpIsUpload ==
  ASSUME NEW n \in Nat
  PROVE  BlockBytes + SummedUp(n) = UploadLength(n)
<1>1. PICK q \in Nat, r \in 0 .. 3 : n = 4 * q + r
  <2>1. n = 4 * (n \div 4) + (n % 4) /\ n \div 4 \in Nat /\ n % 4 \in 0 .. 3
    OBVIOUS
  <2>2. QED
    BY <2>1
<1>2. n % 4 = r
  BY <1>1
<1>3. CASE r = 0
  BY <1>1, <1>2, <1>3 DEF SummedUp, UploadLength, Words, Padding, BlockBytes
<1>4. CASE r > 0
  BY <1>1, <1>2, <1>4 DEF SummedUp, UploadLength, Words, Padding, BlockBytes
<1>5. QED
  BY <1>3, <1>4

\* The first length that takes a page to the last whose pages a uint8_t counts.
StoredLengths == (PageBytes - 4) .. (255 * PageBytes - 5)

\* moveJson stores a file of such a length whole, with its 16-bit length
\* (remora.cpp:228-267) ...
THEOREM PagesSuffice ==
  ASSUME NEW n \in StoredLengths
  PROVE  StoredWhole(n) /\ ~TakesNoPage(n)
<1> DEFINE full == (n + 4) \div PageBytes
<1>1. n \in Nat /\ n < 65536
  BY DEF StoredLengths, PageBytes
<1>2. full \in 1 .. 254 /\ 256 * (full + 1) >= n + 4
  <2>1. n + 4 \in Nat /\ 256 <= n + 4 /\ n + 4 < 255 * 256
    BY DEF StoredLengths, PageBytes
  <2>2. ASSUME NEW k \in Nat, 256 <= k, k < 255 * 256
        PROVE  k \div 256 \in 1 .. 254 /\ 256 * ((k \div 256) + 1) >= k
    BY <2>2
  <2>3. QED
    BY <2>1, <2>2 DEF PageBytes
<1>3. Pages(n) = full + 1
  <2>1. Pages(n) = IF full > 0 THEN (full + 1) % 256 ELSE 0
    BY DEF Pages
  <2> HIDE DEF full
  <2>2. full > 0 /\ (full + 1) % 256 = full + 1
    BY <1>2
  <2>3. QED
    BY <2>1, <2>2
<1>4. StoredLength(n) = n
  <2>1. n % 65536 = n
    BY <1>1, RemainderOfSmaller
  <2>2. QED
    BY <2>1 DEF StoredLength
<1>5. QED
  <2> HIDE DEF full
  <2>1. QED
    BY <1>1, <1>2, <1>3, <1>4 DEF StoredWhole, TakesNoPage, PageBytes

\* ... and a shorter one not at all: it takes no page.
THEOREM ShortTakesNoPage ==
  ASSUME NEW n \in 0 .. (PageBytes - 5)
  PROVE  TakesNoPage(n)
<1>1. (n + 4) \div PageBytes = 0
  BY DEF PageBytes
<1>2. QED
  BY <1>1 DEF TakesNoPage, Pages

\* checkJson accepts every file that fits its region with the metadata, and
\* moveJson stores it whole, if it takes a page (remora.cpp:183, 228-267) ...
THEOREM FittingIsStored ==
  ASSUME NEW n \in Nat, UploadLength(n) <= RegionBytes
  PROVE  LengthAccepted(n) /\ (n >= PageBytes - 4 => StoredWhole(n))
<1>1. n <= 4 * Words(n) /\ Words(n) \in Nat
  BY DEF Words
<1>2. n <= 32256 /\ Words(n) <= 8064
  BY <1>1 DEF UploadLength, BlockBytes, RegionBytes
<1>3. LengthAccepted(n)
  BY <1>1, <1>2 DEF LengthAccepted, RegionBytes
<1>4. ASSUME n >= PageBytes - 4
      PROVE  n \in StoredLengths
  <2>1. PageBytes = 256
    BY DEF PageBytes
  <2>2. PageBytes - 4 <= n /\ n <= 255 * PageBytes - 5
    BY <1>2, <1>4, <2>1
  <2>3. ASSUME NEW low \in Int, NEW high \in Int, low <= n, n <= high
        PROVE  n \in low .. high
    BY <2>3
  <2>4. PageBytes - 4 \in Int /\ 255 * PageBytes - 5 \in Int
    BY <2>1
  <2> QED
    BY <2>2, <2>3, <2>4, Zenon DEF StoredLengths
<1> QED
  BY <1>3, <1>4, PagesSuffice

\* ... but it compares words with bytes (remora.cpp:183): files of four times
\* that length are accepted as well, though they do not fit.
THEOREM AcceptedMayNotFit ==
  ASSUME NEW n \in 32257 .. 131072
  PROVE  LengthAccepted(n) /\ UploadLength(n) > RegionBytes
<1>1. n \in Nat /\ 32257 <= n /\ n <= 131072
  OBVIOUS
<1>2. n <= 4 * Words(n) /\ 4 * Words(n) <= n + 3 /\ Words(n) \in Nat
  BY <1>1 DEF Words
<1>3. Words(n) <= 32768
  BY <1>1, <1>2
<1>4. UploadLength(n) > RegionBytes
  BY <1>1, <1>2 DEF UploadLength, BlockBytes, RegionBytes
<1> QED
  BY <1>3, <1>4 DEF LengthAccepted, RegionBytes

USE FilesAssumption, RegionAssumption, UploadBoundsAssumption

-----------------------------------------------------------------------------
(***************************************************************************)
(* Type correctness.  Bounds on the host's counters are left out, they are *)
(* the run's; that main moves only a region with metadata is needed to see *)
(* that what it stores is a file.                                          *)
(***************************************************************************)
MovesMetadata == main \in {"erase", "program", "reboot"} => HasMetadata

TypeInv == UploadTypeOK /\ MovesMetadata

LEMMA PacketsType == Packets \in [Files -> Nat]
<1>1. ASSUME NEW n \in Nat
      PROVE  PacketCount(n) \in Nat
  BY <1>1 DEF PacketCount, UploadLength, Words, BlockBytes
<1>2. QED
  BY <1>1 DEF Packets

\* A file of which the bytes fit the upload region, with its metadata, fits it in
\* packets: an empty last one takes no block.
LEMMA FitsByLength ==
  ASSUME NEW f \in Files, UploadLength(JsonLength[f]) <= BlockBytes * RegionSize
  PROVE  Fits(f)
<1>1. PICK u \in Nat : u = UploadLength(JsonLength[f])
  BY DEF UploadLength, Words, BlockBytes
<1>2. PICK q \in Nat : q = u \div 512
  BY <1>1
<1>3. PICK r \in 0 .. 511 : r = u % 512
  BY <1>1
<1>4. u = 512 * q + r
  <2>1. \A k \in Nat : k = 512 * (k \div 512) + (k % 512)
    OBVIOUS
  <2> QED
    BY <1>2, <1>3, <2>1
<1>5. Packets[f] = q + 1
  BY <1>1, <1>2 DEF Packets, PacketCount, BlockBytes
<1>6. EndsEmpty(JsonLength[f]) <=> r = 0
  BY <1>1, <1>3 DEF EndsEmpty, BlockBytes
<1>7. 512 * q + r <= 512 * RegionSize
  BY <1>1, <1>4 DEF BlockBytes
<1>8. ASSUME NEW n \in Filled(f)
      PROVE  n \in Blocks
  <2>1. n \in 1 .. (q + 1) /\ ~(n = q + 1 /\ r = 0)
    BY <1>5, <1>6, <1>8 DEF Filled, HasBytes, IsLast
  <2>2. n <= RegionSize
    BY <1>7, <2>1
  <2> QED
    BY <2>1, <2>2 DEF Blocks
<1> QED
  BY <1>8 DEF Fits

LEMMA MetadataIsFile ==
  ASSUME UploadTypeOK, HasMetadata
  PROVE  upload[1].file \in Files
BY DEF UploadTypeOK, HasMetadata, Packet, Erased, Blocks

LEMMA ProgrammedIsRegion ==
  ASSUME NEW f \in Files
  PROVE  Programmed(f) \in Regions
BY DEF Programmed, Regions

LEMMA BootTypes ==
  ASSUME TypeInv, storage' \in Regions, Boot
  PROVE  TypeInv'
BY DEF TypeInv, MovesMetadata, UploadTypeOK, Boot, Connections, Regions,
       clientVars, network

LEMMA TypeInit == UploadInit => TypeInv
BY DEF UploadInit, TypeInv, MovesMetadata, UploadTypeOK, Connections, Regions

\* A packet that is received is one of an open transfer.
LEMMA ReceivingTransfer ==
  ASSUME UploadTypeOK, NEW m \in toServer, ReceiveBlock(m)
  PROVE  /\ m.port \in Pcbs /\ m.packet \in Packet
         /\ conns[m.port] \in [open : {TRUE}, block : Nat]
         /\ conns[m.port].open /\ conns[m.port].block \in Nat
<1>1. m.port \in Pcbs /\ m.packet \in Packet /\ conns[m.port] \in Connections
  BY DEF UploadTypeOK
<1>2. conns[m.port].open
  BY DEF ReceiveBlock
<1>3. conns[m.port] # Closed
  <2>1. ~Closed.open
    BY DEF Closed
  <2> QED
    BY <1>2, <2>1
<1>4. conns[m.port] \in [open : {TRUE}, block : Nat]
  BY <1>1, <1>3 DEF Connections
<1>5. conns[m.port].block \in Nat
  BY <1>4
<1> QED
  BY <1>1, <1>2, <1>4, <1>5

LEMMA TypeStep == TypeInv /\ [UploadNext]_uploadVars => TypeInv'
<1> SUFFICES ASSUME TypeInv, [UploadNext]_uploadVars
             PROVE  TypeInv'
  OBVIOUS
<1> USE DEF TypeInv
<1>1. ASSUME NEW f \in Files, StartUpload(f)
      PROVE  TypeInv'
  BY <1>1 DEF UploadTypeOK, MovesMetadata, HasMetadata, StartUpload, serverVars
<1>2. CASE RepeatRequest
  BY <1>2 DEF UploadTypeOK, MovesMetadata, HasMetadata, RepeatRequest, serverVars
<1>3. ASSUME NEW a \in toClient, HearAck(a)
      PROVE  TypeInv'
  <2>1. a.port \in Pcbs /\ sent + 1 \in Nat \ {0}
    BY <1>3 DEF UploadTypeOK
  <2>2. toServer' \subseteq [port : Pcbs, packet : Packet]
    BY <1>3, <2>1 DEF UploadTypeOK, HearAck, Packet
  <2>3. QED
    BY <1>3, <2>1, <2>2 DEF UploadTypeOK, MovesMetadata, HasMetadata, HearAck, serverVars
<1>4. CASE GiveUp
  BY <1>4 DEF UploadTypeOK, MovesMetadata, HasMetadata, GiveUp, serverVars, network
<1>5. CASE WriteRequest
  <2>1. ASSUME NEW p \in Pcbs, ProcessWrite(p)
        PROVE  /\ upload' \in [Blocks -> Packet \cup {Erased}]
               /\ conns' \in [Pcbs -> Connections]
               /\ writeAddress' \in Nat \ {0}
               /\ core1' \in BOOLEAN
               /\ toClient' \subseteq [port : Pcbs, block : Nat]
    <3>1. [open |-> TRUE, block |-> 0] \in Connections
      BY DEF Connections
    <3>2. conns' \in [Pcbs -> Connections]
      BY <2>1, <3>1 DEF UploadTypeOK, ProcessWrite, SendAck
    <3>3. toClient' \subseteq [port : Pcbs, block : Nat]
      BY <2>1 DEF UploadTypeOK, ProcessWrite, SendAck
    <3>4. QED
      <4>1. upload' \in [Blocks -> Packet \cup {Erased}]
        BY <2>1 DEF ProcessWrite, ErasedRegion
      <4>2. writeAddress' \in Nat \ {0}
        BY <2>1 DEF ProcessWrite, StartAddress
      <4>3. core1' \in BOOLEAN
        BY <2>1 DEF ProcessWrite
      <4>4. QED
        BY <3>2, <3>3, <4>1, <4>2, <4>3
  <2>2. /\ upload' \in [Blocks -> Packet \cup {Erased}]
        /\ conns' \in [Pcbs -> Connections]
        /\ writeAddress' \in Nat \ {0}
        /\ core1' \in BOOLEAN
        /\ toClient' \subseteq [port : Pcbs, block : Nat]
    <3>1. CASE \E p \in Pcbs : ProcessWrite(p)
      BY <2>1, <3>1
    <3>2. CASE UNCHANGED <<upload, conns, writeAddress, core1, toClient>>
      BY <3>2 DEF UploadTypeOK
    <3>3. QED
      BY <1>5, <3>1, <3>2 DEF WriteRequest
  <2>3. requests' \in Nat /\ main' = "poll"
    BY <1>5 DEF WriteRequest, UploadTypeOK
  <2>4. QED
    BY <1>5, <2>2, <2>3 DEF WriteRequest, UploadTypeOK, MovesMetadata, clientVars
<1>6. ASSUME NEW m \in toServer, ReceiveBlock(m)
      PROVE  TypeInv'
  <2>1. m.port \in Pcbs /\ m.packet \in Packet
    BY <1>6, ReceivingTransfer
  <2>2. conns[m.port] \in [open : {TRUE}, block : Nat]
    BY <1>6, ReceivingTransfer
  <2>3. /\ upload' \in [Blocks -> Packet \cup {Erased}]
        /\ writeAddress' \in Nat \ {0}
        /\ storage' \in Regions
    <3>1. CASE ProgramBlock(m.packet)
      BY <2>1, <3>1 DEF ProgramBlock, UploadTypeOK, Regions
    <3>2. CASE UNCHANGED <<upload, storage, writeAddress>>
      BY <3>2 DEF UploadTypeOK
    <3>3. QED
      BY <1>6, <3>1, <3>2 DEF ReceiveBlock
  <2> DEFINE received == IF Expected(conns[m.port], m.packet)
                         THEN conns[m.port].block + 1 ELSE conns[m.port].block
  <2>4. received \in Nat
    <3>1. conns[m.port].block \in Nat
      BY <2>2
    <3>2. QED
      BY <3>1
  <2>5. toClient' \subseteq [port : Pcbs, block : Nat]
    BY <1>6, <2>1, <2>4 DEF ReceiveBlock, UploadTypeOK, SendAck, CleanupWrite
  <2>6. conns' \in [Pcbs -> Connections]
    <3>1. [conns[m.port] EXCEPT !.block = received] \in Connections
      BY <2>1, <2>2, <2>4 DEF Connections, Closed
    <3>2. CASE IsLast(m.packet)
      BY <1>6, <2>1, <3>2 DEF ReceiveBlock, CleanupWrite, UploadTypeOK, Connections
    <3>3. CASE ~IsLast(m.packet)
      <4>1. conns' = [conns EXCEPT ![m.port] = [conns[m.port] EXCEPT !.block = received]]
        BY <1>6, <3>3 DEF ReceiveBlock
      <4>2. QED
        BY <3>1, <4>1 DEF UploadTypeOK
    <3>4. QED
      BY <3>2, <3>3
  <2>7. main' \in {"poll", "check"} /\ toServer' \subseteq toServer
    BY <1>6 DEF ReceiveBlock, CleanupWrite
  <2>8. QED
    BY <1>6, <2>3, <2>5, <2>6, <2>7
       DEF ReceiveBlock, UploadTypeOK, MovesMetadata, clientVars
<1>7. CASE CheckJson
  BY <1>7 DEF CheckJson, UploadTypeOK, MovesMetadata, HasMetadata, clientVars, network
<1>8. CASE EraseStorage
  BY <1>8 DEF EraseStorage, UploadTypeOK, MovesMetadata, HasMetadata, Regions,
              clientVars, network
<1>9. CASE ProgramStorage
  <2>1. storage' \in Regions
    BY <1>9, MetadataIsFile, ProgrammedIsRegion DEF ProgramStorage, MovesMetadata
  <2>2. QED
    BY <1>9, <2>1 DEF ProgramStorage, UploadTypeOK, MovesMetadata, HasMetadata,
                      clientVars, network
<1>10. CASE Reboot
  BY <1>10, BootTypes DEF Reboot, UploadTypeOK
<1>11. CASE PowerFails
  <2>1. main = "program" => Programmed(upload[1].file) \in Regions
    BY MetadataIsFile, ProgrammedIsRegion DEF MovesMetadata
  <2>2. storage' \in Regions
    BY <1>11, <2>1 DEF PowerFails, UploadTypeOK, Regions
  <2>3. QED
    BY <1>11, <2>2, BootTypes DEF PowerFails
<1>12. CASE UNCHANGED uploadVars
  BY <1>12 DEF UploadTypeOK, MovesMetadata, HasMetadata, uploadVars, serverVars,
               clientVars, network
<1>13. QED
  BY <1>1, <1>2, <1>3, <1>4, <1>5, <1>6, <1>7, <1>8, <1>9, <1>10, <1>11, <1>12
     DEF UploadNext

\* Every variable keeps its type, in particular what main stores is always a
\* file or an empty or torn region, though it takes it from the upload region.
THEOREM UploadTypeCorrect == UploadSpec => []UploadTypeOK
<1>1. UploadSpec => []TypeInv
  BY TypeInit, TypeStep, PTL DEF UploadSpec
<1>2. TypeInv => UploadTypeOK
  BY DEF TypeInv
<1>3. QED
  BY <1>1, <1>2, PTL

-----------------------------------------------------------------------------
(***************************************************************************)
(* What lies ahead of the write address is erased.                         *)
(***************************************************************************)
AheadErased == \A b \in Blocks : b >= writeAddress => upload[b] = Erased

LEMMA AheadInit == UploadInit => AheadErased
BY DEF UploadInit, AheadErased

\* After a reboot the write address is stale, but then no transfer is open, and
\* the write request that opens one erases the region.
EraseInv == (\E p \in Pcbs : conns[p].open) => AheadErased

LEMMA EraseInit == UploadInit => EraseInv
BY DEF UploadInit, EraseInv, Closed

LEMMA EraseStep ==
  UploadTypeOK /\ EraseInv /\ [UploadNext]_uploadVars => EraseInv'
<1> SUFFICES ASSUME UploadTypeOK, EraseInv, [UploadNext]_uploadVars
             PROVE  EraseInv'
  OBVIOUS
<1>1. ASSUME UNCHANGED <<upload, conns, writeAddress>>
      PROVE  EraseInv'
  BY <1>1 DEF EraseInv, AheadErased
<1>2. CASE WriteRequest
  <2>1. ASSUME NEW p \in Pcbs, ProcessWrite(p)
        PROVE  EraseInv'
    BY <2>1 DEF ProcessWrite, ErasedRegion, EraseInv, AheadErased
  <2>2. QED
    BY <1>1, <1>2, <2>1 DEF WriteRequest
<1>3. ASSUME NEW m \in toServer, ReceiveBlock(m)
      PROVE  EraseInv'
  <2>1. AheadErased
    BY <1>3 DEF ReceiveBlock, EraseInv, UploadTypeOK
  <2>2. CASE UNCHANGED <<upload, writeAddress>>
    BY <2>1, <2>2 DEF EraseInv, AheadErased
  <2>3. CASE ProgramBlock(m.packet)
    BY <2>1, <2>3 DEF ProgramBlock, EraseInv, AheadErased, UploadTypeOK, Blocks
  <2>4. QED
    BY <1>3, <2>2, <2>3 DEF ReceiveBlock
<1>4. ASSUME Boot
      PROVE  EraseInv'
  BY <1>4 DEF Boot, EraseInv, Closed
<1>5. QED
  BY <1>1, <1>2, <1>3, <1>4
     DEF UploadNext, StartUpload, RepeatRequest, HearAck, GiveUp, CheckJson,
         EraseStorage, ProgramStorage, Reboot, PowerFails, uploadVars, serverVars

-----------------------------------------------------------------------------
(***************************************************************************)
(* The accepted configuration is the one the machine runs.                 *)
(***************************************************************************)
StoredInv == main = "reboot" => storage = Programmed(upload[1].file)

LEMMA StoredStep ==
  StoredInv /\ [UploadNext]_uploadVars => StoredInv'
<1> SUFFICES ASSUME StoredInv, [UploadNext]_uploadVars, main' = "reboot"
             PROVE  storage' = Programmed(upload'[1].file)
  BY DEF StoredInv, Programmed, Fits, Filled
<1>1. CASE ProgramStorage
  BY <1>1 DEF ProgramStorage
<1>2. ASSUME main = "reboot", UNCHANGED <<storage, upload>>
      PROVE  storage' = Programmed(upload'[1].file)
  BY <1>2 DEF StoredInv
<1>3. QED
  BY <1>1, <1>2
     DEF UploadNext, StartUpload, RepeatRequest, HearAck, GiveUp, WriteRequest,
         ReceiveBlock, CheckJson, EraseStorage, Reboot, PowerFails, Boot,
         uploadVars, serverVars

\* If every file fits the upload region and has one of the StoredLengths, the
\* reboot after the move loads what was accepted (remora.cpp:720-730), even if
\* power fails first.
THEOREM AcceptedLoaded ==
  ASSUME \A f \in Files : Fits(f) /\ JsonLength[f] \in StoredLengths
  PROVE  UploadSpec => AcceptedIsLoaded
<1>1. UploadInit => StoredInv
  BY DEF UploadInit, StoredInv
<1>2. UploadSpec => [](StoredInv /\ TypeInv)
  BY <1>1, TypeInit, TypeStep, StoredStep, PTL DEF UploadSpec
<1>3. StoredInv /\ TypeInv /\ [UploadNext]_uploadVars =>
        [main = "reboot" /\ main' = "poll" => config' = upload[1].file]_uploadVars
  <2> SUFFICES ASSUME StoredInv, TypeInv, UploadNext, main = "reboot", main' = "poll"
               PROVE  config' = upload[1].file
    OBVIOUS
  <2>1. storage = upload[1].file
    <3>1. upload[1].file \in Files
      BY MetadataIsFile DEF TypeInv, MovesMetadata
    <3>2. Programmed(upload[1].file) = upload[1].file
      BY <3>1, PagesSuffice DEF Programmed
    <3>3. QED
      BY <3>2 DEF StoredInv
  <2>2. Reboot \/ PowerFails
    BY DEF UploadNext, StartUpload, RepeatRequest, HearAck, GiveUp, WriteRequest,
           ReceiveBlock, CheckJson, EraseStorage, ProgramStorage, clientVars,
           serverVars
  <2>3. config' = storage' /\ storage' = storage
    BY <2>2 DEF Reboot, PowerFails, Boot
  <2>4. QED
    BY <2>1, <2>3
<1>4. QED
  BY <1>2, <1>3, PTL DEF UploadSpec, AcceptedIsLoaded

-----------------------------------------------------------------------------
(***************************************************************************)
(* The write address stays in the upload region.                           *)
(***************************************************************************)
\* The host sends no packet beyond a file's last.
SentInv ==
  /\ sent <= Packets[file]
  /\ \A m \in toServer : m.packet.number <= Packets[m.packet.file]

LEMMA SentInit == UploadInit => SentInv
BY PacketsType DEF UploadInit, SentInv

LEMMA SentStep == UploadTypeOK /\ SentInv /\ [UploadNext]_uploadVars => SentInv'
<1> SUFFICES ASSUME UploadTypeOK, SentInv, [UploadNext]_uploadVars
             PROVE  SentInv'
  OBVIOUS
<1>1. ASSUME UNCHANGED <<file, sent>>, toServer' \subseteq toServer
      PROVE  SentInv'
  BY <1>1 DEF SentInv
<1>2. ASSUME NEW f \in Files, StartUpload(f)
      PROVE  SentInv'
  BY <1>2, PacketsType DEF StartUpload, SentInv
<1>3. ASSUME NEW a \in toClient, HearAck(a)
      PROVE  SentInv'
  <2>1. CASE sent = Packets[file]
    BY <1>1, <1>3, <2>1 DEF HearAck
  <2>2. CASE sent # Packets[file]
    <3>1. sent + 1 <= Packets[file]
      BY <2>2, PacketsType DEF SentInv, UploadTypeOK
    <3>2. /\ sent' = sent + 1 /\ file' = file
          /\ toServer' = toServer \cup
               {[port |-> a.port, packet |-> [file |-> file, number |-> sent + 1]]}
      BY <1>3, <2>2 DEF HearAck
    <3> QED
      BY <3>1, <3>2 DEF SentInv
  <2> QED
    BY <2>1, <2>2
<1>4. ASSUME NEW m \in toServer, ReceiveBlock(m)
      PROVE  SentInv'
  BY <1>1, <1>4 DEF ReceiveBlock, CleanupWrite, clientVars
<1> QED
  BY <1>1, <1>2, <1>3, <1>4
     DEF UploadNext, RepeatRequest, GiveUp, WriteRequest, CheckJson, EraseStorage,
         ProgramStorage, Reboot, PowerFails, Boot, uploadVars, clientVars, network

\* Since the last erase each open transfer has programmed blocks up to its own
\* number, no block twice; a transfer whose packets with bytes are 1 .. M at most
\* M of them.
CountedInv(M) ==
  (\E p \in Pcbs : conns[p].open) =>
    \E S \in SUBSET (Pcbs \X (1 .. M)) :
      /\ writeAddress = Cardinality(S) + 1
      /\ \A p \in Pcbs, n \in 1 .. M :
           <<p, n>> \in S /\ conns[p].open => n <= conns[p].block

LEMMA ProgrammedBlock ==
  ASSUME NEW M \in Nat, \A f \in Files : Filled(f) \subseteq 1 .. M,
         UploadTypeOK, SentInv, NEW m \in toServer, ReceiveBlock(m),
         Expected(conns[m.port], m.packet), HasBytes(m.packet)
  PROVE  m.packet.number \in 1 .. M
<1>1. m.packet \in Packet /\ m.packet.file \in Files /\ m.packet.number \in Nat \ {0}
  BY DEF UploadTypeOK, Packet
<1>2. m.packet = [file |-> m.packet.file, number |-> m.packet.number]
  BY <1>1 DEF Packet
<1>3. m.packet.number \in 1 .. Packets[m.packet.file]
  BY <1>1, PacketsType DEF SentInv
<1>4. m.packet.number \in Filled(m.packet.file)
  BY <1>2, <1>3 DEF Filled
<1> QED
  BY <1>1, <1>4

LEMMA CountedFits ==
  ASSUME NEW M \in Nat, IsFiniteSet(Pcbs), NEW S \in SUBSET (Pcbs \X (1 .. M))
  PROVE  /\ IsFiniteSet(S) /\ Cardinality(S) \in Nat
         /\ Cardinality(S) <= Cardinality(Pcbs) * M
<1>1. IsFiniteSet(1 .. M) /\ Cardinality(1 .. M) = M
  BY FS_Interval
<1>2. /\ IsFiniteSet(Pcbs \X (1 .. M))
      /\ Cardinality(Pcbs \X (1 .. M)) = Cardinality(Pcbs) * M
  BY <1>1, FS_Product
<1> QED
  BY <1>2, FS_Subset, FS_CardinalityType

\* One more block programmed, by transfer p.
LEMMA OneMore ==
  ASSUME NEW M \in Nat, IsFiniteSet(Pcbs), NEW S \in SUBSET (Pcbs \X (1 .. M)),
         NEW p \in Pcbs, NEW n \in 1 .. M, <<p, n>> \notin S
  PROVE  /\ S \cup {<<p, n>>} \in SUBSET (Pcbs \X (1 .. M))
         /\ Cardinality(S \cup {<<p, n>>}) = Cardinality(S) + 1
         /\ Cardinality(S) + 1 <= Cardinality(Pcbs) * M
<1>1. S \cup {<<p, n>>} \in SUBSET (Pcbs \X (1 .. M))
  OBVIOUS
<1>2. Cardinality(S \cup {<<p, n>>}) = Cardinality(S) + 1
  BY CountedFits, FS_AddElement
<1> QED
  BY <1>1, <1>2, CountedFits

LEMMA CountedStep ==
  ASSUME NEW M \in Nat, IsFiniteSet(Pcbs),
         \A f \in Files : Filled(f) \subseteq 1 .. M,
         UploadTypeOK, SentInv, CountedInv(M), [UploadNext]_uploadVars
  PROVE  CountedInv(M)'
<1>1. ASSUME UNCHANGED <<conns, writeAddress>>
      PROVE  CountedInv(M)'
  BY <1>1 DEF CountedInv
<1>2. CASE WriteRequest
  <2>1. ASSUME NEW p \in Pcbs, ProcessWrite(p)
        PROVE  CountedInv(M)'
    <3>1. writeAddress' = Cardinality({}) + 1 /\ {} \in SUBSET (Pcbs \X (1 .. M))
      BY <2>1, FS_EmptySet DEF ProcessWrite, StartAddress
    <3> QED
      BY <3>1 DEF CountedInv
  <2> QED
    BY <1>1, <1>2, <2>1 DEF WriteRequest
<1>3. ASSUME NEW m \in toServer, ReceiveBlock(m)
      PROVE  CountedInv(M)'
  <2> DEFINE q == m.port
             b == conns[q].block
  <2>1. /\ q \in Pcbs /\ conns[q].open /\ conns[q] \in [open : {TRUE}, block : Nat]
    BY <1>3, ReceivingTransfer
  <2>2. PICK S \in SUBSET (Pcbs \X (1 .. M)) :
          /\ writeAddress = Cardinality(S) + 1
          /\ \A p \in Pcbs, n \in 1 .. M : <<p, n>> \in S /\ conns[p].open => n <= conns[p].block
    BY <2>1 DEF CountedInv
  <2>3. /\ b \in Nat
        /\ \A p \in Pcbs \ {q} : conns'[p] = conns[p]
        /\ conns'[q].open => conns'[q].block = IF Expected(conns[q], m.packet)
                                               THEN b + 1 ELSE b
    <3>1. b \in Nat
      BY <2>1
    <3>2. CASE IsLast(m.packet)
      <4>1. conns' = [conns EXCEPT ![q] = Closed]
        BY <1>3, <3>2 DEF ReceiveBlock, CleanupWrite
      <4> QED
        BY <2>1, <3>1, <4>1 DEF UploadTypeOK, Closed
    <3>3. CASE ~IsLast(m.packet)
      <4>1. conns' = [conns EXCEPT ![q].block = IF Expected(conns[q], m.packet)
                                                THEN b + 1 ELSE b]
        BY <1>3, <3>3 DEF ReceiveBlock
      <4> QED
        BY <2>1, <3>1, <4>1 DEF UploadTypeOK
    <3> QED
      BY <3>2, <3>3
  <2>4. CASE Expected(conns[q], m.packet) /\ HasBytes(m.packet)
    <3> DEFINE n == m.packet.number
               T == S \cup {<<q, n>>}
    <3>1. n = b + 1 /\ n \in 1 .. M
      BY <1>3, <2>4, ProgrammedBlock DEF Expected
    <3>2. <<q, n>> \notin S
      BY <2>1, <2>2, <2>3, <3>1
    <3>3. T \in SUBSET (Pcbs \X (1 .. M)) /\ Cardinality(T) = Cardinality(S) + 1
      BY <2>1, <3>1, <3>2, OneMore
    <3>4. writeAddress' = writeAddress + 1
      BY <1>3, <2>4 DEF ReceiveBlock, ProgramBlock
    <3>5. ASSUME NEW p \in Pcbs, NEW k \in 1 .. M, <<p, k>> \in T, conns'[p].open
          PROVE  k <= conns'[p].block
      <4>1. CASE p = q
        <5>1. conns'[p].block = b + 1
          BY <2>3, <2>4, <3>5, <4>1
        <5>2. k = n \/ k <= b
          BY <2>1, <2>2, <3>5, <4>1
        <5> QED
          BY <2>3, <3>1, <5>1, <5>2
      <4>2. CASE p # q
        <5>1. <<p, k>> \in S /\ conns'[p] = conns[p]
          BY <2>3, <3>5, <4>2
        <5> QED
          BY <2>2, <3>5, <5>1
      <4> QED
        BY <4>1, <4>2
    <3>6. writeAddress' = Cardinality(T) + 1
      BY <2>2, <3>3, <3>4
    <3> HIDE DEF T
    <3> QED
      BY <3>3, <3>5, <3>6 DEF CountedInv
  <2>5. CASE ~(Expected(conns[q], m.packet) /\ HasBytes(m.packet))
    <3>1. writeAddress' = Cardinality(S) + 1
      BY <1>3, <2>2, <2>5 DEF ReceiveBlock
    <3>2. ASSUME NEW p \in Pcbs, NEW k \in 1 .. M, <<p, k>> \in S, conns'[p].open
          PROVE  k <= conns'[p].block
      <4>1. CASE p = q
        <5>1. k <= b /\ b \in Nat
          BY <2>1, <2>2, <2>3, <3>2, <4>1
        <5>2. conns'[p].block \in {b, b + 1}
          BY <2>3, <3>2, <4>1
        <5> QED
          BY <5>1, <5>2
      <4>2. CASE p # q
        BY <2>2, <2>3, <3>2, <4>2
      <4> QED
        BY <4>1, <4>2
    <3> QED
      BY <3>1, <3>2 DEF CountedInv
  <2> QED
    BY <2>4, <2>5
<1>4. ASSUME Boot
      PROVE  CountedInv(M)'
  BY <1>4 DEF Boot, CountedInv, Closed
<1> QED
  BY <1>1, <1>2, <1>3, <1>4
     DEF UploadNext, StartUpload, RepeatRequest, HearAck, GiveUp, CheckJson,
         EraseStorage, ProgramStorage, Reboot, PowerFails, uploadVars, serverVars

\* If the upload region has room for every transfer that can be open at once, no
\* block is programmed beyond it.
LEMMA ProgramsRegion ==
  ASSUME NEW M \in Nat, \A f \in Files : Filled(f) \subseteq 1 .. M,
         IsFiniteSet(Pcbs), Cardinality(Pcbs) * M <= RegionSize,
         UploadTypeOK, SentInv, CountedInv(M), NEW m \in toServer, ReceiveBlock(m),
         Expected(conns[m.port], m.packet), HasBytes(m.packet)
  PROVE  writeAddress \in Blocks
<1> DEFINE n == m.packet.number
           q == m.port
<1>1. q \in Pcbs /\ conns[q].open /\ conns[q].block \in Nat
  BY ReceivingTransfer
<1>2. PICK S \in SUBSET (Pcbs \X (1 .. M)) :
        /\ writeAddress = Cardinality(S) + 1
        /\ \A p \in Pcbs, k \in 1 .. M :
             <<p, k>> \in S /\ conns[p].open => k <= conns[p].block
  BY <1>1 DEF CountedInv
<1>3. n = conns[q].block + 1 /\ n \in 1 .. M
  BY ProgrammedBlock DEF Expected
<1>4. <<q, n>> \notin S
  BY <1>1, <1>2, <1>3
<1>5. Cardinality(S) + 1 <= Cardinality(Pcbs) * M /\ Cardinality(S) \in Nat
  BY <1>1, <1>3, <1>4, OneMore, CountedFits
<1>6. Cardinality(Pcbs) * M \in Nat
  BY FS_CardinalityType
<1> QED
  BY <1>2, <1>5, <1>6 DEF Blocks

LEMMA CountedInit ==
  ASSUME NEW M \in Nat
  PROVE  UploadInit => CountedInv(M)
BY DEF UploadInit, CountedInv, Closed

\* Then the stored configuration changes only when main moves an accepted upload
\* (configuration.h:40), however transfers are started, repeated and given up,
\* and whatever the network delivers twice, late or never.
THEOREM OnlyMoveStores ==
  ASSUME NEW M \in Nat, \A f \in Files : Filled(f) \subseteq 1 .. M,
         IsFiniteSet(Pcbs), Cardinality(Pcbs) * M <= RegionSize
  PROVE  UploadSpec => StorageChangesByMove
<1>1. UploadTypeOK /\ SentInv /\ CountedInv(M) /\ [UploadNext]_uploadVars => CountedInv(M)'
  BY CountedStep
<1>2. UploadTypeOK /\ SentInv /\ CountedInv(M) /\ [UploadNext]_uploadVars =>
        [storage' # storage => main \in {"erase", "program"}]_uploadVars
  <2> SUFFICES ASSUME UploadTypeOK, SentInv, CountedInv(M), UploadNext
               PROVE  storage' # storage => main \in {"erase", "program"}
    OBVIOUS
  <2>1. ASSUME NEW m \in toServer, ReceiveBlock(m)
        PROVE  storage' = storage
    <3>1. CASE Expected(conns[m.port], m.packet) /\ HasBytes(m.packet)
      BY <2>1, <3>1, ProgramsRegion DEF ReceiveBlock, ProgramBlock
    <3>2. CASE ~(Expected(conns[m.port], m.packet) /\ HasBytes(m.packet))
      BY <2>1, <3>2 DEF ReceiveBlock
    <3> QED
      BY <3>1, <3>2
  <2> QED
    BY <2>1
       DEF UploadNext, StartUpload, RepeatRequest, HearAck, GiveUp, WriteRequest,
           CheckJson, EraseStorage, ProgramStorage, Reboot, PowerFails
<1>3. UploadSpec => [](UploadTypeOK /\ SentInv)
  BY UploadTypeCorrect, SentInit, SentStep, PTL DEF UploadSpec
<1> QED
  BY <1>1, <1>2, <1>3, CountedInit, PTL DEF UploadSpec, StorageChangesByMove

-----------------------------------------------------------------------------
(***************************************************************************)
(* The flash is programmed only where it is erased.                        *)
(***************************************************************************)
\* Between the erase and the program nothing else is done, and power that fails
\* there starts main anew.
EmptiedInv == main = "program" => storage = Empty

LEMMA EmptiedInit == UploadInit => EmptiedInv
BY DEF UploadInit, EmptiedInv

LEMMA EmptiedStep == EmptiedInv /\ [UploadNext]_uploadVars => EmptiedInv'
BY DEF EmptiedInv, UploadNext, StartUpload, RepeatRequest, HearAck, GiveUp,
       WriteRequest, ReceiveBlock, CheckJson, EraseStorage, ProgramStorage, Reboot,
       PowerFails, Boot, uploadVars, serverVars

\* A step that moves the write address on programs a block.
LEMMA MovesOn ==
  ASSUME UploadTypeOK, UploadNext, writeAddress' > writeAddress
  PROVE  \E m \in toServer : /\ ReceiveBlock(m)
                             /\ Expected(conns[m.port], m.packet)
                             /\ HasBytes(m.packet)
<1>1. writeAddress \in Nat /\ writeAddress >= 1
  BY DEF UploadTypeOK
<1>2. writeAddress' # writeAddress /\ writeAddress' # 1
  BY <1>1
<1>3. ~WriteRequest
  BY <1>2 DEF WriteRequest, ProcessWrite, StartAddress
<1>4. ~Boot
  BY <1>2 DEF Boot
<1>5. PICK m \in toServer : ReceiveBlock(m)
  BY <1>2, <1>3, <1>4
     DEF UploadNext, StartUpload, RepeatRequest, HearAck, GiveUp, CheckJson,
         EraseStorage, ProgramStorage, Reboot, PowerFails, serverVars
<1> QED
  BY <1>2, <1>5 DEF ReceiveBlock

\* Under the same condition the flash is programmed only where it is erased: the
\* server programs erased blocks of the upload region and nothing beyond it, and
\* the move programs an empty storage region (tftpserver.cpp:182,
\* remora.cpp:238-266), whenever power fails.
THEOREM FlashRespected ==
  ASSUME NEW M \in Nat, \A f \in Files : Filled(f) \subseteq 1 .. M,
         IsFiniteSet(Pcbs), Cardinality(Pcbs) * M <= RegionSize
  PROVE  UploadSpec => ProgramsErased
<1> DEFINE Erases ==
      /\ writeAddress' > writeAddress =>
           writeAddress \in Blocks /\ upload[writeAddress] = Erased
      /\ main = "program" /\ storage' # storage => storage = Empty
<1>1. UploadTypeOK /\ SentInv /\ CountedInv(M) /\ [UploadNext]_uploadVars => CountedInv(M)'
  BY CountedStep
<1>2. UploadTypeOK /\ SentInv /\ CountedInv(M) /\ EraseInv /\ EmptiedInv
        /\ [UploadNext]_uploadVars => [Erases]_uploadVars
  <2> SUFFICES ASSUME UploadTypeOK, SentInv, CountedInv(M), EraseInv, EmptiedInv,
                      UploadNext
               PROVE  Erases
    OBVIOUS
  <2>1. ASSUME writeAddress' > writeAddress
        PROVE  writeAddress \in Blocks /\ upload[writeAddress] = Erased
    <3>1. PICK m \in toServer : /\ ReceiveBlock(m)
                               /\ Expected(conns[m.port], m.packet)
                               /\ HasBytes(m.packet)
      BY <2>1, MovesOn
    <3>2. writeAddress \in Blocks
      BY <3>1, ProgramsRegion
    <3>3. AheadErased
      BY <3>1, ReceivingTransfer DEF EraseInv
    <3> QED
      BY <3>2, <3>3 DEF AheadErased, Blocks
  <2> QED
    BY <2>1 DEF EmptiedInv
<1>3. UploadSpec => [](UploadTypeOK /\ SentInv /\ EraseInv /\ EmptiedInv)
  BY UploadTypeCorrect, SentInit, SentStep, EraseInit, EraseStep, EmptiedInit,
     EmptiedStep, PTL DEF UploadSpec
<1> QED
  BY <1>1, <1>2, <1>3, CountedInit, PTL DEF UploadSpec, ProgramsErased

-----------------------------------------------------------------------------
(***************************************************************************)
(* A transfer ends with the whole file, if the host neither gives up nor   *)
(* repeats a request, whatever the network and the power supply do.        *)
(***************************************************************************)
\* The first packet, with the metadata, is never the last.
LEMMA TwoPackets ==
  ASSUME NEW f \in Files
  PROVE  Packets[f] \in Nat /\ Packets[f] >= 2
<1>1. ASSUME NEW w \in Nat
      PROVE  (512 + 4 * w) \div 512 >= 1
  OBVIOUS
<1>2. JsonLength[f] \in Nat /\ (JsonLength[f] + 3) \div 4 \in Nat
  OBVIOUS
<1>3. PacketCount(JsonLength[f]) >= 2
  BY <1>1, <1>2 DEF PacketCount, UploadLength, Words, BlockBytes
<1> QED
  BY <1>3, PacketsType DEF Packets

\* The steps with such a host.
SteadyNext ==
  \/ \E f \in Files : StartUpload(f)
  \/ \E a \in toClient : HearAck(a)
  \/ WriteRequest
  \/ \E m \in toServer : ReceiveBlock(m)
  \/ CheckJson \/ EraseStorage \/ ProgramStorage \/ Reboot
  \/ PowerFails

NoTransfer == \A p \in Pcbs : ~conns[p].open

\* The one transfer there is has received and programmed the file's packets up to
\* its block, which is the last sent or the one before it.
InTransfer(p) ==
  /\ \A q \in Pcbs : conns[q].open => q = p
  /\ \/ client = "request" /\ conns[p].block = 0
     \/ client = "data" /\ port = p /\ conns[p].block \in {sent - 1, sent}
  /\ requests = 0
  /\ conns[p].block < Packets[file]
  /\ writeAddress = conns[p].block + 1
  /\ \A n \in Blocks : n <= conns[p].block => upload[n] = [file |-> file, number |-> n]
  /\ \A a \in toClient : a.port = p /\ a.block <= conns[p].block

\* What the client waits for, and what is under way meanwhile.
ClientInv ==
  /\ client = "idle" => requests = 0 /\ toServer = {} /\ NoTransfer
  /\ client = "request" =>
       /\ requests <= 1 /\ sent = 0 /\ toServer = {}
       /\ requests = 1 => NoTransfer /\ toClient = {}
  /\ client = "data" =>
       /\ requests = 0 /\ sent \in 1 .. Packets[file]
       /\ \A m \in toServer :
            m.port = port /\ m.packet.file = file /\ m.packet.number <= sent
  /\ client # "idle" =>
       \A a \in toClient :
         /\ a.block <= sent
         /\ a.block = Packets[file] => NoTransfer /\ toServer = {}

TransferInv == \A p \in Pcbs : conns[p].open => InTransfer(p)

WholeInv == ReceivedWholeFile /\ TransferInv /\ ClientInv

LEMMA WholeInit == UploadInit => WholeInv
BY DEF UploadInit, WholeInv, ReceivedWholeFile, TransferInv, ClientInv, NoTransfer,
       Closed

\* Only the last packet of a transfer sends main to check the region.
LEMMA KeepsWhole ==
  ASSUME ReceivedWholeFile, UNCHANGED upload, main' = main \/ main' # "check"
  PROVE  ReceivedWholeFile'
BY DEF ReceivedWholeFile, HasMetadata, Whole, Filled, HasBytes

LEMMA WholeByStart ==
  ASSUME UploadTypeOK, WholeInv, NEW f \in Files, StartUpload(f)
  PROVE  WholeInv'
<1>1. ReceivedWholeFile'
  BY KeepsWhole DEF StartUpload, WholeInv, serverVars
<1>2. NoTransfer /\ NoTransfer'
  BY DEF StartUpload, WholeInv, ClientInv, NoTransfer, serverVars
<1>3. TransferInv'
  BY <1>2 DEF TransferInv, NoTransfer
<1>4. ClientInv'
  BY <1>2 DEF StartUpload, WholeInv, ClientInv, UploadTypeOK
<1> QED
  BY <1>1, <1>3, <1>4 DEF WholeInv

LEMMA WholeByAck ==
  ASSUME UploadTypeOK, WholeInv, NEW a \in toClient, HearAck(a)
  PROVE  WholeInv'
<1> USE DEF WholeInv
<1>1. ReceivedWholeFile'
  BY KeepsWhole DEF HearAck, serverVars
<1>2. /\ a.port \in Pcbs /\ file \in Files /\ Packets[file] \in Nat /\ Packets[file] >= 2
      /\ sent \in Nat /\ a.block = sent /\ client \in {"request", "data"}
      /\ UNCHANGED <<conns, writeAddress, upload, file, requests, toClient>>
  BY TwoPackets DEF UploadTypeOK, HearAck, serverVars
<1>3. requests = 0
  BY <1>2 DEF ClientInv, UploadTypeOK
<1>4. CASE sent = Packets[file]
  <2>1. NoTransfer /\ toServer = {} /\ UNCHANGED <<sent, toServer>> /\ client' = "idle"
    BY <1>2, <1>4 DEF ClientInv, HearAck
  <2>2. NoTransfer'
    BY <1>2, <2>1 DEF NoTransfer
  <2> QED
    BY <1>1, <1>2, <1>3, <2>1, <2>2 DEF TransferInv, ClientInv, NoTransfer
<1>5. CASE sent # Packets[file]
  <2>1. /\ client' = "data" /\ sent' = sent + 1 /\ port' = a.port
        /\ toServer' = toServer \cup
             {[port |-> a.port, packet |-> [file |-> file, number |-> sent + 1]]}
    BY <1>5 DEF HearAck
  <2>2. sent + 1 \in 1 .. Packets[file]
    BY <1>2, <1>5 DEF ClientInv
  <2>3. \A m \in toServer' :
          m.port = port' /\ m.packet.file = file /\ m.packet.number <= sent + 1
    <3>1. ASSUME NEW m \in toServer
          PROVE  m.port = port' /\ m.packet.file = file /\ m.packet.number <= sent + 1
      <4>1. client = "data"
        BY <1>2, <3>1 DEF ClientInv
      <4>2. port' = port
        BY <2>1, <4>1 DEF HearAck
      <4>3. m.packet.number \in Nat
        BY <3>1 DEF UploadTypeOK, Packet
      <4> QED
        BY <1>2, <3>1, <4>1, <4>2, <4>3 DEF ClientInv
    <3> QED
      BY <1>2, <2>1, <3>1
  <2>4. \A b \in toClient' : b.block <= sent' /\ b.block # Packets[file]
    <3>1. \A b \in toClient : b.block \in Nat /\ b.block <= sent
      BY <1>2 DEF ClientInv, UploadTypeOK
    <3>2. sent < Packets[file]
      BY <1>2, <2>2
    <3> QED
      BY <1>2, <2>1, <3>1, <3>2
  <2>5. ClientInv'
    BY <1>2, <1>3, <2>1, <2>2, <2>3, <2>4 DEF ClientInv
  <2>6. TransferInv'
    <3> SUFFICES ASSUME NEW p \in Pcbs, conns[p].open
                 PROVE  InTransfer(p)'
      BY <1>2 DEF TransferInv
    <3>1. InTransfer(p) /\ a.port = p /\ sent <= conns[p].block
      BY <1>2 DEF TransferInv, InTransfer
    <3>2. conns[p].block = sent
      BY <1>2, <3>1 DEF InTransfer, ClientInv
    <3>3. conns[p].block \in {sent' - 1, sent'} /\ port' = p
      BY <1>2, <2>1, <3>1, <3>2
    <3> QED
      BY <1>2, <2>1, <3>1, <3>3 DEF InTransfer
  <2> QED
    BY <1>1, <2>5, <2>6
<1> QED
  BY <1>4, <1>5

LEMMA WholeByRequest ==
  ASSUME UploadTypeOK, WholeInv, WriteRequest
  PROVE  WholeInv'
<1> USE DEF WholeInv
<1>1. client = "request" /\ requests = 1 /\ NoTransfer /\ toClient = {}
      /\ sent = 0 /\ toServer = {}
  BY DEF WriteRequest, ClientInv, UploadTypeOK
<1>2. PICK p \in Pcbs : ProcessWrite(p)
  BY <1>1 DEF WriteRequest, NoTransfer
<1>3. /\ conns' = [conns EXCEPT ![p] = [open |-> TRUE, block |-> 0]]
      /\ writeAddress' = 1 /\ toClient' = {[port |-> p, block |-> 0]}
      /\ requests' = 0 /\ main' = "poll"
      /\ UNCHANGED <<client, file, port, sent, toServer>>
  BY <1>1, <1>2 DEF ProcessWrite, SendAck, StartAddress, WriteRequest, clientVars
<1>4. file \in Files /\ Packets[file] \in Nat /\ Packets[file] >= 2
  BY TwoPackets DEF UploadTypeOK
<1>5. ReceivedWholeFile'
  BY <1>3 DEF ReceivedWholeFile
<1>6. ClientInv'
  BY <1>1, <1>3, <1>4 DEF ClientInv
<1>7. /\ \A q \in Pcbs : conns'[q].open => q = p
      /\ conns'[p].block = 0
  BY <1>1, <1>3 DEF UploadTypeOK, NoTransfer
<1>8. InTransfer(p)'
  <2>1. \A n \in Blocks : ~(n <= 0)
    BY DEF Blocks
  <2> QED
    BY <1>1, <1>3, <1>4, <1>7, <2>1 DEF InTransfer
<1>9. TransferInv'
  BY <1>7, <1>8 DEF TransferInv
<1> QED
  BY <1>5, <1>6, <1>9

LEMMA WholeByBlock ==
  ASSUME UploadTypeOK, WholeInv, NEW m \in toServer, ReceiveBlock(m)
  PROVE  WholeInv'
<1> USE DEF WholeInv
<1>1. PICK p \in Pcbs : p = m.port
  BY ReceivingTransfer
<1>2. PICK b \in Nat : b = conns[p].block
  BY <1>1, ReceivingTransfer
<1>3. PICK r \in Nat : r = IF m.packet.number = b + 1 THEN b + 1 ELSE b
  BY <1>2
<1>4. /\ m.packet = [file |-> file, number |-> m.packet.number]
      /\ client = "data" /\ port = p /\ requests = 0
      /\ m.packet.number \in Nat \ {0} /\ m.packet.number <= sent
      /\ sent \in 1 .. Packets[file]
  <2>1. client = "data"
    BY DEF ClientInv, UploadTypeOK
  <2>2. m.packet \in Packet /\ m.packet.file = file
    BY <2>1, ReceivingTransfer DEF ClientInv
  <2>3. m.packet.number \in Nat \ {0}
    BY <2>2 DEF Packet
  <2>4. m.packet = [file |-> file, number |-> m.packet.number]
    BY <2>2 DEF Packet
  <2> QED
    BY <1>1, <2>1, <2>3, <2>4 DEF ClientInv
<1>5. InTransfer(p) /\ conns[p].open
  BY <1>1, ReceivingTransfer DEF TransferInv
<1>6. /\ file \in Files /\ Packets[file] \in Nat /\ Packets[file] >= 2
      /\ sent \in Nat /\ b < Packets[file] /\ b \in {sent - 1, sent}
      /\ writeAddress = b + 1
      /\ \A n \in Blocks : n <= b => upload[n] = [file |-> file, number |-> n]
      /\ \A a \in toClient : a.port = p /\ a.block <= b
  BY <1>2, <1>4, <1>5, TwoPackets DEF InTransfer, UploadTypeOK
<1>7. /\ Expected(conns[p], m.packet) <=> m.packet.number = b + 1
      /\ IsLast(m.packet) <=> m.packet.number = Packets[file]
  BY <1>2, <1>4 DEF Expected, IsLast, ClientInv
<1>8. /\ toClient' = toClient \cup {[port |-> p, block |-> r]}
      /\ UNCHANGED <<client, file, port, sent, requests>>
  BY <1>1, <1>2, <1>3, <1>7 DEF ReceiveBlock, SendAck, clientVars
<1>9. r \in {b, b + 1} /\ r <= sent
  BY <1>3, <1>4, <1>6
<1>10. \A a \in toClient : a.block \in Nat
  BY DEF UploadTypeOK
<1>11. /\ \A a \in toClient' : a.port = p /\ a.block <= r
       /\ \A a \in toClient' : a.block \in Nat
  BY <1>6, <1>8, <1>9, <1>10
<1>12. ASSUME m.packet.number = b + 1, HasBytes(m.packet)
       PROVE  /\ writeAddress' = b + 2
              /\ \A n \in Blocks : n <= b + 1 =>
                   upload'[n] = [file |-> file, number |-> n]
  <2>1. ProgramBlock(m.packet)
    BY <1>1, <1>7, <1>12 DEF ReceiveBlock
  <2>2. /\ writeAddress' = b + 2
        /\ upload' = IF b + 1 \in Blocks THEN [upload EXCEPT ![b + 1] = m.packet]
                     ELSE upload
    BY <1>6, <2>1 DEF ProgramBlock
  <2>3. \A n \in Blocks : n \in Nat /\ (n <= b + 1 => n <= b \/ n = b + 1)
    BY DEF Blocks
  <2>4. m.packet = [file |-> file, number |-> b + 1]
    BY <1>4, <1>12
  <2>5. upload \in [Blocks -> Packet \cup {Erased}]
    BY DEF UploadTypeOK
  <2> QED
    BY <1>6, <2>2, <2>3, <2>4, <2>5
<1>13. ASSUME ~(m.packet.number = b + 1 /\ HasBytes(m.packet))
       PROVE  UNCHANGED <<upload, writeAddress>>
  BY <1>1, <1>7, <1>13 DEF ReceiveBlock
<1>14. CASE IsLast(m.packet)
  <2>1. /\ conns' = [conns EXCEPT ![p] = Closed]
        /\ toServer' = {k \in toServer : k.port # p}
        /\ main' = "check"
    BY <1>1, <1>14 DEF ReceiveBlock, CleanupWrite
  <2>2. m.packet.number = b + 1 /\ b + 1 = Packets[file] /\ b >= 1
    BY <1>4, <1>6, <1>7, <1>14
  <2>3. NoTransfer'
    BY <1>5, <2>1 DEF NoTransfer, InTransfer, UploadTypeOK, Closed
  <2>4. toServer' = {}
    BY <1>4, <2>1 DEF ClientInv
  <2>5. \A n \in Blocks : n <= b => upload'[n] = [file |-> file, number |-> n]
    <3>1. \A n \in Blocks : n \in Nat /\ (n <= b => n <= b + 1)
      BY DEF Blocks
    <3> QED
      BY <1>6, <1>12, <1>13, <2>2, <3>1
  <2>6. upload'[1] = [file |-> file, number |-> 1]
    BY <2>2, <2>5 DEF Blocks
  <2>7. \A n \in Filled(file) \cap Blocks : upload'[n] = [file |-> file, number |-> n]
    <3> SUFFICES ASSUME NEW n \in Filled(file), n \in Blocks, n > b
                 PROVE  upload'[n] = [file |-> file, number |-> n]
      BY <2>5 DEF Blocks
    <3>1. n = b + 1
      BY <2>2 DEF Filled, Blocks
    <3>2. HasBytes(m.packet)
      BY <1>4, <2>2, <3>1 DEF Filled
    <3> QED
      BY <1>12, <2>2, <3>1, <3>2
  <2>8. ReceivedWholeFile'
    BY <2>6, <2>7 DEF ReceivedWholeFile, HasMetadata, Whole, Filled, HasBytes
  <2>9. ClientInv'
    BY <1>4, <1>8, <1>9, <1>11, <2>3, <2>4, <1>6 DEF ClientInv
  <2> QED
    BY <2>3, <2>8, <2>9 DEF TransferInv, NoTransfer
<1>15. CASE ~IsLast(m.packet)
  <2>1. /\ conns' = [conns EXCEPT ![p].block = r]
        /\ toServer' = toServer /\ main' = main
    BY <1>1, <1>2, <1>3, <1>7, <1>15 DEF ReceiveBlock
  <2>2. r < Packets[file]
    BY <1>3, <1>4, <1>6, <1>7, <1>15
  <2>3. conns'[p].block = r /\ \A q \in Pcbs : conns'[q].open => q = p
    BY <1>5, <2>1, <1>1, ReceivingTransfer DEF InTransfer, UploadTypeOK
  <2>4. HasBytes(m.packet)
    BY <1>15 DEF HasBytes
  <2>5. /\ writeAddress' = r + 1
        /\ \A n \in Blocks : n <= r => upload'[n] = [file |-> file, number |-> n]
    <3>1. CASE m.packet.number = b + 1
      BY <1>3, <1>12, <2>4, <3>1
    <3>2. CASE m.packet.number # b + 1
      BY <1>3, <1>6, <1>13, <3>2
    <3> QED
      BY <3>1, <3>2
  <2>6. r \in {sent - 1, sent}
    BY <1>3, <1>4, <1>6
  <2>7. ReceivedWholeFile'
    BY <2>1 DEF ReceivedWholeFile, ReceiveBlock
  <2>8. InTransfer(p)'
    BY <1>4, <1>8, <1>11, <2>2, <2>3, <2>5, <2>6 DEF InTransfer
  <2>9. TransferInv'
    BY <2>3, <2>8 DEF TransferInv
  <2>10. ClientInv'
    <3>1. \A a \in toClient' : a.block <= sent /\ a.block # Packets[file]
      BY <1>6, <1>9, <1>11, <2>2
    <3> QED
      BY <1>4, <1>8, <2>1, <3>1 DEF ClientInv
  <2> QED
    BY <2>7, <2>9, <2>10
<1> QED
  BY <1>14, <1>15

LEMMA WholeStep ==
  ASSUME UploadTypeOK, WholeInv, [SteadyNext]_uploadVars
  PROVE  WholeInv'
<1>1. ASSUME UNCHANGED <<upload, conns, writeAddress, clientVars, network>>,
             main' # "check" \/ main' = main
      PROVE  WholeInv'
  <2>1. ReceivedWholeFile'
    BY <1>1, KeepsWhole DEF WholeInv
  <2>2. TransferInv'
    BY <1>1 DEF WholeInv, TransferInv, InTransfer, clientVars, network
  <2>3. ClientInv'
    BY <1>1 DEF WholeInv, ClientInv, NoTransfer, clientVars, network
  <2> QED
    BY <2>1, <2>2, <2>3 DEF WholeInv
<1>2. ASSUME Boot
      PROVE  WholeInv'
  <2>1. NoTransfer' /\ UNCHANGED <<clientVars, network>> /\ main' = "poll"
    BY <1>2 DEF Boot, NoTransfer, Closed
  <2>2. ReceivedWholeFile' /\ TransferInv'
    BY <2>1 DEF ReceivedWholeFile, TransferInv, NoTransfer
  <2>3. ClientInv'
    BY <2>1 DEF WholeInv, ClientInv, clientVars, network
  <2> QED
    BY <2>2, <2>3 DEF WholeInv
<1>3. CASE CheckJson \/ EraseStorage \/ ProgramStorage \/ UNCHANGED uploadVars
  BY <1>1, <1>3 DEF CheckJson, EraseStorage, ProgramStorage, uploadVars, serverVars
<1>4. CASE Reboot \/ PowerFails
  BY <1>2, <1>4 DEF Reboot, PowerFails
<1> QED
  BY <1>3, <1>4, WholeByStart, WholeByAck, WholeByRequest, WholeByBlock DEF SteadyNext

\* A transfer ends only when its whole file is in the upload region
\* (tftpserver.cpp:206, "then we've received the whole file"), whatever the
\* network loses, repeats or delays and whenever power fails, for a host that
\* neither gives an upload up nor repeats its request.
THEOREM WholeFileReceived ==
  ASSUME MaxRetries = 0, Patient
  PROVE  UploadSpec => []ReceivedWholeFile
<1>1. UploadTypeOK /\ UploadNext => SteadyNext
  <2>1. UploadTypeOK => ~RepeatRequest /\ ~GiveUp
    BY DEF UploadTypeOK, RepeatRequest, GiveUp
  <2> QED
    BY <2>1 DEF UploadNext, SteadyNext
<1>2. UploadTypeOK /\ WholeInv /\ [UploadNext]_uploadVars => WholeInv'
  BY <1>1, WholeStep
<1>3. UploadSpec => []WholeInv
  BY <1>2, WholeInit, UploadTypeCorrect, PTL DEF UploadSpec
<1>4. WholeInv => ReceivedWholeFile
  BY DEF WholeInv
<1> QED
  BY <1>3, <1>4, PTL
=============================================================================
