---------------------------- MODULE ConfigUpload ----------------------------
(***************************************************************************)
(* A new configuration on its way from the host's file to core 1: the TFTP *)
(* server (tftpserver.cpp) programs it into the upload region of the flash,*)
(* main's loop (remora.cpp) checks it, moves it to the storage region and  *)
(* reboots, and core 1 loads it at boot.  The network may lose, duplicate, *)
(* delay and reorder packets, and power may fail.                          *)
(***************************************************************************)
EXTENDS StorageLayout

CONSTANTS
  Files,          \* the configuration files a host may upload
  JsonLength,     \* JsonLength[f]: the bytes of f
  Corrupt,        \* files whose metadata give another checksum than the JSON's
  Empty, Torn,    \* what a storage region holds that holds no file
  RegionSize,     \* the blocks of 512 bytes of the upload region
  Pcbs,           \* lwIP's UDP control blocks left for transfers
  MaxUploads,     \* bound: how often the host starts an upload
  MaxRetries,     \* how often it repeats the write request of an upload
  Patient,        \* TRUE: the host never gives an upload up
  PowerMayFail    \* TRUE: power may fail at any moment

ASSUME FilesAssumption ==
  Files # {} /\ JsonLength \in [Files -> Nat] /\ Corrupt \subseteq Files
ASSUME RegionAssumption ==
  /\ Empty \notin Files /\ Torn \notin Files /\ Empty # Torn
  /\ RegionSize \in Nat \ {0}
ASSUME UploadBoundsAssumption ==
  /\ Pcbs # {}
  /\ MaxUploads \in Nat /\ MaxRetries \in Nat
  /\ Patient \in BOOLEAN /\ PowerMayFail \in BOOLEAN

\* The TFTP data packets of a file; the first holds the metadata.
Packets == [f \in Files |-> PacketCount(JsonLength[f])]

\* A block of the upload region holds a packet of a file, or nothing.
Blocks == 1 .. RegionSize
Packet == [file : Files, number : Nat \ {0}]
Erased == [file |-> Empty, number |-> 0]

\* The last packet of a file is short, and may have no bytes at all.
IsLast(p) == p.number = Packets[p.file]
HasBytes(p) == ~(IsLast(p) /\ EndsEmpty(JsonLength[p.file]))
Filled(f) == {n \in 1 .. Packets[f] : HasBytes([file |-> f, number |-> n])}
Fits(f) == Filled(f) \subseteq Blocks

Regions == Files \cup {Empty, Torn}

Closed == [open |-> FALSE, block |-> 0]
Connections == {Closed} \cup [open : {TRUE}, block : Nat]

VARIABLES
  upload, storage,      \* the flash
  conns,                \* a transfer's control block and its args->block
  writeAddress,         \* Flash_Write_Address, in blocks
  crc32,                \* the global crc32: still "zero", or "used"
  main,                 \* where main's loop is; newJson is main = "check"
  core1, config,        \* is core 1 running, and the configuration it loaded
  client, file, port, sent, retries, uploads,  \* the host's TFTP client
  requests, toServer, toClient                 \* packets under way

serverVars == <<conns, writeAddress, crc32, main, core1, config>>
clientVars == <<client, file, port, sent, retries, uploads>>
network == <<requests, toServer, toClient>>
uploadVars == <<upload, storage, serverVars, clientVars, network>>

UploadTypeOK ==
  /\ upload \in [Blocks -> Packet \cup {Erased}]
  /\ storage \in Regions
  /\ conns \in [Pcbs -> Connections]
  /\ writeAddress \in Nat \ {0}
  /\ crc32 \in {"zero", "used"}
  /\ main \in {"poll", "check", "erase", "program", "reboot", "fault"}
  /\ core1 \in BOOLEAN
  /\ config \in Regions
  /\ client \in {"idle", "request", "data"}
  /\ file \in Files
  /\ port \in Pcbs
  /\ sent \in Nat
  /\ retries \in 0 .. MaxRetries
  /\ uploads \in 0 .. MaxUploads
  /\ requests \in Nat
  /\ toServer \subseteq [port : Pcbs, packet : Packet]
  /\ toClient \subseteq [port : Pcbs, block : Nat]

UploadInit ==
  /\ upload = [b \in Blocks |-> Erased]
  /\ storage \in Files \cup {Empty}
  /\ conns = [p \in Pcbs |-> Closed]
  /\ writeAddress = 1
  /\ crc32 = "zero"
  /\ main = "poll"
  /\ core1 = TRUE /\ config = storage
  /\ client = "idle" /\ file \in Files /\ port \in Pcbs /\ sent = 0
  /\ retries = 0 /\ uploads = 0
  /\ requests = 0 /\ toServer = {} /\ toClient = {}

(***************************************************************************)
(* The host: upload_config.py and its TFTP client.  A packet stays under   *)
(* way until its connection ends: it may be delivered never, late or more  *)
(* than once, which also stands for the client's own retransmissions.      *)
(***************************************************************************)
StartUpload(f) ==
  /\ client = "idle" /\ uploads < MaxUploads
  /\ client' = "request"
  /\ file' = f /\ sent' = 0
  /\ retries' = 0 /\ uploads' = uploads + 1
  /\ requests' = requests + 1
  /\ toClient' = {}
  /\ UNCHANGED <<upload, storage, serverVars, port, toServer>>

RepeatRequest ==
  /\ client = "request" /\ retries < MaxRetries
  /\ retries' = retries + 1
  /\ requests' = requests + 1
  /\ UNCHANGED <<upload, storage, serverVars, client, file, port, sent, uploads,
                 toServer, toClient>>

\* The first acknowledgement names the port of the transfer; each one that
\* acknowledges what was sent last brings the next packet, or the end.
HearAck(a) ==
  /\ a \in toClient
  /\ a.block = sent
  /\ \/ client = "request"
     \/ client = "data" /\ a.port = port
  /\ port' = a.port
  /\ IF sent = Packets[file]
     THEN client' = "idle" /\ UNCHANGED <<sent, toServer>>
     ELSE /\ client' = "data"
          /\ sent' = sent + 1
          /\ toServer' = toServer \cup
               {[port |-> a.port, packet |-> [file |-> file, number |-> sent + 1]]}
  /\ UNCHANGED <<upload, storage, serverVars, file, retries, uploads,
                 requests, toClient>>

GiveUp ==
  /\ ~Patient
  /\ client # "idle"
  /\ client' = "idle"
  /\ UNCHANGED <<upload, storage, serverVars, file, port, sent, retries, uploads,
                 network>>

(***************************************************************************)
(* Core 0: the TFTP server.  A write request takes a control block of its  *)
(* own, stops core 1 and erases the upload region; without a control block *)
(* it is dropped.                                                          *)
(***************************************************************************)
SendAck(p, n) == toClient' = toClient \cup {[port |-> p, block |-> n]}

\* The end of a transfer frees its control block: what else was sent to its port
\* is lost.
CleanupWrite(p) ==
  /\ conns' = [conns EXCEPT ![p] = Closed]
  /\ toServer' = {m \in toServer : m.port # p}

KeepRegion == upload  \* a mutant: the region is not erased
ErasedRegion == [b \in Blocks |-> Erased]

ZeroAddress == 0  \* a mutant: off by one
StartAddress == 1

ProcessWrite(p) ==
  /\ ~conns[p].open
  /\ conns' = [conns EXCEPT ![p] = [open |-> TRUE, block |-> 0]]
  /\ upload' = ErasedRegion
  /\ writeAddress' = StartAddress
  /\ core1' = FALSE
  /\ SendAck(p, 0)

WriteRequest ==
  /\ main = "poll"
  /\ requests > 0
  /\ requests' = requests - 1
  /\ \/ \E p \in Pcbs : ProcessWrite(p)
     \/ /\ \A p \in Pcbs : conns[p].open
        /\ UNCHANGED <<upload, conns, writeAddress, core1, toClient>>
  /\ UNCHANGED <<storage, crc32, main, config, clientVars, toServer>>

\* The block a transfer expects.
AnyBlock(c, p) == TRUE  \* a mutant: the block number is not compared
Expected(c, p) == p.number = c.block + 1

\* The write address is global, and what it names beyond the upload region is
\* the storage region, which follows it.
ProgramBlock(p) ==
  /\ writeAddress' = writeAddress + 1
  /\ IF writeAddress \in Blocks
     THEN upload' = [upload EXCEPT ![writeAddress] = p] /\ UNCHANGED storage
     ELSE storage' = Torn /\ UNCHANGED upload

\* IAP_wrq_recv_callback: an expected block is programmed, any block is
\* acknowledged with the last number received, a short one ends the transfer.
ReceiveBlock(m) ==
  LET p == m.packet
      c == conns[m.port]
      received == IF Expected(c, p) THEN c.block + 1 ELSE c.block
  IN /\ main = "poll"
     /\ m \in toServer /\ c.open
     /\ IF Expected(c, p) /\ HasBytes(p)
        THEN ProgramBlock(p)
        ELSE UNCHANGED <<upload, storage, writeAddress>>
     /\ SendAck(m.port, received)
     /\ IF IsLast(p)
        THEN CleanupWrite(m.port) /\ main' = "check"
        ELSE /\ conns' = [conns EXCEPT ![m.port].block = received]
             /\ UNCHANGED <<toServer, main>>
     /\ UNCHANGED <<crc32, core1, config, clientVars, requests>>

(***************************************************************************)
(* main's loop looks at newJson after each packet: checkJson, then         *)
(* moveJson and the reboot.                                                *)
(***************************************************************************)
\* The metadata are in the first block; anything else there makes a length
\* out of range, and nothing is summed up.
HasMetadata == upload[1].number = 1

\* The JSON of the metadata's file follows.  What lies beyond the region is in
\* the storage region: it may or may not be right.
Whole(f) ==
  \A n \in Filled(f) \cap Blocks : upload[n] = [file |-> f, number |-> n]

ChecksumFits ==
  LET f == upload[1].file
  IN crc32 = "zero" /\ f \notin Corrupt /\ Whole(f)

CheckJson ==
  /\ main = "check"
  /\ IF HasMetadata /\ LengthAccepted(JsonLength[upload[1].file])
     THEN /\ crc32' = "used"
          /\ main' \in IF ~ChecksumFits THEN {"poll"}
                       ELSE IF Fits(upload[1].file) THEN {"erase"}
                       ELSE {"poll", "erase"}
     ELSE main' = "poll" /\ UNCHANGED crc32
  /\ UNCHANGED <<upload, storage, conns, writeAddress, core1, config,
                 clientVars, network>>

EraseStorage ==
  /\ main = "erase"
  /\ main' = "program"
  /\ storage' = Empty
  /\ UNCHANGED <<upload, conns, writeAddress, crc32, core1, config,
                 clientVars, network>>

\* A file so short that it takes no page is not programmed, and its copy into an
\* array without bytes overwrites the stack, so that core 0 may fault.  A file
\* that reached into the storage region has just lost its end.
CutOff(f) == IF TakesNoPage(JsonLength[f]) THEN Empty ELSE Torn  \* a mutant
Programmed(f) ==
  IF TakesNoPage(JsonLength[f]) THEN Empty
  ELSE IF Fits(f) /\ StoredWhole(JsonLength[f]) THEN f ELSE Torn

ProgramStorage ==
  /\ main = "program"
  /\ main' = "reboot" \/ (main' = "fault" /\ TakesNoPage(JsonLength[upload[1].file]))
  /\ storage' = Programmed(upload[1].file)
  /\ UNCHANGED <<upload, conns, writeAddress, crc32, core1, config,
                 clientVars, network>>

\* The RAM is initialised and core 1 launched; jsonFromFlash loads the storage
\* region, or the default configuration if it is Empty.  (The write address is in
\* fact 0; no transfer is open that could use it.)
Boot ==
  /\ conns' = [p \in Pcbs |-> Closed]
  /\ writeAddress' = 1
  /\ crc32' = "zero"
  /\ main' = "poll"
  /\ core1' = TRUE /\ config' = storage'
  /\ UNCHANGED <<upload, clientVars, network>>

Reboot == main = "reboot" /\ UNCHANGED storage /\ Boot

\* Power fails, possibly in the middle of erasing or programming.
PowerFails ==
  /\ PowerMayFail
  /\ \/ main = "erase" /\ storage' \in {storage, Empty, Torn}
     \/ main = "program" /\ storage' \in {Empty, Torn, Programmed(upload[1].file)}
     \/ main \notin {"erase", "program"} /\ UNCHANGED storage
  /\ Boot

UploadNext ==
  \/ \E f \in Files : StartUpload(f)
  \/ RepeatRequest
  \/ \E a \in toClient : HearAck(a)
  \/ GiveUp
  \/ WriteRequest
  \/ \E m \in toServer : ReceiveBlock(m)
  \/ CheckJson \/ EraseStorage \/ ProgramStorage \/ Reboot
  \/ PowerFails

UploadSpec == UploadInit /\ [][UploadNext]_uploadVars

-----------------------------------------------------------------------------
\* The flash is programmed only where it is erased (tftpserver.cpp:182,
\* remora.cpp:238-266): the server programs an erased block of the upload region
\* and nothing beyond it, however many transfers share the write address, and the
\* move programs an empty storage region, whenever power fails.
ProgramsErased ==
  [][ /\ writeAddress' > writeAddress =>
           writeAddress \in Blocks /\ upload[writeAddress] = Erased
      /\ main = "program" /\ storage' # storage => storage = Empty
    ]_uploadVars

\* A transfer ends when the whole file has been received (tftpserver.cpp:206,
\* "then we've received the whole file and so we can quit").
ReceivedWholeFile == main = "check" => HasMetadata /\ Whole(upload[1].file)

\* An upload that is good and complete is accepted (remora.cpp:201-224: the
\* checksum of the upload is compared with the "crc32 of JSON").
GoodUploadAccepted ==
  [][ main = "check" /\ main' = "poll" /\ ~core1' =>
        ~HasMetadata \/ ~Whole(upload[1].file) \/ upload[1].file \in Corrupt
    ]_uploadVars

\* The stored configuration changes only when main moves an accepted upload
\* into its place (configuration.h:40, "32kB for the upload location and the
\* next 32kB for storage"), whatever arrives and whatever is given up.
StorageChangesByMove ==
  [][storage' # storage => main \in {"erase", "program"}]_uploadVars

\* What was accepted is what the machine runs after the forced reboot
\* (remora.cpp:725-730, "Moving new config file to Flash storage").
AcceptedIsLoaded ==
  [][main = "reboot" /\ main' = "poll" => config' = upload[1].file]_uploadVars
=============================================================================
