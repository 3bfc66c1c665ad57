# A TLA+ model of Remora for the RP2040 and W5500

Remora is the firmware of a motion controller.  LinuxCNC, on a PC, sends it UDP
datagrams with a frequency for each joint; the firmware turns the frequencies
into step pulses and answers with the positions it has reached.  It runs on both
cores of an RP2040: core 0 does the networking (lwIP over a W5500 in MACRAW
mode), core 1 makes the pulses in a timer interrupt and runs everything else
below it.  The cores share plain memory and one flag.

This directory holds specifications of that program, model-checked with TLC and,
for the most part, proved with TLAPS.  Source references are to the repository's root,
without the `src/` that `PROJECT.json` puts before them.

## 1. The system

| Part | Source | State | Operations |
|---|---|---|---|
| Data exchange | `remora.cpp` 653-683, 849-923; `remora.h`; `thread/pruThread.cpp` | two receive buffers, two transmit buffers, an index into each, `semaphore` | a datagram arrives (`udp_data_callback`), a base tick (`pruThread::run`), RESET zeroes a buffer |
| Step generators | `modules/stepgen/stepgen.cpp` | accumulator, `rawCount`, saved buffer pointers | `makePulses`, `stopPulses`, once per tick each |
| Communication watchdog | `modules/comms/RemoraComms.cpp` | `data`, `status`, `noDataCount` | `update` (servo thread), `dataReceived` (core 0), `getStatus` (state machine) |
| Core 1 state machine | `remora.cpp` 506-651 | `currentState` | SETUP, START, IDLE, RUNNING, RESET |
| Servo thread, I/O modules | `thread/pruThread.cpp`, `modules/digitalPin`, `modules/blink` | `execute`, pin states | run once per servo interrupt, below interrupts |
| Timers and interrupts | `thread/timer.cpp`, `interrupt/` | the alarms | `timerTick`: the base tick runs in the interrupt, the servo tick only sets `execute` |
| Configuration upload | `tftpserver.cpp`, `remora.cpp` 172-267, 720-733 | flash (upload and storage region), transfers, write address, `crc32`, `newJson` | write request, data block, `checkJson`, `moveJson`, reboot |
| Configuration load | `remora.cpp` 270-480 | `strJson`, `doc`, the threads and modules | `jsonFromFlash`, `deserialiseJSON`, `configThreads`, `loadModules`, once per boot |
| Ethernet port | `port/lwip/w5x00_lwip.c`, `remora.cpp` 756-825 | the W5500's ring, one frame buffer | poll, receive, transmit |
| Boot | `remora.cpp` 686-737 | - | initialise, launch core 1, poll for ever |

How the parts meet:

* Core 0's callback and core 1's base interrupt meet in the ping-pong buffers and
  in `baseThread->semaphore`, which is tested and set in two separate accesses and
  is neither atomic nor volatile.
* Core 0 tells the watchdog of each datagram through the shared flag `data`.
* The state machine asks the watchdog for `status`, and when it is lost RESET
  zeroes the receive buffer in force, while core 0 may be receiving.
* A TFTP write request makes core 0 stop core 1; only a reboot starts it again.

What is hard: the interleaving of two cores and an interrupt over unprotected
memory; the stale pointers both cores keep across a swap; a notification that is
lost; fields that are never initialised; a transfer protocol whose packets are
lost, repeated and late, over a flash whose write address is global; power that
fails.  `PROJECT.json` lists these hazards by line, each with the properties that
would catch it or the reason why none does.

What makes each part correct:

* *Data exchange*: a step generator never combines two datagrams, a RESET damages only
  what races it, no step is lost to the swaps, no core waits for ever.
* *Watchdog and state machine*: a silent host is noticed in bounded time and brings
  the machine to rest.
* *Upload*: what is stored is a whole and accepted file, the flash is never
  programmed twice, a good upload takes effect, a bad one does no harm.
* *Step generators*: the motor moves by the steps that were commanded, in the
  commanded direction, whatever overflows.
* *Servo thread and I/O*: outputs follow the command in force, sampled inputs are
  reported as they were.
* *Ethernet port*: frames stay frames; buffers come back; the ring is emptied.
* *The whole*: a good upload takes effect while LinuxCNC goes on being answered.

## 2. The modules

| Module | Models | Extends |
|---|---|---|
| `HostExchange` | what the exchange promises LinuxCNC: no buffers, no lock, no cores | - |
| `DataExchange` | the buffers, the semaphore, callback, base tick and RESET | - (`HostExchange` by `INSTANCE`) |
| `CommsWatchdog` | RemoraComms and core 1's state machine | - |
| `WatchdogTiming` | CommsWatchdog with two history variables, and its promises | `CommsWatchdog` |
| `Controller` | both cores, both interrupts, a host that may die | `DataExchange`, `CommsWatchdog` |
| `ServoThread` | the servo thread's whole run: watchdog, digital outputs and inputs, RESET | `WatchdogTiming` |
| `Stepgen` | accumulator, step bit, pins, raw count and motor of each joint | - |
| `StorageLayout` | the byte counts of upload_config.py, checkJson, moveJson | - |
| `ConfigUpload` | host, network, TFTP server, flash, check, move and reboot | `StorageLayout` |
| `Lifecycle` | ConfigUpload on the machine it resets: boot, ticks, datagrams | `ConfigUpload` |
| `EthernetPort` | frames in the W5500's ring, the pools of pbufs and control blocks | - |
| `*_proofs` | theorems | the module and `TLAPS`; compositions also the proofs of their parts |
| `MC*` | the small instances TLC checks | the module |

The definitions named as mutants (`KeepSemaphore`, `TripsLate`, ...) are the
program with a plausible bug.  No specification uses them: each stands just before
the definition it would replace and serves to see that a property can fail.

### DataExchange and HostExchange

`c0` is the place in `udp_data_callback`, `c1` the place in the base interrupt, `left` the
bytes RESET has still to zero; `rxBuffer`, `txBuffer`, `jRx`, `jTx` and `pruRxData` are the
pointers each keeps.  RESET runs below the interrupt, so it moves only while `c1` is `"out"`.
A frequency is a word of bytes `0..Top` of `Radix` values in two's complement, at the
`Address`es it has in `rxData_t`: the header first, then the joints' words, then `jointEnable`.

Each access to the semaphore, to a buffer's index, to the enable bits and to a header is an
action of its own, and RESET zeroes one byte per action.  Two actions take several bytes at once:

* `CopyLow` copies the header and all frequencies.  Only RESET may be at the same bytes
  (`ShortTicks` excludes a tick that still holds a pointer to this buffer, and whatever is said of the
  words a tick reads depends on it).  Where RESET, going down, meets
  the copy, going up, at some byte, the bytes below it end up zero and those above it the
  datagram's, and a copy at the moment RESET is at that byte leaves the same.
* `ReadFreq` reads a joint's word; RESET stands still meanwhile.

* `Receive` takes the two pointers, `CopyLow` and `CopyHigh` are the `memcpy` in two
  steps, `Dispatch` reads the header back from the buffer (RESET may have zeroed
  it), `Spin0`, `Take0` and `Release0` are the semaphore, `SwapTxBuffers` and
  `SwapRxBuffers` the swaps, `SetHeader`, `Notify` and `Reply` the rest.
* `Tick`, `Spin1`, `Take1`, then for each joint `Fetch`, `ReadEnable`, `ReadFreq`,
  `StoreFeedback`, and `Release1` are the base tick.  Joints are served in any
  order, since the configuration file decides it.  Whether the accumulator brings a
  step in this very tick is left open here (it is `Stepgen`'s); the direction is not.
* `ResetBegin` takes the pointer, `ResetByte` zeroes one of the bytes `left`.  With
  `ResetInOrder` that is the last one left, as the source has it.  The comment at
  remora.cpp:630 takes the buffer for volatile, but `rxBuffer[]` in `remora.h` is not, so without
  `ResetInOrder` it is any one: the build may reorder the stores.

So torn words exist.  If RESET holds a pointer to a buffer that core 0 has swapped out and is
filling with the next WRITE, it may zero some bytes of a frequency and leave others after
the enable bits were copied; once that WRITE is in force a joint steps by the torn word, forward instead of
backward if it was the top byte that went.  `raced` marks such a datagram (RESET was at that
buffer when the callback took its pointer), and a WRITE in force keeps the mark (`force.raced`).
The properties say that this is the only way: of a WRITE without the mark an enabled joint
finds its own whole frequency, because a RESET that began later disables all joints before it
comes to a frequency (if the build keeps the order).

The semaphore is a data race, so the compiler decides what it is.  `LockOutcomes`
names the outcomes the build can produce: `"reload"`, what the source says;
`"deleted"`, a loop without side effects that the compiler assumes to end;
`"hoisted"`, a loop that reads once and then never ends; `"elided"`, core 0's store
of `true` dropped because its store of `false` follows.  The safety properties are
checked, and proved, for all of them; the liveness properties and the violation
runs use `"reload"`, the reading most favourable to the program.

`ShortTicks` says that a base tick is over before core 0 has swapped in one datagram
and begun the next.  The base interrupt comes every 25 us (40 kHz) and must end
within them; receiving a frame, sending the reply and receiving the next over SPI
takes longer.  Only `StepObeysOneCommand` and `KeepsPromise` depend on it: without it a
step generator could still hold a pointer to a buffer that core 0 is filling again.

`force` and `prior` are history: the last two WRITE bodies swapped in.  `overtaken`
says that core 0 has swapped during the present tick.

`HostExchange` is the same service without its machinery: a request is asked, takes
effect at one moment or never, and is answered accordingly; joints step by the command
in force or, in the tick in which it was replaced, by its predecessor.  A command asked for
during a reset may be damaged: the joints it moves may move forward instead, but no other joint
moves; with `Ordered` that is the only time.  The refinement
mapping is the `INSTANCE` named `Promise`: a request is at hand while `c0` is in the
callback, it has taken effect once the last swap it needs is over, and the tick is late
from then on if it was overtaken.

### CommsWatchdog, WatchdogTiming and ServoThread

`update` is two steps, because the flag `data` is tested at one moment and cleared
at a later one and core 0 may set it in between; then the rest of the servo run follows
(`update = "rest"`) and `RunEnd` clears `execute`, so that servo interrupts that came
meanwhile are forgotten.  The constructor of RemoraComms initialises nothing, so
`WatchdogInit` allows any values.  `ST_STOP` and `ST_WDRESET` are never entered by any
statement and are not states of the model.  `WatchdogTiming` counts the updates since
core 0 last called `dataReceived`.

`ServoThread` fills in that rest: each DigitalPin takes both buffer pointers, then moves
one bit, while core 0 copies, swaps, tells the watchdog and replies.  Outputs words and
pin levels are sets of pins.  RESET takes its pointer and zeroes later.  Inputs move at
any time.  `force` and `prior` are the outputs of the last two WRITEs, `sampled` the inputs
sampled since the last swap, `sent` those of the swap before, on their way to the host.
Two assumptions bound it: one pin's update is shorter than the time between two
datagrams, and a pin has a data bit of its own.

### Controller

Conjoins exchange and watchdog: `NotifyStep` is DataExchange's `Notify` and
CommsWatchdog's `DataReceived` at once, `ResetEnd` ends RESET in both.  All
thread-level steps and the servo interrupt wait until a base tick is over (both
interrupts have the same priority).  `HostDies` stops the datagrams for good.

### Stepgen

A tick is `pruThread::run`: the debugging signal, `makePulses` of each joint in any order
(`Accumulate`, and if the step bit changed `SetDirection`, `RaiseStep`, `CountStep`), then
`stopPulses` of each, then the debugging signal again.  Each tick may give each joint any
command.  The add value is a float product cut to an int32_t: `Magnitudes` allows both
integers next to the exact quotient, since the float may have been rounded up.  The
accumulator wraps; `travel` and `wraps` are history, the sum without wrapping and the
number of wraps.  `Driven` sets a pin and moves every motor whose step input rises, by the
level of its direction input; so a pin shared by two drivers, or with the debugging signal,
does what it does on the board.

### ConfigUpload, StorageLayout and Lifecycle

The unit is a TFTP packet, which is a block of 512 bytes of flash.  The first packet
of a file carries the metadata, the last is short, and empty if the file is a
multiple of 512 bytes.  How many packets and flash pages a file takes, and whether
it is stored whole, is computed from its length in bytes by `StorageLayout`.  A file is
`Corrupt` if its metadata name another checksum; the checksum itself is modelled
by what it tells: that the region holds the file, and that the sum began with 0.
Packets under way stay so until their connection ends, and may be delivered never,
late or repeatedly.  A control block stands for a fresh port: what is under way to a
port is lost when its transfer ends.  `main` looks at `newJson` after every packet,
so `newJson` is `main = "check"`.  `PowerFails` may come at any time, in the middle of
erasing or programming too.  A file larger than the upload region reaches into the
storage region, which follows it.

`Lifecycle` adds what an upload does to the rest: core 1 sets up and ticks, core 0 answers
datagrams, and a write request resets core 1 wherever it is, also inside a tick with
the semaphore set.  A datagram before SETUP is over goes through null pointers: it is
lost, or core 0 hangs.  The buffers are left out, and the semaphore is taken in one step:
its races are DataExchange's.

### EthernetPort

Core 0 polls the two bytes of the received-size register by separate reads, twice, while
the chip may add a frame between any two of them (`ReadHigh` ... `ReadLow2` for both callers of
`getSn_RX_RSR`), reads the two-byte head and the body (`ReadHead`, `ReadBody`), takes a pbuf
or forgets the frame (`TakePbuf`), and passes it to lwIP.  lwIP is external: `Reassemble` keeps a
fragment, gives it up (`TimeOut`), or makes a chain of pbufs of a datagram that is complete, and
`Deliver` is the callback of its port with each of its returns:

* `Request`: the reply comes from the heap.  If there is no memory for it, `pbuf_free(NULL)` at
  remora.cpp:919 fails an assertion of lwIP (`lwipopts.h` does not switch assertions off), which
  may never return (`"stopped"`) or do no more than print.
* `NoControlBlock`, `BindFails`, `ChainReceived`: the three returns of the TFTP server that free
  nothing (tftpserver.cpp:289-293, 301-305, 165-168); what is lost there is counted in `lost`, and
  a failed bind loses the control block as well.
* `OpenTransfer`, `BlockReceived`, `EndTransfer`: a transfer begins, goes on, ends; each
  acknowledgement needs a pbuf and is left out if there is none.  A packet to port 69 that is no
  write request, or one without memory for a transfer, gives its control block back.
* `OtherInput`: what lwIP or EthernetTasks gives back.

`open` counts the transfers, `held` the pbufs the frame at hand has, `kept` those of fragments.  Beside each
frame in the ring stands the address the chip wrote it to; only `InStep` looks at it.  Pointers
and registers have two bytes of `Radix` values and wrap.

## 3. What TLC checks

| Run | Question | Instance | Result |
|---|---|---|---|
| `exchange_safety` | are commands whole, is feedback kept, is the semaphore owned, is HostExchange implemented? | two joints, words of two one-bit bytes, READ, WRITE and other datagrams in any order, a short READ, RESET byte by byte at any time, all lock outcomes | holds, 1.4 million states |
| `exchange_feedback` | is the feedback that is sent the position? | one joint | **violated** |
| `watchdog_boot` | does the machine wait for data before it runs? | the code's own numbers, 40 and 255 | **violated** |
| `controller_rest` | does a running machine come to rest when the host dies; do callback and tick end? | one joint, tolerance 1, RESET in any order | holds, 91 thousand states |
| `controller_dead` | is a machine whose host is dead always brought to rest? | the same | **violated** |
| `servo_thread` | does the watchdog trip in time; do outputs obey and inputs arrive; do the outputs come to rest? | an inverted output and an input, any datagrams, tolerance 1 | holds, 1.5 million states |
| `stepgen` | is a step lost, invented or misdirected? | two joints with pins of their own, frequencies of either sign up to the thread's, an accumulator of 4 bits | holds |
| `stepgen_pin` | is the motor at the count on the default board? | its Y and Z axes | **violated** |
| `upload_retries` | are flash and stored configuration respected? | repeated requests until the control blocks are used up, uploads given up, a corrupt file, power failures | holds, 2.3 million states |
| `upload_checksum` | is a good upload accepted? | a corrupt upload before it | **violated** |
| `lifecycle` | does core 0 go on answering, does a good upload take effect? | two uploads of three kinds of files on a running machine | holds, 10 thousand states |
| `ethernet_port` | do frames, pointers and pbufs stay in order, is the ring emptied? | four frames of any of seven sorts and two lengths, fragments, a ring of 13 bytes, bytes of 2 bits, two pbufs, one control block | holds, 1.4 million states |

The properties, in words:

* `NoForeignCommand`: the enable bits the step generators find are the last WRITE's or none, and
  for an enabled joint the frequency is that WRITE's.  Only if that WRITE raced a RESET may
  bytes of it be zero instead.
* `StepObeysOneCommand`: a step obeys enable and frequency of one datagram, the one
  in force, or its predecessor if the swap came during this tick; in the direction of that
  frequency, or forward if that WRITE raced a RESET.  A joint whose word is zero never moves.
* `FeedbackHeld`: one of the transmit buffers holds each joint's raw count, but for
  the instant between counting and storing.
* `SemaphoreOwned`: the semaphore is set only while one of the cores is about to
  clear it, although each may clear what the other has set.
* `KeepsPromise`: DataExchange implements HostExchange; in particular a WRITE is acknowledged
  exactly if it came into force, as a whole, and only a command received during a reset may turn
  a backward step into a forward one.
* `CallbackEnds`, `TickEnds`: neither core waits for ever for the other.
* `TripsInTime`: `status` is false after `DATA_ERR_MAX + 2` silent updates, whatever
  the fields held at first and although `noDataCount` wraps.
* `RunningComesToRest`: from RUNNING with a dead host and no callback under way,
  the receive buffer in force comes to enable no joint.
* `OutputsObey`: an output pin moves only to what the WRITE in force says, or its predecessor
  if it was replaced during this very update, or to rest.
* `InputsReported`: an input sampled since the swap before is in the buffer that is swapped
  out, although the samples of one run may be split over both buffers.
* `OutputsComeToRest`: from RUNNING with a host never heard again the output pins come to rest
  and stay there.
* `CountIsTravel`: the raw count is the whole number of steps in the sum of the add values.
* `MotorIsAtCount`, `DirectionSteady`: the motor has moved as counted; no direction input
  changes while the step input is high.
* `StorageChangesByMove`, `AcceptedIsLoaded`, `ProgramsErased`: the stored configuration
  changes only when main moves an accepted one; the reboot loads what was accepted;
  the TFTP server programs erased blocks of the upload region and nothing beyond it, and
  `moveJson` programs an empty storage region.
* `GoodUploadAccepted`, `ReceivedWholeFile`: what ends a transfer is a whole file, and it is
  accepted unless it is corrupt.
* `AnsweredUnlessCut`, `FlagHasOwner`, `TakesEffectUnlessCut`: core 0 never waits for ever, the
  semaphore is set only by somebody who will clear it, and a good upload brings core 1 back
  with the new configuration; each unless a write request cut a tick off, the last also unless
  a datagram came before SETUP was over.
* `InStep`, `NoneIgnored`: but between its head and its body the read pointer is where the oldest
  frame was written, or at the write pointer if there is none; and no frame is skipped because its length seems larger than what has been received.
* `PbufsAccounted`, `RingDrains`: every pbuf is free, with the frame at hand, kept by lwIP, or lost by
  one of the three returns above; what has arrived is taken out of the ring even with an empty
  pool, unless lwIP's assertion stops core 0.

What the violated ones show:

* `exchange_feedback`: feedback is stored only when a joint steps, and only in the
  buffer current at that time.  A joint that stepped and then rests is reported at two
  positions in turn.
* `watchdog_boot`: `status` may be true from the start, and the machine runs before the
  first datagram.
* `controller_dead`: the notification of a WRITE falls between `if (data)` and
  `data = false`.  The machine stays in IDLE, where no RESET is ever due; if the host
  then dies, the joints the WRITE enabled stay enabled.
* `stepgen_pin`: pruThread's debugging signal is GPIO 6, the default board's Z axis steps on
  GP06: one unasked step per base tick.  (boardconfig.h also gives GP09 to the output AUX0 and to
  the direction of the A axis.)
* `upload_checksum`: `crc32` is global and continues from the last sum.

The exceptions that the holding properties name are real too: a WRITE received while RESET
is zeroing the buffer it goes to may come into force with a torn frequency; three returns of the TFTP
server lose the packet's pbuf, and a reply that cannot be had may stop core 0; a tick that is cut off leaves the
semaphore set, and core 0 hangs in the next datagram; a repeated write request erases the
region under the transfer that is going on, so `ReceivedWholeFile` is checked without such
requests; both cores can pass the semaphore at once, which swaps the buffers inside a tick, and
`exchange_safety` shows that this harms neither commands nor feedback.

### Bounds

* `MaxCount` bounds the raw count in both directions; one step suffices to tell the two
  transmit buffers apart.  Two commands suffice because a history of two is kept.
  `BackwardOrDisabled` are one that moves the first joint backward (the second has a frequency, but
  is disabled) and one whose frequencies are forward and must not be obeyed: enable and frequency of
  different datagrams would show, and so does a word torn in its top byte.  Two bytes of one bit
  are the smallest word of which a part can be zeroed.  Two joints let a swap or a byte of RESET fall between
  them.  `exchange_safety` zeroes in the source's order; the theorems cover every order and every width.
* `DataErrMax = 1`, `CountMax = 2` in `controller_*` and `servo_thread`: the counter counts,
  trips, wraps and is reset.  The theorem `WatchdogTrips` covers the code's 40 and 255.
* `controller_*`: the host sends WRITEs only, a READ notifies the watchdog in the same way.  Their
  frequencies are zero: the question is which joints stay enabled.  RESET zeroes in any order.
* `servo_thread`: one output and one input; the modules meet in the buffers only, each by its
  own bit, and two buffers of each kind let every stale pointer occur.
* `stepgen`: `Unit = 4`, `Half = 8`: four steps in the accumulator's range, so `MaxTravel = 11`
  (not quite three steps each way) overflows it both ways; frequencies -5, -3, 0, 1 and 5 of a thread frequency
  of 5 are the largest add value, a small one and ones whose float may round either way.
* Uploads: files of two and three packets (300, 700 and 512 bytes: the last makes the third
  packet empty), two control blocks (lwIP's default pool of four less the two servers), two uploads and up
  to two repetitions, which is one request more than there are control blocks.
  `RegionSize = 6` in `upload_retries` is just what two transfers of three packets fill: with
  the real 64 blocks and configurations of at most 10 kB (`JSON_BUFF_SIZE`) two transfers
  fill 42.
* `ethernet_port`: with `Radix = 4` the two-byte pointers wrap at 16, after three frames, and
  the high byte of the size changes with one; the ring holds three frames, or two long
  ones; two pbufs and one control block run out, and two fragments make the shortest chain.

### Views and symmetry

`LiveState`, `LiveController` and `LiveServo` leave out of a state what is written before it is
read again: the locals of a callback that has returned, the pointers of a joint or pin that has
been served, the header outside `Dispatch`, the frequencies of joints that no enable bit lets be read.  States with the same view have the same
continuations up to what is left out, no property of the runs speaks of what is left
out, and every action that changes anything changes the view, so enabledness and
fairness are the same too.  `LiveState` and `LiveController` also tell a pointer only by whether it is to the current
buffer: exchanging the two buffers of a kind maps steps to steps of the same action, and no
property and no fairness condition speaks of an index.  `upload_retries` uses the symmetry of the control blocks; it has safety properties
only.

### Fairness

* `Controller`: weak fairness of the callback and of the base tick, since each core executes its
  program.  Strong fairness of leaving the waiting loops: the loop reads the flag every few
  cycles, the other core holds it for a small part of a tick's 25 us or of a datagram's time,
  so it cannot miss for ever a flag that is clear again and again.  Strong fairness of the
  thread and of the servo interrupt, which a base tick interrupts again and again: a tick
  is shorter than its period.
* `ServoThread`: weak fairness of each core.  Base ticks are not in this model, so nothing
  interrupts the thread.
* `Lifecycle`: core 1 finishes what it does; core 0's wait for the semaphore hits one of the long
  free moments between ticks if they keep coming; the network delivers what is sent again
  and again, in the order the W5500 keeps it, so that neither packets nor the main loop wait
  for ever behind datagrams.  The host is patient (upload_config.py sets a "large timeout").
* `EthernetPort`: weak fairness of core 0.  That includes the chip's SENDOK.  Nothing is assumed of
  lwIP's timeouts.

Nothing is assumed of datagrams, of frames or of RESET: the host may stop at any time.

## 4. What is proved

For every value of the constants that satisfies the `ASSUME`s of the modules:

| Theorem | States |
|---|---|
| `TypeCorrect` | `Spec => []TypeOK` (DataExchange) |
| `CommandsIntact` | `Spec => []NoForeignCommand`, with RESET in either order |
| `StepsObeyOneCommand` | with `ShortTicks`, `Spec => StepObeysOneCommand` |
| `FeedbackKept` | `Spec => []FeedbackHeld` |
| `SemaphoreFreed` | `Spec => []SemaphoreOwned` |
| `PromiseKept` | with `ShortTicks`, `Spec => KeepsPromise`: the refinement of HostExchange |
| `TimingTypeCorrect`, `WatchdogTrips` | `TimingSpec => []TimingTypeOK`, `TimingSpec => []TripsInTime` |
| `ControllerIsExchange`, `ControllerIsWatchdog` | `ControllerSpec => Spec`, `ControllerSpec => WatchdogSpec` |
| `ControllerTypeCorrect`, `ControllerCommandsIntact`, `ControllerSemaphoreFreed`, `ControllerFeedbackKept` | `ControllerTypeOK`, `NoForeignCommand`, `SemaphoreOwned` and `FeedbackHeld` of the composition |
| `ControllerStepsObey`, `ControllerKeepsPromise` | with `ShortTicks`, `StepObeysOneCommand` and `KeepsPromise` of the composition |
| `ServoIsTiming` | `ServoSpec => TimingSpec` |
| `ServoTypeCorrect`, `ServoTrips` | `ServoTypeOK`, and `TripsInTime` on the servo thread |
| `RepliesCarrySamples`, `PinsObeyWrites` | `ServoSpec => []InputsReported`, `ServoSpec => OutputsObey` |
| `StepgenTypeCorrect`, `NoStepLost` | `Spec => []StepgenTypeOK`, `Spec => []CountIsTravel` (Stepgen) |
| `MotorFollows`, `DirectionHolds` | with `OwnPins`, `Spec => []MotorIsAtCount`, `Spec => DirectionSteady` |
| `SummedUpIsUpload`, `PagesSuffice`, `ShortTakesNoPage` | checkJson sums up what the script sent; the pages hold every file of 252 to 65275 bytes; shorter files take none |
| `FittingIsStored`, `AcceptedMayNotFit` | checkJson accepts every file that fits its region, and it is stored whole if it has 252 bytes; files of 32257 to 131072 bytes are accepted and do not fit |
| `UploadTypeCorrect` | `UploadSpec => []UploadTypeOK` |
| `AcceptedLoaded` | if every file fits and has 252 to 65275 bytes, `UploadSpec => AcceptedIsLoaded` |
| `OnlyMoveStores`, `FlashRespected` | if the upload region has room for all the transfers that can be open at once, `UploadSpec => StorageChangesByMove`, `UploadSpec => ProgramsErased` |
| `WholeFileReceived` | if the host neither gives up nor repeats a request, `UploadSpec => []ReceivedWholeFile` |
| `LifeIsUpload` | `LifeSpec => UploadSpec` |
| `LifeWholeFileReceived` | `LifeSpec => []ReceivedWholeFile` |
| `LifeOnlyMoveStores`, `LifeFlashRespected` | if every file fits the region, `LifeSpec => StorageChangesByMove`, `LifeSpec => ProgramsErased` |
| `LifeAcceptedLoaded` | if every file fits and has 252 to 65275 bytes, `LifeSpec => AcceptedIsLoaded` |
| `LifeTypeCorrect`, `SemaphoreKeepsOwner` | `LifeSpec => []LifeTypeOK`, `LifeSpec => []FlagHasOwner` |
| `PortTypeCorrect` | `PortSpec => []PortTypeOK` |
| `StaysInStep` | `PortSpec => []InStep` |
| `NoFrameIgnored` | `PortSpec => []NoneIgnored` |
| `NoPbufLeaks` | `PortSpec => []PbufsAccounted` |

Along which argument:

* *Commands.*  `CopyInv` follows the datagram into the alternate buffer: while core 0
  copies, its pointer is not the current buffer, what is copied is the datagram's with
  bytes zeroed (`FreqsRemain`), and if RESET is at that buffer it was there from the start: `raced`.
  At the swap this becomes `ForceInv`: the buffer in force is what remains of the last WRITE, and if that WRITE
  raced no RESET it is `Whole`, or no joint is enabled.  A RESET `AtBuffer` that has
  passed `EnableByte` has left no joint enabled, so that the word it is tearing is never obeyed
  (`ByteZeroed`, `ResetStepKeeps`).  The argument needs no semaphore at all, which is why it holds for every lock
  outcome.
* *Steps.*  `StepInv` adds (`PointerInv`) the pointer of the joint being served: its buffer is the current
  one, or the other one after a swap during this tick, which then holds what remains of the previous
  WRITE.  Core 0 cannot have begun to refill it, by `ShortTicks`.  What the joint has read as
  enabled and as frequency are then words of one command (`ReadsOneCommand`).  `DamagedWord` says
  what a word without some of its bytes can do: nothing if the word was zero; otherwise it
  keeps its sign or, without its top byte, is forward (`StepWay`).
* *Feedback.*  A step is stored into the buffer the joint took; the buffers are only ever
  swapped, never copied or cleared, so it stays there until the joint's next step.
* *Promise.*  One lemma per kind of step maps it to a step of HostExchange or to a stutter.
  `AnswerInv` connects the place in the callback with the header to be sent: past the swap it
  is the acknowledgement or the data, and the only way there is over the swap.  `ResetShows` maps
  the beginning and the end of RESET to the abstract reset, and its other bytes to stutters.
* *Watchdog.*  `KeepsUp`: while no datagram comes, `noDataCount` is at least the number of
  silent updates but for the first, or the watchdog has tripped.  The first silent update
  may still see a flag set before; the wrap from 255 to 0 cannot come before the trip
  because the tolerance is smaller than the width, but it may come once, in the first
  update, from an uninitialised value.
* *Compositions.*  Every step of `Controller`, `ServoThread` and `Lifecycle` is a step of the
  component they extend or leaves its variables alone, so the component's theorems carry over.
* *Pins.*  An output's argument is that of the commands: what the current buffer says is the
  last WRITE's or nothing, and a stale pointer names the one before.  An input's sample is in the
  buffer that will be swapped next, or, if the update was overtaken, in the one being sent, and
  then it is not counted as sent.
* *Steps counted.*  `Unwrapped`: the accumulator is the travel less a multiple of 2^32, which is a multiple
  of two steps, so its step bit is the parity of the travel's whole steps.  An add value of
  at most a step changes the whole steps by at most one, so parity shows each change, and its sign is
  the direction (`DivStep`, `Parity`, `BitOfOverflow`).
* *Motors.*  `PinInv`: a step pin that is high was raised in this tick and is lowered in its second
  half, so that every raise is an edge, and the direction pin has the direction counted.
* *Upload.*  `EraseInv`: while a transfer is open, everything from the write address on is
  erased.  The condition is needed: after a reboot the address is stale and the region
  full, but only a write request opens a transfer, and it erases.  `StoredInv` says that when
  the reboot is due the storage region holds what `moveJson` made of the upload.
* *Room for transfers.*  `CountedInv`: there is a set of pairs of a control block and a packet's number,
  one for each block programmed since the last erase, in which an open transfer's numbers are no
  larger than its own block; so what it programs next is a new pair, and there are
  only as many pairs as control blocks times packets.  A bare sum over the open transfers
  would not do: a transfer may end, and what it programmed stays.  The hypothesis is
  `Cardinality(Pcbs) * M <= RegionSize` for files of at most M packets with bytes; in the
  firmware it is 2 * M <= 64, which configurations of `JSON_BUFF_SIZE` (M = 21) satisfy.  `FlashRespected` needs
  it too: without room the server goes on into the storage region, which nothing has erased.
  `EmptiedInv` adds that the storage region is empty when `moveJson` comes to program it.  `FitsByLength`
  turns a file's bytes into its packets.
* *Whole files.*  `WholeInv`: with one request per upload there is at most one transfer, it has programmed
  the file's packets 1 up to its block, and its block is the last packet the client sent
  or the one before.  The acknowledgements under way never exceed what was sent, so
  that a late one cannot make the client send to a transfer that is over.  The hypotheses are
  those under which the runs check it; that the client repeats no request is the host of `Lifecycle`, where the
  theorem needs none.  There, `InTransfer` also gives the write address, and with it
  `LifeOnlyMoveStores` without a bound on the control blocks.
* *The ring.*  `RingInv`: there are distances (`offset`) at which the frames lie one behind the other from
  the read pointer to the write pointer, each at the address it was written to, and the last is at
  most the ring's size away.  The ring is smaller than what two bytes can tell apart, so the
  difference of the wrapped pointers is that distance, and 0 only when no frame is left.  The
  distances are a witness, carried from step to step, not a sum over the sequence, which
  would need induction.
* *The polled size.*  `Reading`: each byte core 0 has read belongs to a value the register held
  since the last frame was taken (`Possible`), and these values only grow; so if two readings of
  high and low byte agree, the value is one of them (`AgreedIsRead`), hence at least as large as the
  oldest frame.  `Polled` keeps this through recv_lwip's own polling, and `AtFrame` draws from it that the frame
  is there and not longer than what was polled.
* *Semaphore over resets.*  `OwnerInv`: with the types (no tick on a core that was reset) the flag is a
  tick's, the callback's, or that of a tick that was cut off.
* *Pbufs.*  `HeldByFrame`: at which places of core 0 a frame holds pbufs (`WithFrame`), and how many;
  `ControlInv`: a control block is free, a transfer's, or lost.

Only model-checked: the liveness properties (`CallbackEnds`, `TickEnds`, `RunningComesToRest`,
`OutputsComeToRest`, `AnsweredUnlessCut`, `TakesEffectUnlessCut`, `RingDrains`), since liveness under
fairness is beyond the proof system.  Every other property of a passing run is a theorem.  What
`EthernetPort` and `ConfigUpload` compute from sequences and byte counts is proved without
induction over data: by neighbours in the ring, and by closed formulas of `div` and `mod`.

## 5. What is not modelled, and why

* `deserialiseJSON`, `configThreads`, `loadModules` and `boardconfig.h` build what the models take as
  constants, once, on one core, before the timers start.
* Blink and the debug modules: a counter and a pin of their own, which nothing else reads.
* lwIP and the Pico SDK are not in the repository.  WIZnet's ioLibrary and ArduinoJson are vendored:
  some 36,000 of the tree's 40,700 lines of code, most of them for other chips and for protocols
  the firmware never calls.  Of them only the W5500's receive path is modelled.  The program's own
  code is about 4,000 lines, so that the models, though they follow nearly all of its
  run-time behaviour, cover a small share of the tree.
* The initialisation of clocks, SPI, PWM slices and lwIP, the register accesses, and printing are
  pure I/O.  Printing takes time below the interrupts and delays the servo thread; the models give
  a tick no duration.
* The wait for SENDOK (`w5x00_lwip.c:57`) depends on the chip.  Frames longer than the receive
  buffer (`ETHERNET_MTU` is 1500, a full frame has 1514 bytes) are excluded by `FramesAssumption`.
* lwIP's queue of packets that wait for an ARP answer: whoever sends to the board is known to it.
* Of the TFTP server: packets with an operation code that upload_config.py's client does not
  send.  A failed `udp_bind` or `mem_malloc` and a chained packet are `EthernetPort`'s, as to the pbufs
  and control blocks they cost; to the transfer they are a lost packet, which `ConfigUpload` has.
* A second data race is left out on purpose: the pointers that SETUP writes and core 0 reads are
  taken as written in one step (`setup`).
* The SDK's own mutexes (malloc, printf), which a reset of core 1 may leave locked.

## 6. The plan

Written, in this order: `DataExchange` and its proofs, `CommsWatchdog` and its timing,
`Controller`, `ConfigUpload`; then `HostExchange` and its refinement, `Stepgen`, `StorageLayout`,
`ServoThread`, `Lifecycle`, `EthernetPort`, and the proofs of all of them.  What is left:

1. `FeedbackHeld` as a refinement too: what the host sees of the position, which the code only keeps
   up to the swap (`exchange_feedback`).
2. The servo thread and the watchdog in the refinement of `HostExchange`: what an output pin may do
   between two requests of the host.

## 7. Running it

    tlc -config ExchangeSafety.cfg MCDataExchange
    tlc -config ControllerRest.cfg MCController
    tlc -config ServoThread.cfg    MCServoThread
    tlc -config Lifecycle.cfg      MCLifecycle
    tlc -config UploadRetries.cfg  MCConfigUpload
    tlc -config Stepgen.cfg        MCStepgen
    tlc -config EthernetPort.cfg   MCEthernetPort
    tlapm DataExchange_proofs.tla

and likewise for the other configurations and the other seven `*_proofs` modules;
`PROJECT.json` pairs each configuration with its module and its expected result.
