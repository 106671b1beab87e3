# sg2002-bare-metal: specifications, model checking and proofs

The repository is the bare-metal firmware of the SG2002's small C906L core: it
brings up the DWC2 USB host, enumerates the bus, opens a UVC camera, assembles
MJPEG frames from isochronous packets, decodes them with the JPU into a shared
YUV buffer and announces each one to the big core (Linux) over two mailboxes.
The cores share UART0 under a software lock, and a timer heartbeat feeds the
chip's watchdog.

This directory holds TLA+ models of those parts (`X.tla`), instances for TLC
(`MCX.tla` where the cfg needs definitions, `X*.cfg`), proofs (`*Proofs.tla`) and `PROJECT.json`, which maps each
definition to its source lines. File names below are relative to `src/src/`
unless they start with `src/`.

    tlc -workers 2 -config Mailbox.cfg MCMailbox     # one run
    tlapm LineLockProofs.tla                         # one proof module

## Inventory

| Component (source) | State | Operations | What is hard | What makes it correct | Module |
|---|---|---|---|---|---|
| Line lock and log (`logger.rs`) | flag per core, turn, `LOCK_HELD`, `MUTED` | `line_lock_wait`, `line_lock_try`, `line_unlock`, print, mute | plain loads and stores between two cores; handlers of one core share its flag; garbage at power-on | exclusion unless forced; a held lock left alone; every print ends | `LineLock` |
| Hardware mailbox (`drivers/mailbox.rs`) and DRAM mailbox (`ipc.rs`) | payload, enable and pending bits; 32-byte record in one cache line; `PAUSED` | `claim_b2s`, `doorbell_big`, `notify`, `write`, `write_reply`, `handle_mailbox_irq` | the ISR interrupts `notify` between any two stores; both share a cache line; the sender reuses the slot at once | one-message slot; flush before doorbell; replies survive; pause takes effect; every message answered | `Mailbox`, `B2sSlot` |
| Test tool of the big core (`src/tools/b2s-comm-test`) | last frame count, round-trip counters | wait for a frame, poll, send, check | judges a link that two contexts and a panic handler write | sound verdicts, no false alarm | `CommTest` (composes `Mailbox`) |
| Panic handler (`panic.rs`) | mark in the DRAM mailbox | write the mark, stop in `wfi` | interrupts stay on | the tool's frame count never falls | `Mailbox`, `CommTest`, `Heartbeat` |
| Main loop (`main.rs`) | frame counter | start-up, pause poll, capture, decode, announce | a pause comes after the poll; two kinds of announcement share their words | at most the frame in flight is announced; every captured frame is, or the panic | `Mailbox`, `JpuSession`, `UvcCapture`, `UsbHost` |
| Traps and PLIC (`arch/trap.rs`, `arch/plic.rs`) | `mie`, `mstatus.MIE`, source enables | init, dispatch | handlers at any instruction | no nesting; order of enables | `Heartbeat`, `LineLock`, `Mailbox` |
| Heartbeat and watchdog (`arch/time.rs`, `drivers/wdt.rs`) | 64-bit comparator in two words, beat counter, watchdog | `init_heartbeat`, `rearm`, `heartbeat_tick`, `start`, `kick` | a beat between the two words; bursts of mailbox interrupts | the next beat is near; a live core is never reset, a dead one always | `Heartbeat` |
| USB control transfers (`drivers/usb/dwc2/channel.rs`, `control.rs`, `dma.rs`) | channel registers, retry budgets, data toggle, bounce buffer | `arm`, `wait_halted`, `xfer`, SETUP/DATA/STATUS | late completion of an abandoned transfer; lost handshakes and retries | own outcomes only; data once and in order; every request returns | `ControlEp` |
| USB enumeration (`drivers/usb/root.rs`, `hub.rs`, `device.rs`, `uvc/mod.rs`, `uvc/session.rs`) | next address, device handles, camera session | `enumerate_bus`, `enumerate_child`, `walk_subtree`, `dispatch`, `probe` | every transfer may fail, with or without effect | valid addresses; complete walk; termination | `UsbTree`, `UsbHost` |
| Stream choice (`drivers/usb/uvc/descriptor.rs`, `stream.rs`) | best frame, interval, table of alternate settings | descriptor scan, PROBE, choice, COMMIT, `SET_INTERFACE` | bounded tables; the camera counters the proposal | preferred frame, nearest interval, payload that fits the armed setting | `UvcStream` |
| Capture (`drivers/usb/uvc/capture.rs`, `dwc2/isoch.rs`) | FID, assembly buffer, `LAST_EOF_FID` | `capture_frame`, `try_frame`, `append`, `read_payload` | lost packets, padding, metadata frames, starting in mid-stream | whole frames only; frames keep coming | `UvcCapture` |
| JPU session (`drivers/jpu/session.rs`, `decoder.rs`, `mem.rs`, `regs.rs`) | decoder, page pool, JPU, YUV buffer | create, start, poll, hard reset, recover, announce | timeout racing completion; buffer read by the other core | buffer owned; JPU at rest; decoded picture in place; every frame announced, but one that makes the parser panic | `JpuSession` |
| JPU programming (`drivers/jpu/decoder.rs`) | registers | plane layout, table uploads, start of the bitstream | words known only by their place; pages and padding | planes hold the picture; tables where the JPU looks for them; first byte right | `JpuProgram` |
| JPEG header parser (`drivers/jpu/header.rs`) | position, header info | one branch per marker, tables of DHT and DQT, canonical codes | frames cut off anywhere; data that looks like markers | finds what was written, or fails | `JpegHeader` |
| Image controls (`uvc/control.rs`, `uvc/setup.rs`, entity scan of `uvc/descriptor.rs`) | control entities | scan, `GET_CUR`, `GET_DEF`, `SET_CUR` in a fixed order | refused and lost requests in a sequence that belongs together | requests go to the right entity; promised settings | `UvcControl` |
| Controller bring-up (`dwc2/controller.rs`, `cv182x.rs`) and root port (`root.rs`) | GRSTCTL, FIFO sizes, HPRT0 | soft resets, host mode, flushes, power, port reset | flags left by the boot loader; flags cleared by writing 1 | nothing overtakes the controller; the port stays enabled; the start ends | `UsbHost` |
| Board, PHY, cache loops, IVE, YUV geometry | registers | straight-line | - | - | no |

Interactions: `main.rs` calls capture, decode and `ipc::notify` in turn; the mailbox
ISR shares the DRAM mailbox line, `PAUSED`, `MUTED` and the line lock with the main
loop it interrupts; the timer ISR shares the comparator with `init_heartbeat`;
capture and enumeration both go through `Channel`; the big core shares the lock
words, both mailboxes and the YUV buffer. Hazards are listed line by line in
`PROJECT.json`.

## Modules and their correspondence to the code

Every step is one access to something another party can see (a shared word, a
register, a packet); local computation is folded into the step that follows it.
`Mutant:` definitions beside the actions are plausible bugs, one for each
property, that the property must catch; nothing else uses them.

* **`LineLock`**: `flag`, `turn` and `held` are the lock words and `LOCK_HELD`;
  `pc[a]` runs through `line_lock_wait` (`Wait*`), `line_lock_try` (`Try*`) and
  `line_unlock` (`Unlock*`). Actors are the big core, the small core's main loop,
  its mailbox ISR and its fault handler; `MayRun` keeps an interrupted actor still.
  The big core runs the same code (`logger.rs:66` demands it). `traps`, chosen at
  the start, says which handlers occur in a behaviour. The words start with any value.
* **`Mailbox`**: register level of `claim_b2s` and `doorbell_big`, store level of
  `notify`, `write` and `write_reply`. `line` is the small core's cache line, `dram`
  what the big core reads; `flush_mailbox` and `Evict` copy one to the other. Words
  carry the number of the notification that wrote them, so that a torn record shows.
  `SenderWaits` chooses between a careful and a hasty big core.
* **`B2sSlot`**: what the B2S direction promises: put, take once, acknowledge.
  `Mailbox` implements it under `SlotPhase` (property `SlotSpec`).
* **`CommTest`** extends `Mailbox` with the tool's loop; `prompt` says whether the
  200 ms sleep outlasts the ISR, `geometry` what width and height the flags word of each
  frame says. The tool keeps the first record's (`dims`) and counts a metadata error for a
  new frame of size 0 or of another geometry. It has false alarms of its own, which
  `MetadataErrorsMeanPanic` excepts: a first record read half-written (disagreement 3) has
  0 x 0, so that every later frame is an error, and so is a decoded frame that is not
  640 x 480 after one that was announced without YUV. The panic record counts as one
  error unless it is read half-written. The YUV samples the tool compares are left out: it
  only reports them.
* **`Heartbeat`**: `mpc` runs through `init_interrupts` and `init_heartbeat`; `cmp`
  is the comparator as two words; `core` is running, wedged on a bus access or in
  the fault handler. Time advances one tick at a time, up to `MaxTime`.
* **`ControlEp`**: `Arm`, `HaltTimeout`, `Xfer*` are `Channel`; `Submit`,
  `SetupDone`, `DataDone`, `StatusDone` are `ControlEp`; `Hw*` are the controller and
  device (external), which answer, NAK, STALL, lose packets or handshakes, send
  short packets, or answer after the host has given up.
* **`UsbTree`**: the recursion of `walk_subtree` is a stack of (hub, port).
* **`UsbHost`** extends `UsbTree` with what comes before and below it: `at` runs
  through `dwc2_host_init` (`Phases`), `core` is GRSTCTL and what the core is busy
  with, `hprt` is HPRT0, `wire` the port itself with the history the properties
  need. The walk's look at the root port goes through `hprt`. The core, the port
  and the plug are external. A failed `expect` is `at = 0`.
* **`UvcStream`**: `Scan*` reads one descriptor per step, then `Probe` to
  `SET_INTERFACE`. Lengths of descriptors that the scan never reads are left out.
* **`UvcControl`** extends `UvcStream` to the whole of `UvcCamera::open`: `Ent*` is the
  second scan, over the same descriptors, then one action per request of
  `init_controls`. A control is (entity, bit of bmControls), a value its distance
  from the factory default. The warm-up capture at the end of `open` is a capture
  like any other (`UvcCapture`).
* **`JpegHeader`**: one action per branch of `parse_jpeg_header`, one per table of
  `parse_dht` and `parse_dqt`, on real bytes; `written` keeps the segments the bytes
  were made from (T.81), for comparison. An index out of range (a quantisation
  table number above 3, more Huffman values than the array has) ends in `panic`;
  the segments of the run are well formed, and `ParsedAsWritten` says that a lost end
  alone never leads there. What a hole in a table leads to is in `JpuSession`. A grey picture keeps quantisation table 0
  whatever its header says, because the code reads table numbers only for three
  components; a header with two frame headers is not a baseline one. Both are left
  out of the run.
* **`JpuProgram`**: what `decode` makes of the parsed header, as operators:
  `frame_layout`, `upload_huff_tables`, `upload_quant_tables`, `gram_setup`. How the
  JPU reads these registers is external (`FirstByte`). Sign extensions and the bus
  burst setting are left out.
* **`UvcCapture`**: one action for each way `try_frame` treats a packet; the camera
  is external. `mode`, chosen at the start, says which frames follow each other and
  whether packets are lost or the endpoint fails.
* **`JpuSession`**: `decode_and_notify` as `mpc`; page pool as sets; the JPU writes
  the picture in two halves; the big core copies it under a check of the frame count.
  An announcement has its size and its flags word, a set of bit numbers into which
  `encode_dims` puts width and height. A picture that is `fatal` has a header that makes
  the parser panic, such as one with a hole in its DHT or DQT after lost packets:
  `DecodePanics` leaves the mark in the mailbox, and the main loop is over.

## Runs

Ten runs pass; two show a disagreement between the code and a statement in the
repository.

| Run | Checks | Bounds, and why they are enough |
|---|---|---|
| `LineLock` | `Mutex`, `HeldLockUndisturbed`, `MainPrintCompletes` | spin limit 2: both nested loops iterate, yield and run out; turn 0, 1 or garbage 2; three sets of handlers |
| `LineLock_isr` | `LinesExclusive` violated | as above, echo only |
| `Mailbox` | `DoorbellAfterPublish`, `ReplyIntact`, `PauseBounded`, `SlotSpec`, `EveryMessageAnswered` | 3 messages with drain limit 1: overflow, then a fresh activation; 3 frames: one before, in and after a pause |
| `CommTest` | `FrameCountNeverBack`, `MetadataErrorsMeanPanic`, `NoFalseAlarm`, `RoundTripSound`, `NoReplay` | 2 frames, each with either geometry, 2 messages by a hasty sender, panic and evictions: half-written records of both frames and of the panic are read |
| `ControlEp` | `StatusIsOwn`, `WriteExactlyOnce`, `ReadInOrder`, `RequestEnds` | 3 chunks: both toggles and a repeat; 3 NAK and 2 XACTERR retries; any number of requests |
| `UvcCapture` | `ReturnedFrameSound`, `FramesKeepComing` | frames of 3 units in packets of up to 2, buffer of 4; frame numbers modulo 4 (modulo 2 on the lossy bus); any number of captures |
| `UsbTree` | `AddressesValid`, `CompleteWalk`, `BringUpSound`, `RootPortKept`, `HostStarts` | three hubs on two levels, two cameras, a disk, an empty port; five addresses for six devices, so that they run out; cores before and after 4.20a; FIFO memory at and around both limits of the layout; one unplugging |
| `UvcStream` | `CommittedFramePreferred`, `CommittedIntervalClosest`, `StreamFits`, `ArmedAltFits`, `SettingsAsPromised` | all pairs of 12 frame kinds, 54 interval lists and 147 ranges (in steps that meet and that miss the preferred interval, or without), up to 4 alternate settings of 5 packet sizes for a table of 3, 5 answers to PROBE; control entities before, after and outside the control interface, two lost requests |
| `JpegHeader` | `ParsedAsWritten`, `PlanesHoldPicture`, `TablesInPlace`, `ScanStartsAtEcs` | every sequence of up to 3 of 15 segments between SOI and SOS, all five samplings, 18 lengths of a lost end, scans that begin on both sides of three page boundaries; tables scaled to 3 code lengths and 2 coefficients |
| `JpuSession` | `StreamBufOwned`, `JpuAtRest`, `DecodedYuvInPlace`, `EveryFrameAnnounced` | 3 frames, each of the preferred size, smaller, too large, or with a header the parser panics on; pool of 3 pages that one buffer fills, as in the code |
| `JpuSession_flag` | `NoYuvIsVisible` violated | the same |
| `Heartbeat` | `NextBeatNear`, `WatchdogQuiet`, `DeadCoreReset` | words of 4 values, so that the low word wraps; beats 3 apart, timeout 8, bursts of 2 |

Every state machine but `JpegHeader` and the two extensions has a `TypeOK`. TLC finds
it true on each of these instances (add `INVARIANT TypeOK`); for `LineLock`, `Mailbox`,
`ControlEp`, `Heartbeat`, `JpuSession` and `UvcCapture` it is proved, so the configurations
do not repeat it.

Deadlock is checked where the system cannot stop. It is off in the runs where it
may: bounded frames and messages (`Mailbox`, `CommTest`, `JpuSession`), bounded time
(`Heartbeat`), a panic (`ControlEp`), an operation that returns (`UsbTree`,
`UvcStream`, `JpegHeader`).

What the properties say beyond their names:

* `Mutex` allows two cores in the lock only if one of them forced its way in after
  the spin limit, which the code does on purpose; it is about behaviours in which
  only faults interrupt. With the echo it is false (`LineLock_isr`). A fault that does
  not get the lock prints without it (`FaultRaw`), outside what `Mutex` promises.
* `DoorbellAfterPublish` is about the live frame count in context slot 0: whenever
  it says n, every word of the record in DRAM is from frame n or later.
* `EveryMessageAnswered` counts a message as lost to the drain limit only in the
  state in which the limit is exceeded.
* `NextBeatNear` and `WatchdogQuiet` need `Interval + Burst * IsrTicks < WdtTimeout`;
  in the code the interval is 10 ms, the timeout about 0.34 s (`drivers/wdt.rs:51`) and
  a mailbox ISR a few lines on the UART.
* `AddressesValid` excepts a device whose port was given up after its reset: it
  stays at address 0, and the code cannot do anything about it.
* `BringUpSound` says nothing of the FIFO layout of a core with less than 772 words
  and one for each channel: the receive and the non-periodic FIFO alone do not fit
  then, and the code programs them all the same. The SG2002's core has more.
* `RootPortKept` rests on the order of two calls: `clear_connection_change` writes
  HPRT0 back with ENA as read, which would disable an enabled port; it is called
  only before the port's reset, when ENA is not set.
* `CommittedIntervalClosest` says that no supported interval is closer than the one
  committed; that the committed one is supported itself it claims for lists, for the
  default interval and for a range whose steps meet the value the clamp takes
  (disagreement 23 is about the others). A step of 0 leaves no value out.
* `UvcStream`'s camera answers PROBE with a payload of its own and the format, frame and
  interval as they were written; `start_stream` would commit whatever it answered.
* `SettingsAsPromised` excepts a control about which a request was lost, and only
  that one. Why the balance must be turned off before the temperature is set shows
  in the camera's `Accepts`.
* `TablesInPlace` looks for a value where the `ptr` the JPU was given points. It excepts
  the values of DC codes of more than 12 bits (scaled to 2), which `upload_huff_tables`
  does not count (disagreement 24). A table built by Huffman's algorithm for the 12
  categories of baseline has none; T.81 allows a DHT with them.
* `EveryFrameAnnounced` excepts the frame whose header makes the parser panic: the mark
  of the panic is in the mailbox then (disagreement 25).
* `PlanesHoldPicture` compares three independent accounts of the picture: the planes'
  places and strides, the MCU grid of T.81, and the blocks per MCU given to the JPU.

## Fairness

Only what the small core's own execution guarantees is assumed: weak fairness of
its handlers, bounded loops and polls. `LineLock` assumes strong fairness of the
main loop's step because handlers interrupt it again and again but end, and
messages are seconds apart. `Mailbox` also assumes that the big core finishes a send
it has begun. `UvcCapture` assumes (`FairCamera`) that the camera goes on with its frames;
without it nothing could be captured. `Heartbeat` assumes that the watchdog counts.
`JpuSession` assumes that the main loop goes on with the frame at hand, `UsbHost`
(`FairHostSpec`) that the driver's code executes.
Nothing is assumed of the JPU, the USB controller, port or device, or a big core that
holds the lock.

## Proofs

`LineLockProofs`, for every spin limit and every power-on value:

* `TypeCorrect`: `TypeOK` with `SpinBound`. Inside the loops the counter has not
  passed the limit; without this the counter's range is not inductive.
* `MutualExclusion`: `[]Mutex`. `MutexInv` says that an actor which still owns its
  core has its flag up at every location that relies on it, that the big core and an
  actor of the small core are never both past the test unforced, and that a fault
  that finds the main loop printing leaves the lock alone, because `LOCK_HELD` is set.
* `HandlersRespectHeldLock`: the action property `HeldLockUndisturbed`, from
  `HeldInv`: no handler is inside the lock while the main loop prints.

`MailboxProofs`, for every drain limit, number of frames and messages:

* `TypeCorrect`: `TypeOK` with `DrainBound`.
* `RefinesSlot`: assuming `SenderWaits`, `Spec => Slot!Spec`. `SlotInv` relates enable
  and pending bits, the sender's and the ISR's program counters and the three copies
  of the message.
* `DoorbellFollowsPublish`: `PublishInv` bounds each word of cache line and DRAM from
  below by the doorbell's count at each point of `notify`.
* `RepliesSurvive`: `ReplyInv` relates the reply words of line and DRAM to the last
  answer at each point of `write_reply`.
* `PauseStopsPipeline`: `PauseInv` counts the frame in flight.
* `NeverReplayed`: the action property `NoReplay`, for a hasty sender too. `ReplayInv`: a
  message that was read stays in the payload word until the next step only.
* `ToolUsesLink`: every step of the tool is one of the mailbox's, so that what is
  proved of the link holds under the tool (`ToolSpec => Spec`, `CommTest`).
* `FrameCountMonotone`: `CountsInOrder` orders the count the tool has seen, the one in
  DRAM, the one in the cache line and the number of frames; a panic only adds.
* `ErrorsMeanPanic`: `[]MetadataErrorsMeanPanic`. `RecordsWhole` says that in the cache line
  and in DRAM a record that has its flags has its size until the panic mark wipes both,
  at each store of `notify` and `write`; `RecordsChecked` relates the tool's first record
  to what it reads later.
* `RoundTripsSound`: `RepliesRead`, what stands in the reply words was read by the ISR.
* `NoAlarmIsFalse`: `TurnInv`, with prompt answers the messages take turns, and when
  the tool looks the reply in DRAM is the one `RepliesSurvive` speaks of.

`ControlEpProofs`, for every retry budget and every length of the data stage:

* `OutcomeIsOwn`: `[]StatusIsOwn`. `OwnInv` says that while `xfer` waits, the
  transaction in the channel is its own, and so is a halt it can see: every way out
  of the wait leads back to `arm`, which clears `HCINT` on a disabled channel.
* `TypeCorrect`: `TypeOK` with `CountInv`, which ties the attempt counter and both
  chunk counters to the stages in which they are used.
* `WritesExactlyOnce` and `ReadsInOrder`: `[]WriteExactlyOnce` and `[]ReadInOrder` from
  `DeliveryInv`. Neither property mentions a state before the result, so the
  invariant says where the device stands at each chunk: for a write at the host's
  chunk or one ahead (only the handshake was lost), for a read at it or one behind;
  the data toggle, which goes with the chunk (`ChannelInv`), tells the cases apart.
  A packet of an abandoned transaction can only hold the channel up to the next
  `arm`, which is why it cannot count as a chunk of the next request.

`JpuProofs` covers decoding. The session, for every number of frames and every geometry
of the pool:

* `DecoderAtRest` and `DecodedInPlace`: `[]JpuAtRest` and `[]DecodedYuvInPlace` from
  `RunInv` (the JPU runs only under the poll, on the frame at hand, and `DONE` means
  that both halves are written) and `KeepInv` (a decoded picture stays in place).
* `TypeCorrect`, and `StreamBufKept`: `[]StreamBufOwned`, about the cardinality of the
  pages the allocator takes out of the pool and gives back.

The header parser and the programming of the JPU, for every header, every cut and tables
of any size (the steps are those of `ParseSpec`, so that both machines fit one module):

* `ScanStarts`: `[]ScanStartsAtEcs`. `ParserInv` says that positions and sizes are
  numbers whatever the bytes are; the rest is arithmetic on the position of the scan,
  on even and on odd pages (`FirstByteIs`).
* `PlanesHoldPictures`: `PlanesHoldPicture` for every width and height, if the picture has
  a `KnownLayout`: one component, or three with an MCU of one or two luma blocks a side
  and one block of each chroma. Those are the layouts `frame_layout` knows; with others
  (4:1:1, say) it lays the planes out as 4:4:4. `ParserInv` keeps format and sampling
  factors together (`FormatInv`); the hypothesis also excludes a colour frame header that
  follows a grey one and is cut off in its component list, because it keeps the grey
  format.
* `CodesCanonical`: in every state each of the four tables has the canonical codes
  and the value pointers (modulo 256, the width of a pointer) of its counts, by
  induction over the lengths of `generate` (`GenerateIs`). Canonical is stated as T.81
  does, each first code from the one before: powers of two are beyond the prover.
* `TablesStand`: the part `HuffInPlace` of `TablesInPlace` for any bytes. It needs
  `HuffInv`, that each table has a code entry for each length and points where the
  canonical code does, `ValuesWithin`, that the values of a length end no later than
  those of the longest one counted, and `FittingTables`: a table that counts more values
  than it has, or than the JPU has words for, shifts the ones behind it. Baseline tables
  that are all there fit.

`HeartbeatProofs`, for every word size, interval, timeout and burst with
`Interval + Burst * IsrTicks < WdtTimeout`:

* `BeatsStayNear`: `[]NextBeatNear`. Between the two words `rearm` writes, the
  comparator is neither the old nor the new time; `RearmInv` says what it is: either
  its low word is already the new one, or a beat has replaced both words by a time
  not before the new one.
* `KicksInTime`: `[]WatchdogQuiet` from `DeadlineInv`: ticks since the last kick and the
  comparator add up to at most the clock and an interval, and a beat that is overdue
  was delayed by mailbox interrupts only.

`UsbHostProofs`, for every tree of hubs and every version, FIFO memory and number
of channels of the controller:

* `BringUpIsSound`: `CoreInv` says in which phases the core can be resetting or
  flushing; the layout of the FIFOs is arithmetic over any depth.
* `RootPortIsKept`: `RootInv`, from the first soft reset on the port is enabled by its
  reset pulse only, and no write to HPRT0 after that carries the ENA bit.
* `AddressesStayValid`: `AddrInv`, addresses grow, and only the device at hand listens at
  address 0. It needs `StackInv`, that the stack is a path of the tree without a
  repetition: otherwise the device at hand could be one that already has its address.
* `WalkIsComplete`: `WalkInv`, every port behind the current one of each level is done,
  and so are all ports of a configured hub that is not on the stack.
* `HostWalks` and `HostEnumerates`: start-up and walk together take only steps of
  the walk, so both results hold on the controller the driver brought up.

`UvcCaptureProofs`, for every length of frame and packet and every size of the buffer:

* `TypeCorrect` and `FramesAreSound`: `[]TypeOK` and `[]ReturnedFrameSound`. `CollectInv`
  compares the buffer with the camera: it holds packets of one FID, begins with SOI, and while
  nothing is lost it is exactly what the camera has sent of its frame, or the whole
  of the frame before when the camera has moved on without an EOF (`WholeSoFar`).

`UvcStreamProofs`, for every configuration descriptor, preferred size and answer:

* `CommitsToPreferred`: `[]CommittedFramePreferred`. The property reads the descriptor
  as a whole, the code keeps running values: `ScanInv` says that those are what the
  descriptor up to here says (scope, format, best frame of each kind by rank), by
  the lemmas on scopes. `HandInv` follows the pick through selection, PROBE, the
  buffer of `start_stream` and COMMIT.
* `OpenIsStream` and `OpenCommitsToPreferred`: the control phase takes no step of the
  stream's, so the result holds for the whole of `UvcCamera::open`.
* `CommitsToClosest`: `[]CommittedIntervalClosest`, with no further hypothesis. What
  `choose_frame_interval` returns is closest among all intervals of a table of any
  length (`BestOfIs`) and of a continuous range of any step; `NegotiationInv` follows it through
  nanoseconds and back, PROBE and COMMIT.
* `StreamFitsEndpoint`: `StreamFits` for a camera whose isochronous endpoints are the
  alternate settings of one endpoint (`OneEndpoint`), and `ArmsFittingAlt`: `ArmedAltFits`
  when the table holds all alternate settings (`TableHolds`). Without these hypotheses
  the properties are false (disagreements 15 and 16). `EndpointInv` compares the table
  with the descriptors read so far.
* `OpenNegotiates`: the three results for the whole of `UvcCamera::open`.
* `EntitiesAreInScope`: `[]EntitiesInScope` from `EntityInv`, the same comparison for the
  second scan. TLC finds it true with `UvcStream.cfg` too, which does not list it.
* `SettingsArePromised`: `SettingsAsPromised` for every camera with at most one processing unit
  and one camera terminal with different ids (`SingleEntities`); of two
  units the scan keeps the last, and the other stays as it came.
  `UnitInv` and `TermInv` have a clause for what each step of `init_controls` leaves
  behind, also when its request was refused or lost; `PhaseInv` says which steps there
  are.

Induction. The library's induction theorems take an operator and cannot be instantiated
here. Where a proof needs induction over positions, lengths or the size of a set
(`UvcStreamProofs`, `JpuProofs`), it takes the least counterexample of a *set* of numbers
instead: `SetInduction`, from the well-foundedness of < on the naturals. On it rest
`RecursionExists` (a recursive function has a value at all, which a `CHOOSE` does not
give for free), `RunningBest` (what a loop that keeps the best so far ends with) and
`SumIs` (a sum over a set does not depend on the order).

They rest on the named assumptions of the modules, which TLC evaluates in the runs.
Those that are more than types or ranges: a drain limit above 0, an echo command and
fewer frames than the panic mark (`CommTestAssumption`, `JpuSessionAssumption`); every device hangs at one port
(`UsbTreeAssumption`); descriptors have the fields of their type, a frame's area
fits the `i32` of `frame_rank`, and the preferred area is below the exact rank
(`UvcStreamAssumption`); what is written as a header are
bytes (`HeadersAssumption`); entity ids are not 0, as the class
specification demands, because 0 stands for `None` in the model (`UvcControlAssumption`);
the beat, delayed by a burst, is due before the watchdog (`HeartbeatAssumption`).
`RefinesSlot` alone also assumes `SenderWaits`. TLC has checked each of the inductive
invariants on the instance of the component's run.

Only model-checked:

* liveness (`MainPrintCompletes`, `EveryMessageAnswered`, `RequestEnds`, `HostStarts`,
  `FramesKeepComing`, `EveryFrameAnnounced`, `DeadCoreReset`): the prover has no fairness
  and no ENABLED;
* `ParsedAsWritten` and the rest of `TablesInPlace`: they compare what the parser found with
  the segments the bytes were made from. For every header that takes the position of
  each segment in a flattened sequence of sequences, a grammar of what the `raw` segments
  may hold for the parser to step over them, and powers of two for the codes;
* `StreamFits`, `ArmedAltFits`, `SettingsAsPromised` and `PlanesHoldPicture` outside the
  hypotheses of their theorems, as far as the instances go beyond them;
* `TypeOK` of `UsbTree` and `UvcStream`, of which the proofs need only parts (they are in
  `StackInv`, `AddrInv`, `ScanInv` and `HandInv`).

## Disagreements met while modelling

Each is a statement of the repository that the code does not keep, with the
configuration that shows it. The first two are runs of `PROJECT.json`.

1. `LineLock_isr.cfg`, `LinesExclusive` (src/src/logger.rs:103): line_lock_wait raises the flag before LOCK_HELD is set (line 126); a mailbox echo in between finds LOCK_HELD clear, and its line_lock_try or line_unlock lowers main's flag, so both cores hold the lock. src/src/logger.rs:73-75 says of LOCK_HELD: "ISR 不得对 main 已持有的锁做「升旗-判让-降旗」——那会解掉被打断的 main 手里的锁,让两核同时认为持锁。ISR 见此标记直接放弃回显。"
2. `JpuSession_flag.cfg`, `NoYuvIsVisible` (src/src/main.rs:106): A frame without YUV is announced with yuv_size = jpeg_len, and the height 480 in its flags sets bit 15. src/src/ipc.rs:37-38 says of yuv_size "0 = 此帧无 YUV，只有 MJPEG" and of the flags "bit15 YUV ready"; line 40 knows that the height covers bit 15, which leaves a reader only the size to go by.
3. `Mailbox_torn.cfg`, `ValidFrameIsWhole` (src/src/ipc.rs:92): From the second frame on the magic is already set when notify writes the fields, and write_reply in the interrupt (or an eviction) writes the whole cache line back in the middle: the big core sees a valid magic over a mixed record. src/src/ipc.rs:97 says "magic 最后写：大核以 magic 作为"这块内容有效"的判据".
4. `ControlEp_unreachable.cfg`, `LoopExitUnreachable` (src/src/drivers/usb/dwc2/channel.rs:160): The assertion `unreachable!()` at src/src/drivers/usb/dwc2/channel.rs:160 is reached: NAKs use up the attempts of the for loop and the last attempt ends with XACTERR while xact_left > 0, so `continue` leaves the loop and the core panics instead of returning an error.
5. `LineLock_wait.cfg`, `IsrNeverWaits` (src/src/ipc.rs:158): handle_mailbox_irq calls logger::print on drain overflow, which spins in line_lock_wait. src/src/logger.rs:11 says "ISR 上下文用 line_lock_try,拿不到就丢行,绝不等待".
6. `CommTest_marker.cfg`, `PanicNotTakenForFrame` (src/src/panic.rs:21): panic writes the mark into frame_count and ipc::write sets the normal magic; the tool compares the magic with the mark (src/tools/b2s-comm-test/src/main.rs:148-149, "小核已 panic(magic=0xFFFFFFFF)"), so a panic before the first frame is reported as a first frame. panic.rs:20 says "写 frame_count 错误标记（0xFFFF_FFFF），大核的 panic 探测器读该字段发现小核 panic".
7. `ControlEp_short.cfg`, `ReadBackIsDeviceData` (src/src/drivers/usb/dwc2/control.rs:237): The DATA IN stage copies the whole requested chunk whatever the device sent; after a short packet the rest is what an earlier transfer left in the bounce buffer. src/src/drivers/usb/dwc2/control.rs:230 says "invalidate 后读回的是设备刚写的数据".
8. `UvcCapture_retry.cfg`, `ResidualIsRetried` (src/src/drivers/usb/uvc/capture.rs:100): A residual frame is Err(Timeout), on which the loop over rounds breaks. src/src/drivers/usb/uvc/capture.rs:96 says "每轮 = 等一个完整帧;残帧(垃圾)→ 重试;4 轮未成 → 超时".
9. `UvcCapture_lastfid.cfg`, `LastFidIsFrames` (src/src/drivers/usb/uvc/capture.rs:167): After a flip inside the collecting loop fid is updated but LAST_EOF_FID is stored from frame_fid, the FID of the frame that was thrown away. src/src/drivers/usb/uvc/capture.rs:74 says "跨 capture 持久化的「上次完整帧的 FID」".
10. `UvcCapture_meta.cfg`, `FramesComeBetweenMetadata` (src/src/drivers/usb/uvc/capture.rs:142): With a metadata frame between any two video frames, every capture waits for the flip, collects the metadata frame and gives up; LAST_EOF_FID does not change, so the next one does the same, for ever. src/src/drivers/usb/uvc/capture.rs:86-88 describes such cameras and says "所有帧结束判定都要求 EOI 真实存在,否则丢弃重试".
11. `UvcCapture_bound.cfg`, `CaptureIsBounded` (src/src/drivers/usb/uvc/capture.rs:118): Neither loop of try_frame counts packets. src/src/drivers/usb/uvc/capture.rs:16 says "上限次数(等翻转 + 攒帧各 80k 微帧,共 ~160ms × 2)".
12. `UsbTree_open.cfg`, `OpenedAfterWalk` (src/src/drivers/usb/uvc/mod.rs:76): probe opens the camera, with its stream and a first capture, in the middle of the walk. src/src/drivers/usb/uvc/session.rs:5-7 says of probe "**中途**只做轻量匹配记录（枚举时做重 I/O 初始化会连累整树遍历）" and of open "在遍历**结束后**做重初始化".
13. `UvcStream.cfg` with `ClosestBelowWins` as its invariant (src/src/drivers/usb/uvc/descriptor.rs:324): The rank of a frame within the preferred area is pref_area - area, largest for the smallest frame. src/src/drivers/usb/uvc/descriptor.rs:321 says "≤ 偏好面积越接近越好；超出按超出量倒扣".
14. `UvcStream.cfg` with `OneTransactionOnly` as its invariant (src/src/drivers/usb/uvc/descriptor.rs:502): The choice compares the low eleven bits of every alternate setting and does not look at the multiplier. src/src/drivers/usb/uvc/descriptor.rs:485 says "因此只考虑 mult=1 的候选".
15. `UvcStream_two.cfg`, `StreamFits` (src/src/drivers/usb/uvc/descriptor.rs:359): consider puts the alternate settings of every streaming interface into one table, and start_stream arms the chosen number on the interface of the initial guess. src/src/drivers/usb/uvc/descriptor.rs:203 says of the table "同一 ep 的全部 Isoch alt".
16. `UvcStream_table.cfg`, `ArmedAltFits` (src/src/drivers/usb/uvc/descriptor.rs:359): Alternate settings after the eighth are not recorded, so the widest one may be out of reach of the choice after PROBE even when the initial guess had it. src/src/drivers/usb/uvc/descriptor.rs:479-480 says "从所有 Isoch alt 候选中挑出 **总带宽 ≥ payload** 且**最小**的那一个；找不到则取带宽最大的".
17. `JpuSession_pool.cfg`, `StreamBufInPool` (src/src/drivers/jpu/mem.rs:48): init rounds the base up to a page and keeps the size; JPU_POOL_PA is 8 KiB off a 16 KiB boundary, so the pages the allocator hands out end 8 KiB past JPU_POOL_PA + JPU_POOL_SIZE. src/src/platform.rs:52-54 says "JPU DMA 内存池（stream_buf;YUV 缓冲之后避免重叠）" of a region of "256KB".
18. `JpuSession_torn.cfg`, `AcceptedCopyWhole` (src/src/drivers/jpu/decoder.rs:409): The next decode writes the shared buffer while frame_count still has the value of the last announcement, so checking the count before and after a copy does not show the overwrite. src/memory.ld:4 says "YUV 用单缓冲（大核 cvi_yuv 用 seqlock 防撕裂）".
19. `Heartbeat_early.cfg`, `ArmedBeforeEnabled` (src/src/arch/trap.rs:42): init_interrupts enables the timer interrupt and MIE before init_heartbeat arms mtimecmp. src/src/arch/time.rs:65 says "先装 cmp 再开 MTIE，避免风暴".
20. `JpuSession_dims.cfg`, `HeightSurvives` (src/src/ipc.rs:60): with FLAG_YUV_READY a height without bit 7, such as 600, is read back as another one (728). src/src/ipc.rs:38 says "bits 20-31/8-19 = width/height".
21. `UvcStream.cfg` with `OnlyAdvertisedAsked` as its invariant (src/src/drivers/usb/uvc/control.rs:207): with automatic balance the temperature is read whether bmControls has it or not. src/src/drivers/usb/uvc/control.rs:100 says "每一项都按 `bmControls` 决定是否发送，不支持就跳过".
22. `UvcStream.cfg` with `DefaultsSurviveLoss` as its invariant (src/src/drivers/usb/uvc/control.rs:206): a camera that came with automatic balance is left without when the request that turns it on again is lost. src/src/drivers/usb/uvc/session.rs:51 says "失败不阻塞——按出厂默认继续".
23. `UvcStream.cfg` with `CommittedIntervalSupported` as its invariant (src/src/drivers/usb/uvc/descriptor.rs:105): the preferred interval is clamped to the bounds of a continuous range, and dwFrameIntervalStep is read for the log alone (line 275), so that an interval between two steps is committed. src/src/drivers/usb/uvc/descriptor.rs:74 says "从某 frame 描述符的可用 interval 集合中选最接近的值".
24. `JpegHeader.cfg` with `EveryDcValueInPlace` as its invariant (src/src/drivers/jpu/decoder.rs:299): the codes of all 16 lengths are uploaded for a DC table, but its values are counted over the first 12 lengths, so that a longer code points to padding. src/src/drivers/jpu/mod.rs:4 says "Baseline JPEG 硬件解码，输出 YUV420 planar。"
25. `JpuSession.cfg` with `FailedFrameAnnounced` as its property (src/src/drivers/jpu/header.rs:421 and 450): a header with a hole in a table panics inside parse_jpeg_header, nothing is announced and no next frame is tried. src/src/drivers/jpu/session.rs:34-35 says of decode_to_shared "失败时 JPU 已被复位重建，返回 `Err`；调用方应跳过本帧 YUV（只通知 MJPEG），下一帧重试".

## Not modelled

* `drivers/ive.rs` and `yuv_buf.rs`: dead code, as line 3 of `ive.rs` says; only its
  input format setting can be stored, by a mailbox command, and nothing reads it.
* Board bring-up (`platform.rs`, `drivers/gpio.rs`, `drivers/pinmux.rs`), the JPU's
  `hardware_init` and the writes of the USB bring-up that nothing answers (GOTGCTL,
  GUSBCFG, GAHBCFG, HCFG, the PHY): fixed lists of register writes without a branch
  that depends on state; and the register tables (`regs.rs` of both drivers), which
  are layouts. Only the hardware can say whether a value is right.
* `arch/cache.rs`: its effect (write back, invalidate) is part of the actions that
  call it; the loops over lines are not. `dwc2/dma.rs`: the bounce buffer is modelled,
  offsets inside the window are constants.
* The big core's firmware is not in the repository. Its half of the lock, its sender,
  its mailbox reader and YUV reader are external parties.
* Memory ordering between the cores: the lock and mailbox registers are device memory
  with fences in the code, so accesses take effect in program order.
* Which bytes a hole leaves in a header: `JpegHeader` has the branches that panic, but its
  run has no such bytes; `JpuSession` takes any captured frame to be possibly one. What
  should happen when a camera's interval range is upside down (`ScanFramePanics`) no text
  of the repository says.

## Plan

1. Done: all components but the ones above; of the safety properties the runs check,
   proofs of all but `ParsedAsWritten` and the parts of `TablesInPlace` about frame and scan
   headers.
2. Open: the round trip of the parser for headers of any length, segment by segment: with
   the position of each segment as a sum (`SumIs`), `ParserInv` would say that `i` is one
   of them and that `info` is what the segments before it say.
3. Open: an abstract specification of the frame pipeline (capture, decode, announce) that
   `Mailbox` and `JpuSession` both implement.
