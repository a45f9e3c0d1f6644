# Verification of the drone board's radio and serial software

TLA+ models of the firmware of the IARC HAT (an ESP32 on each drone and in the
ground panel), of its radio library RFNet, of `loracom`, the program of the
Raspberry Pi that talks to the HAT over a serial line, and of the kernel drivers
of the Pi's camera sensors; TLC configurations that check them on small
instances; and theorems that TLAPS proves for every instance.  Paths are
relative to `src/`; `RFNet/` stands for `firmware_IARC_HAT/lib/RFNet/src/` and
`drivers/` for `firmware_CMDB/framos-rpi-drivers/drivers/`.

## 1. The system

### Components

| Component | State it keeps | Operations | Concurrency |
|---|---|---|---|
| **Engine, transmit side** (`RFNet/engine/Engine.cpp`, `core/fragment/LargeTxSession.cpp`) | message pool, event queue, `_pending`, `_deferred`, `_delayedTx`, one large-send session | `acquire`/`send`, `startLargeSend`, worker loop (`_routeTxReq`, `_sendMsg`, `_sendNextFragment`, `_completeLargeSend`, `_flushDeferred`, `_checkTimeouts`, ...) | application threads, worker task, radio interrupt |
| **Engine, receive side** (`Engine.cpp` `_handleRaw`) | ACK retry table, forward table | filter, decrypt, de-duplicate, acknowledge, reassemble, deliver, forward | worker task only, fed by the interrupt |
| **Reassembler** (`core/fragment`) | slots of large messages, ring of aborted ids | `ingest`, `tick` | worker task |
| **Freshness** (`core/freshness`) | replay windows per peer, seen cache | `isReplay`, `checkAndMark` | worker task |
| **Sequence counter** (`core/nvs/MonotonicCounter.h`) | `_current`, `_lastSaved`, an NV record | `begin`, `get`, `increment` | power loss at any step |
| **Duty cycle** (`core/duty`) | a deadline in one of two time bases, an NV record of it | `init`, `canTransmit`, `getWaitMs`, `addTransmission` | engine and application under a mutex |
| **Engine life cycle** (`RFNet/engine/RFNode.cpp`, `Engine.cpp`) | three flags, the worker task, the OS objects | `begin`, `startWorkerTask`, `poll`, `end` | application thread against worker task |
| **Routing** (`core/routing`) | none, or a static table | `shouldForward`, next hop | across nodes |
| **Radio, OSAL, NV, clock, cipher adapters** (`port/`) | driver flags, vendor handles | send, receive, queue, task, read, write | interrupts |
| **UART bridge** (`firmware_IARC_HAT/src/node/UartRfBridge.cpp`) | receive queue and its peeked head; transmit queue, its byte count, the message in flight, verdict flags; the frame parser | `poll` (parse, serve a frame, `pumpTx`), `onReceive`, `onSendOk`, `onSendFail` | poll task and RF worker task |
| **Drone node** (`src/node/main_node.cpp`) | the two power gates | `setup`, KILL handler | setup and RF worker task |
| **Kill switch panel** (`src/killswitch/main.cpp`) | per channel: state, last send, two flags, lamp bits | `loop`, `onSendOk`, `onSendFail` | loop and RF worker task |
| **loracom** (`firmware_CMDB/loracom`) | a receive buffer; a device lock | send, get, configuration | several processes; the serial line |
| **Sensor drivers** (`drivers/fr_imx662.c`, `fr_imx676.c`, `fr_imx678.c`, `fr_imx900.c`) | mode, format code, V4L2 controls, `streaming`, the sensor's registers | `set_ctrl`, `set_pad_format`, `set_stream`, `suspend`/`resume`, runtime power management | any number of clients, the power-management core; `imx->mutex` |
| Setup scripts, GMSL drivers, overlays, PCBs, test applications | - | - | outside the scope |

How they interact: `loracom` exchanges frames with the bridge over a line that
may lose and corrupt them; the bridge hands messages to RFNode (`sendAck`) and is
called back on the RF worker task; RFNode's engine transmits over a radio that
loses frames, and takes the sequence number of each frame from the counter.  The
panel sends `KILL` through the same engine, and the drone's receive handler
drops the power gates.  Every frame of the engine passes `_txAndAccount`, which
asks the duty-cycle tracker; every frame received passes the freshness tables,
then goes to the reassembler or the application, and in a mesh to the forward
queue of the node.  The sensor drivers share only the Pi with the rest.

### What is hard, and the properties that matter

* **The engine's transmit side.** A pool slot is owned in turn by the
  application, the event queue and one of three tables; sessions are opened by
  an application thread and driven by the worker, within calls nested in one
  another; interrupts may be lost.  Correct means: one owner per slot, one
  callback per accepted message, one fragment at a time, every accepted message
  reported, no message timed out before its time.
* **The bridge.** The verdict of a send may come before the send has returned.
  Correct means: a message the host was told is queued is never lost, a verdict
  is never another message's, a peer out of range blocks nobody.
* **The serial protocol.** Replies are matched by position and an ACK says not
  what it acknowledges.  Correct means: each message is printed, then popped, in
  order; success is reported only for what was queued; every call ends.
* **The kill switch.** Flags raised by one task and dropped by the other, lamps
  that must not lie, a press that must not be forgotten, a drone that may be
  booting when the KILL arrives.
* **Freshness.** A nonce must never be used twice, through power losses and
  failing NV writes.
* **Large messages.** Fragments of several senders compete for a few slots, come
  in any order and late; message ids are a byte.  Correct means: a message is
  handed over whole and unmixed, and nothing is acknowledged that the receiver
  has given up.
* **The mesh.** Copies of one frame come over several paths, to relays with
  bounded queues and windows.  Correct means: handed over once, relayed once,
  within the hop budget, to everyone reachable, and an ACK is no one else's.
* **The duty cycle and the life cycle.** The check and the account of a frame are
  apart; the clock may become valid or invalid in between, the node be ended,
  begun or switched off.  Correct means: the off-time is kept, one thread drives
  the engine, and nothing is freed under a running worker.
* **The sensor drivers.** Frame rate, blanking, exposure, gain and mode bound one
  another; controls can be set without power.  Correct means: what the registers
  of a stream hold is what the controls and the format report.

`PROJECT.json` lists each hazard at its line with the properties that cover it.

## 2. Modules

| Module | Models | Composed of |
|---|---|---|
| `SeqCounter` | `MonotonicCounter`, with the power and the NV store around it | - |
| `EngineTx` | the engine's transmit side: application, worker, interrupt | the radio is its environment |
| `EngineTxProofs` | its theorems | extends `EngineTx` |
| `BridgeTx` | the bridge's transmit side: poll task and RF worker | RFNode as promised by `EngineTx` |
| `BridgeTxProofs` | its theorems | extends `BridgeTx` |
| `HostLink` | `loracom` against the bridge's frame handlers, and the line | one process at a time (`DeviceLock`) |
| `HostLinkProofs` | its theorems | extends `HostLink` |
| `KillSwitch` | panel loop and callbacks, radio, drone's setup and handler | the engine as promised by `EngineTx` |
| `KillSwitchProofs` | its theorems | extends `KillSwitch` |
| `LargeDelivery` | what RFNet promises of a large message | - |
| `FragTransfer` | the transfer of large messages: sessions, medium, `Reassembler`, receiver restarts | implements `LargeDelivery` |
| `FragTransferProofs` | its theorems, the refinement among them | extends `FragTransfer` |
| `Freshness` | `ReplayWindow`, `SeenCache`: operators on their states | - |
| `MeshFlood` | a mesh of nodes: `_handleRaw`, ACKs, forwarding, routing | extends `Freshness` |
| `MeshFloodProofs` | lemmas about `Freshness`, theorems of `MeshFlood` | extends `MeshFlood` |
| `DutyCycle` | `DutyCycleTracker` and the clock, the NV record beside it | - |
| `NodeLife` | `RFNode`/`Engine` life cycle, the worker loop, `_txAndAccount` | extends `DutyCycle` |
| `NodeLifeProofs` | theorems of `SeqCounter` and of `NodeLife`: what a node keeps over restarts; lemmas about the tracker | extends `NodeLife`, `SeqCounter` |
| `ImxSensor` | what the four sensor drivers do alike | - |
| `ImxSensorProofs` | lemmas about the cascades, theorems of `ImxSensor` | extends `ImxSensor` |
| `Imx662`, `Imx676`, `Imx678`, `Imx900` | a driver's modes, bounds and triggering | extend `ImxSensor` |

`MC*.tla` and `MC*.cfg` instantiate them for TLC.  Each module defines, next to
an operator, the mutants of it that were used to see its properties fail; no
action uses them.  Every module states a `TypeOK` (`CounterTypeOK` in `SeqCounter`); where it is not among a run's
invariants, one line in the `.cfg` adds it.

### Correspondence to the code

**SeqCounter.** `current` and `lastSaved` are `_current` and `_lastSaved`;
`nvState`/`nvValue` the record.  `Boot` is `begin()` in its three outcomes,
`Take` the `get(); increment();` pair of `_sendMsg`, `Air`/`Drop` what becomes of
the frame.  Power may fail between any two of them.  The record may be misread or
overwritten by something else, writes may fail.  `SeqMod` stands for 2^24.

**EngineTx.** One action is a stretch of code between two accesses to state
another thread sees.  The worker's nested calls are the stack `todo`:
`_completeLargeSend` called from `_checkTimeouts` flushes the deferred messages,
which are routed, transmitted and may complete in turn, before the scan resumes
at index `scan`.  A slot carries its message in `pool`; `used` are the `used`
flags.  Time is abstracted to `clock` per pending entry (`waiting`, `elapsed`, or
`future` for a stamp taken after the `now` of the running scan) and to the parked
and the ripe entries of `_delayedTx`.  A received ACK is represented by the slot
it acknowledges.  Elsewhere: the forward and ACK-retry tables (`MeshFlood`),
`begin()`/`end()`, `poll()` without a worker and the duty cycle (`NodeLife`);
here, whether the duty cycle allows a frame is a choice.

**BridgeTx.** `pc` is where the poll task is in `pumpTx`/`submitTx`; each store of
`onSendFail` is a step, as the poll task reads the three flags without a lock.
RFNode accepts, refuses for now, or refuses for good; `attempts` counts to
`TX_FAST_ATTEMPTS`, where the backoff begins.

**HostLink.** `call` is the transaction of the running `loracom`; `up` and `down`
are the frames on the line.  Every line fault and every answer later than the
host's timeout is counted against a bound.  `--force`, the byte parser of the
bridge and the resynchronisation of `readFrame` are abstracted: a frame arrives
whole, corrupted (the checksum fails), or not at all.  The content of a GETMSG
is printed in the step that acknowledges it.

**KillSwitch.** `at` is where `loop()` is between two accesses to the flags; the
four channels share only the pool, so one is modelled and `OthersTake` stands for
the rest.  The debounced switch read may be skipped (bus error, bounce), an LED
port write may fail and is retried by the next pass.  On the drone, `StartWorker`
and `ArmFc` are the last two steps of `setup()`; the acknowledgement and the
handler of a frame are two steps because a restart may fall between them.

**FragTransfer.** `session` is `_largeTx[0]` of each sender; a message stands for
the content of its fragments, `<<message, index, try>>` for a sequence number.
`Receive` is the fragment branch of `_handleRaw` with `Reassembler::ingest`:
refused if aborted, else into the slot found or allocated (the least recently
active one is evicted and recorded as aborted), acknowledged, handed over when
complete.  `slots` is kept in order of activity, which is all `lastActivityMs` is
compared for.  A clock of the receiver runs out only where `_reasmTimeoutMs`
allows it: for a message whose session is over, or which waits for the duty
cycle (`LongWaits`), as that bound does not count such waits.

**Freshness, MeshFlood.** A window is `[src, last, bits]`, the list of them in
order of use; `IsReplay`, `Updated` and `AfterFrame` are `isReplay`, the age taken
modulo `SeqSpace` as the code takes it modulo 2^24.  A frame on the air is one
reception to come per node in range, in any order; `Receive` is the whole of
`_handleRaw` for single frames: own frame, duplicate, ACK, forwarding,
acknowledgement, hand-over.  `fwdQueue` and `ackQueue` entries are taken up at any
moment, which stands for jitter and backoff, and fail on a busy channel against
a bound.  The ACK of a node may go out at once or be parked.

**DutyCycle, NodeLife.** `duty` holds `_offUntilMs`, `_clockValid` and
`_lastSavedOffMs`; the two bases are ticks since `bootAt` and an epoch above
every tick.  `rule` is the legal deadline in true time and `owed` what of it the
code promises: it is lowered where the code says so, at a reboot to what the
record holds and when the clock becomes invalid to nothing ("drop the deadline
instead of guessing").  The tracker's mutex keeps its callers apart, but not the
clock, which SNTP may set at any moment; so a call is one step per reading of
`IClock::isValid`.  `Sync` is `_syncBase` (line 110), `Load` the `_loadFromNv` it calls
(146), and after these `CheckPasses`/`NotSent`/`CheckRefuses` end `canTransmit` and
`ReadWait` and `Answer` end `getWaitMs` with the reading of `_now` (104); `Extend` is that
reading and what `addTransmission` makes of it, `Save` its `_maybeCommit` (161).
`BeginOk` and `InitLoads` are the two readings of `init`.  The step after a call's
last reading also leaves the mutex (`Inside`); `epochMs()` is taken with the
`isValid()` that guards it.  `getWaitMs` is called by the driving thread after a
refusal, and by the application in `startLargeSend` (`SendLarge`, `Answer`), whose call
therefore interleaves with the worker's.  A reading that contradicts the
deadline's base is `WrongBase`; `mixed` remembers whether one has changed the
deadline, or the record.  `poll()` and the worker share the loop body.  `Callback`
is the application's handler, of any duration, which is why `EndGivesUp` can
happen.

**ImxSensor.** The controls are `ctl`, the registers `reg`; a cascade such as
frame rate, blanking, exposure range, shutter is one operator applied after the
other, as the control framework nests the calls, under the driver's mutex.
`p.on` is the answer of `pm_runtime_get_if_in_use`.  A driver is a record: its
modes with the numbers of its source (line length, least frame and shutter),
its black level, its trigger tables.  `StreamOn` is `start_streaming` followed by
the handler setup in the order of the controls; `WriteFails` and `WriteLost` are a
failing I2C write of the control that is set, the registers of the controls it
cascades into being written.  The sensor of this board is the IMX900
(`install-cam.sh`); the other drivers ship beside it.  Rates are whole frames per
second.  `DriversAssumption` says what the cascades need of a table: a mode's
shortest frame holds its picture, its blanking and one exposure and fits at one
frame a second; the codes share no mode; every mode declared for a code is found
at it by its size; a shutter mode that gives way keeps the trigger register of
the one asked for.  TLC evaluates it on the tables of all four drivers.

## 3. Runs

| Run | Bounds | Question |
|---|---|---|
| `seq_counter` | skip 2, wire width 8, values to 9 | are nonces fresh through power losses and NV faults |
| `engine_tx` | 2 messages, 1 large of 2 fragments, pool and queue of 3, 2 interrupts | safety of the transmit side under every interleaving |
| `engine_tx_live` | pool and queue of 2, duty put-off, fairness | is every accepted message reported; is the slot reserve enough |
| `bridge_tx` | 4 messages, 3 peers out of range, queue of 2, 3 bytes, fairness | is anything lost, mixed up or blocked |
| `host_link` | 3 messages in, 2 out, 3 calls of every kind, 2 faults, 1 late answer, fairness | do the two ends stay in step; does every call end |
| `kill_switch` | pool of 2, 1 slot taken by others, 3 switch throws from any position, 1 restart | do flags, lamps and waits agree |
| `kill_switch_live` | pool of 2, 2 throws from any position, fairness | is a held press confirmed in the end |
| `kill_switch_gates` | 6 throws | refutes a comment, see below |
| `frag_transfer` | 2 senders, 3 messages of 2 fragments, 1 slot, 1 retry, 1 long wait, 1 restart | is a message spliced, or acknowledged and lost; does the transfer keep what `LargeDelivery` promises |
| `node_life` | 2 messages, queue of 1, 2 engines, 1 power cycle, time to 2, off-time 1, fairness | who drives the engine, what is freed when, is the off-time kept, does a worker told to stop stop |
| `mesh_flood` | a line of 3 nodes, 4 messages with budgets 0 to 3, numbers modulo 8, windows of 2 bits and 1 peer, 1 fault, flooding and static routes | do floods end, reach everyone and stay single |
| `imx_sensor` | the four drivers, the IMX900 in colour and mono, all modes; 2 controls or formats set, 1 failed write | do controls, format and registers agree |

Why the bounds are enough.  The pool of three leaves two slots to ordinary
messages, so two wait for ACKs beside a fragment, and the pool of two is the
smallest the code's `static_assert` allows, where the reserve is all a session
has.  Two fragments give a first, a last and a retry between them.  The bridge's
queue of two with four messages reaches the state the retry reservation is for:
queue and reservation full with a send in flight.  With both switches in any
position at power-up, two throws release and press again while an earlier
outcome is under way; the counter's instance wraps once.  One reassembly slot
for two senders makes each fragment of one evict the other, so the ring of
aborted messages fills and turns over; ids do not repeat within it, as the code
assumes (`Reassembler.h:9-18`).  An event queue of one is full when `end()` pushes
its SHUTDOWN; a time of two lets a frame be sent, the clock change, the node be
ended, begun or switched off, and the next frame be due while the off-time of the
first runs. The clock may change at every step, so it does between any two
readings. A second lawful transmission takes the longer time of
`MCNodeLifeLong.cfg` (off-time 2, time to 4, the safety properties without
fairness; 6.5 million states). With off-time and commit threshold equal every
transmission is due for a commit; one below the threshold is covered by
`RecordIsKeptUp`, which is about every threshold. The ends of the line of three do
not hear each other, so the relay's frames come back to whom they came from; the
numbers start one before the wrap, and a window of one peer is evicted whenever
the other end is heard. Two controls reach the cascades that need one change to
take the room another left; a third adds states and no new order of two.
Deadlock is checked for the kill switch; the other models stop
where their bounded inputs are used up, and `ImxSensor` also where the driver
itself does (see below).

### What the refuting run shows

* `kill_switch_gates`: a KILL handled before `setup()` ends is undone by
  `digitalWrite(KILLSWITCH_FC_CTL, HIGH)`.

### Further counterexamples

Each of these configurations states what a comment or document says, and ends
in a counterexample (`tlc -config <name>.cfg <module>.tla`):

* `MCEngineTxStranded` (`MCEngineTx`, `DeferredOnlyInSession`; `Engine.h:159-160`):
  `startLargeSend` that ends with `QUEUE_FULL` releases its session without
  flushing what the worker deferred meanwhile; the message hangs until another
  large send completes.  `Settles` therefore excepts a message the worker rests on with no
  session running and no send under way, and nothing else: a session that ends in any
  other way has to flush what it parked.
* `MCEngineTxEarly` (`MCEngineTx`, `NoEarlyTimeout`; `RFNode.h:86`): a message sent
  from within `_checkTimeouts` is stamped after the scan's `now`; the unsigned
  difference makes it expire at once.
* `MCHostLinkConf` (`MCHostLink`, `PopMeansGot`; `UartRfBridge.cpp:455`): after a
  GETMSG whose answer was lost, the ACK of a GETCONF pops the unread message.
* `MCHostLinkNoAck` (`MCHostLink`, `NoAckMeansNotQueued`; `protocol.adoc:46-48`): a
  SENDMSG whose ACK is lost is reported as failed, and is transmitted, once per
  attempt.
* `MCFragFalseSuccess` (`MCFragTransfer`, `NoFalseSuccess`; `Engine.cpp:1113`): a
  duty-cycle wait of the sender outlasts the receiver's slot and then the record
  of its abort; the retransmission opens a new slot, is acknowledged, and the
  sender is told of a success of a message that was never handed over.
  `_reasmTimeoutMs` (`Engine.cpp:734-742`) counts retries and not such waits.  A
  restart of the receiver has the same effect.
* `MCNodeDeadWorker` (`MCNodeLife`, `WorkerOwnsNode`; `RFNode.h:186-188`): a worker that
  runs before `startWorkerTask` has stored `_workerStarted` (`Engine.cpp:486-489`)
  leaves its loop at once; `startWorkerTask` returns true, `poll()` is refused,
  and nobody drives the node.
* `MCNodeClockEarly` (`MCNodeLife`, `OffTimeElapses`; `DutyCycleTracker.h:11-12`): the
  clock is set between the two readings of one `canTransmit`, lines 110 and 104.  The
  deadline still counts ticks, `_now()` answers epoch milliseconds, and a frame
  leaves within the off-time of the last.
* `MCNodeClockRecord` (`MCNodeLife`, `RecordIsEpoch`; `DutyCycleTracker.h:126-127`): the
  clock is set after `addTransmission` has read it for the last time (86) and before
  `_maybeCommit` reads it (161).  The deadline, a tick count, is written as an epoch
  second in the place of the one on record; after a reboot it is long past.
* `MCNodeClockMuted` (`MCNodeLife`, `WaitIsEarned`; `DutyCycleTracker.h:114`): the clock
  is set between lines 83 and 86.  The deadline becomes an epoch time while
  `_clockValid` stays false; the next `_syncBase` carries it over as if it were ticks,
  and the node waits for as long as the epoch is old.  In `init` the clock set between
  lines 36 and 146 does the same with the deadline on record.
* `MCImxSensorFallback` (`MCImxSensor`, `FallbackIsDefault`; `fr_imx900.c:1482-1503`):
  a shutter mode the operation mode does not support gives way to the default in
  the control's value, while TRIGMODE and VINT_EN keep other values than that
  mode's.

More were met and are stated as exceptions of properties: a drone that restarts
between acknowledging a KILL and handling it (`RxMeansKilled`); an answer later
than the host's timeout, which is taken for the next one's (`AckMeansQueued`,
`AckPopsItsOwn`); a window evicted for another sender's (`NoDuplicates`); a
deadline written with a failing NV store, which is not written again, or while the
clock was set (`RecordKeepsUp`); a frame whose own `canTransmit` had the clock set
between its readings, and frames sent while a tick count stands in the record in
place of a deadline that is still owed (`OffTimeKept`); a register write that fails (`RegistersFollow`: the data write's
error is overwritten by that of releasing REGHOLD, `fr_imx900.c:641-647`).  Others
the models contain and no property forbids:

* A deadline kept in ticks is dropped by `end()` and `begin()`, and one from
  before the clock was set is first recorded by the next transmission; `owed`
  follows the code in both.
* A due ACK during a large send makes `_nextWakeMs` return 0 while
  `_processOutgoingAcks` refuses to run (`Engine.cpp:522-527`, `612-616`): the worker
  spins until the session ends.
* A full forward queue drops a frame that is already marked as seen, and a copy
  that came the longer way, its budget used up, hides a later copy that had hops
  left.  `BroadcastReaches` is therefore about budgets that allow the longest way,
  and states in which no frame was lost, no window of the sender evicted, and no
  message of its sender sent that is a whole window newer: a copy overtaken by
  such a one is refused for its age.
* `s_stream(1)` holds `imx->mutex` while `pm_runtime_get_sync` waits for a suspend
  under way, and `power_off` waits for that mutex (`fr_imx900.c:2037-2044`, `2173`):
  both stop for good.
* A resume that fails clears `streaming` and neither returns the power reference
  nor releases the grabbed controls (`fr_imx900.c:2213-2216`).
* A change of the conversion gain, at each start of a stream too, resets the
  analogue gain before it is written (`fr_imx900.c:893-913`, `1981`).

### Fairness

* `EngineTx`: the RTOS runs a ready worker, a thread inside a send gets out of
  it, the clock advances.  The clock stands still for one `_checkTimeouts`, as
  the code reads it once, hence strong fairness of a timeout.  Nothing is assumed
  of the radio: every message may fail.
* `BridgeTx`: both tasks run, backoffs end; for the peer in range, RFNode accepts
  and delivers a message that is offered again and again.  Of the others nothing
  is assumed.
* `HostLink`: the process and the device run; the line may do anything.
* `KillSwitch`: loop, callbacks and drone run; the engine reports every send
  (`Settles`); a switch read, a lamp write, a KILL and an ACK succeed if tried
  over and over.  A retry without a limit is justified by nothing less.
* `NodeLife`: the scheduler runs the worker, and the application's thread where it is
  inside a call of the library, as it may hold the tracker's mutex there; time
  passes (so a transmission ends), and a handler of the application returns.  The application need not call
  `end()` again, nor anything else.
* `FragTransfer`, `MeshFlood` and `ImxSensor` state no liveness: that a sender comes
  to an end is `Settles`, the rest of them is moved by the radio or by clients.
  `BroadcastReaches` is about the states in which nothing is under way.

## 4. Proofs

TLAPS proves, for every value of the constants that satisfies the named
assumptions (naturals, finite sets; no bound is used):

* `NodeLifeProofs`, of `SeqCounter` - `NonceFreshness`: `Spec => []ReuseOnlyAfterLoss`, and
  `RamAgreesWithStore`.  Neither is inductive: that a value about to be sent is
  new needs that everything on the air lies below `current`, that `current` stays
  within one skip of `lastSaved`, that `lastSaved` is what the store holds unless
  a write failed, and therefore that `begin()`, which skips ahead of the store,
  lands above all of it.  `InductiveInvariant` proves that conjunction.
* `KillSwitchProofs` - `NothingIsWaitedForInVain`: `[]NoLostWait` is inductive with
  the type invariant: a KILL leaves the engine only by raising a flag, and
  `loop()` drops a flag only when it leaves INFLIGHT.  `ConfirmedIsKilled`:
  `[]RxMeansKilled`, from the invariant that follows an acknowledgement through
  its stages: slot, flag, latch, lamp.
* `NodeLifeProofs`, of `NodeLife` - `SingleDriver` and `FreedAlone`: `[]OneDriver` and
  `[]NoUseAfterFree`, from `LifeInv`, which says in which flags the worker's
  place shows: a worker that exists was spawned on this engine and its exit is not
  signalled; the application is inside the loop only if none was started; an
  engine that is gone has no worker.  `OffTimeIsKept`: `Spec => OffTimeKept`, with
  the two exceptions that property names.  Its invariant is `Debt`: what is owed beyond
  now is at most what the tracker would make a sender wait, and one off-time more
  while a frame is between the radio and the account.  It holds because a single
  thread is in that gap (`OneDriver`), because the mutex lets one thread at a time
  between `_syncBase` and the end of a call (`Locks`), and because each reading keeps
  the wait: the lemmas `SyncWait`, `LoadWait`, `FreshWait`, `ExtendWait`, `SaveWait`,
  `TickWait` and `ClockSetWait`, each for any deadline, clock and record.  Where a
  reading contradicts the base, `Debt` goes on with what is true then: a deadline
  on the wrong base refuses for longer than any run takes (`Muted`), which keeps the
  off-time all the more, and a tick count on record is excepted until what was
  owed is over.  `Held`: a thread that is to account for a frame, and finds a
  deadline of a clock that was lost, owes nothing from before.  `RecordIsKeptUp`:
  `[]RecordKeepsUp`, from `KeptUp`, which follows the record beside the deadline the
  tracker last saved.
* `FragTransferProofs` - `WholeMessagesOnly` (`[]NoSplice`) and `AcknowledgedIsKept`
  (`[]AckedIsKept`), from an invariant that ties every slot, every fragment under
  way and every record of an abort to one message of its sender, and the running
  session's acknowledged fragments to the slot, to the hand-over or to such a
  record.  `TransferImplements`: `Spec => Implements`, that is, `LargeDelivery`
  holds under the refinement mapping; every action has one step of the proof, and
  maps to an action of `LargeDelivery` or to a stutter.
* `EngineTxProofs` - `[]OneOwner`, `[]StopAndWait`, `[]SessionNotForgotten`,
  `[]LargeOkMeansAll`, `[]LostIrqHarmless`, `[]FragmentReserve`, and the action
  property `ReportOnce`.  Ownership is the hard one: it counts a slot's occurrences
  in a queue, three tables and the calls under way, so the proof does, by what
  each step adds to and takes from each of them (`OwnersMove`); the others need to
  know where the session stands between two nested calls (`Core`, `WireOK`).
* `BridgeTxProofs` - `QueuedIsKept` (`[]NothingLost`), `VerdictIsTheirs`
  (`[]VerdictIsOurs`) and `PayloadIsKept` (`[]PayloadKept`).  `_queuedTxBytes` is a sum
  over the queue, which the prover cannot do by induction: the invariant carries
  the partial sums along the queue (`Splits`).
* `HostLinkProofs` - `PrintedInOrder` (`[]ReadInOrder`), `PopsWhatItAcknowledges`
  (`[]AckPopsItsOwn`) and `SuccessIsQueued` (`[]AckMeansQueued`), from two invariants
  about the line: what a frame carries lies at or before the head of the queue
  (`InOrder`), and as long as no answer was late there is one frame on the line, or
  an ACK and the request behind it (`OneExchange`).
* `MeshFloodProofs` - for any mesh, routes and strategies: `AcknowledgedIsHanded`
  (`[]OkMeansHanded`), `StaysInBudget` (`[]WithinBudget`), `CopiesDoNotMultiply`
  (`[]NoDuplicates`), `NewIsNotRefused` (`Spec => NoFreshRefused`) and `FloodReaches`
  (`[]BroadcastReaches`).  Below them are lemmas about the replay window: `Ahead` is
  the true distance of two numbers that are close, over any wrap; `AfterFrame`
  moves one peer and leaves the others; a window holds what was accepted of its
  sender (`Follows`), accepted frame by frame and refused ones included.  The flood
  itself rests on `Flows`: each neighbour of a node reached is reached, has a copy
  coming, or the node has one to relay; and no copy has used more hops than there
  are nodes reached, which is why a budget for the longest way suffices.
* `ImxSensorProofs` - for any table of drivers that meets `DriversAssumption`:
  `FormatIsKept` (`[]FormatKept`), `RegistersAreFollowed` (`[]RegistersFollow`),
  `SensorStaysInBounds` (`[]SensorInBounds`), `TriggerIsKept` (`[]TriggerKept`) and
  `ExposureReachesShutter` (`Spec => ExposureTakes`).  The controls fall into four
  groups that the cascades keep apart - timing, gain, black level, triggering - and
  the invariant is a conjunction over them: what holds of a group's controls
  always, a failed write or a change of format included (`ControlsOK`), and what its
  registers hold on a faithful stream (`Held`).  One lemma per cascade says what it
  does to its own group and that it leaves the others alone, so a nest of
  cascades is followed by citing lemmas; `start_streaming` is their sequence
  (`StartEffect`), and writing everything anew is why a faithful stream owes nothing
  to what went before.  That the frame never becomes too short is arithmetic on
  the two divisions of `update_frame_rate` and `set_limits` (`LinesEnough`).
  `FormatIsKept` needs that `v4l2_find_nearest_size` finds the exact size
  (`NearestEffect`), and that `set_pad_format`, which stores the code only when the
  mode changes, cannot keep a wrong one because the codes share no mode.
* `TypesAlways` or `TypeCorrect`, type correctness, in all of these modules but
  `NodeLifeProofs`, where it is part of `LifeInv` and `Debt`.

What the theorems assume beyond finite sets and naturals, each named where it is
declared: a sender's first 256 messages (`IdsDoNotRepeat`; ids are a byte, and
`Reassembler.h:9-18` states the limit) and messages of two fragments or more
(`Totals`) for large messages; a node's messages numbered apart and within half of
the number space, so 2^23 of them (`NumbersClose`), which is what 24-bit numbers can
order; that the value which stands for "none" is no message (`NoneAssumption`,
`MsgAssumption`, `NamesAssumption`); for `FloodReaches` what `BroadcastReaches`
itself says.

Three properties were found too strong or too weak by their proofs and restated:
`RecordKeepsUp`, whose strict bound no state meets when the commit threshold is
zero; `BroadcastReaches`, which has to except evicted windows and overtaken
messages; and `ExposureTakes`.  The handler setup sets VBLANK and EXPOSURE up before
the frame rate.  When a stream is resumed after `set_fmt` changed its mode, an
exposure that gives way to the frame is therefore written as counted from the end
of the frame before, and the frame rate, which may change VBLANK, writes it again
only if the exposure changes once more.  The numbers of the four drivers' tables hide
the difference; for any table it is there, and the property names the exception: the
stream was not faithful, and the shutter is counted from the frame before.
Everywhere else (a client's exposure or frame rate, a resume of a faithful
stream) it is counted from the frame as it is.

Only model-checked: all liveness (`Settles`, `NoWedge`, `CallEnds`, `PressIsConfirmed`, `WorkerStops`).
Liveness under fairness and ENABLED are beyond the prover, as are inductions over
data; the proofs use invariants that carry partial results instead (`Splits`).

## 5. Plan

What is left, in order of importance:

1. The flags of `RadioLibRFRadio`: edges dropped during a channel assessment or a
   transmission (`RadioLibRFRadio.h:279`).
2. `DeviceLock` and several `loracom` processes, one killed at any step.
3. The packet codec as a pair of functions that invert each other.

Further abstract specifications worth stating: an engine that owns a set of
messages and reports each once (`EngineTx` implements it, `BridgeTx` and
`KillSwitch` assume it); a mailbox read in order (`HostLink`).

## 6. Not modelled

Cryptographic arithmetic, modulation parameters and register-level drivers of
the radio chips (pure computation or I/O); the GMSL serializer and deserializer
drivers, whose link the board does not have; of the sensor drivers, flips and test
pattern, which no other state depends on, selection rectangles, identification and the
content of the register tables; device-tree overlays and prebuilt modules; setup
scripts (provisioning; kernel modules are never reloaded while in use,
`PATCHES.md`); argument parsing and the demonstrators (sequential, no state); the
promiscuous monitor build; PCBs.  `NodeLife` takes the application to keep to
`RFNode.h`: one `startWorkerTask()` per `begin()`, and after an `end()` that gave up
only `end()` again.
