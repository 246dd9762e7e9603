# TLA+ models of the LiteX-M2SDR TX scheduler and header framing

This directory holds TLA+ specifications of the timestamp-triggered TX
release logic of LiteX-M2SDR (`src/litex_m2sdr/gateware/ad9361/scheduler.py`,
`src/litex_m2sdr/gateware/header.py`), the TLC configurations that check
them, and `PROJECT.json`, which lists the components, runs, the mutants that
show each property can fail, the map from TLA+ definitions to source lines,
the findings and the hazards.

## 1. Inventory

### Components and their state

| Component | Source | State | Operations |
|---|---|---|---|
| Scheduler (release gate) | `scheduler.py` `Scheduler.__init__` | `now`, `streaming`, `frame_count` (10 bits), `latched_ts`, `latched_header` | one rfic clock cycle: push into the FIFO, pop and latch the header (frame_count 0) and timestamp (frame_count 1), set `streaming` when `can_start`, pop payload to `source` while streaming, clear at the last frame or when `enable` is low; `now` follows `time_input` or loads `manual_now` on the write strobe |
| Admission queue | `data_fifo` (litex `stream.SyncFIFO`, depth `frames_per_packet*max_packets`) | frames in order | push when not full, pop the head |
| Scheduler CSR / CDC path | `scheduler.py` `add_csr` | `_write_time`, `_read_time`, `_current_ts`, `time_read`, `current_ts_read`, three `PulseSynchronizer`s, `MultiReg`s | sys-domain strobes crossing to rfic; captured values crossing back |
| TX header extracter | `header.py` `HeaderInserterExtracter(mode="extracter")` | FSM state (RESET, IDLE, HEADER, TIMESTAMP, FRAME), `cycles`, `header`, `timestamp`, `update`, `now` (a counter), and a second copy of the scheduler registers and FIFO | one sys cycle of the FSM and of the inlined scheduler |
| RX header inserter | `header.py` mode `"inserter"` | FSM state, `cycles`, `update` (the FIFO and `frame_count` exist but are never written) | emit header, emit timestamp, relay payload until last |
| TXRXHeader status | `header.py` `TXRXHeader` | `last_tx_header`, `last_tx_timestamp`, `last_rx_*` | updated on `packet_end` (scheduled) or `update` |
| Time distributor | TimeGenerator (not in this repository) | `time_input` | counts up |
| PRBS link test | `core.py` `add_prbs` | TX generator register, per-lane reference register and WaitTimer count, `prbs_tx.enable` | generator step or reset, checker compare/advance/restart, timer count/reload, CSR write |
| Radio front-end, SPI, CDC pipelines | `core.py` | pads | wiring of library cores; excluded by the spec |
| Simulation harness | `src/sim/*` | - | `drive_packet` is the producer of the scheduler models; `write_manual_time`, `read_time`, `read_current_ts` drive the CSR path |

### Interactions

producer (`drive_packet`) → `sink` → FIFO → metadata latches (frames 0 and 1
of every packet) → release gate (holds the payload until `now >= latched_ts`)
→ `source` → consumer. The time source feeds `now` every cycle. When `enable`
is low the sink is wired straight to the source and the FIFO is frozen.
All of it is synchronous logic: every register changes at the same clock
edge, from combinational signals of the previous values and the inputs.

### What is hard

* Packet alignment over many packets: `frame_count`, the metadata latch
  conditions and the end-of-packet reset must agree on where packets start.
* The release decision reads registers (`latched_ts`, `frame_count`) written
  in the same cycles as the pops it depends on.
* Backpressure at a full FIFO with a simultaneous pop.
* `enable` dropping mid-packet: a defined abort that leaves the FIFO as it is.
* Time wraparound in the release comparison.
* Two clock domains in the CSR path (per-bit synchronizers, pulse
  synchronizers that can drop strobes).
* In `header.py`, an FSM whose HEADER/TIMESTAMP states run a fixed number of
  cycles behind the scheduler and a `cycles` counter that `packet_end` does
  not clear.

### Properties that make it correct

Scheduler: packets stay framed (the counter and latches agree with the queue),
a packet starts only after its metadata and once due, every popped frame goes
exactly one way (latched or delivered) in order, no frame is lost or
duplicated even with `enable` toggling, every complete packet is eventually
released, and the comparison is wraparound safe (spec 4.4). Extracter: the
same, plus correct first/last markers and header/timestamp/update outputs that
belong to the packet being released.

## 2. Plan

1. `Scheduler` (done): the release gate with the FIFO, a producer and a
   consumer; runs for the core, for `enable` toggling and for wraparound.
2. `HeaderExtracter` (done): the `header.py` extracter FSM composed with its
   inlined scheduler and the `last_tx_*` registers of `TXRXHeader`; runs in
   scheduled and unscheduled mode in one run, and three divergences
   (`cycles` drift, metadata forwarded, stale metadata published).
3. `ReleaseQueue` (done): an abstract specification (payload released in
   order, once, a packet armed only when due and released whole) and the
   refinement from `Scheduler`, checked as a PROPERTY.
4. `TimeCDC` (done): the `add_csr` crossings with two clocks interleaved,
   MultiReg settling per bit and PulseSynchronizer toggles, and the
   testbench's CSR helpers.
5. `HeaderInserter` (done): the RX inserter and the `last_rx_*` registers,
   with liveness of the RX frames under a bounded number of resets.
6. Refinement of `ReleaseQueue` by the extracter's inlined scheduler (done):
   the two copies of the release gate (spec section 9) checked against one
   abstract specification.
7. `Prbs` (done): the PRBS link test of `core.py`, with a faulty loopback
   link, phase recovery and eventual sync.
8. Next: the simulation tops composed with `Scheduler` (see "Not
   modelled"); a composed TX/RX `TXRXHeader` if a property relates the two.

## 3. Modules

### `Scheduler.tla` (scheduler.py)

One step is one rfic clock cycle. `ScheduledCycle(valid, ready, write, t)`
is a cycle with `enable = 1`: `FifoStep`, `LatchMetadata`, `Schedule`
(`streaming`, `frame_count`), `Release` (the consumer takes the head when
streaming) and `TrackTime` (`now`) are all primed together; where the code
has two sync statements for one register the later wins, as in migen.
`BypassCycle` is a cycle with `enable = 0`. Inputs are chosen with `\E`:
`sink.valid`, `source.ready`, the manual time strobe (`Writes`), the next
time input. The producer is `drive_packet`: packet p has header word p,
timestamp `tsOf[p]` (any of `Timestamps`) and payload words `PayloadWord`.
Frames carry ghost fields (`seq`, `pkt`, `idx`) that no code reads.
`out` and `meta` are histories of what the consumer got and what was latched.

`MCScheduler.tla` fixes the constant sets for TLC.

`ImplementsReleaseQueue` instantiates `ReleaseQueue` with `accepted <-
sent`, `released <-` the stream positions of `out`, `armed <- streaming`,
and checks `RQ!Spec` as a temporal property of the core run.

### `ReleaseQueue.tla` (abstract, spec 4.2-4.4 and 8)

What the release controller promises, without FIFO, counter or latches:
`Accept` (a frame handed over), `Arm` (the packet whose first payload frame
is present becomes armed once `now` reaches its timestamp) and `Release` (an
armed packet releases its next payload frame; the last one disarms). The
time may change in any step. It maps no code: `Scheduler` is shown to
implement it.

### `TimeCDC.tla` (scheduler.py `add_csr`, testbench.py CSR helpers)

A step is one edge of one clock: `SysEdge` (the `toggle_i` registers of the
three PulseSynchronizers, the `_read_time`/`_current_ts` MultiRegs and the
driver) or `RficEdge` (the toggle MultiRegs and edge detectors, the
`manual_now` MultiReg, `TrackNow` (`now` loads `manual_now` on
`write_time_manually`), and the two captures `time_read`,
`current_ts_read`). `before` records the crossing sources as they were
before the latest step: a destination edge right after a source changed
samples each bit old or new (`Sampled`), which is how a MultiReg's first
stage can go metastable and resolve. `MaxSysPerRfic` bounds the sys edges
between two rfic edges (clock ratio). The driver follows the testbench: a
request holds its field high for one sys cycle (with `_write_time` set for a
write), then waits `Wait` sys edges and, for a read, takes the status
register. Values are `Width` bits; `wvals`, `wloads`, `served`, `results`
are ghost histories.

### `HeaderInserter.tla` (header.py, mode `"inserter"`, and `last_rx_*`)

One step is one clock cycle, `Cycle(valid, ready, enable, reset)`: `FsmStep`
(`FsmReset`, or `ResetState`, `IdleState`, `HeaderState`, `TimestampState`,
`FrameState`), `LastRx` (`last_rx_*`: cleared by `rx.reset`, loaded while
`update`), the output history and the upstream frames taken. The RESET state
takes (and discards) a frame only while `reset` is high (line 66). In FRAME
the `connect` to the source is the later assignment, so `source.last` is the
upstream's (`SinkLast`), not `cycles == frame_cycles - 1`. `header_enable` is
chosen in `Init` and held (software sets it before enabling the channel); the
timestamp input counts up to `MaxTime`. `scheduling_enable` is chosen in
`Init` too: with it set, IDLE never leaves (`IdleState`), because the
inserter's FIFO is never written. `resets` counts the cycles with `reset` or
`~enable` and is bounded by `MaxResets` (`ResetInputs`), so that a behaviour
eventually runs without interruption and liveness can be stated.

### `TxProducer.tla` (src/sim/testbench.py `drive_packet`)

The producer shared by both modules: `Frame(k)` is the k-th frame of the
stream, `sent` counts frames handed over, `tsOf` is the timestamp of each
packet, chosen in `ProducerInit`. `OnSource` is a frame as the consumer sees
it, with the first/last flags the gateware drives.

### `Prbs.tla` (core.py `add_prbs`)

A step is one rfic cycle or a software write of `prbs_tx` (`WritePrbsTx`).
`Cycle(ready, valid, sample, from)` is `Generator` (the TX
AD9361PRBSGenerator: reset to the seed while `prbs_tx.enable` is 0, else
`PrbsStep` when `phy.sink.ready`) and `Checker` on every lane (`error` when a
valid sample differs from `Observed(ref)`, the reference's 12 low bits; the
reference restarts from the seed on error and steps on every other valid
sample; the WaitTimer reloads on error and counts down otherwise,
`SyncWait`). `PrbsStep` is the code's shift with the XOR of taps 1, 2, 4-15,
on the full 16-bit register. `Synced` is `prbs_rx.synced`, the AND of the
lanes. The AD9361 loopback is outside the repository; the link delivers TX's
sample in the same cycle (`Loopback`), none (`Idle`), or with one fault:
`LostSample`, `DuplicatedSample`, `CorruptedSample` (one bit of one lane
flipped). While PRBS TX is disabled the lanes carry DMA words. `skew` is a
ghost: consecutive generator samples a lane matched while its reference was
not the state that sent them.

### `HeaderExtracter.tla` (header.py, mode `"extracter"`, and `TXRXHeader`)

One step is one sys clock cycle, `Cycle(valid, ready, enable, reset, write)`:

* `FsmStep`: `FsmReset` when `reset | ~enable` (ResetInserter: state RESET
  and `cycles`, `header`, `timestamp`, `update` cleared), otherwise one action
  per FSM state, `ResetState`, `IdleState`, `HeaderState`, `TimestampState`,
  `FrameState`, each with the guards and NextValues of its `fsm.act`.
* `Datapath`: the inlined scheduler (FIFO push/pop, latches, `streaming`,
  `frame_count`, its end-of-packet reset) and the source/sink wiring; the
  combinational overrides of the FSM (`SourceFirst`, `SourceLast`,
  `SinkReady`) win over the datapath's, as generated code orders them.
* `LastTx`: `last_tx_header`/`last_tx_timestamp`, in the sync order of
  `TXRXHeader` (a later TX update wins over `tx.reset`).
* `TrackTime`: `now + scheduling_enable`, or `manual_now` on the strobe.

`header_enable` and `frame_cycles` are CSR values held constant in a run;
`scheduling_enable` is a variable chosen in `Init` and never changed, so one
run covers both modes. `resetSeen` is a ghost flag recording that `tx.reset`
has been high.

`ImplementsReleaseQueue` maps the inlined scheduler onto `ReleaseQueue`
exactly as `Scheduler` is mapped (`accepted <- sent`, `released <-` the
stream positions of `out`, `armed <- streaming`); in unscheduled mode
nothing enters the queue and the mapping is the empty queue. `now` saturates at `MaxTime`, at least every timestamp:
below the 64-bit wrap that gives every comparison its real outcome.

## 4. Runs

| Run | Config | Expect | Shows |
|---|---|---|---|
| scheduler_core | `MCScheduler.cfg` | pass | `PacketFraming`, `FramesRoutedByPosition`, `ImplementsReleaseQueue`, `EveryPacketReleased` with enable held |
| scheduler_enable_toggle | `MCSchedulerToggle.cfg` | pass | `FramesConserved` with enable free in every cycle |
| scheduler_wraparound | `MCSchedulerWrap.cfg` | violation | `ReleaseWrapSafe`: early release across the wrap |
| headerx_modes | `MCHeaderExtracter.cfg` | pass | `TypeOK`, `PacketFraming`, `LastTxIsLastReleased`, `HeaderTracksPacket`, `ImplementsReleaseQueue` in both modes with enable and reset free in every cycle |
| headerx_framing | `MCHeaderExtracterFraming.cfg` | violation | `OutputFramed`: `cycles` not cleared on `packet_end` |
| headerx_metadata_leak | `MCHeaderExtracterLeak.cfg` | violation | `MetadataNotForwarded`: unscheduled HEADER/TIMESTAMP forward the metadata frames |
| cdc_driver_waits | `MCTimeCDCDriver.cfg` | pass | `WriteLoadsMatch`, `ReadReturnsServed` for a driver that waits 10 sys edges |
| cdc_back_to_back_writes | `MCTimeCDCWrites.cfg` | violation | `WriteLoadsMatch`: two consecutive write strobes cancel in the PulseSynchronizer |
| rx_inserter | `MCHeaderInserter.cfg` | pass | `FramesRelayedInOrder`, `GroupsWellFormed` with header_enable on or off, enable, reset and back-pressure free; `FramesEventuallyTaken` under `FairSpec` |
| rx_frame_cycles | `MCHeaderInserterFrameCycles.cfg` | violation | `GroupsHaveFrameCycles`: RX groups end on the upstream last, not after `frame_cycles` |
| prbs_link | `MCPrbs.cfg` | pass | `PhaseRecovered` (a slipped checker is caught within 4 samples), `PrbsEventuallySynced` under `FairSpec`, with one link fault, before or after PRBS TX is enabled |
| headerx_stale_metadata | `MCHeaderExtracterMetadata.cfg` | violation | `MetadataPublishedCoherent`: scheduled, the FSM publishes a stale timestamp when the producer pauses between header and timestamp frames |

Bounds: 4-frame packets (legal for a 32-bit data path: the assert at
scheduler.py:18 needs `frames_per_packet % (data_width // 8) = 0`), a FIFO of
two packets and three packets sent, so the FIFO fills and backpressure occurs
and a packet waits behind another; timestamps 0..3 and time stopping at 3, so
packets are due, late and early; one manual time value. The enable-toggle
run uses a FIFO of one packet and two packets sent, so a full FIFO meets a
disabled cycle within the state budget. The wrap run uses a 3-bit time
counter that wraps. `frame_count` keeps the code's 10 bits; with 1 bit the
core cfg violates `PacketFraming` (the width hazard at scheduler.py:48).

Extracter runs: 4-frame packets, a FIFO of one packet, `frame_cycles` 2 (the
number of payload frames, as the spec's scenario), two packets with
timestamps 0 or 2 (due at once, or waiting for the time or a manual write of
1), both modes, enable and reset free in every cycle (388k states, about a
minute). Two packets are enough for every case the
properties distinguish: a second packet waits behind a full FIFO, the FSM
is reset in every state and with any FIFO contents, and `Completed` reaches
two so the `last_tx` pair must change packets.

CDC runs: 2-bit values (so a torn value differs from both old and new),
manual values {1, 2}, two requests per behaviour (two writes, a write then
a read, two reads...), at most 2 sys edges per rfic edge. The driver run
waits 10 sys edges, the smallest wait under which both properties hold with
that clock ratio (9 fails `ReadReturnsServed`); the two violation runs wait
1, as the testbench does.

RX runs: four upstream frames with every pattern of last flags, at most 4
frames taken (`MaxFrames`), `frame_cycles` 2, timestamps up to 3, enable and
reset free in every cycle up to `MaxResets` = 3 reset or disabled cycles.

Fairness (`FairSpec`, core run only): weak fairness of a cycle in which the
consumer is ready and time advances. The rfic clock never stops, the TX
unpacker downstream accepts samples continuously (the simulation ties
`source.ready` to 1) and the TimeGenerator counts every cycle. The producer
gets no fairness: it may stop at any time.

Fairness (`FairSpec`, rx_inserter): weak fairness of a clean cycle (upstream
valid while frames remain, downstream ready, enable high, no reset). The
RFIC delivers samples continuously, the RX DMA drains them, and software
stops reconfiguring after `MaxResets` cycles; without that bound a reset in
every cycle would starve the FSM, which is the environment's choice, not a
property of the code. With `scheduling_enable` set the same property fails:
IDLE waits for a FIFO the inserter never fills (hazard header.py:74).

Fairness (`FairSpec`, prbs_link): weak fairness of `Loopback`. The AD9361
exchanges a sample in every cycle the radio runs; idle cycles may still
come at any rate, and faults and CSR writes are bounded (`MaxFaults` = 1,
`MaxWrites` = 1: software enables PRBS TX once).

PRBS bounds: the code's register width, seed 0x0a54 and taps, so the
generator's 65535-state cycle is explored in full (393k states, about 30
seconds); one lane (the model has both; the second lane only repeats the
first under the same faults, and doubles a state space whose liveness
counterexamples must go round the whole cycle); one write of `prbs_tx`; `SyncCycles` = 2 instead of 1024, since neither
property depends on its value beyond it being positive. `MaxSkew` = 4 is
tight: with 3 the run fails.

The other runs check safety only and assume no fairness.

## 5. Findings

See `PROJECT.json` "findings":

* The wraparound comparison is not wraparound safe.
* The extracter's `cycles` counter is not cleared on `packet_end`. From the
  second packet on, the first/last markers are wrong and the FSM leaves FRAME
  mid-packet. With `cycles` cleared there, `OutputFramed` holds in the same
  configuration.
* In unscheduled mode the header and timestamp frames are also forwarded.
* Two write strobes on consecutive sys cycles load nothing.
* On RX, `frame_cycles` has no effect.
* In scheduled mode the extracter's FSM copies `latched_ts` into
  `timestamp` a fixed number of cycles after leaving IDLE, not when the
  timestamp frame has been popped. If the producer pauses between the header
  and timestamp frames, `update` publishes a stale timestamp: in the trace,
  header 1 with timestamp 0 (the reset value of `latched_ts`) while packet
  1's timestamp is 2; for a later packet, the previous packet's timestamp.

Observed while modelling but without a run of their own (see the hazards in
`PROJECT.json`):

* The testbench's `read_current_ts` returns the previous capture: it waits
  one sys cycle, and cdc_driver_waits shows 10 are needed (9 fail).
* `prbs_rx.synced` reports sync with no sample received: the WaitTimer's
  `wait` is `~error`, and `error` is 0 in cycles without
  `phy.source.valid`.
* Released packets of `Scheduler` carry no first flag.
* Disabling mid-packet reorders frames.
* `scheduler_sim/top.py` never drives `time_input`, so `now` of the
  simulated scheduler stays 0 unless written manually, and a packet with a
  timestamp above 0 is never released; a testbench sending more than
  `max_packets` such packets would block in `drive_packet`.
* `last_rx_timestamp` is one tick later than the timestamp inserted in the
  stream, because it is copied from the live input a cycle after the
  handshake.

## 6. Not modelled

The `reset` input of `scheduler.py` is never read, so no model state
corresponds to it. `_fifo_level` is declared and never driven. Data widths are reduced (2- or
3-bit time values, 10-bit `frame_count`).

`AD9361RFIC.__init__` connects `tx_unpacker.loopback` to
`rx_packer.loopback` (core.py:83), names defined nowhere in the file, so the
class cannot be elaborated as written; `add_prbs` is modelled as the logic it
describes, on the assumption that the constructor is fixed. The rest of
`core.py` (radio pads, SPI, CDC FIFOs, buffers) instantiates
library cores and the external RFICPHY and SPIMaster: there is no logic of
this repository in it to model. The AD9361's loopback path, which links the
PRBS generator to the checkers, is abstracted as a link with bounded faults. The two simulation tops (`src/sim/*/top.py`) only wire a
component to the testbench's CSRs and pads. The testbench's own driving
steps are modelled in `TxProducer` (`drive_packet`) and `TimeCDC` (CSR
helpers); its packet generators, VCD and printing are not. The FIFO and TimeGenerator are library/external code
modelled by their contracts.
