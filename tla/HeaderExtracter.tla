-------------------------- MODULE HeaderExtracter --------------------------
(***************************************************************************)
(* The TX header extracter, HeaderInserterExtracter(mode="extracter") of   *)
(* src/litex_m2sdr/gateware/header.py, with its inlined copy of the        *)
(* scheduler, and the last_tx_header / last_tx_timestamp status registers  *)
(* of TXRXHeader fed by it.                                                *)
(*                                                                         *)
(* A step is one clock cycle.  The FSM (RESET, IDLE, HEADER, TIMESTAMP,   *)
(* FRAME) is wrapped in ResetInserter with reset = reset | ~enable, so on  *)
(* reset its state and every NextValue register (cycles, header,           *)
(* timestamp, update) return to their reset values; the scheduling         *)
(* registers are outside the FSM and are cleared only by                   *)
(* ~scheduling_enable.  header_enable and scheduling_enable are CSR        *)
(* fields software sets before enabling the channel: header_enable is a    *)
(* constant, scheduling_enable is chosen in Init and then held.            *)
(* Combinational assignments made later in                                 *)
(* the code override earlier ones: the FSM's, generated at finalisation,   *)
(* override the datapath's.                                                *)
(*                                                                         *)
(* now is a counter of this module (now + scheduling_enable each cycle).   *)
(* It saturates at MaxTime, which is at least every timestamp and manual   *)
(* value: every comparison now >= latched_ts then has the outcome the      *)
(* 64-bit counter gives before it wraps.                                   *)
(***************************************************************************)
EXTENDS Integers, Sequences, FiniteSets, TxProducer

CONSTANTS
  MaxPackets,        \* max_packets: FIFO depth is FramesPerPacket * MaxPackets
  FrameCycles,       \* the frame_cycles CSR
  FrameCountWidth,   \* width of frame_count, Signal(10)
  ManualTimes,       \* values software may load through manual_now
  EnableValues,      \* values the enable input takes in a cycle
  ResetValues,       \* values the reset input takes in a cycle
  HeaderEnable,      \* the header_enable CSR field
  SchedulingEnableValues, \* values software may give scheduling_enable
  MaxTime            \* bound: now saturates here

ASSUME FramesPerPacket >= 3 /\ MaxPackets >= 1 /\ NumPackets >= 1
ASSUME FrameCycles >= 1
ASSUME Timestamps \cup ManualTimes \subseteq 0 .. MaxTime
ASSUME EnableValues # {} /\ EnableValues \subseteq BOOLEAN
ASSUME ResetValues # {} /\ ResetValues \subseteq BOOLEAN
ASSUME HeaderEnable \in BOOLEAN /\ SchedulingEnableValues \subseteq BOOLEAN

VARIABLES
  scheduling_enable,  \* the scheduling_enable CSR field, set before enable
  state,              \* FSM state
  cycles,             \* cycles (NextValue register of the FSM)
  header,             \* self.header (output)
  timestamp,          \* self.timestamp (output)
  update,             \* self.update (output)
  now,                \* self.now
  fifo,               \* data_fifo contents, oldest first
  streaming,          \* streaming
  frame_count,        \* frame_count
  latched_ts,         \* latched_ts
  latched_header,     \* latched_header
  last_tx_header,     \* TXRXHeader.last_tx_header
  last_tx_timestamp,  \* TXRXHeader.last_tx_timestamp
  out,                \* frames accepted by the downstream consumer (history)
  meta,               \* seq of the frames taken as header or timestamp
  resetSeen           \* history: tx.reset has been high

vars == << scheduling_enable, resetSeen, state, cycles, header, timestamp,
           update, now, fifo, streaming,
           frame_count, latched_ts, latched_header, last_tx_header,
           last_tx_timestamp, out, meta, tsOf, sent >>

FsmStates == {"RESET", "IDLE", "HEADER", "TIMESTAMP", "FRAME"}

-----------------------------------------------------------------------------
(* Inlined scheduler: combinational signals (header.py lines 142-206).     *)

Capacity == FramesPerPacket * MaxPackets

FifoValid == fifo # << >>

IsHeader == FifoValid /\ ~streaming /\ frame_count = 0

IsTimestamp == FifoValid /\ ~streaming /\ frame_count = 1

PopMeta == IsHeader \/ IsTimestamp

(* Mutation-test variant of CanStart: the time comparison is dropped.     *)
CanStartIgnoringTime ==
  frame_count = 2 /\ FifoValid /\ scheduling_enable

CanStart ==
  now >= latched_ts /\ frame_count = 2 /\ FifoValid /\ scheduling_enable

Pop(ready) ==
  scheduling_enable /\ ((ready /\ streaming) \/ PopMeta) /\ FifoValid

(* Mutation-test variant of Push: the FIFO's writable is ignored.          *)
PushIgnoringFull(valid) == scheduling_enable /\ valid

(* sink feeds the FIFO when scheduling and the FIFO is not full.           *)
Push(valid) == scheduling_enable /\ valid /\ Len(fifo) < Capacity

(* Mutation-test variant of PacketEnd: the packet ends one frame early.    *)
PacketEndEarly(ready) ==
  frame_count = FramesPerPacket - 2 /\ streaming /\ Pop(ready)

PacketEnd(ready) ==
  frame_count = FramesPerPacket - 1 /\ streaming /\ Pop(ready)

-----------------------------------------------------------------------------
(* The stream interface.  Scheduled: the FIFO feeds source while           *)
(* streaming.  Unscheduled: sink is wired to source (lines 128-133), and   *)
(* HEADER and TIMESTAMP force sink.ready to 1.  In FRAME with              *)
(* header_enable the FSM drives first = (cycles == 0) and last =           *)
(* (cycles == frame_cycles - 1), unless packet_end; unscheduled, the       *)
(* sink.connect of FRAME then drives last from sink again.                 *)

SourceValid(valid) ==
  IF scheduling_enable THEN streaming /\ FifoValid ELSE valid

SourceFrame == IF scheduling_enable THEN Head(fifo) ELSE Frame(sent)

FramingOverride(ready) ==
  state = "FRAME" /\ ~PacketEnd(ready) /\ HeaderEnable

SourceFirst(ready) ==
  IF FramingOverride(ready) THEN cycles = 0 ELSE SourceFrame.first

SourceLast(ready) ==
  IF FramingOverride(ready) /\ scheduling_enable
  THEN cycles = FrameCycles - 1
  ELSE SourceFrame.last

SinkReady(ready) ==
  IF scheduling_enable THEN Len(fifo) < Capacity
  ELSE state \in {"HEADER", "TIMESTAMP"} \/ ready

-----------------------------------------------------------------------------
(* The FSM, one action per state; FsmReset is the reset ResetInserter      *)
(* adds.                                                                   *)

FsmReset ==
  /\ state' = "RESET"
  /\ cycles' = 0 /\ header' = 0 /\ timestamp' = 0 /\ update' = 0

ResetState ==
  /\ state = "RESET"
  /\ state' = "IDLE" /\ cycles' = 0
  /\ UNCHANGED << header, timestamp, update >>

IdleState ==
  /\ state = "IDLE"
  /\ cycles' = 0
  /\ state' = CASE HeaderEnable /\ (~scheduling_enable
                                     \/ (frame_count = 0 /\ FifoValid)) -> "HEADER"
                [] ~HeaderEnable -> "FRAME"
                [] OTHER         -> "IDLE"
  /\ UNCHANGED << header, timestamp, update >>

(* Mutation-test variant of HeaderState: any sink frame taken as header.  *)
HeaderStateAnyFrame(valid) ==
  /\ state = "HEADER"
  /\ \/ /\ scheduling_enable
        /\ header' = latched_header /\ state' = "TIMESTAMP"
     \/ /\ ~scheduling_enable /\ valid
        /\ header' = Frame(sent).data /\ state' = "TIMESTAMP"
     \/ /\ ~scheduling_enable /\ ~valid
        /\ UNCHANGED << header, state >>
  /\ UNCHANGED << cycles, timestamp, update >>

(* Scheduled: copy latched_header.  Unscheduled: take a sink frame with    *)
(* first as the header.                                                    *)
HeaderState(valid) ==
  /\ state = "HEADER"
  /\ \/ /\ scheduling_enable
        /\ header' = latched_header /\ state' = "TIMESTAMP"
     \/ /\ ~scheduling_enable /\ valid /\ Frame(sent).first
        /\ header' = Frame(sent).data /\ state' = "TIMESTAMP"
     \/ /\ ~scheduling_enable /\ ~(valid /\ Frame(sent).first)
        /\ UNCHANGED << header, state >>
  /\ UNCHANGED << cycles, timestamp, update >>

TimestampState(valid) ==
  /\ state = "TIMESTAMP"
  /\ \/ /\ scheduling_enable
        /\ timestamp' = latched_ts /\ update' = 1 /\ state' = "FRAME"
     \/ /\ ~scheduling_enable /\ valid
        /\ timestamp' = Frame(sent).data /\ update' = 1 /\ state' = "FRAME"
     \/ /\ ~scheduling_enable /\ ~valid
        /\ UNCHANGED << timestamp, update, state >>
  /\ UNCHANGED << cycles, header >>

(* packet_end returns to HEADER; otherwise, with header_enable, every      *)
(* accepted source frame counts and the one with last returns to HEADER.   *)
(* cycles (32 bits) is cleared at every last, so it stays far below 2^32.  *)
FrameState(valid, ready) ==
  /\ state = "FRAME"
  /\ update' = 0
  /\ CASE PacketEnd(ready) ->
            state' = "HEADER" /\ UNCHANGED cycles
       [] HeaderEnable /\ SourceValid(valid) /\ ready ->
            IF SourceLast(ready)
            THEN state' = "HEADER" /\ cycles' = 0
            ELSE state' = state /\ cycles' = cycles + 1
       [] OTHER -> UNCHANGED << state, cycles >>
  /\ UNCHANGED << header, timestamp >>

FsmStep(valid, ready, enable, reset) ==
  \/ (reset \/ ~enable) /\ FsmReset
  \/ /\ ~(reset \/ ~enable)
     /\ \/ ResetState
        \/ IdleState
        \/ HeaderState(valid)
        \/ TimestampState(valid)
        \/ FrameState(valid, ready)

-----------------------------------------------------------------------------
(* The datapath registers.                                                 *)

NoWrite == -1

Writes == {NoWrite} \cup ManualTimes

(* now + scheduling_enable, or manual_now on write_time_manually.          *)
TrackTime(write) ==
  now' = IF write # NoWrite THEN write
         ELSE IF scheduling_enable /\ now < MaxTime THEN now + 1 ELSE now

(* Whether the FSM takes the sink frame as header or timestamp this cycle  *)
(* (unscheduled mode; the NextValue is suppressed under reset).            *)
Captured(valid, enable, reset) ==
  /\ ~scheduling_enable /\ ~(reset \/ ~enable) /\ valid
  /\ \/ state = "HEADER" /\ Frame(sent).first
     \/ state = "TIMESTAMP"

Datapath(valid, ready, enable, reset) ==
  /\ fifo' = (IF Pop(ready) THEN Tail(fifo) ELSE fifo)
             \o (IF Push(valid) THEN << Frame(sent) >> ELSE << >>)
  /\ latched_header' = IF Pop(ready) /\ IsHeader
                       THEN Head(fifo).data ELSE latched_header
  /\ latched_ts' = IF Pop(ready) /\ IsTimestamp
                   THEN Head(fifo).data ELSE latched_ts
  /\ streaming' = IF ~scheduling_enable \/ PacketEnd(ready) THEN FALSE
                  ELSE streaming \/ CanStart
  /\ frame_count' = CASE ~scheduling_enable \/ PacketEnd(ready) -> 0
                      [] Pop(ready) -> (frame_count + 1) % 2^FrameCountWidth
                      [] OTHER      -> frame_count
  /\ out' = IF SourceValid(valid) /\ ready
            THEN Append(out, OnSource(SourceFrame, SourceFirst(ready),
                                      SourceLast(ready)))
            ELSE out
  /\ sent' = IF valid /\ SinkReady(ready) THEN sent + 1 ELSE sent
  /\ meta' = CASE Pop(ready) /\ PopMeta -> meta \cup {Head(fifo).seq}
               [] Captured(valid, enable, reset) -> meta \cup {sent}
               [] OTHER -> meta

(* Mutation-test variant of LastTx: update drives the copy in both modes.  *)
LastTxOnUpdate(ready, reset) ==
  /\ last_tx_header' = CASE update = 1 -> header
                         [] reset -> 0
                         [] OTHER -> last_tx_header
  /\ last_tx_timestamp' = CASE update = 1 -> timestamp
                            [] reset -> 0
                            [] OTHER -> last_tx_timestamp

(* TXRXHeader: cleared by tx.reset; scheduled, the latched metadata are    *)
(* copied on packet_end; unscheduled, header and timestamp on update.      *)
LastTx(ready, reset) ==
  /\ last_tx_header' = CASE scheduling_enable /\ PacketEnd(ready) -> latched_header
                         [] ~scheduling_enable /\ update = 1 -> header
                         [] reset -> 0
                         [] OTHER -> last_tx_header
  /\ last_tx_timestamp' = CASE scheduling_enable /\ PacketEnd(ready) -> latched_ts
                            [] ~scheduling_enable /\ update = 1 -> timestamp
                            [] reset -> 0
                            [] OTHER -> last_tx_timestamp

Cycle(valid, ready, enable, reset, write) ==
  /\ FsmStep(valid, ready, enable, reset)
  /\ Datapath(valid, ready, enable, reset)
  /\ LastTx(ready, reset)
  /\ TrackTime(write)
  /\ resetSeen' = (resetSeen \/ reset)
  /\ UNCHANGED << scheduling_enable, tsOf >>

Init ==
  /\ scheduling_enable \in SchedulingEnableValues
  /\ resetSeen = FALSE
  /\ state = "RESET"
  /\ cycles = 0 /\ header = 0 /\ timestamp = 0 /\ update = 0
  /\ now = 0
  /\ fifo = << >>
  /\ streaming = FALSE /\ frame_count = 0
  /\ latched_ts = 0 /\ latched_header = 0
  /\ last_tx_header = 0 /\ last_tx_timestamp = 0
  /\ out = << >> /\ meta = {}
  /\ ProducerInit

Next ==
  \E valid \in ValidInputs, ready \in BOOLEAN, enable \in EnableValues,
     reset \in ResetValues, write \in Writes :
    Cycle(valid, ready, enable, reset, write)

Spec == Init /\ [][Next]_vars

-----------------------------------------------------------------------------
(***************************************************************************)
(* Properties.                                                             *)
(***************************************************************************)

TypeOK ==
  /\ state \in FsmStates
  /\ cycles \in 0 .. Total
  /\ header \in 0 .. MaxTime \cup 1 .. NumPackets
  /\ timestamp \in 0 .. MaxTime \cup 1 .. NumPackets
  /\ update \in {0, 1}
  /\ now \in 0 .. MaxTime
  /\ Len(fifo) <= Capacity
  /\ streaming \in BOOLEAN
  /\ frame_count \in 0 .. 2^FrameCountWidth - 1
  /\ out \in Seq(SourceFrames)
  /\ meta \subseteq 0 .. Total - 1
  /\ sent \in 0 .. Total

(* The frame the inlined scheduler takes next.                             *)
NextOut == IF FifoValid THEN Head(fifo) ELSE Frame(sent)

(* Scheduled mode: the inlined copy of the scheduler keeps frame_count,    *)
(* streaming and the latched metadata in step with the packets in the     *)
(* FIFO, as Scheduler!PacketFraming states for scheduler.py.               *)
PacketFraming ==
  scheduling_enable =>
  /\ streaming => frame_count >= 2
  /\ FifoValid \/ sent < Total =>
       /\ NextOut.idx = frame_count
       /\ frame_count >= 1 => latched_header = NextOut.pkt
       /\ frame_count >= 2 => latched_ts = tsOf[NextOut.pkt]

(* Packets whose last frame the consumer has received.                    *)
Completed == {out[i].pkt : i \in {j \in DOMAIN out : out[j].last /\ out[j].idx = FramesPerPacket - 1}}

(* Scheduled mode: last_tx_header and last_tx_timestamp hold, as a pair,   *)
(* either the header and timestamp of the last packet released to its end *)
(* or, only once tx.reset has cleared them, zero; whatever the FSM,        *)
(* enable and reset do, including a reset in the cycle of a packet_end     *)
(* (TXRXHeader lines 324-339: the reset clear and the later packet_end     *)
(* copy, against the latch logic of the extracter).                        *)
LastTxIsLastReleased ==
  LET k == Cardinality(Completed)
  IN  scheduling_enable =>
      /\ Completed = 1 .. k
      /\ << last_tx_header, last_tx_timestamp >> \in
           {<< 0, 0 >>, IF k > 0 THEN << k, tsOf[k] >> ELSE << 0, 0 >>}
      /\ k > 0 /\ ~resetSeen => << last_tx_header, last_tx_timestamp >> # << 0, 0 >>

(* Unscheduled mode: while the FSM relays a packet's payload (FRAME), the  *)
(* header and timestamp outputs are that packet's: HEADER resynchronises  *)
(* on first, TIMESTAMP takes the next frame, FRAME ends on last.           *)
HeaderTracksPacket ==
  ~scheduling_enable /\ state = "FRAME" /\ sent < Total =>
    /\ Frame(sent).idx >= 2
    /\ header = Frame(sent).pkt
    /\ timestamp = tsOf[Frame(sent).pkt]

(* Scheduled mode: when update pulses, the header and timestamp outputs    *)
(* are the metadata of one packet, the packet whose payload FRAME then     *)
(* relays (spec 4.5: TIMESTAMP "sets a one-cycle metadata updated pulse"; *)
(* HEADER and TIMESTAMP copy the latches in fixed cycles, lines 207-237). *)
MetadataPublishedCoherent ==
  scheduling_enable /\ update = 1 =>
    /\ header \in 1 .. NumPackets
    /\ timestamp = tsOf[header]
    /\ FifoValid => Head(fifo).pkt = header

(* The consumer sees first on the first frame of each released packet and  *)
(* last on its final frame, and on no other (spec sections 4.5, 6).       *)
OutputFramed ==
  \A i \in DOMAIN out :
    /\ out[i].first = (out[i].idx = 2)
    /\ out[i].last = (out[i].idx = FramesPerPacket - 1)

(* A frame the extracter takes as header or timestamp is not also sent     *)
(* downstream as a sample (spec 4.3: "a frame consumed as metadata is      *)
(* never also delivered downstream as payload").                           *)
MetadataNotForwarded ==
  \A i \in DOMAIN out : out[i].seq \notin meta

(* Scheduled mode: the inlined copy of the scheduler (header.py lines      *)
(* 142-206) implements the same release queue as scheduler.py does         *)
(* (Scheduler!ImplementsReleaseQueue): spec section 9 keeps the two        *)
(* copies, so any drift between them, in the time gate, the packet end or  *)
(* the metadata pops, breaks this refinement.  Unscheduled, the sink is    *)
(* wired to the source and no frame enters the queue.                      *)
RQ == INSTANCE ReleaseQueue
        WITH accepted <- IF scheduling_enable THEN sent ELSE 0,
             released <- IF scheduling_enable
                         THEN [i \in DOMAIN out |-> out[i].seq] ELSE << >>,
             armed <- streaming,
             TimeValues <- 0 .. MaxTime

ImplementsReleaseQueue == RQ!Spec

=============================================================================
