----------------------------- MODULE Scheduler -----------------------------
(***************************************************************************)
(* The timestamp-gated TX release controller, class Scheduler of           *)
(* src/litex_m2sdr/gateware/ad9361/scheduler.py, clocked in the rfic       *)
(* domain.                                                                 *)
(*                                                                         *)
(* The gateware is synchronous: every register is updated at the same     *)
(* clock edge from values computed combinationally in the cycle before     *)
(* it.  A step of this specification is one rfic clock cycle: the         *)
(* combinational signals are operators of the current state and of the    *)
(* cycle's inputs (sink.valid, source.ready, enable, the time input and    *)
(* the manual-time strobe), and every register is primed once.  Where the  *)
(* code has two sync statements for one register the later one wins       *)
(* (migen semantics), and the model takes the same precedence.             *)
(*                                                                         *)
(* The producer and the frames it sends are those of TxProducer.  Time   *)
(* values are TimeWidth bits wide instead of 64.                           *)
(***************************************************************************)
EXTENDS Integers, Sequences, FiniteSets, TxProducer

CONSTANTS
  DataWidth,        \* data_width
  MaxPackets,       \* max_packets: the FIFO holds this many whole packets
  FrameCountWidth,  \* width of frame_count, Signal(10) in the code
  TimeWidth,        \* width of now, time_input, latched_ts (64 in the code)
  ManualTimes,      \* values software may load through manual_now
  EnableValues,     \* values the enable input takes in a cycle
  MaxTime,          \* bound: time_input stops there unless TimeWraps
  TimeWraps         \* whether time_input may wrap modulo 2^TimeWidth

TimeRange == 0 .. 2^TimeWidth - 1

ASSUME FramesPerPacket % (DataWidth \div 8) = 0
ASSUME FramesPerPacket >= 3 /\ MaxPackets >= 1 /\ NumPackets >= 1
ASSUME Timestamps \subseteq TimeRange /\ ManualTimes \subseteq TimeRange
ASSUME MaxTime \in TimeRange /\ PayloadWord \in TimeRange
ASSUME EnableValues \subseteq BOOLEAN /\ EnableValues # {}
ASSUME TimeWraps \in BOOLEAN

VARIABLES
  fifo,            \* data_fifo contents, oldest first
  now,             \* register now
  streaming,       \* register streaming
  frame_count,     \* register frame_count
  latched_ts,      \* register latched_ts
  latched_header,  \* register latched_header
  time_input,      \* the time value delivered by the TimeGenerator
  out,             \* frames accepted by the downstream consumer (history)
  meta             \* seq of the frames consumed as metadata (history)

vars == << fifo, now, streaming, frame_count, latched_ts, latched_header,
           time_input, tsOf, sent, out, meta >>

-----------------------------------------------------------------------------
(* Combinational signals of the scheduled (enable = 1) path.               *)

Capacity == FramesPerPacket * MaxPackets

FifoValid == fifo # << >>

IsHeader == FifoValid /\ ~streaming /\ frame_count = 0

IsTimestamp == FifoValid /\ ~streaming /\ frame_count = 1

PopMeta == IsHeader \/ IsTimestamp

(* A value of a w-bit signal read as two's complement.                     *)
Signed(x, w) ==
  LET m == x % 2^w IN IF m >= 2^(w - 1) THEN m - 2^w ELSE m

(* time_diff = now - latched_ts into a signed TimeWidth+1 bit signal.      *)
TimeDiff == Signed(now - latched_ts, TimeWidth + 1)

(* Mutation-test variants of CanStart: the metadata guard dropped, and a  *)
(* strict comparison.                                                      *)
CanStartNoMetaGuard == TimeDiff >= 0 /\ FifoValid

CanStartStrict == TimeDiff > 0 /\ frame_count = 2 /\ FifoValid

CanStart == TimeDiff >= 0 /\ frame_count = 2 /\ FifoValid

(* Mutation-test variant of Pop: payload popped without source.ready.      *)
PopIgnoringReady(ready) == (streaming \/ PopMeta) /\ FifoValid

(* data_fifo.source.ready & data_fifo.source.valid                         *)
Pop(ready) == ((ready /\ streaming) \/ PopMeta) /\ FifoValid

(* Mutation-test variant of Push: sink.ready not tied to the FIFO level.   *)
PushIgnoringFull(valid) == valid

(* data_fifo.sink.valid & data_fifo.sink.ready                             *)
Push(valid) == valid /\ Len(fifo) < Capacity

(* Mutation-test variant of PacketEnd: the packet ends one frame early.    *)
PacketEndEarly(ready) ==
  frame_count = FramesPerPacket - 2 /\ streaming /\ Pop(ready)

PacketEnd(ready) ==
  frame_count = FramesPerPacket - 1 /\ streaming /\ Pop(ready)

-----------------------------------------------------------------------------
(* Register updates.                                                       *)

(* The time source: TimeGenerator counts up; the model stops it at         *)
(* MaxTime unless TimeWraps.                                               *)
NextTimes ==
  IF TimeWraps \/ time_input < MaxTime
  THEN {time_input, (time_input + 1) % 2^TimeWidth}
  ELSE {time_input}

NoWrite == -1

(* now follows time_input, or loads manual_now in the cycle of the         *)
(* write_time_manually pulse.                                              *)
TrackTime(write) == now' = IF write = NoWrite THEN time_input ELSE write

FifoStep(valid, ready) ==
  fifo' = (IF Pop(ready) THEN Tail(fifo) ELSE fifo)
          \o (IF Push(valid) THEN << Frame(sent) >> ELSE << >>)

LatchMetadata(ready) ==
  /\ latched_header' = IF Pop(ready) /\ IsHeader
                       THEN Head(fifo).data ELSE latched_header
  /\ latched_ts' = IF Pop(ready) /\ IsTimestamp
                   THEN Head(fifo).data ELSE latched_ts
  /\ meta' = IF Pop(ready) /\ PopMeta THEN meta \cup {Head(fifo).seq} ELSE meta

(* streaming is set by can_start and cleared, with frame_count, at the     *)
(* last frame of the packet; the clear is the later statement and wins.    *)
Schedule(ready) ==
  /\ streaming' = IF PacketEnd(ready) THEN FALSE ELSE streaming \/ CanStart
  /\ frame_count' = CASE PacketEnd(ready) -> 0
                      [] Pop(ready)      -> (frame_count + 1) % 2^FrameCountWidth
                      [] OTHER           -> frame_count

(* source.valid = streaming & data_fifo.source.valid, first and last gated *)
(* by streaming; the consumer takes the frame when it is ready.            *)
Release(ready) ==
  out' = IF streaming /\ FifoValid /\ ready
         THEN Append(out, OnSource(Head(fifo), Head(fifo).first, Head(fifo).last))
         ELSE out

-----------------------------------------------------------------------------
(* One rfic cycle with enable = 1: the producer feeds the FIFO, metadata   *)
(* frames are popped and latched, the packet is released when due.        *)
ScheduledCycle(valid, ready, write, t) ==
  /\ FifoStep(valid, ready)
  /\ LatchMetadata(ready)
  /\ Schedule(ready)
  /\ Release(ready)
  /\ TrackTime(write)
  /\ sent' = IF Push(valid) THEN sent + 1 ELSE sent
  /\ time_input' = t
  /\ UNCHANGED tsOf

(* Mutation-test variant of BypassCycle: the producer is acknowledged     *)
(* without source.ready.                                                   *)
BypassCycleNoBackpressure(valid, ready, write, t) ==
  /\ out' = IF valid /\ ready
            THEN Append(out, OnSource(Frame(sent), Frame(sent).first, Frame(sent).last))
            ELSE out
  /\ sent' = IF valid THEN sent + 1 ELSE sent
  /\ streaming' = FALSE
  /\ frame_count' = 0
  /\ TrackTime(write)
  /\ time_input' = t
  /\ UNCHANGED << fifo, latched_ts, latched_header, meta, tsOf >>

(* One rfic cycle with enable = 0: sink is wired straight to source, the   *)
(* FIFO neither fills nor drains, streaming and frame_count are cleared.   *)
BypassCycle(valid, ready, write, t) ==
  /\ out' = IF valid /\ ready
            THEN Append(out, OnSource(Frame(sent), Frame(sent).first, Frame(sent).last))
            ELSE out
  /\ sent' = IF valid /\ ready THEN sent + 1 ELSE sent
  /\ streaming' = FALSE
  /\ frame_count' = 0
  /\ TrackTime(write)
  /\ time_input' = t
  /\ UNCHANGED << fifo, latched_ts, latched_header, meta, tsOf >>

Writes == {NoWrite} \cup ManualTimes

Init ==
  /\ fifo = << >>
  /\ now = 0
  /\ streaming = FALSE
  /\ frame_count = 0
  /\ latched_ts = 0
  /\ latched_header = 0
  /\ time_input = 0
  /\ ProducerInit
  /\ out = << >>
  /\ meta = {}

Next ==
  \E valid \in ValidInputs, ready \in BOOLEAN, write \in Writes, t \in NextTimes :
    \/ TRUE \in EnableValues /\ ScheduledCycle(valid, ready, write, t)
    \/ FALSE \in EnableValues /\ BypassCycle(valid, ready, write, t)

(* The rfic clock never stops, the downstream unpacker keeps accepting     *)
(* samples and the TimeGenerator keeps counting: a cycle in which the      *)
(* consumer is ready and time advances recurs.                             *)
Fairness ==
  WF_vars(\E valid \in ValidInputs, write \in Writes :
            /\ TRUE \in EnableValues
            /\ ScheduledCycle(valid, TRUE, write,
                              IF TimeWraps \/ time_input < MaxTime
                              THEN (time_input + 1) % 2^TimeWidth
                              ELSE time_input))

Spec == Init /\ [][Next]_vars

FairSpec == Spec /\ Fairness

-----------------------------------------------------------------------------
(***************************************************************************)
(* Properties.                                                             *)
(***************************************************************************)

TypeOK ==
  /\ fifo \in Seq([seq : 0 .. Total - 1, pkt : 1 .. NumPackets,
                   idx : 0 .. FramesPerPacket - 1, data : TimeRange \cup 1 .. NumPackets,
                   first : BOOLEAN, last : BOOLEAN])
  /\ Len(fifo) <= Capacity
  /\ now \in TimeRange /\ time_input \in TimeRange
  /\ latched_ts \in TimeRange /\ latched_header \in TimeRange \cup 1 .. NumPackets
  /\ streaming \in BOOLEAN
  /\ frame_count \in 0 .. 2^FrameCountWidth - 1
  /\ tsOf \in [1 .. NumPackets -> Timestamps]
  /\ sent \in 0 .. Total
  /\ out \in Seq(SourceFrames)
  /\ meta \subseteq 0 .. Total - 1

(* The frame the scheduler will take next: the FIFO head, or the frame the *)
(* producer has yet to push when the FIFO is empty.                        *)
NextOut == IF FifoValid THEN Head(fifo) ELSE Frame(sent)

(* frame_count, streaming and the latched registers stay in step with the  *)
(* packet structure of the queue: frame_count is the index in its packet   *)
(* of the next frame to leave the FIFO, the latched header and timestamp  *)
(* are those of that frame's packet once they have been popped, and       *)
(* streaming is only ever set between a packet's metadata and its end.     *)
(* Breaking it takes the counter reset, the latch conditions and the pop   *)
(* condition of scheduler.py to disagree over several packets.             *)
PacketFraming ==
  /\ streaming => frame_count >= 2
  /\ FifoValid \/ sent < Total =>
       /\ NextOut.idx = frame_count
       /\ frame_count >= 1 => latched_header = NextOut.pkt
       /\ frame_count >= 2 => latched_ts = tsOf[NextOut.pkt]
  /\ ~FifoValid /\ sent = Total => frame_count = 0 /\ ~streaming

(* Every frame that has left the FIFO went exactly one way, decided by its *)
(* position in its packet: frames 0 and 1 were latched as metadata and    *)
(* never sent downstream, every payload frame was sent downstream, and     *)
(* downstream received them in the producer's order (pop_meta and the      *)
(* pop condition, lines 133-135, against the output, lines 125-132).       *)
FramesRoutedByPosition ==
  LET popped == [k \in 1 .. sent - Len(fifo) |-> k - 1]
  IN  /\ [i \in DOMAIN out |-> out[i].seq]
           = SelectSeq(popped, LAMBDA k : k % FramesPerPacket >= 2)
      /\ meta = {k \in 0 .. sent - Len(fifo) - 1 : k % FramesPerPacket < 2}

(* Every packet the producer has completely handed over is eventually     *)
(* released to the end: its last frame reaches the consumer.               *)
EveryPacketReleased ==
  \A p \in 1 .. NumPackets :
    sent >= p * FramesPerPacket
      ~> \E i \in DOMAIN out : out[i].pkt = p /\ out[i].last

(* Whatever enable does, no frame the producer handed over is lost or      *)
(* duplicated: each one is in the FIFO, was latched as metadata or reached *)
(* the consumer, exactly once (the enable-gated wiring of sink.ready,      *)
(* lines 56-77, against the pop and output logic).                         *)
FramesConserved ==
  LET delivered == {out[i].seq : i \in DOMAIN out}
      queued    == {fifo[i].seq : i \in DOMAIN fifo}
  IN  /\ delivered \cup queued \cup meta = 0 .. sent - 1
      /\ Len(out) + Len(fifo) + Cardinality(meta) = sent

(* Wraparound-safe release (spec section 4.4): streaming never starts     *)
(* while the target time is still ahead by less than half the counter's    *)
(* range, i.e. while now - latched_ts read modulo 2^TimeWidth lies         *)
(* strictly in the upper half (the time_diff comparison, lines 107-121).   *)
ReleaseWrapSafe ==
  [][~streaming /\ streaming' =>
       (now - latched_ts) % 2^TimeWidth <= 2^(TimeWidth - 1)]_vars

(* With enable held, the scheduler implements ReleaseQueue: the frames the *)
(* consumer receives are the payload frames in the producer's order, a     *)
(* packet's streaming starts only after its first payload frame is queued  *)
(* and now has reached its timestamp, and it is released to its end with  *)
(* no further check.  The mapping hides the FIFO, frame_count and the      *)
(* latches; streaming is the abstract armed flag.  This relates the pop,   *)
(* latch, can_start and end-of-packet logic (lines 79-153) over whole      *)
(* runs of packets, manual time writes included.                           *)
RQ == INSTANCE ReleaseQueue
        WITH accepted <- sent,
             released <- [i \in DOMAIN out |-> out[i].seq],
             armed <- streaming,
             TimeValues <- TimeRange

ImplementsReleaseQueue == RQ!Spec

=============================================================================
