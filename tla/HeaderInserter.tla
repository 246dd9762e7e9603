--------------------------- MODULE HeaderInserter ---------------------------
(***************************************************************************)
(* The RX header inserter, HeaderInserterExtracter(mode="inserter") of     *)
(* src/litex_m2sdr/gateware/header.py, and the last_rx_header /            *)
(* last_rx_timestamp registers of TXRXHeader fed by it.                    *)
(*                                                                         *)
(* A step is one clock cycle.  The FSM (RESET, IDLE, HEADER, TIMESTAMP,   *)
(* FRAME) is wrapped in ResetInserter with reset = reset | ~enable: the    *)
(* state and the NextValue registers (cycles, update) are reset at the     *)
(* edge, while the cycle's combinational outputs are still those of the    *)
(* current state.  In inserter mode the data FIFO is never written, so     *)
(* packet_end is always 0 and the scheduled branch of IDLE never fires.    *)
(* In FRAME sink is connected to source (all but first), after the FSM's  *)
(* own last; the later assignment wins, so source.last is sink.last.       *)
(*                                                                         *)
(* The upstream RX stream is MaxFrames frames, frame k carrying last when *)
(* lastOf[k].  The timestamp input follows the time generator, advancing   *)
(* by one per cycle up to MaxTime; the header input is HeaderWord.         *)
(***************************************************************************)
EXTENDS Integers, Sequences

CONSTANTS
  FrameCycles,       \* the frame_cycles CSR
  MaxFrames,         \* bound: frames the upstream offers
  MaxResets,         \* bound: cycles with reset high or enable low
  EnableValues,      \* values the enable input takes in a cycle
  ResetValues,       \* values the reset input takes in a cycle
  HeaderEnableValues, \* values software may give the header_enable field
  SchedulingEnableValues, \* values software may give scheduling_enable
  HeaderWord,        \* the header input
  MaxTime            \* bound: the timestamp input stops here

ASSUME FrameCycles >= 1 /\ MaxFrames >= 1 /\ MaxTime >= 1
ASSUME EnableValues \subseteq BOOLEAN /\ ResetValues \subseteq BOOLEAN
ASSUME HeaderEnableValues \cup SchedulingEnableValues \subseteq BOOLEAN

VARIABLES
  header_enable,     \* the header_enable CSR field, set before enable
  scheduling_enable, \* the scheduling_enable CSR field, set before enable
  resets,            \* cycles so far with reset high or enable low
  state,             \* FSM state
  cycles,            \* cycles (NextValue register)
  update,            \* self.update (NextValue register)
  timestamp,         \* the timestamp input
  lastOf,            \* the last flag of each upstream frame
  taken,             \* upstream frames taken by sink so far
  dropped,           \* upstream frames taken in RESET and discarded
  out,               \* frames accepted downstream (history)
  last_rx_header,    \* TXRXHeader.last_rx_header
  last_rx_timestamp  \* TXRXHeader.last_rx_timestamp

vars == << header_enable, scheduling_enable, resets, state, cycles, update, timestamp, lastOf, taken,
           dropped, out, last_rx_header, last_rx_timestamp >>

ValidInputs == IF taken < MaxFrames THEN BOOLEAN ELSE {FALSE}

SinkLast == lastOf[taken]

(* enable and reset: the FSM is reset at most MaxResets times.            *)
ResetInputs ==
  {er \in EnableValues \X ResetValues :
     er[2] \/ ~er[1] => resets < MaxResets}

-----------------------------------------------------------------------------
(* The stream interface of the current state: whether source is valid,    *)
(* the frame it carries, and whether sink is ready.                        *)

SourceValid(valid) ==
  CASE state \in {"HEADER", "TIMESTAMP"} -> TRUE
    [] state = "FRAME"                   -> valid
    [] OTHER                             -> FALSE

SourceFrame ==
  CASE state = "HEADER"    -> [kind |-> "header", val |-> HeaderWord, first |-> TRUE, last |-> FALSE]
    [] state = "TIMESTAMP" -> [kind |-> "ts", val |-> timestamp, first |-> FALSE, last |-> FALSE]
    [] OTHER -> [kind |-> "payload", val |-> taken, first |-> FALSE, last |-> SinkLast]

(* Mutation-test variant of SinkReady: RESET takes frames unconditionally. *)
SinkReadyInReset(ready, reset) ==
  CASE state = "RESET" -> TRUE
    [] state = "FRAME" -> ready
    [] OTHER           -> FALSE

SinkReady(ready, reset) ==
  CASE state = "RESET" -> reset
    [] state = "FRAME" -> ready
    [] OTHER           -> FALSE

-----------------------------------------------------------------------------
(* The FSM, one action per state, and the reset ResetInserter adds.        *)

FsmReset ==
  state' = "RESET" /\ cycles' = 0 /\ update' = 0

ResetState ==
  /\ state = "RESET"
  /\ state' = "IDLE" /\ cycles' = 0
  /\ UNCHANGED update

(* Mutation-test variant of IdleState: the scheduled branch is taken       *)
(* whatever scheduling_enable says.                                        *)
IdleStateScheduled ==
  /\ state = "IDLE"
  /\ cycles' = 0
  /\ state' = IF ~header_enable THEN "FRAME" ELSE state
  /\ UNCHANGED update

(* With scheduling_enable, HEADER waits for frame_count = 0 and a valid    *)
(* FIFO head; the inserter never writes its FIFO, so that never happens.   *)
IdleState ==
  /\ state = "IDLE"
  /\ cycles' = 0
  /\ state' = CASE header_enable /\ ~scheduling_enable -> "HEADER"
                [] ~header_enable                      -> "FRAME"
                [] OTHER                               -> state
  /\ UNCHANGED update

HeaderState(ready) ==
  /\ state = "HEADER"
  /\ state' = IF ready THEN "TIMESTAMP" ELSE state
  /\ UNCHANGED << cycles, update >>

TimestampState(ready) ==
  /\ state = "TIMESTAMP"
  /\ IF ready THEN state' = "FRAME" /\ update' = 1
              ELSE UNCHANGED << state, update >>
  /\ UNCHANGED cycles

(* Mutation-test variant of FrameState: the group does not end on last.   *)
FrameStateNoEnd(valid, ready) ==
  /\ state = "FRAME"
  /\ update' = 0
  /\ IF header_enable /\ valid /\ ready
     THEN cycles' = cycles + 1 /\ UNCHANGED state
     ELSE UNCHANGED << state, cycles >>

(* With header_enable every accepted frame counts, and the one with last   *)
(* (sink.last, through the connect) returns to HEADER with cycles cleared. *)
FrameState(valid, ready) ==
  /\ state = "FRAME"
  /\ update' = 0
  /\ CASE header_enable /\ valid /\ ready /\ SinkLast ->
            state' = "HEADER" /\ cycles' = 0
       [] header_enable /\ valid /\ ready ->
            cycles' = cycles + 1 /\ UNCHANGED state
       [] OTHER -> UNCHANGED << state, cycles >>

FsmStep(valid, ready, enable, reset) ==
  \/ (reset \/ ~enable) /\ FsmReset
  \/ /\ ~(reset \/ ~enable)
     /\ \/ ResetState
        \/ IdleState
        \/ HeaderState(ready)
        \/ TimestampState(ready)
        \/ FrameState(valid, ready)

(* TXRXHeader: cleared by rx.reset, then, the later statement, loaded from *)
(* the header and timestamp inputs while update is high.                   *)
LastRx(reset) ==
  /\ last_rx_header' = CASE update = 1 -> HeaderWord [] reset -> 0 [] OTHER -> last_rx_header
  /\ last_rx_timestamp' = CASE update = 1 -> timestamp [] reset -> 0 [] OTHER -> last_rx_timestamp

Cycle(valid, ready, enable, reset) ==
  /\ FsmStep(valid, ready, enable, reset)
  /\ LastRx(reset)
  /\ out' = IF SourceValid(valid) /\ ready THEN Append(out, SourceFrame) ELSE out
  /\ taken' = IF valid /\ SinkReady(ready, reset) THEN taken + 1 ELSE taken
  /\ dropped' = IF valid /\ state = "RESET" /\ reset THEN dropped \cup {taken} ELSE dropped
  /\ timestamp' = IF timestamp < MaxTime THEN timestamp + 1 ELSE timestamp
  /\ resets' = IF reset \/ ~enable THEN resets + 1 ELSE resets
  /\ UNCHANGED << header_enable, scheduling_enable, lastOf >>

Init ==
  /\ header_enable \in HeaderEnableValues
  /\ scheduling_enable \in SchedulingEnableValues
  /\ resets = 0
  /\ state = "RESET" /\ cycles = 0 /\ update = 0
  /\ timestamp = 0
  /\ lastOf \in [0 .. MaxFrames - 1 -> BOOLEAN]
  /\ taken = 0 /\ dropped = {} /\ out = << >>
  /\ last_rx_header = 0 /\ last_rx_timestamp = 0

Next ==
  \E valid \in ValidInputs, ready \in BOOLEAN, er \in ResetInputs :
    Cycle(valid, ready, er[1], er[2])

Spec == Init /\ [][Next]_vars

(* The RX upstream (samples from the RFIC through rx_cdc) is valid every   *)
(* cycle and the DMA downstream keeps draining: a cycle in which both      *)
(* handshake sides are willing, with the channel enabled, is never         *)
(* withheld for ever.                                                      *)
FairSpec == Spec /\ WF_vars(Cycle(taken < MaxFrames, TRUE, TRUE, FALSE))

-----------------------------------------------------------------------------
(***************************************************************************)
(* Properties.                                                             *)
(***************************************************************************)

Payloads == SelectSeq(out, LAMBDA f : f.kind = "payload")

(* Every upstream frame sink takes is either discarded in RESET under      *)
(* reset, or relayed downstream, once and in order, whatever enable and    *)
(* reset do (the RESET, IDLE and FRAME states against the connect in       *)
(* FRAME, header.py lines 63-79 and 239-260).                              *)
FramesRelayedInOrder ==
  /\ [i \in DOMAIN Payloads |-> Payloads[i].val]
       = SelectSeq([k \in 1 .. taken |-> k - 1], LAMBDA k : k \notin dropped)

(* The output is a sequence of groups: a header frame (with first), the   *)
(* timestamp frame right after it, then payload frames, of which only the *)
(* group's final one carries last; a group cut short by reset or enable   *)
(* simply ends, and the next one starts with a header (spec 4.5).          *)
GroupsWellFormed ==
  \A i \in DOMAIN out :
    /\ out[i].first = (out[i].kind = "header")
    /\ out[i].kind = "ts" => i > 1 /\ out[i - 1].kind = "header"
    /\ out[i].kind = "payload" /\ header_enable =>
         i > 1 /\ out[i - 1].kind \in {"ts", "payload"}
               /\ (out[i - 1].kind = "payload" => ~out[i - 1].last)

(* Once the channel stays enabled, every frame the upstream offers is      *)
(* eventually taken by sink: RX never stalls the sample stream for good    *)
(* (IDLE, HEADER and TIMESTAMP hold sink.ready low, header.py lines        *)
(* 71-100; FRAME takes frames through the connect, lines 257-258).         *)
FramesEventuallyTaken == <>(taken = MaxFrames)

(* Every group of payload frames the inserter closes with last holds       *)
(* frame_cycles frames (spec 4.5: FRAME relays payload frames until the    *)
(* configured frame-cycle count is reached; header.py line 248).           *)
GroupsHaveFrameCycles ==
  \A i \in DOMAIN out :
    out[i].kind = "payload" /\ out[i].last =>
      \E j \in 1 .. i - 1 :
        /\ out[j].kind = "ts"
        /\ i - j = FrameCycles
        /\ \A k \in j + 1 .. i - 1 : out[k].kind = "payload"

=============================================================================
