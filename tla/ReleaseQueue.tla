---------------------------- MODULE ReleaseQueue ----------------------------
(***************************************************************************)
(* What the timestamp-gated release controller promises (spec sections     *)
(* 4.2-4.4 and 8), without its FIFO, frame counter or latches: of the      *)
(* frames a producer hands over, only payload frames reach the consumer,   *)
(* each once and in the producer's order; a packet is armed only once its  *)
(* first payload frame has been handed over and the current time has       *)
(* reached the packet's timestamp; an armed packet is released to its end  *)
(* without the time being checked again, and the next one must be armed   *)
(* anew.                                                                   *)
(*                                                                         *)
(* A step is one clock cycle, in which a frame may be accepted, the time   *)
(* may change, and either one frame is released or a packet is armed.    *)
(***************************************************************************)
EXTENDS Integers, Sequences

CONSTANTS
  FramesPerPacket,  \* frames per packet, two of them metadata
  NumPackets,       \* packets the producer hands over
  Timestamps,       \* timestamps a packet may carry
  TimeValues        \* values the current time may take

VARIABLES
  accepted,  \* number of frames accepted from the producer
  released,  \* stream positions of the frames released, in order
  armed,     \* the packet at the head is being released
  now,       \* current time
  tsOf       \* timestamp of each packet

PacketOf(k) == k \div FramesPerPacket + 1

(* The stream position of the next payload frame due for release.         *)
NextPayload ==
  IF released = << >> THEN 2
  ELSE LET s == released[Len(released)]
       IN  IF s % FramesPerPacket = FramesPerPacket - 1 THEN s + 3 ELSE s + 1

Present == NextPayload < accepted

Due == now >= tsOf[PacketOf(NextPayload)]

Accept ==
  accepted' \in {accepted, accepted + 1} \cap 0 .. NumPackets * FramesPerPacket

Arm ==
  /\ ~armed /\ Present /\ Due
  /\ armed' = TRUE
  /\ UNCHANGED released

Release ==
  /\ armed /\ Present
  /\ released' = Append(released, NextPayload)
  /\ armed' = (NextPayload % FramesPerPacket # FramesPerPacket - 1)

Init ==
  /\ accepted = 0
  /\ released = << >>
  /\ armed = FALSE
  /\ now \in TimeValues
  /\ tsOf \in [1 .. NumPackets -> Timestamps]

Next ==
  /\ Accept
  /\ now' \in TimeValues
  /\ Arm \/ Release \/ UNCHANGED << released, armed >>
  /\ UNCHANGED tsOf

Spec == Init /\ [][Next]_<< accepted, released, armed, now, tsOf >>

=============================================================================
