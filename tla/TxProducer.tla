---------------------------- MODULE TxProducer ----------------------------
(***************************************************************************)
(* The upstream producer of TX frames, drive_packet of                     *)
(* src/sim/testbench.py: packets of FramesPerPacket frames, frame 0 the    *)
(* header word with first set, frame 1 the target timestamp, then the      *)
(* payload, the final frame with last set.  The producer may stall before  *)
(* any frame (sink.valid low) and holds a frame until it is accepted.      *)
(*                                                                         *)
(* Data words are abstracted: the header word of packet p is p, payload    *)
(* words are PayloadWord.  Every frame carries ghost fields seq (its       *)
(* position in the stream), pkt and idx that no gateware reads.            *)
(***************************************************************************)
EXTENDS Integers, Sequences

CONSTANTS
  FramesPerPacket,  \* frames_per_packet
  NumPackets,       \* bound: packets the producer sends
  Timestamps,       \* target times the producer may put in frame 1
  PayloadWord       \* the data word of every payload frame

VARIABLES
  tsOf,  \* timestamp the producer puts in each packet
  sent   \* frames the producer has handed over so far

Total == NumPackets * FramesPerPacket

Frame(k) ==
  LET i == k % FramesPerPacket
      p == k \div FramesPerPacket + 1
  IN  [seq   |-> k,
       pkt   |-> p,
       idx   |-> i,
       data  |-> CASE i = 0 -> p
                   [] i = 1 -> tsOf[p]
                   [] OTHER -> PayloadWord,
       first |-> i = 0,
       last  |-> i = FramesPerPacket - 1]

(* sink.valid: the producer may offer its next frame or stall.             *)
ValidInputs == IF sent < Total THEN BOOLEAN ELSE {FALSE}

(* A frame as the consumer sees it on source, with the first and last      *)
(* flags the gateware drives.                                              *)
OnSource(f, fl, la) ==
  [seq |-> f.seq, pkt |-> f.pkt, idx |-> f.idx, first |-> fl, last |-> la]

SourceFrames ==
  [seq : 0 .. Total - 1, pkt : 1 .. NumPackets,
   idx : 0 .. FramesPerPacket - 1, first : BOOLEAN, last : BOOLEAN]

ProducerInit ==
  /\ tsOf \in [1 .. NumPackets -> Timestamps]
  /\ sent = 0

=============================================================================
