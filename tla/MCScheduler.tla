---------------------------- MODULE MCScheduler ----------------------------
(* Model-checking instance of Scheduler: four-frame packets (legal for a   *)
(* 32-bit data path, frames_per_packet % (data_width // 8) = 0), a FIFO of *)
(* two packets and three packets sent, so that backpressure occurs.        *)
EXTENDS Scheduler

MCTimestamps == 0 .. 3

MCManualTimes == {2}

=============================================================================
