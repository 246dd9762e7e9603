------------------------- MODULE MCHeaderExtracter -------------------------
(* Model-checking instance of HeaderExtracter: four-frame packets with     *)
(* frame_cycles = frames_per_packet - 2 (the CSR default 8192/8 - 2 for    *)
(* 1024-frame packets), a one-packet FIFO, timestamps 0 (due at once) and *)
(* 2 (waiting for the time, or passed by a manual write of 1).           *)
EXTENDS HeaderExtracter

MCTimestamps == {0, 2}

MCManualTimes == {1}

=============================================================================
