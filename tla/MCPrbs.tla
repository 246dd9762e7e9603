------------------------------ MODULE MCPrbs --------------------------------
(* Model-checking instance of Prbs: the code's generator (16 bits, seed     *)
(* 0x0a54, its taps), 12-bit lanes, a WaitTimer shortened from 1024.       *)
EXTENDS Prbs

MCTaps == {1, 2, 4, 5, 6, 7, 8, 9, 10, 11, 12, 13, 14, 15}

MCLanes == {"ia"}

=============================================================================
