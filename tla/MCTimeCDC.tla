----------------------------- MODULE MCTimeCDC -----------------------------
(* TimeCDC with 2-bit values and manual values 1 and 2, whose bits differ  *)
(* everywhere, so a torn value is a third value.                           *)
EXTENDS TimeCDC

MCManualValues == {1, 2}

=============================================================================
