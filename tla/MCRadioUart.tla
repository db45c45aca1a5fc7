---------------------------- MODULE MCRadioUart ----------------------------
(* RadioUart with a ring of four: every lap and every overrun is met.      *)
EXTENDS RadioUart
=============================================================================
