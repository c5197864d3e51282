---------------------------- MODULE MCRecordings ----------------------------
(* Small instances of Recordings for TLC: the constants are model values,  *)
(* which the configurations give.                                          *)
EXTENDS Recordings, TLC

=============================================================================
