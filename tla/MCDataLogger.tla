--------------------------- MODULE MCDataLogger ---------------------------
(* A logger with up to three items for TLC.                                *)
EXTENDS DataLogger
=============================================================================
