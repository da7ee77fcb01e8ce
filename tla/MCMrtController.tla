--------------------------- MODULE MCMrtController ---------------------------
(* The threaded controller for TLC.                                        *)
EXTENDS MrtController
=============================================================================
