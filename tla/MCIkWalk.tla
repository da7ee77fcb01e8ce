----------------------------- MODULE MCIkWalk -----------------------------
(* Walks of the NMPC and of the SRBD demo for TLC.                         *)
EXTENDS IkWalk
=============================================================================
