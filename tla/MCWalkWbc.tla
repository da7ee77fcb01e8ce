----------------------------- MODULE MCWalkWbc -----------------------------
(* The demo of the weighted whole-body controller for TLC.                 *)
EXTENDS WalkWbc
=============================================================================
