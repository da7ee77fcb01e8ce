----------------------------- MODULE MCWbcWalk -----------------------------
(* Two-step and three-step walks for TLC.                                  *)
EXTENDS WbcWalk
=============================================================================
