--------------------------- MODULE MCGaitStepper ---------------------------
(* The gait scheduler without a double-support phase, so that every        *)
(* landing but the last is an exchange of feet within one tick.            *)
EXTENDS GaitStepper
=============================================================================
