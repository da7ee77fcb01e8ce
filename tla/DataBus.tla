------------------------------ MODULE DataBus ------------------------------
(***************************************************************************)
(* The vocabulary of common/data_bus.h that the components share.  A foot  *)
(* carries the name of the stance it supports: "LSt" is the left foot.     *)
(***************************************************************************)

Stance == {"LSt", "RSt"}
LegState == Stance \cup {"DSt"}
MotionState == {"Stand", "Walk", "Walk2Stand"}

OppositeStance(s) == IF s = "LSt" THEN "RSt" ELSE "LSt"
=============================================================================
