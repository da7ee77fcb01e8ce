-------------------------- MODULE MCGaitScheduler --------------------------
(* The scheduler, and the preview compared with it in every state.         *)
EXTENDS GaitPreview
=============================================================================
