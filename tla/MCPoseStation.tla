--------------------------- MODULE MCPoseStation ---------------------------
(***************************************************************************)
(* PoseStation for TLC: three clients that come and go for ever, each of   *)
(* which may find another in the station or on its way out of it.          *)
(***************************************************************************)
EXTENDS PoseStation, TLC

CONSTANTS c1, c2, c3
=============================================================================
