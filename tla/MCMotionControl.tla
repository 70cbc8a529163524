--------------------------- MODULE MCMotionControl ---------------------------
(***************************************************************************)
(* Small instances of MotionControl.                                       *)
(***************************************************************************)
EXTENDS MotionControl
=============================================================================
