--------------------------- MODULE MCCameraHandoff ---------------------------
(***************************************************************************)
(* Small instances of CameraHandoff.                                       *)
(***************************************************************************)
EXTENDS CameraHandoff
=============================================================================
