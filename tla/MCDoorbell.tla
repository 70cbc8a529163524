----------------------------- MODULE MCDoorbell -----------------------------
(***************************************************************************)
(* A small instance of Doorbell.                                           *)
(***************************************************************************)
EXTENDS Doorbell
=============================================================================
