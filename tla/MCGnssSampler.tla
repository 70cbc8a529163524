---------------------------- MODULE MCGnssSampler ----------------------------
(***************************************************************************)
(* A small instance of GnssSampler.                                        *)
(***************************************************************************)
EXTENDS GnssSampler
=============================================================================
