------------------------- MODULE MCSnapshotTransport -------------------------
(***************************************************************************)
(* Small instances of SnapshotTransport.                                   *)
(***************************************************************************)
EXTENDS SnapshotTransport
=============================================================================
