---------------------------- MODULE MCFeedbackAge ----------------------------
(***************************************************************************)
(* Small instances of FeedbackAge.                                         *)
(***************************************************************************)
EXTENDS FeedbackAge
=============================================================================
