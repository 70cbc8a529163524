---------------------------- MODULE LatestRecord ----------------------------
(***************************************************************************)
(* What the inter-core snapshot transport promises its users: a register   *)
(* that holds the last published record.  Publishing replaces the record;  *)
(* a poll finds the record that is the latest at one moment and returns    *)
(* exactly that one, or nothing, and each record is returned at most once. *)
(* A boot of CM7_0, which clears the shared layout, forgets the record.    *)
(***************************************************************************)
EXTENDS Integers

CONSTANTS
    Record,     \* the records that can be published
    NoRecord    \* the value before the first publish of a boot epoch

VARIABLES
    latest,     \* the last published record, or NoRecord
    fresh,      \* latest has not been taken yet
    pending,    \* what a poll under way has found, or NoRecord
    taken       \* the record most recently handed to the caller

vars == <<latest, fresh, pending, taken>>

Init ==
    /\ latest = NoRecord
    /\ fresh = FALSE
    /\ pending = NoRecord
    /\ taken = NoRecord

Publish ==
    /\ latest' \in Record
    /\ fresh' = TRUE
    /\ UNCHANGED <<pending, taken>>

Find ==
    /\ fresh
    /\ pending = NoRecord
    /\ pending' = latest
    /\ UNCHANGED <<latest, fresh, taken>>

\* A poll that is crossed by a publish may give up.
GiveUp ==
    /\ pending' = NoRecord
    /\ UNCHANGED <<latest, fresh, taken>>

Take ==
    /\ pending # NoRecord
    /\ taken' = pending
    /\ fresh' = (latest # pending)
    /\ pending' = NoRecord
    /\ UNCHANGED latest

\* CM7_0 restarts: the record, its freshness and the caller's copy are gone.
Reset ==
    /\ latest' = NoRecord
    /\ fresh' = FALSE
    /\ pending' = NoRecord
    /\ taken' \in {taken, NoRecord}

Next == Publish \/ Find \/ GiveUp \/ Take \/ Reset

Spec == Init /\ [][Next]_vars
=============================================================================
