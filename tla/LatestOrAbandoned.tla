-------------------------- MODULE LatestOrAbandoned --------------------------
(***************************************************************************)
(* What the inter-core snapshot transport promises when CM7_1 may be reset *)
(* at any step: a register of numbered records.  A reset may abandon the   *)
(* record that was being published; it is never the last published one.    *)
(* A poll finds the record that is the latest at one moment, or an         *)
(* abandoned one that was given the same number, and returns that one or   *)
(* nothing; a number that was returned is used up.                         *)
(***************************************************************************)
EXTENDS Integers

CONSTANTS
    Record,     \* the records that can be published, with their number seq
    NoRecord    \* the value before the first publish of a boot epoch

VARIABLES
    latest,     \* the last published record, or NoRecord
    fresh,      \* no record with the number of latest has been taken yet
    pending,    \* what a poll under way has found, or NoRecord
    abandoned,  \* records a reset of CM7_1 left behind half published
    taken       \* the record most recently handed to the caller

vars == <<latest, fresh, pending, abandoned, taken>>

Init ==
    /\ latest = NoRecord
    /\ fresh = FALSE
    /\ pending = NoRecord
    /\ abandoned = {}
    /\ taken = NoRecord

Publish ==
    \E r \in Record :
        /\ r.seq > latest.seq
        /\ latest' = r
        /\ fresh' = TRUE
        /\ UNCHANGED <<pending, abandoned, taken>>

Abandon ==
    \E r \in Record :
        /\ r.seq > latest.seq
        /\ abandoned' = abandoned \cup {r}
        /\ UNCHANGED <<latest, fresh, pending, taken>>

Find ==
    /\ fresh
    /\ pending = NoRecord
    /\ pending' \in {latest} \cup {r \in abandoned : r.seq = latest.seq}
    /\ UNCHANGED <<latest, fresh, abandoned, taken>>

\* A poll that is crossed by a publish may give up.
GiveUp ==
    /\ pending' = NoRecord
    /\ UNCHANGED <<latest, fresh, abandoned, taken>>

Take ==
    /\ pending # NoRecord
    /\ taken' = pending
    /\ fresh' = (latest.seq # pending.seq)
    /\ pending' = NoRecord
    /\ UNCHANGED <<latest, abandoned>>

\* CM7_0 restarts: the layout is cleared and the caller's copy is gone.
Reset ==
    /\ latest' = NoRecord
    /\ fresh' = FALSE
    /\ pending' = NoRecord
    /\ abandoned' = {}
    /\ taken' \in {taken, NoRecord}

Next == Publish \/ Abandon \/ Find \/ GiveUp \/ Take \/ Reset

Spec == Init /\ [][Next]_vars
=============================================================================
