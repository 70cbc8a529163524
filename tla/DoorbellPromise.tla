--------------------------- MODULE DoorbellPromise ---------------------------
(***************************************************************************)
(* What the doorbell promises the two cores: a bit that was rung stays     *)
(* outstanding until it arrives, rings of one bit may merge, no ring       *)
(* arrives twice, and the receiver takes exactly what arrived since it     *)
(* last did.  A restart of the receiver forgets what had arrived and the   *)
(* message it was reading.                                                 *)
(***************************************************************************)
EXTENDS Integers

CONSTANT Bit

VARIABLES
    rung,       \* per bit: rings that have not arrived
    arrived,    \* bits the receiver has not taken
    taken       \* what the receiver took last

vars == <<rung, arrived, taken>>

Init ==
    /\ rung = [b \in Bit |-> 0]
    /\ arrived = {} /\ taken = {}

\* A ring of a bit that is outstanding may merge with an earlier one.
Ring ==
    \E bits \in (SUBSET Bit) \ {{}}, merged \in SUBSET Bit :
        /\ \A b \in merged : rung[b] > 0
        /\ rung' = [b \in Bit |-> IF b \in bits \ merged THEN rung[b] + 1
                                                          ELSE rung[b]]
        /\ UNCHANGED <<arrived, taken>>

Fewer(bits) == [b \in Bit |-> IF b \in bits THEN rung[b] - 1 ELSE rung[b]]

Arrive ==
    \E bits \in SUBSET Bit :
        /\ \A b \in bits : rung[b] > 0
        /\ rung' = Fewer(bits)
        /\ arrived' = arrived \cup bits
        /\ UNCHANGED taken

Take == taken' = arrived /\ arrived' = {} /\ UNCHANGED rung

Reset ==
    \E bits \in SUBSET Bit :
        /\ \A b \in bits : rung[b] > 0
        /\ rung' = Fewer(bits)
        /\ arrived' = {} /\ taken' = {}

Next == Ring \/ Arrive \/ Take \/ Reset

Spec == Init /\ [][Next]_vars
=============================================================================
