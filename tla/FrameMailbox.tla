---------------------------- MODULE FrameMailbox ----------------------------
(***************************************************************************)
(* What the camera hand-over promises CM7_1: a mailbox of whole pictures.  *)
(* Each capture has a number and is published at most once, with the       *)
(* picture the camera shows at that moment, so numbers and pictures grow   *)
(* together until CM7_0 boots again.  CM7_1 holds one frame at a time,     *)
(* takes only frames newer than the last it gave back, and looks at one    *)
(* only when no older frame waits behind it.                               *)
(***************************************************************************)
EXTENDS Integers

CONSTANTS
    Word        \* the words of a picture

VARIABLES
    up,         \* CM7_0 has built the shared layout since its last reset
    exposure,   \* the exposure the camera shows, counted since the boot
    number,     \* the number of the latest capture
    open,       \* that capture may still be published
    ready,      \* the published frames nobody has taken
    held,       \* the frame CM7_1 holds
    last,       \* the number of the last frame it gave back
    seen        \* the exposures it saw in the words of the held frame

vars == <<up, exposure, number, open, ready, held, last, seen>>

Picture(n) == [w \in Word |-> n]
NoFrame    == [seq |-> 0, picture |-> Picture(0)]

Init ==
    /\ up = FALSE
    /\ exposure = 0 /\ number = 0 /\ open = FALSE
    /\ ready = {} /\ held = NoFrame
    /\ last = 0 /\ seen = {}

\* CM7_0 is reset; what it published is still there.
Down ==
    /\ up
    /\ up' = FALSE /\ exposure' = 0 /\ open' = FALSE
    /\ UNCHANGED <<number, ready, held, last, seen>>

\* Its boot forgets every frame and begins to count again.
Boot ==
    /\ ~ up /\ held = NoFrame
    /\ up' = TRUE
    /\ number' = 0 /\ ready' = {} /\ last' = 0
    /\ UNCHANGED <<exposure, open, held, seen>>

Expose ==
    /\ up
    /\ exposure' = exposure + 1
    /\ UNCHANGED <<up, number, open, ready, held, last, seen>>

Number ==
    /\ up /\ ~ open
    /\ number < exposure
    /\ number' = number + 1
    /\ open' \in BOOLEAN
    /\ UNCHANGED <<up, exposure, ready, held, last, seen>>

Publish ==
    /\ open
    /\ open' = FALSE
    /\ ready' = ready \cup {[seq |-> number, picture |-> Picture(exposure)]}
    /\ UNCHANGED <<up, exposure, number, held, last, seen>>

\* There is no room: the capture is never published.
Skip ==
    /\ open
    /\ open' = FALSE
    /\ UNCHANGED <<up, exposure, number, ready, held, last, seen>>

Take ==
    /\ held = NoFrame
    /\ \E f \in ready :
        /\ f.seq > last
        /\ held' = f
        /\ ready' = ready \ {f}
    /\ UNCHANGED <<up, exposure, number, open, last, seen>>

\* What the held frame makes obsolete is dropped.
Discard ==
    /\ held # NoFrame
    /\ ready' = {f \in ready : f.seq > held.seq}
    /\ UNCHANGED <<up, exposure, number, open, held, last, seen>>

Look ==
    /\ held # NoFrame
    /\ \A f \in ready : f.seq > held.seq
    /\ \E w \in Word : seen' = seen \cup {held.picture[w]}
    /\ UNCHANGED <<up, exposure, number, open, ready, held, last>>

Release ==
    /\ held # NoFrame
    /\ held' = NoFrame /\ last' = held.seq /\ seen' = {}
    /\ UNCHANGED <<up, exposure, number, open, ready>>

\* CM7_1 is reset: the frame it held is lost.
Detach ==
    /\ held' = NoFrame /\ last' = 0 /\ seen' = {}
    /\ UNCHANGED <<up, exposure, number, open, ready>>

Next ==
    \/ Down \/ Boot \/ Expose \/ Number \/ Publish \/ Skip
    \/ Take \/ Discard \/ Look \/ Release \/ Detach

Spec == Init /\ [][Next]_vars
=============================================================================
