---------------------------- MODULE MCServoFrames ----------------------------
(***************************************************************************)
(* A small instance of ServoFrames: one servo that is moved between the    *)
(* ends of its range and to a pose it may pass through on its way to an    *)
(* end, beside one that holds; a fast mode of three steps a tick.          *)
(***************************************************************************)
EXTENDS ServoFrames

LeftAt(angle) == [s \in Servo |-> IF s = "left" THEN angle ELSE 0]

ThreePoses == {LeftAt(0), LeftAt(2), LeftAt(3)}

StepOfMode == [m \in Mode |-> IF m = "fast" THEN 3 ELSE 1]
=============================================================================
