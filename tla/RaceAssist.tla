----------------------------- MODULE RaceAssist -----------------------------
(***************************************************************************)
(* The race-assist supervisor (control_race_assist.c): from the chassis'   *)
(* inputs it decides whether the legs may lean (a position u between       *)
(* -Reach and Reach, 0 being the low-race pose) and latches its faults.    *)
(* Its state is one record; the chassis, which owns every call, may run    *)
(* its update twice in one of its own steps.                               *)
(***************************************************************************)
EXTENDS Integers

CONSTANTS
    Reach,        \* the u interval [-1, 1] in steps; poses within one step of
                  \* 0 other than 0 are out of the 0.75 mm tolerance
    MaxLevel      \* APP_RACE_ASSIST_MAX_VALIDATED_LEVEL

ASSUME ReachAssumption == Reach \in Nat \ {0}
ASSUME LevelAssumption == MaxLevel \in Nat \ {0}

U == -Reach .. Reach

RunState == {"low_race", "armed", "boost", "cruise_hold", "brake"}
RaceState == RunState \cup {"disabled", "recenter", "fault_hold"}

Race == [state: RaceState, level: 0 .. MaxLevel, disabling: BOOLEAN,
         pathFault: BOOLEAN, latched: BOOLEAN, session: BOOLEAN,
         u: U, enable: BOOLEAN, command: BOOLEAN]

\* |measured_rpm| below APP_RACE_ASSIST_RECENTER_RPM, below
\* APP_RACE_ASSIST_ARM_START_RPM, or above both.
Speed == {"slow", "mid", "fast"}

\* What the control law may ask for above the arming speed: ARMED at 0 outside the
\* pitch window, else BRAKE, BOOST or CRUISE_HOLD and a position, which no gain
\* or hold bias (all >= 0) makes negative without an error that brakes.
Law == {w \in [state: {"boost", "cruise_hold", "brake"}, u: U] :
            w.state # "brake" => w.u >= 0}
       \cup {[state |-> "armed", u |-> 0]}

\* The inputs of one update. "abort" stands for an input that is not finite or
\* a pitch or pitch rate beyond its abort limit.
Input == [abort: BOOLEAN, pathFault: BOOLEAN, fast: BOOLEAN, healthy: BOOLEAN,
          ready: BOOLEAN, speed: Speed, u: U]

RaceInit == [state |-> "disabled", level |-> 0, disabling |-> FALSE,
             pathFault |-> FALSE, latched |-> FALSE, session |-> FALSE,
             u |-> 0, enable |-> FALSE, command |-> FALSE]

SetLevel(r, level) ==
    [r EXCEPT !.level = level,
              !.disabling = @ \/ (level = 0 /\ r.level # 0)]

\* A mutant: the report is lost.
ReportPathFault_Lost(r) == r

ReportPathFault(r) == [r EXCEPT !.pathFault = TRUE]

\* control_race_assist_enter_fault: hold the legs where they are.
FaultHold(r, u) ==
    [r EXCEPT !.state = "fault_hold", !.latched = TRUE, !.u = u,
              !.enable = FALSE, !.command = TRUE]

Disabled(r) ==
    [r EXCEPT !.state = "disabled", !.session = FALSE, !.disabling = FALSE,
              !.u = 0, !.enable = FALSE, !.command = FALSE]

Recenter(r, u) ==
    [r EXCEPT !.state = "recenter", !.disabling = TRUE, !.u = u,
              !.enable = FALSE, !.command = TRUE]

\* A mutant: the test of the position is inverted.
UpdateDisable_Inverted(r, in) ==
    LET disabling == r.disabling \/ r.state \notin {"disabled", "recenter"}
    IN  IF ~disabling \/ (in.speed = "slow" /\ in.u # 0)
            THEN Disabled(r)
            ELSE Recenter(r, IF in.speed = "slow" THEN 0 ELSE in.u)

\* control_race_assist_update_disable: above the recentring speed the legs hold,
\* below it they return to 0, and there the assist is off.
UpdateDisable(r, in) ==
    LET disabling == r.disabling \/ r.state \notin {"disabled", "recenter"}
    IN  IF ~disabling \/ (in.speed = "slow" /\ in.u = 0)
            THEN Disabled(r)
            ELSE Recenter(r, IF in.speed = "slow" THEN 0 ELSE in.u)

\* LOW_RACE below the arming speed, ARMED on the way up, and otherwise anything
\* the control law may want.
Wanted(r, in) ==
    IF in.speed # "fast"
        THEN {[state |-> "low_race", u |-> 0]}
    ELSE IF r.state \in {"disabled", "low_race"}
        THEN {[state |-> "armed", u |-> 0]}
    ELSE Law

Running(r, w) ==
    [r EXCEPT !.state = w.state, !.u = w.u, !.enable = TRUE, !.command = TRUE,
              !.session = @ \/ w.state \in {"boost", "cruise_hold", "brake"}]

\* control_race_assist_update: what the supervisor may be after it.
RaceUpdates(r, in) ==
    IF in.abort \/ in.pathFault \/ r.pathFault \/ r.latched
        THEN {FaultHold(r, in.u)}
    ELSE IF r.level = 0 \/ ~in.fast
        THEN {UpdateDisable(r, in)}
    ELSE IF ~in.healthy \/ (~r.session /\ ~in.ready)
        THEN {FaultHold(r, in.u)}
    ELSE {Running(r, w) : w \in Wanted(r, in)}
=============================================================================
