----------------------------- MODULE LegControl -----------------------------
(***************************************************************************)
(* The leg controller (control_leg.c): the mode the last command chose, the *)
(* motion state the other controllers read, and the race trajectory, one   *)
(* segment after the other between positions of [-Reach, Reach].           *)
(* The servos' angles are kept only as "is the planned command the low-    *)
(* race zero pose"; whether the inverse kinematics solves is an input.     *)
(***************************************************************************)
EXTENDS RaceAssist

CONSTANT NoRequest              \* control_leg_race_pending_valid is APP_FALSE

ASSUME NoRequestAssumption == NoRequest \notin U

\* The modes a build with APP_LEG_CALIB_ENABLE, APP_LEG_VERIFY_ENABLE and
\* APP_LEG_DIRECT_STEP_TEST_ENABLE at 0 can be in.
LegMode == {"lock", "calib", "legacy", "fast", "reference", "validate", "race"}
Motion == {"locked", "stable", "transition", "fault", "race", "race_hold"}

\* What the servo driver last reported: moving, or settled at or off the zero.
Rest == {"moving", "zero", "away"}

Leg == [mode: LegMode, motion: Motion,
        reference: BOOLEAN,             \* control_leg_ik_reference_valid
        previous: BOOLEAN,              \* control_leg_ik_previous_*.valid
        u: U, goal: U, pending: U \cup {NoRequest},
        done: BOOLEAN,                  \* the segment's duration has elapsed
        atZero: BOOLEAN, rest: Rest]

\* control_leg_diag as of the last update, which everyone else reads: the motion
\* state (which tells race mode from the others), drive_allowed, a settled output
\* at the low-race zero, race_path_valid and race_assist_actual.
Diag == [motion: Motion, drive: BOOLEAN, ready: BOOLEAN, path: BOOLEAN, u: U]

LegInit == [mode |-> "lock", motion |-> "locked", reference |-> FALSE,
            previous |-> FALSE, u |-> 0, goal |-> 0, pending |-> NoRequest,
            done |-> FALSE, atZero |-> FALSE, rest |-> "moving"]

DiagInit == [motion |-> "locked", drive |-> FALSE, ready |-> FALSE,
             path |-> FALSE, u |-> 0]

-----------------------------------------------------------------------------
(* Race segments.                                                          *)

\* The positions a segment may have reached since it was at "from".
Between(from, to) == {u \in U : u \in from .. to \/ u \in to .. from}

SignChange(a, b) == (a > 0 /\ b < 0) \/ (a < 0 /\ b > 0)

\* control_leg_enter_race_fault_hold
Hold(l) == [l EXCEPT !.motion = "race_hold", !.goal = l.u, !.pending = NoRequest]

\* control_leg_race_start_pending: a change of sign stops at 0 first.
StartPending(l, solves) ==
    IF ~solves
        THEN Hold(l)
    ELSE IF SignChange(l.u, l.pending)
        THEN [l EXCEPT !.goal = 0, !.done = FALSE]
    ELSE [l EXCEPT !.goal = l.pending, !.pending = NoRequest, !.done = FALSE]

\* control_leg_race_entry_ready, and control_leg_race_start_segment from 0
MayEnterRace(l, solves) == l.rest = "zero" /\ l.atZero /\ solves

\* control_leg_set_race_assist_request up to the preflight, which solves the
\* whole path at this level's scale ("path") from the last solution.
MayRequest(l, path, solves) ==
    /\ l.reference /\ l.previous /\ path
    /\ l.motion \notin {"fault", "race_hold"}
    /\ l.mode # "race" => MayEnterRace(l, solves)

\* The rest of it; the position asked for last is the pending one or the goal.
Requested(l, u, path, solves) ==
    IF ~MayRequest(l, path, solves)
        THEN l
    ELSE IF l.mode # "race"
        THEN [l EXCEPT !.mode = "race", !.motion = "race", !.u = 0,
                       !.goal = u, !.pending = NoRequest, !.done = FALSE]
    ELSE IF u = (IF l.pending = NoRequest THEN l.goal ELSE l.pending)
        THEN l
    ELSE LET asked == [l EXCEPT !.pending = u]
         IN  IF l.done THEN StartPending(asked, solves) ELSE asked

\* Its result: a refused segment leaves the controller in a hold.
Accepts(l, u, path, solves) ==
    /\ MayRequest(l, path, solves)
    /\ Requested(l, u, path, solves).motion # "race_hold"

\* control_leg_disable_race_assist
RaceDisabled(l, solves) ==
    IF l.mode # "race" \/ l.motion = "race_hold"
        THEN l
    ELSE LET asked == [l EXCEPT !.pending = 0]
         IN  IF l.done THEN StartPending(asked, solves) ELSE asked

-----------------------------------------------------------------------------
(* Commands of the host.                                                   *)

\* Another mode; the race segment's clock matters in race mode only.
Enter(l, mode) == [l EXCEPT !.mode = mode, !.done = FALSE]

\* A mutant: locking clears a soft fault.
SetLock_ClearsFault(l) ==
    [Enter(l, "lock") EXCEPT !.motion = "locked", !.previous = FALSE]

\* control_leg_set_mode(LEG_MODE_LOCK)
SetLock(l) ==
    IF l.motion = "fault"
        THEN Enter(l, "lock")
        ELSE [Enter(l, "lock") EXCEPT !.motion = "locked", !.previous = FALSE]

\* control_leg_set_legacy_stance, the one command that leaves a soft fault
SetLegacy(l) ==
    [Enter(l, "legacy") EXCEPT
        !.motion = IF l.motion = "fault" \/ l.mode # "legacy"
                       THEN "transition" ELSE @]

\* control_leg_set_fast_legacy_stance, control_leg_set_calib_angles
SetPose(l, mode) ==
    IF l.motion = "fault"
        THEN l
        ELSE [Enter(l, mode) EXCEPT !.motion = "transition"]

\* control_leg_set_ik_reference
SetReference(l, solves) ==
    IF l.motion = "fault" \/ ~solves
        THEN l
        ELSE [Enter(l, "reference") EXCEPT !.motion = "transition",
                                           !.reference = TRUE, !.previous = TRUE]

\* control_leg_set_xy
SetXY(l, solves) ==
    IF l.motion = "fault" \/ ~l.reference \/ ~solves
        THEN l
        ELSE [Enter(l, "validate") EXCEPT !.motion = "transition"]

-----------------------------------------------------------------------------
(* control_leg_update.                                                     *)

\* control_leg_motion_can_stabilize: the plan is complete and the servos settled.
Settled(l, x) == IF x.complete /\ l.rest # "moving" THEN "stable" ELSE "transition"

\* control_leg_enter_fault
Fault(l) == [l EXCEPT !.motion = "fault", !.atZero = FALSE]

\* The next command on the way to the pose
PoseUpdate(l, x) == [l EXCEPT !.motion = Settled(l, x), !.atZero = x.atZero]

\* LEGACY_STANCE settles from TRANSITION: an update that starts in any other
\* state, STABLE included, restarts the settling time.
LegacyUpdate(l, x) ==
    IF ~x.solves
        THEN Fault(l)
        ELSE [PoseUpdate(l, x) EXCEPT
                 !.motion = IF l.motion = "transition" THEN @ ELSE "transition"]

FastUpdate(l, x) == IF x.solves THEN PoseUpdate(l, x) ELSE Fault(l)

ReferenceUpdate(l, x) ==
    IF l.reference /\ x.solves THEN PoseUpdate(l, x) ELSE Fault(l)

ValidateUpdate(l, x) ==
    IF l.reference /\ x.solves
        THEN [PoseUpdate(l, x) EXCEPT !.previous = TRUE]
        ELSE Fault(l)

LockUpdate(l) == [l EXCEPT !.motion = "locked", !.atZero = FALSE]

\* control_leg_race_update
RaceStep(l, x) ==
    LET moved == [l EXCEPT !.u = IF l.done THEN l.goal ELSE x.u]
        planned == [moved EXCEPT !.motion = "race", !.previous = TRUE,
                                 !.atZero = moved.u = 0]
    IN  IF ~x.solves
            THEN Hold(moved)
        ELSE IF l.done /\ l.pending # NoRequest
            THEN StartPending(planned, x.restarts)
        ELSE planned

\* The controller after an update; x holds what the servos report and what the
\* trajectory arithmetic gives. FAULT and RACE_FAULT_HOLD run no mode.
ModeUpdate(l, x) ==
    CASE l.mode = "lock" -> LockUpdate(l)
      [] l.mode = "calib" -> PoseUpdate(l, x)
      [] l.mode = "legacy" -> LegacyUpdate(l, x)
      [] l.mode = "fast" -> FastUpdate(l, x)
      [] l.mode = "reference" -> ReferenceUpdate(l, x)
      [] l.mode = "validate" -> ValidateUpdate(l, x)
      [] l.mode = "race" -> RaceStep(l, x)

LegUpdate(l, x) ==
    LET seen == [l EXCEPT !.rest = x.rest]
    IN  IF l.motion = "fault"
            THEN [seen EXCEPT !.atZero = FALSE]
        ELSE IF l.motion = "race_hold"
            THEN seen
        ELSE ModeUpdate(seen, x)

\* The servos settle where the published command put them.
UpdateInput(l) ==
    [rest: {"moving", IF l.atZero THEN "zero" ELSE "away"},
     solves: BOOLEAN, restarts: BOOLEAN, complete: BOOLEAN, atZero: BOOLEAN,
     u: Between(l.u, l.goal)]

\* A mutant: the locked legs have a valid pose too.
PoseValid_Locked(l) == l.motion = "race_hold" \/ (l.motion # "fault" /\ l.mode # "calib")

\* What drive_allowed takes for a valid pose: LOCK and IK_CALIB publish none, a
\* race hold its held command.
PoseValid(l) ==
    \/ l.motion = "race_hold"
    \/ l.motion # "fault" /\ l.mode \notin {"lock", "calib"}

\* control_leg_publish_diag at the end of the update from l to "after". The race
\* fields belong to control_leg_race_update_diag: race_assist_actual keeps its
\* value when the mode is left.
Published(d, l, after, x, enabled) ==
    LET raced == l.mode = "race" /\ l.motion = "race" /\ x.solves
    IN  [motion |-> after.motion,
         drive |-> enabled /\ PoseValid(after),
         ready |-> enabled /\ after.rest = "zero",
         path |-> after.motion # "race_hold" /\ (raced \/ d.path),
         u |-> IF raced THEN after.u ELSE d.u]
=============================================================================
