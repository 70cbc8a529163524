------------------------------ MODULE LegDrive ------------------------------
(***************************************************************************)
(* Who may move the legs and the car: the UART0 commands (host_command.c)  *)
(* behind their maintenance gate, the router's call of the chassis, the    *)
(* leg controller and the chassis (control_chassis.c) with the race-assist *)
(* supervisor between them. A pass of the main loop runs the host          *)
(* commands, the router, the leg update when it is due (10 ms) and the     *)
(* chassis update when it is due (5 ms), in this order; the chassis sees   *)
(* the legs only through the diagnostics of their last update.             *)
(***************************************************************************)
EXTENDS LegControl

VARIABLES
    phase,        \* what the pass runs next
    maintenance,  \* motion_router_diag.maintenance_mode
    emergency,    \* motion_router_diag.emergency_stop_latched
    enabled,      \* no safety fault so far (control_leg_run_enabled)
    request,      \* the request the router would apply
    active,       \* motion_router_output_active
    chassis,      \* control_chassis_cmd
    leg, diag,    \* the leg controller and control_leg_diag
    race          \* the race-assist supervisor

vars == <<phase, maintenance, emergency, enabled, request, active, chassis,
          leg, diag, race>>
gate == <<maintenance, emergency, enabled, request, active>>

\* The valid request of the first source that has one: it drives forward or
\* backward, or it only turns or stands. A second source's request, which a
\* withdrawal would uncover, is one that source submits anew.
Request == {"none", "stand", "forward"}

\* fast_enable, target_forward_rpm # 0, actual_forward_rpm # 0
Chassis == [fast: BOOLEAN, forward: BOOLEAN, ramped: BOOLEAN]

\* control_chassis_stop
Stopped == [fast |-> FALSE, forward |-> FALSE, ramped |-> FALSE]

\* Every state variable keeps to its values.
TypeOK ==
    /\ phase \in {"host", "leg", "chassis"}
    /\ maintenance \in BOOLEAN /\ emergency \in BOOLEAN /\ enabled \in BOOLEAN
    /\ request \in Request /\ active \in BOOLEAN
    /\ chassis \in Chassis
    /\ leg \in Leg /\ diag \in Diag
    /\ race \in Race

Init ==
    /\ phase = "host"
    /\ maintenance = FALSE /\ emergency = FALSE /\ enabled = TRUE
    /\ request = "none" /\ active = FALSE
    /\ chassis = Stopped
    /\ leg = LegInit /\ diag = DiagInit
    /\ race = RaceInit

-----------------------------------------------------------------------------
(* UART0 commands and the commands of CM7_1, any number in a pass.          *)

\* STOP
HostStop ==
    /\ phase = "host"
    /\ emergency' = TRUE
    /\ request' = "none" /\ active' = FALSE
    /\ chassis' = Stopped
    /\ race' = SetLevel(race, 0)
    /\ leg' = SetLock(leg)
    /\ UNCHANGED <<phase, maintenance, enabled, diag>>

\* ARM is refused under a safety fault.
HostArm ==
    /\ phase = "host"
    /\ enabled
    /\ emergency' = FALSE
    /\ active' = FALSE
    /\ chassis' = Stopped
    /\ UNCHANGED <<phase, maintenance, enabled, request, leg, diag, race>>

\* A mutant: the switch does not lock the legs.
HostMaintenance_NoLock ==
    /\ phase = "host"
    /\ maintenance' \in BOOLEAN
    /\ request' = "none" /\ active' = FALSE
    /\ chassis' = Stopped
    /\ UNCHANGED <<phase, emergency, enabled, leg, diag, race>>

\* MAINT,1 and MAINT,0
HostMaintenance ==
    /\ phase = "host"
    /\ maintenance' \in BOOLEAN
    /\ request' = "none" /\ active' = FALSE
    /\ chassis' = Stopped
    /\ leg' = SetLock(leg)
    /\ UNCHANGED <<phase, emergency, enabled, diag, race>>

\* B,0
HostBalanceOff ==
    /\ phase = "host"
    /\ request' = "none" /\ active' = FALSE
    /\ chassis' = Stopped
    /\ race' = SetLevel(race, 0)
    /\ UNCHANGED <<phase, maintenance, emergency, enabled, leg, diag>>

\* B,1 and B,2 leave fast mode and the race level, B,3 enters fast mode.
HostBalanceMode ==
    /\ phase = "host"
    /\ \E fast \in BOOLEAN :
           /\ chassis' = [chassis EXCEPT !.fast = fast]
           /\ race' = IF fast THEN race ELSE SetLevel(race, 0)
    /\ UNCHANGED <<phase, gate, leg, diag>>

\* C of the host, or a navigation or vision command of CM7_1, that the router
\* accepts.
Submit ==
    /\ phase = "host"
    /\ enabled /\ ~maintenance /\ ~emergency
    /\ request' \in {"stand", "forward"}
    /\ UNCHANGED <<phase, maintenance, emergency, enabled, active, chassis, leg,
                   diag, race>>

\* A command of CM7_1 that withdraws its request.
Withdraw ==
    /\ phase = "host"
    /\ enabled
    /\ request' = "none" /\ active' = FALSE
    /\ chassis' = IF active THEN Stopped ELSE chassis
    /\ UNCHANGED <<phase, maintenance, emergency, enabled, leg, diag, race>>

\* BRA,level: like every command below, only in maintenance mode.
HostRaceLevel ==
    /\ phase = "host"
    /\ maintenance
    /\ \E level \in 0 .. MaxLevel : race' = SetLevel(race, level)
    /\ UNCHANGED <<phase, gate, chassis, leg, diag>>

\* LH, LHF, LIK, LIKREF and LXY; LIKREF and LXY also cancel the UART request,
\* which maintenance mode has cleared already.
HostLeg ==
    /\ phase = "host"
    /\ maintenance
    /\ \E solves \in BOOLEAN :
           leg' \in {SetLegacy(leg), SetPose(leg, "fast"), SetPose(leg, "calib"),
                     SetReference(leg, solves), SetXY(leg, solves)}
    /\ UNCHANGED <<phase, gate, chassis, diag, race>>

-----------------------------------------------------------------------------
(* The rest of the pass.                                                   *)

\* A mutant: the policy does not look at the supervisor.
CanDrive_LegsOnly(d, r) ==
    /\ d.motion # "fault"
    /\ d.drive
    /\ d.motion \in {"race", "race_hold"} => d.path

\* control_chassis_resolve_leg_motion_policy: whether the forward limit is above 0
CanDrive(d, r) ==
    /\ d.motion # "fault"
    /\ d.drive
    /\ r.state # "fault_hold"
    /\ d.motion \in {"race", "race_hold"} => d.path

\* control_chassis_set_cmd
SetCmd(c, req) == [c EXCEPT !.forward = req = "forward" /\ CanDrive(diag, race)]

\* A mutant: maintenance mode does not stop the chassis.
MustStop_Maintained(on) == ~on \/ emergency

\* motion_command_router_update stops the chassis on every pass.
MustStop(on) == ~on \/ emergency \/ maintenance

\* app_safety_update, then motion_command_router_update with every stop and the
\* call of control_chassis_set_cmd.
Router ==
    /\ phase = "host"
    /\ phase' = "leg"
    /\ enabled' \in {enabled, FALSE}
    /\ IF MustStop(enabled')
           THEN /\ request' = "none" /\ active' = FALSE
                /\ chassis' = Stopped
           ELSE /\ request' \in {request, "none"}           \* it may expire
                /\ active' = (request' # "none")
                /\ chassis' = IF request' # "none"
                                  THEN SetCmd(chassis, request')
                              ELSE IF active THEN Stopped
                              ELSE chassis
    /\ UNCHANGED <<maintenance, emergency, leg, diag, race>>

LegDue ==
    /\ phase = "leg"
    /\ phase' = "chassis"
    /\ \E x \in UpdateInput(leg) :
           /\ leg' = LegUpdate(leg, x)
           /\ diag' = Published(diag, leg, LegUpdate(leg, x), x, enabled)
    /\ UNCHANGED <<gate, chassis, race>>

LegNotDue ==
    /\ phase = "leg"
    /\ phase' = "chassis"
    /\ UNCHANGED <<gate, chassis, leg, diag, race>>

\* The race_input of control_chassis_update
RaceInput(abort, healthy, speed) ==
    [abort |-> abort, healthy |-> healthy, fast |-> chassis.fast,
     ready |-> diag.ready, speed |-> speed, u |-> diag.u,
     pathFault |-> \/ diag.motion = "race_hold"
                   \/ diag.motion = "race" /\ ~diag.path]

\* The forward target and its ramp after the supervisor's decision: FAULT_HOLD
\* drops the target, RECENTER ramps to it whatever the leg policy says. "moving"
\* says that a ramp on its way to 0 is not there yet.
Driven(c, limited, state, moving) ==
    CASE state = "fault_hold" ->
             [c EXCEPT !.forward = FALSE, !.ramped = moving]
      [] state = "recenter" ->
             [c EXCEPT !.ramped = c.forward \/ moving]
      [] OTHER ->
             [c EXCEPT !.ramped = (c.forward /\ ~limited) \/ moving]

\* What becomes of a position the supervisor asks for: the path at this scale
\* does not solve, or the segment does not, or both do.
Outcome == {"no_path", "no_segment", "solved"}

\* control_chassis_update: the supervisor's decision becomes a request to the
\* legs, and a refused request a fault of the supervisor; an output that is not
\* finite ("broken") stops the chassis.
ChassisAt(speed) ==
    /\ phase = "chassis"
    /\ phase' = "host"
    /\ \E abort \in BOOLEAN, feedback \in {"healthy", "broken", "stale"} :
         LET in == RaceInput(abort, feedback # "stale", speed)
         IN  \E first \in RaceUpdates(race, in), outcome \in Outcome :
               LET path == outcome # "no_path"
                   solves == outcome = "solved"
               IN  /\ race' \in IF first.command /\ ~Accepts(leg, first.u, path, solves)
                                    THEN RaceUpdates(ReportPathFault(first), in)
                                    ELSE {first}
                   /\ leg' = IF first.command
                                 THEN Requested(leg, first.u, path, solves)
                             ELSE IF diag.motion = "race" /\ diag.u = 0
                                 THEN RaceDisabled(leg, solves)
                             ELSE leg
                   /\ diag' = [diag EXCEPT !.path =
                          @ /\ (leg'.motion = "race_hold" => leg.motion = "race_hold")]
                   /\ IF feedback = "broken"
                          THEN chassis' = Stopped
                          ELSE \E moving \in {FALSE, chassis.ramped} :
                                   chassis' = Driven(chassis, ~CanDrive(diag, race),
                                                     race'.state, moving)
    /\ UNCHANGED gate

ChassisDue == \E speed \in Speed : ChassisAt(speed)

ChassisNotDue ==
    /\ phase = "chassis"
    /\ phase' = "host"
    /\ UNCHANGED <<gate, chassis, leg, diag, race>>

\* The time of the running race segment is over.
SegmentElapses ==
    /\ leg.mode = "race" /\ ~leg.done
    /\ leg' = [leg EXCEPT !.done = TRUE]
    /\ UNCHANGED <<phase, gate, chassis, diag, race>>

Next ==
    \/ HostStop \/ HostArm \/ HostMaintenance \/ HostBalanceOff \/ HostBalanceMode
    \/ Submit \/ Withdraw \/ HostRaceLevel \/ HostLeg
    \/ Router \/ LegDue \/ LegNotDue \/ ChassisDue \/ ChassisNotDue
    \/ SegmentElapses

Spec == Init /\ [][Next]_vars

\* The main loop keeps running, the leg and chassis updates come due again and
\* again (app_task_elapsed), and time passes.
FairSpec ==
    /\ Spec
    /\ WF_vars(Router)
    /\ WF_vars(LegDue \/ LegNotDue) /\ SF_vars(LegDue)
    /\ WF_vars(ChassisDue \/ ChassisNotDue) /\ SF_vars(ChassisDue)
    /\ WF_vars(SegmentElapses)

-----------------------------------------------------------------------------
(* Properties.                                                             *)

\* Leg commands belong to maintenance mode: outside it the legs are locked,
\* whatever the host, the router, the race assist and a fault did before.
LockedOutsideMaintenance == ~maintenance => leg.mode = "lock"

\* With the maintenance gate as it is, race mode never leaves the low-race zero:
\* no interleaving of BRA, B,3, MAINT and the recentring of a disabled assist
\* lets the supervisor's position reach the servos.  This is what the code does
\* and not what its authors want: the hardware test of the race assist drives
\* at this zero and expects "u_actual follows its sign" (see CommandsDrive).
RaceKeepsZero ==
    leg.mode = "race" => leg.u = 0 /\ leg.goal = 0 /\ leg.pending \in {0, NoRequest}

\* A latched race-assist fault holds the legs and takes the forward target away,
\* also when the router applies a request again on later passes.
FaultHoldStops == race.latched => race.state = "fault_hold" /\ ~chassis.forward

\* A forward target lasts no longer than the output of the router that set it:
\* no withdrawal, stop or fault leaves one in the chassis for later.
TargetNeedsOutput ==
    chassis.forward => active /\ enabled /\ ~maintenance /\ ~emergency

\* "A valid LH command clears only the leg controller's soft fault" (control_leg.h),
\* and nothing else does: STOP, MAINT, the race assist and updates leave it.
SoftFaultNeedsLH ==
    [][leg.motion = "fault" /\ leg'.motion # "fault"
           => maintenance /\ leg'.mode = "legacy"]_vars

\* The forward ramp leaves 0 only under a leg policy that lets the car drive,
\* although RECENTER ramps without asking the policy again.
RampObeysPolicy == [][~chassis.ramped /\ chassis'.ramped => CanDrive(diag, race)]_vars

\* The legs the ramp starts on are locked already: the permission comes from
\* diagnostics published before MAINT,0 locked them, and no others give it.
RampNeedsStaleDiag ==
    [][~chassis.ramped /\ chassis'.ramped => leg.mode = "lock" /\ diag.motion # "locked"]_vars

\* RECENTER does not outlive a chassis update at low speed: the legs cannot be
\* away from the zero it waits for, so the assist is disabled, or it faulted.
SlowEndsRecenter == [][race'.state = "recenter" => ~ChassisAt("slow")]_vars

\* The control foundation's plan: "ARM permits a fresh C.", with "the existing
\* safe all-90-degree/locked-leg reference and low-speed chassis limits". A
\* forward request that stays fresh, with no host command that stops it, drives.
\* So does the hardware test of the race assist: "C,250,0; 230--250 RPM dwell".
CommandsDrive ==
    /\ <>[](request = "forward" /\ ~maintenance /\ ~emergency /\ enabled)
    /\ <>[][UNCHANGED gate]_vars
    => []<>chassis.ramped
=============================================================================
