---------------------------- MODULE ServoFrames ----------------------------
(***************************************************************************)
(* The servo driver of CM7_0 (actuator_servo.c, servo_motion.c) between    *)
(* the main loop, which publishes commands (control_leg.c) and disables    *)
(* the servos at a fault (app_safety.c), and the 300 Hz interrupt, which   *)
(* steps every servo toward the active one of two frames and may come      *)
(* between any two stores outside a critical section.                      *)
(*                                                                         *)
(* Angles are points of a grid, an error within SettleError counts as      *)
(* none.  A tick moves the low-pass filter any way toward its target.  All *)
(* servos are active and valid, so one enable flag is chosen for all; the  *)
(* pulse of an angle is the angle, no pulse is Dark.                       *)
(***************************************************************************)
EXTENDS Integers

CONSTANTS
    Servo,
    MaxAngle,       \* APP_SERVO_MAX_DEG, in steps of the grid
    Pose,           \* the poses the leg controller commands
    MaxStep,        \* per mode: the angle a servo may move in a tick
    SettleError,    \* APP_SERVO_SETTLE_ERROR_DEG
    SettleTicks,    \* APP_SERVO_SETTLE_TICKS
    SettleUpdates,  \* legacy_settle_ms, in updates of the leg controller
    Hold,           \* ticks in an update period: a frame active for fewer is short
    MaxShort        \* short frames that may follow each other

Angle == 0..MaxAngle
Mode  == {"normal", "fast", "direct"}

ASSUME ServoAssumption ==
    /\ "mode" \notin Servo /\ MaxAngle \in Nat
    /\ Pose \subseteq [Servo -> Angle] /\ Pose # {}
    /\ MaxStep \in [Mode -> Nat \ {0}]
    /\ SettleError \in Nat /\ SettleTicks \in Nat \ {0}
    /\ SettleUpdates \in Nat
    /\ Hold \in Nat \ {0} /\ MaxShort \in Nat

\* A servo that is chased by a slower filter takes a settling error in a tick
\* and leaves the band around a pose within a period; settling takes longer
\* than the short frames in a row (3 ticks of 0.3 degrees, 0.2 degrees, 30
\* ticks, two short frames).
ASSUME SettlingAssumption ==
    /\ \A m \in Mode : /\ SettleError <= MaxStep[m]
                       /\ 2 * SettleError < (Hold - 1) * MaxStep[m]
    /\ (MaxShort + 2) * (Hold - 1) < SettleTicks

Dark == -1

Index == {0, 1}
Frame == [angle : [Servo -> Angle], enable : [Servo -> BOOLEAN], mode : Mode]

VARIABLES
    \* the frames
    frame,      \* actuator_servo_frame
    active,     \* actuator_servo_active_frame
    \* the servos, stepped by the interrupt
    target, filtered, output, ticks,   \* actuator_servo_motion
    duty,                              \* the compare registers
    diagOutput, diagSettled,           \* actuator_servo_diag
    \* the main loop
    pc,
    todo,       \* stores of the frame a publish has still to make
    fault,      \* app_safety_fault
    seen,       \* control_leg_actuator_diag
    order,      \* control_leg_servo_cmd and its mode; planned: the trajectory is
                \* at its target; timed: LEG_MODE_LEGACY_STANCE
    waited,     \* updates since control_leg_settle_start_ms, up to SettleUpdates
    stable,     \* LEG_MOTION_STABLE
    \* history
    held,       \* interrupts since the last publish, up to Hold
    short,      \* short frames in a row before the active one
    issued      \* what the last publish or disable handed over

frameVars  == <<frame, active>>
motionVars == <<target, filtered, output, ticks, duty>>
diagVars   == <<diagOutput, diagSettled>>
legVars    == <<seen, order, waited, stable>>
scheduleVars == <<held, short>>
vars == <<frameVars, motionVars, diagVars, pc, todo, fault, legVars,
          scheduleVars, issued>>

All(x) == [s \in Servo |-> x]

Off(pose) == [angle |-> pose, enable |-> All(FALSE), mode |-> "normal"]

\* The copy of the diagnosis is dead until the next update makes a new one.
Unseen == [output |-> All(0), settled |-> FALSE]

Init ==
    \E mid \in Pose :
        /\ frame = [i \in Index |-> Off(mid)] /\ active = 0
        /\ target = mid /\ filtered = mid /\ output = mid /\ ticks = All(0)
        /\ duty = All(Dark)
        /\ diagOutput = mid /\ diagSettled = FALSE
        /\ pc = "idle" /\ todo = {} /\ fault = FALSE
        /\ seen = Unseen
        /\ order = [pose |-> mid, mode |-> "normal", enable |-> FALSE,
                    planned |-> FALSE, timed |-> FALSE]
        /\ waited = 0 /\ stable = FALSE /\ held = 0 /\ short = 0 /\ issued = Off(mid)

-----------------------------------------------------------------------------
(* The interrupt: actuator_servo_tick_300hz.                               *)

Between(x, a, b) == (a <= x /\ x <= b) \/ (b <= x /\ x <= a)

Distance(a, b) == IF a < b THEN b - a ELSE a - b

\* servo_motion_clamp of the difference, added to the output.
Stepped(from, to, step) ==
    IF Distance(from, to) <= step THEN to
    ELSE IF from < to THEN from + step ELSE from - step

\* servo_motion_step for the enabled servos; a disabled one holds its output,
\* which filter and target are aligned to.
Tick ==
    LET f == frame[active]
        on(s) == f.enable[s]
        near(s) == Distance(f.angle[s], output'[s]) <= SettleError
    IN  /\ \E filter \in [Servo -> Angle] :
              /\ \A s \in Servo :
                     IF on(s) THEN Between(filter[s], filtered[s], f.angle[s])
                     ELSE filter[s] = output[s]
              /\ filtered' = filter
        /\ target' = [s \in Servo |-> IF on(s) THEN f.angle[s] ELSE output[s]]
        /\ output' = [s \in Servo |->
               IF on(s) THEN Stepped(output[s], filtered'[s], MaxStep[f.mode])
               ELSE output[s]]
        /\ ticks' = [s \in Servo |->
               IF ~ (on(s) /\ near(s)) THEN 0
               ELSE IF ticks[s] < SettleTicks THEN ticks[s] + 1 ELSE ticks[s]]
        /\ duty' = [s \in Servo |-> IF on(s) THEN output'[s] ELSE Dark]
        /\ diagOutput' = output'
        /\ diagSettled' = \A s \in Servo : on(s) => ticks'[s] = SettleTicks
        /\ held' = IF held < Hold THEN held + 1 ELSE held
        /\ UNCHANGED <<frameVars, pc, todo, fault, legVars, short, issued>>

-----------------------------------------------------------------------------
(* The main loop: app_safety_force_fault.                                  *)

\* Variant: a publish prepares the frame the interrupt reads.
Inactive_Active == active

Inactive == 1 - active

Fault ==
    /\ pc = "idle" /\ ~ fault
    /\ fault' = TRUE /\ pc' = "disable"
    /\ UNCHANGED <<frameVars, motionVars, diagVars, todo, legVars, scheduleVars,
                   issued>>

\* Variant: the channels are zeroed before the critical section.
Disable_ZeroFirst ==
    /\ pc \in {"disable", "zeroed"}
    /\ IF pc = "disable"
       THEN pc' = "zeroed" /\ duty' = All(Dark) /\ UNCHANGED <<frameVars, issued>>
       ELSE /\ pc' = "idle" /\ UNCHANGED duty
            /\ frame' = [frame EXCEPT ![Inactive].enable = All(FALSE)]
            /\ active' = Inactive
            /\ issued' = frame'[active']
    /\ UNCHANGED <<target, filtered, output, ticks, diagVars, todo, fault,
                   legVars, scheduleVars>>

\* actuator_servo_disable, in one critical section.
Disable ==
    /\ pc = "disable" /\ pc' = "idle"
    /\ frame' = [frame EXCEPT ![Inactive].enable = All(FALSE)]
    /\ active' = Inactive
    /\ duty' = All(Dark)
    /\ issued' = frame'[active']
    /\ UNCHANGED <<target, filtered, output, ticks, diagVars, todo, fault,
                   legVars, scheduleVars>>

-----------------------------------------------------------------------------
(* The main loop: control_leg_update and actuator_servo_publish_cmd.       *)

\* The update reads the diagnosis first.  Updates are 10 ms apart, interrupts
\* 3.3 ms: with the publish in the first 5 ms of its pass one comes before the
\* next update.
LegBegin ==
    /\ pc = "idle" /\ held > 0
    /\ seen' = [output |-> diagOutput, settled |-> diagSettled]
    /\ pc' = "decide"
    /\ UNCHANGED <<frameVars, motionVars, diagVars, todo, fault, order, waited,
                   stable, scheduleVars, issued>>

\* Variant: the driver's settled flag decides alone.
CanStabilize_Settled(o, complete) == complete /\ seen.settled

\* control_leg_motion_can_stabilize
CanStabilize(o, complete) ==
    /\ complete /\ seen.settled
    /\ \A s \in Servo : Distance(o.pose[s], seen.output[s]) <= SettleError

\* The settle time of the legacy stance.  It starts anew when the stance is
\* entered, while the trajectory is under way, and also after every update that
\* declared the legs stable; no other mode reads it.
Waited(o) ==
    IF o.timed /\ order.timed /\ o.planned /\ ~ stable
    THEN IF waited < SettleUpdates THEN waited + 1 ELSE waited
    ELSE 0

\* planner_complete: the other planners ask for the end of the trajectory only.
Complete(o) == o.planned /\ (o.timed => Waited(o) = SettleUpdates)

\* A direct stance has no planner that could be at its end.
Orders ==
    {o \in [pose : Pose, mode : Mode, enable : {~ fault}, planned : BOOLEAN,
            timed : BOOLEAN] :
        /\ o.planned => o.mode # "direct"
        /\ o.timed => o.mode = "normal"}

\* Whatever the host and the planner make of the command; the servos are
\* enabled by control_leg_run_enabled.
Decide(o) ==
    /\ pc = "decide" /\ pc' = "store"
    /\ order' = o /\ waited' = Waited(o)
    /\ stable' = CanStabilize(o, Complete(o))
    /\ seen' = Unseen
    /\ todo' = Servo \cup {"mode"}
    /\ UNCHANGED <<frameVars, motionVars, diagVars, fault, scheduleVars, issued>>

StoreServo(s) ==
    /\ pc = "store" /\ s \in todo
    /\ todo' = todo \ {s}
    /\ frame' = [frame EXCEPT ![Inactive].angle[s] = order.pose[s],
                              ![Inactive].enable[s] = order.enable]
    /\ UNCHANGED <<active, motionVars, diagVars, pc, fault, legVars, scheduleVars,
                   issued>>

\* The speed limit and the bypass.
StoreMode ==
    /\ pc = "store" /\ todo = {"mode"}
    /\ todo' = {}
    /\ frame' = [frame EXCEPT ![Inactive].mode = order.mode]
    /\ UNCHANGED <<active, motionVars, diagVars, pc, fault, legVars, scheduleVars,
                   issued>>

\* The critical section of a publish makes the stored frame the active one.  By
\* the same timing few frames in a row are short.
Handover ==
    /\ pc = "store" /\ todo = {} /\ pc' = "idle"
    /\ held < Hold => short < MaxShort
    /\ active' = Inactive /\ issued' = frame[active']
    /\ held' = 0 /\ short' = IF held < Hold THEN short + 1 ELSE 0
    /\ UNCHANGED <<frame, diagVars, todo, fault, legVars>>

\* Variant: the new command starts the count of settled ticks again.
Switch_Recounts ==
    /\ Handover /\ order.mode # "direct"
    /\ ticks' = All(0)
    /\ UNCHANGED <<target, filtered, output, duty>>

\* A planned command.
Switch ==
    /\ Handover /\ order.mode # "direct"
    /\ UNCHANGED motionVars

\* A direct one: servo_motion_apply_immediate for all, a pulse for the enabled.
SwitchDirect ==
    /\ Handover /\ order.mode = "direct"
    /\ target' = issued'.angle /\ filtered' = issued'.angle
    /\ output' = issued'.angle /\ ticks' = All(0)
    /\ duty' = [s \in Servo |-> IF issued'.enable[s] THEN output'[s] ELSE duty[s]]

-----------------------------------------------------------------------------
Publish == (\E s \in Servo : StoreServo(s)) \/ StoreMode \/ Switch \/ SwitchDirect

LegUpdate ==
    \/ LegBegin
    \/ pc = "decide" /\ \E o \in Orders : Decide(o)
    \/ Publish

Next == Tick \/ Fault \/ Disable \/ LegUpdate

Spec == Init /\ [][Next]_vars

\* A tick whose filter gets ahead, unless it has arrived.
Advance ==
    /\ Tick
    /\ \A s \in Servo : frame[active].enable[s] =>
           filtered'[s] # filtered[s] \/ filtered[s] = frame[active].angle[s]

\* The timer goes on, the filter converges as its factor is above 0, and the
\* main loop gets on although ticks suspend it: each of its steps moves pc or
\* todo.
Fairness == WF_vars(Advance) /\ WF_<<pc, todo>>(Disable \/ LegUpdate)

FairSpec == Spec /\ Fairness

-----------------------------------------------------------------------------
(* Properties.                                                             *)

\* Every variable has its type.
TypeOK ==
    /\ frame \in [Index -> Frame] /\ active \in Index
    /\ target \in [Servo -> Angle] /\ filtered \in [Servo -> Angle]
    /\ output \in [Servo -> Angle] /\ ticks \in [Servo -> 0..SettleTicks]
    /\ duty \in [Servo -> Angle \cup {Dark}]
    /\ diagOutput \in [Servo -> Angle] /\ diagSettled \in BOOLEAN
    /\ pc \in {"idle", "disable", "decide", "store"}
    /\ todo \subseteq Servo \cup {"mode"}
    /\ fault \in BOOLEAN
    /\ seen \in [output : [Servo -> Angle], settled : BOOLEAN]
    /\ order \in [pose : Pose, mode : Mode, enable : BOOLEAN, planned : BOOLEAN,
                  timed : BOOLEAN]
    /\ waited \in 0..SettleUpdates
    /\ stable \in BOOLEAN /\ issued \in Frame
    /\ held \in 0..Hold /\ short \in Nat

\* Wherever the interrupt comes it finds one command whole: the pose, the
\* enable flags and the speed one publish or disable handed over, and no
\* servo of a new command beside one of an old.
FramesAreWhole ==
    /\ frame[active] = issued
    /\ issued.angle \in Pose
    /\ \A s, t \in Servo : issued.enable[s] = issued.enable[t]

\* Once a fault has disabled the servos no pulse is ever sent again, whatever
\* the leg controller goes on to publish and also by a direct stance.
DarkAfterFault == fault /\ pc # "disable" => duty = All(Dark)

\* While the legs are declared stable every servo is at the commanded pose, to
\* the settling error the driver saw and the one it may still move in: neither
\* the settled flag of an older command nor an old diagnosis says so, also not
\* of a servo that passes through the pose on its way to an older one.
StableMeansArrived ==
    stable => \A s \in Servo :
                  Distance(order.pose[s], output[s]) <= 2 * SettleError

Kept(p, timed) ==
    /\ order.pose = p /\ order.planned /\ order.timed = timed
    /\ ~ fault

\* A pose that is planned to its end and kept becomes stable, although every
\* update publishes it anew, and stays so.  In the legacy stance, where STABLE
\* starts the settle time again, it becomes stable time and again; it does not
\* stay so.
KeptPoseSettles ==
    \A p \in Pose : /\ <>[]Kept(p, FALSE) => <>[]stable
                    /\ <>[]Kept(p, TRUE) => []<>stable
=============================================================================
