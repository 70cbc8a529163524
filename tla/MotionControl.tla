---------------------------- MODULE MotionControl ----------------------------
(***************************************************************************)
(* Who may move the car: the CM7_0 main loop from the UART0 commands       *)
(* (host_command.c) over the safety monitor (app_safety.c) and the         *)
(* commands polled from CM7_1 (intercore_control.c) to the arbitration of  *)
(* motion_command_router.c, which alone enables the chassis controller.    *)
(*                                                                         *)
(* A pass of app_scheduler_run_pending is a sequence of phases; CM7_1      *)
(* publishes in between, or is reset.  The snapshot channel is reduced to  *)
(* what LatestOrAbandoned, which SnapshotTransport implements, lets the    *)
(* next poll return.  Behind the router the chassis controller may still   *)
(* stop the chassis on its own.                                            *)
(*                                                                         *)
(* Times are remaining validities in ticks; the velocities of a command    *)
(* are left out, inLimits stands for every check of its fields.  The       *)
(* counter host_motion_sequence grows with every C command, so UART        *)
(* requests are never stale and carry no number here.                      *)
(***************************************************************************)
EXTENDS Integers

CONSTANTS
    Source,          \* the navigation sources CM7_1 publishes for
    RemoteValid,     \* the values of valid_for_ms CM7_1 sends, in ticks
    UartValid,       \* APP_UART_LOCAL_COMMAND_VALID_MS, in ticks
    MaxGap,          \* the longest gap between two passes, in ticks
    MaxSequence      \* bound: source_sequence values of one source

ASSUME MotionAssumption ==
    /\ Source \subseteq {"wireless", "vision", "waypoint"}
    /\ RemoteValid \subseteq Nat \ {0}
    /\ UartValid \in Nat \ {0}
    /\ MaxGap \in Nat \ {0}
    /\ MaxSequence \in Nat

RemoteSlot == {"autonomous", "wireless"}
Slot       == RemoteSlot \cup {"uart"}

\* intercore_map_source
MapSource(source) == IF source = "wireless" THEN "wireless" ELSE "autonomous"

Command == [source : Source, seq : 1..MaxSequence, enable : BOOLEAN,
            valid : RemoteValid, inLimits : BOOLEAN]

\* The freshness test both layers apply: anything is newer than nothing.
Newer(seq, last) == last = 0 \/ seq > last

VARIABLES
    \* the navigation channel and its publisher
    offered,       \* the commands the next poll may return, {} once it has
    remnant,       \* a reset left a command behind under the next number
    published,     \* per source: the last source_sequence of CM7_1
    \* main loop of CM7_0
    phase,
    fault,         \* app_safety_fault
    \* intercore_control.c
    lastSource,    \* intercore_last_source_sequence
    \* motion_command_router.c
    left,          \* per slot: remaining validity, 0 for an invalid slot
    lastSlot,      \* per slot: last_sequence
    armed,         \* remote_armed
    maintenance,   \* maintenance_mode
    estop,         \* emergency_stop_latched
    routerFault,   \* motion_router_safety_fault, as of the last pass
    active,        \* active_source
    output,        \* motion_router_output_active
    \* control_chassis.c
    chassis,       \* control_chassis_cmd.enable
    \* history
    old,           \* per slot: its request is older than the last halt
    unarmed        \* the events no successful ARM has followed yet

linkVars    == <<offered, remnant>>
sourceVars  == <<linkVars, published>>
gateVars    == <<armed, maintenance, estop, routerFault>>
outputVars  == <<active, output, chassis>>
slotVars    == <<left, lastSlot, old>>
vars == <<sourceVars, phase, fault, lastSource, slotVars, gateVars,
          outputVars, unarmed>>

Valid(s) == left[s] > 0

Init ==
    /\ offered = {} /\ remnant = FALSE
    /\ published = [s \in Source |-> 0]
    /\ phase = "idle" /\ fault = FALSE
    /\ lastSource = [s \in Source |-> 0]
    /\ left = [s \in Slot |-> 0]
    /\ lastSlot = [s \in Slot |-> 0]
    /\ armed = FALSE /\ maintenance = FALSE /\ estop = FALSE
    /\ routerFault = FALSE
    /\ active = "none" /\ output = FALSE /\ chassis = FALSE
    /\ old = [s \in Slot |-> FALSE]
    /\ unarmed = {}

-----------------------------------------------------------------------------
(* The helpers of motion_command_router.c.                                 *)

ClearSlots == left' = [s \in Slot |-> 0]

\* motion_router_stop, with control_chassis_stop behind the port.
Stop == active' = "none" /\ output' = FALSE /\ chassis' = FALSE

\* motion_command_router_cancel_source
Cancel(s) ==
    /\ left' = [left EXCEPT ![s] = 0]
    /\ IF active = s /\ output THEN Stop ELSE UNCHANGED outputVars

\* Variant: remote requests are admitted without arming.
Admits_Unarmed(s, seq) ==
    /\ ~ routerFault
    /\ ~ maintenance
    /\ ~ estop
    /\ s # "uart" => Newer(seq, lastSlot[s])

\* motion_command_router_submit of an enabled request the validity checks let
\* through: what it takes to be accepted.
Admits(s, seq) ==
    /\ ~ routerFault
    /\ ~ maintenance
    /\ ~ estop
    /\ s # "uart" => armed /\ Newer(seq, lastSlot[s])

Halted == old' = [s \in Slot |-> TRUE]

-----------------------------------------------------------------------------
(* CM7_1.                                                                  *)

\* A navigation command is numbered and published.  A command that a reset
\* left behind under the same transport number may be read in its place;
\* which one that is, is left open.
Publish(c) ==
    /\ c.seq = published[c.source] + 1
    /\ published' = [published EXCEPT ![c.source] = c.seq]
    /\ offered' = IF remnant THEN Command ELSE {c}
    /\ remnant' = FALSE
    /\ UNCHANGED <<phase, fault, lastSource, slotVars, gateVars, outputVars,
                   unarmed>>

\* CM7_1 is reset, possibly in the middle of a publish: its command counters
\* restart, the boot epoch, which CM7_0 owns, does not change.
Restart1 ==
    /\ published' = [s \in Source |-> 0]
    /\ remnant' \in {remnant, TRUE}
    /\ unarmed' = unarmed \cup {"restart"}
    /\ UNCHANGED <<offered, phase, fault, lastSource, slotVars, gateVars,
                   outputVars>>

-----------------------------------------------------------------------------
(* One pass of the main loop.                                              *)

\* Variant: the age of a request is never counted.
Remaining_Ageless(l, gap) == l

\* Age and expiry of a request.  The router tests it at the end of the pass;
\* nothing reads an expired slot before.
Remaining(l, gap) == IF l > gap THEN l - gap ELSE 0

\* The tick snapshot at the head of app_scheduler_run_pending.
BeginPass(gap) ==
    /\ phase = "idle"
    /\ phase' = "host"
    /\ left' = [s \in Slot |-> Remaining(left[s], gap)]
    /\ UNCHANGED <<sourceVars, fault, lastSource, lastSlot, old, gateVars,
                   outputVars, unarmed>>

hostFrame == <<sourceVars, phase, fault, lastSource, lastSlot, routerFault>>

\* Variant: the latch is set and the requests stay in their slots.
HostStop_KeepsSlots ==
    /\ phase = "host"
    /\ estop' = TRUE /\ armed' = FALSE
    /\ Stop /\ Halted
    /\ UNCHANGED <<hostFrame, maintenance, unarmed, left>>

\* STOP: motion_command_router_latch_emergency_stop, chassis stop.
HostStop ==
    /\ phase = "host"
    /\ estop' = TRUE /\ armed' = FALSE
    /\ ClearSlots /\ Stop /\ Halted
    /\ UNCHANGED <<hostFrame, maintenance, unarmed>>

\* ARM: motion_command_router_clear_emergency_stop stops the chassis and
\* clears the latch before motion_command_router_arm_remote can refuse.  On a
\* safety fault, of the monitor or as the router saw it, nothing changes.
HostArm ==
    /\ phase = "host"
    /\ ~ fault /\ ~ routerFault
    /\ estop' = FALSE
    /\ Stop
    /\ armed' = (armed \/ ~ maintenance)
    /\ unarmed' = IF maintenance THEN unarmed ELSE {}
    /\ UNCHANGED <<hostFrame, maintenance, left, old>>

\* Variant: the chassis is left to the router at the end of the pass.
HostMaintenance_NoStop(enabled) ==
    /\ phase = "host"
    /\ maintenance' = enabled /\ armed' = FALSE
    /\ ClearSlots /\ Halted
    /\ unarmed' = IF enabled THEN unarmed \cup {"maintenance"} ELSE unarmed
    /\ UNCHANGED <<hostFrame, estop, outputVars>>

\* MAINT,0 and MAINT,1: motion_command_router_set_maintenance.
HostMaintenance(enabled) ==
    /\ phase = "host"
    /\ maintenance' = enabled /\ armed' = FALSE
    /\ ClearSlots /\ Stop /\ Halted
    /\ unarmed' = IF enabled THEN unarmed \cup {"maintenance"} ELSE unarmed
    /\ UNCHANGED <<hostFrame, estop>>

\* Variant: the record of the output is dropped with the requests, before it
\* could tell the router to stop the chassis.
HostBalanceOff_DropsRecord ==
    /\ phase = "host"
    /\ ClearSlots /\ Halted
    /\ active' = "none" /\ output' = FALSE
    /\ UNCHANGED <<hostFrame, armed, maintenance, estop, unarmed, chassis>>

\* B,0: chassis stop and every source cancelled.
HostBalanceOff ==
    /\ phase = "host"
    /\ ClearSlots /\ Halted
    /\ chassis' = FALSE
    /\ IF output THEN active' = "none" /\ output' = FALSE
                 ELSE UNCHANGED <<active, output>>
    /\ UNCHANGED <<hostFrame, armed, maintenance, estop, unarmed>>

\* C: a request of the local UART.
HostMotion ==
    /\ phase = "host"
    /\ Admits("uart", 1)
    /\ left' = [left EXCEPT !["uart"] = UartValid]
    /\ old' = [old EXCEPT !["uart"] = FALSE]
    /\ UNCHANGED <<hostFrame, armed, maintenance, estop, outputVars, unarmed>>

HostDone ==
    /\ phase = "host"
    /\ phase' = "safety"
    /\ UNCHANGED <<sourceVars, fault, lastSource, slotVars, gateVars,
                   outputVars, unarmed>>

\* app_safety_update: a fault, once seen, stays until the next boot.
Safety(bad) ==
    /\ phase = "safety"
    /\ fault' = (fault \/ bad)
    /\ phase' = "poll"
    /\ UNCHANGED <<sourceVars, lastSource, slotVars, gateVars, outputVars,
                   unarmed>>

\* intercore_control_update without a new record, or with a read that a
\* publish of CM7_1 crosses: the transport then reports no record.
PollNothing ==
    /\ phase = "poll"
    /\ phase' = "route"
    /\ UNCHANGED <<sourceVars, fault, lastSource, slotVars, gateVars,
                   outputVars, unarmed>>

pollFrame == <<published, fault, gateVars, unarmed>>

\* The poll returns c, whose transport number is used up.
Take(c) ==
    /\ c \in offered
    /\ offered' = {}
    /\ UNCHANGED remnant

\* A record intercore_control_accept_navigation accepts.
Acceptable(c) == c.inLimits /\ Newer(c.seq, lastSource[c.source])

PollCancel(c) ==
    /\ phase = "poll" /\ phase' = "route"
    /\ Take(c)
    /\ Acceptable(c) /\ ~ c.enable
    /\ Cancel(MapSource(c.source))
    /\ lastSource' = [lastSource EXCEPT ![c.source] = c.seq]
    /\ UNCHANGED <<pollFrame, lastSlot, old>>

PollAccept(c) ==
    /\ phase = "poll" /\ phase' = "route"
    /\ Take(c)
    /\ Acceptable(c) /\ c.enable
    /\ LET s == MapSource(c.source) IN
        /\ Admits(s, c.seq)
        /\ left' = [left EXCEPT ![s] = c.valid]
        /\ lastSlot' = [lastSlot EXCEPT ![s] = c.seq]
        /\ old' = [old EXCEPT ![s] = FALSE]
    /\ lastSource' = [lastSource EXCEPT ![c.source] = c.seq]
    /\ UNCHANGED <<pollFrame, outputVars>>

PollReject(c) ==
    /\ phase = "poll" /\ phase' = "route"
    /\ Take(c)
    /\ \/ ~ Acceptable(c)
       \/ c.enable /\ ~ Admits(MapSource(c.source), c.seq)
    /\ UNCHANGED <<pollFrame, lastSource, slotVars, outputVars>>

\* motion_command_router_update, by the branch it takes.
routeFrame == <<sourceVars, fault, lastSource, lastSlot, maintenance, estop,
                unarmed>>

RouteFault ==
    /\ phase = "route" /\ phase' = "update"
    /\ fault
    /\ routerFault' = TRUE /\ armed' = FALSE
    /\ ClearSlots /\ Stop /\ Halted
    /\ UNCHANGED routeFrame

RouteHalted ==
    /\ phase = "route" /\ phase' = "update"
    /\ ~ fault
    /\ estop \/ maintenance
    /\ routerFault' = FALSE
    /\ IF estop THEN UNCHANGED left ELSE ClearSlots
    /\ Stop
    /\ UNCHANGED <<routeFrame, armed, old>>

\* UART before wireless before autonomous.
Selected ==
    IF Valid("uart") THEN "uart"
    ELSE IF Valid("wireless") THEN "wireless" ELSE "autonomous"

RouteApply ==
    /\ phase = "route" /\ phase' = "update"
    /\ ~ fault /\ ~ estop /\ ~ maintenance
    /\ Valid(Selected)
    /\ routerFault' = FALSE
    /\ active' = Selected /\ output' = TRUE /\ chassis' = TRUE
    /\ UNCHANGED <<routeFrame, armed, left, old>>

RouteStale ==
    /\ phase = "route" /\ phase' = "update"
    /\ ~ fault /\ ~ estop /\ ~ maintenance
    /\ \A s \in Slot : ~ Valid(s)
    /\ routerFault' = FALSE
    /\ active' = "none" /\ output' = FALSE
    /\ chassis' = (chassis /\ ~ output)
    /\ UNCHANGED <<routeFrame, armed, left, old>>

\* control_chassis_update, where it is due: it stops the chassis without the
\* router when a measurement or a result is not finite.
ChassisUpdate(finite) ==
    /\ phase = "update" /\ phase' = "idle"
    /\ chassis' = (chassis /\ finite)
    /\ UNCHANGED <<routeFrame, gateVars, left, old, active, output>>

-----------------------------------------------------------------------------
SendCommand == HostMotion \/ \E c \in Command : Publish(c)

HostCommand ==
    \/ HostStop
    \/ HostArm
    \/ \E enabled \in BOOLEAN : HostMaintenance(enabled)
    \/ HostBalanceOff

Pass ==
    \/ \E gap \in 1..MaxGap : BeginPass(gap)
    \/ HostDone
    \/ \E bad \in BOOLEAN : Safety(bad)
    \/ PollNothing
    \/ \E c \in offered : PollCancel(c) \/ PollAccept(c) \/ PollReject(c)
    \/ RouteFault
    \/ RouteHalted
    \/ RouteApply
    \/ RouteStale
    \/ \E finite \in BOOLEAN : ChassisUpdate(finite)

Next == SendCommand \/ HostCommand \/ Restart1 \/ Pass

Spec == Init /\ [][Next]_vars

\* The tick interrupt keeps the main loop running.
FairSpec == Spec /\ WF_vars(Pass)

-----------------------------------------------------------------------------
(* Properties.                                                             *)

\* Every variable has its type.
TypeOK ==
    /\ offered \subseteq Command
    /\ remnant \in BOOLEAN
    /\ published \in [Source -> 0..MaxSequence]
    /\ phase \in {"idle", "host", "safety", "poll", "route", "update"}
    /\ fault \in BOOLEAN
    /\ lastSource \in [Source -> 0..MaxSequence]
    /\ left \in [Slot -> Nat]
    /\ lastSlot \in [Slot -> 0..MaxSequence]
    /\ armed \in BOOLEAN /\ maintenance \in BOOLEAN /\ estop \in BOOLEAN
    /\ routerFault \in BOOLEAN
    /\ active \in Slot \cup {"none"}
    /\ output \in BOOLEAN /\ chassis \in BOOLEAN
    /\ old \in [Slot -> BOOLEAN]
    /\ unarmed \subseteq {"restart", "maintenance"}

\* The router has run; the controllers act on what it left until the next
\* pass.
Routed == phase \in {"update", "idle"}

\* The chassis controller is not enabled under an emergency stop or in
\* maintenance mode at any point of the loop, nor behind the router in a pass
\* that saw a safety fault, whatever commands were queued for the same pass.
\* (M and D, which set the wheels directly in maintenance mode, do not go
\* through the chassis controller.)
HaltedNeverMoves ==
    /\ (estop \/ maintenance) => ~ chassis
    /\ Routed /\ fault => ~ chassis

\* When the controllers run, after the router, the chassis is enabled only
\* for a source whose request has not expired and is not overruled by one of
\* higher priority, and a remote source only moves an armed car.
MotionIsAuthorised ==
    Routed /\ chassis =>
        /\ active # "none" /\ Valid(active)
        /\ active = Selected
        /\ active # "uart" => armed

\* A request accepted before a STOP, a B,0, a maintenance switch or a safety
\* fault never moves the car after it.
NoRequestResumes == Routed /\ chassis => ~ old[active]

\* The router never loses an enabled chassis: whatever ends a request on any
\* path stops the chassis or leaves the output marked active, so an expiry
\* finds what it has to stop.  (The converse fails: on a measurement that is
\* not finite the chassis stops and the router goes on counting its output as
\* active.)
EnabledIsKnown == chassis => output /\ active # "none"

\* Once both UART0 and CM7_1 fall silent the car stops, by expiry alone.
SilenceStops == <>[][~ SendCommand]_vars => <>[](~ chassis)

\* Stated by the design documents, and not what the code does: after maintenance
\* mode no source moves the car, and after a restart of CM7_1 no remote source,
\* before the next successful ARM.
ArmIsRequiredAgain ==
    /\ chassis => "maintenance" \notin unarmed
    /\ Routed /\ chassis /\ active # "uart" => "restart" \notin unarmed
=============================================================================
