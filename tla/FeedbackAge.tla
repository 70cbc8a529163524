----------------------------- MODULE FeedbackAge -----------------------------
(***************************************************************************)
(* How old the feedback is that the control loop of CM7_0 acts on.  The    *)
(* interrupts of the millisecond tick, of the IMU (sensor_imu_int1_isr)    *)
(* and of the motor board (bldc_foc_uart_rx_isr) stamp what they receive   *)
(* with the running clock, while a pass of app_scheduler_run_pending       *)
(* compares the stamps with the now_ms it read when it began.              *)
(*                                                                         *)
(* Stamps and now_ms are kept as ages, in milliseconds before the clock,   *)
(* and an age beyond every timeout is as good as any older one, so time    *)
(* itself is not bounded.  The differences the code takes are unsigned of  *)
(* Word values.  Host commands, the router, the legs and the values of the *)
(* feedback are left out or are choices.                                   *)
(***************************************************************************)
EXTENDS Integers

CONSTANTS
    ImuTimeout,     \* APP_IMU_STALE_TIMEOUT_MS
    ImuMaxAge,      \* APP_BALANCE_IMU_MAX_AGE_MS, APP_CHASSIS_IMU_MAX_AGE_MS
    WheelTimeout,   \* APP_BLDC_FEEDBACK_TIMEOUT_MS
    WheelMaxAge,    \* APP_CHASSIS_WHEEL_MAX_AGE_MS
    MaxGap,         \* bound: milliseconds from one now_ms to the next
    Word            \* 2^32

Old == ImuTimeout + WheelTimeout + MaxGap + 1

\* The main loop is never held up for as long as a timeout.
FeedbackAssumption ==
    /\ ImuMaxAge \in Nat /\ ImuTimeout \in Nat /\ ImuMaxAge <= ImuTimeout
    /\ WheelMaxAge \in Nat /\ WheelTimeout \in Nat /\ WheelMaxAge <= WheelTimeout
    /\ MaxGap \in Nat \ {0} /\ MaxGap <= ImuTimeout
    /\ Word \in Nat /\ Old + MaxGap < Word

ASSUME FeedbackAssumption

VARIABLES
    pending,      \* app_scheduler_pending
    gap,          \* the clock less now_ms
    elapsed,      \* whether the clock moved since now_ms was read
    due,          \* whether it moved between the last two readings
    phase,        \* where the pass is
    ready,        \* sensor_imu_data_ready_flag
    readyAge,     \* of sensor_imu_data_ready_ms
    sampleAge,    \* of sensor_imu_state.timestamp_ms
    healthy,      \* sensor_imu_state.healthy
    staleActive,  \* imu_stale_active
    armed,        \* app_safety_armed
    fault,        \* app_safety_fault, and app_state is FAULT
    frameAge,     \* of bldc_foc_feedback.last_rx_ms
    framed,       \* bldc_foc_feedback.online
    online,       \* actuator_motor_feedback.online and its two sides
    wheelAge,     \* actuator_motor_feedback.age_ms
    enable,       \* actuator_motor_cmd.enable
    active        \* actuator_motor_output_active

clockVars == <<pending, gap, elapsed>>
imuVars   == <<ready, readyAge, sampleAge, healthy, staleActive>>
frameVars == <<frameAge, framed>>
wheelVars == <<online, wheelAge>>
motorVars == <<enable, active>>
vars == <<clockVars, due, phase, imuVars, armed, fault, frameVars, wheelVars,
          motorVars>>

\* now_ms less a stamp.
Seen(age) == (age - gap) % Word

Older(age) == IF age < Old THEN age + 1 ELSE Old

Init ==
    /\ pending = FALSE /\ gap = 0 /\ elapsed = FALSE
    /\ due = FALSE /\ phase = "idle"
    /\ ready \in BOOLEAN /\ readyAge = 0
    /\ sampleAge = 0 /\ healthy = TRUE /\ staleActive = FALSE
    /\ armed = FALSE /\ fault = FALSE
    /\ frameAge = 0 /\ framed = FALSE
    /\ online = FALSE /\ wheelAge = 0
    /\ enable = FALSE /\ active = FALSE

-----------------------------------------------------------------------------
(* Interrupts, between any two steps of the main loop.                     *)

\* app_scheduler_tick_1ms
Tick ==
    /\ gap < MaxGap
    /\ gap' = gap + 1 /\ pending' = TRUE /\ elapsed' = TRUE
    /\ readyAge' = IF ready THEN Older(readyAge) ELSE 0
    /\ sampleAge' = Older(sampleAge)
    /\ frameAge' = Older(frameAge)
    /\ UNCHANGED <<due, phase, ready, healthy, staleActive, armed, fault, framed,
                   wheelVars, motorVars>>

ImuInterrupt ==
    /\ ready' = TRUE /\ readyAge' = 0
    /\ UNCHANGED <<clockVars, due, phase, sampleAge, healthy, staleActive, armed,
                   fault, frameVars, wheelVars, motorVars>>

\* The last byte of a valid frame of the motor board.
WheelFrame ==
    /\ frameAge' = 0 /\ framed' = TRUE
    /\ UNCHANGED <<clockVars, due, phase, imuVars, armed, fault, wheelVars,
                   motorVars>>

-----------------------------------------------------------------------------
(* A pass of the main loop.                                                *)

\* The flag is cleared before the clock is read.
TakePending ==
    /\ phase = "idle" /\ pending
    /\ pending' = FALSE /\ phase' = "clock"
    /\ UNCHANGED <<gap, elapsed, due, imuVars, armed, fault, frameVars, wheelVars,
                   motorVars>>

ReadClock ==
    /\ phase = "clock" /\ phase' = "imu"
    /\ gap' = 0 /\ due' = elapsed /\ elapsed' = FALSE
    /\ UNCHANGED <<pending, imuVars, armed, fault, frameVars, wheelVars, motorVars>>

\* After the host commands, sensor_imu_take_data_ready and sensor_imu_update;
\* the FIFO may hold no new attitude.
UpdateImu(got) ==
    /\ phase = "imu" /\ phase' = "stale"
    /\ ready' = FALSE /\ readyAge' = 0
    /\ sampleAge' = IF ready /\ got THEN readyAge ELSE sampleAge
    /\ healthy' = (healthy \/ (ready /\ got))
    /\ UNCHANGED <<clockVars, due, staleActive, armed, fault, frameVars, wheelVars,
                   motorVars>>

\* Variant: imu_stale_active is not reset by a fresh sample.
CheckStale_Latched ==
    /\ phase = "stale" /\ phase' = IF due THEN "safety" ELSE "idle"
    /\ LET stale == Seen(sampleAge) > ImuTimeout IN
         /\ healthy' = (healthy /\ ~ (stale /\ ~ staleActive))
         /\ staleActive' = (staleActive \/ stale)
    /\ UNCHANGED <<clockVars, due, ready, readyAge, sampleAge, armed, fault,
                   frameVars, wheelVars, motorVars>>

\* The staleness check marks the sample once per silence.  A second pass
\* within one millisecond runs none of the periodic tasks that follow.
CheckStale ==
    /\ phase = "stale" /\ phase' = IF due THEN "safety" ELSE "idle"
    /\ LET stale == Seen(sampleAge) > ImuTimeout IN
         /\ healthy' = (healthy /\ ~ (stale /\ ~ staleActive))
         /\ staleActive' = stale
    /\ UNCHANGED <<clockVars, due, ready, readyAge, sampleAge, armed, fault,
                   frameVars, wheelVars, motorVars>>

\* app_safety_update: late says that the arming delay has passed, tilted that
\* an angle is over its limit or not a number.  A fault stops the motors.
Safety(late, tilted) ==
    /\ phase = "safety" /\ phase' = "balance"
    /\ armed' = (armed \/ (~ fault /\ late))
    /\ fault' = (fault \/ (armed' /\ (~ healthy \/ tilted)))
    /\ IF fault' # fault THEN enable' = FALSE /\ active' = FALSE
                         ELSE UNCHANGED motorVars
    /\ UNCHANGED <<clockVars, due, imuVars, frameVars, wheelVars>>

\* Variants: the controllers trust feedback of any age; they do not look at
\* the fault.
Usable_AnyAge == ~ fault

Usable_IgnoresFault ==
    healthy /\ online /\ Seen(sampleAge) <= ImuMaxAge /\ wheelAge <= WheelMaxAge

\* What both controllers ask of the feedback before they drive.
Usable ==
    /\ ~ fault /\ healthy /\ online
    /\ Seen(sampleAge) <= ImuMaxAge /\ wheelAge <= WheelMaxAge

\* control_chassis_update and control_balance_update in a balancing mode;
\* wanted stands for their other conditions, the chassis enable among them.
Balance(wanted) ==
    /\ phase = "balance" /\ phase' = "motor"
    /\ IF Usable /\ wanted THEN enable' = TRUE /\ UNCHANGED active
                           ELSE enable' = FALSE /\ active' = FALSE
    /\ UNCHANGED <<clockVars, due, imuVars, armed, fault, frameVars, wheelVars>>

\* Their period has not passed, or the mode is OFF or STANDBY.
BalanceIdle ==
    /\ phase = "balance" /\ phase' = "motor"
    /\ UNCHANGED <<clockVars, due, imuVars, armed, fault, frameVars, wheelVars,
                   motorVars>>

\* actuator_motor_refresh_feedback; sides says that neither encoder is stuck.
Refreshed(sides) ==
    /\ wheelAge' = IF framed THEN Seen(frameAge) ELSE 0
    /\ online' = (framed /\ wheelAge' <= WheelTimeout /\ sides)

\* actuator_motor_update when the closed loop may drive; spins says that its
\* duty is not zero.
Drive(sides, spins) ==
    /\ phase = "motor" /\ phase' = "idle"
    /\ Refreshed(sides)
    /\ ~ fault /\ enable /\ online'
    /\ active' = spins
    /\ UNCHANGED <<clockVars, due, imuVars, armed, fault, frameVars, enable>>

\* Variant: feedback that went offline leaves the duty as it is.
Halt_IgnoresFeedback(sides) ==
    /\ phase = "motor" /\ phase' = "idle"
    /\ Refreshed(sides)
    /\ fault \/ ~ enable \/ ~ online'
    /\ IF fault \/ ~ enable THEN enable' = FALSE /\ active' = FALSE
                            ELSE UNCHANGED motorVars
    /\ UNCHANGED <<clockVars, due, imuVars, armed, fault, frameVars>>

\* actuator_motor_update otherwise: stop, or keep sending no duty.
Halt(sides) ==
    /\ phase = "motor" /\ phase' = "idle"
    /\ Refreshed(sides)
    /\ fault \/ ~ enable \/ ~ online'
    /\ enable' = FALSE /\ active' = FALSE
    /\ UNCHANGED <<clockVars, due, imuVars, armed, fault, frameVars>>

Pass ==
    \/ TakePending \/ ReadClock
    \/ \E got \in BOOLEAN : UpdateImu(got)
    \/ CheckStale
    \/ \E late, tilted \in BOOLEAN : Safety(late, tilted)
    \/ \E wanted \in BOOLEAN : Balance(wanted)
    \/ BalanceIdle
    \/ \E sides, spins \in BOOLEAN : Drive(sides, spins)
    \/ \E sides \in BOOLEAN : Halt(sides)

Next == Tick \/ ImuInterrupt \/ WheelFrame \/ Pass

Spec == Init /\ [][Next]_vars

\* The timer runs and the main loop never blocks for ever.
FairSpec == Spec /\ WF_vars(Tick) /\ WF_vars(Pass)

-----------------------------------------------------------------------------
(* Properties.                                                             *)

\* Every variable has its type.
TypeOK ==
    /\ pending \in BOOLEAN /\ gap \in 0..MaxGap
    /\ elapsed \in BOOLEAN /\ due \in BOOLEAN
    /\ phase \in {"idle", "clock", "imu", "stale", "safety", "balance", "motor"}
    /\ ready \in BOOLEAN /\ readyAge \in 0..Old
    /\ sampleAge \in 0..Old /\ healthy \in BOOLEAN /\ staleActive \in BOOLEAN
    /\ armed \in BOOLEAN /\ fault \in BOOLEAN
    /\ frameAge \in 0..Old /\ framed \in BOOLEAN
    /\ online \in BOOLEAN /\ wheelAge \in 0..Word - 1
    /\ enable \in BOOLEAN /\ active \in BOOLEAN

\* A fault stops the motors for good: neither controller drives them again,
\* whatever the feedback and whichever of them runs.
FaultStopsMotors == fault => ~ enable /\ ~ active

\* Once the monitor is armed, a sample older than the timeout is a fault in
\* the pass that finds it so, also after earlier silences that were survived.
StaleImuFaults ==
    phase = "balance" /\ armed /\ ~ fault => sampleAge <= gap + ImuTimeout

\* The motors stop when the motor board falls silent.
SilentWheelsStop == <>[][~ WheelFrame]_vars => <>[](~ active)

\* The motors stop when the IMU falls silent, also before the safety monitor
\* is armed, as long as the balance controller keeps running.
SilentImuStops ==
    /\ <>[][~ ImuInterrupt]_vars
    /\ []<><<\E wanted \in BOOLEAN : Balance(wanted)>>_vars
    => <>[](~ active)

\* Stated by the code's comments, and not what it does: see the runs.

\* "disables actuators on IMU fault or angle limit exceed": a sample within
\* the timeout is no fault.
FreshImuIsHealthy ==
    [][CheckStale /\ healthy /\ sampleAge <= ImuTimeout => healthy']_vars
=============================================================================
