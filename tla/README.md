# WheelLeggedCar in TLA+

WheelLeggedCar is the firmware of a two-wheeled car on legs.  It runs on the two
Cortex-M7 cores of a CYT4BB microcontroller:

- **CM7_0** is the controller: IMU, wheel motors, legs, UART0 host commands,
  safety monitor and the camera's capture;
- **CM7_1** is the perception side: GNSS, camera streaming over Wi-Fi, and the
  source of navigation commands.

The cores share one block of non-cacheable SRAM and a doorbell interrupt; there
is no operating system.  Each core runs one endless loop, and interrupts run
between any two of its steps.

These modules model the program's control logic: who may move the car, how
records and frames cross from one core to the other, how old the feedback may be
that the controllers act on, who may move the legs, and what the interrupts of
the doorbell, the servos and the GNSS receiver find and leave behind.  TLC checks small
instances, TLAPS proves the main invariants for every value of the constants.

1. [The system](#1-the-system)
2. [What is hard](#2-what-is-hard)
3. [The modules](#3-the-modules)
4. [The runs](#4-the-runs)
5. [Fairness](#5-fairness)
6. [The proofs](#6-the-proofs)
7. [Where code and documents disagree](#7-where-code-and-documents-disagree)
8. [What is not modelled](#8-what-is-not-modelled)
9. [Plan](#9-plan)

All file names below are those of `src/project/code/` unless a path says otherwise.

## 1. The system

### Between the cores

| Component | State | Operations | Correct when |
|---|---|---|---|
| Snapshot transport, `intercore_transport.c` | layout metadata (magic, ready, boot epoch), per channel a double buffer, an active index and a sequence; per core its epoch and the last sequence taken | CM7_0: init, poll navigation, poll GNSS. CM7_1: attach, publish | a poll returns the last published record, whole, and each at most once; the last record arrives; a publisher that lost its layout attaches again |
| Record protocol, `intercore_protocol.c` | none | prepare and check a header, CRC32 | a torn record does not check |
| Camera hand-over, `intercore_camera.c` | two slots (FREE, WRITING, READY, READING), their sequence numbers, the camera's epoch | claim, publish, attach, acquire the latest, release | a slot has one owner, frames are whole and in order, no slot is lost |
| Capture producer, `camera_capture_producer.c` | camera finish flag, capture count | service (CM7_0's loop), finish callback (interrupt) | two exposures are never mixed in one frame |
| Frame consumer, `camera_frame_consumer.c` | attached epoch, socket state, the frame it holds | service (CM7_1's loop): attach, connect, acquire, send, release | it holds no slot while the network blocks |
| Doorbell, `intercore_notify.c` | pending and in-flight bits | send, release callback, receive callback | no bit is stranded |
| Perception channels, `perception_intercore.c` | double buffers as above, with other orders of stores | publish, read | as for the transport (not used in the built configuration) |

### On CM7_0

| Component | State | Operations | Correct when |
|---|---|---|---|
| Scheduler, `app_scheduler.c`, `app.c` | tick flags, task times, `now_ms` | tick interrupt; a pass runs host commands, IMU, staleness, safety, poll, router, legs, chassis, balance, motors in this order | each task sees what the earlier ones of the pass decided |
| Host commands, `host_command.c` | line buffer, a motion counter | STOP, ARM, MAINT, B, C, BRA, the leg commands, tuning | nothing moves without the gates below |
| Intake of CM7_1's commands, `intercore_control.c` | last sequence of each source | poll, check, map to a router slot | old and repeated commands are refused |
| Motion router, `motion_command_router.c` | a slot per source with its expiry, remote arming, maintenance mode, emergency stop, safety fault, active source | submit, cancel, latch, clear, arm, maintenance, update | the only caller that enables the chassis; silence stops |
| Safety monitor, `app_safety.c`, `app_state.c` | armed, fault | update | a fault is final and stops everything |
| IMU, `sensor_imu.c` with its driver and filters | data-ready flag and stamp, sample, health | interrupt, update | stale data is found in time |
| Motors, `actuator_motor.c`, `bldc_foc_uart.c` | command, duty, feedback and its stamp | set, stop, update; byte interrupt | no duty without fresh feedback or under a fault |
| Balance, `control_balance.c` | mode, loops | update | no drive on old data |
| Chassis, `control_chassis.c` | command, forward target and ramp, fast mode | set, stop, update | the leg policy limits the drive |
| Legs, `control_leg.c` with `leg_kinematics.c` | mode, motion state, IK references, race segment, diagnostics | set a mode or pose, race request, update | locked outside maintenance mode; a soft fault needs LH |
| Race assist, `control_race_assist.c` | level, state, latched fault, session | set level, report a path fault, update | a latched fault holds the legs |
| Servos, `actuator_servo.c`, `servo_motion.c` | two frames of angles, the ramp | publish, disable; 300 Hz interrupt | four angles are one command |

### On CM7_1

| Component | State | Operations | Correct when |
|---|---|---|---|
| Start and loop, `src/project/user/main_cm7_1.c` | whether the transport is attached | GNSS publish and attach again, camera service | publishes to the layout of the last boot |
| GNSS, `sensor_gnss.c`, `local_position.c` | a pair of sentences, validity, recovery count | update | a position is made of one pair |
| Single gap, `single_gap_*.c` | detection, pose source, gap state machine | update, publish commands | not built: `SINGLE_GAP_ENABLE` is 0 |

The remaining files (samplers of pins and ADC, telemetry, configuration, the
vendor's drivers) are listed in PROJECT.json with the reason they are left out.

### How they interact

```
 UART0 -> host_command --.
                          >-- motion_command_router --> control_chassis --> motors
 CM7_1 -> transport ------'           ^                   |  ^
          intercore_control           |                   v  |
                       app_safety ----'      control_race_assist
                          ^                               |  ^
 IMU interrupt -> sensor_imu                              v  |
                                  host_command -----> control_leg --> servos

 camera interrupt -> capture producer ==two slots==> frame consumer -> Wi-Fi
                                `-----doorbell-----------^
 GNSS UART interrupt -> receiver's parser -> sensor_gnss -> transport
 300 Hz interrupt -> actuator_servo, stepping the frame control_leg published
```

Four kinds of interaction occur: calls inside a pass; diagnostics structures that
one task writes and later ones read (`control_leg_diag`, the motor feedback);
interrupts that write flags, stamps and buffers; and shared memory between cores.

## 2. What is hard

PROJECT.json lists the hazards with their lines.  They fall into seven groups:

1. **Two cores on the same words.**  The polls copy a slot while the publisher may
   overwrite it; no barrier orders the loads of a poll before its copy, or the two
   metadata stores of a publish; both cores write the slot states of the camera without a lock.
2. **Restarts of one core.**  SRAM keeps its contents.  A CM7_1 that starts again
   continues numbers it reads from shared memory, or restarts counters it keeps
   itself; a CM7_0 that starts again clears the memory under CM7_1.
3. **Order inside a pass.**  Several host lines run in one pass, before the safety
   monitor, the poll and the router.  A check that succeeded in the host phase
   may be out of date when the router acts.
4. **Stamps of a running clock.**  Interrupts stamp with the running clock, the
   pass subtracts from a `now_ms` that it read earlier, in unsigned arithmetic.
5. **Permission from old diagnostics.**  The chassis and the race assist read the
   legs' diagnostics of the last leg update, up to 10 ms old.
6. **Silence.**  The chassis has no timeout of its own; commanders, IMU and motor
   board may each fall silent, and every chain must end in a stop.
7. **A driver's interrupt in the middle of its task.**  The 300 Hz interrupt steps the
   servos between two stores of a publish; the UART interrupt stores a line while
   the parser reads another; the release interrupt of the doorbell hands bits over while the
   main loop sends.

## 3. The modules

| Module | Models | Extended by |
|---|---|---|
| `LatestRecord` | the promise of the snapshot transport: a register | instanced by `SnapshotTransport` |
| `LatestOrAbandoned` | the same when CM7_1 may be reset: the last record or a remnant of its number | instanced by `SnapshotTransport` |
| `SnapshotTransport` | one channel, both cores, boots and resets | `MCSnapshotTransport`, `SnapshotTransportProofs` |
| `MotionControl` | host commands, safety, intake and router in a pass | `MCMotionControl`, `MotionControlProofs` |
| `FrameMailbox` | the promise of the camera hand-over: a mailbox of whole pictures | instanced by `CameraHandoff` |
| `CameraHandoff` | capture, hand-over, consumer, network, restarts | `MCCameraHandoff`, `CameraHandoffProofs` |
| `FeedbackAge` | tick, IMU and motor board interrupts against a pass | `MCFeedbackAge`, `FeedbackAgeProofs` |
| `RaceAssist` | the supervisor, as operators on its record | `LegControl` |
| `LegControl` | the leg controller, as operators on its record | `LegDrive` |
| `LegDrive` | host commands, router, legs, chassis and supervisor in a pass | `MCLegDrive`, `LegDriveProofs` |
| `DoorbellPromise` | the promise of the doorbell: rings that stay until they arrive | instanced by `Doorbell` |
| `Doorbell` | the notify driver on the IPC pipe, both cores, restarts of CM7_1 | `MCDoorbell`, `DoorbellProofs` |
| `ServoFrames` | the 300 Hz interrupt against publishes and the disable at a fault | `MCServoFrames`, `ServoFramesProofs` |
| `GnssSampler` | the UART interrupt, the parser, the pairing, timeout and recovery | `MCGnssSampler`, `GnssSamplerProofs` |

The MC modules name the instance and define the few values a `.cfg` file cannot write;
all bounds are in the `.cfg` files.
Operators whose name ends in `_Something`, each under a comment that starts with
"Variant", are plausible bugs.  Nothing in a specification uses them;
they show that each property can fail.

### LatestRecord and SnapshotTransport

`LatestRecord` is a register: `Publish` replaces the record, `Reset` is a boot of
CM7_0.  A poll takes time, so it has two steps: `Find` meets the record that is the last
one at that moment, and `Take` returns what was found if it is fresh; in between CM7_1 may
publish again, and the poll may end without a result (`GiveUp`).  `LatestOrAbandoned` adds `Abandon`:
a reset of CM7_1 may leave behind a record that was never published, and a `Take` may
return it once the published one has the same number.

`SnapshotTransport` cuts every handler at its accesses to shared SRAM.

| Code | Actions |
|---|---|
| `intercore_transport_cm7_0_init` | `BootBegin`, `BootClearWord`, `BootCleared`, `BootStore`, `BootDone` |
| `intercore_transport_cm7_1_attach` | `AttachCheck`, `AttachEpoch` |
| `intercore_transport_publish_navigation`, `_gnss` | `PublishRefused`, `PublishChecked`, `PublishPrepare`, `PublishSelect`, `PublishWrite`, `PublishStoreActive`, `PublishStoreSequence` |
| `intercore_transport_read_navigation` | `ReadActive`, `ReadSequence`, `ReadNothing`, `ReadCopy`, `ReadActiveAgain`, `ReadSequenceAgain`, `ReadAccept`, `ReadReject` |
| a reset of one core | `Restart0`, `Restart1` |

A record is three words (sequence, checksum, payload) copied one at a time.  Accesses that
no `__DMB()` separates take effect in any order, loads as well as stores: each stage
of a publish (`Accesses`) and of a poll (`readTodo`) is a set of accesses, and any one
of them may be next.  Two orders need no barrier: the copy of a poll goes to the slot whose index it
loaded, and a publish stores nothing before its check has passed.  The checksum is the record
it was computed over, so a collision is not modelled.  The publisher is that of
`main_cm7_1.c`, which attaches again after a refusal.

The poll loads the sequence, copies the slot and compares the sequence afterwards; no barrier
separates the first load from the copy.  If it takes effect late, after words of the old
record, the copy is torn, both comparisons succeed, and the number in the header may
be the new one.  Only the checksum rejects such a copy.  It is therefore needed while neither
core restarts, and the record a poll returns is the last one at the moment of the second
comparison (`Pending`), which need not be the one at the first.

The history variable `abandoned` holds the records that a reset of CM7_1 caught on
their way into a slot.  One can be read later if the next publish takes the same number and
the record lies in the slot that the active index names: after a reset between the two
metadata stores, after one in a publish that a boot of CM7_0 overtook, so that the slot
being filled is the active one, or in a poll that was copying at the time.

### MotionControl

One pass is six phases: `idle`, `host`, `safety`, `poll`, `route`, `update`.  `BeginPass`
lets the requests age by a gap, the host phase runs any number of commands
(`HostStop`, `HostArm`, `HostMaintenance`, `HostBalanceOff`, `HostMotion`),
`Safety` may latch a fault, the poll takes one record of the channel
(`PollNothing`, `PollCancel`, `PollAccept`, `PollReject`), and the four `Route`
actions are the branches of `motion_command_router_update`.  `ChassisUpdate` is what is
left here of the chassis controller: it may stop the chassis on a measurement that is not
finite, and the router goes on counting its output as active.  `Publish` and
`Restart1` are CM7_1's and happen at any time.  Of the channel the model keeps what
`LatestOrAbandoned`, which `SnapshotTransport` is shown to implement, lets the next poll
return: `offered` is the last command or, if a reset left one behind under the same
transport number (`remnant`), any command at all.  That is more than the channel can
do, and the safety properties hold nevertheless.  A poll that a publish crosses returns nothing.

The commands `M,` and `D,` set the wheels past the chassis controller, in maintenance mode
only; they are left out, and no property here is about the wheels.

Time is the remaining validity of a slot.  Each slot also has the history
variable `old`, which says that its request is older than the last halt, and
`unarmed` records the events that no ARM has followed.

### FrameMailbox and CameraHandoff

`FrameMailbox` numbers captures, publishes each at most once with the picture that the
camera shows at that moment (`Number`, `Publish`, `Skip`), and lets CM7_1 `Take` a frame newer
than the last it gave back, `Look` at it once no older one waits, and `Release` it.  A boot of
CM7_0 empties it, a reset of CM7_1 loses the frame it held (`Detach`).  `CameraHandoff` is
mapped to it by the READY slots (`Ready`), the slot in use (`Held`) and the last
number consumed under the present epoch (`Last`).

Every access to a slot's state, every word of a copy and every turn of the
searches for a slot is a step.  `Capture` is the camera's interrupt, which
rewrites the whole picture at once unless it is masked.  A picture holds the
number of its exposure in each word, which is enough to see whether a frame is
whole.  A reset of CM7_0 while CM7_1 reads a frame is left out (`Reading1`): it
clears memory under the reader and no part of the hand-over defends against it.

### FeedbackAge

Time is unbounded in the model: a stamp is kept as its *age* before the clock,
and an age beyond every timeout (`Old`) stands for all older ones.  `gap` is how
far the clock is ahead of `now_ms`, so the code's `now_ms - stamp` is
`(age - gap) % Word` (`Seen`): a stamp that is newer than `now_ms` wraps, as in the
code.  `Tick`, `ImuInterrupt` and `WheelFrame` are enabled between any two steps of
the pass (`TakePending`, `ReadClock`, `UpdateImu`, `CheckStale`, `Safety`, `Balance`
or `BalanceIdle`, `Drive` or `Halt`).

### RaceAssist, LegControl and LegDrive

`RaceAssist` and `LegControl` hold one record each and one operator for each function
of the C file; `LegDrive` gives them state and a schedule.  `LegDrive` needs this
form because one chassis update may call the supervisor twice and the legs once,
and all of that is one step of the code.

- The leg angles are reduced to what control depends on: whether the planned
  pose is the low-race zero (`atZero`), what the servos last reported (`rest`),
  and the position `u` of the race trajectory in `-Reach..Reach`.  Whether the inverse
  kinematics solves is an input of every update.
- `Diag` is `control_leg_diag` as of the last leg update; the chassis sees the
  legs through it alone.  `race_path_valid` is a field of it; `held_command_valid`
  follows from the mode.
- The supervisor's control law is the *set* of states and positions it may ask
  for (`Law`), so no gain is fixed.
- Some of the code's data is dead after a refusal and is not kept: the position
  fields after a refused race entry are those of before.
- A request of a second source that a withdrawal uncovers is that source submitting
  again.  `MotionControl` has the sources apart.
- The modes of the calibration, verification and direct-step builds are left out, as
  their switches are 0 in `app_config.h`.

### DoorbellPromise and Doorbell

`DoorbellPromise` counts, for each bit, the rings that have not arrived: a ring may
merge with an outstanding one, none is lost and none arrives twice, the receiver
takes what arrived since it last took, and its restart forgets what had arrived.

| Code | Actions |
|---|---|
| `intercore_notify_try` and the first critical section of `intercore_notify_send` | `Ring`, `HandOver` (both by `SendBegin`) |
| `Cy_IPC_Pipe_SendMessage` | `PortSend`, `PortMark` |
| the critical section after a refusal | `SendFailed` |
| `Cy_IPC_Pipe_ExecCallback` and `intercore_notify_release_callback` on CM7_0 | `ReleaseBegin`, `HandOver`, `ReleaseEnd` |
| the same function and `intercore_notify_receive_callback` on CM7_1 | `NotifyBegin`, `Receive`, `Unlock` |
| `intercore_notify_take_pending` | `TakePending` |
| `intercore_notify_init`, a reset of CM7_1 | `Init1`, `Restart1` |

Two contexts of CM7_0 send: the main loop, and the release interrupt, which may
suspend the main loop between any two of these steps and does not nest.  The model
assumes that the registers of the IPC block, a pending interrupt among them, outlive a
reset of CM7_1.  A restart of CM7_0 is left out.

A bit waits in one of four places (`Waits`): queued, held by a send of either
context, or on the wire.  The refinement counts those places, so it would see a bit that
is dropped and a bit that is delivered twice.  Two things the module brings to light are in
section 7.

### GnssSampler

The receiver sends at most one sentence of each kind in a cycle, in any order, and
each may be missing, damaged, or report a poor fix.  `LineStored` is the UART
interrupt and comes between any two steps of the parser, which are the state
check, the checksum, the read of the fields, and the store of the state
(`ParseCheck`, `ParseSum`, `ParseRead`, `ParseStore`).  The four `Pair` actions are the
outcomes of `sensor_gnss_service` after a parse.  A
sentence has a history flag `spent`: it came before the last timeout, or was
parsed by the pass that only consumes, or the interrupt rewrote the line between
checksum and read.  Nothing `spent` may become part of a sample.

- Ages count ticks up to the first one that is too old, and no further once the
  timeout has latched, since nothing looks at them then.
- The compiler is assumed to keep each store of the parser's state in its place:
  the states of `src/libraries/zf_device/zf_device_gnss.c:65` are not
  `volatile`, although an interrupt reads them.
- A line is one record; its characters, the assembly in the vendor's
  buffer and the fields that the pairing does not compare are left out.

### ServoFrames

Each store of `actuator_servo_publish_cmd` to the inactive frame is a step
(`StoreServo`, `StoreMode`), the critical sections are one step each (`Switch`,
`SwitchDirect`, `Disable`), and `Tick`, the 300 Hz interrupt, comes between any two.
Of the leg controller the module has the reading of the diagnosis at the start of an
update (`LegBegin`) and the decision whether the legs are stable (`Decide`); the pose
it commands, and whether the trajectory is at its target, are inputs (`Orders`).

- Angles are points of a grid in which an error within `SettleError` counts as none.
  The low-pass filter moves any way toward its target in a tick, so the model holds for
  every filter constant.
- Updates are 10 ms apart and ticks 3.3 ms.  With the publish in the first 5 ms of its pass a
  tick comes between a publish and the next update (`held > 0`), and at most two frames in a
  row are active for fewer than the three ticks of a period (`Hold`, `MaxShort`; `held` and
  `short` count them).
- `SettlingAssumption` relates the constants of the driver: a tick's step (0.3 degrees or
  more) is no less than the settling error (0.2), two such steps leave the band of
  plus and minus 0.2 around an angle, and 30 ticks to settle are more than (2 + 2) * 2.
- The planners differ in when they are complete (`Complete`): that of the poses and the fast
  stance at the end of the trajectory, that of the legacy stance (`timed`) when
  `legacy_settle_ms` have passed since, which `waited` counts in updates.  In the latter the update after
  STABLE starts the time again (`Waited`), as in `LegControl`.
- With all servos disabled the driver reports them settled; so does the model,
  and the legs may then be declared stable while they are dark.
- `actuator_servo_enable` and `actuator_servo_is_settled` have no caller and are left
  out.

## 4. The runs

Sizes are distinct states of a complete run.

| Run | Instance | States | Shows |
|---|---|---|---|
| `snapshot_register` | 2 payloads, 3 publishes, 2 boots of CM7_0 | 1 334 000 | the channel implements the register, the last record arrives, and the publisher ends up attached |
| `snapshot_restart` | 2 payloads, 2 publishes, 2 boots of CM7_0, 1 reset of CM7_1 | 4 729 000 | what is left of the register under resets; records are taken in order, each once |
| `motion_safety` | sources wireless and vision, validities 1 and 2, gap up to 2, 1 number per source and life | 616 000 | the four safety properties of the router, and that silence stops |
| `motion_rearm` | one remote source | violation | finding 1 |
| `camera` | 2 words, 3 exposures, 2 boots, 1 restart | 326 000 | ownership, whole frames, the mailbox, no slot held over a blocking call; published frames are served and no slot is lost |
| `feedback_safety` | timeouts 3, ages 1, gap up to 2, words of 64 | 390 000 | stale feedback faults, faults stop, silence stops |
| `feedback_spurious` | the same | violation | finding 2 |
| `leg_safety` | reach 1, level 1 | 413 000 | who may move the legs and under which permission the car starts |
| `leg_forward` | the same | violation | finding 3 |
| `doorbell` | 2 bits, 2 restarts of CM7_1 | 7 500 | the doorbell keeps its promise, never waits for an interrupt that nobody raises, and every ring is taken |
| `gnss` | 3 cycles, a day of 12 of which 2 are left, 2 fixes, age limit 0 | 1 250 000 | a sample is one pair of one cycle, no pair is dropped, the fix is earned, silence is noticed |
| `servo` | 2 servos, 3 poses, 3 ticks to settle, 2 in a period, a settle time of 2 updates | 451 000 | the interrupt finds whole commands, a fault is dark for good, stable means arrived and is reached |

### The properties

- `ImplementsRegister`: every step of the channel is a step of the register or a
  stutter, with `fresh` as "the last record's number is not the one taken last".
- `ImplementsRemnants`: with resets of either core, every step is a step of
  `LatestOrAbandoned` or a stutter: what a poll returns was prepared as a whole by one publish.
- `TakesOnlyNewer`, `LastRecordArrives`, `EventuallyAttached`: order across resets,
  delivery, and attachment to the last layout.
- `HaltedNeverMoves`, `MotionIsAuthorised`, `NoRequestResumes`,
  `EnabledIsKnown`, `SilenceStops`: no enabled chassis under a halt; only the valid
  request of highest priority moves the car, a remote one only if armed; what was
  accepted before a halt is gone after it; the router never loses an enabled chassis,
  though the chassis may stop without it; and the stop by expiry.
- `FramesAreOwned`, `FrameIsWhole`, `ReconnectHoldsNoSlot`, `ReadyIsServed`,
  `SlotsCirculate`: the protocol of the camera slots.
- `ImplementsMailbox`: every step of either core, or of the camera, is a step of the mailbox or a
  stutter.  That CM7_1 sees frames in their order (`InOrder`, proved as well) is part of it.
- `FaultStopsMotors`, `StaleImuFaults`, `SilentWheelsStop`, `SilentImuStops`.
- `LockedOutsideMaintenance`, `RaceKeepsZero`, `FaultHoldStops`, `SoftFaultNeedsLH`,
  `RampObeysPolicy`, `RampNeedsStaleDiag`, `SlowEndsRecenter`; and, proved only,
  `TargetNeedsOutput`: no forward target outlives the router's output that set it.
- `ImplementsPromise`: every step of the doorbell is a step of its promise or a stutter.
- `ChannelIsServed`, `EveryRingIsTaken`: `in_flight`, `busy` and the lock are set only
  while something is under way that will clear them; and while CM7_0 goes on ringing, every bit
  is taken or lost in a restart.
- `SampleIsOnePair`, `NoPairIsMissed`, `FixIsEarned`, `SilenceIsNoticed`.
- `FramesAreWhole`, `DarkAfterFault`, `StableMeansArrived`, `KeptPoseSettles`: what the
  300 Hz interrupt acts on is one command; no publish lights a servo after a fault;
  while the legs are stable every servo is at the commanded pose, which neither an old
  diagnosis nor the settled flag of a servo that only passes through may pretend; and
  a pose that is kept becomes stable although it is published anew every 10 ms: for good
  with the other planners, time and again in the legacy stance.

Type correctness is proved for every module and needs no run.

`RaceKeepsZero` and `RampNeedsStaleDiag` describe what the gates leave of the
race assist and of the drive in this version of the code: legs that are locked outside
maintenance mode refuse every position of the assist, and a forward ramp can start
only in the few milliseconds in which the diagnostics are older than the lock.
They are worth stating because a relaxed gate would change them first.  They are not what the
authors want: section 7 names the documents that say otherwise.

Every property has a mutant in PROJECT.json, a plausible bug of the code it is
about; TLC finds each violated on the same instance.

### Why the bounds are enough

- *Publishes.*  The double buffer repeats after two records; the third one
  overwrites the slot a slow poll may still be copying.  Numbers are compared for
  equality and order only.  The wrap of a 32-bit number is out of range: it takes
  more than five years of one boot epoch.
- *Boots and resets.*  Two boots and one reset give every order of an old and a new
  life on either side; a remnant needs one reset and one more publish, and a second payload to
  differ from it.
- *Exposures.*  Three exposures fill both slots and meet a third without a free one;
  two words show a mixed frame.
- *Validities.*  A gap of 1 or 2 against validities of 1 and 2 makes every order of
  expiry, arrival and pass happen.  One number per source is enough for these, since
  a reset of CM7_1 numbers from 1 again; that a second command of a source cancels the first is
  left to the proof.
- *Ages.*  The code compares ages with four constants; what matters is their order
  and that a gap is not longer than a timeout.  A word of 64 leaves the same room
  between timeouts and the wrap as 2^32 does.
- *Doorbell.*  Two bits tell "this bit" from "another bit" in a merged message; the
  second restart meets what the first left in the channel.
- *Cycles.*  The run passes midnight between its second and third cycle, and three cycles are
  shorter than half a day, as the code supposes of the distance of two halves.  Two fixes make
  a streak that can break; the code asks for more, which the proof covers.
- *Servos.*  The servo that moves has a pose one step before an end of its range: on its way to the end
  it passes through that pose with its filter already ahead, and is near it for a tick.  With 1 tick
  to settle TLC finds `StableMeansArrived` violated, so the run does meet the case.  All
  frames of the run are active for a period; frames that are shorter were checked apart (4 ticks
  to settle, `MaxShort = 1`, 1 211 710 states), and so was the invariant of the proof, on 7
  angles with a settling error of 1 and up to one short frame (1 001 499 states).
- *Legs.*  Reach 1 has both signs and zero, so a change of sign occurs; a level is
  tested against zero only.

Deadlock is checked in every run: neither core ever stops.

## 5. Fairness

| Specification | Assumed | Why the code justifies it |
|---|---|---|
| `SnapshotTransport` | weak fairness of CM7_0's boot, of attach and publish together, and of the poll | both cores run endless loops that wait for nobody; the receiver keeps sending pairs of sentences, and each pair is published, with or without a fix. A receiver that falls silent is published once, as a timeout; its publisher would then notice a new boot of CM7_0 only with the next pair |
| `MotionControl` | weak fairness of `Pass` | the tick interrupt keeps setting the flag that the loop waits for; commands, resets and faults have no fairness |
| `CameraHandoff` | weak fairness of each main loop; strong fairness of the two boot steps | network calls return; boots are modelled only while CM7_1 is outside a read, which is so again and again |
| `FeedbackAge` | weak fairness of `Tick` and `Pass` | the timer runs, the loop never blocks; interrupts of the sensors have no fairness, since they may fall silent |
| `LegDrive` | weak fairness of the pass, strong fairness of the leg and the chassis update, weak fairness of time | `app_task_elapsed` makes both due again and again |
| `Doorbell` | weak fairness of both cores' interrupts and of CM7_1's initialisation; strong fairness of the main loop's send and of the take | an interrupt ends, and the next one needs another message, so each main loop gets on again and again; nothing makes CM7_0 ring, which `EveryRingIsTaken` therefore has as a premise |
| `GnssSampler` | weak fairness of the service, strong fairness of `Tick` | CM7_1's loop waits for nobody and the clock runs; the receiver has no fairness |
| `ServoFrames` | weak fairness of `Advance`, a tick that moves the filter, and of disable and update together | the timer runs; its handler is shorter than its period, so the main loop gets on; the filter converges because its factor is above 0 |

Liveness is checked by TLC only.

## 6. The proofs

6444 obligations in eight modules, all proved.  Assumptions are those on the constants, which TLC also
evaluates.  Every proof has the same form: an inductive invariant `IInv`, the three
facts `Init => IInv`, `IInv /\ [Next]_vars => IInv'` and `IInv => Inv`, and one
temporal step.

**`SnapshotTransportProofs`** — for any payloads, publishes, boots and resets of either
core at any step: `TypeCorrect`, `NewerOnly`, and `RemnantRefinement`, that the channel
implements `LatestOrAbandoned`.  `RegisterRefinement`, the sharper promise of `LatestRecord`, follows
from it when CM7_1 is not reset (`MaxRestart = 0`), since nothing is abandoned then.  The
proviso is needed: a reset between the two metadata stores leaves a complete record in the
active slot that was never published, and the next publish may be preempted by a poll
that takes it.  `IInv` says that a record with a number is newer than the published one
until it is published (`WriterInv`), and what checksum word a slot or a copy may hold:
under the number of the layout that of the last record or an abandoned one, under
a later number that of a record abandoned or on its way (`Known`, in `LayoutInv` and
`ReaderInv`).  Since the checksum stands for a whole record, a copy that checks under the number
that the second comparison met is the last record at that moment (`AgainFinds`), in whatever order
the words, the index and the number were loaded; the numbers only grow, so a copy made
before a publish cannot pass for a later record.  `NewerOnly`: the number of the layout
grows within a boot, and what was taken is behind it (`OrderInv`).

**`MotionControlProofs`** — `TypeCorrect`, `Halts`, `Authorised`, `NothingResumes`,
`RouterKnows`, for any sources, validities and gaps.  The strengthening: a halt
leaves no valid slot, a remote slot is only valid in an armed car, no valid slot is
older than a halt (`SlotInv`), an enabled chassis is one the router counts as active
(`OutputInv`), and behind the router it follows the selected slot (`RoutedInv`).

**`CameraHandoffProofs`** — `TypeCorrect`, `Ownership`, `Whole`, `Ordered`,
`NetworkHoldsNothing`, for pictures of any size, any number of exposures, boots and
restarts of CM7_1.  `OwnInv` ties READING to the consumer's position and WRITING to
the producer's, `OrderInv` says that numbers tell frames apart by age, `PixelInv`
that READY and READING slots are whole.  `MailboxRefinement`: the two slots implement
`FrameMailbox`.  Each step of CM7_0 (`ProducerMaps`) and of CM7_1 (`ConsumerMaps`) is mapped, with
`BuildInv`: a layout that is being built has only free slots.  The published picture is the
camera's because the mask that `PixelInv` rests on lasts until the slot is READY.

**`FeedbackAgeProofs`** — `TypeCorrect`, `FaultFinal`, `StaleFaults`,
`OnlyAheadIsSpurious`, for any timeouts with `MaxGap <= ImuTimeout`: the main loop is
never held up for as long as the IMU's timeout.  `StaleImuFaults` alone is not
inductive because `imu_stale_active` keeps a sample from being marked twice: the
proof needs that, between the end of a silence and the next check, a healthy sample is a recent one
(`Survived`) and that what is ready for the next pass came after the last take
(`ReadyIsRecent`).  `OnlyAheadIsSpurious` bounds finding 2: a sample within
the timeout is marked stale only if its stamp is ahead of `now_ms`.

**`LegDriveProofs`** — one theorem for each property of `leg_safety`, for any reach and
number of levels.  The argument: outside maintenance mode the legs are
locked, and locked legs either hold a soft fault or have forgotten the pose from
which a race entry is solved (`LockedRefuses`), so a supervisor that commands anything ends in
FAULT_HOLD in the same step.  In maintenance mode the router has cleared fast mode
before the chassis update runs (`StoppedInMaintenance`), so the supervisor stays
disabled or recentres at 0 (`RaceIdle`).  A ramp starts only from a
forward target under `CanDrive`, hence with diagnostics that permit driving, and
those are not of locked legs (`PermissionMoved`).  `TargetStandsOnOutput` carries the
router's promise to the chassis: a forward target needs the output, and the output a
car that nothing stops (`OutputInv`); a withdrawal therefore may leave the chassis alone
when no output is on.

**`DoorbellProofs`** — `TypeCorrect`, `Served`, and `Promised`: the
doorbell implements its promise, for any set of bits and any number of
restarts.  The invariant follows a message through its stages: at most one is between the
start of a send and the end of its release, and for each stage it says which of
`in_flight`, `busy`, the lock and the two interrupts are set and which context holds the
bits.  With it, every step moves a bit from one place to one other.

**`GnssSamplerProofs`** — `TypeCorrect` and `FixEarned` without conditions, `SampleJoined`
for a run shorter than a day, `NoneIsMissed` for one shorter than half a day;
beyond that a time of day neither names nor orders cycles.  The line that is being
parsed is held against the interrupt (`LineIsHeld`), lines of a kind come in order
(`InOrder`), what is new is later than the last sample (`NewIsLater`) and not spent
(`NothingSpent`), and a cycle whose two halves were parsed was published or is about to
be (`NoneMissed`).  Two lemmas of modular arithmetic, `OneEpoch` and `OlderEpoch`, say what equal and
older times of day mean.

**`ServoFramesProofs`** — `TypeCorrect`, `FramesWhole`, `DarkForGood`, for any servos,
poses, speeds and settling rule.  What the inactive frame holds during a publish is
part old and part new (`StoredIsOrder`), but it has no reader; whole again it is one
command (`InactiveIsPose`); and after a fault nothing that is stored or issued
enables a servo (`NothingEnabled`).

`StableArrived`, for any poses commanded in any order and any filter, under
`SettlingAssumption`.  The danger is a servo that passes the new pose on its way to an older one: the
count of settled ticks is not restarted by a publish.  `IInv` of the first part is used
as a fact; the invariant `SInv` says that each servo has either caught its filter
(`Caught`) or lags (`Lag`).  A lagging servo goes on by a full step in every tick in which it counts as
near (`Passes`, lemma `PassingGoesOn`), so within one frame it is near for less than a
period (`PeriodIsShort`), and the short frames that may follow each other are too few for
the count to be full (`Counted`, `SettledCaught`).  A servo that is counted as settled has
therefore caught its filter, near the angle of the active frame; servo, filter and angle
stay in one band until the update decides (`SeenHolds`) and as long as the legs are
stable (`StableIsAround`).

Only model-checked: all liveness properties, which are out of reach of the prover.

## 7. Where code and documents disagree

1. **Who has to ARM again** (`motion_rearm`).  After a reset of CM7_1 the
   architecture document asks for a new handshake and a new ARM.  The boot epoch is
   CM7_0's, nothing on CM7_0 notices the reset, and the car follows commands published before
   it and after it.  Nor does `MAINT,0` ask for ARM before a local C command, as the
   plan says ("remains stopped until ARM plus a fresh `C`"): arming is asked of remote
   sources only.  The run meets the first; with an empty `Source` it meets the second.
2. **A fresh sample marked stale** (`feedback_spurious`).  A tick and an IMU
   interrupt between the read of `now_ms` and the take of the data-ready flag make the
   sample look 2^32 - 1 ms old; an armed monitor turns this into a final fault.
3. **ARM does not permit a forward C** (`leg_forward`).  `MAINT,0` locks the legs,
   as does boot, LOCK publishes no valid pose, and without one the forward limit is 0.
   The plan expects a fresh C after ARM to drive with locked legs.  The hardware test of
   the race assist (`docs/low-race-leg-assist-hardware-test.md:200` to 245) expects more: after
   `LIKREF`, `LXY`, `BRA,1` and `B,3`, which need maintenance mode, `C,250,0` drives for a second
   at 230 to 250 RPM and `u_actual` follows a request that is not zero.  In maintenance mode C is
   refused, and leaving it locks the legs, so that drive never comes about and the race
   trajectory never leaves its zero: `RaceKeepsZero`, which `leg_safety` checks and
   `LegDriveProofs` proves, is the opposite of what the test document describes.

PROJECT.json quotes the lines.  Met while modelling, without a run of their own:

- The release callback of the doorbell sends the queued bits at once, and
  `project/tests/intercore_control_foundation_test.c:275` to 279 expects that this send gets through
  (`TEST_CHECK(2U == mock_notify_send_count);`), with a port that accepts every send.  The
  vendor's pipe clears the busy flag of the endpoint only after the callback (`ReleaseEnd`), so
  the real port refuses it each time (`PortSend`), and the bits wait for the next ring.  No
  property relies on it; `EveryRingIsTaken` has its premise, that CM7_0 goes on ringing, because of it.
- In the legacy stance a height that is reached and kept does not stay STABLE: the update after
  STABLE sets TRANSITION and starts the settle time again (`control_leg.c:1241`), so the state is
  STABLE for one update of 10 ms in every 300 ms or so, and the forward limit alternates with
  it.  `docs/superpowers/specs/2026-07-09-leg-height-balance-drive-phase1-design.md:67` says
  "`STABLE`: a valid target height is reached and motion has settled".  `KeptPoseSettles`
  therefore asks for "time and again" there; TLC finds "for good" violated.
- A reset of CM7_1 inside its notify interrupt leaves the channel locked for good
  (`abandoned` in `ChannelIsServed`); no later send gets through until CM7_0 restarts.
- `single_gap_app_init` attaches once and gives up when CM7_0 has not built the
  layout; that task is not built at present.

## 8. What is not modelled

- **Real arithmetic**: balance and speed loops, kinematics, attitude filters, local
  position, gap detection.  Where control depends on their outcome it is an input.
- **Drivers and pure I/O**: vendor libraries, ADC, PWM input, GPIO, telemetry, the
  Wi-Fi stack.
- **Not built**: the single-gap task and with it the perception channels; the calibration
  and direct modes of the legs.
- **Commands that set the wheels directly**: `M,` and `D,` of `host_command.c:637` to 653 drive
  the wheels in maintenance mode, past the router and the chassis controller;
  `HaltedNeverMoves` is about the chassis enable only.
- **Sequential parsers**: the assembly of host lines and the motor board's byte
  parser.  They run in one context, and tests that feed strings reach their cases.
- **Restarts**: of CM7_0 under a doorbell in flight.
- **Within modelled components**: health counters, diagnostics and gate evidence,
  values of velocities and gains, time stamps that nothing compares.  The GNSS channel is the navigation channel
  with other field names.
- **Hardware**: memory is what both cores see uncached, with the barriers that the code places;
  a reset of CM7_0 in the middle of a CM7_1 read of a frame; a checksum collision.

Most of the repository is the vendor's SDK (register headers, DSP, Ethernet and Wi-Fi
stacks, FreeRTOS); the car's own code is a small part, and
of the vendor's only the handlers named above are modelled.

## 9. Plan

Order of the first part, all done: `SnapshotTransport` with its abstract register,
`MotionControl` on top of its promise, `CameraHandoff`, `FeedbackAge`, then
`RaceAssist`, `LegControl` and `LegDrive`; each with its run before its proofs.

Second part, done: `Doorbell` with its promise, `GnssSampler`, `ServoFrames`.

What is left, in order of what it would tell:

| Module | Source | Question |
|---|---|---|
| `Startup` | `main_cm7_0.c`, `main_cm7_1.c`, `app.c` | order of initialisation against the first interrupts |
| `PerceptionLink` | `perception_intercore.c` | once it is built: refinement of `LatestRecord` with the other order of stores; restarts of the writer |
| `SingleGap` | `single_gap_controller.c`, `single_gap_app.c` | once it is built: the gap's state machine, confirmation and loss; commands through `MotionControl` |
| `HostLine` | `host_command.c` | overlong lines, recovery at the next end of line |
| `BldcFrames` | `bldc_foc_uart.c`, `actuator_motor.c` | resynchronisation of the byte parser, the drive table |

Theorem worth proving next: that the router of `LegDrive` is the one of `MotionControl` with its
slots abstracted to one request; `TargetNeedsOutput` is what the legs need of it.
