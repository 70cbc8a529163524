--------------------------- MODULE LegDriveProofs ---------------------------
(***************************************************************************)
(* What the maintenance gate makes of the race assist and of the drive, for *)
(* every reach and every number of levels.                                 *)
(***************************************************************************)
EXTENDS LegDrive, TLAPS

\* Locked legs have forgotten the pose a race entry is solved from, or hold a
\* soft fault: either refuses every request of the supervisor.
LockedRefuses ==
    leg.mode = "lock" => leg.motion = "fault" \/ (leg.motion = "locked" /\ ~leg.previous)

\* Where the chassis update runs in maintenance mode, the router has just
\* cleared the fast mode that the supervisor needs.
StoppedInMaintenance ==
    /\ maintenance => ~chassis.forward
    /\ phase # "host" /\ maintenance => ~chassis.fast

\* The supervisor never runs between steps and holds no position but 0.
RaceIdle ==
    /\ race.state \in {"disabled", "recenter", "fault_hold"}
    /\ race.u = 0 /\ diag.u = 0
    /\ leg.mode = "race" => leg.motion \in {"race", "race_hold"}

\* Diagnostics that permit driving are not those of locked legs.
PermissionMoved == diag.drive => diag.motion # "locked"

IInv ==
    /\ TypeOK
    /\ LockedOutsideMaintenance
    /\ LockedRefuses
    /\ StoppedInMaintenance
    /\ RaceIdle
    /\ RaceKeepsZero
    /\ FaultHoldStops
    /\ PermissionMoved

-----------------------------------------------------------------------------
(* The supervisor.                                                         *)

\* An update of the supervisor keeps its record well typed
\* (control_race_assist_update).
LEMMA RaceUpdatesType ==
    ASSUME NEW r \in Race, NEW in \in Input, NEW after \in RaceUpdates(r, in)
    PROVE  after \in Race
<1> USE ReachAssumption, LevelAssumption
<1>1. 0 \in U /\ in.u \in U /\ in.speed \in Speed
  BY DEF U, Input
<1>2. FaultHold(r, in.u) \in Race
  BY <1>1 DEF FaultHold, Race, RaceState, RunState
<1>3. UpdateDisable(r, in) \in Race
  <2>1. Disabled(r) \in Race
    BY <1>1 DEF Disabled, Race, RaceState, RunState
  <2>2. \A u \in U : Recenter(r, u) \in Race
    BY DEF Recenter, Race, RaceState, RunState
  <2> QED
    BY <1>1, <2>1, <2>2 DEF UpdateDisable
<1>4. \A w \in Wanted(r, in) : w.state \in RunState /\ w.u \in U
  BY <1>1 DEF Wanted, Law, RunState
<1>5. ASSUME NEW w \in Wanted(r, in)
      PROVE  Running(r, w) \in Race
  <2>1. w.state \in RaceState /\ w.u \in U
    BY <1>4, <1>5 DEF RaceState
  <2>2. (r.session \/ w.state \in {"boost", "cruise_hold", "brake"}) \in BOOLEAN
    OBVIOUS
  <2> QED
    BY <2>1, <2>2 DEF Running, Race
<1> QED
  BY <1>2, <1>3, <1>5 DEF RaceUpdates

\* A reported path fault or a latched fault leaves only the hold, at the position
\* the legs report.
LEMMA FaultHolds ==
    ASSUME NEW r \in Race, NEW in \in Input, r.pathFault \/ r.latched
    PROVE  RaceUpdates(r, in) = {FaultHold(r, in.u)}
BY DEF RaceUpdates

\* With the legs at 0 and no fast mode the supervisor holds, recentres above the
\* recentring speed, or is disabled, always at 0.
LEMMA SlowlyIdle ==
    ASSUME NEW r \in Race, NEW in \in Input, in.u = 0, ~in.fast,
           NEW after \in RaceUpdates(r, in)
    PROVE  /\ after.u = 0
           /\ after.state \in {"disabled", "recenter", "fault_hold"}
           /\ in.speed = "slow" => after.state # "recenter"
           /\ after.latched => after.state = "fault_hold"
<1>1. CASE in.abort \/ in.pathFault \/ r.pathFault \/ r.latched
  BY <1>1 DEF RaceUpdates, FaultHold, Race
<1>2. CASE ~(in.abort \/ in.pathFault \/ r.pathFault \/ r.latched)
  <2>1. after = UpdateDisable(r, in) /\ ~r.latched
    BY <1>2 DEF RaceUpdates
  <2> QED
    BY <2>1 DEF UpdateDisable, Disabled, Recenter, Race
<1> QED
  BY <1>1, <1>2

-----------------------------------------------------------------------------
(* The leg controller.                                                     *)

\* Stopping in a hold keeps a well typed record (control_leg_enter_race_fault_hold).
LEMMA HoldType == ASSUME NEW l \in Leg PROVE Hold(l) \in Leg
BY DEF Hold, Leg, Motion

\* So does starting the pending segment (control_leg_race_start_pending), which
\* ends in a hold or goes on in the same mode and motion.
LEMMA StartPendingType ==
    ASSUME NEW l \in Leg, NEW solves \in BOOLEAN, l.pending # NoRequest
    PROVE  /\ StartPending(l, solves) \in Leg
           /\ StartPending(l, solves).mode = l.mode
           /\ StartPending(l, solves).motion \in {l.motion, "race_hold"}
<1>1. 0 \in U /\ l.pending \in U
  BY ReachAssumption DEF U, Leg
<1>2. CASE ~solves
  <2>1. Hold(l) \in Leg
    BY HoldType
  <2> QED
    BY <1>2, <2>1 DEF StartPending, Hold, Leg
<1>3. CASE solves
  BY <1>1, <1>3 DEF StartPending, Leg
<1> QED
  BY <1>2, <1>3

\* A request of the supervisor (control_leg_set_race_assist_request) keeps a well
\* typed record; what it refuses changes nothing, and what it accepts is race mode.
LEMMA RequestedType ==
    ASSUME NEW l \in Leg, NEW u \in U, NEW path \in BOOLEAN, NEW solves \in BOOLEAN
    PROVE  /\ Requested(l, u, path, solves) \in Leg
           /\ ~MayRequest(l, path, solves) => Requested(l, u, path, solves) = l
           /\ MayRequest(l, path, solves) => Requested(l, u, path, solves).mode = "race"
<1>1. CASE ~MayRequest(l, path, solves)
  BY <1>1 DEF Requested
<1>2. CASE MayRequest(l, path, solves) /\ l.mode # "race"
  <2>1. 0 \in U
    BY ReachAssumption DEF U
  <2> QED
    BY <1>2, <2>1 DEF Requested, Leg, LegMode, Motion
<1>3. CASE MayRequest(l, path, solves) /\ l.mode = "race"
  <2> DEFINE asked == [l EXCEPT !.pending = u]
  <2>1. asked \in Leg /\ asked.mode = "race" /\ asked.pending # NoRequest
    BY <1>3, NoRequestAssumption DEF Leg
  <2>2. StartPending(asked, solves) \in Leg /\ StartPending(asked, solves).mode = "race"
    BY <2>1, StartPendingType
  <2> HIDE DEF asked
  <2>3. Requested(l, u, path, solves) \in {l, StartPending(asked, solves), asked}
    BY <1>3 DEF Requested, asked
  <2> QED
    BY <1>3, <2>1, <2>2, <2>3
<1> QED
  BY <1>1, <1>2, <1>3

\* Leaving race mode on the supervisor's decision (control_leg_disable_race_assist)
\* keeps a well typed record, the mode, and every mode but race as it is.
LEMMA RaceDisabledType ==
    ASSUME NEW l \in Leg, NEW solves \in BOOLEAN
    PROVE  /\ RaceDisabled(l, solves) \in Leg
           /\ RaceDisabled(l, solves).mode = l.mode
           /\ l.mode # "race" => RaceDisabled(l, solves) = l
<1>1. CASE l.mode # "race" \/ l.motion = "race_hold"
  BY <1>1 DEF RaceDisabled
<1>2. CASE l.mode = "race" /\ l.motion # "race_hold"
  <2> DEFINE asked == [l EXCEPT !.pending = 0]
  <2>1. asked \in Leg /\ asked.mode = "race" /\ asked.pending # NoRequest
    BY <1>2, NoRequestAssumption, ReachAssumption DEF Leg, U
  <2>2. StartPending(asked, solves) \in Leg /\ StartPending(asked, solves).mode = "race"
    BY <2>1, StartPendingType
  <2> HIDE DEF asked
  <2>3. RaceDisabled(l, solves) \in {StartPending(asked, solves), asked}
    BY <1>2 DEF RaceDisabled, asked
  <2> QED
    BY <1>2, <2>1, <2>2, <2>3
<1> QED
  BY <1>1, <1>2

\* A race update (control_leg_race_update) keeps a well typed record in race mode.
LEMMA RaceStepType ==
    ASSUME NEW l \in Leg, l.mode = "race", NEW x,
           x.u \in U, x.solves \in BOOLEAN, x.restarts \in BOOLEAN
    PROVE  /\ RaceStep(l, x) \in Leg
           /\ RaceStep(l, x).mode = "race"
           /\ RaceStep(l, x).motion \in {"race", "race_hold"}
<1> DEFINE moved == [l EXCEPT !.u = IF l.done THEN l.goal ELSE x.u]
<1> DEFINE planned == [moved EXCEPT !.motion = "race", !.previous = TRUE,
                                    !.atZero = moved.u = 0]
<1>1. moved \in Leg /\ moved.mode = "race" /\ moved.pending = l.pending
  BY DEF Leg
<1>2. (moved.u = 0) \in BOOLEAN
  OBVIOUS
<1>3. planned \in Leg /\ planned.mode = "race" /\ planned.motion = "race"
      /\ planned.pending = l.pending
  <2> HIDE DEF moved
  <2> QED
    BY <1>1, <1>2 DEF Leg, Motion
<1>4. Hold(moved) \in Leg /\ Hold(moved).mode = "race" /\ Hold(moved).motion = "race_hold"
  <2> HIDE DEF moved
  <2> QED
    BY <1>1, HoldType DEF Hold, Leg
<1>5. RaceStep(l, x) = IF ~x.solves
                           THEN Hold(moved)
                       ELSE IF l.done /\ l.pending # NoRequest
                           THEN StartPending(planned, x.restarts)
                       ELSE planned
  BY DEF RaceStep
<1> HIDE DEF moved, planned
<1>6. l.pending # NoRequest =>
          /\ StartPending(planned, x.restarts) \in Leg
          /\ StartPending(planned, x.restarts).mode = "race"
          /\ StartPending(planned, x.restarts).motion \in {"race", "race_hold"}
  BY <1>3, StartPendingType
<1> QED
  BY <1>3, <1>4, <1>5, <1>6

\* An update (control_leg_update) keeps a well typed record and the mode; it leaves
\* a soft fault alone, locks only locked legs and keeps race mode in its motions.
LEMMA LegUpdateType ==
    ASSUME NEW l \in Leg, NEW x \in UpdateInput(l)
    PROVE  /\ LegUpdate(l, x) \in Leg
           /\ LegUpdate(l, x).mode = l.mode
           /\ l.motion = "fault" => LegUpdate(l, x).motion = "fault"
           /\ LegUpdate(l, x).motion = "locked" => l.mode = "lock"
           /\ l.mode = "lock" => /\ LegUpdate(l, x).previous = l.previous
                                /\ LegUpdate(l, x).motion \in {l.motion, "locked"}
           /\ l.mode = "race" /\ l.motion \in {"race", "race_hold"}
                  => LegUpdate(l, x).motion \in {"race", "race_hold"}
<1> DEFINE seen == [l EXCEPT !.rest = x.rest]
<1>1. /\ x.rest \in Rest /\ x.u \in U
      /\ x.solves \in BOOLEAN /\ x.restarts \in BOOLEAN
      /\ x.complete \in BOOLEAN /\ x.atZero \in BOOLEAN
  BY DEF UpdateInput, Rest, Between
<1>2. /\ seen \in Leg /\ seen.mode = l.mode /\ seen.motion = l.motion
      /\ seen.previous = l.previous
  BY <1>1 DEF Leg
<1>3. LegUpdate(l, x) = IF l.motion = "fault"
                            THEN [seen EXCEPT !.atZero = FALSE]
                        ELSE IF l.motion = "race_hold"
                            THEN seen
                        ELSE ModeUpdate(seen, x)
  BY DEF LegUpdate
<1> HIDE DEF seen
<1>4. CASE l.motion = "fault"
  BY <1>2, <1>3, <1>4 DEF Leg
<1>5. CASE l.motion = "race_hold"
  BY <1>2, <1>3, <1>5
<1>6. CASE l.motion \notin {"fault", "race_hold"}
  <2>1. LegUpdate(l, x) = ModeUpdate(seen, x)
    BY <1>3, <1>6
  <2>2. PoseUpdate(seen, x) \in Leg /\ PoseUpdate(seen, x).mode = l.mode
        /\ PoseUpdate(seen, x).motion \in {"stable", "transition"}
    BY <1>1, <1>2 DEF PoseUpdate, Settled, Leg, Motion
  <2>3. Fault(seen) \in Leg /\ Fault(seen).mode = l.mode /\ Fault(seen).motion = "fault"
    BY <1>2 DEF Fault, Leg, Motion
  <2>4. CASE l.mode = "lock"
    <3>1. ModeUpdate(seen, x) = LockUpdate(seen)
      BY <1>2, <2>4 DEF ModeUpdate
    <3>2. /\ LockUpdate(seen) \in Leg
          /\ LockUpdate(seen).mode = seen.mode
          /\ LockUpdate(seen).previous = seen.previous
          /\ LockUpdate(seen).motion = "locked"
      BY <1>2 DEF LockUpdate, Leg, Motion
    <3> QED
      BY <1>2, <1>6, <2>1, <2>4, <3>1, <3>2
  <2>5. CASE l.mode = "race"
    <3>1. ModeUpdate(seen, x) = RaceStep(seen, x)
      BY <1>2, <2>5 DEF ModeUpdate
    <3>2. /\ RaceStep(seen, x) \in Leg
          /\ RaceStep(seen, x).mode = "race"
          /\ RaceStep(seen, x).motion \in {"race", "race_hold"}
      BY <1>1, <1>2, <2>5, RaceStepType
    <3> QED
      BY <1>6, <2>1, <2>5, <3>1, <3>2
  <2>6. CASE l.mode \notin {"lock", "race"}
    <3>1. [PoseUpdate(seen, x) EXCEPT !.previous = TRUE] \in Leg
      BY <2>2 DEF Leg
    <3>2. /\ [PoseUpdate(seen, x) EXCEPT !.previous = TRUE].mode = l.mode
          /\ [PoseUpdate(seen, x) EXCEPT !.previous = TRUE].motion
                 \in {"stable", "transition"}
      BY <2>2 DEF Leg
    <3>3. LegacyUpdate(seen, x) \in Leg /\ LegacyUpdate(seen, x).mode = l.mode
          /\ LegacyUpdate(seen, x).motion \in {"stable", "transition", "fault"}
      BY <1>1, <2>2, <2>3 DEF LegacyUpdate, Leg, Motion
    <3>4. ModeUpdate(seen, x) \in {PoseUpdate(seen, x), LegacyUpdate(seen, x), Fault(seen),
                                  [PoseUpdate(seen, x) EXCEPT !.previous = TRUE]}
      BY <1>2, <2>6 DEF ModeUpdate, FastUpdate, ReferenceUpdate, ValidateUpdate,
                        Leg, LegMode
    <3>5. /\ ModeUpdate(seen, x) \in Leg /\ ModeUpdate(seen, x).mode = l.mode
          /\ ModeUpdate(seen, x).motion \in {"stable", "transition", "fault"}
      BY <2>2, <2>3, <3>1, <3>2, <3>3, <3>4
    <3> QED
      BY <1>6, <2>1, <2>6, <3>5
  <2> QED
    BY <2>4, <2>5, <2>6
<1> QED
  BY <1>4, <1>5, <1>6

\* The diagnostics are well typed, and permit driving only what is not locked
\* (control_leg_publish_diag).
LEMMA PublishedType ==
    ASSUME NEW d \in Diag, NEW l \in Leg, NEW after \in Leg, NEW x, NEW on \in BOOLEAN,
           after.motion = "locked" => after.mode = "lock"
    PROVE  /\ Published(d, l, after, x, on) \in Diag
           /\ Published(d, l, after, x, on).drive
                  => Published(d, l, after, x, on).motion # "locked"
           /\ Published(d, l, after, x, on).u \in {after.u, d.u}
           /\ Published(d, l, after, x, on).u # d.u => l.mode = "race"
<1> DEFINE raced == l.mode = "race" /\ l.motion = "race" /\ x.solves
<1> DEFINE p == Published(d, l, after, x, on)
<1>1. /\ p.motion = after.motion
      /\ p.drive = (on /\ PoseValid(after))
      /\ p.ready = (on /\ after.rest = "zero")
      /\ p.path = (after.motion # "race_hold" /\ (raced \/ d.path))
      /\ p.u = IF raced THEN after.u ELSE d.u
      /\ p = [motion |-> p.motion, drive |-> p.drive, ready |-> p.ready,
              path |-> p.path, u |-> p.u]
  BY DEF Published
<1>2. (on /\ PoseValid(after)) \in BOOLEAN /\ (on /\ after.rest = "zero") \in BOOLEAN
      /\ (after.motion # "race_hold" /\ (raced \/ d.path)) \in BOOLEAN
  OBVIOUS
<1>3. p.motion \in Motion /\ p.u \in U /\ p.u \in {after.u, d.u}
  BY <1>1 DEF Leg, Diag
<1>4. p.u # d.u => l.mode = "race"
  BY <1>1
<1>5. p.drive => p.motion # "locked"
  BY <1>1 DEF PoseValid
<1> HIDE DEF p, raced
<1>6. p \in Diag
  BY <1>1, <1>2, <1>3 DEF Diag
<1> QED
  BY <1>3, <1>4, <1>5, <1>6 DEF p

-----------------------------------------------------------------------------
(* Race mode at its zero.                                                  *)

Centred(l) == l.u = 0 /\ l.goal = 0 /\ l.pending \in {0, NoRequest}

\* A pending zero starts a segment that goes nowhere (control_leg_race_start_pending).
LEMMA StartPendingCentred ==
    ASSUME NEW l \in Leg, NEW solves \in BOOLEAN, Centred(l), l.pending # NoRequest
    PROVE  Centred(StartPending(l, solves))
BY DEF StartPending, Hold, SignChange, Centred, Leg

\* So does a request for zero (control_leg_set_race_assist_request).
LEMMA RequestedCentred ==
    ASSUME NEW l \in Leg, NEW path \in BOOLEAN, NEW solves \in BOOLEAN,
           l.mode = "race" => Centred(l)
    PROVE  LET after == Requested(l, 0, path, solves)
           IN  after.mode = "race" => Centred(after)
<1> DEFINE asked == [l EXCEPT !.pending = 0]
<1>1. CASE l.mode = "race"
  <2>1. asked \in Leg /\ Centred(asked) /\ asked.pending # NoRequest
    BY <1>1, NoRequestAssumption, ReachAssumption DEF Leg, U, Centred
  <2>2. Centred(StartPending(asked, solves))
    BY <2>1, StartPendingCentred
  <2>3. Requested(l, 0, path, solves) \in {l, asked, StartPending(asked, solves)}
    BY <1>1 DEF Requested
  <2> HIDE DEF asked
  <2> QED
    BY <1>1, <2>1, <2>2, <2>3
<1>2. CASE l.mode # "race"
  BY <1>2 DEF Requested, Centred, Leg
<1> QED
  BY <1>1, <1>2

\* So does the end of the assist (control_leg_disable_race_assist).
LEMMA RaceDisabledCentred ==
    ASSUME NEW l \in Leg, NEW solves \in BOOLEAN, l.mode = "race" => Centred(l)
    PROVE  l.mode = "race" => Centred(RaceDisabled(l, solves))
<1> DEFINE asked == [l EXCEPT !.pending = 0]
<1>1. CASE l.mode = "race"
  <2>1. asked \in Leg /\ Centred(asked) /\ asked.pending # NoRequest
    BY <1>1, NoRequestAssumption, ReachAssumption DEF Leg, U, Centred
  <2>2. Centred(StartPending(asked, solves))
    BY <2>1, StartPendingCentred
  <2>3. RaceDisabled(l, solves) \in {l, asked, StartPending(asked, solves)}
    BY <1>1 DEF RaceDisabled
  <2> HIDE DEF asked
  <2> QED
    BY <1>1, <2>1, <2>2, <2>3
<1> QED
  BY <1>1

\* And an update between zero and zero (control_leg_race_update).
LEMMA LegUpdateCentred ==
    ASSUME NEW l \in Leg, NEW x \in UpdateInput(l), l.mode = "race", Centred(l)
    PROVE  Centred(LegUpdate(l, x))
<1> DEFINE seen == [l EXCEPT !.rest = x.rest]
<1> DEFINE moved == [seen EXCEPT !.u = IF seen.done THEN seen.goal ELSE x.u]
<1> DEFINE planned == [moved EXCEPT !.motion = "race", !.previous = TRUE,
                                    !.atZero = moved.u = 0]
<1>1. x.u = 0 /\ x.rest \in Rest /\ x.restarts \in BOOLEAN
  <2>1. x.u \in Between(0, 0) /\ x.rest \in Rest /\ x.restarts \in BOOLEAN
    BY DEF UpdateInput, Centred, Rest
  <2> QED
    BY <2>1 DEF Between, U
<1>2. seen \in Leg /\ Centred(seen) /\ seen.mode = "race"
  BY <1>1 DEF Leg, Centred
<1> HIDE DEF seen
<1>3. moved \in Leg /\ Centred(moved) /\ moved.pending = seen.pending
  BY <1>1, <1>2 DEF Leg, Centred
<1> HIDE DEF moved
<1>4. planned \in Leg /\ Centred(planned) /\ planned.pending = seen.pending
  <2>1. (moved.u = 0) \in BOOLEAN
    OBVIOUS
  <2> QED
    BY <1>3, <2>1 DEF Leg, Centred, Motion
<1>5. Centred(Hold(moved))
  BY <1>3 DEF Hold, Centred, Leg
<1>6. RaceStep(seen, x) \in {Hold(moved), planned, StartPending(planned, x.restarts)}
      /\ (RaceStep(seen, x) \notin {Hold(moved), planned} => seen.pending # NoRequest)
  BY DEF RaceStep, moved
<1> HIDE DEF planned
<1>7. Centred(RaceStep(seen, x))
  BY <1>1, <1>4, <1>5, <1>6, StartPendingCentred
<1>8. Centred([seen EXCEPT !.atZero = FALSE])
  BY <1>2 DEF Centred, Leg
<1>9. LegUpdate(l, x) \in {[seen EXCEPT !.atZero = FALSE], seen, ModeUpdate(seen, x)}
  BY DEF LegUpdate, seen
<1>10. ModeUpdate(seen, x) = RaceStep(seen, x)
  BY <1>2 DEF ModeUpdate
<1> QED
  BY <1>2, <1>7, <1>8, <1>9, <1>10

-----------------------------------------------------------------------------
(* The operations of the host.                                             *)

\* Setting a level (control_race_assist_set_level) changes no state and no position.
LEMMA SetLevelType ==
    ASSUME NEW r \in Race, NEW level \in 0 .. MaxLevel
    PROVE  /\ SetLevel(r, level) \in Race
           /\ SetLevel(r, level).state = r.state /\ SetLevel(r, level).u = r.u
           /\ SetLevel(r, level).latched = r.latched
<1>1. (r.disabling \/ (level = 0 /\ r.level # 0)) \in BOOLEAN
  OBVIOUS
<1> QED
  BY <1>1 DEF SetLevel, Race

\* Locking (control_leg_set_mode) keeps a soft fault and forgets the pose otherwise.
LEMMA SetLockType ==
    ASSUME NEW l \in Leg
    PROVE  /\ SetLock(l) \in Leg /\ SetLock(l).mode = "lock"
           /\ l.motion = "fault" => SetLock(l).motion = "fault"
           /\ \/ SetLock(l).motion = "fault"
              \/ SetLock(l).motion = "locked" /\ ~SetLock(l).previous
BY DEF SetLock, Enter, Leg, LegMode, Motion

\* The leg commands keep a well typed record out of LOCK and race mode, or change
\* nothing; only LH leaves a soft fault.
LEMMA LegCommandType ==
    ASSUME NEW l \in Leg, NEW solves \in BOOLEAN,
           NEW after \in {SetLegacy(l), SetPose(l, "fast"), SetPose(l, "calib"),
                          SetReference(l, solves), SetXY(l, solves)}
    PROVE  /\ after \in Leg
           /\ after = l \/ after.mode \notin {"lock", "race"}
           /\ l.motion = "fault" /\ after.motion # "fault" => after.mode = "legacy"
<1>1. CASE after = SetLegacy(l)
  BY <1>1 DEF SetLegacy, Enter, Leg, LegMode, Motion
<1>2. ASSUME NEW mode \in {"fast", "calib"}, after = SetPose(l, mode)
      PROVE  /\ after \in Leg
             /\ after = l \/ after.mode \notin {"lock", "race"}
             /\ l.motion = "fault" => after = l
  <2>1. [Enter(l, mode) EXCEPT !.motion = "transition"] \in Leg
    BY DEF Enter, Leg, LegMode, Motion
  <2>2. [Enter(l, mode) EXCEPT !.motion = "transition"].mode = mode
    BY DEF Enter, Leg
  <2> QED
    BY <1>2, <2>1, <2>2 DEF SetPose
<1>3. CASE after = SetReference(l, solves)
  <2> DEFINE new == [Enter(l, "reference") EXCEPT !.motion = "transition",
                                                  !.reference = TRUE, !.previous = TRUE]
  <2>1. new \in Leg /\ new.mode = "reference"
    BY DEF Enter, Leg, LegMode, Motion
  <2> HIDE DEF new
  <2>2. after \in {l, new} /\ (l.motion = "fault" => after = l)
    BY <1>3 DEF SetReference, new
  <2> QED
    BY <2>1, <2>2
<1>4. CASE after = SetXY(l, solves)
  <2> DEFINE new == [Enter(l, "validate") EXCEPT !.motion = "transition"]
  <2>1. new \in Leg /\ new.mode = "validate"
    BY DEF Enter, Leg, LegMode, Motion
  <2> HIDE DEF new
  <2>2. after \in {l, new} /\ (l.motion = "fault" => after = l)
    BY <1>4 DEF SetXY, new
  <2> QED
    BY <2>1, <2>2
<1> QED
  BY <1>1, <1>2, <1>3, <1>4

\* The system starts with locked legs, an idle supervisor and a stopped chassis.
LEMMA Initially == Init => IInv
<1> SUFFICES ASSUME Init PROVE IInv
  OBVIOUS
<1> USE DEF Init
<1>0. 0 \in U /\ 0 \in 0 .. MaxLevel
  BY ReachAssumption, LevelAssumption DEF U
<1>1. LegInit \in Leg /\ DiagInit \in Diag /\ RaceInit \in Race
  BY <1>0 DEF LegInit, DiagInit, RaceInit, Leg, Diag, Race, LegMode, Motion, Rest, RaceState
<1>2. Stopped \in Chassis /\ "none" \in Request
  BY DEF Stopped, Chassis, Request
<1>3. TypeOK
  BY <1>1, <1>2 DEF TypeOK
<1>4. LockedOutsideMaintenance /\ LockedRefuses /\ RaceKeepsZero
  BY DEF LockedOutsideMaintenance, LockedRefuses, RaceKeepsZero, LegInit
<1>5. StoppedInMaintenance /\ RaceIdle /\ FaultHoldStops /\ PermissionMoved
  BY DEF StoppedInMaintenance, RaceIdle, FaultHoldStops, PermissionMoved,
         LegInit, DiagInit, RaceInit, Stopped
<1> QED
  BY <1>3, <1>4, <1>5 DEF IInv

\* A step of the host that changes the chassis only by stopping it, the legs only
\* by locking them and the supervisor only by its level keeps the invariant.
LEMMA HostStopsKeep ==
    ASSUME IInv, phase = "host", phase' = phase,
           chassis' \in {chassis, Stopped}, leg' \in {leg, SetLock(leg)},
           race' \in {race} \cup {SetLevel(race, level) : level \in 0 .. MaxLevel},
           diag' = diag,
           maintenance' \in BOOLEAN, emergency' \in BOOLEAN, enabled' \in BOOLEAN,
           request' \in Request, active' \in BOOLEAN,
           maintenance' # maintenance => leg' = SetLock(leg) /\ chassis' = Stopped
    PROVE  IInv'
<1> USE DEF IInv
<1>1. TypeOK'
  <2>1. Stopped \in Chassis
    BY DEF Stopped, Chassis
  <2>2. leg' \in Leg /\ race' \in Race
    BY SetLockType, SetLevelType DEF TypeOK
  <2> QED
    BY <2>1, <2>2 DEF TypeOK
<1>2. leg \in Leg /\ race \in Race
  BY DEF TypeOK
<1>3. LockedOutsideMaintenance' /\ LockedRefuses' /\ RaceKeepsZero'
  BY <1>2, SetLockType DEF LockedOutsideMaintenance, LockedRefuses, RaceKeepsZero
<1>4. race'.state = race.state /\ race'.u = race.u /\ race'.latched = race.latched
  BY <1>2, SetLevelType
<1>5. RaceIdle' /\ PermissionMoved'
  BY <1>2, <1>4, SetLockType DEF RaceIdle, PermissionMoved
<1>6. StoppedInMaintenance' /\ FaultHoldStops'
  BY <1>4 DEF StoppedInMaintenance, FaultHoldStops, Stopped
<1> QED
  BY <1>1, <1>3, <1>5, <1>6

\* Every command of the host and of CM7_1 keeps the invariant.
LEMMA HostKeeps ==
    ASSUME IInv,
           \/ HostStop \/ HostArm \/ HostMaintenance \/ HostBalanceOff
           \/ HostBalanceMode \/ Submit \/ Withdraw \/ HostRaceLevel \/ HostLeg
    PROVE  IInv'
<1>0. /\ TypeOK /\ 0 \in 0 .. MaxLevel
      /\ "none" \in Request /\ "stand" \in Request /\ "forward" \in Request
  BY LevelAssumption DEF IInv, Request
<1>1. CASE HostStop
  BY <1>0, <1>1, HostStopsKeep DEF HostStop, TypeOK
<1>2. CASE HostArm
  BY <1>0, <1>2, HostStopsKeep DEF HostArm, TypeOK
<1>3. CASE HostMaintenance
  BY <1>0, <1>3, HostStopsKeep DEF HostMaintenance, TypeOK
<1>4. CASE HostBalanceOff
  BY <1>0, <1>4, HostStopsKeep DEF HostBalanceOff, TypeOK
<1>5. CASE HostBalanceMode
  <2>1. PICK fast \in BOOLEAN :
            /\ chassis' = [chassis EXCEPT !.fast = fast]
            /\ race' = IF fast THEN race ELSE SetLevel(race, 0)
    BY <1>5 DEF HostBalanceMode
  <2>2. chassis \in Chassis /\ race \in Race
    BY <1>0 DEF TypeOK
  <2>3. /\ chassis' \in Chassis
        /\ chassis'.forward = chassis.forward /\ chassis'.ramped = chassis.ramped
    BY <2>1, <2>2 DEF Chassis
  <2>4. race' \in Race /\ race'.state = race.state /\ race'.u = race.u
        /\ race'.latched = race.latched
    BY <1>0, <2>1, <2>2, SetLevelType
  <2>5. UNCHANGED <<phase, gate, leg, diag>> /\ phase = "host"
    BY <1>5 DEF HostBalanceMode
  <2>6. TypeOK'
    BY <1>0, <2>3, <2>4, <2>5 DEF TypeOK, gate
  <2>7. LockedOutsideMaintenance' /\ LockedRefuses' /\ RaceKeepsZero' /\ PermissionMoved'
    BY <2>5 DEF IInv, LockedOutsideMaintenance, LockedRefuses, RaceKeepsZero,
                PermissionMoved, gate
  <2>8. StoppedInMaintenance' /\ FaultHoldStops' /\ RaceIdle'
    BY <2>3, <2>4, <2>5 DEF IInv, StoppedInMaintenance, FaultHoldStops, RaceIdle, gate
  <2> QED
    BY <2>6, <2>7, <2>8 DEF IInv
<1>6. CASE Submit
  BY <1>0, <1>6, HostStopsKeep DEF Submit, TypeOK
<1>7. CASE Withdraw
  BY <1>0, <1>7, HostStopsKeep DEF Withdraw, TypeOK
<1>8. CASE HostRaceLevel
  <2>1. race' \in {SetLevel(race, level) : level \in 0 .. MaxLevel}
    BY <1>8 DEF HostRaceLevel
  <2> QED
    BY <1>0, <1>8, <2>1, HostStopsKeep DEF HostRaceLevel, TypeOK, gate
<1>9. CASE HostLeg
  <2>1. PICK solves \in BOOLEAN :
            leg' \in {SetLegacy(leg), SetPose(leg, "fast"), SetPose(leg, "calib"),
                      SetReference(leg, solves), SetXY(leg, solves)}
    BY <1>9 DEF HostLeg
  <2>2. leg' \in Leg /\ (leg' = leg \/ leg'.mode \notin {"lock", "race"})
    BY <1>0, <2>1, LegCommandType DEF TypeOK
  <2>3. UNCHANGED <<phase, gate, chassis, diag, race>> /\ maintenance
    BY <1>9 DEF HostLeg
  <2>4. TypeOK'
    BY <1>0, <2>2, <2>3 DEF TypeOK, gate
  <2>5. LockedOutsideMaintenance' /\ LockedRefuses' /\ RaceKeepsZero' /\ RaceIdle'
    BY <2>2, <2>3 DEF IInv, LockedOutsideMaintenance, LockedRefuses, RaceKeepsZero,
                      RaceIdle, gate
  <2>6. StoppedInMaintenance' /\ FaultHoldStops' /\ PermissionMoved'
    BY <2>3 DEF IInv, StoppedInMaintenance, FaultHoldStops, PermissionMoved, gate
  <2> QED
    BY <2>4, <2>5, <2>6 DEF IInv
<1> QED
  BY <1>1, <1>2, <1>3, <1>4, <1>5, <1>6, <1>7, <1>8, <1>9

-----------------------------------------------------------------------------
(* The rest of the pass.                                                   *)

\* The router (motion_command_router_update) stops the chassis before the update
\* of a pass in maintenance mode, and drives only a supervisor without a fault.
LEMMA RouterKeeps == ASSUME IInv, Router PROVE IInv'
<1>1. TypeOK /\ chassis \in Chassis /\ Stopped \in Chassis
  BY DEF IInv, TypeOK, Stopped, Chassis
<1>2. UNCHANGED <<maintenance, emergency, leg, diag, race>> /\ phase' = "leg"
  BY DEF Router
<1>3. enabled' \in BOOLEAN /\ request' \in Request /\ active' \in BOOLEAN
  <2>1. enabled' \in BOOLEAN /\ request' \in Request
    BY <1>1 DEF Router, TypeOK, Request
  <2>2. active' = FALSE \/ active' = (request' # "none")
    BY DEF Router
  <2> QED
    BY <2>1, <2>2
<1>4. /\ chassis' \in {Stopped, chassis, SetCmd(chassis, request')}
      /\ maintenance => chassis' = Stopped
  BY DEF Router, MustStop
<1>5. /\ SetCmd(chassis, request') \in Chassis
      /\ SetCmd(chassis, request').forward => CanDrive(diag, race)
  <2>1. (request' = "forward" /\ CanDrive(diag, race)) \in BOOLEAN
    OBVIOUS
  <2> QED
    BY <1>1, <2>1 DEF SetCmd, Chassis
<1>6. TypeOK'
  <2>1. chassis' \in Chassis
    BY <1>1, <1>4, <1>5
  <2> QED
    BY <1>1, <1>2, <1>3, <2>1 DEF TypeOK
<1>7. StoppedInMaintenance'
  BY <1>2, <1>4 DEF StoppedInMaintenance, Stopped
<1>8. FaultHoldStops'
  <2>1. race.state = "fault_hold" => ~CanDrive(diag, race)
    BY DEF CanDrive
  <2> QED
    BY <1>2, <1>4, <1>5, <2>1 DEF IInv, FaultHoldStops, Stopped
<1>9. LockedOutsideMaintenance' /\ LockedRefuses' /\ RaceIdle' /\ RaceKeepsZero'
      /\ PermissionMoved'
  BY <1>2 DEF IInv, LockedOutsideMaintenance, LockedRefuses, RaceIdle, RaceKeepsZero,
              PermissionMoved
<1> QED
  BY <1>6, <1>7, <1>8, <1>9 DEF IInv

\* An update of the legs keeps them locked, or at zero in race mode
\* (control_leg_update).
LEMMA LegDueKeeps == ASSUME IInv, LegDue PROVE IInv'
<1>1. PICK x \in UpdateInput(leg) :
          /\ leg' = LegUpdate(leg, x)
          /\ diag' = Published(diag, leg, leg', x, enabled)
  BY DEF LegDue
<1>2. UNCHANGED <<gate, chassis, race>> /\ phase = "leg" /\ phase' = "chassis"
  BY DEF LegDue
<1>3. TypeOK /\ leg \in Leg /\ diag \in Diag /\ enabled \in BOOLEAN
  BY DEF IInv, TypeOK
<1>4. /\ leg' \in Leg /\ leg'.mode = leg.mode
      /\ leg'.motion = "locked" => leg.mode = "lock"
      /\ leg.mode = "lock" => /\ leg'.previous = leg.previous
                              /\ leg'.motion \in {leg.motion, "locked"}
      /\ leg.motion = "fault" => leg'.motion = "fault"
      /\ leg.mode = "race" /\ leg.motion \in {"race", "race_hold"}
             => leg'.motion \in {"race", "race_hold"}
  BY <1>1, <1>3, LegUpdateType
<1>5. leg.mode = "race" => Centred(leg')
  BY <1>1, <1>3, LegUpdateCentred DEF IInv, RaceKeepsZero, Centred
<1>6. /\ diag' \in Diag
      /\ diag'.drive => diag'.motion # "locked"
      /\ diag'.u \in {leg'.u, diag.u}
      /\ diag'.u # diag.u => leg.mode = "race"
  BY <1>1, <1>3, <1>4, PublishedType
<1>7. TypeOK'
  BY <1>2, <1>3, <1>4, <1>6 DEF TypeOK, gate
<1>8. LockedOutsideMaintenance' /\ LockedRefuses' /\ RaceKeepsZero' /\ PermissionMoved'
  BY <1>2, <1>4, <1>5, <1>6 DEF IInv, LockedOutsideMaintenance, LockedRefuses,
     RaceKeepsZero, PermissionMoved, Centred, gate
<1>9. StoppedInMaintenance' /\ FaultHoldStops'
  BY <1>2 DEF IInv, StoppedInMaintenance, FaultHoldStops, gate
<1>10. RaceIdle'
  <2>1. diag'.u = 0
    BY <1>5, <1>6 DEF IInv, RaceIdle, Centred
  <2> QED
    BY <1>2, <1>4, <2>1 DEF IInv, RaceIdle
<1> QED
  BY <1>7, <1>8, <1>9, <1>10 DEF IInv

\* Passes without an update, and the end of a segment's time, change nothing the
\* invariant looks at.
LEMMA IdleKeeps ==
    ASSUME IInv, LegNotDue \/ ChassisNotDue \/ SegmentElapses \/ UNCHANGED vars
    PROVE  IInv'
<1>1. /\ UNCHANGED <<gate, chassis, diag, race>>
      /\ phase' = phase \/ (phase' = "chassis" /\ phase = "leg") \/ phase' = "host"
  BY DEF LegNotDue, ChassisNotDue, SegmentElapses, vars, gate
<1>2. leg' \in {leg, [leg EXCEPT !.done = TRUE]}
  BY DEF LegNotDue, ChassisNotDue, SegmentElapses, vars
<1>3. TypeOK /\ leg \in Leg
  BY DEF IInv, TypeOK
<1>4. /\ leg' \in Leg /\ leg'.mode = leg.mode /\ leg'.motion = leg.motion
      /\ leg'.previous = leg.previous
      /\ leg'.u = leg.u /\ leg'.goal = leg.goal /\ leg'.pending = leg.pending
  BY <1>2, <1>3 DEF Leg
<1>5. TypeOK'
  BY <1>1, <1>3, <1>4 DEF TypeOK, gate
<1>6. LockedOutsideMaintenance' /\ LockedRefuses' /\ RaceKeepsZero' /\ RaceIdle'
  BY <1>1, <1>4 DEF IInv, LockedOutsideMaintenance, LockedRefuses, RaceKeepsZero,
     RaceIdle, gate
<1>7. StoppedInMaintenance' /\ FaultHoldStops' /\ PermissionMoved'
  BY <1>1 DEF IInv, StoppedInMaintenance, FaultHoldStops, PermissionMoved, gate
<1> QED
  BY <1>5, <1>6, <1>7 DEF IInv

-----------------------------------------------------------------------------
(* The chassis update.                                                     *)

\* An update of the supervisor that commands nothing has disabled it.
LEMMA Uncommanded ==
    ASSUME NEW r \in Race, NEW in \in Input, NEW after \in RaceUpdates(r, in),
           ~after.command
    PROVE  after.state = "disabled" /\ after.u = 0 /\ ~after.latched
<1>1. FaultHold(r, in.u).command /\ Disabled(r).latched = r.latched
  BY DEF FaultHold, Disabled, Race
<1>2. CASE after = FaultHold(r, in.u)
  BY <1>1, <1>2
<1>3. CASE after = UpdateDisable(r, in) /\ ~r.latched
  BY <1>1, <1>3 DEF UpdateDisable, Disabled, Recenter, Race
<1>4. ASSUME NEW w \in Wanted(r, in), after = Running(r, w)
      PROVE  FALSE
  BY <1>4 DEF Running, Race
<1> QED
  BY <1>2, <1>3, <1>4 DEF RaceUpdates

\* Requests and the end of the assist leave race mode in the motions it runs or
\* holds in.
LEMMA RaceMotions ==
    ASSUME NEW l \in Leg, NEW u \in U, NEW path \in BOOLEAN, NEW solves \in BOOLEAN,
           NEW after \in {l, Requested(l, u, path, solves), RaceDisabled(l, solves)},
           l.mode = "race" => l.motion \in {"race", "race_hold"}, after.mode = "race"
    PROVE  after.motion \in {"race", "race_hold"}
<1> DEFINE asked(p) == [l EXCEPT !.pending = p]
<1>1. \A p \in U : /\ asked(p) \in Leg /\ asked(p).pending # NoRequest
                   /\ asked(p).motion = l.motion /\ asked(p).mode = l.mode
  BY NoRequestAssumption DEF Leg
<1>2. 0 \in U
  BY ReachAssumption DEF U
<1> HIDE DEF asked
<1>3. \A p \in U : StartPending(asked(p), solves).motion \in {l.motion, "race_hold"}
  BY <1>1, StartPendingType
<1>4. CASE after = l
  BY <1>4
<1>5. CASE after = RaceDisabled(l, solves)
  <2>1. after \in {l, asked(0), StartPending(asked(0), solves)}
    BY <1>5 DEF RaceDisabled, asked
  <2> QED
    BY <1>1, <1>2, <1>3, <1>5, <2>1, RaceDisabledType
<1>6. CASE after = Requested(l, u, path, solves) /\ l.mode = "race"
  <2>1. after \in {l, asked(u), StartPending(asked(u), solves)}
    BY <1>6 DEF Requested, asked
  <2> QED
    BY <1>1, <1>3, <1>6, <2>1
<1>7. CASE after = Requested(l, u, path, solves) /\ l.mode # "race"
  BY <1>7 DEF Requested, Leg
<1> QED
  BY <1>4, <1>5, <1>6, <1>7

\* The supervisor's input is well typed and, the legs being at zero, says so
\* (control_chassis_update).
LEMMA RaceInputType ==
    ASSUME IInv, NEW abort \in BOOLEAN, NEW healthy \in BOOLEAN, NEW speed \in Speed
    PROVE  /\ RaceInput(abort, healthy, speed) \in Input
           /\ RaceInput(abort, healthy, speed).u = 0
           /\ RaceInput(abort, healthy, speed).speed = speed
           /\ RaceInput(abort, healthy, speed).fast = chassis.fast
<1>1. chassis \in Chassis /\ diag \in Diag /\ diag.u = 0
  BY DEF IInv, TypeOK, RaceIdle
<1>2. (\/ diag.motion = "race_hold"
       \/ diag.motion = "race" /\ ~diag.path) \in BOOLEAN
  OBVIOUS
<1> QED
  BY <1>1, <1>2 DEF RaceInput, Input, Chassis, Diag

\* A refused request is reported back, and the second update keeps to the record.
LEMMA ReportPathFaultType ==
    ASSUME NEW r \in Race
    PROVE  ReportPathFault(r) \in Race /\ ReportPathFault(r).pathFault
BY DEF ReportPathFault, Race

\* What a chassis update leaves of the supervisor: in maintenance mode it idles at
\* 0; outside it the locked legs refuse everything, so it is disabled or faulted.
LEMMA Supervised ==
    ASSUME IInv, NEW speed \in Speed, ChassisAt(speed)
    PROVE  /\ race' \in Race /\ race'.u = 0
           /\ race'.state \in {"disabled", "recenter", "fault_hold"}
           /\ race'.state = "recenter" => speed # "slow" /\ maintenance
           /\ race'.latched => race'.state = "fault_hold"
           /\ leg' \in Leg
           /\ leg'.mode = "lock" => leg' = leg
           /\ leg'.mode # "race" => leg' = leg
           /\ leg'.mode = "race" => /\ Centred(leg') /\ maintenance
                                    /\ leg'.motion \in {"race", "race_hold"}
<1>1. PICK abort \in BOOLEAN, feedback \in {"healthy", "broken", "stale"} :
        \E first \in RaceUpdates(race, RaceInput(abort, feedback # "stale", speed)),
           outcome \in Outcome :
          /\ race' \in IF first.command /\ ~Accepts(leg, first.u, outcome # "no_path",
                                                    outcome = "solved")
                           THEN RaceUpdates(ReportPathFault(first),
                                            RaceInput(abort, feedback # "stale", speed))
                           ELSE {first}
          /\ leg' = IF first.command
                        THEN Requested(leg, first.u, outcome # "no_path", outcome = "solved")
                    ELSE IF diag.motion = "race" /\ diag.u = 0
                        THEN RaceDisabled(leg, outcome = "solved")
                    ELSE leg
  BY DEF ChassisAt
<1> DEFINE in == RaceInput(abort, feedback # "stale", speed)
<1>2. PICK first \in RaceUpdates(race, in), path \in BOOLEAN, solves \in BOOLEAN :
          /\ race' \in IF first.command /\ ~Accepts(leg, first.u, path, solves)
                           THEN RaceUpdates(ReportPathFault(first), in)
                           ELSE {first}
          /\ leg' = IF first.command
                        THEN Requested(leg, first.u, path, solves)
                    ELSE IF diag.motion = "race" /\ diag.u = 0
                        THEN RaceDisabled(leg, solves)
                    ELSE leg
  BY <1>1
<1>3. in \in Input /\ in.u = 0 /\ in.speed = speed /\ in.fast = chassis.fast
  <2>1. (feedback # "stale") \in BOOLEAN
    OBVIOUS
  <2> QED
    BY <2>1, RaceInputType
<1> HIDE DEF in
<1>4. leg \in Leg /\ race \in Race /\ phase = "chassis" /\ 0 \in U
  BY ReachAssumption DEF IInv, TypeOK, ChassisAt, U
<1>5. first \in Race /\ ReportPathFault(first) \in Race
  BY <1>2, <1>3, <1>4, RaceUpdatesType, ReportPathFaultType
<1>6. race' \in Race
  BY <1>2, <1>3, <1>5, RaceUpdatesType
<1>7. first.u \in U
  BY <1>5 DEF Race
<1>8. leg' \in {leg, Requested(leg, first.u, path, solves), RaceDisabled(leg, solves)}
  BY <1>2
<1>9. /\ Requested(leg, first.u, path, solves) \in Leg
      /\ ~MayRequest(leg, path, solves) => Requested(leg, first.u, path, solves) = leg
      /\ MayRequest(leg, path, solves)
             => Requested(leg, first.u, path, solves).mode = "race"
  BY <1>4, <1>7, RequestedType
<1>10. /\ RaceDisabled(leg, solves) \in Leg
       /\ RaceDisabled(leg, solves).mode = leg.mode
       /\ leg.mode # "race" => RaceDisabled(leg, solves) = leg
  BY <1>4, RaceDisabledType
<1>11. /\ leg' \in Leg
       /\ leg'.mode # "race" => leg' = leg
       /\ leg'.mode = "race" => leg'.motion \in {"race", "race_hold"}
  <2>1. leg' \in Leg /\ (leg'.mode # "race" => leg' = leg)
    BY <1>4, <1>8, <1>9, <1>10
  <2>2. leg.mode = "race" => leg.motion \in {"race", "race_hold"}
    BY DEF IInv, RaceIdle
  <2> QED
    BY <1>4, <1>7, <1>8, <2>1, <2>2, RaceMotions
<1>12. CASE maintenance
  <2>1. ~in.fast
    BY <1>3, <1>4, <1>12 DEF IInv, StoppedInMaintenance
  <2>2. first.u = 0 /\ race'.u = 0
        /\ race'.state \in {"disabled", "recenter", "fault_hold"}
        /\ (race'.state = "recenter" => speed # "slow")
        /\ (race'.latched => race'.state = "fault_hold")
    BY <1>2, <1>3, <1>4, <1>5, <2>1, SlowlyIdle
  <2>3. leg.mode = "race" => Centred(leg)
    BY DEF IInv, RaceKeepsZero, Centred
  <2>4. leg'.mode = "race" => Centred(leg')
    <3>1. Requested(leg, 0, path, solves).mode = "race"
              => Centred(Requested(leg, 0, path, solves))
      BY <1>4, <2>3, RequestedCentred
    <3>2. leg.mode = "race" => Centred(RaceDisabled(leg, solves))
      BY <1>4, <2>3, RaceDisabledCentred
    <3>3. RaceDisabled(leg, solves).mode = leg.mode
      BY <1>4, RaceDisabledType
    <3> QED
      BY <1>8, <2>2, <2>3, <3>1, <3>2, <3>3
  <2> QED
    BY <1>6, <1>11, <1>12, <2>2, <2>4
<1>13. CASE ~maintenance
  <2>1. leg.mode = "lock" /\ (leg.motion = "fault" \/ (leg.motion = "locked" /\ ~leg.previous))
    BY <1>13 DEF IInv, LockedOutsideMaintenance, LockedRefuses
  <2>2. ~MayRequest(leg, path, solves)
    BY <2>1 DEF MayRequest
  <2>3. leg' = leg
    BY <1>8, <1>9, <1>10, <2>1, <2>2
  <2>4. CASE first.command
    <3>1. race' \in RaceUpdates(ReportPathFault(first), in)
      BY <1>2, <2>2, <2>4 DEF Accepts
    <3>2. race' = FaultHold(ReportPathFault(first), 0)
      BY <1>3, <1>5, <3>1, ReportPathFaultType, FaultHolds
    <3>3. race'.state = "fault_hold" /\ race'.u = 0
      BY <1>5, <3>2 DEF FaultHold, Race
    <3> QED
      BY <1>6, <1>11, <2>1, <2>3, <3>3
  <2>5. CASE ~first.command
    <3>1. race' = first
      BY <1>2, <2>5
    <3>2. race'.state = "disabled" /\ race'.u = 0 /\ ~race'.latched
      BY <1>2, <1>3, <1>4, <2>5, <3>1, Uncommanded
    <3> QED
      BY <1>6, <1>11, <2>1, <2>3, <3>2
  <2> QED
    BY <2>4, <2>5
<1> QED
  BY <1>12, <1>13

\* What a chassis update leaves of the target: a supervisor in FAULT_HOLD takes it
\* away, and only a target that the leg policy permits starts the ramp.
LEMMA Drives ==
    ASSUME IInv, NEW speed \in Speed, ChassisAt(speed)
    PROVE  /\ chassis' \in Chassis
           /\ chassis'.forward => chassis.forward
           /\ race'.state = "fault_hold" => ~chassis'.forward
           /\ ~chassis.ramped /\ chassis'.ramped
                  => chassis.forward /\ CanDrive(diag, race)
<1>1. chassis \in Chassis /\ Stopped \in Chassis
      /\ ~Stopped.forward /\ ~Stopped.ramped
  BY DEF IInv, TypeOK, Stopped, Chassis
<1>2. CASE chassis' = Stopped
  BY <1>1, <1>2
<1>3. ASSUME NEW moving \in {FALSE, chassis.ramped},
             chassis' = Driven(chassis, ~CanDrive(diag, race), race'.state, moving)
      PROVE  /\ chassis' \in Chassis
             /\ chassis'.forward => chassis.forward
             /\ race'.state = "fault_hold" => ~chassis'.forward
             /\ ~chassis.ramped /\ chassis'.ramped
                    => chassis.forward /\ CanDrive(diag, race)
  <2>1. moving \in BOOLEAN /\ (~chassis.ramped => ~moving)
    BY <1>1 DEF Chassis
  <2>2. CASE race'.state = "fault_hold"
    BY <1>1, <1>3, <2>1, <2>2 DEF Driven, Chassis
  <2>3. CASE race'.state = "recenter"
    <3>1. (chassis.forward \/ moving) \in BOOLEAN
      OBVIOUS
    <3>2. chassis' = [chassis EXCEPT !.ramped = chassis.forward \/ moving]
      BY <1>3, <2>3 DEF Driven
    <3>3. /\ chassis' \in Chassis
          /\ chassis'.forward = chassis.forward
          /\ chassis'.ramped = (chassis.forward \/ moving)
      BY <1>1, <3>1, <3>2 DEF Chassis
    <3>4. chassis.forward => ~maintenance
      BY DEF IInv, StoppedInMaintenance
    <3>5. maintenance
      BY <2>3, Supervised
    <3> QED
      BY <2>1, <2>3, <3>3, <3>4, <3>5
  <2>4. CASE race'.state \notin {"fault_hold", "recenter"}
    <3> DEFINE ramp == (chassis.forward /\ CanDrive(diag, race)) \/ moving
    <3>1. ramp \in BOOLEAN
      OBVIOUS
    <3>2. chassis' = [chassis EXCEPT !.ramped = ramp]
      BY <1>3, <2>4 DEF Driven
    <3> HIDE DEF ramp
    <3>3. chassis' \in Chassis /\ chassis'.forward = chassis.forward
          /\ chassis'.ramped = ramp
      BY <1>1, <3>1, <3>2 DEF Chassis
    <3> QED
      BY <2>1, <2>4, <3>3 DEF ramp
  <2> QED
    BY <2>2, <2>3, <2>4
<1>4. chassis' = Stopped \/ \E moving \in {FALSE, chassis.ramped} :
          chassis' = Driven(chassis, ~CanDrive(diag, race), race'.state, moving)
  BY DEF ChassisAt
<1> QED
  BY <1>2, <1>3, <1>4

\* A chassis update keeps the invariant.
LEMMA ChassisKeeps == ASSUME IInv, ChassisDue PROVE IInv'
<1>1. PICK speed \in Speed : ChassisAt(speed)
  BY DEF ChassisDue
<1>2. /\ race' \in Race /\ race'.u = 0
      /\ race'.state \in {"disabled", "recenter", "fault_hold"}
      /\ race'.latched => race'.state = "fault_hold"
      /\ leg' \in Leg
      /\ leg'.mode # "race" => leg' = leg
      /\ leg'.mode = "race" => /\ Centred(leg') /\ maintenance
                               /\ leg'.motion \in {"race", "race_hold"}
  BY <1>1, Supervised
<1>3. /\ chassis' \in Chassis
      /\ chassis'.forward => chassis.forward
      /\ race'.state = "fault_hold" => ~chassis'.forward
  BY <1>1, Drives
<1>4. /\ UNCHANGED gate /\ phase' = "host"
      /\ diag' = [diag EXCEPT !.path =
             @ /\ (leg'.motion = "race_hold" => leg.motion = "race_hold")]
  BY <1>1 DEF ChassisAt
<1>5. TypeOK /\ diag \in Diag
  BY DEF IInv, TypeOK
<1>6. /\ diag' \in Diag /\ diag'.u = diag.u
      /\ diag'.drive = diag.drive /\ diag'.motion = diag.motion
  <2>1. (diag.path /\ (leg'.motion = "race_hold" => leg.motion = "race_hold")) \in BOOLEAN
    OBVIOUS
  <2> QED
    BY <1>4, <1>5, <2>1 DEF Diag
<1>7. TypeOK'
  BY <1>2, <1>3, <1>4, <1>5, <1>6 DEF TypeOK, gate
<1>8. LockedOutsideMaintenance' /\ LockedRefuses'
  BY <1>2, <1>4 DEF IInv, LockedOutsideMaintenance, LockedRefuses, gate
<1>9. StoppedInMaintenance' /\ FaultHoldStops'
  BY <1>2, <1>3, <1>4 DEF IInv, StoppedInMaintenance, FaultHoldStops, gate
<1>10. RaceIdle' /\ RaceKeepsZero' /\ PermissionMoved'
  BY <1>2, <1>6 DEF IInv, RaceIdle, RaceKeepsZero, PermissionMoved, Centred
<1> QED
  BY <1>7, <1>8, <1>9, <1>10 DEF IInv

\* Every step keeps the invariant.
LEMMA Inductive == IInv /\ [Next]_vars => IInv'
<1> SUFFICES ASSUME IInv, [Next]_vars PROVE IInv'
  OBVIOUS
<1>1. CASE \/ HostStop \/ HostArm \/ HostMaintenance \/ HostBalanceOff
           \/ HostBalanceMode \/ Submit \/ Withdraw \/ HostRaceLevel \/ HostLeg
  BY <1>1, HostKeeps
<1>2. CASE Router
  BY <1>2, RouterKeeps
<1>3. CASE LegDue
  BY <1>3, LegDueKeeps
<1>4. CASE ChassisDue
  BY <1>4, ChassisKeeps
<1>5. CASE LegNotDue \/ ChassisNotDue \/ SegmentElapses \/ UNCHANGED vars
  BY <1>5, IdleKeeps
<1> QED
  BY <1>1, <1>2, <1>3, <1>4, <1>5 DEF Next

\* The invariant holds in every state of every behaviour.
LEMMA Always == Spec => []IInv
<1> QED
  BY Initially, Inductive, PTL DEF Spec

\* The legs in a soft fault take nothing from the chassis.
LEMMA SoftFaultRefuses ==
    ASSUME IInv, ChassisDue, leg.motion = "fault" PROVE leg' = leg
<1>1. leg \in Leg /\ race \in Race /\ leg.mode # "race"
  BY DEF IInv, TypeOK, RaceIdle
<1>2. \A u, path, solves : Requested(leg, u, path, solves) = leg
  BY DEF Requested, MayRequest
<1>3. \A solves : RaceDisabled(leg, solves) = leg
  BY <1>1 DEF RaceDisabled
<1> QED
  BY <1>2, <1>3 DEF ChassisDue, ChassisAt

\* The ramp starts in a chassis update, outside maintenance mode, on a target that
\* the leg policy permits.
LEMMA RampStarts ==
    ASSUME IInv, [Next]_vars, ~chassis.ramped, chassis'.ramped
    PROVE  CanDrive(diag, race) /\ ~maintenance
<1>1. CASE ChassisDue
  <2>1. PICK speed \in Speed : ChassisAt(speed)
    BY <1>1 DEF ChassisDue
  <2>2. chassis.forward /\ CanDrive(diag, race)
    BY <2>1, Drives
  <2> QED
    BY <2>2 DEF IInv, StoppedInMaintenance
<1>2. CASE ~ChassisDue
  <2>1. chassis \in Chassis
    BY DEF IInv, TypeOK
  <2>2. SetCmd(chassis, request').ramped = chassis.ramped
    BY <2>1 DEF SetCmd, Chassis
  <2>3. \A fast : [chassis EXCEPT !.fast = fast].ramped = chassis.ramped
    BY <2>1 DEF Chassis
  <2>4. chassis' \in {chassis, Stopped, SetCmd(chassis, request')}
        \/ \E fast \in BOOLEAN : chassis' = [chassis EXCEPT !.fast = fast]
    BY <1>2 DEF Next, HostStop, HostArm, HostMaintenance, HostBalanceOff,
       HostBalanceMode, Submit, Withdraw, HostRaceLevel, HostLeg, Router, LegDue,
       LegNotDue, ChassisNotDue, SegmentElapses, vars
  <2>5. chassis' \in {chassis, Stopped, SetCmd(chassis, request')}
            => chassis'.ramped \in {chassis.ramped, FALSE}
    BY <2>2 DEF Stopped
  <2> QED
    BY <2>3, <2>4, <2>5
<1> QED
  BY <1>1, <1>2

\* A target stands on an output of the router, and an output on a router that
\* nothing stops.
OutputInv ==
    /\ chassis.forward => active
    /\ active => enabled /\ ~maintenance /\ ~emergency

\* Every step keeps the target within the output, and the output within the gate
\* (motion_command_router_update, host_command_process_line).
LEMMA OutputKept == ASSUME IInv, OutputInv, [Next]_vars PROVE OutputInv'
<1>1. chassis \in Chassis /\ ~Stopped.forward
  BY DEF IInv, TypeOK, Stopped
<1>2. CASE HostStop \/ HostArm \/ HostMaintenance \/ HostBalanceOff
  BY <1>1, <1>2 DEF HostStop, HostArm, HostMaintenance, HostBalanceOff, OutputInv
<1>3. CASE HostBalanceMode
  <2>1. PICK fast \in BOOLEAN : chassis' = [chassis EXCEPT !.fast = fast]
    BY <1>3 DEF HostBalanceMode
  <2>2. chassis'.forward = chassis.forward
    BY <1>1, <2>1 DEF Chassis
  <2> QED
    BY <1>3, <2>2 DEF HostBalanceMode, gate, OutputInv
<1>4. CASE Withdraw
  <2>1. active' = FALSE /\ chassis' = IF active THEN Stopped ELSE chassis
    BY <1>4 DEF Withdraw
  <2>2. CASE active
    BY <1>1, <2>1, <2>2 DEF OutputInv
  <2>3. CASE ~active
    BY <2>1, <2>3 DEF OutputInv
  <2> QED
    BY <2>2, <2>3
<1>5. CASE Router
  <2>1. CASE MustStop(enabled')
    BY <1>1, <1>5, <2>1 DEF Router, OutputInv
  <2>2. CASE ~MustStop(enabled')
    <3>1. active' = (request' # "none") /\ maintenance' = maintenance
          /\ emergency' = emergency
      BY <1>5, <2>2 DEF Router
    <3>2. enabled' /\ ~maintenance' /\ ~emergency'
      BY <2>2, <3>1 DEF MustStop
    <3>3. request' # "none" \/ (active /\ chassis' = Stopped)
          \/ (~active /\ chassis' = chassis)
      BY <1>5, <2>2 DEF Router
    <3> QED
      BY <1>1, <3>1, <3>2, <3>3 DEF OutputInv
  <2> QED
    BY <2>1, <2>2
<1>6. CASE ChassisDue
  <2>1. PICK speed \in Speed : ChassisAt(speed)
    BY <1>6 DEF ChassisDue
  <2>2. chassis'.forward => chassis.forward
    BY <2>1, Drives
  <2> QED
    BY <2>1, <2>2 DEF ChassisAt, gate, OutputInv
<1>7. CASE \/ Submit \/ HostRaceLevel \/ HostLeg \/ LegDue \/ LegNotDue
           \/ ChassisNotDue \/ SegmentElapses \/ UNCHANGED vars
  BY <1>7 DEF Submit, HostRaceLevel, HostLeg, LegDue, LegNotDue, ChassisNotDue,
              SegmentElapses, vars, gate, OutputInv
<1> QED
  BY <1>2, <1>3, <1>4, <1>5, <1>6, <1>7 DEF Next

-----------------------------------------------------------------------------
(* The theorems.                                                           *)

\* Every state variable keeps to its values, for every reach and number of levels.
THEOREM TypeCorrect == Spec => []TypeOK
<1>1. IInv => TypeOK
  BY DEF IInv
<1> QED
  BY <1>1, Always, PTL

\* Outside maintenance mode the legs are locked (host_command_process_line,
\* control_leg_set_mode, control_leg_set_race_assist_request).
THEOREM LegsLocked == Spec => []LockedOutsideMaintenance
<1>1. IInv => LockedOutsideMaintenance
  BY DEF IInv
<1> QED
  BY <1>1, Always, PTL

\* The race trajectory never leaves the low-race zero (control_leg_race_update).
THEOREM RaceStaysAtZero == Spec => []RaceKeepsZero
<1>1. IInv => RaceKeepsZero
  BY DEF IInv
<1> QED
  BY <1>1, Always, PTL

\* A latched fault of the race assist holds, without a forward target
\* (control_race_assist_update, control_chassis_update).
THEOREM FaultHoldIsFinal == Spec => []FaultHoldStops
<1>1. IInv => FaultHoldStops
  BY DEF IInv
<1> QED
  BY <1>1, Always, PTL

\* Only LH, in maintenance mode, leaves a soft fault (control_leg.c).
THEOREM SoftFault == Spec => SoftFaultNeedsLH
<1> DEFINE Cleared == leg.motion = "fault" /\ leg'.motion # "fault"
                          => maintenance /\ leg'.mode = "legacy"
<1>1. ASSUME IInv, [Next]_vars PROVE [Cleared]_vars
  <2>1. leg \in Leg
    BY <1>1 DEF IInv, TypeOK
  <2>2. CASE HostStop \/ HostMaintenance
    <3>1. leg' = SetLock(leg)
      BY <2>2 DEF HostStop, HostMaintenance
    <3> QED
      BY <2>1, <3>1, SetLockType
  <2>3. CASE \/ HostArm \/ HostBalanceOff \/ HostBalanceMode \/ Submit \/ Withdraw
             \/ HostRaceLevel \/ Router \/ LegNotDue \/ ChassisNotDue
             \/ UNCHANGED vars
    <3>1. leg' = leg
      BY <2>3 DEF HostArm, HostBalanceOff, HostBalanceMode, Submit, Withdraw,
                  HostRaceLevel, Router, LegNotDue, ChassisNotDue, vars
    <3> QED
      BY <3>1
  <2>4. CASE HostLeg
    <3>1. PICK solves \in BOOLEAN :
              leg' \in {SetLegacy(leg), SetPose(leg, "fast"), SetPose(leg, "calib"),
                        SetReference(leg, solves), SetXY(leg, solves)}
      BY <2>4 DEF HostLeg
    <3>2. leg.motion = "fault" /\ leg'.motion # "fault" => leg'.mode = "legacy"
      BY <2>1, <3>1, LegCommandType
    <3> QED
      BY <2>4, <3>2 DEF HostLeg
  <2>5. CASE LegDue
    <3>1. PICK x \in UpdateInput(leg) : leg' = LegUpdate(leg, x)
      BY <2>5 DEF LegDue
    <3> QED
      BY <2>1, <3>1, LegUpdateType
  <2>6. CASE ChassisDue
    BY <1>1, <2>6, SoftFaultRefuses
  <2>7. CASE SegmentElapses
    BY <2>1, <2>7 DEF SegmentElapses, Leg
  <2> QED
    BY <1>1, <2>2, <2>3, <2>4, <2>5, <2>6, <2>7 DEF Next
<1>2. Spec => [][Cleared]_vars
  BY <1>1, Always, PTL DEF Spec
<1> QED
  BY <1>2 DEF SoftFaultNeedsLH

\* The ramp of the forward speed leaves 0 only for a target that the policy permits,
\* never for RECENTER alone (control_chassis_update).
THEOREM RampPolicy == Spec => RampObeysPolicy
<1>1. ASSUME IInv, [Next]_vars, ~chassis.ramped, chassis'.ramped
      PROVE  CanDrive(diag, race)
  BY <1>1, RampStarts
<1>2. ASSUME IInv, [Next]_vars
      PROVE  [~chassis.ramped /\ chassis'.ramped => CanDrive(diag, race)]_vars
  BY <1>1, <1>2
<1>3. Spec => [][~chassis.ramped /\ chassis'.ramped => CanDrive(diag, race)]_vars
  BY <1>2, Always, PTL DEF Spec
<1> QED
  BY <1>3 DEF RampObeysPolicy

\* The permission is always an old one: the legs are locked already when the ramp
\* starts, and what permits it are diagnostics from before.
THEOREM RampStale == Spec => RampNeedsStaleDiag
<1>1. ASSUME IInv, [Next]_vars, ~chassis.ramped, chassis'.ramped
      PROVE  leg.mode = "lock" /\ diag.motion # "locked"
  <2>1. CanDrive(diag, race) /\ ~maintenance
    BY <1>1, RampStarts
  <2> QED
    BY <1>1, <2>1 DEF CanDrive, IInv, LockedOutsideMaintenance, PermissionMoved
<1>2. ASSUME IInv, [Next]_vars
      PROVE  [~chassis.ramped /\ chassis'.ramped
                  => leg.mode = "lock" /\ diag.motion # "locked"]_vars
  BY <1>1, <1>2
<1>3. Spec => [][~chassis.ramped /\ chassis'.ramped
                     => leg.mode = "lock" /\ diag.motion # "locked"]_vars
  BY <1>2, Always, PTL DEF Spec
<1> QED
  BY <1>3 DEF RampNeedsStaleDiag

\* At low speed a chassis update never ends in RECENTER
\* (control_race_assist_update_disable).
THEOREM SlowRecenter == Spec => SlowEndsRecenter
<1>1. "slow" \in Speed
  BY DEF Speed
<1>2. ASSUME IInv, race'.state = "recenter", ChassisAt("slow")
      PROVE  FALSE
  BY <1>1, <1>2, Supervised
<1>3. ASSUME IInv, [Next]_vars
      PROVE  [race'.state = "recenter" => ~ChassisAt("slow")]_vars
  BY <1>2, <1>3
<1>4. Spec => [][race'.state = "recenter" => ~ChassisAt("slow")]_vars
  BY <1>3, Always, PTL DEF Spec
<1> QED
  BY <1>4 DEF SlowEndsRecenter

\* The chassis holds a forward target only while the router's output is on, with no
\* safety fault, maintenance mode or emergency stop (motion_command_router_update).
THEOREM TargetStandsOnOutput == Spec => []TargetNeedsOutput
<1>1. Init => OutputInv
  BY DEF Init, Stopped, OutputInv
<1>2. IInv /\ OutputInv /\ [Next]_vars => OutputInv'
  BY OutputKept
<1>3. OutputInv => TargetNeedsOutput
  BY DEF OutputInv, TargetNeedsOutput
<1> QED
  BY <1>1, <1>2, <1>3, Always, PTL DEF Spec
=============================================================================
