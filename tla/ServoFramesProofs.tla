-------------------------- MODULE ServoFramesProofs --------------------------
(***************************************************************************)
(* Proofs about ServoFrames, for any servos, poses, speeds and grid.  The  *)
(* inductive invariant relates the inactive frame to the command that is   *)
(* being stored and, after a fault, both to the dark channels.  A second   *)
(* one follows a servo that passes a pose on its way to an older one: it   *)
(* is near that pose for fewer ticks than settling takes.                  *)
(***************************************************************************)
EXTENDS ServoFrames, TLAPS

(* The inductive invariant.                                                *)

\* Outside a publish the inactive frame holds a pose as a whole, too.
InactiveIsPose == pc # "store" => frame[Inactive].angle \in Pose

\* In a publish it holds the new command for the servos that were stored.
StoredIsOrder ==
    pc = "store" =>
        \A s \in Servo \ todo :
            /\ frame[Inactive].angle[s] = order.pose[s]
            /\ frame[Inactive].enable[s] = order.enable

\* After a fault nothing is enabled and nothing that is published enables.
NothingEnabled ==
    fault /\ pc # "disable" =>
        /\ \A s \in Servo : frame[active].enable[s] = FALSE
        /\ pc = "store" => order.enable = FALSE

IInv == /\ TypeOK /\ FramesAreWhole /\ DarkAfterFault
        /\ InactiveIsPose /\ StoredIsOrder /\ NothingEnabled

-----------------------------------------------------------------------------
(* Frames and angles.                                                      *)

LEMMA Indices ==
  ASSUME active \in Index
  PROVE  Inactive \in Index /\ Inactive # active /\ active = 1 - Inactive
         /\ Index = {active, Inactive}
  BY DEF Index, Inactive

LEMMA Stepping ==
  ASSUME NEW from \in Angle, NEW to \in Angle, NEW step \in Nat
  PROVE  Stepped(from, to, step) \in Angle
  BY ServoAssumption DEF Stepped, Distance, Angle

LEMMA Frames ==
  ASSUME NEW f \in Frame
  PROVE  /\ f.angle \in [Servo -> Angle] /\ f.enable \in [Servo -> BOOLEAN]
         /\ f.mode \in Mode
  BY DEF Frame

LEMMA Offs ==
  ASSUME NEW pose \in Pose
  PROVE  /\ pose \in [Servo -> Angle] /\ Off(pose) \in Frame
         /\ Off(pose).angle = pose
         /\ \A s \in Servo : Off(pose).enable[s] = FALSE
  BY ServoAssumption DEF Off, All, Frame, Mode

-----------------------------------------------------------------------------
(* The invariant holds at first and is kept by every step.                 *)

LEMMA InitInv == Init => IInv
  <1> SUFFICES ASSUME NEW mid \in Pose,
                      /\ frame = [i \in Index |-> Off(mid)] /\ active = 0
                      /\ target = mid /\ filtered = mid /\ output = mid
                      /\ ticks = All(0) /\ duty = All(Dark)
                      /\ diagOutput = mid /\ diagSettled = FALSE
                      /\ pc = "idle" /\ todo = {} /\ fault = FALSE
                      /\ seen = Unseen
                      /\ order = [pose |-> mid, mode |-> "normal",
                                  enable |-> FALSE, planned |-> FALSE,
                                  timed |-> FALSE]
                      /\ waited = 0 /\ stable = FALSE /\ held = 0 /\ short = 0
                      /\ issued = Off(mid)
               PROVE  IInv
    BY DEF Init
  <1>1. TypeOK
    <2>1. /\ mid \in [Servo -> Angle] /\ Off(mid) \in Frame
          /\ frame \in [Index -> Frame] /\ active \in Index
      BY Offs DEF Index
    <2>2. ticks \in [Servo -> 0..SettleTicks]
      BY ServoAssumption DEF All
    <2>3. duty \in [Servo -> Angle \cup {Dark}]
      BY DEF All
    <2>4. /\ seen \in [output : [Servo -> Angle], settled : BOOLEAN]
          /\ order \in [pose : Pose, mode : Mode, enable : BOOLEAN,
                       planned : BOOLEAN, timed : BOOLEAN]
      BY <2>1, ServoAssumption DEF Mode, Unseen, All, Angle
    <2>5. held \in 0..Hold /\ short \in Nat /\ waited \in 0..SettleUpdates
      BY ServoAssumption
    <2> QED
      BY <2>1, <2>2, <2>3, <2>4, <2>5 DEF TypeOK
  <1>2. Inactive \in Index /\ active \in Index
    BY DEF Inactive, Index
  <1>3. FramesAreWhole /\ DarkAfterFault /\ InactiveIsPose /\ StoredIsOrder
        /\ NothingEnabled
    BY <1>2, Offs DEF FramesAreWhole, DarkAfterFault, InactiveIsPose,
       StoredIsOrder, NothingEnabled
  <1> QED
    BY <1>1, <1>3 DEF IInv

LEMMA TickStep ==
  ASSUME IInv, Tick
  PROVE  IInv'
  <1> DEFINE f == frame[active]
  <1>1. /\ f \in Frame /\ MaxStep[f.mode] \in Nat
        /\ filtered' \in [Servo -> Angle]
        /\ UNCHANGED <<frame, active, pc, todo, fault, seen, order, waited,
                       stable, short, issued>>
    BY ServoAssumption, Frames DEF Tick, IInv, TypeOK, Frame, frameVars, legVars
  <1>2. output' \in [Servo -> Angle] /\ target' \in [Servo -> Angle]
    <2>1. /\ f.angle \in [Servo -> Angle] /\ output \in [Servo -> Angle]
          /\ target' = [s \in Servo |-> IF f.enable[s] THEN f.angle[s]
                                                       ELSE output[s]]
          /\ output' = [s \in Servo |->
                 IF f.enable[s]
                 THEN Stepped(output[s], filtered'[s], MaxStep[f.mode])
                 ELSE output[s]]
      BY <1>1, Frames DEF Tick, IInv, TypeOK
    <2> HIDE DEF f
    <2>2. ASSUME NEW s \in Servo
          PROVE  Stepped(output[s], filtered'[s], MaxStep[f.mode]) \in Angle
      BY <1>1, <2>1, Stepping
    <2> QED
      BY <2>1, <2>2
  <1>3. ticks' \in [Servo -> 0..SettleTicks]
    BY ServoAssumption DEF Tick, IInv, TypeOK
  <1>4. duty' = [s \in Servo |-> IF f.enable[s] THEN output'[s] ELSE Dark]
    BY DEF Tick
  <1>5. duty' \in [Servo -> Angle \cup {Dark}]
    BY <1>2, <1>4
  <1>6. diagSettled' \in BOOLEAN /\ diagOutput' = output' /\ held' \in 0..Hold
    BY ServoAssumption DEF Tick, IInv, TypeOK
  <1>7. TypeOK'
    BY <1>1, <1>2, <1>3, <1>5, <1>6 DEF IInv, TypeOK
  <1>8. DarkAfterFault'
    BY <1>1, <1>4 DEF IInv, NothingEnabled, DarkAfterFault, All
  <1>9. (FramesAreWhole /\ InactiveIsPose /\ StoredIsOrder /\ NothingEnabled)'
    BY <1>1 DEF IInv, FramesAreWhole, InactiveIsPose, StoredIsOrder,
       NothingEnabled, Inactive
  <1> QED
    BY <1>7, <1>8, <1>9 DEF IInv

LEMMA FaultStep ==
  ASSUME IInv, Fault
  PROVE  IInv'
  <1>1. TypeOK'
    BY DEF Fault, IInv, TypeOK, frameVars, motionVars, diagVars, legVars,
       scheduleVars
  <1>2. (FramesAreWhole /\ DarkAfterFault /\ InactiveIsPose /\ StoredIsOrder
         /\ NothingEnabled)'
    BY DEF Fault, IInv, TypeOK, frameVars, motionVars, diagVars, legVars,
       FramesAreWhole, DarkAfterFault, InactiveIsPose, StoredIsOrder,
       NothingEnabled, Inactive
  <1> QED
    BY <1>1, <1>2 DEF IInv

\* The frame that becomes active is a pose, disabled as a whole.
LEMMA DisableStep ==
  ASSUME IInv, Disable
  PROVE  IInv'
  <1>1. /\ active \in Index /\ Inactive \in Index /\ Inactive # active
        /\ active = 1 - Inactive /\ frame \in [Index -> Frame]
    BY Indices DEF IInv, TypeOK
  <1>2. /\ pc = "disable" /\ pc' = "idle" /\ active' = Inactive
        /\ frame' = [frame EXCEPT ![Inactive].enable = All(FALSE)]
        /\ duty' = All(Dark) /\ issued' = frame'[active']
        /\ UNCHANGED <<target, filtered, output, ticks, diagVars, todo, fault,
                       legVars, scheduleVars>>
    BY DEF Disable
  <1>3. /\ frame' \in [Index -> Frame]
        /\ frame'[Inactive].enable = All(FALSE)
        /\ frame'[Inactive].angle = frame[Inactive].angle
        /\ frame'[active] = frame[active]
    BY <1>1, <1>2 DEF Frame, All
  <1>4. Inactive' = active
    BY <1>1, <1>2 DEF Inactive
  <1>5. duty' \in [Servo -> Angle \cup {Dark}] /\ issued' \in Frame
    BY <1>1, <1>2, <1>3 DEF All
  <1>6. TypeOK'
    BY <1>1, <1>2, <1>3, <1>5 DEF IInv, TypeOK, diagVars, legVars,
       scheduleVars
  <1>7. FramesAreWhole' /\ InactiveIsPose'
    BY <1>1, <1>2, <1>3, <1>4 DEF IInv, FramesAreWhole, InactiveIsPose, All
  <1>8. DarkAfterFault' /\ StoredIsOrder' /\ NothingEnabled'
    BY <1>1, <1>2, <1>3 DEF DarkAfterFault, StoredIsOrder, NothingEnabled, All
  <1> QED
    BY <1>6, <1>7, <1>8 DEF IInv

LEMMA LegBeginStep ==
  ASSUME IInv, LegBegin
  PROVE  IInv'
  <1>1. TypeOK'
    BY DEF LegBegin, IInv, TypeOK, frameVars, motionVars, diagVars,
       scheduleVars
  <1>2. (FramesAreWhole /\ DarkAfterFault /\ InactiveIsPose /\ StoredIsOrder
         /\ NothingEnabled)'
    BY DEF LegBegin, IInv, TypeOK, frameVars, motionVars, diagVars,
       FramesAreWhole, DarkAfterFault, InactiveIsPose, StoredIsOrder,
       NothingEnabled, Inactive
  <1> QED
    BY <1>1, <1>2 DEF IInv

\* A command that is made after a fault enables nothing.
LEMMA DecideStep ==
  ASSUME IInv, NEW o \in Orders, Decide(o)
  PROVE  IInv'
  <1>1. /\ o \in [pose : Pose, mode : Mode, enable : BOOLEAN, planned : BOOLEAN,
               timed : BOOLEAN]
        /\ (fault => o.enable = FALSE)
    BY DEF Orders, IInv, TypeOK
  <1>2. /\ pc = "decide" /\ pc' = "store" /\ order' = o
        /\ seen' = Unseen /\ todo' = Servo \cup {"mode"}
        /\ UNCHANGED <<frameVars, motionVars, diagVars, fault, scheduleVars,
                       issued>>
    BY DEF Decide
  <1>3. stable' \in BOOLEAN
    BY <1>1, Zenon DEF Decide, CanStabilize, Complete, IInv, TypeOK
  <1>7. waited' \in 0..SettleUpdates
    <2>1. waited \in 0..SettleUpdates /\ SettleUpdates \in Nat
      BY ServoAssumption DEF IInv, TypeOK
    <2>2. Waited(o) \in 0..SettleUpdates
      BY <2>1 DEF Waited
    <2> QED
      BY <2>2 DEF Decide
  <1>6. Unseen \in [output : [Servo -> Angle], settled : BOOLEAN]
    BY ServoAssumption DEF Unseen, All, Angle
  <1>4. TypeOK'
    BY <1>1, <1>2, <1>3, <1>6, <1>7 DEF IInv, TypeOK, frameVars, motionVars, diagVars,
       scheduleVars
  <1>5. (FramesAreWhole /\ DarkAfterFault /\ InactiveIsPose /\ StoredIsOrder
         /\ NothingEnabled)'
    BY <1>1, <1>2 DEF IInv, frameVars, motionVars, FramesAreWhole,
       DarkAfterFault, InactiveIsPose, StoredIsOrder, NothingEnabled, Inactive
  <1> QED
    BY <1>4, <1>5 DEF IInv

\* A store changes the inactive frame only.
LEMMA StoreServoStep ==
  ASSUME IInv, NEW s \in Servo, StoreServo(s)
  PROVE  IInv'
  <1>1. /\ active \in Index /\ Inactive \in Index /\ Inactive # active
        /\ frame \in [Index -> Frame] /\ frame[Inactive] \in Frame
        /\ order.pose \in [Servo -> Angle] /\ order.enable \in BOOLEAN
    BY Indices, ServoAssumption DEF IInv, TypeOK
  <1>2. /\ pc = "store" /\ todo' = todo \ {s}
        /\ frame' = [frame EXCEPT ![Inactive].angle[s] = order.pose[s],
                                  ![Inactive].enable[s] = order.enable]
        /\ UNCHANGED <<active, motionVars, diagVars, pc, fault, legVars,
                       scheduleVars, issued>>
    BY DEF StoreServo
  <1> DEFINE g == [frame EXCEPT ![Inactive].angle[s] = order.pose[s]]
  <1>3. /\ g \in [Index -> Frame] /\ g[active] = frame[active]
        /\ g[Inactive].angle = [frame[Inactive].angle EXCEPT ![s] = order.pose[s]]
        /\ g[Inactive].enable = frame[Inactive].enable
    BY <1>1 DEF Frame
  <1>4. /\ frame' \in [Index -> Frame] /\ frame'[active] = frame[active]
        /\ frame'[Inactive].angle = [frame[Inactive].angle EXCEPT ![s] = order.pose[s]]
        /\ frame'[Inactive].enable = [frame[Inactive].enable EXCEPT ![s] = order.enable]
    <2>1. frame' = [g EXCEPT ![Inactive].enable[s] = order.enable]
      BY <1>2
    <2> HIDE DEF g
    <2> QED
      BY <1>1, <1>3, <2>1 DEF Frame
  <1>6. Inactive' = Inactive
    BY <1>2 DEF Inactive
  <1>7. TypeOK'
    BY <1>1, <1>2, <1>4 DEF IInv, TypeOK, motionVars, diagVars, legVars,
       scheduleVars
  <1>8. StoredIsOrder'
    <2>1. ASSUME NEW t \in Servo \ todo'
          PROVE  /\ frame'[Inactive].angle[t] = order.pose[t]
                 /\ frame'[Inactive].enable[t] = order.enable
      <3>1. CASE t = s
        BY <1>1, <1>4, <3>1, Frames
      <3>2. CASE t # s
        BY <1>1, <1>2, <1>4, <3>2, Frames DEF IInv, StoredIsOrder
      <3> QED
        BY <3>1, <3>2
    <2> QED
      BY <1>2, <1>6, <2>1 DEF StoredIsOrder, legVars
  <1>9. (FramesAreWhole /\ DarkAfterFault /\ InactiveIsPose /\ NothingEnabled)'
    <2>1. /\ frame'[active'] = frame[active] /\ pc = "store"
          /\ UNCHANGED <<active, pc, fault, issued, order, duty>>
      BY <1>2, <1>4 DEF motionVars, legVars
    <2> QED
      BY <2>1 DEF IInv, FramesAreWhole, DarkAfterFault, InactiveIsPose,
         NothingEnabled
  <1> QED
    BY <1>7, <1>8, <1>9 DEF IInv

LEMMA StoreModeStep ==
  ASSUME IInv, StoreMode
  PROVE  IInv'
  <1>1. /\ active \in Index /\ Inactive \in Index /\ Inactive # active
        /\ frame \in [Index -> Frame] /\ frame[Inactive] \in Frame
        /\ order.mode \in Mode
    BY Indices DEF IInv, TypeOK
  <1>2. /\ pc = "store" /\ todo = {"mode"} /\ todo' = {}
        /\ frame' = [frame EXCEPT ![Inactive].mode = order.mode]
        /\ UNCHANGED <<active, motionVars, diagVars, pc, fault, legVars,
                       scheduleVars, issued>>
    BY DEF StoreMode
  <1>3. /\ frame' \in [Index -> Frame]
        /\ frame'[Inactive].angle = frame[Inactive].angle
        /\ frame'[Inactive].enable = frame[Inactive].enable
        /\ frame'[active] = frame[active]
    BY <1>1, <1>2 DEF Frame
  <1>4. Inactive' = Inactive
    BY <1>2 DEF Inactive
  <1>5. TypeOK'
    BY <1>1, <1>2, <1>3 DEF IInv, TypeOK, motionVars, diagVars, legVars,
       scheduleVars
  <1>6. StoredIsOrder'
    BY <1>2, <1>3, <1>4, ServoAssumption DEF IInv, StoredIsOrder, legVars
  <1>7. (FramesAreWhole /\ DarkAfterFault /\ InactiveIsPose /\ NothingEnabled)'
    BY <1>2, <1>3 DEF IInv, motionVars, legVars, FramesAreWhole,
       DarkAfterFault, InactiveIsPose, NothingEnabled
  <1> QED
    BY <1>5, <1>6, <1>7 DEF IInv

\* When everything is stored the inactive frame is the command.
LEMMA Stored ==
  ASSUME IInv, pc = "store", todo = {}
  PROVE  /\ frame[Inactive] \in Frame /\ Inactive \in Index /\ active \in Index
         /\ 1 - Inactive = active
         /\ frame[Inactive].angle = order.pose /\ order.pose \in Pose
         /\ \A s \in Servo : frame[Inactive].enable[s] = order.enable
         /\ frame[active].angle \in Pose
  <1>1. /\ frame[Inactive] \in Frame /\ Inactive \in Index /\ active \in Index
        /\ 1 - Inactive = active
    BY Indices DEF IInv, TypeOK
  <1>2. order.pose \in Pose /\ order.pose \in [Servo -> Angle]
    BY ServoAssumption DEF IInv, TypeOK
  <1>3. frame[Inactive].angle \in [Servo -> Angle]
    BY <1>1, Frames
  <1>4. \A s \in Servo : frame[Inactive].angle[s] = order.pose[s]
                         /\ frame[Inactive].enable[s] = order.enable
    BY DEF IInv, StoredIsOrder
  <1>5. frame[Inactive].angle = order.pose
    BY <1>2, <1>3, <1>4
  <1> QED
    BY <1>1, <1>2, <1>4, <1>5 DEF IInv, FramesAreWhole

LEMMA SwitchStep ==
  ASSUME IInv, Switch \/ SwitchDirect
  PROVE  IInv'
  <1>1. /\ pc = "store" /\ todo = {} /\ pc' = "idle" /\ active' = Inactive
        /\ issued' = frame[Inactive] /\ held' = 0 /\ short' \in Nat
        /\ UNCHANGED <<frame, diagVars, todo, fault, legVars>>
    BY DEF Switch, SwitchDirect, Handover, IInv, TypeOK
  <1>2. Inactive' = active
    BY <1>1, Stored DEF Inactive
  <1>3. /\ target' \in [Servo -> Angle] /\ filtered' \in [Servo -> Angle]
        /\ output' \in [Servo -> Angle] /\ ticks' \in [Servo -> 0..SettleTicks]
        /\ duty' \in [Servo -> Angle \cup {Dark}]
    <2>1. CASE Switch
      BY <2>1 DEF Switch, motionVars, IInv, TypeOK
    <2>2. CASE SwitchDirect
      <3>1. issued'.angle \in [Servo -> Angle]
        BY <1>1, Stored, Frames
      <3>2. /\ target' = issued'.angle /\ filtered' = issued'.angle
            /\ output' = issued'.angle /\ ticks' = All(0)
            /\ duty' = [s \in Servo |-> IF issued'.enable[s] THEN output'[s]
                                                             ELSE duty[s]]
        BY <2>2 DEF SwitchDirect
      <3>3. All(0) \in [Servo -> 0..SettleTicks]
        BY ServoAssumption DEF All
      <3>4. duty' \in [Servo -> Angle \cup {Dark}]
        BY <3>1, <3>2 DEF IInv, TypeOK
      <3> QED
        BY <3>1, <3>2, <3>3, <3>4
    <2> QED
      BY <2>1, <2>2
  <1>4. TypeOK'
    BY <1>1, <1>3, Stored, ServoAssumption DEF IInv, TypeOK, diagVars, legVars
  <1>5. FramesAreWhole' /\ InactiveIsPose' /\ StoredIsOrder'
    BY <1>1, <1>2, Stored DEF FramesAreWhole, InactiveIsPose, StoredIsOrder
  <1>6. ASSUME fault PROVE \A s \in Servo : frame[Inactive].enable[s] = FALSE
    BY <1>1, <1>6, Stored DEF IInv, NothingEnabled
  <1>7. DarkAfterFault'
    <2> SUFFICES ASSUME fault PROVE duty' = All(Dark)
      BY <1>1 DEF DarkAfterFault
    <2>1. duty = All(Dark)
      BY <1>1 DEF IInv, DarkAfterFault
    <2>2. CASE Switch
      BY <2>1, <2>2 DEF Switch, motionVars
    <2>3. CASE SwitchDirect
      BY <1>1, <1>6, <2>1, <2>3 DEF SwitchDirect, All
    <2> QED
      BY <2>2, <2>3
  <1>8. NothingEnabled'
    BY <1>1, <1>6 DEF NothingEnabled
  <1> QED
    BY <1>4, <1>5, <1>7, <1>8 DEF IInv

LEMMA InvStep == IInv /\ [Next]_vars => IInv'
  <1> SUFFICES ASSUME IInv, [Next]_vars PROVE IInv'
    OBVIOUS
  <1>1. CASE UNCHANGED vars
    BY <1>1 DEF vars, frameVars, motionVars, diagVars, legVars, scheduleVars,
       IInv, TypeOK, FramesAreWhole, DarkAfterFault, InactiveIsPose, StoredIsOrder,
       NothingEnabled, Inactive
  <1>2. CASE Next
    BY <1>2, TickStep, FaultStep, DisableStep, LegBeginStep, DecideStep,
       StoreServoStep, StoreModeStep, SwitchStep
    DEF Next, LegUpdate, Publish
  <1> QED
    BY <1>1, <1>2

\* The invariant holds in every reachable state.
THEOREM Invariance == Spec => []IInv
  BY InitInv, InvStep, PTL DEF Spec

-----------------------------------------------------------------------------
(* A servo on its way.  Its filter runs ahead of it; within a tick in which *)
(* it is near the commanded angle it either catches the filter or passes    *)
(* the angle by a full step.                                                *)

Near(a, b) == Distance(a, b) <= SettleError

\* The output y is d or more on its way from f to the filter x, less an error.
Passing(x, y, f, d) ==
    \/ x < y /\ y + d <= f + SettleError
    \/ y < x /\ f + d <= y + SettleError

LEMMA Angles == Angle \subseteq Nat /\ SettleError \in Nat
  BY ServoAssumption DEF Angle

LEMMA Symmetry ==
  ASSUME NEW a \in Nat, NEW b \in Nat
  PROVE  Distance(a, b) = Distance(b, a) /\ Distance(a, a) = 0
  BY DEF Distance

LEMMA Triangle ==
  ASSUME NEW a \in Nat, NEW b \in Nat, NEW q \in Nat, Near(a, q), Near(b, q)
  PROVE  Distance(a, b) <= 2 * SettleError
  BY Angles DEF Near, Distance

\* A servo that has caught its filter keeps it in a near tick.
LEMMA CaughtStays ==
  ASSUME NEW x \in Nat, NEW y \in Nat, NEW f \in Nat, NEW x1 \in Nat,
         NEW step \in Nat, SettleError <= step, Between(x1, x, f),
         Near(x, y), Near(f, Stepped(y, x1, step))
  PROVE  Near(x1, Stepped(y, x1, step))
  BY Angles DEF Near, Distance, Stepped, Between

\* One that has not goes on by a step.
LEMMA PassingStarts ==
  ASSUME NEW x \in Nat, NEW y \in Nat, NEW f \in Nat, NEW x1 \in Nat,
         NEW step \in Nat, Between(x1, x, f),
         ~ Near(x1, Stepped(y, x1, step)), Near(f, Stepped(y, x1, step))
  PROVE  Passing(x1, Stepped(y, x1, step), f, 0)
  BY Angles DEF Near, Distance, Stepped, Between, Passing

LEMMA PassingGoesOn ==
  ASSUME NEW x \in Nat, NEW y \in Nat, NEW f \in Nat, NEW x1 \in Nat,
         NEW step \in Nat, NEW d \in Nat, Between(x1, x, f),
         ~ Near(x1, Stepped(y, x1, step)), Near(f, Stepped(y, x1, step)),
         Passing(x, y, f, d)
  PROVE  Passing(x1, Stepped(y, x1, step), f, d + step)
  BY Angles DEF Near, Distance, Stepped, Between, Passing

LEMMA PassingLess ==
  ASSUME NEW x \in Nat, NEW y \in Nat, NEW f \in Nat, NEW d \in Nat, NEW c \in Nat,
         c <= d, Passing(x, y, f, d)
  PROVE  Passing(x, y, f, c)
  BY Angles DEF Passing

\* It is soon no longer near.
LEMMA PassingEnds ==
  ASSUME NEW x \in Nat, NEW y \in Nat, NEW f \in Nat, NEW d \in Nat,
         Passing(x, y, f, d), Near(f, y)
  PROVE  d <= 2 * SettleError
  BY Angles DEF Passing, Near, Distance

\* A servo whose filter and angle are in a band stays in it.
LEMMA BandKept ==
  ASSUME NEW x \in Nat, NEW y \in Nat, NEW f \in Nat, NEW x1 \in Nat, NEW q \in Nat,
         NEW step \in Nat, Between(x1, x, f), Near(x, q), Near(y, q), Near(f, q)
  PROVE  Near(x1, q) /\ Near(Stepped(y, x1, step), q)
  <1>1. Near(x1, q)
    BY Angles DEF Near, Distance, Between
  <1>2. Between(Stepped(y, x1, step), y, x1)
    BY DEF Stepped, Distance, Between
  <1>3. Stepped(y, x1, step) \in Nat
    BY DEF Stepped, Distance
  <1> QED
    BY <1>1, <1>2, <1>3, Angles DEF Near, Distance, Between

-----------------------------------------------------------------------------
(* The invariant of settling.                                              *)

Least(a, b) == IF a < b THEN a ELSE b

Room == Hold - 1

On(s) == frame[active].enable[s]

Aim(s) == frame[active].angle[s]

Step == MaxStep[frame[active].mode]

Caught(s) == Near(filtered[s], output[s])

\* The near ticks in a row under the active frame.
Run(s) == Least(held, ticks[s])

\* A servo that has not caught its filter was near for a few ticks only,
Counted(s) == ticks[s] <= (short + 1) * Room + Least(held, Room)

\* and with every one of this frame it went on by a step.
Passes(s) ==
    Run(s) > 0 => Passing(filtered[s], output[s], Aim(s), (Run(s) - 1) * Step)

Lag(s) == On(s) /\ Counted(s) /\ Passes(s)

CaughtOrLag == ~ fault => \A s \in Servo : Caught(s) \/ Lag(s)

\* A count that this frame has gone on with means the angle of this frame.
CountIsNear ==
    \A s \in Servo : On(s) /\ held > 0 /\ ticks[s] > 0 => Near(Aim(s), output[s])

\* After a tick the diagnosis is that of the active frame.
DiagIsNew ==
    held > 0 =>
        /\ diagOutput = output
        /\ diagSettled => \A s \in Servo : On(s) => ticks[s] = SettleTicks

ShortIsBounded == short <= MaxShort /\ (pc \in {"decide", "store"} => held > 0)

\* What the update saw of settled servos holds until it decides.
SeenHolds ==
    pc = "decide" =>
        \A s \in Servo :
            /\ ~ On(s) => output[s] = seen.output[s]
            /\ On(s) /\ seen.settled =>
                   /\ Near(output[s], seen.output[s])
                   /\ Near(filtered[s], seen.output[s])
                   /\ Near(Aim(s), seen.output[s])

\* A servo of a stable stance, its filter, what it aims at and the pose of the
\* command are in one band.
Around(s, q) ==
    /\ Near(order.pose[s], q) /\ Near(output[s], q)
    /\ On(s) \/ ~ fault => Near(filtered[s], q)
    /\ On(s) => Near(Aim(s), q)

StableIsAround == stable => \A s \in Servo : \E q \in Nat : Around(s, q)

\* A publish enables what no fault has disabled.
OrderEnables == pc = "store" => order.enable = ~ fault

DisableAtFault == pc = "disable" => fault

SInv == /\ CaughtOrLag /\ CountIsNear /\ DiagIsNew /\ ShortIsBounded
        /\ SeenHolds /\ StableIsAround /\ OrderEnables /\ DisableAtFault

-----------------------------------------------------------------------------
LEMMA Products ==
  ASSUME NEW n \in Nat, NEW m \in Nat, NEW h \in Nat
  PROVE  /\ n * h \in Nat /\ (n + 1) * h = n * h + h
         /\ n <= m => n * h <= m * h
  OBVIOUS

LEMMA Rooms ==
  /\ Room \in Nat /\ Hold = Room + 1 /\ SettleError \in Nat
  /\ (MaxShort + 2) * Room < SettleTicks
  /\ MaxShort \in Nat /\ SettleTicks \in Nat
  BY ServoAssumption, SettlingAssumption DEF Room

LEMMA ServoTypes ==
  ASSUME IInv, NEW s \in Servo
  PROVE  /\ filtered[s] \in Nat /\ output[s] \in Nat /\ Aim(s) \in Nat
         /\ ticks[s] \in Nat /\ On(s) \in BOOLEAN
         /\ held \in Nat /\ held <= Hold /\ short \in Nat
         /\ Step \in Nat /\ SettleError <= Step /\ 2 * SettleError < Room * Step
         /\ order.pose[s] \in Nat /\ seen.output[s] \in Nat
  <1>1. frame[active] \in Frame
    BY DEF IInv, TypeOK
  <1>2. Aim(s) \in Nat /\ On(s) \in BOOLEAN
    BY <1>1, Frames, Angles DEF Aim, On
  <1>3. /\ Step \in Nat /\ SettleError <= Step
        /\ 2 * SettleError < Room * Step
    BY <1>1, Frames, ServoAssumption, SettlingAssumption DEF Step, Room
  <1>4. order.pose[s] \in Nat
    <2>1. order.pose \in [Servo -> Angle]
      BY ServoAssumption DEF IInv, TypeOK
    <2> QED
      BY <2>1, Angles
  <1>5. /\ filtered[s] \in Nat /\ output[s] \in Nat /\ ticks[s] \in Nat
        /\ seen.output[s] \in Nat
    <2>1. /\ filtered \in [Servo -> Angle] /\ output \in [Servo -> Angle]
          /\ ticks \in [Servo -> 0..SettleTicks]
          /\ seen.output \in [Servo -> Angle]
      BY DEF IInv, TypeOK
    <2>2. ticks[s] \in 0..SettleTicks
      BY <2>1
    <2> QED
      BY <2>1, <2>2, Angles, ServoAssumption
  <1>6. held \in Nat /\ held <= Hold /\ short \in Nat
    BY ServoAssumption DEF IInv, TypeOK
  <1> QED
    BY <1>2, <1>3, <1>4, <1>5, <1>6

\* What a tick does to a servo.
LEMMA TickServo ==
  ASSUME IInv, Tick, NEW s \in Servo
  PROVE  /\ filtered'[s] \in Nat /\ output'[s] \in Nat
         /\ On(s)' = On(s) /\ Aim(s)' = Aim(s) /\ Step' = Step
         /\ short' = short
         /\ held' = (IF held < Hold THEN held + 1 ELSE held)
         /\ On(s) =>
              /\ Between(filtered'[s], filtered[s], Aim(s))
              /\ output'[s] = Stepped(output[s], filtered'[s], Step)
              /\ ~ Near(Aim(s), output'[s]) => ticks'[s] = 0
              /\ Near(Aim(s), output'[s]) =>
                     ticks'[s] = IF ticks[s] < SettleTicks THEN ticks[s] + 1
                                 ELSE ticks[s]
         /\ ~ On(s) => filtered'[s] = output[s] /\ output'[s] = output[s]
  <1>1. /\ frame' = frame /\ active' = active /\ short' = short
        /\ held' = (IF held < Hold THEN held + 1 ELSE held)
    BY DEF Tick, frameVars
  <1>2. On(s)' = On(s) /\ Aim(s)' = Aim(s) /\ Step' = Step
    BY <1>1 DEF On, Aim, Step
  <1>3. /\ filtered' \in [Servo -> Angle]
        /\ IF On(s) THEN Between(filtered'[s], filtered[s], Aim(s))
           ELSE filtered'[s] = output[s]
    BY DEF Tick, On, Aim
  <1>4. output'[s] = IF On(s) THEN Stepped(output[s], filtered'[s], Step)
                     ELSE output[s]
    BY DEF Tick, On, Step
  <1>5. ticks'[s] = IF ~ (On(s) /\ Near(Aim(s), output'[s])) THEN 0
                    ELSE IF ticks[s] < SettleTicks THEN ticks[s] + 1 ELSE ticks[s]
    BY DEF Tick, On, Aim, Near
  <1>6. filtered'[s] \in Nat
    BY <1>3, Angles
  <1>7. output'[s] \in Nat
    BY <1>4, <1>6, ServoTypes DEF Stepped, Distance
  <1> QED
    BY <1>1, <1>2, <1>3, <1>4, <1>5, <1>6, <1>7, ServoTypes

\* A tick in which a servo catches its filter, passes on or is not near.
LEMMA TickLags ==
  ASSUME IInv, Tick, NEW s \in Servo, Caught(s) \/ Lag(s)
  PROVE  (Caught(s) \/ Lag(s))'
  <1> DEFINE x == filtered[s]   y == output[s]   f == Aim(s)
             x1 == filtered'[s] y1 == output'[s]
  <1>1. /\ x \in Nat /\ y \in Nat /\ f \in Nat /\ x1 \in Nat /\ y1 \in Nat
        /\ ticks[s] \in Nat /\ held \in Nat /\ held <= Hold /\ short \in Nat
        /\ Step \in Nat /\ SettleError <= Step /\ 2 * SettleError < Room * Step
        /\ On(s) \in BOOLEAN
    BY ServoTypes, TickServo
  <1>2. CASE ~ On(s)
    BY <1>1, <1>2, TickServo, Symmetry, Rooms DEF Caught, Near
  <1>3. ASSUME On(s), ~ Near(f, y1)
        PROVE  Lag(s)'
    <2>1. /\ ticks'[s] = 0 /\ On(s)' /\ short' = short
          /\ held' = (IF held < Hold THEN held + 1 ELSE held)
      BY <1>3, TickServo
    <2>2. Run(s)' = 0
      BY <1>1, <2>1, Rooms DEF Run, Least
    <2>3. Counted(s)'
      BY <1>1, <2>1, Rooms, Products DEF Counted, Least
    <2> QED
      BY <2>1, <2>2, <2>3 DEF Lag, Passes
  <1>4. ASSUME On(s), Near(f, y1), Caught(s)
        PROVE  Caught(s)'
    BY <1>1, <1>4, CaughtStays, TickServo, SMTT(30) DEF Caught
  <1>5. ASSUME On(s), Near(f, y1), Lag(s), ~ Near(x1, y1)
        PROVE  Lag(s)'
    <2> DEFINE d == Run(s) * Step
    <2>1. /\ Between(x1, x, f) /\ y1 = Stepped(y, x1, Step)
          /\ ticks'[s] = (IF ticks[s] < SettleTicks THEN ticks[s] + 1 ELSE ticks[s])
          /\ On(s)' /\ Aim(s)' = f /\ Step' = Step /\ short' = short
          /\ held' = (IF held < Hold THEN held + 1 ELSE held)
      BY <1>5, TickServo
    <2>2. Run(s) \in Nat /\ d \in Nat
      <3>1. Run(s) \in Nat
        BY <1>1 DEF Run, Least
      <3> QED
        BY <1>1, <3>1, Products
    <2>3. Passing(x1, y1, f, d)
      <3>1. CASE Run(s) = 0
        <4>1. d = 0
          BY <1>1, <3>1
        <4> HIDE DEF d
        <4>2. Passing(x1, Stepped(y, x1, Step), f, 0)
          BY <1>1, <1>5, <2>1, PassingStarts
        <4> QED
          BY <2>1, <4>1, <4>2
      <3>2. CASE Run(s) > 0
        <4> DEFINE n == Run(s) - 1   c == n * Step
        <4>1. c \in Nat /\ d = c + Step
          <5>1. n \in Nat /\ Run(s) = n + 1
            BY <2>2, <3>2
          <5> HIDE DEF n
          <5> QED
            BY <1>1, <5>1, Products
        <4>2. Passing(x, y, f, c)
          BY <1>5, <3>2 DEF Lag, Passes
        <4> HIDE DEF c, d
        <4>3. Passing(x1, Stepped(y, x1, Step), f, c + Step)
          BY <1>1, <1>5, <2>1, <4>1, <4>2, PassingGoesOn
        <4> QED
          BY <2>1, <4>1, <4>3
      <3> QED
        BY <2>2, <3>1, <3>2
    <2>4. Run(s) < Room
      <3>1. d <= 2 * SettleError
        BY <1>1, <1>5, <2>2, <2>3, PassingEnds
      <3>2. Room <= Run(s) => Room * Step <= d
        BY <1>1, <2>2, Rooms, Products
      <3>3. Room * Step \in Nat
        BY <1>1, Rooms, Products
      <3> HIDE DEF d
      <3> QED
        BY <1>1, <2>2, <3>1, <3>2, <3>3, Rooms
    <2>5. Passes(s)'
      <3>1. Run(s)' \in Nat /\ Run(s)' <= Run(s) + 1
        BY <1>1, <2>1, Rooms DEF Run, Least
      <3>2. ASSUME Run(s)' > 0 PROVE Passing(x1, y1, f, (Run(s)' - 1) * Step)
        <4> DEFINE n == Run(s)' - 1
        <4>1. n \in Nat /\ n <= Run(s)
          BY <2>2, <3>1, <3>2
        <4> HIDE DEF n
        <4>2. n * Step \in Nat /\ n * Step <= d
          BY <1>1, <2>2, <4>1, Products
        <4>3. Passing(x1, y1, f, n * Step)
          BY <1>1, <2>2, <2>3, <4>2, PassingLess
        <4> QED
          BY <4>3 DEF n
      <3> QED
        BY <2>1, <3>2 DEF Passes
    <2>6. Counted(s)'
      <3> DEFINE rooms == (short + 1) * Room
      <3>1. rooms \in Nat /\ ticks[s] <= rooms + Least(held, Room)
        BY <1>1, <1>5, Rooms, Products DEF Lag, Counted
      <3>2. ticks'[s] <= ticks[s] + 1
        BY <1>1, <2>1
      <3> HIDE DEF rooms
      <3>3. ticks'[s] <= rooms + Least(held', Room)
        BY <1>1, <2>1, <2>4, <3>1, <3>2, Rooms DEF Run, Least
      <3> QED
        BY <2>1, <3>3, Rooms DEF Counted, rooms, Room
    <2> QED
      BY <2>1, <2>5, <2>6 DEF Lag
  <1> QED
    BY <1>1, <1>2, <1>3, <1>4, <1>5 DEF Caught

LEMMA TickBand ==
  ASSUME IInv, Tick, NEW s \in Servo, NEW q \in Nat, On(s),
         Near(output[s], q), Near(filtered[s], q), Near(Aim(s), q)
  PROVE  Near(output'[s], q) /\ Near(filtered'[s], q)
  <1>1. /\ filtered[s] \in Nat /\ output[s] \in Nat /\ Aim(s) \in Nat
        /\ Step \in Nat
    BY ServoTypes
  <1>2. /\ filtered'[s] \in Nat /\ Between(filtered'[s], filtered[s], Aim(s))
        /\ output'[s] = Stepped(output[s], filtered'[s], Step)
    BY TickServo
  <1>3. Near(filtered'[s], q) /\ Near(Stepped(output[s], filtered'[s], Step), q)
    BY <1>1, <1>2, BandKept
  <1> QED
    BY <1>2, <1>3

LEMMA TickSettles ==
  ASSUME IInv, SInv, Tick
  PROVE  SInv'
  <1>1. /\ frame' = frame /\ active' = active /\ pc' = pc /\ fault' = fault
        /\ seen' = seen /\ order' = order /\ stable' = stable /\ short' = short
        /\ held' = (IF held < Hold THEN held + 1 ELSE held)
        /\ diagOutput' = output'
        /\ diagSettled' = \A s \in Servo : On(s) => ticks'[s] = SettleTicks
    BY DEF Tick, frameVars, legVars, On
  <1>2. CaughtOrLag'
    BY <1>1, TickLags DEF SInv, CaughtOrLag
  <1>3. CountIsNear'
    BY TickServo DEF CountIsNear
  <1>4. DiagIsNew'
    BY <1>1, TickServo DEF DiagIsNew
  <1>5. ShortIsBounded'
    <2>1. held \in Nat
      BY ServoAssumption DEF IInv, TypeOK
    <2> QED
      BY <1>1, <2>1 DEF SInv, ShortIsBounded
  <1>6. SeenHolds'
    <2> SUFFICES ASSUME pc = "decide", NEW s \in Servo
                 PROVE  /\ ~ On(s)' => output'[s] = seen.output[s]
                        /\ On(s)' /\ seen.settled =>
                               /\ Near(output'[s], seen.output[s])
                               /\ Near(filtered'[s], seen.output[s])
                               /\ Near(Aim(s)', seen.output[s])
      BY <1>1 DEF SeenHolds
    <2>1. CASE ~ On(s)
      BY <2>1, TickServo DEF SInv, SeenHolds
    <2>2. CASE On(s)
      <3>1. ASSUME seen.settled
            PROVE  Near(output'[s], seen.output[s]) /\ Near(filtered'[s], seen.output[s])
        BY <2>2, <3>1, TickBand, ServoTypes DEF SInv, SeenHolds
      <3> QED
        BY <2>2, <3>1, TickServo DEF SInv, SeenHolds
    <2> QED
      BY <2>1, <2>2, TickServo
  <1>7. StableIsAround'
    <2> SUFFICES ASSUME stable, NEW s \in Servo, NEW q \in Nat, Around(s, q)
                 PROVE  Around(s, q)'
      BY <1>1 DEF SInv, StableIsAround
    <2>1. CASE ~ On(s)
      BY <1>1, <2>1, TickServo DEF Around
    <2>2. CASE On(s)
      <3>1. Near(filtered'[s], q) /\ Near(output'[s], q)
        BY <2>2, TickBand DEF Around
      <3> QED
        BY <1>1, <2>2, <3>1, TickServo DEF Around
    <2> QED
      BY <2>1, <2>2
  <1>8. OrderEnables' /\ DisableAtFault'
    BY <1>1 DEF SInv, OrderEnables, DisableAtFault
  <1> QED
    BY <1>2, <1>3, <1>4, <1>5, <1>6, <1>7, <1>8 DEF SInv

-----------------------------------------------------------------------------
(* The main loop keeps the invariant of settling.                          *)

\* What does not touch the active frame or the servos.
LEMMA Still ==
  ASSUME SInv, frame'[active'] = frame[active], fault => fault',
         UNCHANGED <<filtered, output, ticks, held, short, diagOutput, diagSettled>>
  PROVE  /\ CaughtOrLag' /\ CountIsNear' /\ DiagIsNew'
         /\ \A s \in Servo : On(s)' = On(s) /\ Aim(s)' = Aim(s)
  <1>1. ASSUME NEW s \in Servo
        PROVE  /\ On(s)' = On(s) /\ Aim(s)' = Aim(s)
               /\ Caught(s)' = Caught(s) /\ Lag(s)' = Lag(s)
    BY DEF On, Aim, Caught, Lag, Counted, Passes, Run, Step
  <1>2. CaughtOrLag'
    BY <1>1 DEF SInv, CaughtOrLag
  <1>3. CountIsNear' /\ DiagIsNew'
    BY <1>1 DEF SInv, CountIsNear, DiagIsNew
  <1> QED
    BY <1>1, <1>2, <1>3

LEMMA InitSettles == Init => SInv
  <1> SUFFICES ASSUME Init PROVE SInv
    OBVIOUS
  <1>1. IInv
    BY InitInv
  <1>2. /\ filtered = output /\ held = 0 /\ short = 0 /\ pc = "idle"
        /\ stable = FALSE
    BY DEF Init
  <1>3. CaughtOrLag
    <2>1. ASSUME NEW s \in Servo PROVE Caught(s)
      <3>1. output[s] \in Nat
        BY <1>1, ServoTypes
      <3> QED
        BY <1>2, <3>1, Symmetry, Rooms DEF Caught, Near
    <2> QED
      BY <2>1 DEF CaughtOrLag
  <1>4. CountIsNear /\ DiagIsNew /\ ShortIsBounded /\ SeenHolds /\ StableIsAround
        /\ OrderEnables /\ DisableAtFault
    BY <1>2, Rooms DEF CountIsNear, DiagIsNew, ShortIsBounded, SeenHolds,
       StableIsAround, OrderEnables, DisableAtFault
  <1> QED
    BY <1>3, <1>4 DEF SInv

LEMMA FaultSettles ==
  ASSUME IInv, SInv, Fault
  PROVE  SInv'
  <1>1. /\ pc' = "disable" /\ fault' = TRUE /\ short' = short
        /\ frame'[active'] = frame[active]
        /\ UNCHANGED <<filtered, output, ticks, held, short, diagOutput,
                       diagSettled, order, stable>>
    BY DEF Fault, frameVars, motionVars, diagVars, legVars, scheduleVars
  <1>2. StableIsAround'
    BY <1>1, Still DEF SInv, StableIsAround, Around
  <1>3. /\ ShortIsBounded' /\ SeenHolds' /\ OrderEnables' /\ DisableAtFault'
    BY <1>1 DEF SInv, ShortIsBounded, SeenHolds, OrderEnables, DisableAtFault
  <1> QED
    BY <1>1, <1>2, <1>3, Still DEF SInv

LEMMA DisableSettles ==
  ASSUME IInv, SInv, Disable
  PROVE  SInv'
  <1>1. /\ pc = "disable" /\ pc' = "idle" /\ active' = Inactive
        /\ frame' = [frame EXCEPT ![Inactive].enable = All(FALSE)]
        /\ UNCHANGED <<filtered, output, ticks, held, short, diagOutput,
                       diagSettled, fault, order, stable>>
    BY DEF Disable, diagVars, legVars, scheduleVars
  <1>2. fault
    BY <1>1 DEF SInv, DisableAtFault
  <1>3. ASSUME NEW s \in Servo PROVE ~ On(s)'
    <2>1. frame'[active'].enable = All(FALSE)
      BY <1>1, Indices DEF IInv, TypeOK, Frame
    <2> QED
      BY <2>1 DEF On, All
  <1>4. CaughtOrLag' /\ CountIsNear' /\ DiagIsNew'
    BY <1>1, <1>2, <1>3 DEF SInv, CaughtOrLag, CountIsNear, DiagIsNew
  <1>5. StableIsAround'
    BY <1>1, <1>2, <1>3 DEF SInv, StableIsAround, Around
  <1>6. ShortIsBounded' /\ SeenHolds' /\ OrderEnables' /\ DisableAtFault'
    BY <1>1 DEF SInv, ShortIsBounded, SeenHolds, OrderEnables, DisableAtFault
  <1> QED
    BY <1>4, <1>5, <1>6 DEF SInv

\* A servo that is counted as settled has caught its filter: short frames in a
\* row are too few for a count that long.
LEMMA SettledCaught ==
  ASSUME IInv, SInv, pc # "disable", NEW s \in Servo, On(s),
         ticks[s] = SettleTicks
  PROVE  Caught(s)
  <1>1. ~ fault
    BY DEF IInv, NothingEnabled, On
  <1>2. short <= MaxShort /\ held \in Nat /\ short \in Nat
    BY ServoTypes DEF SInv, ShortIsBounded
  <1>3. (short + 1) * Room + Room <= (MaxShort + 2) * Room
    <2>1. /\ short + 2 \in Nat /\ MaxShort + 2 \in Nat
          /\ short + 2 <= MaxShort + 2 /\ short + 1 \in Nat
          /\ short + 2 = (short + 1) + 1
      BY <1>2, Rooms
    <2>2. (short + 2) * Room <= (MaxShort + 2) * Room
      BY <2>1, Rooms, Products
    <2>3. (short + 2) * Room = (short + 1) * Room + Room
      BY <2>1, Rooms, Products
    <2> QED
      BY <2>2, <2>3
  <1>4. ~ Counted(s)
    <2> DEFINE rooms == (short + 1) * Room
    <2>1. rooms \in Nat
      BY <1>2, Rooms, Products
    <2>2. rooms + Room < SettleTicks
      BY <1>2, <1>3, Rooms, Products
    <2> HIDE DEF rooms
    <2>3. ~ (ticks[s] <= rooms + Least(held, Room))
      BY <1>2, <2>1, <2>2, Rooms DEF Least
    <2> QED
      BY <2>3 DEF Counted, rooms
  <1> QED
    BY <1>1, <1>4 DEF SInv, CaughtOrLag, Lag

LEMMA LegBeginSettles ==
  ASSUME IInv, SInv, LegBegin
  PROVE  SInv'
  <1>1. /\ pc = "idle" /\ pc' = "decide" /\ held > 0
        /\ seen' = [output |-> diagOutput, settled |-> diagSettled]
        /\ frame'[active'] = frame[active]
        /\ UNCHANGED <<filtered, output, ticks, held, short, diagOutput,
                       diagSettled, fault, order, stable>>
    BY DEF LegBegin, frameVars, motionVars, diagVars, scheduleVars
  <1>2. SeenHolds'
    <2> SUFFICES ASSUME NEW s \in Servo
                 PROVE  /\ output[s] = seen'.output[s]
                        /\ On(s) /\ seen'.settled =>
                               /\ Near(output[s], output[s])
                               /\ Near(filtered[s], output[s])
                               /\ Near(Aim(s), output[s])
      BY <1>1, Still DEF SeenHolds
    <2>1. seen'.output[s] = output[s]
      BY <1>1 DEF SInv, DiagIsNew
    <2>2. ASSUME On(s), seen'.settled
          PROVE  /\ Near(output[s], output[s]) /\ Near(filtered[s], output[s])
                 /\ Near(Aim(s), output[s])
      <3>1. ticks[s] = SettleTicks
        BY <1>1, <2>2 DEF SInv, DiagIsNew
      <3>2. Near(filtered[s], output[s])
        BY <1>1, <2>2, <3>1, SettledCaught DEF Caught
      <3>3. Near(Aim(s), output[s])
        BY <1>1, <2>2, <3>1, ServoAssumption DEF SInv, CountIsNear
      <3> QED
        BY <3>2, <3>3, ServoTypes, Symmetry, Rooms DEF Near
    <2> QED
      BY <2>1, <2>2
  <1>3. StableIsAround'
    BY <1>1, Still DEF SInv, StableIsAround, Around
  <1>4. ShortIsBounded' /\ OrderEnables' /\ DisableAtFault'
    BY <1>1 DEF SInv, ShortIsBounded, OrderEnables, DisableAtFault
  <1> QED
    BY <1>1, <1>2, <1>3, <1>4, Still DEF SInv

LEMMA DecideSettles ==
  ASSUME IInv, SInv, NEW o \in Orders, Decide(o)
  PROVE  SInv'
  <1>1. /\ pc = "decide" /\ pc' = "store" /\ order' = o
        /\ stable' = CanStabilize(o, Complete(o))
        /\ frame'[active'] = frame[active]
        /\ UNCHANGED <<filtered, output, ticks, held, short, diagOutput,
                       diagSettled, fault>>
    BY DEF Decide, frameVars, motionVars, diagVars, scheduleVars
  <1>2. StableIsAround'
    <2> SUFFICES ASSUME CanStabilize(o, Complete(o)), NEW s \in Servo
                 PROVE  \E q \in Nat :
                            /\ Near(o.pose[s], q) /\ Near(output[s], q)
                            /\ On(s) \/ ~ fault => Near(filtered[s], q)
                            /\ On(s) => Near(Aim(s), q)
      BY <1>1, Still DEF StableIsAround, Around
    <2> DEFINE q == seen.output[s]
    <2>1. q \in Nat /\ output[s] \in Nat
      BY ServoTypes
    <2>2. Near(o.pose[s], q) /\ seen.settled
      BY DEF CanStabilize, Near
    <2>3. CASE On(s)
      BY <1>1, <2>1, <2>2, <2>3 DEF SInv, SeenHolds
    <2>4. CASE ~ On(s)
      <3>1. output[s] = q
        BY <1>1, <2>4 DEF SInv, SeenHolds
      <3>2. Near(output[s], q)
        BY <2>1, <3>1, Symmetry, Rooms DEF Near
      <3>3. ~ fault => Near(filtered[s], q)
        BY <2>4, <3>1 DEF SInv, CaughtOrLag, Lag, Caught
      <3> QED
        BY <2>1, <2>2, <2>4, <3>2, <3>3
    <2> QED
      BY <2>3, <2>4
  <1>3. OrderEnables'
    BY <1>1 DEF Orders, OrderEnables
  <1>4. ShortIsBounded' /\ SeenHolds' /\ DisableAtFault'
    BY <1>1 DEF SInv, ShortIsBounded, SeenHolds, DisableAtFault
  <1> QED
    BY <1>1, <1>2, <1>3, <1>4, Still DEF SInv

LEMMA StoreSettles ==
  ASSUME IInv, SInv, StoreMode \/ \E s \in Servo : StoreServo(s)
  PROVE  SInv'
  <1>1. /\ pc = "store" /\ pc' = pc /\ active' = active
        /\ UNCHANGED <<filtered, output, ticks, held, short, diagOutput,
                       diagSettled, fault, seen, order, stable>>
    BY DEF StoreMode, StoreServo, motionVars, diagVars, legVars, scheduleVars
  <1>2. frame'[active] = frame[active]
    <2>1. /\ active \in Index /\ Inactive \in Index /\ Inactive # active
          /\ frame \in [Index -> Frame]
      BY Indices DEF IInv, TypeOK
    <2>2. CASE StoreMode
      BY <2>1, <2>2 DEF StoreMode
    <2>3. ASSUME NEW s \in Servo, StoreServo(s)
          PROVE  frame'[active] = frame[active]
      <3> DEFINE g == [frame EXCEPT ![Inactive].angle[s] = order.pose[s]]
      <3>1. frame' = [g EXCEPT ![Inactive].enable[s] = order.enable]
        BY <2>3 DEF StoreServo
      <3>2. g[active] = frame[active] /\ DOMAIN g = Index
        BY <2>1
      <3> HIDE DEF g
      <3> QED
        BY <2>1, <3>1, <3>2
    <2> QED
      BY <2>2, <2>3
  <1>3. /\ StableIsAround' /\ ShortIsBounded' /\ SeenHolds' /\ OrderEnables'
        /\ DisableAtFault'
    BY <1>1, <1>2, Still DEF SInv, StableIsAround, Around, ShortIsBounded,
       SeenHolds, OrderEnables, DisableAtFault
  <1> QED
    BY <1>1, <1>2, <1>3, Still DEF SInv

\* A frame of a whole period leaves a servo that lags with a short count: with
\* every near tick of it the servo went on by a step.
LEMMA PeriodIsShort ==
  ASSUME IInv, SInv, NEW s \in Servo, Lag(s), held = Hold
  PROVE  ticks[s] <= Room
  <1>1. /\ filtered[s] \in Nat /\ output[s] \in Nat /\ Aim(s) \in Nat
        /\ ticks[s] \in Nat /\ Step \in Nat /\ 2 * SettleError < Room * Step
        /\ Room \in Nat /\ Hold = Room + 1 /\ SettleError \in Nat
    BY ServoTypes, Rooms
  <1> SUFFICES ASSUME ticks[s] >= Hold PROVE FALSE
    BY <1>1
  <1>2. Run(s) = Hold
    BY <1>1 DEF Run, Least
  <1>3. Passing(filtered[s], output[s], Aim(s), Room * Step)
    BY <1>1, <1>2 DEF Lag, Passes
  <1>4. Near(Aim(s), output[s])
    BY <1>1 DEF SInv, CountIsNear, Lag
  <1>5. Room * Step \in Nat
    BY <1>1, Products
  <1>6. Room * Step <= 2 * SettleError
    BY <1>1, <1>3, <1>4, <1>5, PassingEnds
  <1> QED
    BY <1>1, <1>5, <1>6

LEMMA SwitchSettles ==
  ASSUME IInv, SInv, Switch \/ SwitchDirect
  PROVE  SInv'
  <1>1. /\ pc = "store" /\ todo = {} /\ pc' = "idle" /\ active' = Inactive
        /\ held' = 0 /\ short' = (IF held < Hold THEN short + 1 ELSE 0)
        /\ (held < Hold => short < MaxShort)
        /\ issued' = frame[Inactive]
        /\ UNCHANGED <<frame, fault, seen, order, stable>>
    BY DEF Switch, SwitchDirect, Handover, legVars
  <1>2. /\ held \in Nat /\ held <= Hold /\ short \in Nat /\ short' \in Nat
    BY <1>1, ServoAssumption DEF IInv, TypeOK
  <1>11. PICK k \in Nat : short' = k
    BY <1>2
  <1>3. ASSUME NEW s \in Servo
        PROVE  On(s)' = ~ fault /\ Aim(s)' = order.pose[s]
    BY <1>1, Stored DEF SInv, OrderEnables, On, Aim
  <1>4. SwitchDirect => filtered' = order.pose /\ output' = order.pose
    BY <1>1, Stored DEF SwitchDirect
  <1>5. Switch => UNCHANGED <<filtered, output, ticks>>
    BY DEF Switch, motionVars
  <1>6. ASSUME ~ fault, NEW s \in Servo
        PROVE  (Caught(s) \/ Lag(s))'
    <2>1. CASE SwitchDirect
      <3>1. order.pose[s] \in Nat
        BY ServoTypes
      <3> QED
        BY <1>4, <2>1, <3>1, Symmetry, Rooms DEF Caught, Near
    <2>2. CASE Switch /\ Caught(s)
      BY <1>5, <2>2 DEF Caught
    <2>3. ASSUME Switch, Lag(s)
          PROVE  Lag(s)'
      <3>1. ticks'[s] = ticks[s] /\ ticks[s] \in Nat
        BY <1>5, <2>3, ServoTypes
      <3>2. Run(s)' = 0
        BY <1>1, <3>1 DEF Run, Least
      <3>3. ticks[s] <= (k + 1) * Room
        <4>1. CASE held < Hold
          <5> DEFINE rooms == (short + 1) * Room
          <5>1. rooms \in Nat /\ ticks[s] <= rooms + Least(held, Room)
            BY <1>2, <2>3, Rooms, Products DEF Lag, Counted
          <5>2. (k + 1) * Room = rooms + Room
            <6>1. short + 1 \in Nat /\ k = short + 1
              BY <1>1, <1>2, <1>11, <4>1
            <6> QED
              BY <6>1, Rooms, Products
          <5> HIDE DEF rooms
          <5> QED
            BY <1>2, <3>1, <5>1, <5>2, Rooms DEF Least
        <4>2. CASE held = Hold
          <5>1. (k + 1) * Room = Room
            <6>1. k = 0
              BY <1>1, <1>2, <1>11, <4>2
            <6> QED
              BY <6>1, Rooms
          <5>2. ticks[s] <= Room
            BY <2>3, <4>2, PeriodIsShort
          <5> QED
            BY <5>1, <5>2, Zenon
        <4> QED
          BY <1>2, <4>1, <4>2, Rooms
      <3>4. Counted(s)'
        <4>1. Least(held', Room) = 0
          BY <1>1, Rooms DEF Least
        <4> DEFINE rooms == (k + 1) * Room
        <4>2. rooms \in Nat /\ ticks'[s] <= rooms
          BY <3>1, <3>3, Rooms, Products
        <4>3. Counted(s)' = (ticks'[s] <= rooms + Least(held', Room))
          BY <1>11 DEF Counted, Room, Least
        <4> HIDE DEF rooms
        <4>4. ticks'[s] <= rooms + Least(held', Room)
          BY <3>1, <4>1, <4>2
        <4> QED
          BY <4>3, <4>4, Zenon
      <3>5. Passes(s)'
        BY <3>2 DEF Passes
      <3>6. On(s)'
        BY <1>3, <1>6, Zenon
      <3> QED
        BY <3>4, <3>5, <3>6 DEF Lag
    <2> QED
      BY <1>6, <2>1, <2>2, <2>3 DEF SInv, CaughtOrLag
  <1>7. StableIsAround'
    <2> SUFFICES ASSUME stable, NEW s \in Servo
                 PROVE  \E q \in Nat : Around(s, q)'
      BY <1>1 DEF StableIsAround
    <2>1. CASE Switch
      <3>1. PICK q \in Nat : Around(s, q)
        BY DEF SInv, StableIsAround
      <3>2. Around(s, q)'
        BY <1>1, <1>3, <1>5, <2>1, <3>1 DEF Around
      <3> QED
        BY <3>1, <3>2
    <2>2. CASE SwitchDirect
      <3>1. PICK q \in Nat : q = order.pose[s]
        BY ServoTypes
      <3>2. Near(q, q)
        BY <3>1, Symmetry, Rooms DEF Near
      <3>3. Around(s, q)'
        <4>1. /\ order'.pose[s] = q /\ output'[s] = q /\ filtered'[s] = q
              /\ Aim(s)' = q
          BY <1>1, <1>3, <1>4, <2>2, <3>1
        <4> QED
          BY <3>2, <4>1 DEF Around
      <3> QED
        BY <3>1, <3>3
    <2> QED
      BY <2>1, <2>2
  <1>8. CaughtOrLag'
    BY <1>1, <1>6 DEF CaughtOrLag
  <1>9. ShortIsBounded'
    BY <1>1, <1>2, Rooms DEF ShortIsBounded
  <1>10. CountIsNear' /\ DiagIsNew' /\ SeenHolds' /\ OrderEnables' /\ DisableAtFault'
    BY <1>1 DEF CountIsNear, DiagIsNew, SeenHolds, OrderEnables, DisableAtFault
  <1> QED
    BY <1>7, <1>8, <1>9, <1>10 DEF SInv

LEMMA SettlingStep == IInv /\ SInv /\ [Next]_vars => SInv'
  <1> SUFFICES ASSUME IInv, SInv, [Next]_vars PROVE SInv'
    OBVIOUS
  <1>1. CASE UNCHANGED vars
    <2>1. /\ UNCHANGED <<frame, active, filtered, output, ticks, held, short,
                         diagOutput, diagSettled, fault, pc, seen, order, stable>>
      BY <1>1 DEF vars, frameVars, motionVars, diagVars, legVars, scheduleVars
    <2> QED
      BY <2>1, Still DEF SInv, StableIsAround, Around, ShortIsBounded, SeenHolds,
         OrderEnables, DisableAtFault
  <1>2. CASE Next
    BY <1>2, TickSettles, FaultSettles, DisableSettles, LegBeginSettles,
       DecideSettles, StoreSettles, SwitchSettles
    DEF Next, LegUpdate, Publish
  <1> QED
    BY <1>1, <1>2

\* The invariant of settling holds in every reachable state.
THEOREM Settling == Spec => []SInv
  BY Invariance, InitSettles, SettlingStep, PTL DEF Spec

\* While the legs are declared stable every servo is at the commanded pose.
THEOREM StableArrived == Spec => []StableMeansArrived
  <1>1. IInv /\ SInv => StableMeansArrived
    <2> SUFFICES ASSUME IInv, SInv, stable, NEW s \in Servo
                 PROVE  Distance(order.pose[s], output[s]) <= 2 * SettleError
      BY DEF StableMeansArrived
    <2>1. PICK q \in Nat : Around(s, q)
      BY DEF SInv, StableIsAround
    <2> QED
      BY <2>1, ServoTypes, Triangle DEF Around
  <1> QED
    BY <1>1, Invariance, Settling, PTL

\* Every variable of the servo driver has its type.
THEOREM TypeCorrect == Spec => []TypeOK
  BY Invariance, PTL DEF IInv

\* The interrupt finds one command whole wherever it comes.
THEOREM FramesWhole == Spec => []FramesAreWhole
  BY Invariance, PTL DEF IInv

\* Once a fault has disabled the servos no pulse is ever sent again.
THEOREM DarkForGood == Spec => []DarkAfterFault
  BY Invariance, PTL DEF IInv
=============================================================================
