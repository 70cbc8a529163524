------------------------ MODULE MotionControlProofs ------------------------
(***************************************************************************)
(* Proofs about MotionControl for every set of sources, every validity     *)
(* and every gap between two passes of the main loop.                      *)
(***************************************************************************)
EXTENDS MotionControl, TLAPS

\* A halt leaves no request behind, and a request younger than the last halt
\* can only be held by a remote slot of an armed car.
SlotInv ==
    /\ (estop \/ maintenance) => \A s \in Slot : ~ Valid(s)
    /\ \A s \in RemoteSlot : Valid(s) => armed
    /\ \A s \in Slot : Valid(s) => ~ old[s]

\* An enabled chassis is the router's output, and nothing is enabled while it
\* is halted.
OutputInv ==
    /\ EnabledIsKnown
    /\ (estop \/ maintenance) => ~ chassis

\* Behind the router, until the next pass.
RoutedInv ==
    Routed =>
        /\ fault => ~ chassis
        /\ chassis => Valid(active) /\ active = Selected

IInv == TypeOK /\ SlotInv /\ OutputInv /\ RoutedInv

-----------------------------------------------------------------------------
(* Type correctness.                                                       *)

LEMMA SlotCases == "uart" \in Slot /\ RemoteSlot \subseteq Slot /\ "none" \notin Slot
  BY DEF Slot, RemoteSlot

LEMMA MapType == \A source : MapSource(source) \in RemoteSlot
  BY DEF MapSource, RemoteSlot

LEMMA SelectedType == Selected \in Slot
  BY DEF Selected, Slot, RemoteSlot

LEMMA RemainingType ==
    ASSUME NEW l \in Nat, NEW gap \in Nat
    PROVE  Remaining(l, gap) \in Nat /\ (Remaining(l, gap) > 0 => l > 0)
  BY DEF Remaining


LEMMA CommandFields ==
    ASSUME NEW c \in Command
    PROVE  c.seq \in 0..MaxSequence /\ c.valid \in Nat
  <1>1. c.seq \in 1..MaxSequence /\ c.valid \in RemoteValid
    BY DEF Command
  <1>2. RemoteValid \subseteq Nat /\ MaxSequence \in Nat
    BY MotionAssumption
  <1>3. c.valid \in Nat
    BY <1>1, <1>2
  <1>4. c.seq \in 0..MaxSequence
    BY <1>1, <1>2
  <1> QED BY <1>3, <1>4

LEMMA TypeInit == Init => TypeOK
  <1> SUFFICES ASSUME Init PROVE TypeOK
    OBVIOUS
  <1>1. offered \subseteq Command
    BY DEF Init
  <1>2. remnant \in BOOLEAN /\ fault \in BOOLEAN
    BY DEF Init
  <1>3. /\ armed \in BOOLEAN /\ maintenance \in BOOLEAN /\ estop \in BOOLEAN
        /\ routerFault \in BOOLEAN /\ output \in BOOLEAN /\ chassis \in BOOLEAN
    BY DEF Init
  <1>4. old \in [Slot -> BOOLEAN] /\ left \in [Slot -> Nat]
    BY DEF Init
  <1> QED
    BY <1>1, <1>2, <1>3, <1>4, MotionAssumption DEF Init, TypeOK

LEMMA TypeStep == TypeOK /\ [Next]_vars => TypeOK'
  <1> SUFFICES ASSUME TypeOK, [Next]_vars PROVE TypeOK'
    OBVIOUS
  <1> USE DEF TypeOK, linkVars, sourceVars, gateVars, outputVars, slotVars,
          hostFrame, pollFrame, routeFrame, Stop, ClearSlots, Halted
  <1>1. ASSUME NEW c \in Command, Publish(c)
        PROVE  TypeOK'
    <2>1. offered' \subseteq Command /\ remnant' \in BOOLEAN
      BY <1>1 DEF Publish
    <2>2. published' \in [Source -> 0..MaxSequence]
      BY <1>1, CommandFields DEF Publish
    <2> QED BY <1>1, <2>1, <2>2 DEF Publish
  <1>2. CASE Restart1
    <2>1. remnant' \in BOOLEAN /\ unarmed' \subseteq {"restart", "maintenance"}
      BY <1>2 DEF Restart1
    <2>2. published' \in [Source -> 0..MaxSequence]
      BY <1>2, MotionAssumption DEF Restart1
    <2> QED BY <1>2, <2>1, <2>2 DEF Restart1
  <1>3. ASSUME NEW gap \in 1..MaxGap, BeginPass(gap)
        PROVE  TypeOK'
    <2>1. gap \in Nat
      BY MotionAssumption
    <2>2. left' \in [Slot -> Nat]
      BY <1>3, <2>1, RemainingType DEF BeginPass
    <2> QED BY <1>3, <2>2 DEF BeginPass
  <1>4. CASE HostStop
    BY <1>4 DEF HostStop
  <1>5. CASE HostArm
    <2>1. armed' \in BOOLEAN
      BY <1>5 DEF HostArm
    <2> QED BY <1>5, <2>1 DEF HostArm
  <1>6. ASSUME NEW enabled \in BOOLEAN, HostMaintenance(enabled)
        PROVE  TypeOK'
    <2>1. unarmed' \subseteq {"restart", "maintenance"}
      BY <1>6 DEF HostMaintenance
    <2> QED BY <1>6, <2>1 DEF HostMaintenance
  <1>7. CASE HostBalanceOff
    BY <1>7 DEF HostBalanceOff
  <1>8. CASE HostMotion
    BY <1>8, MotionAssumption, ZenonT(60) DEF HostMotion
  <1>9. CASE HostDone \/ PollNothing
    BY <1>9, ZenonT(60) DEF HostDone, PollNothing
  <1>10. ASSUME NEW bad \in BOOLEAN, Safety(bad)
         PROVE  TypeOK'
    <2>1. fault' \in BOOLEAN
      BY <1>10 DEF Safety
    <2> QED BY <1>10, <2>1 DEF Safety
  <1>11. ASSUME NEW c \in offered, PollCancel(c)
         PROVE  TypeOK'
    <2>1. offered' \subseteq Command /\ remnant' \in BOOLEAN /\ c \in Command
      BY <1>11 DEF PollCancel, Take
    <2>2. lastSource' \in [Source -> 0..MaxSequence]
      BY <1>11, <2>1, CommandFields DEF PollCancel
    <2>3. left' \in [Slot -> Nat]
      BY <1>11 DEF PollCancel, Cancel
    <2>4. active' \in Slot \cup {"none"} /\ output' \in BOOLEAN /\ chassis' \in BOOLEAN
      BY <1>11 DEF PollCancel, Cancel
    <2> QED BY <1>11, <2>1, <2>2, <2>3, <2>4 DEF PollCancel
  <1>12. ASSUME NEW c \in offered, PollAccept(c)
         PROVE  TypeOK'
    <2>1. offered' \subseteq Command /\ remnant' \in BOOLEAN /\ c \in Command
      BY <1>12 DEF PollAccept, Take
    <2>2. lastSource' \in [Source -> 0..MaxSequence]
      BY <1>12, <2>1, CommandFields DEF PollAccept
    <2>3. left' \in [Slot -> Nat] /\ lastSlot' \in [Slot -> 0..MaxSequence]
          /\ old' \in [Slot -> BOOLEAN]
      BY <1>12, <2>1, CommandFields DEF PollAccept
    <2> QED BY <1>12, <2>1, <2>2, <2>3 DEF PollAccept
  <1>13. ASSUME NEW c \in offered, PollReject(c)
         PROVE  TypeOK'
    <2>1. offered' \subseteq Command /\ remnant' \in BOOLEAN /\ c \in Command
      BY <1>13 DEF PollReject, Take
    <2> QED BY <1>13, <2>1 DEF PollReject
  <1>14. CASE RouteFault \/ RouteHalted
    <2>1. /\ active' \in Slot \cup {"none"}
          /\ output' \in BOOLEAN /\ chassis' \in BOOLEAN
          /\ routerFault' \in BOOLEAN /\ armed' \in BOOLEAN
      BY <1>14 DEF RouteFault, RouteHalted
    <2>2. left' = left \/ ClearSlots
      BY <1>14 DEF RouteFault, RouteHalted
    <2>3. left' \in [Slot -> Nat]
      BY <2>2
    <2>4. old' \in [Slot -> BOOLEAN]
      BY <1>14 DEF RouteFault, RouteHalted
    <2> QED BY <1>14, <2>1, <2>3, <2>4 DEF RouteFault, RouteHalted
  <1>15. CASE RouteApply
    BY <1>15, SelectedType DEF RouteApply
  <1>16. CASE RouteStale
    <2>1. chassis' \in BOOLEAN
      BY <1>16 DEF RouteStale
    <2> QED BY <1>16, <2>1 DEF RouteStale
  <1>17. ASSUME NEW finite \in BOOLEAN, ChassisUpdate(finite)
         PROVE  TypeOK'
    <2>1. chassis' \in BOOLEAN
      BY <1>17 DEF ChassisUpdate
    <2> QED BY <1>17, <2>1 DEF ChassisUpdate
  <1>18. CASE UNCHANGED vars
    BY <1>18 DEF vars
  <1> QED
    BY <1>1, <1>2, <1>3, <1>4, <1>5, <1>6, <1>7, <1>8, <1>9, <1>10, <1>11,
       <1>12, <1>13, <1>14, <1>15, <1>16, <1>17, <1>18
    DEF Next, SendCommand, HostCommand, Pass

\* Every variable of the control loop keeps its type.
THEOREM TypeCorrect == Spec => []TypeOK
  <1> QED BY TypeInit, TypeStep, PTL DEF Spec

-----------------------------------------------------------------------------
(* The invariant.                                                          *)

LEMMA InvInit == Init => IInv
  <1> SUFFICES ASSUME Init PROVE SlotInv /\ OutputInv /\ RoutedInv
    BY TypeInit DEF IInv
  <1>1. \A s \in Slot : left[s] = 0
    BY DEF Init
  <1>2. \A s \in Slot : ~ Valid(s)
    BY <1>1 DEF Valid
  <1> QED
    BY <1>2, SlotCases DEF Init, SlotInv, OutputInv, EnabledIsKnown, RoutedInv

\* A step that only takes validity away, opens no gate and arms no less keeps
\* what is known of the slots.
LEMMA SlotsShrink ==
    ASSUME SlotInv,
           \A s \in Slot : Valid(s)' => Valid(s) /\ old'[s] = old[s],
           (estop \/ maintenance)' => estop \/ maintenance,
           armed => armed'
    PROVE  SlotInv'
  BY SlotCases DEF SlotInv

\* A step that empties the slots.
LEMMA SlotsCleared ==
    ASSUME ClearSlots
    PROVE  SlotInv' /\ \A s \in Slot : ~ Valid(s)'
  BY SlotCases DEF SlotInv, ClearSlots, Valid

\* Inside a pass nothing is promised of its end.
LEMMA InsidePass ==
    ASSUME ~ Routed'
    PROVE  RoutedInv'
  BY DEF RoutedInv

\* A stop leaves nothing enabled.
LEMMA Stopped ==
    ASSUME Stop
    PROVE  OutputInv' /\ RoutedInv'
  BY DEF Stop, OutputInv, EnabledIsKnown, RoutedInv

LEMMA SlotStep == IInv /\ [Next]_vars => SlotInv'
  <1> SUFFICES ASSUME IInv, [Next]_vars PROVE SlotInv'
    OBVIOUS
  <1> USE DEF IInv, linkVars, sourceVars, gateVars, outputVars, slotVars,
          hostFrame, pollFrame, routeFrame
  <1>1. ASSUME NEW c \in Command, Publish(c)
        PROVE  SlotInv'
    BY <1>1 DEF Publish, SlotInv, Valid
  <1>2. CASE Restart1
    BY <1>2 DEF Restart1, SlotInv, Valid
  <1>3. ASSUME NEW gap \in 1..MaxGap, BeginPass(gap)
        PROVE  SlotInv'
    <2>1. ASSUME NEW s \in Slot, Valid(s)'
          PROVE  Valid(s) /\ old'[s] = old[s]
      <3>1. left[s] \in Nat /\ gap \in Nat
        BY MotionAssumption DEF TypeOK
      <3>2. left'[s] = Remaining(left[s], gap) /\ old' = old
        BY <1>3 DEF BeginPass
      <3> QED BY <2>1, <3>1, <3>2, RemainingType DEF Valid
    <2> QED BY <1>3, <2>1, SlotsShrink DEF BeginPass
  <1>4. CASE HostStop
    BY <1>4, SlotsCleared DEF HostStop
  <1>5. CASE HostArm
    <2>1. \A s \in Slot : Valid(s)' => Valid(s) /\ old'[s] = old[s]
      BY <1>5 DEF HostArm, Valid
    <2>2. armed => armed'
      BY <1>5 DEF HostArm
    <2>3. (estop \/ maintenance)' => estop \/ maintenance
      BY <1>5 DEF HostArm
    <2> QED BY <2>1, <2>2, <2>3, SlotsShrink
  <1>6. ASSUME NEW enabled \in BOOLEAN, HostMaintenance(enabled)
        PROVE  SlotInv'
    BY <1>6, SlotsCleared DEF HostMaintenance
  <1>7. CASE HostBalanceOff
    BY <1>7, SlotsCleared DEF HostBalanceOff
  <1>8. CASE HostMotion
    <2>1. ~ estop' /\ ~ maintenance' /\ armed' = armed
      BY <1>8 DEF HostMotion, Admits
    <2>2. "uart" \notin RemoteSlot
      BY DEF RemoteSlot
    <2>3. \A s \in RemoteSlot : Valid(s)' => armed'
      BY <1>8, <2>1, <2>2 DEF HostMotion, SlotInv, Valid, TypeOK, Slot
    <2>4. \A s \in Slot : Valid(s)' => ~ old'[s]
      BY <1>8 DEF HostMotion, SlotInv, Valid, TypeOK
    <2> QED BY <2>1, <2>3, <2>4 DEF SlotInv
  <1>9. CASE HostDone \/ PollNothing
    BY <1>9 DEF HostDone, PollNothing, SlotInv, Valid
  <1>10. ASSUME NEW bad \in BOOLEAN, Safety(bad)
         PROVE  SlotInv'
    BY <1>10 DEF Safety, SlotInv, Valid
  <1>11. ASSUME NEW c \in offered, PollCancel(c)
         PROVE  SlotInv'
    <2>1. MapSource(c.source) \in Slot
      BY MapType, SlotCases
    <2>2. \A s \in Slot : Valid(s)' => Valid(s) /\ old'[s] = old[s]
      BY <1>11, <2>1 DEF PollCancel, Cancel, Valid, TypeOK
    <2> QED BY <1>11, <2>2, SlotsShrink DEF PollCancel
  <1>12. ASSUME NEW c \in offered, PollAccept(c)
         PROVE  SlotInv'
    <2> DEFINE t == MapSource(c.source)
    <2>1. t \in RemoteSlot /\ t \in Slot /\ t # "uart"
      BY MapType, SlotCases DEF RemoteSlot
    <2> HIDE DEF t
    <2>2. ~ estop' /\ ~ maintenance' /\ armed' = armed /\ armed
      BY <1>12, <2>1 DEF PollAccept, Admits, t
    <2>3. old' = [old EXCEPT ![t] = FALSE]
      BY <1>12 DEF PollAccept, t
    <2>4. \A s \in Slot : s # t => Valid(s)' = Valid(s)
      BY <1>12, <2>1 DEF PollAccept, Valid, TypeOK, t
    <2>5. \A s \in Slot : Valid(s)' => ~ old'[s]
      BY <2>1, <2>3, <2>4 DEF SlotInv, TypeOK
    <2> QED BY <2>2, <2>5 DEF SlotInv
  <1>13. CASE RouteFault
    BY <1>13, SlotsCleared DEF RouteFault
  <1>14. CASE RouteHalted
    <2>1. CASE ClearSlots
      BY <2>1, SlotsCleared
    <2>2. CASE UNCHANGED left
      BY <1>14, <2>2 DEF RouteHalted, SlotInv, Valid
    <2> QED BY <1>14, <2>1, <2>2 DEF RouteHalted
  <1>15. CASE RouteApply \/ RouteStale
    BY <1>15 DEF RouteApply, RouteStale, SlotInv, Valid
  <1>16. ASSUME NEW c \in offered, PollReject(c)
         PROVE  SlotInv'
    BY <1>16 DEF PollReject, SlotInv, Valid
  <1>17. ASSUME NEW finite \in BOOLEAN, ChassisUpdate(finite)
         PROVE  SlotInv'
    BY <1>17 DEF ChassisUpdate, SlotInv, Valid
  <1>18. CASE UNCHANGED vars
    BY <1>18 DEF vars, SlotInv, Valid
  <1> QED
    BY <1>1, <1>2, <1>3, <1>4, <1>5, <1>6, <1>7, <1>8, <1>9, <1>10, <1>11,
       <1>12, <1>13, <1>14, <1>15, <1>16, <1>17, <1>18
    DEF Next, SendCommand, HostCommand, Pass

LEMMA OutputStep == IInv /\ [Next]_vars => OutputInv' /\ RoutedInv'
  <1> SUFFICES ASSUME IInv, [Next]_vars PROVE OutputInv' /\ RoutedInv'
    OBVIOUS
  <1> USE DEF IInv, linkVars, sourceVars, gateVars, outputVars, slotVars,
          hostFrame, pollFrame, routeFrame
  <1>1. ASSUME NEW c \in Command, Publish(c)
        PROVE  OutputInv' /\ RoutedInv'
    BY <1>1 DEF Publish, OutputInv, EnabledIsKnown, RoutedInv, Routed, Selected, Valid
  <1>2. CASE Restart1
    BY <1>2 DEF Restart1, OutputInv, EnabledIsKnown, RoutedInv, Routed, Selected, Valid
  <1>3. ASSUME NEW gap \in 1..MaxGap, BeginPass(gap)
        PROVE  OutputInv' /\ RoutedInv'
    BY <1>3, InsidePass DEF Routed, BeginPass, OutputInv, EnabledIsKnown
  <1>4. CASE HostStop
    BY <1>4, Stopped DEF HostStop
  <1>5. CASE HostArm
    BY <1>5, Stopped DEF HostArm
  <1>6. ASSUME NEW enabled \in BOOLEAN, HostMaintenance(enabled)
        PROVE  OutputInv' /\ RoutedInv'
    BY <1>6, Stopped DEF HostMaintenance
  <1>7. CASE HostBalanceOff
    <2>1. chassis' = FALSE /\ output' = FALSE
      <3>1. CASE output
        BY <1>7, <3>1 DEF HostBalanceOff
      <3>2. CASE ~ output
        BY <1>7, <3>2 DEF HostBalanceOff
      <3> QED BY <3>1, <3>2
    <2> QED BY <2>1 DEF OutputInv, EnabledIsKnown, RoutedInv
  <1>8. CASE HostMotion
    BY <1>8, InsidePass DEF Routed, HostMotion, OutputInv, EnabledIsKnown
  <1>9. CASE HostDone \/ PollNothing
    BY <1>9, InsidePass DEF Routed, HostDone, PollNothing, OutputInv, EnabledIsKnown
  <1>10. ASSUME NEW bad \in BOOLEAN, Safety(bad)
         PROVE  OutputInv' /\ RoutedInv'
    BY <1>10, InsidePass DEF Routed, Safety, OutputInv, EnabledIsKnown
  <1>11. ASSUME NEW c \in offered, PollCancel(c)
         PROVE  OutputInv' /\ RoutedInv'
    <2>1. ~ Routed' /\ estop' = estop /\ maintenance' = maintenance
      BY <1>11 DEF PollCancel, Routed
    <2>2. CASE Stop
      BY <2>2, Stopped
    <2>3. CASE UNCHANGED outputVars
      BY <2>1, <2>3, InsidePass DEF Routed, OutputInv, EnabledIsKnown
    <2> QED BY <1>11, <2>2, <2>3 DEF PollCancel, Cancel
  <1>12. CASE RouteFault \/ RouteHalted
    BY <1>12, Stopped DEF RouteFault, RouteHalted
  <1>13. CASE RouteApply
    <2>1. Selected' = Selected /\ Valid(Selected)' = Valid(Selected)
      BY <1>13 DEF RouteApply, Selected, Valid
    <2>2. active' = Selected /\ output' /\ chassis' /\ Valid(Selected)
      BY <1>13 DEF RouteApply
    <2>3. Valid(active)'
      BY <1>13, <2>2 DEF RouteApply, Valid
    <2>4. ~ estop' /\ ~ maintenance' /\ ~ fault'
      BY <1>13 DEF RouteApply
    <2>5. active' # "none"
      BY <2>2, SelectedType, SlotCases
    <2>6. OutputInv'
      BY <2>2, <2>4, <2>5 DEF OutputInv, EnabledIsKnown
    <2> QED BY <2>1, <2>2, <2>3, <2>4, <2>6 DEF RoutedInv
  <1>14. CASE RouteStale
    <2>1. chassis' = FALSE
      BY <1>14 DEF RouteStale, OutputInv, EnabledIsKnown
    <2> QED BY <2>1 DEF OutputInv, EnabledIsKnown, RoutedInv
  <1>15. ASSUME NEW c \in offered, PollAccept(c) \/ PollReject(c)
         PROVE  OutputInv' /\ RoutedInv'
    BY <1>15, InsidePass DEF Routed, PollAccept, PollReject, OutputInv, EnabledIsKnown
  <1>16. ASSUME NEW finite \in BOOLEAN, ChassisUpdate(finite)
         PROVE  OutputInv' /\ RoutedInv'
    <2>1. Routed /\ (chassis' => chassis)
      BY <1>16 DEF ChassisUpdate, Routed
    <2>2. UNCHANGED <<active, output, estop, maintenance, fault, left>>
      BY <1>16 DEF ChassisUpdate
    <2> QED BY <2>1, <2>2
        DEF OutputInv, EnabledIsKnown, RoutedInv, Selected, Valid
  <1>17. CASE UNCHANGED vars
    BY <1>17 DEF vars, OutputInv, EnabledIsKnown, RoutedInv, Routed, Selected, Valid
  <1> QED
    BY <1>1, <1>2, <1>3, <1>4, <1>5, <1>6, <1>7, <1>8, <1>9, <1>10, <1>11,
       <1>12, <1>13, <1>14, <1>15, <1>16, <1>17
    DEF Next, SendCommand, HostCommand, Pass

LEMMA Invariant == Spec => []IInv
  <1>1. IInv /\ [Next]_vars => IInv'
    BY TypeStep, SlotStep, OutputStep DEF IInv
  <1> QED BY InvInit, <1>1, PTL DEF Spec

-----------------------------------------------------------------------------
(* The safety properties.                                                  *)

\* Emergency stop, maintenance mode and a safety fault keep the chassis off,
\* for any number of sources and any timing of the main loop.
THEOREM Halts == Spec => []HaltedNeverMoves
  <1>1. IInv => HaltedNeverMoves
    BY DEF IInv, OutputInv, RoutedInv, HaltedNeverMoves
  <1> QED BY Invariant, <1>1, PTL

\* The chassis only follows the unexpired request of highest priority, and a
\* remote one only in an armed car.
THEOREM Authorised == Spec => []MotionIsAuthorised
  <1>1. IInv => MotionIsAuthorised
    <2> SUFFICES ASSUME IInv, Routed, chassis
                 PROVE  /\ active # "none" /\ Valid(active)
                        /\ active = Selected
                        /\ active # "uart" => armed
      BY DEF MotionIsAuthorised
    <2>1. Valid(active) /\ active = Selected
      BY DEF IInv, RoutedInv
    <2>2. active \in RemoteSlot \/ active = "uart"
      BY <2>1, SelectedType DEF Slot
    <2>3. active # "none"
      BY <2>2, SlotCases
    <2>4. active # "uart" => armed
      BY <2>1, <2>2 DEF IInv, SlotInv
    <2> QED BY <2>1, <2>3, <2>4
  <1> QED BY Invariant, <1>1, PTL

\* No request outlives a halt.
THEOREM NothingResumes == Spec => []NoRequestResumes
  <1>1. IInv => NoRequestResumes
    <2> SUFFICES ASSUME IInv, Routed, chassis PROVE ~ old[active]
      BY DEF NoRequestResumes
    <2>1. Valid(active) /\ active \in Slot
      BY SelectedType DEF IInv, RoutedInv
    <2> QED BY <2>1 DEF IInv, SlotInv
  <1> QED BY Invariant, <1>1, PTL

\* The router never loses an enabled chassis: for any sources, validities and
\* gaps, and although the chassis may stop on its own, what is enabled is
\* marked as the router's output, so the expiry of its request stops it.
THEOREM RouterKnows == Spec => []EnabledIsKnown
  <1>1. IInv => EnabledIsKnown
    BY DEF IInv, OutputInv
  <1> QED BY Invariant, <1>1, PTL

=============================================================================
