-------------------------- MODULE FeedbackAgeProofs --------------------------
(***************************************************************************)
(* Proofs about FeedbackAge, for any timeouts and any gap between passes   *)
(* that is no longer than the IMU's timeout.                               *)
(***************************************************************************)
EXTENDS FeedbackAge, TLAPS

\* The steps of a pass after its staleness check, up to the next now_ms, and
\* those after it has taken the IMU's flag.
Settled == {"safety", "balance", "motor", "idle", "clock"}
AfterTake == Settled \cup {"stale"}

\* What is ready for the next pass came after the take of the last one.
ReadyIsRecent ==
    ready => readyAge <= gap + (IF phase \in AfterTake THEN 0 ELSE MaxGap)

\* Between the end of a silence and the next check, a healthy sample is a
\* recent one: the check left it healthy only because it was ahead of now_ms.
Survived ==
    staleActive /\ healthy =>
        /\ phase \in Settled => sampleAge <= gap
        /\ phase = "imu" => sampleAge <= gap + MaxGap
        /\ phase = "stale" => sampleAge <= gap + ImuTimeout

\* What the check leaves healthy is not stale.
Checked ==
    phase = "safety" /\ healthy => sampleAge <= gap + ImuTimeout

IInv == TypeOK /\ FaultStopsMotors /\ ReadyIsRecent /\ Survived /\ Checked /\ StaleImuFaults

-----------------------------------------------------------------------------
\* now_ms less a stamp is exact for a stamp of the past.
LEMMA SeenPast ==
    ASSUME NEW a \in 0..Old, gap \in 0..MaxGap, gap <= a
    PROVE  Seen(a) = a - gap
  <1>1. a - gap \in Int /\ 0 <= a - gap /\ a - gap < Word
    BY FeedbackAssumption DEF FeedbackAssumption, Old
  <1>2. Word \in Nat /\ Word > 0
    BY FeedbackAssumption DEF FeedbackAssumption, Old
  <1> QED  BY <1>1, <1>2 DEF Seen

\* A stamp ahead of now_ms looks older than every timeout.
LEMMA SeenAhead ==
    ASSUME NEW a \in 0..Old, gap \in 0..MaxGap, a < gap
    PROVE  Seen(a) \in Nat /\ Seen(a) > Old
  <1>1. a - gap \in Int /\ 0 <= a - gap + Word /\ a - gap + Word < Word
    BY FeedbackAssumption DEF FeedbackAssumption, Old
  <1>2. Word \in Nat /\ Word > 0
    BY FeedbackAssumption DEF FeedbackAssumption, Old
  <1>3. (a - gap) % Word = a - gap + Word
    BY <1>1, <1>2
  <1>4. a - gap + Word > Old
    BY FeedbackAssumption DEF FeedbackAssumption, Old
  <1> QED  BY <1>1, <1>3, <1>4, FeedbackAssumption DEF Seen, FeedbackAssumption, Old

\* So what passes a timeout, at most as long as Old, is at most that old.
LEMMA SeenWithin ==
    ASSUME NEW a \in 0..Old, gap \in 0..MaxGap,
           NEW limit \in Nat, limit <= Old, Seen(a) <= limit
    PROVE  a <= gap + limit
  <1>0. Old \in Nat
    BY FeedbackAssumption DEF FeedbackAssumption, Old
  <1>1. CASE gap <= a
    BY <1>0, <1>1, SeenPast, FeedbackAssumption DEF FeedbackAssumption
  <1>2. CASE a < gap
    BY <1>0, <1>2, SeenAhead, FeedbackAssumption DEF FeedbackAssumption
  <1> QED  BY <1>0, <1>1, <1>2, FeedbackAssumption DEF FeedbackAssumption

LEMMA SeenType ==
    ASSUME NEW a \in 0..Old, gap \in 0..MaxGap
    PROVE  Seen(a) \in 0..Word - 1
  <1>1. a - gap \in Int /\ Word \in Nat /\ Word > 0
    BY FeedbackAssumption DEF FeedbackAssumption, Old
  <1> QED  BY <1>1 DEF Seen

LEMMA OlderType ==
    ASSUME NEW a \in 0..Old
    PROVE  Older(a) \in 0..Old /\ Older(a) <= a + 1
  <1>0. Old \in Nat
    BY FeedbackAssumption DEF FeedbackAssumption, Old
  <1> QED  BY <1>0 DEF Older

-----------------------------------------------------------------------------
(* Type correctness.                                                       *)

LEMMA TypeInit == Init => TypeOK
  <1>1. 0 \in 0..MaxGap /\ 0 \in 0..Old /\ 0 \in 0..Word - 1
    BY FeedbackAssumption DEF FeedbackAssumption, Old
  <1> QED  BY <1>1 DEF Init, TypeOK

LEMMA TypeStep == TypeOK /\ [Next]_vars => TypeOK'
  <1> SUFFICES ASSUME TypeOK, [Next]_vars PROVE TypeOK'
    OBVIOUS
  <1> USE DEF TypeOK, clockVars, imuVars, frameVars, wheelVars, motorVars
  <1>0. 0 \in 0..MaxGap /\ 0 \in 0..Old /\ 0 \in 0..Word - 1 /\ MaxGap \in Nat
    BY FeedbackAssumption DEF FeedbackAssumption, Old
  <1>1. CASE Tick
    <2>1. gap' \in 0..MaxGap
      BY <1>0, <1>1 DEF Tick
    <2>2. readyAge' \in 0..Old /\ sampleAge' \in 0..Old /\ frameAge' \in 0..Old
      BY <1>0, <1>1, OlderType DEF Tick
    <2> QED  BY <1>1, <2>1, <2>2 DEF Tick
  <1>2. CASE ImuInterrupt
    BY <1>0, <1>2 DEF ImuInterrupt
  <1>3. CASE WheelFrame
    BY <1>0, <1>3 DEF WheelFrame
  <1>4. CASE TakePending
    BY <1>4, ZenonT(60) DEF TakePending
  <1>5. CASE ReadClock
    BY <1>0, <1>5, ZenonT(60) DEF ReadClock
  <1>6. ASSUME NEW got \in BOOLEAN, UpdateImu(got) PROVE TypeOK'
    <2>1. healthy' \in BOOLEAN
      BY <1>6 DEF UpdateImu
    <2> QED  BY <1>0, <1>6, <2>1, ZenonT(60) DEF UpdateImu
  <1>7. CASE CheckStale
    <2>1. healthy' \in BOOLEAN
      BY <1>7 DEF CheckStale
    <2>2. staleActive' \in BOOLEAN
      BY <1>7 DEF CheckStale
    <2> QED  BY <1>7, <2>1, <2>2 DEF CheckStale
  <1>8. ASSUME NEW late \in BOOLEAN, NEW tilted \in BOOLEAN, Safety(late, tilted)
        PROVE  TypeOK'
    <2>1. armed' \in BOOLEAN
      BY <1>8 DEF Safety
    <2>2. fault' \in BOOLEAN
      BY <1>8 DEF Safety
    <2>3. enable' \in BOOLEAN /\ active' \in BOOLEAN
      BY <1>8 DEF Safety
    <2> QED  BY <1>8, <2>1, <2>2, <2>3 DEF Safety
  <1>9. ASSUME NEW wanted \in BOOLEAN, Balance(wanted) PROVE TypeOK'
    <2>1. enable' \in BOOLEAN /\ active' \in BOOLEAN
      BY <1>9 DEF Balance
    <2> QED  BY <1>9, <2>1 DEF Balance
  <1>10. CASE BalanceIdle
    BY <1>10 DEF BalanceIdle
  <1>11. ASSUME NEW sides \in BOOLEAN, Refreshed(sides)
         PROVE  wheelAge' \in 0..Word - 1 /\ online' \in BOOLEAN
    <2>1. wheelAge' \in 0..Word - 1
      BY <1>0, <1>11, SeenType DEF Refreshed
    <2>2. online' \in BOOLEAN
      BY <1>11 DEF Refreshed
    <2> QED  BY <2>1, <2>2
  <1>12. ASSUME NEW sides \in BOOLEAN, NEW spins \in BOOLEAN, Drive(sides, spins)
         PROVE  TypeOK'
    BY <1>11, <1>12 DEF Drive
  <1>13. ASSUME NEW sides \in BOOLEAN, Halt(sides) PROVE TypeOK'
    BY <1>11, <1>13 DEF Halt
  <1>14. CASE UNCHANGED vars
    BY <1>14 DEF vars
  <1> QED
    BY <1>1, <1>2, <1>3, <1>4, <1>5, <1>6, <1>7, <1>8, <1>9, <1>10, <1>12,
       <1>13, <1>14 DEF Next, Pass

\* Every variable keeps its type.
THEOREM TypeCorrect == Spec => []TypeOK
  BY TypeInit, TypeStep, PTL DEF Spec

-----------------------------------------------------------------------------
(* A fault is final.                                                       *)

LEMMA FaultStep == TypeOK /\ FaultStopsMotors /\ [Next]_vars => FaultStopsMotors'
  <1> SUFFICES ASSUME TypeOK, FaultStopsMotors, [Next]_vars, fault'
               PROVE  ~ enable' /\ ~ active'
    BY DEF FaultStopsMotors
  <1>0. fault => ~ enable /\ ~ active
    BY DEF FaultStopsMotors
  <1> USE <1>0 DEF clockVars, imuVars, frameVars, wheelVars, motorVars
  <1>1. CASE Tick \/ ImuInterrupt \/ WheelFrame
    <2>1. fault' = fault /\ enable' = enable /\ active' = active
      BY <1>1 DEF Tick, ImuInterrupt, WheelFrame
    <2> QED  BY <2>1
  <1>2. CASE TakePending \/ ReadClock \/ CheckStale \/ BalanceIdle
    <2>1. fault' = fault /\ enable' = enable /\ active' = active
      BY <1>2 DEF TakePending, ReadClock, CheckStale, BalanceIdle
    <2> QED  BY <2>1
  <1>3. ASSUME NEW got \in BOOLEAN, UpdateImu(got) PROVE ~ enable' /\ ~ active'
    BY <1>3 DEF UpdateImu
  <1>4. ASSUME NEW late \in BOOLEAN, NEW tilted \in BOOLEAN, Safety(late, tilted)
        PROVE  ~ enable' /\ ~ active'
    <2>1. CASE fault' # fault
      BY <1>4, <2>1 DEF Safety
    <2>2. CASE fault' = fault
      BY <1>4, <2>2 DEF Safety
    <2> QED  BY <2>1, <2>2
  <1>5. ASSUME NEW wanted \in BOOLEAN, Balance(wanted) PROVE ~ enable' /\ ~ active'
    BY <1>5 DEF Balance, Usable
  <1>6. ASSUME NEW sides \in BOOLEAN, NEW spins \in BOOLEAN,
                Drive(sides, spins) \/ Halt(sides)
        PROVE  ~ enable' /\ ~ active'
    BY <1>6 DEF Drive, Halt
  <1>7. CASE UNCHANGED vars
    BY <1>7 DEF vars
  <1> QED  BY <1>1, <1>2, <1>3, <1>4, <1>5, <1>6, <1>7 DEF Next, Pass

\* After a fault of the safety monitor neither controller, nor the motor's own
\* update, drives the wheels again.
THEOREM FaultFinal == Spec => []FaultStopsMotors
  <1>1. Init => FaultStopsMotors
    BY DEF Init, FaultStopsMotors
  <1> QED  BY <1>1, FaultStep, TypeCorrect, PTL DEF Spec

-----------------------------------------------------------------------------
(* Stale samples become faults.                                            *)

\* What a pass of the safety monitor finds healthy is not stale.
LEMMA FreshInit == Init => ReadyIsRecent /\ Survived /\ Checked /\ StaleImuFaults
  <1> SUFFICES ASSUME Init
               PROVE  ReadyIsRecent /\ Survived /\ Checked /\ StaleImuFaults
    OBVIOUS
  <1>1. readyAge = 0 /\ gap = 0 /\ ~ staleActive /\ phase = "idle"
    BY DEF Init
  <1>2. ReadyIsRecent
    BY <1>1, FeedbackAssumption DEF ReadyIsRecent, AfterTake, Settled, FeedbackAssumption
  <1>3. Survived /\ Checked /\ StaleImuFaults
    BY <1>1 DEF Survived, Checked, StaleImuFaults
  <1> QED  BY <1>2, <1>3

LEMMA ReadyStep == TypeOK /\ ReadyIsRecent /\ [Next]_vars => ReadyIsRecent'
  <1> SUFFICES ASSUME TypeOK, ReadyIsRecent, [Next]_vars, ready'
               PROVE  readyAge' <= gap' + (IF phase' \in AfterTake THEN 0 ELSE MaxGap)
    BY DEF ReadyIsRecent
  <1>0. /\ gap \in 0..MaxGap /\ readyAge \in 0..Old /\ MaxGap \in Nat /\ Old \in Nat
        /\ phase \in AfterTake \/ phase = "imu"
        /\ "imu" \notin AfterTake
    BY FeedbackAssumption DEF TypeOK, AfterTake, Settled, FeedbackAssumption, Old
  <1> USE <1>0 DEF ReadyIsRecent, clockVars, imuVars, frameVars, wheelVars, motorVars
  <1>1. CASE Tick
    <2>1. ready /\ phase' = phase /\ gap' = gap + 1 /\ readyAge' <= readyAge + 1
          /\ readyAge' \in 0..Old
      BY <1>1, OlderType DEF Tick
    <2> QED  BY <2>1
  <1>2. CASE ImuInterrupt
    BY <1>2 DEF ImuInterrupt
  <1>3. CASE WheelFrame
    BY <1>3 DEF WheelFrame
  <1>4. CASE TakePending
    BY <1>4 DEF TakePending, AfterTake, Settled
  <1>5. CASE ReadClock
    BY <1>5 DEF ReadClock, AfterTake, Settled
  <1>6. ASSUME NEW got \in BOOLEAN, UpdateImu(got) PROVE FALSE
    BY <1>6 DEF UpdateImu
  <1>7. CASE CheckStale
    BY <1>7 DEF CheckStale, AfterTake, Settled
  <1>8. ASSUME NEW late \in BOOLEAN, NEW tilted \in BOOLEAN, Safety(late, tilted)
        PROVE  readyAge' <= gap' + (IF phase' \in AfterTake THEN 0 ELSE MaxGap)
    BY <1>8 DEF Safety, AfterTake, Settled
  <1>9. ASSUME NEW wanted \in BOOLEAN, Balance(wanted)
        PROVE  readyAge' <= gap' + (IF phase' \in AfterTake THEN 0 ELSE MaxGap)
    BY <1>9 DEF Balance, AfterTake, Settled
  <1>10. CASE BalanceIdle
    BY <1>10 DEF BalanceIdle, AfterTake, Settled
  <1>11. ASSUME NEW sides \in BOOLEAN, NEW spins \in BOOLEAN,
                Drive(sides, spins) \/ Halt(sides)
         PROVE  readyAge' <= gap' + (IF phase' \in AfterTake THEN 0 ELSE MaxGap)
    BY <1>11 DEF Drive, Halt, AfterTake, Settled
  <1>12. CASE UNCHANGED vars
    BY <1>12 DEF vars
  <1> QED
    BY <1>1, <1>2, <1>3, <1>4, <1>5, <1>6, <1>7, <1>8, <1>9, <1>10, <1>11, <1>12
       DEF Next, Pass

LEMMA SurvivedStep ==
    TypeOK /\ ReadyIsRecent /\ Survived /\ [Next]_vars => Survived'
  <1> SUFFICES ASSUME TypeOK, ReadyIsRecent, Survived, [Next]_vars,
                      staleActive', healthy'
               PROVE  /\ phase' \in Settled => sampleAge' <= gap'
                      /\ phase' = "imu" => sampleAge' <= gap' + MaxGap
                      /\ phase' = "stale" => sampleAge' <= gap' + ImuTimeout
    BY DEF Survived, Settled
  <1>0. /\ gap \in 0..MaxGap /\ readyAge \in 0..Old /\ sampleAge \in 0..Old
        /\ MaxGap \in Nat /\ ImuTimeout \in Nat /\ MaxGap <= ImuTimeout
        /\ Old \in Nat /\ ImuTimeout <= Old
        /\ "imu" \notin Settled /\ "stale" \notin Settled
    BY FeedbackAssumption DEF TypeOK, Settled, FeedbackAssumption, Old
  <1>s. staleActive /\ healthy =>
          /\ phase \in Settled => sampleAge <= gap
          /\ phase = "imu" => sampleAge <= gap + MaxGap
          /\ phase = "stale" => sampleAge <= gap + ImuTimeout
    BY DEF Survived, Settled
  <1> USE <1>0, <1>s DEF clockVars, imuVars, frameVars, wheelVars, motorVars
  <1>1. CASE Tick
    <2>1. /\ staleActive /\ healthy /\ phase' = phase /\ gap' = gap + 1
          /\ sampleAge' <= sampleAge + 1 /\ sampleAge' \in 0..Old
      BY <1>1, OlderType DEF Tick
    <2> QED  BY <2>1
  <1>2. CASE ImuInterrupt
    BY <1>2 DEF ImuInterrupt
  <1>3. CASE WheelFrame
    BY <1>3 DEF WheelFrame
  <1>4. CASE TakePending
    BY <1>4 DEF TakePending, Settled
  <1>5. CASE ReadClock
    BY <1>5 DEF ReadClock, Settled
  <1>6. ASSUME NEW got \in BOOLEAN, UpdateImu(got)
        PROVE  sampleAge' <= gap' + ImuTimeout /\ phase' = "stale"
    <2>1. phase = "imu" /\ phase' = "stale" /\ gap' = gap /\ staleActive
      BY <1>6 DEF UpdateImu
    <2>2. CASE ready /\ got
      <3>1. readyAge <= gap + MaxGap
        BY <2>1, <2>2 DEF ReadyIsRecent, AfterTake, Settled
      <3> QED  BY <1>6, <2>1, <2>2, <3>1 DEF UpdateImu
    <2>3. CASE ~ (ready /\ got)
      <3>1. healthy /\ sampleAge' = sampleAge
        BY <1>6, <2>3 DEF UpdateImu
      <3> QED  BY <2>1, <3>1
    <2> QED  BY <2>2, <2>3
  <1>7. CASE CheckStale
    <2>1. /\ phase = "stale" /\ phase' \in Settled /\ gap' = gap
          /\ sampleAge' = sampleAge
      BY <1>7 DEF CheckStale, Settled
    <2>2. Seen(sampleAge) > ImuTimeout /\ healthy
      BY <1>7 DEF CheckStale
    <2>3. staleActive
      BY <1>7, <2>2 DEF CheckStale
    <2>4. sampleAge <= gap + ImuTimeout
      BY <2>1, <2>2, <2>3
    <2>5. sampleAge < gap
      <3>1. CASE gap <= sampleAge
        BY <2>2, <2>4, <3>1, SeenPast
      <3> QED  BY <3>1
    <2> QED  BY <2>1, <2>5
  <1>8. ASSUME NEW late \in BOOLEAN, NEW tilted \in BOOLEAN, Safety(late, tilted)
        PROVE  phase' \in Settled /\ sampleAge' <= gap'
    BY <1>8 DEF Safety, Settled
  <1>9. ASSUME NEW wanted \in BOOLEAN, Balance(wanted)
        PROVE  phase' \in Settled /\ sampleAge' <= gap'
    BY <1>9 DEF Balance, Settled
  <1>10. CASE BalanceIdle
    BY <1>10 DEF BalanceIdle, Settled
  <1>11. ASSUME NEW sides \in BOOLEAN, NEW spins \in BOOLEAN,
                Drive(sides, spins) \/ Halt(sides)
         PROVE  phase' \in Settled /\ sampleAge' <= gap'
    BY <1>11 DEF Drive, Halt, Settled
  <1>12. CASE UNCHANGED vars
    BY <1>12 DEF vars
  <1> QED
    BY <1>1, <1>2, <1>3, <1>4, <1>5, <1>6, <1>7, <1>8, <1>9, <1>10, <1>11, <1>12
       DEF Next, Pass

LEMMA CheckedStep == TypeOK /\ Survived /\ Checked /\ [Next]_vars => Checked'
  <1> SUFFICES ASSUME TypeOK, Survived, Checked, [Next]_vars,
                      phase' = "safety", healthy'
               PROVE  sampleAge' <= gap' + ImuTimeout
    BY DEF Checked
  <1>0. /\ gap \in 0..MaxGap /\ sampleAge \in 0..Old
        /\ MaxGap \in Nat /\ ImuTimeout \in Nat /\ Old \in Nat /\ ImuTimeout <= Old
    BY FeedbackAssumption DEF TypeOK, FeedbackAssumption, Old
  <1> USE <1>0 DEF Checked, clockVars, imuVars, frameVars, wheelVars, motorVars
  <1>1. CASE Tick
    <2>1. /\ healthy /\ phase = "safety" /\ gap' = gap + 1
          /\ sampleAge' <= sampleAge + 1 /\ sampleAge' \in 0..Old
      BY <1>1, OlderType DEF Tick
    <2> QED  BY <2>1
  <1>2. CASE ImuInterrupt \/ WheelFrame
    BY <1>2 DEF ImuInterrupt, WheelFrame
  <1>3. CASE CheckStale
    <2>1. phase = "stale" /\ gap' = gap /\ sampleAge' = sampleAge /\ healthy
      BY <1>3 DEF CheckStale
    <2>2. CASE Seen(sampleAge) <= ImuTimeout
      BY <2>1, <2>2, SeenWithin
    <2>3. CASE ~ (Seen(sampleAge) <= ImuTimeout)
      <3>1. Seen(sampleAge) \in 0..Word - 1 /\ Word \in Nat
        BY SeenType, FeedbackAssumption DEF FeedbackAssumption
      <3>2. Seen(sampleAge) > ImuTimeout
        BY <2>3, <3>1
      <3>3. staleActive
        BY <1>3, <2>1, <3>2 DEF CheckStale
      <3> QED  BY <2>1, <3>3 DEF Survived
    <2> QED  BY <2>2, <2>3
  <1>4. CASE UNCHANGED vars
    BY <1>4 DEF vars
  <1>5. CASE Pass /\ ~ CheckStale
    BY <1>5 DEF Pass, TakePending, ReadClock, UpdateImu, Safety, Balance, BalanceIdle,
                Drive, Halt
  <1> QED  BY <1>1, <1>2, <1>3, <1>4, <1>5 DEF Next

LEMMA StaleStep == TypeOK /\ Checked /\ StaleImuFaults /\ [Next]_vars => StaleImuFaults'
  <1> SUFFICES ASSUME TypeOK, Checked, StaleImuFaults, [Next]_vars,
                      phase' = "balance", armed', ~ fault'
               PROVE  sampleAge' <= gap' + ImuTimeout
    BY DEF StaleImuFaults
  <1>0. /\ gap \in 0..MaxGap /\ sampleAge \in 0..Old
        /\ MaxGap \in Nat /\ ImuTimeout \in Nat /\ Old \in Nat
    BY FeedbackAssumption DEF TypeOK, FeedbackAssumption, Old
  <1> USE <1>0 DEF StaleImuFaults, clockVars, imuVars, frameVars, wheelVars, motorVars
  <1>1. CASE Tick
    <2>1. /\ armed /\ ~ fault /\ phase = "balance" /\ gap' = gap + 1
          /\ sampleAge' <= sampleAge + 1 /\ sampleAge' \in 0..Old
      BY <1>1, OlderType DEF Tick
    <2> QED  BY <2>1
  <1>2. CASE ImuInterrupt \/ WheelFrame
    BY <1>2 DEF ImuInterrupt, WheelFrame
  <1>3. ASSUME NEW late \in BOOLEAN, NEW tilted \in BOOLEAN, Safety(late, tilted)
        PROVE  sampleAge' <= gap' + ImuTimeout
    <2>1. phase = "safety" /\ gap' = gap /\ sampleAge' = sampleAge
      BY <1>3 DEF Safety
    <2>2. healthy
      BY <1>3 DEF Safety
    <2> QED  BY <2>1, <2>2 DEF Checked
  <1>4. CASE UNCHANGED vars
    BY <1>4 DEF vars
  <1>5. CASE TakePending \/ ReadClock \/ CheckStale \/ BalanceIdle
    BY <1>5 DEF TakePending, ReadClock, CheckStale, BalanceIdle
  <1>6. ASSUME NEW b \in BOOLEAN, NEW c \in BOOLEAN,
               UpdateImu(b) \/ Balance(b) \/ Drive(b, c) \/ Halt(b)
        PROVE  FALSE
    BY <1>6 DEF UpdateImu, Balance, Drive, Halt
  <1> QED  BY <1>1, <1>2, <1>3, <1>4, <1>5, <1>6 DEF Next, Pass

LEMMA Invariant == Spec => []IInv
  <1>1. Init => IInv
    <2>1. Init => FaultStopsMotors
      BY DEF Init, FaultStopsMotors
    <2> QED  BY <2>1, TypeInit, FreshInit DEF IInv
  <1>2. IInv /\ [Next]_vars => IInv'
    BY TypeStep, FaultStep, ReadyStep, SurvivedStep, CheckedStep, StaleStep DEF IInv
  <1> QED  BY <1>1, <1>2, PTL DEF Spec

\* An armed monitor lets no sample older than the timeout reach the
\* controllers, however often silences were survived before and whatever the
\* interrupts do between the pass's steps.
THEOREM StaleFaults == Spec => []StaleImuFaults
  <1>1. IInv => StaleImuFaults
    BY DEF IInv
  <1> QED  BY <1>1, Invariant, PTL

\* The comparison of an interrupt's stamp with now_ms is the only way a sample
\* within the timeout is taken for a stale one: the stamp must be ahead.
THEOREM OnlyAheadIsSpurious ==
    Spec => [][CheckStale /\ healthy /\ gap <= sampleAge /\ sampleAge <= ImuTimeout
                 => healthy']_vars
  <1>1. ASSUME TypeOK, CheckStale, healthy, gap <= sampleAge, sampleAge <= ImuTimeout
        PROVE  healthy'
    <2>1. gap \in 0..MaxGap /\ sampleAge \in 0..Old /\ ImuTimeout \in Nat /\ MaxGap \in Nat
      BY <1>1, FeedbackAssumption DEF TypeOK, FeedbackAssumption
    <2>2. Seen(sampleAge) = sampleAge - gap
      BY <1>1, <2>1, SeenPast
    <2>3. ~ (Seen(sampleAge) > ImuTimeout)
      BY <1>1, <2>1, <2>2, FeedbackAssumption DEF FeedbackAssumption, Old
    <2> QED  BY <1>1, <2>3 DEF CheckStale
  <1> QED  BY <1>1, TypeCorrect, PTL
=============================================================================
