-------------------------- MODULE GnssSamplerProofs --------------------------
(***************************************************************************)
(* Proofs about GnssSampler for any day, number of cycles, age limit and   *)
(* number of fixes.  SampleIsOnePair needs a run of the receiver that is   *)
(* shorter than a day, so that a time of day names one cycle, and          *)
(* NoPairIsMissed one shorter than half a day, so that it orders them.     *)
(***************************************************************************)
EXTENDS GnssSampler, TLAPS

(* The inductive invariant.                                                *)

\* The count of usable samples is the streak, up to the number that is needed.
CountIsStreak ==
    /\ fix <=> streak >= FixCount
    /\ count = IF streak < FixCount THEN streak ELSE FixCount

\* The main loop holds the line it parses against the interrupt, until it has
\* stored the state.
LineIsHeld ==
    /\ \A k \in Kind : state[k] = "parsing" =>
           kind = k /\ pc \in {"sum", "read", "store"}
    /\ pc \in {"sum", "read"} => state[kind] = "parsing"
    /\ pc = "read" => reading = buffer[kind] /\ reading.good

\* A line waits to be read.
Unread(k) == state[k] = "received" \/ (kind = k /\ pc \in {"sum", "read"})

\* Lines of a kind come in the order of their cycles.
InOrder ==
    \A h \in Half :
        /\ buffer[h].cycle <= cycle /\ gnss[h].cycle <= cycle
        /\ h \in todo => buffer[h].cycle < cycle /\ gnss[h].cycle < cycle
        /\ Unread(h) /\ buffer[h].good => buffer[h].cycle > gnss[h].cycle

\* A half that is new is of a later cycle than the last sample, as long as a
\* time of day names one cycle.
NewIsLater ==
    MaxCycle < Day => \A h \in Half :
        /\ gnss[h].cycle >= published
        /\ new[h] => gnss[h].cycle > published

\* The parse of this pass is past a kind.
Passed(k) ==
    \/ pc = "pair"
    \/ pc \in {"check", "sum", "read", "store"}
       /\ (kind = "ths" \/ (kind = "gga" /\ k = "rmc"))

\* Only while the reset of a pair is pending may a line that came before the
\* timeout wait to be read, and only until the parse has passed it.
NothingSpent ==
    \A h \in Half :
        /\ ~ resetPending /\ Unread(h) => ~ buffer[h].spent
        /\ Passed(h) /\ state[h] = "received" => ~ buffer[h].spent
        /\ ~ resetPending /\ new[h] => ~ gnss[h].spent

\* A half that was consumed is part of the last sample or older than the other
\* half, as long as a time of day tells the order of two cycles; and a pass
\* that refused no line leaves no two new halves.
NoneMissed ==
    MaxCycle < Day \div 2 =>
        /\ \A h, o \in Half :
              h # o /\ ~ gnss[h].spent /\ ~ new[h] =>
                  published = gnss[h].cycle \/ gnss[o].cycle > gnss[h].cycle
        /\ pc \in {"idle", "flag"} /\ ~ error => ~ BothNew

IInv == /\ TypeOK /\ CountIsStreak /\ LineIsHeld /\ InOrder /\ NewIsLater
        /\ NothingSpent /\ NoneMissed

-----------------------------------------------------------------------------
(* Sentences.                                                              *)

LEMMA Spending ==
  ASSUME NEW s \in Sentence
  PROVE  /\ Spend(s) \in Sentence /\ Spend(s).cycle = s.cycle
         /\ Spend(s).good = s.good /\ Spend(s).spent
  BY DEF Spend, Sentence

LEMMA NoSentenceIs ==
  /\ NoSentence \in Sentence /\ NoSentence.cycle = 0
  /\ ~ NoSentence.good /\ NoSentence.spent
  BY GnssAssumption DEF NoSentence, Sentence

\* What the receiver sends of a half is of its cycle, and nothing it sends is
\* spent.
LEMMA Sending ==
  ASSUME cycle \in 0..MaxCycle, NEW k \in Kind, NEW s \in Sent(k)
  PROVE  s \in Sentence /\ ~ s.spent /\ (k \in Half => s.cycle = cycle)
  <1>1. CASE k \in Half
    <2>1. PICK q \in {"bad", "poor", "usable"} :
            s = [cycle |-> cycle, good |-> q # "bad", usable |-> q = "usable",
                 spent |-> FALSE]
      BY <1>1 DEF Sent
    <2> QED
      BY <2>1 DEF Sentence
  <1>2. CASE k \notin Half
    <2>1. PICK good \in BOOLEAN :
            s = [NoSentence EXCEPT !.good = good, !.spent = FALSE]
      BY <1>2 DEF Sent
    <2> QED
      BY <1>2, <2>1, NoSentenceIs DEF Sentence
  <1> QED
    BY <1>1, <1>2

LEMMA Kinds == Half \subseteq Kind /\ "rmc" \in Half /\ "gga" \in Half
  BY DEF Half, Kind

-----------------------------------------------------------------------------
(* The invariant holds at first and is kept by every step.                 *)

LEMMA Cycles ==
  ASSUME TypeOK, NEW h \in Half
  PROVE  /\ buffer[h].cycle \in 0..MaxCycle /\ gnss[h].cycle \in 0..MaxCycle
         /\ buffer[h].good \in BOOLEAN /\ buffer[h].spent \in BOOLEAN
         /\ gnss[h].good \in BOOLEAN /\ gnss[h].spent \in BOOLEAN
         /\ buffer[h] \in Sentence /\ gnss[h] \in Sentence
  BY Kinds DEF TypeOK, Sentence

LEMMA InitInv == Init => IInv
  <1> SUFFICES ASSUME Init PROVE IInv
    OBVIOUS
  <1>1. TypeOK
    <2>1. /\ cycle \in 0..MaxCycle /\ published \in 0..MaxCycle
          /\ count \in 0..FixCount /\ age \in Nat /\ streak \in Nat
      BY GnssAssumption DEF Init
    <2>2. /\ buffer \in [Kind -> Sentence] /\ gnss \in [Half -> Sentence]
          /\ reading \in Sentence
      BY NoSentenceIs DEF Init
    <2>3. /\ todo \in SUBSET Kind /\ kind \in Kind
          /\ state \in [Kind -> {"receiving", "received", "parsing"}]
          /\ new \in [Half -> BOOLEAN]
      BY DEF Init, Kind
    <2> QED
      BY <2>1, <2>2, <2>3 DEF Init, TypeOK
  <1>2. CountIsStreak
    BY GnssAssumption DEF Init, CountIsStreak
  <1>3. LineIsHeld /\ InOrder /\ NewIsLater /\ NothingSpent /\ NoneMissed
    BY NoSentenceIs, Kinds DEF Init, LineIsHeld, InOrder, NewIsLater,
       NothingSpent, Unread, Passed, NoneMissed, BothNew
  <1> QED
    BY <1>1, <1>2, <1>3 DEF IInv

LEMMA Multiple ==
  ASSUME NEW d \in Nat, NEW n \in Nat \ {0}
  PROVE  d * n >= d
  <1>1. n - 1 \in Nat /\ n = (n - 1) + 1
    OBVIOUS
  <1>2. d * (n - 1) \in Nat
    BY <1>1
  <1>3. d * n = d * (n - 1) + d
    OBVIOUS
  <1> QED
    BY <1>2, <1>3

LEMMA Close ==
  ASSUME NEW d \in Nat, NEW n \in Int, d * n < d, - d < d * n
  PROVE  n = 0
  <1>1. CASE n > 0
    <2>1. d * n >= d
      BY <1>1, Multiple
    <2> QED
      BY <2>1
  <1>2. CASE n < 0
    <2>1. d * (- n) >= d /\ d * (- n) = - (d * n) /\ d * n \in Int
      <3>1. - n \in Nat \ {0}
        BY <1>2
      <3> QED
        BY <3>1, Multiple
    <2> QED
      BY <2>1
  <1> QED
    BY <1>1, <1>2

LEMMA Division ==
  ASSUME NEW d \in Nat \ {0}, NEW x \in Int
  PROVE  x % d \in 0..(d - 1) /\ \E q \in Int : x = d * q + (x % d)
  <1>1. x \div d \in Int /\ x = d * (x \div d) + (x % d) /\ x % d \in 0..(d - 1)
    OBVIOUS
  <1> QED
    BY <1>1

\* Two times of day in less than a day are the same only in one cycle.
LEMMA OneEpoch ==
  ASSUME MaxCycle < Day, NEW a \in 0..MaxCycle, NEW b \in 0..MaxCycle,
         (FirstUtc + a) % Day = (FirstUtc + b) % Day
  PROVE  a = b
  <1> DEFINE x == FirstUtc + a
             y == FirstUtc + b
  <1>1. /\ Day \in Nat \ {0} /\ x \in Int /\ y \in Int
        /\ x - y < Day /\ - Day < x - y /\ x % Day = y % Day
    BY GnssAssumption
  <1> HIDE DEF x, y
  <1>2. PICK p \in Int : x = Day * p + (x % Day)
    BY <1>1, Division
  <1>3. PICK q \in Int : y = Day * q + (y % Day)
    BY <1>1, Division
  <1>4. x % Day \in Int
    BY <1>1, Division
  <1>5. Day * p \in Int /\ Day * q \in Int /\ x - y = Day * p - Day * q
    BY <1>1, <1>2, <1>3, <1>4
  <1>6. x - y = Day * (p - q)
    BY <1>1, <1>5
  <1>7. p - q = 0
    BY <1>1, <1>6, Close
  <1>8. x = y
    BY <1>1, <1>6, <1>7
  <1> QED
    BY <1>8, GnssAssumption DEF x, y

LEMMA Divided ==
  ASSUME NEW a \in Nat
  PROVE  \E q \in Int : FirstUtc + a = Day * q + ((FirstUtc + a) % Day)
  <1> DEFINE x == FirstUtc + a
  <1>1. Day \in Nat \ {0} /\ x \in Int
    BY GnssAssumption
  <1> HIDE DEF x
  <1>2. \E q \in Int : x = Day * q + (x % Day)
    BY <1>1, Division
  <1> QED
    BY <1>2 DEF x

\* In less than half a day the time of day tells which of two cycles is older.
LEMMA OlderEpoch ==
  ASSUME MaxCycle < Day \div 2,
         NEW r \in 0..MaxCycle, NEW g \in 0..MaxCycle, r # g,
         NEW forward,
         forward = (((FirstUtc + g) % Day) + Day - ((FirstUtc + r) % Day)) % Day
  PROVE  (forward # 0 /\ forward < Day \div 2) <=> g > r
  <1> DEFINE ug == (FirstUtc + g) % Day
             ur == (FirstUtc + r) % Day
  <1>1. /\ FirstUtc \in Nat /\ MaxCycle \in Nat /\ Day \in Nat \ {0}
        /\ 2 * (Day \div 2) <= Day /\ Day \div 2 \in Nat
    BY GnssAssumption
  <1>0. g \in Nat /\ r \in Nat
    BY <1>1
  <1>2. PICK p \in Int : FirstUtc + g = Day * p + ug
    <2>1. \E p \in Int : FirstUtc + g = Day * p + ((FirstUtc + g) % Day)
      BY <1>0, Divided
    <2> QED
      BY <2>1
  <1>3. PICK q \in Int : FirstUtc + r = Day * q + ur
    <2>1. \E q \in Int : FirstUtc + r = Day * q + ((FirstUtc + r) % Day)
      BY <1>0, Divided
    <2> QED
      BY <2>1
  <1>4. ug \in Int /\ ur \in Int
    BY <1>1, Division
  <1>5. forward \in 0..(Day - 1)
        /\ \E n \in Int : ug + Day - ur = Day * n + forward
    <2>1. ug + Day - ur \in Int
      BY <1>1, <1>4
    <2> HIDE DEF ug, ur
    <2>2. (ug + Day - ur) % Day \in 0..(Day - 1)
          /\ \E n \in Int : ug + Day - ur = Day * n + ((ug + Day - ur) % Day)
      BY <1>1, <2>1, Division
    <2>3. forward = (ug + Day - ur) % Day
      BY DEF ug, ur
    <2> QED
      BY <2>2, <2>3
  <1> HIDE DEF ug, ur
  <1>6. PICK n \in Int : ug + Day - ur = Day * n + forward
    BY <1>5
  <1>7. /\ Day * p \in Int /\ Day * q \in Int /\ Day * n \in Int
        /\ Day * (q - p + 1 - n) = Day * q - Day * p + Day - Day * n
    BY <1>1
  <1>8. PICK m \in Int : forward - (g - r) = Day * m
    <2>1. forward - (g - r) = Day * (q - p + 1 - n)
      BY <1>1, <1>2, <1>3, <1>4, <1>5, <1>6, <1>7
    <2> QED
      BY <2>1
  <1>9. CASE g > r
    <2>1. m = 0
      BY <1>1, <1>5, <1>8, <1>9, Close
    <2>2. forward = g - r
      BY <1>1, <1>5, <1>8, <2>1
    <2> QED
      BY <1>1, <1>9, <2>2
  <1>10. CASE g < r
    <2>1. Day * (m - 1) = Day * m - Day /\ Day * m \in Int
      BY <1>1
    <2>2. forward - (g - r + Day) = Day * (m - 1)
      BY <1>1, <1>5, <1>8, <2>1
    <2>3. m - 1 = 0
      BY <1>1, <1>5, <1>10, <2>2, Close
    <2>4. m = 1 /\ Day * 1 = Day
      BY <1>1, <2>3
    <2>5. forward = g - r + Day
      BY <1>1, <1>5, <1>8, <2>4
    <2> QED
      BY <1>1, <1>10, <2>5
  <1> QED
    BY <1>9, <1>10

LEMMA SameEpoch ==
  ASSUME MaxCycle < Day, TypeOK, Outcome = "sample"
  PROVE  gnss["gga"].cycle = gnss["rmc"].cycle
  <1>1. Utc("rmc") = Utc("gga")
    BY DEF Outcome
  <1>2. gnss["gga"].cycle \in 0..MaxCycle /\ gnss["rmc"].cycle \in 0..MaxCycle
    BY Cycles, Kinds
  <1> QED
    BY <1>1, <1>2, OneEpoch DEF Utc

LEMMA OlderIs ==
  ASSUME MaxCycle < Day \div 2, TypeOK, Utc("rmc") # Utc("gga")
  PROVE  /\ RmcIsOlder => gnss["gga"].cycle > gnss["rmc"].cycle
         /\ ~ RmcIsOlder => gnss["rmc"].cycle > gnss["gga"].cycle
  <1>1. gnss["gga"].cycle \in 0..MaxCycle /\ gnss["rmc"].cycle \in 0..MaxCycle
    BY Cycles, Kinds
  <1>2. gnss["rmc"].cycle # gnss["gga"].cycle
    BY DEF Utc
  <1>3. RmcIsOlder <=> gnss["gga"].cycle > gnss["rmc"].cycle
    BY <1>1, <1>2, OlderEpoch DEF RmcIsOlder, Utc
  <1> QED
    BY <1>1, <1>2, <1>3

\* A cycle begins.
LEMMA NextCycleStep ==
  ASSUME IInv, NextCycle
  PROVE  IInv'
  <1> USE GnssAssumption, Kinds, NoSentenceIs
      DEF receiverVars, uartVars, parseVars, sampleVars
  <1>1. TypeOK'
    BY DEF NextCycle, IInv, TypeOK
  <1>2. CountIsStreak'
    BY DEF NextCycle, IInv, TypeOK, CountIsStreak
  <1>3. LineIsHeld'
    BY DEF NextCycle, IInv, TypeOK, LineIsHeld
  <1>4. InOrder'
    <2>1. cycle' = cycle + 1 /\ cycle \in Nat
          /\ UNCHANGED <<buffer, gnss, state, kind, pc>>
      BY DEF NextCycle, IInv, TypeOK
    <2>2. ASSUME NEW h \in Half
          PROVE  /\ buffer[h].cycle < cycle' /\ gnss[h].cycle < cycle'
                 /\ Unread(h) /\ buffer[h].good => buffer[h].cycle > gnss[h].cycle
      <3>1. buffer[h].cycle \in Nat /\ gnss[h].cycle \in Nat
        BY Cycles DEF IInv
      <3> QED
        BY <2>1, <3>1 DEF IInv, InOrder
    <2>3. \A h \in Half : Unread(h)' <=> Unread(h)
      BY <2>1 DEF Unread
    <2>4. /\ cycle' \in Nat
          /\ \A h \in Half : buffer[h].cycle \in Nat /\ gnss[h].cycle \in Nat
      BY <2>1, Cycles DEF IInv
    <2>5. ASSUME NEW h \in Half
          PROVE  /\ buffer'[h].cycle <= cycle' /\ gnss'[h].cycle <= cycle'
                 /\ h \in todo' => buffer'[h].cycle < cycle' /\ gnss'[h].cycle < cycle'
                 /\ Unread(h)' /\ buffer'[h].good => buffer'[h].cycle > gnss'[h].cycle
      BY <2>1, <2>2, <2>3, <2>4
    <2> QED
      BY <2>5 DEF InOrder
  <1>5. NewIsLater'
    BY DEF NextCycle, IInv, TypeOK, NewIsLater
  <1>6. NothingSpent'
    BY DEF NextCycle, IInv, TypeOK, NothingSpent, Unread, Passed, LineIsHeld
  <1>7. NoneMissed'
    BY DEF NextCycle, IInv, TypeOK, NoneMissed, BothNew
  <1> QED
    BY <1>1, <1>2, <1>3, <1>4, <1>5, <1>6, <1>7 DEF IInv

\* The interrupt stores a line, which is of this cycle and not spent.
LEMMA LineStoredStep ==
  ASSUME IInv, NEW k \in Kind, NEW s \in Sent(k), LineStored(k, s)
  PROVE  IInv'
  <1> USE GnssAssumption, Kinds, NoSentenceIs
      DEF receiverVars, uartVars, parseVars, sampleVars
  <1>1. TypeOK'
    <2>1. s \in Sentence
      BY Sending DEF IInv, TypeOK
    <2>2. /\ state' \in [Kind -> {"receiving", "received", "parsing"}]
          /\ buffer' \in [Kind -> Sentence]
      BY <2>1 DEF LineStored, IInv, TypeOK
    <2> QED
      BY <2>2 DEF LineStored, IInv, TypeOK
  <1>2. CountIsStreak'
    BY DEF LineStored, MayStore, IInv, TypeOK, CountIsStreak
  <1>3. LineIsHeld'
    BY DEF LineStored, MayStore, IInv, TypeOK, LineIsHeld
  <1>4. InOrder'
    <2>1. s \in Sentence /\ (k \in Half => s.cycle = cycle)
      BY Sending DEF IInv, TypeOK
    <2>2. /\ k \in todo /\ todo' = todo \ {k}
          /\ UNCHANGED <<cycle, gnss, kind, pc>>
      BY DEF LineStored
    <2>3. ASSUME NEW h \in Half
          PROVE  /\ buffer'[h].cycle <= cycle /\ gnss[h].cycle <= cycle
                 /\ h \in todo' => buffer'[h].cycle < cycle /\ gnss[h].cycle < cycle
                 /\ Unread(h)' /\ buffer'[h].good => buffer'[h].cycle > gnss[h].cycle
      <3>1. CASE h = k /\ MayStore(k)
        <4>1. buffer'[h] = s
          BY <3>1 DEF LineStored, IInv, TypeOK
        <4>2. gnss[h].cycle < cycle /\ h \notin todo' /\ s.cycle = cycle
          BY <2>1, <2>2, <3>1 DEF IInv, InOrder
        <4>3. cycle \in Nat /\ gnss[h].cycle \in Nat
          BY Cycles DEF IInv, TypeOK
        <4> QED
          BY <4>1, <4>2, <4>3
      <3>2. CASE ~ (h = k /\ MayStore(k))
        <4>1. buffer'[h] = buffer[h] /\ state'[h] = state[h]
          BY <3>2 DEF LineStored, IInv, TypeOK
        <4>2. h \in todo' => h \in todo
          BY <2>2
        <4> QED
          BY <2>2, <4>1, <4>2 DEF IInv, InOrder, Unread
      <3> QED
        BY <3>1, <3>2
    <2> QED
      BY <2>2, <2>3 DEF InOrder
  <1>5. NewIsLater'
    BY DEF LineStored, MayStore, IInv, TypeOK, NewIsLater
  <1>6. NothingSpent'
    <2>1. ~ s.spent /\ UNCHANGED <<resetPending, gnss, new, kind, pc>>
      BY Sending DEF LineStored, IInv, TypeOK
    <2>2. ASSUME NEW h \in Half, h = k, MayStore(k)
          PROVE  ~ buffer'[h].spent
      BY <2>1, <2>2 DEF LineStored, IInv, TypeOK
    <2>3. ASSUME NEW h \in Half, ~ (h = k /\ MayStore(k))
          PROVE  buffer'[h] = buffer[h] /\ state'[h] = state[h]
      BY <2>3 DEF LineStored, IInv, TypeOK
    <2>4. ASSUME NEW h \in Half
          PROVE  /\ ~ resetPending /\ Unread(h)' => ~ buffer'[h].spent
                 /\ Passed(h)' /\ state'[h] = "received" => ~ buffer'[h].spent
                 /\ ~ resetPending /\ new[h] => ~ gnss[h].spent
      BY <2>1, <2>2, <2>3 DEF IInv, NothingSpent, Unread, Passed
    <2> QED
      BY <2>1, <2>4 DEF NothingSpent
  <1>7. NoneMissed'
    BY DEF LineStored, MayStore, IInv, TypeOK, NoneMissed, BothNew
  <1> QED
    BY <1>1, <1>2, <1>3, <1>4, <1>5, <1>6, <1>7 DEF IInv

LEMMA TickStep ==
  ASSUME IInv, Tick
  PROVE  IInv'
  <1> USE GnssAssumption, Kinds, NoSentenceIs
      DEF receiverVars, uartVars, parseVars, sampleVars
  <1>1. TypeOK'
    BY DEF Tick, IInv, TypeOK
  <1>2. CountIsStreak'
    BY DEF Tick, IInv, TypeOK, CountIsStreak
  <1>3. LineIsHeld'
    BY DEF Tick, IInv, TypeOK, LineIsHeld
  <1>4. InOrder'
    BY DEF Tick, IInv, TypeOK, InOrder, Unread, LineIsHeld
  <1>5. NewIsLater'
    BY DEF Tick, IInv, TypeOK, NewIsLater
  <1>6. NothingSpent'
    BY DEF Tick, IInv, TypeOK, NothingSpent, Unread, Passed, LineIsHeld
  <1>7. NoneMissed'
    BY DEF Tick, IInv, TypeOK, NoneMissed, BothNew
  <1> QED
    BY <1>1, <1>2, <1>3, <1>4, <1>5, <1>6, <1>7 DEF IInv

\* A pass begins; a timeout spends what it finds.
LEMMA ServiceBeginStep ==
  ASSUME IInv, ServiceBegin
  PROVE  IInv'
  <1> USE GnssAssumption, Kinds, NoSentenceIs
      DEF receiverVars, uartVars, parseVars, sampleVars
  <1>0. /\ \A k \in Kind : buffer'[k] \in Sentence
        /\ \A h \in Half :
              /\ gnss'[h] \in Sentence
              /\ buffer'[h].cycle = buffer[h].cycle /\ gnss'[h].cycle = gnss[h].cycle
              /\ buffer'[h].good = buffer[h].good
        /\ buffer' = [k \in Kind |-> buffer'[k]] /\ gnss' = [h \in Half |-> gnss'[h]]
    <2>1. CASE Expired
      BY <2>1, Spending DEF ServiceBegin, Timeout, SpendAll, IInv, TypeOK
    <2>2. CASE ~ Expired
      BY <2>2 DEF ServiceBegin, IInv, TypeOK
    <2> QED
      BY <2>1, <2>2
  <1>1. TypeOK'
    <2>1. buffer' \in [Kind -> Sentence] /\ gnss' \in [Half -> Sentence]
      BY <1>0
    <2>2. /\ count' \in 0..FixCount /\ streak' \in Nat /\ age' \in Nat
          /\ new' \in [Half -> BOOLEAN]
      <3>1. CASE Expired
        <4>1. /\ count' = 0 /\ streak' = 0 /\ age' = 0
              /\ new' = [h \in Half |-> FALSE]
          BY <3>1 DEF ServiceBegin, Timeout
        <4> QED
          BY <4>1
      <3>2. CASE ~ Expired
        BY <3>2 DEF ServiceBegin, IInv, TypeOK
      <3> QED
        BY <3>1, <3>2
    <2>3. latched' \in BOOLEAN /\ fix' \in BOOLEAN /\ resetPending' \in BOOLEAN
      BY DEF ServiceBegin, Timeout, IInv, TypeOK
    <2> QED
      BY <2>1, <2>2, <2>3 DEF ServiceBegin, IInv, TypeOK
  <1>2. CountIsStreak'
    BY DEF ServiceBegin, Timeout, SpendAll, IInv, TypeOK, CountIsStreak
  <1>3. LineIsHeld'
    BY DEF ServiceBegin, Timeout, SpendAll, IInv, TypeOK, LineIsHeld
  <1>4. InOrder'
    <2>1. UNCHANGED <<cycle, todo, state, kind>> /\ pc = "idle" /\ pc' = "flag"
      BY DEF ServiceBegin
    <2> QED
      BY <1>0, <2>1 DEF IInv, InOrder, Unread
  <1>5. NewIsLater'
    <2>1. /\ published' = published
          /\ \A h \in Half : new'[h] => new[h]
      BY DEF ServiceBegin, Timeout, IInv, TypeOK
    <2> QED
      BY <1>0, <2>1 DEF IInv, NewIsLater
  <1>6. NothingSpent'
    BY DEF ServiceBegin, Timeout, SpendAll, IInv, TypeOK, NothingSpent, Unread,
       Passed, LineIsHeld
  <1>7. NoneMissed'
    <2>1. CASE Expired
      <3>1. \A h \in Half : gnss'[h].spent /\ ~ new'[h]
        BY <2>1, Spending DEF ServiceBegin, Timeout, SpendAll, IInv, TypeOK
      <3> QED
        BY <3>1 DEF NoneMissed, BothNew
    <2>2. CASE ~ Expired
      BY <2>2 DEF ServiceBegin, IInv, NoneMissed, BothNew
    <2> QED
      BY <2>1, <2>2
  <1> QED
    BY <1>1, <1>2, <1>3, <1>4, <1>5, <1>6, <1>7 DEF IInv

LEMMA TestFlagStep ==
  ASSUME IInv, TestFlag
  PROVE  IInv'
  <1> USE GnssAssumption, Kinds, NoSentenceIs
      DEF receiverVars, uartVars, parseVars, sampleVars
  <1>1. TypeOK'
    BY DEF TestFlag, IInv, TypeOK
  <1>2. CountIsStreak'
    BY DEF TestFlag, IInv, TypeOK, CountIsStreak
  <1>3. LineIsHeld'
    BY DEF TestFlag, IInv, TypeOK, LineIsHeld
  <1>4. InOrder'
    BY DEF TestFlag, IInv, TypeOK, InOrder, Unread, LineIsHeld
  <1>5. NewIsLater'
    BY DEF TestFlag, IInv, TypeOK, NewIsLater
  <1>6. NothingSpent'
    BY DEF TestFlag, IInv, TypeOK, NothingSpent, Unread, Passed, LineIsHeld
  <1>7. NoneMissed'
    BY DEF TestFlag, IInv, TypeOK, NoneMissed, BothNew
  <1> QED
    BY <1>1, <1>2, <1>3, <1>4, <1>5, <1>6, <1>7 DEF IInv

LEMMA ParseCheckStep ==
  ASSUME IInv, ParseCheck
  PROVE  IInv'
  <1> USE GnssAssumption, Kinds, NoSentenceIs
      DEF receiverVars, uartVars, parseVars, sampleVars
  <1>1. TypeOK'
    BY DEF ParseCheck, IInv, TypeOK
  <1>2. CountIsStreak'
    BY DEF ParseCheck, IInv, TypeOK, CountIsStreak
  <1>3. LineIsHeld'
    BY DEF ParseCheck, IInv, TypeOK, LineIsHeld
  <1>4. InOrder'
    BY DEF ParseCheck, IInv, TypeOK, InOrder, Unread, LineIsHeld
  <1>5. NewIsLater'
    BY DEF ParseCheck, IInv, TypeOK, NewIsLater
  <1>6. NothingSpent'
    BY DEF ParseCheck, IInv, TypeOK, NothingSpent, Unread, Passed, LineIsHeld
  <1>7. NoneMissed'
    BY DEF ParseCheck, IInv, TypeOK, NoneMissed, BothNew
  <1> QED
    BY <1>1, <1>2, <1>3, <1>4, <1>5, <1>6, <1>7 DEF IInv

LEMMA ParseSumStep ==
  ASSUME IInv, ParseSum
  PROVE  IInv'
  <1> USE GnssAssumption, Kinds, NoSentenceIs
      DEF receiverVars, uartVars, parseVars, sampleVars
  <1>1. TypeOK'
    BY DEF ParseSum, IInv, TypeOK
  <1>2. CountIsStreak'
    BY DEF ParseSum, IInv, TypeOK, CountIsStreak
  <1>3. LineIsHeld'
    BY DEF ParseSum, IInv, TypeOK, LineIsHeld
  <1>4. InOrder'
    BY DEF ParseSum, IInv, TypeOK, InOrder, Unread, LineIsHeld
  <1>5. NewIsLater'
    BY DEF ParseSum, IInv, TypeOK, NewIsLater
  <1>6. NothingSpent'
    BY DEF ParseSum, IInv, TypeOK, NothingSpent, Unread, Passed, LineIsHeld
  <1>7. NoneMissed'
    BY DEF ParseSum, IInv, TypeOK, NoneMissed, BothNew
  <1> QED
    BY <1>1, <1>2, <1>3, <1>4, <1>5, <1>6, <1>7 DEF IInv

\* The line that is read is the one that was checked.
LEMMA ParseReadStep ==
  ASSUME IInv, ParseRead
  PROVE  IInv'
  <1> USE GnssAssumption, Kinds, NoSentenceIs
      DEF receiverVars, uartVars, parseVars, sampleVars
  <1>0. ASSUME kind \in Half
        PROVE  /\ reading = buffer[kind] /\ gnss' = [gnss EXCEPT ![kind] = reading]
               /\ new' = [new EXCEPT ![kind] = TRUE]
               /\ reading \in Sentence
    BY <1>0 DEF ParseRead, IInv, TypeOK, LineIsHeld
  <1>1. TypeOK'
    <2>1. gnss' \in [Half -> Sentence] /\ new' \in [Half -> BOOLEAN]
      <3>1. CASE kind \in Half
        BY <1>0, <3>1 DEF IInv, TypeOK
      <3>2. CASE kind \notin Half
        BY <3>2 DEF ParseRead, IInv, TypeOK
      <3> QED
        BY <3>1, <3>2
    <2> QED
      BY <2>1 DEF ParseRead, IInv, TypeOK
  <1>2. CountIsStreak'
    BY DEF ParseRead, IInv, TypeOK, CountIsStreak
  <1>3. LineIsHeld'
    BY DEF ParseRead, IInv, TypeOK, LineIsHeld
  <1>4. InOrder'
    BY DEF ParseRead, IInv, TypeOK, InOrder, Unread, LineIsHeld
  <1>5. NewIsLater'
    <2> SUFFICES ASSUME MaxCycle < Day PROVE NewIsLater'
      BY DEF NewIsLater
    <2>1. published' = published /\ published \in Nat
      BY DEF ParseRead, IInv, TypeOK
    <2>2. ASSUME NEW h \in Half
          PROVE  gnss'[h].cycle >= published /\ (new'[h] => gnss'[h].cycle > published)
      <3>1. CASE h = kind
        <4>1. gnss'[h] = buffer[h]
          BY <1>0, <3>1 DEF IInv, TypeOK
        <4>2. buffer[h].cycle > gnss[h].cycle
          BY <3>1 DEF ParseRead, IInv, InOrder, Unread, LineIsHeld
        <4>3. gnss[h].cycle >= published
          BY DEF IInv, NewIsLater
        <4>4. buffer[h].cycle \in Nat /\ gnss[h].cycle \in Nat
          BY Cycles DEF IInv
        <4> QED
          BY <2>1, <4>1, <4>2, <4>3, <4>4
      <3>2. CASE h # kind
        <4>1. gnss'[h] = gnss[h] /\ new'[h] = new[h]
          BY <3>2 DEF ParseRead, IInv, TypeOK
        <4> QED
          BY <4>1 DEF IInv, NewIsLater
      <3> QED
        BY <3>1, <3>2
    <2> QED
      BY <2>1, <2>2 DEF NewIsLater
  <1>6. NothingSpent'
    BY DEF ParseRead, IInv, TypeOK, NothingSpent, Unread, Passed, LineIsHeld
  <1>7. NoneMissed'
    <2> SUFFICES ASSUME MaxCycle < Day \div 2, NEW h \in Half, NEW o \in Half,
                        h # o, ~ gnss'[h].spent, ~ new'[h]
                 PROVE  published = gnss'[h].cycle \/ gnss'[o].cycle > gnss'[h].cycle
      BY DEF ParseRead, NoneMissed
    <2>1. published = gnss[h].cycle \/ gnss[o].cycle > gnss[h].cycle
          \/ gnss[h].spent \/ new[h]
      BY DEF IInv, NoneMissed
    <2>2. CASE kind \in Half
      <3>1. h # kind /\ o = kind
        BY <1>0, <2>2 DEF IInv, TypeOK, Half
      <3>2. gnss'[h] = gnss[h] /\ new'[h] = new[h] /\ gnss'[o] = buffer[o]
        BY <1>0, <2>2, <3>1 DEF IInv, TypeOK
      <3>3. buffer[o].cycle > gnss[o].cycle
        BY <3>1 DEF ParseRead, IInv, InOrder, Unread, LineIsHeld
      <3>4. buffer[o].cycle \in Nat /\ gnss[o].cycle \in Nat /\ gnss[h].cycle \in Nat
        BY Cycles DEF IInv
      <3> QED
        BY <2>1, <3>2, <3>3, <3>4
    <2>3. CASE kind \notin Half
      BY <2>1, <2>3 DEF ParseRead
    <2> QED
      BY <2>2, <2>3
  <1> QED
    BY <1>1, <1>2, <1>3, <1>4, <1>5, <1>6, <1>7 DEF IInv

\* The parse passes a kind.
LEMMA ParseStoreStep ==
  ASSUME IInv, ParseStore
  PROVE  IInv'
  <1> USE GnssAssumption, Kinds, NoSentenceIs
      DEF receiverVars, uartVars, parseVars, sampleVars
  <1>0. /\ pc = "store" /\ pc' \in {"pair", "check"}
        /\ state' = [state EXCEPT ![kind] = "receiving"]
        /\ buffer' = [buffer EXCEPT ![kind] = NoSentence]
        /\ UNCHANGED <<receiverVars, gnss, new, resetPending>>
    BY DEF ParseStore
  <1>1. TypeOK'
    <2>1. /\ kind' \in Kind
          /\ state' \in [Kind -> {"receiving", "received", "parsing"}]
          /\ buffer' \in [Kind -> Sentence]
      BY <1>0 DEF ParseStore, NextKind, IInv, TypeOK, Kind
    <2> QED
      BY <1>0, <2>1 DEF ParseStore, IInv, TypeOK
  <1>2. CountIsStreak'
    BY DEF ParseStore, NextKind, IInv, TypeOK, CountIsStreak
  <1>3. LineIsHeld'
    BY DEF ParseStore, NextKind, IInv, TypeOK, LineIsHeld
  <1>4. InOrder'
    <2>1. ASSUME NEW h \in Half
          PROVE  /\ buffer'[h].cycle <= cycle /\ gnss[h].cycle <= cycle
                 /\ h \in todo => buffer'[h].cycle < cycle /\ gnss[h].cycle < cycle
                 /\ Unread(h)' /\ buffer'[h].good => buffer'[h].cycle > gnss[h].cycle
      <3>1. CASE h = kind
        <4>1. buffer'[h] = NoSentence
          BY <1>0, <3>1 DEF IInv, TypeOK
        <4>2. /\ gnss[h].cycle <= cycle /\ (h \in todo => gnss[h].cycle < cycle)
              /\ gnss[h].cycle \in Nat /\ cycle \in Nat
          BY Cycles DEF IInv, InOrder, TypeOK
        <4> QED
          BY <4>1, <4>2
      <3>2. CASE h # kind
        <4>1. buffer'[h] = buffer[h] /\ state'[h] = state[h]
          BY <1>0, <3>2 DEF IInv, TypeOK
        <4> QED
          BY <1>0, <4>1 DEF IInv, InOrder, Unread
      <3> QED
        BY <3>1, <3>2
    <2> QED
      BY <1>0, <2>1 DEF InOrder
  <1>5. NewIsLater'
    BY DEF ParseStore, NextKind, IInv, TypeOK, NewIsLater
  <1>6. NothingSpent'
    <2>1. ASSUME NEW h \in Half, state'[h] = "received"
          PROVE  h # kind /\ buffer'[h] = buffer[h] /\ state[h] = "received"
      BY <1>0, <2>1 DEF IInv, TypeOK
    <2>2. ASSUME NEW h \in Half, Passed(h)', h # kind
          PROVE  Passed(h)
      <3>1. CASE kind = "ths"
        BY <1>0, <3>1 DEF Passed
      <3>2. CASE kind = "gga"
        BY <1>0, <2>2, <3>2 DEF Passed, Half
      <3>3. CASE kind = "rmc"
        BY <1>0, <2>2, <3>3 DEF Passed, ParseStore, NextKind
      <3> QED
        BY <3>1, <3>2, <3>3 DEF IInv, TypeOK, Kind
    <2>3. ASSUME NEW h \in Half
          PROVE  /\ ~ resetPending /\ Unread(h)' => ~ buffer'[h].spent
                 /\ Passed(h)' /\ state'[h] = "received" => ~ buffer'[h].spent
                 /\ ~ resetPending /\ new[h] => ~ gnss[h].spent
      BY <1>0, <2>1, <2>2 DEF IInv, NothingSpent, Unread
    <2> QED
      BY <1>0, <2>3 DEF NothingSpent
  <1>7. NoneMissed'
    BY DEF ParseStore, NextKind, IInv, TypeOK, NoneMissed, BothNew
  <1> QED
    BY <1>1, <1>2, <1>3, <1>4, <1>5, <1>6, <1>7 DEF IInv

\* The parse after a timeout consumes what it read.
LEMMA PairResetStep ==
  ASSUME IInv, PairReset
  PROVE  IInv'
  <1> USE GnssAssumption, Kinds, NoSentenceIs
      DEF receiverVars, uartVars, parseVars, sampleVars
  <1>0. \A h \in Half : gnss'[h] \in Sentence /\ gnss'[h].cycle = gnss[h].cycle
                        /\ ~ new'[h]
    BY Spending DEF PairReset, SpendAll, IInv, TypeOK
  <1>1. TypeOK'
    <2>1. gnss' \in [Half -> Sentence] /\ new' \in [Half -> BOOLEAN]
      BY <1>0 DEF PairReset, SpendAll
    <2> QED
      BY <2>1 DEF PairReset, IInv, TypeOK
  <1>2. CountIsStreak'
    BY DEF PairReset, SpendAll, IInv, TypeOK, CountIsStreak
  <1>3. LineIsHeld'
    BY DEF PairReset, SpendAll, IInv, TypeOK, LineIsHeld
  <1>4. InOrder'
    <2>1. UNCHANGED <<cycle, todo, buffer, state, kind>> /\ pc' = "idle"
      BY DEF PairReset
    <2> QED
      BY <1>0, <2>1 DEF IInv, InOrder, Unread
  <1>5. NewIsLater'
    <2>1. published' = published
      BY DEF PairReset
    <2> QED
      BY <1>0, <2>1 DEF IInv, NewIsLater
  <1>6. NothingSpent'
    BY DEF PairReset, SpendAll, IInv, TypeOK, NothingSpent, Unread, Passed,
       LineIsHeld
  <1>7. NoneMissed'
    <2>1. \A h \in Half : gnss'[h].spent
      BY Spending DEF PairReset, SpendAll, IInv, TypeOK
    <2> QED
      BY <1>0, <2>1 DEF NoneMissed, BothNew
  <1> QED
    BY <1>1, <1>2, <1>3, <1>4, <1>5, <1>6, <1>7 DEF IInv

LEMMA PairNoneStep ==
  ASSUME IInv, PairNone
  PROVE  IInv'
  <1> USE GnssAssumption, Kinds, NoSentenceIs
      DEF receiverVars, uartVars, parseVars, sampleVars
  <1>1. TypeOK'
    BY DEF PairNone, IInv, TypeOK
  <1>2. CountIsStreak'
    BY DEF PairNone, IInv, TypeOK, CountIsStreak
  <1>3. LineIsHeld'
    BY DEF PairNone, IInv, TypeOK, LineIsHeld
  <1>4. InOrder'
    BY DEF PairNone, IInv, TypeOK, InOrder, Unread, LineIsHeld
  <1>5. NewIsLater'
    BY DEF PairNone, IInv, TypeOK, NewIsLater
  <1>6. NothingSpent'
    BY DEF PairNone, IInv, TypeOK, NothingSpent, Unread, Passed, LineIsHeld
  <1>7. NoneMissed'
    <2>1. error \/ ~ BothNew
      BY DEF PairNone, Outcome
    <2>2. UNCHANGED <<gnss, new, published, error>>
      BY DEF PairNone
    <2> QED
      BY <2>1, <2>2 DEF IInv, NoneMissed, BothNew
  <1> QED
    BY <1>1, <1>2, <1>3, <1>4, <1>5, <1>6, <1>7 DEF IInv

LEMMA PairDifferStep ==
  ASSUME IInv, PairDiffer
  PROVE  IInv'
  <1> USE GnssAssumption, Kinds, NoSentenceIs
      DEF receiverVars, uartVars, parseVars, sampleVars
  <1>1. TypeOK'
    BY DEF PairDiffer, IInv, TypeOK
  <1>2. CountIsStreak'
    BY DEF PairDiffer, IInv, TypeOK, CountIsStreak
  <1>3. LineIsHeld'
    BY DEF PairDiffer, IInv, TypeOK, LineIsHeld
  <1>4. InOrder'
    BY DEF PairDiffer, IInv, TypeOK, InOrder, Unread, LineIsHeld
  <1>5. NewIsLater'
    BY DEF PairDiffer, IInv, TypeOK, NewIsLater
  <1>6. NothingSpent'
    BY DEF PairDiffer, IInv, TypeOK, NothingSpent, Unread, Passed, LineIsHeld
  <1>7. NoneMissed'
    <2> SUFFICES ASSUME MaxCycle < Day \div 2 PROVE NoneMissed'
      BY DEF NoneMissed
    <2>1. BothNew /\ Utc("rmc") # Utc("gga")
      BY DEF PairDiffer, Outcome
    <2>2. UNCHANGED <<gnss, published>>
      BY DEF PairDiffer
    <2>3. CASE RmcIsOlder
      <3>1. new'["rmc"] = FALSE /\ new'["gga"] = TRUE
        BY <2>1, <2>3 DEF PairDiffer, BothNew, IInv, TypeOK
      <3>2. gnss["gga"].cycle > gnss["rmc"].cycle
        BY <2>1, <2>3, OlderIs DEF IInv
      <3> QED
        BY <2>2, <3>1, <3>2 DEF NoneMissed, BothNew, Half
    <2>4. CASE ~ RmcIsOlder
      <3>1. new'["gga"] = FALSE /\ new'["rmc"] = TRUE
        BY <2>1, <2>4 DEF PairDiffer, BothNew, IInv, TypeOK
      <3>2. gnss["rmc"].cycle > gnss["gga"].cycle
        BY <2>1, <2>4, OlderIs DEF IInv
      <3> QED
        BY <2>2, <3>1, <3>2 DEF NoneMissed, BothNew, Half
    <2> QED
      BY <2>3, <2>4
  <1> QED
    BY <1>1, <1>2, <1>3, <1>4, <1>5, <1>6, <1>7 DEF IInv

\* A sample is published.
LEMMA PairSampleStep ==
  ASSUME IInv, PairSample
  PROVE  IInv'
  <1> USE GnssAssumption, Kinds, NoSentenceIs
      DEF receiverVars, uartVars, parseVars, sampleVars
  <1>0. /\ streak' = (IF Usable THEN streak + 1 ELSE 0)
        /\ count' = (IF ~ Usable THEN 0
                     ELSE IF count < FixCount THEN count + 1 ELSE count)
        /\ fix' = (count' >= FixCount)
        /\ streak \in Nat /\ FixCount \in Nat \ {0} /\ fix' \in BOOLEAN
        /\ count = IF streak < FixCount THEN streak ELSE FixCount
    BY DEF PairSample, IInv, TypeOK, CountIsStreak
  <1>1. TypeOK'
    <2>1. count' \in 0..FixCount /\ streak' \in Nat
      BY <1>0
    <2>2. published' \in 0..MaxCycle /\ new' \in [Half -> BOOLEAN]
      BY Cycles DEF PairSample, IInv
    <2> QED
      BY <1>0, <2>1, <2>2 DEF PairSample, IInv, TypeOK
  <1>2. CountIsStreak'
    <2>1. CASE Usable
      <3>1. count' = IF streak' < FixCount THEN streak' ELSE FixCount
        BY <1>0, <2>1
      <3>2. fix' <=> count' >= FixCount
        BY <1>0
      <3>3. count' >= FixCount <=> streak' >= FixCount
        BY <1>0, <2>1
      <3> QED
        BY <3>1, <3>2, <3>3 DEF CountIsStreak
    <2>2. CASE ~ Usable
      <3>1. count' = 0 /\ streak' = 0
        BY <1>0, <2>2
      <3>2. fix' <=> count' >= FixCount
        BY <1>0
      <3>3. ~ (count' >= FixCount) /\ ~ (streak' >= FixCount) /\ streak' < FixCount
        BY <1>0, <3>1
      <3> QED
        BY <3>1, <3>2, <3>3 DEF CountIsStreak
    <2> QED
      BY <2>1, <2>2
  <1>3. LineIsHeld'
    BY DEF PairSample, IInv, TypeOK, LineIsHeld
  <1>4. InOrder'
    BY DEF PairSample, IInv, TypeOK, InOrder, Unread, LineIsHeld
  <1>5. NewIsLater'
    <2>1. /\ published' = gnss["rmc"].cycle /\ gnss' = gnss
          /\ \A h \in Half : ~ new'[h]
      BY DEF PairSample
    <2>2. MaxCycle < Day => gnss["gga"].cycle = gnss["rmc"].cycle
      BY SameEpoch DEF PairSample, IInv
    <2>3. ASSUME MaxCycle < Day, NEW h \in Half PROVE gnss'[h].cycle >= published'
      BY <2>1, <2>2, <2>3, Cycles DEF IInv, Half
    <2> QED
      BY <2>1, <2>3 DEF NewIsLater
  <1>6. NothingSpent'
    BY DEF PairSample, IInv, TypeOK, NothingSpent, Unread, Passed, LineIsHeld
  <1>7. NoneMissed'
    <2> SUFFICES ASSUME MaxCycle < Day \div 2 PROVE NoneMissed'
      BY DEF NoneMissed
    <2>1. /\ published' = gnss["rmc"].cycle /\ gnss' = gnss
          /\ \A h \in Half : ~ new'[h]
      BY DEF PairSample
    <2>2. MaxCycle < Day
      BY GnssAssumption
    <2>3. gnss["gga"].cycle = gnss["rmc"].cycle
      BY <2>2, SameEpoch DEF PairSample, IInv
    <2>4. \A h \in Half : published' = gnss'[h].cycle
      BY <2>1, <2>3 DEF Half
    <2> QED
      BY <2>1, <2>4 DEF NoneMissed, BothNew
  <1> QED
    BY <1>1, <1>2, <1>3, <1>4, <1>5, <1>6, <1>7 DEF IInv

LEMMA StutterStep ==
  ASSUME IInv, UNCHANGED vars
  PROVE  IInv'
  <1> USE GnssAssumption, Kinds, NoSentenceIs
      DEF receiverVars, uartVars, parseVars, sampleVars
  <1>1. TypeOK'
    BY DEF vars, IInv, TypeOK
  <1>2. CountIsStreak'
    BY DEF vars, IInv, TypeOK, CountIsStreak
  <1>3. LineIsHeld'
    BY DEF vars, IInv, TypeOK, LineIsHeld
  <1>4. InOrder'
    BY DEF vars, IInv, TypeOK, InOrder, Unread, LineIsHeld
  <1>5. NewIsLater'
    BY DEF vars, IInv, TypeOK, NewIsLater
  <1>6. NothingSpent'
    BY DEF vars, IInv, TypeOK, NothingSpent, Unread, Passed, LineIsHeld
  <1>7. NoneMissed'
    BY DEF vars, IInv, TypeOK, NoneMissed, BothNew
  <1> QED
    BY <1>1, <1>2, <1>3, <1>4, <1>5, <1>6, <1>7 DEF IInv

LEMMA InvStep == IInv /\ [Next]_vars => IInv'
  BY NextCycleStep, LineStoredStep, TickStep, ServiceBeginStep, TestFlagStep,
     ParseCheckStep, ParseSumStep, ParseReadStep, ParseStoreStep, PairResetStep,
     PairNoneStep, PairDifferStep, PairSampleStep, StutterStep
  DEF Next, Receiver, Service

\* The invariant holds in every reachable state.
THEOREM Invariance == Spec => []IInv
  BY InitInv, InvStep, PTL DEF Spec

\* Every variable of the sampler has its type.
THEOREM TypeCorrect == Spec => []TypeOK
  BY Invariance, PTL DEF IInv

\* The fix is valid exactly while the last FixCount publications are usable
\* samples.
THEOREM FixEarned == Spec => []FixIsEarned
  <1>1. IInv => FixIsEarned
    BY DEF IInv, CountIsStreak, FixIsEarned
  <1> QED
    BY <1>1, Invariance, PTL

\* When both sentences of a cycle were parsed and nothing was refused with
\* them, the cycle was published.
THEOREM NoneIsMissed == ASSUME MaxCycle < Day \div 2 PROVE Spec => []NoPairIsMissed
  <1>1. IInv => NoPairIsMissed
    <2> SUFFICES ASSUME IInv, pc = "idle", ~ error,
                        gnss["rmc"].cycle = gnss["gga"].cycle,
                        \A h \in Half : ~ gnss[h].spent
                 PROVE  published = gnss["rmc"].cycle
      BY DEF NoPairIsMissed
    <2>1. PICK h \in Half : ~ new[h]
      BY DEF IInv, NoneMissed, BothNew
    <2>2. PICK o \in Half : o # h
      BY DEF Half
    <2>3. gnss[h].cycle = gnss[o].cycle /\ gnss[h].cycle = gnss["rmc"].cycle
      BY DEF Half
    <2>4. gnss["rmc"].cycle \in Nat
      BY Cycles, Kinds DEF IInv
    <2>5. published = gnss[h].cycle \/ gnss[o].cycle > gnss[h].cycle
      BY <2>1, <2>2 DEF IInv, NoneMissed
    <2> QED
      BY <2>3, <2>4, <2>5
  <1> QED
    BY <1>1, Invariance, PTL

\* A sample joins the two sentences of one cycle, both whole and received
\* after the last timeout, and samples never go back in time.
THEOREM SampleJoined == ASSUME MaxCycle < Day PROVE Spec => SampleIsOnePair
  <1>1. IInv /\ [Next]_vars =>
          [published' # published =>
             /\ \A h \in Half : gnss[h].cycle = published' /\ ~ gnss[h].spent
             /\ published' > published]_vars
    <2> SUFFICES ASSUME IInv, Next, published' # published
                 PROVE  /\ \A h \in Half : gnss[h].cycle = published'
                                           /\ ~ gnss[h].spent
                        /\ published' > published
      OBVIOUS
    <2>1. PairSample
      BY DEF Next, Receiver, Service, NextCycle, LineStored, Tick, ServiceBegin,
             TestFlag, ParseCheck, ParseSum, ParseRead, ParseStore, PairReset,
             PairNone, PairDiffer, sampleVars
    <2>2. published' = gnss["rmc"].cycle /\ gnss["gga"].cycle = gnss["rmc"].cycle
      BY <2>1, SameEpoch DEF PairSample, IInv
    <2>3. ~ resetPending /\ \A h \in Half : new[h]
      BY <2>1 DEF PairSample, Outcome, BothNew
    <2>4. published' > published
      BY <2>2, <2>3, Kinds DEF IInv, NewIsLater
    <2>5. \A h \in Half : ~ gnss[h].spent
      BY <2>3 DEF IInv, NothingSpent
    <2> QED
      BY <2>2, <2>4, <2>5 DEF Half
  <1> QED
    BY <1>1, Invariance, PTL DEF Spec, SampleIsOnePair
=============================================================================
