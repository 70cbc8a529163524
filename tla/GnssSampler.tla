---------------------------- MODULE GnssSampler ----------------------------
(***************************************************************************)
(* The GNSS sampler of CM7_1 (sensor_gnss.c) on the vendor's receiver      *)
(* (zf_device_gnss.c): the UART interrupt stores a line per kind of        *)
(* sentence, the main loop parses them, joins the RMC and the GGA of one   *)
(* epoch to a sample, declares the fix valid after FixCount usable samples *)
(* and invalid when samples stop.                                          *)
(*                                                                         *)
(* A sentence is the cycle of the receiver it reports, its time of day     *)
(* (which may pass midnight), whether it checks and whether its fix is     *)
(* usable.  What a sample contains besides, the origin and the projection  *)
(* are left out.  Sequence numbers are kept as "new since last consumed".  *)
(***************************************************************************)
EXTENDS Integers

CONSTANTS
    Day,         \* SENSOR_GNSS_UTC_DAY_MS, in cycles
    FirstUtc,    \* the time of day before the first cycle
    FixCount,    \* SENSOR_GNSS_RECOVERY_FIX_COUNT
    MaxAge,      \* GNSS_SNAPSHOT_MAX_AGE_MS, in ticks
    MaxCycle     \* bound: cycles of the receiver

ASSUME GnssAssumption ==
    /\ Day \in Nat \ {0} /\ FirstUtc \in Nat
    /\ FixCount \in Nat \ {0} /\ MaxAge \in Nat /\ MaxCycle \in Nat

Kind == {"rmc", "gga", "ths"}
Half == {"rmc", "gga"}

\* History: spent marks a sentence that must not become part of a sample, as
\* it came before the last timeout, was parsed right after it, or is torn.
Sentence == [cycle : 0..MaxCycle, good : BOOLEAN, usable : BOOLEAN,
             spent : BOOLEAN]

NoSentence == [cycle |-> 0, good |-> FALSE, usable |-> FALSE, spent |-> TRUE]

VARIABLES
    \* the receiver
    cycle, todo,  \* its cycle and the sentences it still sends in it
    \* written by the UART interrupt
    state,        \* per kind: gnss_rmc_state, gnss_gga_state, gnss_ths_state
    buffer,       \* per kind: the line
    flag,         \* gnss_flag
    \* the main loop, sensor_gnss_service
    pc, kind,     \* where it is, and the kind gnss_data_parse is at
    reading,      \* the line whose checksum was right
    error,        \* the result of the last gnss_data_parse
    gnss,         \* the sentences parsed last
    new,          \* per half: its sequence is not the last consumed one
    resetPending, \* pair_reset_pending
    latched,      \* timeout_latched
    count,        \* consecutive_usable
    fix,          \* latest.fix_valid
    sampled,      \* last_sample_ms is set
    age,          \* ticks since last_sample_ms
    \* history
    published,    \* cycle of the last sample
    streak        \* usable samples since the last other publication

receiverVars == <<cycle, todo>>
uartVars     == <<state, buffer, flag>>
parseVars    == <<kind, reading, error, gnss>>
sampleVars   == <<new, resetPending, latched, count, fix, sampled, published,
                  streak>>
vars == <<receiverVars, uartVars, pc, parseVars, sampleVars, age>>

Init ==
    /\ cycle = 0 /\ todo = {}
    /\ state = [k \in Kind |-> "receiving"]
    /\ buffer = [k \in Kind |-> NoSentence]
    /\ flag = FALSE
    /\ pc = "idle" /\ kind = "rmc" /\ reading = NoSentence /\ error = FALSE
    /\ gnss = [h \in Half |-> NoSentence]
    /\ new = [h \in Half |-> FALSE]
    /\ resetPending = FALSE /\ latched = FALSE
    /\ count = 0 /\ fix = FALSE /\ sampled = FALSE
    /\ age = 0
    /\ published = 0 /\ streak = 0

-----------------------------------------------------------------------------
(* The receiver and the UART interrupt.                                    *)

\* A line not sent by now is lost on the wire, or was never sent.
NextCycle ==
    /\ cycle < MaxCycle
    /\ cycle' = cycle + 1 /\ todo' = Kind
    /\ UNCHANGED <<uartVars, pc, parseVars, sampleVars, age>>

\* What the receiver may send of a kind: a line that does not check, or one
\* that does and reports a fix that is usable or not.  A THS reports no fix.
Sent(k) ==
    IF k \in Half
    THEN {[cycle |-> cycle, good |-> q # "bad", usable |-> q = "usable",
           spent |-> FALSE] : q \in {"bad", "poor", "usable"}}
    ELSE {[NoSentence EXCEPT !.good = good, !.spent = FALSE] : good \in BOOLEAN}

\* Variant: a line replaces the one that is being parsed.
MayStore_Always(k) == TRUE

MayStore(k) == state[k] # "parsing"

\* gnss_uart_callback at the end of a line.
LineStored(k, s) ==
    /\ k \in todo /\ todo' = todo \ {k}
    /\ IF MayStore(k)
       THEN /\ state' = [state EXCEPT ![k] = "received"]
            /\ buffer' = [buffer EXCEPT ![k] = s]
       ELSE UNCHANGED <<state, buffer>>
    /\ flag' = TRUE
    /\ UNCHANGED <<cycle, pc, parseVars, sampleVars, age>>

\* The time a pass reads is the time at its start, so the ticks during a pass
\* may be counted at its end.  The age is counted while the timeout looks at
\* it, to the first age that is too old.
Tick ==
    /\ pc = "idle" /\ sampled /\ ~ latched /\ age <= MaxAge
    /\ age' = age + 1
    /\ UNCHANGED <<receiverVars, uartVars, pc, parseVars, sampleVars>>

-----------------------------------------------------------------------------
(* sensor_gnss_service                                                     *)

Spend(s) == [s EXCEPT !.spent = TRUE]
SpendAll(f, K) == [k \in K |-> Spend(f[k])]

Expired == sampled /\ age > MaxAge /\ ~ latched

\* Variant: the count goes on.
Timeout_KeepsCount ==
    /\ latched' = TRUE /\ fix' = FALSE /\ streak' = 0
    /\ buffer' = SpendAll(buffer, Kind) /\ gnss' = SpendAll(gnss, Half)
    /\ age' = 0
    /\ new' = [h \in Half |-> FALSE]
    /\ resetPending' = TRUE
    /\ UNCHANGED count

\* The timeout is published, and what was parsed so far is consumed.  The age
\* is not looked at again before the next sample.
Timeout ==
    /\ latched' = TRUE /\ fix' = FALSE /\ streak' = 0
    /\ count' = 0
    /\ buffer' = SpendAll(buffer, Kind) /\ gnss' = SpendAll(gnss, Half)
    /\ age' = 0
    /\ new' = [h \in Half |-> FALSE]
    /\ resetPending' = TRUE

\* The pass reads now_ms and looks for the timeout first.
ServiceBegin ==
    /\ pc = "idle" /\ pc' = "flag"
    /\ IF Expired
       THEN Timeout
       ELSE UNCHANGED <<latched, fix, streak, count, buffer, gnss, new,
                        resetPending, age>>
    /\ UNCHANGED <<receiverVars, state, flag, kind, reading, error, sampled,
                   published>>

TestFlag ==
    /\ pc = "flag"
    /\ IF flag
       THEN flag' = FALSE /\ pc' = "check" /\ kind' = "rmc" /\ error' = FALSE
       ELSE pc' = "idle" /\ UNCHANGED <<flag, kind, error>>
    /\ UNCHANGED <<receiverVars, state, buffer, reading, gnss, sampleVars,
                   age>>

\* gnss_data_parse, one kind after the other.
ParseCheck ==
    /\ pc = "check"
    /\ IF state[kind] = "received"
       THEN pc' = "sum" /\ state' = [state EXCEPT ![kind] = "parsing"]
       ELSE pc' = "store" /\ UNCHANGED state
    /\ UNCHANGED <<receiverVars, buffer, flag, parseVars, sampleVars, age>>

\* gnss_sentence_checksum_valid, and whatever else refuses the line.
ParseSum ==
    /\ pc = "sum"
    /\ reading' = IF buffer[kind].good THEN buffer[kind] ELSE NoSentence
    /\ pc' = IF buffer[kind].good THEN "read" ELSE "store"
    /\ error' = (error \/ ~ buffer[kind].good)
    /\ UNCHANGED <<receiverVars, uartVars, kind, gnss, sampleVars, age>>

\* The fields are read from the buffer again, into a candidate that replaces
\* gnss as a whole.
ParseRead ==
    /\ pc = "read" /\ pc' = "store"
    /\ IF kind \in Half
       THEN /\ gnss' = [gnss EXCEPT ![kind] =
                  IF buffer[kind] = reading THEN reading ELSE Spend(reading)]
            /\ new' = [new EXCEPT ![kind] = TRUE]
       ELSE UNCHANGED <<gnss, new>>
    /\ reading' = NoSentence
    /\ UNCHANGED <<receiverVars, uartVars, kind, error, resetPending,
                   latched, count, fix, sampled, published, streak, age>>

NextKind == IF kind = "rmc" THEN "gga" ELSE "ths"

\* The state is set whether or not a line came in meanwhile, which is lost: no
\* one reads the buffer before the next line, so it is emptied here.
ParseStore ==
    /\ pc = "store"
    /\ state' = [state EXCEPT ![kind] = "receiving"]
    /\ buffer' = [buffer EXCEPT ![kind] = NoSentence]
    /\ IF kind = "ths"
       THEN pc' = "pair" /\ UNCHANGED kind
       ELSE pc' = "check" /\ kind' = NextKind
    /\ UNCHANGED <<receiverVars, flag, reading, error, gnss, sampleVars,
                   age>>

Utc(h) == (FirstUtc + gnss[h].cycle) % Day

\* Variant: the difference is taken without the day.
RmcIsOlder_NoWrap == Utc("gga") > Utc("rmc")

\* rmc_epoch_is_older
RmcIsOlder ==
    LET forward == (Utc("gga") + Day - Utc("rmc")) % Day
    IN  forward # 0 /\ forward < Day \div 2

BothNew == \A h \in Half : new[h]

Outcome == IF resetPending THEN "reset"
           ELSE IF error \/ ~ BothNew THEN "none"
           ELSE IF Utc("rmc") # Utc("gga") THEN "differ"
           ELSE "sample"

\* The first parse after a timeout only consumes.
PairReset ==
    /\ pc = "pair" /\ Outcome = "reset"
    /\ pc' = "idle"
    /\ new' = [h \in Half |-> FALSE]
    /\ resetPending' = FALSE
    /\ gnss' = SpendAll(gnss, Half)
    /\ UNCHANGED <<receiverVars, uartVars, kind, reading, error, latched, count,
                   fix, sampled, published, streak, age>>

\* A line that did not check, or a half that is missing.
PairNone ==
    /\ pc = "pair" /\ Outcome = "none"
    /\ pc' = "idle"
    /\ UNCHANGED <<receiverVars, uartVars, parseVars, sampleVars, age>>

\* Two epochs: the older half is consumed and the newer waits for its partner.
PairDiffer ==
    /\ pc = "pair" /\ Outcome = "differ"
    /\ pc' = "idle"
    /\ new' = [new EXCEPT ![IF RmcIsOlder THEN "rmc" ELSE "gga"] = FALSE]
    /\ UNCHANGED <<receiverVars, uartVars, parseVars, resetPending, latched,
                   count, fix, sampled, published, streak, age>>

Usable == \A h \in Half : gnss[h].usable

\* Variant: a sample does not arm the timeout again.
PairSample_KeepsLatch ==
    /\ pc = "pair" /\ Outcome = "sample"
    /\ pc' = "idle"
    /\ new' = [h \in Half |-> FALSE]
    /\ sampled' = TRUE /\ age' = 0
    /\ count' = IF ~ Usable THEN 0 ELSE IF count < FixCount THEN count + 1 ELSE count
    /\ fix' = (count' >= FixCount)
    /\ published' = gnss["rmc"].cycle
    /\ streak' = IF Usable THEN streak + 1 ELSE 0
    /\ UNCHANGED <<receiverVars, uartVars, parseVars, resetPending, latched>>

\* One epoch: the sample is published.
PairSample ==
    /\ pc = "pair" /\ Outcome = "sample"
    /\ pc' = "idle"
    /\ new' = [h \in Half |-> FALSE]
    /\ sampled' = TRUE /\ age' = 0 /\ latched' = FALSE
    /\ count' = IF ~ Usable THEN 0 ELSE IF count < FixCount THEN count + 1 ELSE count
    /\ fix' = (count' >= FixCount)
    /\ published' = gnss["rmc"].cycle
    /\ streak' = IF Usable THEN streak + 1 ELSE 0
    /\ UNCHANGED <<receiverVars, uartVars, parseVars, resetPending>>

-----------------------------------------------------------------------------
Receiver == NextCycle \/ \E k \in Kind : \E s \in Sent(k) : LineStored(k, s)

Service ==
    \/ ServiceBegin \/ TestFlag
    \/ ParseCheck \/ ParseSum \/ ParseRead \/ ParseStore
    \/ PairReset \/ PairNone \/ PairDiffer \/ PairSample

Next == Receiver \/ Tick \/ Service

Spec == Init /\ [][Next]_vars

\* CM7_1's main loop and the clock go on; the receiver may fall silent.
FairSpec == Spec /\ WF_vars(Service) /\ SF_vars(Tick)

-----------------------------------------------------------------------------
(* Properties.                                                             *)

\* Every variable has its type.
TypeOK ==
    /\ cycle \in 0..MaxCycle /\ todo \in SUBSET Kind
    /\ state \in [Kind -> {"receiving", "received", "parsing"}]
    /\ buffer \in [Kind -> Sentence] /\ flag \in BOOLEAN
    /\ pc \in {"idle", "flag", "check", "sum", "read", "store", "pair"}
    /\ kind \in Kind /\ reading \in Sentence /\ error \in BOOLEAN
    /\ gnss \in [Half -> Sentence] /\ new \in [Half -> BOOLEAN]
    /\ resetPending \in BOOLEAN /\ latched \in BOOLEAN
    /\ count \in 0..FixCount /\ fix \in BOOLEAN /\ sampled \in BOOLEAN
    /\ age \in Nat
    /\ published \in 0..MaxCycle /\ streak \in Nat

\* A sample joins the two sentences of one cycle, both received whole and
\* after the last timeout, and samples never go back in time: no half of an
\* old pair, no line the interrupt rewrote meets a new one.
SampleIsOnePair ==
    [][published' # published =>
        /\ \A h \in Half : gnss[h].cycle = published' /\ ~ gnss[h].spent
        /\ published' > published]_vars

\* When both sentences of a cycle were parsed and nothing was refused with
\* them, the cycle was published: consuming the older half never drops the
\* one whose partner is still to come, also across midnight.
NoPairIsMissed ==
    /\ pc = "idle" /\ ~ error
    /\ gnss["rmc"].cycle = gnss["gga"].cycle
    /\ \A h \in Half : ~ gnss[h].spent
    => published = gnss["rmc"].cycle

\* The fix is valid exactly while the last FixCount publications are usable
\* samples; a timeout or an unusable sample starts the count again.
FixIsEarned == fix <=> streak >= FixCount

\* When the receiver falls silent the fix becomes invalid and stays so.
SilenceIsNoticed == <>[](~ fix)
=============================================================================
