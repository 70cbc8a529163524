-------------------------- MODULE SnapshotTransport --------------------------
(***************************************************************************)
(* One channel of project/code/intercore_transport.c: the double buffer in *)
(* shared, non-cacheable SRAM through which CM7_1 publishes snapshots      *)
(* (navigation commands, GNSS records) and CM7_0 polls them.               *)
(*                                                                         *)
(* The two cores run concurrently, so each handler is cut at every access  *)
(* to shared SRAM.  A record is three words, the sequence number of its    *)
(* header, the CRC (taken as the record it was computed over: a CRC that   *)
(* collides is not modelled) and the payload; a copy moves them one at a   *)
(* time.  Accesses that no __DMB() separates take effect in any order,     *)
(* loads as well as stores: the loads of an attach, those that begin a     *)
(* publish, the words of a slot, the metadata stores, the loads of a poll  *)
(* before its barrier and after it.  Two things have an order without a    *)
(* barrier: a poll copies from the slot whose index it loaded, and a       *)
(* publish stores nothing before its check has passed.                     *)
(*                                                                         *)
(* Sequence numbers are 32 bit and wrap from 2^32-1 to 1; MaxSequence      *)
(* bounds them below the wrap (at one publish per 40 ms the wrap takes     *)
(* more than five years of one boot epoch).                                *)
(***************************************************************************)
EXTENDS Integers

CONSTANTS
    Value,            \* the payloads CM7_1 may publish
    NoValue,          \* the zeroed payload
    MaxSequence,      \* bound: publishes numbered in one epoch
    MaxEpoch,         \* bound: boots of CM7_0
    MaxRestart        \* bound: restarts of CM7_1 alone

ASSUME TransportAssumption ==
    /\ NoValue \notin Value
    /\ MaxSequence \in Nat
    /\ MaxEpoch \in Nat
    /\ MaxRestart \in Nat

Index == {0, 1}
Word  == {"sequence", "crc", "payload"}

\* The metadata words of the channel: active index and sequence number.
Metadata == {"index", "number"}

Record   == [seq : 1..MaxSequence, val : Value]
NoRecord == [seq |-> 0, val |-> NoValue]

ZeroSlot == [sequence |-> 0, crc |-> NoRecord, payload |-> NoValue]

\* The words intercore_record_prepare and the payload memcpy leave in the
\* local slot that a publish copies out.
Prepared(r) == [sequence |-> r.seq, crc |-> r, payload |-> r.val]

\* intercore_next_sequence below its wrap.
NextSequence(s) == s + 1

VARIABLES
    \* metadata of the shared layout
    magic,        \* magic, version and layout_size are the expected ones
    ready,        \* cm7_0_ready
    bootEpoch,    \* boot_epoch
    active,       \* navigation_active_index
    sequence,     \* navigation_sequence
    \* the two slots of the channel
    slot,
    \* CM7_0, intercore_transport_cm7_0_init
    boot,         \* where CM7_0 is in its boot
    nextEpoch,    \* the local previous_epoch, already advanced
    dirty,        \* slot words the clearing loop has not reached
    bootTodo,     \* metadata stores not visible yet
    boots,        \* boots of CM7_0 begun (bound)
    \* CM7_1, the publishing transport
    writer,       \* where CM7_1 is
    writerEpoch,  \* transport->boot_epoch, 0 while not attached
    prepared,     \* the record of the local slot
    target,       \* inactive_index
    writerTodo,   \* loads, words or metadata stores still to take effect
    restarts,     \* restarts of CM7_1 (bound)
    \* CM7_0, the polling transport
    reader,       \* where the poll is
    readActive,   \* active_before
    readSequence, \* sequence_before
    copy,         \* the local slot
    readTodo,     \* loads still to take effect
    lastSequence, \* transport->last_navigation_sequence
    \* history
    latest,       \* the record whose sequence store came last
    abandoned,    \* records that were on their way into a slot at a reset of CM7_1
    taken         \* the record the last successful poll returned

metadataVars == <<magic, ready, bootEpoch, active, sequence>>
bootVars     == <<boot, nextEpoch, dirty, bootTodo, boots>>
writerVars   == <<writer, writerEpoch, prepared, target, writerTodo, restarts>>
pollVars     == <<reader, readActive, readSequence, copy, readTodo>>
readerVars   == <<pollVars, lastSequence>>
historyVars  == <<latest, abandoned, taken>>
vars == <<metadataVars, slot, bootVars, writerVars, readerVars, historyVars>>

MetadataValid == magic /\ ready

\* CM7_1 attaches and then publishes for ever.  The accesses of each stage are
\* those between two barriers (or that a failed check cuts off); the next
\* stage begins when the last of them has taken effect.
Accesses == [attach |-> {"check", "epoch"},
             load   |-> {"check"} \cup Metadata,
             write  |-> Word,
             store  |-> Metadata]

StageAfter == [attach |-> "load", load |-> "write", write |-> "store",
               store |-> "load"]

WriterEnters(stage) == writer' = stage /\ writerTodo' = Accesses[stage]

WriterDoes(access) ==
    /\ access \in writerTodo
    /\ IF writerTodo = {access}
       THEN WriterEnters(StageAfter[writer])
       ELSE writer' = writer /\ writerTodo' = writerTodo \ {access}

\* Power-on: SRAM holds no valid layout and both cores are in reset.
Init ==
    /\ magic = FALSE /\ ready = FALSE /\ bootEpoch = 0
    /\ active = 0 /\ sequence = 0
    /\ slot = [i \in Index |-> ZeroSlot]
    /\ boot = "off" /\ nextEpoch = 0 /\ dirty = {} /\ bootTodo = {} /\ boots = 0
    /\ writer = "attach" /\ writerTodo = Accesses["attach"] /\ writerEpoch = 0
    /\ prepared = NoRecord /\ target = 0 /\ restarts = 0
    /\ reader = "load" /\ readTodo = Metadata \cup Word
    /\ readActive = 0 /\ readSequence = 0 /\ copy = ZeroSlot
    /\ lastSequence = 0
    /\ latest = NoRecord /\ abandoned = {} /\ taken = NoRecord

-----------------------------------------------------------------------------
(* CM7_0 boots: intercore_transport_cm7_0_init.                            *)

\* The previous epoch is taken over from retained SRAM when the layout is
\* recognised, and the clearing loop zeroes the metadata first.
BootBegin ==
    /\ boot = "off"
    /\ boots < MaxEpoch
    /\ boots' = boots + 1
    /\ nextEpoch' = NextSequence(IF magic THEN bootEpoch ELSE 0)
    /\ magic' = FALSE /\ ready' = FALSE /\ bootEpoch' = 0
    /\ active' = 0 /\ sequence' = 0
    /\ dirty' = Index \X Word
    /\ boot' = "clear"
    /\ latest' = NoRecord /\ abandoned' = {}
    /\ UNCHANGED <<slot, bootTodo, writerVars, readerVars, taken>>

BootClearWord(i, w) ==
    /\ boot = "clear"
    /\ <<i, w>> \in dirty
    /\ dirty' = dirty \ {<<i, w>>}
    /\ slot' = [slot EXCEPT ![i][w] = ZeroSlot[w]]
    /\ UNCHANGED <<metadataVars, boot, nextEpoch, bootTodo, boots, writerVars,
                   readerVars, historyVars>>

BootCleared ==
    /\ boot = "clear"
    /\ dirty = {}
    /\ boot' = "store"
    /\ bootTodo' = {"magic", "epoch", "ready"}
    /\ UNCHANGED <<metadataVars, slot, nextEpoch, dirty, boots, writerVars,
                   readerVars, historyVars>>

\* The layout stores become visible in any order: no barrier separates them.
BootStore(field) ==
    /\ boot = "store"
    /\ field \in bootTodo
    /\ bootTodo' = bootTodo \ {field}
    /\ magic' = (magic \/ field = "magic")
    /\ ready' = (ready \/ field = "ready")
    /\ bootEpoch' = IF field = "epoch" THEN nextEpoch ELSE bootEpoch
    /\ UNCHANGED <<active, sequence, slot, boot, nextEpoch, dirty, boots,
                   writerVars, readerVars, historyVars>>

\* The __DMB() and the initialisation of the local transport.
BootDone ==
    /\ boot = "store"
    /\ bootTodo = {}
    /\ boot' = "run"
    /\ lastSequence' = 0
    /\ UNCHANGED <<metadataVars, slot, nextEpoch, dirty, bootTodo, boots,
                   writerVars, pollVars, historyVars>>

\* A poll returns, or is cut off by a reset: its locals are gone, and the
\* next one is about to load.
PollReturns ==
    /\ reader' = "load" /\ readTodo' = Metadata \cup Word
    /\ readActive' = 0 /\ readSequence' = 0
    /\ copy' = ZeroSlot

\* CM7_0 is reset; SRAM is retained, its locals are gone.
Restart0 ==
    /\ boot # "off"
    /\ boots < MaxEpoch
    /\ boot' = "off"
    /\ nextEpoch' = 0 /\ dirty' = {} /\ bootTodo' = {}
    /\ PollReturns
    /\ lastSequence' = 0
    /\ latest' = NoRecord /\ abandoned' = {} /\ taken' = NoRecord
    /\ UNCHANGED <<metadataVars, slot, boots, writerVars>>

-----------------------------------------------------------------------------
(* CM7_1: intercore_transport_cm7_1_attach and the publish functions.      *)

\* main_cm7_1.c tries again until the check succeeds.
AttachCheck ==
    /\ writer = "attach"
    /\ IF MetadataValid
       THEN WriterDoes("check") /\ UNCHANGED writerEpoch
       ELSE "check" \in writerTodo /\ WriterEnters("attach") /\ writerEpoch' = 0
    /\ UNCHANGED <<metadataVars, slot, bootVars, prepared, target, restarts,
                   readerVars, historyVars>>

AttachEpoch ==
    /\ writer = "attach"
    /\ WriterDoes("epoch")
    /\ writerEpoch' = bootEpoch
    /\ UNCHANGED <<metadataVars, slot, bootVars, prepared, target, restarts,
                   readerVars, historyVars>>

\* The layout and epoch check of a publish.
PublishCheck == MetadataValid /\ writerEpoch = bootEpoch

\* Variant: the GNSS publisher keeps its attachment after a refusal.
PublishRefused_KeepsAttachment ==
    /\ writer = "load" /\ "check" \in writerTodo
    /\ ~ PublishCheck
    /\ WriterEnters("load") /\ prepared' = NoRecord /\ target' = 0
    /\ UNCHANGED <<metadataVars, slot, bootVars, writerEpoch, restarts,
                   readerVars, historyVars>>

\* A publish whose check fails: main_cm7_1.c then drops the attachment.
PublishRefused ==
    /\ writer = "load" /\ "check" \in writerTodo
    /\ ~ PublishCheck
    /\ WriterEnters("attach") /\ writerEpoch' = 0
    /\ prepared' = NoRecord /\ target' = 0
    /\ UNCHANGED <<metadataVars, slot, bootVars, restarts, readerVars, historyVars>>

\* At the bound a publish gets no further than a check it would pass.
PublishChecked ==
    /\ writer = "load"
    /\ PublishCheck
    /\ sequence < MaxSequence
    /\ WriterDoes("check")
    /\ UNCHANGED <<metadataVars, slot, bootVars, writerEpoch, prepared, target,
                   restarts, readerVars, historyVars>>

\* The number to count on from.
PublishPrepare(v) ==
    /\ writer = "load"
    /\ sequence < MaxSequence
    /\ WriterDoes("number")
    /\ prepared' = [seq |-> NextSequence(sequence), val |-> v]
    /\ UNCHANGED <<metadataVars, slot, bootVars, writerEpoch, target, restarts,
                   readerVars, historyVars>>

\* inactive_index
PublishSelect ==
    /\ writer = "load"
    /\ WriterDoes("index")
    /\ target' = IF active = 1 THEN 0 ELSE 1
    /\ UNCHANGED <<metadataVars, slot, bootVars, writerEpoch, prepared, restarts,
                   readerVars, historyVars>>

PublishWrite(w) ==
    /\ writer = "write"
    /\ WriterDoes(w)
    /\ slot' = [slot EXCEPT ![target][w] = Prepared(prepared)[w]]
    /\ UNCHANGED <<metadataVars, bootVars, writerEpoch, prepared, target, restarts,
                   readerVars, historyVars>>

\* The metadata stores, after the __DMB() behind the slot.
PublishStoreActive ==
    /\ writer = "store"
    /\ WriterDoes("index")
    /\ active' = target
    /\ UNCHANGED <<magic, ready, bootEpoch, sequence, slot, bootVars, writerEpoch,
                   prepared, target, restarts, readerVars, historyVars>>

PublishStoreSequence ==
    /\ writer = "store"
    /\ WriterDoes("number")
    /\ sequence' = prepared.seq
    /\ latest' = prepared
    /\ UNCHANGED <<magic, ready, bootEpoch, active, slot, bootVars, writerEpoch,
                   prepared, target, restarts, readerVars, abandoned, taken>>

\* A record is on its way into the slot target and has no number yet in the
\* metadata.
InFlight == writer = "write" \/ (writer = "store" /\ "number" \in writerTodo)

\* CM7_1 is reset, wherever it is in a publish.  The record in flight stays
\* behind; it can be seen if it lies in the slot the active index names, or
\* in the slot a poll under way copies.
Restart1 ==
    /\ restarts < MaxRestart
    /\ restarts' = restarts + 1
    /\ abandoned' = IF InFlight THEN abandoned \cup {prepared} ELSE abandoned
    /\ WriterEnters("attach") /\ writerEpoch' = 0
    /\ prepared' = NoRecord /\ target' = 0
    /\ UNCHANGED <<metadataVars, slot, bootVars, readerVars, latest, taken>>

-----------------------------------------------------------------------------
(* CM7_0 polls: intercore_transport_read_navigation.  The boot epoch is    *)
(* written by CM7_0 alone, so its own EPOCH_CHANGED branch cannot be taken *)
(* and an active index above 1 is never stored.                            *)

\* A load of the poll has taken effect; the __DMB() is behind the last one.
ReadLoads(access) ==
    /\ boot = "run" /\ reader = "load"
    /\ access \in readTodo
    /\ IF readTodo = {access}
       THEN reader' = "verify" /\ readTodo' = Metadata
       ELSE reader' = reader /\ readTodo' = readTodo \ {access}

\* active_before
ReadActive ==
    /\ ReadLoads("index")
    /\ readActive' = active
    /\ UNCHANGED <<metadataVars, slot, bootVars, writerVars, readSequence,
                   copy, lastSequence, historyVars>>

\* sequence_before is new: a record was published and not taken yet.
IsNew(number) == number \notin {0, lastSequence}

\* Variant: the sequence counts as taken before the copy is checked.
ReadSequence_TakesEarly ==
    /\ IsNew(sequence)
    /\ ReadLoads("number")
    /\ readSequence' = sequence
    /\ lastSequence' = sequence
    /\ UNCHANGED <<metadataVars, slot, bootVars, writerVars, readActive, copy,
                   historyVars>>

\* Variant: the sequence is not compared with the last one taken.
ReadSequence_TakesAgain ==
    /\ sequence # 0
    /\ ReadLoads("number")
    /\ readSequence' = sequence
    /\ UNCHANGED <<metadataVars, slot, bootVars, writerVars, readActive, copy,
                   lastSequence, historyVars>>

\* sequence_before
ReadSequence ==
    /\ IsNew(sequence)
    /\ ReadLoads("number")
    /\ readSequence' = sequence
    /\ UNCHANGED <<metadataVars, slot, bootVars, writerVars, readActive, copy,
                   lastSequence, historyVars>>

\* NO_DATA: the poll returns, with whatever it loaded ahead.
ReadNothing ==
    /\ boot = "run" /\ reader = "load" /\ "number" \in readTodo
    /\ ~ IsNew(sequence)
    /\ PollReturns
    /\ UNCHANGED <<metadataVars, slot, bootVars, writerVars, lastSequence,
                   historyVars>>

ReadCopy(w) ==
    /\ "index" \notin readTodo
    /\ ReadLoads(w)
    /\ copy' = [copy EXCEPT ![w] = slot[readActive][w]]
    /\ UNCHANGED <<metadataVars, slot, bootVars, writerVars, readActive,
                   readSequence, lastSequence, historyVars>>

\* active_after: NO_DATA when it moved.
ReadActiveAgain ==
    /\ reader = "verify" /\ "index" \in readTodo
    /\ IF active = readActive
       THEN /\ readTodo' = readTodo \ {"index"}
            /\ UNCHANGED <<reader, readActive, readSequence, copy>>
       ELSE PollReturns
    /\ UNCHANGED <<metadataVars, slot, bootVars, writerVars, lastSequence,
                   historyVars>>

\* Variant: sequence_after is not compared.
ReadSequenceAgain_NoRecheck ==
    /\ reader = "verify" /\ "number" \in readTodo
    /\ readTodo' = readTodo \ {"number"}
    /\ UNCHANGED <<metadataVars, slot, bootVars, writerVars, lastSequence, reader,
                   readActive, readSequence, copy, historyVars>>

\* sequence_after: NO_DATA when it moved.
ReadSequenceAgain ==
    /\ reader = "verify" /\ "number" \in readTodo
    /\ IF sequence = readSequence
       THEN /\ readTodo' = readTodo \ {"number"}
            /\ UNCHANGED <<reader, readActive, readSequence, copy>>
       ELSE PollReturns
    /\ UNCHANGED <<metadataVars, slot, bootVars, writerVars, lastSequence,
                   historyVars>>

\* The record comparisons of the reader: the header carries the sequence of
\* the metadata and the CRC matches header and payload.
RecordValid ==
    /\ copy.sequence = readSequence
    /\ copy.crc = [seq |-> copy.sequence, val |-> copy.payload]

\* Variant: the CRC is not checked, only the number in the header.
ReadAccept_NoCrc ==
    /\ reader = "verify" /\ readTodo = {}
    /\ copy.sequence = readSequence
    /\ taken' = [seq |-> copy.sequence, val |-> copy.payload]
    /\ lastSequence' = copy.sequence
    /\ PollReturns
    /\ UNCHANGED <<metadataVars, slot, bootVars, writerVars, latest, abandoned>>

ReadAccept ==
    /\ reader = "verify" /\ readTodo = {}
    /\ RecordValid
    /\ taken' = [seq |-> copy.sequence, val |-> copy.payload]
    /\ lastSequence' = copy.sequence
    /\ PollReturns
    /\ UNCHANGED <<metadataVars, slot, bootVars, writerVars, latest, abandoned>>

\* INVALID when the copy does not check.
ReadReject ==
    /\ reader = "verify" /\ readTodo = {}
    /\ ~ RecordValid
    /\ PollReturns
    /\ UNCHANGED <<metadataVars, slot, bootVars, writerVars, lastSequence,
                   historyVars>>

-----------------------------------------------------------------------------
Boot ==
    \/ BootBegin
    \/ \E i \in Index, w \in Word : BootClearWord(i, w)
    \/ BootCleared
    \/ \E field \in {"magic", "epoch", "ready"} : BootStore(field)
    \/ BootDone

Attach == AttachCheck \/ AttachEpoch

Publish ==
    \/ PublishRefused
    \/ PublishChecked
    \/ \E v \in Value : PublishPrepare(v)
    \/ PublishSelect
    \/ \E w \in Word : PublishWrite(w)
    \/ PublishStoreActive
    \/ PublishStoreSequence

Poll ==
    \/ ReadActive
    \/ ReadSequence
    \/ ReadNothing
    \/ \E w \in Word : ReadCopy(w)
    \/ ReadActiveAgain
    \/ ReadSequenceAgain
    \/ ReadAccept
    \/ ReadReject

Next == Boot \/ Attach \/ Publish \/ Poll \/ Restart0 \/ Restart1

Spec == Init /\ [][Next]_vars

\* Each core runs an endless loop that waits for nobody; resets may or may
\* not happen.  Every step of a loop that changes anything changes the core's
\* own variables.
Fairness ==
    /\ WF_bootVars(Boot)
    /\ WF_writerVars(Attach \/ Publish)
    /\ WF_readerVars(Poll)

FairSpec == Spec /\ Fairness

-----------------------------------------------------------------------------
(* Properties.                                                             *)

SlotType == [sequence : 0..MaxSequence, crc : Record \cup {NoRecord},
             payload : Value \cup {NoValue}]

\* Every variable has its type.
TypeOK ==
    /\ magic \in BOOLEAN /\ ready \in BOOLEAN
    /\ bootEpoch \in Nat /\ active \in Index /\ sequence \in 0..MaxSequence
    /\ slot \in [Index -> SlotType]
    /\ boot \in {"off", "clear", "store", "run"}
    /\ nextEpoch \in Nat /\ boots \in Nat
    /\ dirty \in SUBSET (Index \X Word)
    /\ bootTodo \in SUBSET {"magic", "epoch", "ready"}
    /\ writer \in {"attach", "load", "write", "store"}
    /\ writerEpoch \in Nat
    /\ prepared \in Record \cup {NoRecord}
    /\ target \in Index
    /\ writerTodo \in SUBSET (Word \cup Metadata \cup {"check", "epoch"})
    /\ restarts \in Nat
    /\ reader \in {"load", "verify"}
    /\ readActive \in Index /\ readSequence \in 0..MaxSequence
    /\ copy \in SlotType
    /\ readTodo \in SUBSET (Word \cup Metadata)
    /\ lastSequence \in 0..MaxSequence
    /\ latest \in Record \cup {NoRecord}
    /\ abandoned \in SUBSET Record
    /\ taken \in Record \cup {NoRecord}

\* The record a poll has found to be the last one, and will return unless it
\* finds the active index moved.
Found == [seq |-> copy.sequence, val |-> copy.payload]

Pending ==
    IF reader = "verify" /\ "number" \notin readTodo /\ RecordValid
    THEN Found ELSE NoRecord

\* The channel is a register: with CM7_1 never reset in the middle of a
\* publish, every poll that returns OK returns the record that was the last
\* published one at a moment of the poll, whole, and no record twice.
Register == INSTANCE LatestRecord
                WITH Record <- Record, NoRecord <- NoRecord, latest <- latest,
                     fresh <- (latest.seq # lastSequence), pending <- Pending,
                     taken <- taken

ImplementsRegister == Register!Spec

\* What is left of the register when CM7_1 may be reset at any step: a poll
\* returns a record that was the last published one during the poll or one of
\* the same number that a reset abandoned, whole in both cases.
Remnants == INSTANCE LatestOrAbandoned
                WITH Record <- Record, NoRecord <- NoRecord, latest <- latest,
                     fresh <- (latest.seq # lastSequence), pending <- Pending,
                     abandoned <- abandoned, taken <- taken

ImplementsRemnants == Remnants!Spec

\* Within one boot of CM7_0 the polls return ever newer records, also when
\* CM7_1 restarts in the middle of a publish and leaves a half-published
\* record behind.
TakesOnlyNewer ==
    [][(taken' # taken /\ boot' = "run") => taken'.seq > taken.seq]_vars

\* Delivery: unless CM7_0 is reset, once the publisher has published its last
\* record the poll returns it, however the two were interleaved before.
LastRecordArrives ==
    <>[](boots > 1 \/ (latest.seq = MaxSequence /\ taken = latest))

\* The publisher ends up attached to the layout CM7_0 booted last, whichever
\* core starts first and whichever restarts (the camera and wireless
\* architecture document: "CM7_1 waits for the expected magic and version,
\* records the epoch, and then starts publishing").
EventuallyAttached ==
    <>[](/\ boot = "run"
         /\ writer # "attach"
         /\ writerEpoch = bootEpoch)
=============================================================================
