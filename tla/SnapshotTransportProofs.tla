----------------------- MODULE SnapshotTransportProofs -----------------------
(***************************************************************************)
(* Proofs about SnapshotTransport for every payload set, every number of   *)
(* publishes and every number of boots of CM7_0.                           *)
(*                                                                         *)
(* Type correctness, the order of the records taken and the refinement of  *)
(* LatestOrAbandoned are proved without further hypotheses, for resets of  *)
(* either core at any step and every order of the accesses between two     *)
(* barriers.  The sharper promise of LatestRecord is proved for runs in    *)
(* which CM7_1 is not reset (MaxRestart = 0), from the same invariant:     *)
(* without a reset there is no abandoned record.                           *)
(***************************************************************************)
EXTENDS SnapshotTransport, TLAPS

\* A publish has numbered its record and not yet stored the sequence.
Numbered == InFlight \/ (writer = "load" /\ "number" \notin writerTodo)

\* A numbered record is newer than the published one.
WriterInv == Numbered => prepared \in Record /\ prepared.seq > sequence

\* What a CRC word may be, in a slot or in a copy: under the number of the
\* layout the last record or an abandoned one; under a later number, which a
\* publish to come may store, one that was abandoned or is on its way.
Known(r) ==
    /\ (sequence # 0 /\ r.seq = sequence) => r \in {latest} \cup abandoned
    /\ r.seq > sequence => r \in abandoned \/ (InFlight /\ r = prepared)

SlotInv == \A i \in Index : <<i, "crc">> \notin dirty => Known(slot[i].crc)

\* While the layout is up, the metadata number the last published record.
LayoutInv ==
    /\ boot \in {"store", "run"} => dirty = {}
    /\ latest.seq =< sequence
    /\ boot # "off" =>
        /\ latest.seq = sequence
        /\ lastSequence =< sequence
        /\ SlotInv

\* The poll has read a number that is new.
NumberRead == reader = "verify" \/ "number" \notin readTodo

\* A poll runs only on a layout that is up, and copies known words, whether
\* it has read the number or not.
ReaderInv ==
    /\ boot # "run" => /\ reader = "load" /\ "number" \in readTodo
                       /\ copy.crc = NoRecord /\ lastSequence = 0
    /\ boot = "run" => Known(copy.crc)
    /\ NumberRead => readSequence > lastSequence /\ readSequence =< sequence

IInv == TypeOK /\ WriterInv /\ LayoutInv /\ ReaderInv

-----------------------------------------------------------------------------
(* Type correctness.                                                       *)

LEMMA RecordNumber ==
    ASSUME NEW r \in Record \cup {NoRecord}
    PROVE  r.seq \in 0..MaxSequence /\ (r.seq # 0 => r \in Record)
  BY TransportAssumption DEF Record, NoRecord

LEMMA PreparedType ==
    ASSUME NEW r \in Record \cup {NoRecord}
    PROVE  Prepared(r) \in SlotType
  BY TransportAssumption DEF Prepared, SlotType, Record, NoRecord

LEMMA ZeroSlotType == ZeroSlot \in SlotType
  BY TransportAssumption DEF ZeroSlot, SlotType, Record, NoRecord

\* Moving one word of a slot keeps its type.
LEMMA WordMove ==
    ASSUME NEW s \in SlotType, NEW z \in SlotType, NEW w \in Word
    PROVE  /\ [s EXCEPT ![w] = z[w]] \in SlotType
           /\ [s EXCEPT ![w] = z[w]].crc = IF w = "crc" THEN z.crc ELSE s.crc
  BY DEF SlotType, Word

\* The same for one of the two shared slots.
LEMMA SlotMove ==
    ASSUME NEW s \in [Index -> SlotType], NEW i \in Index,
           NEW z \in SlotType, NEW w \in Word
    PROVE  /\ [s EXCEPT ![i][w] = z[w]] \in [Index -> SlotType]
           /\ \A j \in Index : [s EXCEPT ![i][w] = z[w]][j].crc
                = IF j = i /\ w = "crc" THEN z.crc ELSE s[j].crc
  <1>1. [s EXCEPT ![i][w] = z[w]] = [s EXCEPT ![i] = [s[i] EXCEPT ![w] = z[w]]]
    OBVIOUS
  <1> QED BY <1>1, WordMove

\* What the clearing loop does to the CRC words.
LEMMA ClearMove ==
    ASSUME NEW s \in [Index -> SlotType], NEW i \in Index, NEW w \in Word
    PROVE  \A j \in Index : [s EXCEPT ![i][w] = ZeroSlot[w]][j].crc
             = IF j = i /\ w = "crc" THEN NoRecord ELSE s[j].crc
  <1>1. [s EXCEPT ![i][w] = ZeroSlot[w]] = [s EXCEPT ![i] = [s[i] EXCEPT ![w] = ZeroSlot[w]]]
    OBVIOUS
  <1>2. [s[i] EXCEPT ![w] = ZeroSlot[w]].crc = IF w = "crc" THEN ZeroSlot.crc ELSE s[i].crc
    BY ZeroSlotType DEF SlotType, Word
  <1>3. ZeroSlot.crc = NoRecord
    BY DEF ZeroSlot
  <1> QED BY <1>1, <1>2, <1>3

\* What one access does to the stage of CM7_1.
LEMMA WriterStage ==
    ASSUME NEW access, WriterDoes(access)
    PROVE  /\ access \in writerTodo
           /\ \/ /\ writerTodo # {access}
                 /\ writer' = writer /\ writerTodo' = writerTodo \ {access}
              \/ /\ writerTodo = {access}
                 /\ writer = "attach" => /\ writer' = "load"
                                         /\ writerTodo' = {"check"} \cup Metadata
                 /\ writer = "load" => writer' = "write" /\ writerTodo' = Word
                 /\ writer = "write" => writer' = "store" /\ writerTodo' = Metadata
                 /\ writer = "store" => /\ writer' = "load"
                                        /\ writerTodo' = {"check"} \cup Metadata
  BY DEF WriterDoes, WriterEnters, StageAfter, Accesses

\* What one load does to the stage of the poll.
LEMMA ReaderStage ==
    ASSUME NEW access, ReadLoads(access)
    PROVE  /\ boot = "run" /\ reader = "load" /\ access \in readTodo
           /\ \/ reader' = "load" /\ readTodo' = readTodo \ {access}
              \/ reader' = "verify" /\ readTodo' = Metadata /\ readTodo = {access}
  BY DEF ReadLoads

LEMMA AttachStage ==
    WriterEnters("attach") => writer' = "attach" /\ writerTodo' = {"check", "epoch"}
  BY DEF WriterEnters, Accesses

LEMMA TypeInit == Init => TypeOK
  <1> SUFFICES ASSUME Init PROVE TypeOK
    OBVIOUS
  <1>1. slot \in [Index -> SlotType] /\ copy \in SlotType
    BY ZeroSlotType DEF Init
  <1>2. magic \in BOOLEAN /\ ready \in BOOLEAN
    BY DEF Init
  <1>3. writerTodo = {"check", "epoch"}
    BY DEF Init, Accesses
  <1> QED
    BY <1>1, <1>2, <1>3, TransportAssumption DEF Init, TypeOK, Index

\* The locals of a poll that returned.
LEMMA ReturnType ==
    PollReturns => /\ reader' = "load" /\ readActive' \in Index
                   /\ readSequence' \in 0..MaxSequence
                   /\ copy' \in SlotType /\ copy'.crc = NoRecord
                   /\ readTodo' = Metadata \cup Word /\ "number" \in readTodo'
  BY ZeroSlotType, TransportAssumption DEF PollReturns, Index, ZeroSlot, Metadata

LEMMA TypeStep ==
    ASSUME TypeOK, WriterInv, [Next]_vars
    PROVE  TypeOK'
  <1> USE TransportAssumption DEF TypeOK, Index, metadataVars, bootVars,
          writerVars, pollVars, readerVars, historyVars
  <1>1. CASE BootBegin
    <2>2. (IF magic THEN bootEpoch ELSE 0) \in Nat
      <3>1. CASE magic
        BY <3>1
      <3>2. CASE ~magic
        BY <3>2
      <3> QED BY <3>1, <3>2
    <2>3. nextEpoch' \in Nat
      BY <1>1, <2>2 DEF BootBegin, NextSequence
    <2>4. dirty' \subseteq Index \X Word
      BY <1>1 DEF BootBegin
    <2>5. magic' \in BOOLEAN /\ ready' \in BOOLEAN
      BY <1>1 DEF BootBegin
    <2> QED BY <1>1, <2>3, <2>4, <2>5 DEF BootBegin
  <1>2. ASSUME NEW i \in Index, NEW w \in Word, BootClearWord(i, w)
        PROVE  TypeOK'
    <2>1. slot' \in [Index -> SlotType]
      BY <1>2, SlotMove, ZeroSlotType DEF BootClearWord
    <2> QED BY <1>2, <2>1 DEF BootClearWord
  <1>3. CASE BootCleared
    BY <1>3 DEF BootCleared
  <1>4. ASSUME NEW field \in {"magic", "epoch", "ready"}, BootStore(field)
        PROVE  TypeOK'
    BY <1>4 DEF BootStore
  <1>5. CASE BootDone
    BY <1>5 DEF BootDone
  <1>6. CASE AttachCheck
    <2>1. CASE MetadataValid
      BY <1>6, <2>1, WriterStage DEF AttachCheck, Metadata
    <2>2. CASE ~ MetadataValid
      BY <1>6, <2>2, AttachStage DEF AttachCheck
    <2> QED BY <2>1, <2>2
  <1>7. CASE AttachEpoch
    BY <1>7, WriterStage DEF AttachEpoch, Metadata
  <1>8. CASE PublishRefused
    BY <1>8, AttachStage DEF PublishRefused
  <1>9. CASE PublishChecked
    BY <1>9, WriterStage DEF PublishChecked
  <1>10. ASSUME NEW v \in Value, PublishPrepare(v)
        PROVE  TypeOK'
    <2>1. prepared' \in Record
      BY <1>10 DEF PublishPrepare, Record, NextSequence
    <2> QED BY <1>10, <2>1, WriterStage DEF PublishPrepare
  <1>11. CASE PublishSelect
    BY <1>11, WriterStage DEF PublishSelect
  <1>12. ASSUME NEW w \in Word, PublishWrite(w)
        PROVE  TypeOK'
    <2>1. slot' \in [Index -> SlotType]
      BY <1>12, SlotMove, PreparedType DEF PublishWrite
    <2> QED BY <1>12, <2>1, WriterStage DEF PublishWrite
  <1>13. CASE PublishStoreActive
    BY <1>13, WriterStage DEF PublishStoreActive
  <1>14. CASE PublishStoreSequence
    BY <1>14, RecordNumber, WriterStage DEF PublishStoreSequence
  <1>15. CASE ReadActive
    BY <1>15, ReaderStage DEF ReadActive
  <1>16. CASE ReadSequence
    BY <1>16, ReaderStage DEF ReadSequence
  <1>17. CASE ReadNothing \/ ReadReject
    <2>1. PollReturns /\ UNCHANGED <<metadataVars, slot, bootVars, writerVars,
                                     lastSequence, historyVars>>
      BY <1>17 DEF ReadNothing, ReadReject
    <2> QED BY <2>1, ReturnType
  <1>18. ASSUME NEW w \in Word, ReadCopy(w)
        PROVE  TypeOK'
    <2>1. slot[readActive] \in SlotType
      OBVIOUS
    <2>2. copy' \in SlotType
      BY <1>18, <2>1, WordMove DEF ReadCopy
    <2> QED BY <1>18, <2>2, ReaderStage DEF ReadCopy
  <1>19. CASE ReadActiveAgain
    <2>1. CASE PollReturns
      BY <1>19, <2>1, ReturnType DEF ReadActiveAgain
    <2>2. CASE ~ PollReturns
      BY <1>19, <2>2 DEF ReadActiveAgain
    <2> QED BY <2>1, <2>2
  <1>20. CASE ReadSequenceAgain
    <2>1. CASE PollReturns
      BY <1>20, <2>1, ReturnType DEF ReadSequenceAgain
    <2>2. CASE ~ PollReturns
      BY <1>20, <2>2 DEF ReadSequenceAgain
    <2> QED BY <2>1, <2>2
  <1>21. CASE ReadAccept
    <2>1. copy.sequence \in 0..MaxSequence /\ copy.crc \in Record \cup {NoRecord}
      BY DEF SlotType
    <2>2. taken' \in Record \cup {NoRecord} /\ lastSequence' \in 0..MaxSequence
      BY <1>21, <2>1 DEF ReadAccept, RecordValid
    <2> QED BY <1>21, <2>2, ReturnType DEF ReadAccept
  <1>22. CASE Restart0
    BY <1>22, ReturnType DEF Restart0, NoRecord
  <1>23. CASE Restart1
    <2>1. InFlight => prepared \in Record
      BY DEF WriterInv, Numbered
    <2>2. abandoned' \in SUBSET Record
      BY <1>23, <2>1 DEF Restart1
    <2> QED BY <1>23, <2>2, AttachStage DEF Restart1, NoRecord
  <1>24. CASE UNCHANGED vars
    BY <1>24 DEF vars
  <1> QED
    BY <1>1, <1>2, <1>3, <1>4, <1>5, <1>6, <1>7, <1>8, <1>9, <1>10, <1>11, <1>12, <1>13, <1>14, <1>15, <1>16, <1>17, <1>18, <1>19, <1>20, <1>21, <1>22, <1>23, <1>24 DEF Next, Boot, Attach, Publish, Poll

-----------------------------------------------------------------------------
(* The inductive invariant.                                                *)

\* Steps of CM7_1 that write nothing into shared memory that counts: the
\* loads of an attach or a publish.
WriterLoads ==
    \/ AttachCheck \/ AttachEpoch \/ PublishRefused \/ PublishChecked
    \/ (\E v \in Value : PublishPrepare(v)) \/ PublishSelect

\* Steps of CM7_0 that write neither the metadata sequence nor latest.
BootRest ==
    \/ \E i \in Index, w \in Word : BootClearWord(i, w)
    \/ BootCleared
    \/ \E field \in {"magic", "epoch", "ready"} : BootStore(field)
    \/ BootDone

\* A load of CM7_1 begins no stage but the next; if that is the writing, all
\* its loads are done.
LEMMA LoadsStage ==
    ASSUME TypeOK, WriterLoads
    PROVE  /\ ~ InFlight
           /\ writer' \in {"attach", "load", "write"}
           /\ InFlight' => writer = "load" /\ "number" \notin (writerTodo \ {"number"})
           /\ UNCHANGED <<metadataVars, slot, bootVars, restarts, readerVars, historyVars>>
  <1> USE AttachStage DEF InFlight
  <1>1. CASE AttachCheck
    <2>1. CASE MetadataValid
      BY <1>1, <2>1, WriterStage DEF AttachCheck
    <2>2. CASE ~ MetadataValid
      BY <1>1, <2>2 DEF AttachCheck
    <2> QED BY <2>1, <2>2
  <1>2. CASE AttachEpoch
    BY <1>2, WriterStage DEF AttachEpoch
  <1>3. CASE PublishRefused
    BY <1>3 DEF PublishRefused
  <1>4. CASE PublishChecked
    BY <1>4, WriterStage DEF PublishChecked
  <1>5. ASSUME NEW v \in Value, PublishPrepare(v)
        PROVE  /\ ~ InFlight
               /\ writer' \in {"attach", "load", "write"}
               /\ InFlight' => writer = "load" /\ "number" \notin (writerTodo \ {"number"})
               /\ UNCHANGED <<metadataVars, slot, bootVars, restarts, readerVars, historyVars>>
    BY <1>5, WriterStage DEF PublishPrepare
  <1>6. CASE PublishSelect
    BY <1>6, WriterStage DEF PublishSelect
  <1> QED BY <1>1, <1>2, <1>3, <1>4, <1>5, <1>6 DEF WriterLoads

\* A record is in flight while its words are written, and until its number is
\* stored.
LEMMA WriteStage ==
    ASSUME NEW w \in Word, PublishWrite(w)
    PROVE  /\ InFlight /\ InFlight'
           /\ slot' = [slot EXCEPT ![target][w] = Prepared(prepared)[w]]
           /\ UNCHANGED <<metadataVars, bootVars, prepared, target, restarts,
                          readerVars, historyVars>>
  BY WriterStage DEF PublishWrite, InFlight, Metadata

LEMMA StoreActiveStage ==
    ASSUME PublishStoreActive
    PROVE  /\ InFlight' <=> InFlight
           /\ Numbered' => InFlight
           /\ UNCHANGED <<sequence, slot, bootVars, prepared, target, restarts,
                          readerVars, historyVars>>
  BY WriterStage DEF PublishStoreActive, InFlight, Numbered, Metadata

LEMMA StoreSequenceStage ==
    ASSUME PublishStoreSequence
    PROVE  /\ InFlight /\ ~ Numbered' /\ ~ InFlight'
           /\ sequence' = prepared.seq /\ latest' = prepared
           /\ UNCHANGED <<active, slot, bootVars, prepared, target, restarts,
                          readerVars, abandoned, taken>>
  BY WriterStage DEF PublishStoreSequence, InFlight, Numbered, Metadata

LEMMA Restart1Stage ==
    ASSUME Restart1
    PROVE  /\ ~ Numbered' /\ ~ InFlight'
           /\ abandoned' = IF InFlight THEN abandoned \cup {prepared} ELSE abandoned
           /\ UNCHANGED <<metadataVars, slot, bootVars, readerVars, latest, taken>>
  BY AttachStage DEF Restart1, InFlight, Numbered

LEMMA PollFrame ==
    ASSUME Poll
    PROVE  /\ UNCHANGED <<metadataVars, slot, bootVars, writerVars, latest, abandoned>>
           /\ ~ ReadAccept => UNCHANGED <<lastSequence, taken>>
  <1> USE ReaderStage DEF historyVars
  <1>1. CASE ReadActive \/ ReadSequence \/ ReadNothing
    BY <1>1 DEF ReadActive, ReadSequence, ReadNothing
  <1>2. ASSUME NEW w \in Word, ReadCopy(w)
        PROVE  UNCHANGED <<metadataVars, slot, bootVars, writerVars, historyVars,
                           lastSequence>>
    BY <1>2 DEF ReadCopy
  <1>3. CASE ReadActiveAgain \/ ReadSequenceAgain \/ ReadAccept \/ ReadReject
    BY <1>3 DEF ReadActiveAgain, ReadSequenceAgain, ReadAccept, ReadReject
  <1> QED BY <1>1, <1>2, <1>3 DEF Poll

LEMMA InvInit == Init => IInv
  <1> SUFFICES ASSUME Init PROVE IInv
    OBVIOUS
  <1>1. TypeOK
    BY TypeInit
  <1>2. ~ Numbered
    BY DEF Init, Numbered, InFlight
  <1>3. copy.crc = NoRecord /\ "number" \in readTodo
    BY DEF Init, ZeroSlot, Metadata
  <1> QED
    BY <1>1, <1>2, <1>3 DEF Init, IInv, WriterInv, LayoutInv, ReaderInv, NumberRead,
       NoRecord

\* The sequence store of a publish is the only step that moves the number of
\* the layout forward, and it stores a number that is newer.
LEMMA WriterStep ==
    ASSUME TypeOK, WriterInv, [Next]_vars
    PROVE  WriterInv'
  <1> USE TransportAssumption DEF TypeOK, WriterInv
  <1>1. CASE Poll \/ BootRest \/ Restart0
    <2>1. UNCHANGED <<writerVars, sequence>>
      BY <1>1, PollFrame DEF BootRest, BootClearWord, BootCleared, BootStore,
         BootDone, Restart0, metadataVars
    <2> QED BY <2>1 DEF writerVars, Numbered, InFlight
  <1>2. CASE BootBegin
    <2>1. Numbered => prepared \in Record /\ prepared.seq > 0
      BY DEF Record
    <2> QED BY <1>2, <2>1 DEF BootBegin, writerVars, Numbered, InFlight
  <1>3. CASE WriterLoads
    <2>1. UNCHANGED sequence
      BY <1>3, LoadsStage DEF metadataVars
    <2>2. CASE \E v \in Value : PublishPrepare(v)
      <3>1. PICK v \in Value : PublishPrepare(v)
        BY <2>2
      <3>2. prepared' \in Record /\ prepared'.seq > sequence
        BY <3>1 DEF PublishPrepare, NextSequence, Record
      <3> QED BY <2>1, <3>2
    <2>3. CASE AttachCheck
      <3>1. CASE MetadataValid
        BY <2>3, <3>1, WriterStage DEF AttachCheck, Numbered, InFlight, Metadata
      <3>2. CASE ~ MetadataValid
        BY <2>3, <3>2, AttachStage DEF AttachCheck, Numbered, InFlight
      <3> QED BY <3>1, <3>2
    <2>4. CASE AttachEpoch
      BY <2>4, WriterStage DEF AttachEpoch, Numbered, InFlight, Metadata
    <2>5. CASE PublishRefused
      BY <2>5, AttachStage DEF PublishRefused, Numbered, InFlight
    <2>6. CASE PublishChecked
      <3>1. Numbered' => Numbered
        BY <2>6, WriterStage DEF PublishChecked, Numbered, InFlight
      <3> QED BY <2>1, <2>6, <3>1 DEF PublishChecked
    <2>7. CASE PublishSelect
      <3>1. Numbered' => Numbered
        BY <2>7, WriterStage DEF PublishSelect, Numbered, InFlight
      <3> QED BY <2>1, <2>7, <3>1 DEF PublishSelect
    <2> QED BY <1>3, <2>2, <2>3, <2>4, <2>5, <2>6, <2>7 DEF WriterLoads
  <1>4. ASSUME NEW w \in Word, PublishWrite(w)
        PROVE  WriterInv'
    BY <1>4, WriteStage DEF Numbered, metadataVars
  <1>5. CASE PublishStoreActive
    BY <1>5, StoreActiveStage DEF Numbered
  <1>6. CASE PublishStoreSequence
    BY <1>6, StoreSequenceStage
  <1>7. CASE Restart1
    BY <1>7, Restart1Stage
  <1>8. CASE UNCHANGED vars
    BY <1>8 DEF vars, writerVars, metadataVars, Numbered, InFlight
  <1> QED
    BY <1>1, <1>2, <1>3, <1>4, <1>5, <1>6, <1>7, <1>8
    DEF Next, Boot, BootRest, Attach, Publish, WriterLoads

\* Every variable of the channel keeps its type, in every interleaving of
\* the two cores and their restarts.
THEOREM TypeCorrect == Spec => []TypeOK
  <1>1. Init => TypeOK /\ WriterInv
    BY InvInit DEF IInv
  <1>2. TypeOK /\ WriterInv /\ [Next]_vars => (TypeOK /\ WriterInv)'
    BY TypeStep, WriterStep
  <1> QED BY <1>1, <1>2, PTL DEF Spec

\* The types of the words the invariant speaks of.
LEMMA CrcType ==
    ASSUME TypeOK
    PROVE  /\ \A i \in Index : slot[i].crc \in Record \cup {NoRecord}
           /\ \A i \in Index : slot[i].crc.seq \in Nat
           /\ copy.crc \in Record \cup {NoRecord} /\ copy.crc.seq \in Nat
           /\ prepared.seq \in Nat /\ sequence \in Nat /\ lastSequence \in Nat
           /\ readSequence \in Nat /\ latest.seq \in Nat
           /\ NoRecord.seq = 0
  BY RecordNumber, TransportAssumption DEF TypeOK, SlotType, NoRecord

LEMMA NothingKnown == TypeOK => Known(NoRecord)
  BY CrcType DEF Known

\* A known word stays known when a publish goes on, stores its number, or is
\* cut off by a reset of CM7_1.
LEMMA KnownStep ==
    ASSUME TypeOK, WriterInv, NEW r \in Record \cup {NoRecord}, Known(r),
           \/ UNCHANGED vars \/ Poll \/ BootRest
           \/ WriterLoads \/ (\E w \in Word : PublishWrite(w))
           \/ PublishStoreActive \/ PublishStoreSequence \/ Restart1
    PROVE  Known(r)'
  <1>0. r.seq \in Nat /\ prepared.seq \in Nat /\ sequence \in Nat
    BY CrcType, RecordNumber
  <1> USE DEF Known
  <1>1. CASE UNCHANGED vars \/ Poll \/ BootRest
    <2>1. UNCHANGED <<sequence, latest, abandoned, writer, writerTodo, prepared>>
      BY <1>1, PollFrame DEF vars, BootRest, BootClearWord, BootCleared, BootStore,
         BootDone, metadataVars, writerVars, historyVars
    <2> QED BY <2>1 DEF InFlight
  <1>2. CASE WriterLoads
    BY <1>2, LoadsStage DEF metadataVars, historyVars
  <1>3. CASE \E w \in Word : PublishWrite(w)
    BY <1>3, WriteStage DEF metadataVars, historyVars
  <1>4. CASE PublishStoreActive
    BY <1>4, StoreActiveStage DEF historyVars
  <1>5. CASE PublishStoreSequence
    <2>1. prepared.seq > sequence
      BY <1>5, StoreSequenceStage DEF WriterInv, Numbered
    <2> QED BY <1>0, <1>5, <2>1, StoreSequenceStage
  <1>6. CASE Restart1
    BY <1>6, Restart1Stage DEF metadataVars
  <1> QED BY <1>1, <1>2, <1>3, <1>4, <1>5, <1>6

\* A step that leaves the slots alone keeps SlotInv.
LEMMA SlotFrame ==
    ASSUME TypeOK, WriterInv, SlotInv, UNCHANGED <<slot, dirty>>,
           \/ UNCHANGED vars \/ Poll \/ BootRest
           \/ WriterLoads \/ (\E w \in Word : PublishWrite(w))
           \/ PublishStoreActive \/ PublishStoreSequence \/ Restart1
    PROVE  SlotInv'
  <1> SUFFICES ASSUME NEW i \in Index, <<i, "crc">> \notin dirty
               PROVE  Known(slot[i].crc)'
    BY DEF SlotInv
  <1>1. Known(slot[i].crc) /\ slot[i].crc \in Record \cup {NoRecord}
    BY CrcType DEF SlotInv
  <1>2. \A r \in Record \cup {NoRecord} : Known(r) => Known(r)'
    BY KnownStep
  <1>3. slot'[i].crc = slot[i].crc
    OBVIOUS
  <1> QED BY <1>1, <1>2, <1>3 DEF Known

\* The word a step leaves in a slot is known if it is nothing or the record
\* on its way.
LEMMA SlotWrite ==
    ASSUME TypeOK, WriterInv, SlotInv,
           NEW i \in Index, NEW w \in Word, BootClearWord(i, w) \/ PublishWrite(w)
    PROVE  SlotInv'
  <1>0. /\ slot \in [Index -> SlotType] /\ target \in Index
        /\ prepared \in Record \cup {NoRecord}
    BY DEF TypeOK
  <1>1. CASE BootClearWord(i, w)
    <2>1. /\ slot' = [slot EXCEPT ![i][w] = ZeroSlot[w]] /\ dirty' = dirty \ {<<i, w>>}
          /\ UNCHANGED <<sequence, latest, abandoned, writer, writerTodo, prepared>>
      BY <1>1 DEF BootClearWord, metadataVars, writerVars, historyVars
    <2>2. \A j \in Index : slot'[j].crc
             = IF j = i /\ w = "crc" THEN NoRecord ELSE slot[j].crc
      <3>1. slot' = [slot EXCEPT ![i][w] = ZeroSlot[w]] /\ slot \in [Index -> SlotType]
        BY <1>0, <2>1
      <3> QED BY <3>1, ClearMove
    <2>3. Known(NoRecord)
      BY NothingKnown
    <2>4. \A r : Known(r) => Known(r)'
      BY <2>1 DEF Known, InFlight
    <2> SUFFICES ASSUME NEW j \in Index, <<j, "crc">> \notin dirty'
                 PROVE  Known(slot'[j].crc)
      BY <2>4, <2>1 DEF SlotInv, Known, InFlight
    <2> QED BY <2>1, <2>2, <2>3 DEF SlotInv
  <1>2. CASE PublishWrite(w)
    <2>1. slot' = [slot EXCEPT ![target][w] = Prepared(prepared)[w]]
      BY <1>2, WriteStage
    <2>2. \A j \in Index : slot'[j].crc
             = IF j = target /\ w = "crc" THEN prepared ELSE slot[j].crc
      <3>1. Prepared(prepared).crc = prepared
        BY DEF Prepared
      <3>2. Prepared(prepared) \in SlotType
        BY <1>0, PreparedType
      <3> QED BY ONLY <1>0, <2>1, <3>1, <3>2, w \in Word, SlotMove, SMTT(30)
    <2>3. /\ InFlight' /\ prepared.seq > sequence
          /\ UNCHANGED <<dirty, sequence, latest, abandoned, prepared>>
      BY <1>2, WriteStage DEF WriterInv, Numbered, metadataVars, bootVars, historyVars
    <2>4. prepared.seq \in Nat /\ sequence \in Nat
      BY CrcType
    <2>5. \A r \in Record \cup {NoRecord} : Known(r) => Known(r)'
      BY <1>2, KnownStep
    <2> SUFFICES ASSUME NEW j \in Index, <<j, "crc">> \notin dirty
                 PROVE  Known(slot[j].crc)'
      BY <2>3 DEF SlotInv
    <2>6. CASE slot'[j].crc = prepared
      BY <2>3, <2>4, <2>6 DEF Known
    <2>7. CASE slot'[j].crc = slot[j].crc
      <3>1. Known(slot[j].crc) /\ slot[j].crc \in Record \cup {NoRecord}
        BY CrcType DEF SlotInv
      <3> QED BY <2>5, <2>7, <3>1 DEF Known
    <2> QED BY <2>2, <2>6, <2>7
  <1> QED BY <1>1, <1>2

LEMMA LayoutStep ==
    ASSUME TypeOK, WriterInv, LayoutInv, ReaderInv, [Next]_vars
    PROVE  LayoutInv'
  <1> USE CrcType DEF LayoutInv
  <1>1. CASE Restart0
    BY <1>1 DEF Restart0, metadataVars
  <1>2. CASE BootBegin
    <2>1. SlotInv'
      BY <1>2 DEF BootBegin, SlotInv, Word
    <2>2. latest'.seq = 0 /\ sequence' = 0 /\ lastSequence' = 0
      BY <1>2 DEF BootBegin, ReaderInv, readerVars
    <2> QED BY <1>2, <2>1, <2>2 DEF BootBegin
  <1>3. ASSUME NEW i \in Index, NEW w \in Word, BootClearWord(i, w)
        PROVE  LayoutInv'
    <2>1. boot = "clear" /\ SlotInv'
      BY <1>3, SlotWrite DEF BootClearWord
    <2> QED BY <1>3, <2>1 DEF BootClearWord, metadataVars, readerVars, historyVars
  <1>4. CASE BootCleared \/ (\E field \in {"magic", "epoch", "ready"} : BootStore(field))
             \/ BootDone
    <2>1. SlotInv'
      BY <1>4, SlotFrame DEF BootCleared, BootStore, BootDone, BootRest, LayoutInv
    <2> QED BY <1>4, <2>1 DEF BootCleared, BootStore, BootDone, metadataVars,
               readerVars, historyVars
  <1>5. CASE WriterLoads \/ Restart1
    <2>1. UNCHANGED <<metadataVars, slot, bootVars, readerVars, latest>>
      BY <1>5, LoadsStage, Restart1Stage DEF historyVars
    <2>2. boot # "off" => SlotInv'
      BY <1>5, <2>1, SlotFrame DEF bootVars
    <2> QED BY <2>1, <2>2 DEF metadataVars, bootVars, readerVars
  <1>6. ASSUME NEW w \in Word, PublishWrite(w)
        PROVE  LayoutInv'
    <2>1. boot # "off" => SlotInv'
      BY <1>6, SlotWrite DEF Index
    <2> QED BY <1>6, <2>1, WriteStage DEF metadataVars, bootVars, readerVars, historyVars
  <1>7. CASE PublishStoreActive
    <2>1. boot # "off" => SlotInv'
      BY <1>7, SlotFrame, StoreActiveStage DEF bootVars
    <2> QED BY <1>7, <2>1, StoreActiveStage DEF bootVars, readerVars, historyVars
  <1>8. CASE PublishStoreSequence
    <2>1. boot # "off" => SlotInv'
      BY <1>8, SlotFrame, StoreSequenceStage DEF bootVars
    <2>2. prepared.seq > sequence
      BY <1>8, StoreSequenceStage DEF WriterInv, Numbered
    <2> QED BY <1>8, <2>1, <2>2, StoreSequenceStage DEF bootVars, readerVars
  <1>9. CASE Poll
    <2>1. boot # "off" => SlotInv'
      BY <1>9, SlotFrame, PollFrame DEF bootVars
    <2>2. boot # "off" => lastSequence' =< sequence
      <3>1. CASE ReadAccept
        BY <1>9, <3>1, PollFrame DEF ReadAccept, RecordValid, ReaderInv, NumberRead
      <3>2. CASE ~ ReadAccept
        BY <1>9, <3>2, PollFrame
      <3> QED BY <3>1, <3>2
    <2> QED BY <1>9, <2>1, <2>2, PollFrame DEF metadataVars, bootVars
  <1>10. CASE UNCHANGED vars
    <2>1. boot # "off" => SlotInv'
      BY <1>10, SlotFrame DEF vars, bootVars
    <2> QED BY <1>10, <2>1 DEF vars, metadataVars, bootVars, readerVars, historyVars
  <1> QED BY <1>1, <1>2, <1>3, <1>4, <1>5, <1>6, <1>7, <1>8, <1>9, <1>10
    DEF Next, Boot, Attach, Publish, WriterLoads

LEMMA ReaderStep ==
    ASSUME TypeOK, WriterInv, LayoutInv, ReaderInv, [Next]_vars
    PROVE  ReaderInv'
  <1>0. /\ sequence \in Nat /\ readSequence \in Nat /\ lastSequence \in Nat
        /\ prepared.seq \in Nat /\ copy.crc \in Record \cup {NoRecord}
    BY CrcType
  <1>1. CASE Restart0
    <2>1. boot' = "off" /\ lastSequence' = 0 /\ PollReturns
      BY <1>1 DEF Restart0
    <2> QED BY <2>1, ReturnType DEF ReaderInv, NumberRead
  <1>2. CASE BootBegin
    BY <1>2 DEF BootBegin, ReaderInv, NumberRead, readerVars, pollVars
  <1>3. CASE BootRest
    <2>1. UNCHANGED <<pollVars, sequence>> /\ lastSequence' = lastSequence
      BY <1>3 DEF BootRest, BootClearWord, BootCleared, BootStore, BootDone, readerVars,
         metadataVars, ReaderInv
    <2>2. boot # "run"
      BY <1>3 DEF BootRest, BootClearWord, BootCleared, BootStore, BootDone
    <2>3. Known(NoRecord)'
      BY <1>3, NothingKnown, KnownStep
    <2> QED BY <2>1, <2>2, <2>3 DEF ReaderInv, NumberRead, pollVars, Known
  <1>4. CASE WriterLoads \/ (\E w \in Word : PublishWrite(w)) \/ PublishStoreActive
             \/ PublishStoreSequence \/ Restart1
    <2>1. UNCHANGED <<boot, readerVars>> /\ sequence =< sequence'
      <3>1. CASE PublishStoreSequence
        <4>1. prepared.seq > sequence
          BY <3>1, StoreSequenceStage DEF WriterInv, Numbered
        <4> QED BY <1>0, <3>1, <4>1, StoreSequenceStage DEF bootVars
      <3>2. CASE WriterLoads \/ (\E w \in Word : PublishWrite(w)) \/ Restart1
        BY <1>0, <3>2, LoadsStage, WriteStage, Restart1Stage DEF metadataVars, bootVars
      <3>3. CASE PublishStoreActive
        BY <1>0, <3>3, StoreActiveStage DEF bootVars
      <3> QED BY <1>4, <3>1, <3>2, <3>3
    <2>2. Known(copy.crc) => Known(copy.crc)'
      <3>1. \A r \in Record \cup {NoRecord} : Known(r) => Known(r)'
        BY <1>4, KnownStep
      <3> QED BY <1>0, <2>1, <3>1 DEF Known, readerVars, pollVars
    <2>3. sequence' \in Nat
      <3>1. sequence' \in {sequence, prepared.seq}
        BY <1>4, LoadsStage, WriteStage, StoreActiveStage, StoreSequenceStage,
           Restart1Stage DEF metadataVars
      <3> QED BY <1>0, <3>1
    <2> QED BY <1>0, <2>1, <2>2, <2>3 DEF ReaderInv, NumberRead, readerVars, pollVars
  <1>5. CASE Poll
    <2>0. boot = "run"
      BY <1>5, ReaderStage DEF Poll, ReadActive, ReadSequence, ReadNothing, ReadCopy,
         ReadActiveAgain, ReadSequenceAgain, ReadAccept, ReadReject, ReaderInv
    <2>1. /\ boot = "run" /\ boot' = "run" /\ sequence' = sequence
          /\ \A r : Known(r)' <=> Known(r)
      BY <1>5, <2>0, PollFrame DEF bootVars, metadataVars, writerVars, Known, InFlight
    <2>2. CASE PollReturns
      <3>1. Known(copy'.crc)
        BY <2>2, NothingKnown, ReturnType
      <3> QED BY <2>1, <2>2, <3>1, ReturnType DEF ReaderInv, NumberRead, Known
    <2>3. CASE ReadActive
      BY <2>1, <2>3, ReaderStage DEF ReadActive, ReaderInv, NumberRead, Known
    <2>4. CASE ReadSequence
      <3>1. sequence > lastSequence
        BY <1>0, <2>1, <2>4 DEF ReadSequence, IsNew, LayoutInv
      <3>2. UNCHANGED <<copy, lastSequence>> /\ readSequence' = sequence
        BY <2>4 DEF ReadSequence
      <3> QED BY <1>0, <2>1, <3>1, <3>2 DEF ReaderInv, Known
    <2>5. ASSUME NEW w \in Word, ReadCopy(w)
          PROVE  ReaderInv'
      <3>1. slot[readActive] \in SlotType /\ readActive \in Index /\ copy \in SlotType
        BY DEF TypeOK
      <3>2. copy' = [copy EXCEPT ![w] = slot[readActive][w]]
        BY <2>5 DEF ReadCopy
      <3>3. copy'.crc = IF w = "crc" THEN slot[readActive].crc ELSE copy.crc
        BY ONLY <3>1, <3>2, WordMove, w \in Word
      <3>4. Known(slot[readActive].crc)
        BY <2>1, <3>1 DEF LayoutInv, SlotInv
      <3>5. Known(copy'.crc)
        BY <2>1, <3>3, <3>4 DEF ReaderInv
      <3>6. NumberRead' => NumberRead
        BY <2>5, ReaderStage DEF ReadCopy, NumberRead, Word
      <3> QED BY <2>1, <2>5, <3>5, <3>6 DEF ReadCopy, ReaderInv, Known
    <2>6. CASE (ReadActiveAgain \/ ReadSequenceAgain) /\ ~ PollReturns
      <3>1. UNCHANGED <<reader, readSequence, copy, lastSequence>> /\ NumberRead
        BY <2>6 DEF ReadActiveAgain, ReadSequenceAgain, NumberRead
      <3> QED BY <2>1, <3>1 DEF ReaderInv, Known
    <2> QED BY <1>5, <2>2, <2>3, <2>4, <2>5, <2>6
        DEF Poll, ReadNothing, ReadAccept, ReadReject
  <1>6. CASE UNCHANGED vars
    BY <1>6 DEF vars, ReaderInv, NumberRead, readerVars, pollVars, bootVars,
       metadataVars, writerVars, historyVars, Known, InFlight
  <1> QED
    BY <1>1, <1>2, <1>3, <1>4, <1>5, <1>6
    DEF Next, Boot, BootRest, Attach, Publish, WriterLoads

LEMMA InvStep == IInv /\ [Next]_vars => IInv'
  <1> SUFFICES ASSUME IInv, [Next]_vars PROVE IInv'
    OBVIOUS
  <1>1. TypeOK'
    BY TypeStep DEF IInv
  <1>2. WriterInv'
    BY WriterStep DEF IInv
  <1>3. LayoutInv' /\ ReaderInv'
    BY LayoutStep, ReaderStep DEF IInv
  <1> QED BY <1>1, <1>2, <1>3 DEF IInv

-----------------------------------------------------------------------------
(* The refinement when either core may be reset.                           *)

\* What a poll has found under the number of the layout is the last record or
\* an abandoned one, and is new.
LEMMA PendingKnown ==
    ASSUME IInv, Pending # NoRecord
    PROVE  /\ boot = "run" /\ reader = "verify"
           /\ Pending = copy.crc /\ Pending.seq = readSequence
           /\ readSequence > lastSequence /\ readSequence =< sequence
           /\ latest.seq = sequence
           /\ readSequence = sequence => Pending \in {latest} \cup abandoned
  <1>1. reader = "verify" /\ RecordValid /\ Pending = Found
    BY DEF Pending
  <1>2. Found = copy.crc /\ Found.seq = readSequence
    BY <1>1 DEF RecordValid, Found
  <1>3. boot = "run" /\ readSequence > lastSequence /\ readSequence =< sequence
    BY <1>1 DEF IInv, ReaderInv, NumberRead
  <1>4. latest.seq = sequence
    BY <1>3 DEF IInv, LayoutInv
  <1>5. sequence # 0
    BY <1>3, CrcType DEF IInv
  <1>6. readSequence = sequence => copy.crc \in {latest} \cup abandoned
    BY <1>2, <1>3, <1>5 DEF IInv, ReaderInv, Known
  <1> QED BY <1>1, <1>2, <1>3, <1>4, <1>6

\* Finding the sequence unmoved is finding the record, if the copy is whole.
LEMMA AgainFinds ==
    ASSUME IInv, ReadSequenceAgain
    PROVE  Remnants!Find \/ Remnants!GiveUp \/ UNCHANGED Remnants!vars
  <1>0. UNCHANGED <<latest, lastSequence, abandoned, taken>>
    BY DEF ReadSequenceAgain, historyVars
  <1>1. Pending = NoRecord
    BY DEF ReadSequenceAgain, Pending
  <1>2. CASE Pending' = NoRecord
    BY <1>0, <1>1, <1>2 DEF Remnants!vars
  <1>3. CASE Pending' # NoRecord
    <2>1. /\ RecordValid' /\ reader' = "verify" /\ Pending' = Found'
      BY <1>3 DEF Pending
    <2>2. /\ sequence = readSequence /\ UNCHANGED <<reader, readSequence, copy>>
      BY <2>1 DEF ReadSequenceAgain, PollReturns
    <2>3. reader = "verify" /\ RecordValid /\ Found' = Found
      BY <2>1, <2>2 DEF RecordValid, Found
    <2>4. Found = copy.crc /\ Found.seq = readSequence
      BY <2>3 DEF RecordValid, Found
    <2>5. boot = "run" /\ readSequence > lastSequence
      BY <2>3 DEF IInv, ReaderInv, NumberRead
    <2>6. latest.seq = sequence /\ sequence # 0
      BY <2>2, <2>5, CrcType DEF IInv, LayoutInv
    <2>7. Found \in {latest} \cup {r \in abandoned : r.seq = latest.seq}
      BY <2>2, <2>4, <2>5, <2>6 DEF IInv, ReaderInv, Known
    <2>8. latest.seq # lastSequence
      BY <2>2, <2>5, <2>6, CrcType DEF IInv
    <2> QED BY <1>0, <1>1, <2>1, <2>3, <2>7, <2>8 DEF Remnants!Find
  <1> QED BY <1>2, <1>3

\* Accepting a copy takes what was found.
LEMMA AcceptTakes ==
    ASSUME IInv, ReadAccept
    PROVE  Remnants!Take
  <1>1. Pending = Found /\ Found.seq = readSequence /\ readSequence # 0
    <2>1. reader = "verify" /\ readTodo = {} /\ RecordValid
      BY DEF ReadAccept
    <2>2. readSequence > lastSequence
      BY <2>1 DEF IInv, ReaderInv, NumberRead
    <2> QED BY <2>1, <2>2, CrcType DEF Pending, Found, RecordValid, IInv
  <1>2. Found # NoRecord
    BY <1>1 DEF NoRecord
  <1>3. /\ taken' = Found /\ lastSequence' = Found.seq /\ UNCHANGED <<latest, abandoned>>
    BY DEF ReadAccept, Found
  <1>4. Pending' = NoRecord
    BY DEF ReadAccept, PollReturns, Pending
  <1> QED BY <1>1, <1>2, <1>3, <1>4 DEF Remnants!Take

\* The steps of CM7_1 and of the boot leave the poll alone.
LEMMA SamePending == UNCHANGED pollVars => Pending' = Pending
  BY DEF pollVars, Pending, Found, RecordValid

\* Storing the sequence is publishing the record.
LEMMA StorePublishes ==
    ASSUME IInv, PublishStoreSequence
    PROVE  Remnants!Publish
  <1>1. prepared \in Record /\ prepared.seq > sequence
    BY StoreSequenceStage DEF IInv, WriterInv, Numbered
  <1>2. /\ prepared.seq \in Nat /\ sequence \in Nat /\ lastSequence \in Nat
        /\ latest.seq \in Nat
    BY CrcType DEF IInv
  <1>3. lastSequence =< sequence /\ latest.seq =< sequence
    BY <1>2 DEF IInv, LayoutInv, ReaderInv
  <1>4. /\ latest' = prepared /\ lastSequence' = lastSequence
        /\ UNCHANGED <<abandoned, taken>> /\ Pending' = Pending
    BY StoreSequenceStage, SamePending DEF readerVars
  <1> QED BY <1>1, <1>2, <1>3, <1>4 DEF Remnants!Publish

\* A reset of CM7_1 abandons the record in flight or is not noticed.
LEMMA RestartAbandons ==
    ASSUME IInv, Restart1
    PROVE  Remnants!Abandon \/ UNCHANGED Remnants!vars
  <1>1. UNCHANGED <<latest, lastSequence, taken>> /\ Pending' = Pending
    BY Restart1Stage, SamePending DEF readerVars
  <1>2. CASE InFlight
    <2>1. prepared \in Record /\ prepared.seq > sequence /\ latest.seq =< sequence
      BY <1>2 DEF IInv, WriterInv, Numbered, LayoutInv
    <2>2. prepared.seq \in Nat /\ sequence \in Nat /\ latest.seq \in Nat
      BY CrcType DEF IInv
    <2>3. abandoned' = abandoned \cup {prepared}
      BY <1>2, Restart1Stage
    <2> QED BY <1>1, <2>1, <2>2, <2>3 DEF Remnants!Abandon
  <1>3. CASE ~ InFlight
    BY <1>1, <1>3, Restart1Stage DEF Remnants!vars
  <1> QED BY <1>2, <1>3

\* A boot of CM7_0 forgets the records.
LEMMA BootResets ==
    ASSUME IInv, BootBegin \/ Restart0
    PROVE  Remnants!Reset
  <1>1. CASE BootBegin
    <2>1. Pending' = NoRecord /\ lastSequence' = 0
      BY <1>1 DEF BootBegin, readerVars, pollVars, IInv, ReaderInv, Pending
    <2> QED BY <1>1, <2>1 DEF BootBegin, NoRecord, Remnants!Reset
  <1>2. CASE Restart0
    <2>1. Pending' = NoRecord
      BY <1>2 DEF Restart0, PollReturns, Pending
    <2> QED BY <1>2, <2>1 DEF Restart0, NoRecord, Remnants!Reset
  <1> QED BY <1>1, <1>2

\* A poll that returns without a record may forget what it had found.
LEMMA PollGivesUp ==
    ASSUME IInv, Poll, ~ ReadAccept, ~ ReadSequenceAgain
    PROVE  Remnants!GiveUp \/ UNCHANGED Remnants!vars
  <1>1. UNCHANGED <<latest, lastSequence, abandoned, taken>>
    BY PollFrame
  <1>2. CASE PollReturns
    <2>1. Pending' = NoRecord
      BY <1>2 DEF PollReturns, Pending
    <2> QED BY <1>1, <2>1 DEF Remnants!GiveUp
  <1>3. CASE ReadActiveAgain /\ ~ PollReturns
    <2>1. Pending' = Pending
      BY <1>3 DEF ReadActiveAgain, Pending, Found, RecordValid
    <2> QED BY <1>1, <2>1 DEF Remnants!vars
  <1>4. ASSUME NEW access \in Metadata \cup Word, ReadLoads(access)
        PROVE  Remnants!GiveUp \/ UNCHANGED Remnants!vars
    <2>1. Pending = NoRecord /\ Pending' = NoRecord
      BY <1>4, ReaderStage DEF Pending, Metadata
    <2> QED BY <1>1, <2>1 DEF Remnants!vars
  <1>5. \/ PollReturns \/ ReadActiveAgain
        \/ \E access \in Metadata \cup Word : ReadLoads(access)
    BY DEF Poll, ReadActive, ReadSequence, ReadNothing, ReadCopy, ReadReject, Metadata
  <1> QED BY <1>2, <1>3, <1>4, <1>5

\* All other steps leave the register alone.
LEMMA OtherSteps ==
    ASSUME IInv,
           \/ BootRest \/ WriterLoads \/ (\E w \in Word : PublishWrite(w))
           \/ PublishStoreActive \/ UNCHANGED vars
    PROVE  UNCHANGED <<latest, lastSequence, abandoned, taken, pollVars>>
  <1>1. CASE BootRest
    BY <1>1 DEF IInv, ReaderInv, BootRest, BootClearWord, BootCleared, BootStore,
       BootDone, readerVars, historyVars
  <1>2. CASE WriterLoads \/ (\E w \in Word : PublishWrite(w)) \/ PublishStoreActive
    BY <1>2, LoadsStage, WriteStage, StoreActiveStage DEF IInv, readerVars, historyVars
  <1>3. CASE UNCHANGED vars
    BY <1>3 DEF vars, readerVars, historyVars
  <1> QED BY <1>1, <1>2, <1>3

LEMMA StepSimulates ==
    ASSUME IInv, [Next]_vars
    PROVE  [Remnants!Next]_(Remnants!vars)
  <1>1. CASE BootBegin \/ Restart0
    BY <1>1, BootResets DEF Remnants!Next
  <1>2. CASE PublishStoreSequence
    BY <1>2, StorePublishes DEF Remnants!Next
  <1>3. CASE ReadAccept
    BY <1>3, AcceptTakes DEF Remnants!Next
  <1>4. CASE ReadSequenceAgain
    BY <1>4, AgainFinds DEF Remnants!Next
  <1>5. CASE Poll /\ ~ ReadAccept /\ ~ ReadSequenceAgain
    BY <1>5, PollGivesUp DEF Remnants!Next
  <1>6. CASE Restart1
    BY <1>6, RestartAbandons DEF Remnants!Next
  <1>7. CASE \/ BootRest \/ WriterLoads \/ (\E w \in Word : PublishWrite(w))
             \/ PublishStoreActive \/ UNCHANGED vars
    BY <1>7, OtherSteps, SamePending DEF Remnants!vars
  <1> QED BY <1>1, <1>2, <1>3, <1>4, <1>5, <1>6, <1>7
    DEF Next, Boot, BootRest, Attach, Publish, WriterLoads

\* The channel under resets of either core at any step, for every number of
\* them and every order of the accesses between two barriers: a poll that
\* returns OK returns a whole record, the last published one or one of the
\* same number that a reset of CM7_1 left behind, and each number at most
\* once.
THEOREM RemnantRefinement == Spec => ImplementsRemnants
  <1>1. Init => Remnants!Init
    BY DEF Init, NoRecord, Pending, Remnants!Init
  <1>2. IInv /\ [Next]_vars => IInv'
    BY InvStep
  <1>3. IInv /\ [Next]_vars => [Remnants!Next]_(Remnants!vars)
    BY StepSimulates
  <1> QED
    BY <1>1, <1>2, <1>3, InvInit, PTL DEF Spec, ImplementsRemnants, Remnants!Spec

-----------------------------------------------------------------------------
(* The refinement when CM7_1 is not reset.                                 *)

\* Nothing is ever abandoned.
NoRemnant == abandoned = {}

LEMMA NoRemnantStep ==
    ASSUME MaxRestart = 0, IInv, NoRemnant, [Next]_vars
    PROVE  NoRemnant'
  <1> USE DEF NoRemnant
  <1>1. CASE BootBegin \/ Restart0
    BY <1>1 DEF BootBegin, Restart0
  <1>2. CASE PublishStoreSequence \/ Poll
    BY <1>2, StoreSequenceStage, PollFrame
  <1>3. CASE Restart1
    BY <1>3 DEF Restart1, IInv, TypeOK
  <1>4. CASE \/ BootRest \/ WriterLoads \/ (\E w \in Word : PublishWrite(w))
             \/ PublishStoreActive \/ UNCHANGED vars
    BY <1>4, OtherSteps
  <1> QED BY <1>1, <1>2, <1>3, <1>4 DEF Next, Boot, BootRest, Attach, Publish, WriterLoads

\* Without an abandoned record the weaker promise is the sharper one.
LEMMA RemnantIsRegister ==
    ASSUME IInv, NoRemnant, NoRemnant', [Remnants!Next]_(Remnants!vars)
    PROVE  [Register!Next]_(Register!vars)
  <1> USE DEF NoRemnant
  <1>1. CASE Remnants!Publish
    BY <1>1 DEF Remnants!Publish, Register!Publish, Register!Next
  <1>2. CASE Remnants!Abandon
    BY <1>2 DEF Remnants!Abandon
  <1>3. CASE Remnants!Find
    BY <1>3 DEF Remnants!Find, Register!Find, Register!Next
  <1>4. CASE Remnants!GiveUp
    BY <1>4 DEF Remnants!GiveUp, Register!GiveUp, Register!Next
  <1>5. CASE Remnants!Take
    <2>1. Pending # NoRecord
      BY <1>5 DEF Remnants!Take
    <2>2. (latest.seq # Pending.seq) <=> (latest # Pending)
      BY <2>1, PendingKnown
    <2>3. /\ taken' = Pending /\ (latest'.seq # lastSequence') = (latest # Pending)
          /\ Pending' = NoRecord /\ latest' = latest
      BY <1>5, <2>2 DEF Remnants!Take
    <2> QED BY <2>1, <2>3 DEF Register!Take, Register!Next
  <1>6. CASE Remnants!Reset
    BY <1>6 DEF Remnants!Reset, Register!Reset, Register!Next
  <1>7. CASE UNCHANGED Remnants!vars
    BY <1>7 DEF Remnants!vars, Register!vars
  <1> QED BY <1>1, <1>2, <1>3, <1>4, <1>5, <1>6, <1>7 DEF Remnants!Next

\* The channel implements the register: for every number of publishes and
\* CM7_0 boots, a poll that returns OK returns the whole record that was
\* published last at a moment of the poll, and no record twice, as long as
\* CM7_1 is not reset.
THEOREM RegisterRefinement ==
    ASSUME MaxRestart = 0
    PROVE  Spec => ImplementsRegister
  <1>1. Init => Register!Init /\ NoRemnant
    BY DEF Init, NoRecord, Pending, Register!Init, NoRemnant
  <1>2. IInv /\ NoRemnant /\ [Next]_vars => (IInv /\ NoRemnant)'
    BY InvStep, NoRemnantStep
  <1>3. IInv /\ NoRemnant /\ [Next]_vars => [Register!Next]_(Register!vars)
    BY StepSimulates, NoRemnantStep, RemnantIsRegister
  <1> QED
    BY <1>1, <1>2, <1>3, InvInit, PTL DEF Spec, ImplementsRegister, Register!Spec

-----------------------------------------------------------------------------
(* The order of the records, whichever core restarts.                      *)

\* The number of the record taken is the last one, or the one before a boot.
OrderInv == taken.seq = lastSequence

LEMMA OrderStep == IInv /\ OrderInv /\ [Next]_vars => OrderInv'
  <1> SUFFICES ASSUME IInv, OrderInv, [Next]_vars PROVE OrderInv'
    OBVIOUS
  <1> USE DEF OrderInv
  <1>1. CASE BootBegin
    BY <1>1 DEF BootBegin, readerVars
  <1>2. CASE Restart0
    BY <1>2 DEF Restart0, NoRecord
  <1>3. CASE PublishStoreSequence \/ Restart1
    BY <1>3, StoreSequenceStage, Restart1Stage DEF readerVars
  <1>4. CASE ReadAccept
    BY <1>4 DEF ReadAccept
  <1>5. CASE Poll /\ ~ ReadAccept
    BY <1>5, PollFrame
  <1>6. CASE \/ BootRest \/ WriterLoads \/ (\E w \in Word : PublishWrite(w))
             \/ PublishStoreActive \/ UNCHANGED vars
    BY <1>6, OtherSteps
  <1> QED BY <1>1, <1>2, <1>3, <1>4, <1>5, <1>6
    DEF Next, Boot, BootRest, Attach, Publish, WriterLoads

\* Within a boot of CM7_0 every poll that returns a record returns a newer one
\* than the polls before, wherever either core is reset: what half a publish
\* left behind may be skipped or taken, but never an older record.
THEOREM NewerOnly == Spec => TakesOnlyNewer
  <1> DEFINE I == IInv /\ OrderInv
  <1>1. Init => I
    BY InvInit DEF Init, OrderInv, NoRecord
  <1>2. I /\ [Next]_vars => I'
    BY InvStep, OrderStep
  <1>3. I /\ [Next]_vars
          => [(taken' # taken /\ boot' = "run") => taken'.seq > taken.seq]_vars
    <2> SUFFICES ASSUME I, Next, taken' # taken, boot' = "run"
                 PROVE  taken'.seq > taken.seq
      OBVIOUS
    <2>1. ReadAccept
      <3>1. ~ (BootBegin \/ Restart0)
        BY DEF BootBegin, Restart0
      <3>2. ~ (PublishStoreSequence \/ Restart1)
        BY StoreSequenceStage, Restart1Stage
      <3>3. ~ (Poll /\ ~ ReadAccept)
        BY PollFrame
      <3>4. ~ (\/ BootRest \/ WriterLoads \/ (\E w \in Word : PublishWrite(w))
               \/ PublishStoreActive)
        BY OtherSteps
      <3> QED BY <3>1, <3>2, <3>3, <3>4
        DEF Next, Boot, BootRest, Attach, Publish, WriterLoads
    <2>2. taken'.seq = readSequence
      BY <2>1 DEF ReadAccept, RecordValid
    <2>3. readSequence > lastSequence
      BY <2>1 DEF ReadAccept, IInv, ReaderInv, NumberRead
    <2> QED BY <2>2, <2>3 DEF OrderInv
  <1> QED BY <1>1, <1>2, <1>3, PTL DEF Spec, TakesOnlyNewer
=============================================================================
