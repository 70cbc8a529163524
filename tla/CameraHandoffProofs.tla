------------------------- MODULE CameraHandoffProofs -------------------------
(***************************************************************************)
(* Proofs about CameraHandoff for every picture size, every number of      *)
(* frames and every number of restarts.                                    *)
(***************************************************************************)
EXTENDS CameraHandoff, TLAPS

\* The service numbers no more captures than there were exposures.
CountInv ==
    /\ producer \in {"reset", "layout", "dark"} => ~ finish /\ image = 0
    /\ producer # "reset" => captured <= image /\ (finish => captured < image)

\* Epochs only grow, and no boot happens under a reader.
EpochInv ==
    /\ attached <= epoch
    /\ IF producer = "reset" THEN epoch < MaxEpoch ELSE epoch # 0
    /\ cameraEpoch \in {0, epoch}
    /\ Holding \/ consumer = "scan" =>
         epoch = attached /\ cameraEpoch = attached /\ attached # 0
    /\ consumer \in {"network", "acquire"} => attached # 0

\* Who owns which slot.
OwnInv ==
    /\ producer \in {"copy", "publish"} =>
         scan0 \in Slot /\ state[scan0] = "WRITING"
    /\ consumer = "scan" /\ view # NoView =>
         /\ view.slot \in Slot /\ state[view.slot] = "READY"
         /\ sequence[view.slot] = view.seq
    /\ consumer \in {"idle", "network", "acquire"} => view = NoView
    /\ Holding =>
         /\ view.slot \in Slot /\ state[view.slot] = "READING"
         /\ sequence[view.slot] = view.seq
    /\ \A s \in Slot : attached # 0 /\ state[s] = "READING" =>
         Holding /\ view.slot = s

\* Sequence numbers tell published frames apart, by age.
OrderInv ==
    /\ \A s \in Slot : sequence[s] <= captured
    /\ producer \in {"claim", "copy", "publish"} => captured > 0
    /\ producer \in {"claim", "copy"} => \A s \in Slot : sequence[s] < captured
    /\ producer = "publish" =>
         /\ sequence[scan0] = captured
         /\ \A s \in Slot : s # scan0 => sequence[s] < captured
    /\ \A s \in Slot : state[s] = "READY" => sequence[s] > 0
    /\ \A s, t \in Slot :
         s # t /\ state[s] = "READY" => sequence[s] # sequence[t]
    /\ attached # 0 /\ attached = epoch =>
         /\ lastConsumed <= captured
         /\ producer \in {"claim", "copy", "publish"} => lastConsumed < captured
         /\ \A s \in Slot : state[s] = "READY" => sequence[s] > lastConsumed

\* Published pixels are whole.
PixelInv ==
    /\ \A s \in Slot : state[s] \in {"READY", "READING"} =>
         \A v, w \in Word : pixels[s][v] = pixels[s][w]
    /\ producer = "copy" => \A w \in copied : pixels[scan0][w] = image
    /\ producer = "publish" => \A w \in Word : pixels[scan0][w] = image
    /\ consumer = "read" => \A a \in seen : \A w \in Word : pixels[view.slot][w] = a
    /\ FrameIsWhole

IInv == TypeOK /\ CountInv /\ EpochInv /\ OwnInv /\ OrderInv /\ InOrder /\ PixelInv

-----------------------------------------------------------------------------
(* Type correctness.                                                       *)

LEMMA SlotType == /\ NoSlot = 2 /\ NoSlot \notin Slot
                  /\ Slot \subseteq 0..SlotCount
                  /\ \A s \in 0..SlotCount : s # NoSlot => s \in Slot
  BY DEF NoSlot, Slot, SlotCount

LEMMA InitInv == Init => IInv
  <1> SUFFICES ASSUME Init PROVE IInv
    OBVIOUS
  <1>1. TypeOK
    <2>1. state \in [Slot -> {"FREE", "WRITING", "READY", "READING"}]
      BY DEF Init
    <2>2. NoView \in [slot : 0..SlotCount, seq : 0..MaxFrame]
      BY CameraAssumption DEF NoView, NoSlot, SlotCount
    <2>3. pixels \in [Slot -> [Word -> 0..MaxFrame]]
      BY CameraAssumption DEF Init
    <2>4. finish \in BOOLEAN /\ link \in BOOLEAN
      BY DEF Init
    <2> QED
      BY <2>1, <2>2, <2>3, <2>4, CameraAssumption DEF Init, TypeOK, SlotCount
  <1>2. \A s \in Slot : state[s] = "FREE" /\ sequence[s] = 0
    BY DEF Init
  <1>3. CountInv /\ EpochInv /\ OwnInv /\ OrderInv /\ InOrder
    BY <1>2, CameraAssumption DEF Init, CountInv, EpochInv, OwnInv, OrderInv, InOrder, Holding
  <1>4. PixelInv
    BY <1>2 DEF Init, PixelInv, FrameIsWhole
  <1> QED BY <1>1, <1>3, <1>4 DEF IInv

LEMMA CountStep == IInv /\ [Next]_vars => CountInv'
  <1> SUFFICES ASSUME IInv, [Next]_vars PROVE CountInv'
    OBVIOUS
  <1> USE DEF IInv, CountInv, sharedVars, producerVars, consumerVars
  <1>0. image \in Nat /\ captured \in Nat /\ MaxFrame \in Nat
    BY CameraAssumption DEF TypeOK
  <1>1. CASE Restart0 \/ BootLayout \/ BootCamera \/ CameraStarts
    BY <1>0, <1>1 DEF Restart0, BootLayout, BootCamera, CameraStarts
  <1>2. CASE Capture
    BY <1>0, <1>2 DEF Capture
  <1>3. ASSUME NEW due \in BOOLEAN, Record(due) PROVE CountInv'
    BY <1>0, <1>3 DEF Record
  <1>4. CASE ClaimSlot \/ ClaimNext \/ ClaimNone
    BY <1>0, <1>4 DEF ClaimSlot, ClaimNext, ClaimNone
  <1>5. ASSUME NEW w \in Word, CopyWord(w) PROVE CountInv'
    BY <1>0, <1>5 DEF CopyWord
  <1>6. CASE PublishFields \/ PublishReady
    BY <1>0, <1>6 DEF PublishFields, PublishReady
  <1>7. CASE UNCHANGED <<captured, producerVars>>
    BY <1>0, <1>7
  <1>8. CASE Consumer \/ Restart1 \/ UNCHANGED vars
    <2>1. UNCHANGED <<captured, producerVars>>
      BY <1>8 DEF Consumer, Restart1, vars, Attach, Serve, Network,
         AcquireRefused, AcquireBegin, Scan, NoFrame, Take, DropStale, Read,
         Leave, Sent, Release
    <2> QED BY <1>7, <2>1
  <1> QED
    BY <1>1, <1>2, <1>3, <1>4, <1>5, <1>6, <1>8 DEF Next, Producer

LEMMA TypeStep == IInv /\ [Next]_vars => TypeOK'
  <1> SUFFICES ASSUME IInv, [Next]_vars PROVE TypeOK'
    OBVIOUS
  <1> USE DEF IInv, TypeOK, sharedVars, producerVars, consumerVars
  <1> USE CameraAssumption
  <1>0. captured' \in 0..MaxFrame
    <2>1. captured' = captured \/ captured' = 0 \/ (producer = "idle" /\ finish /\ captured' = captured + 1)
      BY DEF Next, Producer, Consumer, Restart1, vars, Attach, Serve, Network,
         AcquireRefused, AcquireBegin, Scan, NoFrame, Take, DropStale, Read,
         Leave, Sent, Release, Restart0, BootLayout, BootCamera, CameraStarts,
         Capture, Record, ClaimSlot, ClaimNext, ClaimNone, CopyWord,
         PublishFields, PublishReady
    <2> QED BY <2>1 DEF CountInv
  <1>00. finish' \in BOOLEAN /\ 0 \in 0..SlotCount
    <2>1. finish' = finish \/ finish' = TRUE \/ finish' = FALSE
      BY DEF Next, Producer, Consumer, Restart1, vars, Attach, Serve, Network,
         AcquireRefused, AcquireBegin, Scan, NoFrame, Take, DropStale, Read,
         Leave, Sent, Release, Restart0, BootLayout, BootCamera, CameraStarts,
         Capture, Record, ClaimSlot, ClaimNext, ClaimNone, CopyWord,
         PublishFields, PublishReady
    <2>2. finish \in BOOLEAN
      OBVIOUS
    <2>3. finish' \in BOOLEAN
      BY <2>1, <2>2, Zenon
    <2>4. 0 \in 0..SlotCount
      BY DEF SlotCount
    <2> QED BY <2>3, <2>4
  <1>1. CASE Restart0
    BY <1>00, <1>1 DEF Restart0
  <1>2. CASE BootLayout \/ BootCamera
    <2>1. state' \in [Slot -> {"FREE", "WRITING", "READY", "READING"}]
      BY <1>2 DEF BootLayout, BootCamera
    <2>2. epoch' \in 0..MaxEpoch /\ cameraEpoch' \in 0..MaxEpoch
      BY <1>2 DEF BootLayout, BootCamera, EpochInv
    <2>3. sequence' \in [Slot -> 0..MaxFrame]
      BY <1>2 DEF BootLayout, BootCamera
    <2> QED BY <1>0, <1>00, <1>2, <2>1, <2>2, <2>3 DEF BootLayout, BootCamera
  <1>3. CASE CameraStarts \/ Capture
    <2>1. image' \in 0..MaxFrame
      BY <1>3 DEF CameraStarts, Capture
    <2> QED BY <1>00, <1>3, <2>1 DEF CameraStarts, Capture
  <1>4. ASSUME NEW due \in BOOLEAN, Record(due) PROVE TypeOK'
    BY <1>0, <1>00, <1>4 DEF Record
  <1>5. CASE ClaimSlot \/ ClaimNext \/ ClaimNone
    <2>1. scan0' \in 0..SlotCount
      BY <1>5 DEF ClaimSlot, ClaimNext, ClaimNone, Slot, SlotCount
    <2>2. state' \in [Slot -> {"FREE", "WRITING", "READY", "READING"}]
      BY <1>5 DEF ClaimSlot, ClaimNext, ClaimNone
    <2>3. copied' \subseteq Word
      BY <1>5 DEF ClaimSlot, ClaimNext, ClaimNone
    <2>4. producer' \in {"idle", "claim", "copy"}
      BY <1>5 DEF ClaimSlot, ClaimNext, ClaimNone
    <2> QED
      BY <1>5, <2>1, <2>2, <2>3, <2>4 DEF ClaimSlot, ClaimNext, ClaimNone
  <1>6. ASSUME NEW w \in Word, CopyWord(w) PROVE TypeOK'
    <2>1. pixels' \in [Slot -> [Word -> 0..MaxFrame]]
      BY <1>6 DEF CopyWord
    <2>2. copied' \subseteq Word
      BY <1>6 DEF CopyWord
    <2> QED BY <1>6, <2>1, <2>2 DEF CopyWord
  <1>7. CASE PublishFields
    <2>1. sequence' \in [Slot -> 0..MaxFrame]
      BY <1>7 DEF PublishFields
    <2> QED BY <1>7, <2>1 DEF PublishFields
  <1>71. CASE PublishReady
    <2>1. state' \in [Slot -> {"FREE", "WRITING", "READY", "READING"}]
      BY <1>71 DEF PublishReady
    <2> QED BY <1>00, <1>71, <2>1 DEF PublishReady
  <1>8. CASE Restart1
    <2>1. NoView \in [slot : 0..SlotCount, seq : 0..MaxFrame]
      BY DEF NoView, NoSlot, SlotCount
    <2>2. link' \in BOOLEAN
      BY <1>8 DEF Restart1
    <2>3. restarts' \in 0..MaxRestart
      BY <1>8 DEF Restart1
    <2> QED BY <1>00, <1>8, <2>1, <2>2, <2>3 DEF Restart1
  <1>9. CASE Attach
    <2>1. state' \in [Slot -> {"FREE", "WRITING", "READY", "READING"}]
      BY <1>9 DEF Attach
    <2> QED BY <1>9, <2>1 DEF Attach
  <1>10. CASE Serve
    BY <1>10 DEF Serve
  <1>11. ASSUME NEW up \in BOOLEAN, Network(up) PROVE TypeOK'
    <2>1. link' \in BOOLEAN
      BY <1>11 DEF Network
    <2> QED BY <1>11, <2>1 DEF Network
  <1>12. CASE AcquireRefused \/ NoFrame
    <2>1. attached' \in 0..MaxEpoch
      BY <1>12 DEF AcquireRefused, NoFrame
    <2> QED BY <1>12, <2>1 DEF AcquireRefused, NoFrame
  <1>13. CASE AcquireBegin
    <2>1. NoView \in [slot : 0..SlotCount, seq : 0..MaxFrame]
      BY DEF NoView, NoSlot, SlotCount
    <2> QED BY <1>13, <2>1 DEF AcquireBegin, SlotCount
  <1>14. CASE Scan
    <2>1. scan1 \in 0..SlotCount /\ sequence[scan1] \in 0..MaxFrame
      BY <1>14, SlotType DEF Scan
    <2>2. view' \in [slot : 0..SlotCount, seq : 0..MaxFrame]
      BY <1>14, <2>1 DEF Scan
    <2> QED BY <1>14, <2>2 DEF Scan, Slot, SlotCount
  <1>15. CASE Take
    BY <1>15 DEF Take
  <1>16. ASSUME NEW old \in BOOLEAN, DropStale(old) PROVE TypeOK'
    <2>1. state' \in [Slot -> {"FREE", "WRITING", "READY", "READING"}]
      BY <1>16 DEF DropStale
    <2> QED BY <1>16, <2>1 DEF DropStale
  <1>17. ASSUME NEW w \in Word, Read(w) PROVE TypeOK'
    <2>1. view.slot \in Slot
      BY <1>17 DEF Read, OwnInv, Holding
    <2>2. pixels[view.slot][w] \in 0..MaxFrame
      BY <2>1
    <2> QED BY <1>17, <2>2 DEF Read
  <1>18. ASSUME NEW ok \in BOOLEAN, Sent(ok) PROVE TypeOK'
    <2>1. link' \in BOOLEAN
      BY <1>18 DEF Sent
    <2> QED BY <1>18, <2>1 DEF Sent
  <1>19. CASE Release
    <2>1. view.seq \in 0..MaxFrame
      OBVIOUS
    <2>2. NoView \in [slot : 0..SlotCount, seq : 0..MaxFrame]
      BY DEF NoView, NoSlot, SlotCount
    <2> QED BY <1>19, <2>1, <2>2 DEF Release
  <1>20. CASE UNCHANGED vars
    BY <1>20 DEF vars
  <1> QED
    BY <1>1, <1>2, <1>3, <1>4, <1>5, <1>6, <1>7, <1>71, <1>8, <1>9, <1>10,
       <1>11, <1>12, <1>13, <1>14, <1>15, <1>16, <1>17, <1>18, <1>19, <1>20
    DEF Next, Producer, Consumer, Leave

-----------------------------------------------------------------------------
(* Epochs and slot ownership.                                              *)

LEMMA EpochStep == IInv /\ [Next]_vars => EpochInv'
  <1> SUFFICES ASSUME IInv, [Next]_vars PROVE EpochInv'
    OBVIOUS
  <1> USE DEF IInv, EpochInv, Holding, Reading1, sharedVars, producerVars, consumerVars
  <1>0. /\ epoch \in 0..MaxEpoch /\ attached \in 0..MaxEpoch /\ MaxEpoch \in Nat
        /\ cameraEpoch \in 0..MaxEpoch
    BY CameraAssumption DEF TypeOK
  <1>1. CASE Restart0 \/ BootLayout \/ BootCamera \/ CameraStarts
    BY <1>0, <1>1 DEF Restart0, BootLayout, BootCamera, CameraStarts
  <1>2. ASSUME UNCHANGED <<epoch, cameraEpoch, consumerVars>>,
               producer' # "reset", producer # "reset"
        PROVE  EpochInv'
    BY <1>0, <1>2
  <1>3. CASE \/ Capture \/ \E due \in BOOLEAN : Record(due)
             \/ ClaimSlot \/ ClaimNext \/ ClaimNone
             \/ \E w \in Word : CopyWord(w)
             \/ PublishFields \/ PublishReady
    <2>1. UNCHANGED <<epoch, cameraEpoch, consumerVars>>
      BY <1>3 DEF Capture, Record, ClaimSlot, ClaimNext, ClaimNone, CopyWord,
         PublishFields, PublishReady
    <2>2. producer' # "reset" /\ producer # "reset"
      BY <1>3 DEF Capture, Record, ClaimSlot, ClaimNext, ClaimNone, CopyWord,
         PublishFields, PublishReady
    <2> QED BY <1>2, <2>1, <2>2
  <1>4. CASE Restart1 \/ Attach \/ Serve \/ AcquireRefused \/ AcquireBegin
    BY <1>0, <1>4 DEF Restart1, Attach, Serve, AcquireRefused, AcquireBegin
  <1>5. CASE \/ \E up \in BOOLEAN : Network(up)
             \/ Scan \/ NoFrame \/ Take
             \/ \E old \in BOOLEAN : DropStale(old)
             \/ \E w \in Word : Read(w)
             \/ Leave \/ Release
    <2>1. UNCHANGED <<epoch, cameraEpoch, attached, producer>>
      BY <1>5 DEF Network, Scan, NoFrame, Take, DropStale, Read, Leave, Sent, Release
    <2>2. \/ consumer = "network" /\ consumer' = "acquire"
          \/ Holding \/ consumer = "scan"
      BY <1>5 DEF Network, Scan, NoFrame, Take, DropStale, Read, Leave, Sent, Release
    <2>3. consumer' # "network"
      BY <1>5 DEF Network, Scan, NoFrame, Take, DropStale, Read, Leave, Sent, Release
    <2> QED BY <2>1, <2>2, <2>3
  <1>6. CASE UNCHANGED vars
    BY <1>6 DEF vars
  <1> QED
    BY <1>1, <1>3, <1>4, <1>5, <1>6 DEF Next, Producer, Consumer

LEMMA OwnStep == IInv /\ [Next]_vars => OwnInv'
  <1> SUFFICES ASSUME IInv, [Next]_vars PROVE OwnInv'
    OBVIOUS
  <1> USE DEF IInv, OwnInv, Holding, Reading1, sharedVars, producerVars, consumerVars
  <1>0. /\ state \in [Slot -> {"FREE", "WRITING", "READY", "READING"}]
        /\ sequence \in [Slot -> 0..MaxFrame]
    BY DEF TypeOK
  <1>1. CASE Restart0 \/ CameraStarts \/ Capture
    BY <1>1 DEF Restart0, CameraStarts, Capture
  <1>2. CASE BootLayout \/ BootCamera
    <2>1. \A s \in Slot : state'[s] = "FREE"
      BY <1>2 DEF BootLayout, BootCamera
    <2>2. UNCHANGED consumerVars /\ consumer \in {"idle", "network"}
      BY <1>2 DEF BootLayout, BootCamera, TypeOK
    <2>3. producer' \in {"layout", "dark"}
      BY <1>2 DEF BootLayout, BootCamera
    <2> QED BY <2>1, <2>2, <2>3
  <1>3. ASSUME NEW due \in BOOLEAN, Record(due) PROVE OwnInv'
    BY <1>3 DEF Record
  <1>4. CASE ClaimSlot
    BY <1>0, <1>4 DEF ClaimSlot
  <1>5. CASE ClaimNext \/ ClaimNone
    BY <1>5 DEF ClaimNext, ClaimNone
  <1>6. ASSUME NEW w \in Word, CopyWord(w) PROVE OwnInv'
    BY <1>6 DEF CopyWord
  <1>7. CASE PublishFields
    BY <1>0, <1>7 DEF PublishFields
  <1>8. CASE PublishReady
    BY <1>0, <1>8 DEF PublishReady
  <1>9. CASE Restart1
    BY <1>9 DEF Restart1
  <1>10. CASE Attach
    BY <1>0, <1>10 DEF Attach
  <1>11. CASE Serve \/ AcquireRefused \/ AcquireBegin \/ NoFrame
    BY <1>11 DEF Serve, AcquireRefused, AcquireBegin, NoFrame
  <1>12. ASSUME NEW up \in BOOLEAN, Network(up) PROVE OwnInv'
    BY <1>12 DEF Network
  <1>13. CASE Scan
    <2>1. scan1 \in Slot /\ consumer = "scan"
      BY <1>13 DEF Scan
    <2>2. view' # NoView =>
            /\ view'.slot \in Slot /\ state[view'.slot] = "READY"
            /\ sequence[view'.slot] = view'.seq
      <3>1. CASE Better(scan1)
        BY <1>13, <2>1, <3>1 DEF Scan, Better
      <3>2. CASE ~ Better(scan1)
        BY <1>13, <2>1, <3>2 DEF Scan
      <3> QED BY <3>1, <3>2
    <2> QED BY <1>13, <2>1, <2>2 DEF Scan
  <1>14. CASE Take
    BY <1>0, <1>14 DEF Take
  <1>15. ASSUME NEW old \in BOOLEAN, DropStale(old) PROVE OwnInv'
    BY <1>0, <1>15 DEF DropStale, Stale
  <1>16. ASSUME NEW w \in Word, Read(w) PROVE OwnInv'
    BY <1>16 DEF Read
  <1>17. ASSUME NEW ok \in BOOLEAN, Sent(ok) PROVE OwnInv'
    BY <1>17 DEF Sent
  <1>18. CASE Release
    BY <1>0, <1>18 DEF Release
  <1>19. CASE UNCHANGED vars
    BY <1>19 DEF vars
  <1> QED
    BY <1>1, <1>2, <1>3, <1>4, <1>5, <1>6, <1>7, <1>8, <1>9, <1>10, <1>11,
       <1>12, <1>13, <1>14, <1>15, <1>16, <1>17, <1>18, <1>19
    DEF Next, Producer, Consumer, Leave

-----------------------------------------------------------------------------
(* The order of frames.                                                    *)

LEMMA OrderStep == IInv /\ [Next]_vars => OrderInv' /\ InOrder'
  <1> SUFFICES ASSUME IInv, [Next]_vars PROVE OrderInv' /\ InOrder'
    OBVIOUS
  <1> USE DEF IInv, OrderInv, InOrder, Holding, Reading1, sharedVars,
          producerVars, consumerVars
  <1>0. /\ state \in [Slot -> {"FREE", "WRITING", "READY", "READING"}]
        /\ sequence \in [Slot -> 0..MaxFrame] /\ MaxFrame \in Nat
        /\ captured \in 0..MaxFrame /\ lastConsumed \in 0..MaxFrame
        /\ \A s \in Slot : sequence[s] \in Nat
        /\ view.seq \in Nat /\ epoch \in Nat /\ attached \in Nat
    BY CameraAssumption DEF TypeOK
  <1>1. CASE Restart0 \/ CameraStarts \/ Capture
    BY <1>0, <1>1 DEF Restart0, CameraStarts, Capture
  <1>2. CASE BootLayout
    <2>1. \A s \in Slot : state'[s] = "FREE" /\ sequence'[s] = 0
      BY <1>2 DEF BootLayout
    <2>2. attached' # epoch'
      BY <1>0, <1>2 DEF BootLayout, EpochInv
    <2> QED BY <1>0, <1>2, <2>1, <2>2 DEF BootLayout
  <1>3. CASE BootCamera
    <2>1. \A s \in Slot : state'[s] = "FREE" /\ sequence'[s] = 0
      BY <1>3 DEF BootCamera
    <2>2. captured' = 0 /\ captured = 0
      BY <1>0, <1>3 DEF BootCamera, CountInv, TypeOK
    <2> QED BY <1>0, <1>3, <2>1, <2>2 DEF BootCamera
  <1>4. ASSUME NEW due \in BOOLEAN, Record(due) PROVE OrderInv' /\ InOrder'
    BY <1>0, <1>4 DEF Record
  <1>5. CASE ClaimSlot
    BY <1>0, <1>5 DEF ClaimSlot
  <1>6. CASE ClaimNext \/ ClaimNone
    BY <1>0, <1>6 DEF ClaimNext, ClaimNone
  <1>7. ASSUME NEW w \in Word, CopyWord(w) PROVE OrderInv' /\ InOrder'
    BY <1>0, <1>7 DEF CopyWord
  <1>8. CASE PublishFields
    <2>1. scan0 \in Slot /\ state[scan0] = "WRITING"
      BY <1>8 DEF PublishFields, OwnInv
    <2> QED BY <1>0, <1>8, <2>1 DEF PublishFields
  <1>9. CASE PublishReady
    <2>1. scan0 \in Slot /\ state[scan0] = "WRITING"
      BY <1>9 DEF PublishReady, OwnInv
    <2>2. Holding => view.slot \in Slot /\ view.slot # scan0
                     /\ sequence[view.slot] = view.seq
      BY <2>1 DEF OwnInv
    <2>3. \A s \in Slot : s # scan0 => state'[s] = state[s]
      BY <1>0, <1>9, <2>1 DEF PublishReady
    <2> QED BY <1>0, <1>9, <2>1, <2>2, <2>3 DEF PublishReady
  <1>10. CASE Restart1
    BY <1>0, <1>10 DEF Restart1
  <1>11. CASE Attach
    <2>1. \A s \in Slot : state'[s] = "READY" => state[s] = "READY"
      BY <1>11 DEF Attach
    <2> QED BY <1>0, <1>11, <2>1 DEF Attach
  <1>12. CASE Serve \/ AcquireRefused \/ AcquireBegin \/ NoFrame
    BY <1>0, <1>12 DEF Serve, AcquireRefused, AcquireBegin, NoFrame
  <1>13. ASSUME NEW up \in BOOLEAN, Network(up) PROVE OrderInv' /\ InOrder'
    BY <1>0, <1>13 DEF Network
  <1>14. CASE Scan
    BY <1>0, <1>14 DEF Scan
  <1>15. CASE Take
    <2>1. /\ view.slot \in Slot /\ state[view.slot] = "READY"
          /\ sequence[view.slot] = view.seq
      BY <1>15 DEF Take, OwnInv
    <2>2. \A s \in Slot : state'[s] = "READY" => state[s] = "READY"
      BY <1>0, <1>15 DEF Take
    <2>3. view.seq > lastConsumed
      BY <1>15, <2>1 DEF Take, EpochInv
    <2> QED BY <1>0, <1>15, <2>2, <2>3 DEF Take
  <1>16. ASSUME NEW old \in BOOLEAN, DropStale(old) PROVE OrderInv' /\ InOrder'
    <2>1. /\ view.slot \in Slot /\ state[view.slot] = "READING"
          /\ sequence[view.slot] = view.seq
      BY <1>16 DEF DropStale, OwnInv
    <2>2. \A s \in Slot : state'[s] = "READY" =>
            state[s] = "READY" /\ s # view.slot /\ sequence[s] >= view.seq
      BY <1>0, <1>16, <2>1 DEF DropStale, Stale
    <2>3. \A s \in Slot : state'[s] = "READY" => sequence[s] > view.seq
      BY <1>0, <2>1, <2>2
    <2> QED BY <1>0, <1>16, <2>2, <2>3 DEF DropStale
  <1>17. ASSUME NEW w \in Word, Read(w) PROVE OrderInv' /\ InOrder'
    BY <1>0, <1>17 DEF Read
  <1>18. ASSUME NEW ok \in BOOLEAN, Sent(ok) PROVE OrderInv' /\ InOrder'
    BY <1>0, <1>18 DEF Sent
  <1>19. CASE Release
    <2>1. /\ view.slot \in Slot /\ state[view.slot] = "READING"
          /\ sequence[view.slot] = view.seq
      BY <1>19 DEF Release, OwnInv
    <2>2. \A s \in Slot : state'[s] = "READY" => state[s] = "READY"
      BY <1>0, <1>19 DEF Release
    <2>3. producer \in {"copy", "publish"} => scan0 # view.slot
      BY <2>1 DEF OwnInv
    <2>4. /\ view.seq <= captured
          /\ producer \in {"claim", "copy", "publish"} => view.seq < captured
      BY <2>1, <2>3
    <2> QED BY <1>0, <1>19, <2>1, <2>2, <2>4 DEF Release
  <1>20. CASE UNCHANGED vars
    BY <1>0, <1>20 DEF vars
  <1> QED
    BY <1>1, <1>2, <1>3, <1>4, <1>5, <1>6, <1>7, <1>8, <1>9, <1>10, <1>11,
       <1>12, <1>13, <1>14, <1>15, <1>16, <1>17, <1>18, <1>19, <1>20
    DEF Next, Producer, Consumer, Leave

-----------------------------------------------------------------------------
(* The pixels.                                                             *)

LEMMA PixelStep == IInv /\ [Next]_vars => PixelInv'
  <1> SUFFICES ASSUME IInv, [Next]_vars PROVE PixelInv'
    OBVIOUS
  <1> USE DEF IInv, PixelInv, FrameIsWhole, Holding, Masked, Writing, sharedVars,
          producerVars, consumerVars
  <1>0. /\ state \in [Slot -> {"FREE", "WRITING", "READY", "READING"}]
        /\ pixels \in [Slot -> [Word -> 0..MaxFrame]]
    BY DEF TypeOK
  <1>1. CASE Restart0 \/ CameraStarts
    BY <1>1 DEF Restart0, CameraStarts
  <1>21. CASE Capture
    BY <1>21 DEF Capture
  <1>2. CASE BootLayout \/ BootCamera
    <2>1. \A s \in Slot : state'[s] = "FREE"
      BY <1>2 DEF BootLayout, BootCamera
    <2>2. UNCHANGED <<pixels, consumerVars>> /\ producer' \in {"layout", "dark"}
      BY <1>2 DEF BootLayout, BootCamera
    <2> QED BY <2>1, <2>2
  <1>3. ASSUME NEW due \in BOOLEAN, Record(due) PROVE PixelInv'
    BY <1>3 DEF Record
  <1>4. CASE ClaimSlot
    BY <1>0, <1>4 DEF ClaimSlot
  <1>5. CASE ClaimNext \/ ClaimNone
    BY <1>5 DEF ClaimNext, ClaimNone
  <1>6. ASSUME NEW w \in Word, CopyWord(w) PROVE PixelInv'
    <2>1. scan0 \in Slot /\ state[scan0] = "WRITING"
      BY <1>6 DEF CopyWord, OwnInv
    <2>2. \A s \in Slot : s # scan0 => pixels'[s] = pixels[s]
      BY <1>0, <1>6 DEF CopyWord
    <2>3. \A v \in copied' : pixels'[scan0][v] = image
      BY <1>0, <1>6, <2>1 DEF CopyWord, TypeOK
    <2>4. consumer = "read" => view.slot \in Slot /\ view.slot # scan0
      BY <2>1 DEF OwnInv
    <2> QED BY <1>6, <2>1, <2>2, <2>3, <2>4 DEF CopyWord
  <1>7. CASE PublishFields
    BY <1>7 DEF PublishFields
  <1>8. CASE PublishReady
    <2>1. scan0 \in Slot
      BY <1>8 DEF PublishReady, OwnInv
    <2> QED BY <1>0, <1>8, <2>1 DEF PublishReady
  <1>9. CASE Restart1
    BY <1>9 DEF Restart1
  <1>10. CASE Attach
    BY <1>10 DEF Attach
  <1>11. CASE Serve \/ AcquireRefused \/ AcquireBegin \/ NoFrame \/ Scan
    BY <1>11 DEF Serve, AcquireRefused, AcquireBegin, NoFrame, Scan
  <1>12. ASSUME NEW up \in BOOLEAN, Network(up) PROVE PixelInv'
    BY <1>12 DEF Network
  <1>13. CASE Take
    <2>1. view.slot \in Slot /\ state[view.slot] = "READY"
      BY <1>13 DEF Take, OwnInv
    <2>2. \A s \in Slot : state'[s] \in {"READY", "READING"} =>
            state[s] \in {"READY", "READING"}
      BY <1>0, <1>13, <2>1 DEF Take
    <2> QED BY <1>13, <2>2 DEF Take
  <1>14. ASSUME NEW old \in BOOLEAN, DropStale(old) PROVE PixelInv'
    BY <1>14 DEF DropStale
  <1>15. ASSUME NEW w \in Word, Read(w) PROVE PixelInv'
    <2>1. view.slot \in Slot /\ state[view.slot] = "READING"
      BY <1>15 DEF Read, OwnInv
    <2>2. \A a \in seen' : \A v \in Word : pixels[view.slot][v] = a
      BY <1>15, <2>1 DEF Read
    <2>3. \A a, b \in seen' : a = b
      BY <2>2
    <2> QED BY <1>15, <2>2, <2>3 DEF Read
  <1>16. ASSUME NEW ok \in BOOLEAN, Sent(ok) PROVE PixelInv'
    BY <1>16 DEF Sent
  <1>17. CASE Release
    <2>1. \A s \in Slot : state'[s] \in {"READY", "READING"} =>
            state[s] \in {"READY", "READING"}
      BY <1>0, <1>17 DEF Release
    <2> QED BY <1>17, <2>1 DEF Release
  <1>18. CASE UNCHANGED vars
    BY <1>18 DEF vars
  <1> QED
    BY <1>1, <1>2, <1>3, <1>4, <1>5, <1>6, <1>7, <1>8, <1>9, <1>10, <1>11,
       <1>12, <1>13, <1>14, <1>15, <1>16, <1>17, <1>18, <1>21
    DEF Next, Producer, Consumer, Leave

-----------------------------------------------------------------------------
(* The properties.                                                         *)

LEMMA Invariant == Spec => []IInv
  <1>1. IInv /\ [Next]_vars => IInv'
    BY TypeStep, CountStep, EpochStep, OwnStep, OrderStep, PixelStep DEF IInv
  <1> QED BY InitInv, <1>1, PTL DEF Spec

\* Every variable of the hand-over keeps its type.
THEOREM TypeCorrect == Spec => []TypeOK
  <1>1. IInv => TypeOK
    BY DEF IInv
  <1> QED BY Invariant, <1>1, PTL

\* No core touches a slot the other one owns, and no release is refused.
THEOREM Ownership == Spec => []FramesAreOwned
  <1>1. IInv => FramesAreOwned
    BY DEF IInv, FramesAreOwned, OwnInv, EpochInv, Writing, Releasable, Holding
  <1> QED BY Invariant, <1>1, PTL

\* The handler and the sender read one exposure, whatever its size.
THEOREM Whole == Spec => []FrameIsWhole
  <1>1. IInv => FrameIsWhole
    BY DEF IInv, PixelInv
  <1> QED BY Invariant, <1>1, PTL

\* CM7_1 takes frames in the order of their capture.
THEOREM Ordered == Spec => []InOrder
  <1>1. IInv => InOrder
    BY DEF IInv
  <1> QED BY Invariant, <1>1, PTL

\* No slot is held during a blocking network attempt.
THEOREM NetworkHoldsNothing == Spec => []ReconnectHoldsNoSlot
  <1>1. IInv => ReconnectHoldsNoSlot
    BY DEF IInv, ReconnectHoldsNoSlot, OwnInv, EpochInv, Holding
  <1> QED BY Invariant, <1>1, PTL

-----------------------------------------------------------------------------
(* The mailbox.                                                            *)

\* A layout that is being built offers nothing, and nothing seen of a frame
\* outlives it.
BuildInv ==
    /\ producer \in {"layout", "dark"} => \A s \in Slot : state[s] = "FREE"
    /\ consumer \notin {"read", "release"} => seen = {}

MInv == IInv /\ BuildInv

LEMMA BuildStep == MInv /\ [Next]_vars => BuildInv'
  <1> SUFFICES ASSUME MInv, [Next]_vars PROVE BuildInv'
    OBVIOUS
  <1> USE DEF MInv, IInv, BuildInv, sharedVars, producerVars, consumerVars
  <1>0. state \in [Slot -> {"FREE", "WRITING", "READY", "READING"}]
    BY DEF TypeOK
  <1>1. consumer' \notin {"read", "release"} => seen' = {}
    BY DEF Next, Producer, Consumer, Restart1, vars, Attach, Serve, Network,
       AcquireRefused, AcquireBegin, Scan, NoFrame, Take, DropStale, Read,
       Leave, Sent, Release, Restart0, BootLayout, BootCamera, CameraStarts,
       Capture, Record, ClaimSlot, ClaimNext, ClaimNone, CopyWord,
       PublishFields, PublishReady
  <1>2. CASE BootLayout \/ BootCamera
    BY <1>1, <1>2 DEF BootLayout, BootCamera
  <1>3. CASE \/ Restart0 \/ CameraStarts \/ Capture
             \/ \E due \in BOOLEAN : Record(due)
             \/ ClaimSlot \/ ClaimNext \/ ClaimNone
             \/ \E w \in Word : CopyWord(w)
             \/ PublishFields \/ PublishReady
    <2>1. producer' \notin {"layout", "dark"}
          \/ (Capture /\ UNCHANGED <<producer, state>>)
      BY <1>3 DEF Restart0, CameraStarts, Capture, Record, ClaimSlot, ClaimNext,
         ClaimNone, CopyWord, PublishFields, PublishReady
    <2> QED BY <1>1, <2>1
  <1>4. CASE Consumer \/ Restart1 \/ UNCHANGED vars
    <2>1. producer' = producer
      BY <1>4 DEF Consumer, Restart1, vars, Attach, Serve, Network,
         AcquireRefused, AcquireBegin, Scan, NoFrame, Take, DropStale, Read,
         Leave, Sent, Release
    <2>2. ASSUME producer \in {"layout", "dark"}
          PROVE  \A s \in Slot : state'[s] = "FREE"
      <3>1. \A s \in Slot : state[s] = "FREE"
        BY <2>2
      <3>2. consumer = "scan" => view = NoView
        BY <3>1 DEF OwnInv
      <3>3. ~ Holding
        BY <3>1 DEF OwnInv
      <3>4. ~ Take /\ ~ Release /\ \A old \in BOOLEAN : ~ DropStale(old)
        BY <3>2, <3>3 DEF Take, Release, DropStale, Holding
      <3>5. CASE Attach
        BY <3>1, <3>5 DEF Attach
      <3>6. CASE UNCHANGED state
        BY <3>1, <3>6
      <3> QED
        BY <1>4, <3>4, <3>5, <3>6 DEF Consumer, Restart1, vars, Serve, Network,
           AcquireRefused, AcquireBegin, Scan, NoFrame, Read, Leave, Sent
    <2> QED BY <1>1, <2>1, <2>2
  <1> QED
    BY <1>2, <1>3, <1>4 DEF Next, Producer

\* Steps that leave the published frames, or the held one, alone.
LEMMA ReadyKept ==
    ASSUME \A s \in Slot : state'[s] = "READY" <=> state[s] = "READY",
           \A s \in Slot : state[s] = "READY" =>
               sequence'[s] = sequence[s] /\ pixels'[s] = pixels[s]
    PROVE  Ready' = Ready
  BY DEF Ready, Frame

LEMMA HeldKept ==
    ASSUME Holding' <=> Holding,
           Holding => /\ view' = view
                      /\ sequence'[view.slot] = sequence[view.slot]
                      /\ pixels'[view.slot] = pixels[view.slot]
    PROVE  Held' = Held
  BY DEF Held, Frame, Empty

\* Holding a frame is what it looks like from outside.
LEMMA HeldSeen ==
    ASSUME IInv
    PROVE  /\ Holding => Held = Frame(view.slot) /\ Held.seq = view.seq /\ view.seq > 0
           /\ Holding <=> Held # Empty
  <1>1. ASSUME Holding
        PROVE  Held = Frame(view.slot) /\ Held.seq = view.seq /\ view.seq > 0
    <2>1. view.seq \in Nat /\ lastConsumed \in Nat /\ view.seq > lastConsumed
      BY <1>1 DEF IInv, TypeOK, InOrder
    <2> QED BY <1>1, <2>1 DEF Held, Frame, IInv, OwnInv
  <1>2. ~ Holding => Held = Empty
    BY DEF Held
  <1> QED BY <1>1, <1>2 DEF Empty

LEMMA MailboxInit == Init => Mailbox!Init
  <1> SUFFICES ASSUME Init PROVE Mailbox!Init
    OBVIOUS
  <1>1. Ready = {}
    BY DEF Init, Ready
  <1>2. Held = Mailbox!NoFrame
    BY DEF Init, Held, Holding, Empty, Mailbox!NoFrame, Mailbox!Picture
  <1>3. Last = 0
    BY DEF Init, Last
  <1> QED BY <1>1, <1>2, <1>3 DEF Init, Mailbox!Init

\* CM7_0 does with the mailbox what the promise lets it do.
LEMMA ProducerMaps ==
    ASSUME MInv, MInv', Producer \/ Capture \/ Restart0
    PROVE  [Mailbox!Next]_(Mailbox!vars)
  <1> USE DEF MInv, IInv, sharedVars, producerVars, consumerVars
  <1>0. /\ state \in [Slot -> {"FREE", "WRITING", "READY", "READING"}]
        /\ pixels \in [Slot -> [Word -> 0..MaxFrame]]
        /\ sequence \in [Slot -> 0..MaxFrame]
        /\ epoch \in Nat /\ attached \in Nat
    BY CameraAssumption DEF TypeOK
  <1>1. UNCHANGED consumerVars /\ Holding' = Holding
    BY DEF Producer, Capture, Restart0, BootLayout, BootCamera, CameraStarts,
       Record, ClaimSlot, ClaimNext, ClaimNone, CopyWord, PublishFields,
       PublishReady, Holding
  <1>2. Held = Empty <=> ~ Holding
    BY HeldSeen
  <1>3. Mailbox!NoFrame = Empty
    BY DEF Mailbox!NoFrame, Mailbox!Picture, Empty
  <1>4. epoch' = epoch => Last' = Last
    BY <1>1 DEF Last
  <1>5. CASE Restart0
    <2>1. Ready' = Ready /\ Held' = Held /\ Last' = Last
      BY <1>1, <1>4, <1>5, ReadyKept, HeldKept DEF Restart0
    <2> QED BY <1>1, <1>5, <2>1 DEF Restart0, Mailbox!Next, Mailbox!Down
  <1>6. CASE BootLayout
    <2>1. Ready' = {}
      BY <1>6 DEF BootLayout, Ready
    <2>2. ~ Holding /\ Held = Empty /\ Held' = Empty
      BY <1>1, <1>6 DEF BootLayout, Reading1, Holding, Held
    <2>3. Last' = 0
      BY <1>0, <1>1, <1>6 DEF BootLayout, Last, EpochInv
    <2> QED BY <1>1, <1>3, <1>6, <2>1, <2>2, <2>3
            DEF BootLayout, Mailbox!Next, Mailbox!Boot
  <1>7. CASE BootCamera
    <2>1. \A s \in Slot : state[s] = "FREE" /\ state'[s] = "FREE"
      BY <1>7 DEF BootCamera, BuildInv
    <2>2. Ready' = Ready
      BY <2>1, ReadyKept
    <2>3. Held' = Held /\ Last' = Last
      BY <1>1, <1>4, <1>7 DEF BootCamera, Reading1, Holding, Held
    <2>4. captured' = captured
      BY <1>7 DEF BootCamera, CountInv, TypeOK
    <2> QED BY <1>1, <1>7, <2>2, <2>3, <2>4 DEF BootCamera, Mailbox!vars
  <1>8. CASE CameraStarts \/ ClaimNext
    <2>1. Ready' = Ready /\ Held' = Held /\ Last' = Last
      BY <1>1, <1>4, <1>8, ReadyKept, HeldKept DEF CameraStarts, ClaimNext
    <2> QED BY <1>1, <1>8, <2>1 DEF CameraStarts, ClaimNext, Mailbox!vars
  <1>9. CASE Capture
    <2>1. Ready' = Ready /\ Held' = Held /\ Last' = Last
      BY <1>1, <1>4, <1>9, ReadyKept, HeldKept DEF Capture
    <2> QED BY <1>1, <1>9, <2>1 DEF Capture, Mailbox!Next, Mailbox!Expose
  <1>10. ASSUME NEW due \in BOOLEAN, Record(due)
         PROVE  [Mailbox!Next]_(Mailbox!vars)
    <2>1. Ready' = Ready /\ Held' = Held /\ Last' = Last
      BY <1>1, <1>4, <1>10, ReadyKept, HeldKept DEF Record
    <2>2. captured < image
      BY <1>10 DEF Record, CountInv
    <2> QED BY <1>1, <1>10, <2>1, <2>2 DEF Record, Mailbox!Next, Mailbox!Number
  <1>11. CASE ClaimNone
    <2>1. Ready' = Ready /\ Held' = Held /\ Last' = Last
      BY <1>1, <1>4, <1>11, ReadyKept, HeldKept DEF ClaimNone
    <2> QED BY <1>1, <1>11, <2>1 DEF ClaimNone, Mailbox!Next, Mailbox!Skip
  <1>12. CASE ClaimSlot
    <2>1. Ready' = Ready
      BY <1>0, <1>12, ReadyKept DEF ClaimSlot
    <2>2. Held' = Held /\ Last' = Last
      BY <1>1, <1>4, <1>12, HeldKept DEF ClaimSlot
    <2> QED BY <1>1, <1>12, <2>1, <2>2 DEF ClaimSlot, Mailbox!vars
  <1>13. ASSUME NEW w \in Word, CopyWord(w)
         PROVE  [Mailbox!Next]_(Mailbox!vars)
    <2>1. scan0 \in Slot /\ state[scan0] = "WRITING"
      BY <1>13 DEF CopyWord, OwnInv
    <2>2. \A s \in Slot : s # scan0 => pixels'[s] = pixels[s]
      BY <1>0, <1>13 DEF CopyWord
    <2>3. Ready' = Ready
      BY <1>13, <2>1, <2>2, ReadyKept DEF CopyWord
    <2>4. Holding => view.slot \in Slot /\ view.slot # scan0
      BY <2>1 DEF OwnInv
    <2>5. Held' = Held /\ Last' = Last
      BY <1>1, <1>4, <1>13, <2>2, <2>4, HeldKept DEF CopyWord
    <2> QED BY <1>1, <1>13, <2>3, <2>5 DEF CopyWord, Mailbox!vars
  <1>14. CASE PublishFields
    <2>1. scan0 \in Slot /\ state[scan0] = "WRITING"
      BY <1>14 DEF PublishFields, OwnInv
    <2>2. \A s \in Slot : s # scan0 => sequence'[s] = sequence[s]
      BY <1>0, <1>14 DEF PublishFields
    <2>3. Ready' = Ready
      BY <1>14, <2>1, <2>2, ReadyKept DEF PublishFields
    <2>4. Holding => view.slot \in Slot /\ view.slot # scan0
      BY <2>1 DEF OwnInv
    <2>5. Held' = Held /\ Last' = Last
      BY <1>1, <1>4, <1>14, <2>2, <2>4, HeldKept DEF PublishFields
    <2> QED BY <1>1, <1>14, <2>3, <2>5 DEF PublishFields, Mailbox!vars
  <1>15. CASE PublishReady
    <2>1. scan0 \in Slot /\ state[scan0] = "WRITING"
      BY <1>15 DEF PublishReady, OwnInv
    <2>2. sequence[scan0] = captured /\ pixels[scan0] = [w \in Word |-> image]
      BY <1>0, <1>15, <2>1 DEF PublishReady, OrderInv, PixelInv
    <2>3. Frame(scan0) = [seq |-> captured, picture |-> Mailbox!Picture(image)]
      BY <2>2 DEF Frame, Mailbox!Picture
    <2>4. \A s \in Slot : state'[s] = "READY" <=> state[s] = "READY" \/ s = scan0
      BY <1>0, <1>15, <2>1 DEF PublishReady
    <2>5. Ready' = Ready \cup {Frame(scan0)}
      BY <1>15, <2>1, <2>4 DEF PublishReady, Ready, Frame
    <2>6. Held' = Held /\ Last' = Last
      BY <1>1, <1>4, <1>15, HeldKept DEF PublishReady
    <2> QED BY <1>1, <1>15, <2>3, <2>5, <2>6
            DEF PublishReady, Mailbox!Next, Mailbox!Publish
  <1> QED
    BY <1>5, <1>6, <1>7, <1>8, <1>9, <1>10, <1>11, <1>12, <1>13, <1>14, <1>15
    DEF Producer

\* And so does CM7_1.
LEMMA ConsumerMaps ==
    ASSUME MInv, MInv', Consumer \/ Restart1
    PROVE  [Mailbox!Next]_(Mailbox!vars)
  <1> USE DEF MInv, IInv, sharedVars, producerVars, consumerVars
  <1>0. /\ state \in [Slot -> {"FREE", "WRITING", "READY", "READING"}]
        /\ sequence \in [Slot -> 0..MaxFrame] /\ view.seq \in Nat
        /\ \A s \in Slot : sequence[s] \in Nat
    BY CameraAssumption DEF TypeOK
  <1>1. UNCHANGED <<epoch, producer, image, captured, sequence, pixels>>
    BY DEF Consumer, Restart1, Attach, Serve, Network, AcquireRefused,
       AcquireBegin, Scan, NoFrame, Take, DropStale, Read, Leave, Sent, Release
  <1>2. Mailbox!NoFrame = Empty
    BY DEF Mailbox!NoFrame, Mailbox!Picture, Empty
  <1>3. \A s \in Slot : Frame(s)' = Frame(s) /\ Frame(s).seq = sequence[s]
    BY <1>1 DEF Frame
  <1>4. CASE Restart1
    <2>1. Ready' = Ready
      BY <1>1, <1>4, ReadyKept DEF Restart1
    <2>2. Held' = Empty /\ Last' = 0
      BY <1>4 DEF Restart1, Held, Holding, Empty, Last
    <2> QED BY <1>1, <1>2, <1>4, <2>1, <2>2 DEF Restart1, Mailbox!Next, Mailbox!Detach
  <1>5. CASE Attach
    <2>1. Ready' = Ready
      BY <1>0, <1>1, <1>5, ReadyKept DEF Attach
    <2>2. Held' = Held
      BY <1>1, <1>5 DEF Attach, Held, Holding, Empty
    <2>3. Last' = Last
      BY <1>5 DEF Attach, Last
    <2> QED BY <1>1, <1>5, <2>1, <2>2, <2>3 DEF Attach, Mailbox!vars
  <1>6. CASE \/ Serve \/ AcquireRefused \/ AcquireBegin \/ Scan \/ NoFrame
             \/ \E up \in BOOLEAN : Network(up)
    <2>1. state' = state /\ seen' = seen /\ ~ Holding /\ ~ Holding'
      BY <1>6 DEF Serve, AcquireRefused, AcquireBegin, Scan, NoFrame, Network, Holding
    <2>2. Ready' = Ready
      BY <1>1, <2>1, ReadyKept
    <2>3. Held' = Held
      BY <2>1, HeldKept
    <2>4. Last' = Last
      BY <1>1, <1>6 DEF Serve, AcquireRefused, AcquireBegin, Scan, NoFrame, Network, Last
    <2> QED BY <1>1, <2>1, <2>2, <2>3, <2>4 DEF Mailbox!vars
  <1>7. CASE Take
    <2> DEFINE f == Frame(view.slot)
    <2>1. /\ view.slot \in Slot /\ state[view.slot] = "READY"
          /\ sequence[view.slot] = view.seq
      BY <1>7 DEF Take, OwnInv
    <2>2. f \in Ready
      BY <2>1 DEF Ready
    <2>3. f.seq > Last
      BY <1>3, <1>7, <2>1 DEF Take, Last, OrderInv, EpochInv
    <2>4. Held = Empty /\ Held' = f
      BY <1>1, <1>3, <1>7, <2>1 DEF Take, Held, Holding, Frame
    <2>5. \A s \in Slot : state'[s] = "READY" <=> state[s] = "READY" /\ s # view.slot
      BY <1>0, <1>7, <2>1 DEF Take
    <2>6. \A s \in Slot : state[s] = "READY" /\ s # view.slot => Frame(s) # f
      BY <1>3, <2>1 DEF OrderInv
    <2>7. Ready' = Ready \ {f}
      BY <1>3, <2>1, <2>5, <2>6 DEF Ready
    <2>8. Last' = Last /\ seen' = seen
      BY <1>7 DEF Take, Last
    <2> HIDE DEF f
    <2> QED BY <1>1, <1>2, <2>2, <2>3, <2>4, <2>7, <2>8
            DEF Mailbox!Next, Mailbox!Take
  <1>8. ASSUME NEW old \in BOOLEAN, DropStale(old)
        PROVE  [Mailbox!Next]_(Mailbox!vars)
    <2>1. /\ view.slot \in Slot /\ state[view.slot] = "READING"
          /\ sequence[view.slot] = view.seq /\ Holding
      BY <1>8 DEF DropStale, OwnInv, Holding
    <2>2. Held' = Held
      BY <1>1, <1>8, HeldKept DEF DropStale, Holding
    <2>3. Held # Empty /\ Held.seq = view.seq
      BY <2>1, HeldSeen
    <2>4. \A s \in Slot : state'[s] = "READY" <=> state[s] = "READY" /\ sequence[s] > view.seq
      <3>1. \A s \in Slot : state[s] = "READY" => sequence[s] # view.seq /\ s # view.slot
        BY <2>1 DEF OrderInv
      <3>2. \A s \in Slot : state'[s] = IF Stale(s) THEN "FREE" ELSE state[s]
        BY <1>8 DEF DropStale
      <3> QED BY <1>0, <3>1, <3>2 DEF Stale
    <2>5. Ready' = {g \in Ready : g.seq > Held.seq}
      BY <1>3, <2>3, <2>4 DEF Ready
    <2>6. Last' = Last /\ seen' = seen
      BY <1>8 DEF DropStale, Last, BuildInv
    <2> QED BY <1>1, <1>2, <2>2, <2>3, <2>5, <2>6 DEF Mailbox!Next, Mailbox!Discard
  <1>9. ASSUME NEW w \in Word, Read(w)
        PROVE  [Mailbox!Next]_(Mailbox!vars)
    <2>1. Holding /\ UNCHANGED <<state, Held, Last>>
      BY <1>1, <1>9, HeldKept DEF Read, Holding, Last
    <2>2. Held # Empty /\ Held.seq = view.seq /\ Held.picture = pixels[view.slot]
      BY <2>1, HeldSeen DEF Frame
    <2>3. Ready' = Ready
      BY <1>1, <2>1, ReadyKept
    <2>4. \A g \in Ready : g.seq > Held.seq
      BY <1>9, <2>2 DEF Read, InOrder, Ready, Frame
    <2>5. seen' = seen \cup {Held.picture[w]}
      BY <1>9, <2>2 DEF Read
    <2> QED BY <1>1, <1>2, <2>1, <2>2, <2>3, <2>4, <2>5 DEF Mailbox!Next, Mailbox!Look
  <1>10. CASE Leave
    <2>1. UNCHANGED <<state, view, seen, attached, lastConsumed>> /\ Holding /\ Holding'
      BY <1>10 DEF Leave, Sent, Holding
    <2>2. Ready' = Ready /\ Held' = Held /\ Last' = Last
      BY <1>1, <2>1, ReadyKept, HeldKept DEF Last
    <2> QED BY <1>1, <2>1, <2>2 DEF Mailbox!vars
  <1>11. CASE Release
    <2>1. Holding /\ view.slot \in Slot /\ state[view.slot] = "READING"
      BY <1>11 DEF Release, Holding, OwnInv
    <2>2. Held # Empty /\ Held.seq = view.seq
      BY <2>1, HeldSeen
    <2>3. Ready' = Ready
      BY <1>0, <1>1, <1>11, <2>1, ReadyKept DEF Release
    <2>4. Held' = Empty /\ seen' = {}
      BY <1>11 DEF Release, Held, Holding, Empty
    <2>5. Last' = Held.seq
      BY <1>11, <2>1, <2>2 DEF Release, Last, EpochInv
    <2> QED BY <1>1, <1>2, <2>2, <2>3, <2>4, <2>5 DEF Mailbox!Next, Mailbox!Release
  <1> QED
    BY <1>4, <1>5, <1>6, <1>7, <1>8, <1>9, <1>10, <1>11 DEF Consumer

\* The two slots and the loops around them implement the mailbox, for pictures
\* of any size and any number of boots and restarts.
THEOREM MailboxRefinement == Spec => ImplementsMailbox
  <1>1. Init => MInv
    BY InitInv DEF MInv, BuildInv, Init
  <1>2. MInv /\ [Next]_vars => MInv'
    BY BuildStep, TypeStep, CountStep, EpochStep, OwnStep, OrderStep, PixelStep
    DEF MInv, IInv
  <1>3. MInv /\ MInv' /\ [Next]_vars => [Mailbox!Next]_(Mailbox!vars)
    <2> SUFFICES ASSUME MInv, MInv', [Next]_vars
                 PROVE  [Mailbox!Next]_(Mailbox!vars)
      OBVIOUS
    <2>1. CASE UNCHANGED vars
      BY <2>1 DEF vars, sharedVars, producerVars, consumerVars, Mailbox!vars,
         Ready, Held, Last, Frame, Empty, Holding
    <2> QED BY <2>1, ProducerMaps, ConsumerMaps DEF Next
  <1> QED
    BY <1>1, <1>2, <1>3, MailboxInit, PTL DEF Spec, ImplementsMailbox, Mailbox!Spec
=============================================================================
