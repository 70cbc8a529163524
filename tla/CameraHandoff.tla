---------------------------- MODULE CameraHandoff ----------------------------
(***************************************************************************)
(* The hand-over of camera frames from CM7_0 to CM7_1 through two slots of *)
(* shared memory: intercore_camera.c, driven by the main loops of          *)
(* camera_capture_producer.c and camera_frame_consumer.c, with the camera  *)
(* interrupt, restarts of either core, and a network link that comes and   *)
(* goes.                                                                   *)
(*                                                                         *)
(* A slot is FREE, WRITING, READY or READING and only its owner may touch  *)
(* the pixels.  Every shared access is a step of its own; the barriers of  *)
(* the code make the steps visible in their order.  A picture is the       *)
(* number of its exposure in every word; the boot of the shared layout,    *)
(* word by word, is SnapshotTransport's.  Times, the doorbell and the      *)
(* diagnostics are left out: the publication period, the age of a frame    *)
(* and the outcome of network calls are choices.                           *)
(***************************************************************************)
EXTENDS Integers

CONSTANTS
    Word,           \* the words of a picture
    MaxFrame,       \* bound: pictures the camera takes
    MaxEpoch,       \* bound: boots of CM7_0
    MaxRestart      \* bound: restarts of CM7_1

ASSUME CameraAssumption ==
    /\ Word # {}
    /\ MaxFrame \in Nat /\ MaxEpoch \in Nat \ {0} /\ MaxRestart \in Nat

SlotCount == 2
Slot      == 0..SlotCount - 1
NoSlot    == SlotCount

VARIABLES
    \* shared memory
    epoch,        \* metadata.boot_epoch
    cameraEpoch,  \* camera.producer_boot_epoch, 0 without the camera magic
    state,        \* per slot
    sequence,     \* per slot
    pixels,       \* per slot and word: the exposure it shows
    captured,     \* capture_sequence
    \* CM7_0
    producer,     \* where its main loop is
    scan0,        \* the slot the search for a FREE one looks at
    image,        \* mt9v03x_image, the exposure it shows
    finish,       \* mt9v03x_finish_flag
    copied,       \* the words copied so far
    \* CM7_1
    consumer,     \* where its main loop is
    attached,     \* the epoch it is attached to, 0 for none
    link,         \* whether socket_state is CONNECTED
    scan1,        \* the slot the search for a READY one looks at
    view,         \* the slot it chose, NoSlot for none, and its sequence
    seen,         \* the words the handler and the sender have read
    lastConsumed, \* last_consumed_sequence
    restarts

sharedVars   == <<epoch, cameraEpoch, state, sequence, pixels, captured>>
producerVars == <<producer, scan0, image, finish, copied>>
consumerVars == <<consumer, attached, link, scan1, view, seen, lastConsumed>>
vars == <<sharedVars, producerVars, consumerVars, restarts>>

NoView == [slot |-> NoSlot, seq |-> 0]

Writing == producer \in {"copy", "publish"}

\* Variant: the interrupt is left enabled.
Masked_Never == FALSE

\* camera_finish_callback is masked from the start of the copy, after the
\* claim, to the end of the publish.
Masked == Writing /\ (producer = "publish" \/ copied # {})

Init ==
    /\ epoch = 0 /\ cameraEpoch = 0
    /\ state = [s \in Slot |-> "FREE"]
    /\ sequence = [s \in Slot |-> 0]
    /\ pixels = [s \in Slot |-> [w \in Word |-> 0]]
    /\ captured = 0
    /\ producer = "reset" /\ scan0 = 0
    /\ image = 0 /\ finish = FALSE /\ copied = {}
    /\ consumer = "idle" /\ attached = 0 /\ link = FALSE
    /\ scan1 = 0 /\ view = NoView /\ seen = {} /\ lastConsumed = 0
    /\ restarts = 0

-----------------------------------------------------------------------------
(* CM7_0.  Its reset while CM7_1 reads a frame is outside what the         *)
(* hand-over supports: it clears the memory under the reader.              *)

Reading1 == consumer \notin {"idle", "network"}

Restart0 ==
    /\ ~ Reading1
    /\ producer # "reset" /\ epoch < MaxEpoch
    /\ producer' = "reset" /\ image' = 0 /\ finish' = FALSE
    /\ copied' = {} /\ scan0' = 0
    /\ UNCHANGED <<sharedVars, consumerVars, restarts>>

\* intercore_transport_cm7_0_init clears the camera control block with the
\* rest of the layout and counts the boot.
BootLayout ==
    /\ ~ Reading1
    /\ producer = "reset" /\ producer' = "layout"
    /\ epoch' = epoch + 1 /\ cameraEpoch' = 0
    /\ state' = [s \in Slot |-> "FREE"]
    /\ sequence' = [s \in Slot |-> 0]
    /\ captured' = 0
    /\ UNCHANGED <<pixels, scan0, image, finish, copied, consumerVars, restarts>>

\* intercore_camera_producer_init, the magic last.
BootCamera ==
    /\ ~ Reading1
    /\ producer = "layout" /\ producer' = "dark"
    /\ cameraEpoch' = epoch
    /\ state' = [s \in Slot |-> "FREE"]
    /\ sequence' = [s \in Slot |-> 0]
    /\ captured' = 0
    /\ UNCHANGED <<epoch, pixels, scan0, image, finish, copied, consumerVars,
                   restarts>>

\* camera_capture_try_camera_init succeeds; while it fails it is retried.
CameraStarts ==
    /\ producer = "dark" /\ producer' = "idle"
    /\ finish' = FALSE
    /\ UNCHANGED <<sharedVars, scan0, image, copied, consumerVars, restarts>>

\* camera_finish_callback, between two steps of the main loop.
Capture ==
    /\ producer \notin {"reset", "layout", "dark"}
    /\ ~ Masked
    /\ image < MaxFrame
    /\ image' = image + 1 /\ finish' = TRUE
    /\ UNCHANGED <<sharedVars, producer, scan0, copied, consumerVars, restarts>>

\* The service takes the finish flag and numbers the capture; due says that
\* the publication period has passed.
Record(due) ==
    /\ producer = "idle" /\ finish
    /\ finish' = FALSE
    /\ captured' = captured + 1
    /\ producer' = IF due THEN "claim" ELSE "idle"
    /\ scan0' = 0
    /\ UNCHANGED <<epoch, cameraEpoch, state, sequence, pixels, image, copied,
                   consumerVars, restarts>>

\* intercore_camera_find_free_slot and the claim.
ClaimSlot ==
    /\ producer = "claim" /\ scan0 \in Slot
    /\ state[scan0] = "FREE"
    /\ state' = [state EXCEPT ![scan0] = "WRITING"]
    /\ producer' = "copy" /\ copied' = {}
    /\ UNCHANGED <<epoch, cameraEpoch, sequence, pixels, captured, scan0, image,
                   finish, consumerVars, restarts>>

ClaimNext ==
    /\ producer = "claim" /\ scan0 \in Slot
    /\ state[scan0] # "FREE"
    /\ scan0' = scan0 + 1
    /\ UNCHANGED <<sharedVars, producer, image, finish, copied, consumerVars,
                   restarts>>

\* No free slot: the frame is dropped.
ClaimNone ==
    /\ producer = "claim" /\ scan0 = NoSlot
    /\ producer' = "idle" /\ scan0' = 0
    /\ UNCHANGED <<sharedVars, image, finish, copied, consumerVars, restarts>>

CopyWord(w) ==
    /\ producer = "copy" /\ w \notin copied
    /\ pixels' = [pixels EXCEPT ![scan0][w] = image]
    /\ copied' = copied \cup {w}
    /\ UNCHANGED <<epoch, cameraEpoch, state, sequence, captured, producer,
                   scan0, image, finish, consumerVars, restarts>>

\* intercore_camera_producer_publish: the slot's fields, then READY.
PublishFields ==
    /\ producer = "copy" /\ copied = Word
    /\ sequence' = [sequence EXCEPT ![scan0] = captured]
    /\ producer' = "publish"
    /\ UNCHANGED <<epoch, cameraEpoch, state, pixels, captured, scan0, image,
                   finish, copied, consumerVars, restarts>>

PublishReady ==
    /\ producer = "publish"
    /\ state' = [state EXCEPT ![scan0] = "READY"]
    /\ producer' = "idle" /\ scan0' = 0 /\ copied' = {}
    /\ UNCHANGED <<epoch, cameraEpoch, sequence, pixels, captured, image, finish,
                   consumerVars, restarts>>

-----------------------------------------------------------------------------
(* CM7_1.                                                                  *)

Restart1 ==
    /\ restarts < MaxRestart /\ restarts' = restarts + 1
    /\ consumer' = "idle" /\ attached' = 0 /\ link' = FALSE
    /\ scan1' = 0 /\ view' = NoView /\ seen' = {} /\ lastConsumed' = 0
    /\ UNCHANGED <<sharedVars, producerVars>>

\* Variants: what a dead consumer was reading is not given back; the slot the
\* producer is writing is given back as well.
Attach_KeepsReading ==
    /\ consumer = "idle" /\ attached = 0
    /\ epoch # 0 /\ cameraEpoch = epoch
    /\ attached' = epoch /\ lastConsumed' = 0
    /\ consumer' = "network"
    /\ UNCHANGED <<sharedVars, producerVars, link, scan1, view, seen, restarts>>

Attach_FreesWriting ==
    /\ consumer = "idle" /\ attached = 0
    /\ epoch # 0 /\ cameraEpoch = epoch
    /\ state' = [s \in Slot |->
                   IF state[s] \in {"READING", "WRITING"} THEN "FREE" ELSE state[s]]
    /\ attached' = epoch /\ lastConsumed' = 0
    /\ consumer' = "network"
    /\ UNCHANGED <<epoch, cameraEpoch, sequence, pixels, captured, producerVars,
                   link, scan1, view, seen, restarts>>

\* intercore_camera_consumer_attach gives back what an earlier life of CM7_1
\* was reading.  Until the layout is there and of this boot it is refused.
Attach ==
    /\ consumer = "idle" /\ attached = 0
    /\ epoch # 0 /\ cameraEpoch = epoch
    /\ state' = [s \in Slot |-> IF state[s] = "READING" THEN "FREE" ELSE state[s]]
    /\ attached' = epoch /\ lastConsumed' = 0
    /\ consumer' = "network"
    /\ UNCHANGED <<epoch, cameraEpoch, sequence, pixels, captured, producerVars,
                   link, scan1, view, seen, restarts>>

\* A later pass of the service.
Serve ==
    /\ consumer = "idle" /\ attached # 0
    /\ consumer' = "network"
    /\ UNCHANGED <<sharedVars, producerVars, attached, link, scan1, view, seen,
                   lastConsumed, restarts>>

\* camera_frame_consumer_try_network blocks until it knows; a link that is up,
\* or that failed less than the retry period ago, is left as it is.
Network(up) ==
    /\ consumer = "network" /\ consumer' = "acquire"
    /\ link' = (link \/ up)
    /\ UNCHANGED <<sharedVars, producerVars, attached, scan1, view, seen,
                   lastConsumed, restarts>>

\* intercore_camera_consumer_acquire_latest of a layout that is not the
\* attached one: a new epoch is attached to, one being built waited for.
AcquireRefused ==
    /\ consumer = "acquire" /\ consumer' = "idle"
    /\ epoch # attached \/ cameraEpoch # attached
    /\ attached' = IF epoch = attached THEN attached ELSE 0
    /\ UNCHANGED <<sharedVars, producerVars, link, scan1, view, seen,
                   lastConsumed, restarts>>

AcquireBegin ==
    /\ consumer = "acquire" /\ consumer' = "scan"
    /\ epoch = attached /\ cameraEpoch = attached
    /\ scan1' = 0 /\ view' = NoView
    /\ UNCHANGED <<sharedVars, producerVars, attached, link, seen, lastConsumed,
                   restarts>>

\* One turn of the search for the newest READY slot.
Better(s) == state[s] = "READY" /\ (view.slot = NoSlot \/ view.seq < sequence[s])

Scan ==
    /\ consumer = "scan" /\ scan1 \in Slot
    /\ view' = IF Better(scan1) THEN [slot |-> scan1, seq |-> sequence[scan1]]
                                ELSE view
    /\ scan1' = scan1 + 1
    /\ UNCHANGED <<sharedVars, producerVars, consumer, attached, link, seen,
                   lastConsumed, restarts>>

NoFrame ==
    /\ consumer = "scan" /\ scan1 = NoSlot /\ view = NoView
    /\ consumer' = "idle"
    /\ UNCHANGED <<sharedVars, producerVars, attached, link, scan1, view, seen,
                   lastConsumed, restarts>>

Take ==
    /\ consumer = "scan" /\ scan1 = NoSlot /\ view # NoView
    /\ state' = [state EXCEPT ![view.slot] = "READING"]
    /\ consumer' = "drop"
    /\ UNCHANGED <<epoch, cameraEpoch, sequence, pixels, captured, producerVars,
                   attached, link, scan1, view, seen, lastConsumed, restarts>>

\* Variants: older READY slots stay; every other READY slot goes.
Stale_None(s) == FALSE

Stale_Any(s) == s # view.slot /\ state[s] = "READY"

\* The READY slots the newest frame makes obsolete.
Stale(s) == s # view.slot /\ state[s] = "READY" /\ sequence[s] < view.seq

\* The obsolete slots are freed and the frame is looked at, unless it is older
\* than APP_CAMERA_STALE_TIMEOUT_MS.
DropStale(old) ==
    /\ consumer = "drop"
    /\ state' = [s \in Slot |-> IF Stale(s) THEN "FREE" ELSE state[s]]
    /\ consumer' = IF old THEN "release" ELSE "read"
    /\ seen' = {}
    /\ UNCHANGED <<epoch, cameraEpoch, sequence, pixels, captured, producerVars,
                   attached, link, scan1, view, lastConsumed, restarts>>

\* The handler and the sender read the pixels in the slot.
Read(w) ==
    /\ consumer = "read"
    /\ seen' = seen \cup {pixels[view.slot][w]}
    /\ UNCHANGED <<sharedVars, producerVars, consumer, attached, link, scan1,
                   view, lastConsumed, restarts>>

\* The send returns, having failed or not; without a link nothing is sent.
Sent(ok) ==
    /\ consumer = "read" /\ consumer' = "release"
    /\ link' = (link /\ ok)
    /\ UNCHANGED <<sharedVars, producerVars, attached, scan1, view, seen,
                   lastConsumed, restarts>>

\* intercore_camera_consumer_release_at
Releasable ==
    /\ epoch = attached /\ cameraEpoch = attached
    /\ state[view.slot] = "READING" /\ sequence[view.slot] = view.seq

Release ==
    /\ consumer = "release" /\ Releasable
    /\ state' = [state EXCEPT ![view.slot] = "FREE"]
    /\ lastConsumed' = view.seq
    /\ consumer' = "idle" /\ view' = NoView /\ seen' = {}
    /\ UNCHANGED <<epoch, cameraEpoch, sequence, pixels, captured, producerVars,
                   attached, link, scan1, restarts>>

-----------------------------------------------------------------------------
Producer ==
    \/ BootLayout \/ BootCamera \/ CameraStarts
    \/ \E due \in BOOLEAN : Record(due)
    \/ ClaimSlot \/ ClaimNext \/ ClaimNone
    \/ \E w \in Word : CopyWord(w)
    \/ PublishFields \/ PublishReady

Leave == consumer = "read" /\ \E ok \in BOOLEAN : Sent(ok)

Consumer ==
    \/ Attach \/ Serve
    \/ \E up \in BOOLEAN : Network(up)
    \/ AcquireRefused \/ AcquireBegin
    \/ Scan \/ NoFrame \/ Take
    \/ \E old \in BOOLEAN : DropStale(old)
    \/ \E w \in Word : Read(w)
    \/ Leave
    \/ Release

Next == Producer \/ Capture \/ Consumer \/ Restart0 \/ Restart1

Spec == Init /\ [][Next]_vars

\* Both main loops and the boot of CM7_0 keep running and network calls
\* return.  The boot waits for CM7_1 to be outside a read again and again.
FairSpec ==
    /\ Spec
    /\ WF_vars(Producer) /\ WF_vars(Consumer)
    /\ SF_vars(BootLayout) /\ SF_vars(BootCamera)

-----------------------------------------------------------------------------
(* Properties.                                                             *)

\* Every variable has its type.
TypeOK ==
    /\ epoch \in 0..MaxEpoch /\ cameraEpoch \in 0..MaxEpoch
    /\ state \in [Slot -> {"FREE", "WRITING", "READY", "READING"}]
    /\ sequence \in [Slot -> 0..MaxFrame]
    /\ pixels \in [Slot -> [Word -> 0..MaxFrame]]
    /\ captured \in 0..MaxFrame
    /\ producer \in {"reset", "layout", "dark", "idle", "claim", "copy", "publish"}
    /\ scan0 \in 0..SlotCount
    /\ image \in 0..MaxFrame /\ finish \in BOOLEAN
    /\ copied \subseteq Word
    /\ consumer \in {"idle", "network", "acquire", "scan", "drop", "read", "release"}
    /\ attached \in 0..MaxEpoch /\ link \in BOOLEAN
    /\ scan1 \in 0..SlotCount
    /\ view \in [slot : 0..SlotCount, seq : 0..MaxFrame]
    /\ seen \subseteq 0..MaxFrame
    /\ lastConsumed \in 0..MaxFrame
    /\ restarts \in 0..MaxRestart

Holding == consumer \in {"drop", "read", "release"}

\* The slot a core works on is its own, so the producer never writes under the
\* consumer, and the release of a frame is never refused, across restarts of
\* CM7_1 at any point.
FramesAreOwned ==
    /\ Writing => state[scan0] = "WRITING"
    /\ Holding => Releasable

\* The pixels the handler and the sender read belong to one exposure.
FrameIsWhole == \A a, b \in seen : a = b

\* CM7_1 never goes back to an older frame: the one it holds is newer than the
\* last it released, and no older one is left behind for later.
InOrder ==
    /\ Holding => view.seq > lastConsumed
    /\ consumer \in {"read", "release"} =>
         \A s \in Slot : state[s] = "READY" => sequence[s] > view.seq

\* What CM7_1 can take, what it holds, and the number it must exceed.
Frame(s) == [seq |-> sequence[s], picture |-> pixels[s]]
Empty    == [seq |-> 0, picture |-> [w \in Word |-> 0]]
Ready    == {Frame(s) : s \in {t \in Slot : state[t] = "READY"}}
Held     == IF Holding THEN Frame(view.slot) ELSE Empty
Last     == IF attached # 0 /\ attached = epoch THEN lastConsumed ELSE 0

\* CM7_1 sees a mailbox of whole pictures: what it looks at is one picture of
\* the camera under its own number, newer than everything it gave back before
\* and older than whatever else is ready.
Mailbox == INSTANCE FrameMailbox WITH
    up <- producer # "reset",
    exposure <- image, number <- captured,
    open <- producer \in {"claim", "copy", "publish"},
    ready <- Ready, held <- Held, last <- Last

ImplementsMailbox == Mailbox!Spec

\* "A disconnected consumer does not hold a slot during a blocking reconnect
\* attempt", nor does what is left of an earlier life of CM7_1.
ReconnectHoldsNoSlot ==
    consumer = "network" => \A s \in Slot : state[s] # "READING"

\* Every published frame reaches CM7_1, unless a newer one does or CM7_1 has
\* to attach again first.
ReadyIsServed ==
    \A n \in 1..MaxFrame :
        (\E s \in Slot : state[s] = "READY" /\ sequence[s] = n)
            ~> lastConsumed >= n \/ attached = 0

\* No slot is lost: whatever restarts, every slot becomes free again.
SlotsCirculate == \A s \in Slot : state[s] # "FREE" ~> state[s] = "FREE"
=============================================================================
