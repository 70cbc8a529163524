------------------------------ MODULE Doorbell ------------------------------
(***************************************************************************)
(* The doorbell from CM7_0 to CM7_1: intercore_notify.c and its port, on   *)
(* one channel of the vendor's IPC pipe (cy_ipc_pipe.c).                   *)
(*                                                                         *)
(* CM7_0 sends from its main loop and from the release interrupt, which    *)
(* suspends the main loop between any two of its critical sections and     *)
(* does not nest (intercore_notify_release_handoff_active is "the release  *)
(* interrupt runs").  CM7_1 receives in its notify interrupt and takes the *)
(* pending bits in its main loop; it may be reset at any step.  The IPC    *)
(* registers (lock, notify, release) and the one message word in shared    *)
(* memory survive that.  Counters and the client number are left out; the  *)
(* other direction is initialised but nothing in the firmware rings it.    *)
(***************************************************************************)
EXTENDS Integers

CONSTANTS
    Bit,            \* the INTERCORE_NOTIFY_* bits
    MaxRestart      \* bound: restarts of CM7_1

ASSUME DoorbellAssumption == MaxRestart \in Nat

\* The two contexts of CM7_0 that call intercore_notify_send.
Context == {"main", "isr"}

VARIABLES
    \* CM7_0
    pendingOut,  \* pending_out_bits
    inFlight,    \* in_flight
    busy,        \* fromEp->busy; releaseCallbackPtr is set and cleared with it
    pc0,         \* per context: where it is in a send or in the interrupt
    sendBits,    \* per context: its local bits
    \* hardware and shared memory
    message,     \* INTERCORE_NOTIFY_MESSAGE->data
    locked,      \* the lock of the channel
    notifyIrq, releaseIrq,
    \* CM7_1
    up,          \* its doorbell is initialised
    isr1,        \* where its notify interrupt is
    pending,     \* pending_bits
    taken,       \* what its main loop took last
    restarts,
    abandoned    \* history: it was reset inside its notify interrupt

vars0    == <<pendingOut, inFlight, busy, pc0, sendBits>>
vars1    == <<up, isr1, pending, taken, restarts, abandoned>>
wireVars == <<message, locked, notifyIrq, releaseIrq>>
vars     == <<vars0, wireVars, vars1>>

Init ==
    /\ pendingOut = {} /\ inFlight = FALSE /\ busy = FALSE
    /\ pc0 = [c \in Context |-> "idle"]
    /\ sendBits = [c \in Context |-> {}]
    /\ message = {} /\ locked = FALSE
    /\ notifyIrq = FALSE /\ releaseIrq = FALSE
    /\ up = FALSE /\ isr1 = "idle" /\ pending = {} /\ taken = {}
    /\ restarts = 0 /\ abandoned = FALSE

-----------------------------------------------------------------------------
(* CM7_0: intercore_notify_send, in either context.                        *)

Runs(c) == c = "isr" \/ pc0["isr"] = "idle"

\* Where a context continues after a send.
After(c) == IF c = "main" THEN "idle" ELSE "ending"

\* Variant: a message that is in flight does not stop the next.
SendBegin_IgnoresFlight(c, bits) ==
    /\ sendBits' = [sendBits EXCEPT ![c] = bits \cup pendingOut]
    /\ pendingOut' = {}
    /\ message' = bits \cup pendingOut
    /\ inFlight' = TRUE
    /\ pc0' = [pc0 EXCEPT ![c] = "port"]

\* The first critical section.
SendBegin(c, bits) ==
    IF inFlight
    THEN /\ pendingOut' = pendingOut \cup bits
         /\ pc0' = [pc0 EXCEPT ![c] = After(c)]
         /\ UNCHANGED <<inFlight, sendBits, message>>
    ELSE /\ sendBits' = [sendBits EXCEPT ![c] = bits \cup pendingOut]
         /\ pendingOut' = {}
         /\ message' = bits \cup pendingOut
         /\ inFlight' = TRUE
         /\ pc0' = [pc0 EXCEPT ![c] = "port"]

\* intercore_notify_try: the main loop rings.
Ring(bits) ==
    /\ pc0["main"] = "idle" /\ Runs("main")
    /\ SendBegin("main", bits)
    /\ UNCHANGED <<busy, locked, notifyIrq, releaseIrq, vars1>>

\* Cy_IPC_Pipe_SendMessage refuses while the endpoint is busy or the channel
\* locked, else takes the lock and writes the message pointer.
PortSend(c) ==
    /\ pc0[c] = "port" /\ Runs(c)
    /\ IF busy \/ locked
       THEN pc0' = [pc0 EXCEPT ![c] = "failed"] /\ UNCHANGED locked
       ELSE pc0' = [pc0 EXCEPT ![c] = "mark"] /\ locked' = TRUE
    /\ UNCHANGED <<pendingOut, inFlight, busy, sendBits, message, notifyIrq,
                   releaseIrq, vars1>>

\* Variant: the endpoint is marked busy after CM7_1 was notified.
PortMark_Late(c) ==
    /\ pc0[c] \in {"mark", "notify"} /\ Runs(c)
    /\ IF pc0[c] = "mark"
       THEN /\ notifyIrq' = TRUE /\ UNCHANGED busy
            /\ pc0' = [pc0 EXCEPT ![c] = "notify"]
       ELSE /\ busy' = TRUE /\ UNCHANGED notifyIrq
            /\ pc0' = [pc0 EXCEPT ![c] = After(c)]
    /\ UNCHANGED <<pendingOut, inFlight, sendBits, message, locked, releaseIrq,
                   vars1>>

\* It marks the endpoint busy and leaves the callback before it notifies CM7_1.
PortMark(c) ==
    /\ pc0[c] \in {"mark", "notify"} /\ Runs(c)
    /\ IF pc0[c] = "mark"
       THEN /\ busy' = TRUE /\ UNCHANGED notifyIrq
            /\ pc0' = [pc0 EXCEPT ![c] = "notify"]
       ELSE /\ notifyIrq' = TRUE /\ UNCHANGED busy
            /\ pc0' = [pc0 EXCEPT ![c] = After(c)]
    /\ UNCHANGED <<pendingOut, inFlight, sendBits, message, locked, releaseIrq,
                   vars1>>

\* The critical section after a refused send gives the bits back.
SendFailed(c) ==
    /\ pc0[c] = "failed" /\ Runs(c)
    /\ inFlight' = FALSE
    /\ pendingOut' = pendingOut \cup sendBits[c]
    /\ pc0' = [pc0 EXCEPT ![c] = After(c)]
    /\ UNCHANGED <<busy, sendBits, wireVars, vars1>>

-----------------------------------------------------------------------------
(* CM7_0: the release interrupt.                                           *)

\* ExecCallback clears the interrupt and calls intercore_notify_release_callback,
\* which ends the flight and takes the queued bits to hand them over.
ReleaseBegin ==
    /\ releaseIrq /\ pc0["isr"] = "idle"
    /\ releaseIrq' = FALSE
    /\ inFlight' = FALSE
    /\ sendBits' = [sendBits EXCEPT !["isr"] = pendingOut]
    /\ pendingOut' = {}
    /\ pc0' = [pc0 EXCEPT !["isr"] = IF pendingOut = {} THEN "ending"
                                                        ELSE "handover"]
    /\ UNCHANGED <<busy, message, locked, notifyIrq, vars1>>

\* The callback sends the bits at once; the endpoint is still busy, so
\* PortSend refuses and they wait for a later ring.
HandOver ==
    /\ pc0["isr"] = "handover"
    /\ SendBegin("isr", sendBits["isr"])
    /\ UNCHANGED <<busy, locked, notifyIrq, releaseIrq, vars1>>

\* Variant: the endpoint stays busy.
ReleaseEnd_KeepsBusy ==
    /\ pc0["isr"] = "ending"
    /\ pc0' = [pc0 EXCEPT !["isr"] = "idle"]
    /\ UNCHANGED <<pendingOut, inFlight, busy, sendBits, wireVars, vars1>>

\* Only after the callback does ExecCallback free the endpoint.
ReleaseEnd ==
    /\ pc0["isr"] = "ending"
    /\ busy' = FALSE
    /\ pc0' = [pc0 EXCEPT !["isr"] = "idle"]
    /\ UNCHANGED <<pendingOut, inFlight, sendBits, wireVars, vars1>>

-----------------------------------------------------------------------------
(* CM7_1.                                                                  *)

\* ExecCallback clears the notify interrupt before it looks at the channel.
NotifyBegin ==
    /\ up /\ isr1 = "idle" /\ notifyIrq
    /\ notifyIrq' = FALSE
    /\ isr1' = IF locked THEN "read" ELSE "idle"
    /\ UNCHANGED <<vars0, message, locked, releaseIrq, up, pending, taken,
                   restarts, abandoned>>

\* intercore_notify_receive_callback
Receive ==
    /\ isr1 = "read"
    /\ pending' = pending \cup message
    /\ isr1' = "release"
    /\ UNCHANGED <<vars0, wireVars, up, taken, restarts, abandoned>>

\* Cy_IPC_Drv_LockRelease frees the channel and raises the release interrupt.
Unlock ==
    /\ isr1 = "release"
    /\ locked' = FALSE /\ releaseIrq' = TRUE
    /\ isr1' = "idle"
    /\ UNCHANGED <<vars0, message, notifyIrq, up, pending, taken, restarts,
                   abandoned>>

\* intercore_notify_take_pending in the pass of the camera consumer.
TakePending ==
    /\ up /\ isr1 = "idle"
    /\ taken' = pending /\ pending' = {}
    /\ UNCHANGED <<vars0, wireVars, up, isr1, restarts, abandoned>>

Restart1 ==
    /\ up /\ restarts < MaxRestart
    /\ restarts' = restarts + 1
    /\ up' = FALSE
    /\ abandoned' = IF isr1 = "idle" THEN abandoned ELSE TRUE
    /\ isr1' = "idle" /\ pending' = {} /\ taken' = {}
    /\ UNCHANGED <<vars0, wireVars>>

\* intercore_notify_init enables the interrupt, which a message that came
\* before has raised already.
Init1 ==
    /\ ~ up /\ up' = TRUE
    /\ UNCHANGED <<vars0, wireVars, isr1, pending, taken, restarts, abandoned>>

-----------------------------------------------------------------------------
Rings == \E bits \in (SUBSET Bit) \ {{}} : Ring(bits)

Send(c) == PortSend(c) \/ PortMark(c) \/ SendFailed(c)

Release == ReleaseBegin \/ HandOver \/ ReleaseEnd

Isr1 == NotifyBegin \/ Receive \/ Unlock

Next == \/ Rings \/ (\E c \in Context : Send(c)) \/ Release
        \/ Isr1 \/ TakePending \/ Init1 \/ Restart1

Spec == Init /\ [][Next]_vars

\* Interrupts are served, CM7_1 boots, and the main loops get on although
\* interrupts suspend them again and again: an interrupt ends, and the next
\* one needs another message.  Nothing makes CM7_0 ring.
Fairness ==
    /\ WF_vars(Release \/ Send("isr")) /\ WF_vars(Isr1) /\ WF_vars(Init1)
    /\ SF_vars(Send("main")) /\ SF_vars(TakePending)

FairSpec == Spec /\ Fairness

-----------------------------------------------------------------------------
(* Properties.                                                             *)

\* Every variable has its type.
TypeOK ==
    /\ pendingOut \in SUBSET Bit /\ inFlight \in BOOLEAN /\ busy \in BOOLEAN
    /\ pc0 \in [Context -> {"idle", "handover", "port", "mark", "notify",
                            "failed", "ending"}]
    /\ sendBits \in [Context -> SUBSET Bit]
    /\ message \in SUBSET Bit /\ locked \in BOOLEAN
    /\ notifyIrq \in BOOLEAN /\ releaseIrq \in BOOLEAN
    /\ up \in BOOLEAN /\ isr1 \in {"idle", "read", "release"}
    /\ pending \in SUBSET Bit /\ taken \in SUBSET Bit
    /\ restarts \in Nat /\ abandoned \in BOOLEAN

Sending(c) == pc0[c] \in {"handover", "port", "mark", "notify", "failed"}

OnWire == notifyIrq \/ isr1 = "read"

\* The places a bit that was rung may wait in.
Waits(b) ==
    [queue |-> b \in pendingOut, main |-> Sending("main") /\ b \in sendBits["main"],
     isr |-> Sending("isr") /\ b \in sendBits["isr"], wire |-> OnWire /\ b \in message]

One(present) == IF present THEN 1 ELSE 0

\* The doorbell keeps its promise: no ring is lost, also when a send is
\* refused, when the release interrupt comes in the middle of a send and when
\* CM7_1 restarts before its interrupt; none arrives twice.
Promise == INSTANCE DoorbellPromise WITH
    rung <- [b \in Bit |-> One(Waits(b).queue) + One(Waits(b).main)
                           + One(Waits(b).isr) + One(Waits(b).wire)],
    arrived <- pending, taken <- taken

ImplementsPromise == Promise!Spec

\* The channel never waits for an interrupt that nobody will raise: in_flight
\* and busy are set only while a send is under way, its message unread or
\* its release unserved, unless CM7_1 was reset inside its notify interrupt,
\* which leaves the channel locked for good.
ChannelIsServed ==
    (inFlight \/ busy \/ locked) =>
        \/ pc0["main"] # "idle" \/ pc0["isr"] # "idle"
        \/ notifyIrq \/ isr1 # "idle" \/ releaseIrq
        \/ abandoned

Outstanding(b) == \/ \E place \in {"queue", "main", "isr", "wire"} : Waits(b)[place]
                  \/ b \in pending

\* While CM7_0 goes on ringing, every bit it rang is taken by CM7_1 or lost
\* in its restart, however sends, releases and takes interleave.
EveryRingIsTaken ==
    []<><<Rings>>_vars /\ []~abandoned
        => \A b \in Bit : Outstanding(b) ~> (b \in taken \/ ~up)
=============================================================================
