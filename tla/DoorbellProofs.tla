--------------------------- MODULE DoorbellProofs ---------------------------
(***************************************************************************)
(* Proofs about Doorbell, for any set of bits and any number of restarts.  *)
(* The inductive invariant names the stage a message is in, from the send  *)
(* of the main loop to the end of the release interrupt, and what the      *)
(* registers hold at each.                                                 *)
(***************************************************************************)
EXTENDS Doorbell, TLAPS

(* The stages of a message.                                                *)

Quiet == ~ notifyIrq /\ ~ releaseIrq /\ isr1 = "idle"

BothIdle == pc0["main"] = "idle" /\ pc0["isr"] = "idle"

\* No message: the main loop may be about to send one.
Free ==
    /\ pc0["isr"] = "idle" /\ pc0["main"] \in {"idle", "port"}
    /\ Quiet /\ ~ busy /\ ~ locked /\ ~ abandoned
    /\ inFlight <=> pc0["main"] = "port"

\* The channel is locked, the endpoint is busy from the second step on.
Sent ==
    /\ pc0["isr"] = "idle" /\ pc0["main"] \in {"mark", "notify"}
    /\ Quiet /\ locked /\ inFlight /\ ~ abandoned
    /\ busy <=> pc0["main"] = "notify"

Notified ==
    /\ BothIdle
    /\ notifyIrq /\ ~ releaseIrq /\ isr1 = "idle"
    /\ locked /\ busy /\ inFlight /\ ~ abandoned

Reading ==
    /\ BothIdle
    /\ ~ notifyIrq /\ ~ releaseIrq /\ isr1 \in {"read", "release"}
    /\ locked /\ busy /\ inFlight /\ ~ abandoned

Released ==
    /\ BothIdle
    /\ ~ notifyIrq /\ releaseIrq /\ isr1 = "idle"
    /\ ~ locked /\ busy /\ inFlight /\ ~ abandoned

\* The release interrupt runs, and its hand-over is on its way to a refusal.
Releasing ==
    /\ pc0["main"] = "idle"
    /\ pc0["isr"] \in {"handover", "port", "failed", "ending"}
    /\ Quiet /\ ~ locked /\ busy /\ ~ abandoned
    /\ inFlight <=> pc0["isr"] \in {"port", "failed"}
    /\ pc0["isr"] # "ending" => pendingOut = {}

\* CM7_1 was reset before it released the channel.
Dead ==
    /\ BothIdle /\ Quiet
    /\ locked /\ busy /\ inFlight /\ abandoned

Stage == \/ Free \/ Sent \/ Notified \/ Reading
         \/ Released \/ Releasing \/ Dead

\* The message is what the main loop sends.
MessageIsSent ==
    pc0["main"] \in {"port", "mark", "notify"} => message = sendBits["main"]

IInv == TypeOK /\ Stage /\ MessageIsSent

-----------------------------------------------------------------------------
(* The invariant.                                                          *)

LEMMA InitInv == Init => IInv
  <1> SUFFICES ASSUME Init PROVE IInv
    OBVIOUS
  <1>1. TypeOK
    BY DoorbellAssumption DEF Init, TypeOK
  <1>2. pc0["main"] = "idle" /\ pc0["isr"] = "idle"
    BY DEF Init, Context
  <1>3. Stage /\ MessageIsSent
    BY <1>2 DEF Init, Stage, Free, Quiet, MessageIsSent
  <1> QED
    BY <1>1, <1>3 DEF IInv

\* Every step keeps the types.
LEMMA TypeStep == TypeOK /\ [Next]_vars => TypeOK'
  <1> SUFFICES ASSUME TypeOK, [Next]_vars PROVE TypeOK'
    OBVIOUS
  <1> USE DoorbellAssumption DEF TypeOK, Context, After, vars0, vars1, wireVars
  <1>1. ASSUME NEW bits \in (SUBSET Bit) \ {{}}, Ring(bits) PROVE TypeOK'
    <2>1. bits \cup pendingOut \in SUBSET Bit
      OBVIOUS
    <2>2. CASE inFlight
      BY <1>1, <2>1, <2>2 DEF Ring, SendBegin
    <2>3. CASE ~ inFlight
      BY <1>1, <2>1, <2>3 DEF Ring, SendBegin
    <2> QED
      BY <2>2, <2>3
  <1>2. ASSUME NEW c \in Context, PortSend(c) PROVE TypeOK'
    BY <1>2 DEF PortSend
  <1>3. ASSUME NEW c \in Context, PortMark(c) PROVE TypeOK'
    BY <1>3 DEF PortMark
  <1>4. ASSUME NEW c \in Context, SendFailed(c) PROVE TypeOK'
    BY <1>4 DEF SendFailed
  <1>5. CASE ReleaseBegin
    <2>1. /\ sendBits' \in [Context -> SUBSET Bit]
          /\ pc0' \in [Context -> {"idle", "handover", "port", "mark", "notify",
                                   "failed", "ending"}]
      BY <1>5 DEF ReleaseBegin
    <2> QED
      BY <1>5, <2>1 DEF ReleaseBegin
  <1>6. CASE HandOver
    <2>1. sendBits["isr"] \in SUBSET Bit
      OBVIOUS
    <2>2. CASE inFlight
      BY <1>6, <2>1, <2>2 DEF HandOver, SendBegin
    <2>3. CASE ~ inFlight
      BY <1>6, <2>1, <2>3 DEF HandOver, SendBegin
    <2> QED
      BY <2>2, <2>3
  <1>7. CASE ReleaseEnd
    BY <1>7 DEF ReleaseEnd
  <1>8. CASE NotifyBegin
    BY <1>8 DEF NotifyBegin
  <1>9. CASE Receive
    BY <1>9 DEF Receive
  <1>10. CASE Unlock
    BY <1>10 DEF Unlock
  <1>11. CASE TakePending
    BY <1>11 DEF TakePending
  <1>12. CASE Restart1
    <2>1. restarts' \in Nat
      BY <1>12 DEF Restart1
    <2>2. abandoned' \in BOOLEAN
      BY <1>12 DEF Restart1
    <2>3. /\ UNCHANGED <<vars0, wireVars>> /\ up' = FALSE /\ isr1' = "idle"
          /\ pending' = {} /\ taken' = {}
      BY <1>12 DEF Restart1
    <2> QED
      BY <2>1, <2>2, <2>3
  <1>13. CASE Init1
    BY <1>13 DEF Init1
  <1>14. CASE UNCHANGED vars
    BY <1>14 DEF vars
  <1> QED
    BY <1>1, <1>2, <1>3, <1>4, <1>5, <1>6, <1>7, <1>8, <1>9, <1>10, <1>11,
       <1>12, <1>13, <1>14
    DEF Next, Rings, Send, Release, Isr1

\* Every step takes a message to its next stage or leaves it where it is.
LEMMA StageStep == IInv /\ [Next]_vars => (Stage /\ MessageIsSent)'
  <1> SUFFICES ASSUME IInv, [Next]_vars PROVE (Stage /\ MessageIsSent)'
    OBVIOUS
  <1> USE DEF IInv, TypeOK, Context, After, Runs, vars0, vars1, wireVars,
          BothIdle, Quiet, MessageIsSent
  <1>1. ASSUME NEW bits \in (SUBSET Bit) \ {{}}, Ring(bits)
        PROVE (Stage /\ MessageIsSent)'
    BY <1>1 DEF Ring, SendBegin, Stage, Free, Sent, Notified, Reading, Released,
                Releasing, Dead
  <1>2. ASSUME NEW c \in Context, PortSend(c) PROVE (Stage /\ MessageIsSent)'
    BY <1>2 DEF PortSend, Stage, Free, Sent, Notified, Reading, Released,
                Releasing, Dead
  <1>3. ASSUME NEW c \in Context, PortMark(c) PROVE (Stage /\ MessageIsSent)'
    BY <1>3 DEF PortMark, Stage, Free, Sent, Notified, Reading, Released,
                Releasing, Dead
  <1>4. ASSUME NEW c \in Context, SendFailed(c) PROVE (Stage /\ MessageIsSent)'
    <2>1. c = "isr" /\ Releasing
      BY <1>4 DEF SendFailed, Stage, Free, Sent, Notified, Reading, Released,
                  Releasing, Dead
    <2>2. pc0'["main"] = "idle" /\ pc0'["isr"] = "ending" /\ ~ inFlight'
      BY <1>4, <2>1 DEF SendFailed, Releasing
    <2>3. Releasing'
      BY <1>4, <2>1, <2>2 DEF SendFailed, Releasing
    <2> QED
      BY <2>2, <2>3 DEF Stage
  <1>5. CASE ReleaseBegin
    <2>1. Released
      BY <1>5 DEF ReleaseBegin, Stage, Free, Sent, Notified, Reading, Released,
                  Releasing, Dead
    <2>2. /\ pc0'["main"] = "idle" /\ ~ inFlight' /\ pendingOut' = {}
          /\ pc0'["isr"] \in {"ending", "handover"}
      BY <1>5, <2>1 DEF ReleaseBegin, Released
    <2>3. Releasing'
      BY <1>5, <2>1, <2>2 DEF ReleaseBegin, Released, Releasing
    <2> QED
      BY <2>2, <2>3 DEF Stage
  <1>6. CASE HandOver
    BY <1>6 DEF HandOver, SendBegin, Stage, Free, Sent, Notified, Reading,
                Released, Releasing, Dead
  <1>7. CASE ReleaseEnd
    BY <1>7 DEF ReleaseEnd, Stage, Free, Sent, Notified, Reading, Released,
                Releasing, Dead
  <1>8. CASE NotifyBegin
    BY <1>8 DEF NotifyBegin, Stage, Free, Sent, Notified, Reading, Released,
                Releasing, Dead
  <1>9. CASE Receive
    BY <1>9 DEF Receive, Stage, Free, Sent, Notified, Reading, Released,
                Releasing, Dead
  <1>10. CASE Unlock
    BY <1>10 DEF Unlock, Stage, Free, Sent, Notified, Reading, Released,
                 Releasing, Dead
  <1>11. CASE TakePending
    BY <1>11 DEF TakePending, Stage, Free, Sent, Notified, Reading, Released,
                 Releasing, Dead
  <1>12. CASE Restart1
    BY <1>12 DEF Restart1, Stage, Free, Sent, Notified, Reading, Released,
                 Releasing, Dead
  <1>13. CASE Init1
    BY <1>13 DEF Init1, Stage, Free, Sent, Notified, Reading, Released,
                 Releasing, Dead
  <1>14. CASE UNCHANGED vars
    BY <1>14 DEF vars, Stage, Free, Sent, Notified, Reading, Released,
                 Releasing, Dead
  <1> QED
    BY <1>1, <1>2, <1>3, <1>4, <1>5, <1>6, <1>7, <1>8, <1>9, <1>10, <1>11,
       <1>12, <1>13, <1>14
    DEF Next, Rings, Send, Release, Isr1

LEMMA InvStep == IInv /\ [Next]_vars => IInv'
  BY TypeStep, StageStep DEF IInv

\* The invariant holds in every reachable state.
THEOREM Invariance == Spec => []IInv
  BY InitInv, InvStep, PTL DEF Spec

\* Every variable of the doorbell has its type.
THEOREM TypeCorrect == Spec => []TypeOK
  BY Invariance, PTL DEF IInv

\* The channel never waits for an interrupt that nobody will raise.
THEOREM Served == Spec => []ChannelIsServed
  <1>1. IInv => ChannelIsServed
    BY DEF IInv, Stage, Free, Sent, Notified, Reading, Released, Releasing, Dead,
           BothIdle, Quiet, ChannelIsServed
  <1> QED
    BY <1>1, Invariance, PTL

-----------------------------------------------------------------------------
(* The promise.                                                            *)

\* What rung stands for in the refinement mapping.
Rung == [b \in Bit |-> One(Waits(b).queue) + One(Waits(b).main)
                      + One(Waits(b).isr) + One(Waits(b).wire)]

\* A bit waits in the queue, in a send of either context and on the wire.
LEMMA RungIs ==
  ASSUME NEW b \in Bit
  PROVE  Rung[b] = One(b \in pendingOut)
                   + One(Sending("main") /\ b \in sendBits["main"])
                   + One(Sending("isr") /\ b \in sendBits["isr"])
                   + One(OnWire /\ b \in message)
  BY DEF Rung, Waits

\* The same after a step.
LEMMA RungIsNext ==
  ASSUME NEW b \in Bit
  PROVE  Rung'[b] = One(b \in pendingOut')
                    + One(Sending("main")' /\ b \in sendBits'["main"])
                    + One(Sending("isr")' /\ b \in sendBits'["isr"])
                    + One(OnWire' /\ b \in message')
  BY DEF Rung, Waits

\* A step that leaves every bit as many places to wait in leaves rung alone.
LEMMA RungKept ==
  ASSUME \A b \in Bit : Rung'[b] = Rung[b]
  PROVE  Rung' = Rung
  BY DEF Rung

\* A ring adds the bits that do not wait in the queue.
LEMMA RingStep ==
  ASSUME IInv, NEW bits \in (SUBSET Bit) \ {{}}, Ring(bits)
  PROVE  \A b \in Bit : Rung'[b] = IF b \in bits \ (bits \cap pendingOut)
                                   THEN Rung[b] + 1 ELSE Rung[b]
  <1> SUFFICES ASSUME NEW b \in Bit
               PROVE  Rung'[b] = IF b \in bits \ (bits \cap pendingOut)
                                 THEN Rung[b] + 1 ELSE Rung[b]
    OBVIOUS
  <1> USE DEF Context
  <1>1. pc0["main"] = "idle" /\ pc0["isr"] = "idle"
    BY DEF Ring, Runs
  <1>2. ~ Sending("main") /\ ~ Sending("isr")
    BY <1>1 DEF Sending
  <1>3. CASE inFlight
    <2>1. /\ pendingOut' = pendingOut \cup bits
          /\ pc0' = [pc0 EXCEPT !["main"] = "idle"]
          /\ UNCHANGED <<sendBits, message, notifyIrq, isr1>>
      BY <1>3 DEF Ring, SendBegin, After, vars1
    <2>2. ~ Sending("main")' /\ ~ Sending("isr")' /\ (OnWire' <=> OnWire)
      BY <1>1, <2>1 DEF Sending, OnWire, IInv, TypeOK
    <2> QED
      BY <1>2, <2>1, <2>2, RungIs, RungIsNext DEF One
  <1>4. CASE ~ inFlight
    <2>1. /\ pendingOut' = {}
          /\ sendBits' = [sendBits EXCEPT !["main"] = bits \cup pendingOut]
          /\ pc0' = [pc0 EXCEPT !["main"] = "port"]
          /\ UNCHANGED <<notifyIrq, isr1>>
      BY <1>4 DEF Ring, SendBegin, vars1
    <2>2. ~ OnWire
      BY <1>1, <1>4 DEF IInv, Stage, Free, Sent, Notified, Reading, Released,
                        Releasing, Dead, BothIdle, Quiet, OnWire
    <2>3. ~ OnWire'
      BY <2>1, <2>2 DEF OnWire
    <2>4. Sending("main")' /\ ~ Sending("isr")'
      BY <1>1, <2>1 DEF Sending, IInv, TypeOK
    <2>5. sendBits'["main"] = bits \cup pendingOut
      BY <2>1 DEF IInv, TypeOK
    <2> QED
      BY <1>2, <2>1, <2>2, <2>3, <2>4, <2>5, RungIs, RungIsNext DEF One
  <1> QED
    BY <1>3, <1>4

\* A send that is not refused moves its bits from the main loop to the wire,
\* one that is refused gives them back to the queue.
LEMMA SendKeeps ==
  ASSUME IInv, NEW c \in Context, Send(c)
  PROVE  Rung' = Rung
  <1> USE DEF Context
  <1>1. CASE PortSend(c)
    <2>1. pc0[c] = "port" /\ (pc0'[c] \in {"failed", "mark"})
          /\ (\A d \in Context \ {c} : pc0'[d] = pc0[d])
          /\ UNCHANGED <<pendingOut, sendBits, message, notifyIrq, isr1>>
      BY <1>1 DEF PortSend, IInv, TypeOK, vars1
    <2>2. (Sending("main")' <=> Sending("main"))
          /\ (Sending("isr")' <=> Sending("isr"))
      BY <2>1 DEF Sending
    <2>3. OnWire' <=> OnWire
      BY <2>1 DEF OnWire
    <2>4. ASSUME NEW b \in Bit PROVE Rung'[b] = Rung[b]
      BY <2>1, <2>2, <2>3, RungIs, RungIsNext DEF One
    <2> QED
      BY <2>4, RungKept
  <1>2. CASE PortMark(c)
    <2>1. c = "main" /\ Sent /\ pc0["isr"] = "idle"
      BY <1>2 DEF PortMark, IInv, Stage, Free, Sent, Notified, Reading, Released,
                  Releasing, Dead, BothIdle
    <2>2. /\ UNCHANGED <<pendingOut, sendBits, message, isr1>>
          /\ isr1 = "idle" /\ ~ notifyIrq /\ pc0'["isr"] = "idle"
          /\ message = sendBits["main"] /\ Sending("main")
      BY <1>2, <2>1 DEF PortMark, IInv, TypeOK, MessageIsSent, Sent, Quiet, vars1,
                        Sending
    <2>3. ~ Sending("isr") /\ ~ Sending("isr")' /\ ~ OnWire
      BY <2>1, <2>2 DEF Sending, OnWire
    <2>4. CASE pc0["main"] = "mark"
      <3>1. pc0'["main"] = "notify" /\ notifyIrq' = notifyIrq
        BY <1>2, <2>1, <2>4 DEF PortMark, IInv, TypeOK
      <3>2. Sending("main")' /\ ~ OnWire'
        BY <2>2, <3>1 DEF Sending, OnWire
      <3>3. ASSUME NEW b \in Bit PROVE Rung'[b] = Rung[b]
        BY <2>2, <2>3, <3>2, RungIs, RungIsNext DEF One
      <3> QED
        BY <3>3, RungKept
    <2>5. CASE pc0["main"] = "notify"
      <3>1. pc0'["main"] = "idle" /\ notifyIrq'
        BY <1>2, <2>1, <2>5 DEF PortMark, IInv, TypeOK, After
      <3>2. ~ Sending("main")' /\ OnWire'
        BY <3>1 DEF Sending, OnWire
      <3>3. ASSUME NEW b \in Bit PROVE Rung'[b] = Rung[b]
        BY <2>2, <2>3, <3>2, RungIs, RungIsNext DEF One
      <3> QED
        BY <3>3, RungKept
    <2> QED
      BY <2>1, <2>4, <2>5 DEF Sent
  <1>3. CASE SendFailed(c)
    <2>1. c = "isr" /\ Releasing /\ pc0["isr"] = "failed" /\ pendingOut = {}
      BY <1>3 DEF SendFailed, IInv, Stage, Free, Sent, Notified, Reading,
                  Released, Releasing, Dead, BothIdle
    <2>2. /\ pendingOut' = pendingOut \cup sendBits["isr"]
          /\ pc0'["isr"] = "ending" /\ pc0'["main"] = pc0["main"]
          /\ UNCHANGED <<sendBits, message, notifyIrq, isr1>>
      BY <1>3, <2>1 DEF SendFailed, IInv, TypeOK, After, wireVars, vars1
    <2>3. /\ Sending("isr") /\ ~ Sending("isr")' /\ (OnWire' <=> OnWire)
          /\ (Sending("main")' <=> Sending("main"))
      BY <2>1, <2>2 DEF Sending, OnWire
    <2>4. ASSUME NEW b \in Bit PROVE Rung'[b] = Rung[b]
      BY <2>1, <2>2, <2>3, RungIs, RungIsNext DEF One
    <2> QED
      BY <2>4, RungKept
  <1> QED
    BY <1>1, <1>2, <1>3 DEF Send

\* The release interrupt takes the queued bits and gives them back.
LEMMA ReleaseKeeps ==
  ASSUME IInv, Release
  PROVE  Rung' = Rung
  <1> USE DEF Context
  <1>1. CASE ReleaseBegin
    <2>1. /\ pc0["isr"] = "idle" /\ pendingOut' = {}
          /\ sendBits' = [sendBits EXCEPT !["isr"] = pendingOut]
          /\ pc0'["isr"] = (IF pendingOut = {} THEN "ending" ELSE "handover")
          /\ pc0'["main"] = pc0["main"]
          /\ UNCHANGED <<message, notifyIrq, isr1>>
      BY <1>1 DEF ReleaseBegin, IInv, TypeOK, vars1
    <2>2. sendBits'["isr"] = pendingOut /\ sendBits'["main"] = sendBits["main"]
      BY <2>1 DEF IInv, TypeOK
    <2>3. /\ ~ Sending("isr") /\ (Sending("isr")' <=> pendingOut # {})
          /\ (OnWire' <=> OnWire) /\ (Sending("main")' <=> Sending("main"))
      BY <2>1 DEF Sending, OnWire
    <2>4. ASSUME NEW b \in Bit PROVE Rung'[b] = Rung[b]
      BY <2>1, <2>2, <2>3, RungIs, RungIsNext DEF One
    <2> QED
      BY <2>4, RungKept
  <1>2. CASE HandOver
    <2>1. Releasing /\ pendingOut = {} /\ ~ inFlight
      BY <1>2 DEF HandOver, IInv, Stage, Free, Sent, Notified, Reading,
                  Released, Releasing, Dead, BothIdle
    <2>2. /\ pc0["isr"] = "handover" /\ pc0'["isr"] = "port"
          /\ pc0["main"] = "idle" /\ pc0'["main"] = "idle"
          /\ pendingOut' = {}
          /\ sendBits' = [sendBits EXCEPT !["isr"] = sendBits["isr"] \cup pendingOut]
          /\ UNCHANGED <<notifyIrq, isr1>>
      BY <1>2, <2>1 DEF HandOver, SendBegin, Releasing, IInv, TypeOK, vars1
    <2>3. sendBits'["isr"] = sendBits["isr"] /\ sendBits'["main"] = sendBits["main"]
      BY <2>1, <2>2 DEF IInv, TypeOK
    <2>4. /\ Sending("isr") /\ Sending("isr")' /\ ~ OnWire /\ ~ OnWire'
          /\ ~ Sending("main") /\ ~ Sending("main")'
      BY <2>1, <2>2 DEF Sending, OnWire, Releasing, Quiet
    <2>5. ASSUME NEW b \in Bit PROVE Rung'[b] = Rung[b]
      BY <2>1, <2>2, <2>3, <2>4, RungIs, RungIsNext DEF One
    <2> QED
      BY <2>5, RungKept
  <1>3. CASE ReleaseEnd
    <2>1. /\ pc0["isr"] = "ending" /\ pc0'["isr"] = "idle"
          /\ pc0'["main"] = pc0["main"]
          /\ UNCHANGED <<pendingOut, sendBits, message, notifyIrq, isr1>>
      BY <1>3 DEF ReleaseEnd, IInv, TypeOK, wireVars, vars1
    <2>2. /\ ~ Sending("isr") /\ ~ Sending("isr")' /\ (OnWire' <=> OnWire)
          /\ (Sending("main")' <=> Sending("main"))
      BY <2>1 DEF Sending, OnWire
    <2>3. ASSUME NEW b \in Bit PROVE Rung'[b] = Rung[b]
      BY <2>1, <2>2, RungIs, RungIsNext DEF One
    <2> QED
      BY <2>3, RungKept
  <1> QED
    BY <1>1, <1>2, <1>3 DEF Release

\* What CM7_1 reads is on the wire until it has read it.
LEMMA WireLeaves ==
  ASSUME IInv, UNCHANGED vars0, UNCHANGED message, OnWire, ~ OnWire'
  PROVE  /\ \A b \in message : Rung[b] > 0
         /\ \A b \in Bit : Rung'[b] = IF b \in message THEN Rung[b] - 1 ELSE Rung[b]
  <1> USE DEF Context
  <1>1. message \subseteq Bit
    BY DEF IInv, TypeOK
  <1>2. /\ (Sending("main")' <=> Sending("main"))
        /\ (Sending("isr")' <=> Sending("isr"))
        /\ UNCHANGED <<pendingOut, sendBits, message>>
    BY DEF Sending, vars0
  <1>3. ~ Sending("main") /\ ~ Sending("isr")
    BY DEF IInv, Stage, Free, Sent, Notified, Reading, Released, Releasing, Dead,
           BothIdle, Quiet, OnWire, Sending
  <1>4. ASSUME NEW b \in Bit
        PROVE  /\ b \in message => Rung[b] > 0
               /\ Rung'[b] = IF b \in message THEN Rung[b] - 1 ELSE Rung[b]
    BY <1>2, <1>3, RungIs, RungIsNext DEF One
  <1> QED
    BY <1>1, <1>4

\* Nothing else on the wire changes what waits.
LEMMA WireKeeps ==
  ASSUME UNCHANGED vars0, UNCHANGED message, OnWire' <=> OnWire
  PROVE  Rung' = Rung
  <1>1. /\ (Sending("main")' <=> Sending("main"))
        /\ (Sending("isr")' <=> Sending("isr"))
        /\ UNCHANGED <<pendingOut, sendBits, message>>
    BY DEF Sending, vars0
  <1>2. ASSUME NEW b \in Bit PROVE Rung'[b] = Rung[b]
    BY <1>1, RungIs, RungIsNext DEF One
  <1> QED
    BY <1>2, RungKept

\* Every step of the doorbell is one of the promise or changes nothing of it.
LEMMA PromiseStep == IInv /\ [Next]_vars => [Promise!Next]_(Promise!vars)
  <1> SUFFICES ASSUME IInv, [Next]_vars PROVE [Promise!Next]_(Promise!vars)
    OBVIOUS
  <1> USE DEF Context
  <1>0. ASSUME Rung' = Rung, UNCHANGED <<pending, taken>>
        PROVE  UNCHANGED Promise!vars
    BY <1>0 DEF Promise!vars, Rung
  <1>1. ASSUME NEW bits \in (SUBSET Bit) \ {{}}, Ring(bits) PROVE Promise!Ring
    <2>1. \A b \in Bit : Rung'[b] = IF b \in bits \ (bits \cap pendingOut)
                                    THEN Rung[b] + 1 ELSE Rung[b]
      BY <1>1, RingStep
    <2>2. Rung' = [b \in Bit |-> IF b \in bits \ (bits \cap pendingOut)
                                 THEN Rung[b] + 1 ELSE Rung[b]]
      BY <2>1 DEF Rung
    <2>3. ASSUME NEW b \in bits \cap pendingOut PROVE Rung[b] > 0
      BY RungIs DEF One
    <2>4. bits \cap pendingOut \in SUBSET Bit
      OBVIOUS
    <2>5. UNCHANGED <<pending, taken>>
      BY <1>1 DEF Ring, vars1
    <2> QED
      BY <1>1, <2>2, <2>3, <2>4, <2>5 DEF Promise!Ring, Rung
  <1>2. ASSUME NEW c \in Context, Send(c) PROVE UNCHANGED Promise!vars
    <2>1. UNCHANGED <<pending, taken>>
      BY <1>2 DEF Send, PortSend, PortMark, SendFailed, vars1
    <2> QED
      BY <1>0, <1>2, <2>1, SendKeeps
  <1>3. CASE Release
    <2>1. UNCHANGED <<pending, taken>>
      BY <1>3 DEF Release, ReleaseBegin, HandOver, ReleaseEnd, vars1
    <2> QED
      BY <1>0, <1>3, <2>1, ReleaseKeeps
  <1>4. CASE NotifyBegin
    <2>1. locked /\ isr1 = "idle" /\ notifyIrq
      BY <1>4 DEF NotifyBegin, IInv, Stage, Free, Sent, Notified, Reading,
                  Released, Releasing, Dead, BothIdle, Quiet
    <2>2. /\ isr1' = "read" /\ UNCHANGED <<pending, taken>>
          /\ UNCHANGED vars0 /\ UNCHANGED message
      BY <1>4, <2>1 DEF NotifyBegin
    <2>3. OnWire /\ OnWire'
      BY <2>1, <2>2 DEF OnWire
    <2> QED
      BY <1>0, <2>2, <2>3, WireKeeps
  <1>5. CASE Receive
    <2>1. /\ UNCHANGED vars0 /\ UNCHANGED message /\ taken' = taken
          /\ pending' = pending \cup message
          /\ isr1 = "read" /\ isr1' = "release" /\ notifyIrq' = notifyIrq
      BY <1>5 DEF Receive, wireVars
    <2>2. ~ notifyIrq
      BY <2>1 DEF IInv, Stage, Free, Sent, Notified, Reading, Released,
                  Releasing, Dead, BothIdle, Quiet
    <2>3. OnWire /\ ~ OnWire'
      BY <2>1, <2>2 DEF OnWire
    <2>4. /\ \A b \in message : Rung[b] > 0
          /\ \A b \in Bit : Rung'[b] = IF b \in message THEN Rung[b] - 1
                                                        ELSE Rung[b]
      BY <2>1, <2>3, WireLeaves
    <2>5. Rung' = [b \in Bit |-> IF b \in message THEN Rung[b] - 1 ELSE Rung[b]]
      BY <2>4 DEF Rung
    <2>6. message \in SUBSET Bit
      BY DEF IInv, TypeOK
    <2>7. Promise!Arrive
      BY <2>1, <2>4, <2>5, <2>6 DEF Promise!Arrive, Promise!Fewer, Rung
    <2> QED
      BY <2>7 DEF Promise!Next
  <1>6. CASE Unlock
    <2>1. /\ UNCHANGED vars0 /\ UNCHANGED message /\ UNCHANGED <<pending, taken>>
          /\ isr1 = "release" /\ isr1' = "idle" /\ notifyIrq' = notifyIrq
      BY <1>6 DEF Unlock
    <2>2. OnWire' <=> OnWire
      BY <2>1 DEF OnWire
    <2> QED
      BY <1>0, <2>1, <2>2, WireKeeps
  <1>7. CASE TakePending
    <2>1. /\ UNCHANGED vars0 /\ UNCHANGED message /\ (OnWire' <=> OnWire)
          /\ taken' = pending /\ pending' = {}
      BY <1>7 DEF TakePending, wireVars, OnWire
    <2>2. Rung' = Rung
      BY <2>1, WireKeeps
    <2> QED
      BY <2>1, <2>2 DEF Promise!Next, Promise!Take, Rung
  <1>8. CASE Restart1
    <2>1. /\ UNCHANGED vars0 /\ UNCHANGED message /\ notifyIrq' = notifyIrq
          /\ isr1' = "idle" /\ taken' = {} /\ pending' = {}
      BY <1>8 DEF Restart1, wireVars
    <2>2. CASE OnWire /\ ~ OnWire'
      <3>1. /\ \A b \in message : Rung[b] > 0
            /\ \A b \in Bit : Rung'[b] = IF b \in message THEN Rung[b] - 1
                                                          ELSE Rung[b]
        BY <2>1, <2>2, WireLeaves
      <3>2. Rung' = [b \in Bit |-> IF b \in message THEN Rung[b] - 1 ELSE Rung[b]]
        BY <3>1 DEF Rung
      <3>3. message \in SUBSET Bit
        BY DEF IInv, TypeOK
      <3> QED
        BY <2>1, <3>1, <3>2, <3>3 DEF Promise!Next, Promise!Reset, Promise!Fewer,
                                      Rung
    <2>3. CASE OnWire' <=> OnWire
      <3>1. Rung' = Rung
        BY <2>1, <2>3, WireKeeps
      <3>2. Rung' = [b \in Bit |-> IF b \in {} THEN Rung[b] - 1 ELSE Rung[b]]
        BY <3>1 DEF Rung
      <3>3. {} \in SUBSET Bit /\ \A b \in {} : Rung[b] > 0
        OBVIOUS
      <3> QED
        BY <2>1, <3>2, <3>3 DEF Promise!Next, Promise!Reset, Promise!Fewer, Rung
    <2>4. OnWire' => OnWire
      BY <2>1 DEF OnWire
    <2> QED
      BY <2>2, <2>3, <2>4
  <1>9. CASE Init1
    <2>1. /\ UNCHANGED vars0 /\ UNCHANGED message /\ (OnWire' <=> OnWire)
          /\ UNCHANGED <<pending, taken>>
      BY <1>9 DEF Init1, wireVars, OnWire
    <2> QED
      BY <1>0, <2>1, WireKeeps
  <1>10. CASE UNCHANGED vars
    <2>1. /\ UNCHANGED vars0 /\ UNCHANGED message /\ (OnWire' <=> OnWire)
          /\ UNCHANGED <<pending, taken>>
      BY <1>10 DEF vars, wireVars, vars1, OnWire
    <2> QED
      BY <1>0, <2>1, WireKeeps
  <1> QED
    BY <1>1, <1>2, <1>3, <1>4, <1>5, <1>6, <1>7, <1>8, <1>9, <1>10
    DEF Next, Rings, Isr1, Promise!Next

\* The doorbell keeps its promise.
THEOREM Promised == Spec => ImplementsPromise
  <1>1. Init => Promise!Init
    <2> SUFFICES ASSUME Init PROVE Promise!Init
      OBVIOUS
    <2>1. ~ Sending("main") /\ ~ Sending("isr") /\ ~ OnWire
      BY DEF Init, Context, Sending, OnWire
    <2>2. ASSUME NEW b \in Bit PROVE Rung[b] = 0
      BY <2>1, RungIs DEF Init, One
    <2>3. Rung = [b \in Bit |-> 0]
      BY <2>2 DEF Rung
    <2> QED
      BY <2>3 DEF Init, Promise!Init, Rung
  <1> QED
    BY <1>1, PromiseStep, Invariance, PTL DEF Spec, ImplementsPromise,
       Promise!Spec
=============================================================================
