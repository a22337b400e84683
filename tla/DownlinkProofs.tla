--------------------------- MODULE DownlinkProofs ---------------------------
(***************************************************************************)
(* Proofs about the Wi-Fi to USB path and tinyusb_net_send_sync within it, *)
(* for any number of slots and frames, any capacity of TinyUSB's queue and *)
(* any bounds on the environment.                                          *)
(*                                                                         *)
(* First the call.  Its semaphore is the right to use the packet.  It      *)
(* exists only while a call is between Give and TakeSema, and is then      *)
(* either up or with the TinyUSB task (Custody).  That alone keeps the     *)
(* packet alive under any delay.  That it is also used at most once holds  *)
(* until a do_send_sync left over from an earlier call finds it: the one   *)
(* that uses it is then this call's own, so none is still to come once it  *)
(* is in use or its fate decided (OneSender).                              *)
(***************************************************************************)
EXTENDS Downlink, LinkProofs, FiniteSetTheorems, SequenceTheorems

USE DEF netHistory

Waiting == sendPc \in {"defer", "wait", "take"}

Custody ==
    /\ packet # NoPacket <=> sendPc \in {"give", "defer", "wait", "take", "retire"}
    /\ packet # NoPacket => packet.slot = sendSlot
    /\ Waiting <=> sema \/ UsbHolds
    /\ ~(sema /\ UsbHolds)

\* What the packet's result says of the copies made, and the bit of the result.
Record ==
    /\ usbPc = "release" => copies > 0
    /\ packet # NoPacket =>
          /\ packet.result = "timeout" => copies = 0 \/ usbPc = "release"
          /\ packet.result = "ok" => copies > 0
    /\ usbPc \in {"signal", "give"} => packet.result # "timeout"
    /\ sendPc \in {"publish", "give"} => ~txFinished
    /\ txFinished /\ Waiting => packet.result # "timeout"
    /\ sendPc = "returned" =>
          /\ sendResult = "timeout" => copies = 0
          /\ sendResult = "ok" => copies > 0
    /\ woken => sendPc \in {"take", "retire", "returned"}
    /\ woken /\ packet # NoPacket => packet.result # "timeout"
    /\ woken /\ sendPc = "returned" => sendResult # "timeout"

NetInv == NetTypeOK /\ Custody /\ Record

InDeferred == \E k \in DOMAIN deferred : deferred[k] = "send"
\* The packet is in use, or has been used.
Used == UsbHolds \/ (packet # NoPacket /\ packet.result # "timeout")
OneSender ==
    /\ Used => ~InDeferred /\ usbPc # "take" /\ sendPc \notin {"give", "defer"}
    /\ usbPc \in {"xmit", "release"} => packet.result = "timeout"
    /\ usbPc = "release" => copies = 1
    /\ packet # NoPacket =>
          (copies = IF packet.result = "ok" \/ usbPc = "release" THEN 1 ELSE 0)
    /\ copies <= 1
    /\ sendPc = "returned" /\ sendResult \in {"ok", "fail", "timeout"}
          => (sendResult = "ok" <=> copies > 0)

NetSendInv == NetInv /\ (~strayed => OneSender)

-----------------------------------------------------------------------------
\* The wrapper starts with no call, no packet and nothing deferred.
LEMMA NetInitInv == NetInit => NetSendInv
<1> SUFFICES ASSUME NetInit PROVE NetSendInv
    OBVIOUS
<1>1. NetTypeOK
  <2>1. 0 \in Slots
    BY UsbNetAssumption DEF Slots
  <2>2. <<>> \in Seq({"send", "link"})
    OBVIOUS
  <2> QED BY <2>1, <2>2 DEF NetInit, NetTypeOK, Results
<1>2. Custody /\ Record
    BY DEF NetInit, Custody, Record, Waiting, UsbHolds
<1>3. OneSender
  <2>1. DOMAIN deferred = {}
    BY DEF NetInit
  <2> QED BY <2>1 DEF NetInit, OneSender, UsbHolds, InDeferred, Used
<1> QED BY <1>1, <1>2, <1>3 DEF NetSendInv, NetInv

\* Every step of the caller and of the TinyUSB task keeps the variables in
\* their types.
LEMMA NetType ==
    ASSUME NetTypeOK, Custody, [NetNext]_netVars
    PROVE  NetTypeOK'
<1> USE DEF NetTypeOK
<1>0. CASE UNCHANGED netVars
    BY <1>0 DEF netVars
<1>1. ASSUME NEW s \in Slots, Call(s)
      PROVE  NetTypeOK'
    BY <1>1 DEF Call
<1>2. CASE Consume
    BY <1>2 DEF Consume
<1>3. CASE DeferLink
    BY <1>3 DEF DeferLink, Defer
<1>4. CASE UsbReady
    BY <1>4 DEF UsbReady
<1>5. CASE CheckReady
    BY <1>5 DEF CheckReady, Return, Results
<1>6. CASE ClearBits
    BY <1>6 DEF ClearBits
<1>7. CASE Publish
    BY <1>7 DEF Publish, Packets
<1>8. CASE Give
    BY <1>8 DEF Give
<1>9. CASE DeferSend
    BY <1>9 DEF DeferSend, Defer
<1>10. CASE WaitBits
    BY <1>10 DEF WaitBits, WokenByBit, DeadlinePasses
<1>11. CASE TakeSema
    BY <1>11 DEF TakeSema
<1>12. CASE Retire
  <2>1. packet \in Packets
    BY <1>12 DEF Retire, Custody
  <2> QED BY <1>12, <2>1 DEF Retire, Return, Packets, Results
<1>13. CASE UsbNext
    BY <1>13 DEF UsbNext
<1>14. CASE UsbTake
    BY <1>14 DEF UsbTake
<1>15. CASE UsbRefuse \/ UsbRelease
  <2>1. packet \in Packets
    BY <1>15 DEF UsbRefuse, UsbRelease, Custody, Waiting, UsbHolds
  <2> QED BY <1>15, <2>1 DEF UsbRefuse, UsbRelease, Packets
<1>16. CASE UsbCopy
    BY <1>16 DEF UsbCopy
<1>17. CASE UsbSignal
    BY <1>17 DEF UsbSignal
<1>18. CASE UsbGive
    BY <1>18 DEF UsbGive
<1>19. CASE UsbLink
    BY <1>19 DEF UsbLink
<1> QED
    BY <1>0, <1>1, <1>2, <1>3, <1>4, <1>5, <1>6, <1>7, <1>8, <1>9, <1>10,
       <1>11, <1>12, <1>13, <1>14, <1>15, <1>16, <1>17, <1>18, <1>19
    DEF NetNext, SendStep, UsbStep, DoSendSync

\* Every step leaves the semaphore where the protocol wants it, and the record
\* of the packet's fate truthful.
LEMMA NetCustody ==
    ASSUME NetInv, [NetNext]_netVars
    PROVE  Custody' /\ Record'
<1> USE UsbNetAssumption
    DEF NetInv, Custody, Record, Waiting, UsbHolds
<1>a. packet # NoPacket => packet \in Packets
    BY DEF NetTypeOK
<1>0. CASE UNCHANGED netVars
    BY <1>0 DEF netVars
<1>1. ASSUME NEW s \in Slots, Call(s)
      PROVE  Custody' /\ Record'
    BY <1>1 DEF Call, NetTypeOK
<1>2. CASE Consume
    BY <1>2 DEF Consume, NetTypeOK
<1>3. CASE DeferLink
    BY <1>3 DEF DeferLink
<1>4. CASE UsbReady
    BY <1>4 DEF UsbReady
<1>5. CASE CheckReady
    BY <1>5 DEF CheckReady, Return, NetTypeOK
<1>6. CASE ClearBits
    BY <1>6 DEF ClearBits, NetTypeOK
<1>7. CASE Publish
    BY <1>7 DEF Publish, NetTypeOK, Packets
<1>8. CASE Give
    BY <1>8 DEF Give, NetTypeOK
<1>9. CASE DeferSend
    BY <1>9 DEF DeferSend, NetTypeOK
<1>10. CASE WaitBits
    BY <1>10 DEF WaitBits, WokenByBit, DeadlinePasses, NetTypeOK
<1>11. CASE TakeSema
    BY <1>11 DEF TakeSema, NetTypeOK
<1>12. CASE Retire
    BY <1>12 DEF Retire, Return, NetTypeOK
<1>13. CASE UsbNext
    BY <1>13 DEF UsbNext, NetTypeOK
<1>14. CASE UsbTake
    BY <1>14 DEF UsbTake, NetTypeOK
<1>15. CASE UsbRefuse
    BY <1>15, <1>a DEF UsbRefuse, NetTypeOK, Packets
<1>16. CASE UsbCopy
    BY <1>16 DEF UsbCopy, NetTypeOK
<1>17. CASE UsbRelease
    BY <1>17, <1>a DEF UsbRelease, NetTypeOK, Packets
<1>18. CASE UsbSignal
    BY <1>18 DEF UsbSignal, NetTypeOK
<1>19. CASE UsbGive
    BY <1>19 DEF UsbGive, NetTypeOK
<1>20. CASE UsbLink
    BY <1>20 DEF UsbLink, NetTypeOK
<1> QED
    BY <1>0, <1>1, <1>2, <1>3, <1>4, <1>5, <1>6, <1>7, <1>8, <1>9, <1>10,
       <1>11, <1>12, <1>13, <1>14, <1>15, <1>16, <1>17, <1>18, <1>19, <1>20
    DEF NetNext, SendStep, UsbStep, DoSendSync

\* What deferring and dispatching do to the positions in the queue.
LEMMA AppendAt ==
    ASSUME NEW S, NEW q \in Seq(S), NEW e \in S
    PROVE  /\ DOMAIN Append(q, e) = 1 .. Len(q) + 1
           /\ \A k \in DOMAIN q : k \in DOMAIN Append(q, e) /\ Append(q, e)[k] = q[k]
           /\ \A k \in DOMAIN Append(q, e) :
                 Append(q, e)[k] = IF k = Len(q) + 1 THEN e ELSE q[k]
           /\ \A k \in DOMAIN Append(q, e) : k # Len(q) + 1 => k \in DOMAIN q
           /\ Len(q) + 1 \in DOMAIN Append(q, e)
OBVIOUS

\* The entries that are left move up by one.
LEMMA TailAt ==
    ASSUME NEW S, NEW q \in Seq(S), q # <<>>
    PROVE  /\ 1 \in DOMAIN q /\ Head(q) = q[1]
           /\ \A k \in DOMAIN Tail(q) :
                 k \in Nat \ {0} /\ k + 1 \in DOMAIN q /\ Tail(q)[k] = q[k + 1]
           /\ \A k \in DOMAIN q : k = 1 \/ (k - 1 \in DOMAIN Tail(q) /\ Tail(q)[k - 1] = q[k])
OBVIOUS

\* Until a left-over do_send_sync strays, the one that uses a packet is its own
\* call's, and no other is to come.
LEMMA NetOneSender ==
    ASSUME NetInv, OneSender, [NetNext]_netVars, ~strayed'
    PROVE  OneSender'
<1> USE UsbNetAssumption
    DEF NetInv, OneSender, Custody, Waiting, UsbHolds, InDeferred, Used
<1>a. packet # NoPacket => packet \in Packets
    BY DEF NetTypeOK
<1>0. CASE UNCHANGED netVars
    BY <1>0 DEF netVars
<1>1. ASSUME NEW s \in Slots, Call(s)
      PROVE  OneSender'
    BY <1>1 DEF Call, NetTypeOK
<1>2. CASE Consume
    BY <1>2 DEF Consume, NetTypeOK
<1>3. CASE DeferLink
    BY <1>3, AppendAt DEF DeferLink, Defer, NetTypeOK
<1>4. CASE UsbReady
    BY <1>4 DEF UsbReady
<1>5. CASE CheckReady
    BY <1>5 DEF CheckReady, Return, NetTypeOK
<1>6. CASE ClearBits
    BY <1>6 DEF ClearBits, NetTypeOK
<1>7. CASE Publish
    BY <1>7 DEF Publish, NetTypeOK, Packets
<1>8. CASE Give
    BY <1>8 DEF Give, NetTypeOK
<1>9. CASE DeferSend
  <2>1. sendPc = "defer" /\ ~Used
    BY <1>9 DEF DeferSend
  <2> QED BY <1>9, <2>1 DEF DeferSend, NetTypeOK
<1>10. CASE WaitBits
    BY <1>10 DEF WaitBits, WokenByBit, DeadlinePasses, NetTypeOK
<1>11. CASE TakeSema
    BY <1>11 DEF TakeSema, NetTypeOK
<1>12. CASE Retire
    BY <1>12, <1>a DEF Retire, Return, NetTypeOK, Packets, Record
<1>13. CASE UsbNext
  <2>1. deferred \in Seq({"send", "link"}) /\ deferred # <<>>
    BY <1>13 DEF UsbNext, NetTypeOK
  <2>2. /\ 1 \in DOMAIN deferred /\ Head(deferred) = deferred[1]
        /\ \A k \in DOMAIN deferred' :
              /\ k \in Nat \ {0} /\ k + 1 \in DOMAIN deferred
              /\ deferred'[k] = deferred[k + 1]
    BY <1>13, <2>1, TailAt DEF UsbNext
  <2>3. InDeferred' => InDeferred
    BY <2>2
  <2>4. usbPc' = "take" => InDeferred
    BY <1>13, <2>2 DEF UsbNext
  <2> QED BY <1>13, <2>3, <2>4 DEF UsbNext, NetTypeOK
<1>14. CASE UsbTake
    BY <1>14 DEF UsbTake, NetTypeOK, LeftOver
<1>15. CASE UsbRefuse
    BY <1>15, <1>a DEF UsbRefuse, NetTypeOK, Packets
<1>16. CASE UsbCopy
    BY <1>16, <1>a DEF UsbCopy, NetTypeOK, Packets
<1>17. CASE UsbRelease
    BY <1>17, <1>a DEF UsbRelease, NetTypeOK, Packets
<1>18. CASE UsbSignal
    BY <1>18 DEF UsbSignal, NetTypeOK
<1>19. CASE UsbGive
    BY <1>19 DEF UsbGive, NetTypeOK
<1>20. CASE UsbLink
    BY <1>20 DEF UsbLink, NetTypeOK
<1> QED
    BY <1>0, <1>1, <1>2, <1>3, <1>4, <1>5, <1>6, <1>7, <1>8, <1>9, <1>10,
       <1>11, <1>12, <1>13, <1>14, <1>15, <1>16, <1>17, <1>18, <1>19, <1>20
    DEF NetNext, SendStep, UsbStep, DoSendSync

\* What has happened stays so.
LEMMA NetStrayed ==
    ASSUME [NetNext]_netVars, strayed
    PROVE  strayed'
<1>1. CASE UNCHANGED netVars
    BY <1>1 DEF netVars
<1>2. CASE UsbTake
    BY <1>2 DEF UsbTake
<1>3. CASE NetNext /\ ~UsbTake
  <2>1. UNCHANGED strayed
    BY <1>3 DEF NetNext, SendStep, UsbStep, DoSendSync, Call, Consume, DeferLink,
                UsbReady, CheckReady, ClearBits, Publish, Give, DeferSend,
                WaitBits, TakeSema, Retire, UsbNext, UsbRefuse, UsbCopy,
                UsbRelease, UsbSignal, UsbGive, UsbLink
  <2> QED BY <2>1
<1> QED BY <1>1, <1>2, <1>3

\* The wrapper's invariant is preserved by every step; once a left-over
\* do_send_sync has strayed, one has strayed for good.
LEMMA NetStep ==
    ASSUME NetSendInv, [NetNext]_netVars
    PROVE  NetSendInv'
<1>1. NetInv'
    BY NetType, NetCustody DEF NetSendInv, NetInv
<1>2. strayed => strayed'
    BY NetStrayed
<1> QED BY <1>1, <1>2, NetOneSender DEF NetSendInv

-----------------------------------------------------------------------------
\* However late the TinyUSB task is, tinyusb_net_send_sync never lets it touch
\* a packet that is gone, never loses the semaphore, and never reports a
\* timeout for a frame that was copied or success for one that was not.
THEOREM SendSyncSafe ==
    NetSpec => [](NetTypeOK /\ PacketAlive /\ SemaNeverLost
                    /\ ResultTruthful /\ BitMeansResult)
<1>1. NetInit => NetSendInv
    BY NetInitInv
<1>2. NetSendInv /\ [NetNext]_netVars => NetSendInv'
    BY NetStep
<1>3. NetSendInv => /\ NetTypeOK /\ PacketAlive /\ SemaNeverLost
                     /\ ResultTruthful /\ BitMeansResult
    BY DEF NetSendInv, NetInv, Custody, Record, Waiting, UsbHolds,
           PacketAlive, SemaNeverLost, ResultTruthful, BitMeansResult
<1> QED BY <1>1, <1>2, <1>3, PTL DEF NetSpec

\* Until a do_send_sync left over from a call that timed out finds the packet of
\* a later one, a call's frame is copied at most once, and the call reports
\* success exactly when it was: nothing else can break it.
THEOREM SendSyncExact == NetSpec => [](CopiedAtMostOnce /\ OkIffCopied)
<1>1. NetInit => NetSendInv
    BY NetInitInv
<1>2. NetSendInv /\ [NetNext]_netVars => NetSendInv'
    BY NetStep
<1>3. NetSendInv => CopiedAtMostOnce /\ OkIffCopied
    BY DEF NetSendInv, OneSender, CopiedAtMostOnce, OkIffCopied
<1> QED BY <1>1, <1>2, <1>3, PTL DEF NetSpec

-----------------------------------------------------------------------------
(* Queues of slots. *)

\* A queue that repeats nothing and lacks a slot has room for it.
LEMMA RoomForMissing ==
    ASSUME NEW q \in Seq(Slots), NoRepeats(q),
           NEW s \in Slots, ~InQueue(q, s)
    PROVE  HasRoom(q)
<1> DEFINE N == Len(q)
           T == Slots \ {s}
<1>1. N \in Nat /\ DOMAIN q = 1 .. N /\ q \in [1 .. N -> Slots]
    OBVIOUS
<1>2. q \in [1 .. N -> T]
    BY <1>1 DEF InQueue
<1>3. q \in Injection(1 .. N, T)
    BY <1>1, <1>2 DEF NoRepeats, Injection, IsInjective
<1>4. IsFiniteSet(1 .. N) /\ Cardinality(1 .. N) = N
    BY <1>1, FS_Interval
<1>5. IsFiniteSet(Slots) /\ Cardinality(Slots) = RxSlots
    BY UsbNetAssumption, FS_Interval DEF Slots
<1>6. IsFiniteSet(T) /\ Cardinality(T) = RxSlots - 1
    BY <1>5, FS_RemoveElement
<1>7. N <= RxSlots - 1
    BY <1>3, <1>4, <1>6, FS_Injection
<1> QED BY <1>1, <1>7, UsbNetAssumption DEF HasRoom

\* Putting a slot into a queue that lacks it adds that slot and no other.
LEMMA PutMissing ==
    ASSUME NEW q \in Seq(Slots), NoRepeats(q),
           NEW s \in Slots, ~InQueue(q, s)
    PROVE  /\ Put(q, s) \in Seq(Slots)
           /\ NoRepeats(Put(q, s))
           /\ \A t \in Slots : InQueue(Put(q, s), t) <=> InQueue(q, t) \/ t = s
<1>1. Put(q, s) = Append(q, s)
    BY RoomForMissing DEF Put
<1>2. Append(q, s) \in Seq(Slots)
    OBVIOUS
<1>3. NoRepeats(Append(q, s))
    BY AppendAt DEF NoRepeats, InQueue
<1>4. ASSUME NEW t \in Slots
      PROVE  InQueue(Append(q, s), t) <=> InQueue(q, t) \/ t = s
    BY AppendAt DEF InQueue
<1> QED BY <1>1, <1>2, <1>3, <1>4

\* Taking the head of a queue without repetitions removes that slot only.
LEMMA TakeHead ==
    ASSUME NEW q \in Seq(Slots), NoRepeats(q), q # <<>>
    PROVE  /\ Head(q) \in Slots /\ InQueue(q, Head(q))
           /\ Tail(q) \in Seq(Slots) /\ NoRepeats(Tail(q))
           /\ \A t \in Slots :
                 InQueue(Tail(q), t) <=> InQueue(q, t) /\ t # Head(q)
<1>1. Head(q) \in Slots /\ Tail(q) \in Seq(Slots)
    OBVIOUS
<1>2. InQueue(q, Head(q))
    BY TailAt DEF InQueue
<1>3. NoRepeats(Tail(q))
  <2>1. \A j, k \in Nat : j + 1 = k + 1 => j = k
    OBVIOUS
  <2> QED BY <2>1, TailAt DEF NoRepeats
<1>4. ASSUME NEW t \in Slots
      PROVE  InQueue(Tail(q), t) <=> InQueue(q, t) /\ t # Head(q)
  <2>1. \A k \in Nat \ {0} : k + 1 # 1 /\ k + 1 \in Nat
    OBVIOUS
  <2> QED BY <2>1, TailAt DEF InQueue, NoRepeats
<1> QED BY <1>1, <1>2, <1>3, <1>4

-----------------------------------------------------------------------------
(* Types. *)

\* The worker is inside tinyusb_net_send_sync exactly when the wrapper is, and
\* about its own slot; the result of an earlier frame is not taken for this
\* one's.
CallInv ==
    /\ wkPc = "send" <=> sendPc # "idle"
    /\ wkPc = "send" => sendSlot = wkSlot
    /\ wkPc \in {"attempt", "retry"} => err # "ok"

\* Every step of the path is a step of the link or leaves it alone, and is a
\* step of the send wrapper or leaves that alone.
LEMMA StepsOfParts ==
    ASSUME BridgeTypeOK, CallInv, [Next]_vars
    PROVE  [LinkNext]_linkVars /\ [NetNext]_netVars
<1> DEFINE Both == [LinkNext]_linkVars /\ [NetNext]_netVars
<1>0. CASE UNCHANGED vars
    BY <1>0 DEF vars, linkVars, netVars
<1>1. CASE RxDiscard \/ RxDrop \/ RxClaim \/ RxStep
    BY <1>1 DEF RxDiscard, RxDrop, RxClaim, RxStep, RxStamp, RxCopy,
                RxEnqueue
<1>2. CASE WkRefresh \/ WkNoRefresh \/ WkReceive \/ WkEpoch \/ WkGiveUp
             \/ WkRetry \/ WkFinish
    BY <1>2 DEF WkRefresh, WkNoRefresh, WkReceive, WkEpoch, WkGiveUp,
                WkRetry, WkFinish
<1>3. CASE WkBeat
  <2>1. DeferLink
    BY <1>3 DEF WkBeat, DeferLink, CallInv, Defer
  <2> QED BY <1>3, <2>1 DEF WkBeat, NetNext
<1>4. CASE WkSend
  <2>1. Call(wkSlot) /\ wkSlot \in Slots
    BY <1>4 DEF WkSend, BridgeTypeOK
  <2> QED BY <1>4, <2>1 DEF WkSend, NetNext
<1>5. CASE WkSent
    BY <1>5 DEF WkSent, NetNext
<1>6. CASE CallerStep
    BY <1>6 DEF CallerStep, BridgeUnchanged, NetNext
<1>7. CASE Copy \/ Release \/ ReportLink \/ DispatchStep
    BY <1>7 DEF Copy, Release, ReportLink, DispatchStep, BridgeUnchanged,
                NetNext, UsbStep, DoSendSync
<1>8. CASE Host
    BY <1>8 DEF Host, NetNext
<1>9. CASE LinkStep
    BY <1>9 DEF LinkStep
<1> QED BY <1>0, <1>1, <1>2, <1>3, <1>4, <1>5, <1>6, <1>7, <1>8, <1>9
        DEF Next, WifiTask, Worker, UsbTask, WkStep

BridgeFlags ==
    /\ current \in BOOLEAN /\ lastLink \in BOOLEAN /\ netLink \in BOOLEAN
BridgeData ==
    /\ rxPc \in {"idle", "stamp", "copy", "enqueue"}
    /\ rxSlot \in Slots /\ rxFrame \in FrameIds
    /\ free \in Seq(Slots) /\ pending \in Seq(Slots)
    /\ frames \in [Slots -> [epoch : Nat, id : Nat, net : Nat]]
    /\ wkPc \in {"loop", "beat", "receive", "epoch", "attempt", "send",
                 "retry", "finish"}
    /\ wkSlot \in Slots /\ attempt \in Nat
    /\ err \in Results
    /\ stats \in [Counters -> Nat]
    /\ received \in Nat
    /\ delivered \in Seq(Nat)

\* The bridge keeps its own variables in their types.
LEMMA FlagsType ==
    ASSUME BridgeFlags, LinkTypeOK, [Next]_vars
    PROVE  BridgeFlags'
<1> USE DEF BridgeFlags
<1>0. CASE UNCHANGED vars
    BY <1>0 DEF vars, linkVars, netVars, rxVars, poolVars, wkVars
<1>1. CASE RxDiscard
    BY <1>1 DEF RxDiscard, Received, Count, rxVars, wkVars
<1>2. CASE RxDrop
    BY <1>2 DEF RxDrop, Received, Count, rxVars, wkVars
<1>3. CASE RxClaim
    BY <1>3 DEF RxClaim, Received, rxVars, wkVars
<1>4. CASE RxStamp
    BY <1>4 DEF RxStamp, rxVars, wkVars
<1>5. CASE RxCopy
    BY <1>5 DEF RxCopy, rxVars, wkVars
<1>6. CASE RxEnqueue
    BY <1>6 DEF RxEnqueue, Put, HasRoom, Count, rxVars, wkVars
<1>7. CASE WkRefresh
    BY <1>7 DEF WkRefresh, LinkTypeOK
<1>8. CASE WkNoRefresh
    BY <1>8 DEF WkNoRefresh, rxVars, wkVars
<1>9. CASE WkBeat
    BY <1>9 DEF WkBeat, Defer, rxVars, wkVars
<1>10. CASE WkReceive
    BY <1>10 DEF WkReceive, rxVars, wkVars
<1>11. CASE WkEpoch
    BY <1>11 DEF WkEpoch, IsCurrent, rxVars, wkVars
<1>12. CASE WkGiveUp
    BY <1>12 DEF WkGiveUp, rxVars, wkVars
<1>13. CASE WkSend
    BY <1>13 DEF WkSend, Call, rxVars, wkVars
<1>14. CASE WkSent
    BY <1>14 DEF WkSent, Consume, rxVars, wkVars
<1>15. CASE WkRetry
    BY <1>15 DEF WkRetry, rxVars, wkVars
<1>16. CASE WkFinish
    BY <1>16 DEF WkFinish, Settle, Put, HasRoom, Count, rxVars, wkVars
<1>17. CASE CallerStep
    BY <1>17 DEF CallerStep, BridgeUnchanged, rxVars, wkVars
<1>18. CASE Copy
    BY <1>18 DEF Copy, UsbCopy, rxVars, wkVars
<1>19. CASE Release
    BY <1>19 DEF Release, UsbRelease, Put, HasRoom, rxVars, wkVars
<1>20. CASE ReportLink
    BY <1>20 DEF ReportLink, wkVars, LinkTypeOK
<1>21. CASE DispatchStep
    BY <1>21 DEF DispatchStep, BridgeUnchanged, rxVars, wkVars
<1>22. CASE Host
    BY <1>22 DEF Host, wkVars, LinkTypeOK
<1>23. CASE LinkStep
    BY <1>23 DEF LinkStep, rxVars, wkVars
<1> QED
    BY <1>0, <1>1, <1>2, <1>3, <1>4, <1>5, <1>6, <1>7, <1>8, <1>9, <1>10, <1>11, <1>12, <1>13, <1>14, <1>15, <1>16, <1>17, <1>18, <1>19, <1>20, <1>21, <1>22, <1>23
    DEF Next, WifiTask, Worker, UsbTask, RxStep, WkStep

\* Counting keeps the counters numbers.
LEMMA CountType ==
    ASSUME stats \in [Counters -> Nat], NEW c \in Counters, Count(c)
    PROVE  stats' \in [Counters -> Nat]
BY DEF Count

\* Putting a slot keeps a queue of slots.
LEMMA PutType ==
    ASSUME NEW q \in Seq(Slots), NEW s \in Slots
    PROVE  Put(q, s) \in Seq(Slots)
BY DEF Put

\* The slots, queues and counters keep their types at every step.
LEMMA DataType ==
    ASSUME BridgeData, LinkTypeOK, NetTypeOK, Custody, [Next]_vars
    PROVE  BridgeData'
<1> USE DEF BridgeData
<1>0. CASE UNCHANGED vars
    BY <1>0 DEF vars, rxVars, poolVars, wkVars
<1>1. CASE RxDiscard
  <2>1. /\ received' = received + 1
        /\ \E c \in Counters : Count(c)
        /\ UNCHANGED <<rxPc, rxSlot, rxFrame, free, pending, frames,
             wkPc, wkSlot, attempt, err, delivered>>
    BY <1>1 DEF RxDiscard, Received, Counters, rxVars, wkVars, poolVars
  <2> QED BY <2>1, CountType
<1>2. CASE RxDrop
  <2>1. /\ received' = received + 1
        /\ \E c \in Counters : Count(c)
        /\ UNCHANGED <<rxPc, rxSlot, rxFrame, free, pending, frames,
             wkPc, wkSlot, attempt, err, delivered>>
    BY <1>2 DEF RxDrop, Received, Counters, rxVars, wkVars, poolVars
  <2> QED BY <2>1, CountType
<1>3. CASE RxClaim
  <2>1. /\ free # <<>> /\ rxSlot' = Head(free) /\ free' = Tail(free)
        /\ rxFrame' = [id |-> received', net |-> assoc]
        /\ received' = received + 1 /\ rxPc' = "stamp"
        /\ UNCHANGED <<pending, frames, wkPc, wkSlot, attempt, err,
             stats, delivered>>
    BY <1>3 DEF RxClaim, Received, rxVars, wkVars, poolVars
  <2>2. assoc \in Nat
    BY DEF LinkTypeOK
  <2>3. Head(free) \in Slots /\ Tail(free) \in Seq(Slots)
    BY <2>1
  <2>4. received' \in Nat
    BY <2>1
  <2>5. rxFrame' \in FrameIds
    BY <2>1, <2>2, <2>4 DEF FrameIds
  <2> QED BY <2>1, <2>3, <2>4, <2>5
<1>4. CASE RxStamp
  <2>1. /\ rxPc' = "copy"
        /\ frames' = [frames EXCEPT ![rxSlot] =
                        [epoch |-> epoch, id |-> @.id, net |-> @.net]]
        /\ UNCHANGED <<rxSlot, rxFrame, free, pending, wkPc, wkSlot,
             attempt, err, stats, received, delivered>>
    BY <1>4 DEF RxStamp, rxVars, wkVars, poolVars
  <2>2. epoch \in Nat
    BY DEF LinkTypeOK
  <2> QED BY <2>1, <2>2
<1>5. CASE RxCopy
  <2>1. /\ rxPc' = "enqueue"
        /\ frames' = [frames EXCEPT ![rxSlot] =
                        [epoch |-> @.epoch, id |-> rxFrame.id,
                         net |-> rxFrame.net]]
        /\ UNCHANGED <<rxSlot, rxFrame, free, pending, wkPc, wkSlot,
             attempt, err, stats, received, delivered>>
    BY <1>5 DEF RxCopy, rxVars, wkVars, poolVars
  <2> QED BY <2>1 DEF FrameIds
<1>6. CASE RxEnqueue
  <2>1. /\ rxPc' = "idle" /\ pending' = Put(pending, rxSlot)
        /\ free' = free \/ free' = Put(free, rxSlot)
        /\ stats' = stats \/ \E c \in Counters : Count(c)
        /\ UNCHANGED <<rxSlot, rxFrame, frames, wkPc, wkSlot, attempt,
             err, received, delivered>>
    BY <1>6 DEF RxEnqueue, Counters, rxVars, wkVars, poolVars
  <2>2. pending' \in Seq(Slots) /\ free' \in Seq(Slots)
    BY <2>1, PutType
  <2>3. stats' \in [Counters -> Nat]
    BY <2>1, CountType
  <2> QED BY <2>1, <2>2, <2>3
<1>7. CASE WkRefresh
    BY <1>7 DEF WkRefresh, rxVars, wkVars, poolVars
<1>8. CASE WkNoRefresh
    BY <1>8 DEF WkNoRefresh, rxVars, wkVars, poolVars
<1>9. CASE WkBeat
    BY <1>9 DEF WkBeat, Defer, rxVars, wkVars, poolVars
<1>10. CASE WkReceive
  <2>1. /\ \/ wkSlot' = wkSlot /\ pending' = pending /\ wkPc' = "loop"
           \/ /\ pending # <<>> /\ wkSlot' = Head(pending)
              /\ pending' = Tail(pending) /\ wkPc' = "epoch"
        /\ UNCHANGED <<rxPc, rxSlot, rxFrame, free, frames, attempt,
             err, stats, received, delivered>>
    BY <1>10 DEF WkReceive, rxVars, wkVars, poolVars
  <2>2. pending # <<>> => Head(pending) \in Slots /\ Tail(pending) \in Seq(Slots)
    OBVIOUS
  <2> QED BY <2>1, <2>2
<1>11. CASE WkEpoch
  <2>1. /\ err' = "invalid_state" /\ attempt' = 0 /\ wkPc' = "attempt"
        /\ UNCHANGED <<rxPc, rxSlot, rxFrame, free, pending, frames,
             wkSlot, stats, received, delivered>>
    BY <1>11 DEF WkEpoch, IsCurrent, rxVars, wkVars, poolVars
  <2> QED BY <2>1 DEF Results
<1>12. CASE WkGiveUp
    BY <1>12 DEF WkGiveUp, rxVars, wkVars, poolVars
<1>13. CASE WkSend
    BY <1>13 DEF WkSend, Call, rxVars, wkVars, poolVars
<1>14. CASE WkSent
  <2>1. /\ err' = sendResult /\ wkPc' \in {"retry", "finish"}
        /\ UNCHANGED <<rxPc, rxSlot, rxFrame, free, pending, frames,
             wkSlot, attempt, stats, received, delivered>>
    BY <1>14 DEF WkSent, rxVars, wkVars, poolVars
  <2>2. sendResult \in Results
    BY DEF NetTypeOK
  <2> QED BY <2>1, <2>2
<1>15. CASE WkRetry
    BY <1>15 DEF WkRetry, rxVars, wkVars, poolVars
<1>16. CASE WkFinish
  <2>1. /\ wkPc' = "loop"
        /\ free' = free \/ free' = Put(free, wkSlot)
        /\ \E c \in Counters : Count(c)
        /\ UNCHANGED <<rxPc, rxSlot, rxFrame, pending, frames, wkSlot,
             attempt, err, received, delivered>>
    BY <1>16 DEF WkFinish, Settle, Counters, rxVars, wkVars, poolVars
  <2>2. free' \in Seq(Slots)
    <3>1. Put(free, wkSlot) \in Seq(Slots)
      BY PutType
    <3> QED BY <2>1, <3>1
  <2>3. stats' \in [Counters -> Nat]
    BY <2>1, CountType
  <2> QED BY <2>1, <2>2, <2>3
<1>17. CASE CallerStep
    BY <1>17 DEF CallerStep, BridgeUnchanged, rxVars, wkVars, poolVars
<1>18. CASE Copy
  <2>1. /\ delivered' = Append(delivered, frames[packet.slot].id)
        /\ UNCHANGED <<rxPc, rxSlot, rxFrame, free, pending, frames,
             wkPc, wkSlot, attempt, err, stats, received>>
    BY <1>18 DEF Copy, rxVars, wkVars, poolVars
  <2>2. packet.slot \in Slots
    BY <1>18 DEF Copy, UsbCopy, NetTypeOK, Custody, Waiting, UsbHolds
  <2>3. frames[packet.slot].id \in Nat
    BY <2>2
  <2> QED BY <2>1, <2>3
<1>19. CASE Release
  <2>1. /\ free' = Put(free, packet.slot)
        /\ UNCHANGED <<rxPc, rxSlot, rxFrame, pending, frames, wkPc,
             wkSlot, attempt, err, stats, received, delivered>>
    BY <1>19 DEF Release, rxVars, wkVars, poolVars
  <2>2. packet.slot \in Slots
    BY <1>19 DEF Release, UsbRelease, NetTypeOK, Custody, Waiting, UsbHolds
  <2>3. free' \in Seq(Slots)
    BY <2>1, <2>2, PutType
  <2> QED BY <2>1, <2>3
<1>20. CASE ReportLink
    BY <1>20 DEF ReportLink, UsbLink, rxVars, wkVars, poolVars
<1>21. CASE DispatchStep
    BY <1>21 DEF DispatchStep, BridgeUnchanged, rxVars, wkVars, poolVars
<1>22. CASE Host
    BY <1>22 DEF Host, UsbReady, rxVars, wkVars, poolVars
<1>23. CASE LinkStep
    BY <1>23 DEF LinkStep, rxVars, wkVars, poolVars
<1> QED
    BY <1>0, <1>1, <1>2, <1>3, <1>4, <1>5, <1>6, <1>7, <1>8, <1>9, <1>10, <1>11, <1>12, <1>13, <1>14, <1>15, <1>16, <1>17, <1>18, <1>19, <1>20, <1>21, <1>22, <1>23
    DEF Next, WifiTask, Worker, UsbTask, RxStep, WkStep

-----------------------------------------------------------------------------
(* Who holds a slot. *)

\* The steps that return from the wrapper or enter it are the worker's.
LEMMA CallStep ==
    ASSUME BridgeTypeOK, NetTypeOK, CallInv, [Next]_vars
    PROVE  CallInv'
<1> USE DEF CallInv, BridgeTypeOK
<1>0. CASE UNCHANGED vars
    BY <1>0 DEF vars, linkVars, netVars, rxVars, poolVars, wkVars
<1>1. CASE RxDiscard
    BY <1>1 DEF RxDiscard, Received, Count, netVars, wkVars
<1>2. CASE RxDrop
    BY <1>2 DEF RxDrop, Received, Count, netVars, wkVars
<1>3. CASE RxClaim
    BY <1>3 DEF RxClaim, Received, netVars, wkVars
<1>4. CASE RxStamp
    BY <1>4 DEF RxStamp, netVars, wkVars
<1>5. CASE RxCopy
    BY <1>5 DEF RxCopy, netVars, wkVars
<1>6. CASE RxEnqueue
    BY <1>6 DEF RxEnqueue, netVars, wkVars
<1>7. CASE WkRefresh
    BY <1>7 DEF WkRefresh, netVars, wkVars
<1>8. CASE WkNoRefresh
    BY <1>8 DEF WkNoRefresh, netVars, wkVars
<1>9. CASE WkBeat
    BY <1>9 DEF WkBeat, Defer, netVars, wkVars
<1>10. CASE WkReceive
    BY <1>10 DEF WkReceive, netVars
<1>11. CASE WkEpoch
    BY <1>11 DEF WkEpoch, IsCurrent, netVars, wkVars
<1>12. CASE WkGiveUp
    BY <1>12 DEF WkGiveUp, netVars, wkVars
<1>13. CASE WkSend
    BY <1>13 DEF WkSend, Call, netVars, wkVars
<1>14. CASE WkSent
    BY <1>14 DEF WkSent, Consume
<1>15. CASE WkRetry
    BY <1>15 DEF WkRetry, netVars, wkVars
<1>16. CASE WkFinish
    BY <1>16 DEF WkFinish, Settle, netVars, wkVars
<1>17. CASE CallerStep
    BY <1>17 DEF CallerStep, BridgeUnchanged, wkVars, SendStep, CheckReady,
      Return, ClearBits, Publish, Give, DeferSend, WaitBits, TakeSema, Retire
<1>18. CASE Copy
    BY <1>18 DEF Copy, UsbCopy, netVars, wkVars
<1>19. CASE Release
    BY <1>19 DEF Release, UsbRelease, netVars, wkVars
<1>20. CASE ReportLink
    BY <1>20 DEF ReportLink, UsbLink, netVars, wkVars
<1>21. CASE DispatchStep
    BY <1>21 DEF DispatchStep, BridgeUnchanged, wkVars, UsbNext, UsbTake,
      UsbRefuse, UsbSignal, UsbGive
<1>22. CASE Host
    BY <1>22 DEF Host, UsbReady, netVars, wkVars
<1>23. CASE LinkStep
    BY <1>23 DEF LinkStep, netVars, wkVars
<1> QED
    BY <1>0, <1>1, <1>2, <1>3, <1>4, <1>5, <1>6, <1>7, <1>8, <1>9, <1>10, <1>11, <1>12, <1>13, <1>14, <1>15, <1>16, <1>17, <1>18, <1>19, <1>20, <1>21, <1>22, <1>23
    DEF Next, WifiTask, Worker, UsbTask, RxStep, WkStep

\* Most steps move no slot: the queues stay, and each task holds what it held.
LEMMA NothingMoves ==
    ASSUME SlotsApart, free' = free, pending' = pending,
           \A s \in Slots : (RxHolds(s)' <=> RxHolds(s)) /\ (WkHolds(s)' <=> WkHolds(s))
    PROVE  SlotsApart'
BY DEF SlotsApart, NoRepeats, InQueue

\* Only the TinyUSB task's release makes a slot released: the worker's own steps
\* and those of the send wrapper carry that fact along.
LEMMA ReleasedKept ==
    ASSUME BridgeTypeOK, NetInv, OneSender, CallInv,
           WkEpoch \/ WkGiveUp \/ WkSend \/ WkSent \/ WkRetry \/ CallerStep
              \/ DispatchStep
    PROVE  Released' <=> Released
<1> USE DEF NetInv
<1>1. CASE WkEpoch
    BY <1>1 DEF WkEpoch, IsCurrent, netVars, Released
<1>2. CASE WkGiveUp
    BY <1>2 DEF WkGiveUp, netVars, Released, CallInv, Custody
<1>3. CASE WkSend
    BY <1>3 DEF WkSend, Call, Released, CallInv, Custody
<1>4. CASE WkSent
    BY <1>4 DEF WkSent, Consume, Released, CallInv, Custody
<1>5. CASE WkRetry
    BY <1>5 DEF WkRetry, netVars, Released, CallInv, Custody
<1>6. CASE CallerStep
  <2>1. wkPc = "send" /\ wkPc' = "send" /\ sendPc # "idle"
    BY <1>6 DEF CallerStep, BridgeUnchanged, wkVars, CallInv, SendStep,
      CheckReady, ClearBits, Publish, Give, DeferSend, WaitBits, TakeSema,
      Retire
  <2>2. CASE CheckReady
    BY <2>1, <2>2 DEF CheckReady, Return, Released, Custody
  <2>3. CASE ClearBits \/ Give \/ DeferSend \/ WaitBits \/ TakeSema
    BY <2>1, <2>3 DEF ClearBits, Give, DeferSend, WaitBits, TakeSema, Released
  <2>4. CASE Publish
    BY <2>1, <2>4 DEF Publish, Released, Custody
  <2>5. CASE Retire
    BY <2>1, <2>5 DEF Retire, Return, Released, Custody
  <2> QED BY <1>6, <2>2, <2>3, <2>4, <2>5 DEF CallerStep, SendStep
<1>7. CASE DispatchStep
  <2>1. CASE UsbNext \/ UsbTake \/ UsbSignal \/ UsbGive
    BY <1>7, <2>1 DEF DispatchStep, BridgeUnchanged, wkVars, UsbNext,
      UsbTake, UsbSignal, UsbGive, Released
  <2>2. CASE UsbRefuse
    <3>1. /\ usbPc = "xmit"
          /\ packet' = [slot |-> packet.slot, result |-> "fail"]
          /\ UNCHANGED <<sendPc, sendResult, wkPc, err>>
      BY <1>7, <2>2 DEF DispatchStep, BridgeUnchanged, wkVars, UsbRefuse
    <3>2. packet.result = "timeout"
      BY <3>1 DEF OneSender
    <3>3. packet'.result = "fail"
      BY <3>1
    <3> QED BY <3>1, <3>2, <3>3 DEF Released
  <2> QED BY <1>7, <2>1, <2>2 DEF DispatchStep
<1> QED BY <1>1, <1>2, <1>3, <1>4, <1>5, <1>6, <1>7

\* Every step hands a slot on, if it does, to exactly one new holder.
LEMMA OwnStep ==
    ASSUME BridgeTypeOK, NetInv, OneSender, CallInv, SlotsApart, [Next]_vars
    PROVE  SlotsApart'
<1> USE DEF NetInv
<1>0. CASE UNCHANGED vars
    BY <1>0, NothingMoves
    DEF vars, netVars, rxVars, poolVars, wkVars, RxHolds, WkHolds, WkBusy,
        Released
<1>1. CASE RxDiscard
    BY <1>1, NothingMoves
    DEF RxDiscard, Received, netVars, rxVars, poolVars, wkVars, RxHolds, WkHolds, WkBusy,
        Released
<1>2. CASE RxDrop
    BY <1>2, NothingMoves
    DEF RxDrop, Received, netVars, rxVars, poolVars, wkVars, RxHolds, WkHolds, WkBusy,
        Released
<1>3. CASE RxClaim
  <2>1. /\ free # <<>> /\ rxSlot' = Head(free) /\ free' = Tail(free)
        /\ rxPc = "idle" /\ rxPc' = "stamp" /\ pending' = pending
    BY <1>3 DEF RxClaim, Received
  <2>2. \A s \in Slots : WkHolds(s)' <=> WkHolds(s)
    BY <1>3 DEF RxClaim, netVars, wkVars, WkHolds, WkBusy, Released
  <2>3. /\ Head(free) \in Slots /\ InQueue(free, Head(free)) /\ NoRepeats(free')
        /\ \A t \in Slots : InQueue(free', t) <=> InQueue(free, t) /\ t # Head(free)
    BY <2>1, TakeHead DEF SlotsApart, BridgeTypeOK
  <2>4. \A s \in Slots : ~RxHolds(s) /\ (RxHolds(s)' <=> s = Head(free))
    BY <2>1 DEF RxHolds
  <2>5. \A s \in Slots : InQueue(pending', s) <=> InQueue(pending, s)
    BY <2>1
  <2> QED BY <2>1, <2>2, <2>3, <2>4, <2>5 DEF SlotsApart
<1>4. CASE RxStamp
    BY <1>4, NothingMoves
    DEF RxStamp, netVars, rxVars, poolVars, wkVars, RxHolds, WkHolds, WkBusy,
        Released
<1>5. CASE RxCopy
    BY <1>5, NothingMoves
    DEF RxCopy, netVars, rxVars, poolVars, wkVars, RxHolds, WkHolds, WkBusy,
        Released
<1>6. CASE RxEnqueue
  <2>1. rxSlot \in Slots /\ RxHolds(rxSlot) /\ ~InQueue(pending, rxSlot)
    BY <1>6 DEF RxEnqueue, RxHolds, SlotsApart, BridgeTypeOK
  <2>2. HasRoom(pending)
    BY <2>1, RoomForMissing DEF SlotsApart, BridgeTypeOK
  <2>3. /\ pending' = Put(pending, rxSlot) /\ free' = free
        /\ rxPc # "idle" /\ rxPc' = "idle" /\ rxSlot' = rxSlot
    BY <1>6, <2>2 DEF RxEnqueue
  <2>4. \A s \in Slots : WkHolds(s)' <=> WkHolds(s)
    BY <1>6 DEF RxEnqueue, netVars, wkVars, WkHolds, WkBusy, Released
  <2>5. /\ NoRepeats(pending')
        /\ \A t \in Slots : InQueue(pending', t) <=> InQueue(pending, t) \/ t = rxSlot
    BY <2>1, <2>3, PutMissing DEF SlotsApart, BridgeTypeOK
  <2>6. \A s \in Slots : ~RxHolds(s)' /\ (RxHolds(s) <=> s = rxSlot)
    BY <2>3 DEF RxHolds
  <2>7. \A s \in Slots : InQueue(free', s) <=> InQueue(free, s)
    BY <2>3
  <2> QED BY <2>3, <2>4, <2>5, <2>6, <2>7 DEF SlotsApart
<1>7. CASE WkRefresh
    BY <1>7, NothingMoves
    DEF WkRefresh, netVars, rxVars, poolVars, wkVars, RxHolds, WkHolds, WkBusy,
        Released
<1>8. CASE WkNoRefresh
    BY <1>8, NothingMoves
    DEF WkNoRefresh, netVars, rxVars, poolVars, wkVars, RxHolds, WkHolds, WkBusy,
        Released
<1>9. CASE WkBeat
    BY <1>9, NothingMoves
    DEF WkBeat, Defer, netVars, rxVars, poolVars, wkVars, RxHolds, WkHolds, WkBusy,
        Released
<1>10. CASE WkReceive
  <2>0. \A s \in Slots : RxHolds(s)' <=> RxHolds(s)
    BY <1>10 DEF WkReceive, rxVars, RxHolds
  <2>a. free' = free
    BY <1>10 DEF WkReceive
  <2>1. CASE wkPc' = "loop"
    <3>1. pending' = pending
      BY <1>10, <2>1 DEF WkReceive
    <3>2. \A s \in Slots : ~WkHolds(s) /\ ~WkHolds(s)'
      BY <1>10, <2>1 DEF WkReceive, WkHolds, WkBusy
    <3> QED BY <2>0, <2>a, <3>1, <3>2, NothingMoves
  <2>2. CASE wkPc' # "loop"
    <3>1. /\ pending # <<>> /\ wkSlot' = Head(pending)
          /\ pending' = Tail(pending) /\ wkPc' = "epoch" /\ wkPc = "receive"
      BY <1>10, <2>2 DEF WkReceive
    <3>2. ~Released'
      <4>1. packet' = NoPacket /\ sendPc' = "idle"
        BY <1>10, <3>1 DEF WkReceive, netVars, CallInv, Custody
      <4> QED BY <3>1, <4>1 DEF Released
    <3>3. \A s \in Slots : ~WkHolds(s) /\ (WkHolds(s)' <=> s = Head(pending))
      BY <3>1, <3>2 DEF WkHolds, WkBusy
    <3>4. /\ Head(pending) \in Slots /\ InQueue(pending, Head(pending))
          /\ NoRepeats(pending')
          /\ \A t \in Slots :
                InQueue(pending', t) <=> InQueue(pending, t) /\ t # Head(pending)
      BY <3>1, TakeHead DEF SlotsApart, BridgeTypeOK
    <3>5. \A s \in Slots : InQueue(free', s) <=> InQueue(free, s)
      BY <2>a
    <3> QED BY <2>0, <2>a, <3>3, <3>4, <3>5 DEF SlotsApart
  <2> QED BY <2>1, <2>2
<1>11. CASE WkEpoch
    BY <1>11, ReleasedKept, NothingMoves
    DEF WkEpoch, rxVars, poolVars, wkVars, RxHolds, WkHolds, WkBusy
<1>12. CASE WkGiveUp
    BY <1>12, ReleasedKept, NothingMoves
    DEF WkGiveUp, rxVars, poolVars, wkVars, RxHolds, WkHolds, WkBusy
<1>13. CASE WkSend
    BY <1>13, ReleasedKept, NothingMoves
    DEF WkSend, Call, rxVars, poolVars, wkVars, RxHolds, WkHolds, WkBusy
<1>14. CASE WkSent
    BY <1>14, ReleasedKept, NothingMoves
    DEF WkSent, Consume, rxVars, poolVars, wkVars, RxHolds, WkHolds, WkBusy
<1>15. CASE WkRetry
    BY <1>15, ReleasedKept, NothingMoves
    DEF WkRetry, rxVars, poolVars, wkVars, RxHolds, WkHolds, WkBusy
<1>16. CASE WkFinish
  <2>0. \A s \in Slots : RxHolds(s)' <=> RxHolds(s)
    BY <1>16 DEF WkFinish, Settle, rxVars, RxHolds
  <2>1. /\ wkPc = "finish" /\ wkPc' = "loop" /\ pending' = pending
        /\ wkSlot \in Slots
    BY <1>16 DEF WkFinish, Settle, BridgeTypeOK
  <2>2. \A s \in Slots : ~WkHolds(s)'
    BY <2>1 DEF WkHolds, WkBusy
  <2>3. packet = NoPacket /\ sendPc = "idle"
    BY <2>1 DEF CallInv, Custody
  <2>4. CASE err = "ok"
    <3>1. free' = free
      BY <1>16, <2>4 DEF WkFinish, Settle
    <3>2. \A s \in Slots : ~WkHolds(s)
      BY <2>1, <2>4 DEF WkHolds, Released
    <3> QED BY <2>0, <2>1, <2>2, <3>1, <3>2, NothingMoves
  <2>5. CASE err # "ok"
    <3>1. free' = Put(free, wkSlot)
      BY <1>16, <2>5 DEF WkFinish, Settle
    <3>2. \A s \in Slots : WkHolds(s) <=> s = wkSlot
      BY <2>1, <2>3, <2>5 DEF WkHolds, WkBusy, Released
    <3>3. /\ NoRepeats(free')
          /\ \A t \in Slots : InQueue(free', t) <=> InQueue(free, t) \/ t = wkSlot
      BY <2>1, <3>1, <3>2, PutMissing DEF SlotsApart, BridgeTypeOK
    <3>4. \A s \in Slots : InQueue(pending', s) <=> InQueue(pending, s)
      BY <2>1
    <3> QED BY <2>0, <2>1, <2>2, <3>2, <3>3, <3>4 DEF SlotsApart
  <2> QED BY <2>4, <2>5
<1>17. CASE CallerStep
    BY <1>17, ReleasedKept, NothingMoves
    DEF CallerStep, BridgeUnchanged, rxVars, poolVars, wkVars, RxHolds,
        WkHolds, WkBusy
<1>18. CASE Copy
    BY <1>18, NothingMoves
    DEF Copy, UsbCopy, netVars, rxVars, poolVars, wkVars, RxHolds, WkHolds, WkBusy,
        Released
<1>19. CASE Release
  <2>0. \A s \in Slots : RxHolds(s)' <=> RxHolds(s)
    BY <1>19 DEF Release, rxVars, RxHolds
  <2>1. /\ usbPc = "release" /\ pending' = pending
        /\ packet' = [slot |-> packet.slot, result |-> "ok"]
        /\ free' = Put(free, packet.slot)
        /\ wkPc' = wkPc /\ wkSlot' = wkSlot
    BY <1>19 DEF Release, UsbRelease, wkVars
  <2>2. /\ packet # NoPacket /\ packet.slot = wkSlot /\ wkPc = "send"
        /\ sendPc \in {"defer", "wait", "take"} /\ wkSlot \in Slots
    BY <2>1 DEF Custody, Waiting, UsbHolds, CallInv, BridgeTypeOK
  <2>3. packet.result = "timeout"
    BY <2>1 DEF OneSender
  <2>4. ~Released /\ WkBusy
    BY <2>2, <2>3 DEF Released, WkBusy
  <2>5. \A s \in Slots : WkHolds(s) <=> s = wkSlot
    BY <2>4 DEF WkHolds
  <2>6. Released'
    <3>1. packet' \in Packets /\ packet'.result = "ok"
      BY <2>1, <2>2 DEF Packets
    <3> QED BY <3>1, UsbNetAssumption DEF Released
  <2>7. \A s \in Slots : ~WkHolds(s)'
    BY <2>6 DEF WkHolds
  <2>8. /\ NoRepeats(free')
        /\ \A t \in Slots : InQueue(free', t) <=> InQueue(free, t) \/ t = wkSlot
    BY <2>1, <2>2, <2>5, PutMissing DEF SlotsApart, BridgeTypeOK
  <2>9. \A s \in Slots : InQueue(pending', s) <=> InQueue(pending, s)
    BY <2>1
  <2> QED BY <2>0, <2>1, <2>5, <2>7, <2>8, <2>9 DEF SlotsApart
<1>20. CASE ReportLink
    BY <1>20, NothingMoves
    DEF ReportLink, UsbLink, netVars, rxVars, poolVars, wkVars, RxHolds, WkHolds, WkBusy,
        Released
<1>21. CASE DispatchStep
    BY <1>21, ReleasedKept, NothingMoves
    DEF DispatchStep, BridgeUnchanged, rxVars, poolVars, wkVars, RxHolds,
        WkHolds, WkBusy
<1>22. CASE Host
    BY <1>22, NothingMoves
    DEF Host, UsbReady, netVars, rxVars, poolVars, wkVars, RxHolds, WkHolds, WkBusy,
        Released
<1>23. CASE LinkStep
    BY <1>23, NothingMoves
    DEF LinkStep, netVars, rxVars, poolVars, wkVars, RxHolds, WkHolds, WkBusy,
        Released
<1> QED
    BY <1>0, <1>1, <1>2, <1>3, <1>4, <1>5, <1>6, <1>7, <1>8, <1>9, <1>10, <1>11, <1>12, <1>13, <1>14, <1>15, <1>16, <1>17, <1>18, <1>19, <1>20, <1>21, <1>22, <1>23
    DEF Next, WifiTask, Worker, UsbTask, RxStep, WkStep

-----------------------------------------------------------------------------
(* The theorems. *)

DownlinkInv ==
    /\ TypeOK
    /\ NetSendInv
    /\ CallInv
    /\ ~strayed => SlotsApart

\* app_main puts every slot into s_free once.
LEMMA DownlinkInitInv == Init => DownlinkInv
<1> SUFFICES ASSUME Init PROVE DownlinkInv
    OBVIOUS
<1>0. 0 \in Slots
    BY UsbNetAssumption DEF Slots
<1>1. LinkTypeOK
  <2>1. LinkFlags
    BY DEF Init, LinkInit, LinkFlags
  <2>2. <<>> \in Seq({"connected", "disconnected"})
    OBVIOUS
  <2>3. LinkData
    BY <2>2 DEF Init, LinkInit, LinkData
  <2> QED BY <2>1, <2>3 DEF LinkTypeOK, LinkFlags, LinkData
<1>2. NetSendInv
    BY NetInitInv DEF Init
<1>3. free = [k \in 1 .. RxSlots |-> k - 1] /\ RxSlots \in Nat
    BY UsbNetAssumption DEF Init
<1>4. free \in Seq(Slots)
    BY <1>3 DEF Slots
<1>5. BridgeFlags
    BY DEF Init, BridgeFlags
<1>6. BridgeData
  <2>1. <<>> \in Seq(Slots) /\ <<>> \in Seq(Nat)
    OBVIOUS
  <2>2. [s \in Slots |-> [epoch |-> 0, id |-> 0, net |-> 0]]
            \in [Slots -> [epoch : Nat, id : Nat, net : Nat]]
    OBVIOUS
  <2>3. [id |-> 0, net |-> 0] \in FrameIds
    BY DEF FrameIds
  <2>4. [c \in Counters |-> 0] \in [Counters -> Nat]
    OBVIOUS
  <2>5. "invalid_state" \in Results
    BY DEF Results
  <2> QED BY <1>0, <1>4, <2>1, <2>2, <2>3, <2>4, <2>5 DEF Init, BridgeData
<1>7. BridgeTypeOK
    BY <1>5, <1>6 DEF Init, BridgeTypeOK, BridgeFlags, BridgeData
<1>8. CallInv
    BY DEF Init, NetInit, CallInv
<1>9. SlotsApart
  <2>1. NoRepeats(free)
    BY <1>3 DEF NoRepeats
  <2>2. NoRepeats(pending) /\ \A s \in Slots : ~InQueue(pending, s)
    <3>1. DOMAIN pending = {}
      BY DEF Init
    <3> QED BY <3>1 DEF NoRepeats, InQueue
  <2>3. \A s \in Slots : InQueue(free, s)
    <3> SUFFICES ASSUME NEW s \in Slots PROVE InQueue(free, s)
      OBVIOUS
    <3>1. s + 1 \in 1 .. RxSlots /\ (s + 1) - 1 = s
      BY <1>3 DEF Slots
    <3> QED BY <1>3, <3>1 DEF InQueue
  <2>4. \A s \in Slots : ~RxHolds(s) /\ ~WkHolds(s)
    BY DEF Init, RxHolds, WkHolds, WkBusy
  <2> QED BY <2>1, <2>2, <2>3, <2>4 DEF SlotsApart
<1> QED BY <1>1, <1>2, <1>7, <1>8, <1>9 DEF DownlinkInv, TypeOK, NetSendInv, NetInv

\* The whole invariant is preserved by every step.
LEMMA DownlinkStep ==
    ASSUME DownlinkInv, [Next]_vars
    PROVE  DownlinkInv'
<1> USE DEF DownlinkInv, TypeOK
<1>1. [LinkNext]_linkVars /\ [NetNext]_netVars
    BY StepsOfParts
<1>2. LinkTypeOK'
    BY <1>1, LinkType
<1>3. NetSendInv' /\ NetTypeOK'
    BY <1>1, NetStep DEF NetSendInv, NetInv
<1>4. BridgeTypeOK'
  <2>1. BridgeFlags /\ BridgeData
    BY DEF BridgeTypeOK, BridgeFlags, BridgeData
  <2>2. BridgeFlags'
    BY <2>1, FlagsType
  <2>3. BridgeData'
    BY <2>1, DataType DEF NetSendInv, NetInv
  <2>4. (expired \subseteq Nat)'
    <3>1. {frames[pending[k]].id : k \in DOMAIN pending} \subseteq Nat
      <4>1. \A k \in DOMAIN pending : pending[k] \in Slots
        BY DEF BridgeTypeOK
      <4> QED BY <4>1 DEF BridgeTypeOK
    <3>2. CASE UNCHANGED vars
      BY <3>2 DEF vars, BridgeTypeOK
    <3>3. CASE Next
      <4>1. Track
        BY <3>3 DEF Next, WifiTask, Worker, UsbTask
      <4> QED BY <3>1, <4>1 DEF Track, BridgeTypeOK
    <3> QED BY <3>2, <3>3
  <2> QED BY <2>2, <2>3, <2>4 DEF BridgeTypeOK, BridgeFlags, BridgeData
<1>5. CallInv'
    BY CallStep
<1>6. ~strayed' => SlotsApart'
    BY <1>1, NetStrayed, OwnStep DEF NetSendInv
<1> QED BY <1>2, <1>3, <1>4, <1>5, <1>6

\* The variables of the whole path keep their types.
THEOREM DownlinkTypes == Spec => []TypeOK
<1>1. Init => DownlinkInv
    BY DownlinkInitInv
<1>2. DownlinkInv /\ [Next]_vars => DownlinkInv'
    BY DownlinkStep
<1>3. DownlinkInv => TypeOK
    BY DEF DownlinkInv
<1> QED BY <1>1, <1>2, <1>3, PTL DEF Spec

\* Until a do_send_sync left over from a call that timed out finds the packet of
\* a later one, every slot of s_frames is in exactly one place: s_free, s_pending,
\* the receive callback or tx_worker.
THEOREM SlotsOwnedOnce == Spec => []SlotOwnedOnce
<1>1. Init => DownlinkInv
    BY DownlinkInitInv
<1>2. DownlinkInv /\ [Next]_vars => DownlinkInv'
    BY DownlinkStep
<1>3. DownlinkInv => SlotOwnedOnce
    BY DEF DownlinkInv, SlotOwnedOnce
<1> QED BY <1>1, <1>2, <1>3, PTL DEF Spec

\* tx_worker is a caller as tinyusb_net_send_sync wants one: in the whole bridge,
\* too, the TinyUSB task only uses a packet whose call still waits, the semaphore
\* is never lost, and no result is untrue.
THEOREM SendsSafely ==
    Spec => [](PacketAlive /\ SemaNeverLost /\ ResultTruthful /\ BitMeansResult)
<1>1. Init => DownlinkInv
    BY DownlinkInitInv
<1>2. DownlinkInv /\ [Next]_vars => DownlinkInv'
    BY DownlinkStep
<1>3. DownlinkInv => /\ PacketAlive /\ SemaNeverLost
                     /\ ResultTruthful /\ BitMeansResult
    BY DEF DownlinkInv, NetSendInv, NetInv, Custody, Record, Waiting, UsbHolds,
           PacketAlive, SemaNeverLost, ResultTruthful, BitMeansResult
<1> QED BY <1>1, <1>2, <1>3, PTL DEF Spec

\* However wifi_event and wifi_apply_creds interleave: once both are done and no
\* event is left, the bridge agrees with the driver.
THEOREM LinkComesToAgree == Spec => []LinkSettles
<1> DEFINE Inv == DownlinkInv /\ LinkAgreement
<1>1. Init => Inv
    BY DownlinkInitInv, LinkAgreementInit DEF Init
<1>2. Inv /\ [Next]_vars => Inv'
  <2> SUFFICES ASSUME Inv, [Next]_vars PROVE Inv'
      OBVIOUS
  <2>1. [LinkNext]_linkVars /\ LinkTypeOK
    BY StepsOfParts DEF DownlinkInv, TypeOK
  <2> QED BY <2>1, DownlinkStep, LinkAgreementStep
<1>3. Inv => LinkSettles
    BY LinkAgreementSettles DEF DownlinkInv, TypeOK
<1> QED BY <1>1, <1>2, <1>3, PTL DEF Spec

-----------------------------------------------------------------------------
(* What a step does to the frames on their way.                            *)

\* The worker's frame was copied, and the worker does not know yet or has not
\* counted it.
Sent == WkBusy /\ ~Undelivered

WorkerSame == UNCHANGED wkSlot /\ (Undelivered' <=> Undelivered) /\ (Sent' <=> Sent)
HostSame == stats'["wifi_to_host"] = stats["wifi_to_host"]
PathSame == UNCHANGED <<pending, frames, delivered>> /\ WorkerSame /\ HostSame
RxSame == UNCHANGED <<rxPc, rxSlot, rxFrame, received>>

Still == PathSame /\ RxSame
Arrives ==
    /\ PathSame
    /\ rxPc = "idle" /\ received' = received + 1
    /\ \/ rxPc' = "idle"
       \/ /\ rxPc' = "stamp" /\ rxFrame'.id = received'
          /\ InQueue(free, rxSlot') /\ rxSlot' \in Slots
Fills ==
    /\ rxPc # "idle" /\ rxPc' \notin {"idle", "stamp"}
    /\ \A s \in Slots : s # rxSlot => frames'[s] = frames[s]
    /\ rxPc' = "enqueue" => frames'[rxSlot].id = rxFrame.id
    /\ UNCHANGED <<rxSlot, rxFrame, received, pending, delivered>>
    /\ WorkerSame /\ HostSame
Queues ==
    /\ rxPc = "enqueue" /\ rxPc' = "idle"
    /\ pending' = Append(pending, rxSlot)
    /\ UNCHANGED <<rxSlot, rxFrame, received, frames, delivered>>
    /\ WorkerSame /\ HostSame
Takes ==
    /\ wkPc = "receive" /\ wkPc' = "epoch" /\ pending # <<>>
    /\ wkSlot' = Head(pending) /\ pending' = Tail(pending)
    /\ ~Undelivered /\ ~Sent /\ Undelivered' /\ ~Sent'
    /\ UNCHANGED <<frames, delivered>> /\ RxSame /\ HostSame
Copies ==
    /\ wkPc = "send"
    /\ Undelivered /\ ~Undelivered' /\ ~Sent /\ Sent'
    /\ delivered' = Append(delivered, frames[wkSlot].id)
    /\ UNCHANGED <<pending, frames, wkSlot>> /\ RxSame /\ HostSame
Drops ==
    /\ Undelivered /\ ~Undelivered' /\ ~Sent /\ ~Sent'
    /\ UNCHANGED <<pending, frames, delivered, wkSlot>> /\ RxSame /\ HostSame
Confirms ==
    /\ ~Undelivered /\ ~Undelivered' /\ Sent /\ ~Sent'
    /\ stats'["wifi_to_host"] = stats["wifi_to_host"] + 1
    /\ UNCHANGED <<pending, frames, delivered, wkSlot>> /\ RxSame

\* What the TinyUSB task copies is the worker's frame.
LEMMA CopyMoves ==
    ASSUME NetInv, OneSender, CallInv, Copy
    PROVE  Copies
<1>1. /\ usbPc = "xmit" /\ usbPc' = "release" /\ UNCHANGED <<packet, sendPc, sendResult>>
      /\ UNCHANGED <<wkPc, wkSlot, err, stats, pending, frames>> /\ RxSame
      /\ delivered' = Append(delivered, frames[packet.slot].id)
    BY DEF Copy, UsbCopy, rxVars, poolVars, wkVars, RxSame
<1>2. /\ packet.slot = wkSlot /\ wkPc = "send" /\ packet.result = "timeout"
      /\ sendPc # "returned"
    BY <1>1 DEF NetInv, Custody, Waiting, UsbHolds, CallInv, OneSender
<1>3. ~Released /\ WkBusy /\ WkBusy'
    BY <1>1, <1>2 DEF Released, WkBusy
<1> QED BY <1>1, <1>2, <1>3 DEF Copies, Undelivered, Sent, HostSame

\* Nothing else happens to them.
LEMMA FrameMoves ==
    ASSUME BridgeTypeOK, NetInv, OneSender, CallInv, SlotsApart, [Next]_vars
    PROVE  Still \/ Arrives \/ Fills \/ Queues \/ Takes \/ Copies \/ Drops \/ Confirms
<1> USE DEF NetInv
<1> DEFINE WorkerAlike == /\ UNCHANGED <<wkSlot, usbPc>>
                          /\ (WkBusy' <=> WkBusy) /\ (Released' <=> Released)
<1>a. ASSUME WorkerAlike PROVE WorkerSame
    BY <1>a DEF WorkerSame, Undelivered, Sent
<1>b. ASSUME WorkerAlike, UNCHANGED <<pending, frames, delivered, stats>>, RxSame
      PROVE  Still
    BY <1>a, <1>b DEF Still, PathSame, HostSame
<1>c. ASSUME UNCHANGED <<wkVars, netVars>> PROVE WorkerAlike
    BY <1>c DEF wkVars, netVars, WkBusy, Released
<1>d. ASSUME NEW c \in Counters, c # "wifi_to_host", Count(c) PROVE HostSame
    BY <1>d DEF Count, HostSame, BridgeTypeOK
<1>0. CASE UNCHANGED vars
    BY <1>0, <1>b, <1>c DEF vars, rxVars, poolVars, RxSame
<1>1. CASE RxDiscard
  <2>1. HostSame
    BY <1>1, <1>d DEF RxDiscard, Counters
  <2> QED BY <1>1, <2>1, <1>a, <1>c
          DEF RxDiscard, Received, rxVars, poolVars, Arrives, PathSame
<1>2. CASE RxDrop
  <2>1. HostSame
    BY <1>2, <1>d DEF RxDrop, Counters
  <2> QED BY <1>2, <2>1, <1>a, <1>c
          DEF RxDrop, Received, rxVars, poolVars, Arrives, PathSame
<1>3. CASE RxClaim
  <2>1. InQueue(free, rxSlot') /\ rxSlot' \in Slots /\ rxFrame'.id = received'
    BY <1>3, TakeHead DEF RxClaim, SlotsApart, BridgeTypeOK
  <2>2. PathSame
    BY <1>3, <1>a, <1>c DEF RxClaim, PathSame, HostSame
  <2> QED BY <1>3, <2>1, <2>2 DEF RxClaim, Received, Arrives
<1>4. CASE RxStamp
  <2>1. \A s \in Slots : s # rxSlot => frames'[s] = frames[s]
    BY <1>4 DEF RxStamp, BridgeTypeOK
  <2>2. WorkerSame /\ HostSame
    BY <1>4, <1>a, <1>c DEF RxStamp, HostSame
  <2> QED BY <1>4, <2>1, <2>2 DEF RxStamp, Fills
<1>5. CASE RxCopy
  <2>1. \A s \in Slots : s # rxSlot => frames'[s] = frames[s]
    BY <1>5 DEF RxCopy, BridgeTypeOK
  <2>2. frames'[rxSlot].id = rxFrame.id
    BY <1>5 DEF RxCopy, BridgeTypeOK
  <2>3. WorkerSame /\ HostSame
    BY <1>5, <1>a, <1>c DEF RxCopy, HostSame
  <2> QED BY <1>5, <2>1, <2>2, <2>3 DEF RxCopy, Fills
<1>6. CASE RxEnqueue
  <2>1. rxSlot \in Slots /\ ~InQueue(pending, rxSlot)
    BY <1>6 DEF RxEnqueue, RxHolds, SlotsApart, BridgeTypeOK
  <2>2. HasRoom(pending)
    BY <2>1, RoomForMissing DEF SlotsApart, BridgeTypeOK
  <2>3. WorkerSame /\ HostSame
    BY <1>6, <2>2, <1>a, <1>c DEF RxEnqueue, HostSame
  <2> QED BY <1>6, <2>2, <2>3 DEF RxEnqueue, Put, Queues
<1>7. CASE WkRefresh \/ WkNoRefresh
    BY <1>7, <1>b DEF WkRefresh, WkNoRefresh, netVars, rxVars, poolVars, RxSame,
       WkBusy, Released
<1>8. CASE WkBeat
    BY <1>8, <1>b DEF WkBeat, Defer, rxVars, poolVars, RxSame, WkBusy, Released
<1>9. CASE WkReceive
  <2>1. CASE wkPc' = "loop"
    <3>1. UNCHANGED <<wkSlot, pending>> /\ ~WkBusy /\ ~WkBusy'
      BY <1>9, <2>1 DEF WkReceive, WkBusy
    <3>2. WorkerSame
      BY <3>1 DEF WorkerSame, Undelivered, Sent
    <3> QED BY <1>9, <3>1, <3>2
            DEF WkReceive, rxVars, Still, PathSame, HostSame, RxSame
  <2>2. CASE wkPc' # "loop"
    <3>1. /\ wkPc = "receive" /\ wkPc' = "epoch" /\ pending # <<>>
          /\ wkSlot' = Head(pending) /\ pending' = Tail(pending)
          /\ UNCHANGED <<frames, delivered, stats>> /\ RxSame
      BY <1>9, <2>2 DEF WkReceive, rxVars, RxSame
    <3>2. ~WkBusy /\ WkBusy'
      BY <3>1 DEF WkBusy
    <3>3. packet' = NoPacket /\ sendPc' = "idle" /\ usbPc' # "release"
      BY <1>9, <3>1 DEF WkReceive, netVars, CallInv, Custody, Waiting, UsbHolds
    <3>4. ~Released'
      BY <3>1, <3>3 DEF Released
    <3> QED BY <3>1, <3>2, <3>3, <3>4 DEF Takes, Undelivered, Sent, HostSame
  <2> QED BY <2>1, <2>2
<1>10. CASE WkEpoch \/ WkGiveUp \/ WkRetry
  <2>1. WkBusy /\ WkBusy'
    BY <1>10 DEF WkEpoch, WkGiveUp, WkRetry, WkBusy
  <2> QED BY <1>10, <2>1, <1>b, ReleasedKept
          DEF WkEpoch, WkGiveUp, WkRetry, netVars, rxVars, poolVars, RxSame
<1>11. CASE WkSend \/ WkSent
  <2>1. WkBusy /\ WkBusy'
    BY <1>11 DEF WkSend, WkSent, WkBusy
  <2> QED BY <1>11, <2>1, <1>b, ReleasedKept
          DEF WkSend, WkSent, Call, Consume, rxVars, poolVars, RxSame
<1>12. CASE WkFinish
  <2>1. /\ wkPc = "finish" /\ WkBusy /\ ~WkBusy'
        /\ UNCHANGED <<pending, frames, delivered, wkSlot>> /\ RxSame
    BY <1>12 DEF WkFinish, Settle, rxVars, RxSame, WkBusy
  <2>2. packet = NoPacket /\ sendPc = "idle" /\ usbPc # "release"
    BY <2>1 DEF CallInv, Custody, Waiting, UsbHolds
  <2>3. CASE err = "ok"
    <3>1. Count("wifi_to_host")
      BY <1>12, <2>3 DEF WkFinish, Settle
    <3>2. stats'["wifi_to_host"] = stats["wifi_to_host"] + 1
      BY <3>1 DEF Count, BridgeTypeOK, Counters
    <3> QED BY <2>1, <2>3, <3>2 DEF Confirms, Undelivered, Sent, Released
  <2>4. CASE err # "ok"
    <3>1. HostSame
      BY <1>12, <2>4, <1>d DEF WkFinish, Settle, Counters
    <3>2. ~Released
      BY <2>1, <2>2, <2>4 DEF Released
    <3> QED BY <2>1, <2>2, <3>1, <3>2 DEF Drops, Undelivered, Sent
  <2> QED BY <2>3, <2>4
<1>13. CASE CallerStep
  <2>1. UNCHANGED usbPc
    BY <1>13 DEF CallerStep, SendStep, CheckReady, Return, ClearBits, Publish,
       Give, DeferSend, WaitBits, TakeSema, Retire
  <2> QED BY <1>13, <2>1, <1>b, ReleasedKept
          DEF CallerStep, BridgeUnchanged, rxVars, poolVars, wkVars, RxSame, WkBusy
<1>14. CASE Copy
    BY <1>14, CopyMoves
<1>15. CASE Release
  <2>1. /\ usbPc = "release" /\ usbPc' = "signal"
        /\ packet' = [slot |-> packet.slot, result |-> "ok"]
        /\ UNCHANGED <<wkPc, wkSlot, pending, frames, stats, delivered>> /\ RxSame
    BY <1>15 DEF Release, UsbRelease, rxVars, wkVars, RxSame
  <2>2. packet # NoPacket /\ packet.slot \in Slots
    BY <2>1 DEF Custody, Waiting, UsbHolds, NetTypeOK
  <2>3. packet' \in Packets /\ packet'.result = "ok"
    BY <2>1, <2>2 DEF Packets
  <2>4. Released'
    BY <2>3, UsbNetAssumption DEF Released
  <2>5. WorkerSame
    BY <2>1, <2>4 DEF WorkerSame, Undelivered, Sent, WkBusy
  <2> QED BY <2>1, <2>5 DEF Still, PathSame, HostSame
<1>16. CASE ReportLink
    BY <1>16 DEF ReportLink, UsbLink, rxVars, poolVars, wkVars, RxSame, WkBusy,
       Released, Undelivered, Sent, WorkerSame, Still, PathSame, HostSame
<1>17. CASE DispatchStep
  <2>1. Released' <=> Released
    BY <1>17, ReleasedKept
  <2>2. WkBusy' <=> WkBusy
    BY <1>17 DEF DispatchStep, BridgeUnchanged, wkVars, WkBusy
  <2>3. usbPc # "release" /\ usbPc' # "release" /\ wkSlot' = wkSlot
    BY <1>17 DEF DispatchStep, BridgeUnchanged, wkVars, UsbNext, UsbTake,
       UsbRefuse, UsbSignal, UsbGive
  <2>4. WorkerSame
    BY <2>1, <2>2, <2>3 DEF WorkerSame, Undelivered, Sent
  <2> QED BY <1>17, <2>4
          DEF DispatchStep, BridgeUnchanged, rxVars, poolVars, RxSame, Still,
              PathSame, HostSame
<1>18. CASE Host
    BY <1>18, <1>b DEF Host, UsbReady, rxVars, poolVars, wkVars, RxSame, WkBusy,
       Released
<1>19. CASE LinkStep
    BY <1>19, <1>b, <1>c DEF LinkStep, rxVars, poolVars, RxSame
<1> QED
    BY <1>0, <1>1, <1>2, <1>3, <1>4, <1>5, <1>6, <1>7, <1>8, <1>9, <1>10, <1>11,
       <1>12, <1>13, <1>14, <1>15, <1>16, <1>17, <1>18, <1>19
    DEF Next, WifiTask, Worker, UsbTask, RxStep, WkStep

-----------------------------------------------------------------------------
(* Every frame is counted, and those forwarded as such. *)

Total == stats["malformed"] + stats["reflected"] + stats["rxdrop"]
           + stats["wifi_to_host"]

\* Counting a frame under any heading adds one to the frames counted.
LEMMA CountOne ==
    ASSUME BridgeTypeOK, NEW c \in Counters, Count(c)
    PROVE  Total' = Total + 1
<1>1. stats \in [Counters -> Nat] /\ stats' = [stats EXCEPT ![c] = @ + 1]
    BY DEF BridgeTypeOK, Count
<1>2. \A d \in Counters :
         stats[d] \in Nat /\ stats'[d] = IF d = c THEN stats[d] + 1 ELSE stats[d]
    BY <1>1
<1>3. /\ "malformed" \in Counters /\ "reflected" \in Counters
      /\ "rxdrop" \in Counters /\ "wifi_to_host" \in Counters
    BY DEF Counters
<1>4. c = "malformed" \/ c = "reflected" \/ c = "rxdrop" \/ c = "wifi_to_host"
    BY DEF Counters
<1> QED BY <1>2, <1>3, <1>4 DEF Total

\* The counters add up to a number.
LEMMA TotalTyped == BridgeTypeOK => Total \in Nat
    BY DEF BridgeTypeOK, Counters, Total

\* A step counts a frame when it takes it off the path.
LEMMA AccountedStep ==
    ASSUME BridgeTypeOK, FramesAccounted, [Next]_vars
    PROVE  FramesAccounted'
<1> DEFINE InRx == IF rxPc # "idle" THEN 1 ELSE 0
           InWk == IF WkBusy THEN 1 ELSE 0
<1> USE TotalTyped
<1>a. received = Total + Len(pending) + InRx + InWk
    BY DEF FramesAccounted, Total
<1>b. /\ Len(pending) \in Nat /\ InRx \in 0 .. 1 /\ InWk \in 0 .. 1
      /\ received \in Nat
    BY DEF BridgeTypeOK
<1> SUFFICES received' = Total' + Len(pending)' + InRx' + InWk'
    BY DEF FramesAccounted, Total
<1>c. ASSUME UNCHANGED <<received, stats, pending, rxPc>>, WkBusy' <=> WkBusy
      PROVE  received' = Total' + Len(pending)' + InRx' + InWk'
    BY <1>a, <1>c DEF Total
<1>d. CASE RxDiscard \/ RxDrop
  <2>1. /\ received' = received + 1 /\ UNCHANGED <<pending, rxPc, wkPc>>
        /\ \E c \in Counters : Count(c)
    BY <1>d DEF RxDiscard, RxDrop, Received, rxVars, poolVars, wkVars, Counters
  <2>2. Total' = Total + 1
    BY <2>1, CountOne
  <2> QED BY <1>a, <1>b, <2>1, <2>2 DEF WkBusy
<1>e. CASE RxClaim
  <2>1. /\ received' = received + 1 /\ UNCHANGED <<pending, wkPc, stats>>
        /\ rxPc = "idle" /\ rxPc' = "stamp"
    BY <1>e DEF RxClaim, Received, wkVars
  <2> QED BY <1>a, <1>b, <2>1 DEF WkBusy, Total
<1>f. CASE RxStamp \/ RxCopy
  <2>1. /\ UNCHANGED <<received, pending, wkPc, stats>>
        /\ rxPc # "idle" /\ rxPc' # "idle"
    BY <1>f DEF RxStamp, RxCopy, wkVars
  <2> QED BY <1>a, <2>1 DEF WkBusy, Total
<1>g. CASE RxEnqueue
  <2>1. /\ UNCHANGED <<received, wkPc>> /\ rxPc = "enqueue" /\ rxPc' = "idle"
        /\ pending' = Put(pending, rxSlot) /\ rxSlot \in Slots
        /\ pending \in Seq(Slots)
    BY <1>g DEF RxEnqueue, wkVars, BridgeTypeOK
  <2>2. CASE HasRoom(pending)
    <3>1. stats' = stats /\ pending' = Append(pending, rxSlot)
      BY <1>g, <2>1, <2>2 DEF RxEnqueue, Put
    <3>2. Len(pending') = Len(pending) + 1 /\ Total' = Total
      BY <2>1, <3>1 DEF Total
    <3> QED BY <1>a, <1>b, <2>1, <3>2 DEF WkBusy
  <2>3. CASE ~HasRoom(pending)
    <3>1. Count("rxdrop") /\ pending' = pending
      BY <1>g, <2>1, <2>3 DEF RxEnqueue, Put
    <3>2. Total' = Total + 1
      BY <3>1, CountOne DEF Counters
    <3> QED BY <1>a, <1>b, <2>1, <3>1, <3>2 DEF WkBusy
  <2> QED BY <2>2, <2>3
<1>h. CASE WkReceive
  <2>1. UNCHANGED <<received, rxPc, stats>> /\ wkPc = "receive" /\ pending \in Seq(Slots)
    BY <1>h DEF WkReceive, rxVars, BridgeTypeOK
  <2>2. CASE pending # <<>> /\ pending' = Tail(pending) /\ wkPc' = "epoch"
    <3>1. Len(pending') = Len(pending) - 1 /\ Total' = Total
      BY <2>1, <2>2 DEF Total
    <3> QED BY <1>a, <1>b, <2>1, <2>2, <3>1 DEF WkBusy
  <2>3. CASE pending' = pending /\ wkPc' = "loop"
    BY <1>a, <2>1, <2>3 DEF WkBusy, Total
  <2> QED BY <1>h, <2>2, <2>3 DEF WkReceive
<1>i. CASE WkFinish
  <2>1. /\ UNCHANGED <<received, rxPc, pending>>
        /\ wkPc = "finish" /\ wkPc' = "loop" /\ \E c \in Counters : Count(c)
    BY <1>i DEF WkFinish, Settle, rxVars, Counters
  <2>2. Total' = Total + 1
    BY <2>1, CountOne
  <2> QED BY <1>a, <1>b, <2>1, <2>2 DEF WkBusy
<1>j. CASE WkRefresh \/ WkNoRefresh \/ WkBeat \/ WkEpoch \/ WkGiveUp
    BY <1>c, <1>j DEF WkRefresh, WkNoRefresh, WkBeat, WkEpoch, WkGiveUp, rxVars,
       poolVars, WkBusy
<1>k. CASE WkSend \/ WkSent \/ WkRetry
    BY <1>c, <1>k DEF WkSend, WkSent, WkRetry, rxVars, poolVars, WkBusy
<1>l. CASE CallerStep \/ DispatchStep
    BY <1>c, <1>l DEF CallerStep, DispatchStep, BridgeUnchanged, rxVars, poolVars,
       wkVars, WkBusy
<1>m. CASE Copy \/ Release \/ ReportLink \/ Host \/ LinkStep
    BY <1>c, <1>m DEF Copy, Release, ReportLink, Host, LinkStep, rxVars, poolVars,
       wkVars, WkBusy
<1>n. CASE UNCHANGED vars
    BY <1>c, <1>n DEF vars, rxVars, poolVars, wkVars, WkBusy
<1> QED
    BY <1>d, <1>e, <1>f, <1>g, <1>h, <1>i, <1>j, <1>k, <1>l, <1>m, <1>n
    DEF Next, WifiTask, Worker, UsbTask, RxStep, WkStep

\* What was sent to the host is what was counted as forwarded, and the frame the
\* worker is about to count.
CountInv ==
    Len(delivered) = stats["wifi_to_host"] + (IF Sent THEN 1 ELSE 0)

\* In terms of the kinds of steps above it is what CountedIffDelivered says.
LEMMA CountInvMeans == CountInv => CountedIffDelivered
    BY DEF CountInv, CountedIffDelivered, Sent, Undelivered

\* Every step keeps the count.
LEMMA CountStep ==
    ASSUME BridgeTypeOK, NetInv, OneSender, CallInv, SlotsApart, CountInv,
           [Next]_vars
    PROVE  CountInv'
<1>1. /\ Len(delivered) \in Nat /\ stats["wifi_to_host"] \in Nat
      /\ delivered \in Seq(Nat)
    BY DEF BridgeTypeOK, Counters
<1>2. ASSUME delivered' = delivered, HostSame, Sent' <=> Sent PROVE CountInv'
    BY <1>2 DEF CountInv, HostSame
<1>3. CASE Still \/ Arrives
    BY <1>2, <1>3 DEF Still, Arrives, PathSame, WorkerSame
<1>4. CASE Fills \/ Queues \/ Takes \/ Drops
    BY <1>2, <1>4 DEF Fills, Queues, Takes, Drops, WorkerSame
<1>5. CASE Copies
  <2>1. Len(delivered') = Len(delivered) + 1
    BY <1>1, <1>5 DEF Copies
  <2> QED BY <1>1, <1>5, <2>1 DEF Copies, CountInv, HostSame
<1>6. CASE Confirms
    BY <1>1, <1>6 DEF Confirms, CountInv
<1> QED BY <1>3, <1>4, <1>5, <1>6, FrameMoves

-----------------------------------------------------------------------------
(* The order of the frames. *)

\* The number of the frame in a slot.
IdIn(s) == frames[s].id

\* Received before any frame the callback is still handling.
Behind(id) ==
    /\ id <= received
    /\ rxPc # "idle" => id < rxFrame.id

\* Numbers grow from what was delivered by way of the worker's slot and
\* s_pending to the callback.
Ascending == \A j, k \in DOMAIN delivered : j < k => delivered[j] < delivered[k]
OrderInv ==
    /\ \A k \in DOMAIN delivered :
          /\ Behind(delivered[k])
          /\ Undelivered => delivered[k] < IdIn(wkSlot)
          /\ \A j \in DOMAIN pending : delivered[k] < IdIn(pending[j])
    /\ Ascending
    /\ Undelivered =>
          /\ Behind(IdIn(wkSlot))
          /\ \A j \in DOMAIN pending : IdIn(wkSlot) < IdIn(pending[j])
    /\ \A k \in DOMAIN pending :
          /\ Behind(IdIn(pending[k]))
          /\ \A j \in DOMAIN pending : j < k => IdIn(pending[j]) < IdIn(pending[k])
    /\ rxPc # "idle" => rxFrame.id <= received
    /\ rxPc = "enqueue" => IdIn(rxSlot) = rxFrame.id

\* Frames are numbered by natural numbers, and queues hold slots.
LEMMA IdsTyped ==
    ASSUME BridgeTypeOK
    PROVE  /\ \A s \in Slots : IdIn(s) \in Nat
           /\ \A k \in DOMAIN pending : pending[k] \in Slots /\ k \in Nat
           /\ \A k \in DOMAIN delivered : delivered[k] \in Nat /\ k \in Nat
           /\ rxFrame.id \in Nat /\ received \in Nat /\ wkSlot \in Slots
           /\ rxSlot \in Slots
<1>1. delivered \in Seq(Nat) /\ pending \in Seq(Slots)
    BY DEF BridgeTypeOK
<1>2. /\ \A k \in DOMAIN pending : pending[k] \in Slots /\ k \in Nat
      /\ \A k \in DOMAIN delivered : delivered[k] \in Nat /\ k \in Nat
    BY <1>1
<1>3. \A s \in Slots : IdIn(s) \in Nat
    BY DEF BridgeTypeOK, IdIn
<1>4. rxFrame.id \in Nat
    BY DEF BridgeTypeOK, FrameIds
<1> QED BY <1>2, <1>3, <1>4 DEF BridgeTypeOK

\* The callback's slot is nobody else's.
LEMMA RxSlotApart ==
    ASSUME BridgeTypeOK, SlotsApart, rxPc # "idle"
    PROVE  /\ \A k \in DOMAIN pending : pending[k] # rxSlot
           /\ Undelivered => wkSlot # rxSlot
<1>1. RxHolds(rxSlot) /\ rxSlot \in Slots
    BY DEF RxHolds, BridgeTypeOK
<1>2. Undelivered => WkHolds(wkSlot)
    BY DEF Undelivered, WkHolds
<1> QED BY <1>1, <1>2 DEF SlotsApart, InQueue

\* Every step keeps the order.
LEMMA OrderStep ==
    ASSUME BridgeTypeOK, NetInv, OneSender, CallInv, SlotsApart, OrderInv,
           [Next]_vars
    PROVE  OrderInv'
<1> USE IdsTyped
<1>0. /\ pending \in Seq(Slots) /\ delivered \in Seq(Nat)
    BY DEF BridgeTypeOK
<1>1. CASE Still
    BY <1>1 DEF Still, PathSame, WorkerSame, RxSame, OrderInv, Behind, IdIn,
       Ascending
<1>2. CASE Arrives
  <2>1. /\ UNCHANGED <<pending, frames, delivered, wkSlot>>
        /\ Undelivered' <=> Undelivered
        /\ rxPc = "idle" /\ received' = received + 1 /\ rxPc' # "enqueue"
        /\ rxPc' # "idle" => rxFrame'.id = received'
    BY <1>2 DEF Arrives, PathSame, WorkerSame
  <2>2. \A id \in Nat : Behind(id) => Behind(id)'
    BY <2>1 DEF Behind
  <2> QED BY <2>1, <2>2 DEF OrderInv, Ascending, IdIn
<1>3. CASE Fills
  <2>1. /\ UNCHANGED <<pending, delivered, wkSlot, rxSlot, rxFrame, received>>
        /\ Undelivered' <=> Undelivered
        /\ rxPc # "idle" /\ rxPc' # "idle"
        /\ \A s \in Slots : s # rxSlot => IdIn(s)' = IdIn(s)
        /\ rxPc' = "enqueue" => IdIn(rxSlot)' = rxFrame.id
    BY <1>3 DEF Fills, WorkerSame, IdIn
  <2>2. /\ \A k \in DOMAIN pending : IdIn(pending[k])' = IdIn(pending[k])
        /\ Undelivered => IdIn(wkSlot)' = IdIn(wkSlot)
    BY <2>1, RxSlotApart
  <2>3. \A id : Behind(id)' <=> Behind(id)
    BY <2>1 DEF Behind
  <2> QED BY <2>1, <2>2, <2>3 DEF OrderInv, Ascending
<1>4. CASE Queues
  <2>1. /\ UNCHANGED <<frames, delivered, wkSlot, rxSlot, rxFrame, received>>
        /\ Undelivered' <=> Undelivered
        /\ rxPc = "enqueue" /\ rxPc' = "idle" /\ pending' = Append(pending, rxSlot)
    BY <1>4 DEF Queues, WorkerSame
  <2>2. \A id : Behind(id) => Behind(id)' /\ id < IdIn(rxSlot)
    BY <2>1 DEF Behind, OrderInv
  <2>3. Behind(IdIn(rxSlot))'
    BY <2>1 DEF Behind, OrderInv, IdIn
  <2>4. \A k \in DOMAIN pending' :
           /\ k \in Nat
           /\ \/ k = Len(pending) + 1 /\ pending'[k] = rxSlot
              \/ k \in DOMAIN pending /\ pending'[k] = pending[k]
    BY <1>0, <2>1, AppendAt
  <2>5. \A s : IdIn(s)' = IdIn(s)
    BY <2>1 DEF IdIn
  <2>6. \A k \in DOMAIN pending : k < Len(pending) + 1
    BY <1>0
  <2> QED BY <2>1, <2>2, <2>3, <2>4, <2>5, <2>6 DEF OrderInv, Ascending
<1>5. CASE Takes
  <2>1. /\ UNCHANGED <<frames, delivered>> /\ RxSame
        /\ Undelivered' /\ pending # <<>>
        /\ wkSlot' = Head(pending) /\ pending' = Tail(pending)
    BY <1>5 DEF Takes
  <2>2. /\ 1 \in DOMAIN pending /\ wkSlot' = pending[1]
        /\ \A k \in DOMAIN pending' :
              /\ k \in Nat \ {0} /\ k + 1 \in DOMAIN pending
              /\ pending'[k] = pending[k + 1]
    BY <1>0, <2>1, TailAt
  <2>3. \A s : IdIn(s)' = IdIn(s)
    BY <2>1 DEF IdIn
  <2>4. \A id : Behind(id)' <=> Behind(id)
    BY <2>1 DEF Behind, RxSame
  <2>5. \A k \in Nat \ {0} : 1 < k + 1
    OBVIOUS
  <2>6. \A j, k \in Nat : j < k => j + 1 < k + 1
    OBVIOUS
  <2> QED BY <2>1, <2>2, <2>3, <2>4, <2>5, <2>6
          DEF OrderInv, Ascending, RxSame
<1>6. CASE Copies
  <2>1. /\ UNCHANGED <<frames, pending, wkSlot>> /\ RxSame
        /\ Undelivered /\ ~Undelivered'
        /\ delivered' = Append(delivered, IdIn(wkSlot))
    BY <1>6 DEF Copies, IdIn
  <2>2. \A k \in DOMAIN delivered' :
           /\ k \in Nat
           /\ \/ k = Len(delivered) + 1 /\ delivered'[k] = IdIn(wkSlot)
              \/ k \in DOMAIN delivered /\ delivered'[k] = delivered[k]
    BY <1>0, <2>1, AppendAt
  <2>3. \A s : IdIn(s)' = IdIn(s)
    BY <2>1 DEF IdIn
  <2>4. \A id : Behind(id)' <=> Behind(id)
    BY <2>1 DEF Behind, RxSame
  <2>5. \A k \in DOMAIN delivered : k < Len(delivered) + 1
    BY <1>0
  <2>6. Ascending'
    BY <1>0, <2>1, <2>2, <2>5 DEF OrderInv, Ascending
  <2> QED BY <2>1, <2>2, <2>3, <2>4, <2>6 DEF OrderInv, RxSame
<1>7. CASE Drops \/ Confirms
    BY <1>7 DEF Drops, Confirms, RxSame, OrderInv, Behind, IdIn, Ascending
<1> QED BY <1>1, <1>2, <1>3, <1>4, <1>5, <1>6, <1>7, FrameMoves

-----------------------------------------------------------------------------
(* Frames queued before the epoch moved on. *)

Stale(s) == frames[s].epoch < epoch

\* What was queued when the epoch moved on is stale where it still is, and is not
\* what the worker takes to be current.
NoneStale == \A k \in DOMAIN delivered : delivered[k] \notin expired
ExpiryInv ==
    /\ NoneStale
    /\ \A k \in DOMAIN pending :
          /\ frames[pending[k]].epoch <= epoch
          /\ IdIn(pending[k]) \in expired => Stale(pending[k])
    /\ wkPc = "epoch" =>
          /\ frames[wkSlot].epoch <= epoch
          /\ IdIn(wkSlot) \in expired => Stale(wkSlot)
    /\ Undelivered /\ wkPc # "epoch" /\ current => IdIn(wkSlot) \notin expired
    /\ wkPc = "send" => current
    /\ rxPc \in {"copy", "enqueue"} => frames[rxSlot].epoch <= epoch
    /\ \A id \in expired : Behind(id)

\* What was received before stays so, and the worker only gets a frame to
\* deliver from s_pending.
LEMMA BehindKept ==
    ASSUME BridgeTypeOK, NetInv, OneSender, CallInv, SlotsApart, OrderInv,
           [Next]_vars
    PROVE  /\ \A id \in Nat : Behind(id) => Behind(id)'
           /\ (wkPc' = "epoch" => wkPc = "epoch") /\ Undelivered' => Undelivered
<1> USE IdsTyped
<1>1. CASE Still \/ Drops \/ Confirms \/ Copies
    BY <1>1 DEF Still, Drops, Confirms, Copies, PathSame, WorkerSame, RxSame, Behind
<1>2. CASE Takes
    BY <1>2 DEF Takes, RxSame, Behind
<1>3. CASE Fills \/ Queues
    BY <1>3 DEF Fills, Queues, WorkerSame, Behind
<1>4. CASE Arrives
    BY <1>4 DEF Arrives, PathSame, WorkerSame, Behind
<1> QED BY <1>1, <1>2, <1>3, <1>4, FrameMoves

\* The epoch moves on in steps of the link only, and then by one.
LEMMA EpochMoves ==
    ASSUME [LinkNext]_linkVars
    PROVE  epoch' \in {epoch, epoch + 1}
    BY DEF LinkNext, linkVars, Driver, Associate, Roam, JoinFails, Drop, EventTask,
       EvDisconnected, EvUnregister, EvConnected, EvRegister, EvUp, ApplyBegin,
       ApplyRest, ApplyUnregister, ApplyDisconnect, ApplyConnect, UsbEpoch

\* So are epochs.
LEMMA StampsTyped ==
    ASSUME BridgeTypeOK, LinkTypeOK
    PROVE  epoch \in Nat /\ \A s \in Slots : frames[s].epoch \in Nat
    BY DEF BridgeTypeOK, LinkTypeOK

\* When the epoch moves on, everything in s_pending is older.
LEMMA ExpiryLink ==
    ASSUME BridgeTypeOK, LinkTypeOK, OrderInv, ExpiryInv, LinkStep, Track
    PROVE  ExpiryInv'
<1> USE IdsTyped, StampsTyped
<1>1. /\ UNCHANGED <<rxVars, poolVars, wkVars, netVars, received, delivered>>
      /\ epoch' \in {epoch, epoch + 1}
    BY EpochMoves DEF LinkStep
<1>2. UNCHANGED <<rxPc, rxSlot, rxFrame, pending, frames, wkPc, wkSlot, current,
                  received, delivered>>
    BY <1>1 DEF rxVars, poolVars, wkVars
<1>3. /\ Undelivered' <=> Undelivered
      /\ \A id : Behind(id)' <=> Behind(id)
      /\ \A s : IdIn(s)' = IdIn(s)
    BY <1>1, <1>2 DEF wkVars, netVars, Undelivered, WkBusy, Released, Behind, IdIn
<1>4. CASE epoch' = epoch
    BY <1>2, <1>3, <1>4 DEF Track, ExpiryInv, NoneStale, Stale
<1>5. CASE epoch' = epoch + 1
  <2>1. /\ expired \subseteq expired'
        /\ \A id \in expired' : id \in expired
                 \/ \E k \in DOMAIN pending : id = IdIn(pending[k])
    BY <1>5 DEF Track, IdIn
  <2>2. \A s \in Slots : frames[s].epoch <= epoch => Stale(s)'
    BY <1>2, <1>5 DEF Stale
  <2>3. NoneStale'
    BY <1>2, <2>1 DEF NoneStale, ExpiryInv, OrderInv
  <2>4. Undelivered /\ wkPc # "epoch" /\ current => IdIn(wkSlot) \notin expired'
    BY <2>1 DEF ExpiryInv, OrderInv
  <2>5. \A id \in expired' : Behind(id)
    BY <2>1 DEF ExpiryInv, OrderInv
  <2>6. \A s \in Slots : frames[s].epoch <= epoch => frames'[s].epoch <= epoch'
    BY <1>2, <1>5
  <2> QED BY <1>2, <1>3, <2>2, <2>3, <2>4, <2>5, <2>6 DEF ExpiryInv
<1> QED BY <1>1, <1>4, <1>5

\* A slot just received is the worker's to deliver.
LEMMA EpochUndelivered ==
    ASSUME NetInv, CallInv, wkPc = "epoch"
    PROVE  Undelivered
    BY DEF NetInv, CallInv, Custody, Waiting, UsbHolds, Undelivered, WkBusy, Released

\* Every step keeps stale frames from the host.
LEMMA ExpiryStep ==
    ASSUME TypeOK, NetInv, OneSender, CallInv, SlotsApart, OrderInv, ExpiryInv,
           [Next]_vars
    PROVE  ExpiryInv'
<1> USE IdsTyped, StampsTyped DEF TypeOK
<1>a. \A id \in expired : id \in Nat /\ Behind(id) /\ Behind(id)'
    BY BehindKept DEF ExpiryInv, BridgeTypeOK
<1>b. (wkPc' = "epoch" => wkPc = "epoch") /\ Undelivered' => Undelivered
    BY BehindKept
<1>c. CASE LinkStep /\ Track
    BY <1>c, ExpiryLink
<1>d. ASSUME UNCHANGED <<epoch, expired, pending, frames, delivered, wkSlot>>,
             UNCHANGED <<rxPc, rxSlot>> \/ rxPc' \in {"idle", "stamp"},
             wkPc' = "epoch" <=> wkPc = "epoch", current' = current,
             wkPc' = "send" => wkPc = "send" \/ current
      PROVE  ExpiryInv'
  <2>1. \A s : IdIn(s)' = IdIn(s) /\ (Stale(s)' <=> Stale(s))
    BY <1>d DEF IdIn, Stale
  <2> QED BY <1>a, <1>b, <1>d, <2>1 DEF ExpiryInv, NoneStale
<1>e. Track
  <2>1. CASE UNCHANGED vars
    BY <2>1 DEF vars, linkVars, Track
  <2> QED BY <2>1 DEF Next, WifiTask, Worker, UsbTask
<1>f. ASSUME UNCHANGED linkVars PROVE epoch' = epoch /\ expired' = expired
    BY <1>e, <1>f DEF linkVars, Track
<1>1. CASE RxDiscard \/ RxDrop \/ RxClaim
    BY <1>1, <1>d, <1>f DEF RxDiscard, RxDrop, RxClaim, rxVars, poolVars, wkVars
<1>2. CASE RxStamp
  <2>1. /\ UNCHANGED <<epoch, expired, pending, delivered, wkSlot, wkPc, current, rxSlot>>
        /\ rxPc # "idle" /\ rxPc' = "copy" /\ frames'[rxSlot].epoch = epoch
        /\ \A s \in Slots : s # rxSlot => frames'[s] = frames[s]
    BY <1>2, <1>f DEF RxStamp, wkVars, BridgeTypeOK
  <2>2. /\ \A k \in DOMAIN pending : frames'[pending[k]] = frames[pending[k]]
        /\ Undelivered => frames'[wkSlot] = frames[wkSlot]
    BY <2>1, RxSlotApart
  <2>3. wkPc = "epoch" => Undelivered
    BY EpochUndelivered
  <2> QED BY <1>a, <1>b, <2>1, <2>2, <2>3
          DEF ExpiryInv, NoneStale, IdIn, Stale
<1>3. CASE RxCopy
  <2>1. /\ UNCHANGED <<epoch, expired, pending, delivered, wkSlot, wkPc, current, rxSlot>>
        /\ rxPc = "copy" /\ rxPc' = "enqueue"
        /\ frames'[rxSlot].epoch = frames[rxSlot].epoch
        /\ \A s \in Slots : s # rxSlot => frames'[s] = frames[s]
    BY <1>3, <1>f DEF RxCopy, wkVars, BridgeTypeOK
  <2>2. /\ \A k \in DOMAIN pending : frames'[pending[k]] = frames[pending[k]]
        /\ Undelivered => frames'[wkSlot] = frames[wkSlot]
    BY <2>1, RxSlotApart
  <2>3. wkPc = "epoch" => Undelivered
    BY EpochUndelivered
  <2> QED BY <1>a, <1>b, <2>1, <2>2, <2>3
          DEF ExpiryInv, NoneStale, IdIn, Stale
<1>4. CASE RxEnqueue
  <2>1. /\ UNCHANGED <<epoch, expired, frames, delivered, wkSlot, wkPc, current, rxSlot>>
        /\ rxPc = "enqueue" /\ rxPc' = "idle"
        /\ pending' = pending \/ pending' = Append(pending, rxSlot)
    BY <1>4, <1>f DEF RxEnqueue, wkVars, Put
  <2>2. pending \in Seq(Slots)
    BY DEF BridgeTypeOK
  <2>3. \A k \in DOMAIN pending' :
           pending'[k] = rxSlot \/ (k \in DOMAIN pending /\ pending'[k] = pending[k])
    BY <2>1, <2>2, AppendAt
  <2>4. frames[rxSlot].epoch <= epoch /\ IdIn(rxSlot) \notin expired
    BY <1>a, <2>1 DEF ExpiryInv, OrderInv, Behind
  <2> QED BY <1>a, <1>b, <2>1, <2>3, <2>4
          DEF ExpiryInv, NoneStale, IdIn, Stale
<1>5. CASE WkReceive
  <2>1. /\ UNCHANGED <<epoch, expired, frames, delivered, current, rxPc, rxSlot>>
        /\ wkPc = "receive" /\ pending \in Seq(Slots)
    BY <1>5, <1>f DEF WkReceive, rxVars, BridgeTypeOK
  <2>2. CASE pending # <<>> /\ wkSlot' = Head(pending) /\ pending' = Tail(pending)
               /\ wkPc' = "epoch"
    <3>1. /\ 1 \in DOMAIN pending /\ wkSlot' = pending[1]
          /\ \A k \in DOMAIN pending' : k + 1 \in DOMAIN pending
                                         /\ pending'[k] = pending[k + 1]
      BY <2>1, <2>2, TailAt
    <3> QED BY <1>a, <2>1, <2>2, <3>1 DEF ExpiryInv, NoneStale, IdIn, Stale
  <2>3. CASE UNCHANGED <<wkSlot, pending>> /\ wkPc' = "loop"
    BY <1>d, <2>1, <2>3
  <2> QED BY <1>5, <2>2, <2>3 DEF WkReceive
<1>6. CASE WkEpoch
  <2>1. /\ UNCHANGED <<epoch, expired, frames, pending, delivered, wkSlot, rxPc, rxSlot>>
        /\ wkPc = "epoch" /\ wkPc' = "attempt"
        /\ current' = (frames[wkSlot].epoch = epoch)
    BY <1>6, <1>f DEF WkEpoch, IsCurrent, rxVars, poolVars
  <2>2. current' => frames[wkSlot].epoch = epoch
    BY <2>1
  <2>3. frames[wkSlot].epoch = epoch => ~Stale(wkSlot)
    BY DEF Stale
  <2>4. current' => IdIn(wkSlot) \notin expired
    BY <2>1, <2>2, <2>3 DEF ExpiryInv
  <2> QED BY <1>a, <2>1, <2>4 DEF ExpiryInv, NoneStale, IdIn, Stale
<1>7. CASE Copy
  <2>1. UNCHANGED <<epoch, expired, frames, pending, wkSlot, wkPc, current, rxPc, rxSlot>>
    BY <1>7, <1>f DEF Copy, rxVars, poolVars, wkVars
  <2>2. Copies
    BY <1>7, CopyMoves
  <2>3. IdIn(wkSlot) \notin expired /\ delivered' = Append(delivered, IdIn(wkSlot))
    BY <2>2 DEF Copies, ExpiryInv, IdIn
  <2>4. \A k \in DOMAIN delivered' :
           delivered'[k] = IdIn(wkSlot)
              \/ (k \in DOMAIN delivered /\ delivered'[k] = delivered[k])
    <3>1. delivered \in Seq(Nat) /\ IdIn(wkSlot) \in Nat
      BY DEF BridgeTypeOK
    <3> QED BY <2>3, <3>1, AppendAt
  <2> QED BY <1>a, <1>b, <2>1, <2>3, <2>4
          DEF ExpiryInv, NoneStale, IdIn, Stale
<1>8. CASE WkRefresh \/ WkNoRefresh \/ WkBeat \/ WkGiveUp
    BY <1>8, <1>d, <1>f DEF WkRefresh, WkNoRefresh, WkBeat, WkGiveUp, rxVars, poolVars
<1>9. CASE WkSend \/ WkSent \/ WkRetry \/ WkFinish
    BY <1>9, <1>d, <1>f DEF WkSend, WkSent, WkRetry, WkFinish, rxVars, poolVars
<1>10. CASE CallerStep \/ DispatchStep
    BY <1>10, <1>d, <1>f DEF CallerStep, DispatchStep, BridgeUnchanged, rxVars,
       poolVars, wkVars
<1>11. CASE Release \/ ReportLink \/ Host
    BY <1>11, <1>d, <1>f DEF Release, ReportLink, Host, rxVars, poolVars, wkVars
<1>12. CASE UNCHANGED vars
    BY <1>12, <1>d DEF vars, rxVars, poolVars, wkVars, linkVars
<1> QED
    BY <1>c, <1>e, <1>1, <1>2, <1>3, <1>4, <1>5, <1>6, <1>7, <1>8, <1>9, <1>10,
       <1>11, <1>12
    DEF Next, WifiTask, Worker, UsbTask, RxStep, WkStep

-----------------------------------------------------------------------------
(* The path as a lossy queue. *)

\* The images of a queue's entries, in their order.
Along(q, f) == [k \in DOMAIN q |-> f[q[k]]]

Ids == [s \in Slots |-> IdIn(s)]

\* The worker's frame, if it still is one to deliver, and those of s_pending.
LEMMA OutstandingIs ==
    ASSUME BridgeTypeOK
    PROVE  /\ Ids \in [Slots -> Nat] /\ Along(pending, Ids) \in Seq(Nat)
           /\ Undelivered => Outstanding = <<Ids[wkSlot]>> \o Along(pending, Ids)
           /\ ~Undelivered => Outstanding = <<>> \o Along(pending, Ids)
<1>1. pending \in Seq(Slots) /\ wkSlot \in Slots
    BY DEF BridgeTypeOK
<1>2. Ids \in [Slots -> Nat] /\ \A s \in Slots : Ids[s] = frames[s].id
    BY IdsTyped DEF Ids, IdIn
<1>3. Along(pending, Ids) \in Seq(Nat)
    BY <1>1, <1>2 DEF Along
<1>4. Along(pending, Ids) = [k \in DOMAIN pending |-> frames[pending[k]].id]
    BY <1>1, <1>2 DEF Along
<1> QED BY <1>1, <1>2, <1>3, <1>4 DEF Outstanding

\* A queue behind one more entry: its entries, its head and its tail.
LEMMA ConcatFirst ==
    ASSUME NEW q \in Seq(Nat), NEW a \in Nat
    PROVE  /\ <<a>> \o q \in Seq(Nat) /\ Len(<<a>> \o q) = 1 + Len(q)
           /\ DOMAIN (<<a>> \o q) = 1 .. 1 + Len(q)
           /\ \A k \in 1 .. 1 + Len(q) :
                 (<<a>> \o q)[k] = IF k <= 1 THEN a ELSE q[k - 1]
<1>1. <<a>> \in Seq(Nat) /\ Len(<<a>>) = 1 /\ <<a>>[1] = a /\ Len(q) \in Nat
    OBVIOUS
<1>2. /\ <<a>> \o q \in Seq(Nat) /\ Len(<<a>> \o q) = Len(<<a>>) + Len(q)
      /\ \A k \in 1 .. Len(<<a>>) + Len(q) :
            (<<a>> \o q)[k] = IF k <= Len(<<a>>) THEN <<a>>[k] ELSE q[k - Len(<<a>>)]
    BY <1>1, ConcatProperties
<1>3. \A k \in 1 .. 1 + Len(q) : k <= 1 => k = 1
    BY <1>1
<1>4. DOMAIN (<<a>> \o q) = 1 .. Len(<<a>> \o q)
    BY <1>2, LenProperties
<1> QED BY <1>1, <1>2, <1>3, <1>4

\* Its head is that entry and its tail the queue.
LEMMA ConcatOne ==
    ASSUME NEW q \in Seq(Nat), NEW a \in Nat
    PROVE  /\ <<>> \o q = q
           /\ <<a>> \o q # <<>>
           /\ Head(<<a>> \o q) = a /\ Tail(<<a>> \o q) = q
<1> DEFINE aq == <<a>> \o q
<1>1. /\ aq \in Seq(Nat) /\ Len(aq) = 1 + Len(q) /\ Len(q) \in Nat
      /\ \A i \in 1 .. 1 + Len(q) : aq[i] = IF i <= 1 THEN a ELSE q[i - 1]
    BY ConcatFirst
<1> HIDE DEF aq
<1>2. aq # <<>> /\ Head(aq) = a
    BY <1>1
<1>3. /\ Tail(aq) \in Seq(Nat) /\ Len(Tail(aq)) = Len(q)
      /\ \A i \in 1 .. Len(Tail(aq)) : Tail(aq)[i] = q[i]
    BY <1>1, <1>2, HeadTailProperties
<1>4. Tail(aq) = q
    BY <1>3, SeqEqual
<1> QED BY <1>2, <1>4, ConcatEmptySeq DEF aq

\* Appending after a concatenation is appending to its second part.
LEMMA ConcatAppend ==
    ASSUME NEW p \in Seq(Nat), NEW q \in Seq(Nat), NEW b \in Nat
    PROVE  /\ p \o q \in Seq(Nat)
           /\ p \o Append(q, b) = Append(p \o q, b)
<1>1. <<b>> \in Seq(Nat)
    OBVIOUS
<1>2. p \o q \in Seq(Nat)
    BY ConcatProperties
<1>3. Append(q, b) = q \o <<b>> /\ Append(p \o q, b) = (p \o q) \o <<b>>
    BY <1>2, AppendIsConcat
<1> QED BY <1>1, <1>2, <1>3, ConcatAssociative

\* The images of what follows the head follow the head's image.
LEMMA AlongTail ==
    ASSUME NEW q \in Seq(Slots), q # <<>>, NEW f \in [Slots -> Nat]
    PROVE  Along(q, f) = <<f[Head(q)]>> \o Along(Tail(q), f)
<1> DEFINE first == f[Head(q)]
           rest == Along(Tail(q), f)
<1>1. /\ Len(q) \in Nat \ {0} /\ Head(q) = q[1]
      /\ \A k \in 1 .. Len(q) : q[k] \in Slots
      /\ Tail(q) \in Seq(Slots) /\ Len(Tail(q)) = Len(q) - 1
      /\ \A k \in 1 .. Len(q) - 1 : Tail(q)[k] = q[k + 1]
    OBVIOUS
<1>2. /\ Along(q, f) \in Seq(Nat) /\ Len(Along(q, f)) = Len(q)
      /\ \A k \in 1 .. Len(q) : Along(q, f)[k] = f[q[k]]
    BY <1>1 DEF Along
<1>3. /\ rest \in Seq(Nat) /\ Len(rest) = Len(q) - 1
      /\ \A k \in 1 .. Len(q) - 1 : rest[k] = f[q[k + 1]]
    BY <1>1 DEF Along
<1>4. first \in Nat /\ first = f[q[1]]
    BY <1>1
<1> HIDE DEF first, rest
<1>6. /\ <<first>> \o rest \in Seq(Nat)
      /\ Len(<<first>> \o rest) = Len(q)
      /\ \A k \in 1 .. Len(q) :
            (<<first>> \o rest)[k] = IF k <= 1 THEN first ELSE rest[k - 1]
  <2>1. 1 + Len(rest) = Len(q)
    BY <1>1, <1>3
  <2> QED BY <1>3, <1>4, <2>1, ConcatFirst
<1>7. ASSUME NEW k \in 1 .. Len(q)
      PROVE  Along(q, f)[k] = (<<first>> \o rest)[k]
  <2>1. CASE k = 1
    BY <1>1, <1>2, <1>4, <1>6, <2>1
  <2>2. CASE k # 1
    <3>1. k - 1 \in 1 .. Len(q) - 1 /\ (k - 1) + 1 = k /\ ~(k <= 1)
      BY <1>1, <2>2
    <3> QED BY <1>2, <1>3, <1>6, <3>1
  <2> QED BY <2>1, <2>2
<1>8. Along(q, f) = <<first>> \o rest
    BY <1>2, <1>6, <1>7, SeqEqual
<1> QED BY <1>8 DEF first, rest

\* The image of an entry put last is last.
LEMMA AlongAppend ==
    ASSUME NEW q \in Seq(Slots), NEW s \in Slots, NEW f \in [Slots -> Nat]
    PROVE  Along(Append(q, s), f) = Append(Along(q, f), f[s])
<1>1. Along(q, f) \in Seq(Nat) /\ Len(Along(q, f)) = Len(q)
    BY DEF Along
<1>2. /\ Append(Along(q, f), f[s]) \in Seq(Nat)
      /\ Len(Append(Along(q, f), f[s])) = Len(q) + 1
      /\ \A k \in 1 .. Len(q) : Append(Along(q, f), f[s])[k] = f[q[k]]
      /\ Append(Along(q, f), f[s])[Len(q) + 1] = f[s]
    BY <1>1, AppendProperties DEF Along
<1>3. /\ Along(Append(q, s), f) \in Seq(Nat)
      /\ Len(Along(Append(q, s), f)) = Len(q) + 1
      /\ \A k \in 1 .. Len(q) + 1 :
            Along(Append(q, s), f)[k] = f[IF k = Len(q) + 1 THEN s ELSE q[k]]
    BY AppendAt DEF Along
<1>4. ASSUME NEW k \in 1 .. Len(q) + 1
      PROVE  Along(Append(q, s), f)[k] = Append(Along(q, f), f[s])[k]
  <2>1. k \in 1 .. Len(q) \/ k = Len(q) + 1
    BY <1>1
  <2> QED BY <1>1, <1>2, <1>3, <2>1
<1> QED BY <1>2, <1>3, <1>4, SeqEqual

\* Every step of the path is one of the lossy queue's, or leaves it alone: a
\* frame is accepted as it enters s_pending, delivered as the TinyUSB task copies
\* it, discarded as the worker gives it up.
LEMMA FifoStep ==
    ASSUME BridgeTypeOK, BridgeTypeOK', NetInv, OneSender, CallInv, SlotsApart,
           OrderInv, [Next]_vars
    PROVE  [Fifo!FifoNext]_(Fifo!fifoVars)
<1> USE OutstandingIs
<1> DEFINE Q == Along(pending, Ids)
<1>0. pending \in Seq(Slots) /\ wkSlot \in Slots /\ rxSlot \in Slots
    BY DEF BridgeTypeOK
<1>a. ASSUME UNCHANGED <<Outstanding, delivered>> PROVE UNCHANGED Fifo!fifoVars
    BY <1>a DEF Fifo!fifoVars
<1>b. ASSUME UNCHANGED <<pending, frames, delivered, wkSlot>>,
             Undelivered' <=> Undelivered
      PROVE  UNCHANGED Fifo!fifoVars
    BY <1>a, <1>b DEF Outstanding
<1>c. Outstanding' = (IF Undelivered' THEN <<Ids'[wkSlot']>> ELSE <<>>)
                         \o Along(pending', Ids')
  <2>1. pending' \in Seq(Slots) /\ wkSlot' \in Slots
    BY DEF BridgeTypeOK
  <2>2. \A s \in Slots : Ids'[s] = frames'[s].id
    BY DEF Ids, IdIn
  <2>3. Along(pending', Ids') = [k \in DOMAIN pending' |-> frames'[pending'[k]].id]
    BY <2>1, <2>2 DEF Along
  <2> QED BY <2>1, <2>2, <2>3 DEF Outstanding
<1>1. CASE Still \/ Arrives \/ Confirms
    BY <1>1, <1>b DEF Still, Arrives, Confirms, PathSame, WorkerSame
<1>2. CASE Fills
  <2>1. /\ UNCHANGED <<pending, delivered, wkSlot>> /\ rxPc # "idle"
        /\ \A s \in Slots : s # rxSlot => frames'[s] = frames[s]
        /\ Undelivered' <=> Undelivered
    BY <1>2 DEF Fills, WorkerSame
  <2>2. /\ \A k \in DOMAIN pending : frames'[pending[k]] = frames[pending[k]]
        /\ Undelivered => frames'[wkSlot] = frames[wkSlot]
    BY <1>0, <2>1, RxSlotApart
  <2>3. Outstanding' = Outstanding
    BY <2>1, <2>2 DEF Outstanding
  <2> QED BY <1>a, <2>1, <2>3
<1>3. CASE Takes
  <2>1. /\ UNCHANGED <<frames, delivered>> /\ ~Undelivered /\ Undelivered'
        /\ pending # <<>> /\ wkSlot' = Head(pending) /\ pending' = Tail(pending)
    BY <1>3 DEF Takes
  <2>2. Ids' = Ids
    BY <2>1 DEF Ids, IdIn
  <2>3. Outstanding' = <<Ids[Head(pending)]>> \o Along(Tail(pending), Ids)
    BY <1>c, <2>1, <2>2
  <2>4. Outstanding = Q
    BY <2>1, ConcatOne
  <2> QED BY <1>0, <1>a, <2>1, <2>3, <2>4, AlongTail
<1>4. CASE Queues
  <2>1. /\ UNCHANGED <<frames, delivered, wkSlot>> /\ (Undelivered' <=> Undelivered)
        /\ rxPc = "enqueue" /\ pending' = Append(pending, rxSlot)
    BY <1>4 DEF Queues, WorkerSame
  <2> DEFINE id == Ids[rxSlot]
             front == IF Undelivered THEN <<Ids[wkSlot]>> ELSE <<>>
  <2>2. Ids' = Ids /\ id = rxFrame.id /\ id \in Nat
    BY <1>0, <2>1 DEF Ids, IdIn, OrderInv
  <2>3. front \in Seq(Nat) /\ Outstanding = front \o Q
    <3>1. CASE Undelivered
      BY <1>0, <3>1
    <3>2. CASE ~Undelivered
      BY <1>0, <3>2
    <3> QED BY <3>1, <3>2
  <2>4. Outstanding' = front \o Along(Append(pending, rxSlot), Ids)
    BY <1>c, <2>1, <2>2
  <2>5. Outstanding' = Append(Outstanding, id) /\ Outstanding \in Seq(Nat)
    <3>1. Along(Append(pending, rxSlot), Ids) = Append(Q, id)
      BY <1>0, AlongAppend
    <3>2. Q \in Seq(Nat) /\ front \in Seq(Nat) /\ id \in Nat
      BY <2>2, <2>3
    <3> HIDE DEF front, id, Q
    <3>3. front \o Q \in Seq(Nat) /\ front \o Append(Q, id) = Append(front \o Q, id)
      BY <3>2, ConcatAppend
    <3> QED BY <2>3, <2>4, <3>1, <3>3
  <2>6. \A k \in DOMAIN delivered : delivered[k] < id
    BY <2>1, <2>2 DEF OrderInv, Behind
  <2>7. ASSUME NEW k \in DOMAIN Outstanding PROVE Outstanding[k] < id
    <3>1. \A j \in DOMAIN pending : j \in Nat /\ Q[j] < id /\ Q[j] = Ids[pending[j]]
      BY <1>0, <2>1, <2>2, IdsTyped DEF OrderInv, Behind, Along, Ids, IdIn
    <3>2. Undelivered => Ids[wkSlot] < id
      BY <1>0, <2>1, <2>2 DEF OrderInv, Behind, Ids, IdIn
    <3>3. Len(Q) = Len(pending) /\ DOMAIN pending = 1 .. Len(pending) /\ Len(Q) \in Nat
      BY <1>0 DEF Along
    <3>4. CASE Undelivered
      <4>1. /\ k \in 1 .. 1 + Len(Q)
            /\ Outstanding[k] = IF k <= 1 THEN Ids[wkSlot] ELSE Q[k - 1]
        BY <2>3, <3>3, <3>4, ConcatFirst
      <4>2. CASE k <= 1
        BY <3>2, <3>4, <4>1, <4>2
      <4>3. CASE ~(k <= 1)
        <5>1. k - 1 \in DOMAIN pending
          BY <3>3, <4>1, <4>3
        <5> QED BY <3>1, <4>1, <4>3, <5>1
      <4> QED BY <4>2, <4>3
    <3>5. CASE ~Undelivered
      <4>1. Outstanding = Q
        BY <3>5, ConcatOne
      <4> QED BY <3>1, <3>3, <3>5, <4>1
    <3> QED BY <3>4, <3>5
  <2>8. Fifo!Accept(id)
    BY <2>1, <2>5, <2>6, <2>7 DEF Fifo!Accept
  <2>9. id \in {Outstanding'[k] : k \in DOMAIN Outstanding'}
    <3>1. /\ Len(Outstanding) + 1 \in DOMAIN Append(Outstanding, id)
          /\ Append(Outstanding, id)[Len(Outstanding) + 1] = id
      BY <2>2, <2>5, AppendAt
    <3> QED BY <2>5, <3>1
  <2> QED BY <2>8, <2>9 DEF Fifo!FifoNext
<1>5. CASE Copies \/ Drops
  <2>1. /\ UNCHANGED <<frames, wkSlot, pending>> /\ Undelivered /\ ~Undelivered'
    BY <1>5 DEF Copies, Drops
  <2>2. Outstanding = <<Ids[wkSlot]>> \o Q /\ Ids[wkSlot] \in Nat /\ Q \in Seq(Nat)
    BY <1>0, <2>1
  <2>3. Outstanding # <<>> /\ Head(Outstanding) = Ids[wkSlot] /\ Tail(Outstanding) = Q
    BY <2>2, ConcatOne
  <2>4. Outstanding' = Q
    <3>1. Along(pending', Ids') = Q
      BY <2>1 DEF Along, Ids, IdIn
    <3>2. Outstanding' = <<>> \o Along(pending', Ids')
      BY <1>c, <2>1
    <3> QED BY <2>2, <3>1, <3>2, ConcatOne
  <2>5. CASE Copies
    <3>1. delivered' = Append(delivered, Ids[wkSlot])
      BY <1>0, <2>5 DEF Copies, Ids, IdIn
    <3> QED BY <2>3, <2>4, <3>1 DEF Fifo!FifoNext, Fifo!Deliver
  <2>6. CASE Drops
    BY <2>3, <2>4, <2>6 DEF Drops, Fifo!FifoNext, Fifo!Discard
  <2> QED BY <1>5, <2>5, <2>6
<1> QED BY <1>1, <1>2, <1>3, <1>4, <1>5, FrameMoves

-----------------------------------------------------------------------------
(* What the host gets and what is counted. *)

\* Who owns a slot is what makes the frames' order, expiry and count hold.
PathInv == DownlinkInv /\ (~strayed => CountInv /\ OrderInv /\ ExpiryInv)

\* Nothing is on the path to begin with, and nothing counted.
LEMMA PathInitInv ==
    Init => CountInv /\ OrderInv /\ ExpiryInv /\ FramesAccounted
<1> SUFFICES ASSUME Init PROVE CountInv /\ OrderInv /\ ExpiryInv /\ FramesAccounted
    OBVIOUS
<1>1. /\ Len(pending) = 0 /\ Len(delivered) = 0
      /\ DOMAIN pending = {} /\ DOMAIN delivered = {}
      /\ expired = {} /\ received = 0
      /\ rxPc = "idle" /\ wkPc = "loop" /\ ~WkBusy
    BY DEF Init, WkBusy
<1>2. \A c \in Counters : stats[c] = 0
    BY DEF Init
<1>3. /\ stats["malformed"] = 0 /\ stats["reflected"] = 0 /\ stats["rxdrop"] = 0
      /\ stats["wifi_to_host"] = 0
    BY <1>2 DEF Counters
<1>4. CountInv
    BY <1>1, <1>3 DEF CountInv, Sent
<1>5. FramesAccounted
    BY <1>1, <1>3 DEF FramesAccounted
<1>6. OrderInv
    BY <1>1 DEF OrderInv, Ascending, Undelivered
<1>7. ExpiryInv
    BY <1>1 DEF ExpiryInv, NoneStale, Undelivered
<1> QED BY <1>4, <1>5, <1>6, <1>7

\* The invariant of the whole path holds.
LEMMA PathHolds == Spec => []PathInv
<1>1. Init => PathInv
    BY DownlinkInitInv, PathInitInv DEF PathInv
<1>2. PathInv /\ [Next]_vars => PathInv'
  <2> SUFFICES ASSUME PathInv, [Next]_vars PROVE PathInv'
      OBVIOUS
  <2>1. DownlinkInv' /\ [NetNext]_netVars
    BY DownlinkStep, StepsOfParts DEF PathInv, DownlinkInv, TypeOK
  <2>2. CASE strayed'
    BY <2>1, <2>2 DEF PathInv
  <2>3. CASE ~strayed'
    <3>1. ~strayed
      BY <2>1, <2>3, NetStrayed
    <3>2. /\ TypeOK /\ BridgeTypeOK /\ NetInv /\ OneSender /\ CallInv /\ SlotsApart
          /\ CountInv /\ OrderInv /\ ExpiryInv
      BY <3>1 DEF PathInv, DownlinkInv, TypeOK, NetSendInv
    <3> QED BY <2>1, <3>2, CountStep, OrderStep, ExpiryStep DEF PathInv
  <2> QED BY <2>2, <2>3
<1> QED BY <1>1, <1>2, PTL DEF Spec

\* Every frame the driver handed over is in exactly one counter or on its way,
\* whatever the TinyUSB task's delays.
THEOREM FramesAllAccounted == Spec => []FramesAccounted
<1>1. Init => DownlinkInv /\ FramesAccounted
    BY DownlinkInitInv, PathInitInv
<1>2. DownlinkInv /\ FramesAccounted /\ [Next]_vars
          => DownlinkInv' /\ FramesAccounted'
    BY DownlinkStep, AccountedStep DEF DownlinkInv, TypeOK
<1> QED BY <1>1, <1>2, PTL DEF Spec

\* Until a left-over do_send_sync strays, what is reported as forwarded is what
\* was copied to USB.
THEOREM ForwardedIsDelivered == Spec => []CountedIffDelivered
<1>1. PathInv => CountedIffDelivered
    BY CountInvMeans DEF PathInv, CountedIffDelivered
<1> QED BY <1>1, PathHolds, PTL

\* Until then the host gets the frames in the order the driver received them and
\* none twice, and what tx_worker sends is still the frame the callback copied
\* into the slot.
THEOREM FramesInOrder == Spec => []InOrderAtMostOnce
<1>1. PathInv => InOrderAtMostOnce
    BY DEF PathInv, OrderInv, Ascending, InOrderAtMostOnce
<1> QED BY <1>1, PathHolds, PTL

\* Until then no frame that was in s_pending as the epoch moved on reaches the
\* host.
THEOREM StaleFramesExpire == Spec => []QueuedFramesExpire
<1>1. PathInv => QueuedFramesExpire
    BY DEF PathInv, ExpiryInv, NoneStale, QueuedFramesExpire
<1> QED BY <1>1, PathHolds, PTL

\* The path from pkt_wifi2usb to the host takes only steps of a lossy FIFO as long
\* as no left-over do_send_sync has strayed.
THEOREM PathIsFifo == Spec => ImplementsFifo
<1>1. Init => Fifo!FifoInit
    BY DownlinkInitInv, ConcatEmptySeq
    DEF Init, Outstanding, Undelivered, WkBusy, Fifo!FifoInit
<1>2. PathInv /\ PathInv' /\ [Next]_vars => [strayed' \/ Fifo!FifoNext]_(Fifo!fifoVars)
  <2> SUFFICES ASSUME PathInv, PathInv', [Next]_vars, ~strayed'
      PROVE  [Fifo!FifoNext]_(Fifo!fifoVars)
      OBVIOUS
  <2>1. [NetNext]_netVars
    BY StepsOfParts DEF PathInv, DownlinkInv, TypeOK
  <2>2. ~strayed
    BY <2>1, NetStrayed
  <2>3. /\ BridgeTypeOK /\ NetInv /\ OneSender /\ CallInv /\ SlotsApart
        /\ OrderInv /\ BridgeTypeOK'
    BY <2>2 DEF PathInv, DownlinkInv, TypeOK, NetSendInv
  <2> QED BY <2>3, FifoStep
<1> QED BY <1>1, <1>2, PathHolds, PTL DEF Spec, ImplementsFifo
=============================================================================
