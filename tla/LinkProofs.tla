----------------------------- MODULE LinkProofs -----------------------------
(***************************************************************************)
(* Proofs about the station link: the types of its variables, and that     *)
(* wifi_event and wifi_apply_creds, racing over s_connected and over the   *)
(* receive callback, come to agree with the driver.                        *)
(*                                                                         *)
(* The last event queued is the truth about the association, and when the  *)
(* queue is empty the event loop task is acting on it or has done so.  The *)
(* one exception is an association whose wifi_apply_creds is about to end  *)
(* it, which queues another event.                                         *)
(***************************************************************************)
EXTENDS Link, TLAPS

LinkFlags == connected \in BOOLEAN /\ rxcb \in BOOLEAN /\ joining \in BOOLEAN
LinkData ==
    /\ epoch \in Nat /\ joins \in Nat /\ applies \in Nat /\ usbEvents \in Nat
    /\ assoc \in Nat
    /\ events \in Seq({"connected", "disconnected"})
    /\ evPc \in {"idle", "register", "up", "unregister"}
    /\ ctlPc \in {"idle", "unregister", "disconnect", "connect"}

\* An event added to the queue is its last.
LEMMA AppendLast ==
    ASSUME NEW S, NEW q \in Seq(S), NEW e \in S
    PROVE  /\ Append(q, e) # <<>>
           /\ Append(q, e)[Len(Append(q, e))] = e
OBVIOUS

\* Roaming queues one or two events, the last of them of the association.
LEMMA RoamEvents ==
    ASSUME events \in Seq({"connected", "disconnected"}), Roam
    PROVE  /\ events' \in Seq({"connected", "disconnected"})
           /\ events' # <<>> /\ events'[Len(events')] = "connected"
<1>1. PICK q \in {events, Append(events, "disconnected")} :
         events' = Append(q, "connected")
    BY DEF Roam
<1>2. q \in Seq({"connected", "disconnected"})
    OBVIOUS
<1> QED BY <1>1, <1>2, AppendLast

\* The parties to the link keep its variables in their types.
LEMMA LinkType ==
    ASSUME LinkTypeOK, [LinkNext]_linkVars
    PROVE  LinkTypeOK'
<1>1. LinkFlags /\ LinkData
    BY DEF LinkTypeOK, LinkFlags, LinkData
<1>2. LinkFlags'
  <2> USE <1>1 DEF LinkFlags
  <2>1. CASE UNCHANGED linkVars
    BY <2>1 DEF linkVars
  <2>2. CASE Driver
    BY <2>2 DEF Driver, Associate, Roam, JoinFails, Drop
  <2>3. CASE EventTask
    BY <2>3 DEF EventTask, EvDisconnected, EvUnregister, EvConnected,
                EvRegister, EvUp
  <2>4. CASE ApplyBegin \/ ApplyRest
    BY <2>4 DEF ApplyBegin, ApplyRest, ApplyUnregister, ApplyDisconnect,
                ApplyConnect
  <2>5. CASE UsbEpoch
    BY <2>5 DEF UsbEpoch
  <2> QED BY <2>1, <2>2, <2>3, <2>4, <2>5 DEF LinkNext
<1>3. LinkData'
  <2> USE <1>1 DEF LinkData
  <2>1. CASE UNCHANGED linkVars
    BY <2>1 DEF linkVars
  <2>2. CASE Driver
    <3>1. CASE Associate
      BY <3>1 DEF Associate
    <3>2. CASE JoinFails
      BY <3>2 DEF JoinFails
    <3>3. CASE Drop
      BY <3>3 DEF Drop
    <3>4. CASE Roam
      <4>1. events' \in Seq({"connected", "disconnected"})
        BY <3>4, RoamEvents
      <4> QED BY <3>4, <4>1 DEF Roam
    <3> QED BY <2>2, <3>1, <3>2, <3>3, <3>4 DEF Driver
  <2>3. CASE EventTask
    <3>1. CASE EvDisconnected
      BY <3>1 DEF EvDisconnected
    <3>2. CASE EvUnregister
      BY <3>2 DEF EvUnregister
    <3>3. CASE EvConnected
      BY <3>3 DEF EvConnected
    <3>4. CASE EvRegister
      BY <3>4 DEF EvRegister
    <3>5. CASE EvUp
      BY <3>5 DEF EvUp
    <3> QED BY <2>3, <3>1, <3>2, <3>3, <3>4, <3>5 DEF EventTask
  <2>4. CASE ApplyBegin
    BY <2>4 DEF ApplyBegin
  <2>5. CASE ApplyRest
    <3>1. CASE ApplyUnregister
      BY <3>1 DEF ApplyUnregister
    <3>2. CASE ApplyDisconnect
      BY <3>2 DEF ApplyDisconnect
    <3>3. CASE ApplyConnect
      BY <3>3 DEF ApplyConnect
    <3> QED BY <2>5, <3>1, <3>2, <3>3 DEF ApplyRest
  <2>6. CASE UsbEpoch
    BY <2>6 DEF UsbEpoch
  <2> QED BY <2>1, <2>2, <2>3, <2>4, <2>5, <2>6 DEF LinkNext
<1> QED BY <1>2, <1>3 DEF LinkTypeOK, LinkFlags, LinkData

-----------------------------------------------------------------------------
LastIs(e) == events # <<>> /\ events[Len(events)] = e

\* What the bridge knows or will learn of an association that stays ...
WillLearn ==
    \/ LastIs("connected")
    \/ /\ events = <<>>
       /\ \/ evPc = "register"
          \/ evPc = "up" /\ rxcb
          \/ evPc = "idle" /\ rxcb /\ connected

\* ... and of there being none.
WillForget ==
    \/ LastIs("disconnected")
    \/ /\ events = <<>> /\ ~connected
       /\ \/ evPc = "unregister"
          \/ evPc = "idle" /\ ~rxcb

LinkAgreement ==
    /\ joining \/ ctlPc = "connect" => assoc = 0
    /\ ctlPc = "connect" => ~joining
    /\ assoc # 0 => WillLearn \/ ctlPc \in {"unregister", "disconnect"}
    /\ assoc = 0 => WillForget

\* The link starts with no association, no event and nobody at work.
LEMMA LinkAgreementInit == LinkInit => LinkAgreement
BY DEF LinkInit, LinkAgreement, WillForget

\* Taking the first event leaves the last one last.
LEMMA TailLast ==
    ASSUME NEW S, NEW q \in Seq(S), q # <<>>
    PROVE  /\ Tail(q) # <<>> => Tail(q)[Len(Tail(q))] = q[Len(q)]
           /\ Tail(q) = <<>> => q[Len(q)] = Head(q)
<1>1. Len(q) \in Nat \ {0} /\ Head(q) = q[1] /\ Tail(q) \in Seq(S)
    OBVIOUS
<1>2. Len(Tail(q)) = Len(q) - 1
    BY <1>1
<1>3. \A k \in 1 .. Len(Tail(q)) : Tail(q)[k] = q[k + 1]
    BY <1>1
<1>4. CASE Tail(q) # <<>>
  <2>1. Len(Tail(q)) \in 1 .. Len(Tail(q))
    BY <1>1, <1>4
  <2> QED BY <1>1, <1>2, <1>3, <1>4, <2>1
<1>5. CASE Tail(q) = <<>>
    BY <1>1, <1>2, <1>5
<1> QED BY <1>4, <1>5

\* Every step keeps the agreement.
LEMMA LinkAgreementStep ==
    ASSUME LinkTypeOK, LinkAgreement, [LinkNext]_linkVars
    PROVE  LinkAgreement'
<1> USE DEF LinkAgreement, WillLearn, WillForget, LastIs
<1>a. /\ events \in Seq({"connected", "disconnected"})
      /\ evPc \in {"idle", "register", "up", "unregister"}
      /\ ctlPc \in {"idle", "unregister", "disconnect", "connect"}
      /\ joins \in Nat
    BY DEF LinkTypeOK
<1>1. CASE Associate
    BY <1>1, <1>a, AppendLast DEF Associate
<1>2. CASE JoinFails
    BY <1>2, <1>a, AppendLast DEF JoinFails
<1>3. CASE Drop
    BY <1>3, <1>a, AppendLast DEF Drop
<1>4. CASE EvDisconnected
    BY <1>4, <1>a, TailLast DEF EvDisconnected
<1>5. CASE EvUnregister
    BY <1>5, <1>a DEF EvUnregister
<1>6. CASE EvConnected
    BY <1>6, <1>a, TailLast DEF EvConnected
<1>7. CASE EvRegister
    BY <1>7, <1>a DEF EvRegister
<1>8. CASE EvUp
    BY <1>8, <1>a DEF EvUp
<1>9. CASE ApplyBegin
    BY <1>9, <1>a DEF ApplyBegin
<1>10. CASE ApplyUnregister
    BY <1>10, <1>a DEF ApplyUnregister
<1>11. CASE ApplyDisconnect
  <2>1. CASE assoc # 0 \/ joining
    BY <1>11, <2>1, <1>a, AppendLast DEF ApplyDisconnect
  <2>2. CASE ~(assoc # 0 \/ joining)
    BY <1>11, <2>2, <1>a DEF ApplyDisconnect
  <2> QED BY <2>1, <2>2
<1>12. CASE ApplyConnect
    BY <1>12, <1>a DEF ApplyConnect
<1>13. CASE UsbEpoch
    BY <1>13, <1>a DEF UsbEpoch
<1>14. CASE UNCHANGED linkVars
    BY <1>14 DEF linkVars
<1>15. CASE Roam
  <2>1. events' # <<>> /\ events'[Len(events')] = "connected"
    BY <1>15, <1>a, RoamEvents
  <2>2. assoc # 0 /\ assoc' = joins + 1 /\ UNCHANGED <<joining, ctlPc>>
    BY <1>15 DEF Roam
  <2> QED BY <1>a, <2>1, <2>2
<1> QED BY <1>1, <1>2, <1>3, <1>4, <1>5, <1>6, <1>7, <1>8, <1>9, <1>10, <1>11,
           <1>12, <1>13, <1>14, <1>15 DEF LinkNext, Driver, EventTask, ApplyRest

\* An agreement with nobody at work and no event left is what LinkSettles says.
LEMMA LinkAgreementSettles ==
    ASSUME LinkTypeOK, LinkAgreement
    PROVE  LinkSettles
BY Zenon DEF LinkTypeOK, LinkAgreement, WillLearn, WillForget, LastIs, LinkSettles
=============================================================================
