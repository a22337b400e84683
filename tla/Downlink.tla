------------------------------ MODULE Downlink ------------------------------
(***************************************************************************)
(* Wi-Fi to USB forwarding (main/bridge.c): the receive callback copies a  *)
(* frame into a slot of s_frames and queues the slot; tx_worker sends it   *)
(* through tinyusb_net_send_sync and the TinyUSB task copies it out and    *)
(* gives the slot back.  A slot index travels                              *)
(*                                                                         *)
(*    s_free -> Wi-Fi task -> s_pending -> tx_worker -> TinyUSB -> s_free  *)
(*                                                                         *)
(* and nothing but that protocol says who may touch the slot's bytes.      *)
(*                                                                         *)
(* The module composes Link (the station's state and its epoch) and        *)
(* UsbNet (the send wrapper and the TinyUSB task).                         *)
(***************************************************************************)
EXTENDS Link, UsbNet

CONSTANTS
    Attempts,       \* sends of one frame before it is dropped, 30 in the code
    MaxFrames       \* bound: frames the driver receives in one behaviour

ASSUME DownlinkAssumption ==
    Attempts \in Nat \ {0} /\ MaxFrames \in Nat

VARIABLES
    rxPc, rxSlot, rxFrame,      \* the Wi-Fi task inside pkt_wifi2usb
    free, pending,              \* s_free and s_pending
    frames,                     \* s_frames: the stamp and the bytes of a slot
    wkPc, wkSlot,               \* tx_worker and its slot
    current, attempt, err,      \* its locals of the same name (err: e)
    lastLink,                   \* its last_link
    netLink,                    \* the NCM link state the host was told
    stats,                      \* the counters of s_stats this path updates
    received,                   \* history: frames given to pkt_wifi2usb
    delivered,                  \* history: what was copied to USB, in order
    expired                     \* history: frames queued when the epoch moved

rxVars == <<rxPc, rxSlot, rxFrame>>
poolVars == <<free, pending, frames>>
wkVars == <<wkPc, wkSlot, current, attempt, err, lastLink>>
vars == <<linkVars, netVars, rxVars, poolVars, wkVars, netLink, stats,
          received, delivered, expired>>

\* A frame is known by its number in order of reception and the association
\* it came over.
FrameIds == [id : Nat, net : Nat]

Counters == {"malformed", "reflected", "rxdrop", "wifi_to_host"}

BridgeTypeOK ==
    /\ rxPc \in {"idle", "stamp", "copy", "enqueue"}
    /\ rxSlot \in Slots /\ rxFrame \in FrameIds
    /\ free \in Seq(Slots) /\ pending \in Seq(Slots)
    /\ frames \in [Slots -> [epoch : Nat, id : Nat, net : Nat]]
    /\ wkPc \in {"loop", "beat", "receive", "epoch", "attempt", "send",
                 "retry", "finish"}
    /\ wkSlot \in Slots /\ current \in BOOLEAN /\ attempt \in Nat
    /\ err \in Results
    /\ lastLink \in BOOLEAN /\ netLink \in BOOLEAN
    /\ stats \in [Counters -> Nat]
    /\ received \in Nat
    /\ delivered \in Seq(Nat)
    /\ expired \subseteq Nat

TypeOK == LinkTypeOK /\ NetTypeOK /\ BridgeTypeOK

Init ==
    /\ LinkInit /\ NetInit
    /\ rxPc = "idle" /\ rxSlot = 0 /\ rxFrame = [id |-> 0, net |-> 0]
    /\ free = [k \in 1 .. RxSlots |-> k - 1] /\ pending = <<>>
    /\ frames = [s \in Slots |-> [epoch |-> 0, id |-> 0, net |-> 0]]
    /\ wkPc = "loop" /\ wkSlot = 0
    /\ current = FALSE /\ attempt = 0 /\ err = "invalid_state"
    /\ lastLink = FALSE /\ netLink = FALSE
    /\ stats = [c \in Counters |-> 0]
    /\ received = 0 /\ delivered = <<>> /\ expired = {}

\* xQueueSend(q, &s, 0): a full queue refuses the slot.
HasRoom(q) == Len(q) < RxSlots
\* Mutant of Put: the slot goes to the front of the queue.
PutFront(q, s) == IF HasRoom(q) THEN <<s>> \o q ELSE q
Put(q, s) == IF HasRoom(q) THEN Append(q, s) ELSE q

\* Mutant of Count: it counts down.
CountDown(c) == stats' = [stats EXCEPT ![c] = @ - 1]
Count(c) == stats' = [stats EXCEPT ![c] = @ + 1]

-----------------------------------------------------------------------------
(* pkt_wifi2usb, in the Wi-Fi task.  It is called for a frame of the        *)
(* current association while it is the registered callback.                 *)

Received ==
    /\ rxPc = "idle" /\ rxcb /\ assoc # 0
    /\ received < MaxFrames
    /\ received' = received + 1

\* A length no Ethernet frame has, or the station's own frame coming back.
RxDiscard ==
    /\ Received
    /\ \E c \in {"malformed", "reflected"} : Count(c)
    /\ UNCHANGED <<linkVars, netVars, rxVars, poolVars, wkVars, netLink,
                   delivered>>

\* Mutant of RxDrop: the frame is dropped without being counted.
RxDropSilent ==
    /\ Received
    /\ ~ready \/ ~connected \/ free = <<>>
    /\ UNCHANGED <<linkVars, netVars, rxVars, poolVars, wkVars, netLink,
                   stats, delivered>>

RxDrop ==
    /\ Received
    /\ ~ready \/ ~connected \/ free = <<>>
    /\ Count("rxdrop")
    /\ UNCHANGED <<linkVars, netVars, rxVars, poolVars, wkVars, netLink,
                   delivered>>

RxClaim ==
    /\ Received
    /\ ready /\ connected /\ free # <<>>
    /\ rxSlot' = Head(free) /\ free' = Tail(free)
    /\ rxFrame' = [id |-> received', net |-> assoc]
    /\ rxPc' = "stamp"
    /\ UNCHANGED <<linkVars, netVars, pending, frames, wkVars, netLink,
                   stats, delivered>>

RxStamp ==
    /\ rxPc = "stamp"
    /\ frames' = [frames EXCEPT ![rxSlot] =
                            [epoch |-> epoch, id |-> @.id, net |-> @.net]]
    /\ rxPc' = "copy"
    /\ UNCHANGED <<linkVars, netVars, rxSlot, rxFrame, free, pending, wkVars,
                   netLink, stats, received, delivered>>

RxCopy ==
    /\ rxPc = "copy"
    /\ frames' = [frames EXCEPT ![rxSlot] = [epoch |-> @.epoch,
                                             id |-> rxFrame.id,
                                             net |-> rxFrame.net]]
    /\ rxPc' = "enqueue"
    /\ UNCHANGED <<linkVars, netVars, rxSlot, rxFrame, free, pending, wkVars,
                   netLink, stats, received, delivered>>

RxEnqueue ==
    /\ rxPc = "enqueue"
    /\ pending' = Put(pending, rxSlot)
    /\ IF HasRoom(pending)
         THEN UNCHANGED <<free, stats>>
         ELSE free' = Put(free, rxSlot) /\ Count("rxdrop")
    /\ rxPc' = "idle"
    /\ UNCHANGED <<linkVars, netVars, rxSlot, rxFrame, frames, wkVars,
                   netLink, received, delivered>>

RxStep == RxStamp \/ RxCopy \/ RxEnqueue

-----------------------------------------------------------------------------
(* tx_worker. *)

\* The report of the link state is refreshed when the link changed, and once a
\* second besides (time is not modelled: any pass may be due) ...
\* Mutant of RefreshDue: no heartbeat.
RefreshOnChange == connected # lastLink
RefreshDue == TRUE

WkRefresh ==
    /\ wkPc = "loop"
    /\ RefreshDue
    /\ lastLink' = connected
    /\ wkPc' = "beat"
    /\ UNCHANGED <<linkVars, netVars, rxVars, poolVars, wkSlot, current,
                   attempt, err, netLink, stats, received, delivered>>

\* ... and is left alone on the other passes.
WkNoRefresh ==
    /\ wkPc = "loop"
    /\ connected = lastLink
    /\ wkPc' = "receive"
    /\ UNCHANGED <<linkVars, netVars, rxVars, poolVars, wkSlot, current,
                   attempt, err, lastLink, netLink, stats, received,
                   delivered>>

WkBeat ==
    /\ wkPc = "beat"
    /\ Defer("link")
    /\ wkPc' = "receive"
    /\ UNCHANGED <<linkVars, ready, created, txFinished, sema, packet, usbPc,
                   sendPc, sendSlot, sendResult, netHistory, rxVars, poolVars,
                   wkSlot, current, attempt, err, lastLink, netLink, stats,
                   received, delivered>>

\* xQueueReceive with a timeout: a slot, or back to the top.
WkReceive ==
    /\ wkPc = "receive"
    /\ \/ /\ pending # <<>>
          /\ wkSlot' = Head(pending) /\ pending' = Tail(pending)
          /\ wkPc' = "epoch"
       \/ pending = <<>> /\ wkPc' = "loop" /\ UNCHANGED <<wkSlot, pending>>
    /\ UNCHANGED <<linkVars, netVars, rxVars, free, frames, current, attempt,
                   err, lastLink, netLink, stats, received, delivered>>

\* Is the frame of the current epoch?  Asked once, before the attempts.
\* Mutant of IsCurrent: any epoch will do.
AnyEpoch == TRUE
IsCurrent == frames[wkSlot].epoch = epoch

WkEpoch ==
    /\ wkPc = "epoch"
    /\ current' = IsCurrent
    /\ err' = "invalid_state" /\ attempt' = 0
    /\ wkPc' = "attempt"
    /\ UNCHANGED <<linkVars, netVars, rxVars, poolVars, wkSlot, lastLink,
                   netLink, stats, received, delivered>>

WkGiveUp ==
    /\ wkPc = "attempt"
    /\ attempt >= Attempts \/ ~(current /\ connected /\ ready)
    /\ wkPc' = "finish"
    /\ UNCHANGED <<linkVars, netVars, rxVars, poolVars, wkSlot, current,
                   attempt, err, lastLink, netLink, stats, received,
                   delivered>>

WkSend ==
    /\ wkPc = "attempt"
    /\ attempt < Attempts /\ current /\ connected /\ ready
    /\ Call(wkSlot)
    /\ wkPc' = "send"
    /\ UNCHANGED <<linkVars, rxVars, poolVars, wkSlot, current, attempt, err,
                   lastLink, netLink, stats, received, delivered>>

\* Only "no free block" is worth another attempt.
WkSent ==
    /\ wkPc = "send"
    /\ Consume
    /\ err' = sendResult
    /\ wkPc' = IF sendResult = "fail" THEN "retry" ELSE "finish"
    /\ UNCHANGED <<linkVars, rxVars, poolVars, wkSlot, current, attempt,
                   lastLink, netLink, stats, received, delivered>>

WkRetry ==
    /\ wkPc = "retry"
    /\ attempt' = attempt + 1
    /\ wkPc' = "attempt"
    /\ UNCHANGED <<linkVars, netVars, rxVars, poolVars, wkSlot, current, err,
                   lastLink, netLink, stats, received, delivered>>

\* A frame that was sent was freed by the TinyUSB task, any other is freed here.
\* Mutants of Settle: every frame is freed; every frame counts as sent.
SettleFreeing ==
    /\ IF err = "ok" THEN Count("wifi_to_host") ELSE Count("rxdrop")
    /\ free' = Put(free, wkSlot)
SettleCounting ==
    /\ Count("wifi_to_host")
    /\ IF err = "ok" THEN UNCHANGED free ELSE free' = Put(free, wkSlot)
Settle ==
    IF err = "ok"
    THEN Count("wifi_to_host") /\ UNCHANGED free
    ELSE Count("rxdrop") /\ free' = Put(free, wkSlot)

WkFinish ==
    /\ wkPc = "finish"
    /\ Settle
    /\ wkPc' = "loop"
    /\ UNCHANGED <<linkVars, netVars, rxVars, pending, frames, wkSlot,
                   current, attempt, err, lastLink, netLink, received,
                   delivered>>

WkStep == WkRefresh \/ WkNoRefresh \/ WkBeat \/ WkReceive \/ WkEpoch \/ WkGiveUp \/ WkSend
              \/ WkSent \/ WkRetry \/ WkFinish

-----------------------------------------------------------------------------
(* The TinyUSB task, with what its callbacks do to the bridge. *)

\* tud_network_xmit_cb copies the bytes the slot holds now.
Copy ==
    /\ UsbCopy
    /\ delivered' = Append(delivered, frames[packet.slot].id)
    /\ UNCHANGED <<linkVars, rxVars, poolVars, wkVars, netLink, stats,
                   received>>

\* wifi_pkt_free.
Release ==
    /\ UsbRelease
    /\ free' = Put(free, packet.slot)
    /\ UNCHANGED <<linkVars, rxVars, pending, frames, wkVars, netLink, stats,
                   received, delivered>>

\* update_usb_link.
ReportLink ==
    /\ UsbLink
    /\ netLink' = connected
    /\ UNCHANGED <<linkVars, rxVars, poolVars, wkVars, stats, received,
                   delivered>>

\* The other steps of the wrapper and of the task touch nothing of the bridge.
BridgeUnchanged == UNCHANGED <<linkVars, rxVars, poolVars, wkVars, netLink,
                               stats, received, delivered>>
CallerStep == SendStep /\ BridgeUnchanged
DispatchStep == (UsbNext \/ UsbTake \/ UsbRefuse \/ UsbSignal \/ UsbGive)
                    /\ BridgeUnchanged

\* On a change of tud_ready(), which the host brings about; on the way up the
\* NCM class asks tud_network_default_link_state_cb.
Host ==
    /\ UsbReady
    /\ netLink' = IF ready' THEN connected ELSE netLink
    /\ UNCHANGED <<linkVars, rxVars, poolVars, wkVars, stats, received,
                   delivered>>

\* The driver changes its association in the Wi-Fi task, which is not then
\* inside the receive callback.
LinkStep ==
    /\ LinkNext
    /\ assoc' # assoc => rxPc = "idle"
    /\ UNCHANGED <<netVars, rxVars, poolVars, wkVars, netLink, stats,
                   received, delivered>>

Track == expired' = IF epoch' = epoch THEN expired
                    ELSE expired \cup {frames[pending[k]].id :
                                          k \in DOMAIN pending}

WifiTask == RxStep /\ Track
Worker == (WkStep \/ CallerStep) /\ Track
UsbTask == (Copy \/ Release \/ ReportLink \/ DispatchStep) /\ Track
LinkTasks == LinkStep /\ (EventTask \/ ApplyRest) /\ Track

Next == \/ (RxDiscard \/ RxDrop \/ RxClaim \/ Host \/ LinkStep) /\ Track
        \/ WifiTask \/ Worker \/ UsbTask

\* Each task of the dongle runs when it has something to do.  The host, the
\* access point and the user owe nothing.  A second passes again and again, so
\* the heartbeat falls due again and again.
Fairness == WF_vars(WifiTask) /\ WF_vars(Worker) /\ WF_vars(UsbTask)
                /\ WF_vars(LinkTasks) /\ SF_vars(WkRefresh /\ Track)

Spec == Init /\ [][Next]_vars /\ Fairness

-----------------------------------------------------------------------------
(* Properties. *)

\* The holders of a slot.
RxHolds(s) == rxPc # "idle" /\ rxSlot = s
WkBusy == wkPc \notin {"loop", "beat", "receive"}
\* The worker's slot went back to s_free from the TinyUSB task.
Released ==
    \/ packet # NoPacket /\ packet.result = "ok"
    \/ sendPc = "returned" /\ sendResult = "ok"
    \/ wkPc = "finish" /\ err = "ok"
WkHolds(s) == WkBusy /\ wkSlot = s /\ ~Released
InQueue(q, s) == \E k \in DOMAIN q : q[k] = s
NoRepeats(q) == \A j, k \in DOMAIN q : q[j] = q[k] => j = k

\* "USB worker owns a slot until send-copy completion, or releases it once on
\* rejection/cancellation" (docs/ADR-001.md): every slot is in exactly one
\* place, so no two tasks ever touch its bytes and none is leaked.
SlotsApart ==
    /\ NoRepeats(free) /\ NoRepeats(pending)
    /\ \A s \in Slots :
          /\ InQueue(free, s) \/ InQueue(pending, s) \/ RxHolds(s) \/ WkHolds(s)
          /\ InQueue(free, s) => ~InQueue(pending, s) /\ ~RxHolds(s) /\ ~WkHolds(s)
          /\ InQueue(pending, s) => ~RxHolds(s) /\ ~WkHolds(s)
          /\ RxHolds(s) => ~WkHolds(s)

\* ... until a do_send_sync left over from a call that timed out finds the packet
\* of a later one, the one thing that can break it (and does, section 7 of README).
SlotOwnedOnce == ~strayed => SlotsApart

\* The host gets the frames in the order the driver received them, none twice,
\* and each with the bytes it came with, until a left-over do_send_sync strays.
InOrderAtMostOnce ==
    ~strayed => \A j, k \in DOMAIN delivered :
                    j < k => delivered[j] < delivered[k]

\* "Queued old-subnet frames are discarded after changes" (docs/ADR-001.md): a
\* frame that was still queued when the epoch moved on never reaches the host,
\* as long as no slot has two owners.
QueuedFramesExpire ==
    ~strayed => \A k \in DOMAIN delivered : delivered[k] \notin expired

\* Every frame the driver handed over is in exactly one counter, or on its way.
FramesAccounted ==
    received = stats["malformed"] + stats["reflected"] + stats["rxdrop"]
                 + stats["wifi_to_host"] + Len(pending)
                 + (IF rxPc # "idle" THEN 1 ELSE 0) + (IF WkBusy THEN 1 ELSE 0)

\* What the console reports as forwarded is what the host was sent, until a
\* left-over do_send_sync strays.
CountedIffDelivered ==
    ~strayed =>
        Len(delivered) = stats["wifi_to_host"]
            + (IF WkBusy /\ (Released \/ usbPc = "release") THEN 1 ELSE 0)

\* The frames of the abstract queue: the worker's, until the TinyUSB task has
\* copied it or the worker has given it up, and those in s_pending.
Undelivered == WkBusy /\ ~Released /\ usbPc # "release"
Outstanding == (IF Undelivered THEN <<frames[wkSlot].id>> ELSE <<>>)
                   \o [k \in DOMAIN pending |-> frames[pending[k]].id]

Fifo == INSTANCE LossyFifo WITH queue <- Outstanding, sent <- delivered

\* The path from the driver's callback to the host is a lossy FIFO: whatever
\* congestion, time-outs and reassociations do to the frames in s_pending and
\* with tx_worker, none overtakes another, comes twice or comes from nowhere.
\* The first step that may differ is one after a left-over do_send_sync strayed.
ImplementsFifo ==
    Fifo!FifoInit /\ [][strayed' \/ Fifo!FifoNext]_(Fifo!fifoVars)

\* ... and nothing is kept for ever: the first frame on it is sent or given up, and
\* no slot is lost to congestion, time-outs or disconnections.  (A slot freed
\* twice can crowd another out of s_free.)
SlotsReturn ==
    \/ <>strayed
    \/ Fifo!FifoMoves /\ \A s \in Slots : []<>InQueue(free, s)

\* The host is told the link state in the end, though the report is deferred
\* and reads s_connected later than the worker that asked for it did.
LinkReported ==
    \A v \in BOOLEAN : <>[](connected = v) => <>[](netLink = v)
=============================================================================
