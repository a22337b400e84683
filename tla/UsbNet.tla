------------------------------- MODULE UsbNet -------------------------------
(***************************************************************************)
(* The synchronous send of components/esp_tinyusb/tinyusb_net.c: how a     *)
(* caller's frame is handed to the TinyUSB task and how the caller learns  *)
(* what became of it.                                                      *)
(*                                                                         *)
(* tinyusb_net_send_sync() puts a packet_t on its own stack, publishes its *)
(* address in s_net_obj.packet_to_send, raises a binary semaphore, defers  *)
(* do_send_sync() to the TinyUSB task and waits, with a deadline, for an   *)
(* event bit.  The deadline may pass while the deferred call is still      *)
(* queued: nothing withdraws it, so it runs later, against whatever the    *)
(* semaphore and packet_to_send are by then.                               *)
(*                                                                         *)
(* There is one caller, the bridge's tx_worker, so one call at a time.     *)
(***************************************************************************)
EXTENDS Naturals, Sequences

CONSTANTS
    RxSlots,        \* how many slots the caller sends from, RX_SLOTS, 32
    NoPacket,       \* packet_to_send == NULL
    UsbQueueLen     \* capacity of TinyUSB's event queue, 16 in the code

\* What a caller sends is named by its index into s_frames, which is also the
\* argument its free callback gets.
Slots == 0 .. RxSlots - 1

\* What a call returns; "timeout" is also the result before anyone sets it.
Results == {"timeout", "ok", "fail", "invalid_state", "no_mem"}
Packets == [slot : Slots, result : {"timeout", "ok", "fail"}]

ASSUME UsbNetAssumption ==
    /\ RxSlots \in Nat \ {0}
    /\ NoPacket \notin Packets
    /\ UsbQueueLen \in Nat \ {0}

VARIABLES
    ready,          \* tud_ready(): mounted and not suspended
    created,        \* have tx_flags and buffer_sema been created?
    txFinished,     \* TX_FINISHED_BIT of tx_flags
    sema,           \* buffer_sema
    packet,         \* *packet_to_send, or NoPacket
    deferred,       \* functions queued for the TinyUSB task
    usbPc,          \* the TinyUSB task inside a deferred function
    sendPc,         \* the caller inside tinyusb_net_send_sync
    sendSlot,       \* the frame the call is about
    sendResult,     \* what the call returned
    copies,         \* history: times the current packet was copied to USB
    woken,          \* history: the call's wait ended with the bit, not the deadline
    strayed         \* history: a left-over do_send_sync found a later packet

netHistory == <<copies, woken, strayed>>
netVars == <<ready, created, txFinished, sema, packet, deferred, usbPc,
             sendPc, sendSlot, sendResult, netHistory>>

\* Where the TinyUSB task holds the semaphore and uses the packet.
UsbHolds == usbPc \in {"xmit", "release", "signal", "give"}

NetTypeOK ==
    /\ ready \in BOOLEAN /\ created \in BOOLEAN
    /\ txFinished \in BOOLEAN /\ sema \in BOOLEAN
    /\ packet \in Packets \cup {NoPacket}
    /\ deferred \in Seq({"send", "link"})
    /\ usbPc \in {"idle", "link", "take", "xmit", "release", "signal", "give"}
    /\ sendPc \in {"idle", "check", "clear", "publish", "give", "defer",
                   "wait", "take", "retire", "returned"}
    /\ sendSlot \in Slots
    /\ sendResult \in Results
    /\ copies \in Nat /\ woken \in BOOLEAN /\ strayed \in BOOLEAN

NetInit ==
    /\ ready = FALSE /\ created = FALSE
    /\ txFinished = FALSE /\ sema = FALSE
    /\ packet = NoPacket /\ deferred = <<>>
    /\ usbPc = "idle" /\ sendPc = "idle"
    /\ sendSlot = 0 /\ sendResult = "timeout"
    /\ copies = 0 /\ woken = FALSE /\ strayed = FALSE

-----------------------------------------------------------------------------
(* The caller. *)

Call(s) ==
    /\ sendPc = "idle"
    /\ sendPc' = "check" /\ sendSlot' = s
    /\ UNCHANGED <<ready, created, txFinished, sema, packet, deferred, usbPc,
                   sendResult, netHistory>>

Return(e) == sendPc' = "returned" /\ sendResult' = e

\* tud_ready() and, on the first call, the creation of flags and semaphore.
CheckReady ==
    /\ sendPc = "check"
    /\ \/ ~ready /\ Return("invalid_state") /\ UNCHANGED created
       \/ ready /\ ~created /\ Return("no_mem") /\ UNCHANGED created
       \/ ready /\ created' = TRUE /\ sendPc' = "clear" /\ UNCHANGED sendResult
    /\ UNCHANGED <<ready, txFinished, sema, packet, deferred, usbPc,
                   sendSlot, netHistory>>

\* Mutant of ClearBits: the bit of an earlier call is left set.
ClearBitsNot ==
    /\ sendPc = "clear"
    /\ sendPc' = "publish"
    /\ UNCHANGED <<ready, created, txFinished, sema, packet, deferred, usbPc,
                   sendSlot, sendResult, netHistory>>

ClearBits ==
    /\ sendPc = "clear"
    /\ txFinished' = FALSE
    /\ sendPc' = "publish"
    /\ UNCHANGED <<ready, created, sema, packet, deferred, usbPc,
                   sendSlot, sendResult, netHistory>>

Publish ==
    /\ sendPc = "publish"
    /\ packet' = [slot |-> sendSlot, result |-> "timeout"]
    /\ copies' = 0
    /\ sendPc' = "give"
    /\ UNCHANGED <<ready, created, txFinished, sema, deferred, usbPc,
                   sendSlot, sendResult, woken, strayed>>

\* From here on any do_send_sync may use the packet, one left over from an
\* earlier call that timed out included.
Give ==
    /\ sendPc = "give"
    /\ sema' = TRUE
    /\ sendPc' = "defer"
    /\ UNCHANGED <<ready, created, txFinished, packet, deferred, usbPc,
                   sendSlot, sendResult, netHistory>>

\* usbd_defer_func from a task waits for room in the queue.
Defer(f) ==
    /\ Len(deferred) < UsbQueueLen
    /\ deferred' = Append(deferred, f)

DeferSend ==
    /\ sendPc = "defer"
    /\ Defer("send")
    /\ sendPc' = "wait"
    /\ UNCHANGED <<ready, created, txFinished, sema, packet, usbPc,
                   sendSlot, sendResult, netHistory>>

\* xEventGroupWaitBits: the bit, which it clears, or the deadline with the bit
\* still not set.  The code does not look at which of the two it was.
WokenByBit == txFinished /\ txFinished' = FALSE /\ woken' = TRUE
DeadlinePasses == ~txFinished /\ UNCHANGED <<txFinished, woken>>

WaitBits ==
    /\ sendPc = "wait"
    /\ WokenByBit \/ DeadlinePasses
    /\ sendPc' = "take"
    /\ UNCHANGED <<ready, created, sema, packet, deferred, usbPc,
                   sendSlot, sendResult, copies, strayed>>

\* Mutant of TakeSema: the packet is ditched without waiting for the semaphore.
TakeSemaNoWait ==
    /\ sendPc = "take"
    /\ sema' = FALSE
    /\ sendPc' = "retire"
    /\ UNCHANGED <<ready, created, txFinished, packet, deferred, usbPc,
                   sendSlot, sendResult, netHistory>>

\* With portMAX_DELAY: only ever left with the semaphore.
TakeSema ==
    /\ sendPc = "take"
    /\ sema
    /\ sema' = FALSE
    /\ sendPc' = "retire"
    /\ UNCHANGED <<ready, created, txFinished, packet, deferred, usbPc,
                   sendSlot, sendResult, netHistory>>

Retire ==
    /\ sendPc = "retire"
    /\ packet' = NoPacket
    /\ Return(packet.result)
    /\ UNCHANGED <<ready, created, txFinished, sema, deferred, usbPc,
                   sendSlot, netHistory>>

SendStep == CheckReady \/ ClearBits \/ Publish \/ Give \/ DeferSend
                \/ WaitBits \/ TakeSema \/ Retire

-----------------------------------------------------------------------------
(* The TinyUSB task. *)

\* Suspend, resume, mount and unmount are processed by the task itself.
UsbReady ==
    /\ usbPc = "idle"
    /\ ready' = ~ready
    /\ UNCHANGED <<created, txFinished, sema, packet, deferred, usbPc,
                   sendPc, sendSlot, sendResult, netHistory>>

UsbNext ==
    /\ usbPc = "idle" /\ deferred # <<>>
    /\ deferred' = Tail(deferred)
    /\ usbPc' = IF Head(deferred) = "send" THEN "take" ELSE "link"
    /\ UNCHANGED <<ready, created, txFinished, sema, packet,
                   sendPc, sendSlot, sendResult, netHistory>>

\* Is the do_send_sync that runs now one of an earlier call?  The queue is
\* first-in first-out: it is, as long as the present call's own is still to be
\* queued, or queued behind it.
LeftOver ==
    sendPc = "defer" \/ \E k \in DOMAIN deferred : deferred[k] = "send"

\* The head of do_send_sync, which asks for the semaphore and for a packet, and
\* not whose they are.  Finding no packet after taking the semaphore, it would
\* leave without giving it back.
UsbTake ==
    /\ usbPc = "take"
    /\ usbPc' = IF sema /\ packet # NoPacket THEN "xmit" ELSE "idle"
    /\ sema' = FALSE
    /\ strayed' = (strayed \/ (usbPc' = "xmit" /\ LeftOver))
    /\ UNCHANGED <<ready, created, txFinished, packet, deferred,
                   sendPc, sendSlot, sendResult, copies, woken>>

\* tud_network_can_xmit: NCM has a free block, or has none.
UsbRefuse ==
    /\ usbPc = "xmit"
    /\ packet' = [slot |-> packet.slot, result |-> "fail"]
    /\ usbPc' = "signal"
    /\ UNCHANGED <<ready, created, txFinished, sema, deferred,
                   sendPc, sendSlot, sendResult, netHistory>>

\* tud_network_xmit calls tud_network_xmit_cb, which copies the frame ...
UsbCopy ==
    /\ usbPc = "xmit"
    /\ copies' = copies + 1
    /\ usbPc' = "release"
    /\ UNCHANGED <<ready, created, txFinished, sema, packet, deferred,
                   sendPc, sendSlot, sendResult, woken, strayed>>

\* Mutant of UsbRelease: the result is left as it was.
UsbReleaseUnset ==
    /\ usbPc = "release"
    /\ usbPc' = "signal"
    /\ UNCHANGED <<ready, created, txFinished, sema, packet, deferred,
                   sendPc, sendSlot, sendResult, netHistory>>

\* ... and frees the caller's buffer, after which the result is set.
UsbRelease ==
    /\ usbPc = "release"
    /\ packet' = [slot |-> packet.slot, result |-> "ok"]
    /\ usbPc' = "signal"
    /\ UNCHANGED <<ready, created, txFinished, sema, deferred,
                   sendPc, sendSlot, sendResult, netHistory>>

UsbSignal ==
    /\ usbPc = "signal"
    /\ txFinished' = TRUE
    /\ usbPc' = "give"
    /\ UNCHANGED <<ready, created, sema, packet, deferred,
                   sendPc, sendSlot, sendResult, netHistory>>

\* Mutant of UsbGive: the semaphore is not given back.
UsbGiveNot ==
    /\ usbPc = "give"
    /\ usbPc' = "idle"
    /\ UNCHANGED <<ready, created, txFinished, sema, packet, deferred,
                   sendPc, sendSlot, sendResult, netHistory>>

UsbGive ==
    /\ usbPc = "give"
    /\ sema' = TRUE
    /\ usbPc' = "idle"
    /\ UNCHANGED <<ready, created, txFinished, packet, deferred,
                   sendPc, sendSlot, sendResult, netHistory>>

\* update_usb_link, which the bridge defers, as far as this module goes.
UsbLink ==
    /\ usbPc = "link"
    /\ usbPc' = "idle"
    /\ UNCHANGED <<ready, created, txFinished, sema, packet, deferred,
                   sendPc, sendSlot, sendResult, netHistory>>

DoSendSync == UsbTake \/ UsbRefuse \/ UsbCopy \/ UsbRelease \/ UsbSignal
                  \/ UsbGive

UsbStep == UsbNext \/ UsbLink \/ DoSendSync

-----------------------------------------------------------------------------
(* The wrapper on its own, under a caller that sends anything at any time   *)
(* and may defer update_usb_link between its calls.                         *)

Consume ==
    /\ sendPc = "returned"
    /\ sendPc' = "idle" /\ woken' = FALSE
    /\ UNCHANGED <<ready, created, txFinished, sema, packet, deferred, usbPc,
                   sendSlot, sendResult, copies, strayed>>

DeferLink ==
    /\ sendPc = "idle"
    /\ Defer("link")
    /\ UNCHANGED <<ready, created, txFinished, sema, packet, usbPc,
                   sendPc, sendSlot, sendResult, netHistory>>

NetNext == (\E s \in Slots : Call(s)) \/ Consume \/ DeferLink \/ UsbReady
               \/ SendStep \/ UsbStep

\* Both tasks run when they can: the TinyUSB task never blocks inside a
\* deferred function, and FreeRTOS wakes the caller at its deadline.
NetFairness == WF_netVars(SendStep) /\ WF_netVars(UsbStep)

NetSpec == NetInit /\ [][NetNext]_netVars /\ NetFairness

-----------------------------------------------------------------------------
(* Properties that hold whatever the TinyUSB task's delays. *)

\* packet_to_send points into the caller's stack.  The TinyUSB task only ever
\* uses it while that call is still waiting, and it is the caller's own frame:
\* "if tusb sending already started, we have [to] wait before ditching the
\* packet" (tinyusb_net.c:115) works even for a deferral left by an earlier call.
PacketAlive ==
    UsbHolds => /\ packet # NoPacket /\ packet.slot = sendSlot
                /\ sendPc \in {"defer", "wait", "take"}

\* The semaphore is never lost: when it is up there is a packet, so
\* do_send_sync never leaves without giving it back, and a caller that came to
\* take it finds it up or in the hands of the TinyUSB task, which returns it.
SemaNeverLost ==
    /\ sema => packet # NoPacket /\ ~UsbHolds
    /\ sendPc \in {"defer", "wait", "take"} => sema \/ UsbHolds

\* "A deadline racing that copy must return its result" (tinyusb_net.c:117):
\* a call that reports a timeout has not been copied, and one that reports
\* success has.
ResultTruthful ==
    sendPc = "returned" => /\ sendResult = "timeout" => copies = 0
                           /\ sendResult = "ok" => copies > 0

\* The event bit is about this call: a caller that the bit woke, not the deadline,
\* has its frame's fate decided, by a bit raised for this frame and not for one
\* before it.
BitMeansResult == woken /\ sendPc = "returned" => sendResult # "timeout"

-----------------------------------------------------------------------------
(* Properties that one thing can break: a do_send_sync left over from a call  *)
(* that timed out finding the packet of a later one.                        *)

\* "The vendored send wrapper fixes a timeout/copy double-free race"
\* (docs/ADR-001.md): a call's frame is copied, and so its buffer freed, at
\* most once.
CopiedAtMostOnce == ~strayed => copies <= 1

\* The caller may free or retry exactly the frames that were not copied:
\* success is reported if and only if the frame went out.
OkIffCopied ==
    ~strayed /\ sendPc = "returned" /\ sendResult \in {"ok", "fail", "timeout"}
        => (sendResult = "ok" <=> copies > 0)
=============================================================================
