-------------------------------- MODULE Link --------------------------------
(***************************************************************************)
(* The station link as the bridge sees it (main/bridge.c).                 *)
(*                                                                         *)
(* Three parties touch it.  The Wi-Fi driver (external) associates, fails  *)
(* to, or drops the access point, and posts an event for each.  The event  *)
(* loop task runs wifi_event() on those events in order.  The control task *)
(* runs wifi_apply_creds() whenever it wants another profile.  The last    *)
(* two update s_connected and s_epoch under s_lock and register or remove  *)
(* the driver's receive callback outside of it, so their steps interleave. *)
(* USB resets and plug events advance the epoch too.                       *)
(***************************************************************************)
EXTENDS Naturals, Sequences

CONSTANTS
    MaxJoins,       \* bound: associations the driver makes in one behaviour
    MaxApplies,     \* bound: calls of wifi_apply_creds
    MaxUsbEvents    \* bound: USB resets, unplugs and attach/detach events

ASSUME LinkAssumption ==
    MaxJoins \in Nat /\ MaxApplies \in Nat /\ MaxUsbEvents \in Nat

VARIABLES
    connected,      \* s_connected, under s_lock
    epoch,          \* s_epoch, under s_lock
    rxcb,           \* is pkt_wifi2usb registered with the driver?
    assoc,          \* the driver's association: its number, or 0 for none
    joining,        \* esp_wifi_connect was called and has not ended
    events,         \* the event loop's queue of Wi-Fi events
    evPc,           \* the event loop task inside wifi_event
    ctlPc,          \* the control task inside wifi_apply_creds
    joins, applies, usbEvents       \* used up so far of each bound

linkVars == <<connected, epoch, rxcb, assoc, joining, events, evPc, ctlPc,
              joins, applies, usbEvents>>

LinkTypeOK ==
    /\ connected \in BOOLEAN /\ rxcb \in BOOLEAN /\ joining \in BOOLEAN
    /\ epoch \in Nat /\ joins \in Nat /\ applies \in Nat /\ usbEvents \in Nat
    /\ assoc \in Nat
    /\ events \in Seq({"connected", "disconnected"})
    /\ evPc \in {"idle", "register", "up", "unregister"}
    /\ ctlPc \in {"idle", "unregister", "disconnect", "connect"}

LinkInit ==
    /\ connected = FALSE /\ rxcb = FALSE /\ joining = FALSE
    /\ epoch = 0 /\ assoc = 0 /\ events = <<>>
    /\ evPc = "idle" /\ ctlPc = "idle"
    /\ joins = 0 /\ applies = 0 /\ usbEvents = 0

-----------------------------------------------------------------------------
(* The Wi-Fi driver. *)

\* An attempt to connect succeeds.
Associate ==
    /\ joining /\ joins < MaxJoins
    /\ joins' = joins + 1 /\ assoc' = joins' /\ joining' = FALSE
    /\ events' = Append(events, "connected")
    /\ UNCHANGED <<connected, epoch, rxcb, evPc, ctlPc, applies, usbEvents>>

\* The driver moves to another access point by itself: rm_enabled and btm_enabled
\* let the network steer it.  It may or may not report leaving the first.
Roam ==
    /\ assoc # 0 /\ joins < MaxJoins
    /\ joins' = joins + 1 /\ assoc' = joins'
    /\ \E q \in {events, Append(events, "disconnected")} :
          events' = Append(q, "connected")
    /\ UNCHANGED <<connected, epoch, rxcb, joining, evPc, ctlPc,
                   applies, usbEvents>>

\* An attempt to connect fails; the driver reports it as a disconnection.
JoinFails ==
    /\ joining
    /\ joining' = FALSE
    /\ events' = Append(events, "disconnected")
    /\ UNCHANGED <<connected, epoch, rxcb, assoc, evPc, ctlPc,
                   joins, applies, usbEvents>>

\* The access point goes away.
Drop ==
    /\ assoc # 0
    /\ assoc' = 0
    /\ events' = Append(events, "disconnected")
    /\ UNCHANGED <<connected, epoch, rxcb, joining, evPc, ctlPc,
                   joins, applies, usbEvents>>

-----------------------------------------------------------------------------
(* wifi_event, in the event loop task. *)

\* WIFI_EVENT_STA_DISCONNECTED: one s_lock section, then the callback.
EvDisconnected ==
    /\ evPc = "idle" /\ events # <<>> /\ Head(events) = "disconnected"
    /\ events' = Tail(events)
    /\ connected' = FALSE /\ epoch' = epoch + 1
    /\ evPc' = "unregister"
    /\ UNCHANGED <<rxcb, assoc, joining, ctlPc, joins, applies, usbEvents>>

\* Mutant of EvUnregister: the callback stays registered.
EvUnregisterNot ==
    /\ evPc = "unregister"
    /\ evPc' = "idle"
    /\ UNCHANGED <<connected, epoch, rxcb, assoc, joining, events, ctlPc,
                   joins, applies, usbEvents>>

EvUnregister ==
    /\ evPc = "unregister"
    /\ rxcb' = FALSE /\ evPc' = "idle"
    /\ UNCHANGED <<connected, epoch, assoc, joining, events, ctlPc,
                   joins, applies, usbEvents>>

\* WIFI_EVENT_STA_CONNECTED: bridge_clear_addresses, the callback, and only
\* then s_connected, each visible to the other tasks on its own.
EvConnected ==
    /\ evPc = "idle" /\ events # <<>> /\ Head(events) = "connected"
    /\ events' = Tail(events)
    /\ epoch' = epoch + 1
    /\ evPc' = "register"
    /\ UNCHANGED <<connected, rxcb, assoc, joining, ctlPc,
                   joins, applies, usbEvents>>

EvRegister ==
    /\ evPc = "register"
    /\ rxcb' = TRUE /\ evPc' = "up"
    /\ UNCHANGED <<connected, epoch, assoc, joining, events, ctlPc,
                   joins, applies, usbEvents>>

EvUp ==
    /\ evPc = "up"
    /\ connected' = TRUE /\ evPc' = "idle"
    /\ UNCHANGED <<epoch, rxcb, assoc, joining, events, ctlPc,
                   joins, applies, usbEvents>>

-----------------------------------------------------------------------------
(* wifi_apply_creds, in the control task. *)

ApplyBegin ==
    /\ ctlPc = "idle" /\ applies < MaxApplies
    /\ applies' = applies + 1
    /\ connected' = FALSE /\ epoch' = epoch + 1
    /\ ctlPc' = "unregister"
    /\ UNCHANGED <<rxcb, assoc, joining, events, evPc, joins, usbEvents>>

ApplyUnregister ==
    /\ ctlPc = "unregister"
    /\ rxcb' = FALSE /\ ctlPc' = "disconnect"
    /\ UNCHANGED <<connected, epoch, assoc, joining, events, evPc,
                   joins, applies, usbEvents>>

\* esp_wifi_disconnect ends an association, or an attempt at one, with an
\* event; with neither it does nothing.
ApplyDisconnect ==
    /\ ctlPc = "disconnect"
    /\ events' = IF assoc # 0 \/ joining THEN Append(events, "disconnected")
                                         ELSE events
    /\ assoc' = 0 /\ joining' = FALSE
    /\ ctlPc' = "connect"
    /\ UNCHANGED <<connected, epoch, rxcb, evPc, joins, applies, usbEvents>>

\* esp_wifi_set_config and, if it succeeds and there is an SSID, connect.
ApplyConnect ==
    /\ ctlPc = "connect"
    /\ joining' \in BOOLEAN
    /\ ctlPc' = "idle"
    /\ UNCHANGED <<connected, epoch, rxcb, assoc, events, evPc,
                   joins, applies, usbEvents>>

-----------------------------------------------------------------------------
\* A bus reset or unplug seen by tud_event_hook_cb in interrupt context, or
\* an attach/detach event seen by usb_event: either way the epoch moves on.
UsbEpoch ==
    /\ usbEvents < MaxUsbEvents
    /\ usbEvents' = usbEvents + 1
    /\ epoch' = epoch + 1
    /\ UNCHANGED <<connected, rxcb, assoc, joining, events, evPc, ctlPc,
                   joins, applies>>

EventTask == EvDisconnected \/ EvUnregister \/ EvConnected \/ EvRegister \/ EvUp
Driver == Associate \/ Roam \/ JoinFails \/ Drop
\* The rest of a call of wifi_apply_creds that has begun.
ApplyRest == ApplyUnregister \/ ApplyDisconnect \/ ApplyConnect

LinkNext == Driver \/ EventTask \/ ApplyBegin \/ ApplyRest \/ UsbEpoch

-----------------------------------------------------------------------------
(* Properties. *)

\* wifi_event and wifi_apply_creds race on s_connected and on the receive
\* callback.  Whatever the race did, once no event is left and neither is
\* running, the bridge agrees with the driver: it believes it is connected,
\* and receives frames, exactly while the station is associated.
LinkSettles ==
    events = <<>> /\ evPc = "idle" /\ ctlPc = "idle"
        => connected = (assoc # 0) /\ rxcb = (assoc # 0)
=============================================================================
