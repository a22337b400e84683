------------------------------- MODULE Uplink -------------------------------
(***************************************************************************)
(* USB to Wi-Fi forwarding (main/bridge.c): usb_recv_callback, on the      *)
(* TinyUSB task, offers the host's frame to the Wi-Fi driver and, once it  *)
(* is taken, learns the host's address from it, which the display and the  *)
(* console show.  The station's state changes under it (module Link), and  *)
(* so may the whole device: it runs, restarts and loses its RAM as module  *)
(* CrashLog says, whose sign of life comes from the same TinyUSB task.     *)
(*                                                                         *)
(* A frame is kept nowhere and the counters are left out.                  *)
(***************************************************************************)
EXTENDS Link, CrashLog

CONSTANT Attempts   \* offers of one frame before it is given up, 20

ASSUME UplinkAssumption == Attempts \in Nat \ {0}

VARIABLES
    upPc, offers,   \* usb_recv_callback: where it is, and its attempt
    observed        \* s_addr holds an address

upVars == <<upPc, offers, observed>>
bridgeVars == <<linkVars, upVars>>
allVars == <<vars, bridgeVars>>

UplinkInit ==
    /\ Init /\ LinkInit
    /\ upPc = "idle" /\ offers = 0 /\ observed = FALSE

-----------------------------------------------------------------------------
(* usb_recv_callback. *)

UpUnchanged == UNCHANGED <<vars, linkVars>>

\* A frame of a plausible length from the advertised address, while connected.
UpAccept ==
    /\ upPc = "idle" /\ connected
    /\ upPc' = "offer" /\ offers' = 0
    /\ UNCHANGED observed /\ UpUnchanged

\* esp_wifi_internal_tx takes the frame, of which it makes a copy ...
UpTaken ==
    /\ upPc = "offer" /\ assoc # 0
    /\ upPc' = "observe"
    /\ UNCHANGED <<offers, observed>> /\ UpUnchanged

\* ... or refuses it, for want of room or of an association.
UpRefused ==
    /\ upPc = "offer"
    /\ upPc' = "again" /\ offers' = offers + 1
    /\ UNCHANGED observed /\ UpUnchanged

UpRetry ==
    /\ upPc = "again" /\ connected /\ offers < Attempts
    /\ upPc' = "offer"
    /\ UNCHANGED <<offers, observed>> /\ UpUnchanged

UpGiveUp ==
    /\ upPc = "again" /\ (~connected \/ offers = Attempts)
    /\ upPc' = "idle" /\ offers' = 0
    /\ UNCHANGED observed /\ UpUnchanged

\* Mutant of Learns: the frame was taken, so the station is taken to be connected.
LearnsAlways == TRUE
\* observe_packet, under s_lock.
Learns == connected

\* Not every frame shows an address.
UpObserve ==
    /\ upPc = "observe"
    /\ upPc' = "idle" /\ offers' = 0
    /\ observed' \in {observed, observed \/ Learns}
    /\ UpUnchanged

Receive == UpAccept \/ UpTaken \/ UpRefused \/ UpRetry \/ UpGiveUp \/ UpObserve

-----------------------------------------------------------------------------
(* The station and the device. *)

\* Every critical section that moves the epoch on clears the addresses as well.
Station ==
    /\ LinkNext
    /\ observed' = (observed /\ epoch' = epoch)
    /\ UNCHANGED <<vars, upPc, offers>>

\* A run begins with its RAM cleared, and the driver with no association.
FreshRam ==
    /\ connected' = FALSE /\ epoch' = 0 /\ rxcb' = FALSE
    /\ assoc' = 0 /\ joining' = FALSE /\ events' = <<>>
    /\ evPc' = "idle" /\ ctlPc' = "idle"
    /\ upPc' = "idle" /\ offers' = 0 /\ observed' = FALSE
    /\ UNCHANGED <<joins, applies, usbEvents>>

Down == mode' = "reset" /\ FreshRam
Goes == mode' # "reset" /\ UNCHANGED bridgeVars

\* The sign of life waits for the callback to return.
Device ==
    \/ (BootToRom \/ Boot \/ Timer \/ Crash \/ Restart \/ PowerLoss) /\ (Down \/ Goes)
    \/ UsbAlive /\ upPc = "idle" /\ UNCHANGED bridgeVars

UplinkNext == Device \/ (mode = "running" /\ (Station \/ Receive))

UplinkSpec == UplinkInit /\ [][UplinkNext]_allVars

-----------------------------------------------------------------------------
(* Properties. *)

\* "observed IP addresses ... clear on Wi-Fi changes/USB reset"
\* (docs/ADR-001.md:7): a frame the driver has taken while the station was
\* connected shows no address once it is not, however late the TinyUSB task
\* comes to look at it.
ObservedOnline == observed => connected
=============================================================================
