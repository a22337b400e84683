---------------------------- MODULE UplinkProofs ----------------------------
(***************************************************************************)
(* Proofs about the crash record and the USB to Wi-Fi path on top of it,   *)
(* for any length of a streak, any limits, any number of resets of any     *)
(* kind, of offers of a frame and of joins and applies of the station.     *)
(*                                                                         *)
(* The crash record's properties speak of a running device; what boot      *)
(* makes of the record depends on what the last run left there, so the     *)
(* invariant says what is owed in each mode: while a reset is pending the  *)
(* record lacks exactly the crash that caused it, and after a loss of      *)
(* power it owes nothing.  They carry over to the device with the bridge   *)
(* in it because the bridge only ever delays the crash record's steps.     *)
(***************************************************************************)
EXTENDS Uplink, LinkProofs

-----------------------------------------------------------------------------
(* The crash record. *)

\* The record against the history, with the given crash still to be counted.
Settled(hang, fault) ==
    /\ rtc.magic
    /\ happened.hangs = rtc.hangs + hang
    /\ happened.faults = rtc.faults + fault
    /\ rtc.streak < Streak
    /\ inARow <= rtc.streak + hang + fault
    /\ rtc.streak + hang + fault <= sinceHealthy

RecordInv ==
    /\ mode = "running" => Settled(0, 0)
    /\ mode = "rom" => /\ rtc.magic /\ rtc.streak = 0
                       /\ happened.hangs = rtc.hangs
                       /\ happened.faults = rtc.faults
    /\ mode = "reset" =>
          CASE reason = "panic" -> Settled(0, 1)
            [] reason = "watchdog" -> Settled(1, 0)
            [] reason \in {"software", "other"} -> Settled(0, 0) /\ inARow = 0
            [] OTHER -> inARow = 0 /\ sinceHealthy = 0 /\ happened = None

CrashLogInv == CrashLogTypeOK /\ RecordInv

Rtc == [magic : BOOLEAN, boots : Nat, hangs : Nat, faults : Nat, streak : 0 .. Streak]

-----------------------------------------------------------------------------
\* Whatever RTC memory holds after a loss of power, it holds it in its fields.
LEMMA GarbageTyped == Garbage \subseteq Rtc
<1>1. {0} \subseteq Nat /\ {0, 1} \subseteq Nat
    OBVIOUS
<1> QED BY <1>1, Zenon DEF Garbage, Rtc

\* The device starts with a power-on reset.
LEMMA CrashLogInitInv == Init => CrashLogInv
<1> SUFFICES ASSUME Init PROVE CrashLogInv
    OBVIOUS
<1> USE CrashLogAssumption DEF Init, None
<1>1. rtc \in Rtc
    BY GarbageTyped, Zenon
<1>2. CrashLogTypeOK
    BY <1>1 DEF CrashLogTypeOK, Rtc, Reasons, Crashes, Cold
<1>3. RecordInv
    BY DEF RecordInv
<1> QED BY <1>2, <1>3 DEF CrashLogInv

\* What boot counts: the pending crash is added, or the record starts afresh.
LEMMA BootCounts ==
    ASSUME CrashLogInv, mode = "reset"
    PROVE  /\ Counted \in Rtc
           /\ Counted.magic
           /\ Counted.hangs = happened.hangs
           /\ Counted.faults = happened.faults
           /\ inARow <= Counted.streak /\ Counted.streak <= sinceHealthy
           /\ ~Recovered => Counted.streak < Streak
<1>1. /\ rtc \in Rtc /\ happened \in [hangs : Nat, faults : Nat]
      /\ inARow \in Nat /\ sinceHealthy \in Nat /\ Streak \in Nat \ {0}
    BY CrashLogAssumption DEF CrashLogInv, CrashLogTypeOK, Rtc
<1>2. CASE reason = "panic"
  <2>1. Settled(0, 1)
    BY <1>2 DEF CrashLogInv, RecordInv
  <2>2. Counted = [rtc EXCEPT !.faults = @ + 1, !.streak = @ + 1]
    BY <1>2, <2>1 DEF Counted, Warm, Cold, Settled
  <2>3. Recovered
    BY <1>2, <2>1 DEF Recovered, Warm, Cold, Crashes, Settled
  <2>4. rtc.streak + 1 \in 0 .. Streak /\ rtc.faults + 1 \in Nat
    BY <1>1, <2>1 DEF Settled, Rtc
  <2>5. Counted \in Rtc
    BY <1>1, <2>2, <2>4, Zenon DEF Rtc
  <2> QED BY <1>1, <2>1, <2>2, <2>3, <2>5 DEF Settled, Rtc
<1>3. CASE reason = "watchdog"
  <2>1. Settled(1, 0)
    BY <1>3 DEF CrashLogInv, RecordInv
  <2>2. Counted = [rtc EXCEPT !.hangs = @ + 1, !.streak = @ + 1]
    BY <1>3, <2>1 DEF Counted, Warm, Cold, Settled
  <2>3. Recovered
    BY <1>3, <2>1 DEF Recovered, Warm, Cold, Crashes, Settled
  <2>4. rtc.streak + 1 \in 0 .. Streak /\ rtc.hangs + 1 \in Nat
    BY <1>1, <2>1 DEF Settled, Rtc
  <2>5. Counted \in Rtc
    BY <1>1, <2>2, <2>4, Zenon DEF Rtc
  <2> QED BY <1>1, <2>1, <2>2, <2>3, <2>5 DEF Settled, Rtc
<1>4. CASE reason \in {"software", "other"}
  <2>1. Settled(0, 0)
    BY <1>4 DEF CrashLogInv, RecordInv
  <2>2. Counted = rtc
    BY <1>4, <2>1 DEF Counted, Warm, Cold, Settled
  <2> QED BY <1>1, <2>1, <2>2 DEF Settled, Rtc
<1>5. CASE reason \in Cold
  <2>1. inARow = 0 /\ sinceHealthy = 0 /\ happened = None
    BY <1>5 DEF CrashLogInv, RecordInv, Cold
  <2>2. Counted = Blank
    BY <1>5 DEF Counted, Warm
  <2> QED BY <1>1, <2>1, <2>2 DEF Blank, None, Rtc
<1> QED BY <1>2, <1>3, <1>4, <1>5 DEF CrashLogInv, CrashLogTypeOK, Reasons, Crashes

\* The invariant is preserved by every step.
LEMMA CrashLogStep ==
    ASSUME CrashLogInv, [Next]_vars
    PROVE  CrashLogInv'
<1> USE CrashLogAssumption DEF CrashLogInv
<1>1. CASE BootToRom
  <2>1. CrashLogTypeOK'
    BY <1>1, BootCounts DEF BootToRom, CrashLogTypeOK, Rtc
  <2>2. RecordInv'
    BY <1>1, BootCounts DEF BootToRom, RecordInv, Rtc
  <2> QED BY <2>1, <2>2
<1>2. CASE Boot
  <2>1. Counted.streak < Streak
    BY <1>2, BootCounts DEF Boot, Looping, Rtc
  <2>2. CrashLogTypeOK'
    BY <1>2, BootCounts DEF Boot, history, CrashLogTypeOK, Rtc
  <2>3. RecordInv'
    BY <1>2, <2>1, BootCounts DEF Boot, history, RecordInv, Settled, Rtc
  <2> QED BY <2>2, <2>3
<1>3. CASE UsbAlive
  <2>1. CrashLogTypeOK'
    BY <1>3 DEF UsbAlive, history, CrashLogTypeOK
  <2>2. RecordInv'
    BY <1>3 DEF UsbAlive, history, RecordInv, Settled
  <2> QED BY <2>1, <2>2
<1>4. CASE Timer
  <2> DEFINE up == Capped(uptime + 1, Healthy + 1)
             quiet == Capped(silent + 1, Stall + 1)
             r == ClearStreak(rtc, up)
  <2>1. up \in 0 .. Healthy + 1 /\ quiet \in 0 .. Stall + 1
    BY DEF Capped, CrashLogTypeOK
  <2>2. /\ r \in [magic : BOOLEAN, boots : Nat, hangs : Nat, faults : Nat,
                  streak : 0 .. Streak]
        /\ r.magic = rtc.magic /\ r.hangs = rtc.hangs /\ r.faults = rtc.faults
        /\ r.streak = IF up > Healthy THEN 0 ELSE rtc.streak
    BY <2>1 DEF ClearStreak, CrashLogTypeOK
  <2> HIDE DEF up, quiet, r
  <2>3. /\ mode = "running" /\ uptime' = up /\ silent' = quiet
        /\ sinceHealthy' = IF up > Healthy THEN 0 ELSE sinceHealthy
    BY <1>4 DEF Timer, up, quiet, r
  <2>4. CASE quiet > Stall
    <3>1. /\ resets' = resets + 1 /\ rtc' = [r EXCEPT !.hangs = @ + 1]
          /\ happened' = [happened EXCEPT !.hangs = @ + 1]
          /\ mode' = "reset" /\ reason' = "software" /\ inARow' = 0
      BY <1>4, <2>4 DEF Timer, up, quiet, r
    <3>2. CrashLogTypeOK'
      BY <2>1, <2>2, <2>3, <3>1 DEF CrashLogTypeOK, Reasons
    <3>3. RecordInv'
      BY <2>2, <2>3, <3>1 DEF RecordInv, Settled, CrashLogTypeOK
    <3> QED BY <3>2, <3>3
  <2>5. CASE ~(quiet > Stall)
    <3>1. /\ rtc' = r /\ inARow' = IF up > Healthy THEN 0 ELSE inARow
          /\ UNCHANGED <<mode, reason, resets, happened>>
      BY <1>4, <2>5 DEF Timer, up, quiet, r
    <3>2. CrashLogTypeOK'
      BY <2>1, <2>2, <2>3, <3>1 DEF CrashLogTypeOK
    <3>3. RecordInv'
      BY <2>2, <2>3, <3>1 DEF RecordInv, Settled, CrashLogTypeOK
    <3> QED BY <3>2, <3>3
  <2> QED BY <2>4, <2>5
<1>5. CASE Crash
  <2>1. PICK why \in Crashes :
          /\ mode = "running" /\ Reset(why)
          /\ inARow' = inARow + 1 /\ sinceHealthy' = sinceHealthy + 1
          /\ happened' = IF why = "panic" THEN [happened EXCEPT !.faults = @ + 1]
                         ELSE [happened EXCEPT !.hangs = @ + 1]
          /\ UNCHANGED rtc
    BY <1>5 DEF Crash
  <2>2. CrashLogTypeOK'
    BY <2>1 DEF Reset, CrashLogTypeOK, Reasons
  <2>3. RecordInv'
    BY <2>1 DEF Reset, RecordInv, Settled, CrashLogTypeOK, Crashes
  <2> QED BY <2>2, <2>3
<1>6. CASE Restart
  <2>1. PICK why \in {"software", "other"} :
          /\ mode # "reset" /\ Reset(why)
          /\ inARow' = 0
          /\ UNCHANGED <<rtc, sinceHealthy, happened>>
    BY <1>6 DEF Restart
  <2>2. CrashLogTypeOK'
    BY <2>1 DEF Reset, CrashLogTypeOK, Reasons
  <2>3. RecordInv'
    BY <2>1 DEF Reset, RecordInv, Settled, CrashLogTypeOK
  <2> QED BY <2>2, <2>3
<1>7. CASE PowerLoss
  <2>1. PICK why \in Cold :
          /\ Reset(why)
          /\ rtc' \in Garbage
          /\ inARow' = 0 /\ sinceHealthy' = 0 /\ happened' = None
    BY <1>7 DEF PowerLoss
  <2>2. rtc' \in Rtc
    BY <2>1, GarbageTyped, Zenon
  <2>3. CrashLogTypeOK'
    BY <2>1, <2>2 DEF Reset, CrashLogTypeOK, Rtc, Reasons, None
  <2>4. RecordInv'
    BY <2>1 DEF Reset, RecordInv, Cold
  <2> QED BY <2>3, <2>4
<1>8. CASE UNCHANGED vars
    BY <1>8 DEF vars, CrashLogTypeOK, RecordInv, Settled
<1> QED BY <1>1, <1>2, <1>3, <1>4, <1>5, <1>6, <1>7, <1>8 DEF Next

-----------------------------------------------------------------------------
\* Whatever resets the device and however often: it never runs again after a
\* streak of crashes in a row, and while it runs its tallies of hangs and panics
\* are those since power-on.
THEOREM CrashRecordTrue == Spec => [](CrashLogTypeOK /\ CrashLoopEnds /\ TalliesTrue)
<1>1. CrashLogInv => CrashLogTypeOK /\ CrashLoopEnds /\ TalliesTrue
    BY CrashLogAssumption
       DEF CrashLogInv, CrashLogTypeOK, RecordInv, Settled, CrashLoopEnds, TalliesTrue
<1> QED BY <1>1, CrashLogInitInv, CrashLogStep, PTL DEF Spec

\* Download mode is entered only after that many crashes without a healthy run,
\* a loss of power or a stay in download mode between them.
THEOREM RomForLoopsOnly == Spec => RomOnlyForLoops
<1>1. CrashLogInv /\ [Next]_vars
        => [mode = "reset" /\ mode' = "rom" => sinceHealthy >= Streak]_vars
  <2> SUFFICES ASSUME CrashLogInv, Next, mode = "reset", mode' = "rom"
               PROVE  sinceHealthy >= Streak
      OBVIOUS
  <2>1. BootToRom
    BY DEF Next, Boot, UsbAlive, Timer, Crash, Restart, PowerLoss, Reset
  <2>2. Counted.streak >= Streak
    BY <2>1 DEF BootToRom, Looping
  <2> QED BY <2>2, BootCounts, CrashLogAssumption DEF CrashLogInv, CrashLogTypeOK, Rtc
<1> QED BY <1>1, CrashLogInitInv, CrashLogStep, PTL DEF Spec, RomOnlyForLoops

-----------------------------------------------------------------------------
(* The bridge on it. *)

UplinkTypeOK ==
    /\ upPc \in {"idle", "offer", "again", "observe"} /\ offers \in Nat
    /\ observed \in BOOLEAN

UplinkInv == LinkTypeOK /\ LinkAgreement /\ UplinkTypeOK /\ ObservedOnline

\* A device that comes up has no station, no frame and no address.
LEMMA FreshInv ==
    ASSUME LinkTypeOK, FreshRam
    PROVE  UplinkInv'
<1>1. LinkTypeOK'
  <2>1. events' \in Seq({"connected", "disconnected"}) /\ assoc' \in Nat /\ epoch' \in Nat
    BY DEF FreshRam
  <2> QED BY <2>1 DEF FreshRam, LinkTypeOK
<1>2. LinkAgreement'
    BY DEF FreshRam, LinkAgreement, WillForget
<1>3. UplinkTypeOK' /\ ObservedOnline'
    BY DEF FreshRam, UplinkTypeOK, ObservedOnline
<1> QED BY <1>1, <1>2, <1>3 DEF UplinkInv

\* Nothing is observed on the first boot.
LEMMA UplinkInitInv == UplinkInit => UplinkInv
<1> SUFFICES ASSUME UplinkInit PROVE UplinkInv
    OBVIOUS
<1>1. LinkTypeOK
  <2>1. events \in Seq({"connected", "disconnected"}) /\ assoc \in Nat /\ epoch \in Nat
        /\ joins \in Nat /\ applies \in Nat /\ usbEvents \in Nat
    BY DEF UplinkInit, LinkInit
  <2> QED BY <2>1 DEF UplinkInit, LinkInit, LinkTypeOK
<1>2. LinkAgreement
    BY LinkAgreementInit DEF UplinkInit
<1>3. UplinkTypeOK /\ ObservedOnline
    BY DEF UplinkInit, UplinkTypeOK, ObservedOnline
<1> QED BY <1>1, <1>2, <1>3 DEF UplinkInv

\* The station stops being connected only in a step that moves its epoch on.
LEMMA LeavesEpoch ==
    ASSUME LinkTypeOK, LinkNext, connected, ~connected'
    PROVE  epoch' # epoch
<1>1. epoch \in Nat
    BY DEF LinkTypeOK
<1>2. CASE EvDisconnected \/ ApplyBegin
    BY <1>1, <1>2 DEF EvDisconnected, ApplyBegin
<1>3. CASE Driver
    BY <1>3 DEF Driver, Associate, Roam, JoinFails, Drop
<1>4. CASE EvUnregister \/ EvConnected \/ EvRegister \/ EvUp
    BY <1>4 DEF EvUnregister, EvConnected, EvRegister, EvUp
<1>5. CASE ApplyRest
    BY <1>5 DEF ApplyRest, ApplyUnregister, ApplyDisconnect, ApplyConnect
<1>6. CASE UsbEpoch
    BY <1>6 DEF UsbEpoch
<1> QED BY <1>2, <1>3, <1>4, <1>5, <1>6 DEF LinkNext, EventTask

\* A step of the station, of usb_recv_callback or of the device.
LEMMA UplinkStep ==
    ASSUME UplinkInv, [UplinkNext]_allVars
    PROVE  UplinkInv'
<1> USE DEF UplinkInv
<1>1. CASE UNCHANGED bridgeVars
  <2>1. UNCHANGED linkVars /\ UNCHANGED upVars
    BY <1>1 DEF bridgeVars
  <2>2. LinkTypeOK' /\ LinkAgreement'
    BY <2>1, LinkType, LinkAgreementStep
  <2>3. UplinkTypeOK' /\ ObservedOnline'
    BY <2>1 DEF linkVars, upVars, UplinkTypeOK, ObservedOnline
  <2> QED BY <2>2, <2>3
<1>2. CASE Down
    BY <1>2, FreshInv DEF Down
<1>3. CASE Station
  <2>1. LinkTypeOK' /\ LinkAgreement'
    BY <1>3, LinkType, LinkAgreementStep DEF Station
  <2>2. UplinkTypeOK'
    BY <1>3 DEF Station, UplinkTypeOK
  <2>3. ObservedOnline'
    BY <1>3, LeavesEpoch DEF Station, ObservedOnline
  <2> QED BY <2>1, <2>2, <2>3
<1>4. CASE Receive
  <2>1. UNCHANGED linkVars
    BY <1>4 DEF Receive, UpAccept, UpTaken, UpRefused, UpRetry, UpGiveUp, UpObserve,
       UpUnchanged
  <2>2. LinkTypeOK' /\ LinkAgreement'
    BY <2>1, LinkType, LinkAgreementStep
  <2>3. connected' = connected
    BY <2>1 DEF linkVars
  <2>4. CASE UNCHANGED observed
    <3>1. UplinkTypeOK'
      BY <1>4, <2>4 DEF Receive, UpAccept, UpTaken, UpRefused, UpRetry, UpGiveUp,
         UpObserve, UplinkTypeOK
    <3> QED BY <2>2, <2>3, <2>4, <3>1 DEF ObservedOnline
  <2>5. CASE UpObserve
    BY <2>2, <2>3, <2>5 DEF UpObserve, Learns, UplinkTypeOK, ObservedOnline
  <2> QED BY <1>4, <2>4, <2>5 DEF Receive, UpAccept, UpTaken, UpRefused, UpRetry,
          UpGiveUp
<1> QED BY <1>1, <1>2, <1>3, <1>4 DEF UplinkNext, Device, Goes, allVars

\* An address is shown only while the station is connected, though it is learnt
\* from a frame taken at some earlier time and the station may have gone, or the
\* device restarted, since.
THEOREM ObservedWhileOnline == UplinkSpec => []ObservedOnline
<1>1. UplinkInv => ObservedOnline
    BY DEF UplinkInv
<1> QED BY <1>1, UplinkInitInv, UplinkStep, PTL DEF UplinkSpec

\* The bridge comes to agree with the driver about the association in every run
\* of the device, whatever ended the run before.
THEOREM LinkAgreesInEveryRun == UplinkSpec => []LinkSettles
<1>1. UplinkInv => LinkSettles
    BY LinkAgreementSettles DEF UplinkInv
<1> QED BY <1>1, UplinkInitInv, UplinkStep, PTL DEF UplinkSpec

\* With the bridge running on it the device still runs, restarts and counts as
\* the crash record's specification alone has it.
LEMMA BridgeKeepsRecord == UplinkSpec => Spec
<1>1. UplinkInit => Init
    BY DEF UplinkInit
<1>2. [UplinkNext]_allVars => [Next]_vars
  <2>1. Device => Next
    BY DEF Device, Next
  <2>2. Station \/ UNCHANGED allVars => UNCHANGED vars
    BY DEF Station, allVars
  <2>3. Receive => UNCHANGED vars
    BY DEF Receive, UpAccept, UpTaken, UpRefused, UpRetry, UpGiveUp, UpObserve,
       UpUnchanged
  <2> QED BY <2>1, <2>2, <2>3 DEF UplinkNext
<1> QED BY <1>1, <1>2, PTL DEF UplinkSpec, Spec

\* So a crash loop ends in download mode, nothing else does, and the tallies are
\* true, whatever the station and the host's frames do meanwhile.
THEOREM BridgeCrashLoops ==
    UplinkSpec => [](CrashLoopEnds /\ TalliesTrue) /\ RomOnlyForLoops
BY CrashRecordTrue, RomForLoopsOnly, BridgeKeepsRecord, PTL
=============================================================================
