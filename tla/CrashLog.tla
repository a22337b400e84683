------------------------------ MODULE CrashLog ------------------------------
(***************************************************************************)
(* The crash record in RTC memory (main/bridge.c): crashlog_boot counts    *)
(* what brought the last run down and breaks a crash loop by staying in    *)
(* the ROM's download mode; a timer clears the streak of a run that lasts  *)
(* and restarts the device when the TinyUSB task no longer runs.           *)
(*                                                                         *)
(* RTC memory survives every reset but a loss of power, after which it     *)
(* holds anything.  The counter snapshot kept beside the tallies is left   *)
(* out.  Times are in periods of the timer.                                *)
(***************************************************************************)
EXTENDS Naturals

CONSTANTS
    Healthy,        \* a run of more than 30 s ends a streak
    Stall,          \* a TinyUSB task silent for more than 10 s is given up
    Streak,         \* 3 crashes in a row are a loop
    MaxResets       \* bound: resets in one behaviour

ASSUME CrashLogAssumption ==
    /\ Healthy \in Nat /\ Stall \in Nat /\ Streak \in Nat \ {0}
    /\ MaxResets \in Nat

VARIABLES
    rtc,            \* s_crashlog
    mode,           \* "reset", "running", or "rom": the ROM's download mode
    reason,         \* of the last reset, esp_reset_reason()
    uptime, silent, \* time since boot, and since the last sign of the USB task
    resets,         \* used up of the bound
    inARow,         \* history: crashes with no other kind of end between them
    sinceHealthy,   \* history: crashes since the last healthy run, loss of
                    \* power or stay in download mode
    happened        \* history: hangs and faults since power-on

vars == <<rtc, mode, reason, uptime, silent, resets, inARow, sinceHealthy, happened>>
history == <<inARow, sinceHealthy, happened>>

Crashes == {"panic", "watchdog"}
Cold == {"poweron", "brownout"}
Reasons == Crashes \cup Cold \cup {"software", "other"}

Blank == [magic |-> TRUE, boots |-> 0, hangs |-> 0, faults |-> 0, streak |-> 0]

\* What RTC memory may hold after a loss of power; it may look valid.  A tally
\* that is right or wrong is all the properties tell apart.
Garbage == [magic : BOOLEAN, boots : {0}, hangs : {0, 1}, faults : {0},
            streak : 0 .. Streak]

None == [hangs |-> 0, faults |-> 0]

Init ==
    /\ rtc \in Garbage /\ mode = "reset" /\ reason = "poweron"
    /\ uptime = 0 /\ silent = 0 /\ resets = 0
    /\ inARow = 0 /\ sinceHealthy = 0 /\ happened = None

CrashLogTypeOK ==
    /\ rtc \in [magic : BOOLEAN, boots : Nat, hangs : Nat, faults : Nat,
                streak : 0 .. Streak]
    /\ mode \in {"reset", "running", "rom"} /\ reason \in Reasons
    /\ uptime \in 0 .. Healthy + 1 /\ silent \in 0 .. Stall + 1
    /\ resets \in Nat /\ inARow \in Nat /\ sinceHealthy \in Nat
    /\ happened \in [hangs : Nat, faults : Nat]

-----------------------------------------------------------------------------
(* Booting. *)

\* Mutant of Warm: what looks valid after a loss of power is believed.
WarmByMagic == rtc.magic
Warm == reason \notin Cold /\ rtc.magic

Recovered == Warm /\ reason \in Crashes

\* The tallies with the last run's end added.
Counted ==
    IF ~Warm THEN Blank
    ELSE CASE reason = "panic" ->
                [rtc EXCEPT !.faults = @ + 1, !.streak = @ + 1]
           [] reason = "watchdog" ->
                [rtc EXCEPT !.hangs = @ + 1, !.streak = @ + 1]
           [] OTHER -> rtc

\* Mutant of Looping: one crash too many is let pass.
LoopingLate(r) == r.streak > Streak
Looping(r) == r.streak >= Streak

\* A crash loop stops here ...
BootToRom ==
    /\ mode = "reset"
    /\ Recovered /\ Looping(Counted)
    /\ rtc' = [Counted EXCEPT !.streak = 0]
    /\ mode' = "rom"
    /\ sinceHealthy' = 0
    /\ UNCHANGED <<reason, uptime, silent, resets, inARow, happened>>

\* ... and any other boot goes on.
Boot ==
    /\ mode = "reset"
    /\ ~(Recovered /\ Looping(Counted))
    /\ rtc' = [Counted EXCEPT !.boots = @ + 1]
    /\ mode' = "running"
    /\ uptime' = 0 /\ silent' = 0
    /\ UNCHANGED <<reason, resets, history>>

-----------------------------------------------------------------------------
(* Running. *)

\* update_usb_link, on the TinyUSB task.
UsbAlive ==
    /\ mode = "running" /\ silent' = 0
    /\ UNCHANGED <<rtc, mode, reason, uptime, resets, history>>

Capped(n, limit) == IF n < limit THEN n ELSE limit

\* Mutant of ClearStreak: a run that lasts does not end a streak.
ClearStreakNot(r, up) == r
ClearStreak(r, up) == IF up > Healthy THEN [r EXCEPT !.streak = 0] ELSE r

\* snapshot_timer_cb.
Timer ==
    /\ mode = "running"
    /\ LET up == Capped(uptime + 1, Healthy + 1)
           quiet == Capped(silent + 1, Stall + 1)
           r == ClearStreak(rtc, up)
       IN  /\ uptime' = up /\ silent' = quiet
           /\ sinceHealthy' = IF up > Healthy THEN 0 ELSE sinceHealthy
           /\ IF quiet > Stall
                THEN /\ resets < MaxResets /\ resets' = resets + 1
                     /\ rtc' = [r EXCEPT !.hangs = @ + 1]
                     /\ happened' = [happened EXCEPT !.hangs = @ + 1]
                     /\ mode' = "reset" /\ reason' = "software" /\ inARow' = 0
                ELSE /\ rtc' = r
                     /\ inARow' = IF up > Healthy THEN 0 ELSE inARow
                     /\ UNCHANGED <<mode, reason, resets, happened>>

-----------------------------------------------------------------------------
(* The end of a run, or of the download mode. *)

Reset(why) ==
    /\ resets < MaxResets /\ resets' = resets + 1
    /\ mode' = "reset" /\ reason' = why
    /\ UNCHANGED <<uptime, silent>>

Crash == \E why \in Crashes :
    /\ mode = "running" /\ Reset(why)
    /\ inARow' = inARow + 1 /\ sinceHealthy' = sinceHealthy + 1
    /\ happened' = IF why = "panic" THEN [happened EXCEPT !.faults = @ + 1]
                   ELSE [happened EXCEPT !.hangs = @ + 1]
    /\ UNCHANGED rtc

\* A restart by command, a change of mode, or the reset pin.
Restart == \E why \in {"software", "other"} :
    /\ mode # "reset" /\ Reset(why)
    /\ inARow' = 0
    /\ UNCHANGED <<rtc, sinceHealthy, happened>>

PowerLoss == \E why \in Cold :
    /\ Reset(why)
    /\ rtc' \in Garbage
    /\ inARow' = 0 /\ sinceHealthy' = 0 /\ happened' = None

Next == BootToRom \/ Boot \/ UsbAlive \/ Timer \/ Crash \/ Restart \/ PowerLoss

Spec == Init /\ [][Next]_vars

-----------------------------------------------------------------------------
(* Properties. *)

\* "Crash loop: drop into the ROM download mode so tools/flash.sh can recover
\* the dongle without the BOOT button" (main/bridge.c): never does the firmware
\* run again after three crashes in a row of runs that did not last.
CrashLoopEnds == mode = "running" => inARow < Streak

\* The download mode is left to crash loops: "consecutive crashes without 30 s
\* of healthy uptime".  No mixture of crashes, healthy runs, commanded restarts
\* and power cuts ends there otherwise.
RomOnlyForLoops ==
    [][mode = "reset" /\ mode' = "rom" => sinceHealthy >= Streak]_vars

\* "RTC crash counters survive supported warm resets, clear after
\* power-on/brownout" (docs/ADR-001.md): each hang and each panic since
\* power-on is counted, once.
TalliesTrue ==
    mode = "running" => /\ rtc.hangs = happened.hangs
                        /\ rtc.faults = happened.faults
=============================================================================
