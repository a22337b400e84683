------------------------------ MODULE Control ------------------------------
(***************************************************************************)
(* The control task (main/control.c) and the settings it keeps in flash    *)
(* (main/settings.c).                                                      *)
(*                                                                         *)
(* It alone changes the settings, from commands the console, the portal    *)
(* and the button queue; it picks the profile to join, retries and rotates *)
(* while none can be joined, and puts a candidate that is to replace a     *)
(* saved profile on trial across a reboot.  Around it: power cuts at any   *)
(* moment, flash writes that fail, and a link that comes and goes.         *)
(*                                                                         *)
(* Of the link (module Link) the task sees bridge_connected_since_ms() and *)
(* acts on it through wifi_apply_creds(); both are here one step.          *)
(* Instants are kept as ages, each capped where the code stops telling     *)
(* them apart, so that a finite model runs for ever.                       *)
(***************************************************************************)
EXTENDS Core, Sequences

CONSTANTS
    NoConfig, Damaged,  \* the config key: missing, and unreadable or unknown
    NoCandidate,        \* the candidate key: missing
    WriteGap,           \* 2 s between saves
    JoinWindow,         \* 15 s to join before the retry delay begins
    MaxFailures,        \* failures saturate at 32
    SetupLimit,         \* setup closes after 600 s
    ResetWindow,        \* 10 s to confirm a reset
    QueueLen,           \* depth of the command queue, 4
    FlashFails,         \* may a read or a write of the flash fail?
    InitialConfigs,     \* what the flash may hold at first
    MaxCommands,        \* bound: commands submitted in one behaviour
    MaxResets           \* bound: power cuts, panics and watchdog resets

Candidates == [slot : ProfileSlots, p : Profiles]

ASSUME ControlAssumption ==
    /\ NoConfig \notin Settings /\ Damaged \notin Settings
    /\ NoConfig # Damaged /\ NoCandidate \notin Candidates
    /\ WriteGap \in Nat /\ JoinWindow \in Nat /\ MaxFailures \in Nat
    /\ SetupLimit \in Nat /\ ResetWindow \in Nat
    /\ QueueLen \in Nat \ {0} /\ FlashFails \in BOOLEAN
    /\ InitialConfigs \subseteq Settings \cup {NoConfig, Damaged}
    /\ MaxCommands \in Nat /\ MaxResets \in Nat

VARIABLES
    config, candidate,      \* the keys of NVS namespace "adapter"
    rtc,                    \* mode_next and mode_slot
    storeOk,                \* store_ok
    inSetup, setupSlot,     \* in_setup, setup_slot
    cfg,                    \* the task's copy of the settings
    trial, trialOf,         \* trial; trial_slot and candidate
    active, tried, failures,
    public,                 \* the published copy, as far as its readers act on it
    commands,               \* the queue
    pc,                     \* where the task is
    applied,                \* the profile last given to the Wi-Fi driver
    joining,                \* the driver is trying to associate
    echo,                   \* the event of an earlier association may be queued
    up, since,              \* s_connected, and s_connected_ms - trial_at
    trialAge,               \* now - trial_at
    writeAge,               \* now - last_write
    attemptAge,             \* now - attempt_at
    setupAge,               \* time since setup mode began
    resetLeft,              \* reset_until - now
    submitted, resets,      \* used up so far of the bounds
    span, held,             \* history: the trial's unbroken association, and
                            \* whether one lasted TrialHold
    tries                   \* history: trials of the candidate last staged

flash == <<config, candidate>>
mode == <<rtc, storeOk, inSetup, setupSlot>>
rotation == <<active, tried, failures>>
trialVars == <<trial, trialOf, trialAge>>
link == <<applied, joining, echo, up, since, span>>
clocks == <<writeAge, attemptAge, setupAge, resetLeft>>
bounds == <<submitted, resets>>
history == <<held, tries>>
vars == <<flash, mode, cfg, rotation, trialVars, public, commands, pc, link,
          clocks, bounds, history>>

Defaults == [p |-> [i \in ProfileSlots |-> NoProfile], preferred |-> 0,
             display |-> 0]

\* No retry takes longer to fall due.
Patience == JoinWindow + RetryMax

Commands ==
    [op : {"profile"}, slot : ProfileSlots, p : Profiles]
      \cup [op : {"use", "del"}, slot : ProfileSlots]
      \cup [op : {"setup"}, slot : ProfileSlots \cup {NoSlot}]
      \cup [op : {"display"}, display : Displays]
      \cup [op : {"cancel", "reset", "confirm-reset", "reboot", "bootloader"}]

ControlTypeOK ==
    /\ config \in Settings \cup {NoConfig, Damaged}
    /\ candidate \in Candidates \cup {NoCandidate}
    /\ rtc \in [next : 0 .. 2, slot : ProfileSlots \cup {NoSlot}]
    /\ storeOk \in BOOLEAN /\ inSetup \in BOOLEAN
    /\ setupSlot \in ProfileSlots \cup {NoSlot}
    /\ cfg \in Settings
    /\ trial \in BOOLEAN /\ trialOf \in Candidates \cup {NoCandidate}
    /\ active \in ProfileSlots \cup {NoSlot}
    /\ tried \subseteq ProfileSlots /\ failures \in 0 .. MaxFailures
    /\ public \in [setup : BOOLEAN, taken : SUBSET ProfileSlots]
    /\ commands \in Seq(Commands)
    /\ pc \in {"boot", "start", "top", "receive", "poll", "commit", "reboot"}
    /\ applied \in Profiles \cup {NoProfile}
    /\ joining \in BOOLEAN /\ echo \in BOOLEAN /\ up \in BOOLEAN
    /\ since \in 0 .. TrialLimit /\ trialAge \in 0 .. TrialLimit
    /\ writeAge \in 0 .. WriteGap /\ attemptAge \in 0 .. Patience
    /\ setupAge \in 0 .. SetupLimit /\ resetLeft \in 0 .. ResetWindow
    /\ submitted \in Nat /\ resets \in Nat
    /\ span \in 0 .. TrialHold /\ held \in BOOLEAN /\ tries \in Nat

-----------------------------------------------------------------------------
(* Restarting. *)

Rtc(m, i) == [next |-> m, slot |-> i]

Init ==
    /\ config \in InitialConfigs /\ candidate = NoCandidate
    /\ rtc = Rtc(0, NoSlot)
    /\ storeOk = TRUE /\ inSetup = FALSE /\ setupSlot = NoSlot
    /\ cfg = Defaults
    /\ trial = FALSE /\ trialOf = NoCandidate /\ trialAge = 0
    /\ active = NoSlot /\ tried = {} /\ failures = 0
    /\ public = [setup |-> FALSE, taken |-> {}]
    /\ commands = <<>> /\ pc = "boot"
    /\ applied = NoProfile /\ joining = FALSE /\ echo = FALSE
    /\ up = FALSE /\ since = 0
    /\ writeAge = 0 /\ attemptAge = 0 /\ setupAge = 0 /\ resetLeft = 0
    /\ submitted = 0 /\ resets = 0
    /\ span = 0 /\ held = FALSE /\ tries = 0

\* Everything in RAM is lost.  Of the RTC memory, the mode survives only the
\* restart it was set for.
Restart(m, i) ==
    /\ rtc' = Rtc(m, i)
    /\ storeOk' = TRUE /\ inSetup' = FALSE /\ setupSlot' = NoSlot
    /\ cfg' = Defaults
    /\ trial' = FALSE /\ trialOf' = NoCandidate /\ trialAge' = 0
    /\ active' = NoSlot /\ tried' = {} /\ failures' = 0
    /\ public' = [setup |-> FALSE, taken |-> {}]
    /\ commands' = <<>> /\ pc' = "boot"
    /\ applied' = NoProfile /\ joining' = FALSE /\ echo' = FALSE
    /\ up' = FALSE /\ since' = 0
    /\ writeAge' = 0 /\ attemptAge' = 0 /\ setupAge' = 0 /\ resetLeft' = 0
    /\ span' = 0 /\ held' = FALSE
    /\ UNCHANGED submitted

SetupReboot(enter, i) ==
    Restart(IF enter THEN 1 ELSE 2, i) /\ UNCHANGED <<resets, tries>>

\* A power cut, a panic or a watchdog reset: the mode is not honoured.
Crash ==
    /\ resets < MaxResets
    /\ resets' = resets + 1
    /\ Restart(0, NoSlot)
    /\ UNCHANGED <<flash, tries>>

-----------------------------------------------------------------------------
(* Flash.  A write takes effect at the commit or not at all.                *)

Trouble == IF FlashFails THEN BOOLEAN ELSE {FALSE}

\* settings_load; settings that cannot be read are not to be overwritten.
Loaded(error) == IF error \/ config \in {NoConfig, Damaged} THEN Defaults
                 ELSE config
LoadedOk(error) == storeOk /\ ~error /\ config # Damaged

\* settings_save by way of persist, with the caller's copy updated only if it
\* succeeds.
Save(new) ==
    /\ writeAge >= WriteGap /\ storeOk
    /\ config' = new /\ cfg' = new
    /\ writeAge' = 0

\* Mutant of Refuse: the change stays in the task's copy.
RefuseKeeping(new) ==
    /\ writeAge < WriteGap \/ ~storeOk \/ FlashFails
    /\ cfg' = new
    /\ UNCHANGED <<config, writeAge>>

\* Too soon after the last save, a store not to be overwritten, or an error.
Refuse(new) ==
    /\ writeAge < WriteGap \/ ~storeOk \/ FlashFails
    /\ UNCHANGED <<config, cfg, writeAge>>

-----------------------------------------------------------------------------
(* The link. *)

\* join(): wifi_apply_creds ends what was there and may fail to start the new
\* attempt.  An association made just before may not have been reported yet.
Join(i, q) ==
    /\ active' = i /\ applied' = q
    /\ attemptAge' = 0
    /\ joining' \in (IF q = NoProfile THEN {FALSE} ELSE BOOLEAN)
    /\ echo' = (echo \/ joining)
    /\ up' = FALSE /\ span' = 0
    /\ UNCHANGED since

ProfileAt(s, i) == IF i = NoSlot THEN NoProfile ELSE s.p[i]

\* join(policy_next(&cfg, t)) with the copy c.
JoinNext(c, t) == LET i == PolicyNext(c, t) IN Join(i, ProfileAt(c, i))

\* The driver reports an association: the one asked for, an earlier one, or
\* that it has roamed.
LinkUp ==
    /\ \/ joining /\ joining' = FALSE /\ UNCHANGED echo
       \/ echo /\ echo' = FALSE /\ UNCHANGED joining
       \/ up /\ UNCHANGED <<joining, echo>>
    /\ up' = TRUE /\ since' = trialAge /\ span' = 0
    /\ UNCHANGED <<flash, mode, cfg, rotation, trialVars, public, commands, pc,
                   applied, clocks, bounds, history>>

\* It reports a disconnection, or that the attempt failed.
LinkDown ==
    /\ up \/ joining
    /\ up' = FALSE /\ span' = 0
    /\ joining' = (joining /\ up)
    /\ UNCHANGED <<flash, mode, cfg, rotation, trialVars, public, commands, pc,
                   applied, echo, since, clocks, bounds, history>>

-----------------------------------------------------------------------------
(* Time.  A clock that nobody will read before it is set again stands still. *)

\* Mutant of Aged: without the cap.
AgedOn(age, limit) == age + 1
Aged(age, limit) == IF age < limit THEN age + 1 ELSE age

Tick ==
    /\ trialAge' = IF trial THEN Aged(trialAge, TrialLimit) ELSE trialAge
    /\ writeAge' = Aged(writeAge, WriteGap)
    /\ attemptAge' = IF inSetup \/ trial \/ active = NoSlot THEN attemptAge
                     ELSE Aged(attemptAge, Patience)
    /\ setupAge' = IF inSetup THEN Aged(setupAge, SetupLimit) ELSE setupAge
    /\ resetLeft' = IF resetLeft > 0 THEN resetLeft - 1 ELSE 0
    /\ span' = IF trial /\ up THEN Aged(span, TrialHold) ELSE span
    /\ held' = (held \/ (trial /\ span' = TrialHold))
    /\ UNCHANGED <<flash, mode, cfg, rotation, trial, trialOf, public, commands,
                   pc, applied, joining, echo, up, since, bounds, tries>>

-----------------------------------------------------------------------------
(* From app_main to the loop of task(). *)

\* setup_requested, control_init.
Boot ==
    /\ pc = "boot"
    /\ \E error \in Trouble :
          /\ storeOk' = LoadedOk(error)
          /\ inSetup' = (\/ rtc.next = 1
                         \/ /\ rtc.next # 2 /\ storeOk'
                            /\ PolicyNext(Loaded(error), {}) = NoSlot)
    /\ setupSlot' = IF rtc.next = 1 THEN rtc.slot ELSE NoSlot
    /\ rtc' = Rtc(0, NoSlot)
    /\ pc' = "start"
    /\ UNCHANGED <<flash, cfg, rotation, trialVars, public, commands, link,
                   clocks, bounds, history>>

LoadCfg == \E error \in Trouble :
              cfg' = Loaded(error) /\ storeOk' = LoadedOk(error)

StartSetup ==
    /\ pc = "start" /\ inSetup
    /\ LoadCfg
    /\ setupAge' = 0
    /\ pc' = "top"
    /\ UNCHANGED <<flash, rtc, inSetup, setupSlot, rotation, trialVars, public,
                   commands, link, writeAge, attemptAge, resetLeft, bounds,
                   history>>

\* Mutant of TakeCandidate: it stays in flash.
TakeCandidateKeeping == candidate # NoCandidate /\ UNCHANGED candidate
\* settings_take_candidate, when it succeeds.
TakeCandidate == candidate # NoCandidate /\ candidate' = NoCandidate

\* When it finds none or fails: reading, erasing or committing.
NoTrial ==
    \/ candidate = NoCandidate /\ UNCHANGED candidate
    \/ FlashFails /\ candidate' \in {candidate, NoCandidate}

StartTrial ==
    /\ pc = "start" /\ ~inSetup
    /\ LoadCfg
    /\ TakeCandidate
    /\ trial' = TRUE /\ trialOf' = candidate /\ trialAge' = 0
    /\ Join(candidate.slot, candidate.p)
    /\ held' = FALSE /\ tries' = tries + 1
    /\ pc' = "top"
    /\ UNCHANGED <<config, rtc, inSetup, setupSlot, tried, failures, public,
                   commands, writeAge, setupAge, resetLeft, bounds>>

StartNormal ==
    /\ pc = "start" /\ ~inSetup
    /\ LoadCfg
    /\ NoTrial
    /\ JoinNext(cfg', {})
    /\ pc' = "top"
    /\ UNCHANGED <<config, rtc, inSetup, setupSlot, tried, failures, trialVars,
                   public, commands, writeAge, setupAge, resetLeft, bounds,
                   history>>

-----------------------------------------------------------------------------
(* Commands, from the console, the portal and the button. *)

\* control_submit; with the queue full it refuses.
Submit ==
    /\ pc # "boot"
    /\ submitted < MaxCommands /\ Len(commands) < QueueLen
    /\ \E c \in Commands : commands' = Append(commands, c)
    /\ submitted' = submitted + 1
    /\ UNCHANGED <<flash, mode, cfg, rotation, trialVars, public, pc, link,
                   clocks, resets, history>>

Taken(s) == {i \in ProfileSlots : s.p[i] # NoProfile}

\* publish: during a trial the candidate shows in its slot.
Publish ==
    /\ pc = "top"
    /\ public' = [setup |-> inSetup,
                  taken |-> Taken(cfg) \cup (IF trial THEN {trialOf.slot} ELSE {})]
    /\ pc' = "receive"
    /\ UNCHANGED <<flash, mode, cfg, rotation, trialVars, commands, link,
                   clocks, bounds, history>>

NoCommand ==
    /\ pc = "receive" /\ commands = <<>>
    /\ pc' = "poll"
    /\ UNCHANGED <<flash, mode, cfg, rotation, trialVars, public, commands,
                   link, clocks, bounds, history>>

\* The command the task has received.
Received == IF pc = "receive" /\ commands # <<>> THEN {Head(commands)} ELSE {}

Drop == commands' = Tail(commands)
Done == pc' = "poll"

With(s, i, q) == [s EXCEPT !.p[i] = q]

\* stage_json in setup, for a slot that is empty.
WithNew(s, i, q) ==
    LET t == With(s, i, q)
    IN  IF t.p[t.preferred] = NoProfile THEN [t EXCEPT !.preferred = i] ELSE t

Direct(i) == inSetup /\ cfg.p[i] = NoProfile

HandleAdd(c) ==
    /\ c.op = "profile" /\ Drop
    /\ ~trial /\ Direct(c.slot)
    /\ Save(WithNew(cfg, c.slot, c.p)) \/ Refuse(WithNew(cfg, c.slot, c.p))
    /\ Done
    /\ UNCHANGED <<candidate, mode, rotation, trialVars, public, link,
                   attemptAge, setupAge, resetLeft, bounds, history>>

\* stage_json otherwise, with settings_stage; then the wait before the restart.
HandleStage(c) ==
    /\ c.op = "profile" /\ Drop
    /\ ~trial /\ ~Direct(c.slot)
    /\ \/ /\ storeOk
          /\ candidate' = [slot |-> c.slot, p |-> c.p] /\ tries' = 0
          /\ pc' = "reboot"
       \/ /\ ~storeOk \/ FlashFails
          /\ UNCHANGED <<candidate, tries>>
          /\ Done
    /\ UNCHANGED <<config, mode, cfg, rotation, trialVars, public, link,
                   clocks, bounds, held>>

RebootToTrial ==
    /\ pc = "reboot"
    /\ SetupReboot(FALSE, NoSlot)
    /\ UNCHANGED flash

HandleUse(c) ==
    /\ c.op = "use" /\ Drop
    /\ cfg.p[c.slot] # NoProfile /\ ~inSetup /\ ~trial
    /\ LET new == [cfg EXCEPT !.preferred = c.slot] IN
       \/ Save(new) /\ tried' = {} /\ failures' = 0
             /\ Join(c.slot, cfg.p[c.slot])
       \/ Refuse(new) /\ UNCHANGED <<rotation, link, attemptAge>>
    /\ Done
    /\ UNCHANGED <<candidate, mode, trialVars, public, setupAge, resetLeft,
                   bounds, history>>

\* Mutant of MustLeave: the deleted network is left connected.
MustLeaveNot(i) == FALSE
\* The profile deleted is the one being joined or used.
MustLeave(i) == i = active /\ ~inSetup

HandleDel(c) ==
    /\ c.op = "del" /\ Drop
    /\ ~trial
    /\ LET new == With(cfg, c.slot, NoProfile) IN
       \/ Save(new) /\ UNCHANGED <<tried, failures>>
             /\ IF MustLeave(c.slot) THEN JoinNext(new, {})
                ELSE UNCHANGED <<active, link, attemptAge>>
       \/ Refuse(new) /\ UNCHANGED <<rotation, link, attemptAge>>
    /\ Done
    /\ UNCHANGED <<candidate, mode, trialVars, public, setupAge, resetLeft,
                   bounds, history>>

HandleDisplay(c) ==
    /\ c.op = "display" /\ Drop
    /\ LET new == [cfg EXCEPT !.display = c.display] IN Save(new) \/ Refuse(new)
    /\ Done
    /\ UNCHANGED <<candidate, mode, rotation, trialVars, public, link,
                   attemptAge, setupAge, resetLeft, bounds, history>>

\* In setup, another preselection for the page; else into setup by a restart.
HandlePreselect(c) ==
    /\ c.op = "setup" /\ Drop
    /\ inSetup
    /\ setupSlot' = c.slot
    /\ Done
    /\ UNCHANGED <<flash, rtc, storeOk, inSetup, cfg, rotation, trialVars,
                   public, link, clocks, bounds, history>>

HandleSetup(c) ==
    /\ c.op = "setup"
    /\ ~inSetup /\ ~trial
    /\ SetupReboot(TRUE, c.slot)
    /\ UNCHANGED flash

HandleCancel(c) ==
    /\ c.op = "cancel"
    /\ SetupReboot(FALSE, NoSlot)
    /\ UNCHANGED flash

HandleReset(c) ==
    /\ c.op = "reset" /\ Drop
    /\ resetLeft' = ResetWindow
    /\ Done
    /\ UNCHANGED <<flash, mode, cfg, rotation, trialVars, public, link,
                   writeAge, attemptAge, setupAge, bounds, history>>

\* confirm-reset in time, and settings_reset.
HandleErase(c) ==
    /\ c.op = "confirm-reset"
    /\ resetLeft > 0
    /\ config' = NoConfig /\ candidate' = NoCandidate
    /\ SetupReboot(TRUE, NoSlot)

HandleEraseFails(c) ==
    /\ c.op = "confirm-reset" /\ Drop
    /\ resetLeft > 0 /\ FlashFails
    /\ resetLeft' = 0
    /\ Done
    /\ UNCHANGED <<flash, mode, cfg, rotation, trialVars, public, link,
                   writeAge, attemptAge, setupAge, bounds, history>>

HandleReboot(c) ==
    /\ c.op \in {"reboot", "bootloader"}
    /\ Restart(0, NoSlot)
    /\ UNCHANGED <<flash, resets, tries>>

\* What is answered with an error and changes nothing.
HandleRefused(c) ==
    /\ Drop
    /\ \/ c.op \in {"profile", "del"} /\ trial
       \/ c.op = "use" /\ (cfg.p[c.slot] = NoProfile \/ inSetup \/ trial)
       \/ c.op = "setup" /\ ~inSetup /\ trial
       \/ c.op = "confirm-reset" /\ resetLeft = 0
    /\ Done
    /\ UNCHANGED <<flash, mode, cfg, rotation, trialVars, public, link,
                   clocks, bounds, history>>

Handle == \E c \in Received :
    \/ HandleAdd(c) \/ HandleStage(c) \/ HandleUse(c) \/ HandleDel(c)
    \/ HandleDisplay(c) \/ HandlePreselect(c) \/ HandleSetup(c)
    \/ HandleCancel(c) \/ HandleReset(c) \/ HandleErase(c)
    \/ HandleEraseFails(c) \/ HandleReboot(c) \/ HandleRefused(c)

-----------------------------------------------------------------------------
(* The rest of the loop. *)

SetupOver == setupAge >= SetupLimit

PollSetup ==
    /\ pc = "poll" /\ inSetup
    /\ IF SetupOver
         THEN SetupReboot(FALSE, NoSlot)
         ELSE /\ pc' = "top"
              /\ UNCHANGED <<mode, cfg, rotation, trialVars, public, commands,
                             link, clocks, bounds, history>>
    /\ UNCHANGED flash

Polling == pc = "poll" /\ ~inSetup
Decision == IF trial THEN TrialDecision(trialAge, 0, since, up) ELSE 0

PollTrialFails ==
    /\ Polling /\ Decision < 0
    /\ trial' = FALSE /\ trialOf' = NoCandidate
    /\ JoinNext(cfg, {})
    /\ pc' = "top"
    /\ UNCHANGED <<flash, mode, cfg, tried, failures, trialAge, public,
                   commands, writeAge, setupAge, resetLeft, bounds, history>>

\* The commit is decided ...
PollTrialHolds ==
    /\ Polling /\ up /\ Decision = 1
    /\ pc' = "commit"
    /\ UNCHANGED <<flash, mode, cfg, rotation, trialVars, public, commands,
                   link, clocks, bounds, history>>

\* ... and made, whatever the link has done since.
Committed == [With(cfg, trialOf.slot, trialOf.p) EXCEPT !.preferred = trialOf.slot]

Commit ==
    /\ pc = "commit"
    /\ \/ Save(Committed) /\ attemptAge' = 0 /\ UNCHANGED <<active, link>>
       \/ Refuse(Committed) /\ JoinNext(cfg, {})
    /\ trial' = FALSE /\ trialOf' = NoCandidate
    /\ tried' = {} /\ failures' = 0
    /\ pc' = "top"
    /\ UNCHANGED <<candidate, mode, trialAge, public, commands, setupAge,
                   resetLeft, bounds, history>>

\* A healthy link is left alone.
PollHealthy ==
    /\ Polling /\ up /\ Decision = 0
    /\ tried' = {} /\ failures' = 0 /\ attemptAge' = 0
    /\ pc' = "top"
    /\ UNCHANGED <<flash, mode, cfg, active, trialVars, public, commands, link,
                   writeAge, setupAge, resetLeft, bounds, history>>

RetryDue == /\ ~trial /\ active # NoSlot
            /\ attemptAge >= JoinWindow + RetryDelay(failures)

PollWait ==
    /\ Polling /\ ~up /\ Decision = 0 /\ ~RetryDue
    /\ pc' = "top"
    /\ UNCHANGED <<flash, mode, cfg, rotation, trialVars, public, commands,
                   link, clocks, bounds, history>>

\* Mutant of NowTried: the slot that failed is not remembered.
NowTriedNot == tried
NowTried == tried \cup {active}

\* The next untried profile, or the first one again and a longer delay.
PollRetry ==
    /\ Polling /\ ~up /\ RetryDue
    /\ IF PolicyNext(cfg, NowTried) # NoSlot
         THEN /\ tried' = NowTried /\ UNCHANGED failures
              /\ JoinNext(cfg, NowTried)
         ELSE /\ tried' = {}
              /\ failures' = IF failures < MaxFailures THEN failures + 1
                             ELSE failures
              /\ JoinNext(cfg, {})
    /\ pc' = "top"
    /\ UNCHANGED <<flash, mode, cfg, trialVars, public, commands, writeAge,
                   setupAge, resetLeft, bounds, history>>

Loop == \/ Publish \/ NoCommand \/ Handle \/ RebootToTrial
        \/ PollSetup \/ PollTrialFails \/ PollTrialHolds \/ Commit
        \/ PollHealthy \/ PollWait \/ PollRetry

Task == Boot \/ StartSetup \/ StartTrial \/ StartNormal \/ Loop

Next == Task \/ Submit \/ LinkUp \/ LinkDown \/ Tick \/ Crash

\* The task runs (a watchdog restarts the device if it does not) and time
\* passes; nothing is assumed of the access points or of the user.
Spec == Init /\ [][Next]_vars /\ WF_vars(Task) /\ WF_vars(Tick)

-----------------------------------------------------------------------------
(* Properties. *)

Running == pc \notin {"boot", "start"}

\* The task answers from its own copy of the settings and every save writes the
\* whole of it.  As long as it may write, that copy is what is in flash: a
\* change that was refused is gone, and does not ride along with the next save.
RamIsFlash ==
    Running /\ storeOk =>
        cfg = IF config = NoConfig THEN Defaults ELSE config

\* Whatever was deleted, refused, tried out or given up in between, the Wi-Fi
\* driver is working for the profile the task calls active, and that profile is
\* saved, or is the candidate on trial.
AppliedIsSaved ==
    Running /\ ~inSetup =>
        /\ applied = IF trial THEN trialOf.p ELSE ProfileAt(cfg, active)
        /\ active # NoSlot => applied # NoProfile

\* "The candidate is consumed from NVS before applying it" (docs/ADR-001.md):
\* however often the device restarts, a staged candidate is tried once.
CandidateTriedOnce == tries <= 1

\* "An interrupted candidate trial cannot overwrite the original profile", "on
\* commit failure the old configuration is restored", "unknown/corrupt schema
\* is protected against overwrite" (docs): the flash is a ProfileStore.
Store == INSTANCE ProfileStore
            WITH store <- config,
                 proven <- IF trial /\ held THEN {trialOf} ELSE {}
ImplementsStore == Store!StoreSpec

\* "Candidate must achieve ten continuous seconds association within 45
\* seconds; failure reverts" (docs/ACCEPTANCE.md): a trial does not go on.
TrialEnds == trial ~> ~trial

\* "Once all slots are exhausted the cycle repeats" (docs/REFERENCE.md): while
\* nothing can be joined, every saved profile is tried again and again.
EverySavedTried ==
    \A i \in ProfileSlots :
        <>[](Running /\ ~inSetup /\ ~trial /\ ~up /\ cfg.p[i] # NoProfile)
            => []<>(active = i)

\* "Ten continuous seconds associated commits the replacement"
\* (docs/REFERENCE.md): a commit that was decided is made.
StableTrialCommits ==
    [][pc = "commit" /\ pc' = "top" => config' = Committed]_vars
=============================================================================
