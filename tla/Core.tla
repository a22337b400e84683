-------------------------------- MODULE Core --------------------------------
(***************************************************************************)
(* The pure rules of main/core.c that the control task decides by: which   *)
(* saved profile to join next, how long to wait before another attempt,    *)
(* and whether a candidate profile on trial is to be committed.            *)
(*                                                                         *)
(* A profile is its network and its priority; that its fields are well     *)
(* formed (profile_valid) is the membership in Profiles.  Times are in     *)
(* seconds, or any coarser unit a model chooses.                           *)
(***************************************************************************)
EXTENDS Integers, FiniteSets

CONSTANTS
    ProfileMax,     \* PROFILE_MAX, 8
    Profiles,       \* the valid profiles, records with a field priority
    NoProfile,      \* a slot whose ssid is empty
    TrialHold,      \* 10 s of association commit a candidate ...
    TrialLatest,    \* ... if they began at most 35 s into its trial ...
    TrialLimit,     \* ... which ends after 45 s
    RetryDoublings, \* the delay between attempts doubles 5 times from 1 s ...
    RetryMax        \* ... to 30 s

ASSUME CoreAssumption ==
    /\ ProfileMax \in Nat \ {0}
    /\ \A p \in Profiles : p.priority \in Nat
    /\ NoProfile \notin Profiles
    /\ TrialHold \in Nat \ {0} /\ TrialLatest \in Nat
    /\ TrialLimit = TrialHold + TrialLatest
    /\ RetryDoublings \in Nat /\ RetryMax \in Nat
    /\ \A n \in 0 .. RetryDoublings - 1 : 2 ^ n <= RetryMax

ProfileSlots == 0 .. ProfileMax - 1
NoSlot == -1

\* settings_t: the profiles, the preferred slot and the display settings.
Displays == 0 .. 1
Settings == [p : [ProfileSlots -> Profiles \cup {NoProfile}],
             preferred : ProfileSlots,
             display : Displays]

\* A saved profile not tried in this cycle.
Eligible(s, tried) == {i \in ProfileSlots : s.p[i] # NoProfile /\ i \notin tried}

\* policy_next: the preferred slot, else the highest priority, and of several
\* with that priority the first; NoSlot when there is none left.
PolicyNext(s, tried) ==
    LET E == Eligible(s, tried) IN
    IF s.preferred \in E THEN s.preferred
    ELSE IF E = {} THEN NoSlot
    ELSE CHOOSE i \in E : \A j \in E :
             \/ s.p[i].priority > s.p[j].priority
             \/ s.p[i].priority = s.p[j].priority /\ i <= j

\* retry_delay_ms.
RetryDelay(failures) ==
    IF failures >= RetryDoublings THEN RetryMax ELSE 2 ^ failures

\* Mutants of TrialDecision: an association of any length commits; a trial
\* that fails goes on for ever.
TrialDecisionHasty(now, started, since, associated) ==
    IF now < started THEN -1
    ELSE IF associated /\ since >= started /\ since - started <= TrialLatest THEN 1
    ELSE IF now - started >= TrialLimit THEN -1 ELSE 0
TrialDecisionEndless(now, started, since, associated) ==
    IF /\ associated /\ since >= started /\ since <= now
       /\ now - since >= TrialHold /\ since - started <= TrialLatest
    THEN 1 ELSE 0

\* trial_decision: 1 to commit, -1 to give up, 0 to wait.
TrialDecision(now, started, since, associated) ==
    IF now < started THEN -1
    ELSE IF /\ associated /\ since >= started /\ since <= now
            /\ now - since >= TrialHold /\ since - started <= TrialLatest
         THEN 1
    ELSE IF now - started >= TrialLimit THEN -1 ELSE 0
=============================================================================
