---------------------------- MODULE ControlProofs ----------------------------
(***************************************************************************)
(* Proofs about the control task and the settings it keeps in flash, for   *)
(* any number of slots and profiles, any deadlines, any length of the      *)
(* queue and any number of commands and power cuts.                        *)
(***************************************************************************)
EXTENDS Control, FiniteSetTheorems, WellFoundedInduction, TLAPS

-----------------------------------------------------------------------------
(* policy_next. *)

\* Of finitely many slots there is one that no other beats: the fewest of them
\* beat it, and whatever beat it would be beaten by fewer.
LEMMA BestExists ==
    ASSUME NEW s \in Settings, NEW E \in SUBSET ProfileSlots, E # {},
           \A i \in E : s.p[i] # NoProfile
    PROVE  \E i \in E : \A j \in E :
               \/ s.p[i].priority > s.p[j].priority
               \/ s.p[i].priority = s.p[j].priority /\ i <= j
<1> DEFINE rank(i) == s.p[i].priority
           Beats(j, i) == rank(j) > rank(i) \/ (rank(j) = rank(i) /\ j < i)
           Better(i) == {j \in E : Beats(j, i)}
           Counts == {Cardinality(Better(i)) : i \in E}
<1>1. \A i \in E : i \in Nat /\ rank(i) \in Nat
  <2>1. \A i \in E : i \in ProfileSlots /\ s.p[i] \in Profiles
    BY DEF Settings
  <2> QED BY <2>1, CoreAssumption DEF ProfileSlots
<1>2. IsFiniteSet(E)
  <2>1. IsFiniteSet(ProfileSlots)
    BY CoreAssumption, FS_Interval DEF ProfileSlots
  <2> QED BY <2>1, FS_Subset
<1>3. \A i \in E : IsFiniteSet(Better(i)) /\ Cardinality(Better(i)) \in Nat
    BY <1>2, FS_Subset, FS_CardinalityType
<1>4. PICK i \in E : \A j \in E : ~(Cardinality(Better(j)) < Cardinality(Better(i)))
  <2>1. Counts \subseteq Nat /\ Counts # {}
    BY <1>3
  <2>2. PICK n \in Counts : \A m \in Counts : ~(<<m, n>> \in OpToRel(<, Nat))
    BY <2>1, NatLessThanWellFounded, WFMin
  <2>3. \A m, n_1 \in Nat : m < n_1 => <<m, n_1>> \in OpToRel(<, Nat)
    BY DEF OpToRel
  <2> QED BY <2>1, <2>2, <2>3
<1>5. ASSUME NEW j \in E, Beats(j, i)
      PROVE  FALSE
  <2>1. Better(j) \subseteq Better(i)
    <3>1. ASSUME NEW k \in E, Beats(k, j) PROVE Beats(k, i)
      BY <1>1, <1>5, <3>1
    <3> QED BY <3>1
  <2>2. j \in Better(i) /\ j \notin Better(j)
    BY <1>1, <1>5
  <2>3. Cardinality(Better(j)) <= Cardinality(Better(i))
    BY <1>3, <2>1, FS_Subset
  <2>4. Cardinality(Better(j)) # Cardinality(Better(i))
    BY <1>3, <2>1, <2>2, FS_Subset
  <2> HIDE DEF Better
  <2> QED BY <1>3, <1>4, <2>3, <2>4
<1>6. \A j \in E : ~Beats(j, i)
    BY <1>5
<1> QED BY <1>1, <1>6

\* policy_next gives a saved profile that was not tried whenever there is one.
LEMMA PolicyPicks ==
    ASSUME NEW s \in Settings, NEW t
    PROVE  /\ Eligible(s, t) # {} => PolicyNext(s, t) \in Eligible(s, t)
           /\ Eligible(s, t) = {} => PolicyNext(s, t) = NoSlot
<1> DEFINE E == Eligible(s, t)
<1>1. E \in SUBSET ProfileSlots /\ \A i \in E : s.p[i] # NoProfile
    BY DEF Eligible
<1>2. CASE E = {}
    BY <1>2 DEF PolicyNext
<1>3. CASE E # {}
    BY <1>1, <1>3, BestExists DEF PolicyNext
<1> QED BY <1>2, <1>3

\* So what the task joins next is a saved profile, or nothing at all.
LEMMA PolicyJoins ==
    ASSUME NEW s \in Settings, NEW t
    PROVE  /\ PolicyNext(s, t) \in ProfileSlots \cup {NoSlot}
           /\ ProfileAt(s, PolicyNext(s, t)) \in Profiles \cup {NoProfile}
           /\ PolicyNext(s, t) # NoSlot => ProfileAt(s, PolicyNext(s, t)) # NoProfile
<1>1. NoSlot \notin ProfileSlots
    BY DEF NoSlot, ProfileSlots
<1>2. \A i \in Eligible(s, t) : i \in ProfileSlots /\ s.p[i] \in Profiles
                                  /\ s.p[i] # NoProfile
    BY CoreAssumption DEF Eligible, Settings
<1> QED BY <1>1, <1>2, PolicyPicks DEF ProfileAt

-----------------------------------------------------------------------------
(* Types. *)

\* The settings of a fresh device are settings, and no profile is at no slot.
LEMMA DefaultsTyped ==
    /\ Defaults \in Settings
    /\ 0 \in ProfileSlots /\ NoSlot \notin ProfileSlots
    /\ ProfileAt(Defaults, NoSlot) = NoProfile
    BY CoreAssumption DEF Defaults, Settings, Displays, ProfileSlots, NoSlot,
       ProfileAt

\* What a command carries.
LEMMA CommandFields ==
    ASSUME NEW c \in Commands
    PROVE  /\ c.op = "profile" => c.slot \in ProfileSlots /\ c.p \in Profiles
           /\ c.op \in {"use", "del"} => c.slot \in ProfileSlots
           /\ c.op = "setup" => c.slot \in ProfileSlots \cup {NoSlot}
           /\ c.op = "display" => c.display \in Displays
    BY DEF Commands

\* What is taken from the queue is a command, and leaves a queue of commands.
LEMMA ReceivedTyped ==
    ASSUME ControlTypeOK, NEW c \in Received
    PROVE  c \in Commands /\ Tail(commands) \in Seq(Commands) /\ pc = "receive"
<1>1. commands \in Seq(Commands) /\ commands # <<>> /\ c = Head(commands)
        /\ pc = "receive"
    BY DEF ControlTypeOK, Received
<1> QED BY <1>1

\* The settings the commands make of settings.
LEMMA SettingsMade ==
    ASSUME NEW s \in Settings, NEW i \in ProfileSlots, NEW p \in Profiles,
           NEW d \in Displays
    PROVE  /\ With(s, i, NoProfile) \in Settings /\ With(s, i, p) \in Settings
           /\ WithNew(s, i, p) \in Settings
           /\ [s EXCEPT !.preferred = i] \in Settings
           /\ [s EXCEPT !.display = d] \in Settings
           /\ [With(s, i, p) EXCEPT !.preferred = i] \in Settings
    BY DEF Settings, With, WithNew

\* What settings_load makes of flash is settings, whatever the read comes to.
LEMMA LoadedTyped ==
    ASSUME ControlTypeOK, NEW error \in BOOLEAN
    PROVE  Loaded(error) \in Settings /\ LoadedOk(error) \in BOOLEAN
    BY DefaultsTyped DEF ControlTypeOK, Loaded, LoadedOk

\* Whether a read or a write fails is a truth value.
LEMMA TroubleTyped == Trouble \subseteq BOOLEAN
    BY DEF Trouble

\* A clock that grew older stays within its limit.
LEMMA AgedTyped ==
    ASSUME NEW limit \in Nat, NEW age \in 0 .. limit
    PROVE  Aged(age, limit) \in 0 .. limit
    BY DEF Aged

\* The limits are natural numbers.
LEMMA ConstantsTyped ==
    /\ TrialLimit \in Nat /\ TrialHold \in Nat /\ Patience \in Nat
    /\ WriteGap \in Nat /\ SetupLimit \in Nat /\ ResetWindow \in Nat
    /\ MaxFailures \in Nat
    BY CoreAssumption, ControlAssumption DEF Patience

\* A clock may be set to zero.
LEMMA ZeroTyped ==
    /\ 0 \in 0 .. Patience /\ 0 \in 0 .. WriteGap /\ 0 \in 0 .. SetupLimit
    /\ 0 \in 0 .. TrialLimit /\ 0 \in 0 .. MaxFailures /\ 0 \in 0 .. TrialHold
    BY ConstantsTyped

\* A restart begins with everything in RAM as at power-on.
LEMMA RestartTyped ==
    ASSUME ControlTypeOK, NEW m \in 0 .. 2, NEW i \in ProfileSlots \cup {NoSlot},
           Restart(m, i),
           config' \in Settings \cup {NoConfig, Damaged},
           candidate' \in Candidates \cup {NoCandidate},
           tries' \in Nat, resets' \in Nat
    PROVE  ControlTypeOK'
<1>1. <<>> \in Seq(Commands)
    OBVIOUS
<1>2. rtc' \in [next : 0 .. 2, slot : ProfileSlots \cup {NoSlot}]
    BY DEF Restart, Rtc
<1>3. public' \in [setup : BOOLEAN, taken : SUBSET ProfileSlots]
    BY DEF Restart
<1>4. /\ trialAge' \in 0 .. TrialLimit /\ since' \in 0 .. TrialLimit
      /\ writeAge' \in 0 .. WriteGap /\ attemptAge' \in 0 .. Patience
      /\ setupAge' \in 0 .. SetupLimit /\ resetLeft' \in 0 .. ResetWindow
      /\ span' \in 0 .. TrialHold /\ failures' \in 0 .. MaxFailures
    BY ConstantsTyped DEF Restart
<1> QED BY <1>1, <1>2, <1>3, <1>4, DefaultsTyped DEF ControlTypeOK, Restart

\* A reboot for setup, or out of it, keeps the types.
LEMMA SetupRebootTyped ==
    ASSUME ControlTypeOK, NEW enter \in BOOLEAN,
           NEW i \in ProfileSlots \cup {NoSlot}, SetupReboot(enter, i),
           config' \in Settings \cup {NoConfig, Damaged},
           candidate' \in Candidates \cup {NoCandidate}
    PROVE  ControlTypeOK'
<1>1. /\ Restart(IF enter THEN 1 ELSE 2, i)
      /\ tries' = tries /\ resets' = resets
      /\ tries \in Nat /\ resets \in Nat
    BY DEF SetupReboot, ControlTypeOK
<1>2. (IF enter THEN 1 ELSE 2) \in 0 .. 2
    OBVIOUS
<1> QED BY <1>1, <1>2, RestartTyped

\* What a command's handler may leave alone.
LEMMA SavedTyped ==
    ASSUME ControlTypeOK, NEW s \in Settings, Save(s) \/ Refuse(s)
    PROVE  /\ config' \in Settings \cup {NoConfig, Damaged}
           /\ cfg' \in Settings /\ writeAge' \in 0 .. WriteGap
    BY ConstantsTyped DEF ControlTypeOK, Save, Refuse

\* What joining a profile, or nothing, changes.
JoinTypes ==
    /\ active \in ProfileSlots \cup {NoSlot}
    /\ applied \in Profiles \cup {NoProfile}
    /\ attemptAge \in 0 .. Patience
    /\ joining \in BOOLEAN /\ echo \in BOOLEAN /\ up \in BOOLEAN
    /\ since \in 0 .. TrialLimit /\ span \in 0 .. TrialHold

\* Joining a profile, or none, keeps the types.
LEMMA JoinTyped ==
    ASSUME ControlTypeOK, NEW i \in ProfileSlots \cup {NoSlot},
           NEW q \in Profiles \cup {NoProfile}, Join(i, q)
    PROVE  JoinTypes'
<1>1. joining' \in BOOLEAN
    BY DEF Join
<1>2. echo' \in BOOLEAN
    BY Zenon DEF ControlTypeOK, Join
<1> QED BY <1>1, <1>2, ZeroTyped DEF ControlTypeOK, Join, JoinTypes

\* So does joining whatever the policy picks.
LEMMA JoinNextTyped ==
    ASSUME ControlTypeOK, NEW s \in Settings, NEW t, JoinNext(s, t)
    PROVE  JoinTypes'
    BY PolicyJoins, JoinTyped DEF JoinNext

\* It joins a saved profile if there is one left.
LEMMA JoinNextApplies ==
    ASSUME NEW s \in Settings, NEW t, JoinNext(s, t)
    PROVE  /\ applied' = ProfileAt(s, active')
           /\ active' # NoSlot => applied' # NoProfile
           /\ up' = FALSE /\ span' = 0
    BY PolicyJoins DEF JoinNext, Join

\* A trial is of a candidate, which is what the task is joined to; and only a
\* candidate that held is committed.
TrialInv ==
    /\ trial <=> trialOf # NoCandidate
    /\ trial => Running /\ ~inSetup /\ active = trialOf.slot
    /\ pc = "commit" => trial /\ held

\* Every step keeps the types.
LEMMA ControlTypesStep ==
    ASSUME ControlTypeOK, TrialInv, [Next]_vars
    PROVE  ControlTypeOK'
<1> USE DEF flash, mode, rotation, trialVars, link, clocks, bounds, history
<1>1. CASE Boot
  <2>1. storeOk' \in BOOLEAN /\ inSetup' \in BOOLEAN
    <3>1. PICK error \in Trouble : /\ storeOk' = LoadedOk(error)
                                   /\ inSetup' \in BOOLEAN
      BY <1>1 DEF Boot
    <3> QED BY <3>1, TroubleTyped, LoadedTyped
  <2>2. /\ setupSlot' \in ProfileSlots \cup {NoSlot}
        /\ rtc' \in [next : 0 .. 2, slot : ProfileSlots \cup {NoSlot}]
    BY <1>1 DEF Boot, Rtc, ControlTypeOK
  <2> QED BY <1>1, <2>1, <2>2 DEF Boot, ControlTypeOK
<1>2. ASSUME LoadCfg PROVE cfg' \in Settings /\ storeOk' \in BOOLEAN
  BY <1>2, TroubleTyped, LoadedTyped DEF LoadCfg
<1>3. CASE StartSetup
  BY <1>2, <1>3, ZeroTyped DEF StartSetup, ControlTypeOK
<1>4. CASE StartTrial
  <2>1. candidate \in Candidates
    BY <1>4 DEF StartTrial, TakeCandidate, ControlTypeOK
  <2>2. candidate.slot \in ProfileSlots /\ candidate.p \in Profiles
    BY <2>1 DEF Candidates
  <2>3. JoinTypes'
    BY <1>4, <2>2, JoinTyped DEF StartTrial
  <2>4. candidate' \in Candidates \cup {NoCandidate}
    BY <1>4 DEF StartTrial, TakeCandidate
  <2>5. tries' \in Nat
    BY <1>4 DEF StartTrial, ControlTypeOK
  <2> QED BY <1>2, <1>4, <2>1, <2>3, <2>4, <2>5, ZeroTyped
          DEF StartTrial, JoinTypes, ControlTypeOK
<1>5. CASE StartNormal
  <2>1. JoinTypes'
    BY <1>2, <1>5, JoinNextTyped DEF StartNormal
  <2>2. candidate' \in Candidates \cup {NoCandidate}
    BY <1>5 DEF StartNormal, NoTrial, ControlTypeOK
  <2> QED BY <1>2, <1>5, <2>1, <2>2 DEF StartNormal, JoinTypes, ControlTypeOK
<1>6. CASE Publish
  <2>1. Taken(cfg) \cup (IF trial THEN {trialOf.slot} ELSE {}) \in SUBSET ProfileSlots
    <3>1. trial => trialOf \in Candidates
      BY DEF TrialInv, ControlTypeOK
    <3> QED BY <3>1 DEF Taken, Candidates
  <2> QED BY <1>6, <2>1 DEF Publish, ControlTypeOK
<1>7. CASE NoCommand \/ PollTrialHolds \/ PollWait
  <2>1. CASE NoCommand
    BY <2>1 DEF NoCommand, ControlTypeOK
  <2>2. CASE PollTrialHolds
    BY <2>2 DEF PollTrialHolds, ControlTypeOK
  <2>3. CASE PollWait
    BY <2>3 DEF PollWait, ControlTypeOK
  <2> QED BY <1>7, <2>1, <2>2, <2>3
<1>8. CASE Handle
  <2>1. PICK c \in Received :
           \/ HandleAdd(c) \/ HandleStage(c) \/ HandleUse(c) \/ HandleDel(c)
           \/ HandleDisplay(c) \/ HandlePreselect(c) \/ HandleSetup(c)
           \/ HandleCancel(c) \/ HandleReset(c) \/ HandleErase(c)
           \/ HandleEraseFails(c) \/ HandleReboot(c) \/ HandleRefused(c)
    BY <1>8 DEF Handle
  <2>2. c \in Commands /\ Tail(commands) \in Seq(Commands)
    BY ReceivedTyped
  <2> HIDE DEF Commands
  <2>3. cfg \in Settings
    BY DEF ControlTypeOK
  <2>4. CASE HandleAdd(c)
    <3>1. WithNew(cfg, c.slot, c.p) \in Settings
      <4>1. c.slot \in ProfileSlots /\ c.p \in Profiles
        BY <2>2, <2>4, CommandFields DEF HandleAdd
      <4> QED BY <2>3, <4>1 DEF WithNew, With, Settings
    <3> QED BY <2>2, <2>4, <3>1, SavedTyped DEF HandleAdd, Drop, Done, ControlTypeOK
  <2>5. CASE HandleStage(c)
    <3>1. candidate' \in Candidates \cup {NoCandidate} /\ tries' \in Nat
            /\ pc' \in {"reboot", "poll"}
      BY <2>2, <2>5, CommandFields DEF HandleStage, Candidates, Done, ControlTypeOK
    <3> QED BY <2>2, <2>5, <3>1 DEF HandleStage, Drop, ControlTypeOK
  <2>6. CASE HandleUse(c)
    <3>1. /\ c.slot \in ProfileSlots /\ cfg.p[c.slot] \in Profiles
          /\ [cfg EXCEPT !.preferred = c.slot] \in Settings
      BY <2>2, <2>3, <2>6, CommandFields DEF HandleUse, Settings
    <3>2. CASE Join(c.slot, cfg.p[c.slot])
      <4>1. JoinTypes'
        BY <3>1, <3>2, JoinTyped
      <4>2. tried' \subseteq ProfileSlots /\ failures' \in 0 .. MaxFailures
        BY <2>6, ZeroTyped DEF HandleUse, ControlTypeOK
      <4> QED BY <2>2, <2>6, <3>1, <4>1, <4>2, SavedTyped
              DEF HandleUse, Drop, Done, JoinTypes, ControlTypeOK
    <3>3. CASE UNCHANGED <<rotation, link, attemptAge>>
      BY <2>2, <2>6, <3>1, <3>3, SavedTyped DEF HandleUse, Drop, Done, ControlTypeOK
    <3> QED BY <2>6, <3>2, <3>3 DEF HandleUse
  <2>7. CASE HandleDel(c)
    <3>1. With(cfg, c.slot, NoProfile) \in Settings
      <4>1. c.slot \in ProfileSlots
        BY <2>2, <2>7, CommandFields DEF HandleDel
      <4> QED BY <2>3, <4>1 DEF With, Settings
    <3>2. CASE UNCHANGED <<tried, failures>>
                 /\ JoinNext(With(cfg, c.slot, NoProfile), {})
      <4>1. JoinTypes'
        BY <3>1, <3>2, JoinNextTyped
      <4> QED BY <2>2, <2>7, <3>1, <3>2, <4>1, SavedTyped
              DEF HandleDel, Drop, Done, JoinTypes, ControlTypeOK
    <3>3. CASE UNCHANGED <<rotation, link, attemptAge>>
      BY <2>2, <2>7, <3>1, <3>3, SavedTyped DEF HandleDel, Drop, Done, ControlTypeOK
    <3> QED BY <2>7, <3>2, <3>3 DEF HandleDel
  <2>8. CASE HandleDisplay(c)
    <3>1. [cfg EXCEPT !.display = c.display] \in Settings
      BY <2>2, <2>3, <2>8, CommandFields DEF HandleDisplay, Settings
    <3> QED BY <2>2, <2>8, <3>1, SavedTyped
            DEF HandleDisplay, Drop, Done, ControlTypeOK
  <2>9. CASE HandlePreselect(c)
    <3>1. setupSlot' \in ProfileSlots \cup {NoSlot}
      BY <2>2, <2>9, CommandFields DEF HandlePreselect
    <3> QED BY <2>2, <2>9, <3>1 DEF HandlePreselect, Drop, Done, ControlTypeOK
  <2>10. CASE HandleSetup(c)
    <3>1. /\ SetupReboot(TRUE, c.slot) /\ UNCHANGED flash
          /\ c.slot \in ProfileSlots \cup {NoSlot}
      BY <2>2, <2>10, CommandFields DEF HandleSetup
    <3> QED BY <3>1, SetupRebootTyped DEF ControlTypeOK
  <2>11. CASE HandleCancel(c)
    <3>1. SetupReboot(FALSE, NoSlot) /\ UNCHANGED flash
      BY <2>11 DEF HandleCancel
    <3> QED BY <2>3, <3>1, SetupRebootTyped DEF ControlTypeOK
  <2>12. CASE HandleReset(c) \/ HandleEraseFails(c)
    <3>1. resetLeft' \in 0 .. ResetWindow
      BY <2>12, ConstantsTyped DEF HandleReset, HandleEraseFails
    <3>2. CASE HandleReset(c)
      BY <2>2, <3>1, <3>2 DEF HandleReset, Drop, Done, ControlTypeOK
    <3>3. CASE HandleEraseFails(c)
      BY <2>2, <3>1, <3>3 DEF HandleEraseFails, Drop, Done, ControlTypeOK
    <3> QED BY <2>12, <3>2, <3>3
  <2>13. CASE HandleErase(c)
    BY <2>13, SetupRebootTyped DEF HandleErase, ControlTypeOK
  <2>14. CASE HandleReboot(c)
    <3>1. /\ Restart(0, NoSlot) /\ config' = config /\ candidate' = candidate
          /\ tries' = tries /\ resets' = resets
      BY <2>14 DEF HandleReboot
    <3>2. /\ config' \in Settings \cup {NoConfig, Damaged}
          /\ candidate' \in Candidates \cup {NoCandidate}
          /\ tries' \in Nat /\ resets' \in Nat
      BY <3>1 DEF ControlTypeOK
    <3> QED BY <3>1, <3>2, RestartTyped
  <2>15. CASE HandleRefused(c)
    BY <2>2, <2>15 DEF HandleRefused, Drop, Done, ControlTypeOK
  <2> QED BY <2>1, <2>4, <2>5, <2>6, <2>7, <2>8, <2>9, <2>10, <2>11, <2>12,
             <2>13, <2>14, <2>15
<1>9. CASE RebootToTrial
  BY <1>9, SetupRebootTyped DEF RebootToTrial, ControlTypeOK
<1>10. CASE PollSetup
  <2>1. CASE SetupReboot(FALSE, NoSlot)
    BY <1>10, <2>1, SetupRebootTyped DEF PollSetup, ControlTypeOK
  <2>2. CASE ~SetupReboot(FALSE, NoSlot)
    BY <1>10, <2>2 DEF PollSetup, ControlTypeOK
  <2> QED BY <2>1, <2>2
<1>11. CASE PollTrialFails
  <2>1. JoinTypes'
    BY <1>11, JoinNextTyped DEF PollTrialFails, ControlTypeOK
  <2> QED BY <1>11, <2>1 DEF PollTrialFails, JoinTypes, ControlTypeOK
<1>12. CASE Commit
  <2>1. cfg \in Settings /\ Committed \in Settings
    <3>1. trialOf.slot \in ProfileSlots /\ trialOf.p \in Profiles /\ cfg \in Settings
      <4>1. trialOf \in Candidates
        BY <1>12 DEF Commit, TrialInv, ControlTypeOK
      <4> QED BY <4>1 DEF Candidates, ControlTypeOK
    <3> QED BY <3>1 DEF Committed, With, Settings
  <2>2. JoinTypes'
    <3>1. CASE attemptAge' = 0 /\ UNCHANGED <<active, link>>
      BY <3>1, ZeroTyped DEF JoinTypes, ControlTypeOK
    <3>2. CASE JoinNext(cfg, {})
      BY <2>1, <3>2, JoinNextTyped
    <3> QED BY <1>12, <3>1, <3>2 DEF Commit
  <2>3. /\ config' \in Settings \cup {NoConfig, Damaged}
        /\ cfg' \in Settings /\ writeAge' \in 0 .. WriteGap
    BY <1>12, <2>1, SavedTyped DEF Commit
  <2> QED BY <1>12, <2>2, <2>3, ZeroTyped DEF Commit, JoinTypes, ControlTypeOK
<1>13. CASE PollHealthy
  BY <1>13, ZeroTyped DEF PollHealthy, ControlTypeOK
<1>14. CASE PollRetry
  <2>1. NowTried \subseteq ProfileSlots
    BY <1>14 DEF PollRetry, NowTried, RetryDue, ControlTypeOK
  <2>2. tried' \subseteq ProfileSlots
    BY <1>14, <2>1 DEF PollRetry
  <2>3. failures' \in 0 .. MaxFailures
    BY <1>14, ConstantsTyped DEF PollRetry, ControlTypeOK
  <2>4. JoinTypes'
    BY <1>14, JoinNextTyped DEF PollRetry, ControlTypeOK
  <2> QED BY <1>14, <2>2, <2>3, <2>4 DEF PollRetry, JoinTypes, ControlTypeOK
<1>15. CASE Submit
  BY <1>15 DEF Submit, ControlTypeOK
<1>16. CASE LinkUp \/ LinkDown
  <2>1. joining' \in BOOLEAN /\ echo' \in BOOLEAN /\ up' \in BOOLEAN
          /\ since' \in 0 .. TrialLimit /\ span' \in 0 .. TrialHold
    <3>1. joining' \in BOOLEAN /\ echo' \in BOOLEAN /\ up' \in BOOLEAN
      BY <1>16, Zenon DEF LinkUp, LinkDown, ControlTypeOK
    <3> QED BY <1>16, <3>1, ZeroTyped DEF LinkUp, LinkDown, ControlTypeOK
  <2>2. CASE LinkUp
    BY <2>1, <2>2 DEF LinkUp, ControlTypeOK
  <2>3. CASE LinkDown
    BY <2>1, <2>3 DEF LinkDown, ControlTypeOK
  <2> QED BY <1>16, <2>2, <2>3
<1>17. CASE Tick
  <2>1. held' \in BOOLEAN
    BY <1>17, Zenon DEF Tick, ControlTypeOK
  <2>2. /\ trialAge' \in 0 .. TrialLimit /\ writeAge' \in 0 .. WriteGap
        /\ attemptAge' \in 0 .. Patience /\ setupAge' \in 0 .. SetupLimit
        /\ resetLeft' \in 0 .. ResetWindow /\ span' \in 0 .. TrialHold
    <3>1. resetLeft' \in 0 .. ResetWindow
      BY <1>17, ConstantsTyped DEF Tick, ControlTypeOK
    <3> QED BY <1>17, <3>1, AgedTyped, ConstantsTyped DEF Tick, ControlTypeOK
  <2> QED BY <1>17, <2>1, <2>2 DEF Tick, ControlTypeOK
<1>18. CASE Crash
  <2>1. /\ Restart(0, NoSlot) /\ config' = config /\ candidate' = candidate
        /\ tries' = tries /\ resets' = resets + 1
    BY <1>18 DEF Crash
  <2>2. /\ config' \in Settings \cup {NoConfig, Damaged}
        /\ candidate' \in Candidates \cup {NoCandidate}
        /\ tries' \in Nat /\ resets' \in Nat
    BY <2>1 DEF ControlTypeOK
  <2> QED BY <2>1, <2>2, RestartTyped
<1>19. CASE UNCHANGED vars
  BY <1>19 DEF vars, ControlTypeOK
<1> QED BY <1>1, <1>3, <1>4, <1>5, <1>6, <1>7, <1>8, <1>9, <1>10, <1>11, <1>12,
           <1>13, <1>14, <1>15, <1>16, <1>17, <1>18, <1>19
        DEF Next, Task, Loop

-----------------------------------------------------------------------------
(* Trials. *)

\* The link has been up, without a break, for as long as the task believes, as
\* far as a trial asks; and that is remembered.
AssociationInv ==
    /\ trial /\ up /\ since <= trialAge =>
           trialAge - since <= span \/ span = TrialHold
    /\ trial /\ span = TrialHold => held

\* A restart ends a trial.
LEMMA RestartEnds ==
    ASSUME NEW m, NEW i, Restart(m, i)
    PROVE  /\ TrialInv' /\ AssociationInv' /\ RamIsFlash' /\ AppliedIsSaved'
    BY DEF Restart, TrialInv, AssociationInv, RamIsFlash, AppliedIsSaved, Running

\* A trial that the task decides to commit has held.
LEMMA DecidedHeld ==
    ASSUME ControlTypeOK, AssociationInv, Decision = 1
    PROVE  trial /\ held
<1>1. trial /\ TrialDecision(trialAge, 0, since, up) = 1
    BY DEF Decision
<1>2. up /\ since <= trialAge /\ trialAge - since >= TrialHold
    BY <1>1 DEF TrialDecision, ControlTypeOK
<1>3. span = TrialHold
    BY <1>1, <1>2, ConstantsTyped DEF AssociationInv, ControlTypeOK
<1> QED BY <1>1, <1>3 DEF AssociationInv

\* Every step keeps what is known of a trial.
LEMMA TrialStep ==
    ASSUME ControlTypeOK, TrialInv, AssociationInv, [Next]_vars
    PROVE  TrialInv' /\ AssociationInv'
<1> USE DEF flash, mode, rotation, trialVars, link, clocks, bounds, history
<1> DEFINE Same == /\ UNCHANGED <<trialVars, up, since, span, held, inSetup, active>>
                   /\ Running => Running'
                   /\ pc' # "commit"
<1>1. ASSUME Same PROVE TrialInv' /\ AssociationInv'
  BY <1>1 DEF TrialInv, AssociationInv
<1>2. ASSUME ~trial, UNCHANGED <<trial, trialOf>>, pc' # "commit"
      PROVE  TrialInv' /\ AssociationInv'
  BY <1>2 DEF TrialInv, AssociationInv
<1>3. ASSUME trial' = FALSE, trialOf' = NoCandidate, pc' # "commit"
      PROVE  TrialInv' /\ AssociationInv'
  BY <1>3 DEF TrialInv, AssociationInv
<1>4. CASE Boot
  BY <1>2, <1>4 DEF Boot, TrialInv, Running
<1>5. CASE StartSetup
  BY <1>2, <1>5 DEF StartSetup, TrialInv, Running
<1>6. CASE StartTrial
  <2>1. /\ trial' = TRUE /\ trialOf' = candidate /\ candidate # NoCandidate
        /\ pc' = "top" /\ inSetup' = inSetup /\ ~inSetup
        /\ active' = candidate.slot /\ up' = FALSE /\ span' = 0
    BY <1>6 DEF StartTrial, TakeCandidate, Join
  <2> QED BY <2>1, CoreAssumption DEF TrialInv, AssociationInv, Running
<1>7. CASE StartNormal
  BY <1>2, <1>7 DEF StartNormal, TrialInv, Running
<1>8. CASE Publish
  BY <1>1, <1>8 DEF Publish, Running
<1>9. CASE NoCommand
  BY <1>1, <1>9 DEF NoCommand, Running
<1>10. CASE Handle
  <2>1. PICK c \in Received :
           \/ HandleAdd(c) \/ HandleStage(c) \/ HandleUse(c) \/ HandleDel(c)
           \/ HandleDisplay(c) \/ HandlePreselect(c) \/ HandleSetup(c)
           \/ HandleCancel(c) \/ HandleReset(c) \/ HandleErase(c)
           \/ HandleEraseFails(c) \/ HandleReboot(c) \/ HandleRefused(c)
    BY <1>10 DEF Handle
  <2>2. CASE HandleAdd(c)
    BY <1>2, <2>2 DEF HandleAdd, Done
  <2>3. CASE HandleStage(c)
    BY <1>2, <2>3 DEF HandleStage, Done
  <2>4. CASE HandleUse(c)
    BY <1>2, <2>4 DEF HandleUse, Done
  <2>5. CASE HandleDel(c)
    BY <1>2, <2>5 DEF HandleDel, Done
  <2>6. CASE HandleDisplay(c)
    BY <1>1, <2>6 DEF HandleDisplay, Done, Running
  <2>7. CASE HandlePreselect(c)
    BY <1>1, <2>7 DEF HandlePreselect, Done, Running
  <2>8. CASE HandleSetup(c) \/ HandleCancel(c) \/ HandleErase(c) \/ HandleReboot(c)
    BY <2>8, RestartEnds
       DEF HandleSetup, HandleCancel, HandleErase, HandleReboot, SetupReboot
  <2>9. CASE HandleReset(c)
    BY <1>1, <2>9 DEF HandleReset, Done, Running
  <2>10. CASE HandleEraseFails(c)
    BY <1>1, <2>10 DEF HandleEraseFails, Done, Running
  <2>11. CASE HandleRefused(c)
    BY <1>1, <2>11 DEF HandleRefused, Done, Running
  <2> QED BY <2>1, <2>2, <2>3, <2>4, <2>5, <2>6, <2>7, <2>8, <2>9, <2>10, <2>11
<1>11. CASE RebootToTrial
  BY <1>11, RestartEnds DEF RebootToTrial, SetupReboot
<1>12. CASE PollSetup
  BY <1>1, <1>12, RestartEnds DEF PollSetup, SetupReboot, Running
<1>13. CASE PollTrialFails
  BY <1>3, <1>13 DEF PollTrialFails
<1>14. CASE PollTrialHolds
  <2>1. trial /\ held
    BY <1>14, DecidedHeld DEF PollTrialHolds
  <2>2. UNCHANGED <<trialVars, up, since, span, held, inSetup, active>> /\ Running'
    BY <1>14 DEF PollTrialHolds, Running
  <2> QED BY <2>1, <2>2 DEF TrialInv, AssociationInv
<1>15. CASE Commit
  BY <1>3, <1>15 DEF Commit
<1>16. CASE PollHealthy
  BY <1>1, <1>16 DEF PollHealthy, Running
<1>17. CASE PollWait
  BY <1>1, <1>17 DEF PollWait, Running
<1>18. CASE PollRetry
  BY <1>2, <1>18 DEF PollRetry, RetryDue
<1>19. CASE LinkUp
  <2>1. /\ UNCHANGED <<trialVars, held, inSetup, active, pc>>
        /\ since' = trialAge /\ span' = 0
    BY <1>19 DEF LinkUp
  <2> QED BY <2>1, CoreAssumption DEF TrialInv, AssociationInv, Running, ControlTypeOK
<1>20. CASE LinkDown
  <2>1. /\ UNCHANGED <<trialVars, held, inSetup, active, pc>>
        /\ up' = FALSE /\ span' = 0
    BY <1>20 DEF LinkDown
  <2> QED BY <2>1, CoreAssumption DEF TrialInv, AssociationInv, Running
<1>21. CASE Tick
  <2>1. /\ UNCHANGED <<trial, trialOf, up, since, inSetup, active, pc>>
        /\ trialAge' = IF trial THEN Aged(trialAge, TrialLimit) ELSE trialAge
        /\ span' = IF trial /\ up THEN Aged(span, TrialHold) ELSE span
        /\ held' = (held \/ (trial /\ span' = TrialHold))
    BY <1>21 DEF Tick
  <2>2. TrialInv'
    BY <2>1 DEF TrialInv, Running
  <2>3. ASSUME trial, up, since <= trialAge'
        PROVE  trialAge' - since <= span' \/ span' = TrialHold
    <3>1. /\ trialAge \in Nat /\ since \in Nat /\ span \in 0 .. TrialHold
      BY ConstantsTyped DEF ControlTypeOK
    <3>2. since <= trialAge => trialAge - since <= span \/ span = TrialHold
      BY <2>3 DEF AssociationInv
    <3>3. trialAge' = Aged(trialAge, TrialLimit) /\ span' = Aged(span, TrialHold)
      BY <2>1, <2>3
    <3> QED BY <2>3, <3>1, <3>2, <3>3, ConstantsTyped DEF Aged
  <2> QED BY <2>1, <2>2, <2>3 DEF AssociationInv
<1>22. CASE Crash
  BY <1>22, RestartEnds DEF Crash
<1>23. CASE Submit \/ UNCHANGED vars
  <2>1. UNCHANGED <<trialVars, up, since, span, held, inSetup, active, pc>>
    BY <1>23 DEF Submit, vars
  <2> QED BY <2>1 DEF TrialInv, AssociationInv, Running
<1> QED BY <1>4, <1>5, <1>6, <1>7, <1>8, <1>9, <1>10, <1>11, <1>12, <1>13, <1>14,
           <1>15, <1>16, <1>17, <1>18, <1>19, <1>20, <1>21, <1>22, <1>23
        DEF Next, Task, Loop

\* A candidate in flash has not been tried yet.
CandidateInv == (candidate # NoCandidate => tries = 0) /\ tries <= 1

\* Every step keeps that: the candidate leaves the flash before it is tried.
LEMMA CandidateStep ==
    ASSUME ControlTypeOK, CandidateInv, [Next]_vars
    PROVE  CandidateInv'
<1> USE DEF flash, mode, rotation, trialVars, link, clocks, bounds, history
<1>1. ASSUME UNCHANGED <<candidate, tries>> PROVE CandidateInv'
  BY <1>1 DEF CandidateInv
<1>2. CASE StartTrial
  <2>1. tries' = 1 /\ candidate' = NoCandidate
    BY <1>2 DEF StartTrial, TakeCandidate, CandidateInv
  <2> QED BY <2>1 DEF CandidateInv
<1>3. CASE StartNormal
  <2>1. tries' = tries /\ candidate' \in {candidate, NoCandidate}
    BY <1>3 DEF StartNormal, NoTrial
  <2> QED BY <2>1 DEF CandidateInv
<1>4. CASE Handle
  <2>1. PICK c \in Received :
           \/ HandleAdd(c) \/ HandleStage(c) \/ HandleUse(c) \/ HandleDel(c)
           \/ HandleDisplay(c) \/ HandlePreselect(c) \/ HandleSetup(c)
           \/ HandleCancel(c) \/ HandleReset(c) \/ HandleErase(c)
           \/ HandleEraseFails(c) \/ HandleReboot(c) \/ HandleRefused(c)
    BY <1>4 DEF Handle
  <2>2. CASE HandleStage(c)
    <3>1. tries' = 0 \/ UNCHANGED <<candidate, tries>>
      BY <2>2 DEF HandleStage
    <3> QED BY <1>1, <3>1 DEF CandidateInv
  <2>3. CASE HandleErase(c)
    <3>1. candidate' = NoCandidate /\ tries' = tries
      BY <2>3 DEF HandleErase, SetupReboot
    <3> QED BY <3>1 DEF CandidateInv
  <2>4. CASE HandleSetup(c) \/ HandleCancel(c) \/ HandleReboot(c)
    BY <1>1, <2>4 DEF HandleSetup, HandleCancel, HandleReboot, SetupReboot
  <2>5. CASE HandleAdd(c) \/ HandleUse(c) \/ HandleDel(c) \/ HandleDisplay(c)
    BY <1>1, <2>5 DEF HandleAdd, HandleUse, HandleDel, HandleDisplay
  <2>6. CASE HandlePreselect(c) \/ HandleReset(c) \/ HandleEraseFails(c)
               \/ HandleRefused(c)
    BY <1>1, <2>6 DEF HandlePreselect, HandleReset, HandleEraseFails, HandleRefused
  <2> QED BY <2>1, <2>2, <2>3, <2>4, <2>5, <2>6
<1>5. CASE RebootToTrial \/ PollSetup \/ Crash
  BY <1>1, <1>5 DEF RebootToTrial, PollSetup, Crash, SetupReboot
<1>6. CASE Boot \/ StartSetup \/ Publish \/ NoCommand
  BY <1>1, <1>6 DEF Boot, StartSetup, Publish, NoCommand
<1>7. CASE PollTrialFails \/ PollTrialHolds \/ Commit
  BY <1>1, <1>7 DEF PollTrialFails, PollTrialHolds, Commit
<1>8. CASE PollHealthy \/ PollWait \/ PollRetry
  BY <1>1, <1>8 DEF PollHealthy, PollWait, PollRetry
<1>9. CASE Submit \/ LinkUp \/ LinkDown \/ Tick \/ UNCHANGED vars
  BY <1>1, <1>9 DEF Submit, LinkUp, LinkDown, Tick, vars
<1> QED BY <1>2, <1>3, <1>4, <1>5, <1>6, <1>7, <1>8, <1>9 DEF Next, Task, Loop

-----------------------------------------------------------------------------
(* The task's copy of the settings. *)

\* Where the task may write, what it reads of the flash is what is there.
LEMMA LoadedIsFlash ==
    ASSUME LoadCfg, config' = config
    PROVE  RamIsFlash'
<1>1. PICK error \in Trouble : cfg' = Loaded(error) /\ storeOk' = LoadedOk(error)
    BY DEF LoadCfg
<1>2. ASSUME storeOk' PROVE ~error /\ config # Damaged
    BY <1>1, <1>2 DEF LoadedOk
<1>3. ASSUME storeOk' PROVE cfg' = IF config = NoConfig THEN Defaults ELSE config
    BY <1>1, <1>2, <1>3 DEF Loaded
<1> QED BY <1>3 DEF RamIsFlash

\* A save changes both or neither.
LEMMA SavedIsFlash ==
    ASSUME RamIsFlash, Running, UNCHANGED storeOk, NEW s \in Settings,
           Save(s) \/ Refuse(s)
    PROVE  RamIsFlash'
    BY ControlAssumption DEF RamIsFlash, Save, Refuse

\* The settings each handler would save.
LEMMA NewSettingsTyped ==
    ASSUME ControlTypeOK, NEW c \in Received
    PROVE  /\ HandleAdd(c) => WithNew(cfg, c.slot, c.p) \in Settings
           /\ HandleUse(c) => [cfg EXCEPT !.preferred = c.slot] \in Settings
           /\ HandleDel(c) => With(cfg, c.slot, NoProfile) \in Settings
           /\ HandleDisplay(c) => [cfg EXCEPT !.display = c.display] \in Settings
<1>1. c \in Commands /\ cfg \in Settings
    BY ReceivedTyped DEF ControlTypeOK
<1>2. ASSUME HandleAdd(c) PROVE WithNew(cfg, c.slot, c.p) \in Settings
    <2>1. c.slot \in ProfileSlots /\ c.p \in Profiles
      BY <1>1, <1>2, CommandFields DEF HandleAdd
    <2> QED BY <1>1, <2>1 DEF WithNew, With, Settings
<1>3. ASSUME HandleUse(c) PROVE [cfg EXCEPT !.preferred = c.slot] \in Settings
    BY <1>1, <1>3, CommandFields DEF HandleUse, Settings
<1>4. ASSUME HandleDel(c) PROVE With(cfg, c.slot, NoProfile) \in Settings
    <2>1. c.slot \in ProfileSlots
      BY <1>1, <1>4, CommandFields DEF HandleDel
    <2> QED BY <1>1, <2>1 DEF With, Settings
<1>5. ASSUME HandleDisplay(c) PROVE [cfg EXCEPT !.display = c.display] \in Settings
    BY <1>1, <1>5, CommandFields DEF HandleDisplay, Settings
<1> QED BY <1>2, <1>3, <1>4, <1>5

\* What a trial that proved itself writes is settings.
LEMMA CommittedTyped ==
    ASSUME ControlTypeOK, trial, TrialInv
    PROVE  /\ trialOf \in Candidates /\ trialOf.slot \in ProfileSlots
           /\ trialOf.p \in Profiles /\ cfg \in Settings /\ Committed \in Settings
<1>1. trialOf \in Candidates /\ cfg \in Settings
    BY DEF TrialInv, ControlTypeOK
<1>2. trialOf.slot \in ProfileSlots /\ trialOf.p \in Profiles
    BY <1>1 DEF Candidates
<1> QED BY <1>1, <1>2 DEF Committed, With, Settings

\* Every step keeps the copy and the flash the same.
LEMMA RamStep ==
    ASSUME ControlTypeOK, TrialInv, RamIsFlash, [Next]_vars
    PROVE  RamIsFlash'
<1> USE DEF flash, mode, rotation, trialVars, link, clocks, bounds, history
<1>1. ASSUME Running, UNCHANGED <<config, cfg, storeOk>> PROVE RamIsFlash'
  BY <1>1 DEF RamIsFlash
<1>2. ASSUME UNCHANGED <<config, cfg, storeOk, pc>> PROVE RamIsFlash'
  BY <1>2 DEF RamIsFlash, Running
<1>3. CASE Boot
  BY <1>3 DEF Boot, RamIsFlash, Running
<1>4. CASE StartSetup \/ StartTrial \/ StartNormal
  BY <1>4, LoadedIsFlash DEF StartSetup, StartTrial, StartNormal
<1>5. CASE Handle
  <2>1. PICK c \in Received :
           \/ HandleAdd(c) \/ HandleStage(c) \/ HandleUse(c) \/ HandleDel(c)
           \/ HandleDisplay(c) \/ HandlePreselect(c) \/ HandleSetup(c)
           \/ HandleCancel(c) \/ HandleReset(c) \/ HandleErase(c)
           \/ HandleEraseFails(c) \/ HandleReboot(c) \/ HandleRefused(c)
    BY <1>5 DEF Handle
  <2>2. Running
    BY ReceivedTyped DEF Running
  <2>3. CASE HandleAdd(c)
    BY <2>2, <2>3, NewSettingsTyped, SavedIsFlash DEF HandleAdd
  <2>4. CASE HandleUse(c)
    BY <2>2, <2>4, NewSettingsTyped, SavedIsFlash DEF HandleUse
  <2>5. CASE HandleDel(c)
    BY <2>2, <2>5, NewSettingsTyped, SavedIsFlash DEF HandleDel
  <2>6. CASE HandleDisplay(c)
    BY <2>2, <2>6, NewSettingsTyped, SavedIsFlash DEF HandleDisplay
  <2>7. CASE HandleSetup(c) \/ HandleCancel(c) \/ HandleErase(c) \/ HandleReboot(c)
    BY <2>7, RestartEnds
       DEF HandleSetup, HandleCancel, HandleErase, HandleReboot, SetupReboot
  <2>8. CASE HandleStage(c) \/ HandlePreselect(c) \/ HandleReset(c)
               \/ HandleEraseFails(c) \/ HandleRefused(c)
    BY <1>1, <2>2, <2>8 DEF HandleStage, HandlePreselect, HandleReset,
       HandleEraseFails, HandleRefused
  <2> QED BY <2>1, <2>3, <2>4, <2>5, <2>6, <2>7, <2>8
<1>6. CASE RebootToTrial \/ Crash
  BY <1>6, RestartEnds DEF RebootToTrial, Crash, SetupReboot
<1>7. CASE PollSetup
  BY <1>1, <1>7, RestartEnds DEF PollSetup, SetupReboot, Running
<1>8. CASE Commit
  <2>1. Running /\ trial
    BY <1>8 DEF Commit, TrialInv, Running
  <2> QED BY <1>8, <2>1, CommittedTyped, SavedIsFlash DEF Commit
<1>9. CASE PollTrialFails \/ PollTrialHolds \/ PollHealthy
  BY <1>1, <1>9 DEF PollTrialFails, PollTrialHolds, PollHealthy, Polling, Running
<1>10. CASE PollWait \/ PollRetry \/ Publish \/ NoCommand
  BY <1>1, <1>10 DEF PollWait, PollRetry, Publish, NoCommand, Polling, Running
<1>11. CASE Submit \/ LinkUp \/ LinkDown \/ Tick \/ UNCHANGED vars
  BY <1>2, <1>11 DEF Submit, LinkUp, LinkDown, Tick, vars
<1> QED BY <1>3, <1>4, <1>5, <1>6, <1>7, <1>8, <1>9, <1>10, <1>11
        DEF Next, Task, Loop

-----------------------------------------------------------------------------
(* What the Wi-Fi driver works for. *)

\* A handler that joins nothing leaves the driver working for the active profile
\* as long as it does not change that profile.
LEMMA AppliedKept ==
    ASSUME ControlTypeOK, AppliedIsSaved, Running,
           UNCHANGED <<applied, active, trial, trialOf, inSetup>>,
           inSetup \/ trial \/ ProfileAt(cfg', active) = ProfileAt(cfg, active)
    PROVE  AppliedIsSaved'
    BY DEF AppliedIsSaved

\* Every step keeps it.
LEMMA AppliedStep ==
    ASSUME ControlTypeOK, TrialInv, AppliedIsSaved, [Next]_vars
    PROVE  AppliedIsSaved'
<1> USE DEF flash, mode, rotation, trialVars, link, clocks, bounds, history
<1>1. ASSUME Running \/ ~Running',
             UNCHANGED <<applied, active, trial, trialOf, inSetup, cfg>>
      PROVE AppliedIsSaved'
  BY <1>1 DEF AppliedIsSaved
<1>2. CASE Boot
  BY <1>2 DEF Boot, AppliedIsSaved, Running
<1>3. CASE StartSetup
  BY <1>3 DEF StartSetup, AppliedIsSaved
<1>4. ASSUME LoadCfg PROVE cfg' \in Settings
  BY <1>4, TroubleTyped, LoadedTyped DEF LoadCfg
<1>5. CASE StartTrial
  <2>1. candidate \in Candidates
    BY <1>5 DEF StartTrial, TakeCandidate, ControlTypeOK
  <2>2. trial' = TRUE /\ applied' = trialOf'.p /\ trialOf'.p \in Profiles
    BY <1>5, <2>1 DEF StartTrial, Join, Candidates
  <2> QED BY <2>2, CoreAssumption DEF AppliedIsSaved
<1>6. ASSUME NEW t, JoinNext(cfg', t), cfg' \in Settings, ~trial'
      PROVE  AppliedIsSaved'
  BY <1>6, JoinNextApplies DEF AppliedIsSaved
<1>7. CASE StartNormal
  <2>1. ~trial
    BY <1>7 DEF StartNormal, TrialInv, Running
  <2> QED BY <1>4, <1>6, <1>7, <2>1 DEF StartNormal
<1>8. CASE Handle
  <2>1. PICK c \in Received :
           \/ HandleAdd(c) \/ HandleStage(c) \/ HandleUse(c) \/ HandleDel(c)
           \/ HandleDisplay(c) \/ HandlePreselect(c) \/ HandleSetup(c)
           \/ HandleCancel(c) \/ HandleReset(c) \/ HandleErase(c)
           \/ HandleEraseFails(c) \/ HandleReboot(c) \/ HandleRefused(c)
    BY <1>8 DEF Handle
  <2>2. Running /\ c \in Commands /\ cfg \in Settings
    BY ReceivedTyped DEF Running, ControlTypeOK
  <2>3. CASE HandleAdd(c)
    BY <2>3 DEF HandleAdd, Direct, AppliedIsSaved
  <2>4. CASE HandleUse(c)
    <3>1. ~trial' /\ c.slot \in ProfileSlots /\ cfg.p[c.slot] # NoProfile
      BY <2>2, <2>4, CommandFields DEF HandleUse
    <3>2. CASE /\ Save([cfg EXCEPT !.preferred = c.slot])
               /\ Join(c.slot, cfg.p[c.slot])
      <4>1. /\ active' = c.slot /\ applied' = cfg.p[c.slot]
            /\ cfg' = [cfg EXCEPT !.preferred = c.slot]
        BY <3>2 DEF Save, Join
      <4>2. applied' = ProfileAt(cfg', active')
        BY <2>2, <3>1, <4>1, DefaultsTyped DEF ProfileAt, Settings
      <4> QED BY <3>1, <4>1, <4>2 DEF AppliedIsSaved
    <3>3. CASE /\ Refuse([cfg EXCEPT !.preferred = c.slot])
               /\ UNCHANGED <<rotation, link>>
      BY <1>1, <2>2, <2>4, <3>3 DEF HandleUse, Refuse
    <3> QED BY <2>4, <3>2, <3>3 DEF HandleUse
  <2>5. CASE HandleDel(c)
    <3> DEFINE new == With(cfg, c.slot, NoProfile)
    <3>1. ~trial' /\ c.slot \in ProfileSlots /\ new \in Settings
      BY <2>2, <2>5, CommandFields, NewSettingsTyped DEF HandleDel
    <3>2. CASE Save(new) /\ JoinNext(new, {})
      BY <1>6, <3>1, <3>2 DEF Save
    <3>3. CASE Save(new) /\ ~MustLeave(c.slot) /\ UNCHANGED <<active, link>>
      <4>1. inSetup \/ c.slot # active
        BY <3>3 DEF MustLeave
      <4>2. inSetup \/ ProfileAt(cfg', active) = ProfileAt(cfg, active)
        BY <2>2, <3>1, <3>3, <4>1 DEF Save, With, ProfileAt, Settings, ControlTypeOK
      <4> QED BY <2>2, <2>5, <3>3, <4>2, AppliedKept DEF HandleDel
    <3>4. CASE Refuse(new) /\ UNCHANGED <<rotation, link>>
      BY <1>1, <2>2, <2>5, <3>4 DEF HandleDel, Refuse
    <3> QED BY <2>5, <3>2, <3>3, <3>4 DEF HandleDel
  <2>6. CASE HandleDisplay(c)
    <3>1. cfg'.p = cfg.p
      BY <2>2, <2>6 DEF HandleDisplay, Save, Refuse, Settings
    <3>2. ProfileAt(cfg', active) = ProfileAt(cfg, active)
      BY <3>1 DEF ProfileAt
    <3> QED BY <2>2, <2>6, <3>2, AppliedKept DEF HandleDisplay
  <2>7. CASE HandleSetup(c) \/ HandleCancel(c) \/ HandleErase(c) \/ HandleReboot(c)
    BY <2>7, RestartEnds
       DEF HandleSetup, HandleCancel, HandleErase, HandleReboot, SetupReboot
  <2>8. CASE HandleStage(c) \/ HandlePreselect(c) \/ HandleReset(c)
               \/ HandleEraseFails(c) \/ HandleRefused(c)
    BY <1>1, <2>2, <2>8 DEF HandleStage, HandlePreselect, HandleReset,
       HandleEraseFails, HandleRefused
  <2> QED BY <2>1, <2>3, <2>4, <2>5, <2>6, <2>7, <2>8
<1>9. CASE RebootToTrial \/ Crash
  BY <1>9, RestartEnds DEF RebootToTrial, Crash, SetupReboot
<1>10. CASE PollSetup
  BY <1>1, <1>10, RestartEnds DEF PollSetup, SetupReboot, Running
<1>11. CASE PollTrialFails
  BY <1>6, <1>11 DEF PollTrialFails, ControlTypeOK
<1>12. CASE Commit
  <2>1. Running /\ trial /\ active = trialOf.slot
    BY <1>12 DEF Commit, TrialInv
  <2>2. CASE Save(Committed) /\ UNCHANGED <<active, link>>
    <3>1. /\ trialOf.slot \in ProfileSlots /\ trialOf.p \in Profiles
          /\ cfg \in Settings /\ Committed \in Settings
      BY <2>1, CommittedTyped
    <3>2. ProfileAt(Committed, trialOf.slot) = trialOf.p
      BY <3>1, DefaultsTyped DEF ProfileAt, Committed, With, Settings
    <3>3. inSetup' = inSetup /\ ~inSetup /\ applied = trialOf.p
      BY <1>12, <2>1 DEF Commit, TrialInv, AppliedIsSaved
    <3>4. /\ cfg' = Committed /\ trial' = FALSE /\ active' = trialOf.slot
          /\ applied' = trialOf.p
      BY <1>12, <2>1, <2>2, <3>3 DEF Commit, Save
    <3> QED BY <3>1, <3>2, <3>4, CoreAssumption DEF AppliedIsSaved
  <2>3. CASE Refuse(Committed) /\ JoinNext(cfg, {})
    BY <1>6, <1>12, <2>3 DEF Commit, Refuse, ControlTypeOK
  <2> QED BY <1>12, <2>2, <2>3 DEF Commit
<1>13. CASE PollTrialHolds \/ PollHealthy \/ PollWait
  BY <1>1, <1>13 DEF PollTrialHolds, PollHealthy, PollWait, Polling, Running
<1>14. CASE PollRetry
  BY <1>6, <1>14 DEF PollRetry, RetryDue, ControlTypeOK
<1>15. CASE Publish \/ NoCommand
  BY <1>1, <1>15 DEF Publish, NoCommand, Running
<1>16. CASE Submit \/ LinkUp \/ LinkDown \/ Tick \/ UNCHANGED vars
  BY <1>1, <1>16 DEF Submit, LinkUp, LinkDown, Tick, vars, Running
<1> QED BY <1>2, <1>3, <1>5, <1>7, <1>8, <1>9, <1>10, <1>11, <1>12, <1>13, <1>14,
           <1>15, <1>16
        DEF Next, Task, Loop

-----------------------------------------------------------------------------
(* The theorems. *)

\* The inductive invariant of the control task.
ControlInv == /\ ControlTypeOK /\ TrialInv /\ AssociationInv /\ CandidateInv
              /\ RamIsFlash /\ AppliedIsSaved

\* The device starts to boot with every variable in its type.
LEMMA ControlInitTyped == Init => ControlTypeOK
<1> SUFFICES ASSUME Init PROVE ControlTypeOK
    OBVIOUS
<1>1. <<>> \in Seq(Commands)
    OBVIOUS
<1>2. rtc \in [next : 0 .. 2, slot : ProfileSlots \cup {NoSlot}]
    BY DEF Init, Rtc
<1>3. config \in Settings \cup {NoConfig, Damaged}
    BY ControlAssumption DEF Init
<1>4. public \in [setup : BOOLEAN, taken : SUBSET ProfileSlots]
    BY DEF Init
<1>5. resetLeft \in 0 .. ResetWindow
    BY ConstantsTyped DEF Init
<1> QED BY <1>1, <1>2, <1>3, <1>4, <1>5, ZeroTyped, DefaultsTyped
        DEF Init, ControlTypeOK

\* The whole invariant always holds.
LEMMA ControlInductive == Spec => []ControlInv
<1>1. Init => ControlInv
    BY ControlInitTyped DEF Init, ControlInv, TrialInv, AssociationInv,
       CandidateInv, RamIsFlash, AppliedIsSaved, Running
<1>2. ControlInv /\ [Next]_vars => ControlInv'
    BY ControlTypesStep, TrialStep, CandidateStep, RamStep, AppliedStep
       DEF ControlInv
<1> QED BY <1>1, <1>2, PTL DEF Spec

\* The control task's state is always of its type.
THEOREM ControlTypes == Spec => []ControlTypeOK
    BY ControlInductive, PTL DEF ControlInv

\* While it may write, the task's own copy of the settings is what is in flash.
THEOREM RamAlwaysFlash == Spec => []RamIsFlash
    BY ControlInductive, PTL DEF ControlInv

\* The Wi-Fi driver is working for the profile the task calls active, which is
\* saved, or the candidate on trial.
THEOREM AppliedAlwaysSaved == Spec => []AppliedIsSaved
    BY ControlInductive, PTL DEF ControlInv

\* However often the device restarts, a staged candidate is tried once.
THEOREM TriedOnce == Spec => []CandidateTriedOnce
<1>1. ControlInv => CandidateTriedOnce
    BY DEF ControlInv, CandidateInv, CandidateTriedOnce
<1> QED BY <1>1, ControlInductive, PTL

-----------------------------------------------------------------------------
(* The flash is a ProfileStore. *)

Proven == IF trial /\ held THEN {trialOf} ELSE {}

\* The store's settings are those of the task.
LEMMA StoreSame ==
    /\ Store!ProfileSlots = ProfileSlots /\ Store!Displays = Displays
    /\ Store!Settings = Settings /\ Store!Defaults = Defaults
    BY DEF Store!ProfileSlots, ProfileSlots, Store!Displays, Displays,
       Store!Settings, Settings, Store!Defaults, Defaults

\* Where a save is allowed, the copy it starts from is what the store holds.
LEMMA SavesFromStore ==
    ASSUME ControlTypeOK, RamIsFlash, Running, storeOk
    PROVE  config # Damaged /\ Store!Contents(config) = cfg
    BY ControlAssumption, StoreSame
       DEF ControlTypeOK, RamIsFlash, Store!Contents

\* A step that changes neither flash nor what is proven is none of the store's.
LEMMA StoreStutters ==
    ASSUME config' = config, Proven' = Proven
    PROVE  UNCHANGED Store!storeVars
    BY DEF Store!storeVars, Proven

\* A step that leaves flash alone and ends the proof is the store's Forget.
LEMMA StoreForgets ==
    ASSUME config' = config, ~trial' \/ ~held'
    PROVE  Store!StoreNext
    BY DEF Store!StoreNext, Store!Forget, Proven

\* Each change of the user's is one of the store's.
LEMMA StoreEdited ==
    ASSUME ControlInv, NEW c \in Received,
           HandleAdd(c) \/ HandleUse(c) \/ HandleDel(c) \/ HandleDisplay(c)
    PROVE  Store!StoreNext \/ UNCHANGED Store!storeVars
<1> USE DEF mode, trialVars, history
<1>1. c \in Commands /\ Running /\ cfg \in Settings
    BY ReceivedTyped DEF ControlInv, Running, ControlTypeOK
<1>2. UNCHANGED <<trial, trialOf, held>>
    BY DEF HandleAdd, HandleUse, HandleDel, HandleDisplay
<1>3. Proven' = Proven
    BY <1>2 DEF Proven
<1>4. ASSUME storeOk PROVE config # Damaged /\ Store!Contents(config) = cfg
    BY <1>1, <1>4, SavesFromStore DEF ControlInv
<1>5. CASE config' = config
    BY <1>3, <1>5, StoreStutters
<1>6. ASSUME NEW s, Refuse(s) PROVE config' = config
    BY <1>6 DEF Refuse
<1>7. ASSUME NEW s, Save(s) PROVE storeOk /\ config' = s
    BY <1>7 DEF Save
<1>8. CASE HandleAdd(c) /\ config' # config
  <2>1. /\ config' = WithNew(cfg, c.slot, c.p) /\ storeOk
        /\ cfg.p[c.slot] = NoProfile
    BY <1>6, <1>7, <1>8 DEF HandleAdd, Direct
  <2>2. c.slot \in ProfileSlots /\ c.p \in Profiles
    BY <1>1, <1>8, CommandFields DEF HandleAdd
  <2>3. Store!Add(c.slot, c.p)
    BY <1>4, <2>1 DEF Store!Add, Store!With, WithNew, With
  <2> QED BY <1>3, <1>4, <2>1, <2>2, <2>3, StoreSame
          DEF Store!StoreNext, Store!Edit, Proven
<1>9. CASE HandleUse(c) /\ config' # config
  <2>1. /\ config' = [cfg EXCEPT !.preferred = c.slot] /\ storeOk
        /\ cfg.p[c.slot] # NoProfile
    BY <1>6, <1>7, <1>9 DEF HandleUse
  <2>2. c.slot \in ProfileSlots
    BY <1>1, <1>9, CommandFields DEF HandleUse
  <2>3. Store!Prefer(c.slot)
    BY <1>4, <2>1 DEF Store!Prefer
  <2> QED BY <1>3, <1>4, <2>1, <2>2, <2>3, StoreSame
          DEF Store!StoreNext, Store!Edit, Proven
<1>10. CASE HandleDel(c) /\ config' # config
  <2>1. config' = With(cfg, c.slot, NoProfile) /\ storeOk
    BY <1>6, <1>7, <1>10 DEF HandleDel
  <2>2. c.slot \in ProfileSlots
    BY <1>1, <1>10, CommandFields DEF HandleDel
  <2>3. Store!Remove(c.slot)
    BY <1>4, <2>1 DEF Store!Remove, Store!With, With
  <2> QED BY <1>3, <1>4, <2>1, <2>2, <2>3, StoreSame
          DEF Store!StoreNext, Store!Edit, Proven
<1>11. CASE HandleDisplay(c) /\ config' # config
  <2>1. config' = [cfg EXCEPT !.display = c.display] /\ storeOk
    BY <1>6, <1>7, <1>11 DEF HandleDisplay
  <2>2. c.display \in Displays
    BY <1>1, <1>11, CommandFields DEF HandleDisplay
  <2>3. Store!Show(c.display)
    BY <1>4, <2>1 DEF Store!Show
  <2> QED BY <1>3, <1>4, <2>1, <2>2, <2>3, StoreSame
          DEF Store!StoreNext, Store!Edit, Proven
<1> QED BY <1>5, <1>8, <1>9, <1>10, <1>11

\* A commit replaces a profile by the candidate that proved itself.
LEMMA StoreReplaced ==
    ASSUME ControlInv, Commit
    PROVE  Store!StoreNext
<1>1. trial /\ held /\ Running /\ trial' = FALSE
    BY DEF ControlInv, TrialInv, Commit
<1>2. CASE Save(Committed)
  <2>1. /\ config' = Committed /\ config # Damaged
        /\ Store!Contents(config) = cfg
    BY <1>1, <1>2, SavesFromStore DEF ControlInv, Save
  <2>2. config' = [Store!With(Store!Contents(config), trialOf.slot, trialOf.p)
                     EXCEPT !.preferred = trialOf.slot]
    BY <2>1 DEF Committed, With, Store!With
  <2>3. Proven = {trialOf} /\ Proven' = {}
    BY <1>1 DEF Proven
  <2> QED BY <2>1, <2>2, <2>3 DEF Store!StoreNext, Store!Replace, Proven
<1>3. CASE Refuse(Committed)
    BY <1>1, <1>3, StoreForgets DEF Refuse
<1> QED BY <1>2, <1>3 DEF Commit

\* Time proves a candidate.
LEMMA StoreProved ==
    ASSUME ControlInv, Tick
    PROVE  Store!StoreNext \/ UNCHANGED Store!storeVars
<1>1. /\ config' = config /\ trial' = trial /\ trialOf' = trialOf
      /\ held => held'
    BY DEF Tick, flash
<1>2. CASE ~trial \/ held
    BY <1>1, <1>2, StoreStutters DEF Proven
<1>3. CASE trial /\ ~held /\ held'
  <2>1. trialOf \in Candidates
    BY <1>3 DEF ControlInv, TrialInv, ControlTypeOK
  <2>2. PICK i \in ProfileSlots, q \in Profiles : trialOf = [slot |-> i, p |-> q]
    BY <2>1 DEF Candidates
  <2>3. Proven' = {[slot |-> i, p |-> q]}
    BY <1>1, <1>3, <2>2 DEF Proven
  <2> QED BY <1>1, <2>3, StoreSame DEF Store!StoreNext, Store!Prove, Proven
<1>4. CASE ~held'
    BY <1>1, <1>4, StoreForgets
<1> QED BY <1>2, <1>3, <1>4

\* A restart forgets the candidate, or erases everything.
LEMMA StoreRestarts ==
    ASSUME NEW m, NEW i, Restart(m, i), config' \in {config, NoConfig}
    PROVE  Store!StoreNext
<1>1. Proven' = {} /\ ~trial'
    BY DEF Restart, Proven
<1>2. CASE config' = NoConfig
    BY <1>1, <1>2 DEF Store!StoreNext, Store!Erase, Proven
<1> QED BY <1>1, <1>2, StoreForgets

\* Every step of the control task is one of the store's, or leaves it alone.
LEMMA StoreStep ==
    ASSUME ControlInv, [Next]_vars
    PROVE  [Store!StoreNext]_(Store!storeVars)
<1> USE DEF flash, mode, rotation, trialVars, link, clocks, bounds, history
<1> SUFFICES Store!StoreNext \/ UNCHANGED Store!storeVars
    OBVIOUS
<1>1. ASSUME UNCHANGED <<config, trial, trialOf, held>>
      PROVE  UNCHANGED Store!storeVars
  BY <1>1, StoreStutters DEF Proven
<1>2. CASE Boot \/ StartSetup \/ StartNormal
  BY <1>1, <1>2 DEF Boot, StartSetup, StartNormal
<1>3. CASE StartTrial
  BY <1>3, StoreForgets DEF StartTrial
<1>4. CASE Handle
  <2>1. PICK c \in Received :
           \/ HandleAdd(c) \/ HandleStage(c) \/ HandleUse(c) \/ HandleDel(c)
           \/ HandleDisplay(c) \/ HandlePreselect(c) \/ HandleSetup(c)
           \/ HandleCancel(c) \/ HandleReset(c) \/ HandleErase(c)
           \/ HandleEraseFails(c) \/ HandleReboot(c) \/ HandleRefused(c)
    BY <1>4 DEF Handle
  <2>2. CASE HandleAdd(c) \/ HandleUse(c) \/ HandleDel(c) \/ HandleDisplay(c)
    BY <2>2, StoreEdited
  <2>3. CASE HandleSetup(c) \/ HandleCancel(c) \/ HandleErase(c) \/ HandleReboot(c)
    BY <2>3, StoreRestarts
       DEF HandleSetup, HandleCancel, HandleErase, HandleReboot, SetupReboot
  <2>4. CASE HandleStage(c) \/ HandlePreselect(c) \/ HandleReset(c)
               \/ HandleEraseFails(c) \/ HandleRefused(c)
    BY <1>1, <2>4 DEF HandleStage, HandlePreselect, HandleReset,
       HandleEraseFails, HandleRefused
  <2> QED BY <2>1, <2>2, <2>3, <2>4
<1>5. CASE RebootToTrial \/ Crash
  BY <1>5, StoreRestarts DEF RebootToTrial, Crash, SetupReboot
<1>6. CASE PollSetup
  BY <1>1, <1>6, StoreRestarts DEF PollSetup, SetupReboot
<1>7. CASE PollTrialFails
  BY <1>7, StoreForgets DEF PollTrialFails
<1>8. CASE Commit
  BY <1>8, StoreReplaced
<1>9. CASE Tick
  BY <1>9, StoreProved
<1>10. CASE PollTrialHolds \/ PollHealthy \/ PollWait \/ PollRetry
  BY <1>1, <1>10 DEF PollTrialHolds, PollHealthy, PollWait, PollRetry
<1>11. CASE Publish \/ NoCommand \/ Submit \/ LinkUp \/ LinkDown \/ UNCHANGED vars
  BY <1>1, <1>11 DEF Publish, NoCommand, Submit, LinkUp, LinkDown, vars
<1> QED BY <1>2, <1>3, <1>4, <1>5, <1>6, <1>7, <1>8, <1>9, <1>10, <1>11
        DEF Next, Task, Loop

\* Power cuts, refused writes and errors included, the settings in flash change
\* by one decision of the user at a time, and a saved profile is only replaced by
\* a candidate that proved itself.
THEOREM FlashIsStore == Spec => ImplementsStore
<1>1. Init => Store!StoreInit
    BY ControlAssumption, StoreSame DEF Init, Store!StoreInit
<1>2. ControlInv /\ [Next]_vars => [Store!StoreNext]_(Store!storeVars)
    BY StoreStep
<1> QED BY <1>1, <1>2, ControlInductive, PTL
        DEF Spec, ImplementsStore, Store!StoreSpec
=============================================================================
