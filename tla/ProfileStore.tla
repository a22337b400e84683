---------------------------- MODULE ProfileStore ----------------------------
(***************************************************************************)
(* What the adapter promises of its saved settings (docs/ADR-001.md,       *)
(* docs/REFERENCE.md): they only ever change one decision of the user at a *)
(* time, power cuts and refused writes included; a saved profile is only   *)
(* replaced by a candidate that proved itself; and settings that cannot be *)
(* read are left alone until an explicit reset.                            *)
(***************************************************************************)
EXTENDS Core

CONSTANTS
    NoConfig,       \* nothing was ever saved, or everything was erased
    Damaged         \* what is stored is unreadable or of an unknown schema

VARIABLES
    store,          \* the saved settings
    proven          \* the candidate [slot, p] that has stayed associated, if any

storeVars == <<store, proven>>

\* The settings a store stands for.
Defaults == [p |-> [i \in ProfileSlots |-> NoProfile], preferred |-> 0,
             display |-> 0]
Contents(s) == IF s = NoConfig THEN Defaults ELSE s

With(s, i, q) == [s EXCEPT !.p[i] = q]

\* A new network in an empty slot; it becomes the preferred one if the
\* preferred slot was empty.
Add(i, q) ==
    LET s == Contents(store)
        t == With(s, i, q)
    IN  /\ s.p[i] = NoProfile
        /\ store' = IF t.p[t.preferred] = NoProfile
                    THEN [t EXCEPT !.preferred = i] ELSE t

Prefer(i) ==
    /\ Contents(store).p[i] # NoProfile
    /\ store' = [Contents(store) EXCEPT !.preferred = i]

Remove(i) == store' = With(Contents(store), i, NoProfile)

Show(d) == store' = [Contents(store) EXCEPT !.display = d]

\* The user's own changes.
Edit ==
    /\ store # Damaged
    /\ \/ \E i \in ProfileSlots :
             Prefer(i) \/ Remove(i) \/ \E q \in Profiles : Add(i, q)
       \/ \E d \in Displays : Show(d)
    /\ UNCHANGED proven

\* A candidate takes its slot, and is the preferred profile from then on.
Replace ==
    /\ store # Damaged
    /\ \E c \in proven :
          store' = [With(Contents(store), c.slot, c.p) EXCEPT !.preferred = c.slot]
    /\ proven' = {}

Erase == store' = NoConfig /\ proven' = {}

Prove ==
    /\ \E i \in ProfileSlots, q \in Profiles : proven' = {[slot |-> i, p |-> q]}
    /\ UNCHANGED store

\* The trial ends without a commit.
Forget == proven' = {} /\ UNCHANGED store

StoreNext == Edit \/ Replace \/ Erase \/ Prove \/ Forget

StoreInit == store \in Settings \cup {NoConfig, Damaged} /\ proven = {}

StoreSpec == StoreInit /\ [][StoreNext]_storeVars
=============================================================================
