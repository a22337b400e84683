------------------------------ MODULE MCControl ------------------------------
(***************************************************************************)
(* Control with two slots and two profiles of different priority.          *)
(***************************************************************************)
EXTENDS Control, TLC

MCProfiles == {[net |-> "home", priority |-> 0], [net |-> "car", priority |-> 1]}
Home == [net |-> "home", priority |-> 0]
Car == [net |-> "car", priority |-> 1]

Saved(p, q) == [p |-> (0 :> p @@ 1 :> q), preferred |-> 0, display |-> 0]

\* Nothing, something unreadable, one profile, and two of which the preferred
\* one has the lower priority.
MCConfigs == {NoConfig, Damaged, Saved(Home, NoProfile), Saved(Home, Car)}
TwoSaved == {Saved(Home, Car)}
=============================================================================
