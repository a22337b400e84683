-------------------------------- MODULE Scan --------------------------------
(***************************************************************************)
(* The portal's list of nearby networks (main/portal.c): a scan runs in a  *)
(* task of its own and writes the list in place, while the HTTP task       *)
(* serves it entry by entry (module Portal).  They share nets, net_count   *)
(* and scanning, and no lock; the order of their reads and writes is all   *)
(* there is.                                                               *)
(*                                                                         *)
(* An entry is its SSID; one read or write of it is a single step.  What   *)
(* the driver found is any short sequence of records, strongest first, in  *)
(* which an SSID may appear several times or not be presentable; it is     *)
(* chosen record by record, as the task comes to them.                     *)
(***************************************************************************)
EXTENDS Naturals, Sequences, FiniteSets, SequencesExt

CONSTANTS
    Ssids,          \* presentable SSIDs
    Hidden,         \* empty, or with characters outside ASCII
    ScanMax,        \* SCAN_MAX, 16
    MaxRecords,     \* the driver returns at most 24 records
    Tasks           \* bound: scan tasks that may exist at once

ASSUME ScanAssumption ==
    Hidden \notin Ssids /\ ScanMax \in Nat \ {0} /\ MaxRecords \in Nat

VARIABLES
    scanning, netCount, nets,   \* shared with the HTTP task
    scanner,        \* the scan tasks: where each is, the records seen, the count
    last            \* history: the list the last finished scan should give

scanVars == <<scanning, netCount, nets, scanner, last>>

None == [pc |-> "none"]
Begin == [pc |-> "copy", seen |-> <<>>, count |-> 0]

NoNets == [i \in 1 .. ScanMax |-> Hidden]

ScanInit ==
    /\ scanning = FALSE /\ netCount = 0 /\ nets = NoNets
    /\ scanner = [t \in Tasks |-> None] /\ last = <<>>

ScanTypeOK ==
    /\ scanning \in BOOLEAN
    /\ netCount \in 0 .. ScanMax
    /\ nets \in [1 .. ScanMax -> Ssids \cup {Hidden}]
    /\ \A t \in Tasks : scanner[t].pc \in {"none", "copy", "clear"}

-----------------------------------------------------------------------------
(* scan_task. *)

\* What a scan should show: every presentable SSID once, where it is strongest, as
\* many as there is room for.
Firsts(r) == {i \in DOMAIN r : r[i] # Hidden /\ \A j \in 1 .. i - 1 : r[j] # r[i]}
Place(r, i) == Cardinality({j \in Firsts(r) : j <= i})
Fit(r) == IF Cardinality(Firsts(r)) < ScanMax THEN Cardinality(Firsts(r)) ELSE ScanMax
Listed(r) == [k \in 1 .. Fit(r) |-> r[CHOOSE i \in Firsts(r) : Place(r, i) = k]]

\* Mutant of Wanted: the end of nets is not minded.
WantedOver(s, count) == s # Hidden /\ \A j \in 1 .. Min({count, ScanMax}) : nets[j] # s
\* Presentable, new, and not too many.
Wanted(s, count) ==
    /\ s # Hidden
    /\ \A j \in 1 .. count : nets[j] # s
    /\ count < ScanMax

\* The next record; none if esp_wifi_scan_start or the memory for them failed.
CopyRecord(t) ==
    /\ scanner[t].pc = "copy" /\ Len(scanner[t].seen) < MaxRecords
    /\ \E s \in Ssids \cup {Hidden} :
          LET n == scanner[t].count IN
          IF Wanted(s, n)
          THEN /\ nets' = [nets EXCEPT ![n + 1] = s]
               /\ scanner' = [scanner EXCEPT ![t].seen = Append(@, s), ![t].count = n + 1]
          ELSE /\ scanner' = [scanner EXCEPT ![t].seen = Append(@, s)]
               /\ UNCHANGED nets
    /\ UNCHANGED <<scanning, netCount, last>>

Announce(t) == scanning' = FALSE /\ UNCHANGED netCount
Count(t) == netCount' = scanner[t].count /\ UNCHANGED scanning

\* Mutant of Publish: idle is announced before the new count.
PublishLate(t) ==
    \/ scanner[t].pc = "copy" /\ Announce(t)
    \/ scanner[t].pc = "clear" /\ Count(t)
\* The count first, then idle.
Publish(t) ==
    \/ scanner[t].pc = "copy" /\ Count(t)
    \/ scanner[t].pc = "clear" /\ Announce(t)

Finish(t) ==
    /\ Publish(t)
    /\ IF scanner[t].pc = "copy"
       THEN /\ scanner' = [scanner EXCEPT ![t] = [pc |-> "clear", count |-> @.count]]
            /\ last' = Listed(scanner[t].seen)
       ELSE scanner' = [scanner EXCEPT ![t] = None] /\ UNCHANGED last
    /\ UNCHANGED nets

ScanTask(t) == CopyRecord(t) \/ Finish(t)

-----------------------------------------------------------------------------
(* scan_begin, in the HTTP task. *)

\* Mutant of Begun: a task that cannot be created leaves scanning set.
BegunStuck ==
    /\ scanning' = TRUE
    /\ \/ \E t \in Tasks : /\ scanner[t] = None
                           /\ scanner' = [scanner EXCEPT ![t] = Begin]
       \/ UNCHANGED scanner
\* When no scan is running, the task is created or is not.
Begun ==
    \/ /\ scanning' = TRUE
       /\ \E t \in Tasks : /\ scanner[t] = None
                           /\ scanner' = [scanner EXCEPT ![t] = Begin]
    \/ UNCHANGED <<scanning, scanner>>

ScanBegin ==
    /\ IF scanning THEN UNCHANGED <<scanning, scanner>> ELSE Begun
    /\ last' = IF scanning' = scanning THEN last ELSE <<>>
    /\ UNCHANGED <<netCount, nets>>
=============================================================================
