---------------------------- MODULE PortalProofs ----------------------------
(***************************************************************************)
(* Proofs about the list of networks and the portal, for any number of     *)
(* networks, records and scan tasks, any size of the list, of the store    *)
(* and of the control task's queue, and any number of inputs.              *)
(*                                                                         *)
(* The scan task and the HTTP task share the list without a lock.  What    *)
(* keeps an idle list exact is that only the HTTP task starts a scan, so   *)
(* that once it has read that none is running nothing is written until it  *)
(* has served the list, and that the scan task says it is idle after it    *)
(* has written everything else (ScanInv, ServedInv).  That a saved network *)
(* is not lost needs the types of the requests alone: what the control     *)
(* task writes at once it writes to a slot which it finds empty itself.    *)
(***************************************************************************)
EXTENDS Portal, FiniteSetTheorems, WellFoundedInduction, TLAPS

Names == Ssids \cup {Hidden}

-----------------------------------------------------------------------------
(* The scan. *)

Scanners ==
    {None} \cup [pc : {"copy"}, seen : Seq(Names), count : 0 .. ScanMax]
           \cup [pc : {"clear"}, count : 0 .. ScanMax]

ScanTypes == ScanTypeOK /\ scanner \in [Tasks -> Scanners]

\* The first entries of nets are those the records ask for.
Holds(count, r) ==
    /\ count = Fit(r)
    /\ \A i \in Firsts(r) : Place(r, i) <= count => nets[Place(r, i)] = r[i]
    /\ \A k \in 1 .. count : \E i \in Firsts(r) : Place(r, i) = k

\* The list they make up is the one to be served.
Published(count) == Len(last) = count /\ \A k \in 1 .. count : last[k] = nets[k]

ScanInv ==
    /\ \A t \in Tasks :
          /\ scanner[t] # None => scanning
          /\ scanner[t].pc = "copy" => Holds(scanner[t].count, scanner[t].seen)
          /\ scanner[t].pc = "clear" => Published(netCount)
    /\ \A t, u \in Tasks : scanner[t] # None /\ scanner[u] # None => t = u
    /\ ~scanning => Published(netCount)
    /\ last \in Seq(Names)

\* What is being served as idle is the published list.
ServedInv ==
    http.pc \in {"list", "sent"} /\ ~http.busy =>
        /\ ~scanning /\ Len(http.list) <= netCount
        /\ \A k \in 1 .. Len(http.list) : http.list[k] = nets[k]
        /\ http.pc = "sent" => Len(http.list) = netCount

-----------------------------------------------------------------------------
(* The portal. *)

Saves == [to : {"save"}, slot : SlotIds, id : 1 .. MaxInputs]
Posts == Saves \cup [to : {"del"}, slot : SlotIds] \cup [to : {"cancel"}]
Requests == Posts \cup [to : {"page", "name", "other", "saved"}]
                  \cup [to : {"scan"}, again : BOOLEAN]
Handlers == [pc : {"idle", "busy"}]
            \cup [pc : {"list", "sent"}, busy : BOOLEAN, list : Seq(Names)]
            \cup [pc : {"submit"}, request : Posts, direct : BOOLEAN]
Commands == Posts \cup [to : {"display", "confirm-reset"}]
                  \cup [to : {"setup"}, slot : 0 .. SlotMax]
CommandTypes == [cmd : Commands, said : BOOLEAN]

PortalTypes ==
    /\ page \in [open : BOOLEAN, busy : BOOLEAN, saving : BOOLEAN, slot : SlotIds,
                 touched : BOOLEAN, listed : SUBSET SlotIds]
    /\ flight \subseteq Requests
    /\ http \in Handlers /\ (http.pc \in {"list", "sent"} => Len(http.list) <= ScanMax)
    /\ cfg \in [SlotIds -> 0 .. Earlier] /\ public \in [SlotIds -> 0 .. Earlier]
    /\ commands \in Seq(CommandTypes) /\ Len(commands) <= QueueLen
    /\ ctlPc \in {"publish", "receive"} /\ inputs \in 0 .. MaxInputs

PortalInv == ScanTypes /\ ScanInv /\ ServedInv /\ PortalTypes

-----------------------------------------------------------------------------
(* Types. *)

\* What a scan task can be, by where it is.
LEMMA ScannerKinds ==
    ASSUME NEW x \in Scanners
    PROVE  /\ x.pc \in {"none", "copy", "clear"} /\ (x.pc = "none" <=> x = None)
           /\ x.pc = "copy" => /\ x \in [pc : {"copy"}, seen : Seq(Names), count : 0 .. ScanMax]
                               /\ x.seen \in Seq(Names) /\ x.count \in 0 .. ScanMax
           /\ x.pc = "clear" => /\ x \in [pc : {"clear"}, count : 0 .. ScanMax]
                                /\ x.count \in 0 .. ScanMax
BY DEF Scanners, None

\* A request that is posted is one control is to handle.
LEMMA RequestKinds ==
    ASSUME NEW r \in Requests, r.to \in {"save", "del", "cancel"}
    PROVE  r \in Posts
BY DEF Requests, Posts, Saves

\* What a command can be, by what it asks for.
LEMMA CommandKinds ==
    ASSUME NEW c \in Commands
    PROVE  /\ c.to = "save" => c.slot \in SlotIds /\ c.id \in 1 .. MaxInputs
           /\ c.to = "del" => c = [to |-> "del", slot |-> c.slot] /\ c.slot \in SlotIds
           /\ c.to = "confirm-reset" => c = [to |-> "confirm-reset"]
BY DEF Commands, Posts, Saves

\* What the HTTP task can be at, by where it is.
LEMMA HandlerKinds ==
    ASSUME NEW h \in Handlers
    PROVE  /\ h.pc \in {"list", "sent"} =>
                  /\ h \in [pc : {"list", "sent"}, busy : BOOLEAN, list : Seq(Names)]
                  /\ h.busy \in BOOLEAN /\ h.list \in Seq(Names) /\ Len(h.list) \in Nat
           /\ h.pc = "submit" => h.request \in Posts /\ h.direct \in BOOLEAN
           /\ h.pc \in {"idle", "busy", "list", "sent", "submit"}
BY DEF Handlers

\* What control takes from its queue is a command, and the others wait.
LEMMA HeadPosted ==
    ASSUME PortalTypes, commands # <<>>
    PROVE  /\ Head(commands).cmd \in Commands
           /\ Tail(commands) \in Seq(CommandTypes) /\ Len(Tail(commands)) <= QueueLen
<1>1. commands \in Seq(CommandTypes) /\ Len(commands) <= QueueLen /\ QueueLen \in Nat
    BY PortalAssumption DEF PortalTypes
<1>2. Head(commands) \in CommandTypes
    BY <1>1
<1>3. Tail(commands) \in Seq(CommandTypes) /\ Len(Tail(commands)) <= QueueLen
    BY <1>1
<1> QED BY <1>2, <1>3 DEF CommandTypes

\* saved_get always suggests a slot there is.
LEMMA SuggestedIsSlot ==
    ASSUME NEW s
    PROVE  Suggested(s) \in SlotIds
<1> DEFINE empty == {i \in SlotIds : s[i] = Free}
<1>1. 1 \in SlotIds /\ SlotIds \subseteq Nat
    BY PortalAssumption DEF SlotIds
<1>2. ASSUME empty # {} PROVE Min(empty) \in empty
  <2>1. empty \subseteq Nat
    BY <1>1
  <2>2. PICK n \in empty : \A m \in empty : ~(<<m, n>> \in OpToRel(<, Nat))
    BY <1>2, <2>1, NatLessThanWellFounded, WFMin
  <2>3. \A m, k \in Nat : m < k => <<m, k>> \in OpToRel(<, Nat)
    BY DEF OpToRel
  <2>4. ASSUME NEW m \in empty PROVE n <= m
    <3>1. m \in Nat /\ n \in Nat
      BY <2>1, <2>2
    <3>2. ~(m < n)
      BY <3>1, <2>2, <2>3
    <3> QED BY <3>1, <3>2
  <2> HIDE DEF empty
  <2> QED BY <2>2, <2>4 DEF Min
<1>3. Suggested(s) = IF want \in empty THEN want ELSE IF empty = {} THEN 1 ELSE Min(empty)
    BY DEF Suggested
<1>4. empty \subseteq SlotIds
    OBVIOUS
<1> HIDE DEF empty
<1> QED BY <1>1, <1>2, <1>3, <1>4

\* Nothing but the scan tasks and the HTTP task touches the list, and a restart
\* leaves nothing of it.
LEMMA ScanTypesKept ==
    ASSUME ScanTypes
    PROVE  /\ \A t \in Tasks : ScanTask(t) => ScanTypes'
           /\ ScanBegin => ScanTypes'
           /\ Reboot => ScanTypes'
           /\ UNCHANGED scanVars => ScanTypes'
<1> USE DEF ScanTypes, ScanTypeOK
<1>0. ScanMax \in Nat /\ 0 \in 0 .. ScanMax /\ <<>> \in Seq(Names) /\ None \in Scanners
    BY ScanAssumption DEF Scanners
<1>1. ASSUME NEW t \in Tasks, CopyRecord(t) PROVE ScanTypes'
  <2>1. scanner[t] \in Scanners /\ scanner[t].pc = "copy"
    BY <1>1 DEF CopyRecord
  <2> DEFINE x == scanner[t]
  <2>2. x \in [pc : {"copy"}, seen : Seq(Names), count : 0 .. ScanMax]
    BY <2>1, ScannerKinds
  <2>3. PICK s \in Names :
           IF Wanted(s, x.count)
           THEN /\ nets' = [nets EXCEPT ![x.count + 1] = s]
                /\ scanner' = [scanner EXCEPT ![t].seen = Append(@, s), ![t].count = x.count + 1]
           ELSE /\ scanner' = [scanner EXCEPT ![t].seen = Append(@, s)]
                /\ UNCHANGED nets
    BY <1>1 DEF CopyRecord, Names
  <2>4. Append(x.seen, s) \in Seq(Names)
    BY <2>2
  <2>5. CASE Wanted(s, x.count)
    <3>1. x.count + 1 \in 0 .. ScanMax
      BY <1>0, <2>2, <2>5 DEF Wanted
    <3>2. [x EXCEPT !.seen = Append(@, s), !.count = x.count + 1] \in Scanners
      BY <2>2, <2>4, <3>1 DEF Scanners
    <3>3. scanner' = [scanner EXCEPT ![t] = [x EXCEPT !.seen = Append(@, s), !.count = x.count + 1]]
      BY <2>3, <2>5
    <3>4. scanner' \in [Tasks -> Scanners]
      BY <3>2, <3>3
    <3>5. nets' \in [1 .. ScanMax -> Names]
      BY <2>3, <2>5 DEF Names
    <3> QED BY <1>1, <3>4, <3>5, ScannerKinds DEF CopyRecord, Names
  <2>6. CASE ~Wanted(s, x.count)
    <3>2. [x EXCEPT !.seen = Append(@, s)] \in Scanners
      BY <2>2, <2>4 DEF Scanners
    <3>3. scanner' = [scanner EXCEPT ![t] = [x EXCEPT !.seen = Append(@, s)]]
      BY <2>3, <2>6
    <3>4. scanner' \in [Tasks -> Scanners]
      BY <3>2, <3>3
    <3> QED BY <1>1, <2>3, <2>6, <3>4, ScannerKinds DEF CopyRecord
  <2> QED BY <2>5, <2>6
<1>2. ASSUME NEW t \in Tasks, Finish(t) PROVE ScanTypes'
  <2>1. scanner[t] \in Scanners /\ scanner[t].pc \in {"copy", "clear"}
    BY <1>2 DEF Finish, Publish
  <2>2. scanner[t].count \in 0 .. ScanMax
    BY <2>1, ScannerKinds
  <2>3. [pc |-> "clear", count |-> scanner[t].count] \in Scanners
    BY <2>2 DEF Scanners
  <2>4. scanner' \in [Tasks -> Scanners]
    BY <1>2, <1>0, <2>3 DEF Finish
  <2>5. scanning' \in BOOLEAN /\ netCount' \in 0 .. ScanMax
    BY <1>2, <2>2 DEF Finish, Publish, Announce, Count
  <2> QED BY <1>2, <2>4, <2>5, ScannerKinds DEF Finish
<1>3. ASSUME ScanBegin PROVE ScanTypes'
  <2>1. Begin \in Scanners
    BY <1>0 DEF Begin, Scanners
  <2>2. scanner' \in [Tasks -> Scanners] /\ scanning' \in BOOLEAN
    BY <1>3, <2>1 DEF ScanBegin, Begun
  <2> QED BY <1>3, <2>2, ScannerKinds DEF ScanBegin
<1>4. ASSUME Reboot PROVE ScanTypes'
    BY <1>4, <1>0, ScannerKinds DEF Reboot, NoNets
<1>5. ASSUME UNCHANGED scanVars PROVE ScanTypes'
    BY <1>5 DEF scanVars
<1> QED BY <1>1, <1>2, <1>3, <1>4, <1>5 DEF ScanTask

\* Every step keeps the portal's types.
LEMMA PortalTypesKept ==
    ASSUME ScanTypes, PortalTypes, [Next]_vars
    PROVE  PortalTypes'
<1> DEFINE Pages == [open : BOOLEAN, busy : BOOLEAN, saving : BOOLEAN, slot : SlotIds,
                     touched : BOOLEAN, listed : SUBSET SlotIds]
<1>0. /\ 1 \in SlotIds /\ Free \in 0 .. Earlier /\ 1 .. MaxInputs \subseteq 0 .. Earlier
      /\ Idle \in Handlers /\ Idle.pc = "idle" /\ {} \subseteq SlotIds
  <2>1. Idle \in Handlers /\ Idle.pc = "idle"
    BY DEF Idle, Handlers
  <2> QED BY <2>1, PortalAssumption DEF SlotIds, Free, Earlier
<1>1. NoPage \in Pages /\ NewPage \in Pages
    BY <1>0 DEF NoPage, NewPage
<1>2. /\ page \in Pages /\ flight \subseteq Requests /\ http \in Handlers
      /\ http.pc \in {"list", "sent"} => Len(http.list) <= ScanMax
      /\ cfg \in [SlotIds -> 0 .. Earlier] /\ public \in [SlotIds -> 0 .. Earlier]
      /\ commands \in Seq(CommandTypes) /\ Len(commands) <= QueueLen
      /\ ctlPc \in {"publish", "receive"} /\ inputs \in 0 .. MaxInputs
    BY DEF PortalTypes
<1>3. ASSUME NEW p \in Pages, NEW b \in BOOLEAN, NEW d \in SlotIds
      PROVE  /\ p.slot \in SlotIds /\ p.listed \subseteq SlotIds
             /\ [p EXCEPT !.saving = b] \in Pages /\ [p EXCEPT !.busy = b] \in Pages
             /\ [p EXCEPT !.slot = d, !.touched = b] \in Pages
    OBVIOUS
<1>18. /\ [page EXCEPT !.saving = FALSE, !.touched = FALSE] \in Pages
       /\ [page EXCEPT !.open = FALSE, !.saving = FALSE] \in Pages
    BY <1>2
<1>4. /\ [to |-> "page"] \in Requests /\ [to |-> "name"] \in Requests
      /\ [to |-> "other"] \in Requests /\ [to |-> "saved"] \in Requests
      /\ [to |-> "cancel"] \in Requests
      /\ \A b \in BOOLEAN : [to |-> "scan", again |-> b] \in Requests
    BY DEF Requests, Posts
<1> DEFINE Rest == /\ page' \in Pages /\ flight' \subseteq Requests
                   /\ http' \in Handlers
                   /\ http'.pc \in {"list", "sent"} => Len(http'.list) <= ScanMax
           Own == /\ cfg' \in [SlotIds -> 0 .. Earlier]
                  /\ public' \in [SlotIds -> 0 .. Earlier]
                  /\ commands' \in Seq(CommandTypes) /\ Len(commands') <= QueueLen
                  /\ ctlPc' \in {"publish", "receive"} /\ inputs' \in 0 .. MaxInputs
<1>5. SUFFICES Rest /\ Own
    BY Zenon DEF PortalTypes
<1> HIDE DEF Pages
<1>17. ASSUME NEW r, Concludes(r)
       PROVE  page' \in Pages /\ flight' \subseteq Requests
  <2>1. page' = page \/ page' = [page EXCEPT !.open = FALSE, !.saving = FALSE]
    BY <1>17 DEF Concludes
  <2>2. flight' \subseteq flight \cup {[to |-> "saved"]}
    BY <1>17 DEF Concludes
  <2>3. page' \in Pages
    BY <1>2, <1>18, <2>1
  <2> QED BY <1>2, <1>4, <2>2, <2>3
<1>6. CASE Outside
  <2>1. UNCHANGED <<http, cfg, public, ctlPc>>
    BY <1>6 DEF Outside, Visit, ClickScan, TouchSlot, ClickSave, ClickOther, Operate,
                FromOutside, httpVars, ctlVars
  <2>2. inputs' \in 0 .. MaxInputs /\ inputs' \in 1 .. MaxInputs
    <3>1. Input
      BY <1>6 DEF Outside, Visit, ClickScan, TouchSlot, ClickSave, ClickOther, Operate
    <3> QED BY <1>2, <3>1, PortalAssumption DEF Input
  <2>3. page' \in Pages /\ flight' \subseteq Requests
    <3>1. CASE Visit
        BY <1>2, <1>4, <3>1 DEF Visit
    <3>2. CASE ClickScan
        BY <1>2, <1>4, <3>2 DEF ClickScan
    <3>3. CASE TouchSlot
        BY <1>2, <1>3, <3>3 DEF TouchSlot
    <3>4. CASE ClickSave
      <4>1. page' = [page EXCEPT !.saving = TRUE]
            /\ flight' = flight \cup {[to |-> "save", slot |-> page.slot, id |-> inputs']}
        BY <3>4 DEF ClickSave
      <4>2. page' \in Pages /\ page.slot \in SlotIds
        BY <1>2, <1>3, <1>0, <4>1
      <4>3. [to |-> "save", slot |-> page.slot, id |-> inputs'] \in Requests
        BY <2>2, <4>2 DEF Requests, Posts, Saves
      <4> QED BY <1>2, <4>1, <4>2, <4>3
    <3>5. CASE ClickOther
      <4>1. PICK r \in [to : {"del"}, slot : page.listed] \cup {[to |-> "cancel"]} :
               flight' = flight \cup {r}
        BY <3>5 DEF ClickOther
      <4>2. page.listed \subseteq SlotIds
        BY <1>0, <1>2, <1>3
      <4>3. r \in Requests
        BY <4>2 DEF Requests, Posts
      <4> QED BY <1>2, <3>5, <4>1, <4>3 DEF ClickOther
    <3>6. CASE Operate
        BY <1>2, <3>6 DEF Operate
    <3> QED BY <1>6, <3>1, <3>2, <3>3, <3>4, <3>5, <3>6 DEF Outside
  <2>4. commands' \in Seq(CommandTypes) /\ Len(commands') <= QueueLen
    <3>1. CASE Operate
      <4>1. PICK c \in [to : {"display", "confirm-reset", "cancel"}]
                       \cup [to : {"setup"}, slot : 0 .. SlotMax] :
               commands' = Append(commands, [cmd |-> c, said |-> FALSE])
        BY <3>1 DEF Operate
      <4>2. [cmd |-> c, said |-> FALSE] \in CommandTypes
        BY DEF CommandTypes, Commands, Posts
      <4>3. Len(commands) < QueueLen
        BY <3>1 DEF Operate
      <4> HIDE DEF Pages
      <4> QED BY <1>2, <4>1, <4>2, <4>3, PortalAssumption
    <3>2. CASE ~Operate
        BY <1>2, <1>6, <3>2 DEF Outside, Visit, ClickScan, TouchSlot, ClickSave, ClickOther,
                                FromOutside, ctlVars
    <3> QED BY <3>1, <3>2
  <2> QED BY <1>2, <2>1, <2>2, <2>3, <2>4
<1>7. CASE Dns
    BY <1>2, <1>4, <1>7 DEF Dns, FromOutside, httpVars, ctlVars
<1>8. CASE Http
  <2>1. UNCHANGED <<cfg, public, ctlPc, inputs>>
    BY <1>8 DEF Http, Refused, InvalidProfile, Failed, GetScan, PostLook, GetPage, GetOther,
                ReadBusy, ReadEntry, EndList, ShowList, GetSaved, PostBusy, PostSubmit, ByHttp
  <2>2. ASSUME NEW r \in flight, Refused(r) \/ InvalidProfile(r)
        PROVE  Rest /\ Own
      BY <1>0, <1>2, <1>3, <1>4, <2>1, <2>2 DEF Refused, InvalidProfile, Failed
  <2>3. ASSUME NEW r \in flight, GetScan(r) PROVE Rest /\ Own
    <3>1. [pc |-> "busy"] \in Handlers /\ [pc |-> "busy"].pc = "busy"
      BY DEF Handlers
    <3> QED BY <1>2, <2>1, <2>3, <3>1 DEF GetScan
  <2>4. ASSUME NEW r \in flight, PostLook(r) PROVE Rest /\ Own
    <3>1. r \in Posts
      BY <1>2, <2>4, RequestKinds DEF PostLook
    <3> DEFINE said == r.to = "save" /\ public[r.slot] = Free
    <3>2. said \in BOOLEAN
      OBVIOUS
    <3> HIDE DEF said
    <3>3. http' = [pc |-> "submit", request |-> r, direct |-> said]
      BY <2>4 DEF PostLook, said
    <3>4. http' \in Handlers /\ http'.pc = "submit"
      BY <3>1, <3>2, <3>3 DEF Handlers
    <3> QED BY <1>2, <2>1, <2>4, <3>4 DEF PostLook
  <2>5. CASE GetPage
      BY <1>1, <1>2, <1>4, <2>1, <2>5 DEF GetPage
  <2>6. CASE GetOther
      BY <1>2, <1>4, <2>1, <2>6 DEF GetOther
  <2>7. CASE ReadBusy
    <3>1. http' \in [pc : {"list", "sent"}, busy : BOOLEAN, list : Seq(Names)]
          /\ http'.list = <<>>
      BY <2>7 DEF ReadBusy, ScanTypes, ScanTypeOK
    <3>2. Len(http'.list) <= ScanMax
      BY <3>1, ScanAssumption
    <3> QED BY <1>2, <2>1, <2>7, <3>1, <3>2 DEF ReadBusy, Handlers
  <2>8. CASE ReadEntry
    <3>1. http \in [pc : {"list", "sent"}, busy : BOOLEAN, list : Seq(Names)]
          /\ http.list \in Seq(Names)
      BY <1>2, <2>8, HandlerKinds DEF ReadEntry
    <3>2. Len(http.list) + 1 \in 1 .. ScanMax
      BY <2>8, <3>1, ScanAssumption DEF ReadEntry, ScanTypes, ScanTypeOK
    <3>3. nets[Len(http.list) + 1] \in Names
      BY <3>2 DEF ScanTypes, ScanTypeOK, Names
    <3>4. http' = [http EXCEPT !.list = Append(http.list, nets[Len(http.list) + 1])]
      BY <2>8 DEF ReadEntry
    <3>5. Append(http.list, nets[Len(http.list) + 1]) \in Seq(Names)
          /\ Len(Append(http.list, nets[Len(http.list) + 1])) = Len(http.list) + 1
      BY <3>1, <3>3
    <3>6. http' \in [pc : {"list", "sent"}, busy : BOOLEAN, list : Seq(Names)]
          /\ http'.list = Append(http.list, nets[Len(http.list) + 1])
      BY <3>1, <3>4, <3>5
    <3>7. Len(http'.list) <= ScanMax
      BY <3>2, <3>5, <3>6
    <3> QED BY <1>2, <2>1, <2>8, <3>6, <3>7 DEF ReadEntry, Handlers
  <2>9. CASE EndList
    <3>1. http \in [pc : {"list", "sent"}, busy : BOOLEAN, list : Seq(Names)]
      BY <1>2, <2>9, HandlerKinds DEF EndList
    <3>2. http' = [http EXCEPT !.pc = "sent"]
      BY <2>9 DEF EndList
    <3>3. http' \in [pc : {"list", "sent"}, busy : BOOLEAN, list : Seq(Names)]
          /\ http'.list = http.list
      BY <3>1, <3>2
    <3> QED BY <1>2, <2>1, <2>9, <3>3 DEF EndList, Handlers
  <2>10. CASE ShowList
    <3>1. http.busy \in BOOLEAN
      BY <1>2, <2>10, HandlerKinds DEF ShowList
    <3>2. page' \in Pages
      BY <1>0, <1>2, <1>3, <2>10, <3>1 DEF ShowList
    <3>3. flight' \subseteq Requests
      BY <1>2, <1>4, <2>10 DEF ShowList
    <3> QED BY <1>0, <1>2, <2>1, <2>10, <3>2, <3>3 DEF ShowList
  <2>11. CASE GetSaved
    <3>1. Suggested(public) \in SlotIds
      BY SuggestedIsSlot
    <3> DEFINE d == IF page.touched THEN page.slot ELSE Suggested(public)
               l == {i \in SlotIds : public[i] # Free}
    <3>2. d \in SlotIds /\ l \in SUBSET SlotIds
      BY <1>0, <1>2, <1>3, <3>1
    <3>3. page' = [page EXCEPT !.slot = d, !.listed = l]
      BY <2>11 DEF GetSaved
    <3> HIDE DEF d, l
    <3>4. page' \in Pages
      BY <1>2, <3>2, <3>3 DEF Pages
    <3> QED BY <1>2, <2>1, <2>11, <3>4 DEF GetSaved
  <2>12. CASE PostBusy
      BY <1>0, <1>2, <1>3, <1>4, <1>17, <2>1, <2>12 DEF PostBusy
  <2>13. CASE PostSubmit
    <3>1. http.request \in Posts /\ http.direct \in BOOLEAN
      BY <1>2, <2>13, HandlerKinds DEF PostSubmit
    <3>2. PICK said \in {http.direct, FALSE} :
             /\ commands' = Append(commands, [cmd |-> http.request, said |-> said])
             /\ IF said
                  THEN /\ page' = [page EXCEPT !.saving = FALSE, !.touched = FALSE]
                       /\ flight' = flight \cup {[to |-> "saved"]}
                  ELSE Concludes(http.request)
      BY <2>13 DEF PostSubmit
    <3>3. commands' \in Seq(CommandTypes) /\ Len(commands') <= QueueLen
      <4>1. [cmd |-> http.request, said |-> said] \in CommandTypes
        BY <3>1, <3>2 DEF CommandTypes, Commands
      <4>2. Len(commands) < QueueLen
        BY <2>13 DEF PostSubmit
      <4> QED BY <1>2, <3>2, <4>1, <4>2, PortalAssumption
    <3>4. page' \in Pages /\ flight' \subseteq Requests
      <4>1. CASE said
        <5>1. page' = [page EXCEPT !.saving = FALSE, !.touched = FALSE]
              /\ flight' = flight \cup {[to |-> "saved"]}
          BY <3>2, <4>1
        <5>2. page' \in Pages
          BY <1>18, <5>1
        <5> QED BY <1>2, <1>4, <5>1, <5>2
      <4>2. CASE ~said
          BY <1>17, <3>2, <4>2
      <4> QED BY <4>1, <4>2
    <3> QED BY <1>0, <1>2, <2>1, <2>13, <3>3, <3>4 DEF PostSubmit
  <2> QED BY <1>8, <2>2, <2>3, <2>4, <2>5, <2>6, <2>7, <2>8, <2>9, <2>10, <2>11, <2>12, <2>13
          DEF Http
<1>16. CASE Loses
  <2>1. PICK r \in flight : Lost(r)
    BY <1>16 DEF Loses
  <2>2. page' \in Pages /\ flight' \subseteq Requests
    BY <1>17, <2>1 DEF Lost
  <2> QED BY <1>2, <2>1, <2>2 DEF Lost, ByHttp
<1>9. ASSUME Reboot PROVE Rest
    BY <1>0, <1>1, <1>9 DEF Reboot
<1>10. ASSUME StaysUp PROVE Rest
    BY <1>2, <1>10 DEF StaysUp, httpVars
<1>11. CASE PublishSettings
    BY <1>2, <1>10, <1>11 DEF PublishSettings, ByControl
<1>12. CASE Handle
  <2>1. PICK c : \/ AddProfile(c) \/ TryProfile(c) \/ DeleteProfile(c) \/ Cancel(c)
                 \/ Display(c) \/ Preselect(c) \/ Erase(c)
    BY <1>12 DEF Handle
  <2>2. Taken(c) /\ inputs' = inputs
    BY <2>1 DEF AddProfile, TryProfile, DeleteProfile, Cancel, Display, Preselect, Erase,
                ByControl
  <2>3. c \in Commands /\ commands' \in Seq(CommandTypes) /\ Len(commands') <= QueueLen
    BY <2>2, HeadPosted DEF Taken
  <2>4. Rest
    BY <1>9, <1>10, <2>1 DEF AddProfile, TryProfile, DeleteProfile, Cancel, Display,
                             Preselect, Erase
  <2>5. cfg' \in [SlotIds -> 0 .. Earlier]
    <3>1. CASE AddProfile(c)
      <4>1. c.slot \in SlotIds /\ c.id \in 0 .. Earlier
        BY <1>0, <2>3, <3>1, CommandKinds DEF AddProfile
      <4> QED BY <1>2, <3>1, <4>1 DEF AddProfile, Persist
    <3>2. CASE TryProfile(c) \/ Cancel(c)
        BY <1>2, <3>2 DEF TryProfile, Cancel
    <3>3. CASE DeleteProfile(c)
        BY <1>0, <1>2, <3>3 DEF DeleteProfile, Persist
    <3>4. CASE Display(c) \/ Preselect(c)
        BY <1>2, <3>4 DEF Display, Preselect, Persist
    <3>5. CASE Erase(c)
        BY <1>0, <1>2, <3>5 DEF Erase
    <3> QED BY <2>1, <3>1, <3>2, <3>3, <3>4, <3>5
  <2> QED BY <1>2, <2>2, <2>3, <2>4, <2>5 DEF Taken
<1>13. CASE Elapse
    BY <1>2, <1>10, <1>13 DEF Elapse, ByControl
<1>14. CASE Close
    BY <1>2, <1>9, <1>14 DEF Close, ctlVars
<1>15. CASE (\E t \in Tasks : Scanner(t)) \/ UNCHANGED vars
    BY <1>2, <1>15 DEF Scanner, TaskUnchanged, httpVars, ctlVars, vars
<1> QED BY <1>6, <1>7, <1>8, <1>11, <1>12, <1>13, <1>14, <1>15, <1>16 DEF Next, Control

\* Every step keeps the scan's types.
LEMMA ScanTypesStep ==
    ASSUME ScanTypes, [Next]_vars
    PROVE  ScanTypes'
<1>1. CASE Outside \/ Dns \/ Loses
  <2>1. UNCHANGED scanVars
    BY <1>1 DEF Outside, Visit, ClickScan, TouchSlot, ClickSave, ClickOther, Operate, Dns,
                FromOutside, Loses, Lost
  <2> QED BY <2>1, ScanTypesKept
<1>2. CASE Http
  <2>1. ScanBegin \/ UNCHANGED scanVars
    BY <1>2 DEF Http, Refused, InvalidProfile, Failed, GetScan, PostLook, GetPage, GetOther,
                ReadBusy, ReadEntry, EndList, ShowList, GetSaved, PostBusy, PostSubmit
  <2> QED BY <2>1, ScanTypesKept
<1>3. CASE Control
  <2>1. Reboot \/ StaysUp
    BY <1>3 DEF Control, PublishSettings, Handle, AddProfile, TryProfile, DeleteProfile, Cancel,
                Display, Preselect, Erase
  <2> QED BY <2>1, ScanTypesKept DEF StaysUp
<1>4. CASE Elapse \/ Close \/ UNCHANGED vars
  <2>1. Reboot \/ UNCHANGED scanVars
    BY <1>4 DEF Elapse, Close, StaysUp, vars
  <2> QED BY <2>1, ScanTypesKept
<1>5. CASE \E t \in Tasks : Scanner(t)
    BY <1>5, ScanTypesKept DEF Scanner
<1> QED BY <1>1, <1>2, <1>3, <1>4, <1>5 DEF Next

\* Setup begins with all its variables as they are meant to be.
LEMMA PortalTypesInit == Init => ScanTypes /\ PortalTypes
<1> SUFFICES ASSUME Init PROVE ScanTypes /\ PortalTypes
    OBVIOUS
<1>1. ScanTypes
  <2>1. /\ scanning \in BOOLEAN /\ netCount \in 0 .. ScanMax
        /\ nets \in [1 .. ScanMax -> Ssids \cup {Hidden}]
        /\ scanner \in [Tasks -> {None}]
    <3>1. 0 \in 0 .. ScanMax
      BY ScanAssumption
    <3>2. nets \in [1 .. ScanMax -> Ssids \cup {Hidden}]
      BY DEF Init, ScanInit, NoNets
    <3>3. scanner \in [Tasks -> {None}]
      BY Zenon DEF Init, ScanInit
    <3> QED BY <3>1, <3>2, <3>3 DEF Init, ScanInit
  <2>2. None \in Scanners
    BY DEF Scanners
  <2>3. scanner \in [Tasks -> Scanners]
    BY <2>1, <2>2
  <2> QED BY <2>1, <2>3, ScannerKinds DEF ScanTypes, ScanTypeOK
<1>2. /\ 1 \in SlotIds /\ {Free, Earlier} \subseteq 0 .. Earlier
      /\ 0 \in 0 .. MaxInputs /\ QueueLen \in Nat
    BY PortalAssumption DEF SlotIds, Free, Earlier
<1>3. Idle \in Handlers /\ Idle.pc = "idle"
    BY DEF Idle, Handlers
<1>4. commands = <<>> /\ <<>> \in Seq(CommandTypes) /\ Len(<<>>) <= QueueLen
    BY <1>2 DEF Init
<1>5. NoPage \in [open : BOOLEAN, busy : BOOLEAN, saving : BOOLEAN, slot : SlotIds,
                  touched : BOOLEAN, listed : SUBSET SlotIds]
    BY <1>2 DEF NoPage
<1>6. cfg \in [SlotIds -> 0 .. Earlier] /\ public \in [SlotIds -> 0 .. Earlier]
    BY <1>2 DEF Init
<1>7. /\ page = NoPage /\ flight = {} /\ http = Idle /\ ctlPc = "receive" /\ inputs = 0
    BY DEF Init
<1>8. PortalTypes
    BY <1>2, <1>3, <1>4, <1>5, <1>6, <1>7 DEF PortalTypes
<1> QED BY <1>1, <1>8

\* The page, the HTTP task, the settings and the queue of control (main/portal.c,
\* main/control.c) stay within their types: what is served never exceeds the list,
\* the suggested slot is one of the store's, the queue holds what it has room for.
THEOREM PortalTypesHold == Spec => []PortalTypeOK
<1>1. ScanTypes /\ PortalTypes /\ [Next]_vars => (ScanTypes /\ PortalTypes)'
    BY ScanTypesStep, PortalTypesKept
<1>2. ScanTypes /\ PortalTypes => PortalTypeOK
    BY HandlerKinds DEF ScanTypes, PortalTypes, PortalTypeOK
<1> QED BY <1>1, <1>2, PortalTypesInit, PTL DEF Spec

-----------------------------------------------------------------------------
(* A saved network stays. *)

\* A command changes a saved slot only by deleting it or all of them: a profile is
\* written at once only to a slot that control finds empty, whatever the page was
\* answered.
LEMMA SavedStep ==
    ASSUME PortalTypes, [Next]_vars, NEW s \in SlotIds, up, cfg[s] # Free, cfg'[s] # cfg[s]
    PROVE  /\ commands # <<>>
           /\ \/ Head(commands).cmd = [to |-> "del", slot |-> s]
              \/ Head(commands).cmd = [to |-> "confirm-reset"]
<1>1. ~(Outside \/ Dns \/ Loses \/ Http \/ PublishSettings \/ Elapse \/ Close \/ UNCHANGED vars)
    BY DEF Outside, Visit, ClickScan, TouchSlot, ClickSave, ClickOther, Operate, Dns,
           FromOutside, Loses, Lost, Http, Refused, InvalidProfile, Failed, GetScan, PostLook, GetPage, GetOther,
           ReadBusy, ReadEntry, EndList, ShowList, GetSaved, PostBusy, PostSubmit, ByHttp,
           PublishSettings, Elapse, Close, ctlVars, vars
<1>2. ~(\E t \in Tasks : Scanner(t))
    BY DEF Scanner, TaskUnchanged, ctlVars
<1>3. PICK c : \/ AddProfile(c) \/ TryProfile(c) \/ DeleteProfile(c) \/ Cancel(c)
               \/ Display(c) \/ Preselect(c) \/ Erase(c)
    BY <1>1, <1>2 DEF Next, Control, Handle
<1>4. Taken(c) /\ cfg \in [SlotIds -> 0 .. Earlier]
    BY <1>3 DEF AddProfile, TryProfile, DeleteProfile, Cancel, Display, Preselect, Erase,
                PortalTypes
<1>5. commands # <<>> /\ c = Head(commands).cmd /\ c \in Commands
    BY <1>4, HeadPosted DEF Taken
<1>6. ~AddProfile(c)
    BY <1>4 DEF AddProfile, Direct, Persist
<1>7. ~TryProfile(c) /\ ~Cancel(c) /\ ~Display(c) /\ ~Preselect(c)
    BY DEF TryProfile, Cancel, Display, Preselect, Persist
<1>8. CASE DeleteProfile(c)
  <2>1. c.to = "del" /\ c.slot = s
    BY <1>4, <1>8 DEF DeleteProfile, Persist
  <2> QED BY <1>5, <2>1, CommandKinds
<1>9. CASE Erase(c)
    BY <1>5, <1>9, CommandKinds DEF Erase
<1> QED BY <1>3, <1>6, <1>7, <1>8, <1>9

\* While setup runs a saved network leaves its slot by being deleted or by a factory
\* reset and in no other way, however stale the answer was that the page got
\* (main/portal.c's post, main/control.c's stage_json and confirm-reset).
THEOREM SavedNetworksStay == Spec => SavedKept
<1>1. ScanTypes /\ PortalTypes /\ [Next]_vars => (ScanTypes /\ PortalTypes)'
    BY ScanTypesStep, PortalTypesKept
<1>2. ASSUME PortalTypes, [Next]_vars
      PROVE  [\A s \in SlotIds : up /\ cfg[s] # Free /\ cfg'[s] # cfg[s] =>
                /\ commands # <<>>
                /\ \/ Head(commands).cmd = [to |-> "del", slot |-> s]
                   \/ Head(commands).cmd = [to |-> "confirm-reset"]]_vars
    BY <1>2, SavedStep
<1> QED BY <1>1, <1>2, PortalTypesInit, PTL DEF Spec, SavedKept

-----------------------------------------------------------------------------
(* The list a scan makes up. *)

\* No record before has this name, and it can be shown.
New(s, r) == s # Hidden /\ \A j \in 1 .. Len(r) : r[j] # s

\* The first appearances are finitely many, and each has its place among them.
LEMMA FirstsCounted ==
    ASSUME NEW r \in Seq(Names)
    PROVE  /\ Firsts(r) \subseteq 1 .. Len(r) /\ Len(r) \in Nat
           /\ IsFiniteSet(Firsts(r)) /\ Cardinality(Firsts(r)) \in Nat
           /\ \A i \in Firsts(r) : Place(r, i) \in 1 .. Cardinality(Firsts(r))
<1>1. Len(r) \in Nat /\ Firsts(r) \subseteq 1 .. Len(r)
    BY DEF Firsts
<1>2. IsFiniteSet(1 .. Len(r))
    BY <1>1, FS_Interval
<1>3. IsFiniteSet(Firsts(r)) /\ Cardinality(Firsts(r)) \in Nat
    BY <1>1, <1>2, FS_Subset, FS_CardinalityType
<1>4. ASSUME NEW i \in Firsts(r)
      PROVE  Place(r, i) \in 1 .. Cardinality(Firsts(r))
  <2> DEFINE upTo == {j \in Firsts(r) : j <= i}
  <2>1. upTo \subseteq Firsts(r) /\ i \in upTo
    BY <1>1, <1>4
  <2>2. IsFiniteSet(upTo) /\ Cardinality(upTo) \in Nat
        /\ Cardinality(upTo) <= Cardinality(Firsts(r))
    BY <1>3, <2>1, FS_Subset, FS_CardinalityType
  <2>3. Cardinality(upTo) # 0
    BY <2>1, <2>2, FS_EmptySet
  <2>4. Place(r, i) = Cardinality(upTo)
    BY DEF Place
  <2> HIDE DEF upTo
  <2> QED BY <1>3, <2>2, <2>3, <2>4
<1> QED BY <1>1, <1>3, <1>4

\* One more record is a first appearance if it is new, the last of them; it changes
\* neither the others nor their places.
LEMMA FirstsGrow ==
    ASSUME NEW r \in Seq(Names), NEW s \in Names
    PROVE  LET a == Append(r, s) n == Len(r) + 1 IN
           /\ \A i \in Firsts(r) : a[i] = r[i] /\ Place(a, i) = Place(r, i)
           /\ a[n] = s
           /\ New(s, r) => /\ Firsts(a) = Firsts(r) \cup {n}
                           /\ Place(a, n) = Cardinality(Firsts(r)) + 1
                           /\ Cardinality(Firsts(a)) = Cardinality(Firsts(r)) + 1
           /\ ~New(s, r) => Firsts(a) = Firsts(r)
<1> DEFINE a == Append(r, s) n == Len(r) + 1
<1>1. /\ a \in Seq(Names) /\ Len(a) = n /\ n \in Nat /\ a[n] = s /\ Len(r) \in Nat
      /\ \A i \in 1 .. Len(r) : a[i] = r[i]
      /\ DOMAIN a = 1 .. n /\ DOMAIN r = 1 .. Len(r)
    OBVIOUS
<1>2. Firsts(r) \subseteq 1 .. Len(r)
    BY FirstsCounted
<1> HIDE DEF a
<1>3. \A i \in 1 .. Len(r) : i \in Firsts(a) <=> i \in Firsts(r)
  <2> SUFFICES ASSUME NEW i \in 1 .. Len(r)
               PROVE  i \in Firsts(a) <=> i \in Firsts(r)
    OBVIOUS
  <2>1. i \in DOMAIN a /\ i \in DOMAIN r /\ a[i] = r[i]
    BY <1>1
  <2>2. \A j \in 1 .. i - 1 : a[j] = r[j]
    BY <1>1
  <2> QED BY <2>1, <2>2 DEF Firsts
<1>4. n \in Firsts(a) <=> New(s, r)
  <2>1. n \in DOMAIN a /\ n - 1 = Len(r)
    BY <1>1
  <2> QED BY <1>1, <2>1 DEF Firsts, New
<1>5. Firsts(a) \subseteq 1 .. n /\ n \notin Firsts(r)
    BY <1>1, <1>2 DEF Firsts
<1>6. New(s, r) => Firsts(a) = Firsts(r) \cup {n}
    BY <1>1, <1>2, <1>3, <1>4, <1>5
<1>7. ~New(s, r) => Firsts(a) = Firsts(r)
    BY <1>1, <1>2, <1>3, <1>4, <1>5
<1>8. ASSUME NEW i \in Firsts(r) PROVE Place(a, i) = Place(r, i)
  <2>1. {j \in Firsts(a) : j <= i} = {j \in Firsts(r) : j <= i}
    BY <1>1, <1>2, <1>3, <1>5, <1>8
  <2> QED BY <2>1 DEF Place
<1>9. ASSUME New(s, r)
      PROVE  /\ Cardinality(Firsts(a)) = Cardinality(Firsts(r)) + 1
             /\ Place(a, n) = Cardinality(Firsts(r)) + 1
  <2>1. Cardinality(Firsts(r) \cup {n}) = Cardinality(Firsts(r)) + 1
    BY <1>5, FirstsCounted, FS_AddElement
  <2>2. {j \in Firsts(a) : j <= n} = Firsts(a)
    BY <1>1, <1>5
  <2> QED BY <1>6, <1>9, <2>1, <2>2 DEF Place
<1> QED BY <1>1, <1>2, <1>6, <1>7, <1>8, <1>9 DEF a

\* Every name that can be shown appears a first time.
LEMMA FirstExists ==
    ASSUME NEW r \in Seq(Names), NEW j \in 1 .. Len(r), r[j] # Hidden
    PROVE  \E i \in Firsts(r) : r[i] = r[j]
<1> DEFINE same == {i \in 1 .. Len(r) : r[i] = r[j]}
<1>1. same \subseteq Nat /\ j \in same /\ Len(r) \in Nat
    OBVIOUS
<1>2. PICK i \in same : \A m \in same : ~(<<m, i>> \in OpToRel(<, Nat))
    BY <1>1, NatLessThanWellFounded, WFMin
<1>3. \A m, k \in Nat : m < k => <<m, k>> \in OpToRel(<, Nat)
    BY DEF OpToRel
<1>4. ASSUME NEW m \in same PROVE ~(m < i)
  <2>1. m \in Nat /\ i \in Nat
    BY <1>1
  <2> QED BY <1>2, <1>3, <2>1
<1>5. ASSUME NEW m \in 1 .. i - 1 PROVE r[m] # r[i]
  <2>1. i \in 1 .. Len(r) /\ r[i] = r[j]
    OBVIOUS
  <2>2. m \in 1 .. Len(r) /\ m < i
    BY <1>1, <1>5, <2>1
  <2>3. m \notin same
    BY <1>4, <2>2
  <2> QED BY <2>1, <2>2, <2>3
<1>6. i \in Firsts(r)
    BY <1>5 DEF Firsts
<1> QED BY <1>6

\* scan_task looks for a name among the entries it made, and finds it just when an
\* earlier record had it.
LEMMA WantedIsNew ==
    ASSUME NEW r \in Seq(Names), NEW s \in Names, NEW count \in 0 .. ScanMax,
           Holds(count, r), count < ScanMax
    PROVE  Wanted(s, count) <=> New(s, r)
<1>1. ScanMax \in Nat /\ count \in Nat
    BY ScanAssumption
<1>2. count = Cardinality(Firsts(r)) /\ Cardinality(Firsts(r)) \in Nat
    BY <1>1, FirstsCounted DEF Holds, Fit
<1>3. ASSUME s # Hidden, NEW j \in 1 .. Len(r), r[j] = s
      PROVE  \E k \in 1 .. count : nets[k] = s
  <2>1. PICK i \in Firsts(r) : r[i] = s
    BY <1>3, FirstExists
  <2>2. Place(r, i) \in 1 .. count /\ Place(r, i) <= count
    BY <1>2, FirstsCounted
  <2>3. nets[Place(r, i)] = s
    BY <2>1, <2>2 DEF Holds
  <2> QED BY <2>2, <2>3
<1>4. ASSUME NEW k \in 1 .. count, nets[k] = s
      PROVE  \E j \in 1 .. Len(r) : r[j] = s
  <2>1. PICK i \in Firsts(r) : Place(r, i) = k
    BY DEF Holds
  <2>2. k <= count
    BY <1>1
  <2>3. r[i] = s
    BY <1>4, <2>1, <2>2 DEF Holds
  <2> QED BY <2>3, FirstsCounted
<1> QED BY <1>3, <1>4 DEF Wanted, New

\* A scan that has seen nothing has made up nothing.
LEMMA HoldsNothing == Holds(0, <<>>)
<1>1. Firsts(<<>>) = {}
    BY DEF Firsts
<1>2. Cardinality({}) = 0
    BY FS_EmptySet
<1>3. Cardinality(Firsts(<<>>)) = 0 /\ Cardinality(Firsts(<<>>)) < ScanMax
  <2>1. 0 < ScanMax
    BY ScanAssumption
  <2> QED BY <1>1, <1>2, <2>1, Zenon
<1>4. Fit(<<>>) = 0
    BY <1>3, Zenon DEF Fit
<1> QED BY <1>1, <1>4 DEF Holds

\* A record that is wanted goes behind the entries there are, and they stay ...
LEMMA HoldsMore ==
    ASSUME NEW r \in Seq(Names), NEW s \in Names, NEW count \in 0 .. ScanMax,
           nets \in [1 .. ScanMax -> Names], Holds(count, r),
           Wanted(s, count), nets' = [nets EXCEPT ![count + 1] = s]
    PROVE  Holds(count + 1, Append(r, s))'
<1> DEFINE a == Append(r, s) n == Len(r) + 1
<1>1. ScanMax \in Nat /\ count \in Nat /\ count < ScanMax
    BY ScanAssumption DEF Wanted
<1>2. New(s, r)
    BY <1>1, WantedIsNew
<1>3. count = Cardinality(Firsts(r)) /\ Cardinality(Firsts(r)) \in Nat
    BY <1>1, FirstsCounted DEF Holds, Fit
<1>4. /\ \A i \in Firsts(r) : a[i] = r[i] /\ Place(a, i) = Place(r, i)
      /\ a[n] = s /\ Firsts(a) = Firsts(r) \cup {n} /\ Place(a, n) = count + 1
      /\ Cardinality(Firsts(a)) = count + 1
    BY <1>2, <1>3, FirstsGrow
<1> HIDE DEF a, n
<1>5. count + 1 = Fit(a)
    BY <1>1, <1>4 DEF Fit
<1>6. nets'[count + 1] = s /\ \A k \in 1 .. count : nets'[k] = nets[k]
    BY <1>1
<1>7. ASSUME NEW i \in Firsts(a) PROVE nets'[Place(a, i)] = a[i]
  <2>1. CASE i \in Firsts(r)
    <3>1. Place(r, i) \in 1 .. count /\ Place(r, i) <= count
      BY <1>1, <1>3, <2>1, FirstsCounted
    <3>2. nets[Place(r, i)] = r[i]
      BY <2>1, <3>1 DEF Holds
    <3> QED BY <1>4, <1>6, <2>1, <3>1, <3>2
  <2>2. CASE i = n
      BY <1>4, <1>6, <2>2
  <2> QED BY <1>4, <2>1, <2>2
<1>8. ASSUME NEW k \in 1 .. count + 1 PROVE \E i \in Firsts(a) : Place(a, i) = k
  <2>1. CASE k = count + 1
      BY <1>4, <2>1
  <2>2. CASE k # count + 1
    <3>1. k \in 1 .. count
      BY <1>1, <2>2
    <3>2. PICK i \in Firsts(r) : Place(r, i) = k
      BY <3>1 DEF Holds
    <3> QED BY <1>4, <3>2
  <2> QED BY <2>1, <2>2
<1> QED BY <1>5, <1>7, <1>8 DEF Holds, a, Fit, Firsts, Place

\* ... and one that is not wanted changes nothing: it was there, or there is no room.
LEMMA HoldsSame ==
    ASSUME NEW r \in Seq(Names), NEW s \in Names, NEW count \in 0 .. ScanMax,
           Holds(count, r), ~Wanted(s, count)
    PROVE  Holds(count, Append(r, s))
<1> DEFINE a == Append(r, s) n == Len(r) + 1
<1>1. ScanMax \in Nat /\ count \in Nat /\ count <= ScanMax
    BY ScanAssumption
<1>2. /\ \A i \in Firsts(r) : a[i] = r[i] /\ Place(a, i) = Place(r, i)
      /\ New(s, r) => /\ Firsts(a) = Firsts(r) \cup {n}
                      /\ Place(a, n) = Cardinality(Firsts(r)) + 1
                      /\ Cardinality(Firsts(a)) = Cardinality(Firsts(r)) + 1
      /\ ~New(s, r) => Firsts(a) = Firsts(r)
    BY FirstsGrow
<1> HIDE DEF a, n
<1>3. CASE ~New(s, r)
    BY <1>2, <1>3 DEF Holds, Fit, a
<1>4. CASE New(s, r)
  <2>1. count = ScanMax
    BY <1>1, <1>4, WantedIsNew
  <2>2. Cardinality(Firsts(r)) \in Nat /\ Cardinality(Firsts(r)) >= ScanMax
    BY <1>1, <2>1, FirstsCounted DEF Holds, Fit
  <2>3. count = Fit(a)
    BY <1>1, <1>2, <1>4, <2>1, <2>2 DEF Fit
  <2>4. ASSUME NEW i \in Firsts(a), Place(a, i) <= count PROVE nets[Place(a, i)] = a[i]
    <3>1. i # n
      BY <1>1, <1>2, <1>4, <2>1, <2>2, <2>4
    <3>2. i \in Firsts(r)
      BY <1>2, <1>4, <3>1
    <3> QED BY <1>2, <2>4, <3>2 DEF Holds
  <2>5. \A k \in 1 .. count : \E i \in Firsts(a) : Place(a, i) = k
    BY <1>2, <1>4 DEF Holds
  <2> QED BY <2>3, <2>4, <2>5 DEF Holds, a
<1> QED BY <1>3, <1>4

\* A list made up of all records is the one that is to be served.
LEMMA HoldsIsListed ==
    ASSUME NEW r \in Seq(Names), NEW count \in 0 .. ScanMax, Holds(count, r)
    PROVE  /\ Listed(r) \in Seq(Names) /\ Len(Listed(r)) = count
           /\ \A k \in 1 .. count : Listed(r)[k] = nets[k]
<1>1. count \in Nat /\ count = Fit(r)
    BY ScanAssumption DEF Holds
<1> DEFINE pick(k) == CHOOSE i \in Firsts(r) : Place(r, i) = k
<1>2. ASSUME NEW k \in 1 .. count
      PROVE  pick(k) \in Firsts(r) /\ Place(r, pick(k)) = k /\ k <= count
  <2>1. \E i \in Firsts(r) : Place(r, i) = k
    BY DEF Holds
  <2> QED BY <1>1, <2>1
<1> HIDE DEF pick
<1>3. ASSUME NEW k \in 1 .. count PROVE r[pick(k)] = nets[k] /\ r[pick(k)] \in Names
  <2>1. nets[k] = r[pick(k)]
    BY <1>2 DEF Holds
  <2>2. pick(k) \in 1 .. Len(r)
    BY <1>2, FirstsCounted
  <2> QED BY <2>1, <2>2
<1>4. Listed(r) = [k \in 1 .. count |-> r[pick(k)]]
    BY <1>1 DEF Listed, pick
<1>5. Listed(r) \in [1 .. count -> Names]
    BY <1>3, <1>4
<1> QED BY <1>1, <1>3, <1>4, <1>5

-----------------------------------------------------------------------------
(* The scan and the HTTP task share the list. *)

\* A scan task makes up its list alone, counts it when it has seen all records, and
\* says that it is done after that.
LEMMA ScanTaskKeeps ==
    ASSUME ScanTypes, ScanInv, NEW t \in Tasks, ScanTask(t)
    PROVE  ScanInv'
<1>1. scanner[t] # None /\ scanning
  <2>1. scanner[t].pc \in {"copy", "clear"}
    BY DEF ScanTask, CopyRecord, Finish, Publish
  <2>2. scanner[t] # None
    BY <2>1 DEF None
  <2> QED BY <2>2 DEF ScanInv
<1>2. \A u \in Tasks : u # t => scanner[u] = None
    BY <1>1 DEF ScanInv
<1>3. scanner[t] \in Scanners /\ nets \in [1 .. ScanMax -> Names]
    BY DEF ScanTypes, ScanTypeOK, Names
<1>4. None.pc = "none"
    BY DEF None
<1> DEFINE x == scanner[t]
<1>5. CASE CopyRecord(t)
  <2>1. x.pc = "copy" /\ UNCHANGED <<scanning, netCount, last>>
    BY <1>5 DEF CopyRecord
  <2>2. /\ x \in [pc : {"copy"}, seen : Seq(Names), count : 0 .. ScanMax]
        /\ x.seen \in Seq(Names) /\ x.count \in 0 .. ScanMax
    BY <1>3, <2>1, ScannerKinds
  <2>3. Holds(x.count, x.seen)
    BY <2>1 DEF ScanInv
  <2>4. PICK s \in Names :
           IF Wanted(s, x.count)
           THEN /\ nets' = [nets EXCEPT ![x.count + 1] = s]
                /\ scanner' = [scanner EXCEPT ![t].seen = Append(@, s), ![t].count = x.count + 1]
           ELSE /\ scanner' = [scanner EXCEPT ![t].seen = Append(@, s)]
                /\ UNCHANGED nets
    BY <1>5 DEF CopyRecord, Names
  <2>5. \A u \in Tasks : u # t => scanner'[u] = None
    BY <1>2, <2>4, <1>3 DEF ScanTypes
  <2>6. Holds(scanner[t].count, scanner[t].seen)' /\ scanner'[t].pc = "copy"
    <3>1. CASE Wanted(s, x.count)
      <4>1. scanner'[t] = [x EXCEPT !.seen = Append(@, s), !.count = x.count + 1]
        BY <2>4, <3>1 DEF ScanTypes
      <4>2. /\ scanner'[t].seen = Append(x.seen, s) /\ scanner'[t].count = x.count + 1
            /\ scanner'[t].pc = "copy"
        BY <2>2, <4>1
      <4>3. PICK r \in Seq(Names), c \in 0 .. ScanMax : r = x.seen /\ c = x.count
        BY <2>2
      <4>4. Holds(c, r) /\ Wanted(s, c) /\ nets' = [nets EXCEPT ![c + 1] = s]
        BY <2>3, <2>4, <3>1, <4>3
      <4>5. Holds(c + 1, Append(r, s))'
        BY <1>3, <4>4, HoldsMore
      <4>6. scanner'[t].seen = Append(r, s) /\ scanner'[t].count = c + 1
        BY <4>2, <4>3
      <4> QED BY <4>2, <4>5, <4>6
    <3>2. CASE ~Wanted(s, x.count)
      <4>1. scanner'[t] = [x EXCEPT !.seen = Append(@, s)] /\ nets' = nets
        BY <2>4, <3>2 DEF ScanTypes
      <4>2. /\ scanner'[t].seen = Append(x.seen, s) /\ scanner'[t].count = x.count
            /\ scanner'[t].pc = "copy"
        BY <2>2, <4>1
      <4>3. PICK r \in Seq(Names), c \in 0 .. ScanMax : r = x.seen /\ c = x.count
        BY <2>2
      <4>4. Holds(c, r) /\ ~Wanted(s, c)
        BY <2>3, <3>2, <4>3
      <4>5. Holds(c, Append(r, s))
        BY <4>4, HoldsSame
      <4>6. Holds(c, Append(r, s))'
        BY <4>1, <4>5 DEF Holds
      <4>7. scanner'[t].seen = Append(r, s) /\ scanner'[t].count = c
        BY <4>2, <4>3
      <4> QED BY <4>2, <4>6, <4>7
    <3> QED BY <3>1, <3>2
  <2> QED BY <1>1, <1>4, <2>1, <2>5, <2>6 DEF ScanInv
<1>6. CASE Finish(t) /\ x.pc = "copy"
  <2>1. x.seen \in Seq(Names) /\ x.count \in 0 .. ScanMax /\ Holds(x.count, x.seen)
    BY <1>3, <1>6, ScannerKinds DEF ScanInv
  <2>2. /\ netCount' = x.count /\ last' = Listed(x.seen) /\ UNCHANGED <<scanning, nets>>
        /\ scanner' = [scanner EXCEPT ![t] = [pc |-> "clear", count |-> @.count]]
    BY <1>6 DEF Finish, Publish, Count
  <2>3. Published(netCount)' /\ last' \in Seq(Names)
    BY <2>1, <2>2, HoldsIsListed DEF Published
  <2>4. scanner'[t].pc = "clear" /\ \A u \in Tasks : u # t => scanner'[u] = None
    BY <1>2, <2>2 DEF ScanTypes
  <2> QED BY <1>1, <1>4, <2>2, <2>3, <2>4 DEF ScanInv
<1>7. CASE Finish(t) /\ x.pc # "copy"
  <2>1. x.pc = "clear" /\ Announce(t)
    BY <1>7 DEF Finish, Publish
  <2>2. UNCHANGED <<netCount, last, nets>> /\ scanner' = [scanner EXCEPT ![t] = None]
    BY <1>7, <2>1 DEF Finish, Announce
  <2>3. Published(netCount)' /\ last' \in Seq(Names)
    BY <2>1, <2>2 DEF ScanInv, Published
  <2>4. \A u \in Tasks : scanner'[u] = None
    BY <1>2, <2>2 DEF ScanTypes
  <2> QED BY <1>4, <2>3, <2>4 DEF ScanInv
<1> QED BY <1>5, <1>6, <1>7 DEF ScanTask

\* scan_begin starts one scan at a time, and a restart leaves none.
LEMMA ScanBeginKeeps ==
    ASSUME ScanTypes, ScanInv
    PROVE  /\ ScanBegin => ScanInv'
           /\ Reboot => ScanInv'
           /\ UNCHANGED scanVars => ScanInv'
<1>1. None.pc = "none" /\ Begin.pc = "copy" /\ Begin.seen = <<>> /\ Begin.count = 0
    BY DEF None, Begin
<1>2. ASSUME UNCHANGED scanVars PROVE ScanInv'
    BY <1>2 DEF ScanInv, scanVars, Holds, Published
<1>3. ASSUME Reboot PROVE ScanInv'
  <2>1. \A t \in Tasks : scanner'[t] = None
    BY <1>3 DEF Reboot
  <2>2. last' = <<>> /\ netCount' = 0
    BY <1>3 DEF Reboot
  <2>3. Published(netCount)' /\ last' \in Seq(Names)
    BY <2>2 DEF Published
  <2> QED BY <1>1, <2>1, <2>3 DEF ScanInv
<1>4. ASSUME ScanBegin PROVE ScanInv'
  <2>1. UNCHANGED <<netCount, nets>>
    BY <1>4 DEF ScanBegin
  <2>2. CASE scanning' = scanning /\ scanner' = scanner
    <3>1. last' = last
      BY <1>4, <2>2 DEF ScanBegin
    <3> QED BY <1>2, <2>1, <2>2, <3>1 DEF scanVars
  <2>3. CASE ~(scanning' = scanning /\ scanner' = scanner)
    <3>1. ~scanning /\ Begun
      BY <1>4, <2>3 DEF ScanBegin
    <3>2. PICK t \in Tasks : scanning' = TRUE /\ scanner' = [scanner EXCEPT ![t] = Begin]
      BY <2>3, <3>1 DEF Begun
    <3>3. \A u \in Tasks : scanner[u] = None
      BY <3>1 DEF ScanInv
    <3>4. scanner'[t] = Begin /\ \A u \in Tasks : u # t => scanner'[u] = None
      BY <3>2, <3>3 DEF ScanTypes
    <3>5. Holds(scanner[t].count, scanner[t].seen)'
      BY <1>1, <2>1, <3>4, HoldsNothing DEF Holds
    <3>6. last' = <<>>
      BY <1>4, <3>1, <3>2 DEF ScanBegin
    <3> QED BY <1>1, <3>2, <3>4, <3>5, <3>6 DEF ScanInv
  <2> QED BY <2>2, <2>3
<1> QED BY <1>2, <1>3, <1>4

\* Every step keeps what is known of the scan; only scan_get, when nothing is being
\* served, begins one.
LEMMA ScanInvKept ==
    ASSUME ScanTypes, ScanInv, [Next]_vars
    PROVE  ScanInv'
<1>1. CASE Outside \/ Dns \/ Loses
  <2>1. UNCHANGED scanVars
    BY <1>1 DEF Outside, Visit, ClickScan, TouchSlot, ClickSave, ClickOther, Operate, Dns,
                FromOutside, Loses, Lost
  <2> QED BY <2>1, ScanBeginKeeps
<1>2. CASE Http
  <2>1. ScanBegin \/ UNCHANGED scanVars
    BY <1>2 DEF Http, Refused, InvalidProfile, Failed, GetScan, PostLook, GetPage, GetOther,
                ReadBusy, ReadEntry, EndList, ShowList, GetSaved, PostBusy, PostSubmit
  <2> QED BY <2>1, ScanBeginKeeps
<1>3. CASE Control
  <2>1. Reboot \/ StaysUp
    BY <1>3 DEF Control, PublishSettings, Handle, AddProfile, TryProfile, DeleteProfile, Cancel,
                Display, Preselect, Erase
  <2> QED BY <2>1, ScanBeginKeeps DEF StaysUp
<1>4. CASE Elapse \/ Close \/ UNCHANGED vars
  <2>1. Reboot \/ UNCHANGED scanVars
    BY <1>4 DEF Elapse, Close, StaysUp, vars
  <2> QED BY <2>1, ScanBeginKeeps
<1>5. CASE \E t \in Tasks : Scanner(t)
    BY <1>5, ScanTaskKeeps DEF Scanner
<1> QED BY <1>1, <1>2, <1>3, <1>4, <1>5 DEF Next

\* While an idle list is served no scan runs, and what was read is what it holds.
LEMMA ServedInvKept ==
    ASSUME ScanTypes, PortalTypes, ScanInv, ServedInv, [Next]_vars
    PROVE  ServedInv'
<1> DEFINE Serving == http.pc \in {"list", "sent"} /\ ~http.busy
<1>0. Idle.pc = "idle" /\ http \in Handlers /\ ScanMax \in Nat /\ netCount \in 0 .. ScanMax
    BY ScanAssumption DEF Idle, PortalTypes, ScanTypes, ScanTypeOK
<1>1. ASSUME UNCHANGED <<scanning, netCount, nets, http>> PROVE ServedInv'
    BY <1>1 DEF ServedInv
<1>2. ASSUME http'.pc \notin {"list", "sent"} PROVE ServedInv'
    BY <1>2 DEF ServedInv
<1>3. CASE Outside \/ Dns \/ Loses
    BY <1>1, <1>3 DEF Outside, Visit, ClickScan, TouchSlot, ClickSave, ClickOther, Operate, Dns,
                      FromOutside, Loses, Lost, scanVars, httpVars
<1>4. CASE Http
  <2>1. ASSUME NEW r \in flight, Refused(r) \/ InvalidProfile(r) PROVE ServedInv'
      BY <1>1, <2>1 DEF Refused, InvalidProfile, Failed, scanVars
  <2>2. ASSUME NEW r \in flight, GetScan(r) \/ PostLook(r) PROVE ServedInv'
      BY <1>2, <2>2 DEF GetScan, PostLook
  <2>3. CASE GetPage \/ GetOther \/ GetSaved
      BY <1>1, <2>3 DEF GetPage, GetOther, GetSaved, scanVars
  <2>4. CASE ShowList \/ PostBusy \/ PostSubmit
      BY <1>0, <1>2, <2>4 DEF ShowList, PostBusy, PostSubmit
  <2>5. CASE ReadBusy
    <3>1. http' = [pc |-> "list", busy |-> scanning, list |-> <<>>]
          /\ UNCHANGED <<scanning, netCount, nets>>
      BY <2>5 DEF ReadBusy, scanVars
    <3> QED BY <1>0, <3>1 DEF ServedInv
  <2>6. CASE ReadEntry
    <3>1. /\ http \in [pc : {"list", "sent"}, busy : BOOLEAN, list : Seq(Names)]
          /\ http.list \in Seq(Names) /\ http.pc = "list" /\ Len(http.list) < netCount
          /\ UNCHANGED <<scanning, netCount, nets>>
      BY <1>0, <2>6, HandlerKinds DEF ReadEntry, scanVars
    <3> DEFINE m == Len(http.list) + 1 l == Append(http.list, nets[m])
    <3>2. http' = [http EXCEPT !.list = l]
      BY <2>6 DEF ReadEntry
    <3>3. http'.pc = "list" /\ http'.busy = http.busy /\ http'.list = l
      BY <3>1, <3>2
    <3>4. m \in 1 .. ScanMax /\ m <= netCount
      BY <1>0, <3>1
    <3>5. nets[m] \in Names
      BY <3>4 DEF ScanTypes, ScanTypeOK, Names
    <3>6. Len(l) = m /\ l[m] = nets[m] /\ \A k \in 1 .. m - 1 : l[k] = http.list[k]
      BY <3>1, <3>5
    <3>7. ASSUME ~http.busy PROVE \A k \in 1 .. m : l[k] = nets[k]
      <4>1. \A k \in 1 .. m - 1 : http.list[k] = nets[k]
        BY <3>1, <3>7 DEF ServedInv
      <4> QED BY <3>4, <3>6, <4>1
    <3>8. ~http.busy => ~scanning
      BY <3>1 DEF ServedInv
    <3> HIDE DEF l, m
    <3> QED BY <3>1, <3>3, <3>4, <3>6, <3>7, <3>8 DEF ServedInv
  <2>7. CASE EndList
    <3>1. /\ http \in [pc : {"list", "sent"}, busy : BOOLEAN, list : Seq(Names)]
          /\ http.list \in Seq(Names) /\ http.pc = "list" /\ Len(http.list) >= netCount
          /\ UNCHANGED <<scanning, netCount, nets>>
      BY <1>0, <2>7, HandlerKinds DEF EndList, scanVars
    <3>2. http' = [http EXCEPT !.pc = "sent"]
      BY <2>7 DEF EndList
    <3>3. http'.busy = http.busy /\ http'.list = http.list
      BY <3>1, <3>2
    <3>4. ~http.busy => Len(http.list) = netCount
      BY <1>0, <3>1 DEF ServedInv
    <3> QED BY <3>1, <3>3, <3>4 DEF ServedInv
  <2> QED BY <1>4, <2>1, <2>2, <2>3, <2>4, <2>5, <2>6, <2>7 DEF Http
<1>5. ASSUME Reboot PROVE ServedInv'
    BY <1>0, <1>2, <1>5 DEF Reboot
<1>6. ASSUME StaysUp PROVE ServedInv'
    BY <1>1, <1>6 DEF StaysUp, scanVars, httpVars
<1>7. CASE Control
    BY <1>5, <1>6, <1>7
    DEF Control, PublishSettings, Handle, AddProfile, TryProfile, DeleteProfile, Cancel,
        Display, Preselect, Erase
<1>8. CASE Elapse \/ Close \/ UNCHANGED vars
    BY <1>1, <1>5, <1>6, <1>8 DEF Elapse, Close, vars, scanVars, httpVars
<1>9. ASSUME NEW t \in Tasks, Scanner(t) PROVE ServedInv'
  <2>1. scanning
    <3>1. scanner[t].pc \in {"copy", "clear"}
      BY <1>9 DEF Scanner, ScanTask, CopyRecord, Finish, Publish
    <3>2. scanner[t] # None
      BY <3>1 DEF None
    <3> QED BY <3>2 DEF ScanInv
  <2>2. http' = http
    BY <1>9 DEF Scanner, TaskUnchanged, httpVars
  <2> QED BY <2>1, <2>2 DEF ServedInv
<1> QED BY <1>3, <1>4, <1>7, <1>8, <1>9 DEF Next

\* What the page is given once "busy" has cleared is the last scan's result, whole and
\* of no other scan (main/portal.c's scan_task, scan_begin and scan_get, which share
\* the list without a lock).
THEOREM ServedListIsFinal == Spec => []FinalWhenIdle
<1>1. Init => PortalInv
  <2> SUFFICES ASSUME Init PROVE ScanInv /\ ServedInv
      BY PortalTypesInit DEF PortalInv
  <2>1. None.pc = "none" /\ Idle.pc = "idle"
    BY DEF None, Idle
  <2>2. /\ \A t \in Tasks : scanner[t] = None
        /\ last = <<>> /\ netCount = 0 /\ http = Idle
    BY DEF Init, ScanInit
  <2>3. Published(netCount) /\ last \in Seq(Names)
    BY <2>2 DEF Published
  <2> QED BY <2>1, <2>2, <2>3 DEF ScanInv, ServedInv
<1>2. PortalInv /\ [Next]_vars => PortalInv'
    BY ScanTypesStep, PortalTypesKept, ScanInvKept, ServedInvKept DEF PortalInv
<1>3. ASSUME PortalInv PROVE FinalWhenIdle
  <2> SUFFICES ASSUME http.pc = "sent", ~http.busy PROVE http.list = last
      BY DEF FinalWhenIdle
  <2>1. /\ http \in Handlers /\ ServedInv /\ ScanInv
        /\ http.pc = "sent" /\ ~http.busy
    BY <1>3 DEF PortalInv, PortalTypes
  <2>2. http.list \in Seq(Names) /\ last \in Seq(Names)
    BY <2>1, HandlerKinds DEF ScanInv
  <2>3. /\ ~scanning /\ Len(http.list) = netCount
        /\ \A k \in 1 .. Len(http.list) : http.list[k] = nets[k]
    BY <2>1 DEF ServedInv
  <2>4. Len(last) = netCount /\ \A k \in 1 .. netCount : last[k] = nets[k]
    BY <2>1, <2>3 DEF ScanInv, Published
  <2> QED BY <2>2, <2>3, <2>4
<1> QED BY <1>1, <1>2, <1>3, PTL DEF Spec

=============================================================================
