------------------------------- MODULE Portal -------------------------------
(***************************************************************************)
(* Setup mode (main/portal.c): the page in the user's browser, the HTTP    *)
(* server, which runs one handler at a time, and the control task          *)
(* (main/control.c), to which POST hands its commands.  POST answers at    *)
(* once, from the control task's last published copy of the settings, what *)
(* control will make of the command later, from the settings themselves.   *)
(*                                                                         *)
(* The list of networks is module Scan.  A saved profile is the number of  *)
(* the request that brought it.  Time is not modelled: timers of the page  *)
(* run out whenever they like.                                             *)
(***************************************************************************)
EXTENDS Scan

CONSTANTS
    SlotMax,        \* PROFILE_MAX, 8
    QueueLen,       \* commands the control task's queue holds, 4
    Preselected,    \* the slots "setup N" may have restarted into setup with
    MaxInputs       \* bound: what the user does

ASSUME PortalAssumption ==
    /\ SlotMax \in Nat \ {0} /\ QueueLen \in Nat \ {0} /\ MaxInputs \in Nat
    /\ Preselected \subseteq 0 .. SlotMax

VARIABLES
    up,             \* setup mode runs
    page,           \* the page in the browser
    flight,         \* requests on their way, timers that will send one included
    http, scanned,  \* the HTTP task, and scan_get's static
    cfg, recent,    \* control: the settings; the last write was within 2 s
    public,         \* the published copy of cfg
    commands, ctlPc,            \* the control task's queue, and where it is
    want,           \* setup_preferred_slot(), 0 for none
    inputs          \* used up of the bound

httpVars == <<http, scanned>>
ctlVars == <<cfg, recent, public, commands, ctlPc>>
bootVars == <<up, want>>
vars == <<scanVars, httpVars, ctlVars, bootVars, page, flight, inputs>>

SlotIds == 1 .. SlotMax
Free == 0                   \* an empty slot
Earlier == MaxInputs + 1    \* a profile saved in an earlier session
Idle == [pc |-> "idle"]

\* One page is open at a time.  Save is disabled while saving, Scan while busy;
\* the slot field follows the suggestion until touched; listed are the networks
\* with a Delete button.  Every boot makes a new token: a page of an earlier one
\* is refused whatever it asks, and is as good as closed.
NoPage == [open |-> FALSE, busy |-> FALSE, saving |-> FALSE, slot |-> 1,
           touched |-> FALSE, listed |-> {}]
NewPage == [NoPage EXCEPT !.open = TRUE]

PortalTypeOK ==
    /\ ScanTypeOK
    /\ page \in [open : BOOLEAN, busy : BOOLEAN, saving : BOOLEAN, slot : SlotIds,
                 touched : BOOLEAN, listed : SUBSET SlotIds]
    /\ http.pc \in {"idle", "busy", "list", "sent", "submit"}
    /\ http.pc \in {"list", "sent"} => Len(http.list) <= ScanMax
    /\ cfg \in [SlotIds -> 0 .. Earlier] /\ public \in [SlotIds -> 0 .. Earlier]
    /\ Len(commands) <= QueueLen /\ ctlPc \in {"publish", "receive"}

\* A phone takes longer to join than the control task takes to publish for the
\* first time, and longer than the two seconds from boot without a write.
Init ==
    /\ ScanInit
    /\ up = TRUE /\ page = NoPage /\ flight = {}
    /\ http = Idle /\ scanned = FALSE
    /\ cfg \in [SlotIds -> {Free, Earlier}] /\ cfg[SlotMax] = Free /\ recent = FALSE
    /\ public = cfg /\ commands = <<>> /\ ctlPc = "receive"
    /\ want \in Preselected /\ inputs = 0

-----------------------------------------------------------------------------
(* The browser. *)

Input == inputs < MaxInputs /\ inputs' = inputs + 1 /\ up
FromOutside == UNCHANGED <<scanVars, httpVars, ctlVars, bootVars>>

\* By its address, or, as the system's probe for a captive portal, by any name.
Visit ==
    /\ Input /\ ~page.open /\ flight = {}
    /\ \E to \in {"page", "name"} : flight' = {[to |-> to]}
    /\ UNCHANGED page /\ FromOutside

ClickScan ==
    /\ Input /\ page.open /\ ~page.busy
    /\ flight' = flight \cup {[to |-> "scan", again |-> TRUE]}
    /\ UNCHANGED <<page>> /\ FromOutside

TouchSlot ==
    /\ Input /\ page.open
    /\ \E s \in SlotIds : page' = [page EXCEPT !.slot = s, !.touched = TRUE]
    /\ UNCHANGED <<flight>> /\ FromOutside

ClickSave ==
    /\ Input /\ page.open /\ ~page.saving
    /\ page' = [page EXCEPT !.saving = TRUE]
    /\ flight' = flight \cup {[to |-> "save", slot |-> page.slot, id |-> inputs']}
    /\ FromOutside

\* Of a listed network; or Done, or Cancel setup.
ClickOther ==
    /\ Input /\ page.open
    /\ \E r \in [to : {"del"}, slot : page.listed] \cup {[to |-> "cancel"]} :
           flight' = flight \cup {r}
    /\ UNCHANGED <<page>> /\ FromOutside

\* The console and the display's menu go on working while setup runs: what they
\* queue for the control task besides ("use" is refused in setup, and left out; "reboot"
\* and "bootloader" end setup as "cancel" does).
Operate ==
    /\ Input /\ Len(commands) < QueueLen
    /\ \E c \in [to : {"display", "confirm-reset", "cancel"}]
               \cup [to : {"setup"}, slot : 0 .. SlotMax] :
           commands' = Append(commands, [cmd |-> c, said |-> FALSE])
    /\ UNCHANGED <<scanVars, httpVars, cfg, recent, public, ctlPc, bootVars, page, flight>>

Outside == Visit \/ ClickScan \/ TouchSlot \/ ClickSave \/ ClickOther \/ Operate

\* dns_task: every name has the dongle's IPv4 address (and no IPv6 one); without a
\* socket it answers nothing, and the phone gives up.
Dns ==
    /\ up /\ [to |-> "name"] \in flight
    /\ flight' \in {{[to |-> "other"]}, {}}
    /\ UNCHANGED <<page, inputs>> /\ FromOutside

-----------------------------------------------------------------------------
(* The HTTP server. *)

ByHttp == UNCHANGED <<cfg, recent, public, ctlPc, bootVars, inputs>>
Take(r) == http = Idle /\ up /\ r \in flight

\* page(): the script starts with a scan and the saved networks.
GetPage ==
    /\ Take([to |-> "page"])
    /\ page' = NewPage
    /\ flight' = {[to |-> "scan", again |-> FALSE], [to |-> "saved"]}
    /\ UNCHANGED <<scanVars, http, scanned, commands>> /\ ByHttp

\* redirect(): any other URL leads to the page.
GetOther ==
    /\ Take([to |-> "other"])
    /\ flight' = {[to |-> "page"]}
    /\ UNCHANGED <<scanVars, http, scanned, page, commands>> /\ ByHttp

\* An error: the page shows it and stops; it reads the saved networks again
\* after any attempt to delete one.
Failed(r) ==
    /\ page' = IF r.to = "save" THEN [page EXCEPT !.saving = FALSE] ELSE page
    /\ flight' = (flight \ {r}) \cup IF r.to = "del" THEN {[to |-> "saved"]} ELSE {}
    /\ UNCHANGED <<scanVars, http, scanned, commands>> /\ ByHttp

\* After "trial", or "ok" to a cancel, the page has done its part.  The catch of
\* send() makes no answer at all an {ok:null}, which is not false: so it has then.
Concludes(r) ==
    /\ page' = IF r.to = "del" THEN page
                             ELSE [page EXCEPT !.open = FALSE, !.saving = FALSE]
    /\ flight' = (flight \ {r}) \cup IF r.to = "del" THEN {[to |-> "saved"]} ELSE {}

\* The request of a POST is lost on its way.
Lost(r) ==
    /\ r \in flight /\ r.to \in {"save", "del", "cancel"}
    /\ Concludes(r)
    /\ UNCHANGED <<scanVars, http, scanned, commands>> /\ ByHttp

\* Of the token, of the body or of memory.
Refused(r) ==
    /\ Take(r) /\ r.to \in {"scan", "saved", "save", "del", "cancel"}
    /\ Failed(r)

\* The page lets through more than profile_parse_json accepts.
InvalidProfile(r) == Take(r) /\ r.to = "save" /\ Failed(r)

\* scan_get: the first request, or one that asks for it, begins a scan.
GetScan(r) ==
    /\ Take(r) /\ r.to = "scan"
    /\ flight' = flight \ {r} /\ http' = [pc |-> "busy"]
    /\ IF r.again \/ ~scanned THEN scanned' = TRUE /\ ScanBegin
                              ELSE UNCHANGED <<scanned, scanVars>>
    /\ UNCHANGED <<page, commands>> /\ ByHttp

ReadBusy ==
    /\ http.pc = "busy"
    /\ http' = [pc |-> "list", busy |-> scanning, list |-> <<>>]
    /\ UNCHANGED <<scanVars, scanned, page, flight, commands>> /\ ByHttp

ReadEntry ==
    /\ http.pc = "list" /\ Len(http.list) < netCount
    /\ http' = [http EXCEPT !.list = Append(@, nets[Len(@) + 1])]
    /\ UNCHANGED <<scanVars, scanned, page, flight, commands>> /\ ByHttp

EndList ==
    /\ http.pc = "list" /\ Len(http.list) >= netCount
    /\ http' = [http EXCEPT !.pc = "sent"]
    /\ UNCHANGED <<scanVars, scanned, page, flight, commands>> /\ ByHttp

\* render(): while it is busy the page asks again.
ShowList ==
    /\ http.pc = "sent" /\ http' = Idle
    /\ page' = [page EXCEPT !.busy = http.busy]
    /\ flight' = IF http.busy THEN flight \cup {[to |-> "scan", again |-> FALSE]} ELSE flight
    /\ UNCHANGED <<scanVars, scanned, commands>> /\ ByHttp

\* saved_get: the slot chosen in the menu while it is empty, else the first one
\* that is; the page takes it for the next network.
Suggested(s) ==
    LET empty == {i \in SlotIds : s[i] = Free} IN
    IF want \in empty THEN want ELSE IF empty = {} THEN 1 ELSE Min(empty)

GetSaved ==
    /\ Take([to |-> "saved"])
    /\ flight' = flight \ {[to |-> "saved"]}
    /\ page' = [page EXCEPT !.slot = IF page.touched THEN @ ELSE Suggested(public),
                            !.listed = {i \in SlotIds : public[i] # Free}]
    /\ UNCHANGED <<scanVars, http, scanned, commands>> /\ ByHttp

\* post(): for a profile, what the published copy says becomes of it ...
PostLook(r) ==
    /\ Take(r) /\ r.to \in {"save", "del", "cancel"}
    /\ flight' = flight \ {r}
    /\ http' = [pc |-> "submit", request |-> r,
                direct |-> r.to = "save" /\ public[r.slot] = Free]
    /\ UNCHANGED <<scanVars, scanned, page, commands>> /\ ByHttp

\* ... then control_submit: with its queue full, "Busy; retry" ...
PostBusy ==
    /\ http.pc = "submit" /\ Len(commands) = QueueLen /\ http' = Idle
    /\ \/ /\ page' = IF http.request.to = "save" THEN [page EXCEPT !.saving = FALSE] ELSE page
          /\ flight' = flight \cup IF http.request.to = "del" THEN {[to |-> "saved"]} ELSE {}
       \/ Concludes(http.request)
    /\ UNCHANGED <<scanVars, scanned, commands>> /\ ByHttp

\* ... else the answer, which may be lost.  Only after "saved" does the page stay
\* for the next network.
PostSubmit ==
    /\ http.pc = "submit" /\ Len(commands) < QueueLen /\ http' = Idle
    /\ \E said \in {http.direct, FALSE} :
          /\ commands' = Append(commands, [cmd |-> http.request, said |-> said])
          /\ IF said
               THEN /\ page' = [page EXCEPT !.saving = FALSE, !.touched = FALSE]
                    /\ flight' = flight \cup {[to |-> "saved"]}
               ELSE Concludes(http.request)
    /\ UNCHANGED <<scanVars, scanned>> /\ ByHttp

Loses == \E r \in flight : Lost(r)
Http == \/ \E r \in flight : Refused(r) \/ InvalidProfile(r) \/ GetScan(r) \/ PostLook(r)
        \/ GetPage \/ GetOther \/ ReadBusy \/ ReadEntry \/ EndList \/ ShowList
        \/ GetSaved \/ PostBusy \/ PostSubmit

-----------------------------------------------------------------------------
(* The control task in setup mode. *)

ByControl == UNCHANGED <<want, inputs>>
StaysUp == UNCHANGED <<scanVars, httpVars, up, page, flight>>

\* publish(), at the head of the loop.
PublishSettings ==
    /\ up /\ ctlPc = "publish" /\ ctlPc' = "receive"
    /\ public' = cfg
    /\ UNCHANGED <<cfg, recent, commands>> /\ StaysUp /\ ByControl

\* persist(): not within two seconds of the last write.  That the flash may refuse
\* is left to module Control.
Persist(new) ==
    /\ cfg' = IF recent THEN cfg ELSE new
    /\ recent' = TRUE

Elapse ==
    /\ up /\ recent /\ recent' = FALSE
    /\ UNCHANGED <<cfg, public, commands, ctlPc>> /\ StaysUp /\ ByControl

Taken(c) ==
    /\ up /\ ctlPc = "receive" /\ commands # <<>> /\ c = Head(commands).cmd
    /\ commands' = Tail(commands) /\ ctlPc' = "publish"
    /\ UNCHANGED public

\* setup_reboot takes every task down, and nothing of this setup is left.
Reboot ==
    /\ up' = FALSE /\ page' = NoPage
    /\ flight' = {} /\ http' = Idle /\ scanned' = FALSE
    /\ scanning' = FALSE /\ netCount' = 0 /\ nets' = NoNets
    /\ scanner' = [t \in Tasks |-> None] /\ last' = <<>>

\* Mutant of Direct: what the page was answered counts.
DirectAsSaid(c) == Head(commands).said
\* stage_json: an empty slot risks nothing and is written at once ...
Direct(c) == cfg[c.slot] = Free
AddProfile(c) ==
    /\ c.to = "save" /\ Direct(c) /\ Taken(c)
    /\ Persist([cfg EXCEPT ![c.slot] = c.id])
    /\ StaysUp /\ ByControl

\* ... and any other profile is staged (the flash may refuse) and tried
\* after a restart, which is module Control's.
TryProfile(c) ==
    /\ c.to = "save" /\ ~Direct(c) /\ Taken(c)
    /\ Reboot \/ StaysUp
    /\ UNCHANGED <<cfg, recent>> /\ ByControl

DeleteProfile(c) ==
    /\ c.to = "del" /\ Taken(c)
    /\ Persist([cfg EXCEPT ![c.slot] = Free])
    /\ StaysUp /\ ByControl

Cancel(c) ==
    /\ c.to = "cancel" /\ Taken(c) /\ Reboot
    /\ UNCHANGED <<cfg, recent>> /\ ByControl

\* "display": written like a profile, and so in the way of the next one.
Display(c) ==
    /\ c.to = "display" /\ Taken(c)
    /\ Persist(cfg)
    /\ StaysUp /\ ByControl

\* "setup N": another slot for the page to suggest.
Preselect(c) ==
    /\ c.to = "setup" /\ Taken(c)
    /\ want' = c.slot
    /\ UNCHANGED <<cfg, recent, inputs>> /\ StaysUp

\* "confirm-reset": too late after a "reset", or refused by the flash; or done, and
\* setup begins afresh.
Erase(c) ==
    /\ c.to = "confirm-reset" /\ Taken(c)
    /\ \/ UNCHANGED cfg /\ StaysUp
       \/ cfg' = [s \in SlotIds |-> Free] /\ Reboot
    /\ UNCHANGED recent /\ ByControl

\* Ten minutes of setup end it.
Close == up /\ Reboot /\ UNCHANGED <<ctlVars, want, inputs>>

Handle == \E c \in {commands[k].cmd : k \in DOMAIN commands} :
              \/ AddProfile(c) \/ TryProfile(c) \/ DeleteProfile(c) \/ Cancel(c)
              \/ Display(c) \/ Preselect(c) \/ Erase(c)

-----------------------------------------------------------------------------
TaskUnchanged == UNCHANGED <<httpVars, ctlVars, bootVars, page, flight, inputs>>
Scanner(t) == ScanTask(t) /\ TaskUnchanged
Control == PublishSettings \/ Handle

Next == Outside \/ Dns \/ Loses \/ Http \/ Control \/ Elapse \/ Close \/ (\E t \in Tasks : Scanner(t))

\* Every task runs when it can, and a scan returns; users owe nothing.
Fairness == /\ WF_vars(Dns) /\ WF_vars(Http) /\ WF_vars(Control)
            /\ \A t \in Tasks : WF_vars(Scanner(t))

Spec == Init /\ [][Next]_vars /\ Fairness

-----------------------------------------------------------------------------
(* Properties. *)

\* "the page polls /scan until "busy" clears" (main/portal.c): what it is given
\* then is the last scan's result, whole and of no other scan.
FinalWhenIdle == http.pc = "sent" => http.busy \/ http.list = last

\* ... and it clears: when the user leaves the page alone, no scan or task that
\* failed and no queue that was full keeps it scanning or saving for ever.
PageSettles == <>[](flight = {} /\ ~scanning /\ ~page.saving)

\* "Replacing a saved one (same slot) restarts the dongle into a 45 second trial
\* and keeps the old one unless the new one stays connected" (main/portal.c):
\* while setup runs a saved network leaves its slot by being deleted or by a factory
\* reset, and in no other way, however stale the answer was that the page got.
SavedKept ==
    [][\A s \in SlotIds : up /\ cfg[s] # Free /\ cfg'[s] # cfg[s] =>
          /\ commands # <<>>
          /\ \/ Head(commands).cmd = [to |-> "del", slot |-> s]
             \/ Head(commands).cmd = [to |-> "confirm-reset"]]_vars

=============================================================================
