--------------------------------- MODULE Ui ---------------------------------
(***************************************************************************)
(* The one button and its menu: button_update (main/core.c) and the task   *)
(* that polls it (main/ui.c).                                              *)
(*                                                                         *)
(* The contact bounces, and the task samples it when it gets to: every     *)
(* poll is one action, with any sample and any time since the last one.    *)
(* What the task reads of the control task's published settings (setup     *)
(* mode, which slots are taken) is any value at each poll.  Instants are   *)
(* kept as ages, capped where the code stops telling them apart.           *)
(***************************************************************************)
EXTENDS Integers

CONSTANTS
    Debounce,       \* 30 ms of equal samples settle the button
    HoldTime,       \* 1500 ms of a settled press make a hold
    ConfirmWindow,  \* 10 s to confirm a factory reset
    DimAfter,       \* dim_seconds, at least 10 s (settings_valid)
    Pages, Slots,   \* 4 and 8
    MaxGap          \* bound: the longest time between two polls

ASSUME UiAssumption ==
    /\ Debounce \in Nat \ {0} /\ HoldTime \in Nat \ {0}
    /\ ConfirmWindow \in Nat \ {0} /\ DimAfter \in Nat /\ DimAfter >= ConfirmWindow
    /\ Pages \in Nat \ {0} /\ Slots \in Nat /\ MaxGap \in Nat \ {0}

VARIABLES
    btn,            \* button_t; edge and pressed as ages
    page, menu,     \* menu: an entry, or Closed
    confirm, confirmLeft,   \* confirm_until - now
    touchAge,       \* now - last_touch
    command,        \* what the last poll submitted to the control task, or NoOp
    events,         \* history: events since the button last settled down
    settledAge,     \* history: time since it last settled
    brief,          \* history: it once settled twice within the debounce time
    deliberate      \* history: how far the user is towards a factory reset

vars == <<btn, page, menu, confirm, confirmLeft, touchAge, command, events,
          settledAge, brief, deliberate>>

\* The menu: enter or cancel setup, the slots, factory reset, exit.
Closed == -1
EntrySetup == 0
EntryReset == Slots + 1
Entries == Slots + 3

NoOp == [op |-> "none"]
Op(o) == [op |-> o]
SlotOp(o, i) == [op |-> o, slot |-> i]
Commands == [op : {"none", "setup", "cancel", "reset", "confirm-reset"}]
              \cup [op : {"use", "setup"}, slot : 1 .. Slots]

UiTypeOK ==
    /\ btn \in [raw : BOOLEAN, stable : BOOLEAN, fired : BOOLEAN,
                suppress : BOOLEAN, edge : 0 .. Debounce, pressed : 0 .. HoldTime]
    /\ page \in 0 .. Pages - 1 /\ menu \in {Closed} \cup 0 .. Entries - 1
    /\ confirm \in BOOLEAN /\ confirmLeft \in 0 .. ConfirmWindow
    /\ touchAge \in 0 .. DimAfter + 1
    /\ command \in Commands
    /\ events \in Nat /\ settledAge \in 0 .. Debounce
    /\ brief \in BOOLEAN
    /\ deliberate \in {"no", "chosen", "released"}

Init ==
    /\ btn = [raw |-> FALSE, stable |-> FALSE, fired |-> FALSE,
              suppress |-> FALSE, edge |-> 0, pressed |-> 0]
    /\ page = 0 /\ menu = Closed /\ confirm = FALSE /\ confirmLeft = 0
    /\ touchAge = 0 /\ command = NoOp
    /\ events = 1 /\ settledAge = Debounce /\ brief = FALSE
    /\ deliberate = "no"

-----------------------------------------------------------------------------
(* button_update. *)

Capped(n, limit) == IF n < limit THEN n ELSE limit

Older(b, dt) == [b EXCEPT !.edge = Capped(@ + dt, Debounce),
                          !.pressed = Capped(@ + dt, HoldTime)]

\* Mutant of Sampled: a bounce does not restart the debounce time.
SampledOnly(b, down) == [b EXCEPT !.raw = down]
Sampled(b, down) ==
    IF down # b.raw THEN [b EXCEPT !.raw = down, !.edge = 0] ELSE b

\* Mutant of Pressed: the press that wakes the display acts as well.
PressedAwake(b, dimmed) ==
    [b EXCEPT !.stable = TRUE, !.pressed = 0, !.fired = FALSE, !.suppress = FALSE]
Pressed(b, dimmed) ==
    [b EXCEPT !.stable = TRUE, !.pressed = 0, !.fired = FALSE, !.suppress = dimmed]

Pending(b) == ~b.fired /\ ~b.suppress

HoldFires(b) == b.stable /\ Pending(b) /\ b.pressed >= HoldTime

Result(b, e) == [btn |-> b, event |-> e]

\* The button after a sample, and the event it gives.
ButtonUpdate(b, down, dimmed) ==
    LET s == Sampled(b, down) IN
    IF s.edge >= Debounce /\ s.stable # down THEN
        IF down THEN Result(Pressed(s, dimmed), IF dimmed THEN "wake" ELSE "none")
        ELSE Result([s EXCEPT !.stable = FALSE],
                    IF Pending(s) THEN "short" ELSE "none")
    ELSE IF HoldFires(s) THEN Result([s EXCEPT !.fired = TRUE], "hold")
    ELSE Result(s, "none")

-----------------------------------------------------------------------------
(* The loop of task(). *)

\* Menu, page and confirmation after a pass, and what it submits; at its end a
\* confirmation that has run out is dropped.
Keep(m, p, c, o) ==
    /\ menu' = m /\ page' = p /\ command' = o
    /\ confirm' = (c /\ confirmLeft' > 0)

NextEntry(m) == (m + 1) % Entries

\* Mutant of ShortPress: the confirmation survives moving on in the menu.
ShortPressKeeping ==
    IF menu # Closed THEN Keep(NextEntry(menu), page, confirm, NoOp)
    ELSE Keep(menu, (page + 1) % Pages, confirm, NoOp)
ShortPress ==
    IF menu # Closed THEN Keep(NextEntry(menu), page, FALSE, NoOp)
    ELSE Keep(menu, (page + 1) % Pages, confirm, NoOp)

\* What a hold selects; left is the time left to confirm.
Hold(setup, taken, left) ==
    IF menu = Closed THEN
        Keep(EntrySetup, page, FALSE, NoOp)
    ELSE IF confirm /\ left > 0 THEN
        Keep(Closed, page, FALSE, Op("confirm-reset"))
    ELSE IF menu = EntrySetup THEN
        Keep(Closed, page, confirm, Op(IF setup THEN "cancel" ELSE "setup"))
    ELSE IF menu \in 1 .. Slots THEN
        Keep(Closed, page, confirm, SlotOp(IF taken THEN "use" ELSE "setup", menu))
    ELSE IF menu = EntryReset THEN
        Keep(menu, page, TRUE, Op("reset"))
    ELSE Keep(Closed, page, confirm, NoOp)

\* One pass, dt after the last one.
Poll(dt, down, setup, taken) ==
    LET dimmed == touchAge + dt > DimAfter /\ ~setup
        u == ButtonUpdate(Older(btn, dt), down, dimmed)
        left == IF dt < confirmLeft THEN confirmLeft - dt ELSE 0
        chosen == u.event = "hold" /\ menu = EntryReset /\ ~(confirm /\ left > 0)
        settled == u.btn.stable # btn.stable
    IN  /\ btn' = u.btn
        /\ touchAge' = IF u.event = "none" THEN Capped(touchAge + dt, DimAfter + 1)
                       ELSE 0
        /\ confirmLeft' = IF chosen THEN ConfirmWindow ELSE left
        /\ CASE u.event = "short" -> ShortPress
             [] u.event = "hold" -> Hold(setup, taken, left)
             [] OTHER -> Keep(menu, page, confirm, NoOp)
        /\ events' = (IF settled /\ u.btn.stable THEN 0 ELSE events)
                       + (IF u.event = "none" THEN 0 ELSE 1)
        /\ settledAge' = IF settled THEN 0 ELSE Capped(settledAge + dt, Debounce)
        /\ brief' = (brief \/ (settled /\ settledAge + dt < Debounce))
        /\ deliberate' = IF chosen THEN "chosen"
                         ELSE IF u.event # "none" \/ left = 0 THEN "no"
                         ELSE IF settled /\ ~u.btn.stable /\ deliberate = "chosen"
                              THEN "released"
                         ELSE deliberate

Next == \E dt \in 1 .. MaxGap, down, setup, taken \in BOOLEAN :
           Poll(dt, down, setup, taken)

Spec == Init /\ [][Next]_vars

-----------------------------------------------------------------------------
(* Properties. *)

\* "Hold fires once after 1500 ms. Wake consumes whole gesture." (main/core.h):
\* a press, from the moment the button settles down until it has settled up
\* again, gives one event, and none goes without.
OneEventPerGesture == events <= 1 /\ (~btn.stable => events = 1)

\* "Debounce: 30 ms" (docs/REFERENCE.md): however the contact chatters, presses
\* and releases are that far apart.
NoChatter == ~brief

\* "Factory reset requires selecting its entry, releasing, then a second
\* deliberate hold within ten seconds; short press cancels"
\* (docs/REFERENCE.md): the user has chosen the entry and let go since, has not
\* pressed again otherwise, and is in time.
ResetDeliberate ==
    [][command'.op = "confirm-reset" => deliberate = "released"]_vars
=============================================================================
