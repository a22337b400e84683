------------------------------ MODULE UiProofs ------------------------------
(***************************************************************************)
(* Proofs about the button and its menu, for any of the times the code     *)
(* compares with, any number of pages and slots, any polling and any       *)
(* bouncing of the contact.                                                *)
(*                                                                         *)
(* What a press has given so far is written in the button's two flags      *)
(* (GestureInv).  A sample that differs from the settled level was first   *)
(* seen after the last settling, so its time runs out no sooner            *)
(* (ChatterInv).  While a factory reset can still be confirmed the display *)
(* is not dimmed, so that no press only wakes it, and the hold that chose  *)
(* the entry is used up until the button is released (ResetInv).           *)
(***************************************************************************)
EXTENDS Ui, TLAPS

\* What the press gave: its event, if the flags say so, or nothing yet.
GestureInv ==
    events = IF btn.stable /\ Pending(btn) THEN 0 ELSE 1

ChatterInv ==
    /\ ~brief
    /\ btn.raw # btn.stable => btn.edge <= settledAge

ResetInv ==
    confirm => /\ menu = EntryReset
               /\ confirmLeft > 0
               /\ touchAge + confirmLeft <= ConfirmWindow
               /\ \/ deliberate = "released"
                  \/ deliberate = "chosen" /\ btn.stable /\ btn.fired

UiInv == UiTypeOK /\ GestureInv /\ ChatterInv /\ ResetInv

-----------------------------------------------------------------------------
(* One sample of the button. *)

Buttons == [raw : BOOLEAN, stable : BOOLEAN, fired : BOOLEAN, suppress : BOOLEAN,
            edge : 0 .. Debounce, pressed : 0 .. HoldTime]

\* An age, capped.
LEMMA CappedIs ==
    ASSUME NEW n \in Nat, NEW limit \in Nat
    PROVE  Capped(n, limit) \in 0 .. limit /\ Capped(n, limit) <= n
BY DEF Capped

\* Time passes for the button.
LEMMA OlderIs ==
    ASSUME NEW b \in Buttons, NEW dt \in Nat
    PROVE  /\ Older(b, dt) \in Buttons
           /\ Older(b, dt).raw = b.raw /\ Older(b, dt).stable = b.stable
           /\ Older(b, dt).fired = b.fired /\ Older(b, dt).suppress = b.suppress
           /\ Older(b, dt).edge = Capped(b.edge + dt, Debounce)
<1>1. b.edge + dt \in Nat /\ b.pressed + dt \in Nat /\ Debounce \in Nat /\ HoldTime \in Nat
    BY UiAssumption DEF Buttons
<1>2. Capped(b.edge + dt, Debounce) \in 0 .. Debounce
      /\ Capped(b.pressed + dt, HoldTime) \in 0 .. HoldTime
    BY <1>1, CappedIs
<1>3. Older(b, dt) = [b EXCEPT !.edge = Capped(b.edge + dt, Debounce),
                               !.pressed = Capped(b.pressed + dt, HoldTime)]
    BY DEF Older, Buttons
<1> QED BY <1>2, <1>3, Zenon DEF Buttons

\* What a sample makes of the button: it settles down, settles up, is held, or
\* neither; and a sample that differs restarts the debounce time.
Settles(b, u) == b.raw = u.btn.raw /\ b.edge >= Debounce /\ u.btn.raw = u.btn.stable
GoesOn(b, u) == u.btn.edge = 0 \/ (u.btn.edge = b.edge /\ u.btn.raw = b.raw)

Presses(b, u, dimmed) ==
    /\ ~b.stable /\ u.btn.stable /\ Settles(b, u)
    /\ ~u.btn.fired /\ u.btn.suppress = dimmed
    /\ u.event = IF dimmed THEN "wake" ELSE "none"
Releases(b, u) ==
    /\ b.stable /\ ~u.btn.stable /\ Settles(b, u)
    /\ u.event = IF Pending(b) THEN "short" ELSE "none"
IsHeld(b, u) ==
    /\ b.stable /\ u.btn.stable /\ GoesOn(b, u)
    /\ Pending(b) /\ u.btn.fired /\ u.event = "hold"
Stays(b, u) ==
    /\ u.btn.stable = b.stable /\ GoesOn(b, u)
    /\ u.btn.fired = b.fired /\ u.btn.suppress = b.suppress
    /\ u.event = "none"

\* button_update does one of these.
LEMMA ButtonIs ==
    ASSUME NEW b \in Buttons, NEW down \in BOOLEAN, NEW dimmed \in BOOLEAN,
           NEW u, u = ButtonUpdate(b, down, dimmed)
    PROVE  /\ u.btn \in Buttons
           /\ Presses(b, u, dimmed) \/ Releases(b, u) \/ IsHeld(b, u) \/ Stays(b, u)
<1> DEFINE s == Sampled(b, down)
<1>1. 0 \in 0 .. Debounce /\ 0 \in 0 .. HoldTime /\ Debounce \in Nat /\ ~(0 >= Debounce)
    BY UiAssumption
<1>2. /\ s \in Buttons /\ s.raw = down /\ s.stable = b.stable
      /\ s.fired = b.fired /\ s.suppress = b.suppress
      /\ s.edge = 0 \/ (s.edge = b.edge /\ down = b.raw)
    BY <1>1, Zenon DEF Sampled, Buttons
<1> HIDE DEF s
<1>3. u = IF s.edge >= Debounce /\ s.stable # down THEN
            IF down THEN Result(Pressed(s, dimmed), IF dimmed THEN "wake" ELSE "none")
            ELSE Result([s EXCEPT !.stable = FALSE],
                        IF Pending(s) THEN "short" ELSE "none")
          ELSE IF HoldFires(s) THEN Result([s EXCEPT !.fired = TRUE], "hold")
          ELSE Result(s, "none")
    BY DEF ButtonUpdate, s
<1>4. Pending(s) = Pending(b)
    BY <1>2 DEF Pending
<1>5. CASE s.edge >= Debounce /\ s.stable # down /\ down
  <2>1. u.btn = Pressed(s, dimmed) /\ u.event = IF dimmed THEN "wake" ELSE "none"
    BY <1>3, <1>5 DEF Result
  <2>2. u.btn \in Buttons /\ u.btn.raw = s.raw /\ u.btn.stable /\ ~u.btn.fired
        /\ u.btn.suppress = dimmed
    BY <1>1, <1>2, <2>1, Zenon DEF Pressed, Buttons
  <2>3. b.raw = down /\ b.edge >= Debounce /\ ~b.stable
    BY <1>1, <1>2, <1>5 DEF Buttons
  <2> QED BY <1>2, <1>5, <2>1, <2>2, <2>3 DEF Presses, Settles
<1>6. CASE s.edge >= Debounce /\ s.stable # down /\ ~down
  <2>1. u.btn = [s EXCEPT !.stable = FALSE]
        /\ u.event = IF Pending(s) THEN "short" ELSE "none"
    BY <1>3, <1>6 DEF Result
  <2>2. u.btn \in Buttons /\ u.btn.raw = s.raw /\ ~u.btn.stable
    BY <1>2, <2>1, Zenon DEF Buttons
  <2>3. b.raw = down /\ b.edge >= Debounce /\ b.stable
    BY <1>1, <1>2, <1>6 DEF Buttons
  <2>4. u.btn.raw = u.btn.stable
    BY <1>2, <1>6, <2>2 DEF Buttons
  <2>5. Settles(b, u)
    BY <1>2, <2>2, <2>3, <2>4 DEF Settles
  <2> QED BY <1>4, <2>1, <2>2, <2>3, <2>5, Zenon DEF Releases
<1>7. CASE ~(s.edge >= Debounce /\ s.stable # down) /\ HoldFires(s)
  <2>1. u.btn = [s EXCEPT !.fired = TRUE] /\ u.event = "hold"
    BY <1>3, <1>7 DEF Result
  <2>2. /\ u.btn \in Buttons /\ u.btn.raw = s.raw /\ u.btn.stable = s.stable
        /\ u.btn.fired /\ u.btn.edge = s.edge
    BY <1>2, <2>1, Zenon DEF Buttons
  <2> QED BY <1>2, <1>4, <1>7, <2>1, <2>2 DEF IsHeld, GoesOn, HoldFires
<1>8. CASE ~(s.edge >= Debounce /\ s.stable # down) /\ ~HoldFires(s)
  <2>1. u.btn = s /\ u.event = "none"
    BY <1>3, <1>8 DEF Result
  <2> QED BY <1>2, <2>1 DEF Stays, GoesOn
<1> QED BY <1>5, <1>6, <1>7, <1>8

-----------------------------------------------------------------------------
(* One pass of the task. *)

Dimmed(dt, setup) == touchAge + dt > DimAfter /\ ~setup
Sample(dt, down, setup) == ButtonUpdate(Older(btn, dt), down, Dimmed(dt, setup))
Remains(dt) == IF dt < confirmLeft THEN confirmLeft - dt ELSE 0
Chooses(u, left) == u.event = "hold" /\ menu = EntryReset /\ ~(confirm /\ left > 0)

\* What the button does in a pass.
PassIs(dt, u, dimmed) ==
    /\ u.btn \in Buttons
    /\ \/ Presses(Older(btn, dt), u, dimmed) \/ Releases(Older(btn, dt), u)
       \/ IsHeld(Older(btn, dt), u) \/ Stays(Older(btn, dt), u)

\* The pass, of the button's sample.
PassTo(dt, u, left, setup, taken) ==
    /\ btn' = u.btn
    /\ touchAge' = IF u.event = "none" THEN Capped(touchAge + dt, DimAfter + 1) ELSE 0
    /\ confirmLeft' = IF Chooses(u, left) THEN ConfirmWindow ELSE left
    /\ CASE u.event = "short" -> ShortPress
         [] u.event = "hold" -> Hold(setup, taken, left)
         [] OTHER -> Keep(menu, page, confirm, NoOp)
    /\ events' = (IF u.btn.stable # btn.stable /\ u.btn.stable THEN 0 ELSE events)
                   + (IF u.event = "none" THEN 0 ELSE 1)
    /\ settledAge' = IF u.btn.stable # btn.stable THEN 0
                     ELSE Capped(settledAge + dt, Debounce)
    /\ brief' = (brief \/ (u.btn.stable # btn.stable /\ settledAge + dt < Debounce))
    /\ deliberate' = IF Chooses(u, left) THEN "chosen"
                     ELSE IF u.event # "none" \/ left = 0 THEN "no"
                     ELSE IF /\ u.btn.stable # btn.stable /\ ~u.btn.stable
                             /\ deliberate = "chosen"
                          THEN "released"
                     ELSE deliberate

\* A pass is a sample of the button and what the task makes of it.
LEMMA PollIs ==
    ASSUME UiTypeOK, NEW dt \in 1 .. MaxGap, NEW down \in BOOLEAN,
           NEW setup \in BOOLEAN, NEW taken \in BOOLEAN, Poll(dt, down, setup, taken)
    PROVE  /\ PassIs(dt, Sample(dt, down, setup), Dimmed(dt, setup))
           /\ PassTo(dt, Sample(dt, down, setup), Remains(dt), setup, taken)
<1>1. btn \in Buttons /\ dt \in Nat
    BY UiAssumption DEF UiTypeOK, Buttons
<1>2. Older(btn, dt) \in Buttons /\ Dimmed(dt, setup) \in BOOLEAN
    BY <1>1, OlderIs DEF Dimmed
<1>3. PassIs(dt, Sample(dt, down, setup), Dimmed(dt, setup))
    BY <1>2, ButtonIs DEF Sample, PassIs
<1>4. PassTo(dt, Sample(dt, down, setup), Remains(dt), setup, taken)
    BY Zenon DEF Poll, PassTo, Sample, Dimmed, Remains, Chooses
<1> QED BY <1>3, <1>4

-----------------------------------------------------------------------------
(* Every pass keeps the invariant. *)

\* The commands the task submits.
LEMMA CommandsAre ==
    /\ NoOp \in Commands
    /\ \A o \in {"setup", "cancel", "reset", "confirm-reset"} : Op(o) \in Commands
    /\ \A o \in {"use", "setup"}, i \in 1 .. Slots : SlotOp(o, i) \in Commands
    BY Zenon DEF Commands, NoOp, Op, SlotOp

\* The menu and the page stay within theirs.
LEMMA MenuTypes ==
    ASSUME UiTypeOK, NEW u, NEW left, NEW setup \in BOOLEAN, NEW taken \in BOOLEAN,
           CASE u.event = "short" -> ShortPress
             [] u.event = "hold" -> Hold(setup, taken, left)
             [] OTHER -> Keep(menu, page, confirm, NoOp)
    PROVE  /\ page' \in 0 .. Pages - 1 /\ menu' \in {Closed} \cup 0 .. Entries - 1
           /\ confirm' \in BOOLEAN /\ command' \in Commands
<1>1. /\ page \in 0 .. Pages - 1 /\ menu \in {Closed} \cup 0 .. Entries - 1
      /\ Pages \in Nat \ {0} /\ Slots \in Nat /\ Entries = Slots + 3
    BY UiAssumption DEF UiTypeOK, Entries
<1>2. EntrySetup \in 0 .. Entries - 1 /\ EntryReset \in 0 .. Entries - 1
    BY <1>1 DEF EntrySetup, EntryReset
<1>3. ASSUME NEW m \in {Closed} \cup 0 .. Entries - 1, NEW p \in 0 .. Pages - 1, NEW c,
             NEW o \in Commands, Keep(m, p, c, o)
      PROVE  /\ page' \in 0 .. Pages - 1 /\ menu' \in {Closed} \cup 0 .. Entries - 1
             /\ confirm' \in BOOLEAN /\ command' \in Commands
    BY <1>3, Zenon DEF Keep
<1>4. CASE u.event = "short"
  <2>1. ShortPress
    BY <1>4
  <2>2. CASE menu # Closed
    <3>1. NextEntry(menu) \in 0 .. Entries - 1
      BY <1>1, <2>2 DEF NextEntry
    <3> QED BY <1>1, <1>3, <2>1, <2>2, <3>1, CommandsAre, Zenon DEF ShortPress
  <2>3. CASE menu = Closed
    <3>1. (page + 1) % Pages \in 0 .. Pages - 1
      BY <1>1
    <3> QED BY <1>1, <1>3, <2>1, <2>3, <3>1, CommandsAre, Zenon DEF ShortPress
  <2> QED BY <2>2, <2>3
<1>5. CASE u.event = "hold"
  <2>1. Hold(setup, taken, left)
    BY <1>5
  <2>2. \A o \in {"setup", "cancel", "reset", "confirm-reset"} : Op(o) \in Commands
    BY CommandsAre
  <2>3. Op(IF setup THEN "cancel" ELSE "setup") \in Commands
    BY <2>2
  <2>4. menu \in 1 .. Slots => SlotOp(IF taken THEN "use" ELSE "setup", menu) \in Commands
    BY CommandsAre
  <2>5. NoOp \in Commands
    BY CommandsAre
  <2>6. Closed \in {Closed} \cup 0 .. Entries - 1
        /\ EntrySetup \in {Closed} \cup 0 .. Entries - 1
    BY <1>2
  <2> QED BY <1>1, <1>3, <2>1, <2>2, <2>3, <2>4, <2>5, <2>6, Zenon DEF Hold
<1>6. CASE u.event \notin {"short", "hold"}
  <2>1. Keep(menu, page, confirm, NoOp)
    BY <1>6
  <2> QED BY <1>1, <1>3, <2>1, CommandsAre, Zenon
<1> QED BY <1>4, <1>5, <1>6

\* The ages stay within what the code tells apart.
LEMMA TypesStep ==
    ASSUME UiTypeOK, NEW dt \in 1 .. MaxGap, NEW u, NEW dimmed \in BOOLEAN,
           NEW setup \in BOOLEAN, NEW taken \in BOOLEAN,
           PassIs(dt, u, dimmed), PassTo(dt, u, Remains(dt), setup, taken)
    PROVE  UiTypeOK'
<1>1. /\ dt \in Nat /\ touchAge \in 0 .. DimAfter + 1 /\ DimAfter \in Nat
      /\ confirmLeft \in 0 .. ConfirmWindow /\ ConfirmWindow \in Nat /\ Debounce \in Nat
      /\ settledAge \in 0 .. Debounce /\ events \in Nat
    BY UiAssumption DEF UiTypeOK
<1>2. btn' \in Buttons
    BY Zenon DEF PassIs, PassTo
<1>3. touchAge' \in 0 .. DimAfter + 1
  <2>1. touchAge + dt \in Nat /\ DimAfter + 1 \in Nat
    BY <1>1
  <2>2. Capped(touchAge + dt, DimAfter + 1) \in 0 .. DimAfter + 1
    BY <2>1, CappedIs
  <2> QED BY <1>1, <2>2 DEF PassTo
<1>4. confirmLeft' \in 0 .. ConfirmWindow
  <2>1. Remains(dt) \in 0 .. ConfirmWindow
    BY <1>1 DEF Remains
  <2> QED BY <1>1, <2>1 DEF PassTo
<1>5. settledAge' \in 0 .. Debounce
  <2>1. settledAge + dt \in Nat
    BY <1>1
  <2>2. Capped(settledAge + dt, Debounce) \in 0 .. Debounce
    BY <1>1, <2>1, CappedIs
  <2> QED BY <1>1, <2>2 DEF PassTo
<1>6. events' \in Nat
    BY <1>1 DEF PassTo
<1>7. brief' \in BOOLEAN
    BY Zenon DEF PassTo, UiTypeOK
<1>8. deliberate' \in {"no", "chosen", "released"}
    BY DEF PassTo, UiTypeOK
<1>9. /\ page' \in 0 .. Pages - 1 /\ menu' \in {Closed} \cup 0 .. Entries - 1
      /\ confirm' \in BOOLEAN /\ command' \in Commands
    BY MenuTypes DEF PassTo
<1> QED BY <1>2, <1>3, <1>4, <1>5, <1>6, <1>7, <1>8, <1>9 DEF UiTypeOK, Buttons

\* A gesture's event is counted once, by the step that sets its flag or ends it.
LEMMA GestureStep ==
    ASSUME UiTypeOK, GestureInv, NEW dt \in 1 .. MaxGap, NEW u, NEW dimmed \in BOOLEAN,
           NEW setup \in BOOLEAN, NEW taken \in BOOLEAN,
           PassIs(dt, u, dimmed), PassTo(dt, u, Remains(dt), setup, taken)
    PROVE  GestureInv'
<1> DEFINE b == Older(btn, dt)
<1>1. /\ btn \in Buttons /\ dt \in Nat /\ u.btn \in Buttons
    BY UiAssumption DEF UiTypeOK, Buttons, PassIs
<1>2. b.stable = btn.stable /\ b.fired = btn.fired /\ b.suppress = btn.suppress
    BY <1>1, OlderIs
<1>3. /\ btn' = u.btn
      /\ events' = (IF u.btn.stable # btn.stable /\ u.btn.stable THEN 0 ELSE events)
                     + (IF u.event = "none" THEN 0 ELSE 1)
    BY DEF PassTo
<1>4. GestureInv' = (events' = IF u.btn.stable /\ Pending(u.btn) THEN 0 ELSE 1)
    BY <1>3 DEF GestureInv
<1> HIDE DEF b
<1>5. CASE Presses(b, u, dimmed)
  <2>1. u.btn.stable /\ u.btn.stable # btn.stable /\ (Pending(u.btn) <=> ~dimmed)
    BY <1>2, <1>5 DEF Presses, Pending
  <2>2. events' = IF u.event = "none" THEN 0 ELSE 1
    BY <1>3, <2>1
  <2>3. u.event = IF dimmed THEN "wake" ELSE "none"
    BY <1>5 DEF Presses
  <2> QED BY <1>4, <2>1, <2>2, <2>3
<1>6. CASE Releases(b, u)
    BY <1>2, <1>3, <1>4, <1>6 DEF Releases, Pending, GestureInv
<1>7. CASE IsHeld(b, u)
    BY <1>1, <1>2, <1>3, <1>4, <1>7 DEF IsHeld, Pending, GestureInv, Buttons
<1>8. CASE Stays(b, u)
    BY <1>2, <1>3, <1>4, <1>8 DEF Stays, Pending, GestureInv
<1> QED BY <1>5, <1>6, <1>7, <1>8 DEF PassIs, b

\* The level that settles was first sampled after the last settling.
LEMMA ChatterStep ==
    ASSUME UiTypeOK, ChatterInv, NEW dt \in 1 .. MaxGap, NEW u, NEW dimmed \in BOOLEAN,
           NEW setup \in BOOLEAN, NEW taken \in BOOLEAN,
           PassIs(dt, u, dimmed), PassTo(dt, u, Remains(dt), setup, taken)
    PROVE  ChatterInv'
<1> DEFINE b == Older(btn, dt)
<1>1. /\ btn \in Buttons /\ dt \in Nat /\ u.btn \in Buttons /\ b \in Buttons
      /\ btn.edge \in Nat /\ settledAge \in Nat /\ Debounce \in Nat
    BY UiAssumption, OlderIs DEF UiTypeOK, Buttons, PassIs
<1>2. /\ b.stable = btn.stable /\ b.raw = btn.raw
      /\ b.edge = Capped(btn.edge + dt, Debounce)
    BY <1>1, OlderIs
<1>3. /\ btn' = u.btn
      /\ settledAge' = IF u.btn.stable # btn.stable THEN 0
                       ELSE Capped(settledAge + dt, Debounce)
      /\ brief' = (brief \/ (u.btn.stable # btn.stable /\ settledAge + dt < Debounce))
    BY DEF PassTo
<1> HIDE DEF b
<1>4. CASE Presses(b, u, dimmed) \/ Releases(b, u)
  <2>1. /\ u.btn.stable # btn.stable /\ b.edge >= Debounce
        /\ btn.raw = u.btn.raw /\ u.btn.raw = u.btn.stable
    BY <1>2, <1>4 DEF Presses, Releases, Settles
  <2>2. btn.edge <= settledAge
    BY <2>1 DEF ChatterInv
  <2>3. ~(settledAge + dt < Debounce)
    BY <1>1, <1>2, <2>1, <2>2 DEF Capped
  <2> QED BY <1>3, <2>1, <2>3 DEF ChatterInv
<1>5. CASE IsHeld(b, u) \/ Stays(b, u)
  <2>1. u.btn.stable = btn.stable /\ GoesOn(b, u)
    <3>1. b.stable \in BOOLEAN /\ u.btn.stable \in BOOLEAN
      BY <1>1 DEF Buttons
    <3> QED BY <1>2, <1>5, <3>1 DEF IsHeld, Stays
  <2>2. settledAge' = Capped(settledAge + dt, Debounce) /\ ~brief'
    BY <1>3, <2>1 DEF ChatterInv
  <2>3. ASSUME u.btn.raw # u.btn.stable PROVE u.btn.edge <= settledAge'
    <3>1. CASE u.btn.edge = 0
      BY <1>1, <2>2, <3>1, CappedIs
    <3>2. CASE u.btn.edge = b.edge /\ u.btn.raw = b.raw
      <4>1. btn.edge <= settledAge
        BY <1>2, <2>1, <2>3, <3>2 DEF ChatterInv
      <4> QED BY <1>1, <1>2, <2>2, <3>2, <4>1 DEF Capped
    <3> QED BY <2>1, <3>1, <3>2 DEF GoesOn
  <2> QED BY <1>3, <2>2, <2>3 DEF ChatterInv
<1> QED BY <1>4, <1>5 DEF PassIs, b

\* A confirmation is open only while its time runs, after the entry was chosen.
LEMMA ResetStep ==
    ASSUME UiTypeOK, ResetInv, NEW dt \in 1 .. MaxGap, NEW u,
           NEW setup \in BOOLEAN, NEW taken \in BOOLEAN,
           PassIs(dt, u, Dimmed(dt, setup)), PassTo(dt, u, Remains(dt), setup, taken)
    PROVE  /\ ResetInv'
           /\ command'.op = "confirm-reset" => deliberate = "released"
<1> DEFINE b == Older(btn, dt)
           dimmed == Dimmed(dt, setup)
           left == Remains(dt)
<1>1. /\ btn \in Buttons /\ dt \in Nat /\ dt > 0 /\ u.btn \in Buttons
      /\ confirmLeft \in Nat /\ touchAge \in Nat /\ ConfirmWindow \in Nat \ {0}
      /\ DimAfter \in Nat /\ DimAfter >= ConfirmWindow
      /\ Slots \in Nat
    BY UiAssumption DEF UiTypeOK, Buttons, PassIs
<1>2. b.stable = btn.stable /\ b.fired = btn.fired /\ b.suppress = btn.suppress
    BY <1>1, OlderIs
<1>3. /\ btn' = u.btn
      /\ touchAge' = IF u.event = "none" THEN Capped(touchAge + dt, DimAfter + 1) ELSE 0
      /\ confirmLeft' = IF Chooses(u, left) THEN ConfirmWindow ELSE left
      /\ CASE u.event = "short" -> ShortPress
           [] u.event = "hold" -> Hold(setup, taken, left)
           [] OTHER -> Keep(menu, page, confirm, NoOp)
      /\ deliberate' = IF Chooses(u, left) THEN "chosen"
                       ELSE IF u.event # "none" \/ left = 0 THEN "no"
                       ELSE IF /\ u.btn.stable # btn.stable /\ ~u.btn.stable
                               /\ deliberate = "chosen"
                            THEN "released"
                       ELSE deliberate
    BY DEF PassTo
<1>4. left \in Nat /\ (left > 0 => left = confirmLeft - dt)
    BY <1>1 DEF Remains
<1>5. confirm /\ left > 0 => ~dimmed
    BY <1>1, <1>4 DEF ResetInv, Dimmed
<1>6. NoOp.op = "none" /\ \A o : Op(o).op = o /\ \A i : SlotOp(o, i).op = o
    BY DEF NoOp, Op, SlotOp
<1>7. \/ Presses(b, u, dimmed) \/ Releases(b, u) \/ IsHeld(b, u) \/ Stays(b, u)
    BY DEF PassIs
<1>8. EntryReset # Closed /\ EntryReset # EntrySetup /\ EntryReset \notin 1 .. Slots
    BY <1>1 DEF EntryReset, EntrySetup, Closed
<1> HIDE DEF b, dimmed, left
<1>9. CASE u.event = "hold"
  <2>1. u.btn.stable /\ u.btn.fired /\ btn.stable /\ ~btn.fired
    BY <1>2, <1>7, <1>9 DEF Presses, Releases, IsHeld, Stays, Pending
  <2>2. Hold(setup, taken, left)
    BY <1>3, <1>9
  <2>3. CASE confirm /\ left > 0
    <3>1. menu = EntryReset /\ deliberate = "released"
      BY <2>1, <2>3 DEF ResetInv
    <3>2. Keep(Closed, page, FALSE, Op("confirm-reset"))
      BY <1>8, <2>2, <2>3, <3>1 DEF Hold
    <3> QED BY <3>1, <3>2 DEF Keep, ResetInv
  <2>4. CASE ~(confirm /\ left > 0) /\ menu = EntryReset
    <3>1. Keep(menu, page, TRUE, Op("reset"))
      BY <1>8, <2>2, <2>4 DEF Hold
    <3>2. Chooses(u, left)
      BY <1>9, <2>4 DEF Chooses
    <3>3. confirmLeft' = ConfirmWindow /\ touchAge' = 0 /\ deliberate' = "chosen"
      <4>1. confirmLeft' = ConfirmWindow
        BY <1>3, <3>2
      <4>2. touchAge' = 0
        BY <1>3, <1>9
      <4>3. deliberate' = "chosen"
        BY <1>3, <3>2
      <4> QED BY <4>1, <4>2, <4>3
    <3>4. menu' = EntryReset /\ command'.op = "reset"
      BY <1>6, <2>4, <3>1 DEF Keep
    <3> QED BY <1>1, <1>3, <2>1, <3>3, <3>4 DEF ResetInv
  <2>5. CASE ~(confirm /\ left > 0) /\ menu # EntryReset
    <3>1. ~confirm
      BY <2>5 DEF ResetInv
    <3>2. /\ ~confirm' /\ command'.op \in {"none", "setup", "cancel", "use"}
      <4>1. CASE menu = Closed \/ menu \notin {EntrySetup, EntryReset} \cup 1 .. Slots
        BY <1>6, <2>2, <2>5, <3>1, <4>1 DEF Hold, Keep
      <4>2. CASE menu # Closed /\ menu = EntrySetup
        BY <1>6, <2>2, <2>5, <3>1, <4>2 DEF Hold, Keep
      <4>3. CASE menu \notin {Closed, EntrySetup} /\ menu \in 1 .. Slots
        <5>1. Keep(Closed, page, confirm, SlotOp(IF taken THEN "use" ELSE "setup", menu))
          BY <2>2, <2>5, <3>1, <4>3, Zenon DEF Hold
        <5> QED BY <1>6, <3>1, <5>1 DEF Keep
      <4> QED BY <2>5, <4>1, <4>2, <4>3
    <3> QED BY <3>2 DEF ResetInv
  <2> QED BY <2>3, <2>4, <2>5
<1>10. CASE u.event = "short"
  <2>1. ShortPress
    BY <1>3, <1>10
  <2>2. confirm => menu # Closed
    BY <1>8 DEF ResetInv
  <2>3. ~confirm' /\ command'.op = "none"
    BY <1>6, <2>1, <2>2 DEF ShortPress, Keep
  <2> QED BY <2>3 DEF ResetInv
<1>11. CASE u.event \notin {"hold", "short"}
  <2>1. Keep(menu, page, confirm, NoOp)
    BY <1>3, <1>11
  <2>2. command'.op = "none" /\ menu' = menu
    BY <1>6, <2>1 DEF Keep
  <2>3. ~Chooses(u, left) /\ confirmLeft' = left
    BY <1>3, <1>11 DEF Chooses
  <2>4. ASSUME confirm' PROVE confirm /\ left > 0
    BY <2>1, <2>3, <2>4 DEF Keep
  <2>5. ASSUME confirm'
        PROVE  /\ u.event = "none"
               /\ touchAge' + confirmLeft' <= ConfirmWindow
    <3>1. u.event = "none"
      BY <1>5, <1>7, <1>11, <2>4, <2>5 DEF Presses, Releases, IsHeld, Stays
    <3>2. touchAge' <= touchAge + dt /\ touchAge' \in Nat
      BY <1>1, <1>3, <3>1, CappedIs
    <3>3. touchAge + dt + left <= ConfirmWindow
      BY <1>1, <1>4, <2>4, <2>5 DEF ResetInv
    <3>4. touchAge' + left <= ConfirmWindow
      <4>1. \A n \in Nat : n <= touchAge + dt => n + left <= ConfirmWindow
        BY <1>1, <1>4, <3>3
      <4> QED BY <3>2, <4>1
    <3>5. touchAge' + confirmLeft' <= ConfirmWindow
      BY <2>3, <3>4
    <3> QED BY <3>1, <3>5
  <2>6. ASSUME confirm'
        PROVE  \/ deliberate' = "released"
               \/ deliberate' = "chosen" /\ u.btn.stable /\ u.btn.fired
    <3>1. confirm /\ left > 0 /\ left # 0 /\ u.event = "none"
      BY <1>1, <1>4, <2>4, <2>5, <2>6
    <3>2. deliberate' = IF /\ u.btn.stable # btn.stable /\ ~u.btn.stable
                           /\ deliberate = "chosen"
                        THEN "released" ELSE deliberate
      BY <1>3, <2>3, <3>1
    <3>3. CASE deliberate = "released"
      BY <3>2, <3>3
    <3>4. CASE deliberate = "chosen" /\ btn.stable /\ btn.fired
      <4>1. CASE u.btn.stable
        <5>1. u.btn.fired
          BY <1>2, <1>7, <3>1, <3>4, <4>1 DEF Presses, Releases, IsHeld, Stays
        <5> QED BY <3>2, <3>4, <4>1, <5>1
      <4>2. CASE ~u.btn.stable
        BY <3>2, <3>4, <4>2
      <4> QED BY <4>1, <4>2
    <3> QED BY <3>1, <3>3, <3>4 DEF ResetInv
  <2> QED BY <1>3, <2>2, <2>3, <2>4, <2>5, <2>6 DEF ResetInv
<1> QED BY <1>9, <1>10, <1>11

-----------------------------------------------------------------------------
(* The theorems. *)

\* Nobody has pressed the button yet.
LEMMA UiInitInv == Init => UiInv
<1> SUFFICES ASSUME Init PROVE UiInv
    OBVIOUS
<1>1. /\ 0 \in 0 .. Debounce /\ 0 \in 0 .. HoldTime /\ Debounce \in 0 .. Debounce
      /\ 0 \in 0 .. Pages - 1 /\ 0 \in 0 .. ConfirmWindow /\ 0 \in 0 .. DimAfter + 1
    BY UiAssumption
<1>2. btn \in Buttons
    BY <1>1, Zenon DEF Init, Buttons
<1>3. UiTypeOK
    BY <1>1, <1>2, CommandsAre DEF Init, UiTypeOK, Buttons
<1>4. GestureInv /\ ChatterInv /\ ResetInv
    BY DEF Init, GestureInv, ChatterInv, ResetInv
<1> QED BY <1>3, <1>4 DEF UiInv

\* Every pass keeps the invariant, and confirms a reset only when it may.
LEMMA UiStep ==
    ASSUME UiInv, Next
    PROVE  UiInv' /\ (command'.op = "confirm-reset" => deliberate = "released")
<1>1. PICK dt \in 1 .. MaxGap, down, setup, taken \in BOOLEAN : Poll(dt, down, setup, taken)
    BY DEF Next
<1>2. /\ UiTypeOK /\ GestureInv /\ ChatterInv /\ ResetInv
      /\ Dimmed(dt, setup) \in BOOLEAN
    BY DEF UiInv, Dimmed
<1>3. /\ PassIs(dt, Sample(dt, down, setup), Dimmed(dt, setup))
      /\ PassTo(dt, Sample(dt, down, setup), Remains(dt), setup, taken)
    BY <1>1, <1>2, PollIs
<1> QED BY <1>2, <1>3, TypesStep, GestureStep, ChatterStep, ResetStep DEF UiInv

\* The invariant holds always.
LEMMA UiHolds == Spec => []UiInv
<1>1. UiInv /\ [Next]_vars => UiInv'
  <2>1. UiInv /\ UNCHANGED vars => UiInv'
    BY DEF vars, UiInv, UiTypeOK, GestureInv, ChatterInv, ResetInv
  <2> QED BY <2>1, UiStep
<1> QED BY <1>1, UiInitInv, PTL DEF Spec

\* Whatever the contact does and however late the button is polled, each press,
\* from settling down to having settled up again, gives exactly one event: a
\* short press, a hold, or the waking of the display.
THEOREM EventsOncePerPress == Spec => []OneEventPerGesture
<1>1. UiInv => OneEventPerGesture
    BY DEF UiInv, UiTypeOK, GestureInv, OneEventPerGesture
<1> QED BY <1>1, UiHolds, PTL

\* The button never settles twice within the debounce time.
THEOREM NeverChatters == Spec => []NoChatter
<1>1. UiInv => NoChatter
    BY DEF UiInv, ChatterInv, NoChatter
<1> QED BY <1>1, UiHolds, PTL

\* A factory reset is confirmed only by a user who chose its entry, let the
\* button go and pressed it again in time, with no other press in between.
THEOREM ResetsDeliberate == Spec => ResetDeliberate
<1>1. UiInv /\ [Next]_vars
        => [command'.op = "confirm-reset" => deliberate = "released"]_vars
    BY UiStep
<1> QED BY <1>1, UiHolds, PTL DEF Spec, ResetDeliberate
=============================================================================
