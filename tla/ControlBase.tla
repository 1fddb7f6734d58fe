----------------------------- MODULE ControlBase -----------------------------
(***************************************************************************)
(* The three controls, a widget each: what they do with a property that    *)
(* is applied, what they put back when they are suspended, and the LVGL    *)
(* object they drive.  A widget is a record w; everything here runs under  *)
(* the LVGL lock, so an operator takes the widget before a call to the     *)
(* widget after it.                                                        *)
(*                                                                         *)
(* Fields of a widget, after the members of the source:                    *)
(*   kind              "toggle", "slider" or "button"; or "box", see       *)
(*                     WidgetBase                                          *)
(*   store, pending    properties_ and pending_properties_                 *)
(*   is_ready, is_group_active, was_processing, detached                   *)
(*   hidden            the hidden flag of its container                    *)
(*   parent_shown      whether its parents process and are visible         *)
(*   native            what the LVGL object shows, NoObject before render: *)
(*                     a switch or a button its checked state, a slider    *)
(*                     its index                                           *)
(*   shown             shown_checked_ or shown_index_                      *)
(*   step_count, max   of a slider                                         *)
(*   pressed           LV_STATE_PRESSED of the object                      *)
(*   target_id         of a button                                         *)
(*   is_sending_press  whether VALUE is bound outwards                     *)
(*   is_press_published                                                    *)
(*   sent              auxiliary: what the last published press said       *)
(*   bound, grid, box, px   of a box: the layout properties that are bound, *)
(*                     the grid, the box of its record, and where it is    *)
(*   asked             auxiliary: what a person last asked a setting for   *)
(***************************************************************************)
EXTENDS Integers

CONSTANTS
    MaxValue,           \* values are 0 .. MaxValue
    NoObject, NoTarget, NotAsked

ASSUME MaxValueAssumption == MaxValue \in Nat
ASSUME NoObjectAssumption == NoObject \notin Int

Larger(a, b) == IF a > b THEN a ELSE b
Smaller(a, b) == IF a < b THEN a ELSE b

IsRendered(w) == w.native # NoObject

\* The lowest value of a slider is 0 and its step 1; the highest is the owner's.
ToIndex(w, value) == Smaller(value, w.step_count)
ToValue(w, index) == Smaller(index, w.max)

\* LVGL keeps the value of a slider within its range.
SetValue(w, index) == [w EXCEPT !.native = Smaller(index, w.step_count)]

\* A drag is not taken away from the finger.
UpdateSlider(w) ==
    IF ~IsRendered(w) \/ w.pressed THEN w
    ELSE SetValue([w EXCEPT !.shown = ToIndex(w, w.store.VALUE)], ToIndex(w, w.store.VALUE))

\* A mistake it could have, which nothing uses: the range is set, and the value
\* left where it was in the one before.
FaultyApplyRange(w) ==
    LET ranged == [w EXCEPT !.max = w.store.MAX_VALUE, !.step_count = Larger(w.store.MAX_VALUE, 1)]
    IN  IF IsRendered(w) THEN SetValue(ranged, w.native) ELSE ranged

ApplyRange(w) ==
    LET ranged == [w EXCEPT !.max = w.store.MAX_VALUE, !.step_count = Larger(w.store.MAX_VALUE, 1)]
    IN  UpdateSlider(IF IsRendered(w) THEN SetValue(ranged, w.native) ELSE ranged)

UpdateSwitch(w) ==
    IF IsRendered(w) THEN [w EXCEPT !.shown = w.store.VALUE, !.native = w.store.VALUE] ELSE w

UpdateChecked(w) == IF IsRendered(w) THEN [w EXCEPT !.native = w.store.VALUE] ELSE w

UpdateShown(w) ==
    CASE w.kind = "slider" -> UpdateSlider(w)
      [] w.kind = "toggle" -> UpdateSwitch(w)
      [] OTHER -> UpdateChecked(w)

\* A target that is none is not taken: the button keeps the one it had.
UpdateTarget(w) ==
    IF w.store.TARGET = NoTarget THEN w ELSE [w EXCEPT !.target_id = w.store.TARGET]

SetVisibility(w) == [w EXCEPT !.hidden = ~w.store.IS_VISIBLE]

\* OnPropertyChanged() of the control and of the classes it derives from.
OnPropertyChanged(w, type) ==
    CASE type = "IS_VISIBLE" -> SetVisibility(w)
      [] type = "VALUE" -> UpdateShown(w)
      [] type = "MAX_VALUE" /\ w.kind = "slider" -> ApplyRange(w)
      [] type = "TARGET" /\ w.kind = "button" -> UpdateTarget(w)
      [] OTHER -> w

\* What the control showed last comes back; a pending value is not applied.  A
\* button shows what is stored and has nothing to put back.
RestoreShownValue(w) ==
    IF ~IsRendered(w) \/ w.kind = "button" THEN w
    ELSE IF w.kind = "slider" THEN SetValue(w, w.shown)
    ELSE [w EXCEPT !.native = w.shown]

\* A press goes out once, and its release once.
PublishPress(w, is_pressed) ==
    [w EXCEPT !.is_press_published = is_pressed,
              !.sent = IF w.is_press_published # is_pressed /\ w.is_sending_press THEN is_pressed ELSE @]

ControlSuspended(w) ==
    LET freed == [w EXCEPT !.pressed = FALSE]
    IN  IF ~IsRendered(w) THEN w
        ELSE IF "VALUE" \in w.pending THEN RestoreShownValue(freed)
        ELSE OnPropertyChanged(freed, "VALUE")

\* A press that is cut short still owes its release.
OnProcessingSuspended(w) ==
    IF w.kind = "button" THEN PublishPress(ControlSuspended(w), FALSE) ELSE ControlSuspended(w)

=============================================================================
