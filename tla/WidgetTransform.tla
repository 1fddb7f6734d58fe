---------------------------- MODULE WidgetTransform ----------------------------
(***************************************************************************)
(* What moves a widget that is drawn: the animator, that blinks or turns   *)
(* its presentation while it is there to be seen, and the angle that a     *)
(* composite gives it to keep.                                             *)
(*                                                                         *)
(* Operators on one widget's record.  eligible is whether the widget is    *)
(* processed just now.  Anchors and pivots, where a turn has its centre,   *)
(* are left out.                                                           *)
(***************************************************************************)
EXTENDS Integers

CONSTANT NoAngle            \* no angle was given yet

\* Tenths of a degree.
FullTurn == 3600

\* What an animation shows on its way.
Blinks == {"cover", "transp"}
Turns == {0, 900}

\* An overflow that is visible while the presentation is turned.
ApplyRotation(w, angle) == [w EXCEPT !.rotated = angle, !.is_prepared = angle # 0]

ResetPresentation(w) == ApplyRotation([w EXCEPT !.opacity = "cover"], w.rotation)

Cancel(w) == [w EXCEPT !.is_running = FALSE]

\* LVGL runs an animation's first value as it starts, and may have no memory left
\* for it.
Start(w, heap_full) ==
    IF heap_full THEN [ResetPresentation(w) EXCEPT !.start_failed = TRUE]
    ELSE IF w.animation = "rotation"
    THEN [w EXCEPT !.is_running = TRUE, !.start_failed = FALSE, !.is_prepared = TRUE, !.rotated = 0]
    ELSE [w EXCEPT !.is_running = TRUE, !.start_failed = FALSE, !.opacity = "cover"]

\* A mistake it could have, which nothing uses: an animation that was told the same
\* is left as it is, whether its widget is there to be seen or not.
FaultySynchronizeAnimation(w, eligible, heap_full) ==
    LET stopped == [ResetPresentation(Cancel(w)) EXCEPT
                        !.settings = w.is_set_active, !.is_synchronized = TRUE,
                        !.was_eligible = eligible, !.start_failed = FALSE]
    IN  IF w.detached \/ (w.is_synchronized /\ w.settings = w.is_set_active) THEN w
        ELSE IF eligible /\ w.is_set_active /\ w.animation # "none" THEN Start(stopped, heap_full)
        ELSE stopped

\* An animation that is what it was goes on where it is.
SynchronizeAnimation(w, eligible, heap_full) ==
    LET stopped == [ResetPresentation(Cancel(w)) EXCEPT
                        !.settings = w.is_set_active, !.is_synchronized = TRUE,
                        !.was_eligible = eligible, !.start_failed = FALSE]
    IN  IF w.detached \/ (w.is_synchronized /\ w.settings = w.is_set_active /\ w.was_eligible = eligible) THEN w
        ELSE IF eligible /\ w.is_set_active /\ w.animation # "none" THEN Start(stopped, heap_full)
        ELSE stopped

StopAndReset(w) == [ResetPresentation(Cancel(w)) EXCEPT !.is_synchronized = FALSE]

\* A mistake it could have, which nothing uses: what is out of sight is stopped
\* where it is.
FaultyExecute(w, eligible, opacity, angle) ==
    IF ~eligible THEN [Cancel(w) EXCEPT !.was_eligible = FALSE]
    ELSE IF w.animation = "blinking" THEN [w EXCEPT !.opacity = opacity]
    ELSE [w EXCEPT !.rotated = angle]

\* The next value of a running animation.
Execute(w, eligible, opacity, angle) ==
    IF ~eligible THEN [ResetPresentation(Cancel(w)) EXCEPT !.was_eligible = FALSE]
    ELSE IF w.animation = "blinking" THEN [w EXCEPT !.opacity = opacity]
    ELSE [w EXCEPT !.rotated = angle]

-----------------------------------------------------------------------------
\* An angle that is kept, for whoever has no turning animation of its own.
CanSetRotation(w) == w.animation # "rotation"

\* The image turns by itself, whatever else turns with the presentation.
TurnTarget(w) ==
    IF w.icon = "image" THEN [w EXCEPT !.image_rotation = w.angle]
    ELSE ApplyRotation([w EXCEPT !.rotation = w.angle], w.angle)

\* A target that was just rendered takes its angle at once, one that was there when
\* it is processed.
UpdateAnchor(w, eligible) ==
    IF w.detached \/ ~w.is_ready THEN w
    ELSE IF w.angle # NoAngle /\ CanSetRotation(w) /\ (w.target_pending \/ eligible)
    THEN [TurnTarget(w) EXCEPT !.target_pending = FALSE]
    ELSE [w EXCEPT !.target_pending = FALSE]

SetRotation(w, eligible, angle) ==
    IF w.detached \/ ~CanSetRotation(w) THEN w
    ELSE LET kept == [w EXCEPT !.angle = angle % FullTurn]
         IN  IF w.is_ready /\ eligible THEN UpdateAnchor(kept, eligible) ELSE kept

\* A widget that stops being processed stops moving; one that is processed takes
\* the angle it was given meanwhile.
TransformProcessingUpdated(w, enabled, heap_full) ==
    IF ~enabled THEN SynchronizeAnimation(w, FALSE, heap_full)
    ELSE IF w.angle # NoAngle THEN UpdateAnchor(w, enabled)
    ELSE w

BeforeRender(w) == StopAndReset(w)

OnRendered(w, eligible) == UpdateAnchor([w EXCEPT !.target_pending = TRUE], eligible)

DetachTransform(w) == StopAndReset([w EXCEPT !.rotation = 0])

=============================================================================
