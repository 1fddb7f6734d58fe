----------------------------- MODULE DialIndicator -----------------------------
(***************************************************************************)
(* A dial and its needle: a value that is shown at once or eased to, the   *)
(* angle that it gives its child, and the animations that either of them   *)
(* plays while it is there to be seen.                                     *)
(*                                                                         *)
(* The other indicators that ease show value_ itself instead of an angle.  *)
(* Everything here runs under the LVGL lock, so an operator takes the tree *)
(* before a call to the tree after it.  Whether LVGL has memory left for   *)
(* an animation is an input of each action, full.                          *)
(*                                                                         *)
(* Fields of the tree t:                                                   *)
(*   dial, needle      the two widgets; the fields of WidgetTransform and  *)
(*                     store, pending, hidden, is_group_active,            *)
(*                     was_processing, each after the member of its name   *)
(*   bound             what of each part events may change                 *)
(*   shown             whether what is above the dial processes and is     *)
(*                     visible                                             *)
(*   value, is_value_shown  of the dial                                    *)
(*   easing            the end of value_change_animation_, NotEasing while *)
(*                     it does not run                                     *)
(*   is_left           auxiliary: the last value was left out, because it  *)
(*                     was near the one on the display or there was no     *)
(*                     memory to ease to it                                *)
(***************************************************************************)
EXTENDS WidgetTransform

CONSTANTS
    MaxValue,           \* the dial's range is 0 .. MaxValue
    NotEasing,
    Configurations      \* what the dial and its needle are configured as: the
                        \* animation of each, and what of each is bound to events

VARIABLE tree

Parts == {"dial", "needle"}

StartAngle == 45
EndAngle == 315

Types(part) == IF part = "dial" THEN {"IS_ACTIVE", "IS_VISIBLE", "IS_ANIMATION_ACTIVE", "VALUE"}
               ELSE {"IS_ACTIVE", "IS_VISIBLE", "IS_ANIMATION_ACTIVE"}

Management == {"IS_ACTIVE", "IS_VISIBLE"}

-----------------------------------------------------------------------------
\* The frames of a widget and of those above it.
IsSelfEnabled(w) ==
    w.is_group_active /\ w.store.IS_ACTIVE /\ w.store.IS_VISIBLE /\ ~w.hidden /\ ~w.detached

\* A dial that is not rendered keeps its needle from being processed.
IsProcessingEligible(t, part) ==
    /\ IsSelfEnabled(t[part])
    /\ IsSelfEnabled(t.dial)
    /\ part = "needle" => t.dial.is_ready
    /\ t.shown

IsAnimationEligible(t, part) == t[part].is_ready /\ IsProcessingEligible(t, part)

IsTrackingEligible(t, part) == ~t[part].detached /\ t[part].store.IS_ACTIVE /\ t.dial.store.IS_ACTIVE

SynchronizeTransform(t, part, full) ==
    [t EXCEPT ![part] = SynchronizeAnimation(@, IsAnimationEligible(t, part), full)]

Anchored(t, part) == [t EXCEPT ![part] = UpdateAnchor(@, IsProcessingEligible(t, part))]

-----------------------------------------------------------------------------
\* The value of the dial and the angle of its needle.
Clamp(value) == IF value > MaxValue THEN MaxValue ELSE value

\* Tenths of a degree, over the range; one that is empty leaves the needle at its start.
GetAngleForValue(value) ==
    StartAngle * 10 - 1800 + IF MaxValue = 0 THEN 0 ELSE ((EndAngle - StartAngle) * 10 * value) \div MaxValue

UpdateIndicator(t, value) ==
    [t EXCEPT !.needle = SetRotation(@, IsProcessingEligible(t, "needle"), GetAngleForValue(value))]

\* A mistake it could have, which nothing uses: the value that an ease has not
\* reached is not kept.
FaultyEaseSuspended(t) == [t EXCEPT !.easing = NotEasing]

\* The store holds the target already; it is kept to be shown.
EaseSuspended(t) ==
    IF t.easing = NotEasing THEN t
    ELSE [t EXCEPT !.easing = NotEasing, !.dial.pending = @ \cup {"VALUE"}]

UpdateIndicatorCallback(t, value) ==
    IF ~IsAnimationEligible(t, "dial") THEN EaseSuspended(t)
    ELSE [UpdateIndicator(t, value) EXCEPT !.value = value, !.is_value_shown = TRUE]

\* The animation before ends whether there is memory for its successor or not.
ValueChangeAnimation(t, end_value, full) ==
    [t EXCEPT !.easing = IF full THEN NotEasing ELSE end_value, !.is_left = full]

\* The first value is shown at once.
Update(t, full) ==
    LET value == Clamp(t.dial.store.VALUE)
    IN  IF ~IsAnimationEligible(t, "dial") THEN t
        ELSE IF ~(t.is_smoothed /\ t.is_value_shown)
        THEN UpdateIndicatorCallback([t EXCEPT !.is_left = FALSE], value)
        ELSE IF value = t.value THEN [t EXCEPT !.is_left = t.easing # NotEasing]
        ELSE ValueChangeAnimation(t, value, full)

-----------------------------------------------------------------------------
\* The life of a widget, with the children that it owns.

OnProcessingSuspended(t, part) == IF part = "dial" THEN EaseSuspended(t) ELSE t

UpdateProcessingState(t, part, full) ==
    LET enabled == IsAnimationEligible(t, part)
        suspended == IF t[part].was_processing /\ ~enabled THEN OnProcessingSuspended(t, part) ELSE t
    IN  IF t[part].detached THEN t
        ELSE [suspended EXCEPT ![part] =
                TransformProcessingUpdated([@ EXCEPT !.was_processing = enabled], enabled, full)]

ApplyProperty(t, part, type, full) ==
    CASE type = "IS_VISIBLE" ->
            UpdateProcessingState([t EXCEPT ![part].hidden = ~t[part].store.IS_VISIBLE], part, full)
      [] type = "IS_ACTIVE" -> UpdateProcessingState(t, part, full)
      [] type = "IS_ANIMATION_ACTIVE" -> [t EXCEPT ![part].is_set_active = t[part].store.IS_ANIMATION_ACTIVE]
      [] type = "VALUE" -> Update(t, full)

ApplySelected(t, part, type, selected, full) ==
    IF type \in selected THEN ApplyProperty(t, part, type, full) ELSE t

\* In the order of their registration, and VALUE last.
ApplyProperties(t, part, selected, full) ==
    LET active == ApplySelected(t, part, "IS_ACTIVE", selected, full)
        managed == ApplySelected(active, part, "IS_VISIBLE", selected, full)
        played == ApplySelected(managed, part, "IS_ANIMATION_ACTIVE", selected, full)
    IN  SynchronizeTransform(ApplySelected(played, part, "VALUE", selected, full), part, full)

ReplayPendingProperties(t, part, full) ==
    LET anchored == Anchored(t, part)
    IN  IF ~IsAnimationEligible(t, part) THEN t
        ELSE IF t[part].pending = {} THEN SynchronizeTransform(anchored, part, full)
        ELSE ApplyProperties([anchored EXCEPT ![part].pending = {}], part, t[part].pending, full)

ReplayProperties(t, part, full) ==
    LET applied == ApplyProperties([t EXCEPT ![part].pending = {}], part, Types(part), full)
    IN  IF IsAnimationEligible(applied, part) THEN applied
        ELSE [applied EXCEPT ![part].pending = @ \cup (Types(part) \ Management)]

SynchronizeWidget(t, part, full) ==
    IF t[part].detached THEN t
    ELSE Anchored(ReplayPendingProperties(UpdateProcessingState(t, part, full), part, full), part)

Synchronize(t, full) == SynchronizeWidget(SynchronizeWidget(t, "dial", full), "needle", full)

NotifyPropertyChanged(t, part, type, full) ==
    IF type \in Management
    THEN LET replayed == ReplayPendingProperties(ApplyProperty(t, part, type, full), part, full)
         IN  IF part = "dial" THEN SynchronizeWidget(replayed, "needle", full) ELSE replayed
    ELSE IF t[part].pending = {} /\ IsAnimationEligible(t, part)
    THEN SynchronizeTransform(ApplyProperty(t, part, type, full), part, full)
    ELSE ReplayPendingProperties([t EXCEPT ![part].pending = @ \cup {type}], part, full)

SetGroupActive(t, part, active, full) ==
    UpdateProcessingState([t EXCEPT ![part].is_group_active = active], part, full)

ActivateWidget(t, part, full) ==
    LET active == SetGroupActive(t, part, TRUE, full)
    IN  IF IsAnimationEligible(active, part) THEN ReplayProperties(active, part, full) ELSE active

OnActivated(t, full) == ActivateWidget(ActivateWidget(t, "dial", full), "needle", full)

OnDeactivated(t, full) == SetGroupActive(SetGroupActive(t, "dial", FALSE, full), "needle", FALSE, full)

DetachWidget(t, part) ==
    LET detached == [t EXCEPT ![part].detached = TRUE, ![part].is_ready = FALSE,
                              ![part].is_group_active = FALSE, ![part].was_processing = FALSE]
    IN  [OnProcessingSuspended(detached, part) EXCEPT ![part] = DetachTransform(@)]

DetachDispatch(t) == DetachWidget(DetachWidget(t, "dial"), "needle")

\* A widget's part of a render: before its object is made, and after.
BeginRender(t, part, full) ==
    UpdateProcessingState([t EXCEPT ![part] = BeforeRender([@ EXCEPT !.is_ready = FALSE])], part, full)

EndRender(t, part, full) ==
    LET ready == [t EXCEPT ![part].is_ready = TRUE]
        rendered == [ready EXCEPT ![part] = OnRendered(@, IsProcessingEligible(ready, part))]
    IN  ReplayPendingProperties(UpdateProcessingState(rendered, part, full), part, full)

\* The needle is rendered first, and pointed at the start of the range.
Render(t, full) ==
    LET needle == EndRender(BeginRender(BeginRender(t, "dial", full), "needle", full), "needle", full)
    IN  SynchronizeWidget(EndRender(UpdateIndicator(needle, 0), "dial", full), "needle", full)

\* The needle's icon could not be made.
RenderFails(t, full) ==
    LET needle == UpdateProcessingState(BeginRender(BeginRender(t, "dial", full), "needle", full), "needle", full)
    IN  SynchronizeWidget(UpdateProcessingState(needle, "dial", full), "needle", full)

-----------------------------------------------------------------------------
Constructed(part, animation, icon) ==
    [store |-> [type \in Types(part) |-> IF type = "VALUE" THEN 0 ELSE type # "IS_ANIMATION_ACTIVE"],
     pending |-> Types(part) \ Management, hidden |-> FALSE, is_group_active |-> FALSE,
     was_processing |-> FALSE, is_ready |-> FALSE, detached |-> FALSE,
     animation |-> animation, is_set_active |-> FALSE, settings |-> FALSE, is_synchronized |-> FALSE,
     was_eligible |-> FALSE, is_running |-> FALSE, start_failed |-> FALSE, opacity |-> "cover",
     rotated |-> 0, rotation |-> 0, is_prepared |-> FALSE, angle |-> NoAngle, target_pending |-> FALSE,
     icon |-> icon, image_rotation |-> 0]

Init ==
    \E c \in Configurations, icon \in {"image", "shape"}, is_smoothed \in BOOLEAN :
        tree = [dial |-> Constructed("dial", c.animation.dial, "none"),
                needle |-> Constructed("needle", c.animation.needle, icon),
                bound |-> c.bound, shown |-> TRUE, is_smoothed |-> is_smoothed, value |-> 0, is_value_shown |-> FALSE,
                easing |-> NotEasing, is_left |-> FALSE]

IsAlive == ~tree.dial.detached

Renders(full) ==
    /\ IsAlive
    /\ ~tree.dial.is_ready
    /\ ~tree.needle.is_ready
    /\ tree' = Render(tree, full) \/ tree' = RenderFails(tree, full)

Activates(full) == IsAlive /\ ~tree.dial.is_group_active /\ tree' = OnActivated(tree, full)

Deactivates(full) == IsAlive /\ tree.dial.is_group_active /\ tree' = OnDeactivated(tree, full)

\* An overlay or a hidden parent: nothing tells the widgets.
ParentChanges == tree' = [tree EXCEPT !.shown = ~@]

\* An event of a binding, or an editor's record that is applied in place.  An
\* inactive widget takes no event's value.
Changed(part, type, value, full) ==
    /\ type \in tree.bound[part]
    /\ tree' = NotifyPropertyChanged([tree EXCEPT ![part].store[type] = value], part, type, full)

Event(full) ==
    /\ IsAlive
    /\ \E part \in Parts :
        \/ \E type \in Management, value \in BOOLEAN : Changed(part, type, value, full)
        \/ /\ IsTrackingEligible(tree, part)
           /\ \E value \in BOOLEAN : Changed(part, "IS_ANIMATION_ACTIVE", value, full)
    \/ /\ IsAlive
       /\ IsTrackingEligible(tree, "dial")
       /\ \E value \in 0 .. MaxValue + 1 : Changed("dial", "VALUE", value, full)

\* With every frame that LVGL draws.
Refresh(full) == IsAlive /\ tree' = Synchronize(tree, full)

\* The next value on the way to the end of the ease.
EaseTick ==
    /\ tree.easing # NotEasing
    /\ \E value \in 0 .. MaxValue :
        /\ \/ tree.value < value /\ value <= tree.easing
           \/ tree.easing <= value /\ value < tree.value
        /\ LET moved == UpdateIndicatorCallback(tree, value)
           IN  tree' = IF value = tree.easing THEN [moved EXCEPT !.easing = NotEasing] ELSE moved

AnimationTick ==
    \E part \in Parts, opacity \in Blinks, angle \in Turns :
        /\ tree[part].is_running
        /\ tree' = [tree EXCEPT ![part] = Execute(@, IsAnimationEligible(tree, part), opacity, angle)]

TakenDown == IsAlive /\ tree' = DetachDispatch(tree)

Next ==
    \/ \E full \in BOOLEAN : Renders(full) \/ Activates(full) \/ Deactivates(full) \/ Event(full) \/ Refresh(full)
    \/ ParentChanges \/ EaseTick \/ AnimationTick \/ TakenDown

-----------------------------------------------------------------------------
NeedlePoints(t) == IF t.needle.icon = "image" THEN t.needle.image_rotation ELSE t.needle.rotation

Frame == \E full \in BOOLEAN : Refresh(full)

ShowsItsValue(t) ==
    IsAnimationEligible(t, "dial") /\ IsAnimationEligible(t, "needle") =>
        /\ NeedlePoints(t) = GetAngleForValue(t.value) % FullTurn
        /\ t.easing = NotEasing /\ ~t.is_left => t.value = Clamp(t.dial.store.VALUE)

\* However values, activations and parents come and go, a needle that a frame draws
\* points where the dial's value is, and that is the last value stored, brought
\* into the range - unless the dial is on its way there, or left the value out.
FrameShowsTheValue == ShowsItsValue(tree') \/ ~Frame

\* What does not move is as it was drawn, neither faded nor turned nor left to
\* overflow, and what is taken down moves no more.
StillIsAtRest ==
    /\ \A part \in Parts :
        LET w == tree[part]
        IN  ~w.is_running =>
                w.opacity = "cover" /\ w.rotated = w.rotation /\ (w.is_prepared <=> w.rotation # 0)
    /\ tree.dial.detached => tree.easing = NotEasing /\ \A part \in Parts : ~tree[part].is_running

IsToMove(t, part) ==
    /\ t[part].animation # "none"
    /\ t[part].store.IS_ANIMATION_ACTIVE
    /\ IsAnimationEligible(t, part)
    /\ ~t[part].start_failed

\* With every frame, what moves is what is there to be seen and told to, unless LVGL
\* had no memory for it.
FrameMovesWhatIsSeen == (\A part \in Parts : tree'[part].is_running <=> IsToMove(tree', part)) \/ ~Frame

=============================================================================
