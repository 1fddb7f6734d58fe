------------------------------ MODULE WidgetBase ------------------------------
(***************************************************************************)
(* A widget from its construction to its end: properties that are stored   *)
(* when they arrive and applied when the widget is there to be seen, the   *)
(* state that says so, and the record that an editor puts in its place.    *)
(*                                                                         *)
(* One root widget without children; its parents' state is read anew each  *)
(* time and changes without the widget being told.  A widget of the kind   *)
(* "box" has nothing but its box, some of which is bound to events.        *)
(***************************************************************************)
EXTENDS ControlBase, GridLayout

CONSTANTS
    Absent,         \* a property that a record leaves out
    NoBox,          \* before it is placed
    LayoutLimit     \* bound: 1 << 24, past which no box goes

ASSUME NoBoxAssumption == NoBox \notin [x : Int, y : Int, width : Int, height : Int]
ASSUME LayoutLimitAssumption == LayoutLimit \in Nat

LayoutTypes == {"LAYOUT_X", "LAYOUT_Y", "LAYOUT_WIDTH", "LAYOUT_HEIGHT"}

Types(kind) ==
    {"IS_ACTIVE", "IS_VISIBLE", "VALUE"}
        \cup CASE kind = "slider" -> {"MAX_VALUE"}
               [] kind = "button" -> {"TARGET"}
               [] kind = "box" -> LayoutTypes
               [] OTHER -> {}

Management == {"IS_ACTIVE", "IS_VISIBLE"}

\* What one kind or another registers.
Registered == Management \cup {"MAX_VALUE", "TARGET", "VALUE"} \cup LayoutTypes

Default(type) ==
    CASE type \in Management -> TRUE
      [] type = "TARGET" -> NoTarget
      [] OTHER -> 0

IsProcessingEligible(w) ==
    /\ ~w.detached
    /\ w.is_group_active
    /\ w.store.IS_ACTIVE
    /\ w.store.IS_VISIBLE
    /\ w.parent_shown
    /\ ~w.hidden

IsAnimationEligible(w) == w.is_ready /\ IsProcessingEligible(w)

IsTrackingEligible(w) == ~w.detached /\ w.store.IS_ACTIVE

UpdateProcessingState(w) ==
    LET enabled == IsAnimationEligible(w)
        suspended == IF w.was_processing /\ ~enabled THEN OnProcessingSuspended(w) ELSE w
    IN  IF w.detached THEN w ELSE [suspended EXCEPT !.was_processing = enabled]

\* How far the box may go along one side of the grid: to its edge, or as far as a
\* record lets it overhang.
FarthestCell(of, cells, at, recorded) ==
    IF at + recorded > of THEN Larger(of - cells, at) ELSE of - cells

\* What is bound is held inside the grid, the size first.
HeldBox(w) ==
    LET width == Within(w.store.LAYOUT_WIDTH, 1, w.grid.width)
        height == Within(w.store.LAYOUT_HEIGHT, 1, w.grid.height)
    IN  [x |-> Within(w.store.LAYOUT_X, 0, FarthestCell(w.grid.width, width, w.box.x, w.box.width)),
         y |-> Within(w.store.LAYOUT_Y, 0, FarthestCell(w.grid.height, height, w.box.y, w.box.height)),
         width |-> width, height |-> height]

ApplyLayout(w) == IF w.px = NoBox THEN w ELSE [w EXCEPT !.px = BoxPx(w.grid, HeldBox(w))]

ApplyProperty(w, type) ==
    CASE type \in Management -> UpdateProcessingState(OnPropertyChanged(w, type))
      [] type \in LayoutTypes -> ApplyLayout(w)
      [] OTHER -> OnPropertyChanged(w, type)

ApplySelected(w, type, selected) == IF type \in selected THEN ApplyProperty(w, type) ELSE w

\* In the order of their registration, and VALUE last.
InOrder(Apply(_, _), w) ==
    LET active == Apply(w, "IS_ACTIVE")
        managed == Apply(active, "IS_VISIBLE")
        ranged == Apply(managed, "MAX_VALUE")
        owned == Apply(ranged, "TARGET")
        x == Apply(owned, "LAYOUT_X")
        y == Apply(x, "LAYOUT_Y")
        width == Apply(y, "LAYOUT_WIDTH")
        placed == Apply(width, "LAYOUT_HEIGHT")
    IN  Apply(placed, "VALUE")

ApplyProperties(w, selected) == InOrder(LAMBDA v, type : ApplySelected(v, type, selected), w)

\* What arrived while the widget was not there to be seen is applied at once.
ReplayPendingProperties(w) ==
    IF IsAnimationEligible(w) /\ w.pending # {}
    THEN ApplyProperties([w EXCEPT !.pending = {}], w.pending)
    ELSE w

\* A widget that cannot show its properties yet keeps them to be applied again.
ReplayProperties(w) ==
    LET all == Types(w.kind)
        applied == ApplyProperties([w EXCEPT !.pending = {}], all)
    IN  IF IsAnimationEligible(applied) THEN applied
        ELSE [applied EXCEPT !.pending = @ \cup (all \ Management)]

NotifyPropertyChanged(w, type) ==
    IF type \in Management THEN ReplayPendingProperties(ApplyProperty(w, type))
    ELSE IF w.pending = {} /\ IsAnimationEligible(w) THEN ApplyProperty(w, type)
    ELSE ReplayPendingProperties([w EXCEPT !.pending = @ \cup {type}])

Set(w, type, value) == [w EXCEPT !.store[type] = value]

\* An event of a binding.  An inactive widget takes no values; one that is only
\* out of sight keeps them.
OnEvent(w, type, value) ==
    IF w.detached \/ (type \notin Management /\ ~IsTrackingEligible(w)) THEN w
    ELSE NotifyPropertyChanged(Set(w, type, value), type)

\* What is published for a side of the box, in halves of a cell, as a whole number of
\* cells; halves go away from zero.
CoerceLayoutValue(halves) ==
    LET cells == IF halves < 0 THEN -((1 - halves) \div 2) ELSE (halves + 1) \div 2
    IN  Within(cells, -LayoutLimit, LayoutLimit)

\* A person's own change: it is shown already, and is published.
SetPropertyLocal(w, value) ==
    IF ~IsProcessingEligible(w) THEN w
    ELSE [w EXCEPT !.asked = [value |-> value, over |-> w.store.VALUE, max |-> w.store.MAX_VALUE],
                   !.store.VALUE = value]

Constructed(kind, sends, bound, grid, parent_shown) ==
    [kind |-> kind, store |-> [type \in Registered |-> Default(type)], pending |-> {},
     is_ready |-> FALSE, is_group_active |-> FALSE, was_processing |-> FALSE, detached |-> FALSE,
     hidden |-> FALSE, parent_shown |-> parent_shown, native |-> NoObject, shown |-> 0,
     bound |-> bound, grid |-> grid, box |-> NoBox, px |-> NoBox,
     step_count |-> 1, max |-> 0, pressed |-> FALSE, target_id |-> NoTarget,
     is_sending_press |-> sends, is_press_published |-> FALSE, sent |-> FALSE, asked |-> NotAsked]

\* A record gives values to some of the types.
Recorded(record, type) ==
    IF type \in DOMAIN record /\ record[type] # Absent THEN record[type] ELSE Default(type)

\* The layout properties start from the record's box.
RegisterLayoutProperties(store, box) ==
    [store EXCEPT !["LAYOUT_X"] = box.x, !["LAYOUT_Y"] = box.y,
                  !["LAYOUT_WIDTH"] = box.width, !["LAYOUT_HEIGHT"] = box.height]

Configure(w, record) ==
    LET store == [type \in DOMAIN w.store |-> Recorded(record, type)]
    IN  ReplayProperties([w EXCEPT !.box = record.BOX,
            !.store = IF w.kind = "box" THEN RegisterLayoutProperties(store, record.BOX) ELSE store])

\* Once it is configured it is placed where its record puts it.
Assemble(w, record) ==
    LET configured == Configure(w, record)
    IN  IF w.kind = "box" THEN [configured EXCEPT !.px = BoxPx(w.grid, record.BOX)] ELSE configured

\* The object is made and shows what is stored; then whatever waits is applied.
DoRender(w) == UpdateShown([w EXCEPT !.native = 0])

RenderObject(w) == [DoRender(w) EXCEPT !.is_ready = TRUE]

Render(w) ==
    LET begun == UpdateProcessingState([w EXCEPT !.is_ready = FALSE])
    IN  ReplayPendingProperties(UpdateProcessingState(RenderObject(begun)))

\* The object could not be made.
RenderFails(w) == UpdateProcessingState([w EXCEPT !.is_ready = FALSE])

\* With every frame that LVGL draws.
Synchronize(w) == ReplayPendingProperties(UpdateProcessingState(w))

OnActivated(w) ==
    LET active == UpdateProcessingState([w EXCEPT !.is_group_active = TRUE])
    IN  IF IsAnimationEligible(active) THEN ReplayProperties(active) ELSE active

OnDeactivated(w) == UpdateProcessingState([w EXCEPT !.is_group_active = FALSE])

\* A mistake it could have, which nothing uses: a widget is destroyed with its
\* press, whose release nobody is left to send.
FaultyDetachDispatch(w) ==
    [w EXCEPT !.detached = TRUE, !.is_ready = FALSE, !.is_group_active = FALSE, !.was_processing = FALSE]

DetachDispatch(w) ==
    LET detached == [w EXCEPT !.detached = TRUE, !.is_ready = FALSE, !.is_group_active = FALSE]
    IN  [OnProcessingSuspended(detached) EXCEPT !.was_processing = FALSE]

-----------------------------------------------------------------------------
\* A property that is bound holds what the last event said.
Driven(w) == {"VALUE", "IS_VISIBLE", "MAX_VALUE"} \cup w.bound

ApplyEditorProperty(w, before, after, type) ==
    IF type \in Driven(w) \/ before[type] = after[type] THEN w
    ELSE NotifyPropertyChanged(Set(w, type, Recorded(after, type)), type)

ApplyEditorBox(w, before, after) ==
    LET registered == RegisterLayoutProperties(w.store, after.BOX)
    IN  IF before.BOX = after.BOX THEN w
        ELSE ApplyLayout([w EXCEPT !.store =
                [type \in DOMAIN @ |-> IF type \in w.bound THEN @[type] ELSE registered[type]]])

\* The widget takes the record that replaces its own, in the same order, and then
\* the box.  A record says two properties here; the others are bound.
ApplyEditorConfiguration(w, before, after) ==
    LET active == ApplyEditorProperty([w EXCEPT !.box = after.BOX], before, after, "IS_ACTIVE")
    IN  ApplyEditorBox(ApplyEditorProperty(active, before, after, "TARGET"), before, after)

=============================================================================
