------------------------------- MODULE Controls -------------------------------
(***************************************************************************)
(* A control under a finger: the reports of the touch driver, what LVGL    *)
(* makes of them, the gestures that navigate and the control that takes    *)
(* the press, while events, editors, groups and frames come and go.        *)
(*                                                                         *)
(* Every action but the driver's runs under the LVGL lock.                 *)
(***************************************************************************)
EXTENDS WidgetBase, InputCst92xx

CONSTANTS
    Kinds,          \* the controls that are tried
    Targets,        \* the groups a button may go to
    Directions,     \* the directions of a swipe
    Mapped,         \* those that navigate
    Grids,          \* the grids a box may be on
    Boxes,          \* the boxes a record may have, of those that the validator takes
    Published,      \* what is published for a side of a box, in halves of a cell
    NoGrid

ASSUME GridsAssumption == \A grid \in Grids : IsLayout(grid) /\ grid.spacing \in Nat
ASSUME PublishedAssumption == Published \subseteq Int

VARIABLES
    w,              \* the widget, see ControlBase
    record,         \* the configuration it was built from
    pointer,        \* the report LVGL read last
    contact,        \* a press as LVGL sees it, from its start to its end
    is_cooling      \* of the input service: its last swipe is not long ago

vars == <<driverVars, w, record, pointer, contact, is_cooling>>

Records(kind) ==
    [IS_ACTIVE : {FALSE, Absent},
     TARGET : IF kind = "button" THEN Targets \cup {Absent} ELSE {Absent},
     BOX : IF kind = "box" THEN Boxes ELSE {NoBox}]

Values(kind) == CASE kind = "slider" -> {0, MaxValue} [] kind = "box" -> {} [] OTHER -> {0, 1}

NoContact ==
    [at |-> "none", wait_release |-> FALSE, gesture_sent |-> FALSE, fingers |-> {},
     acts |-> 0, has_swiped |-> FALSE, has_sent |-> FALSE]

\* What of a box is bound: both of a side, or one of them.
Bindings(kind) == IF kind = "box" THEN {{"LAYOUT_X", "LAYOUT_WIDTH"}, {"LAYOUT_Y", "LAYOUT_HEIGHT"}, {"LAYOUT_Y"}} ELSE {{}}

Init ==
    /\ DriverInit
    /\ \E kind \in Kinds, sends \in BOOLEAN :
        \E r \in Records(kind), bound \in Bindings(kind), grid \in IF kind = "box" THEN Grids ELSE {NoGrid} :
            /\ kind # "button" => sends
            /\ kind = "box" => ValidateBox(grid, r.BOX)
            /\ w = Assemble(Constructed(kind, sends, bound, grid, TRUE), r)
            /\ record = r
    /\ pointer = Lifted
    /\ contact = NoContact
    /\ is_cooling = FALSE

-----------------------------------------------------------------------------
\* The widget and its screen.

Becomes(v) == w' = [v EXCEPT !.asked = NotAsked]
Stays == UNCHANGED <<driverVars, record, pointer, contact, is_cooling>>

Renders == ~IsRendered(w) /\ ~w.detached /\ (Becomes(Render(w)) \/ Becomes(RenderFails(w))) /\ Stays
Activates == ~w.detached /\ ~w.is_group_active /\ Becomes(OnActivated(w)) /\ Stays
Deactivates == ~w.detached /\ w.is_group_active /\ Becomes(OnDeactivated(w)) /\ Stays

\* An overlay or a hidden parent: nothing tells the widget.
ParentChanges == Becomes([w EXCEPT !.parent_shown = ~@]) /\ Stays

Event ==
    /\ \/ \E visible \in BOOLEAN : Becomes(OnEvent(w, "IS_VISIBLE", visible))
       \/ \E value \in Values(w.kind) : Becomes(OnEvent(w, "VALUE", value))
       \/ \E type \in w.bound, halves \in Published : Becomes(OnEvent(w, type, CoerceLayoutValue(halves)))
       \/ \E max \in {0, MaxValue} : w.kind = "slider" /\ Becomes(OnEvent(w, "MAX_VALUE", max))
    /\ Stays

Refresh == ~w.detached /\ Becomes(Synchronize(w)) /\ Stays

Edit ==
    /\ ~w.detached
    /\ \E after \in Records(w.kind) :
        /\ w.kind = "box" => ValidateBox(w.grid, after.BOX)
        /\ Becomes(ApplyEditorConfiguration(w, record, after))
        /\ record' = after
    /\ UNCHANGED <<driverVars, pointer, contact, is_cooling>>

\* A rebuild takes the widget down, and LVGL's press with its object ...
TakenDown ==
    /\ ~w.detached
    /\ Becomes(DetachDispatch(w))
    /\ contact' = IF contact.at = "control" THEN NoContact ELSE contact
    /\ UNCHANGED <<driverVars, record, pointer, is_cooling>>

\* ... and builds the one that takes its place.
BuiltAgain ==
    /\ w.detached
    /\ Becomes(Assemble(Constructed(w.kind, w.is_sending_press, w.bound, w.grid, w.parent_shown), record))
    /\ Stays

-----------------------------------------------------------------------------
\* What LVGL sends to the object, past the guard of the control.

\* A mistake it could have, which nothing uses: input is let in to a control that
\* has values to show first.
FaultyInputGuard(v) == IF IsAnimationEligible(v) THEN v ELSE OnProcessingSuspended(v)

\* An event reaches the control when it is eligible, brought up to date first; or
\* it is stopped, and undoes what the press did so far.
InputGuard(v) == IF IsAnimationEligible(v) THEN ReplayPendingProperties(v) ELSE OnProcessingSuspended(v)

\* The press shows on the object; a button sends it.
Pressed(v) ==
    LET guarded == InputGuard(v)
        down == [guarded EXCEPT !.pressed = TRUE]
    IN  IF ~IsAnimationEligible(v) THEN guarded
        ELSE IF v.kind = "button" THEN PublishPress(down, TRUE) ELSE down

\* A slider asks for a value with every move, once its owner has given a range.
Dragged(v, index) ==
    LET guarded == InputGuard(v)
        moved == SetValue(guarded, index)
    IN  IF ~IsAnimationEligible(v) \/ v.kind # "slider" THEN guarded
        ELSE IF moved.max <= 0 THEN moved ELSE SetPropertyLocal(moved, ToValue(moved, moved.native))

\* LVGL turns a switch before it tells of it.
Flipped(v) == SetPropertyLocal([v EXCEPT !.native = 1 - @], 1 - v.native)

\* A slider settles at the value that its owner took.
Released(v) ==
    LET guarded == InputGuard(v)
        up == [guarded EXCEPT !.pressed = FALSE]
    IN  IF ~IsAnimationEligible(v) THEN guarded
        ELSE CASE v.kind = "toggle" -> Flipped(up)
               [] v.kind = "slider" -> UpdateSlider(up)
               [] OTHER -> PublishPress(up, FALSE)

PressLost(v) ==
    LET guarded == InputGuard(v)
        up == [guarded EXCEPT !.pressed = FALSE]
    IN  IF ~IsAnimationEligible(v) THEN guarded
        ELSE IF v.kind = "button" THEN PublishPress(up, FALSE) ELSE up

\* A click on a button that goes somewhere.
Navigates(v) == v.kind = "button" /\ IsAnimationEligible(v) /\ v.target_id # NoTarget

\* A mistake it could have, which nothing uses: a button that sends its press leaves
\* its touch area to swipes.
FaultyCapturesGestures(v) == v.kind # "button"

\* A toggle and a slider own their touch area; a button that sends its press does.
CapturesGestures(v) == v.kind # "button" \/ v.is_sending_press

-----------------------------------------------------------------------------
\* LVGL reads the pointer.

IsOnScreen == IsRendered(w) /\ ~w.detached /\ ~w.hidden /\ w.parent_shown

Begins(report) ==
    /\ report.is_pressed
    /\ contact.at = "none"
    /\ \/ /\ IsOnScreen
          /\ w' = Pressed(w)
          /\ contact' = [NoContact EXCEPT !.at = "control", !.fingers = {report.id}, !.has_sent = w'.sent]
       \/ /\ contact' = [NoContact EXCEPT !.at = "screen", !.fingers = {report.id}]
          /\ UNCHANGED w

GoesOn(report) ==
    /\ report.is_pressed
    /\ contact.at # "none"
    /\ contact' = [contact EXCEPT !.fingers = @ \cup {report.id}]
    /\ \/ UNCHANGED w
       \/ /\ contact.at = "control"
          /\ ~contact.wait_release
          /\ \E index \in {0, MaxValue} : w' = Dragged(w, index)

\* A press that waits for its release is lost; any other is a click.
Ends(report) ==
    /\ ~report.is_pressed
    /\ contact.at # "none"
    /\ w' = IF contact.at # "control" THEN w
            ELSE IF contact.wait_release THEN PressLost(w)
            ELSE Released(w)
    /\ LET clicks == contact.at = "control" /\ ~contact.wait_release /\ Navigates(w)
       IN  contact' = IF clicks THEN [contact EXCEPT !.at = "clicked", !.acts = @ + 1] ELSE NoContact

\* The contact of a click is over.
Clicked == contact.at = "clicked" /\ contact' = NoContact /\ UNCHANGED <<driverVars, w, record, pointer, is_cooling>>

Reads ==
    /\ contact.at # "clicked"
    /\ \/ /\ reports # <<>>
          /\ pointer' = Head(reports)
          /\ reports' = Tail(reports)
       \/ reports = <<>> /\ UNCHANGED <<pointer, reports>>
    /\ \/ Begins(pointer') \/ GoesOn(pointer') \/ Ends(pointer')
       \/ ~pointer'.is_pressed /\ contact.at = "none" /\ UNCHANGED <<w, contact>>
    /\ UNCHANGED <<pressed, tracked_id, record, is_cooling>>

-----------------------------------------------------------------------------
\* The input service.

\* LVGL tells of one gesture in a contact, to the screen unless what is touched
\* captures it; from then on it is over for what is under it.
\* Whether a preview session pins the navigation is an input.
HandleGesture(direction, is_navigation_enabled) ==
    /\ contact.at \in {"control", "screen"}
    /\ ~contact.gesture_sent
    /\ ~contact.wait_release
    /\ LET isHeard == contact.at = "screen" \/ ~CapturesGestures(w)
           isMeant == isHeard /\ is_navigation_enabled /\ direction \in Mapped
           acts == isMeant /\ ~is_cooling
       IN  /\ contact' = [contact EXCEPT !.gesture_sent = TRUE,
                                         !.wait_release = isMeant,
                                         !.has_swiped = acts,
                                         !.acts = IF acts THEN @ + 1 ELSE @]
           /\ is_cooling' = (is_cooling \/ acts)
    /\ UNCHANGED <<driverVars, w, record, pointer>>

CooldownPasses == is_cooling /\ is_cooling' = FALSE /\ UNCHANGED <<driverVars, w, record, pointer, contact>>

-----------------------------------------------------------------------------
\* A widget that is no control takes no part in a contact.
Touches == w.kind # "box" /\ (\E touching \in SUBSET Fingers : Process(touching)) /\ UNCHANGED <<w, record, pointer, contact, is_cooling>>

Next ==
    \/ Renders \/ Activates \/ Deactivates \/ ParentChanges
    \/ Event \/ Refresh \/ Edit \/ TakenDown \/ BuiltAgain
    \/ Touches \/ Reads \/ Clicked
    \/ \E direction \in Directions, enabled \in BOOLEAN : HandleGesture(direction, enabled)
    \/ CooldownPasses

Spec == Init /\ [][Next]_vars

-----------------------------------------------------------------------------
Shows(v) ==
    /\ \A type \in Types(v.kind) \ (Driven(v) \cup LayoutTypes) : type # "TARGET" => v.store[type] = Recorded(record', type)
    /\ v.hidden = ~v.store.IS_VISIBLE
    /\ v.kind = "slider" =>
        /\ v.max = v.store.MAX_VALUE
        /\ v.native = Smaller(v.store.VALUE, Larger(v.max, 1))
    /\ v.kind \in {"toggle", "button"} => v.native = v.store.VALUE
    /\ v.kind = "button" /\ v.store.TARGET # NoTarget => v.target_id = v.store.TARGET

\* The cells of one side of a box: what is bound as it was published, what is not as
\* the record has it, held within the grid.
IsHeld(at, cells, of, published_at, published_cells) ==
    /\ cells = Within(published_cells, 1, of)
    /\ at = Within(published_at, 0, of - cells)

\* However its values came, the box that a frame draws is the one that was published,
\* or the record's where nothing is bound, held within the grid: on the screen, the
\* side that is not bound as a rebuild would place it, and never mirrored past an
\* edge.  Where the record overhangs the grid, so may the box; spacing moves it.
BoxIsHeld(v) ==
    LET grid == v.grid
    IN  grid.spacing = 0 /\ record'.BOX.x + record'.BOX.width <= grid.width
                        /\ record'.BOX.y + record'.BOX.height <= grid.height =>
        \E box \in [x : 0 .. grid.width, y : 0 .. grid.height, width : 1 .. grid.width, height : 1 .. grid.height] :
            /\ v.px = [BoxPx(grid, box) EXCEPT !.y = LcdPx - (LcdPx \div grid.height) * box.y - v.px.height]
            /\ IsHeld(box.x, box.width, grid.width, v.store.LAYOUT_X, v.store.LAYOUT_WIDTH)
            /\ IsHeld(box.y, box.height, grid.height, v.store.LAYOUT_Y, v.store.LAYOUT_HEIGHT)

HoldsTheBox(v) ==
    v.kind = "box" =>
        /\ BoxIsHeld(v)
        /\ \A type \in LayoutTypes \ v.bound :
              v.store[type] = RegisterLayoutProperties(v.store, record'.BOX)[type]

\* However its values arrived - while it was hidden, behind an overlay, in a group
\* that was not shown, not yet rendered, range after value or value after range, or
\* by an editor's record - a control that a frame draws and no finger holds shows
\* what its store holds, and its store what its record says of what is not bound.
FramesShowWhatIsConfigured ==
    [][Refresh /\ IsAnimationEligible(w') /\ contact.at # "control" => Shows(w') /\ HoldsTheBox(w')]_vars

\* What a person asks a setting for is within the range the owner gave, and a
\* toggle asks for the opposite of what is stored, never for what it is already.
AsksAreOfWhatIsStored ==
    w.asked # NotAsked =>
        /\ w.kind = "slider" => w.asked.value <= w.asked.max
        /\ w.kind = "toggle" => w.asked.value # w.asked.over

\* A press that a button sent is answered by its release: while nothing is sent
\* after it, the finger is on the button still and the button there to let it go.
PressIsReleased == w.sent => contact.at = "control" /\ ~w.detached

\* One contact is one thing: a swipe that navigates, or a click, and a press that
\* was sent is never also a swipe.
ContactActsOnce == contact.acts <= 1 /\ ~(contact.has_sent /\ contact.has_swiped)

\* A press, from its start to its end, is of one finger, however the panel
\* rearranges its contacts when several touch it.
PointerIsOneFinger == Cardinality(contact.fingers) <= 1
=============================================================================
