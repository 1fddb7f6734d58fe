------------------------------- MODULE WidgetEdits -------------------------------
(***************************************************************************)
(* A rendered widget whose record an editor changes.  Whether a change is  *)
(* applied in place is decided by a table in ui_patch.cpp; what the widget *)
(* then puts on its objects is up to the class of the widget.              *)
(*                                                                         *)
(* The widget's objects are what they show of each property.  A property   *)
(* that comes while the widget is inactive or cannot be seen is pending.   *)
(* What an event does to the size of an image icon is left out.            *)
(***************************************************************************)
EXTENDS UiConfigurationValidator

CONSTANTS
    Editors,        \* each with the type of its widget, the records it sends, the properties bound to events and their data
    NoEditor

VARIABLE edited

-----------------------------------------------------------------------------
(* The table. *)

\* A rectangle, two triangles, an oval and a line.
IsShapeIcon(icon) == icon \in 4 .. 8

IconTypeOf(properties) == IF "ICON_TYPE" \in DOMAIN properties THEN IconNumber(properties["ICON_TYPE"]) ELSE 0

IsCommonInPlaceProperty(type) ==
    type \in {"IS_VISIBLE", "OPACITY"} \union ColorTypes \union AnchorTypes \union AnimationTypes

IsEasedValueIndicator(widget_type) == widget_type \in {"arc_fill", "segment_arc", "digital", "dial", "bar"}

ShapeTypes ==
    {"POSITION_X", "POSITION_Y", "WIDTH_PX", "HEIGHT_PX", "STROKE_PX", "CORNER_RAD_PX", "FILL_MODE", "DIRECTION"}

\* A mistake it could have, which nothing uses: every indicator with a value takes it in place.
FaultyAppliesInPlace(widget_type, properties, type) ==
    \/ IsCommonInPlaceProperty(type)
    \/ type = "VALUE" /\ (IsEasedValueIndicator(widget_type) \/ widget_type = "chart")
    \/ widget_type = "icon" /\ IsShapeIcon(IconTypeOf(properties)) /\ type \in ShapeTypes

AppliesInPlace(widget_type, properties, type) ==
    \/ IsCommonInPlaceProperty(type)
    \/ type = "VALUE" /\ IsEasedValueIndicator(widget_type)
    \/ widget_type = "icon" /\ IsShapeIcon(IconTypeOf(properties)) /\ type \in ShapeTypes

IsChanged(from, to, type) ==
    \/ (type \in DOMAIN from) # (type \in DOMAIN to)
    \/ type \in DOMAIN from \intersect DOMAIN to /\ from[type] # to[type]

\* ClassifyWidgetChange, where type, id and bindings stay.
IsInPlace(widget_type, from, to) ==
    \A type \in DOMAIN from \union DOMAIN to : IsChanged(from, to, type) => AppliesInPlace(widget_type, to, type)

-----------------------------------------------------------------------------
(* OnPropertyChanged: the properties that a class puts on its objects as   *)
(* they change.  Others it keeps until it is rendered, or ignores.         *)

WidgetShows(type) == IsCommonInPlaceProperty(type) \/ type = "IS_ACTIVE"

IndicatorShows(type) == type = "VALUE" \/ (type \notin {"MIN_VALUE", "MAX_VALUE"} /\ WidgetShows(type))

ArcFillShows(type) == type \notin {"START_ANGLE", "END_ANGLE"} /\ IndicatorShows(type)

SegmentArcShows(type) == type \notin {"START_ANGLE", "END_ANGLE"} /\ IndicatorShows(type)

DialShows(type) == type \notin {"START_ANGLE", "END_ANGLE"} /\ IndicatorShows(type)

DigitalShows(type) == type # "VALUE_PRECISION" /\ IndicatorShows(type)

BarShows(type) == type # "DIRECTION" /\ IndicatorShows(type)

\* A value is added to those that the chart has, which is not what a new chart would show.
ChartShows(type) == type \notin {"CHART_POINT_COUNT", "CHART_TYPE", "VALUE"} /\ IndicatorShows(type)

SettingShows(type) == type # "SETTING_ID" /\ WidgetShows(type)

SettingIndicatorShows(type) == type \in {"LABEL", "UNIT", "VALUE_PRECISION", "VALUE"} \/ SettingShows(type)

SliderShows(type) == type \in {"MIN_VALUE", "MAX_VALUE", "STEP", "VALUE"} \/ SettingShows(type)

ToggleShows(type) == type = "VALUE" \/ SettingShows(type)

\* The label is drawn once; where the button leads is asked as it is pressed.
ButtonShows(type) ==
    type \in {"VALUE", "TARGET_SCREEN_GROUP", "NAVIGATION_INTENT"} \/ (type # "LABEL" /\ SettingShows(type))

\* What a shape reads as it is configured.
ShapeShows(type) == type \in {"WIDTH_PX", "HEIGHT_PX", "STROKE_PX"}

ClosedShapeShows(type) == type = "FILL_MODE" \/ ShapeShows(type)

PolygonShows(type) == type = "CORNER_RAD_PX" \/ ClosedShapeShows(type)

LineShows(type) == type = "DIRECTION" \/ ShapeShows(type)

IconShows(icon, type) ==
    CASE icon \in 4 .. 6 -> PolygonShows(type)
      [] icon = 7 -> ClosedShapeShows(type)
      [] icon = 8 -> LineShows(type)
      [] OTHER -> FALSE

IconWidgetShows(icon, type) == type \in {"POSITION_X", "POSITION_Y"} \/ IconShows(icon, type) \/ WidgetShows(type)

ArcIconShows(icon, type) == type \notin {"POSITION_ANGLE", "EDGE_OFFSET"} /\ IconWidgetShows(icon, type)

LottieShows(type) == type \notin {"FILE_PATH", "WIDTH_PX", "HEIGHT_PX"} /\ WidgetShows(type)

Shows(widget_type, icon, type) ==
    CASE widget_type = "icon" -> IconWidgetShows(icon, type)
      [] widget_type = "arc_icon" -> ArcIconShows(icon, type)
      [] widget_type = "lottie" -> LottieShows(type)
      [] widget_type = "arc_fill" -> ArcFillShows(type)
      [] widget_type = "segment_arc" -> SegmentArcShows(type)
      [] widget_type = "dial" -> DialShows(type)
      [] widget_type = "digital" -> DigitalShows(type)
      [] widget_type = "bar" -> BarShows(type)
      [] widget_type = "chart" -> ChartShows(type)
      [] widget_type = "setting" -> SettingIndicatorShows(type)
      [] widget_type = "slider" -> SliderShows(type)
      [] widget_type = "toggle" -> ToggleShows(type)
      [] widget_type = "button" -> ButtonShows(type)

-----------------------------------------------------------------------------
(* The widget. *)

Registered(widget) == RegisterProperties(widget.editor.type, IconTypeOf(widget.properties))

\* Somebody could see it.
IsProcessingEligible(store) ==
    store["IS_ACTIVE"] = FlagOf(1) /\ store["IS_VISIBLE"] = FlagOf(1) /\ store["OPACITY"] # IntOf(0)

\* Configured, rendered and activated: its objects show the record, and what came before they were there is replayed.
Built(editor, properties) ==
    LET store == Seeded(RegisterProperties(editor.type, IconTypeOf(properties)), properties)
    IN [editor |-> editor, properties |-> properties, store |-> store, shown |-> store,
        pending |-> IF IsProcessingEligible(store) THEN {} ELSE DOMAIN store \ ManagementTypes]

\* Management is applied at once, anything else while the widget can be seen; what waits follows when it can.
NotifyPropertyChanged(widget, type) ==
    LET eligible == IsProcessingEligible(widget.store)
        waiting == IF type \in ManagementTypes THEN widget.pending ELSE widget.pending \union {type}
        applied == IF eligible THEN waiting \union {type} ELSE {type} \intersect ManagementTypes
    IN [widget EXCEPT
            !.shown = [t \in DOMAIN @ |->
                IF t \in applied /\ Shows(widget.editor.type, IconTypeOf(widget.properties), t)
                THEN widget.store[t] ELSE @[t]],
            !.pending = waiting \ applied]

Stores(widget, type, value) == NotifyPropertyChanged([widget EXCEPT !.store[type] = value], type)

\* A value that the store refuses, or that the record no longer has, is the default again.
ApplyEditorProperty(widget, previous, type) ==
    IF type \in widget.editor.bound \/ ~IsChanged(previous, widget.properties, type) THEN widget
    ELSE Stores(widget, type,
                IF type \in DOMAIN widget.properties /\ Accepts(widget.store, type, widget.properties[type])
                THEN widget.properties[type] ELSE Registered(widget)[type])

ApplyEach(widget, previous, types) ==
    FoldSet(LAMBDA type, w : ApplyEditorProperty(w, previous, type), widget, types)

\* In the order of their registration, management first, and the value last.
ApplyEditorConfiguration(widget, properties) ==
    LET types == DOMAIN widget.store
        previous == widget.properties
        managed == ApplyEach([widget EXCEPT !.properties = properties], previous, types \intersect ManagementTypes)
        drawn == ApplyEach(managed, previous, types \ (ManagementTypes \union {"VALUE"}))
    IN ApplyEach(drawn, previous, types \intersect {"VALUE"})

Init == \E editor \in Editors : \E properties \in editor.records : edited = Built(editor, properties)

\* A client patches the record.
Edit(properties) ==
    /\ properties # edited.properties
    /\ edited' =
        IF IsInPlace(edited.editor.type, edited.properties, properties)
        THEN ApplyEditorConfiguration(edited, properties)
        ELSE Built(edited.editor, properties)

\* A widget that is not active takes no event but on what makes it so.
Event(type, data) ==
    /\ type \in ManagementTypes \/ edited.store["IS_ACTIVE"] = FlagOf(1)
    /\ \E value \in CoerceToConfigValue(data, Registered(edited)[type].kind, type) :
          /\ Accepts(edited.store, type, value)
          /\ edited' = Stores(edited, type, value)

Next ==
    \/ \E properties \in edited.editor.records : Edit(properties)
    \/ \E type \in edited.editor.bound : \E data \in edited.editor.data : Event(type, data)

-----------------------------------------------------------------------------

\* A widget that can be seen holds and shows of its record what one built
\* from the record would, but for what its events drive: no property is in
\* the table of ui_patch.cpp that its class does not apply as it changes, and
\* none that came while the widget was hidden is left out
\* (ui_patch.cpp: AppliesInPlace; widget_base.cpp: ApplyEditorConfiguration).
EditedIsAsBuilt ==
    IsProcessingEligible(edited.store) =>
        LET built == Built(edited.editor, edited.properties)
        IN  /\ edited.pending = {}
            /\ \A type \in DOMAIN edited.store \ edited.editor.bound :
                  edited.store[type] = built.store[type] /\ edited.shown[type] = built.shown[type]

=============================================================================
