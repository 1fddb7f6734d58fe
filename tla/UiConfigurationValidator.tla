------------------------- MODULE UiConfigurationValidator -------------------------
(***************************************************************************)
(* Which configurations the unit takes: the rules of the domain            *)
(* (UiConfigurationValidator), each widget class's own on its children,    *)
(* and, for what a client sends, that the bindings name events and sensors *)
(* the unit has.                                                           *)
(*                                                                         *)
(* A configuration has the active group and its screens; a screen an id, a *)
(* group, a type, whether it is an overlay, a grid and its widgets in      *)
(* drawing order; a widget an id, a type, a box, a z-index, the ids under  *)
(* CHILD_WIDGET_IDS (none where it is absent), its other properties and    *)
(* its bindings.  The z-index and the visibility of screens are left out.  *)
(***************************************************************************)
EXTENDS WidgetPropertyStore, Sequences, SequencesExt

CONSTANTS
    MAX_NODES, MAX_DEPTH, MAX_SCREEN_COUNT,
    Channels,       \* the channels of the unit, each with the types of its events
    UNKNOWN         \* a value none of the source's enumerations has

Composition == INSTANCE UiPatch

MAX_EDGES == MAX_NODES - 1

Widgets(screen) == ToSet(screen.widgets)

Bindings(widget) == ToSet(widget.bindings)

AllBindings(conf) ==
    UNION {Bindings(w) : w \in UNION {Widgets(s) : s \in ToSet(conf.screens)}}

IsRoot(screen, widget) == Composition!Owners(screen.widgets, widget.id) = {}

-----------------------------------------------------------------------------
(* The composition of a screen. *)

ValidateCompositionBounds(screen) ==
    /\ Len(screen.widgets) <= MAX_NODES
    /\ FoldLeft(LAMBDA edges, w : edges + Len(w.kids), 0, screen.widgets) <= MAX_EDGES

\* Ids are told apart, and ownership is a forest of few levels.
ValidateComposition(screen) ==
    /\ Cardinality(Composition!Ids(screen.widgets)) = Len(screen.widgets)
    /\ Composition!IsLinked(screen.widgets)
    /\ Composition!IsShallow(screen.widgets)

-----------------------------------------------------------------------------
(* The widgets of a screen. *)

ValidateWidgetType(screen) == \A w \in Widgets(screen) : w.type \in WidgetTypes

ValidateWidgetProperties(widget) ==
    \A type \in DOMAIN widget.properties : IsValidWidgetProperty(type, widget.properties[type])

NoSelector == Value("none", 0)

HasSelector(binding) == binding.selector # NoSelector

IsSelectorValue(value) == value.kind \in {"text", "int", "bool"}

SelectsSensor(binding) == binding.selector_key = "SensorId" /\ binding.selector.kind \in {"text", "int"}

IsValidBindingDirection(direction) == direction \in {"In", "Out", "InOut"}

IsInbound(binding) == binding.direction # "Out"

IsOutbound(binding) == binding.direction # "In"

ValidateWidgetBinding(binding) ==
    /\ binding.channel # UNKNOWN
    /\ IsValidBindingDirection(binding.direction)
    /\ binding.target \in WidgetPropertyTypes
    /\ ~IsStructuralProperty(binding.target)
    /\ HasSelector(binding) => IsSelectorValue(binding.selector)
    /\ binding.channel = "Sensors" =>
          /\ SelectsSensor(binding)
          /\ IsOutbound(binding) => binding.outbound = "InputRequested"

\* A box is a root's, and never sends.
ValidateLayoutBinding(screen, widget, binding) ==
    binding.target \in LayoutTypes => IsRoot(screen, widget) /\ ~IsOutbound(binding)

-----------------------------------------------------------------------------
(* The rules of the widget classes on their own children and properties. *)

\* A real is cut to the whole number below it; one past an int is no icon.
IconNumber(value) ==
    CASE value.kind = "int" -> value.number
      [] value.kind = "real" /\ value.number \in 0 .. 2 * IntMax -> value.number \div 2
      [] OTHER -> 0

HasIcon(widget) ==
    "ICON_TYPE" \in DOMAIN widget.properties /\ IconNumber(widget.properties["ICON_TYPE"]) \in IconTypes

HasFile(widget) ==
    "FILE_PATH" \in DOMAIN widget.properties /\ widget.properties["FILE_PATH"] # TextOf(EmptyText)

HasRotationBinding(widget) ==
    \E binding \in Bindings(widget) : binding.target = "ANIMATION_TYPE" /\ IsInbound(binding)

\* A mistake it could have, which nothing uses: what an event may set later is not looked at.
FaultyCanSetRotation(widget) ==
    "ANIMATION_TYPE" \in DOMAIN widget.properties => widget.properties["ANIMATION_TYPE"].number # 2

\* Nothing but its owner turns the widget, now or later.
CanSetRotation(widget) ==
    /\ "ANIMATION_TYPE" \in DOMAIN widget.properties =>
          widget.properties["ANIMATION_TYPE"].kind = "int" /\ widget.properties["ANIMATION_TYPE"].number # 2
    /\ ~HasRotationBinding(widget)

ValidateNeedle(screen, dial) ==
    /\ Len(dial.kids) = 1
    /\ LET needle == Composition!Find(screen.widgets, dial.kids[1])
       IN  needle.box = [x |-> 0, y |-> 0, width |-> 1, height |-> 1] /\ CanSetRotation(needle)

ValidateChildren(screen, widget) ==
    /\ widget.type = "dial" => ValidateNeedle(screen, widget)
    /\ widget.type # "dial" => widget.kids = <<>>
    /\ widget.type \in {"icon", "arc_icon"} => HasIcon(widget)
    /\ widget.type = "lottie" => HasFile(widget)

-----------------------------------------------------------------------------
(* Screens and configurations. *)

ValidateScreen(screen) ==
    /\ ValidateCompositionBounds(screen)
    /\ screen.grid.width > 0 /\ screen.grid.height > 0
    /\ ValidateWidgetType(screen)
    /\ \A w \in Widgets(screen) :
          /\ ValidateWidgetProperties(w)
          /\ \A binding \in Bindings(w) : ValidateWidgetBinding(binding)
    /\ ValidateComposition(screen)
    /\ \A w \in Widgets(screen) :
          /\ IsRoot(screen, w) => ValidateBox(screen.grid, w.box)
          /\ \A binding \in Bindings(w) : ValidateLayoutBinding(screen, w, binding)
          /\ ValidateChildren(screen, w)

ScreenTypes == {"System", "Gauge", "Settings", "Popup"}

\* No screens at all is the configuration of the first boot.
ValidateActiveScreenGroupId(conf) ==
    conf.screens = <<>> \/ \E screen \in ToSet(conf.screens) : screen.group = conf.active

ValidateScreenCount(conf) == Len(conf.screens) <= MAX_SCREEN_COUNT

ValidateScreenId(conf) == Cardinality(Composition!Ids(conf.screens)) = Len(conf.screens)

ValidateScreenType(conf) == \A screen \in ToSet(conf.screens) : screen.type \in ScreenTypes

ValidateScreenGrid(conf) == \A screen \in ToSet(conf.screens) : screen.grid.width > 0 /\ screen.grid.height > 0

ValidateScreens(conf) == \A screen \in ToSet(conf.screens) : ValidateScreen(screen)

Validate(conf) ==
    /\ ValidateScreenCount(conf)
    /\ ValidateScreenId(conf)
    /\ ValidateScreenType(conf)
    /\ ValidateScreenGrid(conf)
    /\ ValidateActiveScreenGroupId(conf)
    /\ ValidateScreens(conf)

-----------------------------------------------------------------------------
(* What a client sends is also checked against the unit. *)

\* The channel's own answer to a binding's event.
CheckBinding(channel, event_type) == channel \in DOMAIN Channels /\ event_type \in Channels[channel]

ValidateBindings(conf) ==
    \A binding \in AllBindings(conf) :
        /\ IsInbound(binding) => CheckBinding(binding.channel, binding.event_type)
        /\ IsOutbound(binding) => CheckBinding(binding.channel, binding.outbound)

\* The source of the sensor that a selector names, by its id or the hash of it; none if there is no such sensor.
FindSelectedSensor(sensors, binding) ==
    {sensors[id] : id \in {i \in DOMAIN sensors : SelectsSensor(binding) /\ i = binding.selector.number}}

\* Only a control sensor takes what a control sends.
ValidateSensorInputs(conf, sensors) ==
    \A binding \in AllBindings(conf) :
        binding.channel = "Sensors" /\ IsOutbound(binding) /\ binding.outbound = "InputRequested"
            => FindSelectedSensor(sensors, binding) = {"CONTROL"}

=============================================================================
