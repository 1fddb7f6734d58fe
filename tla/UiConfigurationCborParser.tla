------------------------ MODULE UiConfigurationCborParser ------------------------
(***************************************************************************)
(* Documents and configurations.  A document is a configuration as a file  *)
(* or a client's upload has it, once its bytes are decoded: with its       *)
(* version and the properties of the whole UI, each widget also with       *)
(* whether a type comes up twice among its properties, its widgets in any  *)
(* order, and with every binding a selector and whether it has one, since  *)
(* the schema cannot leave a value out.                                    *)
(***************************************************************************)
EXTENDS UiConfigurationValidator

CONSTANT CONFIGURATION_VERSION

\* The upper bound: after the widgets of its own z-index.
AddWidget(widgets, widget) == Composition!AddByZ(widgets, widget)

\* A list, of whatever it lists.
IsList(list) == list \in Seq(ToSet(list))

\* The kinds of a value in a document; both sides have the same, under their own names.
CborKinds ==
    [int |-> "int32", real |-> "double", no_number |-> "double_no_number", text |-> "tstr", bool |-> "bool",
     list |-> "int_list", texts |-> "tstr_list", map |-> "map"]

ToCborPropertyValue(value) == Value(CborKinds[value.kind], value.number)

FromCborPropertyValue(value) == Value(CHOOSE kind \in DOMAIN CborKinds : CborKinds[kind] = value.kind, value.number)

ToCborProperties(properties) == [type \in DOMAIN properties |-> ToCborPropertyValue(properties[type])]

FromCborProperties(properties) == [type \in DOMAIN properties |-> FromCborPropertyValue(properties[type])]

FromCborBinding(binding) ==
    [field \in DOMAIN binding \ {"has_selector"} |->
        CASE field = "selector" /\ binding.has_selector -> FromCborPropertyValue(binding.selector)
          [] field = "selector" /\ ~binding.has_selector -> NoSelector
          [] OTHER -> binding[field]]

ToCborBinding(binding) ==
    [field \in DOMAIN binding \union {"has_selector"} |->
        CASE field = "has_selector" -> HasSelector(binding)
          [] field = "selector" -> ToCborPropertyValue(IF HasSelector(binding) THEN binding.selector ELSE IntOf(0))
          [] OTHER -> binding[field]]

ToWidgetConfiguration(widget) ==
    [field \in DOMAIN widget \ {"repeats"} |->
        CASE field = "bindings" -> [i \in DOMAIN widget.bindings |-> FromCborBinding(widget.bindings[i])]
          [] field = "properties" -> FromCborProperties(widget.properties)
          [] OTHER -> widget[field]]

ToWidgets(widgets) == FoldLeft(LAMBDA added, w : AddWidget(added, ToWidgetConfiguration(w)), <<>>, widgets)

ToScreenConfiguration(screen) == [screen EXCEPT !.widgets = ToWidgets(@)]

\* Unknown types, and types that come up twice, are refused before the rules are looked at.
IsReadableWidget(widget) ==
    /\ DOMAIN widget.properties \subseteq WidgetPropertyTypes
    /\ ~widget.repeats
    /\ \A binding \in Bindings(widget) : binding.target \in WidgetPropertyTypes

\* What the decoder gives: lists, whole numbers, and a value of one of the kinds wherever there is to be one.
IsCborValue(value) == value.kind \in {CborKinds[kind] : kind \in DOMAIN CborKinds}

IsCborBinding(binding) == {"target", "selector"} \subseteq DOMAIN binding /\ IsCborValue(binding.selector)

IsCborWidget(widget) ==
    /\ {"z", "kids", "bindings", "properties"} \subseteq DOMAIN widget
    /\ widget.z \in Int
    /\ IsList(widget.kids)
    /\ IsList(widget.bindings) /\ \A binding \in Bindings(widget) : IsCborBinding(binding)
    /\ \A type \in DOMAIN widget.properties : IsCborValue(widget.properties[type])

IsCborScreen(screen) ==
    /\ {"group", "widgets"} \subseteq DOMAIN screen /\ screen = [field \in DOMAIN screen |-> screen[field]]
    /\ screen.group \in Nat
    /\ IsList(screen.widgets) /\ \A w \in Widgets(screen) : IsCborWidget(w)

IsDocument(document) ==
    IsList(document.screens) /\ \A screen \in ToSet(document.screens) : IsCborScreen(screen)

\* There is no property of the whole UI yet, so any in a document is unknown.
AreReadableUiProperties(properties) == properties = <<>>

IsReadable(document) ==
    /\ document.version = CONFIGURATION_VERSION
    /\ AreReadableUiProperties(document.properties)
    /\ \A s \in ToSet(document.screens) : \A w \in Widgets(s) : IsReadableWidget(w)

ToConfiguration(document) ==
    [active |-> document.active,
     screens |-> [i \in DOMAIN document.screens |-> ToScreenConfiguration(document.screens[i])]]

Deserializes(document) == IsReadable(document) /\ Validate(ToConfiguration(document))

Deserialize(document) == ToConfiguration(document)

FromWidget(widget) ==
    [field \in DOMAIN widget \union {"repeats"} |->
        CASE field = "repeats" -> FALSE
          [] field = "bindings" -> [i \in DOMAIN widget.bindings |-> ToCborBinding(widget.bindings[i])]
          [] field = "properties" -> ToCborProperties(widget.properties)
          [] OTHER -> widget[field]]

FromScreen(screen) == [screen EXCEPT !.widgets = [i \in DOMAIN @ |-> FromWidget(@[i])]]

\* Only a valid configuration is encoded.
Serializes(conf) == Validate(conf)

Serialize(conf) ==
    [version |-> CONFIGURATION_VERSION,
     active |-> conf.active,
     properties |-> <<>>,
     screens |-> [i \in DOMAIN conf.screens |-> FromScreen(conf.screens[i])]]

=============================================================================
