--------------------------- MODULE MCConfigurations ---------------------------
(***************************************************************************)
(* Instances of UiConfigurations for TLC: the clients of MCScreens, and    *)
(* five units that are sent, one document at a time, what a validator      *)
(* takes and what it refuses.                                              *)
(***************************************************************************)
EXTENDS MCScreens

Parser == INSTANCE UiConfigurationCborParser

UnitChannels == "Settings" :> {"Changed"} @@ "Sensors" :> {"DataUpdated", "InputRequested"}

-----------------------------------------------------------------------------
(* Documents. *)

WholeCell == [x |-> 0, y |-> 0, width |-> 1, height |-> 1]

Cbor(value) == Parser!ToCborPropertyValue(value)

Record(id, type, properties) ==
    [id |-> id, type |-> type, box |-> WholeCell, z |-> 0, kids |-> <<>>, repeats |-> FALSE, bindings |-> <<>>,
     properties |-> Parser!ToCborProperties(properties)]

Plain(id) == Record(id, "bar", <<>>)

Icon(id) == Record(id, "icon", "ICON_TYPE" :> IntOf(8))

Dial(id, kid) == [Record(id, "dial", <<>>) EXCEPT !.kids = <<kid>>]

Bind(target, direction) ==
    [target |-> target, channel |-> "Settings", event_type |-> "Changed", selector_key |-> "None",
     selector |-> Cbor(IntOf(0)), direction |-> direction, outbound |-> "Changed", has_selector |-> FALSE]

SensorBind(target, direction) ==
    [Bind(target, direction) EXCEPT
        !.channel = "Sensors", !.event_type = "DataUpdated", !.outbound = "InputRequested", !.has_selector = TRUE,
        !.selector_key = "SensorId", !.selector = Cbor(IntOf(1))]

Bound(widget, bindings) == [widget EXCEPT !.bindings = bindings]

Page(id, widgets) ==
    [id |-> id, group |-> 1, type |-> "Gauge", overlay |-> FALSE,
     grid |-> [width |-> 2, height |-> 2, spacing |-> 0], widgets |-> widgets]

Document(screens) == [version |-> 1, active |-> 1, properties |-> <<>>, screens |-> screens]

OnePage(widgets) == Document(<<Page(1, widgets)>>)

OfOne(type, values) == {OnePage(<<Record(1, "button", type :> v)>>) : v \in values}

-----------------------------------------------------------------------------
(* Screens, grids and the files of other versions. *)

SparePage == OnePage(<<Plain(1)>>)

TwoPages ==
    Document(<<Page(1, <<Plain(1)>>), [Page(2, <<Icon(1)>>) EXCEPT !.group = 2, !.type = "Settings"],
               [Page(3, <<Plain(1)>>) EXCEPT !.overlay = TRUE, !.type = "Popup"]>>)

WithGrid(width, height, spacing) ==
    Document(<<[Page(1, <<Plain(1)>>) EXCEPT !.grid = [width |-> width, height |-> height, spacing |-> spacing]],
               [Page(2, <<>>) EXCEPT !.group = 2, !.type = "System"]>>)

WithBox(box) == OnePage(<<[Plain(1) EXCEPT !.box = box]>>)

RefusedScreens ==
    {[SparePage EXCEPT !.version = 2], [SparePage EXCEPT !.properties = <<1>>], [SparePage EXCEPT !.active = 2],
     Document(<<Page(1, <<>>), Page(1, <<>>)>>), Document([i \in 1 .. 4 |-> Page(i, <<>>)]),
     Document(<<[Page(1, <<>>) EXCEPT !.type = UNKNOWN]>>), OnePage(<<Record(1, UNKNOWN, <<>>)>>),
     WithGrid(0, 1, 0), WithGrid(1, 0, 0)}
    \union {WithBox([WholeCell EXCEPT !.width = n]) : n \in {0, 3}}
    \union {WithBox([WholeCell EXCEPT !.height = n]) : n \in {0, 3}}
    \union {WithBox([WholeCell EXCEPT !.x = n]) : n \in {-1, 2}}
    \union {WithBox([WholeCell EXCEPT !.y = n]) : n \in {-1, 2}}

ScreensUnit ==
    [files |-> {TwoPages, [SparePage EXCEPT !.version = 2], WithGrid(0, 1, 0)},
     documents |-> RefusedScreens \union
        {SparePage, TwoPages, Document(<<>>), WithGrid(1, 1, 0), WithGrid(17, 1, 0), WithGrid(4, 4, 2),
         WithBox([x |-> 1, y |-> 1, width |-> 2, height |-> 2])},
     data |-> {}]

-----------------------------------------------------------------------------
(* Widgets that own widgets. *)

Owning(kids) == [i \in DOMAIN kids |-> [Record(i, "dial", <<>>) EXCEPT !.kids = kids[i]]]

Needle == Record(2, "icon", "ICON_TYPE" :> IntOf(8) @@ "ANIMATION_TYPE" :> IntOf(1))

DialWith(needle) == OnePage(<<needle, Dial(1, 2)>>)

Turning(direction) == Bound(Needle, <<Bind("ANIMATION_TYPE", direction), Bind("IS_ACTIVE", "In")>>)

RefusedOwners ==
    {OnePage(Owning(kids)) :
        kids \in {<<<<1>>>>, <<<<2>>, <<1>>>>, <<<<2>>, <<3>>, <<>>>>, <<<<2, 2>>, <<>>>>, <<<<3>>, <<3>>, <<>>>>,
                  <<<<4>>>>, <<<<>>>>, <<<<2, 3>>, <<>>, <<>>>>}}
    \union {OnePage([i \in 1 .. 4 |-> Plain(i)]), OnePage(<<Plain(1), Plain(1)>>),
            OnePage(<<[Plain(1) EXCEPT !.kids = <<2>>], Icon(2)>>),
            OnePage(<<Record(1, "dial", "CHILD_WIDGET_IDS" :> IntOf(2)), Icon(2)>>)}
    \union {DialWith([Needle EXCEPT !.box = [WholeCell EXCEPT !.width = 2]]),
            DialWith(Record(2, "icon", "ICON_TYPE" :> IntOf(8) @@ "ANIMATION_TYPE" :> IntOf(2))),
            DialWith(Turning("In")), DialWith(Turning("InOut"))}
    \union {OnePage(<<Record(1, type, <<>>)>>) : type \in {"icon", "arc_icon", "lottie"}}
    \union {OnePage(<<Record(1, "lottie", "FILE_PATH" :> TextOf(EmptyText))>>)}
    \union {OnePage(<<Record(1, "icon", "ICON_TYPE" :> icon)>>) : icon \in {IntOf(0), IntOf(9), RealOf(-2), NoNumber}}

OwnersUnit ==
    [files |-> {},
     documents |-> RefusedOwners \union
        {DialWith(Turning("Out")), OnePage(<<[Plain(1) EXCEPT !.z = 1], Icon(2), Plain(3)>>),
         OnePage(<<Record(1, "arc_icon", "ICON_TYPE" :> RealOf(5)), Record(2, "lottie", "FILE_PATH" :> TextOf(2))>>)},
     data |-> {[kind |-> "uint", number |-> n] : n \in {0, 1, 2}}]

-----------------------------------------------------------------------------
(* The values of properties. *)

Ints(numbers) == {IntOf(n) : n \in numbers}

RefusedValues ==
    OfOne("OPACITY", Ints({-1, 256}) \union {RealOf(2)})
    \union OfOne("IS_ACTIVE", {IntOf(1)}) \union OfOne("LABEL", {IntOf(1)}) \union OfOne("VALUE", {TextOf(2), FlagOf(1)})
    \union OfOne("COLOR_PRIMARY_ACTIVE", {TextOf(2), IntOf(0)})
    \union OfOne("ANIMATION_TYPE", Ints({-1, 3}) \union {RealOf(2)}) \union OfOne("ANIMATION_DURATION_MS", Ints({0, 1}))
    \union OfOne("ANCHOR_POINT_X", Ints({-2, 512}) \union {RealOf(2)})
    \union OfOne("FILL_MODE", Ints({2}) \union {RealOf(1)}) \union OfOne("DIRECTION", Ints({0, 5}))
    \union OfOne("FONT_SIZE_PX", Ints({7, 257}) \union {NoNumber}) \union OfOne("LAYOUT_X", {IntOf(0)})
    \union OfOne(UNKNOWN, {IntOf(0)}) \union OfOne("LABEL", {Value("texts", 0), Value("map", 0)})
    \union {OnePage(<<[Plain(1) EXCEPT !.repeats = TRUE]>>)}

\* Every property a client may set, each at the end of its range.
TakenValues ==
    Each(AnchorTypes, IntOf(511)) @@ Each(FlagTypes, FlagOf(1)) @@ Each(ColorTypes, TextOf(ColorText))
    @@ Each(TextTypes, TextOf(2)) @@ "OPACITY" :> IntOf(255) @@ "ANIMATION_TYPE" :> IntOf(2)
    @@ "ANIMATION_DURATION_MS" :> IntOf(2) @@ "FILL_MODE" :> RealOf(2) @@ "DIRECTION" :> IntOf(4)
    @@ "FONT_SIZE_PX" :> IntOf(256) @@ "ICON_TYPE" :> IntOf(4)
    @@ Each(NumberTypes \ (LayoutTypes \union {"CHART_TYPE"}), NoNumber)

Every(type) == OnePage(<<Record(1, type, TakenValues)>>)

ValuesUnit ==
    [files |-> {},
     documents |-> RefusedValues \union {Every(type) : type \in WidgetTypes \ {"dial"}}
        \union {OnePage(<<Record(1, "icon", "ICON_TYPE" :> IntOf(n))>>) : n \in IconTypes}
        \union {OnePage(<<Record(1, "chart", "CHART_TYPE" :> IntOf(0))>>)},
     data |-> {}]

-----------------------------------------------------------------------------
(* Bindings, and the sensors they name. *)

OfBinding(binding) == OnePage(<<Bound(Plain(1), <<binding>>)>>)

RefusedBindings ==
    {OfBinding(binding) : binding \in
        {[Bind("VALUE", "In") EXCEPT !.channel = UNKNOWN], [Bind("VALUE", "In") EXCEPT !.event_type = UNKNOWN],
         [Bind("VALUE", "Out") EXCEPT !.outbound = UNKNOWN], Bind("VALUE", UNKNOWN), Bind(UNKNOWN, "In"),
         Bind("CHILD_WIDGET_IDS", "In"), Bind("LAYOUT_X", "InOut"),
         [Bind("VALUE", "In") EXCEPT !.has_selector = TRUE, !.selector = Cbor(RealOf(1))],
         [SensorBind("VALUE", "In") EXCEPT !.has_selector = FALSE],
         [SensorBind("VALUE", "In") EXCEPT !.selector_key = "None"],
         [SensorBind("VALUE", "In") EXCEPT !.selector = Cbor(FlagOf(1))],
         [SensorBind("VALUE", "Out") EXCEPT !.outbound = "DataUpdated"]}}
    \union {DialWith(Bound(Needle, <<Bind("LAYOUT_Y", "In")>>))}

BindingsUnit ==
    [files |-> {OfBinding(SensorBind("VALUE", "Out")), OfBinding([Bind("VALUE", "In") EXCEPT !.event_type = UNKNOWN])},
     documents |-> RefusedBindings \union
        {OfBinding(binding) : binding \in {SensorBind("VALUE", "Out"), SensorBind("VALUE", "In"), Bind("VALUE", "InOut")}},
     data |-> {}]

-----------------------------------------------------------------------------
(* Events on live widgets. *)

Data ==
    Ints({-1, 2, 256}) \union {FlagOf(0), FlagOf(1), TextOf(2), TextOf(ColorText), NoNumber}
    \union {RealOf(n) : n \in {-3, 1, 2, 9000}} \union {[kind |-> "uint", number |-> 4095]}

EventsOn(type, properties, targets) ==
    OnePage(<<Bound(Record(1, type, properties), [i \in DOMAIN targets |-> Bind(targets[i], "In")])>>)

EventsUnit ==
    [files |-> {},
     documents |->
        {EventsOn("bar", <<>>, <<"IS_ACTIVE", "OPACITY">>), EventsOn("bar", <<>>, <<"LAYOUT_X", "VALUE">>),
         EventsOn("digital", <<>>, <<"COLOR_PRIMARY_ACTIVE", "IS_SMOOTHED">>),
         EventsOn("bar", <<>>, <<"ANCHOR_POINT_X", "DIRECTION">>),
         EventsOn("bar", <<>>, <<"ANIMATION_TYPE", "ANIMATION_DURATION_MS">>),
         EventsOn("icon", "ICON_TYPE" :> IntOf(8), <<"IS_VISIBLE", "LABEL">>), EventsOn("toggle", <<>>, <<"VALUE", "LABEL">>)},
     data |-> Data]

FiveUnits == {ScreensUnit, OwnersUnit, ValuesUnit, BindingsUnit, EventsUnit}

-----------------------------------------------------------------------------
(* Editors.  Each changes one property of a widget, its value and whether  *)
(* it is visible; events may drive the property.                           *)

EditedTypes == {<<type, 0>> : type \in WidgetTypes \ {"icon", "arc_icon"}} \union ({"icon", "arc_icon"} \X IconTypes)

\* A value that is not the default.
Other(type, default) ==
    CASE type \in FlagTypes -> FlagOf(1 - default.number)
      [] type \in TextTypes \union ColorTypes -> TextOf(1)
      [] type = "OPACITY" -> IntOf(0)
      [] type = "FONT_SIZE_PX" -> IntOf(8)
      [] default.kind = "real" -> RealOf(default.number + 2)
      [] OTHER -> IntOf(IF default.number = 1 THEN 2 ELSE 1)

NeededProperties(type, icon) ==
    IF type = "lottie" THEN "FILE_PATH" :> TextOf(2) ELSE IF icon # 0 THEN "ICON_TYPE" :> IntOf(icon) ELSE <<>>

Editor(type, icon, changed, is_bound) ==
    LET registered == RegisterProperties(type, icon)
        edits == ({changed, "VALUE", "IS_VISIBLE"} \intersect DOMAIN registered) \ DOMAIN NeededProperties(type, icon)
        others == [t \in DOMAIN registered |-> Other(t, registered[t])]
    IN [type |-> type,
        records |-> {[t \in some |-> others[t]] @@ NeededProperties(type, icon) : some \in SUBSET edits}
            \union IF changed = "ICON_TYPE" THEN {"ICON_TYPE" :> IntOf(n) : n \in {7, 8}} ELSE {},
        bound |-> IF is_bound THEN {changed} ELSE {},
        data |-> {registered[changed], others[changed]}]

PairEditors ==
    UNION {{Editor(t[1], t[2], changed, is_bound) :
                changed \in DOMAIN RegisterProperties(t[1], t[2]), is_bound \in BOOLEAN} : t \in EditedTypes}

===============================================================================
