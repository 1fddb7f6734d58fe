---------------------------- MODULE WidgetProperties ----------------------------
(***************************************************************************)
(* The values of widget properties: which a configuration may hold, which  *)
(* the store of a live widget takes, what a widget registers, and what an  *)
(* event's value becomes on its way into the store.                        *)
(*                                                                         *)
(* A value is its kind and a number.  A real number is counted in halves;  *)
(* "no_number" is a real that is a NaN or an infinity.  A text is empty, a *)
(* colour, or any other; of lists and maps the number is all that is told. *)
(***************************************************************************)
EXTENDS Integers, FiniteSets

CONSTANT WordBits               \* bits of an int; 32 in the source

ASSUME WordBitsAssumption == WordBits \in Nat /\ WordBits >= 12

Value(kind, number) == [kind |-> kind, number |-> number]

IntOf(number) == Value("int", number)
RealOf(halves) == Value("real", halves)
FlagOf(number) == Value("bool", number)
TextOf(number) == Value("text", number)
NoNumber == Value("no_number", 0)

EmptyText == 0
ColorText == 1

IntMax == 2 ^ (WordBits - 1) - 1
IntMin == -IntMax - 1

-----------------------------------------------------------------------------
(* The types. *)

LayoutTypes == {"LAYOUT_X", "LAYOUT_Y", "LAYOUT_WIDTH", "LAYOUT_HEIGHT"}

AnchorTypes == {"ANCHOR_POINT_X", "ANCHOR_POINT_Y"}

AnimationTypes == {"ANIMATION_TYPE", "IS_ANIMATION_ACTIVE", "ANIMATION_DURATION_MS"}

ManagementTypes == {"IS_ACTIVE", "IS_VISIBLE", "OPACITY"}

ColorTypes ==
    {"COLOR_PRIMARY_ACTIVE", "COLOR_PRIMARY_INACTIVE", "COLOR_SECONDARY_ACTIVE",
     "COLOR_SECONDARY_INACTIVE", "COLOR_TERTIARY_ACTIVE", "COLOR_TERTIARY_INACTIVE"}

IsStructuralProperty(type) == type = "CHILD_WIDGET_IDS"

FlagTypes == {"IS_ACTIVE", "IS_SMOOTHED", "IS_VISIBLE", "IS_ANIMATION_ACTIVE"}

TextTypes == {"LABEL", "FILE_PATH", "FONT_FILE_PATH", "SETTING_ID", "UNIT"}

NumberTypes ==
    {"MIN_VALUE", "MAX_VALUE", "CHART_POINT_COUNT", "CHART_TYPE", "VALUE_PRECISION", "EDGE_OFFSET", "POSITION_X",
     "POSITION_Y", "POSITION_ANGLE", "ICON_TYPE", "START_ANGLE", "END_ANGLE", "IMG_WIDTH", "IMG_HEIGHT", "DIRECTION",
     "STEP", "TARGET_SCREEN_GROUP", "VALUE", "NAVIGATION_INTENT", "WIDTH_PX", "HEIGHT_PX", "STROKE_PX",
     "CORNER_RAD_PX", "FILL_MODE", "FONT_SIZE_PX", "OPACITY", "ANIMATION_TYPE", "ANIMATION_DURATION_MS"}
    \union AnchorTypes \union LayoutTypes

WidgetPropertyTypes == NumberTypes \union FlagTypes \union TextTypes \union ColorTypes \union {"CHILD_WIDGET_IDS"}

-----------------------------------------------------------------------------
(* What a configuration may hold. *)

IsNumber(value) == value.kind \in {"int", "real", "no_number"}

HoldsPropertyValueKind(type, value) ==
    CASE IsStructuralProperty(type) -> value.kind = "list"
      [] type \in ColorTypes \union TextTypes -> value.kind = "text"
      [] type \in FlagTypes -> value.kind = "bool"
      [] OTHER -> IsNumber(value)

\* A whole number in a range, as an int or as a real.
IsWholeWithin(value, low, high) ==
    \/ value.kind = "int" /\ value.number \in low .. high
    \/ value.kind = "real" /\ value.number \in {2 * n : n \in low .. high}

IsInt(value, range) == value.kind = "int" /\ value.number \in range

Parses(value) == value.kind = "text" /\ value.number \in {EmptyText, ColorText}

IsValidAppearanceValue(type, value) ==
    CASE type \in ColorTypes -> Parses(value)
      [] type = "OPACITY" -> IsInt(value, 0 .. 255)
      [] OTHER -> value.kind = "bool"

IsValidAnimationValue(type, value) ==
    CASE type = "IS_ANIMATION_ACTIVE" -> value.kind = "bool"
      [] type = "ANIMATION_TYPE" -> IsInt(value, 0 .. 2)
      [] type = "ANIMATION_DURATION_MS" -> IsInt(value, 2 .. IntMax)

IsValidAnchorValue(value) == IsInt(value, -1 .. 2 ^ (WordBits - 3) - 1)

\* The rules that the validator and the store have in common.
KeepsRules(type, value) ==
    /\ type \in ManagementTypes \union ColorTypes => IsValidAppearanceValue(type, value)
    /\ type \in AnimationTypes => IsValidAnimationValue(type, value)
    /\ type \in AnchorTypes => IsValidAnchorValue(value)

IsValidFillMode(value) == IsWholeWithin(value, 0, 1)

IsValidDirection(value) == IsWholeWithin(value, 1, 4)

IsValidFontSize(value) == IsWholeWithin(value, 8, 256)

IsValidWidgetProperty(type, value) ==
    /\ type \in WidgetPropertyTypes \ LayoutTypes
    /\ HoldsPropertyValueKind(type, value)
    /\ KeepsRules(type, value)
    /\ type = "FILL_MODE" => IsValidFillMode(value)
    /\ type = "DIRECTION" => IsValidDirection(value)
    /\ type = "FONT_SIZE_PX" => IsValidFontSize(value)

-----------------------------------------------------------------------------
(* What a widget registers, each type with its default. *)

Each(types, value) == [type \in types |-> value]

\* What is registered once more replaces what was registered before it: the left operand is the later.
late ++ early ==
    [type \in DOMAIN late \union DOMAIN early |-> IF type \in DOMAIN late THEN late[type] ELSE early[type]]

RegisterText(size) == Each({"FONT_FILE_PATH"}, TextOf(EmptyText)) ++ Each({"FONT_SIZE_PX"}, IntOf(size))

RegisterWidget ==
    Each({"IS_ACTIVE", "IS_VISIBLE"}, FlagOf(1)) ++ Each({"IS_SMOOTHED", "IS_ANIMATION_ACTIVE"}, FlagOf(0))
    ++ Each({"OPACITY"}, IntOf(255)) ++ Each(AnchorTypes, IntOf(-1))
    ++ Each({"ANIMATION_TYPE"}, IntOf(0)) ++ Each({"ANIMATION_DURATION_MS"}, IntOf(1000))

RegisterIndicator == RegisterWidget ++ Each({"MIN_VALUE", "VALUE"}, RealOf(0)) ++ Each({"MAX_VALUE"}, RealOf(200))

RegisterSetting ==
    RegisterWidget ++ Each({"SETTING_ID"}, TextOf(EmptyText))
    ++ Each({"VALUE", "MIN_VALUE", "MAX_VALUE", "STEP"}, RealOf(0))

RegisterColors(types) == Each(types, TextOf(EmptyText))

Primary == {"COLOR_PRIMARY_ACTIVE"}
Actives == {"COLOR_PRIMARY_ACTIVE", "COLOR_SECONDARY_ACTIVE"}
PrimaryPair == {"COLOR_PRIMARY_ACTIVE", "COLOR_PRIMARY_INACTIVE"}
TwoPairs == PrimaryPair \union {"COLOR_SECONDARY_ACTIVE", "COLOR_SECONDARY_INACTIVE"}

RegisterAngles == Each({"START_ANGLE"}, IntOf(45)) ++ Each({"END_ANGLE"}, IntOf(315))

RegisterArcFill ==
    RegisterColors(Actives) ++ RegisterAngles ++ RegisterIndicator

RegisterSegmentArc ==
    RegisterColors(PrimaryPair) ++ RegisterAngles ++ RegisterIndicator

RegisterDial == RegisterAngles ++ RegisterIndicator

RegisterDigital ==
    RegisterColors(Primary) ++ Each({"VALUE_PRECISION"}, IntOf(0)) ++ RegisterText(120) ++ RegisterIndicator

RegisterChart ==
    RegisterColors(Primary) ++ Each({"CHART_POINT_COUNT"}, IntOf(30)) ++ Each({"CHART_TYPE"}, IntOf(1))
    ++ RegisterIndicator

RegisterBar == RegisterColors(Actives) ++ Each({"DIRECTION"}, IntOf(1)) ++ RegisterIndicator

RegisterSettingIndicator ==
    RegisterColors(Primary) ++ Each({"LABEL", "UNIT"}, TextOf(EmptyText)) ++ Each({"VALUE_PRECISION"}, IntOf(0))
    ++ RegisterText(20) ++ RegisterSetting

RegisterSlider == RegisterColors(ColorTypes) ++ RegisterSetting

\* The derived class registers last and replaces what its bases registered.
RegisterToggle == RegisterColors(TwoPairs) ++ Each({"VALUE"}, FlagOf(0)) ++ RegisterSetting

RegisterButton ==
    RegisterColors(TwoPairs) ++ Each({"LABEL"}, TextOf(EmptyText)) ++ RegisterText(20)
    ++ Each({"TARGET_SCREEN_GROUP"}, IntOf(-1)) ++ Each({"NAVIGATION_INTENT"}, IntOf(0)) ++ RegisterSetting

RegisterShape ==
    RegisterColors(Primary) ++ Each({"WIDTH_PX", "HEIGHT_PX"}, IntOf(32)) ++ Each({"STROKE_PX"}, IntOf(2))

RegisterClosedShape == RegisterShape ++ Each({"FILL_MODE"}, IntOf(0))

RegisterPolygon == RegisterClosedShape ++ Each({"CORNER_RAD_PX"}, IntOf(0))

RegisterLine == RegisterShape ++ Each({"DIRECTION"}, IntOf(1))

RegisterLabel == RegisterColors(Primary) ++ Each({"LABEL"}, TextOf(EmptyText)) ++ RegisterText(20)

RegisterImage == Each({"FILE_PATH"}, TextOf(EmptyText)) ++ Each({"IMG_WIDTH", "IMG_HEIGHT"}, IntOf(0))

RegisterSvg == Each({"FILE_PATH"}, TextOf(EmptyText)) ++ Each({"WIDTH_PX", "HEIGHT_PX"}, IntOf(0))

\* The icons by their numbers: a label, an image, an SVG, a rectangle, two triangles, an oval and a line.
IconTypes == 1 .. 8

RegisterIcon(icon) ==
    CASE icon = 1 -> RegisterLabel
      [] icon = 2 -> RegisterImage
      [] icon = 3 -> RegisterSvg
      [] icon \in 4 .. 6 -> RegisterPolygon
      [] icon = 7 -> RegisterClosedShape
      [] icon = 8 -> RegisterLine
      [] OTHER -> <<>>

RegisterIconWidget(icon) ==
    RegisterWidget ++ Each({"ICON_TYPE", "POSITION_X", "POSITION_Y"}, IntOf(0)) ++ RegisterIcon(icon)

RegisterArcIcon(icon) ==
    Each({"POSITION_ANGLE"}, RealOf(-180)) ++ Each({"EDGE_OFFSET"}, IntOf(0)) ++ RegisterIconWidget(icon)

RegisterLottie == Each({"FILE_PATH"}, TextOf(EmptyText)) ++ Each({"WIDTH_PX", "HEIGHT_PX"}, IntOf(0)) ++ RegisterWidget

WidgetTypes ==
    {"icon", "arc_icon", "lottie", "arc_fill", "digital", "chart", "segment_arc", "dial", "bar", "setting", "slider",
     "toggle", "button"}

\* What a widget of a type, and an icon of its number, registers.
RegisterProperties(type, icon) ==
    CASE type = "icon" -> RegisterIconWidget(icon)
      [] type = "arc_icon" -> RegisterArcIcon(icon)
      [] type = "lottie" -> RegisterLottie
      [] type = "arc_fill" -> RegisterArcFill
      [] type = "segment_arc" -> RegisterSegmentArc
      [] type = "dial" -> RegisterDial
      [] type = "digital" -> RegisterDigital
      [] type = "chart" -> RegisterChart
      [] type = "bar" -> RegisterBar
      [] type = "setting" -> RegisterSettingIndicator
      [] type = "slider" -> RegisterSlider
      [] type = "toggle" -> RegisterToggle
      [] type = "button" -> RegisterButton

=============================================================================
