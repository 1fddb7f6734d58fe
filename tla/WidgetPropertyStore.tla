--------------------------- MODULE WidgetPropertyStore ---------------------------
(***************************************************************************)
(* The properties of a live widget: what it registered, seeded from its    *)
(* record and changed by events.                                           *)
(*                                                                         *)
(* The value of an event is converted to the kind that the property was    *)
(* registered with.  A conversion is the set of what may come out of it:   *)
(* empty where the event is dropped, more than one value where the cast of *)
(* a number that does not fit is undefined.                                *)
(***************************************************************************)
EXTENDS WidgetProperties, GridLayout

\* Event values are ints, unsigned ints, floats (in halves), flags and texts.
IsWhole(data) == data.kind \in {"int", "uint"}

\* A cast of a float to int: towards zero, and anything at all past the range.
CastToInt(data) ==
    LET whole == IF data.number < 0 THEN -((-data.number) \div 2) ELSE data.number \div 2
    IN IF data.kind = "real" /\ whole \in IntMin .. IntMax THEN {whole} ELSE {IntMin, 0, IntMax}

\* The two's complement of a number with as many bits.
Wrapped(number) == IF number > IntMax THEN number - 2 ^ WordBits ELSE number

CoerceAnchorValue(data) ==
    {IntOf(n) : n \in {m \in {data.number} : IsWhole(data) /\ IsValidAnchorValue(IntOf(m))}}

\* Halves go away from zero.
Rounded(halves) == IF halves < 0 THEN -((1 - halves) \div 2) ELSE (halves + 1) \div 2

LayoutLimit == 2 ^ (WordBits - 8)

CoerceLayoutValue(data) ==
    CASE IsWhole(data) -> {IntOf(Within(data.number, -LayoutLimit, LayoutLimit))}
      [] data.kind = "real" -> {IntOf(Rounded(Within(data.number, -2 * LayoutLimit, 2 * LayoutLimit)))}
      [] OTHER -> {}

CoerceFlagValue(data) ==
    CASE data.kind = "bool" \/ (IsWhole(data) /\ data.number \in {0, 1}) -> {FlagOf(data.number)}
      [] data.kind = "real" /\ data.number \in {0, 2} -> {FlagOf(data.number \div 2)}
      [] OTHER -> {}

CoerceAnimationValue(data, type) ==
    {IntOf(n) : n \in {m \in {data.number} : IsWhole(data) /\ IsValidAnimationValue(type, IntOf(m))}}

CoerceOpacityValue(data) == {IntOf(n) : n \in {m \in {data.number} : IsWhole(data) /\ m \in 0 .. 255}}

\* A number is a packed colour.
CoerceColorValue(data) ==
    CASE data.kind = "text" -> {TextOf(data.number)}
      [] IsWhole(data) \/ data.kind \in {"real", "no_number"} -> {TextOf(ColorText)}
      [] OTHER -> {}

CoerceToAlternative(data, kind) ==
    IF kind = data.kind THEN {data}
    ELSE CASE kind = "int" /\ IsWhole(data) -> {IntOf(Wrapped(data.number))}
           [] kind = "int" /\ data.kind = "bool" -> {IntOf(data.number)}
           [] kind = "int" /\ data.kind \in {"real", "no_number"} -> {IntOf(n) : n \in CastToInt(data)}
           [] kind = "real" /\ (IsWhole(data) \/ data.kind = "bool") -> {RealOf(2 * data.number)}
           [] kind = "real" /\ data.kind = "no_number" -> {NoNumber}
           [] kind = "bool" /\ (IsWhole(data) \/ data.kind = "real") -> {FlagOf(IF data.number = 0 THEN 0 ELSE 1)}
           [] kind = "bool" /\ data.kind = "no_number" -> {FlagOf(1)}
           [] OTHER -> {}

CoerceToConfigValue(data, kind, type) ==
    CASE type \in AnchorTypes -> CoerceAnchorValue(data)
      [] type \in LayoutTypes -> CoerceLayoutValue(data)
      [] type \in {"IS_ACTIVE", "IS_VISIBLE", "IS_ANIMATION_ACTIVE"} -> CoerceFlagValue(data)
      [] type \in {"ANIMATION_TYPE", "ANIMATION_DURATION_MS"} -> CoerceAnimationValue(data, type)
      [] type = "OPACITY" -> CoerceOpacityValue(data)
      [] type \in ColorTypes -> CoerceColorValue(data)
      [] OTHER -> CoerceToAlternative(data, kind)

-----------------------------------------------------------------------------

\* An unregistered property, a structural one, and a value against the rules are refused.
Accepts(store, type, value) ==
    /\ type \in DOMAIN store
    /\ ~IsStructuralProperty(type)
    /\ KeepsRules(type, value)

Set(store, type, value) == IF Accepts(store, type, value) THEN [store EXCEPT ![type] = value] ELSE store

\* A store that holds what was registered, and what the record gives of it.
Seeded(registered, record) ==
    [type \in DOMAIN registered |->
        IF type \in DOMAIN record \ LayoutTypes
        THEN Set(registered, type, record[type])[type] ELSE registered[type]]

\* What an event makes of a store, one of several.
StoredEvent(store, registered, type, data) ==
    {Set(store, type, value) : value \in CoerceToConfigValue(data, registered[type].kind, type)}

=============================================================================
