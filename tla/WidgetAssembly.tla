------------------------------ MODULE WidgetAssembly ------------------------------
(***************************************************************************)
(* Screens built from a configuration: the widgets of each with the        *)
(* properties they registered, seeded from their records, and the events   *)
(* their inbound bindings let in.                                          *)
(*                                                                         *)
(* A screen whose construction throws is left out, with a line in the log. *)
(* A widget whose first render fails stays on its screen, not ready.  What *)
(* drawing, fonts and asset files add to that is external.                 *)
(***************************************************************************)
EXTENDS UiConfigurationCborParser

CONSTANT NoGroup

\* What a widget registers; a root also its box.
Registered(screen, widget) ==
    LET icon == IF "ICON_TYPE" \in DOMAIN widget.properties THEN IconNumber(widget.properties["ICON_TYPE"]) ELSE 0
        box == Each({"LAYOUT_X"}, IntOf(widget.box.x)) ++ Each({"LAYOUT_Y"}, IntOf(widget.box.y))
                ++ Each({"LAYOUT_WIDTH"}, IntOf(widget.box.width)) ++ Each({"LAYOUT_HEIGHT"}, IntOf(widget.box.height))
    IN RegisterProperties(widget.type, icon) ++ IF IsRoot(screen, widget) THEN box ELSE <<>>

\* What a first render asks of the properties of an icon, an animation, a chart (bars or lines), and a dial.
RendersIcon(store) == IconNumber(store["ICON_TYPE"]) \in IconTypes

RendersLottie(store) == store["FILE_PATH"] # TextOf(EmptyText)

RendersChart(store) == IconNumber(store["CHART_TYPE"]) \in {1, 2}

RendersDial(widget) == widget.kids # <<>>

IsReadyToRender(widget, store) ==
    /\ widget.type \in {"icon", "arc_icon"} => RendersIcon(store)
    /\ widget.type = "lottie" => RendersLottie(store)
    /\ widget.type = "chart" => RendersChart(store)
    /\ widget.type = "dial" => RendersDial(widget)

NewWidget(screen, widget) ==
    LET store == Seeded(Registered(screen, widget), widget.properties)
    IN [store |-> store, is_ready |-> IsReadyToRender(widget, store)]

\* The screen is large enough for the grid, and the grid leaves a root some pixels.
HasRoom(screen) ==
    /\ IsLayout(screen.grid)
    /\ \A w \in Widgets(screen) :
          IsRoot(screen, w) =>
            LET size == SizePx(screen.grid, w.box.width, w.box.height) IN size.width # 0 /\ size.height # 0

\* What the factories, the widgets and their bindings throw on.
CreatesScreen(type) == type \in ScreenTypes

CreatesWidget(widget) == widget.type \in WidgetTypes

ResolvesBindings(widget) == \A binding \in Bindings(widget) : ~IsStructuralProperty(binding.target)

CanCreateScreen(screen) ==
    /\ CreatesScreen(screen.type)
    /\ HasRoom(screen)
    /\ \A w \in Widgets(screen) :
          /\ CreatesWidget(w)
          /\ IsRoot(screen, w) => w.box.width # 0 /\ w.box.height # 0
          /\ ToSet(w.kids) \subseteq Composition!Ids(screen.widgets)
          /\ ResolvesBindings(w)

BuiltScreens(conf) == {s \in ToSet(conf.screens) : ~s.overlay /\ CanCreateScreen(s)}

\* The active group of the configuration, or the first there is.
StartGroup(conf, groups) ==
    IF groups = {} THEN NoGroup
    ELSE IF conf.active \in groups THEN conf.active ELSE CHOOSE g \in groups : \A h \in groups : g <= h

\* Configure
Configured(conf) ==
    [conf |-> conf,
     screens |->
        [id \in {s.id : s \in BuiltScreens(conf)} |->
            LET screen == Composition!Find(conf.screens, id)
            IN [w \in Composition!Ids(screen.widgets) |-> NewWidget(screen, Composition!Find(screen.widgets, w))]],
     active |-> StartGroup(conf, {s.group : s \in BuiltScreens(conf)})]

-----------------------------------------------------------------------------
(* Events on the inbound bindings of live widgets. *)

\* A widget tracks its properties while it and its owners are active.
IsTracking(live, screen, widget) ==
    \A owner \in {o \in Widgets(screen) : widget.id \in Composition!OwnedIds(screen.widgets, o.id)} :
        live.screens[screen.id][owner.id].store["IS_ACTIVE"] = FlagOf(1)

\* The properties of a widget that an event may set.
BoundTargets(screen, widget) ==
    {binding.target : binding \in {b \in Bindings(widget) : IsInbound(b)}} \intersect DOMAIN Registered(screen, widget)

WithStore(live, screen, widget, store) == [live.screens EXCEPT ![screen.id][widget.id].store = store]

\* The screens after an event on a bound property, one of several; none where the event is dropped.
AfterEvent(live, screen, widget, target, data) ==
    {[conf |-> live.conf, active |-> live.active, screens |-> WithStore(live, screen, widget, store)] :
        store \in IF target \in ManagementTypes \/ IsTracking(live, screen, widget)
                  THEN StoredEvent(live.screens[screen.id][widget.id].store, Registered(screen, widget), target, data)
                  ELSE {}}

=============================================================================
