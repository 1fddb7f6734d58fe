------------------------------ MODULE UiPatch ------------------------------
(***************************************************************************)
(* A patch of the staged configuration: what its operations make of the    *)
(* configuration (ApplyPatchOps), whether the result may be shown (the     *)
(* validator), and what it takes to go from the screens of the one to the  *)
(* screens of the other (PlanPatch).                                       *)
(*                                                                         *)
(* A widget record is told apart by its type, its bindings and the         *)
(* properties that need a rebuild, together its "form"; the properties     *)
(* that apply in place and the box, together its "look"; its z-index and   *)
(* the widgets it owns, which only a dial does: one, its needle.  A        *)
(* screen's "frame" is its grid, its type and its visibility.              *)
(***************************************************************************)
EXTENDS Integers, Sequences, SequencesExt, FiniteSets

CONSTANTS
    MAX_NODES,      \* widgets of a screen
    MAX_DEPTH,      \* levels of ownership, the root's included
    MAX_SCREEN_COUNT

ASSUME LimitsAssumption == {MAX_NODES, MAX_DEPTH, MAX_SCREEN_COUNT} \subseteq Nat \ {0}

-----------------------------------------------------------------------------
(* A list of records that have an id, kept in the order of their z-index. *)

IndexOf(list, id) == SelectInSeq(list, LAMBDA record : record.id = id)

Has(list, id) == IndexOf(list, id) # 0

Find(list, id) == list[IndexOf(list, id)]

Ids(list) == {list[i].id : i \in DOMAIN list}

IdsInOrder(list) == [i \in DOMAIN list |-> list[i].id]

\* The records that have one of some ids, in the order of the list.
Only(list, ids) == FlattenSeq([i \in DOMAIN list |-> IF list[i].id \in ids THEN <<list[i]>> ELSE <<>>])

Without(list, ids) == Only(list, Ids(list) \ ids)

\* The upper bound: after the records of its own z-index.
AddByZ(list, record) ==
    LET above == {i \in DOMAIN list : list[i].z > record.z}
        place == IF above = {} THEN Len(list) + 1 ELSE CHOOSE i \in above : \A j \in above : i <= j
    IN InsertAt(list, place, record)

\* A stable sort.
InZOrder(list) == FoldLeft(AddByZ, <<>>, list)

-----------------------------------------------------------------------------
(* What is read of a configuration or of an operation: the widgets of a screen are in the order of their z-index. *)

InOrderOfZ(list) == \A i, j \in 1 .. Len(list) : i <= j => list[i].z <= list[j].z

IsList(list) == list \in Seq(ToSet(list))

IsWidget(w) ==
    /\ w = [id |-> w.id, type |-> w.type, z |-> w.z, kids |-> w.kids, form |-> w.form, look |-> w.look,
            bound |-> w.bound]
    /\ w.z \in Int
    /\ IsList(w.kids)

IsScreen(s) ==
    /\ s = [id |-> s.id, group |-> s.group, z |-> s.z, overlay |-> s.overlay, frame |-> s.frame,
            widgets |-> s.widgets]
    /\ s.z \in Int
    /\ s.overlay \in BOOLEAN
    /\ IsList(s.widgets) /\ InOrderOfZ(s.widgets)
    /\ \A w \in ToSet(s.widgets) : IsWidget(w)

IsConfiguration(conf) ==
    /\ conf = [active |-> conf.active, screens |-> conf.screens]
    /\ IsList(conf.screens)
    /\ \A s \in ToSet(conf.screens) : IsScreen(s)

IsOp(op) ==
    /\ op.kind \in {"put_widget", "remove_widget", "put_screen", "remove_screen"}
    /\ op.kind = "put_widget" => IsWidget(op.widget)
    /\ op.kind = "put_screen" => IsScreen(op.screen)

-----------------------------------------------------------------------------
(* Who owns whom on a screen. *)

Kids(widgets, id) == IF Has(widgets, id) THEN ToSet(Find(widgets, id).kids) ELSE {}

Owners(widgets, id) == {w \in ToSet(widgets) : id \in ToSet(w.kids)}

RootIds(widgets) == {id \in Ids(widgets) : Owners(widgets, id) = {}}

Roots(widgets) == Only(widgets, RootIds(widgets))

\* A widget and what it owns at most `depth` levels below it.
Below(widgets, id, depth) ==
    LET below[n \in Nat] ==
            IF n = 0 THEN {id}
            ELSE LET above == below[n - 1] IN above \union UNION {Kids(widgets, k) : k \in above}
    IN below[depth]

OwnedIds(widgets, id) == Below(widgets, id, Len(widgets)) \intersect Ids(widgets)

\* The root whose subtree a widget is in, of a screen that passed validation; none if it is not there.
RootOf(widgets, id) == {r \in RootIds(widgets) : id \in OwnedIds(widgets, r)}

-----------------------------------------------------------------------------
(* What an operation makes of a configuration. *)

NoScreen == [id |-> -1]

ScreenOf(conf, id) == IF Has(conf.screens, id) THEN Find(conf.screens, id) ELSE NoScreen

WithScreen(conf, screen) ==
    [conf EXCEPT !.screens =
        IF Has(@, screen.id) THEN ReplaceAt(@, IndexOf(@, screen.id), screen) ELSE Append(@, screen)]

\* A widget of the same z-index stays where it is; any other goes last among those of its z-index.
PutWidget(widgets, w) ==
    CASE ~Has(widgets, w.id) -> AddByZ(widgets, w)
      [] Has(widgets, w.id) /\ Find(widgets, w.id).z = w.z -> ReplaceAt(widgets, IndexOf(widgets, w.id), w)
      [] Has(widgets, w.id) /\ Find(widgets, w.id).z # w.z -> AddByZ(RemoveAt(widgets, IndexOf(widgets, w.id)), w)

\* The screen an operation is on.
OpScreen(op) == IF op.kind = "put_screen" THEN op.screen.id ELSE op.screen_id

FitsBase(conf, op) ==
    \/ op.kind = "put_screen"
    \/ /\ Has(conf.screens, op.screen_id)
       /\ op.kind = "remove_widget" => Has(Find(conf.screens, op.screen_id).widgets, op.widget_id)

ApplyPatchOp(conf, op) ==
    LET screen == ScreenOf(conf, OpScreen(op))
    IN CASE op.kind = "put_widget" ->
                WithScreen(conf, [screen EXCEPT !.widgets = PutWidget(@, op.widget)])
         [] op.kind = "remove_widget" ->
                WithScreen(conf, [screen EXCEPT !.widgets = Without(@, OwnedIds(@, op.widget_id))])
         [] op.kind = "put_screen" -> WithScreen(conf, op.screen)
         [] op.kind = "remove_screen" -> [conf EXCEPT !.screens = Without(@, {op.screen_id})]

-----------------------------------------------------------------------------
(* What the validator asks of a configuration. *)

\* Every child is a widget of the screen, owned once, by another.
IsLinked(widgets) ==
    \A w \in ToSet(widgets) :
        /\ ToSet(w.kids) \subseteq Ids(widgets) \ {w.id}
        /\ IsInjective(w.kids)
        /\ \A v \in ToSet(widgets) \ {w} : ToSet(v.kids) \intersect ToSet(w.kids) = {}

\* No widget owns itself, and none is deeper than the limit.
IsShallow(widgets) ==
    /\ \A w \in ToSet(widgets) :
          \A k \in ToSet(w.kids) : w.id \notin OwnedIds(widgets, k)
    /\ \A id \in RootIds(widgets) :
          Below(widgets, id, MAX_DEPTH - 1) = Below(widgets, id, MAX_DEPTH)

ValidateChildren(w) == Len(w.kids) = IF w.type = "dial" THEN 1 ELSE 0

ValidateScreen(screen) ==
    /\ Len(screen.widgets) <= MAX_NODES
    /\ Cardinality(Ids(screen.widgets)) = Len(screen.widgets)
    /\ IsLinked(screen.widgets)
    /\ IsShallow(screen.widgets)
    /\ \A w \in ToSet(screen.widgets) : ValidateChildren(w)

Validate(conf) ==
    /\ Len(conf.screens) <= MAX_SCREEN_COUNT
    /\ Cardinality(Ids(conf.screens)) = Len(conf.screens)
    /\ conf.screens = <<>> \/ \E s \in ToSet(conf.screens) : s.group = conf.active
    /\ \A s \in ToSet(conf.screens) : ValidateScreen(s)

-----------------------------------------------------------------------------
(* What it takes to go from one configuration to the next. *)

ClassifyWidgetChange(before, after) ==
    IF before.type = after.type /\ before.form = after.form /\ before.kids = after.kids THEN "in_place" ELSE "rebuild"

ClassifyScreenChange(before, after) ==
    IF [before EXCEPT !.widgets = <<>>] = [after EXCEPT !.widgets = <<>>] THEN "in_place" ELSE "rebuild"

\* A mistake it could have, which nothing uses: what changed in a child is not its owner's concern.
FaultyIsSubtreeChanged(before, after, root) == OwnedIds(before, root) # OwnedIds(after, root)

IsSubtreeChanged(before, after, root) ==
    \/ OwnedIds(before, root) # OwnedIds(after, root)
    \/ \E id \in OwnedIds(after, root) \ {root} : Find(before, id) # Find(after, id)

\* What becomes of the root `w` of the new screen, a set with at most one widget patch.
RootChange(before, after, w) ==
    LET patch(action) == <<[id |-> w.id, action |-> action, widget |-> w]>>
    IN  IF w.id \notin RootIds(before) THEN patch("add")
        ELSE IF IsSubtreeChanged(before, after, w.id) THEN patch("replace")
        ELSE IF Find(before, w.id) = w THEN <<>>
        ELSE IF ClassifyWidgetChange(Find(before, w.id), w) = "in_place" THEN patch("update")
        ELSE patch("replace")

\* The roots that are gone, or that an owner took in, then the others.
PlanWidgets(before, after) ==
    LET gone == Without(Roots(before), RootIds(after))
        roots == Roots(after)
    IN  [i \in DOMAIN gone |-> [id |-> gone[i].id, action |-> "remove", widget |-> gone[i]]]
        \o FlattenSeq([i \in DOMAIN roots |-> RootChange(before, after, roots[i])])

\* The roots of one screen that are in both, as that screen draws them.
KeptRoots(widgets, other) ==
    IdsInOrder(InZOrder(Only(Roots(widgets), RootIds(other))))

Reorders(before, after) == KeptRoots(before, after) # KeptRoots(after, before)

PlanScreen(old, new) ==
    LET patch(action, widgets) ==
            <<[id |-> new.id, action |-> action, old |-> old, new |-> new, widgets |-> widgets]>>
        widgets == PlanWidgets(old.widgets, new.widgets)
    IN  IF old = NoScreen THEN patch("add", <<>>)
        ELSE IF old = new THEN <<>>
        ELSE IF ClassifyScreenChange(old, new) = "rebuild" THEN patch("rebuild", <<>>)
        ELSE IF widgets # <<>> \/ Reorders(old.widgets, new.widgets) THEN patch("widgets", widgets)
        ELSE <<>>

PlanPatch(base, patched) ==
    LET gone == Without(base.screens, Ids(patched.screens))
        screens == patched.screens
    IN  [i \in DOMAIN gone |->
            [id |-> gone[i].id, action |-> "remove", old |-> gone[i], new |-> NoScreen, widgets |-> <<>>]]
        \o FlattenSeq([i \in DOMAIN screens |-> PlanScreen(ScreenOf(base, screens[i].id), screens[i])])

-----------------------------------------------------------------------------
(* What the client is told each operation did, by the wire's numbers. *)

InPlace == 0
WidgetRebuilt == 1
GroupRebuilt == 2
NotShown == 3

EffectOf(action) == IF action = "update" THEN InPlace ELSE WidgetRebuilt

WorstEffect(widgets) ==
    IF \E i \in DOMAIN widgets : EffectOf(widgets[i].action) = WidgetRebuilt THEN WidgetRebuilt ELSE InPlace

EffectOnRoot(patch, roots) ==
    IF \E i \in DOMAIN patch.widgets :
          patch.widgets[i].id \in roots /\ EffectOf(patch.widgets[i].action) = WidgetRebuilt
    THEN WidgetRebuilt ELSE InPlace

\* A mistake it could have, which nothing uses: the patch of the widget is looked for, not that of its root.
FaultyEffect(plan, op) ==
    LET patch == Find(plan, OpScreen(op))
    IN CASE ~Has(plan, OpScreen(op)) -> InPlace
         [] Has(plan, OpScreen(op)) /\ patch.action # "widgets" -> GroupRebuilt
         [] OTHER ->
                CASE op.kind = "put_widget" -> EffectOnRoot(patch, {op.widget.id})
                  [] op.kind = "remove_widget" -> EffectOnRoot(patch, {op.widget_id})
                  [] op.kind = "put_screen" -> WorstEffect(patch.widgets)
                  [] op.kind = "remove_screen" -> GroupRebuilt

Effect(plan, op) ==
    LET patch == Find(plan, OpScreen(op))
    IN CASE ~Has(plan, OpScreen(op)) -> InPlace
         [] Has(plan, OpScreen(op)) /\ patch.action # "widgets" -> GroupRebuilt
         [] OTHER ->
                CASE op.kind = "put_widget" -> EffectOnRoot(patch, RootOf(patch.new.widgets, op.widget.id))
                  [] op.kind = "remove_widget" -> EffectOnRoot(patch, RootOf(patch.old.widgets, op.widget_id))
                  [] op.kind = "put_screen" -> WorstEffect(patch.widgets)
                  [] op.kind = "remove_screen" -> GroupRebuilt
=============================================================================
