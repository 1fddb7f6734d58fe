------------------------------ MODULE Screens ------------------------------
(***************************************************************************)
(* The screens of the main view, and the overlay over them, while the      *)
(* staged configuration is patched.  A patch is planned against the staged *)
(* configuration and carried out on the widgets that are there, so that    *)
(* what did not change stays; the result has to be what showing the whole  *)
(* patched configuration would have given.                                 *)
(*                                                                         *)
(* The patch runs in one piece under the LVGL lock.  What the new widgets  *)
(* bind to is published after the lock is given back, and the overlay is   *)
(* built by the view when it takes the navigation's event: users and the   *)
(* view run in between.                                                    *)
(***************************************************************************)
EXTENDS UiPatch, Functions

CONSTANTS
    Clients,        \* what each stages first, the operations it may send, and how many in a request
    NoOverlay,
    Events          \* which of "build_fails" and "overlay" may happen

ASSUME ClientsAssumption ==
    \A c \in Clients :
        IsConfiguration(c.staged) /\ Validate(c.staged) /\ \A op \in c.ops : IsOp(op)

VARIABLES
    client,
    staged,         \* the configuration the session staged, which the controller holds
    patched,        \* what the operations so far make of it
    ops,
    pc,             \* what the UI worker does: idle, patching, failed, replaying
    groups,         \* the screen groups of the main view, each its screens in drawing order
    effects,        \* what the client is told of the last patch
    overlay,        \* the overlay navigation has up
    overlay_told,   \* whether the view took the last event of the overlay
    overlay_view    \* the overlay the view built

requestVars == <<client, staged, patched, ops>>
overlayVars == <<overlay, overlay_told, overlay_view>>
vars == <<requestVars, pc, groups, effects, overlayVars>>

-----------------------------------------------------------------------------
(* The live widgets and screens. *)

\* A widget built from its record: it draws its children by z-index, and knows nothing it binds to yet.
NewWidget(screen, w) ==
    [rec |-> w,
     kids |-> IdsInOrder(InZOrder(Only(screen.widgets, ToSet(w.kids)))),
     told |-> FALSE,
     built |-> TRUE]

\* The widgets of a root, the root's own first.
AssembleRoot(screen, root) ==
    [id \in OwnedIds(screen.widgets, root) |-> NewWidget(screen, Find(screen.widgets, id))]

Assemble(screen) ==
    [id |-> screen.id,
     z |-> screen.z,
     roots |-> LET roots == Roots(screen.widgets)
               IN [i \in DOMAIN roots |-> [id |-> roots[i].id, tree |-> AssembleRoot(screen, roots[i].id)]]]

GroupIds(conf) == {s.group : s \in {t \in ToSet(conf.screens) : ~t.overlay}}

\* The screens of a group as a whole show puts them there, by z-index and in the order of the list.
ScreensOf(conf, group) ==
    InZOrder(Only(conf.screens, {s.id : s \in {t \in ToSet(conf.screens) : ~t.overlay /\ t.group = group}}))

BuildGroups(conf) ==
    [group \in GroupIds(conf) |->
        LET screens == ScreensOf(conf, group) IN [i \in DOMAIN screens |-> Assemble(screens[i])]]

-----------------------------------------------------------------------------
(* Screen::ApplyWidgetPatches *)

Update(root, w) == [root EXCEPT !.tree[w.id].rec = w]

\* One change of a root: the record it takes, or the successor in its place or at the end.
ApplyWidgetPatch(roots, new, patch) ==
    LET at == IndexOf(roots, patch.id)
        successor == [id |-> patch.id, tree |-> AssembleRoot(new, patch.id)]
    IN CASE patch.action = "remove" -> Without(roots, {patch.id})
         [] patch.action = "update" /\ at = 0 -> roots
         [] patch.action = "update" /\ at # 0 -> [roots EXCEPT ![at] = Update(@, patch.widget)]
         [] patch.action \in {"replace", "add"} /\ at = 0 -> Append(roots, successor)
         [] patch.action \in {"replace", "add"} /\ at # 0 -> ReplaceAt(roots, at, successor)

\* As the configuration draws its roots; one it does not list goes last.
ApplyRootOrder(roots, new) ==
    LET listed == InZOrder(Roots(new.widgets))
        stay == Only(listed, Ids(roots))
    IN [i \in DOMAIN stay |-> Find(roots, stay[i].id)] \o Without(roots, Ids(listed))

PatchRoots(roots, new, patches) == FoldLeft(LAMBDA reached, p : ApplyWidgetPatch(reached, new, p), roots, patches)

ApplyWidgetPatches(screen, patch) ==
    [screen EXCEPT !.roots = ApplyRootOrder(PatchRoots(@, patch.new, patch.widgets), patch.new)]

-----------------------------------------------------------------------------
(* UiController::PatchScreen, on the groups; a set with the groups it leaves, empty if only a whole show will do. *)

HoldsScreen(views, group, id) == Has(views[group], id)

GroupPutScreen(screens, screen) == AddByZ(Without(screens, {screen.id}), screen)

GroupRemoveScreen(screens, id) == Without(screens, {id})

\* The list's order among the screens of a z-index; a stable sort by the rank in it.
GroupOrderScreens(screens, listed) ==
    LET stay == Only(listed, Ids(screens))
    IN  [i \in DOMAIN stay |-> Find(screens, stay[i].id)] \o Without(screens, Ids(listed))

PatchWidgets(views, patch) ==
    {[views EXCEPT ![g] = ReplaceAt(@, IndexOf(@, patch.id), ApplyWidgetPatches(Find(@, patch.id), patch))] :
        g \in {h \in DOMAIN views : HoldsScreen(views, h, patch.id)}}

\* The last screen of a group does not go alone.
RemoveScreen(views, id) ==
    {[views EXCEPT ![g] = GroupRemoveScreen(@, id)] :
        g \in {h \in DOMAIN views : HoldsScreen(views, h, id) /\ Len(views[h]) > 1}}

PutScreen(views, patch) ==
    LET group == patch.new.group
    IN IF \/ group \notin DOMAIN views
          \/ patch.old # NoScreen /\ patch.old.group # group
          \/ \E g \in DOMAIN views \ {group} : HoldsScreen(views, g, patch.id)
       THEN {}
       ELSE {[views EXCEPT ![group] = GroupPutScreen(@, Assemble(patch.new))]}

IsOnOverlay(patch) ==
    \/ patch.old # NoScreen /\ patch.old.overlay
    \/ patch.new # NoScreen /\ patch.new.overlay

\* An overlay is built when it is shown: there is nothing to patch, but it may not come or go.
StaysOverlay(patch) == patch.old # NoScreen /\ patch.new # NoScreen /\ patch.old.overlay = patch.new.overlay

PatchScreen(views, patch) ==
    CASE IsOnOverlay(patch) -> IF StaysOverlay(patch) THEN {views} ELSE {}
      [] ~IsOnOverlay(patch) /\ patch.action = "widgets" -> PatchWidgets(views, patch)
      [] ~IsOnOverlay(patch) /\ patch.action = "remove" -> RemoveScreen(views, patch.id)
      [] ~IsOnOverlay(patch) /\ patch.action \in {"add", "rebuild"} -> PutScreen(views, patch)

PatchEach(reached, patch) == UNION {PatchScreen(views, patch) : views \in reached}

PatchScreens(views, plan) == FoldLeft(PatchEach, {views}, plan)

OrderPatchedGroups(views, conf) ==
    [group \in DOMAIN views |->
        IF ScreensOf(conf, group) = <<>> THEN views[group] ELSE GroupOrderScreens(views[group], ScreensOf(conf, group))]

-----------------------------------------------------------------------------
(* The steps. *)

\* What a widget has been told and that the last patch built it, marked on every widget.
MarkedRoot(root, mark, value) ==
    [root EXCEPT !.tree = [id \in DOMAIN @ |-> [@[id] EXCEPT ![mark] = value]]]

MarkedScreen(s, mark, value) == [s EXCEPT !.roots = [r \in DOMAIN @ |-> MarkedRoot(@[r], mark, value)]]

Marked(views, mark, value) ==
    [g \in DOMAIN views |-> [i \in DOMAIN views[g] |-> MarkedScreen(views[g][i], mark, value)]]

Settled(views) == Marked(views, "built", FALSE)

Told(views) == Marked(views, "told", TRUE)

Init ==
    /\ client \in Clients
    /\ staged = client.staged /\ patched = staged /\ ops = <<>> /\ pc = "idle"
    /\ groups = Settled(Told(BuildGroups(staged)))
    /\ effects = <<>>
    /\ overlay = NoOverlay /\ overlay_told = TRUE /\ overlay_view = NoScreen

\* An operation that fits goes onto the copy; one that does not throws the copy away.
ApplyPatchOps(op) ==
    /\ pc = "idle" /\ Len(ops) < client.max_ops
    /\ IF FitsBase(patched, op)
       THEN patched' = ApplyPatchOp(patched, op) /\ ops' = Append(ops, op)
       ELSE patched' = staged /\ ops' = <<>>
    /\ groups' = Settled(groups) /\ effects' = <<>>
    /\ UNCHANGED <<client, staged, pc, overlayVars>>

RefuseInvalid ==
    /\ pc = "idle" /\ ops # <<>> /\ ~Validate(patched)
    /\ patched' = staged /\ ops' = <<>>
    /\ UNCHANGED <<client, staged, pc, groups, effects, overlayVars>>

Plan == PlanPatch(staged, patched)

Overlays(conf) == {s.id : s \in {t \in ToSet(conf.screens) : t.overlay}}

\* A mistake it could have, which nothing uses: only an overlay whose own record changed is shown again.
FaultyOverlaysToReshow == {patch.id : patch \in {p \in ToSet(Plan) : IsOnOverlay(p) /\ p.action # "widgets"}}

OverlaysToReshow == {patch.id : patch \in {p \in ToSet(Plan) : IsOnOverlay(p)}}

EffectOfOp(op) ==
    CASE OpScreen(op) \notin OverlaysToReshow -> Effect(Plan, op)
      [] OTHER -> IF overlay = OpScreen(op) THEN GroupRebuilt ELSE NotShown

Tell(told) == [i \in DOMAIN ops |-> [op |-> ops[i], effect |-> told[i]]]

\* The widgets told to nobody, and the bound ones put in place, are why the state is published again.
HasBoundUpdate ==
    \E patch \in ToSet(Plan) :
        /\ patch.action = "widgets" /\ ~IsOnOverlay(patch)
        /\ \E p \in ToSet(patch.widgets) : p.action = "update" /\ p.widget.bound

\* A mistake it could have, which nothing uses: only what was put in place is told.
FaultyIsReplayNeeded == HasBoundUpdate

IsReplayNeeded ==
    HasBoundUpdate \/ \E i \in DOMAIN ops : Effect(Plan, ops[i]) \in {WidgetRebuilt, GroupRebuilt}

TakePatched == staged' = patched /\ patched' = patched /\ ops' = <<>>

\* The screens take the patch; an overlay that is up and changed is closed and shown again, by events.
ApplyPatch ==
    /\ pc = "idle" /\ ops # <<>> /\ Validate(patched)
    /\ \E views \in PatchScreens(Settled(groups), Plan) : groups' = OrderPatchedGroups(views, patched)
    /\ effects' = Tell([i \in DOMAIN ops |-> EffectOfOp(ops[i])])
    /\ pc' = IF IsReplayNeeded THEN "replaying" ELSE "idle"
    /\ TakePatched
    /\ overlay_told' = (overlay_told /\ overlay \notin OverlaysToReshow)
    /\ UNCHANGED <<client, overlay, overlay_view>>

\* Everything is torn down and built again; the overlay comes back if it is still one.
Show(conf) ==
    /\ groups' = BuildGroups(conf)
    /\ pc' = "replaying"
    /\ overlay' = IF overlay \in Overlays(conf) THEN overlay ELSE NoOverlay
    /\ overlay_view' = NoScreen
    /\ overlay_told' = (overlay' = NoOverlay)

\* What the view cannot do in place is left to a whole show.
ApplyByRebuild ==
    /\ pc = "idle" /\ ops # <<>> /\ Validate(patched)
    /\ PatchScreens(Settled(groups), Plan) = {}
    /\ effects' = Tell([i \in DOMAIN ops |-> GroupRebuilt])
    /\ TakePatched
    /\ Show(patched)
    /\ UNCHANGED client

\* A widget or a screen cannot be built: the screens are left with the patches before it, and nothing is taken over.
ApplyFails ==
    /\ "build_fails" \in Events
    /\ pc = "idle" /\ ops # <<>> /\ Validate(patched)
    /\ LET plan == Plan
       IN \E i \in {j \in DOMAIN plan : plan[j].action # "remove" /\ ~IsOnOverlay(plan[j])} :
            groups' \in PatchScreens(groups, SubSeq(plan, 1, i - 1))
    /\ pc' = "failed"
    /\ UNCHANGED <<requestVars, effects, overlayVars>>

\* All or nothing: the screens show again what they showed.
ShowStagedAgain ==
    /\ pc = "failed"
    /\ Show(staged)
    /\ patched' = staged /\ ops' = <<>> /\ effects' = <<>>
    /\ UNCHANGED <<client, staged>>

Replay ==
    /\ pc = "replaying"
    /\ groups' = Told(groups)
    /\ pc' = "idle"
    /\ UNCHANGED <<requestVars, effects, overlayVars>>

\* A button on a screen shows an overlay of the configuration, or closes the one that is up.
UserMovesOverlay(id) ==
    /\ "overlay" \in Events
    /\ id # overlay /\ NoOverlay \in {id, overlay}
    /\ overlay' = id /\ overlay_told' = FALSE
    /\ UNCHANGED <<requestVars, pc, groups, effects, overlay_view>>

\* The view takes the event: the overlay is built of what the controller holds by then.
ViewShowsOverlay ==
    /\ ~overlay_told
    /\ overlay_told' = TRUE
    /\ overlay_view' = IF overlay = NoOverlay THEN NoScreen ELSE Find(staged.screens, overlay)
    /\ UNCHANGED <<requestVars, pc, groups, effects, overlay>>

Next ==
    \/ \E op \in client.ops : ApplyPatchOps(op)
    \/ RefuseInvalid
    \/ ApplyPatch
    \/ ApplyByRebuild
    \/ ApplyFails
    \/ ShowStagedAgain
    \/ Replay
    \/ \E id \in Overlays(staged) \union {NoOverlay} : UserMovesOverlay(id)
    \/ ViewShowsOverlay

Spec == Init /\ [][Next]_vars

-----------------------------------------------------------------------------
(* Properties. *)

Screens == UNION {ToSet(groups[g]) : g \in DOMAIN groups}

WidgetIds(conf, screen) == UNION {Ids(s.widgets) : s \in {t \in ToSet(conf.screens) : t.id = screen}}

LiveRoots == UNION {ToSet(s.roots) : s \in Screens}

\* The widgets of the screens, the marks aside.
Shape(screen) ==
    [screen EXCEPT !.roots =
        [r \in DOMAIN @ |-> [id |-> @[r].id, tree |-> [id \in DOMAIN @[r].tree |->
            <<@[r].tree[id].rec, @[r].tree[id].kids>>]]]]

Shapes(views) == [g \in DOMAIN views |-> [i \in DOMAIN views[g] |-> Shape(views[g][i])]]

\* However they were patched, the screens are those a whole show of the staged configuration builds: the same
\* groups, screens, widgets and records, drawn in the same order (UiController::ApplyPatchLocked).
LiveIsAsBuilt == pc # "failed" => Shapes(groups) = Shapes(BuildGroups(staged))

\* The request took away again a widget it had put on a screen.
TakesBack ==
    \E i \in DOMAIN effects :
        LET op == effects[i].op
        IN  op.kind = "put_widget" /\ op.widget.id \notin WidgetIds(staged, op.screen_id)

\* A widget that an event drives and that a patch built has been given its value when the patch is over: what the
\* operations report is what decides whether the state is published again (UiController::ApplyPatchLocked).
BuiltIsTold ==
    pc = "idle" /\ effects # <<>> /\ ~TakesBack =>
        \A root \in LiveRoots : \A id \in DOMAIN root.tree :
            root.tree[id].built /\ root.tree[id].rec.bound => root.tree[id].told

\* What the client is told is what became of the widgets: one it put that was reported in place was not built
\* again, and a screen with a widget that was built has an operation that says so.
EffectsAreTrue ==
    pc # "failed" /\ effects # <<>> /\ ~TakesBack =>
        \A s \in Screens : \A r \in DOMAIN s.roots :
            LET root == s.roots[r]
                on == {e \in ToSet(effects) : OpScreen(e.op) = s.id}
                isBuilt == root.tree[root.id].built
            IN /\ isBuilt => \E e \in on \union {f \in ToSet(effects) : f.effect = GroupRebuilt} : e.effect # InPlace
               /\ \A e \in on : e.op.kind = "put_widget" /\ e.effect = InPlace /\ e.op.widget.id \in DOMAIN root.tree
                                => ~isBuilt

\* Once the view took what navigation said last, the overlay that is up is the one the staged configuration has,
\* whatever patches came between the event and the view.
OverlayIsAsStaged ==
    overlay_told /\ pc # "failed" =>
        IF overlay = NoOverlay THEN overlay_view = NoScreen
        ELSE /\ overlay \in Overlays(staged)
             /\ overlay_view # NoScreen
             /\ Shape(Assemble(overlay_view)) = Shape(Assemble(Find(staged.screens, overlay)))
=============================================================================
