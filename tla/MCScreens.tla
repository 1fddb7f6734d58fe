----------------------------- MODULE MCScreens -----------------------------
(***************************************************************************)
(* Instances of Screens for TLC: a screen with a widget that owns another  *)
(* and one that an event drives, alone or beside a second screen and an    *)
(* overlay.                                                                *)
(***************************************************************************)
EXTENDS UiConfigurations

CONSTANTS a, b, c, e

Widget(id, kids) ==
    [id |-> id, type |-> IF kids = <<>> THEN "icon" ELSE "dial", z |-> 0, kids |-> kids, form |-> 0, look |-> 0,
     bound |-> id \in {b, c}]

Screen(id, overlay_, widgets) ==
    [id |-> id, group |-> 1, z |-> 0, overlay |-> overlay_, frame |-> 0, widgets |-> widgets]

Stacked == <<Widget(a, <<b>>), Widget(b, <<>>), Widget(c, <<>>)>>

Configuration(screens) == [active |-> 1, screens |-> screens]

OneScreen == Configuration(<<Screen(1, FALSE, Stacked)>>)

Put(screen, widget) == [kind |-> "put_widget", screen_id |-> screen, widget |-> widget]

Drop(screen, id) == [kind |-> "remove_widget", screen_id |-> screen, widget_id |-> id]

PutScreenOp(screen) == [kind |-> "put_screen", screen |-> screen]

DropScreenOp(id) == [kind |-> "remove_screen", screen_id |-> id]

\* Widgets that come, go and change owners.
StructureOps ==
    {Put(1, Widget(a, kids)) : kids \in {<<>>, <<b>>}}
    \union {Put(1, Widget(b, kids)) : kids \in {<<>>, <<a>>}}
    \union {Put(1, Widget(c, kids)) : kids \in {<<>>, <<a>>}}
    \union {Drop(1, id) : id \in {a, b, c}}

\* Records that change in place and records that do not.
RecordOps ==
    {Put(1, Widget(a, <<b>>)), Put(1, [Widget(a, <<b>>) EXCEPT !.z = 1]),
     Put(1, Widget(b, <<>>)), Put(1, [Widget(b, <<>>) EXCEPT !.look = 1]),
     Put(1, Widget(c, <<>>)), Put(1, [Widget(c, <<>>) EXCEPT !.look = 1]),
     Put(1, [Widget(c, <<>>) EXCEPT !.form = 1]), Drop(1, c)}

\* Screens that come, go and move.
ScreenOps ==
    {PutScreenOp(Screen(2, FALSE, <<>>)), PutScreenOp([Screen(2, FALSE, <<>>) EXCEPT !.frame = 1]),
     PutScreenOp([Screen(2, FALSE, <<>>) EXCEPT !.group = 2]), PutScreenOp(Screen(1, FALSE, Stacked)),
     PutScreenOp([Screen(1, FALSE, Stacked) EXCEPT !.z = 1]), DropScreenOp(1), DropScreenOp(2)}

\* An overlay that changes, goes, and stops being one.
OverlayOps ==
    {PutScreenOp(Screen(3, FALSE, <<>>)), PutScreenOp(Screen(3, TRUE, <<>>)), DropScreenOp(3),
     Put(3, [Widget(e, <<>>) EXCEPT !.look = 1]), Put(1, [Widget(c, <<>>) EXCEPT !.look = 1]), Drop(1, c)}

FourClients ==
    {[staged |-> OneScreen, ops |-> StructureOps, max_ops |-> 3],
     [staged |-> OneScreen, ops |-> RecordOps, max_ops |-> 2],
     [staged |-> Configuration(<<Screen(1, FALSE, Stacked), Screen(2, FALSE, <<>>)>>), ops |-> ScreenOps, max_ops |-> 2],
     [staged |-> Configuration(<<Screen(1, FALSE, Stacked), Screen(3, TRUE, <<Widget(e, <<>>)>>)>>),
      ops |-> OverlayOps, max_ops |-> 2]}
=============================================================================
