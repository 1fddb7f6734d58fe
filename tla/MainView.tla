------------------------------ MODULE MainView ------------------------------
(***************************************************************************)
(* MainView (views/main_view.cpp) and its ScreenGroups                     *)
(* (views/screens/screen_group.cpp): which group is the active one, and    *)
(* which of them are built.  A group is built (rendered) when it is first  *)
(* shown, and then on the render work queue: the switch is made at once,   *)
(* and the render that fails undoes it.  All of it holds the LVGL lock.    *)
(*                                                                         *)
(* A group that Clear() dropped is held by no one, so the renders that     *)
(* wait for it find nothing (weak_ptr): they are dropped with it here.     *)
(***************************************************************************)
EXTENDS NavigationModels

VARIABLES screen_groups,  \* the ids in screen_groups_
          view_group,     \* active_screen_group_id_
          activated,      \* groups with is_activation_requested_
          rendered,       \* groups with is_rendered_
          is_ready,       \* the view was rendered: IsReady()
          deferred        \* the renders queued on the render work queue

viewVars == <<screen_groups, view_group, activated, rendered, is_ready, deferred>>

Render == [group : Group, previous : Group \cup {NoGroup}]

ViewTypeOK ==
    /\ screen_groups \subseteq Group
    /\ view_group \in Group \cup {NoGroup}
    /\ activated \subseteq screen_groups
    /\ rendered \subseteq screen_groups
    /\ is_ready \in BOOLEAN
    /\ deferred \in Seq(Render)

\* ScreenGroup::ApplyActivation(): a group is on the screen when it is both.
Visible == activated \cap rendered

-----------------------------------------------------------------------------
\* SetActiveGroup(), for a group of the view, with the render dispatcher.
FaultySetActiveGroup(g) ==     \* the group that was shown is not deactivated
    \/ /\ ~is_ready
       /\ view_group' = g
       /\ UNCHANGED <<screen_groups, activated, rendered, is_ready, deferred>>
    \/ /\ is_ready
       /\ view_group = g
       /\ UNCHANGED viewVars
    \/ /\ is_ready
       /\ view_group # g
       /\ view_group' = g
       /\ activated' = activated \cup {g}
       /\ deferred' = IF g \in rendered THEN deferred
                      ELSE Append(deferred, [group |-> g, previous |-> view_group])
       /\ UNCHANGED <<screen_groups, rendered, is_ready>>

SetActiveGroup(g) ==
    \/ /\ ~is_ready
       /\ view_group' = g
       /\ UNCHANGED <<screen_groups, activated, rendered, is_ready, deferred>>
    \/ /\ is_ready
       /\ view_group = g
       /\ UNCHANGED viewVars
    \/ /\ is_ready
       /\ view_group # g
       /\ view_group' = g
       /\ activated' = (activated \ {view_group}) \cup {g}
       /\ deferred' = IF g \in rendered THEN deferred
                      ELSE Append(deferred, [group |-> g, previous |-> view_group])
       /\ UNCHANGED <<screen_groups, rendered, is_ready>>

\* The deferred render at the head of the queue: RenderGroupOrRollBack().
RenderSucceeds ==
    /\ rendered' = rendered \cup {Head(deferred).group}
    /\ deferred' = Tail(deferred)
    /\ UNCHANGED <<screen_groups, view_group, activated, is_ready>>

FaultyRenderFails ==     \* a later switch is undone too
    LET g == Head(deferred).group
        previous == Head(deferred).previous
    IN  /\ g \notin rendered
        /\ deferred' = Tail(deferred)
        /\ view_group' = previous
        /\ activated' = (activated \ {g}) \cup ({previous} \ {NoGroup})
        /\ UNCHANGED <<screen_groups, rendered, is_ready>>

RenderFails ==
    LET g == Head(deferred).group
        previous == Head(deferred).previous
    IN  /\ g \notin rendered
        /\ deferred' = Tail(deferred)
        /\ \/ /\ view_group # g      \* a later switch moved on
              /\ UNCHANGED <<view_group, activated>>
           \/ /\ view_group = g
              /\ view_group' = previous
              /\ activated' = (activated \ {g}) \cup ({previous} \ {NoGroup})
        /\ UNCHANGED <<screen_groups, rendered, is_ready>>

\* An exception leaves RenderGroupOrRollBack() before it rolls back.
RenderThrows ==
    /\ Head(deferred).group \notin rendered
    /\ deferred' = Tail(deferred)
    /\ UNCHANGED <<screen_groups, view_group, activated, rendered, is_ready>>

-----------------------------------------------------------------------------
\* Clear(), then the groups of another configuration, with `g` made the active
\* one; `drawn` and `ready` say whether it is rendered, and the view with it.
ViewRestarted(groups, g, on, drawn, ready) ==
    /\ screen_groups' = groups
    /\ view_group' = g
    /\ activated' = on
    /\ rendered' = drawn
    /\ is_ready' = ready
    /\ deferred' = <<>>
=============================================================================
