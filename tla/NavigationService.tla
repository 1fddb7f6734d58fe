------------------------- MODULE NavigationService -------------------------
(***************************************************************************)
(* NavigationService (domain/ui_domain/services/navigation_service.cpp):   *)
(* the group and the overlay that were asked for last, and the way back.   *)
(* A request changes this state at once and publishes an event; what       *)
(* handles the event changes the view.                                     *)
(*                                                                         *)
(* A request that is refused, or asks for what is so already, changes      *)
(* nothing and has no operator.  The mutex is held for the state only, and *)
(* the event is published after it: the callers that hold the LVGL lock    *)
(* around both do them in one step, and AsksOverlay is for the one that    *)
(* does not.                                                               *)
(*                                                                         *)
(* A definition whose name begins with Faulty is the one after it with a   *)
(* mistake someone could make in the code; nothing uses it.                *)
(***************************************************************************)
EXTENDS NavigationModels

CONSTANT HistoryDepth   \* HISTORY_DEPTH

ASSUME HistoryAssumption == HistoryDepth \in Nat \ {0}

VARIABLES group_ids,       \* screen_group_ids_
          active_group,    \* active_screen_group_id_
          active_overlay,  \* active_overlay_screen_id_
          history,         \* history_, history_count_
          channel          \* the events published and not yet handled

navigationVars == <<group_ids, active_group, active_overlay, history, channel>>

NavigationTypeOK ==
    /\ group_ids \subseteq Group
    /\ active_group \in Group \cup {NoGroup}
    /\ active_overlay \in Overlay \cup {NoOverlay}
    /\ history \in Seq(Group)
    /\ Len(history) <= HistoryDepth
    /\ channel \in Seq(Event)

Publish(events) == channel' = channel \o events

\* Reset(), then SetGroupIds() and, where the view shows one, SetActiveGroupId().
\* The events on their way stay on their way.
FaultyRestartedHistory(ids, g) ==     \* Reset() keeps the history
    /\ group_ids' = ids
    /\ active_group' = g
    /\ active_overlay' = NoOverlay
    /\ UNCHANGED <<history, channel>>

Restarted(ids, g) ==
    /\ group_ids' = ids
    /\ active_group' = g
    /\ active_overlay' = NoOverlay
    /\ history' = <<>>
    /\ UNCHANGED channel

-----------------------------------------------------------------------------
\* Groups

\* PushHistory(): a full history loses its oldest entry.
Pushed(g) ==
    Append(IF Len(history) = HistoryDepth THEN Tail(history) ELSE history, g)

\* RequestGroup(), accepted, for a group that is not the active one.
\* `before` is what the same caller published ahead of it.
MovesTo(g, past, before) ==
    /\ g \in group_ids
    /\ g # active_group
    /\ active_group' = g
    /\ history' = past
    /\ Publish(Append(before, ShowGroupEvent(g)))
    /\ UNCHANGED group_ids

Left == IF active_group = NoGroup THEN history ELSE Pushed(active_group)

GoToGroup(g) ==
    /\ active_overlay = NoOverlay
    /\ MovesTo(g, Left, <<>>)
    /\ UNCHANGED active_overlay

\* The group after, or before, the active one in the order of their ids, around
\* the ends.  Both are the active one when it is the only one.
After(g) ==
    LET later == {i \in group_ids : i > g}
    IN  CHOOSE i \in (IF later = {} THEN group_ids ELSE later) :
            \A j \in (IF later = {} THEN group_ids ELSE later) : i <= j

Before(g) ==
    LET earlier == {i \in group_ids : i < g}
    IN  CHOOSE i \in (IF earlier = {} THEN group_ids ELSE earlier) :
            \A j \in (IF earlier = {} THEN group_ids ELSE earlier) : i >= j

NextGroup == active_group \in group_ids /\ GoToGroup(After(active_group))
PreviousGroup == active_group \in group_ids /\ GoToGroup(Before(active_group))

\* An entry is consumed once its request is accepted, and when it is the active
\* group already that is all there is to it.
Back ==
    /\ history # <<>>
    /\ active_overlay = NoOverlay
    /\ \/ MovesTo(Last(history), Front(history), <<>>)
       \/ /\ Last(history) \in group_ids
          /\ Last(history) = active_group
          /\ history' = Front(history)
          /\ UNCHANGED <<group_ids, active_group, channel>>
    /\ UNCHANGED active_overlay

-----------------------------------------------------------------------------
\* Overlays

\* ShowOverlay() up to its unlock; its event is published later.
AsksOverlay(s) ==
    /\ active_overlay = NoOverlay
    /\ active_overlay' = s
    /\ UNCHANGED <<group_ids, active_group, history, channel>>

ShowOverlay(s) ==
    /\ active_overlay = NoOverlay
    /\ active_overlay' = s
    /\ Publish(<<ShowOverlayEvent(s)>>)
    /\ UNCHANGED <<group_ids, active_group, history>>

\* What CloseOverlay() publishes: nothing when no overlay is tracked.
Closing == IF active_overlay = NoOverlay THEN <<>> ELSE <<CloseOverlayEvent(active_overlay)>>

CloseOverlay ==
    /\ active_overlay' = NoOverlay
    /\ Publish(Closing)
    /\ UNCHANGED <<group_ids, active_group, history>>
=============================================================================
