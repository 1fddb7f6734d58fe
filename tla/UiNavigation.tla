---------------------------- MODULE UiNavigation ----------------------------
(***************************************************************************)
(* Navigation from the request to the screen: NavigationService, its event *)
(* channel, UiController's handlers (controllers/ui_controller.cpp), the   *)
(* MainView, and the stack of overlays (views/overlay_host.cpp).           *)
(*                                                                         *)
(* Three threads act: the renderer, on which gestures, buttons and taps on *)
(* a scrim ask for something; the event bus, which handles what they       *)
(* published; and the render work queue, which renders groups, rebuilds    *)
(* the screens and works for the preview.  Each holds the LVGL lock for    *)
(* the whole of a step, except ShowConfiguration(): it reads where the     *)
(* gauge stands before it takes the lock and asks for the overlay after.   *)
(***************************************************************************)
EXTENDS NavigationService, MainView

CONSTANTS Configuration,  \* the configurations that may be stored or staged
          Events,         \* which of AllEvents happen
          MaxDepth,       \* MAX_DEPTH
          MaxQueued,      \* requests wait while this many events are queued
          MaxDeferred     \* events wait while this many renders are queued

\* What of a configuration matters here: the groups that have a usable screen
\* and the one to start with; those a render fails for, by an error or by an
\* exception; the overlays it has, and those of them that fail to be built.
Configurations ==
    {c \in [groups : SUBSET Group, start : Group, broken : SUBSET Group,
            throws : SUBSET Group, overlays : SUBSET Overlay,
            broken_overlays : SUBSET Overlay] : c.throws \subseteq c.broken}

ASSUME ConfigurationAssumption == Configuration \subseteq Configurations
AllEvents == {"rebuild",   \* a stored configuration is shown
              "preview"}   \* a client previews

ASSUME BoundAssumption ==
    /\ Events \subseteq AllEvents
    /\ MaxDepth \in Nat \ {0}
    /\ MaxQueued \in Nat
    /\ MaxDeferred \in Nat

VARIABLES configuration,  \* configuration_
          overlays,       \* entries_ of the OverlayHost, the top one last
          show            \* where ShowConfiguration() is, and what it read

vars == <<navigationVars, viewVars, configuration, overlays, show>>

NotShowing == [at |-> "idle"]
Show == {NotShowing} \cup
        [at : {"group_read", "overlay_read", "rebuilt", "asked"}, config : Configuration,
         group : Group \cup {NoGroup}, overlay : Overlay \cup {NoOverlay}]

TypeOK ==
    /\ NavigationTypeOK
    /\ ViewTypeOK
    /\ configuration \in Configuration
    /\ overlays \in Seq(Overlay)
    /\ Len(overlays) <= MaxDepth
    /\ show \in Show

-----------------------------------------------------------------------------
\* Configure() on a view that holds no groups.

First(c) == CHOOSE g \in c.groups : \A h \in c.groups : g <= h
Preferred(c, group) == IF group \in c.groups THEN group ELSE c.start

\* The group whose render decides: the preferred one, or the first in order when
\* that one is not there or fails.
Tried(c, group) ==
    IF Preferred(c, group) \in c.groups /\ Preferred(c, group) \notin c.broken \ c.throws
    THEN Preferred(c, group) ELSE First(c)

\* A view that was never rendered only records the group, and the caller
\* renders the view afterwards.
Recorded(c, group) == IF Preferred(c, group) \in c.groups THEN Preferred(c, group) ELSE First(c)

Configure(c, group) ==
    \/ /\ c.groups = {}
       /\ Restarted({}, NoGroup)
       /\ ViewRestarted({}, NoGroup, {}, {}, is_ready)
    \/ /\ c.groups # {} /\ is_ready
       /\ LET g == Tried(c, group)
          IN  \/ /\ g \notin c.broken
                 /\ Restarted(c.groups, g)
                 /\ ViewRestarted(c.groups, g, {g}, {g}, TRUE)
              \/ /\ g \in c.broken \ c.throws
                 /\ Restarted(c.groups, NoGroup)
                 /\ ViewRestarted(c.groups, NoGroup, {}, {}, TRUE)
              \/ /\ g \in c.throws
                 /\ Restarted(c.groups, NoGroup)
                 /\ ViewRestarted(c.groups, g, {g}, {}, TRUE)
    \/ /\ c.groups # {} /\ ~is_ready
       /\ LET g == Recorded(c, group)
              ok == g \notin c.broken
              drawn == IF ok THEN {g} ELSE {}
          IN  /\ Restarted(c.groups, g)
              /\ ViewRestarted(c.groups, g, drawn, drawn, ok)

\* Reconfigure(): the overlays go first, and navigation is not told of each.
Reconfigure(c, group) ==
    /\ configuration' = c
    /\ overlays' = <<>>
    /\ Configure(c, group)

\* Initialize() and Start(): the view is rendered if there is a group, and the one
\* to start with can be.  An exception would end the program.
Init ==
    /\ configuration \in Configuration
    /\ group_ids = configuration.groups
    /\ screen_groups = group_ids
    /\ active_group = IF group_ids = {} THEN NoGroup ELSE Recorded(configuration, NoGroup)
    /\ active_group \notin configuration.throws
    /\ is_ready = (active_group \notin configuration.broken \cup {NoGroup})
    /\ active_overlay = NoOverlay
    /\ history = <<>>
    /\ channel = <<>>
    /\ view_group = active_group
    /\ activated = IF is_ready THEN {active_group} ELSE {}
    /\ rendered = activated
    /\ deferred = <<>>
    /\ overlays = <<>>
    /\ show = NotShowing

-----------------------------------------------------------------------------
\* The renderer thread: gestures (UiInputService), buttons, a tap on the scrim.

Asks(n) == Len(channel) + n <= MaxQueued

GoesToGroup ==
    /\ Asks(1)
    /\ \/ \E g \in Group : GoToGroup(g)
       \/ NextGroup
       \/ PreviousGroup
       \/ Back
    /\ UNCHANGED <<viewVars, configuration, overlays, show>>

OpensOverlay ==
    /\ Asks(1)
    /\ \E s \in Overlay : ShowOverlay(s)
    /\ UNCHANGED <<viewVars, configuration, overlays, show>>

ClosesOverlay ==
    /\ Asks(1)
    /\ active_overlay # NoOverlay
    /\ CloseOverlay
    /\ UNCHANGED <<viewVars, configuration, overlays, show>>

-----------------------------------------------------------------------------
\* The event bus thread: OnNavigationChanged().

Handles(action) ==
    /\ channel # <<>>
    /\ Head(channel).action = action

\* ShowGroup(): the view switches, and navigation takes over what it shows.
FaultyHandleShowGroup ==     \* whatever is asked for now
    /\ Handles("ShowGroup")
    /\ Len(deferred) < MaxDeferred
    /\ LET g == Head(channel).target
       IN  \/ /\ g \in screen_groups
              /\ SetActiveGroup(g)
              /\ active_group' = g
           \/ /\ g \notin screen_groups
              /\ UNCHANGED <<active_group, viewVars>>
    /\ channel' = Tail(channel)
    /\ UNCHANGED <<group_ids, active_overlay, history, configuration, overlays, show>>

HandleShowGroup ==
    /\ Handles("ShowGroup")
    /\ Len(deferred) < MaxDeferred
    /\ LET g == Head(channel).target
       IN  /\ g = active_group
           /\ SetActiveGroup(g)
           /\ active_group' = view_group'
    /\ channel' = Tail(channel)
    /\ UNCHANGED <<group_ids, active_overlay, history, configuration, overlays, show>>

\* ShowOverlay(): built and pushed.
CanPush(s) ==
    /\ s \in configuration.overlays \ configuration.broken_overlays
    /\ Len(overlays) < MaxDepth

HandleShowOverlay ==
    /\ Handles("ShowOverlay")
    /\ LET s == Head(channel).target
       IN  /\ s = active_overlay
           /\ CanPush(s)
           /\ overlays' = Append(overlays, s)
    /\ channel' = Tail(channel)
    /\ UNCHANGED <<group_ids, active_group, active_overlay, history, viewVars,
                   configuration, show>>

\* An overlay that is not there, or cannot be built or pushed: navigation is told, and
\* publishes a close that comes back when nothing was pushed.
FaultyHandleOverlayFails ==     \* navigation is not told
    /\ Handles("ShowOverlay")
    /\ Head(channel).target = active_overlay
    /\ ~CanPush(active_overlay)
    /\ channel' = Tail(channel)
    /\ UNCHANGED <<group_ids, active_group, active_overlay, history, viewVars,
                   configuration, overlays, show>>

HandleOverlayFails ==
    /\ Handles("ShowOverlay")
    /\ Head(channel).target = active_overlay
    /\ ~CanPush(active_overlay)
    /\ active_overlay' = NoOverlay
    /\ channel' = Append(Tail(channel), CloseOverlayEvent(active_overlay))
    /\ UNCHANGED <<group_ids, active_group, history, viewVars, configuration, overlays, show>>

\* CloseOverlay(): the top overlay, whichever it is.
HandleCloseOverlay ==
    /\ Handles("CloseOverlay")
    /\ overlays' = IF overlays = <<>> THEN <<>> ELSE Front(overlays)
    /\ channel' = Tail(channel)
    /\ UNCHANGED <<group_ids, active_group, active_overlay, history, viewVars,
                   configuration, show>>

\* An event for what is not asked for any more.
HandleStale ==
    /\ \/ Handles("ShowGroup") /\ Head(channel).target # active_group
       \/ Handles("ShowOverlay") /\ Head(channel).target # active_overlay
    /\ channel' = Tail(channel)
    /\ UNCHANGED <<group_ids, active_group, active_overlay, history, viewVars,
                   configuration, overlays, show>>

HandleEvent ==
    \/ HandleShowGroup
    \/ HandleShowOverlay
    \/ HandleOverlayFails
    \/ HandleCloseOverlay
    \/ HandleStale

-----------------------------------------------------------------------------
\* The render work queue.

IsFree == show = NotShowing

\* A group waiting to be rendered, in the order the groups were shown.
DeferredRender ==
    /\ IsFree
    /\ deferred # <<>>
    /\ LET g == Head(deferred).group
       IN  \/ g \notin configuration.broken /\ RenderSucceeds
           \/ g \in configuration.broken \ configuration.throws /\ RenderFails
           \/ g \in configuration.throws /\ RenderThrows
    /\ UNCHANGED <<navigationVars, configuration, overlays, show>>

\* A stored configuration is shown: after a store, or as a preview ends.
Rebuild ==
    /\ "rebuild" \in Events
    /\ IsFree
    /\ \E c \in Configuration : Reconfigure(c, NoGroup)
    /\ UNCHANGED show

\* ShowTarget(): what a preview asks for, and the group it puts back at its end.
\* An overlay that is up is closed first.
ShowsTarget ==
    /\ "preview" \in Events
    /\ IsFree
    /\ Asks(2)
    /\ \/ \E g \in Group :
            \/ MovesTo(g, Left, Closing)
            \/ /\ g \in group_ids
               /\ g = active_group
               /\ Publish(Closing)
               /\ UNCHANGED <<group_ids, active_group, history>>
          /\ active_overlay' = NoOverlay
       \/ \E s \in configuration.overlays :
            /\ active_overlay' = s
            /\ Publish(Append(Closing, ShowOverlayEvent(s)))
            /\ UNCHANGED <<group_ids, active_group, history>>
    /\ UNCHANGED <<viewVars, configuration, overlays, show>>

\* ApplyPatch(): the overlay that is up is shown again, built from the patch.
ReshowsOverlay ==
    /\ "preview" \in Events
    /\ IsFree
    /\ Asks(2)
    /\ active_overlay \in configuration.overlays
    /\ Publish(Append(Closing, ShowOverlayEvent(active_overlay)))
    /\ UNCHANGED <<group_ids, active_group, active_overlay, history, viewVars,
                   configuration, overlays, show>>

\* ShowConfiguration(), one access to navigation at a time.  The group it reads is
\* of use only if the configuration has it.
ShowReadsGroup ==
    /\ "preview" \in Events
    /\ IsFree
    /\ Asks(1)
    /\ \E c \in Configuration :
           show' = [at |-> "group_read", config |-> c, overlay |-> NoOverlay,
                    group |-> IF active_group \in c.groups THEN active_group ELSE NoGroup]
    /\ UNCHANGED <<navigationVars, viewVars, configuration, overlays>>

ShowReadsOverlay ==
    /\ show.at = "group_read"
    /\ show' = [show EXCEPT
           !.at = "overlay_read",
           !.overlay = IF active_overlay \in show.config.overlays THEN active_overlay
                       ELSE NoOverlay]
    /\ UNCHANGED <<navigationVars, viewVars, configuration, overlays>>

\* A rebuild that failed goes no further, and no more does one that had no overlay.
ShowRebuilds ==
    /\ show.at = "overlay_read"
    /\ Reconfigure(show.config, show.group)
    /\ show' = IF active_group' = NoGroup \/ ~is_ready' \/ show.overlay = NoOverlay
               THEN NotShowing ELSE [show EXCEPT !.at = "rebuilt"]

ShowAsksOverlay ==
    /\ show.at = "rebuilt"
    /\ \/ /\ AsksOverlay(show.overlay)
          /\ show' = [show EXCEPT !.at = "asked"]
       \/ /\ active_overlay # NoOverlay
          /\ show' = NotShowing
          /\ UNCHANGED navigationVars
    /\ UNCHANGED <<viewVars, configuration, overlays>>

ShowPublishes ==
    /\ show.at = "asked"
    /\ Publish(<<ShowOverlayEvent(show.overlay)>>)
    /\ show' = NotShowing
    /\ UNCHANGED <<group_ids, active_group, active_overlay, history, viewVars,
                   configuration, overlays>>

ShowStep ==
    \/ ShowReadsOverlay
    \/ ShowRebuilds
    \/ ShowAsksOverlay
    \/ ShowPublishes

-----------------------------------------------------------------------------
Next ==
    \/ GoesToGroup
    \/ OpensOverlay
    \/ ClosesOverlay
    \/ HandleEvent
    \/ DeferredRender
    \/ Rebuild
    \/ ShowsTarget
    \/ ReshowsOverlay
    \/ ShowReadsGroup
    \/ ShowStep

Spec == Init /\ [][Next]_vars

-----------------------------------------------------------------------------
\* Nothing is on its way: no event, no render, no show.
Settled == channel = <<>> /\ deferred = <<>> /\ IsFree

\* The group asked for last is the one on the screen, and alone there, once every
\* event is handled and every render is done, whatever was asked in between and
\* whatever failed.  A group that cannot be rendered is excepted.
AskedGroupIsShown ==
    Settled /\ is_ready /\ active_group \notin configuration.broken \cup {NoGroup}
        => Visible = {active_group}

\* Two groups are never on the screen at once, not for one frame: the one there is
\* the view's active group.
OneGroupVisible == Visible \subseteq {view_group}

\* The view catches up with requests and takes none back: handling an event leaves
\* the group that was asked for last.
AskedGroupStands ==
    [][channel # <<>> /\ channel' = Tail(channel) => active_group' = active_group]_vars

\* Each entry of the history is a group Back can go to, and going there changes the
\* group: no configuration leaves an entry that it refuses for ever (Back consumes
\* an entry only when its request is accepted). Nor does it outgrow its depth.
HistoryLeadsBack ==
    LET path == IF active_group = NoGroup THEN history ELSE Append(history, active_group)
    IN  /\ Len(history) <= HistoryDepth
        /\ \A i \in 1 .. Len(history) : history[i] \in group_ids
        /\ \A i \in 1 .. Len(path) - 1 : path[i] # path[i + 1]

\* An overlay that was asked for, and not closed since, is the one on top once
\* every event is handled: no late close of an earlier one takes it away, and one
\* that could not be shown is not kept as if it were.
TrackedOverlayIsOnTop ==
    Settled /\ active_overlay # NoOverlay
        => overlays # <<>> /\ Last(overlays) = active_overlay

\* NavigationService::ShowOverlay() refuses a second overlay so that no CloseOverlay
\* unblocks group navigation with an overlay still on the screen.
NoOverlayIsLeft == Settled /\ active_overlay = NoOverlay => overlays = <<>>

=============================================================================
