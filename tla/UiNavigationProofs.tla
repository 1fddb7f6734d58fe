------------------------- MODULE UiNavigationProofs -------------------------
(***************************************************************************)
(* What navigation keeps true, proved for every set of groups, overlays    *)
(* and configurations, every history depth and every bound.                *)
(***************************************************************************)
EXTENDS UiNavigation, SequenceTheorems, WellFoundedInduction, TLAPS

-----------------------------------------------------------------------------
\* The navigation service and the view know the same groups, and what either
\* points to is one of them.
GroupsAgree ==
    /\ group_ids = screen_groups
    /\ active_group \in group_ids \cup {NoGroup}
    /\ view_group \in screen_groups \cup {NoGroup}

\* So is what a deferred render refers to.
DeferredKnown ==
    \A i \in 1 .. Len(deferred) : /\ deferred[i].group \in screen_groups
                                  /\ deferred[i].previous \in screen_groups \cup {NoGroup}

\* Only the group the view points to is to be shown, and none before the view is.
OneActivated ==
    /\ activated \subseteq {view_group}
    /\ ~is_ready => activated = {} /\ deferred = <<>>

ViewKnown == view_group \in screen_groups \cup {NoGroup} /\ DeferredKnown /\ OneActivated

\* ShowConfiguration() comes as far as this only with an overlay to show again.
ShowKnown == show.at \in {"rebuilt", "asked"} => show.overlay \in Overlay

Known == TypeOK /\ GroupsAgree /\ DeferredKnown /\ OneActivated /\ ShowKnown

-----------------------------------------------------------------------------
\* The first group of a configuration is one of its groups.
LEMMA FirstIsAGroup ==
    ASSUME NEW c \in Configuration, c.groups # {}
    PROVE  First(c) \in c.groups
<1>1. c.groups \subseteq Nat
  BY ConfigurationAssumption, IdAssumption DEF Configurations
<1> DEFINE Less == {p \in Nat \X Nat : p[1] < p[2]}
<1>2. IsWellFoundedOn(Less, Nat)
  BY NatLessThanWellFounded DEF OpToRel
<1>3. PICK g \in c.groups : \A h \in c.groups : <<h, g>> \notin Less
  <2> HIDE DEF Less
  <2> QED
    BY <1>1, <1>2, WFMin
<1>4. \A h \in c.groups : g <= h
  <2> SUFFICES ASSUME NEW h \in c.groups PROVE ~(h < g)
    BY <1>1
  <2>1. h < g => <<h, g>> \in Less
    BY <1>1
  <2> QED
    BY <2>1, <1>3
<1> QED
  BY <1>4 DEF First

LEMMA TriedIsAGroup ==
    ASSUME NEW c \in Configuration, NEW group, c.groups # {}
    PROVE  Tried(c, group) \in c.groups /\ Recorded(c, group) \in c.groups
  BY FirstIsAGroup DEF Tried, Recorded

\* The events requests publish.
LEMMA EventTypes ==
    /\ \A g \in Group : ShowGroupEvent(g) \in Event
    /\ \A s \in Overlay : ShowOverlayEvent(s) \in Event /\ CloseOverlayEvent(s) \in Event
  BY DEF ShowGroupEvent, ShowOverlayEvent, CloseOverlayEvent, Event

LEMMA PublishType ==
    ASSUME channel \in Seq(Event), NEW events \in Seq(Event), Publish(events)
    PROVE  channel' \in Seq(Event)
  BY DEF Publish

LEMMA ClosingType ==
    ASSUME active_overlay \in Overlay \cup {NoOverlay}
    PROVE  Closing \in Seq(Event)
  BY EventTypes DEF Closing

\* The history keeps to its depth.
LEMMA PushedType ==
    ASSUME history \in Seq(Group), Len(history) <= HistoryDepth, NEW g \in Group
    PROVE  Pushed(g) \in Seq(Group) /\ Len(Pushed(g)) <= HistoryDepth
  BY HistoryAssumption DEF Pushed

LEMMA LeftType ==
    ASSUME NavigationTypeOK
    PROVE  Left \in Seq(Group) /\ Len(Left) <= HistoryDepth
  BY PushedType DEF Left, NavigationTypeOK

LEMMA MovesToType ==
    ASSUME NavigationTypeOK, NEW g, NEW past \in Seq(Group), Len(past) <= HistoryDepth,
           NEW before \in Seq(Event), MovesTo(g, past, before),
           active_overlay' \in Overlay \cup {NoOverlay}
    PROVE  NavigationTypeOK' /\ g \in group_ids /\ active_group' = g /\ group_ids' = group_ids
<1>1. g \in group_ids /\ g \in Group /\ active_group' = g /\ group_ids' = group_ids
      /\ history' = past
  BY DEF MovesTo, NavigationTypeOK
<1>2. Append(before, ShowGroupEvent(g)) \in Seq(Event)
  BY <1>1, EventTypes
<1>3. channel' \in Seq(Event)
  BY <1>2, PublishType DEF MovesTo, NavigationTypeOK
<1> QED
  BY <1>1, <1>3 DEF NavigationTypeOK

-----------------------------------------------------------------------------
\* A switch of the view.
LEMMA SetActiveGroupKeeps ==
    ASSUME ViewTypeOK, ViewKnown, NEW g \in screen_groups, SetActiveGroup(g)
    PROVE  ViewTypeOK' /\ ViewKnown' /\ view_group' = g /\ screen_groups' = screen_groups
<1> USE DEF ViewTypeOK, ViewKnown, DeferredKnown, OneActivated
<1> DEFINE render == [group |-> g, previous |-> view_group]
<1>1. CASE UNCHANGED <<screen_groups, activated, rendered, is_ready, deferred>> /\ view_group' = g
           /\ ~is_ready
  BY <1>1
<1>2. CASE UNCHANGED viewVars /\ view_group = g
  BY <1>2 DEF viewVars
<1>3. CASE /\ is_ready
           /\ view_group' = g
           /\ activated' = (activated \ {view_group}) \cup {g}
           /\ deferred' = (IF g \in rendered THEN deferred ELSE Append(deferred, render))
           /\ UNCHANGED <<screen_groups, rendered, is_ready>>
  <2>1. activated' = {g}
    BY <1>3
  <2>2. render \in Render
    BY DEF Render
  <2>3. deferred' \in Seq(Render)
    BY <1>3, <2>2
  <2>4. DeferredKnown'
    BY <1>3, <2>2, <2>3
  <2> QED
    BY <1>3, <2>1, <2>3, <2>4
<1> QED
  BY <1>1, <1>2, <1>3 DEF SetActiveGroup

\* A deferred render, whatever comes of it.
LEMMA RenderKeeps ==
    ASSUME ViewTypeOK, ViewKnown, deferred # <<>>,
           RenderSucceeds \/ RenderFails \/ RenderThrows
    PROVE  ViewTypeOK' /\ ViewKnown' /\ screen_groups' = screen_groups
<1> USE DEF ViewTypeOK, ViewKnown, DeferredKnown, OneActivated
<1> DEFINE g == Head(deferred).group
           previous == Head(deferred).previous
<1>1. /\ g \in screen_groups
      /\ previous \in screen_groups \cup {NoGroup}
      /\ is_ready
  <2>1. Head(deferred) = deferred[1] /\ 1 \in 1 .. Len(deferred)
    OBVIOUS
  <2> QED
    BY <2>1
<1>2. deferred' = Tail(deferred) /\ is_ready' = is_ready /\ screen_groups' = screen_groups
  BY DEF RenderSucceeds, RenderFails, RenderThrows
<1>3. deferred' \in Seq(Render) /\ DeferredKnown'
  BY <1>2
<1> HIDE DEF g, previous
<1>4. CASE rendered' = rendered \cup {g} /\ UNCHANGED <<view_group, activated>>
  BY <1>1, <1>2, <1>3, <1>4
<1>5. CASE UNCHANGED <<view_group, activated, rendered>>
  BY <1>1, <1>2, <1>3, <1>5
<1>6. CASE /\ view_group = g
           /\ view_group' = previous
           /\ activated' = (activated \ {g}) \cup ({previous} \ {NoGroup})
           /\ UNCHANGED rendered
  BY <1>1, <1>2, <1>3, <1>6
<1> QED
  BY <1>4, <1>5, <1>6 DEF RenderSucceeds, RenderFails, RenderThrows, g, previous

\* Another configuration.
RestartedWell ==
    /\ NavigationTypeOK' /\ ViewTypeOK' /\ GroupsAgree' /\ DeferredKnown' /\ OneActivated'
    /\ history' = <<>> /\ channel' = channel /\ active_overlay' = NoOverlay

LEMMA RestartKeeps ==
    ASSUME NavigationTypeOK, NEW c \in Configuration,
           NEW g \in c.groups \cup {NoGroup}, NEW v \in c.groups \cup {NoGroup},
           NEW on \in SUBSET ({v} \cap c.groups), NEW drawn \in SUBSET c.groups,
           NEW ready \in BOOLEAN, ~ready => on = {},
           Restarted(c.groups, g), ViewRestarted(c.groups, v, on, drawn, ready)
    PROVE  RestartedWell
<1>1. c.groups \subseteq Group
  BY ConfigurationAssumption DEF Configurations
<1>2. NavigationTypeOK'
  BY <1>1, HistoryAssumption DEF Restarted, NavigationTypeOK
<1>3. ViewTypeOK' /\ DeferredKnown' /\ OneActivated'
  BY <1>1 DEF ViewRestarted, ViewTypeOK, DeferredKnown, OneActivated
<1>4. GroupsAgree'
  BY DEF Restarted, ViewRestarted, GroupsAgree
<1> QED
  BY <1>2, <1>3, <1>4 DEF Restarted, RestartedWell

LEMMA ConfigureKeeps ==
    ASSUME NavigationTypeOK, is_ready \in BOOLEAN, NEW c \in Configuration, NEW group,
           Configure(c, group)
    PROVE  RestartedWell
<1>1. CASE c.groups = {}
  <2>1. Restarted(c.groups, NoGroup) /\ ViewRestarted(c.groups, NoGroup, {}, {}, is_ready)
    BY <1>1 DEF Configure
  <2> QED
    BY <2>1, RestartKeeps
<1>2. CASE c.groups # {} /\ is_ready
  <2> DEFINE t == Tried(c, group)
  <2>1. t \in c.groups
    BY <1>2, TriedIsAGroup
  <2> HIDE DEF t
  <2>2. CASE Restarted(c.groups, t) /\ ViewRestarted(c.groups, t, {t}, {t}, TRUE)
    BY <2>1, <2>2, RestartKeeps
  <2>3. CASE Restarted(c.groups, NoGroup) /\ ViewRestarted(c.groups, NoGroup, {}, {}, TRUE)
    BY <2>3, RestartKeeps
  <2>4. CASE Restarted(c.groups, NoGroup) /\ ViewRestarted(c.groups, t, {t}, {}, TRUE)
    BY <2>1, <2>4, RestartKeeps
  <2> QED
    BY <1>2, <2>2, <2>3, <2>4 DEF Configure, t
<1>3. CASE c.groups # {} /\ ~is_ready
  <2> DEFINE r == Recorded(c, group)
  <2>1. r \in c.groups
    BY <1>3, TriedIsAGroup
  <2> HIDE DEF r
  <2>2. CASE Restarted(c.groups, r) /\ ViewRestarted(c.groups, r, {r}, {r}, TRUE)
    BY <2>1, <2>2, RestartKeeps
  <2>3. CASE Restarted(c.groups, r) /\ ViewRestarted(c.groups, r, {}, {}, FALSE)
    BY <2>1, <2>3, RestartKeeps
  <2> QED
    BY <1>3, <2>2, <2>3 DEF Configure, r
<1> QED
  BY <1>1, <1>2, <1>3

-----------------------------------------------------------------------------
\* What the requests change: navigation, and nothing else.
Requested ==
    /\ NavigationTypeOK'
    /\ group_ids' = group_ids
    /\ active_group' \in group_ids \cup {NoGroup}
    /\ UNCHANGED <<viewVars, configuration, overlays, show>>

LEMMA RequestKeeps ==
    ASSUME Known, Requested
    PROVE  Known'
<1> USE DEF Requested, Known
<1>1. TypeOK' /\ GroupsAgree'
  BY DEF TypeOK, ViewTypeOK, GroupsAgree, viewVars
<1>2. DeferredKnown' /\ OneActivated' /\ ShowKnown'
  BY DEF DeferredKnown, OneActivated, ShowKnown, viewVars
<1> QED
  BY <1>1, <1>2

\* The requests for a group.
LEMMA GoToGroupRequested ==
    ASSUME Known, NEW g, GoToGroup(g), UNCHANGED <<viewVars, configuration, overlays, show>>
    PROVE  Requested
<1>1. NavigationTypeOK /\ <<>> \in Seq(Event)
  BY DEF Known, TypeOK
<1>2. MovesTo(g, Left, <<>>) /\ active_overlay' \in Overlay \cup {NoOverlay}
  BY <1>1 DEF GoToGroup, NavigationTypeOK
<1>3. Left \in Seq(Group) /\ Len(Left) <= HistoryDepth
  BY <1>1, LeftType
<1> QED
  BY <1>1, <1>2, <1>3, MovesToType DEF Requested

LEMMA BackRequested ==
    ASSUME Known, Back, UNCHANGED <<viewVars, configuration, overlays, show>>
    PROVE  Requested
<1>1. NavigationTypeOK /\ <<>> \in Seq(Event) /\ active_group \in group_ids \cup {NoGroup}
  BY DEF Known, TypeOK, GroupsAgree
<1>2. Front(history) \in Seq(Group) /\ Len(Front(history)) <= HistoryDepth
  BY <1>1, HistoryAssumption DEF Back, NavigationTypeOK, Front
<1>3. active_overlay' \in Overlay \cup {NoOverlay}
  BY <1>1 DEF Back, NavigationTypeOK
<1>4. CASE MovesTo(Last(history), Front(history), <<>>)
  BY <1>1, <1>2, <1>3, <1>4, MovesToType DEF Requested
<1>5. CASE history' = Front(history) /\ UNCHANGED <<group_ids, active_group, channel>>
  BY <1>1, <1>2, <1>3, <1>5 DEF Requested, NavigationTypeOK
<1> QED
  BY <1>4, <1>5 DEF Back

LEMMA GoesToGroupRequested ==
    ASSUME Known, GoesToGroup
    PROVE  Requested
<1>1. UNCHANGED <<viewVars, configuration, overlays, show>>
  BY DEF GoesToGroup
<1>2. (\E g : GoToGroup(g)) \/ Back
  BY DEF GoesToGroup, NextGroup, PreviousGroup
<1> QED
  BY <1>1, <1>2, GoToGroupRequested, BackRequested

\* The requests about overlays.
LEMMA OverlayRequested ==
    ASSUME Known, OpensOverlay \/ ClosesOverlay
    PROVE  Requested
<1>1. NavigationTypeOK /\ active_group \in group_ids \cup {NoGroup}
  BY DEF Known, TypeOK, GroupsAgree
<1>2. CASE OpensOverlay
  <2>1. PICK s \in Overlay : ShowOverlay(s)
    BY <1>2 DEF OpensOverlay
  <2>2. <<ShowOverlayEvent(s)>> \in Seq(Event)
    BY EventTypes
  <2>3. channel' \in Seq(Event)
    BY <1>1, <2>1, <2>2, PublishType DEF ShowOverlay, NavigationTypeOK
  <2> QED
    BY <1>1, <1>2, <2>1, <2>3 DEF OpensOverlay, ShowOverlay, Requested, NavigationTypeOK
<1>3. CASE ClosesOverlay
  <2>1. Closing \in Seq(Event)
    BY <1>1, ClosingType DEF NavigationTypeOK
  <2>2. channel' \in Seq(Event)
    BY <1>1, <1>3, <2>1, PublishType DEF ClosesOverlay, CloseOverlay, NavigationTypeOK
  <2> QED
    BY <1>1, <1>3, <2>2 DEF ClosesOverlay, CloseOverlay, Requested, NavigationTypeOK
<1> QED
  BY <1>2, <1>3

\* What a preview asks for.
LEMMA PreviewRequested ==
    ASSUME Known, ShowsTarget \/ ReshowsOverlay
    PROVE  Requested
<1>1. NavigationTypeOK /\ active_group \in group_ids \cup {NoGroup}
  BY DEF Known, TypeOK, GroupsAgree
<1>2. UNCHANGED <<viewVars, configuration, overlays, show>>
  BY DEF ShowsTarget, ReshowsOverlay
<1>3. Closing \in Seq(Event) /\ configuration.overlays \subseteq Overlay
  BY <1>1, ClosingType, ConfigurationAssumption
     DEF NavigationTypeOK, Known, TypeOK, Configurations
<1>4. ASSUME NEW g, MovesTo(g, Left, Closing), active_overlay' = NoOverlay
      PROVE  Requested
  <2>1. Left \in Seq(Group) /\ Len(Left) <= HistoryDepth
    BY <1>1, LeftType
  <2> QED
    BY <1>1, <1>2, <1>3, <1>4, <2>1, MovesToType DEF Requested
<1>5. CASE /\ Publish(Closing)
           /\ UNCHANGED <<group_ids, active_group, history>>
           /\ active_overlay' = NoOverlay
  <2>1. channel' \in Seq(Event)
    BY <1>1, <1>3, <1>5, PublishType DEF NavigationTypeOK
  <2> QED
    BY <1>1, <1>2, <1>5, <2>1 DEF Requested, NavigationTypeOK
<1>6. ASSUME NEW s \in Overlay,
             active_overlay' = s,
             Publish(Append(Closing, ShowOverlayEvent(s))),
             UNCHANGED <<group_ids, active_group, history>>
      PROVE  Requested
  <2>1. Append(Closing, ShowOverlayEvent(s)) \in Seq(Event)
    BY <1>3, EventTypes
  <2>2. channel' \in Seq(Event)
    BY <1>1, <1>6, <2>1, PublishType DEF NavigationTypeOK
  <2> QED
    BY <1>1, <1>2, <1>6, <2>2 DEF Requested, NavigationTypeOK
<1>7. CASE ShowsTarget
  <2>1. CASE \E g \in Group : MovesTo(g, Left, Closing) /\ active_overlay' = NoOverlay
    BY <2>1, <1>4
  <2>2. CASE \E s \in configuration.overlays :
                /\ active_overlay' = s
                /\ Publish(Append(Closing, ShowOverlayEvent(s)))
                /\ UNCHANGED <<group_ids, active_group, history>>
    BY <2>2, <1>3, <1>6
  <2> QED
    BY <2>1, <2>2, <1>5, <1>7 DEF ShowsTarget
<1>8. CASE ReshowsOverlay
  BY <1>3, <1>6, <1>8 DEF ReshowsOverlay
<1> QED
  BY <1>7, <1>8

-----------------------------------------------------------------------------
\* The event bus thread.
LEMMA TailType ==
    ASSUME channel \in Seq(Event), channel # <<>>
    PROVE  Tail(channel) \in Seq(Event) /\ Head(channel) \in Event
  OBVIOUS

LEMMA HandleShowGroupKeeps ==
    ASSUME Known, HandleShowGroup
    PROVE  Known' /\ active_group' = active_group
<1> DEFINE g == Head(channel).target
<1>1. /\ g = active_group
      /\ SetActiveGroup(g)
      /\ active_group' = view_group'
      /\ channel' = Tail(channel)
      /\ UNCHANGED <<group_ids, active_overlay, history, configuration, overlays, show>>
  BY DEF HandleShowGroup
<1>2. ViewTypeOK /\ ViewKnown /\ NavigationTypeOK
  BY DEF Known, GroupsAgree, ViewKnown, TypeOK
<1>3. Head(channel) \in Event /\ channel' \in Seq(Event) /\ Head(channel).action = "ShowGroup"
  BY <1>1, <1>2, TailType DEF HandleShowGroup, Handles, NavigationTypeOK
<1>4. g \in Group
  BY <1>3 DEF Event
<1>5. g \in screen_groups
  BY <1>1, <1>4, IdAssumption DEF Known, GroupsAgree
<1>6. ViewTypeOK' /\ ViewKnown' /\ view_group' = g /\ screen_groups' = screen_groups
  BY <1>1, <1>2, <1>5, SetActiveGroupKeeps
<1> HIDE DEF g
<1>7. NavigationTypeOK' /\ active_group' = active_group
  BY <1>1, <1>2, <1>3, <1>4, <1>6 DEF NavigationTypeOK
<1>8. TypeOK'
  BY <1>1, <1>6, <1>7 DEF TypeOK, Known
<1>9. GroupsAgree' /\ ShowKnown'
  BY <1>1, <1>5, <1>6, <1>7 DEF GroupsAgree, ShowKnown, Known
<1> QED
  BY <1>6, <1>7, <1>8, <1>9 DEF Known, ViewKnown

\* The handlers that leave the groups alone.
LEMMA HandleOverlayKeeps ==
    ASSUME Known, HandleShowOverlay \/ HandleOverlayFails \/ HandleCloseOverlay \/ HandleStale
    PROVE  Known' /\ active_group' = active_group
<1>1. /\ UNCHANGED <<group_ids, active_group, history, viewVars, configuration, show>>
      /\ channel # <<>>
  BY DEF HandleShowOverlay, HandleOverlayFails, HandleCloseOverlay, HandleStale, Handles
<1>2. channel \in Seq(Event) /\ overlays \in Seq(Overlay) /\ Len(overlays) <= MaxDepth
      /\ active_overlay \in Overlay \cup {NoOverlay} /\ NavigationTypeOK
  BY DEF Known, TypeOK, NavigationTypeOK
<1>3. Tail(channel) \in Seq(Event) /\ Head(channel) \in Event
  BY <1>1, <1>2, TailType
<1>4. /\ channel' \in Seq(Event)
      /\ active_overlay' \in Overlay \cup {NoOverlay}
      /\ overlays' \in Seq(Overlay) /\ Len(overlays') <= MaxDepth
  <2>1. CASE HandleShowOverlay
    <3>1. Head(channel).target \in Overlay /\ Len(overlays) < MaxDepth
      BY <1>3, <2>1 DEF HandleShowOverlay, Handles, CanPush, Event
    <3> QED
      BY <1>2, <1>3, <2>1, <3>1, BoundAssumption DEF HandleShowOverlay
  <2>2. CASE HandleOverlayFails
    <3>1. Head(channel).target \in Overlay
      BY <1>3, <2>2 DEF HandleOverlayFails, Handles, Event
    <3>2. CloseOverlayEvent(active_overlay) \in Event
      BY <2>2, <3>1, EventTypes DEF HandleOverlayFails
    <3> QED
      BY <1>2, <1>3, <2>2, <3>2 DEF HandleOverlayFails
  <2>3. CASE HandleCloseOverlay
    BY <1>2, <1>3, <2>3, BoundAssumption DEF HandleCloseOverlay, Front
  <2>4. CASE HandleStale
    BY <1>2, <1>3, <2>4 DEF HandleStale
  <2> QED
    BY <2>1, <2>2, <2>3, <2>4
<1>5. TypeOK'
  BY <1>1, <1>4 DEF Known, TypeOK, NavigationTypeOK, ViewTypeOK, viewVars
<1>6. GroupsAgree' /\ DeferredKnown' /\ OneActivated' /\ ShowKnown'
  BY <1>1 DEF Known, GroupsAgree, DeferredKnown, OneActivated, ShowKnown, viewVars
<1> QED
  BY <1>1, <1>5, <1>6 DEF Known

\* The render work queue.
LEMMA DeferredRenderKeeps ==
    ASSUME Known, DeferredRender
    PROVE  Known'
<1>1. ViewTypeOK /\ ViewKnown /\ deferred # <<>> /\ (RenderSucceeds \/ RenderFails \/ RenderThrows)
  BY DEF Known, GroupsAgree, ViewKnown, TypeOK, DeferredRender
<1>2. ViewTypeOK' /\ ViewKnown' /\ screen_groups' = screen_groups
  BY <1>1, RenderKeeps
<1>3. UNCHANGED <<navigationVars, configuration, overlays, show>>
  BY DEF DeferredRender
<1>4. TypeOK'
  BY <1>2, <1>3 DEF Known, TypeOK, NavigationTypeOK, navigationVars
<1> QED
  BY <1>2, <1>3, <1>4 DEF Known, GroupsAgree, ViewKnown, ShowKnown, navigationVars

LEMMA ReconfigureKeeps ==
    ASSUME Known, NEW c \in Configuration, NEW group, Reconfigure(c, group),
           show' \in Show, ShowKnown'
    PROVE  Known' /\ RestartedWell /\ configuration' = c
<1>1. RestartedWell
  BY ConfigureKeeps DEF Reconfigure, Known, TypeOK, ViewTypeOK
<1> QED
  BY <1>1, BoundAssumption DEF Reconfigure, RestartedWell, Known, TypeOK

\* ShowConfiguration().
LEMMA ShowTypes ==
    ASSUME show \in Show, show.at # "idle"
    PROVE  \E at \in {"group_read", "overlay_read", "rebuilt", "asked"}, c \in Configuration,
              g \in Group \cup {NoGroup}, s \in Overlay \cup {NoOverlay} :
                show = [at |-> at, config |-> c, group |-> g, overlay |-> s]
  BY DEF Show, NotShowing

LEMMA ShowStepKeeps ==
    ASSUME Known, ShowReadsGroup \/ ShowReadsOverlay \/ ShowAsksOverlay \/ ShowPublishes
    PROVE  Known' /\ active_group' = active_group
<1>1. NavigationTypeOK /\ show \in Show /\ active_group \in Group \cup {NoGroup}
  BY DEF Known, TypeOK, NavigationTypeOK
<1>2. UNCHANGED <<group_ids, active_group, history, viewVars, configuration, overlays>>
  BY DEF ShowReadsGroup, ShowReadsOverlay, ShowAsksOverlay, ShowPublishes, AsksOverlay,
         navigationVars
<1>3. NavigationTypeOK' /\ show' \in Show /\ ShowKnown'
  <2>1. CASE ShowReadsGroup
    BY <1>1, <2>1 DEF ShowReadsGroup, Show, ShowKnown, navigationVars, NavigationTypeOK
  <2>2. CASE ShowReadsOverlay
    <3>1. PICK at \in {"group_read", "overlay_read", "rebuilt", "asked"}, c \in Configuration,
               g \in Group \cup {NoGroup}, s \in Overlay \cup {NoOverlay} :
                 show = [at |-> at, config |-> c, group |-> g, overlay |-> s]
      BY <1>1, <2>2, ShowTypes DEF ShowReadsOverlay
    <3>2. PICK s2 \in Overlay \cup {NoOverlay} :
                 show' = [show EXCEPT !.at = "overlay_read", !.overlay = s2]
      BY <1>1, <2>2 DEF ShowReadsOverlay, NavigationTypeOK
    <3>3. show' = [at |-> "overlay_read", config |-> c, group |-> g, overlay |-> s2]
      BY <3>1, <3>2
    <3>4. show' \in Show /\ show'.at = "overlay_read"
      BY <3>3 DEF Show
    <3> QED
      BY <1>1, <2>2, <3>4 DEF ShowReadsOverlay, ShowKnown, navigationVars, NavigationTypeOK
  <2>3. CASE ShowAsksOverlay
    <3>1. show.overlay \in Overlay
      BY <2>3 DEF ShowAsksOverlay, Known, ShowKnown
    <3>2. show' \in Show /\ ShowKnown'
      <4>1. CASE show' = NotShowing
        BY <4>1 DEF Show, ShowKnown, NotShowing
      <4>2. CASE show' = [show EXCEPT !.at = "asked"]
        BY <1>1, <2>3, <3>1, <4>2, ShowTypes DEF ShowAsksOverlay, Show, ShowKnown
      <4> QED
        BY <2>3, <4>1, <4>2 DEF ShowAsksOverlay
    <3>3. active_overlay' \in Overlay \cup {NoOverlay} /\ channel' = channel
      BY <1>1, <2>3, <3>1 DEF ShowAsksOverlay, AsksOverlay, NavigationTypeOK, navigationVars
    <3> QED
      BY <1>1, <1>2, <3>2, <3>3 DEF NavigationTypeOK
  <2>4. CASE ShowPublishes
    <3>1. show.overlay \in Overlay
      BY <2>4 DEF ShowPublishes, Known, ShowKnown
    <3>2. <<ShowOverlayEvent(show.overlay)>> \in Seq(Event)
      BY <3>1, EventTypes
    <3>3. channel' \in Seq(Event)
      BY <1>1, <2>4, <3>2, PublishType DEF ShowPublishes, NavigationTypeOK
    <3> QED
      BY <1>1, <2>4, <3>3 DEF ShowPublishes, NavigationTypeOK, Show, ShowKnown, NotShowing
  <2> QED
    BY <2>1, <2>2, <2>3, <2>4
<1>4. TypeOK' /\ GroupsAgree' /\ DeferredKnown' /\ OneActivated'
  BY <1>2, <1>3 DEF Known, TypeOK, ViewTypeOK, GroupsAgree, DeferredKnown, OneActivated, viewVars
<1> QED
  BY <1>2, <1>3, <1>4 DEF Known

\* A rebuild, by a store or by ShowConfiguration().
LEMMA RebuildKeeps ==
    ASSUME Known, Rebuild \/ ShowRebuilds
    PROVE  Known' /\ RestartedWell
<1>1. CASE Rebuild
  <2>1. show' \in Show /\ ShowKnown'
    BY <1>1 DEF Rebuild, Known, TypeOK, ShowKnown
  <2> QED
    BY <1>1, <2>1, ReconfigureKeeps DEF Rebuild
<1>2. CASE ShowRebuilds
  <2>1. PICK at \in {"group_read", "overlay_read", "rebuilt", "asked"}, c \in Configuration,
             g \in Group \cup {NoGroup}, s \in Overlay \cup {NoOverlay} :
               show = [at |-> at, config |-> c, group |-> g, overlay |-> s]
    BY <1>2, ShowTypes DEF ShowRebuilds, Known, TypeOK
  <2>2. show' \in Show /\ ShowKnown'
    <3>1. CASE show' = NotShowing
      BY <3>1 DEF Show, ShowKnown, NotShowing
    <3>2. CASE s # NoOverlay /\ show' = [show EXCEPT !.at = "rebuilt"]
      BY <2>1, <3>2 DEF Show, ShowKnown
    <3> QED
      BY <1>2, <2>1, <3>1, <3>2 DEF ShowRebuilds
  <2>3. Reconfigure(c, g)
    BY <1>2, <2>1 DEF ShowRebuilds
  <2> QED
    BY <2>2, <2>3, ReconfigureKeeps
<1> QED
  BY <1>1, <1>2

-----------------------------------------------------------------------------
LEMMA InitKnown == Init => Known
<1> SUFFICES ASSUME Init PROVE Known
  OBVIOUS
<1>1. /\ configuration \in Configuration
      /\ configuration.groups \subseteq Group
      /\ group_ids = configuration.groups
      /\ screen_groups = group_ids
      /\ show = NotShowing
  BY ConfigurationAssumption DEF Init, Configurations
<1>2. active_group \in group_ids \cup {NoGroup}
  BY <1>1, TriedIsAGroup DEF Init
<1>3. NavigationTypeOK
  BY <1>1, <1>2, HistoryAssumption DEF Init, NavigationTypeOK
<1>4. /\ view_group = active_group
      /\ activated = (IF is_ready THEN {active_group} ELSE {})
      /\ rendered = activated
      /\ deferred = <<>>
      /\ is_ready \in BOOLEAN
      /\ is_ready => active_group # NoGroup
  BY DEF Init
<1>5. ViewTypeOK /\ GroupsAgree /\ DeferredKnown /\ OneActivated
  BY <1>1, <1>2, <1>4 DEF ViewTypeOK, GroupsAgree, DeferredKnown, OneActivated
<1>6. TypeOK
  BY <1>1, <1>3, <1>5, BoundAssumption DEF Init, TypeOK, Show
<1> QED
  BY <1>1, <1>5, <1>6 DEF Known, ShowKnown, NotShowing

\* Every step is one of these.
LEMMA NextCases ==
    Next => \/ GoesToGroup
            \/ OpensOverlay \/ ClosesOverlay \/ ShowsTarget \/ ReshowsOverlay
            \/ HandleShowGroup
            \/ HandleShowOverlay \/ HandleOverlayFails \/ HandleCloseOverlay \/ HandleStale
            \/ DeferredRender
            \/ Rebuild \/ ShowRebuilds
            \/ ShowReadsGroup \/ ShowReadsOverlay \/ ShowAsksOverlay \/ ShowPublishes
  BY DEF Next, HandleEvent, ShowStep

LEMMA KnownStep == Known /\ [Next]_vars => Known'
<1> SUFFICES ASSUME Known, [Next]_vars PROVE Known'
  OBVIOUS
<1>1. CASE UNCHANGED vars
  BY <1>1 DEF Known, TypeOK, NavigationTypeOK, ViewTypeOK, GroupsAgree, DeferredKnown,
              OneActivated, ShowKnown, vars, navigationVars, viewVars
<1>2. CASE Next
  BY <1>2, NextCases, GoesToGroupRequested, OverlayRequested, PreviewRequested, RequestKeeps,
     HandleShowGroupKeeps, HandleOverlayKeeps, DeferredRenderKeeps, RebuildKeeps, ShowStepKeeps
<1> QED
  BY <1>1, <1>2

\* Navigation and the view know the same groups, what waits refers to groups there are, and one
\* group at most is to be shown: Reset(), Clear() and Configure() replace all of it together.
THEOREM KnownAlways == Spec => []Known
  BY InitKnown, KnownStep, PTL DEF Spec

\* Every variable keeps to its type: what navigation, the view and the overlay host hold
\* are ids that exist, and history and overlays stay within their depths.
THEOREM NavigationTypeCorrect == Spec => []TypeOK
<1>1. Known => TypeOK
  BY DEF Known
<1> QED
  BY <1>1, KnownAlways, PTL

\* No two groups are on the screen at once: SetActiveGroup(), deferred renders, roll backs
\* and rebuilds leave only the view's group activated.
THEOREM OneGroupVisibleHolds == Spec => []OneGroupVisible
<1>1. Known => OneGroupVisible
  BY DEF Known, OneActivated, OneGroupVisible, Visible
<1> QED
  BY <1>1, KnownAlways, PTL

-----------------------------------------------------------------------------
\* HistoryLeadsBack, with its path taken apart, and: no active group, no history.
HistoryKnown ==
    /\ \A i \in 1 .. Len(history) : history[i] \in group_ids
    /\ \A i \in 1 .. Len(history) - 1 : history[i] # history[i + 1]
    /\ history # <<>> => active_group # NoGroup /\ history[Len(history)] # active_group

LEMMA HistoryKnownLeadsBack ==
    ASSUME Known, HistoryKnown
    PROVE  HistoryLeadsBack
<1>1. /\ history \in Seq(Group) /\ active_group \in Group \cup {NoGroup}
      /\ Len(history) <= HistoryDepth
  BY DEF Known, TypeOK, NavigationTypeOK
<1>2. CASE active_group = NoGroup
  BY <1>1, <1>2 DEF HistoryKnown, HistoryLeadsBack
<1>3. CASE active_group # NoGroup
  <2> DEFINE path == Append(history, active_group)
  <2>1. /\ Len(path) = Len(history) + 1
        /\ \A i \in 1 .. Len(history) : path[i] = history[i]
        /\ path[Len(history) + 1] = active_group
    BY <1>1, <1>3
  <2>2. \A i \in 1 .. Len(path) - 1 : path[i] # path[i + 1]
    <3> SUFFICES ASSUME NEW i \in 1 .. Len(history) PROVE path[i] # path[i + 1]
      BY <1>1, <2>1
    <3>1. CASE i = Len(history)
      BY <1>1, <2>1, <3>1 DEF HistoryKnown
    <3>2. CASE i < Len(history)
      BY <1>1, <2>1, <3>2 DEF HistoryKnown
    <3> QED
      BY <1>1, <3>1, <3>2
  <2> QED
    BY <1>1, <1>3, <2>2 DEF HistoryKnown, HistoryLeadsBack
<1> QED
  BY <1>2, <1>3

\* Leaving a group for another.
LEMMA LeavingKeepsHistory ==
    ASSUME Known, HistoryKnown, NEW g \in group_ids, g # active_group,
           group_ids' = group_ids, active_group' = g, history' = Left
    PROVE  HistoryKnown'
<1>1. /\ history \in Seq(Group) /\ Len(history) <= HistoryDepth
      /\ active_group \in group_ids \cup {NoGroup} /\ group_ids \subseteq Group /\ g \in Group
  BY DEF Known, TypeOK, NavigationTypeOK, GroupsAgree
<1>2. CASE active_group = NoGroup
  <2>1. history' = <<>>
    BY <1>2 DEF Left, HistoryKnown
  <2> QED
    BY <2>1 DEF HistoryKnown
<1>3. CASE active_group # NoGroup
  <2> DEFINE kept == IF Len(history) = HistoryDepth THEN Tail(history) ELSE history
  <2>1. history' = Append(kept, active_group)
    BY <1>3 DEF Left, Pushed
  <2>2. /\ kept \in Seq(Group)
        /\ \A i \in 1 .. Len(kept) : kept[i] \in group_ids
        /\ \A i \in 1 .. Len(kept) - 1 : kept[i] # kept[i + 1]
        /\ kept # <<>> => kept[Len(kept)] # active_group
    BY <1>1, HistoryAssumption DEF HistoryKnown
  <2> HIDE DEF kept
  <2>3. /\ Len(history') = Len(kept) + 1
        /\ \A i \in 1 .. Len(kept) : history'[i] = kept[i]
        /\ history'[Len(kept) + 1] = active_group
        /\ Len(kept) \in Nat
    BY <1>1, <1>3, <2>1, <2>2
  <2>4. \A i \in 1 .. Len(history') : history'[i] \in group_ids'
    BY <1>1, <1>3, <2>2, <2>3
  <2>5. \A i \in 1 .. Len(history') - 1 : history'[i] # history'[i + 1]
    <3> SUFFICES ASSUME NEW i \in 1 .. Len(kept) PROVE history'[i] # history'[i + 1]
      BY <2>3
    <3>1. CASE i = Len(kept)
      BY <2>2, <2>3, <3>1
    <3>2. CASE i < Len(kept)
      BY <2>2, <2>3, <3>2
    <3> QED
      BY <2>3, <3>1, <3>2
  <2>6. active_group' # NoGroup /\ history'[Len(history')] # active_group'
    BY <1>1, <2>3, IdAssumption
  <2> QED
    BY <2>4, <2>5, <2>6 DEF HistoryKnown
<1> QED
  BY <1>2, <1>3

LEMMA FrontProperties ==
    ASSUME NEW S, NEW s \in Seq(S), s # <<>>
    PROVE  /\ Front(s) \in Seq(S)
           /\ Len(Front(s)) = Len(s) - 1
           /\ \A i \in 1 .. Len(s) - 1 : Front(s)[i] = s[i]
<1>1. Len(s) \in Nat /\ Len(s) # 0
  OBVIOUS
<1>2. \A i \in 1 .. Len(s) - 1 : s[i] \in S
  BY <1>1
<1> DEFINE n == Len(s) - 1
<1>3. n \in Nat /\ 1 \in Int /\ \A i \in 1 .. n : s[i] \in S
  BY <1>1, <1>2
<1> HIDE DEF n
<1>4. /\ SubSeq(s, 1, n) \in Seq(S)
      /\ Len(SubSeq(s, 1, n)) = IF 1 <= n THEN n - 1 + 1 ELSE 0
      /\ \A i \in 1 .. n - 1 + 1 : SubSeq(s, 1, n)[i] = s[1 + i - 1]
  BY <1>3, SubSeqProperties
<1>5. \A i \in 1 .. n : i \in 1 .. n - 1 + 1 /\ 1 + i - 1 = i
  BY <1>3
<1>6. n = IF 1 <= n THEN n - 1 + 1 ELSE 0
  BY <1>3
<1>7. Front(s) = SubSeq(s, 1, n)
  BY DEF Front, n
<1>8. n = Len(s) - 1
  BY DEF n
<1> QED
  BY <1>4, <1>5, <1>6, <1>7, <1>8, Zenon

\* Going back: the last entry is the group that becomes active.
LEMMA BackKeepsHistory ==
    ASSUME Known, HistoryKnown, Back
    PROVE  HistoryKnown'
<1>1. /\ history \in Seq(Group) /\ history # <<>> /\ group_ids' = group_ids
      /\ history' = Front(history) /\ group_ids \subseteq Group
  BY DEF Back, MovesTo, Known, TypeOK, NavigationTypeOK
<1>2. active_group' = Last(history) /\ Last(history) \in group_ids
  BY <1>1 DEF Back, MovesTo, HistoryKnown, Last
<1>3. /\ Len(history') = Len(history) - 1
      /\ \A i \in 1 .. Len(history) - 1 : history'[i] = history[i]
  BY <1>1, FrontProperties
<1> QED
  BY <1>1, <1>2, <1>3, IdAssumption DEF HistoryKnown, Last

LEMMA HistoryInit == Init => HistoryKnown
  BY DEF Init, HistoryKnown

LEMMA HistoryStep == Known /\ HistoryKnown /\ [Next]_vars => HistoryKnown'
<1> SUFFICES ASSUME Known, HistoryKnown, [Next]_vars PROVE HistoryKnown'
  OBVIOUS
<1>1. CASE UNCHANGED <<group_ids, active_group, history>>
  BY <1>1 DEF HistoryKnown
<1>2. CASE history' = <<>>
  BY <1>2 DEF HistoryKnown
<1>3. CASE GoesToGroup
  <2>1. CASE \E g : GoToGroup(g)
    BY <2>1, LeavingKeepsHistory DEF GoToGroup, MovesTo
  <2>2. CASE Back
    BY <2>2, BackKeepsHistory
  <2> QED
    BY <1>3, <2>1, <2>2 DEF GoesToGroup, NextGroup, PreviousGroup
<1>4. CASE ShowsTarget
  <2>1. CASE \E g : MovesTo(g, Left, Closing)
    BY <2>1, LeavingKeepsHistory DEF MovesTo
  <2>2. CASE UNCHANGED <<group_ids, active_group, history>>
    BY <2>2, <1>1
  <2> QED
    BY <1>4, <2>1, <2>2 DEF ShowsTarget
<1>5. CASE HandleShowGroup
  BY <1>5, <1>1, HandleShowGroupKeeps DEF HandleShowGroup
<1>6. CASE Rebuild \/ ShowRebuilds
  BY <1>6, <1>2, RebuildKeeps DEF RestartedWell
<1>7. CASE \/ UNCHANGED vars
           \/ OpensOverlay \/ ClosesOverlay \/ ReshowsOverlay
           \/ HandleShowOverlay \/ HandleOverlayFails \/ HandleCloseOverlay \/ HandleStale
           \/ DeferredRender
           \/ ShowReadsGroup \/ ShowReadsOverlay \/ ShowAsksOverlay \/ ShowPublishes
  <2>1. UNCHANGED <<group_ids, active_group, history>>
    BY <1>7 DEF vars, navigationVars, OpensOverlay, ShowOverlay, ClosesOverlay, CloseOverlay,
         ReshowsOverlay, HandleShowOverlay, HandleOverlayFails, HandleCloseOverlay, HandleStale,
         DeferredRender, ShowReadsGroup, ShowReadsOverlay, ShowAsksOverlay, AsksOverlay,
         ShowPublishes
  <2> QED
    BY <2>1, <1>1
<1> QED
  BY <1>3, <1>4, <1>5, <1>6, <1>7, NextCases

\* The history holds groups there are, each another one than the next, and none without an
\* active group: PushHistory(), Back() and Reset() together.
THEOREM HistoryKnownAlways == Spec => []HistoryKnown
  BY KnownAlways, HistoryInit, HistoryStep, PTL DEF Spec

\* Whatever rebuilds come in between, Back is never stuck on an entry: each is a group there
\* is, and another one than the group before it.
THEOREM HistoryLeadsBackHolds == Spec => []HistoryLeadsBack
<1>1. Known /\ HistoryKnown => HistoryLeadsBack
  BY HistoryKnownLeadsBack
<1> QED
  BY <1>1, KnownAlways, HistoryKnownAlways, PTL

-----------------------------------------------------------------------------
(***************************************************************************)
(* That the screen follows what was asked for last.                        *)
(***************************************************************************)
\* A request makes the channel longer, and handling an event makes it shorter.
LEMMA MovesToPublishes ==
    ASSUME channel \in Seq(Event), NEW g \in Group, NEW past, NEW before \in Seq(Event),
           MovesTo(g, past, before)
    PROVE  channel' = channel \o Append(before, ShowGroupEvent(g))
           /\ Len(channel') > Len(channel)
<1>1. channel' = channel \o Append(before, ShowGroupEvent(g))
  BY DEF MovesTo, Publish
<1>2. Append(before, ShowGroupEvent(g)) \in Seq(Event)
      /\ Len(Append(before, ShowGroupEvent(g))) = Len(before) + 1
  BY EventTypes
<1> QED
  BY <1>1, <1>2

LEMMA AskedGroupStep ==
    ASSUME Known, [Next]_vars, channel # <<>>, channel' = Tail(channel)
    PROVE  active_group' = active_group
<1>1. /\ channel \in Seq(Event) /\ group_ids \subseteq Group /\ Closing \in Seq(Event)
      /\ <<>> \in Seq(Event)
  BY ClosingType DEF Known, TypeOK, NavigationTypeOK
<1>2. ~(Len(channel') > Len(channel)) /\ channel' # channel
  BY <1>1
<1>3. CASE GoesToGroup
  <2>1. ~(\E g, past : MovesTo(g, past, <<>>))
    BY <1>1, <1>2, MovesToPublishes DEF MovesTo
  <2> QED
    BY <1>2, <1>3, <2>1 DEF GoesToGroup, GoToGroup, NextGroup, PreviousGroup, Back
<1>4. CASE ShowsTarget
  <2>1. ~(\E g, past : MovesTo(g, past, Closing))
    BY <1>1, <1>2, MovesToPublishes DEF MovesTo
  <2> QED
    BY <1>4, <2>1 DEF ShowsTarget
<1>5. CASE Rebuild \/ ShowRebuilds
  BY <1>2, <1>5, RebuildKeeps DEF RestartedWell
<1>6. CASE \/ HandleShowGroup \/ HandleShowOverlay \/ HandleOverlayFails \/ HandleCloseOverlay
           \/ HandleStale
           \/ ShowReadsGroup \/ ShowReadsOverlay \/ ShowAsksOverlay \/ ShowPublishes
  BY <1>6, HandleShowGroupKeeps, HandleOverlayKeeps, ShowStepKeeps
<1>7. CASE OpensOverlay \/ ClosesOverlay \/ ReshowsOverlay \/ DeferredRender \/ UNCHANGED vars
  BY <1>7 DEF OpensOverlay, ShowOverlay, ClosesOverlay, CloseOverlay, ReshowsOverlay,
              DeferredRender, vars, navigationVars
<1> QED
  BY <1>3, <1>4, <1>5, <1>6, <1>7, NextCases

\* Handling an event never changes the group that was asked for last: the view follows the
\* requests, and its reconciliation with the service takes none of them back.
THEOREM AskedGroupStandsHolds == Spec => AskedGroupStands
<1>1. Known /\ [Next]_vars
        => [channel # <<>> /\ channel' = Tail(channel) => active_group' = active_group]_vars
  BY AskedGroupStep
<1> QED
  BY <1>1, KnownAlways, PTL DEF Spec, AskedGroupStands

-----------------------------------------------------------------------------
\* The overlay that navigation tracks is about to be asked for, or its event is on its way
\* with no close behind it, or it is on top with no close on its way.
Closes(i) == channel[i].action = "CloseOverlay"

AboutToBeAsked == show.at = "asked" /\ show.overlay = active_overlay

OnItsWay ==
    \E i \in 1 .. Len(channel) :
        /\ channel[i] = ShowOverlayEvent(active_overlay)
        /\ \A j \in i .. Len(channel) : ~Closes(j)

OnTop ==
    /\ overlays # <<>>
    /\ Last(overlays) = active_overlay
    /\ \A j \in 1 .. Len(channel) : ~Closes(j)

OverlayFollows == active_overlay # NoOverlay => AboutToBeAsked \/ OnItsWay \/ OnTop

\* Events that close nothing, published behind the others.
LEMMA AppendedFollows ==
    ASSUME channel \in Seq(Event), NEW more \in Seq(Event), channel' = channel \o more,
           \A j \in 1 .. Len(more) : more[j].action # "CloseOverlay",
           UNCHANGED <<active_overlay, overlays>>
    PROVE  (OnItsWay => OnItsWay') /\ (OnTop => OnTop')
<1>1. /\ Len(channel') = Len(channel) + Len(more)
      /\ \A j \in 1 .. Len(channel) : channel'[j] = channel[j]
      /\ \A j \in Len(channel) + 1 .. Len(channel') : channel'[j] = more[j - Len(channel)]
  OBVIOUS
<1>2. \A j \in 1 .. Len(channel') : channel'[j].action = "CloseOverlay"
          => j \in 1 .. Len(channel) /\ Closes(j)
  BY <1>1 DEF Closes
<1>3. OnItsWay => OnItsWay'
  BY <1>1, <1>2 DEF OnItsWay, Closes
<1>4. OnTop => OnTop'
  BY <1>1, <1>2 DEF OnTop, Closes
<1> QED
  BY <1>3, <1>4

LEMMA PublishFollows ==
    ASSUME channel \in Seq(Event), OverlayFollows,
           NEW more \in Seq(Event), channel' = channel \o more,
           \A j \in 1 .. Len(more) : more[j].action # "CloseOverlay",
           UNCHANGED <<active_overlay, overlays, show>>
    PROVE  OverlayFollows'
  BY AppendedFollows DEF OverlayFollows, AboutToBeAsked

\* The request for the overlay that is tracked from now on, published last.
LEMMA AskedLast ==
    ASSUME channel \in Seq(Event), NEW before \in Seq(Event), NEW s \in Overlay,
           channel' = channel \o Append(before, ShowOverlayEvent(s)), active_overlay' = s
    PROVE  OverlayFollows'
<1> DEFINE e == ShowOverlayEvent(s)
           n == Len(channel) + Len(before) + 1
<1>1. e \in Event /\ e.action # "CloseOverlay"
  BY EventTypes DEF ShowOverlayEvent
<1> HIDE DEF e
<1>2. Append(before, e) \in Seq(Event) /\ Len(Append(before, e)) = Len(before) + 1
      /\ Append(before, e)[Len(before) + 1] = e
  BY <1>1
<1>3. Len(channel') = n /\ channel'[n] = e /\ n \in Nat \ {0}
  BY <1>2 DEF e
<1> HIDE DEF n
<1>4. \A j \in n .. Len(channel') : j = n
  BY <1>3
<1>5. OnItsWay'
  BY <1>1, <1>3, <1>4 DEF OnItsWay, Closes, e
<1> QED
  BY <1>5 DEF OverlayFollows

\* An event on its way that is not the first stays on its way when the first goes.
LEMMA TailOnItsWay ==
    ASSUME channel \in Seq(Event), channel' = Tail(channel), active_overlay' = active_overlay,
           NEW i \in 2 .. Len(channel),
           channel[i] = ShowOverlayEvent(active_overlay),
           \A j \in i .. Len(channel) : ~Closes(j)
    PROVE  OnItsWay'
<1>1. /\ channel # <<>>
      /\ Len(channel') = Len(channel) - 1
      /\ \A j \in 1 .. Len(channel') : channel'[j] = channel[j + 1]
  OBVIOUS
<1>2. i - 1 \in 1 .. Len(channel')
  BY <1>1
<1>3. channel'[i - 1] = ShowOverlayEvent(active_overlay)'
  BY <1>1, <1>2 DEF ShowOverlayEvent
<1>4. \A j \in i - 1 .. Len(channel') : channel'[j].action # "CloseOverlay"
  BY <1>1, <1>2 DEF Closes
<1> QED
  BY <1>2, <1>3, <1>4 DEF OnItsWay, Closes

\* Only the first event goes, and it is no close.
LEMMA TailFollows ==
    ASSUME channel \in Seq(Event), channel # <<>>, OverlayFollows,
           Head(channel) # ShowOverlayEvent(active_overlay), ~Closes(1),
           channel' = Tail(channel),
           UNCHANGED <<active_overlay, overlays, show>>
    PROVE  OverlayFollows'
<1>1. /\ Len(channel') = Len(channel) - 1
      /\ \A j \in 1 .. Len(channel') : channel'[j] = channel[j + 1]
      /\ channel[1] = Head(channel)
      /\ Len(channel) \in Nat \ {0}
  OBVIOUS
<1>2. ASSUME OnItsWay PROVE OnItsWay'
  <2>1. PICK i \in 1 .. Len(channel) :
               /\ channel[i] = ShowOverlayEvent(active_overlay)
               /\ \A j \in i .. Len(channel) : ~Closes(j)
    BY <1>2 DEF OnItsWay
  <2>2. i # 1
    BY <1>1, <2>1
  <2> QED
    BY <1>1, <2>1, <2>2, TailOnItsWay
<1>3. OnTop => OnTop'
  BY <1>1 DEF OnTop, Closes
<1>4. AboutToBeAsked => AboutToBeAsked'
  BY DEF AboutToBeAsked
<1> QED
  BY <1>2, <1>3, <1>4 DEF OverlayFollows

LEMMA HandlersFollow ==
    ASSUME Known, OverlayFollows,
           \/ HandleShowGroup \/ HandleShowOverlay \/ HandleOverlayFails \/ HandleCloseOverlay
           \/ HandleStale
    PROVE  OverlayFollows'
<1>1. channel \in Seq(Event) /\ overlays \in Seq(Overlay)
      /\ active_overlay \in Overlay \cup {NoOverlay}
  BY DEF Known, TypeOK, NavigationTypeOK
<1>2. channel # <<>> /\ Head(channel) = channel[1] /\ 1 \in 1 .. Len(channel)
  BY <1>1 DEF HandleShowGroup, HandleShowOverlay, HandleOverlayFails, HandleCloseOverlay,
              HandleStale, Handles
<1>3. CASE HandleShowGroup \/ HandleStale
  <2>1. /\ channel' = Tail(channel)
        /\ UNCHANGED <<active_overlay, overlays, show>>
        /\ \/ Head(channel).action = "ShowGroup"
           \/ /\ Head(channel).action = "ShowOverlay"
              /\ Head(channel).target # active_overlay
    BY <1>3 DEF HandleShowGroup, HandleStale, Handles
  <2>2. ~Closes(1) /\ Head(channel) # ShowOverlayEvent(active_overlay)
    BY <1>2, <2>1 DEF Closes, ShowOverlayEvent
  <2> QED
    BY <1>1, <1>2, <2>1, <2>2, TailFollows
<1>4. CASE HandleShowOverlay
  <2> DEFINE s == Head(channel).target
  <2>1. /\ s = active_overlay /\ s \in Overlay
        /\ overlays' = Append(overlays, s)
        /\ channel' = Tail(channel)
        /\ UNCHANGED <<active_overlay, show>>
        /\ Head(channel).action = "ShowOverlay"
    <3>1. Head(channel) \in Event
      BY <1>1, <1>2
    <3> QED
      BY <1>4, <3>1 DEF HandleShowOverlay, Handles, Event
  <2> HIDE DEF s
  <2>2. /\ Len(channel') = Len(channel) - 1
        /\ \A j \in 1 .. Len(channel') : channel'[j] = channel[j + 1]
    BY <1>1, <1>2, <2>1
  <2>3. overlays' # <<>> /\ overlays'[Len(overlays')] = active_overlay'
    BY <1>1, <2>1
  <2>4. CASE AboutToBeAsked
    BY <2>1, <2>4 DEF AboutToBeAsked, OverlayFollows
  <2>5. CASE \A j \in 1 .. Len(channel) : ~Closes(j)
    BY <1>1, <2>2, <2>3, <2>5 DEF OnTop, OverlayFollows, Closes, Last
  <2>6. CASE \E i \in 2 .. Len(channel) :
                /\ channel[i] = ShowOverlayEvent(active_overlay)
                /\ \A j \in i .. Len(channel) : ~Closes(j)
    <3>1. PICK i \in 2 .. Len(channel) :
                 /\ channel[i] = ShowOverlayEvent(active_overlay)
                 /\ \A j \in i .. Len(channel) : ~Closes(j)
      BY <2>6
    <3> QED
      BY <1>1, <2>1, <3>1, TailOnItsWay DEF OverlayFollows
  <2>7. OnItsWay => \/ \A j \in 1 .. Len(channel) : ~Closes(j)
                    \/ \E i \in 2 .. Len(channel) :
                          /\ channel[i] = ShowOverlayEvent(active_overlay)
                          /\ \A j \in i .. Len(channel) : ~Closes(j)
    <3> SUFFICES ASSUME OnItsWay,
                        NEW k \in 1 .. Len(channel), Closes(k)
                 PROVE  \E i \in 2 .. Len(channel) :
                          /\ channel[i] = ShowOverlayEvent(active_overlay)
                          /\ \A j \in i .. Len(channel) : ~Closes(j)
      OBVIOUS
    <3>1. PICK i \in 1 .. Len(channel) :
                 /\ channel[i] = ShowOverlayEvent(active_overlay)
                 /\ \A j \in i .. Len(channel) : ~Closes(j)
      BY DEF OnItsWay
    <3>2. i # 1
      BY <1>1, <3>1
    <3> QED
      BY <1>1, <3>1, <3>2
  <2>8. CASE active_overlay = NoOverlay
    BY <2>1, <2>8, IdAssumption
  <2> QED
    BY <2>4, <2>5, <2>6, <2>7, <2>8 DEF OverlayFollows, OnTop
<1>5. CASE HandleOverlayFails
  BY <1>5 DEF HandleOverlayFails, OverlayFollows
<1>6. CASE HandleCloseOverlay
  <2>1. Closes(1) /\ channel' = Tail(channel) /\ UNCHANGED <<active_overlay, show>>
    BY <1>2, <1>6 DEF HandleCloseOverlay, Handles, Closes
  <2>2. ~OnTop
    BY <1>2, <2>1 DEF OnTop
  <2>3. ASSUME OnItsWay PROVE OnItsWay'
    <3>1. PICK i \in 1 .. Len(channel) :
                 /\ channel[i] = ShowOverlayEvent(active_overlay)
                 /\ \A j \in i .. Len(channel) : ~Closes(j)
      BY <2>3 DEF OnItsWay
    <3>2. i # 1
      BY <2>1, <3>1, <1>1
    <3> QED
      BY <1>1, <2>1, <3>1, <3>2, TailOnItsWay
  <2>4. AboutToBeAsked => AboutToBeAsked'
    BY <2>1 DEF AboutToBeAsked
  <2> QED
    BY <2>1, <2>2, <2>3, <2>4 DEF OverlayFollows
<1> QED
  BY <1>3, <1>4, <1>5, <1>6

LEMMA OverlayInit == Init => OverlayFollows
  BY DEF Init, OverlayFollows

LEMMA OverlayStep == Known /\ OverlayFollows /\ [Next]_vars => OverlayFollows'
<1> SUFFICES ASSUME Known, OverlayFollows, [Next]_vars PROVE OverlayFollows'
  OBVIOUS
<1>1. /\ channel \in Seq(Event) /\ <<>> \in Seq(Event) /\ Closing \in Seq(Event)
      /\ active_overlay \in Overlay \cup {NoOverlay}
      /\ group_ids \subseteq Group
      /\ configuration.overlays \subseteq Overlay
  BY ClosingType, ConfigurationAssumption
     DEF Known, TypeOK, NavigationTypeOK, Configurations
<1>2. CASE active_overlay' = NoOverlay
  BY <1>2 DEF OverlayFollows
<1>3. CASE UNCHANGED <<channel, active_overlay, overlays, show>>
  BY <1>3 DEF OverlayFollows, AboutToBeAsked, OnItsWay, OnTop, Closes, ShowOverlayEvent
<1>4. CASE GoesToGroup
  <2>1. UNCHANGED <<active_overlay, overlays, show>>
    BY <1>4 DEF GoesToGroup, GoToGroup, NextGroup, PreviousGroup, Back
  <2>2. CASE UNCHANGED channel
    BY <2>1, <2>2, <1>3
  <2>3. ASSUME NEW g \in Group, NEW past, MovesTo(g, past, <<>>)
        PROVE  OverlayFollows'
    <3> DEFINE more == Append(<<>>, ShowGroupEvent(g))
    <3>1. channel' = channel \o more
      BY <1>1, <2>3, MovesToPublishes
    <3>2. more \in Seq(Event) /\ Len(more) = 1 /\ more[1] = ShowGroupEvent(g)
      BY EventTypes
    <3>3. \A j \in 1 .. Len(more) : more[j].action # "CloseOverlay"
      BY <3>2 DEF ShowGroupEvent
    <3> HIDE DEF more
    <3> QED
      BY <1>1, <2>1, <3>1, <3>2, <3>3, PublishFollows
  <2>4. (\E g, past : MovesTo(g, past, <<>>)) \/ UNCHANGED channel
    BY <1>4 DEF GoesToGroup, GoToGroup, NextGroup, PreviousGroup, Back
  <2> QED
    BY <1>1, <2>2, <2>3, <2>4 DEF MovesTo
<1>5. CASE OpensOverlay
  <2>1. PICK s \in Overlay : ShowOverlay(s)
    BY <1>5 DEF OpensOverlay
  <2>2. channel' = channel \o Append(<<>>, ShowOverlayEvent(s)) /\ active_overlay' = s
    BY <2>1, EventTypes DEF ShowOverlay, Publish
  <2> QED
    BY <1>1, <2>2, AskedLast
<1>6. CASE ShowsTarget
  <2>1. CASE \E s \in configuration.overlays :
                /\ active_overlay' = s
                /\ Publish(Append(Closing, ShowOverlayEvent(s)))
    BY <1>1, <2>1, AskedLast DEF Publish
  <2> QED
    BY <1>2, <1>6, <2>1 DEF ShowsTarget
<1>7. CASE ReshowsOverlay
  <2>1. /\ active_overlay \in Overlay /\ active_overlay' = active_overlay
        /\ channel' = channel \o Append(Closing, ShowOverlayEvent(active_overlay))
    BY <1>1, <1>7 DEF ReshowsOverlay, Publish
  <2> QED
    BY <1>1, <2>1, AskedLast
<1>8. CASE \/ HandleShowGroup \/ HandleShowOverlay \/ HandleOverlayFails \/ HandleCloseOverlay
           \/ HandleStale
  BY <1>8, HandlersFollow
<1>9. CASE ShowAsksOverlay
  <2>1. CASE AsksOverlay(show.overlay) /\ show' = [show EXCEPT !.at = "asked"]
    <3>1. show \in Show /\ show.at # "idle"
      BY <1>9 DEF ShowAsksOverlay, Known, TypeOK
    <3>2. show'.at = "asked" /\ show'.overlay = show.overlay
      BY <2>1, <3>1, ShowTypes
    <3> QED
      BY <2>1, <3>2 DEF AsksOverlay, OverlayFollows, AboutToBeAsked
  <2>2. CASE show' = NotShowing /\ UNCHANGED <<channel, active_overlay, overlays>>
    <3>1. ~AboutToBeAsked
      BY <1>9 DEF ShowAsksOverlay, AboutToBeAsked
    <3> QED
      BY <2>2, <3>1 DEF OverlayFollows, OnItsWay, OnTop, Closes, ShowOverlayEvent
  <2> QED
    BY <1>9, <2>1, <2>2 DEF ShowAsksOverlay, navigationVars
<1>10. CASE ShowPublishes
  <2>1. /\ channel' = channel \o <<ShowOverlayEvent(show.overlay)>>
        /\ UNCHANGED <<active_overlay, overlays>>
        /\ show.overlay \in Overlay
    BY <1>10 DEF ShowPublishes, Publish, Known, ShowKnown
  <2>2. CASE AboutToBeAsked
    <3>1. channel' = channel \o Append(<<>>, ShowOverlayEvent(show.overlay))
          /\ active_overlay' = show.overlay
      BY <2>1, <2>2, EventTypes DEF AboutToBeAsked
    <3> QED
      BY <1>1, <2>1, <3>1, AskedLast
  <2>3. CASE ~AboutToBeAsked
    <3> DEFINE more == <<ShowOverlayEvent(show.overlay)>>
    <3>1. /\ more \in Seq(Event)
          /\ \A j \in 1 .. Len(more) : more[j].action # "CloseOverlay"
      BY <2>1, EventTypes DEF ShowOverlayEvent
    <3>2. channel' = channel \o more
      BY <2>1
    <3> HIDE DEF more
    <3>3. (OnItsWay => OnItsWay') /\ (OnTop => OnTop')
      BY <1>1, <2>1, <3>1, <3>2, AppendedFollows
    <3> QED
      BY <2>1, <2>3, <3>3 DEF OverlayFollows
  <2> QED
    BY <2>2, <2>3
<1>11. CASE ShowReadsGroup \/ ShowReadsOverlay
  <2>1. UNCHANGED <<channel, active_overlay, overlays>> /\ ~AboutToBeAsked
    BY <1>11 DEF ShowReadsGroup, ShowReadsOverlay, navigationVars, AboutToBeAsked, IsFree, NotShowing
  <2> QED
    BY <2>1 DEF OverlayFollows, OnItsWay, OnTop, Closes, ShowOverlayEvent
<1>12. CASE Rebuild \/ ShowRebuilds
  BY <1>2, <1>12, RebuildKeeps DEF RestartedWell
<1>13. CASE ClosesOverlay
  BY <1>2, <1>13 DEF ClosesOverlay, CloseOverlay
<1>14. CASE DeferredRender \/ UNCHANGED vars
  BY <1>3, <1>14 DEF DeferredRender, vars, navigationVars
<1> QED
  BY <1>4, <1>5, <1>6, <1>7, <1>8, <1>9, <1>10, <1>11, <1>12, <1>13, <1>14, NextCases

\* An overlay that is tracked is on top, or its event is published or about to be, and no close
\* comes after it: ShowOverlay(), CloseOverlay(), ShowConfiguration() and the handlers.
THEOREM OverlayFollowsAlways == Spec => []OverlayFollows
  BY KnownAlways, OverlayInit, OverlayStep, PTL DEF Spec

\* Once every event is handled, the overlay that blocks group navigation is the one on top:
\* nothing closed it behind navigation's back, and a failed show left none tracked.
THEOREM TrackedOverlayIsOnTopHolds == Spec => []TrackedOverlayIsOnTop
<1>1. OverlayFollows => TrackedOverlayIsOnTop
  BY DEF OverlayFollows, TrackedOverlayIsOnTop, Settled, IsFree, NotShowing, AboutToBeAsked,
         OnItsWay, OnTop
<1> QED
  BY <1>1, OverlayFollowsAlways, PTL

-----------------------------------------------------------------------------
\* The group that was asked for last is the view's, or its event is on its way; the view's
\* group is drawn or waits to be; and so is the group a failing render goes back to, by the
\* time that render is due.  None of it for groups that cannot be rendered.
Sound(g) == g \notin configuration.broken \cup {NoGroup}

Asked == \E i \in 1 .. Len(channel) : channel[i] = ShowGroupEvent(active_group)

GroupFollows == is_ready /\ Sound(active_group) => view_group = active_group \/ Asked

DrawnBy(g, drawn, queue, n) == g \in drawn \/ \E j \in 1 .. n : queue[j].group = g

ViewFollows ==
    is_ready /\ Sound(view_group) =>
        view_group \in activated /\ DrawnBy(view_group, rendered, deferred, Len(deferred))

PreviousFollows ==
    \A i \in 1 .. Len(deferred) :
        Sound(deferred[i].previous) => DrawnBy(deferred[i].previous, rendered, deferred, i - 1)

ViewShows == ViewFollows /\ PreviousFollows

LEMMA ViewShowsStays ==
    ASSUME ViewShows, UNCHANGED <<viewVars, configuration>>
    PROVE  ViewShows'
  BY DEF ViewShows, ViewFollows, PreviousFollows, DrawnBy, Sound, viewVars

\* The event of the group that was asked for last is not taken away.
LEMMA GroupFollowsStays ==
    ASSUME GroupFollows, UNCHANGED <<is_ready, view_group, configuration, active_group>>,
           Asked => Asked'
    PROVE  GroupFollows'
  BY DEF GroupFollows, Sound

LEMMA AskedAppended ==
    ASSUME channel \in Seq(Event), NEW more \in Seq(Event), channel' = channel \o more,
           active_group' = active_group, Asked
    PROVE  Asked'
<1>1. PICK i \in 1 .. Len(channel) : channel[i] = ShowGroupEvent(active_group)
  BY DEF Asked
<1>2. i \in 1 .. Len(channel') /\ channel'[i] = channel[i]
  BY <1>1
<1> QED
  BY <1>1, <1>2 DEF Asked, ShowGroupEvent

LEMMA AskedTail ==
    ASSUME channel \in Seq(Event), channel # <<>>,
           NEW more \in Seq(Event), channel' = Tail(channel) \o more,
           Head(channel) # ShowGroupEvent(active_group),
           active_group' = active_group, Asked
    PROVE  Asked'
<1>1. PICK i \in 1 .. Len(channel) : channel[i] = ShowGroupEvent(active_group)
  BY DEF Asked
<1>2. i # 1
  BY <1>1
<1>3. Tail(channel) \in Seq(Event) /\ i - 1 \in 1 .. Len(Tail(channel))
      /\ Tail(channel)[i - 1] = channel[i]
  BY <1>1, <1>2
<1>4. i - 1 \in 1 .. Len(channel') /\ channel'[i - 1] = channel[i]
  BY <1>3
<1> QED
  BY <1>1, <1>4 DEF Asked, ShowGroupEvent

LEMMA MovesToAsks ==
    ASSUME channel \in Seq(Event), NEW g \in Group, NEW past, NEW before \in Seq(Event),
           MovesTo(g, past, before)
    PROVE  Asked'
<1> DEFINE more == Append(before, ShowGroupEvent(g))
           n == Len(channel) + Len(before) + 1
<1>1. channel' = channel \o more /\ active_group' = g
  BY MovesToPublishes DEF MovesTo
<1>2. more \in Seq(Event) /\ Len(more) = Len(before) + 1 /\ more[Len(before) + 1] = ShowGroupEvent(g)
  BY EventTypes
<1> HIDE DEF more
<1>3. n \in 1 .. Len(channel') /\ channel'[n] = ShowGroupEvent(g)
  BY <1>1, <1>2
<1> QED
  BY <1>1, <1>3 DEF Asked, ShowGroupEvent

-----------------------------------------------------------------------------
\* The steps that leave the view alone.
LEMMA RequestsFollow ==
    ASSUME Known, GroupFollows, GoesToGroup \/ OpensOverlay \/ ClosesOverlay \/ ShowsTarget
                                \/ ReshowsOverlay
    PROVE  GroupFollows' /\ UNCHANGED <<viewVars, configuration>>
<1>1. /\ channel \in Seq(Event) /\ <<>> \in Seq(Event) /\ Closing \in Seq(Event)
      /\ group_ids \subseteq Group /\ active_overlay \in Overlay \cup {NoOverlay}
      /\ configuration.overlays \subseteq Overlay
  BY ClosingType, ConfigurationAssumption
     DEF Known, TypeOK, NavigationTypeOK, Configurations
<1>2. UNCHANGED <<viewVars, configuration>>
  BY DEF GoesToGroup, OpensOverlay, ClosesOverlay, ShowsTarget, ReshowsOverlay
<1>3. UNCHANGED <<is_ready, view_group>>
  BY <1>2 DEF viewVars
<1>4. ASSUME NEW g, NEW past, NEW before \in Seq(Event), MovesTo(g, past, before)
      PROVE  GroupFollows'
  <2>1. g \in Group
    BY <1>1, <1>4 DEF MovesTo
  <2> QED
    BY <1>1, <1>4, <2>1, MovesToAsks DEF GroupFollows
<1>5. ASSUME NEW more \in Seq(Event), channel' = channel \o more, active_group' = active_group
      PROVE  GroupFollows'
  BY <1>1, <1>2, <1>3, <1>5, AskedAppended, GroupFollowsStays
<1>6. \/ \E g, past : MovesTo(g, past, <<>>)
      \/ \E g, past : MovesTo(g, past, Closing)
      \/ \E more \in Seq(Event) : channel' = channel \o more /\ active_group' = active_group
  <2>1. CASE GoesToGroup
    <3>1. CASE UNCHANGED <<active_group, channel>>
      <4>1. channel' = channel \o <<>>
        BY <1>1, <3>1
      <4> QED
        BY <1>1, <3>1, <4>1
    <3> QED
      BY <2>1, <3>1 DEF GoesToGroup, GoToGroup, NextGroup, PreviousGroup, Back
  <2>2. CASE OpensOverlay
    <3>1. PICK s \in Overlay : ShowOverlay(s)
      BY <2>2 DEF OpensOverlay
    <3>2. <<ShowOverlayEvent(s)>> \in Seq(Event)
      BY EventTypes
    <3> QED
      BY <3>1, <3>2 DEF ShowOverlay, Publish
  <2>3. CASE ClosesOverlay
    BY <1>1, <2>3 DEF ClosesOverlay, CloseOverlay, Publish
  <2>4. ASSUME NEW s \in Overlay, Publish(Append(Closing, ShowOverlayEvent(s))),
               active_group' = active_group
        PROVE  \E more \in Seq(Event) : channel' = channel \o more /\ active_group' = active_group
    <3>1. Append(Closing, ShowOverlayEvent(s)) \in Seq(Event)
      BY <1>1, EventTypes
    <3> QED
      BY <2>4, <3>1 DEF Publish
  <2>5. CASE ShowsTarget
    <3>1. \/ \E g \in Group : MovesTo(g, Left, Closing)
          \/ Publish(Closing) /\ active_group' = active_group
          \/ \E s \in configuration.overlays :
                Publish(Append(Closing, ShowOverlayEvent(s))) /\ active_group' = active_group
      BY <2>5 DEF ShowsTarget
    <3> QED
      BY <1>1, <2>4, <3>1 DEF Publish
  <2>6. CASE ReshowsOverlay
    BY <1>1, <2>4, <2>6 DEF ReshowsOverlay
  <2> QED
    BY <2>1, <2>2, <2>3, <2>5, <2>6
<1> QED
  BY <1>1, <1>2, <1>4, <1>5, <1>6

LEMMA OverlayHandlersFollow ==
    ASSUME Known, GroupFollows,
           HandleShowOverlay \/ HandleOverlayFails \/ HandleCloseOverlay \/ HandleStale
    PROVE  GroupFollows' /\ UNCHANGED <<viewVars, configuration>>
<1>1. UNCHANGED <<viewVars, configuration, active_group>> /\ channel # <<>>
  BY DEF HandleShowOverlay, HandleOverlayFails, HandleCloseOverlay, HandleStale, Handles
<1>2. channel \in Seq(Event) /\ Head(channel) \in Event
  BY <1>1 DEF Known, TypeOK, NavigationTypeOK
<1>3. Head(channel) # ShowGroupEvent(active_group)
  BY DEF HandleShowOverlay, HandleOverlayFails, HandleCloseOverlay, HandleStale, Handles,
         ShowGroupEvent
<1>4. \E more \in Seq(Event) : channel' = Tail(channel) \o more
  <2>1. CASE channel' = Tail(channel)
    <3>1. <<>> \in Seq(Event) /\ Tail(channel) \o <<>> = Tail(channel)
      BY <1>1, <1>2
    <3> QED
      BY <2>1, <3>1
  <2>2. CASE HandleOverlayFails
    <3>1. Head(channel).target \in Overlay
      BY <1>2, <2>2 DEF HandleOverlayFails, Handles, Event
    <3>2. CloseOverlayEvent(active_overlay) \in Event
      BY <2>2, <3>1, EventTypes DEF HandleOverlayFails
    <3> DEFINE e == CloseOverlayEvent(active_overlay)
    <3>3. <<e>> \in Seq(Event) /\ channel' = Append(Tail(channel), e)
      BY <2>2, <3>2 DEF HandleOverlayFails
    <3>4. Append(Tail(channel), e) = Tail(channel) \o <<e>>
      BY <1>1, <1>2, <3>2
    <3> QED
      BY <3>3, <3>4
  <2> QED
    BY <2>1, <2>2 DEF HandleShowOverlay, HandleCloseOverlay, HandleStale
<1>5. Asked => Asked'
  BY <1>1, <1>2, <1>3, <1>4, AskedTail
<1> QED
  BY <1>1, <1>5, GroupFollowsStays DEF viewVars

LEMMA ShowStepsFollow ==
    ASSUME Known, GroupFollows, ShowReadsGroup \/ ShowReadsOverlay \/ ShowAsksOverlay \/ ShowPublishes
    PROVE  GroupFollows' /\ UNCHANGED <<viewVars, configuration>>
<1>1. UNCHANGED <<viewVars, configuration, active_group>>
  BY DEF ShowReadsGroup, ShowReadsOverlay, ShowAsksOverlay, AsksOverlay, ShowPublishes, navigationVars
<1>2. channel \in Seq(Event)
  BY DEF Known, TypeOK, NavigationTypeOK
<1>3. CASE UNCHANGED channel
  BY <1>1, <1>3, GroupFollowsStays DEF Asked, ShowGroupEvent, viewVars
<1>4. CASE ShowPublishes
  <2>1. <<ShowOverlayEvent(show.overlay)>> \in Seq(Event)
    BY <1>4, EventTypes DEF ShowPublishes, Known, ShowKnown
  <2>2. channel' = channel \o <<ShowOverlayEvent(show.overlay)>>
    BY <1>4 DEF ShowPublishes, Publish
  <2> QED
    BY <1>1, <1>2, <2>1, <2>2, AskedAppended, GroupFollowsStays DEF viewVars
<1> QED
  BY <1>1, <1>3, <1>4
     DEF ShowReadsGroup, ShowReadsOverlay, ShowAsksOverlay, AsksOverlay, navigationVars

-----------------------------------------------------------------------------
\* The steps of the view: a switch, a deferred render, a rebuild.
LEMMA SwitchFollows ==
    ASSUME Known, ViewShows, HandleShowGroup
    PROVE  GroupFollows' /\ ViewShows'
<1> DEFINE g == Head(channel).target
           render == [group |-> g, previous |-> view_group]
<1>1. /\ SetActiveGroup(g) /\ g \in screen_groups
      /\ active_group' = view_group'
      /\ configuration' = configuration
  <2>1. Head(channel) \in Event /\ Head(channel).action = "ShowGroup"
    BY TailType DEF HandleShowGroup, Handles, Known, TypeOK, NavigationTypeOK
  <2>2. g \in Group
    BY <2>1 DEF Event
  <2> QED
    BY <2>2, IdAssumption DEF HandleShowGroup, Known, GroupsAgree
<1>2. GroupFollows'
  BY <1>1 DEF GroupFollows
<1>3. deferred \in Seq(Render) /\ (~is_ready => deferred = <<>>)
  BY DEF Known, TypeOK, ViewTypeOK, OneActivated
<1> HIDE DEF g
<1>4. CASE ~is_ready /\ UNCHANGED <<is_ready, deferred>>
  BY <1>2, <1>3, <1>4 DEF ViewShows, ViewFollows, PreviousFollows
<1>5. CASE UNCHANGED viewVars
  BY <1>1, <1>2, <1>5, ViewShowsStays
<1>6. CASE /\ is_ready
           /\ view_group' = g
           /\ activated' = (activated \ {view_group}) \cup {g}
           /\ deferred' = (IF g \in rendered THEN deferred ELSE Append(deferred, render))
           /\ UNCHANGED rendered
  <2>1. Len(deferred') \in Nat /\ Len(deferred) \in Nat
    BY <1>3, <1>6
  <2>2. \A i \in 1 .. Len(deferred) : i \in 1 .. Len(deferred') /\ deferred'[i] = deferred[i]
    BY <1>3, <1>6
  <2>3. DrawnBy(g, rendered', deferred', Len(deferred'))
    <3>1. CASE g \in rendered
      BY <1>6, <3>1 DEF DrawnBy
    <3>2. CASE g \notin rendered
      <4>1. Len(deferred') \in 1 .. Len(deferred') /\ deferred'[Len(deferred')] = render
        BY <1>3, <1>6, <3>2
      <4> QED
        BY <4>1 DEF DrawnBy
    <3> QED
      BY <3>1, <3>2
  <2>4. ViewFollows'
    BY <1>6, <2>3 DEF ViewFollows
  <2>5. ASSUME NEW h, NEW n \in 0 .. Len(deferred), DrawnBy(h, rendered, deferred, n)
        PROVE  DrawnBy(h, rendered', deferred', n)
    BY <1>6, <2>1, <2>2, <2>5 DEF DrawnBy
  <2>6. ASSUME NEW i \in 1 .. Len(deferred'), Sound(deferred'[i].previous)
        PROVE  DrawnBy(deferred'[i].previous, rendered', deferred', i - 1)
    <3>1. CASE i \in 1 .. Len(deferred)
      <4>1. DrawnBy(deferred[i].previous, rendered, deferred, i - 1) /\ i - 1 \in 0 .. Len(deferred)
        BY <2>1, <2>2, <2>6, <3>1 DEF ViewShows, PreviousFollows
      <4> QED
        BY <2>2, <2>5, <3>1, <4>1 DEF DrawnBy
    <3>2. CASE i \notin 1 .. Len(deferred)
      <4>1. i - 1 = Len(deferred) /\ deferred'[i] = render
        BY <1>3, <1>6, <2>6, <3>2
      <4>2. DrawnBy(view_group, rendered, deferred, Len(deferred))
        BY <1>6, <2>6, <4>1 DEF ViewShows, ViewFollows
      <4> QED
        BY <2>1, <2>5, <4>1, <4>2 DEF DrawnBy
    <3> QED
      BY <3>1, <3>2
  <2> QED
    BY <1>1, <1>2, <2>4, <2>6 DEF ViewShows, PreviousFollows, Sound
<1> QED
  BY <1>1, <1>2, <1>4, <1>5, <1>6 DEF SetActiveGroup

LEMMA DeferredRenderFollows ==
    ASSUME Known, GroupFollows, ViewShows, DeferredRender
    PROVE  GroupFollows' /\ ViewShows'
<1> DEFINE g == Head(deferred).group
           previous == Head(deferred).previous
<1>1. deferred \in Seq(Render) /\ deferred # <<>> /\ deferred[1] = Head(deferred)
  BY DEF DeferredRender, Known, TypeOK, ViewTypeOK
<1>2. /\ deferred' = Tail(deferred)
      /\ rendered \subseteq rendered'
      /\ g \notin configuration.broken => g \in rendered'
      /\ UNCHANGED <<active_group, channel, configuration, is_ready>>
  <2>1. configuration.throws \subseteq configuration.broken
    BY ConfigurationAssumption DEF Known, TypeOK, Configurations
  <2> QED
    BY <2>1 DEF DeferredRender, RenderSucceeds, RenderFails, RenderThrows, navigationVars
<1>3. /\ Len(deferred) \in Nat \ {0} /\ Len(deferred') = Len(deferred) - 1
      /\ \A i \in 1 .. Len(deferred') : i + 1 \in 1 .. Len(deferred) /\ deferred'[i] = deferred[i + 1]
  BY <1>1, <1>2
<1>4. \/ UNCHANGED <<view_group, activated>>
      \/ /\ g \in configuration.broken
         /\ view_group = g
         /\ view_group' = previous
         /\ activated' = (activated \ {g}) \cup ({previous} \ {NoGroup})
  <2>1. configuration.throws \subseteq configuration.broken
    BY ConfigurationAssumption DEF Known, TypeOK, Configurations
  <2> QED
    BY <2>1 DEF DeferredRender, RenderSucceeds, RenderFails, RenderThrows
<1> HIDE DEF g, previous
<1>5. Asked' <=> Asked
  BY <1>2 DEF Asked, ShowGroupEvent
<1>6. ASSUME NEW h, NEW n \in 1 .. Len(deferred), Sound(h), DrawnBy(h, rendered, deferred, n)
      PROVE  DrawnBy(h, rendered', deferred', n - 1)
  <2>1. CASE h \in rendered
    BY <1>2, <2>1 DEF DrawnBy
  <2>2. CASE \E j \in 1 .. n : deferred[j].group = h
    <3>1. PICK j \in 1 .. n : deferred[j].group = h
      BY <2>2
    <3>2. CASE j = 1
      BY <1>1, <1>2, <1>6, <3>1, <3>2 DEF DrawnBy, Sound, g
    <3>3. CASE j # 1
      <4>1. j - 1 \in 1 .. n - 1 /\ j - 1 \in 1 .. Len(deferred') /\ (j - 1) + 1 = j
        BY <1>3, <3>3
      <4>2. deferred'[j - 1].group = h
        BY <1>3, <3>1, <4>1
      <4> QED
        BY <4>1, <4>2 DEF DrawnBy
    <3> QED
      BY <3>2, <3>3
  <2> QED
    BY <1>6, <2>1, <2>2 DEF DrawnBy
<1>7. PreviousFollows'
  <2> SUFFICES ASSUME NEW i \in 1 .. Len(deferred'), Sound(deferred'[i].previous)
               PROVE  DrawnBy(deferred'[i].previous, rendered', deferred', i - 1)
    BY <1>2 DEF PreviousFollows, Sound
  <2> DEFINE h == deferred[i + 1].previous
  <2>1. i + 1 \in 1 .. Len(deferred) /\ deferred'[i].previous = h /\ Sound(h) /\ (i + 1) - 1 = i
    BY <1>3
  <2>2. DrawnBy(h, rendered, deferred, i) /\ i \in 1 .. Len(deferred)
    BY <1>3, <2>1 DEF ViewShows, PreviousFollows
  <2> HIDE DEF h
  <2>3. DrawnBy(h, rendered', deferred', i - 1)
    BY <1>6, <2>1, <2>2
  <2> QED
    BY <2>1, <2>3 DEF DrawnBy
<1>8. ViewFollows' /\ GroupFollows'
  <2>1. CASE UNCHANGED <<view_group, activated>>
    <3>1. GroupFollows'
      BY <1>2, <1>5, <2>1, GroupFollowsStays
    <3>2. Sound(view_group)' /\ is_ready' => view_group \in activated
               /\ DrawnBy(view_group, rendered', deferred', Len(deferred) - 1)
      <4> SUFFICES ASSUME Sound(view_group)', is_ready'
                   PROVE  view_group \in activated
               /\ DrawnBy(view_group, rendered', deferred', Len(deferred) - 1)
        OBVIOUS
      <4>1. Sound(view_group) /\ is_ready
        BY <1>2, <2>1 DEF Sound
      <4>2. view_group \in activated /\ DrawnBy(view_group, rendered, deferred, Len(deferred))
        BY <4>1 DEF ViewShows, ViewFollows
      <4>3. Len(deferred) \in 1 .. Len(deferred)
        BY <1>3
      <4> QED
        BY <1>6, <2>1, <4>1, <4>2, <4>3
    <3> QED
      BY <1>3, <2>1, <3>1, <3>2 DEF ViewFollows
  <2>2. CASE /\ g \in configuration.broken
             /\ view_group = g
             /\ view_group' = previous
             /\ activated' = (activated \ {g}) \cup ({previous} \ {NoGroup})
    <3>1. Sound(active_group) => active_group # view_group
      BY <2>2 DEF Sound
    <3>2. GroupFollows'
      BY <1>2, <1>5, <3>1 DEF GroupFollows, Sound
    <3>3. Sound(previous) => previous \in rendered
      <4>1. 1 \in 1 .. Len(deferred) /\ deferred[1].previous = previous
        BY <1>1, <1>3 DEF previous
      <4>2. Sound(previous) => DrawnBy(previous, rendered, deferred, 1 - 1)
        BY <4>1 DEF ViewShows, PreviousFollows
      <4> QED
        BY <4>2 DEF DrawnBy
    <3>4. ViewFollows'
      BY <1>2, <2>2, <3>3 DEF ViewFollows, DrawnBy, Sound
    <3> QED
      BY <3>2, <3>4
  <2> QED
    BY <1>4, <2>1, <2>2
<1> QED
  BY <1>7, <1>8 DEF ViewShows

LEMMA ConfigureFollows ==
    ASSUME NEW c \in Configuration, NEW group, Reconfigure(c, group)
    PROVE  GroupFollows' /\ ViewShows'
<1>1. configuration' = c /\ Configure(c, group) /\ c.throws \subseteq c.broken
  BY ConfigurationAssumption DEF Reconfigure, Configurations
<1>2. deferred' = <<>>
  BY <1>1 DEF Configure, ViewRestarted
<1>3. \/ ~is_ready'
      \/ active_group' = NoGroup /\ view_group' \in c.broken \cup {NoGroup}
      \/ /\ view_group' = active_group'
         /\ view_group' \in activated' /\ view_group' \in rendered'
  <2>1. CASE c.groups = {}
    BY <1>1, <2>1 DEF Configure, Restarted, ViewRestarted
  <2>2. CASE c.groups # {} /\ is_ready
    <3> DEFINE t == Tried(c, group)
    <3> HIDE DEF t
    <3>1. \/ Restarted(c.groups, t) /\ ViewRestarted(c.groups, t, {t}, {t}, TRUE)
          \/ Restarted(c.groups, NoGroup) /\ ViewRestarted(c.groups, NoGroup, {}, {}, TRUE)
          \/ /\ t \in c.throws
             /\ Restarted(c.groups, NoGroup) /\ ViewRestarted(c.groups, t, {t}, {}, TRUE)
      BY <1>1, <2>2 DEF Configure, t
    <3> QED
      BY <1>1, <3>1 DEF Restarted, ViewRestarted
  <2>3. CASE c.groups # {} /\ ~is_ready
    <3> DEFINE r == Recorded(c, group)
    <3> HIDE DEF r
    <3>1. \/ Restarted(c.groups, r) /\ ViewRestarted(c.groups, r, {r}, {r}, TRUE)
          \/ Restarted(c.groups, r) /\ ViewRestarted(c.groups, r, {}, {}, FALSE)
      BY <1>1, <2>3 DEF Configure, r
    <3> QED
      BY <3>1 DEF Restarted, ViewRestarted
  <2> QED
    BY <2>1, <2>2, <2>3
<1> QED
  BY <1>1, <1>2, <1>3 DEF GroupFollows, ViewShows, ViewFollows, PreviousFollows, Sound, DrawnBy

LEMMA RebuildFollows ==
    ASSUME Known, Rebuild \/ ShowRebuilds
    PROVE  GroupFollows' /\ ViewShows'
<1>1. CASE Rebuild
  BY <1>1, ConfigureFollows DEF Rebuild
<1>2. CASE ShowRebuilds
  <2>1. show.config \in Configuration
    BY <1>2, ShowTypes DEF ShowRebuilds, Known, TypeOK
  <2> QED
    BY <1>2, <2>1, ConfigureFollows DEF ShowRebuilds
<1> QED
  BY <1>1, <1>2

LEMMA ShownInit == Init => GroupFollows /\ ViewShows
  BY DEF Init, GroupFollows, ViewShows, ViewFollows, PreviousFollows, Sound, DrawnBy

LEMMA ShownStep ==
    Known /\ GroupFollows /\ ViewShows /\ [Next]_vars => GroupFollows' /\ ViewShows'
<1> SUFFICES ASSUME Known, GroupFollows, ViewShows, [Next]_vars
             PROVE  GroupFollows' /\ ViewShows'
  OBVIOUS
<1>1. CASE UNCHANGED vars
  <2>1. UNCHANGED <<viewVars, configuration>> /\ UNCHANGED <<active_group, channel>>
    BY <1>1 DEF vars, navigationVars
  <2>2. Asked => Asked'
    BY <2>1 DEF Asked, ShowGroupEvent
  <2> QED
    BY <2>1, <2>2, GroupFollowsStays, ViewShowsStays DEF viewVars
<1>2. CASE GoesToGroup \/ OpensOverlay \/ ClosesOverlay \/ ShowsTarget \/ ReshowsOverlay
  BY <1>2, RequestsFollow, ViewShowsStays
<1>3. CASE HandleShowOverlay \/ HandleOverlayFails \/ HandleCloseOverlay \/ HandleStale
  BY <1>3, OverlayHandlersFollow, ViewShowsStays
<1>4. CASE ShowReadsGroup \/ ShowReadsOverlay \/ ShowAsksOverlay \/ ShowPublishes
  BY <1>4, ShowStepsFollow, ViewShowsStays
<1> QED
  BY <1>1, <1>2, <1>3, <1>4, NextCases, SwitchFollows, DeferredRenderFollows, RebuildFollows

\* With no event and no render on its way, the group that was asked for last is on the
\* screen, and alone there: the event that says so is not lost before the view has switched,
\* the render it queued is not lost, and a render that fails leaves a group that is drawn.
THEOREM AskedGroupIsShownHolds == Spec => []AskedGroupIsShown
<1>1. Known /\ GroupFollows /\ ViewShows => AskedGroupIsShown
  <2> SUFFICES ASSUME Known, GroupFollows, ViewShows, Settled, is_ready,
                      active_group \notin configuration.broken \cup {NoGroup}
               PROVE  Visible = {active_group}
    BY DEF AskedGroupIsShown
  <2>1. view_group = active_group
    BY DEF GroupFollows, Settled, Sound, Asked
  <2>2. view_group \in activated /\ view_group \in rendered
    BY <2>1 DEF ViewShows, ViewFollows, Settled, Sound, DrawnBy
  <2>3. activated \subseteq {view_group}
    BY DEF Known, OneActivated
  <2> QED
    BY <2>1, <2>2, <2>3 DEF Visible
<1> QED
  BY <1>1, KnownAlways, ShownInit, ShownStep, PTL DEF Spec

=============================================================================
