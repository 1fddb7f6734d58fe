-------------------------- MODULE NavigationModels --------------------------
(***************************************************************************)
(* What navigation and the views speak of: the ids of screen groups and    *)
(* overlay screens, and the events one sends the other                     *)
(* (domain/ui_domain/models/navigation_intent.h, event_bus/).              *)
(***************************************************************************)
EXTENDS Integers, Sequences, SequencesExt

CONSTANTS Group,      \* ids of screen groups; they are ordered
          NoGroup,
          Overlay,    \* ids of overlay screens
          NoOverlay

ASSUME IdAssumption ==
    /\ Group \subseteq Nat
    /\ NoGroup \notin Group
    /\ NoOverlay \notin Overlay

\* NavigationEventType::Changed with its payload.
Event == [action : {"ShowGroup"}, target : Group]
             \cup [action : {"ShowOverlay", "CloseOverlay"}, target : Overlay]

ShowGroupEvent(g) == [action |-> "ShowGroup", target |-> g]
ShowOverlayEvent(s) == [action |-> "ShowOverlay", target |-> s]
CloseOverlayEvent(s) == [action |-> "CloseOverlay", target |-> s]
=============================================================================
