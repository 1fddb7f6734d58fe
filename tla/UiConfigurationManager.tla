-------------------------- MODULE UiConfigurationManager --------------------------
(***************************************************************************)
(* The stored UI configuration: uploads, the file, the rebuilds of the     *)
(* screens, events on what is shown, restarts, and the sensors that change *)
(* under all of it.                                                        *)
(*                                                                         *)
(* CborConfigurationManagerBase is external: an upload that is decoded,    *)
(* checked and written is what is held and what the file has, and a file   *)
(* that cannot be decoded at boot is kept, with the default held instead.  *)
(* The file a unit starts with may be of another version of the firmware.  *)
(***************************************************************************)
EXTENDS WidgetAssembly

CONSTANTS
    Units,          \* what each unit starts with as its file, what its clients send, and the data of its events
    SensorIds,
    NoDocument

VARIABLES
    unit,
    sensors,            \* the source of each sensor the unit has
    file,
    held,               \* the manager's configuration
    is_rebuild_queued,
    live,               \* the screens, and the configuration they were built from
    taken               \* auxiliary: the document whose sender is told in this step that it is taken

vars == <<unit, sensors, file, held, is_rebuild_queued, live, taken>>

NothingTaken == taken' = NoDocument

SensorSources == UNION {[ids -> {"CONTROL", "PHYSICAL"}] : ids \in SUBSET SensorIds}

DefaultConfiguration == [active |-> 0, screens |-> <<>>]

-----------------------------------------------------------------------------

\* LoadOrCreateDefault: what the file has, or else the default, which is written only where there is no file.
Loaded(stored) == IF Deserializes(stored) THEN Deserialize(stored) ELSE DefaultConfiguration

Init ==
    /\ unit \in Units
    /\ sensors \in SensorSources
    /\ file \in unit.files \union {Serialize(DefaultConfiguration)}
    /\ held = Loaded(file)
    /\ is_rebuild_queued = FALSE
    /\ live = Configured(held)
    /\ taken = NoDocument

\* ValidateApply: what only an upload is asked.
ValidateApply(conf) == ValidateBindings(conf) /\ ValidateSensorInputs(conf, sensors)

Restart ==
    /\ held' = Loaded(file)
    /\ is_rebuild_queued' = FALSE
    /\ live' = Configured(held')
    /\ NothingTaken
    /\ UNCHANGED <<unit, sensors, file>>

IsTaken(document) == Deserializes(document) /\ ValidateApply(Deserialize(document))

\* ApplyCborConfiguration.
Upload(document) ==
    /\ IsTaken(document)
    /\ file' = document
    /\ held' = Deserialize(document)
    /\ is_rebuild_queued' = TRUE
    /\ taken' = document
    /\ UNCHANGED <<unit, sensors, live>>

\* A mistake it could have, which nothing uses: what only ValidateApply refuses is
\* held by then, and not given back.
FaultyRefuse(document) ==
    /\ ~IsTaken(document)
    /\ held' = IF Deserializes(document) THEN Deserialize(document) ELSE held
    /\ NothingTaken
    /\ UNCHANGED <<unit, sensors, file, is_rebuild_queued, live>>

\* An upload that is refused leaves everything as it is.
Refuse(document) ==
    /\ ~IsTaken(document)
    /\ NothingTaken
    /\ UNCHANGED <<unit, sensors, file, held, is_rebuild_queued, live>>

\* The rebuild reads the latest configuration when it runs.
Rebuild ==
    /\ is_rebuild_queued
    /\ is_rebuild_queued' = FALSE
    /\ live' = Configured(held)
    /\ NothingTaken
    /\ UNCHANGED <<unit, sensors, file, held>>

Event(data) ==
    /\ \E id \in DOMAIN live.screens :
          LET screen == Composition!Find(live.conf.screens, id)
          IN \E widget \in Widgets(screen) :
                \E target \in BoundTargets(screen, widget) : live' \in AfterEvent(live, screen, widget, target, data)
    /\ NothingTaken
    /\ UNCHANGED <<unit, sensors, file, held, is_rebuild_queued>>

SensorsChange ==
    /\ sensors' \in SensorSources
    /\ NothingTaken
    /\ UNCHANGED <<unit, file, held, is_rebuild_queued, live>>

Next ==
    \/ Restart
    \/ \E document \in unit.documents : Upload(document) \/ Refuse(document)
    \/ Rebuild
    \/ \E data \in unit.data : Event(data)
    \/ SensorsChange

Spec == Init /\ [][Next]_vars

-----------------------------------------------------------------------------
(* Properties. *)

\* The values that widgets read without looking at their kind, and the colours.
IsReadableValue(type, value) ==
    /\ type \in AnchorTypes \union {"ANIMATION_TYPE", "ANIMATION_DURATION_MS", "OPACITY"} => value.kind = "int"
    /\ type \in {"IS_ACTIVE", "IS_VISIBLE", "IS_ANIMATION_ACTIVE"} => value.kind = "bool"
    /\ type = "ANIMATION_DURATION_MS" => value.number > 0
    /\ type \in ColorTypes => value # TextOf(2)

IsReadableStore(store) == \A type \in DOMAIN store : IsReadableValue(type, store[type])

\* A needle is turned by its dial alone.
NeedlesAreFree(screen) ==
    \A dial \in {w \in Widgets(screen) : w.type = "dial"} :
        live.screens[screen.id][dial.kids[1]].store["ANIMATION_TYPE"] # IntOf(2)

\* Every widget is there and can be drawn; a chart's type is nobody's to check.
IsComplete(screen) ==
    /\ DOMAIN live.screens[screen.id] = Composition!Ids(screen.widgets)
    /\ \A w \in Widgets(screen) : live.screens[screen.id][w.id].is_ready \/ w.type = "chart"

\* What is held encodes to a document that decodes to it.
EncodesToItself(conf) ==
    Serializes(conf) /\ Deserializes(Serialize(conf)) /\ Deserialize(Serialize(conf)) = conf

\* What the manager took is what the unit shows, once the rebuild has run:
\* every screen that fits the display is there with its widgets, in a group
\* of it, no event makes a value of a widget one that it cannot read, and a
\* client that reads it back gets a document it can send again
\* (ui_controller.cpp, ui_configuration_validator.cpp,
\* widget_property_store.cpp, ui_configuration_cbor_parser.cpp).
AcceptedIsBuilt ==
    /\ ~is_rebuild_queued => live.conf = held
    /\ \A screen \in ToSet(live.conf.screens) :
          ~screen.overlay /\ HasRoom(screen) => screen.id \in DOMAIN live.screens
    /\ \A id \in DOMAIN live.screens :
          LET screen == Composition!Find(live.conf.screens, id)
          IN  /\ IsComplete(screen)
              /\ NeedlesAreFree(screen)
              /\ \A w \in Widgets(screen) : IsReadableStore(live.screens[id][w.id].store)
    /\ DOMAIN live.screens # {} => \E id \in DOMAIN live.screens : Composition!Find(live.conf.screens, id).group = live.active
    /\ EncodesToItself(held)

=============================================================================
