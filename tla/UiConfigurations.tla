----------------------------- MODULE UiConfigurations -----------------------------
(***************************************************************************)
(* The ways a configuration reaches the screens, each in a scene of its    *)
(* own: patched in a preview, which is not stored (Screens), where the     *)
(* properties of one widget are edited (WidgetEdits); and uploaded, stored *)
(* and built as a whole (UiConfigurationManager).                          *)
(***************************************************************************)
EXTENDS Screens, WidgetProperties

CONSTANTS
    LcdPx, Channels, UNKNOWN, CONFIGURATION_VERSION, NoGroup, Units, SensorIds,   \* of UiConfigurationManager
    NoUnit,                                                                        \* nothing is uploaded
    Editors, NoEditor                                                              \* of WidgetEdits

ASSUME UnitAssumption == NoUnit \notin Units /\ \A u \in Units : NoUnit \notin u.documents

VARIABLES unit, sensors, file, held, is_rebuild_queued, live, taken, edited

Stored == INSTANCE UiConfigurationManager WITH NoDocument <- NoUnit

ASSUME DocumentsAssumption ==
    \A u \in Units : \A document \in u.files \union u.documents : Stored!IsDocument(document)

Edits == INSTANCE WidgetEdits

ASSUME EditorsAssumption == \A editor \in Editors : editor.type \in WidgetTypes

storedVars == <<unit, sensors, file, held, is_rebuild_queued, live, taken>>

allVars == <<vars, storedVars, edited>>

NothingStored ==
    /\ unit = NoUnit /\ sensors = NoUnit /\ file = NoUnit /\ held = NoUnit
    /\ is_rebuild_queued = NoUnit /\ live = NoUnit /\ taken = NoUnit

\* Nobody patches screens while something else is asked.
SomeClient == client = CHOOSE c \in Clients : TRUE

ConfigurationsInit ==
    \/ Init /\ NothingStored /\ edited = NoEditor
    \/ Init /\ SomeClient /\ NothingStored /\ Edits!Init
    \/ Init /\ SomeClient /\ Stored!Init /\ edited = NoEditor

PatchScene == unit = NoUnit /\ edited = NoEditor /\ Next /\ UNCHANGED <<storedVars, edited>>

EditScene == edited # NoEditor /\ Edits!Next /\ UNCHANGED <<vars, storedVars>>

StoreScene == unit # NoUnit /\ Stored!Next /\ UNCHANGED <<vars, edited>>

ConfigurationsNext == PatchScene \/ EditScene \/ StoreScene

ConfigurationsSpec == ConfigurationsInit /\ [][ConfigurationsNext]_allVars

-----------------------------------------------------------------------------
\* What was patched in place is what a whole show would have built, of the
\* trees of widgets (Screens: LiveIsAsBuilt) and of the properties of each:
\* see WidgetEdits, ui_patch.cpp (AppliesInPlace) and widget_base.cpp.
EditedIsAsBuilt == edited # NoEditor => Edits!EditedIsAsBuilt

\* What the manager took is what the unit shows: see UiConfigurationManager,
\* ui_configuration_validator.cpp and ui_controller.cpp.
AcceptedIsBuilt == unit # NoUnit => Stored!AcceptedIsBuilt

\* A unit that nothing is uploaded to stores nothing.
IsValid(conf) == conf = NoUnit \/ Stored!Validate(conf)

Decoded(document) == Stored!Deserialize(document)

Durable ==
    INSTANCE DurableConfiguration
        WITH stored <- held, shown <- IF unit = NoUnit THEN NoUnit ELSE live.conf, Nothing <- NoUnit

\* The manager keeps DurableConfiguration's promise: what is held changes only
\* in the step in which a client's upload is taken, and to what that upload
\* is; no restart, refused upload, event, rebuild or change of the sensors
\* takes it away, or has the screens show anything but what they do or what is
\* held (ui_configuration_manager.cpp, main.cpp: MakeSensorInputChecker).
HeldSurvives == Durable!Spec

=============================================================================
