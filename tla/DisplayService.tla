--------------------------- MODULE DisplayService ---------------------------
(***************************************************************************)
(* The display's settings: DisplayService with the debounced writes of     *)
(* SettingsPersistenceService and the stores of DisplayConfigurationManager. *)
(*                                                                         *)
(* Three threads run it.  The app bus worker delivers the Settings channel *)
(* to both services, the sensor bus worker delivers the followed sensor's  *)
(* values, and the configuration work queue runs a client's stores, the    *)
(* debounce and the writes.  A driver call, under the LVGL lock, and a     *)
(* block under lock_ are one step each; nothing holds the two together.    *)
(***************************************************************************)
EXTENDS Integers, Sequences

CONSTANTS
    BRIGHTNESS_MIN,     \* the floor a request and a sensor's value are clamped to
    BRIGHTNESS_MAX,
    Requests,           \* what the payload of a ChangeRequested may hold
    Sensed,             \* what the payload of a sensor's value may hold
    NoNumber,           \* a payload that is no number
    NoSensor,           \* the empty brightness_sensor_id
    Stores,             \* the configurations a client may store
    MaxEvents,          \* bound: nothing new is asked for while so many events wait
    Events              \* what the environment does besides requests and values

ASSUME BrightnessAssumption ==
    /\ BRIGHTNESS_MIN \in 0 .. 255
    /\ BRIGHTNESS_MAX \in BRIGHTNESS_MIN .. 255
ASSUME PayloadAssumption == Requests \cup Sensed \subseteq Int \cup {NoNumber} /\ NoNumber \notin Int
ASSUME StoresAssumption ==
    \A c \in Stores :
        /\ c.brightness \in 0 .. 255
        /\ c = [brightness |-> c.brightness, blanking |-> c.blanking, sensor |-> c.sensor]

VARIABLES
    \* Under lock_.
    configuration,          \* what the unit stores, with a manual change not yet written
    panel_brightness,       \* what the service takes the panel to show
    is_marked_for_write,
    \* Changed on the configuration work queue only.
    followed_sensor_id,
    \* The panel and the flash.
    panel,
    stored,
    \* The tasks and events of both services.
    persist_task,           \* DisplayService's task is queued
    pending,                \* pending_setting_ids_ holds the brightness
    debounce,               \* the persist work is scheduled, its deadline ahead
    events,                 \* the Settings channel, oldest event first
    \* The three threads.
    at,
    value,
    unwritten               \* auxiliary: a write failed, and none was asked for since

serviceVars == <<configuration, panel_brightness, is_marked_for_write>>
debounceVars == <<pending, debounce>>
threadVars == <<at, value>>
deviceVars == <<panel, stored>>
vars == <<serviceVars, persist_task, debounceVars, threadVars, deviceVars,
          followed_sensor_id, events, unwritten>>

Thread == {"app", "sensor", "config"}
Place == {"idle", "apply", "set", "publish", "blank", "replace", "follow", "write", "unwritten"}
Event == [type : {"ChangeRequested"}, value : Requests]
            \cup [type : {"Changed", "StateRequested", "PersistRequested"}]

ReadsNumber(payload) == payload # NoNumber

ClampBrightness(requested) ==
    IF requested < BRIGHTNESS_MIN THEN BRIGHTNESS_MIN
    ELSE IF requested > BRIGHTNESS_MAX THEN BRIGHTNESS_MAX
    ELSE requested

Goes(t, place) == at' = [at EXCEPT ![t] = place]

\* A handler's locals end with it.
Forgets(t) == value' = [value EXCEPT ![t] = 0]

\* Subscribing to a sensor's values may fail, and then none is followed.
Follows(sensor) == followed_sensor_id' \in {sensor, NoSensor}

-----------------------------------------------------------------------------
\* Initialize(), before any other thread reaches the service; it ends with a
\* Changed of its own.
Starts ==
    /\ configuration = stored
    /\ panel_brightness = stored.brightness
    /\ panel = [brightness |-> stored.brightness, blanking |-> stored.blanking]
    /\ followed_sensor_id = stored.sensor

Init ==
    /\ stored \in Stores
    /\ Starts
    /\ is_marked_for_write = FALSE
    /\ persist_task = FALSE
    /\ pending = FALSE
    /\ debounce = FALSE
    /\ events = <<[type |-> "Changed"]>>
    /\ at = [t \in Thread |-> "idle"]
    /\ value = [t \in Thread |-> 0]
    /\ unwritten = FALSE

\* The power goes and comes back: only the flash is left.
Restart ==
    /\ "restart" \in Events
    /\ configuration' = stored
    /\ panel_brightness' = stored.brightness
    /\ panel' = [brightness |-> stored.brightness, blanking |-> stored.blanking]
    /\ Follows(stored.sensor)
    /\ is_marked_for_write' = FALSE
    /\ persist_task' = FALSE
    /\ pending' = FALSE
    /\ debounce' = FALSE
    /\ events' = <<[type |-> "Changed"]>>
    /\ at' = [t \in Thread |-> "idle"]
    /\ value' = [t \in Thread |-> 0]
    /\ unwritten' = FALSE
    /\ UNCHANGED stored

-----------------------------------------------------------------------------
\* Steps the threads share.

\* ApplyBrightness() of the value in hand: one driver call under the LVGL lock.
ApplyBrightness(t, ok, failed) ==
    /\ at[t] = "apply"
    /\ \/ /\ panel' = [panel EXCEPT !.brightness = value[t]]
          /\ Goes(t, ok)
          /\ UNCHANGED value
       \/ /\ "driver_fails" \in Events
          /\ Goes(t, failed)
          /\ IF failed = "idle" THEN Forgets(t) ELSE UNCHANGED value
          /\ UNCHANGED panel
    /\ UNCHANGED <<serviceVars, persist_task, debounceVars, stored,
                   followed_sensor_id, events, unwritten>>

\* PublishBrightnessValue(): GetBrightness() under lock_, then the event.  The
\* value in the event is for the widgets, which are not modelled.
PublishBrightnessValue(t) ==
    /\ at[t] = "publish"
    /\ events' = Append(events, [type |-> "Changed"])
    /\ Goes(t, "idle")
    /\ UNCHANGED <<serviceVars, persist_task, debounceVars, deviceVars, value,
                   followed_sensor_id, unwritten>>

-----------------------------------------------------------------------------
\* The app bus worker: one event at a time.

\* A control, or anyone on the channel, asks for a brightness or for the state.
Request ==
    /\ Len(events) < MaxEvents
    /\ \/ \E v \in Requests : events' = Append(events, [type |-> "ChangeRequested", value |-> v])
       \/ events' = Append(events, [type |-> "StateRequested"])
    /\ UNCHANGED <<serviceVars, persist_task, debounceVars, threadVars, deviceVars,
                   followed_sensor_id, unwritten>>

Delivers(type) ==
    /\ at["app"] = "idle"
    /\ events # <<>>
    /\ Head(events).type = type
    /\ events' = Tail(events)

\* A request that moves neither the panel nor the stored brightness is no news.
Moves(brightness) == brightness # panel_brightness \/ brightness # configuration.brightness

\* OnBrightnessChangeRequested(), up to its own SetBrightness().
OnBrightnessChangeRequested ==
    /\ Delivers("ChangeRequested")
    /\ LET requested == Head(events).value IN
        IF ReadsNumber(requested) /\ Moves(ClampBrightness(requested))
        THEN /\ value' = [value EXCEPT !["app"] = ClampBrightness(requested)]
             /\ Goes("app", "apply")
        ELSE UNCHANGED threadVars
    /\ UNCHANGED <<serviceVars, persist_task, debounceVars, deviceVars,
                   followed_sensor_id, unwritten>>

AppAppliesBrightness == ApplyBrightness("app", "set", "idle")

\* The second half of SetBrightness(), under lock_.
SetBrightness ==
    /\ at["app"] = "set"
    /\ panel_brightness' = value["app"]
    /\ configuration' = [configuration EXCEPT !.brightness = value["app"]]
    /\ is_marked_for_write' = (is_marked_for_write \/ configuration.brightness # value["app"])
    /\ Goes("app", "publish")
    /\ Forgets("app")
    /\ UNCHANGED <<persist_task, debounceVars, deviceVars,
                   followed_sensor_id, events, unwritten>>

OnStateRequested ==
    /\ Delivers("StateRequested")
    /\ Goes("app", "publish")
    /\ UNCHANGED <<serviceVars, persist_task, debounceVars, deviceVars, value,
                   followed_sensor_id, unwritten>>

\* SettingsPersistenceService's handler: the id waits once, and every change
\* pushes the deadline out.
OnChanged ==
    /\ Delivers("Changed")
    /\ pending' = TRUE
    /\ debounce' = TRUE
    /\ UNCHANGED <<serviceVars, persist_task, threadVars, deviceVars,
                   followed_sensor_id, unwritten>>

\* Persist(): requests that arrive while a write is queued coalesce into it.
OnPersistRequested ==
    /\ Delivers("PersistRequested")
    /\ persist_task' = TRUE
    /\ unwritten' = FALSE
    /\ UNCHANGED <<serviceVars, debounceVars, threadVars, deviceVars,
                   followed_sensor_id>>

-----------------------------------------------------------------------------
\* The sensor bus worker: a value of the followed sensor, through its guard.

OnBrightnessSensorValue ==
    /\ Len(events) < MaxEvents
    /\ at["sensor"] = "idle"
    /\ followed_sensor_id # NoSensor
    /\ \E sensed \in Sensed :
        /\ ReadsNumber(sensed)
        /\ ClampBrightness(sensed) # panel_brightness
        /\ value' = [value EXCEPT !["sensor"] = ClampBrightness(sensed)]
    /\ Goes("sensor", "apply")
    /\ UNCHANGED <<serviceVars, persist_task, debounceVars, deviceVars,
                   followed_sensor_id, events, unwritten>>

SensorAppliesBrightness == ApplyBrightness("sensor", "set", "idle")

\* The panel only: nothing is marked.
SensorSetsBrightness ==
    /\ at["sensor"] = "set"
    /\ panel_brightness' = value["sensor"]
    /\ Goes("sensor", "publish")
    /\ Forgets("sensor")
    /\ UNCHANGED <<configuration, is_marked_for_write, persist_task, debounceVars, deviceVars,
                   followed_sensor_id, events, unwritten>>

-----------------------------------------------------------------------------
\* The configuration work queue.

\* A client stores a configuration: ApplyCborConfiguration() of the manager, whose
\* handler is Reload().
ApplyCborConfiguration(c) ==
    /\ Len(events) < MaxEvents
    /\ at["config"] = "idle"
    /\ stored' = c
    /\ Goes("config", "blank")
    /\ UNCHANGED <<serviceVars, persist_task, debounceVars, panel, value,
                   followed_sensor_id, events, unwritten>>

\* Reload() ignores what either driver call returns.
ReloadAppliesBlanking ==
    /\ at["config"] = "blank"
    /\ \/ panel' = [panel EXCEPT !.blanking = stored.blanking]
       \/ "driver_fails" \in Events /\ UNCHANGED panel
    /\ value' = [value EXCEPT !["config"] = stored.brightness]
    /\ Goes("config", "apply")
    /\ UNCHANGED <<serviceVars, persist_task, debounceVars, stored,
                   followed_sensor_id, events, unwritten>>

ReloadAppliesBrightness == ApplyBrightness("config", "replace", "replace")

\* What is on flash replaces a change that was waiting to be written.
ReloadReplaces ==
    /\ at["config"] = "replace"
    /\ configuration' = stored
    /\ panel_brightness' = stored.brightness
    /\ is_marked_for_write' = FALSE
    /\ Goes("config", "follow")
    /\ Forgets("config")
    /\ UNCHANGED <<persist_task, debounceVars, deviceVars,
                   followed_sensor_id, events, unwritten>>

\* Detach() waits for a value in progress.
Detached == at["sensor"] = "idle"

\* A mistake it could have, which nothing uses: the empty id changes nothing.
FaultyFollowBrightnessSensor ==
    /\ at["config"] = "follow"
    /\ IF stored.sensor \in {followed_sensor_id, NoSensor}
       THEN UNCHANGED followed_sensor_id
       ELSE Detached /\ Follows(stored.sensor)
    /\ Goes("config", "publish")
    /\ UNCHANGED <<serviceVars, persist_task, debounceVars, deviceVars, value,
                   events, unwritten>>

\* FollowBrightnessSensor(): the subscription of a sensor already followed stays.
FollowBrightnessSensor ==
    /\ at["config"] = "follow"
    /\ IF stored.sensor = followed_sensor_id
       THEN UNCHANGED followed_sensor_id
       ELSE Detached /\ Follows(stored.sensor)
    /\ Goes("config", "publish")
    /\ UNCHANGED <<serviceVars, persist_task, debounceVars, deviceVars, value,
                   events, unwritten>>

\* A mistake it could have, which nothing uses: the request is dropped while the app
\* bus worker is busy.
FaultyPersistWork ==
    /\ at["config"] = "idle"
    /\ debounce
    /\ debounce' = FALSE
    /\ pending' = FALSE
    /\ events' = IF pending /\ at["app"] = "idle"
                 THEN Append(events, [type |-> "PersistRequested"]) ELSE events
    /\ UNCHANGED <<serviceVars, persist_task, threadVars, deviceVars,
                   followed_sensor_id, unwritten>>

\* PublishPendingPersistRequests().
PersistWork ==
    /\ at["config"] = "idle"
    /\ debounce
    /\ debounce' = FALSE
    /\ pending' = FALSE
    /\ events' = IF pending THEN Append(events, [type |-> "PersistRequested"]) ELSE events
    /\ UNCHANGED <<serviceVars, persist_task, threadVars, deviceVars,
                   followed_sensor_id, unwritten>>

\* A mistake it could have, which nothing uses: the panel's brightness is written.
FaultyWriteTakesSnapshot ==
    /\ at["config"] = "idle"
    /\ persist_task
    /\ persist_task' = FALSE
    /\ IF is_marked_for_write
       THEN /\ value' = [value EXCEPT !["config"] = panel_brightness]
            /\ is_marked_for_write' = FALSE
            /\ Goes("config", "write")
       ELSE UNCHANGED <<is_marked_for_write, threadVars>>
    /\ UNCHANGED <<configuration, panel_brightness, debounceVars, deviceVars,
                   followed_sensor_id, events, unwritten>>

\* The first half of WriteConfiguration(): the mark goes with the snapshot.
WriteTakesSnapshot ==
    /\ at["config"] = "idle"
    /\ persist_task
    /\ persist_task' = FALSE
    /\ IF is_marked_for_write
       THEN /\ value' = [value EXCEPT !["config"] = configuration.brightness]
            /\ is_marked_for_write' = FALSE
            /\ Goes("config", "write")
       ELSE UNCHANGED <<is_marked_for_write, threadVars>>
    /\ UNCHANGED <<configuration, panel_brightness, debounceVars, deviceVars,
                   followed_sensor_id, events, unwritten>>

\* The configuration work queue alone changes what else a configuration holds, so
\* the brightness is all the snapshot has to keep.
Snapshot == [configuration EXCEPT !.brightness = value["config"]]

\* UpdateOwnSetting(): the file is written, or stays as it was.
Writes ==
    /\ at["config"] = "write"
    /\ \/ /\ stored' = Snapshot
          /\ Goes("config", "idle")
          /\ Forgets("config")
       \/ /\ "write_fails" \in Events
          /\ Goes("config", "unwritten")
          /\ UNCHANGED <<stored, value>>
    /\ UNCHANGED <<serviceVars, persist_task, debounceVars, panel,
                   followed_sensor_id, events, unwritten>>

\* The next persist request tries again.
WriteFailed ==
    /\ at["config"] = "unwritten"
    /\ is_marked_for_write' = TRUE
    /\ unwritten' = TRUE
    /\ Goes("config", "idle")
    /\ Forgets("config")
    /\ UNCHANGED <<configuration, panel_brightness, persist_task, debounceVars, deviceVars,
                   followed_sensor_id, events>>

-----------------------------------------------------------------------------
AppStep ==
    \/ OnBrightnessChangeRequested \/ AppAppliesBrightness \/ SetBrightness
    \/ OnStateRequested \/ OnChanged \/ OnPersistRequested
    \/ PublishBrightnessValue("app")

SensorStep ==
    SensorAppliesBrightness \/ SensorSetsBrightness \/ PublishBrightnessValue("sensor")

ReloadStep ==
    \/ ReloadAppliesBlanking \/ ReloadAppliesBrightness \/ ReloadReplaces
    \/ FollowBrightnessSensor \/ PublishBrightnessValue("config")

WriteStep == WriteTakesSnapshot \/ Writes \/ WriteFailed

Next ==
    \/ Request \/ AppStep
    \/ OnBrightnessSensorValue \/ SensorStep
    \/ \E c \in Stores : ApplyCborConfiguration(c)
    \/ ReloadStep \/ WriteStep
    \/ PersistWork
    \/ Restart

Spec == Init /\ [][Next]_vars

-----------------------------------------------------------------------------
\* A change is marked until it is on flash, or being written there: whatever
\* stores, writes and changes overlap, what is not marked is what the flash holds
\* (is_marked_for_write_, display_service.h:63).  And only a manual brightness ever
\* is: a sensor's value is not, though a write may run while one is on the panel
\* (display_configuration.h:15).
ChosenIsStored ==
    /\ ~is_marked_for_write =>
        \/ configuration = stored
        \/ at["config"] \in {"write", "unwritten"} /\ configuration = Snapshot
        \/ at["config"] \in {"blank", "apply", "replace"}
    /\ stored.brightness \in {ClampBrightness(r) : r \in Requests \ {NoNumber}}
                            \cup {c.brightness : c \in Stores}

\* The configuration's sensor is the one followed, unless it could not be: no
\* store leaves the panel to the sensor of the configuration before it.  A value the
\* bus had taken before the subscription went is over when Detach() returns
\* (StopFollowingBrightnessSensor()): none reaches a service that follows no sensor.
FollowsWhatIsConfigured ==
    /\ at["config"] # "follow" => followed_sensor_id \in {configuration.sensor, NoSensor}
    /\ at["sensor"] # "idle" => followed_sensor_id # NoSensor

-----------------------------------------------------------------------------
(***************************************************************************)
(* Liveness.  Each thread runs what it is given, in turn.                  *)
(* The configuration work queue takes its items in order, so none is       *)
(* passed over for ever by the stores of a client.                         *)
(***************************************************************************)
\* The deadline passes, unless every change of many pushes it out in time.
DeadlinePasses == []<><<OnChanged>>_vars \/ SF_vars(PersistWork)

Fairness ==
    /\ WF_vars(AppStep)
    /\ WF_vars(SensorStep)
    /\ SF_vars(ReloadStep)
    /\ SF_vars(WriteStep)
    /\ DeadlinePasses

FairSpec == Spec /\ Fairness

StoreArrives == \E c \in Stores : ApplyCborConfiguration(c)

\* A manual change reaches the flash once nothing changes the brightness any
\* more, unless a write fails.
QuietChangeIsWritten ==
    <>[][~(Request \/ OnBrightnessSensorValue \/ StoreArrives \/ Restart)]_vars
        => (is_marked_for_write ~> ~is_marked_for_write \/ unwritten)

=============================================================================
