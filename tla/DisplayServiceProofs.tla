------------------------ MODULE DisplayServiceProofs ------------------------
(***************************************************************************)
(* Proofs about DisplayService, for any levels, requests and stores.       *)
(***************************************************************************)
EXTENDS DisplayService, TLAPS

-----------------------------------------------------------------------------
\* The inductive invariant, by what it is about.

\* A number the panel may be asked for by hand, or a client may have stored.
Chosen == {ClampBrightness(r) : r \in Requests \ {NoNumber}} \cup {c.brightness : c \in Stores}

IsConfiguration(c) ==
    c = [brightness |-> c.brightness, blanking |-> c.blanking, sensor |-> c.sensor]

\* Each thread is in its own handlers.
ThreadsInPlace ==
    /\ at \in [Thread -> Place]
    /\ DOMAIN value = Thread
    /\ at["app"] \in {"idle", "apply", "set", "publish"}
    /\ at["sensor"] \in {"idle", "apply", "set", "publish"}
    /\ at["config"] # "set"

ConfigurationsTyped ==
    /\ IsConfiguration(configuration)
    /\ IsConfiguration(stored)
    /\ is_marked_for_write \in BOOLEAN

EventsTyped == events \in Seq(Event)

\* Wherever a number waits to be stored, it was chosen.
OnlyChosenIsKept ==
    /\ stored.brightness \in Chosen
    /\ configuration.brightness \in Chosen
    /\ at["app"] \in {"apply", "set"} => value["app"] \in Chosen
    /\ at["config"] \in {"write", "unwritten"} => value["config"] \in Chosen

IsReloading == at["config"] \in {"blank", "apply", "replace"}
IsWriting == at["config"] \in {"write", "unwritten"}

\* A store that is not reloaded yet apart, only a brightness can differ.
DiffersInBrightness ==
    ~IsReloading =>
        configuration = [brightness |-> configuration.brightness, blanking |-> stored.blanking,
                         sensor |-> stored.sensor]

\* While a write is under way it is the snapshot that has what is not marked, not
\* the flash.
UnmarkedIsKept ==
    ~is_marked_for_write =>
        \/ IsReloading
        \/ IsWriting /\ configuration.brightness = value["config"]
        \/ ~IsWriting /\ configuration.brightness = stored.brightness

DisplayInv ==
    /\ ThreadsInPlace
    /\ ConfigurationsTyped
    /\ EventsTyped
    /\ OnlyChosenIsKept
    /\ DiffersInBrightness
    /\ UnmarkedIsKept
    /\ FollowsWhatIsConfigured

-----------------------------------------------------------------------------
\* The channel holds what the handlers know.
LEMMA EventsStep == EventsTyped /\ [Next]_vars => EventsTyped'
<1> SUFFICES ASSUME EventsTyped, [Next]_vars PROVE EventsTyped'
  OBVIOUS
<1>1. ASSUME NEW e \in Event, events' = Append(events, e) PROVE EventsTyped'
  BY <1>1 DEF EventsTyped
<1>2. ASSUME NEW type, Delivers(type) PROVE EventsTyped'
  BY <1>2, SMT DEF EventsTyped, Delivers
<1>3. /\ [type |-> "Changed"] \in Event
      /\ [type |-> "StateRequested"] \in Event
      /\ [type |-> "PersistRequested"] \in Event
      /\ \A v \in Requests : [type |-> "ChangeRequested", value |-> v] \in Event
  BY DEF Event
<1>4. CASE Request
  BY <1>1, <1>3, <1>4 DEF Request
<1>5. CASE AppStep
  BY <1>1, <1>2, <1>3, <1>5 DEF AppStep, OnBrightnessChangeRequested, AppAppliesBrightness,
     ApplyBrightness, SetBrightness, OnStateRequested, OnChanged, OnPersistRequested,
     PublishBrightnessValue, EventsTyped
<1>6. CASE OnBrightnessSensorValue \/ SensorStep
  BY <1>1, <1>3, <1>6 DEF OnBrightnessSensorValue, SensorStep, SensorAppliesBrightness,
     ApplyBrightness, SensorSetsBrightness, PublishBrightnessValue, EventsTyped
<1>7. CASE (\E c \in Stores : ApplyCborConfiguration(c)) \/ ReloadStep
  BY <1>1, <1>3, <1>7 DEF ApplyCborConfiguration, ReloadStep, ReloadAppliesBlanking,
     ReloadAppliesBrightness, ApplyBrightness, ReloadReplaces, FollowBrightnessSensor,
     PublishBrightnessValue, EventsTyped
<1>8. CASE WriteStep \/ PersistWork
  BY <1>1, <1>3, <1>8 DEF WriteStep, WriteTakesSnapshot, Writes, WriteFailed, PersistWork,
     EventsTyped
<1>9. CASE Restart
  BY <1>3, <1>9 DEF Restart, EventsTyped
<1>10. CASE UNCHANGED vars
  BY <1>10 DEF vars, EventsTyped
<1> QED
  BY <1>4, <1>5, <1>6, <1>7, <1>8, <1>9, <1>10 DEF Next

\* What a manual request is clamped to is chosen.
LEMMA RequestedIsChosen ==
    ASSUME EventsTyped, Delivers("ChangeRequested"), ReadsNumber(Head(events).value)
    PROVE  ClampBrightness(Head(events).value) \in Chosen
<1>1. Head(events) \in Event
  BY SMT DEF EventsTyped, Delivers
<1>2. Head(events).value \in Requests
  BY <1>1, SMT DEF Delivers, Event
<1> QED
  BY <1>2 DEF Chosen, ReadsNumber

\* The initial states and those a restart leads to: the flash alone counts.
LEMMA DisplayInvInit == Init => DisplayInv
<1> SUFFICES ASSUME Init PROVE DisplayInv
  OBVIOUS
<1>1. /\ stored \in Stores
      /\ configuration = stored
      /\ followed_sensor_id = stored.sensor
  BY DEF Init, Starts
<1>2. ThreadsInPlace
  BY DEF Init, ThreadsInPlace, Thread, Place
<1>3. ConfigurationsTyped
  BY <1>1, StoresAssumption DEF Init, ConfigurationsTyped, IsConfiguration
<1>4. EventsTyped
  BY DEF Init, EventsTyped, Event
<1>5. OnlyChosenIsKept
  BY <1>1 DEF Init, OnlyChosenIsKept, Chosen, Thread
<1>6. DiffersInBrightness
  BY <1>1, StoresAssumption DEF DiffersInBrightness
<1>7. UnmarkedIsKept
  BY <1>1 DEF Init, UnmarkedIsKept, IsReloading, IsWriting, Thread
<1>8. FollowsWhatIsConfigured
  BY <1>1 DEF Init, FollowsWhatIsConfigured, Thread
<1> QED
  BY <1>2, <1>3, <1>4, <1>5, <1>6, <1>7, <1>8 DEF DisplayInv

\* Every step keeps it.
LEMMA DisplayInvStep == DisplayInv /\ [Next]_vars => DisplayInv'
<1> SUFFICES ASSUME DisplayInv, [Next]_vars PROVE DisplayInv'
  OBVIOUS
<1> USE DEF DisplayInv, ThreadsInPlace, Thread, Place, ConfigurationsTyped, IsConfiguration,
       OnlyChosenIsKept, DiffersInBrightness, IsReloading, IsWriting, UnmarkedIsKept,
       FollowsWhatIsConfigured, Goes, Forgets, Follows, serviceVars, debounceVars, threadVars,
       deviceVars
<1>0. EventsTyped'
  BY EventsStep
<1>1. CASE Request
  BY <1>0, <1>1 DEF Request
<1>2. CASE OnBrightnessChangeRequested
  BY <1>0, <1>2, RequestedIsChosen DEF OnBrightnessChangeRequested, Delivers
<1>3. ASSUME NEW t \in Thread, NEW ok, NEW failed, ApplyBrightness(t, ok, failed),
             <<t, ok, failed>> \in {<<"app", "set", "idle">>, <<"sensor", "set", "idle">>,
                                    <<"config", "replace", "replace">>}
      PROVE DisplayInv'
  BY <1>0, <1>3 DEF ApplyBrightness
<1>4. CASE SetBrightness
  <2>1. configuration' = [brightness |-> value["app"], blanking |-> configuration.blanking,
                          sensor |-> configuration.sensor]
    BY <1>4 DEF SetBrightness
  <2>2. /\ value["app"] \in Chosen
        /\ value["config"]' = value["config"]
        /\ stored' = stored
        /\ followed_sensor_id' = followed_sensor_id
    BY <1>4 DEF SetBrightness
  <2>3. ThreadsInPlace' /\ at'["config"] = at["config"] /\ at'["sensor"] = at["sensor"]
            /\ at'["app"] = "publish"
    BY <1>4 DEF SetBrightness
  <2>4. ConfigurationsTyped'
    BY <1>4, <2>1, <2>2 DEF SetBrightness
  <2>5. OnlyChosenIsKept'
    BY <2>1, <2>2, <2>3
  <2>6. DiffersInBrightness'
    BY <2>1, <2>2, <2>3
  <2>7. UnmarkedIsKept'
    <3>1. CASE is_marked_for_write'
      BY <3>1
    <3>2. CASE ~is_marked_for_write'
      <4>1. ~is_marked_for_write /\ configuration.brightness = value["app"]
        BY <1>4, <3>2 DEF SetBrightness
      <4> QED
        BY <2>1, <2>2, <2>3, <4>1
    <3> QED
      BY <3>1, <3>2
  <2> QED
    BY <1>0, <2>1, <2>2, <2>3, <2>4, <2>5, <2>6, <2>7
<1>5. ASSUME NEW t \in Thread, PublishBrightnessValue(t) PROVE DisplayInv'
  BY <1>0, <1>5 DEF PublishBrightnessValue
<1>6. CASE OnStateRequested
  BY <1>0, <1>6 DEF OnStateRequested, Delivers
<1>7. CASE OnChanged \/ OnPersistRequested
  BY <1>0, <1>7 DEF OnChanged, OnPersistRequested, Delivers
<1>8. CASE OnBrightnessSensorValue
  BY <1>0, <1>8 DEF OnBrightnessSensorValue
<1>9. CASE SensorSetsBrightness
  BY <1>0, <1>9 DEF SensorSetsBrightness
<1>10. ASSUME NEW c \in Stores, ApplyCborConfiguration(c) PROVE DisplayInv'
  BY <1>0, <1>10, StoresAssumption DEF ApplyCborConfiguration, Chosen
<1>11. CASE ReloadAppliesBlanking
  BY <1>0, <1>11 DEF ReloadAppliesBlanking
<1>12. CASE ReloadReplaces
  BY <1>0, <1>12 DEF ReloadReplaces
<1>13. CASE FollowBrightnessSensor
  BY <1>0, <1>13 DEF FollowBrightnessSensor, Detached
<1>14. CASE PersistWork
  BY <1>0, <1>14 DEF PersistWork
<1>15. CASE WriteTakesSnapshot
  BY <1>0, <1>15 DEF WriteTakesSnapshot
<1>16. CASE Writes
  BY <1>0, <1>16 DEF Writes, Snapshot
<1>17. CASE WriteFailed
  BY <1>0, <1>17 DEF WriteFailed
<1>18. CASE Restart
  BY <1>0, <1>18 DEF Restart
<1>19. CASE UNCHANGED vars
  BY <1>0, <1>19 DEF vars
<1> QED
  BY <1>1, <1>2, <1>3, <1>4, <1>5, <1>6, <1>7, <1>8, <1>9, <1>10, <1>11, <1>12, <1>13, <1>14,
     <1>15, <1>16, <1>17, <1>18, <1>19
     DEF Next, AppStep, SensorStep, ReloadStep, WriteStep, AppAppliesBrightness,
     SensorAppliesBrightness, ReloadAppliesBrightness

LEMMA DisplayInvHolds == Spec => []DisplayInv
BY DisplayInvInit, DisplayInvStep, PTL DEF Spec

-----------------------------------------------------------------------------
\* Whatever stores, writes and changes overlap, and whatever is asked for: what is
\* not marked for writing is what the flash holds or is being written there, and
\* only a brightness that was chosen is ever stored (display_service.h:63,
\* display_configuration.h:15).
THEOREM ChosenIsStoredHolds == Spec => []ChosenIsStored
<1>1. DisplayInv => ChosenIsStored
  <2> SUFFICES ASSUME DisplayInv PROVE ChosenIsStored
    OBVIOUS
  <2>1. configuration.brightness = stored.brightness /\ ~IsReloading => configuration = stored
    BY DEF DisplayInv, ConfigurationsTyped, IsConfiguration, DiffersInBrightness
  <2>2. IsConfiguration(configuration) /\ configuration.brightness = value["config"]
            => configuration = Snapshot
    BY DEF IsConfiguration, Snapshot
  <2> QED
    BY <2>1, <2>2 DEF DisplayInv, ConfigurationsTyped, OnlyChosenIsKept, Chosen, UnmarkedIsKept,
       IsReloading, IsWriting, ChosenIsStored
<1> QED
  BY <1>1, DisplayInvHolds, PTL

\* The sensor of the configuration is the one followed, or none is, and no value of
\* a sensor no longer followed reaches the panel (StopFollowingBrightnessSensor()).
THEOREM FollowsWhatIsConfiguredHolds == Spec => []FollowsWhatIsConfigured
BY DisplayInvHolds, PTL DEF DisplayInv

=============================================================================
