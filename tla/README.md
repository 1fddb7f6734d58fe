# Verification of the rt_gauge firmware

rt_gauge is the firmware of a round instrument: a Zephyr application in C++
that draws sensor values with LVGL, lets the driver swipe between groups of
gauges, and is configured over MCUmgr (serial or Bluetooth). These modules model
the parts of it whose behaviour depends on the order in which threads, callbacks
and clients act, and those where several pieces of code have to agree on the
same rules. The code of the models is under `src/app/src`, the drivers' under
`src/drivers`; paths below are relative to `src/app/src` unless they begin with
`drivers/`.

- [The system](#the-system): its parts, their state and how they meet
- [Modules](#modules): which module models what, and how it corresponds to the code
- [Runs](#runs): what each model check asks, its bounds, its fairness
- [Findings](#findings): where the code and what it says of itself part
- [Proofs](#proofs): what holds for every value of the constants, and why
- [Not modelled](#not-modelled) and [Plan](#plan)

## The system

### Threads

| thread | what runs on it |
| --- | --- |
| renderer (`UiRendererService`) | LVGL's timers, and through them frames, gestures, buttons, taps and animations, all with the LVGL lock held |
| LVGL's flush thread (`CONFIG_LV_Z_FLUSH_THREAD`) | the writes of drawn areas to the panel, without the LVGL lock |
| render work queue | deferred renders of groups; rebuilds after a store; the preview's jobs on the screens, its lease and end tasks |
| configuration work queue | decoding and validating configurations; the debounce and the writes of settings; storing a configuration |
| MCUmgr work queue | the requests of the UI group, one at a time; a request blocks until its job on another queue has answered |
| app bus worker | the handlers of navigation and setting events, in the order they were published |
| sensor bus worker | the values of sensors, to widgets and to the display's brightness |
| Bluetooth / link callbacks | `OnLinkDropped()` |
| the MSPI interrupt | the end of a transaction on the panel's bus |

A work queue is a FIFO and runs one item at a time (`WorkQueueThread`,
`WorkQueueTask`: an external library; modelled from how the code uses it).
A task is queued at most once; `Reschedule()` moves its deadline, `Cancel()`
takes it out of the delays and of the queue, and does not wait for a run that
has begun.

### Parts

| part | state | operations | meets | what makes it correct |
| --- | --- | --- | --- | --- |
| **Preview session** `domain/ui_domain/preview/ui_preview_session.cpp` | token, lease, revision, transfer and its buffer, apply flag, under one mutex | `Begin`, `End`, `Touch`, `Stage`, `BeginPatch`, `FinishApply`, `Cancel`… | only the service calls it, from three threads | a transfer fits its buffer; one apply at a time; revisions go forward; nothing outlives its session |
| **Preview service** `domain/ui_preview_domain/ui_preview_service.cpp` | the current job and its answer, staged/parsed/patched configurations, the reasons an end was asked for | `Begin`, `End`, `Stage`, `Patch`, `Show`, `Highlight`; `ProcessLease`, `ProcessEnd`; `OnLinkDropped`, `OnConfigurationStored` | session, UI controller, configuration manager, the queues, MCUmgr group | whatever ends a session, the gauge is left as it was; every request is answered; an abandoned session ends |
| **UI patch** `domain/ui_domain/preview/ui_patch.cpp` | none: a function of configurations | `ApplyPatchOps`, `PlanPatch`, `ClassifyWidgetChange` | service and controller | a patch in place shows what a whole stage of its result would, and the client is told what was built again |
| **UI controller** `controllers/ui_controller.cpp` | screens, configuration shown, rebuild flag | `OnConfigurationStored`, `ShowConfiguration`, `ApplyPatch`, `ShowTarget`, navigation handlers | everything that draws | what is shown is what was stored or staged; the view follows navigation |
| **Navigation** `domain/ui_domain/services/navigation_service.cpp` | active group, overlay, history of 8 | `Next`, `Previous`, `Back`, `GoToGroup`, `ShowOverlay`, `CloseOverlay` | publishes events that the controller handles on another thread | state and view agree once all events are handled |
| **Main view, screen groups, overlay host** `views/` | the groups, the one on screen, the stack of overlays | `SetActiveGroup` and its deferred render, `Push`, `Pop` | controller, navigation | a failed render falls back to what was shown; each overlay that opens closes |
| **Screens** `views/screens/` | the live widgets of a screen, in drawing order | `Configure`, `ApplyWidgetPatches`, `ApplyRootOrder` | controller, widgets | the widgets are those of the configuration, however they came to be |
| **Widgets, animations** `views/widgets/`, `views/animations/` | stored and pending properties, children, box, transform, needle | `Configure`, `NotifyPropertyChanged`, `ApplyEditorConfiguration`, frames, suspension | sensor and setting events, editors, the controller | what can be seen is what is stored, whatever came while it could not be seen |
| **Controls and input** `views/widgets/controls/`, `domain/ui_domain/services/ui_input_service.cpp`, `drivers/input/input_cst92xx.c` | the press and what was published of it; the gesture's mapping, cooldown and pin; the tracked finger | press, drag, release, lost contact, gesture | LVGL's input events, the event bus, navigation | a press that was sent is released; one contact has one effect; the pointer is one finger |
| **Configuration** `domain/ui_domain/configuration/`, `domain/ui_domain/models/`, `views/widgets/property_value_conversion.h` | stored configuration and its file | decode, validate, store, load at start, encode | preview, controller, widgets | what is taken can be built; only a client replaces it |
| **Display and settings** `domain/display_domain/`, `domain/settings_domain/` | brightness, followed sensor, what is marked for a write, the debounce | brightness requests, sensor values, reload, persist | event bus, panel, settings store | what a person chose is what the flash will hold |
| **Renderer** `domain/ui_domain/services/ui_renderer_service.cpp` | the frame, the rotation and its buffers | `RotatedFlushCb` | LVGL, PPA, panel | the frame is the turned screen |
| **Panel and its bus** `drivers/display/display_elco5300.c`, `drivers/mspi/mspi_esp32.c` | the panel's lock and io mode, the controller's lock, DMA channel and interrupt | init, write, brightness, blanking; a transceive and its timeout | renderer, display service, hardware | every call returns; an area that is given up leaves the panel to others |
| HX8394 driver, fonts and assets, core library | | | | not modelled, see [below](#not-modelled) |

### What is hard

- **The preview** is the centre. A client opens a session, sends a configuration
  in chunks, has it decoded on one thread and shown on another, patches it, while
  at any moment its lease may run out, its link drop, or a configuration be
  stored. Each of those ends the session on the render thread, in a task queued
  between the jobs of the request it disturbs. The session's mutex makes each
  call atomic, and nothing makes two of them so.
- **Navigation** changes the service at once and the screen later: the event it
  publishes is handled on another thread, the group it switches to is rendered on
  a third, and that render may fail. Service, view and stack of overlays are three
  records of what is shown.
- **A patch** keeps the widgets it need not build again. What it leaves must be
  what a whole show would have given, through changes of owner, order and
  properties, half done patches, overlays that are shown again and bindings that
  have to be told again. Which properties need no rebuild is a table kept by hand
  beside two dozen classes.
- **A widget out of sight** keeps what arrives and applies it when it is back.
  Nothing tells it when an overlay above it goes, and an editor, a rebuild or a
  group switch may come between the press and the release of a finger.
- **A configuration** meets the same rules five times: in the parser, the
  validator, the factories, the widgets and the events that change them; and a
  stored one was checked by another version of all of them.
- **The display's settings** are written by a client's store, a person's request
  and a sensor on three threads, and to flash by a fourth party a second later.
- **The panel** is shared by the flush thread and whoever dims it, over a bus whose
  transactions may be given up and end afterwards.

Each is listed line by line under `hazards` in `PROJECT.json`; the properties are for
that list.

## Modules

| modules | what they are |
| --- | --- |
| `UiPreviewSession`, `UiPreviewService`, `MCUiPreviewService` | the session (one operator per return path of each method); the service, its callers and the queues over it, with the properties; symmetry and view for TLC |
| `NavigationModels`, `NavigationService`, `MainView`, `UiNavigation`, `MCUiNavigation` | ids and events; the navigation service; the main view and its groups; both composed with the controller, the event channel, the overlay host and the threads |
| `UiPatch`, `Screens`, `MCScreens` | operations, validation, plan and effects of a patch, as functions; the live widgets, the overlay and the requests |
| `WidgetEdits` | a widget of each kind whose properties are edited: the table of `ui_patch.cpp` against what the classes apply |
| `WidgetProperties`, `WidgetPropertyStore` | the kinds of values, the rules for them, and what every widget registers; the store, and the coercion of an event's data |
| `UiConfigurationValidator`, `UiConfigurationCborParser`, `WidgetAssembly` | which configurations are taken; documents to configurations and back; screens built from them and changed by events |
| `UiConfigurationManager`, `DurableConfiguration` | uploads, the file, restarts, rebuilds; and what that promises |
| `UiConfigurations`, `MCConfigurations` | the composition of `Screens`, `WidgetEdits` and `UiConfigurationManager`, a scene for each; its instances |
| `ControlBase`, `WidgetBase`, `GridLayout`, `InputCst92xx`, `Controls` | toggle, slider and button; a widget from its construction to its end; the box on the grid; the touch driver; a control among events, fingers, frames and editors |
| `WidgetTransform`, `DialIndicator`, `Widgets`, `MCWidgets` | rotation and animation; a dial with its needle; either scene of the run |
| `DisplayService`, `MCDisplayService` | the display's settings |
| `MspiEsp32`, `PanelCo5300`, `UiRendererService`, `Panels`, `MCPanels` | the bus, the panel's driver over it, the turned frame, and which of the two a board has |
| `UiPreviewServiceProofs` | type correctness of the session and the service; the apply lock, the transfer and the revisions, the tasks of the render work queue, and what is on the screens |
| `UiNavigationProofs` | what navigation and view know of each other; that the screen follows what was asked for last |
| `UiConfigurationsProofs` | that the configuration manager implements `DurableConfiguration`, that what it takes is built, and that a widget edited in place is the one that would be built |
| `ScreensProofs` | what the model's functions on lists do, and patches to the widgets of a screen; that the overlay that is up is the staged one |
| `LiveScreensProofs` | that patched screens are those that would be built, and that the client is told what became of them |
| `DisplayServiceProofs` | what the display's settings are kept and driven by |
| `PanelsProofs` | the packets of the panel on the bus, and the turned frame |
| `WidgetsProofs` | the pointer, a control under fingers, editors and events, and a dial with its needle |

Definitions whose name begins with `Faulty` are used by nothing. Each is the
definition after it with one mistake that could be made in the code, and is put
in its place to see that a property notices.

### The session

`UiPreviewSession` has a variable for each member of the class but the bytes of
the buffer (a transfer is its announced length and how much has come) and the
clock: `lease_out` is what `IsLeaseExpired()` would answer, set by the passing
of time and cleared by whatever writes `last_activity_ms_`. Each method holds
the mutex from its first line to its return, so a call is one step. The length
of a chunk and the announced length are chosen past the end of the buffer too.

### The service

| in the model | in the code |
| --- | --- |
| `at`, `req` | where a handler thread is inside `Stage()`, `Patch()`, …, and its arguments |
| `job`, `result` | `job_` and the answer `job_done_` hands back; `job_ # nullptr` is also the holding of `job_lock_` |
| `render_queue`, `render_at`, `ending` | the render work queue, the item it is in the middle of, what `End()` had found |
| `lease_armed`, `end_armed` | `lease_task_` and `end_task_` wait for their delay |
| `config_at` | the configuration queue's decoder |
| `pending_end` | `pending_end_` |
| `link_at`, `store_at` | the threads of `OnLinkDropped()` and of a store, between their look and what they do about it |
| `parsed`, `staged`, `patched`, `plan_base` | `parsed_`, `staged_`, `patched_`, and what `patch_plan_` was planned from |
| `stored`, `is_reconfigure_queued` | the configuration manager's configuration, the controller's rebuild flag |
| `screens` | the configuration the screens show, or `Broken` |
| `is_nav_pinned`, `is_outlined` | gestures are pinned, a widget is outlined |
| `connected` | clients still send requests |

The environment: any handler may send any request the MCUmgr group can decode,
with the token of any session that has been answered or none, at any time it is
idle; chunks at any offset; leases run out, the link drops, a configuration is
stored, a queue takes nothing, a show fails half way, the buffer cannot be
allocated, as far as `Events` lets them.

Where a step of the model is more than one statement of the code, or less:

- *A step is one call into the session or one access to shared data.* What a
  thread does alone between two of them changes nothing others see.
- `LeaseLooks` takes `IsActive()` and `IsLeaseExpired()` together and leaves
  `IsApplying()` to the `End()` that tests it again: a change between the first
  two leads to an outcome another order of the same steps has too. `EndLooks`
  likewise takes the loads at the head of `ProcessEnd()` together.
- `AsksEnd` takes `pending_end_ |= …` and `end_task_.Reschedule()` together: the
  reason is of no effect until the task runs.
- `JobEnd`, `JobShow` and `JobApply` make several session calls in a step. A
  session ends on the render thread only, and that thread is running the job.
- A store is done on one thread, the configuration queue, so exchanging the
  stored configuration and telling its observers is not interleaved with
  another store.
- `GetStatus` reads. A request refused for its token changes nothing: `Touch`
  and `Stage` refusals are stutters.
- Tokens are random 32-bit numbers. A client carries a token it was told, or
  one it was told in an earlier session; guessing is not modelled.
- A configuration is a value of `Config`. A show either shows it whole or fails
  half way and leaves `Broken`, as does an in-place patch on screens it was not
  planned for. What a patch changes inside a configuration is not told apart.
- `Handler` has one member in the firmware: the MCUmgr queue serves one request
  at a time. The class provides for more (its session has a mutex, `job_lock_`
  serialises the jobs, and the functional tests call it from two threads:
  `tests/functional/controllers/src/ui_controller.cpp:1950`), so the safety of
  concurrent requests is checked with two and proved for any number.

### Navigation

| in the model | in the code |
| --- | --- |
| `group_ids`, `active_group`, `active_overlay`, `history` | `screen_group_ids_`, `active_screen_group_id_`, `active_overlay_screen_id_`, `history_` with `history_count_` |
| `channel` | the events published and not yet handled by the event bus thread |
| `screen_groups`, `view_group`, `is_ready` | `screen_groups_`, `active_screen_group_id_` and `IsReady()` of the `MainView` |
| `activated`, `rendered` | the groups with `is_activation_requested_`, `is_rendered_`; a group is on the screen (`Visible`) when it is both |
| `deferred` | the items of `RenderGroupOrRollBack()` on the render work queue |
| `overlays` | `entries_` of the `OverlayHost`, the top one last |
| `configuration` | `configuration_` of the controller |
| `show` | where `ShowConfiguration()` is, and what it has read |

A configuration is its groups, the one to start with, those whose render fails
(by an error, or by an exception), its overlays, and those of them that cannot
be built. The ids are numbers, for `Next` and `Previous` go in their order.

- *A step is what is done while the LVGL lock is held.* Gestures, buttons and taps
  run inside `Render()`, which takes it; event handlers, deferred renders and
  rebuilds take it themselves. Only `ShowConfiguration()` asks navigation before
  it takes the lock and after it has let it go, and is five steps
  (`ShowReadsGroup` … `ShowPublishes`).
- `Rebuild` happens whenever the render work queue is between two items. When it
  was queued has no other effect: `Clear()` drops the renders queued before it.
- A group that `Clear()` dropped is held only by a `weak_ptr` in the renders that
  wait for it; those find nothing, and the model drops them with the group.
- Whether a group renders is a property of the configuration. A group that fails
  once and renders the next time is left out.
- A request that is refused, or that asks for what is so already, changes nothing
  and is no action. `Back` on an entry that is refused for good would be one; that
  no such entry exists is `HistoryLeadsBack`.
- Gestures are requests. The mapping, the cooldown and the pin of a preview take
  some of them away and add none.
- `ClosesOverlay` is the tap on a scrim as well as the button. The auto-close timer is
  left out: the options the firmware passes never set it.
- `ShowGroup()`'s answer for a group the view does not have cannot happen:
  `GroupsAgree` is proved.
- The event channel holds 16 events and the render work queue its items; neither
  is full in the model (`MaxQueued` and `MaxDeferred` make requests wait instead).

### Patches and screens

`UiPatch` has the functions of `ui_patch.cpp` over records that keep what a
decision looks at: a widget's type, bindings and rebuilding properties are its
*form*, what applies in place its *look*. `Screens` has the screens of the main
view as sequences of live widgets, each marked built or kept, and told or not what
its bindings say. `ApplyPatchOps` and `ApplyPatch` are the worker's steps; the
replay of state, and the overlay that the view builds when it takes the
navigation's event, are steps of their own, for the LVGL lock is given back
before them. A patch that throws half way (`ApplyFails`) leaves the screens as
they are then, and the worker shows the staged configuration whole.

`WidgetEdits` opens up form and look: one live widget with its store, what its
objects show of each property, and what is pending. `Shows` says for each class
which changes its `OnPropertyChanged()` puts on its objects; `AppliesInPlace` is
the table that decides whether an edit relies on that. An edit that does not is
`Built` again. A property that an inbound binding drives is not held to the record.

### Configuration

A document is a record of what the CBOR structures hold, in the types they hold it
in. `Deserialize` and `Serialize` are the parser's conversions, `Validate` the
validator's rules one operator each, `ValidateApply` what only an upload is asked.
Texts are told apart as empty, a hexadecimal colour, and any other; numbers are
in `WordBits` bits, halves of an integer where rounding tells
(`WidgetPropertyStore`). `RegisterProperties` lists what every class registers and
with which kind; `CoerceToConfigValue` what a store makes of an event's data.
`WidgetAssembly` says which screens can be created and which widgets rendered.
`UiConfigurationManager` has `file` and `held`, as loaded at `Restart`, replaced by
`Upload`, kept by `Refuse`, built by `Rebuild`, changed on the screens by `Event`, while
the sensors change (`SensorsChange`); `taken` remembers the upload for the step that takes it. `CborConfigurationManagerBase` is external: that a file
which cannot be decoded is kept while the default is held is how the code uses it.

### Widgets and controls

A widget is a record with the members of `WidgetBase` (`ControlBase.tla` lists
them), and each call on it an operator from widget to widget: everything runs
under the LVGL lock, so a step is what one holder of it does. `Controls` adds what
goes on around one: the event bus, fingers and the reports of the touch chip,
LVGL's press, drag, gesture and release with the guard that drops some, frames,
editors, overlays, group switches and the end of the widget. A control's `asked` is
what a person last asked the setting for. A `box` is a widget of which only its box
counts: sides that are bound and come in halves and out of range.

`DialIndicator` is a dial and the needle it owns, with the easing of its value, the
animation of either, and frames; `WidgetTransform` who may turn what.

### Display

`at` says where each of the three threads is inside its handler; a block under
`lock_` and a driver call are one step each. A `ChangeRequested`, a sensor's value,
a client's store, the debounce (`PersistWork`) and the write each have their steps;
`Restart` may come between any two. `unwritten` remembers that a write failed.

### Panel

A call of the panel is its sequence of packets (`ConfigureDisplay`, `SetBrightness`,
`Chunks`…); a packet takes the panel's lock, asks the bus for its io mode, and goes
through `transceive()` step by step: lock, chip select, DMA, the reset of the
semaphore, the clearing of the status, the interrupt, start, wait, expiry, release. A
peripheral may be stuck, and may end a transaction after it was given up, between any
two of these; `transaction` is whose end the next interrupt is. On the other board the
screen is turned: `RotatedFlushCb()` puts areas into the frame by the PPA or, tile
by tile, by the CPU. The PPA writes memory (`ByPpa`), the CPU whole lines of its cache
(`ByCpu`), which go to memory with the last area or as they are evicted (`Evict`).

## Runs

| run | asks | bounds | distinct states |
| --- | --- | --- | --- |
| `preview_races` | two handlers stage and patch, in one session and the next: `ApplyExclusive`, `ApplyKeepsItsSession`, `TransferFits`, `RevGoesForward` | failing queues; 2 handlers, 2 sessions, 2 bytes, 2 revisions, 1 configuration | 281 000 |
| `preview_ends` | every way a session ends or fails to open: `TypeOK`, `NothingLeftBehind`, `EndShowsStored`, `StagedIsShown` | lease, link, failing shows and allocation; 1 handler, 2 sessions, 2 configurations | 1 200 000 |
| `preview_stores` | stores and their rebuilds: `RebuildIsQueued` | stores, failing queues and shows; 1 handler, 1 configuration | 1 000 000 |
| `preview_left` | clients leave: `RequestsAreAnswered`, `AskedEndIsDue`, `AbandonedSessionEnds` | lease or link; 1 handler | 187 000 |
| `navigation` | requests, failing renders, overlays that cannot be built, rebuilds and previews: `AskedGroupIsShown`, `OneGroupVisible`, `HistoryLeadsBack`, `TrackedOverlayIsOnTop`, `AskedGroupStands` | 3 groups, 2 overlays, 4 configurations, history of 2, 2 overlays deep, 2 events and 2 renders queued | 1 740 000 |
| `screens` | the ways a configuration reaches the screens: `LiveIsAsBuilt`, `BuiltIsTold`, `EffectsAreTrue`, `OverlayIsAsStaged` of patches; `EditedIsAsBuilt` of edits; `AcceptedIsBuilt`, `HeldSurvives` of stored ones | 4 clients with requests of up to three operations on 3 widgets, 2 screens and an overlay; every widget type and icon with one property, `VALUE` and `IS_VISIBLE` edited, bound or not; 5 units | 96 100 |
| `controls` | `AsksAreOfWhatIsStored`, `PressIsReleased`, `ContactActsOnce`, `PointerIsOneFinger`, `FramesShowWhatIsConfigured` of controls and boxes; `FramesShowTheValue`, `StillIsAtRest`, `MovesWhenSeen` of a dial | see below | 565 000 |
| `display` | `ChosenIsStored`, `FollowsWhatIsConfigured`, `QuietChangeIsWritten` | 2 levels asked for, 2 sensed, 2 configurations, 1 event waiting; failing drivers and writes, restarts | 515 000 |
| `panels` | `LinesAreAsked`, `DoneIsOwn`, `LeftUnselected`, `EveryCallReturns`, `FrameIsTheScreen` | see below | 302 000 |
| `store_shown`, `overlay_left`, `panel_shared` | one property each, violated: see [Findings](#findings) | | |

Why the bounds are enough:

- **Preview.** Two configurations, two tokens and one or two handlers are the
  smallest instance with a difference between stored and staged, between this
  session and the next, and between the thread that applies and the one that
  disturbs it. Two bytes of buffer give a transfer that is begun and not complete,
  and offsets past its end; two revisions one that is stale, one that is next and
  the last before the counter wraps. The safety runs use symmetry (configurations,
  tokens and handlers are only compared) and the view `LiveView`, which leaves out
  what `CloseLocked()` and `DropStage()` leave behind and no code reads again.
  `preview_left` uses neither, and does not check for deadlock: once the clients
  have left and the last session has ended, the system really stops.
- **Navigation.** Three groups: a switch that comes while another is rendered, with
  one to go back to. Two overlays for a stack and for one tracked while another is
  on top; a history of two to lose its oldest entry; two events for a request that
  is overtaken. `MixedConfigurations` has each way a render can fail, by itself and
  as the start group, and none at all.
- **Screens.** Three widgets are an owner, its child and one more; three operations
  are one that moves, one that takes away and one that puts back. Each client is
  there for a question: structure, records, screens, overlays. Of the edited widget
  every property of every type is tried against every state of sight: with one
  property besides `VALUE` and `IS_VISIBLE`, because a class applies each property by
  itself but for the value. The five units ask about screens (grids, boxes,
  versions, types), owners (composition, needles, icons, animations), values (every
  widget type with every property, and refused values), bindings (sensors,
  selectors, channels) and events (twelve data values on bound properties);
  `WordBits = 12` keeps the two bounds of an integer near, `LcdPx = 16` makes a grid
  that does not fit.
- **Controls.** Two fingers, under symmetry, and one report of the chip waiting, so
  that a frame may be late by one; frames of any set of fingers. Values and ranges of
  0 and 2 on a scale to 2, one group to go to, one swipe that is mapped and one
  that is not. A box on three by three cells of 16 pixels, with and without spacing,
  in three places, one of which hangs over the edge, its sides published as
  -9, 0, 1, 2 and 9 halves: none of a cell, each side of a half, and past either end. A
  dial in three configurations, over three values and one out of its range.
- **Display.** A level stands for a range: requests below the floor and between,
  sensed values between and above the ceiling. One waiting event is a request that a handler
  has not seen while another is under way.
- **Panels.** A buffer of 4 bytes with areas of one chunk, just one, one and a part,
  and just two; an area that is refused; three rotations of a panel of 3 by 2 with
  tiles of 2 and lines of the cache of 4 pixels, the first of which is a row and a part
  of the next; areas that cross tiles and lines or fill one, two of them in a refresh,
  so that what the one left in a line meets the other. The
  run does not check for deadlock: a panel whose initialisation failed is never
  called again.

**Fairness.**

- *Preview* (`Fairness` in `UiPreviewService`). Weak fairness for each thread's steps:
  a work queue thread that has something to run runs it, and a delay that is armed
  passes. Strong fairness for `RunJob`, the taking of `job_lock_`: a Zephyr mutex is
  handed to its waiters, so a waiting handler is not passed over for ever. None for
  the environment. `AbandonedSessionEnds` is stated for clients that have gone: a
  client that keeps sending renews its lease, and one that keeps applying keeps the
  end waiting.
- *Display*. Weak fairness for the two bus workers. Strong for the reload and the
  write: the configuration work queue takes its items in order, so a client's stores
  do not pass over a write for ever. `DeadlinePasses`: the debounce ends, unless changes
  push it out again and again, which the code lets them do.
- *Panels*. Weak fairness for a thread's own steps, the expiry of its wait among
  them, and strong for taking the panel's lock, a mutex that is handed to a waiting
  thread. None for the peripheral: a call returns though it is stuck.
- `navigation`, `screens` and `controls` check safety only and assume none.

## Findings

1. **A store during an apply is not shown** (`store_shown`, `StoreShowsWhatItStored`).
   The store's rebuild can run before the apply, and the end that the store asks
   for waits until after it. That end puts nothing back, on the ground that the
   rebuild shows what was stored: the staged configuration stays on the screens
   with no session open.
2. **Two overlays for one request** (`overlay_left`, `NoOverlayIsLeft`). The event of a
   request from before a rebuild is taken for the one that asks for the same
   overlay again, and so is that one: the overlay is pushed twice, one `CloseOverlay`
   takes one away, and navigation is free with the other still on the screen. With
   it in mind `TrackedOverlayIsOnTop` is stated for the top of the stack.
3. **A command in the middle of an area** (`panel_shared`, `CommandBeginsSelection`). The
   panel's lock covers one packet and the chip stays selected between the chunks of
   an area. LVGL's flush thread does not hold the lock that the display service
   takes for its calls: a brightness command can be sent inside the area's selection
   and end it, and the next chunk has no command.

Each has a run whose counterexample is the sequence of steps.

### Known behaviour that no property covers

Met while modelling, kept in the models where they are in reach of one, and left out
of the properties' words:

- A failed deferred render is told to nobody: the view goes back to the group
  before, and the service keeps the one that failed (`main_view.cpp:189`). Hence
  `AskedGroupIsShown` excepts a group that cannot be rendered. The group gone back to
  may be one whose own render failed (`main_view.cpp:206`).
- A store that found no session does not end the one that opens before its rebuild
  runs: `staged_` stays, and the next patch is planned from what is no longer on the
  screens (`ui_preview_service.cpp:668`).
- `ProcessLease()` looks, a request renews the lease, and the session is ended all the
  same; a dropped link's end may likewise meet the next session. A client that
  applies again and again keeps a dropped link's end waiting
  (`ui_preview_service.cpp:517`).
- The navigation channel holds 16 events; one that is dropped leaves the view behind
  (`navigation_service.cpp:128`).
- A read of the touch chip's last frame that fails leaves the press stuck
  (`drivers/input/input_cst92xx.c:150`).
- A `TARGET_SCREEN_GROUP` that turns negative keeps the target before
  (`button_control.cpp:100`); only an event can do so, an editor's record builds the
  button again.
- `SetGestureMapping()` writes two atomics that a gesture reads one after the other
  (`ui_input_service.cpp:66`).
- The panel's brightness is set under the LVGL lock and recorded under another, so the
  record may be of the other of two writers (`display_service.cpp:359`).
- A transaction that was given up and ends after the next has cleared the status and
  before it is started gives the semaphore, and the wait returns for it with the packet
  still to be clocked out (`mspi_esp32.c:617-622`): `DoneIsOwn` excepts it (`late_end`). One
  that is still clocked out when a packet without data is started over it may end for
  it (`mspi_esp32.c:207` looks at the DMA channel alone).
- Where the CPU turned one area of the rotated frame and the PPA another, either may lose
  what it put into a line of the cache they share, as the code says
  (`ui_renderer_service.cpp:194`): `FrameIsTheScreen` says nothing of such a line
  (`IsShared`) until the CPU has written all of it again.
- An ease that is under way when the value it set out from is stored again ends where it
  was going (`indicator_base.cpp:95`): `FramesShowTheValue` says so.
- On a grid with spacing the top row of a bound box is mirrored by the spacing
  (`grid_layout.cpp:62`, `widget_base.cpp:425`).
- A request that takes back a widget it put can leave one built and told nothing, with
  every effect "in place" (`ui_patch.cpp:575`): `BuiltIsTold` and `EffectsAreTrue` except it.
- The validator knows neither the screen's size nor the spacing (the screen is then
  dropped with a log, `ui_controller.cpp:1058`), takes a chart of the type "none" that
  fails to render (`horizontal_chart_indicator.cpp:83`) and an image without a file, and
  a toggle's `VALUE` only as a number though its store declares a flag. An event
  may set a fill mode, a direction or a font size that the validator refuses.
- A real that is cast to an integer out of range is undefined
  (`property_value_conversion.h:143`); the model takes any integer.
- If the sensors' start fails, the checks of sensor bindings are never set
  (`main.cpp`).

## Proofs

### Preview

Assumed: `SessionAssumption` and `ServiceAssumption` (the marks for "none" are
not members of the sets they stand beside; the buffer size and the last
revision are positive), and nothing about finiteness or sizes. So the theorems
hold for any number of handlers and sessions, any buffer and any revision.

`TypeCorrect` (`Spec => []TypeOK`) goes by one lemma per operator of the session
and one step per action of the service. It is inductive as it stands, and the
other proofs stand on it.

`ApplyExclusive` says that one handler at most is between the session's taking of
its last chunk or patch and `FinishApply()`, and exactly when `is_applying`. By
itself it is not inductive: an end clears `is_applying`, so it has to be known
that no end happens during an apply; and opening a session clears it, so it has
to be known that no session opens during one. `ApplyInv` is it with

- `ApplyKeepsItsSession`: a handler that applies has the open session's token;
- `HandlersInStep`: a handler that is at its job's answer is one that had handed
  a job in, and `job`, `result` and `at` agree;
- `OpeningIsIdle`: between `Begin()` and the allocation of the buffer nothing is
  applied.

`ApplyInv` was model-checked before it was proved. `ApplyExclusiveHolds` and
`ApplyKeepsItsSessionHolds` follow from it.

`TransferFitsHolds` is inductive with `TypeOK` alone: the comparison of a chunk's
length with `length_ - received_` is the guard, and every end drops the transfer.

`RevGoesForwardHolds` is an action property, `[][…]_vars`: while one session
lasts, `rev` stays or moves to a revision after it. It rests on `RevInv`, that the
revision asked for by a patch that is being applied is after `rev`, and that it is
the only one being applied: that is `ApplyInv` again.

What is queued on the render work queue goes the same way, and these invariants build
on each other, each proved with those before it:

- `JobIsAwaited`: a job is queued at most once, and from then on until it is answered its
  handler waits for it and nothing else answers the handler. Every place that takes an
  item from the queue depends on it, since a queue of Zephyr work items holds an item once.
- `RebuildInv`: the rebuild of a store is queued at most once, and is what
  `is_reconfigure_queued` says. `RebuildIsQueuedHolds`.
- `AskedInv`: an end that was asked for is armed, queued or running, or the cleanup of
  another is about to answer it. `AskedEndIsDueHolds`. The part without which it is not
  inductive is that the debt is owed whether or not a session is open.
- `CleanInv`: no session that is open and no cleanup under way means no pin, no outline
  and nothing staged; so does the allocation of the next. `NothingLeftBehindHolds`.

`StagedIsShownHolds` and `EndShowsStoredHolds` have the hypothesis `"store" \notin Events`:
with stores both are false, which is finding 1, and `preview_ends` checks them without
stores for the same reason. `ShownInv` is their strengthening: no store is
anywhere on its way; a plan starts from what is staged until the job that applies it
has run (`PlanIsOfStaged`); and screens that are not the stored ones are marked as
replaced, or an end that knows it is under way (`ReplacedIsMarked`). The second needs
`ApplyInv` again, that one handler applies at a time.

### Navigation

Assumed: `IdAssumption` (ids of groups are natural numbers; the marks for "none"
are not ids), `HistoryAssumption`, `ConfigurationAssumption` (a configuration is
one, whatever its groups) and `BoundAssumption`. Nothing is said of how many
groups, overlays or configurations there are, nor of how long the channel gets.

`Known` is the inductive invariant the others stand on: `TypeOK`; navigation and
view have the same groups, and both point to one of them (`GroupsAgree`); so do
the deferred renders (`DeferredKnown`); only the view's group is activated, and
none before the view is ready (`OneActivated`); `ShowConfiguration()` asks only for
an overlay that exists (`ShowKnown`). `NavigationTypeCorrect`, which no run restates, and
`OneGroupVisibleHolds` are parts of it. That the first group of a configuration is
one of its groups needs that a set of numbers has a least one, which is taken
from the well-founded order of the naturals.

`HistoryLeadsBackHolds` needs more than its words: that there is no history without an
active group, and that its last entry is not the active group (`HistoryKnown`).
Without it `Back` could leave two equal neighbours. That the history is never longer than
`HistoryDepth`, which it says too, is in `Known`.

`AskedGroupStandsHolds` is an action property: a step that takes an event and
publishes none leaves `active_group`. Requests make the channel longer, rebuilds
leave it as it is, and a `ShowGroup` event is handled only when it names the
active group.

`TrackedOverlayIsOnTopHolds`: `OverlayFollows` says where an overlay that is tracked
can be: about to be published by `ShowConfiguration()`, in the channel with no
close behind it, or on top with no close in the channel. The last clause is
what a late close would break.

`AskedGroupIsShownHolds` needs three facts that hold all the time, and not only when
all is settled. `GroupFollows`: the view is at the active group, or the event that will
take it there is on its way. `ViewFollows`: the view's group is activated, and
is drawn or waits to be. `PreviousFollows`: the group that a failing render goes
back to is drawn by the time that render is due. The third is the one that is
easily missed: it rests on the render work queue being a FIFO.

### Configuration

Assumed: `UnitAssumption` (the mark for "nothing is uploaded" is neither a unit nor a document),
`WordBitsAssumption` and `LimitsAssumption` (they are numbers), `DocumentsAssumption` (what is
uploaded has the decoder's types), `EditorsAssumption` (an edited widget is of a
registered type) and `ClientsAssumption` (what a client stages is valid and its operations
have the form of the parser's records; the widgets of a screen are then in the order of
their z-index, for `AddWidget()` is what the parser fills a screen by). Nothing is said of how many units,
documents, clients, screens or widgets there are.

`Survival` is a refinement: `UiConfigurations` implements `DurableConfiguration` with
`stored <- held`, `shown <-` the configuration the screens were built from, and `taken`, the
upload that a step takes, if it takes one. Its `Replace` is a step that takes an upload
and stores what that decodes to, and its `Keep`, every other step, leaves the stored
configuration as it is. In the
scenes that store nothing all three are `NoUnit` and stay so. In the other a `Restart` has
to map to a `Keep` step, and does only if what the file decodes to is what was held
before: the inductive invariant `HeldIsLoaded`, `unit # NoUnit => held = Loaded(file)`,
which a check at load time of what only an upload is asked would break. That what is
loaded is valid rests on `DefaultIsValid` and on `Deserializes` including `Validate`; the
rest of the configuration's data is never opened. `Upload` maps to `Replace`; `Refuse`,
rebuilds, events and sensors map to `Keep`.

`AcceptedIsBuiltHolds` opens the data. With `HeldIsLoaded` goes `BuiltInv`: what is on the
screens has been built of a valid configuration and changed by events alone (`IsLive`): a store
holds of every registered property a value its reader can take (`RegisteredIsGood`, for
each widget class; `EventKeepsLive`), and the needle of a dial is as it was built. The conversions
are each other's inverses on what can be read (`ReadAgain`).

`EditedIsAsBuiltHolds`: `EditedInv` says of the edited widget that each property the record
has and nothing drives is stored as the record would be seeded, that what is shown of it is what
is stored or is pending and of a kind its class shows, and that nothing is pending while
the widget is eligible. The part that a reviewer looks for is that every property that
`AppliesInPlace` lets through is one that its class shows.

`OverlayHolds` (`OverlayIsAsStaged`): a patch leaves an overlay as it is, unless it has it shown
again, so what is planned of it has to be complete. `FormInv` keeps the staged configuration valid
and the patched one in form, whatever operations came. If the plan has nothing for an overlay's
screen, its two records differ in nothing that is drawn (`SameShape`): the roots are the same ones
in the same order (`NothingPlanned`), and a widget's one child is drawn as it is listed
(`DrawnAsListed`). If it has something, the overlay is among those to show again; if the overlay
goes, comes or turns into a screen, no screens result at all (`EachReaches`) and everything is
shown anew. It rests on a screen's widgets being in order of z: were they not, two lists that are
drawn in one order could differ in the order their widgets are built in, and the plan, which
compares the drawing orders, would not see it.

`LiveHolds` (`LiveIsAsBuilt`): patches arrive where a whole show does, over two folds, the
plan's and within it a screen's. Neither is followed from its end; each has an invariant of
what holds on the way. Let *done* be the ids whose patch has been applied. Then the groups
(`GroupsAreAt`) hold exactly the screens that the new configuration has of the done ones and the
old one of the others, each as its configuration has it (`ShowsScreen`); the same holds of the roots
of a screen (`RootsAreAt`, `ShowsRoot`). Three things carry it. A plan has at most one patch of
each screen and root (`ScreensArePlanned`, `WidgetsArePlanned`), so that a patch finds
what it patches as the old configuration had it (`NotDoneIsBase`), in whatever order
the patches come. Each kind of patch turns its one screen or root into the new one and no other
(`ScreenIsPatched`, `RootIsPatched`): that an update in place does is what
`ClassifyWidgetChange` and `IsSubtreeChanged` have to see to (`RootIsUpdated`). And when all are
done, what never had a patch is the same in both configurations (`UnplannedShows`), and the
order that is put last is the list's (`WidgetsPatched`, `GroupsAfter`). `LiveInv`, that the
groups show the staged configuration unless a request failed half way, is then kept by every
step; a failure shows the staged configuration whole before anything else is taken.

`ToldHolds` (`BuiltIsTold`) and `EffectsHold` (`EffectsAreTrue`) compare two searches of different
lists: what the plan of a whole request builds, and what each of its operations reports. They meet
in what the request asked for. `OpsInv` says it of the operations so far (`AsksFor`): on a screen
that none of them put or removed, a widget that is new or another was put by one, and where an owner
went and what it owned stayed, one of the two was put (`OpIsAsked`, for each kind of operation).
A root that the plan makes differs in something that it owns (`MadeDiffers`); that was asked for
(`MadeIsAsked`); and the operation that put it finds the root's patch, for the root is the one
that owns it (`MakesIsAsked`), unless the widget is gone again, which is the excepted case.
That nothing else is built is followed through the folds as the shapes were (`ScreensAreBuilt`). What
a widget owns is the least closed set (`OwnedIsClosed`, `OwnedIsLeast`), which a list of
widgets is long enough to reach: by a count of the levels, as there is no induction over data.

### Display

Assumed: `BrightnessAssumption`, `PayloadAssumption` and `StoresAssumption` (the
floor and the ceiling are levels of a byte in their order, payloads numbers or none, what a
client stores a configuration), for any requests, sensors' values and stores, and any length of the channel.

`DisplayInv` says of each of the three threads which handlers it can be in, and of each
number that waits to be stored, in `configuration`, in a handler's hand or in the write's
snapshot, that a person or a client chose it: `ChosenIsStoredHolds`.
`FollowsWhatIsConfiguredHolds` is inductive only beside it.

### Panel and frame

Assumed: chunks and pixels have a size, an area that is written has natural
numbers for its corner and size (`WritesAssumption`), the mark for "no call" is none of the
driver's calls (`NoOpAssumption`), that for "not in the cache" is no pixel
(`NotCachedAssumption`), a panel, its tiles and the lines of the cache are not empty, areas are on the screen,
and it turns by 90, 180 or 270 degrees. For any number of callers, any areas, any sizes.

`PanelInv` puts a caller's place in `transceive()`, the packet it has in hand and the
state of the bus together: the panel's lock is held by whoever is past it; the packet
in hand is the next of the call (`PacketInHand`); the lines are that packet's
(`LinesOfPacket`); the interrupt is enabled for a caller at its start or wait alone, and then
nothing has been given yet (`InterruptIsAwaited`); no wait ends for the interrupt of another's
transaction, unless that ended after the status was cleared (`EndIsOwn`);
and a chip that is left selected is held for a next packet (`HeldIsWanted`). That
the last packet of every call lets go of the chip, whatever the area and the chunks,
is `ChunksHold`. From it `LinesAreAskedHolds`, `DoneIsOwnHolds` and
`LeftUnselectedHolds`.

`FrameIsTheScreenHolds`: `FrameInv` says of each point that it is shown, or that the last
of the areas still to flush that cover it has what was drawn there. Shown is what was
written last (`Latest`): what a line of the cache has that is not written back, else memory.
Of a line that only one of the two wrote to, `WritesPut` says that a write puts there what it
writes and leaves the rest, and `WrittenBackKeeps` that neither the flush of the last area nor
an eviction changes it (`IsFrame` has the invariant of a cache: a clean line the PPA did not
write is memory's). Under it are the
arithmetic of the three rotations (a turned area has the turned points of the area, and
no two points meet) and of the tiles (they cover the area and stay within it).

### Controls

Assumed: values are natural numbers, and the marks for "no object" and "no angle"
are not numbers; the grids are ones that the layout takes, with a spacing that is a
natural number (`GridsAssumption`, a `uint32_t`), what is published for a side of a box is a number
(`PublishedAssumption`), and the mark for "not placed" is no box (`NoBoxAssumption`).

The pointer: `StreamInv` is of the touch driver, the reports on their way, and the report
that LVGL has. Two that follow each other, both pressed, are of one finger, and the driver
follows the finger of the last. With it a contact has one finger, `PointerIsOneFingerHolds`.

A control: `Whole` says that the range of a slider is the stored one unless `MAX_VALUE` is
pending (`RangeTaken`), and that a drawn toggle shows the stored value unless `VALUE` is
(`ValueTaken`). Every operator that stands for a method has a lemma that it keeps
these, with what else it leaves alone (`Steady` for what applies a property, `Lasts`
for a call of the widget), so an action is the composition of lemmas. `ControlsInv` adds
that a press which was sent has its finger on the button (`Answered`), and that a contact
acts once (`ContactHeld`): a contact that acted waits for its release or is over with
its click. From it `AsksAreOfWhatIsStoredHolds`, `PressIsReleasedHolds` and
`ContactActsOnceHolds`.

A frame: `FramedInv` adds to `ControlsInv` that what is stored has been taken by what shows
it, or is pending (`Drawn`, `ValueDrawn`), that the record has given what is not bound
(`RecordHeld`), and what a finger may change: a slider that is held shows where
the finger is, any other control its value, pressed or not (`ContactDrawn`). For each of
these a second family of lemmas says what a method leaves of it (`Looks`, and
`Taken` for the property that it applies; `Draws` for a call that stores nothing). The part that is
easily missed is the contact that a swipe took over: its `PressLost` does not put a slider back,
so no such contact may be on a slider, which is so since a slider captures
gestures. A frame that makes the widget eligible leaves nothing pending (`SynchronizeTakes`), so
"or is pending" falls away: `FramesShowWhatIsConfiguredHolds`. For a box it remains to
see that what `HeldBox` makes of any published numbers is on the screen (`TakenBoxIsHeld`):
the cells of a grid that does not divide the screen take less than the screen, so the
absolute difference in `BoxPx` is the difference.

### The dial

Assumed besides: no needle is configured with a rotation, which
`DialIndicator::ValidateChildren()` refuses (`NeedlesAssumption`). With one, its animation
would leave the needle at an angle of its own.

`DialInv`: an animation runs exactly when it was last told to and nothing kept it from
starting (`IsInStep`); one that does not has put opacity and rotation back (`IsAtRest`);
the needle has the angle of the value from the dial's render on (`IsPointed`); the value is
the stored one, or eased to it, unless it is pending (`ValueIsTaken`); and so is
what switches the animation (`SetIsTaken`). `StillIsAtRestHolds` follows from it, and the
action properties `MovesWhenSeenHolds` and `FramesShowTheValueHolds`: what a frame
draws is what the render before it has made of the invariant's "unless pending".

### What the proofs changed in the models

- Lists that were selected from (`SelectSeq`) are flattened pieces now (`Only`): the prover cannot
  look into the recursion of the former. `ApplyEach`, `ToWidgets`, `PatchEach`, `PatchRoots` and `Marked`,
  folds, their steps and maps over trees, have names for the same reason, and a table is an overlay of tables (`++`) instead of a `CASE`.
- What was understood of the data had to be said: the form of documents (`IsDocument`), of what clients
  send (`IsOp`, `IsScreen`), and which values a widget can read at all (`IsReadableValue`).
- `TakesBack`, the exception of `BuiltIsTold` and `EffectsAreTrue`, looked for the widget on any
  screen. Two screens may have a widget of one id, and then the request may take back what it
  put on one while the other keeps its own: both properties fail though the exception
  does not apply. It looks on the operation's screen now.
- `PutWidget` took away every widget of an id, where the code erases the first: with two of one id
  the model's screen was valid again and the code's is not.
- Two overlapping arms of a `CASE` are a choice that TLC makes and a proof cannot: five
  definitions (`RestoreShownValue`, `Ends`, `RootChange`, `PlanScreen`,
  `CoerceToAlternative`) were written so, and are conditions in the code's order now.
- Folds over the registered properties are the chains of calls that the classes have.
- A dial whose range is empty divides by zero unless the angle is set as
  `GetAngleForValue()` does, and the model now does.

### What is only model-checked

- Liveness: `RequestsAreAnswered`, `AbandonedSessionEnds`, `QuietChangeIsWritten`,
  `EveryCallReturns`, which rest on fairness and are out of the prover's reach. Every other
  property that a passing run checks is a theorem.

## Not modelled

- In the preview: `begin_group_` and `RestoreNavigation()`, where navigation stands
  when a preview ends (`UiNavigation` has its request, `ShowsTarget`, at any time); the
  limits on the sizes of patches, and the wording of refusals.
- In navigation: what a patch adds to and takes from a group (`Screens` has it for the
  screens), a group that fails to render only now and then, and liveness.
- Of the widgets: what the indicators other than the dial and the icons other than
  their geometry's properties draw; opacity and themes; LVGL itself.
- Of the configuration: the CBOR codecs, which are generated, and the lengths of names.
- Of the bus: reads, several packets in one transfer, other devices, chips without the
  DMA controller, clock timing. Of the turned display: the flush of LVGL's own buffer before the PPA reads it.
- The HX8394 panel of another board: one sequence of register writes at start.
- Start-up but for the sensor checks it wires: one sequence of constructions, before any
  of the threads.
- Fonts, assets and generated CBOR code: data, and a third of the lines of the tree.
- The core library (`modules/eerie_leap_rt_core`): a submodule whose source is not in this
  tree; external, modelled from its use.
- `components` in `PROJECT.json` lists every part with its status and reason.

## Plan

Done: the preview session and service with their ends and liveness; navigation with
proofs of all the properties of its run; the display's settings; patches, screens
and edits of widgets; the panel, its bus and the turned frame; controls, input,
boxes and a dial; the configuration from document to screen, and its refinement; proofs
of the safety and of every action property of all of them.

Left, in this order:

1. *The preview, abstractly*: a session is open or none; the screens show what was stored
   or what was staged; implemented by the service where finding 1 is excluded.
2. *The preview composed with navigation*: `begin_group_`, and whether the end of a preview
   goes back to the group the driver was at.
3. *Liveness of navigation*: that the channel and the render work queue are emptied.
