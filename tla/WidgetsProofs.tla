----------------------------- MODULE WidgetsProofs -----------------------------
(***************************************************************************)
(* Proofs about Widgets: the pointer, the contacts of a control, what      *)
(* frames draw of it and of a box, and of a dial and its needle.           *)
(***************************************************************************)
EXTENDS Widgets, FiniteSetTheorems, TLAPS

-----------------------------------------------------------------------------
\* The control's scene and the dial's are apart: a step is of one of them.

LEMMA SceneSteps == WidgetsNext => [Next]_vars
BY DEF WidgetsNext, ControlScene, DialScene, vars

-----------------------------------------------------------------------------
\* The pointer: what the driver reports is of one finger from a press to the end
\* of it, and stays so on its way to LVGL.

Report == [is_pressed : BOOLEAN, id : Fingers \cup {NoFinger}]

\* Two reports that follow each other, both pressed, are of the same finger.
Continues(earlier, later) == earlier.is_pressed /\ later.is_pressed => earlier.id = later.id

\* The report made last.
Latest == IF reports = <<>> THEN pointer ELSE reports[Len(reports)]

ReportsTyped ==
    /\ pressed \in BOOLEAN
    /\ tracked_id \in Fingers \cup {NoFinger}
    /\ pointer \in Report
    /\ reports \in Seq(Report)

\* The driver knows what it reported last.
DriverInStep == Latest.is_pressed = pressed /\ (pressed => Latest.id = tracked_id)

ReportsContinue ==
    /\ reports # <<>> => Continues(pointer, reports[1])
    /\ \A i \in 1 .. Len(reports) : i > 1 => Continues(reports[i - 1], reports[i])

StreamInv == ReportsTyped /\ DriverInStep /\ ReportsContinue

ContactFields == {"at", "wait_release", "gesture_sent", "fingers", "acts", "has_swiped", "has_sent"}

\* A contact that goes on is of the finger that the pointer is.
ContactFollows ==
    /\ DOMAIN contact = ContactFields
    /\ contact.at \in {"none", "control", "screen", "clicked"}
    /\ contact.at \in {"control", "screen"} => pointer.is_pressed /\ contact.fingers = {pointer.id}
    /\ \E id \in Fingers \cup {NoFinger} : contact.fingers \subseteq {id}

PointerInv == StreamInv /\ ContactFollows

LEMMA PointerStarts == WidgetsInit => PointerInv
<1> SUFFICES ASSUME WidgetsInit PROVE PointerInv
  OBVIOUS
<1>1. DriverInit /\ pointer = Lifted /\ contact = NoContact
  BY DEF WidgetsInit, Init, Untouched
<1>2. StreamInv
  <2>1. ReportsTyped
    <3>1. Lifted \in Report
      BY DEF Lifted, Report
    <3>2. <<>> \in Seq(Report)
      OBVIOUS
    <3> QED
      BY <1>1, <3>1, <3>2 DEF DriverInit, ReportsTyped
  <2>2. DriverInStep
    BY <1>1 DEF DriverInit, Lifted, DriverInStep, Latest
  <2>3. Len(reports) = 0
    BY <1>1 DEF DriverInit
  <2>4. ReportsContinue
    BY <1>1, <2>3 DEF DriverInit, ReportsContinue
  <2> QED
    BY <2>1, <2>2, <2>4 DEF StreamInv
<1>3. ContactFollows
  BY <1>1 DEF NoContact, ContactFollows, ContactFields
<1> QED
  BY <1>2, <1>3 DEF PointerInv

\* A frame of the panel adds one report, of the finger that was followed.
LEMMA ProcessKeepsStream ==
  ASSUME StreamInv, NEW touching \in SUBSET Fingers, Process(touching), UNCHANGED pointer
  PROVE  StreamInv'
<1> DEFINE IsReported(report) ==
             /\ reports' = Append(reports, report)
             /\ report.is_pressed = pressed'
             /\ pressed' => report.id = tracked_id'
             /\ pressed /\ pressed' => tracked_id' = tracked_id
             /\ pressed' \in BOOLEAN
             /\ tracked_id' \in Fingers \cup {NoFinger}
<1>1. PICK report \in Report : IsReported(report)
  <2>1. ASSUME NEW id \in touching, IsFollowed(id), pressed' = TRUE, tracked_id' = id,
               reports' = Append(reports, [is_pressed |-> TRUE, id |-> id])
        PROVE  \E report \in Report : IsReported(report)
    <3> DEFINE report == [is_pressed |-> TRUE, id |-> id]
    <3>1. report \in Report /\ report.is_pressed = TRUE /\ report.id = id /\ id \in Fingers
      BY DEF Report
    <3>2. pressed => tracked_id = id
      BY <2>1 DEF IsFollowed
    <3>3. IsReported(report)
      BY <2>1, <3>1, <3>2
    <3> QED
      BY <3>1, <3>3
  <2>2. ASSUME pressed' = FALSE, reports' = Append(reports, Lifted), tracked_id' = tracked_id
        PROVE  \E report \in Report : IsReported(report)
    <3>1. Lifted \in Report /\ Lifted.is_pressed = FALSE
      BY DEF Report, Lifted
    <3>2. IsReported(Lifted)
      BY <2>2, <3>1 DEF StreamInv, ReportsTyped
    <3> QED
      BY <3>1, <3>2
  <2> QED
    BY <2>1, <2>2 DEF Process
<1> DEFINE n == Len(reports)
<1>2. /\ reports \in Seq(Report) /\ pointer \in Report /\ pressed \in BOOLEAN
      /\ n \in Nat
      /\ Len(reports') = n + 1
      /\ reports'[n + 1] = report
      /\ \A i \in 1 .. n : reports'[i] = reports[i]
      /\ reports' \in Seq(Report)
      /\ reports' # <<>>
      /\ n = 0 <=> reports = <<>>
  BY <1>1 DEF StreamInv, ReportsTyped
<1>3. ReportsTyped'
  BY <1>1, <1>2 DEF StreamInv, ReportsTyped
<1>4. DriverInStep'
  BY <1>1, <1>2 DEF DriverInStep, Latest
<1>5. Continues(Latest, report)
  <2>1. Latest.is_pressed = pressed /\ (pressed => Latest.id = tracked_id)
    BY DEF StreamInv, DriverInStep
  <2> QED
    BY <1>1, <1>2, <2>1 DEF Continues
<1>6. ReportsContinue'
  <2>1. Continues(pointer', reports'[1])
    <3>1. CASE reports = <<>>
      BY <1>2, <1>5, <3>1 DEF Latest
    <3>2. CASE reports # <<>>
      BY <1>2, <3>2 DEF StreamInv, ReportsContinue
    <3> QED
      BY <3>1, <3>2
  <2>2. ASSUME NEW i \in 1 .. Len(reports'), i > 1
        PROVE  Continues(reports'[i - 1], reports'[i])
    <3>1. CASE i = n + 1
      <4>1. n \in 1 .. n /\ i - 1 = n
        BY <1>2, <2>2, <3>1
      <4>2. Latest = reports[n] /\ reports'[n] = reports[n]
        BY <1>2, <4>1 DEF Latest
      <4> QED
        BY <1>2, <1>5, <3>1, <4>1, <4>2
    <3>2. CASE i # n + 1
      <4>1. i \in 1 .. n /\ i - 1 \in 1 .. n
        BY <1>2, <2>2, <3>2
      <4> QED
        BY <1>2, <2>2, <4>1 DEF StreamInv, ReportsContinue
    <3> QED
      BY <3>1, <3>2
  <2> QED
    BY <2>1, <2>2 DEF ReportsContinue, Continues
<1> QED
  BY <1>3, <1>4, <1>6 DEF StreamInv

\* LVGL takes the first report, or reads the one it had again.
LEMMA ReadKeepsStream ==
  ASSUME StreamInv, UNCHANGED <<pressed, tracked_id>>,
         \/ reports # <<>> /\ pointer' = Head(reports) /\ reports' = Tail(reports)
         \/ reports = <<>> /\ UNCHANGED <<pointer, reports>>
  PROVE  StreamInv' /\ Continues(pointer, pointer') /\ pointer' \in Report
<1>1. CASE reports = <<>> /\ UNCHANGED <<pointer, reports>>
  <2>1. StreamInv'
    BY <1>1 DEF StreamInv, ReportsTyped, DriverInStep, Latest, ReportsContinue
  <2> QED
    BY <1>1, <2>1 DEF StreamInv, ReportsTyped, Continues
<1>2. CASE reports # <<>> /\ pointer' = Head(reports) /\ reports' = Tail(reports)
  <2> DEFINE n == Len(reports)
  <2>1. /\ reports \in Seq(Report) /\ n \in Nat \ {0}
        /\ pointer' = reports[1] /\ pointer' \in Report
        /\ reports' \in Seq(Report)
        /\ Len(reports') = n - 1
        /\ \A i \in 1 .. n - 1 : reports'[i] = reports[i + 1]
        /\ n = 1 => reports' = <<>>
        /\ n # 1 => reports' # <<>>
    <3>1. reports \in Seq(Report) /\ reports # <<>>
      BY <1>2 DEF StreamInv, ReportsTyped
    <3>2. n \in Nat \ {0}
      BY <3>1
    <3>3. reports' \in Seq(Report) /\ Len(reports') = n - 1
      BY <1>2, <3>1
    <3>4. \A i \in 1 .. n - 1 : reports'[i] = reports[i + 1]
      BY <1>2, <3>1, <3>2
    <3>5. pointer' = reports[1] /\ pointer' \in Report
      BY <1>2, <3>1, <3>2
    <3>6. n = 1 => reports' = <<>>
      BY <3>3
    <3>7. n # 1 => reports' # <<>>
      BY <3>2, <3>3
    <3> QED
      BY <3>1, <3>2, <3>3, <3>4, <3>5, <3>6, <3>7
  <2>2. ReportsTyped'
    BY <2>1 DEF StreamInv, ReportsTyped
  <2>3. Latest' = Latest
    <3>1. CASE n = 1
      BY <1>2, <2>1, <3>1 DEF Latest
    <3>2. CASE n # 1
      <4>1. n - 1 \in 1 .. n - 1 /\ (n - 1) + 1 = n
        BY <2>1, <3>2
      <4>2. reports'[n - 1] = reports[n]
        BY <2>1, <4>1
      <4> QED
        BY <1>2, <2>1, <3>2, <4>2 DEF Latest
    <3> QED
      BY <3>1, <3>2
  <2>4. DriverInStep'
    BY <2>3 DEF StreamInv, DriverInStep
  <2>5. ReportsContinue'
    <3>1. ASSUME NEW i \in 1 .. n - 1
          PROVE  Continues(IF i = 1 THEN pointer' ELSE reports'[i - 1], reports'[i])
      <4>1. i + 1 \in 1 .. n /\ i + 1 > 1 /\ (i + 1) - 1 = i
        BY <2>1
      <4>2. Continues(reports[i], reports[i + 1])
        <5>1. Continues(reports[(i + 1) - 1], reports[i + 1])
          BY <4>1 DEF StreamInv, ReportsContinue
        <5> QED
          BY <4>1, <5>1
      <4>3. reports'[i] = reports[i + 1]
        BY <2>1
      <4>4. (IF i = 1 THEN pointer' ELSE reports'[i - 1]) = reports[i]
        BY <2>1
      <4> QED
        BY <4>2, <4>3, <4>4
    <3> QED
      BY <2>1, <3>1 DEF ReportsContinue
  <2>6. Continues(pointer, pointer')
    BY <1>2, <2>1 DEF StreamInv, ReportsContinue
  <2> QED
    BY <2>1, <2>2, <2>4, <2>5, <2>6 DEF StreamInv
<1> QED
  BY <1>1, <1>2

LEMMA PointerStep == PointerInv /\ [Next]_vars => PointerInv'
<1> SUFFICES ASSUME PointerInv, [Next]_vars PROVE PointerInv'
  OBVIOUS
<1> USE DEF PointerInv
<1>1. ASSUME UNCHANGED <<driverVars, pointer, contact>> PROVE PointerInv'
  BY <1>1 DEF driverVars, StreamInv, ReportsTyped, DriverInStep, Latest, ReportsContinue, ContactFollows
<1>2. CASE UNCHANGED vars
  BY <1>1, <1>2 DEF vars
<1>3. CASE Renders \/ Activates \/ Deactivates \/ ParentChanges \/ Event \/ Refresh \/ BuiltAgain
  BY <1>1, <1>3 DEF Renders, Activates, Deactivates, ParentChanges, Event, Refresh, BuiltAgain, Stays
<1>4. CASE Edit \/ CooldownPasses
  BY <1>1, <1>4 DEF Edit, CooldownPasses
<1>5. ASSUME UNCHANGED <<driverVars, pointer>> PROVE StreamInv'
  BY <1>5 DEF driverVars, StreamInv, ReportsTyped, DriverInStep, Latest, ReportsContinue
<1>6. CASE TakenDown \/ Clicked
  <2>1. contact' = contact \/ contact' = NoContact
    BY <1>6 DEF TakenDown, Clicked
  <2>2. ContactFollows'
    BY <1>6, <2>1 DEF TakenDown, Clicked, ContactFollows, ContactFields, NoContact
  <2> QED
    BY <1>5, <1>6, <2>2 DEF TakenDown, Clicked
<1>7. CASE Touches
  BY <1>7, ProcessKeepsStream DEF Touches, ContactFollows
<1>8. CASE Reads
  <2>1. StreamInv' /\ Continues(pointer, pointer') /\ pointer' \in Report
    BY <1>8, ReadKeepsStream DEF Reads
  <2>2. pointer'.is_pressed \in BOOLEAN /\ pointer'.id \in Fingers \cup {NoFinger}
    BY <2>1 DEF Report
  <2>3. ASSUME Begins(pointer') PROVE ContactFollows'
    <3>1. /\ DOMAIN contact' = ContactFields
          /\ contact'.at \in {"control", "screen"}
          /\ contact'.fingers = {pointer'.id}
      BY <2>3 DEF Begins, ContactFields, NoContact
    <3>2. pointer'.is_pressed
      BY <2>3 DEF Begins
    <3> QED
      BY <2>2, <3>1, <3>2 DEF ContactFollows
  <2>4. ASSUME GoesOn(pointer') PROVE ContactFollows'
    BY <1>8, <2>1, <2>2, <2>4 DEF GoesOn, Reads, ContactFollows, ContactFields, Continues
  <2>5. ASSUME Ends(pointer') PROVE ContactFollows'
    <3>1. /\ DOMAIN contact' = ContactFields
          /\ contact'.at \in {"none", "clicked"}
          /\ contact'.fingers = {} \/ contact'.fingers = contact.fingers
      BY <2>5 DEF Ends, ContactFollows, ContactFields, NoContact
    <3>2. \E id \in Fingers \cup {NoFinger} : contact'.fingers \subseteq {id}
      BY <3>1 DEF ContactFollows
    <3> QED
      BY <3>1, <3>2 DEF ContactFollows
  <2>6. ASSUME ~pointer'.is_pressed, contact.at = "none", UNCHANGED <<w, contact>> PROVE ContactFollows'
    <3>1. contact' = contact
      BY <2>6
    <3> QED
      BY <2>6, <3>1 DEF ContactFollows
  <2>7. ContactFollows'
    BY <1>8, <2>3, <2>4, <2>5, <2>6 DEF Reads
  <2> QED
    BY <2>1, <2>7
<1>9. ASSUME NEW direction \in Directions, NEW enabled \in BOOLEAN, HandleGesture(direction, enabled)
      PROVE  PointerInv'
  <2>1. UNCHANGED <<driverVars, pointer>>
    BY <1>9 DEF HandleGesture
  <2>2. ContactFollows'
    BY <1>9, <2>1 DEF HandleGesture, ContactFollows, ContactFields
  <2> QED
    BY <1>5, <2>1, <2>2
<1> QED
  BY <1>2, <1>3, <1>4, <1>6, <1>7, <1>8, <1>9 DEF Next

\* A contact, from its start to its end, is of one finger: for any number of
\* fingers and of reports that wait, whatever frames the panel sends and however
\* late LVGL reads them (cst92xx_process, LVGL's pointer).
THEOREM PointerIsOneFingerHolds == WidgetsSpec => []PointerIsOneFinger
<1>1. PointerInv => PointerIsOneFinger
  <2> SUFFICES ASSUME PointerInv PROVE PointerIsOneFinger
    OBVIOUS
  <2>1. PICK id \in Fingers \cup {NoFinger} : contact.fingers \subseteq {id}
    BY DEF PointerInv, ContactFollows
  <2>2. IsFiniteSet({id}) /\ Cardinality({id}) = 1
    BY FS_Singleton
  <2>3. Cardinality(contact.fingers) <= Cardinality({id})
    BY <2>1, <2>2, FS_Subset
  <2> QED
    BY <2>2, <2>3 DEF PointerIsOneFinger
<1>2. PointerInv /\ [WidgetsNext]_allVars => PointerInv'
  BY PointerStep, SceneSteps DEF allVars, vars
<1> QED
  BY <1>1, <1>2, PointerStarts, PTL DEF WidgetsSpec

-----------------------------------------------------------------------------
\* The dial.  Every operator leaves a part at rest or running, and running just when
\* it was last told to and nothing kept it from starting.

PartFields ==
    {"store", "pending", "hidden", "is_group_active", "was_processing", "is_ready", "detached",
     "animation", "is_set_active", "settings", "is_synchronized", "was_eligible", "is_running",
     "start_failed", "opacity", "rotated", "rotation", "is_prepared", "angle", "target_pending",
     "icon", "image_rotation"}

TreeFields ==
    {"dial", "needle", "bound", "shown", "is_smoothed", "value", "is_value_shown", "easing", "is_left"}

IsAtRest(p) ==
    ~p.is_running => p.opacity = "cover" /\ p.rotated = p.rotation /\ (p.is_prepared <=> p.rotation # 0)

IsInStep(p) ==
    p.is_running <=>
        p.is_synchronized /\ p.was_eligible /\ p.settings /\ p.animation # "none" /\ ~p.start_failed

IsPart(p) ==
    DOMAIN p = PartFields /\ IsAtRest(p) /\ IsInStep(p) /\ p.pending \cap Dial!Management = {}

\* The needle has the angle of the dial's value, from the dial's render on; before it
\* there was no value.
Pointing(t) == t.needle.angle = Dial!GetAngleForValue(t.value) % Dial!FullTurn

IsPointed(t) ==
    /\ t.needle.animation # "rotation"
    /\ t.value \in Int
    /\ t.dial.is_ready => Pointing(t)
    /\ t.dial.is_ready \/ t.dial.detached \/ t.value = 0

IsStored(t) ==
    /\ DOMAIN t.dial.store = Dial!Types("dial") /\ DOMAIN t.needle.store = Dial!Types("needle")
    /\ t.dial.store.VALUE \in Int
    /\ "VALUE" \notin t.needle.pending

IsTree(t) ==
    /\ DOMAIN t = TreeFields
    /\ IsPart(t.dial) /\ IsPart(t.needle)
    /\ IsStored(t)
    /\ IsPointed(t)
    /\ t.needle.detached => t.dial.detached
    /\ t.easing # NotEasing => t.is_smoothed /\ t.is_value_shown

\* What is stored has been taken, unless it is kept to be.
SetIsTaken(p) == "IS_ANIMATION_ACTIVE" \in p.pending \/ p.is_set_active = p.store.IS_ANIMATION_ACTIVE

ValueIsTaken(t) ==
    \/ "VALUE" \in t.dial.pending
    \/ t.is_left
    \/ (IF t.easing = NotEasing THEN t.value ELSE t.easing) = Dial!Clamp(t.dial.store.VALUE)

IsWhole(t) == IsTree(t) /\ SetIsTaken(t.dial) /\ SetIsTaken(t.needle) /\ ValueIsTaken(t)

\* One part after another: nothing but what moves.
SameSelf(p, q) ==
    /\ q.store = p.store
    /\ q.pending = p.pending
    /\ q.hidden = p.hidden
    /\ q.is_group_active = p.is_group_active
    /\ q.is_ready = p.is_ready
    /\ q.detached = p.detached
    /\ q.animation = p.animation
    /\ q.is_set_active = p.is_set_active

Follows(p, q) == IsPart(q) /\ SameSelf(p, q) /\ q.angle = p.angle

SameLook(p, q) ==
    /\ q.store = p.store
    /\ q.is_group_active = p.is_group_active
    /\ q.is_ready = p.is_ready
    /\ q.detached = p.detached

SameTree(t, u) == SameLook(t.dial, u.dial) /\ SameLook(t.needle, u.needle) /\ u.shown = t.shown

\* What a property that is applied leaves of a tree.
Leaves(t, u) ==
    /\ IsTree(u)
    /\ SameTree(t, u)
    /\ SetIsTaken(t.dial) => SetIsTaken(u.dial)
    /\ SetIsTaken(t.needle) => SetIsTaken(u.needle)
    /\ ValueIsTaken(t) => ValueIsTaken(u)

SameSight(t, u) ==
    /\ u.dial.hidden = t.dial.hidden /\ u.needle.hidden = t.needle.hidden
    /\ u.dial.pending = t.dial.pending /\ u.needle.pending = t.needle.pending

\* What a call leaves of a tree.
Lives(t, u) == IsWhole(u) /\ u.dial.detached = t.dial.detached /\ u.needle.detached = t.needle.detached

\* What a call for the needle leaves of the dial.
Beside(t, u) ==
    /\ u.dial = t.dial /\ u.shown = t.shown /\ u.value = t.value
    /\ u.easing = t.easing /\ u.is_left = t.is_left

Synced(p, eligible) ==
    p.is_synchronized /\ p.settings = p.is_set_active /\ (p.was_eligible <=> eligible)

-----------------------------------------------------------------------------
\* A part.

LEMMA ResetPart ==
  ASSUME NEW p, DOMAIN p = PartFields
  PROVE  LET q == Dial!ResetPresentation(Dial!Cancel(p))
         IN  /\ DOMAIN q = PartFields /\ IsAtRest(q) /\ ~q.is_running
             /\ SameSelf(p, q) /\ q.angle = p.angle
BY DEF IsAtRest, SameSelf, PartFields, Dial!ResetPresentation, Dial!Cancel, Dial!ApplyRotation

LEMMA StoppedFollows ==
  ASSUME NEW p, DOMAIN p = PartFields, p.pending \cap Dial!Management = {}
  PROVE  Follows(p, Dial!StopAndReset(p)) /\ ~Dial!StopAndReset(p).is_running
<1> DEFINE reset == Dial!ResetPresentation(Dial!Cancel(p))
<1>1. /\ DOMAIN reset = PartFields /\ IsAtRest(reset) /\ ~reset.is_running
      /\ SameSelf(p, reset) /\ reset.angle = p.angle
  BY ResetPart
<1> HIDE DEF reset
<1>2. LET q == [reset EXCEPT !.is_synchronized = FALSE]
      IN  Follows(p, q) /\ ~q.is_running
  BY <1>1 DEF Follows, IsPart, IsAtRest, IsInStep, SameSelf, PartFields
<1> QED
  BY <1>2 DEF Dial!StopAndReset, reset

LEMMA StartFollows ==
  ASSUME NEW p, DOMAIN p = PartFields, IsAtRest(p), ~p.is_running, p.pending \cap Dial!Management = {},
         p.is_synchronized, p.was_eligible, p.settings, p.animation # "none", NEW full \in BOOLEAN
  PROVE  LET q == Dial!Start(p, full)
         IN  /\ Follows(p, q)
             /\ q.is_synchronized = p.is_synchronized /\ q.settings = p.settings
             /\ q.was_eligible = p.was_eligible
BY DEF Follows, IsPart, IsAtRest, IsInStep, SameSelf, PartFields, Dial!Start, Dial!ResetPresentation,
       Dial!ApplyRotation

LEMMA AnimationFollows ==
  ASSUME NEW p, IsPart(p), NEW eligible \in BOOLEAN, NEW full \in BOOLEAN
  PROVE  LET q == Dial!SynchronizeAnimation(p, eligible, full)
         IN  Follows(p, q) /\ (~p.detached => Synced(q, eligible))
<1> DEFINE reset == Dial!ResetPresentation(Dial!Cancel(p))
           stopped == [reset EXCEPT !.settings = p.is_set_active, !.is_synchronized = TRUE,
                                    !.was_eligible = eligible, !.start_failed = FALSE]
           started == Dial!Start(stopped, full)
           same == p.detached \/ (p.is_synchronized /\ p.settings = p.is_set_active /\ p.was_eligible = eligible)
           starts == eligible /\ p.is_set_active /\ p.animation # "none"
<1>1. /\ DOMAIN reset = PartFields /\ IsAtRest(reset) /\ ~reset.is_running
      /\ SameSelf(p, reset) /\ reset.angle = p.angle
  BY ResetPart DEF IsPart
<1> HIDE DEF reset
<1>2. /\ DOMAIN stopped = PartFields /\ IsAtRest(stopped) /\ ~stopped.is_running
      /\ SameSelf(p, stopped) /\ stopped.angle = p.angle
      /\ stopped.is_synchronized = TRUE /\ stopped.settings = p.is_set_active
      /\ stopped.was_eligible = eligible /\ stopped.start_failed = FALSE
      /\ stopped.pending \cap Dial!Management = {}
  BY <1>1 DEF IsPart, IsAtRest, SameSelf, PartFields
<1>3. Dial!SynchronizeAnimation(p, eligible, full) = IF same THEN p ELSE IF starts THEN started ELSE stopped
  BY DEF Dial!SynchronizeAnimation, stopped, reset
<1> HIDE DEF stopped
<1>4. CASE same
  BY <1>3, <1>4 DEF Follows, SameSelf, Synced
<1>5. CASE ~same /\ starts
  <2>1. /\ Follows(stopped, started)
        /\ started.is_synchronized = stopped.is_synchronized /\ started.settings = stopped.settings
        /\ started.was_eligible = stopped.was_eligible
    BY <1>2, <1>5, StartFollows DEF SameSelf
  <2> HIDE DEF started
  <2> QED
    BY <1>2, <1>3, <1>5, <2>1 DEF Follows, SameSelf, Synced
<1>6. CASE ~same /\ ~starts
  <2>1. IsInStep(stopped)
    BY <1>2, <1>6 DEF IsInStep, SameSelf
  <2> QED
    BY <1>2, <1>3, <1>6, <2>1 DEF Follows, IsPart, SameSelf, Synced
<1> QED
  BY <1>4, <1>5, <1>6

LEMMA AnchorFollows ==
  ASSUME NEW p, IsPart(p), NEW eligible
  PROVE  LET q == Dial!UpdateAnchor(p, eligible)
         IN  /\ Follows(p, q)
             /\ q.is_synchronized = p.is_synchronized /\ q.settings = p.settings
             /\ q.was_eligible = p.was_eligible /\ q.icon = p.icon
BY DEF Follows, IsPart, IsAtRest, IsInStep, SameSelf, PartFields, Dial!UpdateAnchor, Dial!TurnTarget, Dial!ApplyRotation

\* A target that takes its angle points there.
LEMMA AnchorPoints ==
  ASSUME NEW p, IsPart(p), ~p.detached, p.is_ready, p.animation # "rotation", p.angle # NoAngle
  PROVE  LET q == Dial!UpdateAnchor(p, TRUE)
         IN  (IF q.icon = "image" THEN q.image_rotation ELSE q.rotation) = p.angle
BY DEF IsPart, PartFields, Dial!UpdateAnchor, Dial!TurnTarget, Dial!ApplyRotation, Dial!CanSetRotation

LEMMA RotationFollows ==
  ASSUME NEW p, IsPart(p), NEW eligible, NEW angle
  PROVE  LET q == Dial!SetRotation(p, eligible, angle)
         IN  /\ IsPart(q) /\ SameSelf(p, q)
             /\ ~p.detached /\ p.animation # "rotation" => q.angle = angle % Dial!FullTurn
<1> DEFINE kept == [p EXCEPT !.angle = angle % Dial!FullTurn]
<1>1. IsPart(kept) /\ SameSelf(p, kept) /\ kept.angle = angle % Dial!FullTurn
  BY DEF IsPart, IsAtRest, IsInStep, SameSelf, PartFields
<1>2. Dial!SetRotation(p, eligible, angle) =
        IF p.detached \/ p.animation = "rotation" THEN p
        ELSE IF p.is_ready /\ eligible THEN Dial!UpdateAnchor(kept, eligible) ELSE kept
  BY DEF Dial!SetRotation, Dial!CanSetRotation, IsPart, PartFields
<1> HIDE DEF kept
<1>3. Follows(kept, Dial!UpdateAnchor(kept, eligible))
  BY <1>1, AnchorFollows
<1> QED
  BY <1>1, <1>2, <1>3 DEF Follows, SameSelf

LEMMA ProcessingFollows ==
  ASSUME NEW p, IsPart(p), NEW enabled \in BOOLEAN, NEW full \in BOOLEAN
  PROVE  LET q == Dial!TransformProcessingUpdated(p, enabled, full)
         IN  Follows(p, q) /\ (~enabled /\ ~p.detached => Synced(q, FALSE))
<1>1. Follows(p, p)
  BY DEF Follows, SameSelf
<1> QED
  BY <1>1, AnimationFollows, AnchorFollows DEF Dial!TransformProcessingUpdated

LEMMA RenderedFollows ==
  ASSUME NEW p, IsPart(p), NEW eligible
  PROVE  Follows(p, Dial!OnRendered(p, eligible))
<1> DEFINE pending == [p EXCEPT !.target_pending = TRUE]
<1>1. Follows(p, pending)
  BY DEF Follows, IsPart, IsAtRest, IsInStep, SameSelf, PartFields
<1> HIDE DEF pending
<1>2. Follows(pending, Dial!UpdateAnchor(pending, eligible))
  BY <1>1, AnchorFollows DEF Follows
<1> QED
  BY <1>1, <1>2 DEF Follows, SameSelf, Dial!OnRendered, pending

LEMMA ExecuteFollows ==
  ASSUME NEW p, IsPart(p), p.is_running, NEW eligible, NEW opacity, NEW angle
  PROVE  Follows(p, Dial!Execute(p, eligible, opacity, angle))
<1> DEFINE reset == Dial!ResetPresentation(Dial!Cancel(p))
<1>1. /\ DOMAIN reset = PartFields /\ IsAtRest(reset) /\ ~reset.is_running
      /\ SameSelf(p, reset) /\ reset.angle = p.angle
  BY ResetPart DEF IsPart
<1> HIDE DEF reset
<1>2. Follows(p, [reset EXCEPT !.was_eligible = FALSE])
  BY <1>1 DEF Follows, IsPart, IsAtRest, IsInStep, SameSelf, PartFields
<1>3. Follows(p, [p EXCEPT !.opacity = opacity]) /\ Follows(p, [p EXCEPT !.rotated = angle])
  BY DEF Follows, IsPart, IsAtRest, IsInStep, SameSelf, PartFields
<1> QED
  BY <1>2, <1>3 DEF Dial!Execute, reset

-----------------------------------------------------------------------------
\* Trees.

LEMMA BothParts == "dial" \in Dial!Parts /\ "needle" \in Dial!Parts
BY DEF Dial!Parts

LEMMA LeavesItself ==
  ASSUME NEW t, IsTree(t)
  PROVE  Leaves(t, t) /\ SameSight(t, t)
BY DEF Leaves, SameTree, SameLook, SameSight

LEMMA LeavesOn ==
  ASSUME NEW t, NEW u, NEW v, Leaves(t, u), Leaves(u, v)
  PROVE  Leaves(t, v)
BY DEF Leaves, SameTree, SameLook

LEMMA SightOn ==
  ASSUME NEW t, NEW u, NEW v, SameSight(t, u), SameSight(u, v)
  PROVE  SameSight(t, v)
BY DEF SameSight

LEMMA LeavesWhole ==
  ASSUME NEW t, NEW u, IsWhole(t), Leaves(t, u)
  PROVE  Lives(t, u)
BY DEF IsWhole, Leaves, Lives, SameTree, SameLook

LEMMA LivesOn ==
  ASSUME NEW t, NEW u, NEW v, Lives(t, u), Lives(u, v)
  PROVE  Lives(t, v)
BY DEF Lives

\* Whether a part is processed depends on what applying a property leaves.
LEMMA EligibleSeen ==
  ASSUME NEW t, NEW u, SameTree(t, u), u.dial.hidden = t.dial.hidden, u.needle.hidden = t.needle.hidden,
         NEW part \in Dial!Parts
  PROVE  /\ Dial!IsProcessingEligible(u, part) <=> Dial!IsProcessingEligible(t, part)
         /\ Dial!IsAnimationEligible(u, part) <=> Dial!IsAnimationEligible(t, part)
BY DEF SameTree, SameLook, Dial!Parts, Dial!IsProcessingEligible, Dial!IsAnimationEligible, Dial!IsSelfEnabled

LEMMA EligibleSame ==
  ASSUME NEW t, NEW u, SameTree(t, u), SameSight(t, u), NEW part \in Dial!Parts
  PROVE  /\ Dial!IsProcessingEligible(u, part) <=> Dial!IsProcessingEligible(t, part)
         /\ Dial!IsAnimationEligible(u, part) <=> Dial!IsAnimationEligible(t, part)
BY DEF SameTree, SameLook, SameSight, Dial!Parts, Dial!IsProcessingEligible, Dial!IsAnimationEligible, Dial!IsSelfEnabled

LEMMA PartOf ==
  ASSUME NEW t, IsTree(t), NEW part \in Dial!Parts
  PROVE  IsPart(t[part])
BY DEF IsTree, Dial!Parts

\* A part takes the place of the one before it.
LEMMA PartReplaced ==
  ASSUME NEW t, IsTree(t), NEW part \in Dial!Parts, NEW p, Follows(t[part], p)
  PROVE  LET u == [t EXCEPT ![part] = p]
         IN  /\ Leaves(t, u) /\ SameSight(t, u) /\ u[part] = p
             /\ u.easing = t.easing
             /\ part = "needle" => Beside(t, u)
<1> DEFINE u == [t EXCEPT ![part] = p]
<1>1. CASE part = "dial"
  <2>1. /\ DOMAIN u = TreeFields /\ u.dial = p /\ u.needle = t.needle /\ u.shown = t.shown
        /\ u.is_smoothed = t.is_smoothed /\ u.value = t.value /\ u.is_value_shown = t.is_value_shown
        /\ u.easing = t.easing /\ u.is_left = t.is_left
    BY <1>1 DEF IsTree, TreeFields
  <2> HIDE DEF u
  <2>2. IsPart(p) /\ SameSelf(t.dial, p)
    BY <1>1 DEF Follows
  <2>3. IsTree(u)
    BY <2>1, <2>2 DEF IsTree, IsStored, IsPointed, Pointing, SameSelf
  <2>4. Leaves(t, u) /\ SameSight(t, u)
    BY <2>1, <2>2, <2>3 DEF Leaves, SameTree, SameLook, SameSight, SameSelf, SetIsTaken, ValueIsTaken
  <2> QED
    BY <1>1, <2>1, <2>4 DEF u
<1>2. CASE part = "needle"
  <2>1. /\ DOMAIN u = TreeFields /\ u.needle = p /\ u.dial = t.dial /\ u.shown = t.shown
        /\ u.is_smoothed = t.is_smoothed /\ u.value = t.value /\ u.is_value_shown = t.is_value_shown
        /\ u.easing = t.easing /\ u.is_left = t.is_left
    BY <1>2 DEF IsTree, TreeFields
  <2> HIDE DEF u
  <2>2. IsPart(p) /\ SameSelf(t.needle, p) /\ p.angle = t.needle.angle
    BY <1>2 DEF Follows
  <2>3. IsTree(u)
    BY <2>1, <2>2 DEF IsTree, IsStored, IsPointed, Pointing, SameSelf
  <2>4. Leaves(t, u) /\ SameSight(t, u)
    BY <2>1, <2>2, <2>3 DEF Leaves, SameTree, SameLook, SameSight, SameSelf, SetIsTaken, ValueIsTaken
  <2> QED
    BY <1>2, <2>1, <2>4 DEF u, Beside
<1> QED
  BY <1>1, <1>2 DEF Dial!Parts

LEMMA SynchronizeTransformLeaves ==
  ASSUME NEW t, IsTree(t), NEW part \in Dial!Parts, NEW full \in BOOLEAN
  PROVE  LET u == Dial!SynchronizeTransform(t, part, full)
         IN  /\ Leaves(t, u) /\ SameSight(t, u)
             /\ ~t[part].detached => Synced(u[part], Dial!IsAnimationEligible(t, part))
             /\ part = "needle" => Beside(t, u)
<1> DEFINE e == Dial!IsAnimationEligible(t, part)
           p == Dial!SynchronizeAnimation(t[part], e, full)
<1>1. e \in BOOLEAN
  BY DEF Dial!IsAnimationEligible
<1>2. Dial!SynchronizeTransform(t, part, full) = [t EXCEPT ![part] = p]
  BY DEF Dial!SynchronizeTransform
<1> HIDE DEF e
<1>3. Follows(t[part], p) /\ (~t[part].detached => Synced(p, e))
  BY <1>1, PartOf, AnimationFollows
<1>4. Follows(t[part], p)
  BY <1>3
<1> HIDE DEF p
<1>5. LET u == [t EXCEPT ![part] = p]
      IN  /\ Leaves(t, u) /\ SameSight(t, u) /\ u[part] = p
          /\ part = "needle" => Beside(t, u)
  BY <1>4, PartReplaced
<1> QED
  BY <1>2, <1>3, <1>5 DEF e

LEMMA AnchoredLeaves ==
  ASSUME NEW t, IsTree(t), NEW part \in Dial!Parts
  PROVE  LET u == Dial!Anchored(t, part)
         IN  /\ Leaves(t, u) /\ SameSight(t, u)
             /\ \A e : Synced(t[part], e) => Synced(u[part], e)
             /\ u[part].is_running = t[part].is_running
             /\ part = "needle" => Beside(t, u)
<1> DEFINE p == Dial!UpdateAnchor(t[part], Dial!IsProcessingEligible(t, part))
<1>1. /\ Follows(t[part], p)
      /\ p.is_synchronized = t[part].is_synchronized /\ p.settings = t[part].settings
      /\ p.was_eligible = t[part].was_eligible
  BY PartOf, AnchorFollows
<1>2. Dial!Anchored(t, part) = [t EXCEPT ![part] = p]
  BY DEF Dial!Anchored
<1>3. p.is_running = t[part].is_running
  BY PartOf DEF IsPart, PartFields, Dial!UpdateAnchor, Dial!TurnTarget, Dial!ApplyRotation
<1> HIDE DEF p
<1>4. LET u == [t EXCEPT ![part] = p]
      IN  /\ Leaves(t, u) /\ SameSight(t, u) /\ u[part] = p
          /\ part = "needle" => Beside(t, u)
  BY <1>1, PartReplaced
<1> QED
  BY <1>1, <1>2, <1>3, <1>4 DEF Synced, Follows, SameSelf

LEMMA AngleIsInt ==
  ASSUME NEW value \in Int
  PROVE  Dial!GetAngleForValue(value) % Dial!FullTurn \in Int
<1>1. Dial!GetAngleForValue(value) \in Int
  <2>1. CASE MaxValue = 0
    BY <2>1 DEF Dial!GetAngleForValue, Dial!StartAngle, Dial!EndAngle
  <2>2. CASE MaxValue # 0
    <3> DEFINE tenths == (Dial!EndAngle - Dial!StartAngle) * 10 * value
    <3>1. tenths \in Int
      BY DEF Dial!StartAngle, Dial!EndAngle
    <3> HIDE DEF tenths
    <3>2. tenths \div MaxValue \in Int
      BY <2>2, <3>1, MaxValueAssumption
    <3> QED
      BY <2>2, <3>2 DEF Dial!GetAngleForValue, Dial!StartAngle, tenths
  <2> QED
    BY <2>1, <2>2
<1> QED
  BY <1>1 DEF Dial!FullTurn

\* The needle is given an angle; the tree is one again once the dial has the value.
LEMMA IndicatorTurns ==
  ASSUME NEW t, IsTree(t), NEW value
  PROVE  LET u == Dial!UpdateIndicator(t, value)
         IN  /\ DOMAIN u = TreeFields /\ Beside(t, u)
             /\ u.is_smoothed = t.is_smoothed /\ u.is_value_shown = t.is_value_shown
             /\ IsPart(u.needle) /\ SameSelf(t.needle, u.needle)
             /\ ~t.needle.detached => u.needle.angle = Dial!GetAngleForValue(value) % Dial!FullTurn
<1> DEFINE p == Dial!SetRotation(t.needle, Dial!IsProcessingEligible(t, "needle"), Dial!GetAngleForValue(value))
<1>1. /\ IsPart(p) /\ SameSelf(t.needle, p)
      /\ ~t.needle.detached => p.angle = Dial!GetAngleForValue(value) % Dial!FullTurn
  BY RotationFollows DEF IsTree, IsPointed
<1>2. Dial!UpdateIndicator(t, value) = [t EXCEPT !.needle = p]
  BY DEF Dial!UpdateIndicator
<1> HIDE DEF p
<1> QED
  BY <1>1, <1>2 DEF IsTree, TreeFields, Beside

LEMMA EaseSuspendedLeaves ==
  ASSUME NEW t, IsTree(t)
  PROVE  LET u == Dial!EaseSuspended(t)
         IN  /\ Leaves(t, u) /\ u.easing = NotEasing
             /\ u.dial.hidden = t.dial.hidden /\ u.needle = t.needle
             /\ t.easing # NotEasing => "VALUE" \in u.dial.pending
<1> DEFINE p == [t.dial EXCEPT !.pending = t.dial.pending \cup {"VALUE"}]
           u == [t EXCEPT !.easing = NotEasing, !.dial = p]
<1>1. CASE t.easing = NotEasing
  BY <1>1, LeavesItself DEF Dial!EaseSuspended
<1>2. CASE t.easing # NotEasing
  <2>1. /\ IsPart(p) /\ p.store = t.dial.store /\ p.is_group_active = t.dial.is_group_active
        /\ p.is_ready = t.dial.is_ready /\ p.detached = t.dial.detached /\ p.hidden = t.dial.hidden
        /\ p.is_set_active = t.dial.is_set_active /\ p.pending = t.dial.pending \cup {"VALUE"}
    BY DEF IsTree, IsPart, IsAtRest, IsInStep, PartFields, Dial!Management
  <2> HIDE DEF p
  <2>2. /\ DOMAIN u = TreeFields /\ u.dial = p /\ u.needle = t.needle /\ u.shown = t.shown
        /\ u.is_smoothed = t.is_smoothed /\ u.value = t.value /\ u.is_value_shown = t.is_value_shown
        /\ u.easing = NotEasing /\ u.is_left = t.is_left
    BY DEF IsTree, TreeFields
  <2> HIDE DEF u
  <2>3. IsTree(u)
    BY <2>1, <2>2 DEF IsTree, IsStored, IsPointed, Pointing
  <2>4. Leaves(t, u)
    BY <2>1, <2>2, <2>3 DEF Leaves, SameTree, SameLook, SetIsTaken, ValueIsTaken
  <2>5. Dial!EaseSuspended(t) = u
    BY <1>2, MarksAssumption DEF Dial!EaseSuspended, u, p, IsTree, TreeFields
  <2> QED
    BY <2>1, <2>2, <2>4, <2>5
<1> QED
  BY <1>1, <1>2

\* The value that the dial shows moves with its needle.
LEMMA CallbackLeaves ==
  ASSUME NEW t, IsTree(t), NEW value \in Int
  PROVE  LET u == Dial!UpdateIndicatorCallback(t, value)
         IN  /\ IsTree(u) /\ SameTree(t, u)
             /\ SetIsTaken(t.dial) => SetIsTaken(u.dial)
             /\ SetIsTaken(t.needle) => SetIsTaken(u.needle)
             /\ u.dial.hidden = t.dial.hidden /\ u.needle.hidden = t.needle.hidden
             /\ u.needle.pending = t.needle.pending
             /\ IF Dial!IsAnimationEligible(t, "dial")
                THEN /\ u.value = value /\ u.is_value_shown = TRUE /\ u.easing = t.easing
                     /\ u.is_left = t.is_left /\ u.dial = t.dial
                ELSE u = Dial!EaseSuspended(t)
<1> DEFINE turned == Dial!UpdateIndicator(t, value)
           u == [turned EXCEPT !.value = value, !.is_value_shown = TRUE]
<1>1. CASE ~Dial!IsAnimationEligible(t, "dial")
  BY <1>1, EaseSuspendedLeaves DEF Dial!UpdateIndicatorCallback, Leaves
<1>2. CASE Dial!IsAnimationEligible(t, "dial")
  <2>1. ~t.needle.detached /\ t.dial.is_ready
    BY <1>2 DEF Dial!IsAnimationEligible, Dial!IsProcessingEligible, Dial!IsSelfEnabled, IsTree
  <2>2. /\ DOMAIN turned = TreeFields /\ Beside(t, turned)
        /\ turned.is_smoothed = t.is_smoothed /\ turned.is_value_shown = t.is_value_shown
        /\ IsPart(turned.needle) /\ SameSelf(t.needle, turned.needle)
        /\ turned.needle.angle = Dial!GetAngleForValue(value) % Dial!FullTurn
    BY <2>1, IndicatorTurns
  <2> HIDE DEF turned
  <2>3. /\ DOMAIN u = TreeFields /\ u.dial = t.dial /\ u.needle = turned.needle /\ u.shown = t.shown
        /\ u.easing = t.easing /\ u.is_left = t.is_left /\ u.is_smoothed = t.is_smoothed
        /\ u.value = value /\ u.is_value_shown = TRUE
    BY <2>2 DEF TreeFields, Beside
  <2> HIDE DEF u
  <2>4. IsTree(u)
    BY <2>1, <2>2, <2>3 DEF IsTree, IsStored, IsPointed, Pointing, SameSelf
  <2>5. Dial!UpdateIndicatorCallback(t, value) = u
    BY <1>2 DEF Dial!UpdateIndicatorCallback, u, turned
  <2> QED
    BY <1>2, <2>2, <2>3, <2>4, <2>5 DEF SameTree, SameLook, SameSelf, SetIsTaken
<1> QED
  BY <1>1, <1>2

\* Fields of the tree beside its parts.
LEMMA LeftLeaves ==
  ASSUME NEW t, IsTree(t), NEW x
  PROVE  LET left == [t EXCEPT !.is_left = x]
         IN  /\ IsTree(left) /\ SameTree(t, left) /\ SameSight(t, left)
             /\ left.dial = t.dial /\ left.needle = t.needle /\ left.value = t.value
             /\ left.easing = t.easing /\ left.is_left = x
BY DEF IsTree, IsStored, IsPointed, Pointing, TreeFields, SameTree, SameLook, SameSight

LEMMA EasedLeaves ==
  ASSUME NEW t, IsTree(t)
  PROVE  LET eased == [t EXCEPT !.easing = NotEasing]
         IN  /\ IsTree(eased) /\ SameTree(t, eased) /\ SameSight(t, eased)
             /\ eased.dial = t.dial /\ eased.needle = t.needle /\ eased.value = t.value
             /\ eased.easing = NotEasing /\ eased.is_left = t.is_left
BY DEF IsTree, IsStored, IsPointed, Pointing, TreeFields, SameTree, SameLook, SameSight

\* What is stored is what the dial shows next, at once or in a while, or leaves out.
LEMMA UpdateLeaves ==
  ASSUME NEW t, IsTree(t), NEW full \in BOOLEAN
  PROVE  LET u == Dial!Update(t, full)
         IN  /\ Leaves(t, u) /\ SameSight(t, u)
             /\ Dial!IsAnimationEligible(t, "dial") => ValueIsTaken(u)
<1> DEFINE value == Dial!Clamp(t.dial.store.VALUE)
           fresh == [t EXCEPT !.is_left = FALSE]
           shown == Dial!UpdateIndicatorCallback(fresh, value)
           left == [t EXCEPT !.is_left = t.easing # NotEasing]
           eased == [t EXCEPT !.easing = IF full THEN NotEasing ELSE value, !.is_left = full]
           Updated(u) == IsTree(u) /\ SameTree(t, u) /\ SameSight(t, u) /\ ValueIsTaken(u)
                         /\ u.dial.is_set_active = t.dial.is_set_active
                         /\ u.needle.is_set_active = t.needle.is_set_active
<1>1. value \in Int
  BY MaxValueAssumption DEF Dial!Clamp, IsTree, IsStored
<1> HIDE DEF value
<1>2. CASE ~Dial!IsAnimationEligible(t, "dial")
  BY <1>2, LeavesItself DEF Dial!Update
<1>3. ASSUME Dial!IsAnimationEligible(t, "dial"), ~(t.is_smoothed /\ t.is_value_shown)
      PROVE  Updated(shown)
  <2>1. /\ IsTree(fresh) /\ SameTree(t, fresh) /\ SameSight(t, fresh)
        /\ fresh.dial = t.dial /\ fresh.needle = t.needle /\ fresh.easing = t.easing
    BY LeftLeaves
  <2> HIDE DEF fresh
  <2>2. Dial!IsAnimationEligible(fresh, "dial")
    BY <1>3, <2>1, EligibleSame, BothParts
  <2>3. /\ IsTree(shown) /\ SameTree(fresh, shown) /\ shown.dial = fresh.dial
        /\ shown.needle.hidden = fresh.needle.hidden /\ shown.needle.pending = fresh.needle.pending
        /\ shown.value = value /\ shown.easing = fresh.easing
    BY <1>1, <2>1, <2>2, CallbackLeaves
  <2>4. shown.needle.is_set_active = fresh.needle.is_set_active
    <3>1. SameSelf(fresh.needle, Dial!UpdateIndicator(fresh, value).needle)
          /\ DOMAIN Dial!UpdateIndicator(fresh, value) = TreeFields
      BY <2>1, IndicatorTurns
    <3> QED
      BY <2>2, <3>1 DEF Dial!UpdateIndicatorCallback, SameSelf, TreeFields
  <2> HIDE DEF shown
  <2>5. t.easing = NotEasing
    BY <1>3 DEF IsTree
  <2> QED
    BY <2>1, <2>3, <2>4, <2>5 DEF SameTree, SameLook, SameSight, ValueIsTaken, value
<1>4. ASSUME value = t.value PROVE Updated(left)
  <2>1. /\ IsTree(left) /\ SameTree(t, left) /\ SameSight(t, left)
        /\ left.dial = t.dial /\ left.needle = t.needle /\ left.value = t.value
        /\ left.easing = t.easing /\ left.is_left = (t.easing # NotEasing)
    <3>1. PICK near : near = (t.easing # NotEasing)
      OBVIOUS
    <3> DEFINE set == [t EXCEPT !.is_left = near]
    <3>2. /\ IsTree(set) /\ SameTree(t, set) /\ SameSight(t, set)
          /\ set.dial = t.dial /\ set.needle = t.needle /\ set.value = t.value
          /\ set.easing = t.easing /\ set.is_left = near
      BY LeftLeaves
    <3>3. left = set
      BY <3>1
    <3> QED
      BY <3>1, <3>2, <3>3
  <2> HIDE DEF left
  <2> QED
    BY <1>4, <2>1 DEF ValueIsTaken, value
<1>5. ASSUME t.is_smoothed /\ t.is_value_shown PROVE Updated(eased)
  <2>1. /\ DOMAIN eased = TreeFields /\ eased.dial = t.dial /\ eased.needle = t.needle
        /\ eased.shown = t.shown /\ eased.is_smoothed = t.is_smoothed /\ eased.value = t.value
        /\ eased.is_value_shown = t.is_value_shown /\ eased.is_left = full
        /\ eased.easing = IF full THEN NotEasing ELSE value
    BY DEF IsTree, TreeFields
  <2> HIDE DEF eased
  <2>2. IsTree(eased)
    BY <1>5, <2>1 DEF IsTree, IsStored, IsPointed, Pointing
  <2>3. ValueIsTaken(eased)
    <3>1. CASE full
      BY <2>1, <3>1 DEF ValueIsTaken
    <3>2. CASE ~full
      <4>1. eased.easing = value /\ value # NotEasing
        BY <1>1, <2>1, <3>2, MarksAssumption
      <4> QED
        BY <2>1, <4>1 DEF ValueIsTaken, value
    <3> QED
      BY <3>1, <3>2
  <2> QED
    BY <2>1, <2>2, <2>3 DEF SameTree, SameLook, SameSight
<1>6. ASSUME NEW u, Updated(u) PROVE Leaves(t, u) /\ SameSight(t, u) /\ ValueIsTaken(u)
  BY <1>6 DEF Leaves, SameTree, SameLook, SameSight, SetIsTaken
<1>7. Dial!IsAnimationEligible(t, "dial") =>
        Dial!Update(t, full) = IF ~(t.is_smoothed /\ t.is_value_shown) THEN shown
                               ELSE IF value = t.value THEN left ELSE eased
  BY DEF Dial!Update, Dial!ValueChangeAnimation, value
<1> HIDE DEF shown, left, eased, Updated
<1> QED
  BY <1>2, <1>3, <1>4, <1>5, <1>6, <1>7

\* A part with other fields.
Changes(t, part, p, u) ==
    /\ IsTree(u)
    /\ u[part] = p
    /\ part = "dial" => u.dial = p /\ u.needle = t.needle
    /\ part = "needle" => u.needle = p /\ u.dial = t.dial
    /\ u.shown = t.shown /\ u.value = t.value /\ u.easing = t.easing /\ u.is_left = t.is_left

LEMMA PartChanged ==
  ASSUME NEW t, IsTree(t), NEW part \in Dial!Parts, NEW p, IsPart(p),
         DOMAIN p.store = Dial!Types(part), part = "dial" => p.store.VALUE \in Int,
         part = "needle" => "VALUE" \notin p.pending,
         p.is_ready <=> t[part].is_ready, p.detached = t[part].detached,
         p.animation = t[part].animation, p.angle = t[part].angle
  PROVE  Changes(t, part, p, [t EXCEPT ![part] = p])
<1> DEFINE u == [t EXCEPT ![part] = p]
<1>1. CASE part = "dial"
  <2>1. /\ DOMAIN u = TreeFields /\ u.dial = p /\ u.needle = t.needle /\ u.shown = t.shown
        /\ u.is_smoothed = t.is_smoothed /\ u.value = t.value /\ u.is_value_shown = t.is_value_shown
        /\ u.easing = t.easing /\ u.is_left = t.is_left
    BY <1>1 DEF IsTree, TreeFields
  <2> HIDE DEF u
  <2>2. IsTree(u)
    BY <1>1, <2>1 DEF IsTree, IsStored, IsPointed, Pointing
  <2> QED
    BY <1>1, <2>1, <2>2 DEF Changes, u
<1>2. CASE part = "needle"
  <2>1. /\ DOMAIN u = TreeFields /\ u.needle = p /\ u.dial = t.dial /\ u.shown = t.shown
        /\ u.is_smoothed = t.is_smoothed /\ u.value = t.value /\ u.is_value_shown = t.is_value_shown
        /\ u.easing = t.easing /\ u.is_left = t.is_left
    BY <1>2 DEF IsTree, TreeFields
  <2> HIDE DEF u
  <2>2. IsTree(u)
    BY <1>2, <2>1 DEF IsTree, IsStored, IsPointed, Pointing
  <2> QED
    BY <1>2, <2>1, <2>2 DEF Changes, u
<1> QED
  BY <1>1, <1>2 DEF Dial!Parts

LEMMA StoreOf ==
  ASSUME NEW t, IsTree(t), NEW part \in Dial!Parts
  PROVE  /\ DOMAIN t[part].store = Dial!Types(part)
         /\ part = "dial" => t[part].store.VALUE \in Int
         /\ part = "needle" => "VALUE" \notin t[part].pending
BY DEF IsTree, IsStored, Dial!Parts

LEMMA HiddenLeaves ==
  ASSUME NEW t, IsTree(t), NEW part \in Dial!Parts, NEW x
  PROVE  LET u == [t EXCEPT ![part] = [t[part] EXCEPT !.hidden = x]]
         IN  Leaves(t, u) /\ (part = "needle" => Beside(t, u))
<1> DEFINE p == [t[part] EXCEPT !.hidden = x]
<1>1. /\ IsPart(p) /\ p.store = t[part].store /\ p.pending = t[part].pending
      /\ p.is_ready = t[part].is_ready /\ p.detached = t[part].detached
      /\ p.animation = t[part].animation /\ p.angle = t[part].angle
      /\ p.is_group_active = t[part].is_group_active /\ p.is_set_active = t[part].is_set_active
  BY PartOf DEF IsPart, IsAtRest, IsInStep, PartFields
<1> HIDE DEF p
<1>2. Changes(t, part, p, [t EXCEPT ![part] = p])
  BY <1>1, StoreOf, PartChanged
<1>3. ASSUME NEW u, Changes(t, part, p, u)
      PROVE  Leaves(t, u) /\ (part = "needle" => Beside(t, u))
  BY <1>1, <1>3 DEF Changes, Leaves, SameTree, SameLook, SetIsTaken, ValueIsTaken, Beside, Dial!Parts
<1> QED
  BY <1>2, <1>3 DEF p

LEMMA SetLeaves ==
  ASSUME NEW t, IsTree(t), NEW part \in Dial!Parts
  PROVE  LET u == [t EXCEPT ![part] = [t[part] EXCEPT !.is_set_active = t[part].store.IS_ANIMATION_ACTIVE]]
         IN  /\ Leaves(t, u) /\ SameSight(t, u) /\ SetIsTaken(u[part])
             /\ part = "needle" => Beside(t, u)
<1> DEFINE p == [t[part] EXCEPT !.is_set_active = t[part].store.IS_ANIMATION_ACTIVE]
<1>1. /\ IsPart(p) /\ p.store = t[part].store /\ p.pending = t[part].pending
      /\ p.is_ready = t[part].is_ready /\ p.detached = t[part].detached
      /\ p.animation = t[part].animation /\ p.angle = t[part].angle /\ p.hidden = t[part].hidden
      /\ p.is_group_active = t[part].is_group_active
      /\ p.is_set_active = t[part].store.IS_ANIMATION_ACTIVE
  BY PartOf DEF IsPart, IsAtRest, IsInStep, PartFields
<1> HIDE DEF p
<1>2. Changes(t, part, p, [t EXCEPT ![part] = p])
  BY <1>1, StoreOf, PartChanged
<1>3. ASSUME NEW u, Changes(t, part, p, u)
      PROVE  /\ Leaves(t, u) /\ SameSight(t, u) /\ SetIsTaken(u[part])
             /\ part = "needle" => Beside(t, u)
  BY <1>1, <1>3 DEF Changes, Leaves, SameTree, SameLook, SameSight, SetIsTaken, ValueIsTaken, Beside, Dial!Parts
<1> QED
  BY <1>2, <1>3 DEF p

\* What is kept to be applied is another.
PendingChanges(t, part, x, u) ==
    /\ IsTree(u) /\ SameTree(t, u)
    /\ u.dial.hidden = t.dial.hidden /\ u.needle.hidden = t.needle.hidden
    /\ u[part].pending = x
    /\ "IS_ANIMATION_ACTIVE" \in x \/ ("IS_ANIMATION_ACTIVE" \notin t[part].pending /\ SetIsTaken(t[part]))
         => SetIsTaken(u[part])
    /\ \A other \in Dial!Parts \ {part} : SetIsTaken(t[other]) => SetIsTaken(u[other])
    /\ part = "needle" => Beside(t, u)
    /\ part = "needle" /\ ValueIsTaken(t) => ValueIsTaken(u)
    /\ part = "dial" /\ ("VALUE" \in x \/ ("VALUE" \notin t.dial.pending /\ ValueIsTaken(t))) => ValueIsTaken(u)

LEMMA PendingKept ==
  ASSUME NEW t, IsTree(t), NEW part \in Dial!Parts, NEW x, x \cap Dial!Management = {},
         part = "needle" => "VALUE" \notin x
  PROVE  PendingChanges(t, part, x, [t EXCEPT ![part] = [t[part] EXCEPT !.pending = x]])
<1> DEFINE p == [t[part] EXCEPT !.pending = x]
<1>1. /\ IsPart(p) /\ p.store = t[part].store /\ p.pending = x
      /\ p.is_ready = t[part].is_ready /\ p.detached = t[part].detached
      /\ p.animation = t[part].animation /\ p.angle = t[part].angle /\ p.hidden = t[part].hidden
      /\ p.is_group_active = t[part].is_group_active /\ p.is_set_active = t[part].is_set_active
  BY PartOf DEF IsPart, IsAtRest, IsInStep, PartFields
<1> HIDE DEF p
<1>2. Changes(t, part, p, [t EXCEPT ![part] = p])
  BY <1>1, StoreOf, PartChanged
<1>3. ASSUME NEW u, Changes(t, part, p, u)
      PROVE  PendingChanges(t, part, x, u)
  BY <1>1, <1>3 DEF PendingChanges, Changes, SameTree, SameLook, SetIsTaken, ValueIsTaken, Beside, Dial!Parts
<1> QED
  BY <1>2, <1>3 DEF p

-----------------------------------------------------------------------------
\* The life of a part.

LEMMA ProcessingLeaves ==
  ASSUME NEW t, IsTree(t), NEW part \in Dial!Parts, NEW full \in BOOLEAN
  PROVE  LET u == Dial!UpdateProcessingState(t, part, full)
         IN  /\ Leaves(t, u)
             /\ u.dial.hidden = t.dial.hidden /\ u.needle.hidden = t.needle.hidden
             /\ ~Dial!IsAnimationEligible(t, part) /\ ~t[part].detached => Synced(u[part], FALSE)
             /\ part = "needle" => Beside(t, u)
<1> DEFINE enabled == Dial!IsAnimationEligible(t, part)
           suspended == IF t[part].was_processing /\ ~enabled THEN Dial!OnProcessingSuspended(t, part) ELSE t
           told == [suspended[part] EXCEPT !.was_processing = enabled]
           moved == Dial!TransformProcessingUpdated(told, enabled, full)
           u == [suspended EXCEPT ![part] = moved]
<1>1. enabled \in BOOLEAN
  BY DEF Dial!IsAnimationEligible
<1>2. /\ Leaves(t, suspended)
      /\ suspended.dial.hidden = t.dial.hidden /\ suspended.needle.hidden = t.needle.hidden
      /\ part = "needle" => suspended = t
  BY LeavesItself, EaseSuspendedLeaves DEF SameSight, Dial!OnProcessingSuspended, Dial!Parts
<1>3. Dial!UpdateProcessingState(t, part, full) = IF t[part].detached THEN t ELSE u
  BY DEF Dial!UpdateProcessingState
<1> HIDE DEF enabled, suspended
<1>4. IsPart(suspended[part])
  BY <1>2, PartOf DEF Leaves
<1>5. Follows(suspended[part], told)
  BY <1>4 DEF Follows, SameSelf, IsPart, IsAtRest, IsInStep, PartFields
<1> HIDE DEF told
<1>6. IsPart(told)
  BY <1>5 DEF Follows
<1>7. Follows(told, moved) /\ (~enabled /\ ~told.detached => Synced(moved, FALSE))
  BY <1>1, <1>6, ProcessingFollows
<1> HIDE DEF moved
<1>8. Follows(suspended[part], moved) /\ told.detached = suspended[part].detached
  BY <1>5, <1>7 DEF Follows, SameSelf
<1>9. /\ Leaves(suspended, u) /\ SameSight(suspended, u) /\ u[part] = moved
      /\ part = "needle" => Beside(suspended, u)
  BY <1>2, <1>8, PartReplaced DEF Leaves
<1> HIDE DEF u
<1>10. Leaves(t, u)
  BY <1>2, <1>9, LeavesOn
<1>11. suspended[part].detached = t[part].detached
  BY <1>2 DEF Leaves, SameTree, SameLook, Dial!Parts
<1> QED
  BY <1>2, <1>3, <1>7, <1>8, <1>9, <1>10, <1>11, LeavesItself DEF SameSight, Beside, enabled

LEMMA ApplyPropertyLeaves ==
  ASSUME NEW t, IsTree(t), NEW part \in Dial!Parts, NEW full \in BOOLEAN,
         NEW type \in {"IS_ACTIVE", "IS_VISIBLE", "IS_ANIMATION_ACTIVE", "VALUE"}
  PROVE  LET u == Dial!ApplyProperty(t, part, type, full)
         IN  /\ Leaves(t, u)
             /\ type \notin Dial!Management => SameSight(t, u)
             /\ type = "IS_ANIMATION_ACTIVE" => SetIsTaken(u[part])
             /\ type = "VALUE" /\ Dial!IsAnimationEligible(t, "dial") => ValueIsTaken(u)
             /\ part = "needle" /\ type # "VALUE" => Beside(t, u)
<1> DEFINE shown == [t EXCEPT ![part] = [t[part] EXCEPT !.hidden = ~t[part].store.IS_VISIBLE]]
<1>1. CASE type = "IS_VISIBLE"
  <2>1. Leaves(t, shown) /\ (part = "needle" => Beside(t, shown))
    BY HiddenLeaves
  <2>2. Dial!ApplyProperty(t, part, type, full) = Dial!UpdateProcessingState(shown, part, full)
    BY <1>1 DEF Dial!ApplyProperty
  <2> HIDE DEF shown
  <2>3. LET u == Dial!UpdateProcessingState(shown, part, full)
        IN  Leaves(shown, u) /\ (part = "needle" => Beside(shown, u))
    BY <2>1, ProcessingLeaves DEF Leaves
  <2> QED
    BY <1>1, <2>1, <2>2, <2>3, LeavesOn DEF Beside, Dial!Management
<1>2. CASE type = "IS_ACTIVE"
  BY <1>2, ProcessingLeaves DEF Dial!ApplyProperty, Dial!Management
<1>3. CASE type = "IS_ANIMATION_ACTIVE"
  BY <1>3, SetLeaves DEF Dial!ApplyProperty, Dial!Management
<1>4. CASE type = "VALUE"
  BY <1>4, UpdateLeaves DEF Dial!ApplyProperty, Dial!Management
<1> QED
  BY <1>1, <1>2, <1>3, <1>4

LEMMA ApplySelectedLeaves ==
  ASSUME NEW t, IsTree(t), NEW part \in Dial!Parts, NEW full \in BOOLEAN, NEW selected,
         NEW type \in {"IS_ACTIVE", "IS_VISIBLE", "IS_ANIMATION_ACTIVE", "VALUE"}
  PROVE  LET u == Dial!ApplySelected(t, part, type, selected, full)
         IN  /\ Leaves(t, u)
             /\ type \notin selected \cap Dial!Management => SameSight(t, u)
             /\ type \in selected /\ type = "IS_ANIMATION_ACTIVE" => SetIsTaken(u[part])
             /\ type \in selected /\ type = "VALUE" /\ Dial!IsAnimationEligible(t, "dial") => ValueIsTaken(u)
             /\ part = "needle" /\ ~(type = "VALUE" /\ type \in selected) => Beside(t, u)
<1> DEFINE u == Dial!ApplyProperty(t, part, type, full)
<1>1. /\ Leaves(t, u)
      /\ type \notin Dial!Management => SameSight(t, u)
      /\ type = "IS_ANIMATION_ACTIVE" => SetIsTaken(u[part])
      /\ type = "VALUE" /\ Dial!IsAnimationEligible(t, "dial") => ValueIsTaken(u)
      /\ part = "needle" /\ type # "VALUE" => Beside(t, u)
  BY ApplyPropertyLeaves
<1>2. Leaves(t, t) /\ SameSight(t, t) /\ Beside(t, t)
  BY LeavesItself DEF Beside
<1>3. Dial!ApplySelected(t, part, type, selected, full) = IF type \in selected THEN u ELSE t
  BY DEF Dial!ApplySelected
<1> HIDE DEF u
<1> QED
  BY <1>1, <1>2, <1>3

LEMMA LeavesSet ==
  ASSUME NEW t, NEW u, Leaves(t, u), NEW part \in Dial!Parts, SetIsTaken(t[part])
  PROVE  SetIsTaken(u[part])
BY DEF Leaves, Dial!Parts

LEMMA ApplyPropertiesLeaves ==
  ASSUME NEW t, IsTree(t), NEW part \in Dial!Parts, NEW full \in BOOLEAN, NEW selected,
         part = "needle" => "VALUE" \notin selected
  PROVE  LET u == Dial!ApplyProperties(t, part, selected, full)
         IN  /\ Leaves(t, u)
             /\ selected \cap Dial!Management = {} => SameSight(t, u)
             /\ "IS_ANIMATION_ACTIVE" \in selected => SetIsTaken(u[part])
             /\ "VALUE" \in selected /\ Dial!IsAnimationEligible(u, "dial") => ValueIsTaken(u)
             /\ ~t[part].detached => Synced(u[part], Dial!IsAnimationEligible(u, part))
             /\ part = "needle" => Beside(t, u)
<1> DEFINE active == Dial!ApplySelected(t, part, "IS_ACTIVE", selected, full)
           managed == Dial!ApplySelected(active, part, "IS_VISIBLE", selected, full)
           played == Dial!ApplySelected(managed, part, "IS_ANIMATION_ACTIVE", selected, full)
           valued == Dial!ApplySelected(played, part, "VALUE", selected, full)
           u == Dial!SynchronizeTransform(valued, part, full)
<1>1. /\ Leaves(t, active)
      /\ "IS_ACTIVE" \notin selected \cap Dial!Management => SameSight(t, active)
      /\ part = "needle" => Beside(t, active)
  BY ApplySelectedLeaves
<1> HIDE DEF active
<1>2. /\ Leaves(active, managed)
      /\ "IS_VISIBLE" \notin selected \cap Dial!Management => SameSight(active, managed)
      /\ part = "needle" => Beside(active, managed)
  BY <1>1, ApplySelectedLeaves DEF Leaves
<1> HIDE DEF managed
<1>3. /\ Leaves(managed, played)
      /\ SameSight(managed, played)
      /\ "IS_ANIMATION_ACTIVE" \in selected => SetIsTaken(played[part])
      /\ part = "needle" => Beside(managed, played)
  BY <1>2, ApplySelectedLeaves DEF Leaves, Dial!Management
<1> HIDE DEF played
<1>4. /\ Leaves(played, valued)
      /\ SameSight(played, valued)
      /\ "VALUE" \in selected /\ Dial!IsAnimationEligible(played, "dial") => ValueIsTaken(valued)
      /\ part = "needle" => Beside(played, valued)
  BY <1>3, ApplySelectedLeaves DEF Leaves, Dial!Management
<1> HIDE DEF valued
<1>5. /\ Leaves(valued, u) /\ SameSight(valued, u)
      /\ ~valued[part].detached => Synced(u[part], Dial!IsAnimationEligible(valued, part))
      /\ part = "needle" => Beside(valued, u)
  BY <1>4, SynchronizeTransformLeaves DEF Leaves
<1>6. Dial!ApplyProperties(t, part, selected, full) = u
  BY DEF Dial!ApplyProperties, active, managed, played, valued
<1> HIDE DEF u
<1>7. Leaves(t, played) /\ Leaves(played, u) /\ Leaves(t, u)
  BY <1>1, <1>2, <1>3, <1>4, <1>5, LeavesOn
<1>8. SameSight(played, u)
  BY <1>4, <1>5, SightOn
<1>9. selected \cap Dial!Management = {} => SameSight(t, u)
  BY <1>1, <1>2, <1>3, <1>8, SightOn
<1>10. "IS_ANIMATION_ACTIVE" \in selected => SetIsTaken(u[part])
  BY <1>3, <1>7, LeavesSet
<1>11. "VALUE" \in selected /\ Dial!IsAnimationEligible(u, "dial") => ValueIsTaken(u)
  BY <1>4, <1>5, <1>7, <1>8, EligibleSame, BothParts DEF Leaves
<1>12. ~t[part].detached => Synced(u[part], Dial!IsAnimationEligible(u, part))
  <2>1. valued[part].detached = t[part].detached
    BY <1>4, <1>7, LeavesOn DEF Leaves, SameTree, SameLook, Dial!Parts
  <2>2. Dial!IsAnimationEligible(u, part) <=> Dial!IsAnimationEligible(valued, part)
    BY <1>5, EligibleSame DEF Leaves
  <2> QED
    BY <1>5, <2>1, <2>2 DEF Synced
<1>13. part = "needle" => Beside(t, u)
  BY <1>1, <1>2, <1>3, <1>4, <1>5 DEF Beside
<1> QED
  BY <1>6, <1>7, <1>9, <1>10, <1>11, <1>12, <1>13

\* What was kept is applied, to a part that is there to be seen.
LEMMA ReplayPendingLives ==
  ASSUME NEW t, IsWhole(t), NEW part \in Dial!Parts, NEW full \in BOOLEAN
  PROVE  LET u == Dial!ReplayPendingProperties(t, part, full)
         IN  /\ IsWhole(u) /\ SameTree(t, u)
             /\ u.dial.hidden = t.dial.hidden /\ u.needle.hidden = t.needle.hidden
             /\ IF Dial!IsAnimationEligible(t, part) THEN u[part].pending = {} /\ Synced(u[part], TRUE) ELSE u = t
             /\ part = "needle" => Beside(t, u)
<1> DEFINE kept == t[part].pending
           anchored == Dial!Anchored(t, part)
           synchronized == Dial!SynchronizeTransform(anchored, part, full)
           cleared == [anchored EXCEPT ![part] = [anchored[part] EXCEPT !.pending = {}]]
           applied == Dial!ApplyProperties(cleared, part, kept, full)
<1>1. /\ IsTree(t)
      /\ kept \cap Dial!Management = {}
      /\ part = "needle" => "VALUE" \notin kept
      /\ Dial!IsAnimationEligible(t, part) => ~t[part].detached
  BY PartOf DEF IsWhole, IsTree, IsPart, IsStored, Dial!Parts, Dial!IsAnimationEligible,
     Dial!IsProcessingEligible, Dial!IsSelfEnabled
<1>2. /\ Leaves(t, anchored) /\ SameSight(t, anchored)
      /\ part = "needle" => Beside(t, anchored)
  BY <1>1, AnchoredLeaves
<1>3. Dial!ReplayPendingProperties(t, part, full) =
        IF ~Dial!IsAnimationEligible(t, part) THEN t ELSE IF kept = {} THEN synchronized ELSE applied
  BY DEF Dial!ReplayPendingProperties
<1> HIDE DEF anchored
<1>4. IsTree(anchored) /\ anchored[part].pending = kept /\ anchored[part].detached = t[part].detached
  BY <1>2 DEF Leaves, SameTree, SameLook, SameSight, Dial!Parts
<1>5. SetIsTaken(anchored.dial) /\ SetIsTaken(anchored.needle) /\ ValueIsTaken(anchored)
  BY <1>2 DEF IsWhole, Leaves
<1>6. Dial!IsAnimationEligible(anchored, part) <=> Dial!IsAnimationEligible(t, part)
  BY <1>2, EligibleSame DEF Leaves
<1> HIDE DEF kept
<1>7. CASE ~Dial!IsAnimationEligible(t, part)
  <2>1. SameTree(t, t) /\ Beside(t, t)
    BY DEF SameTree, SameLook, Beside
  <2> QED
    BY <1>3, <1>7, <2>1
<1>8. CASE Dial!IsAnimationEligible(t, part) /\ kept = {}
  <2>1. /\ Leaves(anchored, synchronized) /\ SameSight(anchored, synchronized)
        /\ ~anchored[part].detached => Synced(synchronized[part], Dial!IsAnimationEligible(anchored, part))
        /\ part = "needle" => Beside(anchored, synchronized)
    BY <1>4, SynchronizeTransformLeaves
  <2> HIDE DEF synchronized
  <2>2. Leaves(t, synchronized) /\ SameSight(t, synchronized)
    BY <1>2, <2>1, LeavesOn, SightOn
  <2>3. IsWhole(synchronized)
    BY <2>2 DEF IsWhole, Leaves
  <2>4. Synced(synchronized[part], TRUE)
    BY <1>1, <1>4, <1>6, <1>8, <2>1 DEF Synced
  <2>5. synchronized[part].pending = {}
    BY <1>4, <1>8, <2>1 DEF SameSight, Dial!Parts
  <2> QED
    BY <1>2, <1>3, <1>8, <2>1, <2>2, <2>3, <2>4, <2>5 DEF SameSight, Leaves, Beside
<1>9. CASE Dial!IsAnimationEligible(t, part) /\ kept # {}
  <2>1. PendingChanges(anchored, part, {}, cleared)
    BY <1>4, PendingKept
  <2> HIDE DEF cleared
  <2>2. /\ Leaves(cleared, applied)
        /\ kept \cap Dial!Management = {} => SameSight(cleared, applied)
        /\ "IS_ANIMATION_ACTIVE" \in kept => SetIsTaken(applied[part])
        /\ "VALUE" \in kept /\ Dial!IsAnimationEligible(applied, "dial") => ValueIsTaken(applied)
        /\ ~cleared[part].detached => Synced(applied[part], Dial!IsAnimationEligible(applied, part))
        /\ part = "needle" => Beside(cleared, applied)
    BY <1>1, <2>1, ApplyPropertiesLeaves DEF PendingChanges
  <2> HIDE DEF applied
  <2>3. SameTree(t, applied)
    BY <1>2, <2>1, <2>2 DEF PendingChanges, Leaves, SameTree, SameLook
  <2>4. applied.dial.hidden = t.dial.hidden /\ applied.needle.hidden = t.needle.hidden
    BY <1>1, <1>2, <2>1, <2>2 DEF PendingChanges, SameSight
  <2>5. Dial!IsAnimationEligible(applied, part) /\ cleared[part].detached = t[part].detached
    BY <1>2, <1>9, <2>1, <2>3, <2>4 DEF PendingChanges, SameTree, SameLook, Leaves, Dial!Parts, Dial!IsAnimationEligible,
       Dial!IsProcessingEligible, Dial!IsSelfEnabled
  <2>6. applied[part].pending = {}
    BY <1>1, <2>1, <2>2 DEF PendingChanges, SameSight, Dial!Parts
  <2>7. Synced(applied[part], TRUE)
    BY <1>1, <1>9, <2>2, <2>5 DEF Synced
  <2>8. SetIsTaken(applied.dial) /\ SetIsTaken(applied.needle)
    <3>1. SetIsTaken(applied[part])
      BY <1>4, <1>5, <2>1, <2>2, LeavesSet DEF PendingChanges, Dial!Parts
    <3>2. \A other \in Dial!Parts \ {part} : SetIsTaken(applied[other])
      BY <1>5, <2>1, <2>2, LeavesSet DEF PendingChanges, Dial!Parts
    <3> QED
      BY <3>1, <3>2, BothParts
  <2>9. ValueIsTaken(applied)
    <3>1. CASE part = "needle"
      BY <1>5, <2>1, <2>2, <3>1 DEF PendingChanges, Leaves
    <3>2. CASE part = "dial" /\ "VALUE" \in kept
      BY <2>2, <2>5, <3>2
    <3>3. CASE part = "dial" /\ "VALUE" \notin kept
      BY <1>4, <1>5, <2>1, <2>2, <3>3 DEF PendingChanges, Leaves
    <3> QED
      BY <3>1, <3>2, <3>3 DEF Dial!Parts
  <2>10. IsWhole(applied)
    BY <2>2, <2>8, <2>9 DEF IsWhole, Leaves
  <2>11. part = "needle" => Beside(t, applied)
    BY <1>2, <2>1, <2>2 DEF PendingChanges, Beside
  <2> QED
    BY <1>3, <1>9, <2>3, <2>4, <2>6, <2>7, <2>10, <2>11
<1> QED
  BY <1>7, <1>8, <1>9

\* Everything is applied, and what cannot be shown is kept to be applied again.
LEMMA ReplayLives ==
  ASSUME NEW t, IsWhole(t), NEW part \in Dial!Parts, NEW full \in BOOLEAN
  PROVE  Lives(t, Dial!ReplayProperties(t, part, full))
<1> DEFINE all == Dial!Types(part)
           cleared == [t EXCEPT ![part] = [t[part] EXCEPT !.pending = {}]]
           applied == Dial!ApplyProperties(cleared, part, all, full)
           waiting == applied[part].pending \cup (all \ Dial!Management)
           kept == [applied EXCEPT ![part] = [applied[part] EXCEPT !.pending = waiting]]
<1>1. /\ "IS_ANIMATION_ACTIVE" \in all \ Dial!Management
      /\ part = "dial" => "VALUE" \in all \ Dial!Management
      /\ part = "needle" => "VALUE" \notin all
  BY DEF Dial!Types, Dial!Management, Dial!Parts
<1>2. PendingChanges(t, part, {}, cleared)
  BY PendingKept DEF IsWhole
<1>3. Dial!ReplayProperties(t, part, full) = IF Dial!IsAnimationEligible(applied, part) THEN applied ELSE kept
  BY DEF Dial!ReplayProperties
<1> HIDE DEF all, cleared
<1>4. /\ Leaves(cleared, applied)
      /\ SetIsTaken(applied[part])
      /\ "VALUE" \in all /\ Dial!IsAnimationEligible(applied, "dial") => ValueIsTaken(applied)
  BY <1>1, <1>2, ApplyPropertiesLeaves DEF PendingChanges
<1> HIDE DEF applied
<1>5. /\ IsTree(applied)
      /\ \A other \in Dial!Parts : SetIsTaken(applied[other])
      /\ part = "needle" => ValueIsTaken(applied)
  BY <1>2, <1>4, LeavesSet DEF PendingChanges, IsWhole, Leaves, Dial!Parts
<1>6. applied.dial.detached = t.dial.detached /\ applied.needle.detached = t.needle.detached
  BY <1>2, <1>4 DEF PendingChanges, Leaves, SameTree, SameLook
<1>7. CASE Dial!IsAnimationEligible(applied, part)
  <2>1. ValueIsTaken(applied)
    BY <1>1, <1>4, <1>5, <1>7 DEF Dial!Parts
  <2>2. IsWhole(applied)
    BY <1>5, <2>1, BothParts DEF IsWhole
  <2> QED
    BY <1>3, <1>6, <1>7, <2>2 DEF Lives
<1>8. CASE ~Dial!IsAnimationEligible(applied, part)
  <2>1. waiting \cap Dial!Management = {} /\ (part = "needle" => "VALUE" \notin waiting)
    BY <1>1, <1>5, PartOf, StoreOf DEF IsPart
  <2>2. "IS_ANIMATION_ACTIVE" \in waiting /\ (part = "dial" => "VALUE" \in waiting)
    BY <1>1
  <2> HIDE DEF waiting
  <2>3. PendingChanges(applied, part, waiting, kept)
    BY <1>5, <2>1, PendingKept
  <2> HIDE DEF kept
  <2>4. IsWhole(kept)
    BY <1>5, <2>2, <2>3 DEF PendingChanges, IsWhole, Dial!Parts
  <2>5. kept.dial.detached = t.dial.detached /\ kept.needle.detached = t.needle.detached
    BY <1>6, <2>3 DEF PendingChanges, SameTree, SameLook
  <2> QED
    BY <1>3, <1>8, <2>4, <2>5 DEF Lives
<1> QED
  BY <1>7, <1>8

\* What a part that a frame finds there is left as.
IsFramed(t, part) ==
    IF Dial!IsAnimationEligible(t, part)
    THEN t[part].pending = {} /\ Synced(t[part], TRUE)
    ELSE Synced(t[part], FALSE)

LEMMA SynchronizeWidgetLives ==
  ASSUME NEW t, IsWhole(t), NEW part \in Dial!Parts, NEW full \in BOOLEAN
  PROVE  LET u == Dial!SynchronizeWidget(t, part, full)
         IN  /\ Lives(t, u)
             /\ ~t[part].detached => IsFramed(u, part)
             /\ part = "needle" => Beside(t, u)
             /\ Dial!IsAnimationEligible(u, "needle") /\ part = "needle" =>
                    Dial!NeedlePoints(u) = Dial!GetAngleForValue(u.value) % Dial!FullTurn
<1> DEFINE processed == Dial!UpdateProcessingState(t, part, full)
           replayed == Dial!ReplayPendingProperties(processed, part, full)
           u == Dial!Anchored(replayed, part)
<1>1. CASE t[part].detached
  <2>1. Dial!SynchronizeWidget(t, part, full) = t
    BY <1>1 DEF Dial!SynchronizeWidget
  <2>2. ~Dial!IsAnimationEligible(t, part)
    BY <1>1 DEF Dial!IsAnimationEligible, Dial!IsProcessingEligible, Dial!IsSelfEnabled
  <2> QED
    BY <1>1, <2>1, <2>2 DEF Lives, Beside
<1>2. CASE ~t[part].detached
  <2>1. Dial!SynchronizeWidget(t, part, full) = u
    BY <1>2 DEF Dial!SynchronizeWidget
  <2>2. /\ Leaves(t, processed)
        /\ processed.dial.hidden = t.dial.hidden /\ processed.needle.hidden = t.needle.hidden
        /\ ~Dial!IsAnimationEligible(t, part) => Synced(processed[part], FALSE)
        /\ part = "needle" => Beside(t, processed)
    BY <1>2, ProcessingLeaves DEF IsWhole
  <2> HIDE DEF processed
  <2>3. IsWhole(processed) /\ SameTree(t, processed)
    BY <2>2 DEF IsWhole, Leaves
  <2>4. /\ IsWhole(replayed) /\ SameTree(processed, replayed)
        /\ replayed.dial.hidden = processed.dial.hidden /\ replayed.needle.hidden = processed.needle.hidden
        /\ IF Dial!IsAnimationEligible(processed, part)
           THEN replayed[part].pending = {} /\ Synced(replayed[part], TRUE) ELSE replayed = processed
        /\ part = "needle" => Beside(processed, replayed)
    BY <2>3, ReplayPendingLives
  <2> HIDE DEF replayed
  <2>5. /\ Leaves(replayed, u) /\ SameSight(replayed, u)
        /\ \A e : Synced(replayed[part], e) => Synced(u[part], e)
        /\ part = "needle" => Beside(replayed, u)
    BY <2>4, AnchoredLeaves DEF IsWhole
  <2>6. SameTree(processed, u) /\ u.dial.hidden = processed.dial.hidden /\ u.needle.hidden = processed.needle.hidden
    BY <2>4, <2>5 DEF Leaves, SameTree, SameLook, SameSight
  <2>7. ASSUME part = "needle", Dial!IsAnimationEligible(u, "needle")
        PROVE  Dial!NeedlePoints(u) = Dial!GetAngleForValue(u.value) % Dial!FullTurn
    <3>1. /\ Dial!IsProcessingEligible(replayed, "needle")
          /\ replayed.needle.is_ready /\ ~replayed.needle.detached /\ replayed.dial.is_ready
      BY <2>5, <2>7, EligibleSame, BothParts
         DEF Leaves, Dial!IsAnimationEligible, Dial!IsProcessingEligible, Dial!IsSelfEnabled
    <3>2. IsTree(replayed)
      BY <2>4 DEF IsWhole
    <3>3. /\ IsPart(replayed.needle) /\ replayed.needle.animation # "rotation"
          /\ replayed.needle.angle = Dial!GetAngleForValue(replayed.value) % Dial!FullTurn
          /\ replayed.value \in Int
      BY <3>1, <3>2 DEF IsTree, IsPointed, Pointing
    <3>4. replayed.needle.angle # NoAngle
      BY <3>3, AngleIsInt, MarksAssumption
    <3> DEFINE p == Dial!UpdateAnchor(replayed.needle, TRUE)
    <3>5. (IF p.icon = "image" THEN p.image_rotation ELSE p.rotation) = replayed.needle.angle
      BY <3>1, <3>3, <3>4, AnchorPoints
    <3>6. u.needle = Dial!UpdateAnchor(replayed.needle, Dial!IsProcessingEligible(replayed, "needle"))
      BY <2>7, <3>2 DEF Dial!Anchored, IsTree, TreeFields
    <3>7. u.needle = p
      BY <3>1, <3>6 DEF Dial!UpdateAnchor
    <3>8. u.value = replayed.value
      BY <2>5, <2>7 DEF Beside
    <3> HIDE DEF p, u
    <3> QED
      BY <3>3, <3>5, <3>7, <3>8 DEF Dial!NeedlePoints
  <2> HIDE DEF u
  <2>8. IsFramed(u, part)
    <3>1. /\ Dial!IsAnimationEligible(processed, part) <=> Dial!IsAnimationEligible(t, part)
          /\ Dial!IsAnimationEligible(u, part) <=> Dial!IsAnimationEligible(processed, part)
      BY <2>2, <2>3, <2>6, EligibleSeen
    <3>2. u[part].pending = replayed[part].pending
      BY <2>5 DEF SameSight, Dial!Parts
    <3> QED
      BY <2>2, <2>4, <2>5, <3>1, <3>2 DEF IsFramed
  <2>9. Lives(t, u)
    BY <2>3, <2>4, <2>5 DEF Lives, IsWhole, Leaves, SameTree, SameLook
  <2>10. part = "needle" => Beside(t, u)
    BY <2>2, <2>4, <2>5 DEF Beside
  <2> QED
    BY <2>1, <2>7, <2>8, <2>9, <2>10
<1> QED
  BY <1>1, <1>2

\* A property that is stored is kept to be applied, or was.
LEMMA StoredTakes ==
  ASSUME NEW t, IsWhole(t), NEW part \in Dial!Parts, NEW type \in Dial!Types(part), NEW value,
         type = "VALUE" => value \in Int
  PROVE  LET p == [t[part] EXCEPT !.store = [t[part].store EXCEPT ![type] = value]]
             u == [t EXCEPT ![part] = p]
         IN  /\ IsTree(u)
             /\ u.dial.detached = t.dial.detached /\ u.needle.detached = t.needle.detached
             /\ u[part].pending = t[part].pending
             /\ \A other \in Dial!Parts : (other = part => type # "IS_ANIMATION_ACTIVE") => SetIsTaken(u[other])
             /\ type # "VALUE" => ValueIsTaken(u)
<1> DEFINE p == [t[part] EXCEPT !.store = [t[part].store EXCEPT ![type] = value]]
<1>1. DOMAIN t[part].store = Dial!Types(part) /\ IsTree(t) /\ IsPart(t[part])
  BY StoreOf, PartOf DEF IsWhole
<1>2. /\ IsPart(p) /\ DOMAIN p.store = Dial!Types(part) /\ p.pending = t[part].pending
      /\ p.is_ready = t[part].is_ready /\ p.detached = t[part].detached
      /\ p.animation = t[part].animation /\ p.angle = t[part].angle /\ p.hidden = t[part].hidden
      /\ p.is_set_active = t[part].is_set_active
      /\ p.store = [t[part].store EXCEPT ![type] = value]
  BY <1>1 DEF IsPart, IsAtRest, IsInStep, PartFields
<1> HIDE DEF p
<1>3. \A other \in Dial!Types(part) : p.store[other] = IF other = type THEN value ELSE t[part].store[other]
  BY <1>1, <1>2
<1>4. "IS_ANIMATION_ACTIVE" \in Dial!Types(part) /\ (part = "dial" => "VALUE" \in Dial!Types(part))
  BY DEF Dial!Types, Dial!Parts
<1>5. /\ type # "IS_ANIMATION_ACTIVE" => p.store.IS_ANIMATION_ACTIVE = t[part].store.IS_ANIMATION_ACTIVE
      /\ part = "dial" /\ type # "VALUE" => p.store.VALUE = t[part].store.VALUE
      /\ part = "dial" => p.store.VALUE \in Int
  BY <1>1, <1>3, <1>4, StoreOf
<1>6. Changes(t, part, p, [t EXCEPT ![part] = p])
  <2>1. part = "needle" => "VALUE" \notin p.pending
    BY <1>1, <1>2, StoreOf
  <2>2. p.is_ready <=> t[part].is_ready
    BY <1>2
  <2>3. DOMAIN p.store = Dial!Types(part) /\ p.detached = t[part].detached
        /\ p.animation = t[part].animation /\ p.angle = t[part].angle
    BY <1>2
  <2> QED
    BY <1>1, <1>2, <1>5, <2>1, <2>2, <2>3, PartChanged
<1>7. type = "VALUE" => part = "dial"
  BY DEF Dial!Types, Dial!Parts
<1>8. ASSUME NEW u, Changes(t, part, p, u)
      PROVE  /\ IsTree(u)
             /\ u.dial.detached = t.dial.detached /\ u.needle.detached = t.needle.detached
             /\ u[part].pending = t[part].pending
             /\ \A other \in Dial!Parts : (other = part => type # "IS_ANIMATION_ACTIVE") => SetIsTaken(u[other])
             /\ type # "VALUE" => ValueIsTaken(u)
  <2>1. /\ IsTree(u)
        /\ u.dial.detached = t.dial.detached /\ u.needle.detached = t.needle.detached
        /\ u[part].pending = t[part].pending
    BY <1>2, <1>8 DEF Changes, Dial!Parts
  <2>2. \A other \in Dial!Parts : (other = part => type # "IS_ANIMATION_ACTIVE") => SetIsTaken(u[other])
    <3>1. ASSUME NEW other \in Dial!Parts, other # part PROVE SetIsTaken(u[other])
      BY <1>8, <3>1 DEF Changes, Dial!Parts, IsWhole
    <3>2. SetIsTaken(t[part])
      BY DEF Dial!Parts, IsWhole
    <3>3. u[part] = p
      BY <1>8 DEF Changes
    <3>4. type # "IS_ANIMATION_ACTIVE" => SetIsTaken(p)
      BY <1>2, <1>5, <3>2 DEF SetIsTaken
    <3> QED
      BY <3>1, <3>3, <3>4
  <2>3. type # "VALUE" => ValueIsTaken(u)
    BY <1>2, <1>5, <1>8 DEF Changes, Dial!Parts, IsWhole, ValueIsTaken
  <2> QED
    BY <2>1, <2>2, <2>3
<1> QED
  BY <1>6, <1>8 DEF p

\* What is stored is told, and then it is taken.
LEMMA NotifyLives ==
  ASSUME NEW t, IsTree(t), NEW part \in Dial!Parts, NEW type \in Dial!Types(part), NEW full \in BOOLEAN,
         \A other \in Dial!Parts : (other = part => type # "IS_ANIMATION_ACTIVE") => SetIsTaken(t[other]),
         type # "VALUE" => ValueIsTaken(t)
  PROVE  Lives(t, Dial!NotifyPropertyChanged(t, part, type, full))
<1> DEFINE applied == Dial!ApplyProperty(t, part, type, full)
           replayed == Dial!ReplayPendingProperties(applied, part, full)
           synchronized == Dial!SynchronizeTransform(applied, part, full)
           kept == [t EXCEPT ![part] = [t[part] EXCEPT !.pending = t[part].pending \cup {type}]]
<1>1. /\ type \in {"IS_ACTIVE", "IS_VISIBLE", "IS_ANIMATION_ACTIVE", "VALUE"}
      /\ part = "needle" => type # "VALUE"
  BY DEF Dial!Types, Dial!Parts
<1>2. /\ Leaves(t, applied)
      /\ type \notin Dial!Management => SameSight(t, applied)
      /\ type = "IS_ANIMATION_ACTIVE" => SetIsTaken(applied[part])
      /\ type = "VALUE" /\ Dial!IsAnimationEligible(t, "dial") => ValueIsTaken(applied)
  BY <1>1, ApplyPropertyLeaves
<1> HIDE DEF applied
<1>3. CASE type \in Dial!Management
  <2>1. IsWhole(t)
    BY <1>3, BothParts DEF IsWhole, Dial!Management
  <2>2. IsWhole(applied) /\ Lives(t, applied)
    BY <1>2, <2>1, LeavesWhole DEF Lives
  <2>3. IsWhole(replayed) /\ SameTree(applied, replayed)
    BY <2>2, ReplayPendingLives
  <2> HIDE DEF replayed
  <2>4. Lives(t, replayed)
    BY <2>2, <2>3 DEF Lives, SameTree, SameLook
  <2>5. Lives(replayed, Dial!SynchronizeWidget(replayed, "needle", full))
    BY <2>3, SynchronizeWidgetLives, BothParts
  <2>6. Lives(t, Dial!SynchronizeWidget(replayed, "needle", full))
    BY <2>4, <2>5, LivesOn
  <2> QED
    BY <1>3, <2>4, <2>6 DEF Dial!NotifyPropertyChanged, replayed, applied
<1>4. CASE type \notin Dial!Management /\ t[part].pending = {} /\ Dial!IsAnimationEligible(t, part)
  <2>1. /\ IsTree(applied) /\ SetIsTaken(applied.dial) /\ SetIsTaken(applied.needle)
    BY <1>2, BothParts, LeavesSet DEF Leaves
  <2>2. ValueIsTaken(applied)
    BY <1>1, <1>2, <1>4 DEF Leaves, Dial!Parts
  <2>3. IsWhole(applied) /\ Leaves(applied, synchronized)
    BY <2>1, <2>2, SynchronizeTransformLeaves DEF IsWhole
  <2> HIDE DEF synchronized
  <2>4. Lives(t, synchronized)
    BY <1>2, <2>3, LeavesWhole DEF Lives, Leaves, SameTree, SameLook
  <2> QED
    BY <1>4, <2>4 DEF Dial!NotifyPropertyChanged, synchronized, applied
<1>5. CASE type \notin Dial!Management /\ ~(t[part].pending = {} /\ Dial!IsAnimationEligible(t, part))
  <2> DEFINE waiting == t[part].pending \cup {type}
  <2>1. waiting \cap Dial!Management = {} /\ (part = "needle" => "VALUE" \notin waiting) /\ type \in waiting
    BY <1>1, <1>5, PartOf, StoreOf DEF IsPart
  <2>2. t[part].pending \subseteq waiting /\ waiting \ {type} \subseteq t[part].pending
    OBVIOUS
  <2> HIDE DEF waiting
  <2>3. PendingChanges(t, part, waiting, kept)
    BY <2>1, PendingKept DEF waiting
  <2> HIDE DEF kept
  <2>4. IsWhole(kept)
    <3>1. SetIsTaken(kept[part])
      BY <2>1, <2>2, <2>3 DEF PendingChanges, SetIsTaken
    <3>2. \A other \in Dial!Parts : SetIsTaken(kept[other])
      BY <2>3, <3>1 DEF PendingChanges
    <3>3. ValueIsTaken(kept)
      BY <1>1, <2>1, <2>2, <2>3 DEF PendingChanges, ValueIsTaken, Dial!Parts
    <3> QED
      BY <2>3, <3>2, <3>3, BothParts DEF PendingChanges, IsWhole
  <2> DEFINE u == Dial!ReplayPendingProperties(kept, part, full)
  <2>5. IsWhole(u) /\ SameTree(kept, u)
    BY <2>4, ReplayPendingLives
  <2>6. Dial!NotifyPropertyChanged(t, part, type, full) = u
    BY <1>5 DEF Dial!NotifyPropertyChanged, kept
  <2> HIDE DEF u
  <2> QED
    BY <2>3, <2>5, <2>6 DEF PendingChanges, Lives, SameTree, SameLook
<1> QED
  BY <1>3, <1>4, <1>5

\* Fields that say what a part is told, and none that it is shown by.
LEMMA ToldLives ==
  ASSUME NEW t, IsWhole(t), NEW part \in Dial!Parts, NEW p, IsPart(p),
         p.store = t[part].store, p.pending = t[part].pending, p.is_ready <=> t[part].is_ready,
         p.detached = t[part].detached, p.animation = t[part].animation, p.angle = t[part].angle,
         p.is_set_active = t[part].is_set_active
  PROVE  LET u == [t EXCEPT ![part] = p]
         IN  Lives(t, u) /\ (u.dial.is_ready <=> t.dial.is_ready) /\ (u.needle.is_ready <=> t.needle.is_ready)
<1>1. IsTree(t)
  BY DEF IsWhole
<1>2. /\ DOMAIN p.store = Dial!Types(part) /\ (part = "dial" => p.store.VALUE \in Int)
      /\ part = "needle" => "VALUE" \notin p.pending
  BY <1>1, StoreOf
<1>3. Changes(t, part, p, [t EXCEPT ![part] = p])
  BY <1>1, <1>2, PartChanged
<1>4. ASSUME NEW u, Changes(t, part, p, u)
      PROVE  Lives(t, u) /\ (u.dial.is_ready <=> t.dial.is_ready) /\ (u.needle.is_ready <=> t.needle.is_ready)
  BY <1>4 DEF Changes, Lives, IsWhole, SetIsTaken, ValueIsTaken, Dial!Parts
<1> QED
  BY <1>3, <1>4

LEMMA ProcessingLives ==
  ASSUME NEW t, IsWhole(t), NEW part \in Dial!Parts, NEW full \in BOOLEAN
  PROVE  LET u == Dial!UpdateProcessingState(t, part, full)
         IN  Lives(t, u) /\ SameTree(t, u)
BY ProcessingLeaves, LeavesWhole DEF IsWhole, Leaves

LEMMA SetGroupActiveLives ==
  ASSUME NEW t, IsWhole(t), NEW part \in Dial!Parts, NEW active, NEW full \in BOOLEAN
  PROVE  Lives(t, Dial!SetGroupActive(t, part, active, full))
<1> DEFINE p == [t[part] EXCEPT !.is_group_active = active]
           told == [t EXCEPT ![part] = p]
<1>1. /\ IsPart(p) /\ p.store = t[part].store /\ p.pending = t[part].pending
      /\ p.is_ready = t[part].is_ready /\ p.detached = t[part].detached
      /\ p.animation = t[part].animation /\ p.angle = t[part].angle
      /\ p.is_set_active = t[part].is_set_active
  BY PartOf DEF IsPart, IsAtRest, IsInStep, PartFields, IsWhole
<1> HIDE DEF p
<1>2. Lives(t, told)
  BY <1>1, ToldLives
<1> HIDE DEF told
<1>3. Lives(t, Dial!UpdateProcessingState(told, part, full))
  BY <1>2, ProcessingLives, LivesOn DEF Lives
<1> QED
  BY <1>3 DEF Dial!SetGroupActive, told, p

LEMMA ActivateLives ==
  ASSUME NEW t, IsWhole(t), NEW part \in Dial!Parts, NEW full \in BOOLEAN
  PROVE  Lives(t, Dial!ActivateWidget(t, part, full))
<1> DEFINE active == Dial!SetGroupActive(t, part, TRUE, full)
<1>1. Lives(t, active)
  <2>1. PICK x : x = TRUE
    OBVIOUS
  <2>2. Lives(t, Dial!SetGroupActive(t, part, x, full))
    BY SetGroupActiveLives
  <2> QED
    BY <2>1, <2>2
<1> HIDE DEF active
<1>2. Lives(t, Dial!ReplayProperties(active, part, full))
  BY <1>1, ReplayLives, LivesOn DEF Lives
<1> QED
  BY <1>1, <1>2 DEF Dial!ActivateWidget, active

LEMMA BeginRenderLives ==
  ASSUME NEW t, IsWhole(t), NEW part \in Dial!Parts, ~t[part].is_ready, NEW full \in BOOLEAN
  PROVE  LET u == Dial!BeginRender(t, part, full)
         IN  Lives(t, u) /\ (u.dial.is_ready <=> t.dial.is_ready) /\ (u.needle.is_ready <=> t.needle.is_ready)
<1> DEFINE unready == [t[part] EXCEPT !.is_ready = FALSE]
           p == Dial!StopAndReset(unready)
           begun == [t EXCEPT ![part] = p]
<1>1. IsPart(t[part])
  BY PartOf DEF IsWhole
<1>2. /\ DOMAIN unready = PartFields /\ unready.pending \cap Dial!Management = {}
      /\ unready.store = t[part].store /\ unready.pending = t[part].pending /\ ~unready.is_ready
      /\ unready.detached = t[part].detached /\ unready.animation = t[part].animation
      /\ unready.angle = t[part].angle /\ unready.is_set_active = t[part].is_set_active
  BY <1>1 DEF IsPart, PartFields
<1> HIDE DEF unready
<1>3. Follows(unready, p)
  BY <1>2, StoppedFollows
<1> HIDE DEF p
<1>4. Lives(t, begun) /\ (begun.dial.is_ready <=> t.dial.is_ready) /\ (begun.needle.is_ready <=> t.needle.is_ready)
  BY <1>2, <1>3, ToldLives DEF Follows, SameSelf
<1> HIDE DEF begun
<1>5. LET u == Dial!UpdateProcessingState(begun, part, full)
      IN  Lives(begun, u) /\ SameTree(begun, u)
  BY <1>4, ProcessingLives DEF Lives
<1>6. Dial!BeginRender(t, part, full) = Dial!UpdateProcessingState(begun, part, full)
  BY DEF Dial!BeginRender, Dial!BeforeRender, begun, p, unready
<1> QED
  BY <1>4, <1>5, <1>6, LivesOn DEF SameTree, SameLook

\* A dial that is rendered needs its needle where its value is.
LEMMA EndRenderLives ==
  ASSUME NEW t, IsWhole(t), NEW part \in Dial!Parts, NEW full \in BOOLEAN, part = "dial" => Pointing(t)
  PROVE  LET u == Dial!EndRender(t, part, full)
         IN  Lives(t, u) /\ (part = "needle" => (u.dial.is_ready <=> t.dial.is_ready))
<1> DEFINE p == [t[part] EXCEPT !.is_ready = TRUE]
           ready == [t EXCEPT ![part] = p]
           turned == Dial!OnRendered(ready[part], Dial!IsProcessingEligible(ready, part))
           rendered == [ready EXCEPT ![part] = turned]
           processed == Dial!UpdateProcessingState(rendered, part, full)
           replayed == Dial!ReplayPendingProperties(processed, part, full)
<1>1. IsTree(t) /\ IsPart(t[part])
  BY PartOf DEF IsWhole
<1>2. /\ IsPart(p) /\ p.store = t[part].store /\ p.pending = t[part].pending
      /\ p.detached = t[part].detached /\ p.animation = t[part].animation
      /\ p.angle = t[part].angle /\ p.is_set_active = t[part].is_set_active /\ p.is_ready
  BY <1>1 DEF IsPart, IsAtRest, IsInStep, PartFields
<1> HIDE DEF p
<1>3. Lives(t, ready) /\ (part = "needle" => ready.dial = t.dial)
  <2>1. CASE part = "dial"
    <3>1. /\ DOMAIN ready = TreeFields /\ ready.dial = p /\ ready.needle = t.needle /\ ready.shown = t.shown
          /\ ready.is_smoothed = t.is_smoothed /\ ready.value = t.value
          /\ ready.is_value_shown = t.is_value_shown
          /\ ready.easing = t.easing /\ ready.is_left = t.is_left
      BY <1>1, <2>1 DEF IsTree, TreeFields
    <3> HIDE DEF ready
    <3>2. IsTree(ready)
      BY <1>1, <1>2, <2>1, <3>1 DEF IsTree, IsStored, IsPointed, Pointing
    <3> QED
      BY <1>2, <2>1, <3>1, <3>2 DEF Lives, IsWhole, SetIsTaken, ValueIsTaken
  <2>2. CASE part = "needle"
    <3>1. /\ DOMAIN ready = TreeFields /\ ready.needle = p /\ ready.dial = t.dial /\ ready.shown = t.shown
          /\ ready.is_smoothed = t.is_smoothed /\ ready.value = t.value
          /\ ready.is_value_shown = t.is_value_shown
          /\ ready.easing = t.easing /\ ready.is_left = t.is_left
      BY <1>1, <2>2 DEF IsTree, TreeFields
    <3> HIDE DEF ready
    <3>2. IsTree(ready)
      BY <1>1, <1>2, <2>2, <3>1 DEF IsTree, IsStored, IsPointed, Pointing
    <3> QED
      BY <1>2, <2>2, <3>1, <3>2 DEF Lives, IsWhole, SetIsTaken, ValueIsTaken
  <2> QED
    BY <2>1, <2>2 DEF Dial!Parts
<1> HIDE DEF ready
<1>4. IsWhole(ready) /\ IsTree(ready)
  BY <1>3 DEF Lives, IsWhole
<1>5. Follows(ready[part], turned)
  BY <1>4, PartOf, RenderedFollows
<1> HIDE DEF turned
<1>6. Leaves(ready, rendered)
  BY <1>4, <1>5, PartReplaced
<1> HIDE DEF rendered
<1>7. IsWhole(rendered) /\ SameTree(ready, rendered)
  BY <1>4, <1>6 DEF IsWhole, Leaves
<1>8. IsWhole(processed) /\ SameTree(rendered, processed)
  BY <1>7, ProcessingLives DEF Lives
<1> HIDE DEF processed
<1>9. IsWhole(replayed) /\ SameTree(processed, replayed)
  BY <1>8, ReplayPendingLives
<1> HIDE DEF replayed
<1>10. Dial!EndRender(t, part, full) = replayed
  BY DEF Dial!EndRender, replayed, processed, rendered, turned, ready, p
<1> QED
  BY <1>3, <1>7, <1>8, <1>9, <1>10 DEF Lives, SameTree, SameLook

-----------------------------------------------------------------------------
\* Both parts.

LEMMA OnActivatedLives ==
  ASSUME NEW t, IsWhole(t), NEW full \in BOOLEAN
  PROVE  Lives(t, Dial!OnActivated(t, full))
<1> DEFINE first == Dial!ActivateWidget(t, "dial", full)
<1>1. Lives(t, first)
  BY ActivateLives, BothParts
<1> HIDE DEF first
<1>2. Lives(t, Dial!ActivateWidget(first, "needle", full))
  BY <1>1, ActivateLives, BothParts, LivesOn DEF Lives
<1> QED
  BY <1>2 DEF Dial!OnActivated, first

LEMMA OnDeactivatedLives ==
  ASSUME NEW t, IsWhole(t), NEW full \in BOOLEAN
  PROVE  Lives(t, Dial!OnDeactivated(t, full))
<1>1. PICK x : x = FALSE
  OBVIOUS
<1> DEFINE first == Dial!SetGroupActive(t, "dial", x, full)
<1>2. Lives(t, first)
  BY SetGroupActiveLives, BothParts
<1> HIDE DEF first
<1>3. Lives(t, Dial!SetGroupActive(first, "needle", x, full))
  BY <1>2, SetGroupActiveLives, BothParts, LivesOn DEF Lives
<1> QED
  BY <1>1, <1>3 DEF Dial!OnDeactivated, first

\* Both begin their render before either ends it.
LEMMA BegunLives ==
  ASSUME NEW t, IsWhole(t), ~t.dial.is_ready, ~t.needle.is_ready, NEW full \in BOOLEAN
  PROVE  LET u == Dial!BeginRender(Dial!BeginRender(t, "dial", full), "needle", full)
         IN  Lives(t, u) /\ ~u.dial.is_ready
<1> DEFINE first == Dial!BeginRender(t, "dial", full)
<1>1. Lives(t, first) /\ ~first.dial.is_ready /\ ~first.needle.is_ready
  BY BeginRenderLives, BothParts
<1> HIDE DEF first
<1>2. LET u == Dial!BeginRender(first, "needle", full)
      IN  Lives(first, u) /\ ~u.dial.is_ready
  BY <1>1, BeginRenderLives, BothParts DEF Lives
<1> QED
  BY <1>1, <1>2, LivesOn DEF first

LEMMA RenderLives ==
  ASSUME NEW t, IsWhole(t), ~t.dial.is_ready, ~t.needle.is_ready, ~t.dial.detached, NEW full \in BOOLEAN
  PROVE  Lives(t, Dial!Render(t, full))
<1> DEFINE begun == Dial!BeginRender(Dial!BeginRender(t, "dial", full), "needle", full)
           needle == Dial!EndRender(begun, "needle", full)
           pointed == Dial!UpdateIndicator(needle, 0)
           ended == Dial!EndRender(pointed, "dial", full)
<1>1. Lives(t, begun) /\ ~begun.dial.is_ready
  BY BegunLives
<1> HIDE DEF begun
<1>2. Lives(begun, needle) /\ ~needle.dial.is_ready
  BY <1>1, EndRenderLives, BothParts DEF Lives
<1> HIDE DEF needle
<1>3. IsWhole(needle) /\ IsTree(needle) /\ ~needle.dial.detached /\ ~needle.needle.detached /\ needle.value = 0
  BY <1>1, <1>2 DEF Lives, IsWhole, IsTree, IsPointed
<1>4. /\ DOMAIN pointed = TreeFields /\ Beside(needle, pointed)
      /\ pointed.is_smoothed = needle.is_smoothed /\ pointed.is_value_shown = needle.is_value_shown
      /\ IsPart(pointed.needle) /\ SameSelf(needle.needle, pointed.needle)
      /\ ~needle.needle.detached => pointed.needle.angle = Dial!GetAngleForValue(0) % Dial!FullTurn
  BY <1>3, IndicatorTurns
<1> HIDE DEF pointed
<1>5. Pointing(pointed) /\ pointed.value = 0
  BY <1>3, <1>4 DEF Pointing, Beside
<1>6. IsTree(pointed)
  BY <1>2, <1>3, <1>4, <1>5 DEF Beside, SameSelf, IsTree, IsStored, IsPointed
<1>7. Lives(needle, pointed)
  BY <1>3, <1>4, <1>6 DEF Beside, SameSelf, Lives, IsWhole, SetIsTaken, ValueIsTaken
<1>8. Lives(pointed, ended)
  BY <1>5, <1>7, EndRenderLives, BothParts DEF Lives
<1> HIDE DEF ended
<1>9. Lives(ended, Dial!SynchronizeWidget(ended, "needle", full))
  BY <1>8, SynchronizeWidgetLives, BothParts DEF Lives
<1>10. Lives(t, Dial!SynchronizeWidget(ended, "needle", full))
  BY <1>1, <1>2, <1>7, <1>8, <1>9 DEF Lives
<1> QED
  BY <1>10 DEF Dial!Render, ended, pointed, needle, begun

LEMMA RenderFailsLives ==
  ASSUME NEW t, IsWhole(t), ~t.dial.is_ready, ~t.needle.is_ready, NEW full \in BOOLEAN
  PROVE  Lives(t, Dial!RenderFails(t, full))
<1> DEFINE begun == Dial!BeginRender(Dial!BeginRender(t, "dial", full), "needle", full)
           needle == Dial!UpdateProcessingState(begun, "needle", full)
           ended == Dial!UpdateProcessingState(needle, "dial", full)
<1>1. Lives(t, begun)
  BY BegunLives
<1> HIDE DEF begun
<1>2. Lives(begun, needle)
  BY <1>1, ProcessingLives, BothParts DEF Lives
<1> HIDE DEF needle
<1>3. Lives(needle, ended)
  BY <1>2, ProcessingLives, BothParts DEF Lives
<1> HIDE DEF ended
<1>4. Lives(ended, Dial!SynchronizeWidget(ended, "needle", full))
  BY <1>3, SynchronizeWidgetLives, BothParts DEF Lives
<1>5. Lives(t, Dial!SynchronizeWidget(ended, "needle", full))
  BY <1>1, <1>2, <1>3, <1>4 DEF Lives
<1> QED
  BY <1>5 DEF Dial!RenderFails, begun, needle, ended

\* A part that is taken down moves no more.
LEMMA DetachLives ==
  ASSUME NEW t, IsWhole(t), NEW part \in Dial!Parts, part = "needle" => t.dial.detached
  PROVE  LET u == Dial!DetachWidget(t, part)
         IN  /\ IsWhole(u)
             /\ u[part].detached /\ ~u[part].is_running
             /\ part = "dial" => u.easing = NotEasing
             /\ part = "needle" => u.dial = t.dial /\ u.easing = t.easing
<1> DEFINE down == [t[part] EXCEPT !.detached = TRUE, !.is_ready = FALSE,
                                   !.is_group_active = FALSE, !.was_processing = FALSE]
           detached == [t EXCEPT ![part] = down]
           suspended == Dial!OnProcessingSuspended(detached, part)
           straight == [suspended[part] EXCEPT !.rotation = 0]
           reset == Dial!StopAndReset(straight)
           u == [suspended EXCEPT ![part] = reset]
<1>1. /\ IsPart(down) /\ down.detached /\ ~down.is_ready /\ down.store = t[part].store
      /\ down.pending = t[part].pending /\ down.animation = t[part].animation
      /\ down.is_set_active = t[part].is_set_active /\ down.angle = t[part].angle
  BY PartOf DEF IsPart, IsAtRest, IsInStep, PartFields, IsWhole
<1>2. Dial!DetachWidget(t, part) = u
  BY DEF Dial!DetachWidget, Dial!DetachTransform
<1> HIDE DEF down
<1>3. /\ IsTree(detached) /\ detached[part] = down /\ detached.easing = t.easing
      /\ SetIsTaken(detached.dial) /\ SetIsTaken(detached.needle) /\ ValueIsTaken(detached)
      /\ part = "needle" => detached.dial = t.dial
  <2>1. CASE part = "dial"
    <3>1. /\ DOMAIN detached = TreeFields /\ detached.dial = down /\ detached.needle = t.needle
          /\ detached.is_smoothed = t.is_smoothed /\ detached.value = t.value
          /\ detached.is_value_shown = t.is_value_shown
          /\ detached.easing = t.easing /\ detached.is_left = t.is_left
      BY <2>1 DEF IsWhole, IsTree, TreeFields
    <3> HIDE DEF detached
    <3>2. IsTree(detached)
      BY <1>1, <2>1, <3>1 DEF IsWhole, IsTree, IsStored, IsPointed, Pointing
    <3> QED
      BY <1>1, <2>1, <3>1, <3>2 DEF IsWhole, SetIsTaken, ValueIsTaken
  <2>2. CASE part = "needle"
    <3>1. /\ DOMAIN detached = TreeFields /\ detached.needle = down /\ detached.dial = t.dial
          /\ detached.is_smoothed = t.is_smoothed /\ detached.value = t.value
          /\ detached.is_value_shown = t.is_value_shown
          /\ detached.easing = t.easing /\ detached.is_left = t.is_left
      BY <2>2 DEF IsWhole, IsTree, TreeFields
    <3> HIDE DEF detached
    <3>2. IsTree(detached)
      BY <1>1, <2>2, <3>1 DEF IsWhole, IsTree, IsStored, IsPointed, Pointing
    <3> QED
      BY <1>1, <2>2, <3>1, <3>2 DEF IsWhole, SetIsTaken, ValueIsTaken
  <2> QED
    BY <2>1, <2>2 DEF Dial!Parts
<1> HIDE DEF detached
<1>4. /\ Leaves(detached, suspended)
      /\ part = "dial" => suspended.easing = NotEasing
      /\ part = "needle" => suspended = detached
  BY <1>3, EaseSuspendedLeaves, LeavesItself DEF Dial!OnProcessingSuspended, Dial!Parts
<1> HIDE DEF suspended
<1>5. /\ IsTree(suspended) /\ suspended[part].detached
      /\ SetIsTaken(suspended.dial) /\ SetIsTaken(suspended.needle) /\ ValueIsTaken(suspended)
  BY <1>1, <1>3, <1>4 DEF Leaves, SameTree, SameLook, Dial!Parts
<1>6. /\ DOMAIN straight = PartFields /\ straight.pending \cap Dial!Management = {}
      /\ SameSelf(suspended[part], straight) /\ straight.angle = suspended[part].angle
  BY <1>5, PartOf DEF IsPart, SameSelf, PartFields
<1> HIDE DEF straight
<1>7. Follows(straight, reset) /\ ~reset.is_running
  BY <1>6, StoppedFollows
<1> HIDE DEF reset
<1>8. Follows(suspended[part], reset)
  BY <1>6, <1>7 DEF Follows, SameSelf
<1>9. /\ Leaves(suspended, u) /\ u[part] = reset /\ u.easing = suspended.easing
      /\ part = "needle" => Beside(suspended, u)
  BY <1>5, <1>8, PartReplaced
<1> HIDE DEF u
<1>10. IsWhole(u)
  BY <1>5, <1>9 DEF IsWhole, Leaves
<1>11. u[part].detached
  BY <1>5, <1>8, <1>9 DEF Follows, SameSelf
<1> QED
  BY <1>2, <1>3, <1>4, <1>7, <1>9, <1>10, <1>11 DEF Beside

IsEnded(t) == t.easing = NotEasing /\ ~t.dial.is_running /\ ~t.needle.is_running

LEMMA TakenDownEnds ==
  ASSUME NEW t, IsWhole(t)
  PROVE  LET u == Dial!DetachDispatch(t)
         IN  IsWhole(u) /\ u.needle.detached /\ IsEnded(u)
<1> DEFINE first == Dial!DetachWidget(t, "dial")
<1>1. IsWhole(first) /\ first.dial.detached /\ ~first.dial.is_running /\ first.easing = NotEasing
  BY DetachLives, BothParts
<1> HIDE DEF first
<1>2. LET u == Dial!DetachWidget(first, "needle")
      IN  /\ IsWhole(u) /\ u.needle.detached /\ ~u.needle.is_running
          /\ u.dial = first.dial /\ u.easing = first.easing
  BY <1>1, DetachLives, BothParts
<1> QED
  BY <1>1, <1>2 DEF IsEnded, Dial!DetachDispatch, first

\* A frame finds both parts.
LEMMA FrameLives ==
  ASSUME NEW t, IsWhole(t), ~t.dial.detached, NEW full \in BOOLEAN
  PROVE  LET u == Dial!Synchronize(t, full)
         IN  /\ Lives(t, u)
             /\ IsFramed(u, "dial") /\ IsFramed(u, "needle")
             /\ Dial!IsAnimationEligible(u, "needle") =>
                    Dial!NeedlePoints(u) = Dial!GetAngleForValue(u.value) % Dial!FullTurn
<1> DEFINE first == Dial!SynchronizeWidget(t, "dial", full)
           u == Dial!SynchronizeWidget(first, "needle", full)
<1>1. Lives(t, first) /\ IsFramed(first, "dial")
  BY SynchronizeWidgetLives, BothParts
<1> HIDE DEF first
<1>2. ~first.needle.detached
  BY <1>1 DEF Lives, IsWhole, IsTree
<1>3. /\ Lives(first, u) /\ IsFramed(u, "needle") /\ Beside(first, u)
      /\ Dial!IsAnimationEligible(u, "needle") =>
             Dial!NeedlePoints(u) = Dial!GetAngleForValue(u.value) % Dial!FullTurn
  BY <1>1, <1>2, SynchronizeWidgetLives, BothParts DEF Lives
<1> HIDE DEF u
<1>4. IsFramed(u, "dial")
  <2>1. Dial!IsAnimationEligible(u, "dial") <=> Dial!IsAnimationEligible(first, "dial")
    BY <1>3 DEF Beside, Dial!IsAnimationEligible, Dial!IsProcessingEligible, Dial!IsSelfEnabled
  <2>2. u.dial = first.dial
    BY <1>3 DEF Beside
  <2> QED
    BY <1>1, <2>1, <2>2 DEF IsFramed
<1>5. Dial!Synchronize(t, full) = u
  BY DEF Dial!Synchronize, first, u
<1> QED
  BY <1>1, <1>3, <1>4, <1>5, LivesOn

\* What a frame leaves moves just when it is to.
LEMMA FramedMoves ==
  ASSUME NEW t, IsWhole(t), NEW part \in Dial!Parts, IsFramed(t, part)
  PROVE  t[part].is_running <=> Dial!IsToMove(t, part)
<1>1. IsInStep(t[part]) /\ SetIsTaken(t[part])
  BY PartOf DEF IsWhole, IsPart, Dial!Parts
<1>2. CASE ~Dial!IsAnimationEligible(t, part)
  BY <1>1, <1>2 DEF IsFramed, Synced, IsInStep, Dial!IsToMove
<1>3. CASE Dial!IsAnimationEligible(t, part)
  BY <1>1, <1>3 DEF IsFramed, Synced, IsInStep, SetIsTaken, Dial!IsToMove
<1> QED
  BY <1>2, <1>3

-----------------------------------------------------------------------------
\* One that is taken down has ended with its needle.
IsDialTree(t) == IsWhole(t) /\ (t.dial.detached => t.needle.detached /\ IsEnded(t))

DialInv == tree # NoTree => IsDialTree(tree)

LEMMA DialStarts == WidgetsInit => DialInv
<1> SUFFICES ASSUME WidgetsInit, tree # NoTree PROVE IsDialTree(tree)
  BY DEF DialInv
<1>1. Dial!Init
  BY DEF WidgetsInit
<1>2. PICK c \in Configurations, icon \in {"image", "shape"}, is_smoothed \in BOOLEAN :
        tree = [dial |-> Dial!Constructed("dial", c.animation.dial, "none"),
                needle |-> Dial!Constructed("needle", c.animation.needle, icon),
                bound |-> c.bound, shown |-> TRUE, is_smoothed |-> is_smoothed, value |-> 0,
                is_value_shown |-> FALSE, easing |-> NotEasing, is_left |-> FALSE]
  BY <1>1 DEF Dial!Init
<1>3. ASSUME NEW part \in Dial!Parts, NEW animation, NEW of
      PROVE  LET p == Dial!Constructed(part, animation, of)
             IN  /\ IsPart(p) /\ ~p.detached /\ ~p.is_ready /\ p.animation = animation
                 /\ p.pending = Dial!Types(part) \ Dial!Management
                 /\ p.store = [type \in Dial!Types(part) |->
                                  IF type = "VALUE" THEN 0 ELSE type # "IS_ANIMATION_ACTIVE"]
  BY DEF Dial!Constructed, IsPart, IsAtRest, IsInStep, PartFields
<1> DEFINE dial == Dial!Constructed("dial", c.animation.dial, "none")
           needle == Dial!Constructed("needle", c.animation.needle, icon)
<1>4. /\ DOMAIN tree = TreeFields /\ tree.dial = dial /\ tree.needle = needle /\ tree.value = 0
      /\ tree.easing = NotEasing
  BY <1>2 DEF TreeFields
<1>5. /\ IsPart(dial) /\ ~dial.detached /\ ~dial.is_ready
      /\ dial.pending = Dial!Types("dial") \ Dial!Management
      /\ dial.store = [type \in Dial!Types("dial") |-> IF type = "VALUE" THEN 0 ELSE type # "IS_ANIMATION_ACTIVE"]
  BY <1>3, BothParts
<1>6. /\ IsPart(needle) /\ ~needle.detached /\ needle.animation = c.animation.needle
      /\ needle.pending = Dial!Types("needle") \ Dial!Management
      /\ needle.store = [type \in Dial!Types("needle") |->
                            IF type = "VALUE" THEN 0 ELSE type # "IS_ANIMATION_ACTIVE"]
  BY <1>3, BothParts
<1> HIDE DEF dial, needle
<1>7. needle.animation # "rotation"
  BY <1>6, NeedlesAssumption
<1>8. /\ "VALUE" \in Dial!Types("dial") /\ "VALUE" \notin Dial!Types("needle") /\ "VALUE" \notin Dial!Management
      /\ "IS_ANIMATION_ACTIVE" \in Dial!Types("dial") /\ "IS_ANIMATION_ACTIVE" \in Dial!Types("needle")
      /\ "IS_ANIMATION_ACTIVE" \notin Dial!Management
  BY DEF Dial!Types, Dial!Management
<1>9. IsTree(tree)
  BY <1>4, <1>5, <1>6, <1>7, <1>8 DEF IsTree, IsStored, IsPointed
<1> QED
  BY <1>4, <1>5, <1>6, <1>8, <1>9 DEF IsDialTree, IsWhole, SetIsTaken, ValueIsTaken

\* A step of a dial that is there leaves it whole; one that is taken down does not
\* move again.
LEMMA DialStep == DialInv /\ [WidgetsNext]_allVars => DialInv'
<1> SUFFICES ASSUME DialInv, [WidgetsNext]_allVars, tree' # NoTree
             PROVE  IsDialTree(tree')
  BY DEF DialInv
<1>1. CASE UNCHANGED allVars \/ ControlScene
  BY <1>1 DEF allVars, ControlScene, DialInv
<1>2. CASE DialScene
  <2>1. /\ IsWhole(tree) /\ (tree.dial.detached => tree.needle.detached /\ IsEnded(tree)) /\ Dial!Next
        /\ IsTree(tree)
    BY <1>2 DEF DialScene, DialInv, IsDialTree, IsWhole
  <2>2. ASSUME ~tree.dial.detached, Lives(tree, tree')
        PROVE  IsDialTree(tree')
    BY <2>2 DEF Lives, IsDialTree
  <2>3. ASSUME NEW full \in BOOLEAN,
               Dial!Renders(full) \/ Dial!Activates(full) \/ Dial!Deactivates(full) \/ Dial!Refresh(full)
        PROVE  IsDialTree(tree')
    BY <2>1, <2>2, <2>3, RenderLives, RenderFailsLives, OnActivatedLives, OnDeactivatedLives, FrameLives
       DEF Dial!Renders, Dial!Activates, Dial!Deactivates, Dial!Refresh, Dial!IsAlive
  <2>4. ASSUME NEW full \in BOOLEAN, Dial!Event(full)
        PROVE  IsDialTree(tree')
    <3>1. ASSUME NEW part \in Dial!Parts, NEW type \in Dial!Types(part), NEW value, Dial!IsAlive,
                 type = "VALUE" => value \in Int, Dial!Changed(part, type, value, full)
          PROVE  IsDialTree(tree')
      <4> DEFINE stored == [tree[part] EXCEPT !.store = [tree[part].store EXCEPT ![type] = value]]
                 told == [tree EXCEPT ![part] = stored]
      <4>1. /\ IsTree(told)
            /\ told.dial.detached = tree.dial.detached /\ told.needle.detached = tree.needle.detached
            /\ told[part].pending = tree[part].pending
            /\ \A other \in Dial!Parts :
                  (other = part => type # "IS_ANIMATION_ACTIVE") => SetIsTaken(told[other])
            /\ type # "VALUE" => ValueIsTaken(told)
        BY <2>1, <3>1, StoredTakes
      <4>2. tree' = Dial!NotifyPropertyChanged(told, part, type, full)
        BY <3>1 DEF Dial!Changed
      <4> HIDE DEF stored, told
      <4>3. Lives(told, Dial!NotifyPropertyChanged(told, part, type, full))
        BY <4>1, NotifyLives
      <4>4. Lives(tree, tree')
        BY <4>1, <4>2, <4>3 DEF Lives
      <4> QED
        BY <2>2, <3>1, <4>4 DEF Dial!IsAlive
    <3>2. /\ \A part \in Dial!Parts : Dial!Management \cup {"IS_ANIMATION_ACTIVE"} \subseteq Dial!Types(part)
          /\ "VALUE" \in Dial!Types("dial") /\ "VALUE" \notin Dial!Management
      BY DEF Dial!Types, Dial!Management
    <3>3. ASSUME NEW value \in 0 .. MaxValue + 1 PROVE value \in Int
      OBVIOUS
    <3>4. ASSUME NEW part \in Dial!Parts, NEW type \in Dial!Management, NEW value, Dial!IsAlive,
                 Dial!Changed(part, type, value, full)
          PROVE  IsDialTree(tree')
      BY <3>1, <3>2, <3>4
    <3>5. ASSUME NEW part \in Dial!Parts, NEW value, Dial!IsAlive,
                 Dial!Changed(part, "IS_ANIMATION_ACTIVE", value, full)
          PROVE  IsDialTree(tree')
      BY <3>1, <3>2, <3>5
    <3>6. ASSUME NEW value \in 0 .. MaxValue + 1, Dial!IsAlive, Dial!Changed("dial", "VALUE", value, full)
          PROVE  IsDialTree(tree')
      BY <3>1, <3>2, <3>3, <3>6, BothParts
    <3> QED
      BY <2>4, <3>4, <3>5, <3>6 DEF Dial!Event
  <2>5. CASE Dial!ParentChanges
    <3>1. PICK x : x = ~tree.shown
      OBVIOUS
    <3> DEFINE u == [tree EXCEPT !.shown = x]
    <3>2. /\ DOMAIN u = TreeFields /\ u.dial = tree.dial /\ u.needle = tree.needle
          /\ u.is_smoothed = tree.is_smoothed /\ u.value = tree.value
          /\ u.is_value_shown = tree.is_value_shown
          /\ u.easing = tree.easing /\ u.is_left = tree.is_left
      BY <2>1 DEF IsTree, TreeFields
    <3>3. tree' = u
      BY <2>5, <3>1 DEF Dial!ParentChanges
    <3> HIDE DEF u
    <3>4. IsWhole(u)
      BY <2>1, <3>2 DEF IsWhole, IsTree, IsStored, IsPointed, Pointing, SetIsTaken, ValueIsTaken
    <3> QED
      BY <2>1, <3>2, <3>3, <3>4 DEF IsDialTree, IsEnded
  <2>6. CASE Dial!EaseTick
    <3>1. PICK value \in 0 .. MaxValue :
            LET moved == Dial!UpdateIndicatorCallback(tree, value)
            IN  tree' = IF value = tree.easing THEN [moved EXCEPT !.easing = NotEasing] ELSE moved
      BY <2>6 DEF Dial!EaseTick
    <3> DEFINE moved == Dial!UpdateIndicatorCallback(tree, value)
               ended == [moved EXCEPT !.easing = NotEasing]
    <3>2. tree.easing # NotEasing /\ ~tree.dial.detached
      BY <2>1, <2>6 DEF Dial!EaseTick, IsEnded
    <3>3. value \in Int
      OBVIOUS
    <3>4. /\ IsTree(moved) /\ SameTree(tree, moved)
          /\ SetIsTaken(tree.dial) => SetIsTaken(moved.dial)
          /\ SetIsTaken(tree.needle) => SetIsTaken(moved.needle)
          /\ IF Dial!IsAnimationEligible(tree, "dial")
             THEN /\ moved.value = value /\ moved.easing = tree.easing
                  /\ moved.is_left = tree.is_left /\ moved.dial = tree.dial
             ELSE moved = Dial!EaseSuspended(tree)
      BY <2>1, <3>3, CallbackLeaves
    <3>5. tree' = IF value = tree.easing THEN ended ELSE moved
      BY <3>1
    <3> HIDE DEF moved
    <3>6. ~Dial!IsAnimationEligible(tree, "dial") => "VALUE" \in moved.dial.pending
      BY <2>1, <3>2, <3>4, EaseSuspendedLeaves
    <3>7. /\ IsTree(ended) /\ SameTree(moved, ended)
          /\ ended.dial = moved.dial /\ ended.needle = moved.needle /\ ended.value = moved.value
          /\ ended.easing = NotEasing /\ ended.is_left = moved.is_left
      BY <3>4, EasedLeaves
    <3> HIDE DEF ended
    <3>8. CASE value = tree.easing
      <4>1. ValueIsTaken(ended)
        BY <2>1, <3>2, <3>4, <3>6, <3>7, <3>8 DEF IsWhole, ValueIsTaken
      <4>2. Lives(tree, ended)
        BY <2>1, <3>4, <3>7, <4>1 DEF Lives, IsWhole, SameTree, SameLook
      <4> QED
        BY <2>2, <3>2, <3>5, <3>8, <4>2
    <3>9. CASE value # tree.easing
      <4>1. ValueIsTaken(moved)
        BY <2>1, <3>2, <3>4, <3>6 DEF IsWhole, ValueIsTaken
      <4>2. Lives(tree, moved)
        BY <2>1, <3>4, <4>1 DEF Lives, IsWhole, SameTree, SameLook
      <4> QED
        BY <2>2, <3>2, <3>5, <3>9, <4>2
    <3> QED
      BY <3>8, <3>9
  <2>7. CASE Dial!AnimationTick
    <3>1. PICK part \in Dial!Parts, opacity \in Dial!Blinks, angle \in Dial!Turns :
            /\ tree[part].is_running
            /\ tree' = [tree EXCEPT ![part] =
                          Dial!Execute(tree[part], Dial!IsAnimationEligible(tree, part), opacity, angle)]
      BY <2>7 DEF Dial!AnimationTick
    <3>2. Leaves(tree, tree')
      BY <2>1, <3>1, PartOf, ExecuteFollows, PartReplaced
    <3>3. ~tree.dial.detached
      BY <2>1, <3>1 DEF IsEnded, Dial!Parts
    <3> QED
      BY <2>1, <2>2, <3>2, <3>3, LeavesWhole
  <2>8. CASE Dial!TakenDown
    BY <2>1, <2>8, TakenDownEnds DEF Dial!TakenDown, IsDialTree
  <2> QED
    BY <2>1, <2>3, <2>4, <2>5, <2>6, <2>7, <2>8 DEF Dial!Next
<1> QED
  BY <1>1, <1>2 DEF WidgetsNext

LEMMA DialHolds == WidgetsSpec => []DialInv
BY DialStarts, DialStep, PTL DEF WidgetsSpec

\* What does not move is as it was drawn, and what is taken down moves no more:
\* whatever order frames, events, groups, overlays and the ends of animations come in,
\* for every range, and for every configuration of the dial and its needle
\* (view_animator.cpp, indicator_base.cpp).
THEOREM StillIsAtRestHolds == WidgetsSpec => []StillIsAtRest
<1>1. DialInv => StillIsAtRest
  BY BothParts DEF DialInv, IsDialTree, StillIsAtRest, Dial!StillIsAtRest, IsWhole, IsTree, IsPart, IsAtRest,
     IsEnded, Dial!Parts
<1> QED
  BY <1>1, DialHolds, PTL

\* With every frame, what moves is what is there to be seen and told to move, unless
\* LVGL had no memory for it, whatever happened since the frame before
\* (WidgetBase::Synchronize, ViewAnimator::Synchronize).
THEOREM MovesWhenSeenHolds == WidgetsSpec => MovesWhenSeen
<1>1. DialInv /\ [WidgetsNext]_allVars => [tree # NoTree => Dial!FrameMovesWhatIsSeen]_tree
  <2> SUFFICES ASSUME DialInv, tree # NoTree, NEW full \in BOOLEAN, Dial!Refresh(full), NEW part \in Dial!Parts
               PROVE  tree'[part].is_running <=> Dial!IsToMove(tree', part)
    BY DEF Dial!FrameMovesWhatIsSeen, Dial!Frame
  <2>1. IsWhole(tree) /\ ~tree.dial.detached /\ tree' = Dial!Synchronize(tree, full)
    BY DEF DialInv, IsDialTree, Dial!Refresh, Dial!IsAlive
  <2>2. IsWhole(tree') /\ IsFramed(tree', part)
    BY <2>1, FrameLives DEF Lives, Dial!Parts
  <2> QED
    BY <2>2, FramedMoves
<1> QED
  BY <1>1, DialHolds, PTL DEF WidgetsSpec, MovesWhenSeen

\* A needle that a frame draws points where the dial's value is, and that is the last
\* value stored, brought into the range, unless the dial is on its way there or left
\* it out: for every range, every order of events and of frames
\* (IndicatorBase::Update, DialIndicator::UpdateIndicator).
THEOREM FramesShowTheValueHolds == WidgetsSpec => FramesShowTheValue
<1>1. DialInv /\ [WidgetsNext]_allVars => [tree # NoTree => Dial!FrameShowsTheValue]_tree
  <2> SUFFICES ASSUME DialInv, tree # NoTree, NEW full \in BOOLEAN, Dial!Refresh(full)
               PROVE  Dial!ShowsItsValue(tree')
    BY DEF Dial!FrameShowsTheValue, Dial!Frame
  <2>1. IsWhole(tree) /\ ~tree.dial.detached /\ tree' = Dial!Synchronize(tree, full)
    BY DEF DialInv, IsDialTree, Dial!Refresh, Dial!IsAlive
  <2>2. /\ IsWhole(tree') /\ IsFramed(tree', "dial")
        /\ Dial!IsAnimationEligible(tree', "needle") =>
               Dial!NeedlePoints(tree') = Dial!GetAngleForValue(tree'.value) % Dial!FullTurn
    BY <2>1, FrameLives DEF Lives
  <2> QED
    BY <2>2 DEF IsFramed, IsWhole, ValueIsTaken, Dial!ShowsItsValue
<1> QED
  BY <1>1, DialHolds, PTL DEF WidgetsSpec, FramesShowTheValue

-----------------------------------------------------------------------------
\* A control.  What its operators keep of it, whichever of them calls which.

WidgetFields ==
    {"kind", "store", "pending", "is_ready", "is_group_active", "was_processing", "detached",
     "hidden", "parent_shown", "native", "shown", "bound", "grid", "box", "px", "step_count",
     "max", "pressed", "target_id", "is_sending_press", "is_press_published", "sent", "asked"}

NumbersHeld(v) ==
    /\ v.store.VALUE \in Int /\ v.store.MAX_VALUE \in Int
    /\ v.step_count \in Int /\ v.shown \in Int
    /\ v.native \in Int \cup {NoObject}
    /\ v.is_ready => IsRendered(v)

\* A press that was sent and not released is one the button knows it has published.
PressHeld(v) == v.sent => v.kind = "button" /\ v.is_sending_press /\ v.is_press_published

Sound(v) ==
    /\ DOMAIN v = WidgetFields
    /\ DOMAIN v.store = Registered
    /\ v.pending \subseteq Registered \ Management
    /\ v.bound \subseteq LayoutTypes
    /\ NumbersHeld(v)
    /\ PressHeld(v)

\* A slider has the range that is stored, a toggle that is drawn shows the value that
\* is stored, unless the one or the other is kept to be applied.
RangeTaken(v) == v.kind = "slider" => "MAX_VALUE" \in v.pending \/ v.max = v.store.MAX_VALUE
ValueTaken(v) == v.kind = "toggle" /\ IsRendered(v) => "VALUE" \in v.pending \/ v.native = v.store.VALUE

Whole(v) == Sound(v) /\ RangeTaken(v) /\ ValueTaken(v)

SameWidget(u, v) ==
    /\ v.kind = u.kind
    /\ v.is_sending_press = u.is_sending_press
    /\ v.bound = u.bound
    /\ v.detached = u.detached
    /\ v.asked = u.asked
    /\ v.sent => u.sent

SameState(u, v) ==
    /\ v.store = u.store
    /\ v.pending = u.pending
    /\ v.is_ready = u.is_ready
    /\ v.is_group_active = u.is_group_active
    /\ v.parent_shown = u.parent_shown

\* What a property that is applied leaves as it was.
Steady(u, v) ==
    /\ SameWidget(u, v) /\ SameState(u, v)
    /\ Sound(v)
    /\ IsRendered(u) => IsRendered(v)
    /\ RangeTaken(u) => RangeTaken(v)
    /\ ValueTaken(u) => ValueTaken(v)

\* What a call of the widget leaves as it was.
Lasts(u, v) == SameWidget(u, v) /\ Whole(v)

LEMMA SteadyItself == ASSUME NEW u, Sound(u) PROVE Steady(u, u)
BY DEF Steady, SameWidget, SameState

LEMMA SteadyOn ==
  ASSUME NEW u, NEW v, NEW x, Steady(u, v), Steady(v, x)
  PROVE  Steady(u, x)
BY DEF Steady, SameWidget, SameState

LEMMA LastsOn ==
  ASSUME NEW u, NEW v, NEW x, Lasts(u, v), Lasts(v, x)
  PROVE  Lasts(u, x)
BY DEF Lasts, SameWidget

LEMMA SteadyLasts ==
  ASSUME NEW u, NEW v, Whole(u), Steady(u, v)
  PROVE  Lasts(u, v)
BY DEF Steady, Lasts, Whole

\* Fields that none of this is about.
LEMMA OtherFieldSteady ==
  ASSUME NEW u, Sound(u), NEW x
  PROVE  /\ Steady(u, [u EXCEPT !.hidden = x])
         /\ Steady(u, [u EXCEPT !.was_processing = x])
         /\ Steady(u, [u EXCEPT !.px = x])
         /\ Steady(u, [u EXCEPT !.box = x])
         /\ Steady(u, [u EXCEPT !.pressed = x])
         /\ Steady(u, [u EXCEPT !.target_id = x])
BY DEF Steady, SameWidget, SameState, Sound, NumbersHeld, PressHeld, RangeTaken, ValueTaken, IsRendered, WidgetFields

LEMMA SetValueSteady ==
  ASSUME NEW u, Sound(u), u.kind = "slider", NEW index \in Int
  PROVE  Steady(u, SetValue(u, index))
BY NoObjectAssumption
   DEF SetValue, Smaller, Steady, SameWidget, SameState, Sound, NumbersHeld, PressHeld, RangeTaken, ValueTaken,
       IsRendered, WidgetFields

LEMMA UpdateSliderSteady ==
  ASSUME NEW u, Sound(u), u.kind = "slider"
  PROVE  Steady(u, UpdateSlider(u)) /\ UpdateSlider(u).max = u.max
<1> DEFINE index == ToIndex(u, u.store.VALUE)
           shown == [u EXCEPT !.shown = index]
<1>1. index \in Int
  BY DEF ToIndex, Smaller, Sound, NumbersHeld
<1> HIDE DEF index
<1>2. Steady(u, shown) /\ shown.kind = "slider" /\ shown.max = u.max
  BY <1>1 DEF Steady, SameWidget, SameState, Sound, NumbersHeld, PressHeld, RangeTaken, ValueTaken,
              IsRendered, WidgetFields
<1> HIDE DEF shown
<1>3. Steady(u, SetValue(shown, index))
  BY <1>1, <1>2, SetValueSteady, SteadyOn DEF Steady
<1>4. SetValue(shown, index).max = shown.max
  BY <1>2 DEF SetValue, Steady, Sound, WidgetFields
<1> QED
  BY <1>2, <1>3, <1>4, SteadyItself DEF UpdateSlider, index, shown

\* The range is the stored one from then on.
LEMMA ApplyRangeSteady ==
  ASSUME NEW u, Sound(u), u.kind = "slider"
  PROVE  Steady(u, ApplyRange(u)) /\ ApplyRange(u).max = u.store.MAX_VALUE
<1> DEFINE ranged == [u EXCEPT !.max = u.store.MAX_VALUE, !.step_count = Larger(u.store.MAX_VALUE, 1)]
           held == IF IsRendered(u) THEN SetValue(ranged, ranged.native) ELSE ranged
<1>1. Steady(u, ranged) /\ ranged.max = u.store.MAX_VALUE /\ ranged.kind = "slider" /\ ranged.native = u.native
  BY DEF Larger, Steady, SameWidget, SameState, Sound, NumbersHeld, PressHeld, RangeTaken, ValueTaken,
         IsRendered, WidgetFields
<1> HIDE DEF ranged
<1>2. Steady(u, held) /\ held.max = ranged.max /\ held.kind = "slider"
  <2>1. CASE IsRendered(u)
    <3>1. ranged.native \in Int
      BY <1>1, <2>1 DEF IsRendered, Sound, NumbersHeld
    <3>2. Steady(u, SetValue(ranged, ranged.native))
      BY <1>1, <3>1, SetValueSteady, SteadyOn DEF Steady
    <3>3. SetValue(ranged, ranged.native).max = ranged.max /\ SetValue(ranged, ranged.native).kind = "slider"
      BY <1>1 DEF SetValue, Steady, Sound, WidgetFields
    <3> QED
      BY <2>1, <3>2, <3>3
  <2>2. CASE ~IsRendered(u)
    BY <1>1, <2>2
  <2> QED
    BY <2>1, <2>2
<1>3. ApplyRange(u) = UpdateSlider(held)
  <2>1. IsRendered(ranged) <=> IsRendered(u)
    BY <1>1 DEF IsRendered
  <2> QED
    BY <1>1, <2>1 DEF ApplyRange, ranged, held
<1> HIDE DEF held
<1> QED
  BY <1>1, <1>2, <1>3, UpdateSliderSteady, SteadyOn DEF Steady

\* A toggle that is drawn shows the value from then on.
LEMMA UpdateShownSteady ==
  ASSUME NEW u, Sound(u)
  PROVE  /\ Steady(u, UpdateShown(u))
         /\ u.kind = "toggle" /\ IsRendered(u) => UpdateShown(u).native = u.store.VALUE
         /\ UpdateShown(u).hidden = u.hidden
<1>1. CASE u.kind = "slider"
  <2>1. UpdateSlider(u).hidden = u.hidden
    BY DEF UpdateSlider, SetValue, Sound, WidgetFields
  <2> QED
    BY <1>1, <2>1, UpdateSliderSteady DEF UpdateShown
<1>2. CASE u.kind = "toggle"
  <2>1. Steady(u, UpdateSwitch(u)) /\ (IsRendered(u) => UpdateSwitch(u).native = u.store.VALUE)
    BY <1>2, NoObjectAssumption
       DEF UpdateSwitch, Steady, SameWidget, SameState, Sound, NumbersHeld, PressHeld, RangeTaken, ValueTaken,
           IsRendered, WidgetFields
  <2>2. UpdateSwitch(u).hidden = u.hidden
    BY DEF UpdateSwitch, Sound, WidgetFields
  <2> QED
    BY <1>2, <2>1, <2>2 DEF UpdateShown
<1>3. CASE u.kind \notin {"slider", "toggle"}
  <2>1. Steady(u, UpdateChecked(u))
    BY <1>3, NoObjectAssumption
       DEF UpdateChecked, Steady, SameWidget, SameState, Sound, NumbersHeld, PressHeld, RangeTaken, ValueTaken,
           IsRendered, WidgetFields
  <2>2. UpdateChecked(u).hidden = u.hidden
    BY DEF UpdateChecked, Sound, WidgetFields
  <2> QED
    BY <1>3, <2>1, <2>2 DEF UpdateShown
<1> QED
  BY <1>1, <1>2, <1>3

LEMMA OnPropertyChangedSteady ==
  ASSUME NEW u, Sound(u), NEW type \in Registered
  PROVE  LET v == OnPropertyChanged(u, type)
         IN  /\ Steady(u, v)
             /\ type = "VALUE" => (u.kind = "toggle" /\ IsRendered(u) => v.native = v.store.VALUE)
             /\ type = "MAX_VALUE" => (u.kind = "slider" => v.max = v.store.MAX_VALUE)
             /\ type \notin Management => v.hidden = u.hidden
<1>1. Steady(u, u)
  BY SteadyItself
<1>2. CASE type = "IS_VISIBLE"
  BY <1>2, OtherFieldSteady DEF OnPropertyChanged, SetVisibility, Management
<1>3. CASE type = "VALUE"
  BY <1>3, UpdateShownSteady DEF OnPropertyChanged, Steady, SameState
<1>4. CASE type = "MAX_VALUE" /\ u.kind = "slider"
  <2>1. ApplyRange(u).hidden = u.hidden
    BY DEF ApplyRange, UpdateSlider, SetValue, Sound, WidgetFields
  <2> QED
    BY <1>4, <2>1, ApplyRangeSteady DEF OnPropertyChanged, Steady, SameState
<1>5. CASE type = "TARGET" /\ u.kind = "button"
  <2>1. Steady(u, UpdateTarget(u)) /\ UpdateTarget(u).hidden = u.hidden
    BY <1>1, OtherFieldSteady DEF UpdateTarget, Sound, WidgetFields
  <2> QED
    BY <1>5, <2>1 DEF OnPropertyChanged
<1>6. CASE /\ type \notin {"IS_VISIBLE", "VALUE"}
           /\ ~(type = "MAX_VALUE" /\ u.kind = "slider")
           /\ ~(type = "TARGET" /\ u.kind = "button")
  <2>1. OnPropertyChanged(u, type) = u
    BY <1>6 DEF OnPropertyChanged
  <2> QED
    BY <1>1, <1>6, <2>1
<1> QED
  BY <1>2, <1>3, <1>4, <1>5, <1>6

\* A press that is cut short has its release: nothing is sent after.
LEMMA ReleaseSteady ==
  ASSUME NEW u, Sound(u)
  PROVE  Steady(u, PublishPress(u, FALSE)) /\ ~PublishPress(u, FALSE).sent
BY DEF PublishPress, Steady, SameWidget, SameState, Sound, NumbersHeld, PressHeld, RangeTaken, ValueTaken,
       IsRendered, WidgetFields

LEMMA RestoreSteady ==
  ASSUME NEW u, Sound(u), "VALUE" \in u.pending
  PROVE  Steady(u, RestoreShownValue(u))
<1>1. Steady(u, u)
  BY SteadyItself
<1>2. CASE ~IsRendered(u) \/ u.kind = "button"
  BY <1>1, <1>2 DEF RestoreShownValue
<1>3. CASE IsRendered(u) /\ u.kind = "slider"
  BY <1>3, SetValueSteady DEF RestoreShownValue, Sound, NumbersHeld
<1>4. CASE IsRendered(u) /\ u.kind \notin {"slider", "button"}
  <2>1. RestoreShownValue(u) = [u EXCEPT !.native = u.shown]
    BY <1>4 DEF RestoreShownValue
  <2>2. Steady(u, [u EXCEPT !.native = u.shown])
    BY <1>4, NoObjectAssumption
       DEF Steady, SameWidget, SameState, Sound, NumbersHeld, PressHeld, RangeTaken, ValueTaken,
           IsRendered, WidgetFields
  <2> QED
    BY <2>1, <2>2
<1> QED
  BY <1>2, <1>3, <1>4

LEMMA ControlSuspendedSteady ==
  ASSUME NEW u, Sound(u)
  PROVE  Steady(u, ControlSuspended(u))
<1> DEFINE freed == [u EXCEPT !.pressed = FALSE]
<1>1. Steady(u, freed)
  BY OtherFieldSteady
<1>2. freed.pending = u.pending
  BY DEF Sound, WidgetFields
<1> HIDE DEF freed
<1>3. CASE "VALUE" \in u.pending
  <2>1. Steady(u, RestoreShownValue(freed))
    BY <1>1, <1>2, <1>3, RestoreSteady, SteadyOn DEF Steady
  <2> QED
    BY <1>3, <2>1, SteadyItself DEF ControlSuspended, freed
<1>4. CASE "VALUE" \notin u.pending
  <2>1. "VALUE" \in Registered
    BY DEF Registered
  <2>2. Steady(u, OnPropertyChanged(freed, "VALUE"))
    BY <1>1, <2>1, OnPropertyChangedSteady, SteadyOn DEF Steady
  <2> QED
    BY <1>4, <2>2, SteadyItself DEF ControlSuspended, freed
<1> QED
  BY <1>3, <1>4

LEMMA SuspendedSteady ==
  ASSUME NEW u, Sound(u)
  PROVE  Steady(u, OnProcessingSuspended(u)) /\ ~OnProcessingSuspended(u).sent
<1> DEFINE v == ControlSuspended(u)
<1>1. Steady(u, v)
  BY ControlSuspendedSteady
<1> HIDE DEF v
<1>2. CASE u.kind = "button"
  <2>1. Steady(u, PublishPress(v, FALSE)) /\ ~PublishPress(v, FALSE).sent
    BY <1>1, ReleaseSteady, SteadyOn DEF Steady
  <2> QED
    BY <1>2, <2>1 DEF OnProcessingSuspended, v
<1>3. CASE u.kind # "button"
  <2>1. ~v.sent
    BY <1>1, <1>3 DEF Steady, SameWidget, Sound, PressHeld
  <2> QED
    BY <1>1, <1>3, <2>1 DEF OnProcessingSuspended, v
<1> QED
  BY <1>2, <1>3

LEMMA ProcessingSteady ==
  ASSUME NEW u, Sound(u)
  PROVE  Steady(u, UpdateProcessingState(u))
<1> DEFINE enabled == IsAnimationEligible(u)
           suspended == IF u.was_processing /\ ~enabled THEN OnProcessingSuspended(u) ELSE u
<1>1. Steady(u, u)
  BY SteadyItself
<1>2. Steady(u, suspended)
  BY <1>1, SuspendedSteady
<1> HIDE DEF enabled, suspended
<1>3. Steady(u, [suspended EXCEPT !.was_processing = enabled])
  BY <1>2, OtherFieldSteady, SteadyOn DEF Steady
<1> QED
  BY <1>1, <1>3 DEF UpdateProcessingState, enabled, suspended

LEMMA ApplyLayoutSteady ==
  ASSUME NEW u, Sound(u)
  PROVE  Steady(u, ApplyLayout(u)) /\ ApplyLayout(u).hidden = u.hidden
<1>1. Steady(u, [u EXCEPT !.px = BoxPx(u.grid, HeldBox(u))])
  BY OtherFieldSteady
<1>2. [u EXCEPT !.px = BoxPx(u.grid, HeldBox(u))].hidden = u.hidden
  BY DEF Sound, WidgetFields
<1> QED
  BY <1>1, <1>2, SteadyItself DEF ApplyLayout

LEMMA ApplyPropertySteady ==
  ASSUME NEW u, Sound(u), NEW type \in Registered
  PROVE  LET v == ApplyProperty(u, type)
         IN  /\ Steady(u, v)
             /\ type = "VALUE" => ValueTaken(v)
             /\ type = "MAX_VALUE" => RangeTaken(v)
             /\ type \notin Management => v.hidden = u.hidden
<1>1. CASE type \in Management
  <2> DEFINE v == OnPropertyChanged(u, type)
  <2>1. Steady(u, v)
    BY OnPropertyChangedSteady
  <2> HIDE DEF v
  <2>2. Steady(u, UpdateProcessingState(v))
    BY <2>1, ProcessingSteady, SteadyOn DEF Steady
  <2>3. ApplyProperty(u, type) = UpdateProcessingState(v)
    BY <1>1 DEF ApplyProperty, v, Management, LayoutTypes
  <2> QED
    BY <1>1, <2>2, <2>3 DEF Management
<1>2. CASE type \in LayoutTypes
  <2>1. ApplyProperty(u, type) = ApplyLayout(u)
    BY <1>2 DEF ApplyProperty, Management, LayoutTypes
  <2> QED
    BY <1>2, <2>1, ApplyLayoutSteady DEF LayoutTypes
<1>3. CASE type \notin Management \cup LayoutTypes
  <2> DEFINE v == OnPropertyChanged(u, type)
  <2>1. ApplyProperty(u, type) = v
    BY <1>3 DEF ApplyProperty
  <2>2. /\ Steady(u, v)
        /\ type = "VALUE" => (u.kind = "toggle" /\ IsRendered(u) => v.native = v.store.VALUE)
        /\ type = "MAX_VALUE" => (u.kind = "slider" => v.max = v.store.MAX_VALUE)
        /\ type \notin Management => v.hidden = u.hidden
    BY OnPropertyChangedSteady
  <2>3. type = "VALUE" => (IsRendered(v) => IsRendered(u))
    <3>1. CASE type = "VALUE" /\ ~IsRendered(u)
      <4>1. v = UpdateShown(u)
        BY <3>1 DEF OnPropertyChanged
      <4>2. v = u
        BY <3>1, <4>1 DEF UpdateShown, UpdateSlider, UpdateSwitch, UpdateChecked
      <4> QED
        BY <4>2
    <3> QED
      BY <3>1
  <2> HIDE DEF v
  <2> QED
    BY <2>1, <2>2, <2>3 DEF ValueTaken, RangeTaken, Steady, SameWidget
<1> QED
  BY <1>1, <1>2, <1>3

LEMMA ApplySelectedSteady ==
  ASSUME NEW u, Sound(u), NEW type \in Registered, NEW selected
  PROVE  LET v == ApplySelected(u, type, selected)
         IN  /\ Steady(u, v)
             /\ type = "VALUE" /\ type \in selected => ValueTaken(v)
             /\ type = "MAX_VALUE" /\ type \in selected => RangeTaken(v)
             /\ selected \cap Management = {} => v.hidden = u.hidden
BY ApplyPropertySteady, SteadyItself DEF ApplySelected

\* Whatever is applied together, in the order of the registration: a value among it is
\* shown, a range among it taken.
LEMMA ApplyPropertiesSteady ==
  ASSUME NEW u, Sound(u), NEW selected
  PROVE  LET v == ApplyProperties(u, selected)
         IN  /\ Steady(u, v)
             /\ "VALUE" \in selected => ValueTaken(v)
             /\ "MAX_VALUE" \in selected => RangeTaken(v)
             /\ selected \cap Management = {} => v.hidden = u.hidden
<1> DEFINE active == ApplySelected(u, "IS_ACTIVE", selected)
           managed == ApplySelected(active, "IS_VISIBLE", selected)
           ranged == ApplySelected(managed, "MAX_VALUE", selected)
           owned == ApplySelected(ranged, "TARGET", selected)
           x == ApplySelected(owned, "LAYOUT_X", selected)
           y == ApplySelected(x, "LAYOUT_Y", selected)
           width == ApplySelected(y, "LAYOUT_WIDTH", selected)
           placed == ApplySelected(width, "LAYOUT_HEIGHT", selected)
           valued == ApplySelected(placed, "VALUE", selected)
           Kept(v) == Steady(u, v) /\ (selected \cap Management = {} => v.hidden = u.hidden)
           Ranged(v) == "MAX_VALUE" \in selected => RangeTaken(v)
           Valued(v) == "VALUE" \in selected => ValueTaken(v)
<1>1. ASSUME NEW v, Kept(v), NEW type \in Registered
      PROVE  /\ Kept(ApplySelected(v, type, selected))
             /\ Ranged(v) \/ type = "MAX_VALUE" => Ranged(ApplySelected(v, type, selected))
             /\ type = "VALUE" => Valued(ApplySelected(v, type, selected))
  <2> DEFINE after == ApplySelected(v, type, selected)
  <2>1. /\ Steady(v, after)
        /\ selected \cap Management = {} => after.hidden = v.hidden
        /\ type = "MAX_VALUE" => Ranged(after)
        /\ type = "VALUE" => Valued(after)
    BY <1>1, ApplySelectedSteady DEF Steady
  <2> HIDE DEF after
  <2>2. Steady(u, after)
    BY <1>1, <2>1, SteadyOn
  <2>3. Ranged(v) => Ranged(after)
    BY <2>1 DEF Steady
  <2> QED
    BY <1>1, <2>1, <2>2, <2>3 DEF after
<1>2. {"IS_ACTIVE", "IS_VISIBLE", "MAX_VALUE", "TARGET", "LAYOUT_X", "LAYOUT_Y", "LAYOUT_WIDTH",
       "LAYOUT_HEIGHT", "VALUE"} \subseteq Registered
  BY DEF Registered, Management, LayoutTypes
<1>3. Kept(u)
  BY SteadyItself
<1> HIDE DEF Kept, Ranged, Valued
<1>4. Kept(active)
  BY <1>1, <1>2, <1>3
<1> HIDE DEF active
<1>5. Kept(managed)
  BY <1>1, <1>2, <1>4
<1> HIDE DEF managed
<1>6. Kept(ranged) /\ Ranged(ranged)
  BY <1>1, <1>2, <1>5
<1> HIDE DEF ranged
<1>7. Kept(owned) /\ Ranged(owned)
  BY <1>1, <1>2, <1>6
<1> HIDE DEF owned
<1>8. Kept(x) /\ Ranged(x)
  BY <1>1, <1>2, <1>7
<1> HIDE DEF x
<1>9. Kept(y) /\ Ranged(y)
  BY <1>1, <1>2, <1>8
<1> HIDE DEF y
<1>10. Kept(width) /\ Ranged(width)
  BY <1>1, <1>2, <1>9
<1> HIDE DEF width
<1>11. Kept(placed) /\ Ranged(placed)
  BY <1>1, <1>2, <1>10
<1> HIDE DEF placed
<1>12. Kept(valued) /\ Ranged(valued) /\ Valued(valued)
  BY <1>1, <1>2, <1>11
<1>13. ApplyProperties(u, selected) = valued
  BY DEF ApplyProperties, InOrder, active, managed, ranged, owned, x, y, width, placed, valued
<1> HIDE DEF valued
<1> QED
  BY <1>12, <1>13 DEF Kept, Ranged, Valued

\* What waits no more, before it is applied.
LEMMA EmptiedSound ==
  ASSUME NEW u, Sound(u)
  PROVE  LET v == [u EXCEPT !.pending = {}]
         IN  /\ Sound(v) /\ SameWidget(u, v)
             /\ v.store = u.store /\ v.hidden = u.hidden /\ v.is_ready = u.is_ready /\ v.pending = {}
             /\ v.is_group_active = u.is_group_active /\ v.parent_shown = u.parent_shown
             /\ v.max = u.max /\ v.native = u.native
BY DEF SameWidget, Sound, NumbersHeld, PressHeld, IsRendered, WidgetFields

LEMMA ReplayPendingLasts ==
  ASSUME NEW u, Whole(u)
  PROVE  LET v == ReplayPendingProperties(u)
         IN  /\ Lasts(u, v)
             /\ IsAnimationEligible(u) => v.pending = {} /\ IsAnimationEligible(v)
<1> DEFINE emptied == [u EXCEPT !.pending = {}]
           v == ApplyProperties(emptied, u.pending)
<1>1. CASE ~(IsAnimationEligible(u) /\ u.pending # {})
  <2>1. ReplayPendingProperties(u) = u
    BY <1>1 DEF ReplayPendingProperties
  <2> QED
    BY <1>1, <2>1 DEF Lasts, SameWidget
<1>2. CASE IsAnimationEligible(u) /\ u.pending # {}
  <2>1. /\ Sound(emptied) /\ SameWidget(u, emptied)
        /\ emptied.store = u.store /\ emptied.hidden = u.hidden /\ emptied.is_ready = u.is_ready
        /\ emptied.pending = {} /\ emptied.is_group_active = u.is_group_active
        /\ emptied.parent_shown = u.parent_shown
        /\ emptied.max = u.max /\ emptied.native = u.native
    BY EmptiedSound DEF Whole
  <2> HIDE DEF emptied
  <2>2. u.pending \cap Management = {}
    BY DEF Whole, Sound
  <2>3. /\ Steady(emptied, v)
        /\ "VALUE" \in u.pending => ValueTaken(v)
        /\ "MAX_VALUE" \in u.pending => RangeTaken(v)
        /\ v.hidden = emptied.hidden
    BY <2>1, <2>2, ApplyPropertiesSteady
  <2>4. "VALUE" \notin u.pending => ValueTaken(emptied)
    BY <2>1 DEF Whole, ValueTaken, SameWidget, IsRendered
  <2>5. "MAX_VALUE" \notin u.pending => RangeTaken(emptied)
    BY <2>1 DEF Whole, RangeTaken, SameWidget
  <2> HIDE DEF v
  <2>6. Whole(v)
    BY <2>3, <2>4, <2>5 DEF Whole, Steady
  <2>7. SameWidget(u, v) /\ v.pending = {}
    BY <2>1, <2>3 DEF Steady, SameWidget, SameState
  <2>8. IsAnimationEligible(v)
    BY <1>2, <2>1, <2>3 DEF Steady, SameWidget, SameState, IsAnimationEligible, IsProcessingEligible
  <2>9. ReplayPendingProperties(u) = v
    BY <1>2 DEF ReplayPendingProperties, v, emptied
  <2> QED
    BY <2>6, <2>7, <2>8, <2>9 DEF Lasts
<1> QED
  BY <1>1, <1>2

LEMMA TypesRegistered ==
  ASSUME NEW kind
  PROVE  Types(kind) \subseteq Registered /\ "VALUE" \in Types(kind) /\ (kind = "slider" => "MAX_VALUE" \in Types(kind))
BY DEF Types, Registered, Management

\* More of a widget may always wait.
LEMMA WaitsWhole ==
  ASSUME NEW u, NEW types \in SUBSET (Registered \ Management), Sound(u),
         "VALUE" \in types \/ ValueTaken(u), "MAX_VALUE" \in types \/ RangeTaken(u)
  PROVE  Lasts(u, [u EXCEPT !.pending = u.pending \cup types])
BY DEF Lasts, SameWidget, Whole, Sound, NumbersHeld, PressHeld, RangeTaken, ValueTaken, IsRendered, WidgetFields

LEMMA ReplayLasts ==
  ASSUME NEW u, Sound(u)
  PROVE  Lasts(u, ReplayProperties(u))
<1> DEFINE all == Types(u.kind)
           emptied == [u EXCEPT !.pending = {}]
           v == ApplyProperties(emptied, all)
           waiting == [v EXCEPT !.pending = v.pending \cup (all \ Management)]
<1>1. Sound(emptied) /\ SameWidget(u, emptied)
  BY EmptiedSound
<1> HIDE DEF emptied
<1>2. /\ Steady(emptied, v)
      /\ ValueTaken(v)
      /\ u.kind = "slider" => RangeTaken(v)
  BY <1>1, ApplyPropertiesSteady, TypesRegistered
<1> HIDE DEF v
<1>3. Whole(v) /\ SameWidget(u, v)
  BY <1>1, <1>2 DEF Whole, Steady, SameWidget, RangeTaken
<1>4. Lasts(v, waiting)
  <2>1. all \ Management \subseteq Registered \ Management
    BY TypesRegistered
  <2> HIDE DEF all
  <2> QED
    BY <1>3, <2>1, WaitsWhole DEF Whole
<1>5. Lasts(u, v) /\ Lasts(u, waiting)
  BY <1>3, <1>4, LastsOn DEF Lasts
<1> QED
  BY <1>5 DEF ReplayProperties, emptied, all, v, waiting

\* A property that was stored just now is applied, or waits.
LEMMA NotifyLasts ==
  ASSUME NEW u, Sound(u), NEW type \in Registered,
         type = "VALUE" \/ ValueTaken(u), type = "MAX_VALUE" \/ RangeTaken(u)
  PROVE  Lasts(u, NotifyPropertyChanged(u, type))
<1> DEFINE v == ApplyProperty(u, type)
           waiting == [u EXCEPT !.pending = u.pending \cup {type}]
<1>1. Lasts(u, v)
  <2>1. /\ Steady(u, v)
        /\ type = "VALUE" => ValueTaken(v)
        /\ type = "MAX_VALUE" => RangeTaken(v)
    BY ApplyPropertySteady
  <2> HIDE DEF v
  <2> QED
    BY <2>1 DEF Lasts, Whole, Steady
<1> HIDE DEF v
<1>2. Lasts(u, ReplayPendingProperties(v))
  BY <1>1, ReplayPendingLasts, LastsOn DEF Lasts
<1>3. type \notin Management => Lasts(u, ReplayPendingProperties(waiting))
  <2>1. type \notin Management => Lasts(u, waiting)
    BY WaitsWhole
  <2> HIDE DEF waiting
  <2> QED
    BY <2>1, ReplayPendingLasts, LastsOn DEF Lasts
<1> QED
  BY <1>1, <1>2, <1>3 DEF NotifyPropertyChanged, v, waiting

LEMMA SetHolds ==
  ASSUME NEW u, Whole(u), NEW type \in Registered, NEW value, type \in {"VALUE", "MAX_VALUE"} => value \in Int
  PROVE  LET v == Set(u, type, value)
         IN  /\ Sound(v) /\ SameWidget(u, v)
             /\ type = "VALUE" \/ ValueTaken(v)
             /\ type = "MAX_VALUE" \/ RangeTaken(v)
<1> DEFINE store == [u.store EXCEPT ![type] = value]
<1>1. /\ DOMAIN store = Registered
      /\ store.VALUE \in Int /\ store.MAX_VALUE \in Int
      /\ type # "VALUE" => store.VALUE = u.store.VALUE
      /\ type # "MAX_VALUE" => store.MAX_VALUE = u.store.MAX_VALUE
  BY DEF Whole, Sound, NumbersHeld, Registered
<1> HIDE DEF store
<1>2. LET v == [u EXCEPT !.store = store]
      IN  /\ Sound(v) /\ SameWidget(u, v)
          /\ type = "VALUE" \/ ValueTaken(v)
          /\ type = "MAX_VALUE" \/ RangeTaken(v)
  BY <1>1 DEF SameWidget, Whole, Sound, NumbersHeld, PressHeld, RangeTaken, ValueTaken, IsRendered, WidgetFields
<1> QED
  BY <1>2 DEF Set, store

LEMMA SetNotifyLasts ==
  ASSUME NEW u, Whole(u), NEW type \in Registered, NEW value, type \in {"VALUE", "MAX_VALUE"} => value \in Int
  PROVE  Lasts(u, NotifyPropertyChanged(Set(u, type, value), type))
<1> DEFINE v == Set(u, type, value)
<1>1. /\ Sound(v) /\ SameWidget(u, v)
      /\ type = "VALUE" \/ ValueTaken(v)
      /\ type = "MAX_VALUE" \/ RangeTaken(v)
  BY SetHolds
<1> HIDE DEF v
<1>2. Lasts(v, NotifyPropertyChanged(v, type))
  BY <1>1, NotifyLasts
<1> QED
  BY <1>1, <1>2 DEF Lasts, SameWidget, v

LEMMA OnEventLasts ==
  ASSUME NEW u, Whole(u), NEW type \in Registered, NEW value, type \in {"VALUE", "MAX_VALUE"} => value \in Int
  PROVE  Lasts(u, OnEvent(u, type, value))
<1>1. Lasts(u, u)
  BY DEF Lasts, SameWidget
<1> QED
  BY <1>1, SetNotifyLasts DEF OnEvent

\* The life of a widget.

LEMMA ProcessingLasts ==
  ASSUME NEW u, Whole(u)
  PROVE  Lasts(u, UpdateProcessingState(u))
BY ProcessingSteady, SteadyLasts DEF Whole

\* What the widget is told of itself and of what is above it.
LEMMA ToldLasts ==
  ASSUME NEW u, Whole(u), NEW x
  PROVE  /\ Lasts(u, [u EXCEPT !.is_group_active = x])
         /\ Lasts(u, [u EXCEPT !.parent_shown = x])
         /\ Lasts(u, [u EXCEPT !.is_ready = FALSE])
         /\ Lasts(u, [u EXCEPT !.box = x])
         /\ Lasts(u, [u EXCEPT !.px = x])
         /\ Lasts(u, [u EXCEPT !.pressed = x])
BY DEF Lasts, SameWidget, Whole, Sound, NumbersHeld, PressHeld, RangeTaken, ValueTaken, IsRendered, WidgetFields

LEMMA SynchronizeLasts ==
  ASSUME NEW u, Whole(u)
  PROVE  Lasts(u, Synchronize(u))
<1> DEFINE v == UpdateProcessingState(u)
<1>1. Lasts(u, v)
  BY ProcessingLasts
<1> HIDE DEF v
<1>2. Lasts(v, ReplayPendingProperties(v))
  BY <1>1, ReplayPendingLasts DEF Lasts
<1> QED
  BY <1>1, <1>2, LastsOn DEF Synchronize, v

LEMMA RenderFailsLasts ==
  ASSUME NEW u, Whole(u)
  PROVE  Lasts(u, RenderFails(u))
<1> DEFINE v == [u EXCEPT !.is_ready = FALSE]
<1>1. Lasts(u, v)
  BY ToldLasts
<1> HIDE DEF v
<1>2. Lasts(v, UpdateProcessingState(v))
  BY <1>1, ProcessingLasts DEF Lasts
<1> QED
  BY <1>1, <1>2, LastsOn DEF RenderFails, v

LEMMA RenderObjectLasts ==
  ASSUME NEW u, Whole(u)
  PROVE  Lasts(u, RenderObject(u))
<1> DEFINE made == [u EXCEPT !.native = 0]
           drawn == UpdateShown(made)
<1>1. /\ Sound(made) /\ SameWidget(u, made) /\ SameState(u, made) /\ IsRendered(made)
      /\ made.max = u.max
  BY NoObjectAssumption
     DEF SameWidget, SameState, Whole, Sound, NumbersHeld, PressHeld, IsRendered, WidgetFields
<1> HIDE DEF made
<1>2. /\ Steady(made, drawn)
      /\ made.kind = "toggle" => drawn.native = made.store.VALUE
  BY <1>1, UpdateShownSteady
<1> HIDE DEF drawn
<1>3. RangeTaken(made)
  BY <1>1 DEF Whole, RangeTaken, SameWidget, SameState
<1>4. Whole(drawn) /\ SameWidget(u, drawn) /\ IsRendered(drawn)
  BY <1>1, <1>2, <1>3 DEF Whole, Steady, ValueTaken, SameWidget, SameState
<1>5. Lasts(drawn, [drawn EXCEPT !.is_ready = TRUE])
  BY <1>4 DEF Lasts, SameWidget, Whole, Sound, NumbersHeld, PressHeld, RangeTaken, ValueTaken, IsRendered, WidgetFields
<1> QED
  BY <1>4, <1>5, LastsOn DEF Lasts, RenderObject, DoRender, made, drawn

LEMMA RenderLasts ==
  ASSUME NEW u, Whole(u)
  PROVE  Lasts(u, Render(u))
<1> DEFINE begun == UpdateProcessingState([u EXCEPT !.is_ready = FALSE])
           made == RenderObject(begun)
           told == UpdateProcessingState(made)
<1>1. Lasts(u, begun)
  BY RenderFailsLasts DEF RenderFails
<1> HIDE DEF begun
<1>2. Lasts(u, made)
  BY <1>1, RenderObjectLasts, LastsOn DEF Lasts
<1> HIDE DEF made
<1>3. Lasts(u, told)
  BY <1>2, ProcessingLasts, LastsOn DEF Lasts
<1> HIDE DEF told
<1>4. Lasts(u, ReplayPendingProperties(told))
  BY <1>3, ReplayPendingLasts, LastsOn DEF Lasts
<1> QED
  BY <1>4 DEF Render, begun, made, told

LEMMA GroupLasts ==
  ASSUME NEW u, Whole(u)
  PROVE  Lasts(u, OnActivated(u)) /\ Lasts(u, OnDeactivated(u))
<1>1. ASSUME NEW x \in BOOLEAN
      PROVE  Lasts(u, UpdateProcessingState([u EXCEPT !.is_group_active = x]))
  <2> DEFINE v == [u EXCEPT !.is_group_active = x]
  <2>1. Lasts(u, v)
    BY ToldLasts
  <2> HIDE DEF v
  <2>2. Lasts(u, UpdateProcessingState(v))
    BY <2>1, ProcessingLasts, LastsOn DEF Lasts
  <2> QED
    BY <2>2 DEF v
<1> DEFINE active == UpdateProcessingState([u EXCEPT !.is_group_active = TRUE])
<1>2. Lasts(u, active)
  BY <1>1
<1> HIDE DEF active
<1>3. Lasts(u, ReplayProperties(active))
  BY <1>2, ReplayLasts, LastsOn DEF Lasts, Whole
<1>4. Lasts(u, OnActivated(u))
  BY <1>2, <1>3 DEF OnActivated, active
<1> QED
  BY <1>1, <1>4 DEF OnDeactivated

\* A widget that is taken down has nothing sent that is not released.
LEMMA DetachHolds ==
  ASSUME NEW u, Whole(u)
  PROVE  LET v == DetachDispatch(u)
         IN  /\ Whole(v) /\ ~v.sent
             /\ v.kind = u.kind /\ v.is_sending_press = u.is_sending_press /\ v.bound = u.bound
<1> DEFINE down == [u EXCEPT !.detached = TRUE, !.is_ready = FALSE, !.is_group_active = FALSE]
           v == OnProcessingSuspended(down)
<1>1. /\ Whole(down)
      /\ down.kind = u.kind /\ down.is_sending_press = u.is_sending_press /\ down.bound = u.bound
  BY DEF Whole, Sound, NumbersHeld, PressHeld, RangeTaken, ValueTaken, IsRendered, WidgetFields
<1> HIDE DEF down
<1>2. Steady(down, v) /\ ~v.sent
  BY <1>1, SuspendedSteady DEF Whole
<1> HIDE DEF v
<1>3. Lasts(down, v)
  BY <1>1, <1>2, SteadyLasts
<1>4. Steady(v, [v EXCEPT !.was_processing = FALSE])
  BY <1>3, OtherFieldSteady DEF Lasts, Whole
<1>5. Lasts(v, [v EXCEPT !.was_processing = FALSE])
  BY <1>3, <1>4, SteadyLasts DEF Lasts
<1> QED
  BY <1>1, <1>2, <1>3, <1>5 DEF Lasts, SameWidget, DetachDispatch, down, v

RecordFields == {"IS_ACTIVE", "TARGET", "BOX"}

\* A widget that is built has what its record says, and nothing sent.
LEMMA AssembledHolds ==
  ASSUME NEW kind, NEW sends, NEW bound \in SUBSET LayoutTypes, NEW grid, NEW shown,
         NEW r, DOMAIN r = RecordFields
  PROVE  LET v == Assemble(Constructed(kind, sends, bound, grid, shown), r)
         IN  /\ Whole(v) /\ ~v.sent /\ v.asked = NotAsked
             /\ v.kind = kind /\ v.is_sending_press = sends /\ v.bound = bound
<1> DEFINE u == Constructed(kind, sends, bound, grid, shown)
           recorded == [type \in DOMAIN u.store |-> Recorded(r, type)]
           store == IF u.kind = "box" THEN RegisterLayoutProperties(recorded, r.BOX) ELSE recorded
           stored == [u EXCEPT !.box = r.BOX, !.store = store]
           v == ReplayProperties(stored)
<1>1. /\ DOMAIN u = WidgetFields /\ DOMAIN u.store = Registered
      /\ u.pending = {} /\ u.bound = bound /\ u.kind = kind /\ u.is_sending_press = sends
      /\ u.step_count = 1 /\ u.shown = 0 /\ u.native = NoObject /\ u.is_ready = FALSE
      /\ u.sent = FALSE /\ u.asked = NotAsked
  BY DEF Constructed, WidgetFields
<1> HIDE DEF u
<1>2. DOMAIN recorded = Registered /\ recorded.VALUE = 0 /\ recorded.MAX_VALUE = 0
  BY <1>1 DEF Recorded, Default, RecordFields, Registered, Management
<1> HIDE DEF recorded
<1>3. DOMAIN store = Registered /\ store.VALUE = 0 /\ store.MAX_VALUE = 0
  BY <1>2 DEF RegisterLayoutProperties, Registered
<1> HIDE DEF store
<1>4. /\ Sound(stored)
      /\ stored.kind = kind /\ stored.is_sending_press = sends /\ stored.bound = bound
      /\ stored.sent = FALSE /\ stored.asked = NotAsked
  BY <1>1, <1>3 DEF Sound, NumbersHeld, PressHeld, WidgetFields
<1> HIDE DEF stored
<1>5. Lasts(stored, v)
  BY <1>4, ReplayLasts
<1> HIDE DEF v
<1>6. Lasts(v, [v EXCEPT !.px = BoxPx(u.grid, r.BOX)])
  BY <1>5, ToldLasts DEF Lasts
<1>7. Lasts(v, v)
  BY <1>5 DEF Lasts, SameWidget
<1>8. Assemble(u, r) \in {v, [v EXCEPT !.px = BoxPx(u.grid, r.BOX)]}
  BY DEF Assemble, Configure, v, stored, store, recorded
<1>9. Lasts(v, Assemble(u, r))
  BY <1>6, <1>7, <1>8
<1>10. Lasts(stored, Assemble(u, r))
  BY <1>5, <1>9, LastsOn
<1> QED
  BY <1>4, <1>10 DEF Lasts, SameWidget, u

LEMMA EditorPropertyLasts ==
  ASSUME NEW u, Whole(u), NEW before, NEW after, NEW type \in {"IS_ACTIVE", "TARGET"}
  PROVE  Lasts(u, ApplyEditorProperty(u, before, after, type))
<1>1. Lasts(u, u)
  BY DEF Lasts, SameWidget
<1>2. type \in Registered /\ type \notin {"VALUE", "MAX_VALUE"}
  BY DEF Registered, Management
<1>3. Lasts(u, NotifyPropertyChanged(Set(u, type, Recorded(after, type)), type))
  BY <1>2, SetNotifyLasts
<1> QED
  BY <1>1, <1>3 DEF ApplyEditorProperty

LEMMA EditorBoxLasts ==
  ASSUME NEW u, Whole(u), NEW before, NEW after
  PROVE  Lasts(u, ApplyEditorBox(u, before, after))
<1> DEFINE registered == RegisterLayoutProperties(u.store, after.BOX)
           store == [type \in DOMAIN u.store |-> IF type \in u.bound THEN u.store[type] ELSE registered[type]]
           v == [u EXCEPT !.store = store]
<1>1. DOMAIN store = Registered /\ store.VALUE = u.store.VALUE /\ store.MAX_VALUE = u.store.MAX_VALUE
  <2>1. DOMAIN u.store = Registered
    BY DEF Whole, Sound
  <2>2. registered.VALUE = u.store.VALUE /\ registered.MAX_VALUE = u.store.MAX_VALUE
    BY <2>1 DEF RegisterLayoutProperties, Registered
  <2> HIDE DEF registered
  <2> QED
    BY <2>1, <2>2 DEF Registered
<1> HIDE DEF store
<1>2. Lasts(u, v)
  BY <1>1 DEF Lasts, SameWidget, Whole, Sound, NumbersHeld, PressHeld, RangeTaken, ValueTaken, IsRendered, WidgetFields
<1> HIDE DEF v
<1>3. Lasts(v, ApplyLayout(v))
  BY <1>2, ApplyLayoutSteady, SteadyLasts DEF Lasts, Whole
<1>4. Lasts(u, ApplyLayout(v))
  BY <1>2, <1>3, LastsOn
<1>5. Lasts(u, u)
  BY DEF Lasts, SameWidget
<1> QED
  BY <1>4, <1>5 DEF ApplyEditorBox, v, store, registered

LEMMA EditLasts ==
  ASSUME NEW u, Whole(u), NEW before, NEW after
  PROVE  Lasts(u, ApplyEditorConfiguration(u, before, after))
<1> DEFINE boxed == [u EXCEPT !.box = after.BOX]
           active == ApplyEditorProperty(boxed, before, after, "IS_ACTIVE")
           taken == ApplyEditorProperty(active, before, after, "TARGET")
<1>1. Lasts(u, boxed)
  BY ToldLasts
<1> HIDE DEF boxed
<1>2. Lasts(u, active)
  BY <1>1, EditorPropertyLasts, LastsOn DEF Lasts
<1> HIDE DEF active
<1>3. Lasts(u, taken)
  BY <1>2, EditorPropertyLasts, LastsOn DEF Lasts
<1> HIDE DEF taken
<1>4. Lasts(u, ApplyEditorBox(taken, before, after))
  BY <1>3, EditorBoxLasts, LastsOn DEF Lasts
<1> QED
  BY <1>4 DEF ApplyEditorConfiguration, boxed, active, taken

-----------------------------------------------------------------------------
\* A control under a finger.

\* What a person asked for: of a slider within the range, of a toggle the opposite.
AskHeld(v) ==
    v.asked # NotAsked =>
        /\ v.kind = "slider" => v.asked.value <= v.asked.max
        /\ v.kind = "toggle" => v.asked.value # v.asked.over

\* What LVGL's events leave as it was.
SameControl(u, v) ==
    v.kind = u.kind /\ v.is_sending_press = u.is_sending_press /\ v.bound = u.bound /\ v.detached = u.detached

\* An event that is let in finds nothing waiting; one that is not takes back the press.
LEMMA GuardHolds ==
  ASSUME NEW u, Whole(u)
  PROVE  LET v == InputGuard(u)
         IN  /\ Lasts(u, v)
             /\ IsAnimationEligible(u) => v.pending = {} /\ IsAnimationEligible(v)
             /\ ~IsAnimationEligible(u) => ~v.sent
<1>1. CASE IsAnimationEligible(u)
  BY <1>1, ReplayPendingLasts DEF InputGuard
<1>2. CASE ~IsAnimationEligible(u)
  BY <1>2, SuspendedSteady, SteadyLasts DEF InputGuard, Whole
<1> QED
  BY <1>1, <1>2

LEMMA PressedField ==
  ASSUME NEW u, Whole(u), NEW x
  PROVE  LET v == [u EXCEPT !.pressed = x]
         IN  /\ Lasts(u, v)
             /\ SameState(u, v) /\ v.hidden = u.hidden /\ v.native = u.native /\ v.max = u.max
BY DEF Lasts, SameWidget, SameState, Whole, Sound, NumbersHeld, PressHeld, RangeTaken, ValueTaken, IsRendered, WidgetFields

LEMMA PressedHolds ==
  ASSUME NEW u, Whole(u), AskHeld(u)
  PROVE  Whole(Pressed(u)) /\ AskHeld(Pressed(u)) /\ SameControl(u, Pressed(u))
<1> DEFINE guarded == InputGuard(u)
           down == [guarded EXCEPT !.pressed = TRUE]
<1>1. Lasts(u, guarded)
  BY GuardHolds
<1> HIDE DEF guarded
<1>2. Lasts(u, down)
  BY <1>1, PressedField, LastsOn DEF Lasts
<1> HIDE DEF down
<1>3. ASSUME NEW v, Lasts(u, v)
      PROVE  Whole(v) /\ AskHeld(v) /\ SameControl(u, v)
  BY <1>3 DEF Lasts, SameWidget, SameControl, AskHeld
<1>4. ASSUME down.kind = "button"
      PROVE  LET v == PublishPress(down, TRUE)
             IN  Whole(v) /\ SameControl(down, v) /\ v.asked = down.asked
  BY <1>2, <1>4
     DEF PublishPress, Lasts, Whole, SameControl, Sound, NumbersHeld, PressHeld, RangeTaken, ValueTaken,
         IsRendered, WidgetFields
<1>5. down.kind = u.kind
  BY <1>2 DEF Lasts, SameWidget
<1>6. u.kind = "button" =>
        LET v == PublishPress(down, TRUE) IN Whole(v) /\ AskHeld(v) /\ SameControl(u, v)
  BY <1>3, <1>2, <1>4, <1>5 DEF AskHeld, SameControl
<1> QED
  BY <1>1, <1>2, <1>3, <1>6 DEF Pressed, guarded, down

\* A drag asks for a value within the range that is stored, which is the one the
\* slider has once nothing waits.
LEMMA DraggedHolds ==
  ASSUME NEW u, Whole(u), AskHeld(u), NEW index \in Int
  PROVE  LET v == Dragged(u, index)
         IN  Whole(v) /\ AskHeld(v) /\ SameControl(u, v) /\ (v.sent => u.sent)
<1> DEFINE guarded == InputGuard(u)
           moved == SetValue(guarded, index)
           value == ToValue(moved, moved.native)
           Held(v) == Whole(v) /\ AskHeld(v) /\ SameControl(u, v) /\ (v.sent => u.sent)
<1>1. /\ Lasts(u, guarded)
      /\ IsAnimationEligible(u) => guarded.pending = {}
  BY GuardHolds
<1> HIDE DEF guarded
<1>2. ASSUME NEW v, Lasts(u, v) PROVE Held(v)
  BY <1>2 DEF Lasts, SameWidget, SameControl, AskHeld
<1>3. CASE ~IsAnimationEligible(u) \/ u.kind # "slider"
  BY <1>1, <1>2, <1>3 DEF Dragged, guarded
<1>4. CASE IsAnimationEligible(u) /\ u.kind = "slider"
  <2>1. /\ Steady(guarded, moved) /\ moved.max = guarded.max
        /\ moved.native \in Int /\ moved.kind = "slider"
    <3>1. guarded.kind = "slider" /\ Sound(guarded)
      BY <1>1, <1>4 DEF Lasts, SameWidget, Whole
    <3>2. Steady(guarded, moved)
      BY <3>1, SetValueSteady
    <3>3. moved.max = guarded.max /\ moved.native \in Int
      BY <3>1 DEF SetValue, Smaller, Sound, NumbersHeld, WidgetFields
    <3> QED
      BY <3>1, <3>2, <3>3 DEF Steady, SameWidget
  <2> HIDE DEF moved
  <2>2. Lasts(u, moved)
    BY <1>1, <2>1, SteadyLasts, LastsOn DEF Lasts
  <2>3. moved.pending = {} /\ moved.max = moved.store.MAX_VALUE /\ moved.max \in Int
    BY <1>1, <1>4, <2>1, <2>2 DEF Steady, SameState, Lasts, Whole, RangeTaken, Sound, NumbersHeld
  <2>4. value \in Int /\ value <= moved.store.MAX_VALUE
    BY <2>1, <2>3 DEF ToValue, Smaller
  <2> HIDE DEF value
  <2>5. Held(SetPropertyLocal(moved, value))
    <3>1. CASE ~IsProcessingEligible(moved)
      BY <1>2, <2>2, <3>1 DEF SetPropertyLocal
    <3>2. CASE IsProcessingEligible(moved)
      <4> DEFINE asked == [value |-> value, over |-> moved.store.VALUE, max |-> moved.store.MAX_VALUE]
                 store == [moved.store EXCEPT !.VALUE = value]
                 v == [moved EXCEPT !.asked = asked, !.store = store]
      <4>1. SetPropertyLocal(moved, value) = v
        BY <3>2 DEF SetPropertyLocal, Lasts, Whole, Sound, WidgetFields
      <4>2. asked.value <= asked.max
        BY <2>4
      <4> HIDE DEF asked
      <4>3. DOMAIN store = Registered /\ store.VALUE = value /\ store.MAX_VALUE = moved.store.MAX_VALUE
        BY <2>2 DEF Lasts, Whole, Sound, Registered
      <4> HIDE DEF store
      <4>4. Whole(v) /\ SameControl(moved, v) /\ v.sent = moved.sent /\ v.asked = asked /\ v.kind = "slider"
        BY <2>1, <2>2, <2>4, <4>3
           DEF Lasts, Whole, SameControl, Sound, NumbersHeld, PressHeld, RangeTaken, ValueTaken,
               IsRendered, WidgetFields
      <4> HIDE DEF v
      <4> QED
        BY <2>2, <4>1, <4>2, <4>4 DEF Lasts, SameWidget, SameControl, AskHeld
    <3> QED
      BY <3>1, <3>2
  <2>6. Held(moved)
    BY <1>2, <2>2
  <2> HIDE DEF Held
  <2>7. Dragged(u, index) \in {moved, SetPropertyLocal(moved, value)}
    BY <1>4 DEF Dragged, guarded, moved, value
  <2>8. Held(Dragged(u, index))
    BY <2>5, <2>6, <2>7
  <2> QED
    BY <2>8 DEF Held
<1> QED
  BY <1>3, <1>4

\* A toggle asks for the opposite of what is stored, since it shows what is stored
\* once nothing waits.
LEMMA FlippedHolds ==
  ASSUME NEW u, Whole(u), u.kind = "toggle", u.pending = {}, IsAnimationEligible(u), ~u.sent
  PROVE  Whole(Flipped(u)) /\ AskHeld(Flipped(u)) /\ SameControl(u, Flipped(u)) /\ ~Flipped(u).sent
<1> DEFINE value == 1 - u.native
           flipped == [u EXCEPT !.native = value]
           asked == [value |-> value, over |-> u.store.VALUE, max |-> u.store.MAX_VALUE]
           store == [u.store EXCEPT !.VALUE = value]
           v == [u EXCEPT !.native = value, !.asked = asked, !.store = store]
<1>1. IsRendered(u) /\ u.native = u.store.VALUE /\ u.store.VALUE \in Int
  BY DEF Whole, Sound, NumbersHeld, ValueTaken, IsAnimationEligible
<1>2. value \in Int /\ value # u.store.VALUE
  BY <1>1
<1>3. Flipped(u) = v
  <2>1. /\ IsProcessingEligible(flipped)
        /\ flipped.store = u.store
        /\ DOMAIN flipped = WidgetFields
    BY DEF IsAnimationEligible, IsProcessingEligible, Whole, Sound, WidgetFields
  <2>2. SetPropertyLocal(flipped, value) = [flipped EXCEPT !.asked = asked, !.store = store]
    BY <2>1 DEF SetPropertyLocal, WidgetFields
  <2> QED
    BY <2>2 DEF Flipped, Whole, Sound, WidgetFields
<1>4. asked.value # asked.over
  BY <1>2
<1>5. DOMAIN store = Registered /\ store.VALUE = value /\ store.MAX_VALUE = u.store.MAX_VALUE
  BY DEF Whole, Sound, Registered
<1> HIDE DEF value, asked, store
<1>6. Whole(v) /\ SameControl(u, v) /\ ~v.sent /\ v.asked = asked
  BY <1>2, <1>5, NoObjectAssumption
     DEF Whole, SameControl, Sound, NumbersHeld, PressHeld, RangeTaken, ValueTaken, IsRendered, WidgetFields
<1> HIDE DEF v
<1> QED
  BY <1>3, <1>4, <1>6 DEF AskHeld, SameControl

\* A contact that ends on the control leaves nothing sent.
LEMMA ReleasedHolds ==
  ASSUME NEW u, Whole(u), AskHeld(u)
  PROVE  Whole(Released(u)) /\ AskHeld(Released(u)) /\ SameControl(u, Released(u)) /\ ~Released(u).sent
<1> DEFINE guarded == InputGuard(u)
           up == [guarded EXCEPT !.pressed = FALSE]
           Held(v) == Whole(v) /\ AskHeld(v) /\ SameControl(u, v)
<1>1. /\ Lasts(u, guarded)
      /\ IsAnimationEligible(u) => guarded.pending = {} /\ IsAnimationEligible(guarded)
      /\ ~IsAnimationEligible(u) => ~guarded.sent
  BY GuardHolds
<1> HIDE DEF guarded
<1>2. ASSUME NEW v, Lasts(u, v) PROVE Held(v)
  BY <1>2 DEF Lasts, SameWidget, SameControl, AskHeld
<1>3. /\ Lasts(guarded, up)
      /\ SameState(guarded, up) /\ up.hidden = guarded.hidden
  BY <1>1, PressedField DEF Lasts
<1> HIDE DEF up
<1>4. Lasts(u, up)
  BY <1>1, <1>3, LastsOn
<1>5. CASE ~IsAnimationEligible(u)
  BY <1>1, <1>2, <1>5 DEF Released, guarded
<1>6. CASE IsAnimationEligible(u) /\ u.kind = "toggle"
  <2>1. /\ Whole(up) /\ up.kind = "toggle" /\ up.pending = {} /\ IsAnimationEligible(up) /\ ~up.sent
        /\ SameControl(u, up)
    BY <1>1, <1>3, <1>4, <1>6
       DEF Lasts, SameWidget, SameControl, SameState, IsAnimationEligible, IsProcessingEligible, Whole, Sound, PressHeld
  <2>2. Released(u) = Flipped(up)
    BY <1>6 DEF Released, up, guarded
  <2> QED
    BY <2>1, <2>2, FlippedHolds DEF SameControl
<1>7. CASE IsAnimationEligible(u) /\ u.kind = "slider"
  <2>1. Sound(up) /\ up.kind = "slider" /\ Whole(up)
    BY <1>4, <1>7 DEF Lasts, SameWidget, Whole
  <2>2. Lasts(u, UpdateSlider(up))
    BY <1>4, <2>1, UpdateSliderSteady, SteadyLasts, LastsOn
  <2>3. ~UpdateSlider(up).sent
    BY <1>7, <2>2 DEF Lasts, SameWidget, Whole, Sound, PressHeld
  <2>4. Released(u) = UpdateSlider(up)
    BY <1>7 DEF Released, up, guarded
  <2> QED
    BY <1>2, <2>2, <2>3, <2>4
<1>8. CASE IsAnimationEligible(u) /\ u.kind \notin {"toggle", "slider"}
  <2>1. Steady(up, PublishPress(up, FALSE)) /\ ~PublishPress(up, FALSE).sent
    BY <1>4, ReleaseSteady DEF Lasts, Whole
  <2>2. Lasts(u, PublishPress(up, FALSE))
    BY <1>4, <2>1, SteadyLasts, LastsOn DEF Lasts
  <2>3. Released(u) = PublishPress(up, FALSE)
    BY <1>8 DEF Released, up, guarded
  <2> QED
    BY <1>2, <2>1, <2>2, <2>3
<1> QED
  BY <1>5, <1>6, <1>7, <1>8

LEMMA PressLostHolds ==
  ASSUME NEW u, Whole(u), AskHeld(u)
  PROVE  Whole(PressLost(u)) /\ AskHeld(PressLost(u)) /\ SameControl(u, PressLost(u)) /\ ~PressLost(u).sent
<1> DEFINE guarded == InputGuard(u)
           up == [guarded EXCEPT !.pressed = FALSE]
<1>1. /\ Lasts(u, guarded)
      /\ ~IsAnimationEligible(u) => ~guarded.sent
  BY GuardHolds
<1> HIDE DEF guarded
<1>2. ASSUME NEW v, Lasts(u, v) PROVE Whole(v) /\ AskHeld(v) /\ SameControl(u, v)
  BY <1>2 DEF Lasts, SameWidget, SameControl, AskHeld
<1>3. Lasts(u, up)
  BY <1>1, PressedField, LastsOn DEF Lasts
<1> HIDE DEF up
<1>4. CASE ~IsAnimationEligible(u)
  BY <1>1, <1>2, <1>4 DEF PressLost, guarded
<1>5. CASE IsAnimationEligible(u) /\ u.kind = "button"
  <2>1. Steady(up, PublishPress(up, FALSE)) /\ ~PublishPress(up, FALSE).sent
    BY <1>3, ReleaseSteady DEF Lasts, Whole
  <2>2. Lasts(u, PublishPress(up, FALSE))
    BY <1>3, <2>1, SteadyLasts, LastsOn DEF Lasts
  <2>3. PressLost(u) = PublishPress(up, FALSE)
    BY <1>5 DEF PressLost, up, guarded
  <2> QED
    BY <1>2, <2>1, <2>2, <2>3
<1>6. CASE IsAnimationEligible(u) /\ u.kind # "button"
  <2>1. ~up.sent
    BY <1>3, <1>6 DEF Lasts, SameWidget, Whole, Sound, PressHeld
  <2>2. PressLost(u) = up
    BY <1>6 DEF PressLost, up, guarded
  <2> QED
    BY <1>2, <1>3, <2>1, <2>2
<1> QED
  BY <1>4, <1>5, <1>6

-----------------------------------------------------------------------------
\* The contact and the widget under it.

\* A press that was sent has its finger on the button still.
Answered(v, c) == v.sent => c.at = "control" /\ ~v.detached

\* A contact that acted does not act again: it waits for its release, or is over
\* with its click.  One that sent a press is on a button that takes its own swipes.
ContactHeld(v, c) ==
    /\ DOMAIN c = ContactFields
    /\ c.acts \in {0, 1}
    /\ c.acts = 1 => c.wait_release \/ c.at = "clicked"
    /\ c.has_sent => /\ c.at \in {"control", "clicked"}
                     /\ v.kind = "button" /\ v.is_sending_press
                     /\ ~c.has_swiped

Controlled(v, r, c) ==
    Whole(v) /\ AskHeld(v) /\ DOMAIN r = RecordFields /\ Answered(v, c) /\ ContactHeld(v, c)

ControlsInv == Controlled(w, record, contact)

LEMMA RecordsTyped ==
  ASSUME NEW kind, NEW r \in Records(kind)
  PROVE  DOMAIN r = RecordFields
BY DEF Records, RecordFields

LEMMA NoContactHeld ==
  ASSUME NEW v
  PROVE  ContactHeld(v, NoContact) /\ NoContact.at = "none"
BY DEF ContactHeld, NoContact, ContactFields

\* A control that nobody touches and that nothing is sent of.
LEMMA FreshControlled ==
  ASSUME NEW kind, NEW sends, NEW bound \in SUBSET LayoutTypes, NEW grid, NEW r, DOMAIN r = RecordFields
  PROVE  Controlled(Assemble(Constructed(kind, sends, bound, grid, TRUE), r), r, NoContact)
<1>1. PICK shown : shown = TRUE
  OBVIOUS
<1> DEFINE v == Assemble(Constructed(kind, sends, bound, grid, shown), r)
<1>2. Whole(v) /\ ~v.sent /\ v.asked = NotAsked
  BY AssembledHolds
<1> HIDE DEF v
<1>3. Controlled(v, r, NoContact)
  BY <1>2, NoContactHeld DEF Controlled, AskHeld, Answered
<1> QED
  BY <1>1, <1>3 DEF v

LEMMA ControlsStart == WidgetsInit => ControlsInv
<1> SUFFICES ASSUME WidgetsInit PROVE ControlsInv
  OBVIOUS
<1>1. CASE Init
  <2>1. PICK kind \in Kinds, sends \in BOOLEAN :
          \E r \in Records(kind), bound \in Bindings(kind), grid \in IF kind = "box" THEN Grids ELSE {NoGrid} :
            w = Assemble(Constructed(kind, sends, bound, grid, TRUE), r) /\ record = r
    BY <1>1 DEF Init
  <2>2. PICK r \in Records(kind), bound \in Bindings(kind), grid \in IF kind = "box" THEN Grids ELSE {NoGrid} :
            w = Assemble(Constructed(kind, sends, bound, grid, TRUE), r) /\ record = r
    BY <2>1
  <2>3. bound \in SUBSET LayoutTypes
    BY DEF Bindings, LayoutTypes
  <2>4. contact = NoContact
    BY <1>1 DEF Init
  <2> QED
    BY <2>2, <2>3, <2>4, RecordsTyped, FreshControlled DEF ControlsInv
<1>2. CASE Untouched
  <2>1. DOMAIN record = RecordFields
    BY <1>2 DEF Untouched, RecordFields
  <2>2. w = Assemble(Constructed("toggle", TRUE, {}, NoGrid, TRUE), record) /\ contact = NoContact
    BY <1>2 DEF Untouched
  <2>3. Controlled(Assemble(Constructed("toggle", TRUE, {}, NoGrid, TRUE), record), record, NoContact)
    BY <2>1, FreshControlled
  <2> QED
    BY <2>2, <2>3 DEF ControlsInv
<1> QED
  BY <1>1, <1>2 DEF WidgetsInit

\* What is asked is of one step.
LEMMA AskedAnew ==
  ASSUME NEW u, Whole(u)
  PROVE  LET v == [u EXCEPT !.asked = NotAsked]
         IN  /\ Whole(v) /\ AskHeld(v) /\ SameControl(u, v)
             /\ v.sent = u.sent
BY DEF SameControl, AskHeld, Whole, Sound, NumbersHeld, PressHeld, RangeTaken, ValueTaken, IsRendered, WidgetFields

\* A call that leaves the control what it was, in whatever contact.
LEMMA CallControlled ==
  ASSUME ControlsInv, NEW v, Lasts(w, v), Becomes(v), contact' = contact, DOMAIN record' = RecordFields
  PROVE  Controlled(w', record', contact')
<1> DEFINE anew == [v EXCEPT !.asked = NotAsked]
<1>1. /\ Whole(anew) /\ AskHeld(anew) /\ SameControl(v, anew)
      /\ anew.sent = v.sent
  BY AskedAnew DEF Lasts
<1>2. w' = anew
  BY DEF Becomes
<1> HIDE DEF anew
<1> QED
  BY <1>1, <1>2 DEF ControlsInv, Controlled, Answered, ContactHeld, Lasts, SameWidget, SameControl

\* LVGL's events, in a contact that changes as it likes.
LEMMA InputControlled ==
  ASSUME NEW v, NEW r, NEW c, Whole(v), AskHeld(v), DOMAIN r = RecordFields, ~v.sent, ContactHeld(v, c)
  PROVE  Controlled(v, r, c)
BY DEF Controlled, Answered

LEMMA TakenDownControlled ==
  ASSUME ControlsInv, TakenDown
  PROVE  Controlled(w', record', contact')
<1> DEFINE v == DetachDispatch(w)
           anew == [v EXCEPT !.asked = NotAsked]
<1>1. /\ Whole(v) /\ ~v.sent
      /\ v.kind = w.kind /\ v.is_sending_press = w.is_sending_press
  BY DetachHolds DEF ControlsInv, Controlled
<1>2. w' = anew /\ record' = record /\ (contact' = contact \/ contact' = NoContact)
  BY DEF TakenDown, Becomes
<1> HIDE DEF v
<1>3. Whole(anew) /\ AskHeld(anew) /\ ~anew.sent /\ SameControl(v, anew)
  BY <1>1, AskedAnew
<1> HIDE DEF anew
<1>4. ContactHeld(anew, contact')
  BY <1>1, <1>2, <1>3, NoContactHeld DEF ControlsInv, Controlled, ContactHeld, SameControl
<1> QED
  BY <1>2, <1>3, <1>4, InputControlled DEF ControlsInv, Controlled

LEMMA BuiltAgainControlled ==
  ASSUME ControlsInv, BuiltAgain
  PROVE  Controlled(w', record', contact')
<1> DEFINE v == Assemble(Constructed(w.kind, w.is_sending_press, w.bound, w.grid, w.parent_shown), record)
           anew == [v EXCEPT !.asked = NotAsked]
<1>1. w.bound \in SUBSET LayoutTypes /\ DOMAIN record = RecordFields
  BY DEF ControlsInv, Controlled, Whole, Sound
<1>2. /\ Whole(v) /\ ~v.sent
      /\ v.kind = w.kind /\ v.is_sending_press = w.is_sending_press
  BY <1>1, AssembledHolds
<1>3. w' = anew /\ record' = record /\ contact' = contact
  BY DEF BuiltAgain, Becomes, Stays
<1> HIDE DEF v
<1>4. Whole(anew) /\ AskHeld(anew) /\ ~anew.sent /\ SameControl(v, anew)
  BY <1>2, AskedAnew
<1> HIDE DEF anew
<1>5. ContactHeld(anew, contact)
  BY <1>2, <1>4 DEF ControlsInv, Controlled, ContactHeld, SameControl
<1> QED
  BY <1>1, <1>3, <1>4, <1>5, InputControlled

\* A contact begins on the control, which may send its press, or beside it.
LEMMA BeginsControlled ==
  ASSUME ControlsInv, NEW report, Begins(report), record' = record
  PROVE  Controlled(w', record', contact')
<1>1. /\ Whole(w) /\ AskHeld(w) /\ ~w.sent /\ DOMAIN record = RecordFields
      /\ contact.at = "none"
  BY DEF ControlsInv, Controlled, Answered, Begins
<1>2. CASE w' = w /\ contact' = [NoContact EXCEPT !.at = "screen", !.fingers = {report.id}]
  <2>1. ContactHeld(w, contact')
    BY <1>2 DEF ContactHeld, NoContact, ContactFields
  <2> QED
    BY <1>1, <1>2, <2>1, InputControlled
<1>3. CASE /\ IsOnScreen /\ w' = Pressed(w)
           /\ contact' = [NoContact EXCEPT !.at = "control", !.fingers = {report.id}, !.has_sent = w'.sent]
  <2>1. Whole(w') /\ AskHeld(w') /\ SameControl(w, w') /\ ~w.detached
    BY <1>1, <1>3, PressedHolds DEF IsOnScreen
  <2>2. w'.sent => w'.kind = "button" /\ w'.is_sending_press
    BY <2>1 DEF Whole, Sound, PressHeld
  <2>3. ContactHeld(w', contact') /\ contact'.at = "control"
    BY <1>3, <2>2 DEF ContactHeld, NoContact, ContactFields
  <2> QED
    BY <1>1, <2>1, <2>3 DEF Controlled, Answered, SameControl
<1> QED
  BY <1>2, <1>3 DEF Begins

LEMMA GoesOnControlled ==
  ASSUME ControlsInv, NEW report, GoesOn(report), record' = record
  PROVE  Controlled(w', record', contact')
<1>1. contact' = [contact EXCEPT !.fingers = contact.fingers \cup {report.id}]
  BY DEF GoesOn
<1>2. ASSUME NEW v, Whole(v), AskHeld(v), SameControl(w, v), v.sent => w.sent
      PROVE  Controlled(v, record, contact')
  BY <1>1, <1>2 DEF ControlsInv, Controlled, Answered, ContactHeld, ContactFields, SameControl
<1>3. CASE w' = w
  BY <1>2, <1>3 DEF SameControl, ControlsInv, Controlled
<1>4. ASSUME NEW index \in {0, MaxValue}, w' = Dragged(w, index)
      PROVE  Controlled(w', record', contact')
  <2>1. index \in Int
    BY <1>4, MaxValueAssumption
  <2>2. Whole(w') /\ AskHeld(w') /\ SameControl(w, w') /\ (w'.sent => w.sent)
    BY <1>4, <2>1, DraggedHolds DEF ControlsInv, Controlled
  <2> QED
    BY <1>2, <2>2
<1> QED
  BY <1>3, <1>4 DEF GoesOn

LEMMA EndsControlled ==
  ASSUME ControlsInv, NEW report, Ends(report), record' = record
  PROVE  Controlled(w', record', contact')
<1>1. Whole(w') /\ AskHeld(w') /\ SameControl(w, w') /\ ~w'.sent
  <2>1. CASE contact.at # "control"
    BY <2>1 DEF Ends, ControlsInv, Controlled, Answered, SameControl
  <2>2. CASE contact.at = "control" /\ contact.wait_release
    BY <2>2, PressLostHolds DEF Ends, ControlsInv, Controlled
  <2>3. CASE contact.at = "control" /\ ~contact.wait_release
    BY <2>3, ReleasedHolds DEF Ends, ControlsInv, Controlled
  <2> QED
    BY <2>1, <2>2, <2>3
<1>2. ContactHeld(w', contact')
  <2>1. CASE contact' = NoContact
    BY <2>1, NoContactHeld
  <2>2. CASE /\ contact.at = "control" /\ ~contact.wait_release
             /\ contact' = [contact EXCEPT !.at = "clicked", !.acts = contact.acts + 1]
    <3>1. contact.acts = 0
      BY <2>2 DEF ControlsInv, Controlled, ContactHeld
    <3> QED
      BY <1>1, <2>2, <3>1 DEF ControlsInv, Controlled, ContactHeld, ContactFields, SameControl
  <2> QED
    BY <2>1, <2>2 DEF Ends
<1> QED
  BY <1>1, <1>2, InputControlled DEF ControlsInv, Controlled

\* A swipe that navigates is the only thing its contact does, and no button that
\* sent its press is under it.
LEMMA GestureControlled ==
  ASSUME ControlsInv, NEW direction, NEW enabled \in BOOLEAN, HandleGesture(direction, enabled)
  PROVE  Controlled(w', record', contact')
<1> DEFINE isHeard == contact.at = "screen" \/ ~CapturesGestures(w)
           isMeant == isHeard /\ enabled /\ direction \in Mapped
           acts == isMeant /\ ~is_cooling
<1>1. /\ contact.at \in {"control", "screen"} /\ ~contact.wait_release
      /\ contact' = [contact EXCEPT !.gesture_sent = TRUE, !.wait_release = isMeant,
                                    !.has_swiped = acts,
                                    !.acts = IF acts THEN contact.acts + 1 ELSE contact.acts]
      /\ w' = w /\ record' = record
  BY DEF HandleGesture
<1>2. contact.acts = 0 /\ ContactHeld(w, contact)
  BY <1>1 DEF ControlsInv, Controlled, ContactHeld
<1>3. contact.has_sent => ~isHeard
  BY <1>1, <1>2 DEF ContactHeld, CapturesGestures
<1>4. (acts => isMeant) /\ (acts => isHeard)
  OBVIOUS
<1> HIDE DEF isMeant, isHeard, acts
<1>5. ContactHeld(w, contact') /\ contact'.at = contact.at
  BY <1>1, <1>2, <1>3, <1>4 DEF ContactHeld, ContactFields
<1> QED
  BY <1>1, <1>5 DEF ControlsInv, Controlled, Answered

LEMMA EventControlled ==
  ASSUME ControlsInv, Event
  PROVE  Controlled(w', record', contact')
<1>1. contact' = contact /\ DOMAIN record' = RecordFields /\ Whole(w)
  BY DEF Event, Stays, ControlsInv, Controlled
<1>2. ASSUME NEW type \in Registered, NEW value, type \in {"VALUE", "MAX_VALUE"} => value \in Int,
             Becomes(OnEvent(w, type, value))
      PROVE  Controlled(w', record', contact')
  BY <1>1, <1>2, OnEventLasts, CallControlled
<1>3. Values(w.kind) \subseteq Int /\ {0, MaxValue} \subseteq Int
  BY MaxValueAssumption DEF Values
<1>4. w.bound \subseteq Registered \ {"VALUE", "MAX_VALUE"}
  BY <1>1 DEF Whole, Sound, LayoutTypes, Registered
<1>5. {"IS_VISIBLE", "VALUE", "MAX_VALUE"} \subseteq Registered
  BY DEF Registered, Management
<1>6. CASE \E visible \in BOOLEAN : Becomes(OnEvent(w, "IS_VISIBLE", visible))
  BY <1>2, <1>5, <1>6
<1>7. CASE \E value \in Values(w.kind) : Becomes(OnEvent(w, "VALUE", value))
  BY <1>2, <1>3, <1>5, <1>7
<1>8. CASE \E type \in w.bound, halves \in Published : Becomes(OnEvent(w, type, CoerceLayoutValue(halves)))
  BY <1>2, <1>4, <1>8
<1>9. CASE \E max \in {0, MaxValue} : w.kind = "slider" /\ Becomes(OnEvent(w, "MAX_VALUE", max))
  BY <1>2, <1>3, <1>5, <1>9
<1> QED
  BY <1>6, <1>7, <1>8, <1>9 DEF Event

LEMMA ControlsStep == ControlsInv /\ [Next]_vars => ControlsInv'
<1> SUFFICES ASSUME ControlsInv, [Next]_vars PROVE Controlled(w', record', contact')
  BY DEF ControlsInv
<1>1. Whole(w) /\ DOMAIN record = RecordFields
  BY DEF ControlsInv, Controlled
<1>2. CASE UNCHANGED <<w, record, contact>>
  BY <1>2 DEF ControlsInv
<1>3. CASE UNCHANGED vars \/ Touches \/ CooldownPasses
  BY <1>2, <1>3 DEF vars, Touches, CooldownPasses
<1>4. CASE Renders
  BY <1>1, <1>4, RenderLasts, RenderFailsLasts, CallControlled DEF Renders, Stays
<1>5. CASE Activates \/ Deactivates
  BY <1>1, <1>5, GroupLasts, CallControlled DEF Activates, Deactivates, Stays
<1>6. CASE ParentChanges
  <2>1. Lasts(w, [w EXCEPT !.parent_shown = ~w.parent_shown])
    BY <1>1, ToldLasts
  <2> QED
    BY <1>1, <1>6, <2>1, CallControlled DEF ParentChanges, Stays
<1>7. CASE Refresh
  BY <1>1, <1>7, SynchronizeLasts, CallControlled DEF Refresh, Stays
<1>8. CASE Edit
  <2>1. PICK after \in Records(w.kind) : Becomes(ApplyEditorConfiguration(w, record, after)) /\ record' = after
    BY <1>8 DEF Edit
  <2>2. Lasts(w, ApplyEditorConfiguration(w, record, after))
    BY <1>1, EditLasts
  <2> QED
    BY <1>8, <2>1, <2>2, RecordsTyped, CallControlled DEF Edit
<1>9. CASE Clicked
  <2>1. ~w.sent /\ w' = w /\ record' = record /\ contact' = NoContact
    BY <1>9 DEF Clicked, ControlsInv, Controlled, Answered
  <2> QED
    BY <2>1, NoContactHeld, InputControlled DEF ControlsInv, Controlled
<1>10. CASE Reads
  <2>1. record' = record
    BY <1>10 DEF Reads
  <2> QED
    BY <1>2, <1>10, <2>1, BeginsControlled, GoesOnControlled, EndsControlled DEF Reads
<1> QED
  BY <1>3, <1>4, <1>5, <1>6, <1>7, <1>8, <1>9, <1>10, EventControlled, TakenDownControlled,
     BuiltAgainControlled, GestureControlled DEF Next

LEMMA ControlsInvariant == WidgetsSpec => []ControlsInv
<1>1. ControlsInv /\ [WidgetsNext]_allVars => ControlsInv'
  BY ControlsStep, SceneSteps DEF allVars, vars
<1> QED
  BY <1>1, ControlsStart, PTL DEF WidgetsSpec

\* What a person asks a setting for is within the range its owner gave, and a toggle
\* asks for the opposite of what is stored, for any range and whatever events,
\* records, overlays and rebuilds come before the finger (slider_control.cpp,
\* toggle_control.cpp): what waits is applied before the event is let in, so the
\* control has the range and the value that are stored.
THEOREM AsksAreOfWhatIsStoredHolds == WidgetsSpec => []AsksAreOfWhatIsStored
<1>1. ControlsInv => AsksAreOfWhatIsStored
  BY DEF ControlsInv, Controlled, AskHeld, AsksAreOfWhatIsStored
<1> QED
  BY <1>1, ControlsInvariant, PTL

\* A press that a button sent is answered by its release, whatever ends it: the
\* finger lifts, a swipe takes the contact, the button is hidden, deactivated or
\* taken down (button_control.cpp).
THEOREM PressIsReleasedHolds == WidgetsSpec => []PressIsReleased
<1>1. ControlsInv => PressIsReleased
  BY DEF ControlsInv, Controlled, Answered, PressIsReleased
<1> QED
  BY <1>1, ControlsInvariant, PTL

\* A contact navigates once, by a swipe or by a click, and never by a swipe once it
\* has sent a press: for any groups and any mapped directions (ui_input_service.cpp).
THEOREM ContactActsOnceHolds == WidgetsSpec => []ContactActsOnce
<1>1. ControlsInv => ContactActsOnce
  BY DEF ControlsInv, Controlled, ContactHeld, ContactActsOnce
<1> QED
  BY <1>1, ControlsInvariant, PTL

-----------------------------------------------------------------------------
\* What a frame draws of a control, and where it draws a box.  What is stored has
\* been taken by what shows it, unless it is kept to be applied.

StepTaken(v) == v.step_count = Larger(v.max, 1)

\* A slider that no finger holds, and a button.
ValueDrawn(v) ==
    /\ v.kind = "slider" /\ IsRendered(v) /\ ~v.pressed =>
        "VALUE" \in v.pending \/ v.native = Smaller(v.store.VALUE, v.step_count)
    /\ v.kind = "button" /\ IsRendered(v) => "VALUE" \in v.pending \/ v.native = v.store.VALUE

TargetTaken(v) ==
    v.kind = "button" => "TARGET" \in v.pending \/ v.store.TARGET = NoTarget \/ v.target_id = v.store.TARGET

HiddenTaken(v) == v.hidden = ~v.store.IS_VISIBLE

IsPlaced(v) == v.kind = "box" => v.px # NoBox

BoxTaken(v) == IsPlaced(v) /\ (v.kind = "box" => v.pending \cap LayoutTypes # {} \/ v.px = BoxPx(v.grid, HeldBox(v)))

BoxSound(v) ==
    v.kind = "box" =>
        /\ v.grid \in Grids
        /\ ValidateBox(v.grid, v.box)
        /\ \A type \in LayoutTypes : v.store[type] \in Int

Taken(v, type) ==
    /\ type = "VALUE" => ValueDrawn(v)
    /\ type = "TARGET" => TargetTaken(v)
    /\ type = "IS_VISIBLE" => HiddenTaken(v)
    /\ type \in LayoutTypes => BoxTaken(v)

\* What a call leaves of what is drawn.
Looks(u, v) ==
    /\ v.kind = u.kind /\ v.box = u.box /\ v.grid = u.grid
    /\ v.pressed => u.pressed
    /\ StepTaken(u) => StepTaken(v)
    /\ IsPlaced(u) => IsPlaced(v)
    /\ ValueDrawn(u) => ValueDrawn(v)
    /\ TargetTaken(u) => TargetTaken(v)
    /\ HiddenTaken(u) => HiddenTaken(v)
    /\ BoxTaken(u) => BoxTaken(v)

LEMMA LooksItself == ASSUME NEW u PROVE Looks(u, u)
BY DEF Looks

LEMMA LooksOn ==
  ASSUME NEW u, NEW v, NEW x, Looks(u, v), Looks(v, x)
  PROVE  Looks(u, x)
BY DEF Looks

LEMMA BoxSoundStays ==
  ASSUME NEW u, NEW v, BoxSound(u), v.kind = u.kind, v.store = u.store, v.box = u.box, v.grid = u.grid
  PROVE  BoxSound(v)
BY DEF BoxSound

\* What none of this reads may change.
LEMMA SameLooks ==
  ASSUME NEW u, NEW v, v.kind = u.kind, v.store = u.store, v.box = u.box, v.grid = u.grid, v.px = u.px,
         v.pending = u.pending, v.native = u.native, v.pressed = u.pressed, v.hidden = u.hidden,
         v.target_id = u.target_id, v.step_count = u.step_count, v.max = u.max
  PROVE  Looks(u, v) /\ (BoxSound(u) => BoxSound(v))
<1>1. HeldBox(v) = HeldBox(u)
  BY DEF HeldBox
<1> QED
  BY <1>1 DEF Looks, StepTaken, ValueDrawn, TargetTaken, HiddenTaken, BoxTaken, IsPlaced, BoxSound, IsRendered

\* Where a box is put is somewhere.
LEMMA PxOfBox ==
  ASSUME NEW grid \in Grids, NEW box,
         box.x \in Int, box.y \in Int, box.width \in Int, box.height \in Int
  PROVE  BoxPx(grid, box) # NoBox
<1>1. /\ grid.width \in Int /\ grid.height \in Int /\ grid.spacing \in Int
      /\ LcdPx \in Int
      /\ grid.width > 0 /\ grid.height > 0
  BY GridsAssumption, LcdPxAssumption DEF IsLayout
<1>2. ASSUME NEW cells \in Int, NEW of \in Int, of > 0, NEW spacing \in Int
      PROVE  ExtentPx(cells, of, spacing) \in Int /\ StepPx(of, spacing) \in Int
  <2>1. LcdPx \div of \in Int
    BY <1>1, <1>2
  <2> QED
    BY <1>1, <1>2, <2>1 DEF ExtentPx, StepPx
<1> DEFINE size == SizePx(grid, box.width, box.height)
           left == StepPx(grid.width, grid.spacing) * box.x
           up == StepPx(grid.height, grid.spacing) * box.y
<1>3. size \in [width : Int, height : Int]
  BY <1>1, <1>2 DEF SizePx
<1>4. left \in Int /\ up \in Int
  <2>1. \A a, b \in Int : a * b \in Int
    OBVIOUS
  <2>2. StepPx(grid.width, grid.spacing) \in Int /\ StepPx(grid.height, grid.spacing) \in Int
    BY <1>1, <1>2
  <2> QED
    BY <2>1, <2>2
<1>5. BoxPx(grid, box) = [x |-> left, y |-> Distance(LcdPx, up + size.height),
                          width |-> size.width, height |-> size.height]
  BY DEF BoxPx
<1> HIDE DEF size, left, up
<1>6. Distance(LcdPx, up + size.height) \in Int
  BY <1>1, <1>3, <1>4 DEF Distance
<1> QED
  BY <1>3, <1>4, <1>5, <1>6, NoBoxAssumption

LEMMA PxIsBox ==
  ASSUME NEW u, u.kind = "box", BoxSound(u)
  PROVE  BoxPx(u.grid, HeldBox(u)) # NoBox
<1>1. u.grid \in Grids /\ u.grid.width \in Int /\ u.grid.height \in Int
  BY GridsAssumption, LcdPxAssumption DEF BoxSound, IsLayout
<1>2. /\ u.store.LAYOUT_X \in Int /\ u.store.LAYOUT_Y \in Int
      /\ u.store.LAYOUT_WIDTH \in Int /\ u.store.LAYOUT_HEIGHT \in Int
      /\ u.box.x \in Int /\ u.box.y \in Int /\ u.box.width \in Int /\ u.box.height \in Int
  BY <1>1 DEF BoxSound, LayoutTypes, ValidateBox
<1> DEFINE box == HeldBox(u)
<1>3. box.x \in Int /\ box.y \in Int /\ box.width \in Int /\ box.height \in Int
  BY <1>1, <1>2 DEF HeldBox, Within, FarthestCell, Larger
<1> HIDE DEF box
<1> QED
  BY <1>1, <1>3, PxOfBox DEF box

LEMMA UpdateSliderLooks ==
  ASSUME NEW u, Sound(u), u.kind = "slider"
  PROVE  Looks(u, UpdateSlider(u)) /\ ValueDrawn(UpdateSlider(u))
<1> DEFINE index == Smaller(u.store.VALUE, u.step_count)
           v == [u EXCEPT !.shown = index, !.native = Smaller(index, u.step_count)]
<1>1. Smaller(index, u.step_count) = index
  BY DEF Smaller, Sound, NumbersHeld
<1> HIDE DEF index
<1>2. /\ v.kind = u.kind /\ v.store = u.store /\ v.box = u.box /\ v.grid = u.grid /\ v.px = u.px
      /\ v.pending = u.pending /\ v.native = index /\ v.pressed = u.pressed /\ v.hidden = u.hidden
      /\ v.target_id = u.target_id /\ v.step_count = u.step_count /\ v.max = u.max
  BY <1>1 DEF Sound, WidgetFields
<1>3. SetValue([u EXCEPT !.shown = index], index) = v
  BY DEF SetValue, Sound, WidgetFields
<1>4. UpdateSlider(u) = IF ~IsRendered(u) \/ u.pressed THEN u ELSE v
  BY <1>3 DEF UpdateSlider, ToIndex, index
<1> HIDE DEF v
<1>5. ValueDrawn(v) /\ (~IsRendered(u) \/ u.pressed => ValueDrawn(u))
  BY <1>2 DEF ValueDrawn, index
<1>6. Looks(u, v)
  BY <1>2, <1>5 DEF Looks, StepTaken, TargetTaken, HiddenTaken, BoxTaken, IsPlaced
<1> QED
  BY <1>4, <1>5, <1>6, LooksItself

LEMMA ApplyRangeLooks ==
  ASSUME NEW u, Sound(u), u.kind = "slider"
  PROVE  Looks(u, ApplyRange(u))
<1> DEFINE ranged == [u EXCEPT !.max = u.store.MAX_VALUE, !.step_count = Larger(u.store.MAX_VALUE, 1)]
           held == IF IsRendered(u) THEN SetValue(ranged, ranged.native) ELSE ranged
           v == UpdateSlider(held)
<1>1. Sound(ranged) /\ ranged.native = u.native
  BY DEF Larger, Sound, NumbersHeld, PressHeld, IsRendered, WidgetFields
<1>2. /\ ranged.kind = u.kind /\ ranged.store = u.store /\ ranged.box = u.box /\ ranged.grid = u.grid /\ ranged.px = u.px
      /\ ranged.pending = u.pending /\ ranged.pressed = u.pressed /\ ranged.hidden = u.hidden
      /\ ranged.target_id = u.target_id /\ StepTaken(ranged)
  BY DEF Sound, WidgetFields, StepTaken
<1>3. ApplyRange(u) = v
  BY <1>1 DEF ApplyRange, IsRendered
<1> HIDE DEF ranged
<1>4. /\ Sound(held)
      /\ held.kind = u.kind /\ held.store = u.store /\ held.box = u.box /\ held.grid = u.grid /\ held.px = u.px
      /\ held.pending = u.pending /\ held.pressed = u.pressed /\ held.hidden = u.hidden
      /\ held.target_id = u.target_id /\ held.step_count = ranged.step_count /\ held.max = ranged.max
  <2>1. IsRendered(u) => Sound(SetValue(ranged, ranged.native))
    <3>1. IsRendered(u) => ranged.native \in Int
      BY <1>1 DEF IsRendered, Sound, NumbersHeld
    <3> QED
      BY <1>1, <1>2, <3>1, SetValueSteady DEF Steady
  <2> QED
    BY <1>1, <1>2, <2>1 DEF SetValue, Sound, WidgetFields
<1> HIDE DEF held
<1>5. Looks(held, v) /\ ValueDrawn(v)
  BY <1>2, <1>4, UpdateSliderLooks
<1>6. StepTaken(held)
  BY <1>2, <1>4 DEF StepTaken
<1>7. HeldBox(held) = HeldBox(u)
  BY <1>4 DEF HeldBox
<1> HIDE DEF v
<1>8. Looks(u, v)
  BY <1>4, <1>5, <1>6 DEF Looks, TargetTaken, HiddenTaken, BoxTaken, IsPlaced
<1> QED
  BY <1>3, <1>8

LEMMA UpdateShownLooks ==
  ASSUME NEW u, Sound(u)
  PROVE  Looks(u, UpdateShown(u)) /\ ValueDrawn(UpdateShown(u))
<1>1. CASE u.kind = "slider"
  BY <1>1, UpdateSliderLooks DEF UpdateShown
<1>2. CASE u.kind # "slider"
  <2>1. PICK v : v = UpdateShown(u)
    OBVIOUS
  <2>2. /\ v.kind = u.kind /\ v.store = u.store /\ v.box = u.box /\ v.grid = u.grid /\ v.px = u.px
        /\ v.pending = u.pending /\ v.pressed = u.pressed /\ v.hidden = u.hidden
        /\ v.target_id = u.target_id /\ v.step_count = u.step_count /\ v.max = u.max
    BY <1>2, <2>1 DEF UpdateShown, UpdateSwitch, UpdateChecked, Sound, WidgetFields
  <2>3. u.kind = "button" => IF IsRendered(u) THEN v.native = u.store.VALUE ELSE v = u
    BY <2>1 DEF UpdateShown, UpdateChecked, Sound, WidgetFields
  <2>4. ValueDrawn(v)
    BY <1>2, <2>2, <2>3 DEF ValueDrawn
  <2>5. HeldBox(v) = HeldBox(u)
    BY <2>2 DEF HeldBox
  <2>6. Looks(u, v)
    BY <2>2, <2>4, <2>5 DEF Looks, StepTaken, TargetTaken, HiddenTaken, BoxTaken, IsPlaced
  <2> QED
    BY <2>1, <2>4, <2>6
<1> QED
  BY <1>1, <1>2

LEMMA UpdateTargetLooks ==
  ASSUME NEW u, Sound(u)
  PROVE  Looks(u, UpdateTarget(u)) /\ TargetTaken(UpdateTarget(u))
<1> DEFINE v == [u EXCEPT !.target_id = u.store.TARGET]
<1>1. /\ v.kind = u.kind /\ v.store = u.store /\ v.box = u.box /\ v.grid = u.grid /\ v.px = u.px
      /\ v.pending = u.pending /\ v.native = u.native /\ v.pressed = u.pressed /\ v.hidden = u.hidden
      /\ v.target_id = u.store.TARGET /\ v.step_count = u.step_count /\ v.max = u.max
  BY DEF Sound, WidgetFields
<1>2. UpdateTarget(u) = IF u.store.TARGET = NoTarget THEN u ELSE v
  BY DEF UpdateTarget
<1> HIDE DEF v
<1>3. TargetTaken(v) /\ (u.store.TARGET = NoTarget => TargetTaken(u))
  BY <1>1 DEF TargetTaken
<1>4. HeldBox(v) = HeldBox(u)
  BY <1>1 DEF HeldBox
<1>5. Looks(u, v)
  BY <1>1, <1>3, <1>4 DEF Looks, StepTaken, ValueDrawn, HiddenTaken, BoxTaken, IsPlaced, IsRendered
<1> QED
  BY <1>2, <1>3, <1>5, LooksItself

LEMMA SetVisibilityLooks ==
  ASSUME NEW u, Sound(u)
  PROVE  Looks(u, SetVisibility(u)) /\ HiddenTaken(SetVisibility(u))
<1> DEFINE v == [u EXCEPT !.hidden = ~u.store.IS_VISIBLE]
<1>1. /\ v.kind = u.kind /\ v.store = u.store /\ v.box = u.box /\ v.grid = u.grid /\ v.px = u.px
      /\ v.pending = u.pending /\ v.native = u.native /\ v.pressed = u.pressed
      /\ v.target_id = u.target_id /\ v.step_count = u.step_count /\ v.max = u.max
  BY DEF Sound, WidgetFields
<1>2. v.hidden = ~u.store.IS_VISIBLE
  BY Zenon DEF Sound, WidgetFields
<1>3. SetVisibility(u) = v
  BY DEF SetVisibility
<1> HIDE DEF v
<1>4. HiddenTaken(v)
  BY <1>1, <1>2, Zenon DEF HiddenTaken
<1>5. HeldBox(v) = HeldBox(u)
  BY <1>1 DEF HeldBox
<1>6. Looks(u, v)
  BY <1>1, <1>4, <1>5 DEF Looks, StepTaken, ValueDrawn, TargetTaken, BoxTaken, IsPlaced, IsRendered
<1> QED
  BY <1>3, <1>4, <1>6

LEMMA OnPropertyChangedLooks ==
  ASSUME NEW u, Sound(u), NEW type \in Registered \ LayoutTypes
  PROVE  Looks(u, OnPropertyChanged(u, type)) /\ Taken(OnPropertyChanged(u, type), type)
<1>1. Looks(u, u)
  BY LooksItself
<1>2. CASE type = "IS_VISIBLE"
  BY <1>2, SetVisibilityLooks DEF OnPropertyChanged, Taken, LayoutTypes
<1>3. CASE type = "VALUE"
  BY <1>3, UpdateShownLooks DEF OnPropertyChanged, Taken, LayoutTypes
<1>4. CASE type = "MAX_VALUE" /\ u.kind = "slider"
  BY <1>4, ApplyRangeLooks DEF OnPropertyChanged, Taken, LayoutTypes
<1>5. CASE type = "TARGET" /\ u.kind = "button"
  BY <1>5, UpdateTargetLooks DEF OnPropertyChanged, Taken, LayoutTypes
<1>6. CASE /\ type \notin {"IS_VISIBLE", "VALUE"}
           /\ ~(type = "MAX_VALUE" /\ u.kind = "slider")
           /\ ~(type = "TARGET" /\ u.kind = "button")
  <2>1. OnPropertyChanged(u, type) = u
    BY <1>6 DEF OnPropertyChanged
  <2>2. Taken(u, type)
    BY <1>6 DEF Taken, TargetTaken
  <2> QED
    BY <1>1, <2>1, <2>2
<1> QED
  BY <1>2, <1>3, <1>4, <1>5, <1>6

\* What shows a value goes on without a finger.
LEMMA ControlSuspendedLooks ==
  ASSUME NEW u, Sound(u)
  PROVE  LET v == ControlSuspended(u)
         IN  Looks(u, v) /\ (IsRendered(u) => ~v.pressed /\ ValueDrawn(v))
<1> DEFINE freed == [u EXCEPT !.pressed = FALSE]
           v == ControlSuspended(u)
<1>1. CASE ~IsRendered(u)
  BY <1>1, LooksItself DEF ControlSuspended
<1>2. CASE IsRendered(u)
  <2>1. /\ freed.kind = u.kind /\ freed.store = u.store /\ freed.box = u.box /\ freed.grid = u.grid
        /\ freed.px = u.px /\ freed.pending = u.pending /\ freed.native = u.native /\ ~freed.pressed
        /\ freed.hidden = u.hidden /\ freed.target_id = u.target_id /\ freed.step_count = u.step_count
        /\ freed.max = u.max
    BY DEF Sound, WidgetFields
  <2>2. Sound(freed)
    BY OtherFieldSteady DEF Steady
  <2>3. v = IF "VALUE" \in u.pending THEN RestoreShownValue(freed) ELSE UpdateShown(freed)
    BY <1>2, <2>1 DEF ControlSuspended, OnPropertyChanged
  <2> HIDE DEF freed, v
  <2>4. HeldBox(freed) = HeldBox(u)
    BY <2>1 DEF HeldBox
  <2>5. CASE "VALUE" \notin u.pending
    <3>1. Looks(freed, v) /\ ValueDrawn(v)
      BY <2>2, <2>3, <2>5, UpdateShownLooks
    <3>2. Looks(u, v) /\ ~v.pressed
      BY <2>1, <2>4, <3>1 DEF Looks, StepTaken, TargetTaken, HiddenTaken, BoxTaken, IsPlaced
    <3> QED
      BY <3>1, <3>2 DEF v
  <2>6. CASE "VALUE" \in u.pending
    <3>1. /\ v.kind = freed.kind /\ v.store = freed.store /\ v.box = freed.box /\ v.grid = freed.grid
          /\ v.px = freed.px /\ v.pending = freed.pending /\ v.pressed = freed.pressed /\ v.hidden = freed.hidden
          /\ v.target_id = freed.target_id /\ v.step_count = freed.step_count /\ v.max = freed.max
      BY <2>2, <2>3, <2>6 DEF RestoreShownValue, SetValue, Sound, WidgetFields
    <3>2. HeldBox(v) = HeldBox(u)
      BY <2>1, <3>1 DEF HeldBox
    <3>3. ValueDrawn(v)
      BY <2>1, <2>6, <3>1 DEF ValueDrawn
    <3>4. Looks(u, v) /\ ~v.pressed
      BY <2>1, <3>1, <3>2, <3>3 DEF Looks, StepTaken, TargetTaken, HiddenTaken, BoxTaken, IsPlaced
    <3> QED
      BY <3>3, <3>4 DEF v
  <2> QED
    BY <2>5, <2>6
<1> QED
  BY <1>1, <1>2

LEMMA PublishLooks ==
  ASSUME NEW u, Sound(u), NEW x
  PROVE  Looks(u, PublishPress(u, x)) /\ (ValueDrawn(u) => ValueDrawn(PublishPress(u, x)))
<1> DEFINE v == PublishPress(u, x)
<1>1. /\ v.kind = u.kind /\ v.store = u.store /\ v.box = u.box /\ v.grid = u.grid /\ v.px = u.px
      /\ v.pending = u.pending /\ v.native = u.native /\ v.pressed = u.pressed /\ v.hidden = u.hidden
      /\ v.target_id = u.target_id /\ v.step_count = u.step_count /\ v.max = u.max
  BY DEF PublishPress, Sound, WidgetFields
<1> HIDE DEF v
<1>2. Looks(u, v)
  BY <1>1, SameLooks
<1> QED
  BY <1>2 DEF Looks, v

LEMMA SuspendedLooks ==
  ASSUME NEW u, Sound(u)
  PROVE  LET v == OnProcessingSuspended(u)
         IN  Looks(u, v) /\ (IsRendered(u) => ~v.pressed /\ ValueDrawn(v))
<1> DEFINE v == ControlSuspended(u)
<1>1. Looks(u, v) /\ (IsRendered(u) => ~v.pressed /\ ValueDrawn(v)) /\ Sound(v)
  BY ControlSuspendedLooks, ControlSuspendedSteady DEF Steady
<1> HIDE DEF v
<1>2. Looks(v, PublishPress(v, FALSE))
  BY <1>1, PublishLooks
<1>3. Looks(u, PublishPress(v, FALSE)) /\ (IsRendered(u) => ~PublishPress(v, FALSE).pressed /\ ValueDrawn(PublishPress(v, FALSE)))
  BY <1>1, <1>2, LooksOn DEF Looks
<1> QED
  BY <1>1, <1>3 DEF OnProcessingSuspended, v

LEMMA ProcessingLooks ==
  ASSUME NEW u, Sound(u)
  PROVE  Looks(u, UpdateProcessingState(u))
<1> DEFINE enabled == IsAnimationEligible(u)
           suspended == IF u.was_processing /\ ~enabled THEN OnProcessingSuspended(u) ELSE u
           v == [suspended EXCEPT !.was_processing = enabled]
<1>1. Looks(u, suspended) /\ Sound(suspended)
  BY LooksItself, SuspendedLooks, SuspendedSteady DEF Steady
<1> HIDE DEF enabled, suspended
<1>2. /\ v.kind = suspended.kind /\ v.store = suspended.store /\ v.box = suspended.box
      /\ v.grid = suspended.grid /\ v.px = suspended.px /\ v.pending = suspended.pending
      /\ v.native = suspended.native /\ v.pressed = suspended.pressed /\ v.hidden = suspended.hidden
      /\ v.target_id = suspended.target_id /\ v.step_count = suspended.step_count /\ v.max = suspended.max
  BY <1>1 DEF Sound, WidgetFields
<1>3. UpdateProcessingState(u) = IF u.detached THEN u ELSE v
  BY DEF UpdateProcessingState, enabled, suspended
<1> HIDE DEF v
<1>4. Looks(u, v)
  BY <1>1, <1>2, SameLooks, LooksOn
<1> QED
  BY <1>3, <1>4, LooksItself

LEMMA ApplyLayoutLooks ==
  ASSUME NEW u, Sound(u), BoxSound(u)
  PROVE  Looks(u, ApplyLayout(u)) /\ (IsPlaced(u) => BoxTaken(ApplyLayout(u)))
<1> DEFINE v == [u EXCEPT !.px = BoxPx(u.grid, HeldBox(u))]
<1>1. /\ v.kind = u.kind /\ v.store = u.store /\ v.box = u.box /\ v.grid = u.grid
      /\ v.pending = u.pending /\ v.native = u.native /\ v.pressed = u.pressed /\ v.hidden = u.hidden
      /\ v.target_id = u.target_id /\ v.step_count = u.step_count /\ v.max = u.max
      /\ v.px = BoxPx(u.grid, HeldBox(u))
  BY DEF Sound, WidgetFields
<1>2. ApplyLayout(u) = IF u.px = NoBox THEN u ELSE v
  BY DEF ApplyLayout
<1> HIDE DEF v
<1>3. HeldBox(v) = HeldBox(u)
  BY <1>1 DEF HeldBox
<1>4. BoxTaken(v)
  BY <1>1, <1>3, PxIsBox DEF BoxTaken, IsPlaced
<1>5. Looks(u, v)
  BY <1>1, <1>4 DEF Looks, StepTaken, ValueDrawn, TargetTaken, HiddenTaken, BoxTaken, IsRendered
<1>6. u.px = NoBox => (IsPlaced(u) => BoxTaken(u))
  BY DEF IsPlaced, BoxTaken
<1> QED
  BY <1>2, <1>4, <1>5, <1>6, LooksItself

\* What a call that stores nothing leaves.
Draws(u, v) == Looks(u, v) /\ v.store = u.store /\ (IsRendered(u) => IsRendered(v))

LEMMA DrawsItself == ASSUME NEW u PROVE Draws(u, u)
BY LooksItself DEF Draws

LEMMA DrawsOn ==
  ASSUME NEW u, NEW v, NEW x, Draws(u, v), Draws(v, x)
  PROVE  Draws(u, x)
BY LooksOn DEF Draws

LEMMA SteadyDraws ==
  ASSUME NEW u, NEW v, Steady(u, v), Looks(u, v)
  PROVE  Draws(u, v)
BY DEF Steady, SameState, Draws

LEMMA DrawsSound ==
  ASSUME NEW u, NEW v, Draws(u, v), BoxSound(u)
  PROVE  BoxSound(v)
BY BoxSoundStays DEF Draws, Looks

LEMMA TakenStays ==
  ASSUME NEW u, NEW v, Looks(u, v), NEW type, Taken(u, type)
  PROVE  Taken(v, type)
BY DEF Looks, Taken

LEMMA ApplyPropertyLooks ==
  ASSUME NEW u, Sound(u), BoxSound(u), NEW type \in Registered
  PROVE  LET v == ApplyProperty(u, type)
         IN  Looks(u, v) /\ ((type \in LayoutTypes => IsPlaced(u)) => Taken(v, type))
<1>1. CASE type \in LayoutTypes
  <2>1. ApplyProperty(u, type) = ApplyLayout(u)
    BY <1>1 DEF ApplyProperty, Management, LayoutTypes
  <2> QED
    BY <1>1, <2>1, ApplyLayoutLooks DEF Taken, LayoutTypes
<1>2. CASE type \notin LayoutTypes
  <2> DEFINE v == OnPropertyChanged(u, type)
  <2>1. Looks(u, v) /\ Taken(v, type) /\ Sound(v)
    BY <1>2, OnPropertyChangedLooks, OnPropertyChangedSteady DEF Steady
  <2> HIDE DEF v
  <2>2. Looks(u, UpdateProcessingState(v)) /\ Taken(UpdateProcessingState(v), type)
    BY <2>1, ProcessingLooks, LooksOn, TakenStays
  <2>3. ApplyProperty(u, type) = v \/ ApplyProperty(u, type) = UpdateProcessingState(v)
    BY <1>2 DEF ApplyProperty, v
  <2> QED
    BY <2>1, <2>2, <2>3
<1> QED
  BY <1>1, <1>2

LEMMA ApplySelectedDraws ==
  ASSUME NEW u, Sound(u), BoxSound(u), NEW type \in Registered, NEW selected
  PROVE  LET v == ApplySelected(u, type, selected)
         IN  /\ Draws(u, v) /\ Sound(v) /\ BoxSound(v)
             /\ type \in selected /\ (type \in LayoutTypes => IsPlaced(u)) => Taken(v, type)
<1> DEFINE v == ApplySelected(u, type, selected)
<1>1. Steady(u, v)
  BY ApplySelectedSteady
<1>2. Looks(u, v) /\ (type \in selected /\ (type \in LayoutTypes => IsPlaced(u)) => Taken(v, type))
  BY ApplyPropertyLooks, LooksItself DEF ApplySelected
<1> HIDE DEF v
<1>3. Draws(u, v)
  BY <1>1, <1>2, SteadyDraws
<1>4. BoxSound(v) /\ Sound(v)
  BY <1>1, <1>3, DrawsSound DEF Steady
<1> QED
  BY <1>2, <1>3, <1>4 DEF v

\* What is applied together is taken together.
LEMMA ApplyPropertiesDraws ==
  ASSUME NEW u, Sound(u), BoxSound(u), NEW selected
  PROVE  LET v == ApplyProperties(u, selected)
         IN  /\ Draws(u, v)
             /\ \A type \in selected \cap Registered : (type \in LayoutTypes => IsPlaced(u)) => Taken(v, type)
<1> DEFINE active == ApplySelected(u, "IS_ACTIVE", selected)
           managed == ApplySelected(active, "IS_VISIBLE", selected)
           ranged == ApplySelected(managed, "MAX_VALUE", selected)
           owned == ApplySelected(ranged, "TARGET", selected)
           x == ApplySelected(owned, "LAYOUT_X", selected)
           y == ApplySelected(x, "LAYOUT_Y", selected)
           width == ApplySelected(y, "LAYOUT_WIDTH", selected)
           placed == ApplySelected(width, "LAYOUT_HEIGHT", selected)
           valued == ApplySelected(placed, "VALUE", selected)
           Done(v, types) ==
             /\ Draws(u, v) /\ Sound(v) /\ BoxSound(v)
             /\ \A type \in types :
                  type \in selected /\ (type \in LayoutTypes => IsPlaced(u)) => Taken(v, type)
<1>1. ASSUME NEW v, NEW types, Done(v, types), NEW type \in Registered
      PROVE  Done(ApplySelected(v, type, selected), types \cup {type})
  <2> DEFINE after == ApplySelected(v, type, selected)
  <2>1. /\ Draws(v, after) /\ Sound(after) /\ BoxSound(after)
        /\ type \in selected /\ (type \in LayoutTypes => IsPlaced(v)) => Taken(after, type)
    BY <1>1, ApplySelectedDraws
  <2> HIDE DEF after
  <2>2. Draws(u, after)
    BY <1>1, <2>1, DrawsOn
  <2>3. IsPlaced(u) => IsPlaced(v)
    BY <1>1 DEF Draws, Looks
  <2>4. ASSUME NEW earlier \in types, earlier \in selected, earlier \in LayoutTypes => IsPlaced(u)
        PROVE  Taken(after, earlier)
    BY <1>1, <2>1, <2>4, TakenStays DEF Draws
  <2> QED
    BY <2>1, <2>2, <2>3, <2>4 DEF after
<1>2. {"IS_ACTIVE", "IS_VISIBLE", "MAX_VALUE", "TARGET", "LAYOUT_X", "LAYOUT_Y", "LAYOUT_WIDTH",
       "LAYOUT_HEIGHT", "VALUE"} \subseteq Registered
  BY DEF Registered, Management, LayoutTypes
<1>3. Done(u, {})
  BY DrawsItself
<1> HIDE DEF Done
<1>4. Done(active, {} \cup {"IS_ACTIVE"})
  BY <1>1, <1>2, <1>3
<1> HIDE DEF active
<1>5. Done(managed, {} \cup {"IS_ACTIVE"} \cup {"IS_VISIBLE"})
  BY <1>1, <1>2, <1>4
<1> HIDE DEF managed
<1>6. Done(ranged, {} \cup {"IS_ACTIVE"} \cup {"IS_VISIBLE"} \cup {"MAX_VALUE"})
  BY <1>1, <1>2, <1>5
<1> HIDE DEF ranged
<1> DEFINE seen == {} \cup {"IS_ACTIVE"} \cup {"IS_VISIBLE"} \cup {"MAX_VALUE"} \cup {"TARGET"}
<1>7. Done(owned, seen)
  BY <1>1, <1>2, <1>6
<1> HIDE DEF owned, seen
<1>8. Done(x, seen \cup {"LAYOUT_X"})
  BY <1>1, <1>2, <1>7
<1> HIDE DEF x
<1>9. Done(y, seen \cup {"LAYOUT_X"} \cup {"LAYOUT_Y"})
  BY <1>1, <1>2, <1>8
<1> HIDE DEF y
<1>10. Done(width, seen \cup {"LAYOUT_X"} \cup {"LAYOUT_Y"} \cup {"LAYOUT_WIDTH"})
  BY <1>1, <1>2, <1>9
<1> HIDE DEF width
<1>11. Done(placed, seen \cup {"LAYOUT_X"} \cup {"LAYOUT_Y"} \cup {"LAYOUT_WIDTH"} \cup {"LAYOUT_HEIGHT"})
  BY <1>1, <1>2, <1>10
<1> HIDE DEF placed
<1>12. Done(valued, seen \cup {"LAYOUT_X"} \cup {"LAYOUT_Y"} \cup {"LAYOUT_WIDTH"} \cup {"LAYOUT_HEIGHT"} \cup {"VALUE"})
  BY <1>1, <1>2, <1>11
<1>13. ApplyProperties(u, selected) = valued
  BY DEF ApplyProperties, InOrder, active, managed, ranged, owned, x, y, width, placed, valued
<1> HIDE DEF valued
<1>14. Registered \subseteq seen \cup {"LAYOUT_X"} \cup {"LAYOUT_Y"} \cup {"LAYOUT_WIDTH"} \cup {"LAYOUT_HEIGHT"} \cup {"VALUE"}
  BY DEF seen, Registered, Management, LayoutTypes
<1> QED
  BY <1>12, <1>13, <1>14 DEF Done

\* What waits no more is as it was shown, but for what waited.
LEMMA EmptiedLooks ==
  ASSUME NEW u, Sound(u)
  PROVE  LET v == [u EXCEPT !.pending = {}]
         IN  /\ v.kind = u.kind /\ v.box = u.box /\ v.grid = u.grid /\ v.pressed = u.pressed
             /\ v.store = u.store /\ IsRendered(v) = IsRendered(u)
             /\ StepTaken(v) = StepTaken(u) /\ HiddenTaken(v) = HiddenTaken(u)
             /\ IsPlaced(v) = IsPlaced(u)
             /\ "VALUE" \notin u.pending => (ValueDrawn(u) => ValueDrawn(v))
             /\ "TARGET" \notin u.pending => (TargetTaken(u) => TargetTaken(v))
             /\ u.pending \cap LayoutTypes = {} => (BoxTaken(u) => BoxTaken(v))
<1> DEFINE v == [u EXCEPT !.pending = {}]
<1>1. /\ v.kind = u.kind /\ v.store = u.store /\ v.box = u.box /\ v.grid = u.grid /\ v.px = u.px
      /\ v.pending = {} /\ v.native = u.native /\ v.pressed = u.pressed /\ v.hidden = u.hidden
      /\ v.target_id = u.target_id /\ v.step_count = u.step_count /\ v.max = u.max
  BY DEF Sound, WidgetFields
<1> HIDE DEF v
<1>2. HeldBox(v) = HeldBox(u)
  BY <1>1 DEF HeldBox
<1>3. IsRendered(v) = IsRendered(u) /\ StepTaken(v) = StepTaken(u) /\ IsPlaced(v) = IsPlaced(u)
  BY <1>1 DEF IsRendered, StepTaken, IsPlaced
<1>4. HiddenTaken(v) = HiddenTaken(u)
  BY <1>1 DEF HiddenTaken
<1>5. /\ "VALUE" \notin u.pending => (ValueDrawn(u) => ValueDrawn(v))
      /\ "TARGET" \notin u.pending => (TargetTaken(u) => TargetTaken(v))
  BY <1>1, <1>3 DEF ValueDrawn, TargetTaken
<1>6. u.pending \cap LayoutTypes = {} => (BoxTaken(u) => BoxTaken(v))
  BY <1>1, <1>2, <1>3 DEF BoxTaken
<1> QED
  BY <1>1, <1>3, <1>4, <1>5, <1>6 DEF v

LEMMA ReplayPendingDraws ==
  ASSUME NEW u, Whole(u), BoxSound(u)
  PROVE  Draws(u, ReplayPendingProperties(u))
<1> DEFINE emptied == [u EXCEPT !.pending = {}]
           v == ApplyProperties(emptied, u.pending)
<1>1. Sound(emptied)
  BY EmptiedSound DEF Whole
<1>2. /\ emptied.kind = u.kind /\ emptied.box = u.box /\ emptied.grid = u.grid /\ emptied.pressed = u.pressed
      /\ emptied.store = u.store /\ IsRendered(emptied) = IsRendered(u)
      /\ StepTaken(emptied) = StepTaken(u) /\ HiddenTaken(emptied) = HiddenTaken(u)
      /\ IsPlaced(emptied) = IsPlaced(u)
      /\ "VALUE" \notin u.pending => (ValueDrawn(u) => ValueDrawn(emptied))
      /\ "TARGET" \notin u.pending => (TargetTaken(u) => TargetTaken(emptied))
      /\ u.pending \cap LayoutTypes = {} => (BoxTaken(u) => BoxTaken(emptied))
  BY EmptiedLooks DEF Whole
<1> HIDE DEF emptied
<1>3. BoxSound(emptied)
  BY <1>2, BoxSoundStays
<1>4. /\ Draws(emptied, v)
      /\ \A type \in u.pending \cap Registered :
           (type \in LayoutTypes => IsPlaced(emptied)) => Taken(v, type)
  BY <1>1, <1>3, ApplyPropertiesDraws
<1> HIDE DEF v
<1>5. u.pending \subseteq Registered
  BY DEF Whole, Sound
<1>6. ValueDrawn(u) => ValueDrawn(v)
  <2>1. CASE "VALUE" \in u.pending
    BY <1>4, <1>5, <2>1 DEF Taken, LayoutTypes
  <2> QED
    BY <1>2, <1>4, <2>1 DEF Draws, Looks
<1>7. TargetTaken(u) => TargetTaken(v)
  <2>1. CASE "TARGET" \in u.pending
    BY <1>4, <1>5, <2>1 DEF Taken, LayoutTypes
  <2> QED
    BY <1>2, <1>4, <2>1 DEF Draws, Looks
<1>8. BoxTaken(u) => BoxTaken(v)
  <2>1. ASSUME NEW type \in u.pending \cap LayoutTypes, IsPlaced(u)
        PROVE  BoxTaken(v)
    BY <1>2, <1>4, <1>5, <2>1 DEF Taken
  <2>2. BoxTaken(u) => IsPlaced(u)
    BY DEF BoxTaken
  <2> QED
    BY <1>2, <1>4, <2>1, <2>2 DEF Draws, Looks
<1>9. Draws(u, v)
  BY <1>2, <1>4, <1>6, <1>7, <1>8 DEF Draws, Looks
<1>10. ReplayPendingProperties(u) = v \/ ReplayPendingProperties(u) = u
  BY DEF ReplayPendingProperties, v, emptied
<1> QED
  BY <1>9, <1>10, DrawsItself

\* More of a widget may always wait.
LEMMA WaitsDraws ==
  ASSUME NEW u, Sound(u), NEW types
  PROVE  LET v == [u EXCEPT !.pending = u.pending \cup types]
         IN  /\ Draws(u, v)
             /\ "VALUE" \in types => ValueDrawn(v)
             /\ "TARGET" \in types => TargetTaken(v)
             /\ types \cap LayoutTypes # {} /\ IsPlaced(u) => BoxTaken(v)
             /\ v.pending = u.pending \cup types /\ v.px = u.px
<1> DEFINE v == [u EXCEPT !.pending = u.pending \cup types]
<1>1. /\ v.kind = u.kind /\ v.store = u.store /\ v.box = u.box /\ v.grid = u.grid /\ v.px = u.px
      /\ v.pending = u.pending \cup types /\ v.native = u.native /\ v.pressed = u.pressed
      /\ v.hidden = u.hidden
      /\ v.target_id = u.target_id /\ v.step_count = u.step_count /\ v.max = u.max
  BY DEF Sound, WidgetFields
<1> HIDE DEF v
<1>2. HeldBox(v) = HeldBox(u)
  BY <1>1 DEF HeldBox
<1>3. Looks(u, v) /\ IsRendered(v) = IsRendered(u)
  BY <1>1, <1>2 DEF Looks, StepTaken, ValueDrawn, TargetTaken, HiddenTaken, BoxTaken, IsPlaced, IsRendered
<1>4. ("VALUE" \in types => ValueDrawn(v)) /\ ("TARGET" \in types => TargetTaken(v))
  BY <1>1 DEF ValueDrawn, TargetTaken
<1>5. types \cap LayoutTypes # {} /\ IsPlaced(u) => BoxTaken(v)
  BY <1>1 DEF BoxTaken, IsPlaced
<1> QED
  BY <1>1, <1>3, <1>4, <1>5 DEF Draws, v

\* Everything is applied again, or what is no switch of the widget itself waits.
LEMMA ReplayDraws ==
  ASSUME NEW u, Sound(u), BoxSound(u)
  PROVE  LET v == ReplayProperties(u)
         IN  /\ Draws(u, v)
             /\ ValueDrawn(v) /\ TargetTaken(v) /\ HiddenTaken(v)
             /\ IsPlaced(u) => BoxTaken(v)
             /\ u.kind = "box" /\ ~u.is_ready => v.pending \cap LayoutTypes # {}
<1> DEFINE all == Types(u.kind)
           emptied == [u EXCEPT !.pending = {}]
           v == ApplyProperties(emptied, all)
           waiting == [v EXCEPT !.pending = v.pending \cup (all \ Management)]
<1>1. Sound(emptied) /\ emptied.is_ready = u.is_ready
  BY EmptiedSound
<1>2. /\ emptied.kind = u.kind /\ emptied.box = u.box /\ emptied.grid = u.grid /\ emptied.pressed = u.pressed
      /\ emptied.store = u.store /\ IsRendered(emptied) = IsRendered(u)
      /\ StepTaken(emptied) = StepTaken(u) /\ IsPlaced(emptied) = IsPlaced(u)
  BY EmptiedLooks
<1> HIDE DEF emptied
<1>3. BoxSound(emptied)
  BY <1>2, BoxSoundStays
<1>4. /\ Draws(emptied, v)
      /\ \A type \in all \cap Registered :
           (type \in LayoutTypes => IsPlaced(emptied)) => Taken(v, type)
  BY <1>1, <1>3, ApplyPropertiesDraws
<1>5. Steady(emptied, v)
  BY <1>1, ApplyPropertiesSteady
<1> HIDE DEF v
<1>6. v.kind = u.kind
  BY <1>2, <1>4 DEF Draws, Looks
<1>7. /\ {"VALUE", "IS_VISIBLE"} \subseteq all \cap Registered
      /\ u.kind = "button" => "TARGET" \in all \cap Registered
      /\ u.kind = "box" => "LAYOUT_X" \in all \cap Registered
      /\ {"VALUE", "IS_VISIBLE", "TARGET"} \cap LayoutTypes = {}
      /\ "LAYOUT_X" \in LayoutTypes /\ LayoutTypes \cap Management = {}
  BY DEF Types, Registered, Management, LayoutTypes
<1> HIDE DEF all
<1>8. ValueDrawn(v) /\ HiddenTaken(v)
  BY <1>4, <1>7 DEF Taken
<1>9. TargetTaken(v)
  <2>1. CASE u.kind = "button"
    BY <1>4, <1>7, <2>1 DEF Taken
  <2>2. CASE u.kind # "button"
    BY <1>6, <2>2 DEF TargetTaken
  <2> QED
    BY <2>1, <2>2
<1>10. IsPlaced(u) => BoxTaken(v)
  <2>1. CASE u.kind = "box"
    BY <1>2, <1>4, <1>7, <2>1 DEF Taken
  <2>2. CASE u.kind # "box"
    BY <1>6, <2>2 DEF BoxTaken, IsPlaced
  <2> QED
    BY <2>1, <2>2
<1>11. Draws(u, v)
  BY <1>2, <1>4, <1>8, <1>9, <1>10 DEF Draws, Looks, BoxTaken
<1>12. /\ Draws(v, waiting)
       /\ waiting.pending = v.pending \cup (all \ Management)
  BY <1>5, WaitsDraws DEF Steady
<1> HIDE DEF waiting
<1>13. /\ Draws(u, waiting)
       /\ ValueDrawn(waiting) /\ TargetTaken(waiting) /\ HiddenTaken(waiting)
       /\ IsPlaced(u) => BoxTaken(waiting)
  BY <1>8, <1>9, <1>10, <1>11, <1>12, DrawsOn DEF Draws, Looks
<1>14. u.kind = "box" => waiting.pending \cap LayoutTypes # {}
  BY <1>7, <1>12
<1>15. ReplayProperties(u) = IF IsAnimationEligible(v) THEN v ELSE waiting
  BY DEF ReplayProperties, emptied, all, v, waiting
<1>16. ~u.is_ready => ~IsAnimationEligible(v)
  BY <1>1, <1>5 DEF IsAnimationEligible, Steady, SameState
<1> QED
  BY <1>8, <1>9, <1>10, <1>11, <1>13, <1>14, <1>15, <1>16

LEMMA NotifyDraws ==
  ASSUME NEW u, Sound(u), BoxSound(u), NEW type \in Registered,
         type = "VALUE" \/ ValueTaken(u), type = "MAX_VALUE" \/ RangeTaken(u)
  PROVE  LET v == NotifyPropertyChanged(u, type)
         IN  Draws(u, v) /\ ((type \in LayoutTypes => IsPlaced(u)) => Taken(v, type))
<1> DEFINE v == ApplyProperty(u, type)
           waiting == [u EXCEPT !.pending = u.pending \cup {type}]
           Done(x) == Draws(u, x) /\ ((type \in LayoutTypes => IsPlaced(u)) => Taken(x, type))
<1>1. ASSUME NEW x, Lasts(u, x), Done(x)
      PROVE  Done(ReplayPendingProperties(x))
  <2>1. Whole(x) /\ BoxSound(x)
    BY <1>1, DrawsSound DEF Lasts
  <2>2. Draws(x, ReplayPendingProperties(x))
    BY <2>1, ReplayPendingDraws
  <2> QED
    BY <1>1, <2>2, DrawsOn, TakenStays DEF Draws
<1>2. Steady(u, v) /\ Done(v)
  BY ApplyPropertySteady, ApplyPropertyLooks, SteadyDraws
<1>3. Lasts(u, v)
  <2>1. /\ type = "VALUE" => ValueTaken(v)
        /\ type = "MAX_VALUE" => RangeTaken(v)
    BY ApplyPropertySteady
  <2> HIDE DEF v
  <2> QED
    BY <1>2, <2>1 DEF Lasts, Whole, Steady
<1> HIDE DEF v
<1>4. type \notin Management => Lasts(u, waiting) /\ Done(waiting)
  <2>1. type \notin Management => Lasts(u, waiting)
    BY WaitsWhole
  <2>2. /\ Draws(u, waiting)
        /\ type = "VALUE" => ValueDrawn(waiting)
        /\ type = "TARGET" => TargetTaken(waiting)
        /\ type \in LayoutTypes /\ IsPlaced(u) => BoxTaken(waiting)
    BY WaitsDraws
  <2> HIDE DEF waiting
  <2> QED
    BY <2>1, <2>2 DEF Taken, Management
<1> HIDE DEF waiting
<1>5. /\ Done(ReplayPendingProperties(v))
      /\ type \notin Management => Done(ReplayPendingProperties(waiting))
  BY <1>1, <1>2, <1>3, <1>4
<1>6. NotifyPropertyChanged(u, type)
        = IF type \in Management THEN ReplayPendingProperties(v)
          ELSE IF u.pending = {} /\ IsAnimationEligible(u) THEN v
          ELSE ReplayPendingProperties(waiting)
  BY DEF NotifyPropertyChanged, v, waiting
<1> HIDE DEF Done
<1>7. Done(NotifyPropertyChanged(u, type))
  BY <1>2, <1>5, <1>6
<1> QED
  BY <1>7 DEF Done

\* What is stored is taken, and nothing else of what is drawn is lost.
Stores(u, v) == Looks(u, v) /\ BoxSound(v) /\ (IsRendered(u) => IsRendered(v))

LEMMA StoresOn ==
  ASSUME NEW u, NEW v, NEW x, Stores(u, v), Stores(v, x)
  PROVE  Stores(u, x)
BY LooksOn DEF Stores

LEMMA DrawsStores ==
  ASSUME NEW u, NEW v, BoxSound(u), Draws(u, v)
  PROVE  Stores(u, v)
BY DrawsSound DEF Draws, Stores

LEMMA SetLooks ==
  ASSUME NEW u, Whole(u), BoxSound(u), NEW type \in Registered, NEW value,
         type \in LayoutTypes => value \in Int
  PROVE  LET v == Set(u, type, value)
         IN  /\ v.kind = u.kind /\ v.box = u.box /\ v.grid = u.grid /\ v.pressed = u.pressed
             /\ v.store = [u.store EXCEPT ![type] = value]
             /\ IsRendered(v) = IsRendered(u) /\ BoxSound(v)
             /\ StepTaken(v) = StepTaken(u) /\ IsPlaced(v) = IsPlaced(u)
             /\ type # "VALUE" => (ValueDrawn(u) => ValueDrawn(v))
             /\ type # "TARGET" => (TargetTaken(u) => TargetTaken(v))
             /\ type # "IS_VISIBLE" => (HiddenTaken(u) => HiddenTaken(v))
             /\ type \notin LayoutTypes => (BoxTaken(u) => BoxTaken(v))
<1> DEFINE store == [u.store EXCEPT ![type] = value]
           v == [u EXCEPT !.store = store]
<1>1. \A other \in Registered : other # type => store[other] = u.store[other]
  BY DEF Whole, Sound
<1>2. store[type] = value
  BY DEF Whole, Sound
<1>3. /\ v.kind = u.kind /\ v.store = store /\ v.box = u.box /\ v.grid = u.grid /\ v.px = u.px
      /\ v.pending = u.pending /\ v.native = u.native /\ v.pressed = u.pressed
      /\ v.hidden = u.hidden
      /\ v.target_id = u.target_id /\ v.step_count = u.step_count /\ v.max = u.max
  BY DEF Whole, Sound, WidgetFields
<1>4. Set(u, type, value) = v
  BY DEF Set
<1> HIDE DEF v, store
<1>5. /\ IsRendered(v) = IsRendered(u) /\ StepTaken(v) = StepTaken(u) /\ IsPlaced(v) = IsPlaced(u)
  BY <1>3 DEF IsRendered, StepTaken, IsPlaced
<1>6. {"VALUE", "TARGET", "IS_VISIBLE"} \subseteq Registered /\ LayoutTypes \subseteq Registered
  BY DEF Registered, Management
<1>7. type # "VALUE" => (ValueDrawn(u) => ValueDrawn(v))
  BY <1>1, <1>3, <1>5, <1>6 DEF ValueDrawn
<1>8. type # "TARGET" => (TargetTaken(u) => TargetTaken(v))
  BY <1>1, <1>3, <1>6 DEF TargetTaken
<1>9. type # "IS_VISIBLE" => (HiddenTaken(u) => HiddenTaken(v))
  <2>1. type # "IS_VISIBLE" => v.store["IS_VISIBLE"] = u.store["IS_VISIBLE"]
    BY <1>1, <1>3, <1>6
  <2> QED
    BY <1>3, <2>1 DEF HiddenTaken
<1>10. type \notin LayoutTypes => (BoxTaken(u) => BoxTaken(v))
  <2>1. type \notin LayoutTypes => \A side \in LayoutTypes : v.store[side] = u.store[side]
    BY <1>1, <1>3, <1>6
  <2>2. type \notin LayoutTypes => HeldBox(v) = HeldBox(u)
    BY <1>3, <2>1 DEF HeldBox, LayoutTypes
  <2> QED
    BY <1>3, <1>5, <2>2 DEF BoxTaken
<1>11. BoxSound(v)
  <2>1. \A side \in LayoutTypes : u.store[side] \in Int => v.store[side] \in Int
    BY <1>1, <1>2, <1>3, <1>6
  <2> QED
    BY <1>3, <2>1 DEF BoxSound
<1> QED
  BY <1>3, <1>4, <1>5, <1>7, <1>8, <1>9, <1>10, <1>11 DEF store

LEMMA SetNotifyStores ==
  ASSUME NEW u, Whole(u), BoxSound(u), NEW type \in Registered, NEW value,
         type \in LayoutTypes \cup {"VALUE", "MAX_VALUE"} => value \in Int
  PROVE  LET v == NotifyPropertyChanged(Set(u, type, value), type)
         IN  Stores(u, v) /\ v.store = [u.store EXCEPT ![type] = value]
<1> DEFINE stored == Set(u, type, value)
           v == NotifyPropertyChanged(stored, type)
<1>1. /\ Sound(stored)
      /\ type = "VALUE" \/ ValueTaken(stored)
      /\ type = "MAX_VALUE" \/ RangeTaken(stored)
  BY SetHolds
<1>2. /\ stored.kind = u.kind /\ stored.box = u.box /\ stored.grid = u.grid /\ stored.pressed = u.pressed
      /\ stored.store = [u.store EXCEPT ![type] = value]
      /\ IsRendered(stored) = IsRendered(u) /\ BoxSound(stored)
      /\ StepTaken(stored) = StepTaken(u) /\ IsPlaced(stored) = IsPlaced(u)
      /\ type # "VALUE" => (ValueDrawn(u) => ValueDrawn(stored))
      /\ type # "TARGET" => (TargetTaken(u) => TargetTaken(stored))
      /\ type # "IS_VISIBLE" => (HiddenTaken(u) => HiddenTaken(stored))
      /\ type \notin LayoutTypes => (BoxTaken(u) => BoxTaken(stored))
  BY SetLooks
<1> HIDE DEF stored
<1>3. Draws(stored, v) /\ ((type \in LayoutTypes => IsPlaced(stored)) => Taken(v, type))
  BY <1>1, <1>2, NotifyDraws
<1> HIDE DEF v
<1>4. BoxSound(v)
  BY <1>2, <1>3, DrawsSound
<1>5. /\ ValueDrawn(u) => ValueDrawn(v)
      /\ TargetTaken(u) => TargetTaken(v)
      /\ HiddenTaken(u) => HiddenTaken(v)
  BY <1>2, <1>3 DEF Draws, Looks, Taken, LayoutTypes
<1>6. BoxTaken(u) => BoxTaken(v)
  BY <1>2, <1>3 DEF Draws, Looks, Taken, BoxTaken
<1> QED
  BY <1>2, <1>3, <1>4, <1>5, <1>6 DEF Stores, Draws, Looks, v, stored

\* What the life of a widget leaves drawn.

LEMMA ProcessingDraws ==
  ASSUME NEW u, Sound(u)
  PROVE  Draws(u, UpdateProcessingState(u))
BY ProcessingSteady, ProcessingLooks, SteadyDraws

\* Fields that nothing is drawn from.
LEMMA OtherFieldDraws ==
  ASSUME NEW u, Sound(u), NEW x,
         NEW field \in {"is_group_active", "parent_shown", "is_ready", "asked", "was_processing", "detached"}
  PROVE  Draws(u, [u EXCEPT ![field] = x])
<1> DEFINE v == [u EXCEPT ![field] = x]
<1>1. /\ v.kind = u.kind /\ v.store = u.store /\ v.box = u.box /\ v.grid = u.grid /\ v.px = u.px
      /\ v.pending = u.pending /\ v.native = u.native /\ v.pressed = u.pressed /\ v.hidden = u.hidden
      /\ v.target_id = u.target_id /\ v.step_count = u.step_count /\ v.max = u.max
  BY DEF Sound, WidgetFields
<1> HIDE DEF v
<1> QED
  BY <1>1, SameLooks DEF Draws, IsRendered, v

LEMMA SynchronizeDraws ==
  ASSUME NEW u, Whole(u), BoxSound(u)
  PROVE  Draws(u, Synchronize(u))
<1> DEFINE v == UpdateProcessingState(u)
<1>1. Draws(u, v) /\ Whole(v)
  BY ProcessingDraws, ProcessingLasts DEF Whole, Lasts
<1> HIDE DEF v
<1>2. Draws(v, ReplayPendingProperties(v))
  BY <1>1, DrawsSound, ReplayPendingDraws
<1> QED
  BY <1>1, <1>2, DrawsOn DEF Synchronize, v

LEMMA RenderFailsDraws ==
  ASSUME NEW u, Whole(u), BoxSound(u)
  PROVE  Draws(u, RenderFails(u))
<1> DEFINE v == [u EXCEPT !.is_ready = FALSE]
<1>1. Draws(u, v) /\ Whole(v)
  BY OtherFieldDraws, ToldLasts DEF Lasts, Whole
<1> HIDE DEF v
<1>2. Draws(v, UpdateProcessingState(v))
  BY <1>1, ProcessingDraws DEF Whole
<1> QED
  BY <1>1, <1>2, DrawsOn DEF RenderFails, v

\* The object is made with what is stored.
LEMMA RenderObjectDraws ==
  ASSUME NEW u, Whole(u), BoxSound(u)
  PROVE  Draws(u, RenderObject(u))
<1> DEFINE made == [u EXCEPT !.native = 0]
           drawn == UpdateShown(made)
<1>1. /\ Sound(made) /\ IsRendered(made)
      /\ made.kind = u.kind /\ made.store = u.store /\ made.box = u.box /\ made.grid = u.grid
      /\ made.px = u.px /\ made.pending = u.pending /\ made.pressed = u.pressed /\ made.hidden = u.hidden
      /\ made.target_id = u.target_id /\ made.step_count = u.step_count /\ made.max = u.max
  BY NoObjectAssumption DEF Whole, Sound, NumbersHeld, PressHeld, IsRendered, WidgetFields
<1> HIDE DEF made
<1>2. Looks(made, drawn) /\ ValueDrawn(drawn) /\ Steady(made, drawn)
  BY <1>1, UpdateShownLooks, UpdateShownSteady
<1> HIDE DEF drawn
<1>3. HeldBox(made) = HeldBox(u)
  BY <1>1 DEF HeldBox
<1>4. /\ StepTaken(made) = StepTaken(u) /\ TargetTaken(made) = TargetTaken(u)
      /\ HiddenTaken(made) = HiddenTaken(u) /\ IsPlaced(made) = IsPlaced(u)
      /\ BoxTaken(made) = BoxTaken(u)
  BY <1>1, <1>3 DEF StepTaken, TargetTaken, HiddenTaken, IsPlaced, BoxTaken
<1>5. Looks(u, drawn)
  BY <1>1, <1>2, <1>4 DEF Looks
<1>6. Draws(u, drawn)
  BY <1>1, <1>2, <1>5 DEF Draws, Steady, SameState
<1>7. Draws(drawn, [drawn EXCEPT !.is_ready = TRUE])
  BY <1>2, OtherFieldDraws DEF Steady
<1> QED
  BY <1>6, <1>7, DrawsOn DEF RenderObject, DoRender, made, drawn

LEMMA RenderDraws ==
  ASSUME NEW u, Whole(u), BoxSound(u)
  PROVE  Draws(u, Render(u))
<1> DEFINE begun == UpdateProcessingState([u EXCEPT !.is_ready = FALSE])
           made == RenderObject(begun)
           told == UpdateProcessingState(made)
<1>1. Draws(u, begun) /\ Whole(begun)
  BY RenderFailsDraws, RenderFailsLasts DEF RenderFails, Lasts
<1> HIDE DEF begun
<1>2. Draws(u, made) /\ Whole(made)
  BY <1>1, RenderObjectDraws, RenderObjectLasts, DrawsSound, DrawsOn DEF Lasts
<1> HIDE DEF made
<1>3. Draws(u, told) /\ Whole(told)
  BY <1>2, ProcessingDraws, ProcessingLasts, DrawsOn DEF Lasts, Whole
<1> HIDE DEF told
<1>4. Draws(u, ReplayPendingProperties(told))
  BY <1>3, ReplayPendingDraws, DrawsSound, DrawsOn
<1> QED
  BY <1>4 DEF Render, begun, made, told

LEMMA GroupDraws ==
  ASSUME NEW u, Whole(u), BoxSound(u)
  PROVE  Draws(u, OnActivated(u)) /\ Draws(u, OnDeactivated(u))
<1>1. ASSUME NEW x \in BOOLEAN
      PROVE  LET v == UpdateProcessingState([u EXCEPT !.is_group_active = x])
             IN  Draws(u, v) /\ Sound(v)
  <2> DEFINE v == [u EXCEPT !.is_group_active = x]
  <2>1. Draws(u, v) /\ Sound(v)
    BY OtherFieldDraws, ToldLasts DEF Lasts, Whole
  <2> HIDE DEF v
  <2>2. Draws(u, UpdateProcessingState(v)) /\ Sound(UpdateProcessingState(v))
    BY <2>1, ProcessingDraws, ProcessingSteady, DrawsOn DEF Steady
  <2> QED
    BY <2>2 DEF v
<1> DEFINE active == UpdateProcessingState([u EXCEPT !.is_group_active = TRUE])
<1>2. Draws(u, active) /\ Sound(active)
  BY <1>1
<1> HIDE DEF active
<1>3. Draws(u, ReplayProperties(active))
  BY <1>2, ReplayDraws, DrawsSound, DrawsOn
<1>4. Draws(u, OnActivated(u))
  BY <1>2, <1>3 DEF OnActivated, active
<1> QED
  BY <1>1, <1>4 DEF OnDeactivated

\* What a record says that nothing is bound to.
RecordHeld(v, r) ==
    /\ v.store.IS_ACTIVE = Recorded(r, "IS_ACTIVE")
    /\ v.box = r.BOX
    /\ v.kind = "box" =>
         \A type \in LayoutTypes \ v.bound : v.store[type] = RegisterLayoutProperties(v.store, r.BOX)[type]

\* The sides of a box that a record gives are the same whatever else is stored.
LEMMA SidesOfRecord ==
  ASSUME NEW store, NEW other, DOMAIN store = Registered, DOMAIN other = Registered, NEW box,
         NEW type \in Registered
  PROVE  LET registered == RegisterLayoutProperties(store, box)
         IN  /\ DOMAIN registered = Registered
             /\ type \in LayoutTypes => registered[type] = RegisterLayoutProperties(other, box)[type]
             /\ type \notin LayoutTypes => registered[type] = store[type]
BY DEF RegisterLayoutProperties, LayoutTypes, Registered

LEMMA SidesAreNumbers ==
  ASSUME NEW grid \in Grids, NEW box, ValidateBox(grid, box), NEW store, DOMAIN store = Registered,
         NEW type \in LayoutTypes
  PROVE  RegisterLayoutProperties(store, box)[type] \in Int
<1>1. box.x \in Int /\ box.y \in Int /\ box.width \in Int /\ box.height \in Int
  BY GridsAssumption, LcdPxAssumption DEF ValidateBox, IsLayout
<1> QED
  BY <1>1 DEF RegisterLayoutProperties, LayoutTypes, Registered

LEMMA RecordStays ==
  ASSUME NEW u, NEW v, NEW r, RecordHeld(u, r), v.store = u.store, v.box = u.box, v.kind = u.kind,
         v.bound = u.bound
  PROVE  RecordHeld(v, r)
BY DEF RecordHeld

\* A value of what is bound.
LEMMA StoredRecord ==
  ASSUME NEW u, NEW v, NEW r, Sound(u), RecordHeld(u, r), v.box = u.box, v.kind = u.kind, v.bound = u.bound,
         NEW type \in Registered, NEW value, v.store = [u.store EXCEPT ![type] = value],
         type \notin LayoutTypes \/ type \in u.bound, type # "IS_ACTIVE"
  PROVE  RecordHeld(v, r)
<1>1. DOMAIN u.store = Registered /\ "IS_ACTIVE" \in Registered /\ LayoutTypes \subseteq Registered
  BY DEF Sound, Registered, Management
<1>2. v.store.IS_ACTIVE = u.store.IS_ACTIVE
  BY <1>1
<1>3. ASSUME NEW other \in LayoutTypes \ v.bound
      PROVE  /\ v.store[other] = u.store[other]
             /\ RegisterLayoutProperties(v.store, r.BOX)[other] = RegisterLayoutProperties(u.store, r.BOX)[other]
  <2>1. v.store[other] = u.store[other]
    BY <1>1, <1>3
  <2>2. DOMAIN v.store = Registered
    BY <1>1
  <2> QED
    BY <1>1, <1>3, <2>1, <2>2, SidesOfRecord
<1> QED
  BY <1>2, <1>3 DEF RecordHeld

\* A widget that is built draws what its record says, once it is made.
LEMMA AssembledDraws ==
  ASSUME NEW kind, NEW sends, NEW bound \in SUBSET LayoutTypes, NEW grid, NEW shown,
         NEW r, DOMAIN r = RecordFields, kind = "box" => grid \in Grids /\ ValidateBox(grid, r.BOX)
  PROVE  LET v == Assemble(Constructed(kind, sends, bound, grid, shown), r)
         IN  /\ StepTaken(v) /\ ValueDrawn(v) /\ TargetTaken(v) /\ HiddenTaken(v) /\ BoxTaken(v) /\ BoxSound(v)
             /\ ~v.pressed /\ v.kind = kind /\ v.grid = grid /\ RecordHeld(v, r)
<1> DEFINE u == Constructed(kind, sends, bound, grid, shown)
           recorded == [type \in DOMAIN u.store |-> Recorded(r, type)]
           registered == RegisterLayoutProperties(recorded, r.BOX)
           store == IF u.kind = "box" THEN registered ELSE recorded
           stored == [u EXCEPT !.box = r.BOX, !.store = store]
           v == ReplayProperties(stored)
           placed == [v EXCEPT !.px = BoxPx(u.grid, r.BOX)]
<1>1. /\ DOMAIN u = WidgetFields /\ DOMAIN u.store = Registered
      /\ u.pending = {} /\ u.bound = bound /\ u.kind = kind /\ u.grid = grid
      /\ u.step_count = 1 /\ u.max = 0 /\ u.shown = 0 /\ u.native = NoObject /\ u.is_ready = FALSE
      /\ u.sent = FALSE /\ u.pressed = FALSE
  BY DEF Constructed, WidgetFields
<1> HIDE DEF u
<1>2. /\ DOMAIN recorded = Registered /\ recorded.VALUE = 0 /\ recorded.MAX_VALUE = 0
      /\ recorded.IS_ACTIVE = Recorded(r, "IS_ACTIVE")
  BY <1>1 DEF Recorded, Default, RecordFields, Registered, Management
<1> HIDE DEF recorded
<1>3. /\ DOMAIN store = Registered /\ store.VALUE = 0 /\ store.MAX_VALUE = 0
      /\ store.IS_ACTIVE = Recorded(r, "IS_ACTIVE")
      /\ kind = "box" => \A type \in LayoutTypes : store[type] = registered[type]
  <2>1. /\ DOMAIN registered = Registered
        /\ \A type \in Registered \ LayoutTypes : registered[type] = recorded[type]
    <3>1. "VALUE" \in Registered
      BY DEF Registered
    <3> QED
      BY <1>2, <3>1, SidesOfRecord
  <2>2. {"VALUE", "MAX_VALUE", "IS_ACTIVE"} \subseteq Registered \ LayoutTypes
    BY DEF Registered, Management, LayoutTypes
  <2> HIDE DEF registered
  <2> QED
    BY <1>1, <1>2, <2>1, <2>2
<1>4. LayoutTypes \subseteq Registered
  BY DEF Registered
<1>5. kind = "box" =>
        \A type \in LayoutTypes : store[type] \in Int /\ store[type] = RegisterLayoutProperties(store, r.BOX)[type]
  BY <1>2, <1>3, <1>4, SidesOfRecord, SidesAreNumbers
<1> HIDE DEF store
<1>6. /\ Sound(stored)
      /\ stored.kind = kind /\ stored.bound = bound /\ stored.grid = grid /\ stored.box = r.BOX
      /\ stored.store = store /\ stored.step_count = 1 /\ stored.max = 0 /\ ~stored.pressed /\ ~stored.is_ready
  BY <1>1, <1>3 DEF Sound, NumbersHeld, PressHeld, WidgetFields
<1> HIDE DEF stored
<1>7. BoxSound(stored) /\ StepTaken(stored) /\ RecordHeld(stored, r)
  BY <1>3, <1>5, <1>6 DEF BoxSound, StepTaken, Larger, RecordHeld
<1>8. /\ Draws(stored, v) /\ Lasts(stored, v)
      /\ ValueDrawn(v) /\ TargetTaken(v) /\ HiddenTaken(v)
      /\ IsPlaced(stored) => BoxTaken(v)
      /\ kind = "box" => v.pending \cap LayoutTypes # {}
  BY <1>6, <1>7, ReplayDraws, ReplayLasts
<1> HIDE DEF v
<1>9. /\ StepTaken(v) /\ ~v.pressed /\ v.kind = kind /\ v.grid = grid /\ v.box = r.BOX /\ BoxSound(v)
      /\ RecordHeld(v, r)
  <2>1. v.store = stored.store /\ v.box = stored.box /\ v.kind = stored.kind /\ v.bound = stored.bound
    BY <1>8 DEF Draws, Looks, Lasts, SameWidget
  <2> QED
    BY <1>6, <1>7, <1>8, <2>1, DrawsSound, RecordStays DEF Draws, Looks
<1>10. Assemble(u, r) = IF kind = "box" THEN placed ELSE v
  BY <1>1 DEF Assemble, Configure, v, stored, store, registered, recorded, placed
<1>11. CASE kind # "box"
  BY <1>8, <1>9, <1>10, <1>11 DEF BoxTaken, IsPlaced, u
<1>12. CASE kind = "box"
  <2>1. /\ placed.kind = v.kind /\ placed.store = v.store /\ placed.box = v.box /\ placed.grid = v.grid
        /\ placed.px = BoxPx(grid, r.BOX)
        /\ placed.pending = v.pending /\ placed.native = v.native /\ placed.pressed = v.pressed
        /\ placed.hidden = v.hidden /\ placed.bound = v.bound
        /\ placed.target_id = v.target_id /\ placed.step_count = v.step_count /\ placed.max = v.max
    BY <1>1, <1>8 DEF Lasts, Whole, Sound, WidgetFields
  <2> HIDE DEF placed
  <2>2. /\ StepTaken(placed) /\ ValueDrawn(placed) /\ TargetTaken(placed) /\ HiddenTaken(placed)
        /\ BoxSound(placed)
    BY <1>8, <1>9, <2>1 DEF StepTaken, ValueDrawn, TargetTaken, HiddenTaken, BoxSound, IsRendered
  <2>3. placed.px # NoBox
    <3>1. r.BOX.x \in Int /\ r.BOX.y \in Int /\ r.BOX.width \in Int /\ r.BOX.height \in Int
      BY <1>12, GridsAssumption, LcdPxAssumption DEF ValidateBox, IsLayout
    <3> QED
      BY <1>12, <2>1, <3>1, PxOfBox
  <2>4. BoxTaken(placed)
    BY <1>8, <1>12, <2>1, <2>3 DEF BoxTaken, IsPlaced
  <2> QED
    BY <1>9, <1>10, <1>12, <2>1, <2>2, <2>4, RecordStays DEF u
<1> QED
  BY <1>11, <1>12

LEMMA EventDraws ==
  ASSUME NEW u, Whole(u), BoxSound(u), NEW r, RecordHeld(u, r), NEW type \in Registered, NEW value,
         type \in LayoutTypes \cup {"VALUE", "MAX_VALUE"} => value \in Int,
         type \notin LayoutTypes \/ type \in u.bound, type # "IS_ACTIVE"
  PROVE  LET v == OnEvent(u, type, value)
         IN  Stores(u, v) /\ RecordHeld(v, r)
<1> DEFINE v == NotifyPropertyChanged(Set(u, type, value), type)
<1>1. Stores(u, v) /\ v.store = [u.store EXCEPT ![type] = value]
  BY SetNotifyStores
<1>2. Lasts(u, v)
  BY SetNotifyLasts
<1> HIDE DEF v
<1>3. v.box = u.box /\ v.kind = u.kind /\ v.bound = u.bound
  BY <1>1, <1>2 DEF Stores, Looks, Lasts, SameWidget
<1>4. RecordHeld(v, r)
  BY <1>1, <1>3, StoredRecord DEF Whole
<1>5. Stores(u, u)
  BY LooksItself DEF Stores
<1> QED
  BY <1>1, <1>4, <1>5 DEF OnEvent, v

\* An editor's record.
LEMMA EditorPropertyStores ==
  ASSUME NEW u, Whole(u), BoxSound(u), NEW before, NEW after, NEW type \in {"IS_ACTIVE", "TARGET"}
  PROVE  LET v == ApplyEditorProperty(u, before, after, type)
         IN  /\ Stores(u, v) /\ Lasts(u, v)
             /\ \A other \in Registered \ {type} : v.store[other] = u.store[other]
             /\ v.store[type] = IF before[type] = after[type] THEN u.store[type] ELSE Recorded(after, type)
<1> DEFINE value == Recorded(after, type)
           v == NotifyPropertyChanged(Set(u, type, value), type)
<1>1. type \in Registered \ (LayoutTypes \cup {"VALUE", "MAX_VALUE"})
  BY DEF Registered, Management, LayoutTypes
<1> HIDE DEF value
<1>2. Stores(u, v) /\ v.store = [u.store EXCEPT ![type] = value]
  BY <1>1, SetNotifyStores
<1> HIDE DEF v
<1>3. Stores(u, u)
  BY LooksItself DEF Stores
<1>4. DOMAIN u.store = Registered /\ u.bound \subseteq LayoutTypes
  BY DEF Whole, Sound
<1>5. type \notin Driven(u)
  BY <1>1, <1>4 DEF Driven, Registered, Management
<1>6. ApplyEditorProperty(u, before, after, type) = IF before[type] = after[type] THEN u ELSE v
  BY <1>5 DEF ApplyEditorProperty, v, value
<1>7. Lasts(u, ApplyEditorProperty(u, before, after, type))
  BY EditorPropertyLasts
<1> QED
  BY <1>1, <1>2, <1>3, <1>4, <1>6, <1>7 DEF value

\* What is drawn of a widget whatever touches it.
Drawn(v) == StepTaken(v) /\ TargetTaken(v) /\ HiddenTaken(v) /\ BoxTaken(v) /\ BoxSound(v)

LEMMA StoresDrawn ==
  ASSUME NEW u, NEW v, Drawn(u), Stores(u, v)
  PROVE  Drawn(v)
BY DEF Drawn, Stores, Looks

LEMMA EditDraws ==
  ASSUME NEW u, Whole(u), Drawn(u), NEW before, RecordHeld(u, before), NEW after,
         u.kind = "box" => ValidateBox(u.grid, after.BOX),
         DOMAIN before = RecordFields, DOMAIN after = RecordFields
  PROVE  LET v == ApplyEditorConfiguration(u, before, after)
         IN  /\ Drawn(v) /\ RecordHeld(v, after) /\ v.kind = u.kind
             /\ ValueDrawn(u) => ValueDrawn(v)
             /\ v.pressed => u.pressed
             /\ IsRendered(u) => IsRendered(v)
<1> DEFINE boxed == [u EXCEPT !.box = after.BOX]
           active == ApplyEditorProperty(boxed, before, after, "IS_ACTIVE")
           taken == ApplyEditorProperty(active, before, after, "TARGET")
           registered == RegisterLayoutProperties(taken.store, after.BOX)
           store == [type \in DOMAIN taken.store |->
                       IF type \in taken.bound THEN taken.store[type] ELSE registered[type]]
           stored == [taken EXCEPT !.store = store]
           v == ApplyLayout(stored)
<1>1. /\ boxed.kind = u.kind /\ boxed.store = u.store /\ boxed.box = after.BOX /\ boxed.grid = u.grid
      /\ boxed.px = u.px /\ boxed.pending = u.pending /\ boxed.native = u.native
      /\ boxed.pressed = u.pressed /\ boxed.hidden = u.hidden /\ boxed.bound = u.bound
      /\ boxed.target_id = u.target_id /\ boxed.step_count = u.step_count /\ boxed.max = u.max
  BY DEF Whole, Sound, WidgetFields
<1>2. Lasts(u, boxed)
  BY ToldLasts
<1> HIDE DEF boxed
<1>3. /\ StepTaken(boxed) /\ TargetTaken(boxed) /\ HiddenTaken(boxed) /\ IsPlaced(boxed) /\ BoxSound(boxed)
      /\ ValueDrawn(u) => ValueDrawn(boxed)
      /\ IsRendered(u) => IsRendered(boxed)
  BY <1>1 DEF Drawn, StepTaken, TargetTaken, HiddenTaken, IsPlaced, BoxTaken, BoxSound, ValueDrawn, IsRendered
<1>4. before.BOX = after.BOX => BoxTaken(boxed)
  <2>1. before.BOX = after.BOX => boxed.box = u.box
    BY <1>1 DEF RecordHeld
  <2>2. before.BOX = after.BOX => HeldBox(boxed) = HeldBox(u)
    BY <1>1, <2>1 DEF HeldBox
  <2> QED
    BY <1>1, <1>3, <2>2 DEF Drawn, BoxTaken
<1>5. /\ Stores(boxed, active) /\ Lasts(boxed, active)
      /\ \A other \in Registered \ {"IS_ACTIVE"} : active.store[other] = boxed.store[other]
      /\ active.store.IS_ACTIVE = IF before.IS_ACTIVE = after.IS_ACTIVE THEN boxed.store.IS_ACTIVE
                                  ELSE Recorded(after, "IS_ACTIVE")
  BY <1>2, <1>3, EditorPropertyStores DEF Lasts
<1> HIDE DEF active
<1>6. /\ Stores(active, taken) /\ Lasts(active, taken)
      /\ \A other \in Registered \ {"TARGET"} : taken.store[other] = active.store[other]
  BY <1>5, EditorPropertyStores DEF Stores, Lasts
<1> HIDE DEF taken
<1>7. Stores(boxed, taken) /\ Lasts(boxed, taken) /\ Lasts(u, taken)
  BY <1>2, <1>5, <1>6, StoresOn, LastsOn
<1>8. /\ taken.kind = u.kind /\ taken.box = after.BOX /\ taken.grid = u.grid /\ taken.bound = u.bound
      /\ StepTaken(taken) /\ TargetTaken(taken) /\ HiddenTaken(taken) /\ IsPlaced(taken) /\ BoxSound(taken)
      /\ ValueDrawn(u) => ValueDrawn(taken)
      /\ taken.pressed => u.pressed
      /\ IsRendered(u) => IsRendered(taken)
      /\ before.BOX = after.BOX => BoxTaken(taken)
  BY <1>1, <1>3, <1>4, <1>7 DEF Stores, Looks, Lasts, SameWidget
<1>9. /\ DOMAIN u.store = Registered /\ DOMAIN taken.store = Registered
      /\ DOMAIN taken = WidgetFields /\ Sound(taken) /\ taken.bound \subseteq LayoutTypes
  BY <1>7 DEF Whole, Sound, Lasts
<1>10. {"IS_ACTIVE", "TARGET"} \subseteq Registered \ LayoutTypes /\ LayoutTypes \subseteq Registered
  BY DEF Registered, Management, LayoutTypes
<1>11. taken.store.IS_ACTIVE = Recorded(after, "IS_ACTIVE")
  <2>1. before.IS_ACTIVE = after.IS_ACTIVE => Recorded(before, "IS_ACTIVE") = Recorded(after, "IS_ACTIVE")
    BY DEF Recorded
  <2>2. taken.store.IS_ACTIVE = active.store.IS_ACTIVE
    BY <1>6, <1>10
  <2>3. boxed.store.IS_ACTIVE = Recorded(before, "IS_ACTIVE")
    BY <1>1 DEF RecordHeld
  <2> QED
    BY <1>5, <2>1, <2>2, <2>3
<1>12. \A type \in LayoutTypes : taken.store[type] = u.store[type]
  BY <1>1, <1>5, <1>6, <1>10
<1>13. ApplyEditorConfiguration(u, before, after) = IF before.BOX = after.BOX THEN taken ELSE v
  BY DEF ApplyEditorConfiguration, ApplyEditorBox, boxed, active, taken, registered, store, stored, v
<1>14. CASE before.BOX = after.BOX
  <2>1. RecordHeld(taken, after)
    <3>1. ASSUME NEW type \in LayoutTypes \ taken.bound, u.kind = "box"
          PROVE  taken.store[type] = RegisterLayoutProperties(taken.store, after.BOX)[type]
      <4>1. u.store[type] = RegisterLayoutProperties(u.store, before.BOX)[type]
        BY <1>8, <3>1 DEF RecordHeld
      <4>2. RegisterLayoutProperties(taken.store, after.BOX)[type] = RegisterLayoutProperties(u.store, after.BOX)[type]
        BY <1>9, <1>10, <3>1, SidesOfRecord
      <4> QED
        BY <1>12, <1>14, <3>1, <4>1, <4>2
    <3> QED
      BY <1>8, <1>11, <3>1 DEF RecordHeld
  <2> QED
    BY <1>8, <1>13, <1>14, <2>1 DEF Drawn
<1>15. CASE before.BOX # after.BOX
  <2>1. /\ DOMAIN registered = Registered
        /\ \A type \in Registered \ LayoutTypes : registered[type] = taken.store[type]
    <3>1. "VALUE" \in Registered
      BY DEF Registered
    <3> QED
      BY <1>9, <3>1, SidesOfRecord
  <2>2. /\ DOMAIN store = Registered
        /\ \A type \in Registered \ LayoutTypes : store[type] = taken.store[type]
        /\ \A type \in LayoutTypes : type \in u.bound => store[type] = taken.store[type]
        /\ \A type \in LayoutTypes : type \notin u.bound => store[type] = registered[type]
    BY <1>8, <1>9, <1>10, <2>1
  <2>3. u.kind = "box" => \A type \in LayoutTypes : registered[type] \in Int
    BY <1>9, SidesAreNumbers DEF Drawn, BoxSound
  <2>4. \A type \in LayoutTypes : registered[type] = RegisterLayoutProperties(store, after.BOX)[type]
    BY <1>9, <1>10, <2>2, SidesOfRecord
  <2> HIDE DEF registered, store
  <2>5. /\ stored.kind = taken.kind /\ stored.store = store /\ stored.box = taken.box
        /\ stored.grid = taken.grid /\ stored.px = taken.px /\ stored.bound = taken.bound
        /\ stored.pending = taken.pending /\ stored.native = taken.native
        /\ stored.pressed = taken.pressed /\ stored.hidden = taken.hidden
        /\ stored.target_id = taken.target_id /\ stored.step_count = taken.step_count
        /\ stored.max = taken.max /\ stored.is_ready = taken.is_ready /\ stored.shown = taken.shown
        /\ stored.sent = taken.sent /\ stored.is_sending_press = taken.is_sending_press
        /\ stored.is_press_published = taken.is_press_published
        /\ DOMAIN stored = WidgetFields
    BY <1>9 DEF WidgetFields
  <2> HIDE DEF stored
  <2>6. /\ store.VALUE = taken.store.VALUE /\ store.MAX_VALUE = taken.store.MAX_VALUE
        /\ store.TARGET = taken.store.TARGET /\ store["IS_VISIBLE"] = taken.store["IS_VISIBLE"]
        /\ store.IS_ACTIVE = taken.store.IS_ACTIVE
    BY <2>2 DEF Registered, Management, LayoutTypes
  <2>7. Sound(stored)
    BY <1>9, <2>2, <2>5, <2>6 DEF Sound, NumbersHeld, PressHeld, IsRendered
  <2>8. /\ StepTaken(stored) /\ TargetTaken(stored) /\ IsPlaced(stored)
        /\ ValueDrawn(taken) => ValueDrawn(stored)
        /\ IsRendered(stored) = IsRendered(taken)
    BY <1>8, <2>5, <2>6 DEF StepTaken, TargetTaken, IsPlaced, ValueDrawn, IsRendered
  <2>9. HiddenTaken(stored)
    BY <1>8, <2>5, <2>6 DEF HiddenTaken
  <2>10. BoxSound(stored)
    <3>1. u.kind = "box" => \A type \in LayoutTypes : store[type] \in Int
      BY <1>8, <2>2, <2>3 DEF BoxSound
    <3> QED
      BY <1>8, <2>5, <3>1 DEF BoxSound
  <2>11. RecordHeld(stored, after)
    BY <1>8, <1>11, <2>2, <2>4, <2>5, <2>6 DEF RecordHeld
  <2>12. Looks(stored, v) /\ BoxTaken(v) /\ Steady(stored, v)
    BY <2>7, <2>8, <2>10, ApplyLayoutLooks, ApplyLayoutSteady
  <2> HIDE DEF v
  <2>13. v.store = stored.store /\ v.box = stored.box /\ v.kind = stored.kind /\ v.bound = stored.bound /\ v.grid = stored.grid
    BY <2>12 DEF Looks, Steady, SameState, SameWidget
  <2>14. RecordHeld(v, after) /\ BoxSound(v)
    BY <2>10, <2>11, <2>13, RecordStays, BoxSoundStays
  <2> QED
    BY <1>8, <1>13, <1>15, <2>5, <2>8, <2>9, <2>12, <2>13, <2>14 DEF Drawn, Looks, Steady
<1> QED
  BY <1>14, <1>15

-----------------------------------------------------------------------------
\* The finger.

LEMMA DrawsDrawn ==
  ASSUME NEW u, NEW v, Drawn(u), Draws(u, v)
  PROVE  Drawn(v)
BY StoresDrawn, DrawsStores DEF Drawn

LEMMA GuardDraws ==
  ASSUME NEW u, Whole(u), BoxSound(u)
  PROVE  LET v == InputGuard(u)
         IN  /\ Draws(u, v)
             /\ ~IsAnimationEligible(u) /\ (u.pressed => IsRendered(u)) => ~v.pressed /\ ValueDrawn(v)
<1>1. CASE IsAnimationEligible(u)
  BY <1>1, ReplayPendingDraws DEF InputGuard
<1>2. CASE ~IsAnimationEligible(u)
  <2>1. PICK v : v = OnProcessingSuspended(u)
    OBVIOUS
  <2>2. Looks(u, v) /\ (IsRendered(u) => ~v.pressed /\ ValueDrawn(v)) /\ Steady(u, v)
    BY <2>1, SuspendedLooks, SuspendedSteady DEF Whole
  <2>3. ~IsRendered(u) => ValueDrawn(u)
    BY DEF ValueDrawn
  <2> QED
    BY <1>2, <2>1, <2>2, <2>3, SteadyDraws DEF InputGuard, Looks
<1> QED
  BY <1>1, <1>2

\* What none of what is always drawn reads.
LEMMA UndrawnField ==
  ASSUME NEW u, Sound(u), NEW r, RecordHeld(u, r), Drawn(u), NEW x,
         NEW field \in {"pressed", "native", "shown", "sent", "is_press_published", "asked"}
  PROVE  LET v == [u EXCEPT ![field] = x]
         IN  /\ Drawn(v) /\ RecordHeld(v, r) /\ v.kind = u.kind
<1> DEFINE v == [u EXCEPT ![field] = x]
<1>1. /\ v.kind = u.kind /\ v.store = u.store /\ v.box = u.box /\ v.grid = u.grid /\ v.px = u.px
      /\ v.pending = u.pending /\ v.hidden = u.hidden /\ v.bound = u.bound
      /\ v.target_id = u.target_id /\ v.step_count = u.step_count /\ v.max = u.max
  BY DEF Sound, WidgetFields
<1> HIDE DEF v
<1>2. HeldBox(v) = HeldBox(u)
  BY <1>1 DEF HeldBox
<1>3. Drawn(v)
  BY <1>1, <1>2 DEF Drawn, StepTaken, TargetTaken, HiddenTaken, BoxTaken, IsPlaced, BoxSound
<1> QED
  BY <1>1, <1>3, RecordStays DEF v

LEMMA PressedFieldDraws ==
  ASSUME NEW u, Sound(u), NEW r, RecordHeld(u, r), Drawn(u), NEW x \in BOOLEAN
  PROVE  LET v == [u EXCEPT !.pressed = x]
         IN  /\ Drawn(v) /\ RecordHeld(v, r) /\ v.kind = u.kind /\ v.pressed = x
             /\ IsRendered(v) = IsRendered(u)
             /\ x \/ u.kind # "slider" => (ValueDrawn(u) => ValueDrawn(v))
<1> DEFINE v == [u EXCEPT !.pressed = x]
<1>1. Drawn(v) /\ RecordHeld(v, r)
  BY UndrawnField
<1>2. /\ v.kind = u.kind /\ v.store = u.store /\ v.pending = u.pending /\ v.native = u.native
      /\ v.step_count = u.step_count /\ v.pressed = x
  BY DEF Sound, WidgetFields
<1> HIDE DEF v
<1>3. IsRendered(v) = IsRendered(u) /\ (x \/ u.kind # "slider" => (ValueDrawn(u) => ValueDrawn(v)))
  BY <1>2 DEF IsRendered, ValueDrawn
<1> QED
  BY <1>1, <1>2, <1>3 DEF v

LEMMA LocalDraws ==
  ASSUME NEW u, Sound(u), NEW r, RecordHeld(u, r), Drawn(u), NEW value
  PROVE  LET v == SetPropertyLocal(u, value)
         IN  /\ Drawn(v) /\ RecordHeld(v, r) /\ v.kind = u.kind /\ v.pressed = u.pressed
             /\ IsRendered(v) = IsRendered(u)
<1> DEFINE asked == [value |-> value, over |-> u.store.VALUE, max |-> u.store.MAX_VALUE]
           store == [u.store EXCEPT !["VALUE"] = value]
           v == [u EXCEPT !.asked = asked, !.store = store]
<1>1. DOMAIN u.store = Registered /\ "VALUE" \in Registered \ LayoutTypes
      /\ {"TARGET", "IS_VISIBLE"} \subseteq Registered /\ LayoutTypes \subseteq Registered
  BY DEF Sound, Registered, Management, LayoutTypes
<1>2. SetPropertyLocal(u, value) = IF IsProcessingEligible(u) THEN v ELSE u
  BY DEF SetPropertyLocal, Sound, WidgetFields
<1>3. /\ v.kind = u.kind /\ v.store = store /\ v.box = u.box /\ v.grid = u.grid /\ v.px = u.px
      /\ v.pending = u.pending /\ v.hidden = u.hidden /\ v.bound = u.bound /\ v.pressed = u.pressed
      /\ v.native = u.native
      /\ v.target_id = u.target_id /\ v.step_count = u.step_count /\ v.max = u.max
  BY DEF Sound, WidgetFields
<1> HIDE DEF v, asked
<1>4. /\ store.TARGET = u.store.TARGET /\ store["IS_VISIBLE"] = u.store["IS_VISIBLE"]
      /\ \A type \in LayoutTypes : store[type] = u.store[type]
  BY <1>1
<1>5. RecordHeld(v, r)
  BY <1>1, <1>3, StoredRecord
<1> HIDE DEF store
<1>6. HeldBox(v) = HeldBox(u)
  BY <1>3, <1>4 DEF HeldBox, LayoutTypes
<1>7. /\ StepTaken(v) /\ TargetTaken(v) /\ BoxTaken(v) /\ BoxSound(v)
      /\ IsRendered(v) = IsRendered(u)
  BY <1>3, <1>4, <1>6 DEF Drawn, StepTaken, TargetTaken, BoxTaken, IsPlaced, BoxSound, IsRendered
<1>8. HiddenTaken(v)
  BY <1>3, <1>4 DEF Drawn, HiddenTaken
<1> QED
  BY <1>2, <1>3, <1>5, <1>7, <1>8 DEF Drawn

\* What LVGL's events leave of what is drawn.
InputKeeps(u, v, r) ==
    Drawn(v) /\ RecordHeld(v, r) /\ v.kind = u.kind /\ (IsRendered(u) => IsRendered(v))

LEMMA GuardKeeps ==
  ASSUME NEW u, Whole(u), NEW r, RecordHeld(u, r), Drawn(u)
  PROVE  InputKeeps(u, InputGuard(u), r) /\ Sound(InputGuard(u))
<1>1. PICK v : v = InputGuard(u)
  OBVIOUS
<1>2. Draws(u, v) /\ Lasts(u, v)
  BY <1>1, GuardDraws, GuardHolds DEF Drawn
<1>3. RecordHeld(v, r)
  BY <1>2, RecordStays DEF Draws, Looks, Lasts, SameWidget
<1> QED
  BY <1>1, <1>2, <1>3, DrawsDrawn DEF InputKeeps, Draws, Looks, Lasts, Whole

LEMMA PublishKeeps ==
  ASSUME NEW u, Sound(u), NEW r, RecordHeld(u, r), Drawn(u), NEW x
  PROVE  LET v == PublishPress(u, x)
         IN  /\ InputKeeps(u, v, r) /\ v.pressed = u.pressed
             /\ ValueDrawn(u) => ValueDrawn(v)
<1> DEFINE v == PublishPress(u, x)
<1>1. /\ v.kind = u.kind /\ v.store = u.store /\ v.box = u.box /\ v.pressed = u.pressed
      /\ v.native = u.native /\ v.bound = u.bound
  BY DEF PublishPress, Sound, WidgetFields
<1>2. Looks(u, v) /\ (ValueDrawn(u) => ValueDrawn(v))
  BY PublishLooks
<1> HIDE DEF v
<1>3. Draws(u, v)
  BY <1>1, <1>2 DEF Draws, IsRendered
<1>4. RecordHeld(v, r)
  BY <1>1, RecordStays
<1> QED
  BY <1>1, <1>2, <1>3, <1>4, DrawsDrawn DEF InputKeeps, Draws, v

LEMMA PressedDraws ==
  ASSUME NEW u, Whole(u), NEW r, RecordHeld(u, r), Drawn(u), ValueDrawn(u)
  PROVE  InputKeeps(u, Pressed(u), r) /\ ValueDrawn(Pressed(u))
<1> DEFINE guarded == InputGuard(u)
           down == [guarded EXCEPT !.pressed = TRUE]
<1>1. InputKeeps(u, guarded, r) /\ Sound(guarded) /\ ValueDrawn(guarded)
  BY GuardKeeps, GuardDraws DEF Drawn, Draws, Looks
<1> HIDE DEF guarded
<1>2. InputKeeps(u, down, r) /\ ValueDrawn(down)
  BY <1>1, PressedFieldDraws DEF InputKeeps
<1>3. Sound(down)
  BY <1>1, OtherFieldSteady DEF Steady
<1> HIDE DEF down
<1>4. InputKeeps(u, PublishPress(down, TRUE), r) /\ ValueDrawn(PublishPress(down, TRUE))
  BY <1>2, <1>3, PublishKeeps DEF InputKeeps
<1>5. Pressed(u) \in {guarded, down, PublishPress(down, TRUE)}
  BY DEF Pressed, guarded, down
<1> QED
  BY <1>1, <1>2, <1>4, <1>5

LEMMA DraggedDraws ==
  ASSUME NEW u, Whole(u), NEW r, RecordHeld(u, r), Drawn(u), NEW index \in Int
  PROVE  LET v == Dragged(u, index)
         IN  /\ InputKeeps(u, v, r)
             /\ v.pressed => u.pressed
             /\ u.kind # "slider" => (ValueDrawn(u) => ValueDrawn(v))
<1> DEFINE guarded == InputGuard(u)
           moved == SetValue(guarded, index)
           local == SetPropertyLocal(moved, ToValue(moved, moved.native))
<1>1. /\ InputKeeps(u, guarded, r) /\ Sound(guarded)
      /\ guarded.pressed => u.pressed
      /\ ValueDrawn(u) => ValueDrawn(guarded)
  BY GuardKeeps, GuardDraws DEF Drawn, Draws, Looks
<1> HIDE DEF guarded
<1>2. CASE u.kind = "slider"
  <2>1. Steady(guarded, moved)
    BY <1>1, <1>2, SetValueSteady DEF InputKeeps
  <2>2. Drawn(moved) /\ RecordHeld(moved, r) /\ moved.kind = guarded.kind
    BY <1>1, UndrawnField DEF SetValue, InputKeeps
  <2>3. moved.pressed = guarded.pressed
    BY <1>1 DEF SetValue, Sound, WidgetFields
  <2> HIDE DEF moved
  <2>4. InputKeeps(u, moved, r) /\ (moved.pressed => u.pressed)
    BY <1>1, <2>1, <2>2, <2>3 DEF InputKeeps, Steady
  <2>5. InputKeeps(u, local, r) /\ (local.pressed => u.pressed)
    BY <2>1, <2>4, LocalDraws DEF InputKeeps, Steady
  <2> HIDE DEF local
  <2>6. Dragged(u, index) \in {guarded, moved, local}
    BY DEF Dragged, guarded, moved, local
  <2> QED
    BY <1>1, <1>2, <2>4, <2>5, <2>6
<1>3. CASE u.kind # "slider"
  <2>1. Dragged(u, index) = guarded
    BY <1>3 DEF Dragged, guarded
  <2> QED
    BY <1>1, <2>1
<1> QED
  BY <1>2, <1>3

\* A finger that leaves the control leaves the value drawn.
LEMMA ReleasedDraws ==
  ASSUME NEW u, Whole(u), NEW r, RecordHeld(u, r), Drawn(u), u.pressed => IsRendered(u),
         u.kind = "slider" \/ ValueDrawn(u)
  PROVE  LET v == Released(u)
         IN  InputKeeps(u, v, r) /\ ~v.pressed /\ ValueDrawn(v)
<1> DEFINE guarded == InputGuard(u)
           up == [guarded EXCEPT !.pressed = FALSE]
<1>1. /\ InputKeeps(u, guarded, r) /\ Sound(guarded)
      /\ ValueDrawn(u) => ValueDrawn(guarded)
      /\ ~IsAnimationEligible(u) => ~guarded.pressed /\ ValueDrawn(guarded)
  BY GuardKeeps, GuardDraws DEF Drawn, Draws, Looks
<1> HIDE DEF guarded
<1>2. /\ InputKeeps(u, up, r) /\ ~up.pressed
      /\ u.kind # "slider" => ValueDrawn(up)
  BY <1>1, PressedFieldDraws DEF InputKeeps
<1>3. Sound(up)
  BY <1>1, OtherFieldSteady DEF Steady
<1> HIDE DEF up
<1>4. CASE ~IsAnimationEligible(u)
  BY <1>1, <1>4 DEF Released, guarded
<1>5. CASE IsAnimationEligible(u) /\ u.kind = "toggle"
  <2> DEFINE flipped == [up EXCEPT !.native = 1 - up.native]
             v == SetPropertyLocal(flipped, 1 - up.native)
  <2>1. Released(u) = v
    BY <1>5 DEF Released, Flipped, up, guarded
  <2>2. Drawn(flipped) /\ RecordHeld(flipped, r) /\ flipped.kind = up.kind
    BY <1>2, <1>3, UndrawnField DEF InputKeeps
  <2>3. /\ flipped.pressed = up.pressed
        /\ IsRendered(up) => IsRendered(flipped) /\ Sound(flipped)
    <3>1. IsRendered(up) => 1 - up.native \in Int
      BY <1>3 DEF Sound, NumbersHeld, IsRendered
    <3> QED
      BY <1>3, <3>1, NoObjectAssumption DEF Sound, NumbersHeld, PressHeld, IsRendered, WidgetFields
  <2>4. IsRendered(up)
    BY <1>2, <1>5 DEF InputKeeps, Whole, Sound, NumbersHeld, IsAnimationEligible
  <2> HIDE DEF flipped
  <2>5. /\ Drawn(v) /\ RecordHeld(v, r) /\ v.kind = flipped.kind /\ v.pressed = flipped.pressed
        /\ IsRendered(v) = IsRendered(flipped)
    BY <2>2, <2>3, <2>4, LocalDraws
  <2> HIDE DEF v
  <2>6. v.kind = "toggle"
    BY <1>2, <1>5, <2>2, <2>5 DEF InputKeeps
  <2>7. ValueDrawn(v)
    BY <2>6 DEF ValueDrawn
  <2> QED
    BY <1>2, <1>5, <2>1, <2>2, <2>3, <2>4, <2>5, <2>6, <2>7 DEF InputKeeps
<1>6. CASE IsAnimationEligible(u) /\ u.kind = "slider"
  <2> DEFINE v == UpdateSlider(up)
  <2>1. Released(u) = v
    BY <1>6 DEF Released, up, guarded
  <2>2. /\ Looks(up, v) /\ ValueDrawn(v) /\ Steady(up, v)
    BY <1>2, <1>3, <1>6, UpdateSliderLooks, UpdateSliderSteady DEF InputKeeps
  <2> HIDE DEF v
  <2>3. Draws(up, v)
    BY <2>2, SteadyDraws
  <2>4. RecordHeld(v, r)
    BY <1>2, <2>2, RecordStays DEF InputKeeps, Steady, SameWidget, SameState, Looks
  <2> QED
    BY <1>2, <2>1, <2>2, <2>3, <2>4, DrawsDrawn DEF InputKeeps, Draws, Looks
<1>7. CASE IsAnimationEligible(u) /\ u.kind \notin {"toggle", "slider"}
  <2>1. Released(u) = PublishPress(up, FALSE)
    BY <1>7 DEF Released, up, guarded
  <2>2. /\ InputKeeps(up, PublishPress(up, FALSE), r) /\ ~PublishPress(up, FALSE).pressed
        /\ ValueDrawn(up) => ValueDrawn(PublishPress(up, FALSE))
    <3>1. Drawn(up) /\ RecordHeld(up, r)
      BY <1>2 DEF InputKeeps
    <3> QED
      BY <1>2, <1>3, <3>1, PublishKeeps
  <2> QED
    BY <1>2, <1>7, <2>1, <2>2 DEF InputKeeps
<1> QED
  BY <1>4, <1>5, <1>6, <1>7

LEMMA PressLostDraws ==
  ASSUME NEW u, Whole(u), NEW r, RecordHeld(u, r), Drawn(u), u.pressed => IsRendered(u),
         u.kind # "slider", ValueDrawn(u)
  PROVE  LET v == PressLost(u)
         IN  InputKeeps(u, v, r) /\ ~v.pressed /\ ValueDrawn(v)
<1> DEFINE guarded == InputGuard(u)
           up == [guarded EXCEPT !.pressed = FALSE]
<1>1. /\ InputKeeps(u, guarded, r) /\ Sound(guarded)
      /\ ValueDrawn(guarded)
      /\ ~IsAnimationEligible(u) => ~guarded.pressed
  BY GuardKeeps, GuardDraws DEF Drawn, Draws, Looks
<1> HIDE DEF guarded
<1>2. InputKeeps(u, up, r) /\ ~up.pressed /\ ValueDrawn(up)
  BY <1>1, PressedFieldDraws DEF InputKeeps
<1>3. Sound(up)
  BY <1>1, OtherFieldSteady DEF Steady
<1> HIDE DEF up
<1>4. CASE ~IsAnimationEligible(u)
  BY <1>1, <1>4 DEF PressLost, guarded
<1>5. CASE IsAnimationEligible(u)
  <2>1. PressLost(u) \in {up, PublishPress(up, FALSE)}
    BY <1>5 DEF PressLost, up, guarded
  <2>2. /\ InputKeeps(up, PublishPress(up, FALSE), r) /\ ~PublishPress(up, FALSE).pressed
        /\ ValueDrawn(up) => ValueDrawn(PublishPress(up, FALSE))
    <3>1. Drawn(up) /\ RecordHeld(up, r)
      BY <1>2 DEF InputKeeps
    <3> QED
      BY <1>2, <1>3, <3>1, PublishKeeps
  <2> QED
    BY <1>2, <2>1, <2>2 DEF InputKeeps
<1> QED
  BY <1>4, <1>5

-----------------------------------------------------------------------------
\* The finger holds what it presses; nothing but a finger on a slider moves what is
\* drawn away from the value; and no swipe takes a contact from a slider.
ContactDrawn(v, c) ==
    /\ v.pressed => IsRendered(v) /\ c.at = "control"
    /\ c.at = "control" /\ c.wait_release => v.kind # "slider"
    /\ (c.at = "control" /\ v.kind = "slider") \/ ValueDrawn(v)

Framed(v, r, c) == Drawn(v) /\ RecordHeld(v, r) /\ ContactDrawn(v, c)

FramedInv == ControlsInv /\ Framed(w, record, contact)

\* What is asked is not drawn.
LEMMA AskedFramed ==
  ASSUME NEW v, Sound(v), NEW r, NEW c, Framed(v, r, c), NEW x
  PROVE  Framed([v EXCEPT !.asked = x], r, c)
<1> DEFINE anew == [v EXCEPT !.asked = x]
<1>1. Draws(v, anew)
  BY OtherFieldDraws
<1>2. Drawn(anew) /\ RecordHeld(anew, r) /\ anew.kind = v.kind
  BY UndrawnField DEF Framed
<1> HIDE DEF anew
<1>3. ContactDrawn(anew, c)
  BY <1>1, <1>2 DEF Framed, ContactDrawn, Draws, Looks
<1> QED
  BY <1>2, <1>3 DEF Framed, anew

\* A call that the contact goes through.
LEMMA CallFramed ==
  ASSUME FramedInv, NEW v, Sound(v), Drawn(v), RecordHeld(v, record'), v.kind = w.kind,
         ValueDrawn(w) => ValueDrawn(v), v.pressed => w.pressed, IsRendered(w) => IsRendered(v),
         Becomes(v), contact' = contact
  PROVE  Framed(w', record', contact')
<1>1. Framed(v, record', contact)
  BY DEF FramedInv, Framed, ContactDrawn
<1> QED
  BY <1>1, AskedFramed DEF Becomes

LEMMA DrawsFramed ==
  ASSUME FramedInv, NEW v, Lasts(w, v), Draws(w, v), Becomes(v), Stays
  PROVE  Framed(w', record', contact')
<1>1. Drawn(v) /\ RecordHeld(v, record)
  BY DrawsDrawn, RecordStays DEF FramedInv, Framed, Draws, Looks, Lasts, SameWidget
<1> QED
  BY <1>1, CallFramed DEF Lasts, Whole, Draws, Looks, Stays

LEMMA FreshFramed ==
  ASSUME NEW kind, NEW sends, NEW bound \in SUBSET LayoutTypes, NEW grid, NEW shown, NEW r,
         DOMAIN r = RecordFields, kind = "box" => grid \in Grids /\ ValidateBox(grid, r.BOX),
         NEW c, c.at = "control" /\ c.wait_release => kind # "slider"
  PROVE  Framed(Assemble(Constructed(kind, sends, bound, grid, shown), r), r, c)
BY AssembledDraws DEF Framed, Drawn, ContactDrawn

LEMMA FramedStart == WidgetsInit => FramedInv
<1> SUFFICES ASSUME WidgetsInit PROVE Framed(w, record, contact)
  BY ControlsStart DEF FramedInv
<1>1. contact.at # "control"
  <2>1. contact = NoContact
    BY DEF WidgetsInit, Init, Untouched
  <2> QED
    BY <2>1, NoContactHeld
<1>2. CASE Init
  <2>1. PICK kind \in Kinds, sends \in BOOLEAN :
          \E r \in Records(kind), bound \in Bindings(kind), grid \in IF kind = "box" THEN Grids ELSE {NoGrid} :
            /\ kind = "box" => ValidateBox(grid, r.BOX)
            /\ w = Assemble(Constructed(kind, sends, bound, grid, TRUE), r) /\ record = r
    BY <1>2 DEF Init
  <2>2. PICK r \in Records(kind), bound \in Bindings(kind), grid \in IF kind = "box" THEN Grids ELSE {NoGrid} :
            /\ kind = "box" => ValidateBox(grid, r.BOX)
            /\ w = Assemble(Constructed(kind, sends, bound, grid, TRUE), r) /\ record = r
    BY <2>1
  <2>3. bound \in SUBSET LayoutTypes /\ (kind = "box" => grid \in Grids) /\ DOMAIN r = RecordFields
    BY RecordsTyped DEF Bindings, LayoutTypes
  <2> QED
    BY <1>1, <2>2, <2>3, FreshFramed
<1>3. CASE Untouched
  <2>1. /\ DOMAIN record = RecordFields
        /\ w = Assemble(Constructed("toggle", TRUE, {}, NoGrid, TRUE), record)
    BY <1>3 DEF Untouched, RecordFields
  <2> QED
    BY <1>1, <2>1, FreshFramed
<1> QED
  BY <1>2, <1>3 DEF WidgetsInit

LEMMA EventFramed ==
  ASSUME FramedInv, Event
  PROVE  Framed(w', record', contact')
<1>1. /\ Whole(w) /\ Drawn(w) /\ BoxSound(w) /\ RecordHeld(w, record)
      /\ contact' = contact /\ record' = record
  BY DEF Event, Stays, FramedInv, Framed, Drawn, ControlsInv, Controlled
<1>2. ASSUME NEW type \in Registered, NEW value,
             type \in LayoutTypes \cup {"VALUE", "MAX_VALUE"} => value \in Int,
             type \notin LayoutTypes \/ type \in w.bound, type # "IS_ACTIVE",
             Becomes(OnEvent(w, type, value))
      PROVE  Framed(w', record', contact')
  <2>1. PICK v : v = OnEvent(w, type, value)
    OBVIOUS
  <2>2. Stores(w, v) /\ RecordHeld(v, record) /\ Lasts(w, v)
    BY <1>1, <1>2, <2>1, EventDraws, OnEventLasts
  <2>3. Drawn(v)
    BY <1>1, <2>2, StoresDrawn
  <2> QED
    BY <1>1, <1>2, <2>1, <2>2, <2>3, CallFramed DEF Stores, Looks, Lasts, Whole
<1>3. Values(w.kind) \subseteq Int /\ {0, MaxValue} \subseteq Int
  BY MaxValueAssumption DEF Values
<1>4. w.bound \subseteq LayoutTypes /\ LayoutTypes \subseteq Registered
      /\ "IS_ACTIVE" \notin LayoutTypes
  BY <1>1 DEF Whole, Sound, LayoutTypes, Registered
<1>5. {"IS_VISIBLE", "VALUE", "MAX_VALUE"} \subseteq Registered \ LayoutTypes
  BY DEF Registered, Management, LayoutTypes
<1>6. CASE \E visible \in BOOLEAN : Becomes(OnEvent(w, "IS_VISIBLE", visible))
  BY <1>2, <1>5, <1>6
<1>7. CASE \E value \in Values(w.kind) : Becomes(OnEvent(w, "VALUE", value))
  BY <1>2, <1>3, <1>5, <1>7
<1>8. CASE \E type \in w.bound, halves \in Published : Becomes(OnEvent(w, type, CoerceLayoutValue(halves)))
  <2>1. \A halves \in Published : CoerceLayoutValue(halves) \in Int
    BY PublishedAssumption, LayoutLimitAssumption DEF CoerceLayoutValue, Within
  <2> QED
    BY <1>2, <1>4, <1>8, <2>1
<1>9. CASE \E max \in {0, MaxValue} : w.kind = "slider" /\ Becomes(OnEvent(w, "MAX_VALUE", max))
  BY <1>2, <1>3, <1>5, <1>9
<1> QED
  BY <1>6, <1>7, <1>8, <1>9 DEF Event

\* A widget that is taken down draws the value still, with no finger on it.
LEMMA TakenDownFramed ==
  ASSUME FramedInv, TakenDown
  PROVE  Framed(w', record', contact')
<1> DEFINE down == [w EXCEPT !.detached = TRUE, !.is_ready = FALSE, !.is_group_active = FALSE]
           v == OnProcessingSuspended(down)
           still == [v EXCEPT !.was_processing = FALSE]
<1>1. Whole(w) /\ Drawn(w) /\ RecordHeld(w, record) /\ ContactDrawn(w, contact)
  BY DEF FramedInv, Framed, ControlsInv, Controlled
<1>2. /\ down.kind = w.kind /\ down.store = w.store /\ down.box = w.box /\ down.grid = w.grid /\ down.px = w.px
      /\ down.pending = w.pending /\ down.native = w.native /\ down.pressed = w.pressed
      /\ down.hidden = w.hidden /\ down.bound = w.bound
      /\ down.target_id = w.target_id /\ down.step_count = w.step_count /\ down.max = w.max
  BY <1>1 DEF Whole, Sound, WidgetFields
<1>3. Sound(down)
  BY <1>1 DEF Whole, Sound, NumbersHeld, PressHeld, IsRendered, WidgetFields
<1> HIDE DEF down
<1>4. Draws(w, down)
  BY <1>2, SameLooks DEF Draws, IsRendered
<1>5. Steady(down, v) /\ Draws(down, v) /\ (IsRendered(down) => ~v.pressed /\ ValueDrawn(v))
  BY <1>3, SuspendedSteady, SuspendedLooks, SteadyDraws
<1> HIDE DEF v
<1>6. Steady(v, still) /\ Draws(v, still)
  BY <1>5, OtherFieldSteady, OtherFieldDraws DEF Steady
<1> HIDE DEF still
<1>7. Draws(w, still)
  BY <1>4, <1>5, <1>6, DrawsOn
<1>8. ~still.pressed /\ ValueDrawn(still)
  <2>1. CASE IsRendered(w)
    BY <1>2, <1>5, <1>6, <2>1 DEF IsRendered, Draws, Looks
  <2>2. CASE ~IsRendered(w)
    <3>1. ~w.pressed /\ ValueDrawn(w)
      BY <1>1, <2>2 DEF ContactDrawn, ValueDrawn
    <3> QED
      BY <1>7, <3>1 DEF Draws, Looks
  <2> QED
    BY <2>1, <2>2
<1>9. Drawn(still) /\ still.kind = w.kind
  BY <1>1, <1>7, DrawsDrawn DEF Draws, Looks
<1>10. RecordHeld(still, record)
  BY <1>1, <1>2, <1>5, <1>6, <1>7, RecordStays DEF Draws, Looks, Steady, SameWidget
<1>11. w' = [still EXCEPT !.asked = NotAsked] /\ record' = record
       /\ (contact' = contact \/ contact' = NoContact)
  BY DEF TakenDown, Becomes, DetachDispatch, still, v, down
<1>12. Framed(still, record', contact')
  BY <1>1, <1>8, <1>9, <1>10, <1>11 DEF Framed, ContactDrawn, NoContact
<1> QED
  BY <1>6, <1>11, <1>12, AskedFramed DEF Steady

LEMMA BuiltAgainFramed ==
  ASSUME FramedInv, BuiltAgain
  PROVE  Framed(w', record', contact')
<1> DEFINE v == Assemble(Constructed(w.kind, w.is_sending_press, w.bound, w.grid, w.parent_shown), record)
<1>1. /\ w.bound \in SUBSET LayoutTypes /\ DOMAIN record = RecordFields
      /\ w.kind = "box" => w.grid \in Grids /\ ValidateBox(w.grid, record.BOX)
      /\ contact.at = "control" /\ contact.wait_release => w.kind # "slider"
  BY DEF FramedInv, Framed, Drawn, BoxSound, RecordHeld, ContactDrawn, ControlsInv, Controlled, Whole, Sound
<1>2. Framed(v, record, contact) /\ Sound(v)
  BY <1>1, FreshFramed, AssembledHolds DEF Whole
<1> HIDE DEF v
<1>3. Framed([v EXCEPT !.asked = NotAsked], record, contact)
  BY <1>2, AskedFramed
<1> QED
  BY <1>3 DEF BuiltAgain, Becomes, Stays, v

LEMMA EditFramed ==
  ASSUME FramedInv, Edit
  PROVE  Framed(w', record', contact')
<1>1. PICK after \in Records(w.kind) :
        /\ w.kind = "box" => ValidateBox(w.grid, after.BOX)
        /\ Becomes(ApplyEditorConfiguration(w, record, after))
        /\ record' = after
  BY DEF Edit
<1>2. /\ Whole(w) /\ Drawn(w) /\ RecordHeld(w, record)
      /\ DOMAIN record = RecordFields /\ DOMAIN after = RecordFields
      /\ contact' = contact
  BY RecordsTyped DEF FramedInv, Framed, ControlsInv, Controlled, Edit
<1>3. PICK v : v = ApplyEditorConfiguration(w, record, after)
  OBVIOUS
<1>4. /\ Drawn(v) /\ RecordHeld(v, after) /\ v.kind = w.kind
      /\ ValueDrawn(w) => ValueDrawn(v)
      /\ v.pressed => w.pressed
      /\ IsRendered(w) => IsRendered(v)
  BY <1>1, <1>2, <1>3, EditDraws
<1>5. Sound(v)
  BY <1>2, <1>3, EditLasts DEF Lasts, Whole
<1> QED
  BY <1>1, <1>2, <1>3, <1>4, <1>5, CallFramed

LEMMA BeginsFramed ==
  ASSUME FramedInv, NEW report, Begins(report), record' = record
  PROVE  Framed(w', record', contact')
<1>1. /\ Whole(w) /\ Drawn(w) /\ RecordHeld(w, record) /\ ValueDrawn(w) /\ ~w.pressed
  BY DEF FramedInv, Framed, ContactDrawn, ControlsInv, Controlled, Begins
<1>2. CASE w' = w /\ contact' = [NoContact EXCEPT !.at = "screen", !.fingers = {report.id}]
  BY <1>1, <1>2 DEF Framed, ContactDrawn, NoContact
<1>3. CASE /\ IsOnScreen /\ w' = Pressed(w)
           /\ contact' = [NoContact EXCEPT !.at = "control", !.fingers = {report.id}, !.has_sent = w'.sent]
  <2>1. InputKeeps(w, w', record) /\ ValueDrawn(w') /\ IsRendered(w)
    BY <1>1, <1>3, PressedDraws DEF IsOnScreen
  <2>2. contact'.at = "control" /\ ~contact'.wait_release
    BY <1>3 DEF NoContact
  <2> QED
    BY <2>1, <2>2 DEF InputKeeps, Framed, ContactDrawn
<1> QED
  BY <1>2, <1>3 DEF Begins

LEMMA GoesOnFramed ==
  ASSUME FramedInv, NEW report, GoesOn(report), record' = record
  PROVE  Framed(w', record', contact')
<1>1. /\ Whole(w) /\ Drawn(w) /\ RecordHeld(w, record) /\ ContactDrawn(w, contact)
  BY DEF FramedInv, Framed, ControlsInv, Controlled
<1>2. contact'.at = contact.at /\ contact'.wait_release = contact.wait_release
  BY DEF GoesOn, FramedInv, ControlsInv, Controlled, ContactHeld, ContactFields
<1>3. CASE w' = w
  BY <1>1, <1>2, <1>3 DEF Framed, ContactDrawn
<1>4. ASSUME NEW index \in {0, MaxValue}, w' = Dragged(w, index), contact.at = "control"
      PROVE  Framed(w', record', contact')
  <2>1. index \in Int
    BY <1>4, MaxValueAssumption
  <2>2. /\ InputKeeps(w, w', record)
        /\ w'.pressed => w.pressed
        /\ w.kind # "slider" => (ValueDrawn(w) => ValueDrawn(w'))
    BY <1>1, <1>4, <2>1, DraggedDraws
  <2> QED
    BY <1>1, <1>2, <1>4, <2>2 DEF InputKeeps, Framed, ContactDrawn
<1> QED
  BY <1>3, <1>4 DEF GoesOn

LEMMA EndsFramed ==
  ASSUME FramedInv, NEW report, Ends(report), record' = record
  PROVE  Framed(w', record', contact')
<1>1. /\ Whole(w) /\ Drawn(w) /\ RecordHeld(w, record) /\ ContactDrawn(w, contact)
  BY DEF FramedInv, Framed, ControlsInv, Controlled
<1>2. Drawn(w') /\ RecordHeld(w', record) /\ ~w'.pressed /\ ValueDrawn(w')
  <2>1. CASE contact.at # "control"
    BY <1>1, <2>1 DEF Ends, ContactDrawn
  <2>2. CASE contact.at = "control" /\ contact.wait_release
    BY <1>1, <2>2, PressLostDraws DEF Ends, ContactDrawn, InputKeeps
  <2>3. CASE contact.at = "control" /\ ~contact.wait_release
    BY <1>1, <2>3, ReleasedDraws DEF Ends, ContactDrawn, InputKeeps
  <2> QED
    BY <2>1, <2>2, <2>3
<1>3. contact'.at # "control"
  BY DEF Ends, NoContact, FramedInv, ControlsInv, Controlled, ContactHeld, ContactFields
<1> QED
  BY <1>2, <1>3 DEF Framed, ContactDrawn

\* A slider keeps its touch area to itself.
LEMMA GestureFramed ==
  ASSUME FramedInv, NEW direction, NEW enabled \in BOOLEAN, HandleGesture(direction, enabled)
  PROVE  Framed(w', record', contact')
<1> DEFINE isHeard == contact.at = "screen" \/ ~CapturesGestures(w)
           isMeant == isHeard /\ enabled /\ direction \in Mapped
<1>1. contact'.at = contact.at /\ contact'.wait_release = isMeant /\ w' = w /\ record' = record
  BY DEF HandleGesture, FramedInv, ControlsInv, Controlled, ContactHeld, ContactFields
<1>2. contact.at = "control" /\ isMeant => w.kind # "slider"
  BY DEF CapturesGestures
<1> HIDE DEF isHeard, isMeant
<1> QED
  BY <1>1, <1>2 DEF FramedInv, Framed, ContactDrawn

LEMMA FramedStep == FramedInv /\ [Next]_vars => FramedInv'
<1> SUFFICES ASSUME FramedInv, [Next]_vars PROVE Framed(w', record', contact')
  BY ControlsStep DEF FramedInv
<1>1. Whole(w) /\ Drawn(w) /\ BoxSound(w)
  BY DEF FramedInv, Framed, Drawn, ControlsInv, Controlled
<1>2. CASE UNCHANGED <<w, record, contact>>
  BY <1>2 DEF FramedInv, Framed, ContactDrawn
<1>3. CASE UNCHANGED vars \/ Touches \/ CooldownPasses
  BY <1>2, <1>3 DEF vars, Touches, CooldownPasses
<1>4. CASE Renders
  BY <1>1, <1>4, RenderLasts, RenderFailsLasts, RenderDraws, RenderFailsDraws, DrawsFramed DEF Renders
<1>5. CASE Activates \/ Deactivates
  BY <1>1, <1>5, GroupLasts, GroupDraws, DrawsFramed DEF Activates, Deactivates
<1>6. CASE ParentChanges
  <2> DEFINE v == [w EXCEPT !.parent_shown = ~w.parent_shown]
  <2>1. Lasts(w, v) /\ Draws(w, v)
    BY <1>1, ToldLasts, OtherFieldDraws DEF Whole
  <2> QED
    BY <1>6, <2>1, DrawsFramed DEF ParentChanges
<1>7. CASE Refresh
  BY <1>1, <1>7, SynchronizeLasts, SynchronizeDraws, DrawsFramed DEF Refresh
<1>8. CASE Clicked
  BY <1>8 DEF Clicked, FramedInv, Framed, ContactDrawn, NoContact
<1>9. CASE Reads
  <2>1. record' = record
    BY <1>9 DEF Reads
  <2> QED
    BY <1>2, <1>9, <2>1, BeginsFramed, GoesOnFramed, EndsFramed DEF Reads
<1> QED
  BY <1>3, <1>4, <1>5, <1>6, <1>7, <1>8, <1>9, EventFramed, EditFramed, TakenDownFramed,
     BuiltAgainFramed, GestureFramed DEF Next

LEMMA FramedInvariant == WidgetsSpec => []FramedInv
<1>1. FramedInv /\ [WidgetsNext]_allVars => FramedInv'
  BY FramedStep, SceneSteps DEF allVars, vars
<1> QED
  BY <1>1, FramedStart, PTL DEF WidgetsSpec

\* One side of a box that its record keeps inside the grid.
LEMMA SideIsHeld ==
  ASSUME NEW of \in Nat, of > 0, NEW at \in Int, NEW cells \in Int,
         NEW recorded_at \in Int, NEW recorded_cells \in Int, recorded_at + recorded_cells <= of
  PROVE  LET held == Within(cells, 1, of)
             from == Within(at, 0, FarthestCell(of, held, recorded_at, recorded_cells))
         IN  /\ held \in 1 .. of /\ from \in 0 .. of - held /\ from \in 0 .. of
             /\ IsHeld(from, held, of, at, cells)
BY DEF Within, FarthestCell, IsHeld

\* Cells that lie inside the grid lie on the screen.
LEMMA CellsOnScreen ==
  ASSUME NEW of \in Nat, of > 0, NEW from \in Nat, NEW cells \in Nat, from + cells <= of
  PROVE  (LcdPx \div of) * from + ExtentPx(cells, of, 0) <= LcdPx
<1> DEFINE step == LcdPx \div of
<1>1. step \in Nat /\ step * of <= LcdPx
  BY LcdPxAssumption
<1>2. ExtentPx(cells, of, 0) = IF cells = of THEN LcdPx ELSE step * cells
  BY <1>1 DEF ExtentPx
<1> HIDE DEF step
<1>3. CASE cells = of
  <2>1. from = 0
    BY <1>3
  <2> QED
    BY <1>1, <1>2, <1>3, <2>1, LcdPxAssumption DEF step
<1>4. CASE cells # of
  <2>1. step * (from + cells) = step * from + step * cells
    BY <1>1
  <2>2. step * (from + cells) <= step * of
    BY <1>1
  <2> QED
    BY <1>1, <1>2, <1>4, <2>1, <2>2, LcdPxAssumption DEF step
<1> QED
  BY <1>3, <1>4

\* A box whose sides are taken is the one that was published, inside its grid.
LEMMA TakenBoxIsHeld ==
  ASSUME NEW v, v.kind = "box", BoxSound(v), v.px = BoxPx(v.grid, HeldBox(v)), v.box = record'.BOX
  PROVE  BoxIsHeld(v)
<1> SUFFICES ASSUME v.grid.spacing = 0,
                    record'.BOX.x + record'.BOX.width <= v.grid.width,
                    record'.BOX.y + record'.BOX.height <= v.grid.height
             PROVE  LET grid == v.grid
                    IN  \E box \in [x : 0 .. grid.width, y : 0 .. grid.height,
                                    width : 1 .. grid.width, height : 1 .. grid.height] :
                          /\ v.px = [BoxPx(grid, box) EXCEPT
                                       !.y = LcdPx - (LcdPx \div grid.height) * box.y - v.px.height]
                          /\ IsHeld(box.x, box.width, grid.width, v.store.LAYOUT_X, v.store.LAYOUT_WIDTH)
                          /\ IsHeld(box.y, box.height, grid.height, v.store.LAYOUT_Y, v.store.LAYOUT_HEIGHT)
  BY DEF BoxIsHeld
<1> DEFINE grid == v.grid
           box == HeldBox(v)
           size == SizePx(grid, box.width, box.height)
           up == (LcdPx \div grid.height) * box.y
<1>1. /\ grid.width \in Nat /\ grid.width > 0 /\ grid.height \in Nat /\ grid.height > 0
      /\ LcdPx \in Nat
  BY GridsAssumption, LcdPxAssumption DEF BoxSound, IsLayout
<1>2. /\ v.store.LAYOUT_X \in Int /\ v.store.LAYOUT_Y \in Int
      /\ v.store.LAYOUT_WIDTH \in Int /\ v.store.LAYOUT_HEIGHT \in Int
      /\ v.box.x \in Int /\ v.box.y \in Int /\ v.box.width \in Int /\ v.box.height \in Int
      /\ v.box.x + v.box.width <= grid.width /\ v.box.y + v.box.height <= grid.height
  BY <1>1 DEF BoxSound, LayoutTypes, ValidateBox
<1>3. /\ box.width \in 1 .. grid.width /\ box.x \in 0 .. grid.width
      /\ IsHeld(box.x, box.width, grid.width, v.store.LAYOUT_X, v.store.LAYOUT_WIDTH)
  BY <1>1, <1>2, SideIsHeld DEF HeldBox
<1>4. /\ box.height \in 1 .. grid.height /\ box.y \in 0 .. grid.height - box.height
      /\ box.y \in 0 .. grid.height
      /\ IsHeld(box.y, box.height, grid.height, v.store.LAYOUT_Y, v.store.LAYOUT_HEIGHT)
  BY <1>1, <1>2, SideIsHeld DEF HeldBox
<1>5. box \in [x : 0 .. grid.width, y : 0 .. grid.height, width : 1 .. grid.width, height : 1 .. grid.height]
  BY <1>3, <1>4 DEF HeldBox
<1> HIDE DEF box
<1>6. up \in Int /\ size.height \in Int /\ up + size.height <= LcdPx
  <2>1. size.height = ExtentPx(box.height, grid.height, 0)
    BY DEF SizePx
  <2>2. up + ExtentPx(box.height, grid.height, 0) <= LcdPx
    <3>1. /\ box.y \in Nat /\ box.height \in Nat /\ box.y + box.height <= grid.height
          /\ grid.height \in Nat /\ grid.height > 0
      BY <1>1, <1>4
    <3> HIDE DEF grid
    <3> QED
      BY <3>1, CellsOnScreen
  <2>3. LcdPx \div grid.height \in Int
    BY <1>1
  <2>4. up \in Int
    BY <1>4, <2>3
  <2>5. ExtentPx(box.height, grid.height, 0) \in Int
    BY <1>1, <1>4, <2>3 DEF ExtentPx
  <2> QED
    BY <2>1, <2>2, <2>4, <2>5
<1>7. StepPx(grid.height, grid.spacing) * box.y = up
  BY <1>1, <1>4 DEF StepPx
<1> DEFINE left == StepPx(grid.width, grid.spacing) * box.x
<1>8. BoxPx(grid, box) = [x |-> left, y |-> Distance(LcdPx, up + size.height),
                          width |-> size.width, height |-> size.height]
  BY <1>7 DEF BoxPx
<1> HIDE DEF up, size, left
<1>9. Distance(LcdPx, up + size.height) = LcdPx - up - size.height
  BY <1>1, <1>6 DEF Distance
<1>10. v.px = [x |-> left, y |-> LcdPx - up - size.height, width |-> size.width, height |-> size.height]
  BY <1>8, <1>9 DEF box
<1>11. v.px = [BoxPx(grid, box) EXCEPT !.y = LcdPx - up - v.px.height]
  BY <1>8, <1>10
<1> QED
  BY <1>3, <1>4, <1>5, <1>11 DEF up

\* A frame that reaches the widget finds nothing waiting.
LEMMA SynchronizeTakes ==
  ASSUME NEW u, Whole(u), IsAnimationEligible(Synchronize(u))
  PROVE  Synchronize(u).pending = {}
<1> DEFINE v == UpdateProcessingState(u)
<1>1. Whole(v)
  BY ProcessingLasts DEF Lasts
<1> HIDE DEF v
<1>2. IsAnimationEligible(v) => ReplayPendingProperties(v).pending = {}
  BY <1>1, ReplayPendingLasts
<1>3. ~IsAnimationEligible(v) => ReplayPendingProperties(v) = v
  BY DEF ReplayPendingProperties
<1> QED
  BY <1>2, <1>3 DEF Synchronize, v

\* A control that a frame draws shows what is stored, and a box is where it was
\* published, for any grid, any boxes and values and whatever came before the frame:
\* events while the widget was hidden, under an overlay, in a group that was not
\* shown or not made yet, a range before or after its value, records of an editor,
\* rebuilds, presses and drags (widget_base.cpp, slider_control.cpp, toggle_control.cpp,
\* button_control.cpp).
THEOREM FramesShowWhatIsConfiguredHolds == WidgetsSpec => FramesShowWhatIsConfigured
<1>1. ASSUME FramedInv, Refresh, IsAnimationEligible(w'), contact.at # "control"
      PROVE  Shows(w') /\ HoldsTheBox(w')
  <2>1. /\ FramedInv' /\ record' = record /\ contact' = contact
    <3>1. [Next]_vars
      BY <1>1 DEF Next
    <3> QED
      BY <1>1, <3>1, FramedStep DEF Refresh, Stays
  <2>2. /\ Whole(w') /\ Drawn(w') /\ RecordHeld(w', record') /\ ValueDrawn(w') /\ ~w'.pressed
    BY <1>1, <2>1 DEF FramedInv, Framed, ContactDrawn, ControlsInv, Controlled
  <2>3. w'.pending = {}
    <3> DEFINE v == Synchronize(w)
    <3>1. Whole(v) /\ Whole(w)
      BY <1>1, SynchronizeLasts DEF FramedInv, ControlsInv, Controlled, Lasts
    <3>2. IsAnimationEligible(v) => v.pending = {}
      BY <3>1, SynchronizeTakes
    <3>3. w' = [v EXCEPT !.asked = NotAsked]
      BY <1>1 DEF Refresh, Becomes
    <3> HIDE DEF v
    <3>4. IsAnimationEligible(v) /\ w'.pending = v.pending
      BY <1>1, <3>1, <3>3 DEF IsAnimationEligible, IsProcessingEligible, Whole, Sound, WidgetFields
    <3> QED
      BY <3>2, <3>4
  <2>4. IsRendered(w')
    BY <1>1, <2>2 DEF IsAnimationEligible, Whole, Sound, NumbersHeld
  <2>5. Shows(w')
    <3>1. ASSUME NEW type \in Types(w'.kind) \ (Driven(w') \cup LayoutTypes), type # "TARGET"
          PROVE  w'.store[type] = Recorded(record', type)
      <4>1. type = "IS_ACTIVE"
        BY <3>1 DEF Types, Driven, LayoutTypes
      <4> QED
        BY <2>2, <4>1 DEF RecordHeld
    <3>2. w'.hidden = ~w'.store.IS_VISIBLE
      BY <2>2 DEF Drawn, HiddenTaken
    <3>3. w'.kind = "slider" =>
            /\ w'.max = w'.store.MAX_VALUE
            /\ w'.native = Smaller(w'.store.VALUE, Larger(w'.max, 1))
      BY <2>2, <2>3, <2>4 DEF Whole, RangeTaken, ValueDrawn, Drawn, StepTaken
    <3>4. w'.kind \in {"toggle", "button"} => w'.native = w'.store.VALUE
      BY <2>2, <2>3, <2>4 DEF Whole, ValueTaken, ValueDrawn
    <3>5. w'.kind = "button" /\ w'.store.TARGET # NoTarget => w'.target_id = w'.store.TARGET
      BY <2>2, <2>3 DEF Drawn, TargetTaken
    <3> QED
      BY <3>1, <3>2, <3>3, <3>4, <3>5 DEF Shows
  <2>6. HoldsTheBox(w')
    <3>1. CASE w'.kind = "box"
      <4>1. w'.px = BoxPx(w'.grid, HeldBox(w')) /\ w'.box = record'.BOX /\ BoxSound(w')
        BY <2>2, <2>3, <3>1 DEF Drawn, BoxTaken, RecordHeld
      <4>2. BoxIsHeld(w')
        BY <3>1, <4>1, TakenBoxIsHeld
      <4> QED
        BY <2>2, <3>1, <4>2 DEF HoldsTheBox, RecordHeld
    <3> QED
      BY <3>1 DEF HoldsTheBox
  <2> QED
    BY <2>5, <2>6
<1>2. FramedInv /\ [WidgetsNext]_allVars
        => [Refresh /\ IsAnimationEligible(w') /\ contact.at # "control" => Shows(w') /\ HoldsTheBox(w')]_vars
  BY <1>1 DEF allVars
<1> QED
  BY <1>2, FramedInvariant, PTL DEF WidgetsSpec, FramesShowWhatIsConfigured

=============================================================================
