-------------------------------- MODULE Widgets --------------------------------
(***************************************************************************)
(* The two kinds of widget that hold state of their own from one call to   *)
(* the next, each in a scene of its own: a control under a finger, and a   *)
(* dial that eases its needle.                                             *)
(***************************************************************************)
EXTENDS Controls

CONSTANTS
    NoAngle, NotEasing, Configurations,     \* of DialIndicator
    NoTree                                  \* there is no dial

ASSUME MarksAssumption == NoAngle \notin Int /\ NotEasing \notin Int

\* A dial whose needle turns by itself is refused (DialIndicator::ValidateChildren).
ASSUME NeedlesAssumption == \A c \in Configurations : c.animation.needle # "rotation"

VARIABLE tree

Dial == INSTANCE DialIndicator

allVars == <<vars, tree>>

\* A toggle that nobody touches, where the scene is a dial's.
Untouched ==
    /\ DriverInit
    /\ record = [IS_ACTIVE |-> Absent, TARGET |-> Absent, BOX |-> NoBox]
    /\ w = Assemble(Constructed("toggle", TRUE, {}, NoGrid, TRUE), record)
    /\ pointer = Lifted
    /\ contact = NoContact
    /\ is_cooling = FALSE

WidgetsInit ==
    \/ Init /\ tree = NoTree
    \/ Untouched /\ Dial!Init

ControlScene == tree = NoTree /\ Next /\ UNCHANGED tree

DialScene == tree # NoTree /\ Dial!Next /\ UNCHANGED vars

WidgetsNext == ControlScene \/ DialScene

WidgetsSpec == WidgetsInit /\ [][WidgetsNext]_allVars

-----------------------------------------------------------------------------
\* What does not move is as it was drawn: see DialIndicator, view_animator.cpp.
StillIsAtRest == tree # NoTree => Dial!StillIsAtRest

\* A needle that a frame draws points where the value is: see DialIndicator,
\* indicator_base.cpp.
FramesShowTheValue == [][tree # NoTree => Dial!FrameShowsTheValue]_tree

\* What moves is what is there to be seen: see DialIndicator, widget_base.cpp.
MovesWhenSeen == [][tree # NoTree => Dial!FrameMovesWhatIsSeen]_tree

=============================================================================
