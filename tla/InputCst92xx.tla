----------------------------- MODULE InputCst92xx -----------------------------
(***************************************************************************)
(* The driver of the touch panel: what it makes of the contacts in a frame *)
(* for the one pointer that LVGL knows.                                    *)
(*                                                                         *)
(* A finger is the id the panel gives it.  A frame is of the fingers that  *)
(* touch when it is read, and any may follow any: interrupts are missed,   *)
(* and a read that fails changes nothing.                                  *)
(***************************************************************************)
EXTENDS Integers, Sequences, FiniteSets

CONSTANTS
    Fingers, NoFinger,
    MaxReports      \* bound: reports that wait for LVGL

ASSUME MaxReportsAssumption == MaxReports \in Nat \ {0}

VARIABLES
    pressed, tracked_id,
    reports         \* what LVGL has yet to read

driverVars == <<pressed, tracked_id, reports>>

DriverInit ==
    /\ pressed = FALSE
    /\ tracked_id = NoFinger
    /\ reports = <<>>

\* A report that the pointer is up says nothing of a finger.
Lifted == [is_pressed |-> FALSE, id |-> NoFinger]

\* A mistake it could have, which nothing uses: the finger that is left when
\* another lifts is followed.
FaultyIsFollowed(id) == TRUE

\* The contact is the one that is followed, or the first.
IsFollowed(id) == ~pressed \/ id = tracked_id

\* Only a lone contact is followed; any other frame lifts the pointer.
Process(touching) ==
    LET followed == {id \in touching : touching = {id} /\ IsFollowed(id)}
    IN  /\ Len(reports) < MaxReports
        /\ \/ \E id \in followed :
                /\ pressed' = TRUE
                /\ tracked_id' = id
                /\ reports' = Append(reports, [is_pressed |-> TRUE, id |-> id])
           \/ /\ followed = {}
              /\ pressed
              /\ pressed' = FALSE
              /\ reports' = Append(reports, Lifted)
              /\ UNCHANGED tracked_id

=============================================================================
