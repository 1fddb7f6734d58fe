-------------------------- MODULE MCDisplayService --------------------------
(***************************************************************************)
(* Instances of DisplayService for TLC.  A level stands for a range of     *)
(* brightnesses: 1 is BRIGHTNESS_MIN and 3 is BRIGHTNESS_MAX.              *)
(***************************************************************************)
EXTENDS DisplayService

CONSTANT ambient

\* A request below the floor, and one in range.
Asked == {-1, 2}

\* A level that is asked for too, and one above the ceiling, which is not.
SensedHigh == {2, 4}

StoredByClients ==
    {[brightness |-> 1, blanking |-> FALSE, sensor |-> NoSensor],
     [brightness |-> 2, blanking |-> FALSE, sensor |-> ambient]}

=============================================================================
