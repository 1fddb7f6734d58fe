------------------------------- MODULE Panels -------------------------------
(***************************************************************************)
(* The two ways pixels reach a panel, by the board the firmware is built   *)
(* for: "amoled" flushes to the CO5300 from LVGL's flush thread, "lcd"     *)
(* turns the screen into the frame its bridge scans out.                   *)
(***************************************************************************)
EXTENDS PanelCo5300, UiRendererService

CONSTANT Boards             \* subset of {"amoled", "lcd"}

VARIABLE board

Init ==
    /\ board \in Boards
    /\ PanelInit
    /\ RendererInit

Amoled == board = "amoled" /\ PanelNext /\ UNCHANGED <<rendererVars, board>>

Lcd == board = "lcd" /\ RendererNext /\ UNCHANGED <<vars, board>>

Next == Amoled \/ Lcd

allVars == <<vars, rendererVars, board>>

Spec == Init /\ [][Next]_allVars

\* Threads go on, and an interrupt that is due is served; the peripheral owes
\* nothing, but a wait is given up in time.  A mutex is handed to a thread that
\* waits for it.
Fairness ==
    \A u \in Users :
        /\ WF_allVars(board = "amoled" /\ PanelStep(u) /\ UNCHANGED <<rendererVars, board>>)
        /\ SF_allVars(board = "amoled" /\ LocksPanel(u) /\ UNCHANGED <<rendererVars, board>>)

FairSpec == Spec /\ Fairness

-----------------------------------------------------------------------------
\* A packet is clocked out on the lines its own caller asked for, although the io
\* mode is set in one call of the bus and read in the next.
LinesAreAsked == wire.lines = GetSpiLineMode(wire.io_mode)

\* A packet that counts as sent was clocked out to its end, whatever transactions
\* were given up before it and whenever their interrupts come: what they left in the
\* semaphore and the status does not end its wait.  One exception is the code's: a
\* transaction that ends between the two calls that clear the status and start the
\* next one (mspi_esp32.c:617-620) is taken for it.
DoneIsOwn ==
    \A u \in Users :
        at[u] = "release" /\ ret[u] = "ok" /\ ~late_end => transaction \in {"done", "mixed_done"}

IsTransferring(u) ==
    at[u] \in {"prepare", "reset", "clear", "enable", "start", "wait", "expired", "release"}

\* Pixels of this thread's area are still to come after those it sent.
IsAmidPixels(u) == op[u] # NoOp /\ sent[u] > 3

\* The chip is left selected only between the chunks of an area: an area that
\* was sent, or given up at any of its packets, leaves the panel to others.
LeftUnselected ==
    cs_active => \E u \in Users :
        IsTransferring(u) \/ IsAmidPixels(u) \/ at[u] \in {"unlock", "returned"}

\* A call of the panel returns, however stuck the peripheral and whatever fails,
\* and both locks with it.
EveryCallReturns == \A u \in Users : board = "amoled" /\ op[u] # NoOp ~> op[u] = NoOp

\* What display_service.h:34 and display_service.cpp:318 take for granted, that
\* LVGL's flush is kept apart from the service's calls: a command is the first
\* packet of a selection, and pixels without one go on where the area's own were.
CommandBeginsSelection == wire.begins = wire.has_command

=============================================================================
