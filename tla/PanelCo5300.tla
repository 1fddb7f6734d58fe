----------------------------- MODULE PanelCo5300 -----------------------------
(***************************************************************************)
(* The driver of the CO5300 panel: each of its calls is a sequence of      *)
(* packets, sent one by one under the panel's lock and given up at the     *)
(* first that fails.  Its own lock covers one packet, never a whole call.  *)
(*                                                                         *)
(* Two threads call it: "flush", the one LVGL hands the areas it drew to,  *)
(* and "service", which is whoever holds the LVGL lock.                    *)
(***************************************************************************)
EXTENDS MspiEsp32, Sequences

CONSTANTS
    max_buf_size,
    BytesPerPixel,
    panel_x, panel_y,       \* the width and height of the device tree
    orientation,
    Writes,                 \* the areas that are flushed
    NoOp

ASSUME ChunkAssumption == max_buf_size \in Nat \ {0} /\ BytesPerPixel \in 1 .. 3
ASSUME WritesAssumption ==
    \A area \in Writes : {area.x, area.y, area.width, area.height} \subseteq Nat

VARIABLES
    stage,      \* of the device: "power", "boot", "ready" or "failed"
    lock,       \* co5300_data.lock
    op,         \* the call each thread is in
    sent        \* how many of its packets have been sent

vars == <<mspiVars, stage, lock, op, sent>>

-----------------------------------------------------------------------------
\* The packets of each call.

Packet(mode, cmd, bytes, hold_ce) ==
    [io_mode |-> mode, cmd |-> cmd, bytes |-> bytes, hold_ce |-> hold_ce, begins |-> FALSE]

Command(cmd, bytes) == Packet(SINGLE, cmd, bytes, FALSE)

BlankingOff == <<Command("SLPOUT", 0), Command("DISPON", 0)>>
BlankingOn == <<Command("DISPOFF", 0), Command("SLPIN", 0)>>
SetBrightness == <<Command("WDBRIGHTNESSVALNOR", 1)>>
SetPixelFormat == <<Command("PIXFMT", 1)>>
SetOrientation == <<Command("MADCTL", 1)>>
SetWindow == <<Command("CASET", 4), Command("PASET", 4)>>

ConfigureDisplay ==
    <<Command("SLPOUT", 0), Command("TEARON", 0), Command("SPIMODECTL", 1)>>
        \o SetPixelFormat
        \o <<Command("WCTRLD1", 1), Command("WDBRIGHTNESSVALHBM", 1), Command("DISPON", 0)>>
        \o SetBrightness \o SetOrientation

IsLastSend(remaining) == remaining <= max_buf_size

\* The pixels, the chip held selected until the last of them.  Only the first
\* chunk has a command; the rest go on from it.
Chunks(total_len) ==
    LET Count == (total_len + max_buf_size - 1) \div max_buf_size
        Remaining(i) == total_len - (i - 1) * max_buf_size
        Size(i) == IF IsLastSend(Remaining(i)) THEN Remaining(i) ELSE max_buf_size
    IN  [i \in 1 .. Count |->
            Packet(QUAD_1_1_4, IF i = 1 THEN "QUAD_1_1_4" ELSE NoCommand, Size(i),
                   ~IsLastSend(Remaining(i)))]

\* co5300_get_capabilities().
Resolution ==
    IF orientation \in {"NORMAL", "ROTATED_180"} THEN [x |-> panel_x, y |-> panel_y]
    ELSE [x |-> panel_y, y |-> panel_x]

\* An area that is refused sends nothing.
Write(area) ==
    IF \/ area.width = 0 \/ area.height = 0
       \/ area.x > Resolution.x \/ area.y > Resolution.y
    THEN <<>>
    ELSE SetWindow \o <<Command("RAMWR", 0)>>
            \o Chunks(area.height * area.width * BytesPerPixel)

\* What each thread calls: LVGL flushes areas; the display service blanks and
\* dims the panel.
CallsOf(u) ==
    IF u = "flush" THEN {Write(area) : area \in Writes}
    ELSE {BlankingOff, BlankingOn, SetBrightness}

\* No call is mistaken for none.
ASSUME NoOpAssumption == NoOp \notin {ConfigureDisplay} \cup UNION {CallsOf(u) : u \in Users}

-----------------------------------------------------------------------------
NothingSent == [lines |-> GetSpiLineMode(SINGLE), io_mode |-> SINGLE, has_command |-> TRUE, begins |-> TRUE]
NoPacket == Command(NoCommand, 0)

PanelInit ==
    /\ MspiInit
    /\ stage = "power"
    /\ lock = Nobody
    /\ op = [u \in Users |-> NoOp]
    /\ sent = [u \in Users |-> 0]
    /\ at = [u \in Users |-> "idle"]
    /\ xfer = [u \in Users |-> NoPacket]
    /\ ret = [u \in Users |-> "ok"]
    /\ wire = NothingSent

\* The kernel initializes the bus and then the panel, on the thread that will be
\* the service's.  A panel whose bus, pins or reset fail is never ready.
Co5300Init ==
    /\ stage = "power"
    /\ \/ /\ MspiEsp32Init
          /\ DevConfigAll(SINGLE)
          /\ stage' = "boot"
          /\ op' = [op EXCEPT !["service"] = ConfigureDisplay]
          /\ Goes("service", "ready")
       \/ /\ "init_fails" \in HardwareFaults
          /\ stage' = "failed"
          /\ UNCHANGED <<io_mode, dev_hw_dirty, cs_active, tx_dma_configured, interruptVars, op, at>>
    /\ UNCHANGED <<mspi_lock, line_mode, hardwareVars, xfer, ret, wire, lock, sent>>

Calls(u) ==
    /\ stage = "ready"
    /\ op[u] = NoOp
    /\ \E packets \in CallsOf(u) \ {<<>>} :
        /\ op' = [op EXCEPT ![u] = packets]
        /\ sent' = [sent EXCEPT ![u] = 0]
        /\ Goes(u, "ready")
    /\ UNCHANGED <<mspi_lock, driverVars, interruptVars, hardwareVars, xfer, ret, wire,
                   stage, lock>>

\* A mistake it could have, which nothing uses: a packet is sent without the lock.
FaultyMayTransmit == TRUE

MayTransmit == lock = Nobody

\* co5300_transmit() takes the lock for one packet.
LocksPanel(u) ==
    /\ at[u] = "ready"
    /\ MayTransmit
    /\ lock' = u
    /\ Goes(u, "configured")
    /\ UNCHANGED <<mspi_lock, driverVars, interruptVars, hardwareVars, xfer, ret, wire,
                   stage, op, sent>>

\* The bus learns the io mode outside its own lock, and the packet is handed to it.
Configures(u) ==
    /\ at[u] = "configured"
    /\ LET packet == op[u][sent[u] + 1] IN
        /\ DevConfigIoMode(packet.io_mode)
        /\ xfer' = [xfer EXCEPT ![u] = packet]
    /\ ret' = [ret EXCEPT ![u] = "ok"]
    /\ Goes(u, "lock")
    /\ UNCHANGED <<mspi_lock, interruptVars, hardwareVars, wire, stage, lock, op, sent>>

\* A mistake it could have, which nothing uses: a packet that failed keeps the lock.
FaultyUnlocked(u) == IF ret[u] = "ok" THEN Nobody ELSE u

Unlocked(u) == Nobody

\* A call ends with its last packet, or with the first that fails.
Transmitted(u) ==
    /\ at[u] = "returned"
    /\ lock' = Unlocked(u)
    /\ LET Ends == ret[u] # "ok" \/ sent[u] + 1 = Len(op[u]) IN
        /\ op' = [op EXCEPT ![u] = IF Ends THEN NoOp ELSE @]
        /\ sent' = [sent EXCEPT ![u] = IF Ends THEN 0 ELSE @ + 1]
        /\ Goes(u, IF Ends THEN "idle" ELSE "ready")
        /\ stage' = IF stage = "boot" /\ Ends
                    THEN IF ret[u] = "ok" THEN "ready" ELSE "failed"
                    ELSE stage
    /\ xfer' = [xfer EXCEPT ![u] = NoPacket]
    /\ ret' = [ret EXCEPT ![u] = "ok"]
    /\ UNCHANGED <<mspi_lock, driverVars, interruptVars, hardwareVars, wire>>

PanelStep(u) ==
    \/ LocksPanel(u)
    \/ Configures(u)
    \/ Transceive(u) /\ UNCHANGED <<stage, lock, op, sent>>
    \/ Transmitted(u)

Peripheral == (PeripheralEnds \/ Isr) /\ UNCHANGED <<stage, lock, op, sent>>

PanelNext ==
    \/ Co5300Init
    \/ \E u \in Users : Calls(u) \/ PanelStep(u)
    \/ Peripheral

=============================================================================
