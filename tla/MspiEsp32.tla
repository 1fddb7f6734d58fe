------------------------------ MODULE MspiEsp32 ------------------------------
(***************************************************************************)
(* The SPI controller that the CO5300 panel hangs on: a transfer from the  *)
(* call of transceive() to its return, with the DMA channel, the interrupt *)
(* that ends a transaction, and the time after which it is given up.       *)
(*                                                                         *)
(* A peripheral may be stuck, and may end a transaction at any moment      *)
(* after that.  One device is on the bus, its chip select a GPIO, and it   *)
(* is only written to.  The interrupt handler runs between any two steps   *)
(* of the caller, as a whole: one core is used.                            *)
(***************************************************************************)
EXTENDS Integers

CONSTANTS
    Users,                          \* the threads that call the driver
    Nobody,
    SINGLE, QUAD_1_1_4,             \* the io modes that are asked for
    NoCommand,                      \* a packet with neither command nor address
    HardwareFaults                  \* subset of {"stuck", "cs_fails", "dma_fails", "init_fails"}

ASSUME NobodyAssumption == Nobody \notin Users

VARIABLES
    \* mspi_esp32_data.
    mspi_lock,
    io_mode,
    line_mode,              \* trans_config.line_mode
    dev_hw_dirty,
    cs_active,
    tx_dma_configured,
    xfer_sem,
    \* The peripheral.
    int_enabled,
    int_stat,
    dma_busy,
    \* What it clocks out, or whose it has ended: "running" and "done" are the
    \* caller's own, "stale" is one a caller no longer waits for, "mixed" a stale one
    \* that the next was started over, and "mixed_done" its end.
    transaction,
    late_end,               \* auxiliary: one ended since the status was last cleared, before the next was started
    \* The callers: where each is in transceive(), with its locals.
    at,
    xfer,
    ret,
    wire                    \* auxiliary: how the last packet was clocked out

driverVars == <<io_mode, line_mode, dev_hw_dirty, cs_active, tx_dma_configured>>
interruptVars == <<xfer_sem, int_enabled, int_stat>>
hardwareVars == <<dma_busy, transaction, late_end>>
mspiVars == <<mspi_lock, driverVars, interruptVars, hardwareVars, at, xfer, ret, wire>>

Goes(u, place) == at' = [at EXCEPT ![u] = place]
Fails(u, place) == Goes(u, place) /\ ret' = [ret EXCEPT ![u] = "error"]

\* Of the modes that the panel asks for.
GetSpiLineMode(mode) ==
    [cmd_lines |-> 1, addr_lines |-> 1, data_lines |-> IF mode = QUAD_1_1_4 THEN 4 ELSE 1]

MspiInit ==
    /\ mspi_lock = Nobody
    /\ io_mode = SINGLE
    /\ line_mode = [cmd_lines |-> 0, addr_lines |-> 0, data_lines |-> 0]
    /\ dev_hw_dirty = FALSE
    /\ cs_active = FALSE
    /\ tx_dma_configured = FALSE
    /\ xfer_sem = 0
    /\ int_enabled = FALSE
    /\ int_stat = FALSE
    /\ dma_busy = FALSE
    /\ transaction = "idle"
    /\ late_end = FALSE

\* init_dma(): the next transfer configures the channel anew.
InitDma == tx_dma_configured' = FALSE

\* mspi_esp32_config(): pins, clock, DMA and chip select.
MspiConfig ==
    /\ dev_hw_dirty' = TRUE
    /\ InitDma

\* mspi_esp32_init() also has the bounce buffer and the interrupt, which stays
\* disabled until a transfer.
MspiEsp32Init ==
    /\ MspiConfig
    /\ xfer_sem' = 0
    /\ int_enabled' = FALSE
    /\ int_stat' = FALSE

\* dev_config() with everything the panel gives: the registers are programmed by
\* the first transfer, and nothing is selected.
DevConfigAll(mode) ==
    /\ io_mode' = mode
    /\ dev_hw_dirty' = TRUE
    /\ cs_active' = FALSE

\* The io mode alone: nothing is reprogrammed for it.
DevConfigIoMode(mode) ==
    /\ io_mode' = mode
    /\ UNCHANGED <<line_mode, dev_hw_dirty, cs_active, tx_dma_configured>>

\* transceive() has the bus; update_transfer_config() takes the lines of the
\* io mode, and programs the registers when they are dirty.
BeginsTransceive(u) ==
    /\ at[u] = "lock"
    /\ mspi_lock = Nobody
    /\ mspi_lock' = u
    /\ line_mode' = GetSpiLineMode(io_mode)
    /\ dev_hw_dirty' = FALSE
    /\ Goes(u, "select")
    /\ UNCHANGED <<io_mode, cs_active, tx_dma_configured, interruptVars, hardwareVars,
                   xfer, ret, wire>>

\* cs_gpio_set(): the pin of the chip's select line.
CsFails == "cs_fails" \in HardwareFaults

\* The chip is selected already when the transfer before held it; the packet
\* then does not begin a selection.
AssertsCs(u) ==
    /\ at[u] = "select"
    /\ \/ /\ cs_active' = TRUE
          /\ xfer' = [xfer EXCEPT ![u].begins = ~cs_active]
          /\ Goes(u, "prepare")
          /\ UNCHANGED ret
       \/ /\ ~cs_active
          /\ CsFails
          /\ Fails(u, "unlock")
          /\ UNCHANGED <<cs_active, xfer>>
    /\ UNCHANGED <<mspi_lock, io_mode, line_mode, dev_hw_dirty, tx_dma_configured,
                   interruptVars, hardwareVars, wire>>

-----------------------------------------------------------------------------
\* transfer(): the packet, which no caller makes longer than the DMA's buffer.

\* transfer_prepare_data(): the packet's own buffer or the bounce buffer.
HasData(u) == xfer[u].bytes > 0

\* A packet with no data has nothing for the DMA channel to do.
PreparesNoData(u) ==
    /\ at[u] = "prepare"
    /\ ~HasData(u)
    /\ Goes(u, "reset")
    /\ UNCHANGED <<mspi_lock, driverVars, interruptVars, hardwareVars, xfer, ret, wire>>

\* mspi_gdma_config() refuses a channel that is still busy, with a transaction
\* that was given up; configuring, reloading and starting it may fail.
GdmaFails == dma_busy \/ "dma_fails" \in HardwareFaults

ConfiguresDma(u) ==
    /\ at[u] = "prepare"
    /\ HasData(u)
    /\ \/ /\ ~dma_busy
          /\ dma_busy' = TRUE
          /\ tx_dma_configured' = TRUE
          /\ Goes(u, "reset")
          /\ UNCHANGED ret
       \/ /\ GdmaFails
          /\ Fails(u, "release")
          /\ UNCHANGED <<dma_busy, tx_dma_configured>>
    /\ UNCHANGED <<mspi_lock, io_mode, line_mode, dev_hw_dirty, cs_active, interruptVars,
                   transaction, late_end, xfer, wire>>

\* What the peripheral makes of a start: one it still clocks out is dropped, or
\* goes on.
Started ==
    IF transaction \in {"stale", "mixed"} THEN {"running", "mixed"} ELSE {"running"}

\* A mistake it could have, which nothing uses: what a late interrupt gave stays.
FaultyResetSem == xfer_sem

ResetSem == 0

\* transfer_start_and_wait(), step by step up to the wait: a transaction that was
\* given up may end between any two of them.
ResetsSem(u) ==
    /\ at[u] = "reset"
    /\ xfer_sem' = ResetSem
    /\ Goes(u, "clear")
    /\ UNCHANGED <<mspi_lock, driverVars, int_enabled, int_stat, hardwareVars, xfer, ret, wire>>

ClearsIntStat(u) ==
    /\ at[u] = "clear"
    /\ int_stat' = FALSE
    /\ late_end' = FALSE
    /\ Goes(u, "enable")
    /\ UNCHANGED <<mspi_lock, driverVars, xfer_sem, int_enabled, dma_busy, transaction, xfer, ret, wire>>

EnablesInt(u) ==
    /\ at[u] = "enable"
    /\ int_enabled' = TRUE
    /\ Goes(u, "start")
    /\ UNCHANGED <<mspi_lock, driverVars, xfer_sem, int_stat, hardwareVars, xfer, ret, wire>>

StartsTransaction(u) ==
    /\ at[u] = "start"
    /\ transaction' \in Started
    /\ wire' = [lines |-> line_mode, io_mode |-> xfer[u].io_mode,
                has_command |-> xfer[u].cmd # NoCommand, begins |-> xfer[u].begins]
    /\ Goes(u, "wait")
    /\ UNCHANGED <<mspi_lock, driverVars, interruptVars, dma_busy, late_end, xfer, ret>>

\* Nobody waits for what is still clocked out.
Left == IF transaction \in {"running", "mixed"} THEN "stale" ELSE transaction

\* The semaphore was given: transfer_post_gdma() stops the channel.
Waited(u) ==
    /\ at[u] = "wait"
    /\ xfer_sem = 1
    /\ xfer_sem' = 0
    /\ dma_busy' = (dma_busy /\ ~HasData(u))
    /\ transaction' = Left
    /\ Goes(u, "release")
    /\ UNCHANGED <<mspi_lock, driverVars, int_enabled, int_stat, late_end, xfer, ret, wire>>

\* The time is up, and the interrupt may come before it is disabled.
Expires(u) ==
    /\ at[u] = "wait"
    /\ xfer_sem = 0
    /\ "stuck" \in HardwareFaults
    /\ Fails(u, "expired")
    /\ UNCHANGED <<mspi_lock, driverVars, interruptVars, hardwareVars, xfer, wire>>

\* The DMA channel is left as it is.
GivesUp(u) ==
    /\ at[u] = "expired"
    /\ int_enabled' = FALSE
    /\ int_stat' = FALSE
    /\ transaction' = Left
    /\ Goes(u, "release")
    /\ UNCHANGED <<mspi_lock, driverVars, xfer_sem, dma_busy, late_end, xfer, ret, wire>>

-----------------------------------------------------------------------------
\* The status is cleared, and the next transaction is not started.
IsStarting == \E u \in Users : at[u] \in {"enable", "start"}

\* A transaction ends, in time or long after it was given up.
PeripheralEnds ==
    /\ transaction \in {"running", "stale", "mixed"}
    /\ transaction' = CASE transaction = "running" -> "done"
                        [] transaction = "stale" -> "idle"
                        [] OTHER -> "mixed_done"
    /\ dma_busy' = FALSE
    /\ int_stat' = TRUE
    /\ late_end' = (late_end \/ IsStarting)
    /\ UNCHANGED <<mspi_lock, driverVars, xfer_sem, int_enabled, at, xfer, ret, wire>>

\* mspi_esp32_isr().
Isr ==
    /\ int_enabled
    /\ int_stat
    /\ int_enabled' = FALSE
    /\ int_stat' = FALSE
    /\ xfer_sem' = 1
    /\ UNCHANGED <<mspi_lock, driverVars, hardwareVars, at, xfer, ret, wire>>

-----------------------------------------------------------------------------
\* A mistake it could have, which nothing uses: an error in the middle of a held
\* selection leaves the chip selected.
FaultyHoldsCs(u) == xfer[u].hold_ce

\* The chip stays selected for the next packet, unless this one failed.
HoldsCs(u) == xfer[u].hold_ce /\ ret[u] = "ok"

\* The end of transceive(): a line that cannot be released counts as released,
\* and the call fails.
ReleasesCs(u) ==
    /\ at[u] = "release"
    /\ cs_active' = HoldsCs(u)
    /\ \/ Goes(u, "unlock") /\ UNCHANGED ret
       \/ ~HoldsCs(u) /\ CsFails /\ Fails(u, "unlock")
    /\ UNCHANGED <<mspi_lock, io_mode, line_mode, dev_hw_dirty, tx_dma_configured,
                   interruptVars, hardwareVars, xfer, wire>>

EndsTransceive(u) ==
    /\ at[u] = "unlock"
    /\ mspi_lock' = Nobody
    /\ Goes(u, "returned")
    /\ UNCHANGED <<driverVars, interruptVars, hardwareVars, xfer, ret, wire>>

\* transfer() gives up a packet at the first of its steps that fails.
Transfers(u) ==
    \/ PreparesNoData(u) \/ ConfiguresDma(u)
    \/ ResetsSem(u) \/ ClearsIntStat(u) \/ EnablesInt(u) \/ StartsTransaction(u)
    \/ Waited(u) \/ Expires(u) \/ GivesUp(u)

Transceive(u) ==
    \/ BeginsTransceive(u)
    \/ AssertsCs(u)
    \/ Transfers(u)
    \/ ReleasesCs(u)
    \/ EndsTransceive(u)

=============================================================================
