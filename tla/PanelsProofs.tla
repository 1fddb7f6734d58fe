---------------------------- MODULE PanelsProofs ----------------------------
(***************************************************************************)
(* Proofs about Panels: the panel's packets, for any callers and areas,    *)
(* and the rotated frame, for any panel, tile and areas.                   *)
(***************************************************************************)
EXTENDS Panels, SequenceTheorems, TLAPS

-----------------------------------------------------------------------------
\* The packets of a call.

IsPacket(p) ==
    /\ p = [io_mode |-> p.io_mode, cmd |-> p.cmd, bytes |-> p.bytes,
            hold_ce |-> p.hold_ce, begins |-> p.begins]
    /\ p.hold_ce \in BOOLEAN

\* Only pixels hold the chip, and never the last of them.
IsCall(packets) ==
    /\ Len(packets) \in Nat
    /\ \A i \in 1 .. Len(packets) :
        /\ IsPacket(packets[i])
        /\ packets[i].hold_ce => i > 3 /\ i < Len(packets)

-----------------------------------------------------------------------------
\* The inductive invariant, by what it is about.

\* From the panel's lock to its release, and from the packet's hand-over.
HasPanel == {"configured", "lock", "select", "prepare", "reset", "clear", "enable", "start", "wait",
             "expired", "release", "unlock", "returned"}
HasPacket == HasPanel \ {"configured"}

PanelTyped ==
    /\ at \in [Users -> HasPanel \cup {"idle", "ready"}]
    /\ ret \in [Users -> {"ok", "error"}]
    /\ DOMAIN op = Users
    /\ sent \in [Users -> Nat]
    /\ DOMAIN xfer = Users
    /\ cs_active \in BOOLEAN
    /\ int_enabled \in BOOLEAN
    /\ int_stat \in BOOLEAN
    /\ xfer_sem \in {0, 1}
    /\ late_end \in BOOLEAN

\* One caller at a time is past the panel's lock.
LockIsHeld == \A u \in Users : at[u] \in HasPanel <=> lock = u

\* A caller has packets to send as long as its call lasts.
CallsInPlace ==
    /\ stage = "power" => \A u \in Users : at[u] = "idle"
    /\ \A u \in Users :
        /\ at[u] = "idle" <=> op[u] = NoOp
        /\ at[u] = "idle" => sent[u] = 0
        /\ at[u] # "idle" => IsCall(op[u]) /\ sent[u] < Len(op[u])

\* The packet that is handed to the bus is the one to send next.
PacketInHand ==
    \A u \in Users : at[u] \in HasPacket =>
        /\ IsPacket(xfer[u])
        /\ xfer[u].hold_ce = op[u][sent[u] + 1].hold_ce

\* The io mode, then the lines, are the packet's until it is clocked out.
LinesOfPacket ==
    \A u \in Users :
        /\ at[u] = "lock" => io_mode = xfer[u].io_mode
        /\ at[u] \in {"select", "prepare", "reset", "clear", "enable", "start"} =>
            line_mode = GetSpiLineMode(xfer[u].io_mode)

\* The interrupt is enabled for one caller at a time, until it waits no more, and
\* no more once it came.
InterruptIsAwaited ==
    int_enabled => xfer_sem = 0 /\ \E u \in Users : at[u] \in {"start", "wait", "expired"}

\* Nothing has failed up to the wait; the semaphore, then the status, are clear of what
\* came before, and no wait ends for another's interrupt but a late one's.
EndIsOwn ==
    \A u \in Users :
        /\ at[u] \in {"lock", "select", "prepare", "reset", "clear", "enable", "start", "wait"} => ret[u] = "ok"
        /\ at[u] = "expired" => ret[u] = "error"
        /\ at[u] \in {"clear", "enable"} => xfer_sem = 0
        /\ at[u] = "enable" => (int_stat => late_end)
        /\ at[u] = "start" => (int_stat \/ xfer_sem = 1 => late_end)
        /\ at[u] = "wait" =>
            /\ transaction \in {"running", "mixed", "done", "mixed_done"}
            /\ int_stat \/ xfer_sem = 1 => late_end \/ transaction \in {"done", "mixed_done"}

\* A chip left selected by a transfer is held for the next of its packets.
HeldIsWanted ==
    \A u \in Users :
        at[u] \in {"unlock", "returned"} /\ cs_active => ret[u] = "ok" /\ xfer[u].hold_ce

PanelInv ==
    /\ PanelTyped
    /\ LockIsHeld
    /\ CallsInPlace
    /\ PacketInHand
    /\ LinesOfPacket
    /\ InterruptIsAwaited
    /\ EndIsOwn
    /\ HeldIsWanted
    /\ LinesAreAsked
    /\ DoneIsOwn
    /\ LeftUnselected

-----------------------------------------------------------------------------
\* The packets of every call of the driver.

CommandNames ==
    {"SLPIN", "SLPOUT", "DISPOFF", "DISPON", "WDBRIGHTNESSVALNOR", "WDBRIGHTNESSVALHBM", "WCTRLD1",
     "PIXFMT", "MADCTL", "TEARON", "SPIMODECTL", "CASET", "PASET", "RAMWR"}

Commands == {Command(cmd, bytes) : cmd \in CommandNames, bytes \in 0 .. 4}

LEMMA CommandsArePackets == \A p \in Commands : IsPacket(p) /\ ~p.hold_ce
<1> TAKE p \in Commands
<1>1. PICK cmd \in CommandNames, bytes \in 0 .. 4 : p = Command(cmd, bytes)
  BY DEF Commands
<1>2. p = [io_mode |-> SINGLE, cmd |-> cmd, bytes |-> bytes, hold_ce |-> FALSE, begins |-> FALSE]
  BY <1>1 DEF Command, Packet
<1> QED
  BY <1>2 DEF IsPacket

LEMMA CommandsAreCall ==
    ASSUME NEW packets \in Seq(Commands)
    PROVE  IsCall(packets)
BY CommandsArePackets DEF IsCall

\* Every call but the flush of an area is of commands alone.
LEMMA CommandCalls ==
    /\ SetWindow \in Seq(Commands) /\ Len(SetWindow) = 2
    /\ \A packets \in {BlankingOff, BlankingOn, SetBrightness, ConfigureDisplay} :
        packets \in Seq(Commands) /\ Len(packets) > 0
<1>1. \A cmd \in CommandNames :
        {Command(cmd, 0), Command(cmd, 1), Command(cmd, 4)} \subseteq Commands
  BY DEF Commands
<1>2. /\ SetWindow \in Seq(Commands) /\ Len(SetWindow) = 2
      /\ BlankingOff \in Seq(Commands) /\ Len(BlankingOff) = 2
      /\ BlankingOn \in Seq(Commands) /\ Len(BlankingOn) = 2
      /\ SetBrightness \in Seq(Commands) /\ Len(SetBrightness) = 1
      /\ SetPixelFormat \in Seq(Commands) /\ Len(SetPixelFormat) = 1
      /\ SetOrientation \in Seq(Commands) /\ Len(SetOrientation) = 1
  BY <1>1 DEF CommandNames, SetWindow, BlankingOff, BlankingOn, SetBrightness, SetPixelFormat, SetOrientation
<1> DEFINE first == <<Command("SLPOUT", 0), Command("TEARON", 0), Command("SPIMODECTL", 1)>>
           next == <<Command("WCTRLD1", 1), Command("WDBRIGHTNESSVALHBM", 1), Command("DISPON", 0)>>
<1>3. first \in Seq(Commands) /\ next \in Seq(Commands) /\ Len(first) = 3
  BY <1>1 DEF CommandNames
<1>4. ConfigureDisplay = (((first \o SetPixelFormat) \o next) \o SetBrightness) \o SetOrientation
  BY DEF ConfigureDisplay
<1>5. \A s, t \in Seq(Commands) : s \o t \in Seq(Commands) /\ Len(s \o t) = Len(s) + Len(t)
  BY ConcatProperties
<1>6. ConfigureDisplay \in Seq(Commands) /\ Len(ConfigureDisplay) > 0
  <2> HIDE DEF first, next
  <2>1. first \o SetPixelFormat \in Seq(Commands) /\ Len(first \o SetPixelFormat) > 0
    BY <1>2, <1>3, <1>5
  <2>2. /\ (first \o SetPixelFormat) \o next \in Seq(Commands)
        /\ Len((first \o SetPixelFormat) \o next) > 0
    BY <1>3, <1>5, <2>1
  <2>3. /\ ((first \o SetPixelFormat) \o next) \o SetBrightness \in Seq(Commands)
        /\ Len(((first \o SetPixelFormat) \o next) \o SetBrightness) > 0
    BY <1>2, <1>5, <2>2
  <2> QED
    BY <1>2, <1>4, <1>5, <2>3
<1> HIDE DEF first, next
<1>7. \A packets \in {BlankingOff, BlankingOn, SetBrightness} :
        packets \in Seq(Commands) /\ Len(packets) > 0
  <2>1. 2 > 0 /\ 1 > 0
    OBVIOUS
  <2> QED
    BY <1>2, <2>1, Zenon
<1> QED
  BY <1>2, <1>6, <1>7

\* Only the last chunk ends what the buffer holds, and there is one for each i up to Count.
LEMMA ChunksHold ==
    ASSUME NEW total_len \in Nat
    PROVE  /\ Len(Chunks(total_len)) \in Nat
           /\ \A i \in 1 .. Len(Chunks(total_len)) :
                /\ IsPacket(Chunks(total_len)[i])
                /\ Chunks(total_len)[i].hold_ce => i < Len(Chunks(total_len))
<1> DEFINE Count == (total_len + max_buf_size - 1) \div max_buf_size
           Remaining(i) == total_len - (i - 1) * max_buf_size
<1>1. /\ Count \in Nat
      /\ Count * max_buf_size <= total_len + max_buf_size - 1
      /\ total_len + max_buf_size - 1 < (Count + 1) * max_buf_size
  BY ChunkAssumption, Z3
<1>2. Len(Chunks(total_len)) = Count
  BY <1>1 DEF Chunks
<1>3. ASSUME NEW i \in 1 .. Count, Remaining(i) > max_buf_size PROVE i < Count
  <2>1. max_buf_size \in Nat \ {0}
    BY ChunkAssumption
  <2>2. total_len <= Count * max_buf_size
    <3>1. (Count + 1) * max_buf_size = Count * max_buf_size + max_buf_size
      BY <1>1, <2>1
    <3> QED
      BY <1>1, <2>1, <3>1
  <2>3. i * max_buf_size < total_len
    <3>1. (i - 1) * max_buf_size = i * max_buf_size - max_buf_size
      BY <1>1, <2>1
    <3> QED
      BY <1>1, <1>3, <2>1, <3>1
  <2>4. i = Count => i * max_buf_size = Count * max_buf_size
    OBVIOUS
  <2> HIDE DEF Count
  <2> QED
    BY <1>1, <2>1, <2>2, <2>3, <2>4
<1>4. ASSUME NEW i \in 1 .. Count
      PROVE  IsPacket(Chunks(total_len)[i])
             /\ (Chunks(total_len)[i].hold_ce => Remaining(i) > max_buf_size)
  <2> DEFINE command == IF i = 1 THEN "QUAD_1_1_4" ELSE NoCommand
             size == IF IsLastSend(Remaining(i)) THEN Remaining(i) ELSE max_buf_size
             packet == [io_mode |-> QUAD_1_1_4, cmd |-> command, bytes |-> size,
                        hold_ce |-> ~IsLastSend(Remaining(i)), begins |-> FALSE]
  <2>1. Chunks(total_len)[i] = packet
    BY <1>4 DEF Chunks, Packet
  <2>2. IsLastSend(Remaining(i)) \in BOOLEAN
    BY DEF IsLastSend
  <2>3. IsPacket(packet) /\ packet.hold_ce = ~IsLastSend(Remaining(i))
    <3> HIDE DEF command, size
    <3> QED
      BY <2>2 DEF IsPacket
  <2>4. ~IsLastSend(Remaining(i)) => Remaining(i) > max_buf_size
    BY ChunkAssumption DEF IsLastSend
  <2> HIDE DEF packet, Remaining
  <2> QED
    BY <2>1, <2>3, <2>4
<1> QED
  BY <1>1, <1>2, <1>3, <1>4

\* The window, its command and the pixels: no area is too small for the three packets
\* before the first chunk.
LEMMA WriteIsCall ==
    ASSUME NEW area \in Writes
    PROVE  IsCall(Write(area)) /\ (Write(area) # <<>> => Len(Write(area)) > 0)
<1> DEFINE Opening == SetWindow \o <<Command("RAMWR", 0)>>
           total_len == area.height * area.width * BytesPerPixel
           pixels == Chunks(total_len)
           Packets == Commands \cup {pixels[i] : i \in 1 .. Len(pixels)}
           whole == Opening \o pixels
<1>1. total_len \in Nat
  BY WritesAssumption, ChunkAssumption
<1>2. Opening \in Seq(Commands) /\ Len(Opening) = 3
  <2>1. <<Command("RAMWR", 0)>> \in Seq(Commands) /\ Len(<<Command("RAMWR", 0)>>) = 1
    BY DEF Commands, CommandNames
  <2>2. SetWindow \in Seq(Commands) /\ Len(SetWindow) = 2
    BY CommandCalls
  <2> HIDE DEF Opening
  <2>3. Opening \in Seq(Commands) /\ Len(Opening) = Len(SetWindow) + Len(<<Command("RAMWR", 0)>>)
    BY <2>1, <2>2, ConcatProperties DEF Opening
  <2> QED
    BY <2>1, <2>2, <2>3
<1>3. /\ Len(pixels) \in Nat
      /\ \A i \in 1 .. Len(pixels) :
            IsPacket(pixels[i]) /\ (pixels[i].hold_ce => i < Len(pixels))
  BY <1>1, ChunksHold
<1>4. pixels \in Seq(Packets)
  <2>1. pixels = [i \in 1 .. Len(pixels) |-> pixels[i]]
    BY <1>1, ChunkAssumption DEF Chunks
  <2> HIDE DEF pixels
  <2> QED
    BY <1>3, <2>1
<1>5. IsCall(whole) /\ Len(whole) > 0
  <2>1. /\ Len(whole) = 3 + Len(pixels)
        /\ \A i \in 1 .. 3 + Len(pixels) :
            whole[i] = IF i <= 3 THEN Opening[i] ELSE pixels[i - 3]
    <3>1. Opening \in Seq(Packets)
      BY <1>2, SeqMonotonic
    <3> HIDE DEF Opening, pixels, Packets
    <3>2. /\ Len(Opening \o pixels) = Len(Opening) + Len(pixels)
          /\ \A i \in 1 .. Len(Opening) + Len(pixels) :
                (Opening \o pixels)[i] = IF i <= Len(Opening) THEN Opening[i]
                                        ELSE pixels[i - Len(Opening)]
      BY <1>4, <3>1, ConcatProperties
    <3> QED
      BY <1>2, <3>2
  <2>2. \A i \in 1 .. 3 : IsPacket(Opening[i]) /\ ~Opening[i].hold_ce
    <3>1. \A i \in 1 .. 3 : Opening[i] \in Commands
      BY <1>2, ElementOfSeq
    <3> QED
      BY <3>1, CommandsArePackets
  <2> HIDE DEF Opening, pixels, whole
  <2>3. ASSUME NEW i \in 1 .. Len(whole)
        PROVE  IsPacket(whole[i]) /\ (whole[i].hold_ce => i > 3 /\ i < Len(whole))
    <3>1. CASE i <= 3
      BY <1>3, <2>1, <2>2, <3>1
    <3>2. CASE i > 3
      <4>1. i - 3 \in 1 .. Len(pixels) /\ whole[i] = pixels[i - 3]
        BY <1>3, <2>1, <3>2
      <4> QED
        BY <1>3, <2>1, <3>2, <4>1
    <3> QED
      BY <1>3, <2>1, <3>1, <3>2
  <2> QED
    BY <1>3, <2>1, <2>3 DEF IsCall
<1>6. IsCall(<<>>)
  <2>1. <<>> \in Seq(Commands)
    OBVIOUS
  <2> QED
    BY <2>1, CommandsAreCall
<1> QED
  BY <1>5, <1>6 DEF Write

\* Whatever is called, its packets are a call's.
LEMMA CallsAreCalls ==
    ASSUME NEW packets \in {ConfigureDisplay} \cup UNION {CallsOf(u) : u \in Users}
    PROVE  IsCall(packets) /\ packets # NoOp /\ (packets # <<>> => Len(packets) > 0)
BY CommandCalls, CommandsAreCall, WriteIsCall, NoOpAssumption DEF CallsOf

-----------------------------------------------------------------------------
LEMMA PanelInvInit == PanelInit => PanelInv
<1> SUFFICES ASSUME PanelInit PROVE PanelInv
  OBVIOUS
<1>1. \A u \in Users : at[u] = "idle" /\ op[u] = NoOp
  BY DEF PanelInit
<1>2. PanelTyped
  BY DEF PanelInit, MspiInit, PanelTyped
<1>3. LinesAreAsked
  BY DEF PanelInit, LinesAreAsked, NothingSent
<1>4. LockIsHeld /\ CallsInPlace /\ PacketInHand
  BY <1>1, NobodyAssumption DEF PanelInit, LockIsHeld, CallsInPlace, PacketInHand, HasPanel, HasPacket
<1>5. LinesOfPacket /\ EndIsOwn /\ HeldIsWanted /\ DoneIsOwn
  BY <1>1 DEF LinesOfPacket, EndIsOwn, HeldIsWanted, DoneIsOwn
<1>7. InterruptIsAwaited
  BY DEF PanelInit, MspiInit, InterruptIsAwaited
<1>6. LeftUnselected
  BY DEF PanelInit, MspiInit, LeftUnselected
<1> QED
  BY <1>2, <1>3, <1>4, <1>5, <1>6, <1>7 DEF PanelInv

LEMMA PanelInvStep == PanelInv /\ PanelNext => PanelInv'
<1> SUFFICES ASSUME PanelInv, PanelNext PROVE PanelInv'
  OBVIOUS
<1> USE NobodyAssumption DEF PanelInv, PanelTyped, HasPanel, HasPacket, LockIsHeld, CallsInPlace,
       PacketInHand, LinesOfPacket, InterruptIsAwaited, EndIsOwn, HeldIsWanted, LinesAreAsked,
       DoneIsOwn, LeftUnselected, IsTransferring, IsAmidPixels,
       Goes, Fails, driverVars, interruptVars, hardwareVars, mspiVars
<1>1. CASE Co5300Init
  <2>1. CASE op' = op /\ at' = at /\ cs_active' = cs_active
    <3>1. \A u \in Users : at[u] = "idle" /\ at'[u] = "idle" /\ lock' # u
      BY <1>1, <2>1 DEF Co5300Init
    <3>2. ~int_enabled'
      BY <1>1, <3>1 DEF Co5300Init, MspiEsp32Init
    <3>3. PanelTyped'
      BY <1>1, <2>1 DEF Co5300Init, MspiEsp32Init
    <3>4. (LockIsHeld /\ PacketInHand /\ LinesOfPacket /\ EndIsOwn /\ HeldIsWanted /\ DoneIsOwn)'
      BY <3>1
    <3>5. CallsInPlace'
      BY <1>1, <2>1, <3>1 DEF Co5300Init
    <3>6. LinesAreAsked' /\ LeftUnselected'
      BY <1>1, <2>1, <3>1 DEF Co5300Init
    <3> QED
      BY <3>2, <3>3, <3>4, <3>5, <3>6
  <2>2. CASE /\ op' = [op EXCEPT !["service"] = ConfigureDisplay]
             /\ at' = [at EXCEPT !["service"] = "ready"]
             /\ ~cs_active'
    <3>1. IsCall(ConfigureDisplay) /\ ConfigureDisplay # NoOp /\ 0 < Len(ConfigureDisplay)
      BY CallsAreCalls, CommandCalls, CommandsAreCall
    <3> QED
      <4>1. \A u \in Users : at[u] = "idle" /\ at'[u] \in {"idle", "ready"} /\ lock' # u
        BY <1>1, <2>2 DEF Co5300Init
      <4>2. PanelTyped'
        BY <1>1, <2>2 DEF Co5300Init, MspiEsp32Init, DevConfigAll
      <4>3. CallsInPlace'
        BY <1>1, <2>2, <3>1, <4>1 DEF Co5300Init
      <4>4. (LockIsHeld /\ PacketInHand /\ LinesOfPacket /\ EndIsOwn /\ HeldIsWanted /\ DoneIsOwn)'
        BY <4>1
      <4>6. InterruptIsAwaited'
        <5>1. ~int_enabled
          BY <4>1
        <5>2. int_enabled' = FALSE \/ int_enabled' = int_enabled
          BY <1>1 DEF Co5300Init, MspiEsp32Init
        <5> QED
          BY <5>1, <5>2
      <4>5. LinesAreAsked' /\ LeftUnselected'
        BY <1>1, <2>2 DEF Co5300Init
      <4> QED
        BY <4>2, <4>3, <4>4, <4>5, <4>6
  <2> QED
    BY <1>1, <2>1, <2>2 DEF Co5300Init, DevConfigAll
<1>2. ASSUME NEW u \in Users, Calls(u) PROVE PanelInv'
  <2>1. PICK packets \in CallsOf(u) \ {<<>>} :
            op' = [op EXCEPT ![u] = packets]
    BY <1>2 DEF Calls
  <2>2. IsCall(packets) /\ packets # NoOp /\ 0 < Len(packets)
    BY CallsAreCalls
  <2>3. at[u] = "idle" /\ at' = [at EXCEPT ![u] = "ready"] /\ sent' = [sent EXCEPT ![u] = 0]
    BY <1>2 DEF Calls
  <2> QED
    BY <1>2, <2>1, <2>2, <2>3 DEF Calls
<1>3. ASSUME NEW u \in Users, LocksPanel(u) PROVE PanelInv'
  BY <1>3 DEF LocksPanel, MayTransmit
<1>4. ASSUME NEW u \in Users, Configures(u) PROVE PanelInv'
  <2>1. at[u] = "configured" /\ at' = [at EXCEPT ![u] = "lock"] /\ lock' = lock
    BY <1>4 DEF Configures
  <2> DEFINE packet == op[u][sent[u] + 1]
  <2>2. IsPacket(packet) /\ packet.hold_ce \in BOOLEAN
    BY <2>1 DEF IsCall, IsPacket
  <2>3. xfer' = [xfer EXCEPT ![u] = packet] /\ io_mode' = packet.io_mode /\ ret' = [ret EXCEPT ![u] = "ok"]
    BY <1>4 DEF Configures, DevConfigIoMode
  <2>4. UNCHANGED <<op, sent, stage, cs_active, line_mode, transaction, late_end, int_stat, int_enabled,
                    xfer_sem, wire>>
    BY <1>4 DEF Configures, DevConfigIoMode
  <2> HIDE DEF packet
  <2>5. \A v \in Users \ {u} : at[v] \in {"idle", "ready"} /\ at'[v] = at[v]
    BY <2>1
  <2>6. PanelTyped' /\ LockIsHeld' /\ CallsInPlace'
    BY <2>1, <2>3, <2>4
  <2>7. PacketInHand'
    BY <2>1, <2>2, <2>3, <2>4, <2>5 DEF packet
  <2>8. LinesOfPacket' /\ InterruptIsAwaited' /\ EndIsOwn' /\ HeldIsWanted' /\ DoneIsOwn'
    BY <2>1, <2>3, <2>4, <2>5
  <2>9. LinesAreAsked' /\ LeftUnselected'
    BY <2>1, <2>3, <2>4, <2>5
  <2> QED
    BY <2>6, <2>7, <2>8, <2>9
<1>5. ASSUME NEW u \in Users, BeginsTransceive(u) /\ UNCHANGED <<stage, lock, op, sent>> PROVE PanelInv'
  BY <1>5 DEF BeginsTransceive
<1>6. ASSUME NEW u \in Users, AssertsCs(u) /\ UNCHANGED <<stage, lock, op, sent>> PROVE PanelInv'
  <2>1. CASE at' = [at EXCEPT ![u] = "unlock"]
    BY <1>6, <2>1 DEF AssertsCs
  <2>2. CASE at' = [at EXCEPT ![u] = "prepare"]
    <3>1. /\ at[u] = "select" /\ cs_active'
          /\ xfer' = [xfer EXCEPT ![u].begins = ~cs_active]
          /\ UNCHANGED <<ret, op, sent, stage, lock, line_mode, transaction, late_end, int_stat,
                         int_enabled, xfer_sem, wire>>
      BY <1>6, <2>2 DEF AssertsCs
    <3>2. /\ IsPacket(xfer'[u])
          /\ xfer'[u].hold_ce = xfer[u].hold_ce
          /\ xfer'[u].io_mode = xfer[u].io_mode
          /\ \A v \in Users \ {u} : xfer'[v] = xfer[v] /\ at'[v] = at[v]
      BY <2>2, <3>1 DEF IsPacket
    <3>3. PanelTyped' /\ LockIsHeld' /\ CallsInPlace'
      BY <2>2, <3>1
    <3>4. PacketInHand' /\ LinesOfPacket'
      BY <2>2, <3>1, <3>2
    <3>5. /\ InterruptIsAwaited' /\ EndIsOwn' /\ HeldIsWanted' /\ DoneIsOwn' /\ LinesAreAsked'
          /\ LeftUnselected'
      BY <2>2, <3>1, <3>2
    <3> QED
      BY <3>3, <3>4, <3>5
  <2> QED
    BY <1>6, <2>1, <2>2 DEF AssertsCs
<1>7. ASSUME NEW u \in Users, PreparesNoData(u) /\ UNCHANGED <<stage, lock, op, sent>> PROVE PanelInv'
  BY <1>7 DEF PreparesNoData
<1>8. ASSUME NEW u \in Users, ConfiguresDma(u) /\ UNCHANGED <<stage, lock, op, sent>> PROVE PanelInv'
  <2>1. /\ at[u] = "prepare" /\ lock = u
        /\ \/ at' = [at EXCEPT ![u] = "reset"] /\ ret' = ret
           \/ at' = [at EXCEPT ![u] = "release"] /\ ret' = [ret EXCEPT ![u] = "error"]
        /\ UNCHANGED <<io_mode, line_mode, cs_active, xfer, transaction, late_end, int_stat, int_enabled,
                       xfer_sem, wire, stage, lock, op, sent>>
    BY <1>8 DEF ConfiguresDma
  <2>2. (PanelTyped /\ LockIsHeld /\ CallsInPlace)'
    <3>1. PanelTyped'
      <4>1. at' \in [Users -> HasPanel \cup {"idle", "ready"}]
        BY <2>1
      <4>2. ret' \in [Users -> {"ok", "error"}]
        BY <2>1
      <4> QED
        BY <2>1, <4>1, <4>2
    <3>2. LockIsHeld'
      BY <2>1
    <3>3. CallsInPlace'
      BY <2>1
    <3> QED
      BY <3>1, <3>2, <3>3
  <2>3. (PacketInHand /\ LinesOfPacket /\ HeldIsWanted)'
    BY <2>1
  <2>4. (InterruptIsAwaited /\ EndIsOwn /\ DoneIsOwn)'
    BY <2>1
  <2>5. (LinesAreAsked /\ LeftUnselected)'
    BY <2>1
  <2> QED
    BY <2>2, <2>3, <2>4, <2>5
<1>18. ASSUME NEW u \in Users, ResetsSem(u) /\ UNCHANGED <<stage, lock, op, sent>> PROVE PanelInv'
  BY <1>18 DEF ResetsSem, ResetSem
<1>19. ASSUME NEW u \in Users, ClearsIntStat(u) /\ UNCHANGED <<stage, lock, op, sent>> PROVE PanelInv'
  BY <1>19 DEF ClearsIntStat
<1>20. ASSUME NEW u \in Users, EnablesInt(u) /\ UNCHANGED <<stage, lock, op, sent>> PROVE PanelInv'
  BY <1>20 DEF EnablesInt
<1>9. ASSUME NEW u \in Users, StartsTransaction(u) /\ UNCHANGED <<stage, lock, op, sent>> PROVE PanelInv'
  <2>1. LinesAreAsked'
    BY <1>9 DEF StartsTransaction
  <2>2. transaction' \in {"running", "mixed"}
    BY <1>9 DEF StartsTransaction, Started
  <2>3. (PanelTyped /\ LockIsHeld /\ CallsInPlace)'
    BY <1>9 DEF StartsTransaction
  <2>4. (PacketInHand /\ LinesOfPacket /\ InterruptIsAwaited /\ HeldIsWanted)'
    BY <1>9 DEF StartsTransaction
  <2>5. EndIsOwn' /\ DoneIsOwn' /\ LeftUnselected'
    BY <1>9, <2>2 DEF StartsTransaction
  <2> QED
    BY <2>1, <2>3, <2>4, <2>5
<1>10. ASSUME NEW u \in Users, Waited(u) /\ UNCHANGED <<stage, lock, op, sent>> PROVE PanelInv'
  <2>1. /\ at[u] = "wait" /\ lock = u /\ at' = [at EXCEPT ![u] = "release"]
        /\ xfer_sem = 1 /\ xfer_sem' = 0 /\ transaction' = Left
        /\ UNCHANGED <<io_mode, line_mode, cs_active, late_end, int_stat, int_enabled, xfer, ret, wire,
                       stage, lock, op, sent>>
    BY <1>10 DEF Waited
  <2>2. \A v \in Users \ {u} : at[v] \in {"idle", "ready"} /\ at'[v] = at[v]
    BY <2>1
  <2>3. (PanelTyped /\ LockIsHeld /\ CallsInPlace)'
    BY <2>1 DEF Left
  <2>4. (PacketInHand /\ LinesOfPacket /\ HeldIsWanted)'
    BY <2>1, <2>2
  <2>5. InterruptIsAwaited' /\ EndIsOwn'
    BY <2>1, <2>2
  <2>6. DoneIsOwn'
    BY <2>1, <2>2 DEF Left
  <2>7. (LinesAreAsked /\ LeftUnselected)'
    BY <2>1, <2>2
  <2> QED
    BY <2>3, <2>4, <2>5, <2>6, <2>7
<1>11. ASSUME NEW u \in Users, Expires(u) /\ UNCHANGED <<stage, lock, op, sent>> PROVE PanelInv'
  BY <1>11 DEF Expires
<1>12. ASSUME NEW u \in Users, GivesUp(u) /\ UNCHANGED <<stage, lock, op, sent>> PROVE PanelInv'
  BY <1>12 DEF GivesUp, Left
<1>13. ASSUME NEW u \in Users, ReleasesCs(u) /\ UNCHANGED <<stage, lock, op, sent>> PROVE PanelInv'
  <2>1. HoldsCs(u) => xfer[u].hold_ce /\ ret[u] = "ok"
    BY DEF HoldsCs
  <2>2. /\ at[u] = "release" /\ at' = [at EXCEPT ![u] = "unlock"]
        /\ cs_active' => HoldsCs(u) /\ ret' = ret
        /\ ret' \in [Users -> {"ok", "error"}] /\ cs_active' \in BOOLEAN
    BY <1>13 DEF ReleasesCs, HoldsCs
  <2> QED
    BY <1>13, <2>1, <2>2 DEF ReleasesCs
<1>14. ASSUME NEW u \in Users, EndsTransceive(u) /\ UNCHANGED <<stage, lock, op, sent>> PROVE PanelInv'
  BY <1>14 DEF EndsTransceive
<1>15. ASSUME NEW u \in Users, Transmitted(u) PROVE PanelInv'
  <2> DEFINE Ends == ret[u] # "ok" \/ sent[u] + 1 = Len(op[u])
  <2>1. /\ at[u] = "returned" /\ lock = u /\ lock' = Nobody
        /\ op' = [op EXCEPT ![u] = IF Ends THEN NoOp ELSE op[u]]
        /\ sent' = [sent EXCEPT ![u] = IF Ends THEN 0 ELSE sent[u] + 1]
        /\ at' = [at EXCEPT ![u] = IF Ends THEN "idle" ELSE "ready"]
        /\ ret' = [ret EXCEPT ![u] = "ok"] /\ xfer' = [xfer EXCEPT ![u] = NoPacket]
        /\ UNCHANGED <<cs_active, line_mode, io_mode, transaction, late_end, int_stat, int_enabled,
                       xfer_sem, wire>>
    BY <1>15 DEF Transmitted, Unlocked
  <2>2. IsCall(op[u]) /\ sent[u] < Len(op[u]) /\ op[u] # NoOp /\ stage # "power"
    BY <2>1
  <2>3. stage' # "power"
    BY <1>15, <2>2 DEF Transmitted
  <2>4. ~Ends => sent[u] + 1 < Len(op[u])
    BY <2>2 DEF IsCall
  <2>5. \A v \in Users \ {u} : at[v] \in {"idle", "ready"} /\ at'[v] = at[v]
    BY <2>1
  <2>6. PanelTyped' /\ LockIsHeld'
    BY <2>1, <2>5
  <2>7. CallsInPlace'
    BY <2>1, <2>2, <2>3, <2>4, <2>5
  <2>8. /\ PacketInHand' /\ LinesOfPacket' /\ InterruptIsAwaited' /\ EndIsOwn' /\ HeldIsWanted'
        /\ DoneIsOwn' /\ LinesAreAsked'
    BY <2>1, <2>5
  <2>9. ASSUME cs_active PROVE ~Ends /\ sent[u] + 1 > 3
    <3>1. ret[u] = "ok" /\ op[u][sent[u] + 1].hold_ce
      BY <2>1, <2>9
    <3>2. sent[u] + 1 \in 1 .. Len(op[u])
      BY <2>2 DEF IsCall
    <3> QED
      BY <2>2, <3>1, <3>2 DEF IsCall
  <2>10. LeftUnselected'
    BY <2>1, <2>2, <2>9
  <2> QED
    BY <2>6, <2>7, <2>8, <2>10
<1>16. CASE PeripheralEnds /\ UNCHANGED <<stage, lock, op, sent>>
  BY <1>16 DEF PeripheralEnds, IsStarting
<1>17. CASE Isr /\ UNCHANGED <<stage, lock, op, sent>>
  BY <1>17 DEF Isr
<1> QED
  BY <1>1, <1>2, <1>3, <1>4, <1>5, <1>6, <1>7, <1>8, <1>9, <1>10, <1>11, <1>12, <1>13, <1>14,
     <1>15, <1>16, <1>17, <1>18, <1>19, <1>20 DEF PanelNext, PanelStep, Transceive, Transfers, Peripheral

\* A step of the renderer, and one that changes nothing, leave the bus alone.
LEMMA PanelInvStutters == PanelInv /\ UNCHANGED vars => PanelInv'
BY DEF PanelInv, PanelTyped, LockIsHeld, CallsInPlace, PacketInHand, LinesOfPacket,
   InterruptIsAwaited, EndIsOwn, HeldIsWanted, LinesAreAsked, DoneIsOwn, LeftUnselected, IsTransferring, IsAmidPixels, vars,
   mspiVars, driverVars, interruptVars, hardwareVars

LEMMA PanelInvHolds == Spec => []PanelInv
<1>1. Init => PanelInv
  BY PanelInvInit DEF Init
<1>2. PanelInv /\ [Next]_allVars => PanelInv'
  BY PanelInvStep, PanelInvStutters DEF Next, Amoled, Lcd, allVars
<1> QED
  BY <1>1, <1>2, PTL DEF Spec

-----------------------------------------------------------------------------
\* For any callers, areas and faults: a packet is clocked out on the lines its own
\* caller asked for, although the io mode is set in one call of the bus and read in
\* the next (mspi_esp32.c:882).
THEOREM LinesAreAskedHolds == Spec => []LinesAreAsked
BY PanelInvHolds, PTL DEF PanelInv

\* A packet that counts as sent was clocked out to its end, whichever transactions were
\* given up before: what they left in the semaphore and the status does not end its wait.
\* Only of one that ends between the clearing of the status and the start nothing is
\* said: the wait returns for it (mspi_esp32.c:617-620).
THEOREM DoneIsOwnHolds == Spec => []DoneIsOwn
BY PanelInvHolds, PTL DEF PanelInv

\* Whatever fails, the chip stays selected only within a transfer or between the
\* chunks of an area: no area has a last chunk that holds it.
THEOREM LeftUnselectedHolds == Spec => []LeftUnselected
BY PanelInvHolds, PTL DEF PanelInv

-----------------------------------------------------------------------------
\* The rotated frame.  What an area's turn is, by tiles or by the PPA.

LEMMA PointIs ==
    ASSUME NEW width \in Int, NEW height \in Int, NEW p
    PROVE  p \in Points(width, height)
              <=> p = <<p[1], p[2]>> /\ p[1] \in 0 .. width - 1 /\ p[2] \in 0 .. height - 1
BY DEF Points

\* The tiles leave no row or column out, the last of them being cut at the edge.
LEMMA TilesCover ==
    ASSUME NEW length \in Nat, NEW x \in 0 .. length - 1
    PROVE  \E tile \in Tiles(length) : x \in tile .. Least(tile + rotation_tile_, length) - 1
<1> DEFINE count == x \div rotation_tile_
           tile == count * rotation_tile_
<1>1. rotation_tile_ \in Nat \ {0}
  BY TileAssumption
<1>2. count \in Nat /\ tile <= x /\ x < tile + rotation_tile_ /\ tile \in Nat
  BY <1>1, Z3
<1>3. tile % rotation_tile_ = 0
  BY <1>1, <1>2, Z3
<1> HIDE DEF count, tile
<1>4. tile \in Tiles(length)
  BY <1>2, <1>3 DEF Tiles
<1> QED
  BY <1>1, <1>2, <1>4 DEF Least

LEMMA TilesAreWithin ==
    ASSUME NEW length \in Nat, NEW tile \in Tiles(length),
           NEW x \in tile .. Least(tile + rotation_tile_, length) - 1
    PROVE  x \in 0 .. length - 1
BY TileAssumption DEF Tiles, Least

\* Tile by tile or at once, the same points go to the same places.
LEMMA TiledIsTurned ==
    ASSUME NEW width \in Nat, NEW height \in Nat, rotation \in {90, 270}
    PROVE  RotateTiledRgb565(width, height, rotation = 90) = RotateAccelerated(width, height)
<1> DEFINE Move(x, y) == <<<<x, y>>, Turned(<<x, y>>, width, height)>>
           Tile(tile_x, tile_y) ==
              {<<<<x, y>>, TileRow(x, y, tile_y, width, height, rotation = 90)>> :
                x \in tile_x .. Least(tile_x + rotation_tile_, width) - 1,
                y \in tile_y .. Least(tile_y + rotation_tile_, height) - 1}
           tiled == RotateTiledRgb565(width, height, rotation = 90)
<1>0. \A m : m \in tiled
              <=> \E tile_x \in Tiles(width), tile_y \in Tiles(height) : m \in Tile(tile_x, tile_y)
  <2>1. tiled = UNION {UNION {Tile(tile_x, tile_y) : tile_y \in Tiles(height)} : tile_x \in Tiles(width)}
    BY DEF RotateTiledRgb565
  <2> HIDE DEF Tile, tiled
  <2> QED
    BY <2>1
<1>1. ASSUME NEW x \in Int, NEW y \in Int, NEW tile_y \in Int
      PROVE  TileRow(x, y, tile_y, width, height, rotation = 90) = Turned(<<x, y>>, width, height)
  BY DEF TileRow, Turned
<1>2. ASSUME NEW m \in RotateTiledRgb565(width, height, rotation = 90)
      PROVE  m \in RotateAccelerated(width, height)
  <2> PICK tile_x \in Tiles(width), tile_y \in Tiles(height) : m \in Tile(tile_x, tile_y)
    BY <1>0, <1>2
  <2>1. PICK x \in tile_x .. Least(tile_x + rotation_tile_, width) - 1,
             y \in tile_y .. Least(tile_y + rotation_tile_, height) - 1 :
                m = <<<<x, y>>, TileRow(x, y, tile_y, width, height, rotation = 90)>>
    OBVIOUS
  <2>2. x \in 0 .. width - 1 /\ y \in 0 .. height - 1
    BY TilesAreWithin
  <2>3. tile_y \in Int
    BY DEF Tiles
  <2>4. m = Move(x, y)
    BY <1>1, <2>1, <2>2, <2>3
  <2>5. <<x, y>> \in Points(width, height)
    BY <2>2 DEF Points
  <2> QED
    BY <2>4, <2>5 DEF RotateAccelerated
<1>3. ASSUME NEW m \in RotateAccelerated(width, height)
      PROVE  m \in RotateTiledRgb565(width, height, rotation = 90)
  <2> PICK p \in Points(width, height) : m = <<p, Turned(p, width, height)>>
    BY <1>3 DEF RotateAccelerated
  <2> PICK x \in 0 .. width - 1, y \in 0 .. height - 1 : p = <<x, y>>
    BY DEF Points
  <2>1. m = Move(x, y)
    OBVIOUS
  <2>2. PICK tile_x \in Tiles(width) : x \in tile_x .. Least(tile_x + rotation_tile_, width) - 1
    BY TilesCover
  <2>3. PICK tile_y \in Tiles(height) : y \in tile_y .. Least(tile_y + rotation_tile_, height) - 1
    BY TilesCover
  <2>4. m = <<<<x, y>>, TileRow(x, y, tile_y, width, height, rotation = 90)>>
    BY <1>1, <2>1 DEF Tiles
  <2> QED
    BY <1>0, <2>2, <2>3, <2>4
<1>4. \A m : m \in tiled <=> m \in RotateAccelerated(width, height)
  BY <1>2, <1>3
<1> HIDE DEF tiled
<1>5. tiled = RotateAccelerated(width, height)
  BY <1>4
<1> QED
  BY <1>5 DEF tiled

LEMMA RotateIsTurned ==
    ASSUME NEW width \in Nat, NEW height \in Nat, rotation \in {90, 180, 270}
    PROVE  Rotate(width, height) = RotateAccelerated(width, height)
BY TiledIsTurned DEF Rotate, RotateAccelerated, IsQuarterTurn

-----------------------------------------------------------------------------
\* Where an area lands.

IsArea(area) ==
    /\ area.x1 \in Nat /\ area.x2 \in Nat /\ area.y1 \in Nat /\ area.y2 \in Nat
    /\ area.x1 <= area.x2 /\ area.y1 <= area.y2
    /\ IsOnScreen(area)

\* Every point of the screen has a place on the panel, and no other point has it.
LEMMA TurnedIsInjective ==
    ASSUME rotation \in {90, 180, 270}, NEW s \in Screen
    PROVE  /\ Turned(s, Width, Height) \in Panel
           /\ \A t \in Screen : Turned(s, Width, Height) = Turned(t, Width, Height) => s = t
<1>1. Width \in Nat \ {0} /\ Height \in Nat \ {0}
  BY PanelSizeAssumption DEF Width, Height
<1>2. \A t \in Screen : /\ t = <<t[1], t[2]>>
                         /\ t[1] \in 0 .. Width - 1
                         /\ t[2] \in 0 .. Height - 1
  BY <1>1, PointIs DEF Screen
<1>3. Turned(s, Width, Height) \in Panel
  BY <1>2, PanelSizeAssumption DEF Turned, Width, Height, IsQuarterTurn, Panel, Points
<1>4. ASSUME NEW t \in Screen, Turned(s, Width, Height) = Turned(t, Width, Height)
      PROVE  s = t
  <2>1. s[1] = t[1] /\ s[2] = t[2]
    BY <1>1, <1>2, <1>4 DEF Turned
  <2> QED
    BY <1>2, <2>1
<1> QED
  BY <1>3, <1>4

\* A point of an area, turned within the area, lands where the whole screen turned
\* has it.
LEMMA AreaLands ==
    ASSUME rotation \in {90, 180, 270}, NEW area, IsArea(area),
           NEW p \in Points(AreaWidth(area), AreaHeight(area))
    PROVE  LET turned == Turned(p, AreaWidth(area), AreaHeight(area))
               s == <<area.x1 + p[1], area.y1 + p[2]>>
           IN  /\ s \in Screen
               /\ Covers(area, s)
               /\ <<RotateArea(area).x1 + turned[1], RotateArea(area).y1 + turned[2]>>
                    = Turned(s, Width, Height)
<1> DEFINE s == <<area.x1 + p[1], area.y1 + p[2]>>
<1>1. AreaWidth(area) \in Nat /\ AreaHeight(area) \in Nat
  BY DEF IsArea, AreaWidth, AreaHeight
<1>2. p[1] \in 0 .. area.x2 - area.x1 /\ p[2] \in 0 .. area.y2 - area.y1
  BY <1>1, PointIs DEF IsArea, AreaWidth, AreaHeight
<1>3. area.x2 < Width /\ area.y2 < Height /\ Width \in Nat /\ Height \in Nat
  BY PanelSizeAssumption DEF IsArea, IsOnScreen, Width, Height
<1>4. s \in Screen
  BY <1>2, <1>3 DEF IsArea, Screen, Points
<1>5. Covers(area, s)
  BY <1>2 DEF IsArea, Covers
<1>6. <<RotateArea(area).x1 + Turned(p, AreaWidth(area), AreaHeight(area))[1],
        RotateArea(area).y1 + Turned(p, AreaWidth(area), AreaHeight(area))[2]>>
            = Turned(s, Width, Height)
  BY <1>2, PanelSizeAssumption
     DEF IsArea, RotateArea, Turned, Width, Height, IsQuarterTurn, AreaWidth, AreaHeight
<1> QED
  BY <1>4, <1>5, <1>6

Pixel == [point : Int \X Int, version : Versions]

\* The pixels of an area are those of the points it covers, each at the point's place.
LEMMA PixelsAreOfArea ==
    ASSUME rotation \in {90, 180, 270}, NEW area, IsArea(area), NEW version \in Versions
    PROVE  LET pixels == Pixels(area, version, RotateAccelerated(AreaWidth(area), AreaHeight(area)))
           IN  /\ DOMAIN pixels \subseteq Panel
               /\ pixels \in [DOMAIN pixels -> Pixel]
               /\ \A s \in Screen :
                    /\ Turned(s, Width, Height) \in DOMAIN pixels <=> Covers(area, s)
                    /\ Covers(area, s) =>
                        pixels[Turned(s, Width, Height)] = [point |-> s, version |-> version]
<1> DEFINE width == AreaWidth(area)
           height == AreaHeight(area)
           moves == RotateAccelerated(width, height)
           Place(m) == <<RotateArea(area).x1 + m[2][1], RotateArea(area).y1 + m[2][2]>>
           At(p) == <<area.x1 + p[1], area.y1 + p[2]>>
           places == {Place(m) : m \in moves} \cap Panel
           Drawn(q) == CHOOSE m \in moves : Place(m) = q
           pixels == Pixels(area, version, moves)
<1>1. pixels = [q \in places |-> [point |-> At(Drawn(q)[1]), version |-> version]]
  BY DEF Pixels
<1>2. width \in Nat /\ height \in Nat
  BY DEF IsArea, AreaWidth, AreaHeight
<1>3. ASSUME NEW m \in moves
      PROVE  /\ At(m[1]) \in Screen /\ Covers(area, At(m[1]))
             /\ Place(m) = Turned(At(m[1]), Width, Height)
  <2> PICK p \in Points(width, height) : m = <<p, Turned(p, width, height)>>
    BY DEF RotateAccelerated
  <2> QED
    BY AreaLands
<1>4. ASSUME NEW q \in places PROVE Drawn(q) \in moves /\ Place(Drawn(q)) = q
  <2> HIDE DEF Place, moves
  <2> QED
    OBVIOUS
<1>5. Screen \subseteq Int \X Int
  BY PanelSizeAssumption DEF Screen, Points, Width, Height
<1>6. DOMAIN pixels = places /\ pixels \in [places -> Pixel]
  <2>1. \A q \in places : At(Drawn(q)[1]) \in Int \X Int
    BY <1>3, <1>4, <1>5
  <2>2. \A q \in places : [point |-> At(Drawn(q)[1]), version |-> version] \in Pixel
    BY <2>1 DEF Pixel
  <2> HIDE DEF places, At, Drawn, pixels
  <2> QED
    BY <1>1, <2>2
<1>7. ASSUME NEW s \in Screen
      PROVE  /\ Turned(s, Width, Height) \in places <=> Covers(area, s)
             /\ Covers(area, s) => pixels[Turned(s, Width, Height)] = [point |-> s, version |-> version]
  <2> DEFINE q == Turned(s, Width, Height)
  <2>1. q \in Panel
    BY TurnedIsInjective
  <2>2. ASSUME NEW m \in moves, Place(m) = q PROVE At(m[1]) = s /\ Covers(area, s)
    <3>1. At(m[1]) \in Screen /\ Covers(area, At(m[1])) /\ q = Turned(At(m[1]), Width, Height)
      BY <1>3, <2>2
    <3> QED
      BY <3>1, TurnedIsInjective
  <2>3. ASSUME Covers(area, s) PROVE \E m \in moves : Place(m) = q
    <3> DEFINE p == <<s[1] - area.x1, s[2] - area.y1>>
               m == <<p, Turned(p, width, height)>>
    <3>1. s = <<s[1], s[2]>> /\ s[1] \in Int /\ s[2] \in Int
      BY PanelSizeAssumption, PointIs DEF Screen, Width, Height
    <3>2. p \in Points(width, height)
      BY <2>3, <3>1 DEF IsArea, Covers, Points, AreaWidth, AreaHeight
    <3>3. At(p) = s
      BY <3>1 DEF IsArea
    <3>4. Place(m) = q
      BY <3>2, <3>3, AreaLands
    <3>5. m \in moves
      BY <3>2 DEF RotateAccelerated
    <3> QED
      BY <3>4, <3>5
  <2>4. q \in places <=> Covers(area, s)
    <3> HIDE DEF Place, moves, q
    <3> QED
      BY <2>1, <2>2, <2>3
  <2>5. ASSUME Covers(area, s) PROVE pixels[q] = [point |-> s, version |-> version]
    <3>1. Drawn(q) \in moves /\ Place(Drawn(q)) = q
      BY <1>4, <2>4, <2>5
    <3>2. At(Drawn(q)[1]) = s
      BY <2>2, <3>1
    <3> HIDE DEF At, Drawn, places, pixels, q
    <3> QED
      BY <1>1, <2>4, <2>5, <3>2
  <2> QED
    BY <2>4, <2>5
<1> HIDE DEF pixels, places
<1>8. DOMAIN pixels \subseteq Panel /\ pixels \in [DOMAIN pixels -> Pixel]
  BY <1>6 DEF places
<1> QED
  BY <1>6, <1>7, <1>8 DEF pixels

-----------------------------------------------------------------------------
\* The frame and its cache, as records of what CpuWrites and PpaWrites leave.

\* A line that is not written back is there; one that the CPU alone wrote to says what
\* memory does once it is.
IsFrame(m) ==
    /\ m.frame \in [Panel -> Pixel]
    /\ m.cache \in [Panel -> Pixel \cup {NotCached}]
    /\ m.writers \in [Lines -> SUBSET {"cpu", "ppa"}]
    /\ \A line \in m.dirty : line \in Lines /\ "cpu" \in m.writers[line]
    /\ \A q \in Panel :
        /\ Line(q) \in m.dirty => m.cache[q] # NotCached
        /\ Line(q) \notin m.dirty /\ m.cache[q] # NotCached /\ "ppa" \notin m.writers[Line(q)] =>
            m.cache[q] = m.frame[q]

Shares(m, line) == {"cpu", "ppa"} \subseteq m.writers[line]
Latest(m, q) == IF Line(q) \in m.dirty THEN m.cache[q] ELSE m.frame[q]
Present == [frame |-> frame, cache |-> cache, dirty |-> dirty, writers |-> writers]

LEMMA NotCachedIsNoPixel == NotCached \notin Pixel
BY NotCachedAssumption DEF Pixel

\* Whoever writes an area, it is what was written last, and the rest is as it was: but in
\* a line the other wrote to.
LEMMA WritesPut ==
    ASSUME IsFrame(Present), NEW pixels, DOMAIN pixels \subseteq Panel,
           pixels \in [DOMAIN pixels -> Pixel], NEW m \in {ByCpu(pixels), ByPpa(pixels)}
    PROVE  /\ IsFrame(m)
           /\ \A q \in Panel : ~Shares(m, Line(q)) =>
                IF q \in DOMAIN pixels THEN Latest(m, q) = pixels[q]
                ELSE ~IsShared(Line(q)) /\ Latest(m, q) = Latest(Present, q)
<1>1. /\ frame \in [Panel -> Pixel]
      /\ cache \in [Panel -> Pixel \cup {NotCached}]
      /\ writers \in [Lines -> SUBSET {"cpu", "ppa"}]
      /\ \A line \in dirty : line \in Lines /\ "cpu" \in writers[line]
      /\ \A q \in Panel :
            /\ Line(q) \in dirty => cache[q] # NotCached
            /\ Line(q) \notin dirty /\ cache[q] # NotCached /\ "ppa" \notin writers[Line(q)] =>
                cache[q] = frame[q]
  BY DEF IsFrame, Present
<1>2. \A q \in Panel : Line(q) \in Lines /\ q \in PointsOf(Line(q))
  BY DEF Lines, PointsOf
<1>3. Touched(pixels) \subseteq Lines /\ \A q \in DOMAIN pixels : Line(q) \in Touched(pixels)
  BY DEF Lines, Touched
<1>4. CASE m = ByPpa(pixels)
  <2>1. /\ m.frame = [q \in Panel |-> IF q \in DOMAIN pixels THEN pixels[q] ELSE frame[q]]
        /\ m.cache = cache /\ m.dirty = dirty
        /\ m.writers = [line \in Lines |->
                          writers[line] \cup IF line \in Touched(pixels) THEN {"ppa"} ELSE {}]
    BY <1>4 DEF ByPpa, Overlaid
  <2>2. IsFrame(m)
    <3>1. m.frame \in [Panel -> Pixel] /\ m.writers \in [Lines -> SUBSET {"cpu", "ppa"}]
      BY <1>1, <2>1
    <3>2. \A line \in m.dirty : line \in Lines /\ "cpu" \in m.writers[line]
      BY <1>1, <2>1
    <3>3. ASSUME NEW q \in Panel, "ppa" \notin m.writers[Line(q)]
          PROVE  m.frame[q] = frame[q] /\ "ppa" \notin writers[Line(q)]
      BY <1>2, <1>3, <2>1, <3>3
    <3> QED
      BY <1>1, <2>1, <3>1, <3>2, <3>3 DEF IsFrame
  <2>3. ASSUME NEW q \in Panel, ~Shares(m, Line(q))
        PROVE  IF q \in DOMAIN pixels THEN Latest(m, q) = pixels[q]
               ELSE ~IsShared(Line(q)) /\ Latest(m, q) = Latest(Present, q)
    <3>1. CASE q \in DOMAIN pixels
      <4>1. "ppa" \in m.writers[Line(q)] /\ writers[Line(q)] \subseteq m.writers[Line(q)]
        BY <1>2, <1>3, <2>1, <3>1
      <4>2. Line(q) \notin dirty
        BY <1>1, <2>3, <4>1 DEF Shares
      <4> QED
        BY <2>1, <3>1, <4>2 DEF Latest
    <3>2. CASE q \notin DOMAIN pixels
      <4>1. writers[Line(q)] \subseteq m.writers[Line(q)]
        BY <1>2, <2>1
      <4> QED
        BY <2>1, <2>3, <3>2, <4>1 DEF Latest, Present, Shares, IsShared
    <3> QED
      BY <3>1, <3>2
  <2> QED
    BY <2>2, <2>3
<1>5. CASE m = ByCpu(pixels)
  <2>1. /\ m.frame = frame /\ m.dirty = dirty \cup Touched(pixels)
        /\ m.cache = [q \in Panel |-> IF Line(q) \in Touched(pixels)
                                     THEN IF q \in DOMAIN pixels THEN pixels[q] ELSE Cached[q]
                                     ELSE cache[q]]
        /\ DOMAIN m.writers = Lines
    BY <1>5 DEF ByCpu, Overlaid
  <2>2. \A line \in Lines :
            m.writers[line] = CASE line \notin Touched(pixels) -> writers[line]
                                [] PointsOf(line) \subseteq DOMAIN pixels -> {"cpu"}
                                [] OTHER -> writers[line] \cup {"cpu"}
    BY <1>5 DEF ByCpu
  <2>3. \A line \in Lines :
            /\ m.writers[line] \in SUBSET {"cpu", "ppa"}
            /\ line \notin Touched(pixels) => m.writers[line] = writers[line]
            /\ line \in Touched(pixels) => "cpu" \in m.writers[line]
            /\ ~(PointsOf(line) \subseteq DOMAIN pixels) => writers[line] \subseteq m.writers[line]
    <3> SUFFICES ASSUME NEW line \in Lines
                 PROVE  /\ m.writers[line] \in SUBSET {"cpu", "ppa"}
                        /\ line \notin Touched(pixels) => m.writers[line] = writers[line]
                        /\ line \in Touched(pixels) => "cpu" \in m.writers[line]
                        /\ ~(PointsOf(line) \subseteq DOMAIN pixels) =>
                            writers[line] \subseteq m.writers[line]
      OBVIOUS
    <3>1. writers[line] \in SUBSET {"cpu", "ppa"}
      BY <1>1
    <3>2. CASE line \notin Touched(pixels)
      <4>0. PICK q \in PointsOf(line) : q \notin DOMAIN pixels
        BY <1>3, <3>2 DEF Lines, PointsOf
      <4>1. m.writers[line] = writers[line]
        BY <2>2, <3>2, <4>0
      <4> QED
        BY <3>1, <3>2, <4>1
    <3>3. CASE line \in Touched(pixels) /\ PointsOf(line) \subseteq DOMAIN pixels
      <4>1. m.writers[line] = {"cpu"}
        BY <2>2, <3>3
      <4> QED
        BY <3>3, <4>1
    <3>4. CASE line \in Touched(pixels) /\ ~(PointsOf(line) \subseteq DOMAIN pixels)
      <4>1. m.writers[line] = writers[line] \cup {"cpu"}
        BY <2>2, <3>4
      <4> QED
        BY <3>1, <3>4, <4>1
    <3> QED
      BY <3>2, <3>3, <3>4
  <2>4. \A q \in Panel : Cached[q] = IF cache[q] = NotCached THEN frame[q] ELSE cache[q]
    BY DEF Cached
  <2>5. \A q \in Panel : Cached[q] \in Pixel
    BY <1>1, <2>4
  <2>6. IsFrame(m)
    <3>1. m.cache \in [Panel -> Pixel \cup {NotCached}]
      BY <1>1, <2>1, <2>5
    <3>2. m.writers \in [Lines -> SUBSET {"cpu", "ppa"}]
      <4>1. m.writers = [line \in Lines |-> m.writers[line]]
        BY <1>5 DEF ByCpu
      <4> QED
        BY <2>3, <4>1
    <3>3. \A line \in m.dirty : line \in Lines /\ "cpu" \in m.writers[line]
      BY <1>1, <1>3, <2>1, <2>3
    <3>4. ASSUME NEW q \in Panel, Line(q) \in Touched(pixels) PROVE m.cache[q] # NotCached
      <4>1. m.cache[q] \in Pixel
        BY <2>1, <2>5, <3>4
      <4> QED
        BY <4>1, NotCachedIsNoPixel
    <3>5. \A q \in Panel :
            /\ Line(q) \in m.dirty => m.cache[q] # NotCached
            /\ Line(q) \notin m.dirty /\ m.cache[q] # NotCached /\ "ppa" \notin m.writers[Line(q)] =>
                m.cache[q] = m.frame[q]
      BY <1>1, <1>2, <2>1, <2>3, <3>4
    <3> QED
      BY <1>1, <2>1, <3>1, <3>2, <3>3, <3>5 DEF IsFrame
  <2>7. ASSUME NEW q \in Panel, ~Shares(m, Line(q))
        PROVE  IF q \in DOMAIN pixels THEN Latest(m, q) = pixels[q]
               ELSE ~IsShared(Line(q)) /\ Latest(m, q) = Latest(Present, q)
    <3>1. CASE q \in DOMAIN pixels
      BY <1>3, <2>1, <3>1 DEF Latest
    <3>2. CASE q \notin DOMAIN pixels
      <4>1. writers[Line(q)] \subseteq m.writers[Line(q)] /\ ~IsShared(Line(q))
        BY <1>2, <2>3, <2>7, <3>2 DEF Shares, IsShared
      <4>2. CASE Line(q) \notin Touched(pixels)
        BY <2>1, <3>2, <4>1, <4>2 DEF Latest, Present
      <4>3. CASE Line(q) \in Touched(pixels)
        <5>1. "ppa" \notin writers[Line(q)]
          BY <1>2, <2>3, <2>7, <4>1, <4>3 DEF Shares
        <5>2. Latest(m, q) = Cached[q]
          BY <2>1, <3>2, <4>3 DEF Latest
        <5>3. Cached[q] = IF Line(q) \in dirty THEN cache[q] ELSE frame[q]
          BY <1>1, <2>4, <5>1
        <5> QED
          BY <3>2, <4>1, <5>2, <5>3 DEF Latest, Present
      <4> QED
        BY <4>2, <4>3
    <3> QED
      BY <3>1, <3>2
  <2> QED
    BY <2>6, <2>7
<1> QED
  BY <1>4, <1>5

\* A frame of which these lines are written back, and these leave the cache.
LeftBy(m, lines, gone) ==
    [frame |-> WrittenBack(lines, m.frame, m.cache),
     cache |-> [q \in Panel |-> IF Line(q) \in gone THEN NotCached ELSE m.cache[q]],
     dirty |-> m.dirty \ lines, writers |-> m.writers]

KeepsFrame(m, kept) ==
    IsFrame(kept) /\ \A q \in Panel : Latest(kept, q) = Latest(m, q)

\* A line that is written back, and kept or not, says what it did.
LEMMA WrittenBackKeeps ==
    ASSUME NEW m, IsFrame(m), NEW lines, lines \subseteq m.dirty, NEW gone,
           gone \cap m.dirty \subseteq lines
    PROVE  KeepsFrame(m, LeftBy(m, lines, gone))
<1> DEFINE kept == LeftBy(m, lines, gone)
<1>1. /\ kept.frame = [q \in Panel |-> IF Line(q) \in lines THEN m.cache[q] ELSE m.frame[q]]
      /\ kept.cache = [q \in Panel |-> IF Line(q) \in gone THEN NotCached ELSE m.cache[q]]
      /\ kept.dirty = m.dirty \ lines /\ kept.writers = m.writers
  BY DEF WrittenBack, LeftBy
<1> HIDE DEF kept
<1>2. IsFrame(kept)
  <2>1. kept.frame \in [Panel -> Pixel]
    BY <1>1 DEF IsFrame
  <2>2. kept.cache \in [Panel -> Pixel \cup {NotCached}]
    BY <1>1 DEF IsFrame
  <2>3. \A q \in Panel :
            /\ Line(q) \in kept.dirty => kept.cache[q] # NotCached
            /\ Line(q) \notin kept.dirty /\ kept.cache[q] # NotCached /\ "ppa" \notin kept.writers[Line(q)] =>
                kept.cache[q] = kept.frame[q]
    BY <1>1 DEF IsFrame
  <2> QED
    BY <1>1, <2>1, <2>2, <2>3 DEF IsFrame
<1>3. \A q \in Panel : Latest(kept, q) = Latest(m, q)
  BY <1>1 DEF Latest
<1> QED
  BY <1>2, <1>3 DEF kept, KeepsFrame

-----------------------------------------------------------------------------
\* What LVGL hands over, the first refresh included.
FirstVersion == CHOOSE v \in Versions : TRUE
Flush == [area : {a \in Areas \cup {WholeScreen} : IsOnScreen(a)}, version : Versions]

LEMMA FirstIsVersion == FirstVersion \in Versions
BY VersionsAssumption DEF FirstVersion

LEMMA FlushedAreas == rotation \in {90, 180, 270} => \A f \in Flush : IsArea(f.area)
<1> SUFFICES ASSUME rotation \in {90, 180, 270}, NEW f \in Flush PROVE IsArea(f.area)
  OBVIOUS
<1>1. f.area \in Areas \cup {WholeScreen} /\ IsOnScreen(f.area)
  BY DEF Flush
<1>2. Width \in Nat \ {0} /\ Height \in Nat \ {0}
  BY PanelSizeAssumption DEF Width, Height
<1>3. CASE f.area \in Areas
  BY <1>1, <1>3, AreasAssumption DEF IsArea
<1>4. CASE f.area = WholeScreen
  BY <1>1, <1>2, <1>4 DEF IsArea, WholeScreen
<1> QED
  BY <1>1, <1>3, <1>4

\* The areas of a refresh that a point lies in.
Over(areas, p) == {i \in 1 .. Len(areas) : Covers(areas[i].area, p)}
IsLast(i, indices) == i \in indices /\ \A j \in indices : j <= i

\* A point is what was written last at its place, unless an area still to flush covers
\* it: then the last of those has what LVGL drew there.
ShownOrDue(p) ==
    /\ Over(to_flush, p) = {} /\ ~IsShared(Line(Turned(p, Width, Height))) =>
        Latest(Present, Turned(p, Width, Height)) = [point |-> p, version |-> screen[p]]
    /\ \A i \in 1 .. Len(to_flush) :
        IsLast(i, Over(to_flush, p)) => to_flush[i].version = screen[p]

FrameInv ==
    /\ rotation \in {90, 180, 270}
    /\ to_flush \in Seq(Flush)
    /\ to_flush = <<>> => dirty = {}
    /\ IsFrame(Present)
    /\ \A p \in Screen : ShownOrDue(p)

LEMMA FrameInvInit == RendererInit => FrameInv
<1> SUFFICES ASSUME RendererInit PROVE FrameInv
  OBVIOUS
<1> DEFINE first == [area |-> WholeScreen, version |-> FirstVersion]
<1>1. rotation \in {90, 180, 270}
  BY RotationsAssumption DEF RendererInit
<1>2. Width \in Nat \ {0} /\ Height \in Nat \ {0}
  BY PanelSizeAssumption DEF Width, Height
<1>3. to_flush = <<first>> /\ first \in Flush
  <2>1. first \in Flush
    BY <1>2, FirstIsVersion DEF Flush, IsOnScreen, WholeScreen
  <2> QED
    BY <2>1 DEF RendererInit, FirstVersion
<1>4. \A p \in Screen : Over(to_flush, p) = {1} /\ screen[p] = FirstVersion
  <2> TAKE p \in Screen
  <2>1. Covers(WholeScreen, p)
    BY <1>2, PointIs DEF Screen, Covers, WholeScreen
  <2>2. Len(to_flush) = 1 /\ to_flush[1].area = WholeScreen
    BY <1>3
  <2>3. screen[p] = FirstVersion
    BY DEF RendererInit, FirstVersion
  <2> QED
    BY <2>1, <2>2, <2>3 DEF Over
<1>5. IsFrame(Present)
  <2>1. /\ Present.frame = [q \in Panel |-> [point |-> <<-1, -1>>, version |-> FirstVersion]]
        /\ Present.cache = Present.frame /\ Present.dirty = {}
        /\ Present.writers = [line \in Lines |-> {}]
    BY DEF RendererInit, FirstVersion, Present
  <2>2. [point |-> <<-1, -1>>, version |-> FirstVersion] \in Pixel
    BY FirstIsVersion DEF Pixel
  <2> HIDE DEF Present
  <2> QED
    BY <2>1, <2>2 DEF IsFrame
<1>6. to_flush # <<>>
  BY <1>3
<1> QED
  BY <1>1, <1>3, <1>4, <1>5, <1>6 DEF FrameInv, ShownOrDue, IsLast

\* A refresh is drawn over a frame that shows the screen.
LEMMA RenderKeeps == FrameInv /\ Render => FrameInv'
<1> SUFFICES ASSUME FrameInv, Render PROVE FrameInv'
  OBVIOUS
<1>0. /\ Present' = Present /\ dirty' = {} /\ \A line : IsShared(line)' = IsShared(line)
      /\ IsFrame(Present)'
  <2>1. UNCHANGED <<frame, cache, dirty, writers>> /\ dirty = {}
    BY DEF Render, frameVars, FrameInv
  <2>2. Present' = Present
    BY <2>1 DEF Present
  <2>3. IsFrame(Present)' = IsFrame(Present)
    BY <2>2 DEF IsFrame
  <2> QED
    BY <2>1, <2>2, <2>3 DEF IsShared, FrameInv
<1>1. /\ rotation' = rotation
      /\ Screen' = Screen /\ Width' = Width /\ Height' = Height
      /\ \A p : Turned(p, Width, Height)' = Turned(p, Width, Height)
      /\ Flush' = Flush
  BY DEF Render, Screen, Points, Width, Height, IsQuarterTurn, Turned, Flush, WholeScreen, IsOnScreen
<1>2. PICK n \in 1 .. MaxAreas :
        \E drawn \in [1 .. n -> [area : {a \in Areas : IsOnScreen(a)}, version : Versions]] :
            screen' = Draws(drawn) /\ to_flush' = drawn
  BY DEF Render
<1>3. PICK drawn \in [1 .. n -> [area : {a \in Areas : IsOnScreen(a)}, version : Versions]] :
        screen' = Draws(drawn) /\ to_flush' = drawn
  BY <1>2
<1>4. drawn \in Seq(Flush) /\ Len(drawn) = n /\ DOMAIN drawn = 1 .. n
  <2>1. n \in Nat
    OBVIOUS
  <2>2. drawn \in [1 .. n -> Flush]
    BY DEF Flush
  <2> HIDE DEF Flush
  <2> QED
    BY <2>1, <2>2
<1>5. ASSUME NEW p \in Screen PROVE ShownOrDue(p)'
  <2> DEFINE over == Over(drawn, p)
  <2>1. over = {i \in DOMAIN drawn : Covers(drawn[i].area, p)} /\ Over(to_flush, p)' = over
    BY <1>3, <1>4 DEF Over, Covers
  <2>2. screen'[p] = IF over = {} THEN screen[p]
                     ELSE drawn[CHOOSE i \in over : \A j \in over : j <= i].version
    BY <1>3, <2>1 DEF Draws
  <2>3. CASE over = {}
    <3>1. to_flush = <<>> /\ Over(to_flush, p) = {}
      BY DEF Render, Over
    <3>2. ~IsShared(Line(Turned(p, Width, Height))) =>
            Latest(Present, Turned(p, Width, Height)) = [point |-> p, version |-> screen[p]]
      BY <3>1 DEF FrameInv, ShownOrDue
    <3>3. /\ Turned(p, Width, Height)' = Turned(p, Width, Height)
          /\ Latest(Present, Turned(p, Width, Height))' = Latest(Present, Turned(p, Width, Height))
          /\ IsShared(Line(Turned(p, Width, Height)))' = IsShared(Line(Turned(p, Width, Height)))
      BY <1>0, <1>1 DEF Latest
    <3>4. screen'[p] = screen[p]
      BY <2>2, <2>3
    <3> QED
      BY <2>1, <2>3, <3>2, <3>3, <3>4 DEF ShownOrDue, IsLast
  <2>4. CASE over # {}
    <3>1. ASSUME NEW i, IsLast(i, over) PROVE drawn[i].version = screen'[p]
      <4>1. (CHOOSE k \in over : \A j \in over : j <= k) = i
        <5>1. over \subseteq Int
          BY <1>4 DEF Over
        <5> HIDE DEF over
        <5>2. \A k \in over : (\A j \in over : j <= k) <=> k = i
          BY <3>1, <5>1 DEF IsLast
        <5> QED
          BY <3>1, <5>2 DEF IsLast
      <4> QED
        BY <2>2, <2>4, <4>1
    <3> QED
      BY <1>3, <2>1, <2>4, <3>1 DEF ShownOrDue, IsLast
  <2> QED
    BY <2>3, <2>4
<1> QED
  BY <1>0, <1>1, <1>3, <1>4, <1>5 DEF FrameInv

\* The area that is flushed shows what it covers; a later one goes over it.
LEMMA FlushKeeps == FrameInv /\ RotatedFlushCb => FrameInv'
<1> SUFFICES ASSUME FrameInv, RotatedFlushCb PROVE FrameInv'
  OBVIOUS
<1> DEFINE next == Head(to_flush)
           rest == Tail(to_flush)
<1>1. /\ rotation' = rotation /\ screen' = screen /\ to_flush' = rest
      /\ Screen' = Screen /\ Width' = Width /\ Height' = Height
      /\ \A p : Turned(p, Width, Height)' = Turned(p, Width, Height)
      /\ Flush' = Flush
  BY DEF RotatedFlushCb, Screen, Points, Width, Height, IsQuarterTurn, Turned, Flush, WholeScreen,
     IsOnScreen
<1>2. /\ to_flush # <<>> /\ next \in Flush /\ rest \in Seq(Flush) /\ next = to_flush[1]
      /\ Len(to_flush) \in Nat /\ Len(rest) = Len(to_flush) - 1
      /\ \A i \in 1 .. Len(rest) : rest[i] = to_flush[i + 1]
  BY HeadTailProperties DEF RotatedFlushCb, FrameInv
<1>3. IsArea(next.area) /\ rotation \in {90, 180, 270}
  BY <1>2, FlushedAreas DEF FrameInv
<1> DEFINE pixels == Pixels(next.area, next.version,
                            RotateAccelerated(AreaWidth(next.area), AreaHeight(next.area)))
           Back(m) == IF rest = <<>> THEN m.dirty ELSE {}
           Kept(m) == LeftBy(m, Back(m), {})
<1>4. PICK m \in {ByCpu(pixels), ByPpa(pixels)} :
        /\ frame' = WrittenBack(Back(m), m.frame, m.cache)
        /\ dirty' = IF rest = <<>> THEN {} ELSE m.dirty
        /\ cache' = m.cache
        /\ writers' = m.writers
  <2>1. AreaWidth(next.area) \in Nat /\ AreaHeight(next.area) \in Nat
    BY <1>3 DEF IsArea, AreaWidth, AreaHeight
  <2>2. Rotate(AreaWidth(next.area), AreaHeight(next.area))
            = RotateAccelerated(AreaWidth(next.area), AreaHeight(next.area))
    BY <1>3, <2>1, RotateIsTurned
  <2>3. PICK accelerated \in Accelerators :
            LET turned ==
                    IF accelerated
                    THEN ByPpa(pixels)
                    ELSE ByCpu(Pixels(next.area, next.version,
                                      Rotate(AreaWidth(next.area), AreaHeight(next.area))))
            IN  /\ frame' = WrittenBack(IF rest = <<>> THEN turned.dirty ELSE {}, turned.frame, turned.cache)
                /\ dirty' = IF rest = <<>> THEN {} ELSE turned.dirty
                /\ cache' = turned.cache
                /\ writers' = turned.writers
    BY DEF RotatedFlushCb
  <2> HIDE DEF pixels, next, rest
  <2> QED
    BY <2>2, <2>3 DEF pixels
<1>6. /\ DOMAIN pixels \subseteq Panel /\ pixels \in [DOMAIN pixels -> Pixel]
      /\ \A s \in Screen :
            /\ Turned(s, Width, Height) \in DOMAIN pixels <=> Covers(next.area, s)
            /\ Covers(next.area, s) =>
                pixels[Turned(s, Width, Height)] = [point |-> s, version |-> next.version]
  <2>1. next.version \in Versions
    BY <1>2 DEF Flush
  <2> QED
    BY <1>3, <2>1, PixelsAreOfArea
<1> HIDE DEF pixels, next, rest
<1>7. /\ IsFrame(m)
      /\ \A q \in Panel : ~Shares(m, Line(q)) =>
            IF q \in DOMAIN pixels THEN Latest(m, q) = pixels[q]
            ELSE ~IsShared(Line(q)) /\ Latest(m, q) = Latest(Present, q)
  BY <1>6, WritesPut DEF FrameInv
<1>8. Present' = Kept(m)
  <2>1. [q \in Panel |-> IF Line(q) \in {} THEN NotCached ELSE m.cache[q]] = m.cache
    BY <1>7 DEF IsFrame
  <2>2. m.dirty \ Back(m) = IF rest = <<>> THEN {} ELSE m.dirty
    OBVIOUS
  <2> QED
    BY <1>4, <2>1, <2>2 DEF Present, LeftBy
<1>9. IsFrame(Kept(m)) /\ \A q \in Panel : Latest(Kept(m), q) = Latest(m, q)
  <2>1. Back(m) \subseteq m.dirty /\ {} \cap m.dirty \subseteq Back(m)
    OBVIOUS
  <2> QED
    BY <1>7, <2>1, WrittenBackKeeps DEF KeepsFrame
<1>10. /\ IsFrame(Present)'
       /\ \A q \in Panel : Latest(Present, q)' = Latest(m, q)
       /\ \A line : IsShared(line)' = Shares(m, line)
  <2>1. IsFrame(Present)' = IsFrame(Kept(m))
    BY <1>8 DEF IsFrame
  <2>2. \A q : Latest(Present, q)' = Latest(Kept(m), q)
    BY <1>8 DEF Latest
  <2>3. \A line : IsShared(line)' = Shares(m, line)
    BY <1>4 DEF IsShared, Shares
  <2> HIDE DEF Kept
  <2> QED
    BY <1>9, <2>1, <2>2, <2>3
<1>5. ASSUME NEW p \in Screen PROVE ShownOrDue(p)'
  <2> PICK q \in Panel : q = Turned(p, Width, Height)
    BY <1>3, TurnedIsInjective
  <2> DEFINE over == Over(to_flush, p)
             later == Over(rest, p)
  <2>6. ~IsShared(Line(q))' =>
            IF Covers(next.area, p) THEN Latest(Present, q)' = [point |-> p, version |-> next.version]
            ELSE ~IsShared(Line(q)) /\ Latest(Present, q)' = Latest(Present, q)
    BY <1>6, <1>7, <1>10
  <2>2. /\ over \subseteq Nat \ {0} /\ later \subseteq Nat \ {0}
        /\ 1 \in over <=> Covers(next.area, p)
        /\ \A i \in later : i + 1 \in over
        /\ \A j \in over : j = 1 \/ j - 1 \in later
    BY <1>2 DEF Over
  <2>3. Over(to_flush, p)' = later
    BY <1>1 DEF Over, Covers
  <2>0. ShownOrDue(p)
    BY DEF FrameInv
  <2> HIDE DEF over, later
  <2>4. ASSUME NEW i \in 1 .. Len(rest), IsLast(i, later) PROVE rest[i].version = screen[p]
    <3>1. IsLast(i + 1, over)
      <4>1. i \in later /\ i \in Nat \ {0} /\ \A j \in later : j <= i
        BY <2>2, <2>4 DEF IsLast
      <4>2. \A j \in over : j <= i + 1
        BY <2>2, <4>1
      <4> QED
        BY <2>2, <4>1, <4>2 DEF IsLast
    <3>2. i + 1 \in 1 .. Len(to_flush)
      BY <1>2
    <3> QED
      BY <1>2, <2>0, <2>4, <3>1, <3>2 DEF ShownOrDue, over
  <2>5. ASSUME later = {}, ~IsShared(Line(q))'
        PROVE  Latest(Present, q)' = [point |-> p, version |-> screen[p]]
    <3>1. over \subseteq {1}
      BY <2>2, <2>5
    <3>2. CASE Covers(next.area, p)
      <4>1. IsLast(1, over) /\ 1 \in 1 .. Len(to_flush)
        BY <1>2, <2>2, <3>1, <3>2 DEF IsLast, over, Over
      <4>2. next.version = screen[p]
        BY <1>2, <2>0, <4>1 DEF ShownOrDue, over
      <4> QED
        BY <2>5, <2>6, <3>2, <4>2
    <3>3. CASE ~Covers(next.area, p)
      <4>1. over = {}
        BY <2>2, <3>1, <3>3
      <4> QED
        BY <2>0, <2>5, <2>6, <3>3, <4>1 DEF ShownOrDue, over
    <3> QED
      BY <3>2, <3>3
  <2>7. IsShared(Line(Turned(p, Width, Height)))' = IsShared(Line(q))'
    BY <1>1 DEF IsShared
  <2>8. Latest(Present, Turned(p, Width, Height))' = Latest(Present, q)'
    BY <1>1 DEF Latest
  <2> QED
    BY <1>1, <2>3, <2>4, <2>5, <2>7, <2>8 DEF ShownOrDue
<1>11. (to_flush = <<>> => dirty = {})'
  BY <1>1, <1>4
<1> QED
  BY <1>1, <1>2, <1>5, <1>10, <1>11 DEF FrameInv

\* An eviction leaves what was written last.
LEMMA EvictKeeps == ASSUME FrameInv, NEW line \in Lines, Evict(line) PROVE FrameInv'
<1> DEFINE back == dirty \cap {line}
           kept == LeftBy(Present, back, {line})
<1>1. /\ UNCHANGED <<rotation, screen, to_flush, writers>>
      /\ Screen' = Screen /\ Width' = Width /\ Height' = Height
      /\ \A p : Turned(p, Width, Height)' = Turned(p, Width, Height)
      /\ Flush' = Flush
      /\ \A p : Over(to_flush, p)' = Over(to_flush, p)
  BY DEF Evict, Screen, Points, Width, Height, IsQuarterTurn, Turned, Flush, WholeScreen, IsOnScreen,
     Over, Covers
<1>2. IsFrame(kept) /\ \A q \in Panel : Latest(kept, q) = Latest(Present, q)
  <2>1. back \subseteq Present.dirty /\ {line} \cap Present.dirty \subseteq back
    BY DEF Present
  <2> QED
    <3>1. IsFrame(Present)
      BY DEF FrameInv
    <3> HIDE DEF back
    <3> QED
      BY <2>1, <3>1, WrittenBackKeeps DEF KeepsFrame
<1>3. Present' = kept
  <2>1. /\ frame' = WrittenBack(back, frame, cache)
        /\ cache' = [q \in Panel |-> IF Line(q) \in {line} THEN NotCached ELSE cache[q]]
        /\ dirty' = dirty \ back /\ writers' = writers
    BY DEF Evict
  <2> QED
    BY <2>1 DEF Present, LeftBy
<1> HIDE DEF kept
<1>4. IsFrame(Present)' /\ \A q \in Panel : Latest(Present, q)' = Latest(Present, q)
  <2>1. IsFrame(Present)' = IsFrame(kept)
    BY <1>3 DEF IsFrame
  <2>2. \A q : Latest(Present, q)' = Latest(kept, q)
    BY <1>3 DEF Latest
  <2> QED
    BY <1>2, <2>1, <2>2
<1>5. ASSUME NEW p \in Screen PROVE ShownOrDue(p)'
  <2> PICK q \in Panel : q = Turned(p, Width, Height)
    BY TurnedIsInjective DEF FrameInv
  <2>1. ShownOrDue(p)
    BY DEF FrameInv
  <2>2. /\ IsShared(Line(Turned(p, Width, Height)))' = IsShared(Line(q))
        /\ Latest(Present, Turned(p, Width, Height))' = Latest(Present, q)'
    BY <1>1 DEF IsShared, Latest
  <2>3. Latest(Present, q)' = Latest(Present, q)
    BY <1>4
  <2> QED
    BY <1>1, <2>1, <2>2, <2>3 DEF ShownOrDue, IsLast
<1>6. (to_flush = <<>> => dirty = {})'
  BY <1>1 DEF Evict, FrameInv
<1> QED
  BY <1>1, <1>4, <1>5, <1>6 DEF FrameInv

LEMMA FrameInvHolds == Spec => []FrameInv
<1>1. Init => FrameInv
  BY FrameInvInit DEF Init
<1>2. FrameInv /\ UNCHANGED rendererVars => FrameInv'
  <2> SUFFICES ASSUME FrameInv, UNCHANGED rendererVars PROVE FrameInv'
    OBVIOUS
  <2>1. /\ UNCHANGED <<rotation, screen, to_flush, frame, cache, dirty, writers>>
        /\ Screen' = Screen /\ Width' = Width /\ Height' = Height /\ Flush' = Flush
        /\ \A p : Turned(p, Width, Height)' = Turned(p, Width, Height)
        /\ \A p : Over(to_flush, p)' = Over(to_flush, p)
    BY DEF rendererVars, frameVars, Screen, Points, Width, Height, IsQuarterTurn, Turned, Flush,
       WholeScreen, IsOnScreen, Over, Covers
  <2>2. Present' = Present
    BY <2>1 DEF Present
  <2>3. /\ IsFrame(Present)' = IsFrame(Present)
        /\ \A q : Latest(Present, q)' = Latest(Present, q)
    BY <2>2 DEF IsFrame, Latest
  <2>4. ASSUME NEW p \in Screen, ShownOrDue(p) PROVE ShownOrDue(p)'
    <3>1. /\ IsShared(Line(Turned(p, Width, Height)))' = IsShared(Line(Turned(p, Width, Height)))
          /\ Latest(Present, Turned(p, Width, Height))' = Latest(Present, Turned(p, Width, Height))
      BY <2>1, <2>3 DEF IsShared, Latest
    <3> QED
      BY <2>1, <2>4, <3>1 DEF ShownOrDue, IsLast
  <2> QED
    BY <2>1, <2>3, <2>4 DEF FrameInv
<1>3. FrameInv /\ [Next]_allVars => FrameInv'
  BY <1>2, RenderKeeps, FlushKeeps, EvictKeeps DEF Next, Amoled, Lcd, RendererNext, allVars
<1> QED
  BY <1>1, <1>3, PTL DEF Spec

\* For every panel, tile, cache line, turn and areas, and whenever the cache is evicted:
\* once a refresh is flushed, the frame that is scanned out is the screen turned, at every
\* point but those of a line that the CPU and the PPA both wrote to since the CPU last
\* wrote the whole of it (ui_renderer_service.cpp:194).
THEOREM FrameIsTheScreenHolds == Spec => []FrameIsTheScreen
<1>1. FrameInv => FrameIsTheScreen
  <2> SUFFICES ASSUME FrameInv, to_flush = <<>>, NEW p \in Screen,
                      ~IsShared(Line(Turned(p, Width, Height)))
               PROVE  frame[Turned(p, Width, Height)] = [point |-> p, version |-> screen[p]]
    BY DEF FrameIsTheScreen
  <2>1. Over(to_flush, p) = {} /\ dirty = {}
    BY DEF FrameInv, Over
  <2> QED
    BY <2>1 DEF FrameInv, ShownOrDue, Latest, Present
<1> QED
  BY <1>1, FrameInvHolds, PTL

=============================================================================
