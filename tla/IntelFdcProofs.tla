--------------------------- MODULE IntelFdcProofs ---------------------------
(***************************************************************************)
(* Proofs about IntelFdc: for any programs of the 6502, any tracks and       *)
(* sectors and sizes of any length, the chip, the line of the 6502, the      *)
(* write gate and the drives stay in step, the 6502 is asked for each byte,  *)
(* and learns of the end of every command.                                  *)
(***************************************************************************)
EXTENDS IntelFdc, TLAPS

-----------------------------------------------------------------------------
(* The invariant.                                                            *)

Fields ==
  {"busy", "nmi", "need", "irqs", "noDma", "level", "edge", "result", "resultReady", "select", "load", "gate",
   "held", "inwards", "spinning", "head", "media", "accepts", "retries", "onIndex", "indexCount", "wasIndex", "timer",
   "ticking", "call", "didStep", "state", "count", "left", "crcBytes", "routine", "asked", "command", "wanted",
   "track", "sectors", "second", "target", "steps", "trackReg", "badTrack", "ready", "protected", "specified",
   "failed"}

\* The fields that are true or false.
FlagFields ==
  {"busy", "nmi", "need", "irqs", "noDma", "level", "edge", "resultReady", "wasIndex", "ticking", "didStep",
   "protected", "specified"}
Flags(f) == \A x \in FlagFields : f[x] \in BOOLEAN

\* The head's place, and where it is to go.
Places(f) ==
  /\ f.head \in [Drives -> 0..MaxTrack] /\ f.trackReg \in [Drives -> Registers]
  /\ f.track \in Registers /\ f.target \in Registers /\ f.steps \in Registers /\ f.badTrack \in Registers
  /\ f.second \in Registers /\ f.wanted \in Drives \cup {None}

\* The drive port: the drive that turns is the selected one with its head loaded.
Port(f) ==
  /\ f.select \in Drives \cup {None} /\ f.load \in BOOLEAN /\ f.gate \in BOOLEAN /\ f.inwards \in BOOLEAN
  /\ f.held \in BOOLEAN /\ f.spinning \in [Drives -> BOOLEAN]
  /\ \A d \in Drives : f.spinning[d] <=> f.select = d /\ f.load

Counters(f) ==
  /\ f.asked \in 0..(SectorBytes + HeaderBytes) /\ f.crcBytes \in 0..3
  /\ f.indexCount \in Int /\ f.left \in Int /\ f.count \in Int

Others(f) ==
  /\ f.result \subseteq Results
  /\ f.media \in [Drives -> Media] /\ f.ready \in [Drives -> BOOLEAN]
  /\ f.failed \in {"no"} \cup Failures

\* What holds of every struct a function leaves behind, also half way.
Base(f) == DOMAIN f = Fields /\ Flags(f) /\ Places(f) /\ Port(f) /\ Counters(f) /\ Others(f)

Resting(f) == f.timer = "none" /\ ~f.ticking

\* The write gate is open at most as the 6502 left it.
Shut(f) == f.gate => f.held

\* No command runs.
Idle(f) ==
  /\ ~f.busy /\ f.accepts = "none" /\ Resting(f) /\ f.state = "idle" /\ f.onIndex \in {"none", "spindown"}
  /\ ~f.irqs /\ Shut(f)
  /\ f.retries = 0 /\ f.sectors = 0 /\ f.routine = 0 /\ f.asked = 0 /\ f.call = "none"

\* A command waits for its parameters.
Asking(f) ==
  /\ f.busy /\ f.accepts \in {"command", "specify"} /\ Resting(f) /\ f.state = "idle"
  /\ f.onIndex \in {"none", "spindown"} /\ ~f.irqs /\ Shut(f)
  /\ f.command \in AllCommands \ {"drive_status"} /\ f.retries \in 1..5
  /\ f.accepts = "specify" => f.command \in {"specify_timings", "specify_tracks"} /\ f.retries <= 3
  /\ f.command = "set_mode" => ~f.level
  /\ f.sectors \in 0..31 /\ f.routine = 0 /\ f.asked = 0 /\ f.result = {} /\ f.call = "none"

\* A command that moves the head has its parameters.
Working(f) ==
  /\ f.busy /\ f.accepts = "none" /\ f.command \in AllCommands \ Simple
  /\ f.retries \in 0..2 /\ f.sectors \in 1..31 /\ f.result \subseteq {"deleted"}
  /\ f.routine \in 0..12

\* A seek that has not arrived at track zero is on its way.
Homing(f) ==
  f.command = "seek" /\ f.select # None =>
    /\ f.select = f.wanted /\ f.trackReg[f.select] = f.target
    /\ f.target = 0 => IF f.timer = "seek_step" THEN ~f.inwards /\ f.head[f.select] <= f.steps
                                                ELSE f.head[f.select] = 0

\* While the head moves no byte counts: none is looked at, or those after a header of
\* another track.
Aside(f) ==
  \/ f.state = "idle" /\ f.onIndex \in {"none", "spindown"}
  \/ f.state = "in_id_crc" /\ f.crcBytes >= 2 /\ f.onIndex = "timeout" /\ Routine(f.command) \in {"read", "write"}

\* The head moves or settles.
Seeking(f) ==
  /\ Working(f) /\ f.timer \in {"seek_step", "post_seek"} /\ f.ticking /\ ~f.irqs /\ Shut(f)
  /\ f.call = Routine(f.command) /\ Homing(f) /\ Aside(f)

\* The head is in place, on a disc that turns, or where it happens to be.
Placed(f) ==
  /\ Working(f) /\ Resting(f) /\ f.command # "seek"
  /\ (f.select \in Drives /\ f.load) \/ Direct(f)

AwaitingIndex(f) ==
  /\ Placed(f) /\ f.state = "idle" /\ ~f.irqs /\ Shut(f) /\ f.call = f.command
  /\ \/ f.onIndex = "start_read_id" /\ f.command = "read_id"
     \/ f.onIndex = "start_format" /\ f.command = "format" /\ ~f.protected

\* Deleted data is not read out, nor any to be verified.
Quiet(f) ==
  /\ ~f.irqs /\ f.asked = 0
  /\ f.command = "verify" \/ (f.command # "read_deleted" /\ "deleted" \in f.result)

\* What a search for a header and what the reading of data has come to.
Searched(f) ==
  \/ /\ f.state \in {"syncing_for_id_wait", "syncing_for_id", "check_id_marker", "in_id", "in_id_crc"}
     /\ f.call = "read" => f.count = SectorBytes
     /\ f.state \in {"syncing_for_id", "check_id_marker"} => f.left = HeaderBytes
     /\ f.state = "in_id" => f.left \in 1..HeaderBytes
     /\ f.irqs <=> f.state = "in_id" /\ f.command = "read_id"
     /\ f.command = "read_id" /\ f.state = "in_id" => f.asked = HeaderBytes - f.left
     /\ f.command = "read_id" /\ f.state = "in_id_crc" => f.asked = HeaderBytes
  \/ /\ f.state = "skip_gap_2" /\ f.call \in {"read", "write"} /\ ~f.irqs
     /\ f.left \in 1..SkipBytes
     /\ f.count = IF f.call = "read" THEN SectorBytes ELSE SyncBytes
  \/ /\ f.state \in {"syncing_for_data", "check_data_marker"} /\ f.call = "read" /\ ~f.irqs
     /\ f.count = SectorBytes
  \/ /\ f.state = "in_data" /\ f.call = "read" /\ f.count \in 1..SectorBytes
     /\ Quiet(f) \/ (f.irqs /\ f.command # "verify" /\ f.asked = SectorBytes - f.count)
  \/ /\ f.state = "in_data_crc" /\ f.call = "read" /\ ~f.irqs
     /\ Quiet(f) \/ (f.command # "verify" /\ f.asked = SectorBytes)

\* The track is read, by a routine that gives up unless it reads headers only; where
\* the head happens to be it may also be unloaded.
OnTrack(f) ==
  /\ Placed(f) /\ Shut(f)
  /\ f.onIndex \in {"none", "timeout"} \/ (Direct(f) /\ f.onIndex = "spindown")
  /\ f.command = "read_id" => f.call \notin {"read", "write"}
  /\ f.command # "read_id" =>
       f.call = Routine(f.command) /\ f.call \in {"read", "write"} /\ f.onIndex = "timeout"
  /\ f.call = "write" => ~f.protected

Searching(f) == OnTrack(f) /\ Searched(f)

\* A sector is written: zeros, the mark, the data, the CRC.
SectorWritten(f) ==
  /\ f.command = "write" /\ f.call = "write" /\ f.onIndex \in {"none", "timeout"}
  /\ \/ f.state = "write_run" /\ ~f.irqs /\ f.count >= 1
     \/ f.state = "write_data_mark" /\ f.irqs /\ f.asked = 0
     \/ f.state = "write_sector_data" /\ f.irqs /\ f.count \in 1..(SectorBytes - 1) /\ f.asked = SectorBytes - f.count
     \/ f.state = "dynamic_dispatch" /\ ~f.irqs /\ f.routine \in 0..2 /\ f.asked = SectorBytes
     \/ f.state \in {"write_crc_2", "write_crc_3"} /\ ~f.irqs /\ f.routine = 2 /\ f.asked = SectorBytes

\* A track is formatted, one sector after the other, up to the index pulse.
TrackFormatted(f) ==
  /\ f.command = "format" /\ f.onIndex = IF f.state = "format_gap_4" THEN "stop_format" ELSE "none"
  /\ \/ /\ f.state = "write_run" /\ ~f.irqs /\ f.count >= 1
        /\ \/ f.call \in {"format_FFs", "format_00s"} /\ f.routine = 4
           \/ f.call \in {"format_GAP2_FFs", "format_GAP2_00s"} /\ f.routine = 10
           \/ f.call = "format_data" /\ f.routine = 11
     \/ f.state = "format_write_id_marker" /\ f.irqs /\ f.asked = 0 /\ f.routine = 4
     \/ f.state = "dynamic_dispatch" /\ f.routine \in 4..6 /\ f.irqs /\ f.asked = f.routine - 3
     \/ f.state = "dynamic_dispatch" /\ f.routine \in 7..8 /\ ~f.irqs /\ f.asked = HeaderBytes
     \/ f.state = "dynamic_dispatch" /\ f.routine \in 9..11 /\ ~f.irqs
     \/ f.state = "format_id_crc_2" /\ f.routine = 9 /\ ~f.irqs /\ f.asked = HeaderBytes
     \/ f.state = "format_id_crc_3" /\ f.routine = 9 /\ ~f.irqs
     \/ f.state = "format_write_data_marker" /\ f.routine = 10 /\ ~f.irqs
     \/ f.state \in {"format_data_crc_2", "format_data_crc_3"} /\ f.routine = 11 /\ ~f.irqs
     \/ f.state = "format_gap_4" /\ f.sectors = 1 /\ ~f.irqs

\* The write gate is open, on a disc that is not protected.
GateOpen(f) == Placed(f) /\ f.gate /\ ~f.protected

WritingDisc(f) == GateOpen(f) /\ (SectorWritten(f) \/ TrackFormatted(f))

Phase(f) ==
  Idle(f) \/ Asking(f) \/ Seeking(f) \/ AwaitingIndex(f) \/ Searching(f) \/ WritingDisc(f)

Sound(f) == Base(f) /\ f.level = f.nmi /\ Phase(f)
SoundNow == Sound(fdc) /\ program \in Programs

-----------------------------------------------------------------------------
(* What a function changes.                                                  *)

\* The fields by what holds of them; of those in FreeFields nothing does.
PlaceFields == {"head", "trackReg", "track", "second", "target", "steps", "badTrack", "wanted"}
PortFields == {"select", "load", "gate", "held", "inwards", "spinning"}
CounterFields == {"asked", "crcBytes", "indexCount", "left", "count"}
OtherFields == {"result", "media", "ready", "failed"}
FreeFields == {"accepts", "retries", "onIndex", "timer", "call", "state", "routine", "command", "sectors"}

\* From f to g no field changes but some of S.
Changes(f, g, S) == DOMAIN g = Fields /\ \A x \in Fields \ S : g[x] = f[x]

\* The line rises with an edge, and an edge is not forgotten; a result is late
\* only with one.
Told(f, g) ==
  /\ f.edge => g.edge
  /\ g.level => g.edge \/ f.level
  /\ "late_dma" \in g.result => g.edge \/ "late_dma" \in f.result

\* A seek that succeeds at track zero has found it.
Found(f, g) ==
  f.command = "seek" /\ ~g.busy /\ g.nmi /\ g.result = {} /\ g.trackReg[f.wanted] = 0
    => g.head[f.wanted] = 0

\* Where a function may lead.
Leads(f, g) == Sound(g) /\ Told(f, g) /\ Found(f, g)

\* What is assumed of the sizes, as the provers use it.
LEMMA Sizes ==
  /\ RegMod \in Nat /\ MaxTrack \in Nat /\ MaxTrack >= 1 /\ MaxTrack <= RegMod - 1
  /\ SectorBytes \in Nat /\ SectorBytes > 1 /\ HeaderBytes = 4
  /\ SkipBytes \in Nat /\ SkipBytes >= 1 /\ SyncBytes \in Nat /\ SyncBytes >= 1
  /\ GapBytes \in Nat /\ GapBytes >= 1 /\ TimeoutPulses \in Nat /\ TimeoutPulses >= 1
  /\ Registers = 0..(RegMod - 1) /\ 0 \in Registers
  /\ Drive0 # Drive1 /\ None \notin Drives /\ Drives = {Drive0, Drive1}
BY IntelAssumption DEF IntelAssumption, HeaderBytes, Registers, Drives

\* What one function and then another changes.
LEMMA ChangesTwice ==
  ASSUME NEW f, NEW g, NEW h, NEW S, NEW T, Changes(f, g, S), Changes(g, h, T)
  PROVE  Changes(f, h, S \cup T)
BY DEF Changes

\* Flags that are set to TRUE or FALSE are flags still.
LEMMA FlagsKept ==
  ASSUME NEW f, NEW g, NEW S, Base(f), Changes(f, g, S), \A x \in S \cap FlagFields : g[x] \in BOOLEAN
  PROVE  Flags(g)
BY DEF Base, Flags, Changes, Fields, FlagFields

\* A function that keeps what holds of the fields it changes keeps what holds of
\* the struct.
LEMMA BaseKept ==
  ASSUME NEW f, NEW g, NEW S, Base(f), Changes(f, g, S),
         \A x \in S : \/ x \in FreeFields
                      \/ x \in FlagFields /\ Flags(g)
                      \/ x \in PlaceFields /\ Places(g)
                      \/ x \in PortFields /\ Port(g)
                      \/ x \in CounterFields /\ Counters(g)
                      \/ x \in OtherFields /\ Others(g)
  PROVE  Base(g)
<1>1. CASE ~Flags(g)
  <2>1. \A x \in FlagFields : g[x] = f[x]
    BY <1>1 DEF Changes, Fields, FlagFields, PlaceFields, PortFields, CounterFields, OtherFields, FreeFields
  <2> QED BY <1>1, <2>1 DEF Base, Flags
<1>2. CASE ~Places(g)
  <2>1. \A x \in PlaceFields : g[x] = f[x]
    BY <1>2 DEF Changes, Fields, FlagFields, PlaceFields, PortFields, CounterFields, OtherFields, FreeFields
  <2> QED BY <1>2, <2>1 DEF PlaceFields, Base, Places
<1>3. CASE ~Port(g)
  <2>1. \A x \in PortFields : g[x] = f[x]
    BY <1>3 DEF Changes, Fields, FlagFields, PlaceFields, PortFields, CounterFields, OtherFields, FreeFields
  <2> QED BY <1>3, <2>1 DEF PortFields, Base, Port
<1>4. CASE ~Counters(g)
  <2>1. \A x \in CounterFields : g[x] = f[x]
    BY <1>4 DEF Changes, Fields, FlagFields, PlaceFields, PortFields, CounterFields, OtherFields, FreeFields
  <2> QED BY <1>4, <2>1 DEF CounterFields, Base, Counters
<1>5. CASE ~Others(g)
  <2>1. \A x \in OtherFields : g[x] = f[x]
    BY <1>5 DEF Changes, Fields, FlagFields, PlaceFields, PortFields, CounterFields, OtherFields, FreeFields
  <2> QED BY <1>5, <2>1 DEF OtherFields, Base, Others
<1> QED BY <1>1, <1>2, <1>3, <1>4, <1>5 DEF Base, Changes

\* What is told of by one function and then by another is told.
LEMMA ToldTwice ==
  ASSUME NEW f, NEW g, NEW h, Told(f, g), Told(g, h)
  PROVE  Told(f, h)
BY DEF Told

\* Where no line and no result is touched there is nothing to tell.
LEMMA NothingToTell ==
  ASSUME NEW f, NEW g, g.edge = f.edge, g.level = f.level, g.result = f.result
  PROVE  Told(f, g)
BY DEF Told

\* The line of the 6502 (intel_fdc_update_nmi).
LEMMA SetLevelKeeps ==
  ASSUME NEW f, Base(f), NEW level \in BOOLEAN
  PROVE  LET g == SetLevel(f, level)
         IN  /\ Base(g) /\ Changes(f, g, {"level", "edge"}) /\ Told(f, g)
             /\ g.level = level
             /\ level /\ ~f.level => g.edge
<1> DEFINE edge == f.edge \/ (level /\ ~f.level)
           g == [f EXCEPT !.level = level, !.edge = edge]
<1>1. SetLevel(f, level) = g BY DEF SetLevel, Base, Fields
<1>2. edge \in BOOLEAN /\ (f.edge => edge) /\ (level /\ ~f.level => edge) OBVIOUS
<1> HIDE DEF edge
<1>3. Changes(f, g, {"level", "edge"}) /\ g.level = level /\ g.edge = edge BY DEF Base, Changes, Fields
<1> HIDE DEF g
<1>4. Flags(g) BY <1>2, <1>3, FlagsKept DEF FlagFields
<1>5. Base(g) BY <1>3, <1>4, BaseKept DEF FlagFields
<1>6. g.result = f.result BY <1>3 DEF Changes, Fields
<1>7. Told(f, g) BY <1>2, <1>3, <1>6 DEF Told
<1> QED BY <1>1, <1>2, <1>3, <1>5, <1>7 DEF g

PortIs(g, select, load, gate, inwards) ==
  g.select = select /\ g.load = load /\ g.gate = gate /\ g.inwards = inwards

\* The drive port is written: the drive that turned is stopped, the one selected
\* is started if its head is loaded (intel_fdc_set_drive_out, intel_fdc.c).
LEMMA SetDriveOutKeeps ==
  ASSUME NEW f, Base(f), NEW select \in Drives \cup {None}, NEW load \in BOOLEAN, NEW gate \in BOOLEAN,
         NEW inwards \in BOOLEAN
  PROVE  LET g == SetDriveOut(f, select, load, gate, inwards)
         IN  /\ Base(g) /\ Changes(f, g, PortFields) /\ PortIs(g, select, load, gate, inwards)
             /\ Shut(f) /\ (gate => f.gate) => Shut(g)
<1> DEFINE held == f.held /\ gate
           stopped == IF f.select # None /\ f.load THEN StopSpinning(f, f.select) ELSE f
           out == [stopped EXCEPT !.select = select, !.load = load, !.gate = gate, !.inwards = inwards, !.held = held]
           g == IF select # None /\ load THEN StartSpinning(out, select) ELSE out
<1>0. stopped.held = f.held
  <2>1. CASE f.select # None /\ f.load
    <3>1. stopped = [f EXCEPT !.spinning[f.select] = FALSE] BY <2>1 DEF StopSpinning, Base, Port
    <3> QED BY <3>1 DEF Base, Fields
  <2> QED BY <2>1
<1>1. SetDriveOut(f, select, load, gate, inwards) = g BY <1>0 DEF SetDriveOut
<1>2. /\ Changes(f, stopped, {"spinning"}) /\ stopped.spinning \in [Drives -> BOOLEAN]
      /\ \A d \in Drives : ~stopped.spinning[d]
  <2>1. CASE f.select # None /\ f.load
    <3>1. f.select \in Drives /\ f.spinning[f.select] BY <2>1 DEF Base, Port
    <3> DEFINE turning == [f.spinning EXCEPT ![f.select] = FALSE]
    <3>2. stopped = [f EXCEPT !.spinning = turning] BY <2>1, <3>1 DEF StopSpinning
    <3>3. turning \in [Drives -> BOOLEAN] /\ \A d \in Drives : ~turning[d] BY <2>1, <3>1 DEF Base, Port
    <3> HIDE DEF turning, stopped
    <3>4. Changes(f, stopped, {"spinning"}) /\ stopped.spinning = turning BY <3>2 DEF Base, Changes, Fields
    <3> QED BY <3>3, <3>4
  <2>2. CASE ~(f.select # None /\ f.load)
    <3>1. stopped = f BY <2>2
    <3> QED BY <2>2, <3>1, Sizes DEF Base, Port, Changes, Fields
  <2> QED BY <2>1, <2>2
<1> HIDE DEF stopped
<1>8. held \in BOOLEAN /\ (Shut(f) /\ (gate => f.gate) => (gate => held)) BY DEF Shut
<1> HIDE DEF held
<1>3. /\ Changes(stopped, out, {"select", "load", "gate", "inwards", "held"}) /\ out.spinning = stopped.spinning
      /\ out.select = select /\ out.load = load /\ out.gate = gate /\ out.inwards = inwards /\ out.held = held
  BY <1>2 DEF Changes, Fields
<1> HIDE DEF out
<1>4. /\ Changes(out, g, {"spinning"}) /\ g.spinning \in [Drives -> BOOLEAN]
      /\ \A d \in Drives : g.spinning[d] <=> select = d /\ load
      /\ g.select = select /\ g.load = load /\ g.gate = gate /\ g.inwards = inwards
  <2>1. CASE select # None /\ load
    <3> DEFINE turning == [out.spinning EXCEPT ![select] = TRUE]
    <3>1. g = [out EXCEPT !.spinning = turning] BY <1>2, <1>3, <2>1 DEF StartSpinning
    <3>2. turning \in [Drives -> BOOLEAN] /\ \A d \in Drives : turning[d] <=> select = d /\ load
      BY <1>2, <1>3, <2>1
    <3> HIDE DEF turning, g
    <3>3. Changes(out, g, {"spinning"}) /\ g.spinning = turning BY <1>3, <3>1 DEF Changes, Fields
    <3>4. g.select = select /\ g.load = load /\ g.gate = gate /\ g.inwards = inwards
      BY <1>3, <3>3 DEF Changes, Fields
    <3> QED BY <3>2, <3>3, <3>4
  <2>2. CASE ~(select # None /\ load)
    <3>1. g = out BY <2>2
    <3> QED BY <1>2, <1>3, <2>2, <3>1, Sizes DEF Changes, Fields
  <2> QED BY <2>1, <2>2
<1> HIDE DEF g
<1>5. Changes(f, g, PortFields) BY <1>2, <1>3, <1>4 DEF Changes, Fields, PortFields
<1>9. g.held = held BY <1>3, <1>4 DEF Changes, Fields
<1>6. Port(g) BY <1>4, <1>5, <1>8, <1>9 DEF Port, Changes, Fields, PortFields
<1>7. Base(g) BY <1>5, <1>6, BaseKept DEF PortFields
<1>10. Shut(f) /\ (gate => f.gate) => Shut(g) BY <1>4, <1>8, <1>9 DEF Shut
<1> QED BY <1>1, <1>4, <1>5, <1>7, <1>10 DEF g, PortIs

\* The ready bits are those of the selected drive, if it turns.
LEMMA ReadDriveStatusKeeps ==
  ASSUME NEW f, Base(f)
  PROVE  LET g == ReadDriveStatus(f)
         IN  /\ Base(g) /\ Changes(f, g, {"ready", "protected"})
             /\ g.ready[Unit(g)] => g.select = Unit(g) /\ g.select \in Drives /\ g.load
<1> DEFINE ready == [d \in Drives |-> f.ready[d] /\ IsReady(f, d)]
           on == IsProtected(f)
           g == [f EXCEPT !.ready = ready, !.protected = on]
<1>1. ReadDriveStatus(f) = g BY DEF ReadDriveStatus, Base, Fields
<1>2. ready \in [Drives -> BOOLEAN] /\ on \in BOOLEAN /\ \A d \in Drives : ready[d] => f.select = d /\ f.spinning[d]
  BY DEF IsReady, IsProtected, Base, Port
<1> HIDE DEF ready, on
<1>3. Changes(f, g, {"ready", "protected"}) /\ g.ready = ready /\ g.protected = on BY DEF Base, Changes, Fields
<1> HIDE DEF g
<1>4. Others(g) BY <1>2, <1>3 DEF Base, Others, Changes, Fields
<1>5. Flags(g) BY <1>2, <1>3, FlagsKept DEF FlagFields
<1>6. Base(g) BY <1>3, <1>4, <1>5, BaseKept DEF FlagFields, OtherFields
<1>7. Unit(g) \in Drives BY Sizes DEF Unit
<1>8. g.ready[Unit(g)] => g.select = Unit(g) /\ g.select \in Drives /\ g.load
  BY <1>2, <1>3, <1>6, <1>7 DEF Base, Port, Changes, Fields
<1> QED BY <1>1, <1>3, <1>6, <1>8 DEF g

ForgottenFields ==
  {"command", "wanted", "call", "track", "target", "steps", "sectors", "second", "didStep", "count", "left",
   "routine", "retries", "asked"}

\* What a command leaves in registers is not looked at again.
LEMMA ForgetKeeps ==
  ASSUME NEW f, Base(f)
  PROVE  LET g == Forget(f)
         IN  /\ Base(g) /\ Changes(f, g, ForgottenFields)
             /\ g.retries = 0 /\ g.sectors = 0 /\ g.routine = 0 /\ g.asked = 0 /\ g.call = "none"
<1> DEFINE a == [f EXCEPT !.command = "none", !.wanted = None, !.call = "none", !.track = 0, !.target = 0]
           b == [a EXCEPT !.steps = 0, !.sectors = 0, !.second = 0, !.didStep = FALSE, !.count = 0]
           g == [b EXCEPT !.left = 0, !.routine = 0, !.retries = 0, !.asked = 0]
<1>1. Forget(f) = g BY DEF Forget
<1>2. /\ Changes(f, a, ForgottenFields) /\ a.wanted = None /\ a.track = 0 /\ a.target = 0 /\ a.call = "none"
  BY DEF Base, Changes, Fields, ForgottenFields
<1> HIDE DEF a
<1>3. /\ Changes(f, b, ForgottenFields) /\ b.wanted = None /\ b.track = 0 /\ b.target = 0 /\ b.call = "none"
      /\ b.steps = 0 /\ b.sectors = 0 /\ b.second = 0 /\ b.didStep = FALSE /\ b.count = 0
  BY <1>2 DEF Changes, Fields, ForgottenFields
<1> HIDE DEF b
<1>4. /\ Changes(f, g, ForgottenFields) /\ g.wanted = None /\ g.track = 0 /\ g.target = 0 /\ g.call = "none"
      /\ g.steps = 0 /\ g.sectors = 0 /\ g.second = 0 /\ g.didStep = FALSE /\ g.count = 0
      /\ g.left = 0 /\ g.routine = 0 /\ g.retries = 0 /\ g.asked = 0
  BY <1>3 DEF Changes, Fields, ForgottenFields
<1> HIDE DEF g
<1>5. Places(g) BY <1>4, Sizes DEF Base, Places, Changes, Fields, ForgottenFields
<1>6. Counters(g) BY <1>4, Sizes DEF Base, Counters, Changes, Fields, ForgottenFields
<1>7. Flags(g) BY <1>4, FlagsKept DEF ForgottenFields, FlagFields
<1>8. Base(g)
  BY <1>4, <1>7, <1>5, <1>6, BaseKept DEF ForgottenFields, FlagFields, PlaceFields, CounterFields, FreeFields
<1> QED BY <1>1, <1>4, <1>8 DEF g

-----------------------------------------------------------------------------
(* The end of a command.                                                     *)

\* The timer ticks exactly when there is something it is for.
Armed(f) == f.timer # "none" <=> f.ticking

\* A state begins with no CRC byte (intel_fdc_set_state).
LEMMA SetStateKeeps ==
  ASSUME NEW f, Base(f), NEW s
  PROVE  LET g == SetState(f, s)
         IN  Base(g) /\ Changes(f, g, {"state", "crcBytes"}) /\ g.state = s /\ g.crcBytes = 0
<1> DEFINE g == SetState(f, s)
<1>1. Changes(f, g, {"state", "crcBytes"}) /\ g.state = s /\ g.crcBytes = 0
  BY DEF SetState, Base, Changes, Fields
<1> HIDE DEF g
<1>2. Counters(g) BY <1>1 DEF Base, Counters, Changes, Fields
<1>3. Base(g) BY <1>1, <1>2, BaseKept DEF CounterFields, FreeFields
<1> QED BY <1>1, <1>3 DEF g

CallbackFields == {"state", "crcBytes", "accepts", "onIndex", "indexCount", "timer", "ticking"}

\* No parameter is waited for, no index pulse, and no timer runs
\* (intel_fdc_clear_callbacks): its assertion holds.
LEMMA ClearCallbacksKeeps ==
  ASSUME NEW f, Base(f), Armed(f)
  PROVE  LET g == ClearCallbacks(f)
         IN  /\ Base(g) /\ Changes(f, g, CallbackFields)
             /\ g.state = "idle" /\ g.accepts = "none" /\ g.onIndex = "none" /\ Resting(g)
<1> DEFINE idle == SetState(f, "idle")
           ticking == idle.ticking /\ f.timer = "none"
           g == [idle EXCEPT !.accepts = "none", !.onIndex = "none", !.indexCount = 0, !.timer = "none",
                             !.ticking = ticking]
<1>1. ~(f.timer # "none" /\ ~f.ticking) BY DEF Armed
<1>2. Base(idle) /\ Changes(f, idle, {"state", "crcBytes"}) /\ idle.state = "idle" BY SetStateKeeps
<1>3. ClearCallbacks(f) = g BY <1>1, <1>2 DEF ClearCallbacks, Base, Fields
<1> HIDE DEF idle
<1>4. ticking = FALSE BY <1>2 DEF Armed, Changes, Fields
<1> HIDE DEF ticking
<1>5. /\ Changes(f, g, CallbackFields)
      /\ g.state = "idle" /\ g.crcBytes = idle.crcBytes /\ g.accepts = "none" /\ g.onIndex = "none"
      /\ g.indexCount = 0 /\ g.timer = "none" /\ g.ticking = FALSE
  BY <1>2, <1>4 DEF Changes, Fields, CallbackFields
<1> HIDE DEF g
<1>6. Counters(g) BY <1>2, <1>5 DEF Base, Counters, Changes, Fields, CallbackFields
<1>7. Flags(g) BY <1>5, FlagsKept DEF CallbackFields, FlagFields
<1>8. Base(g) BY <1>5, <1>7, <1>6, BaseKept DEF CallbackFields, FlagFields, CounterFields, FreeFields
<1> QED BY <1>3, <1>5, <1>8 DEF Resting, g

EndFields == ForgottenFields \cup CallbackFields \cup PortFields \cup {"busy", "irqs"}

\* After a command the chip waits for the next one, and for index pulses to unload
\* the head (intel_fdc_finish_simple_command).
LEMMA FinishSimpleCommandEnds ==
  ASSUME NEW f, Base(f), Armed(f), Shut(f), program \in Programs
  PROVE  LET g == FinishSimpleCommand(f)
         IN  Base(g) /\ Idle(g) /\ Changes(f, g, EndFields)
<1> DEFINE e == [f EXCEPT !.busy = FALSE, !.irqs = FALSE]
           c == ClearCallbacks(e)
           h == Forget(c)
           n == HeadUnload(f)
           g == IF n = 0 THEN Spindown(h)
                ELSE IF n = Never THEN h
                ELSE [h EXCEPT !.onIndex = "spindown", !.indexCount = n]
<1>1. FinishSimpleCommand(f) = g BY DEF FinishSimpleCommand
<1>2. n \in Nat \cup {Never} BY IntelAssumption DEF IntelAssumption, HeadUnload
<1> HIDE DEF n
<1>3. Changes(f, e, {"busy", "irqs"}) /\ e.busy = FALSE /\ e.irqs = FALSE BY DEF Base, Changes, Fields
<1> HIDE DEF e
<1>4. Flags(e) BY <1>3, FlagsKept DEF FlagFields
<1>5. Base(e) BY <1>3, <1>4, BaseKept DEF FlagFields
<1>6. Armed(e) BY <1>3 DEF Changes, Fields, Armed
<1>7. /\ Base(c) /\ Changes(e, c, CallbackFields)
      /\ c.state = "idle" /\ c.accepts = "none" /\ c.onIndex = "none" /\ Resting(c)
  BY <1>5, <1>6, ClearCallbacksKeeps
<1> HIDE DEF c
<1>8. /\ Base(h) /\ Changes(c, h, ForgottenFields)
      /\ h.retries = 0 /\ h.sectors = 0 /\ h.routine = 0 /\ h.asked = 0 /\ h.call = "none"
  BY <1>7, ForgetKeeps
<1> HIDE DEF h
<1>9. Idle(h) /\ h.onIndex = "none"
  BY <1>3, <1>7, <1>8 DEF Idle, Resting, Shut, Changes, Fields, CallbackFields, ForgottenFields
<1>10. Changes(f, h, EndFields) BY <1>3, <1>7, <1>8 DEF Changes, EndFields
<1>11. CASE n = 0
  <2>1. g = SetDriveOut(h, None, FALSE, h.gate, h.inwards) BY <1>11 DEF Spindown
  <2>2. h.gate \in BOOLEAN /\ h.inwards \in BOOLEAN BY <1>8 DEF Base, Port
  <2> HIDE DEF g
  <2>3. /\ Base(g) /\ Changes(h, g, PortFields) /\ PortIs(g, None, FALSE, h.gate, h.inwards)
        /\ Shut(h) => Shut(g)
    BY <1>8, <2>1, <2>2, SetDriveOutKeeps
  <2>4. Idle(g) BY <1>9, <2>3 DEF Idle, Resting, Changes, Fields, PortFields
  <2>5. Changes(f, g, EndFields) BY <1>10, <2>3 DEF Changes, EndFields
  <2> QED BY <1>1, <2>3, <2>4, <2>5 DEF g
<1>12. CASE n = Never
  <2>1. n # 0 BY <1>12, IntelAssumption DEF IntelAssumption
  <2> QED BY <1>1, <1>8, <1>9, <1>10, <1>12, <2>1
<1>13. CASE n # 0 /\ n # Never
  <2>1. g = [h EXCEPT !.onIndex = "spindown", !.indexCount = n] /\ n \in Int BY <1>2, <1>13
  <2> HIDE DEF g
  <2>2. Changes(h, g, {"onIndex", "indexCount"}) /\ g.onIndex = "spindown" /\ g.indexCount = n
    BY <1>8, <2>1 DEF Base, Changes, Fields
  <2>3. Counters(g) BY <1>8, <2>1, <2>2 DEF Base, Counters, Changes, Fields
  <2>4. Base(g) BY <1>8, <2>2, <2>3, BaseKept DEF CounterFields, FreeFields
  <2>5. Idle(g) BY <1>9, <2>2 DEF Idle, Resting, Shut, Changes, Fields
  <2>6. Changes(f, g, EndFields) BY <1>10, <2>2 DEF Changes, EndFields, CallbackFields
  <2> QED BY <1>1, <2>4, <2>5, <2>6 DEF g
<1> QED BY <1>11, <1>12, <1>13

\* A command ends with its result, the write gate closed and the line of the 6502
\* high; where the 6502 was late the line had been lowered (intel_fdc_finish_command).
LEMMA FinishCommandEnds ==
  ASSUME NEW f, Base(f), Armed(f), program \in Programs, NEW result \in Results \cup {"ok"},
         result = "ok" => Shut(f),
         result = "late_dma" => ~f.level
  PROVE  LET g == FinishCommand(f, result)
         IN  /\ Sound(g) /\ Idle(g) /\ Told(f, g)
             /\ g.result = f.result \cup ({result} \ {"ok"})
             /\ g.head = f.head /\ g.trackReg = f.trackReg /\ g.ready = f.ready
<1> DEFINE safe == IF result = "ok" THEN f ELSE SetDriveOut(f, f.select, f.load, FALSE, FALSE)
           both == safe.result \cup ({result} \ {"ok"})
           told == [safe EXCEPT !.result = both, !.resultReady = TRUE, !.nmi = TRUE]
           high == SetLevel(told, TRUE)
           g == FinishSimpleCommand(high)
<1>1. FinishCommand(f, result) = g BY DEF FinishCommand
<1>2. Base(safe) /\ Changes(f, safe, PortFields) /\ Shut(safe)
  <2>1. CASE result = "ok"
    <3>1. safe = f BY <2>1
    <3> QED BY <2>1, <3>1 DEF Changes, Base
  <2>2. CASE result # "ok"
    <3>1. f.select \in Drives \cup {None} /\ f.load \in BOOLEAN BY DEF Base, Port
    <3>2. safe = SetDriveOut(f, f.select, f.load, FALSE, FALSE) BY <2>2
    <3>3. Base(safe) /\ Changes(f, safe, PortFields) /\ PortIs(safe, f.select, f.load, FALSE, FALSE)
      BY <3>1, <3>2, SetDriveOutKeeps
    <3> QED BY <3>3 DEF PortIs, Shut
  <2> QED BY <2>1, <2>2
<1> HIDE DEF safe
<1>3. both \subseteq Results /\ both = f.result \cup ({result} \ {"ok"})
  BY <1>2 DEF Base, Others, Changes, Fields, PortFields
<1> HIDE DEF both
<1>4. /\ Changes(safe, told, {"result", "resultReady", "nmi"})
      /\ told.result = both /\ told.resultReady = TRUE /\ told.nmi = TRUE
  BY <1>2 DEF Base, Changes, Fields
<1> HIDE DEF told
<1>5. Others(told) BY <1>2, <1>3, <1>4 DEF Base, Others, Changes, Fields
<1>6. Flags(told) BY <1>2, <1>4, FlagsKept DEF FlagFields
<1>7. Base(told) BY <1>2, <1>4, <1>6, <1>5, BaseKept DEF FlagFields, OtherFields
<1>8. /\ Base(high) /\ Changes(told, high, {"level", "edge"}) /\ Told(told, high) /\ high.level = TRUE
      /\ ~told.level => high.edge
  BY <1>7, SetLevelKeeps
<1> HIDE DEF high
<1>9. Armed(high) /\ Shut(high) /\ high.nmi = TRUE
  BY <1>2, <1>4, <1>8 DEF Armed, Shut, Changes, Fields, PortFields
<1>10. Base(g) /\ Idle(g) /\ Changes(high, g, EndFields) BY <1>8, <1>9, FinishSimpleCommandEnds
<1> HIDE DEF g
<1>11. /\ g.level = TRUE /\ g.nmi = TRUE /\ g.edge = high.edge /\ g.result = both /\ told.level = f.level
      /\ told.edge = f.edge
      /\ g.head = f.head /\ g.trackReg = f.trackReg /\ g.ready = f.ready
  BY <1>2, <1>4, <1>8, <1>9, <1>10
  DEF Changes, Fields, PortFields, EndFields, CallbackFields, ForgottenFields
<1>12. Told(f, g) BY <1>3, <1>8, <1>11 DEF Told
<1> QED BY <1>1, <1>3, <1>10, <1>11, <1>12 DEF Sound, Phase, g

\* An assertion may fail, and ends the program.
LEMMA FailKeeps ==
  ASSUME NEW f, Base(f), NEW what \in Failures
  PROVE  LET g == Fail(f, what)
         IN  Base(g) /\ Changes(f, g, {"failed"})
<1> DEFINE failed == IF f.failed = "no" THEN what ELSE f.failed
           g == [f EXCEPT !.failed = failed]
<1>1. Fail(f, what) = g BY DEF Fail, Base, Fields
<1>2. failed \in {"no"} \cup Failures BY DEF Base, Others
<1> HIDE DEF failed
<1>3. Changes(f, g, {"failed"}) /\ g.failed = failed BY DEF Base, Changes, Fields
<1> HIDE DEF g
<1>4. Others(g) BY <1>2, <1>3 DEF Base, Others, Changes, Fields
<1>5. Base(g) BY <1>3, <1>4, BaseKept DEF OtherFields
<1> QED BY <1>1, <1>3, <1>5 DEF g

\* An abort lowers the line; it may fail, with the write gate open and no drive
\* (intel_fdc_command_abort).
LEMMA CommandAbortKeeps ==
  ASSUME NEW f, Base(f)
  PROVE  LET g == CommandAbort(f)
         IN  Base(g) /\ Changes(f, g, {"level", "edge", "failed"}) /\ Told(f, g) /\ g.level = FALSE
<1> DEFINE e == IF f.gate /\ f.select = None THEN Fail(f, "no drive to write to") ELSE f
           g == SetLevel(e, FALSE)
<1>1. CommandAbort(f) = g BY DEF CommandAbort
<1>2. Base(e) /\ Changes(f, e, {"failed"})
  <2>1. CASE f.gate /\ f.select = None
    <3>1. e = Fail(f, "no drive to write to") BY <2>1
    <3> HIDE DEF e
    <3> QED BY <3>1, FailKeeps DEF Failures
  <2>2. CASE ~(f.gate /\ f.select = None)
    <3>1. e = f BY <2>2
    <3> QED BY <3>1 DEF Base, Changes
  <2> QED BY <2>1, <2>2
<1> HIDE DEF e
<1>3. Base(g) /\ Changes(e, g, {"level", "edge"}) /\ Told(e, g) /\ g.level = FALSE BY <1>2, SetLevelKeeps
<1> HIDE DEF g
<1>4. Told(f, e) BY <1>2 DEF Told, Changes, Fields
<1>5. Told(f, g) BY <1>3, <1>4, ToldTwice
<1>6. Changes(f, g, {"level", "edge", "failed"}) BY <1>2, <1>3 DEF Changes
<1> QED BY <1>1, <1>3, <1>5, <1>6 DEF g

\* A reset stops everything (intel_fdc_break_reset).
LEMMA BreakResetEnds ==
  ASSUME NEW f, Base(f), Armed(f)
  PROVE  LET g == BreakReset(f)
         IN  /\ Sound(g) /\ Idle(g) /\ Told(f, g) /\ ~g.nmi
             /\ Changes(f, g, EndFields \cup {"level", "edge", "nmi", "need", "noDma", "failed"})
             /\ g.onIndex = "none" /\ g.select = None
<1> DEFINE low == CommandAbort(f)
           c == ClearCallbacks(low)
           h == Forget(c)
           o == SetDriveOut(h, None, FALSE, FALSE, FALSE)
           g == [o EXCEPT !.busy = FALSE, !.nmi = FALSE, !.need = FALSE, !.irqs = FALSE, !.noDma = FALSE]
<1>2. BreakReset(f) = g BY DEF BreakReset
<1>3. /\ Base(low) /\ Changes(f, low, {"level", "edge", "failed"}) /\ Told(f, low) /\ low.level = FALSE
  BY CommandAbortKeeps
<1> HIDE DEF low
<1>4. Armed(low) BY <1>3 DEF Armed, Changes, Fields
<1>5. /\ Base(c) /\ Changes(low, c, CallbackFields)
      /\ c.state = "idle" /\ c.accepts = "none" /\ c.onIndex = "none" /\ Resting(c)
  BY <1>3, <1>4, ClearCallbacksKeeps
<1> HIDE DEF c
<1>6. /\ Base(h) /\ Changes(c, h, ForgottenFields)
      /\ h.retries = 0 /\ h.sectors = 0 /\ h.routine = 0 /\ h.asked = 0 /\ h.call = "none"
  BY <1>5, ForgetKeeps
<1> HIDE DEF h
<1>7. Base(o) /\ Changes(h, o, PortFields) /\ PortIs(o, None, FALSE, FALSE, FALSE) BY <1>6, SetDriveOutKeeps
<1>8. ~o.gate /\ o.select = None BY <1>7 DEF PortIs
<1> HIDE DEF o
<1>9. /\ Changes(o, g, {"busy", "nmi", "need", "irqs", "noDma"})
      /\ g.busy = FALSE /\ g.nmi = FALSE /\ g.need = FALSE /\ g.irqs = FALSE /\ g.noDma = FALSE
  BY <1>7 DEF Base, Changes, Fields
<1> HIDE DEF g
<1>10. Flags(g) BY <1>7, <1>9, FlagsKept DEF FlagFields
<1>11. Base(g) BY <1>7, <1>9, <1>10, BaseKept DEF FlagFields
<1>12. Idle(g) /\ g.onIndex = "none" /\ g.select = None
  BY <1>5, <1>6, <1>7, <1>8, <1>9
  DEF Idle, Resting, Shut, Changes, Fields, PortFields, CallbackFields, ForgottenFields
<1>13. g.level = FALSE /\ g.edge = low.edge /\ g.result = low.result
  BY <1>3, <1>5, <1>6, <1>7, <1>9
  DEF Changes, Fields, PortFields, CallbackFields, ForgottenFields
<1>14. Told(f, g) BY <1>3, <1>13 DEF Told
<1>15. Changes(f, g, EndFields \cup {"level", "edge", "nmi", "need", "noDma", "failed"})
  BY <1>3, <1>5, <1>6, <1>7, <1>9 DEF Changes, EndFields
<1> QED BY <1>2, <1>9, <1>11, <1>12, <1>13, <1>14, <1>15 DEF Sound, Phase, g

-----------------------------------------------------------------------------
(* Seeks.                                                                    *)

\* A command's head is moved, or about to be.
Moving(f) ==
  /\ Base(f) /\ Working(f) /\ f.level = f.nmi /\ ~f.ticking /\ ~f.irqs /\ Shut(f)
  /\ f.call = Routine(f.command) /\ Aside(f)

\* A seek's head is where it was to go.
Arrived(f) ==
  f.command = "seek" /\ f.select # None =>
    /\ f.select = f.wanted /\ f.trackReg[f.select] = f.target
    /\ f.target = 0 => f.head[f.select] = 0

\* A seek's head has no further to go to track zero than there are steps.
Approaching(f) ==
  f.command = "seek" /\ f.select # None =>
    /\ f.select = f.wanted /\ f.trackReg[f.select] = f.target
    /\ f.target = 0 => ~f.inwards /\ f.head[f.select] <= f.steps

\* The commands that move the head, and the routines they call.
LEMMA Routines ==
  ASSUME NEW c \in AllCommands \ Simple
  PROVE  /\ Routine(c) \in {"seek", "read", "write", "read_id", "format"}
         /\ \A r \in {"seek", "write", "read_id", "format"} : Routine(c) = r <=> c = r
         /\ Routine(c) = "read" <=> c \in {"read", "read_deleted", "verify", "scan"}
<1>1. c \in {"seek", "read", "read_deleted", "verify", "scan", "write", "read_id", "format"}
  BY DEF AllCommands, ParamCount, Simple
<1> QED BY <1>1 DEF Routine

\* Where a function leads after another that told nothing.
LEMMA LeadsOn ==
  ASSUME NEW f, NEW g, NEW h, Leads(g, h), Told(f, g), g.command = f.command, g.wanted = f.wanted
  PROVE  Leads(f, h)
<1>1. Told(f, h) BY ToldTwice DEF Leads
<1> QED BY <1>1 DEF Leads, Found

\* A command that ends with an error leads on: it is no seek that has succeeded.
LEMMA ErrorLeads ==
  ASSUME NEW f, Base(f), Armed(f), program \in Programs, NEW result \in Results, result = "late_dma" => ~f.level
  PROVE  Leads(f, FinishCommand(f, result))
<1> DEFINE g == FinishCommand(f, result)
<1>1. result # "ok" /\ result \in Results \cup {"ok"} BY DEF Results
<1>2. Sound(g) /\ Told(f, g) /\ g.result = f.result \cup ({result} \ {"ok"}) BY <1>1, FinishCommandEnds
<1> HIDE DEF g
<1>3. g.result # {} BY <1>1, <1>2
<1> QED BY <1>2, <1>3 DEF Leads, Found, g

\* The timer is for the next step, or for the head to settle.
LEMMA SetTimerKeeps ==
  ASSUME NEW f, Base(f), NEW why
  PROVE  LET g == SetTimer(f, why)
         IN  Base(g) /\ Changes(f, g, {"timer", "ticking"}) /\ g.timer = why /\ g.ticking
<1> DEFINE g == SetTimer(f, why)
<1>1. Changes(f, g, {"timer", "ticking"}) /\ g.timer = why /\ g.ticking = TRUE BY DEF SetTimer, Base, Changes, Fields
<1> HIDE DEF g
<1>2. Flags(g) BY <1>1, FlagsKept DEF FlagFields
<1>3. Base(g) BY <1>1, <1>2, BaseKept DEF FlagFields, FreeFields
<1> QED BY <1>1, <1>3 DEF g

\* A search begins with the next header (intel_fdc_start_syncing_for_header).
LEMMA StartSearchKeeps ==
  ASSUME NEW f, Base(f)
  PROVE  LET g == StartSearch(f)
         IN  /\ Base(g) /\ Changes(f, g, {"left", "state", "crcBytes"})
             /\ g.state = "syncing_for_id" /\ g.left = HeaderBytes
<1> DEFINE e == [f EXCEPT !.left = HeaderBytes]
           g == SetState(e, "syncing_for_id")
<1>1. Changes(f, e, {"left"}) /\ e.left = HeaderBytes BY DEF Base, Changes, Fields
<1>2. StartSearch(f) = g BY DEF StartSearch
<1> HIDE DEF e
<1>3. Counters(e) BY <1>1, Sizes DEF Base, Counters, Changes, Fields
<1>4. Base(e) BY <1>1, <1>3, BaseKept DEF CounterFields
<1>5. Base(g) /\ Changes(e, g, {"state", "crcBytes"}) /\ g.state = "syncing_for_id" BY <1>4, SetStateKeeps
<1> HIDE DEF g
<1> QED BY <1>1, <1>2, <1>5 DEF Changes, Fields, g

\* With its head in place a command ends, or waits for the index pulse, or searches;
\* it does not write to a disc that is protected (intel_fdc_post_seek_dispatch).
LEMMA PostSeekDispatchLeads ==
  ASSUME NEW f, Moving(f), Arrived(f), program \in Programs
  PROVE  Leads(f, PostSeekDispatch(f))
<1> DEFINE e == [f EXCEPT !.timer = "none"]
           g == ReadDriveStatus(e)
           sized == [g EXCEPT !.count = SectorBytes]
           x == PostSeekDispatch(f)
<1>1. x = IF ~g.ready[Unit(g)] THEN FinishCommand(g, "drive_not_ready")
          ELSE CASE g.call = "seek" -> FinishCommand(g, "ok")
                 [] g.call = "read_id" -> [g EXCEPT !.onIndex = "start_read_id"]
                 [] g.call = "format" -> CheckWriteProtect([sized EXCEPT !.onIndex = "start_format"])
                 [] g.call = "read" -> StartSearch(StartIndexTimeout(sized))
                 [] g.call = "write" -> CheckWriteProtect(StartSearch(StartIndexTimeout(sized)))
                 [] OTHER -> Fail(g, "post seek dispatch")
  BY DEF PostSeekDispatch
<1>2. Changes(f, e, {"timer"}) /\ e.timer = "none" BY DEF Moving, Base, Changes, Fields
<1> HIDE DEF e
<1>3. Base(e) BY <1>2, BaseKept DEF Moving, FreeFields
<1>4. /\ Base(g) /\ Changes(e, g, {"ready", "protected"})
      /\ g.ready[Unit(g)] => g.select = Unit(g) /\ g.select \in Drives /\ g.load
  BY <1>3, ReadDriveStatusKeeps
<1> HIDE DEF g
<1>5. Changes(f, g, {"timer", "ready", "protected"}) /\ g.timer = "none" BY <1>2, <1>4 DEF Changes, Fields
<1>6. Working(g) /\ Resting(g) /\ Armed(g) /\ ~g.irqs /\ Shut(g) /\ Arrived(g) /\ Aside(g) /\ g.level = g.nmi
  BY <1>5 DEF Moving, Working, Resting, Armed, Arrived, Aside, Shut, Changes, Fields
<1>7. /\ g.call = Routine(g.command) /\ g.command \in AllCommands \ Simple
      /\ g.command = f.command /\ g.wanted = f.wanted /\ Told(f, g)
  BY <1>5 DEF Moving, Working, Changes, Fields, Told
<1>8. /\ Changes(g, sized, {"count"}) /\ sized.count = SectorBytes BY <1>4 DEF Base, Changes, Fields
<1> HIDE DEF sized
<1>9. Counters(sized) BY <1>4, <1>8, Sizes DEF Base, Counters, Changes, Fields
<1>10. Base(sized) BY <1>4, <1>8, <1>9, BaseKept DEF CounterFields
<1> HIDE DEF x
<1>11. CASE ~g.ready[Unit(g)]
  <2>1. x = FinishCommand(g, "drive_not_ready") BY <1>1, <1>11
  <2>2. Leads(g, x) BY <1>4, <1>6, <2>1, ErrorLeads DEF Results
  <2> QED BY <1>7, <2>2, LeadsOn DEF x
<1>12. CASE g.ready[Unit(g)] /\ g.call = "seek"
  <2>1. x = FinishCommand(g, "ok") BY <1>1, <1>12
  <2>2. /\ Sound(x) /\ Told(g, x) /\ x.head = g.head /\ x.trackReg = g.trackReg BY <1>4, <1>6, <2>1, FinishCommandEnds
  <2>3. g.select \in Drives /\ g.select # None BY <1>4, <1>12, Sizes
  <2>4. g.command = "seek" BY <1>7, <1>12, Routines
  <2>5. g.select = g.wanted /\ (g.trackReg[g.select] = 0 => g.head[g.select] = 0)
    BY <1>6, <2>3, <2>4 DEF Arrived
  <2>6. Found(g, x) BY <2>2, <2>5 DEF Found
  <2>7. Leads(g, x) BY <2>2, <2>6 DEF Leads
  <2> QED BY <1>7, <2>7, LeadsOn DEF x
<1>13. CASE g.ready[Unit(g)] /\ g.call = "read_id"
  <2>1. x = [g EXCEPT !.onIndex = "start_read_id"] BY <1>1, <1>13
  <2>2. Changes(g, x, {"onIndex"}) /\ x.onIndex = "start_read_id" BY <1>4, <2>1 DEF Base, Changes, Fields
  <2>3. Base(x) BY <1>4, <2>2, BaseKept DEF FreeFields
  <2>4. g.command = "read_id" BY <1>7, <1>13, Routines
  <2>5. AwaitingIndex(x)
    BY <1>4, <1>6, <1>7, <1>13, <2>2, <2>4 DEF AwaitingIndex, Placed, Direct, Working, Resting, Aside, Shut, Changes, Fields
  <2>6. Sound(x) BY <1>6, <2>2, <2>3, <2>5 DEF Sound, Phase, Changes, Fields
  <2>7. Told(g, x) BY <2>2 DEF Told, Changes, Fields
  <2>8. Leads(g, x) BY <2>4, <2>6, <2>7 DEF Leads, Found
  <2> QED BY <1>7, <2>8, LeadsOn DEF x
<1>14. CASE g.ready[Unit(g)] /\ g.call = "format"
  <2> DEFINE h == [sized EXCEPT !.onIndex = "start_format"]
  <2>1. x = IF h.protected THEN FinishCommand(h, "write_protected") ELSE h
    BY <1>1, <1>14 DEF CheckWriteProtect
  <2>2. Changes(sized, h, {"onIndex"}) /\ h.onIndex = "start_format" BY <1>10 DEF Base, Changes, Fields
  <2> HIDE DEF h
  <2>3. Base(h) BY <1>10, <2>2, BaseKept DEF FreeFields
  <2>4. g.command = "format" BY <1>7, <1>14, Routines
  <2>5. Changes(g, h, {"count", "onIndex"}) BY <1>8, <2>2 DEF Changes
  <2>6. Told(g, h) /\ h.command = g.command /\ h.wanted = g.wanted /\ Armed(h)
    BY <1>6, <2>5 DEF Told, Armed, Changes, Fields
  <2>7. CASE h.protected
    <3>1. Leads(h, x) BY <2>1, <2>3, <2>6, <2>7, ErrorLeads DEF Results
    <3> QED BY <1>7, <2>6, <3>1, LeadsOn DEF x
  <2>8. CASE ~h.protected
    <3>1. x = h BY <2>1, <2>8
    <3>2. AwaitingIndex(h)
      BY <1>4, <1>6, <1>7, <1>14, <2>2, <2>4, <2>5, <2>8
      DEF AwaitingIndex, Placed, Direct, Working, Resting, Aside, Shut, Changes, Fields
    <3>3. Sound(h) BY <1>6, <2>3, <2>5, <3>2 DEF Sound, Phase, Changes, Fields
    <3>4. Leads(g, h) BY <2>4, <2>6, <3>3 DEF Leads, Found
    <3> QED BY <1>7, <3>1, <3>4, LeadsOn DEF x
  <2> QED BY <2>7, <2>8
<1>15. CASE g.ready[Unit(g)] /\ g.call \in {"read", "write"}
  <2> DEFINE t == StartIndexTimeout(sized)
             h == StartSearch(t)
  <2>1. x = IF g.call = "write" /\ h.protected THEN FinishCommand(h, "write_protected") ELSE h
    BY <1>1, <1>15 DEF CheckWriteProtect
  <2>2. Changes(sized, t, {"onIndex", "indexCount"}) /\ t.onIndex = "timeout" /\ t.indexCount = TimeoutPulses
    BY <1>10 DEF StartIndexTimeout, Base, Changes, Fields
  <2> HIDE DEF t
  <2>3. Counters(t) BY <1>10, <2>2, Sizes DEF Base, Counters, Changes, Fields
  <2>4. Base(t) BY <1>10, <2>2, <2>3, BaseKept DEF CounterFields, FreeFields
  <2>5. /\ Base(h) /\ Changes(t, h, {"left", "state", "crcBytes"})
        /\ h.state = "syncing_for_id" /\ h.left = HeaderBytes
    BY <2>4, StartSearchKeeps
  <2> HIDE DEF h
  <2>6. Changes(g, h, {"count", "onIndex", "indexCount", "left", "state", "crcBytes"})
        /\ h.onIndex = "timeout" /\ h.count = SectorBytes
    BY <1>8, <2>2, <2>5 DEF Changes, Fields
  <2>7. Told(g, h) /\ h.command = g.command /\ h.wanted = g.wanted /\ Armed(h) /\ h.call = g.call /\ h.level = h.nmi
    BY <1>6, <2>6 DEF Told, Armed, Changes, Fields
  <2>8. g.command \notin {"seek", "read_id"} BY <1>7, <1>15, Routines
  <2>9. CASE g.call = "write" /\ h.protected
    <3>1. Leads(h, x) BY <2>1, <2>5, <2>7, <2>9, ErrorLeads DEF Results
    <3> QED BY <1>7, <2>7, <3>1, LeadsOn DEF x, Changes, Fields
  <2>10. CASE ~(g.call = "write" /\ h.protected)
    <3>1. x = h BY <2>1, <2>10
    <3>2. Placed(h)
      BY <1>4, <1>6, <1>15, <2>6, <2>8 DEF Placed, Direct, Working, Resting, Changes, Fields
    <3>3. Shut(h) /\ ~h.irqs BY <1>6, <2>6 DEF Shut, Changes, Fields
    <3>4. Searched(h) BY <2>5, <2>6, <2>7, <2>8, <3>3 DEF Searched
    <3>9. /\ h.command # "read_id" /\ h.call = Routine(h.command) /\ h.call \in {"read", "write"}
          /\ h.onIndex = "timeout" /\ (h.call = "write" => ~h.protected)
      BY <1>7, <1>15, <2>6, <2>7, <2>8, <2>10
    <3>5. Searching(h) BY <3>2, <3>3, <3>4, <3>9 DEF Searching, OnTrack
    <3>6. Sound(h) BY <2>5, <2>7, <3>5 DEF Sound, Phase
    <3>7. Leads(g, h) BY <2>7, <2>8, <3>6 DEF Leads, Found
    <3> QED BY <1>7, <3>1, <3>7, LeadsOn DEF x
  <2> QED BY <2>9, <2>10
<1> QED BY <1>7, <1>11, <1>12, <1>13, <1>14, <1>15, Routines

\* The head is loaded if it is not, and settles if it is to, and the command goes
\* on (intel_fdc_do_load_head).
LEMMA DoLoadHeadLeads ==
  ASSUME NEW f, Moving(f), Arrived(f), program \in Programs
  PROVE  Leads(f, DoLoadHead(f))
<1> DEFINE loaded == SetDriveOut(f, f.select, TRUE, f.gate, f.inwards)
           waits == f.specified /\ IF f.load THEN f.didStep /\ program.settle ELSE program.load
           g == IF f.load THEN f ELSE loaded
           x == DoLoadHead(f)
<1>1. x = IF waits THEN SetTimer(g, "post_seek") ELSE PostSeekDispatch(g) BY DEF DoLoadHead
<1> HIDE DEF waits, x
<1>2. Base(f) /\ f.select \in Drives \cup {None} /\ f.gate \in BOOLEAN /\ f.inwards \in BOOLEAN
  BY DEF Moving, Base, Port
<1>3. /\ Base(loaded) /\ Changes(f, loaded, PortFields) /\ PortIs(loaded, f.select, TRUE, f.gate, f.inwards)
      /\ Shut(f) => Shut(loaded)
  BY <1>2, SetDriveOutKeeps
<1>4. loaded.select = f.select BY <1>3 DEF PortIs
<1> HIDE DEF loaded
<1>5. Base(g) /\ Changes(f, g, PortFields) /\ g.select = f.select /\ Shut(g)
  BY <1>2, <1>3, <1>4 DEF Changes, Base, Moving
<1> HIDE DEF g
<1>6. /\ Moving(g) /\ Arrived(g) /\ Told(f, g) /\ g.command = f.command /\ g.wanted = f.wanted
  BY <1>5 DEF Moving, Working, Aside, Arrived, Told, Changes, Fields, PortFields
<1>7. CASE waits
  <2>1. x = SetTimer(g, "post_seek") BY <1>1, <1>7
  <2>2. Base(x) /\ Changes(g, x, {"timer", "ticking"}) /\ x.timer = "post_seek" /\ x.ticking
    BY <1>5, <2>1, SetTimerKeeps
  <2>3. Seeking(x) BY <1>6, <2>2 DEF Moving, Working, Aside, Arrived, Seeking, Homing, Shut, Changes, Fields
  <2>4. Sound(x) BY <1>6, <2>2, <2>3 DEF Sound, Phase, Moving, Changes, Fields
  <2>5. Told(g, x) BY <2>2 DEF Told, Changes, Fields
  <2>6. Leads(g, x) BY <2>3, <2>4, <2>5 DEF Leads, Found, Seeking, Working
  <2> QED BY <1>6, <2>6, LeadsOn DEF x
<1>8. CASE ~waits
  <2>1. x = PostSeekDispatch(g) BY <1>1, <1>8
  <2> QED BY <1>6, <2>1, PostSeekDispatchLeads, LeadsOn DEF x
<1> QED BY <1>7, <1>8

\* A step of the head stays on the disc.
LEMMA SteppedOnDisc ==
  ASSUME NEW t \in 0..MaxTrack, NEW inwards
  PROVE  /\ Stepped(t, inwards) \in 0..MaxTrack
         /\ ~inwards /\ t # 0 => Stepped(t, inwards) = t - 1
BY Sizes DEF Stepped

\* A step of the head, or its arrival (intel_fdc_do_seek_step).
LEMMA DoSeekStepLeads ==
  ASSUME NEW f, Moving(f), Approaching(f), program \in Programs
  PROVE  Leads(f, DoSeekStep(f))
<1> DEFINE there == (TRK0(f) /\ f.target = 0) \/ f.steps = 0
           head == [d \in Drives |-> IF d = f.select THEN Stepped(f.head[d], f.inwards) ELSE f.head[d]]
           steps == f.steps - 1
           e == [f EXCEPT !.didStep = TRUE, !.steps = steps, !.head = head]
           g == SetTimer(e, "seek_step")
           x == DoSeekStep(f)
<1>1. x = IF there THEN DoLoadHead(f) ELSE g BY DEF DoSeekStep, Moving, Base, Fields
<1> HIDE DEF x
<1>2. f.head \in [Drives -> 0..MaxTrack] /\ f.steps \in Registers BY DEF Moving, Base, Places
<1>3. CASE there
  <2>1. f.steps = 0 /\ f.select # None => f.head[f.select] \in 0..MaxTrack
    BY <1>2, Sizes DEF Moving, Base, Port
  <2>2. Arrived(f) BY <1>3, <2>1, Sizes DEF Arrived, Approaching, TRK0
  <2> QED BY <1>1, <1>3, <2>2, DoLoadHeadLeads DEF x
<1>4. CASE ~there
  <2>1. head \in [Drives -> 0..MaxTrack] BY <1>2, SteppedOnDisc
  <2>2. steps \in Registers /\ steps = f.steps - 1 BY <1>2, <1>4, Sizes
  <2>3. f.select \in Drives /\ f.target = 0 /\ ~f.inwards => head[f.select] = f.head[f.select] - 1
    <3>1. HAVE f.select \in Drives /\ f.target = 0 /\ ~f.inwards
    <3>2. f.head[f.select] \in 0..MaxTrack /\ f.head[f.select] # 0 BY <1>2, <1>4, <3>1, Sizes DEF TRK0
    <3> QED BY <3>1, <3>2, SteppedOnDisc
  <2> HIDE DEF head, steps
  <2>4. Changes(f, e, {"didStep", "steps", "head"}) /\ e.didStep = TRUE /\ e.steps = steps /\ e.head = head
    BY DEF Moving, Base, Changes, Fields
  <2> HIDE DEF e
  <2>5. Base(f) BY DEF Moving
  <2>6. Flags(e) BY <2>4, <2>5, FlagsKept DEF FlagFields
  <2>7. Places(e) BY <2>1, <2>2, <2>4, <2>5 DEF Base, Places, Changes, Fields
  <2>8. Base(e) BY <2>4, <2>5, <2>6, <2>7, BaseKept DEF FlagFields, PlaceFields
  <2>9. Base(g) /\ Changes(e, g, {"timer", "ticking"}) /\ g.timer = "seek_step" /\ g.ticking
    BY <2>8, SetTimerKeeps
  <2> HIDE DEF g
  <2>10. Changes(f, g, {"didStep", "steps", "head", "timer", "ticking"}) /\ g.steps = steps /\ g.head = head
    BY <2>4, <2>9 DEF Changes, Fields
  <2>11. f.select # None => f.select \in Drives /\ f.head[f.select] \in 0..MaxTrack
    BY <1>2, <2>5, Sizes DEF Base, Port
  <2>12. Homing(g)
    <3>1. /\ g.command = f.command /\ g.select = f.select /\ g.wanted = f.wanted /\ g.trackReg = f.trackReg
          /\ g.target = f.target /\ g.inwards = f.inwards
      BY <2>10 DEF Changes, Fields
    <3> SUFFICES ASSUME f.command = "seek", f.select # None
                 PROVE  /\ f.select = f.wanted /\ f.trackReg[f.select] = f.target
                        /\ f.target = 0 => ~f.inwards /\ head[f.select] <= steps
      BY <2>9, <2>10, <3>1 DEF Homing
    <3>2. /\ f.select = f.wanted /\ f.trackReg[f.select] = f.target
          /\ f.target = 0 => ~f.inwards /\ f.head[f.select] <= f.steps
      BY DEF Approaching
    <3>3. f.target = 0 => head[f.select] = f.head[f.select] - 1 BY <2>3, <2>11, <3>2
    <3>4. f.head[f.select] \in Int /\ f.steps \in Int BY <1>2, <2>11, Sizes
    <3> QED BY <2>2, <3>2, <3>3, <3>4
  <2>13. Seeking(g) BY <2>9, <2>10, <2>12 DEF Moving, Working, Aside, Seeking, Shut, Changes, Fields
  <2>14. Sound(g) BY <2>9, <2>10, <2>13 DEF Sound, Phase, Moving, Changes, Fields
  <2>15. Told(f, g) BY <2>10 DEF Told, Changes, Fields
  <2> QED BY <1>1, <1>4, <2>13, <2>14, <2>15 DEF Leads, Found, Seeking, Working, x
<1> QED BY <1>3, <1>4

\* Track numbers wrap.
LEMMA PassBadTracksWraps ==
  ASSUME NEW f, Base(f), NEW t \in Int
  PROVE  PassBadTracks(f, t % RegMod) \in Registers
<1>1. \A n \in Int : n % RegMod \in Registers BY Sizes
<1>2. f.badTrack \in Registers BY DEF Base, Places
<1>3. \A n \in Registers : n + 1 \in Int BY Sizes
<1> QED BY <1>1, <1>2, <1>3, Sizes DEF PassBadTracks

\* A seek sets out, or is where it is to go: to track zero there are more steps
\* than tracks (intel_fdc_do_seek).
LEMMA DoSeekLeads ==
  ASSUME NEW f, Base(f), Working(f), f.level = f.nmi, ~f.ticking, ~f.irqs, Shut(f), Aside(f),
         f.command = "seek" /\ f.select # None => f.select = f.wanted,
         program \in Programs
  PROVE  Leads(f, DoSeek(f, Routine(f.command)))
<1> DEFINE call == Routine(f.command)
           new == PassBadTracks(f, (f.track + f.retries) % RegMod)
           current == IF new = 0 THEN RegMod - 1 ELSE f.trackReg[Unit(f)]
           g == [f EXCEPT !.call = call, !.target = new, !.didStep = FALSE]
           inwards == new > current
           steps == IF new > current THEN new - current ELSE current - new
           trackReg == [g.trackReg EXCEPT ![Unit(f)] = new]
           h == [g EXCEPT !.inwards = inwards, !.steps = steps, !.trackReg = trackReg]
           x == DoSeek(f, call)
<1>1. x = IF new = current THEN DoLoadHead(g) ELSE DoSeekStep(h) BY DEF DoSeek
<1> HIDE DEF x
<1>2. f.track \in Registers /\ f.trackReg \in [Drives -> Registers] /\ f.retries \in 0..2
  BY DEF Base, Places, Working
<1>3. f.track + f.retries \in Int BY <1>2, Sizes
<1>4. new \in Registers BY <1>3, PassBadTracksWraps
<1> HIDE DEF new
<1>5. Unit(f) \in Drives /\ (f.select \in Drives => Unit(f) = f.select) BY Sizes DEF Unit
<1>6. current \in Registers /\ (new = 0 => current = RegMod - 1 /\ current # 0) BY <1>2, <1>5, Sizes
<1>7. f.select # None => f.select \in Drives BY DEF Base, Port
<1> HIDE DEF call
<1>8. Changes(f, g, {"call", "target", "didStep"}) /\ g.call = call /\ g.target = new /\ g.didStep = FALSE
  BY DEF Base, Changes, Fields
<1> HIDE DEF g
<1>9. Flags(g) BY <1>8, FlagsKept DEF FlagFields
<1>10. Places(g) BY <1>4, <1>8 DEF Base, Places, Changes, Fields
<1>11. Base(g) BY <1>8, <1>9, <1>10, BaseKept DEF FlagFields, PlaceFields, FreeFields
<1>12. Moving(g) BY <1>8, <1>11 DEF Moving, Working, Aside, Shut, Changes, Fields, call
<1>13. Told(f, g) /\ g.command = f.command /\ g.wanted = f.wanted BY <1>8 DEF Told, Changes, Fields
<1>14. CASE new = current
  <2>1. new # 0 /\ new = f.trackReg[Unit(f)] BY <1>6, <1>14 DEF current
  <2>2. Arrived(g) BY <1>5, <1>7, <1>8, <2>1 DEF Arrived, Changes, Fields
  <2> QED BY <1>1, <1>12, <1>13, <1>14, <2>2, DoLoadHeadLeads, LeadsOn DEF x, call
<1>15. CASE new # current
  <2>1. inwards \in BOOLEAN /\ steps \in Registers /\ (new = 0 => ~inwards /\ steps = RegMod - 1)
    BY <1>4, <1>6, <1>15, Sizes
  <2>2. trackReg \in [Drives -> Registers] /\ trackReg[Unit(f)] = new
    BY <1>2, <1>4, <1>5, <1>8 DEF Changes, Fields
  <2> HIDE DEF inwards, steps, trackReg
  <2>3. /\ Changes(g, h, {"inwards", "steps", "trackReg"})
        /\ h.inwards = inwards /\ h.steps = steps /\ h.trackReg = trackReg
    BY <1>11 DEF Base, Changes, Fields
  <2> HIDE DEF h
  <2>4. Places(h) BY <1>11, <2>1, <2>2, <2>3 DEF Base, Places, Changes, Fields
  <2>5. Port(h) BY <1>11, <2>1, <2>3 DEF Base, Port, Changes, Fields
  <2>6. Base(h) BY <1>11, <2>3, <2>4, <2>5, BaseKept DEF PlaceFields, PortFields
  <2>7. Moving(h) /\ Told(f, h) /\ h.command = f.command /\ h.wanted = f.wanted
    BY <1>12, <1>13, <2>3, <2>6 DEF Moving, Working, Aside, Shut, Told, Changes, Fields
  <2>8. /\ h.select = f.select /\ h.target = new BY <1>8, <2>3 DEF Changes, Fields
  <2>9. f.select # None => h.head[f.select] \in 0..MaxTrack BY <1>7, <2>6 DEF Base, Places
  <2>10. new = 0 /\ f.select # None => ~h.inwards /\ h.head[f.select] <= h.steps BY <2>1, <2>3, <2>9, Sizes
  <2>11. Approaching(h) BY <1>5, <1>7, <2>2, <2>3, <2>7, <2>8, <2>10 DEF Approaching
  <2> QED BY <1>1, <1>15, <2>7, <2>11, DoSeekStepLeads, LeadsOn DEF x, call
<1> QED BY <1>14, <1>15

-----------------------------------------------------------------------------
(* Commands.                                                                 *)

\* A command has its parameters, or is to go on with the next sector.
Ready(f) ==
  /\ Base(f) /\ f.level = f.nmi /\ f.busy /\ f.accepts = "none" /\ Resting(f) /\ f.state = "idle"
  /\ f.onIndex \in {"none", "spindown"} /\ ~f.irqs /\ Shut(f)
  /\ f.command \in AllCommands \ {"set_drive_out"}
  /\ f.command = "set_mode" => ~f.level
  /\ IF f.command \in Simple THEN f.routine = 0 /\ f.asked = 0 /\ f.result = {} /\ f.sectors \in 0..31 /\ f.call = "none"
                             ELSE Working(f)
  /\ f.command = "seek" /\ f.select # None => f.select = f.wanted
  /\ f.command = "read_id" => f.call \notin {"read", "write"}

\* Without a result, and its line as it was, a command that is not a seek tells nothing.
LEMMA QuietlyLeads ==
  ASSUME NEW f, NEW g, Sound(g), g.edge = f.edge, g.level => f.level, g.result = f.result, f.command # "seek"
  PROVE  Leads(f, g)
BY DEF Leads, Told, Found

\* A command that only sets or reads registers (intel_fdc_do_command_dispatch).
LEMMA SimpleDispatchLeads ==
  ASSUME NEW f, Ready(f), f.command \in Simple, program \in Programs
  PROVE  Leads(f, CommandDispatch(f))
<1> DEFINE x == CommandDispatch(f)
<1>1. f.command \in {"drive_status", "read_special", "specify_timings", "specify_tracks", "set_mode"}
      /\ f.command # "seek"
  BY DEF Ready, Simple
<1>2. Base(f) /\ f.level = f.nmi BY DEF Ready
<1>3. CASE f.command \in {"drive_status", "read_special"}
  <2> DEFINE s == ReadDriveStatus(f)
             ready == [d \in Drives |-> IsReady(f, d)]
             d == [s EXCEPT !.resultReady = TRUE, !.ready = ready]
             e == IF f.command = "drive_status" THEN d ELSE [f EXCEPT !.resultReady = TRUE]
  <2>1. x = FinishSimpleCommand(e) BY <1>3 DEF CommandDispatch, Direct
  <2>2. Base(s) /\ Changes(f, s, {"ready", "protected"}) BY <1>2, ReadDriveStatusKeeps
  <2> HIDE DEF s, x
  <2>3. ready \in [Drives -> BOOLEAN] BY <1>2 DEF IsReady, Base, Port
  <2> HIDE DEF ready
  <2>4. Changes(s, d, {"resultReady", "ready"}) /\ d.resultReady = TRUE /\ d.ready = ready
    BY <2>2 DEF Base, Changes, Fields
  <2> HIDE DEF d
  <2>5. Flags(d) BY <2>2, <2>4, FlagsKept DEF FlagFields
  <2>6. Others(d) BY <2>2, <2>3, <2>4 DEF Base, Others, Changes, Fields
  <2>7. Base(d) BY <2>2, <2>4, <2>5, <2>6, BaseKept DEF FlagFields, OtherFields
  <2>8. Base(e) /\ Changes(f, e, {"ready", "protected", "resultReady"})
    <3>1. CASE f.command = "drive_status"
      <4>1. e = d BY <3>1
      <4> QED BY <2>2, <2>4, <2>7, <4>1 DEF Changes, Fields
    <3>2. CASE f.command # "drive_status"
      <4>1. e = [f EXCEPT !.resultReady = TRUE] BY <3>2
      <4> HIDE DEF e
      <4>2. Changes(f, e, {"resultReady"}) /\ e.resultReady = TRUE BY <1>2, <4>1 DEF Base, Changes, Fields
      <4>3. Flags(e) BY <1>2, <4>2, FlagsKept DEF FlagFields
      <4>4. Base(e) BY <1>2, <4>2, <4>3, BaseKept DEF FlagFields
      <4> QED BY <4>2, <4>4 DEF Changes
    <3> QED BY <3>1, <3>2
  <2> HIDE DEF e
  <2>9. Armed(e) /\ Shut(e) /\ e.edge = f.edge /\ e.level = f.level /\ e.nmi = f.nmi /\ e.result = f.result
    BY <2>8 DEF Ready, Resting, Armed, Shut, Changes, Fields
  <2>10. Base(x) /\ Idle(x) /\ Changes(e, x, EndFields) BY <2>1, <2>8, <2>9, FinishSimpleCommandEnds
  <2>11. x.edge = f.edge /\ x.level = f.level /\ x.nmi = f.nmi /\ x.result = f.result
    BY <2>9, <2>10 DEF Changes, Fields, EndFields, CallbackFields, ForgottenFields, PortFields
  <2>12. Sound(x) BY <1>2, <2>10, <2>11 DEF Sound, Phase
  <2> QED BY <1>1, <2>11, <2>12, QuietlyLeads DEF x
<1>4. CASE f.command \in {"specify_timings", "specify_tracks"}
  <2>1. x = [f EXCEPT !.accepts = "specify", !.retries = 3] BY <1>4 DEF CommandDispatch, Direct
  <2> HIDE DEF x
  <2>2. Changes(f, x, {"accepts", "retries"}) /\ x.accepts = "specify" /\ x.retries = 3
    BY <1>2, <2>1 DEF Base, Changes, Fields
  <2>3. Base(x) BY <1>2, <2>2, BaseKept DEF FreeFields
  <2>4. Asking(x) BY <1>4, <2>2 DEF Ready, Asking, Resting, Shut, Changes, Fields, Simple
  <2>5. Sound(x) /\ x.edge = f.edge /\ x.level = f.level /\ x.result = f.result
    BY <1>2, <2>2, <2>3, <2>4 DEF Sound, Phase, Changes, Fields
  <2> QED BY <1>1, <2>5, QuietlyLeads DEF x
<1>5. CASE f.command = "set_mode"
  <2> DEFINE h == Forget(f)
  <2>1. x = [h EXCEPT !.noDma = TRUE, !.nmi = FALSE, !.need = FALSE, !.irqs = FALSE, !.busy = FALSE]
    BY <1>5 DEF CommandDispatch, Direct
  <2> HIDE DEF x
  <2>2. /\ Base(h) /\ Changes(f, h, ForgottenFields)
        /\ h.retries = 0 /\ h.sectors = 0 /\ h.routine = 0 /\ h.asked = 0 /\ h.call = "none"
    BY <1>2, ForgetKeeps
  <2> HIDE DEF h
  <2>3. /\ Changes(h, x, {"noDma", "nmi", "need", "irqs", "busy"})
        /\ x.noDma = TRUE /\ x.nmi = FALSE /\ x.need = FALSE /\ x.irqs = FALSE /\ x.busy = FALSE
    BY <2>1, <2>2 DEF Base, Changes, Fields
  <2>4. Flags(x) BY <2>2, <2>3, FlagsKept DEF FlagFields
  <2>5. Base(x) BY <2>2, <2>3, <2>4, BaseKept DEF FlagFields
  <2>6. Idle(x) BY <2>2, <2>3 DEF Ready, Idle, Resting, Shut, Changes, Fields, ForgottenFields
  <2>7. f.level = FALSE BY <1>2, <1>5 DEF Ready, Base, Flags, FlagFields
  <2>8. x.level = FALSE /\ x.edge = f.edge /\ x.result = f.result
    BY <2>2, <2>3, <2>7 DEF Changes, Fields, ForgottenFields
  <2>9. Sound(x) BY <2>3, <2>5, <2>6, <2>8 DEF Sound, Phase
  <2> QED BY <1>1, <2>8, <2>9, QuietlyLeads DEF x
<1> QED BY <1>1, <1>3, <1>4, <1>5

\* A command does what it can at once, or moves the head, or searches on where it is
\* (intel_fdc_do_command_dispatch).
LEMMA CommandDispatchLeads ==
  ASSUME NEW f, Ready(f), program \in Programs
  PROVE  Leads(f, CommandDispatch(f))
<1> DEFINE x == CommandDispatch(f)
<1>1. Base(f) /\ f.level = f.nmi BY DEF Ready
<1>2. CASE f.command \in Simple BY <1>2, SimpleDispatchLeads
<1>3. CASE Direct(f)
  <2>1. x = StartSearch(f) BY <1>3 DEF CommandDispatch, Direct
  <2> HIDE DEF x
  <2>2. /\ Base(x) /\ Changes(f, x, {"left", "state", "crcBytes"})
        /\ x.state = "syncing_for_id" /\ x.left = HeaderBytes
    BY <1>1, <2>1, StartSearchKeeps
  <2>3. f.command = "read_id" /\ "read_id" \notin Simple BY <1>3 DEF Direct, Simple
  <2>4. Direct(x) /\ Placed(x) BY <1>3, <2>2, <2>3 DEF Ready, Direct, Placed, Working, Resting, Changes, Fields
  <2>5. /\ x.command = "read_id" /\ x.call \notin {"read", "write"} /\ ~x.irqs /\ Shut(x)
        /\ x.onIndex \in {"none", "spindown"}
    BY <2>2, <2>3 DEF Ready, Shut, Changes, Fields
  <2>6. Searched(x) BY <2>2, <2>5 DEF Searched
  <2>7. Searching(x) BY <2>4, <2>5, <2>6 DEF Searching, OnTrack
  <2>8. Sound(x) /\ x.edge = f.edge /\ x.level = f.level /\ x.result = f.result
    BY <1>1, <2>2, <2>7 DEF Sound, Phase, Changes, Fields
  <2> QED BY <2>3, <2>8, QuietlyLeads DEF x
<1>4. CASE f.command \notin Simple /\ ~Direct(f)
  <2>1. x = DoSeek(f, Routine(f.command)) BY <1>4 DEF CommandDispatch, Simple
  <2>2. /\ Working(f) /\ ~f.ticking /\ ~f.irqs /\ Shut(f) /\ Aside(f)
        /\ f.command = "seek" /\ f.select # None => f.select = f.wanted
    BY <1>4 DEF Ready, Resting, Aside
  <2> QED BY <1>1, <2>1, <2>2, DoSeekLeads
<1> QED BY <1>2, <1>3, <1>4

\* A command has been written, or its last parameter.
Written(f) ==
  /\ Base(f) /\ f.level = f.nmi /\ f.busy /\ Resting(f) /\ f.state = "idle"
  /\ f.onIndex \in {"none", "spindown"} /\ ~f.irqs /\ Shut(f)
  /\ f.command \in AllCommands
  /\ f.command = "set_mode" => ~f.level
  /\ f.retries = 0 /\ f.routine = 0 /\ f.asked = 0 /\ f.result = {} /\ f.call = "none"

\* What the parameters of a program may be.
LEMMA ParametersInRange ==
  ASSUME NEW c \in AllCommands, NEW p \in Parameters(c), program \in Programs
  PROVE  IF c = "set_drive_out"
         THEN p.select \in Drives \cup {None} /\ p.load \in BOOLEAN /\ p.gate \in BOOLEAN
         ELSE p.track \in Registers /\ p.second \in Registers /\ p.sectors \in 1..31
<1>1. program.drives \subseteq Drives \cup {None} /\ program.tracks \subseteq Registers
  BY IntelAssumption DEF IntelAssumption, Registers
<1>2. Sectors \subseteq 1..31 BY IntelAssumption DEF IntelAssumption
<1>3. CASE c = "set_drive_out"
  <2>1. p \in [select : program.drives, load : BOOLEAN, gate : BOOLEAN] BY <1>3 DEF Parameters
  <2> QED BY <1>1, <1>3, <2>1
<1>4. CASE c # "set_drive_out"
  <2> DEFINE tracks == IF c \in Simple THEN {0} ELSE program.tracks
             seconds == IF c = "read_id" THEN {0, 1, RegMod - 1} ELSE {0}
             sectors == IF c \in Simple \cup {"seek"} THEN {1} ELSE Sectors
  <2>1. p \in [track : tracks, second : seconds, sectors : sectors] BY <1>4 DEF Parameters
  <2>2. tracks \subseteq Registers BY <1>1, Sizes
  <2>3. sectors \subseteq 1..31 BY <1>2
  <2>4. seconds \subseteq Registers BY Sizes
  <2> HIDE DEF tracks, seconds, sectors
  <2> QED BY <1>4, <2>1, <2>2, <2>3, <2>4
<1> QED BY <1>3, <1>4

\* The drive of a command is selected, and unloaded if it was not selected already
\* (intel_fdc_start_command).
LEMMA StartCommandLeads ==
  ASSUME NEW f, Written(f), program \in Programs, NEW p \in Parameters(f.command)
  PROVE  Leads(f, StartCommand(f, p))
<1> DEFINE r == ReadDriveStatus(f)
           g == [r EXCEPT !.accepts = "none"]
           chosen == IF g.select = g.wanted THEN g ELSE SetDriveOut(g, g.wanted, FALSE, FALSE, FALSE)
           out == SetDriveOut(chosen, p.select, p.load, p.gate, FALSE)
           h == Forget(out)
           told == [chosen EXCEPT !.track = p.track, !.sectors = p.sectors, !.second = p.second]
           x == StartCommand(f, p)
<1>1. x = IF f.command = "set_drive_out" THEN [h EXCEPT !.busy = FALSE, !.held = p.gate] ELSE CommandDispatch(told)
  BY DEF StartCommand
<1> HIDE DEF x
<1>2. Base(f) /\ f.level = f.nmi /\ f.command \in AllCommands BY DEF Written
<1>3. Base(r) /\ Changes(f, r, {"ready", "protected"}) BY <1>2, ReadDriveStatusKeeps
<1> HIDE DEF r
<1>4. Changes(r, g, {"accepts"}) /\ g.accepts = "none" BY <1>3 DEF Base, Changes, Fields
<1> HIDE DEF g
<1>5. Base(g) BY <1>3, <1>4, BaseKept DEF FreeFields
<1>6. Shut(g) BY <1>2, <1>3, <1>4 DEF Written, Shut, Changes, Fields
<1>7. Base(chosen) /\ Changes(g, chosen, PortFields) /\ chosen.select = g.wanted /\ Shut(chosen)
  <2>1. CASE g.select = g.wanted
    <3>1. chosen = g BY <2>1
    <3> QED BY <1>5, <1>6, <2>1, <3>1 DEF Changes, Base
  <2>2. CASE g.select # g.wanted
    <3>1. chosen = SetDriveOut(g, g.wanted, FALSE, FALSE, FALSE) BY <2>2
    <3>2. g.wanted \in Drives \cup {None} BY <1>5 DEF Base, Places
    <3>3. Base(chosen) /\ Changes(g, chosen, PortFields) /\ PortIs(chosen, g.wanted, FALSE, FALSE, FALSE)
      BY <1>5, <3>1, <3>2, SetDriveOutKeeps
    <3> QED BY <3>3 DEF PortIs, Shut
  <2> QED BY <2>1, <2>2
<1> HIDE DEF chosen
<1>8. Changes(f, chosen, {"ready", "protected", "accepts"} \cup PortFields) /\ chosen.accepts = "none"
  BY <1>3, <1>4, <1>7 DEF Changes, Fields, PortFields
<1>9. chosen.select = chosen.wanted BY <1>7 DEF Changes, Fields, PortFields
<1>10. CASE f.command = "set_drive_out"
  <2>1. x = [h EXCEPT !.busy = FALSE, !.held = p.gate] BY <1>1, <1>10
  <2>2. p.select \in Drives \cup {None} /\ p.load \in BOOLEAN /\ p.gate \in BOOLEAN
    BY <1>2, <1>10, ParametersInRange
  <2>3. Base(out) /\ Changes(chosen, out, PortFields) /\ PortIs(out, p.select, p.load, p.gate, FALSE)
    BY <1>7, <2>2, SetDriveOutKeeps
  <2>4. out.gate = p.gate BY <2>3 DEF PortIs
  <2> HIDE DEF out
  <2>5. /\ Base(h) /\ Changes(out, h, ForgottenFields)
        /\ h.retries = 0 /\ h.sectors = 0 /\ h.routine = 0 /\ h.asked = 0 /\ h.call = "none"
    BY <2>3, ForgetKeeps
  <2> HIDE DEF h
  <2>6. Changes(h, x, {"busy", "held"}) /\ x.busy = FALSE /\ x.held = p.gate BY <2>1, <2>5 DEF Base, Changes, Fields
  <2>7. Flags(x) BY <2>5, <2>6, FlagsKept DEF FlagFields
  <2>11. Port(x) BY <2>2, <2>5, <2>6 DEF Base, Port, Changes, Fields
  <2>8. Base(x) BY <2>5, <2>6, <2>7, <2>11, BaseKept DEF FlagFields, PortFields
  <2>9. Idle(x) /\ x.level = f.level /\ x.nmi = f.nmi /\ x.edge = f.edge /\ x.result = f.result
    BY <1>8, <2>3, <2>4, <2>5, <2>6 DEF Written, Idle, Resting, Shut, Changes, Fields, PortFields, ForgottenFields
  <2>10. Sound(x) BY <1>2, <2>8, <2>9 DEF Sound, Phase
  <2> QED BY <1>10, <2>9, <2>10, QuietlyLeads DEF x
<1>11. CASE f.command # "set_drive_out"
  <2>1. x = CommandDispatch(told) BY <1>1, <1>11
  <2>2. p.track \in Registers /\ p.second \in Registers /\ p.sectors \in 1..31
    BY <1>2, <1>11, ParametersInRange
  <2>3. /\ Changes(chosen, told, {"track", "sectors", "second"})
        /\ told.track = p.track /\ told.sectors = p.sectors /\ told.second = p.second
    BY <1>7 DEF Base, Changes, Fields
  <2> HIDE DEF told
  <2>5. Places(told) BY <1>7, <2>2, <2>3 DEF Base, Places, Changes, Fields
  <2>6. Base(told) BY <1>7, <2>3, <2>5, BaseKept DEF PlaceFields, FreeFields
  <2>7. Changes(f, told, {"ready", "protected", "accepts", "track", "sectors", "second"} \cup PortFields)
        /\ told.accepts = "none" /\ told.select = told.wanted /\ Shut(told)
    BY <1>7, <1>8, <1>9, <2>3 DEF Shut, Changes, Fields, PortFields
  <2>8. /\ told.level = told.nmi /\ told.busy /\ Resting(told) /\ told.state = "idle"
        /\ told.onIndex \in {"none", "spindown"} /\ ~told.irqs /\ told.command = f.command
        /\ told.level = f.level /\ told.edge = f.edge /\ told.wanted = f.wanted
        /\ told.retries = 0 /\ told.routine = 0 /\ told.asked = 0 /\ told.result = {} /\ f.result = {}
        /\ told.call = "none"
    BY <2>7 DEF Written, Resting, Changes, Fields, PortFields
  <2>9. told.command \notin Simple => Working(told) BY <1>2, <2>2, <2>3, <2>7, <2>8 DEF Working
  <2>10. Ready(told) BY <1>2, <1>11, <2>2, <2>3, <2>6, <2>7, <2>8, <2>9 DEF Ready, Written
  <2>11. Told(f, told) BY <2>8 DEF Told
  <2> QED BY <2>1, <2>8, <2>10, <2>11, CommandDispatchLeads, LeadsOn DEF x
<1> QED BY <1>10, <1>11

-----------------------------------------------------------------------------
(* What the 6502 does, and the timer.                                        *)

\* Where a step goes: a struct that is sound again, and if a command ended it was told.
Followed == SoundNow' /\ (fdc.busy => Leads(Begun(fdc), fdc'))

\* What does not matter to what the chip is doing.
PassiveFields == {"edge", "resultReady", "need", "media", "nmi", "level", "wasIndex", "indexCount", "failed"}

\* The phase does not depend on it, as long as the line does not rise.
LEMMA PhaseKept ==
  ASSUME NEW f, NEW g, Phase(f), Changes(f, g, PassiveFields), g.level => f.level
  PROVE  Phase(g)
<1>1. CASE Idle(f)
  <2>1. Idle(g) BY <1>1 DEF Idle, Resting, Shut, Changes, Fields, PassiveFields
  <2> QED BY <2>1 DEF Phase
<1>2. CASE Asking(f)
  <2>1. Asking(g) BY <1>2 DEF Asking, Resting, Shut, Changes, Fields, PassiveFields
  <2> QED BY <2>1 DEF Phase
<1>3. CASE Seeking(f)
  <2>1. Seeking(g) BY <1>3 DEF Seeking, Working, Homing, Aside, Shut, Changes, Fields, PassiveFields
  <2> QED BY <2>1 DEF Phase
<1>4. CASE AwaitingIndex(f)
  <2>1. AwaitingIndex(g) BY <1>4 DEF AwaitingIndex, Placed, Direct, Working, Resting, Shut, Changes, Fields, PassiveFields
  <2> QED BY <2>1 DEF Phase
<1>5. CASE Searching(f)
  <2>1. Placed(g) BY <1>5 DEF Searching, OnTrack, Placed, Direct, Working, Resting, Changes, Fields, PassiveFields
  <2>2. Searched(g) BY <1>5 DEF Searching, OnTrack, Searched, Quiet, Changes, Fields, PassiveFields
  <2>3. Searching(g) BY <1>5, <2>1, <2>2 DEF Searching, OnTrack, Direct, Shut, Changes, Fields, PassiveFields
  <2> QED BY <2>3 DEF Phase
<1>6. CASE WritingDisc(f)
  <2>1. Placed(g) BY <1>6 DEF WritingDisc, GateOpen, Placed, Direct, Working, Resting, Changes, Fields, PassiveFields
  <2>2. SectorWritten(f) => SectorWritten(g) BY DEF SectorWritten, Changes, Fields, PassiveFields
  <2>3. TrackFormatted(f) => TrackFormatted(g) BY DEF TrackFormatted, Changes, Fields, PassiveFields
  <2>4. WritingDisc(g) BY <1>6, <2>1, <2>2, <2>3 DEF WritingDisc, GateOpen, Changes, Fields, PassiveFields
  <2> QED BY <2>4 DEF Phase
<1> QED BY <1>1, <1>2, <1>3, <1>4, <1>5, <1>6 DEF Phase

\* An edge is seen once.
LEMMA BegunKeeps ==
  ASSUME NEW f, Base(f)
  PROVE  LET g == Begun(f)
         IN  Base(g) /\ Changes(f, g, {"edge"}) /\ g.edge = FALSE
<1> DEFINE g == Begun(f)
<1>1. Changes(f, g, {"edge"}) /\ g.edge = FALSE BY DEF Begun, Base, Changes, Fields
<1> HIDE DEF g
<1>2. Flags(g) BY <1>1, FlagsKept DEF FlagFields
<1>3. Base(g) BY <1>1, <1>2, BaseKept DEF FlagFields
<1> QED BY <1>1, <1>3 DEF g

\* What the invariant says of any state: no timer without a purpose, no old result
\* of a command that still runs.
LEMMA SoundSays ==
  ASSUME NEW f, Sound(f)
  PROVE  /\ Base(f) /\ Armed(f) /\ f.level = f.nmi
         /\ f.busy => "late_dma" \notin f.result
         /\ ~f.busy => Idle(f)
         /\ f.ticking => Seeking(f)
         /\ f.accepts # "none" => Asking(f)
<1>1. Base(f) /\ f.level = f.nmi BY DEF Sound
<1>2. f.ticking \in BOOLEAN BY <1>1 DEF Base, Flags, FlagFields
<1>3. Idle(f) \/ Asking(f) \/ Seeking(f) \/ AwaitingIndex(f) \/ Searching(f) \/ WritingDisc(f)
  BY DEF Sound, Phase
<1>4. Armed(f)
  BY <1>2, <1>3
  DEF Armed, Idle, Asking, Seeking, AwaitingIndex, Searching, OnTrack, WritingDisc, GateOpen, Placed, Direct, Resting
<1>6. f.busy => "late_dma" \notin f.result
  BY <1>3 DEF Idle, Asking, Seeking, AwaitingIndex, Searching, OnTrack, WritingDisc, GateOpen, Placed, Direct, Working
<1>7. ~f.busy => Idle(f)
  BY <1>3 DEF Asking, Seeking, AwaitingIndex, Searching, OnTrack, WritingDisc, GateOpen, Placed, Direct, Working
<1>8. f.ticking => Seeking(f)
  BY <1>3 DEF Idle, Asking, AwaitingIndex, Searching, OnTrack, WritingDisc, GateOpen, Placed, Direct, Resting
<1>9. f.accepts # "none" => Asking(f)
  BY <1>3 DEF Idle, Seeking, AwaitingIndex, Searching, OnTrack, WritingDisc, GateOpen, Placed, Direct, Working
<1> QED BY <1>1, <1>4, <1>6, <1>7, <1>8, <1>9

\* A step that leads on is followed.
LEMMA LeadsFollowed ==
  ASSUME NEW g, Become(g), program \in Programs, Leads(Begun(fdc), g)
  PROVE  Followed
<1>1. fdc' = g /\ program' = program BY DEF Become
<1>2. Sound(g) BY DEF Leads
<1> QED BY <1>1, <1>2 DEF Followed, SoundNow

\* A step that does not matter to what the chip is doing leads on.
LEMMA PassiveLeads ==
  ASSUME NEW f, NEW g, Sound(f), Base(g), Changes(f, g, PassiveFields), g.level = g.nmi, g.level => f.level, ~g.edge
  PROVE  Sound(g) /\ (f.busy => Leads(Begun(f), g))
<1>1. Base(f) /\ Phase(f) BY DEF Sound
<1>2. Phase(g) BY <1>1, PhaseKept
<1>3. Sound(g) BY <1>2 DEF Sound
<1>4. Changes(f, Begun(f), {"edge"}) /\ Begun(f).edge = FALSE BY <1>1, BegunKeeps
<1>5. Told(Begun(f), g) /\ g.busy = f.busy BY <1>4 DEF Told, Changes, Fields, PassiveFields
<1> QED BY <1>3, <1>5 DEF Leads, Found

\* How many parameters a command waits for.
LEMMA ParamCounts == \A c \in AllCommands : ParamCount[c] \in 0..5 /\ (ParamCount[c] = 0 <=> c = "drive_status")
<1> SUFFICES ASSUME NEW c \in AllCommands
             PROVE  ParamCount[c] \in 0..5 /\ (ParamCount[c] = 0 <=> c = "drive_status")
  OBVIOUS
<1>1. CASE c \in {"seek", "specify_timings", "specify_tracks", "read_special"} BY <1>1 DEF ParamCount
<1>2. CASE c \in {"read", "read_deleted", "verify", "write", "read_id"} BY <1>2 DEF ParamCount
<1>3. CASE c \in {"scan", "format", "drive_status", "set_drive_out", "set_mode"} BY <1>3 DEF ParamCount
<1> QED BY <1>1, <1>2, <1>3 DEF AllCommands, ParamCount

\* A command is written to a chip that rests (intel_fdc_write, FDC_COMMAND).
LEMMA WriteCommandFollowed ==
  ASSUME SoundNow, NEW c \in AllCommands, NEW d \in Drives \cup {None}, WriteCommand(c, d)
  PROVE  Followed
<1> DEFINE b == Begun(fdc)
           e == [b EXCEPT !.command = c, !.wanted = d, !.busy = TRUE]
           f == [e EXCEPT !.result = {}, !.resultReady = TRUE, !.retries = ParamCount[c]]
           g == [f EXCEPT !.accepts = "command"]
<1>1. Sound(fdc) /\ program \in Programs /\ ~fdc.busy BY DEF SoundNow, WriteCommand
<1>2. Base(fdc) /\ Idle(fdc) /\ fdc.level = fdc.nmi BY <1>1, SoundSays
<1>3. IF ParamCount[c] = 0 THEN \E p \in Parameters(c) : Become(StartCommand(f, p)) ELSE Become(g)
  BY DEF WriteCommand
<1>4. c = "set_mode" => ~fdc.level BY DEF WriteCommand
<1>5. Base(b) /\ Changes(fdc, b, {"edge"}) BY <1>2, BegunKeeps
<1> HIDE DEF b
<1>6. Changes(b, e, {"command", "wanted", "busy"}) /\ e.command = c /\ e.wanted = d /\ e.busy = TRUE
  BY <1>5 DEF Base, Changes, Fields
<1> HIDE DEF e
<1>7. /\ Changes(b, f, {"command", "wanted", "busy", "result", "resultReady", "retries"})
      /\ f.command = c /\ f.wanted = d /\ f.busy = TRUE
      /\ f.result = {} /\ f.resultReady = TRUE /\ f.retries = ParamCount[c]
  BY <1>6 DEF Changes, Fields
<1> HIDE DEF f
<1>8. Flags(f) BY <1>5, <1>7, FlagsKept DEF FlagFields
<1>9. Places(f) BY <1>5, <1>7 DEF Base, Places, Changes, Fields
<1>10. Others(f) BY <1>5, <1>7 DEF Base, Others, Changes, Fields
<1>11. Base(f)
  BY <1>5, <1>7, <1>8, <1>9, <1>10, BaseKept DEF FlagFields, PlaceFields, OtherFields, FreeFields
<1>12. Changes(fdc, f, {"edge", "command", "wanted", "busy", "result", "resultReady", "retries"})
  BY <1>5, <1>7 DEF Changes
<1>13. CASE ParamCount[c] = 0
  <2>1. PICK p \in Parameters(c) : Become(StartCommand(f, p)) BY <1>3, <1>13
  <2>2. Written(f)
    BY <1>2, <1>4, <1>7, <1>11, <1>12, <1>13 DEF Idle, Written, Resting, Shut, Changes, Fields
  <2>3. Sound(StartCommand(f, p)) BY <1>1, <1>7, <2>1, <2>2, StartCommandLeads DEF Leads
  <2> QED BY <1>1, <2>1, <2>3 DEF Followed, SoundNow, Become
<1>14. CASE ParamCount[c] # 0
  <2>1. Become(g) BY <1>3, <1>14
  <2>2. Changes(f, g, {"accepts"}) /\ g.accepts = "command" BY <1>11 DEF Base, Changes, Fields
  <2> HIDE DEF g
  <2>3. Base(g) BY <1>11, <2>2, BaseKept DEF FreeFields
  <2>4. ParamCount[c] \in 1..5 /\ c # "drive_status" BY <1>14, ParamCounts
  <2>5. Asking(g)
    BY <1>2, <1>4, <1>7, <1>12, <2>2, <2>4 DEF Idle, Asking, Resting, Shut, Changes, Fields
  <2>6. Sound(g) BY <1>2, <1>12, <2>2, <2>3, <2>5 DEF Sound, Phase, Changes, Fields
  <2> QED BY <1>1, <2>1, <2>6 DEF Followed, SoundNow, Become
<1> QED BY <1>13, <1>14

\* A parameter is written: one the chip does not wait for, one of several, the last of
\* a command's, or the last of a specify command's (intel_fdc_write, FDC_PARAMETER).
LEMMA WriteParameterFollowed ==
  ASSUME SoundNow, WriteParameter
  PROVE  Followed
<1> DEFINE b == Begun(fdc)
           q == [b EXCEPT !.resultReady = FALSE]
           retries == b.retries - 1
           f == [b EXCEPT !.resultReady = FALSE, !.retries = retries]
           m == IF f.command = "specify_timings" THEN [f EXCEPT !.specified = TRUE]
                ELSE [f EXCEPT !.badTrack = RegMod - 1, !.trackReg[Unit(f)] = 0]
<1>1. Sound(fdc) /\ program \in Programs BY DEF SoundNow
<1>2. Base(fdc) /\ fdc.level = fdc.nmi BY <1>1, SoundSays
<1>3. Base(b) /\ Changes(fdc, b, {"edge"}) /\ b.edge = FALSE BY <1>2, BegunKeeps
<1>4. \/ fdc.accepts = "none" /\ Become(q)
      \/ fdc.accepts # "none" /\ f.retries > 0 /\ Become(f)
      \/ fdc.accepts = "command" /\ f.retries = 0 /\ \E p \in Parameters(f.command) : Become(StartCommand(f, p))
      \/ fdc.accepts = "specify" /\ f.retries = 0 /\ Become(FinishSimpleCommand(m))
  BY DEF WriteParameter
<1>5. CASE fdc.accepts = "none" /\ Become(q)
  <2>1. Changes(b, q, {"resultReady"}) /\ q.resultReady = FALSE BY <1>3 DEF Base, Changes, Fields
  <2> HIDE DEF b, q
  <2>2. Flags(q) BY <1>3, <2>1, FlagsKept DEF FlagFields
  <2>3. Base(q) BY <1>3, <2>1, <2>2, BaseKept DEF FlagFields
  <2>4. Changes(fdc, q, PassiveFields) /\ q.level = fdc.level /\ q.level = q.nmi /\ ~q.edge
    BY <1>2, <1>3, <2>1 DEF Changes, Fields, PassiveFields
  <2>5. Sound(q) /\ (fdc.busy => Leads(Begun(fdc), q)) BY <1>1, <2>3, <2>4, PassiveLeads
  <2> QED BY <1>1, <1>5, <2>5 DEF Followed, SoundNow, Become
<1>6. ASSUME fdc.accepts # "none" PROVE Followed
  <2>1. Asking(fdc) /\ fdc.busy BY <1>1, <1>6, SoundSays DEF Asking
  <2>2. retries = fdc.retries - 1 /\ fdc.retries \in 1..5 BY <1>3, <2>1 DEF Asking, Changes, Fields
  <2> HIDE DEF b, retries
  <2>3. Changes(b, f, {"resultReady", "retries"}) /\ f.resultReady = FALSE /\ f.retries = retries
    BY <1>3 DEF Base, Changes, Fields
  <2> HIDE DEF f
  <2>4. Flags(f) BY <1>3, <2>3, FlagsKept DEF FlagFields
  <2>5. Base(f) BY <1>3, <2>3, <2>4, BaseKept DEF FlagFields, FreeFields
  <2>6. Changes(fdc, f, {"edge", "resultReady", "retries"}) BY <1>3, <2>3 DEF Changes
  <2>7. Told(b, f) /\ f.command = b.command /\ f.wanted = b.wanted BY <2>3 DEF Told, Changes, Fields
  <2>8. CASE f.retries > 0 /\ Become(f)
    <3>1. f.retries \in 1..4 /\ (fdc.retries <= 3 => f.retries <= 3) BY <2>2, <2>3, <2>8
    <3>2. Asking(f) BY <2>1, <2>6, <3>1 DEF Asking, Resting, Shut, Changes, Fields
    <3>3. Sound(f) BY <1>2, <2>5, <2>6, <3>2 DEF Sound, Phase, Changes, Fields
    <3>4. Leads(b, f) BY <2>7, <3>2, <3>3 DEF Leads, Found, Asking
    <3> QED BY <1>1, <2>8, <3>4, LeadsFollowed DEF b
  <2>9. CASE f.retries = 0 /\ \E p \in Parameters(f.command) : Become(StartCommand(f, p))
    <3>1. PICK p \in Parameters(f.command) : Become(StartCommand(f, p)) BY <2>9
    <3>2. Written(f)
      BY <1>2, <2>1, <2>5, <2>6, <2>9 DEF Asking, Written, Resting, Shut, Changes, Fields
    <3>3. Leads(f, StartCommand(f, p)) BY <1>1, <3>1, <3>2, StartCommandLeads
    <3> QED BY <1>1, <2>7, <3>1, <3>3, LeadsOn, LeadsFollowed DEF b
  <2>10. CASE fdc.accepts = "specify" /\ Become(FinishSimpleCommand(m))
    <3> DEFINE x == FinishSimpleCommand(m)
    <3>1. Unit(f) \in Drives BY Sizes DEF Unit
    <3>2. Base(m) /\ Changes(f, m, {"specified", "badTrack", "trackReg"})
      <4>1. CASE f.command = "specify_timings"
        <5>1. m = [f EXCEPT !.specified = TRUE] BY <4>1
        <5> HIDE DEF m
        <5>2. Changes(f, m, {"specified"}) /\ m.specified = TRUE BY <2>5, <5>1 DEF Base, Changes, Fields
        <5>3. Flags(m) BY <2>5, <5>2, FlagsKept DEF FlagFields
        <5>4. Base(m) BY <2>5, <5>2, <5>3, BaseKept DEF FlagFields
        <5> QED BY <5>2, <5>4 DEF Changes
      <4>2. CASE f.command # "specify_timings"
        <5> DEFINE trackReg == [f.trackReg EXCEPT ![Unit(f)] = 0]
        <5>1. m = [f EXCEPT !.badTrack = RegMod - 1, !.trackReg = trackReg] BY <4>2
        <5>2. trackReg \in [Drives -> Registers] BY <2>5, <3>1, Sizes DEF Base, Places
        <5> HIDE DEF m, trackReg
        <5>3. /\ Changes(f, m, {"badTrack", "trackReg"}) /\ m.badTrack = RegMod - 1 /\ m.trackReg = trackReg
          BY <2>5, <5>1 DEF Base, Changes, Fields
        <5>4. RegMod - 1 \in Registers BY Sizes
        <5>5. Places(m) BY <2>5, <5>2, <5>3, <5>4 DEF Base, Places, Changes, Fields
        <5>6. Base(m) BY <2>5, <5>3, <5>5, BaseKept DEF PlaceFields
        <5> QED BY <5>3, <5>6 DEF Changes
      <4> QED BY <4>1, <4>2
    <3> HIDE DEF m
    <3>3. /\ Armed(m) /\ Shut(m) /\ m.edge = b.edge /\ m.level = b.level /\ m.nmi = b.nmi
          /\ m.result = b.result /\ b.nmi = b.level
      BY <1>2, <1>3, <2>1, <2>3, <2>6, <3>2 DEF Asking, Resting, Armed, Shut, Changes, Fields
    <3>4. Base(x) /\ Idle(x) /\ Changes(m, x, EndFields) BY <1>1, <3>2, <3>3, FinishSimpleCommandEnds
    <3> HIDE DEF x
    <3>5. x.edge = b.edge /\ x.level = b.level /\ x.nmi = b.nmi /\ x.result = b.result
      BY <3>3, <3>4 DEF Changes, Fields, EndFields, CallbackFields, ForgottenFields, PortFields
    <3>6. Sound(x) BY <3>3, <3>4, <3>5 DEF Sound, Phase
    <3>7. b.command # "seek" BY <1>3, <2>1, <2>10 DEF Asking, Changes, Fields
    <3>8. Leads(b, x) BY <3>5, <3>6, <3>7, QuietlyLeads
    <3> QED BY <1>1, <2>10, <3>8, LeadsFollowed DEF b, x
  <2> QED BY <1>4, <1>6, <2>8, <2>9, <2>10
<1> QED BY <1>4, <1>5, <1>6

\* The result or a data byte is read: the line falls with the status bit
\* (intel_fdc_read, FDC_RESULT, FDC_DATA).
LEMMA LowerNmiFollowed ==
  ASSUME SoundNow, NEW q, Base(q), Changes(Begun(fdc), q, {"resultReady", "need"}), Become(LowerNmi(q))
  PROVE  Followed
<1> DEFINE b == Begun(fdc)
           e == [q EXCEPT !.nmi = FALSE]
           g == LowerNmi(q)
<1>1. Sound(fdc) /\ program \in Programs BY DEF SoundNow
<1>2. Base(fdc) /\ fdc.level = fdc.nmi BY <1>1, SoundSays
<1>3. Base(b) /\ Changes(fdc, b, {"edge"}) /\ b.edge = FALSE BY <1>2, BegunKeeps
<1>4. g = SetLevel(e, FALSE) BY DEF LowerNmi
<1>5. Changes(q, e, {"nmi"}) /\ e.nmi = FALSE BY DEF Base, Changes, Fields
<1> HIDE DEF b, e
<1>6. Flags(e) BY <1>5, FlagsKept DEF FlagFields
<1>7. Base(e) BY <1>5, <1>6, BaseKept DEF FlagFields
<1> HIDE DEF g
<1>8. /\ Base(g) /\ Changes(e, g, {"level", "edge"}) /\ g.level = FALSE BY <1>4, <1>7, SetLevelKeeps
<1>9. e.edge = FALSE BY <1>3, <1>5 DEF Changes, Fields, b
<1>10. g.edge = FALSE
  <2>1. g.edge = (e.edge \/ (FALSE /\ ~e.level)) BY <1>4, <1>7 DEF SetLevel, Base, Fields
  <2> QED BY <1>9, <2>1
<1>11. Changes(fdc, g, PassiveFields) /\ g.level = g.nmi
  BY <1>3, <1>5, <1>8 DEF Changes, Fields, PassiveFields, b
<1>12. Sound(g) /\ (fdc.busy => Leads(Begun(fdc), g)) BY <1>1, <1>8, <1>10, <1>11, PassiveLeads
<1> QED BY <1>1, <1>12 DEF Followed, SoundNow, Become, g

\* The 6502 reads the result register (intel_fdc_read).
LEMMA ReadResultFollowed ==
  ASSUME SoundNow, ReadResult
  PROVE  Followed
<1> DEFINE b == Begun(fdc)
           q == [b EXCEPT !.resultReady = FALSE]
<1>1. Become(LowerNmi(q)) BY DEF ReadResult
<1>2. Base(b) BY SoundSays, BegunKeeps DEF SoundNow
<1> HIDE DEF b
<1>3. Changes(b, q, {"resultReady"}) /\ q.resultReady = FALSE BY <1>2 DEF Base, Changes, Fields
<1> HIDE DEF q
<1>4. Flags(q) BY <1>2, <1>3, FlagsKept DEF FlagFields
<1>5. Base(q) BY <1>2, <1>3, <1>4, BaseKept DEF FlagFields
<1>6. Changes(b, q, {"resultReady", "need"}) BY <1>3 DEF Changes
<1> QED BY <1>1, <1>5, <1>6, LowerNmiFollowed DEF b

\* The 6502 reads or writes the data register (intel_fdc_read, intel_fdc_write).
LEMMA AccessDataFollowed ==
  ASSUME SoundNow, AccessData
  PROVE  Followed
<1> DEFINE b == Begun(fdc)
           q == [b EXCEPT !.need = FALSE]
<1>1. Become(LowerNmi(q)) BY DEF AccessData
<1>2. Base(b) BY SoundSays, BegunKeeps DEF SoundNow
<1> HIDE DEF b
<1>3. Changes(b, q, {"need"}) /\ q.need = FALSE BY <1>2 DEF Base, Changes, Fields
<1> HIDE DEF q
<1>4. Flags(q) BY <1>2, <1>3, FlagsKept DEF FlagFields
<1>5. Base(q) BY <1>2, <1>3, <1>4, BaseKept DEF FlagFields
<1>6. Changes(b, q, {"resultReady", "need"}) BY <1>3 DEF Changes
<1> QED BY <1>1, <1>5, <1>6, LowerNmiFollowed DEF b

\* What a reset may stop.
LEMMA ResetApplies ==
  ASSUME SoundNow
  PROVE  LET b == Begun(fdc) IN Base(b) /\ Armed(b)
<1> DEFINE b == Begun(fdc)
<1>1. Base(fdc) /\ Armed(fdc) BY SoundSays DEF SoundNow
<1>2. Base(b) /\ Changes(fdc, b, {"edge"}) BY <1>1, BegunKeeps
<1> HIDE DEF b
<1>3. Armed(b) BY <1>1, <1>2 DEF Armed, Changes, Fields
<1> QED BY <1>2, <1>3 DEF b

\* A reset register write, and BREAK (intel_fdc_break_reset): no command is told of.
LEMMA ResetFollowed ==
  ASSUME SoundNow, Reset
  PROVE  Followed
<1> DEFINE b == Begun(fdc)
           g == BreakReset(b)
<1>1. Become(g) BY DEF Reset
<1>2. Sound(g) /\ Told(b, g) /\ ~g.nmi BY ResetApplies, BreakResetEnds
<1> HIDE DEF b, g
<1>3. Leads(b, g) BY <1>2 DEF Leads, Found
<1> QED BY <1>1, <1>3, LeadsFollowed DEF b, SoundNow

\* Power goes off and on, with other discs in the drives (intel_fdc_power_on_reset).
LEMMA PowerOnResetFollowed ==
  ASSUME SoundNow, PowerOnReset
  PROVE  Followed
<1> DEFINE b == Begun(fdc)
           r == BreakReset(b)
           zeros == [d \in Drives |-> 0]
           none == [d \in Drives |-> FALSE]
<1>1. PICK media \in Inserted :
        Become([r EXCEPT !.result = {}, !.resultReady = FALSE, !.trackReg = zeros, !.badTrack = 0,
                         !.ready = none, !.protected = FALSE, !.specified = FALSE, !.wasIndex = FALSE,
                         !.head = zeros, !.media = media])
  BY DEF PowerOnReset
<1> DEFINE p == [r EXCEPT !.result = {}, !.resultReady = FALSE, !.trackReg = zeros, !.badTrack = 0, !.ready = none]
           g == [p EXCEPT !.protected = FALSE, !.specified = FALSE, !.wasIndex = FALSE, !.head = zeros,
                          !.media = media]
<1>2. Become(g) BY <1>1
<1>3. Sound(r) /\ Idle(r) /\ Told(b, r) /\ ~r.nmi BY ResetApplies, BreakResetEnds
<1>4. Base(r) /\ r.level = r.nmi BY <1>3 DEF Sound
<1>5. media \in [Drives -> Media] BY DEF Inserted
<1>6. zeros \in [Drives -> Registers] /\ zeros \in [Drives -> 0..MaxTrack] /\ none \in [Drives -> BOOLEAN] BY Sizes
<1> HIDE DEF b, r, zeros, none
<1>7. /\ Changes(r, p, {"result", "resultReady", "trackReg", "badTrack", "ready"})
      /\ p.result = {} /\ p.resultReady = FALSE /\ p.trackReg = zeros /\ p.badTrack = 0 /\ p.ready = none
  BY <1>4 DEF Base, Changes, Fields
<1> HIDE DEF p
<1>8. /\ Changes(p, g, {"protected", "specified", "wasIndex", "head", "media"})
      /\ g.protected = FALSE /\ g.specified = FALSE /\ g.wasIndex = FALSE /\ g.head = zeros /\ g.media = media
  BY <1>7 DEF Changes, Fields
<1> HIDE DEF g
<1>9. /\ Changes(r, g, {"result", "resultReady", "trackReg", "badTrack", "ready",
                        "protected", "specified", "wasIndex", "head", "media"})
      /\ g.result = {} /\ g.resultReady = FALSE /\ g.trackReg = zeros /\ g.badTrack = 0 /\ g.ready = none
  BY <1>7, <1>8 DEF Changes, Fields
<1>10. Flags(g) BY <1>4, <1>8, <1>9, FlagsKept DEF FlagFields
<1>11. Places(g) BY <1>4, <1>6, <1>8, <1>9, Sizes DEF Base, Places, Changes, Fields
<1>12. Others(g) BY <1>4, <1>5, <1>6, <1>8, <1>9 DEF Base, Others, Changes, Fields
<1>13. Base(g) BY <1>4, <1>9, <1>10, <1>11, <1>12, BaseKept DEF FlagFields, PlaceFields, OtherFields
<1>14. Idle(g) /\ g.level = g.nmi /\ ~g.nmi /\ g.edge = r.edge /\ g.level = r.level
  BY <1>3, <1>4, <1>9 DEF Idle, Resting, Shut, Changes, Fields
<1>15. Sound(g) BY <1>13, <1>14 DEF Sound, Phase
<1>16. Told(b, g) BY <1>3, <1>9, <1>14 DEF Told
<1>17. Leads(b, g) BY <1>14, <1>15, <1>16 DEF Leads, Found
<1> QED BY <1>2, <1>17, LeadsFollowed DEF b, SoundNow

\* A disc is changed under the head.
LEMMA ChangeDiscFollowed ==
  ASSUME SoundNow, ChangeDisc
  PROVE  Followed
<1> DEFINE b == Begun(fdc)
<1>1. PICK d \in program.drives \ {None}, m \in program.media : Become([b EXCEPT !.media[d] = m])
  BY DEF ChangeDisc
<1> DEFINE media == [b.media EXCEPT ![d] = m]
           g == [b EXCEPT !.media = media]
<1>2. Become(g) BY <1>1
<1>3. Sound(fdc) /\ program \in Programs BY DEF SoundNow
<1>4. Base(fdc) /\ fdc.level = fdc.nmi BY <1>3, SoundSays
<1>5. Base(b) /\ Changes(fdc, b, {"edge"}) /\ b.edge = FALSE BY <1>4, BegunKeeps
<1>6. d \in Drives /\ m \in Media BY <1>3, IntelAssumption DEF IntelAssumption
<1>7. media \in [Drives -> Media] BY <1>5, <1>6 DEF Base, Others
<1> HIDE DEF b, media
<1>8. Changes(b, g, {"media"}) /\ g.media = media BY <1>5 DEF Base, Changes, Fields
<1> HIDE DEF g
<1>9. Others(g) BY <1>5, <1>7, <1>8 DEF Base, Others, Changes, Fields
<1>10. Base(g) BY <1>5, <1>8, <1>9, BaseKept DEF OtherFields
<1>11. Changes(fdc, g, PassiveFields) /\ g.level = g.nmi /\ g.level = fdc.level /\ ~g.edge
  BY <1>4, <1>5, <1>8 DEF Changes, Fields, PassiveFields
<1>12. Sound(g) /\ (fdc.busy => Leads(Begun(fdc), g)) BY <1>3, <1>10, <1>11, PassiveLeads
<1> QED BY <1>2, <1>3, <1>12 DEF Followed, SoundNow, Become

\* The walk of the expiry list may fail after a callback; nothing else changes.
LEMMA AfterCallbackKeeps ==
  ASSUME NEW g, Sound(g), NEW stops, NEW h \in AfterCallback(g, stops)
  PROVE  Sound(h) /\ Changes(g, h, {"failed"})
<1>1. Base(g) /\ Phase(g) /\ g.level = g.nmi BY DEF Sound
<1>2. CASE h = g BY <1>1, <1>2 DEF Base, Changes
<1>3. CASE h # g
  <2>1. h = Fail(g, "next timer is not ticking") BY <1>3 DEF AfterCallback
  <2>2. Base(h) /\ Changes(g, h, {"failed"}) BY <1>1, <2>1, FailKeeps DEF Failures
  <2>6. Changes(g, h, PassiveFields) /\ h.level = g.level /\ h.level = h.nmi
    BY <1>1, <2>2 DEF Changes, Fields, PassiveFields
  <2>7. Phase(h) BY <1>1, <2>6, PhaseKept
  <2> QED BY <2>2, <2>6, <2>7 DEF Sound
<1> QED BY <1>2, <1>3

\* What a callback leads to, it leads to after the walk.
LEMMA AfterCallbackLeads ==
  ASSUME NEW f, NEW g, Leads(f, g), NEW stops, NEW h \in AfterCallback(g, stops)
  PROVE  Leads(f, h)
<1>1. Sound(g) BY DEF Leads
<1>2. Sound(h) /\ Changes(g, h, {"failed"}) BY <1>1, AfterCallbackKeeps
<1>3. Told(f, h) /\ Found(f, h) BY <1>2 DEF Leads, Told, Found, Changes, Fields
<1> QED BY <1>2, <1>3 DEF Leads

\* The timer was for the next step of the head, or for its settling
\* (intel_fdc_timer_fired).
LEMMA TimerFiredFollowed ==
  ASSUME SoundNow, TimerFired
  PROVE  Followed
<1> DEFINE b == Begun(fdc)
           f == [b EXCEPT !.ticking = FALSE]
           g == CASE f.timer = "seek_step" -> DoSeekStep(f)
                  [] f.timer = "post_seek" -> PostSeekDispatch(f)
                  [] OTHER -> Fail(f, "timer has no purpose")
           stops == \E d \in Drives : fdc.spinning[d] /\ ~g.spinning[d]
<1>1. PICK h \in AfterCallback(g, stops) : Become(h) BY DEF TimerFired
<1> HIDE DEF stops
<1>2. Sound(fdc) /\ program \in Programs /\ fdc.ticking BY DEF SoundNow, TimerFired
<1>3. Base(fdc) /\ fdc.level = fdc.nmi /\ Seeking(fdc) BY <1>2, SoundSays
<1>4. Base(b) /\ Changes(fdc, b, {"edge"}) BY <1>3, BegunKeeps
<1> HIDE DEF g
<1>5. /\ g = CASE f.timer = "seek_step" -> DoSeekStep(f)
               [] f.timer = "post_seek" -> PostSeekDispatch(f)
               [] OTHER -> Fail(f, "timer has no purpose")
  BY DEF g
<1> HIDE DEF b
<1>6. Changes(b, f, {"ticking"}) /\ f.ticking = FALSE BY <1>4 DEF Base, Changes, Fields
<1> HIDE DEF f
<1>7. Flags(f) BY <1>4, <1>6, FlagsKept DEF FlagFields
<1>8. Base(f) BY <1>4, <1>6, <1>7, BaseKept DEF FlagFields
<1>9. Changes(fdc, f, {"edge", "ticking"}) BY <1>4, <1>6 DEF Changes
<1>10. Moving(f) BY <1>3, <1>6, <1>8, <1>9 DEF Seeking, Moving, Working, Aside, Shut, Changes, Fields
<1>11. ASSUME f.timer = "seek_step" PROVE Leads(f, g)
  <2>1. Approaching(f) BY <1>3, <1>9, <1>11 DEF Seeking, Homing, Approaching, Changes, Fields
  <2>2. g = DoSeekStep(f) BY <1>5, <1>11
  <2> QED BY <1>2, <1>10, <2>1, <2>2, DoSeekStepLeads
<1>12. ASSUME f.timer = "post_seek" PROVE Leads(f, g)
  <2>1. Arrived(f) BY <1>3, <1>9, <1>12 DEF Seeking, Homing, Arrived, Changes, Fields
  <2> QED BY <1>2, <1>5, <1>10, <1>12, <2>1, PostSeekDispatchLeads
<1>13. Leads(f, g) BY <1>3, <1>9, <1>11, <1>12 DEF Seeking, Changes, Fields
<1>14. Told(b, f) /\ f.command = b.command /\ f.wanted = b.wanted BY <1>6 DEF Told, Changes, Fields
<1>15. Leads(b, g) BY <1>13, <1>14, LeadsOn
<1>16. Leads(b, h) BY <1>1, <1>15, AfterCallbackLeads
<1> QED BY <1>1, <1>2, <1>16, LeadsFollowed DEF b

-----------------------------------------------------------------------------
(* Bytes.                                                                    *)

\* A command that goes on as it was has nothing to tell.
LEMMA StayingLeads ==
  ASSUME NEW f, Sound(f), f.busy
  PROVE  Leads(f, f)
BY DEF Leads, Told, Found

\* What is placed is no command that only sets or reads registers.
LEMMA PlacedSays ==
  ASSUME NEW f, Placed(f)
  PROVE  /\ f.busy /\ f.command # "seek" /\ f.command \in AllCommands \ Simple
         /\ "late_dma" \notin f.result /\ f.retries \in 0..2 /\ f.sectors \in 1..31 /\ f.routine \in 0..12
         /\ Armed(f)
BY Sizes DEF Placed, Direct, Working, Resting, Armed

\* A run of equal bytes is written from now on (intel_fdc_do_write_run).
LEMMA DoWriteRunKeeps ==
  ASSUME NEW f, Base(f), NEW call
  PROVE  LET g == DoWriteRun(f, call)
         IN  /\ Base(g) /\ Changes(f, g, {"call", "state", "crcBytes"} \cup PortFields)
             /\ g.call = call /\ g.state = "write_run" /\ g.gate = TRUE /\ g.select = f.select /\ g.load = f.load
<1> DEFINE o == SetDriveOut(f, f.select, f.load, TRUE, f.inwards)
           open == [o EXCEPT !.held = FALSE]
           e == [open EXCEPT !.call = call]
           g == SetState(e, "write_run")
<1>1. DoWriteRun(f, call) = g BY DEF DoWriteRun, OpenGate
<1>2. f.select \in Drives \cup {None} /\ f.load \in BOOLEAN /\ f.inwards \in BOOLEAN BY DEF Base, Port
<1>3. Base(o) /\ Changes(f, o, PortFields) /\ PortIs(o, f.select, f.load, TRUE, f.inwards) BY <1>2, SetDriveOutKeeps
<1>4. o.select = f.select /\ o.load = f.load /\ o.gate = TRUE BY <1>3 DEF PortIs
<1> HIDE DEF o
<1>10. Changes(o, open, {"held"}) /\ open.held = FALSE BY <1>3 DEF Base, Changes, Fields
<1> HIDE DEF open
<1>11. Port(open) BY <1>3, <1>10 DEF Base, Port, Changes, Fields
<1>5. Changes(open, e, {"call"}) /\ e.call = call BY <1>10 DEF Changes, Fields
<1> HIDE DEF e
<1>12. Base(open) BY <1>3, <1>10, <1>11, BaseKept DEF PortFields
<1>6. Base(e) BY <1>5, <1>12, BaseKept DEF FreeFields
<1>7. Base(g) /\ Changes(e, g, {"state", "crcBytes"}) /\ g.state = "write_run" BY <1>6, SetStateKeeps
<1> HIDE DEF g
<1>8. Changes(f, g, {"call", "state", "crcBytes"} \cup PortFields) BY <1>3, <1>5, <1>7, <1>10 DEF Changes, PortFields
<1>9. g.call = call /\ g.gate = TRUE /\ g.select = f.select /\ g.load = f.load
  BY <1>4, <1>5, <1>7, <1>10 DEF Changes, Fields
<1> QED BY <1>1, <1>7, <1>8, <1>9 DEF g

\* After a sector the write gate is closed, and the command ends or goes on with the
\* next one (intel_fdc_check_completion).
LEMMA CheckCompletionLeads ==
  ASSUME NEW f, Base(f), Placed(f), f.level = f.nmi, ~f.irqs, f.command = "read_id" => f.call \notin {"read", "write"},
         program \in Programs
  PROVE  Leads(f, CheckCompletion(f)) /\ (f.sectors = 1 => CheckCompletion(f).state = "idle")
<1> DEFINE g == ReadDriveStatus(f)
           o == SetDriveOut(g, g.select, g.load, FALSE, g.inwards)
           h == ClearCallbacks(o)
           z == [h EXCEPT !.sectors = 0]
           sectors == h.sectors - 1
           second == (h.second + 1) % RegMod
           next == [h EXCEPT !.sectors = sectors, !.second = second]
           x == CheckCompletion(f)
<1>1. x = IF ~g.ready[Unit(g)] THEN FinishCommand(g, "drive_not_ready")
          ELSE IF h.sectors = 1 THEN FinishCommand(z, "ok") ELSE CommandDispatch(next)
  BY DEF CheckCompletion, CloseGate
<1> HIDE DEF x
<1>2. /\ f.busy /\ f.command # "seek" /\ f.command \in AllCommands \ Simple
      /\ f.sectors \in 1..31 /\ Armed(f)
  BY PlacedSays
<1>3. Base(g) /\ Changes(f, g, {"ready", "protected"}) BY ReadDriveStatusKeeps
<1> HIDE DEF g
<1>4. g.select \in Drives \cup {None} /\ g.load \in BOOLEAN /\ g.inwards \in BOOLEAN BY <1>3 DEF Base, Port
<1>5. Base(o) /\ Changes(g, o, PortFields) /\ PortIs(o, g.select, g.load, FALSE, g.inwards)
  BY <1>3, <1>4, SetDriveOutKeeps
<1>6. o.gate = FALSE /\ o.select = g.select /\ o.load = g.load BY <1>5 DEF PortIs
<1> HIDE DEF o
<1>7. Armed(g) /\ Armed(o) BY <1>2, <1>3, <1>5 DEF Armed, Changes, Fields, PortFields
<1>8. /\ Base(h) /\ Changes(o, h, CallbackFields)
      /\ h.state = "idle" /\ h.accepts = "none" /\ h.onIndex = "none" /\ Resting(h)
  BY <1>5, <1>7, ClearCallbacksKeeps
<1> HIDE DEF h
<1>9. Changes(f, h, {"ready", "protected"} \cup PortFields \cup CallbackFields)
  BY <1>3, <1>5, <1>8 DEF Changes
<1>10. h.gate = FALSE /\ h.select = f.select /\ h.load = f.load
  BY <1>3, <1>6, <1>8 DEF Changes, Fields, CallbackFields
<1>11. h.sectors = f.sectors /\ h.level = h.nmi /\ h.edge = f.edge /\ h.level = f.level /\ h.result = f.result
  BY <1>9 DEF Changes, Fields, PortFields, CallbackFields
<1>12. CASE ~g.ready[Unit(g)]
  <2>1. x = FinishCommand(g, "drive_not_ready") BY <1>1, <1>12
  <2>2. Leads(g, x) BY <1>3, <1>7, <2>1, ErrorLeads DEF Results
  <2>3. Told(f, g) /\ g.command = f.command /\ g.wanted = f.wanted BY <1>3 DEF Told, Changes, Fields
  <2>4. Leads(f, x) BY <2>2, <2>3, LeadsOn
  <2>5. Idle(x) BY <1>3, <1>7, <2>1, FinishCommandEnds DEF Results
  <2> QED BY <2>4, <2>5 DEF Idle, x
<1>13. CASE g.ready[Unit(g)] /\ h.sectors = 1
  <2>1. x = FinishCommand(z, "ok") BY <1>1, <1>13
  <2>2. Changes(h, z, {"sectors"}) /\ z.sectors = 0 BY <1>8 DEF Base, Changes, Fields
  <2> HIDE DEF z
  <2>3. Base(z) BY <1>8, <2>2, BaseKept DEF FreeFields
  <2>4. Armed(z) /\ Shut(z) /\ z.edge = f.edge /\ z.level = f.level /\ z.result = f.result
    BY <1>8, <1>10, <1>11, <2>2 DEF Armed, Resting, Shut, Changes, Fields
  <2>5. Sound(x) /\ Idle(x) /\ Told(z, x) BY <2>1, <2>3, <2>4, FinishCommandEnds
  <2>6. Told(f, z) BY <2>4 DEF Told
  <2>7. Told(f, x) BY <2>5, <2>6, ToldTwice
  <2> QED BY <1>2, <2>5, <2>7 DEF Leads, Found, Idle, x
<1>14. CASE g.ready[Unit(g)] /\ h.sectors # 1
  <2>1. x = CommandDispatch(next) BY <1>1, <1>14
  <2>2. sectors \in 1..31 BY <1>2, <1>11, <1>14
  <2>14. second \in Registers
    <3>1. h.second \in Nat BY <1>8, Sizes DEF Base, Places
    <3> QED BY <3>1, Sizes
  <2> HIDE DEF sectors, second
  <2>3. Changes(h, next, {"sectors", "second"}) /\ next.sectors = sectors /\ next.second = second
    BY <1>8 DEF Base, Changes, Fields
  <2> HIDE DEF next
  <2>4. Places(next) BY <1>8, <2>3, <2>14 DEF Base, Places, Changes, Fields
  <2>5. Base(next) BY <1>8, <2>3, <2>4, BaseKept DEF PlaceFields, FreeFields
  <2>6. Changes(f, next, {"ready", "protected", "sectors", "second"} \cup PortFields \cup CallbackFields)
    BY <1>9, <2>3 DEF Changes
  <2>7. /\ next.state = "idle" /\ next.accepts = "none" /\ next.onIndex = "none" /\ Resting(next)
        /\ next.gate = FALSE /\ next.select = f.select /\ next.load = f.load
        /\ next.level = next.nmi /\ next.edge = f.edge /\ next.level = f.level /\ next.result = f.result
    <3>1. \A i \in {"state", "accepts", "onIndex", "timer", "ticking", "gate", "select", "load", "level", "nmi",
                      "edge", "result"} : next[i] = h[i]
      BY <2>3 DEF Changes, Fields
    <3>2. next.state = "idle" /\ next.accepts = "none" /\ next.onIndex = "none" /\ Resting(next)
      BY <1>8, <3>1 DEF Resting
    <3> QED BY <1>10, <1>11, <3>1, <3>2
  <2>8. /\ next.command = f.command /\ next.wanted = f.wanted /\ next.busy = f.busy /\ next.irqs = f.irqs
        /\ next.call = f.call /\ next.retries = f.retries /\ next.routine = f.routine
    BY <2>6 DEF Changes, Fields, PortFields, CallbackFields
  <2>9. Working(next) BY <2>2, <2>3, <2>7, <2>8 DEF Placed, Direct, Working
  <2>10. next.command \notin Simple /\ "set_drive_out" \in Simple /\ "set_mode" \in Simple BY <1>2, <2>8 DEF Simple
  <2>11. Ready(next) BY <1>2, <2>5, <2>7, <2>8, <2>9, <2>10 DEF Ready, Shut
  <2>12. Told(f, next) BY <2>7 DEF Told
  <2>13. Leads(f, x) BY <2>1, <2>8, <2>11, <2>12, CommandDispatchLeads, LeadsOn
  <2> QED BY <1>11, <1>14, <2>13 DEF x
<1> QED BY <1>12, <1>13, <1>14

\* The phase a command is in when something is to be done at the index pulse.
LEMMA OnIndexSays ==
  ASSUME NEW f, Sound(f)
  PROVE  /\ f.onIndex \in {"none", "timeout", "spindown", "start_format", "stop_format", "start_read_id"}
         /\ f.onIndex = "spindown" =>
              ((Idle(f) \/ Asking(f) \/ Seeking(f)) /\ f.state = "idle") \/ (Searching(f) /\ Direct(f))
         /\ f.onIndex = "start_format" => AwaitingIndex(f) /\ f.command = "format" /\ ~f.protected
         /\ f.onIndex = "start_read_id" => AwaitingIndex(f) /\ f.command = "read_id"
         /\ f.onIndex = "stop_format" => WritingDisc(f) /\ f.command = "format" /\ f.sectors = 1 /\ ~f.irqs
         /\ f.onIndex = "timeout" => f.busy
<1>1. Phase(f) BY DEF Sound
<1>2. CASE Idle(f) BY <1>2 DEF Idle
<1>3. CASE Asking(f) BY <1>3 DEF Asking
<1>4. CASE Seeking(f) BY <1>4 DEF Seeking, Aside, Working
<1>5. CASE AwaitingIndex(f) BY <1>5 DEF AwaitingIndex
<1>6. CASE Searching(f) BY <1>6 DEF Searching, OnTrack, Placed, Direct, Working
<1>7. CASE WritingDisc(f)
  <2>1. f.busy BY <1>7, PlacedSays DEF WritingDisc, GateOpen
  <2>2. CASE SectorWritten(f) BY <2>1, <2>2 DEF SectorWritten
  <2>3. CASE TrackFormatted(f) BY <1>7, <2>3 DEF TrackFormatted
  <2> QED BY <1>7, <2>2, <2>3 DEF WritingDisc
<1> QED BY <1>1, <1>2, <1>3, <1>4, <1>5, <1>6, <1>7 DEF Phase

\* The head is unloaded while no byte is looked at, or those where the head happens to
\* be (intel_fdc_spindown).
LEMMA SpindownKeeps ==
  ASSUME NEW f, Sound(f), f.onIndex = "spindown", NEW i \in Int
  PROVE  LET g == [Spindown([f EXCEPT !.indexCount = i]) EXCEPT !.onIndex = "none"]
         IN  /\ Sound(g) /\ (f.busy => Leads(f, g))
             /\ g.state = "idle" \/ (g.command = f.command /\ g.wanted = f.wanted)
<1> DEFINE e == [f EXCEPT !.indexCount = i]
           o == SetDriveOut(e, None, FALSE, e.gate, e.inwards)
           g == [o EXCEPT !.onIndex = "none"]
<1>1. /\ Base(f) /\ f.level = f.nmi
      /\ ((Idle(f) \/ Asking(f) \/ Seeking(f)) /\ f.state = "idle") \/ (Searching(f) /\ Direct(f))
  BY OnIndexSays DEF Sound
<1>2. Changes(f, e, {"indexCount"}) /\ e.indexCount = i BY <1>1 DEF Base, Changes, Fields
<1> HIDE DEF e
<1>3. Counters(e) BY <1>1, <1>2 DEF Base, Counters, Changes, Fields
<1>4. Base(e) BY <1>1, <1>2, <1>3, BaseKept DEF CounterFields
<1>5. e.gate \in BOOLEAN /\ e.inwards \in BOOLEAN BY <1>4 DEF Base, Port
<1>6. /\ Base(o) /\ Changes(e, o, PortFields) /\ PortIs(o, None, FALSE, e.gate, e.inwards)
      /\ Shut(e) => Shut(o)
  BY <1>4, <1>5, SetDriveOutKeeps
<1>7. o.select = None BY <1>6 DEF PortIs
<1> HIDE DEF o
<1>8. Changes(o, g, {"onIndex"}) /\ g.onIndex = "none" BY <1>6 DEF Base, Changes, Fields
<1>9. Spindown(e) = o BY DEF Spindown, o
<1> HIDE DEF g
<1>10. Base(g) BY <1>6, <1>8, BaseKept DEF FreeFields
<1>11. /\ Changes(f, g, {"indexCount", "onIndex"} \cup PortFields) /\ g.select = None
       /\ Shut(f) => Shut(g)
  BY <1>2, <1>6, <1>7, <1>8 DEF Shut, Changes, Fields
<1>12. Idle(f) => Idle(g) BY <1>8, <1>11 DEF Idle, Resting, Changes, Fields, PortFields
<1>13. Asking(f) => Asking(g) BY <1>8, <1>11 DEF Asking, Resting, Changes, Fields, PortFields
<1>14. Seeking(f) => Seeking(g)
  BY <1>1, <1>8, <1>11 DEF Seeking, Working, Homing, Aside, Changes, Fields, PortFields
<1>18. Searching(f) /\ Direct(f) => Searching(g)
  <2>1. Direct(f) => Direct(g) BY <1>11 DEF Direct, Changes, Fields, PortFields
  <2>2. Placed(f) /\ Direct(f) => Placed(g) BY <1>11, <2>1 DEF Placed, Direct, Working, Resting, Changes, Fields, PortFields
  <2>3. Searched(f) => Searched(g) BY <1>11 DEF Searched, Quiet, Changes, Fields, PortFields
  <2>4. g.command = f.command /\ g.call = f.call /\ g.onIndex = "none" BY <1>8, <1>11 DEF Changes, Fields, PortFields
  <2>5. Direct(f) => f.command = "read_id" BY DEF Direct
  <2> QED BY <1>11, <2>1, <2>2, <2>3, <2>4, <2>5 DEF Searching, OnTrack
<1>19. g.state = f.state /\ g.command = f.command /\ g.wanted = f.wanted BY <1>11 DEF Changes, Fields, PortFields
<1>15. Sound(g)
  BY <1>1, <1>10, <1>11, <1>12, <1>13, <1>14, <1>18 DEF Sound, Phase, Changes, Fields, PortFields
<1>16. Told(f, g) /\ g.busy = f.busy BY <1>11 DEF Told, Changes, Fields, PortFields
<1>17. f.busy => Leads(f, g) BY <1>15, <1>16 DEF Leads, Found
<1> QED BY <1>9, <1>15, <1>17, <1>19 DEF g, e

\* The index pulse begins the bytes of a format and the search for all headers, ends
\* a format, a search that has gone on for too long, and the wait before the head is
\* unloaded (intel_fdc_check_index_pulse).
LEMMA IndexPulseLeads ==
  ASSUME NEW f, Sound(f), program \in Programs
  PROVE  LET g == IndexPulse(f)
         IN  /\ Sound(g) /\ (f.busy => Leads(f, g))
             /\ g.state = "idle" \/ (g.command = f.command /\ g.wanted = f.wanted)
<1> DEFINE i == f.indexCount - 1
           counted == [f EXCEPT !.indexCount = i]
           run == [f EXCEPT !.routine = 4, !.onIndex = "none", !.count = GapBytes]
           limit == StartIndexTimeout(f)
           g == IndexPulse(f)
<1>1. Base(f) /\ f.level = f.nmi /\ Phase(f) /\ Armed(f) BY SoundSays DEF Sound
<1>2. i \in Int BY <1>1 DEF Base, Counters
<1>3. /\ f.onIndex = "none" => g = f
      /\ f.onIndex = "timeout" => g = IF counted.indexCount = 0 THEN FinishCommand(counted, "sector_not_found")
                                      ELSE counted
      /\ f.onIndex = "spindown" => g = IF counted.indexCount = 0
                                       THEN [Spindown(counted) EXCEPT !.onIndex = "none"] ELSE counted
      /\ f.onIndex = "start_format" => g = DoWriteRun(run, "format_FFs")
      /\ f.onIndex = "stop_format" => g = CheckCompletion(f)
      /\ f.onIndex = "start_read_id" => g = StartSearch(limit)
  BY DEF IndexPulse
<1> HIDE DEF g, i
<1>4. Changes(f, counted, {"indexCount"}) /\ counted.indexCount = i BY <1>1 DEF Base, Changes, Fields
<1>5. CASE f.onIndex = "none" BY <1>3, <1>5, StayingLeads DEF g
<1>6. Sound(counted) /\ (f.busy => Leads(f, counted))
  <2> HIDE DEF counted
  <2>1. Counters(counted) BY <1>1, <1>2, <1>4 DEF Base, Counters, Changes, Fields
  <2>2. Base(counted) BY <1>1, <1>4, <2>1, BaseKept DEF CounterFields
  <2>3. Changes(f, counted, PassiveFields) /\ counted.level = f.level /\ counted.level = counted.nmi
    BY <1>1, <1>4 DEF Changes, Fields, PassiveFields
  <2>4. Sound(counted) BY <1>1, <2>2, <2>3, PhaseKept DEF Sound
  <2>5. Told(f, counted) /\ counted.busy = f.busy BY <1>4 DEF Told, Changes, Fields
  <2> QED BY <2>4, <2>5 DEF Leads, Found
<1>7. CASE f.onIndex = "timeout"
  <2>1. f.busy BY <1>7, OnIndexSays
  <2>2. CASE counted.indexCount = 0
    <3>1. g = FinishCommand(counted, "sector_not_found") BY <1>3, <1>7, <2>2
    <3> HIDE DEF counted
    <3>2. Base(counted) /\ Armed(counted) BY <1>6, SoundSays
    <3>3. Leads(counted, g) BY <3>1, <3>2, ErrorLeads DEF Results
    <3>4. Told(f, counted) /\ counted.command = f.command /\ counted.wanted = f.wanted
      BY <1>4 DEF Told, Changes, Fields
    <3>5. Leads(f, g) BY <3>3, <3>4, LeadsOn
    <3>6. Idle(g) BY <3>1, <3>2, FinishCommandEnds DEF Results
    <3> QED BY <3>5, <3>6 DEF Leads, Idle, g
  <2>3. CASE counted.indexCount # 0
    <3>1. g = counted BY <1>3, <1>7, <2>3
    <3>2. counted.command = f.command /\ counted.wanted = f.wanted BY <1>4 DEF Changes, Fields
    <3> HIDE DEF counted
    <3> QED BY <1>6, <3>1, <3>2 DEF g
  <2> QED BY <2>2, <2>3
<1>8. CASE f.onIndex = "spindown"
  <2>1. CASE counted.indexCount = 0
    <3>1. g = [Spindown(counted) EXCEPT !.onIndex = "none"] BY <1>3, <1>8, <2>1
    <3> QED BY <1>2, <1>8, <3>1, SpindownKeeps DEF g
  <2>2. CASE counted.indexCount # 0
    <3>1. g = counted BY <1>3, <1>8, <2>2
    <3>2. counted.command = f.command /\ counted.wanted = f.wanted BY <1>4 DEF Changes, Fields
    <3> HIDE DEF counted
    <3> QED BY <1>6, <3>1, <3>2 DEF g
  <2> QED BY <2>1, <2>2
<1>9. CASE f.onIndex = "start_format"
  <2>1. g = DoWriteRun(run, "format_FFs") BY <1>3, <1>9
  <2>2. AwaitingIndex(f) /\ f.command = "format" /\ ~f.protected BY <1>9, OnIndexSays
  <2>3. /\ Changes(f, run, {"routine", "onIndex", "count"})
        /\ run.routine = 4 /\ run.onIndex = "none" /\ run.count = GapBytes
    BY <1>1 DEF Base, Changes, Fields
  <2> HIDE DEF run
  <2>4. Counters(run) BY <1>1, <2>3, Sizes DEF Base, Counters, Changes, Fields
  <2>5. Base(run) BY <1>1, <2>3, <2>4, BaseKept DEF CounterFields, FreeFields
  <2>6. /\ Base(g) /\ Changes(run, g, {"call", "state", "crcBytes"} \cup PortFields)
        /\ g.call = "format_FFs" /\ g.state = "write_run" /\ g.gate = TRUE /\ g.select = run.select /\ g.load = run.load
    BY <2>1, <2>5, DoWriteRunKeeps
  <2>7. /\ Changes(f, g, {"routine", "onIndex", "count", "call", "state", "crcBytes"} \cup PortFields)
        /\ g.select = f.select /\ g.load = f.load /\ g.routine = 4 /\ g.onIndex = "none" /\ g.count = GapBytes
    BY <2>3, <2>6 DEF Changes, Fields, PortFields
  <2>8. /\ g.busy = f.busy /\ g.accepts = f.accepts /\ g.command = f.command /\ g.retries = f.retries
        /\ g.sectors = f.sectors /\ g.result = f.result /\ g.timer = f.timer /\ g.ticking = f.ticking
        /\ g.irqs = f.irqs /\ g.protected = f.protected /\ g.wanted = f.wanted /\ g.second = f.second
        /\ g.level = f.level /\ g.nmi = f.nmi /\ g.edge = f.edge
    BY <2>7 DEF Changes, Fields, PortFields
  <2>9. Placed(g) BY <2>2, <2>7, <2>8 DEF AwaitingIndex, Placed, Direct, Working, Resting
  <2>10. TrackFormatted(g) BY <2>2, <2>6, <2>7, <2>8, Sizes DEF AwaitingIndex, TrackFormatted
  <2>11. WritingDisc(g) BY <2>2, <2>6, <2>8, <2>9, <2>10 DEF WritingDisc, GateOpen
  <2>12. Sound(g) BY <1>1, <2>6, <2>8, <2>11 DEF Sound, Phase
  <2>13. Leads(f, g) BY <2>2, <2>8, <2>12, QuietlyLeads
  <2> QED BY <2>8, <2>12, <2>13 DEF g
<1>10. CASE f.onIndex = "stop_format"
  <2>1. WritingDisc(f) /\ f.command = "format" /\ f.sectors = 1 /\ ~f.irqs BY <1>10, OnIndexSays
  <2>2. Leads(f, g) /\ g.state = "idle"
    BY <1>1, <1>3, <1>10, <2>1, CheckCompletionLeads DEF WritingDisc, GateOpen
  <2> QED BY <2>2 DEF Leads, g
<1>11. CASE f.onIndex = "start_read_id"
  <2>1. g = StartSearch(limit) BY <1>3, <1>11
  <2>2. AwaitingIndex(f) /\ f.command = "read_id" BY <1>11, OnIndexSays
  <2>3. Changes(f, limit, {"onIndex", "indexCount"}) /\ limit.onIndex = "timeout" /\ limit.indexCount = TimeoutPulses
    BY <1>1 DEF StartIndexTimeout, Base, Changes, Fields
  <2> HIDE DEF limit
  <2>4. Counters(limit) BY <1>1, <2>3, Sizes DEF Base, Counters, Changes, Fields
  <2>5. Base(limit) BY <1>1, <2>3, <2>4, BaseKept DEF CounterFields, FreeFields
  <2>6. /\ Base(g) /\ Changes(limit, g, {"left", "state", "crcBytes"})
        /\ g.state = "syncing_for_id" /\ g.left = HeaderBytes
    BY <2>1, <2>5, StartSearchKeeps
  <2>7. Changes(f, g, {"onIndex", "indexCount", "left", "state", "crcBytes"}) /\ g.onIndex = "timeout"
    BY <2>3, <2>6 DEF Changes, Fields
  <2>8. /\ g.command = "read_id" /\ g.wanted = f.wanted /\ g.call = "read_id" /\ ~g.irqs /\ Shut(g)
        /\ g.level = f.level /\ g.nmi = f.nmi /\ g.edge = f.edge /\ g.result = f.result
    BY <2>2, <2>7 DEF AwaitingIndex, Shut, Changes, Fields
  <2>9. Placed(g) BY <2>2, <2>7 DEF AwaitingIndex, Placed, Direct, Working, Resting, Changes, Fields
  <2>10. Searched(g) BY <2>6, <2>8 DEF Searched
  <2>11. OnTrack(g) BY <2>7, <2>8, <2>9 DEF OnTrack
  <2>12. Sound(g) BY <1>1, <2>6, <2>8, <2>10, <2>11 DEF Sound, Phase, Searching
  <2>13. Leads(f, g) BY <2>2, <2>8, <2>12, QuietlyLeads
  <2> QED BY <2>2, <2>8, <2>12, <2>13 DEF g
<1> QED BY <1>5, <1>7, <1>8, <1>9, <1>10, <1>11, OnIndexSays

\* What a byte of a search changes.
SearchFields == {"state", "crcBytes", "left", "count", "irqs", "asked", "result", "resultReady"}

\* While only these change and the next state of the search is one that may come,
\* the command goes on.
LEMMA SearchLeads ==
  ASSUME NEW f, NEW g, Base(f), f.level = f.nmi, OnTrack(f), Changes(f, g, SearchFields),
         g.irqs \in BOOLEAN, g.resultReady \in BOOLEAN, g.crcBytes \in 0..3, g.left \in Int, g.count \in Int,
         g.asked \in 0..(SectorBytes + HeaderBytes), g.result \subseteq {"deleted"},
         Searched(g)
  PROVE  Leads(f, g) /\ Searching(g)
<1>1. Flags(g) BY FlagsKept DEF FlagFields, SearchFields
<1>2. Counters(g) BY DEF Base, Counters, Changes, Fields, SearchFields
<1>3. Others(g) BY DEF Base, Others, Changes, Fields, SearchFields, Results
<1>4. Base(g)
  BY <1>1, <1>2, <1>3, BaseKept DEF SearchFields, FlagFields, CounterFields, OtherFields, FreeFields
<1>5. /\ g.busy = f.busy /\ g.accepts = f.accepts /\ g.command = f.command /\ g.retries = f.retries
      /\ g.sectors = f.sectors /\ g.routine = f.routine /\ g.timer = f.timer /\ g.ticking = f.ticking
      /\ g.select = f.select /\ g.load = f.load /\ g.gate = f.gate /\ g.onIndex = f.onIndex
      /\ g.call = f.call /\ g.protected = f.protected /\ g.held = f.held /\ g.second = f.second
      /\ g.level = f.level /\ g.nmi = f.nmi /\ g.edge = f.edge
  BY DEF Changes, Fields, SearchFields
<1>6. Placed(g) BY <1>5 DEF OnTrack, Placed, Direct, Working, Resting
<1>7. OnTrack(g) BY <1>5, <1>6 DEF OnTrack, Direct, Shut
<1>8. Searching(g) /\ Sound(g) BY <1>4, <1>5, <1>7 DEF Sound, Phase, Searching
<1>9. f.command # "seek" BY PlacedSays DEF OnTrack
<1>10. Told(f, g) BY <1>5 DEF Told
<1> QED BY <1>8, <1>9, <1>10 DEF Leads, Found

\* What a byte that is written changes.
WriteFields ==
  {"state", "crcBytes", "left", "count", "irqs", "asked", "routine", "sectors", "onIndex", "call"} \cup PortFields

\* While only these change and the gate stays open on the same drive, the command
\* goes on.
LEMMA WriteLeads ==
  ASSUME NEW f, NEW g, Base(f), f.level = f.nmi, Placed(f), ~f.protected, Changes(f, g, WriteFields),
         Base(g), g.gate, g.select = f.select, g.load = f.load, g.routine \in 0..12, g.sectors \in 1..31,
         SectorWritten(g) \/ TrackFormatted(g)
  PROVE  Leads(f, g)
<1>1. /\ g.busy = f.busy /\ g.accepts = f.accepts /\ g.command = f.command /\ g.retries = f.retries
      /\ g.result = f.result /\ g.timer = f.timer /\ g.ticking = f.ticking /\ g.protected = f.protected
      /\ g.second = f.second /\ g.level = f.level /\ g.nmi = f.nmi /\ g.edge = f.edge
  BY DEF Changes, Fields, WriteFields, PortFields
<1>2. Placed(g) BY <1>1 DEF Placed, Direct, Working, Resting
<1>3. WritingDisc(g) BY <1>1, <1>2 DEF WritingDisc, GateOpen
<1>4. Sound(g) BY <1>1, <1>3 DEF Sound, Phase
<1>5. f.command # "seek" BY PlacedSays
<1> QED BY <1>1, <1>4, <1>5, QuietlyLeads

\* The 6502 is asked for a byte, if it is to be.
Asked(f) == IF f.irqs THEN RaiseData(f) ELSE f

\* What that changes.
LineFields == {"nmi", "need", "asked", "level", "edge"}

\* The request is told by an edge of the line, and counted
\* (intel_fdc_byte_callback_reading and _writing).
LEMMA AskedKeeps ==
  ASSUME NEW f, Base(f), f.level = f.nmi, f.irqs => f.asked < SectorBytes + HeaderBytes
  PROVE  LET g == Asked(f)
         IN  /\ Base(g) /\ Changes(f, g, LineFields) /\ Told(f, g) /\ g.level = g.nmi
             /\ g.asked = IF f.irqs THEN f.asked + 1 ELSE f.asked
<1>1. CASE ~f.irqs
  <2>1. Asked(f) = f BY <1>1 DEF Asked
  <2> QED BY <1>1, <2>1 DEF Changes, Told, Base
<1>2. CASE f.irqs
  <2> DEFINE asked == f.asked + 1
             e == [f EXCEPT !.nmi = TRUE, !.need = TRUE, !.asked = asked]
             g == SetLevel(e, TRUE)
  <2>1. Asked(f) = g BY <1>2 DEF Asked, RaiseData
  <2>2. asked \in 0..(SectorBytes + HeaderBytes) BY <1>2, Sizes DEF Base, Counters
  <2>3. asked = f.asked + 1 OBVIOUS
  <2> HIDE DEF asked
  <2>4. Changes(f, e, {"nmi", "need", "asked"}) /\ e.nmi = TRUE /\ e.need = TRUE /\ e.asked = asked
    BY DEF Base, Changes, Fields
  <2> HIDE DEF e
  <2>5. Flags(e) BY <2>4, FlagsKept DEF FlagFields
  <2>6. Counters(e) BY <2>2, <2>4 DEF Base, Counters, Changes, Fields
  <2>7. Base(e) BY <2>4, <2>5, <2>6, BaseKept DEF FlagFields, CounterFields
  <2>8. /\ Base(g) /\ Changes(e, g, {"level", "edge"}) /\ Told(e, g) /\ g.level = TRUE BY <2>7, SetLevelKeeps
  <2> HIDE DEF g
  <2>9. Told(f, e) BY <2>4 DEF Told, Changes, Fields
  <2>10. Told(f, g) BY <2>8, <2>9, ToldTwice
  <2>11. Changes(f, g, LineFields) BY <2>4, <2>8 DEF Changes, LineFields
  <2>12. g.asked = asked /\ g.nmi = TRUE BY <2>4, <2>8 DEF Changes, Fields
  <2> QED BY <1>2, <2>1, <2>3, <2>8, <2>10, <2>11, <2>12
<1> QED BY <1>1, <1>2

\* The 6502 was late for the byte before: the line falls, so that the end of the command
\* is an edge (intel_fdc_byte_callback_reading and _writing, intel_fdc_command_abort).
LEMMA LateLeads ==
  ASSUME NEW f, Sound(f), program \in Programs
  PROVE  Leads(f, FinishCommand(CommandAbort(f), "late_dma"))
<1> DEFINE low == CommandAbort(f)
           x == FinishCommand(low, "late_dma")
<1>1. Base(f) /\ Armed(f) BY SoundSays
<1>3. /\ Base(low) /\ Changes(f, low, {"level", "edge", "failed"}) /\ Told(f, low) /\ low.level = FALSE
  BY <1>1, CommandAbortKeeps
<1> HIDE DEF low
<1>4. Armed(low) /\ low.command = f.command /\ low.wanted = f.wanted BY <1>1, <1>3 DEF Armed, Changes, Fields
<1>5. Leads(low, x) BY <1>3, <1>4, ErrorLeads DEF Results
<1> HIDE DEF x
<1>6. Leads(f, x) BY <1>3, <1>4, <1>5, LeadsOn
<1> QED BY <1>6 DEF x, low

\* The gap between the header and the data is skipped.
LEMMA SkipGap2Leads ==
  ASSUME NEW f, Base(f), f.level = f.nmi, OnTrack(f), f.state = "skip_gap_2", f.call \in {"read", "write"}, ~f.irqs,
         f.left \in 1..SkipBytes, f.count = IF f.call = "read" THEN SectorBytes ELSE SyncBytes
  PROVE  Leads(f, SkipGap2(f))
<1> DEFINE left == f.left - 1
           g == [f EXCEPT !.left = left]
           x == SkipGap2(f)
<1>1. x = IF g.left > 0 THEN g
          ELSE IF g.call = "read" THEN SetState(g, "syncing_for_data")
          ELSE IF g.call = "write" THEN DoWriteRun(g, "write")
          ELSE Fail(g, "skip gap 2")
  BY DEF SkipGap2
<1>2. left \in 0..SkipBytes /\ left \in Int BY Sizes
<1> HIDE DEF left, x
<1>3. Changes(f, g, {"left"}) /\ g.left = left BY DEF Base, Changes, Fields
<1> HIDE DEF g
<1>4. Counters(g) BY <1>2, <1>3 DEF Base, Counters, Changes, Fields
<1>5. Base(g) BY <1>3, <1>4, BaseKept DEF CounterFields
<1>6. f.result \subseteq {"deleted"} BY DEF OnTrack, Placed, Direct, Working
<1>7. /\ f.irqs \in BOOLEAN /\ f.resultReady \in BOOLEAN /\ f.crcBytes \in 0..3 /\ f.count \in Int
      /\ f.asked \in 0..(SectorBytes + HeaderBytes)
  BY DEF Base, Flags, FlagFields, Counters
<1>8. CASE g.left > 0
  <2>1. x = g BY <1>1, <1>8
  <2>2. Searched(g) BY <1>2, <1>3, <1>8, Sizes DEF Searched, Changes, Fields
  <2> QED BY <1>2, <1>3, <1>6, <1>7, <2>1, <2>2, SearchLeads DEF Changes, Fields, SearchFields, x
<1>9. CASE ~(g.left > 0) /\ f.call = "read"
  <2>1. x = SetState(g, "syncing_for_data") BY <1>1, <1>3, <1>9 DEF Changes, Fields
  <2>2. Base(x) /\ Changes(g, x, {"state", "crcBytes"}) /\ x.state = "syncing_for_data" /\ x.crcBytes = 0
    BY <1>5, <2>1, SetStateKeeps
  <2>3. Changes(f, x, {"left", "state", "crcBytes"}) /\ x.left = left BY <1>3, <2>2 DEF Changes, Fields
  <2>4. Searched(x) BY <1>9, <2>2, <2>3 DEF Searched, Changes, Fields
  <2> QED BY <1>2, <1>6, <1>7, <2>2, <2>3, <2>4, SearchLeads DEF Changes, Fields, SearchFields, x
<1>10. CASE ~(g.left > 0) /\ f.call = "write"
  <2>1. x = DoWriteRun(g, "write") BY <1>1, <1>3, <1>10 DEF Changes, Fields
  <2>2. /\ Base(x) /\ Changes(g, x, {"call", "state", "crcBytes"} \cup PortFields)
        /\ x.call = "write" /\ x.state = "write_run" /\ x.gate = TRUE /\ x.select = g.select /\ x.load = g.load
    BY ONLY <1>5, <2>1, DoWriteRunKeeps
  <2>3. Changes(f, x, WriteFields) /\ x.select = f.select /\ x.load = f.load
    BY <1>3, <2>2 DEF Changes, Fields, WriteFields, PortFields
  <2>4. /\ x.routine = f.routine /\ x.sectors = f.sectors /\ x.count = f.count /\ x.irqs = f.irqs
        /\ x.command = f.command /\ x.onIndex = f.onIndex
    BY <1>3, <2>2 DEF Changes, Fields, PortFields
  <2>5. f.routine \in 0..12 /\ f.sectors \in 1..31 /\ f.command \in AllCommands \ Simple
    BY PlacedSays DEF OnTrack
  <2>6. f.command = "write" BY <1>10, <2>5, Routines DEF OnTrack
  <2>7. SectorWritten(x) BY <1>10, <2>2, <2>4, <2>6, Sizes DEF OnTrack, SectorWritten
  <2>8. Placed(f) /\ ~f.protected BY <1>10 DEF OnTrack
  <2> QED BY <2>2, <2>3, <2>4, <2>5, <2>7, <2>8, WriteLeads DEF x
<1> QED BY <1>8, <1>9, <1>10

\* The search goes on with the next header.
LEMMA SearchingAgainLeads ==
  ASSUME NEW f, Base(f), f.level = f.nmi, OnTrack(f), ~f.irqs, f.call = "read" => f.count = SectorBytes
  PROVE  Leads(f, StartSearch(f))
<1> DEFINE x == StartSearch(f)
<1>1. /\ Base(x) /\ Changes(f, x, {"left", "state", "crcBytes"})
      /\ x.state = "syncing_for_id" /\ x.left = HeaderBytes
  BY StartSearchKeeps
<1> HIDE DEF x
<1>2. f.result \subseteq {"deleted"} BY DEF OnTrack, Placed, Direct, Working
<1>3. /\ x.irqs = f.irqs /\ x.call = f.call /\ x.count = f.count /\ x.result = f.result /\ x.command = f.command
      /\ Changes(f, x, SearchFields)
  BY <1>1 DEF Changes, Fields, SearchFields
<1>4. Searched(x) BY <1>1, <1>3 DEF Searched
<1>5. /\ x.irqs \in BOOLEAN /\ x.resultReady \in BOOLEAN /\ x.crcBytes \in 0..3 /\ x.left \in Int /\ x.count \in Int
      /\ x.asked \in 0..(SectorBytes + HeaderBytes)
  BY <1>1 DEF Base, Flags, FlagFields, Counters
<1> QED BY <1>2, <1>3, <1>4, <1>5, SearchLeads DEF x

\* A byte that may be the mark of a header.
LEMMA CheckIdMarkerLeads ==
  ASSUME NEW f, Base(f), f.level = f.nmi, OnTrack(f), f.state = "check_id_marker", ~f.irqs, f.left = HeaderBytes,
         f.call = "read" => f.count = SectorBytes,
         NEW h \in CheckIdMarker(f)
  PROVE  Leads(f, h)
<1> DEFINE s == SetState(f, "in_id")
           x == IF f.command = "read_id" THEN StartIrqCallbacks(s) ELSE s
<1>1. h = x \/ h = StartSearch(f) BY DEF CheckIdMarker
<1>2. CASE h = StartSearch(f) BY <1>2, SearchingAgainLeads
<1>3. Base(s) /\ Changes(f, s, {"state", "crcBytes"}) /\ s.state = "in_id" /\ s.crcBytes = 0 BY SetStateKeeps
<1>4. f.result \subseteq {"deleted"} BY DEF OnTrack, Placed, Direct, Working
<1>5. /\ f.irqs \in BOOLEAN /\ f.resultReady \in BOOLEAN /\ f.count \in Int
      /\ f.asked \in 0..(SectorBytes + HeaderBytes)
  BY DEF Base, Flags, FlagFields, Counters
<1> HIDE DEF s
<1>6. CASE f.command = "read_id"
  <2>1. x = [s EXCEPT !.irqs = TRUE, !.asked = 0] BY <1>6 DEF StartIrqCallbacks
  <2> HIDE DEF x
  <2>2. Changes(s, x, {"irqs", "asked"}) /\ x.irqs = TRUE /\ x.asked = 0 BY <1>3, <2>1 DEF Base, Changes, Fields
  <2>3. /\ Changes(f, x, SearchFields) /\ x.state = "in_id" /\ x.crcBytes = 0 /\ x.left = f.left
        /\ x.count = f.count /\ x.result = f.result /\ x.resultReady = f.resultReady
        /\ x.call = f.call /\ x.command = f.command
    BY <1>3, <2>2 DEF Changes, Fields, SearchFields
  <2>4. Searched(x) BY <1>6, <2>2, <2>3, Sizes DEF Searched
  <2>5. /\ x.irqs \in BOOLEAN /\ x.resultReady \in BOOLEAN /\ x.crcBytes \in 0..3 /\ x.left \in Int /\ x.count \in Int
        /\ x.asked \in 0..(SectorBytes + HeaderBytes) /\ x.result \subseteq {"deleted"}
    <3>1. x.irqs \in BOOLEAN BY <2>2
    <3>2. x.resultReady \in BOOLEAN /\ x.crcBytes \in 0..3 /\ x.left \in Int /\ x.count \in Int
      BY <1>5, <2>3, Sizes
    <3>3. x.asked \in 0..(SectorBytes + HeaderBytes) BY <2>2, Sizes
    <3>4. x.result \subseteq {"deleted"} BY <1>4, <2>3
    <3> QED BY <3>1, <3>2, <3>3, <3>4
  <2>6. Leads(f, x) BY <2>3, <2>4, <2>5, SearchLeads
  <2> QED BY <1>1, <1>2, <2>6 DEF x
<1>7. CASE f.command # "read_id"
  <2>1. x = s BY <1>7
  <2>2. /\ Changes(f, s, SearchFields) /\ s.left = f.left /\ s.irqs = f.irqs /\ s.asked = f.asked
        /\ s.count = f.count /\ s.result = f.result /\ s.resultReady = f.resultReady
        /\ s.call = f.call /\ s.command = f.command
    BY <1>3 DEF Changes, Fields, SearchFields
  <2>3. Searched(s) BY <1>3, <1>7, <2>2, Sizes DEF Searched
  <2>4. Leads(f, s) BY <1>3, <1>4, <1>5, <2>2, <2>3, Sizes, SearchLeads
  <2> QED BY <1>1, <1>2, <2>1, <2>4
<1> QED BY <1>6, <1>7

\* A byte of a header; read id has asked for all of them when the last is read.
LEMMA InIdLeads ==
  ASSUME NEW f, Base(f), f.level = f.nmi, OnTrack(f), f.state = "in_id", f.left \in 1..HeaderBytes,
         f.irqs <=> f.command = "read_id",
         f.command = "read_id" => f.asked = HeaderBytes - f.left + 1,
         f.call = "read" => f.count = SectorBytes
  PROVE  Leads(f, InId(f))
<1> DEFINE left == f.left - 1
           g == [f EXCEPT !.left = left]
           e == [g EXCEPT !.irqs = FALSE]
           s == SetState(e, "in_id_crc")
           x == InId(f)
<1>1. x = IF g.left > 0 THEN g ELSE s BY DEF InId, StopIrqCallbacks
<1>2. left \in 0..HeaderBytes /\ left \in Int /\ left = f.left - 1 BY Sizes
<1>3. f.result \subseteq {"deleted"} BY DEF OnTrack, Placed, Direct, Working
<1>4. /\ f.irqs \in BOOLEAN /\ f.resultReady \in BOOLEAN /\ f.count \in Int /\ f.crcBytes \in 0..3
      /\ f.asked \in 0..(SectorBytes + HeaderBytes)
  BY DEF Base, Flags, FlagFields, Counters
<1> HIDE DEF left, x
<1>5. Changes(f, g, {"left"}) /\ g.left = left BY DEF Base, Changes, Fields
<1> HIDE DEF g
<1>6. CASE g.left > 0
  <2>1. x = g BY <1>1, <1>6
  <2>2. /\ Changes(f, g, SearchFields) /\ g.state = f.state /\ g.irqs = f.irqs /\ g.asked = f.asked
        /\ g.count = f.count /\ g.result = f.result /\ g.resultReady = f.resultReady /\ g.crcBytes = f.crcBytes
        /\ g.call = f.call /\ g.command = f.command
    BY <1>5 DEF Changes, Fields, SearchFields
  <2>3. Searched(g) BY <1>2, <1>5, <1>6, <2>2, Sizes DEF Searched
  <2>4. Leads(f, g) BY <1>2, <1>3, <1>4, <1>5, <2>2, <2>3, SearchLeads
  <2> QED BY <2>1, <2>4 DEF x
<1>7. CASE ~(g.left > 0)
  <2>1. x = s BY <1>1, <1>7
  <2>2. s = [e EXCEPT !.state = "in_id_crc", !.crcBytes = 0] BY DEF SetState
  <2>3. Changes(g, e, {"irqs"}) /\ e.irqs = FALSE BY <1>5 DEF Changes, Fields
  <2> HIDE DEF e, s
  <2>4. Changes(e, s, {"state", "crcBytes"}) /\ s.state = "in_id_crc" /\ s.crcBytes = 0
    BY <2>2, <2>3 DEF Changes, Fields
  <2>5. /\ Changes(f, s, SearchFields) /\ s.irqs = FALSE /\ s.asked = f.asked /\ s.left = left
        /\ s.count = f.count /\ s.result = f.result /\ s.resultReady = f.resultReady
        /\ s.call = f.call /\ s.command = f.command
    BY <1>5, <2>3, <2>4 DEF Changes, Fields, SearchFields
  <2>6. f.left = 1 BY <1>2, <1>5, <1>7, Sizes
  <2>7. Searched(s) BY <2>4, <2>5, <2>6, Sizes DEF Searched
  <2>8. /\ s.irqs \in BOOLEAN /\ s.resultReady \in BOOLEAN /\ s.crcBytes \in 0..3 /\ s.left \in Int /\ s.count \in Int
        /\ s.asked \in 0..(SectorBytes + HeaderBytes) /\ s.result \subseteq {"deleted"}
    <3>1. s.irqs \in BOOLEAN BY <2>5
    <3>2. s.resultReady \in BOOLEAN /\ s.crcBytes \in 0..3 /\ s.left \in Int /\ s.count \in Int
      BY <1>2, <1>4, <2>4, <2>5
    <3>3. s.asked \in 0..(SectorBytes + HeaderBytes) BY <1>4, <2>5
    <3>4. s.result \subseteq {"deleted"} BY <1>3, <2>5
    <3> QED BY <3>1, <3>2, <3>3, <3>4
  <2>9. Leads(f, s) BY <2>5, <2>7, <2>8, SearchLeads
  <2> QED BY <2>1, <2>9 DEF x
<1> QED BY <1>6, <1>7

\* A header whose CRC is right: read id is done with it; else the next track is sought,
\* or this sector is the one, or the search goes on.
LEMMA HeaderReadLeads ==
  ASSUME NEW f, Base(f), f.level = f.nmi, OnTrack(f), f.state = "in_id_crc", f.crcBytes = 2, ~f.irqs,
         f.call = "read" => f.count = SectorBytes,
         program \in Programs,
         NEW h \in HeaderRead(f)
  PROVE  Leads(f, h)
<1> DEFINE retries == f.retries + 1
           missed == [f EXCEPT !.retries = retries]
           count == IF f.call = "write" THEN SyncBytes ELSE f.count
           gap == [f EXCEPT !.left = SkipBytes, !.count = count]
<1>1. \/ f.command = "read_id" /\ h = CheckCompletion(f)
      \/ f.command # "read_id" /\ missed.retries = 3 /\ h = FinishCommand(missed, "sector_not_found")
      \/ f.command # "read_id" /\ missed.retries # 3 /\ h = DoSeek(missed, f.call)
      \/ f.command # "read_id" /\ h = SetState(gap, "skip_gap_2")
      \/ f.command # "read_id" /\ h = SetState(f, "syncing_for_id_wait")
  BY DEF HeaderRead
<1>2. Placed(f) /\ Shut(f) BY DEF OnTrack
<1>3. f.retries \in 0..2 /\ f.command # "seek" /\ f.command \in AllCommands \ Simple BY <1>2, PlacedSays
<1>4. f.result \subseteq {"deleted"} BY <1>2 DEF Placed, Direct, Working
<1>5. /\ f.irqs \in BOOLEAN /\ f.resultReady \in BOOLEAN /\ f.count \in Int /\ f.crcBytes \in 0..3 /\ f.left \in Int
      /\ f.asked \in 0..(SectorBytes + HeaderBytes)
  BY DEF Base, Flags, FlagFields, Counters
<1>6. retries \in 1..3 BY <1>3
<1> HIDE DEF retries
<1>7. Changes(f, missed, {"retries"}) /\ missed.retries = retries BY DEF Base, Changes, Fields
<1> HIDE DEF missed
<1>8. Base(missed) BY <1>7, BaseKept DEF FreeFields
<1>9. Told(f, missed) /\ missed.command = f.command /\ missed.wanted = f.wanted BY <1>7 DEF Told, Changes, Fields
<1>10. CASE f.command = "read_id" /\ h = CheckCompletion(f)
  <2>1. f.call \notin {"read", "write"} BY <1>10 DEF OnTrack
  <2> QED BY <1>2, <1>10, <2>1, CheckCompletionLeads
<1>11. CASE h = FinishCommand(missed, "sector_not_found")
  <2>1. Armed(missed) BY <1>2, <1>7 DEF Placed, Direct, Resting, Armed, Changes, Fields
  <2>2. Leads(missed, h) BY <1>8, <1>11, <2>1, ErrorLeads DEF Results
  <2> QED BY <1>9, <2>2, LeadsOn
<1>12. CASE f.command # "read_id" /\ missed.retries # 3 /\ h = DoSeek(missed, f.call)
  <2>1. missed.retries \in 0..2 BY <1>6, <1>7, <1>12
  <2>2. Working(missed) BY <1>2, <1>7, <2>1 DEF Placed, Direct, Working, Changes, Fields
  <2>3. f.call = Routine(f.command) /\ f.onIndex = "timeout" /\ f.call # "read_id"
    BY <1>3, <1>12, Routines DEF OnTrack
  <2>4. Routine(f.command) \in {"read", "write"} BY <1>12, <2>3 DEF OnTrack
  <2>5. Aside(missed) BY <1>7, <2>3, <2>4 DEF Aside, Changes, Fields
  <2>6. missed.level = missed.nmi /\ ~missed.ticking /\ ~missed.irqs /\ Shut(missed)
    BY <1>2, <1>7 DEF Placed, Direct, Resting, Shut, Changes, Fields
  <2>7. h = DoSeek(missed, Routine(missed.command)) BY <1>9, <1>12, <2>3
  <2>8. Leads(missed, h) BY <1>3, <1>8, <1>9, <2>2, <2>5, <2>6, <2>7, DoSeekLeads
  <2> QED BY <1>9, <2>8, LeadsOn
<1>13. CASE f.command # "read_id" /\ h = SetState(gap, "skip_gap_2")
  <2>1. count \in Int /\ count = IF f.call = "write" THEN SyncBytes ELSE f.count BY <1>5, Sizes
  <2> HIDE DEF count
  <2>2. Changes(f, gap, {"left", "count"}) /\ gap.left = SkipBytes /\ gap.count = count BY DEF Base, Changes, Fields
  <2> HIDE DEF gap
  <2>3. h = [gap EXCEPT !.state = "skip_gap_2", !.crcBytes = 0] BY <1>13 DEF SetState
  <2>4. Changes(gap, h, {"state", "crcBytes"}) /\ h.state = "skip_gap_2" /\ h.crcBytes = 0
    BY <2>2, <2>3 DEF Changes, Fields
  <2>5. /\ Changes(f, h, SearchFields) /\ h.irqs = f.irqs /\ h.asked = f.asked /\ h.left = SkipBytes
        /\ h.count = count /\ h.result = f.result /\ h.resultReady = f.resultReady
        /\ h.call = f.call /\ h.command = f.command
    BY <2>2, <2>4 DEF Changes, Fields, SearchFields
  <2>6. f.call \in {"read", "write"} BY <1>3, <1>13, Routines DEF OnTrack
  <2>7. Searched(h) BY <2>1, <2>4, <2>5, <2>6, Sizes DEF Searched
  <2> QED BY <1>4, <1>5, <2>1, <2>4, <2>5, <2>7, Sizes, SearchLeads
<1>14. CASE f.command # "read_id" /\ h = SetState(f, "syncing_for_id_wait")
  <2>1. Base(h) /\ Changes(f, h, {"state", "crcBytes"}) /\ h.state = "syncing_for_id_wait" /\ h.crcBytes = 0
    BY <1>14, SetStateKeeps
  <2>2. /\ Changes(f, h, SearchFields) /\ h.irqs = f.irqs /\ h.asked = f.asked /\ h.left = f.left
        /\ h.count = f.count /\ h.result = f.result /\ h.resultReady = f.resultReady
        /\ h.call = f.call /\ h.command = f.command
    BY <2>1 DEF Changes, Fields, SearchFields
  <2>3. Searched(h) BY <1>14, <2>1, <2>2 DEF Searched
  <2> QED BY <1>4, <1>5, <2>1, <2>2, <2>3, SearchLeads
<1> QED BY <1>1, <1>10, <1>11, <1>12, <1>13, <1>14

\* A byte of a CRC is counted up to the third.
LEMMA CrcByteKeeps ==
  ASSUME NEW f, Base(f)
  PROVE  LET g == CrcByte(f)
         IN  /\ Base(g) /\ Changes(f, g, {"crcBytes"}) /\ g.crcBytes \in 1..3
             /\ f.crcBytes >= 2 => g.crcBytes = 3
<1> DEFINE crcBytes == IF f.crcBytes = 3 THEN 3 ELSE f.crcBytes + 1
           g == [f EXCEPT !.crcBytes = crcBytes]
<1>1. CrcByte(f) = g BY DEF CrcByte
<1>2. crcBytes \in 1..3 /\ (f.crcBytes >= 2 => crcBytes = 3) BY DEF Base, Counters
<1> HIDE DEF crcBytes
<1>3. Changes(f, g, {"crcBytes"}) /\ g.crcBytes = crcBytes BY DEF Base, Changes, Fields
<1> HIDE DEF g
<1>4. Counters(g) BY <1>2, <1>3 DEF Base, Counters, Changes, Fields
<1>5. Base(g) BY <1>3, <1>4, BaseKept DEF CounterFields
<1> QED BY <1>1, <1>2, <1>3, <1>5 DEF g

\* What the bytes of a CRC do not change.
LEMMA CrcByteStays ==
  ASSUME NEW f, NEW g, Base(f), f.level = f.nmi, OnTrack(f), Base(g), Changes(f, g, {"crcBytes"})
  PROVE  /\ g.level = g.nmi /\ OnTrack(g) /\ Armed(g) /\ g.state = f.state /\ g.irqs = f.irqs /\ g.asked = f.asked
         /\ g.call = f.call /\ g.command = f.command /\ g.wanted = f.wanted /\ g.count = f.count /\ g.result = f.result
         /\ Told(f, g) /\ (Searched(f) => Leads(f, g))
<1>1. \A i \in Fields \ {"crcBytes"} : g[i] = f[i] BY DEF Changes
<1>2. OnTrack(g) BY <1>1 DEF OnTrack, Shut, Placed, Direct, Working, Resting, Fields
<1>3. Armed(g) BY <1>2, PlacedSays DEF OnTrack
<1>4. Told(f, g) BY <1>1 DEF Told, Fields
<1>5. Searched(f) => Searched(g) BY <1>1 DEF Searched, Quiet, Fields
<1>6. g.result \subseteq {"deleted"} BY <1>2 DEF OnTrack, Placed, Direct, Working
<1>7. /\ g.irqs \in BOOLEAN /\ g.resultReady \in BOOLEAN /\ g.crcBytes \in 0..3 /\ g.left \in Int /\ g.count \in Int
      /\ g.asked \in 0..(SectorBytes + HeaderBytes)
  BY DEF Base, Flags, FlagFields, Counters
<1>8. Changes(f, g, SearchFields) BY DEF Changes, SearchFields
<1>9. Searched(f) => Leads(f, g) BY <1>5, <1>6, <1>7, <1>8, SearchLeads
<1> QED BY <1>1, <1>2, <1>3, <1>4, <1>9 DEF Fields

\* A byte of a header's CRC.
LEMMA InIdCrcLeads ==
  ASSUME NEW f, Base(f), f.level = f.nmi, OnTrack(f), f.state = "in_id_crc", ~f.irqs,
         f.command = "read_id" => f.asked = HeaderBytes,
         f.call = "read" => f.count = SectorBytes,
         program \in Programs,
         NEW h \in InIdCrc(f)
  PROVE  Leads(f, h)
<1> DEFINE g == CrcByte(f)
<1>1. h \in IF g.crcBytes = 2 THEN {FinishCommand(g, "id_crc_error")} \cup HeaderRead(g) ELSE {g}
  BY DEF InIdCrc
<1>2. Base(g) /\ Changes(f, g, {"crcBytes"}) BY CrcByteKeeps
<1> HIDE DEF g
<1>3. /\ g.level = g.nmi /\ OnTrack(g) /\ Armed(g) /\ g.state = f.state /\ g.irqs = f.irqs
      /\ g.call = f.call /\ g.command = f.command /\ g.wanted = f.wanted /\ g.count = f.count
      /\ Told(f, g) /\ (Searched(f) => Leads(f, g))
  BY <1>2, CrcByteStays
<1>4. CASE h = FinishCommand(g, "id_crc_error")
  <2>1. Leads(g, h) BY <1>2, <1>3, <1>4, ErrorLeads DEF Results
  <2> QED BY <1>3, <2>1, LeadsOn
<1>5. CASE g.crcBytes = 2 /\ h \in HeaderRead(g)
  <2>1. Leads(g, h) BY <1>2, <1>3, <1>5, HeaderReadLeads
  <2> QED BY <1>3, <2>1, LeadsOn
<1>6. CASE h = g
  <2>1. Searched(f) BY DEF Searched
  <2> QED BY <1>3, <1>6, <2>1
<1> QED BY <1>1, <1>4, <1>5, <1>6

\* A byte of a sector's CRC.
LEMMA InDataCrcLeads ==
  ASSUME NEW f, Base(f), f.level = f.nmi, OnTrack(f), f.state = "in_data_crc", f.call = "read", ~f.irqs,
         Searched(f), program \in Programs,
         NEW h \in InDataCrc(f)
  PROVE  Leads(f, h)
<1> DEFINE g == CrcByte(f)
<1>1. h = FinishCommand(g, "data_crc_error") \/ h = CheckCompletion(g) \/ h = g BY DEF InDataCrc
<1>2. Base(g) /\ Changes(f, g, {"crcBytes"}) BY CrcByteKeeps
<1> HIDE DEF g
<1>3. /\ g.level = g.nmi /\ OnTrack(g) /\ Armed(g) /\ g.irqs = f.irqs
      /\ g.call = f.call /\ g.command = f.command /\ g.wanted = f.wanted
      /\ Told(f, g) /\ Leads(f, g)
  BY <1>2, CrcByteStays
<1>4. CASE h = FinishCommand(g, "data_crc_error")
  <2>1. Leads(g, h) BY <1>2, <1>3, <1>4, ErrorLeads DEF Results
  <2> QED BY <1>3, <2>1, LeadsOn
<1>5. CASE h = CheckCompletion(g)
  <2>1. Placed(g) /\ g.command # "read_id" BY <1>3 DEF OnTrack, Routine
  <2>2. Leads(g, h) BY <1>2, <1>3, <1>5, <2>1, CheckCompletionLeads
  <2> QED BY <1>3, <2>2, LeadsOn
<1> QED BY <1>1, <1>3, <1>4, <1>5

\* A byte that is to be the mark of the data, or of deleted data.
LEMMA CheckDataMarkerLeads ==
  ASSUME NEW f, Base(f), f.level = f.nmi, OnTrack(f), f.state = "check_data_marker", f.call = "read", ~f.irqs,
         f.count = SectorBytes, program \in Programs,
         NEW h \in CheckDataMarker(f)
  PROVE  Leads(f, h)
<1> DEFINE s == SetState(f, "in_data")
           g == [s EXCEPT !.asked = 0]
           deleted == [g EXCEPT !.result = {"deleted"}, !.resultReady = TRUE]
<1>1. \/ h = IF f.command = "verify" THEN g ELSE StartIrqCallbacks(g)
      \/ h = IF f.command = "read_deleted" THEN StartIrqCallbacks(deleted) ELSE deleted
      \/ h = FinishCommand(f, "clock_error")
  BY DEF CheckDataMarker
<1>2. Armed(f) /\ f.result \subseteq {"deleted"} BY PlacedSays DEF OnTrack, Placed, Direct, Working
<1>3. /\ f.irqs = FALSE /\ f.resultReady \in BOOLEAN /\ f.left \in Int
  BY DEF Base, Flags, FlagFields, Counters
<1>4. Base(s) /\ Changes(f, s, {"state", "crcBytes"}) /\ s.state = "in_data" /\ s.crcBytes = 0 BY SetStateKeeps
<1> HIDE DEF s
<1>5. Changes(s, g, {"asked"}) /\ g.asked = 0 BY <1>4 DEF Base, Changes, Fields
<1> HIDE DEF g
<1>6. /\ Changes(f, g, {"state", "crcBytes", "asked"}) /\ g.state = "in_data" /\ g.crcBytes = 0
  BY <1>4, <1>5 DEF Changes, Fields
<1>7. /\ Changes(g, deleted, {"result", "resultReady"}) /\ deleted.result = {"deleted"} /\ deleted.resultReady = TRUE
  BY <1>6 DEF Changes, Fields
<1> HIDE DEF deleted
\* What all that is read from now on has in common.
<1> DEFINE Begins(x) ==
             /\ Changes(f, x, SearchFields) /\ x.state = "in_data" /\ x.crcBytes = 0 /\ x.left = f.left
             /\ x.count = f.count /\ x.asked = 0 /\ x.call = f.call /\ x.command = f.command
<1>8. Begins(g) /\ g.irqs = FALSE /\ g.result = f.result /\ g.resultReady = f.resultReady
  BY <1>3, <1>5, <1>6 DEF Changes, Fields, SearchFields
<1>9. Begins(deleted) /\ deleted.irqs = FALSE /\ deleted.result = {"deleted"} /\ deleted.resultReady = TRUE
  BY <1>7, <1>8 DEF Changes, Fields, SearchFields
<1>10. ASSUME NEW e, Begins(e), NEW x, x = StartIrqCallbacks(e)
       PROVE  Begins(x) /\ x.irqs = TRUE /\ x.result = e.result /\ x.resultReady = e.resultReady
  <2>1. x = [e EXCEPT !.irqs = TRUE, !.asked = 0] BY <1>10 DEF StartIrqCallbacks
  <2>2. DOMAIN e = Fields BY <1>10 DEF Changes
  <2>3. Changes(e, x, {"irqs", "asked"}) /\ x.irqs = TRUE /\ x.asked = 0 BY <2>1, <2>2 DEF Changes, Fields
  <2> QED BY <1>10, <2>3 DEF Changes, Fields, SearchFields
<1>11. ASSUME NEW x, Begins(x), x.irqs \in BOOLEAN, x.resultReady \in BOOLEAN, x.result \subseteq {"deleted"},
              Quiet(x) \/ (x.irqs /\ x.command # "verify")
       PROVE  Leads(f, x)
  <2>1. Searched(x) BY <1>11, Sizes DEF Searched
  <2>2. x.asked \in 0..(SectorBytes + HeaderBytes) /\ x.left \in Int /\ x.count \in Int /\ x.crcBytes \in 0..3
    BY <1>3, <1>11, Sizes
  <2> QED BY <1>11, <2>1, <2>2, SearchLeads
<1> HIDE DEF Begins
<1>12. CASE h = FinishCommand(f, "clock_error") BY <1>2, <1>12, ErrorLeads DEF Results
<1>13. CASE f.command = "verify" /\ h = g
  <2>1. g.command = "verify" /\ g.asked = 0 BY <1>8, <1>13 DEF Begins
  <2>2. Quiet(g) BY <1>8, <2>1 DEF Quiet
  <2> QED BY <1>2, <1>3, <1>8, <1>11, <1>13, <2>2
<1>14. CASE f.command # "verify" /\ h = StartIrqCallbacks(g)
  <2>1. Begins(h) /\ h.irqs = TRUE /\ h.result = f.result /\ h.resultReady = f.resultReady BY <1>8, <1>10, <1>14
  <2>2. h.command # "verify" BY <1>14, <2>1 DEF Begins
  <2> QED BY <1>2, <1>3, <1>11, <2>1, <2>2
<1>15. CASE f.command = "read_deleted" /\ h = StartIrqCallbacks(deleted)
  <2>1. Begins(h) /\ h.irqs = TRUE /\ h.result = {"deleted"} /\ h.resultReady = TRUE BY <1>9, <1>10, <1>15
  <2>2. h.command # "verify" BY <1>15, <2>1 DEF Begins
  <2> QED BY <1>11, <2>1, <2>2
<1>16. CASE f.command # "read_deleted" /\ h = deleted
  <2>1. deleted.command # "read_deleted" /\ deleted.asked = 0 BY <1>9, <1>16 DEF Begins
  <2>2. Quiet(deleted) BY <1>9, <2>1 DEF Quiet
  <2> QED BY <1>9, <1>11, <1>16, <2>2
<1> QED BY <1>1, <1>12, <1>13, <1>14, <1>15, <1>16

\* A counted byte; with the last one the requests for data end.
LEMMA DecrementCounterKeeps ==
  ASSUME NEW f, Base(f), f.count >= 1
  PROVE  LET g == DecrementCounter(f)
         IN  /\ Base(g) /\ Changes(f, g, {"count", "irqs"})
             /\ IF f.count > 1 THEN g.count = f.count - 1 /\ g.irqs = f.irqs ELSE g.count = 0 /\ g.irqs = FALSE
<1> DEFINE count == f.count - 1
           more == [f EXCEPT !.count = count]
           zero == [f EXCEPT !.count = 0]
           done == [zero EXCEPT !.irqs = FALSE]
           g == DecrementCounter(f)
<1>1. g = IF f.count > 1 THEN more ELSE done BY DEF DecrementCounter, StopIrqCallbacks
<1>2. f.count \in Int BY DEF Base, Counters
<1>3. count \in Int /\ count = f.count - 1 BY <1>2
<1> HIDE DEF count, g
<1>4. CASE f.count > 1
  <2>1. g = more BY <1>1, <1>4
  <2>2. Changes(f, more, {"count"}) /\ more.count = count BY DEF Base, Changes, Fields
  <2> HIDE DEF more
  <2>3. Counters(more) BY <1>3, <2>2 DEF Base, Counters, Changes, Fields
  <2>4. Base(more) BY <2>2, <2>3, BaseKept DEF CounterFields
  <2> QED BY <1>3, <1>4, <2>1, <2>2, <2>4 DEF Changes, Fields, g
<1>5. CASE ~(f.count > 1)
  <2>1. g = done BY <1>1, <1>5
  <2>2. Changes(f, zero, {"count"}) /\ zero.count = 0 BY DEF Base, Changes, Fields
  <2> HIDE DEF zero
  <2>3. Changes(zero, done, {"irqs"}) /\ done.irqs = FALSE BY <2>2 DEF Changes, Fields
  <2> HIDE DEF done
  <2>4. Changes(f, done, {"count", "irqs"}) /\ done.count = 0 BY <2>2, <2>3 DEF Changes, Fields
  <2>5. Flags(done) BY <2>3, <2>4, FlagsKept DEF FlagFields
  <2>6. Counters(done) BY <2>4 DEF Base, Counters, Changes, Fields
  <2>7. Base(done) BY <2>4, <2>5, <2>6, BaseKept DEF FlagFields, CounterFields
  <2> QED BY <1>5, <2>1, <2>3, <2>4, <2>7 DEF g
<1> QED BY <1>4, <1>5

\* A byte of a sector.
LEMMA InDataLeads ==
  ASSUME NEW f, Base(f), f.level = f.nmi, OnTrack(f), f.state = "in_data", f.call = "read", f.count \in 1..SectorBytes,
         Quiet(f) \/ (f.irqs /\ f.command # "verify" /\ f.asked = SectorBytes - f.count + 1)
  PROVE  Leads(f, InData(f))
<1> DEFINE g == DecrementCounter(f)
           s == SetState(g, "in_data_crc")
           x == InData(f)
<1>1. x = IF g.count = 0 THEN s ELSE g BY DEF InData
<1> HIDE DEF x
<1>2. f.result \subseteq {"deleted"} BY DEF OnTrack, Placed, Direct, Working
<1>3. f.count >= 1 /\ f.count \in Int BY Sizes
<1>4. /\ Base(g) /\ Changes(f, g, {"count", "irqs"})
      /\ IF f.count > 1 THEN g.count = f.count - 1 /\ g.irqs = f.irqs ELSE g.count = 0 /\ g.irqs = FALSE
  BY <1>3, DecrementCounterKeeps
<1> HIDE DEF g
<1>5. /\ Changes(f, g, SearchFields) /\ g.state = f.state /\ g.asked = f.asked /\ g.call = f.call
      /\ g.command = f.command /\ g.result = f.result
  BY <1>4 DEF Changes, Fields, SearchFields
<1>6. /\ g.irqs \in BOOLEAN /\ g.resultReady \in BOOLEAN /\ g.crcBytes \in 0..3 /\ g.left \in Int /\ g.count \in Int
      /\ g.asked \in 0..(SectorBytes + HeaderBytes)
  BY <1>4 DEF Base, Flags, FlagFields, Counters
<1>7. CASE f.count > 1
  <2>1. x = g /\ g.irqs = f.irqs /\ g.count = f.count - 1 /\ g.count \in 1..SectorBytes BY <1>1, <1>3, <1>4, <1>7, Sizes
  <2>2. Quiet(f) => Quiet(g) BY <1>5, <2>1 DEF Quiet
  <2>3. f.irqs /\ f.command # "verify" /\ f.asked = SectorBytes - f.count + 1
          => g.irqs /\ g.command # "verify" /\ g.asked = SectorBytes - g.count
    BY <1>3, <1>5, <2>1, Sizes
  <2>4. Searched(g) BY <1>5, <2>1, <2>2, <2>3 DEF Searched
  <2> QED BY <1>2, <1>5, <1>6, <2>1, <2>4, SearchLeads DEF x
<1>8. CASE ~(f.count > 1)
  <2>1. x = s /\ f.count = 1 /\ g.irqs = FALSE BY <1>1, <1>3, <1>4, <1>8
  <2>2. Base(s) /\ Changes(g, s, {"state", "crcBytes"}) /\ s.state = "in_data_crc" BY <1>4, SetStateKeeps
  <2> HIDE DEF s
  <2>3. /\ Changes(f, s, SearchFields) /\ s.asked = f.asked /\ s.call = f.call /\ s.command = f.command
        /\ s.result = f.result /\ s.irqs = FALSE
    BY <1>5, <2>1, <2>2 DEF Changes, Fields, SearchFields
  <2>4. Quiet(f) => Quiet(s) BY <2>3 DEF Quiet
  <2>5. f.command # "verify" /\ f.asked = SectorBytes - f.count + 1 => s.command # "verify" /\ s.asked = SectorBytes
    BY <2>1, <2>3, Sizes
  <2>6. Searched(s) BY <2>2, <2>3, <2>4, <2>5 DEF Searched
  <2>7. /\ s.irqs \in BOOLEAN /\ s.resultReady \in BOOLEAN /\ s.crcBytes \in 0..3 /\ s.left \in Int /\ s.count \in Int
        /\ s.asked \in 0..(SectorBytes + HeaderBytes)
    BY <2>2 DEF Base, Flags, FlagFields, Counters
  <2> QED BY <1>2, <2>1, <2>3, <2>6, <2>7, SearchLeads DEF x
<1> QED BY <1>7, <1>8

\* The states that take a byte.
ByteStates ==
  {"skip_gap_2", "check_id_marker", "in_id", "in_id_crc", "check_data_marker", "in_data", "in_data_crc"}

\* A byte is read while the track is searched, unless the 6502 was late
\* (intel_fdc_byte_callback_reading).
LEMMA ByteReadLeads ==
  ASSUME NEW f, Sound(f), Searching(f), f.state \in ByteStates, program \in Programs,
         NEW h \in ByteRead(f)
  PROVE  Leads(f, h)
<1> DEFINE g == Asked(f)
<1>1. IF f.irqs /\ ~DataLossOk(f) THEN h = FinishCommand(CommandAbort(f), "late_dma")
      ELSE /\ g.state = "skip_gap_2" => h = SkipGap2(g)
           /\ g.state = "check_id_marker" => h \in CheckIdMarker(g)
           /\ g.state = "in_id" => h = InId(g)
           /\ g.state = "in_id_crc" => h \in InIdCrc(g)
           /\ g.state = "check_data_marker" => h \in CheckDataMarker(g)
           /\ g.state = "in_data" => h = InData(g)
           /\ g.state = "in_data_crc" => h \in InDataCrc(g)
  BY DEF ByteRead, Asked
<1>2. Base(f) /\ f.level = f.nmi /\ OnTrack(f) /\ Searched(f) BY DEF Sound, Searching
<1>3. f.irqs => f.asked < SectorBytes + HeaderBytes /\ f.asked \in Int
  BY <1>2, Sizes DEF Searched, Quiet, ByteStates
<1>4. /\ Base(g) /\ Changes(f, g, LineFields) /\ Told(f, g) /\ g.level = g.nmi
      /\ g.asked = IF f.irqs THEN f.asked + 1 ELSE f.asked
  BY <1>2, <1>3, AskedKeeps
<1> HIDE DEF g
<1>5. /\ g.state = f.state /\ g.irqs = f.irqs /\ g.call = f.call /\ g.command = f.command /\ g.wanted = f.wanted
      /\ g.left = f.left /\ g.count = f.count /\ g.result = f.result
  BY <1>4 DEF Changes, Fields, LineFields
<1>6. OnTrack(g) BY <1>2, <1>4 DEF OnTrack, Shut, Placed, Direct, Working, Resting, Changes, Fields, LineFields
<1>7. CASE f.irqs /\ ~DataLossOk(f)
  <2>1. h = FinishCommand(CommandAbort(f), "late_dma") BY <1>1, <1>7
  <2> QED BY <2>1, LateLeads
<1>8. ASSUME ~(f.irqs /\ ~DataLossOk(f)) PROVE Leads(g, h)
  <2>1. CASE f.state = "skip_gap_2"
    <3>1. h = SkipGap2(g) BY <1>1, <1>5, <1>8, <2>1
    <3>2. /\ g.call \in {"read", "write"} /\ ~g.irqs /\ g.left \in 1..SkipBytes
          /\ g.count = IF g.call = "read" THEN SectorBytes ELSE SyncBytes
      BY <1>2, <1>5, <2>1 DEF Searched
    <3> QED BY <1>4, <1>5, <1>6, <2>1, <3>1, <3>2, SkipGap2Leads
  <2>2. CASE f.state = "check_id_marker"
    <3>1. h \in CheckIdMarker(g) BY <1>1, <1>5, <1>8, <2>2
    <3>2. ~g.irqs /\ g.left = HeaderBytes /\ (g.call = "read" => g.count = SectorBytes)
      BY <1>2, <1>5, <2>2 DEF Searched
    <3> QED BY <1>4, <1>5, <1>6, <2>2, <3>1, <3>2, CheckIdMarkerLeads
  <2>3. CASE f.state = "in_id"
    <3>1. h = InId(g) BY <1>1, <1>5, <1>8, <2>3
    <3>2. /\ g.left \in 1..HeaderBytes /\ (g.irqs <=> g.command = "read_id")
          /\ g.call = "read" => g.count = SectorBytes
      BY <1>2, <1>5, <2>3 DEF Searched
    <3>3. f.command = "read_id" => f.irqs /\ f.asked = HeaderBytes - f.left BY <1>2, <2>3 DEF Searched
    <3>4. g.command = "read_id" => g.asked = HeaderBytes - g.left + 1 BY <1>4, <1>5, <3>3
    <3> QED BY <1>4, <1>5, <1>6, <2>3, <3>1, <3>2, <3>4, InIdLeads
  <2>4. CASE f.state = "in_id_crc"
    <3>1. h \in InIdCrc(g) BY <1>1, <1>5, <1>8, <2>4
    <3>2. ~f.irqs /\ (f.command = "read_id" => f.asked = HeaderBytes) /\ (f.call = "read" => f.count = SectorBytes)
      BY <1>2, <2>4 DEF Searched
    <3>3. ~g.irqs /\ (g.command = "read_id" => g.asked = HeaderBytes) /\ (g.call = "read" => g.count = SectorBytes)
      BY <1>4, <1>5, <3>2
    <3> QED BY <1>4, <1>5, <1>6, <2>4, <3>1, <3>3, InIdCrcLeads
  <2>5. CASE f.state = "check_data_marker"
    <3>1. h \in CheckDataMarker(g) BY <1>1, <1>5, <1>8, <2>5
    <3>2. g.call = "read" /\ ~g.irqs /\ g.count = SectorBytes BY <1>2, <1>5, <2>5 DEF Searched
    <3> QED BY <1>4, <1>5, <1>6, <2>5, <3>1, <3>2, CheckDataMarkerLeads
  <2>6. CASE f.state = "in_data"
    <3>1. h = InData(g) BY <1>1, <1>5, <1>8, <2>6
    <3>2. /\ f.call = "read" /\ f.count \in 1..SectorBytes
          /\ Quiet(f) \/ (f.irqs /\ f.command # "verify" /\ f.asked = SectorBytes - f.count)
      BY <1>2, <2>6 DEF Searched
    <3>3. Quiet(f) => Quiet(g) BY <1>4, <1>5 DEF Quiet
    <3>4. f.irqs /\ f.command # "verify" /\ f.asked = SectorBytes - f.count
            => g.irqs /\ g.command # "verify" /\ g.asked = SectorBytes - g.count + 1
      BY <1>4, <1>5
    <3> QED BY <1>4, <1>5, <1>6, <2>6, <3>1, <3>2, <3>3, <3>4, InDataLeads
  <2>7. CASE f.state = "in_data_crc"
    <3>1. h \in InDataCrc(g) BY <1>1, <1>5, <1>8, <2>7
    <3>2. f.call = "read" /\ ~f.irqs BY <1>2, <2>7 DEF Searched
    <3>3. g.asked = f.asked /\ g.call = "read" /\ ~g.irqs BY <1>4, <1>5, <3>2
    <3>4. Searched(g) BY <1>2, <1>5, <2>7, <3>3 DEF Searched, Quiet
    <3> QED BY <1>4, <1>5, <1>6, <2>7, <3>1, <3>3, <3>4, InDataCrcLeads
  <2> QED BY <2>1, <2>2, <2>3, <2>4, <2>5, <2>6, <2>7 DEF ByteStates
<1>9. CASE ~(f.irqs /\ ~DataLossOk(f)) BY <1>4, <1>5, <1>8, <1>9, LeadsOn
<1> QED BY <1>7, <1>9

\* The phase a command is in while bits are shifted in or out.
LEMMA StateSays ==
  ASSUME NEW f, Sound(f)
  PROVE  /\ f.state \in ReadStates => Searching(f) \/ (Seeking(f) /\ f.state = "in_id_crc" /\ f.crcBytes >= 2)
         /\ f.state \notin {"idle"} \cup ReadStates => WritingDisc(f)
         /\ f.state # "idle" => f.busy
         /\ f.state \in {"idle"} \cup ReadStates \cup WriteStates
<1>1. Phase(f) BY DEF Sound
<1>2. "idle" \notin ReadStates BY DEF ReadStates, WholeByteStates
<1>3. CASE Idle(f) BY <1>2, <1>3 DEF Idle
<1>4. CASE Asking(f) BY <1>2, <1>4 DEF Asking
<1>5. CASE Seeking(f)
  <2>1. f.state = "idle" \/ (f.state = "in_id_crc" /\ f.crcBytes >= 2) BY <1>5 DEF Seeking, Aside
  <2>2. f.busy BY <1>5 DEF Seeking, Working
  <2> QED BY <1>2, <1>5, <2>1, <2>2 DEF ReadStates, WholeByteStates
<1>6. CASE AwaitingIndex(f) BY <1>2, <1>6 DEF AwaitingIndex
<1>7. CASE Searching(f)
  <2>1. f.busy BY <1>7, PlacedSays DEF Searching, OnTrack
  <2>2. f.state \in ReadStates BY <1>7 DEF Searching, Searched, ReadStates, WholeByteStates
  <2> QED BY <1>2, <1>7, <2>1, <2>2
<1>8. CASE WritingDisc(f)
  <2>1. f.busy BY <1>8, PlacedSays DEF WritingDisc, GateOpen
  <2>2. SectorWritten(f) => f.state \in WriteStates BY DEF SectorWritten, WriteStates
  <2>3. TrackFormatted(f) => f.state \in WriteStates BY DEF TrackFormatted, WriteStates
  <2>4. WriteStates \cap ({"idle"} \cup ReadStates) = {} BY DEF WriteStates, ReadStates, WholeByteStates
  <2> QED BY <1>8, <2>1, <2>2, <2>3, <2>4 DEF WritingDisc
<1> QED BY <1>1, <1>3, <1>4, <1>5, <1>6, <1>7, <1>8 DEF Phase

\* While the head moves to another track the bytes after the header are counted as
\* those of its CRC.
LEMMA ReadingAsideLeads ==
  ASSUME NEW f, Sound(f), Seeking(f), f.state = "in_id_crc", f.crcBytes >= 2, NEW h \in Reading(f)
  PROVE  Leads(f, h)
<1> DEFINE g == CrcByte(f)
<1>1. ~f.irqs /\ f.busy BY DEF Seeking, Working
<1>2. Base(f) /\ f.level = f.nmi BY DEF Sound
<1>3. Base(g) /\ Changes(f, g, {"crcBytes"}) /\ g.crcBytes = 3 BY <1>2, CrcByteKeeps
<1>4. ByteRead(f) = InIdCrc(f) BY <1>1 DEF ByteRead
<1>5. InIdCrc(f) = {g} BY <1>3 DEF InIdCrc
<1>6. h = f \/ h = g BY <1>4, <1>5 DEF Reading
<1> HIDE DEF g
<1>7. Seeking(g) BY <1>3 DEF Seeking, Working, Homing, Aside, Shut, Changes, Fields
<1>8. Sound(g) BY <1>2, <1>3, <1>7 DEF Sound, Phase, Changes, Fields
<1>9. Told(f, g) /\ g.busy = f.busy BY <1>3 DEF Told, Changes, Fields
<1>10. Leads(f, g) BY <1>1, <1>8, <1>9 DEF Leads, Found
<1> QED BY <1>1, <1>6, <1>10, StayingLeads

\* Bits are shifted in: they may or may not complete a byte, or a mark
\* (intel_fdc_byte_callback_reading, intel_fdc_shift_data_bit).
LEMMA ReadingLeads ==
  ASSUME NEW f, Sound(f), f.state \in ReadStates, program \in Programs, NEW h \in Reading(f)
  PROVE  Leads(f, h)
<1> DEFINE mark == IF f.state = "syncing_for_id" THEN "check_id_marker" ELSE "check_data_marker"
           s == SetState(f, mark)
           found == IF f.state \in {"syncing_for_id", "syncing_for_data"} THEN s ELSE f
<1>1. CASE Seeking(f) /\ f.state = "in_id_crc" /\ f.crcBytes >= 2 BY <1>1, ReadingAsideLeads
<1>2. CASE Searching(f)
  <2>1. Base(f) /\ f.level = f.nmi /\ OnTrack(f) /\ Searched(f) BY <1>2 DEF Sound, Searching
  <2>2. Leads(f, f) BY StayingLeads, StateSays DEF ReadStates, WholeByteStates
  <2>3. CASE f.state = "syncing_for_id_wait"
    <3>1. h = f \/ h = StartSearch(f) BY <2>3 DEF Reading
    <3>2. ~f.irqs /\ (f.call = "read" => f.count = SectorBytes) BY <2>1, <2>3 DEF Searched
    <3> QED BY <2>1, <2>2, <3>1, <3>2, SearchingAgainLeads
  <2>4. CASE f.state # "syncing_for_id_wait"
    <3>1. h = f \/ h = found \/ h \in ByteRead(found) BY <2>4 DEF Reading
    <3>2. CASE f.state \in {"syncing_for_id", "syncing_for_data"}
      <4>1. found = s BY <3>2
      <4>2. Base(s) /\ Changes(f, s, {"state", "crcBytes"}) /\ s.state = mark BY <2>1, SetStateKeeps
      <4> HIDE DEF s, found
      <4>3. /\ Changes(f, s, SearchFields) /\ s.left = f.left /\ s.count = f.count /\ s.irqs = f.irqs
            /\ s.call = f.call /\ s.command = f.command /\ s.wanted = f.wanted /\ s.result = f.result
        BY <4>2 DEF Changes, Fields, SearchFields
      <4>4. Searched(s) BY <2>1, <3>2, <4>2, <4>3 DEF Searched
      <4>5. s.result \subseteq {"deleted"} BY <2>1, <4>3 DEF OnTrack, Placed, Direct, Working
      <4>6. /\ s.irqs \in BOOLEAN /\ s.resultReady \in BOOLEAN /\ s.crcBytes \in 0..3 /\ s.left \in Int
            /\ s.count \in Int /\ s.asked \in 0..(SectorBytes + HeaderBytes)
        BY <4>2 DEF Base, Flags, FlagFields, Counters
      <4>7. Leads(f, s) /\ Searching(s) BY <2>1, <4>3, <4>4, <4>5, <4>6, SearchLeads
      <4>8. CASE h \in ByteRead(s)
        <5>1. Sound(s) /\ Told(f, s) BY <4>7 DEF Leads
        <5>2. s.state \in ByteStates BY <4>2 DEF ByteStates
        <5>3. Leads(s, h) BY <4>7, <4>8, <5>1, <5>2, ByteReadLeads
        <5> QED BY <4>3, <5>1, <5>3, LeadsOn
      <4> QED BY <2>2, <3>1, <4>1, <4>7, <4>8
    <3>3. CASE f.state \notin {"syncing_for_id", "syncing_for_data"}
      <4>1. found = f BY <3>3
      <4>2. f.state \in ByteStates BY <2>4, <3>3 DEF ReadStates, WholeByteStates, ByteStates
      <4> QED BY <1>2, <2>2, <3>1, <4>1, <4>2, ByteReadLeads
    <3> QED BY <3>2, <3>3
  <2> QED BY <2>3, <2>4
<1> QED BY <1>1, <1>2, StateSays

\* A byte is written, and the state is another or counts on.
LEMMA ByteWrittenLeads ==
  ASSUME NEW f, NEW g, Base(f), f.level = f.nmi, GateOpen(f), Base(g),
         Changes(f, g, {"state", "crcBytes", "count", "irqs", "asked", "routine", "onIndex"}), g.routine \in 0..12,
         SectorWritten(g) \/ TrackFormatted(g)
  PROVE  Leads(f, g)
<1>1. Changes(f, g, WriteFields) BY DEF Changes, WriteFields
<1>2. g.gate /\ g.select = f.select /\ g.load = f.load /\ g.sectors = f.sectors
  BY DEF GateOpen, Changes, Fields
<1>3. Placed(f) /\ ~f.protected /\ f.sectors \in 1..31 BY PlacedSays DEF GateOpen
<1> QED BY <1>1, <1>2, <1>3, WriteLeads

\* The next run of a format.
LEMMA FormatRunLeads ==
  ASSUME NEW f, Base(f), f.level = f.nmi, GateOpen(f), f.command = "format", f.onIndex = "none", ~f.irqs,
         NEW e, Base(e), Changes(f, e, {"count", "routine", "sectors"}), e.count >= 1, e.sectors \in 1..31,
         NEW call,
         \/ call \in {"format_FFs", "format_00s"} /\ e.routine = 4
         \/ call \in {"format_GAP2_FFs", "format_GAP2_00s"} /\ e.routine = 10
         \/ call = "format_data" /\ e.routine = 11
  PROVE  Leads(f, DoWriteRun(e, call))
<1> DEFINE g == DoWriteRun(e, call)
<1>1. /\ Base(g) /\ Changes(e, g, {"call", "state", "crcBytes"} \cup PortFields)
      /\ g.call = call /\ g.state = "write_run" /\ g.gate = TRUE /\ g.select = e.select /\ g.load = e.load
  BY DoWriteRunKeeps
<1> HIDE DEF g
<1>2. Changes(f, g, WriteFields) BY <1>1 DEF Changes, WriteFields
<1>3. /\ g.command = f.command /\ g.onIndex = f.onIndex /\ g.irqs = f.irqs /\ g.count = e.count /\ g.routine = e.routine
      /\ g.sectors = e.sectors /\ g.select = f.select /\ g.load = f.load
  BY <1>1 DEF Changes, Fields, PortFields
<1>4. TrackFormatted(g) BY <1>1, <1>3 DEF TrackFormatted
<1>5. g.routine \in 0..12 BY <1>3
<1>6. Placed(f) /\ ~f.protected BY DEF GateOpen
<1> QED BY <1>1, <1>2, <1>3, <1>4, <1>5, <1>6, WriteLeads DEF g

\* The 6502 is asked for the bytes to come.
LEMMA StartIrqCallbacksKeeps ==
  ASSUME NEW f, Base(f), NEW s
  PROVE  LET g == SetState(StartIrqCallbacks(f), s)
         IN  /\ Base(g) /\ Changes(f, g, {"irqs", "asked", "state", "crcBytes"})
             /\ g.irqs = TRUE /\ g.asked = 0 /\ g.state = s
<1> DEFINE e == StartIrqCallbacks(f)
           g == SetState(e, s)
<1>1. Changes(f, e, {"irqs", "asked"}) /\ e.irqs = TRUE /\ e.asked = 0 BY DEF StartIrqCallbacks, Base, Changes, Fields
<1> HIDE DEF e
<1>2. Flags(e) BY <1>1, FlagsKept DEF FlagFields
<1>3. Counters(e) BY <1>1, Sizes DEF Base, Counters, Changes, Fields
<1>4. Base(e) BY <1>1, <1>2, <1>3, BaseKept DEF FlagFields, CounterFields
<1>5. Base(g) /\ Changes(e, g, {"state", "crcBytes"}) /\ g.state = s BY <1>4, SetStateKeeps
<1> HIDE DEF g
<1>6. Changes(f, g, {"irqs", "asked", "state", "crcBytes"}) /\ g.irqs = TRUE /\ g.asked = 0
  BY <1>1, <1>5 DEF Changes, Fields
<1> QED BY <1>5, <1>6 DEF g, e

\* The last byte of a run is written (intel_fdc_byte_callback_writing).
LEMMA RunWrittenLeads ==
  ASSUME NEW f, Base(f), f.level = f.nmi, GateOpen(f), ~f.irqs, f.count = 0,
         \/ f.command = "write" /\ f.call = "write" /\ f.onIndex \in {"none", "timeout"}
         \/ /\ f.command = "format" /\ f.onIndex = "none"
            /\ \/ f.call \in {"format_FFs", "format_00s"} /\ f.routine = 4
               \/ f.call \in {"format_GAP2_FFs", "format_GAP2_00s"} /\ f.routine = 10
               \/ f.call = "format_data" /\ f.routine = 11
  PROVE  Leads(f, RunWritten(f))
<1> DEFINE x == RunWritten(f)
           sync == [f EXCEPT !.count = SyncBytes]
<1>1. /\ f.call = "write" => x = SetState(StartIrqCallbacks(f), "write_data_mark")
      /\ f.call = "format_FFs" => x = DoWriteRun(sync, "format_00s")
      /\ f.call = "format_00s" => x = SetState(StartIrqCallbacks(f), "format_write_id_marker")
      /\ f.call = "format_GAP2_FFs" => x = DoWriteRun(sync, "format_GAP2_00s")
      /\ f.call = "format_GAP2_00s" => x = SetState(f, "format_write_data_marker")
      /\ f.call = "format_data" => x = SetState(f, "format_data_crc_2")
  BY DEF RunWritten
<1> HIDE DEF x
<1>2. f.sectors \in 1..31 /\ f.routine \in 0..12 BY PlacedSays DEF GateOpen
<1>3. Changes(f, sync, {"count"}) /\ sync.count = SyncBytes BY DEF Base, Changes, Fields
<1> HIDE DEF sync
<1>4. Counters(sync) BY <1>3, Sizes DEF Base, Counters, Changes, Fields
<1>5. Base(sync) BY <1>3, <1>4, BaseKept DEF CounterFields
<1>6. /\ Changes(f, sync, {"count", "routine", "sectors"}) /\ sync.count >= 1
      /\ sync.sectors = f.sectors /\ sync.routine = f.routine
  BY <1>3, Sizes DEF Changes, Fields
<1>7. CASE f.call \in {"format_FFs", "format_GAP2_FFs"}
  <2>1. f.command = "format" /\ f.onIndex = "none" BY <1>7
  <2>2. CASE f.call = "format_FFs"
    <3>1. f.routine = 4 BY <2>2
    <3> QED BY <1>1, <1>2, <1>5, <1>6, <2>1, <2>2, <3>1, FormatRunLeads DEF x
  <2>3. CASE f.call = "format_GAP2_FFs"
    <3>1. f.routine = 10 BY <2>3
    <3> QED BY <1>1, <1>2, <1>5, <1>6, <2>1, <2>3, <3>1, FormatRunLeads DEF x
  <2> QED BY <1>7, <2>2, <2>3
<1>8. ASSUME NEW s, x = SetState(StartIrqCallbacks(f), s),
             \/ f.call = "write" /\ s = "write_data_mark"
             \/ f.call = "format_00s" /\ s = "format_write_id_marker"
      PROVE  Leads(f, x)
  <2>1. /\ Base(x) /\ Changes(f, x, {"irqs", "asked", "state", "crcBytes"})
        /\ x.irqs = TRUE /\ x.asked = 0 /\ x.state = s
    BY ONLY Base(f), <1>8, StartIrqCallbacksKeeps
  <2>2. x.command = f.command /\ x.call = f.call /\ x.onIndex = f.onIndex /\ x.routine = f.routine
    BY <2>1 DEF Changes, Fields
  <2>3. CASE f.call = "write" /\ s = "write_data_mark"
    <3>1. SectorWritten(x) BY <2>1, <2>2, <2>3 DEF SectorWritten
    <3> QED BY <1>2, <2>1, <2>2, <3>1, ByteWrittenLeads DEF Changes
  <2>4. CASE f.call = "format_00s" /\ s = "format_write_id_marker"
    <3>1. TrackFormatted(x) BY <2>1, <2>2, <2>4 DEF TrackFormatted
    <3> QED BY <1>2, <2>1, <2>2, <3>1, ByteWrittenLeads DEF Changes
  <2> QED BY <1>8, <2>3, <2>4
<1>9. ASSUME NEW s, x = SetState(f, s),
             \/ f.call = "format_GAP2_00s" /\ s = "format_write_data_marker"
             \/ f.call = "format_data" /\ s = "format_data_crc_2"
      PROVE  Leads(f, x)
  <2>1. Base(x) /\ Changes(f, x, {"state", "crcBytes"}) /\ x.state = s BY <1>9, SetStateKeeps
  <2>2. x.command = f.command /\ x.onIndex = f.onIndex /\ x.routine = f.routine /\ x.irqs = f.irqs
    BY <2>1 DEF Changes, Fields
  <2>3. TrackFormatted(x) BY <1>9, <2>1, <2>2 DEF TrackFormatted
  <2> QED BY <1>2, <2>1, <2>2, <2>3, ByteWrittenLeads DEF Changes
<1> QED BY <1>1, <1>7, <1>8, <1>9 DEF x

\* After the bytes of one kind, the next routine (intel_fdc_byte_callback_writing).
LEMMA DynamicDispatchLeads ==
  ASSUME NEW f, Base(f), f.level = f.nmi, GateOpen(f), f.state = "dynamic_dispatch",
         \/ /\ f.command = "write" /\ f.call = "write" /\ f.onIndex \in {"none", "timeout"} /\ ~f.irqs
            /\ f.routine \in 0..2 /\ f.asked = SectorBytes
         \/ /\ f.command = "format" /\ f.onIndex = "none"
            /\ \/ f.routine \in 4..6 /\ f.irqs /\ f.asked = f.routine - 2
               \/ f.routine \in 7..8 /\ ~f.irqs /\ f.asked = HeaderBytes
               \/ f.routine \in 9..11 /\ ~f.irqs,
         program \in Programs
  PROVE  Leads(f, DynamicDispatch(f))
<1> DEFINE routine == f.routine + 1
           g == [f EXCEPT !.routine = routine]
           gap == [g EXCEPT !.count = GapBytes]
           data == [g EXCEPT !.count = SectorBytes]
           stop == [g EXCEPT !.irqs = FALSE]
           x == DynamicDispatch(f)
<1>1. /\ f.routine \in {0, 4, 5, 7} => x = g
      /\ f.routine = 1 => x = SetState(g, "write_crc_2")
      /\ f.routine = 2 => x = CheckCompletion(g)
      /\ f.routine = 6 => x = stop
      /\ f.routine = 8 => x = SetState(g, "format_id_crc_2")
      /\ f.routine = 9 => x = DoWriteRun(gap, "format_GAP2_FFs")
      /\ f.routine = 10 => x = DoWriteRun(data, "format_data")
      /\ f.routine = 11 => x = FormatSectorWritten(g)
  <2> DEFINE crc == SetState(g, "write_crc_2")
             done == CheckCompletion(g)
             idCrc == SetState(g, "format_id_crc_2")
             gap2 == DoWriteRun(gap, "format_GAP2_FFs")
             sector == DoWriteRun(data, "format_data")
             written == FormatSectorWritten(g)
             lost == Fail(g, "dodgy routine")
  <2> HIDE DEF g, gap, data, stop
  <2>1. x = CASE f.routine \in {0, 4, 5, 7} -> g
              [] f.routine = 1 -> crc
              [] f.routine = 2 -> done
              [] f.routine = 6 -> stop
              [] f.routine = 8 -> idCrc
              [] f.routine = 9 -> gap2
              [] f.routine = 10 -> sector
              [] f.routine = 11 -> written
              [] OTHER -> lost
    BY DEF DynamicDispatch, StopIrqCallbacks, g, gap, data, stop
  <2> HIDE DEF x, crc, done, idCrc, gap2, sector, written, lost
  <2>2. f.routine \in {0, 4, 5, 7} => x = g BY ONLY <2>1
  <2>3. (f.routine = 1 => x = crc) /\ (f.routine = 2 => x = done) BY ONLY <2>1
  <2>4. (f.routine = 6 => x = stop) /\ (f.routine = 8 => x = idCrc) BY ONLY <2>1
  <2>5. (f.routine = 9 => x = gap2) /\ (f.routine = 10 => x = sector) BY ONLY <2>1
  <2>6. f.routine = 11 => x = written BY ONLY <2>1
  <2> QED BY <2>2, <2>3, <2>4, <2>5, <2>6 DEF crc, done, idCrc, gap2, sector, written
<1> HIDE DEF x
<1>2. Placed(f) BY DEF GateOpen
<1>3. f.sectors \in 1..31 BY <1>2, PlacedSays
<1>4. routine \in 1..12 /\ routine = f.routine + 1 OBVIOUS
<1> HIDE DEF routine
<1>5. Changes(f, g, {"routine"}) /\ g.routine = routine BY DEF Base, Changes, Fields
<1> HIDE DEF g
<1>6. Base(g) BY <1>5, BaseKept DEF FreeFields
<1>7. /\ g.state = f.state /\ g.command = f.command /\ g.call = f.call /\ g.onIndex = f.onIndex /\ g.irqs = f.irqs
      /\ g.asked = f.asked /\ g.sectors = f.sectors /\ g.level = g.nmi /\ g.wanted = f.wanted
  BY <1>5 DEF Changes, Fields
<1>8. GateOpen(g) BY <1>4, <1>5 DEF GateOpen, Placed, Direct, Working, Resting, Changes, Fields
<1>9. Told(f, g) BY <1>5 DEF Told, Changes, Fields
<1>10. CASE f.routine \in {0, 4, 5, 7}
  <2>1. SectorWritten(g) \/ TrackFormatted(g) BY <1>4, <1>5, <1>7, <1>10, Sizes DEF SectorWritten, TrackFormatted
  <2> QED BY <1>1, <1>4, <1>5, <1>6, <1>10, <2>1, ByteWrittenLeads DEF Changes, x
<1>11. CASE f.routine \in {1, 8}
  <2> DEFINE s == IF f.routine = 1 THEN "write_crc_2" ELSE "format_id_crc_2"
  <2>1. x = SetState(g, s) BY <1>1, <1>11
  <2>2. Base(x) /\ Changes(g, x, {"state", "crcBytes"}) /\ x.state = s BY <1>6, <2>1, SetStateKeeps
  <2>3. /\ x.command = f.command /\ x.call = f.call /\ x.onIndex = f.onIndex /\ x.irqs = f.irqs
        /\ x.asked = f.asked /\ x.routine = routine
    BY <1>5, <1>7, <2>2 DEF Changes, Fields
  <2>4. SectorWritten(x) \/ TrackFormatted(x) BY <1>4, <1>11, <2>2, <2>3, Sizes DEF SectorWritten, TrackFormatted
  <2> QED BY <1>4, <1>5, <2>2, <2>3, <2>4, ByteWrittenLeads DEF Changes, x
<1>12. CASE f.routine = 2
  <2>1. x = CheckCompletion(g) BY <1>1, <1>12
  <2>2. Placed(g) /\ ~g.irqs /\ g.command # "read_id" BY <1>7, <1>8, <1>12 DEF GateOpen
  <2>3. Leads(g, x) BY <1>6, <1>7, <2>1, <2>2, CheckCompletionLeads
  <2> QED BY <1>7, <1>9, <2>3, LeadsOn DEF x
<1>13. CASE f.routine = 6
  <2>1. x = stop BY <1>1, <1>13
  <2>2. Changes(g, stop, {"irqs"}) /\ stop.irqs = FALSE BY <1>6 DEF Base, Changes, Fields
  <2> HIDE DEF stop
  <2>3. Flags(stop) BY <1>6, <2>2, FlagsKept DEF FlagFields
  <2>4. Base(stop) BY <1>6, <2>2, <2>3, BaseKept DEF FlagFields
  <2>5. /\ stop.command = f.command /\ stop.onIndex = f.onIndex /\ stop.asked = f.asked /\ stop.routine = 7
        /\ stop.state = f.state
    BY <1>4, <1>5, <1>7, <1>13, <2>2 DEF Changes, Fields
  <2>6. TrackFormatted(stop) BY <1>13, <2>2, <2>5, Sizes DEF TrackFormatted
  <2> QED BY <1>5, <2>1, <2>2, <2>4, <2>5, <2>6, ByteWrittenLeads DEF Changes, x
<1>14. CASE f.routine \in {9, 10}
  <2> DEFINE count == IF f.routine = 9 THEN GapBytes ELSE SectorBytes
             call == IF f.routine = 9 THEN "format_GAP2_FFs" ELSE "format_data"
             e == [g EXCEPT !.count = count]
  <2>1. x = DoWriteRun(e, call) BY <1>1, <1>14
  <2>2. count \in Int /\ count >= 1 BY Sizes
  <2> HIDE DEF count
  <2>3. Changes(g, e, {"count"}) /\ e.count = count BY <1>6 DEF Base, Changes, Fields
  <2> HIDE DEF e
  <2>4. Counters(e) BY <1>6, <2>2, <2>3 DEF Base, Counters, Changes, Fields
  <2>5. Base(e) BY <1>6, <2>3, <2>4, BaseKept DEF CounterFields
  <2>6. Changes(f, e, {"count", "routine", "sectors"}) /\ e.count >= 1 /\ e.sectors \in 1..31 /\ e.routine = routine
    BY <1>3, <1>5, <1>7, <2>2, <2>3 DEF Changes, Fields
  <2>7. f.command = "format" /\ f.onIndex = "none" /\ ~f.irqs BY <1>14
  <2>8. (call = "format_GAP2_FFs" /\ e.routine = 10) \/ (call = "format_data" /\ e.routine = 11)
    BY <1>4, <1>14, <2>6
  <2> HIDE DEF call
  <2> QED BY <2>1, <2>5, <2>6, <2>7, <2>8, FormatRunLeads DEF x
<1>15. CASE f.routine = 11
  <2>1. x = FormatSectorWritten(g) /\ routine = 12 BY <1>1, <1>4, <1>15
  <2>2. f.command = "format" /\ f.onIndex = "none" /\ ~f.irqs BY <1>15
  <2>3. CASE g.sectors = 1
    <3> DEFINE e == [g EXCEPT !.onIndex = "stop_format"]
    <3>1. x = SetState(e, "format_gap_4") BY <2>1, <2>3 DEF FormatSectorWritten
    <3>2. Changes(g, e, {"onIndex"}) /\ e.onIndex = "stop_format" BY <1>6 DEF Base, Changes, Fields
    <3> HIDE DEF e
    <3>3. Base(e) BY <1>6, <3>2, BaseKept DEF FreeFields
    <3>4. Base(x) /\ Changes(e, x, {"state", "crcBytes"}) /\ x.state = "format_gap_4" BY <3>1, <3>3, SetStateKeeps
    <3>5. /\ Changes(f, x, {"routine", "onIndex", "state", "crcBytes"}) /\ x.routine = 12 /\ x.onIndex = "stop_format"
          /\ x.command = "format" /\ x.sectors = 1 /\ ~x.irqs
      BY <1>5, <1>7, <2>1, <2>2, <2>3, <3>2, <3>4 DEF Changes, Fields
    <3>6. TrackFormatted(x) BY <3>4, <3>5 DEF TrackFormatted
    <3> QED BY <3>4, <3>5, <3>6, ByteWrittenLeads DEF Changes, x
  <2>4. CASE g.sectors # 1
    <3> DEFINE sectors == g.sectors - 1
               e == [g EXCEPT !.sectors = sectors, !.routine = 4, !.count = GapBytes]
    <3>1. x = DoWriteRun(e, "format_FFs") BY <2>1, <2>4 DEF FormatSectorWritten
    <3>2. sectors \in 1..31 BY <1>3, <1>7, <2>4
    <3> HIDE DEF sectors
    <3>3. /\ Changes(g, e, {"sectors", "routine", "count"}) /\ e.sectors = sectors /\ e.routine = 4
          /\ e.count = GapBytes
      BY <1>6 DEF Base, Changes, Fields
    <3> HIDE DEF e
    <3>4. Counters(e) BY <1>6, <3>3, Sizes DEF Base, Counters, Changes, Fields
    <3>5. Base(e) BY <1>6, <3>3, <3>4, BaseKept DEF CounterFields, FreeFields
    <3>6. Changes(f, e, {"count", "routine", "sectors"}) /\ e.count >= 1 BY <1>5, <3>3, Sizes DEF Changes, Fields
    <3> QED BY <2>2, <3>1, <3>2, <3>3, <3>5, <3>6, FormatRunLeads DEF x
  <2> QED BY <2>3, <2>4
<1> QED BY <1>10, <1>11, <1>12, <1>13, <1>14, <1>15


\* A byte is written, unless the 6502 was late with it
\* (intel_fdc_byte_callback_writing).
LEMMA WritingLeads ==
  ASSUME NEW f, Sound(f), WritingDisc(f), program \in Programs
  PROVE  Leads(f, Writing(f))
<1> DEFINE g == Asked(f)
           c == DecrementCounter(g)
           x == Writing(f)
           mark == [g EXCEPT !.count = SectorBytes - 1]
           last == [c EXCEPT !.routine = 0]
<1>1. IF f.irqs /\ ~DataLossOk(f) THEN x = FinishCommand(CommandAbort(f), "late_dma")
      ELSE /\ g.state = "write_run" => x = IF c.count > 0 THEN c ELSE RunWritten(c)
           /\ g.state = "write_data_mark" => x = SetState(mark, "write_sector_data")
           /\ g.state = "write_sector_data" => x = IF c.count > 0 THEN c ELSE SetState(last, "dynamic_dispatch")
           /\ g.state = "write_crc_2" => x = SetState(g, "write_crc_3")
           /\ g.state = "format_id_crc_2" => x = SetState(g, "format_id_crc_3")
           /\ g.state = "format_data_crc_2" => x = SetState(g, "format_data_crc_3")
           /\ g.state \in {"write_crc_3", "format_write_id_marker", "format_id_crc_3", "format_write_data_marker",
                           "format_data_crc_3"} => x = SetState(g, "dynamic_dispatch")
           /\ g.state = "dynamic_dispatch" => x = DynamicDispatch(g)
           /\ g.state = "format_gap_4" => x = g
  BY DEF Writing, Asked, WriteDataMark
<1> HIDE DEF x
<1>2. Base(f) /\ f.level = f.nmi /\ GateOpen(f) /\ (SectorWritten(f) \/ TrackFormatted(f)) BY DEF Sound, WritingDisc
<1>3. f.irqs => f.asked < SectorBytes + HeaderBytes /\ f.asked \in Int
  BY <1>2, Sizes DEF SectorWritten, TrackFormatted
<1>4. /\ Base(g) /\ Changes(f, g, LineFields) /\ Told(f, g) /\ g.level = g.nmi
      /\ g.asked = IF f.irqs THEN f.asked + 1 ELSE f.asked
  BY <1>2, <1>3, AskedKeeps
<1> HIDE DEF g
<1>5. /\ g.state = f.state /\ g.irqs = f.irqs /\ g.call = f.call /\ g.command = f.command /\ g.wanted = f.wanted
      /\ g.onIndex = f.onIndex /\ g.count = f.count /\ g.routine = f.routine /\ g.sectors = f.sectors
  BY <1>4 DEF Changes, Fields, LineFields
<1>6. GateOpen(g) BY <1>2, <1>4 DEF GateOpen, Placed, Direct, Working, Resting, Changes, Fields, LineFields
<1>7. g.routine \in 0..12 BY <1>6, PlacedSays DEF GateOpen
<1>8. SUFFICES ASSUME ~(f.irqs /\ ~DataLossOk(f)) PROVE Leads(g, x)
  <2>1. CASE f.irqs /\ ~DataLossOk(f)
    <3>1. x = FinishCommand(CommandAbort(f), "late_dma") BY <1>1, <2>1
    <3> QED BY <3>1, LateLeads DEF x
  <2>2. CASE ~(f.irqs /\ ~DataLossOk(f))
    <3>1. Leads(g, x) BY <1>8, <2>2
    <3> QED BY <1>4, <1>5, <3>1, LeadsOn DEF x
  <2> QED BY <2>1, <2>2
<1>9. CASE f.state \in {"write_run", "write_sector_data"}
  <2>1. g.count >= 1 /\ g.count \in Int
    BY <1>2, <1>4, <1>5, <1>9, Sizes DEF SectorWritten, TrackFormatted, Base, Counters
  <2>2. /\ Base(c) /\ Changes(g, c, {"count", "irqs"})
        /\ IF g.count > 1 THEN c.count = g.count - 1 /\ c.irqs = g.irqs ELSE c.count = 0 /\ c.irqs = FALSE
    BY <1>4, <2>1, DecrementCounterKeeps
  <2> HIDE DEF c
  <2>3. /\ c.state = f.state /\ c.call = f.call /\ c.command = f.command /\ c.wanted = f.wanted /\ c.asked = g.asked
        /\ c.onIndex = f.onIndex /\ c.routine = f.routine /\ c.level = c.nmi
    BY <1>4, <1>5, <2>2 DEF Changes, Fields
  <2>4. GateOpen(c) BY <1>6, <2>2 DEF GateOpen, Placed, Direct, Working, Resting, Changes, Fields
  <2>5. Told(g, c) BY <2>2 DEF Told, Changes, Fields
  <2>6. CASE g.count > 1
    <3>1. x = c /\ c.count = f.count - 1 /\ c.count >= 1 /\ c.irqs = f.irqs BY <1>1, <1>5, <1>8, <1>9, <2>1, <2>2, <2>6
    <3>2. CASE f.command = "write"
      <4>1. SectorWritten(f) BY <1>2, <3>2 DEF TrackFormatted
      <4>2. SectorWritten(c)
        <5>1. CASE f.state = "write_run" BY <2>3, <3>1, <4>1, <5>1 DEF SectorWritten
        <5>2. CASE f.state = "write_sector_data"
          <6>1. f.irqs /\ f.count \in 1..(SectorBytes - 1) /\ f.asked = SectorBytes - f.count
            BY <4>1, <5>2 DEF SectorWritten
          <6>2. c.count \in 1..(SectorBytes - 1) /\ c.asked = SectorBytes - c.count
            BY <1>4, <2>3, <3>1, <6>1, Sizes
          <6> QED BY <2>3, <3>1, <4>1, <5>2, <6>1, <6>2 DEF SectorWritten
        <5> QED BY <1>9, <5>1, <5>2
      <4> QED BY <1>4, <1>6, <1>7, <2>2, <2>3, <3>1, <4>2, <1>5, ByteWrittenLeads DEF Changes, x
    <3>3. CASE f.command # "write"
      <4>1. TrackFormatted(f) BY <1>2, <3>3 DEF SectorWritten
      <4>2. f.state = "write_run" BY <1>9, <4>1 DEF TrackFormatted
      <4>3. TrackFormatted(c) BY <2>3, <3>1, <4>1, <4>2 DEF TrackFormatted
      <4> QED BY <1>4, <1>6, <1>7, <2>2, <2>3, <3>1, <4>3, <1>5, ByteWrittenLeads DEF Changes, x
    <3> QED BY <3>2, <3>3
  <2>7. CASE ~(g.count > 1)
    <3>1. c.count = 0 /\ c.irqs = FALSE /\ f.count = 1 BY <1>5, <2>1, <2>2, <2>7
    <3>2. CASE f.state = "write_run"
      <4>1. x = RunWritten(c) BY <1>1, <1>5, <1>8, <3>1, <3>2
      <4>2. \/ c.command = "write" /\ c.call = "write" /\ c.onIndex \in {"none", "timeout"}
            \/ /\ c.command = "format" /\ c.onIndex = "none"
               /\ \/ c.call \in {"format_FFs", "format_00s"} /\ c.routine = 4
                  \/ c.call \in {"format_GAP2_FFs", "format_GAP2_00s"} /\ c.routine = 10
                  \/ c.call = "format_data" /\ c.routine = 11
        BY <1>2, <2>3, <3>2 DEF SectorWritten, TrackFormatted
      <4>3. Leads(c, x) BY <2>2, <2>3, <2>4, <3>1, <4>1, <4>2, RunWrittenLeads
      <4>4. c.command = g.command /\ c.wanted = g.wanted BY <1>5, <2>3
      <4> QED BY <2>5, <4>3, <4>4, LeadsOn
    <3>3. CASE f.state = "write_sector_data"
      <4>1. x = SetState(last, "dynamic_dispatch") BY <1>1, <1>5, <1>8, <3>1, <3>3
      <4>2. Changes(c, last, {"routine"}) /\ last.routine = 0 BY <2>2 DEF Base, Changes, Fields
      <4> HIDE DEF last
      <4>3. Base(last) BY <2>2, <4>2, BaseKept DEF FreeFields
      <4>4. Base(x) /\ Changes(last, x, {"state", "crcBytes"}) /\ x.state = "dynamic_dispatch"
        BY <4>1, <4>3, SetStateKeeps
      <4>5. SectorWritten(f) /\ f.irqs /\ f.asked = SectorBytes - 1
        BY <1>2, <3>1, <3>3, Sizes DEF SectorWritten, TrackFormatted
      <4>6. /\ Changes(g, x, {"state", "crcBytes", "count", "irqs", "routine"}) /\ x.routine = 0 /\ x.irqs = FALSE
            /\ x.asked = SectorBytes /\ x.command = f.command /\ x.call = f.call /\ x.onIndex = f.onIndex
        <5>1. Changes(g, x, {"state", "crcBytes", "count", "irqs", "routine"}) BY <2>2, <4>2, <4>4 DEF Changes
        <5>2. /\ x.routine = 0 /\ x.irqs = FALSE /\ x.asked = c.asked /\ x.command = f.command /\ x.call = f.call
              /\ x.onIndex = f.onIndex
          BY <2>3, <3>1, <4>2, <4>4 DEF Changes, Fields
        <5> QED BY <1>4, <2>3, <4>5, <5>1, <5>2, Sizes
      <4>7. SectorWritten(x) BY <4>4, <4>5, <4>6 DEF SectorWritten
      <4> QED BY <1>4, <1>6, <4>4, <4>6, <4>7, ByteWrittenLeads DEF Changes
    <3> QED BY <1>9, <3>2, <3>3
  <2> QED BY <2>6, <2>7
<1>10. CASE f.state = "write_data_mark"
  <2>1. SectorWritten(f) /\ f.irqs /\ f.asked = 0 BY <1>2, <1>10 DEF SectorWritten, TrackFormatted
  <2>2. x = SetState(mark, "write_sector_data") BY <1>1, <1>5, <1>8, <1>10
  <2>3. Changes(g, mark, {"count"}) /\ mark.count = SectorBytes - 1 BY <1>4 DEF Base, Changes, Fields
  <2> HIDE DEF mark
  <2>4. Counters(mark) BY <1>4, <2>3, Sizes DEF Base, Counters, Changes, Fields
  <2>5. Base(mark) BY <1>4, <2>3, <2>4, BaseKept DEF CounterFields
  <2>6. Base(x) /\ Changes(mark, x, {"state", "crcBytes"}) /\ x.state = "write_sector_data" BY <2>2, <2>5, SetStateKeeps
  <2>7. /\ Changes(g, x, {"state", "crcBytes", "count"}) /\ x.routine = g.routine /\ x.irqs = f.irqs
        /\ x.asked = g.asked /\ x.command = f.command /\ x.call = f.call /\ x.onIndex = f.onIndex
        /\ x.count = SectorBytes - 1
    <3>1. Changes(g, x, {"state", "crcBytes", "count"}) BY ONLY <2>3, <2>6 DEF Changes
    <3>2. /\ x.routine = g.routine /\ x.irqs = g.irqs /\ x.asked = g.asked /\ x.command = g.command
          /\ x.call = g.call /\ x.onIndex = g.onIndex
      BY ONLY <3>1 DEF Changes, Fields
    <3>3. x.count = mark.count BY ONLY <2>6 DEF Changes, Fields
    <3> QED BY <1>5, <2>3, <3>1, <3>2, <3>3
  <2>8. x.asked = 1 /\ SectorBytes - 1 \in 1..(SectorBytes - 1) /\ SectorBytes - (SectorBytes - 1) = 1
    BY <1>4, <2>1, <2>7, Sizes
  <2>9. SectorWritten(x) BY <2>1, <2>6, <2>7, <2>8 DEF SectorWritten
  <2> QED BY <1>4, <1>6, <1>7, <2>6, <2>7, <2>9, ByteWrittenLeads DEF Changes
<1>11. ASSUME NEW s, x = SetState(g, s),
              \/ f.state = "write_crc_2" /\ s = "write_crc_3"
              \/ f.state = "format_id_crc_2" /\ s = "format_id_crc_3"
              \/ f.state = "format_data_crc_2" /\ s = "format_data_crc_3"
              \/ /\ s = "dynamic_dispatch"
                 /\ f.state \in {"write_crc_3", "format_write_id_marker", "format_id_crc_3",
                                 "format_write_data_marker", "format_data_crc_3"}
       PROVE  Leads(g, x)
  <2>1. Base(x) /\ Changes(g, x, {"state", "crcBytes"}) /\ x.state = s BY <1>4, <1>11, SetStateKeeps
  <2>2. /\ x.command = f.command /\ x.call = f.call /\ x.onIndex = f.onIndex /\ x.irqs = f.irqs
        /\ x.asked = g.asked /\ x.routine = f.routine
    BY <1>5, <2>1 DEF Changes, Fields
  <2>3. SectorWritten(x) \/ TrackFormatted(x)
    <3>1. CASE SectorWritten(f) BY <1>4, <1>11, <2>1, <2>2, <3>1 DEF SectorWritten
    <3>2. CASE TrackFormatted(f)
      <4>1. s # "format_gap_4" /\ f.state # "format_gap_4" BY <1>11
      <4>2. f.command = "format" /\ f.onIndex = "none" BY <3>2, <4>1 DEF TrackFormatted
      <4>3. CASE f.state = "format_write_id_marker"
        <5>1. f.irqs /\ f.asked = 0 /\ f.routine = 4 /\ s = "dynamic_dispatch" BY <1>11, <3>2, <4>3 DEF TrackFormatted
        <5>2. x.asked = x.routine - 3 /\ x.routine \in 4..6 BY <1>4, <2>2, <5>1
        <5> QED BY <2>1, <2>2, <4>2, <5>1, <5>2 DEF TrackFormatted
      <4>4. CASE f.state = "format_id_crc_2" BY <1>11, <2>1, <2>2, <3>2, <4>2, <4>4 DEF TrackFormatted
      <4>5. CASE f.state = "format_data_crc_2" BY <1>11, <2>1, <2>2, <3>2, <4>2, <4>5 DEF TrackFormatted
      <4>6. CASE f.state \in {"format_id_crc_3", "format_write_data_marker", "format_data_crc_3"}
        <5>1. s = "dynamic_dispatch" /\ f.routine \in 9..11 /\ ~f.irqs BY <1>11, <3>2, <4>6 DEF TrackFormatted
        <5> QED BY <2>1, <2>2, <4>2, <5>1 DEF TrackFormatted
      <4>7. f.state \notin {"write_crc_2", "write_crc_3"} BY <3>2 DEF TrackFormatted
      <4> QED BY <1>11, <4>3, <4>4, <4>5, <4>6, <4>7
    <3> QED BY <1>2, <3>1, <3>2
  <2> QED BY <1>4, <1>5, <1>6, <1>7, <2>1, <2>2, <2>3, ByteWrittenLeads DEF Changes
<1>12. CASE f.state = "dynamic_dispatch"
  <2>1. x = DynamicDispatch(g) BY <1>1, <1>5, <1>8, <1>12
  <2>2. \/ /\ g.command = "write" /\ g.call = "write" /\ g.onIndex \in {"none", "timeout"} /\ ~g.irqs
           /\ g.routine \in 0..2 /\ g.asked = SectorBytes
        \/ /\ g.command = "format" /\ g.onIndex = "none"
           /\ \/ g.routine \in 4..6 /\ g.irqs /\ g.asked = g.routine - 2
              \/ g.routine \in 7..8 /\ ~g.irqs /\ g.asked = HeaderBytes
              \/ g.routine \in 9..11 /\ ~g.irqs
    <3>1. CASE SectorWritten(f) BY <1>4, <1>5, <1>12, <3>1 DEF SectorWritten
    <3>2. CASE TrackFormatted(f)
      <4>1. f.command = "format" /\ f.onIndex = "none" BY <1>12, <3>2 DEF TrackFormatted
      <4>2. \/ f.routine \in 4..6 /\ f.irqs /\ f.asked = f.routine - 3
            \/ f.routine \in 7..8 /\ ~f.irqs /\ f.asked = HeaderBytes
            \/ f.routine \in 9..11 /\ ~f.irqs
        BY <1>12, <3>2 DEF TrackFormatted
      <4> QED BY <1>4, <1>5, <4>1, <4>2
    <3> QED BY <1>2, <3>1, <3>2
  <2> QED BY <1>4, <1>5, <1>6, <1>12, <2>1, <2>2, DynamicDispatchLeads
<1>13. CASE f.state = "format_gap_4"
  <2>1. x = g BY <1>1, <1>5, <1>8, <1>13
  <2>2. TrackFormatted(f) BY <1>2, <1>13 DEF SectorWritten
  <2>3. TrackFormatted(g) BY <1>5, <1>13, <2>2 DEF TrackFormatted
  <2> QED BY <1>4, <1>6, <1>7, <2>1, <2>3, ByteWrittenLeads DEF Changes
<1>14. f.state \in WriteStates BY <1>2 DEF SectorWritten, TrackFormatted, WriteStates
<1> QED BY <1>1, <1>5, <1>8, <1>9, <1>10, <1>11, <1>12, <1>13, <1>14 DEF WriteStates

\* The bits under the head are read or written (intel_fdc_pulses_callback).
Moved(g) == IF g.state = "idle" THEN {g} ELSE IF g.state \in ReadStates THEN Reading(g) ELSE {Writing(g)}

\* Whatever comes of them is what the invariant allows.
LEMMA MovedLeads ==
  ASSUME NEW g, Sound(g), program \in Programs, NEW h \in Moved(g)
  PROVE  Sound(h) /\ (IF g.state = "idle" THEN h = g ELSE Leads(g, h))
<1>1. CASE g.state = "idle" BY <1>1 DEF Moved
<1>2. CASE g.state \in ReadStates
  <2>1. h \in Reading(g) /\ g.state # "idle" BY <1>2 DEF Moved, ReadStates, WholeByteStates
  <2>2. Leads(g, h) BY <1>2, <2>1, ReadingLeads
  <2> QED BY <2>1, <2>2 DEF Leads
<1>3. CASE g.state \notin {"idle"} \cup ReadStates
  <2>1. h = Writing(g) /\ g.state # "idle" BY <1>3 DEF Moved
  <2>2. WritingDisc(g) BY <1>3, StateSays
  <2>3. Leads(g, h) BY <2>1, <2>2, WritingLeads
  <2> QED BY <2>1, <2>3 DEF Leads
<1> QED BY <1>1, <1>2, <1>3

\* A byte under the head of the drive that turns, first the index pulse and then
\* its bits (intel_fdc_pulses_callback, from the drive's timer).
LEMMA ByteFollowed ==
  ASSUME SoundNow, Byte
  PROVE  Followed
<1>1. PICK pulse \in IndexLevels : PulsesCallback(pulse) BY DEF Byte
<1>2. pulse \in BOOLEAN BY DEF IndexLevels
<1> DEFINE b == Begun(fdc)
           f == [b EXCEPT !.wasIndex = pulse]
           g == IF pulse /\ ~fdc.wasIndex THEN IndexPulse(f) ELSE f
<1>3. Sound(fdc) /\ program \in Programs BY DEF SoundNow
<1>4. Base(fdc) /\ fdc.level = fdc.nmi BY <1>3, SoundSays
<1>5. fdc.select # None BY <1>1, <1>4, Sizes DEF PulsesCallback, Base, Port
<1>6. PICK m \in Moved(g) : \E h \in AfterCallback(m, fdc.ticking /\ ~m.ticking) : Become(h)
  BY <1>1, <1>5 DEF PulsesCallback, Moved
<1>7. PICK h \in AfterCallback(m, fdc.ticking /\ ~m.ticking) : Become(h) BY <1>6
<1>8. Base(b) /\ Changes(fdc, b, {"edge"}) /\ b.edge = FALSE BY <1>4, BegunKeeps
<1> HIDE DEF g, b
<1>9. Changes(b, f, {"wasIndex"}) /\ f.wasIndex = pulse BY <1>8 DEF Base, Changes, Fields
<1> HIDE DEF f
<1>10. Flags(f) BY <1>2, <1>8, <1>9, FlagsKept DEF FlagFields
<1>11. Base(f) BY <1>8, <1>9, <1>10, BaseKept DEF FlagFields
<1>12. Changes(fdc, f, PassiveFields) /\ f.level = f.nmi /\ f.level = fdc.level /\ ~f.edge /\ f.busy = fdc.busy
  BY <1>4, <1>8, <1>9 DEF Changes, Fields, PassiveFields
<1>13. Sound(f) BY <1>3, <1>11, <1>12, PassiveLeads
<1>14. Sound(IndexPulse(f)) /\ (f.busy => Leads(f, IndexPulse(f)))
       /\ LET i == IndexPulse(f) IN i.state = "idle" \/ (i.command = f.command /\ i.wanted = f.wanted)
  BY <1>3, <1>13, IndexPulseLeads
<1>15. f.busy => Leads(f, f) BY <1>13, StayingLeads
<1>16. /\ Sound(g) /\ (f.busy => Leads(f, g))
       /\ g.state = "idle" \/ (g.command = f.command /\ g.wanted = f.wanted)
  BY <1>13, <1>14, <1>15 DEF g
<1>17. Sound(m) /\ (IF g.state = "idle" THEN m = g ELSE Leads(g, m)) BY <1>3, <1>7, <1>16, MovedLeads
<1>18. Sound(h) BY <1>7, <1>17, AfterCallbackKeeps
<1>19. fdc.busy => Leads(b, h)
  <2> SUFFICES ASSUME fdc.busy PROVE Leads(b, h) OBVIOUS
  <2>1. Told(b, f) /\ f.command = b.command /\ f.wanted = b.wanted BY <1>9 DEF Told, Changes, Fields
  <2>2. Leads(f, g) BY <1>12, <1>16
  <2>3. Leads(f, m)
    <3>1. CASE g.state = "idle" BY <1>17, <2>2, <3>1
    <3>2. CASE g.state # "idle"
      <4>1. Told(f, g) BY <2>2 DEF Leads
      <4> QED BY <1>16, <1>17, <3>2, <4>1, LeadsOn
    <3> QED BY <3>1, <3>2
  <2>4. Leads(b, m) BY <2>1, <2>3, LeadsOn
  <2> QED BY <1>7, <2>4, AfterCallbackLeads
<1>20. fdc' = h /\ program' = program BY <1>7 DEF Become
<1> QED BY <1>3, <1>18, <1>19, <1>20 DEF Followed, SoundNow, b

-----------------------------------------------------------------------------
(* The specification.                                                        *)

\* Every step is followed, and the program that has failed an assertion stays as it is.
LEMMA NextFollowed ==
  ASSUME SoundNow, Next
  PROVE  Followed \/ UNCHANGED vars
<1>1. CASE IssueCommand
  <2>1. PICK c \in program.commands, d \in program.drives : WriteCommand(c, d) BY <1>1 DEF IssueCommand
  <2>2. c \in AllCommands /\ d \in Drives \cup {None} BY IntelAssumption DEF IntelAssumption, SoundNow
  <2> QED BY <2>1, <2>2, WriteCommandFollowed
<1>2. CASE WriteParameter BY <1>2, WriteParameterFollowed
<1>3. CASE ReadResult BY <1>3, ReadResultFollowed
<1>4. CASE AccessData BY <1>4, AccessDataFollowed
<1>5. CASE Reset BY <1>5, ResetFollowed
<1>6. CASE PowerOnReset BY <1>6, PowerOnResetFollowed
<1>7. CASE ChangeDisc BY <1>7, ChangeDiscFollowed
<1>8. CASE TimerFired BY <1>8, TimerFiredFollowed
<1>9. CASE Byte BY <1>9, ByteFollowed
<1>10. CASE Aborted BY <1>10 DEF Aborted
<1> QED BY <1>1, <1>2, <1>3, <1>4, <1>5, <1>6, <1>7, <1>8, <1>9, <1>10 DEF Next

\* The chip as it is created.
LEMMA InitIsSound == Init => SoundNow
<1> SUFFICES ASSUME Init PROVE SoundNow OBVIOUS
<1>1. program \in Programs BY DEF Init
<1>2. PICK media \in Inserted :
        fdc = [busy |-> FALSE, nmi |-> FALSE, need |-> FALSE, irqs |-> FALSE,
              noDma |-> FALSE, level |-> FALSE, edge |-> FALSE,
              result |-> {}, resultReady |-> FALSE,
              select |-> None, load |-> FALSE, gate |-> FALSE, held |-> FALSE,
              inwards |-> FALSE,
              spinning |-> [d \in Drives |-> FALSE],
              head |-> [d \in Drives |-> 0], media |-> media,
              accepts |-> "none", retries |-> 0, onIndex |-> "none",
              indexCount |-> 0, wasIndex |-> FALSE,
              timer |-> "none", ticking |-> FALSE, call |-> "none",
              didStep |-> FALSE, state |-> "idle", count |-> 0, left |-> 0,
              crcBytes |-> 0, routine |-> 0, asked |-> 0,
              command |-> "none", wanted |-> None, track |-> 0, sectors |-> 0,
              second |-> 0, target |-> 0, steps |-> 0,
              trackReg |-> [d \in Drives |-> 0], badTrack |-> 0,
              ready |-> [d \in Drives |-> FALSE], protected |-> FALSE,
              specified |-> FALSE, failed |-> "no"]
  BY DEF Init
<1>3. media \in [Drives -> Media] BY DEF Inserted
<1>4. DOMAIN fdc = Fields BY <1>2 DEF Fields
<1>5. Flags(fdc)
  <2>1. /\ fdc.busy = FALSE /\ fdc.nmi = FALSE /\ fdc.need = FALSE /\ fdc.irqs = FALSE /\ fdc.noDma = FALSE
        /\ fdc.level = FALSE /\ fdc.edge = FALSE
    BY <1>2
  <2>2. /\ fdc.resultReady = FALSE /\ fdc.wasIndex = FALSE /\ fdc.ticking = FALSE /\ fdc.didStep = FALSE
        /\ fdc.protected = FALSE /\ fdc.specified = FALSE
    BY <1>2
  <2> QED BY ONLY <2>1, <2>2 DEF Flags, FlagFields
<1>6. Places(fdc) BY <1>2, Sizes DEF Places
<1>7. Port(fdc) BY <1>2, Sizes DEF Port
<1>8. Counters(fdc) BY <1>2, Sizes DEF Counters
<1>9. Others(fdc) BY <1>2, <1>3 DEF Others
<1>10. Idle(fdc) BY <1>2 DEF Idle, Resting, Shut
<1>11. fdc.level = fdc.nmi BY <1>2
<1> QED BY <1>1, <1>4, <1>5, <1>6, <1>7, <1>8, <1>9, <1>10, <1>11 DEF SoundNow, Sound, Base, Phase

\* A step that leaves the variables as they are.
LEMMA StutterIsSound == ASSUME SoundNow, UNCHANGED vars PROVE SoundNow'
BY DEF SoundNow, vars, Sound

\* A head in place is on a disc that turns, or where it happens to be.
LEMMA PlacedTurns ==
  ASSUME NEW f, Base(f), Placed(f)
  PROVE  f.busy /\ f.accepts = "none" /\ Resting(f) /\ (Direct(f) \/ \E d \in Drives : f.spinning[d])
BY DEF Base, Port, Placed, Direct, Working

\* What the invariant says of a command's own registers.
LEMMA RegistersInRange ==
  ASSUME SoundNow
  PROVE  /\ fdc.accepts \in {"none", "command", "specify"} /\ fdc.retries \in 0..5
         /\ fdc.timer \in {"none", "seek_step", "post_seek"}
         /\ fdc.state \in {"idle"} \cup ReadStates \cup WriteStates
         /\ fdc.sectors \in 0..31 /\ fdc.routine \in 0..12
<1>1. Sound(fdc) BY DEF SoundNow
<1>2. fdc.state \in {"idle"} \cup ReadStates \cup WriteStates BY <1>1, StateSays
<1>3. CASE Idle(fdc) BY <1>2, <1>3 DEF Idle, Resting
<1>4. CASE Asking(fdc) BY <1>2, <1>4 DEF Asking, Resting
<1>5. ASSUME Working(fdc), Resting(fdc) \/ fdc.timer \in {"seek_step", "post_seek"}
      PROVE  /\ fdc.accepts \in {"none", "command", "specify"} /\ fdc.retries \in 0..5
             /\ fdc.timer \in {"none", "seek_step", "post_seek"}
             /\ fdc.sectors \in 0..31 /\ fdc.routine \in 0..12
  BY <1>5 DEF Working, Resting
<1>6. CASE Seeking(fdc) BY <1>2, <1>5, <1>6 DEF Seeking
<1>7. CASE AwaitingIndex(fdc) BY <1>2, <1>5, <1>7 DEF AwaitingIndex, Placed, Direct
<1>8. CASE Searching(fdc) BY <1>2, <1>5, <1>8 DEF Searching, OnTrack, Placed, Direct
<1>9. CASE WritingDisc(fdc) BY <1>2, <1>5, <1>9 DEF WritingDisc, GateOpen, Placed, Direct
<1> QED BY <1>1, <1>3, <1>4, <1>6, <1>7, <1>8, <1>9 DEF Sound, Phase

\* Its registers are in their ranges, and no assertion has failed but two.
LEMMA SoundIsTyped == SoundNow => TypeOK
<1> SUFFICES ASSUME SoundNow PROVE TypeOK OBVIOUS
<1>1. Base(fdc) BY DEF SoundNow, Sound
<1>2. {fdc.busy, fdc.nmi, fdc.need, fdc.irqs, fdc.noDma, fdc.level, fdc.edge,
       fdc.resultReady, fdc.load, fdc.gate, fdc.held, fdc.inwards, fdc.wasIndex, fdc.ticking,
       fdc.didStep, fdc.protected, fdc.specified} \subseteq BOOLEAN
  <2>1. /\ fdc.busy \in BOOLEAN /\ fdc.nmi \in BOOLEAN /\ fdc.need \in BOOLEAN /\ fdc.irqs \in BOOLEAN
        /\ fdc.noDma \in BOOLEAN /\ fdc.level \in BOOLEAN /\ fdc.edge \in BOOLEAN
    BY <1>1 DEF Base, Flags, FlagFields
  <2>2. /\ fdc.resultReady \in BOOLEAN /\ fdc.wasIndex \in BOOLEAN /\ fdc.ticking \in BOOLEAN
        /\ fdc.didStep \in BOOLEAN /\ fdc.protected \in BOOLEAN
        /\ fdc.specified \in BOOLEAN
    BY <1>1 DEF Base, Flags, FlagFields
  <2>3. fdc.load \in BOOLEAN /\ fdc.gate \in BOOLEAN /\ fdc.held \in BOOLEAN /\ fdc.inwards \in BOOLEAN
    BY <1>1 DEF Base, Port
  <2> QED BY ONLY <2>1, <2>2, <2>3
<1>3. fdc.result \subseteq Results /\ fdc.ready \in [Drives -> BOOLEAN] /\ fdc.failed \in {"no"} \cup Failures
  BY <1>1 DEF Base, Others
<1>4. {fdc.select, fdc.wanted} \subseteq Drives \cup {None} /\ fdc.spinning \in [Drives -> BOOLEAN]
  BY <1>1 DEF Base, Port, Places
<1>5. /\ fdc.head \in [Drives -> 0..MaxTrack] /\ fdc.trackReg \in [Drives -> Registers]
      /\ {fdc.track, fdc.second, fdc.target, fdc.steps, fdc.badTrack} \subseteq Registers
  BY <1>1 DEF Base, Places
<1>6. fdc.asked \in 0..(SectorBytes + HeaderBytes) BY <1>1 DEF Base, Counters
<1> QED BY <1>2, <1>3, <1>4, <1>5, <1>6, RegistersInRange DEF TypeOK

\* A busy chip waits for something that will come, and the write gate is guarded.
LEMMA SoundIsInStep ==
  SoundNow => NmiIsCurrent /\ SpinsOnlyLoaded /\ BusyMakesProgress /\ GateIsGuarded
<1> SUFFICES ASSUME SoundNow PROVE NmiIsCurrent /\ SpinsOnlyLoaded /\ BusyMakesProgress /\ GateIsGuarded OBVIOUS
<1>1. Sound(fdc) /\ Base(fdc) BY DEF SoundNow, Sound
<1>2. NmiIsCurrent BY <1>1 DEF Sound, NmiIsCurrent
<1>3. SpinsOnlyLoaded BY <1>1 DEF Base, Port, SpinsOnlyLoaded
<1>4. ASSUME Idle(fdc) \/ Asking(fdc) \/ Seeking(fdc) PROVE BusyMakesProgress /\ GateIsGuarded
  BY <1>4 DEF Idle, Asking, Seeking, Working, Resting, Shut, BusyMakesProgress, GateIsGuarded
<1>5. ASSUME AwaitingIndex(fdc) PROVE BusyMakesProgress /\ GateIsGuarded
  <2>1. Placed(fdc) /\ Shut(fdc) /\ fdc.onIndex \in {"start_read_id", "start_format"} BY <1>5 DEF AwaitingIndex
  <2>2. fdc.busy /\ Resting(fdc) /\ (Direct(fdc) \/ \E d \in Drives : fdc.spinning[d]) BY <1>1, <2>1, PlacedTurns
  <2> QED BY <2>1, <2>2 DEF Resting, Shut, BusyMakesProgress, GateIsGuarded
<1>6. ASSUME Searching(fdc) PROVE BusyMakesProgress /\ GateIsGuarded
  <2>1. Placed(fdc) /\ Shut(fdc) /\ fdc.state # "idle" BY <1>6 DEF Searching, OnTrack, Searched
  <2>2. fdc.busy /\ Resting(fdc) /\ (Direct(fdc) \/ \E d \in Drives : fdc.spinning[d]) BY <1>1, <2>1, PlacedTurns
  <2> QED BY <2>1, <2>2 DEF Resting, Shut, BusyMakesProgress, GateIsGuarded
<1>7. ASSUME WritingDisc(fdc) PROVE BusyMakesProgress /\ GateIsGuarded
  <2>1. /\ Placed(fdc) /\ ~fdc.protected /\ fdc.state # "idle" /\ fdc.state \in WriteStates
        /\ fdc.command \in {"write", "format"}
    BY <1>7 DEF WritingDisc, GateOpen, SectorWritten, TrackFormatted, WriteStates
  <2>2. fdc.busy /\ Resting(fdc) /\ (Direct(fdc) \/ \E d \in Drives : fdc.spinning[d]) BY <1>1, <2>1, PlacedTurns
  <2> QED BY <2>1, <2>2 DEF Resting, Shut, BusyMakesProgress, GateIsGuarded
<1> QED BY <1>1, <1>2, <1>3, <1>4, <1>5, <1>6, <1>7 DEF Sound, Phase

\* Each byte is asked for once.
LEMMA SoundIsAsked == SoundNow => AsksForEachByte
<1> SUFFICES ASSUME SoundNow PROVE AsksForEachByte OBVIOUS
<1>1. Sound(fdc) BY DEF SoundNow
<1>2. fdc.state = "in_data_crc" \/ (fdc.state = "in_id_crc" /\ fdc.command = "read_id") => Searching(fdc)
  <2>1. fdc.state \in {"in_data_crc", "in_id_crc"} => fdc.state \in ReadStates BY DEF ReadStates, WholeByteStates
  <2>2. Routine("read_id") \notin {"read", "write"} BY DEF Routine
  <2> QED BY <1>1, <2>1, <2>2, StateSays DEF Seeking, Aside
<1>3. fdc.state \in {"write_crc_2", "format_id_crc_2"} => WritingDisc(fdc)
  <2>1. fdc.state \in {"write_crc_2", "format_id_crc_2"} => fdc.state \notin {"idle"} \cup ReadStates
    BY DEF ReadStates, WholeByteStates
  <2> QED BY <1>1, <2>1, StateSays
<1>4. CASE fdc.state = "in_data_crc" BY <1>2, <1>4, Sizes DEF Searching, Searched, Quiet, AsksForEachByte
<1>5. CASE fdc.state = "in_id_crc" BY <1>2, <1>5 DEF Searching, Searched, AsksForEachByte
<1>6. CASE fdc.state = "write_crc_2" BY <1>3, <1>6 DEF WritingDisc, SectorWritten, TrackFormatted, AsksForEachByte
<1>7. CASE fdc.state = "format_id_crc_2"
  BY <1>3, <1>7 DEF WritingDisc, SectorWritten, TrackFormatted, AsksForEachByte
<1> QED BY <1>4, <1>5, <1>6, <1>7 DEF AsksForEachByte

\* The end of a command is told with an edge, and what is told of a seek holds.
LEMMA EndIsTold ==
  ASSUME SoundNow, Next, fdc.busy, ~fdc'.busy, fdc'.nmi
  PROVE  /\ fdc'.edge \/ (fdc.level /\ "late_dma" \notin fdc'.result)
         /\ fdc.command = "seek" /\ fdc'.result = {} /\ fdc'.trackReg[fdc.wanted] = 0
              => fdc'.head[fdc.wanted] = 0
<1> DEFINE b == Begun(fdc)
<1>1. Sound(fdc) /\ Base(fdc) BY DEF SoundNow, Sound
<1>2. Changes(fdc, b, {"edge"}) /\ b.edge = FALSE BY <1>1, BegunKeeps
<1>3. Leads(b, fdc') BY NextFollowed DEF Followed, vars
<1> HIDE DEF b
<1>4. /\ b.level = fdc.level /\ b.result = fdc.result /\ b.command = fdc.command /\ b.wanted = fdc.wanted
  BY <1>2 DEF Changes, Fields
<1>5. fdc'.level = fdc'.nmi BY <1>3 DEF Leads, Sound
<1>6. "late_dma" \notin fdc.result BY <1>1, SoundSays
<1>7. fdc'.edge \/ (fdc.level /\ "late_dma" \notin fdc'.result) BY <1>3, <1>4, <1>5, <1>6 DEF Leads, Told
<1> QED BY <1>3, <1>4, <1>7 DEF Leads, Found

\* Everything the other theorems rest on: whatever the 6502 writes and reads and
\* whenever the timer, the discs and the resets come, the chip is in one of six
\* phases, with what holds in each (intel_fdc.c).
THEOREM ChipStaysSound == Spec => []SoundNow
<1>1. SoundNow /\ [Next]_vars => SoundNow'
  <2>1. SoundNow /\ Next => SoundNow' BY NextFollowed, StutterIsSound DEF Followed
  <2> QED BY <2>1, StutterIsSound
<1> QED BY InitIsSound, <1>1, PTL DEF Spec

\* The line, the write gate and the drives stay in step with the chip, and a busy chip
\* waits for something that will come: also when the 6502 writes to the drive port, and
\* for a read id that goes on where the head is.  Of the assertions of intel_fdc.c,
\* disc_drive.c and timing.c none fails but two: that of an abort with the write gate
\* left open and no drive, and that of the walk of the expiry list.
THEOREM ChipStaysCoherent == Spec => []Coherent
<1>1. SoundNow => Coherent BY SoundIsTyped, SoundIsInStep DEF Coherent
<1> QED BY <1>1, ChipStaysSound, PTL

\* The 6502 is asked for each byte of a sector exactly once, and for each byte of
\* a header that is formatted or read ("This strange decrement is how the ROM
\* does it", intel_fdc.c).
THEOREM EachByteIsAskedFor == Spec => []AsksForEachByte
BY ChipStaysSound, SoundIsAsked, PTL

\* The 6502 learns of the end of every command by an edge of its line, even when
\* it was late for a byte, and a seek that ends at track zero has found it.
THEOREM ChipTellsEnds == Spec => EndsAreTold
<1>1. SoundNow /\ [Next]_vars =>
        [fdc.busy /\ ~fdc'.busy /\ fdc'.nmi => fdc'.edge \/ (fdc.level /\ "late_dma" \notin fdc'.result)]_vars
  BY EndIsTold DEF vars
<1>2. SoundNow /\ [Next]_vars =>
        [fdc.busy /\ ~fdc'.busy /\ fdc'.nmi
         /\ fdc.command = "seek" /\ fdc'.result = {} /\ fdc'.trackReg[fdc.wanted] = 0
           => fdc'.head[fdc.wanted] = 0]_vars
  BY EndIsTold DEF vars
<1> QED BY <1>1, <1>2, ChipStaysSound, PTL DEF Spec, EndsAreTold, CompletionInterrupts, SeekFindsTrackZero
=============================================================================
