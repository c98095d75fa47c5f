---------------------------------- MODULE Bus ----------------------------------
(***************************************************************************)
(* Accesses of the 6502 to the hardware registers, 0xFC00 to 0xFEFF: which   *)
(* device answers and on which tick of the access, by the callbacks of       *)
(* src/bbc.c and by the code that the JIT emits in their place.              *)
(***************************************************************************)
EXTENDS Integers, Sequences, TLC

(* A machine m is a Master or not, with a WD1770 or an Intel 8271, and with  *)
(* the test registers in the place of the tube or not.                       *)
Machines == { m \in [master : BOOLEAN, wd : BOOLEAN, test : BOOLEAN] : m.master => m.wd }
Registers == \hFC00 .. \hFEFF

Is1MHz(m, addr) ==
  \/ addr \in \hFC00 .. \hFDFF
  \/ addr \in \hFE00 .. \hFEFF
     /\ IF m.master
        THEN addr \notin (\hFEA1 .. \hFEFF) \cup (\hFE20 .. \hFE27) \cup (\hFE2C .. \hFE3F)
        ELSE (addr \div 32) % 8 \in {0, 2, 3, 6}

-----------------------------------------------------------------------------
(* The device and its register. "open" is nothing there, "master" and "b"    *)
(* are the two machines' ideas of the same address.                          *)
None == <<"none", 0>>
Shared(m, addr) ==
  CASE addr \in \hFE00 .. \hFE07 -> <<"crtc", addr % 2>>
    [] addr \in \hFE08 .. \hFE0F -> <<"acia", addr % 2>>
    [] addr \in \hFE10 .. \hFE17 -> <<"serial_ula", 0>>
    [] addr \in \hFE18 .. \hFE1B -> IF m.master THEN <<"adc", addr % 4>> ELSE None
    [] addr \in \hFE40 .. \hFE5F -> <<"sysvia", addr % 16>>
    [] addr \in \hFE60 .. \hFE7F -> <<"uservia", addr % 16>>
    [] addr \in \hFE80 .. \hFE9F -> IF m.master THEN None ELSE <<IF m.wd THEN "wd" ELSE "intel", addr % 8>>
    [] addr \in \hFEC0 .. \hFEDF -> IF m.master THEN None ELSE <<"adc", addr % 4>>
    [] addr \in \hFEE0 .. \hFEFF -> IF m.test THEN <<"test", addr - \hFEE0>> ELSE None
    [] OTHER -> None
ReadDecode(m, addr) ==
  CASE addr \in \hFE24 .. \hFE2B /\ m.master -> IF (addr \div 4) % 2 = 1 THEN None ELSE <<"wd", (addr - 4) % 8>>
    [] addr \in \hFE30 .. \hFE33 /\ m.master -> <<"romsel", 0>>
    [] addr \in \hFE34 .. \hFE37 /\ m.master -> <<"acccon", 0>>
    [] addr \in \hFC00 .. \hFDFF -> <<"open", 0>>
    [] OTHER -> Shared(m, addr)
WriteDecode(m, addr) ==
  CASE addr \in \hFE20 .. \hFE23 -> <<"video_ula", addr % 4>>
    [] addr \in \hFE24 .. \hFE2B -> IF m.master THEN <<"wd", (addr - 4) % 8>> ELSE <<"video_ula", addr % 4>>
    [] addr \in \hFE2C .. \hFE2F -> IF m.master THEN None ELSE <<"video_ula", addr % 4>>
    [] addr \in \hFE30 .. \hFE33 -> <<"romsel", 0>>
    [] addr \in \hFE34 .. \hFE37 -> IF m.master THEN <<"acccon", 0>> ELSE <<"romsel", 0>>
    [] addr \in \hFE38 .. \hFE3F -> IF m.master THEN None ELSE <<"romsel", 0>>
    [] OTHER -> Shared(m, addr)

-----------------------------------------------------------------------------
(* What an access does, from its first tick, in order: it ticks, asks the    *)
(* 6502 whether to take an interrupt, and reaches the device. alignment is   *)
(* the parity of the tick at which it begins.                                *)
Tick(n) == [do |-> "tick", n |-> n]
Poll == [do |-> "poll", n |-> 0]
Reach == [do |-> "reach", n |-> 0]
OfVideoUla(m, addr) == addr \in \hFE20 .. (IF m.master THEN \hFE23 ELSE \hFE2F)
OfVia(addr) == addr \in \hFE40 .. \hFE7F
\* A mutant: the accesses of the VIAs too are ticked to their end.
PreTickAlways(m, addr, alignment) ==
  CASE ~Is1MHz(m, addr) -> <<Poll>> \o (IF OfVideoUla(m, addr) THEN <<>> ELSE <<Tick(1)>>)
    [] OTHER -> <<Tick(alignment + 1), Poll, Tick(1)>>
PreTick(m, addr, alignment) ==
  CASE ~Is1MHz(m, addr) -> <<Poll>> \o (IF OfVideoUla(m, addr) THEN <<>> ELSE <<Tick(1)>>)
    [] Is1MHz(m, addr) /\ OfVia(addr) -> <<>>
    [] OTHER -> <<Tick(alignment + 1), Poll, Tick(1)>>
AtDevice(m, addr, alignment) ==
  CASE OfVia(addr) -> <<Tick(alignment + 1), Poll, Reach, Tick(1)>>
    [] OfVideoUla(m, addr) -> <<Reach, Tick(1)>>
    [] OTHER -> <<Reach>>
Callback(m, addr, alignment) == PreTick(m, addr, alignment) \o AtDevice(m, addr, alignment)

RECURSIVE TickOf(_, _)
TickOf(steps, what) ==  \* the tick of its only step of that kind
  IF Head(steps).do = what THEN 0 ELSE Head(steps).n + TickOf(Tail(steps), what)
RECURSIVE Length(_)
Length(steps) == IF steps = <<>> THEN 0 ELSE Head(steps).n + Length(Tail(steps))
Count(steps, what) == Len(SelectSeq(steps, LAMBDA step : step.do = what))

-----------------------------------------------------------------------------
(* The JIT finds the device and its code, or a field of the device, through   *)
(* offsets into struct bbc_struct and the device's struct.                    *)
Object == (\h8 :> "sysvia") @@ (\h10 :> "uservia") @@ (\hA8 :> "adc") @@ (\hB8 :> "acia")
       @@ (\hC0 :> "intel") @@ (\hC8 :> "video") @@ (\hF0 :> "bbc")
ViaReads == <<0, 1, 4, 5, 8, 9, 15>>
ViaWrites == <<0, 1, 3, 4, 5, 8, 9, 11, 13, 14, 15>>
VideoWrites == <<<<"crtc", 0>>, <<"crtc", 1>>, <<"video_ula", 0>>, <<"video_ula", 1>>>>
Function(object, offset) ==
  CASE offset \in \h18 .. \h48 -> <<object, ViaReads[(offset - \h10) \div 8]>>
    [] offset \in \h50 .. \hA0 -> <<object, ViaWrites[(offset - \h48) \div 8]>>
    [] offset = \hB0 -> <<"adc", 0>>
    [] offset \in \hD0 .. \hE8 -> VideoWrites[(offset - \hC8) \div 8]
    [] offset = \hF8 -> <<"romsel", 0>>
FieldOf(object, offset) ==
  CASE object \in {"sysvia", "uservia"} ->
         <<object, ((\h67 :> 11) @@ (\h69 :> 13) @@ (\h6A :> 14) @@ (\h85 :> 15))[offset]>>
    [] object = "adc" -> <<"adc", offset - \h20>>
    [] object = "acia" -> <<"acia", offset - \h18>>
    [] object = "intel" -> <<"intel", offset - \h68>>
    [] object = "video" -> <<"crtc", offset - \h126>>

(* An encoding: the two offsets, and whether the function is told the time.  *)
Call(param, func, sync) == [param |-> param, call |-> TRUE, offset |-> func, sync |-> sync]
Load(param, field) == [param |-> param, call |-> FALSE, offset |-> field, sync |-> FALSE]
ReadEncodings ==
  (\hFE08 :> Load(\hB8, \h18))
  @@ (\hFE40 :> Call(\h8, \h18, FALSE)) @@ (\hFE41 :> Call(\h8, \h20, FALSE))
  @@ (\hFE44 :> Call(\h8, \h28, TRUE)) @@ (\hFE45 :> Call(\h8, \h30, TRUE))
  @@ (\hFE48 :> Call(\h8, \h38, TRUE)) @@ (\hFE49 :> Call(\h8, \h40, TRUE))
  @@ (\hFE4D :> Load(\h8, \h69)) @@ (\hFE4E :> Load(\h8, \h6A)) @@ (\hFE4F :> Load(\h8, \h85))
  @@ (\hFE64 :> Call(\h10, \h28, TRUE)) @@ (\hFE65 :> Call(\h10, \h30, TRUE))
  @@ (\hFE68 :> Call(\h10, \h38, TRUE)) @@ (\hFE69 :> Call(\h10, \h40, TRUE)) @@ (\hFE79 :> Call(\h10, \h40, TRUE))
  @@ (\hFE6B :> Load(\h10, \h67)) @@ (\hFE6D :> Load(\h10, \h69)) @@ (\hFE6E :> Load(\h10, \h6A))
  @@ (\hFE80 :> Load(\hC0, \h68))
  @@ (\hFEC0 :> Load(\hA8, \h20)) @@ (\hFEC1 :> Load(\hA8, \h21)) @@ (\hFEC2 :> Load(\hA8, \h22))
WriteEncodings ==
  (\hFE00 :> Load(\hC8, \h126)) @@ (\hFE01 :> Call(\hC8, \hD8, TRUE))
  @@ (\hFE20 :> Call(\hC8, \hE0, TRUE)) @@ (\hFE21 :> Call(\hC8, \hE8, TRUE))
  @@ (\hFE30 :> Call(\hF0, \hF8, FALSE))
  @@ (\hFE40 :> Call(\h8, \h50, TRUE)) @@ (\hFE41 :> Call(\h8, \h58, TRUE)) @@ (\hFE43 :> Call(\h8, \h60, TRUE))
  @@ (\hFE44 :> Call(\h8, \h68, TRUE)) @@ (\hFE45 :> Call(\h8, \h70, TRUE))
  @@ (\hFE48 :> Call(\h8, \h78, TRUE)) @@ (\hFE49 :> Call(\h8, \h80, TRUE))
  @@ (\hFE4B :> Call(\h8, \h88, TRUE)) @@ (\hFE4D :> Call(\h8, \h90, TRUE))
  @@ (\hFE4E :> Call(\h8, \h98, TRUE)) @@ (\hFE4F :> Call(\h8, \hA0, TRUE))
  @@ (\hFE64 :> Call(\h10, \h68, TRUE)) @@ (\hFE65 :> Call(\h10, \h70, TRUE))
  @@ (\hFE68 :> Call(\h10, \h78, TRUE)) @@ (\hFE69 :> Call(\h10, \h80, TRUE))
  @@ (\hFE6B :> Call(\h10, \h88, TRUE)) @@ (\hFE6D :> Call(\h10, \h90, TRUE)) @@ (\hFE6E :> Call(\h10, \h98, TRUE))
  @@ (\hFEC0 :> Call(\hA8, \hB0, TRUE))
(* The JIT is for a model B. Otherwise the interpreter makes the access.     *)
ReadEncoded(m, addr) == ~m.master /\ addr \in DOMAIN ReadEncodings /\ (addr = \hFE80 => ~m.wd)
WriteEncoded(m, addr) == ~m.master /\ addr \in DOMAIN WriteEncodings
Target(e) == IF e.call THEN Function(Object[e.param], e.offset) ELSE FieldOf(Object[e.param], e.offset)

(* Its ticks. The compiler takes the instruction's cycles and extra ones off *)
(* the countdown in advance; the code gives back one, and one more if the    *)
(* access would end on an odd tick.                                          *)
ExtraCycles(m, addr, accurate) ==
  IF accurate THEN IF Is1MHz(m, addr) THEN 3 ELSE 1
  ELSE IF Is1MHz(m, addr) THEN 1 ELSE 0
EndsBlock(m, addr, accurate, sync) == sync \/ (accurate /\ Is1MHz(m, addr))
SyncEvenCycle(tick) == tick - (tick % 2)
EncodedEnd(m, addr, alignment) ==
  LET ahead == alignment + ExtraCycles(m, addr, TRUE)  \* one cycle of its own and one given back
  IN  (IF Is1MHz(m, addr) THEN SyncEvenCycle(ahead) ELSE ahead) - alignment
(* A function that is told the time takes it as the end of the access, or as *)
(* the tick before, at which the VIAs and the video ULA are reached.         *)
\* A mutant: the writes of T1's and T2's latches and counters, but not of ACR.
TickBeforeTimers(target) ==
  \/ target[1] \in {"sysvia", "uservia"} /\ target[2] \in {4, 5, 8, 9, 13}
  \/ target[1] = "video_ula"
TickBefore(target) ==
  \/ target[1] \in {"sysvia", "uservia"} /\ target[2] \in {4, 5, 8, 9, 11, 13}
  \/ target[1] = "video_ula"
EncodedReach(m, addr, alignment, target) ==
  EncodedEnd(m, addr, alignment) - (IF TickBefore(target) THEN 1 ELSE 0)

-----------------------------------------------------------------------------
(* An access asks for interrupts once, one tick before it ends, and reaches  *)
(* one device once; it takes one tick, or two or three so that it ends on an *)
(* even one.                                                                 *)
EndsInPhase ==
  \A m \in Machines, addr \in Registers, alignment \in {0, 1} :
    LET steps == Callback(m, addr, alignment)
        end   == Length(steps)
    IN  /\ Count(steps, "poll") = 1 /\ Count(steps, "reach") = 1
        /\ TickOf(steps, "poll") = end - 1
        /\ IF Is1MHz(m, addr) THEN end \in {2, 3} /\ (alignment + end) % 2 = 0 ELSE end = 1

(* The code emitted by the JIT reaches the register that the callback        *)
(* reaches, at the same tick if time matters to it, and ends at the same     *)
(* tick; the cycles taken off in advance are more than it takes, so that no  *)
(* timer is due before it ends; and when the number of ticks is not known to *)
(* the compiler, or the device is told the time, the block ends.             *)
TimeMatters(target) ==
  \/ target[1] \in {"sysvia", "uservia"} /\ target[2] \in {4, 5, 8, 9, 11, 13}
  \/ target \in {<<"crtc", 1>>, <<"adc", 0>>} \/ target[1] = "video_ula"
EncodesCallback(m, addr, e, decoded) ==
  \A alignment \in {0, 1} :
    LET steps == Callback(m, addr, alignment)
    IN  /\ Target(e) = decoded
        /\ EncodedEnd(m, addr, alignment) = Length(steps)
        /\ e.call /\ TimeMatters(decoded) =>
             e.sync /\ EncodedReach(m, addr, alignment, decoded) = TickOf(steps, "reach")
        /\ ExtraCycles(m, addr, TRUE) + 1 > Length(steps)
        /\ Is1MHz(m, addr) \/ e.sync => EndsBlock(m, addr, TRUE, e.sync)
JitEncodesCallbacks ==
  \A m \in Machines, addr \in Registers :
    /\ ReadEncoded(m, addr) => EncodesCallback(m, addr, ReadEncodings[addr], ReadDecode(m, addr))
    /\ WriteEncoded(m, addr) => EncodesCallback(m, addr, WriteEncodings[addr], WriteDecode(m, addr))
=============================================================================
