--------------------------------- MODULE MCJit ---------------------------------
(* Programs of up to three instructions for JitTranslation, in families: each *)
(* is about one group of the optimiser's passes or of the ways out of a block. *)
(* Or, no program being compiled, interrupts in the interpreter and in host     *)
(* code (Interrupts).                                                          *)
EXTENDS JitTranslation

CONSTANTS Levels, Schedules, Horizon
VARIABLES driven, chip, kind
inTime == <<driven, chip, kind>>
Lines == INSTANCE Interrupts WITH cpu <- driven

Family(code, length, pasts, modified, irq) ==
  [code |-> code, length |-> length, pasts |-> pasts, modified |-> modified, irq |-> irq]
Plain(code, length) == Family(code, length, {"none"}, FALSE, FALSE)
MCFamilies == {
  (* Every opcode. *)
  Family({<<opcode, \h7A, 0>> : opcode \in Byte}, 1, {"none"}, TRUE, TRUE),
  (* Every opcode at the ends of memory and of the zero page, for inturbo alone. *)
  Family({<<opcode, operand, \hFF>> : opcode \in Byte, operand \in {\h7E, \hFF}}, 1, {}, FALSE, FALSE),
  (* Carry, overflow and the NZ flags. *)
  Plain({<<\h65, \h70>>, <<\hE9, \h10>>, <<\h26, \h60>>, <<\h4A>>, <<\h18>>, <<\h38>>,
         <<\hB0, 0>>, <<\h08>>, <<\hC9, \h80>>, <<\h70, 2>>}, 3),
  (* Known values and indexed accesses. *)
  Family({<<\hA2, \h10>>, <<\hE8>>, <<\h8A>>, <<\h86, \h60>>, <<\hA0, 0>>,
          <<\hB1, \h70>>, <<\h91, \h70>>, <<\hC8>>, <<\hBD, \h40, \h20>>}, 3, {"none"}, TRUE, FALSE),
  (* Loops that are collapsed. *)
  Plain({<<\hEA>>, <<\hCA>>, <<\h88>>, <<\hD0, Back>>, <<\hA5, \h70>>, <<\hC9, \h11>>, <<\hF0, Back>>,
         <<\h90, Back>>, <<\h58>>, <<\h78>>}, 3),
  (* Decimal mode. *)
  Plain({<<\hF8>>, <<\hD8>>, <<\h69, \h15>>, <<\hE5, \h70>>, <<\h38>>}, 2),
  (* The stack, and code that changes the code after it. *)
  Family({<<\h48>>, <<\h68>>, <<\h08>>, <<\h9A>>, <<\hE5, \h70>>, <<\hEE, 4, \h20>>, <<\h9D, 0, \h20>>}, 3, {"none"}, TRUE, FALSE),
  (* Flags from memory. *)
  Family({<<\h28>>, <<\h08>>, <<\h2C, 4, \h20>>, <<\h8E, 4, \h20>>, <<\hB8>>, <<\h70, 0>>, <<\h30, 0>>},
         3, {"none"}, TRUE, FALSE),
  (* Interrupts. *)
  Family({<<\h58>>, <<\h78>>, <<\h28>>, <<\h9A>>, <<\h86, \h70>>, <<\hB8>>, <<\hEA>>}, 3, {"none"}, FALSE, TRUE),
  (* The ways out of a block, and the undocumented opcodes. *)
  Plain({<<\h20, 4, \h20>>, <<\h60>>, <<0>>, <<\h6C, \hFF, 3>>, <<\h40>>, <<\h87, \h70>>, <<\h07, \h70>>,
         <<\h4B, \h55>>, <<\h1C, \hF0, 3>>, <<\h02>>, <<\h97, \h70>>, <<\hCA>>}, 3),
  (* Registers, ROMs and pointers to them. *)
  Plain({<<\hAD, 0, \hFE>>, <<\h8D, 0, \hC0>>, <<\h9D, 0, \hC0>>, <<\hBD, 0, \hF0>>, <<\hB1, \h74>>, <<\h91, \h74>>,
         <<\hA1, \h74>>, <<\hC8>>, <<\hA6, \h70>>, <<\hFE, 1, \hC0>>}, 3),
  (* Code that has been modified again and again. *)
  Family({<<\hA9, \h11>>, <<\h9D, \h40, \h20>>, <<\h6D, \h70, 0>>, <<\hE6, \h70>>, <<\hB1, \h80>>, <<\hE8>>, <<\h0A>>},
         3, {"operand", "opcode", "sub"}, TRUE, FALSE) }

Cpu(a, x, y, s, flags) ==
  [a |-> a, x |-> x, y |-> y, s |-> s, pc |-> 0, n |-> flags[1], v |-> flags[2], d |-> flags[3],
   i |-> flags[4], z |-> flags[5], c |-> flags[6], t |-> 0, val |-> 0,
   (* Pointers to a register, to a ROM and round the end of memory. *)
   m |-> \h74 :> \hF0 @@ \h75 :> \hFC @@ \h77 :> \h10 @@ \h78 :> \hC0 @@ \h80 :> \h90 @@ \h81 :> \hFF]
MCStarts == {Cpu(\h80, 0, 1, \hFD, <<0, 1, 0, 0, 1, 0>>), Cpu(\h7F, 3, \hF0, 1, <<1, 0, 0, 0, 0, 1>>),
             Cpu(\h55, 1, 0, \hFE, <<0, 0, 1, 1, 0, 1>>)}
MCCountdowns == {300, 7}
MCLimits == {3, 65536}
(* With and without a callback for writes to the ROMs. *)
MCSpecialFrom == {[read |-> \hFC00, write |-> \hFC00], [read |-> \hFC00, write |-> \h8000]}

(* What three timers may do: the user VIA or a disc controller, BREAK, or what *)
(* only ends the countdown.                                                    *)
MCTimers == ((1 .. 7) \X {"via", "nmi"}) \cup {<<9, "via">>, <<5, "break">>, <<3, "nothing">>, <<6, "nothing">>}
MCSchedules == {{a, b, c} : a, b, c \in MCTimers}

NoTranslation == family = <<>> /\ program = <<>> /\ block = <<>> /\ left = <<>>
NoInterrupts == driven = <<>> /\ chip = <<>> /\ kind = <<>>
Translates == family # <<>>
Interrupts == kind # <<>>
TranslationOrInterrupts ==
  /\ (Init /\ NoInterrupts) \/ (NoTranslation /\ Lines!Init)
  /\ [][\/ Translates /\ Next /\ UNCHANGED inTime
        \/ Interrupts /\ Lines!Next /\ UNCHANGED vars]_<<vars, inTime>>

(* The JIT and inturbo are the interpreter (JitTranslation): a block compiled  *)
(* and optimised does what it does, in as many cycles; and so does inturbo's   *)
(* code of every opcode, of which the tables say what its switch does.         *)
DriversAgree == Translates => BlockIsEquivalent /\ TablesAgree /\ InturboAgrees
(* Wherever a block is left in the middle, for a register, an interrupt or     *)
(* code that was overwritten, the fixups give the interpreter's 6502; and      *)
(* wherever host code and the interpreter leave off, interrupts are taken       *)
(* after the instructions after which the chip takes them (Interrupts).        *)
LeavesAreExact ==
  /\ Translates => BailIsExact /\ InvalidationIsExact
  /\ Interrupts => Lines!TakenInTime
=============================================================================
