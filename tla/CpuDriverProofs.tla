---------------------------- MODULE CpuDriverProofs ----------------------------
(***************************************************************************)
(* The thread of the 6502. First RunLoop, the two threads, for channels,     *)
(* queues and numbers of keys of every size: what they believe of each other *)
(* is true. The argument is the inductive invariant Agreement below: whoever *)
(* holds the one frame that is waited for, and whoever knows of the end, is  *)
(* where the other expects it.                                               *)
(*                                                                         *)
(* Then JitBlocks, the host code that this thread runs, for every memory,    *)
(* program, size of a slot and number of blocks: it is made from what memory *)
(* holds. The argument is the inductive invariant BlocksInv: blocks and the  *)
(* pointers into host code are whole, the code at every pointer was made     *)
(* from bytes that all lead to it, so that whoever changes one of them marks *)
(* that code, and the host is where the code of the 6502's address is.       *)
(***************************************************************************)
EXTENDS MCRunLoop, JitBlocks, SequenceTheorems, WellFoundedInduction, TLAPS

MainPcs == {"run_async", "poll", "receive", "paint", "ack", "window", "closed", "load", "store", "value", "result", "ended"}
CpuPcs == {"created", "run", "wait", "check", "apply", "store", "stop_value", "leave", "left", "done"}
Messages == [is : {"vsync", "exited"}, wait : BOOLEAN]
Changes == [set : SUBSET Flags, clear : {{}, Resets}]
Values == {"none", "closed", "stopped"}
MainOK ==
  /\ main \in [pc : MainPcs, open : BOOLEAN, window : BOOLEAN, loaded : SUBSET Flags, message : Messages]
  /\ main.pc = "receive" => toMain # <<>>
CpuOK ==
  /\ cpu \in [pc : CpuPcs, changes : Seq(Changes), loaded : SUBSET Flags, stopping : BOOLEAN]
  /\ cpu.pc \in {"apply", "store"} => cpu.changes # <<>>
ChannelsOK == toMain \in Seq(Messages) /\ toCpu \in Seq({"render_done"})
DriverOK == driver \in [flags : SUBSET Flags, value : Values] /\ owed \subseteq Flags /\ lost \subseteq Flags
BbcOK ==
  /\ bbc \in [running : BOOLEAN, overtaken : BOOLEAN, exit_value : Values, fast : BOOLEAN,
              rewinding : BOOLEAN, pressed : SUBSET {"F", "R", "Z"}]
  /\ options \in [window : BOOLEAN, stop : BOOLEAN, capture : BOOLEAN]
TypeOK == MainOK /\ CpuOK /\ ChannelsOK /\ DriverOK /\ BbcOK

(* Only the frame at the end of the channel can be waited for, and then the  *)
(* machine does wait; a frame that is painted and waited for is the last.    *)
HoldsFrame == main.pc \in {"paint", "ack"} /\ main.message.wait
Frames ==
  /\ \A i \in 1..Len(toMain) : toMain[i].wait => i = Len(toMain) /\ cpu.pc = "wait"
  /\ HoldsFrame => cpu.pc = "wait" /\ toMain = <<>> /\ toCpu = <<>>
  /\ main.pc = "ack" => main.message.wait
  /\ GoesOnWhenPainted
(* The end is announced once, behind every frame, when all of it is done.    *)
Ends ==
  /\ \A i \in 1..Len(toMain) : toMain[i].is = "exited" => i = Len(toMain) /\ cpu.pc = "done"
  /\ cpu.pc \in {"left", "done"} => ~bbc.running \/ bbc.overtaken
  /\ GoneWhenTold
(* A machine that waits for its frame has sent it, and the frame or its      *)
(* answer is on its way; a machine that is over has said so.                 *)
WaitsAreAnswered ==
  /\ cpu.pc = "wait" => \/ toCpu # <<>>
                        \/ toMain # <<>> /\ toMain[Len(toMain)].wait
                        \/ HoldsFrame
  /\ cpu.pc = "done" => \/ toMain # <<>> /\ toMain[Len(toMain)].is = "exited"
                        \/ main.pc \in {"result", "ended"}
Agreement == TypeOK /\ Frames /\ Ends /\ WaitsAreAnswered

(* An exit that is asked for is dropped only by the store of a thread that   *)
(* had loaded the flags before.                                              *)
ExitStays == "exited" \in driver.flags => "exited" \in driver'.flags \/ "exited" \in lost'

-----------------------------------------------------------------------------
(* Types.                                                                    *)

\* A store of the flags leaves flags, and the flags it drops are noted (RunLoop).
LEMMA StoreTypes ==
  ASSUME DriverOK, NEW loaded \in SUBSET Flags, NEW change \in Changes, Store(loaded, change)
  PROVE  driver' \in [flags : SUBSET Flags, value : Values] /\ lost' \subseteq Flags
  BY DEF DriverOK, Store, Changes, Resets, Flags

\* The tail of a sequence is a sequence, and empty only if one element was left.
LEMMA Tails ==
  ASSUME NEW S, NEW s \in Seq(S), s # <<>>
  PROVE  Tail(s) \in Seq(S) /\ (Len(s) > 1 => Tail(s) # <<>>)
<1>1. Tail(s) \in Seq(S) /\ Len(Tail(s)) = Len(s) - 1 /\ Len(s) \in Nat BY HeadTailProperties, LenProperties
<1>2. Len(<<>>) = 0 OBVIOUS
<1>3. Len(s) > 1 => Len(Tail(s)) # 0 BY <1>1
<1>4. Tail(s) = <<>> => Len(Tail(s)) = 0 BY <1>2, Zenon
<1> QED BY <1>1, <1>3, <1>4, Zenon

\* What a tick of the machine's timer (RunLoop!CyclesTimer) does, whichever keys
\* it finds: it asks for resets, none or some, and clears no flag.
Asked == [set : SUBSET Resets, clear : {{}}]
\* A tick of the timer leaves the rest of the machine as it is.
LEMMA TickAsks ==
  ASSUME BbcOK, CyclesTimer
  PROVE  \E changes \in Seq(Asked), pressed \in SUBSET {"F", "R", "Z"}, fast \in BOOLEAN :
           /\ bbc' = [bbc EXCEPT !.pressed = pressed, !.fast = fast]
           /\ owed' = owed \cup UNION {changes[i].set : i \in DOMAIN changes}
           /\ cpu' = [cpu EXCEPT !.pc = IF changes = <<>> THEN "check" ELSE "apply", !.changes = changes]
<1> DEFINE keys    == {queue[i] : i \in DOMAIN queue}
           pressed == bbc.pressed \cup (keys \cap {"F", "R", "Z"})
           alt     == CheckAltKey(pressed)
           break   == IF "BREAK" \in keys /\ ~bbc.rewinding THEN <<Change({"soft"}, {})>> ELSE <<>>
           seek    == CASE alt = "R" -> <<Change({"hard"}, {})>>
                        [] alt = "Z" /\ options.capture /\ ~bbc.rewinding -> <<Change({"hard", "replay"}, {})>>
                        [] OTHER -> <<>>
           changes == break \o seek
           fast    == IF alt = "F" THEN ~bbc.fast ELSE bbc.fast
<1>1. Change({"soft"}, {}) \in Asked /\ Change({"hard"}, {}) \in Asked /\ Change({"hard", "replay"}, {}) \in Asked
  BY DEF Change, Asked, Resets
<1>2. break \in Seq(Asked) /\ seek \in Seq(Asked) BY <1>1
<1>3. changes \in Seq(Asked) BY <1>2
<1>4. pressed \ {alt} \in SUBSET {"F", "R", "Z"} /\ fast \in BOOLEAN BY DEF BbcOK
<1>5. /\ bbc' = [bbc EXCEPT !.pressed = pressed \ {alt}, !.fast = fast]
      /\ owed' = owed \cup UNION {changes[i].set : i \in DOMAIN changes}
      /\ cpu' = [cpu EXCEPT !.pc = IF changes = <<>> THEN "check" ELSE "apply", !.changes = changes]
  BY DEF CyclesTimer
<1> HIDE DEF changes, fast, pressed, alt
<1> QED BY <1>3, <1>4, <1>5

\* The main thread's state.
LEMMA MainTypes == TypeOK /\ [Next]_vars => MainOK'
<1> SUFFICES ASSUME TypeOK, [Next]_vars PROVE MainOK' OBVIOUS
<1> USE DEF TypeOK, MainOK, ChannelsOK, MainPcs, Messages, Goto, MainOnly
<1>1. CASE RunAsync BY <1>1 DEF RunAsync
<1>2. CASE Poll BY <1>2 DEF Poll
<1>3. CASE ClientReceiveMessage 
  <2>1. Head(toMain) \in Messages BY <1>3, HeadTailProperties DEF ClientReceiveMessage
  <2> HIDE DEF Messages
  <2> QED BY <1>3, <2>1 DEF ClientReceiveMessage
<1>4. CASE Paint BY <1>4 DEF Paint
<1>5. CASE ClientSendMessage BY <1>5 DEF ClientSendMessage
<1>6. CASE ProcessEvents BY <1>6 DEF ProcessEvents
<1>7. CASE WindowClosed BY <1>7 DEF WindowClosed
<1>8. CASE LoadFlags BY <1>8 DEF DriverOK, LoadFlags
<1>9. CASE StoreFlags BY <1>9 DEF StoreFlags
<1>10. CASE SetExitValue BY <1>10 DEF SetExitValue
<1>11. CASE GetRunResult BY <1>11 DEF GetRunResult
<1>12. CASE FramebufferReady BY <1>12 DEF FramebufferReady
<1>13. CASE SendExited BY <1>13 DEF SendExited
<1>14. CASE UNCHANGED <<main, toMain>> BY <1>14
<1> QED BY <1>1, <1>2, <1>3, <1>4, <1>5, <1>6, <1>7, <1>8, <1>9, <1>10, <1>11, <1>12, <1>13, <1>14 DEF Next, Main, CpuSteps, MainOnly, vars, CpuThread, CpuReceiveMessage, CyclesTimer, StopCyclesTimer, RewindTimer, ApplyFlagsLoad, ApplyFlagsStore, StopValue, CheckFlags, Leave, PressKey, CloseWindow, Ended
\* The 6502's thread.
LEMMA CpuTypes == TypeOK /\ [Next]_vars => CpuOK'
<1> SUFFICES ASSUME TypeOK, [Next]_vars PROVE CpuOK' OBVIOUS
<1> USE DEF TypeOK, CpuOK, CpuPcs, CpuGoto
<1>1. CASE CpuThread BY <1>1 DEF CpuThread
<1>2. CASE FramebufferReady BY <1>2 DEF FramebufferReady
<1>3. CASE CpuReceiveMessage BY <1>3 DEF CpuReceiveMessage
<1>4. CASE CyclesTimer
  <2>1. PICK changes \in Seq(Asked) :
          cpu' = [cpu EXCEPT !.pc = IF changes = <<>> THEN "check" ELSE "apply", !.changes = changes]
    BY <1>4, TickAsks
  <2>2. Asked \subseteq Changes BY DEF Asked, Changes, Flags
  <2>3. changes \in Seq(Changes) BY <2>2, SeqMonotonic
  <2> QED BY <2>1, <2>3
<1>5. CASE StopCyclesTimer
  <2>1. Change({"exited"}, {}) \in Changes BY DEF Change, Changes, Flags
  <2>2. <<Change({"exited"}, {})>> \in Seq(Changes) /\ <<Change({"exited"}, {})>> # <<>> BY <2>1
  <2> QED BY <1>5, <2>2 DEF StopCyclesTimer
<1>6. CASE RewindTimer BY <1>6 DEF RewindTimer
<1>7. CASE ApplyFlagsLoad BY <1>7 DEF ApplyFlagsLoad, DriverOK
<1>8. CASE ApplyFlagsStore
  <2>1. Tail(cpu.changes) \in Seq(Changes) /\ (Len(cpu.changes) > 1 => Tail(cpu.changes) # <<>>)
    <3>1. cpu.changes \in Seq(Changes) /\ cpu.changes # <<>> BY <1>8 DEF ApplyFlagsStore
    <3> QED BY <3>1, Tails
  <2> QED BY <1>8, <2>1 DEF ApplyFlagsStore
<1>9. CASE StopValue BY <1>9 DEF StopValue
<1>10. CASE CheckFlags
  <2>1. Change({}, Resets) \in Changes BY DEF Change, Changes
  <2>2. <<Change({}, Resets)>> \in Seq(Changes) /\ <<Change({}, Resets)>> # <<>> BY <2>1
  <2> QED BY <1>10, <2>2 DEF CheckFlags, DoReset
<1>11. CASE Leave BY <1>11 DEF Leave
<1>12. CASE SendExited BY <1>12 DEF SendExited
<1>13. CASE UNCHANGED cpu BY <1>13
<1> QED BY <1>1, <1>2, <1>3, <1>4, <1>5, <1>6, <1>7, <1>8, <1>9, <1>10, <1>11, <1>12, <1>13 DEF Next, Main, CpuSteps, MainOnly, vars, RunAsync, Poll, ClientReceiveMessage, Paint, ClientSendMessage, ProcessEvents, WindowClosed, LoadFlags, StoreFlags, SetExitValue, GetRunResult, PressKey, CloseWindow, Ended
\* The channels.
LEMMA ChannelTypes == TypeOK /\ [Next]_vars => ChannelsOK'
<1> SUFFICES ASSUME TypeOK, [Next]_vars PROVE ChannelsOK' OBVIOUS
<1> USE DEF TypeOK, ChannelsOK, Messages
<1>1. CASE ClientReceiveMessage BY <1>1 DEF ClientReceiveMessage, MainOK
<1>2. CASE ClientSendMessage BY <1>2 DEF ClientSendMessage
<1>3. CASE FramebufferReady BY <1>3 DEF FramebufferReady
<1>4. CASE CpuReceiveMessage BY <1>4 DEF CpuReceiveMessage
<1>5. CASE SendExited BY <1>5 DEF SendExited
<1>6. CASE UNCHANGED <<toMain, toCpu>> BY <1>6
<1> QED BY <1>1, <1>2, <1>3, <1>4, <1>5, <1>6 DEF Next, Main, CpuSteps, MainOnly, vars, RunAsync, Poll, Paint, ProcessEvents, WindowClosed, LoadFlags, StoreFlags, SetExitValue, GetRunResult, CpuThread, CyclesTimer, StopCyclesTimer, RewindTimer, ApplyFlagsLoad, ApplyFlagsStore, StopValue, CheckFlags, Leave, PressKey, CloseWindow, Ended
\* The flags, and what is noted of them.
LEMMA DriverTypes == TypeOK /\ [Next]_vars => DriverOK'
<1> SUFFICES ASSUME TypeOK, [Next]_vars PROVE DriverOK' OBVIOUS
<1> USE DEF TypeOK, DriverOK
<1>1. CASE StoreFlags BY <1>1, StoreTypes DEF StoreFlags, MainOK, Change, Changes, Flags
<1>2. CASE SetExitValue BY <1>2 DEF SetExitValue, Values
<1>3. CASE CyclesTimer
  <2>1. PICK changes \in Seq(Asked) : owed' = owed \cup UNION {changes[i].set : i \in DOMAIN changes} BY <1>3, TickAsks
  <2>2. \A i \in DOMAIN changes : changes[i] \in Asked BY LenProperties, ElementOfSeq
  <2>3. \A i \in DOMAIN changes : changes[i].set \subseteq Flags BY <2>2 DEF Asked, Flags
  <2>4. owed' \subseteq Flags BY <2>1, <2>3
  <2> QED BY <1>3, <2>4 DEF CyclesTimer
<1>4. CASE ApplyFlagsStore BY <1>4, StoreTypes DEF ApplyFlagsStore, CpuOK
<1>5. CASE StopValue BY <1>5 DEF StopValue, Values
<1>6. CASE CheckFlags BY <1>6 DEF CheckFlags, DoReset
<1>7. CASE UNCHANGED <<driver, owed, lost>> BY <1>7
<1> QED BY <1>1, <1>2, <1>3, <1>4, <1>5, <1>6, <1>7 DEF Next, Main, CpuSteps, MainOnly, vars, RunAsync, Poll, ClientReceiveMessage, Paint, ClientSendMessage, ProcessEvents, WindowClosed, LoadFlags, GetRunResult, CpuThread, FramebufferReady, CpuReceiveMessage, StopCyclesTimer, RewindTimer, ApplyFlagsLoad, Leave, SendExited, PressKey, CloseWindow, Ended
\* The machine.
LEMMA BbcTypes == TypeOK /\ [Next]_vars => BbcOK'
<1> SUFFICES ASSUME TypeOK, [Next]_vars PROVE BbcOK' OBVIOUS
<1> USE DEF TypeOK, BbcOK
<1>1. CASE RunAsync
  <2> DEFINE gone == cpu.pc \in {"left", "done"}
  <2>1. bbc' = [bbc EXCEPT !.running = TRUE, !.overtaken = gone] /\ options' = options BY <1>1 DEF RunAsync
  <2>2. gone \in BOOLEAN OBVIOUS
  <2> HIDE DEF gone
  <2> QED BY <2>1, <2>2
<1>2. CASE CyclesTimer BY <1>2, TickAsks DEF CyclesTimer
<1>3. CASE StopCyclesTimer BY <1>3 DEF StopCyclesTimer
<1>4. CASE RewindTimer BY <1>4 DEF RewindTimer
<1>5. CASE CheckFlags BY <1>5 DEF CheckFlags, DoReset
<1>6. CASE Leave BY <1>6 DEF Leave, DriverOK
<1>7. CASE UNCHANGED <<bbc, options>> BY <1>7
<1> QED BY <1>1, <1>2, <1>3, <1>4, <1>5, <1>6, <1>7 DEF Next, Main, CpuSteps, MainOnly, vars, Poll, ClientReceiveMessage, Paint, ClientSendMessage, ProcessEvents, WindowClosed, LoadFlags, StoreFlags, SetExitValue, GetRunResult, CpuThread, FramebufferReady, CpuReceiveMessage, ApplyFlagsLoad, ApplyFlagsStore, StopValue, SendExited, PressKey, CloseWindow, Ended

\* A step keeps the types.
LEMMA TypesStay == TypeOK /\ [Next]_vars => TypeOK'
BY MainTypes, CpuTypes, ChannelTypes, DriverTypes, BbcTypes DEF TypeOK

-----------------------------------------------------------------------------
(* The agreement of the threads.                                             *)

\* What an action that a thread takes alone may do to the other's view of it.
LEMMA Grows ==
  ASSUME NEW message \in Messages, ChannelsOK, toMain' = Append(toMain, message)
  PROVE  /\ Len(toMain') = Len(toMain) + 1 /\ Len(toMain) \in Nat
         /\ toMain' # <<>> /\ toMain'[Len(toMain')] = message
         /\ \A i \in 1..Len(toMain) : toMain'[i] = toMain[i]
BY DEF ChannelsOK
\* Taking the message at the head leaves the others in their order.
LEMMA Shrinks ==
  ASSUME ChannelsOK, toMain # <<>>, toMain' = Tail(toMain)
  PROVE  /\ Len(toMain') = Len(toMain) - 1 /\ Len(toMain) \in Nat \ {0}
         /\ Head(toMain) = toMain[1]
         /\ \A i \in 1..Len(toMain') : toMain'[i] = toMain[i + 1]
         /\ Len(toMain) = 1 => toMain' = <<>>
         /\ Len(toMain) > 1 => toMain' # <<>>
BY HeadTailProperties, EmptySeq, Tails DEF ChannelsOK
\* Frames.
LEMMA FramesStay == TypeOK /\ Frames /\ [Next]_vars => Frames'
<1> SUFFICES ASSUME TypeOK, Frames, [Next]_vars PROVE Frames' OBVIOUS
<1> USE DEF TypeOK, MainOK, CpuOK, Frames, HoldsFrame, GoesOnWhenPainted, Goto, CpuGoto, MainOnly
<1>1. CASE RunAsync BY <1>1 DEF RunAsync
<1>2. CASE Poll BY <1>2 DEF Poll
<1>3. CASE ClientReceiveMessage BY <1>3, Shrinks DEF ClientReceiveMessage
<1>4. CASE Paint BY <1>4 DEF Paint
<1>5. CASE ClientSendMessage BY <1>5 DEF ClientSendMessage
<1>6. CASE ProcessEvents BY <1>6 DEF ProcessEvents
<1>7. CASE WindowClosed BY <1>7 DEF WindowClosed
<1>8. CASE LoadFlags BY <1>8 DEF LoadFlags
<1>9. CASE StoreFlags BY <1>9 DEF StoreFlags
<1>10. CASE SetExitValue BY <1>10 DEF SetExitValue
<1>11. CASE GetRunResult BY <1>11 DEF GetRunResult
<1>12. CASE CpuThread BY <1>12 DEF CpuThread
<1>13. CASE FramebufferReady BY <1>13, Grows DEF FramebufferReady
<1>14. CASE CpuReceiveMessage BY <1>14 DEF CpuReceiveMessage
<1>15. CASE CyclesTimer BY <1>15 DEF CyclesTimer
<1>16. CASE StopCyclesTimer BY <1>16 DEF StopCyclesTimer
<1>17. CASE RewindTimer BY <1>17 DEF RewindTimer
<1>18. CASE ApplyFlagsLoad BY <1>18 DEF ApplyFlagsLoad
<1>19. CASE ApplyFlagsStore BY <1>19 DEF ApplyFlagsStore
<1>20. CASE StopValue BY <1>20 DEF StopValue
<1>21. CASE CheckFlags BY <1>21 DEF CheckFlags
<1>22. CASE Leave BY <1>22 DEF Leave
<1>23. CASE SendExited BY <1>23, Grows DEF SendExited
<1>24. CASE PressKey BY <1>24 DEF PressKey
<1>25. CASE CloseWindow BY <1>25 DEF CloseWindow
<1>26. CASE Ended BY <1>26 DEF Ended, vars
<1>27. CASE UNCHANGED vars BY <1>27 DEF vars
<1> QED BY <1>1, <1>2, <1>3, <1>4, <1>5, <1>6, <1>7, <1>8, <1>9, <1>10, <1>11, <1>12, <1>13, <1>14, <1>15, <1>16, <1>17, <1>18, <1>19, <1>20, <1>21, <1>22, <1>23, <1>24, <1>25, <1>26, <1>27 DEF Next, Main, CpuSteps

\* The end of the program.
LEMMA EndsStay == TypeOK /\ Frames /\ Ends /\ [Next]_vars => Ends'
<1> SUFFICES ASSUME TypeOK, Frames, Ends, [Next]_vars PROVE Ends' OBVIOUS
<1> USE DEF TypeOK, MainOK, CpuOK, BbcOK, DriverOK, Frames, Ends, HoldsFrame, GoneWhenTold, Goto, CpuGoto, MainOnly
<1>1. CASE RunAsync BY <1>1 DEF RunAsync
<1>2. CASE Poll BY <1>2 DEF Poll
<1>3. CASE ClientReceiveMessage BY <1>3, Shrinks DEF ClientReceiveMessage
<1>4. CASE Paint BY <1>4 DEF Paint
<1>5. CASE ClientSendMessage BY <1>5 DEF ClientSendMessage
<1>6. CASE ProcessEvents BY <1>6 DEF ProcessEvents
<1>7. CASE WindowClosed BY <1>7 DEF WindowClosed
<1>8. CASE LoadFlags BY <1>8 DEF LoadFlags
<1>9. CASE StoreFlags BY <1>9 DEF StoreFlags, Store, Change
<1>10. CASE SetExitValue BY <1>10 DEF SetExitValue
<1>11. CASE GetRunResult BY <1>11 DEF GetRunResult
<1>12. CASE CpuThread BY <1>12 DEF CpuThread
<1>13. CASE FramebufferReady BY <1>13, Grows DEF FramebufferReady
<1>14. CASE CpuReceiveMessage BY <1>14 DEF CpuReceiveMessage
<1>15. CASE CyclesTimer BY <1>15 DEF CyclesTimer
<1>16. CASE StopCyclesTimer BY <1>16 DEF StopCyclesTimer
<1>17. CASE RewindTimer BY <1>17 DEF RewindTimer
<1>18. CASE ApplyFlagsLoad BY <1>18 DEF ApplyFlagsLoad
<1>19. CASE ApplyFlagsStore BY <1>19 DEF ApplyFlagsStore, Store
<1>20. CASE StopValue BY <1>20 DEF StopValue
<1>21. CASE CheckFlags BY <1>21 DEF CheckFlags, DoReset
<1>22. CASE Leave BY <1>22 DEF Leave
<1>23. CASE SendExited BY <1>23, Grows DEF SendExited
<1>24. CASE PressKey BY <1>24 DEF PressKey
<1>25. CASE CloseWindow BY <1>25 DEF CloseWindow
<1>26. CASE Ended BY <1>26 DEF Ended, vars
<1>27. CASE UNCHANGED vars BY <1>27 DEF vars
<1> QED BY <1>1, <1>2, <1>3, <1>4, <1>5, <1>6, <1>7, <1>8, <1>9, <1>10, <1>11, <1>12, <1>13, <1>14, <1>15, <1>16, <1>17, <1>18, <1>19, <1>20, <1>21, <1>22, <1>23, <1>24, <1>25, <1>26, <1>27 DEF Next, Main, CpuSteps

\* What a thread waits for is on its way.
LEMMA WaitsStay == TypeOK /\ Frames /\ Ends /\ WaitsAreAnswered /\ [Next]_vars => WaitsAreAnswered'
<1> SUFFICES ASSUME TypeOK, Frames, Ends, WaitsAreAnswered, [Next]_vars PROVE WaitsAreAnswered' OBVIOUS
<1> USE DEF TypeOK, MainOK, CpuOK, Frames, Ends, WaitsAreAnswered, HoldsFrame, GoneWhenTold, Goto, CpuGoto, MainOnly
<1>1. CASE RunAsync BY <1>1 DEF RunAsync
<1>2. CASE Poll BY <1>2 DEF Poll
<1>3. CASE ClientReceiveMessage BY <1>3, Shrinks DEF ClientReceiveMessage
<1>4. CASE Paint BY <1>4 DEF Paint
<1>5. CASE ClientSendMessage BY <1>5 DEF ClientSendMessage
<1>6. CASE ProcessEvents BY <1>6 DEF ProcessEvents
<1>7. CASE WindowClosed BY <1>7 DEF WindowClosed
<1>8. CASE LoadFlags BY <1>8 DEF LoadFlags
<1>9. CASE StoreFlags BY <1>9 DEF StoreFlags
<1>10. CASE SetExitValue BY <1>10 DEF SetExitValue
<1>11. CASE GetRunResult BY <1>11 DEF GetRunResult
<1>12. CASE CpuThread BY <1>12 DEF CpuThread
<1>13. CASE FramebufferReady
  <2>1. PICK wait \in BOOLEAN : /\ toMain' = Append(toMain, [is |-> "vsync", wait |-> wait])
                                /\ cpu' = [cpu EXCEPT !.pc = IF wait THEN "wait" ELSE "check"]
    <3>1. PICK timer \in BOOLEAN : LET wait == ~bbc.fast \/ timer
                                   IN  /\ toMain' = Append(toMain, [is |-> "vsync", wait |-> wait])
                                       /\ cpu' = [cpu EXCEPT !.pc = IF wait THEN "wait" ELSE "check"]
      BY <1>13 DEF FramebufferReady
    <3> DEFINE waits == ~bbc.fast \/ timer
    <3>2. waits \in BOOLEAN OBVIOUS
    <3>3. /\ toMain' = Append(toMain, [is |-> "vsync", wait |-> waits])
          /\ cpu' = [cpu EXCEPT !.pc = IF waits THEN "wait" ELSE "check"]
      BY <3>1
    <3> HIDE DEF waits
    <3> QED BY <3>2, <3>3
  <2>2. [is |-> "vsync", wait |-> wait] \in Messages BY DEF Messages
  <2>3. toMain' # <<>> /\ toMain'[Len(toMain')] = [is |-> "vsync", wait |-> wait] BY <2>1, <2>2, Grows
  <2>4. cpu'.pc = (IF wait THEN "wait" ELSE "check") BY <2>1
  <2> QED BY <2>3, <2>4
<1>14. CASE CpuReceiveMessage BY <1>14 DEF CpuReceiveMessage
<1>15. CASE CyclesTimer BY <1>15 DEF CyclesTimer
<1>16. CASE StopCyclesTimer BY <1>16 DEF StopCyclesTimer
<1>17. CASE RewindTimer BY <1>17 DEF RewindTimer
<1>18. CASE ApplyFlagsLoad BY <1>18 DEF ApplyFlagsLoad
<1>19. CASE ApplyFlagsStore BY <1>19 DEF ApplyFlagsStore
<1>20. CASE StopValue BY <1>20 DEF StopValue
<1>21. CASE CheckFlags BY <1>21 DEF CheckFlags, DoReset
<1>22. CASE Leave BY <1>22 DEF Leave
<1>23. CASE SendExited BY <1>23, Grows DEF SendExited
<1>24. CASE PressKey BY <1>24 DEF PressKey
<1>25. CASE CloseWindow BY <1>25 DEF CloseWindow
<1>26. CASE Ended BY <1>26 DEF Ended, vars
<1>27. CASE UNCHANGED vars BY <1>27 DEF vars
<1> QED BY <1>1, <1>2, <1>3, <1>4, <1>5, <1>6, <1>7, <1>8, <1>9, <1>10, <1>11, <1>12, <1>13, <1>14, <1>15, <1>16, <1>17, <1>18, <1>19, <1>20, <1>21, <1>22, <1>23, <1>24, <1>25, <1>26, <1>27 DEF Next, Main, CpuSteps

-----------------------------------------------------------------------------
(* The theorems.                                                             *)

\* At the start nobody waits and nothing is over.
LEMMA AgreementStarts == Init => Agreement
<1> SUFFICES ASSUME Init PROVE Agreement OBVIOUS
<1>1. TypeOK
  BY DEF Init, TypeOK, MainOK, CpuOK, ChannelsOK, DriverOK, BbcOK, MainPcs, CpuPcs, Messages, Values
<1>2. Frames /\ Ends /\ WaitsAreAnswered
  BY DEF Init, Frames, Ends, WaitsAreAnswered, HoldsFrame, GoesOnWhenPainted, GoneWhenTold
<1> QED BY <1>1, <1>2 DEF Agreement

\* Every step of either thread, or of the user, keeps what they believe true.
LEMMA AgreementStays == Agreement /\ [Next]_vars => Agreement'
BY TypesStay, FramesStay, EndsStay, WaitsStay DEF Agreement

\* A step of the run is a step of the threads, or leaves them as they are.
LEMMA RunSteps == [Threads(Next) \/ Walk(Clock!Next)]_all => [Next]_vars
BY DEF Threads, Walk, all

\* The machine goes on from a frame it waits for only when the window has
\* painted it, and a window that is told of the end finds the machine gone, its
\* running flag clear unless it was set too late, its exit set (the channels of
\* bbc_framebuffer_ready_callback, bbc_cpu_thread and the loop of beebjit_main).
THEOREM ThreadsAlwaysAgree == ThreadsOrClock => []ThreadsAgree
<1>1. InitThreadsOrClock => Agreement BY AgreementStarts DEF InitThreadsOrClock
<1>2. Agreement /\ [Threads(Next) \/ Walk(Clock!Next)]_all => Agreement' BY AgreementStays, RunSteps
<1>3. Agreement => ThreadsAgree BY DEF Agreement, Frames, Ends, ThreadsAgree
<1> QED BY <1>1, <1>2, <1>3, PTL DEF ThreadsOrClock

\* Neither thread waits for the other in vain: a machine that waits for a frame
\* has it, or its answer, under way, and one that is over has said so.
THEOREM NobodyWaitsForNothing == Spec => [](TypeOK /\ WaitsAreAnswered)
<1>1. Agreement => TypeOK /\ WaitsAreAnswered BY DEF Agreement
<1> QED BY <1>1, AgreementStarts, AgreementStays, PTL DEF Spec

\* The exit that is set stays set, until the program is over, unless one thread's
\* store of the flags overwrites the other's; none is cleared (cpu_driver.c).
THEOREM ExitsStay == Spec => [][ExitStays]_vars
<1>1. ASSUME TypeOK, [Next]_vars PROVE [ExitStays]_vars
  <2> SUFFICES ASSUME ~UNCHANGED vars PROVE ExitStays OBVIOUS
  <2>1. CASE StoreFlags BY <1>1, <2>1 DEF StoreFlags, Store, Change, ExitStays, TypeOK, DriverOK
  <2>2. CASE ApplyFlagsStore
    <3>1. Head(cpu.changes) \in Changes BY <1>1, <2>2, HeadTailProperties DEF TypeOK, CpuOK, ApplyFlagsStore
    <3> QED BY <1>1, <2>2, <3>1 DEF ApplyFlagsStore, Store, Changes, Resets, ExitStays, TypeOK, DriverOK
  <2>3. CASE SetExitValue BY <1>1, <2>3 DEF SetExitValue, ExitStays, TypeOK, DriverOK
  <2>4. CASE StopValue BY <1>1, <2>4 DEF StopValue, ExitStays, TypeOK, DriverOK
  <2>5. CASE UNCHANGED driver BY <2>5 DEF ExitStays
  <2> QED BY <1>1, <2>1, <2>2, <2>3, <2>4, <2>5
        DEF Next, Main, CpuSteps, MainOnly, RunAsync, Poll, ClientReceiveMessage, Paint, ClientSendMessage,
            ProcessEvents, WindowClosed, LoadFlags, GetRunResult, CpuThread, FramebufferReady, CpuReceiveMessage,
            CyclesTimer, StopCyclesTimer, RewindTimer, ApplyFlagsLoad, CheckFlags, Leave, SendExited,
            PressKey, CloseWindow, Ended, vars
<1>2. Agreement => TypeOK BY DEF Agreement
<1> QED BY <1>1, <1>2, AgreementStarts, AgreementStays, PTL DEF Spec

-----------------------------------------------------------------------------
(* Places in host code, and what a run relies on: m is memory, b and p the   *)
(* blocks and pointers, h the host code and z whether code in the zero page  *)
(* is looked after.                                                          *)
Place == Addr \X (0 .. PerSlot - 1)
At(h, q) == h[q[1]][q[2]]
Interpreted(a) == [k |-> "interp", at |-> a]
ByInturbo(a) == [k |-> "inturbo", at |-> a]

(* Where the host is when the 6502 is at a: where a's code is, if a is the   *)
(* first address with that code, or at a call of inturbo for a that nothing  *)
(* points at. Or it is at the start of a's slot.                             *)
Inside(b, p, h, a, q) ==
  /\ q \in Place /\ q[2] # 0 /\ a \in Addr /\ b[a] # NoBlock /\ b[q[1]] = b[a]
  /\ \/ p[a] = q /\ \A c \in Addr : p[c] = q => a <= c
     \/ At(h, q) = ByInturbo(a) /\ \A c \in Addr : p[c] # q
Leads(b, p, h, a, q) == q = Slot(a) \/ Inside(b, p, h, a, q)

(* The code of an instruction that is pointed at: made from the bytes that   *)
(* memory holds, each of which leads to it or is dynamic, with a sequel      *)
(* that leads to the next instruction.                                       *)
SureToMark(cell, z) == Stores(cell.i) => cell.marks \/ (cell.i.op = "zpg" /\ ~z)
PointedFrom(p, q, at) == at \in Addr /\ p[at] = q /\ \A c \in Addr : p[c] = q => at <= c
Runnable(m, b, p, h, z, q, cell) ==
  LET i == cell.i
  IN  /\ PointedFrom(p, q, i.at) /\ i.end = i.at + Bytes(i.op) /\ SameBytes(i, m) /\ SureToMark(cell, z)
      /\ Bytes(i.op) = 2 =>
           /\ i.at + 1 \in Addr /\ b[i.at + 1] = b[i.at]
           /\ p[i.at + 1] = q \/ (i.kind = "operand" /\ p[i.at + 1] = Dynamic)
      /\ i.op \notin {"jmp", "rts"} =>
           cell.next = Slot(i.end) \/ (Inside(b, p, h, i.end, cell.next) /\ b[i.end] = b[i.at])
AccessesRegister(m, p, q, cell) ==
  /\ PointedFrom(p, q, cell.at)
  /\ cell.at + 1 \in Addr /\ p[cell.at + 1] = q
  /\ ToRegister(InstructionAt(m, cell.at), m[cell.at + 1])
CodeAt(m, b, p, h, z, q) ==
  LET cell == At(h, q)
  IN  \/ cell = Mark
      \/ cell.k = "run" /\ Runnable(m, b, p, h, z, q, cell)
      \/ cell.k = "interp" /\ AccessesRegister(m, p, q, cell)

Shaped(m, b, p, h) ==
  /\ m \in [Addr -> Value] /\ b \in [Addr -> Addr \cup {NoBlock}]
  /\ p \in [Addr -> Place \cup {NoCode, Dynamic}]
  /\ DOMAIN h = Addr /\ \A a \in Addr : DOMAIN h[a] = 0 .. PerSlot - 1
WholeAt(b, a) == b[a] # NoBlock => b[a] <= a /\ \A c \in b[a] .. a : b[c] = b[a]
Whole(b) == \A a \in Addr : WholeAt(b, a)
PointerAt(b, p, a) ==
  /\ (b[a] = NoBlock) = (p[a] = NoCode)
  /\ p[a] \in Place => b[a] <= p[a][1] /\ p[a][1] <= a /\ (p[a][2] = 0 => p[a][1] = b[a])
Pointers(b, p) == \A a \in Addr : PointerAt(b, p, a)
CodeOK(m, b, p, h, z) == \A a \in Addr : p[a] \in Place => CodeAt(m, b, p, h, z, p[a])
SlotAt(p, h, a) ==
  LET cell == At(h, Slot(a))
  IN  cell = Mark \/ cell = ByInturbo(a) \/ (cell.k \in {"run", "interp"} /\ p[a] = Slot(a))
Slots(p, h) == \A a \in Addr : SlotAt(p, h, a)
LooksAfter(b, z) == ~z => \A a \in Addr : a < ZeroPage => b[a] = NoBlock
Kept(m, b, p, h, z) ==
  /\ Shaped(m, b, p, h) /\ Whole(b) /\ Pointers(b, p) /\ CodeOK(m, b, p, h, z) /\ Slots(p, h)
  /\ LooksAfter(b, z)

ThreadOK ==
  /\ thread \in [who : {"jit", "interp"}, pc : Addr, at : Place \cup {NoCode}]
  /\ thread.who = "jit" => Leads(block, ptr, host, thread.pc, thread.at)
BlocksInv == Kept(mem, block, ptr, host, zero) /\ zero \in BOOLEAN /\ ThreadOK

-----------------------------------------------------------------------------
(* Places are pairs of numbers, and none is one of the special pointers.      *)
LEMMA PlacesAreNotMarks ==
  ASSUME BlocksAssumption
  PROVE  /\ NoCode \notin Place /\ Dynamic \notin Place /\ NoCode # Dynamic /\ NoBlock \notin Addr
         /\ \A a \in Addr : Slot(a) \in Place /\ Slot(a)[1] = a /\ Slot(a)[2] = 0
         /\ \A q \in Place : q = <<q[1], q[2]>> /\ q[1] \in Addr /\ q[2] \in 0 .. PerSlot - 1
         /\ \A q \in Place : q[2] = 0 => q = Slot(q[1])
         /\ Addr \subseteq Int
<1>1. \A a \in Addr : a # -1 /\ a # -2  BY DEF Addr, BlocksAssumption
<1>2. 0 \in 0 .. PerSlot - 1  BY DEF BlocksAssumption
<1> QED BY <1>1, <1>2 DEF NoCode, Dynamic, NoBlock, Place, Slot, Addr, BlocksAssumption

(* Marking the code that a byte leads to, and changing the byte.             *)
LEMMA MarkedAt ==
  ASSUME BlocksAssumption, NEW m, NEW b, NEW p, NEW h, Shaped(m, b, p, h), NEW x \in Addr
  PROVE  /\ DOMAIN Invalidated(h, p[x]) = Addr
         /\ \A a \in Addr : DOMAIN Invalidated(h, p[x])[a] = 0 .. PerSlot - 1
         /\ \A q \in Place : At(Invalidated(h, p[x]), q) = IF p[x] = q THEN Mark ELSE At(h, q)
<1> DEFINE h2 == Invalidated(h, p[x])
<1>1. p[x] \in Place \cup {NoCode, Dynamic}  BY DEF Shaped
<1>2. CASE p[x] \in {NoCode, Dynamic}
  <2>1. h2 = h  BY <1>2 DEF Invalidated
  <2> QED BY <2>1, <1>2, PlacesAreNotMarks DEF Shaped
<1>3. CASE p[x] \in Place
  <2> DEFINE r == p[x]
  <2>1. h2 = [h EXCEPT ![r[1]][r[2]] = Mark]  BY <1>3, PlacesAreNotMarks DEF Invalidated
  <2>2. r[1] \in Addr /\ r[2] \in 0 .. PerSlot - 1 /\ r = <<r[1], r[2]>>  BY <1>3, PlacesAreNotMarks
  <2>3. DOMAIN h = Addr /\ \A a \in Addr : DOMAIN h[a] = 0 .. PerSlot - 1  BY DEF Shaped
  <2> HIDE DEF r
  <2>4. DOMAIN h2 = Addr /\ \A a \in Addr : DOMAIN h2[a] = 0 .. PerSlot - 1
    BY <2>1, <2>2, <2>3
  <2>5. ASSUME NEW q \in Place PROVE At(h2, q) = IF r = q THEN Mark ELSE At(h, q)
    <3>1. q[1] \in Addr /\ q[2] \in 0 .. PerSlot - 1 /\ q = <<q[1], q[2]>>  BY PlacesAreNotMarks
    <3>2. CASE q[1] # r[1]
      <4>1. h2[q[1]] = h[q[1]]  BY <3>1, <3>2, <2>1, <2>3
      <4> QED BY <4>1, <3>2 DEF At
    <3>3. CASE q[1] = r[1]
      <4>1. h2[q[1]] = [h[q[1]] EXCEPT ![r[2]] = Mark]  BY <3>1, <3>3, <2>1, <2>3
      <4>2. h2[q[1]][q[2]] = IF q[2] = r[2] THEN Mark ELSE h[q[1]][q[2]]  BY <4>1, <3>1, <2>3
      <4>3. (r = q) = (q[2] = r[2])  BY <3>1, <3>3, <2>2
      <4> QED BY <4>2, <4>3 DEF At
    <3> QED BY <3>2, <3>3
  <2> QED BY <2>4, <2>5 DEF r
<1> QED BY <1>1, <1>2, <1>3

LEMMA StillInside ==
  ASSUME BlocksAssumption, NEW m, NEW b, NEW p, NEW h, Shaped(m, b, p, h), NEW x \in Addr,
         NEW a, NEW q, Inside(b, p, h, a, q)
  PROVE  Inside(b, p, Invalidated(h, p[x]), a, q)
<1>1. q \in Place /\ (p[x] # q => At(Invalidated(h, p[x]), q) = At(h, q))  BY MarkedAt DEF Inside
<1> QED BY <1>1 DEF Inside

LEMMA IsCode ==
  ASSUME NEW m, NEW b, NEW p, NEW h, NEW z, NEW q, NEW cell, At(h, q) = cell,
         \/ cell = Mark
         \/ cell.k = "run" /\ Runnable(m, b, p, h, z, q, cell)
         \/ cell.k = "interp" /\ AccessesRegister(m, p, q, cell)
  PROVE  CodeAt(m, b, p, h, z, q)
BY Zenon DEF CodeAt

(* Writing a byte and marking the code that it leads to.                     *)
LEMMA StoreKeeps ==
  ASSUME BlocksAssumption, NEW m, NEW b, NEW p, NEW h, NEW z, Kept(m, b, p, h, z),
         NEW x \in Addr, NEW v \in Value
  PROVE  Kept(WrittenTo(m, x, v), b, p, Invalidated(h, p[x]), z)
<1> DEFINE m2 == WrittenTo(m, x, v)  h2 == Invalidated(h, p[x])
<1>1. Shaped(m, b, p, h)  BY DEF Kept
<1>2. \A q \in Place : At(h2, q) = IF p[x] = q THEN Mark ELSE At(h, q)  BY <1>1, MarkedAt
<1>3. m2 \in [Addr -> Value] /\ \A a \in Addr : a # x => m2[a] = m[a]  BY <1>1 DEF Shaped, WrittenTo
<1>4. Shaped(m2, b, p, h2)  BY <1>1, <1>3, MarkedAt DEF Shaped
<1>5. \A a, q : Inside(b, p, h, a, q) => Inside(b, p, h2, a, q)  BY <1>1, StillInside
<1> HIDE DEF m2, h2
<1>6. ASSUME NEW a \in Addr, NEW q \in Place, q = p[a] PROVE CodeAt(m2, b, p, h2, z, q)
  <2> DEFINE cell == At(h, q)
  <2>1. CodeAt(m, b, p, h, z, q)  BY <1>6 DEF Kept, CodeOK
  <2>2. CASE p[x] = q  BY <2>2, <1>6, <1>2 DEF CodeAt
  <2>3. CASE p[x] # q
    <3>1. At(h2, q) = cell  BY <2>3, <1>6, <1>2
    <3> HIDE DEF cell
    <3>2. CASE cell.k = "run" /\ Runnable(m, b, p, h, z, q, cell)
      <4> DEFINE i == cell.i
      <4>1. i.at \in Addr /\ p[i.at] = q  BY <3>2 DEF Runnable, PointedFrom
      <4>2. i.at # x  BY <4>1, <2>3
      <4>3. Bytes(i.op) = 2 => i.at + 1 \in Addr /\ (i.at + 1 # x \/ i.kind = "operand")
        BY <3>2, <2>3 DEF Runnable
      <4>4. SameBytes(i, m)  BY <3>2 DEF Runnable
      <4> HIDE DEF i
      <4>5. SameBytes(i, m2)  BY <4>1, <4>2, <4>3, <4>4, <1>3 DEF SameBytes, InstructionAt
      <4> USE DEF i
      <4>6. Runnable(m2, b, p, h2, z, q, cell)  BY <3>2, <4>5, <1>5 DEF Runnable
      <4> QED BY <4>6, <3>1, <3>2, IsCode
    <3>3. CASE cell.k = "interp" /\ AccessesRegister(m, p, q, cell)
      <4>1. cell.at \in Addr /\ cell.at # x /\ cell.at + 1 \in Addr /\ cell.at + 1 # x
        BY <3>3, <2>3 DEF AccessesRegister, PointedFrom
      <4>2. m2[cell.at] = m[cell.at] /\ m2[cell.at + 1] = m[cell.at + 1]  BY <4>1, <1>3
      <4>3. InstructionAt(m2, cell.at) = InstructionAt(m, cell.at)  BY <4>2 DEF InstructionAt
      <4>4. AccessesRegister(m2, p, q, cell)  BY <4>2, <4>3, <3>3 DEF AccessesRegister
      <4> QED BY <4>4, <3>1, <3>3, IsCode
    <3>4. cell = Mark => CodeAt(m2, b, p, h2, z, q)  BY <3>1, IsCode
    <3> USE DEF cell
    <3> QED BY <2>1, <3>2, <3>3, <3>4 DEF CodeAt
  <2> QED BY <2>2, <2>3
<1>7. ASSUME NEW a \in Addr PROVE SlotAt(p, h2, a)
  <2>1. SlotAt(p, h, a)  BY DEF Kept, Slots
  <2>2. At(h2, Slot(a)) = Mark \/ At(h2, Slot(a)) = At(h, Slot(a))  BY <1>2, PlacesAreNotMarks
  <2> QED BY <2>1, <2>2 DEF SlotAt
<1> QED BY <1>4, <1>6, <1>7 DEF Kept, CodeOK, Slots, m2, h2

LEMMA PointsWithin ==
  ASSUME BlocksAssumption, NEW m, NEW b, NEW p, NEW h, NEW z, Kept(m, b, p, h, z),
         NEW a \in Addr, p[a] \in Place
  PROVE  b[a] \in Addr /\ b[a] # NoBlock /\ p[a][1] \in b[a] .. a /\ b[p[a][1]] = b[a] /\ b[b[a]] = b[a]
<1>1. PointerAt(b, p, a) /\ WholeAt(b, a) /\ b \in [Addr -> Addr \cup {NoBlock}]
  BY DEF Kept, Pointers, Whole, Shaped
<1>2. b[a] # NoBlock  BY <1>1, PlacesAreNotMarks DEF PointerAt
<1>3. b[a] \in Addr /\ p[a][1] \in Addr /\ b[a] \in Int /\ a \in Int /\ p[a][1] \in Int
  BY <1>1, <1>2, PlacesAreNotMarks
<1>4. p[a][1] \in b[a] .. a /\ b[a] \in b[a] .. a  BY <1>1, <1>3 DEF PointerAt
<1> QED BY <1>1, <1>2, <1>3, <1>4 DEF WholeAt

(* Blocks that are given up, whole: nothing is left of them.                 *)
LEMMA StillInsideWithout ==
  ASSUME BlocksAssumption, NEW m, NEW b, NEW p, NEW h, NEW z, Kept(m, b, p, h, z),
         NEW D \in SUBSET Addr, \A a \in Addr : b[a] # NoBlock => (a \in D) = (b[a] \in D),
         NEW h2, \A a \in Addr \ D : h2[a] = h[a],
         NEW a, NEW q, Inside(b, p, h, a, q), a \notin D
  PROVE  Inside(With(b, D, NoBlock), With(p, D, NoCode), h2, a, q)
<1> DEFINE b2 == With(b, D, NoBlock)  p2 == With(p, D, NoCode)
<1>1. b \in [Addr -> Addr \cup {NoBlock}] /\ p \in [Addr -> Place \cup {NoCode, Dynamic}]
  BY DEF Kept, Shaped
<1>2. \A c \in Addr : b2[c] = (IF c \in D THEN NoBlock ELSE b[c]) /\ p2[c] = (IF c \in D THEN NoCode ELSE p[c])
  BY <1>1 DEF With
<1> HIDE DEF b2, p2
<1>3. q \in Place /\ q[1] \in Addr /\ a \in Addr /\ b[a] # NoBlock /\ b[q[1]] = b[a]
  BY PlacesAreNotMarks DEF Inside
<1>4. q[1] \notin D  BY <1>3
<1>5. At(h2, q) = At(h, q)  BY <1>3, <1>4 DEF At
<1>6. \A c \in Addr : p2[c] = q => p[c] = q  BY <1>2, <1>3, PlacesAreNotMarks
<1>7. p2[a] = p[a] /\ b2[a] = b[a] /\ b2[q[1]] = b[q[1]]  BY <1>2, <1>3, <1>4
<1>8. Inside(b2, p2, h2, a, q)  BY <1>3, <1>5, <1>6, <1>7 DEF Inside
<1> QED BY <1>8 DEF b2, p2

(* What the rest relies on is not theirs.                                    *)
LEMMA Dropped ==
  ASSUME BlocksAssumption, NEW m, NEW b, NEW p, NEW h, NEW z, Kept(m, b, p, h, z),
         NEW D \in SUBSET Addr, \A a \in Addr : b[a] # NoBlock => (a \in D) = (b[a] \in D),
         NEW h2, DOMAIN h2 = Addr, \A a \in Addr : DOMAIN h2[a] = 0 .. PerSlot - 1,
         \A a \in Addr \ D : h2[a] = h[a],
         \A a \in D : At(h2, Slot(a)) \in {Mark, ByInturbo(a)},
         NEW m2 \in [Addr -> Value], \A a \in Addr \ D : m2[a] = m[a],
         NEW z2 \in BOOLEAN, z2 = z \/ (z2 /\ \A a \in Addr \ D : b[a] = NoBlock)
  PROVE  Kept(m2, With(b, D, NoBlock), With(p, D, NoCode), h2, z2)
<1> DEFINE b2 == With(b, D, NoBlock)  p2 == With(p, D, NoCode)
<1>1. b \in [Addr -> Addr \cup {NoBlock}] /\ p \in [Addr -> Place \cup {NoCode, Dynamic}]
  BY DEF Kept, Shaped
<1>2. \A c \in Addr : b2[c] = (IF c \in D THEN NoBlock ELSE b[c]) /\ p2[c] = (IF c \in D THEN NoCode ELSE p[c])
  BY <1>1 DEF With
<1>3. b2 \in [Addr -> Addr \cup {NoBlock}] /\ p2 \in [Addr -> Place \cup {NoCode, Dynamic}]
  BY <1>1 DEF With
<1>4. \A a, q : a \notin D /\ Inside(b, p, h, a, q) => Inside(b2, p2, h2, a, q)
  BY StillInsideWithout
<1> HIDE DEF b2, p2
<1>5. Shaped(m2, b2, p2, h2)  BY <1>3 DEF Shaped
<1>6. ASSUME NEW a \in Addr PROVE WholeAt(b2, a)
  <2> SUFFICES ASSUME b2[a] # NoBlock PROVE b2[a] <= a /\ \A c \in b2[a] .. a : b2[c] = b2[a]
    BY DEF WholeAt
  <2>1. a \notin D /\ b2[a] = b[a] /\ b[a] # NoBlock  BY <1>2
  <2>2. WholeAt(b, a)  BY DEF Kept, Whole
  <2>3. b[a] <= a /\ \A c \in b[a] .. a : b[c] = b[a]  BY <2>1, <2>2 DEF WholeAt
  <2>4. ASSUME NEW c \in b[a] .. a PROVE b2[c] = b[a]
    <3>1. c \in Addr  BY <1>1, <2>1, PlacesAreNotMarks DEF Addr, BlocksAssumption
    <3>2. b[c] = b[a] /\ c \notin D  BY <2>1, <2>3, <3>1
    <3> QED BY <3>1, <3>2, <1>2
  <2> QED BY <2>1, <2>3, <2>4
<1>7. ASSUME NEW a \in Addr PROVE PointerAt(b2, p2, a)
  <2>1. PointerAt(b, p, a)  BY DEF Kept, Pointers
  <2>2. CASE a \in D  BY <2>2, <1>2, PlacesAreNotMarks DEF PointerAt
  <2>3. CASE a \notin D  BY <2>1, <2>3, <1>2 DEF PointerAt
  <2> QED BY <2>2, <2>3
<1>8. ASSUME NEW a \in Addr PROVE SlotAt(p2, h2, a)
  <2>1. CASE a \in D  BY <2>1 DEF SlotAt
  <2>2. CASE a \notin D
    <3>1. SlotAt(p, h, a)  BY DEF Kept, Slots
    <3>2. At(h2, Slot(a)) = At(h, Slot(a))  BY <2>2, PlacesAreNotMarks DEF At
    <3> QED BY <3>1, <3>2, <2>2, <1>2 DEF SlotAt
  <2> QED BY <2>1, <2>2
<1>9. ASSUME NEW a \in Addr, NEW q \in Place, q = p2[a] PROVE CodeAt(m2, b2, p2, h2, z2, q)
  <2> DEFINE cell == At(h, q)
  <2>1. a \notin D /\ p[a] = q  BY <1>2, <1>9, PlacesAreNotMarks
  <2>2. CodeAt(m, b, p, h, z, q)  BY <2>1 DEF Kept, CodeOK
  <2>3. \A c \in Addr : p[c] = q => b[c] # NoBlock /\ b[q[1]] = b[c]  BY PointsWithin
  <2>4. q[1] \in Addr /\ q[1] \notin D  BY <2>1, <2>3, PlacesAreNotMarks
  <2>5. At(h2, q) = cell  BY <2>4 DEF At
  <2>6. \A c \in Addr : p[c] = q => c \notin D /\ p2[c] = q  BY <2>3, <2>4, <1>2
  <2>7. \A c \in Addr : p2[c] = q => p[c] = q  BY <1>2, PlacesAreNotMarks
  <2>8. z2 = z  BY <2>1, <2>3
  <2> HIDE DEF cell
  <2>9. CASE cell.k = "run" /\ Runnable(m, b, p, h, z, q, cell)
    <3> DEFINE i == cell.i
    <3>1. PointedFrom(p, q, i.at) /\ SameBytes(i, m)  BY <2>9 DEF Runnable
    <3>2. i.at \in Addr /\ i.at \notin D /\ p2[i.at] = q /\ b[i.at] # NoBlock
      BY <3>1, <2>3, <2>6 DEF PointedFrom
    <3>3. Bytes(i.op) = 2 =>
            i.at + 1 \in Addr /\ i.at + 1 \notin D /\ b2[i.at + 1] = b2[i.at] /\ p2[i.at + 1] = p[i.at + 1]
      BY <2>9, <3>2, <1>2 DEF Runnable
    <3>4. i.end \in Addr /\ b[i.end] = b[i.at] => i.end \notin D /\ b2[i.end] = b2[i.at]
      BY <3>2, <1>2
    <3> HIDE DEF i
    <3>5. SameBytes(i, m2)
      <4>1. m2[i.at] = m[i.at]  BY <3>2
      <4>2. Bytes(i.op) = 2 => m2[i.at + 1] = m[i.at + 1]  BY <3>3
      <4> QED BY <4>1, <4>2, <3>1 DEF SameBytes, InstructionAt
    <3>6. PointedFrom(p2, q, i.at)  BY <3>1, <3>2, <2>7 DEF PointedFrom
    <3> USE DEF i
    <3>7. Inside(b, p, h, i.end, cell.next) /\ b[i.end] = b[i.at] =>
            Inside(b2, p2, h2, i.end, cell.next) /\ b2[i.end] = b2[i.at]
      BY <3>4, <1>4 DEF Inside
    <3>8. Runnable(m2, b2, p2, h2, z2, q, cell)
      BY <2>8, <2>9, <3>3, <3>5, <3>6, <3>7 DEF Runnable
    <3> QED BY <3>8, <2>5, <2>9, IsCode
  <2>10. CASE cell.k = "interp" /\ AccessesRegister(m, p, q, cell)
    <3>1. cell.at \in Addr /\ cell.at + 1 \in Addr /\ p[cell.at] = q /\ p[cell.at + 1] = q
      BY <2>10 DEF AccessesRegister, PointedFrom
    <3>2. cell.at \notin D /\ cell.at + 1 \notin D /\ p2[cell.at] = q /\ p2[cell.at + 1] = q
      BY <3>1, <2>6
    <3>3. m2[cell.at] = m[cell.at] /\ m2[cell.at + 1] = m[cell.at + 1]  BY <3>1, <3>2
    <3>4. InstructionAt(m2, cell.at) = InstructionAt(m, cell.at)  BY <3>3 DEF InstructionAt
    <3>5. AccessesRegister(m2, p2, q, cell)
      BY <3>2, <3>3, <3>4, <2>7, <2>10 DEF AccessesRegister, PointedFrom
    <3> QED BY <3>5, <2>5, <2>10, IsCode
  <2> USE DEF cell
  <2> QED BY <2>2, <2>5, <2>9, <2>10, IsCode DEF CodeAt
<1>10. LooksAfter(b2, z2)
  <2>1. LooksAfter(b, z)  BY DEF Kept
  <2> QED BY <2>1, <1>2 DEF LooksAfter
<1> QED BY <1>5, <1>6, <1>7, <1>8, <1>9, <1>10 DEF Kept, Whole, Pointers, CodeOK, Slots, b2, p2

-----------------------------------------------------------------------------
(* The places of a block, and its instructions.                              *)
LEMMA Division ==
  ASSUME NEW x \in Nat, NEW d \in Nat, d > 0
  PROVE  x \div d \in Nat /\ x % d \in 0 .. d - 1 /\ x = d * (x \div d) + (x % d) /\ x \div d <= x
<1>1. x \div d \in Nat /\ x % d \in 0 .. d - 1  OBVIOUS
<1>2. x = d * (x \div d) + (x % d)  OBVIOUS
<1>3. ASSUME NEW q \in Nat, NEW r \in Nat, x = d * q + r PROVE q <= x
  <2>1. d * q = q + (d - 1) * q  OBVIOUS
  <2>2. (d - 1) * q >= 0  OBVIOUS
  <2> QED BY <1>3, <2>1, <2>2
<1> QED BY <1>1, <1>2, <1>3

LEMMA PlaceFollows ==
  ASSUME BlocksAssumption, NEW s \in Nat, NEW k \in Nat, NEW q, q = PlaceOf(s, k)
  PROVE  /\ q = <<q[1], q[2]>> /\ q[1] \in s .. s + k /\ q[2] \in 0 .. PerSlot - 1
         /\ q[2] = 0 <=> k = 0
         /\ k = 0 => q = Slot(s)
<1>1. PerSlot - 1 \in Nat /\ PerSlot - 1 > 0 /\ PerSlot \in Nat  BY DEF BlocksAssumption
<1>2. CASE k < PerSlot  BY <1>1, <1>2 DEF PlaceOf, Slot
<1>3. CASE ~ (k < PerSlot)
  <2>1. k - PerSlot \in Nat  BY <1>1, <1>3
  <2> DEFINE y == (k - PerSlot) \div (PerSlot - 1)  r == (k - PerSlot) % (PerSlot - 1)
  <2>2. y \in Nat /\ r \in 0 .. (PerSlot - 1) - 1 /\ y <= k - PerSlot  BY <2>1, <1>1, Division
  <2>3. q = <<s + 1 + y, 1 + r>>  BY <1>3 DEF PlaceOf
  <2> HIDE DEF y, r
  <2> QED BY <2>2, <2>3, <1>1, <1>3
<1> QED BY <1>2, <1>3

LEMMA PlacesDiffer ==
  ASSUME BlocksAssumption, NEW s \in Nat, NEW k \in Nat, NEW l \in Nat, PlaceOf(s, k) = PlaceOf(s, l)
  PROVE  k = l
<1>1. PerSlot - 1 \in Nat /\ PerSlot - 1 > 0 /\ PerSlot \in Nat  BY DEF BlocksAssumption
<1>2. ASSUME NEW x \in Nat, NEW y \in Nat, x < PerSlot, ~ (y < PerSlot), PlaceOf(s, x) = PlaceOf(s, y)
      PROVE  x = y
  <2>1. y - PerSlot \in Nat  BY <1>1, <1>2
  <2>2. (y - PerSlot) \div (PerSlot - 1) \in Nat  BY <2>1, <1>1, Division
  <2>3. PlaceOf(s, x)[1] = s  BY <1>2 DEF PlaceOf
  <2>4. PlaceOf(s, y)[1] = s + 1 + ((y - PerSlot) \div (PerSlot - 1))  BY <1>2 DEF PlaceOf
  <2> QED BY <2>2, <2>3, <2>4, <1>2
<1>3. CASE k < PerSlot /\ l < PerSlot  BY <1>3 DEF PlaceOf
<1>4. CASE ~ (k < PerSlot) /\ ~ (l < PerSlot)
  <2>1. k - PerSlot \in Nat /\ l - PerSlot \in Nat  BY <1>1, <1>4
  <2> DEFINE x == k - PerSlot  y == l - PerSlot  d == PerSlot - 1
  <2>2. s + 1 + (x \div d) = s + 1 + (y \div d) /\ 1 + (x % d) = 1 + (y % d)
    BY <1>4 DEF PlaceOf
  <2>3. /\ x \div d \in Nat /\ x % d \in 0 .. d - 1 /\ x = d * (x \div d) + (x % d)
        /\ y \div d \in Nat /\ y % d \in 0 .. d - 1 /\ y = d * (y \div d) + (y % d)
    BY <2>1, <1>1, Division
  <2>4. x \div d = y \div d /\ x % d = y % d  BY <2>2, <2>3
  <2>5. x = y  BY <2>3, <2>4
  <2> QED BY <2>5, <1>1
<1> QED BY <1>2, <1>3, <1>4

(* A set of numbers has a least one: the induction of the lemmas below.      *)
LessThan == {ss \in Nat \X Nat : ss[1] < ss[2]}
LEMMA LeastExists ==
  ASSUME NEW S \in SUBSET Nat, S # {} PROVE \E n \in S : \A k \in S : n <= k
<1>1. IsWellFoundedOn(LessThan, Nat)  BY NatLessThanWellFounded, Zenon DEF LessThan, OpToRel
<1>2. PICK n \in S : \A k \in S : ~ (<<k, n>> \in LessThan)  BY <1>1, WFMin
<1>3. \A x, y \in Nat : y < x => <<y, x>> \in LessThan  BY DEF LessThan
<1>4. ASSUME NEW k \in S PROVE n <= k
  <2>1. n \in Nat /\ k \in Nat  OBVIOUS
  <2>2. ~ (k < n)  BY <1>2, <1>3, <2>1
  <2> QED BY <2>1, <2>2
<1> QED BY <1>4

(* The instructions of a block from addr, as the compiler has them.          *)
KindOK(i, last) ==
  /\ i.kind \in {"plain", "operand", "opcode", "jumped_into"}
  /\ i.kind = "operand" => Stores(i) /\ ~EndsBlock(i)
  /\ i.kind = "jumped_into" => Bytes(i.op) = 2 /\ last
CompiledFrom(m, i) ==
  LET now == InstructionAt(m, i.at)
  IN  i.at \in Addr /\ i.op = now.op /\ i.arg = now.arg /\ i.end = i.at + Bytes(i.op)
Listed(m, addr, list, n) ==
  /\ n \in Nat /\ n > 0 /\ DOMAIN list = 1 .. n /\ Len(list) = n
  /\ addr \in Addr /\ list[1].at = addr
  /\ \A k \in 1 .. n : CompiledFrom(m, list[k]) /\ KindOK(list[k], k = n)
  /\ \A k \in 1 .. n - 1 : list[k + 1].at = list[k].end

LEMMA OneOrTwo == \A op : Bytes(op) \in {1, 2}
BY DEF Bytes

LEMMA ListedInOrder ==
  ASSUME BlocksAssumption, NEW m, NEW addr, NEW list, NEW n, Listed(m, addr, list, n)
  PROVE  /\ \A k \in 1 .. n : /\ addr + k - 1 <= list[k].at /\ list[k].at < list[k].end
                              /\ list[k].at \in Nat /\ list[k].end \in Nat
         /\ \A j, k \in 1 .. n : j < k => list[j].end <= list[k].at
         /\ \A k \in 1 .. n : list[k].end <= list[n].end
         /\ \A a \in addr .. list[n].end - 1 : \E k \in 1 .. n : a \in list[k].at .. list[k].end - 1
<1>1. n \in Nat /\ n > 0 /\ addr \in Nat /\ list[1].at = addr
  BY DEF Listed, Addr
<1>2. \A k \in 1 .. n : list[k].at \in Nat /\ list[k].end \in Nat /\ list[k].at < list[k].end
  <2> TAKE k \in 1 .. n
  <2>1. list[k].at \in Nat /\ list[k].end = list[k].at + Bytes(list[k].op)
    BY DEF Listed, CompiledFrom, Addr
  <2> QED BY <2>1, OneOrTwo
<1>3. \A k \in 1 .. n : k > 1 => k - 1 \in 1 .. n /\ list[k].at = list[k - 1].end
  <2> TAKE k \in 1 .. n
  <2> HAVE k > 1
  <2>1. k - 1 \in 1 .. n - 1 /\ (k - 1) + 1 = k  BY <1>1
  <2> QED BY <2>1, <1>1 DEF Listed
<1>4. ASSUME NEW k \in 1 .. n PROVE addr + k - 1 <= list[k].at
  <2> DEFINE S == {x \in 1 .. n : ~ (addr + x - 1 <= list[x].at)}
  <2> SUFFICES S = {}  BY <1>1
  <2> SUFFICES ASSUME S # {} PROVE FALSE  OBVIOUS
  <2>1. S \in SUBSET Nat  BY <1>1
  <2>2. PICK x \in S : \A y \in S : x <= y  BY <2>1, LeastExists
  <2>3. x # 1  BY <1>1
  <2>4. x \in 1 .. n /\ x > 1 /\ x - 1 \in 1 .. n /\ x - 1 \notin S  BY <2>2, <2>3, <1>1
  <2>5. addr + (x - 1) - 1 <= list[x - 1].at  BY <2>4
  <2> QED BY <2>4, <2>5, <1>1, <1>2, <1>3
<1>5. ASSUME NEW j \in 1 .. n, NEW k \in 1 .. n, j < k PROVE list[j].end <= list[k].at
  <2> DEFINE S == {x \in 1 .. n : j < x /\ ~ (list[j].end <= list[x].at)}
  <2> SUFFICES S = {}  BY <1>5
  <2> SUFFICES ASSUME S # {} PROVE FALSE  OBVIOUS
  <2>1. S \in SUBSET Nat  BY <1>1
  <2>2. PICK x \in S : \A y \in S : x <= y  BY <2>1, LeastExists
  <2>3. x \in 1 .. n /\ x > 1 /\ j < x /\ x - 1 \in 1 .. n /\ x - 1 \notin S  BY <2>2, <1>1
  <2>4. list[x].at = list[x - 1].end  BY <2>3, <1>3
  <2>5. CASE x - 1 = j  BY <2>2, <2>4, <2>5, <1>2
  <2>6. CASE x - 1 # j
    <3>1. j < x - 1  BY <2>3, <2>6
    <3>2. list[j].end <= list[x - 1].at  BY <3>1, <2>3
    <3> QED BY <3>2, <2>2, <2>3, <2>4, <1>2
  <2> QED BY <2>5, <2>6
<1>6. ASSUME NEW k \in 1 .. n PROVE list[k].end <= list[n].end
  <2>1. n \in 1 .. n  BY <1>1
  <2>2. CASE k = n  BY <2>2, <2>1, <1>2
  <2>3. CASE k < n
    <3>1. list[k].end <= list[n].at  BY <2>1, <2>3, <1>5
    <3> QED BY <3>1, <2>1, <1>2
  <2> QED BY <2>2, <2>3, <1>1
<1>7. ASSUME NEW a \in addr .. list[n].end - 1
      PROVE  \E k \in 1 .. n : a \in list[k].at .. list[k].end - 1
  <2> DEFINE S == {x \in 1 .. n : a < list[x].end}
  <2>1. n \in 1 .. n  BY <1>1
  <2>2. n \in S /\ S \in SUBSET Nat /\ a \in Nat  BY <2>1, <1>1, <1>2
  <2>3. PICK x \in S : \A y \in S : x <= y  BY <2>2, LeastExists
  <2>4. x \in 1 .. n /\ a < list[x].end  BY <2>3
  <2>5. CASE x = 1
    <3>1. list[x].at <= a  BY <2>5, <1>1
    <3> QED BY <3>1, <2>2, <2>4, <1>2
  <2>6. CASE x # 1
    <3>1. x - 1 \in 1 .. n /\ list[x].at = list[x - 1].end  BY <2>4, <2>6, <1>1, <1>3
    <3>2. x - 1 \notin S  BY <2>3, <3>1, <2>4
    <3>3. list[x].at <= a  BY <3>1, <3>2, <2>2, <1>2
    <3> QED BY <3>3, <2>2, <2>4, <1>2
  <2> QED BY <2>5, <2>6
<1> QED BY <1>2, <1>4, <1>5, <1>6, <1>7

(* A block that is made where there is none.                                 *)
Fits(m, b, addr, list, n, z) ==
  /\ Listed(m, addr, list, n) /\ list[n].end \in Addr
  /\ \A a \in addr .. list[n].end - 1 : b[a] = NoBlock
  /\ ~z => ~ (addr < ZeroPage)
Following(addr, list, n, k) == IF k < n THEN PlaceOf(addr, k) ELSE Slot(list[n].end)
Made(h, h2, addr, list, n, z) ==
  /\ DOMAIN h2 = Addr /\ \A a \in Addr : DOMAIN h2[a] = 0 .. PerSlot - 1
  /\ \A a \in Addr : a \notin addr .. list[n].end - 1 => h2[a] = h[a]
  /\ \A k \in 1 .. n : At(h2, PlaceOf(addr, k - 1)) = CellOf(list[k], z, Following(addr, list, n, k))
  /\ \A a \in addr + 1 .. list[n].end - 1 : At(h2, Slot(a)) \in {Mark, ByInturbo(a)}

LEMMA ExtentOfList ==
  ASSUME BlocksAssumption, NEW m, NEW b, NEW addr, NEW list, NEW n, NEW z, Fits(m, b, addr, list, n, z)
  PROVE  /\ addr .. list[n].end - 1 \subseteq Addr /\ addr \in addr .. list[n].end - 1
         /\ n \in 1 .. n /\ 1 \in 1 .. n /\ n \in Nat /\ addr \in Nat /\ list[n].end \in Nat
         /\ \A k \in 1 .. n : list[k].at .. list[k].end - 1 \subseteq addr .. list[n].end - 1
         /\ \A k \in 1 .. n : list[k].at \in list[k].at .. list[k].end - 1
<1>1. Listed(m, addr, list, n) /\ list[n].end \in Addr  BY DEF Fits
<1>2. n \in 1 .. n /\ 1 \in 1 .. n /\ n \in Nat /\ addr \in Nat /\ list[n].end \in Nat /\ addr \in Addr /\ list[1].at = addr
  BY <1>1 DEF Listed, Addr
<1>3. \A k \in 1 .. n : /\ addr + k - 1 <= list[k].at /\ list[k].at < list[k].end
                        /\ list[k].at \in Nat /\ list[k].end \in Nat /\ list[k].end <= list[n].end
  BY <1>1, ListedInOrder
<1>4. addr .. list[n].end - 1 \subseteq Addr  BY <1>1, <1>2 DEF Addr, BlocksAssumption
<1>5. addr \in addr .. list[n].end - 1  BY <1>2, <1>3
<1>6. \A k \in 1 .. n : list[k].at .. list[k].end - 1 \subseteq addr .. list[n].end - 1
  BY <1>2, <1>3
<1> QED BY <1>2, <1>3, <1>4, <1>5, <1>6

LEMMA PlacesOfList ==
  ASSUME BlocksAssumption, NEW m, NEW b, NEW addr, NEW list, NEW n, NEW z, Fits(m, b, addr, list, n, z),
         NEW k \in 1 .. n, NEW q, q = PlaceOf(addr, k - 1)
  PROVE  /\ q \in Place /\ q[1] \in addr .. list[n].end - 1 /\ addr <= q[1] /\ q[1] <= list[k].at
         /\ (q[2] = 0) = (k = 1)
         /\ k = 1 => q = Slot(addr)
<1>1. Listed(m, addr, list, n)  BY DEF Fits
<1>2. n \in Nat /\ addr \in Nat /\ k - 1 \in Nat /\ addr .. list[n].end - 1 \subseteq Addr
      /\ list[k].at \in addr .. list[n].end - 1 /\ list[n].end \in Nat
  BY ExtentOfList
<1>3. /\ q = <<q[1], q[2]>> /\ q[1] \in addr .. addr + (k - 1) /\ q[2] \in 0 .. PerSlot - 1
      /\ q[2] = 0 <=> k - 1 = 0
      /\ k - 1 = 0 => q = Slot(addr)
  BY <1>2, PlaceFollows
<1>4. addr + k - 1 <= list[k].at  BY <1>1, ListedInOrder
<1>5. q[1] \in addr .. list[n].end - 1 /\ addr <= q[1] /\ q[1] <= list[k].at  BY <1>2, <1>3, <1>4
<1> QED BY <1>2, <1>3, <1>5 DEF Place

LEMMA NewPointers ==
  ASSUME BlocksAssumption, NEW m, NEW b, NEW p, NEW addr, NEW list, NEW n, NEW z, Fits(m, b, addr, list, n, z)
  PROVE  /\ \A k \in 1 .. n : \A a \in list[k].at .. list[k].end - 1 :
              NewPtrs(p, addr, list)[a] = PtrOf(list[k], a, PlaceOf(addr, k - 1))
         /\ \A a \in Addr : a \notin addr .. list[n].end - 1 => NewPtrs(p, addr, list)[a] = p[a]
         /\ DOMAIN NewPtrs(p, addr, list) = Addr
<1> DEFINE within(a) == {k \in DOMAIN list : a \in list[k].at .. list[k].end - 1}
<1>1. Listed(m, addr, list, n) /\ DOMAIN list = 1 .. n  BY DEF Fits, Listed
<1>2. ASSUME NEW k \in 1 .. n, NEW a \in list[k].at .. list[k].end - 1, NEW l \in within(a)  PROVE l = k
  <2>1. l \in 1 .. n /\ a \in list[l].at .. list[l].end - 1  BY <1>1
  <2>2. \A j, x \in 1 .. n : j < x => list[j].end <= list[x].at  BY <1>1, ListedInOrder
  <2>3. \A x \in 1 .. n : list[x].at \in Nat /\ list[x].end \in Nat  BY <1>1, ListedInOrder
  <2>4. n \in Nat  BY ExtentOfList
  <2> QED BY <2>1, <2>2, <2>3, <2>4
<1>3. ASSUME NEW k \in 1 .. n, NEW a \in list[k].at .. list[k].end - 1
      PROVE  NewPtrs(p, addr, list)[a] = PtrOf(list[k], a, PlaceOf(addr, k - 1))
  <2>1. k \in within(a)  BY <1>1
  <2>2. a \in Addr  BY ExtentOfList
  <2>3. (CHOOSE l \in within(a) : TRUE) = k  BY <1>2, <2>1
  <2>4. NewPtrs(p, addr, list)[a] =
          LET l == CHOOSE l \in within(a) : TRUE
          IN  IF within(a) = {} THEN p[a] ELSE PtrOf(list[l], a, PlaceOf(addr, l - 1))
    BY <2>2 DEF NewPtrs
  <2> HIDE DEF within
  <2> QED BY <2>1, <2>3, <2>4
<1>4. ASSUME NEW a \in Addr, a \notin addr .. list[n].end - 1 PROVE NewPtrs(p, addr, list)[a] = p[a]
  <2>1. within(a) = {}  BY <1>1, <1>4, ExtentOfList
  <2> QED BY <2>1 DEF NewPtrs
<1> QED BY <1>3, <1>4 DEF NewPtrs

LEMMA PointersToList ==
  ASSUME BlocksAssumption, NEW m, NEW b, NEW p, NEW h, NEW z, Kept(m, b, p, h, z),
         NEW addr, NEW list, NEW n, Fits(m, b, addr, list, n, z),
         NEW k \in 1 .. n, NEW q, q = PlaceOf(addr, k - 1), NEW p2, p2 = NewPtrs(p, addr, list)
  PROVE  /\ \A c \in Addr : p2[c] = q =>
              /\ c \in list[k].at .. list[k].end - 1 /\ list[k].kind # "opcode"
              /\ list[k].kind = "operand" => c = list[k].at
         /\ list[k].kind # "opcode" => PointedFrom(p2, q, list[k].at)
<1> DEFINE ext == addr .. list[n].end - 1
<1>1. Listed(m, addr, list, n) /\ (\A a \in ext : b[a] = NoBlock)  BY DEF Fits
<1>2. q \in Place /\ q[1] \in ext /\ ext \subseteq Addr  BY PlacesOfList, ExtentOfList
<1>3. ASSUME NEW c \in Addr, p2[c] = q
      PROVE  /\ c \in list[k].at .. list[k].end - 1 /\ list[k].kind # "opcode"
             /\ list[k].kind = "operand" => c = list[k].at
  <2>1. CASE c \notin ext
    <3>1. p[c] = q  BY <2>1, <1>3, NewPointers
    <3>2. b[q[1]] = b[c] /\ b[c] # NoBlock  BY <3>1, <1>2, PointsWithin
    <3> QED BY <3>2, <1>1, <1>2
  <2>2. CASE c \in ext
    <3>1. PICK l \in 1 .. n : c \in list[l].at .. list[l].end - 1  BY <2>2, <1>1, ListedInOrder
    <3>2. q = PtrOf(list[l], c, PlaceOf(addr, l - 1))  BY <3>1, <1>3, NewPointers
    <3>3. q # Dynamic  BY <1>2, PlacesAreNotMarks
    <3>4. list[l].kind # "opcode" /\ (list[l].kind = "operand" => c = list[l].at) /\ q = PlaceOf(addr, l - 1)
      BY <3>2, <3>3 DEF PtrOf
    <3>5. l - 1 = k - 1
      <4>1. l - 1 \in Nat /\ k - 1 \in Nat /\ addr \in Nat  BY ExtentOfList
      <4> QED BY <4>1, <3>4, PlacesDiffer
    <3>6. l = k  BY <3>5, ExtentOfList
    <3> QED BY <3>1, <3>4, <3>6
  <2> QED BY <2>1, <2>2
<1>4. ASSUME list[k].kind # "opcode" PROVE PointedFrom(p2, q, list[k].at)
  <2>1. list[k].at \in list[k].at .. list[k].end - 1 /\ list[k].at \in Addr  BY ExtentOfList
  <2>2. p2[list[k].at] = q  BY <2>1, <1>4, NewPointers DEF PtrOf
  <2> QED BY <2>1, <2>2, <1>3 DEF PointedFrom
<1> QED BY <1>3, <1>4

LEMMA CellOfOpcode ==
  ASSUME NEW i, NEW z, NEW next, i.kind = "opcode" PROVE CellOf(i, z, next) = ByInturbo(i.at)
BY DEF CellOf, ByInturbo

LEMMA CellOfOther ==
  ASSUME NEW i, NEW z, NEW next, i.kind # "opcode" PROVE CellOf(i, z, next).k \in {"run", "interp"}
<1>1. CASE ToRegister(i, i.arg)
  <2>1. CellOf(i, z, next) = [k |-> "interp", at |-> i.at]  BY <1>1 DEF CellOf
  <2> QED BY <2>1
<1>2. CASE ~ ToRegister(i, i.arg)
  <2>1. CellOf(i, z, next) = [k |-> "run", i |-> i, next |-> next, marks |-> i.op = "sta" \/ z]
    BY <1>2 DEF CellOf
  <2> QED BY <2>1
<1> QED BY <1>1, <1>2

(* A block made where nothing is compiled.                                   *)
LEMMA NewBlock ==
  ASSUME BlocksAssumption, NEW m, NEW b, NEW p, NEW h, NEW z, Kept(m, b, p, h, z),
         NEW addr, NEW list, NEW n, Fits(m, b, addr, list, n, z),
         NEW h2, Made(h, h2, addr, list, n, z)
  PROVE  Kept(m, With(b, addr .. list[n].end - 1, addr), NewPtrs(p, addr, list), h2, z)
<1> DEFINE end == list[n].end  ext == addr .. end - 1
           b2 == With(b, ext, addr)  p2 == NewPtrs(p, addr, list)  Q(k) == PlaceOf(addr, k - 1)
<1>1. Listed(m, addr, list, n) /\ (\A a \in ext : b[a] = NoBlock)  BY DEF Fits
<1>2. /\ m \in [Addr -> Value] /\ b \in [Addr -> Addr \cup {NoBlock}]
      /\ p \in [Addr -> Place \cup {NoCode, Dynamic}]
  BY DEF Kept, Shaped
<1>3. /\ ext \subseteq Addr /\ addr \in ext /\ addr \in Addr /\ n \in 1 .. n /\ 1 \in 1 .. n
      /\ n \in Nat /\ end \in Addr /\ end \in Nat /\ addr \in Nat
  BY ExtentOfList DEF Fits
<1>4. \A c \in Addr : b2[c] = IF c \in ext THEN addr ELSE b[c]  BY <1>2 DEF With
<1>5. \A c \in Addr : c \notin ext => p2[c] = p[c]  BY NewPointers
<1>6. \A k \in 1 .. n : Q(k) \in Place /\ Q(k)[1] \in ext /\ addr <= Q(k)[1] /\ Q(k)[1] <= list[k].at
                        /\ (Q(k)[2] = 0) = (k = 1) /\ (k = 1 => Q(k) = Slot(addr))
  BY PlacesOfList
<1>7. ASSUME NEW c \in ext
      PROVE  \E k \in 1 .. n : /\ c \in list[k].at .. list[k].end - 1
                               /\ p2[c] = PtrOf(list[k], c, Q(k))
                               /\ p2[c] \in {Dynamic, Q(k)}
  <2>1. PICK k \in 1 .. n : c \in list[k].at .. list[k].end - 1  BY <1>1, ListedInOrder
  <2>2. p2[c] = PtrOf(list[k], c, Q(k))  BY <2>1, NewPointers
  <2> QED BY <2>1, <2>2 DEF PtrOf
<1>8. \A k \in 1 .. n : /\ \A c \in Addr : p2[c] = Q(k) =>
                             /\ c \in list[k].at .. list[k].end - 1 /\ list[k].kind # "opcode"
                             /\ list[k].kind = "operand" => c = list[k].at
                        /\ list[k].kind # "opcode" => PointedFrom(p2, Q(k), list[k].at)
  <2> TAKE k \in 1 .. n
  <2> QED BY PointersToList
<1>9. DOMAIN b2 = Addr /\ DOMAIN p2 = Addr  BY <1>2, NewPointers DEF With
<1>10. \A k \in 1 .. n : At(h2, Q(k)) = CellOf(list[k], z, Following(addr, list, n, k))  BY DEF Made
<1>11. \A a \in Addr : a \notin ext => h2[a] = h[a]  BY DEF Made
<1>22. \A k \in 1 .. n : \A a \in list[k].at .. list[k].end - 1 : p2[a] = PtrOf(list[k], a, Q(k))
  BY NewPointers
<1> HIDE DEF b2, p2
<1>12. Shaped(m, b2, p2, h2)
  <2>1. b2 \in [Addr -> Addr \cup {NoBlock}]
    <3>1. \A c \in Addr : b2[c] \in Addr \cup {NoBlock}  BY <1>2, <1>3, <1>4
    <3>2. b2 = [c \in Addr |-> b2[c]]  BY <1>9 DEF b2, With
    <3> QED BY <3>1, <3>2
  <2>2. p2 \in [Addr -> Place \cup {NoCode, Dynamic}]
    <3>1. ASSUME NEW c \in Addr PROVE p2[c] \in Place \cup {NoCode, Dynamic}
      <4>1. CASE c \in ext  BY <4>1, <1>6, <1>7
      <4>2. CASE c \notin ext  BY <4>2, <1>2, <1>5
      <4> QED BY <4>1, <4>2
    <3>2. p2 = [c \in Addr |-> p2[c]]  BY <1>9 DEF p2, NewPtrs
    <3> QED BY <3>1, <3>2
  <2>3. DOMAIN h2 = Addr /\ \A a \in Addr : DOMAIN h2[a] = 0 .. PerSlot - 1  BY DEF Made
  <2> QED BY <1>2, <2>1, <2>2, <2>3 DEF Shaped
<1>13. ASSUME NEW a \in Addr PROVE WholeAt(b2, a)
  <2> SUFFICES ASSUME b2[a] # NoBlock PROVE b2[a] <= a /\ \A c \in b2[a] .. a : b2[c] = b2[a]
    BY DEF WholeAt
  <2>1. CASE a \in ext
    <3>1. b2[a] = addr  BY <2>1, <1>4
    <3>2. \A c \in addr .. a : c \in ext  BY <2>1, <1>3
    <3> QED BY <3>1, <3>2, <2>1, <1>3, <1>4
  <2>2. CASE a \notin ext
    <3>1. b2[a] = b[a] /\ WholeAt(b, a)  BY <2>2, <1>4 DEF Kept, Whole
    <3>2. b[a] <= a /\ \A c \in b[a] .. a : b[c] = b[a]  BY <3>1 DEF WholeAt
    <3>3. ASSUME NEW c \in b[a] .. a PROVE b2[c] = b[a]
      <4>1. b[c] = b[a] /\ c \notin ext  BY <3>1, <3>2, <1>1
      <4>2. c \in Addr  BY <3>1, <1>2, PlacesAreNotMarks DEF Addr, BlocksAssumption
      <4> QED BY <4>1, <4>2, <1>4
    <3> QED BY <3>1, <3>2, <3>3
  <2> QED BY <2>1, <2>2
<1>14. ASSUME NEW a \in Addr PROVE PointerAt(b2, p2, a)
  <2>1. CASE a \in ext
    <3>1. b2[a] = addr /\ addr # NoBlock  BY <2>1, <1>3, <1>4, PlacesAreNotMarks
    <3>2. PICK k \in 1 .. n : a \in list[k].at .. list[k].end - 1 /\ p2[a] \in {Dynamic, Q(k)}
      BY <2>1, <1>7
    <3>3. p2[a] # NoCode  BY <3>2, <1>6, PlacesAreNotMarks
    <3>4. p2[a] \in Place => p2[a] = Q(k)  BY <3>2, PlacesAreNotMarks
    <3>5. list[k].at <= a /\ Q(k)[1] <= a
      <4>1. list[k].at \in Nat /\ list[k].end \in Nat  BY <1>1, ListedInOrder
      <4>2. Q(k)[1] \in ext  BY <1>6
      <4>3. Q(k)[1] \in Nat  BY <4>2, <1>3
      <4> QED BY <4>1, <4>3, <3>2, <1>6
    <3>6. Q(k)[2] = 0 => Q(k)[1] = addr  BY <1>6, <1>3, PlacesAreNotMarks
    <3> HIDE DEF Q
    <3> QED BY <3>1, <3>3, <3>4, <3>5, <3>6, <1>6 DEF PointerAt
  <2>2. CASE a \notin ext
    <3>1. PointerAt(b, p, a)  BY DEF Kept, Pointers
    <3> QED BY <3>1, <2>2, <1>4, <1>5 DEF PointerAt
  <2> QED BY <2>1, <2>2
<1>15. LooksAfter(b2, z)
  <2>1. LooksAfter(b, z) /\ (~z => ~ (addr < ZeroPage))  BY DEF Kept, Fits
  <2>2. ASSUME ~z, NEW a \in Addr, a < ZeroPage PROVE b2[a] = NoBlock
    <3>1. ZeroPage \in Nat  BY DEF BlocksAssumption, Addr
    <3>2. a \notin ext  BY <2>1, <2>2, <3>1, <1>3
    <3> QED BY <3>2, <2>1, <2>2, <1>4 DEF LooksAfter
  <2> QED BY <2>2 DEF LooksAfter
<1>16. \A c \in Addr : \A q \in Place : p2[c] = q /\ q[1] \notin ext => p[c] = q
  <2> TAKE c \in Addr
  <2> TAKE q \in Place
  <2>1. CASE c \in ext  BY <2>1, <1>6, <1>7, PlacesAreNotMarks
  <2>2. CASE c \notin ext  BY <2>2, <1>5
  <2> QED BY <2>1, <2>2
<1>17. ASSUME NEW a \in Addr, a \notin ext, NEW q, Inside(b, p, h, a, q) PROVE Inside(b2, p2, h2, a, q)
  <2>1. q \in Place /\ q[1] \in Addr /\ b[a] # NoBlock /\ b[q[1]] = b[a]
    BY <1>17, PlacesAreNotMarks DEF Inside
  <2>2. q[1] \notin ext  BY <2>1, <1>1
  <2>3. At(h2, q) = At(h, q)  BY <2>1, <2>2, <1>11 DEF At
  <2>4. \A c \in Addr : p2[c] = q => p[c] = q  BY <2>1, <2>2, <1>16
  <2>5. b2[a] = b[a] /\ b2[q[1]] = b[q[1]] /\ p2[a] = p[a]  BY <2>1, <2>2, <1>4, <1>5, <1>17
  <2> QED BY <1>17, <2>3, <2>4, <2>5 DEF Inside
<1>18. ASSUME NEW k \in 1 .. n, k < n PROVE Inside(b2, p2, h2, list[k].end, Q(k + 1))
  <2>1. k + 1 \in 1 .. n /\ k \in 1 .. n - 1 /\ k + 1 # 1  BY <1>3, <1>18
  <2>2. list[k + 1].at = list[k].end  BY <2>1, <1>1 DEF Listed
  <2>3. list[k].end \in ext /\ list[k].end \in Addr  BY <2>1, <2>2, <1>3, ExtentOfList
  <2> DEFINE q == Q(k + 1)
  <2>4. q \in Place /\ q[2] # 0 /\ q[1] \in ext /\ q[1] \in Addr  BY <2>1, <1>3, <1>6
  <2>5. b2[list[k].end] = addr /\ b2[q[1]] = addr /\ addr # NoBlock
    BY <2>3, <2>4, <1>3, <1>4, PlacesAreNotMarks
  <2>6. CASE list[k + 1].kind = "opcode"
    <3>1. At(h2, q) = CellOf(list[k + 1], z, Following(addr, list, n, k + 1))  BY <2>1, <1>10
    <3>2. At(h2, q) = ByInturbo(list[k].end)  BY <3>1, <2>2, <2>6, CellOfOpcode
    <3>3. \A c \in Addr : p2[c] # q  BY <2>1, <2>6, <1>8
    <3> QED BY <3>2, <3>3, <2>3, <2>4, <2>5 DEF Inside
  <2>7. CASE list[k + 1].kind # "opcode"
    <3>1. PointedFrom(p2, q, list[k].end)  BY <2>1, <2>2, <2>7, <1>8
    <3> QED BY <3>1, <2>3, <2>4, <2>5 DEF Inside, PointedFrom
  <2> QED BY <2>6, <2>7
<1>19. ASSUME NEW k \in 1 .. n, list[k].kind # "opcode" PROVE CodeAt(m, b2, p2, h2, z, Q(k))
  <2> DEFINE i == list[k]  cell == At(h2, Q(k))  q == Q(k)
  <2>1. CompiledFrom(m, i) /\ KindOK(i, k = n)  BY <1>1 DEF Listed
  <2>2. cell = CellOf(i, z, Following(addr, list, n, k))  BY <1>10
  <2>3. PointedFrom(p2, q, i.at)  BY <1>8, <1>19
  <2>4. i.at \in Addr /\ i.end = i.at + Bytes(i.op) /\ i.at \in Nat  BY <2>1 DEF CompiledFrom, Addr
  <2>5. i.at .. i.end - 1 \subseteq ext  BY ExtentOfList
  <2>6. Bytes(i.op) = 2 => i.at + 1 \in i.at .. i.end - 1 /\ i.at + 1 \in ext /\ i.at + 1 \in Addr /\ i.at + 1 # i.at
    BY <2>4, <2>5, <1>3
  <2>7. i.at \in ext  BY <1>3, ExtentOfList
  <2>8. Bytes(i.op) = 2 => b2[i.at + 1] = b2[i.at] /\ b2[i.at] = addr  BY <2>6, <2>7, <1>3, <1>4
  <2>9. Bytes(i.op) = 2 => p2[i.at + 1] = PtrOf(i, i.at + 1, q)  BY <2>6, <1>22
  <2>10. SameBytes(i, m)  BY <2>1 DEF CompiledFrom, SameBytes
  <2>11. i.kind = "operand" => ~ ToRegister(i, i.arg)  BY <2>1 DEF KindOK, EndsBlock
  <2>12. Following(addr, list, n, k) = Slot(i.end)
         \/ (Inside(b2, p2, h2, i.end, Following(addr, list, n, k)) /\ b2[i.end] = b2[i.at])
    <3>1. CASE k < n
      <4>1. Following(addr, list, n, k) = Q(k + 1)  BY <3>1, <1>3 DEF Following
      <4>2. k + 1 \in 1 .. n /\ k \in 1 .. n - 1 /\ list[k + 1].at = i.end
        BY <3>1, <1>1, <1>3 DEF Listed
      <4>3. i.end \in ext  BY <4>2, ExtentOfList
      <4>4. b2[i.end] = b2[i.at]  BY <4>3, <2>7, <1>3, <1>4
      <4> QED BY <4>1, <4>4, <3>1, <1>18
    <3>2. CASE ~ (k < n)
      <4>1. k = n  BY <3>2, <1>3
      <4> QED BY <4>1 DEF Following
    <3> QED BY <3>1, <3>2
  <2> DEFINE next == Following(addr, list, n, k)
  <2> HIDE DEF next, cell, q, i
  <2>13. CASE ToRegister(i, i.arg)
    <3>1. i.kind # "opcode" /\ i.kind # "operand"  BY <1>19, <2>11, <2>13 DEF i
    <3>2. cell = Interpreted(i.at)  BY <2>2, <2>13, <3>1 DEF CellOf, Interpreted, next
    <3>3. Bytes(i.op) = 2  BY <2>13 DEF ToRegister, Stores, Bytes
    <3>4. p2[i.at + 1] = q /\ i.at + 1 \in Addr  BY <3>1, <3>3, <2>6, <2>9 DEF PtrOf
    <3>5. i.arg = m[i.at + 1] /\ InstructionAt(m, i.at).op = i.op
      BY <2>1, <3>3 DEF CompiledFrom, InstructionAt
    <3>6. ToRegister(InstructionAt(m, i.at), m[i.at + 1])
      BY <3>5, <2>13 DEF ToRegister, Stores, StoresTo
    <3>7. AccessesRegister(m, p2, q, cell)  BY <3>2, <3>4, <3>6, <2>3 DEF AccessesRegister, Interpreted
    <3> QED BY <3>2, <3>7, IsCode DEF Interpreted, cell, q
  <2>14. CASE ~ ToRegister(i, i.arg)
    <3>1. i.kind # "opcode"  BY <1>19 DEF i
    <3>2. cell = [k |-> "run", i |-> i, next |-> next, marks |-> i.op = "sta" \/ z]
      BY <2>2, <2>14, <3>1 DEF CellOf, next
    <3>3. cell.k = "run" /\ cell.i = i /\ cell.next = next /\ cell.marks = (i.op = "sta" \/ z)
      BY <3>2
    <3>4. SureToMark(cell, z)  BY <3>3 DEF SureToMark, Stores
    <3>5. Bytes(i.op) = 2 => p2[i.at + 1] = q \/ (i.kind = "operand" /\ p2[i.at + 1] = Dynamic)
      BY <3>1, <2>6, <2>9 DEF PtrOf
    <3>6. next = Slot(i.end) \/ (Inside(b2, p2, h2, i.end, next) /\ b2[i.end] = b2[i.at])
      BY <2>12 DEF next
    <3>7. Runnable(m, b2, p2, h2, z, q, cell)
      BY <3>3, <3>4, <3>5, <3>6, <2>3, <2>4, <2>6, <2>8, <2>10 DEF Runnable
    <3> QED BY <3>3, <3>7, IsCode DEF cell, q
  <2> QED BY <2>13, <2>14
<1>20. ASSUME NEW a \in Addr, NEW q \in Place, q = p2[a] PROVE CodeAt(m, b2, p2, h2, z, q)
  <2>1. CASE a \in ext
    <3>1. PICK k \in 1 .. n : p2[a] \in {Dynamic, Q(k)}  BY <2>1, <1>7
    <3>2. q = Q(k)  BY <3>1, <1>20, PlacesAreNotMarks
    <3>3. list[k].kind # "opcode"  BY <3>2, <1>8, <1>20
    <3> QED BY <3>2, <3>3, <1>19
  <2>2. CASE a \notin ext
    <3> DEFINE cell == At(h, q)
    <3>1. p[a] = q  BY <2>2, <1>5, <1>20
    <3>2. CodeAt(m, b, p, h, z, q)  BY <3>1 DEF Kept, CodeOK
    <3>3. \A c \in Addr : p[c] = q => b[c] # NoBlock /\ b[q[1]] = b[c]  BY PointsWithin
    <3>4. q[1] \notin ext /\ q[1] \in Addr  BY <3>1, <3>3, <1>1, PlacesAreNotMarks
    <3>5. At(h2, q) = cell  BY <3>4, <1>11 DEF At
    <3>6. \A c \in Addr : p[c] = q => c \notin ext /\ p2[c] = q  BY <3>3, <1>1, <1>5
    <3>7. \A c \in Addr : p2[c] = q => p[c] = q  BY <3>4, <1>16
    <3> HIDE DEF cell
    <3>8. CASE cell.k = "run" /\ Runnable(m, b, p, h, z, q, cell)
      <4> DEFINE i == cell.i
      <4>1. PointedFrom(p, q, i.at)  BY <3>8 DEF Runnable
      <4>2. i.at \in Addr /\ i.at \notin ext /\ p2[i.at] = q /\ b[i.at] # NoBlock
        BY <4>1, <3>3, <3>6 DEF PointedFrom
      <4>3. Bytes(i.op) = 2 =>
              i.at + 1 \in Addr /\ i.at + 1 \notin ext /\ b2[i.at + 1] = b2[i.at] /\ p2[i.at + 1] = p[i.at + 1]
        BY <3>8, <4>2, <1>1, <1>4, <1>5 DEF Runnable
      <4>4. i.end \in Addr /\ b[i.end] = b[i.at] => i.end \notin ext /\ b2[i.end] = b2[i.at]
        BY <4>2, <1>1, <1>4
      <4>5. PointedFrom(p2, q, i.at)  BY <4>1, <4>2, <3>7 DEF PointedFrom
      <4>6. Inside(b, p, h, i.end, cell.next) /\ b[i.end] = b[i.at] =>
              Inside(b2, p2, h2, i.end, cell.next) /\ b2[i.end] = b2[i.at]
        BY <4>4, <1>17 DEF Inside
      <4>7. Runnable(m, b2, p2, h2, z, q, cell)  BY <3>8, <4>3, <4>5, <4>6 DEF Runnable
      <4> QED BY <4>7, <3>5, <3>8, IsCode
    <3>9. CASE cell.k = "interp" /\ AccessesRegister(m, p, q, cell)
      <4>1. AccessesRegister(m, p2, q, cell)
        BY <3>6, <3>7, <3>9 DEF AccessesRegister, PointedFrom
      <4> QED BY <4>1, <3>5, <3>9, IsCode
    <3> USE DEF cell
    <3> QED BY <3>2, <3>5, <3>8, <3>9, IsCode DEF CodeAt
  <2> QED BY <2>1, <2>2
<1>21. ASSUME NEW a \in Addr PROVE SlotAt(p2, h2, a)
  <2>1. CASE a = addr
    <3>1. At(h2, Slot(a)) = CellOf(list[1], z, Following(addr, list, n, 1))  BY <2>1, <1>3, <1>6, <1>10
    <3>2. list[1].at = addr  BY <1>1 DEF Listed
    <3>3. list[1].kind # "opcode" => p2[a] = Slot(a)  BY <2>1, <3>2, <1>3, <1>6, <1>8 DEF PointedFrom
    <3>4. CASE list[1].kind = "opcode"
      <4>1. At(h2, Slot(a)) = ByInturbo(a)  BY <3>1, <3>2, <3>4, <2>1, CellOfOpcode
      <4> QED BY <4>1 DEF SlotAt
    <3>5. CASE list[1].kind # "opcode"
      <4>1. At(h2, Slot(a)).k \in {"run", "interp"}  BY <3>1, <3>5, CellOfOther
      <4> QED BY <4>1, <3>3, <3>5 DEF SlotAt
    <3> QED BY <3>4, <3>5
  <2>2. CASE a \in ext /\ a # addr
    <3>1. a \in addr + 1 .. end - 1  BY <2>2, <1>3
    <3>2. At(h2, Slot(a)) \in {Mark, ByInturbo(a)}  BY <3>1 DEF Made
    <3> QED BY <3>2 DEF SlotAt
  <2>3. CASE a \notin ext
    <3>1. SlotAt(p, h, a)  BY DEF Kept, Slots
    <3>2. At(h2, Slot(a)) = At(h, Slot(a)) /\ p2[a] = p[a]
      BY <2>3, <1>5, <1>11, PlacesAreNotMarks DEF At
    <3> QED BY <3>1, <3>2 DEF SlotAt
  <2> QED BY <2>1, <2>2, <2>3
<1> QED BY <1>12, <1>13, <1>14, <1>15, <1>20, <1>21 DEF Kept, Whole, Pointers, CodeOK, Slots, b2, p2

(* The host code that is emitted for a block.                                *)
LEMMA EmittedCode ==
  ASSUME BlocksAssumption, NEW m, NEW b, NEW h, NEW addr, NEW list, NEW n, NEW z, Fits(m, b, addr, list, n, z),
         DOMAIN h = Addr, \A a \in Addr : DOMAIN h[a] = 0 .. PerSlot - 1
  PROVE  Made(h, Emitted(h, addr, list, z), addr, list, n, z)
<1> DEFINE ext == addr .. list[n].end - 1  h2 == Emitted(h, addr, list, z)
           used == {PlaceOf(addr, k - 1)[1] : k \in DOMAIN list}
           inSlot(a) == [h[a] EXCEPT ![0] = IF list[n].kind = "jumped_into" /\ a = list[n].at + 1
                                            THEN [k |-> "inturbo", at |-> a] ELSE Mark]
<1>1. DOMAIN list = 1 .. n /\ Len(list) = n  BY DEF Fits, Listed
<1>2. h2 = [a \in Addr |-> IF a \in used THEN [j \in 0 .. PerSlot - 1 |-> CellAt(addr, list, z, <<a, j>>)]
                           ELSE IF a \in ext THEN inSlot(a) ELSE h[a]]
  BY <1>1 DEF Emitted
<1>3. used \subseteq ext /\ ext \subseteq Addr  BY <1>1, PlacesOfList, ExtentOfList
<1>4. \A a \in Addr : h2[a] = IF a \in used THEN [j \in 0 .. PerSlot - 1 |-> CellAt(addr, list, z, <<a, j>>)]
                              ELSE IF a \in ext THEN inSlot(a) ELSE h[a]
  BY <1>2
<1>5. DOMAIN h2 = Addr  BY <1>2
<1> HIDE DEF h2
<1>6. ASSUME NEW a \in Addr PROVE DOMAIN h2[a] = 0 .. PerSlot - 1
  <2>1. DOMAIN inSlot(a) = 0 .. PerSlot - 1  OBVIOUS
  <2> HIDE DEF inSlot, used
  <2> QED BY <2>1, <1>4
<1>7. \A a \in Addr : a \notin ext => h2[a] = h[a]
  <2> HIDE DEF inSlot, used, ext
  <2> QED BY <1>3, <1>4
<1>8. ASSUME NEW q \in Place, q[1] \in used PROVE At(h2, q) = CellAt(addr, list, z, q)
  <2>1. q[1] \in Addr /\ q[2] \in 0 .. PerSlot - 1 /\ q = <<q[1], q[2]>>  BY PlacesAreNotMarks
  <2> HIDE DEF inSlot, used, ext
  <2>2. h2[q[1]] = [j \in 0 .. PerSlot - 1 |-> CellAt(addr, list, z, <<q[1], j>>)]
    BY <2>1, <1>4, <1>8
  <2>3. h2[q[1]][q[2]] = CellAt(addr, list, z, <<q[1], q[2]>>)  BY <2>1, <2>2
  <2> QED BY <2>1, <2>3 DEF At
<1>9. ASSUME NEW k \in 1 .. n
      PROVE  At(h2, PlaceOf(addr, k - 1)) = CellOf(list[k], z, Following(addr, list, n, k))
  <2> DEFINE q == PlaceOf(addr, k - 1)  at == {l \in DOMAIN list : PlaceOf(addr, l - 1) = q}
  <2>1. q \in Place /\ q[1] \in used  BY <1>1, PlacesOfList
  <2>2. k \in at  BY <1>1
  <2>3. ASSUME NEW l \in at PROVE l = k
    <3>1. l \in 1 .. n /\ PlaceOf(addr, l - 1) = PlaceOf(addr, k - 1)  BY <1>1
    <3>2. l - 1 \in Nat /\ k - 1 \in Nat /\ addr \in Nat  BY <3>1, ExtentOfList
    <3>3. l - 1 = k - 1  BY <3>1, <3>2, PlacesDiffer
    <3> QED BY <3>1, <3>3, ExtentOfList
  <2>4. (CHOOSE l \in at : TRUE) = k  BY <2>2, <2>3
  <2>5. CellAt(addr, list, z, q) = CellOf(list[k], z, IF k < Len(list) THEN PlaceOf(addr, k) ELSE Slot(list[k].end))
    BY <2>2, <2>4 DEF CellAt
  <2>6. (IF k < Len(list) THEN PlaceOf(addr, k) ELSE Slot(list[k].end)) = Following(addr, list, n, k)
    <3>1. CASE k < n  BY <3>1, <1>1 DEF Following
    <3>2. CASE ~ (k < n)
      <4>1. k = n  BY <3>2, ExtentOfList
      <4> QED BY <4>1, <1>1 DEF Following
    <3> QED BY <3>1, <3>2
  <2>7. At(h2, q) = CellAt(addr, list, z, q)  BY <2>1, <1>8
  <2> QED BY <2>5, <2>6, <2>7
<1>10. ASSUME NEW a \in addr + 1 .. list[n].end - 1 PROVE At(h2, Slot(a)) \in {Mark, ByInturbo(a)}
  <2>1. a \in ext /\ a \in Addr /\ a # addr  BY <1>3, ExtentOfList
  <2>2. Slot(a) \in Place /\ Slot(a)[1] = a /\ Slot(a)[2] = 0  BY <2>1, PlacesAreNotMarks
  <2>3. CASE a \in used
    <3> DEFINE at == {l \in DOMAIN list : PlaceOf(addr, l - 1) = Slot(a)}
    <3>1. at = {}
      <4> SUFFICES ASSUME NEW l \in 1 .. n, PlaceOf(addr, l - 1) = Slot(a) PROVE FALSE  BY <1>1
      <4>1. l = 1 /\ Slot(a) = Slot(addr)  BY <2>2, PlacesOfList
      <4>2. addr \in Addr  BY DEF Fits, Listed
      <4> QED BY <4>1, <4>2, <2>1, <2>2, PlacesAreNotMarks
    <3>2. CellAt(addr, list, z, Slot(a)) = Mark  BY <3>1, <2>2 DEF CellAt
    <3> QED BY <3>2, <2>2, <2>3, <1>8
  <2>4. CASE a \notin used
    <3>1. h2[a] = inSlot(a)
      <4> HIDE DEF inSlot, used, ext
      <4> QED BY <2>1, <2>4, <1>4
    <3>2. 0 \in DOMAIN h[a]  BY <2>1 DEF BlocksAssumption
    <3>3. inSlot(a)[0] = IF list[n].kind = "jumped_into" /\ a = list[n].at + 1 THEN ByInturbo(a) ELSE Mark
      BY <3>2 DEF ByInturbo
    <3> QED BY <3>1, <3>3, <2>2 DEF At
  <2> QED BY <2>3, <2>4
<1> QED BY <1>5, <1>6, <1>7, <1>9, <1>10 DEF Made, h2

(* The blocks that a new one overlaps, and what becomes of them.             *)
Overlapped(b, ext) == ext \cup {a \in Addr : b[a] # NoBlock /\ \E c \in ext : b[c] = b[a]}

LEMMA OverlapIsWhole ==
  ASSUME BlocksAssumption, NEW b \in [Addr -> Addr \cup {NoBlock}], Whole(b),
         NEW addr \in Addr, NEW end \in Addr, addr < end,
         NEW ext, ext = addr .. end - 1, NEW D, D = Overlapped(b, ext)
  PROVE  /\ D \subseteq Addr
         /\ \A a \in Addr : b[a] # NoBlock => (a \in D) = (b[a] \in D)
         /\ \A a \in Addr : a < addr => (a \in D) = (b[a] # NoBlock /\ b[a] = b[addr])
         /\ \A a \in Addr : a >= end => (a \in D) = (b[end] # NoBlock /\ b[end] < end /\ b[a] = b[end])
<1>1. addr \in Nat /\ end \in Nat /\ LastAddr \in Nat /\ ext \subseteq Addr /\ Addr \subseteq Nat
  BY DEF Addr, BlocksAssumption
<1>2. \A a \in Addr : b[a] # NoBlock => /\ b[a] \in Addr /\ b[a] <= a
                                        /\ \A c \in Addr : b[a] <= c /\ c <= a => b[c] = b[a]
  <2> TAKE a \in Addr
  <2> HAVE b[a] # NoBlock
  <2>1. b[a] \in Addr /\ b[a] <= a /\ \A c \in b[a] .. a : b[c] = b[a]  BY DEF Whole, WholeAt
  <2>2. ASSUME NEW c \in Addr, b[a] <= c, c <= a PROVE c \in b[a] .. a
    <3>1. c \in Nat /\ a \in Nat /\ b[a] \in Nat  BY <2>1, <1>1
    <3> QED BY <3>1, <2>2
  <2> QED BY <2>1, <2>2
<1>3. \A a \in Addr : a \in D <=> a \in ext \/ (b[a] # NoBlock /\ \E c \in ext : b[c] = b[a])
  BY <1>1 DEF Overlapped
<1>4. ASSUME NEW a \in Addr, b[a] # NoBlock PROVE (a \in D) = (b[a] \in D)
  <2>1. b[a] \in Addr /\ b[b[a]] = b[a]
    <3>1. b[a] \in Addr /\ b[a] <= a /\ b[a] \in Nat  BY <1>1, <1>2, <1>4
    <3> QED BY <3>1, <1>2, <1>4
  <2> QED BY <2>1, <1>3, <1>4
<1>5. ASSUME NEW a \in Addr, a < addr PROVE (a \in D) = (b[a] # NoBlock /\ b[a] = b[addr])
  <2>1. a \notin ext /\ addr \in ext /\ a \in Nat  BY <1>1, <1>5
  <2>2. ASSUME NEW c \in ext, b[c] = b[a], b[a] # NoBlock PROVE b[addr] = b[a]
    <3>1. c \in Addr /\ c \in Nat /\ addr <= c  BY <1>1
    <3>2. b[a] \in Nat /\ b[a] <= a  BY <2>2, <1>1, <1>2
    <3>3. b[c] <= addr /\ b[c] # NoBlock  BY <3>2, <2>1, <2>2, <1>1, <1>5
    <3>4. b[addr] = b[c]  BY <3>1, <3>3, <1>2
    <3> QED BY <3>4, <2>2
  <2> QED BY <2>1, <2>2, <1>3
<1>6. ASSUME NEW a \in Addr, a >= end
      PROVE  (a \in D) = (b[end] # NoBlock /\ b[end] < end /\ b[a] = b[end])
  <2>1. a \notin ext /\ a \in Nat /\ end - 1 \in ext /\ end - 1 \in Addr  BY <1>1, <1>6
  <2>2. ASSUME NEW c \in ext, b[c] = b[a], b[a] # NoBlock PROVE b[end] = b[a] /\ b[end] < end
    <3>1. c \in Addr /\ c \in Nat /\ c < end  BY <1>1
    <3>2. b[c] \in Nat /\ b[c] <= c  BY <3>1, <2>2, <1>1, <1>2
    <3>3. b[end] = b[a]  BY <3>1, <3>2, <2>1, <2>2, <1>1, <1>2, <1>6
    <3> QED BY <3>1, <3>2, <3>3, <2>2, <1>1
  <2>3. ASSUME b[end] # NoBlock, b[end] < end, b[a] = b[end] PROVE b[end - 1] = b[a]
    <3>1. b[end] \in Nat  BY <2>3, <1>1, <1>2
    <3>2. b[end] <= end - 1 /\ end - 1 <= end  BY <3>1, <2>3, <1>1
    <3> QED BY <3>2, <2>1, <2>3, <1>2
  <2> QED BY <2>1, <2>2, <2>3, <1>3
<1>7. D \subseteq Addr  BY <1>1 DEF Overlapped
<1> QED BY <1>4, <1>5, <1>6, <1>7

LEMMA ExtentBefore ==
  ASSUME BlocksAssumption, NEW b \in [Addr -> Addr \cup {NoBlock}], Whole(b),
         NEW addr \in Addr, NEW ext, ext \subseteq Addr, addr \in ext, \A a \in ext : a >= addr,
         b[addr] \notin {NoBlock, addr}
  PROVE  \A a \in Addr : a \in Extent(With(b, ext, addr), b[addr]) <=> a < addr /\ b[a] = b[addr]
<1> DEFINE old == b[addr]  b2 == With(b, ext, addr)
<1>1. Addr \subseteq Nat  BY DEF Addr
<1>2. old \in Addr /\ old \in Nat /\ old < addr /\ \A c \in old .. addr : b[c] = old
  <2>1. WholeAt(b, addr) /\ old \in Addr /\ b[addr] # NoBlock  BY DEF Whole
  <2>2. old <= addr /\ \A c \in old .. addr : b[c] = old  BY <2>1 DEF WholeAt
  <2>3. old \in Nat /\ addr \in Nat /\ old # addr  BY <2>1, <1>1
  <2> HIDE DEF old
  <2> QED BY <2>1, <2>2, <2>3
<1>3. \A c \in Addr : b2[c] = IF c \in ext THEN addr ELSE b[c]  BY DEF With
<1>4. \A c \in old .. addr : c \in Addr  BY <1>1, <1>2 DEF Addr, BlocksAssumption
<1>5. b2[addr] = addr /\ \A c \in Addr : c < addr => b2[c] = b[c]
  <2>1. \A c \in Addr : c < addr => c \notin ext  BY <1>1
  <2> QED BY <2>1, <1>3
<1>6. b2[old] = old  BY <1>1, <1>2, <1>5
<1> HIDE DEF b2
<1>7. ASSUME NEW a \in Addr
      PROVE  (\A c \in old .. a : b2[c] = b2[old]) /\ a \in old .. LastAddr <=> a < addr /\ b[a] = old
  <2>1. a \in Nat /\ a <= LastAddr /\ LastAddr \in Nat /\ addr \in Nat  BY <1>1 DEF Addr, BlocksAssumption
  <2>2. CASE a >= addr
    <3>1. addr \in old .. a  BY <2>1, <2>2, <1>2
    <3>2. b2[addr] # b2[old]  BY <1>2, <1>5, <1>6
    <3> QED BY <3>1, <3>2, <2>1, <2>2
  <2>3. CASE a < addr /\ old <= a
    <3>1. \A c \in old .. a : c \in old .. addr /\ c < addr  BY <2>1, <2>3, <1>2
    <3>2. \A c \in old .. a : b2[c] = old  BY <3>1, <1>2, <1>4, <1>5
    <3>3. a \in old .. addr  BY <2>1, <2>3, <1>2
    <3> QED BY <3>2, <3>3, <2>1, <2>3, <1>2, <1>6
  <2>4. CASE a < old
    <3>1. b[a] # old
      <4>1. WholeAt(b, a)  BY DEF Whole
      <4> QED BY <4>1, <2>1, <2>4, <1>2, PlacesAreNotMarks DEF WholeAt
    <3> QED BY <3>1, <2>1, <2>4, <1>2
  <2> QED BY <2>1, <2>2, <2>3, <2>4, <1>2
<1>8. \A a \in Addr : a \in Extent(b2, old) <=> (\A c \in old .. a : b2[c] = b2[old]) /\ a \in old .. LastAddr
  BY DEF Extent
<1> QED BY <1>7, <1>8 DEF b2

LEMMA ExtentAfter ==
  ASSUME BlocksAssumption, NEW b \in [Addr -> Addr \cup {NoBlock}], Whole(b),
         NEW end \in Addr, NEW b2, \A a \in Addr : a >= end => b2[a] = b[a],
         b[end] # NoBlock, b[end] < end
  PROVE  \A a \in Addr : a \in Extent(b2, end) <=> a >= end /\ b[a] = b[end]
<1>1. Addr \subseteq Nat /\ LastAddr \in Nat  BY DEF Addr, BlocksAssumption
<1>2. b[end] \in Addr /\ b[end] \in Nat  BY <1>1
<1>3. ASSUME NEW a \in Addr, a >= end PROVE (\A c \in end .. a : b2[c] = b2[end]) <=> b[a] = b[end]
  <2>1. a \in end .. a /\ b2[a] = b[a] /\ b2[end] = b[end]  BY <1>1, <1>3
  <2>2. ASSUME b[a] = b[end], NEW c \in end .. a PROVE b2[c] = b2[end]
    <3>1. c \in Addr /\ c \in b[a] .. a  BY <2>2, <1>1, <1>2, <1>3 DEF Addr
    <3>2. WholeAt(b, a)  BY DEF Whole
    <3>3. b[c] = b[a]  BY <3>1, <3>2, <2>2 DEF WholeAt
    <3>4. c >= end  BY <1>1
    <3> QED BY <3>1, <3>3, <3>4, <2>1, <2>2
  <2> QED BY <2>1, <2>2
<1>4. \A a \in Addr : a \in Extent(b2, end) <=> a >= end /\ (\A c \in end .. a : b2[c] = b2[end])
  <2> TAKE a \in Addr
  <2>1. a \in end .. LastAddr <=> a >= end  BY <1>1 DEF Addr
  <2> QED BY <2>1 DEF Extent
<1> QED BY <1>3, <1>4

(* jit_compile's steps, each from what the one before it leaves.             *)
Emission(b, p, h, z, addr, list, end, fl) ==
  [block |-> With(b, addr .. end - 1, addr), ptr |-> NewPtrs(p, addr, list), host |-> Emitted(h, addr, list, z),
   flags |-> fl]

LEMMA ClearedFields ==
  ASSUME NEW st, NEW a
  PROVE  /\ ClearBlock(st, a).block = With(st.block, Extent(st.block, a), NoBlock)
         /\ ClearBlock(st, a).ptr = With(st.ptr, Extent(st.block, a), NoCode)
         /\ ClearBlock(st, a).host = st.host
BY DEF ClearBlock

LEMMA SplitBeforeFields ==
  ASSUME NEW st, NEW old, NEW a, old \notin {NoBlock, a}
  PROVE  /\ SplitBefore(st, old, a).block = With(st.block, Extent(st.block, old), NoBlock)
         /\ SplitBefore(st, old, a).ptr = With(st.ptr, Extent(st.block, old), NoCode)
         /\ SplitBefore(st, old, a).host = Invalidated(st.host, Slot(old))
<1>1. SplitBefore(st, old, a) = [ClearBlock(st, old) EXCEPT !.host = Invalidated(@, Slot(old))]
  BY DEF SplitBefore
<1>2. DOMAIN ClearBlock(st, old) = {"block", "ptr", "host", "flags"}  BY DEF ClearBlock
<1> QED BY <1>1, <1>2, ClearedFields

LEMMA EmissionFields ==
  ASSUME NEW b, NEW p, NEW h, NEW z, NEW addr, NEW list, NEW end, NEW fl, NEW st,
         st = Emission(b, p, h, z, addr, list, end, fl)
  PROVE  /\ st.block = With(b, addr .. end - 1, addr)
         /\ st.ptr = NewPtrs(p, addr, list) /\ st.host = Emitted(h, addr, list, z)
BY DEF Emission

OnAddr(f) == f = [a \in Addr |-> f[a]]
Without(f, gone, val) == [a \in Addr |-> IF a \in gone THEN val ELSE f[a]]
Before(b, addr) == {a \in Addr : a < addr /\ b[a] # NoBlock /\ b[a] = b[addr]}
After(b, end) == {a \in Addr : a >= end /\ b[end] # NoBlock /\ b[end] < end /\ b[a] = b[end]}
LEMMA WithoutBefore ==
  ASSUME BlocksAssumption, NEW b \in [Addr -> Addr \cup {NoBlock}], Whole(b),
         NEW addr \in Addr, NEW ext \in SUBSET Addr, addr \in ext, \A a \in ext : a >= addr,
         NEW st, st.block = With(b, ext, addr), OnAddr(st.ptr)
  PROVE  /\ SplitBefore(st, b[addr], addr).block = Without(st.block, Before(b, addr), NoBlock)
         /\ SplitBefore(st, b[addr], addr).ptr = Without(st.ptr, Before(b, addr), NoCode)
         /\ SplitBefore(st, b[addr], addr).host =
              IF b[addr] \in {NoBlock, addr} THEN st.host ELSE Invalidated(st.host, Slot(b[addr]))
<1> DEFINE old == b[addr]  s == SplitBefore(st, old, addr)  gone == Before(b, addr)
<1>1. st.block = [a \in Addr |-> st.block[a]] /\ DOMAIN st.block = Addr /\ DOMAIN st.ptr = Addr
  BY DEF With, OnAddr
<1>2. CASE old \in {NoBlock, addr}
  <2>1. s = st  BY <1>2 DEF SplitBefore
  <2>2. \A a \in Addr : a \notin gone
    <3> SUFFICES ASSUME NEW a \in Addr, a < addr, b[a] = addr PROVE FALSE  BY <1>2 DEF Before
    <3>1. WholeAt(b, a) /\ addr # NoBlock  BY PlacesAreNotMarks DEF Whole
    <3>2. addr <= a  BY <3>1 DEF WholeAt
    <3> QED BY <3>2 DEF Addr
  <2> HIDE DEF gone
  <2>3. st.block = Without(st.block, gone, NoBlock) /\ st.ptr = Without(st.ptr, gone, NoCode)
    BY <1>1, <2>2 DEF Without, OnAddr
  <2> QED BY <1>2, <2>1, <2>3 DEF gone
<1>3. CASE old \notin {NoBlock, addr}
  <2> DEFINE far == Extent(st.block, old)
  <2>1. s.block = With(st.block, far, NoBlock) /\ s.ptr = With(st.ptr, far, NoCode)
        /\ s.host = Invalidated(st.host, Slot(old))
    BY <1>3, SplitBeforeFields
  <2>2. \A a \in Addr : a \in far <=> a < addr /\ b[a] = old
    <3>1. \A a \in Addr : a \in Extent(With(b, ext, addr), b[addr]) <=> a < addr /\ b[a] = b[addr]
      BY <1>3, ExtentBefore
    <3> QED BY <3>1
  <2>3. \A a \in Addr : a \in far <=> a \in gone  BY <2>2, <1>3 DEF Before
  <2> HIDE DEF far, s, gone
  <2>4. s.block = Without(st.block, gone, NoBlock)  BY <1>1, <2>1, <2>3 DEF With, Without
  <2>5. s.ptr = Without(st.ptr, gone, NoCode)  BY <1>1, <2>1, <2>3 DEF With, Without
  <2> QED BY <2>1, <2>4, <2>5, <1>3 DEF s, gone
<1> QED BY <1>2, <1>3

LEMMA WithoutAfter ==
  ASSUME BlocksAssumption, NEW b \in [Addr -> Addr \cup {NoBlock}], Whole(b), NEW end \in Addr,
         NEW s, \A a \in Addr : a >= end => s.block[a] = b[a], OnAddr(s.block), OnAddr(s.ptr)
  PROVE  /\ SplitAfter(s, end).block = Without(s.block, After(b, end), NoBlock)
         /\ SplitAfter(s, end).ptr = Without(s.ptr, After(b, end), NoCode)
         /\ SplitAfter(s, end).host = s.host
<1> DEFINE r == SplitAfter(s, end)  gone == After(b, end)
<1>1. s.block[end] = b[end] /\ DOMAIN s.block = Addr /\ DOMAIN s.ptr = Addr
  <2>1. end >= end  BY DEF Addr
  <2> QED BY <2>1 DEF OnAddr
<1>2. CASE b[end] # NoBlock /\ b[end] < end
  <2>1. r = ClearBlock(s, end)  BY <1>1, <1>2 DEF SplitAfter
  <2> DEFINE far == Extent(s.block, end)
  <2>2. r.block = With(s.block, far, NoBlock) /\ r.ptr = With(s.ptr, far, NoCode) /\ r.host = s.host
    BY <2>1, ClearedFields
  <2>3. \A a \in Addr : a \in far <=> a >= end /\ b[a] = b[end]
    <3> DEFINE b2 == s.block
    <3>1. \A a \in Addr : a >= end => b2[a] = b[a]  OBVIOUS
    <3> HIDE DEF b2
    <3>2. \A a \in Addr : a \in Extent(b2, end) <=> a >= end /\ b[a] = b[end]
      BY <3>1, <1>2, ExtentAfter
    <3> QED BY <3>2 DEF b2
  <2>4. \A a \in Addr : a \in far <=> a \in gone  BY <2>3, <1>2 DEF After
  <2> HIDE DEF far, r, gone
  <2>5. r.block = Without(s.block, gone, NoBlock)  BY <1>1, <2>2, <2>4 DEF With, Without
  <2>6. r.ptr = Without(s.ptr, gone, NoCode)  BY <1>1, <2>2, <2>4 DEF With, Without
  <2> QED BY <2>2, <2>5, <2>6 DEF r, gone
<1>3. CASE ~ (b[end] # NoBlock /\ b[end] < end)
  <2>1. r = s  BY <1>1, <1>3 DEF SplitAfter
  <2>2. gone = {}  BY <1>3 DEF After
  <2> QED BY <2>1, <2>2 DEF Without, OnAddr
<1> QED BY <1>2, <1>3

Beyond(D, ext) == D \ ext
Spans(ext, addr, end) == ext = addr .. end - 1
Halted(h, ext, old, addr) ==
  [a \in Addr |-> IF a \in ext \/ (a = old /\ a # addr) THEN [h[a] EXCEPT ![0] = Mark] ELSE h[a]]
(* What is left of the blocks that the new one overlaps, and of their code.  *)
LEMMA SplitBlocks ==
  ASSUME BlocksAssumption, NEW b \in [Addr -> Addr \cup {NoBlock}], Whole(b),
         NEW addr \in Addr, NEW end \in Addr, addr < end, NEW ext, Spans(ext, addr, end), NEW D, D = Overlapped(b, ext),
         NEW st, st.block = With(b, ext, addr), OnAddr(st.ptr),
         NEW r, r = SplitAfter(SplitBefore(st, b[addr], addr), end)
  PROVE  /\ r.block = With(With(b, D, NoBlock), ext, addr)
         /\ r.ptr = Without(st.ptr, Beyond(D, ext), NoCode)
         /\ r.host = IF b[addr] \in {NoBlock, addr} THEN st.host ELSE Invalidated(st.host, Slot(b[addr]))
<1> DEFINE s == SplitBefore(st, b[addr], addr)
<1>1. /\ ext \in SUBSET Addr /\ addr \in ext /\ \A a \in ext : a >= addr
      /\ \A a \in Addr : a \in ext <=> addr <= a /\ a < end
  BY DEF Addr, BlocksAssumption, Spans
<1>2. /\ s.block = Without(st.block, Before(b, addr), NoBlock) /\ s.ptr = Without(st.ptr, Before(b, addr), NoCode)
      /\ s.host = IF b[addr] \in {NoBlock, addr} THEN st.host ELSE Invalidated(st.host, Slot(b[addr]))
  <2>1. ext \in SUBSET Addr /\ addr \in ext /\ \A a \in ext : a >= addr  BY <1>1
  <2>2. /\ SplitBefore(st, b[addr], addr).block = Without(st.block, Before(b, addr), NoBlock)
        /\ SplitBefore(st, b[addr], addr).ptr = Without(st.ptr, Before(b, addr), NoCode)
        /\ SplitBefore(st, b[addr], addr).host =
             IF b[addr] \in {NoBlock, addr} THEN st.host ELSE Invalidated(st.host, Slot(b[addr]))
    BY <2>1, WithoutBefore
  <2> QED BY <2>2
<1>3. \A a \in Addr : st.block[a] = IF a \in ext THEN addr ELSE b[a]  BY DEF With
<1> HIDE DEF s
<1>4. \A a \in Addr : a >= end => s.block[a] = b[a]
  <2>1. \A a \in Addr : a >= end => a \notin Before(b, addr) /\ a \notin ext  BY <1>1 DEF Addr, Before
  <2> QED BY <2>1, <1>2, <1>3 DEF Without
<1>5. OnAddr(s.block) /\ OnAddr(s.ptr)  BY <1>2 DEF OnAddr, Without
<1>6. /\ SplitAfter(s, end).block = Without(s.block, After(b, end), NoBlock)
      /\ SplitAfter(s, end).ptr = Without(s.ptr, After(b, end), NoCode)
      /\ SplitAfter(s, end).host = s.host
  BY <1>4, <1>5, WithoutAfter
<1>7. /\ r.block = Without(s.block, After(b, end), NoBlock)
      /\ r.ptr = Without(s.ptr, After(b, end), NoCode) /\ r.host = s.host
  BY <1>6 DEF s
<1>8. \A a \in Addr : a \in Before(b, addr) \cup After(b, end) <=> a \in D /\ a \notin ext
  <2>1. /\ \A a \in Addr : a < addr => (a \in D) = (b[a] # NoBlock /\ b[a] = b[addr])
        /\ \A a \in Addr : a >= end => (a \in D) = (b[end] # NoBlock /\ b[end] < end /\ b[a] = b[end])
    BY OverlapIsWhole DEF Spans
  <2>2. \A a \in Addr : a \notin ext <=> a < addr \/ a >= end  BY <1>1 DEF Addr
  <2> QED BY <1>1, <2>1, <2>2 DEF Before, After
<1>9. r.block = [a \in Addr |-> IF a \in ext THEN addr ELSE IF a \in D THEN NoBlock ELSE b[a]]
  BY <1>2, <1>3, <1>7, <1>8 DEF Without
<1>10. With(With(b, D, NoBlock), ext, addr) = [a \in Addr |-> IF a \in ext THEN addr ELSE IF a \in D THEN NoBlock ELSE b[a]]
  BY DEF With
<1>11. r.ptr = Without(st.ptr, Beyond(D, ext), NoCode)  BY <1>2, <1>7, <1>8 DEF Without, Beyond
<1> QED BY <1>2, <1>7, <1>9, <1>10, <1>11

(* Only the first slot of the block that is split begins with code.          *)
LEMMA SplitCode ==
  ASSUME BlocksAssumption, NEW h, DOMAIN h = Addr, \A a \in Addr : DOMAIN h[a] = 0 .. PerSlot - 1,
         NEW m, NEW b, NEW addr, NEW list, NEW n, NEW z, Fits(m, b, addr, list, n, z),
         NEW ext, Spans(ext, addr, list[n].end),
         NEW e, Made(h, e, addr, list, n, z), NEW old, old \notin {NoBlock, addr} => old \in Addr \ ext,
         NEW r, r = IF old \in {NoBlock, addr} THEN e ELSE Invalidated(e, Slot(old)),
         NEW h1, h1 = Halted(h, ext, old, addr)
  PROVE  Made(h1, r, addr, list, n, z)
<1> USE DEF Spans, Halted
<1>1. /\ DOMAIN e = Addr /\ \A a \in Addr : DOMAIN e[a] = 0 .. PerSlot - 1
      /\ \A a \in Addr : a \notin ext => e[a] = h[a]
  BY DEF Made
<1>2. addr \in ext /\ addr \in Addr /\ ext \subseteq Addr  BY ExtentOfList
<1>3. CASE old \in {NoBlock, addr}
  <2>1. r = e  BY <1>3
  <2>2. \A a \in Addr : a \notin ext => h1[a] = h[a]
    BY <1>2, <1>3, PlacesAreNotMarks
  <2> QED BY <2>1, <2>2, <1>1 DEF Made
<1>4. CASE old \notin {NoBlock, addr}
  <2>1. old \in Addr /\ old \notin ext  BY <1>4
  <2>2. Slot(old) \notin {NoCode, Dynamic}  BY <2>1, PlacesAreNotMarks
  <2>3. r = [e EXCEPT ![old][0] = Mark]  BY <1>4, <2>2 DEF Invalidated, Slot
  <2>4. DOMAIN r = Addr /\ (\A a \in Addr : a # old => r[a] = e[a]) /\ r[old] = [e[old] EXCEPT ![0] = Mark]
    BY <2>1, <2>3, <1>1
  <2>5. \A a \in Addr : DOMAIN r[a] = 0 .. PerSlot - 1
    <3>1. DOMAIN [e[old] EXCEPT ![0] = Mark] = DOMAIN e[old]  OBVIOUS
    <3> QED BY <3>1, <2>1, <2>4, <1>1
  <2>6. \A a \in Addr : a \notin ext => r[a] = h1[a]
    <3>1. \A a \in Addr : a \notin ext /\ a # old => h1[a] = h[a]  OBVIOUS
    <3>2. h1[old] = [h[old] EXCEPT ![0] = Mark]  BY <2>1, <1>4
    <3> QED BY <3>1, <3>2, <2>1, <2>4, <1>1
  <2>7. \A q : q[1] \in ext => At(r, q) = At(e, q)
    <3>1. \A a \in ext : r[a] = e[a]  BY <2>1, <2>4, <1>2
    <3> QED BY <3>1 DEF At
  <2>8. \A k \in 1 .. n : PlaceOf(addr, k - 1)[1] \in ext  BY PlacesOfList
  <2>9. \A k \in 1 .. n : At(r, PlaceOf(addr, k - 1)) = CellOf(list[k], z, Following(addr, list, n, k))
    BY <2>7, <2>8 DEF Made
  <2>10. \A a \in addr + 1 .. list[n].end - 1 : At(r, Slot(a)) \in {Mark, ByInturbo(a)}
    <3>1. \A a \in addr + 1 .. list[n].end - 1 : a \in ext /\ a \in Addr
      <4>1. addr \in Nat /\ list[n].end \in Nat  BY ExtentOfList
      <4> QED BY <4>1, <1>2
    <3>2. \A a \in addr + 1 .. list[n].end - 1 : At(r, Slot(a)) = At(e, Slot(a))
      BY <3>1, <2>7, PlacesAreNotMarks
    <3> QED BY <3>2 DEF Made
  <2> QED BY <2>4, <2>5, <2>6, <2>9, <2>10 DEF Made
<1> QED BY <1>3, <1>4

LEMMA ClearedSlots ==
  ASSUME BlocksAssumption, NEW m, NEW b, NEW p, NEW h, NEW z, Kept(m, b, p, h, z),
         NEW addr \in Addr, NEW end \in Addr, addr < end, NEW ext, Spans(ext, addr, end),
         NEW D, D = Overlapped(b, ext), NEW old, old = b[addr],
         NEW h1, h1 = Halted(h, ext, old, addr)
  PROVE  /\ DOMAIN h1 = Addr /\ \A a \in Addr : DOMAIN h1[a] = 0 .. PerSlot - 1
         /\ \A a \in Addr \ D : h1[a] = h[a]
         /\ \A a \in D : At(h1, Slot(a)) \in {Mark, ByInturbo(a)}
<1>1. Whole(b) /\ b \in [Addr -> Addr \cup {NoBlock}] /\ Shaped(m, b, p, h)  BY DEF Kept, Shaped
<1>2. DOMAIN h = Addr /\ \A a \in Addr : DOMAIN h[a] = 0 .. PerSlot - 1  BY <1>1 DEF Shaped
<1>3. \A a \in Addr : [h[a] EXCEPT ![0] = Mark][0] = Mark /\ DOMAIN [h[a] EXCEPT ![0] = Mark] = 0 .. PerSlot - 1
  <2>1. 0 \in 0 .. PerSlot - 1  BY DEF BlocksAssumption
  <2> QED BY <2>1, <1>2
<1>4. /\ D \subseteq Addr /\ ext \subseteq D
      /\ \A a \in Addr : b[a] # NoBlock => (a \in D) = (b[a] \in D)
      /\ \A a \in Addr : a < addr => (a \in D) = (b[a] # NoBlock /\ b[a] = b[addr])
      /\ \A a \in Addr : a >= end => (a \in D) = (b[end] # NoBlock /\ b[end] < end /\ b[a] = b[end])
  <2>1. ext \subseteq D  BY DEF Overlapped
  <2> QED BY <2>1, <1>1, OverlapIsWhole DEF Spans
<1>5. DOMAIN h1 = Addr /\ \A a \in Addr : h1[a] = IF a \in ext \/ (a = old /\ a # addr) THEN [h[a] EXCEPT ![0] = Mark] ELSE h[a]
  BY DEF Halted
<1> HIDE DEF Spans
<1>6. \A a \in Addr : DOMAIN h1[a] = 0 .. PerSlot - 1  BY <1>2, <1>3, <1>5
<1>7. ASSUME NEW a \in Addr, a = old, a # addr PROVE a \in D
  <2>1. WholeAt(b, addr) /\ b[addr] # NoBlock  BY <1>1, <1>7, PlacesAreNotMarks DEF Whole
  <2>2. b[addr] <= addr /\ \A c \in b[addr] .. addr : b[c] = b[addr]  BY <2>1 DEF WholeAt
  <2>3. a \in Nat /\ addr \in Nat  BY DEF Addr
  <2>4. a < addr /\ b[a] = b[addr]  BY <2>2, <2>3, <1>7
  <2> QED BY <2>1, <2>4, <1>4
<1>8. \A a \in Addr \ D : h1[a] = h[a]  BY <1>4, <1>5, <1>7
<1>9. ASSUME NEW a \in D PROVE At(h1, Slot(a)) \in {Mark, ByInturbo(a)}
  <2>1. a \in Addr /\ Slot(a)[1] = a /\ Slot(a)[2] = 0 /\ Slot(a) \in Place  BY <1>4, PlacesAreNotMarks
  <2>2. CASE a \in ext \/ (a = old /\ a # addr)
    <3>1. h1[a][0] = Mark  BY <2>1, <2>2, <1>3, <1>5
    <3> QED BY <3>1, <2>1 DEF At
  <2>3. CASE a \notin ext /\ ~ (a = old /\ a # addr)
    <3>1. At(h1, Slot(a)) = At(h, Slot(a))  BY <2>1, <2>3, <1>5 DEF At
    <3>2. SlotAt(p, h, a) /\ PointerAt(b, p, a)  BY <2>1 DEF Kept, Slots, Pointers
    <3>3. p[a] # Slot(a)
      <4> SUFFICES ASSUME p[a] = Slot(a) PROVE FALSE  OBVIOUS
      <4>1. b[a] = a  BY <3>2, <2>1 DEF PointerAt
      <4>2. a # addr
        <5>1. addr \in ext  BY DEF Addr, Spans
        <5> QED BY <5>1, <2>3
      <4>3. a < addr \/ a >= end
        BY <2>1, <2>3 DEF Spans, Addr
      <4>4. CASE a < addr  BY <4>4, <4>1, <4>2, <2>1, <2>3, <1>4
      <4>5. CASE a >= end
        <5>1. a = b[end] /\ b[end] < end  BY <4>5, <4>1, <2>1, <1>4
        <5> QED BY <5>1, <4>5, <2>1 DEF Addr
      <4> QED BY <4>3, <4>4, <4>5
    <3> QED BY <3>1, <3>2, <3>3 DEF SlotAt
  <2> QED BY <2>2, <2>3
<1> QED BY <1>5, <1>6, <1>8, <1>9

LEMMA PointersOfList ==
  ASSUME BlocksAssumption, NEW m, NEW b, NEW p, NEW addr, NEW list, NEW n, NEW z, Fits(m, b, addr, list, n, z),
         NEW ext, Spans(ext, addr, list[n].end), NEW D, ext \in SUBSET D,
         p \in [Addr -> Place \cup {NoCode, Dynamic}]
  PROVE  NewPtrs(With(p, D, NoCode), addr, list)
           = Without(NewPtrs(p, addr, list), Beyond(D, ext), NoCode)
<1> DEFINE p1 == With(p, D, NoCode)  np1 == NewPtrs(p1, addr, list)  np == NewPtrs(p, addr, list)
<1>1. \A a \in Addr : p1[a] = IF a \in D THEN NoCode ELSE p[a]  BY DEF With
<1>2. /\ \A k \in 1 .. n : \A a \in list[k].at .. list[k].end - 1 :
           np1[a] = PtrOf(list[k], a, PlaceOf(addr, k - 1)) /\ np[a] = PtrOf(list[k], a, PlaceOf(addr, k - 1))
      /\ \A a \in Addr : a \notin addr .. list[n].end - 1 => np1[a] = p1[a] /\ np[a] = p[a]
  BY NewPointers
<1>3. np1 = [a \in Addr |-> np1[a]]  BY DEF NewPtrs
<1> HIDE DEF p1, np1, np
<1>4. ASSUME NEW a \in Addr PROVE np1[a] = IF a \in D \ ext THEN NoCode ELSE np[a]
  <2>1. CASE a \in ext
    <3>1. PICK k \in 1 .. n : a \in list[k].at .. list[k].end - 1
      BY <2>1, ListedInOrder DEF Spans, Fits
    <3> QED BY <3>1, <2>1, <1>2
  <2>2. CASE a \notin ext
    <3>1. np1[a] = p1[a] /\ np[a] = p[a]  BY <2>2, <1>2 DEF Spans
    <3> QED BY <3>1, <2>2, <1>1
  <2> QED BY <2>1, <2>2
<1> QED BY <1>3, <1>4 DEF Without, Beyond, p1, np1, np

(* Compiling a block keeps what a run relies on, whatever the block overlaps. *)
LEMMA SplitKeeps ==
  ASSUME BlocksAssumption, NEW m, NEW b, NEW p, NEW h, NEW z \in BOOLEAN, Kept(m, b, p, h, z),
         NEW addr, NEW list, NEW n, Listed(m, addr, list, n), list[n].end \in Addr, ~z => ~ (addr < ZeroPage),
         NEW fl, NEW st, st = Emission(b, p, h, z, addr, list, list[n].end, fl),
         NEW r, r = SplitAfter(SplitBefore(st, b[addr], addr), list[n].end)
  PROVE  Kept(m, r.block, r.ptr, r.host, z)
<1> DEFINE end == list[n].end  ext == addr .. end - 1  D == Overlapped(b, ext)  old == b[addr]
           b1 == With(b, D, NoBlock)  p1 == With(p, D, NoCode)
           h1 == Halted(h, ext, old, addr)
<1>1. /\ Whole(b) /\ b \in [Addr -> Addr \cup {NoBlock}] /\ p \in [Addr -> Place \cup {NoCode, Dynamic}]
      /\ m \in [Addr -> Value] /\ DOMAIN h = Addr /\ \A a \in Addr : DOMAIN h[a] = 0 .. PerSlot - 1
  BY DEF Kept, Shaped
<1>2. addr \in Addr /\ end \in Addr /\ addr < end /\ Spans(ext, addr, end) /\ addr \in ext
  <2>1. n \in 1 .. n /\ addr \in Nat /\ addr \in Addr  BY DEF Listed, Addr
  <2>2. addr + n - 1 <= list[n].at /\ list[n].at < list[n].end /\ list[n].at \in Nat  BY <2>1, ListedInOrder
  <2>3. n \in Nat /\ n > 0 /\ end \in Nat  BY DEF Listed, Addr
  <2>4. addr < end  BY <2>1, <2>2, <2>3
  <2> QED BY <2>1, <2>3, <2>4 DEF Spans
<1>3. /\ D \in SUBSET Addr /\ ext \subseteq D
      /\ \A a \in Addr : b[a] # NoBlock => (a \in D) = (b[a] \in D)
  <2>1. ext \subseteq D  BY DEF Overlapped
  <2>2. D \subseteq Addr /\ \A a \in Addr : b[a] # NoBlock => (a \in D) = (b[a] \in D)
    BY <1>1, <1>2, OverlapIsWhole
  <2> QED BY <2>1, <2>2
<1>4. old \notin {NoBlock, addr} => old \in Addr \ ext
  <2> SUFFICES ASSUME old \notin {NoBlock, addr} PROVE old \in Addr \ ext  OBVIOUS
  <2>1. WholeAt(b, addr) /\ old \in Addr  BY <1>1, <1>2 DEF Whole
  <2>2. old <= addr  BY <2>1 DEF WholeAt
  <2>3. old \in Nat /\ addr \in Nat  BY <2>1, <1>2 DEF Addr
  <2> QED BY <2>1, <2>2, <2>3
<1>5. /\ st.block = With(b, ext, addr) /\ st.ptr = NewPtrs(p, addr, list)
      /\ st.host = Emitted(h, addr, list, z)
  BY EmissionFields
<1>6. OnAddr(st.ptr)  BY <1>5 DEF OnAddr, NewPtrs
<1> DEFINE e == Emitted(h, addr, list, z)
<1> HIDE DEF end, ext, D, old, b1, p1, h1, e
<1>7. /\ r.block = With(With(b, D, NoBlock), ext, addr)
      /\ r.ptr = Without(st.ptr, Beyond(D, ext), NoCode)
      /\ r.host = IF b[addr] \in {NoBlock, addr} THEN st.host ELSE Invalidated(st.host, Slot(b[addr]))
  <2>1. D = Overlapped(b, ext) /\ r = SplitAfter(SplitBefore(st, b[addr], addr), end)  BY DEF D, end
  <2> QED BY <2>1, <1>1, <1>2, <1>5, <1>6, SplitBlocks
<1>8. /\ DOMAIN h1 = Addr /\ \A a \in Addr : DOMAIN h1[a] = 0 .. PerSlot - 1
      /\ \A a \in Addr \ D : h1[a] = h[a]
      /\ \A a \in D : At(h1, Slot(a)) \in {Mark, ByInturbo(a)}
  <2>1. D = Overlapped(b, ext) /\ old = b[addr]  BY DEF D, old
  <2>2. h1 = Halted(h, ext, old, addr)
    BY DEF h1
  <2> QED BY <2>1, <2>2, <1>2, ClearedSlots
<1>9. Kept(m, b1, p1, h1, z)
  <2>1. \A a \in Addr \ D : m[a] = m[a]  OBVIOUS
  <2>2. Kept(m, With(b, D, NoBlock), With(p, D, NoCode), h1, z)  BY <1>1, <1>3, <1>8, Dropped
  <2> QED BY <2>2 DEF b1, p1
<1>10. Fits(m, b1, addr, list, n, z)
  <2>1. \A a \in ext : b1[a] = NoBlock  BY <1>1, <1>3 DEF b1, With
  <2> QED BY <2>1, <1>2 DEF Fits, ext, end
<1>11. Made(h, e, addr, list, n, z)  BY <1>1, <1>10, EmittedCode DEF e
<1>12. Made(h1, r.host, addr, list, n, z)
  <2> DEFINE rh == r.host
  <2>1. rh = IF old \in {NoBlock, addr} THEN e ELSE Invalidated(e, Slot(old))  BY <1>5, <1>7 DEF e, old
  <2>2. h1 = Halted(h, ext, old, addr)
    BY DEF h1
  <2>3. Spans(ext, addr, list[n].end)  BY <1>2 DEF end
  <2> HIDE DEF rh
  <2>4. Made(h1, rh, addr, list, n, z)
    BY <2>1, <2>2, <2>3, <1>1, <1>4, <1>10, <1>11, SplitCode
  <2> QED BY <2>4 DEF rh
<1>13. Kept(m, With(b1, addr .. list[n].end - 1, addr), NewPtrs(p1, addr, list), r.host, z)
  BY <1>9, <1>10, <1>12, NewBlock
<1>14. r.block = With(b1, addr .. list[n].end - 1, addr)  BY <1>7 DEF b1, ext, end
<1>15. r.ptr = NewPtrs(p1, addr, list)
  <2>1. Spans(ext, addr, list[n].end)  BY <1>2 DEF end
  <2>2. NewPtrs(With(p, D, NoCode), addr, list)
          = Without(NewPtrs(p, addr, list), Beyond(D, ext), NoCode)
    BY <2>1, <1>1, <1>3, <1>10, PointersOfList
  <2> QED BY <2>2, <1>5, <1>7 DEF p1
<1> QED BY <1>13, <1>14, <1>15

-----------------------------------------------------------------------------
(* What the compiler makes a block of.                                       *)
LEMMA LengthOf ==
  ASSUME NEW n \in Nat, NEW f, f = [j \in 1 .. n |-> f[j]] PROVE Len(f) = n /\ DOMAIN f = 1 .. n
OBVIOUS

LEMMA BoundsAreListed ==
  ASSUME BlocksAssumption, NEW addr \in Addr, NEW known, NEW list \in Bounds(known, addr)
  PROVE  \E n \in Nat : /\ Listed(mem, addr, list, n)
                        /\ \A k \in 1 .. n : list[k] = InstructionAt(mem, list[k].at) /\ list[k].at <= LastAddr
<1>1. PICK n \in 1 .. MaxOps : \E at \in Sequels(addr, n) : list = [k \in DOMAIN at |-> InstructionAt(mem, at[k])]
  BY DEF Bounds
<1>2. PICK at \in Sequels(addr, n) : list = [k \in DOMAIN at |-> InstructionAt(mem, at[k])]
  BY <1>1
<1>3. /\ at \in [1 .. n -> addr .. LastAddr] /\ at[1] = addr
      /\ \A k \in 1 .. n - 1 : at[k + 1] = InstructionAt(mem, at[k]).end
  BY DEF Sequels
<1>4. n \in Nat /\ n > 0  BY DEF BlocksAssumption
<1>5. list = [k \in 1 .. n |-> InstructionAt(mem, at[k])]  BY <1>2, <1>3
<1>6. DOMAIN list = 1 .. n /\ Len(list) = n /\ \A k \in 1 .. n : list[k] = InstructionAt(mem, at[k])
  <2>1. list = [k \in 1 .. n |-> list[k]]  BY <1>5
  <2> QED BY <2>1, <1>4, <1>5, LengthOf
<1>7. \A k \in 1 .. n : at[k] \in Addr /\ at[k] <= LastAddr
  <2>1. addr .. LastAddr \subseteq Addr  BY DEF Addr, BlocksAssumption
  <2> QED BY <2>1, <1>3 DEF Addr
<1>8. \A k \in 1 .. n : /\ list[k].at = at[k] /\ list[k].kind = "plain"
                        /\ list[k].op = InstructionAt(mem, at[k]).op /\ list[k].arg = InstructionAt(mem, at[k]).arg
                        /\ list[k].end = at[k] + Bytes(list[k].op) /\ list[k].end = InstructionAt(mem, at[k]).end
  BY <1>6 DEF InstructionAt
<1>9. \A k \in 1 .. n : CompiledFrom(mem, list[k]) /\ KindOK(list[k], k = n)
  BY <1>7, <1>8 DEF CompiledFrom, KindOK
<1>10. \A k \in 1 .. n - 1 : list[k + 1].at = list[k].end
  <2> TAKE k \in 1 .. n - 1
  <2>1. k \in 1 .. n /\ k + 1 \in 1 .. n  BY <1>4
  <2> QED BY <2>1, <1>3, <1>8
<1>11. list[1].at = addr  BY <1>3, <1>4, <1>8
<1>12. Listed(mem, addr, list, n)  BY <1>4, <1>6, <1>9, <1>10, <1>11 DEF Listed
<1> QED BY <1>4, <1>6, <1>7, <1>8, <1>12

LEMMA CompilationIsListed ==
  ASSUME BlocksAssumption, NEW addr \in Addr, NEW known, NEW bounds \in Bounds(known, addr),
         NEW list \in Compilations(bounds)
  PROVE  \E n \in Nat : Listed(mem, addr, list, n) /\ list[n].at <= LastAddr
<1>1. PICK l \in Nat : /\ Listed(mem, addr, bounds, l)
                      /\ \A k \in 1 .. l : bounds[k] = InstructionAt(mem, bounds[k].at) /\ bounds[k].at <= LastAddr
  BY BoundsAreListed
<1>2. /\ l > 0 /\ DOMAIN bounds = 1 .. l /\ Len(bounds) = l /\ bounds[1].at = addr
      /\ \A k \in 1 .. l : CompiledFrom(mem, bounds[k])
      /\ \A k \in 1 .. l - 1 : bounds[k + 1].at = bounds[k].end
  BY <1>1 DEF Listed
<1>3. \E k, kind : /\ list = Chosen(bounds, k, kind)
                   /\ (k = 0 /\ kind = "plain") \/ (k \in 1 .. l /\ kind \in Kinds(bounds[k]))
  BY <1>2 DEF Compilations
<1>4. PICK k, kind : /\ list = Chosen(bounds, k, kind)
                     /\ (k = 0 /\ kind = "plain") \/ (k \in 1 .. l /\ kind \in Kinds(bounds[k]))
  BY <1>3
<1>5. /\ kind \in {"plain", "operand", "opcode", "jumped_into"}
      /\ kind = "operand" => Stores(bounds[k]) /\ ~EndsBlock(bounds[k])
      /\ kind = "jumped_into" => Bytes(bounds[k].op) = 2
      /\ kind \in {"opcode", "jumped_into"} => k \in 1 .. l
  BY <1>4 DEF Kinds
<1> DEFINE n == IF kind \in {"opcode", "jumped_into"} THEN k ELSE l
           new(j) == [bounds[j] EXCEPT !.kind = IF j = k THEN kind ELSE "plain"]
<1>6. list = [j \in 1 .. n |-> new(j)]  BY <1>2, <1>4 DEF Chosen
<1>7. n \in 1 .. l /\ n \in Nat /\ n > 0 /\ (kind = "jumped_into" => n = k)  BY <1>2, <1>5
<1>8. ASSUME NEW j \in 1 .. l
      PROVE  /\ new(j).at = bounds[j].at /\ new(j).op = bounds[j].op /\ new(j).arg = bounds[j].arg
             /\ new(j).end = bounds[j].end /\ new(j).kind = IF j = k THEN kind ELSE "plain"
  <2>1. bounds[j] = InstructionAt(mem, bounds[j].at)  BY <1>1
  <2>2. DOMAIN bounds[j] = {"at", "op", "arg", "end", "kind"}  BY <2>1 DEF InstructionAt
  <2> QED BY <2>2
<1> HIDE DEF n, new
<1>9. /\ DOMAIN list = 1 .. n /\ Len(list) = n /\ \A j \in 1 .. n : j \in 1 .. l /\ list[j] = new(j)
  <2>1. list = [j \in 1 .. n |-> list[j]]  BY <1>6
  <2> QED BY <2>1, <1>6, <1>7, <1>2, LengthOf
<1>10. \A j \in 1 .. n : CompiledFrom(mem, list[j])  BY <1>2, <1>8, <1>9 DEF CompiledFrom
<1>11. ASSUME NEW j \in 1 .. n PROVE KindOK(list[j], j = n)
  <2>1. list[j].kind = (IF j = k THEN kind ELSE "plain") /\ list[j].op = bounds[j].op /\ list[j].arg = bounds[j].arg
    BY <1>8, <1>9
  <2> QED BY <2>1, <1>5, <1>7 DEF KindOK, Stores, EndsBlock, ToRegister, StoresTo
<1>12. \A j \in 1 .. n - 1 : list[j + 1].at = list[j].end
  <2> TAKE j \in 1 .. n - 1
  <2>1. j \in 1 .. n /\ j + 1 \in 1 .. n /\ j \in 1 .. l - 1  BY <1>2, <1>7
  <2> QED BY <2>1, <1>2, <1>8, <1>9
<1>13. list[1].at = addr
  <2>1. 1 \in 1 .. n  BY <1>7
  <2> QED BY <2>1, <1>2, <1>8, <1>9
<1>14. Listed(mem, addr, list, n)  BY <1>7, <1>9, <1>10, <1>11, <1>12, <1>13 DEF Listed
<1>15. list[n].at <= LastAddr
  <2>1. n \in 1 .. n  BY <1>7
  <2> QED BY <2>1, <1>1, <1>8, <1>9
<1> QED BY <1>7, <1>14, <1>15

(* A block that went on past the last address would hold it.                 *)
LEMMA ReachesLastAddress ==
  ASSUME BlocksAssumption, NEW b \in [Addr -> Addr \cup {NoBlock}], Whole(b), NEW addr \in Addr,
         NEW end \in Nat, end > LastAddr, NEW st, st.block = With(b, addr .. end - 1, addr), OnAddr(st.ptr),
         NEW r, r = SplitAfter(SplitBefore(st, b[addr], addr), end)
  PROVE  r.block[LastAddr] # NoBlock
<1> DEFINE s == SplitBefore(st, b[addr], addr)  ext == addr .. LastAddr
<1>1. addr \in Nat /\ LastAddr \in Nat /\ addr <= LastAddr /\ LastAddr \in Addr  BY DEF Addr, BlocksAssumption
<1>2. st.block = With(b, ext, addr)
  <2>1. \A a \in Addr : a \in addr .. end - 1 <=> a \in ext  BY <1>1 DEF Addr
  <2> QED BY <2>1 DEF With
<1>3. ext \in SUBSET Addr /\ addr \in ext /\ \A a \in ext : a >= addr  BY <1>1 DEF Addr
<1> HIDE DEF ext
<1>4. SplitBefore(st, b[addr], addr).block = Without(st.block, Before(b, addr), NoBlock)
  BY <1>2, <1>3, WithoutBefore
<1>5. s.block[LastAddr] = addr /\ DOMAIN s.block = Addr
  <2>1. LastAddr \notin Before(b, addr)  BY <1>1 DEF Before
  <2>2. st.block[LastAddr] = addr  BY <1>1, <1>2 DEF With, ext
  <2> QED BY <2>1, <2>2, <1>1, <1>4 DEF Without
<1>6. r = SplitAfter(s, end)  OBVIOUS
<1> HIDE DEF s
<1>7. r.block[LastAddr] = addr
  <2>1. CASE r = s  BY <2>1, <1>5
  <2>2. CASE r = ClearBlock(s, end)
    <3>1. r.block = With(s.block, Extent(s.block, end), NoBlock)  BY <2>2, ClearedFields
    <3>2. LastAddr \notin Extent(s.block, end)  BY <1>1 DEF Extent
    <3> QED BY <3>1, <3>2, <1>1, <1>5 DEF With
  <2> QED BY <1>6, <2>1, <2>2 DEF SplitAfter
<1> QED BY <1>1, <1>7, PlacesAreNotMarks

(* The metadata say where the 6502 is.                                       *)
LEMMA PcIsFound ==
  ASSUME BlocksAssumption, NEW z, Kept(mem, block, ptr, host, z), NEW a \in Addr, NEW q,
         Leads(block, ptr, host, a, q), q[2] # 0 => At(host, q).k # "inturbo"
  PROVE  PcOf(q) = a
<1>1. CASE q = Slot(a)  BY <1>1, PlacesAreNotMarks DEF PcOf
<1>2. CASE q # Slot(a)
  <2>1. Inside(block, ptr, host, a, q)  BY <1>2 DEF Leads
  <2>2. q \in Place /\ q[2] # 0 /\ block[a] # NoBlock /\ block[q[1]] = block[a]  BY <2>1 DEF Inside
  <2>3. ptr[a] = q /\ \A c \in Addr : ptr[c] = q => a <= c  BY <2>1, <2>2 DEF Inside, ByInturbo
  <2> DEFINE S == Known(q)
  <2>4. a \in S
    <3>1. block[a] \in Addr /\ block[block[a]] = block[a] /\ WholeAt(block, a)
      BY <2>2, <2>3, PointsWithin DEF Kept, Whole
    <3>2. block[a] <= a /\ \A c \in block[a] .. a : block[c] = block[a]  BY <3>1, <2>2 DEF WholeAt
    <3>3. a \in block[a] .. LastAddr  BY <3>1, <3>2 DEF Addr
    <3>4. a \in Extent(block, block[q[1]])  BY <3>1, <3>2, <3>3, <2>2 DEF Extent
    <3>5. NotAfter(q, q)  BY <2>2, PlacesAreNotMarks DEF NotAfter
    <3> QED BY <3>4, <3>5, <2>2, <2>3, PlacesAreNotMarks DEF Known
  <2>5. \A c \in S : c \in Addr /\ ptr[c] \in Place /\ NotAfter(ptr[c], q)
    <3>1. block[a] \in Addr  BY <2>2, <2>3, PointsWithin
    <3>2. block[a] .. LastAddr \subseteq Addr  BY <3>1 DEF Addr
    <3>3. ptr \in [Addr -> Place \cup {NoCode, Dynamic}]  BY DEF Kept, Shaped
    <3> QED BY <3>2, <3>3, <2>2 DEF Known, Extent
  <2> DEFINE last == CHOOSE c \in S : \A d \in S : NotAfter(ptr[d], ptr[c])
  <2>6. \A u, v \in Place : NotAfter(u, v) /\ NotAfter(v, u) => u = v
    BY PlacesAreNotMarks DEF NotAfter
  <2>7. last \in S /\ \A d \in S : NotAfter(ptr[d], ptr[last])
    <3>1. \A d \in S : NotAfter(ptr[d], ptr[a])  BY <2>3, <2>5
    <3> QED BY <3>1, <2>4
  <2>8. ptr[last] = q  BY <2>2, <2>3, <2>4, <2>5, <2>6, <2>7
  <2> DEFINE first(c) == ptr[c] = ptr[last] /\ \A d \in S : ptr[d] = ptr[c] => c <= d
  <2>9. PcOf(q) = CHOOSE c \in S : first(c)  BY <2>2 DEF PcOf
  <2> HIDE DEF last, S
  <2>10. first(a)  BY <2>3, <2>5, <2>8
  <2>11. \A c \in S : first(c) => c = a
    <3> SUFFICES ASSUME NEW c \in S, first(c) PROVE c = a  OBVIOUS
    <3>1. c <= a /\ a <= c  BY <2>3, <2>4, <2>5, <2>8
    <3> QED BY <3>1, <2>5 DEF Addr
  <2> QED BY <2>4, <2>9, <2>10, <2>11
<1> QED BY <1>1, <1>2

-----------------------------------------------------------------------------
(* What runs next: code that was made from what memory holds, or nothing.    *)
LEMMA CodeIsRead ==
  ASSUME BlocksAssumption, BlocksInv, thread.who = "jit", NEW cell, cell = HostAt(thread.at)
  PROVE  \/ cell = Mark
         \/ cell = ByInturbo(thread.pc)
         \/ cell.k = "run" /\ cell.i.at = thread.pc /\ Runnable(mem, block, ptr, host, zero, thread.at, cell)
         \/ cell.k = "interp" /\ cell.at = thread.pc /\ AccessesRegister(mem, ptr, thread.at, cell)
<1> DEFINE q == thread.at  a == thread.pc
<1>1. a \in Addr /\ Leads(block, ptr, host, a, q) /\ Kept(mem, block, ptr, host, zero)
  BY DEF BlocksInv, ThreadOK
<1>2. cell = At(host, q)  BY DEF HostAt, At
<1> HIDE DEF q, a
<1>3. ASSUME ptr[a] = q, q \in Place
      PROVE  \/ cell = Mark
             \/ cell.k = "run" /\ Runnable(mem, block, ptr, host, zero, q, cell)
             \/ cell.k = "interp" /\ AccessesRegister(mem, ptr, q, cell)
  <2>1. CodeAt(mem, block, ptr, host, zero, q)  BY <1>1, <1>3 DEF Kept, CodeOK
  <2> QED BY <2>1, <1>2 DEF CodeAt
<1>4. ASSUME ptr[a] = q, q \in Place, q = Slot(a) \/ \A c \in Addr : ptr[c] = q => a <= c,
             NEW at, PointedFrom(ptr, q, at)
      PROVE  at = a
  <2>1. at \in Addr /\ ptr[at] = q /\ \A c \in Addr : ptr[c] = q => at <= c  BY <1>4 DEF PointedFrom
  <2>2. at <= a  BY <2>1, <1>1, <1>4
  <2>3. a <= at
    <3>1. CASE q = Slot(a)
      <4>1. q[1] \in block[at] .. at  BY <2>1, <1>1, <1>4, PointsWithin
      <4>2. q[1] = a  BY <3>1, <1>1, PlacesAreNotMarks
      <4> QED BY <4>1, <4>2
    <3> QED BY <3>1, <2>1, <1>4
  <2> QED BY <2>1, <2>2, <2>3, <1>1 DEF Addr
<1>5. CASE q = Slot(a)
  <2>1. SlotAt(ptr, host, a)  BY <1>1 DEF Kept, Slots
  <2>2. q \in Place  BY <1>1, <1>5, PlacesAreNotMarks
  <2>3. CASE ptr[a] = Slot(a)
    BY <2>2, <2>3, <1>3, <1>4, <1>5 DEF Runnable, AccessesRegister, q, a
  <2> QED BY <2>1, <2>3, <1>2, <1>5 DEF SlotAt, a
<1>6. CASE Inside(block, ptr, host, a, q)
  <2>1. q \in Place /\ \/ ptr[a] = q /\ \A c \in Addr : ptr[c] = q => a <= c
                       \/ At(host, q) = ByInturbo(a)
    BY <1>6 DEF Inside
  <2>2. CASE ptr[a] = q /\ \A c \in Addr : ptr[c] = q => a <= c
    BY <2>1, <2>2, <1>3, <1>4 DEF Runnable, AccessesRegister, q, a
  <2> QED BY <2>1, <2>2, <1>2 DEF a
<1> QED BY <1>1, <1>5, <1>6 DEF Leads

LEMMA RunsIt == ASSUME BlocksAssumption, BlocksInv PROVE RunsWhatMemoryHolds
<1> SUFFICES ASSUME thread.who = "jit", NEW cell, cell = HostAt(thread.at)
             PROVE  /\ cell # Trap
                    /\ cell.k = "run" => cell.i.at = thread.pc /\ SameBytes(cell.i, mem)
                    /\ cell.k \in {"interp", "inturbo"} => cell.at = thread.pc
                    /\ cell.k = "interp" => ToRegister(InstructionAt(mem, thread.pc), mem[thread.pc + 1])
  BY DEF RunsWhatMemoryHolds
<1>1. CASE cell = Mark  BY <1>1 DEF Mark, Trap
<1>2. CASE cell = ByInturbo(thread.pc)  BY <1>2 DEF ByInturbo, Trap
<1>3. CASE cell.k = "run" /\ cell.i.at = thread.pc /\ Runnable(mem, block, ptr, host, zero, thread.at, cell)
  BY <1>3 DEF Runnable, Trap
<1>4. CASE cell.k = "interp" /\ cell.at = thread.pc /\ AccessesRegister(mem, ptr, thread.at, cell)
  BY <1>4 DEF AccessesRegister, Trap
<1> QED BY <1>1, <1>2, <1>3, <1>4, CodeIsRead

LEMMA CoherentIt == ASSUME BlocksAssumption, BlocksInv PROVE BlocksAgree
<1>1. Kept(mem, block, ptr, host, zero)  BY DEF BlocksInv
<1>2. ASSUME NEW a \in Addr
      PROVE  /\ (block[a] = NoBlock) = (ptr[a] = NoCode)
             /\ block[a] # NoBlock => a \in Extent(block, block[a]) /\ block[block[a]] = block[a]
             /\ ~zero /\ a < ZeroPage => block[a] = NoBlock
  <2>1. PointerAt(block, ptr, a) /\ WholeAt(block, a) /\ LooksAfter(block, zero) /\ block[a] \in Addr \cup {NoBlock}
    BY <1>1 DEF Kept, Pointers, Whole, Shaped
  <2>2. ASSUME block[a] # NoBlock PROVE a \in Extent(block, block[a]) /\ block[block[a]] = block[a]
    <3>1. block[a] \in Addr /\ block[a] <= a /\ \A c \in block[a] .. a : block[c] = block[a]
      BY <2>1, <2>2 DEF WholeAt
    <3>2. block[a] \in block[a] .. a /\ a \in block[a] .. LastAddr  BY <3>1 DEF Addr
    <3> QED BY <3>1, <3>2 DEF Extent
  <2> QED BY <2>1, <2>2 DEF PointerAt, LooksAfter
<1>3. ASSUME thread.who = "jit"
      PROVE  /\ thread.at[2] # 0 => block[thread.at[1]] # NoBlock
             /\ thread.at[2] # 0 /\ HostAt(thread.at).k \in {"run", "mark"} => PcOf(thread.at) = thread.pc
  <2>1. thread.pc \in Addr /\ Leads(block, ptr, host, thread.pc, thread.at)  BY <1>3 DEF BlocksInv, ThreadOK
  <2>2. thread.at[2] # 0 => Inside(block, ptr, host, thread.pc, thread.at)
    BY <2>1, PlacesAreNotMarks DEF Leads
  <2>3. HostAt(thread.at) = At(host, thread.at)  BY DEF HostAt, At
  <2>4. HostAt(thread.at).k \in {"run", "mark"} => PcOf(thread.at) = thread.pc
    BY <2>1, <2>3, <1>1, PcIsFound
  <2> QED BY <2>2, <2>4 DEF Inside
<1> QED BY <1>2, <1>3 DEF BlocksAgree

-----------------------------------------------------------------------------
(* jit_memory_range_invalidate, of a range that blocks do not cross.         *)
LEMMA EmptiedKeeps ==
  ASSUME BlocksAssumption, NEW z, Kept(mem, block, ptr, host, z),
         NEW D \in SUBSET Addr, \A a \in Addr : block[a] # NoBlock => (a \in D) = (block[a] \in D),
         NEW m2 \in [Addr -> Value], \A a \in Addr \ D : m2[a] = mem[a],
         NEW z2 \in BOOLEAN, z2 = z \/ (z2 /\ \A a \in Addr \ D : block[a] = NoBlock)
  PROVE  Kept(m2, Emptied(Now, D).block, Emptied(Now, D).ptr, Emptied(Now, D).host, z2)
<1> DEFINE h2 == Emptied(Now, D).host
<1>1. /\ Emptied(Now, D).block = With(block, D, NoBlock) /\ Emptied(Now, D).ptr = With(ptr, D, NoCode)
      /\ h2 = [a \in Addr |-> IF a \in D /\ block[a] = a THEN Invalidated(host, ptr[a])[a] ELSE host[a]]
  BY DEF Emptied, Now
<1>2. Shaped(mem, block, ptr, host)  BY DEF Kept
<1>3. \A a \in Addr : h2[a] = IF a \in D /\ block[a] = a THEN Invalidated(host, ptr[a])[a] ELSE host[a]
  BY <1>1
<1>4. DOMAIN h2 = Addr  BY <1>1
<1> HIDE DEF h2
<1>5. \A x \in Addr : /\ \A a \in Addr : DOMAIN Invalidated(host, ptr[x])[a] = 0 .. PerSlot - 1
                      /\ \A q \in Place : At(Invalidated(host, ptr[x]), q) = IF ptr[x] = q THEN Mark ELSE At(host, q)
  BY <1>2, MarkedAt
<1>6. \A a \in Addr : DOMAIN h2[a] = 0 .. PerSlot - 1  BY <1>2, <1>3, <1>5 DEF Shaped
<1>7. \A a \in Addr \ D : h2[a] = host[a]  BY <1>3
<1>8. ASSUME NEW a \in D PROVE At(h2, Slot(a)) \in {Mark, ByInturbo(a)}
  <2>1. a \in Addr /\ Slot(a)[1] = a /\ Slot(a)[2] = 0 /\ Slot(a) \in Place  BY PlacesAreNotMarks
  <2>2. SlotAt(ptr, host, a) /\ PointerAt(block, ptr, a)  BY <2>1 DEF Kept, Slots, Pointers
  <2>3. CASE block[a] = a
    <3>1. At(h2, Slot(a)) = At(Invalidated(host, ptr[a]), Slot(a))  BY <2>1, <2>3, <1>3 DEF At
    <3>2. At(h2, Slot(a)) = IF ptr[a] = Slot(a) THEN Mark ELSE At(host, Slot(a))  BY <3>1, <2>1, <1>5
    <3> QED BY <3>2, <2>2 DEF SlotAt
  <2>4. CASE block[a] # a
    <3>1. At(h2, Slot(a)) = At(host, Slot(a))  BY <2>1, <2>4, <1>3 DEF At
    <3>2. ptr[a] # Slot(a)  BY <2>1, <2>2, <2>4 DEF PointerAt
    <3> QED BY <3>1, <3>2, <2>2 DEF SlotAt
  <2> QED BY <2>3, <2>4
<1>9. Kept(m2, With(block, D, NoBlock), With(ptr, D, NoCode), h2, z2)
  BY <1>4, <1>6, <1>7, <1>8, Dropped
<1> QED BY <1>1, <1>9 DEF h2

(* A write marks the code at the byte, unless nothing is compiled there or   *)
(* the byte does not change.                                                 *)
LEMMA StoreAtKeeps ==
  ASSUME BlocksAssumption, Kept(mem, block, ptr, host, zero), CodeStays,
         NEW x \in Addr, NEW marks, StoreAt(x, marks),
         marks \/ block[x] = NoBlock \/ (~zero /\ x \in 0 .. ZeroPage)
  PROVE  /\ Kept(mem', block, ptr, host', zero)
         /\ \A a, q : Inside(block, ptr, host, a, q) => Inside(block, ptr, host', a, q)
<1>1. Shaped(mem, block, ptr, host)  BY DEF Kept
<1>2. PICK v \in Stored[x] : mem' = WrittenTo(mem, x, v)  BY DEF StoreAt
<1>3. v \in Value  BY DEF BlocksAssumption
<1>4. ASSUME host' = Invalidated(host, ptr[x])
      PROVE  /\ Kept(mem', block, ptr, host', zero)
             /\ \A a, q : Inside(block, ptr, host, a, q) => Inside(block, ptr, host', a, q)
  <2>1. Kept(WrittenTo(mem, x, v), block, ptr, Invalidated(host, ptr[x]), zero)  BY <1>3, StoreKeeps
  <2>2. \A a, q : Inside(block, ptr, host, a, q) => Inside(block, ptr, Invalidated(host, ptr[x]), a, q)
    BY <1>1, StillInside
  <2> QED BY <2>1, <2>2, <1>2, <1>4
<1>5. CASE marks
  <2>1. host' = Invalidated(host, ptr[x])  BY <1>5 DEF StoreAt
  <2> QED BY <2>1, <1>4
<1>6. CASE ~marks
  <2>1. host' = host  BY <1>6 DEF StoreAt
  <2>2. CASE block[x] = NoBlock
    <3>1. ptr[x] = NoCode  BY <2>2 DEF Kept, Pointers, PointerAt
    <3>2. Invalidated(host, ptr[x]) = host  BY <3>1 DEF Invalidated
    <3> QED BY <3>2, <2>1, <1>4
  <2>3. CASE block[x] # NoBlock
    <3>1. ~zero /\ x \in 0 .. ZeroPage  BY <2>3, <1>6
    <3>2. ~ (x < ZeroPage)  BY <3>1, <2>3 DEF Kept, LooksAfter
    <3>3. x = ZeroPage  BY <3>1, <3>2 DEF BlocksAssumption, Addr
    <3>4. v = mem[x]  BY <3>1, <3>3, <2>3 DEF CodeStays
    <3>5. WrittenTo(mem, x, v) = mem  BY <3>4, <1>1 DEF WrittenTo, Shaped
    <3> QED BY <3>5, <2>1, <1>2
  <2> QED BY <2>2, <2>3
<1> QED BY <1>5, <1>6

LEMMA StoredWithin ==
  ASSUME BlocksAssumption, NEW i, NEW arg \in Value, Stores(i), ~ToRegister(i, arg)
  PROVE  StoresTo(i, arg) \in Addr /\ (i.op = "zpg" => StoresTo(i, arg) \in 0 .. ZeroPage)
<1>1. ZeroPage \in Nat /\ ZeroPage <= LastAddr /\ LastAddr \in Nat /\ arg \in Nat
  BY DEF BlocksAssumption, Addr, Value
<1>2. CASE i.op = "zpg"
  <2>1. StoresTo(i, arg) = arg % (ZeroPage + 1)  BY <1>2 DEF StoresTo
  <2>2. arg % (ZeroPage + 1) \in 0 .. ZeroPage  BY <1>1
  <2> QED BY <2>1, <2>2, <1>1 DEF Addr
<1>3. CASE i.op # "zpg"
  <2>1. StoresTo(i, arg) = arg  BY <1>3 DEF StoresTo
  <2> QED BY <2>1, <1>3 DEF ToRegister, Value
<1> QED BY <1>2, <1>3

LEMMA ArgumentOf ==
  ASSUME BlocksAssumption, NEW m \in [Addr -> Value], NEW at \in Addr, at + 1 \in Addr
  PROVE  Stores(InstructionAt(m, at)) => InstructionAt(m, at).arg \in Value
BY DEF InstructionAt, Stores, Bytes

-----------------------------------------------------------------------------
(* The steps.                                                                *)
LEMMA InitKept == ASSUME BlocksAssumption, BlocksInit PROVE BlocksInv
<1>1. /\ mem \in [Addr -> Value] /\ block = [a \in Addr |-> NoBlock] /\ ptr = [a \in Addr |-> NoCode]
      /\ host = [a \in Addr |-> [j \in 0 .. PerSlot - 1 |-> IF j = 0 THEN Mark ELSE Trap]]
      /\ zero = FALSE
  BY DEF BlocksInit, BlocksAssumption
<1>2. Shaped(mem, block, ptr, host)  BY <1>1 DEF Shaped
<1>3. Whole(block) /\ LooksAfter(block, zero)  BY <1>1 DEF Whole, WholeAt, LooksAfter
<1>4. Pointers(block, ptr) /\ CodeOK(mem, block, ptr, host, zero)
  BY <1>1, PlacesAreNotMarks DEF Pointers, PointerAt, CodeOK
<1>5. Slots(ptr, host)
  <2> SUFFICES ASSUME NEW a \in Addr PROVE At(host, Slot(a)) = Mark  BY DEF Slots, SlotAt
  <2>1. 0 \in 0 .. PerSlot - 1  BY DEF BlocksAssumption
  <2> QED BY <2>1, <1>1 DEF At, Slot
<1>6. ThreadOK
  <2>1. PICK here \in Targets : thread = JitAt(here)  BY DEF BlocksInit
  <2>2. here \in Addr  BY DEF BlocksAssumption
  <2> QED BY <2>1, <2>2, PlacesAreNotMarks DEF ThreadOK, JitAt, Leads
<1> QED BY <1>1, <1>2, <1>3, <1>4, <1>5, <1>6 DEF BlocksInv, Kept

LEMMA ThreadGoesOn ==
  ASSUME BlocksAssumption, BlocksInv, mem' = mem, block' = block, ptr' = ptr, host' = host, zero' = zero, ThreadOK'
  PROVE  BlocksInv'
BY DEF BlocksInv

LEMMA InterpreterOK == ASSUME NEW here \in Addr, thread' = Interpreter(here) PROVE ThreadOK'
BY DEF ThreadOK, Interpreter

LEMMA JitOK == ASSUME BlocksAssumption, NEW here \in Addr, thread' = JitAt(here) PROVE ThreadOK'
BY PlacesAreNotMarks DEF ThreadOK, JitAt, Leads

LEMMA EnterInterpKeeps == ASSUME BlocksAssumption, BlocksInv, EnterInterp PROVE BlocksInv'
<1>1. thread.pc \in Addr  BY DEF BlocksInv, ThreadOK
<1>2. ThreadOK'  BY <1>1, InterpreterOK DEF EnterInterp
<1> QED BY <1>2, ThreadGoesOn DEF EnterInterp, Metadata

LEMMA InterruptKeeps == ASSUME BlocksAssumption, BlocksInv, Interrupt PROVE BlocksInv'
<1>1. ThreadOK'  BY InterpreterOK DEF Interrupt, BlocksAssumption
<1> QED BY <1>1, ThreadGoesOn DEF Interrupt, Metadata

LEMMA RunKeeps == ASSUME BlocksAssumption, BlocksInv, CodeStays, CodeStays', Run PROVE BlocksInv'
<1> DEFINE cell == HostAt(thread.at)  i == cell.i  here == thread.pc  q == thread.at  x == StoresTo(i, ArgOf(i))
<1>1. thread.who = "jit" /\ cell.k = "run" /\ ~ToRegister(i, ArgOf(i)) /\ Goes(cell)
      /\ (Stores(i) => StoreAt(x, cell.marks)) /\ (~Stores(i) => UNCHANGED <<mem, host, allowed>>)
      /\ UNCHANGED <<block, ptr, flags, zero, history>>
  BY DEF Run, Metadata
<1>2. /\ Kept(mem, block, ptr, host, zero) /\ zero \in BOOLEAN /\ here \in Addr
      /\ mem \in [Addr -> Value]
  BY DEF BlocksInv, ThreadOK, Kept, Shaped
<1>3. i.at = here /\ Runnable(mem, block, ptr, host, zero, q, cell)
  BY <1>1, CodeIsRead DEF Mark, ByInturbo
<1>4. /\ i.end = here + Bytes(i.op) /\ SameBytes(i, mem) /\ SureToMark(cell, zero)
      /\ Bytes(i.op) = 2 => here + 1 \in Addr
      /\ i.op \notin {"jmp", "rts"} =>
           cell.next = Slot(i.end) \/ Inside(block, ptr, host, i.end, cell.next)
  BY <1>3 DEF Runnable
<1> HIDE DEF cell, i, here, q, x
<1>5. /\ Kept(mem', block, ptr, host', zero)
      /\ \A a, r : Inside(block, ptr, host, a, r) => Inside(block, ptr, host', a, r)
  <2>1. CASE Stores(i)
    <3>1. here + 1 \in Addr  BY <2>1, <1>4 DEF Stores, Bytes
    <3>2. InstructionAt(mem, here).op = i.op /\ (i.kind = "operand" \/ InstructionAt(mem, here).arg = i.arg)
      BY <1>3, <1>4 DEF SameBytes
    <3>3. Stores(InstructionAt(mem, here))  BY <2>1, <3>2 DEF Stores
    <3>4. ArgOf(i) \in Value  BY <3>1, <3>2, <3>3, <1>2, <1>3, ArgumentOf DEF ArgOf
    <3>5. x \in Addr /\ (i.op = "zpg" => x \in 0 .. ZeroPage)  BY <3>4, <2>1, <1>1, StoredWithin DEF x
    <3>6. cell.marks \/ (~zero /\ x \in 0 .. ZeroPage)  BY <3>5, <2>1, <1>4 DEF SureToMark, i
    <3>7. StoreAt(x, cell.marks)  BY <2>1, <1>1
    <3> QED BY <3>5, <3>6, <3>7, <1>2, StoreAtKeeps
  <2>2. CASE ~Stores(i)  BY <2>2, <1>1, <1>2
  <2> QED BY <2>1, <2>2
<1>6. ThreadOK'
  <2>1. PICK to \in Successors(i) :
          thread' = [who |-> "jit", pc |-> to, at |-> IF i.op \in {"jmp", "rts"} THEN Slot(to) ELSE cell.next]
    BY <1>1 DEF Goes, i
  <2>2. thread'.pc = to /\ to \in Addr
    <3>1. thread'.pc = to  BY <2>1
    <3>2. thread'.pc \in 0 .. LastAddr - 1  BY DEF CodeStays
    <3> QED BY <3>1, <3>2 DEF Addr, BlocksAssumption
  <2>3. CASE i.op \in {"jmp", "rts"}
    <3>1. thread' = JitAt(to)  BY <2>1, <2>3 DEF JitAt
    <3> QED BY <3>1, <2>2, JitOK
  <2>4. CASE i.op \notin {"jmp", "rts"}
    <3>1. to = i.end /\ thread' = [who |-> "jit", pc |-> to, at |-> cell.next]  BY <2>1, <2>4 DEF Successors
    <3>2. Leads(block, ptr, host', to, cell.next)  BY <3>1, <2>4, <1>4, <1>5 DEF Leads
    <3>3. cell.next \in Place  BY <3>2, <2>2, PlacesAreNotMarks DEF Leads, Inside
    <3> QED BY <3>1, <3>2, <3>3, <2>2, <1>1 DEF ThreadOK
  <2> QED BY <2>3, <2>4
<1> QED BY <1>1, <1>2, <1>5, <1>6 DEF BlocksInv

LEMMA InturboKeeps == ASSUME BlocksAssumption, BlocksInv, CodeStays, CodeStays', Inturbo PROVE BlocksInv'
<1> DEFINE i == InstructionAt(mem, thread.pc)  x == StoresTo(i, i.arg)
<1>1. /\ Stores(i) /\ ~ToRegister(i, i.arg) => StoreAt(x, TRUE)
      /\ (Stores(i) => ToRegister(i, i.arg)) => UNCHANGED <<mem, host, allowed>>
      /\ thread' = Interpreter(thread.pc) \/ \E here \in Successors(i) : thread' = JitAt(here)
      /\ UNCHANGED <<block, ptr, flags, zero, history>>
  BY DEF Inturbo, Metadata
<1>2. /\ Kept(mem, block, ptr, host, zero) /\ zero \in BOOLEAN /\ thread.pc \in Addr /\ thread.pc + 1 \in Addr
      /\ mem \in [Addr -> Value]
  BY DEF BlocksInv, ThreadOK, Kept, Shaped, CodeStays, Addr, BlocksAssumption
<1> HIDE DEF i
<1>3. Kept(mem', block, ptr, host', zero)
  <2>1. CASE Stores(i) /\ ~ToRegister(i, i.arg)
    <3>1. i.arg \in Value  BY <2>1, <1>2, ArgumentOf DEF i
    <3>2. x \in Addr  BY <2>1, <3>1, StoredWithin
    <3> QED BY <2>1, <3>2, <1>1, <1>2, StoreAtKeeps
  <2>2. CASE ~ (Stores(i) /\ ~ToRegister(i, i.arg))  BY <2>2, <1>1, <1>2
  <2> QED BY <2>1, <2>2
<1>4. ThreadOK'
  <2>1. CASE thread' = Interpreter(thread.pc)  BY <2>1, <1>2, InterpreterOK
  <2>2. ASSUME NEW here, thread' = JitAt(here) PROVE ThreadOK'
    <3>1. thread'.pc = here  BY <2>2 DEF JitAt
    <3>2. thread'.pc \in 0 .. LastAddr - 1  BY DEF CodeStays
    <3>3. here \in Addr  BY <3>1, <3>2 DEF Addr, BlocksAssumption
    <3> QED BY <2>2, <3>3, JitOK
  <2> QED BY <2>1, <2>2, <1>1
<1> QED BY <1>1, <1>2, <1>3, <1>4 DEF BlocksInv

LEMMA InterpKeeps == ASSUME BlocksAssumption, BlocksInv, CodeStays, CodeStays', Interp PROVE BlocksInv'
<1> DEFINE i == InstructionAt(mem, thread.pc)  x == StoresTo(i, i.arg)
<1>1. /\ ToRegister(i, i.arg) => Page
      /\ Stores(i) /\ ~ToRegister(i, i.arg) => StoreAt(x, block[x] # NoBlock) /\ UNCHANGED <<block, ptr, flags>>
      /\ ~Stores(i) => UNCHANGED <<mem, allowed, block, ptr, host, flags>>
      /\ UNCHANGED <<zero, history>>
      /\ \E here : thread' = JitAt(here) \/ thread' = Interpreter(here)
  BY DEF Interp, Interpret
<1>2. /\ Kept(mem, block, ptr, host, zero) /\ zero \in BOOLEAN /\ thread.pc \in Addr /\ thread.pc + 1 \in Addr
      /\ mem \in [Addr -> Value]
  BY DEF BlocksInv, ThreadOK, Kept, Shaped, CodeStays, Addr, BlocksAssumption
<1> HIDE DEF i
<1>3. Kept(mem', block', ptr', host', zero)
  <2>1. CASE ToRegister(i, i.arg)
    <3>1. PICK bank \in Banks : mem' = [a \in Addr |-> IF a \in RomArea THEN bank[a] ELSE mem[a]]
      BY <2>1, <1>1 DEF Page
    <3>2. mem' \in [Addr -> Value] /\ \A a \in Addr \ RomArea : mem'[a] = mem[a]
      BY <3>1, <1>2 DEF BlocksAssumption
    <3>3. RomArea \in SUBSET Addr /\ \A a \in Addr : block[a] # NoBlock => (a \in RomArea) = (block[a] \in RomArea)
      BY DEF BlocksAssumption, CodeStays
    <3>4. Kept(mem', Emptied(Now, RomArea).block, Emptied(Now, RomArea).ptr, Emptied(Now, RomArea).host, zero)
      <4> DEFINE m2 == mem'
      <4>1. m2 \in [Addr -> Value] /\ \A a \in Addr \ RomArea : m2[a] = mem[a]  BY <3>2
      <4> HIDE DEF m2
      <4>2. Kept(m2, Emptied(Now, RomArea).block, Emptied(Now, RomArea).ptr, Emptied(Now, RomArea).host, zero)
        BY <4>1, <3>3, <1>2, EmptiedKeeps
      <4> QED BY <4>2 DEF m2
    <3>5. Becomes(Emptied(Now, RomArea))  BY <2>1, <1>1 DEF Page
    <3> QED BY <3>4, <3>5 DEF Becomes
  <2>2. CASE Stores(i) /\ ~ToRegister(i, i.arg)
    <3>1. i.arg \in Value  BY <2>2, <1>2, ArgumentOf DEF i
    <3>2. x \in Addr  BY <2>2, <3>1, StoredWithin
    <3>3. StoreAt(x, block[x] # NoBlock) /\ block' = block /\ ptr' = ptr  BY <2>2, <1>1
    <3>4. Kept(mem', block, ptr, host', zero)  BY <3>2, <3>3, <1>2, StoreAtKeeps
    <3> QED BY <3>3, <3>4
  <2>3. CASE ~Stores(i) /\ ~ToRegister(i, i.arg)  BY <2>3, <1>1, <1>2
  <2> QED BY <2>1, <2>2, <2>3
<1>4. ThreadOK'
  <2>1. PICK here : thread' = JitAt(here) \/ thread' = Interpreter(here)  BY <1>1
  <2>2. thread'.pc = here  BY <2>1 DEF JitAt, Interpreter
  <2>3. thread'.pc \in 0 .. LastAddr - 1  BY DEF CodeStays
  <2>4. here \in Addr  BY <2>2, <2>3 DEF Addr, BlocksAssumption
  <2> QED BY <2>1, <2>4, JitOK, InterpreterOK
<1> QED BY <1>1, <1>2, <1>3, <1>4 DEF BlocksInv

LEMMA SweepKeeps == ASSUME BlocksAssumption, BlocksInv, Sweep PROVE BlocksInv'
<1> DEFINE D == {a \in Addr : block[a] \in StaleBlocks}  h2 == host'
<1>1. /\ Kept(mem, block, ptr, host, zero) /\ zero \in BOOLEAN /\ ThreadOK
      /\ mem \in [Addr -> Value] /\ block \in [Addr -> Addr \cup {NoBlock}]
      /\ DOMAIN host = Addr /\ \A a \in Addr : DOMAIN host[a] = 0 .. PerSlot - 1
  BY DEF BlocksInv, Kept, Shaped
<1>2. /\ thread.who = "interp" /\ block' = With(block, D, NoBlock) /\ ptr' = With(ptr, D, NoCode)
      /\ h2 = [a \in Addr |-> IF a \in StaleBlocks THEN [host[a] EXCEPT ![0] = Mark] ELSE host[a]]
      /\ mem' = mem /\ zero' = zero /\ thread' = thread
  BY DEF Sweep
<1>3. \A a \in Addr : block[a] # NoBlock => block[a] \in Addr /\ block[block[a]] = block[a]
  <2> TAKE a \in Addr
  <2>1. WholeAt(block, a) /\ block[a] \in Addr \cup {NoBlock}  BY <1>1 DEF Kept, Whole
  <2> QED BY <2>1 DEF WholeAt, Addr
<1>4. \A a \in StaleBlocks : a \in Addr /\ block[a] = a  BY <1>3 DEF StaleBlocks
<1>5. D \in SUBSET Addr /\ \A a \in Addr : block[a] # NoBlock => (a \in D) = (block[a] \in D)  BY <1>3
<1>6. \A a \in StaleBlocks : a \in D  BY <1>4
<1>7. \A a \in Addr : /\ DOMAIN [host[a] EXCEPT ![0] = Mark] = 0 .. PerSlot - 1
                      /\ [host[a] EXCEPT ![0] = Mark][0] = Mark
  <2>1. 0 \in 0 .. PerSlot - 1  BY DEF BlocksAssumption
  <2> QED BY <2>1, <1>1
<1> HIDE DEF h2
<1>8. DOMAIN h2 = Addr /\ \A a \in Addr : DOMAIN h2[a] = 0 .. PerSlot - 1  BY <1>1, <1>2, <1>7
<1>9. \A a \in Addr \ D : h2[a] = host[a]
  <2> HIDE DEF D
  <2> QED BY <1>2, <1>6
<1>10. ASSUME NEW a \in D PROVE At(h2, Slot(a)) \in {Mark, ByInturbo(a)}
  <2>1. a \in Addr /\ Slot(a)[1] = a /\ Slot(a)[2] = 0  BY PlacesAreNotMarks
  <2>2. CASE a \in StaleBlocks
    <3>1. h2[a][0] = Mark  BY <2>1, <2>2, <1>2, <1>7
    <3> QED BY <3>1, <2>1 DEF At
  <2>3. CASE a \notin StaleBlocks
    <3>1. At(h2, Slot(a)) = At(host, Slot(a))  BY <2>1, <2>3, <1>2 DEF At
    <3>2. SlotAt(ptr, host, a) /\ PointerAt(block, ptr, a)  BY <2>1, <1>1 DEF Kept, Slots, Pointers
    <3>3. block[a] # a  BY <2>3
    <3>4. ptr[a] # Slot(a)
      <4>1. Slot(a) \in Place  BY <2>1, PlacesAreNotMarks
      <4> QED BY <4>1, <3>2, <3>3, <2>1 DEF PointerAt
    <3> QED BY <3>1, <3>2, <3>4 DEF SlotAt
  <2> QED BY <2>2, <2>3
<1> HIDE DEF D
<1>11. Kept(mem, With(block, D, NoBlock), With(ptr, D, NoCode), h2, zero)
  <2>1. \A a \in Addr \ D : mem[a] = mem[a]  OBVIOUS
  <2> QED BY <1>1, <1>5, <1>8, <1>9, <1>10, Dropped
<1>12. ThreadOK'  BY <1>1, <1>2 DEF ThreadOK
<1> QED BY <1>1, <1>2, <1>11, <1>12 DEF BlocksInv, h2

(* Before jit_compile begins: the zero page is looked after from now on, and *)
(* then nothing is compiled.                                                 *)
LEMMA ReadyToCompile ==
  ASSUME BlocksAssumption, BlocksInv, CodeStays, NEW addr \in Addr,
         NEW st, st = IF NeedsZeroPage(addr) THEN Emptied(Now, 0 .. LastAddr - 1) ELSE Now,
         NEW z, z = (zero \/ NeedsZeroPage(addr))
  PROVE  /\ z \in BOOLEAN /\ Kept(mem, st.block, st.ptr, st.host, z) /\ st.block[addr] = block[addr]
         /\ ~z => ~ (addr < ZeroPage)
<1>1. /\ Kept(mem, block, ptr, host, zero) /\ zero \in BOOLEAN /\ mem \in [Addr -> Value]
      /\ block \in [Addr -> Addr \cup {NoBlock}] /\ block[LastAddr] = NoBlock
  BY DEF BlocksInv, Kept, Shaped, CodeStays
<1>2. z \in BOOLEAN /\ (~z => ~ (addr < ZeroPage))  BY <1>1 DEF NeedsZeroPage
<1>3. CASE ~NeedsZeroPage(addr)
  <2>1. st.block = block /\ st.ptr = ptr /\ st.host = host /\ z = zero  BY <1>1, <1>3 DEF Now
  <2> QED BY <2>1, <1>1, <1>2
<1>4. CASE NeedsZeroPage(addr)
  <2> DEFINE D == 0 .. LastAddr - 1
  <2>1. D \in SUBSET Addr /\ \A a \in Addr : a \in D <=> a # LastAddr  BY DEF Addr, BlocksAssumption
  <2>2. z = TRUE  BY <1>4
  <2>3. \A a \in Addr \ D : block[a] = NoBlock  BY <2>1, <1>1
  <2>4. \A a \in Addr : block[a] # NoBlock => (a \in D) = (block[a] \in D)
    <3> TAKE a \in Addr
    <3> HAVE block[a] # NoBlock
    <3>1. block[a] \in Addr /\ WholeAt(block, a) /\ a # LastAddr  BY <1>1 DEF Kept, Whole
    <3>2. block[a] <= a  BY <3>1 DEF WholeAt
    <3>3. block[a] # LastAddr  BY <3>1, <3>2 DEF Addr, BlocksAssumption
    <3> QED BY <3>1, <3>3, <2>1
  <2> HIDE DEF D
  <2>5. Kept(mem, Emptied(Now, D).block, Emptied(Now, D).ptr, Emptied(Now, D).host, TRUE)
    <3>1. \A a \in Addr \ D : mem[a] = mem[a]  OBVIOUS
    <3> QED BY <1>1, <2>1, <2>3, <2>4, EmptiedKeeps
  <2>6. st = Emptied(Now, D)  BY <1>4 DEF D
  <2>7. st.block[addr] = NoBlock
    <3>1. addr \in D  BY <1>4, <2>1 DEF NeedsZeroPage, BlocksAssumption, Addr
    <3>2. st.block = With(block, D, NoBlock)  BY <2>6 DEF Emptied, Now
    <3> QED BY <3>1, <3>2, <1>1 DEF With
  <2>8. block[addr] = NoBlock  BY <1>1, <1>4 DEF Kept, LooksAfter, NeedsZeroPage
  <2> QED BY <2>2, <2>5, <2>6, <2>7, <2>8, <1>2
<1> QED BY <1>3, <1>4

LEMMA CompileKeeps == ASSUME BlocksAssumption, BlocksInv, CodeStays, CodeStays', Compile PROVE BlocksInv'
<1> DEFINE addr == thread.pc
           st == IF NeedsZeroPage(addr) THEN Emptied(Now, 0 .. LastAddr - 1) ELSE Now
           z == zero \/ NeedsZeroPage(addr)
           fl == StartFlags(st.flags, addr, IsInvalidation(thread.at, addr))
<1>1. thread.who = "jit" /\ HostAt(thread.at) = Mark  BY DEF Compile
<1>2. addr \in Addr /\ Leads(block, ptr, host, addr, thread.at) /\ Kept(mem, block, ptr, host, zero)
      /\ thread \in [who : {"jit", "interp"}, pc : Addr, at : Place \cup {NoCode}]
  BY <1>1 DEF BlocksInv, ThreadOK
<1>3. PcOf(thread.at) = addr
  <2>1. At(host, thread.at).k # "inturbo"  BY <1>1 DEF HostAt, At, Mark
  <2> QED BY <2>1, <1>2, PcIsFound
<1>4. zero' = z /\ CompileFrom(st, addr, fl) /\ thread' = [thread EXCEPT !.at = Slot(addr)] /\ mem' = mem
  BY <1>3 DEF Compile
<1>5. PICK bounds \in Bounds(fl.start, addr) : \E list \in Compilations(bounds) :
        Becomes(Compiled(st, addr, list, BoundFlags(fl, bounds)))
  BY <1>4 DEF CompileFrom
<1>6. PICK list \in Compilations(bounds) : Becomes(Compiled(st, addr, list, BoundFlags(fl, bounds)))
  BY <1>5
<1>7. z \in BOOLEAN /\ Kept(mem, st.block, st.ptr, st.host, z) /\ st.block[addr] = block[addr]
      /\ (~z => ~ (addr < ZeroPage))
  <2> DEFINE known == fl.start
  <2> HIDE DEF known, fl
  <2> QED BY <1>2, ReadyToCompile
<1>8. PICK n \in Nat : Listed(mem, addr, list, n) /\ list[n].at <= LastAddr
  <2> DEFINE known == fl.start
  <2>1. bounds \in Bounds(known, addr)  OBVIOUS
  <2> HIDE DEF known, fl, st, z
  <2> QED BY <2>1, <1>2, CompilationIsListed
<1> DEFINE end == list[n].end  efl == EndFlags(BoundFlags(fl, bounds), list, end)
           em == Emission(st.block, st.ptr, st.host, z, addr, list, end, efl)
           r == SplitAfter(SplitBefore(em, st.block[addr], addr), end)
<1>9. Compiled(st, addr, list, BoundFlags(fl, bounds)) = r
  <2>1. Len(list) = n  BY <1>8 DEF Listed
  <2> HIDE DEF st, fl, z
  <2> QED BY <2>1, <1>4, <1>7 DEF Compiled, Emission
<1>10. block' = r.block /\ ptr' = r.ptr /\ host' = r.host  BY <1>6, <1>9 DEF Becomes
<1> HIDE DEF addr, st, z, fl, efl
<1>11. Whole(st.block) /\ st.block \in [Addr -> Addr \cup {NoBlock}]  BY <1>7 DEF Kept, Shaped
<1>12. end \in Nat
  <2>1. n \in 1 .. n  BY <1>8 DEF Listed
  <2> QED BY <2>1, <1>8, ListedInOrder
<1>13. end \in Addr
  <2> SUFFICES ASSUME end > LastAddr PROVE FALSE  BY <1>12 DEF Addr, BlocksAssumption
  <2> DEFINE b == st.block
  <2>1. em.block = With(b, addr .. end - 1, addr) /\ em.ptr = NewPtrs(st.ptr, addr, list)  BY EmissionFields
  <2>2. OnAddr(em.ptr)  BY <2>1 DEF OnAddr, NewPtrs
  <2>3. r = SplitAfter(SplitBefore(em, b[addr], addr), end) /\ Whole(b) /\ b \in [Addr -> Addr \cup {NoBlock}]
    BY <1>11
  <2> HIDE DEF b, em, r, end
  <2>4. r.block[LastAddr] # NoBlock  BY <2>1, <2>2, <2>3, <1>2, <1>12, ReachesLastAddress
  <2> QED BY <2>4, <1>10 DEF CodeStays
<1>14. Kept(mem, r.block, r.ptr, r.host, z)
  <2> DEFINE b == st.block  p == st.ptr  h == st.host
  <2>1. em = Emission(b, p, h, z, addr, list, list[n].end, efl)
        /\ r = SplitAfter(SplitBefore(em, b[addr], addr), list[n].end)
    OBVIOUS
  <2>2. Kept(mem, b, p, h, z) /\ list[n].end \in Addr  BY <1>7, <1>13
  <2> HIDE DEF b, p, h, em, r
  <2> QED BY <2>1, <2>2, <1>7, <1>8, SplitKeeps
<1>15. ThreadOK'
  <2>1. thread' = [who |-> "jit", pc |-> addr, at |-> Slot(addr)]
    BY <1>1, <1>2, <1>4 DEF addr
  <2> QED BY <2>1, <1>2, JitOK DEF JitAt
<1> HIDE DEF r
<1> QED BY <1>4, <1>7, <1>10, <1>14, <1>15 DEF BlocksInv

(* No step of the JIT, of inturbo or of the interpreter breaks it.           *)
LEMMA StepKeeps == ASSUME BlocksAssumption, BlocksInv, CodeStays, CodeStays', BlocksNext PROVE BlocksInv'
<1>1. CASE Compile  BY <1>1, CompileKeeps
<1>2. CASE Run  BY <1>2, RunKeeps
<1>3. CASE LeaveJit  BY <1>3, EnterInterpKeeps DEF LeaveJit
<1>4. CASE Fault  BY <1>4, EnterInterpKeeps DEF Fault
<1>5. CASE Inturbo  BY <1>5, InturboKeeps
<1>6. CASE Interp  BY <1>6, InterpKeeps
<1>7. CASE Interrupt  BY <1>7, InterruptKeeps
<1>8. CASE Sweep  BY <1>8, SweepKeeps
<1> QED BY <1>1, <1>2, <1>3, <1>4, <1>5, <1>6, <1>7, <1>8 DEF BlocksNext

(* Where blocks are whole, an address whose neighbour is in another block    *)
(* starts one.                                                               *)
LEMMA StaysAtAStart == ASSUME BlocksAssumption, BlocksInv', BlocksNext PROVE ReturnsToAStart
<1> SUFFICES ASSUME thread.who = "interp", thread'.who = "jit"
             PROVE  block'[thread'.pc] \in {NoBlock, thread'.pc}
  BY DEF ReturnsToAStart
<1>1. Interp
  <2>1. ~ Compile /\ ~ Run /\ ~ LeaveJit /\ ~ Fault /\ ~ Inturbo
    BY DEF Compile, Run, LeaveJit, Fault, Inturbo
  <2>2. ~ Interrupt  BY DEF Interrupt, Interpreter
  <2>3. ~ Sweep  BY DEF Sweep
  <2> QED BY <2>1, <2>2, <2>3 DEF BlocksNext
<1>2. PICK here : thread' = JitAt(here) /\ Returns(block', here)
  BY <1>1 DEF Interp, Interpreter
<1>3. thread'.pc = here  BY <1>2 DEF JitAt
<1>4. here \in Addr /\ WholeAt(block', here) /\ block'[here] \in Addr \cup {NoBlock}
  BY <1>3 DEF BlocksInv, ThreadOK, Kept, Whole, Shaped
<1>5. ASSUME block'[here] # NoBlock, block'[here] # here PROVE FALSE
  <2>1. block'[here] \in Addr /\ block'[here] <= here /\ \A c \in block'[here] .. here : block'[c] = block'[here]
    BY <1>4, <1>5 DEF WholeAt
  <2>2. here # 0 /\ here - 1 \in block'[here] .. here  BY <2>1, <1>4, <1>5 DEF Addr
  <2>3. block'[here - 1] = block'[here]  BY <2>1, <2>2
  <2> QED BY <2>2, <2>3, <1>2, <1>5 DEF Returns
<1> QED BY <1>3, <1>5

(* What jit.c keeps between any two instructions: whatever is compiled,       *)
(* split, swept, paged or overwritten, BlocksInv above stays true.            *)
THEOREM BlocksStaySound == BlocksAssumption => (BlocksSpec /\ []CodeStays => []BlocksInv)
<1> SUFFICES ASSUME BlocksAssumption PROVE BlocksSpec /\ []CodeStays => []BlocksInv  OBVIOUS
<1>1. BlocksInit => BlocksInv  BY InitKept
<1>2. BlocksInv /\ CodeStays /\ CodeStays' /\ [BlocksNext]_blockVars => BlocksInv'
  <2>1. CASE BlocksNext  BY <2>1, StepKeeps
  <2>2. CASE UNCHANGED blockVars
    BY <2>2, ThreadGoesOn DEF blockVars, BlocksInv, ThreadOK
  <2> QED BY <2>1, <2>2
<1> QED BY <1>1, <1>2, PTL DEF BlocksSpec

(* Host code runs only while memory holds the bytes that it was made from,   *)
(* whoever writes to them.                                                   *)
THEOREM JitRunsWhatMemoryHolds == BlocksAssumption => (BlocksSpec /\ []CodeStays => []RunsWhatMemoryHolds)
<1> SUFFICES ASSUME BlocksAssumption PROVE BlocksSpec /\ []CodeStays => []RunsWhatMemoryHolds  OBVIOUS
<1>1. BlocksInv => RunsWhatMemoryHolds  BY RunsIt
<1>2. BlocksSpec /\ []CodeStays => []BlocksInv  BY BlocksStaySound
<1> QED BY <1>1, <1>2, PTL

(* Blocks are whole, an address has a pointer as long as it is in a block,   *)
(* the host's place tells the 6502's address wherever host code is left, and *)
(* the interpreter goes back only to where a block starts.                   *)
THEOREM JitMetadataIsCoherent == BlocksAssumption => (BlocksSpec /\ []CodeStays => MetadataIsCoherent)
<1> SUFFICES ASSUME BlocksAssumption PROVE BlocksSpec /\ []CodeStays => MetadataIsCoherent  OBVIOUS
<1>1. BlocksInv => BlocksAgree  BY CoherentIt
<1>2. BlocksInv' /\ [BlocksNext]_blockVars => [ReturnsToAStart]_blockVars  BY StaysAtAStart
<1>3. BlocksSpec /\ []CodeStays => []BlocksInv  BY BlocksStaySound
<1> QED BY <1>1, <1>2, <1>3, PTL DEF BlocksSpec, MetadataIsCoherent
=============================================================================
