-------------------------------- MODULE RunLoop --------------------------------
(***************************************************************************)
(* The program as two threads: the main thread, which owns the window and    *)
(* paints (src/main.c), and the thread of the 6502, which runs the machine   *)
(* (src/bbc.c). They talk over two channels, the queue of keys and, without  *)
(* a lock, the flags of the CPU driver.                                      *)
(***************************************************************************)
EXTENDS Integers, Sequences, FiniteSets, TLC

CONSTANTS
  Channel,    \* the messages a channel holds before a writer blocks
  QueueSize,  \* the keys that wait for the machine at most
  MaxKeys     \* bound: keys the user presses

Keys == {"BREAK", "F", "R", "Z"}  \* the last three with Alt: fast mode, reset, rewind
Resets == {"soft", "hard", "replay"}
Flags == Resets \cup {"exited"}

VARIABLES
  main,    \* the main thread: what it does next, the message, what poll() found, the flags it has read
  cpu,     \* the CPU thread: what it does next, its changes of the flags still to be made, the flags it has read
  toMain, toCpu,  \* the channels
  driver,  \* the CPU driver's flags and exit value
  bbc,     \* running, the exit value, fast mode, whether it rewinds, the Alt keys not yet looked at
  queue,   \* the keys waiting for the machine
  user,    \* the keys to be pressed, the window's events not yet read, whether the window is asked to close
  options, \* whether there is a window, a limit of cycles, a capture
  owed,    \* history: resets asked for and not done
  lost     \* history: flags that the other thread's store has overwritten
vars == <<main, cpu, toMain, toCpu, driver, bbc, queue, user, options, owed, lost>>

-----------------------------------------------------------------------------
(* The flags are changed by a load and a store, with those of the other      *)
(* thread in between or not.                                                 *)
Change(set, clear) == [set |-> set, clear |-> clear]
Store(loaded, change) ==
  LET new == (loaded \cup change.set) \ change.clear
  IN  /\ driver' = [driver EXCEPT !.flags = new]
      /\ lost' = lost \cup ((driver.flags \ loaded) \ (new \cup change.clear))

-----------------------------------------------------------------------------
(* The main thread.                                                          *)
Goto(pc) == main' = [main EXCEPT !.pc = pc]
MainOnly == UNCHANGED <<cpu, toMain, toCpu, driver, bbc, queue, user, options, owed, lost>>

(* The thread is created before the flag is set.                             *)
RunAsync ==
  /\ main.pc = "run_async" /\ Goto("poll")
  /\ bbc' = [bbc EXCEPT !.running = TRUE, !.overtaken = cpu.pc \in {"left", "done"}]
  /\ UNCHANGED <<cpu, toMain, toCpu, driver, queue, user, options, owed, lost>>

Poll ==
  /\ main.pc = "poll"
  /\ LET window == user.events # <<>>
     IN  /\ toMain # <<>> \/ window
         /\ main' = [main EXCEPT !.pc = IF toMain # <<>> THEN "receive" ELSE "window", !.window = window]
  /\ MainOnly

ClientReceiveMessage ==
  /\ main.pc = "receive"
  /\ main' = [main EXCEPT !.pc = IF Head(toMain).is = "exited" THEN "result" ELSE "paint", !.message = Head(toMain)]
  /\ toMain' = Tail(toMain)
  /\ UNCHANGED <<cpu, toCpu, driver, bbc, queue, user, options, owed, lost>>

\* A mutant: every frame is acknowledged.
PaintAcknowledged ==
  /\ main.pc = "paint" /\ Goto("ack")
  /\ MainOnly
Paint ==
  /\ main.pc = "paint" /\ Goto(IF main.message.wait THEN "ack" ELSE "window")
  /\ MainOnly

ClientSendMessage ==
  /\ main.pc = "ack" /\ Len(toCpu) < Channel
  /\ toCpu' = Append(toCpu, "render_done") /\ Goto("window")
  /\ UNCHANGED <<cpu, toMain, driver, bbc, queue, user, options, owed, lost>>

(* The window's events: each key goes into the queue if there is room.       *)
ProcessEvents ==
  /\ main.pc = "window"
  /\ IF main.window /\ main.open
     THEN LET keys == SelectSeq(user.events, LAMBDA e : e \in Keys)
          IN  /\ queue' = SubSeq(queue \o keys, 1, IF Len(queue) + Len(keys) < QueueSize THEN Len(queue) + Len(keys) ELSE QueueSize)
              /\ user' = [user EXCEPT !.events = <<>>]
              /\ main' = [main EXCEPT !.pc = IF "close" \in {user.events[i] : i \in DOMAIN user.events} THEN "closed" ELSE "poll"]
     ELSE UNCHANGED <<queue, user>> /\ Goto("poll")
  /\ UNCHANGED <<cpu, toMain, toCpu, driver, bbc, options, owed, lost>>
WindowClosed ==
  /\ main.pc = "closed"
  /\ main' = [main EXCEPT !.pc = IF "exited" \in driver.flags THEN "poll" ELSE "load", !.open = FALSE]
  /\ MainOnly
LoadFlags ==
  /\ main.pc = "load" /\ main' = [main EXCEPT !.pc = "store", !.loaded = driver.flags]
  /\ MainOnly
StoreFlags ==
  /\ main.pc = "store" /\ main' = [main EXCEPT !.pc = "value", !.loaded = {}]
  /\ Store(main.loaded, Change({"exited"}, {}))
  /\ UNCHANGED <<cpu, toMain, toCpu, bbc, queue, user, options, owed>>
SetExitValue ==
  /\ main.pc = "value" /\ Goto("poll")
  /\ driver' = [driver EXCEPT !.value = "closed"]
  /\ UNCHANGED <<cpu, toMain, toCpu, bbc, queue, user, options, owed, lost>>

(* bbc_get_run_result(), and bbc_destroy(), which joins the thread.          *)
GetRunResult ==
  /\ main.pc = "result" /\ cpu.pc = "done" /\ Goto("ended")
  /\ MainOnly

-----------------------------------------------------------------------------
(* The CPU thread runs until a timer of the machine calls back: at a frame,  *)
(* at a tick of the machine's own timer, at the limit of cycles or at the    *)
(* end of a rewind. After it the driver looks at the flags.                  *)
CpuGoto(pc) == cpu' = [cpu EXCEPT !.pc = pc]
CpuThread ==
  /\ cpu.pc = "created" /\ CpuGoto("run")
  /\ UNCHANGED <<main, toMain, toCpu, driver, bbc, queue, user, options, owed, lost>>

FramebufferReady ==
  /\ cpu.pc = "run" /\ Len(toMain) < Channel
  /\ \E timer \in BOOLEAN :  \* the paint timer has fired, or the option to render always
       LET wait == ~bbc.fast \/ timer
       IN  toMain' = Append(toMain, [is |-> "vsync", wait |-> wait]) /\ CpuGoto(IF wait THEN "wait" ELSE "check")
  /\ UNCHANGED <<main, toCpu, driver, bbc, queue, user, options, owed, lost>>
CpuReceiveMessage ==
  /\ cpu.pc = "wait" /\ toCpu # <<>>
  /\ toCpu' = Tail(toCpu) /\ CpuGoto("check")
  /\ UNCHANGED <<main, toMain, driver, bbc, queue, user, options, owed, lost>>

(* BREAK counts at once, but not during a rewind, whose keys are the         *)
(* machine's; of the Alt keys one is looked at in a tick.                    *)
CheckAltKey(pressed) ==
  IF "F" \in pressed THEN "F" ELSE IF "R" \in pressed THEN "R" ELSE IF "Z" \in pressed THEN "Z" ELSE "none"
CyclesTimer ==
  /\ cpu.pc = "run"
  /\ LET keys    == {queue[i] : i \in DOMAIN queue}
         pressed == bbc.pressed \cup (keys \cap {"F", "R", "Z"})
         alt     == CheckAltKey(pressed)
         break   == IF "BREAK" \in keys /\ ~bbc.rewinding THEN <<Change({"soft"}, {})>> ELSE <<>>
         seek    == CASE alt = "R" -> <<Change({"hard"}, {})>>
                      [] alt = "Z" /\ options.capture /\ ~bbc.rewinding -> <<Change({"hard", "replay"}, {})>>
                      [] OTHER -> <<>>
         changes == break \o seek
     IN  /\ bbc' = [bbc EXCEPT !.pressed = pressed \ {alt}, !.fast = IF alt = "F" THEN ~@ ELSE @]
         /\ owed' = owed \cup UNION {changes[i].set : i \in DOMAIN changes}
         /\ cpu' = [cpu EXCEPT !.pc = IF changes = <<>> THEN "check" ELSE "apply", !.changes = changes]
  /\ queue' = <<>>
  /\ UNCHANGED <<main, toMain, toCpu, driver, user, options, lost>>

StopCyclesTimer ==
  /\ cpu.pc = "run" /\ options.stop
  /\ options' = [options EXCEPT !.stop = FALSE]
  /\ cpu' = [cpu EXCEPT !.pc = "apply", !.changes = <<Change({"exited"}, {})>>, !.stopping = TRUE]
  /\ UNCHANGED <<main, toMain, toCpu, driver, bbc, queue, user, owed, lost>>
RewindTimer ==
  /\ cpu.pc = "run" /\ bbc.rewinding /\ CpuGoto("check")
  /\ bbc' = [bbc EXCEPT !.rewinding = FALSE, !.fast = FALSE, !.pressed = {}]
  /\ UNCHANGED <<main, toMain, toCpu, driver, queue, user, options, owed, lost>>

ApplyFlagsLoad ==
  /\ cpu.pc = "apply" /\ cpu' = [cpu EXCEPT !.pc = "store", !.loaded = driver.flags]
  /\ UNCHANGED <<main, toMain, toCpu, driver, bbc, queue, user, options, owed, lost>>
ApplyFlagsStore ==
  /\ cpu.pc = "store"
  /\ Store(cpu.loaded, Head(cpu.changes))
  /\ cpu' = [cpu EXCEPT !.changes = Tail(@), !.loaded = {},
                        !.pc = IF Len(cpu.changes) > 1 THEN "apply" ELSE IF cpu.stopping THEN "stop_value"
                               ELSE IF Head(cpu.changes).clear # {} THEN "run" ELSE "check"]
  /\ UNCHANGED <<main, toMain, toCpu, bbc, queue, user, options, owed>>
StopValue ==
  /\ cpu.pc = "stop_value" /\ cpu' = [cpu EXCEPT !.pc = "check", !.stopping = FALSE]
  /\ driver' = [driver EXCEPT !.value = "stopped"]
  /\ UNCHANGED <<main, toMain, toCpu, bbc, queue, user, options, owed, lost>>

(* The driver looks at the flags once; the resets it finds are done, and all *)
(* three are cleared.                                                        *)
\* A mutant: all flags are cleared after a reset.
DoResetClearingAll(flags) ==
  /\ bbc' = [bbc EXCEPT !.pressed = IF "hard" \in flags THEN {} ELSE @,
                        !.rewinding = @ \/ ("replay" \in flags /\ options.capture),
                        !.fast = @ \/ ("replay" \in flags /\ options.capture)]
  /\ owed' = owed \ flags
  /\ cpu' = [cpu EXCEPT !.pc = "apply", !.changes = <<Change({}, Flags)>>]
DoReset(flags) ==
  /\ bbc' = [bbc EXCEPT !.pressed = IF "hard" \in flags THEN {} ELSE @,
                        !.rewinding = @ \/ ("replay" \in flags /\ options.capture),
                        !.fast = @ \/ ("replay" \in flags /\ options.capture)]
  /\ owed' = owed \ flags
  /\ cpu' = [cpu EXCEPT !.pc = "apply", !.changes = <<Change({}, Resets)>>]
CheckFlags ==
  /\ cpu.pc = "check"
  /\ IF "exited" \in driver.flags THEN CpuGoto("leave") /\ UNCHANGED <<bbc, owed>>
     ELSE IF driver.flags \cap {"soft", "hard"} # {} THEN DoReset(driver.flags)
     ELSE CpuGoto("run") /\ UNCHANGED <<bbc, owed>>
  /\ UNCHANGED <<main, toMain, toCpu, driver, queue, user, options, lost>>

\* A mutant: the main thread is told before running is cleared.
LeaveAnnounced ==
  /\ cpu.pc = "leave" /\ Len(toMain) < Channel /\ CpuGoto("left")
  /\ toMain' = Append(toMain, [is |-> "exited", wait |-> FALSE])
  /\ bbc' = [bbc EXCEPT !.exit_value = driver.value]
  /\ UNCHANGED <<main, toCpu, driver, queue, user, options, owed, lost>>
Leave ==
  /\ cpu.pc = "leave" /\ CpuGoto("left")
  /\ bbc' = [bbc EXCEPT !.running = FALSE, !.exit_value = driver.value]
  /\ UNCHANGED <<main, toMain, toCpu, driver, queue, user, options, owed, lost>>
SendExited ==
  /\ cpu.pc = "left" /\ Len(toMain) < Channel /\ CpuGoto("done")
  /\ toMain' = Append(toMain, [is |-> "exited", wait |-> FALSE])
  /\ UNCHANGED <<main, toCpu, driver, bbc, queue, user, options, owed, lost>>

-----------------------------------------------------------------------------
(* The user.                                                                 *)
PressKey ==
  /\ options.window /\ ~user.closing /\ user.keys > 0
  /\ \E key \in Keys : user' = [user EXCEPT !.keys = @ - 1, !.events = Append(@, key)]
  /\ UNCHANGED <<main, cpu, toMain, toCpu, driver, bbc, queue, options, owed, lost>>
CloseWindow ==
  /\ options.window /\ ~user.closing
  /\ user' = [user EXCEPT !.closing = TRUE, !.events = Append(@, "close")]
  /\ UNCHANGED <<main, cpu, toMain, toCpu, driver, bbc, queue, options, owed, lost>>

Init ==
  /\ options \in [window : BOOLEAN, stop : BOOLEAN, capture : BOOLEAN]
  /\ main = [pc |-> "run_async", open |-> options.window, window |-> FALSE, loaded |-> {},
             message |-> [is |-> "vsync", wait |-> FALSE]]
  /\ cpu = [pc |-> "created", changes |-> <<>>, loaded |-> {}, stopping |-> FALSE]
  /\ toMain = <<>> /\ toCpu = <<>>
  /\ driver = [flags |-> {}, value |-> "none"]
  /\ \E fast \in BOOLEAN :
       bbc = [running |-> FALSE, overtaken |-> FALSE, exit_value |-> "none", fast |-> fast,
              rewinding |-> FALSE, pressed |-> {}]
  /\ queue = <<>> /\ user = [keys |-> MaxKeys, events |-> <<>>, closing |-> FALSE]
  /\ owed = {} /\ lost = {}

Main == \/ RunAsync \/ Poll \/ ClientReceiveMessage \/ Paint \/ ClientSendMessage \/ ProcessEvents
        \/ WindowClosed \/ LoadFlags \/ StoreFlags \/ SetExitValue \/ GetRunResult
CpuSteps == \/ CpuThread \/ CpuReceiveMessage \/ ApplyFlagsLoad \/ ApplyFlagsStore \/ StopValue
            \/ CheckFlags \/ Leave \/ SendExited
Ended == main.pc = "ended" /\ UNCHANGED vars
Next == Main \/ CpuSteps \/ FramebufferReady \/ CyclesTimer \/ StopCyclesTimer \/ RewindTimer
        \/ PressKey \/ CloseWindow \/ Ended

(* Both threads run. The machine's timers are those of Timing: each fires    *)
(* again and again, whatever the others do.                                  *)
Fairness == WF_vars(Main) /\ WF_vars(CpuSteps) /\ SF_vars(CyclesTimer)
Spec == Init /\ [][Next]_vars /\ Fairness

-----------------------------------------------------------------------------
(* The machine goes on from a frame it waits for only when that frame and    *)
(* all before it are painted (bbc_framebuffer_ready_callback and the main    *)
(* loop), although frames nobody waits for go the same way.                  *)
GoesOnWhenPainted ==
  /\ Len(toCpu) <= 1
  /\ toCpu # <<>> => cpu.pc = "wait" /\ toMain = <<>> /\ main.pc \notin {"receive", "paint", "ack"}

(* When the main thread has been told that the machine is gone, it is: it    *)
(* runs no more, its exit value is the driver's at its end and is set, and   *)
(* nothing else comes (the assertions of bbc_get_run_result, bbc_destroy and *)
(* bbc_cpu_thread). The one exception: the thread was over before            *)
(* bbc_run_async had set running.                                            *)
GoneWhenTold ==
  /\ main.pc \in {"result", "ended"} =>
       /\ cpu.pc = "done" /\ toMain = <<>>
       /\ ~bbc.running \/ bbc.overtaken
  /\ cpu.pc \in {"leave", "left", "done"} => "exited" \in driver.flags

(* A window that is closed, or a limit of cycles that is reached, ends the   *)
(* program, and the resets asked for are done unless it ends, whatever the   *)
(* threads wait for; unless one thread's store of the flags overwrote the    *)
(* other's.                                                                  *)
Over == main.pc = "ended" \/ lost # {}
RequestsAreServed ==
  /\ (user.closing \/ "exited" \in driver.flags) ~> Over
  /\ owed # {} ~> (owed = {} \/ Over)
=============================================================================
