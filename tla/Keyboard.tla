------------------------------ MODULE Keyboard ------------------------------
(***************************************************************************)
(* The keyboard, src/keyboard.c, with what src/bbc.c does around it: the    *)
(* queue from the system thread, capture to and replay from a file, rewind, *)
(* and the Alt key combinations of the emulator itself.                    *)
(*                                                                         *)
(* The system thread puts key events in a queue.  The BBC thread empties    *)
(* it in the callback of its cycles timer, into the physical keyboard.  A   *)
(* replay plays frames of a capture file into the virtual keyboard from a   *)
(* timer of its own.  The emulated machine sees one of the two, the active  *)
(* keyboard, and a capture file records what the machine sees.  A rewind    *)
(* resets the machine, replays its capture and ends it at a third timer.    *)
(*                                                                         *)
(* The three timers are the sequence `timers', ordered and walked as        *)
(* src/timing.c does: see Timing.tla.  A failed assertion or util_bail ends *)
(* the program: kbd.failed says which.  kbd.outrun is a history: the replay *)
(* of the last rewind was over, exited by Alt-E or at its last frame, before*)
(* the rewind was.                                                         *)
(***************************************************************************)
EXTENDS Integers, Sequences, SequencesExt

CONSTANTS
  Alt,            \* the left Alt key
  Plain,          \* keys of the BBC that Alt gives no meaning
  Commands,       \* and those it does, of "F", "E", "0", "R" and "Z"
  QueueSize,      \* k_keyboard_queue_size (16)
  Back,           \* how far Alt-Z rewinds (5 s)
  FastPeriod,     \* the period of the cycles timer in fast mode; 1 otherwise
  Sessions,       \* the command lines: whether a capture file is given, and
                  \* the frames of the replay file given, or NoFile
  NoFile,
  SeekTargets,    \* the times the debugger seeks to, the last frame's or later
  MaxTime,        \* bound: the clock stops here
  MaxEvents       \* bound: key events from the system thread

Keys == {Alt} \cup Plain \cup Commands
ReleaseAll == "release all"

ASSUME KeyboardAssumption ==
  /\ Commands \subseteq {"F", "E", "0", "R", "Z"}
  /\ Alt \notin Plain \cup Commands
  /\ ReleaseAll \notin Keys
  /\ QueueSize \in Nat \ {0}
  /\ Back \in Nat /\ FastPeriod \in Nat \ {0}
  /\ \A s \in Sessions : s.captures \in BOOLEAN
  /\ SeekTargets \subseteq 0..MaxTime
  /\ MaxTime \in Nat /\ MaxEvents \in Nat

VARIABLE kbd

-----------------------------------------------------------------------------
(* A keyboard_state: the keys held down, those pressed under Alt and not     *)
(* released, the Alt combinations still to be acted on, and the keys the    *)
(* BBC's key matrix shows.                                                  *)

Clear == [down |-> {}, alt |-> {}, combos |-> {}, matrix |-> {}]

KeyPressed(s, key) ==
  LET t == [s EXCEPT !.down = @ \cup {key}]
  IN  IF Alt \in t.down
      THEN [t EXCEPT !.alt = @ \cup {key},
                     !.combos = IF key \in s.alt THEN @ ELSE @ \cup ({key} \cap Commands)]
      ELSE [t EXCEPT !.matrix = @ \cup {key}]

KeyReleased(s, key) ==
  [s EXCEPT !.down = @ \ {key}, !.alt = @ \ {key}, !.matrix = @ \ {key}]

Event(s, e) == IF e.down THEN KeyPressed(s, e.key) ELSE KeyReleased(s, e.key)

-----------------------------------------------------------------------------
(* The timers, as src/timing.c keeps them. *)

Fail(f, what) == [f EXCEPT !.failed = IF @ = "no" THEN what ELSE @]

Running(f, id) == \E i \in 1..Len(f.timers) : f.timers[i].id = id

\* A timer goes behind those that are due at the same time.
StartTimer(f, id, in) ==
  LET later == {i \in 1..Len(f.timers) : f.timers[i].in > in}
      at == CHOOSE i \in later \cup {Len(f.timers) + 1} : \A j \in later : i <= j
  IN  [f EXCEPT !.timers = InsertAt(@, at, [id |-> id, in |-> in])]

StopTimer(f, id) ==
  [f EXCEPT !.timers = SelectSeq(@, LAMBDA t : t.id # id)]

SetTimer(f, id, in) == StartTimer(StopTimer(f, id), id, in)

Rewinding == Running(kbd, "rewind")

IsDue(f) == f.timers # <<>> /\ Head(f.timers).in = 0

-----------------------------------------------------------------------------
(* Capture and replay. *)

\* Mutant: the physical keyboard is captured during a replay.
CaptureKeysAlways(f, isReplay, events) ==
  IF ~f.capturing THEN f
  ELSE [f EXCEPT !.capture = Append(@, [at |-> f.now, events |-> events])]

CaptureKeys(f, isReplay, events) ==
  IF ~f.capturing \/ (f.replaying /\ ~isReplay) THEN f
  ELSE [f EXCEPT !.capture = Append(@, [at |-> f.now, events |-> events])]

\* Mutant: the machine just goes back to the physical keyboard.
FlipAdoptsNothing(f) == [f EXCEPT !.virtual = Clear, !.active = "physical"]

\* The physical keyboard takes over the state of the virtual one.
FlipVirtualToPhysical(f) ==
  [f EXCEPT !.physical = f.virtual, !.virtual = Clear, !.active = "physical"]

\* Mutant: the replay timer keeps running.
EndReplayKeepsTimer(f) ==
  LET closed == [f EXCEPT !.replaying = FALSE, !.frames = <<>>]
  IN  IF Running(f, "rewind") THEN closed
      ELSE [FlipVirtualToPhysical(closed) EXCEPT !.fast = FALSE]

\* Mutant: the virtual keyboard stays active.
EndReplayKeepsVirtual(f) ==
  [StopTimer(f, "replay") EXCEPT !.replaying = FALSE, !.frames = <<>>]

EndReplay(f) ==
  LET g == IF f.active # "virtual" THEN Fail(f, "replay is not active") ELSE f
      closed == [StopTimer(g, "replay") EXCEPT !.replaying = FALSE, !.frames = <<>>]
  IN  IF Running(f, "rewind") THEN closed
      ELSE [FlipVirtualToPhysical(closed) EXCEPT !.fast = FALSE]

ReadReplayFrame(f) ==
  IF f.frames = <<>> THEN EndReplay(f)
  ELSE LET frame == Head(f.frames)
       IN  IF frame.at < f.now THEN Fail(f, "backwards time")
           ELSE SetTimer([f EXCEPT !.frames = Tail(@), !.next = frame.events],
                         "replay", frame.at - f.now)

ReplayTimerTick(f) ==
  LET played == [f EXCEPT !.virtual = FoldLeft(Event, @, f.next)]
  IN  IF Len(f.next) > QueueSize THEN Fail(f, "too many keys")
      ELSE ReadReplayFrame(CaptureKeys(played, TRUE, f.next))

StartFileReplay(f, file) ==
  ReadReplayFrame(StartTimer([f EXCEPT !.replaying = TRUE, !.active = "virtual",
                                       !.file = file, !.frames = file],
                             "replay", 0))

\* Mutant: the timer is not stopped but set again.
RewindTimerFiredAgain(f) ==
  LET ended == IF Running(f, "replay") THEN EndReplay(f) ELSE f
      flipped == IF f.capturing THEN FlipVirtualToPhysical(ended) ELSE f
  IN  [SetTimer(flipped, "rewind", 1) EXCEPT !.fast = FALSE]

RewindTimerFired(f) ==
  LET ended == IF Running(f, "replay") THEN EndReplay(f) ELSE f
      flipped == IF f.capturing THEN FlipVirtualToPhysical(ended) ELSE f
  IN  [StopTimer(flipped, "rewind") EXCEPT !.fast = FALSE]

CanRewind(f) == ~Running(f, "rewind") /\ f.capturing # f.replaying

\* A capture is copied to the replay file and written anew; a replay starts over.
Rewind(f) ==
  LET replayed == IF f.capturing
                  THEN StartFileReplay([f EXCEPT !.capture = <<>>], f.capture)
                  ELSE StartFileReplay(StopTimer(f, "replay"), f.file)
  IN  IF ~f.capturing /\ ~f.replaying THEN f
      ELSE [StartTimer(replayed, "rewind", f.target) EXCEPT !.fast = TRUE,
                                                            !.outrun = ~replayed.replaying]

-----------------------------------------------------------------------------
(* The physical keyboard. *)

\* Events that change nothing are dropped, the others captured.
ApplyPhysicalKeys(f, events) ==
  LET apply(acc, e) == IF (e.key \in acc.state.down) = e.down THEN acc
                       ELSE [state |-> Event(acc.state, e),
                             filtered |-> Append(acc.filtered, e)]
      all == FoldLeft(apply, [state |-> f.physical, filtered |-> <<>>], events)
      g == [f EXCEPT !.physical = all.state]
  IN  IF all.filtered = <<>> THEN g ELSE CaptureKeys(g, FALSE, all.filtered)

Released(keys) == [i \in 1..Len(keys) |-> [key |-> keys[i], down |-> FALSE]]

\* Mutant: losing the focus lets go of the BBC's keys only.
ReadQueueKeepsAlt(f) ==
  LET g == [f EXCEPT !.queue = <<>>]
  IN  IF \E i \in 1..Len(f.queue) : f.queue[i].key = ReleaseAll
      THEN ApplyPhysicalKeys(g, Released(SetToSeq(Plain)))
      ELSE ApplyPhysicalKeys(g, f.queue)

ReadQueue(f) ==
  LET g == [f EXCEPT !.queue = <<>>]
  IN  IF \E i \in 1..Len(f.queue) : f.queue[i].key = ReleaseAll
      THEN ApplyPhysicalKeys(g, Released(SetToSeq(Keys)))
      ELSE ApplyPhysicalKeys(g, f.queue)

\* bbc_replay_seek.
ReplaySeek(f, target) ==
  IF CanRewind(f) THEN [f EXCEPT !.target = target, !.flags = @ \cup {"hard", "replay"}]
  ELSE f

\* The first pressed of the combinations, in this order, is acted on.
Precedence == <<"F", "E", "0", "R", "Z">>

Consumed(f) ==
  LET pressed == SelectSeq(Precedence, LAMBDA key : key \in f.physical.combos)
  IN  IF pressed = <<>> THEN "none" ELSE Head(pressed)

\* Cycling discs or tapes ("0") does not touch the keyboard.
CheckAltKeys(f) ==
  LET key == Consumed(f)
      g == [f EXCEPT !.physical.combos = @ \ {key}]
  IN  CASE key = "F" -> [g EXCEPT !.fast = ~@]
        [] key = "E" -> IF f.replaying THEN EndReplay(g) ELSE g
        [] key = "R" -> [g EXCEPT !.flags = @ \cup {"hard"}]
        [] key = "Z" -> ReplaySeek(g, IF f.now < Back THEN 0 ELSE f.now - Back)
        [] key \in {"0", "none"} -> g

CyclesTimerCallback(f) ==
  LET g == CheckAltKeys(ReadQueue(f))
  IN  SetTimer(g, "cycles", IF g.fast THEN FastPeriod ELSE 1)

-----------------------------------------------------------------------------
(* Actions. *)

\* Mutant: the queue takes one event too many.
PutKeyInQueueOverfull(key, down) ==
  /\ kbd.events < MaxEvents
  /\ kbd' = [kbd EXCEPT
       !.events = @ + 1,
       !.queue = IF Len(@) <= QueueSize
                 THEN Append(@, [key |-> key, down |-> down]) ELSE @]

\* The system thread.  Only the release of all keys always finds a place.
PutKeyInQueue(key, down) ==
  /\ kbd.events < MaxEvents
  /\ kbd' = [kbd EXCEPT
       !.events = @ + 1,
       !.queue = IF Len(@) < QueueSize THEN Append(@, [key |-> key, down |-> down])
                 ELSE IF key = ReleaseAll
                 THEN Append(Front(@), [key |-> key, down |-> down]) ELSE @]

SystemKey == \E key \in Keys, down \in BOOLEAN : PutKeyInQueue(key, down)
SystemReleaseAll == PutKeyInQueue(ReleaseAll, FALSE)

Callback(f) ==
  CASE Head(f.timers).id = "cycles" -> CyclesTimerCallback(f)
    [] Head(f.timers).id = "replay" -> ReplayTimerTick(f)
    [] Head(f.timers).id = "rewind" -> RewindTimerFired(f)

\* What pass 2 of do_advance_time asserts when the callback for the head of the
\* timers of f has led to g: the timer behind it has been loaded before, and is
\* looked at next if its time has come.
Walked(f, g) ==
  IF \E i \in 1..Len(g.timers) : g.timers[i] = Head(f.timers)
  THEN Fail(g, "timer is due in its own callback")
  ELSE IF Len(f.timers) > 1 /\ f.timers[2].in = 0 /\ ~Running(g, f.timers[2].id)
  THEN Fail(g, "stopped timer is called back") ELSE g

\* The rewind goes on and its replay does not.
Outruns(f) == Running(f, "rewind") /\ ~f.replaying

FireTimer ==
  /\ IsDue(kbd)
  /\ \E g \in {Callback(kbd)} : kbd' = [Walked(kbd, g) EXCEPT !.outrun = @ \/ Outruns(g)]

\* The debugger's seek command; it stops between two instructions.
DebuggerSeek ==
  /\ ~IsDue(kbd)
  /\ \E target \in SeekTargets : kbd' = ReplaySeek(kbd, target)

\* The machine's clock restarts, its timers go on.
PowerOnReset(f) == [f EXCEPT !.now = 0, !.physical = Clear, !.virtual = Clear]

\* bbc_do_reset_callback, after the instruction that ran the timers.
DoReset ==
  /\ kbd.flags # {} /\ ~IsDue(kbd)
  /\ LET reset == PowerOnReset([kbd EXCEPT !.flags = {}])
     IN  kbd' = IF "replay" \in kbd.flags THEN Rewind(reset) ELSE reset

PassTime ==
  /\ kbd.flags = {} /\ ~IsDue(kbd)
  /\ kbd.now < MaxTime
  /\ kbd' = [kbd EXCEPT !.now = @ + 1,
                        !.timers = [i \in 1..Len(@) |-> [@[i] EXCEPT !.in = @ - 1]]]

Next ==
  /\ kbd.failed = "no"
  /\ \/ SystemKey \/ SystemReleaseAll \/ FireTimer \/ DebuggerSeek \/ DoReset
     \/ PassTime

\* keyboard_create, the files of the command line and the CPU thread's start.
Created(captures) ==
  [physical |-> Clear, virtual |-> Clear, active |-> "physical",
   queue |-> <<>>, events |-> 0, capturing |-> captures, capture |-> <<>>,
   replaying |-> FALSE, file |-> <<>>, frames |-> <<>>, next |-> <<>>,
   timers |-> <<>>, now |-> 0, flags |-> {}, target |-> 0,
   fast |-> FALSE, failed |-> "no", outrun |-> FALSE]

Init ==
  \E s \in Sessions :
    kbd = StartTimer(IF s.replay = NoFile THEN Created(s.captures)
                     ELSE StartFileReplay(Created(s.captures), s.replay),
                     "cycles", 1)

Spec == Init /\ [][Next]_kbd

\* The CPU thread runs: it resets, passes time and calls back the timers that
\* are due.  Of the first and the last weak fairness is written out (TLC then
\* need not run a whole callback to see that it can): nothing else clears the
\* reset flags, and only a due timer moves the timers of its moment.
ResetDone == kbd.flags # {} /\ kbd'.flags = {}
TimersCalled == IsDue(kbd) /\ kbd'.timers # kbd.timers

FairSpec ==
  /\ Spec
  /\ []<>~(kbd.failed = "no" /\ kbd.flags # {} /\ ~IsDue(kbd)) \/ []<><<ResetDone>>_kbd
  /\ WF_kbd(kbd.failed = "no" /\ PassTime)
  /\ []<>~(kbd.failed = "no" /\ IsDue(kbd)) \/ []<><<TimersCalled>>_kbd

-----------------------------------------------------------------------------
(* Properties. *)

State == [down : SUBSET Keys, alt : SUBSET Keys, combos : SUBSET Commands,
          matrix : SUBSET (Keys \ {Alt})]

Active == IF kbd.active = "virtual" THEN kbd.virtual ELSE kbd.physical

\* The fields keep their types; each timer is armed at most once and in order.
TypeOK ==
  /\ {kbd.physical, kbd.virtual} \subseteq State
  /\ kbd.active \in {"physical", "virtual"}
  /\ Len(kbd.queue) <= QueueSize
  /\ \A i \in 1..Len(kbd.queue) : kbd.queue[i].key \in Keys \cup {ReleaseAll}
  /\ {kbd.capturing, kbd.replaying, kbd.fast} \subseteq BOOLEAN
  /\ kbd.flags \subseteq {"hard", "replay"}
  /\ kbd.now \in 0..MaxTime /\ kbd.target \in 0..MaxTime
  /\ \A i, j \in 1..Len(kbd.timers) :
       /\ kbd.timers[i].id \in {"cycles", "replay", "rewind"} /\ kbd.timers[i].in \in Nat
       /\ i < j => /\ kbd.timers[i].in <= kbd.timers[j].in
                   /\ kbd.timers[i].id # kbd.timers[j].id

\* An open replay file has its timer running and drives the keyboard the
\* machine sees: the assertions of replay_timer_tick and end_replay.
ReplayDrivesActive ==
  /\ kbd.failed = "no" => (kbd.replaying <=> Running(kbd, "replay"))
  /\ kbd.replaying => kbd.active = "virtual"
  /\ kbd.failed # "replay is not active"

\* With no replay and no rewind in progress the machine sees the user's own
\* keys, unless the replay that was rewound was over before the rewind: what is
\* then seen is a keyboard that nobody feeds, and EXAMPLES:126, "To exit a replay
\* at any moment and take over, press Alt-E", is not what happens.
UserTakesOver ==
  ~kbd.replaying /\ ~Rewinding =>
    (kbd.active = "virtual" <=> kbd.outrun /\ ~kbd.capturing)

Played(frames) ==
  FoldLeft(LAMBDA s, frame : FoldLeft(Event, s, frame.events), Clear, frames)

\* The capture file alone recreates what the machine sees on its keyboard, at
\* every moment: through spurious and dropped events, replays being spliced
\* and rewinds that do not outrun their replay.
CaptureIsFaithful ==
  kbd.capturing /\ kbd.failed = "no" /\ ~kbd.outrun => Played(kbd.capture).matrix = Active.matrix

\* The keyboards, the queue, the timers and the files agree, and with the user.
Coherent == TypeOK /\ ReplayDrivesActive /\ UserTakesOver /\ CaptureIsFaithful

\* When a rewind ends with its replay, the machine has seen exactly what it saw
\* up to that time before: the new capture is the old one up to there.
RewindRestores ==
  [][Rewinding /\ ~Rewinding' /\ kbd.capturing /\ kbd'.failed = "no" /\ ~kbd.outrun =>
       /\ kbd'.now = kbd.target
       /\ IsPrefix(kbd'.capture, kbd.file)
       /\ \A i \in 1..Len(kbd.file) :
            /\ kbd.file[i].at < kbd.target => i <= Len(kbd'.capture)
            /\ i <= Len(kbd'.capture) => kbd.file[i].at <= kbd.target]_kbd

\* When the window loses the focus every key is let go, however full the
\* queue was.
ReleaseAllReleases ==
  [][(\E i \in 1..Len(kbd.queue) : kbd.queue[i].key = ReleaseAll) /\ kbd'.queue = <<>>
       => kbd'.physical.down = {} \/ (kbd.replaying /\ ~kbd'.replaying)]_kbd

\* No key is lost, or stays down, where the keyboard is handed over.
KeysAreRestored == RewindRestores /\ ReleaseAllReleases

\* A rewind comes to its end.
RewindEnds == Rewinding ~> (~Rewinding \/ kbd.failed # "no")

-----------------------------------------------------------------------------
(* Small instances. *)

Press(key) == [key |-> key, down |-> TRUE]
Release(key) == [key |-> key, down |-> FALSE]
At(time, events) == [at |-> time, events |-> events]

\* What a replay file holds: a key typed early, late, or an Alt combination.
TypedSession == <<At(1, <<Press("a")>>), At(2, <<Release("a")>>)>>
LateSession == <<At(1, <<Press("a")>>), At(3, <<Release("a")>>)>>
LaterSession == <<At(2, <<Press("a")>>), At(4, <<Release("a")>>)>>

Session(captures, replay) == [captures |-> captures, replay |-> replay]

\* A capture, a replay into a capture, and replays alone.
AllSessions ==
  {Session(TRUE, NoFile), Session(TRUE, TypedSession), Session(FALSE, LateSession),
   Session(FALSE, LaterSession)}
=============================================================================
