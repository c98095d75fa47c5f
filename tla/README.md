# A verification development of beebjit in TLA+

beebjit emulates the BBC Micro: a 6502, its chips, discs, tapes, keyboard and
screen, driven by one scheduler. This directory holds TLA+ modules translated
from the C source, TLC configurations that check them on small instances, and
proofs that TLAPS checks for every value of the constants. File names and line
numbers are those of the repository root.

Contents: [1 The system](#1-the-system), [2 The plan](#2-the-plan),
[3 The modules](#3-the-modules), [4 The runs](#4-the-runs),
[5 The proofs](#5-the-proofs), [6 Where the program departs from what it
says](#6-where-the-program-departs-from-what-it-says),
[7 What is not modelled](#7-what-is-not-modelled).

## 1 The system

### Threads and control flow

Three threads run. The *system thread* (`main.c`) owns the window: it polls for
window events, puts key events in the keyboard's queue and renders when the
other side asks it to over a message channel. The *CPU thread* (`bbc.c`,
`bbc_cpu_thread`) runs everything the BBC Micro is made of. The *sound thread*
(`sound.c`), where there is one, plays a ring of samples the CPU thread fills.

On the CPU thread everything is sequential, and yet little is simple: a 6502
instruction touches a chip's register; the chip first brings the scheduler up
to date, and while it does so the scheduler calls back every timer that is due;
a callback may start, stop and move other timers, raise an interrupt, ask for a
reset or end a replay, all in the middle of the walk over the due timers, which
is itself in the middle of an instruction. Most hazards of this code are of
this kind: not two threads, but two parties that find each other half way.

### Components

| Component | State it keeps | Operations | Talks to | What makes it correct |
|---|---|---|---|---|
| Scheduler, `timing.c` | timers with value, ticking and firing flags; the sorted expiry list; the countdown | register, start, stop, set, adjust, set_firing, advance_time, reset_total | calls every chip back; the CPU drivers run against its countdown | every armed timer is called back, at its time, in order, and no walk follows a stale pointer |
| Disc controllers, `wd_fdc.c` and `intel_fdc.c` | registers, command, state of the per-byte machine, index pulse count, own timers | register reads and writes, per-byte callback, timer callbacks, reset | the drive (bytes, index pulse, motor), NMI | a command ends; data lost is reported; busy, motor, timer and state agree |
| Drive and disc, `disc_drive.c`, `disc.c` | head position, motor, side, track; dirty track of each disc | start, stop, step, select side, write, cycle disc | controller (byte callback), the image file | every byte written gets to the image, on the right track, and none to a protected disc |
| Disc images, `disc_*.c`, `disc_tool.c`, `ibm_disc_format.c` | the surface they build, as flux; an image's header | load, write a track back, convert | disc | what was written to a disc is in its image, and loading it again gives it back |
| Keyboard, `keyboard.c` | queue, physical and virtual keyboard, capture and replay file, two timers | put in queue, read queue, play frame, end replay, rewind | system thread, scheduler, `bbc.c` resets | a capture file recreates what the machine saw; the user gets the keyboard back |
| Machine, `bbc.c` | paging registers, CPU flags, running state, cycles | memory-mapped reads and writes, reset, run | all | an access reaches the chip the registers select, at its tick; the threads start, wait and stop in step |
| CPU drivers, `interp.c`, `inturbo.c`, `jit*.c`, `asm/` | registers, countdown, code blocks and their metadata | run, enter from and leave to the interpreter, invalidate, compile | scheduler, memory | all drivers do the same; a write to code that was compiled is seen before it runs |
| Interrupt lines, `state_6502.c` | level and edge-triggered lines | set level, check, clear edge | all chips, drivers | an NMI edge is taken once, an IRQ as long as its line is up |
| VIAs, `via.c` | timers, latches, shift register, IFR, IER, handshakes | register reads and writes, CA1..CB2, timer callbacks | scheduler, keyboard, sound, IRQ | a one-shot timer interrupts once; a latch written late takes effect at the next reload |
| ACIA, `mc6850.c` | shift registers, status, control, IRQ | read, write, receive bit, transmit bit, CTS, DCD | serial ULA, IRQ | no byte is lost without the overrun bit; the IRQ line follows the status |
| Serial ULA, `serial_ula.c`, tape, `tape*.c` | selected device, carrier counters, motor; tape position | control write, tick, tape bit, load | ACIA, scheduler, serial handle | the bits recorded are those found, and they reach the ACIA exactly while the motor is on |
| ADC, `adc.c` | channel, status, countdown | start conversion, timer callback, read | scheduler, VIA CB1 | a conversion that is restarted ends once, with the newer channel |
| Video, `video.c` | CRTC counters and registers, frame state, the timer of the next VSYNC | CRTC and ULA writes, advance, timer, start and stop of rendering | VIA CA1 (vsync), scheduler | vsync comes when a counter-by-counter CRTC would give it, though the emulator skips ahead |
| Picture, `render.c`, `teletext.c` | the beam, the canvas, tables of pixels; the SAA5050's pipeline and attributes | a character, syncs, mode and colour changes | video, system thread | each character is where the beam is and in the colours of that moment; a line of text shows what its codes say |
| Sound, `sound.c` | registers and counters of the SN76489, samples to play, thread ring | bus write, advance, tick, play thread | scheduler, sound thread | each sample once and in order, in the chip's state at its time |
| Debugger, `debug.c`, `expression.c` | breakpoints, statistics, command line | per-instruction callback, commands | all | a breakpoint stops exactly where its expression holds |
| Snapshots, `state.c` | none | load, save | all chips | (partial by its own account) |
| Host layer, `os_*.c`, `util*.c`, `log.c` | files, windows, channels | | | |

### What is hard

* *Timers inside timers.* Scheduler callbacks that change the list being walked.
* *Values relative to a stale origin.* Timer values count from the last walk, so
  that every operation adds or takes away the ticks not yet accounted for.
* *Counters compared for equality.* Index pulses, byte counts and carrier
  counters that are tested with `==`, and wrong for ever once they are passed.
* *State kept twice.* The status bit and the line, the motor bit and the drive's
  timer, the active keyboard and the replay file, the code and its compilation.
* *Time going back.* Rewind and reset restart a clock others have noted.
* *The user.* Discs swapped under the head, keys pressed during a rewind, focus
  lost with a full queue.
* *Two threads.* The key queue, the start of the CPU thread, the hand-over of a
  frame to the window, the flags of the CPU driver, the sound ring.
* *The same thing done twice, the second time fast.* The JIT and inturbo beside the
  interpreter; frames that are jumped over beside the CRTC; a sound chip worked out
  late, timers that are not counted, memory that is copied instead of selected.

`PROJECT.json` lists each hazard with its line and the properties that watch it.

## 2 The plan

The order followed what most depends on: everything is called by the scheduler,
and the state that is lost for good, what the user has written to a disc or
recorded, came next; then the chips with interrupts; then the places where the
program takes a fast way to what a slow one defines.

Done:

1. `Timing`, with the abstract `TimerService` it implements, and its proofs;
2. `WdFdc`, the disc controller most machines of the program have;
3. `DiscDrive`, what is written and what gets to the image, and its proofs;
4. `Keyboard`, with capture, replay and rewind;
5. `Acia` and `Serial`, with tape and RS423, and `TapeCsw`;
6. `ViaTimers` and `Via`, with the ADC and the printer;
7. `IntelFdc`, the 8271, with its drives and the tick it shares with them;
8. `Opcodes6502` and `Interp6502`, the reference for `JitUops`, `JitCompiler`,
   `JitOptimizer` and `Inturbo`, compared in `JitTranslation`; `JitBlocks`, which
   compiled code is run; and `Interrupts`, when the lines are looked at;
9. `Video`, the CRTC tick by tick and the program's skipping ahead; `Render`, the
   picture and the SAA5050;
10. `PagedMemory`, what a programmer has, and `Memory`, what the program does; `Bus`,
    the hardware registers; `Sound`;
11. `RunLoop`, the two threads;
12. `DiscFormat` and `DiscImages`.

13. proofs of `RunLoop`, of `Via` with the refinement of `ViaTimers`, of `Serial` with
    `Acia`, of `Memory` with the refinement of `PagedMemory`, of `WdFdc`, of
    `IntelFdc`, and of `JitBlocks`.

Left: the parts `ReplayDrivesActive` and `UserTakesOver` of `Keyboard`'s `Coherent`. The
keys of a queue or of a frame are handled by `FoldLeft`, so what they leave is an
induction over data; what a fold keeps would have to be assumed.

`TakenInTime` of `Interrupts` needs that `Advance` by two spans is `Advance` by their
sum, an induction on the number of ticks, and stays with TLC.

## 3 The modules

All modules are written in the same way. A struct of the code is one record
variable where its functions call each other (`fdc`, `drive`, `kbd`, `via`, the
ACIA, ULA and tape together as `serial`), and a function of the code that changes it is an operator
that takes the record and returns it changed, so that calls nest as they do in
the code. An action is a whole entry point: a register access, a callback, a
user's act. A failed `assert` or `util_bail` sets the record's `failed`, after
which nothing happens. (Only the debug builds have the assertions compiled in;
an optimised build goes on in the state the assertion forbids.) Operators
marked "Mutant" are plausible errors against which a property has been tried;
nothing of the specification uses them.

A module `MC...` has the small instance; `Keyboard` has it at its end, `Timing` in its
configuration. Some of them hold two or three parts of
the system that have nothing to do with each other, and ask about each in one run:
an initial state chooses the part, and the variables of the others keep a value
that means "not used". They are `MCDiscDrive` (the drive, or an image), `MCJit` (a
program to be compiled, or interrupts), `MCVideo` (the CRTC, or a picture),
`MCMemory` (the memory, the sound, or the JIT's blocks with a memory of ten bytes; the registers' addresses are looked at once, in
the initial states) and `MCRunLoop` (the threads, or a scheduler left to run).

### Timing, TimerService (timing.c)

| TLA+ | code |
|---|---|
| `value`, `ticking`, `firing` | the fields of `timer_struct` |
| `expiry` | the list from `p_expiry_head`, as a sequence |
| `nextExpiry`, `countdown`, `ticks` | `next_timer_expiry`, `countdown`, `total_timer_ticks` |
| `pc`, `left`, `cursor`, `running` | where `timing_advance_time` is and its locals: `delta`, `p_timer`, `p_old_timer` |

The two passes over the timers are separate steps because callbacks, which act in
the second, see what it has loaded. `TimerService` is the promise: a function from
armed timers to the time left, which runs down evenly and calls back at zero.
What a callback must not do (`NothingOverdue`, `Resolved`, `NextStillDue`) is
taken from the assertions; these are guards of the clients' actions, and section
6 lists the clients that break them.

### WdFdc (wd_fdc.c)

`fdc` is `wd_fdc_struct`; the state names are those of the code without prefix.
`PulsesCallback` is one byte from the drive, with or without an index pulse: the
content of a byte (mark, header field that matches or not, CRC that is right or
not) is chosen freely, so that every disc is covered and none is built. Each
state's byte is an action of its own. Counts inside a sector are shrunk, the
boundaries compared by the code are constants.

`program` is fixed in a behaviour: the commands, flags, drives and registers the
6502 uses. It splits the instance into three that do not multiply.

### IntelFdc (intel_fdc.c)

| TLA+ | code |
|---|---|
| `fdc.accepts` | `parameter_callback`: which parameter is waited for |
| `fdc.onIndex`, `fdc.indexCount` | `index_pulse_callback` and its counter |
| `fdc.timer`, `fdc.ticking` | `timer_state`, and whether the timer is armed |
| `fdc.call`, `fdc.routine` | the ROM routine a run of bytes returns to |
| `fdc.state`, `fdc.count`, `fdc.left` | the bit processor, its byte counts |
| `fdc.nmi`, `fdc.need`, `fdc.level` | status bits, and the 6502's line |
| `fdc.select`, `load`, `gate`, `inwards` | the bits of `drive_out` |
| `fdc.spinning` | whether each drive's timer is armed |
| `fdc.ready`, `fdc.protected` | `drive_in_latched` |
| `fdc.second` | the second parameter's register, of which read id looks at zero or not |
| `fdc.held` | history: the gate that is open was opened by WRITE SPECIAL REGISTER |

`PulsesCallback` is again one byte whose content is free. Bits need not be aligned
with the drive's bytes, so that a mark may be found, and even completed, within
one. `asked` and `edge` are histories: the requests since a sector or header began,
and whether the line has risen in this step. `Forget` clears at the end of a
command the registers that the next one writes before it reads them; in the code
they keep their values, which nothing observes. The 6502 sets the chip up
(`IsSetUp`) before it uses it, as every DFS does. `Parameters` has what it may write to the
drive port, the write gate among it, and both kinds of second parameter of read id
(`Direct`: a nonzero one goes to the headers without a seek, a load or a look at the drive).

### DiscDrive (disc_drive.c, disc.c)

`drive` has the drive and its discs: `surface` is what is on the disc, `file`
what is in the image, `dirty` the one track that may differ. The controller is
any sequence of writes, steps, side and density changes inside a byte callback
or, for what moves the stopped head, outside; an 8271 whose gate was left open also writes
with the motor off (`WriteStopped`). `Reposition` is the scaling of the head's angle from a
track to one of another length. `adrift` is a history: the discs with changes that nobody
is about to write back, because the disc was taken out with them or the motor was off.

### Keyboard (keyboard.c, parts of bbc.c)

`kbd` has the queue, both keyboards, the files, the three timers in the
scheduler's order and the machine's clock. `FireTimer` is one callback of the
walk; a reset asked for in it is done when it is over (`DoReset`), as
`bbc_do_reset_callback` does. What the machine saw is kept in history fields of
`kbd`, for the properties only.

### Acia, Serial (mc6850.c, serial_ula.c, tape.c)

`Acia` is a module of operators on the chip's struct; `Serial` has the tape, the
ULA, and the 6502 in front of them. A word is a few bits, a tape a sequence of
carrier, silence and words, turned into bits as `tape_uef.c` turns them. `changed` is a
history: the word format was given another length in the middle of a word. From then to
the end of that word the receiver may shift in more bits than a word has, of which
`Shifted` keeps that there were too many.

### TapeCsw (tape_csw.c)

The search for bits in the lengths of half waves: the thresholds, the switch between
carrier and data, the bits and half waves held over from one to the other. A recording
is external: carriers that end at any half wave, words, tapes that run 6 % slow or
fast, waves whose halves are not alike. `Serial` takes over where bits are known.
Left out are the run length encoding of the file, its unpacking and the messages
about suspect bits.

### ViaTimers, Via (via.c, adc.c, the printer of bbc.c)

`ViaTimers` counts cycle by cycle, as the comments of `via.c` say the chip does.
In `Via`, as in the code, nothing is counted: `t1.value` and `t2.value` are the
scheduler's, in half cycles, and run below zero; `Relatched` makes up for missed
reloads in 64 bit arithmetic (`Wide`). `fired` is "`t1_last_fire_cycles` is the
present tick". `program` says which of the two chips it is and which registers
the 6502 uses in this behaviour: a program that leaves the timers alone is not
timed, which keeps the ports' states apart from the timers'.

### Opcodes6502, Interp6502, Inturbo (defs_6502.c, interp.c, inturbo.c, asm_inturbo)

The program has the 6502 three times: as tables, from which the JIT and inturbo are
made, as the switch of `interp.c`, and as host code. `Opcodes6502` has the tables;
`Interp6502` has the 256 cases of the switch for the NMOS 6502 and the 65C12, with
flags, decimal mode, cycles and the tick-by-tick path of an access to a hardware
register (`HardwarePath`); `Inturbo` has the host code `inturbo_generate_opcode` puts
together for each opcode, and when it leaves the instruction to the interpreter. The
interpreter is the reference. A 6502 is a record of registers, flags, the memory
that has been written and the cycles taken.

### JitUops, JitCompiler, JitOptimizer, JitTranslation (jit_compiler.c, jit_opcode.c, jit_optimizer.c, asm_jit_x64.c)

A compilation is a pure function of what it reads of the world, `env`: memory, the
flags of earlier blocks, the history of what was compiled where.

| TLA+ | code |
|---|---|
| `JitCompiler` | decoding into uops, bounds of a block, dynamic operands and opcodes, countdown checks, cycle counts, the fixups of the metadata |
| `JitOptimizer` | each pass of `jit_optimizer.c`, before and after the rewriting for the host, as a walk over the opcodes |
| `JitUops` | what `asm_jit_rewrite` merges, and what the host code of each uop does to host registers, flags, memory and countdown |
| `JitTranslation` | a program grows by an instruction at a time and, whole, is compiled and run beside the interpreter |

The host code of a block is run from several 6502s and countdowns. Wherever it is
left (its last jump, the countdown, a register, a ROM, the ends of the stack, an
interrupt, code that has been overwritten) the fixups are applied as
`jit_metadata.c` does, and the 6502 must be the interpreter's after as many cycles.
Encoding is not modelled: a uop's host instructions are what they do.

### JitBlocks (jit.c, jit_metadata.c, parts of jit_compiler.c)

Which code is run, and when it is given up. Every address of the 6502 owns a slot of
host memory; a block begins in the slot of its first address and goes on in the
next ones. A *place* is a slot and an offset, and offset 0 is where a jump to the
address goes and where an invalidation is written. Stores, paging, faults and compiles
come between any two instructions.

| TLA+ | code |
|---|---|
| `block`, `ptr` | `code_blocks` and `p_jit_ptrs` of `jit_metadata` |
| `host` | the JIT mapping: what each slot holds at each offset |
| `flags`, `history` | start and continuation flags, recently compiled addresses, of `jit_compiler` |
| `thread` | whether host code or the interpreter runs, at which address, and the host's place |
| `Compile`, with `SplitBefore`, `SplitAfter` | `jit_compile` |
| `Run`, `StoreAt` | the code of an instruction, and what its writes mark |
| `LeaveJit`, `Fault`, `Inturbo` | the ways out of host code |
| `Interp`, `Page`, `Returns` | `jit_interp_instruction_callback` |
| `Sweep` | `jit_cleanup_stale_code` |

`CodeStays` says what programs the theorems are about (section 5).

### Interrupts (state_6502.c, parts of interp.c, inturbo.c, jit.c and via.c)

When an interrupt is taken. A 6502 looks at its lines before the last cycle but one of an
instruction. The program does so only when it must: `Finish` goes back over an
instruction it has already done if a timer was due inside it or a line was up after the
last poll, and host code polls never.

| TLA+ | code |
|---|---|
| `w.high`, `w.fire` | `irq_high`, `irq_fire` of `state_6502` |
| `w.events` | what timers are due, as ticks from now and the line they raise (or let fall, if it is the NMI's and high), BREAK, or nothing |
| `w.stop` | `state_6502_fire_irq_timer` has ended the countdown |
| `i`, `take`, `poll`, `jammed` | `intf`, `do_irq`, `k_interp_special_poll_irq`, `k_interp_special_KIL` |
| `host` | host code of the JIT or of inturbo runs, not the interpreter |
| `chip` | the same 6502, polling in every instruction |

Instructions are what they do to the lines, tick by tick (`Polled`, `Ticked`); the same
scripts serve both 6502s, so that what is compared is when the program leaves the polls
out. Accesses to registers raise and lower lines at the tick of the access, which for a
VIA is not the last one. Every schedule of three timers is run, on the NMOS
6502 and the 65C12, in the interpreter alone and between host code and the interpreter,
which either may leave at any instruction where the code may.

### Video (video.c)

The first half of `Video` is the 6845 one tick at a time, the second what surrounds it: while nothing is
drawn the program does not run the chip but jumps from VSYNC edge to VSYNC edge, or over
whole frames, and advances it only when a register is written, the VIA asks or a
frame begins to be drawn. `ref` is the same chip run at every tick; the level on
the VIA's CA1, its edges and the latched light pen must come at the same ticks from
both. `behind` is the time since the last advance, and all else that is noted of the
past is kept relative to it.

### Render (render.c, teletext.c)

`Render` has the beam, the window and the tables of pixels that are remade when modes or
colours change. A section of it has the SAA5050's pipeline and attributes as the code
advances them, and beside them `Cell`: what a character cell shows, worked out from
the whole line. One logical colour stands for the sixteen of the palette.

### PagedMemory, Memory (bbc.c, memory map)

`PagedMemory` is what a programmer has: chips that keep what was written to them, and two
registers that choose between them. `Memory` is what the program does: one block of
64k that is read directly, into and out of which writes of ROMSEL and ACCCON copy the
chips' contents. The refinement mapping (`Held`) says where each chip's contents are
at the moment. Memory is cut down to the regions that paging tells apart.
`SeesPagedMemory` says that reads, the display, the debugger's idea of ROM and a model
B's write mapping are those of the chips selected. `untold` and `romPaged` are histories
of two moments when they are not (section 5).

### Bus (bbc.c, callbacks and JIT encodings of register accesses)

For each address from 0xFC00 to 0xFEFF, on each machine: which device answers, and on
which tick of a stretched access, by the callbacks and by the direct calls the JIT
emits in their place.

### Sound (sound.c)

The SN76489, worked out when it is written to or when the host wants samples, averaged
down to the host's rate and handed over in periods, by the 6502's thread or by
one of its own. `SoundIsTheChip` compares what the host is given with a chip that
counts every tick.

### RunLoop (main.c, bbc.c, cpu_driver.c)

The main thread and the thread of the 6502 as two processes: the channels between
them, which block when full or empty, the queue of keys, and the flags of the CPU
driver, which both threads change without a lock, so that loading and storing them are
steps of their own. `lost` and `overtaken` are histories that tell where a store
has overwritten the other thread's.

### DiscFormat, DiscImages (disc.c, disc_tool.c, ibm_disc_format.c, disc_ssd.c, disc_adl.c, disc_hfe.c, disc_scp.c, disc_dfi.c, disc_rfi.c, disc_kryo.c)

A track is a sequence of bits, one for each 2 us. `DiscFormat` builds a track of sectors
in FM or MFM and finds the sectors again, with the search for their size by
CRC. `DiscImages` loads an image as flux, writes to its sectors, writes tracks back and
converts to another format. `DiscFormat` also loads what a capture tool has measured:
intervals between pulses in the tool's ticks, in its revolutions and in the tokens
of its streams; the tool itself, with the wobble of the drive, is external.

## 4 The runs

`tlc -config <cfg> <module>` in this directory. All runs are exhaustive.

| Run | Asks | Instance, and why it is enough |
|---|---|---|
| `timing` | does the list, the countdown and the order survive everything clients and callbacks do, and is `TimerService` implemented? | three timers (one walked, one next, one inserted anywhere), times 0 and 1, changes by -1 and 1, scale 2, one timer that can be muted |
| `wd` | busy bit, state, timer, motor, index counts; lost data and data requests; does every command end? | three programs: two drives with restores, seeks and steps, resets and drive changes at any time; every type II and III command with media present, protected and absent, sectors of two bytes, a 6502 that may be late and writes registers; commands left alone. Two index pulses to give up and two to spin down |
| `intel` | line and status, drives, timer and state; the write gate; byte requests; completions; which assertions can fail; does every command end? | five programs, each with the set-up commands: seeks on two drives; reads, verifies and scans; writes, formats and read id, the last with both kinds of second parameter; heads unloaded at the next index pulse, or at once; the drive port written to, write gate included, in four of them. Tracks 0 to 2 with 8-bit registers that wrap at 4, sectors of two bytes, headers of four, two sectors, of which the second is the last, two index pulses to give up, head unload counts 1 and never |
| `drive` | is a write lost or misplaced, does the head leave the track, is a dirty track written back, and what happens to a disc that is swapped out dirty? Do image and disc hold what was written, through every format? | a writable and a protected disc, two tracks, two sides of different lengths. Images of two sectors of one byte on two tracks of a disc of three, 36 words a track, two writes; captures at four rates, with wobble, an erased stretch and partial revolutions |
| `keyboard` | capture, replay, rewind, queue | a key, Alt-E, Alt-Z, debugger seeks, queue of two, four events, time to 3; four sessions; Alt-E and seeks at every moment, rewinds too |
| `serial` | words, lines, interrupt, motor, sending; are a recording's bits found? | two tapes with words at two speeds, words of one and two bits, the format written at any tick; with a device, and with none and the tape stopped; recordings of whole bytes at 96 kHz, speeds of 94 to 106 %, uneven waves |
| `via` | timers, ports, interrupts, keyboard, ADC | counters of two bits, so that every count, both wraps and two idle rounds occur; five programs |
| `jit` | does compiled code do what the interpreter does, however it is left? Is an interrupt taken after the right instruction? | families of programs of up to three instructions, each about some passes of the optimiser or some ways out; three 6502s, a long and a short countdown, blocks of at most three opcodes or as long as they like. Interrupts: every three timers within seven ticks, which are more than an instruction, its successor's poll included |
| `video` | are VSYNC, the VIA's edge and the light pen the same when frames are jumped over? Is a character drawn where the beam is, and a teletext line what its codes say? | four ticks a line, four lines a row, three rows; bitmap, interlace, teletext; one write at any tick, `FarTimer` 60 in place of 40000. Windows of a few characters; teletext lines of five columns with every triple of six kinds of code, over and under a line of double height |
| `memory` | does copying implement memory in which nothing is copied? Does each register answer at its tick? Is the sound the chip's? Does the JIT only run code that memory still holds? | a Master and three model Bs with four banks, the last with RAM in its first bank, one value to write; all 768 addresses for every machine; a chip with periods of two times two bits, divider 2, noise of three bits, three samples to two frames, a buffer of three frames, two writes in eleven ticks; blocks in ten addresses (zero page of two, five of RAM, three with ROM), three programs, two stores, three compiles |
| `memory_reset` | *violated*: does a hard reset clear all RAM? | the same |
| `runloop` | do the threads wait for each other for ever, is a request lost? Is a due timer called back? | with and without window, limit of cycles, capture; channels of two messages, a queue of one key, two keys. A scheduler with three timers |

### What the properties hold

A property with a general name is a conjunction, so that each can be read by itself
where it is defined:

| Property | Its parts |
|---|---|
| `WdFdc!Coherent` | types; `BusyMakesProgress`, `SpinsOnlyCurrent`, `IndexCountsBounded`, `DrqIsVisible` |
| `CommandsTellTheTruth` | `LossIsReported`, `RestoreReachesTrackZero` |
| `IntelFdc!Coherent` | types; `NmiIsCurrent`, `SpinsOnlyLoaded`, `BusyMakesProgress`, `GateIsGuarded` |
| `ChangesAreTended` | `StoppedIsClean`, `WritesStayOnTrack` |
| `EndsAreTold` | `CompletionInterrupts`, `SeekFindsTrackZero` |
| `ImagesHoldTheDisc` | `DiscHoldsWhatIsWritten`, `ImageIsTheDisc` |
| `Keyboard!Coherent` | types; `ReplayDrivesActive`, `UserTakesOver`, `CaptureIsFaithful` |
| `KeysAreRestored` | `RewindRestores`, `ReleaseAllReleases` |
| `Serial!Coherent` | types; `WordEnds`, `IrqIsCurrent`, `LinesFollow`, `TapeTurnsWithMotor` |
| `TapesAreHeard` | `TapeIsHeard`, `OverrunIsReported`; `BitsAreFound` for recordings |
| `Via!Coherent` | types; `IrqIsCurrent`, `BusIsCurrent` |
| `EdgesAreSeen` | `KeyIsSeen`, `ConversionIsSeen` |
| `DriversAgree` | `BlockIsEquivalent`; `TablesAgree`, `InturboAgrees` |
| `LeavesAreExact` | `BailIsExact`, `InvalidationIsExact`; `TakenInTime` for interrupts |
| `JitBlocks!MetadataIsCoherent` | `BlocksAgree` always, `ReturnsToAStart` of every step |
| `JumpsAreExact` | `AssertsHold`, `DisplayFollows`, and that counters and latches are equal |
| `PictureFollowsTheBeam` | `DrawnWhereTheBeamIs`, `ColoursAreCurrent` |
| `DevicesAnswerInTime` | the registers at their ticks (`Bus`), `SoundIsTheChip` |
| `ThreadsAgree` | `GoesOnWhenPainted`, `GoneWhenTold` |

`PROJECT.json` names for each property an error ("mutant") that makes the run
find it violated.

### Bounds

Bounds that cut behaviours off are constants named as such in their modules:
`MaxIdle`, `MaxMuted`, `MaxRemaining`, `MaxDelta` (`Timing`), `IndexBound`
(`WdFdc`: only for the unbounded counting while a timer runs), `MaxTime` and
`MaxEvents` (`Keyboard`), `MaxIdle` (`Via`: two rounds of an idle timer; a third
differs from the second by nothing but the number of reloads, a quotient),
`MaxWrites` and `MaxBehind` (`Video`), `MaxChanges` (`Render`), `MaxSteps`
(`DiscImages`), `MaxTime` and `MaxWrites` (`Sound`), `MaxKeys` (`RunLoop`),
`MaxStores` and `MaxCompiles` (`JitBlocks`). `CHECK_DEADLOCK FALSE` stands where
the modelled system really ends: at the keyboard's or the sound's `MaxTime`, when
a program of the JIT has been compiled, or `MaxCompiles` is used up. `Interrupts` has no bound but its
schedules and `Horizon`, beyond them: when they are over, nothing new can happen. The run `runloop` checks deadlock.

What small counters keep is chosen so that the cases in which the code differs
occur: a counter passes zero and its top, a wait is given up at its last count
and one before, a block is left at each of its opcodes, a jump starts at each tick of
a frame. Registers of eight bits are shrunk only where no case depends on the
missing values; opcodes, addresses and operands of the 6502 are whole.

### Fairness, and why the code justifies it

* `Timing`, in the run `runloop`: the CPU thread runs until the countdown is used up
  and then calls `timing_advance_time`; the loops in it and callbacks run to their
  end. Weak fairness of each of its steps; none of what clients do.
* `WdFdc`, `IntelFdc`: a running timer fires (weak fairness), and the index hole
  comes and goes again and again while the drive turns, with a byte each time
  (strong fairness, as a drive may be stopped between the two). The conditions
  are written out: `<>[]Enabled => []<><<Step>>_vars`.
* `DiscDrive`: the drive's timer, which it restarts in every callback.
* `Keyboard`: the clock goes on, due timers are called, the reset asked for is done.
* `Serial`: the tick of the serial ULA, a timer that restarts itself.
* `RunLoop`: each thread goes on when it can (the host schedules both), and the
  cycles timer, which restarts itself, is called again and again while the 6502
  runs (strong fairness, as a reset may come between). None of what the user does.

## 5 The proofs

`tlapm M.tla` for `TimingProofs`, `DiscDriveProofs`, `CpuDriverProofs`, `ViaProofs`,
`SerialProofs`, `MemoryProofs`, `WdFdcProofs` and `IntelFdcProofs`. In each the operators that make up an action have a
lemma that says what they leave true and what they leave alone; an action's lemma puts
these together, and the theorem puts the actions together.

### TimingProofs

For any set of timers, times, changes and bounds (`TimingAssumption`):
`TypesAlwaysOK`, `ListAlwaysArmed`, `CountdownAlwaysNearest`,
`AlwaysFiresOnTime`, `AlwaysFifo`, `SchedulerImplementsService`.

None of these is inductive alone. The invariant is `WalkIsSound`, proved as
`WalkAlwaysSound`: the list holds exactly the armed timers, once, in order of
their values; the stored next expiry is the value of its head; the ticks not yet
accounted for lie between 0 and the bound and are zero during a walk; no armed
timer is overdue; and during a walk the timer loaded as the next one is still
armed, or lies in the future.
The argument:

1. Facts on sequences (`InsertAtElements`, `RemoveAtElements`,
   `InsertPositionExists`) give what the insertion loop and the removal do to a
   sorted list without repetitions (`InsertedList`, `RemovedList`).
2. From these, one lemma for each client operation says which timers it lists and
   moves, and that it keeps the list (`StartEffect`, `StopEffect`, `MoveEffect`,
   `SetFiringEffect`); `OperationEffect` puts them together.
3. One lemma for each step of `timing_advance_time` keeps the invariant.
4. The refinement maps armed timers to the ticks that remain; a step of the first
   pass maps to the passing of time, the second pass's to a callback, all else to a
   stutter or the client's operation.

### DiscDriveProofs

For any number of discs of any kinds, any number of tracks of any lengths, and discs
swapped at any moment, with unwritten changes too: `DriveTypesAlwaysOK`,
`WritesAlwaysReachFile`, `ChangesAlwaysTended`, `ProtectedAlwaysUnchanged`,
`HeadAlwaysOnTrack`. The two assertions of `disc.c` that a dirty disc can fail (section 6)
are in the model, and `ChangesAlwaysTended` proves that they fail for such discs only.

The invariant is `Sound`, until an assertion has failed (`AlwaysSound`): the types; the head is on the track; a disc that
is not adrift is dirty only if it is the one in the drive, only at the track and side
under the head and only while the motor runs; and where surface and image differ, that is
the dirty track. It is needed because each of
the properties is kept by `Flush`, `SeekTrack` and `SelectSide` only if the others
hold before. The scaling of the head position is non-linear arithmetic:
`ScaledIsLess` shows `(k * n) \div m < n` for `k < m` from the properties of
integer division.

### CpuDriverProofs

The thread of the 6502: how it agrees with the main thread (`RunLoop`), and which host code
it runs (`JitBlocks`).

For channels and queues of any length, any number of frames and any interleaving
of the two threads and the user: `ThreadsAlwaysAgree` (the property `ThreadsAgree` of the
run), `NobodyWaitsForNothing`, `ExitsStay`.

`GoesOnWhenPainted` and `GoneWhenTold` are not inductive: whether the machine may go on
depends on what is in the channels. `Agreement` adds to the types: only the last frame
sent can be one that is waited for, and then the machine waits and there is no other;
a frame being painted and waited for is alone; the end is announced once, behind
every frame, when the machine is done; and a machine that waits has its frame or the
answer under way (`WaitsAreAnswered`, of which the liveness property needs the fairness
and TLC). What a tick of the timer finds on the keyboard is any sequence of
requests (`TickAsks`), so nothing depends on the keys.

For a memory, a zero page, slots and blocks of any size, any instructions, contents and
stores (`BlocksAssumption`, which `MCMemory` evaluates): `BlocksStaySound`,
`JitRunsWhatMemoryHolds` and `JitMetadataIsCoherent`, the last with `ReturnsToAStart`, as long
as the program keeps to `CodeStays`. That is a hypothesis about the program that is
emulated, not about the code, and each part of it is a limit of `jit.c` named in section 6:
it does not run at the very end of memory or across an edge of the sideways ROM, and
does not change code at 0xFF before there is code below it. The programs of the run
`memory` keep to it.

Neither property is inductive: what runs next depends on what every other
pointer leads to, since a block may be entered, split or overwritten anywhere. The
invariant is `BlocksInv`. Blocks are intervals that begin with their owner (`Whole`); an
address has a pointer if and only if it is in a block, and the pointer leads into its block, not
beyond its own address (`Pointers`); host code that is pointed at is marked, or was made from the
bytes that memory holds, each of which points at it or is dynamic, and goes on
where the next instruction's code is (`CodeOK`); the start of a slot holds a mark, a call
of inturbo, or code whose address points there (`Slots`); a zero page that is not looked
after has no code (`LooksAfter`); and the host is where the code of the 6502's address
is (`ThreadOK`). That each byte of an instruction points at its code is what makes a mark
through one pointer enough; a dynamic operand needs none, since its code reads memory
when it runs.

The argument has a lemma for each function of `jit.c` and `jit_metadata.c` that changes the
structures. The bounds of a block are a list of any length (`Bounds`); that its addresses rise
and that its places stay inside the block's slots is an induction on one number, by the
least counterexample (`LeastExists`). What `Compile` does is taken in the code's order:
the new block is laid over the old ones (`Emission`), then what it cut off before it and
after it is given up, and only then is everything whole again. A write keeps
`CodeOK` because it marks whatever it changes (`SureToMark`), whoever makes it.

### ViaProofs

For counters of any width (`ViaAssumption`) and any programs (`ProgramsAssumption`: which
VIA, and whether its timers are scheduled): `ViaIsCoherent`, `EdgesAreAlwaysSeen` and
`TimersAreTheChips`, the refinement of `ViaTimers`.

`IrqIsCurrent` and `BusIsCurrent` are inductive once the control register of the system
VIA is known to be one that watches the keyboard. The bounds of the timers are not: a timer that is to fire
has an even number of ticks left, timer 2 ticks unless it counts pulses, and what is
made up for when an idle timer is looked at is a whole number of periods
(`RelatchedFacts`, `RelatchedWhole`). For the refinement `Timely` adds what connects the ticks left to
the chip's counters: timer 1 is even once it is loaded; a timer that has
just fired is at 0 or just loaded, and its flag is up; and neither fires in the half
cycle before it is first looked at. A half cycle is a stutter or a cycle
of the chip, and `Rolled`, the chip's count after any number of cycles, is what the
code's modulus computes (`RolledTurns`, `Counts1`, `Counts2`). Before timer 1
is first loaded its count is odd and nothing is claimed of it (`loaded`; see section 6).

### SerialProofs

For any tapes (`TapesAssumption`: sequences of bits and silence) and word lengths, and
whatever the 6502 does, a new word format in the middle of a word included:
`SerialIsCoherent`. The interrupt is that of the chip's state, the lines are those of
the selected device, the tape turns with its motor and its timer, a word that
was lost is on its way to being reported, and a word ends: the receiver is empty when the
next one starts, and holds less than a word while it awaits more.

The invariant is `Safe`, that the parts agree (`Sound`) and that the history `lost` is set
exactly when the chip has the overflow pending or shown, and `Received`, on the shift
register. The count of bits is compared for equality with the length (`mc6850.c:300`), so
after a change of the format (`changed`) no bound on it is inductive. What is: until then it
fits the word (`Fits`); from then on only the end of a word can be relied on (`Loose`), and
with it the receiver is empty, whatever it had shifted in, and `Fits` again (`StartsEmpty`).

### MemoryProofs

For any number of banks and sockets, any ROMs and any set of machines
(`MemoryAssumption`), whenever the hard resets come: `MemoryIsPaged`, that `Memory`
implements `PagedMemory`, and `MemoryIsSeen`, the property `SeesPagedMemory`. Two flaws of
the code (section 6) are part of what is proved and not assumed away. After a hard reset
with accesses trapped the interpreter is not told that ACCCON was cleared (`untold`), and
the operating system's drawing code reads and writes LYNNE until ACCCON is written
(`StrayWrite`). A model B whose first bank is RAM cannot write to it before a bank that
is not RAM has been current (`romPaged`).

The invariant `IInv` says that a bank which is not RAM is paged in as a copy of what it
holds (`Backed`: it is not saved when it is paged out), that what was derived from ACCCON is of
its present bits, and that accesses are trapped when they differ or the interpreter has
not been told (`Derived`), that a model B writes through to RAM only, and to all of it
once it has left it for ROM (`Through`), and, while `main()` fits the banks, that the banks not yet come to are cleared (`InOrder`): the
step that enables extended addressing moves the current bank, and it does so before
anything is in either place. `SelectOn` describes a whole `bbc_sideways_select`, through
each order of ANDY going out, the banks changing and ANDY coming in; `SetAccconOn`
a write of ACCCON; `ResetOn` a hard reset, which leaves what `PagedMemory!AfterReset`
says.

### WdFdcProofs

For any drives, any programs, and counts of any size in the order the chip needs them in
(`WdAssumption`): `ChipIsCoherent`, `LossesAreReported`, and, if no program that writes the
registers while a command runs issues a restore, `RestoresGoHome`, with the last two
together in `CommandsAreTruthful`. Without that hypothesis a restore may end anywhere: it
steps until the track register says zero.

The invariant is `Sound` (`ChipStaysSound`): a drive spins if and only if it is selected and
the motor is on (`Driven`); busy bit, state, timer and motor agree (`Moving`); DRQ line and status
bit agree (`Visible`); a running command has the type and the direction of its code
(`Commanded`); and the counts of bytes and of index pulses fit the state (`Fits`). `Coherent`
is not inductive: that a search never passes the pulse it gives up at depends on
how many pulses the states before it can have counted, byte by byte, and on the pulse that
ends a spin-up still being there at the next byte, so that it is not counted twice.

The argument follows the code. Each function of `wd_fdc.c` leaves the drives alone and loses
no byte without a report (`Kept`, one lemma for each, composed by `KeptTwice`); a command
begins in one of its first states (`DispatchBegins`); what a state makes of a byte leads
to a state it fits (`Leads`, one lemma for each state). `Onward` says this of a byte's whole
action, `Acts` of every step. For the restore, `Homing`: while it steps, the head is no
further from zero than the track register says, which is where the 255 that
`wd_fdc_dispatch_command` puts there is needed.

### IntelFdcProofs

For any programs, tracks, counts of sectors, and sizes of sectors and gaps
(`IntelAssumption`; a header has four bytes, `HeaderBytes`), any writes to the drive port
and timers and drives due in any order and at the same tick: `ChipStaysCoherent`,
`EachByteIsAskedFor` and `ChipTellsEnds`. Two assertions can fail, that of an abort that
writes with no drive selected and the scheduler's (section 6); `ChipStaysCoherent` has it that
no other does (`Failures`).

The invariant is `Sound` (`ChipStaysSound`). `Base` is what holds of every
struct, also between two statements of a function: the ranges, and that a drive turns if
and only if it is selected and loaded. `Phase` says which six situations a chip can be in: `Idle`,
`Asking` for parameters, `Seeking`, `AwaitingIndex`, `Searching`, `WritingDisc`; and for
each state of the bit processor which command runs, which index routine is
installed, and how many bytes are to come and have been asked for. `Coherent` is
not inductive: that the gate is closed when a command ends, or is still the one the 6502
opened (`Shut`), depends on the routine a run of bytes returns to, and that a completion is an edge depends on whether the byte
that came late was a requested one. One situation is easily overlooked, `Aside`: after a header of another track the head is stepped while
the state stays `in_id_crc`, so bytes come in a state that ignores them.

`Leads(f, g)` is what is shown of every function: `g` is sound; the line has risen with
an edge, and an edge is not forgotten (`Told`); a seek that ends at track zero is there
(`Found`). One lemma for each function of `intel_fdc.c`, from what each needs of the
struct it is given (`Ready` to dispatch a command, `Moving`, `Approaching` and `Arrived` for a seek),
composed by `LeadsOn`; most say first which fields change (`Changes`), as the phase depends
on few of them (`PhaseKept`). For `Found`, `Homing`: a seek to track zero steps outwards, and
the head is no further from it than the steps left. That needs the steps to be counted
from the highest track number whatever the register says, which is what the 255 in
`intel_fdc_do_seek` does.

### Model-checked only

Liveness (`DueTimerFires`, `CommandCompletes`, `DirtyTrackIsFlushed`,
`ReleaseAllReleases`, `RewindEnds`, `TransmitDrains`, `RequestsAreServed`) is beyond
this prover. So is what the recursive algorithms compute: `Bus`,
`DiscFormat`, `DiscImages`, `JitCompiler`,
`JitOptimizer`, `JitTranslation`, `JitUops`, `Inturbo`, `Render`, `Sound`, `TapeCsw` and
`Video` have `RECURSIVE` operators, or use modules that have, and stay with TLC.
`TapesAreHeard` compares with what a recursive operator says is on the tape.
`TakenInTime` of `Interrupts` needs an induction on a number of ticks. `Keyboard`
handles the keys of a queue with a fold, and what a fold keeps is an induction, too.

## 6 Where the program departs from what it says

One departure is a run with an expected violation and a finding in
`PROJECT.json`: `memory_reset`, a hard reset that leaves what is paged in. The others
below came up while modelling. Most can be reproduced with the model: by the constant
or the instance named, or by dropping the guard that leaves the behaviour out of
the passing runs.

WD1770:

* Force interrupt calls `command_done` while the timer of a seek, a settle or a
  command's end is armed, which fails the assertion in `wd_fdc.c:213`; the comment in
  line 598 says commands are "aborted right away in all cases". The model ends there.
  `MCWdFdc!OneSeek` and `OneDrive` are the smallest instance. What the order of force
  interrupt and the byte under the head does beyond that (`wd_fdc.c:608`) is
  therefore not reached.
* A write command with the settle flag on a protected disc reaches the dispatch
  from the settle timer in a state it does not expect and fails the assertion in
  `wd_fdc.c:373`.
* When the byte that completes a search is also that of the index pulse at which
  the search gives up, the command is completed twice; the second fails the
  assertion in `wd_fdc.c:213`.
* Force interrupt on an idle chip clears the data request in the status but not
  the line.

Intel 8271:

* A callback may end a command and with it stop a timer that is due at the same
  tick (`intel_fdc.c:515`; `MCIntelFdc!SeeksUnloading`): the
  scheduler's walk holds it as the next one and fails the assertion in `timing.c:470`.
  `FailsOnlyThere` says from which steps.
* A write gate that WRITE SPECIAL REGISTER has opened (`intel_fdc.c:989`) stays open when no
  command runs, and the bytes under the head are written, as the comment in line 2068
  wants it. With the drive then unloaded or deselected, a reset or a late byte writes to a
  drive that is not there (`intel_fdc.c:564`, a null pointer). `GateIsGuarded` says that only such a
  gate (`held`) is open outside a write; `FailsOnlyThere` says that only it leads there.
* READ ID with a second parameter other than zero goes straight to the headers
  (`intel_fdc.c:1138`): there is no seek, no head is loaded, readiness is not looked at and
  no index timeout started. With the drive not turning the chip stays busy until it is reset:
  `BusyMakesProgress` and `CommandCompletes` except it (`Unwatched`).
* The count of the automatic head unload is not cleared when a command starts, so
  that it may take the drive away in the middle of a seek; the command then ends
  with "drive not ready".
* A command written while another one seeks leaves the timer running without a
  purpose, which fails the assertion in `intel_fdc.c:860`. `WriteCommand` needs an
  idle chip.
* The second and later headers of read id are looked for without an index timeout:
  `Unwatched` in `CommandCompletes`.
* Writing the mode register while an interrupt is pending drops the status bit
  and leaves the line high, as both are one register (`~fdc.level` in
  `WriteCommand`).
* When the index timeout ends a read whose last data request is still unanswered,
  the line is high already and the completion is no edge; `CompletionInterrupts`
  allows it.

Drive:

* A disc that is swapped out with unwritten changes keeps them from its image until it is
  in again and written back; put in again when the head has moved, its next write
  fails the assertion in `disc.c:495`, and a power-on reset meanwhile that of
  `disc.c:307`. The same happens to a disc that an 8271 with its gate left open writes to
  with the motor off. The run `drive` has both: `ChangesAreTended` says that the assertions
  fail for such discs (`adrift`) and no others.

Keyboard:

* The rewind timer (`keyboard.c:656`) may stop the replay timer when both are due
  at the same tick. The scheduler has already loaded it as the next one and fails
  the assertion in `timing.c:470`.
* Two frames of the same time in a capture file make the replay timer set itself
  to 0 in its callback: `timing.c:488`.
* Alt-E during the rewind of a replay, or a debugger seek past its last frame, leaves
  the virtual keyboard active with no replay to feed it, for good (`keyboard.c:654`, 862).
  `EXAMPLES:126` says that Alt-E takes over "at any moment". The run `keyboard` has these
  moments: `UserTakesOver` says that this (`outrun`, without a capture) is the only way in which the
  user is left without the keyboard.
* During the rewind of a capture the same records keys that the machine does not see, and with an
  empty capture the keyboards are swapped twice (`keyboard.c:658`), so that keys held are
  dropped. `CaptureIsFaithful` and `RewindRestores` except captures whose rewind outran its
  replay, until the next rewind.
* Alt-R restarts the clock under an open capture file, whose frames are then out
  of order (`bbc.c:2519`; `"R"` in `Commands`).
* Alt combinations replayed from a file are acted on after the keyboards have been
  swapped (`keyboard.c:639`, against the comment in line 992).
* Releasing more than 16 keys at once writes a frame that a replay does not
  accept; a release that finds the queue full is dropped and leaves the key down.

Serial:

* A byte waiting for the RS423 device when the tape is selected is not sent until
  the device is selected again (`SwitchesSending = TRUE`).
* A change of the word format in the middle of a word lets the bit counter pass the
  value it is compared with (`mc6850.c:300`), and the receiver takes in bits until the format
  is changed again or the chip is reset. The run `serial` has such changes: `WordEnds` says what
  they can do and that nothing else can.
* Fast mode switched on for a tape stays on after a power-on reset
  (`serial_ula.c:139`).

VIA:

* An edge on CA1 latches port A in `IRA` but does not renew `IRA_cached`, which is
  what reads return: they give the previous latch (`via.c:1239`; the comment in
  line 546 says "the pin levels at the last latch"). `BusIsCurrent` speaks of
  unlatched reads.
* A reset starts timer 1 in the first half of a cycle, so that its half cycle count
  is odd until it is first written. At -3 the unsigned difference in `via.c:162`
  wraps and the next read sees the count jump. `ImplementsChip` says nothing of
  timer 1 before its first write.
* A reset restarts the clock that `t1_last_fire_cycles` is compared with, so that an
  access may coincide with an expiry before the reset. The model forgets the expiry.
* BREAK clears all levels of the interrupt lines (`bbc.c:1775`), and chips that
  BREAK does not reset tell the 6502 of theirs only when they next change.
* The machine's flag of a key pressed with Alt is cleared by a hard reset and at the
  end of a rewind before it is looked at; BREAK during a rewind does nothing.

Tape (CSW):

* A carrier or a silence at the end of the file is not added to the tape.
* A carrier between data that is shorter than ten one bits, and no whole number of bits,
  becomes silence.

6502, JIT and inturbo (the instances of `MCJit` and `MCMemory` leave these out, the guards of
`Interrupts` those of interrupts):

* The value of N and Z at an exit after BIT or PLP is worked out from a load before it
  (`jit_optimizer.c:861`), so that the interpreter is entered with the wrong flags.
* `CMP`, `ADC` and then `CLI` with an interrupt pending: the test of the interrupt line
  destroys the host's carry while it has still to be saved
  (`jit_optimizer.c:940-1106`, `asm_jit_x64.S:485`).
* ADC, ROL or ROR after which an indexed access faults has taken the carry out of its
  place before the access; the fixup does not put it back.
* An ADC or SBC whose overflow is removed for a later one leaves the old V when the block is
  left between them.
* `had_check_bcd` (`jit_optimizer.c:193`) is not reset by SED or PLP: an ADC after them,
  when another came before, is done in binary.
* A delay loop that starts with NOP is collapsed to a countdown that does not keep N and Z.
* A dynamic operand on `CPX`, `CPY`, `ALR`, `SAX` hits `assert(0)`.
* Pushes do not invalidate code in the stack page (a TODO in `jit_compiler.c:842`); an
  RTS to 0xFFFF goes to 0x10000 (a TODO as well).
* The comment at `jit_compiler.c:933` speaks of events "over a second old"; the limit is
  100 seconds.
* `BIT #imm` of the 65C12 sets N and V in the interpreter; the tables' cycles of the
  65C12's opcodes 1E, 3E, 5C, 5E, 6C and 7E are not the interpreter's
  (`OtherCycles65c12`). Nothing but the interpreter runs the 65C12.
* `k_interp_special_KIL` is never cleared (`interp.c:971`): a 6502 that was jammed when BREAK came
  polls no more on the interpreter's fast path.
* A timer that asks for BREAK in the first three cycles of BRK or of an interrupt is acted
  on only when the interpreter next has anything special to do (`interp.c:1209`, 2854).
* A countdown that is already at zero is not walked again by `timing_advance_time`
  (`timing.c:528`): after a VIA write from host code that ended the countdown, BREAK at
  the same tick is acted on one instruction later.
* A range of memory that is invalidated marks only the blocks that start in it
  (`memory_range_invalidate`): one that begins below 0x8000 and runs into the ROM is
  stale after paging. The range (0, 0xFFFF) leaves out 0xFFFF. `addr_6502 < 0xFF`
  (`jit.c:541`) misses code that starts at 0xFF. `CodeStays` of `JitBlocks` leaves these
  out. A write by the debugger into the
  middle of a block leaves the block as it is (`bbc.c:2699`).

Video:

* `teletext_create` ends a scanline (`teletext.c:324`) before it fills the palette (327): the
  first line of text ever shown starts in black and not in white. `TextIsTheLine` says so
  (`StartingInk`), and that no later line does.
* A write of the ULA that changes the teletext bit and not the clock, while nothing is
  drawn, does not advance the CRTC (`video.c:1878`), and a PCR write while full frames are
  jumped does not set the timer again (`video.c:1272`): VSYNC comes late, though
  `video.c:996` says "Tread carefully around vsync so as not to miss it." Both need
  `Careful = FALSE`.
* A write of R8 at the very tick of an edge fails the assertion of
  `video_is_at_vsync_raise` or `_lower`. R7 set to the current row in an interlaced frame
  after half its first line raises a VSYNC of half a line late. An odd number of ticks a
  line in an interlaced mode loses a tick in two frames and fails the assertion at line 1222.
  R7 = R4, with a VSYNC that crosses the end of an interlaced frame, raises it again.
* The light pen latches the address read before the CRTC is advanced (`video.c:1250`).
* `video_render_full_frame` (`video.c:1772`) leaves the display enable in the SAA5050's
  pipeline at the end of a frame, so that the next starts one scanline down.
* A cursor left of the window is shown at its edge.

Machine:

* A hard reset restores the mapping without looking at whether the 6502 writes to the
  operating system's drawing code, and fails `assert(is_acccon_usr_mos_different)` when
  it does; without assertions that code reads and writes LYNNE until ACCCON is written. The
  run `memory` has such resets: `SeesPagedMemory` and `ImplementsPagedMemory` state what
  happens (`untold`, `StrayWrite`).
* A ROM loaded into the RAM bank that is paged in is overwritten when the bank is saved; a
  save of it writes what it held before it was paged in. A write by the debugger to a ROM
  lasts until the bank is paged out. A model B's RAM in the bank selected at the start
  cannot be written until a bank that is not RAM has been selected: `bbc_page_rom` changes
  the write mapping "from ROM to RAM or visa versa" (`bbc.c:727`), and
  `bbc_make_sideways_ram` makes the current bank RAM between two pagings. The fourth machine
  of `MCMemory` is one, and `SeesPagedMemory` says from when writes reach RAM (`romPaged`).
* BREAK clears the levels of all interrupt lines (`bbc.c:1775`); see VIA.
* The JIT's direct calls for writes of ORB, ORA and IER do not bring the clock up to date
  first.

Sound:

* A hard reset takes the time back (`bbc.c:2521`) before the sound chip notes it
  (`bbc.c:2529`): the unsigned difference fills the buffer with the old chip's sound, or,
  before the first request of the host, passes the check for overflow by wrapping
  (`ResetsEarly = TRUE`).
* With a sound thread, the reset of the noise register by a write during a period is
  overwritten by the thread. In fast mode the chip stands still while the buffer is full.

Threads:

* The window is closed at the moment the CPU thread changes the driver's flags: the store
  of one overwrites the other's (`lost`), and the exit may be forgotten. An exit that is
  seen before its value is set gives the result 0.
* `bbc_run_async` creates the CPU thread before it sets `running` (`bbc.c:3114`): a machine
  that ends at once has the flag overwritten (`overtaken`), and the assertions in lines
  2331 and 3131 fail.
* In fast mode with the video clocked from outside the CPU thread does not wait for the
  frame that is being painted.

Disc images:

* A write to the upper side of a single-sided `.ssd` fails `assert(is_dsd)`; one to that of
  a single-sided HFE is stored but the header does not tell, and it is gone when loaded
  again.
* An HFE loaded with the tracks of 40 expanded to 80 is written back at the disc's track and
  not the file's. A v3 HFE of another tool without room for three opcodes loses its last
  word at the first write. Words of no pulses become weak bits in a v3 HFE. A write past the
  end of a file leaves the tracks between as they come.
* `disc_tool_read_pulses` goes round the track one word late (`disc_tool.c:118`).
* A disc that has been converted is loaded again under its old name and by its old loader
  (`main.c:557`).
* Captures of several revolutions (RFI, DFI, KryoFlux) are laid over each other:
  `disc_build_track_from_pulses` adds pulses and clears none (`disc.c:771`), and only SCP
  takes one revolution. A sample 0 of SCP, "overflow", is not added to the next.

## 7 What is not modelled

Components without a module:

* *Debugger and expressions.* A command line. It changes the machine only when told to;
  where it does so behind the JIT's or the paging's back, section 6 says what happens.
* *FSD images.* A format that is only read: sectors, whole and damaged, put on a track at
  the start. What the drive makes of a track is in `DiscDrive`.
* *UEF and other tape images* but CSW. What is on the tape is an input of `Serial`.
* *CMOS and joystick.* Two small ports of the VIAs, whose other side is free in `Via`.
* *Snapshots.* Import and export of another emulator's format, partial by its own account.
* *Host layer.* Files, windows, threads, channels and sound drivers are the environment of
  `RunLoop` and `Sound`.
* *Tools, tests, test ROMs and vendored code* are not part of the emulator.

Inside the modelled components these are left out:

* `Timing`: `odd_even_tracker`, logging.
* `WdFdc`: densities, sides, register remappings. `IntelFdc`: the second surface, the step
  rate, special registers without effect on control, values read back. The write
  protection assertion of section 6 bounds what `WdFdc` says of protected discs.
* `DiscDrive`: weak bits, logging; what is on a track is one value there and flux in
  `DiscFormat`. `DiscImages`: files that are refused or truncated, options that expand or
  skip tracks and sides. Captures: damaged files, the streams' own information blocks.
* `Keyboard`: rows and columns of the key matrix, remapping, links and BREAK.
* `Serial`: baud rates and the transmitted values. `TapeCsw`: run lengths, unpacking.
* `Via`: CB2, the shift register, latching of port B, CMOS, the chip clocked by wall time.
  ADC: values and resolution.
* 6502 and JIT: the encoding of host instructions, the ARM64 backend, which opcodes of
  inturbo are too long for their slot, the interpreter's own countdown and debug hooks.
* `Video`: cursor, skew, hsync, the externally clocked mode, paint options, NuLA.
  `Render`: cursor pixels, pages of text clocked at 2MHz, the line at the frame's boundary, grey scale, writing the
  picture out. Fifteen of sixteen logical colours.
* `Memory`: writes by the debugger, ROMs exchanged while the machine runs.
* `Sound`: the low-pass filter and the table of loudness (floating point), sleeping within a
  period.
* `RunLoop`: painting at every tick, sleeping to keep time, the debugger's break, autoboot;
  events of the window system that its library has read but not handed over.
