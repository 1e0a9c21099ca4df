# TRX64: a TLA+ verification project

TRX64 is a headless C64 with its disk drives (1541, 1581), cartridges and
expansions, written in Rust and driven over JSON-RPC by several clients at once.
What sets it apart from an emulator core is what is built around the machine: a
run loop several clients steer, a ring of checkpoints a client can rewind
through, an undo ring that takes back single instructions, and media whose
writes must reach the host's files. These modules model that part.

## The system

| component | source | state it keeps | operations | what makes it correct |
|---|---|---|---|---|
| undo ring | `trx64-core/src/delta_ring.rs` | two circular slabs, two heads, the entry in flight | begin, record_write, abort, commit, pop_newest, clear, resize, dump, load, who_wrote | what it says it retains is what retired; undoing is exact |
| loop-onset detector | same file | the last 9 instructions, a candidate, its rounds, one pinned record | detect on every commit, clear | a tight loop is pinned with the instruction that entered it |
| reverse debugger | `trx64-core/src/lib.rs`, `full_sc.rs` | CPU, RAM, the ring | execute one instruction, reverse_step, reset, set depth | CPU and RAM come back byte for byte |
| checkpoint ring | `trx64-core/src/checkpoint_ring.rs` | anchors with pins and marks, free slots, the pool of media images | capture, set_max_entries, set_mark, drop_mark, pin, unpin, truncate_after, clear, dump, load | no slot or image leaks; pins survive; the cap decides |
| rewind transport, run control | `trx64-daemon/src/transport.rs`, `main.rs`, `streaming.rs` | running, the cap of a bounded run, cursor, direction, mode | the run loop's tick, play, pause, frame, goto, debug/run, continue, step, checkpoint/restore | one timeline; one owner of the machine; playbacks end |
| media | `trx64-session/src/lib.rs`, `main.rs` | machine's and registry's cartridge and disks, dirty flags, debounce | mount, eject, power, persist, shutdown | no write of the user's is lost |
| A/V and notification hubs | `trx64-daemon/src/streaming.rs`, `main.rs` | subscribers under a lock of their own, the audio engine, the presented frame, machine generation, announced model | subscribe, unsubscribe, broadcast, the run loop's iteration, every request that rebuilds or moves the machine | no deadlock; the consumer follows the machine; a client sees the machine that is |
| idle exit and shutdown | `trx64-daemon/src/idle.rs`, `main.rs` | idle clock, its holders, the exit work's guard and result | touch, hold, keep_alive, poll, shutdown, signal, exit work | never leaves under somebody who holds it, nor before the work is done; and leaves when idle |
| flight recorder | `trx64-core/src/recorder/*.rs`, `main.rs` | a byte ring of anchors, the disk's last versions | start, stop, capture, feed per frame, dump | what is listed is whole and has its own disk |
| flash chips | `trx64-core/src/flash040.rs` | the array, the command state, an erase alarm applied lazily | store, read, snapshot, restore | a late alarm cannot be told from one on time |
| serial EEPROM | `trx64-core/src/m93c86.rs`, `cart.rs` | the words, two shift registers, the command as far as it is recognised | set the lines, poll, reset | whole frames are obeyed, pieces of frames are not; a read gives what is stored |
| bounded runs, who drives | `trx64-daemon/src/main.rs`, `streaming.rs` | cap, pace and the one to go back to, last stop, owner and its activity | debug/run, debug/pause, step, session/play, the loop's frame or warp batch, idle release | a run ends on its cap and gives the pace back; an idle owner's machine goes back |
| traces and their index | `trx64-session/src/lib.rs`, `trx64-traceindex/src/*.rs`, `main.rs` | pending events, the file, the store, the builds under way | start, spill, stop, build, ensure, read | a stopped run is whole in its file and gets an index that is whole |
| other devices | `spi_flash.rs`, `uci.rs`, `wd177x.rs`, `iec*.rs`, `folder_device.rs` | command state machines | register reads and writes, alarms | as the data sheets say |
| cores and chips | `cpu.rs`, `c64_6510core.rs`, `vic.rs`, `ciacore.rs`, `viacore.rs`, `sid.rs`, `drive*.rs` | registers | one cycle | cycle-exact against VICE |
| monitor, CLI, FFI, static disassembler | their crates | | parsing, formatting, files | |

Everything that changes the machine does so under one `State` mutex. The run
loop (a thread of its own, `streaming.rs`) takes it once per frame; every JSON-RPC
handler takes it for the length of its call, or gives it up once in the middle
(a waiting `debug/run`, a host write). So the steps of the models are the critical
sections of the code, interleaved in every order; what is hard is not memory
order but the order of whole requests: a client resumes a machine another one
has rewound, a window shrinks under the anchor the transport stands on, a
restored checkpoint meets an undo ring of the timeline that was left. Two locks
stand beside `State`'s: the A/V hub's, which `subscribe` holds while it asks for
`State`, and the guard of the exit work. There the steps are finer.
`PROJECT.json` lists these hazards at their lines.

## The modules

Paths below are relative to `crates/`.

**`UndoStack`** is what the undo ring promises: a stack of instructions, pushed
as they retire, popped by undoing, of which only the oldest part may be forgotten.

**`DeltaRing`** (`trx64-core/src/delta_ring.rs`) has the code's variables
(`entries`, `writes`, `entry_head`, `write_head`, `cur`, `in_flight`) and the
slab lengths. One action per method. `begin`..`commit` is one CPU step under one
borrow, so nothing else is enabled in between. `log`, `curws`, `entry_peak`,
`write_peak`, `overrun` are history: what really retired, how far each slab was
ever filled, and whether an entry was popped that the slab no longer held.
`ImplementsUndoStack` is the refinement: decoded from the slabs the way the code
decodes it, the part of the ring that is held whole (`Held`, back to the first
instruction that is not: `Depth`) is the stack.

**`RingQueries`** adds what is asked of the ring (`who_wrote`, `ring_exhaustion`)
and its copy in a `.c64rering` file; **`RingReload`** instantiates the same
module over the reloaded slabs and compares the answers. What a query returns is said by
the places of an instruction's writes (`LastTo`, `FirstTo`) and by the writers of a walk
in their order (`Writers`), for the slabs and for the log alike.

**`ReverseDebug`** composes the ring with a machine: an instruction stores bytes
(RAM and port with the old byte, I/O registers with 0, as `full_sc.rs` records
them), DMA writes behind the CPU's back, `reverse_step` pops one entry per
iteration, and resets, depth changes and checkpoint restores come in any order
between instructions. `timeline` is history: the states the machine was in before
each instruction that reverse-steps may still take back.

**`LoopOnset`** is the detector over every execution of a small program: the
trace is any sequence of PCs.

**`CheckpointRing`** (`checkpoint_ring.rs`) keeps anchors by their sequence
number, the pinned and marked ones among them, the count of free slots and the
reference counts of the pooled images. The payload is abstracted to which pooled
image each of its slots refers to.

**`RewindTransport`** composes the run loop, the transport and the requests that
start, stop, move or change the machine. A position `at` of the machine is the
path of moments that led to it (a frame, an instruction, a change), so two
positions are on one timeline exactly when one path is a prefix of the other.
Pins, marks and `then=run` are left to `CheckpointRing`; an anchor here is an
id and the path it holds.

**`MediaHost`** holds what a disk and a cartridge share: the host files, writes to
them that can fail, the machine's power, and `request`, the one call that has read
a file before it takes the lock or still has to write one after giving it up.
`parted` is history: a write failed (and was reported), a file changed between
being read and being mounted or was written late with older bytes, or a door that
writes nothing took an unsaved medium out. The properties speak of the runs where
none of that happened; what each of these doors loses is in the table of divergences.

**`DiskPersist`** (`trx64-daemon/src/main.rs`, `trx64-session/src/lib.rs`) has one
drive position: `drive` and its one-shot write report `unreported`, the registry's
copy of both while the machine is off, and the lazy writer's `disk_ap_*` variables
(the debounce clock is `disk_ap_settled`: has the window gone by since the contents
last changed?). The run loop's poll is `LoopDisk`; the doors are
`media/mount` (and `swap`), `media/unmount`, `media/ingress` of a path, of bytes and of an
eject, `media/persist`, power off and on, `project/set` and the exit.

**`CartPersist`** does the same for a cartridge whose mapper can be saved. Its writes
are counted by a generation, `gen`, and the writer compares generations, where the
disk's compares contents. `done_is_older` is history: `cart_ap_done_gen` was written
for a cartridge that has since been replaced. The writer cannot know (`LooksDone`), and the
properties that set such a cartridge aside say so.

**`StreamHubs`** (`streaming.rs`, `main.rs`) has both locks, each the thread that holds
it. A connection subscribes to the picture (hub, then `State` inside it), then to
the notifications, and leaves the same way; the run loop asks the hub how many are
watching, installs or removes its audio engine, advances or stands still, and
pushes the frame; requests pause, move, restore, switch off and on, undump to
another model, and export audio with a hook of their own. A picture is the clock
it was presented at and whether it was redrawn without the clock moving.
`missed` is history: the clients a switch of models fell between two steps of.

**`DaemonExit`** (`idle.rs`, `main.rs`) has the idle clock in seconds, the idle watch's
round (look for a trace, look for subscribers, hold, decide), the guard and result
of the exit work, and for each of the doors (a `daemon/shutdown`, a signal, the watch)
how far it has come. The machine is whether it runs, whether its last stop was a cap's
(`capped`) and how long the agent that drives it has been silent (`agent`), which is what the
loop's idle release goes by (`Releases`): it sets a capped machine going for who watches, with
no request, after the exit work too. A client runs it (`RunMachine`) or steps it
(`StepMachine`). `quiet_for`, `promised`, `unseen` and `again` are history: what the clock ought
to know, who came after the round looked, and who has set the machine going since the work.

**`FlightRecorder`** (`recorder/*.rs`, `main.rs`) keeps the slab byte by byte, a byte
being the number of its anchor and its place in it, the index of anchors as a set
(they are numbered in their order), and the list of disk versions.
Both rings between producer and store are drained by the call that fills them, so a
capture is one step. `wasDisk` and `wasProfile` of an entry are history.

**`FlashChip`** is the command machine of `flash040.rs` as functions of the chip: a
store, a read, a step of the alarm. **`FlashAlarm`** puts them to work as the chip
promises: each alarm step at its cycle. **`Flash040`** does as the code: no
alarm is scheduled, and what has come due is made up for at the next store, read
or snapshot. `LateIsOnTime` is the refinement, with `chip <- CatchUp(chip)`. An alarm is
the cycles still to wait; a byte is the set of its bits.

**`BoundedRun`** (`main.rs`, `streaming.rs`) is what people and an agent share of the
machine's pace: `debug/run` with a budget and a wait, the cap, warp's longer iterations
cut at the cap, and the owner, whose machine the loop resumes once the agent has been
silent for `IdleWindow`. The clock is kept as the cycles left to the cap. A request is
two steps, as the hook that notes who drives takes the lock for itself first.

**`TraceStore`** (`trx64-session/src/lib.rs`, `trx64-traceindex/src/ensure.rs`, `build.rs`
and `decode.rs`, `main.rs`) has one recording at a time: its pending frames, spilled when
there are enough, finalised by a stop. The file is a sequence of frames and of pieces
that torn writes left; a builder opens it, takes it in by windows, and renames its store
into place; readers, stops and waiting stops look into the registry of builds before
they start one.

**`M93C86`** (`m93c86.rs`, and the register of `Gmod2Mapper` in `cart.rs`): the chip is a
record, its shift registers sequences of bits, one action a store to the register with
any lines. Beside it, history takes the same bits as whole frames: `Effect` says what
a frame does to the array, and the properties compare.

The definitions named for a slip (`RetainedOneShort`, `StoreSwapped`, ...) are
not part of the models. Each is a neighbouring definition with one plausible mistake, kept to
show that a property notices it.

Components that do not touch each other share a module that sets one going and leaves the
other as it was made: **`UndoRing`** the slabs of a ring and its loop detector (`Detector`),
**`CartChips`** a cartridge's writer and its chips (`Flash`, `Serial`), **`RunControl`** the
transport and bounded runs (`Bounded`), **`Recordings`** the flight recorder and traces
(`Traces`). Each takes an instance of the second component and gives its properties names, so
that the theorems about it can be stated beside those of the first.

## The runs

Run any of them with `tlc -config <name>.cfg <module>`. The bounds are constants
of the modules, named where they are declared. Where a property is a conjunction, its parts
are named in brackets.

| run | module | checks | bounds, and why they are enough |
|---|---|---|---|
| `delta_ring` | `MCUndoRing` | nothing a newer record cannot have overwritten is lost (`KeptIntact`); what the ring reports is history while nothing undone lies ahead, and the newest instruction can be undone (`WindowsAreTrue`: `ForwardWindowIsHistory`, `NewestReadable`); `who_wrote` names exactly the writers that retired, and a reloaded ring answers alike (`AnswersAreHistory`: `WhoWroteExact`, `ReloadAnswersAlike`); refinement of `UndoStack`. Of the loop detector: a tight loop entered from an address that never came round itself is pinned, with the instruction that entered it (`LoopIsPinned`: `FreshLoopIsPinned`, `TightLoopEntryIsOutside`), and nothing is pinned for less (`OnsetIsTightLoop`) | rings of one, two and three entries with one or three writes, heads up to 3 entries and 4 writes, up to 2 writes an instruction: either slab turns over before the other, is undone past the wrap and filled again; two addresses, so that a query skips entries, and two hits, so that `max` cuts. Window 3 and threshold 2 for the code's 8 and 4: bodies of 2 and 3, ten instructions, which is a prefix plus all the rounds the largest body needs |
| `reverse_debug` | `MCReverseDebug` | the newest write the ring finds for a RAM byte explains that byte (`WhoWroteExplainsRam`); a reverse-step of n instructions puts CPU and RAM exactly where they were n instructions ago (`ReverseExact`) | one RAM byte of two values, two instructions, steps of 1 and 2, and rings whose slabs hold one or two: a step can ask for more than is left, and an instruction can outlive its writes |
| `checkpoint_ring` | `MCCheckpointRing` | slots and pooled images are neither leaked nor freed early (`NothingLeaks`: `SlotsAccounted`, `PoolExact`); byte cap and window decide what is kept (`CapDecides`); no eviction takes a pinned anchor (`PinsSurvive`) | windows of 1 and 2, an anchor of one or two pooled images, four captures: either limit evicts, pins overflow the window, and every anchor but one has been replaced |
| `rewind_transport` | `RewindTransport` | anchors and machine stay on one timeline (`TransportKeepsOneTimeline`); a playback owns the machine, and the mode tells replay from live (`TransportTells`: `PlayingHolds`, `ModeTells`); playbacks end (`PlaybackEnds`) | four requests of any clients between any two iterations of the loop, four moments, three anchors, windows of 1 and 3: rewinding, resuming and rewinding again fits, as does shrinking the window under the cursor |
| `disk_persist` | `DiskPersist` | a write is in the file, or somebody is still going to put it there, and an exit with the machine on saves it (`NoWriteLost`: `NoWriteForgotten`, `ExitSaves`); a disk that leaves has left its contents (`LeavesSaved`); and the lazy writer gets there by itself (`LazyWriteArrivesFresh`) | two files, two contents and uploads; one write fails: two disks follow each other through the same writer, and contents recur, which is what comparing contents can stumble over |
| `cart_persist` | `CartPersist` | the same for the flash of a cartridge (`NoFlashLost`: `NoFlashForgotten`, `ExitSavesCart`; `CartLeavesSaved`; `FlashArrivesFresh`), but for a cartridge at the very generation last written for one before it: that one the writer takes for written (`LooksDone`), and forgets | two files, two contents, two writes of a cartridge and one failure: two cartridges reach the same generation |
| `stream_hubs` | `MCStreamHubs` | nobody holds one lock and waits for who holds the other (`NoStandoff`); the machine reports its SID writes to the consumer there is, after any rebuild (`HookFollowsConsumer`); a client's hello is the announced model's, and a client of a paused machine has its picture or is still owed it (`ClientsAreCurrent`: `HelloIsCurrent`, `PausedClientSeesMachine`) | two clients, so that one arrives while the other is pushed to; two models; one rebuild, which leaves the hook of the old machine behind; two clock positions, which the clock goes round |
| `daemon_exit` | `DaemonExit` | the process ends only after the exit work, which runs once, and nothing unsaved is lost by it, unless the machine was set going again after the work, by a client or by the loop's idle release (`ExitIsClean`: `ExitAfterWork`, `NothingLostByExit`); the watch leaves only when idle (`IdleExitIsJust`), and does leave (`IdleDaemonEnds`) | one client and three requests, so that a run, a subscription and a shutdown follow each other and all race signal and watch (the second client is in the theorems); a window of one second, a keep_alive of two, and an agent that counts as gone after one |
| `flight_recorder` | `MCFlightRecorder` | every byte of a listed anchor is in the slab (`AnchorsIntact`); a dump has the disk of its anchor's moment, unless more versions followed than are kept (`DumpIsOfItsMoment`) | anchors of two and three bytes in a slab of five: they leave a gap at its end and go round twice; one of four, too large; three disks, two versions kept |
| `bounded_run` | `RunControl` | of `BoundedRun`: after a bounded run the session is at the pace it was in before the run asked for another (one chosen during such a run is lost: `ChosenPaceStays`, below), and a run stops on its cap (`EndsAsAsked`: `PaceGivenBack`, `StopsOnItsCap`); the idle release neither cuts a run short nor resumes a machine somebody paused (`ReleaseIsJust`: `NoReleaseMidRun`, `ReleaseKeepsPause`); it comes (`OwnerGoesBack`); and a waited run is answered (`WaitedRunAnswers`) | a person and an agent, three requests; frames of two cycles, warp of two frames, an overrun of one, budgets of no and three cycles: a cap inside a frame, at its end and passed; an idle window of two ticks. `Stalls = FALSE`: each tick sees an iteration and what was asked is handled in it |
| `trace_store` | `Recordings` | of `TraceStore`: a run that was stopped is in its file (`RunIsInFile`); a stopped run is indexed (`StoppedTraceIsIndexed`); and who waited for the index got all of it (`WaitedIndexIsWhole`) | two clients and one path, so that everything meets on it; one of them also waits for an index (two would wait for two runs of the one path, and a property of one run's answer sees no more of that); two runs, the second over the first; a spill every two frames of up to four a run, so that one spill creates the file and later ones append; one mark, two builds, one failure |
| `cart_chips` | `MCCartChips` | of the flash: lazy is on time (`LateIsOnTime`, a refinement of `FlashAlarm`); an erase clears only what it named (`EraseOnlyNamed`); erases and programs end (`BusyEnds`). Of the EEPROM: the array changes by whole frames and by nothing else (`FramesAreObeyed`); a read gives what is stored, bit by bit and round (`ReadsAreStored`) | two sectors of two and one addresses, every command byte, erase steps of two cycles and an alarm up to four overdue: two steps come due between two touches. A program stores one value; data and commands share the bus, so every other store is any command byte. Three address bits and two words of two two-bit bytes: the least at which the stages of a command stay apart; every sequence of line changes with at most one store to the array, of one of two words |

## Where the code and its documentation part

Each of these is a property that states what a doc, a comment or a test says, and
TLC finds a counterexample which is what the code does. `disk_exit` (of `DiskPersist`),
`delta_ring_start_wrap`, `ring_miss`, `ring_reload_miss` (of `MCRingQueries`), `loop_stale` (of
`MCLoopOnset`) and `reverse_io` (of `MCReverseDebug`) are configurations of their own, with
the first property below that names them. The others are refuted at the bounds of the
configuration named: put the property in place of its own. Those of `bounded_run` and
`trace_store` are defined in `BoundedRun` and `TraceStore`, to be run under `Spec` or `FairSpec`
with the constants these declare.

| configuration | property | what happens |
|---|---|---|
| `reverse_debug` | `ReverseStaysOnTimeline` | a restored checkpoint keeps the undo ring of the timeline it left (`main.rs:16724`); `delta_ring.rs:39-41` says a "COW fork / restored snapshot starts FRESH (empty)" |
| `checkpoint_ring` | `MarksSurvive` | unpinning a marked anchor by id leaves a mark that can be evicted (`checkpoint_ring.rs:628`); `checkpoint_ring.rs:107-112` says a mark is a name plus a pin, 697-698 that "a mark is released with drop_mark" |
| `disk_exit` | `ExitKeepsWrites` | a daemon that exits while its machine is off writes nothing of what the registry holds (`main.rs:13875`), against "a daemon that ends itself keeps the user's writes" (`main.rs:13865`) |
| `cart_persist` | `FlashArrives` | `cart_ap_done_gen` outlives its cartridge; the next one to reach that generation is taken for written (`main.rs:14656`); `main.rs:447` says it is "the gen already written to the host file" |
| `delta_ring` | `RetainedHeadersAreHistory` | after an undo on a wrapped ring `len()` counts slots that undone instructions overwrote |
| `ring_miss` | `MissIsGenuine` | the write slab wraps before the entry slab, and a miss is not reported as exhausted history |
| `rewind_transport` | `CapEndsWithItsRun` | pausing by `transport/toggle` leaves the cap armed for the next run |
| `delta_ring` | `ReadableWritesAreOwn` | after an undo on a wrapped write slab, overwritten writes are called readable (`delta_ring.rs:755`) |
| `delta_ring_start_wrap` | `NewestReadable` | `write_start` is the low 32 bits of an unbounded count, compared with the whole count (`delta_ring.rs:755-757`) |
| `ring_reload_miss` | `LoadedMissIsGenuine` | a ring saved after wrapping is loaded as one that never wrapped (`delta_ring.rs:477-480`) |
| `reverse_io` | `ReverseRestoresIo` | stores to I/O are recorded with old byte 0 and are not undone, against `MONITOR.md:231` |
| `reverse_io` | `ReverseIsByteExact` | the writes of a DMA transfer, at the end of an instruction, are not recorded, against `README.md:55` |
| `loop_stale` | `TightLoopIsPinned` | a candidate anchored outside the loop that follows is never dropped while the body is in the window; nor when the anchor runs again long after it left the window: with the code's 8 and 4, after `b c a a`, five times `b c` and `a`, a loop `b c` is never pinned |
| `loop_stale` | `PinnedLoopIsCurrent` | a pinned loop is never re-armed when the PC escapes it |
| `loop_stale` | `EntryIsOutside` | for a loop of LOOP_WINDOW + 1 addresses, the pinned entry is inside it |
| `checkpoint_ring` | `RunDropsTheFuture` | `checkpoint/restore` with `then=run` and a mark's name truncates nothing (`main.rs:12547-12552`) |
| `rewind_transport` | `ParkedReturns` | a waited `debug/run` on a machine the transport then takes hold of waits forever |
| `rewind_transport` | `ReplayBecomesLive` | playing forward to the head leaves the machine paused (`transport.rs:17-18`) |
| `rewind_transport` | `MachineIsWhereTransportSays` | `transport/play` sets the cursor without restoring the anchor |
| `rewind_transport` | `OnlyTransportMoves` | `debug/step` advances a machine the transport holds |
| `rewind_transport` | `OneTimeline` | `checkpoint/restore` without truncation lets anchors of two futures into one ring (`transport.rs:16`) |
| `rewind_transport` | `InterventionCutsTheFuture` | with the cursor's anchor evicted by a smaller window, an intervention truncates nothing (`main.rs:16400-16404`) |
| `disk_persist` | `LazyWriteArrives` | `disk_ap_done_hash` outlives the disk it was written to: another with the same contents is taken for written (`main.rs:14772`) |
| `disk_persist` | `MountShowsFile` | the file is read before the outgoing disk is written: remounting a disk shows it without its own last writes (`main.rs:10088`) |
| `disk_persist` | `EjectKeepsWrites` | `media/ingress` of an eject writes nothing, where `media/unmount` does |
| `disk_persist` | `NoWriteUndone` | `media/persist` writes after giving up the lock, over what was saved in between (`main.rs:10521`) |
| `disk_persist` | `PowerOnKeepsDisk` | a disk mounted while the machine is off goes with the machine that is replaced on power-on |
| `cart_persist` | `NoFlashTakenForDone` | a cartridge that still has flash to save stands at a generation another left, and the writer takes it for done (`main.rs:14656`), against "the gen already written to the host file" (`main.rs:447`) |
| `cart_persist` | `ReplacedCartIsSaved` | a cartridge replaced by a mount is not saved ("VICE saves the .crt on detach", `main.rs:13860`) |
| `cart_persist` | `EjectSaves` | ejecting a cartridge while the machine is off saves nothing, against `MONITOR.md:175` |
| `cart_persist` | `IngressInserts` | a cartridge put in by `media/ingress` while the machine is off is not in once it is on |
| `stream_hubs` | `HelloReachesAll` | a switch of models between a client's two subscriptions reaches it by neither, against `docs/wl-trx64-play-api.md:102` ("again whenever the machine's model changes") |
| `daemon_exit` | `WorkEndsProcess` | a `daemon/shutdown` whose client has hung up does the exit work, and the process lives on (`main.rs:18604`), against "now make sure it is on the socket, then end the process" (`main.rs:18608-18609`) |
| `daemon_exit` | `IdleExitCutsNobody` | a request that waits for its run to stop does not hold the idle clock (`idle.rs:3` counts only its arrival), and the daemon ends under it |
| `daemon_exit` | `ExitKeepsAll` | between the exit work and the end a client may run or step the machine, or the loop's idle release set it going, and it writes |
| `daemon_exit` | `WorkStopsTheRun` | the idle release resumes a machine that had stopped on its budget after the exit work too, and nobody asked (`main.rs:15761`), against "stop the autonomous run" (`main.rs:13885-13886`) |
| `flight_recorder` | `DumpNamesItsMachine` | `recorder/dump` writes the name of the machine that is, not of the anchor's (`main.rs:12777`, against `main.rs:17497`) |
| `flight_recorder` | `CaptureAnswersItsOwn` | an anchor too large for its slot is dropped, and `recorder/capture` answers with an earlier one (`main.rs:13406`) |
| `cart_chips` | `DirtyIsCurrent` | `is_dirty` does not catch up: a cartridge ejected right after its erase came due counts as clean (`flash040.rs:330`, `main.rs:13980`) |
| `bounded_run` | `WaitEndsWithItsRun` | a waiter whose run has stopped waits on if another client starts the machine before it wakes (`main.rs:2025`), against "the call returns when the run has stopped" (`main.rs:8560-8561`) |
| `bounded_run` | `ChosenPaceStays` | a pace set while a bounded run has one of its own is written over when that run ends: `session/set_pacing` leaves `run_cap_restore_pace` (`main.rs:7797-7812`), which `end_bounded_run` puts back (`main.rs:1966`), against "stores mode unconditionally" (`main.rs:7790`) and "how fast the machine runs" (`docs/wl-trx64-play-api.md:91`) |
| `bounded_run` | `ReleaseKeepsEveryPause` | a cap left armed by a step is reached by a later inline run; that is taken for a run's end, and the idle release resumes a machine a client had stopped (`main.rs:15761`, against 15745-15746) |
| `bounded_run` | `NeverReleasedMidRun` | a bounded run carried on by `session/play` has no stamp and is released in the middle (against `main.rs:15711`). With `Stalls = TRUE`, a lock held for longer than a tick, `OwnerGoesBack` and `NoReleaseMidRun` fail too |
| `trace_store` | `EveryWaitedIndexIsWhole` | a stop that waits trusts a store that is there, be it of another run (`ensure.rs:267`), against "immediately queryable" (`main.rs:11193-11196`) |
| `trace_store` | `EveryStoppedTraceIsIndexed` | a stop joins a build begun while the run was still recording (`ensure.rs:135-140`), against "which ALWAYS indexed" (`main.rs:5731-5732`) |
| `trace_store` | `NothingClobbered` | `session/create` with `trace_out` replaces a trace that records (`main.rs:7075`), which the other start refuses (`main.rs:10754-10757`) |
| `trace_store` | `FileHoldsNoMore` | a spill that fails half way is written again behind its own piece (`lib.rs:187-190`) |
| `trace_store` | `WaitedMarksArrive` | the marks a finalize hands over do not reach a build that is already under way (`ensure.rs:325-330`) |
| `trace_store` | `IndexStays` | between the look for a store and the start of a build another build may end; the late one is done over it (`ensure.rs:263-270`) |
| `trace_store` | `EveryBuildSettles` | a file begun anew and shorter under a builder with half a frame in hand keeps it reading for ever (`decode.rs:692-731`), and with it whoever waits |
| `cart_chips` | `OnlyWholeFramesUnlock` | five bits of an EWEN enable writing, whatever follows (`m93c86.rs:232`), against "require a prior EWEN" (`m93c86.rs:11`) |

## Fairness

`FairSpec` of `RewindTransport` assumes weak fairness of the run loop's two steps,
since its thread iterates for as long as the daemon lives and its lock is handed on,
and of `ParkedReturn`, which the loop's condition variable or its 20 ms timeout
wakes.

`FairSpec` of `DiskPersist` and `CartPersist` assumes weak fairness of the same
loop's poll (`LoopDisk`, `LoopCart`), which it makes on every iteration, running or
not; of `Settle`, since time passes; and, for the disk, of `PersistWrite`, since a
handler that has taken bytes goes on to write them. No client is assumed ever to
ask anything, and no disk or cartridge to be left alone: the liveness properties
speak of contents that stay in place.

`FairSpec` of `DaemonExit` assumes that time passes (`Tick`), that the idle watch goes
its rounds, and that whoever is on the way out goes on (a task that is ready is
polled, a lock is handed on). Nothing makes a client, a signal or the machine do
anything.

`ChipSpec` of `CartChips` assumes that the clock moves and that a program goes on polling the
flash chip it waits for (`[]<>Polled`): a chip nobody touches does not catch up, and nobody can tell.

`FairSpec` of `BoundedRun` assumes that time passes, that the run loop iterates and that
handlers and waiters are served; of `TraceStore`, that builder threads and requests
under way go on. Nobody is assumed to ask for anything.

## What is proved

`DeltaRing_proofs` proves about `Spec`, for every set of ring sizes, burst and
bound:

- `TypeCorrect`: `[]TypeOK`. More is needed with it
  (`CountersAgree`: the heads of the slabs are what the log says, and the peaks
  are at least the heads), or `pop_newest` could leave the type.
- `KeptIsIntact`: `[]KeptIntact`. It is not inductive: whether a new write
  destroys an older one depends on where the windows of all retained instructions
  lie, so the invariant `IInv` adds `WindowsContiguous` (each window begins where
  the one before ends), and the writes of the instruction in flight, which
  `commit` makes retained ones, must already be intact (`FlightKept`). Both hold as
  long as nothing was undone that the slab no longer held (`overrun`). The
  arithmetic of the slabs is in one lemma, `SlotsDiffer`: two counts less than a
  slab apart have different slots.
- `ForwardWindowCorrect` and `NewestAlwaysReadable`: the two windows the ring
  reports are right, on the assumption that `write_start` does not wrap
  (`StartMod > MaxWriteHead`: the code keeps 32 bits of an unbounded count).
  `delta_ring_start_wrap` shows the assumption is needed; the theorems below make it too.
- `WhoWroteIsExact`: `[]WhoWroteExact`. The walk `who_wrote` makes stops exactly
  where the log says (`DepthIsReadable`, `WalkReadsHistory`), and from there on it is
  the same operator over the same sequence.
- `AnswersAreAlwaysHistory`: `[]AnswersAreHistory`, which adds `ReloadAnswersAlike` of the ring
  `from_dump` lays out again. The windows that can still be read lie end to end behind the
  slab's oldest write, so the writes a copy replays never exceed the slab they were read from
  (`CopyFits`): none replaces another, and each is where its entry says (`ReplayedIs`,
  `CopyReads`). What lies below the readable part reaches a copy without writes (`BelowIsEmpty`).
  A copy can therefore be read to its end where the ring could not, and still names nobody
  more (`WritersOfPart`). The place at which an entry's writes begin is a recursive function;
  that it exists is `StartInIs`.
- `RingIsUndoStack`: the ring implements `UndoStack`, initial states and every step, a stack
  being the newest `Depth` entries of the log (`StackIs`). `Depth` is a maximum, so each
  action is a lemma of what becomes of it: a commit pushes one and may cost older ones
  (`CommitStack`), a pop takes the newest away and brings none back (`PopStack`, with
  `HeldShrinks`), and the rest leave it as it is or empty it. It needs that an instruction in flight
  has written no more than `MaxBurst` (`BurstBounded`).
- `OnsetIsEvident`: `OnsetIsTightLoop`, of the loop detector. While there is a candidate, from some
  position of the trace on nothing has run outside a set of at most `Window + 1` addresses that has
  those looked at in it, and the anchor has run more often than the rounds counted (`Circling`).
  The first repeat starts it (`CirclingBegins`), an instruction already looked at keeps it
  (`CirclingOn`), any other drops the candidate, and with enough rounds it is the evidence
  (`CirclingIsCircled`).
- `LoopsArePinned`: `[]LoopIsPinned`. `LoopInv` follows every loop of the trace: after `x` it goes
  round `n` distinct addresses (`Looping`). The candidate is dropped at a fresh `x` (`LoopBegins`);
  from there on its anchor is one of the loop's addresses and ran within the last `n`
  instructions, counted on every way round but the first (`Chased`, `LoopIsFollowed`); once round,
  every instruction is one looked at (`RoundIsLookedAt`), so that there is a candidate and its
  entry ran before the loop (`Enters`, `EntryStaysOutside`). That the last round of a loop has
  distinct addresses says the same of every stretch as long (`LoopsOverIs`). The proof showed that
  it is not enough to enter the loop from an address that has left the window: `Unseen`.

The same module proves about `ReverseDebug`, for every memory, set of instructions, I/O area
and step size:

- `MachineRingIsARing`: whatever the machine does, its ring makes steps of `DeltaRing`
  only. All that is proved of the ring holds of the machine's.
- `ReverseIsExact`: `ReverseExact`. That an undo is exact says nothing of the states in between
  from which it is made, so it needs `MachineInv`: as long as nothing was popped that the slabs
  no longer hold, the newest entries of the log are the instructions of the timeline
  (`TimelineInLog`), each with the memory it found, and its writes lead from that memory to the
  one it left and back (`LeadBothWays`). A store keeps this (`StoreLeads`) since the old byte is
  read before the new one lands; DMA, which no entry knows of, taints its address.
- `WhoWroteIsRight`: `[]WhoWroteExplainsRam`, from the same invariant: an address no later
  instruction wrote is passed on unchanged from its last writer to now
  (`NearestWriterExplains`).

`DiskPersist_proofs` and `CartPersist_proofs` prove, for every set of files and
contents and any number of failures and generations, type correctness and the safety
properties the runs check: `NoWriteIsForgotten`, `DaemonExitSaves`,
`DisksLeaveSaved`, `NoFlashIsForgotten`, `DaemonExitSavesCart`, `CartsLeaveSaved`.
What a write to the host does is in a lemma of each
(`WriteOutcome`). `NoWriteForgotten` needs one more conjunct to be inductive: the
registry is empty while the machine is on (`RegistryWhenOff`), or a power-off would
overwrite what it holds. `NoFlashForgotten` needs that, that a `cart_ap_done_gen` of
the present cartridge is never ahead of it (`DoneIsBehind`), or the next write
could meet it and be taken for done, and that a cartridge never written to is as its
file (`CleanIsSaved`), since the doors skip it. It sets aside a cartridge at a generation that was
written for another (`LooksDone`): the writer forgets that one, and no theorem says otherwise.

`CartPersist_proofs` proves about the chips of `CartChips`, for every size of the serial EEPROM,
and for every layout of sectors, time of an erase and lateness of an alarm of the flash:

- `FramesAreAlwaysObeyed`: `FramesAreObeyed`. The chip knows a frame only by a shift register and
  a command it recognised at the third, the fifth and the last bits; the invariant (`SerialInv`)
  says that these two are those of the frame a program has clocked so far (`Follows`), as long
  as the select line cut none, and that a chip gives bits exactly after a whole read. One lemma
  has the cases of a bit shifted in, by the length it makes (`ShiftInObeys`).
- `ReadsAreAlwaysStored`: `[]ReadsAreStored`. A chip that gives its first bit holds the word it was
  asked for, and one bit on it holds one bit less of that word or the whole of the next; the
  invariant (`ReadInv`) says which bits of the array it still holds after `k` (`Gives`),
  `k` being counted round the array. That counting one bit on, within a byte, over its end and over
  the array's end, is one step of one count is arithmetic (`NextBit`). A frame cut short may
  leave any command behind but keeps the array its size (`ArrayKept`), and the number a row of
  bits makes, a recursive function, is one (`NumberIsNat`).
- `ErasesAreAsNamed`: `EraseOnlyNamed`. What the chip has still to erase is what was named, in the
  states of an erase alone (`ErasesNamed`); an alarm step keeps that (`FireIsLater`), and so do
  as many as a catch-up makes up for (`CatchUpIsLater`). The function `CatchUp` defines by recursion
  exists, and is the sequence of its steps (`CatchUpSteps`).
- `LateIsAsOnTime`: `LateIsOnTime`, the refinement of `FlashAlarm`. A step made up for before a
  cycle or after it leaves the same chip (`FireWaits`), because each sets the next off the time it
  was due itself. Every step lowers a measure of what is left (`Left`), which the guard on the
  steps of one catch-up exceeds, so that nothing is due after it (`StepsEnd`); a cycle is then a
  cycle of the chip on time (`CatchUpWaits`), and a store to or a read of a chip with nothing due
  leaves nothing due (`StoreRests`). The guard is assumed to allow a step for each sector and two
  more: the code allows 256, and the largest of its chips has 135 sectors.

`CheckpointRing_proofs` proves, for any windows, sizes and media:

- `CapAlwaysDecides`: `[]CapDecides`. The budget only grows, so the invariant
  (`LimitsOK`) says whose budget it is: that of the largest window ever asked for,
  and the slots are at least that many. That dividing the budget by an anchor's size
  never rounds below the window is `BudgetSlots`.
- `SlotsAreAccounted` and `PoolIsExact`: the free slots and the reference counts are
  those of the anchors held (`AnchorsOK`: a finite set below `seq`). Each removal is
  one step `Shrinks` of a set of anchors, so evictions, truncations and window changes
  share their proof. The ring is assumed to have finitely many slots for media.
- `PinsAreKept`: `PinsSurvive`.

`StreamHubs_proofs` proves, for any clients, models, clock and number of rebuilds:

- `LocksNeverCross`: `[]NoStandoff`, since only an iteration holds the `State` from one
  step to the next (`StateLockHeld`) and asks for nothing while it does.
- `HookIsKept`: `[]HookFollowsConsumer`, with the generation the loop remembers never
  ahead of the machine's (`HookKnown`), so that a rebuilt machine is told apart.
- `HelloIsKept`: `[]HelloIsCurrent`, from greeting to leaving (`HelloKept`).
- `PausedPictureArrives`: `[]PausedClientSeesMachine`. It needs where everyone stands: the
  lock of a client being greeted (`HubOK`), the frame the loop carries (`LoopOK`), that
  clock 0 means a reset machine (`MachineOK`), and of `NothingForgotten` that what each
  watcher was last sent is a picture of the machine as it stands, unless the loop
  owes one.

`DaemonExit_proofs` proves, for any clients, window and promises:

- `ExitComesAfterWork`: `[]ExitAfterWork`, from what each door knows of the guard
  (`Guarded`).
- `ExitLosesNothing`: `[]NothingLostByExit`, from `StillOrMoved`: what the exit work
  saved stays saved as long as nobody, client or loop, sets the machine going again.
- `IdleExitOnlyWhenIdle`: `IdleExitIsJust`. The decision comes three steps after the round
  looked, so the invariant carries what the round knew (`RoundTrue`) and that the
  clock is never ahead of the quiet time (`ClockTrue`).

`FlightRecorder_proofs` proves, for any slab, sizes, disks and number of versions kept:

- `AnchorsStayIntact`: `[]AnchorsIntact`. An entry's bytes are intact as long as its
  beginning is less than a slab behind the frontier (`InPlace`), and since no record
  straddles the slab's end (`StartFits`) the bytes of the next one fall into positions
  of their own (`PositionsDiffer`).
- `DumpsAreOfTheirMoment`: `[]DumpIsOfItsMoment`. The versions kept are the last
  generations without a gap (`VersionsOK`), and no entry's generation has another disk
  (`EntriesOK`).

and about `TraceStore`, of which `Recordings` takes an instance (`Traces`):

- `RunsAreInTheirFiles`: `[]RunIsInFile`. A spill, whichever way it ends, keeps the spilled frames
  followed by the pending ones the same sequence and counts them right, unless it says it tore
  something (`SpillKeeps`); what a step records (`PendingIsNext`) or an end adds
  (`HeadedIsWhole`) is the next of the run's frames; and a trace changes no file but its
  path's, which is no other live run's (`OthersKeep`).
- `WaitedIndexesAreWhole`: `WaitedIndexIsWhole`. That a store has all of a run when its stop
  answers rests on what was true while the run recorded: nobody had an index of its path, and
  nobody was building one (`IndexFollowsRun`). So whoever builds it opens the file after its
  last write, and holds a prefix of it from then on (`TakesInFile`). A build under way is the
  one its path is registered for (`RequestsKnown`), which is how a stop or a reader
  finds it.

`RewindTransport_proofs` proves, for any clients, windows and bounds:

- `TransportAlwaysTells`: `[]TransportTells`, and `OneTimelineIsKept`:
  `[]TransportKeepsOneTimeline`. The invariant (`IInv`) is both of them together with the order
  of anchors by their ids (`IdsAscend`): a cursor names its anchor by id, and
  whether an eviction or a cut takes it away depends on where it stands among the others. The
  ring after any capture, eviction or cut is a stretch of the ring before
  (`Segment`), which keeps order and timeline; that is proved once (`SegmentInOrder`).

and about `BoundedRun`, of which it takes an instance (`Bounded`):

- `RunsEndAsAsked`: `[]EndsAsAsked`, of the pace a run found; one chosen during the run is lost.
  A pace to be given back is owed exactly while a cap is armed
  (`PaceIsOwed`); what an advance does to the cap in pieces, of frames or warp batches, is one
  piece of arithmetic (`CapArithmetic`, `AdvanceSound`).
- `ReleaseIsAlwaysJust`: `ReleaseIsJust`, for a loop that iterates in every tick (`~Stalls`); with
  stalls it is false (see the table above). Its invariant says how long an agent can have been
  silent while its run advances or its request is in hand (`AgentIsThere`), and that a
  stop that leaves a cap armed is remembered (`StopsAreKnown`).

Where a run checks a conjunction, a theorem of its own states it: `WindowsAreAlwaysTrue`,
`NothingEverLeaks`, `NoWriteIsLost`, `NoFlashIsLost`, `ClientsStayCurrent`, `ExitStaysClean`.

The assumptions are those the modules declare for their constants. TLC has checked each inductive
invariant at the bounds of its run before it was proved.

Every safety property and every refinement the runs check is stated by a theorem. What is only
model-checked is liveness (`PlaybackEnds`, `LazyWriteArrivesFresh`, `FlashArrivesFresh`,
`IdleDaemonEnds`, `BusyEnds`, `OwnerGoesBack`, `WaitedRunAnswers`, `StoppedTraceIsIndexed`), which is
beyond the prover. Where a proof needs the first or the last of some numbers, it takes it from
well-foundedness (`LeastElement`, `GreatestElement`) in the place of an induction, and where it
counts up to a bound, the same (`Counting`). The type invariants that no theorem states are there
to be run by hand.

## What is left out

`RewindTransport` leaves pins, marks and `then=run` to `CheckpointRing`. It has no
stepping over a breakpoint on resume, no power-off or reset verbs, no
`session/close`, no wait in `session/tick`, no `debug/continue` with breakpoints,
and no keys or joystick: those do not truncate a rewound timeline although
`main.rs:16401-16402` counts them among what does. A change from the monitor counts
as a moment but takes no time. Its requests and frames are bounded, so it really
may stop: `CHECK_DEADLOCK FALSE`.

`ReverseDebug` has no interrupts, no banking and no REU: each is an instruction or
a DMA write with other bytes. `LoopOnset` has no program: any sequence of PCs is
one. `CheckpointRing`'s payload is its pooled images.

`DiskPersist` and `CartPersist` leave out checkpoint restores that bring a medium's
old contents back, read-only disks, the other drive position, mappers that cannot be
saved, files torn by a crash in the middle of a write, and power-ons that fail. A
daemon that has exited stops: `CHECK_DEADLOCK FALSE`.

`StreamHubs` leaves out the bytes of frames and audio, the notification hub's own
lock (only ever taken last), and pacing. `DaemonExit` leaves out the embedded host,
which never ends the process, and Windows' console events; what the exit work saves
is a flag there, and itself in `DiskPersist` and `CartPersist`. `FlightRecorder` leaves
out seeking by cycle, and a cartridge as a medium, which the daemon never ships.
`Flash040` leaves out the monitor's `peek` and the clock bit of a failed program's status.

`BoundedRun` leaves out the transport (in `RewindTransport`), restores, power, the waits of
`debug/continue` and `session/tick`, and stepping past a breakpoint on resume. `TraceStore`
leaves out `trace/build_from_ring` and the monitor's `buildtrace` (`main.rs:5548`), which write
a `.c64retrace` of their own out of the undo ring in one go and leave its index to its first
reader; what an event is, the tables and queries of the store, and the staleness check, which is
off by default; recordings, failures and builds are bounded, so it may stop: `CHECK_DEADLOCK
FALSE`. `M93C86` leaves out the bank and mode bits of the register, snapshots, and the monitor's
`peek`, which does not clock the chip. It has the ready status a program polls, and no property
of it: the erase of one word never gives one (`m93c86.rs:161`), all other stores do.

`CartPersist` is about a mapper with an image to save. GMod2, MegaByter and C64MegaCart
say they persist (`cart.rs:1974`) but have none (the default `crt_image`, `cart.rs:528`):
nothing of theirs reaches the host.

Most of the repository's lines are not here. The cores and chips (CPU, VIC-II, CIA,
VIA, SID, the drives' second CPU, rotation and bit cells) are cycle-exact ports
which the repository's tests compare with VICE cycle by cycle: their
state is registers whose every value matters, and a model of them would be the
same table in another notation. Parsing, formatting, disassembly and encoding have
no states to order. The IEC handshake's other half is 6502 code. The SPI
flash and the controller's command machine (`wd177x.rs`) could be modelled and are not yet.

## Plan

1. `UndoStack`, `DeltaRing`, `DeltaRing_proofs`: done.
2. `RingQueries`, `RingReload`, `ReverseDebug` and their proofs: done.
3. `LoopOnset` and its proofs: done.
4. `CheckpointRing` and its proofs: done. To add: the payload the anchors hold
   besides pooled images.
5. `RewindTransport`, `BoundedRun` and their proofs: done.
6. `MediaHost`, `DiskPersist`, `CartPersist` and their proofs: done. To add: restores
   of a checkpoint's media.
7. `StreamHubs`, `DaemonExit` and their proofs: done.
8. `FlightRecorder`, `FlashChip`, `FlashAlarm`, `Flash040` and their proofs: done.
9. `TraceStore`, `M93C86` and their proofs: done.
10. Remaining devices with command state machines: `WD177x`, the SPI flash.
