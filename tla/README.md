# Spec-Chum, modelled in TLA+

Spec-Chum is a ZX Spectrum emulator in Rust: emulated machines (48K to +3, Timex,
ZX Spectrum Next), a host session that owns one of them, an agent debug API over
HTTP and WebSocket, and several front ends. This directory holds TLA+ modules of
its control logic, the TLC runs that check them on small instances, and proofs of
their main properties for every value of their constants.

Pixels, audio samples, instruction semantics and file layouts are data here and
are left out, except where they carry control: the blocks of a tape file, the
sectors of a disk. What is kept is control: which call may change what, in which order,
under which lock, and what survives a failure, a reset or a replaced machine.
Paths below are relative to the repository root.

## The system

### Components

| Component | State | Operations | Must hold |
|---|---|---|---|
| **Breakpoint event hub** `crates/agent_server/src/routes/events.rs` | `EventState` (next sequence, `last_seen_id`, `last_event`) behind an async mutex; a tokio broadcast channel of 32 messages; the `unavailable` latch; one task per WebSocket client | subscribe, monitor poll every 100 ms, publish, receive, close | a sequence names one stop; no stop is skipped silently; each client sees stops once and in order; a lost machine or a lag closes the connection |
| **Debugger and run control** `crates/machine/src/debugger.rs`, the loops in `crates/machine/src/lib.rs`, run control in `crates/host_api/src/session.rs` | PC breakpoints, watches, pause flag, last reason, one-time skip, journal of 128 stops, a process-wide identity counter | `check_pc`, frame, step, debug step, run-until, continue, pause, edit, reset, replace | a stop reason has its record; Continue passes its breakpoint; a paused guest stays; run-until reports its own stop |
| **Next CTC** `crates/bus/src/next_ctc.rs`, acknowledgement in `crates/bus/src/next.rs` and `crates/machine/src/next.rs` | four channels (mode, constant, counter, prescaler, request, in service), status bits, IM2 mode | port writes, `advance_to`, tick and cascade, NextReg `$C0/$C5/$C9`, acknowledge, RETI, reset | counters stay in range; a request is pollable; service nests; event skipping loses no tick |
| **Tape titles** `crates/host_api/src/session/media_title.rs`, `media_title_lookup.rs`, `crates/formats/src/media_identity.rs` | identity of the tape (file, digest, title, source), generation, a one-place inbox, one thread per lookup, a JSON cache on disk | open, eject, replace the machine, spawn a lookup, read/extend/rename the cache, deliver, apply | the title shown is that of the tape in the deck; a better title stays; the cache survives failures and restarts |
| **Host session** `crates/host_api/src/session.rs` and beside it | runtime (none, classic, Next), model, paths, input, preferences | select/activate model, load snapshot/tape/disk, boot Next, hold keys | the machine is of the selected model, also after a failed change; held input is lost to no reset, load or change of model but a dock's |
| **Control plane** `crates/control_plane/src/service.rs` | session and preferences behind two mutexes | every agent operation | fixed lock order; no stale preference wins; what took effect is answered so |
| **Agent server and clients** `crates/agent_server`, `agent_client`, `debug_cli` | token, routes | parsing and forwarding | one operation per request |
| **Frame loop and CPU** `crates/machine/src/lib.rs`, `crates/z80` | registers, IFF, T-states | frames, instructions, INT/NMI | interrupts taken once, frames end |
| **Tape deck** `crates/tape`, `crates/machine/src/tape_state.rs`, `open_tape` in `crates/host_api/src/session.rs` | pulse schedule, block cursor, play state, loading mode, pending Experience load; a reader while a TZX file is expanded | open, play, pause, rewind, eject, options, frame, step, trap, reset | a pending load reaches the caller that asked for it; expanding a file ends; the signal is what the blocks say |
| **Next hardware** `crates/bus/src/next*.rs` | DMA, Copper, SD card; sprites, video layers, memory map | ports and NextRegs, `advance` by the machine's step and frame | a byte of a block is moved once; the list of the Copper runs in order and its MOVEs show where the beam was; sectors change only by writes |
| **Classic peripherals** `crates/bus/src` | Beta Disk controller, +3 disk ports, DivMMC card; paging latches, Multiface, automap, Interface 1 | port and memory hooks | status asks only for what the interface has; a command ends; a paging lock holds until reset |
| **ULA** `crates/ula`, screen writes and `#7FFD` in `crates/bus/src/lib.rs` and `plus3.rs` | bytes overwritten behind the beam, journals of border and screen bank, a switch that waits for the next frame; snow, contention | memory and port writes of the guest, begin of a frame, render, reset, snapshot | the picture drawn after the frame is the one the beam saw |
| **Formats and FDC** `crates/formats` | controller phase, sectors of a DSK or TRD image | parse, µPD765 commands | phases in order; a transfer meets the sector it named |
| **Trace ring** `crates/trace` | bounded ring | push, drain | newest kept |
| **Front ends** `crates/app`, `living_room`, shells, `libretro_core`, `apps/` | windows, audio rings, frame images; the egui host shares its session with an embedded server | present, feed audio, load, hold keys | rings bounded; loads in several critical sections stay whole |

### Interaction

```
 front ends          agent server routes ---- event hub (monitor task, client tasks)
     \                      |                        |
      \---- ControlPlane ---+------------------------+   locks: session, preferences
                 |
            HostSession  -- inbox -- lookup threads -- title cache on disk
                 |
       Machine / NextMachine -- Debugger, CPU, bus, tape deck,
                                disk and card interfaces, CTC, DMA, Copper
```

Every operation on a machine takes the session mutex, so machine calls do not
overlap. Interleaving arises between calls: the monitor and the clients observe
the session between other people's calls, the hub holds its own mutex across
several of them, title lookups finish on threads of their own, and preferences
have a second mutex. Inside one machine the difficulty is sequence instead: flags
armed in one call and consumed in another (`skip_pc_once`, `last_hit`,
`expect_constant`, an Experience load, a byte announced by a controller) while resets, patches and replacements
come in between. Nothing is written to disk that a restart must recover, except
preferences, media and the title cache. `hazards` in `PROJECT.json` lists the
places one by one with the properties that cover them.

## The modules

| Module | Is |
|---|---|
| `StopJournal` | abstract: what one observation of a session shows of its PC stops |
| `BreakpointStream` | abstract: what `docs/AGENT_DEBUG_API.md` promises a WebSocket client |
| `BreakpointEvents` | the hub, its monitor and its clients, over `StopJournal`; implements `BreakpointStream` |
| `BreakpointEventsInv` | its inductive invariant, shared by TLC and the proofs |
| `Debugger` | the debugger, its loops, run control; implements `StopJournal` |
| `NextCtc` | the CTC and its interrupt chain |
| `TapeTitles` | the identity of the tape, its lookup threads, their inbox and the cache file they share |
| `HostSession` | models, machines, snapshots, options and input of a session, as functions of the session; no variables |
| `ControlPlane` | the agent API's operations on a session and its preferences, under their two mutexes, and the egui host beside them |
| `TapeWaveform` | pulses of a tape signal, as functions of the schedule built so far |
| `TzxFile` | the TZX reader, its conversion to a TAP image and the TZX player, over `TapeWaveform` |
| `TapeDeck` | opening files, the TAP player, the loading modes, frames and steps, over `TzxFile` |
| `SectorDrive` | abstract: what a disk or card interface promises about the medium in it |
| `BetaDisk`, `Plus3Fdc`, `DivMmcCard`, `NextSdCard` | four such interfaces; each implements `SectorDrive` |
| `NextDma` | the DMA, its bus and the machine's step |
| `NextCopper` | the Copper, the video history and the frame of the Next |
| `UlaPicture` | the ULA's notes on a frame of a 128-class machine, the picture drawn from them and a beam that watches |
| `UlaPictureInv` | its inductive invariant |
| `Peripherals` | a board with the four drives and the ULA, one attached, and what they promise |
| `MCBreakpointEvents`, `MCDebugger`, `MCNextBoard` (CTC, DMA, Copper), `MCTapeTitles`, `MCTapeDeck`, `MCPeripherals`, `MCControlPlane` | instances for TLC |
| `BreakpointEvents_proofs`, `Debugger_proofs`, `NextCtc_proofs`, `NextBoard_proofs` (DMA, Copper), `TapeTitles_proofs`, `TapeDeck_proofs`, `Peripherals_proofs`, `ControlPlane_proofs` | theorems |

`StopJournal` is the seam. The hub reads a session only through
`HostSession::pc_breakpoint_observation` (retained stops newer than a cursor, the
latest identity, the active stop, or an error without a classic machine).
`StopJournal` states what that may show and how it may change; the run `debugger`
checks that the debugger, driven by every call, does just that
(`ImplementsJournal`); `BreakpointEvents` is built on top of it by EXTENDS. So the
hub is checked against everything a debugger can do without running one.

Some operators carry the comment "Mutated form of ...". They are plausible
mistakes in the operator below them, part of no specification; each property is
shown to fail when one of them takes the place of the real definition.

### BreakpointEvents

| Code | Model |
|---|---|
| `EventState.next_sequence`, `last_seen_id`, `last_event` | `sequence`, `lastSeen`, `lastEvent` |
| the hub's mutex, held across awaits | `holder`; `pending` and `latestId` are the holder's local observation |
| `start_monitor`'s loop | `Tick`, `MonitorObserves`, `MonitorFindsNoMachine`, `Publish`, `MonitorUnlocks`, `PollSucceeded`, `PollFailed` |
| loop of `observe_locked` | `Publish`, one stop per step, because the machine runs on meanwhile |
| `subscribe` | `SubscribeFirst` (nobody connected: skip the backlog, show the current stop), `SubscribeNext` and `SubscribeSnapshot` (publish first, observe again, choose a snapshot), `SubscribeRefused`, `SubscribeAborted` |
| `watch_breakpoints` | `ReceiveEvent`, `ReceiveAndFail` (lag or Unavailable), `Leave` |
| tokio broadcast channel | `queue` per receiver; length above `ChannelCap` means lagged |

A stop is its process-wide identity. Sequences are kept with the stops they were
given to in the history variable `numbered`; `got`, `events` (which counts what was
delivered, so that a repeated message is visible), `base`, `dropped` are histories too
and no guard reads them.

### Debugger

`op` is the call that holds the session lock with what is left of its budget; a
loop iteration is an action, so that stops inside frames, steps and run-untils are
distinguished. The guest is abstract: an iteration leaves any program counter
behind and touches a watch or not. `Proceed` and `StopAtBreak` are the two
outcomes of `check_pc`; `ConsumeSkip` is its one-time skip. `StartStep` may ask for
several instructions, and does not look at the pause flag, as in the code;
`debug_step` and `run_until_break` do continue from a stop. Resets,
replacements, the Next runtime (which has only a pause flag) and patched
registers are included because they leave stale pieces of state.

### NextCtc

A channel is a record with the fields of the code's struct; words are records of
control bits. `advance_to`'s loop body is `AdvanceTurn`, one jump of the clock, and
nothing else happens while `elapsed` is positive. `tick`'s work queue is modelled
by the closed form `Cascade`, the set of channels reached around the ring;
`MCNextBoard` writes the queue out, as a recursive function with a turn for each place of its
array, and compares them on a ring of its own size. `nest` is a history of
acknowledgements. The output flag, which nothing reads, is left out, and port
decoding is reduced to the channel number.

### TapeTitles

| Code | Model |
|---|---|
| `media_title`, `media_sha512`, `media_title_source`, `media_path` | `identity` (the digest is that of the file) |
| `media_title_generation`, `online_tape_titles` | `generation`, `online` |
| `pending_media_title`, an `Arc<Mutex<Option<..>>>` | `inbox` |
| the thread of `maybe_spawn_online_lookup` | `lookup[g]`, keyed by the generation that started it |
| `cache_get`, the request, `cache_put`, the delivery | one action per file operation, request and delivery |
| `zxinfo-titles.json`, `zxinfo-titles.json.tmp` | `cacheFile`, `tmpFile`: absent, blank, torn, or whole with the digests it lists |

Session operations hold the session's mutex and are one action each. Those that
drop a machine come in two kinds, because the code has two: `ReplaceMachine` keeps the
identity (the title is then hidden by `has_tape` alone), `ReplaceAndClear` clears it.
A title is a file name, a catalogue entry or the service's title for a digest.

The lookups all write one temporary name. A lookup therefore remembers what its open
file is called now (`fd`): another lookup's rename turns its "tmp" into the "cache"
file itself, a second one unlinks it, and it writes on wherever its file went. A write
over a file that another lookup has filled may leave the end of a longer document, hence
`Written`. Any step of `cache_put` may fail; `Restart` ends the process between any two
steps and keeps only the disk. `overlapped` is a history: two lookups were in `cache_put`
together.

### TapeWaveform, TzxFile and TapeDeck

| Code | Model |
|---|---|
| `waveform.rs`: a schedule under construction, with `level` and the forced low edge | the record `wave`; `PushPulse`, `PushPilot`, ... are functions of it |
| `TzxPlayer::parse` with its local variables | the record `reader`, `ReadStep` for a turn of its loop |
| the loop of `TzxPlayer::advance` | `PlayTurn` for a turn of it, `PlayFor` for all |
| `is_standard_speed_only`, `to_tap_image` | `OpensAsTap`, `ToTapImage` |
| `TapPlayer`, `TzxPlayer`, no tape | `deck`, with `kind` "tap", "tzx", "none" |
| `TapeLoadOptions` | `options`; `Normalized` is what the session makes of a request |
| `run_frame` and the inner frames it runs while a tape plays fast | `burst` |
| `try_flash_load_48` and its 128 and +3 forms | `FlashLoad`; `Evaluate` is `evaluate_ld_bytes_trap` |
| `hold_ld_bytes_until_play` | `Hold` in the guard of `Instruction` and `FlashLoad` |
| `tick_experience_cosmetic_paint`, `complete_experience_pending_flash` | `Paint`, `Complete` |

There are three ways to load. EAR plays the schedule while the ROM listens. Instant
answers the ROM's LD-BYTES with the next block at once. Experience takes the block at
once and delivers it some frames later: until then the guest is held at LD-BYTES. In
between come all the operations of the host, which know nothing of it. The guest is its
place in this: elsewhere, at the trap address with a request, or in the ROM's edge loop.
`stray` is a history: a reset, a snapshot or a register patch has taken the guest away
while a load was pending, in which case the block is poked into whatever is there.

A tape block is its kind, length and what a request distinguishes; a byte stands for one
bit, so that the number of data pulses stays even, and pilots keep the parity they have
in the ROM's format. The reader's `order` and `turns` are histories of the blocks played
and the turns taken.

### SectorDrive and the four drives

`SectorDrive` is what a driver relies on. A medium is a function from places to sectors;
a read hands out the bytes of one sector as they were when it began; a write takes bytes
and the sector it names becomes just these; nothing else on a medium changes, a format
aside. It may be given up or moved to another place (the guest writes the track register
in the middle). Three parameters say where interfaces differ: `Follows`, the places at
which a multi-sector transfer may go on; `Lenient`, that places outside the medium are
transferred into nothing; `InPlace`, that a byte is on the medium at once (the DivMMC).
Each drive defines the `job` of its own state (which transfer is under way, what is
still to come) and instantiates `SectorDrive` with it.

`BetaDisk` is the VG93 with its latch. A command runs to its first byte or to its end
while it is written, as in the code, which has no timing; the index pulse is left out.
`Plus3Fdc` is the µPD765 with command, execution and result phase, on images whose
tracks have sectors in any order and with repeated names. `DivMmcCard` and `NextSdCard`
are SPI protocols that move by one byte per exchange; the latter's read token may come
early by the time that has passed. An argument is told when the card looks at it.

`Peripherals` puts the four on one board with the ULA. They share no state, so a behaviour
is that of the one that is `attached` while the others rest; the promises are those of all.
The bytes that a guest writes to the Beta Disk are told by what its controller looks for
(`HostBytes`, by the names of `Due`): a track to write is a string of marks,
identifications and data, and an instance that let every byte stand at every place would hardly ever
write a sector of it.

### NextDma

What is moved (data, direction, the two kinds of endpoints) is left out; when it is moved
and what the guest reads back are kept. A write to port A's or B's address is a
parameter byte, a command a record of the parameters it announces. The bus plays a
*continuous* transfer at once and charges its time to the instruction (`BulkByte`); a
*burst* with a prescaler waits for its time (`BurstByte`), possibly within the next
instruction. A transfer that writes to the DMA's own port has no effect there: the bus
takes the controller out while it moves. `block`, `moved`, `last` are histories: bytes
the guest loaded, bytes moved of them, time of the last one.

### NextCopper

`Turn` is a turn of the loop of `advance` and `Run` the loop, from the clocks already run to
a target, with the trail of the instructions that ran; `AdvanceCopper` then waits for the target. The
loop ends: each turn but the last takes a clock, so `MostTurns` are enough, and the turns left over
change nothing. `Moves` makes the MOVEs of the trail after the batch, as `step_once` does. `StepOnce` and `RunFrame` are the machine's two ways
to run it, with the cap of the Copper's time at the end of a frame; the history of video
changes by line is the code's, and `PictureShowsItsMoves` compares the rendered rows with
`writes`, a history of the MOVEs by time, as `ran` is one of the instructions. One video register stands for the
palettes, offsets and windows that the code treats alike. `CopperConstants` asks for more than two clocks per T-state
(the code has eight): then no MOVE ends exactly on the boundary of a frame. An instruction of the guest takes a T-state at least
(`CopperShapes`): at 28 MHz the code also has steps that end in the T-state they began in.

### UlaPicture

| Code | Model |
|---|---|
| `banks[5]`, `banks[7]` of `Bus128` and `BusPlus3` | `banks` |
| `page` bit 3 and `locked` | `port` |
| `Ula48`: `border_events`, `screen_events`, `display_screen_bank`, `beam`, `beam_last_t` | `ula` |
| `pending_screen_switch` | the variable of that name |
| `run_one_frame`: before its loop, a turn of it, a stop in it | `StartFrame`, `RunInstruction`, `Break` |
| `step_once`, `reset`, `apply_snapshot128` | `StepOnce`, `Reset`, `ApplySnapshot128` |
| `render_rgba_timed_mode` | `Rendered`, of one byte or border point |

The emulator does not draw while it runs. At the end of a frame it renders the screen
memory as it then is, corrected by notes: the first byte overwritten in a cell after the beam has
passed it, and the times of border and bank changes. `scan.seen` is a history of
a beam that looks at memory, border and selected bank while the guest runs, at the
times `paper_fetch_tstate` names. `PictureIsWhatTheBeamSaw` compares the two.

An instruction is its length and the time of at most one access; the second byte of a PUSH
is an instruction of its own. `bus.border` and `ula.border` are always written
together and are one variable. The 48K machine is the case without `OUT (#7FFD)`. A write that an overlay
(Multiface, DivMMC) catches is no access. Snow, flash, contention and the cosmetic
stripes of an Experience load are left out, as is what a byte looks like.

`scan.whole` and `scan.parted` name the frames in which the code does not keep the
picture; see the disagreements below. The property is about all others.

### HostSession and ControlPlane

| Code | Model |
|---|---|
| `HostSession`: runtime, model, joystick mode and state, `host_keys` | the record `session` |
| what the hardware of a `Machine` or `NextMachine` sees | `session.machine`: `matrix`, `port`, `options`, `snapshot`, `rzx` |
| `ControlPlane.inner`, `ControlPlane.prefs` (mutexes) | `lock["session"]`, `lock["prefs"]` |
| `SessionPrefs` | `prefs`: joystick mode and tape options |
| `with_machine_load` (model, ROM, configuration, snapshot) | `Load`, `ClonePrefs`, `Apply`, `Fail` |
| `patch_prefs` | `PatchFirst`, `PatchSecond`, `Update`, then `Apply` |
| keys, stick, reset, Timex dock, tape options, recordings, `LOAD ""` | `Input`, `Dock`, `SetOptions`, `Rzx`, `RzxWithoutSnapshot`, `RzxFrame`, `TypeLoad` |
| `app/src/session.rs`: every access locks anew | `gui`, with one action per critical section |

A call of `HostSession` maps a session to a session and an answer. A critical section
that takes no second mutex is one action; those of `with_machine_load` and
`patch_prefs` are cut where the second mutex is taken or released, and `call[c]` says
how far thread c has come. ROMs and Next assets are files, and may be missing or found
anew at each boot (`found`). A key is held by the session (`keys`), by the stick in its
present mode (`StickKeys`) or by both: that is why `recompose_input` exists.

`driven` tells input that the session composed from input that someone else put in
the matrix (a recording, typed keys, the egui window) and from a matrix that a dock's reset has emptied. `foreign` is true once someone else than the
preferences has set mode or options, which is allowed, until the next time preferences
are applied to a machine. `mixed` records that the egui host has given a snapshot to another model's
machine: between `ensure_snapshot_model` and the application of the snapshot the mutex
is free. No guard reads these three.

The session's machine has two resets. `HostSession::reset` composes the held input again
(`Reset`); the one inside `insert_timex_dock` and `eject_timex_dock`, on a TS2068, clears
matrix, Kempston port and recording and leaves it at that (`Dock`, also the egui window's, which
locks once). A request for another model, or with a file that is no dock image, changes nothing.
For the deck and the debugger both are the same `Machine::reset`, the `Reset` of `TapeDeck` and `Debugger`.

The mouse preference, volume, mute, throttle and instant tape mode are left out, as are
chords of `POST /v1/keys` (several `set_key`), status texts and run control (in
`Debugger`).

## What the runs check

| Run | Instance | Properties | Result |
|---|---|---|---|
| `breakpoint_events` | 2 clients, history 2, channel 1, 3 stops | `SequenceNamesOneStop`, `NoSilentGap`, `ImplementsStream` | hold |
| `breakpoint_liveness` | 2 clients, history 1, channel 1, 2 stops | `EveryStopIsTold`, `FirstLossCloses` | hold |
| `unavailable_latch` | the same | `EveryLossCloses` | **violated** |
| `debugger` | 2 PCs, history 2, calls start below 3 stops, budgets up to 2 | `StopHasRecord`, `ImplementsJournal`, `NoRehitAfterContinue`, `PausedMeansStopped`, `RunUntilReportsItsOwnStop` | hold |
| `step_at_stop` | the same, budget 1 | `StepExecutes` | **violated** |
| `stale_stop` | the same, budget 1 | `CurrentStopIsWhereTheGuestIs` | **violated** |
| `next_board` | CTC: 2 channels, prescales 1 and 2, constant 2, and rings of 4 for the cascade; DMA: byte of 2 values, blocks of 0, 1, 3 bytes; Copper: 6 lists of 4 instructions, a frame of 2 lines of 3 T-states | `ChannelsCoherent`, `StatusCoversRequests`, `ServiceNests`, `SkippingIsExact`, `CascadeIsTheQueue`, `RequestsLeaveInOrder`; `BlockIsMovedOnce`, `BytesInTimeOrder`; `PictureShowsItsMoves`, `ListInOrder`, `BatchesDoNotMatter` | hold |
| `tape_titles` | 3 tapes (one in the catalogue), 2 generations | `TitleBelongsToTape`, `BetterTitleStays`, `LonePutKeepsCache`, `LoneHitIsShown` | hold |
| `tape` | 3 TAP and 7 TZX files, 2 requests, all modes; every file of up to 6 loop blocks and of up to 3 signal blocks | `LoadReachesItsCaller`, `WorkIsBounded`, `LoopsPlayTheirCount`, `SignalIsTheTape`, `ChunkingDoesNotMatter`, `HeldLoadEnds` | hold |
| `peripherals` | one of the four disk and card interfaces, with two media of one or two sectors of 1 or 2 bytes; or the ULA with 2 lines of a cell under one attribute in a frame of 16 T-states, 3 accesses a frame | `StatusIsTrue`, `DrivesKeepTheirMedia`, `ServedCommandsEnd`; `PictureIsWhatTheBeamSaw` | hold |
| `control_plane` | 2 callers and the egui host, 2 classic models (one with a dock) and the Next, 2 joystick modes, 1 key | `RuntimeMatchesModel`, `InputReachesMachine`, `PrefsInForce`, `SnapshotMeetsItsModel`, `NobodyWaitsInACircle` | hold |
| `next_selection` | the same | `DoneIsAnswered` | **violated** |

Types, and the hub's inductive invariant, are proved where there are proofs (below) and
therefore in no run. Deadlock is checked everywhere except in
`peripherals`: a drive without a medium, or whose guest has nothing to write, may have
nothing to do.

`ImplementsStream`, `ImplementsJournal` and `DrivesKeepTheirMedia` are refinements, the
last of all four drives. `ServedCommandsEnd` is a variant: every access that a driver
makes because the status asks for it leaves fewer to come. It is stated as an action
property since no guest is bound to serve a drive, so nothing is fair about it.

### Bounds, and why they are enough

- *Clients* 2: one that is connected and one that comes, leaves or lags; a third
  would interact with the hub exactly as the second. Clients are symmetric.
- *ChannelCap* 1 (code: 32) and *HistoryCap* 2 or 1 (code: 128), with *MaxHits* above both, so a
  channel lags and a journal drops its oldest stop within a behaviour. The
  proofs cover the real values.
- *MaxHits* is the only cap on a counter of the hub; sequences never outrun it.
  In `Debugger` it is in the guard of starting a call (`Begin`), never of an
  iteration, so a call that has begun always runs to its end.
- *PCs* 2: the breakpoint and elsewhere. Both may carry breakpoints.
- CTC prescales 1 and 2 (code: 16 and 256) and constant 2 (code: 256) keep all the
  boundaries: a prescale shorter and longer than the other channel's, a counter
  that overflows at once and one that counts, byte 0 for the largest constant.
  `MaxElapsed` lets one call play several turns. The proofs cover the real values.
- In `next_board`, channel 0 is a timer, a counter or reset and channel 1 a counter, an edge counter or
  a waiting timer: every mode pair that differs in the cascade. `CascadeIsTheQueue`
  takes every combination of eight kinds of channel in a ring of four: a cascade can
  pass through two counters, wrap, and meet another timed-out channel.
- Tapes 3: two that need a lookup and one that does not. *MaxGeneration* 2 (code: a
  64-bit counter) gives two lookups that run together, and any number one after the
  other, because a restart begins again. Three lookups together, the fewest for which an
  open file can be unlinked, are too many states; the proofs cover any number.
- CTC, DMA and Copper of `next_board` run one at a time: none of the properties is about
  two of them. The view takes the DMA's times relative to the instruction in
  progress; its guards and properties only compare differences of times.
- DMA: blocks of no byte, one byte and more than one, timings whose period is shorter
  and longer than an instruction, a prescaler that is there or is taken away. The proofs
  cover all. Copper: `CopperMaxTime` lets two frames and their boundary pass; lists wait in a
  line, past a line, past the frame, for no line, halt, wrap around, and reprogram the
  Copper.
- Tape: the caps of the reader (`MaxPulses`, `MaxBlocks`, `MaxReplays`, `MaxTransfers`) are
  reached by files of the instance, as is each kind of refusal. The files have every kind of
  block that transfers control. `LoopsPlayTheirCount` and `SignalIsTheTape` go over
  whole sets of files in the initial state.
- Drives: two places are the fewest with a wrong one, and two bytes the fewest with a
  middle. The interfaces have ports of their own and share nothing, so they run one at
  a time. The view drops fields that the code sets before it looks at them again (bytes
  handed out, a track's parser while no track is written, the status bits of an idle
  controller beside those a driver polls) and on which no property depends.
- ULA: two lines under one attribute, so that the beam has passed an attribute for one
  line and not for the next; three accesses from the begin of a frame are enough to overwrite a cell twice
  behind the beam and switch banks in between. Instructions may end
  beyond the frame, and a switch may fall into the next. The view forgets what a cell
  holds (its two values are alike, and a byte tells its bank) and keeps which points are
  wrong so far and which cells have a note; a run without a view, of the ULA
  alone, has 1.6 million states.
- *Callers* 2: one in a load and one in a patch, which is the pair that meets on the
  two mutexes; callers are symmetric. Models: a classic one, another, and the Next,
  so that every comparison of models has all outcomes. One key suffices because keys
  do not interact, if the stick presses the same key in one of the modes and none in
  the other. The proofs cover any number of each.

### Fairness

`FairSpec` is `Spec` with weak fairness of

- `MonitorStep`: the monitor is a spawned tokio task on an interval that never
  ends, and each of its steps only awaits the hub's mutex, whose holders never wait
  for it;
- `Publish`: the holder of the mutex is a running task without further awaits in
  that loop, and a broadcast `send` does not block;
- `Subscribed(c)` and `Receive(c)` of each client: the executor polls a task whose
  future is ready.

In `TapeTitles`, `FairSpec` is weak fairness of each lookup (a spawned thread; its
request has a timeout of four seconds and every file operation returns) and of
`ApplyPendingMediaTitle`, which every frame and every reader of the title calls.

In `TapeDeck`, `FairSpec` assumes that the reader is closed again and again, which is what
`open_tape` does before it lets go of the session (`WorkIsBounded` says that it can), and
strong fairness of `Frame`: a host that runs a session calls its frame function for ever,
but between two frames others may open files, when no frame can start.

No fairness is assumed of the guest, of drivers, of new clients, or of clients leaving.

### Disagreements between the code and its documentation

1. `unavailable_latch`. `docs/AGENT_DEBUG_API.md:308` says that the server closes
   a WebSocket with code 1011 if the debugger state becomes unavailable. The
   latch that makes the message unique (`events.rs:138`) is cleared only by a
   successful poll, and nobody polls while nobody is connected: a client that
   subscribes after one loss, and loses the machine again before the next
   tick, is told nothing. `FirstLossCloses` is the part of the promise that holds.
2. `step_at_stop`. `docs/AGENT_DEBUG_API.md:248`: "`step` executes one
   instruction". At a PC breakpoint stop `HostSession::step` (`session.rs:1417`)
   executes none, records the same stop again, and would do so for ever.
3. `stale_stop`. The same document (274-276) speaks of a machine that "is still
   paused at a PC breakpoint"; `current_pc_hit` (`debugger.rs:188`) looks at the
   pause flag and the last reason only, and reports an old stop after a step from a
   removed breakpoint, or after an unpause, some frames and a pause.
4. `next_selection`. `apply_prefs_to_session` (`service.rs:1219`) sets tape options
   on whatever machine there is. A Next machine refuses them, so `POST /v1/model` for
   the Next boots it and answers `UnsupportedNext`, `PATCH /v1/prefs` on one updates the
   preferences and the mode and answers the same. The native shells have the guard that is
   missing here, and `crates/host_api/src/prefs.rs:325` says why: tape options "apply only
   to a classic deck", and asking for them "would roll back a successful Next boot".

### Disagreements without a run

Met while modelling; the model has what the code does.

- `docs/MACOS_NATIVE.md:341`: "Pause / Play hold at LD-BYTES works in Experience mode". An
  Experience load that has begun is delivered whether or not the deck plays: the countdown
  in `crates/machine/src/lib.rs:1904-1929` does not look at it.
- `docs/TAPE_IDENTITY.md:64`: "On hit → update `HostSession::media_title`". The inbox
  has one place (`media_title.rs:129`): a late answer for the tape before may replace the answer
  for this one, and is then dropped. `LoneHitIsShown` is what holds.
- A truncated TZX file of standard blocks opens as a TAP image, although the comment at
  `crates/host_api/src/session.rs:648-651` says that parse errors are returned.
- A VERIFY in Instant mode moves IX to the end of the block (`machine/src/lib.rs:2044`), one
  in Experience mode does not (1952).
- A pause of 0 ms in a standard block is one second when `TzxPlayer::parse` plays it and one
  T-state in the image of `to_tap_image` (`tape/src/tzx.rs:1108`), although `tap.rs:8` takes
  0 for `PAUSE_T`.
- The µPD765 looks sectors up by the head in the command bytes on a one-sided disk
  (`crates/formats/src/fdc/sector.rs:169-172`): a write with head ≠ H ends well and is lost.
- The DivMMC's card answers `05h` (accepted) to a write past the end of its image
  (`bus/src/divmmc.rs:256`); the Next's card refuses it.
- The DMA's read sequence wraps with `read_mask & 1` in the place of the index bit
  (`next_dma.rs:212`): for a mask without the status bit, port B's high byte is returned
  for ever.
- A WAIT of the Copper that a STOP and a RESUME interrupt is skipped, and a WAIT past the
  frame in core-control mode has already gone back to the list's start.

- `crates/bus/src/lib.rs:688`: a delayed bank switch is "applied at the start of the next frame". Only
  `run_one_frame` applies it; `step_once` does not, and when a debugger steps across the
  frame's end a newer `OUT (#7FFD)` is overtaken by the one that waited.
- `Machine::reset` (`machine/src/lib.rs:419-459`) selects bank 5 and leaves the ULA of the bus, which shows it, as
  it is (it replaces a second copy that is never rendered). After a reset from a program that
  shows bank 7 the picture is of bank 7, until the guest selects 7 and then 5 again; an OUT or a snapshot
  that selects 5 changes nothing, since it compares with the port.
- The accesses of the instruction that crosses the frame's end are told to the ULA modulo the frame
  (`machine/src/memory.rs:156`): a screen write there clears the notes of the frame that is
  about to be drawn, and a border change is entered at its beginning.
- `paper_fetch_tstate` (`ula/src/lib.rs:528`) is said to match the fetches of floating bus and snow,
  which come in pairs of cells every 8 T-states; it takes one cell every 4.

## What is proved

Every theorem is proved for all values of the constants that satisfy the named
assumptions (`JournalAssumption`, `HubAssumption`, `DebuggerAssumption`,
`CtcAssumption`, `DmaAssumption`, `TitlesAssumption`, `WaveAssumption`, `ReaderAssumption`,
`DeckAssumption`, `FilesAssumption`, `PeripheralsAssumption`, `SessionAssumption`,
`PlaneAssumption`: capacities, pauses and prescales positive, model values distinct, the
files of a tape have blocks with the operands of their kind, the media somebody inserts are
images with sectors of the size the interface knows and bytes below 256, an instruction
fits into the frame before its paper and so does the delay of a bank switch, a Kempston stick presses no key), which
TLC evaluates in the runs.

**Hub** (`BreakpointEvents_proofs`). `Invariance` shows that
`IInv` is inductive, for any number of clients and any capacities. `SequenceSafety`
says that a sequence names one stop, but this depends on matters the
property does not mention, and `IInv` adds them: the retained stops reach up to the
last identity and a current stop is the last one (*Journal*); the last numbered stop, the
cursor and the machine are in that order, and what is still to be published lies
between the cursor and the last identity (*Cursor*: this is why a new number goes to a
newer stop); `numbered` increases and ends with `lastEvent` (*Number*); a queued
message carries the number of its stop (*Queue*); and what a client was given has
numbers up to its last sequence (*Delivery*: this is why nothing arrives twice).
`TypeCorrect`, `JournalCorrect`, `SequenceSafety` are its consequences.
`Refinement`: the hub implements `BreakpointStream`, each `ReceiveEvent` mapping to
the delivery of a newer stop or to a stutter, `SubscribeFirst` and
`SubscribeSnapshot` to the opening of a stream. Besides `IInv` it needs `HolderInv`: a
client that holds the mutex is in the middle of subscribing, so its stream is not open
yet. `NothingIsSkipped` proves `NoSilentGap` from `IInv`, `HolderInv` and *GapInv*. The
property is about one client's stream, but a stop can also be lost before the hub numbers it, in an
observation that comes after the journal has dropped it: *Seen* says where each
stop is that the cursor has not passed. *Ordered* says that the events which a receiver
filters out, because their sequence is not above its last one, are those that its
snapshot showed or skipped. *Told* is the property itself, for every client with a receiver and every
stop up to the cursor, also one whose snapshot is still to come.

**Debugger** (`Debugger_proofs`). `DebuggerInvariance` proves the inductive `DInv`:
types, `StopHasRecord`, *ContinueArmed* (between a Continue and the next move of the guest the skip is
armed at the current program counter, so the next `check_pc` proceeds),
*StartsUnpaused* (a frame or run-until in progress is not paused), *RunUntilClean* (while
run-until goes on no reason is set) and *StepsLeft*. From it follow
`DebuggerTypeCorrect`, `StopRecordSafety`, `ContinuePasses`, `PauseHolds`,
`RunUntilFresh`, the last three being action properties. `JournalImplemented` is the refinement of
`StopJournal`, for which it adds *IdsGrow* (the identities in the history increase, up to `hitId`:
the set that the journal sees has therefore as many elements as the history has records, and the
record that a full history drops is the oldest of the set) and *CallsInBounds*. Each step of
the debugger records one stop, replaces the runtime or is quiet, a quiet one being an
acknowledgement or a stutter of the journal.

**CTC** (`NextCtc_proofs`). `CtcInvariance`: `TypeOK`, `ChannelsCoherent`,
`StatusCoversRequests` and `ServiceNests` are inductive together. The argument is by
channel: each operator on one channel preserves the soundness of a channel and
never creates a request without an overflow (lemmas on `Decrement`, `Trigger`,
`LoadConstant`, `Control`, `Elapse`, `CountDue`); `CascadeClosed` then
says that every triggered counter that carries is among the overflows. `ServiceNesting` is what makes
`reti`'s search for the lowest channel number right. `RequestOrder` is an
action property. `SkippingExactness` says that a jump to the next prescaler
event plays the same ticks as clock-by-clock running: within the jump no channel is due
(`QuietTurn`), so all but the last clock only age the prescalers.
`TickIsItsQueue` justifies the closed form that all of these are about: for a ring of any size and
channels in any state, the walk of the queue ends with the channels and the overflows of `Tick`. The walk keeps *WalkHolds*:
each overflowed channel stands in the queue once (so the array has room, by the pigeonhole
principle, and the turns suffice), every one of them is of the cascade, and exactly the neighbours
of those before the cursor, the timed-out ones excepted, have been triggered. At the end that is a set closed under passing the edge on,
and the cascade is the least such set (`RingCascadeLeast`). `CascadeWalksTheQueue` states it as the run does.

**DMA** (`NextBoard_proofs`). `DmaInv` is `BlockInv` with `TimeInv`. `BlockInv` says that a
block is the bytes moved and the bytes left, and that the status the guest reads is that of these
accounts; each command of the guest keeps them or begins a new block. `TimeInv` says that the next
byte of an active transfer is later than the last one moved, and that a bulk transfer in progress
has room for its remaining bytes before its instruction ends: without it the order of two
bytes could not be told when a continuous transfer follows one in bursts, or the
guest takes the prescaler away in the middle. `DmaAccounts` and `DmaTiming` follow, the
latter an action property.

**Copper** (`NextBoard_proofs`). The loop is a recursive function; that it exists, and that
what holds of a turn holds of all, is proved with least natural numbers, for induction is out
of reach. `CopperHolds`, which every action keeps, has three parts. `CopperTypeOK` are the
types. `ListHolds` says that the history of instructions is in order and that the Copper
is *Ready* after the last of them: at its successor, or at the beginning of the list in a later
frame, at a later clock unless the mode was changed. Without *Ready* the order could not
be kept from one batch to the next; it survives a write of the guest because a
start of the list empties the history and a stop leaves the place in it. `BeamHolds` relates the
picture to the MOVEs: the code's events are those of the frame of the last MOVE, one for
each line that has one, each the last value of its line (*Drawn*); the last MOVE is neither ahead of the
guest nor of the Copper; and none is in a frame after the one that is shown. The hard lemma is
`CaptureOK`, in which a MOVE is in the frame of the history or begins another, on the last line
or a later one. `ListKept` and `PictureKept` follow. For `BatchesAgree`, two ends of a batch
in the same frame are compared turn by turn: up to the first turn that leaves the shorter run they
take the same turns (`SameTurn`), and `LeavesBecause` has three reasons for that turn: the next instruction
is not due yet, and the second batch goes on from there (`TurnsJoin`); the Copper
stands still, and stays so; or a MOVE has changed the mode, which the property excepts.

**Tape** (`TapeDeck_proofs`). `LoadInv` strengthens `LoadReachesItsCaller`: *DeckInv*, a sound TAP
player in the session's mode (the property reads a block by its number, and a switch of modes
reschedules it), and the types of the guest. The argument is that a load becomes pending only
with the guest at the trap address, that no instruction runs there while it is pending, and
that whatever else moves the guest sets `stray` or ends the load. `LoadsReachTheirCallers` and `TapPlayersAreSound` are
its consequences, for any files, requests and options. `ExpansionsEnd` proves `WorkIsBounded`
from *ReaderInv*: the turns taken are at most the place in the file plus one pass over the
file for every replay and transfer spent. A turn moves on by a block or spends one
of them, and a return or a loop's end goes to a place inside the file (the two stacks hold such
places only).
`TimeMayBeCut` is about the loop of `TzxPlayer::advance`, for any player: a stretch is its first turn and
the rest (`PlayForTurn`), since turns beyond the loop's end change nothing and all runs of turns come to the same
end (`SameEnd`); so a shortest counterexample to the sum could be shortened by a turn (`PlayForParts`: every turn
uses up time or a pulse). Then the last two lines of `advance` are compared: a schedule that ends with the first
stretch is low and finished at once, where the sum would have entered the end with the next state.
`StretchesAddUp` and `ChunksDoNotMatter` apply it to every deck of `Spec`, for which a TZX deck must be a player
with a schedule of pulses: *ScheduleInv* says that of the reader's wave after each block (`SynthesiseOK`), and
`LoadInv` of the deck. `FoldLeft`, of which the blocks' pulses are made, is unfolded once per kind of step.

**Tape titles** (`TapeTitles_proofs`). `TitlesInvariance` proves `TitlesInv`: types,
`TitleBelongsToTape`, *LookupsInv* and *CacheInv*. The title is right because
a message that passes `Fits` carries the digest of the identity's file, and its title is the
service's title for that digest, not because the generation is right; the
generation is what keeps `LookupsInv` (a lookup belongs to a generation that was installed).
*CacheInv* says that while no two updates have overlapped at most one lookup is inside
`cache_put`, its open file is the temporary one, and the cache file is whole or absent;
from it follows `CacheSafety`, which covers failures and restarts between any two file
operations. `TitleStays` is an action property and needs `LookupsInv`: a delivery
fits only if the lookup was started for an identity that had just a file name.

**Picture** (`Peripherals_proofs`, over `UlaPictureInv`). `PictureIsTrue` proves
`PictureIsWhatTheBeamSaw` for frames and pictures of any size. `PictureInv` says, while a
frame runs, that every byte or border point the beam has seen is what would be rendered now
(*SeenAt*), and that the notes say nothing about what is ahead of the beam (*NotesAt*: no byte
is noted for a fetch to come, and the last event of each journal is in force from here on).
The second is what makes the first inductive: without it a note could change the picture of a fetch that
has not been made. Each kind of access (a write, a border, a bank) is shown to keep what has been seen
and to leave the picture ahead to the memory.

**Drives** (`Peripherals_proofs`). Each drive has an invariant of its own: the types of its
fields; the status (`StatusOK`); and what its phases have in common with its buffers. For the Beta
Disk, a sector to read is whole in the buffer; for the +3, the parameters of an execution are
those of its phase; for the cards, a phase belongs to a command that has it, and for the
card of the Next the bytes in the buffer and the bytes that are left add up to a block with
its checksum. Per drive three things are proved: every operation keeps the invariant; every operation
is a step of `SectorDrive`, or a stutter; and every access that the status asks for makes the
variant of `Nearer` smaller. The lemmas go by what an operation comes to rather than by
operation: a command that has ended, a transfer that begins, one more byte, the last byte, and
a change of registers under a transfer that goes on. The hard cases of the refinement are the last byte
of a write, where the sector that changes on the medium must be the one and the bytes those
that the transfer has collected (with a sector of another length in a track that is written),
and the last byte of a multi-sector read, which begins the next sector with the bytes it has
then. `PollsAreTrue`, `CommandsEnd` and `MediaKept` put the four
together: they state `StatusIsTrue`, `ServedCommandsEnd` and `DrivesKeepTheirMedia` of
`BoardSpec`, for any media, sizes and commands.

**Control plane** (`ControlPlane_proofs`). Lemmas say of each function of `HostSession`
what its result is: a session again, with a machine of its model (*MachineIsOfModel*)
and the composed input (*InputIsComposed*), and what became of the snapshot. `PlaneInvariant` puts them together: `TypeOK`, a sound session,
`SnapshotMeetsItsModel`, `PrefsInForce` and *CopiesUnderLock* are inductive together.
`PrefsInForce` alone is not: `Apply` writes the copy that a caller made in the past, and
a load that has just replaced a machine leaves one without preferences. *CopiesUnderLock*, which is only a part of this argument, says that whoever is between the two holds
the session's mutex and that its copy is still current, since `patch_prefs` changes
preferences only with both mutexes. The theorems `RuntimeIsOfItsModel`,
`InputIsLostToTheDockOnly`, `PrefsAreInForce`, `SnapshotsMeetTheirModel` and `NoDeadlock` follow.
They hold with the egui host's interrupted loads, `SnapshotsMeetTheirModel` up to `mixed`.

### Only model-checked

- `EveryStopIsTold`, `FirstLossCloses`: liveness under fairness, beyond the prover.
- `LoneHitIsShown`, `HeldLoadEnds`: liveness.
- `LoopsPlayTheirCount`, `SignalIsTheTape`: what an expansion computes for a whole file, compared with
  recursive reference definitions (`Unroll`, `Signal`), is an induction over data.

### Not claimed

Every RETI of the guest reaches the CTC, also one that ends a handler of the frame
interrupt nested in a channel's (`z80/src/opcodes.rs:879`); it ends the service of that channel. An edge counter that overflows when its
control word is written sets its status bit but triggers no neighbour
(`bus/src/next_ctc.rs:161`). On a Next machine `continue_execution` resumes the guest and then
answers with an error, since there is no break reason to return (`service.rs:578`).
`set_mouse` reads the preference before it takes the session's lock (`service.rs:502`).

Two lookups that are in `cache_put` together share a temporary name, and the cache may lose
an entry or end up unreadable, in which case the next update starts an empty one.
The code calls this "best-effort" and the loss is a repeated request; the properties say
what holds without overlap.

A key or stick that is held while a Timex dock is inserted or ejected is lost to the guest until the
session composes its input again, at the next change of a key, stick or mode, reset or load
(`session.rs:1261-1279`, `machine/src/lib.rs:974`, `986`); the egui window rebuilds its own
keys before the next frame, a client of the agent API would have to press again.
`InputReachesMachine` states this loss rather than the absence of it: `HostSession::reset` promises
to preserve held input (`session.rs:624`), of the dock the repository says only
that it soft-resets (`docs/TIMEX.md:51`). The recording that this reset ends is no loss: every reset ends it.

An egui load of a snapshot that another request interrupts may apply the snapshot to
another model's machine (`mixed`). `load_rzx`, unlike `load_snapshot`, applies no
preferences to the machine it boots, and the window's `sync_keyboard` rebuilds the matrix
from the window's keys alone; `PrefsInForce` and `InputReachesMachine` end there
(`foreign`, `driven`; `service.rs:687`, `app/src/session.rs:973`). `apply_config` gives the machine the profile's joystick mode, which
the preferences then overwrite. No document says what should happen in these cases.

## What is not modelled, and why

- Instructions, memory contents, video and sound, and the parsers of snapshots, recordings
  and disk images, are data conversions with unit tests of their own.
- Authentication, JSON and route parsing: one operation per request, no state.
- Rendering and windowing: GUI code.
- In the modelled components: the CTC's port decode; the payload of an event (the
  snapshot of registers); watch addresses (only whether some watch is armed and
  hit); `last_event`'s text; the bytes of a tape block beyond length, flag and checksum, the
  memory variants of the trap (48K, 128K, +3); the Beta Disk's index pulse; what the DMA
  moves; the video registers that differ only in their number.
- Sprites, video layers and memory map of the Next: tables from registers to
  pixels and pages, rewritten whole by each access.
- Of the ULA: the contention and floating-bus tables, snow and the Timex modes, which are functions of the
  time in the frame.
- The other components are planned as follows.

## Plan

Done: hub, debugger, CTC, DMA, tape titles, tape deck, control plane with host session,
the disk and card interfaces, the ULA's picture and the Copper, with
proofs. Next, in order of
importance:

1. Paging and NMI: 128K/+3 paging lock, Multiface, the DivMMC's automap, as one memory
   map; theorem: a locked map changes only by reset.
2. Interrupts: acceptance in `z80` with EI's delay, HALT and NMI, under the frame loop.
3. Audio rings and image hand-over of the front ends, the trace ring.
4. Proofs: the invariants of 1.

## Running

```
tlc -workers 2 -config MCBreakpointEvents.cfg MCBreakpointEvents
tlc -workers 2 -config MCBreakpointLiveness.cfg MCBreakpointEvents
tlc -workers 2 -config MCDebugger.cfg MCDebugger
tlc -workers 2 -config MCNextBoard.cfg MCNextBoard
tlc -workers 2 -config MCTapeTitles.cfg MCTapeTitles
tlc -workers 2 -config MCTapeDeck.cfg MCTapeDeck
tlc -workers 2 -config MCPeripherals.cfg MCPeripherals
tlc -workers 2 -config MCControlPlane.cfg MCControlPlane
tlapm BreakpointEvents_proofs.tla     # and the other *_proofs modules
```
