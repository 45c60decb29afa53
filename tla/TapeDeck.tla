------------------------------ MODULE TapeDeck ------------------------------
(* The tape deck of a classic machine: opening files (open_tape of           *)
(* crates/host_api/src/session.rs), the TAP player (crates/tape/src/tap.rs), *)
(* loading modes (crates/machine/src/tape_state.rs) and the parts of the     *)
(* frame and step loops of crates/machine/src/lib.rs that drive the deck.    *)
(*                                                                           *)
(* There are three ways to load.  EAR plays the schedule while the guest's   *)
(* ROM listens.  Instant answers the ROM's LD-BYTES routine with the next    *)
(* block at once.  Experience takes the block at once and delivers it some   *)
(* frames later: until then the guest is held at LD-BYTES.                   *)
(*                                                                           *)
(* Every host operation holds the session lock.  The guest is the ROM and    *)
(* its caller: it is somewhere else, at the trap address with a request, or  *)
(* in the ROM's edge loop.  A TAP player's schedule is kept as the time left *)
(* in its block; an instruction is shorter than any of its pulses, so it     *)
(* plays one state at a time, unlike a TZX schedule.                         *)
EXTENDS TzxFile

CONSTANTS
    TapFiles,           \* [blocks, cut]
    TzxFiles,           \* [blocks, cut]
    Requests,           \* [flag, size, load]: what LD-BYTES is asked for
    ExperiencePause,    \* EXPERIENCE_PAUSE_T
    CosmeticHeader,     \* EXPERIENCE_PILOT_HEADER_PULSES
    CosmeticData,       \* EXPERIENCE_PILOT_DATA_PULSES
    Stripes,            \* EXPERIENCE_COSMETIC_STRIPES_PER_FRAME
    Speeds,             \* EAR speeds a host asks for
    ExperienceSpeed,    \* EXPERIENCE_EAR_SPEED
    FallbackSpeed,      \* INSTANT_EAR_FALLBACK_SPEED
    Ticks               \* lengths of an instruction, for a TZX schedule

ASSUME DeckAssumption ==
    /\ ExperiencePause \in Nat \ {0}
    /\ CosmeticHeader \in Nat \ {0} /\ CosmeticData \in Nat \ {0}
    /\ Stripes \in Nat \ {0}
    /\ Speeds \subseteq Nat \ {0}
    /\ ExperienceSpeed \in Nat \ {0} /\ FallbackSpeed \in Nat \ {0}
    /\ Ticks \subseteq Nat \ {0}

TapBlock == [flag : 0 .. NoFlag, size : Nat, good : BOOLEAN, pause : Nat]

Symbols == [polarity : {"edge", "same", "low", "high"}, times : Seq(Nat)]

(* The blocks of a TZX file with the operands of their kind.                 *)
TzxBlock ==
    [op : {"standard"}, flag : 0 .. NoFlag, size : Nat, good : BOOLEAN, pause : Nat]
        \cup [op : {"turbo"}, pilots : Nat, size : Nat, pause : Nat]
        \cup [op : {"tone"}, count : Nat]
        \cup [op : {"sequence"}, times : Seq(Nat)]
        \cup [op : {"data"}, size : Nat, pause : Nat]
        \cup [op : {"direct"}, samples : Seq(BOOLEAN), pause : Nat]
        \cup [op : {"csw"}, times : Seq(Nat), stored : Nat, pause : Nat]
        \cup [op : {"general"}, symbols : Seq(Symbols), pause : Nat]
        \cup [op : {"pause"}, pause : Nat]
        \cup [op : {"loop"}, times : Nat]
        \cup [op : {"jump"}, by : Int]
        \cup [op : {"call", "select"}, by : Seq(Int)]
        \cup [op : {"level"}, high : BOOLEAN]
        \cup [op : {"loopEnd", "return", "info", "unknown"}]

(* What the files on offer are, and that a TAP image is a sequence of blocks.*)
ASSUME FilesAssumption ==
    /\ \A file \in TapFiles : file.blocks \in Seq(TapBlock)
    /\ \A file \in TzxFiles :
          /\ file.blocks \in Seq(TzxBlock)
          /\ OpensAsTap(file) => ToTapImage(file) \in Seq(TapBlock)

VARIABLES
    reader,     \* the TZX file being expanded, if open_tape is at it
    deck,
    options,    \* TapeLoadOptions
    guest,
    burst,      \* inner frames that run_frame may still run; 0 between calls
    stray       \* history: the guest was moved while a load was pending

vars == <<reader, deck, options, guest, burst, stray>>

Closed == [status |-> "closed"]
NoDeck == [kind |-> "none"]
NoLoad == [left |-> 0]
Away == [at |-> "away"]

Idle == burst = 0 /\ reader = Closed

-----------------------------------------------------------------------------
(* TapPlayer.                                                                *)

BlockOf(p, i) == p.image[i + 1]

TailPause(p, i, experience) ==
    IF experience THEN ExperiencePause
    ELSE IF BlockOf(p, i).pause > 0 THEN BlockOf(p, i).pause ELSE StandardPause

(* queue_block: the schedule of the block the player is at.                  *)
Queue(p) ==
    IF p.block >= Len(p.image) THEN [p EXCEPT !.left = 0]
    ELSE LET b == BlockOf(p, p.block)
         IN  [p EXCEPT !.left = Pilots(b) + 2 + 2 * b.size
                                + TailPause(p, p.block, p.experience)]

QueueAt(p, i) == Queue([p EXCEPT !.block = i])

TapPlayer(image) ==
    Queue([kind |-> "tap", image |-> image, block |-> 0, left |-> 0,
           playing |-> TRUE, experience |-> FALSE, pending |-> NoLoad])

TapFinished(p) == p.block >= Len(p.image)

AdvanceTap(p) ==
    IF ~p.playing THEN p
    ELSE LET q == IF p.left > 1 THEN [p EXCEPT !.left = @ - 1]
                  ELSE IF p.left = 1 THEN QueueAt(p, p.block + 1)
                  ELSE p
         IN  [q EXCEPT !.playing = ~TapFinished(q)]

(* Only the pause at the end of the block changes; one that has begun starts *)
(* again.  A pending load stays.                                             *)
SetExperience(p, experience) ==
    IF p.experience = experience THEN p
    ELSE IF TapFinished(p) THEN [p EXCEPT !.experience = experience]
    ELSE LET old == TailPause(p, p.block, p.experience)
             new == TailPause(p, p.block, experience)
         IN  [p EXCEPT !.experience = experience,
                       !.left = IF @ <= old THEN new ELSE @ - old + new]

(* evaluate_ld_bytes_trap: blocks of another flag are passed over; when none *)
(* is left the player returns to where it was.  A block of the right flag    *)
(* but the wrong size or checksum fails the request and stays current.       *)
Candidates(p, request) ==
    {i \in p.block .. Len(p.image) - 1 :
        BlockOf(p, i).flag = request.flag}

Matches(b, request) == b.flag = request.flag /\ b.size = request.size /\ b.good

Evaluate(p, request) ==
    LET found == Candidates(p, request)
        i == Min(found)
    IN  IF found = {} THEN [success |-> FALSE, player |-> QueueAt(p, p.block)]
        ELSE IF ~Matches(BlockOf(p, i), request)
        THEN [success |-> FALSE,
              player |-> IF i = p.block THEN p ELSE QueueAt(p, i)]
        ELSE LET next == QueueAt(p, i + 1)
             IN  [success |-> TRUE,
                  player |-> [next EXCEPT !.playing = @ /\ ~TapFinished(next)]]

-----------------------------------------------------------------------------
(* TapeDeck and TapeLoadOptions.                                             *)

HasTape == deck.kind # "none"
IsTap == deck.kind = "tap"
Playing == HasTape /\ deck.playing
Pending == IsTap /\ deck.pending # NoLoad

DeckFinished(d) ==
    CASE d.kind = "tap" -> TapFinished(d)
      [] d.kind = "tzx" -> PlayerFinished(d)

SetPlaying(d, playing) ==
    IF d.kind = "none" THEN d ELSE [d EXCEPT !.playing = playing]

RewindDeck(d) ==
    CASE d.kind = "none" -> d
      [] d.kind = "tap" -> QueueAt([d EXCEPT !.playing = FALSE], 0)
      [] d.kind = "tzx" -> RewindPlayer(d)

Normalized(opts) ==
    IF opts.experience
    THEN [flash |-> FALSE, experience |-> TRUE, speed |-> ExperienceSpeed]
    ELSE opts

Traps == options.flash \/ options.experience

(* advance_tape_ear: a trapping mode never plays a TAP schedule.             *)
AdvanceEar(d, dt) ==
    CASE d.kind = "none" -> d
      [] d.kind = "tap" -> IF Traps THEN d ELSE AdvanceTap(d)
      [] d.kind = "tzx" -> AdvancePlayer(d, dt)

(* ear_play_frame_reps.                                                      *)
Reps ==
    LET speed == IF options.flash THEN FallbackSpeed ELSE options.speed
    IN  IF (Traps /\ IsTap) \/ ~Playing \/ DeckFinished(deck) THEN 1 ELSE speed

-----------------------------------------------------------------------------
Init ==
    /\ reader = Closed
    /\ deck = NoDeck
    /\ options = [flash |-> FALSE, experience |-> FALSE, speed |-> 1]
    /\ guest = Away
    /\ burst = 0
    /\ stray = FALSE

(* insert_tape and insert_tzx, after clear_instant_tape_mode.                *)
Insert(d) ==
    /\ options' = [options EXCEPT !.flash = FALSE]
    /\ deck' = IF d.kind = "tap"
               THEN SetExperience(SetPlaying(d, FALSE), options.experience)
               ELSE SetPlaying(d, FALSE)
    /\ stray' = FALSE

OpenTap(file) ==
    /\ Idle
    /\ ~file.cut
    /\ Insert(TapPlayer(file.blocks))
    /\ UNCHANGED <<reader, guest, burst>>

OpenPlainTzx(file) ==
    /\ Idle
    /\ OpensAsTap(file)
    /\ Insert(TapPlayer(ToTapImage(file)))
    /\ UNCHANGED <<reader, guest, burst>>

OpenTzx(file) ==
    /\ Idle
    /\ ~OpensAsTap(file)
    /\ reader' = NewReader(file)
    /\ UNCHANGED <<deck, options, guest, burst, stray>>

ReadTzx ==
    /\ reader.status = "reading"
    /\ reader' = ReadStep(reader)
    /\ UNCHANGED <<deck, options, guest, burst, stray>>

InsertTzx ==
    /\ reader.status = "done"
    /\ Insert(NewPlayer(reader))
    /\ reader' = Closed
    /\ UNCHANGED <<guest, burst>>

(* The error is returned and the deck stays as it was.                       *)
RefuseTzx ==
    /\ reader.status = "failed"
    /\ reader' = Closed
    /\ UNCHANGED <<deck, options, guest, burst, stray>>

PlayTape ==
    /\ Idle
    /\ HasTape
    /\ deck' = SetPlaying(deck, TRUE)
    /\ UNCHANGED <<reader, options, guest, burst, stray>>

PauseTape ==
    /\ Idle
    /\ deck' = SetPlaying(deck, FALSE)
    /\ UNCHANGED <<reader, options, guest, burst, stray>>

RewindTape ==
    /\ Idle
    /\ deck' = RewindDeck(deck)
    /\ UNCHANGED <<reader, options, guest, burst, stray>>

EjectTape ==
    /\ Idle
    /\ deck' = NoDeck
    /\ stray' = FALSE
    /\ UNCHANGED <<reader, options, guest, burst>>

SetTapeLoadOptions(opts) ==
    /\ Idle
    /\ options' = Normalized(opts)
    /\ deck' = IF IsTap THEN SetExperience(deck, opts.experience) ELSE deck
    /\ UNCHANGED <<reader, guest, burst, stray>>

(* Reset pauses the deck where it is and restarts the guest.                 *)
Reset ==
    /\ Idle
    /\ deck' = SetPlaying(deck, FALSE)
    /\ guest' = Away
    /\ stray' = (stray \/ Pending)
    /\ UNCHANGED <<reader, options, burst>>

(* A snapshot or patched registers put the guest elsewhere.                  *)
MoveGuest ==
    /\ Idle
    /\ guest' = Away
    /\ stray' = (stray \/ Pending)
    /\ UNCHANGED <<reader, deck, options, burst>>

-----------------------------------------------------------------------------
(* Frames and steps.                                                         *)

(* complete_experience_pending_flash: the block is poked and LD-BYTES        *)
(* returns, wherever the guest is by now.                                    *)
Complete ==
    /\ deck' = [deck EXCEPT !.pending = NoLoad]
    /\ guest' = Away
    /\ stray' = FALSE

(* Mutated form of Paint: a deck that does not play is not painted.          *)
PaintWhilePlaying ==
    IF ~Pending \/ ~deck.playing THEN UNCHANGED <<deck, guest, stray>>
    ELSE IF deck.pending.left <= Stripes THEN Complete
    ELSE /\ deck' = [deck EXCEPT !.pending.left = @ - Stripes]
         /\ UNCHANGED <<guest, stray>>

(* tick_experience_cosmetic_paint, at the start of every frame.              *)
Paint ==
    IF ~Pending THEN UNCHANGED <<deck, guest, stray>>
    ELSE IF deck.pending.left <= Stripes THEN Complete
    ELSE /\ deck' = [deck EXCEPT !.pending.left = @ - Stripes]
         /\ UNCHANGED <<guest, stray>>

StartFrame ==
    /\ Idle
    /\ burst' = Reps
    /\ Paint
    /\ UNCHANGED <<reader, options>>

NextInnerFrame ==
    /\ burst > 1
    /\ Reps > 1
    /\ burst' = burst - 1
    /\ Paint
    /\ UNCHANGED <<reader, options>>

EndFrame ==
    /\ burst > 0
    /\ burst = 1 \/ Reps <= 1
    /\ burst' = 0
    /\ UNCHANGED <<reader, deck, options, guest, stray>>

(* step_once does not wait for the stripes.                                  *)
StepCompletes ==
    /\ Idle
    /\ Pending
    /\ Complete
    /\ UNCHANGED <<reader, options, burst>>

(* A turn of the frame loop, or a step: not while a file is opened, and a    *)
(* step not while a load is pending.                                         *)
Turns == reader = Closed /\ (burst = 0 => ~Pending)

AtTrap == guest.at = "trap"

(* Mutated form of Hold: a guest with a pending load runs on.                *)
HoldPausedOnly == AtTrap /\ HasTape /\ ~deck.playing

(* hold_ld_bytes_until_play.                                                 *)
Hold == AtTrap /\ HasTape /\ (~deck.playing \/ Pending)

Load(request, block) ==
    [left |-> IF request.flag = 0 THEN CosmeticHeader ELSE CosmeticData,
     request |-> request, block |-> block]

(* try_flash_load_48 and its 128 and +3 forms.                               *)
FlashLoad ==
    /\ Turns
    /\ AtTrap /\ ~Hold
    /\ Traps /\ IsTap
    /\ LET request == guest.request
           result == Evaluate(deck, request)
           block == result.player.block - 1
       IN  IF result.success /\ options.experience
           THEN /\ deck' = [result.player EXCEPT !.pending = Load(request, block)]
                /\ UNCHANGED guest
           ELSE /\ deck' = result.player
                /\ guest' = Away
    /\ UNCHANGED <<reader, options, burst, stray>>

(* Otherwise an instruction or an interrupt runs and the tape plays along.   *)
(* The ROM's edge loop comes back to the trap address while it hears nothing *)
(* and returns in the end; any other code may call LD-BYTES.                 *)
GuestMoves ==
    CASE guest.at = "away" ->
            guest' \in {guest} \cup {[at |-> "trap", request |-> q] : q \in Requests}
      [] guest.at = "trap" -> guest' = [guest EXCEPT !.at = "reading"]
      [] guest.at = "reading" -> guest' \in {guest, [guest EXCEPT !.at = "trap"], Away}

Instruction(dt) ==
    /\ Turns
    /\ ~Hold
    /\ ~(AtTrap /\ Traps /\ IsTap)
    /\ GuestMoves
    /\ deck' = AdvanceEar(deck, dt)
    /\ UNCHANGED <<reader, options, burst, stray>>

Next ==
    \/ \E file \in TapFiles : OpenTap(file)
    \/ \E file \in TzxFiles : OpenPlainTzx(file) \/ OpenTzx(file)
    \/ ReadTzx \/ InsertTzx \/ RefuseTzx
    \/ PlayTape \/ PauseTape \/ RewindTape \/ EjectTape
    \/ \E flash, experience \in BOOLEAN, speed \in Speeds :
           SetTapeLoadOptions([flash |-> flash, experience |-> experience,
                               speed |-> speed])
    \/ Reset \/ MoveGuest
    \/ StartFrame \/ NextInnerFrame \/ EndFrame
    \/ StepCompletes \/ FlashLoad
    \/ \E dt \in Ticks : Instruction(dt)

Spec == Init /\ [][Next]_vars

(* Frames keep coming while the session runs.  open_tape runs to its end     *)
(* without letting go of the session (that it has an end is WorkIsBounded).  *)
Frame == StartFrame \/ NextInnerFrame \/ EndFrame

FairSpec == Spec /\ SF_vars(Frame) /\ []<>(reader = Closed)

-----------------------------------------------------------------------------
(* Properties.                                                               *)

Guests == {Away} \cup [at : {"trap", "reading"}, request : Requests]

Loads == [left : Nat \ {0}, request : Requests, block : Nat]

TapDecks ==
    [kind : {"tap"}, image : Seq(TapBlock), block : Nat, left : Nat,
     playing : BOOLEAN, experience : BOOLEAN, pending : {NoLoad} \cup Loads]

(* A TAP player stands at one of its blocks or at its end, and what it will  *)
(* deliver is a block of its file.                                           *)
TapPlayerOK(p) ==
    /\ p \in TapDecks
    /\ p.block <= Len(p.image)
    /\ p.left = 0 <=> p.block = Len(p.image)
    /\ p.pending # NoLoad => p.pending.block < Len(p.image)

TapDeckOK(d) == TapPlayerOK(d) /\ d.experience = options.experience

(* An Experience load is taken off the tape when it is asked for and poked   *)
(* frames later.  Whatever happens to the deck, its cursor and its mode in   *)
(* between, it still is a good block of the right kind for its request, and  *)
(* the guest still waits at LD-BYTES with that request, unless a reset, a    *)
(* snapshot or a register patch took it away (tick_experience_cosmetic_paint *)
(* and complete_experience_pending_flash look at neither).                   *)
LoadReachesItsCaller ==
    Pending =>
        /\ Matches(BlockOf(deck, deck.pending.block), deck.pending.request)
        /\ ~stray => AtTrap /\ guest.request = deck.pending.request

(* Expanding a file takes no more turns than its blocks allow for every      *)
(* transfer and replay: the caps of tzx.rs stop every loop a file can build  *)
(* from loops, jumps, calls and selections.                                  *)
WorkIsBounded ==
    reader # Closed =>
        reader.turns <= (MaxReplays + MaxTransfers + 1) * Len(reader.file.blocks)

(* Playing two stretches one after the other is playing their sum: position, *)
(* block, level and the end of the tape do not depend on how the guest's     *)
(* instructions cut the time (TzxPlayer::advance).                           *)
ChunkingDoesNotMatter ==
    deck.kind = "tzx" /\ deck.playing =>
        \A a, b \in 1 .. 3 :
            AdvancePlayer(AdvancePlayer(deck, a), b) = AdvancePlayer(deck, a + b)

(* A pending load ends: frames deliver it, also when the deck was paused,    *)
(* rewound or switched to another mode meanwhile, or it goes with its deck.  *)
HeldLoadEnds == Pending ~> ~Pending

=============================================================================
