------------------------------ MODULE TzxFile -------------------------------
(* TZX files of crates/tape/src/tzx.rs: TzxPlayer::parse, which expands a    *)
(* file with its loops, jumps, calls and selections to one pulse schedule,   *)
(* the conversion of plain files to a TAP image, and the player.             *)
(*                                                                           *)
(* A file is its sequence of blocks and whether the end of its last block is *)
(* missing.  The reader's state holds the local variables of parse; one step *)
(* is one turn of its loop.  order and turns are histories of the expansion: *)
(* the blocks played and the turns taken.                                    *)
EXTENDS TapeWaveform

CONSTANTS
    MaxBlocks,      \* MAX_LOGICAL_BLOCKS
    MaxReplays,     \* MAX_LOOP_REPLAYS
    MaxTransfers    \* MAX_CONTROL_TRANSFERS

ASSUME ReaderAssumption ==
    MaxBlocks \in Nat /\ MaxReplays \in Nat /\ MaxTransfers \in Nat

PlayableOps ==
    {"standard", "turbo", "tone", "sequence", "data", "direct", "csw",
     "general", "pause"}

NewReader(file) ==
    [file |-> file,
     at |-> 0,
     skip |-> 0,
     loops |-> <<>>,
     calls |-> <<>>,
     replays |-> 0,
     transfers |-> 0,
     wave |-> NewWave,
     starts |-> <<>>,
     status |->
        IF file.cut \/ \E i \in DOMAIN file.blocks : file.blocks[i].op = "unknown"
        THEN "failed" ELSE "reading",
     order |-> <<>>,
     turns |-> 0]

BlockCount(r) == Len(r.file.blocks)

Current(r) == r.file.blocks[r.at + 1]

Fail(r) == [r EXCEPT !.status = "failed"]

Turn(r, at) == [r EXCEPT !.at = at, !.turns = @ + 1]

Continue(r) == Turn(r, r.at + 1)

-----------------------------------------------------------------------------
(* Playable blocks.                                                          *)

SymbolPulses(b) == FoldLeft(LAMBDA n, s : n + Len(s.times), 0, b.symbols)

(* What append_csw_recording and append_generalized_data refuse themselves.  *)
Refused(r, b) ==
    \/ /\ b.op = "csw"
       /\ \/ b.stored # 0 /\ b.stored # Len(b.times)
          \/ ~Room(r.wave, Len(b.times))
    \/ b.op = "general" /\ ~Room(r.wave, SymbolPulses(b))

PlayBlock(r, b) ==
    IF \/ Len(r.starts) >= MaxBlocks
       \/ ~Room(r.wave, Estimate(b))
       \/ Refused(r, b)
    THEN Fail(r)
    ELSE LET played == [Continue(r) EXCEPT
                            !.starts = Append(@, Count(r.wave)),
                            !.order = Append(@, r.at),
                            !.wave = Synthesise(@, b)]
         IN  IF Room(played.wave, 0) THEN played ELSE Fail(played)

-----------------------------------------------------------------------------
(* Control flow.                                                             *)

(* resolve_relative_block: 0 is refused, the end of the tape is a target.    *)
Resolves(r, from, by) == by # 0 /\ from + by \in 0 .. BlockCount(r)

(* Mutated form of Transfer: transfers are not counted.                      *)
TransferUncounted(r, from, by) ==
    IF Resolves(r, from, by) THEN Turn(r, from + by) ELSE Fail(r)

(* bump_control_transfers and the resolution of the target.                  *)
Transfer(r, from, by) ==
    IF r.transfers < MaxTransfers /\ Resolves(r, from, by)
    THEN [Turn(r, from + by) EXCEPT !.transfers = @ + 1]
    ELSE Fail(r)

(* Mutated form of LoopStart: a loop inside a skipped one is not counted.    *)
LoopStartFlatSkip(r, b) ==
    IF r.skip > 0 \/ b.times = 0 THEN [Continue(r) EXCEPT !.skip = 1]
    ELSE [Continue(r) EXCEPT
            !.loops = Append(@, [restart |-> r.at + 1, left |-> b.times])]

LoopStart(r, b) ==
    IF r.skip > 0 THEN [Continue(r) EXCEPT !.skip = @ + 1]
    ELSE IF b.times = 0 THEN [Continue(r) EXCEPT !.skip = 1]
    ELSE [Continue(r) EXCEPT
            !.loops = Append(@, [restart |-> r.at + 1, left |-> b.times])]

LoopEnd(r) ==
    IF r.skip > 0 THEN [Continue(r) EXCEPT !.skip = @ - 1]
    ELSE IF r.loops = <<>> THEN Fail(r)
    ELSE LET left == Last(r.loops).left - 1
             restart == Last(r.loops).restart
         IN  IF left <= 0 THEN [Continue(r) EXCEPT !.loops = Front(@)]
             ELSE IF r.replays = MaxReplays THEN Fail(r)
             ELSE [Turn(r, restart) EXCEPT
                        !.replays = @ + 1,
                        !.loops = Append(Front(@), [restart |-> restart, left |-> left])]

CallSequence(r, b) ==
    IF b.by = <<>> THEN Continue(r)
    ELSE IF r.calls # <<>> THEN Fail(r)
    ELSE Transfer([r EXCEPT !.calls = <<[call |-> r.at, by |-> b.by, next |-> 2]>>],
                  r.at, Head(b.by))

Return(r) ==
    IF r.calls = <<>> \/ r.transfers = MaxTransfers THEN Fail(r)
    ELSE LET frame == Last(r.calls)
         IN  IF frame.next <= Len(frame.by)
             THEN Transfer([r EXCEPT !.calls = Append(Front(@),
                                [frame EXCEPT !.next = @ + 1])],
                           frame.call, frame.by[frame.next])
             ELSE [Turn(r, frame.call + 1) EXCEPT
                        !.calls = Front(@), !.transfers = @ + 1]

(* Opening without a menu takes the first selection.                         *)
Select(r, b) == IF b.by = <<>> THEN Continue(r) ELSE Transfer(r, r.at, Head(b.by))

SetLevel(r, b) ==
    [Continue(r) EXCEPT !.wave.forceLow = FALSE, !.wave.level = b.high]

-----------------------------------------------------------------------------
(* Loops count also inside a skipped loop; everything else is passed over.   *)
ReadBlock(r) ==
    LET b == Current(r)
    IN  IF b.op = "loop" THEN LoopStart(r, b)
        ELSE IF b.op = "loopEnd" THEN LoopEnd(r)
        ELSE IF r.skip > 0 THEN Continue(r)
        ELSE CASE b.op \in PlayableOps -> PlayBlock(r, b)
               [] b.op = "jump" -> Transfer(r, r.at, b.by)
               [] b.op = "call" -> CallSequence(r, b)
               [] b.op = "return" -> Return(r)
               [] b.op = "select" -> Select(r, b)
               [] b.op = "level" -> SetLevel(r, b)
               [] OTHER -> Continue(r)

EndOfFile(r) ==
    [r EXCEPT !.status =
        IF r.skip = 0 /\ r.loops = <<>> /\ r.calls = <<>> THEN "done" ELSE "failed"]

ReadStep(r) == IF r.at < BlockCount(r) THEN ReadBlock(r) ELSE EndOfFile(r)

-----------------------------------------------------------------------------
(* Plain files become TAP images.                                            *)

PlainOps == {"standard", "pause", "info", "level"}

(* A cut last block is not noticed once its header has been seen.            *)
IsStandardSpeedOnly(file) ==
    /\ \A i \in DOMAIN file.blocks : file.blocks[i].op \in PlainOps
    /\ \E i \in DOMAIN file.blocks : file.blocks[i].op = "standard"

Readable(file) == IF file.cut THEN Front(file.blocks) ELSE file.blocks

(* The payloads with their pauses; a cut block ends the image.               *)
ToTapImage(file) ==
    LET standard == SelectSeq(Readable(file), LAMBDA b : b.op = "standard")
    IN  [i \in DOMAIN standard |->
            [flag |-> standard[i].flag, size |-> standard[i].size,
             good |-> standard[i].good,
             pause |-> IF standard[i].pause = 0 THEN 1 ELSE standard[i].pause]]

(* open_tape gives a plain file to a TAP player if a block of it is complete.*)
OpensAsTap(file) == IsStandardSpeedOnly(file) /\ ToTapImage(file) # <<>>

-----------------------------------------------------------------------------
(* TzxPlayer.                                                                *)

(* sync_block: the last block that starts at or before the pulse.            *)
BlockAt(starts, from, pulse) ==
    LET later == {i \in from + 1 .. Len(starts) - 1 :
                    \A j \in from + 1 .. i : starts[j + 1] <= pulse}
    IN  IF later = {} THEN from ELSE Max(later)

Start(p) ==
    LET first == IF p.pulses = <<>> THEN [t |-> 0, high |-> FALSE] ELSE Head(p.pulses)
    IN  [p EXCEPT !.pulse = 0, !.left = first.t, !.level = first.high,
                  !.block = BlockAt(p.starts, p.block, 0)]

NewPlayer(r) ==
    Start([kind |-> "tzx", pulses |-> r.wave.pulses, starts |-> r.starts,
           pulse |-> 0, left |-> 0, level |-> FALSE, block |-> 0,
           playing |-> r.wave.pulses # <<>>])

RewindPlayer(p) == Start([p EXCEPT !.playing = FALSE, !.block = 0])

PlayerFinished(p) == p.pulse >= Len(p.pulses)

(* The next pulse, or the end of the schedule.                               *)
NextPulse(p) ==
    LET n == p.pulse + 1
        more == n < Len(p.pulses)
    IN  [p EXCEPT !.pulse = n,
                  !.left = IF more THEN p.pulses[n + 1].t ELSE 0,
                  !.level = more /\ p.pulses[n + 1].high,
                  !.block = BlockAt(p.starts, p.block, n)]

TzxPlayer == [kind : {"tzx"}, pulses : Seq(Pulse), starts : Seq(Nat),
              pulse : Nat, left : Nat, level : BOOLEAN, block : Nat,
              playing : BOOLEAN]

(* A turn of the loop of advance: enters the next pulse if this one is used  *)
(* up, and plays what there is time for.                                     *)
PlayTurn(s) ==
    LET q == IF s.player.left = 0 THEN NextPulse(s.player) ELSE s.player
        step == IF s.dt < q.left THEN s.dt ELSE q.left
    IN  IF s.dt = 0 \/ PlayerFinished(s.player) THEN s
        ELSE [player |-> [q EXCEPT !.left = @ - step], dt |-> s.dt - step]

(* The loop: each turn plays some time, or a pulse of no length.             *)
PlayFor(p, dt) ==
    LET turns[n \in 0 .. dt + Len(p.pulses)] ==
            IF n = 0 THEN [player |-> p, dt |-> dt] ELSE PlayTurn(turns[n - 1])
    IN  turns[dt + Len(p.pulses)].player

(* A schedule played to its last state is finished at once, and low.         *)
Promote(p) ==
    IF p.pulses # <<>> /\ p.left = 0 /\ p.pulse + 1 >= Len(p.pulses)
    THEN [p EXCEPT !.pulse = Len(p.pulses), !.level = FALSE,
                   !.block = BlockAt(p.starts, p.block, Len(p.pulses))]
    ELSE p

(* Mutated form of AdvancePlayer: time past the end of a pulse is lost.      *)
AdvancePlayerWithinPulse(p, dt) ==
    IF ~p.playing THEN p
    ELSE LET start == IF p.left = 0 /\ ~PlayerFinished(p) THEN NextPulse(p) ELSE p
             q == Promote(PlayFor(start, IF dt < start.left THEN dt ELSE start.left))
         IN  [p EXCEPT !.pulse = q.pulse, !.left = q.left, !.level = q.level,
                       !.block = q.block, !.playing = ~PlayerFinished(q)]

AdvancePlayer(p, dt) ==
    IF ~p.playing THEN p
    ELSE LET q == Promote(PlayFor(p, dt))
         IN  [p EXCEPT !.pulse = q.pulse, !.left = q.left, !.level = q.level,
                       !.block = q.block, !.playing = ~PlayerFinished(q)]

=============================================================================
