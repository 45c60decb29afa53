----------------------------- MODULE NextCopper -----------------------------
(* The Copper of crates/bus/src/next_copper.rs, under the clock of            *)
(* NextMachine::step_once and run_frame in crates/machine/src/next.rs, and    *)
(* the history of its display changes from which a frame is rendered.        *)
(*                                                                           *)
(* One video register stands for those of nextreg_affects_video. The guest   *)
(* programs the Copper and leaves the video register alone; raster lines are  *)
(* the rows of the picture.                                                  *)
EXTENDS Integers, Sequences, FiniteSetsExt

CONSTANTS
    InstructionCount,   \* instructions of the list (1024)
    LowBytes,           \* byte addresses that NextReg $61 tells apart (256)
    ClocksPerTstate,    \* Copper clocks of a T-state (8)
    HorizontalTstates,  \* T-states of a horizontal position (4)
    LineTstates,        \* T-states of a raster line (224)
    FrameLines,         \* raster lines of a frame (312)
    Bytes,              \* bytes of the list,
    Instruction,        \* and what two of them say: a function on pairs
    Programs,           \* lists that the guest has written before it starts
    Controls,           \* what the guest writes to NextReg $62,
    Data,               \* to $60
    LowAddresses,       \* and to $61
    CopperShapes,       \* instructions of the guest: [at |-> write, len |-> length]
    CopperMaxTime       \* bound: instructions start before it

Modes == {"stop", "start", "resume", "frame"}

(* A byte for NextReg $62: the mode and the high bits of the byte address.    *)
CopperControl == [mode : Modes, high : Nat]

Instructions ==
    [op : {"noop", "halt"}]
        \cup [op : {"wait"}, line : Nat, column : Nat]
        \cup [op : {"move"}, register : {"none", "video", "address"}, value : Nat]
        \cup [op : {"move"}, register : {"data"}, value : Bytes]
        \cup [op : {"move"}, register : {"control"}, value : CopperControl]

CopperConstants ==
    /\ {InstructionCount, LowBytes, HorizontalTstates,
        LineTstates, FrameLines} \subseteq Nat \ {0}
    /\ ClocksPerTstate \in Nat \ (0..2)
    /\ Instruction \in [Bytes \X Bytes -> Instructions]
    /\ Programs \subseteq [0..(2 * InstructionCount - 1) -> Bytes]
    /\ Controls \subseteq CopperControl
    /\ Data \subseteq Bytes
    /\ LowAddresses \subseteq 0..(LowBytes - 1)
    /\ CopperShapes \subseteq [at : Nat, len : Nat]
    /\ \A i \in CopperShapes : i.at =< i.len /\ i.len > 0

ASSUME CopperAssumption == CopperConstants

VARIABLES
    copper,         \* NextCopper
    copper_t,       \* the machine's clock in T-states (video_t)
    video,          \* the video register
    history,        \* copper_video_frame, _initial and _events
    boundary,       \* where run_frame stops (NoFrame: it does not run)
    render_frame,   \* the frame it has completed (NoFrame: none)
    writes,         \* history: video MOVEs since the last reset, with their times
    ran             \* history: the instruction that ran last, with its frame

copperVars == <<copper, copper_t, video, history, boundary, render_frame, writes, ran>>

NoFrame == -1
FrameTstates == LineTstates * FrameLines
FrameClocks == FrameTstates * ClocksPerTstate
ByteCount == 2 * InstructionCount

-----------------------------------------------------------------------------
(* NextCopper.                                                               *)

WriteData(c, b) ==
    [c EXCEPT !.memory[c.address] = b, !.address = (@ + 1) % ByteCount]

WriteAddressLow(c, b) == [c EXCEPT !.address = (@ \div LowBytes) * LowBytes + b]

WriteCopperControl(c, v, t) ==
    LET set == [c EXCEPT !.mode = v.mode,
                         !.address = (v.high * LowBytes + (@ % LowBytes)) % ByteCount]
        restart == [set EXCEPT !.program_counter = 0, !.running = TRUE,
                               !.stalled = FALSE, !.clocks = t * ClocksPerTstate]
    IN  CASE v.mode = c.mode -> set
          [] v.mode # c.mode /\ v.mode = "stop" ->
                [set EXCEPT !.running = FALSE, !.stalled = FALSE]
          [] v.mode # c.mode /\ v.mode \in {"start", "frame"} -> restart
          [] v.mode # c.mode /\ v.mode = "resume" ->
                [restart EXCEPT !.program_counter = c.program_counter]

Reset(c) ==
    [c EXCEPT !.address = 0, !.mode = "stop", !.program_counter = 0,
              !.running = FALSE, !.clocks = 0, !.stalled = FALSE]

Fetch(c) ==
    Instruction[<<c.memory[2 * c.program_counter], c.memory[2 * c.program_counter + 1]>>]

FrameOf(clocks) == clocks \div FrameClocks

(* Mutated form of Restart: it forgets where the list begins.                *)
RestartInPlace(c) == [c EXCEPT !.stalled = FALSE, !.clocks = (FrameOf(@) + 1) * FrameClocks]

(* Core-control mode goes back to the beginning of the list in a new frame.  *)
Restart(c) ==
    [c EXCEPT !.program_counter = 0, !.stalled = FALSE,
              !.clocks = (FrameOf(@) + 1) * FrameClocks]

(* Where the beam is next at the position of a WAIT.                         *)
BeamClocks(c, w) ==
    LET target == FrameOf(c.clocks) * FrameClocks
                    + w.line * LineTstates * ClocksPerTstate
                    + w.column * HorizontalTstates * ClocksPerTstate
    IN  IF target < c.clocks THEN target + FrameClocks ELSE target

(* Core-control mode: the list is behind the frame of the batch, or a WAIT    *)
(* reaches past the frame it is in.                                          *)
Behind(c, target) == c.mode = "frame" /\ FrameOf(c.clocks) < FrameOf(target)
Crosses(c, w) ==
    c.mode = "frame" /\ BeamClocks(c, w) >= (FrameOf(c.clocks) + 1) * FrameClocks

Stalls(i) == i.op = "halt" \/ (i.op = "wait" /\ i.line >= FrameLines)

(* What runs, when, and the time of its write in whole T-states.              *)
CeilDiv(a, b) == (a + b - 1) \div b

Entry(c) ==
    [pc |-> c.program_counter, mode |-> c.mode, clocks |-> c.clocks,
     t |-> CeilDiv(c.clocks, ClocksPerTstate), instruction |-> Fetch(c)]

ChangesMode(e) ==
    /\ e.instruction.op = "move" /\ e.instruction.register = "control"
    /\ e.instruction.value.mode # e.mode

(* The instruction has taken its clocks from the given one on, and the next   *)
(* one follows; a MOVE that changes the mode leaves the loop.                 *)
Executed(s, clocks, duration) ==
    [copper |-> [s.copper EXCEPT !.program_counter = (@ + 1) % InstructionCount,
                                 !.clocks = clocks + duration],
     trail |-> Append(s.trail, Entry(s.copper)),
     left |-> ChangesMode(Entry(s.copper))]

(* A turn of the loop of advance.                                            *)
Turn(s, target) ==
    LET c == s.copper
        i == Fetch(c)
        continue(d) == [copper |-> d, trail |-> s.trail, left |-> FALSE]
        break(d) == [copper |-> d, trail |-> s.trail, left |-> TRUE]
    IN  IF s.left \/ ~c.running \/ c.clocks > target THEN break(c)
        ELSE IF Behind(c, target) THEN continue(Restart(c))
        ELSE IF c.stalled THEN break(c)
        ELSE IF Stalls(i) THEN break([c EXCEPT !.stalled = TRUE])
        ELSE IF i.op = "wait" /\ Crosses(c, i) THEN continue(Restart(c))
        ELSE IF i.op = "wait" THEN Executed(s, BeamClocks(c, i), 1)
        ELSE Executed(s, c.clocks, IF i.op = "noop" THEN 1 ELSE 2)

(* The loop of advance. Each turn but the last takes a clock at least.        *)
MostTurns(c, target) == IF c.clocks > target THEN 1 ELSE target - c.clocks + 2

Run(c, target) ==
    LET turns[n \in 0..MostTurns(c, target)] ==
            IF n = 0 THEN [copper |-> c, trail |-> <<>>, left |-> FALSE]
            ELSE Turn(turns[n - 1], target)
    IN  turns[MostTurns(c, target)]

(* Mutated form of AdvanceCopper: a WAIT that reaches past the batch is       *)
(* forgotten.                                                                *)
AdvanceToTarget(c, time) ==
    [Run(c, time * ClocksPerTstate) EXCEPT !.copper.clocks = time * ClocksPerTstate]

(* advance: the instructions that are due at a time, and the MOVEs they make. *)
AdvanceCopper(c, time) ==
    LET target == time * ClocksPerTstate
    IN  [Run(c, target) EXCEPT !.copper.clocks = IF @ < target THEN target ELSE @]

-----------------------------------------------------------------------------
(* What the machine makes of the MOVEs.                                      *)

NoHistory == [frame |-> NoFrame, initial |-> 0, events |-> <<>>]

LineOf(t) == (t % FrameTstates) \div LineTstates

(* capture_copper_video_before_write and _after_write around a video MOVE.   *)
Capture(h, before, t, after) ==
    LET frame == t \div FrameTstates
        new == [frame |-> frame, initial |-> before, events |-> <<>>]
        g == IF h.frame = frame THEN h ELSE new
        event == [line |-> LineOf(t), value |-> after]
    IN  IF g.events # <<>> /\ g.events[Len(g.events)].line = event.line
        THEN [g EXCEPT !.events[Len(g.events)] = event]
        ELSE [g EXCEPT !.events = Append(@, event)]

(* One MOVE of a batch, done after the batch; register 0 is no MOVE.          *)
Move(s, e) ==
    LET i == e.instruction
    IN  CASE i.op # "move" -> s
          [] i.op = "move" /\ i.register = "none" -> s
          [] i.op = "move" /\ i.register = "video" ->
                [s EXCEPT !.video = i.value,
                          !.history = Capture(@, s.video, e.t, i.value),
                          !.writes = Append(@, [t |-> e.t, value |-> i.value])]
          [] i.op = "move" /\ i.register = "data" ->
                [s EXCEPT !.copper = WriteData(@, i.value)]
          [] i.op = "move" /\ i.register = "address" ->
                [s EXCEPT !.copper = WriteAddressLow(@, i.value)]
          [] i.op = "move" /\ i.register = "control" ->
                [s EXCEPT !.copper = WriteCopperControl(@, i.value, e.t)]

(* All of them, in order.                                                    *)
Moves(s, trail) ==
    LET made[n \in 0..Len(trail)] == IF n = 0 THEN s ELSE Move(made[n - 1], trail[n])
    IN  made[Len(trail)]

(* Mutated form of CopperTime.                                               *)
CopperTimeUncapped(start, end) == end

(* How far step_once lets the Copper go: not into the next frame.            *)
CopperTime(start, end) ==
    LET frameEnd == (start \div FrameTstates + 1) * FrameTstates - 1
    IN  IF end < frameEnd THEN end ELSE frameEnd

(* What a change of the mode by the guest leaves of the instruction that ran  *)
(* last: nothing where the list starts from its beginning.                    *)
RanBefore(c) ==
    IF ran = <<>> \/ (c.mode \in {"start", "frame"} /\ copper.mode # c.mode) THEN <<>>
    ELSE <<ran[Len(ran)]>>

(* step_once: the guest has left the Copper in state c.                      *)
StepOnce(c, len) ==
    LET end == copper_t + len
        batch == AdvanceCopper(c, CopperTime(copper_t, end))
        s == Moves([copper |-> batch.copper, video |-> video,
                    history |-> history, writes |-> writes], batch.trail)
    IN  /\ copper_t < CopperMaxTime
        /\ boundary = NoFrame \/ copper_t < boundary
        /\ copper' = s.copper /\ video' = s.video
        /\ history' = s.history /\ writes' = s.writes
        /\ copper_t' = end
        /\ render_frame' = NoFrame
        /\ ran' = RanBefore(c) \o batch.trail
        /\ UNCHANGED boundary

-----------------------------------------------------------------------------
CopperInit ==
    /\ \E p \in Programs :
          copper = [memory |-> p, address |-> 0, mode |-> "stop", program_counter |-> 0,
                    running |-> FALSE, clocks |-> 0, stalled |-> FALSE]
    /\ copper_t = 0 /\ video = 0
    /\ history = NoHistory
    /\ boundary = NoFrame /\ render_frame = NoFrame
    /\ writes = <<>> /\ ran = <<>>

RunList == \E i \in CopperShapes : StepOnce(copper, i.len)

SetControl ==
    \E i \in CopperShapes, v \in Controls :
        StepOnce(WriteCopperControl(copper, v, copper_t + i.at), i.len)

SetData == \E i \in CopperShapes, b \in Data : StepOnce(WriteData(copper, b), i.len)

SetAddressLow ==
    \E i \in CopperShapes, b \in LowAddresses : StepOnce(WriteAddressLow(copper, b), i.len)

(* run_frame: it steps to the end of the frame, and shows that frame.         *)
RunFrame ==
    /\ boundary = NoFrame
    /\ copper_t < CopperMaxTime
    /\ boundary' = (copper_t \div FrameTstates + 1) * FrameTstates
    /\ UNCHANGED <<copper, copper_t, video, history, render_frame, writes, ran>>

FrameDone ==
    /\ boundary # NoFrame /\ copper_t >= boundary
    /\ render_frame' = boundary \div FrameTstates - 1
    /\ boundary' = NoFrame
    /\ UNCHANGED <<copper, copper_t, video, history, writes, ran>>

(* A reset, by the host or with NextReg $02 at the end of an instruction.     *)
ResetCopper ==
    /\ copper' = Reset(copper)
    /\ video' = 0 /\ history' = NoHistory /\ render_frame' = NoFrame
    /\ writes' = <<>> /\ ran' = <<>>
    /\ UNCHANGED <<copper_t, boundary>>

CopperNext ==
    \/ RunList \/ SetControl \/ SetData \/ SetAddressLow
    \/ RunFrame \/ FrameDone
    \/ ResetCopper

CopperSpec == CopperInit /\ [][CopperNext]_copperVars

-----------------------------------------------------------------------------
(* The picture: render_rgba, with and without a history of its frame.        *)

DisplayedFrame ==
    IF render_frame # NoFrame THEN render_frame
    ELSE IF copper_t = 0 THEN 0 ELSE (copper_t - 1) \div FrameTstates

Row(l) ==
    LET E == history.events
        passed == {k \in DOMAIN E : E[k].line <= l}
    IN  IF history.frame # DisplayedFrame \/ passed = DOMAIN E THEN video
        ELSE IF passed = {} THEN history.initial
        ELSE E[Max(passed)].value

(* A row of the picture shows the last MOVE that the Copper made before the  *)
(* beam left the row, in whatever batches the machine has run it and also     *)
(* when a step ended in the next frame (step_once, run_frame, the capture     *)
(* functions, render_rgba).                                                   *)
PictureShowsItsMoves ==
    \A l \in 0..(FrameLines - 1) :
        LET end == DisplayedFrame * FrameTstates + (l + 1) * LineTstates
            made == {k \in DOMAIN writes : writes[k].t < end}
        IN  Row(l) = IF made = {} THEN 0 ELSE writes[Max(made)].value

(* Instructions run in the order of the list and of the beam: after one      *)
(* comes the next, or the first where the mode was changed to a start of the  *)
(* list or, in core-control mode, where a new frame began (advance,           *)
(* write_control). A WAIT past the frame has gone back to the first already   *)
(* when the guest takes core-control mode away. Only with a change of the     *)
(* mode between them are two at the same clock.                              *)
Follows(a, b) ==
    LET fromStart ==
            \/ ChangesMode(a) /\ a.instruction.value.mode \in {"start", "frame"}
            \/ b.mode = "frame" /\ FrameOf(a.clocks) < FrameOf(b.clocks)
    IN  /\ \/ a.clocks < b.clocks
           \/ a.clocks = b.clocks /\ (ChangesMode(a) \/ b.mode # a.mode)
        /\ \/ b.pc = IF fromStart THEN 0 ELSE (a.pc + 1) % InstructionCount
           \/ a.mode = "frame" /\ b.mode # "frame" /\ b.pc = 0

ListInOrder == \A k \in 1..(Len(ran) - 1) : Follows(ran[k], ran[k + 1])

(* Within a frame it makes no difference where the guest's instructions end: *)
(* two batches do what one does, unless the list reprograms the Copper        *)
(* (advance).                                                                 *)
BatchesDoNotMatter ==
    LET end == CopperTime(copper_t, copper_t + FrameTstates)
        one == AdvanceCopper(copper, end)
        reprograms(i) == i.op = "move" /\ i.register \notin {"none", "video"}
    IN  \/ \E k \in DOMAIN one.trail : reprograms(one.trail[k].instruction)
        \/ \A t \in copper_t..end :
              LET first == AdvanceCopper(copper, t)
                  second == AdvanceCopper(first.copper, end)
              IN  /\ second.copper = one.copper
                  /\ first.trail \o second.trail = one.trail

=============================================================================
