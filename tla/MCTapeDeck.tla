----------------------------- MODULE MCTapeDeck -----------------------------
(* A few files to open, and reference definitions of what a file expands to, *)
(* compared with the parser on every short file.                             *)
EXTENDS TapeDeck

Block(flag, size, good, pause) ==
    [op |-> "standard", flag |-> flag, size |-> size, good |-> good, pause |-> pause]

Tone(n) == [op |-> "tone", count |-> n]
Pure(size, pause) == [op |-> "data", size |-> size, pause |-> pause]
Turbo(pilots, size, pause) ==
    [op |-> "turbo", pilots |-> pilots, size |-> size, pause |-> pause]
Sequence(times) == [op |-> "sequence", times |-> times]
Direct(samples, pause) == [op |-> "direct", samples |-> samples, pause |-> pause]
Csw(times, stored, pause) ==
    [op |-> "csw", times |-> times, stored |-> stored, pause |-> pause]
Symbol(polarity, times) == [polarity |-> polarity, times |-> times]
General(symbols, pause) == [op |-> "general", symbols |-> symbols, pause |-> pause]
Gap(pause) == [op |-> "pause", pause |-> pause]
Loop(times) == [op |-> "loop", times |-> times]
LoopEnds == [op |-> "loopEnd"]
Jump(by) == [op |-> "jump", by |-> by]
Call(by) == [op |-> "call", by |-> by]
Returns == [op |-> "return"]
Menu(by) == [op |-> "select", by |-> by]
Info == [op |-> "info"]
Level(high) == [op |-> "level", high |-> high]
Unknown == [op |-> "unknown"]

File(blocks) == [blocks |-> blocks, cut |-> FALSE]
Cut(blocks) == [blocks |-> blocks, cut |-> TRUE]

Tap(flag, size, good) == [flag |-> flag, size |-> size, good |-> good, pause |-> 0]

Header == [flag |-> 0, size |-> 1, load |-> TRUE]
Data == [flag |-> 255, size |-> 1, load |-> TRUE]

MCRequests == {Header, Data}

MCTapFiles ==
    {File(<<Tap(0, 1, TRUE), Tap(255, 1, TRUE)>>),
     File(<<Tap(NoFlag, 0, FALSE), Tap(255, 1, FALSE), Tap(0, 1, TRUE)>>),
     Cut(<<Tap(0, 1, TRUE)>>)}

(* A call of two subroutines and a loop around a turbo block; a menu whose   *)
(* first choice jumps back for ever; a plain file; one without its end; one  *)
(* that is too long; one with nothing to play.                               *)
MCTzxFiles ==
    {File(<<Call(<<3, 4>>), Sequence(<<2, 0, 1>>), Jump(3),
            Tone(1), Returns, Loop(2), Turbo(1, 1, 0), LoopEnds>>),
     File(<<Tone(1), Call(<<2, 3>>), Jump(3), Gap(0), Returns>>),
     File(<<Tone(1), Info, Menu(<<-1>>)>>),
     File(<<Block(0, 1, TRUE, 1), Gap(1), Block(255, 1, TRUE, 0)>>),
     Cut(<<Block(0, 1, TRUE, 1), Block(255, 1, TRUE, 1)>>),
     File(<<Loop(4), Tone(9), LoopEnds>>),
     File(<<Gap(0)>>)}

-----------------------------------------------------------------------------
RECURSIVE Read(_)
Read(r) == IF r.status = "reading" THEN Read(ReadStep(r)) ELSE r

ShortFiles(ops, length) ==
    {File(f) : f \in UNION {[1 .. n -> ops] : n \in 0 .. length}}

-----------------------------------------------------------------------------
(* Loops: the blocks between a start and its end, as often as it says.       *)

LoopOps == {Tone(1), Loop(0), Loop(2), LoopEnds}

Depth(f, i) ==
    Cardinality({j \in 1 .. i : f[j].op = "loop"})
        - Cardinality({j \in 1 .. i : f[j].op = "loopEnd"})

Balanced(f) ==
    Depth(f, Len(f)) = 0 /\ \A i \in DOMAIN f : Depth(f, i) >= 0

EndOf(f, i) == Min({j \in i .. Len(f) : Depth(f, j) < Depth(f, i)})

RECURSIVE Unroll(_, _, _)
Unroll(f, from, to) ==
    IF from > to THEN <<>>
    ELSE IF f[from].op # "loop" THEN <<from - 1>> \o Unroll(f, from + 1, to)
    ELSE LET end == EndOf(f, from)
             body == Unroll(f, from + 1, end - 1)
             n == f[from].times
         IN  FlattenSeq([k \in 1 .. n |-> body]) \o Unroll(f, end + 1, to)

-----------------------------------------------------------------------------
(* The signal: the level of every unit of time, from the level before it.    *)

SignalOps ==
    {Tone(1), Tone(2), Gap(0), Gap(1), Pure(1, 1), Level(TRUE), Level(FALSE),
     Sequence(<<1, 2>>), Csw(<<2, 1>>, 2, 0), Csw(<<1>>, 2, 0),
     Direct(<<TRUE, TRUE, FALSE>>, 0), Direct(<<FALSE>>, 1),
     General(<<Symbol("same", <<1>>), Symbol("low", <<1, 1>>)>>, 0),
     General(<<Symbol("edge", <<1>>), Symbol("high", <<1>>)>>, 1)}

Hold_(t, level) == [i \in 1 .. t |-> level]

Timeline(pulses) ==
    FlattenSeq([i \in DOMAIN pulses |-> Hold_(pulses[i].t, pulses[i].high)])

(* s.now is the level heard last, or the opposite of the one set for the     *)
(* next edge; s.low says that the next edge is low whatever came before.     *)
Edge(s, t) ==
    LET level == IF s.low THEN FALSE ELSE ~s.now
    IN  [line |-> s.line \o Hold_(t, level), now |-> level, low |-> FALSE]

Edges(s, times) == FoldLeft(Edge, s, times)

Silence(s, t) ==
    IF t = 0 THEN s
    ELSE [line |-> s.line \o Hold_(t, ~s.now), now |-> ~s.now, low |-> TRUE]

At(s, level) == [s EXCEPT !.now = level, !.low = FALSE]

Play(s, b) ==
    CASE b.op = "tone" -> Edges(s, Times(b.count, 1))
      [] b.op = "sequence" -> Edges(s, b.times)
      [] b.op = "csw" -> Silence(Edges(s, b.times), b.pause)
      [] b.op = "data" -> Silence(Edges(s, Times(2 * b.size, 1)), b.pause)
      [] b.op = "pause" -> Silence(s, b.pause)
      [] b.op = "level" -> At(s, ~b.high)
      [] b.op = "direct" ->
            LET end == [At(s, Last(b.samples)) EXCEPT !.line = @ \o b.samples]
            IN  Silence(end, b.pause)
      [] b.op = "general" ->
            Silence(FoldLeft(
                LAMBDA q, y :
                    LET p == CASE y.polarity = "edge" -> q
                               [] y.polarity = "same" -> At(q, ~q.now)
                               [] y.polarity = "low" -> At(q, TRUE)
                               [] y.polarity = "high" -> At(q, FALSE)
                    IN  Edges(p, y.times), s, b.symbols), b.pause)

Signal(f) ==
    FoldLeft(Play, [line |-> <<>>, now |-> TRUE, low |-> TRUE], f).line

-----------------------------------------------------------------------------
Untouched ==
    /\ deck = NoDeck /\ reader = Closed /\ guest = Away
    /\ burst = 0 /\ ~stray
    /\ options = [flash |-> FALSE, experience |-> FALSE, speed |-> 1]

(* A file opens if its loops are balanced, and then the blocks of each loop  *)
(* are played as often as its start says, also none, inside other loops and  *)
(* inside loops that are skipped (0x24 and 0x25 of TzxPlayer::parse).        *)
LoopsPlayTheirCount ==
    Untouched =>
        \A file \in ShortFiles(LoopOps, 6) :
            LET r == Read(NewReader(file))
            IN  /\ r.status = "done" => Balanced(file.blocks)
                /\ Balanced(file.blocks) /\ r.replays < MaxReplays
                   /\ Len(r.order) < MaxBlocks /\ Count(r.wave) < MaxPulses =>
                     /\ r.status = "done"
                     /\ r.order = Unroll(file.blocks, 1, Len(file.blocks))

(* The schedule says, for every moment, the level that the blocks ask for:   *)
(* edges alternate across blocks, the edge after a pause is low, absolute    *)
(* samples keep their level and length when they melt into the pulse before  *)
(* them.  A TAP player gets the blocks an EAR player would play.             *)
SignalIsTheTape ==
    Untouched =>
        /\ \A file \in ShortFiles(SignalOps, 3) :
               LET r == Read(NewReader(file))
               IN  r.status = "done" =>
                       Timeline(r.wave.pulses) = Signal(file.blocks)
        /\ \A file \in ShortFiles({Block(0, 1, TRUE, 0), Block(255, 2, TRUE, 1),
                                   Gap(1), Info, Tone(1)}, 3) :
               LET r == Read(NewReader(file))
                   played == [i \in DOMAIN r.order |-> file.blocks[r.order[i] + 1]]
                   standard == SelectSeq(played, LAMBDA b : b.op = "standard")
                   image == ToTapImage(file)
               IN  IsStandardSpeedOnly(file) /\ r.status = "done" =>
                       /\ Len(image) = Len(standard)
                       /\ \A i \in DOMAIN image :
                              /\ image[i].flag = standard[i].flag
                              /\ image[i].size = standard[i].size

=============================================================================
