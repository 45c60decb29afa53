---------------------------- MODULE TapeWaveform ----------------------------
(* Pulse synthesis of crates/tape/src/waveform.rs.  A wave is the schedule   *)
(* built so far, the level of the next edge, and whether that edge is forced *)
(* low (at the start of a tape and after a pause).                           *)
(*                                                                           *)
(* Data is kept to what edges and lengths tell apart: a byte stands for one  *)
(* bit, so that a block keeps an even number of data pulses, and the pilots  *)
(* keep the parity of the ROM's 8063 and 3223 pulses.                        *)
EXTENDS Integers, Sequences, SequencesExt

CONSTANTS
    HeaderPilots,   \* PILOT_HEADER_PULSES
    DataPilots,     \* PILOT_DATA_PULSES
    StandardPause,  \* PAUSE_T, the gap when a standard block names none
    MaxPulses       \* MAX_SCHEDULED_PULSES

ASSUME WaveAssumption ==
    /\ HeaderPilots \in Nat /\ DataPilots \in Nat
    /\ StandardPause \in Nat \ {0}
    /\ MaxPulses \in Nat

(* The flag of a block without bytes, which no request asks for.             *)
NoFlag == 256

Pilots(b) == IF b.flag \in {0, NoFlag} THEN HeaderPilots ELSE DataPilots

Pulse == [t : Nat, high : BOOLEAN]

NewWave == [pulses |-> <<>>, level |-> FALSE, forceLow |-> TRUE]

Count(wave) == Len(wave.pulses)

Room(wave, more) == Count(wave) + more <= MaxPulses

Emit(wave, t, high) ==
    [wave EXCEPT !.pulses = Append(@, [t |-> t, high |-> high]),
                 !.level = ~high,
                 !.forceLow = FALSE]

(* Mutated form of PushPulse: the forced low leaves the level behind.        *)
PushPulseKeepsLevel(wave, t) ==
    IF wave.forceLow
    THEN [Emit(wave, t, FALSE) EXCEPT !.level = wave.level]
    ELSE Emit(wave, t, wave.level)

PushPulse(wave, t) ==
    Emit(wave, t, IF wave.forceLow THEN FALSE ELSE wave.level)

PushAll(wave, times) == FoldLeft(PushPulse, wave, times)

(* One edge for the whole pause; the next playable edge is then low.         *)
AppendPause(wave, t) ==
    IF t = 0 THEN wave
    ELSE [Emit(wave, t, wave.level) EXCEPT !.forceLow = TRUE]

Times(n, t) == [i \in 1 .. n |-> t]

BitTimes(size) == [i \in 1 .. 2 * size |-> 1]

AppendStandardBlock(wave, b) ==
    AppendPause(PushAll(wave, Times(Pilots(b) + 2, 1) \o BitTimes(b.size)),
                IF b.pause = 0 THEN StandardPause ELSE b.pause)

AppendPureData(wave, b) == AppendPause(PushAll(wave, BitTimes(b.size)), b.pause)

AppendTurboBlock(wave, b) ==
    AppendPureData(PushAll(wave, Times(b.pilots + 2, 1)), b)

(* A sample at an absolute level grows the last pulse when that has the same *)
(* level, also the last pulse of an earlier block.                           *)
PushAbsoluteLevel(wave, high) ==
    LET n == Count(wave)
    IN  IF n > 0 /\ wave.pulses[n].high = high
        THEN [wave EXCEPT !.pulses[n].t = @ + 1,
                          !.level = ~high,
                          !.forceLow = FALSE]
        ELSE Emit(wave, 1, high)

AppendDirectRecording(wave, b) ==
    AppendPause(FoldLeft(PushAbsoluteLevel, wave, b.samples), b.pause)

AppendCswRecording(wave, b) == AppendPause(PushAll(wave, b.times), b.pause)

(* A symbol's polarity: an edge, no edge, or an absolute level.              *)
Polarise(wave, polarity) ==
    CASE polarity = "edge" -> wave
      [] polarity = "same" -> [wave EXCEPT !.forceLow = FALSE, !.level = ~@]
      [] polarity = "low" -> [wave EXCEPT !.forceLow = FALSE, !.level = FALSE]
      [] polarity = "high" -> [wave EXCEPT !.forceLow = FALSE, !.level = TRUE]

EmitSymbol(wave, symbol) ==
    PushAll(Polarise(wave, symbol.polarity), symbol.times)

AppendGeneralizedData(wave, b) ==
    AppendPause(FoldLeft(EmitSymbol, wave, b.symbols), b.pause)

PausePulses(t) == IF t = 0 THEN 0 ELSE 1

(* What the parser expects a block to add before it synthesises it; the      *)
(* merge of equal samples is not foreseen, and a generalized block is        *)
(* checked pulse by pulse instead.                                           *)
Estimate(b) ==
    CASE b.op = "standard" ->
            Pilots(b) + 2 + 2 * b.size + 1
      [] b.op = "turbo" -> b.pilots + 2 + 2 * b.size + PausePulses(b.pause)
      [] b.op = "tone" -> b.count
      [] b.op = "sequence" -> Len(b.times)
      [] b.op = "data" -> 2 * b.size + PausePulses(b.pause)
      [] b.op = "direct" -> Len(b.samples) + PausePulses(b.pause)
      [] b.op = "csw" -> b.stored + PausePulses(b.pause)
      [] b.op = "general" -> 0
      [] b.op = "pause" -> PausePulses(b.pause)

Synthesise(wave, b) ==
    CASE b.op = "standard" -> AppendStandardBlock(wave, b)
      [] b.op = "turbo" -> AppendTurboBlock(wave, b)
      [] b.op = "tone" -> PushAll(wave, Times(b.count, 1))
      [] b.op = "sequence" -> PushAll(wave, b.times)
      [] b.op = "data" -> AppendPureData(wave, b)
      [] b.op = "direct" -> AppendDirectRecording(wave, b)
      [] b.op = "csw" -> AppendCswRecording(wave, b)
      [] b.op = "general" -> AppendGeneralizedData(wave, b)
      [] b.op = "pause" -> AppendPause(wave, b.pause)

=============================================================================
