------------------------------ MODULE NextCtc ------------------------------
(***************************************************************************)
(* The four CTC timer/counter channels of the ZX Spectrum Next             *)
(* (crates/bus/src/next_ctc.rs) and the interrupt chain they drive         *)
(* (crates/bus/src/next.rs, crates/machine/src/next.rs): control words and *)
(* time constants written by the guest, the master clock that runs the     *)
(* channels, the cascade from a channel to the next, interrupt status,     *)
(* acknowledgement in pulse and in hardware-IM2 mode, and RETI.            *)
(*                                                                         *)
(* advance_to is a loop; its body is an action of its own, and while the   *)
(* loop has clocks left nothing else happens (elapsed > 0).  The output    *)
(* flag, which no code reads, is left out.                                 *)
(***************************************************************************)
EXTENDS Integers, Sequences

CONSTANTS
    ChannelCount,    \* CHANNELS (4)
    ShortPrescale,   \* clocks per count without control bit 5 (16)
    LongPrescale,    \* clocks per count with control bit 5 (256)
    FullConstant,    \* what the time constant byte 0 stands for (256)
    ControlWords,    \* bound: the control words the guest writes, by channel
    ConstantBytes,   \* bound: the time constant bytes, by channel
    Masks,           \* bound: the channel masks written to NextReg $C5 and $C9
    MaxElapsed       \* bound: clocks between two calls of advance_to

Channels == 0 .. ChannelCount - 1

(* A control word with bit 0 set, by its bits 7 to 1. *)
Word == [interrupt : BOOLEAN, counting : BOOLEAN, long : BOOLEAN, edge : BOOLEAN,
         trigger : BOOLEAN, constant : BOOLEAN, reset : BOOLEAN]

ASSUME CtcAssumption ==
    /\ ChannelCount \in Nat \ {0}
    /\ ShortPrescale \in Nat \ {0}
    /\ LongPrescale \in Nat /\ ShortPrescale <= LongPrescale
    /\ FullConstant \in Nat \ {0}
    /\ ControlWords \in [Channels -> SUBSET Word]
    /\ ConstantBytes \in [Channels -> SUBSET (0 .. FullConstant - 1)]
    /\ Masks \subseteq SUBSET Channels
    /\ MaxElapsed \in Nat

VARIABLES
    channels,    \* NextCtc.channels
    status,      \* NextCtc.status: channels that overflowed and were not cleared
    elapsed,     \* clocks the running advance_to call has still to play
    hardware,    \* NextReg $C0 bit 0: hardware-IM2 mode
    nest         \* history: channels acknowledged into service, not yet returned

vars == <<channels, status, elapsed, hardware, nest>>

None == 0        \* no pending time constant: constants are at least 1

Channel ==
    [interrupt : BOOLEAN,                      \* control bit 7
     counting : BOOLEAN,                       \* control bit 6
     edge : BOOLEAN,                           \* control bit 4
     time_constant : 0 .. FullConstant,
     counter : 0 .. FullConstant,
     prescaler : {ShortPrescale, LongPrescale},
     prescaler_left : 0 .. LongPrescale,
     expect_constant : BOOLEAN,
     pending_constant : 0 .. FullConstant,
     configured : BOOLEAN,
     hard_reset : BOOLEAN,
     waiting_for_trigger : BOOLEAN,
     running : BOOLEAN,
     pending : BOOLEAN,
     in_service : BOOLEAN]

DefaultChannel ==
    [interrupt |-> FALSE, counting |-> FALSE, edge |-> FALSE,
     time_constant |-> 0, counter |-> 0,
     prescaler |-> ShortPrescale, prescaler_left |-> ShortPrescale,
     expect_constant |-> FALSE, pending_constant |-> None,
     configured |-> FALSE, hard_reset |-> TRUE, waiting_for_trigger |-> FALSE,
     running |-> FALSE, pending |-> FALSE, in_service |-> FALSE]

Init ==
    /\ channels = [c \in Channels |-> DefaultChannel]
    /\ status = {}
    /\ elapsed = 0
    /\ hardware = FALSE
    /\ nest = <<>>

-----------------------------------------------------------------------------
(* One channel. *)

Armed(ch) == ch.configured /\ ~ch.hard_reset

(* decrement: the down-counter reaches zero and reloads. *)
Overflows(ch) == Armed(ch) /\ ch.counter = 1

ReloadConstant(ch) ==
    IF ch.pending_constant = None THEN ch.time_constant ELSE ch.pending_constant

Reload(ch) ==
    [ch EXCEPT !.time_constant = ReloadConstant(ch),
               !.counter = ReloadConstant(ch),
               !.pending_constant = None,
               !.prescaler_left = ch.prescaler,
               !.pending = @ \/ ch.interrupt]

Decrement(ch) ==
    CASE Overflows(ch) -> Reload(ch)
      [] Armed(ch) /\ ch.counter > 1 -> [ch EXCEPT !.counter = @ - 1]
      [] OTHER -> ch

(* trigger: an edge counts in counter mode and starts a waiting timer. *)
Carries(ch) == ch.counting /\ Overflows(ch)

Trigger(ch) ==
    CASE Armed(ch) /\ ch.counting -> Decrement(ch)
      [] Armed(ch) /\ ~ch.counting /\ ch.waiting_for_trigger ->
            [ch EXCEPT !.waiting_for_trigger = FALSE,
                       !.running = TRUE,
                       !.prescaler_left = ch.prescaler]
      [] OTHER -> ch

(* Mutated form: a time constant byte of 0 is taken as it is. *)
LoadConstantZero(ch, byte) ==
    [ch EXCEPT !.expect_constant = FALSE, !.hard_reset = FALSE,
               !.time_constant = byte, !.counter = byte,
               !.prescaler_left = ch.prescaler, !.configured = TRUE,
               !.running = ~ch.waiting_for_trigger]

(* load_constant: a running channel takes the constant at its next reload. *)
LoadConstant(ch, byte) ==
    LET constant == IF byte = 0 THEN FullConstant ELSE byte
    IN  IF ch.configured /\ ch.running
        THEN [ch EXCEPT !.expect_constant = FALSE,
                        !.hard_reset = FALSE,
                        !.pending_constant = constant]
        ELSE [ch EXCEPT !.expect_constant = FALSE,
                        !.hard_reset = FALSE,
                        !.time_constant = constant,
                        !.counter = constant,
                        !.prescaler_left = ch.prescaler,
                        !.configured = TRUE,
                        !.running = ~ch.waiting_for_trigger]

(* control: after a hard reset only a word announcing a constant is taken. *)
Ignored(ch, w) == ch.hard_reset /\ ~w.constant

TakeMode(ch, w) ==
    [ch EXCEPT !.interrupt = w.interrupt,
               !.counting = w.counting,
               !.edge = w.edge,
               !.prescaler = IF w.long THEN LongPrescale ELSE ShortPrescale,
               !.waiting_for_trigger = w.trigger,
               !.running = @ \/ (Armed(ch) /\ ~w.trigger)]

StopIfReset(ch, w) ==
    IF w.reset
    THEN [ch EXCEPT !.running = FALSE,
                    !.pending = FALSE,
                    !.counter = ch.time_constant,
                    !.prescaler_left = ch.prescaler,
                    !.pending_constant = None,
                    !.configured = FALSE,
                    !.hard_reset = ~w.constant]
    ELSE ch

AnnounceConstant(ch, w) ==
    IF w.constant
    THEN [ch EXCEPT !.hard_reset = FALSE, !.expect_constant = TRUE]
    ELSE ch

Control(ch, w) ==
    IF Ignored(ch, w) THEN ch
    ELSE AnnounceConstant(StopIfReset(TakeMode(ch, w), w), w)

EdgeChanged(ch, w) == ~Ignored(ch, w) /\ ch.edge # w.edge

-----------------------------------------------------------------------------
(* Port writes by the guest.  A byte is a time constant when one is         *)
(* expected, else a control word if its bit 0 is set, else nothing.         *)

WriteConstant(c, byte) ==
    /\ elapsed = 0
    /\ channels[c].expect_constant
    /\ channels' = [channels EXCEPT ![c] = LoadConstant(@, byte)]
    /\ UNCHANGED <<status, elapsed, hardware, nest>>

WriteControl(c, w) ==
    /\ elapsed = 0
    /\ ~channels[c].expect_constant
    /\ LET set == Control(channels[c], w)
           edge == EdgeChanged(channels[c], w)
       IN  /\ channels' = [channels EXCEPT ![c] = IF edge THEN Trigger(set) ELSE set]
           /\ status' = IF edge /\ Carries(set) THEN status \cup {c} ELSE status
    /\ UNCHANGED <<elapsed, hardware, nest>>

-----------------------------------------------------------------------------
(* The master clock. *)

Timing(ch) == ch.running /\ ch.configured /\ ~ch.counting

Due(ch) == ch.running /\ ch.configured /\ ch.prescaler_left = 0

(* Each running timer's prescaler after k clocks (saturating_sub). *)
Elapse(chs, k) ==
    [c \in Channels |->
        IF Timing(chs[c])
        THEN [chs[c] EXCEPT !.prescaler_left = IF @ > k THEN @ - k ELSE 0]
        ELSE chs[c]]

DueChannels(chs) == {c \in Channels : Due(chs[c])}

CountDue(chs) ==
    [c \in Channels |->
        IF Due(chs[c])
        THEN Decrement([chs[c] EXCEPT !.prescaler_left = chs[c].prescaler])
        ELSE chs[c]]

TimerOverflows(chs) == {c \in DueChannels(chs) : Overflows(chs[c])}

After(c, n) == (c + n) % ChannelCount

(* Mutated form: the last channel has no successor. *)
CascadeToTheEnd(chs, timers) ==
    timers \cup
    {c \in Channels \ timers :
        \E s \in timers, n \in 1 .. ChannelCount - 1 :
            /\ c = s + n
            /\ \A i \in 1 .. n : s + i \notin timers /\ Carries(chs[s + i])}

(* The zero-count output of a channel triggers the next channel, around the *)
(* ring, unless that one has itself just timed out; a counter that reaches  *)
(* zero passes the edge on.  This is what tick's queue computes.            *)
Cascade(chs, timers) ==
    timers \cup
    {c \in Channels \ timers :
        \E s \in timers, n \in 1 .. ChannelCount - 1 :
            /\ c = After(s, n)
            /\ \A i \in 1 .. n : After(s, i) \notin timers /\ Carries(chs[After(s, i)])}

Triggered(over, timers) == {c \in Channels \ timers : \E s \in over : c = After(s, 1)}

(* tick: the channels afterwards and those that overflowed. *)
Tick(chs) ==
    LET timers == TimerOverflows(chs)
        counted == CountDue(chs)
        over == Cascade(counted, timers)
    IN  [channels |->
            [c \in Channels |->
                IF c \in Triggered(over, timers) THEN Trigger(counted[c]) ELSE counted[c]],
         over |-> over]

(* One turn of advance_to's loop for k clocks. *)
Advance(chs, k) ==
    LET aged == Elapse(chs, k)
    IN  IF DueChannels(aged) = {} THEN [channels |-> aged, over |-> {}] ELSE Tick(aged)

(* Mutated form: all the clocks left are taken in one turn. *)
IsTurnWhole(chs, left, k) == k = left

(* The clocks of a turn: up to the next prescaler event, at most what is left. *)
AtLeastOne(n) == IF n = 0 THEN 1 ELSE n

IsTurn(chs, left, k) ==
    /\ k <= left
    /\ \A c \in Channels : Timing(chs[c]) => k <= AtLeastOne(chs[c].prescaler_left)
    /\ \/ k = left
       \/ \E c \in Channels : Timing(chs[c]) /\ k = AtLeastOne(chs[c].prescaler_left)

AdvanceTo(clocks) ==
    /\ elapsed = 0
    /\ elapsed' = clocks
    /\ UNCHANGED <<channels, status, hardware, nest>>

AdvanceTurn ==
    \E k \in 1 .. elapsed :
        /\ IsTurn(channels, elapsed, k)
        /\ channels' = Advance(channels, k).channels
        /\ status' = status \cup Advance(channels, k).over
        /\ elapsed' = elapsed - k
        /\ UNCHANGED <<hardware, nest>>

-----------------------------------------------------------------------------
(* Interrupts. *)

(* NextReg $C5 *)
WriteInterruptEnable(enabled) ==
    /\ elapsed = 0
    /\ channels' = [c \in Channels |-> [channels[c] EXCEPT !.interrupt = c \in enabled]]
    /\ UNCHANGED <<status, elapsed, hardware, nest>>

(* Mutated form: a status bit is cleared under its pending request. *)
ClearAnyInterruptStatus(cleared) ==
    /\ elapsed = 0
    /\ status' = status \ cleared
    /\ UNCHANGED <<channels, elapsed, hardware, nest>>

(* NextReg $C9 *)
ClearInterruptStatus(cleared) ==
    /\ elapsed = 0
    /\ status' = status \ {c \in cleared : ~channels[c].pending}
    /\ UNCHANGED <<channels, elapsed, hardware, nest>>

(* NextReg $C0 bit 0 *)
WriteInterruptControl(mode) ==
    /\ elapsed = 0
    /\ hardware' = mode
    /\ UNCHANGED <<channels, status, elapsed, nest>>

Requests(ch) == ch.pending /\ ch.interrupt

(* Mutated form: a channel in service does not hold back its own request. *)
OfferedAgain(c) ==
    /\ Requests(channels[c])
    /\ \A d \in 0 .. c - 1 : ~channels[d].in_service /\ ~Requests(channels[d])

(* highest_request: the first channel with a request, if no channel up to it *)
(* is in service.                                                            *)
Offered(c) ==
    /\ Requests(channels[c])
    /\ \A d \in 0 .. c : ~channels[d].in_service
    /\ \A d \in 0 .. c - 1 : ~Requests(channels[d])

(* The CPU takes the interrupt in IM2 while the chain is in hardware mode. *)
Acknowledge(c) ==
    /\ elapsed = 0
    /\ hardware
    /\ Offered(c)
    /\ channels' = [channels EXCEPT ![c].pending = FALSE, ![c].in_service = TRUE]
    /\ nest' = Append(nest, c)
    /\ UNCHANGED <<status, elapsed, hardware>>

(* Mutated form: an acknowledgement in pulse mode drops every request. *)
AcknowledgePulseAll(c) ==
    /\ elapsed = 0
    /\ ~hardware
    /\ Offered(c)
    /\ channels' = [d \in Channels |-> [channels[d] EXCEPT !.pending = FALSE]]
    /\ UNCHANGED <<status, elapsed, hardware, nest>>

(* Pulse mode, any CPU interrupt mode; also the frame interrupt's. *)
AcknowledgePulse(c) ==
    /\ elapsed = 0
    /\ ~hardware
    /\ Offered(c)
    /\ channels' = [channels EXCEPT ![c].pending = FALSE]
    /\ UNCHANGED <<status, elapsed, hardware, nest>>

(* reti: releases the lowest-numbered channel in service.  The history       *)
(* forgets the latest acknowledgement.                                       *)
Reti(c) ==
    /\ elapsed = 0
    /\ channels[c].in_service
    /\ \A d \in 0 .. c - 1 : ~channels[d].in_service
    /\ channels' = [channels EXCEPT ![c].in_service = FALSE]
    /\ nest' = SubSeq(nest, 1, Len(nest) - 1)
    /\ UNCHANGED <<status, elapsed, hardware>>

(* soft_reset; the clock catches up over idle channels. *)
SoftReset ==
    /\ elapsed = 0
    /\ channels' = [c \in Channels |-> DefaultChannel]
    /\ status' = {}
    /\ hardware' = FALSE
    /\ nest' = <<>>
    /\ UNCHANGED elapsed

Next ==
    \/ \E c \in Channels :
          \/ \E byte \in ConstantBytes[c] : WriteConstant(c, byte)
          \/ \E w \in ControlWords[c] : WriteControl(c, w)
          \/ Acknowledge(c)
          \/ AcknowledgePulse(c)
          \/ Reti(c)
    \/ \E clocks \in 1 .. MaxElapsed : AdvanceTo(clocks)
    \/ AdvanceTurn
    \/ \E mask \in Masks : WriteInterruptEnable(mask) \/ ClearInterruptStatus(mask)
    \/ \E mode \in BOOLEAN : WriteInterruptControl(mode)
    \/ SoftReset

Spec == Init /\ [][Next]_vars

-----------------------------------------------------------------------------
(* Properties *)

(* Types, with the bounds the countdown relies on: between two turns a       *)
(* prescaler is never left at zero, or the next tick of another channel      *)
(* would clock this one too (tick tests only prescaler_left == 0).           *)
TypeOK ==
    /\ channels \in [Channels -> Channel]
    /\ \A c \in Channels : channels[c].prescaler_left > 0
    /\ status \subseteq Channels
    /\ elapsed \in 0 .. MaxElapsed
    /\ hardware \in BOOLEAN
    /\ nest \in Seq(Channels)

ChannelCoherent(ch) ==
    /\ ch.configured => ~ch.hard_reset /\ 1 <= ch.counter /\ ch.counter <= ch.time_constant
    /\ ch.running => ch.configured
    /\ ch.pending => ch.configured
    /\ ch.pending_constant # None => ch.configured

(* Whatever sequence of words, constants, resets and edges the guest writes, *)
(* a configured channel counts between 1 and its time constant, so it does   *)
(* overflow, and nothing runs, interrupts or awaits a constant unconfigured. *)
ChannelsCoherent == \A c \in Channels : ChannelCoherent(channels[c])

(* A pending request can always be found by polling NextReg $C9: clearing    *)
(* the status, acknowledging and resetting never leave a request whose       *)
(* status bit is gone.                                                       *)
StatusCoversRequests == \A c \in Channels : channels[c].pending => c \in status

(* Hardware-IM2 service nests by priority: each channel in service outranks  *)
(* those acknowledged before it, and RETI (which looks only at the channel   *)
(* numbers) has always released the latest acknowledged one.                 *)
ServiceNests ==
    /\ \A c \in Channels : channels[c].in_service <=> \E i \in DOMAIN nest : nest[i] = c
    /\ \A i, j \in DOMAIN nest : i < j => nest[j] < nest[i]

(* A request goes away only because its channel is reset, or because the     *)
(* chain offered it: enabled, ahead of every other request, nothing of the   *)
(* same or a higher rank in service.                                         *)
RequestsLeaveInOrder ==
    [][\A c \in Channels :
          channels[c].pending /\ ~channels'[c].pending =>
             \/ ~channels'[c].configured
             \/ /\ channels[c].interrupt
                /\ \A d \in 0 .. c : ~channels[d].in_service
                /\ \A d \in 0 .. c - 1 : ~(channels[d].pending /\ channels[d].interrupt)]_vars

(* Skipping from event to event loses no tick: one turn of k clocks leaves   *)
(* the channels, and reports the overflows, of k turns of one clock.         *)
SkippingIsExact ==
    \A k \in 2 .. LongPrescale :
        IsTurn(channels, k, k) =>
            LET before == Advance(channels, k - 1)
                last == Advance(before.channels, 1)
            IN  /\ Advance(channels, k).channels = last.channels
                /\ Advance(channels, k).over = before.over \cup last.over

=============================================================================
