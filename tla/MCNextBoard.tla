---------------------------- MODULE MCNextBoard ----------------------------
(* CTC, DMA and Copper of the Next board on small instances, one at a time:   *)
(* what they do to each other is in none of the properties.                   *)
EXTENDS NextCtc, NextDma, NextCopper

VARIABLE device         \* the one that the guest uses

-----------------------------------------------------------------------------
(* A pair of CTC channels, and tick's queue written out for comparison.      *)

TimerWord(interrupt, long, trigger) ==
    [interrupt |-> interrupt, counting |-> FALSE, long |-> long, edge |-> FALSE,
     trigger |-> trigger, constant |-> TRUE, reset |-> FALSE]

CounterWord(interrupt, edge) ==
    [interrupt |-> interrupt, counting |-> TRUE, long |-> FALSE, edge |-> edge,
     trigger |-> FALSE, constant |-> TRUE, reset |-> FALSE]

EdgeWord == [CounterWord(TRUE, TRUE) EXCEPT !.constant = FALSE]
RestartWord == [TimerWord(TRUE, FALSE, FALSE) EXCEPT !.reset = TRUE]
ResetWord == [RestartWord EXCEPT !.constant = FALSE]

(* Two channels, either a timer or a counter: one may be reset, the other be  *)
(* clocked by an edge of the guest or be a timer waiting for its trigger.     *)
PairWords ==
    [c \in Channels |->
        IF c = 0
        THEN {TimerWord(TRUE, TRUE, FALSE), CounterWord(TRUE, FALSE), ResetWord}
        ELSE {CounterWord(TRUE, FALSE), EdgeWord, TimerWord(FALSE, FALSE, TRUE)}]

PairConstants == [c \in Channels |-> IF c = 1 THEN {0} ELSE {1}]

PairMasks == {Channels}

-----------------------------------------------------------------------------
(* A ring of its own size, whose channels are timers that time out, wait for *)
(* a trigger or are not due, counters, and channels not yet programmed.      *)

CONSTANT RingSize

ASSUME RingAssumption == RingSize \in Nat \ {0}

Ring == INSTANCE NextCtc WITH ChannelCount <- RingSize

Configured(counting, counter) ==
    [DefaultChannel EXCEPT !.counting = counting, !.time_constant = 2,
                           !.counter = counter, !.configured = TRUE,
                           !.hard_reset = FALSE, !.running = TRUE]

RingChannels ==
    {DefaultChannel,
     [Configured(FALSE, 1) EXCEPT !.prescaler_left = 0],
     [Configured(FALSE, 2) EXCEPT !.prescaler_left = 0],
     Configured(FALSE, 1),
     [Configured(FALSE, 1) EXCEPT !.running = FALSE, !.waiting_for_trigger = TRUE],
     [Configured(FALSE, 1) EXCEPT !.hard_reset = TRUE],
     Configured(TRUE, 1),
     Configured(TRUE, 2)}

(* tick's queue, as the code walks it: the channels that timed out, in order, *)
(* then a turn for each entry, which triggers the neighbour, unless that was  *)
(* triggered before, and lists it if it overflows.                           *)

Listed(timers) ==
    LET upTo[n \in 0..RingSize] ==
            IF n = 0 THEN <<>>
            ELSE IF n - 1 \in timers THEN Append(upTo[n - 1], n - 1)
            ELSE upTo[n - 1]
    IN  upTo[RingSize]

Start(chs, timers) ==
    [channels |-> chs, over |-> timers, triggered |-> timers,
     queue |-> Listed(timers), cursor |-> 0]

Walk(q) ==
    LET target == Ring!After(q.queue[q.cursor + 1], 1)
        carries == Ring!Carries(q.channels[target])
        next == [q EXCEPT !.cursor = @ + 1]
    IN  IF q.cursor = Len(q.queue) THEN q
        ELSE IF target \in q.triggered THEN next
        ELSE [next EXCEPT
                !.channels[target] = Ring!Trigger(@),
                !.triggered = @ \cup {target},
                !.over = IF carries THEN @ \cup {target} ELSE @,
                !.queue = IF carries THEN Append(@, target) ELSE @]

Drain(q) ==
    LET turns[n \in 0..RingSize] == IF n = 0 THEN q ELSE Walk(turns[n - 1])
    IN  turns[RingSize]

Untouched == device = "ctc" /\ Init

(* The cascade reaches the channels that tick's queue reaches, however many  *)
(* channels time out together and wherever the ring wraps, each channel is   *)
(* triggered at most once, and a channel that timed out itself is not.  The  *)
(* queue, an array with a place for each channel, is not overrun and is      *)
(* walked to its end.                                                        *)
CascadeIsTheQueue ==
    Untouched =>
        \A chs \in [Ring!Channels -> RingChannels] :
            LET end == Drain(Start(Ring!CountDue(chs), Ring!TimerOverflows(chs)))
            IN  /\ Len(end.queue) <= RingSize
                /\ end.cursor = Len(end.queue)
                /\ Ring!Tick(chs).channels = end.channels
                /\ Ring!Tick(chs).over = end.over

-----------------------------------------------------------------------------
(* A DMA whose blocks have 0, 1 or 3 bytes, with bursts of 8 T-states a byte; *)
(* the prescaler that paces them can also be taken away.                      *)

DmaCommands ==
    [name : {"reset", "read mask follows", "load", "continue", "enable", "disable"}]
        \cup {[name |-> "WR0", follow |-> <<"length low", "length high">>],
              [name |-> "WR2", mode |-> "increment", follow |-> <<"timing_b">>],
              [name |-> "WR4", burst |-> TRUE, follow |-> <<>>]}

DmaParameter(register) ==
    CASE register = "timing_b" -> {34}
      [] register = "prescaler" -> {0, 2}
      [] register = "length high" -> {0, 1}
      [] OTHER -> {1}

DmaParameters ==
    [register \in {"start_a low", "start_a high", "length low", "length high", "timing_a",
                   "timing_b", "prescaler", "start_b low", "start_b high"} |->
        DmaParameter(register)]

DmaMasks == {{0}}

(* Times count only from the instruction in progress.                        *)
SinceStep(t) == IF t = NoTime THEN t ELSE t - video_t

DmaView ==
    <<[dma EXCEPT !.next_transfer_t = SinceStep(@)],
      [step EXCEPT !.end = SinceStep(@), !.at = SinceStep(@)],
      block, moved, IF last > video_t THEN SinceStep(last) ELSE 0>>

-----------------------------------------------------------------------------
(* A Copper with lists of four instructions: a frame is two lines of 3 T-states,    *)
(* and an instruction of the guest is shorter or longer than that.            *)

ListBytes == {"0", "W", "M", "C", "F"}

MoveOf(register, value) == [op |-> "move", register |-> register, value |-> value]

Decoded(high, low) ==
    CASE high = "0" /\ low = "0" -> [op |-> "noop"]
      [] high = "F" /\ low = "F" -> [op |-> "halt"]
      [] high = "F" /\ low # "F" -> [op |-> "wait", line |-> 2, column |-> 0]
      [] high = "W" ->
            [op |-> "wait", line |-> IF low = "0" THEN 0 ELSE 1,
             column |-> IF low = "M" THEN 3 ELSE 0]
      [] high = "M" -> MoveOf("video", IF low = "0" THEN 1 ELSE 2)
      [] high = "C" /\ low = "0" -> MoveOf("control", [mode |-> "stop", high |-> 1])
      [] high = "C" /\ low = "F" -> MoveOf("control", [mode |-> "frame", high |-> 0])
      [] high = "C" /\ low = "M" -> MoveOf("control", [mode |-> "start", high |-> 0])
      [] high = "C" /\ low = "W" -> MoveOf("address", 1)
      [] high = "C" /\ low = "C" -> MoveOf("data", "F")
      [] OTHER -> MoveOf("none", 0)

List(bytes) == [i \in 0..7 |-> bytes[i + 1]]

(* Lists that wait in a line, past a line and past the frame, wait for no     *)
(* line, halt, wrap around, and reprogram the Copper while it runs.           *)
Lists ==
    {List(<<"M", "0", "W", "W", "M", "M", "W", "0">>),
     List(<<"M", "M", "M", "0", "F", "F", "W", "0">>),
     List(<<"W", "M", "M", "M", "M", "0", "C", "M">>),
     List(<<"M", "0", "C", "F", "C", "C", "M", "M">>),
     List(<<"W", "0", "M", "M", "F", "0", "M", "0">>),
     List(<<"0", "0", "M", "0", "C", "W", "C", "0">>)}

ListInstruction == [p \in ListBytes \X ListBytes |-> Decoded(p[1], p[2])]

ListShapes == {[at |-> 0, len |-> 2], [at |-> 6, len |-> 7]}

ListControls == [mode : Modes, high : {0}]

-----------------------------------------------------------------------------
BoardInit ==
    /\ device \in {"ctc", "dma", "copper"}
    /\ Init /\ DmaInit /\ CopperInit
    /\ device # "copper" =>
          copper.memory = List(<<"M", "0", "W", "W", "M", "M", "W", "0">>)

BoardNext ==
    /\ \/ device = "ctc" /\ Next /\ UNCHANGED <<dmaVars, copperVars>>
       \/ device = "dma" /\ DmaNext /\ UNCHANGED <<vars, copperVars>>
       \/ device = "copper" /\ CopperNext /\ UNCHANGED <<vars, dmaVars>>
    /\ UNCHANGED device

BoardSpec == BoardInit /\ [][BoardNext]_<<device, vars, dmaVars, copperVars>>

View == <<device, vars, DmaView, copperVars>>

=============================================================================
