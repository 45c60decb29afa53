------------------------------- MODULE NextDma -------------------------------
(* The zxnDMA of crates/bus/src/next_dma.rs and its use in crates/bus/src/   *)
(* next.rs (write_dma, transfer_dma_byte, advance_dma), under the clock of    *)
(* NextMachine::step_once in crates/machine/src/next.rs.                      *)
(*                                                                           *)
(* What is moved, from which side and between memory and ports, is data and   *)
(* left out. A byte that the DMA sends to its own port is among them: the bus *)
(* has taken the DMA out of its place meanwhile, and the byte changes nothing.*)
EXTENDS Integers, Sequences

CONSTANTS
    Byte,           \* values of a byte of an address or a length (256)
    Commands,       \* the register bytes that the guest sends, decoded
    Parameters,     \* and the bytes it lets follow for each register
    ReadMasks,          \* sets of bytes of the read sequence it asks for
    PrescalerUnit,  \* T-states of one count of the prescaler (4)
    Lengths,        \* T-states of an instruction
    MaxTime         \* bound: instructions start before it

VARIABLES
    dma,            \* NextDma
    video_t,        \* the machine's clock in T-states
    step,           \* the instruction in progress: its end, and what is left
                    \* of a continuous transfer
    block,          \* history: the length of the block that was loaded last,
    moved,          \* how many of its bytes have been moved,
    last            \* and when the last byte was (0: none yet)

dmaVars == <<dma, video_t, step, block, moved, last>>

AddressWord == Byte * Byte
NoTime == -1

(* Registers whose bytes follow a command (NextDma::write_parameter).        *)
Registers ==
    {"start_a low", "start_a high", "length low", "length high", "timing_a",
     "timing_b", "prescaler", "start_b low", "start_b high"}

AddressModes == {"decrement", "increment", "fixed"}

(* A byte that starts a write group, with the registers whose bytes follow;   *)
(* the bits of the byte itself are taken apart here.                         *)
Command ==
    [name : {"reset", "reset timing_a", "reset timing_b", "read status",
             "initiate read", "reset read mask", "read mask follows",
             "load", "continue", "enable", "disable", "other"}]
        \cup [name : {"WR0"}, follow : Seq(Registers)]
        \cup [name : {"WR1", "WR2"}, mode : AddressModes, follow : Seq(Registers)]
        \cup [name : {"WR4"}, burst : BOOLEAN, follow : Seq(Registers)]

DmaConstants ==
    /\ Byte \in Nat \ {0}
    /\ Parameters \in [Registers -> SUBSET Nat]
    /\ \A r \in Registers \ {"timing_a", "timing_b", "prescaler"} :
          Parameters[r] \subseteq 0..(Byte - 1)
    /\ Commands \subseteq Command
    /\ ReadMasks \subseteq SUBSET (0..6)
    /\ PrescalerUnit \in Nat \ {0}
    /\ Lengths \subseteq Nat \ {0}
    /\ MaxTime \in Nat

ASSUME DmaAssumption == DmaConstants

(* update_read_sequence: the status byte stands for its two bits.            *)
ReadSequence(d) ==
    <<[end_of_block |-> d.completed, transferred |-> d.transferred],
      d.remaining % Byte, d.remaining \div Byte,
      d.port_a % Byte, d.port_a \div Byte,
      d.port_b % Byte, d.port_b \div Byte>>

UpdateReadSequence(d) == [d EXCEPT !.read_sequence = ReadSequence(d)]

Default ==
    [port_a |-> 0, port_b |-> 0, start_a |-> 0, start_b |-> 0, length |-> 0,
     remaining |-> 0, transferred |-> FALSE, completed |-> FALSE,
     mode_a |-> "increment", mode_b |-> "increment",
     timing_a |-> 2, timing_b |-> 2, prescaler |-> 0, burst |-> FALSE,
     active |-> FALSE, next_transfer_t |-> NoTime,
     read_mask |-> 0..6, read_index |-> 0,
     read_sequence |->
         <<[end_of_block |-> FALSE, transferred |-> FALSE], 0, 0, 0, 0, 0, 0>>,
     read_status_pending |-> FALSE, read_mask_pending |-> FALSE,
     pending |-> <<>>]

-----------------------------------------------------------------------------
(* Registers.                                                                *)

Low(word, b) == (word \div Byte) * Byte + b
High(word, b) == (word % Byte) + b * Byte

(* cycle_length.                                                             *)
CycleLength(b) == CASE b % 4 = 0 -> 4 [] b % 4 = 1 -> 3 [] OTHER -> 2

(* The parameter byte of port B's timing may announce the prescaler: bit 5.  *)
WriteParameter(d, register, b) ==
    CASE register = "start_a low" -> [d EXCEPT !.start_a = Low(@, b)]
      [] register = "start_a high" -> [d EXCEPT !.start_a = High(@, b)]
      [] register = "length low" -> [d EXCEPT !.length = Low(@, b)]
      [] register = "length high" -> [d EXCEPT !.length = High(@, b)]
      [] register = "timing_a" -> [d EXCEPT !.timing_a = CycleLength(b)]
      [] register = "timing_b" ->
            [d EXCEPT !.timing_b = CycleLength(b),
                      !.pending = IF (b \div 32) % 2 = 1
                                  THEN Append(@, "prescaler") ELSE @]
      [] register = "prescaler" -> [d EXCEPT !.prescaler = b]
      [] register = "start_b low" -> [d EXCEPT !.start_b = Low(@, b)]
      [] register = "start_b high" -> [d EXCEPT !.start_b = High(@, b)]
      [] OTHER -> d

(* NextDma::write of a byte that starts a group.                             *)
WriteCommand(d, c) ==
    CASE c.name = "reset" -> Default
      [] c.name = "reset timing_a" -> [d EXCEPT !.timing_a = 2, !.prescaler = 0]
      [] c.name = "reset timing_b" -> [d EXCEPT !.timing_b = 2, !.prescaler = 0]
      [] c.name = "read status" -> [d EXCEPT !.read_status_pending = TRUE]
      [] c.name = "initiate read" -> [d EXCEPT !.read_index = 0]
      [] c.name = "reset read mask" ->
            [d EXCEPT !.read_mask = 0..6, !.read_index = 0]
      [] c.name = "read mask follows" -> [d EXCEPT !.read_mask_pending = TRUE]
      [] c.name = "disable" -> [d EXCEPT !.active = FALSE, !.next_transfer_t = NoTime]
      [] c.name = "WR0" -> [d EXCEPT !.pending = c.follow]
      [] c.name = "WR1" -> [d EXCEPT !.mode_a = c.mode, !.pending = c.follow]
      [] c.name = "WR2" -> [d EXCEPT !.mode_b = c.mode, !.pending = c.follow]
      [] c.name = "WR4" -> [d EXCEPT !.burst = c.burst, !.pending = c.follow]
      [] OTHER -> d

(* The effect of LOAD, and of CONTINUE, which keeps the pointers.            *)
Continued(d) ==
    UpdateReadSequence(
        [d EXCEPT !.remaining = d.length, !.transferred = FALSE,
                  !.completed = d.length = 0,
                  !.active = FALSE, !.next_transfer_t = NoTime])

Loaded(d) == Continued([d EXCEPT !.port_a = d.start_a, !.port_b = d.start_b])

EnableAt(d, t) ==
    [d EXCEPT !.active = d.remaining > 0,
              !.next_transfer_t = IF d.remaining > 0 THEN t ELSE NoTime]

(* NextDma::read: what is left of the read sequence after a byte was read.   *)
FirstIn(mask, from) ==
    CHOOSE i \in from..7 :
        /\ i = 7 \/ i \in mask
        /\ \A j \in from..(i - 1) : j \notin mask

ReadIndex(d) ==
    LET i == IF d.read_index < 7 THEN FirstIn(d.read_mask, d.read_index)
             ELSE d.read_index
    IN  IF i # 7 THEN i ELSE IF 0 \in d.read_mask THEN 0 ELSE 7

Read(d) ==
    IF d.read_status_pending THEN [d EXCEPT !.read_status_pending = FALSE]
    ELSE [d EXCEPT !.read_index = ReadIndex(d) + 1]

-----------------------------------------------------------------------------
(* Transfers.                                                                *)

UsesBurstWait(d) == d.burst /\ d.prescaler # 0

ByteCycles(d) ==
    (IF d.timing_a < 2 THEN 2 ELSE d.timing_a)
        + (IF d.timing_b < 2 THEN 2 ELSE d.timing_b)

Period(d) ==
    IF d.prescaler = 0 \/ d.prescaler * PrescalerUnit < ByteCycles(d)
    THEN ByteCycles(d) ELSE d.prescaler * PrescalerUnit

ContinuousStall(d) == Period(d) * d.remaining

AdvanceAddress(address, mode) ==
    CASE mode = "decrement" -> (address - 1) % AddressWord
      [] mode = "increment" -> (address + 1) % AddressWord
      [] OTHER -> address

(* Mutated form of CompleteByte: the counter is updated after the registers  *)
(* that are read back.                                                       *)
CompleteByteReadBackLate(d, t) ==
    LET left == d.remaining - 1
    IN  [UpdateReadSequence([d EXCEPT !.port_a = AdvanceAddress(@, d.mode_a),
                                      !.port_b = AdvanceAddress(@, d.mode_b),
                                      !.transferred = TRUE,
                                      !.completed = left = 0])
            EXCEPT !.remaining = left, !.active = left # 0,
                   !.next_transfer_t = IF left = 0 THEN NoTime ELSE t + Period(d)]

CompleteByte(d, t) ==
    LET left == d.remaining - 1
    IN  UpdateReadSequence(
            [d EXCEPT !.port_a = AdvanceAddress(@, d.mode_a),
                      !.port_b = AdvanceAddress(@, d.mode_b),
                      !.transferred = TRUE, !.remaining = left,
                      !.active = left # 0,
                      !.completed = IF left = 0 THEN TRUE ELSE @,
                      !.next_transfer_t =
                          IF left = 0 THEN NoTime ELSE t + Period(d)])

-----------------------------------------------------------------------------
(* Instructions of the guest.                                                *)

NoStep == [end |-> NoTime, left |-> 0, at |-> NoTime, period |-> 0]

DmaInit ==
    /\ dma = Default
    /\ video_t = 0
    /\ step = NoStep
    /\ block = 0 /\ moved = 0 /\ last = 0

(* An instruction of len T-states, which a transfer in bulk makes longer.    *)
Begin(len) ==
    /\ step = NoStep
    /\ video_t < MaxTime
    /\ step' = [NoStep EXCEPT !.end = video_t + len]
    /\ UNCHANGED <<video_t, last>>

(* One that does not address the DMA.                                        *)
OtherInstruction == \E len \in Lengths : Begin(len) /\ UNCHANGED <<dma, block, moved>>

WriteParameterByte ==
    /\ dma.pending # <<>>
    /\ \E len \in Lengths : Begin(len)
    /\ LET register == Head(dma.pending)
       IN  \E b \in Parameters[register] :
              dma' = WriteParameter([dma EXCEPT !.pending = Tail(@)], register, b)
    /\ UNCHANGED <<block, moved>>

WriteReadMask ==
    /\ dma.pending = <<>> /\ dma.read_mask_pending
    /\ \E len \in Lengths : Begin(len)
    /\ \E mask \in ReadMasks :
          dma' = [dma EXCEPT !.read_mask = mask, !.read_mask_pending = FALSE,
                             !.read_index = 0]
    /\ UNCHANGED <<block, moved>>

Expects(name) ==
    /\ dma.pending = <<>> /\ ~dma.read_mask_pending
    /\ \E c \in Commands : c.name = name

WriteGroup ==
    /\ \E c \in Commands :
          /\ c.name \notin {"reset", "load", "continue", "enable"}
          /\ Expects(c.name)
          /\ dma' = WriteCommand(dma, c)
    /\ \E len \in Lengths : Begin(len)
    /\ UNCHANGED <<block, moved>>

WriteReset ==
    /\ Expects("reset")
    /\ \E len \in Lengths : Begin(len)
    /\ dma' = Default
    /\ block' = 0 /\ moved' = 0

WriteLoad ==
    /\ Expects("load")
    /\ \E len \in Lengths : Begin(len)
    /\ dma' = Loaded(dma)
    /\ block' = dma.length /\ moved' = 0

WriteContinue ==
    /\ Expects("continue")
    /\ \E len \in Lengths : Begin(len)
    /\ dma' = Continued(dma)
    /\ block' = dma.length /\ moved' = 0

(* Mutated form of WriteEnable: the guest does not wait.                     *)
WriteEnableWithoutStall ==
    /\ Expects("enable")
    /\ step = NoStep /\ video_t < MaxTime
    /\ \E len \in Lengths : \E t \in (video_t + 1)..(video_t + len - 1) :
          LET d == EnableAt(dma, t)
              bulk == d.active /\ ~UsesBurstWait(d)
          IN  /\ dma' = d
              /\ step' = IF bulk
                         THEN [end |-> video_t + len, left |-> d.remaining,
                               at |-> t, period |-> Period(d)]
                         ELSE [NoStep EXCEPT !.end = video_t + len]
    /\ UNCHANGED <<video_t, block, moved, last>>

(* ENABLE, at time t of the instruction: a transfer that is not a burst with *)
(* pauses is done in the same access, and the guest waits for all of it.     *)
WriteEnable ==
    /\ Expects("enable")
    /\ step = NoStep /\ video_t < MaxTime
    /\ \E len \in Lengths : \E t \in (video_t + 1)..(video_t + len - 1) :
          LET d == EnableAt(dma, t)
              bulk == d.active /\ ~UsesBurstWait(d)
          IN  /\ dma' = d
              /\ step' = IF bulk
                         THEN [end |-> video_t + len + ContinuousStall(d),
                               left |-> d.remaining, at |-> t, period |-> Period(d)]
                         ELSE [NoStep EXCEPT !.end = video_t + len]
    /\ UNCHANGED <<video_t, block, moved, last>>

ReadByte ==
    /\ \E len \in Lengths : Begin(len)
    /\ dma' = Read(dma)
    /\ UNCHANGED <<block, moved>>

(* transfer_dma_byte, in the loop of write_dma or in that of advance_dma.     *)
TransferByte(t) ==
    /\ dma.active
    /\ dma' = CompleteByte(dma, t)
    /\ moved' = moved + 1
    /\ last' = t
    /\ UNCHANGED <<video_t, block>>

BulkByte ==
    /\ step.left > 0
    /\ TransferByte(step.at)
    /\ step' = [step EXCEPT !.left = @ - 1, !.at = @ + step.period]

BurstIsDue ==
    /\ dma.active /\ UsesBurstWait(dma)
    /\ dma.next_transfer_t <= step.end

BurstByte ==
    /\ step # NoStep /\ step.left = 0
    /\ BurstIsDue
    /\ TransferByte(dma.next_transfer_t)
    /\ UNCHANGED step

EndInstruction ==
    /\ step # NoStep /\ step.left = 0
    /\ ~BurstIsDue
    /\ video_t' = step.end
    /\ step' = NoStep
    /\ UNCHANGED <<dma, block, moved, last>>

(* A reset of the machine between two instructions (NextBus::hard_reset).     *)
ResetMachine ==
    /\ step = NoStep
    /\ dma' = Default
    /\ block' = 0 /\ moved' = 0
    /\ UNCHANGED <<video_t, step, last>>

DmaNext ==
    \/ OtherInstruction
    \/ WriteParameterByte \/ WriteReadMask \/ WriteGroup
    \/ WriteReset \/ WriteLoad \/ WriteContinue \/ WriteEnable
    \/ ReadByte
    \/ BulkByte \/ BurstByte \/ EndInstruction
    \/ ResetMachine

DmaSpec == DmaInit /\ [][DmaNext]_dmaVars

-----------------------------------------------------------------------------
(* Of a block that was loaded every byte is moved once: what was moved and   *)
(* the counter make up its length, also when the guest reprograms, disables, *)
(* continues or enables the DMA in the middle, and what the guest reads back *)
(* (status, counter and pointers) is the state of the transfer (loaded,      *)
(* continued, complete_byte, update_read_sequence).                          *)
BlockIsMovedOnce ==
    /\ moved + dma.remaining = block
    /\ dma.transferred <=> moved > 0
    /\ dma.completed => dma.remaining = 0
    /\ dma.remaining = 0 /\ moved > 0 => dma.completed
    /\ dma.active => dma.remaining > 0
    /\ dma.read_sequence = ReadSequence(dma)

(* Bytes are moved one after the other in the machine's time, whichever loop *)
(* moves them, and none at a time that the guest has not come to when its    *)
(* next instruction begins (write_dma's stall, advance_dma, complete_byte).  *)
BytesInTimeOrder ==
    [][moved' > moved => last < last' /\ last' <= step.end]_dmaVars

=============================================================================
