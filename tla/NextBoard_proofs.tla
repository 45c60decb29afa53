--------------------------- MODULE NextBoard_proofs ---------------------------
(* What two parts of the Next board promise for all values of the constants. *)
(*                                                                           *)
(* NextDma: for every size of byte, every program of the guest and all        *)
(* lengths of instructions, the accounts of a block, and the order of its     *)
(* bytes in time.                                                            *)
(*                                                                           *)
(* NextCopper: for every list, every size of frame and every program of the  *)
(* guest, the order of the list, the picture of its MOVEs, and that batches   *)
(* do not matter.                                                            *)
EXTENDS NextDma, NextCopper, SequenceTheorems, WellFoundedInduction, TLAPS

-----------------------------------------------------------------------------
(* The DMA: types.                                                           *)

Fields ==
    {"port_a", "port_b", "start_a", "start_b", "length", "remaining",
     "transferred", "completed", "mode_a", "mode_b", "timing_a", "timing_b",
     "prescaler", "burst", "active", "next_transfer_t", "read_mask",
     "read_index", "read_sequence", "read_status_pending",
     "read_mask_pending", "pending"}

(* The types that the properties rest on.                                    *)
Typed(d) ==
    /\ DOMAIN d = Fields
    /\ d.length \in Nat /\ d.remaining \in Nat
    /\ d.transferred \in BOOLEAN /\ d.completed \in BOOLEAN
    /\ d.active \in BOOLEAN
    /\ d.timing_a \in Nat /\ d.timing_b \in Nat /\ d.prescaler \in Nat
    /\ d.pending \in Seq(Registers)

(* What a transfer is about; most registers leave it alone.                  *)
SameTransfer(d, e) ==
    /\ e.remaining = d.remaining
    /\ e.transferred = d.transferred /\ e.completed = d.completed
    /\ e.port_a = d.port_a /\ e.port_b = d.port_b
    /\ e.read_sequence = d.read_sequence
    /\ \/ e.active = d.active /\ e.next_transfer_t = d.next_transfer_t
       \/ e.active = FALSE

-----------------------------------------------------------------------------
(* Numbers.                                                                  *)

LEMMA ProductOfNaturals == \A n, p \in Nat : n * p \in Nat
  OBVIOUS

LEMMA OneFewer == \A n, p \in Int : (n - 1) * p = n * p - p
  OBVIOUS

LEMMA WordsAreNatural ==
    ASSUME DmaConstants, NEW w \in Nat, NEW b \in Nat
    PROVE  Low(w, b) \in Nat /\ High(w, b) \in Nat
<1>1. w \div Byte \in Nat /\ w % Byte \in Nat /\ Byte \in Nat
  BY DEF DmaConstants
<1>2. (w \div Byte) * Byte \in Nat /\ b * Byte \in Nat
  BY <1>1, ProductOfNaturals
<1> QED
  BY <1>1, <1>2 DEF Low, High

LEMMA PeriodIsPositive ==
    ASSUME DmaConstants, NEW d, Typed(d)
    PROVE  Period(d) \in Nat \ {0}
<1>1. ByteCycles(d) \in Nat \ {0}
  BY DEF ByteCycles, Typed
<1>2. d.prescaler * PrescalerUnit \in Nat
  BY ProductOfNaturals DEF DmaConstants, Typed
<1> QED
  BY <1>1, <1>2 DEF Period

-----------------------------------------------------------------------------
(* Registers: they leave a transfer alone, or stop it.                       *)

LEMMA DefaultOK ==
    ASSUME DmaConstants
    PROVE  Typed(Default) /\ Default.read_sequence = ReadSequence(Default)
<1>1. Typed(Default)
  BY DEF Typed, Default, Fields
<1>2. 0 % Byte = 0 /\ 0 \div Byte = 0
  BY DEF DmaConstants
<1> QED
  BY <1>1, <1>2 DEF Default, ReadSequence

LEMMA ParameterKeeps ==
    ASSUME DmaConstants, NEW d, Typed(d), d.pending # <<>>,
           NEW b \in Parameters[Head(d.pending)]
    PROVE  LET e == WriteParameter([d EXCEPT !.pending = Tail(@)], Head(d.pending), b)
           IN  Typed(e) /\ SameTransfer(d, e)
<1> DEFINE register == Head(d.pending)
           p == [d EXCEPT !.pending = Tail(@)]
           e == WriteParameter(p, register, b)
<1>1. register \in Registers /\ Tail(d.pending) \in Seq(Registers)
  BY DEF Typed
<1>2. b \in Nat
  BY <1>1 DEF DmaConstants
<1>3. Typed(p) /\ SameTransfer(d, p)
  BY <1>1 DEF Typed, Fields, SameTransfer
<1>4. DOMAIN p = Fields /\ p.length \in Nat /\ p.pending \in Seq(Registers)
  BY <1>3 DEF Typed
<1>5. Low(p.length, b) \in Nat /\ High(p.length, b) \in Nat
  BY <1>2, <1>4, WordsAreNatural
<1>6. CycleLength(b) \in Nat
  BY DEF CycleLength
<1>7. Append(p.pending, "prescaler") \in Seq(Registers)
  <2>1. "prescaler" \in Registers
    BY DEF Registers
  <2>2. \A s \in Seq(Registers), r \in Registers : Append(s, r) \in Seq(Registers)
    OBVIOUS
  <2> QED
    BY ONLY <1>4, <2>1, <2>2
<1> HIDE DEF p, register
<1>8. Typed(e) /\ SameTransfer(p, e)
  <2>1. CASE register = "start_a low"
    BY <2>1, <1>3, <1>4 DEF WriteParameter, Typed, SameTransfer, Fields
  <2>2. CASE register = "start_a high"
    BY <2>2, <1>3, <1>4 DEF WriteParameter, Typed, SameTransfer, Fields
  <2>3. CASE register = "length low"
    BY <2>3, <1>3, <1>4, <1>5 DEF WriteParameter, Typed, SameTransfer, Fields
  <2>4. CASE register = "length high"
    BY <2>4, <1>3, <1>4, <1>5 DEF WriteParameter, Typed, SameTransfer, Fields
  <2>5. CASE register = "timing_a"
    BY <2>5, <1>3, <1>4, <1>6 DEF WriteParameter, Typed, SameTransfer, Fields
  <2>6. CASE register = "timing_b"
    BY <2>6, <1>3, <1>4, <1>6, <1>7 DEF WriteParameter, Typed, SameTransfer, Fields
  <2>7. CASE register = "prescaler"
    BY <2>7, <1>2, <1>3, <1>4 DEF WriteParameter, Typed, SameTransfer, Fields
  <2>8. CASE register = "start_b low"
    BY <2>8, <1>3, <1>4 DEF WriteParameter, Typed, SameTransfer, Fields
  <2>9. CASE register = "start_b high"
    BY <2>9, <1>3, <1>4 DEF WriteParameter, Typed, SameTransfer, Fields
  <2> QED
    BY <1>1, <2>1, <2>2, <2>3, <2>4, <2>5, <2>6, <2>7, <2>8, <2>9 DEF register, Registers
<1> QED
  BY <1>3, <1>8 DEF SameTransfer, p, register

LEMMA CommandKeeps ==
    ASSUME DmaConstants, NEW d, Typed(d), NEW c \in Commands,
           c.name \notin {"reset", "load", "continue", "enable"}
    PROVE  Typed(WriteCommand(d, c)) /\ SameTransfer(d, WriteCommand(d, c))
<1>1. c.name \in {"WR0", "WR1", "WR2", "WR4"} => c.follow \in Seq(Registers)
  BY DEF DmaConstants, Command
<1>2. CASE c.name \in {"WR0", "WR1", "WR2", "WR4"}
  BY <1>1, <1>2 DEF WriteCommand, Typed, SameTransfer, Fields
<1>3. CASE c.name \in {"reset timing_a", "reset timing_b", "read status",
                       "initiate read", "reset read mask", "read mask follows"}
  BY <1>3, ZenonT(60) DEF WriteCommand, Typed, SameTransfer, Fields
<1>4. CASE c.name \in {"disable", "other"}
  BY <1>4 DEF WriteCommand, Typed, SameTransfer, Fields
<1>5. c.name \in {"reset", "reset timing_a", "reset timing_b", "read status",
                  "initiate read", "reset read mask", "read mask follows",
                  "load", "continue", "enable", "disable", "other",
                  "WR0", "WR1", "WR2", "WR4"}
  BY DEF DmaConstants, Command
<1> QED
  BY <1>2, <1>3, <1>4, <1>5

LEMMA MaskKeeps ==
    ASSUME NEW d, Typed(d), NEW mask
    PROVE  LET e == [d EXCEPT !.read_mask = mask, !.read_mask_pending = FALSE,
                              !.read_index = 0]
           IN  Typed(e) /\ SameTransfer(d, e)
  BY DEF Typed, SameTransfer, Fields

LEMMA ReadKeeps ==
    ASSUME NEW d, Typed(d)
    PROVE  Typed(Read(d)) /\ SameTransfer(d, Read(d))
  BY DEF Read, Typed, SameTransfer, Fields

-----------------------------------------------------------------------------
(* The four changes of a transfer.                                           *)

(* The accounts of a block of n bytes, m of which have been moved.            *)
Accounts(d, n, m) ==
    /\ m + d.remaining = n
    /\ d.transferred <=> m > 0
    /\ d.completed => d.remaining = 0
    /\ d.remaining = 0 /\ m > 0 => d.completed
    /\ d.active => d.remaining > 0
    /\ d.read_sequence = ReadSequence(d)

LEMMA DefaultAccounts == ASSUME DmaConstants PROVE Accounts(Default, 0, 0)
<1>1. /\ Default.remaining = 0 /\ Default.transferred = FALSE
      /\ Default.completed = FALSE /\ Default.active = FALSE
  BY DEF Default
<1> QED
  BY <1>1, DefaultOK DEF Accounts

LEMMA SameAccounts ==
    ASSUME NEW d, NEW e, NEW n, NEW m, Typed(d), Typed(e),
           SameTransfer(d, e), Accounts(d, n, m)
    PROVE  Accounts(e, n, m)
<1>1. ReadSequence(e) = ReadSequence(d)
  BY DEF ReadSequence, SameTransfer
<1> QED
  BY <1>1 DEF Accounts, SameTransfer, Typed

LEMMA UpdateKeeps ==
    ASSUME NEW d, Typed(d)
    PROVE  LET e == UpdateReadSequence(d)
           IN  /\ Typed(e)
               /\ e.read_sequence = ReadSequence(e)
               /\ \A f \in Fields \ {"read_sequence"} : e[f] = d[f]
<1> DEFINE e == UpdateReadSequence(d)
<1>1. Typed(e)
  BY DEF UpdateReadSequence, Typed, Fields
<1>2. \A f \in Fields \ {"read_sequence"} : e[f] = d[f]
  BY DEF UpdateReadSequence, Typed
<1>3. e.read_sequence = ReadSequence(d)
  BY DEF UpdateReadSequence, Typed, Fields
<1>4. ReadSequence(e) = ReadSequence(d)
  <2>1. /\ e.completed = d.completed /\ e.transferred = d.transferred
        /\ e.remaining = d.remaining
        /\ e.port_a = d.port_a /\ e.port_b = d.port_b
    BY <1>2 DEF Fields
  <2> QED
    BY <2>1 DEF ReadSequence
<1> QED
  BY <1>1, <1>2, <1>3, <1>4

LEMMA ContinuedOK ==
    ASSUME NEW d, Typed(d)
    PROVE  /\ Typed(Continued(d))
           /\ Accounts(Continued(d), d.length, 0)
           /\ Continued(d).active = FALSE
<1> DEFINE p == [d EXCEPT !.remaining = d.length, !.transferred = FALSE,
                          !.completed = d.length = 0,
                          !.active = FALSE, !.next_transfer_t = NoTime]
<1>1. Typed(p)
  BY DEF Typed, Fields
<1>2. /\ p.remaining = d.length /\ p.transferred = FALSE
      /\ p.completed <=> d.length = 0
      /\ p.active = FALSE
  BY DEF Typed, Fields
<1>3. Continued(d) = UpdateReadSequence(p)
  BY DEF Continued
<1> HIDE DEF p
<1>4. /\ Typed(Continued(d))
      /\ Continued(d).read_sequence = ReadSequence(Continued(d))
      /\ \A f \in Fields \ {"read_sequence"} : Continued(d)[f] = p[f]
  BY <1>1, <1>3, UpdateKeeps
<1>5. /\ Continued(d).remaining = d.length /\ Continued(d).transferred = FALSE
      /\ Continued(d).completed <=> d.length = 0
      /\ Continued(d).active = FALSE
  BY <1>2, <1>4 DEF Fields
<1> QED
  BY <1>4, <1>5 DEF Accounts, Typed

LEMMA LoadedOK ==
    ASSUME NEW d, Typed(d)
    PROVE  /\ Typed(Loaded(d))
           /\ Accounts(Loaded(d), d.length, 0)
           /\ Loaded(d).active = FALSE
<1> DEFINE p == [d EXCEPT !.port_a = d.start_a, !.port_b = d.start_b]
<1>1. Typed(p) /\ p.length = d.length
  BY DEF Typed, Fields
<1>2. Loaded(d) = Continued(p)
  BY DEF Loaded
<1> HIDE DEF p
<1> QED
  BY <1>1, <1>2, ContinuedOK

LEMMA EnableOK ==
    ASSUME NEW d, Typed(d), NEW t, NEW n, NEW m, Accounts(d, n, m)
    PROVE  /\ Typed(EnableAt(d, t))
           /\ Accounts(EnableAt(d, t), n, m)
           /\ EnableAt(d, t).remaining = d.remaining
           /\ EnableAt(d, t).active => EnableAt(d, t).next_transfer_t = t
<1> DEFINE e == EnableAt(d, t)
<1>1. /\ Typed(e)
      /\ e.active <=> d.remaining > 0
      /\ e.active => e.next_transfer_t = t
  <2>1. DOMAIN e = Fields /\ e.active = (d.remaining > 0)
    BY DEF EnableAt, Typed, Fields
  <2>2. e.next_transfer_t = IF d.remaining > 0 THEN t ELSE NoTime
    BY DEF EnableAt, Typed, Fields
  <2>3. /\ e.length = d.length /\ e.remaining = d.remaining
        /\ e.transferred = d.transferred /\ e.completed = d.completed
        /\ e.timing_a = d.timing_a /\ e.timing_b = d.timing_b
        /\ e.prescaler = d.prescaler /\ e.pending = d.pending
    BY DEF EnableAt, Typed, Fields
  <2> HIDE DEF e
  <2>4. e.active \in BOOLEAN /\ (e.active <=> d.remaining > 0)
    <3>1. d.remaining \in Nat
      BY DEF Typed
    <3>2. (d.remaining > 0) \in BOOLEAN
      BY <3>1
    <3> QED
      BY <2>1, <3>2, Zenon
  <2>5. Typed(e)
    BY <2>1, <2>3, <2>4 DEF Typed
  <2> QED
    BY <2>2, <2>4, <2>5
<1>2. /\ e.remaining = d.remaining /\ e.transferred = d.transferred
      /\ e.completed = d.completed
      /\ e.port_a = d.port_a /\ e.port_b = d.port_b
      /\ e.read_sequence = d.read_sequence
  BY DEF EnableAt, Typed, Fields
<1> HIDE DEF e
<1>3. ReadSequence(e) = ReadSequence(d)
  BY <1>2 DEF ReadSequence
<1>4. Accounts(e, n, m)
  BY <1>1, <1>2, <1>3 DEF Accounts
<1> QED
  BY <1>1, <1>2, <1>4 DEF e

LEMMA CompleteByteOK ==
    ASSUME DmaConstants, NEW d, Typed(d), d.active, NEW t,
           NEW n \in Nat, NEW m \in Nat, Accounts(d, n, m)
    PROVE  LET e == CompleteByte(d, t)
           IN  /\ Typed(e)
               /\ Accounts(e, n, m + 1)
               /\ e.remaining = d.remaining - 1
               /\ e.active <=> e.remaining # 0
               /\ e.active => e.next_transfer_t = t + Period(d)
<1> DEFINE left == d.remaining - 1
           p == [d EXCEPT !.port_a = AdvanceAddress(@, d.mode_a),
                          !.port_b = AdvanceAddress(@, d.mode_b),
                          !.transferred = TRUE, !.remaining = left,
                          !.active = left # 0,
                          !.completed = IF left = 0 THEN TRUE ELSE @,
                          !.next_transfer_t =
                              IF left = 0 THEN NoTime ELSE t + Period(d)]
           e == CompleteByte(d, t)
<1>1. d.remaining \in Nat /\ d.remaining # 0 /\ left \in Nat
  BY DEF Accounts, Typed
<1>2. Typed(p)
  BY <1>1 DEF Typed, Fields
<1>3. /\ p.remaining = left /\ p.transferred = TRUE
      /\ p.active <=> left # 0
      /\ left # 0 => p.next_transfer_t = t + Period(d)
      /\ p.completed = IF left = 0 THEN TRUE ELSE d.completed
  BY <1>1 DEF Typed, Fields
<1>4. e = UpdateReadSequence(p)
  BY DEF CompleteByte
<1> HIDE DEF p, e
<1>5. /\ Typed(e)
      /\ e.read_sequence = ReadSequence(e)
      /\ \A f \in Fields \ {"read_sequence"} : e[f] = p[f]
  BY <1>2, <1>4, UpdateKeeps
<1>6. /\ e.remaining = left /\ e.transferred = TRUE
      /\ e.active <=> left # 0
      /\ left # 0 => e.next_transfer_t = t + Period(d)
      /\ e.completed = IF left = 0 THEN TRUE ELSE d.completed
  BY <1>3, <1>5 DEF Fields
<1>7. d.completed => d.remaining = 0
  BY DEF Accounts
<1>8. Accounts(e, n, m + 1)
  <2>1. m + 1 + left = n /\ m + 1 > 0
    <3>1. m + d.remaining = n
      BY DEF Accounts
    <3>2. d.remaining \in Nat
      BY DEF Typed
    <3> QED
      BY <3>1, <3>2
  <2>2. e.completed => e.remaining = 0
    BY <1>1, <1>6, <1>7
  <2>3. e.remaining = 0 => e.completed
    BY <1>6
  <2>4. e.active => e.remaining > 0
    <3>1. left # 0 => left > 0
      BY <1>1
    <3> QED
      BY <1>6, <3>1, Zenon
  <2> QED
    BY <1>5, <1>6, <2>1, <2>2, <2>3, <2>4 DEF Accounts
<1> QED
  BY <1>5, <1>6, <1>8 DEF e

-----------------------------------------------------------------------------
(* The invariant: the accounts hold, the next byte of an active transfer is  *)
(* still to come, and what is left of a bulk transfer ends with the           *)
(* instruction that started it.                                              *)

BlockInv ==
    /\ Typed(dma)
    /\ block \in Nat /\ moved \in Nat
    /\ Accounts(dma, block, moved)

Paced == dma.active => dma.next_transfer_t \in Nat /\ last < dma.next_transfer_t

Resting == step = NoStep /\ last <= video_t

Ending ==
    /\ step \in [end : Nat, left : {0}, at : Int, period : Nat]
    /\ last <= step.end

Moving ==
    /\ step \in [end : Nat, left : Nat \ {0}, at : Nat, period : Nat \ {0}]
    /\ dma.active /\ step.left = dma.remaining
    /\ last < step.at
    /\ step.at + step.left * step.period <= step.end

TimeInv ==
    /\ video_t \in Nat /\ last \in Nat
    /\ Paced
    /\ Resting \/ Ending \/ Moving

DmaInv == BlockInv /\ TimeInv

LEMMA DmaBegins == ASSUME DmaConstants, DmaInit PROVE DmaInv
<1>1. BlockInv
  BY DefaultOK, DefaultAccounts DEF DmaInit, BlockInv
<1>2. ~dma.active
  BY DEF DmaInit, Default
<1> QED
  BY <1>1, <1>2 DEF DmaInit, DmaInv, TimeInv, Paced, Resting

LEMMA AtRest == ASSUME TimeInv, step = NoStep PROVE last <= video_t
<1>1. NoStep.end \notin Nat
  BY DEF NoStep, NoTime
<1>2. ~Ending /\ ~Moving
  BY <1>1 DEF Ending, Moving
<1> QED
  BY <1>2 DEF TimeInv, Resting

(* An instruction begins.                                                    *)
LEMMA BeginOK ==
    ASSUME DmaConstants, DmaInv, NEW len \in Lengths, Begin(len)
    PROVE  /\ last' = last /\ video_t' = video_t
           /\ step'.left = 0
           /\ Ending'
<1>1. len \in Nat \ {0} /\ video_t \in Nat /\ last \in Nat
  BY DEF DmaConstants, DmaInv, TimeInv
<1>2. last <= video_t
  BY AtRest DEF DmaInv, Begin
<1>3. last' = last /\ video_t' = video_t
  BY DEF Begin
<1>4. step' = [end |-> video_t + len, left |-> 0, at |-> -1, period |-> 0]
  BY DEF Begin, NoStep, NoTime
<1>5. video_t + len \in Nat /\ last <= video_t + len /\ -1 \in Int
  BY <1>1, <1>2
<1>6. Ending'
  BY <1>3, <1>4, <1>5 DEF Ending
<1> QED
  BY <1>3, <1>4, <1>6

LEMMA QuietInstruction ==
    ASSUME DmaConstants, DmaInv, NEW len \in Lengths, Begin(len),
           Typed(dma'), SameTransfer(dma, dma'), UNCHANGED <<block, moved>>
    PROVE  DmaInv'
<1>1. BlockInv'
  BY SameAccounts DEF DmaInv, BlockInv
<1>2. Paced'
  BY BeginOK DEF SameTransfer, DmaInv, TimeInv, Paced
<1> QED
  BY <1>1, <1>2, BeginOK DEF DmaInv, TimeInv

LEMMA FreshBlock ==
    ASSUME DmaConstants, DmaInv, NEW len \in Lengths, Begin(len),
           Typed(dma'), ~dma'.active, block' \in Nat, moved' = 0,
           Accounts(dma', block', 0)
    PROVE  DmaInv'
<1>1. BlockInv'
  BY DEF BlockInv
<1>2. Paced'
  BY DEF Paced
<1> QED
  BY <1>1, <1>2, BeginOK DEF DmaInv, TimeInv

LEMMA EnableStep == ASSUME DmaConstants, DmaInv, WriteEnable PROVE DmaInv'
<1>0. PICK len \in Lengths : \E t \in (video_t + 1)..(video_t + len - 1) :
          LET d == EnableAt(dma, t)
              bulk == d.active /\ ~UsesBurstWait(d)
          IN  /\ dma' = d
              /\ step' = IF bulk
                         THEN [end |-> video_t + len + ContinuousStall(d),
                               left |-> d.remaining, at |-> t, period |-> Period(d)]
                         ELSE [NoStep EXCEPT !.end = video_t + len]
  BY DEF WriteEnable
<1>1. PICK t \in (video_t + 1)..(video_t + len - 1) :
          LET d == EnableAt(dma, t)
              bulk == d.active /\ ~UsesBurstWait(d)
          IN  /\ dma' = d
              /\ step' = IF bulk
                         THEN [end |-> video_t + len + ContinuousStall(d),
                               left |-> d.remaining, at |-> t, period |-> Period(d)]
                         ELSE [NoStep EXCEPT !.end = video_t + len]
  BY <1>0
<1> DEFINE d == EnableAt(dma, t)
           bulk == d.active /\ ~UsesBurstWait(d)
<1>2. /\ len \in Nat \ {0} /\ video_t \in Nat /\ last \in Nat /\ last <= video_t
      /\ t \in Nat /\ video_t < t /\ t < video_t + len
  BY AtRest DEF DmaConstants, DmaInv, TimeInv, WriteEnable
<1>3. /\ Typed(d) /\ Accounts(d, block, moved)
      /\ d.active => d.next_transfer_t = t
  BY EnableOK DEF DmaInv, BlockInv
<1>4. /\ dma' = d /\ UNCHANGED <<video_t, block, moved, last>>
      /\ bulk => step' = [end |-> video_t + len + ContinuousStall(d),
                          left |-> d.remaining, at |-> t, period |-> Period(d)]
      /\ ~bulk => step' = [NoStep EXCEPT !.end = video_t + len]
  BY <1>1 DEF WriteEnable
<1> HIDE DEF d
<1>5. BlockInv'
  BY <1>3, <1>4 DEF DmaInv, BlockInv
<1>6. Paced'
  BY <1>2, <1>3, <1>4 DEF Paced
<1>7. CASE bulk
  <2>1. d.remaining \in Nat \ {0}
    BY <1>3, <1>7 DEF Accounts, Typed
  <2>2. Period(d) \in Nat \ {0}
    BY <1>3, PeriodIsPositive
  <2>3. ContinuousStall(d) = d.remaining * Period(d) /\ ContinuousStall(d) \in Nat
    BY <2>1, <2>2, ProductOfNaturals DEF ContinuousStall
  <2>4. step' = [end |-> video_t + len + ContinuousStall(d),
                 left |-> d.remaining, at |-> t, period |-> Period(d)]
    BY <1>4, <1>7
  <2>5. /\ video_t + len + ContinuousStall(d) \in Nat
        /\ last < t
        /\ t + d.remaining * Period(d) <= video_t + len + ContinuousStall(d)
    <3> DEFINE stall == ContinuousStall(d)
    <3>1. stall \in Nat /\ d.remaining * Period(d) = stall
      BY <2>3
    <3> HIDE DEF stall
    <3>2. /\ video_t + len + stall \in Nat /\ last < t
          /\ t + stall <= video_t + len + stall
      BY <1>2, <3>1
    <3> QED
      BY <3>1, <3>2 DEF stall
  <2>6. Moving'
    BY <1>2, <1>4, <1>7, <2>1, <2>2, <2>4, <2>5 DEF Moving
  <2> QED
    BY <1>2, <1>4, <1>5, <1>6, <2>6 DEF DmaInv, TimeInv
<1>8. CASE ~bulk
  <2>1. step' = [end |-> video_t + len, left |-> 0, at |-> -1, period |-> 0]
    BY <1>4, <1>8 DEF NoStep, NoTime
  <2>2. video_t + len \in Nat /\ last <= video_t + len /\ -1 \in Int
    BY <1>2
  <2>3. Ending'
    BY <1>4, <2>1, <2>2 DEF Ending
  <2> QED
    BY <1>2, <1>4, <1>5, <1>6, <2>3 DEF DmaInv, TimeInv
<1> QED
  BY <1>7, <1>8

(* A byte is moved: BytesInTimeOrder, and what it leaves.                    *)
LEMMA BulkByteOK ==
    ASSUME DmaConstants, DmaInv, BulkByte
    PROVE  DmaInv' /\ last < last' /\ last' <= step.end
<1> DEFINE e == CompleteByte(dma, step.at)
<1>1. Moving
  BY DEF DmaInv, TimeInv, Resting, Ending, BulkByte, NoStep
<1>2. /\ dma' = e /\ moved' = moved + 1 /\ last' = step.at
      /\ UNCHANGED <<video_t, block>>
      /\ step' = [step EXCEPT !.left = @ - 1, !.at = @ + step.period]
  BY DEF BulkByte, TransferByte
<1>3. /\ step.end \in Nat /\ step.left \in Nat \ {0} /\ step.at \in Nat
      /\ step.period \in Nat \ {0} /\ video_t \in Nat /\ last \in Nat
  BY <1>1 DEF Moving, DmaInv, TimeInv
<1>4. /\ Typed(e) /\ Accounts(e, block, moved + 1)
      /\ e.remaining = dma.remaining - 1
      /\ e.active <=> e.remaining # 0
      /\ e.active => e.next_transfer_t = step.at + Period(dma)
  BY CompleteByteOK DEF BulkByte, TransferByte, DmaInv, BlockInv
<1> HIDE DEF e
<1>5. BlockInv'
  BY <1>2, <1>4 DEF DmaInv, BlockInv
<1>6. Period(dma) \in Nat \ {0}
  BY PeriodIsPositive DEF DmaInv, BlockInv
<1>7. Paced'
  BY <1>2, <1>3, <1>4, <1>6 DEF Paced
<1>8. /\ step' = [end |-> step.end, left |-> step.left - 1,
                  at |-> step.at + step.period, period |-> step.period]
      /\ step'.left = step.left - 1 /\ step'.at = step.at + step.period
      /\ step'.end = step.end /\ step'.period = step.period
      /\ step'.left \in Nat /\ step'.at \in Nat
  <2>1. step \in [end : Nat, left : Nat \ {0}, at : Nat, period : Nat \ {0}]
    BY <1>1 DEF Moving
  <2>2. step' = [end |-> step.end, left |-> step.left - 1,
                 at |-> step.at + step.period, period |-> step.period]
    BY <1>2, <2>1
  <2>3. step.left - 1 \in Nat /\ step.at + step.period \in Nat
    BY <1>3
  <2> QED
    BY <2>2, <2>3
<1>9. /\ step.left * step.period \in Nat
      /\ (step.left - 1) * step.period = step.left * step.period - step.period
      /\ (step.left - 1) * step.period \in Nat
      /\ step.at + step.left * step.period <= step.end
  BY <1>1, <1>3, ProductOfNaturals, OneFewer DEF Moving
<1>10. /\ step.at <= step.end
       /\ step'.at + step'.left * step'.period <= step'.end
  <2> DEFINE a == step.left * step.period
             b == (step.left - 1) * step.period
  <2>1. a \in Nat /\ b \in Nat /\ b = a - step.period /\ step.at + a <= step.end
    BY <1>9
  <2>2. step'.left * step'.period = b
    BY <1>8
  <2> HIDE DEF a, b
  <2> QED
    BY <1>3, <1>8, <2>1, <2>2
<1>11. last < last' /\ last' <= step.end
  BY <1>1, <1>2, <1>10 DEF Moving
<1>12. step'.left = dma'.remaining
  BY <1>1, <1>2, <1>4, <1>8 DEF Moving
<1>13. CASE step'.left = 0
  <2>1. Ending'
    BY <1>2, <1>3, <1>8, <1>11, <1>13 DEF Ending
  <2> QED
    BY <1>2, <1>3, <1>5, <1>7, <1>11, <2>1 DEF DmaInv, TimeInv
<1>14. CASE step'.left # 0
  <2>1. last' < step'.at
    BY <1>2, <1>3, <1>8
  <2>2. Moving'
    BY <1>2, <1>3, <1>4, <1>8, <1>10, <1>12, <1>14, <2>1 DEF Moving
  <2> QED
    BY <1>2, <1>3, <1>5, <1>7, <1>11, <2>2 DEF DmaInv, TimeInv
<1> QED
  BY <1>11, <1>13, <1>14

LEMMA BurstByteOK ==
    ASSUME DmaConstants, DmaInv, BurstByte
    PROVE  DmaInv' /\ last < last' /\ last' <= step.end
<1> DEFINE t == dma.next_transfer_t
           e == CompleteByte(dma, t)
<1>1. Ending
  BY DEF DmaInv, TimeInv, Resting, Moving, BurstByte
<1>2. /\ dma' = e /\ moved' = moved + 1 /\ last' = t
      /\ UNCHANGED <<video_t, block, step>>
      /\ dma.active /\ t <= step.end
  BY DEF BurstByte, BurstIsDue, TransferByte
<1>3. t \in Nat /\ last < t /\ video_t \in Nat
  BY <1>2 DEF DmaInv, TimeInv, Paced
<1>4. /\ Typed(e) /\ Accounts(e, block, moved + 1)
      /\ e.remaining = dma.remaining - 1
      /\ e.active <=> e.remaining # 0
      /\ e.active => e.next_transfer_t = t + Period(dma)
  BY <1>2, CompleteByteOK DEF DmaInv, BlockInv
<1> HIDE DEF e, t
<1>5. BlockInv'
  BY <1>2, <1>4 DEF DmaInv, BlockInv
<1>6. Period(dma) \in Nat \ {0}
  BY PeriodIsPositive DEF DmaInv, BlockInv
<1>7. Paced'
  BY <1>2, <1>3, <1>4, <1>6 DEF Paced
<1>8. Ending'
  BY <1>1, <1>2 DEF Ending
<1> QED
  BY <1>2, <1>3, <1>5, <1>7, <1>8 DEF DmaInv, TimeInv

LEMMA EndOK == ASSUME DmaConstants, DmaInv, EndInstruction PROVE DmaInv'
<1>1. Ending
  BY DEF DmaInv, TimeInv, Resting, Moving, EndInstruction
<1>2. BlockInv'
  BY DEF DmaInv, BlockInv, EndInstruction
<1>3. Paced' /\ Resting' /\ video_t' \in Nat /\ last' \in Nat
  BY <1>1 DEF DmaInv, TimeInv, Paced, Ending, Resting, EndInstruction
<1> QED
  BY <1>2, <1>3 DEF DmaInv, TimeInv

LEMMA ResetOK == ASSUME DmaConstants, DmaInv, ResetMachine PROVE DmaInv'
<1>1. BlockInv'
  BY DefaultOK, DefaultAccounts DEF ResetMachine, BlockInv
<1>2. ~dma'.active
  BY DEF ResetMachine, Default
<1>3. Resting' /\ video_t' \in Nat /\ last' \in Nat
  BY AtRest DEF DmaInv, TimeInv, Resting, ResetMachine
<1> QED
  BY <1>1, <1>2, <1>3 DEF DmaInv, TimeInv, Paced

-----------------------------------------------------------------------------
LEMMA DmaStep == ASSUME DmaConstants, DmaInv, [DmaNext]_dmaVars PROVE DmaInv'
<1> USE DmaConstants, DmaInv
<1>0. Typed(dma)
  BY DEF DmaInv, BlockInv
<1>1. CASE OtherInstruction
  <2>1. PICK len \in Lengths : Begin(len) /\ UNCHANGED <<dma, block, moved>>
    BY <1>1 DEF OtherInstruction
  <2>2. Typed(dma') /\ SameTransfer(dma, dma')
    BY <1>0, <2>1 DEF SameTransfer
  <2> QED
    BY <2>1, <2>2, QuietInstruction
<1>2. CASE WriteParameterByte
  <2>1. PICK len \in Lengths : Begin(len)
    BY <1>2 DEF WriteParameterByte
  <2>2. PICK b \in Parameters[Head(dma.pending)] :
            dma' = WriteParameter([dma EXCEPT !.pending = Tail(@)], Head(dma.pending), b)
    BY <1>2 DEF WriteParameterByte
  <2>3. Typed(dma') /\ SameTransfer(dma, dma')
    BY <1>0, <1>2, <2>2, ParameterKeeps DEF WriteParameterByte
  <2> QED
    BY <1>2, <2>1, <2>3, QuietInstruction DEF WriteParameterByte
<1>3. CASE WriteReadMask
  <2>1. PICK len \in Lengths : Begin(len)
    BY <1>3 DEF WriteReadMask
  <2>2. Typed(dma') /\ SameTransfer(dma, dma')
    <3>1. PICK mask \in ReadMasks :
              dma' = [dma EXCEPT !.read_mask = mask, !.read_mask_pending = FALSE,
                                 !.read_index = 0]
      BY <1>3 DEF WriteReadMask
    <3> QED
      BY <1>0, <3>1, MaskKeeps
  <2> QED
    BY <1>3, <2>1, <2>2, QuietInstruction DEF WriteReadMask
<1>4. CASE WriteGroup
  <2>1. PICK len \in Lengths : Begin(len)
    BY <1>4 DEF WriteGroup
  <2>2. Typed(dma') /\ SameTransfer(dma, dma')
    BY <1>0, <1>4, CommandKeeps DEF WriteGroup
  <2> QED
    BY <1>4, <2>1, <2>2, QuietInstruction DEF WriteGroup
<1>5. CASE WriteReset
  <2>1. PICK len \in Lengths : Begin(len)
    BY <1>5 DEF WriteReset
  <2>2. dma' = Default /\ block' = 0 /\ moved' = 0
    BY <1>5 DEF WriteReset
  <2>3. ~dma'.active /\ Typed(dma') /\ Accounts(dma', block', 0)
    BY <2>2, DefaultOK, DefaultAccounts DEF Default
  <2> QED
    BY <2>1, <2>2, <2>3, FreshBlock
<1>6. CASE WriteLoad
  <2>1. PICK len \in Lengths : Begin(len)
    BY <1>6 DEF WriteLoad
  <2>2. dma' = Loaded(dma) /\ block' = dma.length /\ moved' = 0
    BY <1>6 DEF WriteLoad
  <2>3. Typed(dma') /\ ~dma'.active /\ Accounts(dma', block', 0) /\ block' \in Nat
    BY <1>0, <2>2, LoadedOK DEF Typed
  <2> QED
    BY <2>1, <2>2, <2>3, FreshBlock
<1>7. CASE WriteContinue
  <2>1. PICK len \in Lengths : Begin(len)
    BY <1>7 DEF WriteContinue
  <2>2. dma' = Continued(dma) /\ block' = dma.length /\ moved' = 0
    BY <1>7 DEF WriteContinue
  <2>3. Typed(dma') /\ ~dma'.active /\ Accounts(dma', block', 0) /\ block' \in Nat
    BY <1>0, <2>2, ContinuedOK DEF Typed
  <2> QED
    BY <2>1, <2>2, <2>3, FreshBlock
<1>8. CASE WriteEnable
  BY <1>8, EnableStep
<1>9. CASE ReadByte
  <2>1. PICK len \in Lengths : Begin(len)
    BY <1>9 DEF ReadByte
  <2>2. Typed(dma') /\ SameTransfer(dma, dma')
    BY <1>0, <1>9, ReadKeeps DEF ReadByte
  <2> QED
    BY <1>9, <2>1, <2>2, QuietInstruction DEF ReadByte
<1>10. CASE BulkByte
  BY <1>10, BulkByteOK
<1>11. CASE BurstByte
  BY <1>11, BurstByteOK
<1>12. CASE EndInstruction
  BY <1>12, EndOK
<1>13. CASE ResetMachine
  BY <1>13, ResetOK
<1>14. CASE UNCHANGED dmaVars
  BY <1>14 DEF dmaVars, DmaInv, BlockInv, TimeInv, Paced, Resting, Ending, Moving
<1> QED
  BY <1>1, <1>2, <1>3, <1>4, <1>5, <1>6, <1>7, <1>8, <1>9, <1>10, <1>11, <1>12,
     <1>13, <1>14 DEF DmaNext

-----------------------------------------------------------------------------
(* Of a block that the guest has loaded every byte is moved once, and what    *)
(* it reads back is the state of the transfer, however it reprograms,         *)
(* disables, continues or resets the DMA (loaded, continued, complete_byte).  *)
THEOREM DmaAccounts == DmaSpec => []BlockIsMovedOnce
<1>1. DmaInit => DmaInv
  BY DmaBegins, DmaAssumption
<1>2. DmaInv /\ [DmaNext]_dmaVars => DmaInv'
  BY DmaStep, DmaAssumption
<1>3. DmaInv => BlockIsMovedOnce
  BY DEF DmaInv, BlockInv, Accounts, BlockIsMovedOnce
<1> QED
  BY <1>1, <1>2, <1>3, PTL DEF DmaSpec

(* Bytes are moved one after the other in the machine's time, and none at a   *)
(* time that the guest has not come to when its next instruction begins       *)
(* (write_dma's stall, advance_dma, complete_byte).                           *)
THEOREM DmaTiming == DmaSpec => BytesInTimeOrder
<1>1. DmaInit => DmaInv
  BY DmaBegins, DmaAssumption
<1>2. DmaInv /\ [DmaNext]_dmaVars => DmaInv'
  BY DmaStep, DmaAssumption
<1>3. DmaInv /\ [DmaNext]_dmaVars => [moved' > moved => last < last' /\ last' <= step.end]_dmaVars
  <2> SUFFICES ASSUME DmaInv, DmaNext, moved' > moved
               PROVE  last < last' /\ last' <= step.end
    BY DEF dmaVars
  <2>1. moved \in Nat
    BY DEF DmaInv, BlockInv
  <2>2. moved' # moved /\ moved' # 0
    BY <2>1
  <2>3. BulkByte \/ BurstByte
    BY <2>2 DEF DmaNext, OtherInstruction, WriteParameterByte, WriteReadMask, WriteGroup,
                WriteReset, WriteLoad, WriteContinue, WriteEnable, ReadByte,
                EndInstruction, ResetMachine
  <2> QED
    BY <2>3, BulkByteOK, BurstByteOK, DmaAssumption
<1> QED
  BY <1>1, <1>2, <1>3, PTL DEF DmaSpec, BytesInTimeOrder



-----------------------------------------------------------------------------
(* Numbers, and recursive functions: the turns of the loop of advance.       *)

(* A set of natural numbers has a least one.                                 *)
LEMMA LeastNatural ==
    ASSUME NEW S \in SUBSET Nat, S # {}
    PROVE  \E x \in S : \A y \in S : x <= y
<1>1. PICK x \in S : \A y \in S : ~(<<y, x>> \in OpToRel(<, Nat))
  BY NatLessThanWellFounded, WFMin
<1>2. ASSUME NEW y \in S
      PROVE  x <= y
  <2>1. x \in Nat /\ y \in Nat
    OBVIOUS
  <2>2. ~(y < x)
    <3>1. y < x => <<y, x>> \in OpToRel(<, Nat)
      BY <2>1 DEF OpToRel
    <3> QED
      BY <1>1, <3>1
  <2> QED
    BY <2>1, <2>2
<1> QED
  BY <1>2

(* Whole quotients: their bounds, the number that has them, their order.     *)
LEMMA Quotient ==
    ASSUME NEW n \in Nat, NEW d \in Nat \ {0}
    PROVE  /\ n \div d \in Nat
           /\ (n \div d) * d <= n /\ n < (n \div d + 1) * d
  OBVIOUS

LEMMA QuotientIs ==
    ASSUME NEW n \in Nat, NEW d \in Nat \ {0}, NEW q \in Nat, q * d <= n, n < (q + 1) * d
    PROVE  n \div d = q
  OBVIOUS

LEMMA QuotientGrows ==
    ASSUME NEW d \in Nat \ {0}, NEW n \in Nat, NEW m \in Nat, n <= m
    PROVE  n \div d <= m \div d
  OBVIOUS

IsTurns(f, start, target, N) ==
    f = [n \in 0..N |-> IF n = 0 THEN start ELSE Turn(f[n - 1], target)]

(* A recursive function on turns exists: no induction on data is needed,     *)
(* only the least number without one.                                        *)
LEMMA TurnsExist ==
    ASSUME NEW start, NEW target, NEW N \in Nat
    PROVE  \E f : IsTurns(f, start, target, N)
<1> DEFINE Is(f, m) == IsTurns(f, start, target, m)
           none == {m \in Nat : ~ \E f : Is(f, m)}
<1>1. SUFFICES none = {}
  OBVIOUS
<1>2. SUFFICES ASSUME none # {} PROVE FALSE
  OBVIOUS
<1>3. PICK m \in none : \A k \in none : m <= k
  <2> HIDE DEF none
  <2>1. none \in SUBSET Nat
    BY DEF none
  <2> QED
    BY <1>2, <2>1, LeastNatural
<1>4. m # 0
  <2>1. Is([n \in 0..0 |-> start], 0)
    BY DEF IsTurns
  <2> QED
    BY <2>1
<1>5. PICK f : Is(f, m - 1)
  <2>1. m - 1 \in Nat /\ ~(m <= m - 1)
    BY <1>4
  <2> QED
    BY <1>3, <2>1
<1>6. \E g : Is(g, m)
  <2> DEFINE g == [n \in 0..m |-> IF n = m THEN Turn(f[m - 1], target) ELSE f[n]]
  <2>1. ASSUME NEW n \in 0..m
        PROVE  g[n] = IF n = 0 THEN start ELSE Turn(g[n - 1], target)
    <3>1. CASE n = m
      <4>1. m - 1 \in 0..m /\ m - 1 # m
        BY <1>4
      <4>2. g[m - 1] = f[m - 1]
        BY <4>1
      <4> QED
        BY <1>4, <3>1, <4>2
    <3>2. CASE n # m
      <4>1. n \in 0..(m - 1)
        BY <3>2
      <4>2. f[n] = IF n = 0 THEN start ELSE Turn(f[n - 1], target)
        BY <1>5, <4>1 DEF IsTurns
      <4>3. n # 0 => n - 1 \in 0..m /\ n - 1 # m
        BY <4>1
      <4>4. n # 0 => g[n - 1] = f[n - 1]
        BY <4>3
      <4> QED
        BY <3>2, <4>2, <4>4
    <3> QED
      BY <3>1, <3>2
  <2>2. g = [n \in 0..m |-> IF n = 0 THEN start ELSE Turn(g[n - 1], target)]
    <3> HIDE DEF g
    <3>1. DOMAIN g = 0..m /\ g = [n \in DOMAIN g |-> g[n]]
      BY DEF g
    <3> QED
      BY <2>1, <3>1, Zenon
  <2> QED
    BY <2>2 DEF IsTurns
<1> QED
  BY <1>3, <1>6

(* Run is the last of the turns of advance.                                  *)
LEMMA RunTurns ==
    ASSUME NEW c, NEW target, MostTurns(c, target) \in Nat
    PROVE  \E f : /\ f[0] = [copper |-> c, trail |-> <<>>, left |-> FALSE]
                  /\ \A n \in 1..MostTurns(c, target) : f[n] = Turn(f[n - 1], target)
                  /\ Run(c, target) = f[MostTurns(c, target)]
<1> DEFINE N == MostTurns(c, target)
           start == [copper |-> c, trail |-> <<>>, left |-> FALSE]
           turns[n \in 0..N] == IF n = 0 THEN start ELSE Turn(turns[n - 1], target)
<1>1. turns = [n \in 0..N |-> IF n = 0 THEN start ELSE Turn(turns[n - 1], target)]
  <2>1. N \in Nat
    OBVIOUS
  <2> HIDE DEF N, start
  <2>2. PICK f : IsTurns(f, start, target, N)
    BY <2>1, TurnsExist
  <2> QED
    BY <2>2, Zenon DEF IsTurns
<1>2. Run(c, target) = turns[N]
  BY Zenon DEF Run
<1> HIDE DEF turns, start, N
<1>3. N \in Nat
  BY DEF N
<1>4. turns[0] = start
  BY <1>1, <1>3
<1>5. \A n \in 1..N : turns[n] = Turn(turns[n - 1], target)
  BY <1>1, <1>3
<1> QED
  BY <1>2, <1>4, <1>5 DEF N, start

Entries ==
    [pc : 0..(InstructionCount - 1), mode : Modes, clocks : Nat, t : Nat,
     instruction : Instructions]

Coppers ==
    [memory : [0..(ByteCount - 1) -> Bytes], address : Nat, mode : Modes,
     program_counter : 0..(InstructionCount - 1), running : BOOLEAN,
     clocks : Nat, stalled : BOOLEAN]

(* It runs in every mode but one.                                            *)
CopperTyped(c) == c \in Coppers /\ (c.running <=> c.mode # "stop")

(* Clocks, in lines and frames.                                              *)

LEMMA CopperNumbers ==
    /\ ClocksPerTstate \in Nat \ {0} /\ ClocksPerTstate > 2
    /\ InstructionCount \in Nat \ {0} /\ LowBytes \in Nat \ {0}
    /\ HorizontalTstates \in Nat \ {0} /\ LineTstates \in Nat \ {0} /\ FrameLines \in Nat \ {0}
    /\ FrameTstates \in Nat \ {0} /\ FrameClocks \in Nat \ {0} /\ ByteCount \in Nat \ {0}
<1>1. /\ ClocksPerTstate \in Nat \ {0} /\ ClocksPerTstate > 2
      /\ InstructionCount \in Nat \ {0} /\ LowBytes \in Nat \ {0}
      /\ HorizontalTstates \in Nat \ {0} /\ LineTstates \in Nat \ {0}
      /\ FrameLines \in Nat \ {0}
  BY CopperAssumption DEF CopperConstants
<1>2. \A a, b \in Nat \ {0} : a * b \in Nat \ {0}
  OBVIOUS
<1>3. FrameTstates \in Nat \ {0}
  BY <1>1, <1>2 DEF FrameTstates
<1>4. FrameClocks \in Nat \ {0}
  BY <1>1, <1>2, <1>3 DEF FrameClocks
<1>5. ByteCount \in Nat \ {0}
  BY <1>1 DEF ByteCount
<1> QED
  BY <1>1, <1>3, <1>4, <1>5

(* Between two numbers of T-states there is a whole T-state.                 *)
LEMMA WholeTstates ==
    ASSUME NEW k \in Nat \ {0}, NEW m \in Nat, NEW p \in Nat, m * k < p * k
    PROVE  m * k + k <= p * k
<1>1. m < p
  <2> SUFFICES ASSUME p <= m PROVE FALSE
    OBVIOUS
  <2>1. PICK d \in Nat : m = p + d
    <3>1. m - p \in Nat /\ m = p + (m - p)
      OBVIOUS
    <3> QED
      BY <3>1
  <2>2. m * k = p * k + d * k /\ d * k \in Nat /\ p * k \in Nat
    BY <2>1
  <2> QED
    BY <2>2
<1>2. PICK d \in Nat : p = m + 1 + d
  <2>1. p - m - 1 \in Nat /\ p = m + 1 + (p - m - 1)
    BY <1>1
  <2> QED
    BY <2>1
<1>3. p * k = m * k + k + d * k /\ d * k \in Nat /\ m * k \in Nat
  BY <1>2
<1> QED
  BY <1>3

(* A clock and the frame that it is in.                                      *)
LEMMA FrameBounds ==
    ASSUME NEW n \in Nat
    PROVE  /\ FrameOf(n) \in Nat
           /\ FrameOf(n) * FrameClocks \in Nat /\ (FrameOf(n) + 1) * FrameClocks \in Nat
           /\ FrameOf(n) * FrameClocks <= n /\ n < (FrameOf(n) + 1) * FrameClocks
           /\ (FrameOf(n) + 1) * FrameClocks = FrameOf(n) * FrameClocks + FrameClocks
<1> DEFINE q == FrameOf(n)
<1>1. q \in Nat /\ q * FrameClocks <= n /\ n < (q + 1) * FrameClocks
  BY CopperNumbers, Quotient DEF FrameOf
<1> HIDE DEF q
<1>2. q * FrameClocks \in Nat /\ (q + 1) * FrameClocks = q * FrameClocks + FrameClocks
  BY <1>1, CopperNumbers
<1>3. (q + 1) * FrameClocks \in Nat
  BY <1>2, CopperNumbers
<1> QED
  BY <1>1, <1>2, <1>3 DEF q

LEMMA FrameIs ==
    ASSUME NEW n \in Nat, NEW q \in Nat, q * FrameClocks <= n, n < (q + 1) * FrameClocks
    PROVE  FrameOf(n) = q
  BY CopperNumbers, QuotientIs DEF FrameOf

LEMMA FramesGrow ==
    ASSUME NEW n \in Nat, NEW m \in Nat, n <= m
    PROVE  FrameOf(n) <= FrameOf(m)
  BY CopperNumbers, QuotientGrows DEF FrameOf

(* A few clocks after the beginning of a T-state are in its frame.            *)
LEMMA SameFrame ==
    ASSUME NEW T \in Nat, NEW q \in Nat, NEW n \in Nat, NEW d \in Nat, d < ClocksPerTstate,
           q * FrameClocks <= n, n <= T * ClocksPerTstate,
           T * ClocksPerTstate < (q + 1) * FrameClocks
    PROVE  FrameOf(n + d) = q
<1> DEFINE p == (q + 1) * FrameTstates
<1>1. p \in Nat
  BY CopperNumbers
<1>2. (q + 1) * FrameClocks = p * ClocksPerTstate
  <2>1. \A a, b, c \in Nat : (a + 1) * (b * c) = ((a + 1) * b) * c
    OBVIOUS
  <2> QED
    BY <2>1, CopperNumbers DEF FrameClocks
<1> HIDE DEF p
<1>3. T * ClocksPerTstate + ClocksPerTstate <= p * ClocksPerTstate
  BY <1>1, <1>2, WholeTstates, CopperNumbers
<1>4. T * ClocksPerTstate \in Nat /\ p * ClocksPerTstate \in Nat /\ q * FrameClocks \in Nat
  BY <1>1, CopperNumbers
<1>5. n + d < (q + 1) * FrameClocks /\ q * FrameClocks <= n + d
  BY <1>2, <1>3, <1>4, CopperNumbers
<1> QED
  BY <1>5, FrameIs

(* Core-control mode restarts the list at the beginning of a later frame.    *)
LEMMA RestartOK ==
    ASSUME NEW c, CopperTyped(c)
    PROVE  /\ CopperTyped(Restart(c))
           /\ Restart(c).program_counter = 0 /\ Restart(c).mode = c.mode
           /\ Restart(c).clocks > c.clocks
           /\ FrameOf(Restart(c).clocks) = FrameOf(c.clocks) + 1
           /\ Restart(c).clocks = (FrameOf(c.clocks) + 1) * FrameClocks
           /\ Restart(c).running = c.running
<1> DEFINE q == FrameOf(c.clocks)
           n == (q + 1) * FrameClocks
<1>1. c.clocks \in Nat
  BY DEF CopperTyped, Coppers
<1>2. q \in Nat /\ n \in Nat /\ c.clocks < n
  BY <1>1, FrameBounds
<1>3. FrameOf(n) = q + 1
  <2> HIDE DEF q
  <2>1. (q + 1) * FrameClocks < (q + 1 + 1) * FrameClocks
    <3>1. (q + 1 + 1) * FrameClocks = (q + 1) * FrameClocks + FrameClocks
      BY <1>2, CopperNumbers
    <3> QED
      BY <3>1, <1>2, CopperNumbers
  <2> QED
    BY <1>2, <2>1, FrameIs
<1>4. Restart(c) = [c EXCEPT !.program_counter = 0, !.stalled = FALSE, !.clocks = n]
  BY DEF Restart
<1> HIDE DEF q, n
<1>5. 0 \in 0..(InstructionCount - 1)
  BY CopperNumbers
<1>6. CopperTyped(Restart(c)) /\ Restart(c).clocks = n
  BY <1>2, <1>4, <1>5 DEF CopperTyped, Coppers
<1>7. /\ Restart(c).program_counter = 0 /\ Restart(c).mode = c.mode
      /\ Restart(c).running = c.running
  BY <1>4 DEF CopperTyped, Coppers
<1> QED
  BY <1>2, <1>3, <1>6, <1>7 DEF q, n

(* The beam comes to the position of a WAIT at a whole T-state, not before   *)
(* now.                                                                      *)
LEMMA BeamOK ==
    ASSUME NEW c, CopperTyped(c), NEW w, w.line \in Nat, w.column \in Nat
    PROVE  /\ BeamClocks(c, w) \in Nat /\ BeamClocks(c, w) >= c.clocks
           /\ \E m \in Nat : BeamClocks(c, w) = m * ClocksPerTstate
<1> DEFINE q == FrameOf(c.clocks)
           x == q * FrameClocks + w.line * LineTstates * ClocksPerTstate
                    + w.column * HorizontalTstates * ClocksPerTstate
           y == q * FrameTstates + w.line * LineTstates + w.column * HorizontalTstates
<1>1. c.clocks \in Nat
  BY DEF CopperTyped, Coppers
<1>2. q \in Nat /\ q * FrameClocks \in Nat /\ c.clocks < q * FrameClocks + FrameClocks
  BY <1>1, FrameBounds
<1>3. \A a, b \in Nat : a * b \in Nat
  OBVIOUS
<1>4. w.line * LineTstates \in Nat /\ w.column * HorizontalTstates \in Nat
      /\ q * FrameTstates \in Nat
  BY <1>2, <1>3, CopperNumbers
<1>5. /\ w.line * LineTstates * ClocksPerTstate \in Nat
      /\ w.column * HorizontalTstates * ClocksPerTstate \in Nat
  BY <1>3, <1>4, CopperNumbers
<1>6. y \in Nat /\ x = y * ClocksPerTstate
  <2>1. \A a, b, d, k \in Nat : (a + b + d) * k = a * k + b * k + d * k
    OBVIOUS
  <2>2. \A a, b, k \in Nat : a * (b * k) = (a * b) * k
    OBVIOUS
  <2>3. q * FrameClocks = (q * FrameTstates) * ClocksPerTstate
    BY <1>2, <2>2, CopperNumbers DEF FrameClocks
  <2>4. y * ClocksPerTstate = (q * FrameTstates) * ClocksPerTstate
            + w.line * LineTstates * ClocksPerTstate + w.column * HorizontalTstates * ClocksPerTstate
    BY <2>1, <1>4, CopperNumbers
  <2> QED
    BY <2>3, <2>4, <1>4
<1>7. x \in Nat /\ x >= q * FrameClocks
  BY <1>2, <1>5
<1>8. BeamClocks(c, w) = IF x < c.clocks THEN x + FrameClocks ELSE x
  BY Zenon DEF BeamClocks
<1> HIDE DEF x, y, q
<1>9. CASE x < c.clocks
  <2>1. BeamClocks(c, w) = x + FrameClocks
    BY <1>8, <1>9
  <2>2. y + FrameTstates \in Nat
    BY <1>6, CopperNumbers
  <2>3. x + FrameClocks = (y + FrameTstates) * ClocksPerTstate
    <3>1. \A a, b, k \in Nat : (a + b) * k = a * k + b * k
      OBVIOUS
    <3> QED
      BY <3>1, <1>6, CopperNumbers DEF FrameClocks
  <2> QED
    BY <1>1, <1>2, <1>7, <2>1, <2>2, <2>3, CopperNumbers
<1>10. CASE ~(x < c.clocks)
  BY <1>1, <1>6, <1>7, <1>8, <1>10
<1> QED
  BY <1>9, <1>10

-----------------------------------------------------------------------------
(* An instruction, and a turn of the loop.                                   *)

(* What the fields of an instruction can be.                                 *)
LEMMA InstructionForms ==
    ASSUME NEW i \in Instructions
    PROVE  /\ i.op \in {"noop", "halt", "wait", "move"}
           /\ i.op = "wait" => i.line \in Nat /\ i.column \in Nat
           /\ i.op = "move" => i.register \in {"none", "video", "address", "data", "control"}
           /\ i.op = "move" /\ i.register = "video" => i.value \in Nat
           /\ i.op = "move" /\ i.register = "address" => i.value \in Nat
           /\ i.op = "move" /\ i.register = "data" => i.value \in Bytes
           /\ i.op = "move" /\ i.register = "control" => i.value \in CopperControl
<1>1. CASE i \in [op : {"noop", "halt"}]
  BY <1>1
<1>2. CASE i \in [op : {"wait"}, line : Nat, column : Nat]
  BY <1>2
<1>3. CASE i \in [op : {"move"}, register : {"none", "video", "address"}, value : Nat]
  BY <1>3
<1>4. CASE i \in [op : {"move"}, register : {"data"}, value : Bytes]
  BY <1>4
<1>5. CASE i \in [op : {"move"}, register : {"control"}, value : CopperControl]
  BY <1>5
<1> QED
  BY <1>1, <1>2, <1>3, <1>4, <1>5 DEF Instructions

LEMMA FetchOK ==
    ASSUME NEW c, CopperTyped(c)
    PROVE  Fetch(c) \in Instructions
<1> DEFINE p == c.program_counter
<1>1. p \in 0..(InstructionCount - 1) /\ c.memory \in [0..(ByteCount - 1) -> Bytes]
  BY DEF CopperTyped, Coppers
<1>2. 2 * p \in 0..(ByteCount - 1) /\ 2 * p + 1 \in 0..(ByteCount - 1)
  BY <1>1, CopperNumbers DEF ByteCount
<1>3. <<c.memory[2 * p], c.memory[2 * p + 1]>> \in Bytes \X Bytes
  BY <1>1, <1>2
<1>4. Instruction \in [Bytes \X Bytes -> Instructions]
  BY CopperAssumption DEF CopperConstants
<1> QED
  BY <1>3, <1>4 DEF Fetch

(* The T-state of a clock, rounded up.                                       *)
LEMMA CeilingOK ==
    ASSUME NEW n \in Nat, NEW k \in Nat \ {0}
    PROVE  /\ CeilDiv(n, k) \in Nat
           /\ n <= CeilDiv(n, k) * k /\ CeilDiv(n, k) * k < n + k
<1>1. n + k - 1 \in Nat
  OBVIOUS
<1> DEFINE q == (n + k - 1) \div k
<1>2. q \in Nat /\ q * k <= n + k - 1 /\ n + k - 1 < (q + 1) * k
  BY <1>1, Quotient
<1> HIDE DEF q
<1>3. (q + 1) * k = q * k + k /\ q * k \in Nat
  BY <1>2
<1> QED
  BY <1>2, <1>3 DEF q, CeilDiv

LEMMA CeilingGrows ==
    ASSUME NEW n \in Nat, NEW m \in Nat, n <= m, NEW k \in Nat \ {0}
    PROVE  CeilDiv(n, k) <= CeilDiv(m, k)
<1>1. n + k - 1 \in Nat /\ m + k - 1 \in Nat /\ n + k - 1 <= m + k - 1
  OBVIOUS
<1> QED
  BY <1>1, QuotientGrows DEF CeilDiv

LEMMA CeilingIs ==
    ASSUME NEW t \in Nat, NEW k \in Nat \ {0}
    PROVE  CeilDiv(t * k, k) = t
<1>1. t * k \in Nat /\ (t + 1) * k = t * k + k
  OBVIOUS
<1> QED
  BY <1>1, QuotientIs DEF CeilDiv

(* What the trail says of an instruction.                                    *)
LEMMA EntryOK ==
    ASSUME NEW c, CopperTyped(c)
    PROVE  /\ Entry(c) \in Entries
           /\ Entry(c).t = CeilDiv(Entry(c).clocks, ClocksPerTstate)
           /\ Entry(c).clocks = c.clocks /\ Entry(c).mode = c.mode
           /\ Entry(c).pc = c.program_counter
<1>1. c.clocks \in Nat /\ c.mode \in Modes /\ c.program_counter \in 0..(InstructionCount - 1)
  BY DEF CopperTyped, Coppers
<1>2. CeilDiv(c.clocks, ClocksPerTstate) \in Nat
  BY <1>1, CeilingOK, CopperNumbers
<1>3. Fetch(c) \in Instructions
  BY FetchOK
<1> QED
  BY <1>1, <1>2, <1>3 DEF Entry, Entries

(* What a turn can do to a batch.                                            *)
Batches == [copper : Coppers, trail : Seq(Entries), left : BOOLEAN]

Leaves(s, r, target) ==
    /\ s.left \/ s.copper.clocks > target \/ ~Behind(s.copper, target)
    /\ r.left /\ r.trail = s.trail
    /\ r.copper = s.copper \/ r.copper = [s.copper EXCEPT !.stalled = TRUE]

IsDue(s, target) == ~s.left /\ s.copper.running /\ s.copper.clocks <= target

Restarts(s, r) ==
    /\ ~r.left /\ r.trail = s.trail
    /\ s.copper.mode = "frame" /\ r.copper = Restart(s.copper)

Executes(s, r) ==
    /\ r.trail = Append(s.trail, Entry(s.copper))
    /\ r.left = ChangesMode(Entry(s.copper))
    /\ \E n \in Nat :
          /\ r.copper = [s.copper EXCEPT !.program_counter = (@ + 1) % InstructionCount,
                                         !.clocks = n]
          /\ n > s.copper.clocks
          /\ s.copper.mode = "frame" => FrameOf(n) = FrameOf(s.copper.clocks)

(* An instruction takes its clocks in the frame that core-control mode is    *)
(* in.                                                                       *)
LEMMA ExecutedOK ==
    ASSUME NEW s \in Batches, CopperTyped(s.copper), NEW x \in Nat, NEW d \in Nat \ {0},
           x >= s.copper.clocks,
           s.copper.mode = "frame" => FrameOf(x + d) = FrameOf(s.copper.clocks)
    PROVE  /\ Executes(s, Executed(s, x, d)) /\ Executed(s, x, d) \in Batches
           /\ CopperTyped(Executed(s, x, d).copper)
<1> DEFINE c == s.copper
           d1 == [c EXCEPT !.program_counter = (@ + 1) % InstructionCount, !.clocks = x + d]
           r == Executed(s, x, d)
<1>1. /\ c.clocks \in Nat /\ c.program_counter \in 0..(InstructionCount - 1)
      /\ s.trail \in Seq(Entries)
  BY DEF CopperTyped, Coppers, Batches
<1>2. (c.program_counter + 1) % InstructionCount \in 0..(InstructionCount - 1)
  BY <1>1, CopperNumbers
<1>3. CopperTyped(d1)
  <2>1. c \in Coppers /\ x + d \in Nat
    BY DEF CopperTyped
  <2> QED
    BY <1>2, <2>1 DEF CopperTyped, Coppers
<1>4. /\ r.copper = d1 /\ r.trail = Append(s.trail, Entry(c)) /\ r.left = ChangesMode(Entry(c))
      /\ r = [copper |-> r.copper, trail |-> r.trail, left |-> r.left]
  BY DEF Executed
<1>5. Append(s.trail, Entry(c)) \in Seq(Entries)
  BY <1>1, EntryOK
<1>6. ChangesMode(Entry(c)) \in BOOLEAN
  BY DEF ChangesMode
<1>7. x + d \in Nat /\ x + d > c.clocks
  BY <1>1
<1>8. Executes(s, r)
  <2> HIDE DEF r
  <2> QED
    BY <1>4, <1>7, Zenon DEF Executes
<1>9. r \in Batches
  <2> HIDE DEF r, d1
  <2> QED
    BY <1>3, <1>4, <1>5, <1>6 DEF Batches, CopperTyped
<1> QED
  BY <1>3, <1>4, <1>8, <1>9

(* A turn that breaks out of the loop, and one that continues it.            *)
LEMMA Leaving ==
    ASSUME NEW s \in Batches, NEW d, CopperTyped(d),
           NEW r, r = [copper |-> d, trail |-> s.trail, left |-> TRUE]
    PROVE  /\ r \in Batches /\ CopperTyped(r.copper)
           /\ r.copper = d /\ r.trail = s.trail /\ r.left
<1>1. s.trail \in Seq(Entries) /\ d \in Coppers
  BY DEF Batches, CopperTyped
<1> QED
  BY <1>1 DEF Batches

LEMMA Staying ==
    ASSUME NEW s \in Batches, NEW d, CopperTyped(d),
           NEW r, r = [copper |-> d, trail |-> s.trail, left |-> FALSE]
    PROVE  /\ r \in Batches /\ CopperTyped(r.copper)
           /\ r.copper = d /\ r.trail = s.trail /\ ~r.left
<1>1. s.trail \in Seq(Entries) /\ d \in Coppers
  BY DEF Batches, CopperTyped
<1> QED
  BY <1>1 DEF Batches

(* A turn leaves the loop, restarts the list or executes an instruction that *)
(* is due.                                                                   *)
LEMMA TurnOK ==
    ASSUME NEW s \in Batches, CopperTyped(s.copper), NEW T \in Nat,
           NEW target, target = T * ClocksPerTstate
    PROVE  /\ Turn(s, target) \in Batches
           /\ CopperTyped(Turn(s, target).copper)
           /\ \/ Leaves(s, Turn(s, target), target)
              \/ IsDue(s, target) /\ Restarts(s, Turn(s, target))
              \/ IsDue(s, target) /\ Executes(s, Turn(s, target))
<1> DEFINE c == s.copper
           i == Fetch(c)
           r == Turn(s, target)
<1>1. /\ c.clocks \in Nat /\ c \in Coppers /\ s.left \in BOOLEAN /\ s.trail \in Seq(Entries)
      /\ target \in Nat
  BY CopperNumbers DEF CopperTyped, Coppers, Batches
<1>2. CASE s.left \/ ~c.running \/ c.clocks > target
  <2>1. r = [copper |-> c, trail |-> s.trail, left |-> TRUE]
    BY <1>2, Zenon DEF Turn
  <2>2. s.left \/ c.clocks > target \/ ~Behind(c, target)
    BY <1>2 DEF Behind, CopperTyped
  <2> HIDE DEF r
  <2>3. r \in Batches /\ CopperTyped(r.copper) /\ r.copper = c /\ r.trail = s.trail /\ r.left
    BY <2>1, Leaving
  <2>4. Leaves(s, r, target)
    BY <2>2, <2>3 DEF Leaves
  <2> QED
    BY <2>3, <2>4 DEF r
<1>3. CASE ~(s.left \/ ~c.running \/ c.clocks > target) /\ Behind(c, target)
  <2>1. r = [copper |-> Restart(c), trail |-> s.trail, left |-> FALSE]
    BY <1>3, Zenon DEF Turn
  <2>2. c.mode = "frame"
    BY <1>3 DEF Behind
  <2>3. CopperTyped(Restart(c)) /\ Restart(c) \in Coppers
    BY RestartOK DEF CopperTyped
  <2>4. IsDue(s, target)
    BY <1>1, <1>3 DEF IsDue
  <2> HIDE DEF r
  <2>5. /\ r \in Batches /\ CopperTyped(r.copper)
        /\ r.copper = Restart(c) /\ r.trail = s.trail /\ ~r.left
    BY <2>1, <2>3, Staying
  <2>6. Restarts(s, r)
    BY <2>2, <2>5 DEF Restarts
  <2> QED
    BY <2>4, <2>5, <2>6 DEF r
<1>4. ASSUME ~(s.left \/ ~c.running \/ c.clocks > target), ~Behind(c, target)
      PROVE  /\ r \in Batches /\ CopperTyped(r.copper)
             /\ \/ Leaves(s, r, target)
                \/ IsDue(s, target) /\ Restarts(s, r)
                \/ IsDue(s, target) /\ Executes(s, r)
  <2>0. IsDue(s, target)
    BY <1>1, <1>4 DEF IsDue
  <2>1. CASE c.stalled
    <3>1. r = [copper |-> c, trail |-> s.trail, left |-> TRUE]
      BY <1>4, <2>1, Zenon DEF Turn
    <3> HIDE DEF r
    <3>2. r \in Batches /\ CopperTyped(r.copper) /\ r.copper = c /\ r.trail = s.trail /\ r.left
      BY <3>1, Leaving
    <3>3. Leaves(s, r, target)
      BY <1>4, <3>2 DEF Leaves
    <3> QED
      BY <3>2, <3>3
  <2>2. CASE ~c.stalled /\ Stalls(i)
    <3>1. r = [copper |-> [c EXCEPT !.stalled = TRUE], trail |-> s.trail, left |-> TRUE]
      BY <1>4, <2>2, Zenon DEF Turn
    <3>2. CopperTyped([c EXCEPT !.stalled = TRUE])
      BY <1>1 DEF CopperTyped, Coppers
    <3> HIDE DEF r
    <3>3. /\ r \in Batches /\ CopperTyped(r.copper)
          /\ r.copper = [c EXCEPT !.stalled = TRUE] /\ r.trail = s.trail /\ r.left
      BY <3>1, <3>2, Leaving
    <3>4. Leaves(s, r, target)
      BY <1>4, <3>3 DEF Leaves
    <3> QED
      BY <3>3, <3>4
  <2>3. CASE ~c.stalled /\ ~Stalls(i) /\ i.op = "wait" /\ Crosses(c, i)
    <3>1. r = [copper |-> Restart(c), trail |-> s.trail, left |-> FALSE]
      BY <1>4, <2>3, Zenon DEF Turn
    <3>2. c.mode = "frame"
      BY <2>3 DEF Crosses
    <3>3. CopperTyped(Restart(c)) /\ Restart(c) \in Coppers
      BY RestartOK DEF CopperTyped
    <3> HIDE DEF r
    <3>4. /\ r \in Batches /\ CopperTyped(r.copper)
          /\ r.copper = Restart(c) /\ r.trail = s.trail /\ ~r.left
      BY <3>1, <3>3, Staying
    <3>5. Restarts(s, r)
      BY <3>2, <3>4 DEF Restarts
    <3> QED
      BY <2>0, <3>4, <3>5
  <2>4. CASE ~c.stalled /\ ~Stalls(i) /\ i.op = "wait" /\ ~Crosses(c, i)
    <3> DEFINE x == BeamClocks(c, i)
    <3>1. r = Executed(s, x, 1)
      BY <1>4, <2>4, Zenon DEF Turn
    <3>2. i.line \in Nat /\ i.column \in Nat
      BY <2>4, FetchOK, InstructionForms
    <3>3. x \in Nat /\ x >= c.clocks /\ \E m \in Nat : x = m * ClocksPerTstate
      BY <3>2, BeamOK
    <3>4. c.mode = "frame" => x < (FrameOf(c.clocks) + 1) * FrameClocks
      <4>1. (FrameOf(c.clocks) + 1) * FrameClocks \in Nat
        BY <1>1, FrameBounds
      <4>2. c.mode = "frame" => ~(x >= (FrameOf(c.clocks) + 1) * FrameClocks)
        BY <2>4 DEF Crosses
      <4> QED
        BY <3>3, <4>1, <4>2
    <3> HIDE DEF x
    <3>5. PICK m \in Nat : x = m * ClocksPerTstate
      BY <3>3
    <3>6. c.mode = "frame" => FrameOf(x + 1) = FrameOf(c.clocks)
      <4> SUFFICES ASSUME c.mode = "frame" PROVE FrameOf(x + 1) = FrameOf(c.clocks)
        OBVIOUS
      <4>1. FrameOf(c.clocks) \in Nat /\ FrameOf(c.clocks) * FrameClocks <= c.clocks
            /\ FrameOf(c.clocks) * FrameClocks \in Nat
        BY <1>1, FrameBounds
      <4>2. FrameOf(c.clocks) * FrameClocks <= x
        BY <1>1, <3>3, <4>1
      <4>3. x <= m * ClocksPerTstate /\ m * ClocksPerTstate < (FrameOf(c.clocks) + 1) * FrameClocks
        BY <3>3, <3>4, <3>5
      <4>4. 1 < ClocksPerTstate
        BY CopperNumbers
      <4> QED
        BY <3>3, <4>1, <4>2, <4>3, <4>4, SameFrame
    <3>7. Executes(s, r) /\ r \in Batches /\ CopperTyped(r.copper)
      BY <3>1, <3>3, <3>6, ExecutedOK
    <3> QED
      BY <2>0, <3>7
  <2>5. CASE ~c.stalled /\ ~Stalls(i) /\ i.op # "wait"
    <3> DEFINE d == IF i.op = "noop" THEN 1 ELSE 2
    <3>1. r = Executed(s, c.clocks, d)
      BY <1>4, <2>5, Zenon DEF Turn
    <3>2. d \in Nat \ {0} /\ d < ClocksPerTstate
      BY CopperNumbers
    <3> HIDE DEF d
    <3>3. c.mode = "frame" => FrameOf(c.clocks + d) = FrameOf(c.clocks)
      <4> SUFFICES ASSUME c.mode = "frame" PROVE FrameOf(c.clocks + d) = FrameOf(c.clocks)
        OBVIOUS
      <4>1. ~(FrameOf(c.clocks) < FrameOf(target)) /\ c.clocks <= target
        BY <1>1, <1>4 DEF Behind
      <4>2. FrameOf(c.clocks) <= FrameOf(target)
        BY <1>1, <4>1, FramesGrow
      <4>3. FrameOf(c.clocks) \in Nat /\ FrameOf(target) \in Nat
            /\ target < (FrameOf(target) + 1) * FrameClocks
            /\ FrameOf(c.clocks) * FrameClocks <= c.clocks
        BY <1>1, FrameBounds
      <4>4. FrameOf(c.clocks) = FrameOf(target)
        BY <4>1, <4>2, <4>3
      <4> QED
        BY <1>1, <3>2, <4>1, <4>3, <4>4, SameFrame
    <3>4. Executes(s, r) /\ r \in Batches /\ CopperTyped(r.copper)
      BY <1>1, <3>1, <3>2, <3>3, ExecutedOK
    <3> QED
      BY <2>0, <3>4
  <2> QED
    BY <2>1, <2>2, <2>3, <2>4, <2>5
<1> QED
  BY <1>2, <1>3, <1>4

-----------------------------------------------------------------------------
(* What runs next after an instruction: the heart of ListInOrder.            *)

(* Where the list goes on after an instruction that may have changed the mode. *)
Successor(a) ==
    IF ChangesMode(a) /\ a.instruction.value.mode \in {"start", "frame"} THEN 0
    ELSE (a.pc + 1) % InstructionCount

(* The instruction that ran last, and the Copper it has left: the mode, the  *)
(* place in the list and the time of what runs next.                         *)
SameMode(a, c) ==
    c.mode \in {"start", "frame"} =>
        c.mode = IF ChangesMode(a) THEN a.instruction.value.mode ELSE a.mode

InList(a, c) ==
    \/ /\ c.program_counter = Successor(a)
       /\ c.mode = "frame" /\ ~ChangesMode(a) => FrameOf(a.clocks) = FrameOf(c.clocks)
    \/ /\ a.mode = "frame" /\ c.program_counter = 0
       /\ c.mode = "frame" => FrameOf(a.clocks) < FrameOf(c.clocks)

InTime(a, c) ==
    c.mode # "stop" =>
        \/ a.clocks < c.clocks
        \/ a.clocks = c.clocks /\ (ChangesMode(a) \/ c.mode # a.mode)

Ready(a, c) == SameMode(a, c) /\ InList(a, c) /\ InTime(a, c)

(* The instruction that runs follows the one that ran last.                  *)
LEMMA ReadyFollows ==
    ASSUME NEW a \in Entries, NEW c, CopperTyped(c), Ready(a, c), c.mode # "stop"
    PROVE  Follows(a, Entry(c))
<1>1. /\ Entry(c).clocks = c.clocks /\ Entry(c).mode = c.mode
      /\ Entry(c).pc = c.program_counter
  BY EntryOK
<1>2. c.clocks \in Nat /\ a.clocks \in Nat
  BY DEF CopperTyped, Coppers, Entries
<1>3. FrameOf(c.clocks) \in Nat /\ FrameOf(a.clocks) \in Nat
  BY <1>2, FrameBounds
<1>4. /\ \/ a.clocks < c.clocks
         \/ a.clocks = c.clocks /\ (ChangesMode(a) \/ c.mode # a.mode)
  BY DEF Ready, InTime
<1> DEFINE changes == ChangesMode(a) /\ a.instruction.value.mode \in {"start", "frame"}
           fromStart ==
             \/ ChangesMode(a) /\ a.instruction.value.mode \in {"start", "frame"}
             \/ c.mode = "frame" /\ FrameOf(a.clocks) < FrameOf(c.clocks)
<1>5. \/ c.program_counter = IF fromStart THEN 0 ELSE (a.pc + 1) % InstructionCount
      \/ a.mode = "frame" /\ c.mode # "frame" /\ c.program_counter = 0
  <2>1. CASE c.program_counter = Successor(a)
             /\ (c.mode = "frame" /\ ~ChangesMode(a) => FrameOf(a.clocks) = FrameOf(c.clocks))
    <3>1. CASE changes
      BY <2>1, <3>1 DEF Successor
    <3>2. CASE ~changes
      <4>1. c.program_counter = (a.pc + 1) % InstructionCount
        BY <2>1, <3>2, Zenon DEF Successor
      <4>2. ~(c.mode = "frame" /\ FrameOf(a.clocks) < FrameOf(c.clocks))
        <5> SUFFICES ASSUME c.mode = "frame" PROVE ~(FrameOf(a.clocks) < FrameOf(c.clocks))
          OBVIOUS
        <5>1. ~ChangesMode(a)
          BY <3>2 DEF Ready, SameMode
        <5> QED
          BY <1>3, <2>1, <5>1
      <4> QED
        BY <3>2, <4>1, <4>2
    <3> QED
      BY <3>1, <3>2
  <2>2. CASE a.mode = "frame" /\ c.program_counter = 0
             /\ (c.mode = "frame" => FrameOf(a.clocks) < FrameOf(c.clocks))
    BY <2>2
  <2> QED
    BY <2>1, <2>2 DEF Ready, InList
<1> QED
  BY <1>1, <1>4, <1>5 DEF Follows

(* After an instruction that keeps the mode, the next is ready.              *)
LEMMA ExecutedReady ==
    ASSUME NEW c, CopperTyped(c), ~ChangesMode(Entry(c)), NEW n \in Nat, n > c.clocks,
           c.mode = "frame" => FrameOf(n) = FrameOf(c.clocks)
    PROVE  Ready(Entry(c), [c EXCEPT !.program_counter = (@ + 1) % InstructionCount,
                                     !.clocks = n])
<1> DEFINE a == Entry(c)
           d == [c EXCEPT !.program_counter = (@ + 1) % InstructionCount, !.clocks = n]
<1>1. a.clocks = c.clocks /\ a.mode = c.mode /\ a.pc = c.program_counter
  BY EntryOK
<1>2. c \in Coppers /\ c.clocks \in Nat
  BY DEF CopperTyped, Coppers
<1>3. /\ d.mode = c.mode /\ d.clocks = n
      /\ d.program_counter = (c.program_counter + 1) % InstructionCount
  BY <1>2 DEF Coppers
<1> HIDE DEF a, d
<1>4. SameMode(a, d) /\ InTime(a, d)
  BY <1>1, <1>2, <1>3 DEF SameMode, InTime, a
<1>5. InList(a, d)
  BY <1>1, <1>3 DEF InList, Successor, a
<1> QED
  BY <1>4, <1>5 DEF Ready, a, d

(* After a restart in core-control mode, the first is ready.                 *)
LEMMA RestartReady ==
    ASSUME NEW a \in Entries, NEW c, CopperTyped(c), c.mode = "frame", Ready(a, c)
    PROVE  Ready(a, Restart(c))
<1> DEFINE d == Restart(c)
<1>1. /\ d.program_counter = 0 /\ d.mode = "frame" /\ d.clocks > c.clocks
      /\ d.clocks \in Nat /\ FrameOf(d.clocks) = FrameOf(c.clocks) + 1
  BY RestartOK DEF CopperTyped, Coppers
<1>2. c.clocks \in Nat /\ a.clocks \in Nat
  BY DEF CopperTyped, Coppers, Entries
<1>3. FrameOf(c.clocks) \in Nat /\ FrameOf(a.clocks) \in Nat
  BY <1>2, FrameBounds
<1> HIDE DEF d
<1>4. SameMode(a, d)
  BY <1>1 DEF Ready, SameMode
<1>5. InTime(a, d)
  BY <1>1, <1>2 DEF Ready, InTime
<1>6. InList(a, d)
  <2>1. CASE ChangesMode(a)
    <3>1. a.instruction.value.mode = "frame"
      BY <2>1 DEF Ready, SameMode
    <3> QED
      BY <1>1, <2>1, <3>1 DEF InList, Successor
  <2>2. CASE ~ChangesMode(a)
    <3>1. a.mode = "frame"
      BY <2>2 DEF Ready, SameMode
    <3>2. FrameOf(a.clocks) = FrameOf(c.clocks) \/ FrameOf(a.clocks) < FrameOf(c.clocks)
      BY <2>2 DEF Ready, InList
    <3> QED
      BY <1>1, <1>3, <3>1, <3>2 DEF InList
  <2> QED
    BY <2>1, <2>2
<1> QED
  BY <1>4, <1>5, <1>6 DEF Ready, d

(* What a Copper is ready for does not depend on the rest of it.             *)
SameRun(c, d) ==
    d.mode = c.mode /\ d.program_counter = c.program_counter /\ d.clocks = c.clocks

LEMMA SameReady ==
    ASSUME NEW a, NEW c, NEW d, SameRun(c, d), Ready(a, c)
    PROVE  Ready(a, d)
  BY DEF SameRun, Ready, SameMode, InList, InTime

(* The clock goes on to the end of a batch that is in the same frame.         *)
LEMMA LaterReady ==
    ASSUME NEW a \in Entries, NEW c, CopperTyped(c), Ready(a, c),
           NEW n \in Nat, c.clocks <= n, ~Behind(c, n),
           NEW d, d.mode = c.mode, d.program_counter = c.program_counter, d.clocks = n
    PROVE  Ready(a, d)
<1>1. c.clocks \in Nat /\ a.clocks \in Nat
  BY DEF CopperTyped, Coppers, Entries
<1>2. /\ FrameOf(c.clocks) \in Nat /\ FrameOf(a.clocks) \in Nat /\ FrameOf(n) \in Nat
      /\ FrameOf(c.clocks) <= FrameOf(n)
  BY <1>1, FrameBounds, FramesGrow
<1>3. c.mode = "frame" => FrameOf(c.clocks) = FrameOf(n)
  BY <1>2 DEF Behind
<1>4. SameMode(a, d) /\ InTime(a, d)
  BY <1>1 DEF Ready, SameMode, InTime
<1>5. InList(a, d)
  BY <1>2, <1>3 DEF Ready, InList
<1> QED
  BY <1>4, <1>5 DEF Ready

(* A change of the mode.                                                     *)
LEMMA ControlOK ==
    ASSUME NEW c, CopperTyped(c), NEW v \in CopperControl, NEW t \in Nat,
           NEW d, d = WriteCopperControl(c, v, t)
    PROVE  /\ CopperTyped(d)
           /\ v.mode = c.mode => SameRun(c, d)
           /\ v.mode # c.mode =>
                /\ d.mode = v.mode
                /\ v.mode # "stop" => d.clocks = t * ClocksPerTstate
                /\ v.mode = "stop" => d.clocks = c.clocks
                /\ d.program_counter =
                      IF v.mode \in {"start", "frame"} THEN 0 ELSE c.program_counter
<1> DEFINE set == [c EXCEPT !.mode = v.mode,
                         !.address = (v.high * LowBytes + (@ % LowBytes)) % ByteCount]
           restart == [set EXCEPT !.program_counter = 0, !.running = TRUE,
                               !.stalled = FALSE, !.clocks = t * ClocksPerTstate]
<1>1. v.mode \in Modes /\ v.high \in Nat
  BY DEF CopperControl
<1>2. c \in Coppers /\ c.address \in Nat
  BY DEF CopperTyped, Coppers
<1>3. (v.high * LowBytes + (c.address % LowBytes)) % ByteCount \in Nat
  <2>1. v.high * LowBytes \in Nat /\ c.address % LowBytes \in Nat
    BY <1>1, <1>2, CopperNumbers
  <2> QED
    BY <2>1, CopperNumbers
<1>4. set \in Coppers /\ set.mode = v.mode /\ set.running = c.running
      /\ set.program_counter = c.program_counter /\ set.clocks = c.clocks
  BY <1>1, <1>2, <1>3 DEF Coppers
<1>5. t * ClocksPerTstate \in Nat /\ 0 \in 0..(InstructionCount - 1)
  BY CopperNumbers
<1>6. restart \in Coppers /\ restart.mode = v.mode /\ restart.running = TRUE
      /\ restart.program_counter = 0 /\ restart.clocks = t * ClocksPerTstate
  <2> HIDE DEF set
  <2> QED
    BY <1>4, <1>5 DEF Coppers
<1>7. d = CASE v.mode = c.mode -> set
            [] v.mode # c.mode /\ v.mode = "stop" ->
                  [set EXCEPT !.running = FALSE, !.stalled = FALSE]
            [] v.mode # c.mode /\ v.mode \in {"start", "frame"} -> restart
            [] v.mode # c.mode /\ v.mode = "resume" ->
                  [restart EXCEPT !.program_counter = c.program_counter]
  BY Zenon DEF WriteCopperControl
<1> HIDE DEF set, restart
<1>8. CASE v.mode = c.mode
  <2>1. d = set
    BY <1>7, <1>8
  <2> QED
    BY <1>4, <1>8, <2>1 DEF CopperTyped, SameRun
<1>9. CASE v.mode # c.mode /\ v.mode = "stop"
  <2>1. d = [set EXCEPT !.running = FALSE, !.stalled = FALSE]
    BY <1>7, <1>9
  <2> QED
    BY <1>4, <1>9, <2>1 DEF CopperTyped, Coppers
<1>10. CASE v.mode # c.mode /\ v.mode \in {"start", "frame"}
  <2>1. d = restart
    BY <1>7, <1>10
  <2> QED
    BY <1>6, <1>10, <2>1 DEF CopperTyped
<1>11. CASE v.mode # c.mode /\ v.mode = "resume"
  <2>1. d = [restart EXCEPT !.program_counter = c.program_counter]
    BY <1>7, <1>11
  <2>2. c.program_counter \in 0..(InstructionCount - 1)
    BY <1>2 DEF Coppers
  <2> QED
    BY <1>6, <1>11, <2>1, <2>2 DEF CopperTyped, Coppers
<1> QED
  BY <1>1, <1>8, <1>9, <1>10, <1>11 DEF Modes

-----------------------------------------------------------------------------
(* The loop of advance.                                                      *)

(* The loop of advance: what has run in it, from a Copper on and after what   *)
(* had run before.                                                           *)
Ordered(R) == \A k \in 1..(Len(R) - 1) : Follows(R[k], R[k + 1])

TrailOK(trail, c, clocks, target) ==
    \A k \in 1..Len(trail) :
        /\ trail[k].mode = c.mode /\ trail[k].t = CeilDiv(trail[k].clocks, ClocksPerTstate)
        /\ c.clocks <= trail[k].clocks
        /\ trail[k].clocks <= target /\ trail[k].clocks <= clocks
        /\ k < Len(trail) =>
              ~ChangesMode(trail[k]) /\ trail[k].clocks <= trail[k + 1].clocks

HasChanged(trail) == trail # <<>> /\ ChangesMode(trail[Len(trail)])

Continues(s, before, c, target) ==
    /\ s \in Batches /\ CopperTyped(s.copper)
    /\ s.copper.mode = c.mode /\ c.clocks <= s.copper.clocks
    /\ s.trail # <<>> => c.mode # "stop"
    /\ TrailOK(s.trail, c, s.copper.clocks, target)
    /\ Ordered(before \o s.trail)
    /\ HasChanged(s.trail) =>
          s.copper.program_counter = (s.trail[Len(s.trail)].pc + 1) % InstructionCount
    /\ ~HasChanged(s.trail) /\ before \o s.trail # <<>> =>
          Ready((before \o s.trail)[Len(before \o s.trail)], s.copper)

Looping(s, before, c, target) ==
    /\ Continues(s, before, c, target)
    /\ HasChanged(s.trail) => s.left
    /\ s.left /\ ~HasChanged(s.trail) =>
          s.copper.clocks > target \/ ~Behind(s.copper, target)

(* One more instruction, in the order of all that ran and in the trail of    *)
(* the batch.                                                                *)
LEMMA OrderedAppend ==
    ASSUME NEW R \in Seq(Entries), Ordered(R), NEW e \in Entries,
           R # <<>> => Follows(R[Len(R)], e)
    PROVE  Ordered(Append(R, e))
<1> DEFINE Q == Append(R, e)
<1>1. /\ Len(Q) = Len(R) + 1 /\ Len(R) \in Nat
      /\ \A k \in 1..Len(R) : Q[k] = R[k]
      /\ Q[Len(R) + 1] = e
  OBVIOUS
<1>2. ASSUME NEW k \in 1..(Len(Q) - 1)
      PROVE  Follows(Q[k], Q[k + 1])
  <2> HIDE DEF Q
  <2>1. k \in 1..Len(R)
    BY <1>1
  <2>2. CASE k = Len(R)
    <3>1. Q[k] = R[Len(R)] /\ Q[k + 1] = e /\ R # <<>>
      BY <1>1, <2>1, <2>2
    <3> QED
      BY <3>1
  <2>3. CASE k # Len(R)
    <3>1. k \in 1..(Len(R) - 1) /\ k + 1 \in 1..Len(R)
      BY <1>1, <2>1, <2>3
    <3>2. Follows(R[k], R[k + 1])
      BY <3>1 DEF Ordered
    <3> QED
      BY <1>1, <2>1, <3>1, <3>2
  <2> QED
    BY <2>2, <2>3
<1> QED
  BY <1>2 DEF Ordered

LEMMA TrailAppend ==
    ASSUME NEW trail \in Seq(Entries), NEW c, c.clocks \in Nat,
           NEW clocks \in Nat, NEW target \in Nat,
           TrailOK(trail, c, clocks, target), ~HasChanged(trail),
           NEW e \in Entries, e.mode = c.mode, e.t = CeilDiv(e.clocks, ClocksPerTstate),
           c.clocks <= e.clocks, clocks <= e.clocks, e.clocks <= target,
           NEW n \in Nat, e.clocks <= n
    PROVE  TrailOK(Append(trail, e), c, n, target)
<1> DEFINE Q == Append(trail, e)
<1>1. /\ Len(Q) = Len(trail) + 1 /\ Len(trail) \in Nat
      /\ \A k \in 1..Len(trail) : Q[k] = trail[k] /\ Q[k] \in Entries
      /\ Q[Len(trail) + 1] = e
  OBVIOUS
<1>2. e.clocks \in Nat
  BY DEF Entries
<1> HIDE DEF Q
<1>3. ASSUME NEW k \in 1..Len(Q)
      PROVE  /\ Q[k].mode = c.mode /\ Q[k].t = CeilDiv(Q[k].clocks, ClocksPerTstate)
             /\ c.clocks <= Q[k].clocks
             /\ Q[k].clocks <= target /\ Q[k].clocks <= n
             /\ k < Len(Q) => ~ChangesMode(Q[k]) /\ Q[k].clocks <= Q[k + 1].clocks
  <2>1. CASE k = Len(trail) + 1
    <3>1. Q[k] = e /\ ~(k < Len(Q))
      BY <1>1, <2>1
    <3> QED
      BY <3>1, Zenon
  <2>2. CASE k # Len(trail) + 1
    <3>0. k \in 1..Len(trail) /\ Q[k] = trail[k] /\ Q[k] \in Entries
      BY <1>1, <2>2
    <3>1. k \in 1..Len(trail) /\ Q[k] = trail[k] /\ Q[k].clocks \in Nat
      BY <3>0 DEF Entries
    <3>2. /\ Q[k].mode = c.mode /\ Q[k].t = CeilDiv(Q[k].clocks, ClocksPerTstate)
          /\ c.clocks <= Q[k].clocks /\ Q[k].clocks <= target /\ Q[k].clocks <= clocks
          /\ k < Len(trail) => ~ChangesMode(Q[k]) /\ Q[k].clocks <= trail[k + 1].clocks
      BY <3>1 DEF TrailOK
    <3>3. Q[k].clocks <= e.clocks /\ Q[k].clocks <= n
      BY <1>2, <3>1, <3>2
    <3>4. CASE k = Len(trail)
      <4>1. ~ChangesMode(Q[k]) /\ Q[k + 1] = e
        BY <1>1, <3>1, <3>4 DEF HasChanged
      <4> QED
        BY <3>2, <3>3, <4>1
    <3>5. CASE k # Len(trail)
      <4>1. k + 1 \in 1..Len(trail) /\ k < Len(trail)
        BY <3>1, <3>5
      <4>2. Q[k + 1] = trail[k + 1]
        BY <1>1, <4>1
      <4> QED
        BY <3>2, <3>3, <4>1, <4>2
    <3> QED
      BY <3>4, <3>5
  <2> QED
    BY <2>1, <2>2
<1> QED
  BY <1>3 DEF TrailOK, Q

(* The bounds of a trail hold for a later clock.                             *)
LEMMA TrailLonger ==
    ASSUME NEW trail \in Seq(Entries), NEW c, NEW clocks \in Nat, NEW target \in Nat,
           TrailOK(trail, c, clocks, target), NEW n \in Nat, clocks <= n
    PROVE  TrailOK(trail, c, n, target)
<1>1. \A k \in 1..Len(trail) : trail[k].clocks \in Nat
  <2>1. \A k \in 1..Len(trail) : trail[k] \in Entries
    OBVIOUS
  <2> QED
    BY <2>1 DEF Entries
<1> QED
  BY <1>1, SMTT(30) DEF TrailOK

(* A turn keeps what the loop promises.                                      *)
LEMMA TurnKeeps ==
    ASSUME NEW before \in Seq(Entries), NEW c, CopperTyped(c), NEW T \in Nat,
           NEW target, target = T * ClocksPerTstate,
           NEW s, Looping(s, before, c, target)
    PROVE  Looping(Turn(s, target), before, c, target)
<1> DEFINE r == Turn(s, target)
           R == before \o s.trail
           e == Entry(s.copper)
<1>1. /\ s \in Batches /\ CopperTyped(s.copper) /\ s.trail \in Seq(Entries)
      /\ s.copper \in Coppers /\ s.copper.clocks \in Nat /\ c.clocks \in Nat
      /\ target \in Nat /\ s.copper.mode = c.mode /\ c.clocks <= s.copper.clocks
      /\ s.trail # <<>> => c.mode # "stop"
      /\ TrailOK(s.trail, c, s.copper.clocks, target) /\ Ordered(R)
  BY CopperNumbers DEF Looping, Continues, Batches, CopperTyped, Coppers
<1>2. r \in Batches /\ CopperTyped(r.copper)
      /\ \/ Leaves(s, r, target)
         \/ IsDue(s, target) /\ Restarts(s, r)
         \/ IsDue(s, target) /\ Executes(s, r)
  BY <1>1, TurnOK
<1>3. R \in Seq(Entries)
  BY <1>1
<1>0. SUFFICES Looping(r, before, c, target)
  OBVIOUS
<1> HIDE DEF r
<1>4. CASE Leaves(s, r, target)
  <2>1. /\ SameRun(s.copper, r.copper) /\ r.trail = s.trail /\ r.left
        /\ s.left \/ s.copper.clocks > target \/ ~Behind(s.copper, target)
    BY <1>1, <1>4 DEF Leaves, SameRun, Coppers
  <2>2. Continues(r, before, c, target)
    <3>1. ~HasChanged(s.trail) /\ R # <<>> => Ready(R[Len(R)], r.copper)
      BY <2>1, SameReady DEF Looping, Continues
    <3>2. HasChanged(s.trail) =>
            r.copper.program_counter = (s.trail[Len(s.trail)].pc + 1) % InstructionCount
      BY <2>1 DEF Looping, Continues, SameRun
    <3>3. r.copper.mode = s.copper.mode /\ r.copper.clocks = s.copper.clocks
      BY <2>1 DEF SameRun
    <3> QED
      BY <1>1, <1>2, <2>1, <3>1, <3>2, <3>3, Zenon DEF Continues
  <2>3. Behind(r.copper, target) = Behind(s.copper, target) /\ r.copper.clocks = s.copper.clocks
    BY <2>1 DEF Behind, SameRun
  <2>4. ~HasChanged(r.trail) => r.copper.clocks > target \/ ~Behind(r.copper, target)
    BY <2>1, <2>3 DEF Looping
  <2> QED
    BY <2>1, <2>2, <2>4 DEF Looping
<1>5. CASE IsDue(s, target) /\ Restarts(s, r)
  <2>1. ~s.left /\ ~HasChanged(s.trail)
    BY <1>5 DEF IsDue, Looping
  <2>2. /\ ~r.left /\ r.trail = s.trail /\ s.copper.mode = "frame"
        /\ r.copper = Restart(s.copper)
    BY <1>5 DEF Restarts
  <2>3. r.copper.mode = s.copper.mode /\ r.copper.clocks > s.copper.clocks
        /\ r.copper.clocks \in Nat
    BY <1>1, <1>2, <2>2, RestartOK, SMTT(30) DEF CopperTyped, Coppers
  <2>4. R # <<>> => Ready(R[Len(R)], r.copper)
    <3> SUFFICES ASSUME R # <<>> PROVE Ready(R[Len(R)], r.copper)
      OBVIOUS
    <3>1. R[Len(R)] \in Entries
      BY <1>3
    <3>2. Ready(R[Len(R)], s.copper)
      BY <2>1 DEF Looping, Continues
    <3> QED
      BY <1>1, <2>2, <3>1, <3>2, RestartReady
  <2>5. TrailOK(r.trail, c, r.copper.clocks, target)
    BY <1>1, <2>2, <2>3, TrailLonger
  <2>6. c.clocks <= r.copper.clocks
    BY <1>1, <2>3
  <2>7. Continues(r, before, c, target)
    BY <1>1, <1>2, <2>1, <2>2, <2>3, <2>4, <2>5, <2>6, Zenon DEF Continues
  <2> QED
    BY <2>1, <2>2, <2>7 DEF Looping
<1>6. CASE IsDue(s, target) /\ Executes(s, r)
  <2>1. ~s.left /\ ~HasChanged(s.trail) /\ s.copper.running /\ s.copper.clocks <= target
    BY <1>6 DEF IsDue, Looping
  <2>2. PICK n \in Nat :
          /\ r.copper = [s.copper EXCEPT !.program_counter = (@ + 1) % InstructionCount,
                                         !.clocks = n]
          /\ n > s.copper.clocks
          /\ s.copper.mode = "frame" => FrameOf(n) = FrameOf(s.copper.clocks)
    BY <1>6 DEF Executes
  <2>3. r.trail = Append(s.trail, e) /\ r.left = ChangesMode(e)
    BY <1>6 DEF Executes
  <2>4. /\ e \in Entries /\ e.t = CeilDiv(e.clocks, ClocksPerTstate)
        /\ e.clocks = s.copper.clocks /\ e.mode = c.mode
        /\ e.pc = s.copper.program_counter
    BY <1>1, EntryOK
  <2>5. /\ r.copper.mode = c.mode /\ r.copper.clocks = n
        /\ r.copper.program_counter = (e.pc + 1) % InstructionCount
    BY <1>1, <2>2, <2>4 DEF Coppers
  <2>6. c.mode # "stop"
    BY <1>1, <2>1 DEF CopperTyped
  <2>7. before \o r.trail = Append(R, e)
    BY <1>1, <2>3, <2>4, SMTT(30)
  <2> HIDE DEF R, e
  <2>8. Ordered(Append(R, e))
    <3>1. R # <<>> => Follows(R[Len(R)], e)
      <4> SUFFICES ASSUME R # <<>> PROVE Follows(R[Len(R)], e)
        OBVIOUS
      <4>1. R[Len(R)] \in Entries
        BY <1>3
      <4>2. Ready(R[Len(R)], s.copper)
        BY <2>1 DEF Looping, Continues, R
      <4> QED
        BY <1>1, <2>6, <4>1, <4>2, ReadyFollows DEF e
    <3> QED
      BY <1>1, <1>3, <2>4, <3>1, OrderedAppend
  <2>9. TrailOK(r.trail, c, r.copper.clocks, target)
    <3>1. s.copper.clocks <= e.clocks /\ e.clocks <= target /\ e.clocks <= n /\ c.clocks <= e.clocks
      BY <1>1, <2>1, <2>2, <2>4
    <3> QED
      BY <1>1, <2>1, <2>3, <2>4, <2>5, <3>1, TrailAppend
  <2>10. r.trail # <<>> /\ r.trail[Len(r.trail)] = e
    BY <1>1, <2>3
  <2>11. Append(R, e) # <<>> /\ Append(R, e)[Len(Append(R, e))] = e
    BY <1>3
  <2>12. HasChanged(r.trail) <=> ChangesMode(e)
    BY <2>10 DEF HasChanged
  <2>13. ~ChangesMode(e) => Ready(e, r.copper)
    <3> SUFFICES ASSUME ~ChangesMode(e) PROVE Ready(e, r.copper)
      OBVIOUS
    <3>1. ~ChangesMode(Entry(s.copper))
      BY DEF e
    <3>2. Ready(Entry(s.copper),
                [s.copper EXCEPT !.program_counter = (@ + 1) % InstructionCount, !.clocks = n])
      BY <1>1, <2>2, <3>1, ExecutedReady
    <3> QED
      BY <2>2, <3>2, Zenon DEF e
  <2>14. c.clocks <= r.copper.clocks
    BY <1>1, <2>2, <2>5
  <2>15. Continues(r, before, c, target)
    BY <1>2, <2>5, <2>6, <2>7, <2>8, <2>9, <2>10, <2>11, <2>12, <2>13, <2>14, Zenon
       DEF Continues
  <2> QED
    BY <2>3, <2>12, <2>15 DEF Looping
<1> QED
  BY <1>2, <1>4, <1>5, <1>6

(* The loop begins as it promises.                                           *)
LEMMA LoopBegins ==
    ASSUME NEW c, CopperTyped(c), NEW target, NEW before \in Seq(Entries), Ordered(before),
           before # <<>> => Ready(before[Len(before)], c)
    PROVE  Looping([copper |-> c, trail |-> <<>>, left |-> FALSE], before, c, target)
<1> DEFINE s == [copper |-> c, trail |-> <<>>, left |-> FALSE]
<1>1. s \in Batches /\ s.copper = c /\ s.trail = <<>> /\ ~s.left
  BY DEF Batches, CopperTyped
<1>2. before \o <<>> = before
  OBVIOUS
<1>3. c.clocks \in Nat
  BY DEF CopperTyped, Coppers
<1> HIDE DEF s
<1>4. TrailOK(s.trail, c, s.copper.clocks, target)
  BY <1>1 DEF TrailOK
<1>5. ~HasChanged(s.trail)
  BY <1>1 DEF HasChanged
<1>6. Continues(s, before, c, target)
  BY <1>1, <1>2, <1>3, <1>4, <1>5 DEF Continues
<1> QED
  BY <1>1, <1>5, <1>6 DEF Looping, s

(* Each turn that stays in the loop takes a clock at least: the loop ends.   *)
LEMMA TurnProgress ==
    ASSUME NEW s \in Batches, CopperTyped(s.copper), NEW T \in Nat,
           NEW target, target = T * ClocksPerTstate
    PROVE  \/ Turn(s, target).left
           \/ IsDue(s, target) /\ Turn(s, target).copper.clocks >= s.copper.clocks + 1
<1> DEFINE r == Turn(s, target)
<1>1. /\ s.copper.clocks \in Nat /\ r.copper.clocks \in Nat
      /\ \/ Leaves(s, r, target)
         \/ IsDue(s, target) /\ Restarts(s, r)
         \/ IsDue(s, target) /\ Executes(s, r)
  BY TurnOK DEF CopperTyped, Coppers
<1> HIDE DEF r
<1>2. Restarts(s, r) => r.copper.clocks > s.copper.clocks
  BY RestartOK DEF Restarts
<1>3. Executes(s, r) => r.copper.clocks > s.copper.clocks
  BY DEF Executes, CopperTyped, Coppers
<1> SUFFICES r.left \/ (IsDue(s, target) /\ r.copper.clocks >= s.copper.clocks + 1)
  BY DEF r
<1> QED
  BY <1>1, <1>2, <1>3 DEF Leaves

(* The loop of advance ends, and keeps its promise.                          *)
LEMMA RunOK ==
    ASSUME NEW c, CopperTyped(c), NEW T \in Nat, NEW target, target = T * ClocksPerTstate,
           NEW before \in Seq(Entries), Ordered(before),
           before # <<>> => Ready(before[Len(before)], c)
    PROVE  Looping(Run(c, target), before, c, target) /\ Run(c, target).left
<1> DEFINE N == MostTurns(c, target)
<1>1. c.clocks \in Nat /\ target \in Nat
  BY CopperNumbers DEF CopperTyped, Coppers
<1>2. \/ N \in Nat /\ N >= 1 /\ c.clocks + N >= target + 2
      \/ N = 1 /\ c.clocks > target
  BY <1>1 DEF MostTurns
<1>3. N \in Nat
  BY <1>2
<1>4. PICK f : /\ f[0] = [copper |-> c, trail |-> <<>>, left |-> FALSE]
               /\ \A n \in 1..N : f[n] = Turn(f[n - 1], target)
               /\ Run(c, target) = f[N]
  BY <1>3, RunTurns
<1> DEFINE Good(n) == /\ Looping(f[n], before, c, target)
                      /\ f[n].left \/ f[n].copper.clocks >= c.clocks + n
           bad == {n \in 0..N : ~Good(n)}
<1> HIDE DEF N
<1>5. Good(0)
  <2>1. Looping(f[0], before, c, target)
    BY <1>4, LoopBegins
  <2>2. f[0].copper.clocks = c.clocks
    BY <1>4
  <2> QED
    BY <1>1, <2>1, <2>2
<1>6. ASSUME NEW n \in 1..N, Good(n - 1)
      PROVE  Good(n) /\ (f[n].left \/ IsDue(f[n - 1], target))
  <2> DEFINE s == f[n - 1]
  <2>1. /\ s \in Batches /\ CopperTyped(s.copper) /\ s.copper.clocks \in Nat
        /\ Looping(s, before, c, target)
    BY <1>6 DEF Looping, Continues, CopperTyped, Coppers
  <2>2. f[n] = Turn(s, target)
    BY <1>4
  <2> HIDE DEF s
  <2>3. Looping(f[n], before, c, target)
    BY <2>1, <2>2, TurnKeeps
  <2>4. f[n].left \/ (IsDue(s, target) /\ f[n].copper.clocks >= s.copper.clocks + 1)
    BY <2>1, <2>2, TurnProgress
  <2>5. f[n].copper.clocks \in Nat /\ n \in Nat
    BY <1>3, <2>3 DEF Looping, Continues, CopperTyped, Coppers
  <2>6. f[n].left \/ f[n].copper.clocks >= c.clocks + n
    <3> DEFINE x == s.copper.clocks
               y == f[n].copper.clocks
    <3>1. s.left \/ x >= c.clocks + (n - 1)
      BY <1>6 DEF s
    <3>2. f[n].left \/ (~s.left /\ y >= x + 1)
      BY <2>4 DEF IsDue
    <3>3. x \in Nat /\ y \in Nat /\ n \in Nat /\ c.clocks \in Nat
      BY <1>1, <2>1, <2>5
    <3> HIDE DEF x, y
    <3>4. f[n].left \/ y >= c.clocks + n
      BY <3>1, <3>2, <3>3
    <3> QED
      BY <3>4 DEF y
  <2> QED
    BY <2>3, <2>4, <2>6 DEF s
<1>7. \A n \in 0..N : Good(n)
  <2> SUFFICES ASSUME bad # {} PROVE FALSE
    OBVIOUS
  <2>1. bad \in SUBSET Nat
    BY <1>3
  <2>2. PICK n \in bad : \A k \in bad : n <= k
    <3> HIDE DEF bad
    <3> QED
      BY <2>1, LeastNatural
  <2>3. n \in 0..N /\ ~Good(n)
    OBVIOUS
  <2> HIDE DEF Good
  <2>4. n # 0
    BY <1>5, <2>3
  <2>5. n \in 1..N /\ n - 1 \in 0..N /\ ~(n <= n - 1)
    BY <1>3, <2>3, <2>4
  <2>6. Good(n - 1)
    BY <2>2, <2>5
  <2> QED
    BY <1>6, <2>3, <2>5, <2>6
<1>8. f[N].left
  <2>1. N \in 1..N /\ N - 1 \in 0..N
    BY <1>2, <1>3
  <2>2. Good(N - 1)
    BY <1>7, <2>1
  <2>3. SUFFICES ASSUME ~f[N].left PROVE FALSE
    OBVIOUS
  <2>4. IsDue(f[N - 1], target)
    BY <1>6, <2>1, <2>2, <2>3
  <2>5. /\ ~f[N - 1].left /\ f[N - 1].copper.clocks <= target
        /\ f[N - 1].copper.clocks >= c.clocks + (N - 1)
        /\ f[N - 1].copper.clocks \in Nat
    BY <2>2, <2>4 DEF IsDue, Looping, Continues, CopperTyped, Coppers
  <2> QED
    BY <1>1, <1>2, <1>3, <2>5
<1>9. N \in 0..N
  BY <1>3
<1> QED
  BY <1>4, <1>7, <1>8, <1>9

(* advance: the batch continues what ran before, and its clock reaches the   *)
(* target.                                                                   *)
LEMMA AdvanceOK ==
    ASSUME NEW c, CopperTyped(c), NEW T \in Nat,
           NEW before \in Seq(Entries), Ordered(before),
           before # <<>> => Ready(before[Len(before)], c)
    PROVE  LET target == T * ClocksPerTstate
               r == AdvanceCopper(c, T)
           IN  Continues(r, before, c, target) /\ r.copper.clocks >= target
<1> DEFINE target == T * ClocksPerTstate
           s == Run(c, target)
           r == AdvanceCopper(c, T)
           n == IF s.copper.clocks < target THEN target ELSE s.copper.clocks
           R == before \o s.trail
<1>1. Looping(s, before, c, target) /\ s.left
  BY RunOK
<1>2. /\ s \in Batches /\ CopperTyped(s.copper) /\ s.copper \in Coppers
      /\ s.copper.clocks \in Nat /\ s.trail \in Seq(Entries)
      /\ target \in Nat /\ c.clocks \in Nat
  BY <1>1, CopperNumbers DEF Looping, Continues, CopperTyped, Coppers, Batches
<1>3. r = [s EXCEPT !.copper.clocks = IF @ < target THEN target ELSE @]
  BY Zenon DEF AdvanceCopper
<1> HIDE DEF s, r, target
<1>4. n \in Nat /\ n >= s.copper.clocks /\ n >= target
  BY <1>2
<1>5. r.copper = [s.copper EXCEPT !.clocks = n] /\ r.trail = s.trail /\ r.left = s.left
      /\ r = [copper |-> r.copper, trail |-> r.trail, left |-> r.left]
  BY <1>2, <1>3 DEF Batches, Coppers
<1> HIDE DEF n
<1>6. /\ r.copper.clocks = n /\ r.copper.mode = s.copper.mode
      /\ r.copper.program_counter = s.copper.program_counter
      /\ CopperTyped(r.copper)
  BY <1>2, <1>4, <1>5 DEF CopperTyped, Coppers
<1>7. r \in Batches
  BY <1>2, <1>5, <1>6 DEF Batches, CopperTyped
<1>8. /\ s.copper.mode = c.mode /\ c.clocks <= s.copper.clocks
      /\ s.trail # <<>> => c.mode # "stop"
      /\ TrailOK(s.trail, c, s.copper.clocks, target) /\ Ordered(R)
      /\ HasChanged(s.trail) =>
            s.copper.program_counter = (s.trail[Len(s.trail)].pc + 1) % InstructionCount
      /\ ~HasChanged(s.trail) /\ R # <<>> => Ready(R[Len(R)], s.copper)
      /\ ~HasChanged(s.trail) => s.copper.clocks > target \/ ~Behind(s.copper, target)
  BY <1>1 DEF Looping, Continues
<1>9. TrailOK(r.trail, c, r.copper.clocks, target)
  BY <1>2, <1>4, <1>5, <1>6, <1>8, TrailLonger
<1>10. ~HasChanged(s.trail) /\ R # <<>> => Ready(R[Len(R)], r.copper)
  <2> SUFFICES ASSUME ~HasChanged(s.trail), R # <<>> PROVE Ready(R[Len(R)], r.copper)
    OBVIOUS
  <2>1. R \in Seq(Entries) /\ R[Len(R)] \in Entries
    BY <1>2
  <2>2. Ready(R[Len(R)], s.copper)
    BY <1>8
  <2> HIDE DEF R
  <2>3. CASE s.copper.clocks < target
    <3>1. n = target /\ ~Behind(s.copper, target) /\ s.copper.clocks <= target
      BY <1>2, <1>8, <2>3 DEF n
    <3> QED
      BY <1>2, <1>6, <2>1, <2>2, <3>1, LaterReady
  <2>4. CASE ~(s.copper.clocks < target)
    <3>1. SameRun(s.copper, r.copper)
      BY <1>6, <2>4 DEF SameRun, n
    <3> QED
      BY <2>2, <3>1, SameReady
  <2> QED
    BY <2>3, <2>4
<1>11. c.clocks <= r.copper.clocks /\ r.copper.clocks >= target
  BY <1>2, <1>4, <1>6, <1>8
<1>12. Continues(r, before, c, target)
  BY <1>5, <1>6, <1>7, <1>8, <1>9, <1>10, <1>11, Zenon DEF Continues
<1> QED
  BY <1>11, <1>12 DEF r, target

-----------------------------------------------------------------------------
(* The MOVEs of a batch.                                                     *)

IsMoves(f, s, trail, N) ==
    f = [n \in 0..N |-> IF n = 0 THEN s ELSE Move(f[n - 1], trail[n])]

(* The MOVEs of a batch one after another, as a recursive function.          *)
LEMMA MovesExist ==
    ASSUME NEW s, NEW trail, NEW N \in Nat
    PROVE  \E f : IsMoves(f, s, trail, N)
<1> DEFINE none == {m \in Nat : ~ \E f : IsMoves(f, s, trail, m)}
<1>1. SUFFICES none = {}
  OBVIOUS
<1>2. SUFFICES ASSUME none # {} PROVE FALSE
  OBVIOUS
<1>3. PICK m \in none : \A k \in none : m <= k
  <2> HIDE DEF none
  <2>1. none \in SUBSET Nat
    BY DEF none
  <2> QED
    BY <1>2, <2>1, LeastNatural
<1>4. m # 0
  <2>1. IsMoves([n \in 0..0 |-> s], s, trail, 0)
    BY DEF IsMoves
  <2> QED
    BY <2>1
<1>5. PICK f : IsMoves(f, s, trail, m - 1)
  <2>1. m - 1 \in Nat /\ ~(m <= m - 1)
    BY <1>4
  <2> QED
    BY <1>3, <2>1
<1>6. \E g : IsMoves(g, s, trail, m)
  <2> DEFINE g == [n \in 0..m |-> IF n = m THEN Move(f[m - 1], trail[m]) ELSE f[n]]
  <2>1. ASSUME NEW n \in 0..m
        PROVE  g[n] = IF n = 0 THEN s ELSE Move(g[n - 1], trail[n])
    <3>1. CASE n = m
      <4>1. m - 1 \in 0..m /\ m - 1 # m
        BY <1>4
      <4>2. g[m - 1] = f[m - 1]
        BY <4>1
      <4> QED
        BY <1>4, <3>1, <4>2
    <3>2. CASE n # m
      <4>1. n \in 0..(m - 1)
        BY <3>2
      <4>2. f[n] = IF n = 0 THEN s ELSE Move(f[n - 1], trail[n])
        BY <1>5, <4>1 DEF IsMoves
      <4>3. n # 0 => n - 1 \in 0..m /\ n - 1 # m
        BY <4>1
      <4>4. n # 0 => g[n - 1] = f[n - 1]
        BY <4>3
      <4> QED
        BY <3>2, <4>2, <4>4
    <3> QED
      BY <3>1, <3>2
  <2>2. g = [n \in 0..m |-> IF n = 0 THEN s ELSE Move(g[n - 1], trail[n])]
    <3> HIDE DEF g
    <3>1. DOMAIN g = 0..m /\ g = [n \in DOMAIN g |-> g[n]]
      BY DEF g
    <3> QED
      BY <2>1, <3>1, Zenon
  <2> QED
    BY <2>2 DEF IsMoves
<1> QED
  BY <1>3, <1>6

(* Moves is the last of them.                                                *)
LEMMA MovesMade ==
    ASSUME NEW s, NEW trail, Len(trail) \in Nat
    PROVE  \E f : /\ f[0] = s
                  /\ \A n \in 1..Len(trail) : f[n] = Move(f[n - 1], trail[n])
                  /\ Moves(s, trail) = f[Len(trail)]
<1> DEFINE N == Len(trail)
           made[n \in 0..N] == IF n = 0 THEN s ELSE Move(made[n - 1], trail[n])
<1>1. made = [n \in 0..N |-> IF n = 0 THEN s ELSE Move(made[n - 1], trail[n])]
  <2>1. N \in Nat
    OBVIOUS
  <2> HIDE DEF N
  <2>2. PICK f : IsMoves(f, s, trail, N)
    BY <2>1, MovesExist
  <2> QED
    BY <2>2, Zenon DEF IsMoves
<1>2. Moves(s, trail) = made[N]
  BY Zenon DEF Moves
<1> HIDE DEF made, N
<1>3. N \in Nat
  BY DEF N
<1>4. made[0] = s
  BY <1>1, <1>3
<1>5. \A n \in 1..N : made[n] = Move(made[n - 1], trail[n])
  BY <1>1, <1>3
<1> QED
  BY <1>2, <1>4, <1>5 DEF N

-----------------------------------------------------------------------------
(* What the machine makes of a MOVE.                                         *)
Writes == [t : Nat, value : Nat]
Histories == [frame : Int, initial : Nat, events : Seq([line : Nat, value : Nat])]
Scenes == [copper : Coppers, video : Nat, history : Histories, writes : Seq(Writes)]

IsVideo(e) == e.instruction.op = "move" /\ e.instruction.register = "video"

SameRunning(c, d) ==
    CopperTyped(d) /\ SameRun(c, d)

(* A write of data or of an address leaves the list where it is.             *)
LEMMA WritesKeepRunning ==
    ASSUME NEW c, CopperTyped(c), NEW v
    PROVE  /\ v \in Bytes => SameRunning(c, WriteData(c, v))
           /\ v \in Nat => SameRunning(c, WriteAddressLow(c, v))
<1>1. c \in Coppers /\ c.address \in Nat /\ c.memory \in [0..(ByteCount - 1) -> Bytes]
  BY DEF CopperTyped, Coppers
<1>2. ASSUME v \in Bytes
      PROVE  SameRunning(c, WriteData(c, v))
  <2>1. (c.address + 1) % ByteCount \in Nat
    BY <1>1, CopperNumbers
  <2>2. [c.memory EXCEPT ![c.address] = v] \in [0..(ByteCount - 1) -> Bytes]
    BY <1>1, <1>2
  <2>3. WriteData(c, v) = [c EXCEPT !.memory = [c.memory EXCEPT ![c.address] = v],
                                    !.address = (c.address + 1) % ByteCount]
    BY <1>1 DEF WriteData, Coppers
  <2> QED
    BY <1>1, <2>1, <2>2, <2>3 DEF SameRunning, CopperTyped, SameRun, Coppers
<1>3. ASSUME v \in Nat
      PROVE  SameRunning(c, WriteAddressLow(c, v))
  <2>1. c.address \div LowBytes \in Nat
    BY <1>1, CopperNumbers
  <2>2. (c.address \div LowBytes) * LowBytes \in Nat
    BY <2>1, CopperNumbers
  <2>3. (c.address \div LowBytes) * LowBytes + v \in Nat
    BY <1>3, <2>2
  <2>4. WriteAddressLow(c, v) =
          [c EXCEPT !.address = (c.address \div LowBytes) * LowBytes + v]
    BY <1>1 DEF WriteAddressLow, Coppers
  <2> QED
    BY <1>1, <2>3, <2>4 DEF SameRunning, CopperTyped, SameRun, Coppers
<1> QED
  BY <1>2, <1>3

(* A MOVE is one of five things.                                             *)
LEMMA MoveCases ==
    ASSUME NEW s \in Scenes, CopperTyped(s.copper), NEW e \in Entries
    PROVE  /\ ~IsVideo(e) =>
                \E d : /\ Move(s, e) = [s EXCEPT !.copper = d]
                       /\ CopperTyped(d)
                       /\ \/ SameRun(s.copper, d)
                          \/ /\ e.instruction.op = "move"
                             /\ e.instruction.register = "control"
                             /\ d = WriteCopperControl(s.copper, e.instruction.value, e.t)
           /\ IsVideo(e) =>
                LET v == e.instruction.value
                IN  Move(s, e) = [s EXCEPT !.video = v,
                                           !.history = Capture(@, s.video, e.t, v),
                                           !.writes = Append(@, [t |-> e.t, value |-> v])]
<1> DEFINE i == e.instruction
           m == Move(s, e)
<1>1. i \in Instructions /\ e.t \in Nat
  BY DEF Entries
<1>2. m = CASE i.op # "move" -> s
            [] i.op = "move" /\ i.register = "none" -> s
            [] i.op = "move" /\ i.register = "video" ->
                  [s EXCEPT !.video = i.value,
                            !.history = Capture(@, s.video, e.t, i.value),
                            !.writes = Append(@, [t |-> e.t, value |-> i.value])]
            [] i.op = "move" /\ i.register = "data" ->
                  [s EXCEPT !.copper = WriteData(@, i.value)]
            [] i.op = "move" /\ i.register = "address" ->
                  [s EXCEPT !.copper = WriteAddressLow(@, i.value)]
            [] i.op = "move" /\ i.register = "control" ->
                  [s EXCEPT !.copper = WriteCopperControl(@, i.value, e.t)]
  BY Zenon DEF Move
<1> HIDE DEF m
<1>3. s = [s EXCEPT !.copper = s.copper] /\ SameRun(s.copper, s.copper)
  BY DEF Scenes, SameRun
<1>4. CASE i.op # "move" \/ (i.op = "move" /\ i.register = "none")
  <2>1. m = s
    BY <1>2, <1>4
  <2>2. ~IsVideo(e)
    BY <1>4 DEF IsVideo
  <2> QED
    BY <1>3, <2>1, <2>2 DEF m
<1>5. CASE i.op = "move" /\ i.register = "video"
  <2>1. m = [s EXCEPT !.video = i.value,
                      !.history = Capture(@, s.video, e.t, i.value),
                      !.writes = Append(@, [t |-> e.t, value |-> i.value])]
    BY <1>2, <1>5
  <2> QED
    BY <1>5, <2>1 DEF IsVideo, m
<1>6. CASE i.op = "move" /\ i.register = "data"
  <2>1. m = [s EXCEPT !.copper = WriteData(s.copper, i.value)]
    BY <1>2, <1>6
  <2>2. SameRunning(s.copper, WriteData(s.copper, i.value))
    BY <1>1, <1>6, InstructionForms, WritesKeepRunning
  <2>3. ~IsVideo(e)
    BY <1>6 DEF IsVideo
  <2> QED
    BY <2>1, <2>2, <2>3 DEF SameRunning, m
<1>7. CASE i.op = "move" /\ i.register = "address"
  <2>1. m = [s EXCEPT !.copper = WriteAddressLow(s.copper, i.value)]
    BY <1>2, <1>7
  <2>2. SameRunning(s.copper, WriteAddressLow(s.copper, i.value))
    BY <1>1, <1>7, InstructionForms, WritesKeepRunning
  <2>3. ~IsVideo(e)
    BY <1>7 DEF IsVideo
  <2> QED
    BY <2>1, <2>2, <2>3 DEF SameRunning, m
<1>8. CASE i.op = "move" /\ i.register = "control"
  <2>1. m = [s EXCEPT !.copper = WriteCopperControl(s.copper, i.value, e.t)]
    BY <1>2, <1>8
  <2>2. CopperTyped(WriteCopperControl(s.copper, i.value, e.t))
    BY <1>1, <1>8, InstructionForms, ControlOK
  <2>3. ~IsVideo(e)
    BY <1>8 DEF IsVideo
  <2> QED
    BY <1>8, <2>1, <2>2, <2>3 DEF m
<1> QED
  BY <1>1, <1>4, <1>5, <1>6, <1>7, <1>8, InstructionForms

(* After a MOVE that changed the mode, the Copper is ready for what follows. *)
LEMMA MoveCopper ==
    ASSUME NEW s \in Scenes, CopperTyped(s.copper), NEW e \in Entries,
           e.t = CeilDiv(e.clocks, ClocksPerTstate), e.mode = s.copper.mode
    PROVE  /\ CopperTyped(Move(s, e).copper)
           /\ ~ChangesMode(e) => SameRun(s.copper, Move(s, e).copper)
           /\ ChangesMode(e) /\ s.copper.program_counter = (e.pc + 1) % InstructionCount =>
                Ready(e, Move(s, e).copper)
           /\ ChangesMode(e) /\ Move(s, e).copper.mode # "stop" =>
                Move(s, e).copper.clocks = e.t * ClocksPerTstate
<1> DEFINE m == Move(s, e)
           v == e.instruction.value
<1>1. CASE IsVideo(e)
  <2>1. m.copper = s.copper /\ ~ChangesMode(e)
    <3>1. m = [s EXCEPT !.video = v, !.history = Capture(@, s.video, e.t, v),
                        !.writes = Append(@, [t |-> e.t, value |-> v])]
      BY <1>1, MoveCases
    <3>2. ~ChangesMode(e)
      BY <1>1 DEF IsVideo, ChangesMode
    <3> HIDE DEF m
    <3>3. m.copper = s.copper
      BY <3>1 DEF Scenes
    <3> QED
      BY <3>2, <3>3
  <2> QED
    BY <2>1 DEF SameRun
<1>2. CASE ~IsVideo(e)
  <2>1. PICK d : /\ m = [s EXCEPT !.copper = d]
                 /\ CopperTyped(d)
                 /\ \/ SameRun(s.copper, d)
                    \/ /\ e.instruction.op = "move" /\ e.instruction.register = "control"
                       /\ d = WriteCopperControl(s.copper, v, e.t)
    BY <1>2, MoveCases
  <2>2. m.copper = d
    BY <2>1 DEF Scenes
  <2> HIDE DEF m
  <2>3. e.instruction \in Instructions /\ e.t \in Nat /\ e.clocks \in Nat
        /\ s.copper.clocks \in Nat
    BY DEF Entries, CopperTyped, Coppers
  <2>4. CASE e.instruction.op = "move" /\ e.instruction.register = "control"
             /\ d = WriteCopperControl(s.copper, v, e.t)
    <3>1. v \in CopperControl
      BY <2>3, <2>4, InstructionForms
    <3>2. /\ v.mode = s.copper.mode => SameRun(s.copper, d)
          /\ v.mode # s.copper.mode =>
                /\ d.mode = v.mode
                /\ v.mode # "stop" => d.clocks = e.t * ClocksPerTstate
                /\ d.program_counter =
                      IF v.mode \in {"start", "frame"} THEN 0 ELSE s.copper.program_counter
      BY <2>3, <2>4, <3>1, ControlOK
    <3>3. ChangesMode(e) <=> v.mode # s.copper.mode
      BY <2>4 DEF ChangesMode
    <3>4. ASSUME ChangesMode(e), s.copper.program_counter = (e.pc + 1) % InstructionCount
          PROVE  Ready(e, d)
      <4>1. e.clocks <= e.t * ClocksPerTstate
        BY <2>3, CeilingOK, CopperNumbers
      <4>2. SameMode(e, d)
        BY <3>2, <3>3, <3>4 DEF SameMode
      <4>3. InTime(e, d)
        <5> SUFFICES ASSUME d.mode # "stop" PROVE e.clocks <= d.clocks
          BY <2>3, <3>4, <2>1 DEF InTime, CopperTyped, Coppers
        <5> QED
          BY <3>2, <3>3, <3>4, <4>1
      <4>4. InList(e, d)
        BY <3>2, <3>3, <3>4 DEF InList, Successor
      <4> QED
        BY <4>2, <4>3, <4>4 DEF Ready
    <3> QED
      BY <2>1, <2>2, <3>2, <3>3, <3>4 DEF m
  <2>5. CASE ~(e.instruction.op = "move" /\ e.instruction.register = "control"
             /\ d = WriteCopperControl(s.copper, v, e.t))
    <3>1. SameRun(s.copper, d)
      BY <2>1, <2>5
    <3>2. ~ChangesMode(e)
      <4>1. CASE e.instruction.op = "move" /\ e.instruction.register = "control"
        <5>1. v \in CopperControl
          BY <2>3, <4>1, InstructionForms
        <5>2. m = [s EXCEPT !.copper = WriteCopperControl(s.copper, v, e.t)]
          BY <4>1, Zenon DEF m, Move
        <5>3. d = WriteCopperControl(s.copper, v, e.t)
          BY <2>2, <5>2 DEF Scenes
        <5> QED
          BY <2>5, <4>1, <5>3
      <4>2. CASE ~(e.instruction.op = "move" /\ e.instruction.register = "control")
        BY <4>2 DEF ChangesMode
      <4> QED
        BY <4>1, <4>2
    <3> QED
      BY <2>1, <2>2, <3>1, <3>2 DEF m
  <2> QED
    BY <2>4, <2>5
<1> QED
  BY <1>1, <1>2

-----------------------------------------------------------------------------
(* The picture.                                                              *)

(* The last MOVE made before a time.                                         *)
MadeBefore(W, x) ==
    LET made == {k \in DOMAIN W : W[k].t < x}
    IN  IF made = {} THEN 0 ELSE W[Max(made)].value

InTimeOrder(W) == \A j, k \in DOMAIN W : j <= k => W[j].t <= W[k].t

(* The greatest of a finite set of numbers.                                  *)
LEMMA MaxIs ==
    ASSUME NEW S \in SUBSET Nat, NEW m \in S, \A y \in S : m >= y
    PROVE  Max(S) = m
<1>1. Max(S) \in S /\ \A y \in S : Max(S) >= y
  BY DEF Max
<1>2. Max(S) >= m /\ m >= Max(S) /\ m \in Nat /\ Max(S) \in Nat
  BY <1>1
<1> QED
  BY <1>2

(* One more MOVE: what was made before a time.                               *)
LEMMA MadeAppend ==
    ASSUME NEW W \in Seq(Writes), NEW w \in Writes, NEW x \in Nat
    PROVE  MadeBefore(Append(W, w), x) = IF w.t < x THEN w.value ELSE MadeBefore(W, x)
<1> DEFINE Q == Append(W, w)
           n == Len(W)
           made == {k \in DOMAIN W : W[k].t < x}
           more == {k \in DOMAIN Q : Q[k].t < x}
<1>1. /\ n \in Nat /\ DOMAIN W = 1..n /\ DOMAIN Q = 1..(n + 1)
      /\ \A k \in 1..n : Q[k] = W[k]
      /\ Q[n + 1] = w
  OBVIOUS
<1> HIDE DEF Q, n
<1>2. CASE w.t < x
  <2>1. n + 1 \in more /\ more \in SUBSET Nat /\ \A y \in more : n + 1 >= y
    BY <1>1, <1>2
  <2>2. Max(more) = n + 1 /\ more # {}
    <3> HIDE DEF more
    <3> QED
      BY <2>1, MaxIs
  <2>3. MadeBefore(Q, x) = Q[Max(more)].value
    BY <2>2 DEF MadeBefore
  <2> QED
    BY <1>1, <1>2, <2>2, <2>3 DEF Q
<1>3. CASE ~(w.t < x)
  <2>1. more = made
    BY <1>1, <1>3
  <2>2. made # {} => Max(made) \in 1..n
    <3> SUFFICES ASSUME made # {} PROVE Max(made) \in made
      BY <1>1
    <3>1. made \in SUBSET Nat /\ made \subseteq 1..n
      BY <1>1
    <3>2. \E m \in made : \A y \in made : m >= y
      <4> DEFINE upper == {k \in Nat : \A y \in made : y <= k}
      <4>1. n \in upper
        BY <1>1
      <4>2. PICK k \in upper : \A j \in upper : k <= j
        <5>1. upper \in SUBSET Nat /\ upper # {}
          BY <4>1
        <5> HIDE DEF upper
        <5> QED
          BY <5>1, LeastNatural
      <4>3. k \in made
        <5> SUFFICES ASSUME k \notin made PROVE FALSE
          OBVIOUS
        <5>1. PICK y \in made : TRUE
          OBVIOUS
        <5>2. y \in Nat /\ y >= 1 /\ y <= k /\ k \in Nat
          BY <3>1, <1>1
        <5>3. \A z \in made : z \in Nat /\ z <= k /\ z # k
          BY <3>1
        <5> HIDE DEF made
        <5>4. k - 1 \in upper
          BY <5>2, <5>3
        <5> HIDE DEF upper
        <5>5. k <= k - 1
          BY <4>2, <5>4
        <5> QED
          BY <5>2, <5>5
      <4>4. \A y \in made : k >= y
        BY <3>1
      <4> QED
        BY <4>3, <4>4
    <3> HIDE DEF made
    <3> QED
      BY <3>2 DEF Max
  <2>3. MadeBefore(Q, x) = IF made = {} THEN 0 ELSE Q[Max(made)].value
    BY <2>1 DEF MadeBefore
  <2>4. MadeBefore(W, x) = IF made = {} THEN 0 ELSE W[Max(made)].value
    BY DEF MadeBefore
  <2> HIDE DEF made
  <2> QED
    BY <1>1, <1>3, <2>2, <2>3, <2>4 DEF Q
<1> QED
  BY <1>2, <1>3

(* After all of them the last has been made.                                 *)
LEMMA AllMade ==
    ASSUME NEW W \in Seq(Writes), InTimeOrder(W), W # <<>>, NEW x \in Nat,
           W[Len(W)].t < x
    PROVE  MadeBefore(W, x) = W[Len(W)].value
<1> DEFINE n == Len(W)
           made == {k \in DOMAIN W : W[k].t < x}
<1>1. n \in Nat /\ n \in 1..n /\ DOMAIN W = 1..n /\ \A k \in 1..n : W[k].t \in Nat
  <2>1. n \in Nat /\ n \in 1..n /\ DOMAIN W = 1..n /\ \A k \in 1..n : W[k] \in Writes
    OBVIOUS
  <2> QED
    BY <2>1 DEF Writes
<1>2. n \in made /\ made \in SUBSET Nat /\ \A y \in made : n >= y
  BY <1>1
<1>3. Max(made) = n
  <2> HIDE DEF made, n
  <2> QED
    BY <1>2, MaxIs
<1> QED
  BY <1>2, <1>3 DEF MadeBefore

-----------------------------------------------------------------------------
(* Lines of the picture.                                                     *)
RowEnd(frame, l) == frame * FrameTstates + (l + 1) * LineTstates

(* A time is on a line of its frame, and before the end of the row exactly   *)
(* then.                                                                     *)
LEMMA LineBounds ==
    ASSUME NEW t \in Nat, NEW l \in Nat
    PROVE  /\ t \div FrameTstates \in Nat /\ LineOf(t) \in Nat
           /\ RowEnd(t \div FrameTstates, l) \in Nat
           /\ (t \div FrameTstates) * FrameTstates <= t
           /\ (t \div FrameTstates) * FrameTstates \in Nat
           /\ (t \div FrameTstates) * FrameTstates <= RowEnd(t \div FrameTstates, l)
           /\ t < RowEnd(t \div FrameTstates, l) <=> LineOf(t) <= l
<1> DEFINE q == t \div FrameTstates
           r == t % FrameTstates
           k == LineOf(t)
<1>1. q \in Nat /\ r \in Nat /\ t = q * FrameTstates + r
  <2>1. \A d \in Nat \ {0} : t \div d \in Nat /\ t % d \in Nat /\ t = (t \div d) * d + (t % d)
    OBVIOUS
  <2> QED
    BY <2>1, CopperNumbers
<1>2. k \in Nat /\ k * LineTstates <= r /\ r < (k + 1) * LineTstates
  BY <1>1, Quotient, CopperNumbers DEF LineOf
<1> HIDE DEF q, r, k
<1>3. /\ q * FrameTstates \in Nat /\ k * LineTstates \in Nat
      /\ (l + 1) * LineTstates \in Nat /\ (k + 1) * LineTstates \in Nat
  <2>1. \A a, b \in Nat : a * b \in Nat
    OBVIOUS
  <2> QED
    BY <1>1, <1>2, <2>1, CopperNumbers
<1>4. \A a, b, d \in Nat : a <= b => a * d <= b * d
  <2> SUFFICES ASSUME NEW a \in Nat, NEW b \in Nat, NEW d \in Nat, a <= b
               PROVE  a * d <= b * d
    OBVIOUS
  <2>1. PICK e \in Nat : b = a + e
    <3>1. b - a \in Nat /\ b = a + (b - a)
      OBVIOUS
    <3> QED
      BY <3>1
  <2>2. b * d = a * d + e * d /\ e * d \in Nat /\ a * d \in Nat
    BY <2>1
  <2> QED
    BY <2>2
<1>5. k <= l => (k + 1) * LineTstates <= (l + 1) * LineTstates
  BY <1>2, <1>4, CopperNumbers
<1>6. ~(k <= l) => (l + 1) * LineTstates <= k * LineTstates
  <2>1. ~(k <= l) => l + 1 <= k
    BY <1>2
  <2> QED
    BY <1>2, <1>4, <2>1, CopperNumbers
<1>7. t < RowEnd(q, l) <=> r < (l + 1) * LineTstates
  BY <1>1, <1>3 DEF RowEnd
<1>8. t < RowEnd(q, l) <=> k <= l
  BY <1>1, <1>2, <1>3, <1>5, <1>6, <1>7
<1> QED
  BY <1>1, <1>2, <1>3, <1>8 DEF RowEnd, q, k

(* Later times of a frame are on later lines.                                *)
LEMMA LinesGrow ==
    ASSUME NEW t \in Nat, NEW u \in Nat, t <= u,
           t \div FrameTstates = u \div FrameTstates
    PROVE  LineOf(t) <= LineOf(u)
<1> DEFINE l == LineOf(u)
<1>1. l \in Nat
  BY LineBounds
<1>2. u < RowEnd(u \div FrameTstates, l)
  BY <1>1, LineBounds
<1>3. t < RowEnd(t \div FrameTstates, l)
  <2>1. RowEnd(u \div FrameTstates, l) \in Nat
    BY <1>1, LineBounds
  <2> HIDE DEF l
  <2> QED
    BY <1>2, <2>1
<1> QED
  BY <1>1, <1>3, LineBounds

(* The picture and the history of its changes tell the MOVEs that were made. *)
Until(E, k, l) == E[k].line <= l /\ (k < Len(E) => l < E[k + 1].line)

RowsOK(h, W) ==
    \A l \in Nat :
        /\ l < h.events[1].line => MadeBefore(W, RowEnd(h.frame, l)) = h.initial
        /\ \A k \in DOMAIN h.events :
              Until(h.events, k, l) => MadeBefore(W, RowEnd(h.frame, l)) = h.events[k].value

LinesOK(E) == \A j, k \in DOMAIN E : j < k => E[j].line < E[k].line

Drawn(v, h, W) ==
    /\ InTimeOrder(W)
    /\ W = <<>> => v = 0 /\ h = NoHistory
    /\ W # <<>> =>
          /\ v = W[Len(W)].value /\ h.frame = W[Len(W)].t \div FrameTstates
          /\ h.events # <<>> /\ LinesOK(h.events)
          /\ h.events[Len(h.events)] = [line |-> LineOf(W[Len(W)].t), value |-> v]
          /\ h.initial = MadeBefore(W, h.frame * FrameTstates)
          /\ RowsOK(h, W)

Events == [line : Nat, value : Nat]

(* One more MOVE keeps the order of their times.                             *)
LEMMA TimeOrderAppend ==
    ASSUME NEW W \in Seq(Writes), InTimeOrder(W), NEW w \in Writes,
           W # <<>> => W[Len(W)].t <= w.t
    PROVE  InTimeOrder(Append(W, w))
<1> DEFINE Q == Append(W, w)
           n == Len(W)
<1>1. /\ n \in Nat /\ DOMAIN W = 1..n /\ DOMAIN Q = 1..(n + 1)
      /\ \A k \in 1..n : Q[k] = W[k] /\ W[k] \in Writes
      /\ Q[n + 1] = w
  OBVIOUS
<1>2. \A k \in 1..n : W[k].t \in Nat
  BY <1>1 DEF Writes
<1>3. w.t \in Nat /\ (n > 0 => W[n].t <= w.t)
  BY <1>1 DEF Writes
<1> HIDE DEF Q, n
<1>4. ASSUME NEW j \in 1..(n + 1), NEW k \in 1..(n + 1), j <= k
      PROVE  Q[j].t <= Q[k].t
  <2>1. CASE k \in 1..n
    <3>1. j \in 1..n
      BY <1>1, <1>4, <2>1
    <3> QED
      BY <1>1, <1>4, <2>1, <3>1 DEF InTimeOrder
  <2>2. CASE k = n + 1 /\ j = n + 1
    BY <1>1, <1>3, <2>2
  <2>3. CASE k = n + 1 /\ j \in 1..n
    <3>1. n \in 1..n /\ n > 0 /\ j <= n
      BY <1>1, <2>3
    <3>2. W[j].t <= W[n].t
      BY <1>1, <2>3, <3>1 DEF InTimeOrder
    <3>3. W[j].t <= w.t
      BY <1>2, <1>3, <2>3, <3>1, <3>2
    <3> QED
      BY <1>1, <2>3, <3>3
  <2> QED
    BY <1>1, <2>1, <2>2, <2>3
<1> QED
  BY <1>1, <1>4 DEF InTimeOrder, Q

(* The history that a change goes to, and what the change makes of it.       *)
HistoryFor(h, before, t) ==
    IF h.frame = t \div FrameTstates THEN h
    ELSE [frame |-> t \div FrameTstates, initial |-> before, events |-> <<>>]

(* A change replaces the last event where it is on the same line.            *)
Extends(E, F, e) ==
    \/ /\ Len(E) > 0 /\ E[Len(E)].line = e.line
       /\ F = [E EXCEPT ![Len(E)] = e]
    \/ /\ Len(E) > 0 => E[Len(E)].line # e.line
       /\ F = Append(E, e)

(* What capture makes of a history, in one equation.                         *)
LEMMA CaptureIs ==
    ASSUME NEW h \in Histories, NEW before \in Nat, NEW t \in Nat, NEW v \in Nat
    PROVE  LET g == HistoryFor(h, before, t)
               e == [line |-> LineOf(t), value |-> v]
               r == Capture(h, before, t, v)
           IN  /\ g \in Histories /\ r \in Histories /\ e \in Events
               /\ r.frame = t \div FrameTstates /\ r.initial = g.initial
               /\ Extends(g.events, r.events, e)
<1> DEFINE g == HistoryFor(h, before, t)
           e == [line |-> LineOf(t), value |-> v]
           n == Len(g.events)
           r == Capture(h, before, t, v)
<1>1. t \div FrameTstates \in Nat /\ LineOf(t) \in Nat
  BY LineBounds
<1>2. g \in Histories /\ g.frame = t \div FrameTstates
  BY <1>1 DEF HistoryFor, Histories
<1>3. e \in Events
  BY <1>1 DEF Events
<1>4. r = IF g.events # <<>> /\ g.events[Len(g.events)].line = e.line
          THEN [g EXCEPT !.events[Len(g.events)] = e]
          ELSE [g EXCEPT !.events = Append(@, e)]
  BY Zenon DEF Capture, HistoryFor
<1> HIDE DEF g, e, r
<1>5. g.events \in Seq(Events) /\ n \in Nat /\ (g.events # <<>> <=> n > 0)
  BY <1>2 DEF Histories, Events
<1>6. CASE g.events # <<>> /\ g.events[n].line = e.line
  <2>1. r = [g EXCEPT !.events = [g.events EXCEPT ![n] = e]]
    BY <1>2, <1>4, <1>6 DEF Histories
  <2>2. [g.events EXCEPT ![n] = e] \in Seq(Events)
    BY <1>3, <1>5, <1>6
  <2>3. r \in Histories /\ r.events = [g.events EXCEPT ![n] = e]
        /\ r.frame = g.frame /\ r.initial = g.initial
    BY <1>2, <2>1, <2>2 DEF Histories, Events
  <2> QED
    BY <1>2, <1>3, <1>5, <1>6, <2>3 DEF g, e, r, Extends
<1>7. CASE ~(g.events # <<>> /\ g.events[n].line = e.line)
  <2>1. r = [g EXCEPT !.events = Append(g.events, e)]
    BY <1>2, <1>4, <1>7 DEF Histories
  <2>2. Append(g.events, e) \in Seq(Events)
    BY <1>3, <1>5
  <2>3. r \in Histories /\ r.events = Append(g.events, e)
        /\ r.frame = g.frame /\ r.initial = g.initial
    BY <1>2, <2>1, <2>2 DEF Histories, Events
  <2> QED
    BY <1>2, <1>3, <1>5, <1>7, <2>3 DEF g, e, r, Extends
<1> QED
  BY <1>6, <1>7

(* Before the change, in its frame: the history it goes to.                  *)
HistoryHolds(g, q, W, t) ==
    /\ g.initial = MadeBefore(W, q * FrameTstates)
    /\ LinesOK(g.events)
    /\ \A k \in DOMAIN g.events : g.events[k].line <= LineOf(t)
    /\ \A l \in Nat : l < LineOf(t) =>
          /\ g.events = <<>> \/ l < g.events[1].line =>
                MadeBefore(W, RowEnd(q, l)) = g.initial
          /\ \A k \in DOMAIN g.events :
                Until(g.events, k, l) => MadeBefore(W, RowEnd(q, l)) = g.events[k].value

LEMMA HistoryForOK ==
    ASSUME NEW v \in Nat, NEW h \in Histories, NEW W \in Seq(Writes), Drawn(v, h, W),
           NEW t \in Nat, W # <<>> => W[Len(W)].t <= t
    PROVE  HistoryHolds(HistoryFor(h, v, t), t \div FrameTstates, W, t)
<1> DEFINE g == HistoryFor(h, v, t)
           q == t \div FrameTstates
           n == Len(W)
<1>1. q \in Nat /\ q * FrameTstates \in Nat /\ q * FrameTstates <= t
  BY LineBounds
<1>2. CASE h.frame = q
  <2>1. g = h /\ W # <<>>
    <3>1. h.frame # -1
      BY <1>1, <1>2
    <3> QED
      BY <1>2, <3>1 DEF HistoryFor, Drawn, NoHistory, NoFrame
  <2>2. /\ h.frame = W[n].t \div FrameTstates
        /\ h.events # <<>> /\ LinesOK(h.events)
        /\ h.events[Len(h.events)].line = LineOf(W[n].t)
        /\ h.initial = MadeBefore(W, h.frame * FrameTstates)
        /\ RowsOK(h, W)
    BY <2>1 DEF Drawn
  <2>3. W[n] \in Writes
    BY <2>1
  <2>4. LineOf(W[n].t) <= LineOf(t) /\ LineOf(t) \in Nat /\ LineOf(W[n].t) \in Nat
    BY <1>2, <2>1, <2>2, <2>3, LinesGrow, LineBounds DEF Writes
  <2>5. ASSUME NEW k \in DOMAIN h.events
        PROVE  h.events[k].line <= LineOf(t)
    <3>1. h.events \in Seq(Events)
      BY DEF Histories, Events
    <3>2. /\ k \in 1..Len(h.events) /\ Len(h.events) \in DOMAIN h.events
          /\ h.events[k] \in Events
      BY <2>2, <3>1
    <3>3. h.events[k].line \in Nat
      BY <3>2 DEF Events
    <3>4. k = Len(h.events) \/ k < Len(h.events)
      BY <3>1, <3>2
    <3>5. k < Len(h.events) => h.events[k].line < h.events[Len(h.events)].line
      BY <2>2, <3>2 DEF LinesOK
    <3> QED
      BY <2>2, <2>4, <3>3, <3>4, <3>5
  <2>6. \A l \in Nat : 
           /\ l < h.events[1].line => MadeBefore(W, RowEnd(q, l)) = h.initial
           /\ \A k \in DOMAIN h.events :
                 Until(h.events, k, l) => MadeBefore(W, RowEnd(q, l)) = h.events[k].value
    BY <1>2, <2>2, Zenon DEF RowsOK
  <2>7. h.initial = MadeBefore(W, q * FrameTstates)
    BY <1>2, <2>2
  <2> HIDE DEF g, q
  <2> SUFFICES HistoryHolds(g, q, W, t)
    BY DEF g, q
  <2> QED
    BY <2>1, <2>2, <2>5, <2>6, <2>7 DEF HistoryHolds
<1>3. CASE h.frame # q
  <2>1. g.initial = v /\ g.events = <<>>
    BY <1>3 DEF HistoryFor
  <2>2. ASSUME NEW x \in Nat, q * FrameTstates <= x
        PROVE  MadeBefore(W, x) = v
    <3>1. CASE W = <<>>
      BY <3>1 DEF MadeBefore, Drawn
    <3>2. CASE W # <<>>
      <4>1. W[n] \in Writes /\ W[n].t <= t
        BY <3>2
      <4> DEFINE u == W[n].t
      <4>2. u \in Nat /\ u <= t
        BY <4>1 DEF Writes
      <4>3. u \div FrameTstates # q /\ v = W[n].value /\ InTimeOrder(W)
        BY <1>3, <3>2 DEF Drawn
      <4> HIDE DEF u
      <4>4. u < q * FrameTstates
        <5> SUFFICES ASSUME q * FrameTstates <= u PROVE FALSE
          BY <1>1, <4>2
        <5>1. t < (q + 1) * FrameTstates
          BY Quotient, CopperNumbers
        <5>2. (q + 1) * FrameTstates \in Nat
          BY <1>1, CopperNumbers
        <5>3. u < (q + 1) * FrameTstates
          BY <4>2, <5>1, <5>2
        <5>4. u \div FrameTstates = q
          BY <1>1, <4>2, <5>3, QuotientIs, CopperNumbers
        <5> QED
          BY <4>3, <5>4
      <4>5. W[n].t < x
        BY <1>1, <2>2, <4>2, <4>4 DEF u
      <4> QED
        BY <3>2, <4>3, <4>5, AllMade
    <3> QED
      BY <3>1, <3>2
  <2>3. \A l \in Nat : RowEnd(q, l) \in Nat /\ q * FrameTstates <= RowEnd(q, l)
    BY LineBounds
  <2>4. LinesOK(<<>>)
    BY DEF LinesOK
  <2>5. MadeBefore(W, q * FrameTstates) = v
    <3>1. q * FrameTstates <= q * FrameTstates
      BY <1>1
    <3> HIDE DEF q
    <3> QED
      BY <1>1, <2>2, <3>1
  <2>7. \A l \in Nat : MadeBefore(W, RowEnd(q, l)) = v
    <3> HIDE DEF q
    <3> QED
      BY <2>2, <2>3
  <2>6. DOMAIN <<>> = {}
    OBVIOUS
  <2> HIDE DEF g, q
  <2> SUFFICES HistoryHolds(g, q, W, t)
    BY DEF g, q
  <2> QED
    BY <2>1, <2>4, <2>5, <2>6, <2>7 DEF HistoryHolds
<1> QED
  BY <1>2, <1>3

(* A change is the last event of its history, on a line of its own; those     *)
(* before it are on earlier lines.                                           *)
LastEvent(E, F, e) ==
    LET n == Len(E)
        m == Len(F)
    IN  /\ m > 0 /\ F[m] = e
        /\ m = n \/ m = n + 1
        /\ m = n => E[n].line = e.line
        /\ \A k \in 1..(m - 1) : F[k] = E[k] /\ E[k].line < e.line

(* The events of the changed history.                                        *)
LEMMA LastEventOK ==
    ASSUME NEW E \in Seq(Events), NEW e \in Events, LinesOK(E),
           \A k \in DOMAIN E : E[k].line <= e.line,
           NEW F, Extends(E, F, e)
    PROVE  F \in Seq(Events) /\ LastEvent(E, F, e)
<1> DEFINE n == Len(E)
<1>1. n \in Nat /\ DOMAIN E = 1..n /\ \A k \in 1..n : E[k] \in Events
  OBVIOUS
<1>2. e.line \in Nat /\ \A k \in 1..n : E[k].line \in Nat
  BY <1>1 DEF Events
<1>5. LET Q == Append(E, e)
      IN  /\ Q \in Seq(Events) /\ Len(Q) = n + 1 /\ Q[n + 1] = e
          /\ \A k \in 1..n : Q[k] = E[k]
  OBVIOUS
<1>6. LET Q == [E EXCEPT ![n] = e]
      IN  n > 0 => /\ Q \in Seq(Events) /\ Len(Q) = n /\ Q[n] = e
                   /\ \A k \in 1..(n - 1) : Q[k] = E[k]
  OBVIOUS
<1>7. \/ n > 0 /\ E[n].line = e.line /\ F = [E EXCEPT ![n] = e]
      \/ (n > 0 => E[n].line # e.line) /\ F = Append(E, e)
  BY DEF Extends
<1> HIDE DEF n
<1>3. CASE n > 0 /\ E[n].line = e.line /\ F = [E EXCEPT ![n] = e]
  <2>1. /\ F \in Seq(Events) /\ Len(F) = n /\ F[n] = e
        /\ \A k \in 1..(n - 1) : F[k] = E[k]
    BY <1>3, <1>6
  <2>2. ASSUME NEW k \in 1..(n - 1)
        PROVE  E[k].line < e.line
    <3>1. k \in 1..n /\ n \in 1..n /\ k < n
      BY <1>1, <1>3
    <3> QED
      BY <1>1, <1>3, <3>1 DEF LinesOK
  <2> QED
    BY <1>3, <2>1, <2>2 DEF LastEvent, n
<1>4. CASE (n > 0 => E[n].line # e.line) /\ F = Append(E, e)
  <2>1. /\ F \in Seq(Events) /\ Len(F) = n + 1 /\ F[n + 1] = e
        /\ \A k \in 1..n : F[k] = E[k]
    BY <1>4, <1>5
  <2>2. ASSUME NEW k \in 1..n
        PROVE  E[k].line < e.line
    <3>1. n \in 1..n /\ n > 0
      BY <1>1
    <3>2. E[n].line < e.line
      BY <1>1, <1>2, <1>4, <3>1
    <3>3. k = n \/ E[k].line < E[n].line
      BY <1>1, <3>1 DEF LinesOK
    <3> QED
      BY <1>2, <3>1, <3>2, <3>3
  <2>3. (n + 1) - 1 = n /\ n + 1 > 0 /\ n + 1 # n
    BY <1>1
  <2> QED
    BY <2>1, <2>2, <2>3 DEF LastEvent, n
<1> QED
  BY <1>3, <1>4, <1>7

(* Its lines stay in order.                                                  *)
LEMMA LastLines ==
    ASSUME NEW E \in Seq(Events), NEW e \in Events, LinesOK(E),
           NEW F \in Seq(Events), LastEvent(E, F, e)
    PROVE  LinesOK(F)
<1> DEFINE n == Len(E)
           m == Len(F)
<1>1. /\ m \in Nat /\ m > 0 /\ DOMAIN F = 1..m /\ F[m] = e
      /\ n \in Nat /\ DOMAIN E = 1..n /\ m <= n + 1
      /\ \A k \in 1..(m - 1) : F[k] = E[k] /\ E[k].line < e.line
  BY DEF LastEvent
<1> HIDE DEF n, m
<1> SUFFICES ASSUME NEW j \in 1..m, NEW k \in 1..m, j < k
             PROVE  F[j].line < F[k].line
  BY <1>1 DEF LinesOK
<1>2. j \in 1..(m - 1) /\ j \in 1..n
  BY <1>1
<1>3. CASE k = m
  BY <1>1, <1>2, <1>3
<1>4. CASE k # m
  <2>1. k \in 1..(m - 1) /\ k \in 1..n
    BY <1>1, <1>4
  <2> QED
    BY <1>1, <1>2, <2>1 DEF LinesOK
<1> QED
  BY <1>3, <1>4

(* What a row shows before and after the change.                             *)
SameRows(E, F, e, l) ==
    /\ l < F[1].line => l < e.line /\ (E = <<>> \/ l < E[1].line)
    /\ \A k \in DOMAIN F : Until(F, k, l) =>
          \/ k = Len(F) /\ e.line <= l
          \/ /\ k \in DOMAIN E /\ l < e.line
             /\ Until(E, k, l) /\ F[k] = E[k]

(* Rows above the last event keep what they show.                            *)
LEMMA LastRows ==
    ASSUME NEW E \in Seq(Events), NEW e \in Events,
           NEW F \in Seq(Events), LastEvent(E, F, e), NEW l \in Nat
    PROVE  SameRows(E, F, e, l)
<1> DEFINE n == Len(E)
           m == Len(F)
<1>1. /\ m \in Nat /\ m > 0 /\ DOMAIN F = 1..m /\ F[m] = e
      /\ n \in Nat /\ DOMAIN E = 1..n /\ (m = n \/ m = n + 1)
      /\ m = n => E[n].line = e.line
      /\ \A k \in 1..(m - 1) : F[k] = E[k] /\ E[k].line < e.line
  BY DEF LastEvent
<1>2. e.line \in Nat /\ \A k \in 1..n : E[k].line \in Nat
  <2>1. \A k \in 1..n : E[k] \in Events
    OBVIOUS
  <2> QED
    BY <2>1 DEF Events
<1>5. n = 0 => E = <<>>
  OBVIOUS
<1> HIDE DEF n, m
<1>3. ASSUME l < F[1].line
      PROVE  l < e.line /\ (E = <<>> \/ l < E[1].line)
  <2>1. CASE m = 1
    <3>2. n = 1 => E[1].line = e.line
      BY <1>1, <2>1
    <3> QED
      BY <1>1, <1>3, <1>5, <2>1, <3>2
  <2>2. CASE m # 1
    <3>1. 1 \in 1..(m - 1) /\ 1 \in 1..n
      BY <1>1, <2>2
    <3> QED
      BY <1>1, <1>2, <1>3, <3>1
  <2> QED
    BY <2>1, <2>2
<1>4. ASSUME NEW k \in 1..m, Until(F, k, l)
      PROVE  \/ k = m /\ e.line <= l
             \/ /\ k \in 1..n /\ l < e.line
                /\ Until(E, k, l) /\ F[k] = E[k]
  <2>1. F[k].line <= l /\ (k < m => l < F[k + 1].line)
    BY <1>4 DEF Until, m
  <2>2. CASE k = m
    BY <1>1, <2>1, <2>2
  <2>3. CASE k # m
    <3>1. k \in 1..(m - 1) /\ k \in 1..n /\ k < m /\ k + 1 \in 1..m
      BY <1>1, <2>3
    <3>2. F[k] = E[k] /\ E[k].line <= l /\ l < F[k + 1].line
      BY <1>1, <2>1, <3>1
    <3>3. CASE k + 1 = m
      <4>1. k < n => n = m
        BY <1>1, <3>3
      <4>2. k < n => E[k + 1].line = e.line
        BY <1>1, <3>3, <4>1
      <4> QED
        BY <1>1, <3>1, <3>2, <3>3, <4>2 DEF Until
    <3>4. CASE k + 1 # m
      <4>1. k + 1 \in 1..(m - 1) /\ k + 1 \in 1..n
        BY <1>1, <3>1, <3>4
      <4>2. F[k + 1] = E[k + 1] /\ E[k + 1].line < e.line
        BY <1>1, <4>1
      <4> QED
        BY <1>1, <1>2, <3>1, <3>2, <4>1, <4>2 DEF Until
    <3> QED
      BY <3>3, <3>4
  <2> QED
    BY <2>2, <2>3
<1> QED
  BY <1>1, <1>3, <1>4 DEF m, n, SameRows

(* The last element of a sequence and those before it.                       *)
LEMMA AppendLast ==
    ASSUME NEW S, NEW W \in Seq(S), NEW w \in S
    PROVE  Append(W, w) \in Seq(S) /\ Append(W, w) # <<>> /\ Append(W, w)[Len(Append(W, w))] = w
  OBVIOUS

(* A change that is captured keeps the picture and the MOVEs together.       *)
LEMMA CaptureOK ==
    ASSUME NEW v \in Nat, NEW h \in Histories, NEW W \in Seq(Writes), Drawn(v, h, W),
           NEW t \in Nat, W # <<>> => W[Len(W)].t <= t, NEW x \in Nat
    PROVE  /\ Capture(h, v, t, x) \in Histories
           /\ Drawn(x, Capture(h, v, t, x), Append(W, [t |-> t, value |-> x]))
<1> DEFINE w == [t |-> t, value |-> x]
           Q == Append(W, w)
           e == [line |-> LineOf(t), value |-> x]
           g == HistoryFor(h, v, t)
           r == Capture(h, v, t, x)
           q == t \div FrameTstates
<1>1. w \in Writes /\ w.t = t /\ w.value = x
  BY DEF Writes
<1>2. Q \in Seq(Writes) /\ Q # <<>> /\ Q[Len(Q)] = w
  <2> HIDE DEF w
  <2> QED
    BY <1>1, AppendLast
<1>3. /\ g \in Histories /\ r \in Histories /\ e \in Events
      /\ r.frame = q /\ r.initial = g.initial
      /\ Extends(g.events, r.events, e)
  BY CaptureIs, Zenon
<1>4. /\ g.initial = MadeBefore(W, q * FrameTstates)
      /\ LinesOK(g.events)
      /\ \A k \in DOMAIN g.events : g.events[k].line <= LineOf(t)
      /\ \A l \in Nat : l < LineOf(t) =>
            /\ g.events = <<>> \/ l < g.events[1].line =>
                   MadeBefore(W, RowEnd(q, l)) = g.initial
            /\ \A k \in DOMAIN g.events :
                  Until(g.events, k, l) => MadeBefore(W, RowEnd(q, l)) = g.events[k].value
  <2>1. HistoryHolds(g, q, W, t)
    BY HistoryForOK
  <2> QED
    BY <2>1, Zenon DEF HistoryHolds
<1>5. e.line = LineOf(t) /\ e.value = x /\ LineOf(t) \in Nat
  BY LineBounds
<1>6. g.events \in Seq(Events) /\ r.events \in Seq(Events)
  BY <1>3 DEF Histories, Events
<1>7. InTimeOrder(Q)
  BY <1>1, TimeOrderAppend DEF Drawn
<1>8. /\ q \in Nat /\ q * FrameTstates \in Nat /\ q * FrameTstates <= t
      /\ \A l \in Nat : RowEnd(q, l) \in Nat /\ (t < RowEnd(q, l) <=> LineOf(t) <= l)
  BY LineBounds
<1>9. MadeBefore(Q, q * FrameTstates) = MadeBefore(W, q * FrameTstates)
  <2> HIDE DEF w, q
  <2>1. MadeBefore(Q, q * FrameTstates) =
          IF w.t < q * FrameTstates THEN w.value ELSE MadeBefore(W, q * FrameTstates)
    BY <1>1, <1>8, MadeAppend
  <2> HIDE DEF Q
  <2> QED
    BY <1>1, <1>8, <2>1
<1>10. ASSUME NEW l \in Nat
       PROVE  MadeBefore(Q, RowEnd(q, l)) =
                IF LineOf(t) <= l THEN x ELSE MadeBefore(W, RowEnd(q, l))
  <2> HIDE DEF w, q
  <2>1. MadeBefore(Q, RowEnd(q, l)) =
          IF w.t < RowEnd(q, l) THEN w.value ELSE MadeBefore(W, RowEnd(q, l))
    BY <1>1, <1>8, MadeAppend
  <2> HIDE DEF Q
  <2> QED
    BY <1>1, <1>8, <2>1
<1> HIDE DEF w, Q, e, g, r, q
<1>11. \A k \in DOMAIN g.events : g.events[k].line <= e.line
  BY <1>4, <1>5
<1>12. LastEvent(g.events, r.events, e)
  BY <1>3, <1>4, <1>6, <1>11, LastEventOK
<1>13. LinesOK(r.events)
  BY <1>3, <1>4, <1>6, <1>12, LastLines
<1>14. r.events # <<>> /\ r.events[Len(r.events)] = e
  BY <1>6, <1>12 DEF LastEvent
<1>15. RowsOK(r, Q)
  <2> SUFFICES ASSUME NEW l \in Nat
               PROVE  /\ l < r.events[1].line => MadeBefore(Q, RowEnd(q, l)) = r.initial
                      /\ \A k \in DOMAIN r.events :
                            Until(r.events, k, l) =>
                              MadeBefore(Q, RowEnd(q, l)) = r.events[k].value
    BY <1>3, Zenon DEF RowsOK
  <2>1. /\ l < r.events[1].line =>
              l < e.line /\ (g.events = <<>> \/ l < g.events[1].line)
        /\ \A k \in DOMAIN r.events : Until(r.events, k, l) =>
              \/ k = Len(r.events) /\ e.line <= l
              \/ /\ k \in DOMAIN g.events /\ l < e.line
                 /\ Until(g.events, k, l) /\ r.events[k] = g.events[k]
    <3>1. e \in Events
      BY <1>3
    <3>2. SameRows(g.events, r.events, e, l)
      BY <1>6, <1>12, <3>1, LastRows
    <3> QED
      BY <3>2, Zenon DEF SameRows
  <2>2. l < e.line => MadeBefore(Q, RowEnd(q, l)) = MadeBefore(W, RowEnd(q, l))
    BY <1>5, <1>10
  <2>3. e.line <= l => MadeBefore(Q, RowEnd(q, l)) = x
    BY <1>5, <1>10
  <2>4. ASSUME l < r.events[1].line
        PROVE  MadeBefore(Q, RowEnd(q, l)) = r.initial
    <3>1. l < LineOf(t) /\ (g.events = <<>> \/ l < g.events[1].line)
      BY <1>5, <2>1, <2>4
    <3>2. MadeBefore(W, RowEnd(q, l)) = g.initial
      BY <1>4, <3>1
    <3> QED
      BY <1>3, <1>5, <2>2, <3>1, <3>2
  <2>5. ASSUME NEW k \in DOMAIN r.events, Until(r.events, k, l)
        PROVE  MadeBefore(Q, RowEnd(q, l)) = r.events[k].value
    <3>1. CASE k = Len(r.events) /\ e.line <= l
      BY <1>5, <1>14, <2>3, <3>1
    <3>2. CASE /\ k \in DOMAIN g.events /\ l < e.line
               /\ Until(g.events, k, l) /\ r.events[k] = g.events[k]
      <4>1. MadeBefore(W, RowEnd(q, l)) = g.events[k].value
        BY <1>4, <1>5, <3>2
      <4> QED
        BY <2>2, <3>2, <4>1
    <3> QED
      BY <2>1, <2>5, <3>1, <3>2
  <2> QED
    BY <2>4, <2>5
<1>16. Drawn(x, r, Q)
  <2>1. x = Q[Len(Q)].value /\ r.frame = Q[Len(Q)].t \div FrameTstates
    BY <1>1, <1>2, <1>3 DEF q
  <2>2. r.events[Len(r.events)] = [line |-> LineOf(Q[Len(Q)].t), value |-> x]
    BY <1>1, <1>2, <1>14 DEF e
  <2>3. r.initial = MadeBefore(Q, r.frame * FrameTstates)
    BY <1>3, <1>4, <1>9
  <2> QED
    BY <1>2, <1>7, <1>13, <1>14, <1>15, <2>1, <2>2, <2>3, Zenon DEF Drawn
<1> QED
  BY <1>3, <1>16 DEF r, Q, w

-----------------------------------------------------------------------------
(* The MOVEs of a batch, in the picture and in the order of their times.     *)

(* What the machine has made of the first MOVEs of a batch.                  *)
MovesOf(trail, s) ==
    /\ \A k \in 1..Len(trail) :
          /\ trail[k] \in Entries /\ trail[k].mode = s.copper.mode
          /\ trail[k].t = CeilDiv(trail[k].clocks, ClocksPerTstate)
          /\ k < Len(trail) => ~ChangesMode(trail[k]) /\ trail[k].t <= trail[k + 1].t
    /\ HasChanged(trail) =>
          s.copper.program_counter = (trail[Len(trail)].pc + 1) % InstructionCount
    /\ s.writes # <<>> /\ trail # <<>> => s.writes[Len(s.writes)].t <= trail[1].t

LastWrite(W, t) == W # <<>> => W[Len(W)].t <= t

Made(s, trail, n, g) ==
    /\ g \in Scenes /\ CopperTyped(g.copper) /\ Drawn(g.video, g.history, g.writes)
    /\ n = 0 \/ ~ChangesMode(trail[n]) => SameRun(s.copper, g.copper)
    /\ n > 0 /\ ChangesMode(trail[n]) =>
          /\ Ready(trail[n], g.copper)
          /\ g.copper.mode # "stop" => g.copper.clocks = trail[n].t * ClocksPerTstate
    /\ n = 0 => g = s
    /\ n > 0 => LastWrite(g.writes, trail[n].t)

(* One MOVE keeps what the batch has made.                                   *)
LEMMA MoveOK ==
    ASSUME NEW s \in Scenes, NEW trail \in Seq(Entries), MovesOf(trail, s),
           NEW n \in 0..(Len(trail) - 1), NEW g, Made(s, trail, n, g)
    PROVE  Made(s, trail, n + 1, Move(g, trail[n + 1]))
<1> DEFINE e == trail[n + 1]
           m == Move(g, e)
           v == e.instruction.value
<1>1. /\ Len(trail) \in Nat /\ n \in Nat /\ n + 1 \in 1..Len(trail) /\ n + 1 > 0 /\ n + 1 # 0
      /\ n # 0 => n \in 1..Len(trail) /\ n < Len(trail) /\ n > 0
  OBVIOUS
<1>2. /\ e \in Entries /\ e.mode = s.copper.mode
      /\ e.t = CeilDiv(e.clocks, ClocksPerTstate)
  BY <1>1 DEF MovesOf
<1>3. n # 0 => ~ChangesMode(trail[n]) /\ trail[n].t <= e.t
  BY <1>1 DEF MovesOf
<1>4. /\ g \in Scenes /\ CopperTyped(g.copper) /\ Drawn(g.video, g.history, g.writes)
      /\ SameRun(s.copper, g.copper)
      /\ n = 0 => g = s
      /\ n # 0 => LastWrite(g.writes, trail[n].t)
  BY <1>1, <1>3 DEF Made
<1>5. e.t \in Nat /\ e.instruction \in Instructions
  BY <1>2 DEF Entries
<1>6. LastWrite(g.writes, e.t)
  <2>1. CASE n = 0
    <3>1. trail # <<>>
      BY <1>1
    <3> QED
      BY <1>4, <2>1, <3>1 DEF MovesOf, LastWrite
  <2>2. CASE n # 0
    <3> SUFFICES ASSUME g.writes # <<>> PROVE g.writes[Len(g.writes)].t <= e.t
      BY DEF LastWrite
    <3>1. g.writes[Len(g.writes)] \in Writes
      BY <1>4 DEF Scenes
    <3>2. g.writes[Len(g.writes)].t \in Nat
      BY <3>1 DEF Writes
    <3>3. trail[n] \in Entries
      BY <1>1, <2>2 DEF MovesOf
    <3>4. trail[n].t \in Nat
      BY <3>3 DEF Entries
    <3> QED
      BY <1>3, <1>4, <1>5, <2>2, <3>2, <3>4 DEF LastWrite
  <2> QED
    BY <2>1, <2>2
<1>7. g.copper.mode = e.mode
  BY <1>2, <1>4 DEF SameRun
<1>8. /\ CopperTyped(m.copper)
      /\ ~ChangesMode(e) => SameRun(g.copper, m.copper)
      /\ ChangesMode(e) /\ g.copper.program_counter = (e.pc + 1) % InstructionCount =>
            Ready(e, m.copper)
      /\ ChangesMode(e) /\ m.copper.mode # "stop" =>
            m.copper.clocks = e.t * ClocksPerTstate
  BY <1>2, <1>4, <1>7, MoveCopper
<1>9. ~ChangesMode(e) => SameRun(s.copper, m.copper)
  BY <1>4, <1>8 DEF SameRun
<1>10. ASSUME ChangesMode(e)
       PROVE  Ready(e, m.copper)
  <2>1. n + 1 = Len(trail)
    BY <1>1, <1>10 DEF MovesOf
  <2>2. HasChanged(trail)
    BY <1>10, <2>1 DEF HasChanged
  <2>3. s.copper.program_counter = (e.pc + 1) % InstructionCount
    BY <2>1, <2>2 DEF MovesOf
  <2> QED
    BY <1>4, <1>8, <1>10, <2>3 DEF SameRun
<1>11. m \in Scenes /\ Drawn(m.video, m.history, m.writes) /\ LastWrite(m.writes, e.t)
  <2>0. /\ g.copper \in Coppers /\ g.video \in Nat /\ g.history \in Histories
        /\ g.writes \in Seq(Writes)
    BY <1>4 DEF Scenes
  <2>1. CASE IsVideo(e)
    <3>1. m = [g EXCEPT !.video = v, !.history = Capture(@, g.video, e.t, v),
                        !.writes = Append(@, [t |-> e.t, value |-> v])]
      BY <1>2, <1>4, <2>1, MoveCases
    <3>2. v \in Nat
      BY <1>5, <2>1, InstructionForms DEF IsVideo
    <3>3. /\ m.video = v /\ m.history = Capture(g.history, g.video, e.t, v)
          /\ m.writes = Append(g.writes, [t |-> e.t, value |-> v])
          /\ m = [copper |-> g.copper, video |-> m.video, history |-> m.history,
                  writes |-> m.writes]
      <4> HIDE DEF m, v, e
      <4> QED
        BY <1>4, <3>1 DEF Scenes
    <3> HIDE DEF m, v, e
    <3>4. g.writes # <<>> => g.writes[Len(g.writes)].t <= e.t
      BY <1>6 DEF LastWrite
    <3>5. m.history \in Histories /\ Drawn(m.video, m.history, m.writes)
      BY <1>4, <1>5, <2>0, <3>2, <3>3, <3>4, CaptureOK, SMTT(30)
    <3>6. [t |-> e.t, value |-> v] \in Writes
      BY <1>5, <3>2 DEF Writes
    <3>7. /\ m.writes \in Seq(Writes) /\ m.writes # <<>>
          /\ m.writes[Len(m.writes)] = [t |-> e.t, value |-> v]
      <4> DEFINE w == [t |-> e.t, value |-> v]
      <4>1. w \in Writes /\ m.writes = Append(g.writes, w)
        BY <3>3, <3>6
      <4> HIDE DEF w
      <4>2. /\ m.writes \in Seq(Writes) /\ m.writes # <<>>
            /\ m.writes[Len(m.writes)] = w
        BY <2>0, <4>1, AppendLast
      <4> QED
        BY <4>2 DEF w
    <3>8. LastWrite(m.writes, e.t)
      BY <1>5, <3>7 DEF LastWrite
    <3> QED
      <4>1. m.video \in Nat
        BY <3>2, <3>3
      <4>2. m \in Scenes
        <5>1. \A a \in Nat, b \in Histories, c \in Seq(Writes) :
                [copper |-> g.copper, video |-> a, history |-> b, writes |-> c] \in Scenes
          BY <2>0 DEF Scenes
        <5>2. [copper |-> g.copper, video |-> m.video, history |-> m.history,
               writes |-> m.writes] \in Scenes
          BY <3>5, <3>7, <4>1, <5>1
        <5> QED
          BY <3>3, <5>2
      <4> QED
        BY <3>5, <3>8, <4>2
  <2>2. CASE ~IsVideo(e)
    <3>1. PICK d : m = [g EXCEPT !.copper = d] /\ CopperTyped(d)
      BY <1>2, <1>4, <2>2, MoveCases
    <3> HIDE DEF m, e
    <3>2. /\ m.video = g.video /\ m.history = g.history /\ m.writes = g.writes
          /\ m \in Scenes
      BY <1>4, <3>1 DEF Scenes, CopperTyped
    <3> QED
      BY <1>4, <1>6, <3>2
  <2> QED
    BY <2>1, <2>2
<1> HIDE DEF m, e
<1> SUFFICES Made(s, trail, n + 1, m) /\ e = trail[n + 1]
  BY DEF m, e
<1>12. e = trail[n + 1]
  BY DEF e
<1> QED
  BY <1>1, <1>8, <1>9, <1>10, <1>11, <1>12 DEF Made

(* So do all of them.                                                        *)
LEMMA MovesOK ==
    ASSUME NEW s \in Scenes, CopperTyped(s.copper), Drawn(s.video, s.history, s.writes),
           NEW trail \in Seq(Entries), MovesOf(trail, s)
    PROVE  Made(s, trail, Len(trail), Moves(s, trail))
<1>1. Len(trail) \in Nat
  OBVIOUS
<1>2. PICK f : /\ f[0] = s
               /\ \A n \in 1..Len(trail) : f[n] = Move(f[n - 1], trail[n])
               /\ Moves(s, trail) = f[Len(trail)]
  BY <1>1, MovesMade
<1> DEFINE bad == {n \in 0..Len(trail) : ~Made(s, trail, n, f[n])}
<1>3. SUFFICES bad = {}
  BY <1>1, <1>2
<1>4. SUFFICES ASSUME bad # {} PROVE FALSE
  OBVIOUS
<1>5. PICK n \in bad : \A k \in bad : n <= k
  <2>1. bad \in SUBSET Nat
    BY <1>1
  <2> HIDE DEF bad
  <2> QED
    BY <1>4, <2>1, LeastNatural
<1>6. n # 0
  <2>1. Made(s, trail, 0, s)
    BY DEF Made, SameRun
  <2> QED
    BY <1>2, <2>1
<1>7. /\ n \in 1..Len(trail) /\ n - 1 \in 0..(Len(trail) - 1) /\ n - 1 \in 0..Len(trail)
      /\ (n - 1) + 1 = n /\ ~(n <= n - 1)
  BY <1>1, <1>6
<1>8. Made(s, trail, n - 1, f[n - 1])
  BY <1>5, <1>7
<1>9. Made(s, trail, (n - 1) + 1, Move(f[n - 1], trail[(n - 1) + 1]))
  BY <1>7, <1>8, MoveOK
<1>10. f[n] = Move(f[n - 1], trail[n])
  BY <1>2, <1>7
<1>11. Made(s, trail, n, f[n])
  BY <1>7, <1>9, <1>10
<1> QED
  BY <1>11

-----------------------------------------------------------------------------
(* A step of the machine.                                                    *)

(* How far the Copper may go in a step: its frame is the one the step begins  *)
(* in, and the beam has come to it when the step ends.                        *)
InFrame(t, end, T, q) ==
    /\ T \in Nat /\ t <= T /\ T <= end
    /\ q \in Nat /\ (q + 1) * FrameTstates \in Nat /\ t < (q + 1) * FrameTstates
    /\ T < (q + 1) * FrameTstates
    /\ (end - 1) \div FrameTstates \in Nat /\ q <= (end - 1) \div FrameTstates

(* CopperTime is such a time.                                                *)
LEMMA TimeOK ==
    ASSUME NEW t \in Nat, NEW len \in Nat \ {0}
    PROVE  InFrame(t, t + len, CopperTime(t, t + len), t \div FrameTstates)
<1> DEFINE T == CopperTime(t, t + len)
           q == t \div FrameTstates
           x == (q + 1) * FrameTstates
<1>1. q \in Nat /\ t < x
  BY CopperNumbers, Quotient
<1>2. x \in Nat
  <2> HIDE DEF q
  <2> QED
    BY <1>1, CopperNumbers
<1>3. T = IF t + len < x - 1 THEN t + len ELSE x - 1
  BY Zenon DEF CopperTime
<1>4. t + len - 1 \in Nat /\ t <= t + len - 1
  OBVIOUS
<1>5. /\ (t + len - 1) \div FrameTstates \in Nat
      /\ q <= (t + len - 1) \div FrameTstates
  BY <1>4, CopperNumbers, Quotient, QuotientGrows
<1> HIDE DEF T, q, x
<1>6. T \in Nat /\ t <= T /\ T <= t + len /\ T < x
  BY <1>1, <1>2, <1>3
<1> QED
  BY <1>1, <1>2, <1>5, <1>6 DEF T, q, x, InFrame

(* The MOVEs of a batch leave a Copper that is ready for what comes after    *)
(* them.                                                                     *)
LEMMA BatchMoves ==
    ASSUME NEW c, CopperTyped(c), NEW T \in Nat, NEW target, target = T * ClocksPerTstate,
           NEW before, NEW b, Continues(b, before, c, target),
           NEW s, s.copper = b.copper, s.writes \in Seq(Writes),
           c.mode # "stop" => LastWrite(s.writes, CeilDiv(c.clocks, ClocksPerTstate))
    PROVE  /\ MovesOf(b.trail, s)
           /\ \A k \in 1..Len(b.trail) :
                 b.trail[k].t <= T /\ b.trail[k].t <= CeilDiv(b.copper.clocks, ClocksPerTstate)
<1> DEFINE trail == b.trail
           K == ClocksPerTstate
           final == s.writes[Len(s.writes)]
<1>1. /\ trail \in Seq(Entries) /\ c.clocks \in Nat /\ target \in Nat
      /\ b.copper.clocks \in Nat /\ b.copper.mode = c.mode
      /\ TrailOK(trail, c, b.copper.clocks, target)
      /\ trail # <<>> => c.mode # "stop"
      /\ K \in Nat \ {0} /\ Len(trail) \in Nat
      /\ HasChanged(trail) =>
            b.copper.program_counter = (trail[Len(trail)].pc + 1) % InstructionCount
  BY CopperNumbers DEF Continues, CopperTyped, Coppers, Batches
<1>2. ASSUME NEW k \in 1..Len(trail)
      PROVE  /\ trail[k] \in Entries /\ trail[k].clocks \in Nat /\ trail[k].t \in Nat
             /\ trail[k].mode = c.mode /\ trail[k].t = CeilDiv(trail[k].clocks, K)
             /\ c.clocks <= trail[k].clocks
             /\ trail[k].clocks <= target /\ trail[k].clocks <= b.copper.clocks
             /\ k < Len(trail) =>
                   ~ChangesMode(trail[k]) /\ trail[k].clocks <= trail[k + 1].clocks
  <2>1. trail[k] \in Entries
    BY <1>1
  <2>2. trail[k].clocks \in Nat /\ trail[k].t \in Nat
    BY <2>1 DEF Entries
  <2> QED
    BY <1>1, <2>1, <2>2 DEF TrailOK
<1>3. ASSUME NEW k \in 1..Len(trail)
      PROVE  /\ trail[k].t <= T /\ trail[k].t <= CeilDiv(b.copper.clocks, K)
             /\ k < Len(trail) => trail[k].t <= trail[k + 1].t
  <2>1. CeilDiv(target, K) = T
    BY <1>1, CeilingIs
  <2>2. trail[k].t <= T /\ trail[k].t <= CeilDiv(b.copper.clocks, K)
    <3> HIDE DEF trail, K
    <3> QED
      BY <1>1, <1>2, <2>1, CeilingGrows
  <2>3. ASSUME k < Len(trail)
        PROVE  trail[k].t <= trail[k + 1].t
    <3>1. k + 1 \in 1..Len(trail)
      BY <1>1, <2>3
    <3>2. trail[k].clocks <= trail[k + 1].clocks
      BY <1>2, <2>3
    <3> HIDE DEF trail, K
    <3> QED
      BY <1>1, <1>2, <3>1, <3>2, CeilingGrows
  <2> QED
    BY <2>2, <2>3
<1>4. ASSUME s.writes # <<>>, trail # <<>>
      PROVE  final.t <= trail[1].t
  <2>1. 1 \in 1..Len(trail)
    BY <1>1, <1>4
  <2>2. final.t <= CeilDiv(c.clocks, K)
    BY <1>1, <1>4 DEF LastWrite
  <2>3. final \in Writes
    BY <1>4
  <2>4. final.t \in Nat
    BY <2>3 DEF Writes
  <2>5. CeilDiv(c.clocks, K) <= trail[1].t /\ CeilDiv(c.clocks, K) \in Nat
    <3> HIDE DEF trail, K
    <3> QED
      <4>1. /\ trail[1].clocks \in Nat /\ c.clocks <= trail[1].clocks
            /\ trail[1].t = CeilDiv(trail[1].clocks, K)
        BY <1>2, <2>1
      <4>2. CeilDiv(c.clocks, K) <= CeilDiv(trail[1].clocks, K)
        BY <1>1, <4>1, CeilingGrows
      <4>3. CeilDiv(c.clocks, K) \in Nat
        BY <1>1, CeilingOK
      <4> QED
        BY <4>1, <4>2, <4>3
  <2>6. trail[1].t \in Nat
    BY <1>2, <2>1
  <2> HIDE DEF final, trail, K
  <2> QED
    BY <2>2, <2>4, <2>5, <2>6
<1>5. MovesOf(trail, s)
  <2> HIDE DEF trail
  <2> QED
    BY <1>1, <1>2, <1>3, <1>4 DEF MovesOf
<1> QED
  BY <1>3, <1>5

(* What a step makes of a Copper that is ready for what comes next.           *)
MadeStep(before, b, r, W, T) ==
    /\ r \in Scenes /\ CopperTyped(r.copper) /\ Drawn(r.video, r.history, r.writes)
    /\ b.trail \in Seq(Entries) /\ Ordered(before \o b.trail)
    /\ before \o b.trail # <<>> =>
          Ready((before \o b.trail)[Len(before \o b.trail)], r.copper)
    /\ b.trail # <<>> =>
          /\ b.trail[Len(b.trail)].clocks <= T * ClocksPerTstate
          /\ r.copper.mode = "stop" => ChangesMode(b.trail[Len(b.trail)])
          /\ LastWrite(r.writes, T)
    /\ b.trail = <<>> => r.writes = W
    /\ r.copper.mode # "stop" =>
          LastWrite(r.writes, CeilDiv(r.copper.clocks, ClocksPerTstate))

(* A whole step: the batch, its MOVEs, and the picture of its frame.         *)
LEMMA StepMakes ==
    ASSUME NEW c, CopperTyped(c), NEW v \in Nat, NEW h \in Histories,
           NEW W \in Seq(Writes), Drawn(v, h, W), NEW T \in Nat,
           NEW before \in Seq(Entries), Ordered(before),
           before # <<>> => Ready(before[Len(before)], c),
           c.mode # "stop" => LastWrite(W, CeilDiv(c.clocks, ClocksPerTstate)),
           NEW b, b = AdvanceCopper(c, T),
           NEW r, r = Moves([copper |-> b.copper, video |-> v, history |-> h,
                             writes |-> W], b.trail)
    PROVE  MadeStep(before, b, r, W, T)
<1> DEFINE trail == b.trail
           N == Len(trail)
           target == T * ClocksPerTstate
           K == ClocksPerTstate
           s == [copper |-> b.copper, video |-> v, history |-> h, writes |-> W]
           R == before \o trail
<1>1. Continues(b, before, c, target)
  BY AdvanceOK
<1>2. /\ b \in Batches /\ CopperTyped(b.copper) /\ b.copper \in Coppers
      /\ trail \in Seq(Entries) /\ N \in Nat /\ (trail # <<>> <=> N > 0)
      /\ b.copper.clocks \in Nat /\ c.clocks \in Nat /\ c.clocks <= b.copper.clocks
      /\ b.copper.mode = c.mode /\ (trail # <<>> => c.mode # "stop")
      /\ TrailOK(trail, c, b.copper.clocks, target) /\ Ordered(R)
      /\ ~HasChanged(trail) /\ R # <<>> => Ready(R[Len(R)], b.copper)
  BY <1>1 DEF Continues, Batches, CopperTyped, Coppers
<1>3. s.copper = b.copper /\ s.writes = W /\ s.video = v /\ s.history = h /\ s \in Scenes
  BY <1>2 DEF Scenes
<1>4. r = Moves(s, trail)
  OBVIOUS
<1>5. K \in Nat \ {0} /\ target \in Nat
  BY CopperNumbers
<1>6. /\ R # <<>> <=> before # <<>> \/ trail # <<>>
      /\ trail # <<>> => R[Len(R)] = trail[N]
      /\ trail = <<>> => R = before
  BY <1>2
<1> HIDE DEF s, R, target, trail, N
<1>7. /\ MovesOf(trail, s)
      /\ \A k \in 1..N : trail[k].t <= T /\ trail[k].t <= CeilDiv(b.copper.clocks, K)
  BY <1>1, <1>3, BatchMoves DEF target, trail, N
<1>8. Made(s, trail, N, r)
  <2>1. Drawn(s.video, s.history, s.writes) /\ CopperTyped(s.copper)
    BY <1>2, <1>3
  <2> QED
    BY <1>2, <1>3, <1>4, <1>7, <2>1, MovesOK DEF N
<1>9. /\ r \in Scenes /\ CopperTyped(r.copper) /\ Drawn(r.video, r.history, r.writes)
      /\ trail = <<>> => r = s
  BY <1>2, <1>8 DEF Made
<1>10. ASSUME trail # <<>>
       PROVE  /\ N \in 1..N /\ trail[N] \in Entries /\ trail[N].t \in Nat
              /\ trail[N].clocks <= target /\ trail[N].t <= T
              /\ trail[N].t <= CeilDiv(b.copper.clocks, K)
              /\ LastWrite(r.writes, trail[N].t)
  <2>1. N \in 1..N
    BY <1>2, <1>10
  <2>2. trail[N] \in Entries
    BY <1>2, <1>10 DEF N
  <2>3. trail[N].t \in Nat
    BY <2>2 DEF Entries
  <2>4. trail[N].clocks <= target
    BY <1>2, <2>1 DEF TrailOK, N
  <2>5. LastWrite(r.writes, trail[N].t)
    BY <1>2, <1>8, <1>10 DEF Made
  <2> QED
    BY <1>7, <2>1, <2>2, <2>3, <2>4, <2>5
<1>11. r.writes # <<>> => r.writes[Len(r.writes)].t \in Nat
  <2>1. r.writes \in Seq(Writes)
    BY <1>9 DEF Scenes
  <2>2. r.writes # <<>> => r.writes[Len(r.writes)] \in Writes
    BY <2>1
  <2> QED
    BY <2>2 DEF Writes
<1>12. CASE HasChanged(trail)
  <2>1. trail # <<>> /\ ChangesMode(trail[N]) /\ N > 0
    BY <1>2, <1>12 DEF HasChanged, N
  <2>2. /\ Ready(trail[N], r.copper)
        /\ r.copper.mode # "stop" => r.copper.clocks = trail[N].t * K
    BY <1>8, <2>1 DEF Made
  <2>3. r.copper.mode # "stop" => CeilDiv(r.copper.clocks, K) = trail[N].t
    BY <1>5, <1>10, <2>1, <2>2, CeilingIs
  <2>4. r.copper.mode # "stop" => LastWrite(r.writes, CeilDiv(r.copper.clocks, K))
    BY <1>10, <2>1, <2>3
  <2>5. LastWrite(r.writes, T)
    BY <1>10, <1>11, <2>1 DEF LastWrite
  <2> QED
    BY <1>2, <1>6, <1>9, <1>10, <2>1, <2>2, <2>4, <2>5 DEF trail, N, R, target, MadeStep
<1>13. CASE ~HasChanged(trail)
  <2>1. SameRun(b.copper, r.copper)
    BY <1>2, <1>3, <1>8, <1>13 DEF Made, HasChanged, N
  <2>2. R # <<>> => Ready(R[Len(R)], r.copper)
    BY <1>2, <1>13, <2>1, SameReady
  <2>3. /\ r.copper.clocks = b.copper.clocks /\ r.copper.mode = c.mode
    BY <1>2, <2>1 DEF SameRun
  <2>4. ASSUME trail # <<>>
        PROVE  /\ r.copper.mode # "stop"
               /\ LastWrite(r.writes, T)
               /\ LastWrite(r.writes, CeilDiv(r.copper.clocks, K))
    <3>1. CeilDiv(b.copper.clocks, K) \in Nat
      BY <1>2, <1>5, CeilingOK
    <3>2. r.copper.mode # "stop"
      BY <1>2, <2>3, <2>4
    <3> DEFINE w == r.writes[Len(r.writes)].t
               x == CeilDiv(b.copper.clocks, K)
    <3>3. r.writes # <<>> => w \in Nat /\ w <= trail[N].t
      BY <1>10, <1>11, <2>4 DEF LastWrite
    <3>4. trail[N].t \in Nat /\ trail[N].t <= T /\ trail[N].t <= x
      BY <1>10, <2>4
    <3> HIDE DEF w, x
    <3>5. r.writes # <<>> => w <= T /\ w <= x
      BY <3>1, <3>3, <3>4 DEF x
    <3> QED
      BY <2>3, <3>2, <3>5 DEF LastWrite, w, x
  <2>5. ASSUME trail = <<>>, r.copper.mode # "stop"
        PROVE  LastWrite(r.writes, CeilDiv(r.copper.clocks, K))
    <3>1. r.writes = W
      BY <1>3, <1>9, <2>5
    <3>2. /\ CeilDiv(c.clocks, K) <= CeilDiv(b.copper.clocks, K)
          /\ CeilDiv(c.clocks, K) \in Nat /\ CeilDiv(b.copper.clocks, K) \in Nat
      BY <1>2, <1>5, CeilingGrows, CeilingOK
    <3> QED
      BY <1>11, <2>3, <2>5, <3>1, <3>2 DEF LastWrite
  <2>6. trail = <<>> => r.writes = W
    BY <1>3, <1>9
  <2> QED
    BY <1>2, <1>6, <1>9, <1>10, <2>2, <2>4, <2>5, <2>6 DEF trail, N, R, target, MadeStep
<1> QED
  BY <1>12, <1>13

-----------------------------------------------------------------------------
(* The invariant.                                                            *)

CopperTypeOK ==
    /\ CopperTyped(copper) /\ copper_t \in Nat
    /\ video \in Nat /\ history \in Histories
    /\ writes \in Seq(Writes) /\ ran \in Seq(Entries)
    /\ boundary \in Nat \cup {NoFrame} /\ render_frame \in Nat \cup {NoFrame}

(* The instruction that ran last is behind the guest's clock.                *)
Past(a, mode, t) ==
    /\ a.clocks <= t * ClocksPerTstate
    /\ mode = "stop" => a.clocks < t * ClocksPerTstate \/ ChangesMode(a)

ListHolds ==
    /\ Ordered(ran)
    /\ ran # <<>> => Ready(ran[Len(ran)], copper) /\ Past(ran[Len(ran)], copper.mode, copper_t)

(* The last MOVE is behind the guest's clock, the Copper's and the beam's.    *)
BeamHolds ==
    /\ Drawn(video, history, writes)
    /\ LastWrite(writes, copper_t)
    /\ copper.mode # "stop" => LastWrite(writes, CeilDiv(copper.clocks, ClocksPerTstate))
    /\ boundary # NoFrame =>
          \E q \in Nat : /\ boundary = (q + 1) * FrameTstates
                         /\ writes # <<>> => writes[Len(writes)].t < boundary
    /\ writes # <<>> => history.frame <= DisplayedFrame

CopperHolds == CopperTypeOK /\ ListHolds /\ BeamHolds

(* Products keep order.                                                      *)
LEMMA Times ==
    ASSUME NEW a \in Nat, NEW b \in Nat, NEW k \in Nat \ {0}, a <= b
    PROVE  a * k \in Nat /\ b * k \in Nat /\ a * k <= b * k /\ (a < b => a * k < b * k)
<1>1. PICK e \in Nat : b = a + e
  <2>1. b - a \in Nat /\ b = a + (b - a)
    OBVIOUS
  <2> QED
    BY <2>1
<1>2. b * k = a * k + e * k /\ e * k \in Nat /\ a * k \in Nat
  BY <1>1
<1>3. e # 0 => e * k # 0
  <2>1. \A x, y \in Nat \ {0} : x * y # 0
    OBVIOUS
  <2> QED
    BY <2>1
<1>4. a < b => e # 0
  BY <1>1
<1> HIDE <1>1
<1> QED
  BY <1>2, <1>3, <1>4

(* What RanBefore keeps of the instruction that ran last.                    *)
LEMMA RanBeforeOK ==
    ASSUME CopperHolds, NEW c
    PROVE  /\ RanBefore(c) \in Seq(Entries) /\ Ordered(RanBefore(c))
           /\ RanBefore(c) # <<>> =>
                 /\ ran # <<>> /\ RanBefore(c)[Len(RanBefore(c))] = ran[Len(ran)]
                 /\ ~(c.mode \in {"start", "frame"} /\ copper.mode # c.mode)
<1> DEFINE e == ran[Len(ran)]
<1>1. ran \in Seq(Entries)
  BY DEF CopperHolds, CopperTypeOK
<1>2. ran # <<>> => e \in Entries
  BY <1>1
<1>3. RanBefore(c) = IF ran = <<>> \/ (c.mode \in {"start", "frame"} /\ copper.mode # c.mode)
                     THEN <<>> ELSE <<e>>
  BY Zenon DEF RanBefore
<1> HIDE DEF e
<1>4. CASE RanBefore(c) = <<>>
  <2>1. RanBefore(c) \in Seq(Entries) /\ Len(RanBefore(c)) = 0
    BY <1>4
  <2> QED
    BY <1>4, <2>1 DEF Ordered
<1>5. CASE ran # <<>> /\ RanBefore(c) = <<e>>
           /\ ~(c.mode \in {"start", "frame"} /\ copper.mode # c.mode)
  <2>1. <<e>> \in Seq(Entries) /\ Len(<<e>>) = 1 /\ <<e>>[1] = e
    BY <1>2, <1>5
  <2>2. Ordered(<<e>>)
    BY <2>1 DEF Ordered
  <2> QED
    BY <1>5, <2>1, <2>2 DEF e
<1> QED
  BY <1>3, <1>4, <1>5

(* step_once keeps the invariant, whatever the guest has written.            *)
LEMMA StepKeeps ==
    ASSUME CopperHolds, NEW c, CopperTyped(c), NEW len \in Nat \ {0}, StepOnce(c, len),
           RanBefore(c) # <<>> => Ready(ran[Len(ran)], c),
           c.mode # "stop" => LastWrite(writes, CeilDiv(c.clocks, ClocksPerTstate))
    PROVE  CopperHolds'
<1> DEFINE end == copper_t + len
           T == CopperTime(copper_t, end)
           b == AdvanceCopper(c, T)
           r == Moves([copper |-> b.copper, video |-> video, history |-> history,
                       writes |-> writes], b.trail)
           before == RanBefore(c)
           R == before \o b.trail
           q == copper_t \div FrameTstates
           K == ClocksPerTstate
<1>1. /\ copper_t \in Nat /\ video \in Nat /\ history \in Histories
      /\ writes \in Seq(Writes) /\ ran \in Seq(Entries)
      /\ boundary \in Nat \cup {NoFrame}
      /\ Drawn(video, history, writes) /\ LastWrite(writes, copper_t)
  BY DEF CopperHolds, CopperTypeOK, BeamHolds
<1>2. /\ boundary = NoFrame \/ copper_t < boundary
      /\ copper' = r.copper /\ video' = r.video /\ history' = r.history /\ writes' = r.writes
      /\ copper_t' = end /\ render_frame' = NoFrame /\ ran' = R /\ boundary' = boundary
  BY Zenon DEF StepOnce
<1>3. /\ T \in Nat /\ copper_t <= T /\ T <= end
      /\ q \in Nat /\ (q + 1) * FrameTstates \in Nat /\ copper_t < (q + 1) * FrameTstates
      /\ T < (q + 1) * FrameTstates
      /\ (end - 1) \div FrameTstates \in Nat
      /\ q <= (end - 1) \div FrameTstates
  <2>1. InFrame(copper_t, end, T, q)
    BY <1>1, TimeOK
  <2> HIDE DEF T, q, end
  <2> QED
    BY <2>1 DEF InFrame
<1>4. /\ before \in Seq(Entries) /\ Ordered(before)
      /\ before # <<>> =>
            /\ ran # <<>> /\ before[Len(before)] = ran[Len(ran)]
            /\ Ready(before[Len(before)], c)
  BY RanBeforeOK
<1> HIDE DEF T, b, before
<1>5. /\ r \in Scenes /\ CopperTyped(r.copper) /\ Drawn(r.video, r.history, r.writes)
      /\ b.trail \in Seq(Entries) /\ Ordered(R)
      /\ R # <<>> => Ready(R[Len(R)], r.copper)
      /\ b.trail # <<>> =>
            /\ b.trail[Len(b.trail)].clocks <= T * K
            /\ r.copper.mode = "stop" => ChangesMode(b.trail[Len(b.trail)])
            /\ LastWrite(r.writes, T)
      /\ b.trail = <<>> => r.writes = writes
      /\ r.copper.mode # "stop" => LastWrite(r.writes, CeilDiv(r.copper.clocks, K))
  <2>1. b = AdvanceCopper(c, T)
    BY DEF b
  <2> HIDE DEF r
  <2>2. r = Moves([copper |-> b.copper, video |-> video, history |-> history,
                   writes |-> writes], b.trail)
    BY DEF r
  <2> QED
    <3>1. before # <<>> => Ready(before[Len(before)], c)
      BY <1>4
    <3>2. T \in Nat /\ before \in Seq(Entries) /\ Ordered(before)
      BY <1>3, <1>4
    <3>3. /\ video \in Nat /\ history \in Histories /\ writes \in Seq(Writes)
          /\ Drawn(video, history, writes)
      BY <1>1
    <3> QED
      <4>1. MadeStep(before, b, r, writes, T)
        BY <2>1, <2>2, <3>1, <3>2, <3>3, StepMakes
      <4> QED
        BY <4>1, Zenon DEF MadeStep
<1>6. /\ R \in Seq(Entries)
      /\ b.trail # <<>> => R[Len(R)] = b.trail[Len(b.trail)]
      /\ b.trail = <<>> => R = before
  BY <1>4, <1>5
<1>7. r.video \in Nat /\ r.history \in Histories /\ r.writes \in Seq(Writes)
  BY <1>5 DEF Scenes
<1>8. end \in Nat /\ copper_t < end /\ end # 0
  BY <1>1
<1> HIDE DEF r, R, end, q
<1>9. CopperTypeOK'
  BY <1>1, <1>2, <1>5, <1>6, <1>7, <1>8 DEF CopperTypeOK
<1>10. ASSUME R # <<>>
       PROVE  Past(R[Len(R)], r.copper.mode, end)
  <2>1. K \in Nat \ {0}
    BY CopperNumbers
  <2>2. R[Len(R)] \in Entries
    BY <1>6, <1>10
  <2>3. R[Len(R)].clocks \in Nat
    BY <2>2 DEF Entries
  <2>4. CASE b.trail # <<>>
    <3>1. T * K \in Nat /\ end * K \in Nat /\ T * K <= end * K
      BY <1>3, <1>8, <2>1, Times
    <3>2. R[Len(R)].clocks <= T * K /\ (r.copper.mode = "stop" => ChangesMode(R[Len(R)]))
      BY <1>5, <1>6, <2>4
    <3>3. R[Len(R)].clocks <= end * K
      BY <2>3, <3>1, <3>2
    <3> QED
      BY <3>2, <3>3 DEF Past
  <2>5. CASE b.trail = <<>>
    <3>1. R[Len(R)] = ran[Len(ran)] /\ ran # <<>>
      BY <1>4, <1>6, <1>10, <2>5
    <3>2. R[Len(R)].clocks <= copper_t * K
      BY <3>1 DEF CopperHolds, ListHolds, Past
    <3>3. copper_t * K \in Nat /\ end * K \in Nat /\ copper_t * K < end * K
      BY <1>1, <1>8, <2>1, Times
    <3>4. R[Len(R)].clocks < end * K
      BY <2>3, <3>2, <3>3
    <3> QED
      BY <2>3, <3>3, <3>4 DEF Past
  <2> QED
    BY <2>4, <2>5
<1>11. ListHolds'
  BY <1>2, <1>5, <1>10 DEF ListHolds
<1>12. r.writes # <<>> =>
          /\ r.writes[Len(r.writes)].t \in Nat /\ r.writes[Len(r.writes)].t <= T
  <2> SUFFICES ASSUME r.writes # <<>>
               PROVE  r.writes[Len(r.writes)].t \in Nat /\ r.writes[Len(r.writes)].t <= T
    OBVIOUS
  <2>1. r.writes[Len(r.writes)] \in Writes
    BY <1>7
  <2>2. r.writes[Len(r.writes)].t \in Nat
    BY <2>1 DEF Writes
  <2>3. b.trail = <<>> => r.writes[Len(r.writes)].t <= copper_t
    BY <1>1, <1>5 DEF LastWrite
  <2>4. b.trail # <<>> => r.writes[Len(r.writes)].t <= T
    BY <1>5 DEF LastWrite
  <2> QED
    BY <1>1, <1>3, <2>2, <2>3, <2>4, SMTT(30)
<1>13. LastWrite(r.writes, end)
  BY <1>3, <1>8, <1>12, SMTT(30) DEF LastWrite
<1>14. boundary # NoFrame =>
          \E p \in Nat : /\ boundary = (p + 1) * FrameTstates
                         /\ r.writes # <<>> => r.writes[Len(r.writes)].t < boundary
  <2> SUFFICES ASSUME boundary # NoFrame
               PROVE  \E p \in Nat : /\ boundary = (p + 1) * FrameTstates
                                     /\ r.writes # <<>> => r.writes[Len(r.writes)].t < boundary
    OBVIOUS
  <2>1. PICK p \in Nat : boundary = (p + 1) * FrameTstates
    BY DEF CopperHolds, BeamHolds
  <2>2. copper_t < boundary /\ boundary \in Nat
    BY <1>1, <1>2
  <2>3. q <= p
    <3> SUFFICES ASSUME p + 1 <= q PROVE FALSE
      BY <1>3
    <3>1. (p + 1) * FrameTstates <= q * FrameTstates /\ q * FrameTstates \in Nat
      BY <1>3, CopperNumbers, Times
    <3>2. q * FrameTstates <= copper_t
      BY <1>1, CopperNumbers, Quotient DEF q
    <3> HIDE <2>1
    <3>3. boundary <= q * FrameTstates
      BY <2>1, <3>1
    <3> QED
      BY <1>1, <2>2, <3>1, <3>2, <3>3
  <2>4. (q + 1) * FrameTstates <= (p + 1) * FrameTstates
    BY <1>3, <2>3, CopperNumbers, Times
  <2>5. (q + 1) * FrameTstates <= boundary
    BY <2>1, <2>4
  <2>6. r.writes # <<>> => r.writes[Len(r.writes)].t < boundary
    BY <1>3, <1>12, <2>2, <2>5
  <2> QED
    BY <2>1, <2>6
<1>15. DisplayedFrame' = (end - 1) \div FrameTstates
  BY <1>2, <1>8 DEF DisplayedFrame
<1>16. r.writes # <<>> => r.history.frame <= (end - 1) \div FrameTstates
  <2> SUFFICES ASSUME r.writes # <<>>
               PROVE  r.history.frame <= (end - 1) \div FrameTstates
    OBVIOUS
  <2> DEFINE t == r.writes[Len(r.writes)].t
  <2>1. r.history.frame = t \div FrameTstates
    BY <1>5 DEF Drawn
  <2>2. t \in Nat /\ t <= T
    BY <1>12
  <2> HIDE DEF t
  <2>3. /\ t \div FrameTstates <= T \div FrameTstates
        /\ t \div FrameTstates \in Nat
    BY <1>3, <2>2, CopperNumbers, QuotientGrows, Quotient
  <2>4. T \div FrameTstates = q
    <3>1. q * FrameTstates <= copper_t /\ q * FrameTstates \in Nat
      <4>1. q * FrameTstates \in Nat
        BY <1>3, CopperNumbers
      <4> QED
        BY <1>1, <4>1, CopperNumbers, Quotient DEF q
    <3>2. q * FrameTstates <= T
      BY <1>1, <1>3, <3>1
    <3> QED
      BY <1>3, <3>2, CopperNumbers, QuotientIs
  <2> QED
    BY <1>3, <2>1, <2>3, <2>4
<1>17. BeamHolds'
  BY <1>2, <1>5, <1>13, <1>14, <1>15, <1>16 DEF BeamHolds
<1> QED
  BY <1>9, <1>11, <1>17 DEF CopperHolds

(* The last MOVE is before any later time.                                   *)
LEMMA WritesTimed ==
    ASSUME CopperHolds, writes # <<>>
    PROVE  /\ writes \in Seq(Writes) /\ writes[Len(writes)] \in Writes
           /\ writes[Len(writes)].t \in Nat /\ writes[Len(writes)].t <= copper_t
<1>1. writes \in Seq(Writes) /\ LastWrite(writes, copper_t)
  BY DEF CopperHolds, CopperTypeOK, BeamHolds
<1>2. writes[Len(writes)] \in Writes
  BY <1>1
<1> QED
  BY <1>1, <1>2 DEF LastWrite, Writes

(* A write of the guest that leaves the mode alone.                          *)
LEMMA SameRunReady ==
    ASSUME CopperHolds, NEW c, SameRun(copper, c)
    PROVE  /\ RanBefore(c) # <<>> => Ready(ran[Len(ran)], c)
           /\ c.mode # "stop" => LastWrite(writes, CeilDiv(c.clocks, ClocksPerTstate))
<1>1. RanBefore(c) # <<>> => ran # <<>>
  BY RanBeforeOK
<1>2. ran # <<>> => Ready(ran[Len(ran)], copper)
  BY DEF CopperHolds, ListHolds
<1>3. c.mode = copper.mode /\ c.clocks = copper.clocks
  BY DEF SameRun
<1> QED
  BY <1>1, <1>2, <1>3, SameReady DEF CopperHolds, BeamHolds

(* A change of the mode by the guest.                                        *)
LEMMA ControlReady ==
    ASSUME CopperHolds, NEW v \in CopperControl, NEW t \in Nat, copper_t <= t,
           NEW c, c = WriteCopperControl(copper, v, t)
    PROVE  /\ CopperTyped(c)
           /\ RanBefore(c) # <<>> => Ready(ran[Len(ran)], c)
           /\ c.mode # "stop" => LastWrite(writes, CeilDiv(c.clocks, ClocksPerTstate))
<1> DEFINE a == ran[Len(ran)]
           K == ClocksPerTstate
<1>1. CopperTyped(copper) /\ copper_t \in Nat /\ ran \in Seq(Entries)
  BY DEF CopperHolds, CopperTypeOK
<1>2. /\ CopperTyped(c)
      /\ v.mode = copper.mode => SameRun(copper, c)
      /\ v.mode # copper.mode =>
            /\ c.mode = v.mode
            /\ v.mode # "stop" => c.clocks = t * ClocksPerTstate
            /\ v.mode = "stop" => c.clocks = copper.clocks
            /\ c.program_counter =
                  IF v.mode \in {"start", "frame"} THEN 0 ELSE copper.program_counter
  BY <1>1, ControlOK
<1>3. CASE v.mode = copper.mode
  BY <1>2, <1>3, SameRunReady
<1>4. CASE v.mode # copper.mode
  <2>1. K \in Nat \ {0}
    BY CopperNumbers
  <2>2. ASSUME c.mode # "stop"
        PROVE  LastWrite(writes, CeilDiv(c.clocks, K))
    <3>1. c.clocks = t * K
      BY <1>2, <1>4, <2>2
    <3>2. CeilDiv(c.clocks, K) = t
      BY <2>1, <3>1, CeilingIs
    <3>3. writes # <<>> => writes[Len(writes)].t <= t
      BY <1>1, WritesTimed
    <3> QED
      BY <3>2, <3>3 DEF LastWrite
  <2>3. ASSUME RanBefore(c) # <<>>
        PROVE  Ready(a, c)
    <3>1. ran # <<>> /\ c.mode \notin {"start", "frame"}
      BY <1>2, <1>4, <2>3, RanBeforeOK
    <3>2. a \in Entries
      BY <1>1, <3>1
    <3>3. Ready(a, copper) /\ Past(a, copper.mode, copper_t)
      BY <3>1 DEF CopperHolds, ListHolds
    <3> HIDE DEF a
    <3>4. a.clocks \in Nat /\ copper.clocks \in Nat /\ copper.mode \in Modes /\ c.mode \in Modes
      BY <1>1, <1>2, <3>2 DEF Entries, CopperTyped, Coppers
    <3>5. c.mode \in {"stop", "resume"} /\ c.program_counter = copper.program_counter
      BY <1>2, <1>4, <3>1, <3>4 DEF Modes
    <3>6. SameMode(a, c)
      BY <3>1 DEF SameMode
    <3>7. InList(a, c)
      BY <3>3, <3>5 DEF Ready, InList
    <3>8. InTime(a, c)
      <4> SUFFICES ASSUME c.mode = "resume"
                   PROVE  \/ a.clocks < c.clocks
                          \/ a.clocks = c.clocks /\ (ChangesMode(a) \/ c.mode # a.mode)
        BY <3>5 DEF InTime
      <4>1. c.clocks = t * K
        BY <1>2, <1>4
      <4>2. /\ copper_t * K \in Nat /\ t * K \in Nat /\ copper_t * K <= t * K
        BY <1>1, <2>1, Times
      <4>3. a.clocks <= t * K
        BY <3>3, <3>4, <4>2 DEF Past
      <4>4. CASE copper.mode = "stop"
        <5>1. a.clocks < copper_t * K \/ ChangesMode(a)
          BY <3>3, <4>4 DEF Past
        <5> HIDE DEF K
        <5> QED
          BY <3>4, <4>1, <4>2, <4>3, <5>1
      <4>5. CASE copper.mode # "stop"
        <5>1. copper.mode \in {"start", "frame"}
          BY <1>2, <1>4, <3>4, <4>5 DEF Modes
        <5>2. ChangesMode(a) \/ a.mode = copper.mode
          BY <3>3, <5>1 DEF Ready, SameMode
        <5>3. ChangesMode(a) \/ c.mode # a.mode
          BY <5>1, <5>2
        <5> HIDE DEF K
        <5> QED
          BY <3>4, <4>1, <4>2, <4>3, <5>3
      <4> QED
        BY <4>4, <4>5
    <3> QED
      BY <3>6, <3>7, <3>8 DEF Ready
  <2> QED
    BY <1>2, <2>2, <2>3
<1> QED
  BY <1>3, <1>4

(* It holds at first.                                                        *)
LEMMA CopperBegins == CopperInit => CopperHolds
<1> SUFFICES ASSUME CopperInit PROVE CopperHolds
  OBVIOUS
<1>1. PICK p \in Programs :
          copper = [memory |-> p, address |-> 0, mode |-> "stop", program_counter |-> 0,
                    running |-> FALSE, clocks |-> 0, stalled |-> FALSE]
  BY DEF CopperInit
<1>2. /\ copper_t = 0 /\ video = 0 /\ history = NoHistory
      /\ boundary = NoFrame /\ render_frame = NoFrame /\ writes = <<>> /\ ran = <<>>
  BY DEF CopperInit
<1>3. p \in [0..(ByteCount - 1) -> Bytes]
  BY CopperAssumption DEF CopperConstants, ByteCount
<1>4. CopperTyped(copper)
  BY <1>1, <1>3, CopperNumbers DEF CopperTyped, Coppers, Modes
<1>5. history \in Histories
  BY <1>2 DEF NoHistory, NoFrame, Histories
<1>6. CopperTypeOK
  BY <1>2, <1>4, <1>5 DEF CopperTypeOK
<1>7. ListHolds
  <2>1. Len(ran) = 0
    BY <1>2
  <2> QED
    BY <1>2, <2>1 DEF ListHolds, Ordered
<1>8. Drawn(video, history, writes)
  BY <1>2 DEF Drawn, InTimeOrder
<1>9. BeamHolds
  BY <1>2, <1>8 DEF BeamHolds, LastWrite
<1> QED
  BY <1>6, <1>7, <1>9 DEF CopperHolds

(* And every action keeps it.                                                *)
LEMMA CopperKeeps == CopperHolds /\ [CopperNext]_copperVars => CopperHolds'
<1> SUFFICES ASSUME CopperHolds, [CopperNext]_copperVars
             PROVE  CopperHolds'
  OBVIOUS
<1>0. /\ CopperTypeOK /\ ListHolds /\ BeamHolds
      /\ CopperTyped(copper) /\ copper_t \in Nat
      /\ boundary \in Nat \cup {NoFrame} /\ render_frame \in Nat \cup {NoFrame}
  BY DEF CopperHolds, CopperTypeOK
<1>1. \A i \in CopperShapes : i.at \in Nat /\ i.len \in Nat \ {0}
  BY CopperAssumption DEF CopperConstants
<1>2. CASE RunList
  <2>1. PICK i \in CopperShapes : StepOnce(copper, i.len)
    BY <1>2 DEF RunList
  <2>2. SameRun(copper, copper)
    BY DEF SameRun
  <2>3. /\ RanBefore(copper) # <<>> => Ready(ran[Len(ran)], copper)
        /\ copper.mode # "stop" => LastWrite(writes, CeilDiv(copper.clocks, ClocksPerTstate))
    BY <2>2, SameRunReady
  <2> QED
    BY <1>0, <1>1, <2>1, <2>3, StepKeeps
<1>3. CASE SetControl
  <2>1. PICK i \in CopperShapes, v \in Controls :
          StepOnce(WriteCopperControl(copper, v, copper_t + i.at), i.len)
    BY <1>3 DEF SetControl
  <2> DEFINE c == WriteCopperControl(copper, v, copper_t + i.at)
  <2>2. v \in CopperControl
    BY CopperAssumption DEF CopperConstants
  <2>3. copper_t + i.at \in Nat /\ copper_t <= copper_t + i.at /\ i.len \in Nat \ {0}
    BY <1>0, <1>1
  <2>4. /\ CopperTyped(c)
        /\ RanBefore(c) # <<>> => Ready(ran[Len(ran)], c)
        /\ c.mode # "stop" => LastWrite(writes, CeilDiv(c.clocks, ClocksPerTstate))
    BY <2>2, <2>3, ControlReady
  <2> HIDE DEF c
  <2>5. StepOnce(c, i.len)
    BY <2>1 DEF c
  <2> QED
    BY <2>3, <2>4, <2>5, StepKeeps
<1>4. CASE SetData
  <2>1. PICK i \in CopperShapes, b \in Data : StepOnce(WriteData(copper, b), i.len)
    BY <1>4 DEF SetData
  <2> DEFINE c == WriteData(copper, b)
  <2>2. b \in Bytes
    BY CopperAssumption DEF CopperConstants
  <2>3. CopperTyped(c) /\ SameRun(copper, c)
    BY <1>0, <2>2, WritesKeepRunning DEF SameRunning
  <2> HIDE DEF c
  <2>4. /\ RanBefore(c) # <<>> => Ready(ran[Len(ran)], c)
        /\ c.mode # "stop" => LastWrite(writes, CeilDiv(c.clocks, ClocksPerTstate))
    BY <2>3, SameRunReady
  <2>5. StepOnce(c, i.len)
    BY <2>1 DEF c
  <2> QED
    BY <1>1, <2>3, <2>4, <2>5, StepKeeps
<1>5. CASE SetAddressLow
  <2>1. PICK i \in CopperShapes, b \in LowAddresses : StepOnce(WriteAddressLow(copper, b), i.len)
    BY <1>5 DEF SetAddressLow
  <2> DEFINE c == WriteAddressLow(copper, b)
  <2>2. b \in Nat
    BY CopperAssumption, CopperNumbers DEF CopperConstants
  <2>3. CopperTyped(c) /\ SameRun(copper, c)
    BY <1>0, <2>2, WritesKeepRunning DEF SameRunning
  <2> HIDE DEF c
  <2>4. /\ RanBefore(c) # <<>> => Ready(ran[Len(ran)], c)
        /\ c.mode # "stop" => LastWrite(writes, CeilDiv(c.clocks, ClocksPerTstate))
    BY <2>3, SameRunReady
  <2>5. StepOnce(c, i.len)
    BY <2>1 DEF c
  <2> QED
    BY <1>1, <2>3, <2>4, <2>5, StepKeeps
<1>6. CASE RunFrame
  <2> DEFINE q == copper_t \div FrameTstates
             w == writes[Len(writes)].t
  <2>1. /\ boundary' = (q + 1) * FrameTstates
        /\ UNCHANGED <<copper, copper_t, video, history, render_frame, writes, ran>>
    BY <1>6 DEF RunFrame
  <2>2. q \in Nat /\ copper_t < (q + 1) * FrameTstates
    BY <1>0, CopperNumbers, Quotient
  <2>3. writes # <<>> => w \in Nat /\ w <= copper_t
    BY WritesTimed
  <2> HIDE DEF q, w
  <2>4. (q + 1) * FrameTstates \in Nat
    BY <2>2, CopperNumbers
  <2>5. writes # <<>> => w < (q + 1) * FrameTstates
    BY <1>0, <2>2, <2>3, <2>4
  <2>6. CopperTypeOK'
    BY <1>0, <2>1, <2>4 DEF CopperTypeOK
  <2>7. ListHolds'
    BY <1>0, <2>1 DEF ListHolds
  <2>8. DisplayedFrame' = DisplayedFrame
    BY <2>1 DEF DisplayedFrame
  <2>9. BeamHolds'
    <3>1. \E p \in Nat : /\ boundary' = (p + 1) * FrameTstates
                         /\ writes' # <<>> => writes'[Len(writes')].t < boundary'
      BY <2>1, <2>2, <2>5 DEF w
    <3> QED
      BY <1>0, <2>1, <2>8, <3>1 DEF BeamHolds
  <2> QED
    BY <2>6, <2>7, <2>9 DEF CopperHolds
<1>7. CASE FrameDone
  <2>1. /\ boundary # NoFrame
        /\ render_frame' = boundary \div FrameTstates - 1 /\ boundary' = NoFrame
        /\ UNCHANGED <<copper, copper_t, video, history, writes, ran>>
    BY <1>7 DEF FrameDone
  <2>2. PICK q \in Nat : /\ boundary = (q + 1) * FrameTstates
                         /\ writes # <<>> => writes[Len(writes)].t < boundary
    BY <1>0, <2>1 DEF BeamHolds
  <2>3. boundary \div FrameTstates = q + 1
    <3>1. /\ (q + 1) * FrameTstates \in Nat
          /\ (q + 1) * FrameTstates < ((q + 1) + 1) * FrameTstates
      BY CopperNumbers, Times
    <3>2. ((q + 1) * FrameTstates) \div FrameTstates = q + 1
      BY <3>1, CopperNumbers, QuotientIs
    <3> QED
      BY <2>2, <3>2
  <2>4. render_frame' = q /\ q # NoFrame
    BY <2>1, <2>3 DEF NoFrame
  <2>5. CopperTypeOK'
    BY <1>0, <2>1, <2>4 DEF CopperTypeOK
  <2>6. ListHolds'
    BY <1>0, <2>1 DEF ListHolds
  <2>7. DisplayedFrame' = q
    BY <2>4 DEF DisplayedFrame
  <2>8. writes # <<>> => history.frame <= q
    <3> SUFFICES ASSUME writes # <<>> PROVE history.frame <= q
      OBVIOUS
    <3> DEFINE w == writes[Len(writes)].t
    <3>1. history.frame = w \div FrameTstates
      BY <1>0 DEF BeamHolds, Drawn
    <3>2. w \in Nat /\ w < (q + 1) * FrameTstates
      BY <2>2, WritesTimed
    <3> HIDE DEF w
    <3>3. w \div FrameTstates \in Nat /\ (w \div FrameTstates) * FrameTstates <= w
      BY <3>2, CopperNumbers, Quotient
    <3> DEFINE d == w \div FrameTstates
    <3>4. d \in Nat /\ d * FrameTstates <= w
      BY <3>3
    <3> HIDE DEF d
    <3>5. d <= q
      <4> SUFFICES ASSUME q + 1 <= d PROVE FALSE
        BY <3>4
      <4>1. /\ (q + 1) * FrameTstates <= d * FrameTstates
            /\ (q + 1) * FrameTstates \in Nat /\ d * FrameTstates \in Nat
        BY <3>4, CopperNumbers, Times
      <4> QED
        BY <3>2, <3>4, <4>1
    <3> QED
      BY <3>1, <3>5 DEF d
  <2>9. BeamHolds'
    BY <1>0, <2>1, <2>7, <2>8 DEF BeamHolds
  <2> QED
    BY <2>5, <2>6, <2>9 DEF CopperHolds
<1>8. CASE ResetCopper
  <2>1. /\ copper' = Reset(copper)
        /\ video' = 0 /\ history' = NoHistory /\ render_frame' = NoFrame
        /\ writes' = <<>> /\ ran' = <<>>
        /\ copper_t' = copper_t /\ boundary' = boundary
    BY <1>8 DEF ResetCopper
  <2>2. CopperTyped(Reset(copper)) /\ Reset(copper).mode = "stop"
    <3> DEFINE d == Reset(copper)
    <3>1. d = [copper EXCEPT !.address = 0, !.mode = "stop", !.program_counter = 0,
                             !.running = FALSE, !.clocks = 0, !.stalled = FALSE]
      BY DEF Reset
    <3>2. copper \in Coppers /\ 0 \in 0..(InstructionCount - 1)
      BY <1>0, CopperNumbers DEF CopperTyped
    <3> HIDE DEF d
    <3>3. d \in Coppers /\ d.mode = "stop" /\ d.running = FALSE
      BY <3>1, <3>2 DEF Coppers, Modes
    <3> QED
      BY <3>3 DEF CopperTyped, d
  <2>3. history' \in Histories
    BY <2>1 DEF NoHistory, NoFrame, Histories
  <2>4. CopperTypeOK'
    BY <1>0, <2>1, <2>2, <2>3 DEF CopperTypeOK
  <2>5. ListHolds'
    <3>1. Len(ran') = 0
      BY <2>1
    <3> QED
      BY <2>1, <3>1 DEF ListHolds, Ordered
  <2>6. Drawn(0, NoHistory, <<>>)
    BY DEF Drawn, InTimeOrder
  <2>7. BeamHolds'
    BY <1>0, <2>1, <2>2, <2>6 DEF BeamHolds, LastWrite
  <2> QED
    BY <2>4, <2>5, <2>7 DEF CopperHolds
<1>9. CASE UNCHANGED copperVars
  <2>1. UNCHANGED <<copper, copper_t, video, history, boundary, render_frame, writes, ran>>
    BY <1>9 DEF copperVars
  <2> QED
    BY <2>1 DEF CopperHolds, CopperTypeOK, ListHolds, BeamHolds, DisplayedFrame
<1> QED
  BY <1>2, <1>3, <1>4, <1>5, <1>6, <1>7, <1>8, <1>9 DEF CopperNext

LEMMA CopperAlways == CopperSpec => []CopperHolds
  BY CopperBegins, CopperKeeps, PTL DEF CopperSpec

-----------------------------------------------------------------------------
(* What the invariant says of the list and of the picture.                   *)

(* The greatest index of a part of a sequence.                               *)
LEMMA MaxOf ==
    ASSUME NEW n \in Nat, NEW S \in SUBSET (1..n), S # {}
    PROVE  Max(S) \in S /\ \A y \in S : y <= Max(S)
<1> DEFINE upper == {k \in Nat : \A y \in S : y <= k}
<1>1. n \in upper
  OBVIOUS
<1>2. PICK k \in upper : \A j \in upper : k <= j
  <2>1. upper \in SUBSET Nat /\ upper # {}
    BY <1>1
  <2> HIDE DEF upper
  <2> QED
    BY <2>1, LeastNatural
<1>3. k \in S
  <2> SUFFICES ASSUME k \notin S PROVE FALSE
    OBVIOUS
  <2>1. PICK y \in S : TRUE
    OBVIOUS
  <2>2. y \in Nat /\ y >= 1 /\ y <= k /\ k \in Nat
    BY <2>1
  <2>3. \A z \in S : z \in Nat /\ z <= k /\ z # k
    OBVIOUS
  <2>4. k - 1 \in upper
    BY <2>2, <2>3
  <2> HIDE DEF upper
  <2>5. k <= k - 1
    BY <1>2, <2>4
  <2> QED
    BY <2>2, <2>5
<1>4. \A y \in S : k >= y
  OBVIOUS
<1>5. S \in SUBSET Nat
  OBVIOUS
<1> HIDE DEF upper
<1>6. Max(S) = k
  BY <1>3, <1>4, <1>5, MaxIs
<1> QED
  BY <1>3, <1>4, <1>5, <1>6

(* For every list, size of frame and program of the guest: instructions run  *)
(* in the order of the list and of the beam (ListInOrder; advance,           *)
(* write_control).                                                           *)
THEOREM ListKept == CopperSpec => []ListInOrder
<1>1. CopperHolds => ListInOrder
  BY DEF CopperHolds, ListHolds, ListInOrder, Ordered
<1> QED
  BY <1>1, CopperAlways, PTL

(* The frame that is shown is one that has been run.                         *)
LEMMA DisplayedOK ==
    ASSUME CopperTypeOK
    PROVE  DisplayedFrame \in Nat
<1>1. copper_t \in Nat /\ render_frame \in Nat \cup {NoFrame}
  BY DEF CopperTypeOK
<1>2. copper_t # 0 => copper_t - 1 \in Nat
  BY <1>1
<1>3. copper_t # 0 => (copper_t - 1) \div FrameTstates \in Nat
  BY <1>2, CopperNumbers, Quotient
<1> QED
  BY <1>1, <1>3 DEF DisplayedFrame

(* A row shows the last MOVE that was made before its end.                   *)
LEMMA RowIs ==
    ASSUME CopperHolds, NEW l \in Nat
    PROVE  Row(l) = MadeBefore(writes, RowEnd(DisplayedFrame, l))
<1> DEFINE E == history.events
           n == Len(E)
           d == DisplayedFrame
           passed == {k \in DOMAIN E : E[k].line <= l}
           w == writes[Len(writes)]
<1>1. /\ history \in Histories /\ writes \in Seq(Writes) /\ d \in Nat
      /\ Drawn(video, history, writes)
      /\ writes # <<>> => history.frame <= d
  BY DisplayedOK DEF CopperHolds, CopperTypeOK, BeamHolds
<1>2. Row(l) = IF history.frame # d \/ passed = DOMAIN E THEN video
               ELSE IF passed = {} THEN history.initial
               ELSE E[Max(passed)].value
  BY Zenon DEF Row
<1>3. E \in Seq(Events) /\ n \in Nat /\ DOMAIN E = 1..n
  BY <1>1 DEF Histories, Events
<1>4. RowEnd(d, l) \in Nat /\ (d + 1) * FrameTstates \in Nat
  <2>1. /\ d * FrameTstates \in Nat /\ (l + 1) * LineTstates \in Nat
        /\ (d + 1) * FrameTstates \in Nat
    <3>1. \A a, b \in Nat : a * b \in Nat
      OBVIOUS
    <3>2. l + 1 \in Nat /\ d + 1 \in Nat
      BY <1>1
    <3> HIDE DEF d
    <3> QED
      BY <1>1, <3>1, <3>2, CopperNumbers
  <2> HIDE DEF d
  <2> QED
    BY <2>1 DEF RowEnd
<1> HIDE DEF d
<1>5. CASE writes = <<>>
  <2>1. video = 0 /\ history = NoHistory
    BY <1>1, <1>5 DEF Drawn
  <2>2. history.frame # d
    BY <1>1, <2>1 DEF NoHistory, NoFrame
  <2>3. MadeBefore(writes, RowEnd(d, l)) = 0
    BY <1>5 DEF MadeBefore
  <2> QED
    BY <1>2, <2>1, <2>2, <2>3 DEF d
<1>6. CASE writes # <<>>
  <2>1. /\ video = w.value /\ history.frame = w.t \div FrameTstates
        /\ E # <<>> /\ LinesOK(E)
        /\ E[n] = [line |-> LineOf(w.t), value |-> video]
        /\ history.initial = MadeBefore(writes, history.frame * FrameTstates)
        /\ RowsOK(history, writes) /\ InTimeOrder(writes)
    BY <1>1, <1>6 DEF Drawn
  <2>2. w \in Writes
    BY <1>1, <1>6
  <2>3. w.t \in Nat /\ w.t \div FrameTstates \in Nat
    BY <2>2, LineBounds DEF Writes
  <2>4. CASE history.frame # d
    <3>1. w.t \div FrameTstates < d
      BY <1>1, <1>6, <2>1, <2>3, <2>4
    <3>2. w.t < (w.t \div FrameTstates + 1) * FrameTstates
      BY <2>3, CopperNumbers, Quotient
    <3> DEFINE p == w.t \div FrameTstates + 1
    <3>3. p \in Nat /\ p <= d /\ w.t < p * FrameTstates
      BY <1>1, <2>3, <3>1, <3>2
    <3> HIDE DEF p
    <3>4. p * FrameTstates \in Nat /\ d * FrameTstates \in Nat /\ p * FrameTstates <= d * FrameTstates
      BY <1>1, <3>3, CopperNumbers, Times
    <3>5. (l + 1) * LineTstates \in Nat
      BY CopperNumbers
    <3>6. w.t < RowEnd(d, l)
      BY <2>3, <3>3, <3>4, <3>5 DEF RowEnd
    <3>7. MadeBefore(writes, RowEnd(d, l)) = w.value
      BY <1>1, <1>4, <1>6, <2>1, <3>6, AllMade
    <3> QED
      BY <1>2, <2>1, <2>4, <3>7 DEF d
  <2>5. CASE history.frame = d
    <3>1. /\ l < E[1].line => MadeBefore(writes, RowEnd(d, l)) = history.initial
          /\ \A k \in DOMAIN E :
                Until(E, k, l) => MadeBefore(writes, RowEnd(d, l)) = E[k].value
      BY <2>1, <2>5, Zenon DEF RowsOK
    <3>2. n > 0 /\ \A k \in 1..n : E[k].line \in Nat
      <4>1. n > 0 /\ \A k \in 1..n : E[k] \in Events
        BY <1>3, <2>1
      <4> QED
        BY <4>1 DEF Events
    <3> HIDE DEF E, n
    <3>3. CASE passed = DOMAIN E
      <4>1. n \in DOMAIN E /\ E[n].line <= l
        BY <1>3, <3>2, <3>3
      <4>2. Until(E, n, l)
        BY <1>3, <4>1 DEF Until, n
      <4>3. MadeBefore(writes, RowEnd(d, l)) = E[n].value /\ E[n].value = video
        BY <2>1, <3>1, <4>1, <4>2
      <4> HIDE DEF passed
      <4> QED
        BY <1>2, <3>3, <4>3 DEF d
    <3>4. CASE passed # DOMAIN E /\ passed = {}
      <4>1. l < E[1].line
        BY <1>3, <3>2, <3>4
      <4> HIDE DEF passed
      <4> QED
        BY <1>2, <2>5, <3>1, <3>4, <4>1 DEF d
    <3>5. CASE passed # DOMAIN E /\ passed # {}
      <4> DEFINE k == Max(passed)
      <4>1. k \in passed /\ \A y \in passed : y <= k
        <5>1. passed \in SUBSET (1..n)
          BY <1>3
        <5> HIDE DEF passed
        <5> QED
          BY <1>3, <3>5, <5>1, MaxOf
      <4> HIDE DEF k
      <4>2. k \in 1..n /\ E[k].line <= l
        BY <1>3, <4>1
      <4>3. k < n => l < E[k + 1].line
        <5> SUFFICES ASSUME k < n, E[k + 1].line <= l PROVE FALSE
          BY <1>3, <3>2, <4>2
        <5>1. k + 1 \in passed
          BY <1>3, <4>2
        <5> QED
          BY <4>1, <4>2, <5>1
      <4>4. Until(E, k, l)
        BY <4>2, <4>3 DEF Until, n
      <4>5. MadeBefore(writes, RowEnd(d, l)) = E[k].value
        BY <1>3, <3>1, <4>2, <4>4
      <4> HIDE DEF passed
      <4> QED
        BY <1>2, <2>5, <3>5, <4>5 DEF d, k
    <3> QED
      BY <3>3, <3>4, <3>5
  <2> QED
    BY <2>4, <2>5
<1> QED
  BY <1>5, <1>6

(* For every list, size of frame and program of the guest: a row of the      *)
(* picture shows the last MOVE made before the beam left it                  *)
(* (PictureShowsItsMoves; step_once, run_frame,                              *)
(* capture_copper_video_before_write and _after_write, render_rgba).         *)
THEOREM PictureKept == CopperSpec => []PictureShowsItsMoves
<1>1. CopperHolds => PictureShowsItsMoves
  <2> SUFFICES ASSUME CopperHolds, NEW l \in 0..(FrameLines - 1)
               PROVE  LET end == DisplayedFrame * FrameTstates + (l + 1) * LineTstates
                          made == {k \in DOMAIN writes : writes[k].t < end}
                      IN  Row(l) = IF made = {} THEN 0 ELSE writes[Max(made)].value
    BY Zenon DEF PictureShowsItsMoves
  <2>1. l \in Nat
    BY CopperNumbers
  <2>2. Row(l) = MadeBefore(writes, RowEnd(DisplayedFrame, l))
    BY <2>1, RowIs
  <2> QED
    BY <2>2, Zenon DEF MadeBefore, RowEnd
<1> QED
  BY <1>1, CopperAlways, PTL

-----------------------------------------------------------------------------
(* Two batches or one.                                                       *)

(* Turns, one after another.                                                 *)
Turns(f, target, N) == \A n \in 1..N : f[n] = Turn(f[n - 1], target)
Start(c) == [copper |-> c, trail |-> <<>>, left |-> FALSE]
After(trail, s) == [copper |-> s.copper, trail |-> trail \o s.trail, left |-> s.left]

(* The batch that has left the loop stays as it is.                          *)
LEMMA LeftStays ==
    ASSUME NEW s \in Batches, s.left, NEW target
    PROVE  Turn(s, target) = s
<1>1. Turn(s, target) = [copper |-> s.copper, trail |-> s.trail, left |-> TRUE]
  BY Zenon DEF Turn
<1> QED
  BY <1>1 DEF Batches

(* All turns have the types of the first.                                    *)
LEMMA TurnsTyped ==
    ASSUME NEW T \in Nat, NEW target, target = T * ClocksPerTstate, NEW N \in Nat,
           NEW f, Turns(f, target, N), f[0] \in Batches, CopperTyped(f[0].copper),
           NEW n \in 0..N
    PROVE  f[n] \in Batches /\ CopperTyped(f[n].copper)
<1> DEFINE bad == {m \in 0..N : ~(f[m] \in Batches /\ CopperTyped(f[m].copper))}
<1>1. SUFFICES ASSUME bad # {} PROVE FALSE
  OBVIOUS
<1>2. PICK m \in bad : \A k \in bad : m <= k
  <2>1. bad \in SUBSET Nat
    OBVIOUS
  <2> HIDE DEF bad
  <2> QED
    BY <1>1, <2>1, LeastNatural
<1>3. m # 0
  OBVIOUS
<1>4. m \in 1..N /\ m - 1 \in 0..N /\ ~(m <= m - 1)
  BY <1>3
<1>5. f[m - 1] \in Batches /\ CopperTyped(f[m - 1].copper)
  BY <1>2, <1>4
<1>6. f[m] = Turn(f[m - 1], target)
  BY <1>4 DEF Turns
<1>7. f[m] \in Batches /\ CopperTyped(f[m].copper)
  BY <1>5, <1>6, TurnOK
<1> QED
  BY <1>7

(* Once left, the loop is left.                                              *)
LEMMA LeftFor ==
    ASSUME NEW T \in Nat, NEW target, target = T * ClocksPerTstate, NEW N \in Nat,
           NEW f, Turns(f, target, N), f[0] \in Batches, CopperTyped(f[0].copper),
           NEW n \in 0..N, f[n].left, NEW m \in n..N
    PROVE  f[m] = f[n]
<1> DEFINE bad == {k \in n..N : f[k] # f[n]}
<1>1. SUFFICES ASSUME bad # {} PROVE FALSE
  OBVIOUS
<1>2. PICK k \in bad : \A j \in bad : k <= j
  <2>1. bad \in SUBSET Nat
    OBVIOUS
  <2> HIDE DEF bad
  <2> QED
    BY <1>1, <2>1, LeastNatural
<1>3. k # n
  OBVIOUS
<1>4. k \in 1..N /\ k - 1 \in n..N /\ k - 1 \in 0..N /\ ~(k <= k - 1)
  BY <1>3
<1>5. f[k - 1] = f[n]
  BY <1>2, <1>4
<1>6. f[k] = Turn(f[k - 1], target)
  BY <1>4 DEF Turns
<1>7. f[n] \in Batches
  BY TurnsTyped
<1>8. f[k] = f[n]
  BY <1>5, <1>6, <1>7, LeftStays
<1> QED
  BY <1>8

(* Within a frame, an instruction that is due at one time does at a later     *)
(* time what it does at that one.                                            *)
LEMMA SameTurn ==
    ASSUME NEW s \in Batches, CopperTyped(s.copper), NEW x \in Nat, NEW y \in Nat, x <= y,
           FrameOf(x) = FrameOf(y), ~s.copper.running \/ s.copper.clocks <= x
    PROVE  Turn(s, x) = Turn(s, y)
<1>1. s.copper.clocks \in Nat
  BY DEF CopperTyped, Coppers
<1>2. Behind(s.copper, x) <=> Behind(s.copper, y)
  BY DEF Behind
<1>3. (s.left \/ ~s.copper.running \/ s.copper.clocks > x)
        <=> (s.left \/ ~s.copper.running \/ s.copper.clocks > y)
  BY <1>1
<1> QED
  BY <1>2, <1>3, Zenon DEF Turn

(* Appending to a concatenation.                                             *)
LEMMA AppendAfter ==
    ASSUME NEW p \in Seq(Entries), NEW r \in Seq(Entries), NEW e \in Entries
    PROVE  Append(p \o r, e) = p \o Append(r, e)
<1>1. <<e>> \in Seq(Entries) /\ p \o r \in Seq(Entries)
  OBVIOUS
<1>2. Append(p \o r, e) = (p \o r) \o <<e>>
  BY <1>1, AppendIsConcat
<1>3. Append(r, e) = r \o <<e>>
  BY AppendIsConcat
<1> QED
  BY <1>1, <1>2, <1>3, ConcatAssociative

(* What ran before a turn makes no difference to it.                         *)
LEMMA TurnAfter ==
    ASSUME NEW trail \in Seq(Entries), NEW s \in Batches, CopperTyped(s.copper), NEW target
    PROVE  Turn(After(trail, s), target) = After(trail, Turn(s, target))
<1> DEFINE a == After(trail, s)
           c == s.copper
           i == Fetch(c)
<1>1. /\ a.copper = c /\ a.trail = trail \o s.trail /\ a.left = s.left
      /\ s.trail \in Seq(Entries)
  BY DEF After, Batches
<1>2. ASSUME NEW d, NEW l
      PROVE  [copper |-> d, trail |-> a.trail, left |-> l] =
               After(trail, [copper |-> d, trail |-> s.trail, left |-> l])
  BY DEF After
<1>4. ASSUME NEW clocks, NEW duration
      PROVE  Executed(a, clocks, duration) = After(trail, Executed(s, clocks, duration))
  <2> DEFINE e == Entry(c)
  <2>1. e \in Entries
    BY EntryOK
  <2> HIDE DEF e, a
  <2>2. Append(trail \o s.trail, e) = trail \o Append(s.trail, e)
    <3>1. s.trail \in Seq(Entries)
      BY <1>1
    <3> HIDE DEF c
    <3> QED
      BY <2>1, <3>1, AppendAfter
  <2>3. Executed(a, clocks, duration) =
          [copper |-> [c EXCEPT !.program_counter = (@ + 1) % InstructionCount,
                                !.clocks = clocks + duration],
           trail |-> trail \o Append(s.trail, e), left |-> ChangesMode(e)]
    BY <1>1, <2>2, Zenon DEF Executed, e
  <2>4. Executed(s, clocks, duration) =
          [copper |-> [c EXCEPT !.program_counter = (@ + 1) % InstructionCount,
                                !.clocks = clocks + duration],
           trail |-> Append(s.trail, e), left |-> ChangesMode(e)]
    BY Zenon DEF Executed, e
  <2> QED
    BY <2>3, <2>4 DEF After
<1> HIDE DEF a
<1>5. ASSUME NEW z, z = s \/ z = a
      PROVE  Turn(z, target) =
               IF s.left \/ ~c.running \/ c.clocks > target
                 THEN [copper |-> c, trail |-> z.trail, left |-> TRUE]
               ELSE IF Behind(c, target) THEN [copper |-> Restart(c), trail |-> z.trail, left |-> FALSE]
               ELSE IF c.stalled THEN [copper |-> c, trail |-> z.trail, left |-> TRUE]
               ELSE IF Stalls(i)
                 THEN [copper |-> [c EXCEPT !.stalled = TRUE], trail |-> z.trail, left |-> TRUE]
               ELSE IF i.op = "wait" /\ Crosses(c, i) THEN [copper |-> Restart(c), trail |-> z.trail, left |-> FALSE]
               ELSE IF i.op = "wait" THEN Executed(z, BeamClocks(c, i), 1)
               ELSE Executed(z, c.clocks, IF i.op = "noop" THEN 1 ELSE 2)
  <2>1. z.copper = c /\ z.left = s.left
    BY <1>1, <1>5
  <2> QED
    BY <2>1, Zenon DEF Turn
<1> HIDE DEF c, i
<1>6. CASE s.left \/ ~c.running \/ c.clocks > target
  BY <1>2, <1>5, <1>6 DEF a
<1>7. CASE ~(s.left \/ ~c.running \/ c.clocks > target)
  <2>1. CASE Behind(c, target)
    BY <1>2, <1>5, <1>7, <2>1 DEF a
  <2>2. CASE ~Behind(c, target) /\ c.stalled
    BY <1>2, <1>5, <1>7, <2>2 DEF a
  <2>3. CASE ~Behind(c, target) /\ ~c.stalled /\ Stalls(i)
    <3> DEFINE d == [c EXCEPT !.stalled = TRUE]
    <3>1. Turn(s, target) = [copper |-> d, trail |-> s.trail, left |-> TRUE]
      BY <1>5, <1>7, <2>3
    <3>2. Turn(a, target) = [copper |-> d, trail |-> a.trail, left |-> TRUE]
      BY <1>5, <1>7, <2>3
    <3> HIDE DEF d
    <3> QED
      BY <1>2, <3>1, <3>2 DEF a
  <2>4. CASE ~Behind(c, target) /\ ~c.stalled /\ ~Stalls(i) /\ i.op = "wait" /\ Crosses(c, i)
    <3>1. Turn(s, target) = [copper |-> Restart(c), trail |-> s.trail, left |-> FALSE]
      BY <1>5, <1>7, <2>4
    <3>2. Turn(a, target) = [copper |-> Restart(c), trail |-> a.trail, left |-> FALSE]
      BY <1>5, <1>7, <2>4
    <3> QED
      BY <1>2, <3>1, <3>2 DEF a
  <2>5. CASE ~Behind(c, target) /\ ~c.stalled /\ ~Stalls(i) /\ i.op = "wait" /\ ~Crosses(c, i)
    BY <1>4, <1>5, <1>7, <2>5 DEF a
  <2>6. CASE ~Behind(c, target) /\ ~c.stalled /\ ~Stalls(i) /\ i.op # "wait"
    BY <1>4, <1>5, <1>7, <2>6 DEF a
  <2> QED
    BY <2>1, <2>2, <2>3, <2>4, <2>5, <2>6
<1> QED
  BY <1>6, <1>7

(* Why a loop that no MOVE has left is at its end.                           *)
Idle(c, target) == ~c.running \/ (c.stalled /\ ~Behind(c, target))

Because(s, r, target) ==
    \/ r.copper = s.copper /\ r.trail = s.trail /\ s.copper.clocks > target
    \/ /\ r.trail = s.trail /\ Idle(r.copper, target)
       /\ ~s.copper.running \/ s.copper.clocks <= target
    \/ /\ r.trail = Append(s.trail, Entry(s.copper)) /\ ChangesMode(Entry(s.copper))
       /\ s.copper.clocks <= target

(* There are three reasons to leave it.                                      *)
LEMMA LeavesBecause ==
    ASSUME NEW s \in Batches, CopperTyped(s.copper), ~s.left, NEW T \in Nat,
           NEW target, target = T * ClocksPerTstate,
           Turn(s, target).left
    PROVE  Because(s, Turn(s, target), target)
<1> DEFINE c == s.copper
           i == Fetch(c)
           r == Turn(s, target)
<1>1. c \in Coppers /\ c.clocks \in Nat /\ target \in Nat
  <2>1. c \in Coppers
    BY DEF CopperTyped
  <2>2. c.clocks \in Nat
    BY <2>1 DEF Coppers
  <2>3. ClocksPerTstate \in Nat
    BY CopperNumbers
  <2> QED
    BY <2>1, <2>2, <2>3
<1>2. CASE ~c.running
  <2>1. r = [copper |-> c, trail |-> s.trail, left |-> TRUE]
    BY <1>2, Zenon DEF Turn
  <2> HIDE DEF r
  <2>2. r.copper = c /\ r.trail = s.trail
    BY <2>1, Leaving
  <2>3. Idle(r.copper, target)
    BY <1>2, <2>2 DEF Idle
  <2> QED
    BY <1>1, <1>2, <2>2, <2>3 DEF Because, r
<1>3. CASE c.running /\ c.clocks > target
  <2>1. r = [copper |-> c, trail |-> s.trail, left |-> TRUE]
    BY <1>3, Zenon DEF Turn
  <2> HIDE DEF r
  <2>2. r.copper = c /\ r.trail = s.trail
    BY <2>1, Leaving
  <2> QED
    BY <1>3, <2>2 DEF Because, r
<1>4. CASE c.running /\ c.clocks <= target
  <2>0. ~(s.left \/ ~c.running \/ c.clocks > target)
    BY <1>1, <1>4
  <2>1. CASE Behind(c, target)
    <3>1. r = [copper |-> Restart(c), trail |-> s.trail, left |-> FALSE]
      BY <2>0, <2>1, Zenon DEF Turn
    <3> HIDE DEF r
    <3>2. ~r.left
      BY <3>1, RestartOK, Staying
    <3> QED
      BY <3>2 DEF r
  <2>2. CASE ~Behind(c, target) /\ c.stalled
    <3>1. r = [copper |-> c, trail |-> s.trail, left |-> TRUE]
      BY <2>0, <2>2, Zenon DEF Turn
    <3> HIDE DEF r
    <3>2. r.copper = c /\ r.trail = s.trail
      BY <3>1, Leaving
    <3>3. Idle(r.copper, target)
      BY <2>2, <3>2 DEF Idle
    <3> QED
      BY <1>4, <3>2, <3>3 DEF Because, r
  <2>3. CASE ~Behind(c, target) /\ ~c.stalled /\ Stalls(i)
    <3>1. r = [copper |-> [c EXCEPT !.stalled = TRUE], trail |-> s.trail, left |-> TRUE]
      BY <2>0, <2>3, Zenon DEF Turn
    <3>2. CopperTyped([c EXCEPT !.stalled = TRUE])
      BY DEF CopperTyped, Coppers
    <3> HIDE DEF r
    <3>3. r.trail = s.trail /\ r.copper = [c EXCEPT !.stalled = TRUE]
      BY <3>1, <3>2, Leaving
    <3>4. Idle(r.copper, target)
      BY <1>1, <2>3, <3>3 DEF Idle, Behind, Coppers
    <3> QED
      BY <1>4, <3>3, <3>4 DEF Because, r
  <2>4. CASE ~Behind(c, target) /\ ~c.stalled /\ ~Stalls(i) /\ i.op = "wait" /\ Crosses(c, i)
    <3>1. r = [copper |-> Restart(c), trail |-> s.trail, left |-> FALSE]
      BY <2>0, <2>4, Zenon DEF Turn
    <3> HIDE DEF r
    <3>2. ~r.left
      BY <3>1, RestartOK, Staying
    <3> QED
      BY <3>2 DEF r
  <2>5. CASE ~Behind(c, target) /\ ~c.stalled /\ ~Stalls(i) /\ i.op = "wait" /\ ~Crosses(c, i)
    <3>1. r = Executed(s, BeamClocks(c, i), 1)
      BY <2>0, <2>5, Zenon DEF Turn
    <3> QED
      BY <1>4, <3>1 DEF Executed, Because
  <2>6. CASE ~Behind(c, target) /\ ~c.stalled /\ ~Stalls(i) /\ i.op # "wait"
    <3>1. r = Executed(s, c.clocks, IF i.op = "noop" THEN 1 ELSE 2)
      BY <2>0, <2>6, Zenon DEF Turn
    <3> QED
      BY <1>4, <3>1 DEF Executed, Because
  <2> QED
    BY <2>1, <2>2, <2>3, <2>4, <2>5, <2>6
<1> QED
  BY <1>1, <1>2, <1>3, <1>4

(* Where the loop ends: its turns come to a batch that it leaves.             *)
IsRun(f, N, c, target, r) ==
    N \in Nat /\ f[0] = Start(c) /\ Turns(f, target, N) /\ f[N] = r /\ r.left

Ends(c, target, r) == \E f, N : IsRun(f, N, c, target, r)

(* The batch that a loop begins with.                                        *)
LEMMA StartOK ==
    ASSUME NEW c, CopperTyped(c)
    PROVE  /\ Start(c) \in Batches /\ Start(c).copper = c
           /\ Start(c).trail = <<>> /\ ~Start(c).left
<1>1. c \in Coppers
  BY DEF CopperTyped
<1> QED
  BY <1>1 DEF Start, Batches

(* Run is where the loop ends,                                               *)
LEMMA RunEnds ==
    ASSUME NEW c, CopperTyped(c), NEW T \in Nat, NEW target, target = T * ClocksPerTstate
    PROVE  Ends(c, target, Run(c, target)) /\ Run(c, target) \in Batches
           /\ CopperTyped(Run(c, target).copper)
<1> DEFINE N == MostTurns(c, target)
           r == Run(c, target)
<1>1. N \in Nat
  <2>1. c.clocks \in Nat /\ target \in Nat
    BY CopperNumbers DEF CopperTyped, Coppers
  <2> QED
    BY <2>1 DEF MostTurns
<1>2. PICK f : /\ f[0] = [copper |-> c, trail |-> <<>>, left |-> FALSE]
               /\ \A n \in 1..N : f[n] = Turn(f[n - 1], target)
               /\ Run(c, target) = f[N]
  BY <1>1, RunTurns
<1>3. Run(c, target).left /\ Run(c, target) \in Batches /\ CopperTyped(Run(c, target).copper)
  <2>1. <<>> \in Seq(Entries) /\ Ordered(<<>>)
    BY DEF Ordered
  <2>2. Looping(Run(c, target), <<>>, c, target) /\ Run(c, target).left
    BY <2>1, RunOK
  <2> QED
    BY <2>2 DEF Looping, Continues
<1> HIDE DEF N, r
<1>4. IsRun(f, N, c, target, r)
  BY <1>1, <1>2, <1>3, Zenon DEF IsRun, Start, Turns, N, r
<1> QED
  BY <1>3, <1>4, Zenon DEF Ends, r

(* Turns are determined by the first,                                        *)
LEMMA SameTurns ==
    ASSUME NEW target, NEW N \in Nat, NEW f, NEW g, f[0] = g[0],
           Turns(f, target, N), Turns(g, target, N), NEW n \in 0..N
    PROVE  f[n] = g[n]
<1> DEFINE bad == {m \in 0..N : f[m] # g[m]}
<1>1. SUFFICES ASSUME bad # {} PROVE FALSE
  OBVIOUS
<1>2. PICK m \in bad : \A k \in bad : m <= k
  <2>1. bad \in SUBSET Nat
    OBVIOUS
  <2> HIDE DEF bad
  <2> QED
    BY <1>1, <2>1, LeastNatural
<1>3. m # 0
  OBVIOUS
<1>4. m \in 1..N /\ m - 1 \in 0..N /\ ~(m <= m - 1)
  BY <1>3
<1>5. f[m - 1] = g[m - 1]
  BY <1>2, <1>4
<1>6. f[m] = Turn(f[m - 1], target) /\ g[m] = Turn(g[m - 1], target)
  BY <1>4 DEF Turns
<1> QED
  BY <1>5, <1>6

(* and so the loop has one end.                                              *)
LEMMA OneEnd ==
    ASSUME NEW c, CopperTyped(c), NEW T \in Nat, NEW target, target = T * ClocksPerTstate,
           NEW r, NEW s, Ends(c, target, r), Ends(c, target, s)
    PROVE  r = s
<1>1. ASSUME NEW f, NEW g, NEW N, NEW M, NEW a, NEW b, N <= M,
             IsRun(f, N, c, target, a), IsRun(g, M, c, target, b)
      PROVE  a = b
  <2>1. N \in Nat /\ M \in Nat /\ N \in 0..N /\ N \in 0..M /\ M \in N..M
    BY <1>1 DEF IsRun
  <2>2. Turns(g, target, N)
    BY <1>1, <2>1 DEF IsRun, Turns
  <2>3. f[N] = g[N]
    BY <1>1, <2>1, <2>2, SameTurns DEF IsRun
  <2>4. g[0] \in Batches /\ CopperTyped(g[0].copper)
    BY <1>1, StartOK DEF IsRun
  <2>5. g[N].left /\ Turns(g, target, M)
    BY <1>1, <2>3 DEF IsRun
  <2>6. g[M] = g[N]
    BY <2>1, <2>4, <2>5, LeftFor
  <2> QED
    BY <1>1, <2>3, <2>6 DEF IsRun
<1>2. PICK f, N : IsRun(f, N, c, target, r)
  BY Zenon DEF Ends
<1>3. PICK g, M : IsRun(g, M, c, target, s)
  BY Zenon DEF Ends
<1>4. N \in Nat /\ M \in Nat
  BY <1>2, <1>3 DEF IsRun
<1>5. N <= M \/ M <= N
  BY <1>4
<1> QED
  BY <1>1, <1>2, <1>3, <1>5

(* The turn that the loop is left in, and the ones before it.                 *)
LEMMA LastTurn ==
    ASSUME NEW c, CopperTyped(c), NEW T \in Nat, NEW target, target = T * ClocksPerTstate
    PROVE  \E f, n : /\ n \in Nat \ {0} /\ f[0] = Start(c) /\ Turns(f, target, n)
                     /\ \A k \in 0..(n - 1) : ~f[k].left
                     /\ f[n] = Run(c, target) /\ f[n].left
<1>1. PICK f, N : IsRun(f, N, c, target, Run(c, target))
  BY RunEnds DEF Ends
<1> DEFINE ended == {m \in 0..N : f[m].left}
<1>2. N \in Nat /\ ended \in SUBSET Nat /\ ended # {} /\ f[0] = Start(c)
      /\ Turns(f, target, N) /\ f[N] = Run(c, target)
  BY <1>1 DEF IsRun
<1>3. PICK n \in ended : \A k \in ended : n <= k
  <2> HIDE DEF ended
  <2> QED
    BY <1>2, LeastNatural
<1>4. n \in 0..N /\ f[n].left /\ N \in n..N
  BY <1>2, <1>3
<1>5. n # 0
  BY <1>2, <1>4, StartOK
<1>6. \A k \in 0..(n - 1) : ~f[k].left
  BY <1>3, <1>4, <1>2
<1>7. f[0] \in Batches /\ CopperTyped(f[0].copper)
  BY <1>2, StartOK
<1>8. f[n] = Run(c, target)
  BY <1>2, <1>4, <1>7, LeftFor
<1>9. Turns(f, target, n)
  BY <1>2, <1>4 DEF Turns
<1> QED
  BY <1>2, <1>4, <1>5, <1>6, <1>8, <1>9

(* What a later end of the batch makes of the turns before the last.          *)
LEMMA LongerTurns ==
    ASSUME NEW c, CopperTyped(c), NEW T \in Nat, NEW x, x = T * ClocksPerTstate,
           NEW y \in Nat, x <= y, FrameOf(x) = FrameOf(y),
           NEW n \in Nat \ {0}, NEW f, f[0] = Start(c), Turns(f, x, n),
           \A k \in 0..(n - 1) : ~f[k].left
    PROVE  Turns(f, y, n - 1)
<1>1. ASSUME NEW k \in 1..(n - 1)
      PROVE  f[k] = Turn(f[k - 1], y)
  <2>1. k \in 1..n /\ k - 1 \in 0..n /\ k \in 0..(n - 1) /\ x \in Nat
    BY <1>1, CopperNumbers
  <2>2. f[k - 1] \in Batches /\ CopperTyped(f[k - 1].copper)
    BY <2>1, StartOK, TurnsTyped
  <2>3. f[k] = Turn(f[k - 1], x) /\ ~f[k].left
    BY <2>1 DEF Turns
  <2> DEFINE s == f[k - 1]
  <2>4. ~s.copper.running \/ s.copper.clocks <= x
    <3>0. s.copper.clocks \in Nat
      BY <2>2 DEF CopperTyped, Coppers
    <3> SUFFICES ASSUME s.copper.clocks > x PROVE FALSE
      BY <2>1, <3>0
    <3>1. Turn(s, x) = [copper |-> s.copper, trail |-> s.trail, left |-> TRUE]
      BY Zenon DEF Turn
    <3> HIDE DEF s
    <3> DEFINE r == Turn(s, x)
    <3>2. r = [copper |-> s.copper, trail |-> s.trail, left |-> TRUE]
      BY <3>1
    <3> HIDE DEF r
    <3>3. r.left
      BY <2>2, <3>2, Leaving DEF s
    <3> QED
      BY <2>3, <3>3 DEF r, s
  <2>5. Turn(s, x) = Turn(s, y)
    BY <2>1, <2>2, <2>4, SameTurn
  <2> QED
    BY <2>3, <2>5
<1> QED
  BY <1>1 DEF Turns

(* The first batch ends before an instruction that is not due yet: the second *)
(* one takes its turns.                                                      *)
LEMMA TurnsJoin ==
    ASSUME NEW c, CopperTyped(c), NEW T \in Nat, NEW y, y = T * ClocksPerTstate,
           NEW n \in Nat, NEW f, f[0] = Start(c), Turns(f, y, n), ~f[n].left,
           NEW r, Ends(f[n].copper, y, r)
    PROVE  Ends(c, y, After(f[n].trail, r))
<1> DEFINE s == f[n]
<1>1. s \in Batches /\ CopperTyped(s.copper) /\ s.trail \in Seq(Entries) /\ ~s.left
  <2>1. n \in 0..n
    OBVIOUS
  <2>2. s \in Batches /\ CopperTyped(s.copper)
    BY <2>1, StartOK, TurnsTyped
  <2> QED
    BY <2>2 DEF Batches
<1>2. PICK h, M : IsRun(h, M, s.copper, y, r)
  BY DEF Ends
<1>3. M \in Nat /\ h[0] = Start(s.copper) /\ Turns(h, y, M) /\ h[M] = r /\ r.left
  BY <1>2 DEF IsRun
<1>4. After(s.trail, h[0]) = s
  <2>1. s.trail \o <<>> = s.trail
    BY <1>1
  <2>2. h[0].copper = s.copper /\ h[0].trail = <<>> /\ h[0].left = FALSE
    BY <1>3 DEF Start
  <2>3. After(s.trail, h[0]) = [copper |-> s.copper, trail |-> s.trail, left |-> FALSE]
    BY <2>1, <2>2 DEF After
  <2> HIDE DEF s
  <2>4. s = [copper |-> s.copper, trail |-> s.trail, left |-> FALSE]
    BY <1>1 DEF Batches
  <2> QED
    BY <2>3, <2>4
<1> DEFINE g == [k \in 0..(n + M) |-> IF k <= n THEN f[k] ELSE After(s.trail, h[k - n])]
<1>5. ASSUME NEW k \in n..(n + M)
      PROVE  g[k] = After(s.trail, h[k - n])
  <2>1. CASE k = n
    <3>1. k - n = 0 /\ k \in 0..(n + M) /\ k <= n
      BY <1>3, <2>1
    <3> HIDE DEF s
    <3> QED
      BY <1>4, <2>1, <3>1 DEF s
  <2>2. CASE k # n
    <3>1. k \in 0..(n + M) /\ ~(k <= n)
      BY <1>3, <2>2
    <3> QED
      BY <3>1
  <2> QED
    BY <2>1, <2>2
<1>6. ASSUME NEW k \in 1..(n + M)
      PROVE  g[k] = Turn(g[k - 1], y)
  <2>1. CASE k <= n
    <3>1. k \in 1..n /\ k \in 0..(n + M) /\ k - 1 \in 0..(n + M) /\ k - 1 <= n
      BY <1>3, <2>1
    <3>2. f[k] = Turn(f[k - 1], y)
      BY <3>1 DEF Turns
    <3> QED
      BY <2>1, <3>1, <3>2
  <2>2. CASE k > n
    <3>1. /\ k \in n..(n + M) /\ k - 1 \in n..(n + M)
          /\ k - n \in 1..M /\ (k - 1) - n = (k - n) - 1 /\ (k - n) - 1 \in 0..M
      BY <1>3, <2>2
    <3> DEFINE j == k - n
    <3>2. g[k] = After(s.trail, h[j]) /\ g[k - 1] = After(s.trail, h[j - 1])
      BY <1>5, <3>1
    <3>3. h[j] = Turn(h[j - 1], y)
      BY <1>3, <3>1 DEF Turns
    <3>4. h[j - 1] \in Batches /\ CopperTyped(h[j - 1].copper)
      BY <1>1, <1>3, <3>1, StartOK, TurnsTyped
    <3> HIDE DEF g, j, s
    <3>5. Turn(After(s.trail, h[j - 1]), y) = After(s.trail, Turn(h[j - 1], y))
      BY <1>1, <3>4, TurnAfter
    <3> QED
      BY <3>2, <3>3, <3>5
  <2> QED
    BY <1>3, <2>1, <2>2
<1>7. g[0] = Start(c)
  BY <1>3
<1>8. g[n + M] = After(s.trail, r)
  <2>1. n + M \in n..(n + M) /\ (n + M) - n = M
    BY <1>3
  <2> HIDE DEF g, s
  <2> QED
    BY <1>3, <1>5, <2>1
<1>9. After(s.trail, r).left
  BY <1>3 DEF After
<1>10. n + M \in Nat
  BY <1>3
<1> HIDE DEF g, s
<1>11. IsRun(g, n + M, c, y, After(s.trail, r))
  BY <1>6, <1>7, <1>8, <1>9, <1>10 DEF IsRun, Turns
<1> QED
  BY <1>11 DEF Ends, s

(* A Copper that is not to run ends a batch at once.                         *)
LEMMA IdleEnds ==
    ASSUME NEW d, CopperTyped(d), NEW y \in Nat,
           ~d.running \/ (d.stalled /\ ~Behind(d, y))
    PROVE  Ends(d, y, [copper |-> d, trail |-> <<>>, left |-> TRUE])
<1> DEFINE r == [copper |-> d, trail |-> <<>>, left |-> TRUE]
           f == [n \in 0..1 |-> IF n = 0 THEN Start(d) ELSE r]
<1>1. Start(d).copper = d /\ Start(d).trail = <<>>
  BY StartOK
<1>2. Turn(Start(d), y) = [copper |-> Start(d).copper, trail |-> Start(d).trail, left |-> TRUE]
  <2>1. ~d.running \/ Start(d).left \/ d.clocks > y \/ (~Behind(d, y) /\ d.stalled)
    OBVIOUS
  <2> HIDE DEF r
  <2> QED
    BY <1>1, <2>1, Zenon DEF Turn
<1>3. Turn(Start(d), y) = r
  BY <1>1, <1>2
<1>4. f[0] = Start(d) /\ f[1] = r /\ r.left
  OBVIOUS
<1> HIDE DEF r, f
<1>5. \A n \in 1..1 : f[n] = Turn(f[n - 1], y)
  BY <1>3, <1>4
<1>6. IsRun(f, 1, d, y, r)
  BY <1>4, <1>5 DEF IsRun, Turns
<1> QED
  BY <1>6 DEF Ends, r

(* Two batches for one.                                                      *)
Reprograms(i) == i.op = "move" /\ i.register \notin {"none", "video"}

Split(c, t, end) ==
    LET one == AdvanceCopper(c, end)
    IN  \/ \E k \in DOMAIN one.trail : Reprograms(one.trail[k].instruction)
        \/ LET first == AdvanceCopper(c, t)
               second == AdvanceCopper(first.copper, end)
           IN  /\ second.copper = one.copper
               /\ first.trail \o second.trail = one.trail

(* The clock that a batch leaves.                                            *)
Waited(d, target) == [d EXCEPT !.clocks = IF @ < target THEN target ELSE @]

(* advance is Run, and then waits for the target.                            *)
LEMMA AdvanceIs ==
    ASSUME NEW c, CopperTyped(c), NEW T \in Nat, NEW target, target = T * ClocksPerTstate
    PROVE  /\ AdvanceCopper(c, T).copper = Waited(Run(c, target).copper, target)
           /\ AdvanceCopper(c, T).trail = Run(c, target).trail
<1> DEFINE r == Run(c, target)
<1>1. r \in Batches
  BY RunEnds
<1>2. AdvanceCopper(c, T) = [r EXCEPT !.copper.clocks = IF @ < target THEN target ELSE @]
  BY Zenon DEF AdvanceCopper
<1> HIDE DEF r
<1> QED
  BY <1>1, <1>2 DEF Batches, Waited, r

(* Waiting, once and again.                                                  *)
LEMMA WaitedOK ==
    ASSUME NEW d, CopperTyped(d), NEW target \in Nat
    PROVE  /\ CopperTyped(Waited(d, target))
           /\ Waited(d, target).clocks = IF d.clocks < target THEN target ELSE d.clocks
           /\ Waited(d, target).running = d.running /\ Waited(d, target).mode = d.mode
           /\ Waited(d, target).stalled = d.stalled
           /\ \A x \in Nat : target <= x => Waited(Waited(d, target), x) = Waited(d, x)
<1>1. d \in Coppers /\ d.clocks \in Nat
  BY DEF CopperTyped, Coppers
<1>2. CopperTyped(Waited(d, target))
  BY <1>1 DEF CopperTyped, Coppers, Waited
<1>3. ASSUME NEW x \in Nat, target <= x
      PROVE  Waited(Waited(d, target), x) = Waited(d, x)
  <2> DEFINE n == IF d.clocks < target THEN target ELSE d.clocks
             m == IF n < x THEN x ELSE n
             e == Waited(d, target)
  <2>1. n \in Nat /\ m \in Nat /\ m = (IF d.clocks < x THEN x ELSE d.clocks)
    BY <1>1, <1>3
  <2>2. e = [d EXCEPT !.clocks = n] /\ Waited(d, x) = [d EXCEPT !.clocks = m]
    BY <2>1, Zenon DEF Waited
  <2>3. e.clocks = n
    BY <1>1, <2>2 DEF Coppers
  <2>4. Waited(e, x) = [e EXCEPT !.clocks = m]
    BY <2>3, Zenon DEF Waited
  <2> HIDE DEF n, m, e
  <2>5. [e EXCEPT !.clocks = m] = [d EXCEPT !.clocks = m]
    BY <1>1, <2>1, <2>2 DEF Coppers
  <2> QED
    BY <2>2, <2>4, <2>5 DEF e
<1> QED
  BY <1>1, <1>2, <1>3 DEF Waited, Coppers

(* A batch after what ran before it.                                         *)
LEMMA AfterIs ==
    ASSUME NEW trail, NEW z, NEW r, r = After(trail, z)
    PROVE  r.copper = z.copper /\ r.trail = trail \o z.trail
  BY DEF After

(* Two batches that end in the same frame do what one does.                  *)
LEMMA SplitOK ==
    ASSUME NEW c, CopperTyped(c), NEW t \in Nat, NEW end \in Nat, t <= end,
           FrameOf(t * ClocksPerTstate) = FrameOf(end * ClocksPerTstate)
    PROVE  Split(c, t, end)
<1> DEFINE x == t * ClocksPerTstate
           y == end * ClocksPerTstate
           one == AdvanceCopper(c, end)
           first == AdvanceCopper(c, t)
           second == AdvanceCopper(first.copper, end)
<1>1. x \in Nat /\ y \in Nat /\ x <= y /\ FrameOf(x) = FrameOf(y)
  BY CopperNumbers, Times
<1> HIDE DEF x, y
<1>2. x = t * ClocksPerTstate /\ y = end * ClocksPerTstate
  BY DEF x, y
<1>3. PICK f, n : /\ n \in Nat \ {0} /\ f[0] = Start(c) /\ Turns(f, x, n)
                  /\ \A k \in 0..(n - 1) : ~f[k].left
                  /\ f[n] = Run(c, x) /\ f[n].left
  BY <1>2, LastTurn
<1> DEFINE s == f[n - 1]
           r == f[n]
<1>4. /\ n - 1 \in Nat /\ n - 1 \in 0..n /\ n - 1 \in 0..(n - 1) /\ n \in 0..n /\ n \in 1..n
  BY <1>3
<1>5. s \in Batches /\ CopperTyped(s.copper) /\ r \in Batches /\ CopperTyped(r.copper)
  BY <1>2, <1>3, <1>4, StartOK, TurnsTyped
<1>6. ~s.left /\ r = Turn(s, x) /\ r.left /\ Turns(f, y, n - 1)
  <2>1. ~s.left /\ r = Turn(s, x) /\ r.left
    BY <1>3, <1>4 DEF Turns
  <2>2. Turns(f, y, n - 1)
    BY <1>1, <1>2, <1>3, LongerTurns
  <2> QED
    BY <2>1, <2>2
<1>7. Because(s, r, x)
  BY <1>2, <1>5, <1>6, LeavesBecause
<1>8. /\ one.copper = Waited(Run(c, y).copper, y) /\ one.trail = Run(c, y).trail
      /\ first.copper = Waited(r.copper, x) /\ first.trail = r.trail
  BY <1>2, <1>3, AdvanceIs
<1> HIDE DEF r, s
<1>9. CopperTyped(first.copper)
  BY <1>1, <1>5, <1>8, WaitedOK
<1> HIDE DEF first
<1>10. /\ second.copper = Waited(Run(first.copper, y).copper, y)
       /\ second.trail = Run(first.copper, y).trail
  BY <1>2, <1>9, AdvanceIs
<1> HIDE DEF one, second
<1>11. SUFFICES \/ \E k \in DOMAIN one.trail : Reprograms(one.trail[k].instruction)
                \/ second.copper = one.copper /\ first.trail \o second.trail = one.trail
  BY DEF Split, one, first, second
<1>12. Ends(c, y, Run(c, y))
  BY <1>2, RunEnds
<1>13. CASE r.copper = s.copper /\ r.trail = s.trail /\ s.copper.clocks > x
  <2>1. Ends(s.copper, y, Run(s.copper, y))
    BY <1>2, <1>5, RunEnds
  <2>2. Ends(c, y, After(s.trail, Run(s.copper, y)))
    BY <1>2, <1>3, <1>4, <1>6, <2>1, TurnsJoin DEF s
  <2>3. Run(c, y) = After(s.trail, Run(s.copper, y))
    BY <1>2, <1>12, <2>2, OneEnd
  <2>4. first.copper = s.copper
    <3>1. s.copper \in Coppers /\ s.copper.clocks \in Nat
      BY <1>5 DEF CopperTyped, Coppers
    <3> QED
      BY <1>1, <1>8, <1>13, <3>1 DEF Waited, Coppers
  <2> QED
    <3>1. /\ Run(c, y).copper = Run(s.copper, y).copper
          /\ Run(c, y).trail = s.trail \o Run(s.copper, y).trail
      BY <2>3, AfterIs
    <3> QED
      BY <1>8, <1>10, <1>13, <2>4, <3>1
<1>14. ASSUME ~s.copper.running \/ s.copper.clocks <= x
       PROVE  Run(c, y) = r
  <2>1. Turn(s, y) = r
    BY <1>1, <1>5, <1>6, <1>14, SameTurn
  <2>2. ASSUME NEW k \in 1..n
        PROVE  f[k] = Turn(f[k - 1], y)
    <3>1. CASE k = n
      BY <2>1, <3>1 DEF r, s
    <3>2. CASE k # n
      <4>1. k \in 1..(n - 1)
        BY <1>3, <3>2
      <4> QED
        BY <1>6, <4>1 DEF Turns
    <3> QED
      BY <3>1, <3>2
  <2>3. IsRun(f, n, c, y, r)
    BY <1>3, <1>6, <2>2 DEF IsRun, Turns, r
  <2>4. Ends(c, y, r)
    BY <2>3 DEF Ends
  <2> QED
    BY <1>2, <1>12, <2>4, OneEnd
<1>15. CASE /\ r.trail = s.trail /\ Idle(r.copper, x)
            /\ ~s.copper.running \/ s.copper.clocks <= x
  <2> DEFINE d == first.copper
             e == [copper |-> d, trail |-> <<>>, left |-> TRUE]
  <2>1. one.copper = Waited(r.copper, y) /\ one.trail = r.trail
    BY <1>8, <1>14, <1>15
  <2>2. r.copper.clocks \in Nat
    BY <1>5 DEF CopperTyped, Coppers
  <2>3. /\ d.clocks \in Nat /\ d.clocks >= x
        /\ d.running = r.copper.running /\ d.mode = r.copper.mode
        /\ d.stalled = r.copper.stalled
        /\ Waited(d, y) = Waited(r.copper, y)
    <3>1. d = Waited(r.copper, x)
      BY <1>8
    <3> HIDE DEF d
    <3>2. /\ d.clocks = IF r.copper.clocks < x THEN x ELSE r.copper.clocks
          /\ d.running = r.copper.running /\ d.mode = r.copper.mode
          /\ d.stalled = r.copper.stalled
      BY <1>1, <1>5, <3>1, WaitedOK
    <3>3. Waited(d, y) = Waited(r.copper, y)
      BY <1>1, <1>5, <3>1, WaitedOK
    <3> QED
      BY <1>1, <2>2, <3>2, <3>3 DEF d
  <2>4. ~(FrameOf(d.clocks) < FrameOf(y))
    <3>1. FrameOf(x) <= FrameOf(d.clocks) /\ FrameOf(d.clocks) \in Nat /\ FrameOf(x) \in Nat
      BY <1>1, <2>3, FramesGrow, FrameBounds
    <3> QED
      BY <1>1, <3>1
  <2>5. ~d.running \/ (d.stalled /\ ~Behind(d, y))
    BY <1>15, <2>3, <2>4 DEF Idle, Behind
  <2>6. Ends(d, y, e)
    BY <1>1, <1>9, <2>5, IdleEnds
  <2>7. Run(d, y) = e
    <3>1. Ends(d, y, Run(d, y))
      BY <1>2, <1>9, RunEnds
    <3> HIDE DEF e
    <3> QED
      BY <1>2, <1>9, <2>6, <3>1, OneEnd
  <2>8. second.copper = Waited(d, y) /\ second.trail = <<>>
    BY <1>10, <2>7
  <2>9. r.trail \o <<>> = r.trail
    BY <1>5 DEF Batches
  <2> QED
    BY <1>8, <2>1, <2>3, <2>8, <2>9
<1>16. CASE /\ r.trail = Append(s.trail, Entry(s.copper)) /\ ChangesMode(Entry(s.copper))
            /\ s.copper.clocks <= x
  <2> DEFINE e == Entry(s.copper)
             k == Len(s.trail) + 1
  <2>1. one.trail = Append(s.trail, e)
    BY <1>8, <1>14, <1>16
  <2>2. s.trail \in Seq(Entries) /\ e \in Entries
    BY <1>5, EntryOK DEF Batches
  <2> HIDE DEF e
  <2>3. k \in DOMAIN one.trail /\ one.trail[k] = e
    BY <2>1, <2>2
  <2>4. Reprograms(e.instruction)
    BY <1>16 DEF ChangesMode, Reprograms, e
  <2> QED
    BY <2>3, <2>4
<1> QED
  BY <1>7, <1>13, <1>15, <1>16 DEF Because

(* A time and the clock of its beginning are in the same frame.               *)
LEMMA FrameAt ==
    ASSUME NEW t \in Nat, NEW q \in Nat, q * FrameTstates <= t, t < (q + 1) * FrameTstates
    PROVE  FrameOf(t * ClocksPerTstate) = q
<1> DEFINE a == q * FrameTstates
           b == (q + 1) * FrameTstates
<1>1. a \in Nat /\ b \in Nat /\ a <= t /\ t < b
  BY CopperNumbers
<1>2. a * ClocksPerTstate = q * FrameClocks /\ b * ClocksPerTstate = (q + 1) * FrameClocks
  <2>1. FrameTstates \in Nat /\ ClocksPerTstate \in Nat /\ q + 1 \in Nat
    BY CopperNumbers
  <2>2. \A x, y, z \in Nat : (x * y) * z = x * (y * z)
    OBVIOUS
  <2> QED
    BY <2>1, <2>2 DEF FrameClocks
<1> HIDE DEF a, b
<1>3. t * ClocksPerTstate \in Nat
      /\ a * ClocksPerTstate <= t * ClocksPerTstate /\ t * ClocksPerTstate < b * ClocksPerTstate
  BY <1>1, Times, CopperNumbers
<1> QED
  BY <1>2, <1>3, FrameIs

(* For every list, size of frame and program of the guest: within a frame it *)
(* makes no difference where the batches of advance end, unless the list     *)
(* reprograms the Copper (BatchesDoNotMatter).                               *)
THEOREM BatchesAgree == CopperSpec => []BatchesDoNotMatter
<1>1. ASSUME CopperHolds
      PROVE  BatchesDoNotMatter
  <2> DEFINE end == CopperTime(copper_t, copper_t + FrameTstates)
             one == AdvanceCopper(copper, end)
             q == copper_t \div FrameTstates
  <2>1. CopperTyped(copper) /\ copper_t \in Nat
    BY <1>1 DEF CopperHolds, CopperTypeOK
  <2>2. InFrame(copper_t, copper_t + FrameTstates, end, q)
    BY <2>1, CopperNumbers, TimeOK
  <2>3. q \in Nat /\ q * FrameTstates <= copper_t
    BY <2>1, CopperNumbers, Quotient
  <2> HIDE DEF end, q
  <2>4. end \in Nat /\ end < (q + 1) * FrameTstates /\ copper_t <= end
        /\ (q + 1) * FrameTstates \in Nat /\ q * FrameTstates \in Nat
    BY <2>2, <2>3, CopperNumbers DEF InFrame
  <2>5. ASSUME NEW t \in copper_t..end
        PROVE  Split(copper, t, end)
    <3>1. t \in Nat /\ t <= end /\ q * FrameTstates <= t /\ t < (q + 1) * FrameTstates
          /\ q * FrameTstates <= end
      BY <2>1, <2>3, <2>4
    <3>2. FrameOf(t * ClocksPerTstate) = q /\ FrameOf(end * ClocksPerTstate) = q
      BY <2>3, <2>4, <3>1, FrameAt
    <3> QED
      BY <2>1, <2>4, <3>1, <3>2, SplitOK
  <2>6. CASE \E k \in DOMAIN one.trail : Reprograms(one.trail[k].instruction)
    BY <2>6, Zenon DEF BatchesDoNotMatter, Reprograms, end
  <2>7. CASE ~ \E k \in DOMAIN one.trail : Reprograms(one.trail[k].instruction)
    <3>1. ASSUME NEW t \in copper_t..end
          PROVE  LET first == AdvanceCopper(copper, t)
                     second == AdvanceCopper(first.copper, end)
                 IN  /\ second.copper = one.copper
                     /\ first.trail \o second.trail = one.trail
      BY <2>5, <2>7, Zenon DEF Split
    <3> QED
      BY <3>1, Zenon DEF BatchesDoNotMatter, end
  <2> QED
    BY <2>6, <2>7
<1> QED
  BY <1>1, CopperAlways, PTL

=============================================================================
