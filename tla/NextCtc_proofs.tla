--------------------------- MODULE NextCtc_proofs ---------------------------
(***************************************************************************)
(* Proofs about the CTC for any number of channels, any prescales and any   *)
(* time constants: its types and countdown bounds, the coherence of a       *)
(* channel, the pollable requests and the nesting of interrupt service; and *)
(* that the cascade of a tick is what the code's queue reaches.             *)
(***************************************************************************)
EXTENDS MCNextBoard, SequenceTheorems, FiniteSetTheorems, WellFoundedInduction, TLAPS

(* A channel between two turns of the clock. *)
Sound(ch) == ch \in Channel /\ ch.prescaler_left > 0 /\ ChannelCoherent(ch)

-----------------------------------------------------------------------------
(* What the operations on one channel preserve. *)

(* The counter after zero is a time constant again, and the only new request *)
(* comes from an overflow.                                                   *)
LEMMA DecrementSound ==
    ASSUME NEW ch, Sound(ch)
    PROVE  /\ Sound(Decrement(ch))
           /\ Decrement(ch).in_service = ch.in_service
           /\ Decrement(ch).pending => ch.pending \/ Overflows(ch)
           /\ ch.pending => Decrement(ch).pending
<1>0. ch \in Channel /\ ch.prescaler_left > 0 /\ ChannelCoherent(ch)
  BY DEF Sound
<1>1. CASE Overflows(ch)
  <2> DEFINE new == ReloadConstant(ch)
             request == ch.pending \/ ch.interrupt
             next == [ch EXCEPT !.time_constant = new, !.counter = new,
                                !.pending_constant = None,
                                !.prescaler_left = ch.prescaler, !.pending = request]
  <2>1. new \in 1 .. FullConstant
    BY <1>0, <1>1, CtcAssumption DEF ReloadConstant, ChannelCoherent, Channel, Overflows, Armed, None
  <2>2. Decrement(ch) = Reload(ch) /\ Reload(ch) = next
    <3>1. Decrement(ch) = Reload(ch)
      BY <1>1 DEF Decrement, Overflows
    <3>2. Reload(ch) = next
      BY Zenon DEF Reload
    <3> QED
      BY <3>1, <3>2
  <2>3. request \in BOOLEAN /\ (ch.pending => request)
    OBVIOUS
  <2>4. /\ ch.prescaler \in 0 .. LongPrescale /\ ch.prescaler > 0
        /\ new \in 0 .. FullConstant /\ None \in 0 .. FullConstant
    BY <1>0, <2>1, CtcAssumption DEF Channel, None
  <2> HIDE DEF new, request
  <2>5. next \in Channel
    BY <1>0, <2>3, <2>4 DEF Channel
  <2>6. /\ next.counter = new /\ next.time_constant = new /\ next.prescaler_left = ch.prescaler
        /\ next.pending_constant = None
        /\ next.in_service = ch.in_service /\ next.pending = request
        /\ next.configured = ch.configured /\ next.hard_reset = ch.hard_reset
    BY <1>0 DEF Channel
  <2> HIDE DEF next
  <2>7. ch.configured /\ ~ch.hard_reset
    BY <1>1 DEF Overflows, Armed
  <2>8. ChannelCoherent(next) /\ next.prescaler_left > 0
    BY <2>1, <2>4, <2>6, <2>7 DEF ChannelCoherent
  <2> QED
    BY <1>1, <2>2, <2>3, <2>5, <2>6, <2>8 DEF Sound
<1>2. CASE ~Overflows(ch) /\ Armed(ch) /\ ch.counter > 1
  <2> DEFINE next == [ch EXCEPT !.counter = @ - 1]
  <2>1. Decrement(ch) = next
    BY <1>2 DEF Decrement
  <2>2. next \in Channel
    BY <1>0, <1>2, CtcAssumption DEF Channel
  <2>3. /\ next.counter = ch.counter - 1 /\ next.time_constant = ch.time_constant
        /\ next.prescaler_left = ch.prescaler_left
        /\ next.pending_constant = ch.pending_constant /\ next.configured = ch.configured
        /\ next.hard_reset = ch.hard_reset /\ next.running = ch.running
        /\ next.pending = ch.pending /\ next.in_service = ch.in_service
    BY <1>0 DEF Channel
  <2>4. ch.counter \in Nat /\ ch.time_constant \in Nat
    BY <1>0, CtcAssumption DEF Channel
  <2> HIDE DEF next
  <2> QED
    BY <1>0, <1>2, <2>1, <2>2, <2>3, <2>4 DEF Sound, ChannelCoherent, Armed
<1>3. CASE ~Overflows(ch) /\ ~(Armed(ch) /\ ch.counter > 1)
  <2>1. Decrement(ch) = ch
    BY <1>3 DEF Decrement
  <2> QED
    BY <1>0, <2>1 DEF Sound
<1> QED
  BY <1>1, <1>2, <1>3

LEMMA TriggerSound ==
    ASSUME NEW ch, Sound(ch)
    PROVE  /\ Sound(Trigger(ch))
           /\ Trigger(ch).in_service = ch.in_service
           /\ Trigger(ch).pending => ch.pending \/ Carries(ch)
           /\ ch.pending => Trigger(ch).pending
<1>0. ch \in Channel /\ ch.prescaler_left > 0 /\ ChannelCoherent(ch)
  BY DEF Sound
<1>1. CASE Armed(ch) /\ ch.counting
  <2>1. Trigger(ch) = Decrement(ch)
    BY <1>1 DEF Trigger
  <2> QED
    BY <1>1, <2>1, DecrementSound DEF Carries
<1>2. CASE Armed(ch) /\ ~ch.counting /\ ch.waiting_for_trigger
  <2> DEFINE next == [ch EXCEPT !.waiting_for_trigger = FALSE, !.running = TRUE,
                                !.prescaler_left = ch.prescaler]
  <2>1. Trigger(ch) = next
    BY <1>2 DEF Trigger
  <2>2. ch.prescaler \in 0 .. LongPrescale /\ ch.prescaler > 0
    BY <1>0, CtcAssumption DEF Channel
  <2>3. next \in Channel
    BY <1>0, <2>2 DEF Channel
  <2>4. /\ next.counter = ch.counter /\ next.time_constant = ch.time_constant
        /\ next.prescaler_left = ch.prescaler
        /\ next.pending_constant = ch.pending_constant /\ next.configured = ch.configured
        /\ next.hard_reset = ch.hard_reset
        /\ next.pending = ch.pending /\ next.in_service = ch.in_service
    BY <1>0 DEF Channel
  <2> HIDE DEF next
  <2> QED
    BY <1>0, <1>2, <2>1, <2>2, <2>3, <2>4 DEF Sound, ChannelCoherent, Armed
<1>3. CASE ~(Armed(ch) /\ ch.counting) /\ ~(Armed(ch) /\ ~ch.counting /\ ch.waiting_for_trigger)
  <2>1. Trigger(ch) = ch
    BY <1>3 DEF Trigger
  <2> QED
    BY <1>0, <2>1 DEF Sound
<1> QED
  BY <1>1, <1>2, <1>3

LEMMA LoadConstantSound ==
    ASSUME NEW ch, Sound(ch), NEW byte \in 0 .. FullConstant - 1
    PROVE  /\ Sound(LoadConstant(ch, byte))
           /\ LoadConstant(ch, byte).in_service = ch.in_service
           /\ LoadConstant(ch, byte).pending = ch.pending
<1>0. ch \in Channel /\ ch.prescaler_left > 0 /\ ChannelCoherent(ch)
  BY DEF Sound
<1> DEFINE constant == IF byte = 0 THEN FullConstant ELSE byte
           runs == ~ch.waiting_for_trigger
           later == [ch EXCEPT !.expect_constant = FALSE, !.hard_reset = FALSE,
                               !.pending_constant = constant]
           now == [ch EXCEPT !.expect_constant = FALSE, !.hard_reset = FALSE,
                             !.time_constant = constant, !.counter = constant,
                             !.prescaler_left = ch.prescaler,
                             !.configured = TRUE, !.running = runs]
<1>1. constant \in 0 .. FullConstant /\ constant > 0
  BY CtcAssumption
<1>2. LoadConstant(ch, byte) = IF ch.configured /\ ch.running THEN later ELSE now
  BY Zenon DEF LoadConstant
<1>3. runs \in BOOLEAN
  OBVIOUS
<1>4. ch.prescaler \in 0 .. LongPrescale /\ ch.prescaler > 0
  BY <1>0, CtcAssumption DEF Channel
<1> HIDE DEF constant, runs
<1>5. CASE ch.configured /\ ch.running
  <2>1. later \in Channel
    BY <1>0, <1>1 DEF Channel
  <2>2. /\ later.counter = ch.counter /\ later.time_constant = ch.time_constant
        /\ later.prescaler_left = ch.prescaler_left
        /\ later.configured = ch.configured /\ later.hard_reset = FALSE
        /\ later.pending = ch.pending /\ later.in_service = ch.in_service
    BY <1>0 DEF Channel
  <2> HIDE DEF later
  <2>3. LoadConstant(ch, byte) = later
    BY <1>2, <1>5
  <2> QED
    BY <1>0, <1>5, <2>1, <2>2, <2>3 DEF Sound, ChannelCoherent
<1>6. CASE ~(ch.configured /\ ch.running)
  <2>1. now \in Channel
    BY <1>0, <1>1, <1>3, <1>4 DEF Channel
  <2>2. /\ now.counter = constant /\ now.time_constant = constant
        /\ now.prescaler_left = ch.prescaler
        /\ now.configured = TRUE /\ now.hard_reset = FALSE
        /\ now.pending = ch.pending /\ now.in_service = ch.in_service
    BY <1>0 DEF Channel
  <2> HIDE DEF now
  <2>3. LoadConstant(ch, byte) = now
    BY <1>2, <1>6
  <2> QED
    BY <1>1, <1>4, <2>1, <2>2, <2>3 DEF Sound, ChannelCoherent
<1> QED
  BY <1>5, <1>6

(* A control word never raises a request, and takes one back only from a     *)
(* channel it resets.                                                        *)
LEMMA ControlSound ==
    ASSUME NEW ch, Sound(ch), NEW w \in Word
    PROVE  /\ Sound(Control(ch, w))
           /\ Control(ch, w).in_service = ch.in_service
           /\ Control(ch, w).pending => ch.pending
           /\ ch.pending /\ ~Control(ch, w).pending => ~Control(ch, w).configured
<1>0. ch \in Channel /\ ch.prescaler_left > 0 /\ ChannelCoherent(ch)
  BY DEF Sound
<1> DEFINE mode == TakeMode(ch, w)
           stopped == StopIfReset(mode, w)
           set == AnnounceConstant(stopped, w)
<1>1. /\ Sound(mode)
      /\ mode.in_service = ch.in_service
      /\ mode.pending = ch.pending
  <2> DEFINE runs == ch.running \/ (Armed(ch) /\ ~w.trigger)
             scale == IF w.long THEN LongPrescale ELSE ShortPrescale
             next == [ch EXCEPT !.interrupt = w.interrupt, !.counting = w.counting,
                                !.edge = w.edge, !.prescaler = scale,
                                !.waiting_for_trigger = w.trigger, !.running = runs]
  <2>1. mode = next
    BY Zenon DEF TakeMode
  <2>2. runs \in BOOLEAN /\ (runs => ch.configured)
    BY <1>0 DEF ChannelCoherent, Armed
  <2>3. scale \in {ShortPrescale, LongPrescale}
    OBVIOUS
  <2> HIDE DEF mode, runs, scale
  <2>4. next \in Channel
    BY <1>0, <2>2, <2>3 DEF Channel, Word
  <2>5. /\ next.counter = ch.counter /\ next.time_constant = ch.time_constant
        /\ next.prescaler_left = ch.prescaler_left
        /\ next.pending_constant = ch.pending_constant /\ next.configured = ch.configured
        /\ next.hard_reset = ch.hard_reset /\ next.running = runs
        /\ next.pending = ch.pending /\ next.in_service = ch.in_service
    BY <1>0 DEF Channel
  <2> HIDE DEF next
  <2> QED
    BY <1>0, <2>1, <2>2, <2>4, <2>5 DEF Sound, ChannelCoherent
<1> HIDE DEF mode
<1>2. /\ Sound(stopped)
      /\ stopped.in_service = ch.in_service
      /\ stopped.pending => ch.pending
      /\ ch.pending /\ ~stopped.pending => ~stopped.configured
  <2>0. mode \in Channel /\ mode.prescaler_left > 0 /\ ChannelCoherent(mode)
    BY <1>1 DEF Sound
  <2> DEFINE lasting == ~w.constant
             next == [mode EXCEPT !.running = FALSE, !.pending = FALSE,
                                  !.counter = mode.time_constant,
                                  !.prescaler_left = mode.prescaler,
                                  !.pending_constant = None, !.configured = FALSE,
                                  !.hard_reset = lasting]
  <2>1. stopped = IF w.reset THEN next ELSE mode
    BY Zenon DEF StopIfReset
  <2>2. lasting \in BOOLEAN
    OBVIOUS
  <2>3. /\ mode.prescaler \in 0 .. LongPrescale /\ mode.prescaler > 0
        /\ None \in 0 .. FullConstant
    BY <2>0, CtcAssumption DEF Channel, None
  <2> HIDE DEF stopped, lasting
  <2>4. next \in Channel
    BY <2>0, <2>2, <2>3 DEF Channel
  <2>5. /\ next.prescaler_left = mode.prescaler /\ next.pending_constant = None
        /\ next.configured = FALSE /\ next.running = FALSE
        /\ next.pending = FALSE /\ next.in_service = mode.in_service
    BY <2>0 DEF Channel
  <2> HIDE DEF next
  <2>6. CASE w.reset
    BY <1>1, <2>1, <2>3, <2>4, <2>5, <2>6 DEF Sound, ChannelCoherent
  <2>7. CASE ~w.reset
    BY <1>1, <2>1, <2>7
  <2> QED
    BY <2>6, <2>7
<1> HIDE DEF stopped
<1>3. /\ Sound(set)
      /\ set.in_service = stopped.in_service
      /\ set.pending = stopped.pending
      /\ set.configured = stopped.configured
  <2>0. stopped \in Channel /\ stopped.prescaler_left > 0 /\ ChannelCoherent(stopped)
    BY <1>2 DEF Sound
  <2> DEFINE next == [stopped EXCEPT !.hard_reset = FALSE, !.expect_constant = TRUE]
  <2>1. set = IF w.constant THEN next ELSE stopped
    BY Zenon DEF AnnounceConstant
  <2> HIDE DEF set
  <2>2. next \in Channel
    BY <2>0 DEF Channel
  <2>3. /\ next.counter = stopped.counter /\ next.time_constant = stopped.time_constant
        /\ next.prescaler_left = stopped.prescaler_left
        /\ next.pending_constant = stopped.pending_constant
        /\ next.configured = stopped.configured /\ next.hard_reset = FALSE
        /\ next.running = stopped.running
        /\ next.pending = stopped.pending /\ next.in_service = stopped.in_service
    BY <2>0 DEF Channel
  <2> HIDE DEF next
  <2>4. CASE w.constant
    BY <2>0, <2>1, <2>2, <2>3, <2>4 DEF Sound, ChannelCoherent
  <2>5. CASE ~w.constant
    BY <1>2, <2>1, <2>5
  <2> QED
    BY <2>4, <2>5
<1>4. Control(ch, w) = IF Ignored(ch, w) THEN ch ELSE set
  BY Zenon DEF Control, set, stopped, mode
<1> HIDE DEF set
<1>5. CASE Ignored(ch, w)
  BY <1>4, <1>5
<1>6. CASE ~Ignored(ch, w)
  BY <1>2, <1>3, <1>4, <1>6
<1> QED
  BY <1>5, <1>6

-----------------------------------------------------------------------------
(* One turn of the clock. *)

Bank == [Channels -> Channel]

AllSound(chs) == chs \in Bank /\ \A c \in Channels : Sound(chs[c])

LEMMA AfterRange ==
    ASSUME NEW c \in Channels, NEW n \in 0 .. ChannelCount
    PROVE  /\ After(c, n) \in Channels
           /\ n < ChannelCount => After(After(c, n), 1) = After(c, n + 1)
           /\ n = ChannelCount => After(c, n) = c
<1>0. ChannelCount \in Nat \ {0} /\ c \in 0 .. ChannelCount - 1
  BY CtcAssumption DEF Channels
<1>1. ASSUME NEW x \in 0 .. ChannelCount - 1
      PROVE  x % ChannelCount = x
  BY <1>0
<1>2. ASSUME NEW x \in ChannelCount .. 2 * ChannelCount - 1
      PROVE  x % ChannelCount = x - ChannelCount
  BY <1>0
<1>3. CASE c + n < ChannelCount
  <2>1. After(c, n) = c + n
    BY <1>0, <1>1, <1>3 DEF After
  <2> QED
    BY <1>0, <1>3, <2>1 DEF After, Channels
<1>4. CASE c + n >= ChannelCount
  <2>1. After(c, n) = c + n - ChannelCount
    BY <1>0, <1>2, <1>4 DEF After
  <2>2. ASSUME n < ChannelCount
        PROVE  After(After(c, n), 1) = After(c, n + 1)
    <3>1. After(c, n + 1) = c + n + 1 - ChannelCount
      BY <1>0, <1>2, <1>4, <2>2 DEF After
    <3>2. After(After(c, n), 1) = c + n - ChannelCount + 1
      BY <1>0, <1>1, <1>4, <2>1, <2>2 DEF After
    <3> QED
      BY <1>0, <3>1, <3>2
  <2> QED
    BY <1>0, <1>4, <2>1, <2>2 DEF Channels
<1> QED
  BY <1>0, <1>3, <1>4

(* A triggered counter that reaches zero is part of the cascade. *)
LEMMA CascadeClosed ==
    ASSUME NEW chs, NEW timers \in SUBSET Channels, NEW c \in Channels,
           c \in Triggered(Cascade(chs, timers), timers), Carries(chs[c])
    PROVE  c \in Cascade(chs, timers)
<1>0. ChannelCount \in Nat \ {0}
  BY CtcAssumption
<1>1. c \notin timers
  BY DEF Triggered
<1>2. PICK s \in Cascade(chs, timers) : c = After(s, 1)
  BY DEF Triggered
<1>3. CASE s \in timers
  <2>1. ChannelCount # 1
    BY <1>1, <1>2, <1>3, AfterRange, <1>0
  <2>2. 1 \in 1 .. ChannelCount - 1
    BY <1>0, <2>1
  <2>3. \A i \in 1 .. 1 : After(s, i) \notin timers /\ Carries(chs[After(s, i)])
    <3>1. \A i \in 1 .. 1 : i = 1
      OBVIOUS
    <3> QED
      BY <1>1, <1>2, <3>1
  <2> QED
    BY <1>1, <1>2, <1>3, <2>2, <2>3 DEF Cascade
<1>4. CASE s \notin timers
  <2>1. PICK t \in timers, n \in 1 .. ChannelCount - 1 :
            /\ s = After(t, n)
            /\ \A i \in 1 .. n : After(t, i) \notin timers /\ Carries(chs[After(t, i)])
    BY <1>4 DEF Cascade
  <2>2. n \in 0 .. ChannelCount /\ n < ChannelCount /\ n + 1 \in 0 .. ChannelCount
    BY <1>0
  <2>3. c = After(t, n + 1)
    BY <1>2, <2>1, <2>2, AfterRange
  <2>4. n + 1 # ChannelCount
    BY <1>1, <2>2, <2>3, AfterRange
  <2>5. n + 1 \in 1 .. ChannelCount - 1
    BY <1>0, <2>2, <2>4
  <2>6. \A i \in 1 .. n + 1 : After(t, i) \notin timers /\ Carries(chs[After(t, i)])
    <3>1. \A i \in 1 .. n + 1 : i \in 1 .. n \/ i = n + 1
      BY <2>2
    <3> QED
      BY <1>1, <2>1, <2>3, <3>1
  <2> QED
    BY <1>1, <2>3, <2>5, <2>6 DEF Cascade
<1> QED
  BY <1>3, <1>4

(* A turn keeps every channel sound, touches no service state, takes no      *)
(* request back, and reports the overflow behind every new one.              *)
LEMMA AdvanceSound ==
    ASSUME NEW chs, AllSound(chs), NEW k \in Nat \ {0}
    PROVE  /\ AllSound(Advance(chs, k).channels)
           /\ Advance(chs, k).over \subseteq Channels
           /\ \A c \in Channels :
                /\ Advance(chs, k).channels[c].in_service = chs[c].in_service
                /\ chs[c].pending => Advance(chs, k).channels[c].pending
                /\ Advance(chs, k).channels[c].pending =>
                      chs[c].pending \/ c \in Advance(chs, k).over
<1> DEFINE aged == Elapse(chs, k)
           timers == TimerOverflows(aged)
           counted == CountDue(aged)
           over == Cascade(counted, timers)
           final == [c \in Channels |->
                       IF c \in Triggered(over, timers) THEN Trigger(counted[c]) ELSE counted[c]]
<1>1. ASSUME NEW c \in Channels
      PROVE  /\ aged[c] \in Channel
             /\ ChannelCoherent(aged[c])
             /\ aged[c].prescaler_left > 0 \/ Due(aged[c])
             /\ aged[c].in_service = chs[c].in_service
             /\ aged[c].pending = chs[c].pending
  <2> DEFINE ch == chs[c]
             left == IF ch.prescaler_left > k THEN ch.prescaler_left - k ELSE 0
             next == [ch EXCEPT !.prescaler_left = left]
  <2>0. ch \in Channel /\ ch.prescaler_left > 0 /\ ChannelCoherent(ch)
    BY DEF AllSound, Sound
  <2>1. aged[c] = IF Timing(ch) THEN next ELSE ch
    BY DEF Elapse
  <2>2. left \in 0 .. LongPrescale
    BY <2>0, CtcAssumption DEF Channel
  <2> HIDE DEF left, ch, aged
  <2>3. next \in Channel
    BY <2>0, <2>2 DEF Channel
  <2>4. /\ next.counter = ch.counter /\ next.time_constant = ch.time_constant
        /\ next.prescaler_left = left
        /\ next.pending_constant = ch.pending_constant /\ next.configured = ch.configured
        /\ next.hard_reset = ch.hard_reset /\ next.running = ch.running
        /\ next.pending = ch.pending /\ next.in_service = ch.in_service
    BY <2>0 DEF Channel
  <2> HIDE DEF next
  <2>5. CASE Timing(ch)
    <3>1. ChannelCoherent(next)
      BY <2>0, <2>4 DEF ChannelCoherent
    <3>2. next.prescaler_left > 0 \/ Due(next)
      BY <2>2, <2>4, <2>5 DEF Due, Timing
    <3> QED
      BY <2>1, <2>3, <2>4, <2>5, <3>1, <3>2 DEF ch
  <2>6. CASE ~Timing(ch)
    BY <2>0, <2>1, <2>6 DEF ch
  <2> QED
    BY <2>5, <2>6
<1> HIDE DEF aged
<1>2. ASSUME NEW c \in Channels
      PROVE  /\ Sound(counted[c])
             /\ counted[c].in_service = chs[c].in_service
             /\ chs[c].pending => counted[c].pending
             /\ counted[c].pending => chs[c].pending \/ c \in timers
  <2> DEFINE ch == aged[c]
             next == [ch EXCEPT !.prescaler_left = ch.prescaler]
  <2>0. ch \in Channel /\ ChannelCoherent(ch)
    BY <1>1
  <2>1. counted[c] = IF Due(ch) THEN Decrement(next) ELSE ch
    BY DEF CountDue
  <2> HIDE DEF counted
  <2>2. CASE Due(ch)
    <3>1. ch.prescaler \in 0 .. LongPrescale /\ ch.prescaler > 0
      BY <2>0, CtcAssumption DEF Channel
    <3>2. next \in Channel
      BY <2>0, <3>1 DEF Channel
    <3>3. /\ next.counter = ch.counter /\ next.time_constant = ch.time_constant
          /\ next.prescaler_left = ch.prescaler
          /\ next.pending_constant = ch.pending_constant /\ next.configured = ch.configured
          /\ next.hard_reset = ch.hard_reset /\ next.running = ch.running
          /\ next.pending = ch.pending /\ next.in_service = ch.in_service
      BY <2>0 DEF Channel
    <3> HIDE DEF next
    <3>4. Sound(next)
      BY <2>0, <3>1, <3>2, <3>3 DEF Sound, ChannelCoherent
    <3>5. Overflows(next) => c \in timers
      BY <2>2, <3>3 DEF Overflows, Armed, TimerOverflows, DueChannels
    <3> HIDE DEF timers
    <3>6. counted[c] = Decrement(next)
      BY <2>1, <2>2
    <3>7. /\ Sound(Decrement(next))
          /\ Decrement(next).in_service = next.in_service
          /\ Decrement(next).pending => next.pending \/ Overflows(next)
          /\ next.pending => Decrement(next).pending
      BY <3>4, DecrementSound
    <3> QED
      BY <1>1, <3>3, <3>5, <3>6, <3>7
  <2>3. CASE ~Due(ch)
    BY <1>1, <2>1, <2>3 DEF Sound
  <2> QED
    BY <2>2, <2>3
<1> HIDE DEF counted
<1>3. timers \subseteq Channels /\ over \subseteq Channels /\ timers \subseteq over
  BY DEF TimerOverflows, DueChannels, Cascade
<1>4. ASSUME NEW c \in Channels
      PROVE  /\ Sound(final[c])
             /\ final[c].in_service = chs[c].in_service
             /\ chs[c].pending => final[c].pending
             /\ final[c].pending => chs[c].pending \/ c \in over
  <2>1. CASE c \in Triggered(over, timers)
    <3>1. final[c] = Trigger(counted[c])
      BY <2>1
    <3>2. Carries(counted[c]) => c \in over
      BY <1>3, <2>1, CascadeClosed
    <3> HIDE DEF over, timers, final
    <3>3. /\ Sound(Trigger(counted[c]))
          /\ Trigger(counted[c]).in_service = counted[c].in_service
          /\ Trigger(counted[c]).pending => counted[c].pending \/ Carries(counted[c])
          /\ counted[c].pending => Trigger(counted[c]).pending
      BY <1>2, TriggerSound
    <3> QED
      BY <1>2, <1>3, <3>1, <3>2, <3>3
  <2>2. CASE c \notin Triggered(over, timers)
    <3>1. final[c] = counted[c]
      BY <2>2
    <3> HIDE DEF over, timers, final
    <3> QED
      BY <1>2, <1>3, <3>1
  <2> QED
    BY <2>1, <2>2
<1>5. CASE DueChannels(aged) = {}
  <2>1. Advance(chs, k) = [channels |-> aged, over |-> {}]
    BY <1>5 DEF Advance, aged
  <2>2. aged \in [Channels -> Channel]
    <3>1. aged = [c \in Channels |-> aged[c]]
      BY DEF aged, Elapse
    <3> QED
      BY <1>1, <3>1
  <2>3. \A c \in Channels : Sound(aged[c])
    BY <1>1, <1>5 DEF Sound, DueChannels
  <2> QED
    BY <1>1, <2>1, <2>2, <2>3 DEF AllSound, Bank
<1>6. CASE DueChannels(aged) # {}
  <2>1. Advance(chs, k) = [channels |-> final, over |-> over]
    BY <1>6 DEF Advance, Tick, aged, counted
  <2>2. final \in [Channels -> Channel]
    <3>1. \A c \in Channels : final[c] \in Channel
      BY <1>4 DEF Sound
    <3> QED
      BY <3>1
  <2> HIDE DEF final, over
  <2> QED
    BY <1>3, <1>4, <2>1, <2>2 DEF AllSound, Bank
<1> QED
  BY <1>5, <1>6

-----------------------------------------------------------------------------
(* The inductive invariant: the checked invariants together. *)

IInv == TypeOK /\ ChannelsCoherent /\ StatusCoversRequests /\ ServiceNests

LEMMA IInvSound ==
    ASSUME IInv
    PROVE  AllSound(channels)
BY DEF IInv, TypeOK, ChannelsCoherent, AllSound, Bank, Sound

(* How a step that leaves the history alone re-establishes the invariant.    *)
LEMMA ChannelsStep ==
    ASSUME IInv, AllSound(channels'), status' \subseteq Channels,
           elapsed' \in 0 .. MaxElapsed, hardware' \in BOOLEAN, UNCHANGED nest,
           \A c \in Channels : channels'[c].in_service = channels[c].in_service,
           \A c \in Channels : channels'[c].pending => c \in status'
    PROVE  IInv'
<1>1. TypeOK'
  BY DEF IInv, TypeOK, AllSound, Bank, Sound
<1>2. ChannelsCoherent'
  BY DEF AllSound, Sound, ChannelsCoherent
<1>3. StatusCoversRequests'
  BY DEF StatusCoversRequests
<1>4. ServiceNests'
  BY DEF IInv, ServiceNests
<1> QED
  BY <1>1, <1>2, <1>3, <1>4 DEF IInv

(* Changing a single channel, soundly. *)
LEMMA OneChannel ==
    ASSUME AllSound(channels), NEW c \in Channels, NEW ch, Sound(ch),
           channels' = [channels EXCEPT ![c] = ch]
    PROVE  /\ AllSound(channels')
           /\ channels'[c] = ch
           /\ \A d \in Channels \ {c} : channels'[d] = channels[d]
<1>1. channels \in [Channels -> Channel] /\ ch \in Channel
  BY DEF AllSound, Bank, Sound
<1>2. channels'[c] = ch /\ \A d \in Channels \ {c} : channels'[d] = channels[d]
  BY <1>1
<1>3. channels' \in [Channels -> Channel]
  BY <1>1
<1>4. \A d \in Channels : Sound(channels'[d])
  BY <1>2 DEF AllSound
<1> QED
  BY <1>2, <1>3, <1>4 DEF AllSound, Bank

(* Flags outside the countdown do not disturb a channel's soundness. *)
LEMMA FlagsSound ==
    ASSUME NEW ch, Sound(ch)
    PROVE  /\ Sound([ch EXCEPT !.pending = FALSE])
           /\ [ch EXCEPT !.pending = FALSE].in_service = ch.in_service
           /\ ~[ch EXCEPT !.pending = FALSE].pending
           /\ Sound([ch EXCEPT !.in_service = FALSE])
           /\ [ch EXCEPT !.in_service = FALSE].pending = ch.pending
           /\ ~[ch EXCEPT !.in_service = FALSE].in_service
           /\ Sound([ch EXCEPT !.pending = FALSE, !.in_service = TRUE])
           /\ ~[ch EXCEPT !.pending = FALSE, !.in_service = TRUE].pending
           /\ [ch EXCEPT !.pending = FALSE, !.in_service = TRUE].in_service
<1>0. ch \in Channel /\ ch.prescaler_left > 0 /\ ChannelCoherent(ch)
  BY DEF Sound
<1> DEFINE Same(x) ==
        /\ x \in Channel
        /\ x.prescaler_left = ch.prescaler_left /\ x.configured = ch.configured
        /\ x.hard_reset = ch.hard_reset /\ x.counter = ch.counter
        /\ x.time_constant = ch.time_constant /\ x.running = ch.running
        /\ x.pending_constant = ch.pending_constant
        /\ x.pending => ch.pending
<1>1. ASSUME NEW x, Same(x)
      PROVE  Sound(x)
  BY <1>0, <1>1 DEF Sound, ChannelCoherent
<1>3. Same([ch EXCEPT !.pending = FALSE])
  BY <1>0 DEF Channel
<1>4. Same([ch EXCEPT !.in_service = FALSE])
  BY <1>0 DEF Channel
<1>5. Same([ch EXCEPT !.pending = FALSE, !.in_service = TRUE])
  BY <1>0 DEF Channel
<1>6. /\ [ch EXCEPT !.pending = FALSE].in_service = ch.in_service
      /\ ~[ch EXCEPT !.pending = FALSE].pending
      /\ [ch EXCEPT !.in_service = FALSE].pending = ch.pending
      /\ ~[ch EXCEPT !.in_service = FALSE].in_service
      /\ ~[ch EXCEPT !.pending = FALSE, !.in_service = TRUE].pending
      /\ [ch EXCEPT !.pending = FALSE, !.in_service = TRUE].in_service
  BY <1>0 DEF Channel
<1> HIDE DEF Same
<1> QED
  BY <1>1, <1>3, <1>4, <1>5, <1>6

-----------------------------------------------------------------------------
(* Each action preserves the invariant. *)

LEMMA InitIInv == ASSUME Init PROVE IInv
<1>0. /\ 0 \in 0 .. FullConstant /\ ShortPrescale \in 0 .. LongPrescale
      /\ ShortPrescale > 0
  BY CtcAssumption
<1>1. DefaultChannel \in Channel
  BY <1>0 DEF DefaultChannel, Channel, None
<1>2. Sound(DefaultChannel)
  BY <1>0, <1>1 DEF Sound, ChannelCoherent, DefaultChannel, None
<1>3. channels \in [Channels -> Channel]
  BY <1>1 DEF Init
<1>4. /\ status = {} /\ nest = <<>> /\ hardware = FALSE /\ elapsed = 0
      /\ \A c \in Channels : channels[c] = DefaultChannel
  BY DEF Init
<1>5. elapsed \in 0 .. MaxElapsed /\ nest \in Seq(Channels)
  BY <1>4, CtcAssumption
<1>6. hardware \in BOOLEAN
  BY <1>4
<1>7. TypeOK
  BY <1>2, <1>3, <1>4, <1>5, <1>6 DEF TypeOK, Sound
<1>8. ChannelsCoherent
  BY <1>2, <1>4 DEF ChannelsCoherent, Sound
<1>9. ~DefaultChannel.pending /\ ~DefaultChannel.in_service
  BY DEF DefaultChannel
<1>10. StatusCoversRequests
  BY <1>4, <1>9 DEF StatusCoversRequests
<1>11. ServiceNests
  BY <1>4, <1>9 DEF ServiceNests
<1> QED
  BY <1>7, <1>8, <1>10, <1>11 DEF IInv

LEMMA SoftResetIInv == ASSUME IInv, SoftReset PROVE IInv'
<1>1. Init'
  BY DEF SoftReset, Init
<1>2. (Init => IInv)'
  BY InitIInv, PTL
<1> QED
  BY <1>1, <1>2

LEMMA WriteConstantIInv ==
    ASSUME IInv, NEW c \in Channels, NEW byte \in ConstantBytes[c], WriteConstant(c, byte)
    PROVE  IInv'
<1> DEFINE set == LoadConstant(channels[c], byte)
<1>1. AllSound(channels) /\ Sound(channels[c])
  BY IInvSound DEF AllSound
<1>2. byte \in 0 .. FullConstant - 1
  BY CtcAssumption
<1>3. /\ Sound(set) /\ set.in_service = channels[c].in_service
      /\ set.pending = channels[c].pending
  BY <1>1, <1>2, LoadConstantSound
<1>4. /\ channels' = [channels EXCEPT ![c] = set]
      /\ UNCHANGED <<status, elapsed, hardware, nest>>
  BY DEF WriteConstant
<1> HIDE DEF set
<1>5. /\ AllSound(channels')
      /\ channels'[c] = set
      /\ \A d \in Channels \ {c} : channels'[d] = channels[d]
  BY <1>1, <1>3, <1>4, OneChannel
<1>6. \A d \in Channels : channels'[d].in_service = channels[d].in_service
  BY <1>3, <1>5
<1>7. \A d \in Channels : channels'[d].pending => d \in status'
  BY <1>3, <1>4, <1>5 DEF IInv, StatusCoversRequests
<1> QED
  BY <1>4, <1>5, <1>6, <1>7, ChannelsStep DEF IInv, TypeOK

LEMMA WriteControlIInv ==
    ASSUME IInv, NEW c \in Channels, NEW w \in ControlWords[c], WriteControl(c, w)
    PROVE  /\ IInv'
           /\ \A d \in Channels : channels[d].pending /\ ~channels'[d].pending
                                    => ~channels'[d].configured
<1> DEFINE set == Control(channels[c], w)
           edge == EdgeChanged(channels[c], w)
           end == IF edge THEN Trigger(set) ELSE set
<1>1. AllSound(channels) /\ Sound(channels[c])
  BY IInvSound DEF AllSound
<1>2. w \in Word
  BY CtcAssumption
<1>3. /\ Sound(set) /\ set.in_service = channels[c].in_service
      /\ set.pending => channels[c].pending
      /\ channels[c].pending /\ ~set.pending => ~set.configured
  BY <1>1, <1>2, ControlSound
<1>4. /\ channels' = [channels EXCEPT ![c] = end]
      /\ status' = IF edge /\ Carries(set) THEN status \cup {c} ELSE status
      /\ UNCHANGED <<elapsed, hardware, nest>>
  BY DEF WriteControl
<1> HIDE DEF set, edge
<1>5. /\ Sound(end) /\ end.in_service = channels[c].in_service
      /\ end.pending => channels[c].pending \/ (edge /\ Carries(set))
      /\ channels[c].pending /\ ~end.pending => ~end.configured
  <2>1. CASE edge
    <3>1. end = Trigger(set)
      BY <2>1
    <3>2. /\ Sound(Trigger(set))
          /\ Trigger(set).in_service = set.in_service
          /\ Trigger(set).pending => set.pending \/ Carries(set)
          /\ set.pending => Trigger(set).pending
      BY <1>3, TriggerSound
    <3>3. ~set.configured => Trigger(set) = set
      BY DEF Trigger, Armed
    <3> HIDE DEF end
    <3> QED
      BY <1>3, <2>1, <3>1, <3>2, <3>3
  <2>2. CASE ~edge
    BY <1>3, <2>2
  <2> QED
    BY <2>1, <2>2
<1> HIDE DEF end
<1>6. /\ AllSound(channels')
      /\ channels'[c] = end
      /\ \A d \in Channels \ {c} : channels'[d] = channels[d]
  BY <1>1, <1>4, <1>5, OneChannel
<1>7. \A d \in Channels : channels'[d].in_service = channels[d].in_service
  BY <1>5, <1>6
<1>8. \A d \in Channels : channels'[d].pending => d \in status'
  BY <1>4, <1>5, <1>6 DEF IInv, StatusCoversRequests
<1>9. status' \subseteq Channels
  BY <1>4 DEF IInv, TypeOK
<1>10. \A d \in Channels : channels[d].pending /\ ~channels'[d].pending
                             => ~channels'[d].configured
  BY <1>5, <1>6
<1>11. elapsed' \in 0 .. MaxElapsed
  BY <1>4 DEF IInv, TypeOK
<1>12. hardware' \in BOOLEAN
  BY <1>4 DEF IInv, TypeOK
<1>13. IInv'
  BY <1>4, <1>6, <1>7, <1>8, <1>9, <1>11, <1>12, ChannelsStep
<1> QED
  BY <1>10, <1>13

LEMMA AdvanceToIInv ==
    ASSUME IInv, NEW clocks \in 1 .. MaxElapsed, AdvanceTo(clocks)
    PROVE  IInv'
<1>1. elapsed' \in 0 .. MaxElapsed /\ UNCHANGED <<channels, status, hardware, nest>>
  BY CtcAssumption DEF AdvanceTo
<1> QED
  BY <1>1 DEF IInv, TypeOK, ChannelsCoherent, StatusCoversRequests, ServiceNests

LEMMA AdvanceTurnIInv ==
    ASSUME IInv, AdvanceTurn
    PROVE  /\ IInv'
           /\ \A c \in Channels : channels[c].pending => channels'[c].pending
<1>1. PICK k \in 1 .. elapsed :
          /\ channels' = Advance(channels, k).channels
          /\ status' = status \cup Advance(channels, k).over
          /\ elapsed' = elapsed - k
          /\ UNCHANGED <<hardware, nest>>
  BY DEF AdvanceTurn
<1>2. elapsed \in 0 .. MaxElapsed /\ k \in Nat \ {0}
  BY CtcAssumption DEF IInv, TypeOK
<1>3. AllSound(channels)
  BY IInvSound
<1>4. /\ AllSound(channels')
      /\ Advance(channels, k).over \subseteq Channels
      /\ \A c \in Channels :
            /\ channels'[c].in_service = channels[c].in_service
            /\ channels[c].pending => channels'[c].pending
            /\ channels'[c].pending => channels[c].pending \/ c \in Advance(channels, k).over
  BY <1>1, <1>2, <1>3, AdvanceSound
<1>5. status' \subseteq Channels
  BY <1>1, <1>4 DEF IInv, TypeOK
<1>6. elapsed' \in 0 .. MaxElapsed
  BY <1>1, <1>2, CtcAssumption
<1>7. hardware' \in BOOLEAN
  BY <1>1 DEF IInv, TypeOK
<1>8. \A c \in Channels : channels'[c].pending => c \in status'
  BY <1>1, <1>4 DEF IInv, StatusCoversRequests
<1>9. IInv'
  BY <1>1, <1>4, <1>5, <1>6, <1>7, <1>8, ChannelsStep
<1> QED
  BY <1>4, <1>9

LEMMA WriteInterruptEnableIInv ==
    ASSUME IInv, NEW mask, WriteInterruptEnable(mask)
    PROVE  /\ IInv'
           /\ \A c \in Channels : channels'[c].pending = channels[c].pending
<1>1. AllSound(channels)
  BY IInvSound
<1>2. ASSUME NEW c \in Channels
      PROVE  /\ Sound(channels'[c])
             /\ channels'[c].pending = channels[c].pending
             /\ channels'[c].in_service = channels[c].in_service
  <2> DEFINE b == c \in mask
  <2>1. channels'[c] = [channels[c] EXCEPT !.interrupt = b]
    BY Zenon DEF WriteInterruptEnable
  <2>2. b \in BOOLEAN
    OBVIOUS
  <2>3. Sound(channels[c])
    BY <1>1 DEF AllSound
  <2> HIDE DEF b
  <2> DEFINE set == [channels[c] EXCEPT !.interrupt = b]
  <2>4. channels[c] \in Channel
    BY <2>3 DEF Sound
  <2>5. set \in Channel
    BY <2>2, <2>4 DEF Channel
  <2>6. /\ set.counter = channels[c].counter
        /\ set.time_constant = channels[c].time_constant
        /\ set.prescaler_left = channels[c].prescaler_left
        /\ set.pending_constant = channels[c].pending_constant
        /\ set.configured = channels[c].configured
        /\ set.hard_reset = channels[c].hard_reset /\ set.running = channels[c].running
        /\ set.pending = channels[c].pending /\ set.in_service = channels[c].in_service
    BY <2>4 DEF Channel
  <2>7. channels'[c] = set
    BY <2>1
  <2> HIDE DEF set
  <2>8. Sound(set)
    BY <2>3, <2>5, <2>6 DEF Sound, ChannelCoherent
  <2> QED
    BY <2>7, <2>6, <2>8
<1>3. channels' \in [Channels -> Channel]
  <2>1. channels' = [c \in Channels |-> channels'[c]]
    BY Zenon DEF WriteInterruptEnable
  <2>2. \A c \in Channels : channels'[c] \in Channel
    BY <1>2 DEF Sound
  <2> QED
    BY <2>1, <2>2
<1>4. UNCHANGED <<status, elapsed, hardware, nest>>
  BY DEF WriteInterruptEnable
<1>5. AllSound(channels')
  BY <1>2, <1>3 DEF AllSound, Bank
<1>6. \A c \in Channels : channels'[c].pending => c \in status'
  BY <1>2, <1>4 DEF IInv, StatusCoversRequests
<1>7. status' \subseteq Channels /\ elapsed' \in 0 .. MaxElapsed
  BY <1>4 DEF IInv, TypeOK
<1>8. hardware' \in BOOLEAN
  BY <1>4 DEF IInv, TypeOK
<1>9. IInv'
  BY <1>2, <1>4, <1>5, <1>6, <1>7, <1>8, ChannelsStep
<1> QED
  BY <1>2, <1>9

LEMMA ClearInterruptStatusIInv ==
    ASSUME IInv, NEW mask, ClearInterruptStatus(mask)
    PROVE  IInv'
<1>1. /\ status' = status \ {c \in mask : ~channels[c].pending}
      /\ UNCHANGED <<channels, elapsed, hardware, nest>>
  BY DEF ClearInterruptStatus
<1> QED
  BY <1>1 DEF IInv, TypeOK, ChannelsCoherent, StatusCoversRequests, ServiceNests

LEMMA WriteInterruptControlIInv ==
    ASSUME IInv, NEW mode \in BOOLEAN, WriteInterruptControl(mode)
    PROVE  IInv'
<1>1. hardware' = mode /\ UNCHANGED <<channels, status, elapsed, nest>>
  BY DEF WriteInterruptControl
<1>2. hardware' \in BOOLEAN
  BY <1>1
<1> QED
  BY <1>1, <1>2 DEF IInv, TypeOK, ChannelsCoherent, StatusCoversRequests, ServiceNests

LEMMA AcknowledgePulseIInv ==
    ASSUME IInv, NEW c \in Channels, AcknowledgePulse(c)
    PROVE  /\ IInv'
           /\ \A d \in Channels \ {c} : channels'[d] = channels[d]
<1> DEFINE set == [channels[c] EXCEPT !.pending = FALSE]
<1>1. AllSound(channels) /\ Sound(channels[c])
  BY IInvSound DEF AllSound
<1>2. Sound(set) /\ set.in_service = channels[c].in_service /\ ~set.pending
  BY <1>1, FlagsSound
<1>3. /\ channels' = [channels EXCEPT ![c] = set]
      /\ UNCHANGED <<status, elapsed, hardware, nest>>
  BY Zenon DEF AcknowledgePulse
<1> HIDE DEF set
<1>4. /\ AllSound(channels')
      /\ channels'[c] = set
      /\ \A d \in Channels \ {c} : channels'[d] = channels[d]
  BY <1>1, <1>2, <1>3, OneChannel
<1>5. /\ \A d \in Channels : channels'[d].in_service = channels[d].in_service
      /\ \A d \in Channels : channels'[d].pending => d \in status'
  BY <1>2, <1>3, <1>4 DEF IInv, StatusCoversRequests
<1>6. IInv'
  BY <1>3, <1>4, <1>5, ChannelsStep DEF IInv, TypeOK
<1> QED
  BY <1>4, <1>6

(* The channel acknowledged outranks everything in service.                  *)
LEMMA AcknowledgeIInv ==
    ASSUME IInv, NEW c \in Channels, Acknowledge(c)
    PROVE  /\ IInv'
           /\ \A d \in Channels \ {c} : channels'[d].pending = channels[d].pending
<1> DEFINE set == [channels[c] EXCEPT !.pending = FALSE, !.in_service = TRUE]
<1>1. AllSound(channels) /\ Sound(channels[c])
  BY IInvSound DEF AllSound
<1>2. Sound(set) /\ set.in_service /\ ~set.pending
  BY <1>1, FlagsSound
<1>3. /\ channels' = [channels EXCEPT ![c] = set]
      /\ nest' = Append(nest, c)
      /\ UNCHANGED <<status, elapsed, hardware>>
  <2>1. channels[c] \in Channel /\ channels \in [Channels -> Channel]
    BY <1>1 DEF AllSound, Bank, Sound
  <2>2. [[channels EXCEPT ![c].pending = FALSE] EXCEPT ![c].in_service = TRUE]
          = [channels EXCEPT ![c] = set]
    BY <2>1 DEF Channel
  <2> QED
    BY <2>2 DEF Acknowledge
<1> HIDE DEF set
<1>4. /\ AllSound(channels')
      /\ channels'[c] = set
      /\ \A d \in Channels \ {c} : channels'[d] = channels[d]
  BY <1>1, <1>2, <1>3, OneChannel
<1>5. nest \in Seq(Channels) /\ Channels \subseteq Nat
  BY CtcAssumption DEF IInv, TypeOK, Channels
<1>6. /\ nest' \in Seq(Channels) /\ Len(nest') = Len(nest) + 1
      /\ nest'[Len(nest) + 1] = c
      /\ \A i \in 1 .. Len(nest) : nest'[i] = nest[i]
      /\ DOMAIN nest = 1 .. Len(nest) /\ DOMAIN nest' = 1 .. Len(nest) + 1
      /\ Len(nest) \in Nat
  BY <1>3, <1>5
<1>7. \A i \in 1 .. Len(nest) : nest[i] \in Channels /\ channels[nest[i]].in_service
  <2>1. ASSUME NEW i \in 1 .. Len(nest)
        PROVE  nest[i] \in Channels /\ channels[nest[i]].in_service
    <3>1. nest[i] \in Channels /\ i \in DOMAIN nest
      BY <1>5, <1>6
    <3>2. channels[nest[i]].in_service
      BY <3>1 DEF IInv, ServiceNests
    <3> QED
      BY <3>1, <3>2
  <2> QED
    BY <2>1
<1>8. \A d \in 0 .. c : ~channels[d].in_service
  BY DEF Acknowledge, Offered
<1>9. \A i \in 1 .. Len(nest) : c < nest[i]
  <2>1. ASSUME NEW i \in 1 .. Len(nest)
        PROVE  c < nest[i]
    <3>1. nest[i] \in Nat /\ c \in Nat
      BY <1>5, <1>7
    <3>2. nest[i] \notin 0 .. c
      BY <1>7, <1>8
    <3> QED
      BY <3>1, <3>2
  <2> QED
    BY <2>1
<1>10. ServiceNests'
  <2>1. ASSUME NEW d \in Channels
        PROVE  channels'[d].in_service <=> \E i \in DOMAIN nest' : nest'[i] = d
    <3>1. CASE d = c
      BY <1>2, <1>4, <1>6, <3>1
    <3>2. CASE d # c
      <4>1. channels'[d] = channels[d]
        BY <1>4, <3>2
      <4>2. channels[d].in_service <=> \E i \in 1 .. Len(nest) : nest[i] = d
        BY <1>6 DEF IInv, ServiceNests
      <4>3. (\E i \in 1 .. Len(nest) : nest[i] = d) <=> \E i \in DOMAIN nest' : nest'[i] = d
        BY <1>6, <3>2
      <4> QED
        BY <4>1, <4>2, <4>3
    <3> QED
      BY <3>1, <3>2
  <2>2. ASSUME NEW i \in DOMAIN nest', NEW j \in DOMAIN nest', i < j
        PROVE  nest'[j] < nest'[i]
    <3>1. CASE j \in 1 .. Len(nest)
      <4>1. i \in 1 .. Len(nest)
        BY <1>6, <2>2, <3>1
      <4> QED
        BY <1>6, <2>2, <3>1, <4>1 DEF IInv, ServiceNests
    <3>2. CASE j = Len(nest) + 1
      BY <1>6, <1>9, <2>2, <3>2
    <3> QED
      BY <1>6, <3>1, <3>2
  <2> QED
    BY <2>1, <2>2 DEF ServiceNests
<1>11. elapsed' \in 0 .. MaxElapsed /\ status' \subseteq Channels
  BY <1>3 DEF IInv, TypeOK
<1>12. hardware' \in BOOLEAN
  BY <1>3 DEF IInv, TypeOK
<1>13. TypeOK'
  BY <1>4, <1>6, <1>11, <1>12 DEF TypeOK, AllSound, Bank, Sound
<1>14. ChannelsCoherent'
  BY <1>4 DEF ChannelsCoherent, AllSound, Sound
<1>15. StatusCoversRequests'
  BY <1>2, <1>3, <1>4 DEF IInv, StatusCoversRequests
<1>16. IInv'
  BY <1>10, <1>13, <1>14, <1>15 DEF IInv
<1> QED
  BY <1>4, <1>16

(* RETI's lowest channel in service is the one acknowledged last.            *)
LEMMA RetiIInv ==
    ASSUME IInv, NEW c \in Channels, Reti(c)
    PROVE  /\ IInv'
           /\ nest # <<>> /\ nest[Len(nest)] = c
           /\ \A d \in Channels : channels'[d].pending = channels[d].pending
<1> DEFINE set == [channels[c] EXCEPT !.in_service = FALSE]
           n == Len(nest)
<1>1. AllSound(channels) /\ Sound(channels[c])
  BY IInvSound DEF AllSound
<1>2. Sound(set) /\ set.pending = channels[c].pending /\ ~set.in_service
  BY <1>1, FlagsSound
<1>3. /\ channels' = [channels EXCEPT ![c] = set]
      /\ nest' = SubSeq(nest, 1, n - 1)
      /\ UNCHANGED <<status, elapsed, hardware>>
      /\ channels[c].in_service
      /\ \A d \in 0 .. c - 1 : ~channels[d].in_service
  BY Zenon DEF Reti
<1> HIDE DEF set
<1>4. /\ AllSound(channels')
      /\ channels'[c] = set
      /\ \A d \in Channels \ {c} : channels'[d] = channels[d]
  BY <1>1, <1>2, <1>3, OneChannel
<1>5. nest \in Seq(Channels) /\ Channels \subseteq Nat
  BY CtcAssumption DEF IInv, TypeOK, Channels
<1>6. n \in Nat /\ DOMAIN nest = 1 .. n
  BY <1>5
<1>7. PICK m \in 1 .. n : nest[m] = c
  BY <1>3, <1>6 DEF IInv, ServiceNests
<1>8. n \in 1 .. n /\ nest[n] \in Channels /\ channels[nest[n]].in_service
  <2>1. n \in 1 .. n /\ n \in DOMAIN nest
    BY <1>6, <1>7
  <2>2. nest[n] \in Channels
    BY <1>5, <2>1
  <2>3. channels[nest[n]].in_service
    BY <2>1, <2>2 DEF IInv, ServiceNests
  <2> QED
    BY <2>1, <2>2, <2>3
<1>9. nest[n] \in Nat /\ c \in Nat /\ nest[n] >= c
  <2>1. nest[n] \in Nat /\ c \in Nat
    BY <1>5, <1>8
  <2>2. nest[n] \notin 0 .. c - 1
    BY <1>3, <1>8
  <2> QED
    BY <2>1, <2>2
<1>10. m < n => nest[n] < c
  BY <1>6, <1>7, <1>8 DEF IInv, ServiceNests
<1> HIDE DEF n
<1>11. m = n /\ nest[n] = c
  <2>1. ~(m < n)
    BY <1>9, <1>10
  <2>2. m = n
    BY <1>6, <1>7, <2>1
  <2> QED
    BY <1>7, <2>2
<1>12. /\ nest' \in Seq(Channels) /\ DOMAIN nest' = 1 .. n - 1
       /\ \A i \in 1 .. n - 1 : nest'[i] = nest[i]
  BY <1>3, <1>5, <1>6, <1>8 DEF n
<1>13. \A i \in 1 .. n - 1 : nest[i] # c
  <2>1. ASSUME NEW i \in 1 .. n - 1
        PROVE  nest[i] # c
    <3>1. i \in DOMAIN nest /\ n \in DOMAIN nest /\ i < n
      BY <1>6, <1>8
    <3>2. nest[n] < nest[i]
      BY <3>1 DEF IInv, ServiceNests
    <3> QED
      BY <1>5, <1>11, <3>2
  <2> QED
    BY <2>1
<1>14. ServiceNests'
  <2>1. ASSUME NEW d \in Channels
        PROVE  channels'[d].in_service <=> \E i \in DOMAIN nest' : nest'[i] = d
    <3>1. CASE d = c
      BY <1>2, <1>4, <1>12, <1>13, <3>1
    <3>2. CASE d # c
      <4>1. channels'[d] = channels[d]
        BY <1>4, <3>2
      <4>2. channels[d].in_service <=> \E i \in 1 .. n : nest[i] = d
        BY <1>6 DEF IInv, ServiceNests
      <4>3. \A i \in 1 .. n : nest[i] = d => i \in 1 .. n - 1
        BY <1>6, <1>11, <3>2
      <4>4. (\E i \in 1 .. n : nest[i] = d) <=> \E i \in DOMAIN nest' : nest'[i] = d
        BY <1>6, <1>12, <4>3
      <4> QED
        BY <4>1, <4>2, <4>4
    <3> QED
      BY <3>1, <3>2
  <2>2. ASSUME NEW i \in DOMAIN nest', NEW j \in DOMAIN nest', i < j
        PROVE  nest'[j] < nest'[i]
    <3>1. i \in 1 .. n - 1 /\ j \in 1 .. n - 1 /\ i \in DOMAIN nest /\ j \in DOMAIN nest
      BY <1>6, <1>12
    <3> QED
      BY <1>12, <2>2, <3>1 DEF IInv, ServiceNests
  <2> QED
    BY <2>1, <2>2 DEF ServiceNests
<1>15. elapsed' \in 0 .. MaxElapsed /\ status' \subseteq Channels
  BY <1>3 DEF IInv, TypeOK
<1>16. hardware' \in BOOLEAN
  BY <1>3 DEF IInv, TypeOK
<1>17. TypeOK'
  BY <1>4, <1>12, <1>15, <1>16 DEF TypeOK, AllSound, Bank, Sound
<1>18. ChannelsCoherent'
  BY <1>4 DEF ChannelsCoherent, AllSound, Sound
<1>19. StatusCoversRequests'
  BY <1>2, <1>3, <1>4 DEF IInv, StatusCoversRequests
<1>20. IInv'
  BY <1>14, <1>17, <1>18, <1>19 DEF IInv
<1>21. \A d \in Channels : channels'[d].pending = channels[d].pending
  BY <1>2, <1>4
<1>22. nest # <<>> /\ nest[Len(nest)] = c
  BY <1>5, <1>8, <1>11 DEF n
<1> QED
  BY <1>20, <1>21, <1>22

-----------------------------------------------------------------------------
(* The theorems. *)

LEMMA NextIInv == ASSUME IInv, [Next]_vars PROVE IInv'
<1>1. CASE Next
  <2>1. ASSUME NEW c \in Channels,
               \/ \E byte \in ConstantBytes[c] : WriteConstant(c, byte)
               \/ \E w \in ControlWords[c] : WriteControl(c, w)
               \/ Acknowledge(c)
               \/ AcknowledgePulse(c)
               \/ Reti(c)
        PROVE  IInv'
    BY <2>1, WriteConstantIInv, WriteControlIInv, AcknowledgeIInv, AcknowledgePulseIInv, RetiIInv
  <2>2. ASSUME NEW clocks \in 1 .. MaxElapsed, AdvanceTo(clocks)
        PROVE  IInv'
    BY <2>2, AdvanceToIInv
  <2>3. CASE AdvanceTurn
    BY <2>3, AdvanceTurnIInv
  <2>4. ASSUME NEW mask \in Masks, WriteInterruptEnable(mask) \/ ClearInterruptStatus(mask)
        PROVE  IInv'
    BY <2>4, WriteInterruptEnableIInv, ClearInterruptStatusIInv
  <2>5. ASSUME NEW mode \in BOOLEAN, WriteInterruptControl(mode)
        PROVE  IInv'
    BY <2>5, WriteInterruptControlIInv
  <2>6. CASE SoftReset
    BY <2>6, SoftResetIInv
  <2> QED
    BY <1>1, <2>1, <2>2, <2>3, <2>4, <2>5, <2>6 DEF Next
<1>2. CASE UNCHANGED vars
  BY <1>2 DEF vars, IInv, TypeOK, ChannelsCoherent, StatusCoversRequests, ServiceNests
<1> QED
  BY <1>1, <1>2

(* The checked invariants together are inductive, whatever the number of     *)
(* channels, the prescales, the time constants and the words written.        *)
THEOREM CtcInvariance == Spec => []IInv
<1>1. Init => IInv
  BY InitIInv
<1>2. IInv /\ [Next]_vars => IInv'
  BY NextIInv
<1> QED
  BY <1>1, <1>2, PTL DEF Spec

(* Types, and no prescaler is left at zero between two turns of the clock.   *)
THEOREM CtcTypeCorrect == Spec => []TypeOK
<1>1. IInv => TypeOK
  BY DEF IInv
<1> QED
  BY <1>1, CtcInvariance, PTL

(* A configured channel counts between 1 and its time constant, and nothing  *)
(* runs or requests an interrupt unconfigured.                               *)
THEOREM ChannelsStayCoherent == Spec => []ChannelsCoherent
<1>1. IInv => ChannelsCoherent
  BY DEF IInv
<1> QED
  BY <1>1, CtcInvariance, PTL

(* A pending request is always visible in NextReg $C9.                       *)
THEOREM RequestsArePollable == Spec => []StatusCoversRequests
<1>1. IInv => StatusCoversRequests
  BY DEF IInv
<1> QED
  BY <1>1, CtcInvariance, PTL

(* Service nests by priority, and RETI releases the latest acknowledged.     *)
THEOREM ServiceNesting == Spec => []ServiceNests
<1>1. IInv => ServiceNests
  BY DEF IInv
<1> QED
  BY <1>1, CtcInvariance, PTL

(* A request is dropped by resetting its channel or by being the one the     *)
(* chain offers.                                                             *)
THEOREM RequestOrder == Spec => RequestsLeaveInOrder
<1> DEFINE Kept(c) ==
        channels[c].pending /\ ~channels'[c].pending =>
             \/ ~channels'[c].configured
             \/ /\ channels[c].interrupt
                /\ \A d \in 0 .. c : ~channels[d].in_service
                /\ \A d \in 0 .. c - 1 : ~(channels[d].pending /\ channels[d].interrupt)
<1>1. ASSUME IInv, Next, NEW c \in Channels
      PROVE  Kept(c)
  <2>0. ASSUME NEW d \in Channels, Offered(d),
               \A e \in Channels \ {d} : channels'[e].pending = channels[e].pending
        PROVE  Kept(c)
    BY <2>0 DEF Offered, Requests
  <2>1. ASSUME NEW d \in Channels, NEW byte \in ConstantBytes[d], WriteConstant(d, byte)
        PROVE  Kept(c)
    <3>1. AllSound(channels)
      BY <1>1, IInvSound
    <3>2. Sound(channels[d]) /\ byte \in 0 .. FullConstant - 1
      BY <3>1, CtcAssumption DEF AllSound
    <3>3. LoadConstant(channels[d], byte).pending = channels[d].pending
      BY <3>2, LoadConstantSound
    <3>4. channels' = [channels EXCEPT ![d] = LoadConstant(channels[d], byte)]
      BY <2>1 DEF WriteConstant
    <3>5. channels \in [Channels -> Channel]
      BY <3>1 DEF AllSound, Bank
    <3> QED
      BY <3>3, <3>4, <3>5
  <2>2. ASSUME NEW d \in Channels, NEW w \in ControlWords[d], WriteControl(d, w)
        PROVE  Kept(c)
    BY <1>1, <2>2, WriteControlIInv
  <2>3. ASSUME NEW d \in Channels, Acknowledge(d)
        PROVE  Kept(c)
    <3>1. Offered(d)
      BY <2>3 DEF Acknowledge
    <3> QED
      BY <1>1, <2>0, <2>3, <3>1, AcknowledgeIInv
  <2>4. ASSUME NEW d \in Channels, AcknowledgePulse(d)
        PROVE  Kept(c)
    <3>1. Offered(d)
      BY <2>4 DEF AcknowledgePulse
    <3> QED
      BY <1>1, <2>0, <2>4, <3>1, AcknowledgePulseIInv
  <2>5. ASSUME NEW d \in Channels, Reti(d)
        PROVE  Kept(c)
    BY <1>1, <2>5, RetiIInv
  <2>6. ASSUME NEW clocks \in 1 .. MaxElapsed, AdvanceTo(clocks)
        PROVE  Kept(c)
    BY <2>6 DEF AdvanceTo
  <2>7. CASE AdvanceTurn
    BY <1>1, <2>7, AdvanceTurnIInv
  <2>8. ASSUME NEW mask \in Masks, WriteInterruptEnable(mask)
        PROVE  Kept(c)
    BY <1>1, <2>8, WriteInterruptEnableIInv
  <2>9. ASSUME NEW mask \in Masks, ClearInterruptStatus(mask)
        PROVE  Kept(c)
    BY <2>9 DEF ClearInterruptStatus
  <2>10. ASSUME NEW mode \in BOOLEAN, WriteInterruptControl(mode)
         PROVE  Kept(c)
    BY <2>10 DEF WriteInterruptControl
  <2>11. CASE SoftReset
    BY <2>11 DEF SoftReset, DefaultChannel
  <2> HIDE DEF Kept
  <2> QED
    BY <1>1, <2>1, <2>2, <2>3, <2>4, <2>5, <2>6, <2>7, <2>8, <2>9, <2>10, <2>11 DEF Next
<1>2. ASSUME IInv, [Next]_vars
      PROVE  [\A c \in Channels : Kept(c)]_vars
  BY <1>1, <1>2
<1>3. IInv /\ [Next]_vars => [\A c \in Channels : Kept(c)]_vars
  BY <1>2
<1> QED
  BY <1>3, CtcInvariance, PTL DEF Spec, RequestsLeaveInOrder

-----------------------------------------------------------------------------
(* Skipping clocks. *)

(* A turn that ends before any prescaler does only ages the timers.          *)
LEMMA QuietTurn ==
    ASSUME NEW chs, AllSound(chs), NEW k \in Nat \ {0, 1},
           \A c \in Channels : Timing(chs[c]) => k <= chs[c].prescaler_left
    PROVE  /\ Advance(chs, k - 1) = [channels |-> Elapse(chs, k - 1), over |-> {}]
           /\ Elapse(Elapse(chs, k - 1), 1) = Elapse(chs, k)
<1> DEFINE aged == Elapse(chs, k - 1)
<1>1. ASSUME NEW c \in Channels
      PROVE  /\ ~Due(aged[c])
             /\ Elapse(aged, 1)[c] = Elapse(chs, k)[c]
  <2> DEFINE ch == chs[c]
             next == [ch EXCEPT !.prescaler_left = ch.prescaler_left - (k - 1)]
             left == IF ch.prescaler_left > k THEN ch.prescaler_left - k ELSE 0
             end == [ch EXCEPT !.prescaler_left = left]
             again == [next EXCEPT !.prescaler_left =
                          IF next.prescaler_left > 1 THEN next.prescaler_left - 1 ELSE 0]
  <2>0. ch \in Channel /\ ch.prescaler_left \in Nat \ {0}
    BY CtcAssumption DEF AllSound, Sound, Channel
  <2>1. CASE ~Timing(ch)
    <3>1. aged[c] = ch /\ Elapse(chs, k)[c] = ch
      BY <2>1 DEF Elapse
    <3>2. Elapse(aged, 1)[c] = ch
      BY <2>1, <3>1 DEF Elapse
    <3>3. ~Due(ch)
      BY <2>0 DEF Due
    <3> QED
      BY <3>1, <3>2, <3>3
  <2>2. CASE Timing(ch)
    <3>1. k <= ch.prescaler_left
      BY <2>2
    <3>2. aged[c] = next
      BY <2>0, <2>2, <3>1 DEF Elapse
    <3>3. /\ next.prescaler_left = ch.prescaler_left - (k - 1)
          /\ next.running = ch.running /\ next.configured = ch.configured
          /\ next.counting = ch.counting
      BY <2>0 DEF Channel
    <3>4. Timing(next) /\ ~Due(next)
      BY <2>0, <2>2, <3>1, <3>3 DEF Timing, Due
    <3>5. Elapse(aged, 1)[c] = again
      BY <3>2, <3>4 DEF Elapse
    <3>6. Elapse(chs, k)[c] = end
      BY <2>2 DEF Elapse
    <3>7. (IF next.prescaler_left > 1 THEN next.prescaler_left - 1 ELSE 0) = left
      BY <2>0, <3>1, <3>3
    <3>8. again = [next EXCEPT !.prescaler_left = left]
      BY <3>7
    <3> HIDE DEF left
    <3>9. [next EXCEPT !.prescaler_left = left] = end
      BY <2>0 DEF Channel
    <3> QED
      BY <3>2, <3>4, <3>5, <3>6, <3>8, <3>9
  <2> QED
    BY <2>1, <2>2
<1>2. DueChannels(aged) = {}
  BY <1>1 DEF DueChannels
<1>3. Advance(chs, k - 1) = [channels |-> aged, over |-> {}]
  BY <1>2 DEF Advance
<1>4. Elapse(aged, 1) = Elapse(chs, k)
  <2>1. /\ Elapse(aged, 1) = [c \in Channels |-> Elapse(aged, 1)[c]]
        /\ Elapse(chs, k) = [c \in Channels |-> Elapse(chs, k)[c]]
    BY DEF Elapse
  <2> HIDE DEF aged
  <2> QED
    BY <1>1, <2>1
<1> QED
  BY <1>3, <1>4

(* advance_to, which jumps from one prescaler event to the next, plays every *)
(* tick that a clock-by-clock run would play, for every prescale.            *)
THEOREM SkippingExactness == Spec => []SkippingIsExact
<1>1. IInv => SkippingIsExact
  <2> SUFFICES ASSUME IInv, NEW k \in 2 .. LongPrescale, IsTurn(channels, k, k)
               PROVE  LET before == Advance(channels, k - 1)
                          after == Advance(before.channels, 1)
                      IN  /\ Advance(channels, k).channels = after.channels
                          /\ Advance(channels, k).over = before.over \cup after.over
    BY DEF SkippingIsExact
  <2> DEFINE aged == Elapse(channels, k - 1)
  <2>1. AllSound(channels) /\ k \in Nat \ {0, 1}
    BY IInvSound, CtcAssumption
  <2>2. \A c \in Channels : Timing(channels[c]) => k <= channels[c].prescaler_left
    BY <2>1, CtcAssumption DEF IsTurn, AtLeastOne, AllSound, Sound, Channel
  <2>3. /\ Advance(channels, k - 1) = [channels |-> aged, over |-> {}]
        /\ Elapse(aged, 1) = Elapse(channels, k)
    BY <2>1, <2>2, QuietTurn
  <2>4. Advance(aged, 1) = Advance(channels, k)
    BY <2>3 DEF Advance
  <2> QED
    BY <2>3, <2>4
<1> QED
  BY <1>1, CtcInvariance, PTL

-----------------------------------------------------------------------------
(* tick's queue, for rings of any size.                                      *)

(* A set of natural numbers has a least one.                                 *)
LEMMA LeastNatural ==
    ASSUME NEW S \in SUBSET Nat, S # {}
    PROVE  \E x \in S : \A y \in S : x <= y
<1>1. PICK x \in S : \A y \in S : ~(<<y, x>> \in OpToRel(<, Nat))
  BY NatLessThanWellFounded, WFMin
<1>2. ASSUME NEW y \in S
      PROVE  x <= y
  <2>1. x \in Nat /\ y \in Nat
    OBVIOUS
  <2>2. ~(y < x)
    <3>1. y < x => <<y, x>> \in OpToRel(<, Nat)
      BY <2>1 DEF OpToRel
    <3> QED
      BY <1>1, <3>1
  <2> QED
    BY <2>1, <2>2
<1> QED
  BY <1>2

(* Going around the ring.                                                    *)
LEMMA RingAfter ==
    ASSUME NEW c \in Ring!Channels, NEW n \in 0 .. RingSize
    PROVE  /\ Ring!After(c, n) \in Ring!Channels
           /\ n < RingSize => Ring!After(Ring!After(c, n), 1) = Ring!After(c, n + 1)
           /\ n = 0 => Ring!After(c, n) = c
           /\ n = RingSize => Ring!After(c, n) = c
<1>0. RingSize \in Nat \ {0} /\ c \in 0 .. RingSize - 1
  BY RingAssumption DEF Ring!Channels
<1>1. ASSUME NEW x \in 0 .. RingSize - 1
      PROVE  x % RingSize = x
  BY <1>0
<1>2. ASSUME NEW x \in RingSize .. 2 * RingSize - 1
      PROVE  x % RingSize = x - RingSize
  BY <1>0
<1>3. CASE c + n < RingSize
  <2>1. Ring!After(c, n) = c + n
    BY <1>0, <1>1, <1>3 DEF Ring!After
  <2> QED
    BY <1>0, <1>3, <2>1 DEF Ring!After, Ring!Channels
<1>4. CASE c + n >= RingSize
  <2>1. Ring!After(c, n) = c + n - RingSize
    BY <1>0, <1>2, <1>4 DEF Ring!After
  <2>2. ASSUME n < RingSize
        PROVE  Ring!After(Ring!After(c, n), 1) = Ring!After(c, n + 1)
    <3>1. Ring!After(c, n + 1) = c + n + 1 - RingSize
      BY <1>0, <1>2, <1>4, <2>2 DEF Ring!After
    <3>2. Ring!After(Ring!After(c, n), 1) = c + n - RingSize + 1
      BY <1>0, <1>1, <1>4, <2>1, <2>2 DEF Ring!After
    <3> QED
      BY <1>0, <3>1, <3>2
  <2> QED
    BY <1>0, <1>4, <2>1, <2>2 DEF Ring!Channels
<1> QED
  BY <1>0, <1>3, <1>4

(* The neighbour of a channel of the cascade is of the cascade, if it passes *)
(* the edge on.                                                              *)
LEMMA RingCascadeClosed ==
    ASSUME NEW chs, NEW timers \in SUBSET Ring!Channels,
           NEW s \in Ring!Cascade(chs, timers), NEW c, c = Ring!After(s, 1),
           c \notin timers, Ring!Carries(chs[c])
    PROVE  c \in Ring!Cascade(chs, timers)
<1>0. RingSize \in Nat \ {0}
  BY RingAssumption
<1>1. PICK t \in timers, n \in 0 .. RingSize - 1 :
          /\ s = Ring!After(t, n)
          /\ \A i \in 1 .. n : Ring!After(t, i) \notin timers
                               /\ Ring!Carries(chs[Ring!After(t, i)])
  <2>1. CASE s \in timers
    <3>1. s = Ring!After(s, 0) /\ 0 \in 0 .. RingSize - 1 /\ 1 .. 0 = {}
      BY <1>0, <2>1, RingAfter
    <3> QED
      BY <2>1, <3>1
  <2>2. CASE s \notin timers
    <3>1. \A n \in 1 .. RingSize - 1 : n \in 0 .. RingSize - 1
      BY <1>0
    <3> QED
      BY <2>2, <3>1 DEF Ring!Cascade
  <2> QED
    BY <2>1, <2>2
<1>2. n \in 0 .. RingSize /\ n < RingSize /\ n + 1 \in 0 .. RingSize
  BY <1>0
<1>3. c = Ring!After(t, n + 1) /\ c \in Ring!Channels
  BY <1>1, <1>2, RingAfter
<1>4. n + 1 # RingSize
  BY <1>2, <1>3, RingAfter
<1>5. n + 1 \in 1 .. RingSize - 1
  BY <1>0, <1>2, <1>4
<1>6. \A i \in 1 .. n + 1 : Ring!After(t, i) \notin timers
                            /\ Ring!Carries(chs[Ring!After(t, i)])
  <2>1. \A i \in 1 .. n + 1 : i \in 1 .. n \/ i = n + 1
    BY <1>2
  <2> QED
    BY <1>1, <1>3, <2>1
<1> QED
  BY <1>3, <1>5, <1>6 DEF Ring!Cascade

(* Nothing else is: a set that holds the timers and with a channel its       *)
(* neighbour, if that passes the edge on, holds the cascade.                 *)
LEMMA RingCascadeLeast ==
    ASSUME NEW chs, NEW timers \in SUBSET Ring!Channels, NEW over, timers \subseteq over,
           \A s \in over : LET c == Ring!After(s, 1)
                           IN  c \notin timers /\ Ring!Carries(chs[c]) => c \in over
    PROVE  Ring!Cascade(chs, timers) \subseteq over
<1>0. RingSize \in Nat \ {0}
  BY RingAssumption
<1>1. SUFFICES ASSUME NEW t \in timers, NEW n \in 1 .. RingSize - 1,
                      \A i \in 1 .. n : Ring!After(t, i) \notin timers
                                        /\ Ring!Carries(chs[Ring!After(t, i)]),
                      Ring!After(t, n) \notin over
               PROVE  FALSE
  BY DEF Ring!Cascade
<1> DEFINE missed == {i \in Nat : i \in 1 .. n /\ Ring!After(t, i) \notin over}
<1>2. missed \in SUBSET Nat /\ missed # {}
  BY <1>0, <1>1
<1>3. PICK m \in missed : \A k \in missed : m <= k
  <2> HIDE DEF missed
  <2> QED
    BY <1>2, LeastNatural
<1>4. m \in 1 .. n /\ m - 1 \in 0 .. RingSize /\ m - 1 < RingSize /\ (m - 1) + 1 = m /\ m - 1 \in Nat
  BY <1>0, <1>3
<1>5. Ring!After(t, m - 1) \in over
  <2>1. CASE m = 1
    BY <1>4, <2>1, RingAfter
  <2>2. CASE m # 1
    <3>1. m - 1 \in 1 .. n /\ ~(m <= m - 1)
      BY <1>4, <2>2
    <3>2. m - 1 \notin missed
      BY <1>3, <3>1
    <3> QED
      BY <1>4, <3>1, <3>2
  <2> QED
    BY <2>1, <2>2
<1>6. Ring!After(Ring!After(t, m - 1), 1) = Ring!After(t, m)
  BY <1>4, RingAfter
<1>7. Ring!After(t, m) \in over
  BY <1>1, <1>4, <1>5, <1>6
<1> QED
  BY <1>3, <1>7

(* The functions that Listed and Drain define by recursion exist.             *)
IsListing(f, timers, N) ==
    f = [n \in 0..N |->
            IF n = 0 THEN <<>>
            ELSE IF n - 1 \in timers THEN Append(f[n - 1], n - 1) ELSE f[n - 1]]

LEMMA ListingExists ==
    ASSUME NEW timers, NEW N \in Nat
    PROVE  \E f : IsListing(f, timers, N)
<1> DEFINE Is(f, m) == IsListing(f, timers, m)
           none == {m \in Nat : ~ \E f : Is(f, m)}
<1>1. SUFFICES none = {}
  OBVIOUS
<1>2. SUFFICES ASSUME none # {} PROVE FALSE
  OBVIOUS
<1>3. PICK m \in none : \A k \in none : m <= k
  <2> HIDE DEF none
  <2>1. none \in SUBSET Nat
    BY DEF none
  <2> QED
    BY <1>2, <2>1, LeastNatural
<1>4. m # 0
  <2>1. Is([n \in 0..0 |-> <<>>], 0)
    BY DEF IsListing
  <2> QED
    BY <2>1
<1>5. PICK f : Is(f, m - 1)
  <2>1. m - 1 \in Nat /\ ~(m <= m - 1)
    BY <1>4
  <2> QED
    BY <1>3, <2>1
<1>6. \E g : Is(g, m)
  <2> DEFINE entry(h, n) ==
                IF n - 1 \in timers THEN Append(h[n - 1], n - 1) ELSE h[n - 1]
             g == [n \in 0..m |-> IF n = m THEN entry(f, m) ELSE f[n]]
  <2>1. ASSUME NEW n \in 0..m
        PROVE  g[n] = IF n = 0 THEN <<>> ELSE entry(g, n)
    <3>1. CASE n = m
      <4>1. m - 1 \in 0..m /\ m - 1 # m
        BY <1>4
      <4>2. g[m - 1] = f[m - 1]
        BY <4>1
      <4> QED
        BY <1>4, <3>1, <4>2
    <3>2. CASE n # m
      <4>1. n \in 0..(m - 1)
        BY <3>2
      <4>2. f[n] = IF n = 0 THEN <<>> ELSE entry(f, n)
        BY <1>5, <4>1 DEF IsListing
      <4>3. n # 0 => n - 1 \in 0..m /\ n - 1 # m
        BY <4>1
      <4>4. n # 0 => g[n - 1] = f[n - 1]
        BY <4>3
      <4> QED
        BY <3>2, <4>2, <4>4
    <3> QED
      BY <3>1, <3>2
  <2>2. g = [n \in 0..m |-> IF n = 0 THEN <<>> ELSE entry(g, n)]
    <3> HIDE DEF g
    <3>1. DOMAIN g = 0..m /\ g = [n \in DOMAIN g |-> g[n]]
      BY DEF g
    <3> QED
      BY <2>1, <3>1, Zenon
  <2> QED
    BY <2>2 DEF IsListing
<1> QED
  BY <1>3, <1>6

IsWalk(f, start, N) == f = [n \in 0..N |-> IF n = 0 THEN start ELSE Walk(f[n - 1])]

LEMMA WalkExists ==
    ASSUME NEW start, NEW N \in Nat
    PROVE  \E f : IsWalk(f, start, N)
<1> DEFINE Is(f, m) == IsWalk(f, start, m)
           none == {m \in Nat : ~ \E f : Is(f, m)}
<1>1. SUFFICES none = {}
  OBVIOUS
<1>2. SUFFICES ASSUME none # {} PROVE FALSE
  OBVIOUS
<1>3. PICK m \in none : \A k \in none : m <= k
  <2> HIDE DEF none
  <2>1. none \in SUBSET Nat
    BY DEF none
  <2> QED
    BY <1>2, <2>1, LeastNatural
<1>4. m # 0
  <2>1. Is([n \in 0..0 |-> start], 0)
    BY DEF IsWalk
  <2> QED
    BY <2>1
<1>5. PICK f : Is(f, m - 1)
  <2>1. m - 1 \in Nat /\ ~(m <= m - 1)
    BY <1>4
  <2> QED
    BY <1>3, <2>1
<1>6. \E g : Is(g, m)
  <2> DEFINE g == [n \in 0..m |-> IF n = m THEN Walk(f[m - 1]) ELSE f[n]]
  <2>1. ASSUME NEW n \in 0..m
        PROVE  g[n] = IF n = 0 THEN start ELSE Walk(g[n - 1])
    <3>1. CASE n = m
      <4>1. m - 1 \in 0..m /\ m - 1 # m
        BY <1>4
      <4>2. g[m - 1] = f[m - 1]
        BY <4>1
      <4> QED
        BY <1>4, <3>1, <4>2
    <3>2. CASE n # m
      <4>1. n \in 0..(m - 1)
        BY <3>2
      <4>2. f[n] = IF n = 0 THEN start ELSE Walk(f[n - 1])
        BY <1>5, <4>1 DEF IsWalk
      <4>3. n # 0 => n - 1 \in 0..m /\ n - 1 # m
        BY <4>1
      <4>4. n # 0 => g[n - 1] = f[n - 1]
        BY <4>3
      <4> QED
        BY <3>2, <4>2, <4>4
    <3> QED
      BY <3>1, <3>2
  <2>2. g = [n \in 0..m |-> IF n = 0 THEN start ELSE Walk(g[n - 1])]
    <3> HIDE DEF g
    <3>1. DOMAIN g = 0..m /\ g = [n \in DOMAIN g |-> g[n]]
      BY DEF g
    <3> QED
      BY <2>1, <3>1, Zenon
  <2> QED
    BY <2>2 DEF IsWalk
<1> QED
  BY <1>3, <1>6

-----------------------------------------------------------------------------
(* A queue in which each of some channels stands once.                       *)
ListsOnce(queue, over) ==
    /\ queue \in Seq(Ring!Channels)
    /\ over = {queue[i] : i \in 1 .. Len(queue)}
    /\ \A i, j \in 1 .. Len(queue) : queue[i] = queue[j] => i = j

LEMMA OneMoreListed ==
    ASSUME NEW queue, NEW over, ListsOnce(queue, over), NEW c \in Ring!Channels, c \notin over
    PROVE  ListsOnce(Append(queue, c), over \cup {c}) /\ Len(Append(queue, c)) = Len(queue) + 1
<1> DEFINE longer == Append(queue, c)
<1>1. queue \in Seq(Ring!Channels) /\ Len(queue) \in Nat
  BY DEF ListsOnce
<1>2. /\ longer \in Seq(Ring!Channels)
      /\ Len(longer) = Len(queue) + 1
      /\ \A i \in 1 .. Len(queue) : longer[i] = queue[i]
      /\ longer[Len(queue) + 1] = c
  BY <1>1
<1> HIDE DEF longer
<1>3. \A i \in 1 .. Len(longer) : i \in 1 .. Len(queue) \/ i = Len(queue) + 1
  BY <1>1, <1>2
<1>4. \A i \in 1 .. Len(queue) : i \in 1 .. Len(longer) /\ queue[i] \in over /\ queue[i] # c
  BY <1>1, <1>2 DEF ListsOnce
<1>5. over \cup {c} = {longer[i] : i \in 1 .. Len(longer)}
  <2>1. Len(queue) + 1 \in 1 .. Len(longer)
    BY <1>1, <1>2
  <2> QED
    BY <1>2, <1>3, <1>4, <2>1 DEF ListsOnce
<1>6. \A i, j \in 1 .. Len(longer) : longer[i] = longer[j] => i = j
  BY <1>2, <1>3, <1>4 DEF ListsOnce
<1> QED
  BY <1>2, <1>5, <1>6 DEF ListsOnce, longer

(* The array has room for all of them.                                       *)
LEMMA ListsFit ==
    ASSUME NEW queue, NEW over, ListsOnce(queue, over)
    PROVE  Len(queue) \in 0 .. RingSize
<1>0. RingSize \in Nat \ {0} /\ Len(queue) \in Nat /\ queue \in [1 .. Len(queue) -> Ring!Channels]
  BY RingAssumption DEF ListsOnce
<1>1. SUFFICES ASSUME Len(queue) > RingSize PROVE FALSE
  BY <1>0
<1>2. IsFiniteSet(1 .. Len(queue)) /\ Cardinality(1 .. Len(queue)) = Len(queue)
  BY <1>0, FS_Interval
<1>3. IsFiniteSet(Ring!Channels) /\ Cardinality(Ring!Channels) = RingSize
  BY <1>0, FS_Interval DEF Ring!Channels
<1>4. \E i, j \in 1 .. Len(queue) : i # j /\ queue[i] = queue[j]
  BY <1>0, <1>1, <1>2, <1>3, FS_PigeonHole
<1> QED
  BY <1>4 DEF ListsOnce

LEMMA TimersListed ==
    ASSUME NEW timers \in SUBSET Ring!Channels
    PROVE  ListsOnce(Listed(timers), timers)
<1> DEFINE N == RingSize
           upTo[n \in 0..N] ==
               IF n = 0 THEN <<>>
               ELSE IF n - 1 \in timers THEN Append(upTo[n - 1], n - 1)
               ELSE upTo[n - 1]
<1>0. N \in Nat \ {0}
  BY RingAssumption
<1>1. upTo = [n \in 0..N |->
                IF n = 0 THEN <<>>
                ELSE IF n - 1 \in timers THEN Append(upTo[n - 1], n - 1)
                ELSE upTo[n - 1]]
  <2>1. N \in Nat
    BY <1>0
  <2> HIDE DEF N
  <2>2. PICK f : IsListing(f, timers, N)
    BY <2>1, ListingExists
  <2> QED
    BY <2>2, Zenon DEF IsListing
<1>2. Listed(timers) = upTo[N]
  BY Zenon DEF Listed
<1> HIDE DEF upTo
<1> DEFINE first(n) == {c \in timers : c < n}
           wrong == {n \in Nat : n <= N /\ ~ListsOnce(upTo[n], first(n))}
<1>3. wrong = {}
  <2>1. SUFFICES ASSUME wrong # {} PROVE FALSE
    OBVIOUS
  <2>2. PICK n \in wrong : \A k \in wrong : n <= k
    <3>1. wrong \in SUBSET Nat
      OBVIOUS
    <3> HIDE DEF wrong
    <3> QED
      BY <2>1, <3>1, LeastNatural
  <2>3. n \in 0..N /\ n \in Nat
    BY <1>0, <2>2
  <2>4. \A c \in timers : c \in Nat /\ c < N
    BY <1>0 DEF Ring!Channels
  <2>5. CASE n = 0
    <3>1. upTo[0] = <<>> /\ first(0) = {}
      BY <1>0, <1>1, <2>4
    <3>2. ListsOnce(<<>>, {})
      BY DEF ListsOnce
    <3> QED
      BY <2>2, <2>5, <3>1, <3>2
  <2>6. CASE n # 0
    <3>1. n - 1 \in Nat /\ n - 1 <= N /\ ~(n <= n - 1) /\ n - 1 \in Ring!Channels
      BY <1>0, <2>3, <2>6 DEF Ring!Channels
    <3>2. ListsOnce(upTo[n - 1], first(n - 1))
      BY <2>2, <3>1
    <3>3. CASE n - 1 \in timers
      <4>1. upTo[n] = Append(upTo[n - 1], n - 1)
        BY <1>1, <2>3, <2>6, <3>3
      <4>2. first(n) = first(n - 1) \cup {n - 1}
        BY <2>3, <2>4, <2>6, <3>3
      <4>3. n - 1 \notin first(n - 1)
        BY <3>1
      <4>4. ListsOnce(Append(upTo[n - 1], n - 1), first(n - 1) \cup {n - 1})
        <5> HIDE DEF first
        <5> QED
          BY <3>1, <3>2, <4>3, OneMoreListed
      <4> QED
        BY <2>2, <4>1, <4>2, <4>4
    <3>4. CASE n - 1 \notin timers
      <4>1. upTo[n] = upTo[n - 1]
        BY <1>1, <2>3, <2>6, <3>4
      <4>2. first(n) = first(n - 1)
        BY <2>3, <2>4, <2>6, <3>4
      <4> QED
        BY <2>2, <3>2, <4>1, <4>2
    <3> QED
      BY <3>3, <3>4
  <2> QED
    BY <2>5, <2>6
<1>4. ListsOnce(upTo[N], first(N))
  <2>1. N \notin wrong
    BY <1>3
  <2> QED
    BY <1>0, <2>1
<1>5. first(N) = timers
  <2>1. \A c \in timers : c < N
    BY <1>0 DEF Ring!Channels
  <2> HIDE DEF N
  <2> QED
    BY <2>1
<1> QED
  BY <1>2, <1>4, <1>5

-----------------------------------------------------------------------------
(* What the walk keeps: the queue lists the channels that overflowed, all of *)
(* the cascade, and the neighbours of those up to the cursor were triggered. *)
WalkHolds(q, chs, timers) ==
    /\ q = [channels |-> q.channels, over |-> q.over, triggered |-> q.triggered,
            queue |-> q.queue, cursor |-> q.cursor]
    /\ ListsOnce(q.queue, q.over)
    /\ q.cursor \in 0 .. Len(q.queue)
    /\ timers \subseteq q.over /\ q.over \subseteq Ring!Cascade(chs, timers)
    /\ q.over \subseteq q.triggered
    /\ q.triggered = timers \cup {Ring!After(q.queue[i], 1) : i \in 1 .. q.cursor}
    /\ \A c \in q.triggered \ timers : Ring!Carries(chs[c]) <=> c \in q.over
    /\ q.channels = [c \in Ring!Channels |->
                        IF c \in q.triggered \ timers THEN Ring!Trigger(chs[c]) ELSE chs[c]]

LEMMA StartHolds ==
    ASSUME NEW chs, DOMAIN chs = Ring!Channels, chs = [c \in Ring!Channels |-> chs[c]],
           NEW timers \in SUBSET Ring!Channels
    PROVE  WalkHolds(Start(chs, timers), chs, timers)
<1> DEFINE q == Start(chs, timers)
<1>1. q = [channels |-> chs, over |-> timers, triggered |-> timers,
           queue |-> Listed(timers), cursor |-> 0]
  BY DEF Start
<1>2. /\ q.channels = chs /\ q.over = timers /\ q.triggered = timers
      /\ q.queue = Listed(timers) /\ q.cursor = 0
  BY <1>1
<1>3. ListsOnce(q.queue, q.over)
  BY <1>2, TimersListed
<1>4. q.cursor \in 0 .. Len(q.queue) /\ 1 .. q.cursor = {}
  <2>1. Len(q.queue) \in Nat
    BY <1>3 DEF ListsOnce
  <2> QED
    BY <1>2, <2>1
<1>5. q.over \subseteq Ring!Cascade(chs, timers)
  BY <1>2 DEF Ring!Cascade
<1>6. q.triggered \ timers = {}
  BY <1>2
<1>7. q.channels = [c \in Ring!Channels |->
                      IF c \in q.triggered \ timers THEN Ring!Trigger(chs[c]) ELSE chs[c]]
  BY <1>2, <1>6
<1>8. q = [channels |-> q.channels, over |-> q.over, triggered |-> q.triggered,
           queue |-> q.queue, cursor |-> q.cursor]
  BY <1>1, <1>2
<1>9. \A c \in q.triggered \ timers : Ring!Carries(chs[c]) <=> c \in q.over
  BY <1>6
<1>10. WalkHolds(q, chs, timers)
  <2>1. q.triggered = timers \cup {Ring!After(q.queue[i], 1) : i \in 1 .. q.cursor}
    BY <1>2, <1>4
  <2>2. timers \subseteq q.over /\ q.over \subseteq q.triggered
    BY <1>2
  <2> HIDE DEF q
  <2> QED
    BY <1>3, <1>4, <1>5, <1>7, <1>8, <1>9, <2>1, <2>2, Zenon DEF WalkHolds
<1> QED
  BY <1>10

LEMMA WalkKeeps ==
    ASSUME NEW chs, NEW timers \in SUBSET Ring!Channels, NEW q,
           WalkHolds(q, chs, timers), q.cursor # Len(q.queue)
    PROVE  WalkHolds(Walk(q), chs, timers) /\ Walk(q).cursor = q.cursor + 1
<1> DEFINE n == q.cursor + 1
           target == Ring!After(q.queue[n], 1)
           carries == Ring!Carries(q.channels[target])
           next == [q EXCEPT !.cursor = @ + 1]
<1>0. /\ q.queue \in Seq(Ring!Channels) /\ Len(q.queue) \in Nat
      /\ q.cursor \in Nat /\ n \in 1 .. Len(q.queue) /\ n \in Nat
      /\ 1 .. n = (1 .. q.cursor) \cup {n}
      /\ q.over \subseteq Ring!Channels
  BY DEF WalkHolds, ListsOnce
<1>r. next = [channels |-> q.channels, over |-> q.over, triggered |-> q.triggered,
              queue |-> q.queue, cursor |-> n]
  <2>1. q = [channels |-> q.channels, over |-> q.over, triggered |-> q.triggered,
             queue |-> q.queue, cursor |-> q.cursor]
    BY Zenon DEF WalkHolds
  <2>2. ASSUME NEW a, NEW b, NEW c, NEW d, NEW e,
               q = [channels |-> a, over |-> b, triggered |-> c, queue |-> d, cursor |-> e]
        PROVE  next = [channels |-> a, over |-> b, triggered |-> c, queue |-> d,
                       cursor |-> e + 1]
    BY <2>2
  <2> HIDE DEF next
  <2>3. next = [channels |-> q.channels, over |-> q.over, triggered |-> q.triggered,
                queue |-> q.queue, cursor |-> q.cursor + 1]
    BY <2>1, <2>2, Zenon
  <2> QED
    BY <2>3
<1>1. q.queue[n] \in q.over /\ q.queue[n] \in Ring!Channels
  BY <1>0 DEF WalkHolds, ListsOnce
<1>2. target \in Ring!Channels
  <2>1. 1 \in 0 .. RingSize
    BY RingAssumption
  <2> QED
    BY <1>1, <2>1, RingAfter
<1>3. q.triggered \cup {target} = timers \cup {Ring!After(q.queue[i], 1) : i \in 1 .. n}
  BY <1>0 DEF WalkHolds
<1>4. CASE target \in q.triggered
  <2>1. Walk(q) = next
    BY <1>4, Zenon DEF Walk
  <2>3. /\ next.channels = q.channels /\ next.over = q.over /\ next.triggered = q.triggered
        /\ next.queue = q.queue /\ next.cursor = n
    BY <1>r
  <2>4. next.triggered = timers \cup {Ring!After(next.queue[i], 1) : i \in 1 .. next.cursor}
    BY <1>3, <1>4, <2>3
  <2>5. next = [channels |-> next.channels, over |-> next.over, triggered |-> next.triggered,
                queue |-> next.queue, cursor |-> next.cursor]
    BY <1>r, <2>3
  <2>6. next.cursor \in 0 .. Len(next.queue)
    BY <1>0, <2>3
  <2> HIDE DEF next
  <2>7. WalkHolds(next, chs, timers)
    BY <2>3, <2>4, <2>5, <2>6 DEF WalkHolds
  <2> QED
    BY <2>1, <2>3, <2>7
<1>5. CASE target \notin q.triggered
  <2>1. target \notin timers /\ target \notin q.over
    BY <1>5 DEF WalkHolds
  <2>2. q.channels[target] = chs[target]
    BY <1>2, <1>5 DEF WalkHolds
  <2> DEFINE over == IF carries THEN q.over \cup {target} ELSE q.over
             queue == IF carries THEN Append(q.queue, target) ELSE q.queue
             channelsOf == [q.channels EXCEPT ![target] = Ring!Trigger(@)]
             r == [channels |-> channelsOf, over |-> over,
                   triggered |-> q.triggered \cup {target}, queue |-> queue, cursor |-> n]
  <2>3. Walk(q) = r
    <3>1. Walk(q) = [next EXCEPT
                        !.channels[target] = Ring!Trigger(@),
                        !.triggered = @ \cup {target},
                        !.over = IF carries THEN @ \cup {target} ELSE @,
                        !.queue = IF carries THEN Append(@, target) ELSE @]
      BY <1>5, Zenon DEF Walk
    <3> HIDE DEF target, carries, next, n
    <3> QED
      BY <1>r, <3>1
  <2>4. /\ ListsOnce(queue, over)
        /\ Len(queue) \in Nat /\ Len(queue) >= Len(q.queue)
        /\ \A i \in 1 .. Len(q.queue) : queue[i] = q.queue[i]
    <3>1. ListsOnce(q.queue, q.over)
      BY DEF WalkHolds
    <3>2. CASE carries
      <4>1. ListsOnce(Append(q.queue, target), q.over \cup {target})
            /\ Len(Append(q.queue, target)) = Len(q.queue) + 1
        BY <1>2, <2>1, <3>1, OneMoreListed
      <4>2. \A i \in 1 .. Len(q.queue) : Append(q.queue, target)[i] = q.queue[i]
        BY <1>0, <1>2
      <4> QED
        BY <1>0, <3>2, <4>1, <4>2
    <3>3. CASE ~carries
      BY <1>0, <3>1, <3>3
    <3> QED
      BY <3>2, <3>3
  <2>5. q.triggered \cup {target} = timers \cup {Ring!After(queue[i], 1) : i \in 1 .. n}
    <3>1. \A i \in 1 .. n : queue[i] = q.queue[i]
      BY <1>0, <2>4
    <3> HIDE DEF queue, n, target
    <3> QED
      BY <1>3, <3>1
  <2>6. over \subseteq Ring!Cascade(chs, timers)
    <3>1. q.over \subseteq Ring!Cascade(chs, timers)
      BY DEF WalkHolds
    <3>2. carries => target \in Ring!Cascade(chs, timers)
      BY <1>1, <2>1, <2>2, <3>1, RingCascadeClosed
    <3> QED
      BY <3>1, <3>2
  <2>7. \A c \in (q.triggered \cup {target}) \ timers : Ring!Carries(chs[c]) <=> c \in over
    <3>1. \A c \in q.triggered \ timers : Ring!Carries(chs[c]) <=> c \in q.over
      BY DEF WalkHolds
    <3>2. carries <=> Ring!Carries(chs[target])
      BY <2>2
    <3> HIDE DEF target, carries
    <3> QED
      BY <1>5, <2>1, <3>1, <3>2
  <2>8. channelsOf =
            [c \in Ring!Channels |->
                IF c \in (q.triggered \cup {target}) \ timers
                THEN Ring!Trigger(chs[c]) ELSE chs[c]]
    <3>1. q.channels = [c \in Ring!Channels |->
                          IF c \in q.triggered \ timers THEN Ring!Trigger(chs[c]) ELSE chs[c]]
      BY DEF WalkHolds
    <3> HIDE DEF target
    <3>2. channelsOf = [c \in Ring!Channels |->
                            IF c = target THEN Ring!Trigger(q.channels[target]) ELSE q.channels[c]]
      BY <3>1
    <3> QED
      BY <1>2, <2>1, <2>2, <3>1, <3>2
  <2>9. over \subseteq q.triggered \cup {target} /\ timers \subseteq over
    BY DEF WalkHolds
  <2>10. n \in 0 .. Len(queue)
    BY <1>0, <2>4
  <2>11. /\ r.channels = channelsOf /\ r.over = over /\ r.triggered = q.triggered \cup {target}
         /\ r.queue = queue /\ r.cursor = n
         /\ r = [channels |-> r.channels, over |-> r.over, triggered |-> r.triggered,
                 queue |-> r.queue, cursor |-> r.cursor]
    OBVIOUS
  <2> HIDE DEF r, over, queue, channelsOf, target, carries, n
  <2>12. WalkHolds(r, chs, timers)
    BY <2>4, <2>5, <2>6, <2>7, <2>8, <2>9, <2>10, <2>11 DEF WalkHolds
  <2> QED
    BY <2>3, <2>11, <2>12 DEF n
<1> QED
  BY <1>4, <1>5

(* The turns of Drain walk the whole queue.                                  *)
LEMMA DrainHolds ==
    ASSUME NEW chs, NEW timers \in SUBSET Ring!Channels, NEW start,
           WalkHolds(start, chs, timers), start.cursor = 0
    PROVE  WalkHolds(Drain(start), chs, timers) /\ Drain(start).cursor = Len(Drain(start).queue)
<1> DEFINE N == RingSize
           turns[n \in 0..N] == IF n = 0 THEN start ELSE Walk(turns[n - 1])
<1>0. N \in Nat \ {0}
  BY RingAssumption
<1>1. turns = [n \in 0..N |-> IF n = 0 THEN start ELSE Walk(turns[n - 1])]
  <2>1. N \in Nat
    BY <1>0
  <2> HIDE DEF N
  <2>2. PICK f : IsWalk(f, start, N)
    BY <2>1, WalkExists
  <2> QED
    BY <2>2, Zenon DEF IsWalk
<1>2. Drain(start) = turns[N]
  BY Zenon DEF Drain
<1> HIDE DEF turns
<1> DEFINE OK(n) == /\ WalkHolds(turns[n], chs, timers)
                    /\ turns[n].cursor = n \/ turns[n].cursor = Len(turns[n].queue)
           wrong == {n \in Nat : n <= N /\ ~OK(n)}
<1>3. wrong = {}
  <2>1. SUFFICES ASSUME wrong # {} PROVE FALSE
    OBVIOUS
  <2>2. PICK n \in wrong : \A k \in wrong : n <= k
    <3>1. wrong \in SUBSET Nat
      OBVIOUS
    <3> HIDE DEF wrong
    <3> QED
      BY <2>1, <3>1, LeastNatural
  <2>3. n \in 0..N /\ n \in Nat
    BY <1>0, <2>2
  <2>4. n # 0
    <3>1. turns[0] = start
      BY <1>0, <1>1
    <3>2. OK(0)
      BY <3>1
    <3> HIDE DEF OK
    <3> QED
      BY <2>2, <3>2
  <2>5. OK(n - 1)
    <3>1. n - 1 \in Nat /\ n - 1 <= N /\ ~(n <= n - 1)
      BY <1>0, <2>3, <2>4
    <3> HIDE DEF OK
    <3> QED
      BY <2>2, <3>1
  <2>6. turns[n] = Walk(turns[n - 1])
    BY <1>1, <2>3, <2>4
  <2>7. CASE turns[n - 1].cursor = Len(turns[n - 1].queue)
    <3>1. Walk(turns[n - 1]) = turns[n - 1]
      BY <2>7, Zenon DEF Walk
    <3>2. OK(n)
      BY <2>5, <2>6, <2>7, <3>1
    <3> HIDE DEF OK
    <3> QED
      BY <2>2, <3>2
  <2>8. CASE turns[n - 1].cursor # Len(turns[n - 1].queue)
    <3>1. WalkHolds(turns[n], chs, timers) /\ turns[n].cursor = turns[n - 1].cursor + 1
      BY <2>5, <2>6, <2>8, WalkKeeps
    <3>2. OK(n)
      BY <2>3, <2>5, <2>8, <3>1
    <3> HIDE DEF OK
    <3> QED
      BY <2>2, <3>2
  <2> QED
    BY <2>7, <2>8
<1>4. OK(N)
  <2> HIDE DEF OK
  <2> QED
    BY <1>0, <1>3
<1>5. turns[N].cursor = Len(turns[N].queue)
  <2>1. Len(turns[N].queue) \in 0 .. RingSize
    BY <1>4, ListsFit DEF WalkHolds
  <2>2. turns[N].cursor \in 0 .. Len(turns[N].queue)
    BY <1>4 DEF WalkHolds
  <2> QED
    BY <1>0, <1>4, <2>1, <2>2
<1> QED
  BY <1>2, <1>4, <1>5

(* A tick is the walk of its queue, for a ring of any size and any channels. *)
THEOREM TickIsItsQueue ==
    ASSUME NEW chs
    PROVE  LET end == Drain(Start(Ring!CountDue(chs), Ring!TimerOverflows(chs)))
           IN  /\ Len(end.queue) <= RingSize
               /\ end.cursor = Len(end.queue)
               /\ Ring!Tick(chs).channels = end.channels
               /\ Ring!Tick(chs).over = end.over
<1> DEFINE timers == Ring!TimerOverflows(chs)
           counted == Ring!CountDue(chs)
           start == Start(counted, timers)
           end == Drain(start)
           over == Ring!Cascade(counted, timers)
<1>1. timers \in SUBSET Ring!Channels
  BY DEF Ring!TimerOverflows, Ring!DueChannels
<1>2. DOMAIN counted = Ring!Channels /\ counted = [c \in Ring!Channels |-> counted[c]]
  BY DEF Ring!CountDue
<1>3. Ring!Tick(chs) =
        [channels |->
            [c \in Ring!Channels |->
                IF c \in Ring!Triggered(over, timers)
                THEN Ring!Trigger(counted[c]) ELSE counted[c]],
         over |-> over]
  BY Zenon DEF Ring!Tick
<1>4. start.cursor = 0
  BY DEF Start
<1> HIDE DEF timers, counted
<1>5. WalkHolds(start, counted, timers)
  BY <1>1, <1>2, StartHolds
<1> HIDE DEF start
<1>6. WalkHolds(end, counted, timers) /\ end.cursor = Len(end.queue)
  BY <1>1, <1>4, <1>5, DrainHolds
<1> HIDE DEF end, over
<1>7. Len(end.queue) <= RingSize
  <2>1. Len(end.queue) \in 0 .. RingSize
    BY <1>6, ListsFit DEF WalkHolds
  <2> QED
    BY <2>1, RingAssumption
<1>8. end.triggered = timers \cup {Ring!After(s, 1) : s \in end.over}
  BY <1>6 DEF WalkHolds, ListsOnce
<1>9. over = end.over
  <2>1. \A s \in end.over : LET c == Ring!After(s, 1)
                            IN  c \notin timers /\ Ring!Carries(counted[c]) => c \in end.over
    BY <1>6, <1>8 DEF WalkHolds
  <2>2. timers \subseteq end.over
    BY <1>6 DEF WalkHolds
  <2>3. over \subseteq end.over
    BY <1>1, <2>1, <2>2, RingCascadeLeast DEF over
  <2> QED
    BY <1>6, <2>3 DEF WalkHolds, over
<1>10. \A c \in Ring!Channels : c \in Ring!Triggered(over, timers) <=> c \in end.triggered \ timers
  BY <1>8, <1>9 DEF Ring!Triggered
<1>11. Ring!Tick(chs).channels = end.channels
  <2>1. end.channels = [c \in Ring!Channels |->
            IF c \in end.triggered \ timers THEN Ring!Trigger(counted[c]) ELSE counted[c]]
    BY <1>6 DEF WalkHolds
  <2> QED
    BY <1>3, <1>10, <2>1
<1> QED
  BY <1>3, <1>6, <1>7, <1>9, <1>11 DEF end, start, counted, timers

(* The closed form of the cascade, which the other proofs are about, is what *)
(* the code's queue computes, in every state.                                *)
THEOREM CascadeWalksTheQueue == BoardSpec => []CascadeIsTheQueue
<1>1. CascadeIsTheQueue
  BY TickIsItsQueue, Zenon DEF CascadeIsTheQueue
<1> QED
  BY <1>1, PTL

=============================================================================
