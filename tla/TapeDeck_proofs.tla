--------------------------- MODULE TapeDeck_proofs ---------------------------
(* Proofs about the tape deck, for any files, any lengths of pulses and any  *)
(* caps: the end of every expansion, the schedule it leaves, the player of a *)
(* TZX file and how time may be cut, the player of a TAP image, and the load *)
(* that is delivered later.                                                  *)
EXTENDS TapeDeck, SequenceTheorems, WellFoundedInduction, TLAPS

LEMMA LeastNatural ==
    ASSUME NEW S \in SUBSET Nat, S # {}
    PROVE  \E x \in S : \A y \in S : x <= y
<1>1. PICK x \in S : \A y \in S : ~(<<y, x>> \in OpToRel(<, Nat))
  BY NatLessThanWellFounded, WFMin
<1>2. ASSUME NEW y \in S
      PROVE  x <= y
  <2>1. x \in Nat /\ y \in Nat
    OBVIOUS
  <2>2. ~(y < x)
    <3>1. y < x => <<y, x>> \in OpToRel(<, Nat)
      BY <2>1 DEF OpToRel
    <3> QED
      BY <1>1, <3>1
  <2> QED
    BY <2>1, <2>2
<1> QED
  BY <1>2

(* A set of numbers up to a bound has a greatest one.                        *)
LEMMA GreatestNatural ==
    ASSUME NEW S \in SUBSET Nat, S # {}, NEW n \in Nat, \A x \in S : x <= n
    PROVE  Max(S) \in S /\ \A y \in S : y <= Max(S)
<1> DEFINE bounds == {m \in Nat : \A x \in S : x <= m}
<1>1. PICK m \in bounds : \A k \in bounds : m <= k
  <2>1. bounds \in SUBSET Nat /\ bounds # {}
    OBVIOUS
  <2> HIDE DEF bounds
  <2> QED
    BY <2>1, LeastNatural
<1>2. m \in Nat /\ \A x \in S : x <= m
  OBVIOUS
<1>3. m \in S
  <2>1. SUFFICES ASSUME m \notin S PROVE FALSE
    OBVIOUS
  <2>2. m # 0
    <3>1. PICK x \in S : x \in Nat
      OBVIOUS
    <3>2. x <= m /\ x # m
      BY <1>2, <2>1
    <3> QED
      BY <1>2, <3>1, <3>2
  <2>3. m - 1 \in Nat /\ ~(m <= m - 1)
    BY <1>2, <2>2
  <2>4. \A x \in S : x <= m - 1
    BY <1>2, <2>1
  <2>5. m - 1 \in bounds
    BY <2>3, <2>4
  <2> HIDE DEF bounds
  <2> QED
    BY <1>1, <2>3, <2>5
<1> QED
  BY <1>2, <1>3 DEF Max

-----------------------------------------------------------------------------
(* Folding.  FoldLeft picks a function on the sets of indices; that there is *)
(* one follows for the sets up to one index from those up to the index       *)
(* before it.                                                                *)

IsFold(f, g, base, n) ==
    f = [s \in SUBSET (1 .. n) |->
            IF s = {} THEN base ELSE g[Max(s)][f[s \ {Max(s)}]]]

LEMMA MaxOf ==
    ASSUME NEW n \in Nat, NEW s \in SUBSET (1 .. n + 1), n + 1 \in s
    PROVE  Max(s) = n + 1
<1>1. \A y \in s : n + 1 >= y /\ y \in Int
  OBVIOUS
<1>2. \A x \in s : (\A y \in s : x >= y) => x = n + 1
  <2> SUFFICES ASSUME NEW x \in s, \A y \in s : x >= y PROVE x = n + 1
    OBVIOUS
  <2>1. x >= n + 1 /\ n + 1 >= x /\ x \in Int
    BY <1>1
  <2> QED
    BY <2>1
<1> QED
  BY <1>1, <1>2 DEF Max

LEMMA MaxIn ==
    ASSUME NEW n \in Nat, NEW s \in SUBSET (1 .. n), s # {}
    PROVE  Max(s) \in 1 .. n /\ s \ {Max(s)} \in SUBSET (1 .. n)
<1>1. s \in SUBSET Nat /\ \A x \in s : x <= n
  OBVIOUS
<1> QED
  BY <1>1, GreatestNatural

LEMMA UpTo ==
    ASSUME NEW n \in Nat, NEW k \in 1 .. n
    PROVE  /\ Max(1 .. k) = k /\ (1 .. k) \ {k} = 1 .. k - 1
           /\ 1 .. k # {} /\ 1 .. k \in SUBSET (1 .. n)
<1>1. k - 1 \in Nat /\ (k - 1) + 1 = k /\ k \in 1 .. k
  OBVIOUS
<1>2. Max(1 .. k) = k
  BY <1>1, MaxOf
<1> QED
  BY <1>1, <1>2

LEMMA FoldExists ==
    ASSUME NEW W, NEW base \in W, NEW n \in Nat, NEW g \in [1 .. n -> [W -> W]]
    PROVE  \E f \in [SUBSET (1 .. n) -> W] : IsFold(f, g, base, n)
<1> DEFINE Has(m) == \E f \in [SUBSET (1 .. m) -> W] : IsFold(f, g, base, m)
           lacking == {m \in Nat : m <= n /\ ~Has(m)}
<1>1. SUFFICES ASSUME lacking # {} PROVE FALSE
  <2>1. Has(n) <=> \E f \in [SUBSET (1 .. n) -> W] : IsFold(f, g, base, n)
    OBVIOUS
  <2>2. n \notin lacking => Has(n)
    <3> HIDE DEF Has
    <3> QED
      OBVIOUS
  <2> HIDE DEF Has
  <2> QED
    BY <2>1, <2>2
<1>2. PICK m \in lacking : \A k \in lacking : m <= k
  <2>1. lacking \in SUBSET Nat
    OBVIOUS
  <2> HIDE DEF lacking
  <2> QED
    BY <1>1, <2>1, LeastNatural
<1>3. m \in Nat /\ m <= n /\ ~Has(m)
  <2> HIDE DEF Has
  <2> QED
    BY <1>2
<1>4. m # 0
  <2>1. SUFFICES ASSUME m = 0 PROVE FALSE
    OBVIOUS
  <2> DEFINE f == [s \in SUBSET (1 .. 0) |-> base]
  <2>2. SUBSET (1 .. 0) = {{}}
    OBVIOUS
  <2>3. f \in [SUBSET (1 .. 0) -> W]
    OBVIOUS
  <2>4. IsFold(f, g, base, 0)
    BY <2>2 DEF IsFold
  <2> QED
    BY <1>3, <2>1, <2>3, <2>4
<1> DEFINE k == m - 1
<1>5. k \in Nat /\ k <= n /\ m = k + 1 /\ ~(m <= k)
  BY <1>3, <1>4
<1> HIDE DEF k
<1>6. Has(k)
  <2> HIDE DEF Has
  <2> QED
    BY <1>2, <1>5
<1>7. PICK f \in [SUBSET (1 .. k) -> W] : IsFold(f, g, base, k)
  BY <1>6
<1> DEFINE h == [s \in SUBSET (1 .. m) |->
                    IF m \in s THEN g[m][f[s \ {m}]] ELSE f[s]]
<1>8. ASSUME NEW s \in SUBSET (1 .. m)
      PROVE  /\ s \ {m} \in SUBSET (1 .. k)
             /\ m \notin s => s \in SUBSET (1 .. k)
             /\ m \in s => Max(s) = m /\ s # {}
  BY <1>5, MaxOf
<1>9. h \in [SUBSET (1 .. m) -> W]
  <2>1. ASSUME NEW s \in SUBSET (1 .. m)
        PROVE  (IF m \in s THEN g[m][f[s \ {m}]] ELSE f[s]) \in W
    <3>1. m \in 1 .. n
      BY <1>3, <1>4
    <3>2. g[m] \in [W -> W]
      BY <3>1
    <3>3. \A e \in SUBSET (1 .. k) : f[e] \in W
      OBVIOUS
    <3>4. m \in s => g[m][f[s \ {m}]] \in W
      <4>1. f[s \ {m}] \in W
        BY <1>8, <3>3
      <4> QED
        BY <3>2, <4>1
    <3>5. m \notin s => f[s] \in W
      BY <1>8, <3>3
    <3> QED
      BY <3>4, <3>5
  <2> QED
    BY <2>1
<1>10. ASSUME NEW s \in SUBSET (1 .. m)
       PROVE  h[s] = IF s = {} THEN base ELSE g[Max(s)][h[s \ {Max(s)}]]
  <2>1. CASE m \in s
    <3>1. h[s] = g[m][f[s \ {m}]]
      BY <2>1
    <3>2. h[s \ {m}] = f[s \ {m}]
      OBVIOUS
    <3> QED
      BY <1>8, <2>1, <3>1, <3>2
  <2>2. CASE m \notin s
    <3>1. s \in SUBSET (1 .. k)
      BY <1>8, <2>2
    <3>2. h[s] = f[s]
      BY <2>2
    <3>3. f[s] = IF s = {} THEN base ELSE g[Max(s)][f[s \ {Max(s)}]]
      <4> DEFINE F(e) == IF e = {} THEN base ELSE g[Max(e)][f[e \ {Max(e)}]]
      <4>1. f = [e \in SUBSET (1 .. k) |-> F(e)]
        BY <1>7, Zenon DEF IsFold
      <4> HIDE DEF F
      <4>2. f[s] = F(s)
        BY <3>1, <4>1
      <4> QED
        BY <4>2 DEF F
    <3>4. h[s \ {Max(s)}] = f[s \ {Max(s)}]
      BY <2>2
    <3> QED
      BY <3>2, <3>3, <3>4
  <2> QED
    BY <2>1, <2>2
<1>11. IsFold(h, g, base, m)
  <2> DEFINE F(e) == IF e = {} THEN base ELSE g[Max(e)][h[e \ {Max(e)}]]
  <2>1. DOMAIN h = SUBSET (1 .. m) /\ h = [e \in DOMAIN h |-> h[e]]
    BY <1>9
  <2>2. \A e \in SUBSET (1 .. m) : h[e] = F(e)
    BY <1>10
  <2> HIDE DEF h, F
  <2>3. h = [e \in SUBSET (1 .. m) |-> F(e)]
    BY <2>1, <2>2
  <2> QED
    BY <2>3, Zenon DEF F, IsFold
<1> HIDE DEF h
<1> QED
  BY <1>3, <1>9, <1>11

(* Any function that is a fold of typed steps has its values in the type.    *)
LEMMA FoldTyped ==
    ASSUME NEW W, NEW n \in Nat, NEW h, h[{}] \in W,
           \A k \in 1 .. n : h[1 .. k - 1] \in W => h[1 .. k] \in W
    PROVE  h[1 .. n] \in W
<1> DEFINE wrong == {k \in Nat : k <= n /\ h[1 .. k] \notin W}
<1>1. SUFFICES ASSUME wrong # {} PROVE FALSE
  OBVIOUS
<1>2. PICK k \in wrong : \A j \in wrong : k <= j
  <2>1. wrong \in SUBSET Nat
    OBVIOUS
  <2> HIDE DEF wrong
  <2> QED
    BY <1>1, <2>1, LeastNatural
<1>3. k # 0
  <2>1. 1 .. 0 = {}
    OBVIOUS
  <2> QED
    BY <1>2, <2>1
<1>4. k \in 1 .. n /\ k - 1 \in Nat /\ k - 1 <= n /\ ~(k <= k - 1)
  BY <1>2, <1>3
<1>5. h[1 .. k - 1] \in W
  BY <1>2, <1>4
<1> QED
  BY <1>2, <1>4, <1>5

-----------------------------------------------------------------------------
Wave == [pulses : Seq(Pulse), level : BOOLEAN, forceLow : BOOLEAN]

LEMMA EmitOK ==
    ASSUME NEW w \in Wave, NEW t \in Nat, NEW high \in BOOLEAN
    PROVE  Emit(w, t, high) \in Wave
<1> DEFINE pulse == [t |-> t, high |-> high]
<1>1. pulse \in Pulse
  BY DEF Pulse
<1> HIDE DEF pulse
<1>2. Append(w.pulses, pulse) \in Seq(Pulse)
  BY <1>1 DEF Wave
<1> DEFINE more == Append(w.pulses, pulse)
<1>3. Emit(w, t, high) = [w EXCEPT !.pulses = more, !.level = ~high, !.forceLow = FALSE]
  BY Zenon DEF Emit, pulse
<1> HIDE DEF more
<1> QED
  BY <1>2, <1>3 DEF Wave, more

LEMMA PushPulseOK ==
    ASSUME NEW w \in Wave, NEW t \in Nat
    PROVE  PushPulse(w, t) \in Wave
  BY EmitOK DEF PushPulse, Wave

LEMMA AppendPauseOK ==
    ASSUME NEW w \in Wave, NEW t \in Nat
    PROVE  AppendPause(w, t) \in Wave
<1>1. Emit(w, t, w.level) \in Wave
  BY EmitOK DEF Wave
<1> DEFINE q == Emit(w, t, w.level)
<1>2. AppendPause(w, t) = w \/ AppendPause(w, t) = [q EXCEPT !.forceLow = TRUE]
  BY DEF AppendPause
<1> HIDE DEF q
<1>3. [q EXCEPT !.forceLow = TRUE] \in Wave
  BY <1>1 DEF Wave, q
<1> QED
  BY <1>2, <1>3

LEMMA PushAbsoluteLevelOK ==
    ASSUME NEW w \in Wave, NEW high \in BOOLEAN
    PROVE  PushAbsoluteLevel(w, high) \in Wave
<1> DEFINE n == Count(w)
<1>1. n \in Nat /\ n = Len(w.pulses)
  BY DEF Count, Wave
<1>2. CASE n > 0 /\ w.pulses[n].high = high
  <2> DEFINE old == w.pulses[n]
             new == [old EXCEPT !.t = @ + 1]
             pulses == [w.pulses EXCEPT ![n] = new]
  <2>1. old \in Pulse
    BY <1>1, <1>2 DEF Wave
  <2>2. new \in Pulse
    <3> HIDE DEF old
    <3> QED
      BY <2>1 DEF Pulse
  <2>3. pulses \in Seq(Pulse)
    <3>1. w.pulses \in Seq(Pulse)
      BY DEF Wave
    <3>2. DOMAIN pulses = 1 .. Len(w.pulses) /\ Len(w.pulses) \in Nat
      BY <3>1
    <3>3. \A i \in 1 .. Len(w.pulses) : pulses[i] \in Pulse
      <4> HIDE DEF new, n
      <4> QED
        BY <2>2, <3>1
    <3>4. pulses = [i \in DOMAIN pulses |-> pulses[i]]
      OBVIOUS
    <3> HIDE DEF pulses
    <3>5. pulses \in [1 .. Len(w.pulses) -> Pulse]
      BY <3>2, <3>3, <3>4
    <3> QED
      BY <3>2, <3>5, SeqDef
  <2>4. PushAbsoluteLevel(w, high) =
          [w EXCEPT !.pulses = pulses, !.level = ~high, !.forceLow = FALSE]
    <3>1. PushAbsoluteLevel(w, high) =
            [w EXCEPT !.pulses[n].t = @ + 1, !.level = ~high, !.forceLow = FALSE]
      BY <1>2, Zenon DEF PushAbsoluteLevel
    <3> HIDE DEF n
    <3> QED
      BY <3>1
  <2> HIDE DEF pulses
  <2> QED
    BY <2>3, <2>4 DEF Wave
<1>3. CASE ~(n > 0 /\ w.pulses[n].high = high)
  <2>1. PushAbsoluteLevel(w, high) = Emit(w, 1, high)
    BY <1>3, Zenon DEF PushAbsoluteLevel
  <2> QED
    BY <2>1, EmitOK
<1> QED
  BY <1>2, <1>3

LEMMA PolariseOK ==
    ASSUME NEW w \in Wave, NEW polarity \in {"edge", "same", "low", "high"}
    PROVE  Polarise(w, polarity) \in Wave
<1>1. CASE polarity = "edge"
  BY <1>1 DEF Polarise
<1>2. CASE polarity = "same"
  <2>1. Polarise(w, polarity) = [w EXCEPT !.forceLow = FALSE, !.level = ~@]
    BY <1>2 DEF Polarise
  <2> QED
    BY <2>1 DEF Wave
<1>3. CASE polarity = "low"
  <2>1. Polarise(w, polarity) = [w EXCEPT !.forceLow = FALSE, !.level = FALSE]
    BY <1>3 DEF Polarise
  <2> QED
    BY <2>1 DEF Wave
<1>4. CASE polarity = "high"
  <2>1. Polarise(w, polarity) = [w EXCEPT !.forceLow = FALSE, !.level = TRUE]
    BY <1>4 DEF Polarise
  <2> QED
    BY <2>1 DEF Wave
<1> QED
  BY <1>1, <1>2, <1>3, <1>4

(* The folds of typed steps.                                                 *)
LEMMA PushAllOK ==
    ASSUME NEW w \in Wave, NEW times \in Seq(Nat)
    PROVE  PushAll(w, times) \in Wave
<1> DEFINE n == Len(times)
           g == [i \in 1 .. n |-> [x \in Wave |-> PushPulse(x, times[i])]]
           iter[s \in SUBSET DOMAIN times] ==
               IF s = {} THEN w
               ELSE PushPulse(iter[s \ {Max(s)}], times[Max(s)])
<1>1. n \in Nat /\ DOMAIN times = 1 .. n /\ \A i \in 1 .. n : times[i] \in Nat
  OBVIOUS
<1>2. PushAll(w, times) = iter[DOMAIN times]
  BY Zenon DEF PushAll, FoldLeft, MapThenFoldSet
<1>3. g \in [1 .. n -> [Wave -> Wave]]
  BY <1>1, PushPulseOK
<1>4. iter = [s \in SUBSET DOMAIN times |->
                IF s = {} THEN w ELSE PushPulse(iter[s \ {Max(s)}], times[Max(s)])]
  <2> DEFINE F(f, s) == IF s = {} THEN w ELSE PushPulse(f[s \ {Max(s)}], times[Max(s)])
             G(f, s) == IF s = {} THEN w ELSE g[Max(s)][f[s \ {Max(s)}]]
  <2>1. PICK f \in [SUBSET (1 .. n) -> Wave] : IsFold(f, g, w, n)
    <3> HIDE DEF g, n
    <3> QED
      BY <1>1, <1>3, FoldExists
  <2>2. ASSUME NEW s \in SUBSET (1 .. n)
        PROVE  G(f, s) = F(f, s)
    <3>1. CASE s # {}
      <4>1. Max(s) \in 1 .. n /\ f[s \ {Max(s)}] \in Wave
        <5> HIDE DEF n
        <5> QED
          BY <1>1, <3>1, MaxIn
      <4> HIDE DEF n
      <4> QED
        BY <3>1, <4>1
    <3> QED
      BY <3>1
  <2>3. f = [s \in SUBSET (1 .. n) |-> G(f, s)]
    BY <2>1, Zenon DEF IsFold
  <2> HIDE DEF F, G, g, n
  <2>4. f = [s \in SUBSET DOMAIN times |-> F(f, s)]
    BY <1>1, <2>2, <2>3, Zenon
  <2> QED
    BY <2>4, Zenon DEF F
<1> HIDE DEF iter
<1>5. iter[{}] = w
  BY <1>4
<1>6. ASSUME NEW k \in 1 .. n
      PROVE  iter[1 .. k] = PushPulse(iter[1 .. k - 1], times[k])
  <2> HIDE DEF n, g
  <2>1. /\ Max(1 .. k) = k /\ (1 .. k) \ {k} = 1 .. k - 1
        /\ 1 .. k # {} /\ 1 .. k \in SUBSET DOMAIN times
    BY <1>1, UpTo
  <2> QED
    BY <1>4, <2>1
<1>7. iter[1 .. n] \in Wave
  <2>1. \A k \in 1 .. n : iter[1 .. k - 1] \in Wave => iter[1 .. k] \in Wave
    BY <1>1, <1>6, PushPulseOK
  <2> HIDE DEF n
  <2> QED
    BY <1>1, <1>5, <2>1, FoldTyped
<1> QED
  BY <1>1, <1>2, <1>7

LEMMA SamplesOK ==
    ASSUME NEW w \in Wave, NEW samples \in Seq(BOOLEAN)
    PROVE  FoldLeft(PushAbsoluteLevel, w, samples) \in Wave
<1> DEFINE n == Len(samples)
           g == [i \in 1 .. n |-> [x \in Wave |-> PushAbsoluteLevel(x, samples[i])]]
           iter[s \in SUBSET DOMAIN samples] ==
               IF s = {} THEN w
               ELSE PushAbsoluteLevel(iter[s \ {Max(s)}], samples[Max(s)])
<1>1. n \in Nat /\ DOMAIN samples = 1 .. n /\ \A i \in 1 .. n : samples[i] \in BOOLEAN
  OBVIOUS
<1>2. FoldLeft(PushAbsoluteLevel, w, samples) = iter[DOMAIN samples]
  BY Zenon DEF FoldLeft, MapThenFoldSet
<1>3. g \in [1 .. n -> [Wave -> Wave]]
  BY <1>1, PushAbsoluteLevelOK
<1>4. iter = [s \in SUBSET DOMAIN samples |->
                IF s = {} THEN w ELSE PushAbsoluteLevel(iter[s \ {Max(s)}], samples[Max(s)])]
  <2> DEFINE F(f, s) == IF s = {} THEN w ELSE PushAbsoluteLevel(f[s \ {Max(s)}], samples[Max(s)])
             G(f, s) == IF s = {} THEN w ELSE g[Max(s)][f[s \ {Max(s)}]]
  <2>1. PICK f \in [SUBSET (1 .. n) -> Wave] : IsFold(f, g, w, n)
    <3> HIDE DEF g, n
    <3> QED
      BY <1>1, <1>3, FoldExists
  <2>2. ASSUME NEW s \in SUBSET (1 .. n)
        PROVE  G(f, s) = F(f, s)
    <3>1. CASE s # {}
      <4>1. Max(s) \in 1 .. n /\ f[s \ {Max(s)}] \in Wave
        <5> HIDE DEF n
        <5> QED
          BY <1>1, <3>1, MaxIn
      <4> HIDE DEF n
      <4> QED
        BY <3>1, <4>1
    <3> QED
      BY <3>1
  <2>3. f = [s \in SUBSET (1 .. n) |-> G(f, s)]
    BY <2>1, Zenon DEF IsFold
  <2> HIDE DEF F, G, g, n
  <2>4. f = [s \in SUBSET DOMAIN samples |-> F(f, s)]
    BY <1>1, <2>2, <2>3, Zenon
  <2> QED
    BY <2>4, Zenon DEF F
<1> HIDE DEF iter
<1>5. iter[{}] = w
  BY <1>4
<1>6. ASSUME NEW k \in 1 .. n
      PROVE  iter[1 .. k] = PushAbsoluteLevel(iter[1 .. k - 1], samples[k])
  <2> HIDE DEF n, g
  <2>1. /\ Max(1 .. k) = k /\ (1 .. k) \ {k} = 1 .. k - 1
        /\ 1 .. k # {} /\ 1 .. k \in SUBSET DOMAIN samples
    BY <1>1, UpTo
  <2> QED
    BY <1>4, <2>1
<1>7. iter[1 .. n] \in Wave
  <2>1. \A k \in 1 .. n : iter[1 .. k - 1] \in Wave => iter[1 .. k] \in Wave
    BY <1>1, <1>6, PushAbsoluteLevelOK
  <2> HIDE DEF n
  <2> QED
    BY <1>1, <1>5, <2>1, FoldTyped
<1> QED
  BY <1>1, <1>2, <1>7

LEMMA EmitSymbolOK ==
    ASSUME NEW w \in Wave, NEW symbol \in Symbols
    PROVE  EmitSymbol(w, symbol) \in Wave
<1>1. symbol.polarity \in {"edge", "same", "low", "high"} /\ symbol.times \in Seq(Nat)
  BY DEF Symbols
<1>2. Polarise(w, symbol.polarity) \in Wave
  BY <1>1, PolariseOK
<1> DEFINE q == Polarise(w, symbol.polarity)
<1> HIDE DEF q
<1>3. PushAll(q, symbol.times) \in Wave
  BY <1>1, <1>2, PushAllOK DEF q
<1> QED
  BY <1>3, Zenon DEF EmitSymbol, q

LEMMA SymbolsOK ==
    ASSUME NEW w \in Wave, NEW symbols \in Seq(Symbols)
    PROVE  FoldLeft(EmitSymbol, w, symbols) \in Wave
<1> DEFINE n == Len(symbols)
           g == [i \in 1 .. n |-> [x \in Wave |-> EmitSymbol(x, symbols[i])]]
           iter[s \in SUBSET DOMAIN symbols] ==
               IF s = {} THEN w
               ELSE EmitSymbol(iter[s \ {Max(s)}], symbols[Max(s)])
<1>1. n \in Nat /\ DOMAIN symbols = 1 .. n /\ \A i \in 1 .. n : symbols[i] \in Symbols
  OBVIOUS
<1>2. FoldLeft(EmitSymbol, w, symbols) = iter[DOMAIN symbols]
  BY Zenon DEF FoldLeft, MapThenFoldSet
<1>3. g \in [1 .. n -> [Wave -> Wave]]
  BY <1>1, EmitSymbolOK
<1>4. iter = [s \in SUBSET DOMAIN symbols |->
                IF s = {} THEN w ELSE EmitSymbol(iter[s \ {Max(s)}], symbols[Max(s)])]
  <2> DEFINE F(f, s) == IF s = {} THEN w ELSE EmitSymbol(f[s \ {Max(s)}], symbols[Max(s)])
             G(f, s) == IF s = {} THEN w ELSE g[Max(s)][f[s \ {Max(s)}]]
  <2>1. PICK f \in [SUBSET (1 .. n) -> Wave] : IsFold(f, g, w, n)
    <3> HIDE DEF g, n
    <3> QED
      BY <1>1, <1>3, FoldExists
  <2>2. ASSUME NEW s \in SUBSET (1 .. n)
        PROVE  G(f, s) = F(f, s)
    <3>1. CASE s # {}
      <4>1. Max(s) \in 1 .. n /\ f[s \ {Max(s)}] \in Wave
        <5> HIDE DEF n
        <5> QED
          BY <1>1, <3>1, MaxIn
      <4> HIDE DEF n
      <4> QED
        BY <3>1, <4>1
    <3> QED
      BY <3>1
  <2>3. f = [s \in SUBSET (1 .. n) |-> G(f, s)]
    BY <2>1, Zenon DEF IsFold
  <2> HIDE DEF F, G, g, n
  <2>4. f = [s \in SUBSET DOMAIN symbols |-> F(f, s)]
    BY <1>1, <2>2, <2>3, Zenon
  <2> QED
    BY <2>4, Zenon DEF F
<1> HIDE DEF iter
<1>5. iter[{}] = w
  BY <1>4
<1>6. ASSUME NEW k \in 1 .. n
      PROVE  iter[1 .. k] = EmitSymbol(iter[1 .. k - 1], symbols[k])
  <2> HIDE DEF n, g
  <2>1. /\ Max(1 .. k) = k /\ (1 .. k) \ {k} = 1 .. k - 1
        /\ 1 .. k # {} /\ 1 .. k \in SUBSET DOMAIN symbols
    BY <1>1, UpTo
  <2> QED
    BY <1>4, <2>1
<1>7. iter[1 .. n] \in Wave
  <2>1. \A k \in 1 .. n : iter[1 .. k - 1] \in Wave => iter[1 .. k] \in Wave
    BY <1>1, <1>6, EmitSymbolOK
  <2> HIDE DEF n
  <2> QED
    BY <1>1, <1>5, <2>1, FoldTyped
<1> QED
  BY <1>1, <1>2, <1>7

-----------------------------------------------------------------------------
LEMMA TimesOK ==
    ASSUME NEW n \in Nat
    PROVE  Times(n, 1) \in Seq(Nat) /\ BitTimes(n) \in Seq(Nat)
<1>1. [i \in 1 .. n |-> 1] \in [1 .. n -> Nat]
  OBVIOUS
<1>2. 2 * n \in Nat /\ [i \in 1 .. 2 * n |-> 1] \in [1 .. 2 * n -> Nat]
  OBVIOUS
<1> QED
  BY <1>1, <1>2, SeqDef DEF Times, BitTimes

LEMMA StandardOK ==
    ASSUME NEW w \in Wave, NEW b, b.size \in Nat, b.pause \in Nat
    PROVE  AppendStandardBlock(w, b) \in Wave
<1> DEFINE pilots == Times(Pilots(b) + 2, 1)
           bits == BitTimes(b.size)
           pause == IF b.pause = 0 THEN StandardPause ELSE b.pause
<1>1. pilots \in Seq(Nat) /\ bits \in Seq(Nat)
  <2>1. Pilots(b) + 2 \in Nat
    BY WaveAssumption DEF Pilots
  <2> QED
    BY <2>1, TimesOK
<1>2. pause \in Nat
  BY WaveAssumption
<1> HIDE DEF pilots, bits, pause
<1>3. pilots \o bits \in Seq(Nat)
  BY <1>1
<1>4. PushAll(w, pilots \o bits) \in Wave
  BY <1>3, PushAllOK
<1>5. AppendPause(PushAll(w, pilots \o bits), pause) \in Wave
  BY <1>2, <1>4, AppendPauseOK
<1> QED
  BY <1>5, Zenon DEF AppendStandardBlock, pilots, bits, pause

LEMMA PureDataOK ==
    ASSUME NEW w \in Wave, NEW b, b.size \in Nat, b.pause \in Nat
    PROVE  AppendPureData(w, b) \in Wave
  BY TimesOK, PushAllOK, AppendPauseOK DEF AppendPureData

(* What a block of the file adds is made of pulses.                          *)
LEMMA SynthesiseOK ==
    ASSUME NEW w \in Wave, NEW b \in TzxBlock, b.op \in PlayableOps
    PROVE  Synthesise(w, b) \in Wave
<1>1. CASE b.op = "standard"
  <2>1. b.size \in Nat /\ b.pause \in Nat
    BY <1>1 DEF TzxBlock
  <2> QED
    BY <1>1, <2>1, StandardOK DEF Synthesise
<1>2. CASE b.op = "turbo"
  <2>1. b.pilots \in Nat /\ b.size \in Nat /\ b.pause \in Nat
    BY <1>2 DEF TzxBlock
  <2>2. PushAll(w, Times(b.pilots + 2, 1)) \in Wave
    <3>1. b.pilots + 2 \in Nat
      BY <2>1
    <3>2. Times(b.pilots + 2, 1) \in Seq(Nat)
      BY <3>1, TimesOK
    <3> QED
      BY <3>2, PushAllOK
  <2> DEFINE q == PushAll(w, Times(b.pilots + 2, 1))
  <2>3. Synthesise(w, b) = AppendPureData(q, b)
    BY <1>2 DEF Synthesise, AppendTurboBlock
  <2> HIDE DEF q
  <2> QED
    BY <2>1, <2>2, <2>3, PureDataOK DEF q
<1>3. CASE b.op = "tone"
  <2>1. b.count \in Nat
    BY <1>3 DEF TzxBlock
  <2> QED
    BY <1>3, <2>1, TimesOK, PushAllOK DEF Synthesise
<1>4. CASE b.op = "sequence"
  <2>1. b.times \in Seq(Nat)
    BY <1>4 DEF TzxBlock
  <2> QED
    BY <1>4, <2>1, PushAllOK DEF Synthesise
<1>5. CASE b.op = "data"
  <2>1. b.size \in Nat /\ b.pause \in Nat
    BY <1>5 DEF TzxBlock
  <2> QED
    BY <1>5, <2>1, PureDataOK DEF Synthesise
<1>6. CASE b.op = "direct"
  <2>1. b.samples \in Seq(BOOLEAN) /\ b.pause \in Nat
    BY <1>6 DEF TzxBlock
  <2>2. FoldLeft(PushAbsoluteLevel, w, b.samples) \in Wave
    BY <2>1, SamplesOK
  <2> DEFINE q == FoldLeft(PushAbsoluteLevel, w, b.samples)
  <2>3. Synthesise(w, b) = AppendPause(q, b.pause)
    BY <1>6 DEF Synthesise, AppendDirectRecording
  <2> HIDE DEF q
  <2> QED
    BY <2>1, <2>2, <2>3, AppendPauseOK DEF q
<1>7. CASE b.op = "csw"
  <2>1. b.times \in Seq(Nat) /\ b.pause \in Nat
    BY <1>7 DEF TzxBlock
  <2>2. PushAll(w, b.times) \in Wave
    BY <2>1, PushAllOK
  <2> QED
    BY <1>7, <2>1, <2>2, AppendPauseOK DEF Synthesise, AppendCswRecording
<1>8. CASE b.op = "general"
  <2>1. b.symbols \in Seq(Symbols) /\ b.pause \in Nat
    BY <1>8 DEF TzxBlock
  <2>2. FoldLeft(EmitSymbol, w, b.symbols) \in Wave
    BY <2>1, SymbolsOK
  <2> DEFINE q == FoldLeft(EmitSymbol, w, b.symbols)
  <2>3. Synthesise(w, b) = AppendPause(q, b.pause)
    BY <1>8 DEF Synthesise, AppendGeneralizedData
  <2> HIDE DEF q
  <2> QED
    BY <2>1, <2>2, <2>3, AppendPauseOK DEF q
<1>9. CASE b.op = "pause"
  <2>1. b.pause \in Nat
    BY <1>9 DEF TzxBlock
  <2> QED
    BY <1>9, <2>1, AppendPauseOK DEF Synthesise
<1> QED
  BY <1>1, <1>2, <1>3, <1>4, <1>5, <1>6, <1>7, <1>8, <1>9 DEF PlayableOps

-----------------------------------------------------------------------------
(* Expansions end.  Every replay and every transfer starts at most one more  *)
(* pass over the file, and within a pass the reader only moves on.           *)

ReaderFields ==
    {"file", "at", "skip", "loops", "calls", "replays", "transfers", "wave",
     "starts", "status", "order", "turns"}

LoopFrames(r) == [restart : 0 .. BlockCount(r), left : Nat]

CallFrames(r) == [call : 0 .. BlockCount(r) - 1, by : Seq(Int), next : Nat \ {0}]

ReaderOK(r) ==
    /\ DOMAIN r = ReaderFields
    /\ r.file \in TzxFiles
    /\ r.at \in 0 .. BlockCount(r)
    /\ r.loops \in Seq(LoopFrames(r))
    /\ r.calls \in Seq(CallFrames(r))
    /\ r.replays \in 0 .. MaxReplays
    /\ r.transfers \in 0 .. MaxTransfers
    /\ r.turns \in Nat
    /\ r.turns <= (r.replays + r.transfers) * BlockCount(r) + r.at

ReaderInv == reader = Closed \/ ReaderOK(reader)

LEMMA Counts ==
    ASSUME NEW r, r.file \in TzxFiles
    PROVE  BlockCount(r) \in Nat
  BY FilesAssumption DEF BlockCount

LEMMA OnePassMore ==
    ASSUME NEW k \in Nat, NEW n \in Nat
    PROVE  (k + 1) * n = k * n + n /\ k * n \in Nat
  OBVIOUS

LEMMA FewerPasses ==
    ASSUME NEW k \in Nat, NEW m \in Nat, NEW n \in Nat, k <= m
    PROVE  k * n <= m * n
<1>1. PICK d \in Nat : m = k + d
  <2>1. m - k \in Nat /\ m = k + (m - k)
    OBVIOUS
  <2> QED
    BY <2>1
<1>2. m * n = k * n + d * n /\ d * n \in Nat /\ k * n \in Nat
  BY <1>1
<1> QED
  BY <1>2

LEMMA OneTurnMore ==
    ASSUME NEW t \in Nat, NEW at \in Nat, NEW next \in Nat, NEW n \in Nat,
           NEW passed \in Nat, t <= passed + at
    PROVE  /\ t + 1 \in Nat
           /\ t + 1 <= passed + (at + 1)
           /\ at < n => t + 1 <= (passed + n) + next
  OBVIOUS

LEMMA Frames ==
    ASSUME NEW S, NEW s \in Seq(S), s # <<>>
    PROVE  Last(s) \in S /\ Front(s) \in Seq(S)
<1>1. Len(s) \in Nat \ {0}
  OBVIOUS
<1>2. Last(s) \in S
  BY <1>1 DEF Last
<1>3. Front(s) \in Seq(S)
  BY <1>1 DEF Front
<1> QED
  BY <1>2, <1>3

LEMMA Bounded ==
    ASSUME NEW m \in Nat, NEW x \in 0 .. m
    PROVE  x \in Nat
  OBVIOUS

(* What a reader must keep to stay in bounds.                                *)
LEMMA StaysInBounds ==
    ASSUME NEW r, ReaderOK(r), NEW q, DOMAIN q = DOMAIN r, q.file = r.file,
           q.at \in 0 .. BlockCount(r),
           q.loops \in Seq(LoopFrames(r)), q.calls \in Seq(CallFrames(r)),
           q.replays \in 0 .. MaxReplays, q.transfers \in 0 .. MaxTransfers,
           \/ q.turns = r.turns /\ q.at = r.at
              /\ q.replays = r.replays /\ q.transfers = r.transfers
           \/ q.turns = r.turns + 1 /\ q.at = r.at + 1
              /\ q.replays = r.replays /\ q.transfers = r.transfers
           \/ q.turns = r.turns + 1 /\ r.at < BlockCount(r)
              /\ q.replays + q.transfers = r.replays + r.transfers + 1
    PROVE  ReaderOK(q)
<1>1. BlockCount(q) = BlockCount(r) /\ BlockCount(r) \in Nat
  BY Counts DEF BlockCount, ReaderOK
<1>2. LoopFrames(q) = LoopFrames(r) /\ CallFrames(q) = CallFrames(r)
  BY <1>1 DEF LoopFrames, CallFrames
<1> DEFINE n == BlockCount(r)
           k == r.replays + r.transfers
<1>3. k \in Nat /\ r.turns \in Nat /\ r.at \in Nat /\ q.at \in Nat /\ n \in Nat
  <2>1. /\ r.at \in 0 .. n /\ r.replays \in 0 .. MaxReplays
        /\ r.transfers \in 0 .. MaxTransfers /\ r.turns \in Nat
    BY DEF ReaderOK
  <2>2. q.at \in 0 .. n /\ n \in Nat
    BY <1>1
  <2>3. r.replays \in Nat /\ r.transfers \in Nat
    BY <2>1, ReaderAssumption, Bounded
  <2>4. k \in Nat
    BY <2>3
  <2> HIDE DEF n, k
  <2>5. r.at \in Nat /\ q.at \in Nat
    BY <2>1, <2>2, Bounded
  <2> QED
    BY <2>1, <2>2, <2>4, <2>5
<1>4. r.turns <= k * n + r.at
  BY DEF ReaderOK
<1>5. /\ \/ q.turns = r.turns /\ q.at = r.at /\ q.replays + q.transfers = k
         \/ q.turns = r.turns + 1 /\ q.at = r.at + 1 /\ q.replays + q.transfers = k
         \/ q.turns = r.turns + 1 /\ r.at < n /\ q.replays + q.transfers = k + 1
  OBVIOUS
<1>6. q.turns \in Nat /\ q.turns <= (q.replays + q.transfers) * n + q.at
  <2> HIDE DEF k, n
  <2> DEFINE passed == k * n
  <2>1. passed \in Nat /\ (k + 1) * n = passed + n
    BY <1>3, OnePassMore
  <2>2. r.turns <= passed + r.at
    BY <1>4
  <2>3. CASE q.replays + q.transfers = k
    <3>1. (q.replays + q.transfers) * n = passed
      BY <2>3
    <3> HIDE DEF passed
    <3>2. q.turns \in Nat /\ q.turns <= passed + q.at
      <4>1. /\ r.turns + 1 \in Nat /\ r.turns + 1 <= passed + (r.at + 1)
        BY <1>3, <2>1, <2>2, OneTurnMore
      <4>2. \/ q.turns = r.turns /\ q.at = r.at
            \/ q.turns = r.turns + 1 /\ q.at = r.at + 1
        BY <1>3, <1>5, <2>3
      <4> QED
        BY <1>3, <2>2, <4>1, <4>2, Zenon
    <3> QED
      BY <3>1, <3>2
  <2>4. CASE q.replays + q.transfers = k + 1
    <3>1. (q.replays + q.transfers) * n = passed + n
      BY <2>1, <2>4
    <3> HIDE DEF passed
    <3>2. q.turns = r.turns + 1 /\ r.at < n
      BY <1>3, <1>5, <2>4
    <3>3. q.turns \in Nat /\ q.turns <= (passed + n) + q.at
      <4>1. r.turns + 1 \in Nat /\ r.turns + 1 <= (passed + n) + q.at
        BY <1>3, <2>1, <2>2, <3>2, OneTurnMore
      <4> QED
        BY <3>2, <4>1, Zenon
    <3> QED
      BY <3>1, <3>3
  <2> QED
    BY <1>5, <2>3, <2>4
<1> QED
  BY <1>1, <1>2, <1>6 DEF ReaderOK

LEMMA ReaderFacts ==
    ASSUME NEW r, ReaderOK(r)
    PROVE  /\ DOMAIN r = ReaderFields
           /\ BlockCount(r) \in Nat
           /\ r.at \in 0 .. BlockCount(r)
           /\ r.loops \in Seq(LoopFrames(r))
           /\ r.calls \in Seq(CallFrames(r))
           /\ r.replays \in 0 .. MaxReplays
           /\ r.transfers \in 0 .. MaxTransfers
  BY Counts DEF ReaderOK

LEMMA FailOK == ASSUME NEW r, ReaderOK(r) PROVE ReaderOK(Fail(r))
<1> DEFINE q == [r EXCEPT !.status = "failed"]
<1>1. DOMAIN r = ReaderFields
  BY ReaderFacts
<1>2. /\ DOMAIN q = DOMAIN r /\ q.file = r.file /\ q.at = r.at
      /\ q.loops = r.loops /\ q.calls = r.calls /\ q.replays = r.replays
      /\ q.transfers = r.transfers /\ q.turns = r.turns
  BY <1>1 DEF ReaderFields
<1>3. Fail(r) = q
  BY DEF Fail
<1> HIDE DEF q
<1> QED
  BY <1>2, <1>3, ReaderFacts, StaysInBounds

(* What Turn leaves of a reader.                                             *)
LEMMA TurnFields ==
    ASSUME NEW r, ReaderOK(r), NEW at,
           NEW q, q = Turn(r, at)
    PROVE  /\ DOMAIN q = ReaderFields /\ q.file = r.file /\ q.at = at
           /\ q.loops = r.loops /\ q.calls = r.calls /\ q.replays = r.replays
           /\ q.transfers = r.transfers /\ q.turns = r.turns + 1
  BY ReaderFacts DEF Turn, ReaderFields

(* A reader that moves on by one block, whatever else it notes.              *)
LEMMA MovesOn ==
    ASSUME NEW r, ReaderOK(r), r.at < BlockCount(r), NEW q,
           DOMAIN q = ReaderFields,
           q.file = r.file, q.at = r.at + 1, q.turns = r.turns + 1,
           q.loops \in Seq(LoopFrames(r)), q.calls \in Seq(CallFrames(r)),
           q.replays = r.replays, q.transfers = r.transfers
    PROVE  ReaderOK(q)
<1>1. r.at + 1 \in 0 .. BlockCount(r)
  BY ReaderFacts
<1> QED
  BY <1>1, ReaderFacts, StaysInBounds

LEMMA ContinueOK ==
    ASSUME NEW r, ReaderOK(r), r.at < BlockCount(r)
    PROVE  ReaderOK(Continue(r))
<1> DEFINE q == Turn(r, r.at + 1)
<1>1. /\ DOMAIN q = ReaderFields /\ q.file = r.file /\ q.at = r.at + 1
      /\ q.loops = r.loops /\ q.calls = r.calls /\ q.replays = r.replays
      /\ q.transfers = r.transfers /\ q.turns = r.turns + 1
  BY TurnFields
<1>2. Continue(r) = q
  BY DEF Continue
<1> HIDE DEF q
<1> QED
  BY <1>1, <1>2, ReaderFacts, MovesOn

(* A transfer to a block of the file, or to its end.                         *)
LEMMA TransferOK ==
    ASSUME NEW r, ReaderOK(r), r.at < BlockCount(r), NEW from, NEW by
    PROVE  ReaderOK(Transfer(r, from, by))
<1>1. CASE ~(r.transfers < MaxTransfers /\ Resolves(r, from, by))
  BY <1>1, FailOK DEF Transfer
<1>2. CASE r.transfers < MaxTransfers /\ Resolves(r, from, by)
  <2> DEFINE t == Turn(r, from + by)
             q == [t EXCEPT !.transfers = @ + 1]
  <2>1. /\ DOMAIN t = ReaderFields /\ t.file = r.file /\ t.at = from + by
        /\ t.loops = r.loops /\ t.calls = r.calls /\ t.replays = r.replays
        /\ t.transfers = r.transfers /\ t.turns = r.turns + 1
    BY TurnFields
  <2>2. Transfer(r, from, by) = q
    BY <1>2, Zenon DEF Transfer
  <2> HIDE DEF t
  <2>3. /\ DOMAIN q = ReaderFields /\ q.file = r.file /\ q.at = from + by
        /\ q.loops = r.loops /\ q.calls = r.calls /\ q.replays = r.replays
        /\ q.transfers = r.transfers + 1 /\ q.turns = r.turns + 1
    BY <2>1 DEF ReaderFields
  <2> HIDE DEF q
  <2>4. from + by \in 0 .. BlockCount(r)
    BY <1>2 DEF Resolves
  <2>5. /\ q.transfers \in 0 .. MaxTransfers
        /\ q.replays + q.transfers = r.replays + r.transfers + 1
    <3>1. r.transfers \in Nat /\ r.replays \in Nat /\ r.transfers < MaxTransfers
      BY <1>2, ReaderFacts, ReaderAssumption
    <3> QED
      BY <2>3, <3>1, ReaderAssumption
  <2> QED
    BY <2>2, <2>3, <2>4, <2>5, ReaderFacts, StaysInBounds
<1> QED
  BY <1>1, <1>2

LEMMA PlayBlockOK ==
    ASSUME NEW r, ReaderOK(r), r.at < BlockCount(r), NEW b
    PROVE  ReaderOK(PlayBlock(r, b))
<1> DEFINE c == Continue(r)
           q == [c EXCEPT !.starts = Append(@, Count(r.wave)),
                          !.order = Append(@, r.at),
                          !.wave = Synthesise(@, b)]
<1>1. ReaderOK(c) /\ DOMAIN c = ReaderFields
  BY ContinueOK, ReaderFacts
<1>2. \/ PlayBlock(r, b) = Fail(r)
      \/ PlayBlock(r, b) = q
      \/ PlayBlock(r, b) = Fail(q)
  BY Zenon DEF PlayBlock
<1> HIDE DEF c
<1>3. /\ DOMAIN q = ReaderFields /\ q.file = c.file /\ q.at = c.at
      /\ q.loops = c.loops /\ q.calls = c.calls /\ q.replays = c.replays
      /\ q.transfers = c.transfers /\ q.turns = c.turns
  BY <1>1 DEF ReaderFields
<1> HIDE DEF q
<1>4. ReaderOK(q)
  BY <1>1, <1>3, ReaderFacts, StaysInBounds
<1> QED
  BY <1>2, <1>4, FailOK

LEMMA LoopStartOK ==
    ASSUME NEW r, ReaderOK(r), r.at < BlockCount(r), NEW b, b.times \in Nat
    PROVE  ReaderOK(LoopStart(r, b))
<1> DEFINE c == Turn(r, r.at + 1)
           deeper == [c EXCEPT !.skip = @ + 1]
           skipped == [c EXCEPT !.skip = 1]
           frame == [restart |-> r.at + 1, left |-> b.times]
           begun == [c EXCEPT !.loops = Append(@, frame)]
<1>1. /\ DOMAIN c = ReaderFields /\ c.file = r.file /\ c.at = r.at + 1
      /\ c.loops = r.loops /\ c.calls = r.calls /\ c.replays = r.replays
      /\ c.transfers = r.transfers /\ c.turns = r.turns + 1
  BY TurnFields
<1>2. \/ LoopStart(r, b) = deeper
      \/ LoopStart(r, b) = skipped
      \/ LoopStart(r, b) = begun
  BY Zenon DEF LoopStart, Continue
<1>3. frame \in LoopFrames(r)
  <2>1. r.at + 1 \in 0 .. BlockCount(r)
    BY ReaderFacts
  <2> QED
    BY <2>1 DEF LoopFrames
<1> HIDE DEF c, frame
<1> DEFINE Moved(q) ==
              /\ DOMAIN q = ReaderFields /\ q.file = r.file /\ q.at = r.at + 1
              /\ q.loops \in {r.loops, Append(r.loops, frame)}
              /\ q.calls = r.calls /\ q.replays = r.replays
              /\ q.transfers = r.transfers /\ q.turns = r.turns + 1
<1>4. Moved(deeper) /\ Moved(skipped) /\ Moved(begun)
  <2>1. Moved(deeper)
    BY <1>1 DEF ReaderFields
  <2>2. Moved(skipped)
    BY <1>1 DEF ReaderFields
  <2>3. Moved(begun)
    BY <1>1 DEF ReaderFields
  <2> QED
    BY <2>1, <2>2, <2>3
<1>5. r.loops \in Seq(LoopFrames(r)) /\ Append(r.loops, frame) \in Seq(LoopFrames(r))
  BY <1>3, ReaderFacts
<1> HIDE DEF deeper, skipped, begun
<1>6. ASSUME NEW q, Moved(q)
      PROVE  ReaderOK(q)
  BY <1>5, <1>6, ReaderFacts, MovesOn
<1> QED
  BY <1>2, <1>4, <1>6

LEMMA LoopEndOK ==
    ASSUME NEW r, ReaderOK(r), r.at < BlockCount(r)
    PROVE  ReaderOK(LoopEnd(r))
<1>1. CASE r.skip > 0
  <2> DEFINE c == Turn(r, r.at + 1)
             q == [c EXCEPT !.skip = @ - 1]
  <2>1. /\ DOMAIN c = ReaderFields /\ c.file = r.file /\ c.at = r.at + 1
        /\ c.loops = r.loops /\ c.calls = r.calls /\ c.replays = r.replays
        /\ c.transfers = r.transfers /\ c.turns = r.turns + 1
    BY TurnFields
  <2>2. LoopEnd(r) = q
    BY <1>1, Zenon DEF LoopEnd, Continue
  <2> HIDE DEF c
  <2>3. /\ DOMAIN q = ReaderFields /\ q.file = r.file /\ q.at = r.at + 1
        /\ q.loops = r.loops /\ q.calls = r.calls /\ q.replays = r.replays
        /\ q.transfers = r.transfers /\ q.turns = r.turns + 1
    BY <2>1 DEF ReaderFields
  <2> HIDE DEF q
  <2> QED
    BY <2>2, <2>3, ReaderFacts, MovesOn
<1>2. CASE ~(r.skip > 0) /\ r.loops = <<>>
  BY <1>2, FailOK DEF LoopEnd
<1>3. CASE ~(r.skip > 0) /\ r.loops # <<>>
  <2> DEFINE last == Last(r.loops)
             left == last.left - 1
             restart == last.restart
             shorter == Front(r.loops)
             frame == [restart |-> restart, left |-> left]
             c == Turn(r, r.at + 1)
             t == Turn(r, restart)
             over == [c EXCEPT !.loops = Front(@)]
             again == [t EXCEPT !.replays = @ + 1, !.loops = Append(Front(@), frame)]
  <2>1. LoopEnd(r) = IF left <= 0 THEN over
                     ELSE IF r.replays = MaxReplays THEN Fail(r) ELSE again
    BY <1>3, Zenon DEF LoopEnd, Continue
  <2>2. last \in LoopFrames(r) /\ shorter \in Seq(LoopFrames(r))
    BY <1>3, ReaderFacts, Frames
  <2>3. left \in Int /\ restart \in 0 .. BlockCount(r)
    BY <2>2 DEF LoopFrames
  <2>4. /\ DOMAIN c = ReaderFields /\ c.file = r.file /\ c.at = r.at + 1
        /\ c.loops = r.loops /\ c.calls = r.calls /\ c.replays = r.replays
        /\ c.transfers = r.transfers /\ c.turns = r.turns + 1
    BY TurnFields
  <2>5. /\ DOMAIN t = ReaderFields /\ t.file = r.file /\ t.at = restart
        /\ t.loops = r.loops /\ t.calls = r.calls /\ t.replays = r.replays
        /\ t.transfers = r.transfers /\ t.turns = r.turns + 1
    BY TurnFields
  <2> HIDE DEF c, t, last, left, restart
  <2>6. CASE left <= 0
    <3>1. /\ DOMAIN over = ReaderFields /\ over.file = r.file /\ over.at = r.at + 1
          /\ over.loops = shorter /\ over.calls = r.calls /\ over.replays = r.replays
          /\ over.transfers = r.transfers /\ over.turns = r.turns + 1
      BY <2>4 DEF ReaderFields
    <3> HIDE DEF over, shorter
    <3> QED
      BY <2>1, <2>2, <2>6, <3>1, ReaderFacts, MovesOn
  <2>7. CASE ~(left <= 0) /\ r.replays = MaxReplays
    BY <2>1, <2>7, FailOK
  <2>8. CASE ~(left <= 0) /\ r.replays # MaxReplays
    <3>1. /\ DOMAIN again = ReaderFields /\ again.file = r.file /\ again.at = restart
          /\ again.loops = Append(shorter, frame) /\ again.calls = r.calls
          /\ again.replays = r.replays + 1
          /\ again.transfers = r.transfers /\ again.turns = r.turns + 1
      BY <2>5 DEF ReaderFields
    <3>2. Append(shorter, frame) \in Seq(LoopFrames(r))
      <4>1. left \in Nat
        BY <2>3, <2>8
      <4>2. frame \in LoopFrames(r)
        BY <2>3, <4>1 DEF LoopFrames
      <4> HIDE DEF frame, shorter
      <4> QED
        BY <2>2, <4>2
    <3> HIDE DEF shorter, frame, again
    <3>3. /\ r.replays + 1 \in 0 .. MaxReplays
          /\ again.replays + again.transfers = r.replays + r.transfers + 1
      <4>1. /\ r.replays \in 0 .. MaxReplays /\ MaxReplays \in Nat
            /\ r.transfers \in 0 .. MaxTransfers /\ MaxTransfers \in Nat
        BY ReaderFacts, ReaderAssumption
      <4> QED
        BY <2>8, <3>1, <4>1
    <3>4. LoopEnd(r) = again
      BY <2>1, <2>8
    <3> QED
      BY <2>3, <3>1, <3>2, <3>3, <3>4, ReaderFacts, StaysInBounds
  <2> QED
    BY <2>6, <2>7, <2>8
<1> QED
  BY <1>1, <1>2, <1>3

LEMMA CallSequenceOK ==
    ASSUME NEW r, ReaderOK(r), r.at < BlockCount(r), NEW b, b.by \in Seq(Int)
    PROVE  ReaderOK(CallSequence(r, b))
<1>1. CASE b.by = <<>>
  BY <1>1, ContinueOK DEF CallSequence
<1>2. CASE b.by # <<>> /\ r.calls # <<>>
  BY <1>2, FailOK DEF CallSequence
<1>3. CASE b.by # <<>> /\ r.calls = <<>>
  <2> DEFINE frame == [call |-> r.at, by |-> b.by, next |-> 2]
             q == [r EXCEPT !.calls = <<frame>>]
  <2>1. CallSequence(r, b) = Transfer(q, r.at, Head(b.by))
    BY <1>3, Zenon DEF CallSequence
  <2>2. frame \in CallFrames(r)
    <3>1. r.at \in 0 .. BlockCount(r) - 1
      BY ReaderFacts
    <3> QED
      BY <3>1 DEF CallFrames
  <2> HIDE DEF frame
  <2>3. /\ DOMAIN q = ReaderFields /\ q.file = r.file /\ q.at = r.at
        /\ q.loops = r.loops /\ q.calls = <<frame>> /\ q.replays = r.replays
        /\ q.transfers = r.transfers /\ q.turns = r.turns
    BY ReaderFacts DEF ReaderFields
  <2>4. <<frame>> \in Seq(CallFrames(r))
    BY <2>2
  <2> HIDE DEF q
  <2>5. ReaderOK(q)
    BY <2>3, <2>4, ReaderFacts, StaysInBounds
  <2>6. q.at < BlockCount(q)
    BY <2>3 DEF BlockCount
  <2> QED
    BY <2>1, <2>5, <2>6, TransferOK
<1> QED
  BY <1>1, <1>2, <1>3

LEMMA ReturnOK ==
    ASSUME NEW r, ReaderOK(r), r.at < BlockCount(r)
    PROVE  ReaderOK(Return(r))
<1>1. CASE r.calls = <<>> \/ r.transfers = MaxTransfers
  BY <1>1, FailOK DEF Return
<1>2. CASE ~(r.calls = <<>> \/ r.transfers = MaxTransfers)
  <2> DEFINE frame == Last(r.calls)
             outer == Front(r.calls)
             later == [frame EXCEPT !.next = @ + 1]
             called == [r EXCEPT !.calls = Append(Front(@), later)]
             t == Turn(r, frame.call + 1)
             back == [t EXCEPT !.calls = Front(@), !.transfers = @ + 1]
  <2>1. Return(r) = IF frame.next <= Len(frame.by)
                    THEN Transfer(called, frame.call, frame.by[frame.next])
                    ELSE back
    BY <1>2, Zenon DEF Return
  <2>2. frame \in CallFrames(r) /\ outer \in Seq(CallFrames(r))
    BY <1>2, ReaderFacts, Frames
  <2>3. /\ DOMAIN t = ReaderFields /\ t.file = r.file /\ t.at = frame.call + 1
        /\ t.loops = r.loops /\ t.calls = r.calls /\ t.replays = r.replays
        /\ t.transfers = r.transfers /\ t.turns = r.turns + 1
    BY TurnFields
  <2> HIDE DEF t, frame
  <2>4. later \in CallFrames(r)
    BY <2>2 DEF CallFrames
  <2> HIDE DEF later
  <2>5. CASE frame.next <= Len(frame.by)
    <3>1. /\ DOMAIN called = ReaderFields /\ called.file = r.file /\ called.at = r.at
          /\ called.loops = r.loops /\ called.calls = Append(outer, later)
          /\ called.replays = r.replays
          /\ called.transfers = r.transfers /\ called.turns = r.turns
      BY ReaderFacts DEF ReaderFields
    <3> HIDE DEF outer, called
    <3>2. Append(outer, later) \in Seq(CallFrames(r))
      BY <2>2, <2>4
    <3>3. ReaderOK(called)
      BY <3>1, <3>2, ReaderFacts, StaysInBounds
    <3>4. called.at < BlockCount(called)
      BY <3>1 DEF BlockCount
    <3> QED
      BY <2>1, <2>5, <3>3, <3>4, TransferOK
  <2>6. CASE ~(frame.next <= Len(frame.by))
    <3>1. /\ DOMAIN back = ReaderFields /\ back.file = r.file
          /\ back.at = frame.call + 1
          /\ back.loops = r.loops /\ back.calls = outer /\ back.replays = r.replays
          /\ back.transfers = r.transfers + 1 /\ back.turns = r.turns + 1
      BY <2>3 DEF ReaderFields
    <3>2. Return(r) = back
      BY <2>1, <2>6
    <3> HIDE DEF back, outer
    <3>3. frame.call + 1 \in 0 .. BlockCount(r)
      <4>1. frame.call \in 0 .. BlockCount(r) - 1
        BY <2>2 DEF CallFrames
      <4> QED
        BY <4>1, ReaderFacts
    <3>4. /\ r.transfers + 1 \in 0 .. MaxTransfers
          /\ back.replays + back.transfers = r.replays + r.transfers + 1
      <4>1. /\ r.replays \in 0 .. MaxReplays /\ MaxReplays \in Nat
            /\ r.transfers \in 0 .. MaxTransfers /\ MaxTransfers \in Nat
        BY ReaderFacts, ReaderAssumption
      <4> QED
        BY <1>2, <3>1, <4>1
    <3> QED
      BY <2>2, <3>1, <3>2, <3>3, <3>4, ReaderFacts, StaysInBounds
  <2> QED
    BY <2>5, <2>6
<1> QED
  BY <1>1, <1>2

LEMMA SetLevelOK ==
    ASSUME NEW r, ReaderOK(r), r.at < BlockCount(r), NEW b
    PROVE  ReaderOK(SetLevel(r, b))
<1> DEFINE c == Turn(r, r.at + 1)
           q == [c EXCEPT !.wave.forceLow = FALSE, !.wave.level = b.high]
<1>1. /\ DOMAIN c = ReaderFields /\ c.file = r.file /\ c.at = r.at + 1
      /\ c.loops = r.loops /\ c.calls = r.calls /\ c.replays = r.replays
      /\ c.transfers = r.transfers /\ c.turns = r.turns + 1
  BY TurnFields
<1>2. SetLevel(r, b) = q
  BY Zenon DEF SetLevel, Continue
<1> HIDE DEF c
<1>3. /\ DOMAIN q = ReaderFields /\ q.file = r.file /\ q.at = r.at + 1
      /\ q.loops = r.loops /\ q.calls = r.calls /\ q.replays = r.replays
      /\ q.transfers = r.transfers /\ q.turns = r.turns + 1
  BY <1>1 DEF ReaderFields
<1> HIDE DEF q
<1> QED
  BY <1>2, <1>3, ReaderFacts, MovesOn

LEMMA ReadBlockOK ==
    ASSUME NEW r, ReaderOK(r), r.at < BlockCount(r)
    PROVE  ReaderOK(ReadBlock(r))
<1> DEFINE b == Current(r)
<1>1. /\ b.op = "loop" => b.times \in Nat
      /\ b.op = "call" => b.by \in Seq(Int)
  <2>1. r.file \in TzxFiles /\ r.at + 1 \in 1 .. Len(r.file.blocks)
    BY ReaderFacts DEF ReaderOK, BlockCount
  <2>2. b \in TzxBlock
    BY <2>1, FilesAssumption DEF Current
  <2> HIDE DEF b
  <2> QED
    BY <2>2 DEF TzxBlock
<1> HIDE DEF b
<1>2. CASE b.op = "loop"
  <2>1. ReadBlock(r) = LoopStart(r, b)
    BY <1>2 DEF ReadBlock, b
  <2> QED
    BY <1>1, <1>2, <2>1, LoopStartOK
<1>3. CASE b.op = "loopEnd"
  <2>1. ReadBlock(r) = LoopEnd(r)
    BY <1>3 DEF ReadBlock, b
  <2> QED
    BY <2>1, LoopEndOK
<1>4. CASE b.op \notin {"loop", "loopEnd"} /\ r.skip > 0
  <2>1. ReadBlock(r) = Continue(r)
    BY <1>4 DEF ReadBlock, b
  <2> QED
    BY <2>1, ContinueOK
<1>5. CASE b.op \notin {"loop", "loopEnd"} /\ ~(r.skip > 0)
  <2>1. ReadBlock(r) = CASE b.op \in PlayableOps -> PlayBlock(r, b)
                         [] b.op = "jump" -> Transfer(r, r.at, b.by)
                         [] b.op = "call" -> CallSequence(r, b)
                         [] b.op = "return" -> Return(r)
                         [] b.op = "select" -> Select(r, b)
                         [] b.op = "level" -> SetLevel(r, b)
                         [] OTHER -> Continue(r)
    BY <1>5 DEF ReadBlock, b
  <2>2. ReaderOK(PlayBlock(r, b)) /\ ReaderOK(Transfer(r, r.at, b.by))
    BY PlayBlockOK, TransferOK
  <2>3. ReaderOK(Select(r, b))
    BY ContinueOK, TransferOK DEF Select
  <2>4. ReaderOK(Return(r)) /\ ReaderOK(SetLevel(r, b)) /\ ReaderOK(Continue(r))
    BY ReturnOK, SetLevelOK, ContinueOK
  <2>5. b.op = "call" => ReaderOK(CallSequence(r, b))
    BY <1>1, CallSequenceOK
  <2> QED
    BY <2>1, <2>2, <2>3, <2>4, <2>5 DEF PlayableOps
<1> QED
  BY <1>2, <1>3, <1>4, <1>5

LEMMA ReadStepOK ==
    ASSUME NEW r, ReaderOK(r)
    PROVE  ReaderOK(ReadStep(r))
<1>1. CASE r.at < BlockCount(r)
  BY <1>1, ReadBlockOK DEF ReadStep
<1>2. CASE ~(r.at < BlockCount(r))
  <2> DEFINE status == IF r.skip = 0 /\ r.loops = <<>> /\ r.calls = <<>>
                       THEN "done" ELSE "failed"
             q == [r EXCEPT !.status = status]
  <2>1. ReadStep(r) = q
    BY <1>2 DEF ReadStep, EndOfFile
  <2> HIDE DEF status
  <2>2. /\ DOMAIN q = DOMAIN r /\ q.file = r.file /\ q.at = r.at
        /\ q.loops = r.loops /\ q.calls = r.calls /\ q.replays = r.replays
        /\ q.transfers = r.transfers /\ q.turns = r.turns
    BY ReaderFacts DEF ReaderFields
  <2> HIDE DEF q
  <2> QED
    BY <2>1, <2>2, ReaderFacts, StaysInBounds
<1> QED
  BY <1>1, <1>2

LEMMA NewReaderOK ==
    ASSUME NEW file \in TzxFiles
    PROVE  ReaderOK(NewReader(file))
<1> DEFINE r == NewReader(file)
<1>1. /\ DOMAIN r = ReaderFields /\ r.file = file /\ r.at = 0
      /\ r.loops = <<>> /\ r.calls = <<>> /\ r.replays = 0
      /\ r.transfers = 0 /\ r.turns = 0
  BY DEF NewReader, ReaderFields
<1> HIDE DEF r
<1>2. BlockCount(r) \in Nat
  BY <1>1, Counts
<1>3. r.turns <= (r.replays + r.transfers) * BlockCount(r) + r.at
  <2> DEFINE n == BlockCount(r)
  <2>1. n \in Nat
    BY <1>2
  <2> HIDE DEF n
  <2>2. 0 <= (0 + 0) * n + 0
    BY <2>1
  <2> QED
    BY <1>1, <2>2, Zenon DEF n
<1>4. r.loops \in Seq(LoopFrames(r)) /\ r.calls \in Seq(CallFrames(r))
  BY <1>1
<1> QED
  <2>1. 0 \in 0 .. BlockCount(r) /\ 0 \in 0 .. MaxReplays /\ 0 \in 0 .. MaxTransfers
    BY <1>2, ReaderAssumption
  <2>2. 0 \in Nat
    OBVIOUS
  <2> QED
    BY <1>1, <1>3, <1>4, <2>1, <2>2, Zenon DEF ReaderOK, r

LEMMA ReaderStep == ReaderInv /\ [Next]_vars => ReaderInv'
<1> SUFFICES ASSUME ReaderInv, [Next]_vars
             PROVE  ReaderInv'
  OBVIOUS
<1>1. ASSUME NEW file \in TzxFiles, OpenTzx(file)
      PROVE  ReaderInv'
  BY <1>1, NewReaderOK DEF OpenTzx, ReaderInv
<1>2. CASE ReadTzx
  BY <1>2, ReadStepOK DEF ReadTzx, ReaderInv, Closed
<1>3. CASE InsertTzx \/ RefuseTzx
  BY <1>3 DEF InsertTzx, RefuseTzx, ReaderInv
<1>4. CASE UNCHANGED reader
  BY <1>4 DEF ReaderInv, Closed
<1> QED
  BY <1>1, <1>2, <1>3, <1>4
  DEF Next, vars, OpenTap, OpenPlainTzx, PlayTape, PauseTape, RewindTape, EjectTape,
      SetTapeLoadOptions, Reset, MoveGuest, StartFrame, NextInnerFrame, EndFrame,
      StepCompletes, FlashLoad, Instruction

(* Expanding any TZX file ends: the reader never takes more turns than the   *)
(* caps on replays and transfers allow, however loops, calls, jumps and      *)
(* selections are nested (TzxPlayer::parse, bump_control_transfers).         *)
THEOREM ExpansionsEnd == Spec => []WorkIsBounded
<1>1. Init => ReaderInv
  BY DEF Init, ReaderInv
<1>2. ReaderInv => WorkIsBounded
  <2> SUFFICES ASSUME ReaderOK(reader)
               PROVE  reader.turns <=
                        (MaxReplays + MaxTransfers + 1) * Len(reader.file.blocks)
    BY DEF ReaderInv, WorkIsBounded
  <2> DEFINE n == BlockCount(reader)
             k == reader.replays + reader.transfers
             most == MaxReplays + MaxTransfers
  <2>1. /\ n \in Nat /\ k \in Nat /\ most \in Nat /\ k <= most
        /\ reader.at \in Nat /\ reader.at <= n
    <3>1. /\ n \in Nat /\ reader.at \in 0 .. n
          /\ reader.replays \in 0 .. MaxReplays /\ reader.transfers \in 0 .. MaxTransfers
      BY ReaderFacts
    <3> HIDE DEF n
    <3> QED
      BY <3>1, ReaderAssumption
  <2>2. reader.turns \in Nat /\ reader.turns <= k * n + reader.at
    BY DEF ReaderOK
  <2>3. n = Len(reader.file.blocks)
    BY DEF BlockCount
  <2> HIDE DEF n, k, most
  <2>4. k * n <= most * n /\ (most + 1) * n = most * n + n
        /\ k * n \in Nat /\ most * n \in Nat
    BY <2>1, FewerPasses, OnePassMore
  <2> DEFINE passed == k * n
             all == most * n
  <2>5. /\ passed <= all /\ passed \in Nat /\ all \in Nat
        /\ reader.turns <= passed + reader.at /\ (most + 1) * n = all + n
    BY <2>2, <2>4
  <2> HIDE DEF passed, all
  <2>6. reader.turns <= (most + 1) * n
    <3>1. passed + reader.at <= all + n
      BY <2>1, <2>5
    <3>2. reader.turns <= all + n
      BY <2>1, <2>2, <2>5, <3>1
    <3> QED
      BY <2>5, <3>2
  <2> QED
    BY <2>3, <2>6 DEF most
<1> QED
  BY <1>1, ReaderStep, <1>2, PTL DEF Spec

-----------------------------------------------------------------------------
(* What a reader has synthesised so far is a schedule.                       *)
Scheduled(r) == DOMAIN r = ReaderFields /\ r.wave \in Wave /\ r.starts \in Seq(Nat)

(* A reader that differs in nothing but its bookkeeping.                     *)
LEMMA FailScheduled ==
    ASSUME NEW r, Scheduled(r)
    PROVE  Scheduled(Fail(r))
  BY DEF Scheduled, ReaderFields, Fail

LEMMA TurnScheduled ==
    ASSUME NEW r, Scheduled(r), NEW at
    PROVE  Scheduled(Turn(r, at)) /\ Turn(r, at).wave = r.wave
  BY DEF Scheduled, ReaderFields, Turn

LEMMA NoteScheduled ==
    ASSUME NEW r, Scheduled(r), NEW x
    PROVE  /\ Scheduled([r EXCEPT !.skip = x])
           /\ Scheduled([r EXCEPT !.loops = x])
           /\ Scheduled([r EXCEPT !.calls = x])
           /\ Scheduled([r EXCEPT !.replays = x])
           /\ Scheduled([r EXCEPT !.transfers = x])
           /\ Scheduled([r EXCEPT !.status = x])
  BY DEF Scheduled, ReaderFields

LEMMA TransferScheduled ==
    ASSUME NEW r, Scheduled(r), NEW from, NEW by
    PROVE  Scheduled(Transfer(r, from, by))
<1> DEFINE t == Turn(r, from + by)
           q == [t EXCEPT !.transfers = @ + 1]
<1>1. Scheduled(t)
  BY TurnScheduled
<1>2. Transfer(r, from, by) = q \/ Transfer(r, from, by) = Fail(r)
  BY Zenon DEF Transfer
<1> HIDE DEF t
<1>3. Scheduled(q)
  BY <1>1 DEF Scheduled, ReaderFields
<1> HIDE DEF q
<1> QED
  BY <1>2, <1>3, FailScheduled

LEMMA PlayBlockScheduled ==
    ASSUME NEW r, Scheduled(r), NEW b \in TzxBlock, b.op \in PlayableOps
    PROVE  Scheduled(PlayBlock(r, b))
<1> DEFINE c == Continue(r)
           wave == Synthesise(c.wave, b)
           starts == Append(c.starts, Count(r.wave))
           q == [c EXCEPT !.starts = Append(@, Count(r.wave)),
                          !.order = Append(@, r.at),
                          !.wave = Synthesise(@, b)]
<1>1. Scheduled(c)
  BY TurnScheduled DEF Continue
<1>2. \/ PlayBlock(r, b) = Fail(r)
      \/ PlayBlock(r, b) = q
      \/ PlayBlock(r, b) = Fail(q)
  BY Zenon DEF PlayBlock
<1> HIDE DEF c
<1>3. wave \in Wave
  BY <1>1, SynthesiseOK DEF Scheduled
<1>4. starts \in Seq(Nat)
  <2>1. Count(r.wave) \in Nat
    BY DEF Count, Scheduled, Wave
  <2> QED
    BY <1>1, <2>1 DEF Scheduled
<1>5. DOMAIN q = DOMAIN c /\ q.wave = wave /\ q.starts = starts
  BY <1>1 DEF Scheduled, ReaderFields
<1> HIDE DEF q, wave, starts
<1>6. Scheduled(q)
  BY <1>1, <1>3, <1>4, <1>5 DEF Scheduled
<1> QED
  BY <1>2, <1>6, FailScheduled

LEMMA LoopsScheduled ==
    ASSUME NEW r, Scheduled(r), NEW b
    PROVE  Scheduled(LoopStart(r, b)) /\ Scheduled(LoopEnd(r))
<1> DEFINE c == Continue(r)
           frame == [restart |-> r.at + 1, left |-> b.times]
           left == Last(r.loops).left - 1
           restart == Last(r.loops).restart
           again == Turn(r, restart)
           next == [restart |-> restart, left |-> left]
<1>1. Scheduled(c) /\ Scheduled(again)
  BY TurnScheduled DEF Continue
<1>2. \/ LoopStart(r, b) = [c EXCEPT !.skip = @ + 1]
      \/ LoopStart(r, b) = [c EXCEPT !.skip = 1]
      \/ LoopStart(r, b) = [c EXCEPT !.loops = Append(@, frame)]
  BY Zenon DEF LoopStart
<1>3. \/ LoopEnd(r) = [c EXCEPT !.skip = @ - 1]
      \/ LoopEnd(r) = Fail(r)
      \/ LoopEnd(r) = [c EXCEPT !.loops = Front(@)]
      \/ LoopEnd(r) = [again EXCEPT !.replays = @ + 1,
                                    !.loops = Append(Front(@), next)]
  BY Zenon DEF LoopEnd
<1> HIDE DEF c, frame, again, next, left, restart
<1>4. /\ Scheduled([c EXCEPT !.skip = @ + 1])
      /\ Scheduled([c EXCEPT !.skip = 1])
      /\ Scheduled([c EXCEPT !.loops = Append(@, frame)])
      /\ Scheduled([c EXCEPT !.skip = @ - 1])
      /\ Scheduled([c EXCEPT !.loops = Front(@)])
  BY <1>1, NoteScheduled
<1>5. Scheduled([again EXCEPT !.replays = @ + 1, !.loops = Append(Front(@), next)])
  BY <1>1 DEF Scheduled, ReaderFields
<1> QED
  BY <1>2, <1>3, <1>4, <1>5, FailScheduled

LEMMA CallsScheduled ==
    ASSUME NEW r, Scheduled(r), NEW b
    PROVE  Scheduled(CallSequence(r, b)) /\ Scheduled(Return(r))
<1> DEFINE called == [r EXCEPT !.calls = <<[call |-> r.at, by |-> b.by, next |-> 2]>>]
           frame == Last(r.calls)
           next == [r EXCEPT !.calls = Append(Front(@), [frame EXCEPT !.next = @ + 1])]
           back == Turn(r, frame.call + 1)
           done == [back EXCEPT !.calls = Front(@), !.transfers = @ + 1]
<1>1. Scheduled(Continue(r)) /\ Scheduled(back)
  BY TurnScheduled DEF Continue
<1>2. Scheduled(called) /\ Scheduled(next)
  BY NoteScheduled
<1>3. Scheduled(done)
  <2> HIDE DEF back
  <2> QED
    BY <1>1 DEF Scheduled, ReaderFields
<1>4. \/ CallSequence(r, b) = Continue(r)
      \/ CallSequence(r, b) = Fail(r)
      \/ CallSequence(r, b) = Transfer(called, r.at, Head(b.by))
  BY Zenon DEF CallSequence
<1>5. \/ Return(r) = Fail(r)
      \/ Return(r) = Transfer(next, frame.call, frame.by[frame.next])
      \/ Return(r) = done
  BY Zenon DEF Return
<1> HIDE DEF called, frame, next, back, done
<1> QED
  BY <1>1, <1>2, <1>3, <1>4, <1>5, FailScheduled, TransferScheduled

LEMMA LevelScheduled ==
    ASSUME NEW r, Scheduled(r), NEW b, b.high \in BOOLEAN
    PROVE  Scheduled(SetLevel(r, b))
<1> DEFINE c == Continue(r)
           wave == [c.wave EXCEPT !.forceLow = FALSE, !.level = b.high]
           q == [c EXCEPT !.wave.forceLow = FALSE, !.wave.level = b.high]
<1>1. Scheduled(c)
  BY TurnScheduled DEF Continue
<1>2. SetLevel(r, b) = q
  BY Zenon DEF SetLevel
<1> HIDE DEF c
<1>3. wave \in Wave
  <2>1. c.wave \in Wave
    BY <1>1 DEF Scheduled
  <2> QED
    BY <2>1 DEF Wave
<1>4. DOMAIN q = DOMAIN c /\ q.wave = wave /\ q.starts = c.starts
  BY <1>1 DEF Scheduled, ReaderFields
<1> HIDE DEF q, wave
<1> QED
  BY <1>1, <1>2, <1>3, <1>4 DEF Scheduled

LEMMA ReadBlockScheduled ==
    ASSUME NEW r, Scheduled(r), Current(r) \in TzxBlock
    PROVE  Scheduled(ReadBlock(r))
<1> DEFINE b == Current(r)
<1>1. b \in TzxBlock
  OBVIOUS
<1> HIDE DEF b
<1>2. \/ ReadBlock(r) = LoopStart(r, b)
      \/ ReadBlock(r) = LoopEnd(r)
      \/ ReadBlock(r) = Continue(r)
      \/ b.op \in PlayableOps /\ ReadBlock(r) = PlayBlock(r, b)
      \/ ReadBlock(r) = Transfer(r, r.at, b.by)
      \/ ReadBlock(r) = CallSequence(r, b)
      \/ ReadBlock(r) = Return(r)
      \/ ReadBlock(r) = Select(r, b)
      \/ b.op = "level" /\ ReadBlock(r) = SetLevel(r, b)
  <2> DEFINE other ==
               CASE b.op \in PlayableOps -> PlayBlock(r, b)
                 [] b.op = "jump" -> Transfer(r, r.at, b.by)
                 [] b.op = "call" -> CallSequence(r, b)
                 [] b.op = "return" -> Return(r)
                 [] b.op = "select" -> Select(r, b)
                 [] b.op = "level" -> SetLevel(r, b)
                 [] OTHER -> Continue(r)
  <2>1. \/ ReadBlock(r) = LoopStart(r, b)
        \/ ReadBlock(r) = LoopEnd(r)
        \/ ReadBlock(r) = Continue(r)
        \/ ReadBlock(r) = other
    BY Zenon DEF ReadBlock, b
  <2>2. \/ b.op \in PlayableOps /\ other = PlayBlock(r, b)
        \/ other = Transfer(r, r.at, b.by)
        \/ other = CallSequence(r, b)
        \/ other = Return(r)
        \/ other = Select(r, b)
        \/ b.op = "level" /\ other = SetLevel(r, b)
        \/ other = Continue(r)
    BY DEF PlayableOps
  <2> HIDE DEF other
  <2> QED
    BY <2>1, <2>2
<1>3. Scheduled(Continue(r)) /\ Scheduled(Select(r, b))
  BY TurnScheduled, TransferScheduled DEF Continue, Select
<1>4. b.op = "level" => b.high \in BOOLEAN
  BY <1>1 DEF TzxBlock
<1> QED
  BY <1>1, <1>2, <1>3, <1>4, LoopsScheduled, CallsScheduled, TransferScheduled,
     PlayBlockScheduled, LevelScheduled

LEMMA ReadStepScheduled ==
    ASSUME NEW r, Scheduled(r), r.at < BlockCount(r) => Current(r) \in TzxBlock
    PROVE  Scheduled(ReadStep(r))
<1>1. \/ r.at < BlockCount(r) /\ ReadStep(r) = ReadBlock(r)
      \/ \E x : ReadStep(r) = [r EXCEPT !.status = x]
  BY Zenon DEF ReadStep, EndOfFile
<1>2. \A x : Scheduled([r EXCEPT !.status = x])
  BY NoteScheduled
<1>3. r.at < BlockCount(r) => Scheduled(ReadBlock(r))
  BY ReadBlockScheduled
<1> QED
  BY <1>1, <1>2, <1>3, Zenon

LEMMA NewReaderScheduled == \A file : Scheduled(NewReader(file))
<1> SUFFICES ASSUME NEW file PROVE Scheduled(NewReader(file))
  OBVIOUS
<1>1. NewWave \in Wave
  BY DEF NewWave, Wave
<1>2. /\ DOMAIN NewReader(file) = ReaderFields /\ NewReader(file).wave = NewWave
      /\ NewReader(file).starts = <<>>
  BY DEF NewReader, ReaderFields
<1> QED
  BY <1>1, <1>2 DEF Scheduled

ScheduleInv == reader = Closed \/ Scheduled(reader)

LEMMA ScheduleStep == ReaderInv /\ ScheduleInv /\ [Next]_vars => ScheduleInv'
<1> SUFFICES ASSUME ReaderInv, ScheduleInv, [Next]_vars
             PROVE  ScheduleInv'
  OBVIOUS
<1>1. ASSUME NEW file \in TzxFiles, OpenTzx(file)
      PROVE  ScheduleInv'
  BY <1>1, NewReaderScheduled DEF OpenTzx, ScheduleInv
<1>2. CASE ReadTzx
  <2>1. reader # Closed /\ reader' = ReadStep(reader)
    BY <1>2 DEF ReadTzx, Closed
  <2>2. Scheduled(reader) /\ ReaderOK(reader)
    BY <2>1 DEF ScheduleInv, ReaderInv
  <2>3. reader.at < BlockCount(reader) => Current(reader) \in TzxBlock
    <3> SUFFICES ASSUME reader.at < BlockCount(reader)
                 PROVE  Current(reader) \in TzxBlock
      OBVIOUS
    <3>1. reader.file \in TzxFiles /\ reader.at + 1 \in 1 .. Len(reader.file.blocks)
      BY <2>2, ReaderFacts DEF ReaderOK, BlockCount
    <3> QED
      BY <3>1, FilesAssumption DEF Current
  <2> QED
    BY <2>1, <2>2, <2>3, ReadStepScheduled DEF ScheduleInv
<1>3. CASE InsertTzx \/ RefuseTzx
  BY <1>3 DEF InsertTzx, RefuseTzx, ScheduleInv
<1>4. CASE UNCHANGED reader
  BY <1>4 DEF ScheduleInv, Closed
<1> QED
  BY <1>1, <1>2, <1>3, <1>4
  DEF Next, vars, OpenTap, OpenPlainTzx, PlayTape, PauseTape, RewindTape, EjectTape,
      SetTapeLoadOptions, Reset, MoveGuest, StartFrame, NextInnerFrame, EndFrame,
      StepCompletes, FlashLoad, Instruction

LEMMA Schedules == Spec => []ScheduleInv
<1>1. Init => ReaderInv /\ ScheduleInv
  BY DEF Init, ReaderInv, ScheduleInv
<1> QED
  BY <1>1, ReaderStep, ScheduleStep, PTL DEF Spec

-----------------------------------------------------------------------------
LEMMA BlockAtOK ==
    ASSUME NEW starts \in Seq(Nat), NEW from \in Nat, NEW pulse
    PROVE  /\ BlockAt(starts, from, pulse) \in Nat
           /\ BlockAt(starts, BlockAt(starts, from, pulse), pulse) = BlockAt(starts, from, pulse)
<1> DEFINE reached(i, f) == \A j \in f + 1 .. i : starts[j + 1] <= pulse
           later(f) == {i \in f + 1 .. Len(starts) - 1 : reached(i, f)}
<1>0. Len(starts) \in Nat
  OBVIOUS
<1>1. \A f : BlockAt(starts, f, pulse) = IF later(f) = {} THEN f ELSE Max(later(f))
  BY Zenon DEF BlockAt
<1>2. CASE later(from) = {}
  BY <1>1, <1>2
<1>3. CASE later(from) # {}
  <2> DEFINE to == Max(later(from))
  <2>1. to \in later(from) /\ \A y \in later(from) : y <= to
    <3>1. later(from) \in SUBSET Nat /\ \A x \in later(from) : x <= Len(starts)
      BY <1>0
    <3> HIDE DEF later
    <3> QED
      BY <1>0, <1>3, <3>1, GreatestNatural
  <2> HIDE DEF to
  <2>2. to \in Nat /\ from + 1 <= to /\ to <= Len(starts) - 1 /\ reached(to, from)
    BY <1>0, <2>1
  <2>3. later(to) = {}
    <3>1. SUFFICES ASSUME NEW i \in to + 1 .. Len(starts) - 1, reached(i, to)
                   PROVE  FALSE
      OBVIOUS
    <3>2. i \in Nat /\ i > to /\ i \in from + 1 .. Len(starts) - 1
      BY <1>0, <2>2, <3>1
    <3>3. \A j \in from + 1 .. i : j \in from + 1 .. to \/ j \in to + 1 .. i
      BY <2>2, <3>2
    <3>4. reached(i, from)
      BY <2>2, <3>1, <3>3
    <3>5. i \in later(from)
      BY <3>2, <3>4
    <3> HIDE DEF later
    <3> QED
      BY <2>1, <2>2, <3>2, <3>5
  <2>4. BlockAt(starts, from, pulse) = to
    BY <1>1, <1>3 DEF to
  <2>5. BlockAt(starts, to, pulse) = to
    BY <1>1, <2>3
  <2> QED
    BY <2>2, <2>4, <2>5
<1> QED
  BY <1>2, <1>3

-----------------------------------------------------------------------------
(* Turns of the player's loop.                                               *)

Plays == [player : TzxPlayer, dt : Nat]

Settled(s) == s.dt = 0 \/ PlayerFinished(s.player)

(* What no turn changes.                                                     *)
SameTape(p, q) ==
    /\ q.kind = p.kind /\ q.pulses = p.pulses /\ q.starts = p.starts
    /\ q.playing = p.playing

LEMMA NextPulseOK ==
    ASSUME NEW p \in TzxPlayer, ~PlayerFinished(p)
    PROVE  /\ NextPulse(p) \in TzxPlayer
           /\ SameTape(p, NextPulse(p))
           /\ NextPulse(p).pulse = p.pulse + 1 /\ p.pulse + 1 <= Len(p.pulses)
           /\ PlayerFinished(NextPulse(p)) =>
                 /\ NextPulse(p).pulse = Len(p.pulses)
                 /\ NextPulse(p).left = 0 /\ ~NextPulse(p).level
                 /\ NextPulse(p).block = BlockAt(p.starts, p.block, Len(p.pulses))
<1> DEFINE n == p.pulse + 1
           more == n < Len(p.pulses)
           left == IF more THEN p.pulses[n + 1].t ELSE 0
           level == more /\ p.pulses[n + 1].high
           block == BlockAt(p.starts, p.block, n)
           q == [p EXCEPT !.pulse = n, !.left = left, !.level = level, !.block = block]
<1>1. /\ p.pulse \in Nat /\ p.left \in Nat /\ p.pulses \in Seq(Pulse) /\ p.starts \in Seq(Nat)
      /\ p.block \in Nat /\ Len(p.pulses) \in Nat
  BY DEF TzxPlayer
<1>2. n \in Nat /\ n <= Len(p.pulses)
  BY <1>1 DEF PlayerFinished
<1>3. left \in Nat /\ level \in BOOLEAN
  <2>1. CASE more
    <3>1. n + 1 \in 1 .. Len(p.pulses)
      BY <1>1, <1>2, <2>1
    <3>2. p.pulses[n + 1] \in Pulse
      BY <1>1, <3>1
    <3> QED
      BY <3>2 DEF Pulse
  <2>2. CASE ~more
    BY <2>2
  <2> QED
    BY <2>1, <2>2
<1>4. block \in Nat
  BY <1>1, BlockAtOK
<1>5. NextPulse(p) = q
  BY Zenon DEF NextPulse
<1>6. ~more => left = 0 /\ ~level /\ n = Len(p.pulses)
  BY <1>1, <1>2
<1> HIDE DEF left, level, block, n, more
<1>7. /\ q \in TzxPlayer /\ SameTape(p, q)
      /\ q.pulse = n /\ q.left = left /\ q.level = level /\ q.block = block
  BY <1>2, <1>3, <1>4 DEF TzxPlayer, SameTape
<1> HIDE DEF q
<1>8. PlayerFinished(q) => ~more
  BY <1>1, <1>2, <1>7 DEF PlayerFinished, SameTape, more
<1> QED
  BY <1>2, <1>5, <1>6, <1>7, <1>8 DEF n, block

(* The pulse that is played in a turn, and for how long.                     *)
Entered(p) == IF p.left = 0 THEN NextPulse(p) ELSE p
Shorter(a, b) == IF a < b THEN a ELSE b
After(q, t) == [q EXCEPT !.left = @ - t]

LEMMA EnteredOK ==
    ASSUME NEW p \in TzxPlayer, ~PlayerFinished(p)
    PROVE  /\ Entered(p) \in TzxPlayer
           /\ SameTape(p, Entered(p))
           /\ Entered(p).pulse \in Nat /\ Entered(p).pulse <= Len(p.pulses)
           /\ Entered(p).pulse >= p.pulse
           /\ Entered(p).left = 0 => Entered(p).pulse > p.pulse
<1>1. p.pulse \in Nat /\ p.pulse <= Len(p.pulses)
  BY DEF TzxPlayer, PlayerFinished
<1>2. CASE p.left = 0
  BY <1>1, <1>2, NextPulseOK DEF Entered
<1>3. CASE p.left # 0
  BY <1>1, <1>3 DEF Entered, SameTape
<1> QED
  BY <1>2, <1>3

LEMMA AfterOK ==
    ASSUME NEW q \in TzxPlayer, NEW t \in Nat, t <= q.left
    PROVE  /\ After(q, t) \in TzxPlayer
           /\ SameTape(q, After(q, t))
           /\ After(q, t).pulse = q.pulse
           /\ After(q, t).left = q.left - t
           /\ PlayerFinished(After(q, t)) <=> PlayerFinished(q)
           /\ t = 0 => After(q, t) = q
           /\ \A u \in Nat : After(After(q, t), u) = After(q, t + u)
<1>1. q.left \in Nat /\ q.left - t \in Nat
  BY DEF TzxPlayer
<1>2. /\ After(q, t) \in TzxPlayer /\ SameTape(q, After(q, t))
      /\ After(q, t).pulse = q.pulse /\ After(q, t).left = q.left - t
  BY <1>1 DEF After, TzxPlayer, SameTape
<1>3. t = 0 => After(q, t) = q
  BY <1>1 DEF After, TzxPlayer
<1>4. ASSUME NEW u \in Nat
      PROVE  After(After(q, t), u) = After(q, t + u)
  <2>1. q.left - t - u = q.left - (t + u)
    BY <1>1
  <2>2. After(q, t) = [q EXCEPT !.left = q.left - t]
    BY DEF After
  <2>3. After(q, t + u) = [q EXCEPT !.left = q.left - t - u]
    BY <2>1 DEF After
  <2>4. After(After(q, t), u) = [After(q, t) EXCEPT !.left = After(q, t).left - u]
    BY DEF After
  <2> DEFINE x == q.left - t
             y == After(q, t).left - u
  <2>5. y = q.left - t - u
    BY <1>2
  <2>6. After(After(q, t), u) = [[q EXCEPT !.left = x] EXCEPT !.left = y]
    BY <2>2, <2>4
  <2> HIDE DEF x, y
  <2>7. [[q EXCEPT !.left = x] EXCEPT !.left = y] = [q EXCEPT !.left = y]
    BY DEF TzxPlayer
  <2> QED
    BY <2>3, <2>5, <2>6, <2>7
<1> QED
  BY <1>2, <1>3, <1>4 DEF PlayerFinished, SameTape

(* A turn that is not the last shortens what there is left to do.            *)
Work(s) == s.dt + (Len(s.player.pulses) - s.player.pulse)

LEMMA PlayTurnIs ==
    ASSUME NEW s
    PROVE  /\ Settled(s) => PlayTurn(s) = s
           /\ ~Settled(s) =>
                PlayTurn(s) =
                    [player |-> After(Entered(s.player), Shorter(s.dt, Entered(s.player).left)),
                     dt |-> s.dt - Shorter(s.dt, Entered(s.player).left)]
<1>1. Settled(s) => PlayTurn(s) = s
  BY Zenon DEF PlayTurn, Settled
<1>2. ~Settled(s) =>
        PlayTurn(s) =
            [player |-> After(Entered(s.player), Shorter(s.dt, Entered(s.player).left)),
             dt |-> s.dt - Shorter(s.dt, Entered(s.player).left)]
  BY Zenon DEF PlayTurn, Settled, After, Entered, Shorter
<1> QED
  BY <1>1, <1>2

LEMMA PlayTurnOK ==
    ASSUME NEW s \in Plays
    PROVE  /\ PlayTurn(s) \in Plays
           /\ SameTape(s.player, PlayTurn(s).player)
           /\ ~Settled(s) => Work(s) \in Nat /\ Work(PlayTurn(s)) \in Nat
                             /\ Work(PlayTurn(s)) < Work(s)
<1>0. s.player \in TzxPlayer /\ s.dt \in Nat
  BY DEF Plays
<1>1. CASE Settled(s)
  BY <1>1, PlayTurnIs DEF SameTape
<1>2. CASE ~Settled(s)
  <2> DEFINE p == s.player
             q == Entered(p)
             t == Shorter(s.dt, q.left)
             r == [player |-> After(q, t), dt |-> s.dt - t]
  <2>1. PlayTurn(s) = r
    BY <1>2, PlayTurnIs
  <2>2. ~PlayerFinished(p)
    BY <1>2 DEF Settled
  <2>3. /\ q \in TzxPlayer /\ SameTape(p, q) /\ q.pulse \in Nat /\ q.pulse <= Len(p.pulses)
        /\ q.pulse >= p.pulse /\ (q.left = 0 => q.pulse > p.pulse)
    BY <1>0, <2>2, EnteredOK
  <2>4. q.left \in Nat /\ p.pulse \in Nat /\ Len(p.pulses) \in Nat /\ p.pulse < Len(p.pulses)
    BY <1>0, <2>2, <2>3 DEF TzxPlayer, PlayerFinished
  <2>5. /\ t \in Nat /\ t <= q.left /\ s.dt - t \in Nat
        /\ t = 0 => q.left = 0
    BY <1>0, <1>2, <2>4 DEF Shorter, Settled
  <2>6. /\ After(q, t) \in TzxPlayer /\ SameTape(q, After(q, t)) /\ After(q, t).pulse = q.pulse
    BY <2>3, <2>5, AfterOK
  <2> HIDE DEF t, q
  <2>7. r \in Plays /\ r.player = After(q, t) /\ r.dt = s.dt - t
    BY <2>5, <2>6 DEF Plays
  <2>8. SameTape(p, r.player)
    BY <2>3, <2>6, <2>7 DEF SameTape
  <2> HIDE DEF r
  <2>9. Work(s) = s.dt + (Len(p.pulses) - p.pulse)
        /\ Work(r) = (s.dt - t) + (Len(p.pulses) - q.pulse)
    BY <2>6, <2>7, <2>8 DEF Work, SameTape
  <2>10. Work(s) \in Nat /\ Work(r) \in Nat /\ Work(r) < Work(s)
    <3> HIDE DEF p
    <3>1. s.dt \in Nat /\ (t = 0 => q.pulse > p.pulse)
      BY <1>0, <2>3, <2>5
    <3>2. ASSUME NEW n \in Nat, NEW i \in Nat, NEW k \in Nat, NEW d \in Nat, NEW u \in Nat,
                 i < n, k <= n, k >= i, d - u \in Nat, u = 0 => k > i
          PROVE  /\ d + (n - i) \in Nat
                 /\ (d - u) + (n - k) \in Nat
                 /\ (d - u) + (n - k) < d + (n - i)
      BY <3>2
    <3>3. /\ Len(p.pulses) \in Nat /\ p.pulse \in Nat /\ q.pulse \in Nat /\ t \in Nat
          /\ p.pulse < Len(p.pulses) /\ q.pulse <= Len(p.pulses) /\ q.pulse >= p.pulse
          /\ s.dt - t \in Nat
      BY <2>3, <2>4, <2>5
    <3>4. /\ s.dt + (Len(p.pulses) - p.pulse) \in Nat
          /\ (s.dt - t) + (Len(p.pulses) - q.pulse) \in Nat
          /\ (s.dt - t) + (Len(p.pulses) - q.pulse) < s.dt + (Len(p.pulses) - p.pulse)
      BY <3>1, <3>2, <3>3, Zenon
    <3> QED
      BY <2>9, <3>4
  <2> QED
    BY <2>1, <2>7, <2>8, <2>10
<1> QED
  BY <1>1, <1>2

-----------------------------------------------------------------------------
(* The turns of a stretch of time.                                           *)
PlaysFrom(f, s, N) == f[0] = s /\ \A n \in 1 .. N : f[n] = PlayTurn(f[n - 1])

IsPlay(f, s, N) == f = [n \in 0 .. N |-> IF n = 0 THEN s ELSE PlayTurn(f[n - 1])]

LEMMA PlayExists ==
    ASSUME NEW s, NEW N \in Nat
    PROVE  \E f : IsPlay(f, s, N)
<1> DEFINE Is(f, m) == IsPlay(f, s, m)
           none == {m \in Nat : ~ \E f : Is(f, m)}
<1>1. SUFFICES none = {}
  OBVIOUS
<1>2. SUFFICES ASSUME none # {} PROVE FALSE
  OBVIOUS
<1>3. PICK m \in none : \A k \in none : m <= k
  <2> HIDE DEF none
  <2>1. none \in SUBSET Nat
    BY DEF none
  <2> QED
    BY <1>2, <2>1, LeastNatural
<1>4. m # 0
  <2>1. Is([n \in 0 .. 0 |-> s], 0)
    BY DEF IsPlay
  <2> QED
    BY <2>1
<1>5. PICK f : Is(f, m - 1)
  <2>1. m - 1 \in Nat /\ ~(m <= m - 1)
    BY <1>4
  <2> QED
    BY <1>3, <2>1
<1>6. \E g : Is(g, m)
  <2> DEFINE g == [n \in 0 .. m |-> IF n = m THEN PlayTurn(f[m - 1]) ELSE f[n]]
  <2>1. ASSUME NEW n \in 0 .. m
        PROVE  g[n] = IF n = 0 THEN s ELSE PlayTurn(g[n - 1])
    <3>1. CASE n = m
      <4>1. m - 1 \in 0 .. m /\ m - 1 # m
        BY <1>4
      <4>2. g[m - 1] = f[m - 1]
        BY <4>1
      <4> QED
        BY <1>4, <3>1, <4>2
    <3>2. CASE n # m
      <4>1. n \in 0 .. m - 1
        BY <3>2
      <4>2. f[n] = IF n = 0 THEN s ELSE PlayTurn(f[n - 1])
        BY <1>5, <4>1 DEF IsPlay
      <4>3. n # 0 => n - 1 \in 0 .. m /\ n - 1 # m
        BY <4>1
      <4>4. n # 0 => g[n - 1] = f[n - 1]
        BY <4>3
      <4> QED
        BY <3>2, <4>2, <4>4
    <3> QED
      BY <3>1, <3>2
  <2>2. g = [n \in 0 .. m |-> IF n = 0 THEN s ELSE PlayTurn(g[n - 1])]
    <3> HIDE DEF g
    <3>1. DOMAIN g = 0 .. m /\ g = [n \in DOMAIN g |-> g[n]]
      BY DEF g
    <3> QED
      BY <2>1, <3>1, Zenon
  <2> QED
    BY <2>2 DEF IsPlay
<1> QED
  BY <1>3, <1>6

(* However many turns are taken, they come to the same end.                  *)
LEMMA OneEnd ==
    ASSUME NEW s, NEW N \in Nat, NEW M \in Nat, NEW f, NEW g, N <= M,
           PlaysFrom(f, s, N), PlaysFrom(g, s, M), Settled(f[N])
    PROVE  g[M] = f[N]
<1> DEFINE apart == {n \in Nat : n <= N /\ g[n] # f[n]}
           moved == {n \in Nat : N <= n /\ n <= M /\ g[n] # f[N]}
<1>1. apart = {}
  <2>1. SUFFICES ASSUME apart # {} PROVE FALSE
    OBVIOUS
  <2>2. PICK n \in apart : \A k \in apart : n <= k
    <3>1. apart \in SUBSET Nat
      OBVIOUS
    <3> HIDE DEF apart
    <3> QED
      BY <2>1, <3>1, LeastNatural
  <2>3. n # 0
    BY <2>2 DEF PlaysFrom
  <2>4. n \in 1 .. N /\ n \in 1 .. M /\ n - 1 \in Nat /\ n - 1 <= N /\ ~(n <= n - 1)
    BY <2>2, <2>3
  <2>5. g[n - 1] = f[n - 1]
    BY <2>2, <2>4
  <2>6. g[n] = PlayTurn(g[n - 1]) /\ f[n] = PlayTurn(f[n - 1])
    BY <2>4 DEF PlaysFrom
  <2> QED
    BY <2>2, <2>5, <2>6
<1>2. moved = {}
  <2>1. SUFFICES ASSUME moved # {} PROVE FALSE
    OBVIOUS
  <2>2. PICK n \in moved : \A k \in moved : n <= k
    <3>1. moved \in SUBSET Nat
      OBVIOUS
    <3> HIDE DEF moved
    <3> QED
      BY <2>1, <3>1, LeastNatural
  <2>3. n # N
    BY <1>1, <2>2
  <2>4. n \in 1 .. M /\ n - 1 \in Nat /\ N <= n - 1 /\ n - 1 <= M /\ ~(n <= n - 1)
    BY <2>2, <2>3
  <2>5. g[n - 1] = f[N]
    BY <2>2, <2>4
  <2>6. g[n] = PlayTurn(g[n - 1])
    BY <2>4 DEF PlaysFrom
  <2> QED
    BY <2>2, <2>5, <2>6, PlayTurnIs
<1> QED
  BY <1>2

LEMMA SameEnd ==
    ASSUME NEW s, NEW N \in Nat, NEW M \in Nat, NEW f, NEW g,
           PlaysFrom(f, s, N), PlaysFrom(g, s, M), Settled(f[N]), Settled(g[M])
    PROVE  f[N] = g[M]
<1>1. CASE N <= M
  BY <1>1, OneEnd
<1>2. CASE M <= N
  BY <1>2, OneEnd
<1> QED
  BY <1>1, <1>2

(* PlayFor is the end of the turns.                                          *)
PlayedBy(p, dt, N, f) ==
    /\ PlaysFrom(f, [player |-> p, dt |-> dt], N)
    /\ PlayFor(p, dt) = f[N].player
    /\ Settled(f[N])
    /\ f[N] \in Plays /\ SameTape(p, f[N].player)

LEMMA PlayForEnds ==
    ASSUME NEW p \in TzxPlayer, NEW dt \in Nat
    PROVE  \E N \in Nat : \E f : PlayedBy(p, dt, N, f)
<1> DEFINE s == [player |-> p, dt |-> dt]
           N == dt + Len(p.pulses)
           turns[n \in 0 .. N] == IF n = 0 THEN s ELSE PlayTurn(turns[n - 1])
<1>0. Len(p.pulses) \in Nat /\ p.pulse \in Nat /\ N \in Nat
  BY DEF TzxPlayer
<1>1. turns = [n \in 0 .. N |-> IF n = 0 THEN s ELSE PlayTurn(turns[n - 1])]
  <2> HIDE DEF N, s
  <2>1. PICK f : IsPlay(f, s, N)
    BY <1>0, PlayExists
  <2> QED
    BY <2>1, Zenon DEF IsPlay
<1>2. PlayFor(p, dt) = turns[N].player
  BY Zenon DEF PlayFor
<1> HIDE DEF turns
<1>3. s \in Plays /\ s.player = p /\ s.dt = dt
  BY DEF Plays
<1>4. PlaysFrom(turns, s, N)
  <2> HIDE DEF s, N
  <2>1. turns[0] = s
    BY <1>0, <1>1
  <2>2. \A n \in 1 .. N : turns[n] = PlayTurn(turns[n - 1])
    BY <1>0, <1>1
  <2> QED
    BY <2>1, <2>2 DEF PlaysFrom
<1> DEFINE OK(n) == /\ turns[n] \in Plays /\ SameTape(p, turns[n].player)
                    /\ \/ Settled(turns[n])
                       \/ Work(turns[n]) \in Nat /\ Work(turns[n]) + n <= N
           wrong == {n \in Nat : n <= N /\ ~OK(n)}
<1>5. wrong = {}
  <2>1. SUFFICES ASSUME wrong # {} PROVE FALSE
    OBVIOUS
  <2>2. PICK n \in wrong : \A k \in wrong : n <= k
    <3>1. wrong \in SUBSET Nat
      OBVIOUS
    <3> HIDE DEF wrong
    <3> QED
      BY <2>1, <3>1, LeastNatural
  <2>3. n \in Nat /\ n <= N /\ ~OK(n)
    <3> HIDE DEF OK
    <3> QED
      BY <2>2
  <2>4. n # 0
    <3>1. turns[0] = s
      BY <1>4 DEF PlaysFrom
    <3>2. Settled(s) \/ (Work(s) \in Nat /\ Work(s) + 0 <= N)
      BY <1>0, <1>3 DEF Settled, PlayerFinished, Work
    <3>3. SameTape(p, s.player)
      BY <1>3 DEF SameTape
    <3> HIDE DEF s, N
    <3>4. OK(0)
      BY <1>3, <3>1, <3>2, <3>3
    <3> HIDE DEF OK
    <3> QED
      BY <2>3, <3>4
  <2>5. OK(n - 1)
    <3>1. n - 1 \in Nat /\ n - 1 <= N /\ ~(n <= n - 1)
      BY <1>0, <2>3, <2>4
    <3> HIDE DEF OK
    <3> QED
      BY <2>2, <3>1
  <2>6. turns[n] = PlayTurn(turns[n - 1])
    <3>1. n \in 1 .. N
      BY <1>0, <2>3, <2>4
    <3> HIDE DEF N, s
    <3> QED
      BY <1>4, <3>1 DEF PlaysFrom
  <2>7. /\ turns[n] \in Plays /\ SameTape(turns[n - 1].player, turns[n].player)
        /\ ~Settled(turns[n - 1]) => Work(turns[n]) \in Nat /\ Work(turns[n]) < Work(turns[n - 1])
    <3>1. turns[n - 1] \in Plays
      BY <2>5
    <3> QED
      BY <2>6, <3>1, PlayTurnOK
  <2>8. SameTape(p, turns[n].player)
    BY <2>5, <2>7 DEF SameTape
  <2>9. Settled(turns[n]) \/ (Work(turns[n]) \in Nat /\ Work(turns[n]) + n <= N)
    <3>1. CASE Settled(turns[n - 1])
      BY <2>6, <3>1, PlayTurnIs
    <3>2. CASE ~Settled(turns[n - 1])
      <4>1. Work(turns[n - 1]) \in Nat /\ Work(turns[n - 1]) + (n - 1) <= N
        BY <2>5, <3>2
      <4>2. Work(turns[n]) \in Nat /\ Work(turns[n]) < Work(turns[n - 1])
        BY <2>7, <3>2
      <4> HIDE DEF N
      <4> QED
        BY <1>0, <2>3, <4>1, <4>2
    <3> QED
      BY <3>1, <3>2
  <2>10. OK(n)
    BY <2>7, <2>8, <2>9
  <2> HIDE DEF OK
  <2> QED
    BY <2>3, <2>10
<1>6. OK(N)
  <2> HIDE DEF OK, N
  <2> QED
    BY <1>0, <1>5
<1>7. Settled(turns[N])
  <2>1. SUFFICES ASSUME Work(turns[N]) \in Nat, Work(turns[N]) + N <= N, ~Settled(turns[N])
                 PROVE  FALSE
    BY <1>6
  <2> HIDE DEF N
  <2>2. turns[N].dt \in Nat /\ turns[N].player \in TzxPlayer
    BY <1>6 DEF Plays
  <2>3. turns[N].player.pulse \in Nat /\ Len(turns[N].player.pulses) \in Nat
    BY <2>2 DEF TzxPlayer
  <2> QED
    BY <1>0, <2>1, <2>2, <2>3 DEF Work, Settled, PlayerFinished
<1> HIDE DEF N, s
<1>8. PlayedBy(p, dt, N, turns)
  BY <1>2, <1>4, <1>6, <1>7 DEF s, PlayedBy
<1> QED
  BY <1>0, <1>8

(* A stretch that is not at its end is the next turn and what is left then.  *)
LEMMA PlayForIs ==
    ASSUME NEW p \in TzxPlayer, NEW dt \in Nat
    PROVE  /\ PlayFor(p, dt) \in TzxPlayer /\ SameTape(p, PlayFor(p, dt))
           /\ dt = 0 \/ PlayerFinished(p) => PlayFor(p, dt) = p
           /\ \A q \in TzxPlayer, e \in Nat :
                 PlayTurn([player |-> p, dt |-> dt]) = [player |-> q, dt |-> e] =>
                    PlayFor(p, dt) = PlayFor(q, e)
<1> DEFINE s == [player |-> p, dt |-> dt]
<1>0. PICK N \in Nat : \E f : PlayedBy(p, dt, N, f)
  BY PlayForEnds
<1>0a. PICK f : PlayedBy(p, dt, N, f)
  BY <1>0
<1>1. /\ PlaysFrom(f, s, N)
      /\ PlayFor(p, dt) = f[N].player
      /\ Settled(f[N])
      /\ f[N] \in Plays /\ SameTape(p, f[N].player)
  BY <1>0a DEF PlayedBy
<1>2. ASSUME dt = 0 \/ PlayerFinished(p)
      PROVE  PlayFor(p, dt) = p
  <2>1. Settled(s) /\ s.player = p
    BY <1>2 DEF Settled
  <2> DEFINE g == [n \in 0 .. 0 |-> s]
  <2>2. g[0] = s /\ PlaysFrom(g, s, 0)
    BY DEF PlaysFrom
  <2> HIDE DEF g, s
  <2>3. f[N] = g[0]
    BY <1>1, <2>1, <2>2, SameEnd
  <2> QED
    BY <1>1, <2>1, <2>2, <2>3
<1>3. ASSUME NEW q \in TzxPlayer, NEW e \in Nat,
             PlayTurn(s) = [player |-> q, dt |-> e]
      PROVE  PlayFor(p, dt) = PlayFor(q, e)
  <2> DEFINE r == [player |-> q, dt |-> e]
  <2>0. PICK M \in Nat : \E g : PlayedBy(q, e, M, g)
    BY PlayForEnds
  <2>0a. PICK g : PlayedBy(q, e, M, g)
    BY <2>0
  <2>1. /\ PlaysFrom(g, r, M)
        /\ PlayFor(q, e) = g[M].player
        /\ Settled(g[M])
    BY <2>0a DEF PlayedBy
  <2> DEFINE h == [n \in 0 .. M + 1 |-> IF n = 0 THEN s ELSE g[n - 1]]
  <2> HIDE DEF s, r
  <2>2. h[0] = s /\ h[M + 1] = g[M] /\ M + 1 \in Nat
    OBVIOUS
  <2>3. PlaysFrom(h, s, M + 1)
    <3>1. ASSUME NEW n \in 1 .. M + 1
          PROVE  h[n] = PlayTurn(h[n - 1])
      <4>1. h[n] = g[n - 1]
        OBVIOUS
      <4>2. CASE n = 1
        <5>1. h[n - 1] = s /\ g[n - 1] = r
          BY <2>1, <4>2 DEF PlaysFrom
        <5> QED
          BY <1>3, <4>1, <5>1 DEF r
      <4>3. CASE n # 1
        <5>1. n - 1 \in 1 .. M /\ n - 1 \in 0 .. M + 1 /\ n - 1 # 0
          BY <4>3
        <5>2. h[n - 1] = g[(n - 1) - 1]
          BY <5>1
        <5>3. g[n - 1] = PlayTurn(g[(n - 1) - 1])
          BY <2>1, <5>1 DEF PlaysFrom
        <5> QED
          BY <4>1, <5>2, <5>3
      <4> QED
        BY <4>2, <4>3
    <3> HIDE DEF h
    <3> QED
      BY <2>2, <3>1 DEF PlaysFrom
  <2> HIDE DEF h
  <2>4. f[N] = h[M + 1]
    BY <1>1, <2>1, <2>2, <2>3, SameEnd
  <2> QED
    BY <1>1, <2>1, <2>2, <2>4
<1>4. PlayFor(p, dt) \in TzxPlayer /\ SameTape(p, PlayFor(p, dt))
  BY <1>1 DEF Plays
<1> QED
  BY <1>2, <1>3, <1>4

LEMMA PlayForTurn ==
    ASSUME NEW p \in TzxPlayer, NEW dt \in Nat, dt # 0, ~PlayerFinished(p),
           NEW q, q = Entered(p), NEW t, t = Shorter(dt, q.left)
    PROVE  /\ t \in Nat /\ t <= q.left /\ dt - t \in Nat
           /\ After(q, t) \in TzxPlayer
           /\ PlayFor(p, dt) = PlayFor(After(q, t), dt - t)
<1>1. q \in TzxPlayer
  BY EnteredOK
<1>2. t \in Nat /\ t <= q.left /\ dt - t \in Nat
  BY <1>1 DEF Shorter, TzxPlayer
<1>3. After(q, t) \in TzxPlayer
  BY <1>1, <1>2, AfterOK
<1>4. PlayTurn([player |-> p, dt |-> dt]) = [player |-> After(q, t), dt |-> dt - t]
  <2> DEFINE s == [player |-> p, dt |-> dt]
  <2>1. s.player = p /\ s.dt = dt /\ ~Settled(s)
    BY DEF Settled
  <2> HIDE DEF s
  <2> QED
    BY <2>1, PlayTurnIs DEF s
<1> QED
  BY <1>2, <1>3, <1>4, PlayForIs

(* A stretch is played as its first part and then the rest.                  *)
LEMMA PlayForParts ==
    ASSUME NEW p \in TzxPlayer, NEW a \in Nat, NEW b \in Nat
    PROVE  PlayFor(p, a + b) = PlayFor(PlayFor(p, a), b)
<1> DEFINE Parts(q, c, d) == PlayFor(q, c + d) = PlayFor(PlayFor(q, c), d)
           work(q, c) == c + (Len(q.pulses) - q.pulse)
           bad == {m \in Nat : \E q \in TzxPlayer, c \in Nat, d \in Nat :
                     ~PlayerFinished(q) /\ m = work(q, c) /\ ~Parts(q, c, d)}
<1>1. ASSUME NEW q \in TzxPlayer, PlayerFinished(q), NEW c \in Nat, NEW d \in Nat
      PROVE  Parts(q, c, d)
  <2>1. c + d \in Nat
    OBVIOUS
  <2>2. PlayFor(q, c + d) = q
    BY <1>1, <2>1, PlayForIs
  <2>3. PlayFor(q, c) = q /\ PlayFor(q, d) = q
    BY <1>1, PlayForIs
  <2> QED
    BY <2>2, <2>3
<1>2. bad = {}
  <2>1. SUFFICES ASSUME bad # {} PROVE FALSE
    OBVIOUS
  <2>2. PICK m \in bad : \A k \in bad : m <= k
    <3>1. bad \in SUBSET Nat
      OBVIOUS
    <3> HIDE DEF bad
    <3> QED
      BY <2>1, <3>1, LeastNatural
  <2>3. PICK q \in TzxPlayer, c \in Nat, d \in Nat :
            ~PlayerFinished(q) /\ m = work(q, c) /\ ~Parts(q, c, d)
    <3> HIDE DEF Parts, work
    <3> QED
      BY <2>2
  <2>3a. ~PlayerFinished(q)
    BY <2>3
  <2> DEFINE n == Entered(q)
             t == Shorter(c, n.left)
  <2>4. c # 0
    <3>1. SUFFICES ASSUME c = 0 PROVE FALSE
      OBVIOUS
    <3>2. PlayFor(q, c) = q
      BY <3>1, PlayForIs
    <3>3. c + d = d
      BY <3>1
    <3> QED
      BY <2>3, <3>2, <3>3
  <2>5. /\ n \in TzxPlayer /\ SameTape(q, n) /\ n.pulse \in Nat /\ n.pulse <= Len(q.pulses)
        /\ n.pulse >= q.pulse /\ (n.left = 0 => n.pulse > q.pulse)
        /\ n.left \in Nat /\ q.pulse \in Nat /\ Len(q.pulses) \in Nat
    <3>1. /\ n \in TzxPlayer /\ SameTape(q, n) /\ n.pulse \in Nat /\ n.pulse <= Len(q.pulses)
          /\ n.pulse >= q.pulse /\ (n.left = 0 => n.pulse > q.pulse)
      BY <2>3, EnteredOK
    <3> HIDE DEF n
    <3> QED
      BY <3>1 DEF TzxPlayer
  <2>6. /\ t \in Nat /\ t <= n.left /\ c - t \in Nat
        /\ After(n, t) \in TzxPlayer
        /\ PlayFor(q, c) = PlayFor(After(n, t), c - t)
    <3>1. n = Entered(q) /\ t = Shorter(c, n.left)
      OBVIOUS
    <3> HIDE DEF n, t
    <3> QED
      <4>1. \A l, x : l = Entered(q) /\ x = Shorter(c, l.left) =>
               /\ x \in Nat /\ x <= l.left /\ c - x \in Nat
               /\ After(l, x) \in TzxPlayer
               /\ PlayFor(q, c) = PlayFor(After(l, x), c - x)
        BY <2>3a, <2>4, PlayForTurn
      <4> QED
        BY <3>1, <4>1, Zenon
  <2> DEFINE u == Shorter(c + d, n.left)
  <2>7. /\ u \in Nat /\ u <= n.left /\ c + d \in Nat /\ c + d - u \in Nat
        /\ After(n, u) \in TzxPlayer
        /\ PlayFor(q, c + d) = PlayFor(After(n, u), c + d - u)
    <3>1. n = Entered(q) /\ u = Shorter(c + d, n.left)
      OBVIOUS
    <3> HIDE DEF n, u
    <3> DEFINE sum == c + d
    <3>2. sum \in Nat /\ sum # 0
      BY <2>4
    <3> HIDE DEF sum
    <3>3. u = Shorter(sum, n.left)
      BY <3>1 DEF sum
    <3>4. /\ u \in Nat /\ u <= n.left /\ sum - u \in Nat
          /\ After(n, u) \in TzxPlayer
          /\ PlayFor(q, sum) = PlayFor(After(n, u), sum - u)
      <4>1. \A l, x : l = Entered(q) /\ x = Shorter(sum, l.left) =>
               /\ x \in Nat /\ x <= l.left /\ sum - x \in Nat
               /\ After(l, x) \in TzxPlayer
               /\ PlayFor(q, sum) = PlayFor(After(l, x), sum - x)
        BY <2>3a, <3>2, PlayForTurn
      <4> QED
        BY <3>1, <3>3, <4>1, Zenon
    <3> QED
      BY <3>2, <3>4 DEF sum
  <2>8. CASE n.left <= c
    <3>1. t = n.left /\ u = n.left
      BY <2>5, <2>8 DEF Shorter
    <3> DEFINE r == After(n, t)
               e == c - t
    <3>2. r \in TzxPlayer /\ SameTape(n, r) /\ r.pulse = n.pulse
      BY <2>5, <2>6, AfterOK
    <3>3. Parts(r, e, d)
      <4>1. CASE PlayerFinished(r)
        <5> HIDE DEF r, e, Parts
        <5> QED
          BY <1>1, <2>6, <3>2, <4>1 DEF e
      <4>2. CASE ~PlayerFinished(r)
        <5>1. work(r, e) = (c - t) + (Len(q.pulses) - n.pulse)
          BY <2>5, <3>2 DEF SameTape
        <5>2. work(r, e) \in Nat /\ ~(m <= work(r, e))
          <6>1. m = c + (Len(q.pulses) - q.pulse)
            BY <2>3
          <6>2. t = 0 => n.pulse > q.pulse
            BY <2>5, <3>1
          <6> HIDE DEF work, t, n, r, e
          <6>3. ASSUME NEW l \in Nat, NEW i \in Nat, NEW k \in Nat, NEW x \in Nat, NEW y \in Nat,
                       i < l, k <= l, k >= i, x - y \in Nat, y = 0 => k > i
                PROVE  /\ (x - y) + (l - k) \in Nat
                       /\ (x - y) + (l - k) < x + (l - i)
                       /\ x + (l - i) \in Nat
            BY <6>3
          <6>4. q.pulse < Len(q.pulses)
            BY <2>5, <2>3a DEF PlayerFinished
          <6>5. /\ (c - t) + (Len(q.pulses) - n.pulse) \in Nat
                /\ (c - t) + (Len(q.pulses) - n.pulse) < c + (Len(q.pulses) - q.pulse)
                /\ c + (Len(q.pulses) - q.pulse) \in Nat
            BY <2>5, <2>6, <6>2, <6>3, <6>4, Zenon
          <6>6. ASSUME NEW x \in Nat, NEW y \in Nat, x < y PROVE ~(y <= x)
            BY <6>6
          <6> QED
            BY <5>1, <6>1, <6>5, <6>6, Zenon
        <5>3. work(r, e) \notin bad
          <6> HIDE DEF bad, work
          <6> QED
            BY <2>2, <5>2
        <5> HIDE DEF r, work, Parts
        <5> QED
          BY <2>6, <3>2, <4>2, <5>2, <5>3
      <4> QED
        BY <4>1, <4>2
    <3>4. c + d - u = (c - t) + d
      <4> HIDE DEF t, u, n
      <4> QED
        BY <2>5, <3>1
    <3>5. PlayFor(q, c + d) = PlayFor(r, e + d)
      <4> HIDE DEF t, u, n
      <4> QED
        BY <2>7, <3>1, <3>4
    <3>6. PlayFor(q, c) = PlayFor(r, e)
      BY <2>6
    <3> HIDE DEF r, e
    <3> QED
      BY <2>3, <3>3, <3>5, <3>6
  <2>9. CASE ~(n.left <= c)
    <3>1. t = c /\ c < n.left /\ c - t = 0
      BY <2>5, <2>9 DEF Shorter
    <3> DEFINE r == After(n, c)
    <3>2. /\ r \in TzxPlayer /\ r.left = n.left - c /\ r.left # 0
          /\ PlayerFinished(r) <=> PlayerFinished(n)
          /\ \A x \in Nat : After(r, x) = After(n, c + x)
      <4> HIDE DEF n, t
      <4>1. c <= n.left /\ n.left - c # 0
        BY <2>5, <3>1
      <4> QED
        BY <2>5, <4>1, AfterOK
    <3>3. PlayFor(q, c) = r
      <4>1. PlayFor(q, c) = PlayFor(r, 0)
        BY <2>6, <3>1
      <4> HIDE DEF r
      <4> QED
        BY <3>2, <4>1, PlayForIs
    <3>4. CASE d = 0
      <4>1. PlayFor(r, d) = r
        <5> HIDE DEF r
        <5> QED
          BY <3>2, <3>4, PlayForIs
      <4>2. c + d = c
        BY <3>4
      <4> HIDE DEF r
      <4> QED
        BY <2>3, <3>3, <4>1, <4>2
    <3>5. CASE d # 0
      <4>1. ~PlayerFinished(n)
        <5>1. CASE q.left = 0
          <6>1. n = NextPulse(q)
            BY <5>1 DEF Entered
          <6> HIDE DEF n
          <6> QED
            BY <2>3, <3>1, <6>1, NextPulseOK
        <5>2. CASE q.left # 0
          BY <2>3, <5>2 DEF Entered
        <5> QED
          BY <5>1, <5>2
      <4>2. Entered(r) = r
        <5> HIDE DEF r
        <5> QED
          BY <3>2 DEF Entered
      <4> DEFINE x == Shorter(d, r.left)
      <4>3. x \in Nat /\ PlayFor(r, d) = PlayFor(After(r, x), d - x)
        <5>1. x = Shorter(d, Entered(r).left)
          BY <4>2
        <5> HIDE DEF r, x
        <5>2. ~PlayerFinished(r)
          BY <3>2, <4>1
        <5>3. r = Entered(r) /\ x = Shorter(d, r.left)
          BY <4>2, <5>1
        <5>4. r \in TzxPlayer /\ d # 0 /\ d \in Nat
          BY <3>2, <3>5
        <5>5. ASSUME NEW s, s = Entered(r), NEW y, y = Shorter(d, s.left)
              PROVE  y \in Nat /\ PlayFor(r, d) = PlayFor(After(s, y), d - y)
          BY <5>2, <5>4, <5>5, PlayForTurn
        <5> QED
          BY <5>3, <5>5, Zenon
      <4>4. u = c + x /\ c + d - u = d - x
        <5>1. ASSUME NEW l \in Nat, c < l
              PROVE  /\ Shorter(c + d, l) = c + Shorter(d, l - c)
                     /\ c + d - Shorter(c + d, l) = d - Shorter(d, l - c)
          BY <5>1 DEF Shorter
        <5>2. n.left \in Nat /\ c < n.left /\ r.left = n.left - c
          BY <2>5, <3>1, <3>2
        <5> HIDE DEF r, n
        <5> QED
          BY <5>1, <5>2, Zenon
      <4>5. After(n, u) = After(r, x)
        <5> HIDE DEF r, n, u, x
        <5> QED
          BY <3>2, <4>3, <4>4
      <4>6. PlayFor(q, c + d) = PlayFor(r, d)
        <5> HIDE DEF r, n, u, x
        <5> QED
          BY <2>7, <4>3, <4>4, <4>5
      <4> HIDE DEF r
      <4> QED
        BY <2>3, <3>3, <4>6
    <3> QED
      BY <3>4, <3>5
  <2> QED
    BY <2>8, <2>9
<1>3. CASE PlayerFinished(p)
  BY <1>1, <1>3
<1>4. CASE ~PlayerFinished(p)
  <2>1. work(p, a) \in Nat
    BY <1>4 DEF TzxPlayer, PlayerFinished
  <2>2. work(p, a) \notin bad
    BY <1>2
  <2> HIDE DEF work
  <2> QED
    BY <1>4, <2>1, <2>2
<1> QED
  BY <1>3, <1>4

-----------------------------------------------------------------------------
(* advance.                                                                  *)
LEMMA PromoteIs ==
    ASSUME NEW p \in TzxPlayer
    PROVE  /\ Promote(p) \in TzxPlayer /\ SameTape(p, Promote(p))
           /\ p.pulses # <<>> /\ p.left = 0 /\ p.pulse + 1 >= Len(p.pulses) =>
                /\ Promote(p) = [p EXCEPT !.pulse = Len(p.pulses), !.level = FALSE,
                                         !.block = BlockAt(p.starts, p.block, Len(p.pulses))]
                /\ PlayerFinished(Promote(p))
           /\ ~(p.pulses # <<>> /\ p.left = 0 /\ p.pulse + 1 >= Len(p.pulses)) => Promote(p) = p
<1> DEFINE last == p.pulses # <<>> /\ p.left = 0 /\ p.pulse + 1 >= Len(p.pulses)
           block == BlockAt(p.starts, p.block, Len(p.pulses))
           q == [p EXCEPT !.pulse = Len(p.pulses), !.level = FALSE, !.block = block]
<1>1. Promote(p) = IF last THEN q ELSE p
  BY Zenon DEF Promote
<1>2. block \in Nat /\ Len(p.pulses) \in Nat
  BY BlockAtOK DEF TzxPlayer
<1> HIDE DEF block
<1>3. q \in TzxPlayer /\ SameTape(p, q) /\ PlayerFinished(q)
  <2> DEFINE n == Len(p.pulses)
  <2>1. q = [p EXCEPT !.pulse = n, !.level = FALSE, !.block = block]
    OBVIOUS
  <2> HIDE DEF n, q
  <2>2. n \in Nat
    BY <1>2 DEF n
  <2>3. q \in TzxPlayer /\ SameTape(p, q) /\ q.pulse = n
    BY <1>2, <2>1, <2>2 DEF TzxPlayer, SameTape
  <2>4. Len(q.pulses) = n
    BY <2>3 DEF SameTape, n
  <2> QED
    BY <2>2, <2>3, <2>4 DEF PlayerFinished
<1> HIDE DEF q
<1> QED
  BY <1>1, <1>3 DEF q, block, SameTape

LEMMA SamePlayer ==
    ASSUME NEW f \in TzxPlayer, NEW g \in TzxPlayer,
           f.kind = g.kind, f.pulses = g.pulses, f.starts = g.starts, f.pulse = g.pulse,
           f.left = g.left, f.level = g.level, f.block = g.block, f.playing = g.playing
    PROVE  f = g
<1> DEFINE fields == {"kind", "pulses", "starts", "pulse", "left", "level", "block", "playing"}
<1>1. DOMAIN f = fields /\ DOMAIN g = fields
  BY DEF TzxPlayer
<1>2. \A y \in fields : f[y] = g[y]
  OBVIOUS
<1>3. f = [y \in DOMAIN f |-> f[y]] /\ g = [y \in DOMAIN g |-> g[y]]
  BY DEF TzxPlayer
<1> HIDE DEF fields
<1> QED
  BY <1>1, <1>2, <1>3

LEMMA AdvancePlayerIs ==
    ASSUME NEW p \in TzxPlayer, NEW dt \in Nat, p.playing
    PROVE  LET q == Promote(PlayFor(p, dt))
           IN  /\ q \in TzxPlayer /\ q.playing
               /\ AdvancePlayer(p, dt) = [q EXCEPT !.playing = ~PlayerFinished(q)]
               /\ AdvancePlayer(p, dt) \in TzxPlayer
<1> DEFINE f == PlayFor(p, dt)
           q == Promote(f)
<1>1. f \in TzxPlayer /\ SameTape(p, f)
  BY PlayForIs
<1> HIDE DEF f
<1>2. q \in TzxPlayer /\ SameTape(f, q)
  BY <1>1, PromoteIs
<1>3. AdvancePlayer(p, dt) =
        [p EXCEPT !.pulse = q.pulse, !.left = q.left, !.level = q.level,
                  !.block = q.block, !.playing = ~PlayerFinished(q)]
  BY Zenon DEF AdvancePlayer, f
<1> HIDE DEF q
<1>4. PlayerFinished(q) \in BOOLEAN
  BY DEF PlayerFinished
<1> DEFINE on == ~PlayerFinished(q)
           f2 == [p EXCEPT !.pulse = q.pulse, !.left = q.left, !.level = q.level,
                           !.block = q.block, !.playing = on]
           g2 == [q EXCEPT !.playing = on]
<1>5. on \in BOOLEAN
  BY <1>4
<1>6. f2 = AdvancePlayer(p, dt) /\ g2 = [q EXCEPT !.playing = ~PlayerFinished(q)]
  BY <1>3, Zenon
<1> HIDE DEF on
<1>7. /\ f2 \in TzxPlayer /\ f2.kind = p.kind /\ f2.pulses = p.pulses /\ f2.starts = p.starts
      /\ f2.pulse = q.pulse /\ f2.left = q.left /\ f2.level = q.level
      /\ f2.block = q.block /\ f2.playing = on
  BY <1>2, <1>5 DEF TzxPlayer
<1>8. /\ g2 \in TzxPlayer /\ g2.kind = q.kind /\ g2.pulses = q.pulses /\ g2.starts = q.starts
      /\ g2.pulse = q.pulse /\ g2.left = q.left /\ g2.level = q.level
      /\ g2.block = q.block /\ g2.playing = on
  BY <1>2, <1>5 DEF TzxPlayer
<1>9. SameTape(p, q)
  BY <1>1, <1>2 DEF SameTape
<1> HIDE DEF f2, g2
<1>10. f2 = g2
  <2>1. p.kind = q.kind /\ p.pulses = q.pulses /\ p.starts = q.starts
    BY <1>2, <1>9 DEF SameTape, TzxPlayer
  <2> QED
    BY <1>7, <1>8, <2>1, SamePlayer
<1> QED
  <2>1. q.playing
    BY <1>9 DEF SameTape
  <2> QED
    BY <1>2, <1>6, <1>7, <1>10, <2>1, Zenon DEF q, f

(* Where the player is after a time does not depend on how the time is cut.  *)
THEOREM TimeMayBeCut ==
    ASSUME NEW p \in TzxPlayer, p.playing, NEW a \in Nat, NEW b \in Nat, b # 0
    PROVE  AdvancePlayer(AdvancePlayer(p, a), b) = AdvancePlayer(p, a + b)
<1> DEFINE f == PlayFor(p, a)
           q == Promote(f)
           d == AdvancePlayer(p, a)
           atEnd == f.pulses # <<>> /\ f.left = 0 /\ f.pulse + 1 >= Len(f.pulses)
<1>1. f \in TzxPlayer /\ SameTape(p, f)
  BY PlayForIs
<1>2. q \in TzxPlayer /\ q.playing /\ d = [q EXCEPT !.playing = ~PlayerFinished(q)]
  BY AdvancePlayerIs
<1>3. PlayFor(p, a + b) = PlayFor(f, b)
  BY PlayForParts
<1>4. a + b \in Nat
  OBVIOUS
<1>5. AdvancePlayer(p, a + b) =
        [Promote(PlayFor(f, b)) EXCEPT !.playing = ~PlayerFinished(Promote(PlayFor(f, b)))]
  <2>1. \A dt \in Nat : AdvancePlayer(p, dt) =
          [Promote(PlayFor(p, dt)) EXCEPT !.playing = ~PlayerFinished(Promote(PlayFor(p, dt)))]
    BY AdvancePlayerIs
  <2> HIDE DEF f
  <2> QED
    BY <1>3, <1>4, <2>1, Zenon
<1>6. CASE ~atEnd /\ ~PlayerFinished(f)
  <2>1. q = f
    BY <1>1, <1>6, PromoteIs
  <2>2. d = f
    BY <1>2, <1>6, <2>1 DEF TzxPlayer
  <2>3. d.playing
    BY <1>2, <2>1, <2>2
  <2>4. AdvancePlayer(d, b) =
          [Promote(PlayFor(f, b)) EXCEPT !.playing = ~PlayerFinished(Promote(PlayFor(f, b)))]
    <3> HIDE DEF d, f
    <3> QED
      BY <1>1, <2>2, <2>3, AdvancePlayerIs
  <2> QED
    BY <1>5, <2>4
<1>7. CASE PlayerFinished(f)
  <2>1. PlayFor(f, b) = f
    BY <1>1, <1>7, PlayForIs
  <2>2. PlayerFinished(q)
    BY <1>1, <1>7, PromoteIs
  <2>3. ~d.playing
    BY <1>2, <2>2 DEF TzxPlayer
  <2>4. AdvancePlayer(d, b) = d
    BY <2>3 DEF AdvancePlayer
  <2> QED
    BY <1>2, <1>5, <2>1, <2>4
<1>8. CASE atEnd /\ ~PlayerFinished(f)
  <2> DEFINE n == NextPulse(f)
             r == Promote(n)
  <2>1. /\ n \in TzxPlayer /\ SameTape(f, n)
        /\ n.pulse = f.pulse + 1 /\ f.pulse + 1 <= Len(f.pulses)
        /\ PlayerFinished(n) =>
              /\ n.pulse = Len(f.pulses) /\ n.left = 0 /\ ~n.level
              /\ n.block = BlockAt(f.starts, f.block, Len(f.pulses))
    <3> HIDE DEF f
    <3> QED
      BY <1>1, <1>8, NextPulseOK
  <2>2. PlayerFinished(n)
    <3> HIDE DEF n, f
    <3> QED
      BY <1>8, <2>1 DEF PlayerFinished, SameTape
  <2>3. PlayFor(f, b) = n
    <3>1. Entered(f) = n
      BY <1>8 DEF Entered
    <3> DEFINE t == Shorter(b, n.left)
    <3>2. t = 0 /\ b - t = b
      <4> HIDE DEF n
      <4> QED
        BY <2>1, <2>2 DEF Shorter
    <3>3. After(n, t) = n
      <4> HIDE DEF n, t
      <4> QED
        BY <2>1, <2>2, <3>2, AfterOK
    <3>4. PlayFor(f, b) = PlayFor(n, b)
      <4> HIDE DEF f, n
      <4> QED
        BY <1>1, <1>8, <3>1, <3>2, <3>3, PlayForTurn
    <3> HIDE DEF n
    <3> QED
      BY <2>1, <2>2, <3>4, PlayForIs
  <2>4. /\ q = [f EXCEPT !.pulse = Len(f.pulses), !.level = FALSE,
                         !.block = BlockAt(f.starts, f.block, Len(f.pulses))]
        /\ PlayerFinished(q)
    BY <1>1, <1>8, PromoteIs
  <2>5. r = q
    <3>1. /\ n.pulses = f.pulses /\ n.starts = f.starts /\ n.kind = f.kind
          /\ n.playing = f.playing
      BY <2>1 DEF SameTape
    <3>2. n = q
      <4> HIDE DEF n, f, q
      <4> QED
        BY <1>1, <1>8, <2>1, <2>2, <2>4, <3>1 DEF TzxPlayer
    <3>3. BlockAt(n.starts, n.block, Len(n.pulses)) = n.block
      <4>1. f.starts \in Seq(Nat) /\ f.block \in Nat
        BY <1>1 DEF TzxPlayer
      <4> HIDE DEF n, f
      <4> QED
        BY <2>1, <2>2, <3>1, <4>1, BlockAtOK
    <3>4. r = n
      <4>1. \/ r = n
            \/ r = [n EXCEPT !.pulse = Len(n.pulses), !.level = FALSE,
                            !.block = BlockAt(n.starts, n.block, Len(n.pulses))]
        <5> HIDE DEF n
        <5> QED
          BY <2>1, PromoteIs
      <4>2. n.pulse = Len(n.pulses) /\ n.level = FALSE
        <5> HIDE DEF n, f
        <5> QED
          BY <2>1, <2>2, <3>1 DEF TzxPlayer
      <4>3. ASSUME NEW x, NEW y, n.pulse = x, n.block = y, n.level = FALSE
            PROVE  [n EXCEPT !.pulse = x, !.level = FALSE, !.block = y] = n
        <5> HIDE DEF n
        <5> QED
          BY <2>1, <4>3 DEF TzxPlayer
      <4> HIDE DEF r, n
      <4> QED
        BY <3>3, <4>1, <4>2, <4>3, Zenon
    <3> QED
      BY <3>2, <3>4
  <2>6. ~d.playing
    BY <1>2, <2>4 DEF TzxPlayer
  <2>7. AdvancePlayer(d, b) = d
    BY <2>6 DEF AdvancePlayer
  <2> QED
    BY <1>2, <1>5, <2>3, <2>5, <2>7
<1> QED
  BY <1>6, <1>7, <1>8
-----------------------------------------------------------------------------
TzxDeckOK(d) == d \in TzxPlayer

OptionsOK ==
    /\ options \in [flash : BOOLEAN, experience : BOOLEAN, speed : Nat \ {0}]
    /\ ~(options.flash /\ options.experience)

DeckInv ==
    /\ OptionsOK
    /\ deck = NoDeck \/ TapDeckOK(deck) \/ TzxDeckOK(deck)

(* The guest of a load waits for it with its request.                        *)
WaitInv ==
    /\ guest \in Guests
    /\ LoadReachesItsCaller

LoadInv == DeckInv /\ WaitInv

-----------------------------------------------------------------------------
(* The player.                                                               *)

LEMMA LengthsOK ==
    ASSUME NEW b \in TapBlock, NEW p \in TapDecks, NEW i \in 0 .. Len(p.image) - 1
    PROVE  /\ Pilots(b) \in Nat
           /\ BlockOf(p, i) \in TapBlock
           /\ \A experience \in BOOLEAN : TailPause(p, i, experience) \in Nat \ {0}
<1>1. Pilots(b) \in Nat
  BY WaveAssumption DEF Pilots
<1>2. BlockOf(p, i) \in TapBlock
  <2>1. p.image \in Seq(TapBlock) /\ i + 1 \in 1 .. Len(p.image)
    BY DEF TapDecks
  <2> QED
    BY <2>1 DEF BlockOf
<1>3. BlockOf(p, i).pause \in Nat
  BY <1>2 DEF TapBlock
<1>4. ASSUME NEW experience \in BOOLEAN
      PROVE  TailPause(p, i, experience) \in Nat \ {0}
  BY <1>3, WaveAssumption, DeckAssumption DEF TailPause
<1> QED
  BY <1>1, <1>2, <1>4

(* What stays when a block is queued.                                        *)
SameLoad(p, q) ==
    /\ q.image = p.image /\ q.pending = p.pending
    /\ q.experience = p.experience /\ q.playing = p.playing

LEMMA QueueKeeps ==
    ASSUME NEW q \in TapDecks, q.block <= Len(q.image),
           q.pending # NoLoad => q.pending.block < Len(q.image)
    PROVE  /\ TapPlayerOK(Queue(q))
           /\ Queue(q).block = q.block
           /\ SameLoad(q, Queue(q))
<1> DEFINE i == q.block
<1>3. Len(q.image) \in Nat /\ i \in Nat
  BY DEF TapDecks
<1>4. CASE i = Len(q.image)
  <2> DEFINE end == [q EXCEPT !.left = 0]
  <2>1. Queue(q) = end
    BY <1>3, <1>4 DEF Queue
  <2>2. /\ end \in TapDecks /\ end.block = i /\ end.left = 0 /\ SameLoad(q, end)
    BY DEF TapDecks, SameLoad
  <2> HIDE DEF end
  <2> QED
    BY <1>3, <1>4, <2>1, <2>2 DEF TapPlayerOK, SameLoad
<1>5. CASE i < Len(q.image)
  <2> DEFINE b == BlockOf(q, i)
             t == Pilots(b) + 2 + 2 * b.size + TailPause(q, i, q.experience)
             next == [q EXCEPT !.left = t]
  <2>1. b \in TapBlock /\ TailPause(q, i, q.experience) \in Nat \ {0}
    <3>1. i \in 0 .. Len(q.image) - 1
      BY <1>3, <1>5
    <3>2. q.experience \in BOOLEAN
      BY DEF TapDecks
    <3>3. [flag |-> 0, size |-> 0, good |-> TRUE, pause |-> 0] \in TapBlock
      BY DEF TapBlock, NoFlag
    <3> QED
      BY <3>1, <3>2, <3>3, LengthsOK
  <2>2. Pilots(b) \in Nat /\ b.size \in Nat
    <3>1. b.size \in Nat
      BY <2>1 DEF TapBlock
    <3>2. Pilots(b) \in Nat
      BY WaveAssumption DEF Pilots
    <3> QED
      BY <3>1, <3>2
  <2>3. t \in Nat /\ t # 0
    <3> HIDE DEF b
    <3> QED
      BY <2>1, <2>2
  <2>4. Queue(q) = next
    <3>1. ~(q.block >= Len(q.image)) /\ q.block = i
      BY <1>3, <1>5
    <3> QED
      BY <3>1, Zenon DEF Queue
  <2> HIDE DEF t
  <2>5. /\ next \in TapDecks /\ next.block = i /\ next.left = t /\ SameLoad(q, next)
    BY <2>3 DEF TapDecks, SameLoad
  <2> HIDE DEF next
  <2> QED
    BY <1>3, <1>5, <2>3, <2>4, <2>5 DEF TapPlayerOK, SameLoad
<1> QED
  BY <1>3, <1>4, <1>5

LEMMA QueueOK ==
    ASSUME NEW p \in TapDecks, NEW i \in Nat, i <= Len(p.image),
           p.pending # NoLoad => p.pending.block < Len(p.image)
    PROVE  /\ TapPlayerOK(QueueAt(p, i))
           /\ QueueAt(p, i).block = i
           /\ SameLoad(p, QueueAt(p, i))
<1> DEFINE q == [p EXCEPT !.block = i]
<1>1. /\ q \in TapDecks /\ q.block = i /\ q.image = p.image
      /\ q.pending = p.pending /\ q.experience = p.experience /\ q.playing = p.playing
  BY DEF TapDecks
<1>2. QueueAt(p, i) = Queue(q)
  BY DEF QueueAt
<1> HIDE DEF q
<1> QED
  BY <1>1, <1>2, QueueKeeps DEF SameLoad

LEMMA NewTapPlayerOK ==
    ASSUME NEW image \in Seq(TapBlock)
    PROVE  /\ TapPlayerOK(TapPlayer(image))
           /\ TapPlayer(image).pending = NoLoad
           /\ TapPlayer(image).experience = FALSE
<1> DEFINE p == [kind |-> "tap", image |-> image, block |-> 0, left |-> 0,
                 playing |-> TRUE, experience |-> FALSE, pending |-> NoLoad]
<1>1. p \in TapDecks /\ p.pending = NoLoad /\ p.experience = FALSE /\ p.image = image
  BY DEF TapDecks
<1>2. p.block <= Len(p.image)
  OBVIOUS
<1>3. TapPlayer(image) = Queue(p)
  BY DEF TapPlayer
<1> HIDE DEF p
<1> QED
  BY <1>1, <1>2, <1>3, QueueKeeps DEF SameLoad

LEMMA SetPlayingOK ==
    ASSUME NEW d, NEW playing \in BOOLEAN
    PROVE  /\ d = NoDeck => SetPlaying(d, playing) = NoDeck
           /\ TapPlayerOK(d) =>
                 /\ TapPlayerOK(SetPlaying(d, playing))
                 /\ SetPlaying(d, playing).pending = d.pending
                 /\ SetPlaying(d, playing).image = d.image
                 /\ SetPlaying(d, playing).experience = d.experience
           /\ TzxDeckOK(d) => TzxDeckOK(SetPlaying(d, playing))
<1>1. d = NoDeck => SetPlaying(d, playing) = NoDeck
  BY DEF SetPlaying, NoDeck
<1>2. ASSUME TapPlayerOK(d)
      PROVE  /\ TapPlayerOK(SetPlaying(d, playing))
             /\ SetPlaying(d, playing).pending = d.pending
             /\ SetPlaying(d, playing).image = d.image
             /\ SetPlaying(d, playing).experience = d.experience
  <2> DEFINE q == [d EXCEPT !.playing = playing]
  <2>1. SetPlaying(d, playing) = q
    BY <1>2 DEF SetPlaying, TapPlayerOK, TapDecks
  <2>2. /\ q \in TapDecks /\ q.block = d.block /\ q.left = d.left
        /\ q.image = d.image /\ q.pending = d.pending /\ q.experience = d.experience
    BY <1>2 DEF TapPlayerOK, TapDecks
  <2> HIDE DEF q
  <2> QED
    BY <1>2, <2>1, <2>2 DEF TapPlayerOK
<1>3. ASSUME TzxDeckOK(d)
      PROVE  TzxDeckOK(SetPlaying(d, playing))
  <2> DEFINE q == [d EXCEPT !.playing = playing]
  <2>1. SetPlaying(d, playing) = q
    BY <1>3 DEF SetPlaying, TzxDeckOK, TzxPlayer
  <2>2. TzxDeckOK(q)
    BY <1>3 DEF TzxDeckOK, TzxPlayer
  <2> QED
    BY <2>1, <2>2
<1> QED
  BY <1>1, <1>2, <1>3

LEMMA SetExperienceOK ==
    ASSUME NEW p, TapPlayerOK(p), NEW experience \in BOOLEAN
    PROVE  /\ TapPlayerOK(SetExperience(p, experience))
           /\ SetExperience(p, experience).experience = experience
           /\ SetExperience(p, experience).pending = p.pending
           /\ SetExperience(p, experience).image = p.image
<1>0. p \in TapDecks /\ Len(p.image) \in Nat /\ p.block \in Nat /\ p.left \in Nat
  BY DEF TapPlayerOK, TapDecks
<1>1. CASE p.experience = experience
  BY <1>1 DEF SetExperience
<1>2. CASE p.experience # experience /\ TapFinished(p)
  <2> DEFINE q == [p EXCEPT !.experience = experience]
  <2>1. SetExperience(p, experience) = q
    BY <1>2 DEF SetExperience
  <2>2. /\ q \in TapDecks /\ q.block = p.block /\ q.left = p.left
        /\ q.image = p.image /\ q.pending = p.pending /\ q.experience = experience
    BY <1>0 DEF TapDecks
  <2> HIDE DEF q
  <2> QED
    BY <2>1, <2>2 DEF TapPlayerOK
<1>3. CASE p.experience # experience /\ ~TapFinished(p)
  <2> DEFINE old == TailPause(p, p.block, p.experience)
             new == TailPause(p, p.block, experience)
             t == IF p.left <= old THEN new ELSE p.left - old + new
             q == [p EXCEPT !.experience = experience, !.left = t]
  <2>1. old \in Nat \ {0} /\ new \in Nat \ {0}
    <3>1. p.block \in 0 .. Len(p.image) - 1
      BY <1>0, <1>3 DEF TapFinished
    <3>2. p.experience \in BOOLEAN
      BY <1>0 DEF TapDecks
    <3>3. [flag |-> 0, size |-> 0, good |-> TRUE, pause |-> 0] \in TapBlock
      BY DEF TapBlock, NoFlag
    <3> QED
      BY <1>0, <3>1, <3>2, <3>3, LengthsOK
  <2>2. SetExperience(p, experience) = q
    BY <1>3, Zenon DEF SetExperience
  <2> HIDE DEF old, new
  <2>3. t \in Nat /\ t # 0
    BY <1>0, <2>1
  <2> HIDE DEF t
  <2>4. /\ q \in TapDecks /\ q.block = p.block /\ q.left = t
        /\ q.image = p.image /\ q.pending = p.pending /\ q.experience = experience
    BY <1>0, <2>3 DEF TapDecks
  <2> HIDE DEF q
  <2>5. p.block < Len(p.image)
    BY <1>0, <1>3 DEF TapFinished
  <2> QED
    BY <1>0, <2>2, <2>3, <2>4, <2>5 DEF TapPlayerOK
<1> QED
  BY <1>1, <1>2, <1>3

LEMMA AdvanceTapOK ==
    ASSUME NEW p, TapPlayerOK(p)
    PROVE  /\ TapPlayerOK(AdvanceTap(p))
           /\ AdvanceTap(p).experience = p.experience
           /\ AdvanceTap(p).pending = p.pending
           /\ AdvanceTap(p).image = p.image
<1>0. /\ p \in TapDecks /\ Len(p.image) \in Nat /\ p.block \in Nat /\ p.left \in Nat
      /\ p.block <= Len(p.image) /\ (p.left = 0 <=> p.block = Len(p.image))
      /\ p.pending # NoLoad => p.pending.block < Len(p.image)
  BY DEF TapPlayerOK, TapDecks
<1> DEFINE q == IF p.left > 1 THEN [p EXCEPT !.left = @ - 1]
                ELSE IF p.left = 1 THEN QueueAt(p, p.block + 1)
                ELSE p
<1>1. TapPlayerOK(q) /\ q.experience = p.experience /\ q.pending = p.pending /\ q.image = p.image
  <2>1. CASE p.left > 1
    <3> DEFINE s == [p EXCEPT !.left = @ - 1]
    <3>1. /\ s \in TapDecks /\ s.block = p.block /\ s.left = p.left - 1
          /\ s.image = p.image /\ s.pending = p.pending /\ s.experience = p.experience
      BY <1>0, <2>1 DEF TapDecks
    <3>2. q = s
      BY <2>1
    <3> HIDE DEF s, q
    <3> QED
      BY <1>0, <2>1, <3>1, <3>2 DEF TapPlayerOK
  <2>2. CASE p.left = 1
    <3>1. q = QueueAt(p, p.block + 1)
      BY <2>2
    <3>2. p.block + 1 \in Nat /\ p.block + 1 <= Len(p.image)
      BY <1>0, <2>2
    <3> HIDE DEF q
    <3> QED
      BY <1>0, <3>1, <3>2, QueueOK DEF SameLoad
  <2>3. CASE p.left = 0
    BY <2>3
  <2> QED
    BY <1>0, <2>1, <2>2, <2>3
<1> DEFINE r == [q EXCEPT !.playing = ~TapFinished(q)]
<1>2. AdvanceTap(p) = IF ~p.playing THEN p ELSE r
  BY DEF AdvanceTap
<1> HIDE DEF q
<1>3. TapPlayerOK(r) /\ r.experience = q.experience /\ r.pending = q.pending /\ r.image = q.image
  <2>1. q \in TapDecks /\ TapFinished(q) \in BOOLEAN
    BY <1>1 DEF TapPlayerOK, TapFinished
  <2>2. /\ r \in TapDecks /\ r.block = q.block /\ r.left = q.left
        /\ r.image = q.image /\ r.pending = q.pending /\ r.experience = q.experience
    BY <2>1 DEF TapDecks
  <2> HIDE DEF r
  <2> QED
    BY <1>1, <2>2 DEF TapPlayerOK
<1> HIDE DEF r
<1> QED
  BY <1>1, <1>2, <1>3

LEMMA MinOK ==
    ASSUME NEW S \in SUBSET Nat, S # {}
    PROVE  Min(S) \in S
<1>1. PICK x \in S : \A y \in S : x <= y
  BY LeastNatural
<1> QED
  BY <1>1, Zenon DEF Min

(* A request is answered from a block that matches it, or the deck keeps all *)
(* but its place.                                                            *)
LEMMA EvaluateOK ==
    ASSUME NEW p, TapPlayerOK(p), p.pending = NoLoad, NEW request,
           NEW result, result = Evaluate(p, request)
    PROVE  /\ TapPlayerOK(result.player)
           /\ result.player.pending = NoLoad
           /\ result.player.image = p.image
           /\ result.player.experience = p.experience
           /\ result.success =>
                 LET block == result.player.block - 1
                 IN  /\ block \in 0 .. Len(p.image) - 1
                     /\ Matches(BlockOf(p, block), request)
<1> DEFINE found == Candidates(p, request)
           i == Min(found)
<1>0. /\ p \in TapDecks /\ Len(p.image) \in Nat /\ p.block \in Nat
      /\ p.block <= Len(p.image)
  BY DEF TapPlayerOK, TapDecks
<1>1. CASE found = {}
  <2>1. result = [success |-> FALSE, player |-> QueueAt(p, p.block)]
    BY <1>1 DEF Evaluate
  <2>2. TapPlayerOK(QueueAt(p, p.block)) /\ SameLoad(p, QueueAt(p, p.block))
    BY <1>0, QueueOK
  <2> QED
    BY <2>1, <2>2 DEF SameLoad
<1>2. CASE found # {}
  <2>1. i \in 0 .. Len(p.image) - 1
    <3>1. found \in SUBSET Nat /\ found \subseteq 0 .. Len(p.image) - 1
      BY <1>0 DEF Candidates
    <3> HIDE DEF found
    <3>2. i \in found
      BY <1>2, <3>1, MinOK
    <3> QED
      BY <3>1, <3>2
  <2> HIDE DEF i
  <2>2. CASE ~Matches(BlockOf(p, i), request)
    <3> DEFINE q == IF i = p.block THEN p ELSE QueueAt(p, i)
    <3>1. result = [success |-> FALSE, player |-> q]
      BY <1>2, <2>2, Zenon DEF Evaluate, i
    <3>2. /\ TapPlayerOK(q) /\ q.pending = NoLoad /\ q.image = p.image
          /\ q.experience = p.experience
      BY <1>0, <2>1, QueueOK DEF SameLoad
    <3> HIDE DEF q
    <3> QED
      BY <3>1, <3>2
  <2>3. CASE Matches(BlockOf(p, i), request)
    <3> DEFINE next == QueueAt(p, i + 1)
               playing == next.playing /\ ~TapFinished(next)
               q == [next EXCEPT !.playing = playing]
    <3>1. result = [success |-> TRUE, player |-> q]
      BY <1>2, <2>3, Zenon DEF Evaluate, i
    <3>2. TapPlayerOK(next) /\ next.block = i + 1 /\ SameLoad(p, next)
      <4>1. i + 1 \in Nat /\ i + 1 <= Len(p.image)
        BY <1>0, <2>1
      <4> QED
        BY <1>0, <4>1, QueueOK
    <3> HIDE DEF next
    <3>3. playing \in BOOLEAN
      BY <3>2 DEF TapPlayerOK, TapDecks, TapFinished
    <3> HIDE DEF playing
    <3>4. /\ q \in TapDecks /\ q.block = next.block /\ q.left = next.left
          /\ q.image = next.image /\ q.pending = next.pending
          /\ q.experience = next.experience
      BY <3>2, <3>3 DEF TapPlayerOK, TapDecks
    <3> HIDE DEF q
    <3>5. TapPlayerOK(q)
      BY <3>2, <3>4 DEF TapPlayerOK
    <3>6. q.block - 1 = i
      BY <2>1, <3>2, <3>4
    <3> QED
      BY <2>1, <2>3, <3>1, <3>2, <3>4, <3>5, <3>6 DEF SameLoad
  <2> QED
    BY <2>2, <2>3
<1> QED
  BY <1>1, <1>2

-----------------------------------------------------------------------------
(* What the actions do to the deck.                                          *)

LEMMA StartOK ==
    ASSUME NEW p \in TzxPlayer
    PROVE  Start(p) \in TzxPlayer
<1> DEFINE first == IF p.pulses = <<>> THEN [t |-> 0, high |-> FALSE] ELSE Head(p.pulses)
           block == BlockAt(p.starts, p.block, 0)
<1>1. first.t \in Nat /\ first.high \in BOOLEAN
  <2>1. CASE p.pulses = <<>>
    BY <2>1
  <2>2. CASE p.pulses # <<>>
    <3>1. p.pulses \in Seq(Pulse)
      BY DEF TzxPlayer
    <3>2. Head(p.pulses) \in Pulse
      BY <2>2, <3>1
    <3>3. first = Head(p.pulses)
      BY <2>2
    <3> HIDE DEF first
    <3> QED
      BY <3>2, <3>3 DEF Pulse
  <2> QED
    BY <2>1, <2>2
<1>2. block \in Nat
  BY BlockAtOK DEF TzxPlayer
<1>3. Start(p) = [p EXCEPT !.pulse = 0, !.left = first.t, !.level = first.high,
                           !.block = block]
  BY Zenon DEF Start
<1> DEFINE t == first.t
           high == first.high
<1>4. /\ t \in Nat /\ high \in BOOLEAN
      /\ Start(p) = [p EXCEPT !.pulse = 0, !.left = t, !.level = high, !.block = block]
  BY <1>1, <1>3
<1> HIDE DEF first, block, t, high
<1>5. t \in Nat /\ high \in BOOLEAN /\ block \in Nat
  BY <1>2, <1>4
<1>6. [p EXCEPT !.pulse = 0, !.left = t, !.level = high, !.block = block] \in TzxPlayer
  BY <1>5 DEF TzxPlayer
<1> QED
  BY <1>4, <1>6, Zenon

LEMMA TzxDecksKept ==
    ASSUME NEW d, TzxDeckOK(d)
    PROVE  /\ TzxDeckOK(RewindPlayer(d))
           /\ \A dt \in Nat : TzxDeckOK(AdvancePlayer(d, dt))
<1>1. TzxDeckOK(RewindPlayer(d))
  <2>1. [d EXCEPT !.playing = FALSE, !.block = 0] \in TzxPlayer
    BY DEF TzxDeckOK, TzxPlayer
  <2> QED
    BY <2>1, StartOK DEF RewindPlayer, TzxDeckOK
<1>2. ASSUME NEW dt \in Nat
      PROVE  TzxDeckOK(AdvancePlayer(d, dt))
  <2>1. CASE d.playing
    BY <2>1, AdvancePlayerIs DEF TzxDeckOK
  <2>2. CASE ~d.playing
    BY <2>2 DEF AdvancePlayer
  <2> QED
    BY <2>1, <2>2
<1> QED
  BY <1>1, <1>2

LEMMA NewTzxDeckOK == \A r : Scheduled(r) => TzxDeckOK(NewPlayer(r))
<1> SUFFICES ASSUME NEW r, Scheduled(r) PROVE TzxDeckOK(NewPlayer(r))
  OBVIOUS
<1> DEFINE p == [kind |-> "tzx", pulses |-> r.wave.pulses, starts |-> r.starts,
                 pulse |-> 0, left |-> 0, level |-> FALSE, block |-> 0,
                 playing |-> r.wave.pulses # <<>>]
<1>1. p \in TzxPlayer
  BY DEF Scheduled, Wave, TzxPlayer
<1>2. NewPlayer(r) = Start(p)
  BY DEF NewPlayer
<1> HIDE DEF p
<1> QED
  BY <1>1, <1>2, StartOK DEF TzxDeckOK

LEMMA Kinds ==
    ASSUME NEW d
    PROVE  /\ TapPlayerOK(d) => d.kind = "tap"
           /\ d = NoDeck => d.kind = "none"
           /\ TzxDeckOK(d) => d.kind = "tzx"
  BY DEF TapPlayerOK, TapDecks, NoDeck, TzxDeckOK, TzxPlayer

LEMMA RewindOK ==
    ASSUME NEW d
    PROVE  /\ d = NoDeck => RewindDeck(d) = NoDeck
           /\ TapPlayerOK(d) => /\ TapPlayerOK(RewindDeck(d))
                               /\ RewindDeck(d).pending = d.pending
                               /\ RewindDeck(d).image = d.image
                               /\ RewindDeck(d).experience = d.experience
           /\ TzxDeckOK(d) => TzxDeckOK(RewindDeck(d))
<1>1. d = NoDeck => RewindDeck(d) = NoDeck
  BY DEF RewindDeck, NoDeck
<1>2. ASSUME TapPlayerOK(d)
      PROVE  /\ TapPlayerOK(RewindDeck(d))
             /\ RewindDeck(d).pending = d.pending
             /\ RewindDeck(d).image = d.image
             /\ RewindDeck(d).experience = d.experience
  <2> DEFINE q == [d EXCEPT !.playing = FALSE]
  <2>1. /\ q \in TapDecks /\ q.image = d.image
        /\ q.pending = d.pending /\ q.experience = d.experience
    BY <1>2 DEF TapPlayerOK, TapDecks
  <2>2. RewindDeck(d) = QueueAt(q, 0)
    BY <1>2 DEF RewindDeck, TapPlayerOK, TapDecks
  <2>3. 0 \in Nat /\ 0 <= Len(q.image)
    BY <2>1 DEF TapDecks
  <2>4. q.pending # NoLoad => q.pending.block < Len(q.image)
    BY <1>2, <2>1 DEF TapPlayerOK
  <2> HIDE DEF q
  <2> QED
    BY <2>1, <2>2, <2>3, <2>4, QueueOK DEF SameLoad
<1>3. ASSUME TzxDeckOK(d)
      PROVE  TzxDeckOK(RewindDeck(d))
  <2>1. RewindDeck(d) = RewindPlayer(d)
    BY <1>3, Kinds DEF RewindDeck
  <2> QED
    BY <1>3, <2>1, TzxDecksKept
<1> QED
  BY <1>1, <1>2, <1>3

(* A deck that keeps image and pending load keeps its caller, if the guest   *)
(* stays or is known to have gone.                                           *)
LEMMA CallerKept ==
    ASSUME LoadInv,
           deck' = NoDeck \/ (TapPlayerOK(deck) /\ TapPlayerOK(deck')
                               /\ deck'.image = deck.image
                               /\ deck'.pending = deck.pending)
                         \/ TzxDeckOK(deck'),
           \/ guest' = guest /\ stray' = stray
           \/ guest' = Away /\ stray' = (stray \/ Pending)
    PROVE  WaitInv'
<1>1. guest' \in Guests
  BY DEF LoadInv, WaitInv, Guests
<1>2. ASSUME Pending'
      PROVE  /\ Pending
             /\ deck'.image = deck.image /\ deck'.pending = deck.pending
  BY <1>2, Kinds DEF Pending, IsTap
<1>3. LoadReachesItsCaller'
  <2> SUFFICES ASSUME Pending'
               PROVE  /\ Matches(BlockOf(deck, deck.pending.block), deck.pending.request)'
                      /\ ~stray' => (AtTrap /\ guest.request = deck.pending.request)'
    BY Zenon DEF LoadReachesItsCaller
  <2>1. /\ Pending /\ deck'.image = deck.image /\ deck'.pending = deck.pending
    BY <1>2
  <2>2. /\ Matches(BlockOf(deck, deck.pending.block), deck.pending.request)
        /\ ~stray => AtTrap /\ guest.request = deck.pending.request
    BY <2>1 DEF LoadInv, WaitInv, LoadReachesItsCaller
  <2>3. BlockOf(deck', deck'.pending.block) = BlockOf(deck, deck.pending.block)
    BY <2>1 DEF BlockOf
  <2> QED
    BY <2>1, <2>2, <2>3 DEF AtTrap, Matches
<1> QED
  BY <1>1, <1>3 DEF WaitInv

LEMMA NoLoadWaits ==
    ASSUME ~Pending', guest' \in Guests
    PROVE  WaitInv'
  BY DEF WaitInv, LoadReachesItsCaller

LEMMA InsertInv ==
    ASSUME LoadInv, NEW d, Insert(d), guest' = guest,
           \/ TapPlayerOK(d) /\ d.pending = NoLoad
           \/ TzxDeckOK(d)
    PROVE  LoadInv'
<1>1. OptionsOK' /\ options'.experience = options.experience /\ options.experience \in BOOLEAN
  BY DEF LoadInv, DeckInv, OptionsOK, Insert
<1> DEFINE e == SetPlaying(d, FALSE)
<1>2. CASE TapPlayerOK(d) /\ d.pending = NoLoad
  <2>1. TapPlayerOK(e) /\ e.pending = NoLoad
    BY <1>2, SetPlayingOK
  <2>2. deck' = SetExperience(e, options.experience)
    BY <1>2, Kinds DEF Insert
  <2> HIDE DEF e
  <2>3. TapDeckOK(deck)' /\ deck'.pending = NoLoad
    BY <1>1, <2>1, <2>2, SetExperienceOK DEF TapDeckOK
  <2> QED
    BY <1>1, <2>3, NoLoadWaits DEF LoadInv, DeckInv, WaitInv, Pending
<1>3. CASE TzxDeckOK(d)
  <2>1. TzxDeckOK(e)
    BY <1>3, SetPlayingOK
  <2>2. deck' = e
    BY <1>3, Kinds DEF Insert
  <2> HIDE DEF e
  <2>3. TzxDeckOK(deck)' /\ ~Pending'
    BY <2>1, <2>2, Kinds DEF Pending, IsTap
  <2> QED
    BY <1>1, <2>3, NoLoadWaits DEF LoadInv, DeckInv, WaitInv
<1> QED
  BY <1>2, <1>3

(* Deck, options and guest as an operation on the deck alone leaves them.    *)
LEMMA DeckMoved ==
    ASSUME LoadInv, options' = options,
           /\ deck = NoDeck => deck' = NoDeck
           /\ TapPlayerOK(deck) =>
                 /\ TapPlayerOK(deck')
                 /\ deck'.pending = deck.pending
                 /\ deck'.image = deck.image
                 /\ deck'.experience = deck.experience
           /\ TzxDeckOK(deck) => TzxDeckOK(deck'),
           \/ guest' = guest /\ stray' = stray
           \/ guest' = Away /\ stray' = (stray \/ Pending)
    PROVE  LoadInv'
<1>1. OptionsOK'
  BY DEF LoadInv, DeckInv, OptionsOK
<1>2. (deck = NoDeck \/ TapDeckOK(deck) \/ TzxDeckOK(deck))'
  BY DEF LoadInv, DeckInv, TapDeckOK
<1>3. WaitInv'
  BY CallerKept DEF LoadInv, DeckInv, TapDeckOK
<1> QED
  BY <1>1, <1>2, <1>3 DEF LoadInv, DeckInv

LEMMA CompleteInv ==
    ASSUME LoadInv, Pending, Complete, options' = options
    PROVE  LoadInv'
<1>1. TapDeckOK(deck)
  BY Kinds DEF LoadInv, DeckInv, Pending, IsTap
<1>2. /\ deck' = [deck EXCEPT !.pending = NoLoad] /\ guest' = Away
  BY DEF Complete
<1>3. /\ deck' \in TapDecks /\ deck'.image = deck.image /\ deck'.block = deck.block
      /\ deck'.left = deck.left /\ deck'.experience = deck.experience
      /\ deck'.pending = NoLoad
  BY <1>1, <1>2 DEF TapDeckOK, TapPlayerOK, TapDecks
<1>4. TapDeckOK(deck)'
  BY <1>1, <1>3 DEF TapDeckOK, TapPlayerOK
<1>5. ~Pending' /\ guest' \in Guests
  BY <1>2, <1>3 DEF Pending, Guests
<1> QED
  BY <1>4, <1>5, NoLoadWaits DEF LoadInv, DeckInv, OptionsOK

LEMMA PaintInv ==
    ASSUME LoadInv, Paint, options' = options
    PROVE  LoadInv'
<1>1. CASE ~Pending
  <2>1. UNCHANGED <<deck, guest, stray>>
    BY <1>1 DEF Paint
  <2> QED
    BY <2>1, DeckMoved
<1>2. CASE Pending /\ deck.pending.left <= Stripes
  BY <1>2, CompleteInv DEF Paint
<1>3. CASE Pending /\ ~(deck.pending.left <= Stripes)
  <2>1. TapDeckOK(deck)
    BY <1>3, Kinds DEF LoadInv, DeckInv, Pending, IsTap
  <2>2. deck.pending \in Loads
    BY <1>3, <2>1 DEF TapDeckOK, TapPlayerOK, TapDecks, Pending
  <2> DEFINE load == [deck.pending EXCEPT !.left = @ - Stripes]
  <2>3. /\ load \in Loads /\ load.block = deck.pending.block
        /\ load.request = deck.pending.request /\ load # NoLoad
    BY <1>3, <2>2, DeckAssumption DEF Loads, NoLoad
  <2>4. deck' = [deck EXCEPT !.pending = load] /\ UNCHANGED <<guest, stray>>
    BY <1>3 DEF Paint
  <2> HIDE DEF load
  <2>5. /\ deck' \in TapDecks /\ deck'.image = deck.image /\ deck'.block = deck.block
        /\ deck'.left = deck.left /\ deck'.experience = deck.experience
        /\ deck'.pending = load
    BY <2>1, <2>3, <2>4 DEF TapDeckOK, TapPlayerOK, TapDecks
  <2>6. TapDeckOK(deck)'
    BY <1>3, <2>1, <2>3, <2>5 DEF TapDeckOK, TapPlayerOK, Pending
  <2>7. WaitInv'
    <3>1. /\ Matches(BlockOf(deck, deck.pending.block), deck.pending.request)
          /\ ~stray => AtTrap /\ guest.request = deck.pending.request
      BY <1>3 DEF LoadInv, WaitInv, LoadReachesItsCaller
    <3>2. BlockOf(deck', deck'.pending.block) = BlockOf(deck, deck.pending.block)
      BY <2>3, <2>5 DEF BlockOf
    <3>3. Matches(BlockOf(deck', deck'.pending.block), deck'.pending.request)
      BY <2>3, <2>5, <3>1, <3>2
    <3> QED
      BY <2>3, <2>4, <2>5, <3>1, <3>3
      DEF LoadInv, WaitInv, LoadReachesItsCaller, AtTrap
  <2> QED
    BY <2>6, <2>7 DEF LoadInv, DeckInv, OptionsOK
<1> QED
  BY <1>1, <1>2, <1>3

LEMMA OptionsInv ==
    ASSUME LoadInv, NEW opts \in [flash : BOOLEAN, experience : BOOLEAN, speed : Nat \ {0}],
           SetTapeLoadOptions(opts)
    PROVE  LoadInv'
<1>1. /\ options' = Normalized(opts) /\ UNCHANGED <<guest, stray>>
      /\ deck' = IF IsTap THEN SetExperience(deck, opts.experience) ELSE deck
  BY DEF SetTapeLoadOptions
<1>2. OptionsOK' /\ options'.experience = opts.experience /\ opts.experience \in BOOLEAN
  BY <1>1, DeckAssumption DEF Normalized, OptionsOK
<1>3. CASE TapDeckOK(deck)
  <2>1. TapPlayerOK(deck) /\ IsTap
    BY <1>3, Kinds DEF TapDeckOK, IsTap
  <2>2. deck' = SetExperience(deck, opts.experience)
    BY <1>1, <2>1
  <2>3. /\ TapPlayerOK(deck') /\ deck'.experience = opts.experience
        /\ deck'.pending = deck.pending /\ deck'.image = deck.image
    BY <1>2, <2>1, <2>2, SetExperienceOK
  <2>4. WaitInv'
    BY <1>1, <2>1, <2>3, CallerKept
  <2> QED
    BY <1>2, <2>3, <2>4 DEF LoadInv, DeckInv, TapDeckOK
<1>4. CASE deck = NoDeck \/ TzxDeckOK(deck)
  <2>1. deck' = deck /\ ~Pending'
    BY <1>1, <1>4, Kinds DEF IsTap, Pending
  <2>2. WaitInv'
    BY <1>1, <2>1, NoLoadWaits DEF LoadInv, WaitInv
  <2> QED
    BY <1>2, <1>4, <2>1, <2>2 DEF LoadInv, DeckInv
<1> QED
  BY <1>3, <1>4 DEF LoadInv, DeckInv

(* A guest that is at the trap and not held has no load pending.             *)
LEMMA FlashInv ==
    ASSUME LoadInv, FlashLoad
    PROVE  LoadInv'
<1> DEFINE request == guest.request
           result == Evaluate(deck, request)
           block == result.player.block - 1
<1>1. /\ AtTrap /\ ~Hold /\ IsTap
      /\ UNCHANGED <<options, stray>>
      /\ IF result.success /\ options.experience
         THEN /\ deck' = [result.player EXCEPT !.pending = Load(request, block)]
              /\ UNCHANGED guest
         ELSE /\ deck' = result.player
              /\ guest' = Away
  BY DEF FlashLoad
<1>2. TapDeckOK(deck) /\ deck.pending = NoLoad
  BY <1>1, Kinds DEF LoadInv, DeckInv, IsTap, Hold, HasTape, Pending
<1>3. request \in Requests
  BY <1>1 DEF LoadInv, WaitInv, Guests, AtTrap, Away
<1>4. /\ TapPlayerOK(result.player)
      /\ result.player.pending = NoLoad
      /\ result.player.image = deck.image
      /\ result.player.experience = deck.experience
      /\ result.success => /\ block \in 0 .. Len(deck.image) - 1
                          /\ Matches(BlockOf(deck, block), request)
  BY <1>2, EvaluateOK DEF TapDeckOK
<1> HIDE DEF result
<1>5. CASE result.success /\ options.experience
  <2> DEFINE load == Load(request, block)
  <2>1. load \in Loads /\ load.block = block /\ load.request = request
    <3>1. block \in Nat
      BY <1>2, <1>4, <1>5 DEF TapDeckOK, TapPlayerOK, TapDecks
    <3> HIDE DEF block, request
    <3> QED
      BY <1>3, <3>1, DeckAssumption DEF Load, Loads
  <2>2. deck' = [result.player EXCEPT !.pending = load] /\ UNCHANGED guest
    BY <1>1, <1>5
  <2> HIDE DEF load
  <2>3. /\ deck' \in TapDecks /\ deck'.image = deck.image
        /\ deck'.block = result.player.block
        /\ deck'.left = result.player.left /\ deck'.experience = deck.experience
        /\ deck'.pending = load
    BY <1>4, <2>1, <2>2 DEF TapPlayerOK, TapDecks
  <2>4. block < Len(deck.image)
    BY <1>2, <1>4, <1>5 DEF TapDeckOK, TapPlayerOK, TapDecks
  <2>5. TapDeckOK(deck)'
    BY <1>1, <1>2, <1>4, <2>1, <2>3, <2>4 DEF TapDeckOK, TapPlayerOK
  <2>6. WaitInv'
    <3>1. BlockOf(deck', deck'.pending.block) = BlockOf(deck, block)
      BY <2>1, <2>3 DEF BlockOf
    <3>2. Matches(BlockOf(deck', deck'.pending.block), deck'.pending.request)
      BY <1>4, <1>5, <2>1, <2>3, <3>1
    <3> QED
      BY <1>1, <2>1, <2>2, <2>3, <3>2 DEF LoadInv, WaitInv, LoadReachesItsCaller, AtTrap
  <2> QED
    BY <1>1, <2>5, <2>6 DEF LoadInv, DeckInv, OptionsOK
<1>6. CASE ~(result.success /\ options.experience)
  <2>1. deck' = result.player /\ guest' = Away
    BY <1>1, <1>6
  <2>2. TapDeckOK(deck)' /\ ~Pending' /\ guest' \in Guests
    BY <1>1, <1>2, <1>4, <2>1 DEF TapDeckOK, Pending, Guests
  <2> QED
    BY <1>1, <2>2, NoLoadWaits DEF LoadInv, DeckInv, OptionsOK
<1> QED
  BY <1>5, <1>6

(* The guest moves only while no load waits for it.                          *)
LEMMA InstructionInv ==
    ASSUME LoadInv, NEW dt \in Ticks, Instruction(dt)
    PROVE  LoadInv'
<1>0. dt \in Nat
  BY DeckAssumption
<1>1. /\ ~Hold /\ GuestMoves /\ deck' = AdvanceEar(deck, dt)
      /\ UNCHANGED <<options, stray>>
  BY DEF Instruction
<1>2. guest' \in Guests
  <2>1. guest \in Guests
    BY DEF LoadInv, WaitInv
  <2>2. CASE guest.at = "away"
    BY <1>1, <2>1, <2>2 DEF GuestMoves, Guests
  <2>3. CASE guest.at = "trap"
    BY <1>1, <2>1, <2>3 DEF GuestMoves, Guests, Away
  <2>4. CASE guest.at = "reading"
    BY <1>1, <2>1, <2>4 DEF GuestMoves, Guests, Away
  <2> QED
    BY <2>1, <2>2, <2>3, <2>4 DEF Guests, Away
<1>3. (deck = NoDeck \/ TapDeckOK(deck) \/ TzxDeckOK(deck))'
  <2>1. CASE deck = NoDeck
    BY <1>1, <2>1, Kinds DEF AdvanceEar
  <2>2. CASE TapDeckOK(deck)
    <3>1. deck' = IF Traps THEN deck ELSE AdvanceTap(deck)
      BY <1>1, <2>2, Kinds DEF AdvanceEar, TapDeckOK
    <3> QED
      BY <1>1, <2>2, <3>1, AdvanceTapOK DEF TapDeckOK
  <2>3. CASE TzxDeckOK(deck)
    <3>1. deck' = AdvancePlayer(deck, dt)
      BY <1>1, <2>3, Kinds DEF AdvanceEar
    <3> QED
      BY <1>0, <2>3, <3>1, TzxDecksKept
  <2> QED
    BY <2>1, <2>2, <2>3 DEF LoadInv, DeckInv
<1>4. Pending' => Pending /\ deck'.pending = deck.pending /\ deck'.image = deck.image
  <2>1. CASE deck = NoDeck
    BY <1>1, <2>1, Kinds DEF AdvanceEar, Pending, IsTap
  <2>2. CASE TapDeckOK(deck)
    <3>1. deck' = IF Traps THEN deck ELSE AdvanceTap(deck)
      BY <1>1, <2>2, Kinds DEF AdvanceEar, TapDeckOK
    <3> QED
      BY <2>2, <3>1, AdvanceTapOK, Kinds DEF TapDeckOK, Pending, IsTap
  <2>3. CASE TzxDeckOK(deck)
    <3>1. deck' = AdvancePlayer(deck, dt)
      BY <1>1, <2>3, Kinds DEF AdvanceEar
    <3> QED
      BY <1>0, <2>3, <3>1, TzxDecksKept, Kinds DEF Pending, IsTap
  <2> QED
    BY <2>1, <2>2, <2>3 DEF LoadInv, DeckInv
<1>5. WaitInv'
  <2> SUFFICES ASSUME Pending'
               PROVE  LoadReachesItsCaller'
    BY <1>2 DEF WaitInv, LoadReachesItsCaller
  <2>1. Pending /\ deck'.pending = deck.pending /\ deck'.image = deck.image
    BY <1>4
  <2>2. /\ Matches(BlockOf(deck, deck.pending.block), deck.pending.request)
        /\ ~stray => AtTrap
    BY <2>1 DEF LoadInv, WaitInv, LoadReachesItsCaller
  <2>3. stray
    BY <1>1, <2>1, <2>2 DEF Hold, HasTape, Pending, IsTap
  <2>4. BlockOf(deck', deck'.pending.block) = BlockOf(deck, deck.pending.block)
    BY <2>1 DEF BlockOf
  <2>5. Matches(BlockOf(deck', deck'.pending.block), deck'.pending.request)
    BY <2>1, <2>2, <2>4
  <2> QED
    BY <1>1, <2>3, <2>5 DEF LoadReachesItsCaller
<1> QED
  BY <1>1, <1>3, <1>5 DEF LoadInv, DeckInv, OptionsOK

-----------------------------------------------------------------------------

LEMMA LoadInit == Init => LoadInv
  BY Kinds DEF Init, LoadInv, DeckInv, WaitInv, OptionsOK, Guests,
     LoadReachesItsCaller, Pending, IsTap

LEMMA LoadStep == ScheduleInv /\ LoadInv /\ [Next]_vars => LoadInv'
<1> SUFFICES ASSUME ScheduleInv, LoadInv, [Next]_vars
             PROVE  LoadInv'
  OBVIOUS
<1>1. ASSUME NEW file \in TapFiles, OpenTap(file)
      PROVE  LoadInv'
  <2>1. file.blocks \in Seq(TapBlock)
    BY FilesAssumption
  <2> QED
    BY <1>1, <2>1, NewTapPlayerOK, InsertInv DEF OpenTap
<1>2. ASSUME NEW file \in TzxFiles, OpenPlainTzx(file)
      PROVE  LoadInv'
  <2>1. ToTapImage(file) \in Seq(TapBlock)
    BY <1>2, FilesAssumption DEF OpenPlainTzx
  <2> QED
    BY <1>2, <2>1, NewTapPlayerOK, InsertInv DEF OpenPlainTzx
<1>3. CASE InsertTzx
  <2>1. Scheduled(reader)
    BY <1>3 DEF InsertTzx, ScheduleInv, Closed
  <2> QED
    BY <1>3, <2>1, NewTzxDeckOK, InsertInv DEF InsertTzx
<1>4. CASE PlayTape \/ PauseTape \/ Reset
  BY <1>4, SetPlayingOK, DeckMoved DEF PlayTape, PauseTape, Reset
<1>5. CASE RewindTape
  BY <1>5, RewindOK, DeckMoved DEF RewindTape
<1>6. CASE EjectTape
  <2>1. deck' = NoDeck /\ UNCHANGED <<options, guest>>
    BY <1>6 DEF EjectTape
  <2>2. ~Pending'
    BY <2>1, Kinds DEF Pending, IsTap
  <2> QED
    BY <2>1, <2>2, NoLoadWaits DEF LoadInv, DeckInv, WaitInv, OptionsOK
<1>7. ASSUME NEW flash \in BOOLEAN, NEW experience \in BOOLEAN, NEW speed \in Speeds,
             SetTapeLoadOptions([flash |-> flash, experience |-> experience,
                                 speed |-> speed])
      PROVE  LoadInv'
  <2>1. [flash |-> flash, experience |-> experience, speed |-> speed]
            \in [flash : BOOLEAN, experience : BOOLEAN, speed : Nat \ {0}]
    BY DeckAssumption
  <2> QED
    BY <1>7, <2>1, OptionsInv
<1>8. CASE StartFrame \/ NextInnerFrame
  BY <1>8, PaintInv DEF StartFrame, NextInnerFrame
<1>9. CASE StepCompletes
  BY <1>9, CompleteInv DEF StepCompletes
<1>10. CASE FlashLoad
  BY <1>10, FlashInv
<1>11. ASSUME NEW dt \in Ticks, Instruction(dt)
       PROVE  LoadInv'
  BY <1>11, InstructionInv
<1>12. CASE \/ \E file \in TzxFiles : OpenTzx(file)
            \/ ReadTzx \/ RefuseTzx \/ EndFrame
            \/ UNCHANGED vars
  <2>1. UNCHANGED <<deck, options, guest, stray>>
    BY <1>12 DEF OpenTzx, ReadTzx, RefuseTzx, EndFrame, vars
  <2> QED
    BY <2>1, DeckMoved
<1>13. CASE MoveGuest
  BY <1>13, DeckMoved DEF MoveGuest
<1> QED
  BY <1>1, <1>2, <1>3, <1>4, <1>5, <1>6, <1>7, <1>8, <1>9, <1>10, <1>11, <1>12, <1>13
  DEF Next

(* An Experience load that is poked frames after it was asked for is a good  *)
(* block of the right kind for a guest that still waits for it, whatever the *)
(* user did to the deck (complete_experience_pending_flash).                 *)
THEOREM LoadsReachTheirCallers == Spec => []LoadReachesItsCaller
<1>1. LoadInv => LoadReachesItsCaller
  BY DEF LoadInv, WaitInv
<1> QED
  BY LoadInit, LoadStep, Schedules, <1>1, PTL DEF Spec

(* A TAP player is always at one of its blocks or at the end, its schedule   *)
(* is empty only there, and it follows the session's loading mode.           *)
THEOREM TapPlayersAreSound == Spec => [](deck.kind = "tap" => TapDeckOK(deck))
<1>1. LoadInv => (deck.kind = "tap" => TapDeckOK(deck))
  BY Kinds DEF LoadInv, DeckInv
<1> QED
  BY LoadInit, LoadStep, Schedules, <1>1, PTL DEF Spec

-----------------------------------------------------------------------------
(* From any deck, after any history, two stretches of any length leave the   *)
(* player where their sum leaves it (TzxPlayer::advance).                    *)
THEOREM StretchesAddUp ==
    Spec => [](deck.kind = "tzx" /\ deck.playing =>
                  \A a \in Nat, b \in Nat \ {0} :
                      AdvancePlayer(AdvancePlayer(deck, a), b) = AdvancePlayer(deck, a + b))
<1>1. LoadInv => (deck.kind = "tzx" /\ deck.playing =>
                    \A a \in Nat, b \in Nat \ {0} :
                        AdvancePlayer(AdvancePlayer(deck, a), b) = AdvancePlayer(deck, a + b))
  <2> SUFFICES ASSUME LoadInv, deck.kind = "tzx", deck.playing,
                      NEW a \in Nat, NEW b \in Nat \ {0}
               PROVE  AdvancePlayer(AdvancePlayer(deck, a), b) = AdvancePlayer(deck, a + b)
    OBVIOUS
  <2>1. deck \in TzxPlayer
    BY Kinds DEF LoadInv, DeckInv, TapDeckOK, TzxDeckOK
  <2>2. b \in Nat /\ b # 0
    OBVIOUS
  <2> QED
    BY <2>1, <2>2, TimeMayBeCut
<1> QED
  BY LoadInit, LoadStep, Schedules, <1>1, PTL DEF Spec

(* The run's form of it: stretches of up to three states.                    *)
THEOREM ChunksDoNotMatter == Spec => []ChunkingDoesNotMatter
<1>1. (deck.kind = "tzx" /\ deck.playing =>
          \A a \in Nat, b \in Nat \ {0} :
              AdvancePlayer(AdvancePlayer(deck, a), b) = AdvancePlayer(deck, a + b))
      => ChunkingDoesNotMatter
  <2>1. \A a, b \in 1 .. 3 : a \in Nat /\ b \in Nat \ {0}
    OBVIOUS
  <2> QED
    BY <2>1, Zenon DEF ChunkingDoesNotMatter
<1> QED
  BY StretchesAddUp, <1>1, PTL

=============================================================================
