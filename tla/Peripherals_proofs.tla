-------------------------- MODULE Peripherals_proofs --------------------------
(* Proofs about the peripherals, whatever is attached, for media and frames   *)
(* of any size: first the ULA's picture, then the two cards, the controller   *)
(* of the +3 and that of the Beta Disk, and the board with all of them.       *)
EXTENDS Peripherals, UlaPictureInv, SequenceTheorems, WellFoundedInduction, TLAPS

(* What the constants of the picture are.                                     *)
LEMMA PictureAssumption == PictureConstants
  BY PeripheralsAssumption

-----------------------------------------------------------------------------
(* The ULA's events.                                                         *)

(* A list of timed values is Timed, and the last one due is the active one.   *)
LEMMA EventsAreTimed ==
    ASSUME NEW V, NEW events \in Seq(Nat \X V)
    PROVE  Timed(events)
  BY DEF Timed

LEMMA LatestIsActive ==
    ASSUME NEW events, Timed(events), NEW latest, NEW t \in Nat,
           NEW m, LatestDue(events, t, m)
    PROVE  ActiveAt(events, latest, t) = events[m][2]
<1> DEFINE due == {i \in DOMAIN events : events[i][1] =< t}
<1>1. DOMAIN events = 1 .. Len(events) /\ Len(events) \in Nat
  BY DEF Timed
<1>2. m \in due /\ \A y \in due : m >= y
  BY <1>1 DEF LatestDue
<1>3. due \subseteq Nat
  BY <1>1
<1>4. Max(due) \in due /\ \A y \in due : Max(due) >= y
  BY <1>2 DEF Max
<1>5. Max(due) = m
  <2> HIDE DEF due
  <2>1. m \in Nat /\ Max(due) \in Nat
    BY <1>2, <1>3, <1>4, Zenon
  <2>2. m >= Max(due) /\ Max(due) >= m
    BY <1>2, <1>4
  <2> QED
    BY <2>1, <2>2
<1>6. events # <<>>
  BY <1>2
<1> QED
  BY <1>2, <1>5, <1>6 DEF ActiveAt

(* A value that has settled is the active one.                                *)
LEMMA SettledIsActive ==
    ASSUME NEW events, Timed(events), NEW latest, NEW t \in Nat, NEW value,
           Settled(events, value, t)
    PROVE  ActiveAt(events, latest, t) = value
<1>1. LatestDue(events, t, Len(events))
  BY DEF Settled, LatestDue, Timed
<1>2. ActiveAt(events, latest, t) = events[Len(events)][2]
  BY <1>1, LatestIsActive
<1> QED
  BY <1>2 DEF Settled

LEMMA ActiveValue ==
    ASSUME NEW V, NEW events \in Seq(Nat \X V), AlwaysDue(events), NEW latest, NEW t \in Nat
    PROVE  ActiveAt(events, latest, t) \in V
<1>1. PICK m \in 1 .. Len(events) : LatestDue(events, t, m)
  BY DEF AlwaysDue
<1>2. ActiveAt(events, latest, t) = events[m][2]
  BY <1>1, LatestIsActive, EventsAreTimed, Zenon
<1> QED
  BY <1>2

(* A value entered at the end of a list, and what it does to lookups.         *)
LEMMA Entered ==
    ASSUME NEW V, NEW events \in Seq(Nat \X V), NEW at \in Nat, NEW value \in V
    PROVE  LET new == Append(events, <<at, value>>)
           IN  /\ new \in Seq(Nat \X V)
               /\ Timed(events) /\ Timed(new)
               /\ Len(new) = Len(events) + 1
               /\ \A i \in 1 .. Len(events) : new[i] = events[i]
               /\ new[Len(events) + 1][1] = at
               /\ new[Len(events) + 1][2] = value
<1> DEFINE new == Append(events, <<at, value>>)
<1>1. new \in Seq(Nat \X V)
  OBVIOUS
<1>2. /\ Len(new) = Len(events) + 1
      /\ \A i \in 1 .. Len(events) : new[i] = events[i]
      /\ new[Len(events) + 1] = <<at, value>>
  OBVIOUS
<1>3. Timed(events)
  BY EventsAreTimed, Zenon
<1>4. Timed(new)
  BY <1>1, EventsAreTimed, Zenon
<1> QED
  BY <1>1, <1>2, <1>3, <1>4

(* An event that is entered is what is found from its time on, and before    *)
(* its time it changes nothing.                                              *)
LEMMA EnteredEvent ==
    ASSUME NEW V, NEW events \in Seq(Nat \X V), AlwaysDue(events),
           NEW at \in Nat, NEW value \in V
    PROVE  LET new == Append(events, <<at, value>>)
           IN  /\ AlwaysDue(new)
               /\ \A t \in Nat : \A latest :
                     ActiveAt(new, latest, t)
                         = IF at =< t THEN value ELSE ActiveAt(events, latest, t)
<1> DEFINE new == Append(events, <<at, value>>)
<1>1. /\ new \in Seq(Nat \X V)
      /\ Timed(events) /\ Timed(new)
      /\ Len(new) = Len(events) + 1
      /\ \A i \in 1 .. Len(events) : new[i] = events[i]
      /\ new[Len(events) + 1][1] = at
      /\ new[Len(events) + 1][2] = value
  BY Entered
<1>a. \A i \in 1 .. Len(new) : i \in 1 .. Len(events) \/ i = Len(events) + 1
  BY <1>1 DEF Timed
<1> HIDE DEF new
<1>2. ASSUME NEW t \in Nat, at =< t
      PROVE  LatestDue(new, t, Len(new))
  BY <1>1, <1>2 DEF LatestDue, Timed
<1>3. ASSUME NEW t \in Nat, ~(at =< t), NEW m, LatestDue(events, t, m)
      PROVE  LatestDue(new, t, m) /\ new[m] = events[m]
  <2>1. m \in 1 .. Len(events) /\ m \in 1 .. Len(new)
    BY <1>1, <1>3 DEF LatestDue, Timed
  <2>2. new[m][1] =< t
    BY <1>1, <1>3, <2>1, Zenon DEF LatestDue
  <2>3. ASSUME NEW j \in 1 .. Len(new), new[j][1] =< t
        PROVE  j =< m
    BY <1>1, <1>3, <1>a, <2>3, Zenon DEF LatestDue, Timed
  <2> QED
    BY <1>1, <2>1, <2>2, <2>3, Zenon DEF LatestDue
<1>4. ASSUME NEW t \in Nat
      PROVE  \E m \in 1 .. Len(events) : LatestDue(events, t, m)
  BY DEF AlwaysDue
<1>5. AlwaysDue(new)
  <2> SUFFICES ASSUME NEW t \in Nat
               PROVE  \E m \in 1 .. Len(new) : LatestDue(new, t, m)
    BY Zenon DEF AlwaysDue
  <2>1. CASE at =< t
    BY <1>2, <2>1 DEF LatestDue
  <2>2. CASE ~(at =< t)
    <3>1. PICK m \in 1 .. Len(events) : LatestDue(events, t, m)
      BY <1>4
    <3>2. LatestDue(new, t, m)
      BY <1>3, <2>2, <3>1
    <3> QED
      BY <3>2 DEF LatestDue
  <2> QED
    BY <2>1, <2>2
<1>6. ASSUME NEW t \in Nat, NEW latest
      PROVE  ActiveAt(new, latest, t)
                = IF at =< t THEN value ELSE ActiveAt(events, latest, t)
  <2>1. CASE at =< t
    <3>1. LatestDue(new, t, Len(new))
      BY <1>2, <2>1
    <3>2. ActiveAt(new, latest, t) = new[Len(new)][2]
      BY <1>1, <3>1, LatestIsActive
    <3> QED
      BY <1>1, <2>1, <3>2
  <2>2. CASE ~(at =< t)
    <3>1. PICK m \in 1 .. Len(events) : LatestDue(events, t, m)
      BY <1>4
    <3>2. LatestDue(new, t, m) /\ new[m] = events[m]
      BY <1>3, <2>2, <3>1
    <3>3. ActiveAt(new, latest, t) = new[m][2]
      BY <1>1, <3>2, LatestIsActive, SMTT(20)
    <3>4. ActiveAt(events, latest, t) = events[m][2]
      BY <1>1, <3>1, LatestIsActive, SMTT(20)
    <3> QED
      BY <2>2, <3>2, <3>3, <3>4
  <2> QED
    BY <2>1, <2>2
<1> QED
  BY <1>5, <1>6, Zenon DEF new

LEMMA EnteredLast ==
    ASSUME NEW V, NEW events \in Seq(Nat \X V), NEW at \in Nat, NEW value \in V,
           NEW t \in Nat, at =< t,
           \A i \in 1 .. Len(events) : events[i][1] =< t
    PROVE  Settled(Append(events, <<at, value>>), value, t)
<1> DEFINE new == Append(events, <<at, value>>)
<1>1. /\ Timed(events) /\ Timed(new)
      /\ Len(new) = Len(events) + 1
      /\ \A i \in 1 .. Len(events) : new[i] = events[i]
      /\ new[Len(events) + 1][1] = at
      /\ new[Len(events) + 1][2] = value
  BY Entered, SMTT(20)
<1> HIDE DEF new
<1>2. \A i \in 1 .. Len(new) : i \in 1 .. Len(events) \/ i = Len(events) + 1
  BY <1>1 DEF Timed
<1>3. \A i \in 1 .. Len(new) : new[i][1] =< t
  BY <1>1, <1>2, Zenon
<1>4. Settled(new, value, t)
  BY <1>1, <1>3 DEF Settled, Timed
<1> QED
  BY <1>4 DEF new

LEMMA FirstEvent ==
    ASSUME NEW V, NEW value \in V
    PROVE  LET new == <<<<0, value>>>>
           IN  /\ new \in Seq(Nat \X V)
               /\ AlwaysDue(new)
               /\ \A t \in Nat : Settled(new, value, t)
<1> DEFINE new == <<<<0, value>>>>
<1>1. new \in Seq(Nat \X V) /\ Len(new) = 1 /\ new[1][1] = 0 /\ new[1][2] = value
  OBVIOUS
<1> HIDE DEF new
<1>2. \A t \in Nat : LatestDue(new, t, 1)
  BY <1>1 DEF LatestDue
<1>3. AlwaysDue(new)
  BY <1>1, <1>2 DEF AlwaysDue
<1>4. \A t \in Nat : Settled(new, value, t)
  BY <1>1 DEF Settled
<1> QED
  BY <1>1, <1>3, <1>4 DEF new

-----------------------------------------------------------------------------
(* The ULA fetches the cells of the paper after the border's first lines.     *)
LEMMA FetchTimes ==
    ASSUME NEW f \in Fetches
    PROVE  /\ FetchTime(f) \in Nat
           /\ PaperStart =< FetchTime(f) /\ FetchTime(f) < FrameTStates
           /\ CellOf(f) \in Cells
           /\ f[1] # "border"
           /\ f \notin BorderPoints
<1>1. PICK kind \in {"bitmap", "attr"}, l \in 0 .. Lines - 1, c \in 0 .. Columns - 1 :
          f = <<kind, l, c>>
  BY DEF Fetches
<1>2. PaperStart \in Nat /\ TLine \in Nat /\ Lines \in Nat /\ Columns \in Nat
  BY PictureAssumption DEF PictureConstants
<1>3. l \in Nat /\ c \in Nat
  BY <1>2
<1>4. l * TLine \in Nat
  BY <1>2, <1>3
<1>5. FetchTime(f) = PaperStart + l * TLine + (IF kind = "bitmap" THEN 3 ELSE 4) + 4 * c
  BY <1>1 DEF FetchTime
<1>6. FetchTime(f) \in Nat /\ PaperStart =< FetchTime(f)
  BY <1>2, <1>3, <1>4, <1>5
<1>7. FetchTime(f) < FrameTStates
  BY PictureAssumption DEF PictureConstants
<1>8. f[1] # "border"
  BY <1>1
<1>9. f \notin BorderPoints
  BY <1>8 DEF BorderPoints
<1> QED
  BY <1>6, <1>7, <1>8, <1>9 DEF Cells

LEMMA BorderTimesOK ==
    ASSUME NEW p \in BorderPoints
    PROVE  p[1] = "border" /\ p[2] \in Nat /\ p[2] < FrameTStates
<1>1. PICK t \in BorderTimes : p = <<"border", t>>
  BY DEF BorderPoints
<1>2. t \in Nat /\ t < FrameTStates
  BY PictureAssumption DEF PictureConstants
<1> QED
  BY <1>1, <1>2

(* Ahead of the beam the picture is what the display shows now.              *)
LEMMA AheadIsShown ==
    ASSUME PictureTypes, NEW T \in Nat, NotesAt(T),
           NEW f \in Fetches, FetchTime(f) >= T
    PROVE  Rendered(f) = banks[ula.display_screen_bank][CellOf(f)]
<1>1. Settled(ula.screen_events, ula.display_screen_bank, FetchTime(f))
  BY DEF NotesAt
<1>2. Timed(ula.screen_events)
  BY EventsAreTimed, Zenon DEF PictureTypes, UlaTypes
<1>3. ActiveAt(ula.screen_events, ula.display_screen_bank, FetchTime(f))
          = ula.display_screen_bank
  BY <1>1, <1>2, FetchTimes, SettledIsActive
<1>4. f \notin DOMAIN ula.beam[ula.display_screen_bank]
  <2> SUFFICES ASSUME f \in DOMAIN ula.beam[ula.display_screen_bank]
               PROVE  FALSE
    OBVIOUS
  <2>1. FetchTime(f) < T
    BY DEF NotesAt, PictureTypes, UlaTypes
  <2> QED
    BY <2>1, FetchTimes
<1> QED
  BY <1>3, <1>4, FetchTimes DEF Rendered

(* A point of the border that the beam has not reached shows the current      *)
(* colour.                                                                    *)
LEMMA BorderAheadIsShown ==
    ASSUME PictureTypes, NEW T \in Nat, NotesAt(T),
           NEW p \in BorderPoints, p[2] >= T
    PROVE  Rendered(p) = border
<1>1. p[2] \in Nat /\ p[1] = "border"
  BY BorderTimesOK
<1>2. Settled(ula.border_events, border, T) /\ Timed(ula.border_events)
  BY EventsAreTimed, Zenon DEF NotesAt, PictureTypes, UlaTypes
<1>3. Settled(ula.border_events, border, p[2])
  BY <1>1, <1>2 DEF Settled, Timed
<1> QED
  BY <1>1, <1>2, <1>3, SettledIsActive DEF Rendered

-----------------------------------------------------------------------------
(* An instruction in a frame, from frame_t to T, whose access is at time t.   *)

(* What the beam sees while the instruction runs is what will be rendered.    *)
SeesRendered(T, t) ==
    /\ \A f \in Fetches : frame_t =< FetchTime(f) /\ FetchTime(f) < T =>
          LET bank == IF FetchTime(f) < t + ScreenSwitchDelay
                      THEN port.screen ELSE port'.screen
          IN  Rendered(f)' = IF FetchTime(f) < t THEN banks[bank][CellOf(f)]
                             ELSE banks'[bank][CellOf(f)]
    /\ \A p \in BorderPoints : frame_t =< p[2] /\ p[2] < T =>
          Rendered(p)' = IF p[2] < t THEN border ELSE border'

(* What the beam has seen before is rendered as it was.                       *)
PastIsKept(T) ==
    /\ \A f \in Fetches : FetchTime(f) < T => Rendered(f)' = Rendered(f)
    /\ \A p \in BorderPoints : p[2] < T => Rendered(p)' = Rendered(p)

(* What the beam saw, after an instruction of n T-states.                     *)
LEMMA SeenAdvances ==
    ASSUME NEW T \in Nat, NEW n \in Nat, NEW t \in Nat, T = frame_t + n,
           frame_t \in Nat,
           SeenAt(frame_t), SeesRendered(T, t), PastIsKept(frame_t),
           scan'.seen = Joined(SeenWhile(n, t), scan.seen)
    PROVE  SeenAt(T)'
<1> DEFINE now == SeenWhile(n, t)
           newF == {f \in Fetches : frame_t =< FetchTime(f) /\ FetchTime(f) < T}
           newB == {p \in BorderPoints : frame_t =< p[2] /\ p[2] < T}
<1>1. /\ DOMAIN now = newF \cup newB
      /\ \A f \in newF : now[f] =
            LET bank == IF FetchTime(f) < t + ScreenSwitchDelay
                        THEN port.screen ELSE port'.screen
            IN  IF FetchTime(f) < t THEN banks[bank][CellOf(f)]
                ELSE banks'[bank][CellOf(f)]
      /\ \A p \in newB : p \notin newF =>
            now[p] = IF p[2] < t THEN border ELSE border'
  BY DEF SeenWhile, Joined
<1>2. newF \cap newB = {}
  BY FetchTimes
<1> HIDE DEF now
<1>3. \A p \in newF \cup newB : now[p] = Rendered(p)'
  BY <1>1, <1>2 DEF SeesRendered
<1>4. /\ DOMAIN scan'.seen = newF \cup newB \cup DOMAIN scan.seen
      /\ \A p \in newF \cup newB : scan'.seen[p] = now[p]
      /\ \A p \in DOMAIN scan.seen : p \notin newF \cup newB =>
            scan'.seen[p] = scan.seen[p]
  BY <1>1 DEF Joined, now
<1>5. ASSUME NEW p \in DOMAIN scan'.seen
      PROVE  /\ \/ p \in Fetches /\ FetchTime(p) < T
                \/ p \in BorderPoints /\ p[2] < T
             /\ scan'.seen[p] = Rendered(p)'
  <2>1. CASE p \in newF \cup newB
    BY <1>3, <1>4, <2>1
  <2>2. CASE p \notin newF \cup newB
    <3>1. p \in DOMAIN scan.seen /\ scan'.seen[p] = scan.seen[p]
      BY <1>4, <2>2
    <3>2. \/ p \in Fetches /\ FetchTime(p) < frame_t
          \/ p \in BorderPoints /\ p[2] < frame_t
      BY <3>1 DEF SeenAt
    <3>3. scan.seen[p] = Rendered(p) /\ Rendered(p)' = Rendered(p)
      BY <3>1, <3>2 DEF SeenAt, PastIsKept
    <3> QED
      BY <3>1, <3>2, <3>3, FetchTimes, BorderTimesOK
  <2> QED
    BY <2>1, <2>2
<1> QED
  BY <1>5 DEF SeenAt

-----------------------------------------------------------------------------
(* A frame in progress whose picture will be compared, and an instruction in  *)
(* it that ends at T.                                                         *)
InFrame(T, t) ==
    /\ PictureTypes
    /\ pending_screen_switch = Nothing
    /\ port.screen = ula.display_screen_bank
    /\ NotesAt(frame_t)
    /\ T \in Nat /\ t \in Nat
    /\ frame_t =< t /\ t < T /\ t < FrameTStates

(* What the instruction has to keep.                                          *)
FrameKept(T, t) ==
    /\ SeesRendered(T, t) /\ PastIsKept(frame_t)
    /\ NotesAt(T)'
    /\ T < FrameTStates =>
         pending_screen_switch' = Nothing /\ port'.screen = ula'.display_screen_bank

LEMMA NotesLast ==
    ASSUME PictureTypes, NEW T \in Nat, NotesAt(T), NEW T2 \in Nat, T =< T2
    PROVE  NotesAt(T2)
<1>1. ula.beam_last_t =< T2
  BY DEF NotesAt, PictureTypes, UlaTypes
<1>2. \A b \in Banks : \A f \in DOMAIN ula.beam[b] : f \in Fetches /\ FetchTime(f) < T2
  BY FetchTimes DEF NotesAt
<1>3. Settled(ula.border_events, border, T2)
  BY EventsAreTimed DEF NotesAt, Settled, Timed, PictureTypes, UlaTypes
<1>4. \A f \in Fetches : FetchTime(f) >= T2 =>
          Settled(ula.screen_events, ula.display_screen_bank, FetchTime(f))
  BY FetchTimes DEF NotesAt
<1> QED
  BY <1>1, <1>2, <1>3, <1>4 DEF NotesAt

(* What an access leaves as it was: no access, a write, an OUT.               *)
LEMMA IdleKeepsFrame ==
    ASSUME NEW T, NEW t, InFrame(T, t),
           UNCHANGED <<banks, port, pending_screen_switch, border, ula>>
    PROVE  FrameKept(T, t)
<1>1. frame_t \in Nat /\ T \in Nat /\ frame_t =< T
  BY DEF InFrame, PictureTypes, UlaTypes
<1>2. \A p : Rendered(p)' = Rendered(p)
  BY DEF Rendered
<1>3. \A f \in Fetches : frame_t =< FetchTime(f) =>
          Rendered(f) = banks[port.screen][CellOf(f)]
  BY <1>1, AheadIsShown, FetchTimes DEF InFrame
<1>4. \A p \in BorderPoints : frame_t =< p[2] => Rendered(p) = border
  BY <1>1, BorderAheadIsShown, BorderTimesOK DEF InFrame
<1>5. SeesRendered(T, t)
  BY <1>2, <1>3, <1>4 DEF SeesRendered
<1>6. PastIsKept(frame_t)
  BY <1>2 DEF PastIsKept
<1>7. NotesAt(T)
  BY <1>1, NotesLast DEF InFrame
<1>8. NotesAt(T)'
  BY <1>7 DEF NotesAt
<1> QED
  BY <1>5, <1>6, <1>8 DEF FrameKept, InFrame

LEMMA WriteKeepsFrame ==
    ASSUME NEW T, NEW t, InFrame(T, t),
           NEW bank \in Banks, NEW cell \in Cells, NEW byte,
           WriteByte(t, bank, cell, byte)
    PROVE  FrameKept(T, t)
<1> DEFINE old == banks[bank][cell]
           noted == {f \in Fetches : CellOf(f) = cell /\ t > FetchTime(f)}
<1>1. /\ frame_t \in Nat /\ T \in Nat /\ t \in Nat /\ frame_t =< t /\ t < T
      /\ frame_t =< T /\ port.screen \in Banks
  BY DEF InFrame, PictureTypes, UlaTypes, PortValues
<1>2. ~(t < ula.beam_last_t)
  BY <1>1 DEF InFrame, NotesAt, PictureTypes, UlaTypes
<1>3. ula' = [ula EXCEPT !.beam = [ula.beam EXCEPT ![bank] = NoteWrite(@, cell, old, t)],
                         !.beam_last_t = t]
  BY <1>2 DEF WriteByte, NoteScreenWrite
<1>4. /\ ula'.border_events = ula.border_events
      /\ ula'.screen_events = ula.screen_events
      /\ ula'.display_screen_bank = ula.display_screen_bank
      /\ ula'.beam_last_t = t
      /\ ula'.beam[bank] = NoteWrite(ula.beam[bank], cell, old, t)
      /\ \A b \in Banks \ {bank} : ula'.beam[b] = ula.beam[b]
  BY <1>3 DEF InFrame, PictureTypes, UlaTypes
<1>5. /\ DOMAIN ula'.beam[bank] = DOMAIN ula.beam[bank] \cup noted
      /\ \A f \in DOMAIN ula.beam[bank] : ula'.beam[bank][f] = ula.beam[bank][f]
      /\ \A f \in noted : f \notin DOMAIN ula.beam[bank] => ula'.beam[bank][f] = old
  BY <1>4 DEF NoteWrite, Joined, Passed
<1>6. /\ \A b \in Banks \ {bank} : banks'[b] = banks[b]
      /\ \A c \in Cells \ {cell} : banks'[bank][c] = banks[bank][c]
  BY DEF WriteByte, InFrame, PictureTypes, UlaTypes
<1>7. port' = port /\ border' = border
      /\ pending_screen_switch' = pending_screen_switch
  BY DEF WriteByte
<1>8. ASSUME NEW f \in Fetches, FetchTime(f) < t
      PROVE  Rendered(f)' = Rendered(f)
  <2> DEFINE b == ActiveAt(ula.screen_events, ula.display_screen_bank, FetchTime(f))
  <2>1. /\ Rendered(f) = IF f \in DOMAIN ula.beam[b] THEN ula.beam[b][f]
                         ELSE banks[b][CellOf(f)]
        /\ Rendered(f)' = IF f \in DOMAIN ula'.beam[b] THEN ula'.beam[b][f]
                          ELSE banks'[b][CellOf(f)]
    BY <1>4, FetchTimes DEF Rendered
  <2>2. CASE b = bank
    <3>1. CASE f \in DOMAIN ula.beam[bank]
      BY <1>5, <2>1, <2>2, <3>1
    <3>2. CASE f \notin DOMAIN ula.beam[bank] /\ CellOf(f) = cell
      <4>1. f \in noted
        BY <1>1, <1>8, <3>2, FetchTimes
      <4> QED
        BY <1>5, <2>1, <2>2, <3>2, <4>1
    <3>3. CASE f \notin DOMAIN ula.beam[bank] /\ CellOf(f) # cell
      <4>1. f \notin DOMAIN ula'.beam[bank] /\ CellOf(f) \in Cells
        BY <1>5, <3>3, FetchTimes
      <4> QED
        BY <1>6, <2>1, <2>2, <3>3, <4>1
    <3> QED
      BY <3>1, <3>2, <3>3
  <2>3. CASE b # bank /\ b \in Banks
    BY <1>4, <1>6, <2>1, <2>3
  <2>4. b \in Banks
    BY ActiveValue, FetchTimes DEF InFrame, PictureTypes, UlaTypes, NotesAt
  <2> QED
    BY <2>2, <2>3, <2>4
<1>9. \A p \in BorderPoints : Rendered(p)' = Rendered(p)
  BY <1>4, <1>7, BorderTimesOK DEF Rendered
<1>10. \A f \in Fetches : FetchTime(f) >= frame_t =>
          Rendered(f) = banks[port.screen][CellOf(f)]
  BY <1>1, AheadIsShown DEF InFrame
<1>11. NotesAt(T)'
  <2>1. t =< T
    BY <1>1
  <2>2. ASSUME NEW b \in Banks, NEW f \in DOMAIN ula'.beam[b]
        PROVE  f \in Fetches /\ FetchTime(f) < T
    <3>1. CASE f \in DOMAIN ula.beam[b]
      <4>1. f \in Fetches /\ FetchTime(f) < frame_t
        BY <3>1 DEF InFrame, NotesAt
      <4> QED
        BY <1>1, <4>1, FetchTimes
    <3>2. CASE f \notin DOMAIN ula.beam[b]
      <4>1. f \in Fetches /\ FetchTime(f) < t
        BY <1>1, <1>4, <1>5, <2>2, <3>2, FetchTimes
      <4> QED
        BY <1>1, <4>1, FetchTimes
    <3> QED
      BY <3>1, <3>2
  <2>3. NotesAt(T)
    BY <1>1, NotesLast DEF InFrame
  <2> QED
    BY <1>4, <1>7, <2>1, <2>2, <2>3 DEF NotesAt
<1>12. NotesAt(t)
  BY <1>1, NotesLast DEF InFrame
<1>13. ASSUME NEW f \in Fetches, ~(FetchTime(f) < t)
       PROVE  Rendered(f)' = banks'[port.screen][CellOf(f)]
  <2>1. f \notin DOMAIN ula'.beam[port.screen]
    <3>1. f \notin DOMAIN ula.beam[port.screen]
      BY <1>1, <1>12, <1>13 DEF NotesAt
    <3>2. f \notin noted
      BY <1>1, <1>13, FetchTimes
    <3> QED
      BY <1>1, <1>4, <1>5, <3>1, <3>2
  <2>2. ActiveAt(ula.screen_events, ula.display_screen_bank, FetchTime(f)) = port.screen
    <3>1. Settled(ula.screen_events, ula.display_screen_bank, FetchTime(f))
      BY <1>1, <1>12, <1>13, FetchTimes DEF NotesAt
    <3> QED
      BY <3>1, SettledIsActive, EventsAreTimed, FetchTimes, Zenon DEF InFrame, PictureTypes, UlaTypes
  <2> QED
    BY <1>4, <2>1, <2>2, FetchTimes DEF Rendered
<1>14. SeesRendered(T, t)
  <2>1. ASSUME NEW f \in Fetches, frame_t =< FetchTime(f)
        PROVE  Rendered(f)' = IF FetchTime(f) < t THEN banks[port.screen][CellOf(f)]
                              ELSE banks'[port.screen][CellOf(f)]
    BY <1>1, <1>8, <1>10, <1>13, <2>1, FetchTimes
  <2>2. \A p \in BorderPoints : frame_t =< p[2] => Rendered(p)' = border
    BY <1>1, <1>9, BorderAheadIsShown, BorderTimesOK DEF InFrame
  <2> QED
    BY <1>7, <2>1, <2>2 DEF SeesRendered
<1>15. PastIsKept(frame_t)
  BY <1>1, <1>8, <1>9, FetchTimes DEF PastIsKept
<1> QED
  BY <1>4, <1>7, <1>11, <1>14, <1>15 DEF FrameKept, InFrame

LEMMA OutBorderKeepsFrame ==
    ASSUME NEW T, NEW t, InFrame(T, t), NEW colour \in Colours,
           OutBorder(t, colour)
    PROVE  FrameKept(T, t)
<1>1. /\ frame_t \in Nat /\ T \in Nat /\ t \in Nat /\ frame_t =< t /\ t < T
      /\ frame_t =< T
  BY DEF InFrame, PictureTypes, UlaTypes
<1>2. /\ ula'.border_events = Append(ula.border_events, <<t, colour>>)
      /\ ula'.screen_events = ula.screen_events
      /\ ula'.display_screen_bank = ula.display_screen_bank
      /\ ula'.beam_last_t = ula.beam_last_t
      /\ ula'.beam = ula.beam
      /\ border' = colour
  BY DEF InFrame, PictureTypes, UlaTypes, OutBorder, SetBorder
<1>3. /\ port' = port /\ banks' = banks
      /\ pending_screen_switch' = pending_screen_switch
  BY DEF OutBorder
<1>4. /\ ula.border_events \in Seq(Nat \X Colours) /\ Timed(ula.border_events)
      /\ AlwaysDue(ula.border_events)
      /\ Settled(ula.border_events, border, frame_t)
  BY EventsAreTimed, Zenon DEF InFrame, PictureTypes, UlaTypes, NotesAt
<1>5. /\ AlwaysDue(ula'.border_events)
      /\ \A time \in Nat : \A latest :
            ActiveAt(ula'.border_events, latest, time)
                = IF t =< time THEN colour ELSE ActiveAt(ula.border_events, latest, time)
  <2> DEFINE new == Append(ula.border_events, <<t, colour>>)
  <2>1. /\ AlwaysDue(new)
        /\ \A time \in Nat : \A latest :
              ActiveAt(new, latest, time)
                  = IF t =< time THEN colour ELSE ActiveAt(ula.border_events, latest, time)
    BY <1>1, <1>4, EnteredEvent
  <2> QED
    BY <1>2, <2>1, Zenon
<1>6. Settled(ula'.border_events, colour, T)
  <2>1. \A i \in 1 .. Len(ula.border_events) : ula.border_events[i][1] =< T
    BY <1>1, <1>4 DEF Settled, Timed
  <2>2. t =< T
    BY <1>1
  <2> QED
    BY <1>1, <1>2, <1>4, <2>1, <2>2, EnteredLast, Zenon
<1>7. \A f \in Fetches : Rendered(f)' = Rendered(f)
  BY <1>2, <1>3, FetchTimes DEF Rendered
<1>8. ASSUME NEW p \in BorderPoints
      PROVE  Rendered(p)' = IF p[2] < t THEN ActiveAt(ula.border_events, border', p[2])
                            ELSE colour
  BY <1>1, <1>2, <1>5, BorderTimesOK DEF Rendered
<1>9. ASSUME NEW p \in BorderPoints, NEW l
      PROVE  ActiveAt(ula.border_events, l, p[2]) = Rendered(p)
  <2>1. \E m \in 1 .. Len(ula.border_events) : LatestDue(ula.border_events, p[2], m)
    BY <1>4, BorderTimesOK, Zenon DEF AlwaysDue
  <2> QED
    BY <1>4, <2>1, LatestIsActive, BorderTimesOK DEF Rendered
<1>10. \A f \in Fetches : FetchTime(f) >= frame_t =>
          Rendered(f) = banks[port.screen][CellOf(f)]
  BY <1>1, AheadIsShown DEF InFrame
<1>11. \A p \in BorderPoints : p[2] >= frame_t => Rendered(p) = border
  BY <1>1, BorderAheadIsShown DEF InFrame
<1>12. NotesAt(T)'
  <2>1. NotesAt(T)
    BY <1>1, NotesLast DEF InFrame
  <2> QED
    BY <1>2, <1>5, <1>6, <2>1 DEF NotesAt
<1>13. SeesRendered(T, t)
  <2>1. \A p \in BorderPoints : frame_t =< p[2] =>
            Rendered(p)' = IF p[2] < t THEN border ELSE border'
    BY <1>1, <1>2, <1>8, <1>9, <1>11, BorderTimesOK, Zenon
  <2>2. \A f \in Fetches : frame_t =< FetchTime(f) =>
            Rendered(f)' = banks[port.screen][CellOf(f)]
    BY <1>1, <1>7, <1>10, FetchTimes
  <2> QED
    BY <1>3, <2>1, <2>2 DEF SeesRendered
<1>14. PastIsKept(frame_t)
  <2>1. \A p \in BorderPoints : p[2] < frame_t => p[2] < t
    BY <1>1, BorderTimesOK
  <2> QED
    BY <1>7, <1>8, <1>9, <2>1 DEF PastIsKept
<1> QED
  BY <1>2, <1>3, <1>12, <1>13, <1>14 DEF FrameKept, InFrame

(* A switch that takes effect before the instruction ends; one beyond the     *)
(* frame's end waits for the next frame.                                      *)
LEMMA OutPortKeepsFrame ==
    ASSUME NEW T, NEW t, InFrame(T, t), NEW value \in PortValues,
           t + ScreenSwitchDelay < T,
           Out7ffd(t, value)
    PROVE  FrameKept(T, t)
<1>1. /\ frame_t \in Nat /\ T \in Nat /\ t \in Nat /\ frame_t =< t /\ t < T
      /\ frame_t =< T /\ ScreenSwitchDelay \in Nat /\ FrameTStates \in Nat
      /\ value.screen \in Banks /\ port.screen \in Banks
  BY PictureAssumption DEF InFrame, PictureTypes, UlaTypes, PortValues, PictureConstants
<1>2. banks' = banks /\ border' = border
  BY DEF Out7ffd
<1>3. \A f \in Fetches : FetchTime(f) >= frame_t =>
          /\ Rendered(f) = banks[port.screen][CellOf(f)]
          /\ f \notin DOMAIN ula.beam[7] /\ f \notin DOMAIN ula.beam[5]
  BY <1>1, AheadIsShown, FetchTimes DEF InFrame, NotesAt, Banks
<1>4. \A p \in BorderPoints : p[2] >= frame_t => Rendered(p) = border
  BY <1>1, BorderAheadIsShown DEF InFrame
<1>5. NotesAt(T)
  BY <1>1, NotesLast DEF InFrame
<1>6. CASE port' = port /\ ula' = ula /\ pending_screen_switch' = pending_screen_switch
  BY <1>2, <1>6, IdleKeepsFrame
<1>7. CASE /\ value.screen # port.screen /\ port' = value
           /\ t + ScreenSwitchDelay >= FrameTStates
           /\ ula' = ula
  <2>1. \A p : Rendered(p)' = Rendered(p)
    BY <1>2, <1>7 DEF Rendered
  <2>2. \A f \in Fetches : FetchTime(f) < t + ScreenSwitchDelay
    BY <1>1, <1>7, FetchTimes
  <2>3. SeesRendered(T, t)
    BY <1>1, <1>2, <1>3, <1>4, <2>1, <2>2, FetchTimes, BorderTimesOK DEF SeesRendered
  <2>4. PastIsKept(frame_t)
    BY <2>1 DEF PastIsKept
  <2>5. NotesAt(T)'
    BY <1>2, <1>5, <1>7 DEF NotesAt
  <2>6. ~(T < FrameTStates)
    BY <1>1, <1>7
  <2> QED
    BY <2>3, <2>4, <2>5, <2>6 DEF FrameKept
<1>8. CASE /\ value.screen # port.screen /\ port' = value
           /\ ~(t + ScreenSwitchDelay >= FrameTStates)
           /\ ula' = SetDisplayScreenBank(ula, t + ScreenSwitchDelay, value.screen)
           /\ pending_screen_switch' = pending_screen_switch
  <2> DEFINE at == t + ScreenSwitchDelay
  <2>1. at \in Nat
    BY <1>1
  <2>2. /\ ula'.screen_events = Append(ula.screen_events, <<at, value.screen>>)
        /\ ula'.border_events = ula.border_events
        /\ ula'.display_screen_bank = value.screen
        /\ ula'.beam_last_t = ula.beam_last_t
        /\ ula'.beam = ula.beam
    BY <1>8 DEF InFrame, PictureTypes, UlaTypes, SetDisplayScreenBank
  <2>3. /\ ula.screen_events \in Seq(Nat \X Banks) /\ Timed(ula.screen_events)
        /\ AlwaysDue(ula.screen_events)
    BY EventsAreTimed, Zenon DEF InFrame, PictureTypes, UlaTypes, NotesAt
  <2>4. /\ AlwaysDue(ula'.screen_events)
        /\ \A time \in Nat : \A latest :
              ActiveAt(ula'.screen_events, latest, time)
                  = IF at =< time THEN value.screen
                    ELSE ActiveAt(ula.screen_events, latest, time)
    <3> DEFINE new == Append(ula.screen_events, <<at, value.screen>>)
    <3> HIDE DEF at
    <3>1. /\ AlwaysDue(new)
          /\ \A time \in Nat : \A latest :
                ActiveAt(new, latest, time)
                    = IF at =< time THEN value.screen
                      ELSE ActiveAt(ula.screen_events, latest, time)
      BY <1>1, <2>1, <2>3, EnteredEvent
    <3> QED
      BY <2>2, <3>1
  <2>5. ASSUME NEW f \in Fetches, NEW l
        PROVE  ActiveAt(ula.screen_events, l, FetchTime(f))
                  = ActiveAt(ula.screen_events, ula.display_screen_bank, FetchTime(f))
    <3>1. \E m \in 1 .. Len(ula.screen_events) :
              LatestDue(ula.screen_events, FetchTime(f), m)
      BY <2>3, FetchTimes DEF AlwaysDue
    <3> QED
      BY <2>3, <3>1, LatestIsActive, FetchTimes
  <2>6. ASSUME NEW f \in Fetches, FetchTime(f) < at
        PROVE  Rendered(f)' = Rendered(f)
    <3>1. ActiveAt(ula'.screen_events, ula'.display_screen_bank, FetchTime(f))
              = ActiveAt(ula.screen_events, ula.display_screen_bank, FetchTime(f))
      BY <2>1, <2>4, <2>5, <2>6, FetchTimes
    <3> QED
      BY <1>2, <2>2, <3>1, FetchTimes DEF Rendered
  <2>7. ASSUME NEW f \in Fetches, ~(FetchTime(f) < at)
        PROVE  Rendered(f)' = banks[value.screen][CellOf(f)]
    <3>1. ActiveAt(ula'.screen_events, ula'.display_screen_bank, FetchTime(f))
              = value.screen
      BY <2>1, <2>4, <2>7, FetchTimes
    <3>2. f \notin DOMAIN ula'.beam[value.screen]
      BY <1>1, <1>3, <2>1, <2>2, <2>7, FetchTimes DEF Banks
    <3> QED
      BY <1>2, <3>1, <3>2, FetchTimes DEF Rendered
  <2>8. \A p \in BorderPoints : Rendered(p)' = Rendered(p)
    BY <1>2, <2>2, BorderTimesOK DEF Rendered
  <2>9. SeesRendered(T, t)
    <3>1. \A f \in Fetches : frame_t =< FetchTime(f) =>
              Rendered(f)' = IF FetchTime(f) < at THEN banks[port.screen][CellOf(f)]
                             ELSE banks[value.screen][CellOf(f)]
      BY <1>1, <1>3, <2>6, <2>7, FetchTimes
    <3>2. \A p \in BorderPoints : frame_t =< p[2] => Rendered(p)' = border
      BY <1>1, <1>4, <2>8, BorderTimesOK
    <3> QED
      BY <1>2, <1>8, <3>1, <3>2 DEF SeesRendered
  <2>10. PastIsKept(frame_t)
    <3>1. \A f \in Fetches : FetchTime(f) < frame_t => FetchTime(f) < at
      BY <1>1, FetchTimes
    <3> QED
      BY <2>6, <2>8, <3>1 DEF PastIsKept
  <2>11. \A f \in Fetches : FetchTime(f) >= T =>
            Settled(ula'.screen_events, value.screen, FetchTime(f))
    <3> SUFFICES ASSUME NEW f \in Fetches, FetchTime(f) >= T
                 PROVE  Settled(ula'.screen_events, value.screen, FetchTime(f))
      OBVIOUS
    <3>1. FetchTime(f) \in Nat /\ at =< FetchTime(f)
      BY <1>1, FetchTimes
    <3>2. \A i \in 1 .. Len(ula.screen_events) : ula.screen_events[i][1] =< FetchTime(f)
      BY <1>5 DEF NotesAt, Settled
    <3> QED
      BY <1>1, <2>1, <2>2, <2>3, <3>1, <3>2, EnteredLast, Zenon
  <2>12. NotesAt(T)'
    BY <1>2, <1>5, <2>2, <2>4, <2>11 DEF NotesAt
  <2> QED
    BY <1>8, <2>2, <2>9, <2>10, <2>12 DEF FrameKept, InFrame
<1>9. CASE value.screen = port.screen /\ port' = value /\ ula' = ula
           /\ pending_screen_switch' = pending_screen_switch
  <2>1. port'.screen = port.screen
    BY <1>9
  <2>2. \A p : Rendered(p)' = Rendered(p)
    BY <1>2, <1>9 DEF Rendered
  <2>3. SeesRendered(T, t)
    BY <1>1, <1>2, <1>3, <1>4, <2>1, <2>2, FetchTimes, BorderTimesOK DEF SeesRendered
  <2>4. PastIsKept(frame_t)
    BY <2>2 DEF PastIsKept
  <2>5. NotesAt(T)'
    BY <1>2, <1>5, <1>9 DEF NotesAt
  <2> QED
    BY <1>9, <2>1, <2>3, <2>4, <2>5 DEF FrameKept, InFrame
<1> QED
  BY <1>6, <1>7, <1>8, <1>9 DEF Out7ffd, SelectPage, ScheduleDisplayScreenBank

(* Times of the accesses of an instruction.                                   *)
LEMMA DelayFits ==
    /\ ScreenSwitchDelay \in Nat /\ PaperStart \in Nat /\ FrameTStates \in Nat \ {0}
    /\ ScreenSwitchDelay =< PaperStart
  BY PictureAssumption DEF PictureConstants

(* Types, access by access.                                                   *)
LEMMA WriteKeepsTypes ==
    ASSUME UlaTypes, NEW t \in 0 .. FrameTStates - 1, WriteAccess(t)
    PROVE  UlaTypes'
<1>1. PICK bank \in Banks, cell \in Cells : \E byte \in Bytes[bank] :
          WriteByte(t, bank, cell, byte)
  BY DEF WriteAccess
<1>2. PICK byte \in Bytes[bank] : WriteByte(t, bank, cell, byte)
  BY <1>1
<1> DEFINE note(b) == NoteWrite(b, cell, banks[bank][cell], t)
           beam == IF t < ula.beam_last_t THEN Unmarked ELSE ula.beam
<1>3. t \in Nat
  BY DelayFits
<1>4. beam = [b \in Banks |-> beam[b]]
  BY DEF UlaTypes, Unmarked
<1>5. ula' = [ula EXCEPT !.beam = [beam EXCEPT ![bank] = note(@)], !.beam_last_t = t]
  BY <1>2 DEF WriteByte, NoteScreenWrite
<1> HIDE DEF beam, note
<1>6. /\ ula'.border_events = ula.border_events
      /\ ula'.screen_events = ula.screen_events
      /\ ula'.display_screen_bank = ula.display_screen_bank
      /\ ula'.beam = [beam EXCEPT ![bank] = note(@)]
      /\ ula'.beam_last_t = t
      /\ ula' = [border_events |-> ula'.border_events,
                 screen_events |-> ula'.screen_events,
                 display_screen_bank |-> ula'.display_screen_bank,
                 beam |-> ula'.beam, beam_last_t |-> ula'.beam_last_t]
  BY <1>5, Zenon DEF UlaTypes
<1>7. ula'.beam = [b \in Banks |-> ula'.beam[b]]
  BY <1>4, <1>6
<1>8. byte \in UNION {Bytes[b] : b \in Banks}
  BY <1>2
<1>9. banks' \in [Banks -> [Cells -> UNION {Bytes[b] : b \in Banks}]]
  BY <1>2, <1>8 DEF UlaTypes, WriteByte
<1> QED
  BY <1>2, <1>3, <1>6, <1>7, <1>9, Zenon DEF UlaTypes, WriteByte

LEMMA EventsOfUla ==
    ASSUME UlaTypes, NEW at \in Nat, NEW u,
           \/ \E colour \in Colours : u = SetBorder(ula, at, colour)
           \/ \E bank \in Banks : u = SetDisplayScreenBank(ula, at, bank)
    PROVE  /\ u = [border_events |-> u.border_events, screen_events |-> u.screen_events,
                   display_screen_bank |-> u.display_screen_bank,
                   beam |-> u.beam, beam_last_t |-> u.beam_last_t]
           /\ u.border_events \in Seq(Nat \X Colours)
           /\ u.screen_events \in Seq(Nat \X Banks)
           /\ u.display_screen_bank \in Banks
           /\ u.beam = [b \in Banks |-> u.beam[b]]
           /\ u.beam_last_t \in Nat
<1>1. CASE \E colour \in Colours : u = SetBorder(ula, at, colour)
  <2>1. PICK colour \in Colours : u = SetBorder(ula, at, colour)
    BY <1>1
  <2>2. <<at, colour>> \in Nat \X Colours
    OBVIOUS
  <2>3. Append(ula.border_events, <<at, colour>>) \in Seq(Nat \X Colours)
    BY <2>2 DEF UlaTypes
  <2>4. /\ u.border_events = Append(ula.border_events, <<at, colour>>)
        /\ u.screen_events = ula.screen_events
        /\ u.display_screen_bank = ula.display_screen_bank
        /\ u.beam = ula.beam /\ u.beam_last_t = ula.beam_last_t
        /\ u = [border_events |-> u.border_events, screen_events |-> u.screen_events,
                display_screen_bank |-> u.display_screen_bank,
                beam |-> u.beam, beam_last_t |-> u.beam_last_t]
    BY <2>1, Zenon DEF UlaTypes, SetBorder
  <2> QED
    BY <2>3, <2>4 DEF UlaTypes
<1>2. CASE \E bank \in Banks : u = SetDisplayScreenBank(ula, at, bank)
  <2>1. PICK bank \in Banks : u = SetDisplayScreenBank(ula, at, bank)
    BY <1>2
  <2>2. <<at, bank>> \in Nat \X Banks
    OBVIOUS
  <2>3. Append(ula.screen_events, <<at, bank>>) \in Seq(Nat \X Banks)
    BY <2>2 DEF UlaTypes
  <2>4. /\ u.screen_events = Append(ula.screen_events, <<at, bank>>)
        /\ u.border_events = ula.border_events
        /\ u.display_screen_bank = bank
        /\ u.beam = ula.beam /\ u.beam_last_t = ula.beam_last_t
        /\ u = [border_events |-> u.border_events, screen_events |-> u.screen_events,
                display_screen_bank |-> u.display_screen_bank,
                beam |-> u.beam, beam_last_t |-> u.beam_last_t]
    BY <2>1, Zenon DEF UlaTypes, SetDisplayScreenBank
  <2> QED
    BY <2>3, <2>4 DEF UlaTypes
<1> QED
  BY <1>1, <1>2

LEMMA SelectKeepsTypes ==
    ASSUME UlaTypes, NEW t \in 0 .. FrameTStates - 1, NEW value \in PortValues,
           SelectPage(t, value),
           banks' \in [Banks -> [Cells -> UNION {Bytes[b] : b \in Banks}]],
           border' \in Colours
    PROVE  UlaTypes'
<1>1. t \in Nat /\ t < FrameTStates /\ value.screen \in Banks
  BY DelayFits DEF PortValues
<1> DEFINE at == t + ScreenSwitchDelay
<1>2. CASE ula' = ula /\ pending_screen_switch' = pending_screen_switch
  BY <1>2 DEF UlaTypes, SelectPage
<1>3. CASE at >= FrameTStates /\ ula' = ula
           /\ pending_screen_switch' = <<at - FrameTStates, value.screen>>
  <2>1. at - FrameTStates \in 0 .. PaperStart
    BY <1>1, <1>3, DelayFits
  <2>2. pending_screen_switch' \in (0 .. PaperStart) \X Banks
    BY <1>1, <1>3, <2>1
  <2> QED
    BY <1>3, <2>2 DEF UlaTypes, SelectPage
<1>4. CASE ula' = SetDisplayScreenBank(ula, at, value.screen)
           /\ pending_screen_switch' = pending_screen_switch
  <2>1. at \in Nat
    BY <1>1, DelayFits
  <2> HIDE DEF at
  <2>2. /\ ula' = [border_events |-> ula'.border_events,
                   screen_events |-> ula'.screen_events,
                   display_screen_bank |-> ula'.display_screen_bank,
                   beam |-> ula'.beam, beam_last_t |-> ula'.beam_last_t]
        /\ ula'.border_events \in Seq(Nat \X Colours)
        /\ ula'.screen_events \in Seq(Nat \X Banks)
        /\ ula'.display_screen_bank \in Banks
        /\ ula'.beam = [b \in Banks |-> ula'.beam[b]]
        /\ ula'.beam_last_t \in Nat
    BY <1>1, <1>4, <2>1, EventsOfUla, Zenon
  <2> QED
    BY <1>4, <2>2 DEF UlaTypes, SelectPage
<1> QED
  BY <1>2, <1>3, <1>4 DEF SelectPage, ScheduleDisplayScreenBank

LEMMA OutKeepsTypes ==
    ASSUME UlaTypes, NEW t \in 0 .. FrameTStates - 1, OutAccess(t)
    PROVE  UlaTypes'
<1>1. ASSUME NEW colour \in Colours, OutBorder(t, colour)
      PROVE  UlaTypes'
  <2>1. t \in Nat
    BY DelayFits
  <2>2. /\ ula' = [border_events |-> ula'.border_events,
                   screen_events |-> ula'.screen_events,
                   display_screen_bank |-> ula'.display_screen_bank,
                   beam |-> ula'.beam, beam_last_t |-> ula'.beam_last_t]
        /\ ula'.border_events \in Seq(Nat \X Colours)
        /\ ula'.screen_events \in Seq(Nat \X Banks)
        /\ ula'.display_screen_bank \in Banks
        /\ ula'.beam = [b \in Banks |-> ula'.beam[b]]
        /\ ula'.beam_last_t \in Nat
    BY <1>1, <2>1, EventsOfUla DEF OutBorder
  <2> QED
    BY <1>1, <2>2 DEF UlaTypes, OutBorder
<1>2. ASSUME NEW value \in PortValues, Out7ffd(t, value)
      PROVE  UlaTypes'
  <2>1. CASE port.locked
    BY <1>2, <2>1 DEF UlaTypes, Out7ffd
  <2>2. CASE ~port.locked
    <3>1. SelectPage(t, value) /\ banks' = banks /\ border' = border
      BY <1>2, <2>2 DEF Out7ffd
    <3>2. /\ banks' \in [Banks -> [Cells -> UNION {Bytes[b] : b \in Banks}]]
          /\ border' \in Colours
      BY <3>1 DEF UlaTypes
    <3> QED
      BY <3>1, <3>2, SelectKeepsTypes
  <2> QED
    BY <2>1, <2>2
<1> QED
  BY <1>1, <1>2 DEF OutAccess

-----------------------------------------------------------------------------
(* The times within an instruction.                                           *)
LEMMA InstructionTimes ==
    /\ \A n \in Lengths : n \in Nat /\ 1 =< n /\ n =< PaperStart
    /\ \A s \in WriteShapes : s.at \in Nat /\ s.at < s.len /\ s.len \in Lengths
    /\ \A s \in OutShapes :
          s.at \in Nat /\ s.at + ScreenSwitchDelay < s.len /\ s.len \in Lengths
<1>1. \A n \in Lengths : n \in Nat /\ 1 =< n /\ n =< PaperStart
  BY DelayFits, PictureAssumption DEF PictureConstants
<1>2. ASSUME NEW s \in WriteShapes
      PROVE  s.at \in Nat /\ s.at < s.len /\ s.len \in Lengths
  <2>1. s.len \in Lengths
    BY DEF Lengths
  <2>2. s.at \in 0 .. s.len - 1
    BY PictureAssumption DEF PictureConstants
  <2> QED
    BY <1>1, <2>1, <2>2
<1>3. ASSUME NEW s \in OutShapes
      PROVE  s.at \in Nat /\ s.at + ScreenSwitchDelay < s.len /\ s.len \in Lengths
  <2>1. s.len \in Lengths
    BY DEF Lengths
  <2>2. s.at \in 0 .. s.len - ScreenSwitchDelay - 1
    BY PictureAssumption DEF PictureConstants
  <2> QED
    BY <1>1, <2>1, <2>2, DelayFits
<1> QED
  BY <1>1, <1>2, <1>3

LEMMA UlaTimes ==
    ASSUME NEW t \in Nat
    PROVE  /\ UlaT(t) \in 0 .. FrameTStates - 1
           /\ t < FrameTStates => UlaT(t) = t
<1>1. UlaT(t) \in 0 .. FrameTStates - 1
  BY DelayFits DEF UlaT
<1>2. t < FrameTStates => UlaT(t) = t
  BY DelayFits DEF UlaT
<1> QED
  BY <1>1, <1>2

(* An instruction is one access, or none.                                     *)
LEMMA InstructionIs ==
    ASSUME PictureTypes, NEW n \in Lengths, NEW overtaken, Instruction(n, overtaken)
    PROVE  \E t \in Nat, accesses \in {0, 1} :
              /\ frame_t =< t /\ t < frame_t + n
              /\ Passes(n, t, accesses, overtaken)
              /\ \/ /\ accesses = 0 /\ t = frame_t
                    /\ UNCHANGED <<banks, port, pending_screen_switch, border, ula>>
                 \/ accesses = 1 /\ WriteAccess(UlaT(t))
                 \/ /\ accesses = 1 /\ OutAccess(UlaT(t))
                    /\ t + ScreenSwitchDelay < frame_t + n
<1>1. frame_t \in Nat /\ n \in Nat /\ 1 =< n
  BY DelayFits, InstructionTimes DEF PictureTypes
<1>2. CASE /\ UNCHANGED <<banks, port, pending_screen_switch, border, ula>>
           /\ Passes(n, frame_t, 0, overtaken)
  BY <1>1, <1>2
<1>3. ASSUME NEW s \in WriteShapes, s.len = n, WriteAccess(UlaT(frame_t + s.at)),
             Passes(n, frame_t + s.at, 1, overtaken)
      PROVE  \E t \in Nat :
                /\ frame_t =< t /\ t < frame_t + n
                /\ Passes(n, t, 1, overtaken) /\ WriteAccess(UlaT(t))
  <2>1. s.at \in Nat /\ s.at < n
    BY <1>3, InstructionTimes
  <2>2. /\ frame_t + s.at \in Nat
        /\ frame_t =< frame_t + s.at /\ frame_t + s.at < frame_t + n
    BY <1>1, <2>1
  <2> QED
    BY <1>3, <2>2
<1>4. ASSUME NEW s \in OutShapes, s.len = n, OutAccess(UlaT(frame_t + s.at)),
             Passes(n, frame_t + s.at, 1, overtaken)
      PROVE  \E t \in Nat :
                /\ frame_t =< t /\ t < frame_t + n
                /\ Passes(n, t, 1, overtaken) /\ OutAccess(UlaT(t))
                /\ t + ScreenSwitchDelay < frame_t + n
  <2>1. s.at \in Nat /\ s.at + ScreenSwitchDelay < n /\ ScreenSwitchDelay \in Nat
    BY <1>4, InstructionTimes, DelayFits
  <2>2. /\ frame_t + s.at \in Nat
        /\ frame_t =< frame_t + s.at /\ frame_t + s.at < frame_t + n
        /\ frame_t + s.at + ScreenSwitchDelay < frame_t + n
    BY <1>1, <2>1
  <2> QED
    BY <1>4, <2>2
<1> QED
  BY <1>2, <1>3, <1>4 DEF Instruction

(* One instruction keeps the three parts of the invariant.                    *)
LEMMA InstructionKeepsFrame ==
    ASSUME PictureTypes, pending_screen_switch = Nothing,
           port.screen = ula.display_screen_bank, NotesAt(frame_t), SeenAt(frame_t),
           NEW n \in Lengths, Instruction(n, FALSE), scan'.whole,
           NEW T \in Nat, T = frame_t + n
    PROVE  /\ NotesAt(T)' /\ SeenAt(T)'
           /\ T < FrameTStates =>
                pending_screen_switch' = Nothing /\ port'.screen = ula'.display_screen_bank
<1>1. PICK t \in Nat, accesses \in {0, 1} :
          /\ frame_t =< t /\ t < frame_t + n
          /\ Passes(n, t, accesses, FALSE)
          /\ \/ /\ accesses = 0 /\ t = frame_t
                /\ UNCHANGED <<banks, port, pending_screen_switch, border, ula>>
             \/ accesses = 1 /\ WriteAccess(UlaT(t))
             \/ /\ accesses = 1 /\ OutAccess(UlaT(t))
                /\ t + ScreenSwitchDelay < frame_t + n
  BY InstructionIs, Zenon
<1>2. /\ scan'.seen = Joined(SeenWhile(n, t), scan.seen)
      /\ accesses = 1 => t < FrameTStates
  BY <1>1, Zenon DEF Passes
<1>3. frame_t \in Nat /\ n \in Nat /\ frame_t < FrameTStates
  BY DelayFits, InstructionTimes DEF PictureTypes
<1>4. ASSUME NEW u \in Nat, FrameKept(T, u), scan'.seen = Joined(SeenWhile(n, u), scan.seen)
      PROVE  /\ NotesAt(T)' /\ SeenAt(T)'
             /\ T < FrameTStates =>
                  pending_screen_switch' = Nothing /\ port'.screen = ula'.display_screen_bank
  BY <1>3, <1>4, SeenAdvances DEF FrameKept
<1>5. CASE accesses = 1
  <2>1. InFrame(T, t) /\ UlaT(t) = t
    BY <1>1, <1>2, <1>5, UlaTimes DEF InFrame
  <2>2. CASE WriteAccess(UlaT(t))
    BY <1>2, <1>4, <2>1, <2>2, WriteKeepsFrame DEF WriteAccess
  <2>3. CASE OutAccess(UlaT(t)) /\ t + ScreenSwitchDelay < frame_t + n
    BY <1>2, <1>4, <2>1, <2>3, OutBorderKeepsFrame, OutPortKeepsFrame DEF OutAccess
  <2> QED
    BY <1>1, <1>5, <2>2, <2>3
<1>6. CASE accesses = 0
  <2>1. t = frame_t /\ UNCHANGED <<banks, port, pending_screen_switch, border, ula>>
    BY <1>1, <1>6
  <2>2. InFrame(T, t)
    BY <1>1, <1>3, <2>1 DEF InFrame
  <2> QED
    BY <1>2, <1>4, <2>1, <2>2, IdleKeepsFrame
<1> QED
  BY <1>5, <1>6

(* While no switch waits, the display follows the port.                       *)
LEMMA SelectKeepsTogether ==
    ASSUME PictureTypes, pending_screen_switch = Nothing,
           Together(ula, pending_screen_switch, port),
           NEW t, NEW value \in PortValues, SelectPage(t, value)
    PROVE  Together(ula, pending_screen_switch, port)'
<1>1. CASE value.screen = port.screen
  BY <1>1 DEF SelectPage, Together
<1>2. CASE value.screen # port.screen
  <2>1. \/ \E at : pending_screen_switch' = <<at, value.screen>>
        \/ /\ pending_screen_switch' = Nothing
           /\ ula'.display_screen_bank = value.screen
    BY <1>2, Zenon DEF SelectPage, ScheduleDisplayScreenBank, SetDisplayScreenBank,
                PictureTypes, UlaTypes
  <2>2. port' = value
    BY DEF SelectPage
  <2> QED
    BY <2>1, <2>2 DEF Together, Nothing
<1> QED
  BY <1>1, <1>2

LEMMA InstructionKeepsTogether ==
    ASSUME PictureTypes, pending_screen_switch = Nothing,
           Together(ula, pending_screen_switch, port),
           NEW n \in Lengths, NEW overtaken, Instruction(n, overtaken)
    PROVE  Together(ula, pending_screen_switch, port)'
<1>1. PICK t \in Nat :
          \/ UNCHANGED <<banks, port, pending_screen_switch, border, ula>>
          \/ WriteAccess(UlaT(t))
          \/ OutAccess(UlaT(t))
  BY InstructionIs
<1>2. CASE UNCHANGED <<banks, port, pending_screen_switch, border, ula>>
  BY <1>2 DEF Together
<1>3. CASE WriteAccess(UlaT(t))
  <2>1. ula'.display_screen_bank = ula.display_screen_bank
    BY <1>3 DEF WriteAccess, WriteByte, NoteScreenWrite, PictureTypes, UlaTypes
  <2> QED
    BY <1>3, <2>1 DEF WriteAccess, WriteByte, Together
<1>4. CASE \E colour \in Colours : OutBorder(UlaT(t), colour)
  <2>1. ula'.display_screen_bank = ula.display_screen_bank
    BY <1>4 DEF OutBorder, SetBorder, PictureTypes, UlaTypes
  <2> QED
    BY <1>4, <2>1 DEF OutBorder, Together
<1>5. CASE \E value \in PortValues : Out7ffd(UlaT(t), value)
  <2>1. PICK value \in PortValues : Out7ffd(UlaT(t), value)
    BY <1>5
  <2>2. CASE port' = port /\ ula' = ula /\ pending_screen_switch' = pending_screen_switch
    BY <2>2 DEF Together
  <2>3. CASE SelectPage(UlaT(t), value)
    BY <2>3, SelectKeepsTogether
  <2> QED
    BY <2>1, <2>2, <2>3 DEF Out7ffd
<1> QED
  BY <1>1, <1>2, <1>3, <1>4, <1>5 DEF OutAccess

LEMMA InstructionKeepsTypes ==
    ASSUME PictureTypes, NEW n \in Lengths, NEW overtaken \in BOOLEAN,
           Instruction(n, overtaken),
           frame_t' = (frame_t + n) % FrameTStates,
           phase' \in {"frame", "drawn", "inside"}
    PROVE  PictureTypes'
<1>1. PICK t \in Nat, accesses \in {0, 1} :
          /\ Passes(n, t, accesses, overtaken)
          /\ \/ UNCHANGED <<banks, port, pending_screen_switch, border, ula>>
             \/ WriteAccess(UlaT(t))
             \/ OutAccess(UlaT(t))
  BY InstructionIs
<1>2. UlaTypes'
  <2>1. UlaT(t) \in 0 .. FrameTStates - 1 /\ UlaTypes
    BY UlaTimes DEF PictureTypes
  <2>2. CASE UNCHANGED <<banks, port, pending_screen_switch, border, ula>>
    BY <2>1, <2>2 DEF UlaTypes
  <2> QED
    BY <1>1, <2>1, <2>2, WriteKeepsTypes, OutKeepsTypes
<1>3. frame_t' \in 0 .. FrameTStates - 1
  BY DelayFits, InstructionTimes DEF PictureTypes
<1>4. /\ scan' = [seen |-> scan'.seen, whole |-> scan'.whole, parted |-> scan'.parted,
                  accesses |-> scan'.accesses]
      /\ scan'.whole \in BOOLEAN /\ scan'.parted \in BOOLEAN
  BY <1>1 DEF Passes, Parted, PictureTypes
<1> QED
  BY <1>2, <1>3, <1>4 DEF PictureTypes

(* A switch is left waiting only by an instruction that crosses the frame's   *)
(* end.                                                                       *)
LEMMA NothingWaits ==
    ASSUME PictureTypes, pending_screen_switch = Nothing,
           NEW n \in Lengths, NEW overtaken, Instruction(n, overtaken),
           frame_t + n < FrameTStates
    PROVE  pending_screen_switch' = Nothing
<1>1. PICK t \in Nat :
          /\ t < frame_t + n
          /\ \/ UNCHANGED <<banks, port, pending_screen_switch, border, ula>>
             \/ WriteAccess(UlaT(t))
             \/ OutAccess(UlaT(t)) /\ t + ScreenSwitchDelay < frame_t + n
  BY InstructionIs
<1>2. frame_t \in Nat /\ n \in Nat
  BY InstructionTimes DEF PictureTypes
<1>3. CASE OutAccess(UlaT(t)) /\ t + ScreenSwitchDelay < frame_t + n
  <2>1. UlaT(t) = t /\ ~(t + ScreenSwitchDelay >= FrameTStates)
    BY <1>1, <1>2, <1>3, UlaTimes, DelayFits
  <2> QED
    BY <1>3, <2>1 DEF OutAccess, OutBorder, Out7ffd, SelectPage, ScheduleDisplayScreenBank
<1> QED
  BY <1>1, <1>3 DEF WriteAccess, WriteByte

(* Each action keeps the picture's invariant.                                 *)
LEMMA RunInstructionKeeps ==
    ASSUME PictureInv, RunInstruction
    PROVE  PictureInv'
<1>1. PICK n \in Lengths :
          /\ Instruction(n, FALSE)
          /\ frame_t' = (frame_t + n) % FrameTStates
          /\ phase' = IF frame_t + n >= FrameTStates THEN "drawn" ELSE "frame"
  BY Zenon DEF RunInstruction
<1>2. /\ PictureTypes /\ PartedInv /\ phase = "frame"
      /\ pending_screen_switch = Nothing
  BY DEF PictureInv, FrameInv, RunInstruction
<1>3. PictureTypes'
  BY <1>1, <1>2, InstructionKeepsTypes, Zenon
<1>4. frame_t \in Nat /\ n \in Nat /\ frame_t < FrameTStates
  BY <1>2, DelayFits, InstructionTimes DEF PictureTypes
<1>5. PICK t \in Nat, accesses \in {0, 1} : Passes(n, t, accesses, FALSE)
  BY <1>1, <1>2, InstructionIs, Zenon
<1>6. PartedInv'
  <2>1. CASE scan.parted
    BY <1>5, <2>1, Zenon DEF Passes, Parted, PartedInv
  <2>2. CASE ~scan.parted
    <3>1. Together(ula, pending_screen_switch, port)'
      BY <1>1, <1>2, <2>2, InstructionKeepsTogether, Zenon DEF PartedInv
    <3> QED
      BY <3>1 DEF PartedInv
  <2> QED
    BY <2>1, <2>2
<1>7. FrameInv'
  <2>1. PICK T \in Nat : T = frame_t + n
    BY <1>4
  <2>2. CASE scan'.whole
    <3>1. scan.whole
      BY <1>5, <2>2, Zenon DEF Passes
    <3>2. port.screen = ula.display_screen_bank /\ NotesAt(frame_t) /\ SeenAt(frame_t)
      BY <1>2, <3>1 DEF PictureInv, FrameInv
    <3>3. /\ NotesAt(T)' /\ SeenAt(T)'
          /\ T < FrameTStates =>
               pending_screen_switch' = Nothing /\ port'.screen = ula'.display_screen_bank
      BY <1>1, <1>2, <2>1, <2>2, <3>2, InstructionKeepsFrame, Zenon
    <3>4. CASE T < FrameTStates
      <4>1. frame_t' = T /\ phase' = "frame"
        BY <1>1, <1>4, <2>1, <3>4, DelayFits
      <4> QED
        BY <3>3, <3>4, <4>1 DEF FrameInv, NotesAt, SeenAt
    <3>5. CASE ~(T < FrameTStates)
      <4>1. phase' = "drawn"
        BY <1>1, <1>4, <2>1, <3>5, DelayFits
      <4>2. SeenAt(FrameTStates)'
        BY <3>3, FetchTimes, BorderTimesOK DEF SeenAt
      <4> QED
        BY <4>1, <4>2 DEF FrameInv
    <3> QED
      BY <3>4, <3>5
  <2>3. CASE ~scan'.whole
    <3>1. phase' = "frame" => pending_screen_switch' = Nothing
      <4>1. phase' = "frame" => frame_t + n < FrameTStates
        BY <1>1, <1>4, DelayFits
      <4> QED
        BY <1>1, <1>2, <4>1, NothingWaits, Zenon
    <3> QED
      BY <2>3, <3>1 DEF FrameInv
  <2> QED
    BY <2>2, <2>3
<1> QED
  BY <1>3, <1>6, <1>7 DEF PictureInv

LEMMA StepOnceKeeps ==
    ASSUME PictureInv, StepOnce
    PROVE  PictureInv'
<1>1. PICK n \in Lengths :
          /\ Instruction(n, Waiting)
          /\ frame_t' = (frame_t + n) % FrameTStates
  BY DEF StepOnce
<1>2. PictureTypes /\ PartedInv /\ phase' = "inside"
  BY DEF PictureInv, StepOnce
<1>3. Waiting \in BOOLEAN
  BY DEF Waiting
<1>4. PictureTypes'
  BY <1>1, <1>2, <1>3, InstructionKeepsTypes
<1>5. PICK t \in Nat, accesses \in {0, 1} : Passes(n, t, accesses, Waiting)
  BY <1>1, <1>2, InstructionIs
<1>6. PartedInv'
  <2>1. CASE scan.parted \/ Waiting
    BY <1>5, <2>1, Zenon DEF Passes, Parted, PartedInv
  <2>2. CASE ~(scan.parted \/ Waiting)
    <3>1. Together(ula, pending_screen_switch, port)'
      BY <1>1, <1>2, <2>2, InstructionKeepsTogether DEF PartedInv, Waiting
    <3> QED
      BY <3>1 DEF PartedInv
  <2> QED
    BY <2>1, <2>2
<1>7. FrameInv'
  BY <1>2 DEF FrameInv
<1> QED
  BY <1>4, <1>6, <1>7 DEF PictureInv

(* What BeginFrame leaves of the ULA's record.                                *)
LEMMA BegunUla ==
    ASSUME NEW v,
           v = [border_events |-> v.border_events, screen_events |-> v.screen_events,
                display_screen_bank |-> v.display_screen_bank,
                beam |-> v.beam, beam_last_t |-> v.beam_last_t],
           NEW colour, NEW u, u = BeginFrame(v, colour)
    PROVE  /\ u.border_events = <<<<0, colour>>>>
           /\ u.screen_events = <<<<0, v.display_screen_bank>>>>
           /\ u.display_screen_bank = v.display_screen_bank
           /\ u.beam = Unmarked
           /\ u.beam_last_t = 0
           /\ u = [border_events |-> u.border_events, screen_events |-> u.screen_events,
                   display_screen_bank |-> u.display_screen_bank,
                   beam |-> u.beam, beam_last_t |-> u.beam_last_t]
<1> DEFINE b == <<<<0, colour>>>>
           s == <<<<0, v.display_screen_bank>>>>
           m == Unmarked
<1>1. u = [v EXCEPT !.border_events = b, !.screen_events = s, !.beam = m, !.beam_last_t = 0]
  BY DEF BeginFrame
<1> HIDE DEF b, s, m
<1> QED
  <2>1. /\ u.border_events = b /\ u.screen_events = s
        /\ u.display_screen_bank = v.display_screen_bank
        /\ u.beam = m /\ u.beam_last_t = 0
    BY <1>1
  <2>2. u = [border_events |-> u.border_events, screen_events |-> u.screen_events,
             display_screen_bank |-> u.display_screen_bank,
             beam |-> u.beam, beam_last_t |-> u.beam_last_t]
    BY <1>1, Zenon
  <2> QED
    BY <2>1, <2>2 DEF b, s, m

(* A frame begins with one event of each kind, and a waiting switch.          *)
LEMMA StartFrameUla ==
    ASSUME PictureTypes, StartFrame
    PROVE  /\ ula'.border_events = <<<<0, border>>>>
           /\ \/ /\ pending_screen_switch = Nothing
                 /\ ula'.screen_events = <<<<0, ula.display_screen_bank>>>>
                 /\ ula'.display_screen_bank = ula.display_screen_bank
              \/ /\ pending_screen_switch \in (0 .. PaperStart) \X Banks
                 /\ ula'.screen_events =
                       Append(<<<<0, ula.display_screen_bank>>>>,
                              <<pending_screen_switch[1], pending_screen_switch[2]>>)
                 /\ ula'.display_screen_bank = pending_screen_switch[2]
           /\ ula'.beam = Unmarked
           /\ ula'.beam_last_t = 0
           /\ ula' = [border_events |-> ula'.border_events,
                      screen_events |-> ula'.screen_events,
                      display_screen_bank |-> ula'.display_screen_bank,
                      beam |-> ula'.beam, beam_last_t |-> ula'.beam_last_t]
<1> DEFINE u == BeginFrame(ula, border)
           bank == ula.display_screen_bank
<1>1. /\ u.border_events = <<<<0, border>>>>
      /\ u.screen_events = <<<<0, ula.display_screen_bank>>>>
      /\ u.display_screen_bank = ula.display_screen_bank
      /\ u.beam = Unmarked
      /\ u.beam_last_t = 0
      /\ u = [border_events |-> u.border_events, screen_events |-> u.screen_events,
              display_screen_bank |-> u.display_screen_bank,
              beam |-> u.beam, beam_last_t |-> u.beam_last_t]
  <2>1. ula = [border_events |-> ula.border_events, screen_events |-> ula.screen_events,
               display_screen_bank |-> ula.display_screen_bank,
               beam |-> ula.beam, beam_last_t |-> ula.beam_last_t]
    BY DEF PictureTypes, UlaTypes
  <2> QED
    BY <2>1, BegunUla
<1>2. ula' = IF Waiting
             THEN SetDisplayScreenBank(u, pending_screen_switch[1], pending_screen_switch[2])
             ELSE u
  BY DEF StartFrame
<1> HIDE DEF u
<1>3. CASE pending_screen_switch = Nothing
  BY <1>1, <1>2, <1>3 DEF Waiting
<1>4. CASE pending_screen_switch # Nothing
  <2>1. pending_screen_switch \in (0 .. PaperStart) \X Banks
    BY <1>4 DEF PictureTypes, UlaTypes
  <2>2. ula' = SetDisplayScreenBank(u, pending_screen_switch[1], pending_screen_switch[2])
    BY <1>2, <1>4 DEF Waiting
  <2>3. /\ ula'.border_events = u.border_events
        /\ ula'.screen_events = Append(u.screen_events,
              <<pending_screen_switch[1], pending_screen_switch[2]>>)
        /\ ula'.display_screen_bank = pending_screen_switch[2]
        /\ ula'.beam = u.beam /\ ula'.beam_last_t = u.beam_last_t
        /\ ula' = [border_events |-> ula'.border_events,
                   screen_events |-> ula'.screen_events,
                   display_screen_bank |-> ula'.display_screen_bank,
                   beam |-> ula'.beam, beam_last_t |-> ula'.beam_last_t]
    BY <1>1, <2>2, Zenon DEF SetDisplayScreenBank
  <2> QED
    BY <1>1, <2>1, <2>3
<1> QED
  BY <1>3, <1>4

LEMMA StartFrameKeeps ==
    ASSUME PictureInv, StartFrame
    PROVE  PictureInv'
<1> DEFINE bank == ula.display_screen_bank
<1>1. /\ PictureTypes /\ PartedInv
      /\ bank \in Banks /\ border \in Colours
  BY DEF PictureInv, PictureTypes, UlaTypes
<1>2. /\ UNCHANGED <<banks, port, frame_t, border>>
      /\ pending_screen_switch' = Nothing
      /\ phase' = "frame"
      /\ scan' = [seen |-> Nothing, accesses |-> 0, parted |-> Parted(FALSE),
                  whole |-> phase \in {"seam", "drawn"} /\ ~Parted(FALSE)]
  BY DEF StartFrame
<1>3. /\ ula'.border_events \in Seq(Nat \X Colours)
      /\ AlwaysDue(ula'.border_events)
      /\ \A t \in Nat : Settled(ula'.border_events, border, t)
  BY <1>1, FirstEvent, StartFrameUla
<1>4. /\ ula'.screen_events \in Seq(Nat \X Banks)
      /\ ula'.display_screen_bank \in Banks
      /\ AlwaysDue(ula'.screen_events)
      /\ \A t \in Nat : t >= PaperStart =>
            Settled(ula'.screen_events, ula'.display_screen_bank, t)
  <2> DEFINE first == <<<<0, bank>>>>
  <2>1. /\ first \in Seq(Nat \X Banks)
        /\ AlwaysDue(first)
        /\ \A t \in Nat : Settled(first, bank, t)
    BY <1>1, FirstEvent
  <2> HIDE DEF first
  <2>2. CASE /\ ula'.screen_events = first
             /\ ula'.display_screen_bank = bank
    BY <1>1, <2>1, <2>2
  <2>3. CASE /\ pending_screen_switch \in (0 .. PaperStart) \X Banks
             /\ ula'.screen_events =
                   Append(first, <<pending_screen_switch[1], pending_screen_switch[2]>>)
             /\ ula'.display_screen_bank = pending_screen_switch[2]
    <3> DEFINE at == pending_screen_switch[1]
               value == pending_screen_switch[2]
    <3>1. at \in Nat /\ at =< PaperStart /\ value \in Banks
      BY <2>3, DelayFits
    <3>2. ula'.screen_events = Append(first, <<at, value>>)
      BY <2>3
    <3>3. ula'.display_screen_bank = value
      BY <2>3
    <3> HIDE DEF at, value
    <3>4. Append(first, <<at, value>>) \in Seq(Nat \X Banks)
      BY <2>1, <3>1
    <3>5. AlwaysDue(Append(first, <<at, value>>))
      BY <2>1, <3>1, EnteredEvent, Zenon
    <3>6. ASSUME NEW t \in Nat, t >= PaperStart
          PROVE  Settled(Append(first, <<at, value>>), value, t)
      <4>1. at =< t
        BY <3>1, <3>6, DelayFits
      <4>2. \A i \in 1 .. Len(first) : first[i][1] =< t
        BY <2>1 DEF Settled
      <4> QED
        BY <2>1, <3>1, <4>1, <4>2, EnteredLast
    <3> QED
      BY <3>1, <3>2, <3>3, <3>4, <3>5, <3>6, Zenon
  <2> QED
    BY <1>1, <2>2, <2>3, StartFrameUla DEF first
<1>5. PictureTypes'
  <2>1. ula'.beam = [b \in Banks |-> ula'.beam[b]]
    BY <1>1, StartFrameUla DEF Unmarked
  <2>2. ula'.beam_last_t \in Nat
    BY <1>1, StartFrameUla
  <2>3. UlaTypes'
    BY <1>1, <1>2, <1>3, <1>4, <2>1, <2>2, StartFrameUla DEF PictureTypes, UlaTypes
  <2> QED
    BY <1>1, <1>2, <2>3 DEF PictureTypes, Parted
<1>6. Together(ula, pending_screen_switch, port) => Together(ula, pending_screen_switch, port)'
  BY <1>1, <1>2, StartFrameUla DEF Together, Nothing
<1>7. PartedInv' /\ (~Parted(FALSE) => Together(ula, pending_screen_switch, port)')
  BY <1>1, <1>2, <1>6, Zenon DEF PartedInv, Parted
<1>8. FrameInv'
  <2>1. CASE scan'.whole
    <3>1. port'.screen = ula'.display_screen_bank
      BY <1>2, <1>7, <2>1, Zenon DEF Together
    <3>2. frame_t' = frame_t /\ frame_t \in Nat
      BY <1>1, <1>2, DelayFits DEF PictureTypes
    <3>3. \A b \in Banks : DOMAIN ula'.beam[b] = {}
      BY <1>1, StartFrameUla DEF Unmarked, Nothing
    <3>4. \A f \in Fetches :
              Settled(ula'.screen_events, ula'.display_screen_bank, FetchTime(f))
      BY <1>4, FetchTimes, DelayFits
    <3>5. NotesAt(frame_t)'
      BY <1>1, <1>2, <1>3, <1>4, <3>2, <3>3, <3>4, StartFrameUla DEF NotesAt
    <3>6. SeenAt(frame_t)'
      BY <1>2 DEF SeenAt, Nothing
    <3> QED
      BY <1>2, <3>1, <3>5, <3>6 DEF FrameInv
  <2>2. CASE ~scan'.whole
    BY <1>2, <2>2, Zenon DEF FrameInv
  <2> QED
    BY <2>1, <2>2
<1> QED
  BY <1>5, <1>7, <1>8 DEF PictureInv

LEMMA OtherKeeps ==
    ASSUME PictureInv, Break \/ Reset \/ ApplySnapshot128
    PROVE  PictureInv'
<1>1. PictureTypes /\ UlaTypes /\ PartedInv
  BY DEF PictureInv, PictureTypes
<1>2. CASE Break
  <2>1. PictureTypes'
    BY <1>1, <1>2 DEF Break, PictureTypes, UlaTypes
  <2>2. PartedInv'
    BY <1>1, <1>2 DEF Break, PartedInv, Together
  <2> QED
    BY <1>2, <2>1, <2>2 DEF Break, PictureInv, FrameInv
<1>3. CASE Reset
  <2>1. PictureTypes'
    <3>1. port' \in PortValues /\ frame_t' \in 0 .. FrameTStates - 1
      BY <1>3, DelayFits DEF Reset, PortValues, Banks
    <3>2. UlaTypes'
      BY <1>1, <1>3, <3>1 DEF Reset, UlaTypes
    <3>3. /\ scan' = [seen |-> scan'.seen, whole |-> scan'.whole, parted |-> scan'.parted,
                      accesses |-> scan'.accesses]
          /\ scan'.whole \in BOOLEAN /\ scan'.parted \in BOOLEAN
      BY <1>1, <1>3 DEF Reset, Parted, PictureTypes
    <3> QED
      BY <1>3, <3>1, <3>2, <3>3, Zenon DEF Reset, PictureTypes
  <2>2. PartedInv'
    BY <1>1, <1>3, Zenon DEF Reset, PartedInv, Parted, PictureTypes
  <2> QED
    BY <1>3, <2>1, <2>2 DEF Reset, PictureInv, FrameInv
<1>4. CASE ApplySnapshot128
  <2>1. PICK value \in PortValues : SelectPage(frame_t, value)
    BY <1>4 DEF ApplySnapshot128
  <2>2. banks' \in [Banks -> [Cells -> UNION {Bytes[b] : b \in Banks}]]
    BY <1>4, PictureAssumption DEF ApplySnapshot128, PictureConstants
  <2>3. UlaTypes'
    <3>1. border' \in Colours /\ frame_t \in 0 .. FrameTStates - 1
      BY <1>1, <1>4 DEF ApplySnapshot128, PictureTypes
    <3> QED
      BY <1>1, <2>1, <2>2, <3>1, SelectKeepsTypes
  <2>4. /\ scan' = [seen |-> scan'.seen, whole |-> scan'.whole, parted |-> scan'.parted,
                    accesses |-> scan'.accesses]
        /\ scan'.whole = scan.whole
        /\ scan'.parted = Parted(Waiting)
        /\ scan'.parted \in BOOLEAN
    BY <1>1, <1>4 DEF ApplySnapshot128, PictureTypes, Parted
  <2>5. PictureTypes'
    BY <1>1, <1>4, <2>3, <2>4 DEF ApplySnapshot128, PictureTypes
  <2>6. PartedInv'
    <3>1. CASE scan.parted \/ Waiting
      BY <2>4, <3>1, Zenon DEF Parted, PartedInv
    <3>2. CASE ~(scan.parted \/ Waiting)
      <4>1. Together(ula, pending_screen_switch, port)'
        BY <1>1, <2>1, <3>2, SelectKeepsTogether DEF PartedInv, Waiting
      <4> QED
        BY <4>1 DEF PartedInv
    <3> QED
      BY <3>1, <3>2
  <2>7. phase' # "frame" /\ phase' # "drawn"
    BY <1>1, <1>4 DEF ApplySnapshot128, PictureTypes
  <2> QED
    BY <2>5, <2>6, <2>7 DEF PictureInv, FrameInv
<1> QED
  BY <1>2, <1>3, <1>4

LEMMA PictureBegins ==
    ASSUME PictureInit
    PROVE  PictureInv
<1>1. UlaTypes
  <2>1. banks \in [Banks -> [Cells -> UNION {Bytes[b] : b \in Banks}]]
    BY PictureAssumption DEF PictureInit, PictureConstants
  <2>2. /\ port \in PortValues
        /\ pending_screen_switch \in {Nothing} \cup ((0 .. PaperStart) \X Banks)
        /\ border \in Colours
    BY DEF PictureInit, PortValues, Banks
  <2>3. /\ ula.border_events = <<>> /\ ula.screen_events = <<>>
        /\ ula.display_screen_bank = 5 /\ ula.beam = Unmarked /\ ula.beam_last_t = 0
    BY DEF PictureInit, NewUla
  <2>4. ula = [border_events |-> ula.border_events, screen_events |-> ula.screen_events,
               display_screen_bank |-> ula.display_screen_bank,
               beam |-> ula.beam, beam_last_t |-> ula.beam_last_t]
    BY DEF PictureInit, NewUla
  <2>5. ula.beam = [b \in Banks |-> ula.beam[b]]
    BY <2>3 DEF Unmarked
  <2>6. <<>> \in Seq(Nat \X Colours) /\ <<>> \in Seq(Nat \X Banks)
    OBVIOUS
  <2>7. ula.display_screen_bank \in Banks /\ ula.beam_last_t \in Nat
    BY <2>3 DEF Banks
  <2> QED
    BY <2>1, <2>2, <2>3, <2>4, <2>5, <2>6, <2>7 DEF UlaTypes
<1>2. PictureTypes
  <2>1. frame_t \in 0 .. FrameTStates - 1
    BY DelayFits DEF PictureInit
  <2> QED
    BY <1>1, <2>1 DEF PictureInit, PictureTypes
<1>3. PartedInv
  BY DEF PictureInit, PartedInv, Together, NewUla
<1>4. FrameInv
  BY DEF PictureInit, FrameInv
<1> QED
  BY <1>2, <1>3, <1>4 DEF PictureInv

LEMMA PictureStays ==
    ASSUME PictureInv, UNCHANGED pictureVars
    PROVE  PictureInv'
<1>1. /\ banks' = banks /\ port' = port /\ frame_t' = frame_t
      /\ pending_screen_switch' = pending_screen_switch /\ border' = border
      /\ ula' = ula /\ phase' = phase /\ scan' = scan
  BY DEF pictureVars
<1>2. PictureTypes'
  BY <1>1 DEF PictureInv, PictureTypes, UlaTypes
<1>3. PartedInv'
  BY <1>1 DEF PictureInv, PartedInv, Together
<1>4. FrameInv'
  BY <1>1 DEF PictureInv, FrameInv, NotesAt, SeenAt, Rendered
<1> QED
  BY <1>2, <1>3, <1>4 DEF PictureInv

LEMMA PictureStep ==
    ASSUME PictureInv, PictureNext
    PROVE  PictureInv'
  BY StartFrameKeeps, RunInstructionKeeps, StepOnceKeeps, OtherKeeps DEF PictureNext

(* A frame at its end was rendered as it was seen.                            *)
LEMMA PictureShown ==
    ASSUME PictureInv
    PROVE  PictureIsWhatTheBeamSaw
  BY DEF PictureInv, FrameInv, SeenAt, PictureIsWhatTheBeamSaw

(* Whatever the guest writes and switches, and wherever its frames are        *)
(* stopped, a frame that was run from its beginning to its end shows what the *)
(* beam saw on its way, for a picture of any size and a frame of any length.  *)
THEOREM PictureIsTrue == BoardSpec => []PictureIsWhatTheBeamSaw
<1>1. BoardInit => PictureInv
  BY PictureBegins DEF BoardInit
<1>2. PictureInv /\ [BoardNext]_board => PictureInv'
  <2>1. UNCHANGED board => UNCHANGED pictureVars
    BY DEF board
  <2>2. BoardNext => PictureNext \/ UNCHANGED pictureVars
    BY DEF BoardNext
  <2> QED
    BY <2>1, <2>2, PictureStays, PictureStep
<1>3. PictureInv => PictureIsWhatTheBeamSaw
  BY PictureShown
<1> QED
  BY <1>1, <1>2, <1>3, PTL DEF BoardSpec

-----------------------------------------------------------------------------
(* Sequences of bytes, and what a drive makes of them.                         *)

(* Handing out the next byte leaves the tail of the rest.                     *)
LEMMA SubSeqTail ==
    ASSUME NEW b \in Seq(Nat), NEW k \in Nat, k < Len(b)
    PROVE  /\ SubSeq(b, k + 1, Len(b)) # <<>>
           /\ Len(SubSeq(b, k + 1, Len(b))) = Len(b) - k
           /\ Tail(SubSeq(b, k + 1, Len(b))) = SubSeq(b, k + 2, Len(b))
<1> DEFINE s == SubSeq(b, k + 1, Len(b))
           t == SubSeq(b, k + 2, Len(b))
<1>1. s \in Seq(Nat) /\ Len(s) = Len(b) - k /\ \A i \in 1 .. Len(s) : s[i] = b[k + i]
  <2>1. \A i \in k + 1 .. Len(b) : b[i] \in Nat
    OBVIOUS
  <2> QED
    BY <2>1, SubSeqProperties
<1>2. t \in Seq(Nat) /\ Len(t) = Len(b) - k - 1 /\ \A i \in 1 .. Len(t) : t[i] = b[k + 1 + i]
  <2>1. \A i \in k + 2 .. Len(b) : b[i] \in Nat
    OBVIOUS
  <2> QED
    BY <2>1, SubSeqProperties
<1> HIDE DEF s, t
<1>3. s # <<>>
  BY <1>1
<1>4. /\ Tail(s) \in Seq(Nat) /\ Len(Tail(s)) = Len(s) - 1
      /\ \A i \in 1 .. Len(Tail(s)) : Tail(s)[i] = s[i + 1]
  BY <1>1, <1>3
<1>5. Tail(s) = t
  <2>1. Len(Tail(s)) = Len(t)
    BY <1>1, <1>2, <1>4
  <2>2. ASSUME NEW i \in 1 .. Len(t)
        PROVE  Tail(s)[i] = t[i]
    <3>1. PICK l \in Nat : l = Len(b) /\ Len(t) = l - k - 1 /\ Len(s) = l - k
      BY <1>1, <1>2
    <3>2. i \in Nat /\ i \in 1 .. Len(Tail(s)) /\ i + 1 \in 1 .. Len(s)
      BY <1>1, <1>2, <1>4, <3>1
    <3>3. Tail(s)[i] = s[i + 1] /\ s[i + 1] = b[k + (i + 1)] /\ t[i] = b[k + 1 + i]
      BY <1>1, <1>2, <1>4, <3>2
    <3>4. k + (i + 1) = k + 1 + i
      BY <3>2
    <3> QED
      BY <3>3, <3>4
  <2> QED
    BY <1>2, <1>4, <2>1, <2>2, SeqEqual, Zenon
<1> QED
  BY <1>1, <1>3, <1>5, Zenon DEF s, t
(* Two buffers that begin with the same k bytes, and the bytes of a transfer *)
(* before and after one more.                                                *)
Alike(b, d, k) == Len(d) = Len(b) /\ \A i \in 1 .. k : d[i] = b[i]

OneMore(b, d, k) ==
    /\ SubSeq(d, 1, k + 1) = Append(SubSeq(b, 1, k), d[k + 1])
    /\ Len(SubSeq(b, 1, k)) = k

LEMMA SubSeqNext ==
    ASSUME NEW b \in Seq(Nat), NEW k \in Nat, k < Len(b), NEW d \in Seq(Nat), Alike(b, d, k)
    PROVE  OneMore(b, d, k)
<1> DEFINE s == SubSeq(d, 1, k + 1)
           r == SubSeq(b, 1, k)
           t == Append(r, d[k + 1])
<1>1. s \in Seq(Nat) /\ Len(s) = k + 1 /\ \A i \in 1 .. k + 1 : s[i] = d[i]
  <2>1. \A i \in 1 .. k + 1 : d[i] \in Nat
    BY DEF Alike
  <2> QED
    BY <2>1, SubSeqProperties
<1>2. r \in Seq(Nat) /\ Len(r) = k /\ \A i \in 1 .. k : r[i] = d[i]
  <2>1. \A i \in 1 .. k : b[i] \in Nat
    OBVIOUS
  <2>2. r \in Seq(Nat) /\ Len(r) = k /\ \A i \in 1 .. k : r[i] = b[i]
    BY <2>1, SubSeqProperties
  <2> QED
    BY <2>2, Zenon DEF Alike
<1>3. d[k + 1] \in Nat
  BY DEF Alike
<1> HIDE DEF r, s
<1>4. t \in Seq(Nat) /\ Len(t) = k + 1 /\ \A i \in 1 .. k + 1 : t[i] = d[i]
  <2>1. PICK x \in Nat : x = d[k + 1]
    BY <1>3
  <2>2. t = Append(r, x)
    BY <2>1
  <2>3. /\ t \in Seq(Nat) /\ Len(t) = k + 1 /\ t[k + 1] = x
        /\ \A i \in 1 .. k : t[i] = r[i]
    BY <1>2, <2>2
  <2>4. ASSUME NEW i \in 1 .. k + 1
        PROVE  t[i] = d[i]
    <3>1. CASE i = k + 1
      BY <2>1, <2>3, <3>1
    <3>2. CASE i # k + 1
      <4>1. i \in 1 .. k
        BY <3>2
      <4>2. t[i] = r[i] /\ r[i] = d[i]
        BY <1>2, <2>3, <4>1
      <4> QED
        BY <4>2
    <3> QED
      BY <3>1, <3>2
  <2> QED
    BY <2>3, <2>4
<1>5. s = t
  BY <1>1, <1>4, SeqEqual, Zenon
<1> QED
  BY <1>2, <1>5, Zenon DEF r, s, OneMore

(* A sector of n bytes is a sequence.                                        *)
LEMMA BytesAreSeq ==
    ASSUME NEW n \in Nat, NEW b \in [1 .. n -> 0 .. 255]
    PROVE  b \in Seq(Nat) /\ Len(b) = n
<1>1. ASSUME NEW i \in 1 .. n
      PROVE  b[i] \in Nat
  <2>1. PICK x : x = b[i]
    OBVIOUS
  <2>2. x \in 0 .. 255
    BY <2>1, Zenon
  <2>3. x \in Nat
    BY <2>2
  <2> QED
    BY <2>1, <2>3
<1>2. b = [i \in 1 .. n |-> b[i]]
  OBVIOUS
<1>3. b \in [1 .. n -> Nat]
  BY <1>1, <1>2
<1> QED
  BY <1>3

Given(j, k) == k = [j EXCEPT !.bytes = Tail(@)]

(* A read that has handed out its next byte.                                 *)
LEMMA JobGiven ==
    ASSUME NEW p, NEW s, NEW j, j = [op |-> "read", at |-> p, bytes |-> s],
           NEW t, NEW k, k = [op |-> "read", at |-> p, bytes |-> t]
    PROVE  t = Tail(s) => Given(j, k)
<1>1. k = [j EXCEPT !.bytes = t] /\ j.bytes = s
  OBVIOUS
<1> QED
  BY <1>1, Zenon DEF Given

Taken(j, k, b) == k = [j EXCEPT !.bytes = Append(@, b)]

(* A write that has taken a byte.                                            *)
LEMMA JobTaken ==
    ASSUME NEW p, NEW n, NEW keep, NEW s, NEW j,
           j = [op |-> "write", at |-> p, want |-> n, keep |-> keep, bytes |-> s],
           NEW t, NEW k, k = [op |-> "write", at |-> p, want |-> n, keep |-> keep, bytes |-> t],
           NEW b
    PROVE  t = Append(s, b) => Taken(j, k, b)
<1>1. k = [j EXCEPT !.bytes = t] /\ j.bytes = s
  OBVIOUS
<1> QED
  BY <1>1, Zenon DEF Taken

(* All of a buffer, and none of it.                                           *)
LEMMA SubSeqWhole ==
    ASSUME NEW b \in Seq(Nat)
    PROVE  SubSeq(b, 1, Len(b)) = b /\ SubSeq(b, 1, 0) = <<>>
  BY SubSeqFull, SubSeqEmpty

-----------------------------------------------------------------------------
(* The card of the DivMMC: which commands its phases belong to.              *)

MmcShape(c) ==
    c = [image |-> c.image, own |-> c.own, other |-> c.other, idle |-> c.idle,
         app |-> c.app, highCapacity |-> c.highCapacity,
         phase |-> c.phase, at |-> c.at, cmd |-> c.cmd, lba |-> c.lba]

MmcTypes(c) ==
    /\ MmcShape(c)
    /\ c.image \in Seq(DivMmc!Block)
    /\ c.own \in BOOLEAN /\ c.other \in BOOLEAN /\ c.idle \in BOOLEAN
    /\ c.app \in BOOLEAN /\ c.highCapacity \in BOOLEAN
    /\ c.at \in Nat /\ c.lba \in Nat /\ c.cmd \in Nat
    /\ c.phase \in {"idle", "busy", "write", "writeToken", "read", "token",
                    "extra", "wait", "arg"}

MmcOK(c) ==
    /\ c.cmd \in DivMmc!Commands
    /\ DivMmc!StatusOK(c)
    /\ c.phase = "token" => c.cmd \in {17, 18}
    /\ c.phase = "writeToken" => c.cmd \in {24, 25}

MmcInv(c) == MmcTypes(c) /\ MmcOK(c)

(* What both cards need of their constants.                                   *)
LEMMA CardAssumption ==
    /\ BlockSize \in Nat \ {0} /\ ArgumentBytes \in Nat \ {0}
    /\ LastBlock \in Nat /\ Addresses \subseteq Nat
    /\ MmcImages \subseteq Seq(DivMmc!Block)
    /\ CardBytes \subseteq 0 .. 255
  BY PeripheralsAssumption DEF DivMmc!MmcConstants

(* The fields after each of the card's bookkeeping operators.                 *)
LEMMA MmcEnter ==
    ASSUME NEW c, MmcShape(c), NEW ph, NEW d, d = DivMmc!Enter(c, ph)
    PROVE  /\ MmcShape(d) /\ d.phase = ph /\ d.at = 0
           /\ d.image = c.image /\ d.own = c.own /\ d.other = c.other
           /\ d.idle = c.idle /\ d.app = c.app /\ d.highCapacity = c.highCapacity
           /\ d.cmd = c.cmd /\ d.lba = c.lba
  BY Zenon DEF MmcShape, DivMmc!Enter

LEMMA MmcIdle ==
    ASSUME NEW c, MmcShape(c), NEW d, d = DivMmc!Idle(c)
    PROVE  /\ MmcShape(d) /\ d.phase = "idle" /\ d.at = 0 /\ d.cmd = 0 /\ d.lba = 0
           /\ d.image = c.image /\ d.own = c.own /\ d.other = c.other
           /\ d.idle = c.idle /\ d.app = c.app /\ d.highCapacity = c.highCapacity
  BY Zenon DEF MmcShape, DivMmc!Idle, DivMmc!Enter

LEMMA MmcMore ==
    ASSUME NEW c, MmcShape(c), NEW d, d = DivMmc!More(c)
    PROVE  /\ MmcShape(d) /\ d.phase = c.phase /\ d.at = c.at + 1
           /\ d.image = c.image /\ d.own = c.own /\ d.other = c.other
           /\ d.idle = c.idle /\ d.app = c.app /\ d.highCapacity = c.highCapacity
           /\ d.cmd = c.cmd /\ d.lba = c.lba
  BY DEF MmcShape, DivMmc!More

LEMMA MmcNextBlock ==
    ASSUME NEW c, MmcShape(c), c.lba \in Nat, NEW ph, NEW d, d = DivMmc!NextBlock(c, ph)
    PROVE  /\ MmcShape(d) /\ d.phase = ph /\ d.at = 0
           /\ d.image = c.image /\ d.own = c.own /\ d.other = c.other
           /\ d.idle = c.idle /\ d.app = c.app /\ d.highCapacity = c.highCapacity
           /\ d.cmd = c.cmd /\ d.lba \in Nat
<1> DEFINE e == DivMmc!Enter(c, ph)
<1>1. /\ MmcShape(e) /\ e.phase = ph /\ e.at = 0
      /\ e.image = c.image /\ e.own = c.own /\ e.other = c.other
      /\ e.idle = c.idle /\ e.app = c.app /\ e.highCapacity = c.highCapacity
      /\ e.cmd = c.cmd /\ e.lba = c.lba
  BY MmcEnter
<1> HIDE DEF e
<1>2. d = [e EXCEPT !.lba = IF e.lba < LastBlock THEN e.lba + 1 ELSE e.lba]
  BY DEF DivMmc!NextBlock, e
<1>3. (IF e.lba < LastBlock THEN e.lba + 1 ELSE e.lba) \in Nat
  BY <1>1
<1> QED
  BY <1>1, <1>2, <1>3 DEF MmcShape

(* A card that goes back to idle is as it was before the transaction.        *)
LEMMA MmcIdleKeeps ==
    ASSUME NEW c, MmcTypes(c), NEW d, d = DivMmc!Idle(c)
    PROVE  MmcInv(d)
  BY MmcIdle DEF MmcInv, MmcTypes, MmcOK, DivMmc!StatusOK, DivMmc!Commands

(* A soft reset leaves the card in order, whatever was under way.             *)
LEMMA MmcSoftReset ==
    ASSUME NEW c, MmcTypes(c), NEW d, d = DivMmc!SoftReset(c)
    PROVE  /\ MmcInv(d) /\ d.phase = "idle" /\ d.image = c.image
           /\ d.own = c.own /\ d.other = c.other
<1> DEFINE e == DivMmc!Idle(c)
<1>1. MmcInv(e) /\ e.phase = "idle" /\ e.image = c.image /\ e.own = c.own /\ e.other = c.other
  BY MmcIdle, MmcIdleKeeps DEF MmcTypes
<1>2. d = [e EXCEPT !.idle = TRUE, !.app = FALSE, !.highCapacity = FALSE]
  BY DEF DivMmc!SoftReset
<1> HIDE DEF e
<1> QED
  BY <1>1, <1>2, ZenonT(30) DEF MmcInv, MmcTypes, MmcShape, MmcOK, DivMmc!StatusOK

(* A block or a byte address names a block.                                   *)
LEMMA MmcAddress ==
    ASSUME NEW c, MmcTypes(c), NEW arg \in Nat
    PROVE  DivMmc!Address(c, arg) \in Nat
<1>1. arg \div BlockSize \in Nat
  BY CardAssumption
<1> QED
  BY <1>1 DEF DivMmc!Address

(* A card whose flags change, its phase and its transfer as they were.       *)
MmcAlike(c, d) ==
    /\ d.image = c.image /\ d.own = c.own /\ d.other = c.other
    /\ d.phase = c.phase /\ d.at = c.at /\ d.cmd = c.cmd /\ d.lba = c.lba

LEMMA MmcFlags ==
    ASSUME NEW c, MmcShape(c), NEW hcs, NEW d,
           \/ d = [c EXCEPT !.app = FALSE] \/ d = [c EXCEPT !.app = TRUE]
           \/ d = [c EXCEPT !.idle = FALSE, !.highCapacity = hcs]
    PROVE  /\ MmcShape(d) /\ MmcAlike(c, d)
           /\ d.app \in {c.app, TRUE, FALSE} /\ d.highCapacity \in {c.highCapacity, hcs}
           /\ d.idle \in {c.idle, FALSE}
<1>1. CASE d = [c EXCEPT !.app = FALSE]
  BY <1>1, Zenon DEF MmcShape, MmcAlike
<1>2. CASE d = [c EXCEPT !.app = TRUE]
  BY <1>2, Zenon DEF MmcShape, MmcAlike
<1>3. CASE d = [c EXCEPT !.idle = FALSE, !.highCapacity = hcs]
  BY <1>3, Zenon DEF MmcShape, MmcAlike
<1> QED
  BY <1>1, <1>2, <1>3, Zenon

LEMMA MmcFlagsKeep ==
    ASSUME NEW c, MmcInv(c), NEW hcs \in BOOLEAN, NEW d,
           \/ d = [c EXCEPT !.app = FALSE] \/ d = [c EXCEPT !.app = TRUE]
           \/ d = [c EXCEPT !.idle = FALSE, !.highCapacity = hcs]
    PROVE  MmcInv(d)
<1>1. MmcShape(c)
  BY DEF MmcInv, MmcTypes
<1>2. /\ MmcShape(d) /\ MmcAlike(c, d)
      /\ d.app \in {c.app, TRUE, FALSE} /\ d.highCapacity \in {c.highCapacity, hcs}
      /\ d.idle \in {c.idle, FALSE}
  BY <1>1, MmcFlags, Zenon
<1>3. MmcTypes(d)
  BY <1>2, Zenon DEF MmcInv, MmcTypes, MmcAlike
<1>4. MmcOK(d)
  BY <1>2, Zenon DEF MmcInv, MmcOK, MmcAlike, DivMmc!StatusOK
<1> QED
  BY <1>3, <1>4 DEF MmcInv

MmcAnswered(c, d) ==
    /\ MmcInv(d)
    /\ d.phase \in {"idle", "extra", "busy", "token", "writeToken"}
    /\ d.image = c.image

(* The response to a command leaves the card in order.                        *)
LEMMA MmcRespond ==
    ASSUME NEW c, MmcInv(c), c.phase = "wait", NEW arg \in Nat, NEW hcs \in BOOLEAN,
           NEW d, d = DivMmc!Respond(c, arg, hcs)
    PROVE  MmcAnswered(c, d)
<1>1. PICK e : e = [c EXCEPT !.app = FALSE]
  BY Zenon
<1>2. /\ MmcTypes(e) /\ MmcShape(e) /\ e.own /\ (~c.idle => ~e.idle)
      /\ e.cmd = c.cmd /\ c.cmd \in DivMmc!Commands /\ MmcTypes(c)
  BY <1>1, MmcFlags, MmcFlagsKeep, ZenonT(30) DEF MmcInv, MmcTypes, MmcOK, MmcAlike, DivMmc!StatusOK
<1>15. e.image = c.image
  BY <1>1, MmcFlags, Zenon DEF MmcInv, MmcTypes, MmcAlike
<1>3. PICK i : i = DivMmc!Idle(e)
  OBVIOUS
<1>4. MmcInv(i) /\ MmcAnswered(c, i)
  <2>1. MmcInv(i)
    BY <1>2, <1>3, MmcIdleKeeps
  <2>2. i.phase = "idle" /\ i.image = e.image
    BY <1>2, <1>3, MmcIdle
  <2> QED
    BY <1>15, <2>1, <2>2 DEF MmcAnswered
<1>5. ASSUME NEW ph, ph \in {"extra", "busy", "token", "writeToken"},
             ph # "extra" => ~c.idle,
             ph = "token" => c.cmd \in {17, 18},
             ph = "writeToken" => c.cmd \in {24, 25},
             NEW x, x = DivMmc!Enter(e, ph)
      PROVE  MmcInv(x) /\ MmcAnswered(c, x)
  <2>1. /\ MmcShape(x) /\ x.phase = ph /\ x.at = 0
        /\ x.image = e.image /\ x.own = e.own /\ x.other = e.other
        /\ x.idle = e.idle /\ x.app = e.app /\ x.highCapacity = e.highCapacity
        /\ x.cmd = e.cmd /\ x.lba = e.lba
    <3>1. x = DivMmc!Enter(e, ph)
      BY <1>5
    <3>2. MmcShape(e)
      BY <1>2
    <3>3. MmcShape(x) /\ x.phase = ph
      BY <3>1, <3>2, MmcEnter
    <3> QED
      BY <3>1, <3>2, MmcEnter
  <2>2. MmcTypes(x)
    BY <1>2, <1>5, <2>1 DEF MmcTypes
  <2>3. MmcOK(x)
    BY <1>2, <1>5, <2>1 DEF MmcOK, DivMmc!StatusOK
  <2> QED
    BY <1>5, <1>15, <2>1, <2>2, <2>3 DEF MmcInv, MmcAnswered
<1>6. ASSUME NEW ph, ph \in {"token", "writeToken"}, ~c.idle,
             ph = "token" => c.cmd \in {17, 18},
             ph = "writeToken" => c.cmd \in {24, 25},
             d = [DivMmc!Enter(e, ph) EXCEPT !.lba = DivMmc!Address(c, arg)]
      PROVE  MmcAnswered(c, d)
  <2>1. PICK x : x = DivMmc!Enter(e, ph)
    OBVIOUS
  <2>2. PICK a : a = DivMmc!Address(c, arg)
    OBVIOUS
  <2>3. MmcAnswered(c, x) /\ MmcInv(x) /\ MmcShape(x) /\ a \in Nat
    BY <1>2, <1>5, <1>6, <2>1, <2>2, MmcAddress, Zenon DEF MmcInv, MmcTypes
  <2>4. d = [x EXCEPT !.lba = a]
    BY <1>6, <2>1, <2>2
  <2>5. /\ MmcShape(d) /\ d.phase = x.phase /\ d.at = x.at /\ d.lba = a
        /\ d.image = x.image /\ d.own = x.own /\ d.other = x.other
        /\ d.idle = x.idle /\ d.app = x.app /\ d.highCapacity = x.highCapacity
        /\ d.cmd = x.cmd
    BY <2>3, <2>4 DEF MmcShape
  <2>6. MmcTypes(d)
    BY <2>3, <2>5 DEF MmcInv, MmcTypes
  <2>7. MmcOK(d)
    BY <2>3, <2>5 DEF MmcInv, MmcOK, DivMmc!StatusOK
  <2> QED
    BY <2>3, <2>5, <2>6, <2>7 DEF MmcInv, MmcAnswered
<1>7. d = DivMmc!SoftReset(e) => MmcAnswered(c, d)
  BY <1>2, <1>15, MmcSoftReset DEF MmcAnswered
<1>8. d = [i EXCEPT !.idle = FALSE, !.highCapacity = hcs] \/ d = [i EXCEPT !.app = TRUE]
         => MmcAnswered(c, d)
  <2>1. ASSUME d = [i EXCEPT !.idle = FALSE, !.highCapacity = hcs] \/ d = [i EXCEPT !.app = TRUE]
        PROVE  MmcAnswered(c, d)
    <3>1. MmcShape(i)
      BY <1>4 DEF MmcInv, MmcTypes
    <3>2. MmcInv(d)
      BY <1>4, <2>1, MmcFlagsKeep, Zenon
    <3>3. MmcAlike(i, d)
      BY <2>1, <3>1, MmcFlags, Zenon
    <3> QED
      BY <1>4, <3>2, <3>3 DEF MmcAlike, MmcAnswered
  <2> QED
    BY <2>1
<1>9. /\ c.cmd = 41 /\ c.app => d = [i EXCEPT !.idle = FALSE, !.highCapacity = hcs]
      /\ c.cmd = 41 /\ ~c.app => d = i
      /\ c.cmd = 0 => d = DivMmc!SoftReset(e)
      /\ c.cmd = 55 => d = [i EXCEPT !.app = TRUE]
  BY <1>1, <1>3 DEF DivMmc!Respond
<1>10. /\ c.cmd \in {8, 58} => d = DivMmc!Enter(e, "extra")
       /\ c.cmd \in {16, 63} => d = i
       /\ c.cmd = 12 => d = IF c.idle THEN i ELSE DivMmc!Enter(e, "busy")
  BY <1>1, <1>3 DEF DivMmc!Respond
<1>11. /\ c.cmd \in {17, 18} => d = IF c.idle THEN i
              ELSE [DivMmc!Enter(e, "token") EXCEPT !.lba = DivMmc!Address(c, arg)]
       /\ c.cmd \in {24, 25} => d = IF c.idle THEN i
              ELSE [DivMmc!Enter(e, "writeToken") EXCEPT !.lba = DivMmc!Address(c, arg)]
  BY <1>1, <1>3 DEF DivMmc!Respond
<1>12. c.cmd \in {41, 0, 55} => MmcAnswered(c, d)
  BY <1>2, <1>4, <1>7, <1>8, <1>9 DEF MmcTypes
<1>13. c.cmd \in {8, 58, 16, 63, 12} => MmcAnswered(c, d)
  BY <1>4, <1>5, <1>10
<1>14. c.cmd \in {17, 18, 24, 25} => MmcAnswered(c, d)
  BY <1>4, <1>6, <1>11
<1> QED
  BY <1>2, <1>12, <1>13, <1>14 DEF DivMmc!Commands

(* Entering a phase that the command allows keeps the invariant.              *)
LEMMA MmcEnterKeeps ==
    ASSUME NEW c, MmcTypes(c), c.cmd \in DivMmc!Commands, c.own,
           NEW ph, ph \in {"idle", "busy", "write", "writeToken", "read", "token",
                           "extra", "wait", "arg"},
           ph \in {"token", "read", "writeToken", "write", "busy"} => ~c.idle,
           ph \in {"token", "read"} => c.cmd \in {17, 18},
           ph \in {"writeToken", "write"} => c.cmd \in {24, 25},
           NEW d, d = DivMmc!Enter(c, ph) \/ d = DivMmc!NextBlock(c, ph)
    PROVE  MmcInv(d)
<1>1. MmcShape(c) /\ c.lba \in Nat
  BY DEF MmcTypes
<1>2. /\ MmcShape(d) /\ d.phase = ph /\ d.at = 0
      /\ d.image = c.image /\ d.own = c.own /\ d.other = c.other
      /\ d.idle = c.idle /\ d.app = c.app /\ d.highCapacity = c.highCapacity
      /\ d.cmd = c.cmd /\ d.lba \in Nat
  <2>1. CASE d = DivMmc!Enter(c, ph)
    <3>1. MmcShape(d) /\ d.phase = ph /\ d.lba = c.lba
      BY <1>1, <2>1, MmcEnter
    <3>2. d.image = c.image /\ d.other = c.other /\ d.at = 0
      BY <1>1, <2>1, <3>1, MmcEnter
    <3>4. d.own = c.own
      BY <1>1, <2>1, <3>1, MmcEnter, Zenon
    <3>3. /\ d.idle = c.idle /\ d.app = c.app /\ d.highCapacity = c.highCapacity
          /\ d.cmd = c.cmd
      BY <1>1, <2>1, <3>1, MmcEnter
    <3> QED
      BY <1>1, <3>1, <3>2, <3>3, <3>4
  <2>2. CASE d = DivMmc!NextBlock(c, ph)
    <3>1. MmcShape(d) /\ d.phase = ph /\ d.lba \in Nat
      BY <1>1, <2>2, MmcNextBlock
    <3>2. d.image = c.image /\ d.other = c.other /\ d.at = 0
      BY <1>1, <2>2, <3>1, MmcNextBlock
    <3>4. d.own = c.own
      BY <1>1, <2>2, <3>1, MmcNextBlock, Zenon
    <3>3. /\ d.idle = c.idle /\ d.app = c.app /\ d.highCapacity = c.highCapacity
          /\ d.cmd = c.cmd
      BY <1>1, <2>2, <3>1, MmcNextBlock
    <3> QED
      BY <1>1, <3>1, <3>2, <3>3, <3>4
  <2> QED
    BY <2>1, <2>2, Zenon
<1>3. MmcTypes(d)
  BY <1>2 DEF MmcTypes
<1>4. MmcOK(d)
  BY <1>2, CardAssumption DEF MmcOK, DivMmc!StatusOK
<1> QED
  BY <1>3, <1>4 DEF MmcInv

(* One more byte of a phase that is not complete keeps the invariant.         *)
LEMMA MmcMoreKeeps ==
    ASSUME NEW c, MmcInv(c),
           c.phase = "write" => c.at < BlockSize + 2,
           c.phase = "read" => c.at + 1 < BlockSize + 2,
           NEW d, d = DivMmc!More(c)
    PROVE  MmcInv(d)
<1>1. /\ MmcShape(d) /\ d.phase = c.phase /\ d.at = c.at + 1
      /\ d.image = c.image /\ d.own = c.own /\ d.other = c.other
      /\ d.idle = c.idle /\ d.app = c.app /\ d.highCapacity = c.highCapacity
      /\ d.cmd = c.cmd /\ d.lba = c.lba
  BY MmcMore DEF MmcInv, MmcTypes
<1>2. MmcTypes(d)
  BY <1>1 DEF MmcInv, MmcTypes
<1>3. MmcOK(d)
  BY <1>1, CardAssumption DEF MmcInv, MmcTypes, MmcOK, DivMmc!StatusOK
<1> QED
  BY <1>2, <1>3 DEF MmcInv

(* The byte that Write leaves in the image, and where.                       *)
(* A byte that is stored in the block of the card.                           *)
MmcWrote(c, byte, d) ==
    /\ MmcInv(d)
    /\ d.own = c.own /\ d.phase = c.phase /\ d.at = c.at /\ d.lba = c.lba
    /\ d.image = IF c.lba + 1 \in DOMAIN c.image
                 THEN [c.image EXCEPT ![c.lba + 1] =
                         [c.image[c.lba + 1] EXCEPT ![c.at + 1] = byte]]
                 ELSE c.image

(* A byte that is written is in the block and the others are as before.       *)
LEMMA MmcWrite ==
    ASSUME NEW c, MmcInv(c), c.at < BlockSize, NEW byte \in 0 .. 255,
           NEW d, d = DivMmc!Write(c, byte)
    PROVE  MmcWrote(c, byte, d)
<1>1. MmcShape(c) /\ c.image \in Seq(DivMmc!Block) /\ c.at \in Nat
  BY DEF MmcInv, MmcTypes
<1>2. CASE c.lba + 1 \notin DOMAIN c.image
  BY <1>2 DEF DivMmc!Write, DivMmc!Has, MmcWrote
<1>3. CASE c.lba + 1 \in DOMAIN c.image
  <2>1. PICK n : n = c.lba + 1
    OBVIOUS
  <2>2. PICK b : b = [c.image[n] EXCEPT ![c.at + 1] = byte]
    BY Zenon
  <2>3. d = [c EXCEPT !.image[n][c.at + 1] = byte]
    BY <1>3, <2>1 DEF DivMmc!Write, DivMmc!Has
  <2>4. PICK m : m = [c.image EXCEPT ![n] = b]
    BY Zenon
  <2>5. d = [c EXCEPT !.image = m]
    BY <2>2, <2>3, <2>4
  <2>6. /\ MmcShape(d) /\ d.phase = c.phase /\ d.at = c.at
        /\ d.image = m /\ d.own = c.own /\ d.other = c.other
        /\ d.idle = c.idle /\ d.app = c.app /\ d.highCapacity = c.highCapacity
        /\ d.cmd = c.cmd /\ d.lba = c.lba
    BY <1>1, <2>5 DEF MmcShape
  <2>7. b \in DivMmc!Block
    <3>1. c.image[n] \in DivMmc!Block
      BY <1>1, <1>3, <2>1
    <3> QED
      BY <2>2, <3>1, Zenon DEF DivMmc!Block
  <2>8. m \in Seq(DivMmc!Block)
    BY <1>1, <1>3, <2>1, <2>4, <2>7
  <2>9. MmcTypes(d)
    BY <2>6, <2>8 DEF MmcInv, MmcTypes
  <2>10. MmcOK(d)
    BY <2>6 DEF MmcInv, MmcOK, DivMmc!StatusOK
  <2> QED
    BY <1>3, <2>1, <2>2, <2>4, <2>6, <2>9, <2>10 DEF MmcInv, MmcWrote
<1> QED
  BY <1>2, <1>3

(* Every operation keeps the card in order: first those that its state asks   *)
(* for.                                                                       *)
LEMMA MmcServes ==
    ASSUME MmcInv(mmc), DivMmc!Serve
    PROVE  MmcInv(mmc')
<1>1. /\ MmcTypes(mmc) /\ mmc.own \in BOOLEAN /\ mmc.at \in Nat
      /\ mmc.cmd \in DivMmc!Commands
  BY DEF MmcInv, MmcTypes, MmcOK
<1>2. /\ mmc.phase \in {"token", "read", "writeToken", "write", "busy"} => ~mmc.idle
      /\ mmc.phase # "idle" => mmc.own
      /\ mmc.phase \in {"write", "writeToken"} => mmc.cmd \in {24, 25}
      /\ mmc.phase \in {"token", "read"} => mmc.cmd \in {17, 18}
      /\ mmc.phase = "write" => mmc.at =< BlockSize + 2
      /\ mmc.phase = "read" => mmc.at < BlockSize + 2
  BY DEF MmcInv, MmcOK, DivMmc!StatusOK
<1>3. mmc' = DivMmc!Idle(mmc) => MmcInv(mmc')
  BY <1>1, MmcIdleKeeps
<1>4. CASE DivMmc!TakeArgument
  <2>1. mmc.phase = "arg"
    BY <1>4 DEF DivMmc!TakeArgument, DivMmc!Exchange
  <2> QED
    BY <1>1, <1>2, <1>4, <2>1, MmcMoreKeeps, MmcEnterKeeps DEF DivMmc!TakeArgument
<1>5. CASE DivMmc!Answer
  <2>1. mmc.phase = "wait" /\ Addresses \subseteq Nat
    BY <1>5, CardAssumption DEF DivMmc!Answer, DivMmc!Exchange
  <2> QED
    BY <1>5, <2>1, MmcMoreKeeps, MmcRespond DEF DivMmc!Answer, MmcAnswered
<1>6. CASE DivMmc!SendExtra
  <2>1. mmc.phase = "extra"
    BY <1>6 DEF DivMmc!SendExtra, DivMmc!Exchange
  <2> QED
    BY <1>3, <1>6, <2>1, MmcMoreKeeps DEF DivMmc!SendExtra
<1>7. CASE DivMmc!SendToken
  <2>1. mmc.phase = "token"
    BY <1>7 DEF DivMmc!SendToken, DivMmc!Exchange
  <2> QED
    BY <1>1, <1>2, <1>7, <2>1, MmcMoreKeeps, MmcEnterKeeps DEF DivMmc!SendToken
<1>8. CASE DivMmc!SendByte
  <2>1. mmc.phase = "read"
    BY <1>8 DEF DivMmc!SendByte, DivMmc!Exchange
  <2> QED
    BY <1>1, <1>2, <1>3, <1>8, <2>1, MmcMoreKeeps, MmcEnterKeeps DEF DivMmc!SendByte
<1>9. CASE \E token \in {"single", "multi", "stop"} : DivMmc!TakeToken(token)
  <2>1. mmc.phase = "writeToken"
    BY <1>9 DEF DivMmc!TakeToken, DivMmc!Exchange
  <2> QED
    BY <1>1, <1>2, <1>3, <1>9, <2>1, MmcEnterKeeps DEF DivMmc!TakeToken
<1>10. CASE \E byte \in CardBytes : DivMmc!TakeByte(byte)
  <2>1. PICK byte \in 0 .. 255 : DivMmc!TakeByte(byte)
    BY <1>10, CardAssumption, Zenon
  <2>2. mmc.phase = "write"
    BY <2>1 DEF DivMmc!TakeByte, DivMmc!Exchange
  <2>3. CASE mmc.at < BlockSize
    <3>1. PICK w : w = DivMmc!Write(mmc, byte)
      OBVIOUS
    <3>2. MmcInv(w) /\ w.phase = "write" /\ w.at = mmc.at
      <4>1. MmcWrote(mmc, byte, w)
        BY <2>3, <3>1, MmcWrite
      <4> QED
        BY <2>2, <4>1 DEF MmcWrote
    <3>3. mmc' = DivMmc!More(w)
      BY <2>1, <2>3, <3>1 DEF DivMmc!TakeByte
    <3> QED
      BY <1>1, <2>3, <3>2, <3>3, CardAssumption, MmcMoreKeeps
  <2>4. CASE ~(mmc.at < BlockSize) /\ mmc.at < BlockSize + 2
    BY <2>1, <2>2, <2>4, MmcMoreKeeps DEF DivMmc!TakeByte
  <2>5. CASE ~(mmc.at < BlockSize) /\ ~(mmc.at < BlockSize + 2)
    BY <1>1, <1>2, <2>1, <2>2, <2>5, MmcEnterKeeps DEF DivMmc!TakeByte
  <2> QED
    BY <2>3, <2>4, <2>5
<1>11. CASE DivMmc!Busy
  <2>1. mmc.phase = "busy"
    BY <1>11 DEF DivMmc!Busy, DivMmc!Exchange
  <2> QED
    BY <1>1, <1>2, <1>3, <1>11, <2>1, MmcMoreKeeps, MmcEnterKeeps DEF DivMmc!Busy
<1> QED
  BY <1>4, <1>5, <1>6, <1>7, <1>8, <1>9, <1>10, <1>11 DEF DivMmc!Serve

LEMMA MmcStep ==
    ASSUME MmcInv(mmc), DivMmc!Next
    PROVE  MmcInv(mmc')
<1>1. /\ MmcTypes(mmc) /\ MmcShape(mmc) /\ mmc.own \in BOOLEAN
      /\ mmc.phase # "idle" => mmc.own
  BY DEF MmcInv, MmcTypes, MmcOK, DivMmc!StatusOK
<1>2. CASE \E cmd \in DivMmc!Commands : DivMmc!StartCommand(cmd)
  <2>1. PICK cmd \in DivMmc!Commands : DivMmc!StartCommand(cmd)
    BY <1>2
  <2>2. PICK e : e = DivMmc!Enter(mmc, "arg")
    OBVIOUS
  <2>3. mmc.own /\ mmc' = [e EXCEPT !.cmd = cmd, !.lba = 0]
    BY <2>1, <2>2 DEF DivMmc!StartCommand, DivMmc!Exchange
  <2>4. /\ MmcShape(e) /\ e.phase = "arg" /\ e.at = 0
        /\ e.image = mmc.image /\ e.own = mmc.own /\ e.other = mmc.other
        /\ e.idle = mmc.idle /\ e.app = mmc.app /\ e.highCapacity = mmc.highCapacity
    BY <1>1, <2>2, MmcEnter
  <2>5. /\ MmcShape(mmc') /\ mmc'.phase = "arg" /\ mmc'.at = 0
        /\ mmc'.image = e.image /\ mmc'.own = e.own /\ mmc'.other = e.other
        /\ mmc'.idle = e.idle /\ mmc'.app = e.app /\ mmc'.highCapacity = e.highCapacity
        /\ mmc'.cmd = cmd /\ mmc'.lba = 0
    BY <2>3, <2>4, Zenon DEF MmcShape
  <2>6. cmd \in Nat
    BY DEF DivMmc!Commands
  <2>7. MmcTypes(mmc')
    BY <1>1, <2>4, <2>5, <2>6 DEF MmcTypes
  <2>8. MmcOK(mmc')
    BY <2>3, <2>4, <2>5, Zenon DEF MmcOK, DivMmc!StatusOK
  <2> QED
    BY <2>7, <2>8 DEF MmcInv
<1>3. CASE \E own, other \in BOOLEAN : DivMmc!OutSelect(own, other)
  <2>1. PICK own \in BOOLEAN, other \in BOOLEAN : DivMmc!OutSelect(own, other)
    BY <1>3
  <2>2. PICK c : c = [mmc EXCEPT !.own = own, !.other = other]
    OBVIOUS
  <2>3. /\ MmcShape(c) /\ c.phase = mmc.phase /\ c.at = mmc.at
        /\ c.image = mmc.image /\ c.own = own /\ c.other = other
        /\ c.idle = mmc.idle /\ c.app = mmc.app /\ c.highCapacity = mmc.highCapacity
        /\ c.cmd = mmc.cmd /\ c.lba = mmc.lba
    BY <1>1, <2>2, Zenon DEF MmcShape
  <2>4. MmcTypes(c)
    BY <1>1, <2>3 DEF MmcTypes
  <2>5. mmc' = IF mmc.own /\ ~own THEN DivMmc!Idle(c) ELSE c
    BY <2>1, <2>2 DEF DivMmc!OutSelect
  <2>6. ~(mmc.own /\ ~own) => MmcOK(c)
    BY <1>1, <2>1, <2>3 DEF MmcInv, MmcOK, DivMmc!StatusOK
  <2> QED
    BY <2>4, <2>5, <2>6, MmcIdleKeeps DEF MmcInv
<1>4. CASE \E image \in MmcImages : DivMmc!Attach(image)
  <2>1. PICK image \in Seq(DivMmc!Block) : DivMmc!Attach(image)
    BY <1>4, CardAssumption
  <2>2. PICK c : c = DivMmc!SoftReset(mmc)
    OBVIOUS
  <2>3. MmcInv(c) /\ MmcShape(c)
    BY <1>1, <2>2, MmcSoftReset DEF MmcInv, MmcTypes
  <2>4. mmc' = [c EXCEPT !.image = image]
    BY <2>1, <2>2 DEF DivMmc!Attach
  <2>5. /\ MmcShape(mmc') /\ mmc'.phase = c.phase /\ mmc'.at = c.at
        /\ mmc'.image = image /\ mmc'.own = c.own /\ mmc'.other = c.other
        /\ mmc'.idle = c.idle /\ mmc'.app = c.app /\ mmc'.highCapacity = c.highCapacity
        /\ mmc'.cmd = c.cmd /\ mmc'.lba = c.lba
    BY <2>3, <2>4 DEF MmcShape
  <2>6. MmcTypes(mmc')
    BY <2>1, <2>3, <2>5 DEF MmcInv, MmcTypes
  <2>7. MmcOK(mmc')
    BY <2>3, <2>5 DEF MmcInv, MmcOK, DivMmc!StatusOK
  <2> QED
    BY <2>6, <2>7 DEF MmcInv
<1>5. CASE DivMmc!ResetSoft
  <2>1. PICK c : c = DivMmc!Idle(mmc)
    OBVIOUS
  <2>2. MmcInv(c) /\ MmcShape(c) /\ c.phase = "idle"
    BY <1>1, <2>1, MmcIdleKeeps, MmcIdle
  <2>3. mmc' = [c EXCEPT !.own = FALSE, !.other = FALSE]
    BY <1>5, <2>1 DEF DivMmc!ResetSoft
  <2>4. /\ MmcShape(mmc') /\ mmc'.phase = c.phase /\ mmc'.at = c.at
        /\ mmc'.image = c.image /\ mmc'.own = FALSE /\ mmc'.other = FALSE
        /\ mmc'.idle = c.idle /\ mmc'.app = c.app /\ mmc'.highCapacity = c.highCapacity
        /\ mmc'.cmd = c.cmd /\ mmc'.lba = c.lba
    BY <2>2, <2>3, Zenon DEF MmcShape
  <2>5. MmcTypes(mmc')
    BY <2>2, <2>4, Zenon DEF MmcInv, MmcTypes
  <2>6. MmcOK(mmc')
    BY <2>2, <2>4 DEF MmcInv, MmcOK, DivMmc!StatusOK
  <2> QED
    BY <2>5, <2>6 DEF MmcInv
<1> QED
  BY <1>2, <1>3, <1>4, <1>5, MmcServes DEF DivMmc!Next

(* A card is in order when it is attached.                                    *)
LEMMA MmcBegins ==
    ASSUME DivMmc!Init
    PROVE  MmcInv(mmc)
<1>1. PICK image \in Seq(DivMmc!Block) : mmc = DivMmc!NewCard(image)
  BY CardAssumption DEF DivMmc!Init
<1>2. MmcTypes(mmc)
  BY <1>1 DEF MmcTypes, MmcShape, DivMmc!NewCard
<1>3. MmcOK(mmc)
  BY <1>1 DEF MmcOK, DivMmc!StatusOK, DivMmc!NewCard, DivMmc!Commands
<1> QED
  BY <1>2, <1>3 DEF MmcInv

(* The stages of a command in the order of its phases.                        *)
LEMMA MmcStage ==
    ASSUME NEW c, NEW i \in 1 .. 9, c.phase = DivMmc!Phases[i]
    PROVE  DivMmc!Stage(c) = i
<1>1. \A j \in 1 .. 9 : DivMmc!Phases[j] = DivMmc!Phases[i] => j = i
  BY DEF DivMmc!Phases
<1>2. DOMAIN DivMmc!Phases = 1 .. 9
  BY DEF DivMmc!Phases
<1> QED
  BY <1>1, <1>2 DEF DivMmc!Stage

LEMMA MmcStages ==
    ASSUME NEW c
    PROVE  /\ c.phase = "idle" => DivMmc!Stage(c) = 1
           /\ c.phase = "busy" => DivMmc!Stage(c) = 2
           /\ c.phase = "write" => DivMmc!Stage(c) = 3
           /\ c.phase = "writeToken" => DivMmc!Stage(c) = 4
           /\ c.phase = "read" => DivMmc!Stage(c) = 5
           /\ c.phase = "token" => DivMmc!Stage(c) = 6
           /\ c.phase = "extra" => DivMmc!Stage(c) = 7
           /\ c.phase = "wait" => DivMmc!Stage(c) = 8
           /\ c.phase = "arg" => DivMmc!Stage(c) = 9
<1>1. /\ DivMmc!Phases[1] = "idle" /\ DivMmc!Phases[2] = "busy"
      /\ DivMmc!Phases[3] = "write" /\ DivMmc!Phases[4] = "writeToken"
      /\ DivMmc!Phases[5] = "read" /\ DivMmc!Phases[6] = "token"
      /\ DivMmc!Phases[7] = "extra" /\ DivMmc!Phases[8] = "wait"
      /\ DivMmc!Phases[9] = "arg"
  BY DEF DivMmc!Phases
<1> QED
  BY <1>1, MmcStage

(* Every byte that its state asks for takes a card's command forward.         *)
LEMMA MmcNearer ==
    ASSUME MmcInv(mmc), DivMmc!Serve
    PROVE  DivMmc!Nearer
<1>1. MmcTypes(mmc) /\ MmcShape(mmc) /\ mmc.at \in Nat
  BY DEF MmcInv, MmcTypes
<1>2. ASSUME NEW c, MmcShape(c), c.phase = mmc.phase, c.at = mmc.at,
             mmc' = DivMmc!More(c)
      PROVE  DivMmc!Nearer
  <2>1. mmc'.phase = mmc.phase /\ mmc'.at = mmc.at + 1
    BY <1>2, MmcMore
  <2> QED
    BY <1>1, <2>1 DEF DivMmc!Nearer
<1>3. mmc' = DivMmc!Idle(mmc) => mmc'.phase = "idle"
  BY <1>1, MmcIdle
<1>4. \A ph : mmc' = DivMmc!Enter(mmc, ph) => mmc'.phase = ph
  BY <1>1, MmcEnter
<1>5. mmc' = DivMmc!More(mmc) => DivMmc!Nearer
  BY <1>1, <1>2
<1>6. CASE DivMmc!TakeArgument
  <2>1. mmc.phase = "arg"
    BY <1>6 DEF DivMmc!TakeArgument, DivMmc!Exchange
  <2>2. mmc' = DivMmc!More(mmc) \/ mmc'.phase = "wait"
    BY <1>4, <1>6 DEF DivMmc!TakeArgument
  <2> QED
    BY <1>5, <2>1, <2>2, MmcStages DEF DivMmc!Nearer
<1>7. CASE DivMmc!Answer
  <2>1. mmc.phase = "wait" /\ Addresses \subseteq Nat
    BY <1>7, CardAssumption DEF DivMmc!Answer, DivMmc!Exchange
  <2>2. mmc' = DivMmc!More(mmc)
           \/ mmc'.phase \in {"idle", "extra", "busy", "token", "writeToken"}
    BY <1>7, <2>1, MmcRespond DEF DivMmc!Answer, MmcAnswered
  <2> QED
    BY <1>5, <2>1, <2>2, MmcStages DEF DivMmc!Nearer
<1>8. CASE DivMmc!SendExtra
  <2>1. mmc.phase = "extra"
    BY <1>8 DEF DivMmc!SendExtra, DivMmc!Exchange
  <2>2. mmc' = DivMmc!More(mmc) \/ mmc'.phase = "idle"
    BY <1>3, <1>8 DEF DivMmc!SendExtra
  <2> QED
    BY <1>5, <2>1, <2>2, MmcStages DEF DivMmc!Nearer
<1>9. CASE DivMmc!SendToken
  <2>1. mmc.phase = "token"
    BY <1>9 DEF DivMmc!SendToken, DivMmc!Exchange
  <2>2. mmc' = DivMmc!More(mmc) \/ mmc'.phase = "read"
    BY <1>4, <1>9 DEF DivMmc!SendToken
  <2> QED
    BY <1>5, <2>1, <2>2, MmcStages DEF DivMmc!Nearer
<1>10. CASE DivMmc!SendByte
  <2>1. mmc.phase = "read"
    BY <1>10 DEF DivMmc!SendByte, DivMmc!Exchange
  <2>2. mmc' = DivMmc!More(mmc) \/ DivMmc!Multi(mmc.cmd) \/ mmc'.phase = "idle"
    BY <1>3, <1>10 DEF DivMmc!SendByte
  <2> QED
    BY <1>5, <2>1, <2>2, MmcStages DEF DivMmc!Nearer
<1>11. CASE \E token \in {"single", "multi", "stop"} : DivMmc!TakeToken(token)
  <2>1. mmc.phase = "writeToken"
    BY <1>11 DEF DivMmc!TakeToken, DivMmc!Exchange
  <2>2. mmc'.phase \in {"idle", "write"}
    BY <1>3, <1>4, <1>11 DEF DivMmc!TakeToken
  <2> QED
    BY <2>1, <2>2, MmcStages DEF DivMmc!Nearer
<1>12. CASE \E byte \in CardBytes : DivMmc!TakeByte(byte)
  <2>1. PICK byte \in 0 .. 255 : DivMmc!TakeByte(byte)
    BY <1>12, CardAssumption, Zenon
  <2>2. mmc.phase = "write"
    BY <2>1 DEF DivMmc!TakeByte, DivMmc!Exchange
  <2>3. CASE mmc.at < BlockSize
    <3>1. PICK w : w = DivMmc!Write(mmc, byte)
      OBVIOUS
    <3>2. MmcShape(w) /\ w.phase = mmc.phase /\ w.at = mmc.at
      <4>1. MmcInv(w) /\ w.phase = mmc.phase /\ w.at = mmc.at
        <5>1. MmcWrote(mmc, byte, w)
          BY <2>3, <3>1, MmcWrite
        <5> QED
          BY <5>1 DEF MmcWrote
      <4> QED
        BY <4>1 DEF MmcInv, MmcTypes
    <3>3. mmc' = DivMmc!More(w)
      BY <2>1, <2>3, <3>1 DEF DivMmc!TakeByte
    <3> QED
      BY <1>2, <3>2, <3>3
  <2>4. CASE ~(mmc.at < BlockSize)
    <3>1. mmc' = DivMmc!More(mmc) \/ mmc'.phase = "busy"
      BY <1>4, <2>1, <2>4 DEF DivMmc!TakeByte
    <3> QED
      BY <1>5, <2>2, <3>1, MmcStages DEF DivMmc!Nearer
  <2> QED
    BY <2>3, <2>4
<1>13. CASE DivMmc!Busy
  <2>1. mmc.phase = "busy"
    BY <1>13 DEF DivMmc!Busy, DivMmc!Exchange
  <2>2. mmc' = DivMmc!More(mmc) \/ DivMmc!Multi(mmc.cmd) \/ mmc'.phase = "idle"
    BY <1>3, <1>13 DEF DivMmc!Busy, DivMmc!Multi
  <2> QED
    BY <1>5, <2>1, <2>2, MmcStages DEF DivMmc!Nearer
<1> QED
  BY <1>6, <1>7, <1>8, <1>9, <1>10, <1>11, <1>12, <1>13 DEF DivMmc!Serve

-----------------------------------------------------------------------------
(* The card is a drive.                                                      *)

MmcQuiet(c) ==
    /\ ~(c.phase = "read" /\ c.at < BlockSize)
    /\ ~(c.phase = "write" /\ c.at =< BlockSize)

(* A card without a transfer is a drive without a job.                        *)
LEMMA MmcEnds ==
    ASSUME MmcQuiet(mmc'), mmc'.image = mmc.image
    PROVE  DivMmc!Drive!Next
<1>1. DivMmc!Job' = [op |-> "none"]
  BY DEF MmcQuiet, DivMmc!Job
<1>2. DivMmc!Blocks(mmc.image)' = DivMmc!Blocks(mmc.image)
  BY DEF DivMmc!Blocks
<1> QED
  BY <1>1, <1>2 DEF DivMmc!Drive!Next, DivMmc!Drive!GiveUp, DivMmc!Drive!NoJob

(* A block, also one beyond the image, is a sequence of bytes.               *)
LEMMA MmcBlockAt ==
    ASSUME NEW c, c.image \in Seq(DivMmc!Block), NEW lba \in Nat,
           NEW b, b = DivMmc!BlockAt(c, lba)
    PROVE  b \in Seq(Nat) /\ Len(b) = BlockSize /\ b \in DivMmc!Block
<1>1. b \in DivMmc!Block
  <2>1. CASE lba + 1 \in DOMAIN c.image
    BY <2>1 DEF DivMmc!BlockAt, DivMmc!Has
  <2>2. CASE lba + 1 \notin DOMAIN c.image
    BY <2>2 DEF DivMmc!BlockAt, DivMmc!Has, DivMmc!Block
  <2> QED
    BY <2>1, <2>2
<1> QED
  BY <1>1, CardAssumption, BytesAreSeq, ZenonT(30) DEF DivMmc!Block

(* The places of a card's medium are its blocks.                              *)
LEMMA MmcPlaces ==
    ASSUME NEW image, image \in Seq(DivMmc!Block), NEW lba \in Nat
    PROVE  /\ <<lba>> \in DOMAIN DivMmc!Blocks(image) <=> lba + 1 \in DOMAIN image
           /\ lba + 1 \in DOMAIN image =>
                 DivMmc!Blocks(image)[<<lba>>] = image[lba + 1]
<1>1. DOMAIN image \subseteq Nat
  OBVIOUS
<1>2. <<lba>> \in {<<i - 1>> : i \in DOMAIN image} <=> lba + 1 \in DOMAIN image
  BY <1>1
<1> QED
  BY <1>2 DEF DivMmc!Blocks

(* A read begins, and hands out a byte.                                       *)
LEMMA MmcReads ==
    ASSUME MmcInv(mmc), MmcInv(mmc'), mmc'.image = mmc.image,
           mmc'.phase = "read", mmc'.at = 0
    PROVE  DivMmc!Drive!Next
<1>1. PICK lba \in Nat : lba = mmc'.lba
  BY DEF MmcInv, MmcTypes
<1>2. PICK image \in Seq(DivMmc!Block) : image = mmc.image
  BY DEF MmcInv, MmcTypes
<1>3. PICK b : b = DivMmc!BlockAt(mmc', lba)
  OBVIOUS
<1>4. b \in Seq(Nat) /\ Len(b) = BlockSize /\ b \in DivMmc!Block
  BY <1>2, <1>3, MmcBlockAt
<1>5. DivMmc!Job' = [op |-> "read", at |-> <<lba>>, bytes |-> b]
  <2>1. DivMmc!Job' = [op |-> "read", at |-> <<lba>>, bytes |-> SubSeq(b, 1, BlockSize)]
    BY <1>1, <1>3, CardAssumption DEF DivMmc!Job
  <2> QED
    BY <1>4, <2>1, SubSeqWhole
<1>6. DivMmc!Blocks(mmc.image)' = DivMmc!Blocks(image) /\ DivMmc!Blocks(mmc.image) = DivMmc!Blocks(image)
  BY <1>2 DEF DivMmc!Blocks
<1>7. lba + 1 \in DOMAIN image =>
         b = DivMmc!Drive!Resized(DivMmc!Blocks(image)[<<lba>>], Len(b))
  <2>1. ASSUME lba + 1 \in DOMAIN image
        PROVE  b = DivMmc!Drive!Resized(b, Len(b))
    BY <1>4 DEF DivMmc!Drive!Resized
  <2>2. lba + 1 \in DOMAIN image => b = image[lba + 1]
    BY <1>2, <1>3 DEF DivMmc!BlockAt, DivMmc!Has
  <2> QED
    BY <1>2, <2>1, <2>2, MmcPlaces
<1>8. DivMmc!Drive!Reads
  BY <1>2, <1>5, <1>6, <1>7, MmcPlaces DEF DivMmc!Drive!Reads, DivMmc!Drive!On
<1> QED
  BY <1>6, <1>8 DEF DivMmc!Drive!Next, DivMmc!Drive!Begin

LEMMA MmcGives ==
    ASSUME MmcInv(mmc), mmc.phase = "read", mmc.at + 1 < BlockSize, mmc' = DivMmc!More(mmc)
    PROVE  DivMmc!Drive!Next
<1>1. PICK lba \in Nat, at \in Nat : lba = mmc.lba /\ at = mmc.at
  BY DEF MmcInv, MmcTypes
<1>2. MmcShape(mmc) /\ mmc.image \in Seq(DivMmc!Block)
  BY DEF MmcInv, MmcTypes
<1>3. mmc'.phase = "read" /\ mmc'.at = at + 1 /\ mmc'.lba = lba /\ mmc'.image = mmc.image
  BY <1>1, <1>2, MmcMore
<1>4. PICK b : b = DivMmc!BlockAt(mmc, lba)
  OBVIOUS
<1>5. b \in Seq(Nat) /\ Len(b) = BlockSize
  BY <1>2, <1>4, MmcBlockAt
<1>6. DivMmc!BlockAt(mmc', lba) = b
  BY <1>3, <1>4 DEF DivMmc!BlockAt, DivMmc!Has
<1>7. DivMmc!Job = [op |-> "read", at |-> <<lba>>, bytes |-> SubSeq(b, at + 1, Len(b))]
  BY <1>1, <1>4, <1>5, CardAssumption DEF DivMmc!Job
<1>8. DivMmc!Job' = [op |-> "read", at |-> <<lba>>, bytes |-> SubSeq(b, at + 2, Len(b))]
  <2>1. SubSeq(b, (at + 1) + 1, BlockSize) = SubSeq(b, at + 2, BlockSize)
    <3>1. (at + 1) + 1 = at + 2
      BY <1>1
    <3> QED
      BY <3>1, Zenon
  <2> QED
    BY <1>1, <1>3, <1>5, <1>6, <2>1, CardAssumption, Zenon DEF DivMmc!Job
<1>9. /\ SubSeq(b, at + 1, Len(b)) # <<>>
      /\ Tail(SubSeq(b, at + 1, Len(b))) = SubSeq(b, at + 2, Len(b))
  <2>1. at < Len(b)
    BY <1>1, <1>5, CardAssumption
  <2> QED
    BY <1>1, <1>5, <2>1, SubSeqTail, Zenon
<1>10. DivMmc!Blocks(mmc.image)' = DivMmc!Blocks(mmc.image)
  BY <1>3 DEF DivMmc!Blocks
<1>11. DivMmc!Drive!Give
  <2>1. PICK j : j = DivMmc!Job
    OBVIOUS
  <2>2. PICK s, t : s = SubSeq(b, at + 1, Len(b)) /\ t = SubSeq(b, at + 2, Len(b))
    BY Zenon
  <2>3. j = [op |-> "read", at |-> <<lba>>, bytes |-> s] /\ s # <<>> /\ t = Tail(s)
    BY <1>7, <1>9, <2>1, <2>2, Zenon
  <2>4. DivMmc!Job' = [j EXCEPT !.bytes = Tail(@)]
    <3>1. DivMmc!Job' = [op |-> "read", at |-> <<lba>>, bytes |-> t]
      BY <1>8, <2>2
    <3>2. PICK m : m = DivMmc!Job'
      OBVIOUS
    <3>3. Given(j, m)
      BY <2>3, <3>1, <3>2, JobGiven, Zenon
    <3> QED
      BY <3>2, <3>3 DEF Given
  <2> QED
    BY <1>10, <2>1, <2>3, <2>4 DEF DivMmc!Drive!Give
<1> QED
  BY <1>11 DEF DivMmc!Drive!Next

(* A write begins without a byte.                                             *)
LEMMA MmcWrites ==
    ASSUME MmcInv(mmc'), mmc'.image = mmc.image, mmc'.phase = "write", mmc'.at = 0
    PROVE  DivMmc!Drive!Next
<1>1. PICK lba \in Nat : lba = mmc'.lba
  BY DEF MmcInv, MmcTypes
<1>2. DivMmc!Job' = [op |-> "write", at |-> <<lba>>, want |-> BlockSize, keep |-> TRUE,
                    bytes |-> SubSeq(DivMmc!BlockAt(mmc', lba), 1, 0)]
  BY <1>1, CardAssumption DEF DivMmc!Job
<1>3. DivMmc!Job'.op = "write" /\ DivMmc!Job'.bytes = <<>>
  BY <1>2, SubSeqEmpty
<1>4. DivMmc!Blocks(mmc.image)' = DivMmc!Blocks(mmc.image)
  BY DEF DivMmc!Blocks
<1> QED
  BY <1>3, <1>4 DEF DivMmc!Drive!Next, DivMmc!Drive!Begin, DivMmc!Drive!Writes

(* A byte that a card takes is on its medium, and no other byte changes.      *)
LEMMA MmcTakes ==
    ASSUME MmcInv(mmc), mmc.phase = "write", mmc.at < BlockSize,
           NEW byte \in 0 .. 255, mmc' = DivMmc!More(DivMmc!Write(mmc, byte))
    PROVE  DivMmc!Drive!Next
<1>1. PICK lba \in Nat, at \in Nat, image \in Seq(DivMmc!Block) :
          lba = mmc.lba /\ at = mmc.at /\ image = mmc.image
  BY DEF MmcInv, MmcTypes
<1>2. at < BlockSize
  BY <1>1
<1>3. PICK w : w = DivMmc!Write(mmc, byte)
  OBVIOUS
<1>4. PICK new : new = w.image
  OBVIOUS
<1>5. /\ MmcInv(w) /\ w.phase = "write" /\ w.at = at /\ w.lba = lba
      /\ new = IF lba + 1 \in DOMAIN image
               THEN [image EXCEPT ![lba + 1] = [image[lba + 1] EXCEPT ![at + 1] = byte]]
               ELSE image
  <2>1. mmc.at < BlockSize /\ MmcInv(mmc)
    OBVIOUS
  <2>2. /\ MmcInv(w) /\ w.phase = mmc.phase /\ w.at = mmc.at /\ w.lba = mmc.lba
        /\ w.image = IF mmc.lba + 1 \in DOMAIN mmc.image
                     THEN [mmc.image EXCEPT ![mmc.lba + 1] =
                             [mmc.image[mmc.lba + 1] EXCEPT ![mmc.at + 1] = byte]]
                     ELSE mmc.image
    <3>1. MmcWrote(mmc, byte, w)
      BY <1>3, <2>1, MmcWrite
    <3> QED
      BY <3>1 DEF MmcWrote
  <2> QED
    BY <1>1, <1>4, <2>2
<1>6. MmcShape(w) /\ new \in Seq(DivMmc!Block)
  BY <1>4, <1>5 DEF MmcInv, MmcTypes
<1>7. mmc'.phase = "write" /\ mmc'.at = at + 1 /\ mmc'.lba = lba /\ mmc'.image = new
  <2>1. mmc' = DivMmc!More(w)
    BY <1>3
  <2> QED
    BY <1>4, <1>5, <1>6, <2>1, MmcMore, ZenonT(30)
<1>8. PICK b, d : b = DivMmc!BlockAt(mmc, lba) /\ d = DivMmc!BlockAt(mmc', lba)
  OBVIOUS
<1>9. /\ b \in Seq(Nat) /\ Len(b) = BlockSize /\ b \in DivMmc!Block
      /\ d \in Seq(Nat) /\ Len(d) = BlockSize /\ d \in DivMmc!Block
  BY <1>1, <1>6, <1>7, <1>8, MmcBlockAt, Zenon
<1>10. DOMAIN new = DOMAIN image
  BY <1>5
<1>11. \A i \in 1 .. BlockSize : i # at + 1 => d[i] = b[i]
  <2>1. CASE lba + 1 \in DOMAIN image
    <3>1. b = image[lba + 1] /\ d = new[lba + 1]
      BY <1>1, <1>7, <1>8, <1>10, <2>1 DEF DivMmc!BlockAt, DivMmc!Has
    <3>2. d = [b EXCEPT ![at + 1] = byte]
      BY <1>5, <2>1, <3>1
    <3> QED
      BY <1>9, <3>2 DEF DivMmc!Block
  <2>2. CASE lba + 1 \notin DOMAIN image
    BY <1>1, <1>5, <1>7, <1>8, <2>2 DEF DivMmc!BlockAt, DivMmc!Has
  <2> QED
    BY <2>1, <2>2
<1>12. PICK s, t : s = SubSeq(b, 1, at) /\ t = SubSeq(d, 1, at + 1)
  BY Zenon
<1>13. DivMmc!Job = [op |-> "write", at |-> <<lba>>, want |-> BlockSize, keep |-> TRUE, bytes |-> s]
  BY <1>1, <1>2, <1>8, <1>12, CardAssumption DEF DivMmc!Job
<1>14. DivMmc!Job' = [op |-> "write", at |-> <<lba>>, want |-> BlockSize, keep |-> TRUE, bytes |-> t]
  <2>1. at + 1 =< BlockSize
    BY <1>1, <1>2, CardAssumption
  <2> QED
    BY <1>7, <1>8, <1>12, <2>1 DEF DivMmc!Job
<1>15. /\ t = Append(s, d[at + 1]) /\ Len(s) = at
       /\ Len(t) = at + 1 /\ t[at + 1] = d[at + 1] /\ \A i \in 1 .. at + 1 : t[i] = d[i]
  <2>1. at < Len(b) /\ \A i \in 1 .. at : d[i] = b[i]
    BY <1>1, <1>2, <1>9, <1>11, CardAssumption
  <2>2. t = Append(s, d[at + 1]) /\ Len(s) = at
    <3>1. Alike(b, d, at) /\ b \in Seq(Nat) /\ d \in Seq(Nat)
      BY <1>1, <1>9, <2>1 DEF Alike
    <3>2. OneMore(b, d, at)
      BY <1>1, <2>1, <3>1, SubSeqNext
    <3> QED
      BY <1>12, <3>2 DEF OneMore
  <2>3. Len(t) = at + 1 /\ \A i \in 1 .. at + 1 : t[i] = d[i]
    <3>1. ASSUME NEW i \in 1 .. at + 1
          PROVE  d[i] \in Nat
      <4>1. PICK l \in Nat : l = Len(d) /\ d \in Seq(Nat) /\ at < l
        BY <1>1, <1>9, <2>1
      <4>2. i \in 1 .. l
        BY <1>1, <4>1
      <4> QED
        BY <4>1, <4>2, ElementOfSeq
    <3> QED
      BY <1>1, <1>12, <3>1, SubSeqProperties
  <2> QED
    BY <1>1, <2>2, <2>3
<1>16. DivMmc!Blocks(mmc.image)' = DivMmc!Drive!Stored(t)
  <2>1. DivMmc!Job.at = <<lba>> /\ DivMmc!Job.keep = TRUE
    BY <1>13
  <2>2. DivMmc!Blocks(mmc.image)' = DivMmc!Blocks(new) /\ DivMmc!Blocks(mmc.image) = DivMmc!Blocks(image)
    BY <1>1, <1>7 DEF DivMmc!Blocks
  <2>3. CASE lba + 1 \notin DOMAIN image
    BY <1>1, <1>5, <2>1, <2>2, <2>3, MmcPlaces DEF DivMmc!Drive!Stored, DivMmc!Drive!On
  <2>4. CASE lba + 1 \in DOMAIN image
    <3>1. b = image[lba + 1] /\ d = new[lba + 1]
      BY <1>1, <1>7, <1>8, <1>10, <2>4 DEF DivMmc!BlockAt, DivMmc!Has
    <3>2. d = [i \in DOMAIN b |-> IF i =< Len(t) THEN t[i] ELSE b[i]]
      <4>1. DOMAIN b = 1 .. BlockSize /\ d = [i \in 1 .. BlockSize |-> d[i]]
        BY <1>9 DEF DivMmc!Block
      <4>2. \A i \in 1 .. BlockSize : d[i] = IF i =< Len(t) THEN t[i] ELSE b[i]
        BY <1>1, <1>11, <1>15, CardAssumption
      <4> QED
        BY <4>1, <4>2
    <3>3. PICK e : e = [i \in DOMAIN b |-> IF i =< Len(t) THEN t[i] ELSE b[i]]
      BY Zenon
    <3>4. DivMmc!Blocks(new) = [DivMmc!Blocks(image) EXCEPT ![<<lba>>] = d]
      <4>1. DOMAIN DivMmc!Blocks(new) = DOMAIN DivMmc!Blocks(image)
        BY <1>10 DEF DivMmc!Blocks
      <4>2. ASSUME NEW i \in DOMAIN image
            PROVE  DivMmc!Blocks(new)[<<i - 1>>] =
                      IF i = lba + 1 THEN d ELSE DivMmc!Blocks(image)[<<i - 1>>]
        <5>1. i \in Nat \ {0} /\ i - 1 \in Nat /\ (i - 1) + 1 = i
          BY <1>1
        <5>2. PICK k \in Nat : k = i - 1
          BY <5>1
        <5>3. k + 1 \in DOMAIN image /\ k + 1 = i
          BY <5>1, <5>2
        <5>4. DivMmc!Blocks(new)[<<k>>] = new[i] /\ DivMmc!Blocks(image)[<<k>>] = image[i]
          BY <1>1, <1>6, <1>10, <5>3, MmcPlaces
        <5>5. i # lba + 1 => new[i] = image[i]
          BY <1>5, <2>4, <4>2
        <5> QED
          BY <3>1, <5>2, <5>4, <5>5
      <4>3. \A i \in DOMAIN image : <<i - 1>> = <<lba>> <=> i = lba + 1
        BY <1>1
      <4>4. DOMAIN DivMmc!Blocks(image) = {<<i - 1>> : i \in DOMAIN image}
        BY DEF DivMmc!Blocks
      <4>5. PICK f, g : f = DivMmc!Blocks(new) /\ g = DivMmc!Blocks(image)
        OBVIOUS
      <4>6. f = [p \in DOMAIN f |-> f[p]] /\ g = [p \in DOMAIN g |-> g[p]]
        BY <4>5 DEF DivMmc!Blocks
      <4>7. \A p \in DOMAIN g : f[p] = IF p = <<lba>> THEN d ELSE g[p]
        BY <4>2, <4>3, <4>4, <4>5
      <4>8. f = [g EXCEPT ![<<lba>>] = d]
        BY <4>1, <4>5, <4>6, <4>7
      <4> QED
        BY <4>5, <4>8
    <3>5. DivMmc!Blocks(image)[<<lba>>] = b /\ <<lba>> \in DOMAIN DivMmc!Blocks(image)
      BY <1>1, <2>4, <3>1, MmcPlaces
    <3> QED
      BY <2>1, <2>2, <3>2, <3>4, <3>5, Zenon DEF DivMmc!Drive!Stored, DivMmc!Drive!On
  <2> QED
    BY <2>3, <2>4
<1>17. PICK j, k : j = DivMmc!Job /\ k = DivMmc!Job'
  OBVIOUS
<1>18. k = [j EXCEPT !.bytes = Append(@, d[at + 1])]
  <2>1. PICK v : v = d[at + 1]
    OBVIOUS
  <2>2. t = Append(s, v) => Taken(j, k, v)
    <3>1. PICK p, keep : p = <<lba>> /\ keep = TRUE
      BY Zenon
    <3>2. j = [op |-> "write", at |-> p, want |-> BlockSize, keep |-> keep, bytes |-> s]
      BY <1>13, <1>17, <3>1
    <3>3. k = [op |-> "write", at |-> p, want |-> BlockSize, keep |-> keep, bytes |-> t]
      BY <1>14, <1>17, <3>1
    <3> QED
      BY <3>2, <3>3, JobTaken, Zenon
  <2> QED
    BY <1>15, <2>1, <2>2 DEF Taken
<1>19. /\ j.op = "write" /\ j.want = BlockSize /\ j.bytes = s
       /\ k.op = "write" /\ k.bytes = t
  BY <1>13, <1>14, <1>17
<1>20. k = [j EXCEPT !.bytes = Append(@, k.bytes[Len(k.bytes)])]
  BY <1>15, <1>18, <1>19, ZenonT(30)
<1>21. Len(j.bytes) < j.want /\ Len(k.bytes) = Len(j.bytes) + 1
  BY <1>1, <1>2, <1>15, <1>19
<1>22. DivMmc!Drive!Take
  BY <1>16, <1>17, <1>19, <1>20, <1>21 DEF DivMmc!Drive!Take
<1> QED
  BY <1>22 DEF DivMmc!Drive!Next

(* What a card does to its medium and its transfers is a drive's step.       *)
LEMMA MmcRefines ==
    ASSUME MmcInv(mmc), DivMmc!Next
    PROVE  DivMmc!Drive!Next \/ UNCHANGED <<DivMmc!Blocks(mmc.image), DivMmc!Job>>
<1>1. /\ MmcInv(mmc') /\ MmcTypes(mmc) /\ MmcShape(mmc)
      /\ mmc.image \in Seq(DivMmc!Block) /\ mmc.at \in Nat
  BY MmcStep DEF MmcInv, MmcTypes
<1>2. mmc' = DivMmc!Idle(mmc) => mmc'.phase = "idle" /\ mmc'.image = mmc.image
  BY <1>1, MmcIdle
<1>3. \A ph : mmc' = DivMmc!Enter(mmc, ph) =>
                 mmc'.phase = ph /\ mmc'.at = 0 /\ mmc'.image = mmc.image
  BY <1>1, MmcEnter
<1>4. \A ph : mmc' = DivMmc!NextBlock(mmc, ph) => mmc'.phase = ph /\ mmc'.image = mmc.image
  <2>1. mmc.lba \in Nat
    BY <1>1 DEF MmcTypes
  <2> QED
    BY <1>1, <2>1, MmcNextBlock
<1>5. mmc' = DivMmc!More(mmc) =>
         mmc'.phase = mmc.phase /\ mmc'.at = mmc.at + 1 /\ mmc'.image = mmc.image
  BY <1>1, MmcMore
<1>6. mmc'.phase \notin {"read", "write"} /\ mmc'.image = mmc.image => DivMmc!Drive!Next
  BY MmcEnds DEF MmcQuiet
<1>7. CASE \E cmd \in DivMmc!Commands : DivMmc!StartCommand(cmd)
  <2>1. PICK e : e = DivMmc!Enter(mmc, "arg")
    OBVIOUS
  <2>2. MmcShape(e) /\ e.phase = "arg" /\ e.image = mmc.image
    BY <1>1, <2>1, MmcEnter
  <2>3. PICK cmd : mmc' = [e EXCEPT !.cmd = cmd, !.lba = 0]
    BY <1>7, <2>1, Zenon DEF DivMmc!StartCommand
  <2>4. mmc'.phase = "arg" /\ mmc'.image = mmc.image
    BY <2>2, <2>3 DEF MmcShape
  <2> QED
    BY <1>6, <2>4
<1>8. CASE DivMmc!TakeArgument
  <2>1. mmc.phase = "arg"
    BY <1>8 DEF DivMmc!TakeArgument, DivMmc!Exchange
  <2>2. mmc' = DivMmc!More(mmc) \/ mmc' = DivMmc!Enter(mmc, "wait")
    BY <1>8 DEF DivMmc!TakeArgument
  <2> QED
    BY <1>3, <1>5, <1>6, <2>1, <2>2
<1>9. CASE DivMmc!Answer
  <2>1. mmc.phase = "wait" /\ Addresses \subseteq Nat
    BY <1>9, CardAssumption DEF DivMmc!Answer, DivMmc!Exchange
  <2>2. \/ mmc' = DivMmc!More(mmc)
        \/ /\ mmc'.phase \in {"idle", "extra", "busy", "token", "writeToken"}
           /\ mmc'.image = mmc.image
    BY <1>9, <2>1, MmcRespond DEF DivMmc!Answer, MmcAnswered
  <2> QED
    BY <1>5, <1>6, <2>1, <2>2
<1>10. CASE DivMmc!SendExtra
  <2>1. mmc.phase = "extra"
    BY <1>10 DEF DivMmc!SendExtra, DivMmc!Exchange
  <2>2. mmc' = DivMmc!More(mmc) \/ mmc' = DivMmc!Idle(mmc)
    BY <1>10 DEF DivMmc!SendExtra
  <2> QED
    BY <1>2, <1>5, <1>6, <2>1, <2>2
<1>11. CASE DivMmc!SendToken
  <2>1. mmc.phase = "token"
    BY <1>11 DEF DivMmc!SendToken, DivMmc!Exchange
  <2>2. mmc' = DivMmc!More(mmc) \/ mmc' = DivMmc!Enter(mmc, "read")
    BY <1>11 DEF DivMmc!SendToken
  <2>3. mmc' = DivMmc!Enter(mmc, "read") => DivMmc!Drive!Next
    BY <1>1, <1>3, MmcReads
  <2> QED
    BY <1>5, <1>6, <2>1, <2>2, <2>3
<1>12. CASE DivMmc!SendByte
  <2>1. mmc.phase = "read"
    BY <1>12 DEF DivMmc!SendByte, DivMmc!Exchange
  <2>2. CASE mmc.at + 1 < BlockSize
    <3>1. mmc' = DivMmc!More(mmc)
      BY <1>1, <1>12, <2>2, CardAssumption DEF DivMmc!SendByte
    <3> QED
      BY <2>1, <2>2, <3>1, MmcGives
  <2>3. CASE ~(mmc.at + 1 < BlockSize)
    <3>1. \/ mmc' = DivMmc!More(mmc) \/ mmc' = DivMmc!NextBlock(mmc, "token")
          \/ mmc' = DivMmc!Idle(mmc)
      BY <1>12 DEF DivMmc!SendByte
    <3>2. mmc' = DivMmc!More(mmc) => MmcQuiet(mmc') /\ mmc'.image = mmc.image
      BY <1>1, <1>5, <2>1, <2>3, CardAssumption DEF MmcQuiet
    <3> QED
      BY <1>2, <1>4, <1>6, <3>1, <3>2, MmcEnds
  <2> QED
    BY <2>2, <2>3
<1>13. CASE \E token \in {"single", "multi", "stop"} : DivMmc!TakeToken(token)
  <2>1. mmc' = DivMmc!Idle(mmc) \/ mmc' = DivMmc!Enter(mmc, "write")
    BY <1>13 DEF DivMmc!TakeToken
  <2>2. mmc' = DivMmc!Enter(mmc, "write") => DivMmc!Drive!Next
    BY <1>1, <1>3, MmcWrites
  <2> QED
    BY <1>2, <1>6, <2>1, <2>2
<1>14. CASE \E byte \in CardBytes : DivMmc!TakeByte(byte)
  <2>1. PICK byte \in 0 .. 255 : DivMmc!TakeByte(byte)
    BY <1>14, CardAssumption, Zenon
  <2>2. mmc.phase = "write"
    BY <2>1 DEF DivMmc!TakeByte, DivMmc!Exchange
  <2>3. CASE mmc.at < BlockSize
    <3>1. mmc' = DivMmc!More(DivMmc!Write(mmc, byte))
      BY <2>1, <2>3 DEF DivMmc!TakeByte
    <3> QED
      BY <2>2, <2>3, <3>1, MmcTakes
  <2>4. CASE ~(mmc.at < BlockSize)
    <3>1. mmc' = DivMmc!More(mmc) \/ mmc' = DivMmc!Enter(mmc, "busy")
      BY <2>1, <2>4 DEF DivMmc!TakeByte
    <3>2. mmc' = DivMmc!More(mmc) => MmcQuiet(mmc') /\ mmc'.image = mmc.image
      BY <1>1, <1>5, <2>2, <2>4, CardAssumption DEF MmcQuiet
    <3> QED
      BY <1>3, <1>6, <3>1, <3>2, MmcEnds
  <2> QED
    BY <2>3, <2>4
<1>15. CASE DivMmc!Busy
  <2>1. mmc.phase = "busy"
    BY <1>15 DEF DivMmc!Busy, DivMmc!Exchange
  <2>2. \/ mmc' = DivMmc!More(mmc) \/ mmc' = DivMmc!NextBlock(mmc, "writeToken")
        \/ mmc' = DivMmc!Idle(mmc)
    BY <1>15 DEF DivMmc!Busy
  <2> QED
    BY <1>2, <1>4, <1>5, <1>6, <2>1, <2>2
<1>16. CASE \E own, other \in BOOLEAN : DivMmc!OutSelect(own, other)
  <2>1. PICK own, other : DivMmc!OutSelect(own, other)
    BY <1>16
  <2>2. PICK c : c = [mmc EXCEPT !.own = own, !.other = other]
    OBVIOUS
  <2>3. /\ MmcShape(c) /\ c.phase = mmc.phase /\ c.at = mmc.at /\ c.lba = mmc.lba
        /\ c.image = mmc.image
    BY <1>1, <2>2, Zenon DEF MmcShape
  <2>4. mmc' = DivMmc!Idle(c) \/ mmc' = c
    BY <2>1, <2>2 DEF DivMmc!OutSelect
  <2>5. CASE mmc' = DivMmc!Idle(c)
    <3>1. mmc'.phase = "idle" /\ mmc'.image = mmc.image
      BY <2>3, <2>5, MmcIdle
    <3> QED
      BY <1>6, <3>1
  <2>6. CASE mmc' = c
    <3>1. /\ mmc'.phase = mmc.phase /\ mmc'.at = mmc.at /\ mmc'.lba = mmc.lba
          /\ mmc'.image = mmc.image
      BY <2>3, <2>6
    <3> QED
      BY <3>1 DEF DivMmc!Job, DivMmc!Blocks, DivMmc!BlockAt, DivMmc!Has
  <2> QED
    BY <2>4, <2>5, <2>6
<1>17. CASE \E image \in MmcImages : DivMmc!Attach(image)
  <2>1. PICK image \in MmcImages : DivMmc!Attach(image)
    BY <1>17
  <2>2. PICK c : c = DivMmc!SoftReset(mmc)
    OBVIOUS
  <2>3. MmcShape(c) /\ c.phase = "idle"
    BY <1>1, <2>2, MmcSoftReset DEF MmcInv, MmcTypes
  <2>4. mmc' = [c EXCEPT !.image = image]
    BY <2>1, <2>2 DEF DivMmc!Attach
  <2>5. mmc'.phase = "idle" /\ mmc'.image = image
    BY <2>3, <2>4 DEF MmcShape
  <2>6. DivMmc!Job' = [op |-> "none"]
    BY <2>5 DEF DivMmc!Job
  <2>7. DivMmc!Blocks(mmc.image)' \in DivMmc!Media
    BY <2>5 DEF DivMmc!Media, DivMmc!Blocks
  <2> QED
    BY <2>6, <2>7 DEF DivMmc!Drive!Next, DivMmc!Drive!Insert, DivMmc!Drive!NoJob
<1>18. CASE DivMmc!ResetSoft
  <2>1. PICK c : c = DivMmc!Idle(mmc)
    OBVIOUS
  <2>2. MmcShape(c) /\ c.phase = "idle" /\ c.image = mmc.image
    BY <1>1, <2>1, MmcIdle
  <2>3. mmc' = [c EXCEPT !.own = FALSE, !.other = FALSE]
    BY <1>18, <2>1 DEF DivMmc!ResetSoft
  <2>4. mmc'.phase = "idle" /\ mmc'.image = mmc.image
    BY <2>2, <2>3 DEF MmcShape
  <2> QED
    BY <1>6, <2>4
<1> QED
  BY <1>7, <1>8, <1>9, <1>10, <1>11, <1>12, <1>13, <1>14, <1>15, <1>16, <1>17, <1>18
     DEF DivMmc!Next, DivMmc!Serve

(* At first the card is a drive at rest.                                      *)
LEMMA MmcStarts ==
    ASSUME DivMmc!Init
    PROVE  DivMmc!Drive!Init
<1>1. PICK image \in MmcImages : mmc = DivMmc!NewCard(image)
  BY DEF DivMmc!Init
<1>2. mmc.image = image /\ mmc.phase = "idle"
  BY <1>1 DEF DivMmc!NewCard
<1>3. DivMmc!Blocks(mmc.image) \in DivMmc!Media
  BY <1>2 DEF DivMmc!Media
<1> QED
  BY <1>2, <1>3 DEF DivMmc!Drive!Init, DivMmc!Drive!NoJob, DivMmc!Job

-----------------------------------------------------------------------------
(* The card of the Next: its buffer and the bytes that are left.             *)

SdShape(c) ==
    c = [image |-> c.image, selected |-> c.selected, idle |-> c.idle,
         app |-> c.app, highCapacity |-> c.highCapacity, phase |-> c.phase,
         left |-> c.left, cmd |-> c.cmd, lba |-> c.lba, buffer |-> c.buffer]

SdTypes(c) ==
    /\ SdShape(c)
    /\ c.image \in Seq(NextSd!Block) /\ c.buffer \in Seq(0 .. 255)
    /\ c.selected \in BOOLEAN /\ c.idle \in BOOLEAN
    /\ c.app \in BOOLEAN /\ c.highCapacity \in BOOLEAN
    /\ c.left \in Nat /\ c.lba \in Nat /\ c.cmd \in NextSd!Commands
    /\ c.phase \in {"idle", "stop", "stopArg", "busy", "write", "writeToken", "read",
                    "readToken", "register", "status", "extra", "wait", "arg"}

SdOK(c) ==
    /\ NextSd!StatusOK(c)
    /\ c.phase \in {"readToken", "read"} => c.cmd \in {17, 18}
    /\ c.phase \in {"writeToken", "write", "busy"} => c.cmd \in {24, 25}
    /\ c.phase \notin {"read", "write"} => c.buffer = <<>>
    /\ c.phase = "read" => c.left =< BlockSize + 1
    /\ c.phase = "write" =>
          IF Len(c.buffer) < BlockSize THEN c.left + Len(c.buffer) = BlockSize + 1
          ELSE c.left =< 1

SdInv(c) == SdTypes(c) /\ SdOK(c)

SdSame(c, d) ==
    /\ d.image = c.image /\ d.selected = c.selected /\ d.idle = c.idle
    /\ d.app = c.app /\ d.highCapacity = c.highCapacity

(* What the card of the Next needs of its constants.                          *)
LEMMA SdAssumption ==
    /\ BlockSize \in Nat \ {0} /\ ArgumentBytes \in Nat \ {0}
    /\ RegisterBytes \in Nat \ {0} /\ StopDelay \in Nat
    /\ LastBlock \in Nat /\ Addresses \subseteq Nat
    /\ SdImages \subseteq Seq(NextSd!Block)
    /\ CardBytes \subseteq 0 .. 255
  BY PeripheralsAssumption DEF NextSd!SdConstants

(* The fields after each of the card's bookkeeping operators.                 *)
LEMMA SdEnter ==
    ASSUME NEW c, SdShape(c), NEW ph, NEW n, NEW d, d = NextSd!Enter(c, ph, n)
    PROVE  /\ SdShape(d) /\ SdSame(c, d) /\ d.phase = ph /\ d.left = n
           /\ d.cmd = c.cmd /\ d.lba = c.lba /\ d.buffer = c.buffer
  BY Zenon DEF SdShape, SdSame, NextSd!Enter

LEMMA SdIdle ==
    ASSUME NEW c, SdShape(c), NEW d, d = NextSd!Idle(c)
    PROVE  /\ SdShape(d) /\ SdSame(c, d) /\ d.phase = "idle" /\ d.left = 0
           /\ d.cmd = 0 /\ d.lba = 0 /\ d.buffer = <<>>
  BY Zenon DEF SdShape, SdSame, NextSd!Idle, NextSd!Enter

LEMMA SdLess ==
    ASSUME NEW c, SdShape(c), NEW d, d = NextSd!Less(c)
    PROVE  /\ SdShape(d) /\ SdSame(c, d) /\ d.phase = c.phase /\ d.left = c.left - 1
           /\ d.cmd = c.cmd /\ d.lba = c.lba /\ d.buffer = c.buffer
  BY DEF SdShape, SdSame, NextSd!Less

(* The fields a card's bookkeeping sets.                                      *)
LEMMA SdPlace ==
    ASSUME NEW c, SdShape(c), NEW p, NEW b, NEW d, d = [c EXCEPT !.lba = p, !.buffer = b]
    PROVE  /\ SdShape(d) /\ SdSame(c, d) /\ d.phase = c.phase /\ d.left = c.left
           /\ d.cmd = c.cmd /\ d.lba = p /\ d.buffer = b
  BY Zenon DEF SdShape, SdSame

(* Which blocks there are depends on the image only.                          *)
LEMMA SdHas ==
    ASSUME NEW c, NEW d, SdSame(c, d), NEW lba
    PROVE  NextSd!Has(d, lba) <=> NextSd!Has(c, lba)
  BY DEF SdSame, NextSd!Has

(* Which steps between phases keep the invariant.                            *)
LEMMA SdKeeps ==
    ASSUME NEW c, SdTypes(c), NEW d, SdShape(d), SdSame(c, d),
           d.phase \in {"idle", "stop", "stopArg", "busy", "write", "writeToken", "read",
                        "readToken", "register", "status", "extra", "wait", "arg"},
           d.left \in Nat, d.lba \in Nat, d.cmd \in NextSd!Commands,
           d.buffer \in Seq(0 .. 255)
    PROVE  SdTypes(d)
  BY DEF SdTypes, SdSame

(* Going idle, and a byte less to go, keep the invariant.                     *)
LEMMA SdIdleKeeps ==
    ASSUME NEW c, SdTypes(c), NEW d, d = NextSd!Idle(c)
    PROVE  SdInv(d)
<1>1. SdShape(c)
  BY DEF SdTypes
<1>2. /\ SdShape(d) /\ SdSame(c, d) /\ d.phase = "idle" /\ d.left = 0
      /\ d.cmd = 0 /\ d.lba = 0 /\ d.buffer = <<>>
  BY <1>1, SdIdle
<1>3. 0 \in NextSd!Commands
  BY DEF NextSd!Commands
<1>4. SdTypes(d)
  <2>1. d.left \in Nat /\ d.lba \in Nat /\ d.cmd \in NextSd!Commands /\ d.buffer \in Seq(0 .. 255)
    BY <1>2, <1>3
  <2> QED
    BY <1>2, <2>1, SdKeeps, Zenon
<1>5. SdOK(d)
  BY <1>2 DEF SdOK, NextSd!StatusOK
<1> QED
  BY <1>4, <1>5 DEF SdInv

(* The phases in which no block is under way.                                *)
LEMMA SdEnterKeeps ==
    ASSUME NEW c, SdTypes(c), c.selected, c.buffer = <<>>, NEW n \in Nat,
           NEW ph, ph \in {"stop", "stopArg", "register", "status", "extra", "wait", "arg"},
           NEW d, d = NextSd!Enter(c, ph, n)
    PROVE  SdInv(d) /\ d.phase = ph /\ d.image = c.image
<1>1. SdShape(c)
  BY DEF SdTypes
<1>2. /\ SdShape(d) /\ SdSame(c, d) /\ d.phase = ph /\ d.left = n
      /\ d.cmd = c.cmd /\ d.lba = c.lba /\ d.buffer = c.buffer
  BY <1>1, SdEnter
<1>3. SdTypes(d)
  <2>1. d.left \in Nat /\ d.lba \in Nat /\ d.cmd \in NextSd!Commands /\ d.buffer \in Seq(0 .. 255)
    BY <1>2 DEF SdTypes
  <2> QED
    BY <1>2, <2>1, SdKeeps, ZenonT(30)
<1>4. SdOK(d)
  BY <1>2 DEF SdOK, NextSd!StatusOK, SdSame
<1> QED
  BY <1>2, <1>3, <1>4 DEF SdInv, SdSame

LEMMA SdLessKeeps ==
    ASSUME NEW c, SdInv(c), c.left > 0, c.phase # "write" \/ Len(c.buffer) = BlockSize,
           NEW d, d = NextSd!Less(c)
    PROVE  SdInv(d)
<1>1. SdShape(c) /\ SdTypes(c)
  BY DEF SdInv, SdTypes
<1>2. /\ SdShape(d) /\ SdSame(c, d) /\ d.phase = c.phase /\ d.left = c.left - 1
      /\ d.cmd = c.cmd /\ d.lba = c.lba /\ d.buffer = c.buffer
  BY <1>1, SdLess
<1>3. SdTypes(d)
  <2>1. d.left \in Nat
    BY <1>1, <1>2 DEF SdTypes
  <2> QED
    BY <1>1, <1>2, <2>1, SdKeeps DEF SdTypes
<1>4. NextSd!Has(d, d.lba) <=> NextSd!Has(c, c.lba)
  BY <1>2, SdHas
<1>5. SdOK(d)
  <2>1. NextSd!StatusOK(d)
    BY <1>1, <1>2, <1>3, <1>4 DEF SdInv, SdTypes, SdOK, NextSd!StatusOK, SdSame
  <2>2. d.phase = "write" => Len(d.buffer) = BlockSize /\ d.left =< 1
    BY <1>1, <1>2, SdAssumption DEF SdInv, SdTypes, SdOK
  <2>3. d.phase = "read" => d.left =< BlockSize + 1
    BY <1>1, <1>2, SdAssumption DEF SdInv, SdTypes, SdOK
  <2> QED
    BY <1>2, <2>1, <2>2, <2>3, SdAssumption DEF SdInv, SdOK
<1> QED
  BY <1>3, <1>5 DEF SdInv

SdAlike(c, d) ==
    /\ d.image = c.image /\ d.selected = c.selected /\ d.phase = c.phase
    /\ d.left = c.left /\ d.cmd = c.cmd /\ d.lba = c.lba /\ d.buffer = c.buffer

SdFlagged(c, hcs, d) ==
    \/ d = [c EXCEPT !.app = FALSE] \/ d = [c EXCEPT !.app = TRUE]
    \/ d = [c EXCEPT !.idle = FALSE, !.highCapacity = hcs]
    \/ d = [c EXCEPT !.idle = TRUE, !.highCapacity = FALSE]

(* Flags that a response sets.                                                *)
LEMMA SdFlags ==
    ASSUME NEW c, SdShape(c), NEW hcs, NEW d,
           SdFlagged(c, hcs, d)
    PROVE  /\ SdShape(d) /\ SdAlike(c, d)
           /\ d.app \in {c.app, TRUE, FALSE} /\ d.highCapacity \in {c.highCapacity, hcs, FALSE}
           /\ d.idle \in {c.idle, TRUE, FALSE}
<1>1. CASE d = [c EXCEPT !.app = FALSE]
  BY <1>1, Zenon DEF SdShape, SdAlike
<1>2. CASE d = [c EXCEPT !.app = TRUE]
  BY <1>2, Zenon DEF SdShape, SdAlike
<1>3. CASE d = [c EXCEPT !.idle = FALSE, !.highCapacity = hcs]
  BY <1>3, Zenon DEF SdShape, SdAlike
<1>4. CASE d = [c EXCEPT !.idle = TRUE, !.highCapacity = FALSE]
  BY <1>4, Zenon DEF SdShape, SdAlike
<1> QED
  BY <1>1, <1>2, <1>3, <1>4, Zenon DEF SdFlagged

LEMMA SdFlagsKeep ==
    ASSUME NEW c, SdInv(c), c.phase \in {"idle", "wait"},
           NEW hcs \in BOOLEAN, NEW d,
           SdFlagged(c, hcs, d)
    PROVE  SdInv(d) /\ d.phase = c.phase /\ d.image = c.image
<1>1. SdShape(c)
  BY DEF SdInv, SdTypes
<1>2. /\ SdShape(d) /\ SdAlike(c, d)
      /\ d.app \in {c.app, TRUE, FALSE} /\ d.highCapacity \in {c.highCapacity, hcs, FALSE}
      /\ d.idle \in {c.idle, TRUE, FALSE}
  BY <1>1, SdFlags, Zenon
<1>3. SdTypes(d)
  <2>1. d.app \in BOOLEAN /\ d.highCapacity \in BOOLEAN /\ d.idle \in BOOLEAN
    BY <1>2, Zenon DEF SdInv, SdTypes
  <2> QED
    BY <1>2, <2>1 DEF SdInv, SdTypes, SdAlike
<1>4. SdOK(d)
  BY <1>2 DEF SdInv, SdOK, NextSd!StatusOK, SdAlike
<1> QED
  BY <1>2, <1>3, <1>4 DEF SdInv, SdAlike

SdAnswered(c, d) ==
    /\ SdInv(d) /\ d.image = c.image
    /\ d.phase \in {"idle", "extra", "stop", "status", "register", "readToken", "writeToken"}

(* A transfer begins only at a block that the image has.                     *)
LEMMA SdStart ==
    ASSUME NEW e, SdTypes(e), e.selected, ~e.idle, e.buffer = <<>>,
           e.cmd \in {17, 18, 24, 25},
           NEW lba \in Nat, NEW d, d = NextSd!StartTransfer(e, lba)
    PROVE  SdAnswered(e, d)
<1>1. SdShape(e) /\ SdTypes(e)
  BY DEF SdTypes
<1>2. CASE ~NextSd!Has(e, lba)
  <2>1. d = NextSd!Idle(e)
    BY <1>2 DEF NextSd!StartTransfer
  <2>2. d.phase = "idle" /\ SdSame(e, d)
    BY <1>1, <2>1, SdIdle
  <2>3. SdInv(d)
    BY <2>1, SdIdleKeeps
  <2> QED
    BY <2>2, <2>3 DEF SdAnswered, SdSame
<1>3. CASE NextSd!Has(e, lba)
  <2>1. PICK ph, n, x : /\ x = NextSd!Enter(e, ph, n) /\ n \in {0, 1}
                        /\ IF e.cmd \in {17, 18} THEN ph = "readToken" ELSE ph = "writeToken"
                        /\ d = [x EXCEPT !.lba = lba]
    BY <1>3 DEF NextSd!StartTransfer
  <2>2. SdShape(x) /\ SdSame(e, x)
    BY <1>1, <2>1, SdEnter
  <2>3. x.phase = ph /\ x.left = n /\ x.cmd = e.cmd /\ x.buffer = e.buffer
    BY <1>1, <2>1, SdEnter
  <2>4. /\ SdShape(d) /\ SdSame(x, d) /\ d.phase = ph /\ d.left = n
        /\ d.cmd = e.cmd /\ d.lba = lba /\ d.buffer = <<>>
    BY <2>1, <2>2, <2>3, Zenon DEF SdShape, SdSame
  <2>5. SdSame(e, d)
    BY <2>2, <2>4 DEF SdSame
  <2>6. SdTypes(d)
    <3>1. d.left \in Nat /\ d.lba \in Nat /\ d.buffer \in Seq(0 .. 255)
      <4>1. n \in Nat
        BY <2>1
      <4> QED
        BY <2>4, <4>1
    <3>3. d.cmd \in NextSd!Commands
      BY <1>1, <2>4 DEF SdTypes
    <3>2. ph \in {"readToken", "writeToken"}
      BY <2>1
    <3> QED
      BY <2>4, <2>5, <3>1, <3>2, <3>3, SdKeeps, Zenon
  <2>7. NextSd!Has(d, d.lba)
    BY <1>3, <2>4, <2>5, SdHas
  <2>8. SdOK(d)
    BY <2>1, <2>4, <2>5, <2>6, <2>7, Zenon DEF SdOK, NextSd!StatusOK, SdSame, SdTypes
  <2> QED
    BY <2>1, <2>4, <2>5, <2>6, <2>8 DEF SdInv, SdAnswered, SdSame
<1> QED
  BY <1>2, <1>3

(* The response to a command leaves the card in order.                        *)
LEMMA SdRespond ==
    ASSUME NEW c, SdInv(c), c.phase = "wait", NEW arg \in Nat, NEW hcs \in BOOLEAN,
           NEW d, d = NextSd!Respond(c, arg, hcs)
    PROVE  SdAnswered(c, d)
<1>1. PICK e : e = [c EXCEPT !.app = FALSE]
  BY Zenon
<1>16. SdFlagged(c, hcs, e)
  BY <1>1 DEF SdFlagged
<1>2. SdInv(e) /\ e.phase = "wait" /\ e.image = c.image
  BY <1>16, SdFlagsKeep
<1>3. SdShape(c) /\ SdTypes(c)
  BY DEF SdInv, SdTypes
<1>4. SdTypes(e) /\ SdShape(e) /\ e.selected /\ e.buffer = <<>> /\ e.cmd = c.cmd
  <2>1. SdAlike(c, e)
    BY <1>16, <1>3, SdFlags, Zenon
  <2> QED
    BY <1>2, <2>1 DEF SdInv, SdTypes, SdOK, NextSd!StatusOK, SdAlike
<1>5. ~c.idle => ~e.idle
  BY <1>1, <1>3 DEF SdShape
<1>6. PICK i : i = NextSd!Idle(e)
  OBVIOUS
<1>7. SdInv(i) /\ i.phase = "idle" /\ i.image = c.image
  <2>1. SdShape(e) /\ SdTypes(e)
    BY <1>4
  <2>2. SdSame(e, i) /\ i.phase = "idle"
    BY <1>6, <2>1, SdIdle
  <2>3. SdInv(i)
    BY <1>6, <2>1, SdIdleKeeps
  <2> QED
    BY <1>2, <2>2, <2>3 DEF SdSame
<1>8. SdAnswered(c, i)
  BY <1>7 DEF SdAnswered
<1>9. SdFlagged(i, hcs, d) => SdAnswered(c, d)
  <2>1. ASSUME SdFlagged(i, hcs, d)
        PROVE  SdAnswered(c, d)
    <3>1. SdInv(d) /\ d.phase = i.phase /\ d.image = i.image
      BY <1>7, <2>1, SdFlagsKeep
    <3> QED
      BY <1>7, <3>1 DEF SdAnswered
  <2> QED
    BY <2>1
<1>10. ASSUME NEW ph, ph \in {"extra", "stop", "status", "register"}, NEW n \in Nat,
              d = NextSd!Enter(e, ph, n)
       PROVE  SdAnswered(c, d)
  BY <1>2, <1>4, <1>10, SdEnterKeeps DEF SdAnswered
<1>11. ~c.idle /\ c.cmd \in {17, 18, 24, 25}
          /\ d = NextSd!StartTransfer(e, NextSd!Address(c, arg)) => SdAnswered(c, d)
  <2>1. ASSUME ~c.idle, c.cmd \in {17, 18, 24, 25},
               NEW lba, lba = NextSd!Address(c, arg), d = NextSd!StartTransfer(e, lba)
        PROVE  SdAnswered(c, d)
    <3>1. lba \in Nat
      <4>1. arg \div BlockSize \in Nat
        BY SdAssumption
      <4> QED
        BY <2>1, <4>1 DEF NextSd!Address
    <3>2. SdAnswered(e, d)
      BY <1>4, <1>5, <2>1, <3>1, SdStart
    <3> QED
      BY <1>2, <3>2 DEF SdAnswered
  <2> QED
    BY <2>1
<1>12. /\ c.cmd = 41 /\ c.app => d = [i EXCEPT !.idle = FALSE, !.highCapacity = hcs]
       /\ c.cmd = 41 /\ ~c.app => d = i
       /\ c.cmd = 0 => d = [i EXCEPT !.idle = TRUE, !.highCapacity = FALSE]
       /\ c.cmd = 55 => d = [i EXCEPT !.app = TRUE]
  BY <1>1, <1>6 DEF NextSd!Respond
<1>13. /\ c.cmd \in {8, 58} => d = NextSd!Enter(e, "extra", 3)
       /\ c.cmd \in {16, 63} => d = i
       /\ c.cmd = 12 => d = IF c.idle THEN i ELSE NextSd!Enter(e, "stop", 1)
       /\ c.cmd = 13 => d = IF c.idle THEN i ELSE NextSd!Enter(e, "status", 0)
       /\ c.cmd = 9 => d = IF c.idle THEN i ELSE NextSd!Enter(e, "register", RegisterBytes)
  BY <1>1, <1>6 DEF NextSd!Respond
<1>14. c.cmd \in {17, 18, 24, 25} =>
          d = IF c.idle THEN i ELSE NextSd!StartTransfer(e, NextSd!Address(c, arg))
  BY <1>1, <1>6 DEF NextSd!Respond
<1>15. c.cmd \in {41, 0, 55} => SdAnswered(c, d)
  <2>1. c.app \in BOOLEAN
    BY <1>3 DEF SdTypes
  <2>2. c.cmd = 41 => SdAnswered(c, d)
    <3>1. CASE c.app
      BY <1>9, <1>12, <3>1 DEF SdFlagged
    <3>2. CASE ~c.app
      BY <1>8, <1>12, <3>2
    <3> QED
      BY <3>1, <3>2
  <2> QED
    BY <1>9, <1>12, <2>2 DEF SdFlagged
<1>18. c.cmd \in {8, 58, 16, 63, 12, 13, 9} => SdAnswered(c, d)
  <2>1. RegisterBytes \in Nat
    BY SdAssumption
  <2> QED
    BY <1>8, <1>10, <1>13, <2>1
<1>17. c.cmd \in {17, 18, 24, 25} => SdAnswered(c, d)
  BY <1>8, <1>11, <1>14
<1> QED
  BY <1>3, <1>15, <1>18, <1>17 DEF SdTypes, NextSd!Commands

(* A block is a sequence of bytes.                                            *)
LEMMA BytesAreBytes ==
    ASSUME NEW n \in Nat, NEW b \in [1 .. n -> 0 .. 255]
    PROVE  b \in Seq(0 .. 255) /\ Len(b) = n
  OBVIOUS

(* A token for a block puts that block in the buffer.                         *)
LEMMA SdReadBlock ==
    ASSUME NEW c, SdInv(c), c.phase = "readToken", NEW d, d = NextSd!ReadBlock(c)
    PROVE  /\ SdInv(d) /\ d.image = c.image /\ d.phase \in {"read", "idle"}
           /\ d.phase = "read" =>
                 /\ c.lba + 1 \in DOMAIN c.image
                 /\ d.buffer = c.image[c.lba + 1] /\ d.buffer \in NextSd!Block
                 /\ d.left = BlockSize + 1 /\ d.lba = c.lba
<1>1. SdShape(c) /\ SdTypes(c) /\ c.selected /\ ~c.idle /\ c.cmd \in {17, 18}
  BY DEF SdInv, SdTypes, SdOK, NextSd!StatusOK
<1>2. CASE ~NextSd!Has(c, c.lba)
  <2>1. d = NextSd!Idle(c)
    BY <1>2 DEF NextSd!ReadBlock
  <2>2. d.phase = "idle" /\ SdSame(c, d)
    BY <1>1, <2>1, SdIdle
  <2> QED
    BY <1>1, <2>1, <2>2, SdIdleKeeps DEF SdSame
<1>3. CASE NextSd!Has(c, c.lba)
  <2>1. PICK x, b : x = NextSd!Enter(c, "read", BlockSize + 1) /\ b = c.image[c.lba + 1]
    OBVIOUS
  <2>2. d = [x EXCEPT !.buffer = b]
    BY <1>3, <2>1 DEF NextSd!ReadBlock
  <2>3. SdShape(x) /\ SdSame(c, x) /\ x.phase = "read" /\ x.left = BlockSize + 1
    BY <1>1, <2>1, SdEnter
  <2>4. x.cmd = c.cmd /\ x.lba = c.lba
    BY <1>1, <2>1, SdEnter
  <2>5. /\ SdShape(d) /\ SdSame(c, d) /\ d.phase = "read" /\ d.left = BlockSize + 1
        /\ d.cmd = c.cmd /\ d.lba = c.lba /\ d.buffer = b
    BY <2>2, <2>3, <2>4 DEF SdShape, SdSame
  <2>6. b \in NextSd!Block /\ c.lba + 1 \in DOMAIN c.image
    BY <1>1, <1>3, <2>1 DEF SdTypes, NextSd!Has
  <2>7. b \in Seq(0 .. 255) /\ Len(b) = BlockSize
    BY <2>6, SdAssumption, BytesAreBytes, Zenon DEF NextSd!Block
  <2>8. SdTypes(d)
    <3>1. d.left \in Nat /\ d.lba \in Nat /\ d.cmd \in NextSd!Commands
      BY <1>1, <2>5, SdAssumption DEF SdTypes
    <3> QED
      BY <1>1, <2>5, <2>7, <3>1, SdKeeps
  <2>9. NextSd!Has(d, d.lba)
    BY <1>3, <2>5, SdHas
  <2>10. SdOK(d)
    BY <1>1, <2>5, <2>7, <2>8, <2>9 DEF SdOK, NextSd!StatusOK, SdSame, SdTypes
  <2> QED
    BY <2>1, <2>5, <2>6, <2>8, <2>10 DEF SdInv, SdSame
<1> QED
  BY <1>2, <1>3

SdMovesOn(c, ph, lba, d) ==
    d = [NextSd!Enter(c, ph, 0) EXCEPT !.lba = lba, !.buffer = <<>>]

(* The block after the one that was read or written.                         *)
LEMMA SdNextBlock ==
    ASSUME NEW c, SdTypes(c), c.selected, ~c.idle,
           NEW ph, NEW lba \in Nat,
           \/ ph = "readToken" /\ c.cmd = 18
           \/ ph = "writeToken" /\ c.cmd = 25,
           NEW d, SdMovesOn(c, ph, lba, d)
    PROVE  SdInv(d) /\ d.phase = ph /\ d.image = c.image
<1>1. SdShape(c)
  BY DEF SdTypes
<1>6. PICK x : x = NextSd!Enter(c, ph, 0)
  OBVIOUS
<1>7. d = [x EXCEPT !.lba = lba, !.buffer = <<>>]
  BY <1>6 DEF SdMovesOn
<1>2. SdShape(x) /\ SdSame(c, x) /\ x.phase = ph /\ x.left = 0 /\ x.cmd = c.cmd
  BY <1>1, <1>6, SdEnter
<1>3. /\ SdShape(d) /\ SdSame(c, d) /\ d.phase = ph /\ d.left = 0
      /\ d.cmd = c.cmd /\ d.lba = lba /\ d.buffer = <<>>
  BY <1>2, <1>7, Zenon DEF SdShape, SdSame
<1>4. SdTypes(d)
  <2>1. d.left \in Nat /\ d.lba \in Nat /\ d.buffer \in Seq(0 .. 255)
    BY <1>3
  <2>2. d.cmd \in NextSd!Commands
    BY <1>3 DEF SdTypes
  <2>3. ph \in {"readToken", "writeToken"}
    OBVIOUS
  <2> QED
    BY <1>3, <2>1, <2>2, <2>3, SdKeeps, Zenon
<1>5. SdOK(d)
  BY <1>3, <1>4 DEF SdOK, NextSd!StatusOK, SdSame, SdTypes, NextSd!Multi
<1> QED
  BY <1>3, <1>4, <1>5 DEF SdInv, SdSame

(* A write begins with an empty buffer, and takes its bytes into it.          *)
LEMMA SdWriteBegins ==
    ASSUME NEW c, SdInv(c), c.phase = "writeToken",
           NEW d, d = NextSd!Enter(c, "write", BlockSize + 1)
    PROVE  SdInv(d) /\ d.phase = "write" /\ d.image = c.image /\ d.buffer = <<>>
<1>1. SdShape(c) /\ SdTypes(c)
  BY DEF SdInv, SdTypes
<1>2. /\ SdShape(d) /\ SdSame(c, d) /\ d.phase = "write" /\ d.left = BlockSize + 1
      /\ d.cmd = c.cmd /\ d.lba = c.lba /\ d.buffer = c.buffer
  BY <1>1, SdEnter
<1>3. c.buffer = <<>>
  BY DEF SdInv, SdOK
<1>4. SdTypes(d)
  <2>1. d.left \in Nat /\ d.lba \in Nat /\ d.cmd \in NextSd!Commands /\ d.buffer \in Seq(0 .. 255)
    BY <1>1, <1>2, SdAssumption DEF SdTypes
  <2> QED
    BY <1>1, <1>2, <2>1, SdKeeps
<1>5. NextSd!Has(d, d.lba) <=> NextSd!Has(c, c.lba)
  BY <1>2, SdHas
<1>6. NextSd!StatusOK(d)
  BY <1>2, <1>3, <1>4, <1>5, SdAssumption DEF SdInv, SdOK, NextSd!StatusOK, SdSame, SdTypes
<1>7. SdOK(d)
  BY <1>2, <1>3, <1>6, SdAssumption DEF SdInv, SdOK
<1> QED
  BY <1>2, <1>3, <1>4, <1>7 DEF SdInv, SdSame

SdTook(c, b, d) == d = [NextSd!Less(c) EXCEPT !.buffer = b]

LEMMA SdTakes ==
    ASSUME NEW c, SdInv(c), c.phase = "write", Len(c.buffer) < BlockSize,
           NEW b \in Seq(0 .. 255), Len(b) = Len(c.buffer) + 1,
           NEW d, SdTook(c, b, d)
    PROVE  /\ SdInv(d) /\ d.phase = "write" /\ d.image = c.image /\ d.lba = c.lba
           /\ d.buffer = b /\ d.left < c.left
<1>1. SdShape(c) /\ SdTypes(c)
  BY DEF SdInv, SdTypes
<1>12. PICK x : x = NextSd!Less(c)
  OBVIOUS
<1>2. SdShape(x) /\ SdSame(c, x) /\ x.phase = "write" /\ x.left = c.left - 1
  BY <1>1, <1>12, SdLess
<1>3. x.cmd = c.cmd /\ x.lba = c.lba
  BY <1>1, <1>12, SdLess
<1>13. d = [x EXCEPT !.buffer = b]
  BY <1>12 DEF SdTook
<1>4. /\ SdShape(d) /\ SdSame(c, d) /\ d.phase = "write" /\ d.left = c.left - 1
      /\ d.cmd = c.cmd /\ d.lba = c.lba /\ d.buffer = b
  BY <1>2, <1>3, <1>13 DEF SdShape, SdSame
<1>5. /\ c.left \in Nat /\ c.buffer \in Seq(0 .. 255)
      /\ c.left + Len(c.buffer) = BlockSize + 1
  BY DEF SdInv, SdTypes, SdOK
<1>6. b \in Seq(0 .. 255) /\ Len(b) = Len(c.buffer) + 1 /\ Len(c.buffer) \in Nat
  BY <1>5, LenProperties
<1>7. d.left \in Nat /\ d.left < c.left /\ d.left + Len(b) = BlockSize + 1 /\ Len(b) =< BlockSize
  <2>1. PICK n \in Nat, k \in Nat : n = Len(c.buffer) /\ k = c.left
    BY <1>5, <1>6
  <2>2. Len(b) = n + 1 /\ d.left = k - 1
    BY <1>4, <1>6, <2>1
  <2>5. k + n = BlockSize + 1 /\ n < BlockSize /\ BlockSize \in Nat
    BY <1>5, <2>1, SdAssumption
  <2>3. /\ k - 1 \in Nat /\ k - 1 < k /\ (k - 1) + (n + 1) = BlockSize + 1
        /\ n + 1 =< BlockSize
    BY <2>5
  <2>4. Len(b) \in Nat /\ d.left \in Nat
    BY <2>2, <2>3
  <2> QED
    BY <2>1, <2>2, <2>3, <2>4
<1>8. SdTypes(d)
  <2>1. d.lba \in Nat /\ d.cmd \in NextSd!Commands
    BY <1>1, <1>4 DEF SdTypes
  <2> QED
    BY <1>1, <1>4, <1>6, <1>7, <2>1, SdKeeps
<1>9. NextSd!Has(d, d.lba) <=> NextSd!Has(c, c.lba)
  BY <1>4, SdHas
<1>10. NextSd!StatusOK(d)
  BY <1>4, <1>7, <1>9, Zenon DEF SdInv, SdOK, NextSd!StatusOK, SdSame
<1>11. SdOK(d)
  <2>1. PICK m \in Nat, l \in Nat : m = Len(b) /\ l = d.left
    BY <1>6, <1>7
  <2>2. l + m = BlockSize + 1 /\ m =< BlockSize /\ BlockSize \in Nat
    BY <1>7, <2>1, SdAssumption
  <2>3. IF m < BlockSize THEN l + m = BlockSize + 1 ELSE l =< 1
    BY <2>2
  <2> QED
    BY <1>4, <1>10, <2>1, <2>3 DEF SdInv, SdOK
<1> QED
  BY <1>4, <1>7, <1>8, <1>11 DEF SdInv, SdSame

(* The block that Commit leaves in the image.                                *)
LEMMA SdCommits ==
    ASSUME NEW c, SdInv(c), c.phase = "write", ~(Len(c.buffer) < BlockSize),
           NEW x, x = NextSd!Enter(NextSd!Commit(c), "busy", 2),
           NEW d, d = [x EXCEPT !.buffer = <<>>]
    PROVE  /\ SdInv(d) /\ d.phase = "busy" /\ d.lba = c.lba
           /\ c.buffer \in NextSd!Block /\ Len(c.buffer) = BlockSize
           /\ d.image = IF c.lba + 1 \in DOMAIN c.image
                        THEN [c.image EXCEPT ![c.lba + 1] = c.buffer] ELSE c.image
<1>1. SdShape(c) /\ SdTypes(c)
  BY DEF SdInv, SdTypes
<1>2. /\ c.buffer \in Seq(0 .. 255) /\ Len(c.buffer) = BlockSize
      /\ c.image \in Seq(NextSd!Block) /\ c.lba \in Nat
  BY <1>1, SdAssumption DEF SdInv, SdOK, NextSd!StatusOK, SdTypes
<1>3. c.buffer \in NextSd!Block
  <2>1. PICK b \in Seq(0 .. 255) : b = c.buffer /\ Len(b) = BlockSize
    BY <1>2
  <2>2. b \in [1 .. Len(b) -> 0 .. 255]
    BY LenProperties, Zenon
  <2> QED
    BY <2>1, <2>2, Zenon DEF NextSd!Block
<1>4. PICK m : m = IF c.lba + 1 \in DOMAIN c.image
                   THEN [c.image EXCEPT ![c.lba + 1] = c.buffer] ELSE c.image
  BY Zenon
<1>5. m \in Seq(NextSd!Block) /\ DOMAIN m = DOMAIN c.image
  BY <1>2, <1>3, <1>4
<1>6. PICK w : w = NextSd!Commit(c)
  OBVIOUS
<1>7. /\ SdShape(w) /\ w.image = m /\ w.selected = c.selected /\ w.idle = c.idle
      /\ w.app = c.app /\ w.highCapacity = c.highCapacity
      /\ w.cmd = c.cmd /\ w.lba = c.lba
  <2>1. CASE c.lba + 1 \in DOMAIN c.image
    <3>1. PICK n, b : n = c.lba + 1 /\ b = c.buffer
      OBVIOUS
    <3>2. w = [c EXCEPT !.image[n] = b]
      BY <1>6, <2>1, <3>1 DEF NextSd!Commit, NextSd!Has
    <3>3. m = [c.image EXCEPT ![n] = b]
      BY <1>4, <2>1, <3>1
    <3>4. w = [c EXCEPT !.image = m]
      BY <3>2, <3>3
    <3> QED
      BY <1>1, <3>4 DEF SdShape
  <2>2. CASE c.lba + 1 \notin DOMAIN c.image
    <3>1. w = c /\ m = c.image
      BY <1>4, <1>6, <2>2 DEF NextSd!Commit, NextSd!Has
    <3> QED
      BY <1>1, <3>1
  <2> QED
    BY <2>1, <2>2
<1>8. SdShape(x) /\ SdSame(w, x) /\ x.phase = "busy" /\ x.left = 2
  BY <1>6, <1>7, SdEnter
<1>9. x.cmd = c.cmd /\ x.lba = c.lba
  BY <1>6, <1>7, SdEnter
<1>10. /\ SdShape(d) /\ SdSame(w, d) /\ d.phase = "busy" /\ d.left = 2
       /\ d.cmd = c.cmd /\ d.lba = c.lba /\ d.buffer = <<>>
  BY <1>8, <1>9 DEF SdShape, SdSame
<1>11. d.image = m /\ d.selected = c.selected /\ d.idle = c.idle
  BY <1>7, <1>10 DEF SdSame
<1>12. d.app = c.app /\ d.highCapacity = c.highCapacity
  BY <1>7, <1>10 DEF SdSame
<1>13. SdTypes(d)
  <2>1. d.left \in Nat /\ d.lba \in Nat /\ d.buffer \in Seq(0 .. 255)
    BY <1>1, <1>10 DEF SdTypes
  <2>2. d.cmd \in NextSd!Commands
    BY <1>1, <1>10 DEF SdTypes
  <2>3. d.app \in BOOLEAN /\ d.highCapacity \in BOOLEAN /\ d.idle \in BOOLEAN /\ d.selected \in BOOLEAN
    BY <1>1, <1>11, <1>12 DEF SdTypes
  <2> QED
    BY <1>5, <1>10, <1>11, <2>1, <2>2, <2>3 DEF SdTypes
<1>14. NextSd!Has(d, d.lba) <=> NextSd!Has(c, c.lba)
  BY <1>5, <1>10, <1>11 DEF NextSd!Has
<1>15. SdOK(d)
  BY <1>10, <1>11, <1>14 DEF SdInv, SdOK, NextSd!StatusOK
<1> QED
  BY <1>2, <1>3, <1>4, <1>10, <1>11, <1>13, <1>15 DEF SdInv

-----------------------------------------------------------------------------
(* The card is a drive.                                                      *)

(* The stages of a command in the order of its phases.                        *)
LEMMA SdStage ==
    ASSUME NEW c, NEW i \in 1 .. 13, c.phase = NextSd!Phases[i]
    PROVE  NextSd!Stage(c) = i
<1>1. \A j \in 1 .. 13 : NextSd!Phases[j] = NextSd!Phases[i] => j = i
  BY DEF NextSd!Phases
<1>2. DOMAIN NextSd!Phases = 1 .. 13
  BY DEF NextSd!Phases
<1> QED
  BY <1>1, <1>2 DEF NextSd!Stage

LEMMA SdStages ==
    ASSUME NEW c
    PROVE  /\ c.phase = "idle" => NextSd!Stage(c) = 1
           /\ c.phase = "stop" => NextSd!Stage(c) = 2
           /\ c.phase = "stopArg" => NextSd!Stage(c) = 3
           /\ c.phase = "busy" => NextSd!Stage(c) = 4
           /\ c.phase = "write" => NextSd!Stage(c) = 5
           /\ c.phase = "writeToken" => NextSd!Stage(c) = 6
           /\ c.phase = "read" => NextSd!Stage(c) = 7
           /\ c.phase = "readToken" => NextSd!Stage(c) = 8
           /\ c.phase = "register" => NextSd!Stage(c) = 9
           /\ c.phase = "status" => NextSd!Stage(c) = 10
           /\ c.phase = "extra" => NextSd!Stage(c) = 11
           /\ c.phase = "wait" => NextSd!Stage(c) = 12
           /\ c.phase = "arg" => NextSd!Stage(c) = 13
<1>1. /\ NextSd!Phases[1] = "idle" /\ NextSd!Phases[2] = "stop"
      /\ NextSd!Phases[3] = "stopArg" /\ NextSd!Phases[4] = "busy"
      /\ NextSd!Phases[5] = "write" /\ NextSd!Phases[6] = "writeToken"
      /\ NextSd!Phases[7] = "read" /\ NextSd!Phases[8] = "readToken"
      /\ NextSd!Phases[9] = "register" /\ NextSd!Phases[10] = "status"
      /\ NextSd!Phases[11] = "extra" /\ NextSd!Phases[12] = "wait"
      /\ NextSd!Phases[13] = "arg"
  BY DEF NextSd!Phases
<1> QED
  BY <1>1, SdStage

SdQuiet(c) == c.phase # "write" /\ ~(c.phase = "read" /\ c.left > 1)

(* A card without a transfer is a drive without a job.                        *)
LEMMA SdEnds ==
    ASSUME SdQuiet(sd'), sd'.image = sd.image
    PROVE  NextSd!Drive!Next
<1>1. NextSd!Job' = [op |-> "none"]
  BY DEF SdQuiet, NextSd!Job
<1>2. NextSd!Blocks(sd.image)' = NextSd!Blocks(sd.image)
  BY DEF NextSd!Blocks
<1> QED
  BY <1>1, <1>2 DEF NextSd!Drive!Next, NextSd!Drive!GiveUp, NextSd!Drive!NoJob

(* The places of a card's medium are its blocks.                              *)
LEMMA SdPlaces ==
    ASSUME NEW image, image \in Seq(NextSd!Block), NEW lba \in Nat
    PROVE  /\ <<lba>> \in DOMAIN NextSd!Blocks(image) <=> lba + 1 \in DOMAIN image
           /\ lba + 1 \in DOMAIN image =>
                 NextSd!Blocks(image)[<<lba>>] = image[lba + 1]
<1>1. DOMAIN image \subseteq Nat
  OBVIOUS
<1>2. <<lba>> \in {<<i - 1>> : i \in DOMAIN image} <=> lba + 1 \in DOMAIN image
  BY <1>1
<1> QED
  BY <1>2 DEF NextSd!Blocks

(* A read begins with the block of the image, and hands out a byte.           *)
LEMMA SdReads ==
    ASSUME sd.image \in Seq(NextSd!Block), sd'.image = sd.image, sd'.phase = "read",
           NEW lba \in Nat, lba = sd'.lba, lba + 1 \in DOMAIN sd.image,
           sd'.buffer = sd.image[lba + 1], sd'.left = BlockSize + 1
    PROVE  NextSd!Drive!Next
<1>1. PICK b \in NextSd!Block : b = sd'.buffer
  OBVIOUS
<1>2. b \in Seq(Nat) /\ Len(b) = BlockSize
  BY SdAssumption, BytesAreSeq, Zenon DEF NextSd!Block
<1>3. NextSd!Job' = [op |-> "read", at |-> <<lba>>, bytes |-> b]
  <2>1. BlockSize + 2 - (BlockSize + 1) = 1 /\ BlockSize + 1 > 1
    BY SdAssumption
  <2>2. NextSd!Job' = [op |-> "read", at |-> <<lba>>, bytes |-> SubSeq(b, 1, BlockSize)]
    BY <1>1, <2>1, Zenon DEF NextSd!Job
  <2> QED
    BY <1>2, <2>2, SubSeqWhole, Zenon
<1>4. PICK image \in Seq(NextSd!Block) : image = sd.image
  OBVIOUS
<1>5. /\ NextSd!Blocks(sd.image)' = NextSd!Blocks(image)
      /\ NextSd!Blocks(sd.image) = NextSd!Blocks(image)
  BY <1>4 DEF NextSd!Blocks
<1>6. b = NextSd!Drive!Resized(NextSd!Blocks(image)[<<lba>>], Len(b))
  <2>1. b = NextSd!Drive!Resized(b, Len(b))
    BY <1>2 DEF NextSd!Drive!Resized, NextSd!Block
  <2>2. NextSd!Blocks(image)[<<lba>>] = b
    BY <1>1, <1>4, SdPlaces
  <2> QED
    BY <2>1, <2>2
<1>7. NextSd!Drive!Reads
  BY <1>3, <1>4, <1>5, <1>6, SdPlaces DEF NextSd!Drive!Reads, NextSd!Drive!On
<1> QED
  BY <1>5, <1>7 DEF NextSd!Drive!Next, NextSd!Drive!Begin

LEMMA SdGives ==
    ASSUME SdInv(sd), sd.phase = "read", sd.left > 2, sd' = NextSd!Less(sd)
    PROVE  NextSd!Drive!Next
<1>1. PICK lba \in Nat, left \in Nat, b \in Seq(0 .. 255) :
          lba = sd.lba /\ left = sd.left /\ b = sd.buffer
  BY DEF SdInv, SdTypes
<1>2. SdShape(sd)
  BY DEF SdInv, SdTypes
<1>3. SdSame(sd, sd') /\ sd'.phase = "read" /\ sd'.left = left - 1 /\ sd'.lba = lba /\ sd'.buffer = b
  BY <1>1, <1>2, SdLess
<1>4. Len(b) = BlockSize /\ left =< BlockSize + 1 /\ left > 2
  BY <1>1, <1>3 DEF SdInv, SdOK, NextSd!StatusOK
<1>5. PICK k \in Nat : /\ k = BlockSize + 1 - left /\ k < BlockSize
                       /\ BlockSize + 2 - left = k + 1
                       /\ BlockSize + 2 - (left - 1) = k + 2
  <2>1. BlockSize + 1 - left \in Nat /\ BlockSize + 1 - left < BlockSize
    BY <1>4, SdAssumption
  <2> QED
    BY <2>1, SdAssumption
<1>6. NextSd!Job = [op |-> "read", at |-> <<lba>>, bytes |-> SubSeq(b, k + 1, BlockSize)]
  <2>1. sd.left > 1 /\ BlockSize + 2 - sd.left = k + 1
    BY <1>1, <1>4, <1>5
  <2> QED
    BY <1>1, <2>1, Zenon DEF NextSd!Job
<1>7. NextSd!Job' = [op |-> "read", at |-> <<lba>>, bytes |-> SubSeq(b, k + 2, BlockSize)]
  <2>1. left - 1 > 1
    BY <1>4
  <2> QED
    BY <1>3, <1>5, <2>1, Zenon DEF NextSd!Job
<1>8. b \in Seq(Nat)
  BY LenProperties, BytesAreSeq
<1>9. /\ SubSeq(b, k + 1, BlockSize) # <<>>
      /\ Tail(SubSeq(b, k + 1, BlockSize)) = SubSeq(b, k + 2, BlockSize)
  BY <1>4, <1>5, <1>8, SubSeqTail, Zenon
<1>10. NextSd!Blocks(sd.image)' = NextSd!Blocks(sd.image)
  BY <1>3 DEF NextSd!Blocks, SdSame
<1>11. NextSd!Drive!Give
  <2>1. PICK j : j = NextSd!Job
    OBVIOUS
  <2>2. PICK s, t : s = SubSeq(b, k + 1, BlockSize) /\ t = SubSeq(b, k + 2, BlockSize)
    BY Zenon
  <2>3. j = [op |-> "read", at |-> <<lba>>, bytes |-> s] /\ s # <<>> /\ t = Tail(s)
    BY <1>6, <1>9, <2>1, <2>2, Zenon
  <2>4. NextSd!Job' = [j EXCEPT !.bytes = Tail(@)]
    <3>1. NextSd!Job' = [op |-> "read", at |-> <<lba>>, bytes |-> t]
      BY <1>7, <2>2
    <3>2. PICK m : m = NextSd!Job'
      OBVIOUS
    <3>3. Given(j, m)
      BY <2>3, <3>1, <3>2, JobGiven, Zenon
    <3> QED
      BY <3>2, <3>3 DEF Given
  <2> QED
    BY <1>10, <2>1, <2>3, <2>4 DEF NextSd!Drive!Give
<1> QED
  BY <1>11 DEF NextSd!Drive!Next

(* A write begins without a byte.                                             *)
LEMMA SdWrites ==
    ASSUME sd'.image = sd.image, sd'.phase = "write", sd'.buffer = <<>>
    PROVE  NextSd!Drive!Next
<1>1. NextSd!Job'.op = "write" /\ NextSd!Job'.bytes = <<>>
  BY DEF NextSd!Job
<1>2. NextSd!Blocks(sd.image)' = NextSd!Blocks(sd.image)
  BY DEF NextSd!Blocks
<1> QED
  BY <1>1, <1>2 DEF NextSd!Drive!Next, NextSd!Drive!Begin, NextSd!Drive!Writes

(* A byte that the card takes stays in its buffer.                           *)
LEMMA SdTakesByte ==
    ASSUME SdInv(sd), sd.phase = "write", Len(sd.buffer) < BlockSize,
           NEW byte \in 0 .. 255
    PROVE  sd' = [NextSd!Less(sd) EXCEPT !.buffer = Append(@, byte)]
              => SdInv(sd') /\ NextSd!Nearer /\ NextSd!Drive!Next
<1>18. SUFFICES ASSUME sd' = [NextSd!Less(sd) EXCEPT !.buffer = Append(@, byte)]
                PROVE  SdInv(sd') /\ NextSd!Nearer /\ NextSd!Drive!Next
  OBVIOUS
<1>1. SdShape(sd)
  BY DEF SdInv, SdTypes
<1>2. PICK s \in Seq(0 .. 255), lba \in Nat : s = sd.buffer /\ lba = sd.lba
  BY DEF SdInv, SdTypes
<1>3. PICK x, t : x = NextSd!Less(sd) /\ t = Append(s, byte)
  BY Zenon
<1>4. x.buffer = s
  BY <1>1, <1>2, <1>3, SdLess
<1>5. SdTook(sd, t, sd')
  BY <1>3, <1>4, <1>18, Zenon DEF SdTook
<1>6. /\ SdInv(sd') /\ sd'.phase = "write" /\ sd'.image = sd.image /\ sd'.lba = sd.lba
      /\ sd'.buffer = t /\ sd'.left < sd.left
  <2>1. t \in Seq(0 .. 255) /\ Len(t) = Len(sd.buffer) + 1
    BY <1>2, <1>3
  <2>4. SdInv(sd) /\ sd.phase = "write" /\ Len(sd.buffer) < BlockSize
    OBVIOUS
  <2>2. SdInv(sd') /\ sd'.phase = "write" /\ sd'.image = sd.image
    BY <1>5, <2>1, <2>4, SdTakes
  <2> QED
    BY <1>5, <2>1, <2>2, <2>4, SdTakes
<1>7. NextSd!Nearer
  BY <1>6 DEF NextSd!Nearer
<1>8. PICK p, keep : p = <<lba>> /\ keep = TRUE
  BY Zenon
<1>9. PICK j, k : j = NextSd!Job /\ k = NextSd!Job'
  OBVIOUS
<1>10. j = [op |-> "write", at |-> p, want |-> BlockSize, keep |-> keep, bytes |-> s]
  BY <1>2, <1>8, <1>9 DEF NextSd!Job
<1>11. k = [op |-> "write", at |-> p, want |-> BlockSize, keep |-> keep, bytes |-> t]
  BY <1>2, <1>6, <1>8, <1>9 DEF NextSd!Job
<1>12. Taken(j, k, byte)
  BY <1>3, <1>10, <1>11, JobTaken, Zenon
<1>13. j.op = "write" /\ j.want = BlockSize /\ j.bytes = s /\ k.op = "write" /\ k.bytes = t
  BY <1>10, <1>11
<1>14. Len(t) = Len(s) + 1 /\ t[Len(t)] = byte /\ Len(s) < BlockSize
  BY <1>2, <1>3
<1>15. k = [j EXCEPT !.bytes = Append(@, k.bytes[Len(k.bytes)])]
  BY <1>12, <1>13, <1>14, Zenon DEF Taken
<1>16. NextSd!Blocks(sd.image)' = NextSd!Blocks(sd.image)
  BY <1>6 DEF NextSd!Blocks
<1>17. NextSd!Drive!Take
  BY <1>9, <1>13, <1>14, <1>15, <1>16 DEF NextSd!Drive!Take
<1> QED
  BY <1>6, <1>7, <1>17 DEF NextSd!Drive!Next

(* A block that is committed is the bytes that were sent for it.             *)
LEMMA SdFinishes ==
    ASSUME SdInv(sd), sd.phase = "write", ~(Len(sd.buffer) < BlockSize)
    PROVE  sd' = [NextSd!Enter(NextSd!Commit(sd), "busy", 2) EXCEPT !.buffer = <<>>]
              => SdInv(sd') /\ NextSd!Nearer /\ NextSd!Drive!Next
<1>13. SUFFICES ASSUME sd' = [NextSd!Enter(NextSd!Commit(sd), "busy", 2) EXCEPT !.buffer = <<>>]
                PROVE  SdInv(sd') /\ NextSd!Nearer /\ NextSd!Drive!Next
  OBVIOUS
<1>1. PICK b, lba, image : b = sd.buffer /\ lba = sd.lba /\ image = sd.image
  OBVIOUS
<1>2. image \in Seq(NextSd!Block) /\ lba \in Nat
  BY <1>1 DEF SdInv, SdTypes
<1>3. PICK x : x = NextSd!Enter(NextSd!Commit(sd), "busy", 2)
  OBVIOUS
<1>4. sd' = [x EXCEPT !.buffer = <<>>]
  BY <1>3, <1>13
<1>5. /\ SdInv(sd') /\ sd'.phase = "busy"
      /\ b \in NextSd!Block /\ Len(b) = BlockSize
      /\ sd'.image = IF lba + 1 \in DOMAIN image
                     THEN [image EXCEPT ![lba + 1] = b] ELSE image
  <2>1. SdInv(sd') /\ sd'.phase = "busy"
    BY <1>3, <1>4, SdCommits, Zenon
  <2>2. sd.buffer \in NextSd!Block /\ Len(sd.buffer) = BlockSize
    BY <1>3, <1>4, SdCommits, Zenon
  <2>3. sd'.image = IF sd.lba + 1 \in DOMAIN sd.image
                    THEN [sd.image EXCEPT ![sd.lba + 1] = sd.buffer] ELSE sd.image
    BY <1>3, <1>4, SdCommits, ZenonT(30)
  <2> QED
    BY <1>1, <2>1, <2>2, <2>3
<1>6. NextSd!Nearer
  <2>1. sd.phase = "write" /\ sd'.phase = "busy"
    BY <1>5
  <2> QED
    BY <2>1, SdStages DEF NextSd!Nearer
<1>7. NextSd!Job = [op |-> "write", at |-> <<lba>>, want |-> BlockSize, keep |-> TRUE, bytes |-> b]
  BY <1>1 DEF NextSd!Job
<1>8. NextSd!Job' = [op |-> "none"]
  BY <1>5 DEF NextSd!Job
<1>9. PICK new : new = sd'.image
  OBVIOUS
<1>10. /\ NextSd!Blocks(sd.image)' = NextSd!Blocks(new)
       /\ NextSd!Blocks(sd.image) = NextSd!Blocks(image)
  BY <1>1, <1>9 DEF NextSd!Blocks
<1>11. CASE lba + 1 \notin DOMAIN image
  <2>1. NextSd!Blocks(sd.image)' = NextSd!Drive!Stored(b)
    <3>1. ~ NextSd!Drive!On(NextSd!Job.at)
      BY <1>2, <1>7, <1>10, <1>11, SdPlaces DEF NextSd!Drive!On
    <3> QED
      BY <1>5, <1>9, <1>10, <1>11, <3>1 DEF NextSd!Drive!Stored
  <2> QED
    BY <1>5, <1>6, <1>7, <1>8, <2>1
       DEF NextSd!Drive!Next, NextSd!Drive!Finish, NextSd!Drive!NoJob
<1>12. CASE lba + 1 \in DOMAIN image
  <2>1. new = [image EXCEPT ![lba + 1] = b] /\ DOMAIN new = DOMAIN image
    BY <1>2, <1>5, <1>9, <1>12
  <2>2. PICK f, g : f = NextSd!Blocks(new) /\ g = NextSd!Blocks(image)
    OBVIOUS
  <2>3. f = [q \in DOMAIN f |-> f[q]] /\ g = [q \in DOMAIN g |-> g[q]]
    BY <2>2 DEF NextSd!Blocks
  <2>4. DOMAIN f = DOMAIN g /\ DOMAIN g = {<<i - 1>> : i \in DOMAIN image}
    BY <2>1, <2>2 DEF NextSd!Blocks
  <2>5. ASSUME NEW i \in DOMAIN image
        PROVE  f[<<i - 1>>] = IF <<i - 1>> = <<lba>> THEN b ELSE g[<<i - 1>>]
    <3>1. i \in Nat \ {0} /\ i - 1 \in Nat /\ (i - 1) + 1 = i
      BY <1>2
    <3>2. PICK k \in Nat : k = i - 1
      BY <3>1
    <3>3. k + 1 \in DOMAIN image /\ k + 1 = i
      BY <3>1, <3>2
    <3>4. new \in Seq(NextSd!Block)
      BY <1>2, <1>5, <1>12, <2>1
    <3>5. f[<<k>>] = new[i] /\ g[<<k>>] = image[i]
      BY <1>2, <2>1, <2>2, <3>3, <3>4, SdPlaces, Zenon
    <3>6. <<k>> = <<lba>> <=> i = lba + 1
      BY <1>2, <3>3
    <3>7. new[i] = IF i = lba + 1 THEN b ELSE image[i]
      BY <1>2, <2>1
    <3> QED
      BY <3>2, <3>5, <3>6, <3>7
  <2>6. \A q \in DOMAIN g : f[q] = IF q = <<lba>> THEN b ELSE g[q]
    BY <2>4, <2>5
  <2>7. f = [g EXCEPT ![<<lba>>] = b]
    BY <2>3, <2>4, <2>6
  <2>8. <<lba>> \in DOMAIN g /\ g[<<lba>>] = image[lba + 1]
    BY <1>2, <1>12, <2>2, SdPlaces
  <2>9. DOMAIN image[lba + 1] = 1 .. BlockSize
    BY <1>2, <1>12 DEF NextSd!Block
  <2>10. b = [i \in DOMAIN g[<<lba>>] |->
                IF i <= Len(b) THEN b[i] ELSE g[<<lba>>][i]]
    BY <1>5, <2>8, <2>9, SdAssumption DEF NextSd!Block
  <2>11. NextSd!Blocks(sd.image)' = NextSd!Drive!Stored(b)
    <3>1. PICK p : p = <<lba>>
      BY Zenon
    <3>2. NextSd!Job.at = p /\ p \in DOMAIN g
      BY <1>7, <2>8, <3>1
    <3>3. b = [i \in DOMAIN g[p] |-> IF i <= Len(b) THEN b[i]
                                    ELSE IF NextSd!Job.keep THEN g[p][i] ELSE 0]
      BY <1>5, <1>7, <2>8, <2>9, <3>1, SdAssumption DEF NextSd!Block
    <3>4. PICK h : h = [i \in DOMAIN g[p] |-> IF i <= Len(b) THEN b[i]
                                    ELSE IF NextSd!Job.keep THEN g[p][i] ELSE 0]
      BY Zenon
    <3>5. NextSd!Drive!Stored(b) = [g EXCEPT ![p] = h]
      BY <1>10, <2>2, <3>2, <3>4 DEF NextSd!Drive!Stored, NextSd!Drive!On
    <3> QED
      BY <1>10, <2>2, <2>7, <3>1, <3>3, <3>4, <3>5, Zenon
  <2> QED
    BY <1>5, <1>6, <1>7, <1>8, <2>11
       DEF NextSd!Drive!Next, NextSd!Drive!Finish, NextSd!Drive!NoJob
<1> QED
  BY <1>11, <1>12

SdDrives ==
    NextSd!Drive!Next \/ UNCHANGED <<NextSd!Blocks(sd.image), NextSd!Job>>

(* Every byte that its state asks for takes a card's command forward.        *)
LEMMA SdServes ==
    ASSUME SdInv(sd), NextSd!Serve
    PROVE  SdInv(sd') /\ NextSd!Nearer /\ SdDrives
<1>1. /\ SdShape(sd) /\ SdTypes(sd) /\ sd.left \in Nat /\ sd.lba \in Nat
      /\ sd.phase # "idle" => sd.selected
      /\ sd.phase \notin {"read", "write"} => sd.buffer = <<>>
      /\ sd.phase \in {"readToken", "read", "writeToken", "write", "busy"} => ~sd.idle
      /\ sd.phase \in {"readToken", "read"} => sd.cmd \in {17, 18}
      /\ sd.phase \in {"writeToken", "write", "busy"} => sd.cmd \in {24, 25}
  BY DEF SdInv, SdTypes, SdOK, NextSd!StatusOK
<1>2. ASSUME SdQuiet(sd'), sd'.image = sd.image
      PROVE  SdDrives
  BY <1>2, SdEnds DEF SdDrives
<1>3. ASSUME sd' = NextSd!Less(sd), sd.left > 0, sd.phase # "write"
      PROVE  SdInv(sd') /\ NextSd!Nearer /\ SdDrives
  <2>1. SdInv(sd')
    BY <1>3, SdLessKeeps
  <2>2. sd'.phase = sd.phase /\ sd'.left = sd.left - 1 /\ SdSame(sd, sd')
    BY <1>1, <1>3, SdLess
  <2>3. NextSd!Nearer
    BY <1>1, <2>2 DEF NextSd!Nearer
  <2>4. SdDrives
    <3>1. CASE sd.phase = "read" /\ sd.left > 2
      BY <1>3, <3>1, SdGives DEF SdDrives
    <3>2. CASE ~(sd.phase = "read" /\ sd.left > 2)
      BY <1>1, <1>2, <1>3, <2>2, <3>2 DEF SdQuiet, SdSame
    <3> QED
      BY <3>1, <3>2
  <2> QED
    BY <2>1, <2>3, <2>4
<1>4. ASSUME sd' = NextSd!Idle(sd), sd.phase # "idle"
      PROVE  SdInv(sd') /\ NextSd!Nearer /\ SdDrives
  <2>1. sd'.phase = "idle" /\ SdSame(sd, sd')
    BY <1>1, <1>4, SdIdle
  <2>2. SdInv(sd')
    BY <1>1, <1>4, SdIdleKeeps
  <2>3. SdDrives
    BY <1>2, <2>1 DEF SdQuiet, SdSame
  <2>4. NextSd!Nearer
    BY <1>1, <1>4, <2>1, SdStages DEF NextSd!Nearer, SdTypes
  <2> QED
    BY <2>2, <2>3, <2>4
<1>5. CASE NextSd!TakeArgument
  <2>1. sd.phase \in {"arg", "stopArg"} /\ StopDelay \in Nat
    BY <1>5, SdAssumption DEF NextSd!TakeArgument, NextSd!Exchange
  <2>2. \/ sd' = NextSd!Less(sd) /\ sd.left > 0
        \/ sd.phase = "arg" /\ sd' = NextSd!Enter(sd, "wait", 1)
        \/ sd.phase = "stopArg" /\ sd' = NextSd!Enter(sd, "stop", StopDelay)
    BY <1>5 DEF NextSd!TakeArgument, NextSd!Exchange
  <2>3. ASSUME NEW ph \in {"wait", "stop"}, NEW n \in Nat, sd' = NextSd!Enter(sd, ph, n)
        PROVE  SdInv(sd') /\ sd'.phase = ph /\ SdDrives
    <3>1. SdInv(sd') /\ sd'.phase = ph /\ sd'.image = sd.image
      BY <1>1, <2>1, <2>3, SdEnterKeeps
    <3> QED
      BY <1>2, <3>1 DEF SdQuiet
  <2>4. CASE sd.phase = "arg" /\ sd' = NextSd!Enter(sd, "wait", 1)
    BY <2>3, <2>4, SdStages DEF NextSd!Nearer
  <2>5. CASE sd.phase = "stopArg" /\ sd' = NextSd!Enter(sd, "stop", StopDelay)
    BY <2>1, <2>3, <2>5, SdStages DEF NextSd!Nearer
  <2> QED
    BY <1>3, <2>1, <2>2, <2>4, <2>5
<1>6. CASE NextSd!Answer
  <2>1. sd.phase = "wait" /\ Addresses \subseteq Nat
    BY <1>6, SdAssumption DEF NextSd!Answer, NextSd!Exchange
  <2>2. \/ sd' = NextSd!Less(sd) /\ sd.left > 0
        \/ \E arg \in Nat, hcs \in BOOLEAN : sd' = NextSd!Respond(sd, arg, hcs)
    BY <1>6, <2>1 DEF NextSd!Answer
  <2>3. ASSUME NEW arg \in Nat, NEW hcs \in BOOLEAN, sd' = NextSd!Respond(sd, arg, hcs)
        PROVE  SdInv(sd') /\ NextSd!Nearer /\ SdDrives
    <3>1. SdAnswered(sd, sd')
      BY <2>1, <2>3, SdRespond
    <3>2. SdDrives
      BY <1>2, <3>1 DEF SdAnswered, SdQuiet
    <3>3. NextSd!Nearer
      <4>1. sd'.phase \in {"idle", "extra", "stop", "status", "register", "readToken", "writeToken"}
        BY <3>1 DEF SdAnswered
      <4> QED
        BY <2>1, <4>1, SdStages DEF NextSd!Nearer
    <3> QED
      BY <3>1, <3>2, <3>3 DEF SdAnswered
  <2> QED
    BY <1>3, <2>1, <2>2, <2>3
<1>7. CASE NextSd!SendExtra
  <2>1. sd.phase \in {"extra", "status", "register", "stop"}
    BY <1>7 DEF NextSd!SendExtra, NextSd!Exchange
  <2>2. sd' = IF sd.left > 0 THEN NextSd!Less(sd) ELSE NextSd!Idle(sd)
    BY <1>7 DEF NextSd!SendExtra
  <2> QED
    BY <1>3, <1>4, <2>1, <2>2
<1>8. CASE NextSd!SendToken
  <2>1. sd.phase = "readToken"
    BY <1>8 DEF NextSd!SendToken, NextSd!Exchange
  <2>2. PICK elapsed \in 0 .. sd.left :
           sd' = IF sd.left - elapsed > 0 THEN [sd EXCEPT !.left = (sd.left - elapsed) - 1]
                 ELSE NextSd!ReadBlock(sd)
    BY <1>8 DEF NextSd!SendToken
  <2>3. CASE sd.left - elapsed > 0
    <3>1. PICK n : n = (sd.left - elapsed) - 1
      OBVIOUS
    <3>2. n \in Nat /\ n < sd.left
      BY <1>1, <2>3, <3>1
    <3>3. sd' = [sd EXCEPT !.left = n]
      BY <2>2, <2>3, <3>1
    <3>4. /\ SdShape(sd') /\ SdSame(sd, sd') /\ sd'.phase = "readToken" /\ sd'.left = n
          /\ sd'.cmd = sd.cmd /\ sd'.lba = sd.lba /\ sd'.buffer = sd.buffer
      BY <1>1, <2>1, <3>3 DEF SdShape, SdSame
    <3>5. SdTypes(sd')
      <4>1. sd'.left \in Nat /\ sd'.lba \in Nat /\ sd'.buffer \in Seq(0 .. 255)
        BY <1>1, <3>2, <3>4 DEF SdTypes
      <4>2. sd'.cmd \in NextSd!Commands
        BY <1>1, <3>4 DEF SdTypes
      <4> QED
        BY <1>1, <3>4, <4>1, <4>2, SdKeeps
    <3>6. SdOK(sd')
      BY <1>1, <2>1, <3>2, <3>4 DEF SdOK, NextSd!StatusOK, SdSame
    <3>7. SdDrives
      BY <1>2, <3>4 DEF SdQuiet, SdSame
    <3> QED
      BY <2>1, <3>2, <3>4, <3>5, <3>6, <3>7 DEF SdInv, NextSd!Nearer
  <2>4. CASE ~(sd.left - elapsed > 0)
    <3>1. sd' = NextSd!ReadBlock(sd)
      BY <2>2, <2>4
    <3>2. SdInv(sd') /\ sd'.image = sd.image /\ sd'.phase \in {"read", "idle"}
      BY <2>1, <3>1, SdReadBlock
    <3>3. sd'.phase = "read" =>
             /\ sd.lba + 1 \in DOMAIN sd.image /\ sd'.buffer = sd.image[sd.lba + 1]
             /\ sd'.left = BlockSize + 1 /\ sd'.lba = sd.lba
      BY <2>1, <3>1, SdReadBlock
    <3>4. NextSd!Nearer
      BY <2>1, <3>2, SdStages DEF NextSd!Nearer
    <3>5. sd.image \in Seq(NextSd!Block)
      BY <1>1 DEF SdTypes
    <3>6. SdDrives
      <4>1. CASE sd'.phase = "read"
        <5>1. NextSd!Drive!Next
          BY <1>1, <3>2, <3>3, <3>5, <4>1, SdReads
        <5> QED
          BY <5>1 DEF SdDrives
      <4>2. CASE sd'.phase = "idle"
        BY <1>2, <3>2, <4>2 DEF SdQuiet
      <4> QED
        BY <3>2, <4>1, <4>2
    <3> QED
      BY <3>2, <3>4, <3>6
  <2> QED
    BY <2>3, <2>4
<1>9. CASE NextSd!SendByte
  <2>1. sd.phase = "read"
    BY <1>9 DEF NextSd!SendByte, NextSd!Exchange
  <2>2. CASE sd.left > 0
    <3>1. sd' = NextSd!Less(sd)
      BY <1>9, <2>2 DEF NextSd!SendByte
    <3> QED
      BY <1>3, <2>1, <2>2, <3>1
  <2>3. CASE ~(sd.left > 0) /\ NextSd!Multi(sd.cmd)
    <3>1. PICK x, lba : x = NextSd!Enter(sd, "readToken", 0) /\ lba = sd.lba + 1
      OBVIOUS
    <3>2. x.lba = sd.lba /\ SdShape(x)
      BY <1>1, <3>1, SdEnter
    <3>3. sd' = [x EXCEPT !.lba = lba, !.buffer = <<>>]
      <4>1. sd' = [x EXCEPT !.lba = @ + 1, !.buffer = <<>>]
        BY <1>9, <2>3, <3>1 DEF NextSd!SendByte
      <4> QED
        BY <3>1, <3>2, <4>1 DEF SdShape
    <3>4. sd.cmd = 18 /\ lba \in Nat
      BY <1>1, <2>1, <2>3, <3>1 DEF NextSd!Multi
    <3>7. SdMovesOn(sd, "readToken", lba, sd')
      BY <3>1, <3>3 DEF SdMovesOn
    <3>5. SdInv(sd') /\ sd'.phase = "readToken" /\ sd'.image = sd.image
      BY <1>1, <2>1, <3>4, <3>7, SdNextBlock
    <3>6. SdDrives
      BY <1>2, <3>5 DEF SdQuiet
    <3> QED
      BY <2>1, <2>3, <3>5, <3>6 DEF NextSd!Nearer
  <2>4. CASE ~(sd.left > 0) /\ ~NextSd!Multi(sd.cmd)
    <3>1. sd' = NextSd!Idle(sd)
      BY <1>9, <2>4 DEF NextSd!SendByte
    <3> QED
      BY <1>4, <2>1, <3>1
  <2> QED
    BY <2>2, <2>3, <2>4
<1>10. CASE \E token \in {"single", "multi", "stop"} : NextSd!TakeToken(token)
  <2>1. sd.phase = "writeToken"
    BY <1>10 DEF NextSd!TakeToken, NextSd!Exchange
  <2>2. \/ sd' = NextSd!Enter(NextSd!Idle(sd), "stop", 0)
        \/ sd' = NextSd!Enter(sd, "write", BlockSize + 1)
    BY <1>10 DEF NextSd!TakeToken
  <2>3. CASE sd' = NextSd!Enter(NextSd!Idle(sd), "stop", 0)
    <3>1. PICK c : c = NextSd!Idle(sd)
      OBVIOUS
    <3>2. SdInv(c) /\ SdSame(sd, c) /\ c.buffer = <<>> /\ SdTypes(c)
      BY <1>1, <3>1, SdIdle, SdIdleKeeps DEF SdInv
    <3>3. c.selected
      BY <1>1, <2>1, <3>2 DEF SdSame
    <3>4. SdInv(sd') /\ sd'.phase = "stop" /\ sd'.image = c.image
      BY <2>3, <3>1, <3>2, <3>3, SdEnterKeeps
    <3>5. SdDrives
      BY <1>2, <3>2, <3>4 DEF SdQuiet, SdSame
    <3>6. NextSd!Nearer
      BY <2>1, <3>4, SdStages DEF NextSd!Nearer
    <3> QED
      BY <3>4, <3>5, <3>6
  <2>4. CASE sd' = NextSd!Enter(sd, "write", BlockSize + 1)
    <3>1. SdInv(sd') /\ sd'.phase = "write" /\ sd'.image = sd.image /\ sd'.buffer = <<>>
      BY <2>1, <2>4, SdWriteBegins
    <3>2. SdDrives
      BY <3>1, SdWrites DEF SdDrives
    <3>3. NextSd!Nearer
      BY <2>1, <3>1, SdStages DEF NextSd!Nearer
    <3> QED
      BY <3>1, <3>2, <3>3
  <2> QED
    BY <2>2, <2>3, <2>4
<1>11. CASE \E byte \in CardBytes : NextSd!TakeByte(byte)
  <2>1. PICK byte \in 0 .. 255 : NextSd!TakeByte(byte)
    BY <1>11, SdAssumption, Zenon
  <2>2. sd.phase = "write"
    BY <2>1 DEF NextSd!TakeByte, NextSd!Exchange
  <2>3. CASE Len(sd.buffer) < BlockSize
    <3>1. sd' = [NextSd!Less(sd) EXCEPT !.buffer = Append(@, byte)]
      BY <2>1, <2>3 DEF NextSd!TakeByte
    <3> QED
      BY <2>2, <2>3, <3>1, SdTakesByte, Zenon DEF SdDrives
  <2>4. CASE ~(Len(sd.buffer) < BlockSize) /\ sd.left > 0
    <3>1. sd' = NextSd!Less(sd)
      BY <2>1, <2>4 DEF NextSd!TakeByte
    <3>2. Len(sd.buffer) = BlockSize
      BY <1>1, <2>2, <2>4, SdAssumption DEF SdInv, SdOK, NextSd!StatusOK, SdTypes
    <3>3. SdInv(sd')
      BY <2>4, <3>1, <3>2, SdLessKeeps
    <3>4. SdSame(sd, sd') /\ sd'.phase = "write" /\ sd'.left = sd.left - 1
      BY <1>1, <2>2, <3>1, SdLess
    <3>5. sd'.lba = sd.lba /\ sd'.buffer = sd.buffer
      BY <1>1, <3>1, SdLess
    <3>6. UNCHANGED <<NextSd!Blocks(sd.image), NextSd!Job>>
      BY <2>2, <3>4, <3>5 DEF NextSd!Blocks, NextSd!Job, SdSame
    <3>7. NextSd!Nearer
      BY <1>1, <2>2, <3>4 DEF NextSd!Nearer
    <3> QED
      BY <3>3, <3>6, <3>7 DEF SdDrives
  <2>5. CASE ~(Len(sd.buffer) < BlockSize) /\ ~(sd.left > 0)
    <3>1. sd' = [NextSd!Enter(NextSd!Commit(sd), "busy", 2) EXCEPT !.buffer = <<>>]
      BY <2>1, <2>5 DEF NextSd!TakeByte
    <3> QED
      BY <2>2, <2>5, <3>1, SdFinishes DEF SdDrives
  <2> QED
    BY <2>3, <2>4, <2>5
<1>12. CASE NextSd!Busy
  <2>1. sd.phase = "busy"
    BY <1>12 DEF NextSd!Busy, NextSd!Exchange
  <2>2. CASE sd.left > 0
    <3>1. sd' = NextSd!Less(sd)
      BY <1>12, <2>2 DEF NextSd!Busy
    <3> QED
      BY <1>3, <2>1, <2>2, <3>1
  <2>3. CASE ~(sd.left > 0) /\ NextSd!Multi(sd.cmd)
    <3>1. PICK x, lba : /\ x = NextSd!Enter(sd, "writeToken", 0)
                        /\ lba = IF sd.lba < LastBlock THEN sd.lba + 1 ELSE sd.lba
      OBVIOUS
    <3>2. x.lba = sd.lba /\ SdShape(x) /\ x.buffer = <<>>
      BY <1>1, <2>1, <3>1, SdEnter
    <3>3. sd' = [x EXCEPT !.lba = lba, !.buffer = <<>>]
      <4>1. sd' = [x EXCEPT !.lba = IF @ < LastBlock THEN @ + 1 ELSE @]
        BY <1>12, <2>3, <3>1 DEF NextSd!Busy
      <4>2. sd' = [x EXCEPT !.lba = lba]
        BY <3>1, <3>2, <4>1
      <4> QED
        BY <3>2, <4>2, Zenon DEF SdShape
    <3>4. sd.cmd = 25 /\ lba \in Nat
      BY <1>1, <2>1, <2>3, <3>1 DEF NextSd!Multi
    <3>7. SdMovesOn(sd, "writeToken", lba, sd')
      BY <3>1, <3>3 DEF SdMovesOn
    <3>5. SdInv(sd') /\ sd'.phase = "writeToken" /\ sd'.image = sd.image
      BY <1>1, <2>1, <3>4, <3>7, SdNextBlock
    <3>6. SdDrives
      BY <1>2, <3>5 DEF SdQuiet
    <3> QED
      BY <2>1, <2>3, <3>5, <3>6 DEF NextSd!Nearer
  <2>4. CASE ~(sd.left > 0) /\ ~NextSd!Multi(sd.cmd)
    <3>1. sd' = NextSd!Idle(sd)
      BY <1>12, <2>4 DEF NextSd!Busy
    <3> QED
      BY <1>4, <2>1, <3>1
  <2> QED
    BY <2>2, <2>3, <2>4
<1> QED
  BY <1>5, <1>6, <1>7, <1>8, <1>9, <1>10, <1>11, <1>12 DEF NextSd!Serve

(* Every operation keeps the card in order, and its steps are a drive's.      *)
LEMMA SdStep ==
    ASSUME SdInv(sd), NextSd!Next
    PROVE  SdInv(sd') /\ SdDrives
<1>1. SdShape(sd) /\ SdTypes(sd) /\ sd.selected \in BOOLEAN
  BY DEF SdInv, SdTypes
<1>2. ASSUME SdQuiet(sd'), sd'.image = sd.image
      PROVE  SdDrives
  BY <1>2, SdEnds DEF SdDrives
<1>3. PICK i : i = NextSd!Idle(sd)
  OBVIOUS
<1>4. /\ SdInv(i) /\ SdShape(i) /\ SdTypes(i) /\ SdSame(sd, i)
      /\ i.phase = "idle" /\ i.buffer = <<>>
  BY <1>1, <1>3, SdIdle, SdIdleKeeps DEF SdInv
<1>5. CASE \E cmd \in NextSd!Commands : NextSd!StartCommand(cmd)
  <2>1. PICK cmd \in NextSd!Commands : NextSd!StartCommand(cmd)
    BY <1>5
  <2>2. PICK e : e = NextSd!Enter(sd, "arg", ArgumentBytes)
    OBVIOUS
  <2>3. sd.selected /\ sd.phase = "idle" /\ sd' = [e EXCEPT !.cmd = cmd]
    BY <2>1, <2>2 DEF NextSd!StartCommand, NextSd!Exchange
  <2>4. sd.buffer = <<>> /\ ArgumentBytes \in Nat
    BY <2>3, SdAssumption DEF SdInv, SdOK
  <2>5. SdInv(e) /\ e.phase = "arg" /\ e.image = sd.image
    BY <1>1, <2>2, <2>3, <2>4, SdEnterKeeps
  <2>6. /\ SdShape(sd') /\ SdSame(e, sd') /\ sd'.phase = "arg" /\ sd'.left = e.left
        /\ sd'.cmd = cmd /\ sd'.lba = e.lba /\ sd'.buffer = e.buffer
    BY <2>3, <2>5, Zenon DEF SdInv, SdTypes, SdShape, SdSame
  <2>7. SdTypes(sd')
    BY <2>5, <2>6 DEF SdInv, SdTypes, SdSame
  <2>8. SdOK(sd')
    BY <2>5, <2>6, <2>7 DEF SdInv, SdOK, NextSd!StatusOK, SdSame, SdTypes
  <2>9. SdDrives
    BY <1>2, <2>5, <2>6 DEF SdQuiet, SdSame
  <2> QED
    BY <2>7, <2>8, <2>9 DEF SdInv
<1>6. CASE NextSd!StopCommand
  <2>1. sd.phase = "readToken" /\ sd' = NextSd!Enter(i, "stopArg", ArgumentBytes)
    BY <1>3, <1>6 DEF NextSd!StopCommand, NextSd!Exchange
  <2>2. i.selected /\ ArgumentBytes \in Nat
    BY <1>4, <2>1, SdAssumption DEF SdSame, SdInv, SdOK, NextSd!StatusOK
  <2>3. SdInv(sd') /\ sd'.phase = "stopArg" /\ sd'.image = i.image
    BY <1>4, <2>1, <2>2, SdEnterKeeps
  <2> QED
    BY <1>2, <1>4, <2>3 DEF SdQuiet, SdSame
<1>7. CASE \E on \in BOOLEAN : NextSd!Select(on)
  <2>1. PICK on \in BOOLEAN : NextSd!Select(on)
    BY <1>7
  <2>2. CASE sd.selected = on
    <3>1. sd' = sd
      BY <2>1, <2>2 DEF NextSd!Select
    <3> QED
      BY <3>1 DEF SdDrives, NextSd!Blocks, NextSd!Job
  <2>3. CASE sd.selected # on
    <3>1. sd' = [i EXCEPT !.selected = on]
      BY <1>3, <2>1, <2>3 DEF NextSd!Select
    <3>2. /\ SdShape(sd') /\ sd'.selected = on /\ sd'.image = i.image /\ sd'.phase = i.phase
          /\ sd'.left = i.left /\ sd'.cmd = i.cmd /\ sd'.lba = i.lba /\ sd'.buffer = i.buffer
      BY <1>4, <3>1 DEF SdShape
    <3>3. sd'.idle = i.idle /\ sd'.app = i.app /\ sd'.highCapacity = i.highCapacity
      BY <1>4, <3>1 DEF SdShape
    <3>4. sd'.selected \in BOOLEAN
      BY <3>2
    <3>5. SdTypes(sd')
      BY <1>4, <3>2, <3>3, <3>4 DEF SdTypes
    <3>6. SdOK(sd')
      BY <1>4, <3>2 DEF SdInv, SdOK, NextSd!StatusOK, SdTypes
    <3>7. SdDrives
      BY <1>2, <1>4, <3>2 DEF SdQuiet, SdSame
    <3> QED
      BY <3>5, <3>6, <3>7 DEF SdInv
  <2> QED
    BY <2>2, <2>3
<1>8. CASE NextSd!Reset
  <2>1. sd' = [i EXCEPT !.selected = FALSE, !.idle = TRUE, !.app = FALSE,
                        !.highCapacity = FALSE]
    BY <1>3, <1>8 DEF NextSd!Reset
  <2>2. /\ SdShape(sd') /\ sd'.image = i.image /\ sd'.phase = i.phase
        /\ sd'.left = i.left /\ sd'.cmd = i.cmd /\ sd'.lba = i.lba /\ sd'.buffer = i.buffer
    BY <1>4, <2>1, Zenon DEF SdShape
  <2>3. sd'.selected = FALSE /\ sd'.idle = TRUE /\ sd'.app = FALSE /\ sd'.highCapacity = FALSE
    BY <1>4, <2>1 DEF SdShape
  <2>4. SdTypes(sd')
    BY <1>4, <2>2, <2>3, Zenon DEF SdTypes
  <2>5. SdOK(sd')
    BY <1>4, <2>2 DEF SdInv, SdOK, NextSd!StatusOK, SdTypes
  <2>6. SdDrives
    BY <1>2, <1>4, <2>2 DEF SdQuiet, SdSame
  <2> QED
    BY <2>4, <2>5, <2>6 DEF SdInv
<1>9. CASE \E image \in SdImages : NextSd!Attach(image)
  <2>1. PICK image \in SdImages : sd' = NextSd!NewCard(image)
    BY <1>9 DEF NextSd!Attach
  <2>2. image \in Seq(NextSd!Block)
    BY SdAssumption
  <2>3. SdTypes(sd') /\ SdOK(sd')
    BY <2>1, <2>2 DEF SdTypes, SdShape, SdOK, NextSd!StatusOK, NextSd!NewCard, NextSd!Commands
  <2>4. sd'.phase = "idle" /\ sd'.image = image
    BY <2>1 DEF NextSd!NewCard
  <2>5. NextSd!Job' = [op |-> "none"]
    BY <2>4 DEF NextSd!Job
  <2>6. NextSd!Blocks(sd.image)' \in NextSd!Media
    BY <2>4 DEF NextSd!Media, NextSd!Blocks
  <2> QED
    BY <2>3, <2>5, <2>6
       DEF SdInv, SdDrives, NextSd!Drive!Next, NextSd!Drive!Insert, NextSd!Drive!NoJob
<1> QED
  BY <1>5, <1>6, <1>7, <1>8, <1>9, SdServes DEF NextSd!Next

(* At first the card is in order, and a drive at rest.                        *)
LEMMA SdStarts ==
    ASSUME NextSd!Init
    PROVE  SdInv(sd) /\ NextSd!Drive!Init
<1>1. PICK image \in SdImages : sd = NextSd!NewCard(image)
  BY DEF NextSd!Init
<1>2. image \in Seq(NextSd!Block)
  BY SdAssumption
<1>3. SdTypes(sd) /\ SdOK(sd)
  BY <1>1, <1>2 DEF SdTypes, SdShape, SdOK, NextSd!StatusOK, NextSd!NewCard, NextSd!Commands
<1>4. sd.image = image /\ sd.phase = "idle"
  BY <1>1 DEF NextSd!NewCard
<1>5. NextSd!Blocks(sd.image) \in NextSd!Media
  BY <1>4 DEF NextSd!Media
<1> QED
  BY <1>3, <1>4, <1>5 DEF SdInv, NextSd!Drive!Init, NextSd!Drive!NoJob, NextSd!Job

-----------------------------------------------------------------------------
(* The controller of the +3.                                                 *)

P3Shape(c) ==
    c = [disk |-> c.disk, protect |-> c.protect, motor |-> c.motor,
         cylinder |-> c.cylinder, phase |-> c.phase, op |-> c.op, got |-> c.got,
         exec |-> c.exec, at |-> c.at, left |-> c.left, errors |-> c.errors,
         interrupt |-> c.interrupt]

(* What a command executes on, by its phase.                                 *)
P3Exec(c) ==
    /\ c.phase = "read" =>
          c.exec = [place |-> c.exec.place, data |-> c.exec.data]
    /\ c.phase = "write" =>
          /\ c.exec = [track |-> c.exec.track, head |-> c.exec.head,
                       id |-> c.exec.id, data |-> c.exec.data]
    /\ c.phase = "format" =>
          /\ c.exec = [track |-> c.exec.track, fill |-> c.exec.fill, data |-> c.exec.data]
          /\ c.exec.track \in Nat \X Heads /\ c.exec.fill \in 0 .. 255
    /\ c.phase \in {"read", "write", "format"} => c.exec.data \in Seq(0 .. 255)

P3Types(c) ==
    /\ P3Shape(c)
    /\ Plus3!IsImage(c.disk) /\ c.cylinder \in [Units -> Nat]
    /\ c.phase \in {"idle", "command", "read", "write", "format", "result"}
    /\ c.op \in Plus3!Operations /\ c.got \in Nat /\ c.at \in Nat /\ c.left \in Nat

P3Inv(c) == P3Types(c) /\ P3Exec(c) /\ Plus3!StatusOK(c)

P3Same(c, d) ==
    /\ d.disk = c.disk /\ d.cylinder = c.cylinder /\ d.op = c.op /\ d.got = c.got

(* What the controller of the +3 needs of its constants.                      *)
LEMMA P3Assumption ==
    /\ 0 \in Units /\ Heads = {0, 1} /\ Cylinders \subseteq Nat
    /\ Ids \subseteq 0 .. 255 /\ Fills \subseteq 0 .. 255 /\ Plus3Bytes \subseteq 0 .. 255
    /\ SizeCodes \subseteq Nat /\ DataLengths \subseteq Nat /\ Counts \subseteq Nat
    /\ SectorUnit \in Nat \ {0}
    /\ \A disk \in Plus3Disks : Plus3!IsImage(disk)
  BY PeripheralsAssumption DEF Plus3!Plus3Constants

(* Two commands have no operands.                                             *)
LEMMA P3Length ==
    ASSUME NEW op \in Plus3!Operations
    PROVE  /\ Plus3!CommandLength[op] \in {1, 2, 3, 6, 9}
           /\ Plus3!CommandLength[op] = 1 => op \in {"senseInterrupt", "invalid"}
  BY DEF Plus3!Operations, Plus3!CommandLength

(* A set of numbers has a smallest one: what the minimum in FindId needs.     *)
LEMMA SmallestOf ==
    ASSUME NEW I, I \subseteq Nat, I # {}
    PROVE  \E m \in I : \A y \in I : m =< y
<1>1. IsWellFoundedOn(OpToRel(<, Nat), Nat)
  BY NatLessThanWellFounded, Zenon
<1>2. PICK R : R = OpToRel(<, Nat)
  BY Zenon
<1>3. \A x, y \in Nat : <<x, y>> \in R <=> x < y
  BY <1>2 DEF OpToRel
<1>4. PICK m \in I : \A y \in I : ~(<<y, m>> \in R)
  BY <1>1, <1>2, WFMin, Zenon
<1>5. ASSUME NEW y \in I
      PROVE  m =< y
  <2>1. y \in Nat /\ m \in Nat /\ ~(y < m)
    BY <1>3, <1>4, Zenon
  <2> QED
    BY <2>1
<1> QED
  BY <1>5

(* A sector that was found is on the track that was searched.                 *)
LEMMA P3FindId ==
    ASSUME NEW c, NEW t, NEW h, NEW id, Plus3!IsImage(c.disk),
           NEW n, n = Plus3!FindId(c, t, h, id)
    PROVE  /\ n \in Nat
           /\ n # 0 => /\ Plus3!OnTrack(c, t, h)
                       /\ n \in DOMAIN c.disk.tracks[<<t, h>>]
<1>1. PICK secs : secs = Plus3!SectorsAt(c, t, h)
  OBVIOUS
<1>2. secs \in Seq(Plus3!Sector)
  BY <1>1 DEF Plus3!SectorsAt, Plus3!OnTrack, Plus3!IsImage
<1>3. ASSUME NEW I, I \subseteq 1 .. Len(secs), NEW k,
             k = IF I # {} THEN Plus3!Min(I) ELSE 0
      PROVE  k \in Nat /\ (k # 0 => k \in 1 .. Len(secs))
  <2>1. CASE I = {}
    BY <1>3, <2>1
  <2>2. CASE I # {}
    <3>1. \E x \in I : \A y \in I : x =< y
      <4>1. I \subseteq Nat
        BY <1>2, <1>3
      <4>2. PICK x \in I : TRUE
        BY <2>2
      <4>3. \E m \in I : \A y \in I : m =< y
        BY <4>1, <4>2, SmallestOf, Zenon
      <4> QED
        BY <4>3
    <3>2. k \in I
      BY <1>3, <2>2, <3>1, Zenon DEF Plus3!Min
    <3> QED
      BY <1>2, <1>3, <3>2
  <2> QED
    BY <2>1, <2>2
<1>4. PICK I, J : /\ I = {i \in 1 .. Len(secs) : secs[i].id = id /\ secs[i].side = h}
                  /\ J = {i \in 1 .. Len(secs) : secs[i].id = id}
  BY Zenon
<1>5. PICK k, l : /\ k = IF I # {} THEN Plus3!Min(I) ELSE 0
                  /\ l = IF J # {} THEN Plus3!Min(J) ELSE 0
  OBVIOUS
<1>6. n = IF k # 0 THEN k ELSE l
  BY <1>1, <1>4, <1>5 DEF Plus3!FindId, Plus3!SelectInSeq
<1>7. n \in Nat /\ (n # 0 => n \in 1 .. Len(secs))
  BY <1>3, <1>4, <1>5, <1>6, Zenon
<1>8. n # 0 => Plus3!OnTrack(c, t, h) /\ secs = c.disk.tracks[<<t, h>>]
  BY <1>1, <1>7 DEF Plus3!SectorsAt
<1> QED
  BY <1>2, <1>7, <1>8

(* A transfer is never empty.                                                 *)
LEMMA P3TransferLength ==
    ASSUME NEW n \in Nat, NEW dtl, dtl \in Nat \/ dtl = WholeSector
    PROVE  Plus3!TransferLength(n, dtl) \in Nat \ {0}
<1>1. SectorUnit \in Nat \ {0}
  BY P3Assumption
<1>2. CASE n = 0
  BY <1>1, <1>2 DEF Plus3!TransferLength
<1>3. CASE n # 0
  <2>1. PICK k \in 1 .. 6 : k = IF n > 6 THEN 6 ELSE n
    BY <1>3
  <2>2. PICK m : m = <<2, 4, 8, 16, 32, 64>>[k]
    OBVIOUS
  <2>3. m \in {2, 4, 8, 16, 32, 64}
    BY <2>1, <2>2
  <2>4. Plus3!TransferLength(n, dtl) = SectorUnit * m
    BY <1>3, <2>1, <2>2 DEF Plus3!TransferLength
  <2>5. SectorUnit * m \in Nat \ {0}
    BY <1>1, <2>3
  <2> QED
    BY <2>4, <2>5
<1> QED
  BY <1>2, <1>3

(* The phase of the result, and the idle phase.                               *)
LEMMA P3Result ==
    ASSUME NEW c, P3Shape(c), NEW n, NEW errors, NEW d, d = Plus3!Result(c, n, errors)
    PROVE  /\ P3Shape(d) /\ P3Same(c, d) /\ d.phase = "result" /\ d.left = n
           /\ d.exec = Plus3!NoExec /\ d.at = 0
  BY Zenon DEF P3Shape, P3Same, Plus3!Result

LEMMA P3ResultKeeps ==
    ASSUME NEW c, P3Types(c), NEW n \in Nat \ {0}, NEW errors,
           NEW d, d = Plus3!Result(c, n, errors)
    PROVE  P3Inv(d) /\ P3Same(c, d) /\ d.phase = "result" /\ d.left = n
<1>1. P3Shape(c)
  BY DEF P3Types
<1>2. /\ P3Shape(d) /\ P3Same(c, d) /\ d.phase = "result" /\ d.left = n
      /\ d.exec = Plus3!NoExec /\ d.at = 0
  BY <1>1, P3Result
<1>3. P3Types(d)
  BY <1>2 DEF P3Types, P3Same
<1>4. P3Exec(d) /\ Plus3!StatusOK(d)
  BY <1>2 DEF P3Exec, Plus3!StatusOK
<1> QED
  BY <1>2, <1>3, <1>4 DEF P3Inv

(* A command that has its result at once, or nothing to hand out.            *)
P3Still(c) ==
    /\ P3Types(c)
    /\ c.phase \notin {"read", "write", "format"} /\ c.exec = Plus3!NoExec /\ c.at = 0
    /\ c.left = 0

LEMMA P3IdleKeeps ==
    ASSUME NEW c, P3Still(c), NEW d, d = Plus3!Idle(c)
    PROVE  P3Inv(d) /\ P3Same(c, d) /\ d.phase = "idle"
<1>1. P3Shape(c)
  BY DEF P3Still, P3Types
<1>2. /\ P3Shape(d) /\ P3Same(c, d) /\ d.phase = "idle" /\ d.left = c.left
      /\ d.exec = c.exec /\ d.at = c.at
  BY <1>1 DEF P3Shape, P3Same, Plus3!Idle
<1>3. P3Types(d)
  BY <1>2 DEF P3Still, P3Types, P3Same
<1>4. P3Exec(d) /\ Plus3!StatusOK(d)
  BY <1>2 DEF P3Exec, Plus3!StatusOK, P3Still
<1> QED
  BY <1>2, <1>3, <1>4 DEF P3Inv

P3Sets(c, cylinder, interrupt, d) ==
    d = [c EXCEPT !.cylinder = cylinder, !.interrupt = interrupt]

(* Seeks and interrupts leave the transfer alone.                             *)
LEMMA P3SetsKeeps ==
    ASSUME NEW c, P3Still(c), NEW cylinder \in [Units -> Nat], NEW interrupt,
           NEW d, P3Sets(c, cylinder, interrupt, d)
    PROVE  P3Still(d) /\ d.disk = c.disk
<1>1. P3Shape(c)
  BY DEF P3Still, P3Types
<1>2. /\ P3Shape(d) /\ d.disk = c.disk /\ d.op = c.op /\ d.got = c.got
      /\ d.phase = c.phase /\ d.left = c.left /\ d.exec = c.exec /\ d.at = c.at
      /\ d.cylinder = cylinder
  BY <1>1, Zenon DEF P3Shape, P3Sets
<1>3. P3Types(d)
  BY <1>2 DEF P3Still, P3Types
<1> QED
  BY <1>2, <1>3 DEF P3Still

P3Begins(c, ph, exec, errors, d) == d = Plus3!Start(c, ph, exec, errors)

(* A command that begins to execute has bytes to transfer.                    *)
LEMMA P3BeginsKeeps ==
    ASSUME NEW c, P3Still(c), NEW ph \in {"read", "write", "format"},
           NEW exec, NEW errors, NEW d, P3Begins(c, ph, exec, errors, d),
           exec.data \in Seq(0 .. 255), Len(exec.data) > 0,
           ph = "read" => exec = [place |-> exec.place, data |-> exec.data],
           ph = "write" => exec = [track |-> exec.track, head |-> exec.head,
                                   id |-> exec.id, data |-> exec.data],
           ph = "format" =>
              /\ exec = [track |-> exec.track, fill |-> exec.fill, data |-> exec.data]
              /\ exec.track \in Nat \X Heads /\ exec.fill \in 0 .. 255
    PROVE  /\ P3Inv(d) /\ P3Same(c, d) /\ d.phase = ph /\ d.exec = exec /\ d.at = 0
<1>1. P3Shape(c)
  BY DEF P3Still, P3Types
<1>2. /\ P3Shape(d) /\ P3Same(c, d) /\ d.phase = ph /\ d.left = c.left
      /\ d.exec = exec /\ d.at = 0
  BY <1>1, Zenon DEF P3Shape, P3Same, P3Begins, Plus3!Start
<1>3. P3Types(d)
  BY <1>2 DEF P3Still, P3Types, P3Same
<1>4. P3Exec(d)
  BY <1>2 DEF P3Exec
<1>5. Plus3!StatusOK(d)
  BY <1>2 DEF Plus3!StatusOK, P3Still
<1> QED
  BY <1>2, <1>3, <1>4, <1>5 DEF P3Inv

P3OnDisk(c, p) ==
    /\ p = <<p[1], p[2], p[3]>>
    /\ <<p[1], p[2]>> \in DOMAIN c.disk.tracks
    /\ p[3] \in DOMAIN c.disk.tracks[<<p[1], p[2]>>]

P3Answered(c, d) ==
    /\ P3Inv(d) /\ d.disk = c.disk
    /\ d.phase \in {"idle", "result", "read", "write", "format"}
    /\ d.at = 0
    /\ d.phase = "read" =>
          /\ P3OnDisk(c, d.exec.place)
          /\ d.exec.data = Plus3!Transferred(Plus3!DataAt(c, d.exec.place), Len(d.exec.data))

(* The sector that a command names, and its bytes.                            *)
LEMMA P3FindOnDisk ==
    ASSUME NEW c, NEW t, NEW h, NEW id, Plus3!IsImage(c.disk),
           NEW p, p = Plus3!Find(c, t, h, id), Plus3!IsSector(p)
    PROVE  P3OnDisk(c, p)
<1>1. PICK n : n = Plus3!FindId(c, t, h, id)
  OBVIOUS
<1>2. p = <<t, h, n>> /\ n # 0
  BY <1>1 DEF Plus3!Find, Plus3!IsSector
<1>3. <<t, h>> \in DOMAIN c.disk.tracks /\ n \in DOMAIN c.disk.tracks[<<t, h>>]
  BY <1>1, <1>2, P3FindId DEF Plus3!OnTrack
<1> QED
  BY <1>2, <1>3 DEF P3OnDisk

LEMMA P3DataAt ==
    ASSUME NEW c, Plus3!IsImage(c.disk), NEW p, P3OnDisk(c, p)
    PROVE  Plus3!DataAt(c, p) \in Seq(0 .. 255)
<1>1. PICK t : t = <<p[1], p[2]>>
  BY Zenon
<1>2. c.disk.tracks[t] \in Seq(Plus3!Sector) /\ p[3] \in DOMAIN c.disk.tracks[t]
  BY <1>1 DEF Plus3!IsImage, P3OnDisk
<1>3. c.disk.tracks[t][p[3]] \in Plus3!Sector
  BY <1>2
<1> QED
  BY <1>1, <1>3, Zenon DEF Plus3!DataAt, Plus3!Sector

(* As many bytes as the command asked for, whatever the sector has.           *)
LEMMA P3Bytes ==
    ASSUME NEW n \in Nat, NEW data \in Seq(0 .. 255)
    PROVE  /\ Plus3!Transferred(data, n) \in Seq(0 .. 255)
           /\ Len(Plus3!Transferred(data, n)) = n
<1>1. ASSUME NEW i \in 1 .. n, i =< Len(data)
      PROVE  data[i] \in 0 .. 255
  <2>1. i \in 1 .. Len(data)
    BY <1>1, LenProperties
  <2> QED
    BY <2>1, ElementOfSeq
<1>2. Plus3!Transferred(data, n) \in [1 .. n -> 0 .. 255]
  <2>1. \A i \in 1 .. n : (IF i <= Len(data) THEN data[i] ELSE 0) \in 0 .. 255
    BY <1>1
  <2> QED
    BY <2>1 DEF Plus3!Transferred
<1> QED
  BY <1>2, BytesAreBytes, Zenon

(* Each command that executes leaves the controller in order.                 *)
LEMMA P3ReadData ==
    ASSUME NEW c, P3Still(c), NEW q \in Plus3!Transfers,
           NEW d, d = Plus3!ReadData(c, q)
    PROVE  P3Answered(c, d)
<1>1. PICK p : p = Plus3!Found(c, c.cylinder[q.unit], q)
  OBVIOUS
<1>2. PICK t, h, id : p = Plus3!Find(c, t, h, id)
  BY <1>1 DEF Plus3!Found
<1>3. Plus3!IsImage(c.disk) /\ P3Types(c)
  BY DEF P3Still, P3Types
<1>4. CASE ~Plus3!IsSector(p)
  <2>1. d = Plus3!Result(c, 7, {"noData"})
    BY <1>1, <1>4 DEF Plus3!ReadData
  <2>2. P3Inv(d) /\ P3Same(c, d) /\ d.phase = "result"
    BY <1>3, <2>1, P3ResultKeeps
  <2> QED
    BY <2>2 DEF P3Answered, P3Same, P3Inv, Plus3!StatusOK
<1>5. CASE Plus3!IsSector(p)
  <2>1. P3OnDisk(c, p)
    BY <1>2, <1>3, <1>5, P3FindOnDisk
  <2>2. PICK n : n = Plus3!TransferLength(q.n, q.dtl)
    OBVIOUS
  <2>3. n \in Nat \ {0}
    <3>1. q.n \in Nat /\ q.dtl \in Nat
      BY P3Assumption, Zenon DEF Plus3!Transfers
    <3> QED
      BY <2>2, <3>1, P3TransferLength
  <2>4. PICK b : b = Plus3!Transferred(Plus3!DataAt(c, p), n)
    OBVIOUS
  <2>5. b \in Seq(0 .. 255) /\ Len(b) = n
    BY <1>3, <2>1, <2>3, <2>4, P3DataAt, P3Bytes
  <2>6. PICK exec, errors : exec = [place |-> p, data |-> b] /\ errors = Plus3!EndOfCylinder(q)
    BY Zenon
  <2>7. P3Begins(c, "read", exec, errors, d)
    BY <1>1, <1>5, <2>2, <2>4, <2>6 DEF Plus3!ReadData, P3Begins
  <2>8. exec.data = b /\ exec.place = p /\ exec = [place |-> exec.place, data |-> exec.data]
    BY <2>6
  <2>9. exec.data \in Seq(0 .. 255) /\ Len(exec.data) > 0
    BY <2>3, <2>5, <2>8
  <2>10. P3Inv(d) /\ P3Same(c, d) /\ d.phase = "read" /\ d.exec = exec /\ d.at = 0
    BY <2>7, <2>8, <2>9, P3BeginsKeeps
  <2> QED
    BY <2>1, <2>4, <2>5, <2>8, <2>10 DEF P3Answered, P3Same
<1> QED
  BY <1>4, <1>5

LEMMA P3WriteData ==
    ASSUME NEW c, P3Still(c), NEW q \in Plus3!Transfers,
           NEW d, d = Plus3!WriteData(c, q)
    PROVE  P3Answered(c, d)
<1>1. P3Types(c)
  BY DEF P3Still
<1>2. PICK n : n = Plus3!TransferLength(q.n, q.dtl)
  OBVIOUS
<1>3. PICK exec, errors : /\ exec = [track |-> c.cylinder[q.unit], head |-> q.head, id |-> q.id,
                                     data |-> [i \in 1 .. n |-> 0]]
                          /\ errors = Plus3!EndOfCylinder(q)
  BY Zenon
<1>4. \/ \E e : d = Plus3!Result(c, 7, e)
      \/ P3Begins(c, "write", exec, errors, d)
  BY <1>2, <1>3 DEF Plus3!WriteData, P3Begins
<1>5. CASE \E e : d = Plus3!Result(c, 7, e)
  <2>1. P3Inv(d) /\ P3Same(c, d) /\ d.phase = "result"
    BY <1>1, <1>5, P3ResultKeeps
  <2> QED
    BY <2>1 DEF P3Answered, P3Same, P3Inv, Plus3!StatusOK
<1>6. CASE P3Begins(c, "write", exec, errors, d)
  <2>1. n \in Nat \ {0}
    <3>1. q.n \in Nat /\ q.dtl \in Nat
      BY P3Assumption, Zenon DEF Plus3!Transfers
    <3> QED
      BY <1>2, <3>1, P3TransferLength
  <2>2. PICK b : b = [i \in 1 .. n |-> 0]
    BY Zenon
  <2>3. b \in Seq(0 .. 255) /\ Len(b) = n
    BY <2>1, <2>2
  <2>4. exec.data = b /\ exec = [track |-> exec.track, head |-> exec.head,
                                 id |-> exec.id, data |-> exec.data]
    BY <1>3, <2>2
  <2>5. exec.data \in Seq(0 .. 255) /\ Len(exec.data) > 0
    BY <2>1, <2>3, <2>4
  <2>6. P3Inv(d) /\ P3Same(c, d) /\ d.phase = "write" /\ d.at = 0
    BY <1>6, <2>4, <2>5, P3BeginsKeeps
  <2> QED
    BY <2>6 DEF P3Answered, P3Same
<1> QED
  BY <1>4, <1>5, <1>6

LEMMA P3FormatTrack ==
    ASSUME NEW c, P3Still(c),
           NEW q \in [unit : Units, head : Heads, sc : Counts, fill : Fills],
           NEW d, d = Plus3!FormatTrack(c, q)
    PROVE  P3Answered(c, d)
<1>1. P3Types(c) /\ c.cylinder \in [Units -> Nat]
  BY DEF P3Still, P3Types
<1>2. PICK exec : exec = [track |-> <<c.cylinder[q.unit], q.head>>, fill |-> q.fill,
                          data |-> [i \in 1 .. 4 * q.sc |-> 0]]
  BY Zenon
<1>3. \/ \E e : d = Plus3!Result(c, 7, e)
      \/ q.sc # 0 /\ P3Begins(c, "format", exec, {}, d)
  BY <1>2 DEF Plus3!FormatTrack, P3Begins
<1>4. CASE \E e : d = Plus3!Result(c, 7, e)
  <2>1. P3Inv(d) /\ P3Same(c, d) /\ d.phase = "result"
    BY <1>1, <1>4, P3ResultKeeps
  <2> QED
    BY <2>1 DEF P3Answered, P3Same, P3Inv, Plus3!StatusOK
<1>5. CASE q.sc # 0 /\ P3Begins(c, "format", exec, {}, d)
  <2>1. PICK n \in Nat \ {0} : n = 4 * q.sc
    <3>1. PICK k \in Nat : k = q.sc
      BY P3Assumption, Zenon
    <3>2. 4 * k \in Nat \ {0}
      BY <1>5, <3>1
    <3> QED
      BY <3>1, <3>2
  <2>2. PICK b : b = [i \in 1 .. n |-> 0]
    BY Zenon
  <2>3. b \in Seq(0 .. 255) /\ Len(b) = n
    BY <2>1, <2>2
  <2>4. /\ exec.data = b /\ exec.track = <<c.cylinder[q.unit], q.head>> /\ exec.fill = q.fill
        /\ exec = [track |-> exec.track, fill |-> exec.fill, data |-> exec.data]
    BY <1>2, <2>1, <2>2
  <2>5. exec.data \in Seq(0 .. 255) /\ Len(exec.data) > 0
    BY <2>1, <2>3, <2>4
  <2>6. exec.track \in Nat \X Heads /\ exec.fill \in 0 .. 255
    BY <1>1, <2>4, P3Assumption
  <2>7. P3Inv(d) /\ P3Same(c, d) /\ d.phase = "format" /\ d.at = 0
    BY <1>5, <2>4, <2>5, <2>6, P3BeginsKeeps
  <2> QED
    BY <2>7 DEF P3Answered, P3Same
<1> QED
  BY <1>3, <1>4, <1>5

LEMMA P3Execute ==
    ASSUME NEW c, P3Still(c), NEW op \in Plus3!Operations, NEW q,
           Plus3!CommandLength[op] > 1 => q \in Plus3!Requests(op),
           NEW d, d = Plus3!Execute(c, op, q)
    PROVE  P3Answered(c, d)
<1>1. P3Types(c) /\ P3Shape(c) /\ c.cylinder \in [Units -> Nat]
  BY DEF P3Still, P3Types
<1>2. ASSUME NEW n \in Nat \ {0}, NEW errors, NEW e, P3Still(e), e.disk = c.disk,
             d = Plus3!Result(e, n, errors)
      PROVE  P3Answered(c, d)
  <2>1. P3Inv(d) /\ P3Same(e, d) /\ d.phase = "result"
    BY <1>2, P3ResultKeeps DEF P3Still
  <2> QED
    BY <1>2, <2>1 DEF P3Answered, P3Same, P3Inv, Plus3!StatusOK
<1>3. ASSUME NEW e, P3Still(e), e.disk = c.disk, d = Plus3!Idle(e)
      PROVE  P3Answered(c, d)
  <2>1. P3Inv(d) /\ P3Same(e, d) /\ d.phase = "idle"
    BY <1>3, P3IdleKeeps
  <2> QED
    BY <1>3, <2>1 DEF P3Answered, P3Same, P3Inv, Plus3!StatusOK
<1>4. ASSUME NEW unit \in Units, NEW cylinder \in Nat, d = Plus3!Seek(c, unit, cylinder)
      PROVE  P3Answered(c, d)
  <2>1. PICK i, f : i = Plus3!SeekEnd(unit) /\ f = [c.cylinder EXCEPT ![unit] = cylinder]
    BY Zenon
  <2>2. PICK e : e = [c EXCEPT !.cylinder[unit] = cylinder, !.interrupt = i]
    OBVIOUS
  <2>3. P3Sets(c, f, i, e)
    BY <2>1, <2>2 DEF P3Sets
  <2>4. f \in [Units -> Nat]
    BY <1>1, <2>1
  <2>5. P3Still(e) /\ e.disk = c.disk
    BY <2>3, <2>4, P3SetsKeeps
  <2>6. d = Plus3!Idle(e)
    BY <1>4, <2>1, <2>2 DEF Plus3!Seek
  <2> QED
    BY <1>3, <2>5, <2>6
<1>5. CASE op = "senseInterrupt"
  <2>1. d = Plus3!SenseInterrupt(c)
    BY <1>5 DEF Plus3!Execute
  <2>2. PICK i, f : i = Plus3!NoInterrupt /\ f = c.cylinder
    OBVIOUS
  <2>3. PICK e : e = [c EXCEPT !.interrupt = i]
    BY Zenon
  <2>4. P3Sets(c, f, i, e)
    BY <1>1, <2>2, <2>3, Zenon DEF P3Sets, P3Shape
  <2>5. P3Still(e) /\ e.disk = c.disk
    BY <1>1, <2>2, <2>4, P3SetsKeeps
  <2>6. d = Plus3!Result(c, 1, {"invalid"}) \/ d = Plus3!Result(e, 2, {})
    BY <2>1, <2>2, <2>3 DEF Plus3!SenseInterrupt
  <2> QED
    BY <1>2, <2>5, <2>6
<1>6. CASE op \in {"specify", "invalid", "senseDrive"}
  <2>1. d = Plus3!Idle(c) \/ \E e : d = Plus3!Result(c, 1, e)
    BY <1>6 DEF Plus3!Execute, Plus3!Specify, Plus3!SenseDrive
  <2> QED
    BY <1>2, <1>3, <2>1
<1>7. CASE op = "recalibrate"
  <2>1. q \in [unit : Units]
    BY <1>7 DEF Plus3!Requests, Plus3!CommandLength
  <2>2. d = Plus3!Seek(c, q.unit, 0)
    BY <1>7 DEF Plus3!Execute
  <2> QED
    BY <1>4, <2>1, <2>2
<1>8. CASE op = "seek"
  <2>1. q \in [unit : Units, cylinder : Cylinders] /\ Cylinders \subseteq Nat
    BY <1>8, P3Assumption DEF Plus3!Requests, Plus3!CommandLength
  <2>2. d = Plus3!Seek(c, q.unit, q.cylinder)
    BY <1>8 DEF Plus3!Execute
  <2> QED
    BY <1>4, <2>1, <2>2, Zenon
<1>9. CASE op = "readId"
  <2>1. \E e : d = Plus3!Result(c, 7, e)
    BY <1>9 DEF Plus3!Execute, Plus3!ReadId
  <2> QED
    BY <1>2, <2>1
<1>10. CASE op = "read"
  <2>1. q \in Plus3!Transfers /\ d = Plus3!ReadData(c, q)
    BY <1>10 DEF Plus3!Requests, Plus3!CommandLength, Plus3!Execute
  <2> QED
    BY <2>1, P3ReadData
<1>11. CASE op = "write"
  <2>1. q \in Plus3!Transfers /\ d = Plus3!WriteData(c, q)
    BY <1>11 DEF Plus3!Requests, Plus3!CommandLength, Plus3!Execute
  <2> QED
    BY <2>1, P3WriteData
<1>12. CASE op = "format"
  <2>1. /\ q \in [unit : Units, head : Heads, sc : Counts, fill : Fills]
        /\ d = Plus3!FormatTrack(c, q)
    BY <1>12 DEF Plus3!Requests, Plus3!CommandLength, Plus3!Execute
  <2> QED
    BY <2>1, P3FormatTrack
<1> QED
  BY <1>5, <1>6, <1>7, <1>8, <1>9, <1>10, <1>11, <1>12
     DEF Plus3!Operations, Plus3!CommandLength

P3Drives == Plus3!Drive!Next \/ UNCHANGED <<Plus3!SectorsOf(fdc.disk), Plus3!Job>>

P3Quiet(c) == c.phase \notin {"read", "write", "format"}

(* A controller without a transfer is a drive without a job.                 *)
LEMMA P3Ends ==
    ASSUME P3Quiet(fdc'), fdc'.disk = fdc.disk
    PROVE  P3Drives
<1>1. Plus3!Job' = [op |-> "none"]
  BY DEF P3Quiet, Plus3!Job
<1>2. Plus3!SectorsOf(fdc.disk)' = Plus3!SectorsOf(fdc.disk)
  BY DEF Plus3!SectorsOf
<1> QED
  BY <1>1, <1>2 DEF P3Drives, Plus3!Drive!Next, Plus3!Drive!GiveUp, Plus3!Drive!NoJob

P3Medium(disk, s) ==
    /\ \A t, h, i : <<t, h, i>> \in DOMAIN s <=>
          <<t, h>> \in DOMAIN disk.tracks /\ i \in DOMAIN disk.tracks[<<t, h>>]
    /\ \A p \in DOMAIN s :
          /\ p = <<p[1], p[2], p[3]>>
          /\ s[p] = disk.tracks[<<p[1], p[2]>>][p[3]].data
    /\ s = [p \in DOMAIN s |-> s[p]]

(* The places on a medium are the sectors of its tracks.                     *)
LEMMA P3Places ==
    ASSUME NEW disk, Plus3!IsImage(disk), NEW s, s = Plus3!SectorsOf(disk)
    PROVE  P3Medium(disk, s)
<1>1. PICK tracks : tracks = disk.tracks
  OBVIOUS
<1>2. PICK D : D = UNION {{<<t[1], t[2], i>> : i \in DOMAIN tracks[t]} : t \in DOMAIN tracks}
  BY Zenon
<1>3. s = [p \in D |-> tracks[<<p[1], p[2]>>][p[3]].data]
  BY <1>1, <1>2 DEF Plus3!SectorsOf
<1>4. \A t \in DOMAIN tracks : t = <<t[1], t[2]>>
  BY <1>1 DEF Plus3!IsImage
<1>5. ASSUME NEW p \in D
      PROVE  /\ p = <<p[1], p[2], p[3]>> /\ <<p[1], p[2]>> \in DOMAIN tracks
             /\ p[3] \in DOMAIN tracks[<<p[1], p[2]>>]
  <2>0. PICK t \in DOMAIN tracks : p \in {<<t[1], t[2], i>> : i \in DOMAIN tracks[t]}
    BY <1>2
  <2>1. PICK i \in DOMAIN tracks[t] : p = <<t[1], t[2], i>>
    BY <2>0
  <2>2. p[1] = t[1] /\ p[2] = t[2] /\ p[3] = i
    BY <2>1
  <2>3. t = <<t[1], t[2]>>
    BY <1>4
  <2> QED
    BY <2>1, <2>2, <2>3
<1>6. ASSUME NEW t, NEW h, NEW i, <<t, h>> \in DOMAIN tracks, i \in DOMAIN tracks[<<t, h>>]
      PROVE  <<t, h, i>> \in D
  <2>1. PICK u \in DOMAIN tracks : u = <<t, h>>
    BY <1>6
  <2>2. u[1] = t /\ u[2] = h
    BY <2>1
  <2>3. <<t, h, i>> \in {<<u[1], u[2], k>> : k \in DOMAIN tracks[u]}
    BY <1>6, <2>1, <2>2
  <2> QED
    BY <1>2, <2>3
<1>7. ASSUME NEW t, NEW h, NEW i, <<t, h, i>> \in D
      PROVE  <<t, h>> \in DOMAIN tracks /\ i \in DOMAIN tracks[<<t, h>>]
  <2>1. PICK p \in D : p = <<t, h, i>>
    BY <1>7
  <2>2. p[1] = t /\ p[2] = h /\ p[3] = i
    BY <2>1
  <2> QED
    BY <1>5, <2>2
<1>8. DOMAIN s = D
  BY <1>3
<1> QED
  BY <1>1, <1>3, <1>5, <1>6, <1>7, <1>8, Zenon DEF P3Medium

(* What a read will hand out is the sector as it is when it begins.          *)
LEMMA P3Reads ==
    ASSUME Plus3!IsImage(fdc.disk), fdc'.disk = fdc.disk, P3Answered(fdc, fdc'),
           fdc'.phase = "read"
    PROVE  Plus3!Drive!Next
<1>1. PICK p, b, s : p = fdc'.exec.place /\ b = fdc'.exec.data /\ s = Plus3!SectorsOf(fdc.disk)
  OBVIOUS
<1>2. /\ P3OnDisk(fdc, p) /\ b = Plus3!Transferred(Plus3!DataAt(fdc, p), Len(b))
      /\ fdc'.at = 0 /\ b \in Seq(0 .. 255)
  BY <1>1 DEF P3Answered, P3Inv, P3Exec
<1>3. b \in Seq(Nat)
  BY <1>2, LenProperties, BytesAreSeq
<1>4. Plus3!Job' = [op |-> "read", at |-> p, bytes |-> b]
  <2>1. Plus3!Job' = [op |-> "read", at |-> p, bytes |-> SubSeq(b, 1, Len(b))]
    BY <1>1, <1>2 DEF Plus3!Job
  <2> QED
    BY <1>3, <2>1, SubSeqWhole
<1>5. Plus3!SectorsOf(fdc.disk)' = s
  BY <1>1 DEF Plus3!SectorsOf
<1>6. p \in DOMAIN s /\ s[p] = Plus3!DataAt(fdc, p)
  <2>1. PICK t, h, i : t = p[1] /\ h = p[2] /\ i = p[3]
    OBVIOUS
  <2>2. p = <<t, h, i>> /\ <<t, h>> \in DOMAIN fdc.disk.tracks /\ i \in DOMAIN fdc.disk.tracks[<<t, h>>]
    BY <1>2, <2>1 DEF P3OnDisk
  <2>3. p \in DOMAIN s
    BY <1>1, <2>2, P3Places DEF P3Medium
  <2>4. s[p] = fdc.disk.tracks[<<p[1], p[2]>>][p[3]].data
    <3>1. P3Medium(fdc.disk, s)
      BY <1>1, P3Places
    <3> QED
      BY <2>3, <3>1 DEF P3Medium
  <2> QED
    BY <2>3, <2>4 DEF Plus3!DataAt
<1>7. b = Plus3!Drive!Resized(s[p], Len(b))
  BY <1>2, <1>6 DEF Plus3!Drive!Resized, Plus3!Transferred
<1>8. Plus3!Drive!Reads
  BY <1>1, <1>4, <1>6, <1>7 DEF Plus3!Drive!Reads, Plus3!Drive!On
<1> QED
  BY <1>1, <1>5, <1>8 DEF Plus3!Drive!Next, Plus3!Drive!Begin

(* Whatever a command comes to begins a job, or ends it.                     *)
LEMMA P3Begun ==
    ASSUME Plus3!IsImage(fdc.disk), NEW c, c.disk = fdc.disk, P3Answered(c, fdc')
    PROVE  P3Drives
<1>1. fdc'.disk = fdc.disk /\ fdc'.at = 0 /\ P3Inv(fdc')
  BY DEF P3Answered
<1>2. CASE fdc'.phase = "read"
  <2>1. P3Answered(fdc, fdc')
    BY DEF P3Answered, P3OnDisk, Plus3!DataAt
  <2> QED
    BY <1>1, <1>2, <2>1, P3Reads, SMTT(20) DEF P3Drives
<1>3. CASE fdc'.phase = "write"
  <2>1. fdc'.exec.data \in Seq(0 .. 255)
    BY <1>1, <1>3 DEF P3Inv, P3Exec
  <2>2. SubSeq(fdc'.exec.data, 1, 0) = <<>>
    BY <2>1, SubSeqEmpty
  <2>3. Plus3!Job'.op = "write" /\ Plus3!Job'.bytes = <<>>
    BY <1>1, <1>3, <2>2 DEF Plus3!Job
  <2>4. Plus3!SectorsOf(fdc.disk)' = Plus3!SectorsOf(fdc.disk)
    BY <1>1 DEF Plus3!SectorsOf
  <2> QED
    BY <2>3, <2>4 DEF P3Drives, Plus3!Drive!Next, Plus3!Drive!Begin, Plus3!Drive!Writes
<1>4. CASE fdc'.phase = "format"
  <2>1. Plus3!Job'.op = "format"
    BY <1>4 DEF Plus3!Job
  <2>2. Plus3!SectorsOf(fdc.disk)' = Plus3!SectorsOf(fdc.disk)
    BY <1>1 DEF Plus3!SectorsOf
  <2> QED
    BY <2>1, <2>2 DEF P3Drives, Plus3!Drive!Next, Plus3!Drive!Begin, Plus3!Drive!Formats
<1>5. CASE P3Quiet(fdc')
  BY <1>1, <1>5, P3Ends
<1> QED
  BY <1>2, <1>3, <1>4, <1>5 DEF P3Quiet

(* One more byte of a transfer.                                              *)
P3Counts(c, n, d) == d = [c EXCEPT !.at = n]

P3Went(c, n, d) ==
    /\ P3Same(c, d) /\ d.phase = c.phase /\ d.exec = c.exec
    /\ d.at = n /\ d.left = c.left /\ d.errors = c.errors

(* One byte more of what is being executed.                                   *)
LEMMA P3CountsKeeps ==
    ASSUME NEW c, P3Inv(c), NEW n \in Nat, NEW d, P3Counts(c, n, d)
    PROVE  P3Types(d) /\ P3Exec(d) /\ P3Went(c, n, d)
<1>1. P3Shape(c) /\ P3Types(c) /\ P3Exec(c)
  BY DEF P3Inv, P3Types
<1>2. /\ P3Shape(d) /\ P3Same(c, d) /\ d.phase = c.phase /\ d.exec = c.exec
      /\ d.at = n /\ d.left = c.left /\ d.errors = c.errors
  BY <1>1 DEF P3Shape, P3Same, P3Counts
<1>3. P3Types(d)
  BY <1>1, <1>2 DEF P3Types, P3Same
<1>4. P3Exec(d)
  BY <1>1, <1>2 DEF P3Exec
<1> QED
  BY <1>2, <1>3, <1>4 DEF P3Went

(* The stages of a command.                                                   *)
LEMMA P3Stages ==
    ASSUME NEW c
    PROVE  /\ c.phase = "idle" => Plus3!Stage(c) = 0
           /\ c.phase = "result" => Plus3!Stage(c) = 1
           /\ c.phase \in {"read", "write", "format"} => Plus3!Stage(c) = 2
           /\ c.phase = "command" => Plus3!Stage(c) = 3
  BY DEF Plus3!Stage

P3Served == P3Inv(fdc') /\ Plus3!Nearer /\ P3Drives

(* A byte handed out: of the sector, or of the result.                        *)
LEMMA P3Gives ==
    ASSUME P3Inv(fdc), fdc.phase = "read"
    PROVE  fdc' = Plus3!ExecRead(fdc) => P3Served
<1>1. SUFFICES ASSUME fdc' = Plus3!ExecRead(fdc)
               PROVE  P3Served
  OBVIOUS
<1>2. PICK a \in Nat, b \in Seq(0 .. 255), p \in {fdc.exec.place} :
         a = fdc.at /\ b = fdc.exec.data
  BY DEF P3Inv, P3Types, P3Exec
<1>3. a < Len(b)
  BY <1>2 DEF P3Inv, Plus3!StatusOK
<1>4. PICK n \in Nat : n = a + 1
  BY <1>2
<1>5. PICK d : P3Counts(fdc, n, d)
  BY Zenon DEF P3Counts
<1>6. /\ P3Types(d) /\ P3Exec(d) /\ P3Same(fdc, d) /\ d.phase = "read" /\ d.exec = fdc.exec
      /\ d.at = n /\ d.left = fdc.left
  <2>1. P3Types(d) /\ P3Exec(d) /\ P3Went(fdc, n, d)
    BY <1>5, P3CountsKeeps
  <2> QED
    BY <2>1 DEF P3Went
<1>7. fdc' = IF n < Len(b) THEN d ELSE Plus3!Result(d, 7, d.errors)
  <2>1. d = [fdc EXCEPT !.at = @ + 1]
    BY <1>2, <1>4, <1>5 DEF P3Counts, P3Inv, P3Types, P3Shape
  <2> QED
    BY <1>1, <1>2, <1>6, <2>1 DEF Plus3!ExecRead
<1>8. CASE n < Len(b)
  <2>1. fdc' = d
    BY <1>7, <1>8
  <2>2. P3Inv(fdc')
    BY <1>2, <1>6, <1>8, <2>1 DEF P3Inv, Plus3!StatusOK
  <2>3. Plus3!Nearer
    <3>1. Plus3!Left(fdc) = Len(b) - a /\ Plus3!Left(fdc') = Len(b) - n
      BY <1>2, <1>6, <2>1 DEF Plus3!Left
    <3>2. Len(b) - n < Len(b) - a
      BY <1>2, <1>4
    <3> QED
      BY <1>6, <2>1, <3>1, <3>2, P3Stages DEF Plus3!Nearer
  <2>4. PICK s, t, j : /\ s = SubSeq(b, a + 1, Len(b)) /\ t = SubSeq(b, n + 1, Len(b))
                       /\ j = Plus3!Job
    BY Zenon
  <2>5. j = [op |-> "read", at |-> p, bytes |-> s]
    BY <1>2, <2>4 DEF Plus3!Job
  <2>6. Plus3!Job' = [op |-> "read", at |-> p, bytes |-> t]
    BY <1>2, <1>6, <2>1, <2>4, Zenon DEF Plus3!Job
  <2>7. s # <<>> /\ t = Tail(s)
    <3>1. b \in Seq(Nat)
      BY LenProperties, BytesAreSeq
    <3>2. n + 1 = a + 2
      BY <1>2, <1>4
    <3> QED
      BY <1>2, <1>3, <2>4, <3>1, <3>2, SubSeqTail, Zenon
  <2>8. Plus3!Job' = [j EXCEPT !.bytes = Tail(@)]
    <3>1. PICK k : k = Plus3!Job'
      OBVIOUS
    <3>2. k = [op |-> "read", at |-> p, bytes |-> t]
      BY <2>6, <3>1
    <3>3. Given(j, k)
      BY <2>5, <2>7, <3>2, JobGiven, Zenon
    <3> QED
      BY <3>1, <3>3 DEF Given
  <2>9. j.op = "read" /\ j.bytes = s
    BY <2>5
  <2>10. Plus3!SectorsOf(fdc.disk)' = Plus3!SectorsOf(fdc.disk)
    BY <1>6, <2>1 DEF Plus3!SectorsOf, P3Same
  <2>11. Plus3!Drive!Give
    BY <2>4, <2>7, <2>8, <2>9, <2>10 DEF Plus3!Drive!Give
  <2> QED
    BY <2>2, <2>3, <2>11 DEF P3Served, P3Drives, Plus3!Drive!Next
<1>9. CASE ~(n < Len(b))
  <2>1. fdc' = Plus3!Result(d, 7, d.errors)
    BY <1>7, <1>9
  <2>2. P3Inv(fdc') /\ P3Same(d, fdc') /\ fdc'.phase = "result"
    BY <1>6, <2>1, P3ResultKeeps
  <2>3. P3Drives
    BY <1>6, <2>2, P3Ends DEF P3Quiet, P3Same
  <2>4. Plus3!Nearer
    BY <2>2, P3Stages DEF Plus3!Nearer
  <2> QED
    BY <2>2, <2>3, <2>4 DEF P3Served
<1> QED
  BY <1>8, <1>9

LEMMA P3Collects ==
    ASSUME P3Inv(fdc), fdc.phase = "result"
    PROVE  fdc' = Plus3!CollectResult(fdc) => P3Served
<1>1. SUFFICES ASSUME fdc' = Plus3!CollectResult(fdc)
               PROVE  P3Served
  OBVIOUS
<1>2. P3Shape(fdc) /\ P3Types(fdc) /\ fdc.exec = Plus3!NoExec /\ fdc.at = 0
  BY DEF P3Inv, P3Types, Plus3!StatusOK
<1>3. PICK n \in Nat : n = fdc.left
  BY <1>2 DEF P3Types
<1>4. CASE n > 1
  <2>1. PICK m \in Nat : m = n - 1 /\ m > 0 /\ m < n
    BY <1>4
  <2>2. fdc' = [fdc EXCEPT !.left = m]
    BY <1>1, <1>2, <1>3, <1>4, <2>1 DEF Plus3!CollectResult, P3Shape
  <2>3. /\ P3Shape(fdc') /\ P3Same(fdc, fdc') /\ fdc'.phase = "result" /\ fdc'.left = m
        /\ fdc'.exec = fdc.exec /\ fdc'.at = fdc.at
    BY <1>2, <2>2 DEF P3Shape, P3Same
  <2>4. P3Types(fdc')
    BY <1>2, <2>3 DEF P3Types, P3Same
  <2>5. P3Exec(fdc') /\ Plus3!StatusOK(fdc')
    BY <1>2, <2>1, <2>3 DEF P3Exec, Plus3!StatusOK
  <2>6. Plus3!Nearer
    BY <1>3, <2>1, <2>3, P3Stages DEF Plus3!Nearer, Plus3!Left
  <2> QED
    BY <2>3, <2>4, <2>5, <2>6, P3Ends DEF P3Served, P3Inv, P3Quiet, P3Same
<1>5. CASE ~(n > 1)
  <2>1. PICK e : e = [fdc EXCEPT !.left = 0, !.errors = {}]
    OBVIOUS
  <2>2. fdc' = Plus3!Idle(e)
    BY <1>1, <1>3, <1>5, <2>1 DEF Plus3!CollectResult
  <2>3. /\ P3Shape(e) /\ P3Same(fdc, e) /\ e.phase = "result" /\ e.left = 0
        /\ e.exec = fdc.exec /\ e.at = fdc.at
    BY <1>2, <2>1, Zenon DEF P3Shape, P3Same
  <2>4. P3Still(e)
    BY <1>2, <2>3 DEF P3Still, P3Types, P3Same
  <2>5. P3Inv(fdc') /\ P3Same(e, fdc') /\ fdc'.phase = "idle"
    BY <2>2, <2>4, P3IdleKeeps
  <2>6. Plus3!Nearer
    BY <2>5, P3Stages DEF Plus3!Nearer
  <2> QED
    BY <2>3, <2>5, <2>6, P3Ends DEF P3Served, P3Quiet, P3Same
<1> QED
  BY <1>4, <1>5

(* Storing in a sector of the image.                                         *)
P3Stores(c, t, i, data, d) ==
    d = [c EXCEPT !.disk.tracks[t][i].data = Plus3!Overlaid(@, data)]

P3Edited(a, t, i, data, b) ==
    b = [a EXCEPT ![t] =
            [a[t] EXCEPT ![i] =
                [a[t][i] EXCEPT !.data = Plus3!Overlaid(a[t][i].data, data)]]]

P3Stored(c, t, i, data, d) ==
    /\ P3Edited(c.disk.tracks, t, i, data, d.disk.tracks)
    /\ d.phase = c.phase /\ d.errors = c.errors

(* Bytes laid over a sector are bytes, and the disk stays an image.           *)
LEMMA P3Overlaid ==
    ASSUME NEW old \in Seq(0 .. 255), NEW new \in Seq(0 .. 255)
    PROVE  Plus3!Overlaid(old, new) \in Seq(0 .. 255)
<1>1. PICK n \in Nat : n = Len(old) /\ DOMAIN old = 1 .. n
  BY LenProperties
<1>2. ASSUME NEW i \in 1 .. n
      PROVE  (IF i <= Len(new) THEN new[i] ELSE old[i]) \in 0 .. 255
  <2>1. CASE i <= Len(new)
    <3>1. i \in 1 .. Len(new)
      BY <2>1, LenProperties
    <3> QED
      BY <2>1, <3>1, ElementOfSeq
  <2>2. CASE ~(i <= Len(new))
    BY <1>1, <2>2, ElementOfSeq
  <2> QED
    BY <2>1, <2>2
<1>3. Plus3!Overlaid(old, new) \in [1 .. n -> 0 .. 255]
  BY <1>1, <1>2 DEF Plus3!Overlaid
<1> QED
  BY <1>3, BytesAreBytes

LEMMA P3StoresKeeps ==
    ASSUME NEW c, P3Types(c), NEW t, t \in DOMAIN c.disk.tracks,
           NEW i, i \in DOMAIN c.disk.tracks[t], NEW data \in Seq(0 .. 255),
           NEW d, P3Stores(c, t, i, data, d)
    PROVE  P3Types(d) /\ P3Stored(c, t, i, data, d)
<1>1. P3Shape(c) /\ Plus3!IsImage(c.disk)
  BY DEF P3Types
<1>2. PICK disk, tracks, secs, sec, bytes :
        /\ disk = c.disk /\ tracks = disk.tracks /\ secs = tracks[t] /\ sec = secs[i]
        /\ bytes = Plus3!Overlaid(sec.data, data)
  OBVIOUS
<1>3. t \in DOMAIN tracks /\ t \in Nat \X Heads /\ secs \in Seq(Plus3!Sector) /\ i \in DOMAIN secs
  BY <1>1, <1>2 DEF Plus3!IsImage
<1>4. sec \in Plus3!Sector
  BY <1>2, <1>3
<1>5. bytes \in Seq(0 .. 255)
  BY <1>2, <1>4, P3Overlaid, ZenonT(30) DEF Plus3!Sector
<1>6. PICK sec2 : sec2 = [sec EXCEPT !.data = bytes]
  BY Zenon
<1>7. sec2 \in Plus3!Sector
  BY <1>4, <1>5, <1>6, ZenonT(30) DEF Plus3!Sector
<1>8. PICK secs2 : secs2 = [secs EXCEPT ![i] = sec2]
  BY Zenon
<1>9. secs2 \in Seq(Plus3!Sector)
  BY <1>3, <1>7, <1>8
<1>10. PICK tracks2 : tracks2 = [tracks EXCEPT ![t] = secs2]
  BY Zenon
<1>11. PICK disk2 : disk2 = [disk EXCEPT !.tracks = tracks2]
  BY Zenon
<1>12. disk2.sides = disk.sides /\ disk2.tracks = tracks2
       /\ disk2 = [sides |-> disk2.sides, tracks |-> disk2.tracks]
  BY <1>1, <1>2, <1>11, Zenon DEF Plus3!IsImage
<1>13. Plus3!IsImage(disk2)
  <2>1. tracks = [u \in DOMAIN tracks |-> tracks[u]]
    BY <1>1, <1>2 DEF Plus3!IsImage
  <2>2. DOMAIN tracks2 = DOMAIN tracks /\ tracks2 = [u \in DOMAIN tracks2 |-> tracks2[u]]
    BY <1>10, <2>1, Zenon
  <2>3. \A u \in DOMAIN tracks : tracks2[u] = IF u = t THEN secs2 ELSE tracks[u]
    BY <1>10, <2>1
  <2>4. \A u \in DOMAIN tracks : u \in Nat \X Heads /\ tracks[u] \in Seq(Plus3!Sector)
    BY <1>1, <1>2 DEF Plus3!IsImage
  <2>5. \A u \in DOMAIN tracks2 : u \in Nat \X Heads /\ tracks2[u] \in Seq(Plus3!Sector)
    BY <1>9, <2>2, <2>3, <2>4, Zenon
  <2> QED
    BY <1>12, <2>2, <2>5 DEF Plus3!IsImage
<1>14. d = [c EXCEPT !.disk = disk2]
  BY <1>1, <1>2, <1>6, <1>8, <1>10, <1>11 DEF P3Stores, P3Shape
<1>15. /\ P3Shape(d) /\ d.disk = disk2 /\ d.cylinder = c.cylinder /\ d.op = c.op
       /\ d.got = c.got /\ d.phase = c.phase /\ d.left = c.left /\ d.at = c.at
       /\ d.errors = c.errors
  BY <1>1, <1>14 DEF P3Shape
<1>16. P3Types(d)
  BY <1>13, <1>15 DEF P3Types
<1>17. d.disk.tracks = tracks2
  BY <1>12, <1>15
<1>18. P3Edited(tracks, t, i, data, tracks2)
  BY <1>2, <1>6, <1>8, <1>10 DEF P3Edited
<1> QED
  BY <1>2, <1>15, <1>16, <1>17, <1>18 DEF P3Stored

P3Written(s, p, data, r) ==
    p \in DOMAIN s /\ r = [s EXCEPT ![p] = Plus3!Overlaid(s[p], data)]

(* Then the medium has these bytes at that place.                            *)
LEMMA P3StoresAt ==
    ASSUME NEW disk, Plus3!IsImage(disk), NEW e, Plus3!IsImage(e),
           NEW p, p = <<p[1], p[2], p[3]>>,
           NEW t, t = <<p[1], p[2]>>, t \in DOMAIN disk.tracks,
           p[3] \in DOMAIN disk.tracks[t], NEW data,
           P3Edited(disk.tracks, t, p[3], data, e.tracks),
           NEW s, s = Plus3!SectorsOf(disk), NEW r, r = Plus3!SectorsOf(e)
    PROVE  P3Written(s, p, data, r)
<1>1. P3Medium(disk, s) /\ P3Medium(e, r)
  BY P3Places
<1>2. PICK tracks, tracks2, i : tracks = disk.tracks /\ tracks2 = e.tracks /\ i = p[3]
  OBVIOUS
<1>3. PICK secs, sec : secs = tracks[t] /\ sec = secs[i]
  OBVIOUS
<1>4. PICK sec2, secs2 : /\ sec2 = [sec EXCEPT !.data = Plus3!Overlaid(sec.data, data)]
                         /\ secs2 = [secs EXCEPT ![i] = sec2]
  BY Zenon
<1>5. tracks2 = [tracks EXCEPT ![t] = secs2]
  BY <1>2, <1>3, <1>4 DEF P3Edited
<1>6. secs \in Seq(Plus3!Sector) /\ i \in DOMAIN secs /\ t \in DOMAIN tracks
      /\ tracks = [u \in DOMAIN tracks |-> tracks[u]]
      /\ \A u \in DOMAIN tracks : tracks[u] \in Seq(Plus3!Sector)
  BY <1>2, <1>3 DEF Plus3!IsImage
<1>7. /\ DOMAIN secs2 = DOMAIN secs
      /\ \A k \in DOMAIN secs : secs2[k] = IF k = i THEN sec2 ELSE secs[k]
  BY <1>4, <1>6
<1>8. sec2.data = Plus3!Overlaid(sec.data, data)
  <2>1. sec \in Plus3!Sector
    BY <1>3, <1>6
  <2> QED
    BY <1>4, <2>1 DEF Plus3!Sector
<1>9. /\ DOMAIN tracks2 = DOMAIN tracks
      /\ \A u \in DOMAIN tracks : tracks2[u] = IF u = t THEN secs2 ELSE tracks[u]
  BY <1>5, <1>6
<1>10. \A u \in DOMAIN tracks : DOMAIN tracks2[u] = DOMAIN tracks[u]
  BY <1>3, <1>7, <1>9
<1>11. ASSUME NEW a, NEW h, NEW k
       PROVE  <<a, h, k>> \in DOMAIN s <=> <<a, h, k>> \in DOMAIN r
  <2>1. PICK u : u = <<a, h>>
    BY Zenon
  <2>2. <<a, h, k>> \in DOMAIN s <=> u \in DOMAIN tracks /\ k \in DOMAIN tracks[u]
    BY <1>1, <1>2, <2>1 DEF P3Medium
  <2>3. <<a, h, k>> \in DOMAIN r <=> u \in DOMAIN tracks2 /\ k \in DOMAIN tracks2[u]
    BY <1>1, <1>2, <2>1 DEF P3Medium
  <2> QED
    BY <1>9, <1>10, <2>2, <2>3
<1>12. DOMAIN r = DOMAIN s
  <2>1. \A q \in DOMAIN s : q = <<q[1], q[2], q[3]>>
    BY <1>1, Zenon DEF P3Medium
  <2>2. \A q \in DOMAIN r : q = <<q[1], q[2], q[3]>>
    BY <1>1, Zenon DEF P3Medium
  <2> QED
    BY <1>11, <2>1, <2>2
<1>13. p \in DOMAIN s
  <2>1. PICK a, h : a = p[1] /\ h = p[2]
    OBVIOUS
  <2>2. p = <<a, h, i>> /\ t = <<a, h>>
    BY <1>2, <2>1
  <2>3. <<a, h>> \in DOMAIN disk.tracks /\ i \in DOMAIN disk.tracks[<<a, h>>]
    BY <1>2, <2>2
  <2> QED
    BY <1>1, <2>2, <2>3 DEF P3Medium
<1>14. ASSUME NEW q \in DOMAIN s
       PROVE  r[q] = IF q = p THEN Plus3!Overlaid(s[p], data) ELSE s[q]
  <2>1. PICK u, k : u = <<q[1], q[2]>> /\ k = q[3]
    BY Zenon
  <2>2. q = <<q[1], q[2], k>> /\ r[q] = tracks2[u][k].data /\ s[q] = tracks[u][k].data
    BY <1>1, <1>2, <1>12, <2>1 DEF P3Medium
  <2>3. u \in DOMAIN tracks /\ k \in DOMAIN tracks[u]
    <3>1. PICK a, h : a = q[1] /\ h = q[2]
      OBVIOUS
    <3>2. <<a, h, k>> \in DOMAIN s /\ u = <<a, h>>
      BY <2>1, <2>2, <3>1
    <3>3. <<a, h>> \in DOMAIN disk.tracks /\ k \in DOMAIN disk.tracks[<<a, h>>]
      BY <1>1, <3>2 DEF P3Medium
    <3> QED
      BY <1>2, <3>2, <3>3
  <2>4. CASE q = p
    <3>1. u = t /\ k = i
      BY <1>2, <2>1, <2>4
    <3>2. tracks2[u][k] = sec2 /\ tracks[u][k] = sec
      BY <1>3, <1>6, <1>7, <1>9, <3>1, Zenon
    <3> QED
      BY <1>8, <2>2, <2>4, <3>2
  <2>5. CASE q # p
    <3>1. ~(u = t /\ k = i)
      BY <1>2, <2>1, <2>2, <2>5
    <3>2. tracks2[u][k] = tracks[u][k]
      BY <1>3, <1>7, <1>9, <2>3, <3>1
    <3> QED
      BY <2>2, <2>5, <3>2
  <2> QED
    BY <2>4, <2>5
<1>15. s = [q \in DOMAIN s |-> s[q]] /\ r = [q \in DOMAIN r |-> r[q]]
  BY <1>1 DEF P3Medium
<1> QED
  BY <1>12, <1>13, <1>14, <1>15 DEF P3Written

BytesSet(b, n, byte, e) == e = [b EXCEPT ![n + 1] = byte]

BytesGrown(b, n, byte, e) ==
    /\ e \in Seq(0 .. 255) /\ Len(e) = Len(b)
    /\ SubSeq(e, 1, n + 1) = Append(SubSeq(b, 1, n), byte)
    /\ SubSeq(b, 1, n) \in Seq(0 .. 255) /\ Len(SubSeq(b, 1, n)) = n

(* Bytes are numbers.                                                         *)
LEMMA BytesAreNats ==
    ASSUME NEW b \in Seq(0 .. 255)
    PROVE  b \in Seq(Nat)
  BY LenProperties, BytesAreSeq

(* What the bytes of a write are before and after it takes one.              *)
LEMMA BytesGrow ==
    ASSUME NEW b \in Seq(0 .. 255), NEW n \in Nat, n < Len(b), NEW byte \in 0 .. 255,
           NEW e, BytesSet(b, n, byte, e)
    PROVE  BytesGrown(b, n, byte, e)
<1>1. PICK l \in Nat : l = Len(b) /\ b \in [1 .. l -> 0 .. 255]
  BY LenProperties, ZenonT(30)
<1>2. e \in [1 .. l -> 0 .. 255]
  BY <1>1, Zenon DEF BytesSet
<1>3. e \in Seq(0 .. 255) /\ Len(e) = l
  BY <1>1, <1>2, BytesAreBytes, ZenonT(30)
<1>4. e[n + 1] = byte /\ \A i \in 1 .. n : e[i] = b[i]
  BY <1>1 DEF BytesSet
<1>5. b \in Seq(Nat)
  BY BytesAreNats
<1>6. e \in Seq(Nat)
  BY <1>3, BytesAreNats
<1>7. /\ SubSeq(e, 1, n + 1) = Append(SubSeq(b, 1, n), e[n + 1])
      /\ Len(SubSeq(b, 1, n)) = n
  <2>1. Alike(b, e, n)
    BY <1>1, <1>3, <1>4 DEF Alike
  <2>2. OneMore(b, e, n)
    BY <1>5, <1>6, <2>1, SubSeqNext
  <2> QED
    BY <2>2 DEF OneMore
<1>8. SubSeq(b, 1, n) \in Seq(0 .. 255)
  <2>1. \A i \in 1 .. n : b[i] \in 0 .. 255
    BY <1>1
  <2> QED
    BY <2>1, SubSeqProperties
<1> QED
  BY <1>1, <1>3, <1>4, <1>7, <1>8 DEF BytesGrown

(* A byte of a write in its place.                                           *)
P3Took(c, byte, d) == d = [c EXCEPT !.exec.data[c.at + 1] = byte, !.at = @ + 1]

P3Put(c, byte, d) ==
    /\ P3Same(c, d) /\ d.phase = "write" /\ d.left = c.left /\ d.errors = c.errors
    /\ d.exec.track = c.exec.track /\ d.exec.head = c.exec.head /\ d.exec.id = c.exec.id
    /\ d.exec.data = [c.exec.data EXCEPT ![c.at + 1] = byte]
    /\ d.at = c.at + 1

(* A byte that a write takes goes to its place, and no other.                 *)
LEMMA P3TookKeeps ==
    ASSUME NEW c, P3Inv(c), c.phase = "write", NEW byte \in 0 .. 255,
           NEW d, P3Took(c, byte, d)
    PROVE  P3Types(d) /\ P3Exec(d) /\ P3Put(c, byte, d)
<1>1. P3Shape(c) /\ P3Types(c) /\ P3Exec(c)
  BY DEF P3Inv, P3Types
<1>2. PICK n \in Nat, b \in Seq(0 .. 255), x \in {c.exec} :
         n = c.at /\ b = c.exec.data
  BY <1>1 DEF P3Types, P3Exec
<1>3. x = [track |-> x.track, head |-> x.head, id |-> x.id, data |-> x.data] /\ x.data = b
  BY <1>1, <1>2 DEF P3Exec
<1>4. PICK k \in Nat : k = n + 1
  BY <1>2
<1>5. PICK b2, x2 : b2 = [b EXCEPT ![k] = byte] /\ x2 = [x EXCEPT !.data = b2]
  BY Zenon
<1>6. /\ x2 = [track |-> x2.track, head |-> x2.head, id |-> x2.id, data |-> x2.data]
      /\ x2.track = x.track /\ x2.head = x.head /\ x2.id = x.id /\ x2.data = b2
  BY <1>3, <1>5, Zenon
<1>7. d = [c EXCEPT !.exec = x2, !.at = k]
  BY <1>1, <1>2, <1>3, <1>4, <1>5 DEF P3Took, P3Shape
<1>8. /\ P3Shape(d) /\ P3Same(c, d) /\ d.phase = "write" /\ d.left = c.left
      /\ d.errors = c.errors /\ d.exec = x2 /\ d.at = k
  BY <1>1, <1>7, Zenon DEF P3Shape, P3Same
<1>9. b2 \in Seq(0 .. 255)
  <2>1. n < Len(b) /\ BytesSet(b, n, byte, b2)
    BY <1>2, <1>4, <1>5 DEF P3Inv, Plus3!StatusOK, BytesSet
  <2> QED
    BY <2>1, BytesGrow, ZenonT(30) DEF BytesGrown
<1>10. P3Types(d)
  BY <1>1, <1>8 DEF P3Types, P3Same
<1>11. P3Exec(d)
  BY <1>6, <1>8, <1>9 DEF P3Exec
<1>12. P3Put(c, byte, d)
  BY <1>2, <1>4, <1>5, <1>6, <1>8 DEF P3Put
<1> QED
  BY <1>10, <1>11, <1>12

(* The sector that a write will store is where it was.                       *)
LEMMA P3Target ==
    ASSUME NEW c, NEW byte, NEW d, P3Put(c, byte, d)
    PROVE  Plus3!Target(d) = Plus3!Target(c)
  BY DEF P3Put, P3Same, Plus3!Target, Plus3!Find, Plus3!FindId, Plus3!SectorsAt, Plus3!OnTrack

LEMMA P3Takes ==
    ASSUME P3Inv(fdc), fdc.phase = "write", NEW byte \in 0 .. 255,
           fdc.at + 1 < Len(fdc.exec.data)
    PROVE  P3Took(fdc, byte, fdc') => P3Served
<1>1. SUFFICES ASSUME P3Took(fdc, byte, fdc')
               PROVE  P3Served
  OBVIOUS
<1>2. PICK n \in Nat, b \in Seq(0 .. 255) : n = fdc.at /\ b = fdc.exec.data
  BY DEF P3Inv, P3Types, P3Exec
<1>3. P3Types(fdc') /\ P3Exec(fdc') /\ P3Put(fdc, byte, fdc')
  BY <1>1, P3TookKeeps, Zenon
<1>4. PICK e : e = fdc'.exec.data
  OBVIOUS
<1>5. /\ Len(e) = Len(b) /\ e \in Seq(0 .. 255)
      /\ SubSeq(b, 1, n) \in Seq(0 .. 255) /\ Len(SubSeq(b, 1, n)) = n
      /\ SubSeq(e, 1, n + 1) = Append(SubSeq(b, 1, n), byte)
  <2>1. n < Len(b) /\ BytesSet(b, n, byte, e)
    BY <1>2, <1>3, <1>4 DEF P3Inv, Plus3!StatusOK, BytesSet, P3Put
  <2>2. BytesGrown(b, n, byte, e)
    BY <2>1, BytesGrow, Zenon
  <2> QED
    BY <2>2 DEF BytesGrown
<1>6. fdc'.at = n + 1 /\ n + 1 < Len(b) /\ fdc'.phase = "write" /\ fdc'.left = fdc.left
  BY <1>2, <1>3 DEF P3Put
<1>7. P3Inv(fdc')
  BY <1>3, <1>4, <1>5, <1>6 DEF P3Inv, Plus3!StatusOK
<1>8. Plus3!Nearer
  <2>1. Plus3!Left(fdc) = Len(b) - n /\ Plus3!Left(fdc') = Len(b) - (n + 1)
    BY <1>2, <1>4, <1>5, <1>6 DEF Plus3!Left
  <2>2. Len(b) - (n + 1) < Len(b) - n
    BY <1>2
  <2> QED
    BY <1>6, <2>1, <2>2, P3Stages DEF Plus3!Nearer
<1>9. PICK p, keep, want, s, t, j, k :
         /\ p = Plus3!Target(fdc) /\ keep = TRUE /\ want = Len(b)
         /\ s = SubSeq(b, 1, n) /\ t = SubSeq(e, 1, n + 1)
         /\ j = Plus3!Job /\ k = Plus3!Job'
  BY Zenon
<1>10. j = [op |-> "write", at |-> p, want |-> want, keep |-> keep, bytes |-> s]
  BY <1>2, <1>9 DEF Plus3!Job
<1>11. Plus3!Target(fdc)' = p
  <2>1. Plus3!Target(fdc') = p
    BY <1>3, <1>9, P3Target
  <2> QED
    BY <2>1 DEF Plus3!Target
<1>12. k = [op |-> "write", at |-> p, want |-> want, keep |-> keep, bytes |-> t]
  BY <1>4, <1>5, <1>6, <1>9, <1>11, ZenonT(30) DEF Plus3!Job
<1>13. Taken(j, k, byte)
  BY <1>5, <1>9, <1>10, <1>12, JobTaken, Zenon
<1>14. j.op = "write" /\ j.want = want /\ j.bytes = s /\ k.op = "write" /\ k.bytes = t
  BY <1>10, <1>12
<1>15. Len(t) = Len(s) + 1 /\ t[Len(t)] = byte /\ Len(s) < want
  <2>1. s \in Seq(0 .. 255) /\ Len(s) = n /\ t = Append(s, byte)
    BY <1>5, <1>9
  <2>2. Len(t) = Len(s) + 1 /\ t[Len(t)] = byte
    BY <2>1
  <2> QED
    <3>1. PICK l \in Nat : l = Len(b)
      BY LenProperties
    <3>2. n < l
      BY <1>6, <3>1
    <3> QED
      BY <1>9, <2>1, <2>2, <3>1, <3>2
<1>16. k = [j EXCEPT !.bytes = Append(@, k.bytes[Len(k.bytes)])]
  BY <1>13, <1>14, <1>15, Zenon DEF Taken
<1>17. Plus3!SectorsOf(fdc.disk)' = Plus3!SectorsOf(fdc.disk)
  BY <1>3 DEF Plus3!SectorsOf, P3Put, P3Same
<1>18. Plus3!Drive!Take
  BY <1>9, <1>14, <1>15, <1>16, <1>17, Zenon DEF Plus3!Drive!Take
<1> QED
  BY <1>7, <1>8, <1>18 DEF P3Served, P3Drives, Plus3!Drive!Next

(* With its last byte a write is on the medium, or nowhere.                  *)
LEMMA P3Commits ==
    ASSUME P3Inv(fdc), fdc.phase = "write", NEW byte \in 0 .. 255,
           ~(fdc.at + 1 < Len(fdc.exec.data)),
           NEW d, P3Took(fdc, byte, d)
    PROVE  fdc' = Plus3!Result(Plus3!CommitWrite(d), 7, d.errors) => P3Served
<1>1. SUFFICES ASSUME fdc' = Plus3!Result(Plus3!CommitWrite(d), 7, d.errors)
               PROVE  P3Served
  OBVIOUS
<1>2. PICK n \in Nat, b \in Seq(0 .. 255) : n = fdc.at /\ b = fdc.exec.data
  BY DEF P3Inv, P3Types, P3Exec
<1>3. P3Types(d) /\ P3Exec(d) /\ P3Put(fdc, byte, d)
  BY P3TookKeeps, Zenon
<1>4. PICK e : e = d.exec.data
  OBVIOUS
<1>5. /\ Len(e) = Len(b) /\ e \in Seq(0 .. 255)
      /\ SubSeq(b, 1, n) \in Seq(0 .. 255) /\ Len(SubSeq(b, 1, n)) = n
      /\ SubSeq(e, 1, n + 1) = Append(SubSeq(b, 1, n), byte)
      /\ n < Len(b)
  <2>1. n < Len(b) /\ BytesSet(b, n, byte, e)
    BY <1>2, <1>3, <1>4 DEF P3Inv, Plus3!StatusOK, BytesSet, P3Put
  <2>2. BytesGrown(b, n, byte, e)
    BY <2>1, BytesGrow, Zenon
  <2> QED
    BY <2>1, <2>2 DEF BytesGrown
<1>6. PICK s : s = SubSeq(b, 1, n)
  BY Zenon
<1>7. e = Append(s, byte) /\ Len(s) = Len(b) - 1
  <2>1. PICK l \in Nat : l = Len(b)
    BY LenProperties
  <2>2. n + 1 = l /\ n = l - 1
    <3>1. ~(n + 1 < l) /\ n < l
      BY <1>2, <1>5, <2>1
    <3> QED
      BY <3>1
  <2>3. SubSeq(e, 1, Len(e)) = e
    BY <1>5, BytesAreNats, SubSeqWhole
  <2> QED
    BY <1>5, <1>6, <2>1, <2>2, <2>3
<1>8. PICK p, t : p = Plus3!Target(fdc) /\ t = <<p[1], p[2]>>
  BY Zenon
<1>9. PICK x : x = Plus3!CommitWrite(d)
  OBVIOUS
<1>10. Plus3!Target(d) = p
  BY <1>3, <1>8, P3Target
<1>11. fdc' = Plus3!Result(x, 7, d.errors)
  BY <1>1, <1>9
<1>12. ASSUME P3Types(x)
       PROVE  /\ P3Inv(fdc') /\ fdc'.disk = x.disk /\ Plus3!Nearer
              /\ Plus3!Job' = [op |-> "none"]
  <2>1. P3Inv(fdc') /\ P3Same(x, fdc') /\ fdc'.phase = "result"
    BY <1>11, <1>12, P3ResultKeeps
  <2>2. Plus3!Nearer
    BY <2>1, P3Stages DEF Plus3!Nearer
  <2>3. Plus3!Job' = [op |-> "none"]
    BY <2>1 DEF Plus3!Job
  <2> QED
    BY <2>1, <2>2, <2>3 DEF P3Same
<1>13. Plus3!IsImage(fdc.disk)
  BY DEF P3Inv, P3Types
<1>14. PICK m : m = Plus3!SectorsOf(fdc.disk)
  OBVIOUS
<1>15. PICK j : j = Plus3!Job
  OBVIOUS
<1>16. j = [op |-> "write", at |-> p, want |-> Len(b), keep |-> TRUE, bytes |-> s]
  BY <1>2, <1>6, <1>8, <1>15 DEF Plus3!Job
<1>17. j.op = "write" /\ j.at = p /\ j.want = Len(b) /\ j.keep = TRUE /\ j.bytes = s
  BY <1>16
<1>18. ASSUME P3Types(x), Plus3!SectorsOf(fdc.disk)' = Plus3!Drive!Stored(e)
       PROVE  P3Served
  <2>1. Plus3!Drive!Finish
    BY <1>7, <1>12, <1>15, <1>17, <1>18, Zenon DEF Plus3!Drive!Finish, Plus3!Drive!NoJob
  <2> QED
    BY <1>12, <1>18, <2>1 DEF P3Served, P3Drives, Plus3!Drive!Next
<1>19. CASE ~Plus3!IsSector(p)
  <2>1. x = d
    BY <1>9, <1>10, <1>19 DEF Plus3!CommitWrite
  <2>2. x.disk = fdc.disk
    BY <1>3, <2>1, SMTT(20) DEF P3Put, P3Same
  <2>3. Plus3!SectorsOf(fdc.disk)' = m
    BY <1>3, <1>12, <1>14, <2>1, <2>2 DEF Plus3!SectorsOf
  <2>4. p \notin DOMAIN m
    <3>1. PICK a, h, i : a = p[1] /\ h = p[2] /\ i = p[3]
      OBVIOUS
    <3>2. i = 0 /\ p = <<a, h, i>>
      BY <1>8, <1>19, <3>1 DEF Plus3!IsSector, Plus3!Target, Plus3!Find
    <3>3. ASSUME p \in DOMAIN m
          PROVE  FALSE
      <4>1. P3Medium(fdc.disk, m)
        BY <1>13, <1>14, P3Places
      <4>2. PICK u : u = <<a, h>>
        BY Zenon
      <4>3. u \in DOMAIN fdc.disk.tracks /\ i \in DOMAIN fdc.disk.tracks[u]
        BY <3>2, <3>3, <4>1, <4>2 DEF P3Medium
      <4>4. PICK secs \in Seq(Plus3!Sector) : secs = fdc.disk.tracks[u]
        BY <1>13, <4>3 DEF Plus3!IsImage
      <4> QED
        BY <3>2, <4>3, <4>4
    <3> QED
      BY <3>3
  <2>5. Plus3!Drive!Stored(e) = m
    BY <1>14, <1>15, <1>17, <2>4 DEF Plus3!Drive!Stored, Plus3!Drive!On
  <2> QED
    BY <1>3, <1>18, <2>1, <2>3, <2>5
<1>20. CASE Plus3!IsSector(p)
  <2>1. P3OnDisk(fdc, p)
    <3>1. PICK tr, h, id : p = Plus3!Find(fdc, tr, h, id)
      BY <1>8 DEF Plus3!Target
    <3> QED
      BY <1>13, <1>20, <3>1, P3FindOnDisk
  <2>2. d.disk = fdc.disk
    BY <1>3, SMTT(20) DEF P3Put, P3Same
  <2>3. P3Stores(d, t, p[3], e, x)
    BY <1>4, <1>8, <1>9, <1>10, <1>20 DEF Plus3!CommitWrite, P3Stores
  <2>4. t \in DOMAIN d.disk.tracks /\ p[3] \in DOMAIN d.disk.tracks[t]
    BY <1>8, <2>1, <2>2 DEF P3OnDisk
  <2>5. PICK i : i = p[3]
    OBVIOUS
  <2>6. P3Types(x) /\ P3Stored(d, t, i, e, x)
    BY <1>3, <1>5, <2>3, <2>4, <2>5, P3StoresKeeps, ZenonT(30)
  <2>7. PICK disk, disk2, r : disk = fdc.disk /\ disk2 = x.disk /\ r = Plus3!SectorsOf(disk2)
    OBVIOUS
  <2>8. P3Edited(disk.tracks, t, p[3], e, disk2.tracks)
    BY <2>2, <2>5, <2>6, <2>7 DEF P3Stored
  <2>9. Plus3!IsImage(disk) /\ Plus3!IsImage(disk2)
    BY <1>13, <2>6, <2>7 DEF P3Types
  <2>10. p \in DOMAIN m /\ r = [m EXCEPT ![p] = Plus3!Overlaid(m[p], e)]
    <3>1. p = <<p[1], p[2], p[3]>>
      BY <2>1 DEF P3OnDisk
    <3>2. t \in DOMAIN disk.tracks /\ p[3] \in DOMAIN disk.tracks[t]
      BY <2>2, <2>4, <2>7
    <3>3. m = Plus3!SectorsOf(disk)
      BY <1>14, <2>7
    <3>4. r = Plus3!SectorsOf(disk2) /\ t = <<p[1], p[2]>>
      BY <1>8, <2>7
    <3>5. P3Written(m, p, e, r)
      BY <2>8, <2>9, <3>1, <3>2, <3>3, <3>4, P3StoresAt, ZenonT(30)
    <3> QED
      BY <3>5 DEF P3Written
  <2>11. Plus3!SectorsOf(fdc.disk)' = r
    BY <1>12, <2>6, <2>7 DEF Plus3!SectorsOf
  <2>12. Plus3!Drive!Stored(e) = r
    <3>1. PICK h : h = Plus3!Overlaid(m[p], e)
      OBVIOUS
    <3>2. h = [i2 \in DOMAIN m[p] |-> IF i2 <= Len(e) THEN e[i2]
                                      ELSE IF j.keep THEN m[p][i2] ELSE 0]
      BY <1>17, <3>1 DEF Plus3!Overlaid
    <3>3. Plus3!Drive!Stored(e) = [m EXCEPT ![p] = h]
      BY <1>14, <1>15, <1>17, <2>10, <3>2 DEF Plus3!Drive!Stored, Plus3!Drive!On
    <3> QED
      BY <2>10, <3>1, <3>3
  <2> QED
    BY <1>18, <2>6, <2>11, <2>12
<1> QED
  BY <1>19, <1>20

P3Uniform(secs, fill) ==
    \A i \in DOMAIN secs : \A k \in DOMAIN secs[i].data : secs[i].data[k] = fill

(* A track that is formatted has sectors of one byte each.                   *)
LEMMA P3Formatted ==
    ASSUME NEW n \in Nat, NEW entries \in [1 .. n -> [id : Ids, side : Heads, n : SizeCodes]],
           NEW fill \in 0 .. 255, NEW secs, secs = Plus3!Formatted(entries, fill)
    PROVE  secs \in Seq(Plus3!Sector) /\ P3Uniform(secs, fill)
<1>1. DOMAIN secs = 1 .. n /\ secs = [i \in 1 .. n |-> secs[i]]
  BY DEF Plus3!Formatted
<1>2. ASSUME NEW i \in 1 .. n
      PROVE  secs[i] \in Plus3!Sector /\ \A k \in DOMAIN secs[i].data : secs[i].data[k] = fill
  <2>1. PICK id \in Ids, side \in Heads, size \in SizeCodes :
           id = entries[i].id /\ side = entries[i].side /\ size = entries[i].n
    OBVIOUS
  <2>2. PICK l : l = Plus3!TransferLength(size, WholeSector)
    OBVIOUS
  <2>3. l \in Nat
    <3>1. size \in Nat
      BY P3Assumption
    <3> QED
      BY <2>2, <3>1, P3TransferLength
  <2>4. PICK data : data = [k \in 1 .. l |-> fill]
    BY Zenon
  <2>5. data \in Seq(0 .. 255)
    BY <2>3, <2>4
  <2>6. secs[i] = [id |-> id, side |-> side, data |-> data]
    BY <2>1, <2>2, <2>4 DEF Plus3!Formatted
  <2>7. id \in 0 .. 255 /\ side \in 0 .. 255
    BY P3Assumption
  <2>8. secs[i] \in Plus3!Sector
    BY <2>5, <2>6, <2>7 DEF Plus3!Sector
  <2> QED
    BY <2>4, <2>6, <2>8
<1>3. secs \in [1 .. n -> Plus3!Sector]
  BY <1>1, <1>2
<1> QED
  BY <1>1, <1>2, <1>3 DEF P3Uniform

P3Blanks(c, t, secs, d) == d = [c EXCEPT !.disk.tracks[t] = secs]

P3Retracked(disk, t, secs, e) == e.tracks = [disk.tracks EXCEPT ![t] = secs]

P3Reformatted(s, t, r, p) ==
    IF <<p[1], p[2]>> = t
    THEN p \in DOMAIN r => \A i, k \in DOMAIN r[p] : r[p][i] = r[p][k]
    ELSE p \in DOMAIN s /\ p \in DOMAIN r /\ r[p] = s[p]

(* A track of blank sectors leaves an image.                                  *)
LEMMA P3BlanksKeeps ==
    ASSUME NEW c, P3Types(c), NEW t, t \in DOMAIN c.disk.tracks,
           NEW secs \in Seq(Plus3!Sector), NEW d, P3Blanks(c, t, secs, d)
    PROVE  P3Types(d) /\ P3Retracked(c.disk, t, secs, d.disk)
<1>1. P3Shape(c) /\ Plus3!IsImage(c.disk)
  BY DEF P3Types
<1>2. PICK disk, tracks : disk = c.disk /\ tracks = disk.tracks
  OBVIOUS
<1>3. PICK tracks2, disk2 : /\ tracks2 = [tracks EXCEPT ![t] = secs]
                            /\ disk2 = [disk EXCEPT !.tracks = tracks2]
  BY Zenon
<1>4. disk2.sides = disk.sides /\ disk2.tracks = tracks2
       /\ disk2 = [sides |-> disk2.sides, tracks |-> disk2.tracks]
  BY <1>1, <1>2, <1>3, Zenon DEF Plus3!IsImage
<1>5. Plus3!IsImage(disk2)
  <2>1. tracks = [u \in DOMAIN tracks |-> tracks[u]]
    BY <1>1, <1>2 DEF Plus3!IsImage
  <2>2. DOMAIN tracks2 = DOMAIN tracks /\ tracks2 = [u \in DOMAIN tracks2 |-> tracks2[u]]
    BY <1>3, <2>1, Zenon
  <2>3. \A u \in DOMAIN tracks : tracks2[u] = IF u = t THEN secs ELSE tracks[u]
    BY <1>3, <2>1
  <2>4. \A u \in DOMAIN tracks : u \in Nat \X Heads /\ tracks[u] \in Seq(Plus3!Sector)
    BY <1>1, <1>2 DEF Plus3!IsImage
  <2>5. \A u \in DOMAIN tracks2 : u \in Nat \X Heads /\ tracks2[u] \in Seq(Plus3!Sector)
    BY <2>2, <2>3, <2>4, Zenon
  <2> QED
    BY <1>4, <2>2, <2>5 DEF Plus3!IsImage
<1>6. d = [c EXCEPT !.disk = disk2]
  BY <1>1, <1>2, <1>3 DEF P3Blanks, P3Shape
<1>7. /\ P3Shape(d) /\ d.disk = disk2 /\ d.cylinder = c.cylinder /\ d.op = c.op
       /\ d.got = c.got /\ d.phase = c.phase /\ d.left = c.left /\ d.at = c.at
  BY <1>1, <1>6 DEF P3Shape
<1>8. P3Types(d)
  BY <1>5, <1>7 DEF P3Types
<1> QED
  BY <1>2, <1>3, <1>4, <1>7, <1>8 DEF P3Retracked

(* Only that track of the medium is another one.                             *)
LEMMA P3BlanksAt ==
    ASSUME NEW disk, Plus3!IsImage(disk), NEW e, Plus3!IsImage(e),
           NEW t, t \in DOMAIN disk.tracks, NEW secs, NEW fill,
           P3Retracked(disk, t, secs, e), P3Uniform(secs, fill),
           NEW s, s = Plus3!SectorsOf(disk), NEW r, r = Plus3!SectorsOf(e),
           NEW p, p \in DOMAIN s \cup DOMAIN r
    PROVE  P3Reformatted(s, t, r, p)
<1>1. P3Medium(disk, s) /\ P3Medium(e, r)
  BY P3Places
<1>2. PICK tracks, tracks2 : tracks = disk.tracks /\ tracks2 = e.tracks
  OBVIOUS
<1>3. /\ DOMAIN tracks2 = DOMAIN tracks
      /\ \A u \in DOMAIN tracks : tracks2[u] = IF u = t THEN secs ELSE tracks[u]
  <2>1. tracks = [u \in DOMAIN tracks |-> tracks[u]]
    BY <1>2 DEF Plus3!IsImage
  <2> QED
    BY <1>2, <2>1 DEF P3Retracked
<1>4. PICK a, h, k, u : a = p[1] /\ h = p[2] /\ k = p[3] /\ u = <<a, h>>
  BY Zenon
<1>5. p = <<a, h, k>>
  BY <1>1, <1>4 DEF P3Medium
<1>6. p \in DOMAIN s <=> u \in DOMAIN tracks /\ k \in DOMAIN tracks[u]
  BY <1>1, <1>2, <1>4, <1>5 DEF P3Medium
<1>7. p \in DOMAIN r <=> u \in DOMAIN tracks2 /\ k \in DOMAIN tracks2[u]
  BY <1>1, <1>2, <1>4, <1>5 DEF P3Medium
<1>8. p \in DOMAIN r => r[p] = tracks2[u][k].data
  BY <1>1, <1>2, <1>4 DEF P3Medium
<1>9. p \in DOMAIN s => s[p] = tracks[u][k].data
  BY <1>1, <1>2, <1>4 DEF P3Medium
<1>10. CASE u = t
  BY <1>2, <1>3, <1>4, <1>7, <1>8, <1>10 DEF P3Uniform, P3Reformatted
<1>11. CASE u # t
  BY <1>3, <1>4, <1>6, <1>7, <1>8, <1>9, <1>11 DEF P3Reformatted
<1> QED
  BY <1>10, <1>11

(* An identification of a sector to format, the last one formats the track.   *)
LEMMA P3Formats ==
    ASSUME P3Inv(fdc), fdc.phase = "format"
    PROVE  Plus3!OutSectorId => P3Served
<1>1. SUFFICES ASSUME Plus3!OutSectorId
               PROVE  P3Served
  OBVIOUS
<1>2. PICK n \in Nat, b \in Seq(0 .. 255), t \in {fdc.exec.track} :
         n = fdc.at /\ b = fdc.exec.data
  BY DEF P3Inv, P3Types, P3Exec
<1>10. PICK fill \in 0 .. 255 : fill = fdc.exec.fill
  BY Zenon DEF P3Inv, P3Exec
<1>3. PICK l \in Nat : l = Len(b)
  BY LenProperties
<1>4. PICK m \in Nat : m = n + 1
  BY <1>2
<1>5. PICK d : P3Counts(fdc, m, d)
  BY Zenon DEF P3Counts
<1>6. /\ P3Types(d) /\ P3Exec(d) /\ P3Same(fdc, d) /\ d.phase = "format" /\ d.exec = fdc.exec
      /\ d.at = m /\ d.left = fdc.left
  <2>1. P3Types(d) /\ P3Exec(d) /\ P3Went(fdc, m, d)
    BY <1>5, P3CountsKeeps
  <2> QED
    BY <2>1 DEF P3Went
<1>7. ASSUME NEW entries, fdc' = Plus3!ExecFormat(fdc, entries)
      PROVE  fdc' = IF m < l THEN d ELSE Plus3!CommitFormat(d, entries)
  <2>1. d = [fdc EXCEPT !.at = @ + 1]
    BY <1>2, <1>4, <1>5 DEF P3Counts, P3Inv, P3Types, P3Shape
  <2> QED
    BY <1>2, <1>3, <1>6, <1>7, <2>1 DEF Plus3!ExecFormat
<1>8. CASE m < l
  <2>1. fdc' = d
    <3>1. fdc' = Plus3!ExecFormat(fdc, <<>>)
      BY <1>1, <1>2, <1>3, <1>4, <1>8 DEF Plus3!OutSectorId
    <3> QED
      BY <1>7, <1>8, <3>1
  <2>2. P3Inv(fdc')
    BY <1>2, <1>3, <1>6, <1>8, <2>1 DEF P3Inv, Plus3!StatusOK
  <2>3. Plus3!Nearer
    <3>1. Plus3!Left(fdc) = l - n /\ Plus3!Left(fdc') = l - m
      BY <1>2, <1>3, <1>6, <2>1 DEF Plus3!Left
    <3>2. l - m < l - n
      BY <1>2, <1>4
    <3> QED
      BY <1>6, <2>1, <3>1, <3>2, P3Stages DEF Plus3!Nearer
  <2>4. P3Drives
    BY <1>6, <2>1 DEF P3Drives, P3Same, Plus3!SectorsOf, Plus3!Job
  <2> QED
    BY <2>2, <2>3, <2>4 DEF P3Served
<1>9. CASE ~(m < l)
  <2>1. PICK entries \in Plus3!Entries(l) : fdc' = Plus3!CommitFormat(d, entries)
    <3>1. PICK entries \in Plus3!Entries(l) : fdc' = Plus3!ExecFormat(fdc, entries)
      BY <1>1, <1>2, <1>3, <1>4, <1>9 DEF Plus3!OutSectorId
    <3> QED
      BY <1>7, <1>9, <3>1
  <2>2. ASSUME NEW x, P3Types(x), NEW errors, fdc' = Plus3!Result(x, 7, errors)
        PROVE  /\ P3Inv(fdc') /\ Plus3!Nearer /\ P3Quiet(fdc') /\ fdc'.disk = x.disk
    <3>1. P3Inv(fdc') /\ P3Same(x, fdc') /\ fdc'.phase = "result"
      BY <2>2, P3ResultKeeps
    <3> QED
      BY <3>1, P3Stages DEF Plus3!Nearer, P3Quiet, P3Same
  <2>3. CASE t \notin DOMAIN d.disk.tracks
    <3>1. fdc' = Plus3!Result(d, 7, {"noData"})
      BY <1>2, <1>6, <2>1, <2>3 DEF Plus3!CommitFormat
    <3> QED
      BY <1>6, <2>2, <3>1, P3Ends DEF P3Served, P3Same
  <2>4. CASE t \in DOMAIN d.disk.tracks
    <3>1. PICK secs, x : secs = Plus3!Formatted(entries, fill) /\ P3Blanks(d, t, secs, x)
      BY Zenon DEF P3Blanks
    <3>2. fdc' = Plus3!Result(x, 7, {})
      BY <1>2, <1>6, <1>10, <2>1, <2>4, <3>1 DEF Plus3!CommitFormat, P3Blanks
    <3>3. secs \in Seq(Plus3!Sector) /\ P3Uniform(secs, fill)
      <4>1. PICK k \in Nat : k = l \div 4
        BY <1>3
      <4>2. entries \in [1 .. k -> [id : Ids, side : Heads, n : SizeCodes]]
        BY <2>1, <4>1 DEF Plus3!Entries
      <4> QED
        BY <3>1, <4>2, P3Formatted, Zenon
    <3>4. P3Types(x) /\ P3Retracked(d.disk, t, secs, x.disk)
      BY <1>6, <2>4, <3>1, <3>3, P3BlanksKeeps
    <3>5. P3Inv(fdc') /\ Plus3!Nearer /\ P3Quiet(fdc') /\ fdc'.disk = x.disk
      BY <2>2, <3>2, <3>4
    <3>6. PICK disk, disk2, s, r : /\ disk = fdc.disk /\ disk2 = x.disk
                                   /\ s = Plus3!SectorsOf(disk) /\ r = Plus3!SectorsOf(disk2)
      OBVIOUS
    <3>7. Plus3!IsImage(disk) /\ Plus3!IsImage(disk2)
      BY <1>6, <3>4, <3>6 DEF P3Types, P3Same
    <3>8. t \in DOMAIN disk.tracks /\ P3Retracked(disk, t, secs, disk2)
      BY <1>6, <2>4, <3>4, <3>6 DEF P3Same, P3Retracked
    <3>9. \A p \in DOMAIN s \cup DOMAIN r :
             P3Reformatted(s, t, r, p)
      BY <3>3, <3>6, <3>7, <3>8, P3BlanksAt, SMTT(20)
    <3>10. Plus3!SectorsOf(fdc.disk)' = r /\ Plus3!SectorsOf(fdc.disk) = s
      BY <3>5, <3>6 DEF Plus3!SectorsOf
    <3>11. Plus3!Job = [op |-> "format", at |-> t]
      BY <1>2 DEF Plus3!Job
    <3>12. Plus3!Job' = [op |-> "none"]
      BY <3>5 DEF Plus3!Job, P3Quiet
    <3>13. Plus3!Drive!Format
      BY <3>9, <3>10, <3>11, <3>12
         DEF P3Reformatted, Plus3!Drive!Format, Plus3!Drive!On, Plus3!Drive!NoJob
    <3> QED
      BY <3>5, <3>13 DEF P3Served, P3Drives, Plus3!Drive!Next
  <2> QED
    BY <2>3, <2>4
<1> QED
  BY <1>8, <1>9

(* A byte of a write, the last one stores the sector.                         *)
LEMMA P3Writes ==
    ASSUME P3Inv(fdc), fdc.phase = "write", NEW byte \in 0 .. 255,
           fdc' = Plus3!ExecWrite(fdc, byte)
    PROVE  P3Served
<1>1. PICK d : P3Took(fdc, byte, d)
  BY DEF P3Took
<1>2. P3Put(fdc, byte, d)
  BY <1>1, P3TookKeeps
<1>3. PICK n \in Nat, b \in Seq(0 .. 255) : n = fdc.at /\ b = fdc.exec.data
  BY DEF P3Inv, P3Types, P3Exec
<1>4. d.at = n + 1 /\ Len(d.exec.data) = Len(b)
  <2>1. d.exec.data = [b EXCEPT ![n + 1] = byte] /\ d.at = n + 1
    BY <1>2, <1>3 DEF P3Put
  <2>2. BytesSet(b, n, byte, d.exec.data) /\ n < Len(b)
    BY <1>3, <2>1 DEF BytesSet, P3Inv, Plus3!StatusOK
  <2>3. PICK e : e = d.exec.data
    OBVIOUS
  <2>4. BytesGrown(b, n, byte, e)
    BY <2>2, <2>3, BytesGrow, Zenon
  <2> QED
    BY <2>1, <2>3, <2>4 DEF BytesGrown
<1>5. fdc' = IF n + 1 < Len(b) THEN d ELSE Plus3!Result(Plus3!CommitWrite(d), 7, d.errors)
  BY <1>1, <1>4 DEF P3Took, Plus3!ExecWrite
<1>6. CASE n + 1 < Len(b)
  BY <1>1, <1>3, <1>5, <1>6, P3Takes, Zenon
<1>7. CASE ~(n + 1 < Len(b))
  BY <1>1, <1>3, <1>5, <1>7, P3Commits, Zenon
<1> QED
  BY <1>6, <1>7

P3Calls(c, op, got, d) == d = [c EXCEPT !.op = op, !.got = got]

(* The bytes of a command before it executes.                                 *)
LEMMA P3CallsKeeps ==
    ASSUME NEW c, P3Inv(c), P3Quiet(c), c.phase # "result",
           NEW op \in Plus3!Operations, NEW got \in Nat, NEW d, P3Calls(c, op, got, d)
    PROVE  P3Still(d) /\ d.disk = c.disk /\ d.phase = c.phase /\ d.op = op /\ d.got = got
<1>1. P3Types(c) /\ P3Shape(c) /\ c.exec = Plus3!NoExec /\ c.at = 0 /\ c.left = 0
  BY DEF P3Inv, P3Types, Plus3!StatusOK, P3Quiet
<1>2. /\ P3Shape(d) /\ d.disk = c.disk /\ d.cylinder = c.cylinder /\ d.phase = c.phase
      /\ d.op = op /\ d.got = got /\ d.left = c.left /\ d.at = c.at /\ d.exec = c.exec
  BY <1>1, Zenon DEF P3Shape, P3Calls
<1>3. P3Types(d)
  BY <1>1, <1>2 DEF P3Types
<1> QED
  BY <1>1, <1>2, <1>3 DEF P3Still, P3Quiet

(* Whatever the main status register asks for takes the command forward.      *)
LEMMA P3Serves ==
    ASSUME P3Inv(fdc), Plus3!Serve
    PROVE  P3Served
<1>1. /\ P3Types(fdc) /\ P3Shape(fdc) /\ Plus3!IsImage(fdc.disk)
      /\ fdc.op \in Plus3!Operations /\ fdc.got \in Nat
  BY DEF P3Inv, P3Types
<1>2. CASE Plus3!InData
  BY <1>2, P3Gives, P3Collects DEF Plus3!InData
<1>3. CASE \E byte \in Plus3Bytes : Plus3!OutData(byte)
  <2>1. PICK byte \in 0 .. 255 : Plus3!OutData(byte)
    BY <1>3, P3Assumption
  <2> QED
    BY <2>1, P3Writes DEF Plus3!OutData
<1>4. CASE Plus3!OutSectorId
  BY <1>4, P3Formats DEF Plus3!OutSectorId
<1>5. CASE Plus3!OutParameter
  <2>1. PICK op \in Plus3!Operations, n \in Nat : op = fdc.op /\ n = fdc.got
    BY <1>1
  <2>2. fdc.phase = "command" /\ n + 1 < Plus3!CommandLength[op] /\ fdc' = [fdc EXCEPT !.got = n + 1]
    BY <1>1, <1>5, <2>1 DEF Plus3!OutParameter, P3Shape
  <2>4. PICK m \in Nat : m = n + 1 /\ n < m
    OBVIOUS
  <2>3. P3Calls(fdc, op, m, fdc')
    BY <1>1, <2>1, <2>2, <2>4, Zenon DEF P3Calls, P3Shape
  <2>5. /\ P3Still(fdc') /\ fdc'.disk = fdc.disk /\ fdc'.phase = fdc.phase
        /\ fdc'.op = op /\ fdc'.got = m
    <3>1. P3Quiet(fdc) /\ fdc.phase # "result"
      BY <2>2 DEF P3Quiet
    <3> QED
      BY <2>3, <3>1, P3CallsKeeps
  <2>6. P3Inv(fdc')
    BY <2>2, <2>4, <2>5 DEF P3Inv, P3Still, P3Exec, Plus3!StatusOK
  <2>7. Plus3!Nearer
    <3>1. Plus3!Left(fdc) = Plus3!CommandLength[op] - n
      BY <2>1, <2>2 DEF Plus3!Left
    <3>2. Plus3!Left(fdc') = Plus3!CommandLength[op] - m
      BY <2>2, <2>5 DEF Plus3!Left
    <3>3. Plus3!CommandLength[op] \in Nat
      BY P3Length
    <3>4. Plus3!CommandLength[op] - m < Plus3!CommandLength[op] - n
      BY <2>4, <3>3
    <3> QED
      BY <2>2, <2>5, <3>1, <3>2, <3>4, P3Stages, Zenon DEF Plus3!Nearer
  <2> QED
    BY <2>2, <2>5, <2>6, <2>7, P3Ends DEF P3Served, P3Quiet
<1>6. CASE Plus3!OutLastParameter
  <2>1. PICK op \in Plus3!Operations, none \in Plus3!Operations, zero \in Nat :
           op = fdc.op /\ none = "invalid" /\ zero = 0
    BY <1>1 DEF Plus3!Operations, Plus3!CommandLength
  <2>2. PICK c : c = [fdc EXCEPT !.op = "invalid", !.got = 0]
    OBVIOUS
  <2>3. fdc.phase = "command" /\ \E q \in Plus3!Requests(op) : fdc' = Plus3!Execute(c, op, q)
    BY <1>6, <2>1, <2>2 DEF Plus3!OutLastParameter
  <2>4. P3Calls(fdc, none, zero, c)
    BY <2>1, <2>2 DEF P3Calls
  <2>5. P3Still(c) /\ c.disk = fdc.disk
    BY <2>3, <2>4, P3CallsKeeps DEF P3Quiet
  <2>6. P3Answered(c, fdc')
    BY <2>3, <2>5, P3Execute
  <2>7. P3Drives
    BY <1>1, <2>5, <2>6, P3Begun
  <2>8. Plus3!Nearer
    BY <2>3, <2>6, P3Stages DEF Plus3!Nearer, P3Answered
  <2> QED
    BY <2>6, <2>7, <2>8 DEF P3Served, P3Answered
<1> QED
  BY <1>2, <1>3, <1>4, <1>5, <1>6 DEF Plus3!Serve

(* Where a write goes depends on its parameters and the disk only.            *)
LEMMA P3SameTarget ==
    ASSUME NEW c, NEW d, d.disk = c.disk, d.exec = c.exec
    PROVE  Plus3!Target(d) = Plus3!Target(c)
  BY DEF Plus3!Target, Plus3!Find, Plus3!FindId, Plus3!SectorsAt, Plus3!OnTrack

(* Every operation keeps the controller in order, and its steps are a         *)
(* drive's.                                                                   *)
LEMMA P3Step ==
    ASSUME P3Inv(fdc), Plus3!Next
    PROVE  P3Inv(fdc') /\ P3Drives
<1>1. /\ P3Types(fdc) /\ P3Shape(fdc) /\ Plus3!IsImage(fdc.disk) /\ P3Exec(fdc)
      /\ Plus3!StatusOK(fdc)
  BY DEF P3Inv, P3Types
<1>2. CASE Plus3!Serve
  BY <1>2, P3Serves DEF P3Served
<1>3. CASE \E op \in Plus3!Operations : Plus3!OutOpcode(op)
  <2>1. PICK op \in Plus3!Operations : Plus3!OutOpcode(op)
    BY <1>3
  <2>2. fdc.phase = "idle" /\ fdc.left = 0
    BY <1>1, <2>1 DEF Plus3!OutOpcode, Plus3!StatusOK, P3Types
  <2>3. CASE Plus3!CommandLength[op] = 1
    <3>1. PICK q : q = [unit |-> 0]
      BY Zenon
    <3>2. fdc' = Plus3!Execute(fdc, op, q)
      BY <2>1, <2>3, <3>1 DEF Plus3!OutOpcode
    <3>3. P3Still(fdc)
      BY <1>1, <2>2 DEF P3Still, Plus3!StatusOK
    <3>4. P3Answered(fdc, fdc')
      BY <2>3, <3>2, <3>3, P3Execute
    <3> QED
      BY <1>1, <3>4, P3Begun DEF P3Answered
  <2>4. CASE Plus3!CommandLength[op] # 1
    <3>1. fdc' = [fdc EXCEPT !.phase = "command", !.op = op, !.got = 1]
      BY <2>1, <2>4 DEF Plus3!OutOpcode
    <3>2. /\ P3Shape(fdc') /\ fdc'.disk = fdc.disk /\ fdc'.cylinder = fdc.cylinder
          /\ fdc'.phase = "command" /\ fdc'.op = op /\ fdc'.got = 1
          /\ fdc'.left = fdc.left /\ fdc'.at = fdc.at /\ fdc'.exec = fdc.exec
      BY <1>1, <3>1, Zenon DEF P3Shape
    <3>3. P3Types(fdc')
      BY <1>1, <3>2 DEF P3Types
    <3>4. Plus3!CommandLength[op] > 1
      BY <2>4, P3Length
    <3>5. P3Exec(fdc') /\ Plus3!StatusOK(fdc')
      BY <1>1, <2>2, <3>2, <3>4 DEF P3Exec, Plus3!StatusOK
    <3> QED
      BY <3>2, <3>3, <3>5, P3Ends DEF P3Inv, P3Quiet
  <2> QED
    BY <2>3, <2>4
<1>4. CASE \E on \in BOOLEAN : Plus3!SetMotor(on) \/ Plus3!SetWriteProtect(on)
  <2>1. PICK on, i : \/ fdc' = [fdc EXCEPT !.motor = on, !.interrupt = i]
                    \/ fdc' = [fdc EXCEPT !.protect = on]
    BY <1>4, Zenon DEF Plus3!SetMotor, Plus3!SetWriteProtect
  <2>2. /\ P3Shape(fdc') /\ fdc'.disk = fdc.disk /\ fdc'.cylinder = fdc.cylinder
        /\ fdc'.phase = fdc.phase /\ fdc'.op = fdc.op /\ fdc'.got = fdc.got
        /\ fdc'.left = fdc.left /\ fdc'.at = fdc.at /\ fdc'.exec = fdc.exec
    BY <1>1, <2>1, Zenon DEF P3Shape
  <2>3. P3Types(fdc')
    BY <1>1, <2>2 DEF P3Types
  <2>4. P3Exec(fdc') /\ Plus3!StatusOK(fdc')
    BY <1>1, <2>2 DEF P3Exec, Plus3!StatusOK
  <2>5. Plus3!Target(fdc)' = Plus3!Target(fdc)
    <3>1. PICK c, d : c = fdc /\ d = fdc'
      OBVIOUS
    <3>2. Plus3!Target(d) = Plus3!Target(c)
      BY <2>2, <3>1, P3SameTarget
    <3> QED
      BY <3>1, <3>2 DEF Plus3!Target
  <2>6. P3Drives
    BY <2>2, <2>5 DEF P3Drives, Plus3!Job, Plus3!SectorsOf
  <2> QED
    BY <2>3, <2>4, <2>6 DEF P3Inv
<1>5. CASE \E disk \in Plus3Disks : Plus3!Insert(disk)
  <2>1. PICK disk \in Plus3Disks : Plus3!Insert(disk)
    BY <1>5
  <2>2. /\ P3Shape(fdc') /\ fdc'.disk = disk /\ fdc'.cylinder = fdc.cylinder
        /\ fdc'.phase = "idle" /\ fdc'.op = "invalid" /\ fdc'.got = 0
        /\ fdc'.left = 0 /\ fdc'.at = 0 /\ fdc'.exec = Plus3!NoExec
    BY <1>1, <2>1, Zenon DEF P3Shape, Plus3!Insert
  <2>3. P3Types(fdc')
    BY <1>1, <2>2, P3Assumption DEF P3Types, Plus3!Operations, Plus3!CommandLength
  <2>4. P3Exec(fdc') /\ Plus3!StatusOK(fdc')
    BY <2>2 DEF P3Exec, Plus3!StatusOK
  <2>5. Plus3!Job' = [op |-> "none"]
    BY <2>2 DEF Plus3!Job
  <2>6. Plus3!SectorsOf(fdc.disk)' \in Plus3!Media
    BY <2>2 DEF Plus3!Media, Plus3!SectorsOf
  <2> QED
    BY <2>3, <2>4, <2>5, <2>6
       DEF P3Inv, P3Drives, Plus3!Drive!Next, Plus3!Drive!Insert, Plus3!Drive!NoJob
<1>6. CASE Plus3!ResetController
  <2>1. PICK protect : fdc' = [Plus3!NewController EXCEPT !.disk = fdc.disk, !.protect = protect]
    BY <1>6, Zenon DEF Plus3!ResetController
  <2>2. /\ P3Shape(fdc') /\ fdc'.disk = fdc.disk /\ fdc'.cylinder = [u \in Units |-> 0]
        /\ fdc'.phase = "idle" /\ fdc'.op = "invalid" /\ fdc'.got = 0
        /\ fdc'.left = 0 /\ fdc'.at = 0 /\ fdc'.exec = Plus3!NoExec
    BY <2>1, Zenon DEF P3Shape, Plus3!NewController
  <2>3. P3Types(fdc')
    BY <1>1, <2>2 DEF P3Types, Plus3!Operations, Plus3!CommandLength
  <2>4. P3Exec(fdc') /\ Plus3!StatusOK(fdc')
    BY <2>2 DEF P3Exec, Plus3!StatusOK
  <2> QED
    BY <2>2, <2>3, <2>4, P3Ends DEF P3Inv, P3Quiet
<1> QED
  BY <1>2, <1>3, <1>4, <1>5, <1>6 DEF Plus3!Next

(* At first the controller is in order, and a drive at rest.                  *)
LEMMA P3Starts ==
    ASSUME Plus3!Init
    PROVE  P3Inv(fdc) /\ Plus3!Drive!Init
<1>1. /\ P3Shape(fdc) /\ fdc.disk = Plus3!NoDisk /\ fdc.cylinder = [u \in Units |-> 0]
      /\ fdc.phase = "idle" /\ fdc.op = "invalid" /\ fdc.got = 0
      /\ fdc.left = 0 /\ fdc.at = 0 /\ fdc.exec = Plus3!NoExec
  BY DEF P3Shape, Plus3!Init, Plus3!NewController
<1>2. Plus3!IsImage(Plus3!NoDisk)
  BY DEF Plus3!IsImage, Plus3!NoDisk
<1>3. P3Types(fdc)
  BY <1>1, <1>2 DEF P3Types, Plus3!Operations, Plus3!CommandLength
<1>4. P3Exec(fdc) /\ Plus3!StatusOK(fdc)
  BY <1>1 DEF P3Exec, Plus3!StatusOK
<1>5. Plus3!Job = [op |-> "none"] /\ Plus3!SectorsOf(fdc.disk) \in Plus3!Media
  BY <1>1 DEF Plus3!Job, Plus3!Media
<1> QED
  BY <1>3, <1>4, <1>5 DEF P3Inv, Plus3!Drive!Init, Plus3!Drive!NoJob

-----------------------------------------------------------------------------
(* The controller of the Beta Disk.                                          *)

BetaShape(c) ==
    c = [track |-> c.track, sector |-> c.sector, dataReg |-> c.dataReg,
         drive |-> c.drive, run |-> c.run, side |-> c.side, paged |-> c.paged,
         image |-> c.image, buffer |-> c.buffer, at |-> c.at,
         drq |-> c.drq, intrq |-> c.intrq, status |-> c.status,
         xfer |-> c.xfer, multiple |-> c.multiple, stepIn |-> c.stepIn, typeI |-> c.typeI,
         parse |-> c.parse, id |-> c.id, done |-> c.done]

(* What the guest and the host set.                                          *)
BetaRegs(c) ==
    /\ c.track \in Nat /\ c.sector \in Nat /\ c.dataReg \in Nat
    /\ c.side \in {0, 1} /\ IsDisk(c.image) /\ c.multiple \in BOOLEAN

BetaIds == {id \in Seq(Nat) : Len(id) = 4}

(* What a track to write has come to.                                        *)
BetaParse(c) ==
    /\ c.parse.in \in {"hunt", "id", "data"}
    /\ c.parse.in = "hunt" => c.parse = Hunt
    /\ c.parse.in = "id" => c.parse = [in |-> "id", got |-> c.parse.got]
                            /\ c.parse.got \in Seq(Nat)
    /\ c.parse.in = "data" =>
          /\ c.parse = [in |-> "data", size |-> c.parse.size, id |-> c.parse.id]
          /\ c.parse.size \in Nat /\ c.parse.id \in BetaIds
    /\ c.id # NoId => c.id \in BetaIds
    /\ c.done \in Nat

BetaTypes(c) ==
    /\ BetaShape(c) /\ BetaRegs(c) /\ BetaParse(c)
    /\ c.buffer \in Seq(Nat) /\ c.at \in Nat
    /\ c.xfer \in {"idle", "read", "address", "write", "writeTrack"}

BetaOK(c) ==
    /\ StatusOK(c)
    /\ c.xfer = "read" => Len(c.buffer) = SectorSize

BetaInv(c) == BetaTypes(c) /\ BetaOK(c)

BetaSame(c, d) ==
    /\ d.track = c.track /\ d.sector = c.sector /\ d.dataReg = c.dataReg
    /\ d.side = c.side /\ d.image = c.image /\ d.multiple = c.multiple

BetaAlike(c, d) == d.parse = c.parse /\ d.id = c.id /\ d.done = c.done

BetaFresh(c) == c.parse = Hunt /\ c.id = NoId /\ c.done = 0

(* What the controller of the Beta Disk needs of its constants.               *)
LEMMA BetaAssumption ==
    /\ SectorsPerTrack \in Nat \ {0} /\ SectorSize \in Nat \ {0, 1}
    /\ LastTrack \in Nat /\ IdMark # DataMark /\ Registers \subseteq Nat
    /\ Words \subseteq [drive : 0 .. 3, run : BOOLEAN, side : {0, 1}, zero : BOOLEAN]
    /\ Fill \in 0 .. 255 /\ CheckBytes \in Seq(0 .. 255)
    /\ HostBytes \in [DueNames -> SUBSET (0 .. 255)]
    /\ \A disk \in Disks : IsDisk(disk)
  BY PeripheralsAssumption, Zenon DEF BetaConstants

(* What is kept when the fields it speaks of are.                             *)
LEMMA BetaRegsKept ==
    ASSUME NEW c, BetaRegs(c), NEW d, BetaSame(c, d)
    PROVE  BetaRegs(d)
  BY DEF BetaRegs, BetaSame

LEMMA BetaParseKept ==
    ASSUME NEW c, BetaParse(c), NEW d, BetaAlike(c, d)
    PROVE  BetaParse(d)
  BY DEF BetaParse, BetaAlike

LEMMA BetaParseFresh ==
    ASSUME NEW d, BetaFresh(d)
    PROVE  BetaParse(d)
  BY DEF BetaParse, BetaFresh, Hunt, NoId

(* A command that has ended, and what was on the disk is still there.        *)
BetaEnded(c, d) ==
    /\ BetaTypes(d) /\ d.image = c.image
    /\ d.xfer = "idle" /\ d.drq = FALSE /\ "drq" \notin d.status /\ "busy" \notin d.status

(* A command that has ended leaves the controller in order.                   *)
LEMMA BetaEndedOK ==
    ASSUME NEW c, NEW d, BetaEnded(c, d)
    PROVE  BetaInv(d)
  BY DEF BetaEnded, BetaInv, BetaOK, StatusOK

BetaFinished(c, status, d) ==
    /\ BetaShape(d) /\ BetaSame(c, d) /\ BetaAlike(c, d)
    /\ d.xfer = "idle" /\ d.drq = FALSE /\ d.status = status
    /\ d.buffer = c.buffer /\ d.at = c.at

(* Each way to end a command ends it.                                         *)
LEMMA BetaFinish ==
    ASSUME NEW c, BetaShape(c), NEW status, NEW d, d = Finish(c, status)
    PROVE  BetaFinished(c, status, d)
  BY Zenon DEF BetaFinished, BetaShape, BetaSame, BetaAlike, Finish

LEMMA BetaFinishKeeps ==
    ASSUME NEW c, BetaTypes(c), NEW status, "drq" \notin status, "busy" \notin status,
           NEW d, d = Finish(c, status)
    PROVE  BetaEnded(c, d) /\ BetaSame(c, d) /\ BetaAlike(c, d)
<1>1. /\ BetaShape(d) /\ BetaSame(c, d) /\ BetaAlike(c, d)
      /\ d.xfer = "idle" /\ d.drq = FALSE /\ d.status = status
      /\ d.buffer = c.buffer /\ d.at = c.at
  <2>1. BetaFinished(c, status, d)
    BY BetaFinish DEF BetaTypes
  <2> QED
    BY <2>1 DEF BetaFinished
<1>2. BetaTypes(d)
  BY <1>1, BetaRegsKept, BetaParseKept DEF BetaTypes
<1> QED
  BY <1>1, <1>2 DEF BetaEnded, BetaSame

(* Leaving the buffer, or what is left of it.                                *)
BetaDrops(c, buffer, at, typeI, d) ==
    d = [c EXCEPT !.buffer = buffer, !.at = at, !.typeI = typeI]

LEMMA BetaDropsKeeps ==
    ASSUME NEW c, NEW e, BetaEnded(c, e), NEW buffer \in Seq(Nat), NEW at \in Nat,
           NEW typeI, NEW d, BetaDrops(e, buffer, at, typeI, d)
    PROVE  BetaEnded(c, d) /\ BetaSame(e, d) /\ BetaAlike(e, d)
<1>1. BetaShape(e)
  BY DEF BetaEnded, BetaTypes
<1>2. /\ BetaShape(d) /\ BetaSame(e, d) /\ BetaAlike(e, d)
      /\ d.xfer = e.xfer /\ d.drq = e.drq /\ d.status = e.status
      /\ d.buffer = buffer /\ d.at = at
  BY <1>1, Zenon DEF BetaShape, BetaSame, BetaAlike, BetaDrops
<1>3. BetaTypes(d)
  BY <1>2, BetaRegsKept, BetaParseKept DEF BetaTypes, BetaEnded
<1> QED
  BY <1>2, <1>3 DEF BetaEnded, BetaSame

LEMMA BetaFails ==
    ASSUME NEW c, BetaTypes(c), NEW d, d = NotFound(c) \/ d = NotReady(c)
    PROVE  BetaEnded(c, d)
<1>1. PICK status : status \in {{"rnf"}, {"notReady"}} /\ d = FinishFailed(c, status)
  BY DEF NotFound, NotReady
<1>2. PICK e, buffer, at, typeI : /\ e = Finish(c, status) /\ buffer = <<>>
                                  /\ at = 0 /\ typeI = FALSE
  BY Zenon
<1>3. BetaEnded(c, e)
  BY <1>1, <1>2, BetaFinishKeeps
<1>4. BetaDrops(e, buffer, at, typeI, d)
  BY <1>1, <1>2, Zenon DEF BetaDrops, FinishFailed
<1>5. buffer \in Seq(Nat) /\ at \in Nat
  BY <1>2
<1> QED
  BY <1>3, <1>4, <1>5, BetaDropsKeeps

LEMMA BetaTypeIStatus ==
    ASSUME NEW c
    PROVE  "drq" \notin TypeIStatus(c) /\ "busy" \notin TypeIStatus(c)
  BY DEF TypeIStatus

LEMMA BetaFinishTypeI ==
    ASSUME NEW c, BetaTypes(c), NEW d, d = FinishTypeI(c)
    PROVE  BetaEnded(c, d)
<1>1. PICK e, buffer, at, typeI : /\ e = Finish(c, TypeIStatus(c)) /\ buffer = e.buffer
                                  /\ at = e.at /\ typeI = TRUE
  OBVIOUS
<1>2. BetaEnded(c, e)
  BY <1>1, BetaFinishKeeps, BetaTypeIStatus
<1>3. BetaTypes(e) /\ BetaShape(e)
  BY <1>2 DEF BetaEnded, BetaTypes
<1>4. BetaDrops(e, buffer, at, typeI, d)
  BY <1>1, <1>3, Zenon DEF BetaDrops, FinishTypeI, BetaShape
<1>5. buffer \in Seq(Nat) /\ at \in Nat
  BY <1>1, <1>3 DEF BetaTypes
<1> QED
  BY <1>2, <1>4, <1>5, BetaDropsKeeps

LEMMA BetaReset ==
    ASSUME NEW c, BetaTypes(c), NEW d, d = ResetVg93(c)
    PROVE  BetaEnded(c, d)
<1>1. BetaShape(c) /\ BetaRegs(c)
  BY DEF BetaTypes
<1>2. /\ BetaShape(d) /\ d.track = c.track /\ d.sector = c.sector /\ d.dataReg = c.dataReg
      /\ d.side = c.side /\ d.image = c.image /\ d.multiple = FALSE
      /\ BetaFresh(d) /\ d.xfer = "idle" /\ d.drq = FALSE /\ d.status = TypeIStatus(c)
      /\ d.buffer = <<>> /\ d.at = 0
  BY <1>1, Zenon DEF BetaShape, ResetVg93, BetaFresh
<1>3. BetaRegs(d)
  BY <1>1, <1>2, Zenon DEF BetaRegs
<1>4. BetaTypes(d)
  BY <1>2, <1>3, BetaParseFresh DEF BetaTypes
<1> QED
  BY <1>2, <1>4, BetaTypeIStatus DEF BetaEnded

LEMMA BetaFinishTrack ==
    ASSUME NEW c, BetaTypes(c), NEW d, d = FinishWriteTrack(c)
    PROVE  BetaEnded(c, d)
<1>1. PICK e : e = Finish(c, {})
  OBVIOUS
<1>2. BetaEnded(c, e) /\ BetaTypes(e) /\ BetaShape(e)
  BY <1>1, BetaFinishKeeps, Zenon DEF BetaEnded, BetaTypes
<1>3. d = [e EXCEPT !.parse = Hunt, !.id = NoId, !.buffer = <<>>, !.at = 0, !.done = 0]
  BY <1>1 DEF FinishWriteTrack
<1>4. /\ BetaShape(d) /\ BetaSame(e, d) /\ BetaFresh(d)
      /\ d.xfer = e.xfer /\ d.drq = e.drq /\ d.status = e.status
      /\ d.buffer = <<>> /\ d.at = 0
  BY <1>2, <1>3, ZenonT(30) DEF BetaShape, BetaSame, BetaFresh
<1>5. BetaTypes(d)
  BY <1>2, <1>4, BetaRegsKept, BetaParseFresh DEF BetaTypes
<1> QED
  BY <1>2, <1>4, <1>5 DEF BetaEnded, BetaSame

(* A command that has its first byte, or room for it.                        *)
BetaStarts(c, xfer, buffer, d) == d = Start(c, xfer, buffer)

BetaStarted(c, xfer, buffer, d) ==
    /\ BetaShape(d) /\ BetaSame(c, d) /\ BetaAlike(c, d)
    /\ d.xfer = xfer /\ d.buffer = buffer /\ d.at = 0
    /\ d.drq = TRUE /\ d.intrq = FALSE /\ d.status = {"busy", "drq"}

(* A transfer that starts has bytes, and requests the first one.              *)
LEMMA BetaStart ==
    ASSUME NEW c, BetaShape(c), NEW xfer, NEW buffer, NEW d, BetaStarts(c, xfer, buffer, d)
    PROVE  BetaStarted(c, xfer, buffer, d)
  BY Zenon DEF BetaStarts, BetaShape, BetaSame, BetaAlike, Start, Request, BetaStarted

LEMMA BetaStartKeeps ==
    ASSUME NEW c, BetaTypes(c), NEW xfer \in {"read", "address", "write"},
           NEW buffer \in Seq(Nat), Len(buffer) > 0,
           xfer # "address" => Len(buffer) = SectorSize,
           NEW d, BetaStarts(c, xfer, buffer, d)
    PROVE  BetaInv(d) /\ BetaStarted(c, xfer, buffer, d)
<1>1. BetaStarted(c, xfer, buffer, d)
  BY BetaStart DEF BetaTypes
<1>2. BetaTypes(d)
  BY <1>1, BetaRegsKept, BetaParseKept DEF BetaTypes, BetaStarted
<1>3. BetaOK(d)
  BY <1>1, BetaAssumption DEF BetaOK, StatusOK, BetaStarted
<1> QED
  BY <1>1, <1>2, <1>3 DEF BetaInv

(* A sector of the disk is a sequence of SectorSize numbers.                  *)
LEMMA BetaSector ==
    ASSUME NEW disk, IsDisk(disk), NEW p, p \in DOMAIN disk.sectors
    PROVE  /\ disk.sectors[p] \in Seq(Nat) /\ Len(disk.sectors[p]) = SectorSize
           /\ DOMAIN disk.sectors[p] = 1 .. SectorSize
           /\ p[3] \in 0 .. SectorsPerTrack - 1
<1>1. disk.sectors[p] \in [1 .. SectorSize -> Nat]
  BY DEF IsDisk
<1>2. p \in Nat \X {0, 1} \X (0 .. SectorsPerTrack - 1)
  BY DEF IsDisk
<1>3. /\ disk.sectors[p] \in Seq(Nat) /\ Len(disk.sectors[p]) = SectorSize
      /\ DOMAIN disk.sectors[p] = 1 .. SectorSize
  <2>1. SectorSize \in Nat
    BY BetaAssumption
  <2> QED
    BY <1>1, <2>1
<1>4. p[3] \in 0 .. SectorsPerTrack - 1
  BY <1>2
<1> QED
  BY <1>3, <1>4

(* Reading begins with the sector that the registers name.                   *)
BetaLoaded(c, d) ==
    /\ BetaInv(d) /\ BetaSame(c, d) /\ Has(c, Place(c))
    /\ d.xfer = "read" /\ d.buffer = c.image.sectors[Place(c)] /\ d.at = 0

LEMMA BetaLoad ==
    ASSUME NEW c, BetaTypes(c), NEW d, d = LoadSector(c)
    PROVE  BetaEnded(c, d) \/ BetaLoaded(c, d)
<1>1. CASE ~Has(c, Place(c))
  BY <1>1, BetaFails DEF LoadSector
<1>2. CASE Has(c, Place(c))
  <2>1. PICK xfer, buffer : xfer = "read" /\ buffer = c.image.sectors[Place(c)]
    OBVIOUS
  <2>2. buffer \in Seq(Nat) /\ Len(buffer) = SectorSize /\ Len(buffer) > 0
    BY <1>2, <2>1, BetaSector, BetaAssumption DEF BetaTypes, BetaRegs, Has
  <2>3. BetaStarts(c, xfer, buffer, d)
    BY <1>2, <2>1 DEF LoadSector, BetaStarts
  <2>4. BetaInv(d) /\ BetaStarted(c, xfer, buffer, d)
    BY <2>1, <2>2, <2>3, BetaStartKeeps
  <2> QED
    BY <1>2, <2>1, <2>4 DEF BetaLoaded, BetaStarted
<1> QED
  BY <1>1, <1>2

BetaOpened(c, d) ==
    /\ BetaInv(d) /\ BetaSame(c, d) /\ Has(c, Place(c))
    /\ d.xfer = "write" /\ d.at = 0

(* A write starts with a buffer for one sector.                               *)
LEMMA BetaOpens ==
    ASSUME NEW c, BetaTypes(c),
           NEW d, BetaStarts(c, "write", [i \in 1 .. SectorSize |-> 0], d)
    PROVE  /\ BetaInv(d) /\ BetaSame(c, d) /\ d.xfer = "write" /\ d.at = 0
<1>1. PICK xfer, buffer : xfer = "write" /\ buffer = [i \in 1 .. SectorSize |-> 0]
  OBVIOUS
<1>2. buffer \in Seq(Nat) /\ Len(buffer) = SectorSize /\ Len(buffer) > 0
  BY <1>1, BetaAssumption
<1>3. BetaStarts(c, xfer, buffer, d)
  BY <1>1
<1>4. BetaInv(d) /\ BetaStarted(c, xfer, buffer, d)
  BY <1>1, <1>2, <1>3, BetaStartKeeps, Zenon
<1> QED
  BY <1>1, <1>4 DEF BetaStarted

LEMMA BetaStartWrite ==
    ASSUME NEW c, BetaTypes(c), NEW d, d = StartWriteSector(c)
    PROVE  BetaEnded(c, d) \/ BetaOpened(c, d)
<1>1. CASE ~Has(c, Place(c))
  BY <1>1, BetaFails DEF StartWriteSector
<1>2. CASE Has(c, Place(c))
  <2>1. BetaStarts(c, "write", [i \in 1 .. SectorSize |-> 0], d)
    BY <1>2 DEF StartWriteSector, BetaStarts
  <2> QED
    BY <1>2, <2>1, BetaOpens, Zenon DEF BetaOpened
<1> QED
  BY <1>1, <1>2

(* A command that is about no sector's bytes.                                *)
BetaOther(c, d) ==
    /\ BetaInv(d) /\ d.image = c.image
    /\ d.xfer \in {"idle", "address"} \/ (d.xfer = "writeTrack" /\ d.parse = Hunt)

LEMMA BetaEndedOther ==
    ASSUME NEW c, NEW d, BetaEnded(c, d)
    PROVE  BetaOther(c, d)
  BY BetaEndedOK, Zenon DEF BetaOther, BetaEnded

(* The registers name one place.                                              *)
LEMMA BetaPlaces ==
    ASSUME NEW c, BetaRegs(c)
    PROVE  /\ SectorIndex(c) \in 0 .. SectorsPerTrack /\ EffectiveSide(c) \in {0, 1}
           /\ Place(c) = <<c.track, EffectiveSide(c), SectorIndex(c)>>
<1>1. c.sector \in Nat /\ c.side \in {0, 1}
  BY DEF BetaRegs
<1>2. SectorIndex(c) \in 0 .. SectorsPerTrack
  BY <1>1, BetaAssumption DEF SectorIndex
<1> QED
  BY <1>1, <1>2 DEF EffectiveSide, Place

(* These commands transfer no sector.                                         *)
LEMMA BetaReadAddress ==
    ASSUME NEW c, BetaTypes(c), NEW d, d = StartReadAddress(c)
    PROVE  BetaOther(c, d)
<1>1. CASE ~Has(c, Place(c))
  BY <1>1, BetaFails, BetaEndedOther DEF StartReadAddress
<1>2. CASE Has(c, Place(c))
  <2>1. PICK xfer, track, side, k, id, buffer :
           /\ xfer = "address" /\ track = c.track /\ side = EffectiveSide(c)
           /\ k = SectorIndex(c) + 1 /\ id = <<track, side, k, 1>>
           /\ buffer = id \o CheckBytes
    BY Zenon
  <2>2. track \in Nat /\ side \in Nat /\ k \in Nat
    <3>1. BetaRegs(c)
      BY DEF BetaTypes
    <3>2. SectorIndex(c) \in 0 .. SectorsPerTrack /\ EffectiveSide(c) \in {0, 1}
      BY <3>1, BetaPlaces
    <3>3. PICK i \in Nat : i = SectorIndex(c)
      BY <3>2, BetaAssumption
    <3>4. k = i + 1
      BY <2>1, <3>3
    <3> QED
      BY <2>1, <3>1, <3>2, <3>4 DEF BetaRegs
  <2>3. id \in Seq(Nat) /\ Len(id) = 4
    BY <2>1, <2>2
  <2>4. CheckBytes \in Seq(Nat) /\ Len(CheckBytes) \in Nat
    BY BetaAssumption, LenProperties, BytesAreSeq
  <2>5. buffer \in Seq(Nat) /\ Len(buffer) > 0
    BY <2>1, <2>3, <2>4
  <2>6. Place(c)[3] = SectorIndex(c)
    BY DEF Place
  <2>7. BetaStarts(c, xfer, buffer, d)
    BY <1>2, <2>1, <2>6 DEF StartReadAddress, BetaStarts
  <2>8. BetaInv(d) /\ BetaStarted(c, xfer, buffer, d)
    BY <2>1, <2>5, <2>7, BetaStartKeeps, Zenon
  <2> QED
    BY <2>1, <2>8 DEF BetaOther, BetaStarted, BetaSame
<1> QED
  BY <1>1, <1>2

LEMMA BetaReadTrack ==
    ASSUME NEW c, BetaTypes(c), NEW d, d = StartReadTrack(c)
    PROVE  BetaOther(c, d)
<1>1. CASE d = NotFound(c)
  BY <1>1, BetaFails, BetaEndedOther
<1>2. CASE d # NotFound(c)
  <2>1. PICK e, buffer, at, typeI : /\ e = Finish(c, TypeIStatus(c)) /\ buffer = <<>>
                                    /\ at = 0 /\ typeI = TRUE
    OBVIOUS
  <2>2. BetaEnded(c, e)
    BY <2>1, BetaFinishKeeps, BetaTypeIStatus
  <2>3. BetaDrops(e, buffer, at, typeI, d)
    BY <1>2, <2>1, Zenon DEF BetaDrops, StartReadTrack
  <2>4. buffer \in Seq(Nat) /\ at \in Nat
    BY <2>1
  <2> QED
    BY <2>2, <2>3, <2>4, BetaDropsKeeps, BetaEndedOther
<1> QED
  BY <1>1, <1>2

LEMMA BetaWriteTrack ==
    ASSUME NEW c, BetaTypes(c), NEW d, d = StartWriteTrack(c)
    PROVE  BetaOther(c, d)
<1>1. PICK xfer, buffer, e : xfer = "writeTrack" /\ buffer = <<>> /\ BetaStarts(c, xfer, buffer, e)
  BY DEF BetaStarts
<1>2. d = [e EXCEPT !.parse = Hunt, !.id = NoId, !.done = 0]
  BY <1>1 DEF StartWriteTrack, BetaStarts
<1>3. BetaStarted(c, xfer, buffer, e)
  BY <1>1, BetaStart DEF BetaTypes
<1>4. /\ BetaShape(d) /\ BetaSame(e, d) /\ BetaFresh(d)
      /\ d.xfer = "writeTrack" /\ d.buffer = <<>> /\ d.at = 0
      /\ d.drq = TRUE /\ d.intrq = FALSE /\ d.status = {"busy", "drq"}
  BY <1>1, <1>2, <1>3, ZenonT(30) DEF BetaStarted, BetaShape, BetaSame, BetaFresh
<1>5. BetaSame(c, d)
  BY <1>3, <1>4 DEF BetaStarted, BetaSame
<1>6. BetaTypes(d)
  BY <1>4, <1>5, BetaRegsKept, BetaParseFresh DEF BetaTypes
<1>7. BetaOK(d)
  BY <1>4, BetaAssumption DEF BetaOK, StatusOK, BetaFresh, Hunt
<1> QED
  BY <1>4, <1>5, <1>6, <1>7 DEF BetaOther, BetaInv, BetaFresh, BetaSame

(* Registers may have changed, a transfer has not.                           *)
BetaTweaks(c, d) ==
    /\ BetaShape(d) /\ d.sector = c.sector /\ d.dataReg = c.dataReg
    /\ d.side = c.side /\ d.image = c.image
    /\ d.track \in Nat /\ d.multiple \in BOOLEAN
    /\ BetaAlike(c, d)
    /\ d.buffer = c.buffer /\ d.at = c.at /\ d.xfer = c.xfer

(* Registers set by a command before it executes.                             *)
LEMMA BetaTweaked ==
    ASSUME NEW c, BetaTypes(c), NEW d, BetaTweaks(c, d)
    PROVE  BetaTypes(d) /\ d.image = c.image
<1>1. BetaRegs(d)
  BY DEF BetaTypes, BetaRegs, BetaTweaks
<1>2. BetaParse(d)
  BY BetaParseKept DEF BetaTypes, BetaTweaks
<1> QED
  BY <1>1, <1>2 DEF BetaTypes, BetaTweaks

BetaAnswered(c, d) ==
    /\ BetaInv(d) /\ d.image = c.image
    /\ \/ d.xfer \in {"idle", "address"}
       \/ d.xfer = "writeTrack" /\ d.parse = Hunt
       \/ /\ d.xfer = "read" /\ d.at = 0 /\ Has(d, Place(d))
          /\ d.buffer = d.image.sectors[Place(d)]
       \/ d.xfer = "write" /\ d.at = 0 /\ Has(d, Place(d))

LEMMA BetaSamePlace ==
    ASSUME NEW c, NEW d, BetaSame(c, d)
    PROVE  Place(d) = Place(c) /\ (Has(d, Place(d)) <=> Has(c, Place(c)))
  BY DEF BetaSame, Place, SectorIndex, EffectiveSide, Has

(* What a command has come to when it has been executed.                      *)
LEMMA BetaAnswers ==
    ASSUME NEW c, NEW e, e.image = c.image, NEW d,
           \/ BetaOther(e, d) \/ BetaEnded(e, d) \/ BetaLoaded(e, d) \/ BetaOpened(e, d)
    PROVE  BetaAnswered(c, d)
<1>1. CASE BetaOther(e, d)
  BY <1>1 DEF BetaOther, BetaAnswered
<1>2. CASE BetaEnded(e, d)
  BY <1>2, BetaEndedOther DEF BetaOther, BetaAnswered
<1>3. CASE BetaLoaded(e, d)
  <2>1. BetaSame(e, d)
    BY <1>3 DEF BetaLoaded
  <2>2. Place(d) = Place(e) /\ (Has(d, Place(d)) <=> Has(e, Place(e)))
    BY <2>1, BetaSamePlace
  <2> QED
    BY <1>3, <2>1, <2>2 DEF BetaLoaded, BetaAnswered, BetaSame
<1>4. CASE BetaOpened(e, d)
  <2>1. BetaSame(e, d)
    BY <1>4 DEF BetaOpened
  <2>2. Place(d) = Place(e) /\ (Has(d, Place(d)) <=> Has(e, Place(e)))
    BY <2>1, BetaSamePlace
  <2> QED
    BY <1>4, <2>1, <2>2 DEF BetaOpened, BetaAnswered, BetaSame
<1> QED
  BY <1>1, <1>2, <1>3, <1>4

(* Each command, whatever was under way, comes to one of these.               *)
LEMMA BetaExecute ==
    ASSUME NEW c, BetaTypes(c), NEW cmd \in Commands, cmd.kind # "force",
           NEW d, d = Execute(c, cmd)
    PROVE  BetaAnswered(c, d)
<1>1. BetaShape(c) /\ BetaRegs(c)
  BY DEF BetaTypes
<1>2. ASSUME NEW x, BetaTweaks(c, x), d = FinishTypeI(x)
      PROVE  BetaAnswered(c, d)
  BY <1>2, BetaTweaked, BetaFinishTypeI, BetaAnswers
<1>3. PICK y : y = [c EXCEPT !.typeI = FALSE]
  BY Zenon
<1>4. BetaTweaks(c, y)
  BY <1>1, <1>3, Zenon DEF BetaShape, BetaTweaks, BetaAlike, BetaRegs
<1>5. BetaTypes(y) /\ y.image = c.image
  BY <1>4, BetaTweaked
<1>6. CASE cmd.kind = "restore"
  <2>1. PICK x : x = [c EXCEPT !.track = 0, !.stepIn = FALSE]
    OBVIOUS
  <2>2. BetaTweaks(c, x)
    BY <1>1, <2>1, Zenon DEF BetaShape, BetaTweaks, BetaAlike, BetaRegs
  <2>3. d = FinishTypeI(x)
    BY <1>6, <2>1 DEF Execute, Steps
  <2> QED
    BY <1>2, <2>2, <2>3
<1>7. CASE cmd.kind = "seek"
  <2>1. PICK x : x = [c EXCEPT !.track = c.dataReg]
    BY Zenon
  <2>2. BetaTweaks(c, x)
    BY <1>1, <2>1 DEF BetaShape, BetaTweaks, BetaAlike, BetaRegs
  <2>3. d = FinishTypeI(x)
    BY <1>7, <2>1 DEF Execute, Steps
  <2> QED
    BY <1>2, <2>2, <2>3
<1>8. CASE cmd.kind \in Steps
  <2>1. d = Step(c, cmd)
    BY <1>8 DEF Execute, Steps
  <2>2. PICK in, x : x = [c EXCEPT !.stepIn = in]
                     /\ in = IF cmd.kind = "step" THEN c.stepIn ELSE cmd.kind = "stepIn"
    BY Zenon
  <2>3. PICK t : t = c.track /\ t \in Nat
    BY <1>1 DEF BetaRegs
  <2>4. PICK up, down : /\ up = IF t < LastTrack THEN t + 1 ELSE t
                        /\ down = IF t > 0 THEN t - 1 ELSE t
    OBVIOUS
  <2>5. up \in Nat /\ down \in Nat
    BY <2>3, <2>4
  <2>6. BetaTweaks(c, x) /\ BetaShape(x) /\ x.track = t
    BY <1>1, <2>2, <2>3 DEF BetaShape, BetaTweaks, BetaAlike, BetaRegs
  <2>7. PICK v, w : v = [x EXCEPT !.track = up] /\ w = [x EXCEPT !.track = down]
    BY Zenon
  <2>8. BetaTweaks(c, v)
    BY <2>5, <2>6, <2>7 DEF BetaShape, BetaTweaks, BetaAlike
  <2>9. BetaTweaks(c, w)
    BY <2>5, <2>6, <2>7 DEF BetaShape, BetaTweaks, BetaAlike
  <2>10. d = FinishTypeI(IF ~cmd.update THEN x ELSE IF x.stepIn THEN v ELSE w)
    <3>1. x = [c EXCEPT !.stepIn = IF cmd.kind = "step" THEN @ ELSE cmd.kind = "stepIn"]
      BY <2>2
    <3>2. v = [x EXCEPT !.track = IF @ < LastTrack THEN @ + 1 ELSE @]
      BY <2>4, <2>6, <2>7
    <3>3. w = [x EXCEPT !.track = IF @ > 0 THEN @ - 1 ELSE @]
      BY <2>4, <2>6, <2>7
    <3> QED
      BY <2>1, <3>1, <3>2, <3>3 DEF Step
  <2>11. d = FinishTypeI(x) \/ d = FinishTypeI(v) \/ d = FinishTypeI(w)
    BY <2>10
  <2> QED
    BY <1>2, <2>6, <2>8, <2>9, <2>11
<1>9. CASE cmd.kind \in {"readSector", "writeSector"}
  <2>1. PICK multiple \in BOOLEAN : multiple = cmd.multiple
    BY <1>9 DEF Commands, Steps
  <2>2. PICK x : x = [y EXCEPT !.multiple = multiple]
    BY Zenon
  <2>3. BetaShape(y) /\ BetaRegs(y)
    BY <1>5 DEF BetaTypes
  <2>4. BetaTweaks(y, x)
    BY <2>2, <2>3 DEF BetaShape, BetaTweaks, BetaAlike, BetaRegs
  <2>5. BetaTypes(x) /\ x.image = c.image
    BY <1>5, <2>4, BetaTweaked
  <2>6. CASE cmd.kind = "readSector"
    <3>1. d = LoadSector(x)
      BY <1>3, <2>1, <2>2, <2>6 DEF Execute, Steps
    <3> QED
      BY <2>5, <3>1, BetaLoad, BetaAnswers
  <2>7. CASE cmd.kind = "writeSector"
    <3>1. d = StartWriteSector(x)
      BY <1>3, <2>1, <2>2, <2>7 DEF Execute, Steps
    <3> QED
      BY <2>5, <3>1, BetaStartWrite, BetaAnswers
  <2> QED
    BY <1>9, <2>6, <2>7
<1>10. CASE cmd.kind \in {"readAddress", "readAddressOrForce"}
  <2>1. d = StartReadAddress(y)
    BY <1>3, <1>10 DEF Execute, Steps
  <2> QED
    BY <1>5, <2>1, BetaReadAddress, BetaAnswers
<1>11. CASE cmd.kind = "readTrack"
  <2>1. d = StartReadTrack(y)
    BY <1>3, <1>11 DEF Execute, Steps
  <2> QED
    BY <1>5, <2>1, BetaReadTrack, BetaAnswers
<1>12. CASE cmd.kind = "writeTrack"
  <2>1. d = StartWriteTrack(y)
    BY <1>3, <1>12 DEF Execute, Steps
  <2> QED
    BY <1>5, <2>1, BetaWriteTrack, BetaAnswers
<1>13. cmd.kind \in {"restore", "seek", "readAddress", "readTrack", "writeTrack",
                     "readAddressOrForce", "readSector", "writeSector"} \cup Steps
  BY DEF Commands
<1> QED
  BY <1>6, <1>7, <1>8, <1>9, <1>10, <1>11, <1>12, <1>13

LEMMA BetaForce ==
    ASSUME NEW c, BetaTypes(c), c.drq = FALSE, NEW immediate,
           NEW d, d = ForceInterrupt(c, immediate)
    PROVE  BetaEnded(c, d)
<1>1. BetaShape(c) /\ BetaRegs(c) /\ BetaParse(c)
  BY DEF BetaTypes
<1>2. PICK x : x = [c EXCEPT !.xfer = "idle", !.buffer = <<>>, !.at = 0]
  OBVIOUS
<1>3. /\ BetaShape(x) /\ BetaSame(c, x) /\ BetaAlike(c, x) /\ x.xfer = "idle"
      /\ x.buffer = <<>> /\ x.at = 0 /\ x.drq = FALSE
  BY <1>1, <1>2, Zenon DEF BetaShape, BetaSame, BetaAlike
<1>4. BetaTypes(x) /\ x.image = c.image
  BY <1>1, <1>3, BetaRegsKept, BetaParseKept DEF BetaTypes, BetaSame
<1>5. PICK y : y = [x EXCEPT !.status = @ \ {"busy", "drq"}]
  BY Zenon
<1>6. PICK e : /\ e = FinishWriteTrack(x) \/ e = FinishTypeI(x) \/ e = y
               /\ d = [e EXCEPT !.intrq = immediate]
  BY <1>2, <1>5, Zenon DEF ForceInterrupt
<1>7. BetaEnded(x, y)
  <2>1. PICK s : s = x.status \ {"busy", "drq"}
    BY Zenon
  <2>2. y = [x EXCEPT !.status = s]
    BY <1>5, <2>1
  <2>3. /\ BetaShape(y) /\ BetaSame(x, y) /\ BetaAlike(x, y) /\ y.xfer = "idle"
        /\ y.buffer = x.buffer /\ y.at = x.at /\ y.drq = FALSE /\ y.status = s
    BY <1>3, <2>2 DEF BetaShape, BetaSame, BetaAlike
  <2>4. BetaTypes(y)
    BY <1>4, <2>3, BetaRegsKept, BetaParseKept DEF BetaTypes
  <2> QED
    BY <2>1, <2>3, <2>4 DEF BetaEnded, BetaSame
<1>8. BetaEnded(x, e)
  BY <1>4, <1>6, <1>7, BetaFinishTrack, BetaFinishTypeI
<1>9. BetaTypes(e) /\ BetaShape(e)
  BY <1>8 DEF BetaEnded, BetaTypes
<1>10. /\ BetaShape(d) /\ BetaSame(e, d) /\ BetaAlike(e, d) /\ d.xfer = e.xfer
       /\ d.buffer = e.buffer /\ d.at = e.at /\ d.drq = e.drq /\ d.status = e.status
  BY <1>6, <1>9 DEF BetaShape, BetaSame, BetaAlike
<1>11. BetaTypes(d)
  BY <1>9, <1>10, BetaRegsKept, BetaParseKept DEF BetaTypes
<1> QED
  BY <1>4, <1>8, <1>10, <1>11 DEF BetaEnded, BetaSame

LEMMA BetaCommand ==
    ASSUME NEW c, BetaTypes(c), NEW cmd \in Commands, NEW d, d = WriteCommand(c, cmd)
    PROVE  BetaAnswered(c, d)
<1>1. BetaShape(c) /\ BetaRegs(c)
  BY DEF BetaTypes
<1>2. PICK x : x = [c EXCEPT !.intrq = FALSE, !.drq = FALSE]
  OBVIOUS
<1>3. BetaTweaks(c, x) /\ x.drq = FALSE
  BY <1>1, <1>2, Zenon DEF BetaShape, BetaTweaks, BetaAlike, BetaRegs
<1>4. BetaTypes(x) /\ x.image = c.image
  BY <1>3, BetaTweaked
<1>5. CASE IsForce(c, cmd)
  <2>1. PICK immediate : d = ForceInterrupt(x, immediate)
    BY <1>2, <1>5 DEF WriteCommand
  <2> QED
    BY <1>3, <1>4, <2>1, BetaForce, BetaAnswers, Zenon
<1>6. CASE ~IsForce(c, cmd)
  <2>1. d = Execute(x, cmd) \/ d = NotReady(x)
    BY <1>2, <1>6 DEF WriteCommand
  <2>2. cmd.kind # "force"
    BY <1>6 DEF IsForce
  <2>3. CASE d = Execute(x, cmd)
    <3>1. BetaAnswered(x, d)
      BY <1>4, <2>2, <2>3, BetaExecute
    <3> QED
      BY <1>4, <3>1 DEF BetaAnswered
  <2>4. CASE d = NotReady(x)
    BY <1>4, <2>4, BetaFails, BetaAnswers
  <2> QED
    BY <2>1, <2>3, <2>4
<1> QED
  BY <1>5, <1>6

BetaDrives == Drive!Next \/ UNCHANGED <<vg93.image.sectors, Job>>

(* The job of a controller.                                                  *)
BetaJob(c) ==
    CASE c.xfer = "read" ->
            [op |-> "read", at |-> Place(c), bytes |-> SubSeq(c.buffer, c.at + 1, Len(c.buffer))]
      [] c.xfer = "write" ->
            [op |-> "write", at |-> Place(c), want |-> SectorSize, keep |-> TRUE,
             bytes |-> SubSeq(c.buffer, 1, c.at)]
      [] c.xfer = "writeTrack" /\ c.parse.in = "data" ->
            [op |-> "write", at |-> <<c.parse.id[1], c.parse.id[2], c.parse.id[3] - 1>>,
             want |-> c.parse.size, keep |-> FALSE, bytes |-> c.buffer]
      [] OTHER -> [op |-> "none"]

(* The job that DrivesKeepTheirMedia sees is that of the controller.          *)
LEMMA BetaJobs == Job = BetaJob(vg93) /\ Job' = BetaJob(vg93')
  BY DEF Job, BetaJob, Place, EffectiveSide, SectorIndex

BetaQuiet(c) ==
    c.xfer \in {"idle", "address"} \/ (c.xfer = "writeTrack" /\ c.parse.in # "data")

LEMMA BetaQuietJob ==
    ASSUME NEW c, BetaQuiet(c)
    PROVE  BetaJob(c) = [op |-> "none"]
  BY DEF BetaQuiet, BetaJob

(* Nothing is under way afterwards.                                          *)
LEMMA BetaEnds ==
    ASSUME BetaQuiet(vg93'), vg93'.image = vg93.image
    PROVE  BetaDrives
<1>1. Job' = [op |-> "none"]
  BY BetaJobs, BetaQuietJob
<1> QED
  BY <1>1 DEF BetaDrives, Drive!Next, Drive!GiveUp, Drive!NoJob

(* A sector read whole.                                                       *)
LEMMA BetaResized ==
    ASSUME NEW b \in Seq(Nat)
    PROVE  /\ b = [i \in 1 .. Len(b) |-> IF i <= Len(b) THEN b[i] ELSE 0]
           /\ SubSeq(b, 0 + 1, Len(b)) = b /\ SubSeq(b, 1, 0) = <<>>
  BY SubSeqWhole

(* A read that has begun has the sector that the registers name.             *)
LEMMA BetaReading ==
    ASSUME BetaInv(vg93'), vg93'.xfer = "read", vg93'.at = 0, Has(vg93', Place(vg93')),
           vg93'.image = vg93.image,
           vg93'.buffer = vg93'.image.sectors[Place(vg93')]
    PROVE  Drive!Reads /\ Job'.at = Place(vg93')
<1>1. PICK d, b, k, p : d = vg93' /\ b = d.buffer /\ k = Job' /\ p = Place(d)
  OBVIOUS
<1>b. b \in Seq(Nat)
  BY <1>1 DEF BetaInv, BetaTypes
<1>2. k = [op |-> "read", at |-> p, bytes |-> b]
  BY <1>1, <1>b, BetaJobs, BetaResized, Zenon DEF BetaJob
<1>3. k.op = "read" /\ k.at = p /\ k.bytes = b
  BY <1>2
<1>4. p \in DOMAIN vg93.image.sectors /\ b = vg93.image.sectors[p]
  BY <1>1 DEF Has
<1>5. b = [i \in 1 .. Len(b) |-> IF i <= Len(b) THEN b[i] ELSE 0]
  BY <1>b, BetaResized
<1> QED
  BY <1>1, <1>3, <1>4, <1>5 DEF Drive!Reads, Drive!On, Drive!Resized

(* A write that begins.                                                       *)
LEMMA BetaWriting ==
    ASSUME BetaInv(vg93'), vg93'.xfer = "write", vg93'.at = 0
    PROVE  Drive!Writes /\ Job'.at = Place(vg93')
<1>1. PICK d, b, k, p : d = vg93' /\ b = d.buffer /\ k = Job' /\ p = Place(d)
  OBVIOUS
<1>b. b \in Seq(Nat)
  BY <1>1 DEF BetaInv, BetaTypes
<1>2. k.op = "write" /\ k.at = p /\ k.bytes = <<>>
  BY <1>1, <1>b, BetaJobs, BetaResized DEF BetaJob
<1> QED
  BY <1>1, <1>2 DEF Drive!Writes

(* A command begins a transfer of the sector it names, or none.              *)
LEMMA BetaBegun ==
    ASSUME BetaAnswered(vg93, vg93')
    PROVE  BetaDrives
<1>1. BetaInv(vg93') /\ vg93'.image = vg93.image
  BY DEF BetaAnswered
<1>2. CASE \/ vg93'.xfer \in {"idle", "address"}
           \/ vg93'.xfer = "writeTrack" /\ vg93'.parse = Hunt
  BY <1>1, <1>2, BetaEnds DEF BetaQuiet, Hunt
<1>3. CASE vg93'.xfer = "read" /\ vg93'.at = 0 /\ Has(vg93', Place(vg93'))
           /\ vg93'.buffer = vg93'.image.sectors[Place(vg93')]
  <2>1. Drive!Reads
    BY <1>1, <1>3, BetaReading
  <2> QED
    BY <1>1, <2>1 DEF BetaDrives, Drive!Next, Drive!Begin
<1>4. CASE vg93'.xfer = "write" /\ vg93'.at = 0 /\ Has(vg93', Place(vg93'))
  <2>1. Drive!Writes /\ Job'.at = Place(vg93')
    BY <1>1, <1>4, BetaWriting
  <2>2. Drive!On(Job'.at)
    BY <1>1, <1>4, <2>1 DEF Drive!On, Has
  <2> QED
    BY <1>1, <2>1, <2>2 DEF BetaDrives, Drive!Next, Drive!Begin
<1> QED
  BY <1>2, <1>3, <1>4 DEF BetaAnswered

(* The registers and the disk change, and a transfer goes on.                *)
BetaNudged(c, d) ==
    /\ BetaShape(d) /\ BetaRegs(d) /\ BetaAlike(c, d)
    /\ d.buffer = c.buffer /\ d.at = c.at /\ d.xfer = c.xfer
    /\ d.drq = c.drq /\ d.status = c.status /\ d.intrq \in {c.intrq, FALSE}

(* Registers do not disturb a transfer, which may be moved by them.           *)
LEMMA BetaNudgedKeeps ==
    ASSUME NEW c, BetaInv(c), NEW d, BetaNudged(c, d)
    PROVE  BetaInv(d)
<1>1. BetaTypes(d)
  BY BetaParseKept DEF BetaInv, BetaTypes, BetaNudged
<1>2. BetaOK(d)
  BY Zenon DEF BetaInv, BetaOK, StatusOK, BetaNudged, BetaAlike
<1> QED
  BY <1>1, <1>2 DEF BetaInv

LEMMA BetaMoves ==
    ASSUME BetaInv(vg93), BetaNudged(vg93, vg93'),
           vg93'.image = vg93.image \/ vg93'.image.sectors \in Media
    PROVE  BetaDrives
<1>1. PICK c, d, j, k : c = vg93 /\ d = vg93' /\ j = Job /\ k = Job'
  OBVIOUS
<1>2. j = BetaJob(c) /\ k = BetaJob(d)
  BY <1>1, BetaJobs
<1>3. d.buffer = c.buffer /\ d.at = c.at /\ d.xfer = c.xfer /\ d.parse = c.parse
  BY <1>1 DEF BetaNudged, BetaAlike
<1>4. k = j \/ Drive!Moved
  <2>1. CASE c.xfer = "read"
    <3>1. PICK p, q, b : p = Place(c) /\ q = Place(d) /\ b = SubSeq(c.buffer, c.at + 1, Len(c.buffer))
      BY Zenon
    <3>2. /\ j = [op |-> "read", at |-> p, bytes |-> b]
          /\ k = [op |-> "read", at |-> q, bytes |-> b]
      BY <1>2, <1>3, <2>1, <3>1 DEF BetaJob
    <3>3. k = [j EXCEPT !.at = k.at] /\ j.op = "read" /\ k.op = "read"
      BY <3>2
    <3>4. j # [op |-> "none"] /\ k # [op |-> "none"]
      BY <3>3
    <3> QED
      BY <1>1, <3>3, <3>4 DEF Drive!Moved, Drive!NoJob
  <2>2. CASE c.xfer = "write"
    <3>1. PICK p, q, b, keep :
             p = Place(c) /\ q = Place(d) /\ b = SubSeq(c.buffer, 1, c.at) /\ keep = TRUE
      BY Zenon
    <3>2. /\ j = [op |-> "write", at |-> p, want |-> SectorSize, keep |-> keep, bytes |-> b]
          /\ k = [op |-> "write", at |-> q, want |-> SectorSize, keep |-> keep, bytes |-> b]
      BY <1>2, <1>3, <2>2, <3>1 DEF BetaJob
    <3>3. k = [j EXCEPT !.at = k.at] /\ j.op = "write" /\ k.op = "write"
      BY <3>2
    <3>4. j # [op |-> "none"] /\ k # [op |-> "none"]
      BY <3>3
    <3> QED
      BY <1>1, <3>3, <3>4 DEF Drive!Moved, Drive!NoJob
  <2>3. CASE c.xfer \notin {"read", "write"}
    BY <1>2, <1>3, <2>3 DEF BetaJob
  <2> QED
    BY <2>1, <2>2, <2>3
<1>5. CASE vg93'.image = vg93.image
  BY <1>1, <1>4, <1>5 DEF BetaDrives, Drive!Next, Drive!Move
<1>6. CASE vg93'.image.sectors \in Media
  BY <1>1, <1>4, <1>6 DEF BetaDrives, Drive!Next, Drive!Insert
<1> QED
  BY <1>5, <1>6

BetaSet(b, n, byte, e) == e = [b EXCEPT ![n + 1] = byte]

BetaGrown(b, n, byte, e) ==
    /\ e \in Seq(Nat) /\ Len(e) = Len(b) /\ e \in [1 .. Len(b) -> Nat]
    /\ SubSeq(e, 1, n + 1) = Append(SubSeq(b, 1, n), byte)
    /\ SubSeq(b, 1, n) \in Seq(Nat) /\ Len(SubSeq(b, 1, n)) = n

(* The bytes of a write before and after it takes one.                       *)
LEMMA BetaGrows ==
    ASSUME NEW b \in Seq(Nat), NEW n \in Nat, n < Len(b), NEW byte \in Nat,
           NEW e, BetaSet(b, n, byte, e)
    PROVE  BetaGrown(b, n, byte, e)
<1>1. PICK l \in Nat : l = Len(b) /\ b \in [1 .. l -> Nat]
  BY LenProperties
<1>2. e \in [1 .. l -> Nat]
  BY <1>1 DEF BetaSet
<1>3. e \in Seq(Nat) /\ Len(e) = l
  BY <1>1, <1>2
<1>4. e[n + 1] = byte /\ \A i \in 1 .. n : e[i] = b[i]
  BY <1>1 DEF BetaSet
<1>5. /\ SubSeq(e, 1, n + 1) = Append(SubSeq(b, 1, n), e[n + 1])
      /\ Len(SubSeq(b, 1, n)) = n
  <2>1. Alike(b, e, n)
    BY <1>1, <1>3, <1>4 DEF Alike
  <2>2. OneMore(b, e, n)
    BY <1>3, <2>1, SubSeqNext
  <2> QED
    BY <2>2 DEF OneMore
<1>6. SubSeq(b, 1, n) \in Seq(Nat)
  <2>1. \A i \in 1 .. n : b[i] \in Nat
    BY <1>1
  <2> QED
    BY <2>1, SubSeqProperties
<1> QED
  BY <1>1, <1>2, <1>3, <1>4, <1>5, <1>6, Zenon DEF BetaGrown

BetaTook(c, byte, d) ==
    d = [c EXCEPT !.buffer[c.at + 1] = byte, !.at = @ + 1, !.dataReg = byte]

BetaPut(c, byte, d) ==
    /\ d.track = c.track /\ d.sector = c.sector /\ d.side = c.side /\ d.image = c.image
    /\ d.multiple = c.multiple /\ BetaAlike(c, d) /\ d.xfer = c.xfer
    /\ d.buffer = [c.buffer EXCEPT ![c.at + 1] = byte] /\ d.at = c.at + 1

(* A byte that a write takes.                                                 *)
LEMMA BetaTookKeeps ==
    ASSUME NEW c, BetaInv(c), c.xfer = "write", NEW byte \in 0 .. 255,
           NEW d, BetaTook(c, byte, d)
    PROVE  BetaTypes(d) /\ BetaPut(c, byte, d) /\ BetaGrown(c.buffer, c.at, byte, d.buffer)
<1>1. BetaShape(c) /\ BetaRegs(c) /\ BetaParse(c)
  BY DEF BetaInv, BetaTypes
<1>2. PICK n \in Nat : n = c.at
  BY DEF BetaInv, BetaTypes
<1>3. PICK b \in Seq(Nat) : b = c.buffer
  BY DEF BetaInv, BetaTypes
<1>4. PICK k \in Nat : k = n + 1
  BY <1>2
<1>5. PICK e : e = [b EXCEPT ![n + 1] = byte]
  BY Zenon
<1>6. d = [c EXCEPT !.buffer = e, !.at = k, !.dataReg = byte]
  BY <1>1, <1>2, <1>3, <1>4, <1>5 DEF BetaTook, BetaShape
<1>7. /\ BetaShape(d) /\ d.track = c.track /\ d.sector = c.sector /\ d.side = c.side
      /\ d.image = c.image /\ d.multiple = c.multiple /\ BetaAlike(c, d)
      /\ d.xfer = c.xfer /\ d.dataReg = byte /\ d.buffer = e /\ d.at = k
  BY <1>1, <1>6, Zenon DEF BetaShape, BetaAlike
<1>8. n < Len(b)
  BY <1>2, <1>3 DEF BetaInv, BetaOK, StatusOK
<1>9. BetaGrown(b, n, byte, e)
  <2>1. byte \in Nat /\ BetaSet(b, n, byte, e)
    BY <1>5 DEF BetaSet
  <2> QED
    BY <1>8, <2>1, BetaGrows
<1>10. BetaRegs(d)
  BY <1>1, <1>7 DEF BetaRegs
<1>11. BetaParse(d)
  BY <1>1, <1>7, BetaParseKept
<1>12. BetaTypes(d)
  BY <1>7, <1>9, <1>10, <1>11 DEF BetaTypes, BetaGrown
<1> QED
  BY <1>2, <1>3, <1>4, <1>5, <1>7, <1>9, <1>12 DEF BetaPut

BetaRequested(c, d) ==
    /\ BetaShape(d) /\ BetaSame(c, d) /\ BetaAlike(c, d) /\ d.xfer = c.xfer
    /\ d.buffer = c.buffer /\ d.at = c.at /\ d.intrq = c.intrq
    /\ d.drq = TRUE /\ d.status = {"busy", "drq"}

(* A request for one more byte.                                               *)
LEMMA BetaRequest ==
    ASSUME NEW c, BetaTypes(c), NEW d, d = Request(c)
    PROVE  BetaTypes(d) /\ BetaRequested(c, d)
<1>1. BetaRequested(c, d)
  BY Zenon DEF BetaTypes, BetaShape, Request, BetaRequested, BetaSame, BetaAlike
<1>2. BetaRegs(d)
  BY <1>1, BetaRegsKept DEF BetaTypes, BetaRequested
<1>3. BetaParse(d)
  BY <1>1, BetaParseKept DEF BetaTypes, BetaRequested
<1> QED
  BY <1>1, <1>2, <1>3 DEF BetaTypes, BetaRequested

(* The accesses that the sectors after this one take.                        *)
BetaAfter(c) ==
    IF HasNext(c) THEN (SectorsPerTrack - c.sector) * SectorSize ELSE 0

(* The accesses that are left, of a transfer that has an end.                 *)
LEMMA BetaLeft ==
    ASSUME NEW c, c.xfer \in {"read", "write"}
    PROVE  Left(c) = Len(c.buffer) - c.at + BetaAfter(c)
  BY DEF Left, BetaAfter

LEMMA BetaAfterIsInt ==
    ASSUME NEW c, BetaRegs(c)
    PROVE  BetaAfter(c) \in Nat
<1>1. PICK s, n \in Nat : s = c.sector /\ n = SectorSize
  BY BetaAssumption DEF BetaRegs
<1>2. PICK t \in Nat : t = SectorsPerTrack
  BY BetaAssumption
<1>3. CASE s < t
  <2>1. PICK u \in Nat : u = t - s
    BY <1>2, <1>3
  <2>2. u * n \in Nat
    OBVIOUS
  <2> QED
    BY <1>1, <1>2, <2>1, <2>2 DEF BetaAfter
<1>4. CASE ~(s < t)
  BY <1>1, <1>2, <1>4 DEF BetaAfter, HasNext
<1> QED
  BY <1>3, <1>4

(* The next sector brings fewer accesses after it.                           *)
LEMMA BetaAfterNext ==
    ASSUME NEW c, BetaRegs(c), HasNext(c), NEW d, BetaRegs(d),
           d.sector = c.sector + 1, d.multiple = c.multiple
    PROVE  SectorSize + BetaAfter(d) <= BetaAfter(c)
<1>1. PICK s \in Nat : s = c.sector
  BY DEF BetaRegs
<1>2. PICK n \in Nat : n = SectorSize
  BY BetaAssumption
<1>3. PICK t \in Nat : t = SectorsPerTrack
  BY BetaAssumption
<1>4. s < t
  BY <1>1, <1>3 DEF HasNext
<1>5. PICK u \in Nat : u = t - s - 1
  BY <1>4
<1>6. BetaAfter(c) = (u + 1) * n
  <2>1. t - s = u + 1
    BY <1>5
  <2> QED
    BY <1>1, <1>2, <1>3, <2>1 DEF BetaAfter
<1>7. (u + 1) * n = u * n + n /\ u * n \in Nat
  OBVIOUS
<1>8. CASE s + 1 < t
  <2>1. t - (s + 1) = u
    BY <1>5
  <2>2. HasNext(d) /\ d.sector = s + 1
    BY <1>1, <1>3, <1>8 DEF HasNext
  <2>3. BetaAfter(d) = u * n
    BY <1>2, <1>3, <2>1, <2>2 DEF BetaAfter
  <2> QED
    BY <1>2, <1>6, <1>7, <2>3
<1>9. CASE ~(s + 1 < t)
  <2>1. ~HasNext(d)
    BY <1>1, <1>3, <1>9 DEF HasNext
  <2>2. BetaAfter(d) = 0
    BY <2>1 DEF BetaAfter
  <2> QED
    BY <1>2, <1>6, <1>7, <2>2
<1> QED
  BY <1>8, <1>9

LEMMA BetaAfterSame ==
    ASSUME NEW c, NEW d, d.sector = c.sector, d.multiple = c.multiple
    PROVE  BetaAfter(d) = BetaAfter(c)
  BY DEF BetaAfter, HasNext

BetaServed == BetaInv(vg93') /\ Nearer /\ BetaDrives

(* A byte of a sector that is being written.                                 *)
LEMMA BetaTakes ==
    ASSUME BetaInv(vg93), vg93.xfer = "write", NEW byte \in 0 .. 255,
           vg93.at + 1 < SectorSize,
           NEW x, BetaTook(vg93, byte, x)
    PROVE  vg93' = Request(x) => BetaServed
<1>1. SUFFICES ASSUME vg93' = Request(x)
               PROVE  BetaServed
  OBVIOUS
<1>2. PICK n \in Nat : n = vg93.at
  BY DEF BetaInv, BetaTypes
<1>3. PICK b \in Seq(Nat) : b = vg93.buffer
  BY DEF BetaInv, BetaTypes
<1>4. PICK l \in Nat : l = SectorSize
  BY BetaAssumption
<1>5. BetaTypes(x) /\ BetaPut(vg93, byte, x) /\ BetaGrown(b, n, byte, x.buffer)
  BY <1>2, <1>3, BetaTookKeeps, Zenon
<1>6. BetaTypes(vg93') /\ BetaRequested(x, vg93')
  BY <1>1, <1>5, BetaRequest
<1>7. PICK e : e = vg93'.buffer
  OBVIOUS
<1>8. /\ Len(b) = l /\ Len(e) = Len(b) /\ e \in Seq(Nat)
      /\ SubSeq(b, 1, n) \in Seq(Nat) /\ Len(SubSeq(b, 1, n)) = n
      /\ SubSeq(e, 1, n + 1) = Append(SubSeq(b, 1, n), byte)
  BY <1>3, <1>4, <1>5, <1>6, <1>7 DEF BetaGrown, BetaRequested, BetaInv, BetaOK, StatusOK
<1>9. vg93'.at = n + 1 /\ n + 1 < l /\ vg93'.xfer = "write"
  BY <1>2, <1>4, <1>5, <1>6 DEF BetaPut, BetaRequested
<1>10. vg93'.intrq = FALSE
  <2>1. vg93'.intrq = x.intrq
    BY <1>6 DEF BetaRequested
  <2>2. x.intrq = vg93.intrq
    BY DEF BetaTook, BetaInv, BetaTypes, BetaShape
  <2>3. ~vg93.intrq
    BY DEF BetaInv, BetaOK, StatusOK
  <2> QED
    BY <2>1, <2>2, <2>3
<1>11. BetaInv(vg93')
  <2>1. vg93'.drq = TRUE /\ vg93'.status = {"busy", "drq"}
    BY <1>6 DEF BetaRequested
  <2> QED
    BY <1>4, <1>6, <1>7, <1>8, <1>9, <1>10, <2>1, Zenon DEF BetaInv, BetaOK, StatusOK
<1>12. Nearer
  <2>1. PICK a \in Nat : a = BetaAfter(vg93)
    BY BetaAfterIsInt DEF BetaInv, BetaTypes
  <2>2. BetaAfter(vg93') = a
    BY <1>5, <1>6, <2>1, BetaAfterSame DEF BetaRequested, BetaSame, BetaPut
  <2>3. Left(vg93) = l - n + a /\ Left(vg93') = l - (n + 1) + a
    <3>1. Left(vg93) = Len(vg93.buffer) - vg93.at + BetaAfter(vg93)
      BY BetaLeft
    <3>2. Left(vg93') = Len(vg93'.buffer) - vg93'.at + BetaAfter(vg93')
      BY <1>9, BetaLeft, SMTT(20)
    <3> QED
      BY <1>2, <1>3, <1>7, <1>8, <1>9, <2>1, <2>2, <3>1, <3>2, Zenon
  <2>4. l - (n + 1) + a < l - n + a
    OBVIOUS
  <2> QED
    BY <2>3, <2>4 DEF Nearer
<1>13. PICK p, keep, s, t, j, k :
         /\ p = Place(vg93) /\ keep = TRUE
         /\ s = SubSeq(b, 1, n) /\ t = SubSeq(e, 1, n + 1)
         /\ j = Job /\ k = Job'
  BY Zenon
<1>14. Place(vg93') = p
  BY <1>5, <1>6, <1>13 DEF BetaPut, BetaRequested, BetaSame, Place, SectorIndex, EffectiveSide
<1>15. j = [op |-> "write", at |-> p, want |-> l, keep |-> keep, bytes |-> s]
  BY <1>2, <1>3, <1>4, <1>13, BetaJobs DEF BetaJob
<1>16. k = [op |-> "write", at |-> p, want |-> l, keep |-> keep, bytes |-> t]
  BY <1>4, <1>7, <1>9, <1>13, <1>14, BetaJobs DEF BetaJob
<1>17. Taken(j, k, byte)
  BY <1>8, <1>13, <1>15, <1>16, JobTaken, Zenon
<1>18. j.op = "write" /\ j.want = l /\ j.bytes = s /\ k.op = "write" /\ k.bytes = t
  BY <1>15, <1>16
<1>19. Len(t) = Len(s) + 1 /\ t[Len(t)] = byte /\ Len(s) < l
  <2>1. s \in Seq(Nat) /\ Len(s) = n /\ t = Append(s, byte)
    BY <1>8, <1>13
  <2>2. Len(t) = Len(s) + 1 /\ t[Len(t)] = byte
    BY <2>1
  <2> QED
    BY <1>9, <2>1, <2>2
<1>20. k = [j EXCEPT !.bytes = Append(@, k.bytes[Len(k.bytes)])]
  BY <1>17, <1>18, <1>19, Zenon DEF Taken
<1>21. vg93'.image = vg93.image
  BY <1>5, <1>6 DEF BetaPut, BetaRequested, BetaSame
<1>22. Drive!Take
  BY <1>13, <1>18, <1>19, <1>20, <1>21 DEF Drive!Take
<1> QED
  BY <1>11, <1>12, <1>22 DEF BetaServed, BetaDrives, Drive!Next

(* A sector that is stored where the registers say.                          *)
BetaStores(c, p, data, d) == d = [c EXCEPT !.image.sectors[p] = data]

BetaStored(c, p, data, d) ==
    /\ d.track = c.track /\ d.sector = c.sector /\ d.side = c.side
    /\ d.multiple = c.multiple /\ BetaAlike(c, d) /\ d.xfer = c.xfer
    /\ d.buffer = c.buffer /\ d.at = c.at
    /\ d.drq = c.drq /\ d.status = c.status /\ d.intrq = c.intrq
    /\ d.image.sides = c.image.sides
    /\ d.image.sectors = [c.image.sectors EXCEPT ![p] = data]

(* A sector that is stored leaves a disk.                                     *)
LEMMA BetaStoresKeeps ==
    ASSUME NEW c, BetaTypes(c), NEW p, Has(c, p),
           NEW data \in [1 .. SectorSize -> Nat], NEW d, BetaStores(c, p, data, d)
    PROVE  BetaTypes(d) /\ BetaStored(c, p, data, d)
<1>1. BetaShape(c) /\ BetaRegs(c) /\ BetaParse(c) /\ IsDisk(c.image)
  BY DEF BetaTypes, BetaRegs
<1>2. PICK disk, m : disk = c.image /\ m = disk.sectors
  OBVIOUS
<1>3. disk = [sides |-> disk.sides, sectors |-> m]
  BY <1>1, <1>2 DEF IsDisk
<1>4. PICK m2, disk2 : m2 = [m EXCEPT ![p] = data] /\ disk2 = [disk EXCEPT !.sectors = m2]
  BY Zenon
<1>5. /\ disk2.sides = disk.sides /\ disk2.sectors = m2
      /\ disk2 = [sides |-> disk2.sides, sectors |-> disk2.sectors]
  BY <1>3, <1>4
<1>6. IsDisk(disk2)
  <2>1. m \in [DOMAIN m -> [1 .. SectorSize -> Nat]]
    BY <1>1, <1>2 DEF IsDisk
  <2>2. DOMAIN m2 = DOMAIN m /\ m2 \in [DOMAIN m -> [1 .. SectorSize -> Nat]]
    BY <1>4, <2>1, Zenon
  <2> QED
    BY <1>1, <1>2, <1>5, <2>2 DEF IsDisk
<1>7. d = [c EXCEPT !.image = disk2]
  BY <1>1, <1>2, <1>3, <1>4 DEF BetaStores, BetaShape
<1>8. /\ BetaShape(d) /\ d.image = disk2 /\ BetaAlike(c, d) /\ d.dataReg = c.dataReg
      /\ d.track = c.track /\ d.sector = c.sector /\ d.side = c.side
      /\ d.multiple = c.multiple /\ d.xfer = c.xfer
      /\ d.buffer = c.buffer /\ d.at = c.at
      /\ d.drq = c.drq /\ d.status = c.status /\ d.intrq = c.intrq
  BY <1>1, <1>7 DEF BetaShape, BetaAlike
<1>9. BetaRegs(d)
  BY <1>1, <1>6, <1>8 DEF BetaRegs
<1>10. BetaTypes(d)
  BY <1>1, <1>8, <1>9, BetaParseKept DEF BetaTypes
<1> QED
  BY <1>2, <1>4, <1>5, <1>8, <1>10 DEF BetaStored

BetaFilled(old, keep, bytes, e) ==
    e = [i \in DOMAIN old |-> IF i <= Len(bytes) THEN bytes[i]
                              ELSE IF keep THEN old[i] ELSE Fill]

(* All bytes of a sector were sent.                                           *)
LEMMA BetaWhole ==
    ASSUME NEW disk, IsDisk(disk), NEW p, p \in DOMAIN disk.sectors,
           NEW e, e \in [1 .. SectorSize -> Nat], NEW keep
    PROVE  BetaFilled(disk.sectors[p], keep, e, e)
<1>1. PICK l \in Nat : l = SectorSize
  BY BetaAssumption
<1>2. e \in Seq(Nat) /\ Len(e) = l
  BY <1>1
<1>3. DOMAIN disk.sectors[p] = 1 .. l
  BY <1>1, BetaSector
<1>4. e = [i \in 1 .. l |-> IF i <= l THEN e[i]
                           ELSE IF keep THEN disk.sectors[p][i] ELSE Fill]
  BY <1>1
<1> QED
  BY <1>1, <1>2, <1>3, <1>4 DEF BetaFilled

BetaHolds(bytes, p, e) == Drive!Stored(bytes) = [vg93.image.sectors EXCEPT ![p] = e]

(* What a write that is complete makes of the medium.                        *)
LEMMA BetaFills ==
    ASSUME NEW j, j = Job, NEW p, p = j.at, p \in DOMAIN vg93.image.sectors,
           NEW bytes, NEW e, BetaFilled(vg93.image.sectors[p], j.keep, bytes, e)
    PROVE  BetaHolds(bytes, p, e)
  BY DEF Drive!Stored, Drive!On, BetaFilled, BetaHolds

(* The transfer is over, and its last bytes may still be there.              *)
LEMMA BetaStops ==
    ASSUME NEW c, BetaTypes(c), NEW buffer \in Seq(Nat), NEW at \in Nat,
           NEW d, d = [Finish(c, {}) EXCEPT !.buffer = buffer, !.at = at]
    PROVE  BetaEnded(c, d)
<1>1. PICK e, typeI : e = Finish(c, {}) /\ typeI = e.typeI
  OBVIOUS
<1>2. BetaEnded(c, e)
  BY <1>1, BetaFinishKeeps
<1>3. BetaShape(e)
  BY <1>2 DEF BetaEnded, BetaTypes
<1>4. BetaDrops(e, buffer, at, typeI, d)
  BY <1>1, <1>3, Zenon DEF BetaDrops, BetaShape
<1> QED
  BY <1>2, <1>4, BetaDropsKeeps

BetaOn(c, d) == d = Advance(c)

(* A transfer of several sectors goes on with the next one.                   *)
LEMMA BetaAdvances ==
    ASSUME NEW c, BetaTypes(c), HasNext(c), NEW d, BetaOn(c, d)
    PROVE  /\ BetaTypes(d) /\ d.image = c.image /\ d.multiple = c.multiple
           /\ d.sector = c.sector + 1 /\ d.side = c.side /\ d.track = c.track
           /\ Follows(Place(c), Place(d))
<1>1. BetaShape(c) /\ BetaRegs(c) /\ BetaParse(c)
  BY DEF BetaTypes
<1>2. PICK s \in Nat : s = c.sector
  BY <1>1 DEF BetaRegs
<1>3. PICK k \in Nat : k = s + 1
  BY <1>2
<1>4. d = [c EXCEPT !.sector = k]
  BY <1>1, <1>2, <1>3 DEF BetaOn, Advance, BetaShape
<1>5. /\ BetaShape(d) /\ d.track = c.track /\ d.sector = k /\ d.dataReg = c.dataReg
      /\ d.side = c.side /\ d.image = c.image /\ d.multiple = c.multiple
      /\ BetaAlike(c, d) /\ d.buffer = c.buffer /\ d.at = c.at /\ d.xfer = c.xfer
  BY <1>1, <1>4 DEF BetaShape, BetaAlike
<1>6. BetaRegs(d)
  BY <1>1, <1>5 DEF BetaRegs
<1>7. BetaTypes(d)
  BY <1>1, <1>5, <1>6, BetaParseKept DEF BetaTypes
<1>8. Follows(Place(c), Place(d))
  <2>1. PICK t \in Nat : t = SectorsPerTrack /\ s < t
    BY <1>2, BetaAssumption DEF HasNext
  <2>2. PICK p, q : p = Place(c) /\ q = Place(d)
    OBVIOUS
  <2>3. /\ p = <<c.track, EffectiveSide(c), SectorIndex(c)>>
        /\ q = <<c.track, EffectiveSide(c), SectorIndex(d)>>
    BY <1>5, <2>2 DEF Place, EffectiveSide
  <2>4. SectorIndex(c) = IF s = 0 THEN 0 ELSE s - 1
    BY <1>2, <2>1 DEF SectorIndex
  <2>5. SectorIndex(d) = s
    BY <1>2, <1>3, <1>5, <2>1 DEF SectorIndex
  <2>6. q[3] = p[3] + 1 \/ (p[3] = 0 /\ q[3] = 0)
    BY <2>3, <2>4, <2>5
  <2> QED
    BY <2>2, <2>3, <2>6 DEF Follows
<1> QED
  BY <1>2, <1>3, <1>5, <1>7, <1>8

(* With its last byte a sector is on the disk, or the command failed.        *)
LEMMA BetaCommits ==
    ASSUME BetaInv(vg93), vg93.xfer = "write", NEW byte \in 0 .. 255,
           ~(vg93.at + 1 < SectorSize),
           NEW x, BetaTook(vg93, byte, x)
    PROVE  vg93' = CommitWrite(x) => BetaServed
<1>1. SUFFICES ASSUME vg93' = CommitWrite(x)
               PROVE  BetaServed
  OBVIOUS
<1>2. PICK n \in Nat : n = vg93.at
  BY DEF BetaInv, BetaTypes
<1>3. PICK b \in Seq(Nat) : b = vg93.buffer
  BY DEF BetaInv, BetaTypes
<1>4. PICK l \in Nat : l = SectorSize
  BY BetaAssumption
<1>5. BetaTypes(x) /\ BetaPut(vg93, byte, x) /\ BetaGrown(b, n, byte, x.buffer)
  BY <1>2, <1>3, BetaTookKeeps, Zenon
<1>6. PICK e, s, p, m : /\ e = x.buffer /\ s = SubSeq(b, 1, n) /\ p = Place(vg93)
                        /\ m = vg93.image.sectors
  BY Zenon
<1>7. Len(b) = l /\ n + 1 = l /\ n < l
  <2>1. Len(b) = l /\ n < l
    BY <1>2, <1>3, <1>4 DEF BetaInv, BetaOK, StatusOK
  <2> QED
    BY <1>2, <1>4, <2>1
<1>8. /\ e \in [1 .. l -> Nat] /\ s \in Seq(Nat) /\ Len(s) = l - 1 /\ e = Append(s, byte)
  <2>1. /\ e \in Seq(Nat) /\ e \in [1 .. l -> Nat] /\ Len(e) = l /\ s \in Seq(Nat)
        /\ Len(s) = n /\ SubSeq(e, 1, n + 1) = Append(s, byte)
    BY <1>5, <1>6, <1>7, Zenon DEF BetaGrown
  <2>2. SubSeq(e, 1, l) = e
    BY <2>1, SubSeqWhole
  <2>3. n = l - 1
    BY <1>7
  <2>4. e = Append(s, byte)
    BY <1>7, <2>1, <2>2, Zenon
  <2> QED
    BY <2>1, <2>3, <2>4
<1>9. /\ x.image = vg93.image /\ x.sector = vg93.sector /\ x.multiple = vg93.multiple
      /\ Place(x) = p
  BY <1>5, <1>6 DEF BetaPut, Place, SectorIndex, EffectiveSide
<1>10. PICK a \in Nat : a = BetaAfter(vg93)
  BY BetaAfterIsInt DEF BetaInv, BetaTypes
<1>11. Left(vg93) = 1 + a
  <2>1. Left(vg93) = Len(vg93.buffer) - vg93.at + BetaAfter(vg93)
    BY BetaLeft
  <2>2. l - n = 1
    BY <1>7
  <2> QED
    BY <1>2, <1>3, <1>7, <1>10, <2>1, <2>2, Zenon
<1>12. ASSUME vg93'.xfer = "idle"
       PROVE  Nearer
  BY <1>10, <1>11, <1>12 DEF Nearer, Left
<1>13. CASE ~Has(x, p)
  <2>1. BetaEnded(x, vg93')
    BY <1>1, <1>5, <1>9, <1>13, BetaFails DEF CommitWrite
  <2>2. BetaInv(vg93') /\ vg93'.xfer = "idle" /\ vg93'.image = vg93.image
    BY <1>9, <2>1, BetaEndedOK, Zenon DEF BetaEnded
  <2> QED
    BY <1>12, <2>2, BetaEnds DEF BetaServed, BetaQuiet
<1>14. CASE Has(x, p)
  <2>1. PICK y : BetaStores(x, p, e, y)
    BY Zenon DEF BetaStores
  <2>2. BetaTypes(y) /\ BetaStored(x, p, e, y)
    BY <1>4, <1>5, <1>8, <1>14, <2>1, BetaStoresKeeps, Zenon
  <2>3. vg93' = IF HasNext(y) THEN Start(Advance(y), "write", [i \in 1 .. SectorSize |-> 0])
                ELSE [Finish(y, {}) EXCEPT !.buffer = <<>>, !.at = 0]
    BY <1>1, <1>6, <1>9, <1>14, <2>1 DEF CommitWrite, Put, BetaStores
  <2>4. PICK j : j = Job
    OBVIOUS
  <2>5. j = [op |-> "write", at |-> p, want |-> l, keep |-> TRUE, bytes |-> s]
    BY <1>2, <1>3, <1>4, <1>6, <2>4, BetaJobs DEF BetaJob
  <2>6. j.op = "write" /\ j.at = p /\ j.want = l /\ j.keep = TRUE /\ j.bytes = s
    BY <2>5
  <2>7. y.image.sectors = Drive!Stored(e)
    <3>1. p \in DOMAIN m /\ IsDisk(vg93.image)
      BY <1>6, <1>9, <1>14 DEF Has, BetaInv, BetaTypes, BetaRegs
    <3>2. BetaFilled(m[p], j.keep, e, e)
      BY <1>4, <1>6, <1>8, <3>1, BetaWhole, Zenon
    <3>3. Drive!Stored(e) = [m EXCEPT ![p] = e]
      BY <1>6, <2>4, <2>6, <3>1, <3>2, BetaFills DEF BetaHolds
    <3> QED
      BY <1>6, <1>9, <2>2, <3>3 DEF BetaStored
  <2>8. ASSUME vg93'.image = y.image,
               Job' = [op |-> "none"] \/ (Drive!Writes /\ Follows(p, Job'.at))
        PROVE  BetaDrives
    <3>1. vg93.image.sectors' = Drive!Stored(Append(s, byte))
      BY <1>8, <2>7, <2>8
    <3>2. Drive!Finish
      BY <1>8, <2>4, <2>6, <2>8, <3>1, Zenon DEF Drive!Finish, Drive!NoJob
    <3> QED
      BY <3>2 DEF BetaDrives, Drive!Next
  <2>9. CASE ~HasNext(y)
    <3>1. PICK buffer, at : buffer = <<>> /\ at = 0
      OBVIOUS
    <3>2. buffer \in Seq(Nat) /\ at \in Nat
          /\ vg93' = [Finish(y, {}) EXCEPT !.buffer = buffer, !.at = at]
      BY <2>3, <2>9, <3>1
    <3>3. BetaEnded(y, vg93')
      BY <2>2, <3>2, BetaStops, Zenon
    <3>4. BetaInv(vg93') /\ vg93'.xfer = "idle" /\ vg93'.image = y.image
      BY <3>3, BetaEndedOK, Zenon DEF BetaEnded
    <3>5. Job' = [op |-> "none"]
      BY <3>4, BetaJobs, BetaQuietJob DEF BetaQuiet
    <3> QED
      BY <1>12, <2>8, <3>4, <3>5 DEF BetaServed
  <2>10. CASE HasNext(y)
    <3>1. PICK z : BetaOn(y, z)
      BY DEF BetaOn
    <3>2. /\ BetaTypes(z) /\ z.image = y.image /\ z.multiple = y.multiple
          /\ z.sector = y.sector + 1 /\ z.side = y.side /\ z.track = y.track
          /\ Follows(Place(y), Place(z))
      BY <2>2, <2>10, <3>1, BetaAdvances
    <3>3. BetaStarts(z, "write", [i \in 1 .. SectorSize |-> 0], vg93')
      BY <2>3, <2>10, <3>1 DEF BetaStarts, BetaOn
    <3>4. BetaInv(vg93') /\ BetaSame(z, vg93') /\ vg93'.xfer = "write" /\ vg93'.at = 0
      BY <3>2, <3>3, BetaOpens, Zenon
    <3>5. Drive!Writes /\ Job'.at = Place(vg93')
      BY <3>4, BetaWriting
    <3>6. Follows(p, Place(vg93'))
      <4>1. Place(vg93') = Place(z)
        BY <3>4, BetaSamePlace
      <4>2. Place(y) = p
        <5>1. Place(y) = Place(x)
          BY <2>2 DEF BetaStored, Place, SectorIndex, EffectiveSide
        <5> QED
          BY <1>9, <5>1
      <4> QED
        BY <3>2, <4>1, <4>2
    <3>7. Nearer
      <4>1. PICK a2 \in Nat : a2 = BetaAfter(vg93')
        BY <3>4, BetaAfterIsInt DEF BetaInv, BetaTypes
      <4>2. l + a2 <= a
        <5>1. y.sector = vg93.sector /\ y.multiple = vg93.multiple
          BY <1>9, <2>2 DEF BetaStored
        <5>2. BetaRegs(vg93) /\ HasNext(vg93) /\ BetaRegs(vg93')
          BY <2>10, <3>4, <5>1 DEF BetaInv, BetaTypes, HasNext
        <5>3. vg93'.sector = vg93.sector + 1 /\ vg93'.multiple = vg93.multiple
          BY <3>2, <3>4, <5>1 DEF BetaSame
        <5>4. SectorSize + BetaAfter(vg93') <= BetaAfter(vg93)
          BY <5>2, <5>3, BetaAfterNext
        <5> QED
          BY <1>4, <1>10, <4>1, <5>4
      <4>3. Left(vg93') = Len(vg93'.buffer) - vg93'.at + BetaAfter(vg93')
        BY <3>4, BetaLeft
      <4>4. Len(vg93'.buffer) = l
        BY <1>4, <3>4 DEF BetaInv, BetaOK, StatusOK
      <4>5. Left(vg93') = l + a2
        BY <3>4, <4>1, <4>3, <4>4
      <4>6. l + a2 < 1 + a
        BY <4>2
      <4> QED
        BY <1>11, <4>5, <4>6 DEF Nearer
    <3> QED
      BY <2>8, <3>2, <3>4, <3>5, <3>6, <3>7 DEF BetaServed, BetaSame
  <2> QED
    BY <2>9, <2>10
<1> QED
  BY <1>13, <1>14

(* A byte of a sector or an identification that is handed out.               *)
BetaGave(c, d) == d = [c EXCEPT !.at = @ + 1, !.dataReg = c.buffer[c.at + 1]]

(* A byte that a read hands out.                                              *)
LEMMA BetaGaveKeeps ==
    ASSUME NEW c, BetaInv(c), c.xfer \in {"read", "address"}, NEW d, BetaGave(c, d)
    PROVE  /\ BetaTypes(d) /\ BetaAlike(c, d) /\ d.image = c.image /\ d.buffer = c.buffer
           /\ d.track = c.track /\ d.sector = c.sector /\ d.side = c.side
           /\ d.multiple = c.multiple /\ d.xfer = c.xfer /\ d.at = c.at + 1
           /\ d.intrq = c.intrq
<1>1. BetaShape(c) /\ BetaRegs(c) /\ BetaParse(c)
  BY DEF BetaInv, BetaTypes
<1>2. PICK n \in Nat : n = c.at
  BY DEF BetaInv, BetaTypes
<1>3. PICK b \in Seq(Nat) : b = c.buffer
  BY DEF BetaInv, BetaTypes
<1>4. n < Len(b)
  BY <1>2, <1>3 DEF BetaInv, BetaOK, StatusOK
<1>5. PICK k \in Nat : k = n + 1
  BY <1>2
<1>6. PICK byte \in Nat : byte = b[k]
  BY <1>4, <1>5
<1>7. d = [c EXCEPT !.at = k, !.dataReg = byte]
  BY <1>1, <1>2, <1>3, <1>5, <1>6 DEF BetaGave, BetaShape
<1>8. /\ BetaShape(d) /\ BetaAlike(c, d) /\ d.image = c.image /\ d.buffer = c.buffer
      /\ d.track = c.track /\ d.sector = c.sector /\ d.side = c.side
      /\ d.multiple = c.multiple /\ d.xfer = c.xfer /\ d.at = k /\ d.dataReg = byte
      /\ d.intrq = c.intrq
  BY <1>1, <1>7, Zenon DEF BetaShape, BetaAlike
<1>9. BetaRegs(d)
  BY <1>1, <1>8 DEF BetaRegs
<1>10. BetaTypes(d)
  BY <1>3, <1>8, <1>9, BetaParseKept, <1>1 DEF BetaTypes, BetaInv
<1> QED
  BY <1>2, <1>5, <1>8, <1>10

LEMMA BetaLeftIs ==
    ASSUME NEW c, BetaInv(c), c.xfer \in {"read", "address"}
    PROVE  \E a \in Nat : /\ Left(c) = Len(c.buffer) - c.at + a
                          /\ a = IF c.xfer = "read" THEN BetaAfter(c) ELSE 0
<1>1. BetaAfter(c) \in Nat
  BY BetaAfterIsInt DEF BetaInv, BetaTypes
<1> QED
  BY <1>1 DEF Left, BetaAfter

(* Not the last byte.                                                        *)
LEMMA BetaGives ==
    ASSUME BetaInv(vg93), vg93.xfer \in {"read", "address"},
           NEW x, BetaGave(vg93, x), x.at < Len(x.buffer)
    PROVE  vg93' = Request(x) => BetaServed
<1>1. SUFFICES ASSUME vg93' = Request(x)
               PROVE  BetaServed
  OBVIOUS
<1>2. PICK n \in Nat : n = vg93.at
  BY DEF BetaInv, BetaTypes
<1>3. PICK b \in Seq(Nat) : b = vg93.buffer
  BY DEF BetaInv, BetaTypes
<1>4. PICK l \in Nat : l = Len(b)
  BY LenProperties
<1>5. /\ BetaTypes(x) /\ BetaAlike(vg93, x) /\ x.image = vg93.image /\ x.buffer = b
      /\ x.track = vg93.track /\ x.sector = vg93.sector /\ x.side = vg93.side
      /\ x.multiple = vg93.multiple /\ x.xfer = vg93.xfer /\ x.at = n + 1
      /\ x.intrq = vg93.intrq
  BY <1>2, <1>3, BetaGaveKeeps
<1>6. BetaTypes(vg93') /\ BetaRequested(x, vg93')
  BY <1>1, <1>5, BetaRequest
<1>7. /\ vg93'.buffer = b /\ vg93'.at = n + 1 /\ vg93'.xfer = vg93.xfer
      /\ vg93'.intrq = vg93.intrq /\ vg93'.image = vg93.image
      /\ vg93'.drq = TRUE /\ vg93'.status = {"busy", "drq"}
  BY <1>5, <1>6 DEF BetaRequested, BetaSame
<1>8. n + 1 < l
  BY <1>4, <1>5
<1>9. BetaInv(vg93')
  <2>1. ~vg93.intrq
    BY DEF BetaInv, BetaOK, StatusOK
  <2>2. vg93.xfer = "read" => Len(b) = SectorSize
    BY <1>3 DEF BetaInv, BetaOK
  <2>3. BetaOK(vg93')
    BY <1>4, <1>7, <1>8, <2>1, <2>2 DEF BetaOK, StatusOK
  <2> QED
    BY <1>6, <2>3 DEF BetaInv
<1>10. Nearer
  <2>1. PICK a \in Nat : /\ Left(vg93) = Len(vg93.buffer) - vg93.at + a
                         /\ a = IF vg93.xfer = "read" THEN BetaAfter(vg93) ELSE 0
    BY BetaLeftIs
  <2>2. PICK a2 \in Nat : /\ Left(vg93') = Len(vg93'.buffer) - vg93'.at + a2
                          /\ a2 = IF vg93'.xfer = "read" THEN BetaAfter(vg93') ELSE 0
    BY <1>7, <1>9, BetaLeftIs, Zenon
  <2>3. BetaAfter(vg93') = BetaAfter(vg93)
    BY <1>5, <1>6, BetaAfterSame DEF BetaRequested, BetaSame
  <2>4. a2 = a
    BY <1>7, <2>1, <2>2, <2>3
  <2>5. Left(vg93) = l - n + a /\ Left(vg93') = l - (n + 1) + a
    BY <1>2, <1>3, <1>4, <1>7, <2>1, <2>2, <2>4
  <2>6. l - (n + 1) + a < l - n + a
    OBVIOUS
  <2> QED
    BY <2>5, <2>6 DEF Nearer
<1>11. CASE vg93.xfer = "address"
  BY <1>7, <1>9, <1>10, <1>11, BetaEnds DEF BetaServed, BetaQuiet
<1>12. CASE vg93.xfer = "read"
  <2>1. PICK p, s, t, j, k : /\ p = Place(vg93) /\ s = SubSeq(b, n + 1, l)
                             /\ t = SubSeq(b, n + 2, l) /\ j = Job /\ k = Job'
    BY Zenon
  <2>2. Place(vg93') = p
    BY <1>5, <1>6, <2>1 DEF BetaRequested, BetaSame, Place, SectorIndex, EffectiveSide
  <2>3. j = [op |-> "read", at |-> p, bytes |-> s]
    BY <1>2, <1>3, <1>4, <1>12, <2>1, BetaJobs DEF BetaJob
  <2>4. k = [op |-> "read", at |-> p, bytes |-> t]
    <3>1. (n + 1) + 1 = n + 2
      OBVIOUS
    <3> QED
      BY <1>4, <1>7, <1>12, <2>1, <2>2, <3>1, BetaJobs, Zenon DEF BetaJob
  <2>5. n < l
    BY <1>8
  <2>6. s # <<>> /\ Tail(s) = t
    BY <1>4, <2>1, <2>5, SubSeqTail, Zenon
  <2>7. Given(j, k)
    BY <2>3, <2>4, <2>6, JobGiven, Zenon
  <2>8. Drive!Give
    BY <1>7, <2>1, <2>3, <2>6, <2>7 DEF Drive!Give, Given
  <2> QED
    BY <1>9, <1>10, <2>8 DEF BetaServed, BetaDrives, Drive!Next
<1> QED
  BY <1>11, <1>12

(* With the last byte a command ends, or goes on with the next sector.       *)
LEMMA BetaCompletes ==
    ASSUME BetaInv(vg93), vg93.xfer \in {"read", "address"},
           NEW x, BetaGave(vg93, x), ~(x.at < Len(x.buffer))
    PROVE  vg93' = CompleteRead(x) => BetaServed
<1>1. SUFFICES ASSUME vg93' = CompleteRead(x)
               PROVE  BetaServed
  OBVIOUS
<1>2. PICK n \in Nat : n = vg93.at
  BY DEF BetaInv, BetaTypes
<1>3. PICK b \in Seq(Nat) : b = vg93.buffer
  BY DEF BetaInv, BetaTypes
<1>4. PICK l \in Nat : l = Len(b)
  BY LenProperties
<1>5. /\ BetaTypes(x) /\ x.image = vg93.image /\ x.buffer = b
      /\ x.track = vg93.track /\ x.sector = vg93.sector /\ x.side = vg93.side
      /\ x.multiple = vg93.multiple /\ x.xfer = vg93.xfer /\ x.at = n + 1
  BY <1>2, <1>3, BetaGaveKeeps
<1>6. n < l /\ n + 1 = l
  <2>1. n < l
    BY <1>2, <1>3, <1>4 DEF BetaInv, BetaOK, StatusOK
  <2>2. ~(n + 1 < l)
    BY <1>4, <1>5
  <2> QED
    BY <2>1, <2>2
<1>7. PICK a \in Nat : /\ Left(vg93) = Len(vg93.buffer) - vg93.at + a
                       /\ a = IF vg93.xfer = "read" THEN BetaAfter(vg93) ELSE 0
  BY BetaLeftIs
<1>8. Left(vg93) = 1 + a
  <2>1. l - n = 1
    BY <1>6
  <2> QED
    BY <1>2, <1>3, <1>4, <1>7, <2>1
<1>9. ASSUME BetaEnded(x, vg93')
      PROVE  BetaServed
  <2>1. BetaInv(vg93') /\ vg93'.xfer = "idle" /\ vg93'.image = vg93.image
    BY <1>5, <1>9, BetaEndedOK, Zenon DEF BetaEnded
  <2>2. Nearer
    BY <1>8, <2>1 DEF Nearer, Left
  <2> QED
    BY <2>1, <2>2, BetaEnds DEF BetaServed, BetaQuiet
<1>10. CASE ~(x.xfer = "read" /\ HasNext(x))
  <2>1. PICK buffer \in Seq(Nat) : buffer = x.buffer
    BY <1>5
  <2>2. PICK e, at, typeI : e = Finish(x, {}) /\ at = Len(x.buffer) /\ typeI = e.typeI
    BY Zenon
  <2>3. at \in Nat
    BY <1>4, <1>5, <2>2
  <2>4. BetaFinished(x, {}, e)
    BY <1>5, <2>2, BetaFinish DEF BetaTypes
  <2>5. vg93' = [e EXCEPT !.at = at]
    BY <1>1, <1>10, <2>2 DEF CompleteRead
  <2>6. vg93' = [Finish(x, {}) EXCEPT !.buffer = buffer, !.at = at]
    BY <2>1, <2>2, <2>4, <2>5, ZenonT(30) DEF BetaFinished, BetaShape
  <2>7. BetaEnded(x, vg93')
    BY <1>5, <2>3, <2>6, BetaStops, Zenon
  <2> QED
    BY <1>9, <2>7
<1>11. CASE x.xfer = "read" /\ HasNext(x)
  <2>1. PICK z : BetaOn(x, z)
    BY DEF BetaOn
  <2>2. /\ BetaTypes(z) /\ z.image = x.image /\ z.multiple = x.multiple
        /\ z.sector = x.sector + 1 /\ z.side = x.side /\ z.track = x.track
        /\ Follows(Place(x), Place(z))
    BY <1>5, <1>11, <2>1, BetaAdvances
  <2>3. vg93' = LoadSector(z)
    BY <1>1, <1>11, <2>1 DEF CompleteRead, BetaOn
  <2>4. BetaEnded(z, vg93') \/ BetaLoaded(z, vg93')
    BY <2>2, <2>3, BetaLoad
  <2>5. CASE BetaEnded(z, vg93')
    BY <1>9, <2>2, <2>5, Zenon DEF BetaEnded
  <2>6. CASE BetaLoaded(z, vg93')
    <3>1. /\ BetaInv(vg93') /\ BetaSame(z, vg93') /\ Has(z, Place(z))
          /\ vg93'.xfer = "read" /\ vg93'.buffer = z.image.sectors[Place(z)]
          /\ vg93'.at = 0
      BY <2>6 DEF BetaLoaded
    <3>2. Place(vg93') = Place(z) /\ vg93'.image = z.image /\ Has(vg93', Place(vg93'))
      BY <3>1, BetaSamePlace DEF BetaSame
    <3>3. Drive!Reads /\ Job'.at = Place(vg93')
      BY <1>5, <2>2, <3>1, <3>2, BetaReading
    <3>4. Place(x) = Place(vg93)
      BY <1>5 DEF Place, SectorIndex, EffectiveSide
    <3>5. PICK j, p, s : j = Job /\ p = Place(vg93) /\ s = SubSeq(b, n + 1, l)
      BY Zenon
    <3>6. j = [op |-> "read", at |-> p, bytes |-> s]
      BY <1>2, <1>3, <1>4, <1>5, <1>11, <3>5, BetaJobs, Zenon DEF BetaJob
    <3>7. Len(s) = 1
      <4>1. Len(s) = l - n
        BY <1>4, <1>6, <3>5, SubSeqTail
      <4> QED
        BY <1>6, <4>1
    <3>8. Drive!GiveLast
      BY <1>5, <2>2, <3>2, <3>3, <3>4, <3>5, <3>6, <3>7 DEF Drive!GiveLast
    <3>9. Nearer
      <4>1. PICK a2 \in Nat : /\ Left(vg93') = Len(vg93'.buffer) - vg93'.at + a2
                              /\ a2 = IF vg93'.xfer = "read" THEN BetaAfter(vg93') ELSE 0
        BY <3>1, BetaLeftIs, Zenon
      <4>2. PICK m \in Nat : m = SectorSize
        BY BetaAssumption
      <4>3. m + a2 <= a
        <5>1. BetaRegs(vg93) /\ HasNext(vg93) /\ BetaRegs(vg93')
          BY <1>5, <1>11, <3>1 DEF BetaInv, BetaTypes, HasNext
        <5>2. vg93'.sector = vg93.sector + 1 /\ vg93'.multiple = vg93.multiple
          BY <1>5, <2>2, <3>1 DEF BetaSame
        <5>3. SectorSize + BetaAfter(vg93') <= BetaAfter(vg93)
          BY <5>1, <5>2, BetaAfterNext
        <5> QED
          BY <1>5, <1>7, <1>11, <3>1, <4>1, <4>2, <5>3
      <4>4. Len(vg93'.buffer) = m
        BY <3>1, <4>2 DEF BetaInv, BetaOK
      <4>5. Left(vg93') = m + a2
        BY <3>1, <4>1, <4>4
      <4>6. m + a2 < 1 + a
        BY <4>3
      <4> QED
        BY <1>8, <4>5, <4>6 DEF Nearer
    <3> QED
      BY <3>1, <3>8, <3>9 DEF BetaServed, BetaDrives, Drive!Next
  <2> QED
    BY <2>4, <2>5, <2>6
<1> QED
  BY <1>10, <1>11

(* Reading the data register.                                                *)
LEMMA BetaReads ==
    ASSUME BetaInv(vg93), vg93.xfer \in {"read", "address"}, vg93' = ReadData(vg93)
    PROVE  BetaServed
<1>1. PICK x : BetaGave(vg93, x)
  BY DEF BetaGave
<1>2. ~(vg93.at >= Len(vg93.buffer))
  <2>1. PICK n \in Nat : n = vg93.at
    BY DEF BetaInv, BetaTypes
  <2>2. PICK l \in Nat : l = Len(vg93.buffer)
    BY LenProperties DEF BetaInv, BetaTypes
  <2>3. n < l
    BY <2>1, <2>2 DEF BetaInv, BetaOK, StatusOK
  <2> QED
    BY <2>1, <2>2, <2>3
<1>3. vg93' = IF x.at >= Len(x.buffer) THEN CompleteRead(x) ELSE Request(x)
  BY <1>1, <1>2 DEF ReadData, BetaGave
<1>4. x.at \in Nat /\ Len(x.buffer) \in Nat
  <2>1. BetaTypes(x)
    BY <1>1, BetaGaveKeeps
  <2> QED
    BY <2>1, LenProperties DEF BetaTypes
<1>5. x.at >= Len(x.buffer) <=> ~(x.at < Len(x.buffer))
  BY <1>4
<1> QED
  BY <1>1, <1>3, <1>5, BetaGives, BetaCompletes

(* A byte of a track, once it has been looked at.                            *)
BetaSeen(c) ==
    /\ BetaTypes(c) /\ c.xfer = "writeTrack" /\ ~c.intrq
    /\ c.parse.in = "id" => Len(c.parse.got) < 4
    /\ c.parse.in = "data" => Len(c.buffer) < c.parse.size

BetaPassed(c, byte, d) ==
    d = [IF c.done >= SectorsPerTrack THEN FinishWriteTrack(c) ELSE Request(c)
            EXCEPT !.dataReg = byte]

BetaPassing(c, d) ==
    /\ BetaInv(d) /\ d.image = c.image
    /\ \/ d.xfer = "idle" /\ c.done >= SectorsPerTrack
       \/ d.xfer = "writeTrack" /\ d.parse = c.parse /\ d.buffer = c.buffer

BetaNoted(c, byte, d) == d = [c EXCEPT !.dataReg = byte]

(* A byte of a track that is noted, and one that is passed over.              *)
LEMMA BetaNotes ==
    ASSUME NEW c, BetaInv(c), NEW byte \in Nat, NEW d, BetaNoted(c, byte, d)
    PROVE  BetaInv(d) /\ BetaNudged(c, d) /\ d.image = c.image
<1>1. BetaShape(c) /\ BetaRegs(c)
  BY DEF BetaInv, BetaTypes
<1>2. /\ BetaShape(d) /\ BetaAlike(c, d) /\ d.dataReg = byte
      /\ d.track = c.track /\ d.sector = c.sector /\ d.side = c.side
      /\ d.image = c.image /\ d.multiple = c.multiple
      /\ d.buffer = c.buffer /\ d.at = c.at /\ d.xfer = c.xfer
      /\ d.drq = c.drq /\ d.status = c.status /\ d.intrq = c.intrq
  BY <1>1 DEF BetaNoted, BetaShape, BetaAlike
<1>3. BetaRegs(d)
  BY <1>1, <1>2 DEF BetaRegs
<1>4. BetaNudged(c, d)
  BY <1>2, <1>3 DEF BetaNudged
<1> QED
  BY <1>2, <1>4, BetaNudgedKeeps

LEMMA BetaPasses ==
    ASSUME NEW c, BetaSeen(c), NEW byte \in Nat, NEW d, BetaPassed(c, byte, d)
    PROVE  BetaPassing(c, d)
<1>1. BetaTypes(c) /\ c.xfer = "writeTrack"
  BY DEF BetaSeen
<1>2. PICK done \in Nat : done = c.done
  BY <1>1 DEF BetaTypes, BetaParse
<1>3. CASE c.done >= SectorsPerTrack
  <2>1. PICK e : e = FinishWriteTrack(c) /\ BetaNoted(e, byte, d)
    BY <1>3, Zenon DEF BetaPassed, BetaNoted
  <2>2. BetaEnded(c, e)
    BY <1>1, <2>1, BetaFinishTrack
  <2>3. BetaInv(d) /\ BetaNudged(e, d) /\ d.image = e.image
    BY <2>1, <2>2, BetaEndedOK, BetaNotes
  <2> QED
    BY <1>3, <2>2, <2>3 DEF BetaPassing, BetaEnded, BetaNudged
<1>4. CASE ~(c.done >= SectorsPerTrack)
  <2>1. PICK e : e = Request(c) /\ BetaNoted(e, byte, d)
    BY <1>4, Zenon DEF BetaPassed, BetaNoted
  <2>2. BetaTypes(e) /\ BetaRequested(c, e)
    BY <1>1, <2>1, BetaRequest
  <2>3. done < SectorsPerTrack
    BY <1>2, <1>4, BetaAssumption
  <2>4. BetaOK(e)
    BY <1>1, <1>2, <2>2, <2>3 DEF BetaOK, StatusOK, BetaRequested, BetaAlike, BetaSeen
  <2>5. BetaInv(d) /\ BetaNudged(e, d) /\ d.image = e.image
    BY <2>1, <2>2, <2>4, BetaNotes DEF BetaInv
  <2> QED
    BY <1>1, <2>2, <2>5 DEF BetaPassing, BetaRequested, BetaSame, BetaNudged, BetaAlike
<1> QED
  BY <1>3, <1>4

(* What one byte changes in a track that is written.                         *)
BetaParses(c, parse, id, buffer, d) ==
    /\ BetaShape(d) /\ BetaSame(c, d) /\ d.xfer = c.xfer /\ d.at = c.at
    /\ d.intrq = c.intrq /\ d.done = c.done
    /\ d.parse = parse /\ d.id = id /\ d.buffer = buffer

BetaHeld(c, d) == BetaTypes(d) /\ d.image = c.image

(* What the next byte of a track is looked at for.                            *)
LEMMA BetaParsesKeeps ==
    ASSUME NEW c, BetaInv(c), NEW parse, NEW id, NEW buffer \in Seq(Nat), NEW d,
           BetaParses(c, parse, id, buffer, d), BetaParse(d)
    PROVE  BetaHeld(c, d)
<1>1. BetaRegs(d)
  BY BetaRegsKept DEF BetaInv, BetaTypes, BetaParses
<1> QED
  BY <1>1 DEF BetaInv, BetaTypes, BetaParses, BetaSame, BetaHeld

(* Between two sectors of a track: no bytes of one have been kept.           *)
LEMMA BetaHunts ==
    ASSUME BetaInv(vg93), vg93.xfer = "writeTrack", vg93.parse.in # "data",
           NEW byte \in 0 .. 255, byte # DataMark \/ vg93.parse.in = "id",
           NEW x, x = Parse(vg93, byte)
    PROVE  BetaSeen(x) /\ x.parse.in # "data" /\ x.image = vg93.image
<1>1. PICK c : c = vg93
  OBVIOUS
<1>2. BetaTypes(c) /\ BetaShape(c) /\ BetaParse(c) /\ ~c.intrq /\ c.parse.in \in {"hunt", "id"}
  BY <1>1 DEF BetaInv, BetaTypes, BetaOK, StatusOK, BetaParse
<1>3. CASE c.parse.in = "hunt"
  <2>1. CASE byte = IdMark
    <3>1. PICK got, parse : got = <<>> /\ parse = [in |-> "id", got |-> got]
      BY Zenon
    <3>2. x = [c EXCEPT !.parse = parse]
      BY <1>1, <1>3, <2>1, <3>1, BetaAssumption DEF Parse
    <3>3. BetaParses(c, parse, c.id, c.buffer, x)
      BY <1>2, <3>2 DEF BetaShape, BetaParses, BetaSame
    <3>4. x.parse = parse /\ parse.in = "id" /\ parse.got = got
      BY <3>1, <3>3 DEF BetaParses
    <3>5. got \in Seq(Nat) /\ Len(got) = 0
      BY <3>1
    <3>6. BetaParse(x)
      BY <1>2, <3>1, <3>3, <3>4, <3>5 DEF BetaParse, BetaParses
    <3>7. BetaTypes(x) /\ x.image = c.image
      <4>1. c.buffer \in Seq(Nat)
        BY <1>2 DEF BetaTypes
      <4> QED
        BY <1>1, <3>3, <3>6, <4>1, BetaParsesKeeps DEF BetaHeld
    <3> QED
      BY <1>1, <1>2, <3>3, <3>4, <3>5, <3>7 DEF BetaSeen, BetaParses
  <2>2. CASE byte # IdMark
    <3>1. x = c
      BY <1>1, <1>3, <2>2 DEF Parse
    <3> QED
      BY <1>1, <1>2, <1>3, <3>1 DEF BetaSeen
  <2> QED
    BY <2>1, <2>2
<1>4. CASE c.parse.in = "id"
  <2>1. PICK g \in Seq(Nat) : g = c.parse.got /\ c.parse = [in |-> "id", got |-> g]
    BY <1>2, <1>4 DEF BetaParse
  <2>2. Len(g) < 4
    BY <1>1, <1>4, <2>1 DEF BetaInv, BetaOK, StatusOK
  <2>3. PICK got : got = Append(g, byte)
    BY Zenon
  <2>4. got \in Seq(Nat) /\ Len(got) = Len(g) + 1
    <3>1. byte \in Nat
      OBVIOUS
    <3> QED
      BY <2>3, <3>1
  <2>5. CASE Len(got) < 4
    <3>1. PICK parse : parse = [in |-> "id", got |-> got]
      BY Zenon
    <3>2. x = [c EXCEPT !.parse.got = got]
      BY <1>1, <1>4, <2>1, <2>3, <2>5 DEF Parse
    <3>3. x = [c EXCEPT !.parse = parse]
      BY <1>2, <2>1, <3>1, <3>2 DEF BetaShape
    <3>4. BetaParses(c, parse, c.id, c.buffer, x)
      BY <1>2, <3>3 DEF BetaShape, BetaParses, BetaSame
    <3>5. x.parse = parse /\ parse.in = "id" /\ parse.got = got
      BY <3>1, <3>4 DEF BetaParses
    <3>6. BetaParse(x)
      BY <1>2, <2>4, <3>1, <3>4, <3>5 DEF BetaParse, BetaParses
    <3>7. BetaTypes(x) /\ x.image = c.image
      <4>1. c.buffer \in Seq(Nat)
        BY <1>2 DEF BetaTypes
      <4> QED
        BY <1>1, <3>4, <3>6, <4>1, BetaParsesKeeps DEF BetaHeld
    <3> QED
      BY <1>1, <1>2, <2>5, <3>4, <3>5, <3>7 DEF BetaSeen, BetaParses
  <2>6. CASE ~(Len(got) < 4)
    <3>1. x = [c EXCEPT !.parse = Hunt, !.id = got]
      BY <1>1, <1>4, <2>1, <2>3, <2>6 DEF Parse
    <3>2. BetaParses(c, Hunt, got, c.buffer, x)
      BY <1>2, <3>1, ZenonT(30) DEF BetaShape, BetaParses, BetaSame
    <3>3. Len(got) = 4 /\ got \in BetaIds
      <4>1. Len(got) = 4
        <5>1. PICK l \in Nat : l = Len(g)
          BY LenProperties
        <5> QED
          BY <2>2, <2>4, <2>6, <5>1
      <4> QED
        BY <2>4, <4>1, Zenon DEF BetaIds
    <3>4. x.parse.in = "hunt" /\ x.parse = Hunt
      BY <3>2 DEF BetaParses, Hunt
    <3>5. BetaParse(x)
      BY <1>2, <3>2, <3>3, <3>4 DEF BetaParse, BetaParses
    <3>6. BetaTypes(x) /\ x.image = c.image
      <4>1. c.buffer \in Seq(Nat)
        BY <1>2 DEF BetaTypes
      <4> QED
        BY <1>1, <3>2, <3>5, <4>1, BetaParsesKeeps DEF BetaHeld
    <3> QED
      BY <1>1, <1>2, <3>2, <3>4, <3>6 DEF BetaSeen, BetaParses
  <2> QED
    BY <2>5, <2>6
<1> QED
  BY <1>2, <1>3, <1>4

(* An identification names a sector and its size.                             *)
LEMMA BetaIdParts ==
    ASSUME NEW i \in BetaIds
    PROVE  i[3] \in Nat /\ i[4] \in Nat
<1>1. i \in Seq(Nat) /\ Len(i) = 4
  BY DEF BetaIds
<1>2. 3 \in 1 .. Len(i) /\ 4 \in 1 .. Len(i)
  BY <1>1
<1> QED
  BY <1>1, <1>2, ElementOfSeq, Zenon

LEMMA BetaSizes ==
    ASSUME NEW code \in Nat
    PROVE  SizeOf(code) \in Nat \ {0}
<1>1. PICK n \in Nat \ {0, 1} : n = SectorSize
  BY BetaAssumption
<1>2. n \div 2 \in Nat \ {0} /\ 2 * n \in Nat \ {0} /\ 4 * n \in Nat \ {0}
  OBVIOUS
<1> QED
  BY <1>1, <1>2 DEF SizeOf

(* A data mark: the sector is the one that was identified.                   *)
LEMMA BetaMarks ==
    ASSUME BetaInv(vg93), vg93.xfer = "writeTrack", vg93.parse.in = "hunt",
           NEW x, x = StartData(vg93)
    PROVE  /\ BetaSeen(x) /\ x.parse.in = "data" /\ x.image = vg93.image
           /\ x.buffer = <<>> /\ x.done = vg93.done
<1>1. PICK c : c = vg93
  OBVIOUS
<1>2. BetaTypes(c) /\ BetaShape(c) /\ BetaRegs(c) /\ BetaParse(c) /\ ~c.intrq
  BY <1>1 DEF BetaInv, BetaTypes, BetaOK, StatusOK
<1>3. PICK r \in Nat : r = IF c.sector = 0 THEN 1 ELSE c.sector
  BY <1>2 DEF BetaRegs
<1>4. PICK id : id = IF c.id # NoId THEN c.id ELSE <<c.track, c.side, r, 1>>
  BY Zenon
<1>5. id \in BetaIds
  <2>1. CASE c.id # NoId
    BY <1>2, <1>4, <2>1 DEF BetaParse
  <2>2. CASE c.id = NoId
    <3>1. PICK t \in Nat : t = c.track
      BY <1>2 DEF BetaRegs
    <3>2. PICK h \in Nat : h = c.side
      BY <1>2 DEF BetaRegs
    <3>3. id = <<t, h, r, 1>>
      BY <1>4, <2>2, <3>1, <3>2
    <3>4. id \in Seq(Nat) /\ Len(id) = 4
      BY <3>3
    <3> QED
      BY <3>4 DEF BetaIds
  <2> QED
    BY <2>1, <2>2
<1>6. PICK size \in Nat \ {0} : size = SizeOf(id[4])
  <2>1. id[4] \in Nat
    BY <1>5, BetaIdParts
  <2> QED
    BY <2>1, BetaSizes
<1>7. PICK buffer, parse : buffer = <<>> /\ parse = [in |-> "data", size |-> size, id |-> id]
  BY Zenon
<1>8. x = [c EXCEPT !.id = NoId, !.buffer = buffer, !.parse = parse]
  BY <1>1, <1>3, <1>4, <1>6, <1>7 DEF StartData
<1>9. BetaParses(c, parse, NoId, buffer, x)
  BY <1>2, <1>8, ZenonT(30) DEF BetaShape, BetaParses, BetaSame
<1>10. buffer \in Seq(Nat) /\ Len(buffer) = 0
  BY <1>7
<1>11. x.parse = parse /\ parse.in = "data" /\ parse.size = size /\ parse.id = id
  BY <1>7, <1>9 DEF BetaParses
<1>12. BetaParse(x)
  BY <1>2, <1>5, <1>7, <1>9, <1>11 DEF BetaParse, BetaParses
<1>13. BetaTypes(x) /\ x.image = c.image
  BY <1>1, <1>9, <1>10, <1>12, BetaParsesKeeps, ZenonT(30) DEF BetaHeld
<1>14. 0 < size
  OBVIOUS
<1> QED
  BY <1>1, <1>2, <1>7, <1>9, <1>10, <1>11, <1>13, <1>14 DEF BetaSeen, BetaParses

BetaFollows(c, x, data) == x = [c EXCEPT !.buffer = data]

(* Data of a track that is not complete.                                     *)
LEMMA BetaCollects ==
    ASSUME BetaInv(vg93), vg93.xfer = "writeTrack", vg93.parse.in = "data",
           NEW byte \in 0 .. 255,
           NEW data, data = Append(vg93.buffer, byte), Len(data) < vg93.parse.size,
           NEW x, BetaFollows(vg93, x, data)
    PROVE  BetaPassed(x, byte, vg93') => BetaInv(vg93') /\ BetaDrives
<1>1. SUFFICES ASSUME BetaPassed(x, byte, vg93')
               PROVE  BetaInv(vg93') /\ BetaDrives
  OBVIOUS
<1>2. PICK c : c = vg93
  OBVIOUS
<1>3. PICK b \in Seq(Nat) : b = c.buffer
  BY <1>2 DEF BetaInv, BetaTypes
<1>4. BetaTypes(c) /\ BetaShape(c) /\ BetaParse(c) /\ ~c.intrq /\ c.done < SectorsPerTrack
  BY <1>2 DEF BetaInv, BetaTypes, BetaOK, StatusOK
<1>5. data \in Seq(Nat) /\ Len(data) = Len(b) + 1 /\ data[Len(data)] = byte
  <2>1. byte \in Nat /\ data = Append(b, byte)
    BY <1>2, <1>3
  <2> QED
    BY <2>1
<1>p. PICK parse, id : parse = c.parse /\ id = c.id
  OBVIOUS
<1>6. BetaParses(c, parse, id, data, x)
  BY <1>2, <1>4, <1>p, ZenonT(30) DEF BetaFollows, BetaShape, BetaParses, BetaSame
<1>7. BetaTypes(x) /\ x.image = c.image
  <2>1. BetaParse(x)
    BY <1>4, <1>p, <1>6, BetaParseKept DEF BetaParses, BetaAlike
  <2> QED
    <3>1. PICK buffer \in Seq(Nat) : buffer = data
      BY <1>5, Zenon
    <3>2. BetaInv(c) /\ BetaParses(c, parse, id, buffer, x)
      BY <1>2, <1>6, <3>1
    <3>3. BetaHeld(c, x)
      BY <2>1, <3>2, BetaParsesKeeps
    <3> QED
      BY <3>3 DEF BetaHeld
<1>8. BetaSeen(x)
  BY <1>2, <1>4, <1>p, <1>6, <1>7 DEF BetaSeen, BetaParses
<1>9. BetaPassing(x, vg93')
  <2>1. byte \in Nat
    OBVIOUS
  <2> QED
    BY <1>1, <1>8, <2>1, BetaPasses
<1>10. PICK n \in Nat : n = c.done
  BY <1>4 DEF BetaParse
<1>11. ~(x.done >= SectorsPerTrack)
  BY <1>4, <1>6, <1>10, BetaAssumption DEF BetaParses
<1>12. /\ BetaInv(vg93') /\ vg93'.image = c.image /\ vg93'.xfer = "writeTrack"
       /\ vg93'.parse = c.parse /\ vg93'.buffer = data
  BY <1>p, <1>6, <1>7, <1>9, <1>11 DEF BetaPassing, BetaParses
<1>13. PICK p, want, keep, j, k :
          /\ p = <<c.parse.id[1], c.parse.id[2], c.parse.id[3] - 1>>
          /\ want = c.parse.size /\ keep = FALSE /\ j = Job /\ k = Job'
  BY Zenon
<1>14. j = [op |-> "write", at |-> p, want |-> want, keep |-> keep, bytes |-> b]
  BY <1>2, <1>3, <1>13, BetaJobs, Zenon DEF BetaJob
<1>15. k = [op |-> "write", at |-> p, want |-> want, keep |-> keep, bytes |-> data]
  BY <1>2, <1>12, <1>13, BetaJobs, Zenon DEF BetaJob
<1>16. Taken(j, k, byte)
  BY <1>2, <1>3, <1>14, <1>15, JobTaken, Zenon
<1>17. j.op = "write" /\ j.want = want /\ j.bytes = b /\ k.op = "write" /\ k.bytes = data
  BY <1>14, <1>15
<1>18. k = [j EXCEPT !.bytes = Append(@, k.bytes[Len(k.bytes)])]
  BY <1>5, <1>16, <1>17, Zenon DEF Taken
<1>19. Len(b) < want
  BY <1>2, <1>3, <1>13 DEF BetaInv, BetaOK, StatusOK
<1>20. Drive!Take
  BY <1>2, <1>5, <1>12, <1>13, <1>17, <1>18, <1>19 DEF Drive!Take
<1> QED
  BY <1>12, <1>20 DEF BetaDrives, Drive!Next

BetaPadded(data, e) == e = Padded(data)

(* A sector of a track may be shorter or longer than the disk's.              *)
LEMMA BetaPads ==
    ASSUME NEW data \in Seq(Nat), NEW e, BetaPadded(data, e)
    PROVE  e \in [1 .. SectorSize -> Nat]
<1>1. PICK n, l \in Nat : n = SectorSize /\ l = Len(data)
  BY BetaAssumption, LenProperties, Zenon
<1>2. Fill \in Nat
  BY BetaAssumption
<1>3. e = [i \in 1 .. n |-> IF i <= l THEN data[i] ELSE Fill]
  BY <1>1 DEF BetaPadded, Padded
<1>4. \A i \in 1 .. n : (IF i <= l THEN data[i] ELSE Fill) \in Nat
  BY <1>1, <1>2
<1> QED
  BY <1>1, <1>3, <1>4

LEMMA BetaPadsAre ==
    ASSUME NEW disk, IsDisk(disk), NEW p, p \in DOMAIN disk.sectors,
           NEW data, NEW e, BetaPadded(data, e)
    PROVE  BetaFilled(disk.sectors[p], FALSE, data, e)
<1>1. DOMAIN disk.sectors[p] = 1 .. SectorSize
  BY BetaSector
<1> QED
  BY <1>1 DEF BetaFilled, BetaPadded, Padded

(* A sector of a track that is complete is stored where its identification   *)
(* says, and nowhere when there is no such sector.                           *)
BetaLaid(c, p, data, x) ==
    /\ BetaSeen(x) /\ x.parse = Hunt
    /\ \/ p \notin DOMAIN c.image.sectors /\ x.image = c.image
       \/ /\ p \in DOMAIN c.image.sectors
          /\ \E e : /\ BetaFilled(c.image.sectors[p], FALSE, data, e)
                    /\ x.image.sectors = [c.image.sectors EXCEPT ![p] = e]

(* A sector of a track on the disk.                                           *)
LEMMA BetaLays ==
    ASSUME NEW c, BetaInv(c), c.xfer = "writeTrack", c.parse.in = "data",
           NEW data \in Seq(Nat),
           NEW p, p = <<c.parse.id[1], c.parse.id[2], c.parse.id[3] - 1>>,
           NEW x, x = CommitTrackSector(c, c.parse, data)
    PROVE  BetaLaid(c, p, data, x)
<1>1. BetaTypes(c) /\ BetaShape(c) /\ BetaRegs(c) /\ BetaParse(c) /\ ~c.intrq
  BY DEF BetaInv, BetaTypes, BetaOK, StatusOK
<1>2. PICK r \in Nat : r = c.parse.id[3]
  <2>1. c.parse.id \in Seq(Nat) /\ Len(c.parse.id) = 4
    BY <1>1 DEF BetaParse, BetaIds
  <2> QED
    BY <2>1
<1>3. PICK n \in Nat : n = SectorsPerTrack
  BY BetaAssumption
<1>4. Has(c, p) => r \in 1 .. n
  <2>1. ASSUME Has(c, p)
        PROVE  r \in 1 .. n
    <3>1. p[3] \in 0 .. n - 1
      BY <1>1, <1>3, <2>1, BetaSector, Zenon DEF Has, BetaRegs
    <3>2. p[3] = r - 1
      BY <1>2
    <3> QED
      BY <1>2, <1>3, <3>1, <3>2
  <2> QED
    BY <2>1
<1>6. PICK y : y = IF Has(c, p) THEN Put(c, p, Padded(data)) ELSE c
  OBVIOUS
<1>7. x = [y EXCEPT !.done = IF Has(c, p) THEN @ + 1 ELSE @, !.buffer = <<>>, !.parse = Hunt]
  BY <1>2, <1>3, <1>4, <1>6, Zenon DEF CommitTrackSector
<1>8. PICK e : BetaPadded(data, e)
  BY DEF BetaPadded
<1>9. /\ BetaTypes(y) /\ y.id = c.id /\ y.done = c.done /\ y.xfer = c.xfer /\ y.intrq = c.intrq
      /\ Has(c, p) => y.image.sectors = [c.image.sectors EXCEPT ![p] = e]
      /\ ~Has(c, p) => y.image = c.image
  <2>1. CASE Has(c, p)
    <3>1. BetaStores(c, p, e, y)
      BY <1>6, <1>8, <2>1 DEF Put, BetaStores, BetaPadded
    <3>2. e \in [1 .. SectorSize -> Nat]
      BY <1>8, BetaPads
    <3>3. BetaTypes(y) /\ BetaStored(c, p, e, y)
      BY <1>1, <2>1, <3>1, <3>2, BetaStoresKeeps
    <3> QED
      BY <2>1, <3>3 DEF BetaStored, BetaAlike
  <2>2. CASE ~Has(c, p)
    BY <1>1, <1>6, <2>2
  <2> QED
    BY <2>1, <2>2
<1>10. PICK d \in Nat : d = y.done
  BY <1>9 DEF BetaTypes, BetaParse
<1>11. PICK d2 \in Nat : d2 = IF Has(c, p) THEN d + 1 ELSE d
  BY <1>10
<1>12. BetaShape(y) /\ BetaRegs(y) /\ BetaParse(y)
  BY <1>9 DEF BetaTypes
<1>13. PICK buffer : buffer = <<>>
  OBVIOUS
<1>14. x = [y EXCEPT !.done = d2, !.buffer = buffer, !.parse = Hunt]
  BY <1>7, <1>10, <1>11, <1>12, <1>13 DEF BetaShape
<1>15. /\ BetaShape(x) /\ BetaSame(y, x) /\ x.parse = Hunt /\ x.id = y.id /\ x.done = d2
       /\ x.buffer = buffer /\ x.at = y.at /\ x.xfer = y.xfer /\ x.intrq = y.intrq
  BY <1>12, <1>14, ZenonT(30) DEF BetaShape, BetaSame
<1>16. BetaRegs(x)
  BY <1>12, <1>15, BetaRegsKept
<1>17. BetaParse(x)
  BY <1>12, <1>15 DEF BetaParse, Hunt
<1>18. BetaTypes(x)
  <2>1. buffer \in Seq(Nat)
    BY <1>13
  <2> QED
    BY <1>9, <1>15, <1>16, <1>17, <2>1 DEF BetaTypes
<1>19. BetaSeen(x)
  BY <1>1, <1>9, <1>15, <1>18 DEF BetaSeen, Hunt
<1>20. CASE Has(c, p)
  <2>1. p \in DOMAIN c.image.sectors
    BY <1>20 DEF Has
  <2>2. BetaFilled(c.image.sectors[p], FALSE, data, e)
    BY <1>1, <1>8, <2>1, BetaPadsAre, Zenon DEF BetaRegs
  <2> QED
    BY <1>9, <1>15, <1>19, <1>20, <2>1, <2>2, ZenonT(30) DEF BetaLaid, BetaSame
<1>21. CASE ~Has(c, p)
  BY <1>9, <1>15, <1>19, <1>21, Zenon DEF BetaLaid, BetaSame, Has
<1> QED
  BY <1>20, <1>21

LEMMA BetaStoresTrack ==
    ASSUME BetaInv(vg93), vg93.xfer = "writeTrack", vg93.parse.in = "data",
           NEW byte \in 0 .. 255,
           NEW data, data = Append(vg93.buffer, byte), ~(Len(data) < vg93.parse.size),
           NEW x, x = CommitTrackSector(vg93, vg93.parse, data)
    PROVE  BetaPassed(x, byte, vg93') => BetaInv(vg93') /\ BetaDrives
<1>1. SUFFICES ASSUME BetaPassed(x, byte, vg93')
               PROVE  BetaInv(vg93') /\ BetaDrives
  OBVIOUS
<1>2. PICK c, p : c = vg93 /\ p = <<c.parse.id[1], c.parse.id[2], c.parse.id[3] - 1>>
  BY Zenon
<1>3. PICK b \in Seq(Nat) : b = c.buffer
  BY <1>2 DEF BetaInv, BetaTypes
<1>4. data \in Seq(Nat) /\ Len(data) = Len(b) + 1
  <2>1. byte \in Nat /\ data = Append(b, byte)
    BY <1>2, <1>3
  <2> QED
    BY <2>1
<1>5. BetaLaid(c, p, data, x)
  BY <1>2, <1>4, BetaLays, Zenon
<1>6. BetaPassing(x, vg93')
  <2>1. byte \in Nat /\ BetaSeen(x)
    BY <1>5 DEF BetaLaid
  <2> QED
    BY <1>1, <2>1, BetaPasses
<1>7. BetaInv(vg93') /\ vg93'.image = x.image /\ BetaQuiet(vg93')
  BY <1>5, <1>6 DEF BetaPassing, BetaLaid, BetaQuiet, Hunt
<1>8. Job' = [op |-> "none"]
  BY <1>7, BetaJobs, BetaQuietJob
<1>9. PICK j, want, keep : j = Job /\ want = c.parse.size /\ keep = FALSE
  BY Zenon
<1>10. j = [op |-> "write", at |-> p, want |-> want, keep |-> keep, bytes |-> b]
  BY <1>2, <1>3, <1>9, BetaJobs, Zenon DEF BetaJob
<1>11. j.op = "write" /\ j.at = p /\ j.want = want /\ j.keep = keep /\ j.bytes = b
  BY <1>10
<1>12. Len(b) = want - 1
  <2>1. PICK n \in Nat : n = Len(b)
    BY LenProperties
  <2>2. PICK w \in Nat : w = want
    BY <1>2, <1>9 DEF BetaInv, BetaTypes, BetaParse
  <2>3. n < w /\ ~(n + 1 < w)
    BY <1>2, <1>3, <1>4, <1>9, <2>1, <2>2 DEF BetaInv, BetaOK, StatusOK
  <2> QED
    BY <2>1, <2>2, <2>3
<1>13. x.image.sectors = Drive!Stored(data)
  <2>1. CASE p \notin DOMAIN c.image.sectors /\ x.image = c.image
    BY <1>2, <1>9, <1>11, <2>1 DEF Drive!Stored, Drive!On
  <2>2. CASE p \in DOMAIN c.image.sectors
             /\ \E e : /\ BetaFilled(c.image.sectors[p], FALSE, data, e)
                       /\ x.image.sectors = [c.image.sectors EXCEPT ![p] = e]
    <3>1. PICK e : /\ BetaFilled(c.image.sectors[p], FALSE, data, e)
                   /\ x.image.sectors = [c.image.sectors EXCEPT ![p] = e]
      BY <2>2, Zenon
    <3>2. BetaFilled(vg93.image.sectors[p], j.keep, data, e)
      BY <1>2, <1>9, <1>11, <3>1, Zenon
    <3>3. Drive!Stored(data) = [vg93.image.sectors EXCEPT ![p] = e]
      <4>1. j = Job /\ p = j.at /\ p \in DOMAIN vg93.image.sectors
        BY <1>2, <1>9, <1>11, <2>2
      <4>2. BetaHolds(data, p, e)
        BY <3>2, <4>1, BetaFills
      <4> QED
        BY <4>2 DEF BetaHolds
    <3> QED
      BY <1>2, <3>1, <3>3
  <2> QED
    BY <1>5, <2>1, <2>2, Zenon DEF BetaLaid
<1>14. Drive!Finish
  <2>1. vg93.image.sectors' = Drive!Stored(Append(j.bytes, byte))
    BY <1>2, <1>3, <1>7, <1>11, <1>13
  <2> QED
    BY <1>8, <1>9, <1>11, <1>12, <2>1, Zenon DEF Drive!Finish, Drive!NoJob
<1> QED
  BY <1>7, <1>14 DEF BetaDrives, Drive!Next

(* A byte of a track to write.                                               *)
LEMMA BetaTrackByte ==
    ASSUME BetaInv(vg93), vg93.xfer = "writeTrack", NEW byte \in 0 .. 255,
           vg93' = WriteData(vg93, byte)
    PROVE  BetaInv(vg93') /\ BetaDrives
<1>1. PICK x : x = Parse(vg93, byte)
  OBVIOUS
<1>2. BetaPassed(x, byte, vg93')
  BY <1>1 DEF WriteData, WriteTrackByte, BetaPassed
<1>3. byte \in Nat
  OBVIOUS
<1>4. vg93.parse.in \in {"hunt", "id", "data"}
  BY DEF BetaInv, BetaTypes, BetaParse
<1>5. CASE vg93.parse.in # "data" /\ (byte # DataMark \/ vg93.parse.in = "id")
  <2>1. BetaSeen(x) /\ x.parse.in # "data" /\ x.image = vg93.image
    BY <1>1, <1>5, BetaHunts, Zenon
  <2>2. BetaPassing(x, vg93')
    BY <1>2, <1>3, <2>1, BetaPasses
  <2> QED
    BY <2>1, <2>2, BetaEnds DEF BetaPassing, BetaQuiet
<1>6. CASE vg93.parse.in = "hunt" /\ byte = DataMark
  <2>1. x = StartData(vg93)
    BY <1>1, <1>6, BetaAssumption DEF Parse
  <2>2. /\ BetaSeen(x) /\ x.parse.in = "data" /\ x.image = vg93.image
        /\ x.buffer = <<>> /\ x.done = vg93.done
    BY <1>6, <2>1, BetaMarks
  <2>3. BetaPassing(x, vg93')
    BY <1>2, <1>3, <2>2, BetaPasses
  <2>4. ~(x.done >= SectorsPerTrack)
    <3>1. PICK n \in Nat : n = vg93.done
      BY DEF BetaInv, BetaTypes, BetaParse
    <3>2. n < SectorsPerTrack
      BY <3>1 DEF BetaInv, BetaOK, StatusOK
    <3> QED
      BY <2>2, <3>1, <3>2, BetaAssumption
  <2>5. /\ BetaInv(vg93') /\ vg93'.image = vg93.image /\ vg93'.xfer = "writeTrack"
        /\ vg93'.parse.in = "data" /\ vg93'.buffer = <<>>
    BY <2>2, <2>3, <2>4 DEF BetaPassing
  <2>6. PICK k, keep : k = Job' /\ keep = FALSE
    BY Zenon
  <2>7. \E p, want : k = [op |-> "write", at |-> p, want |-> want, keep |-> keep, bytes |-> <<>>]
    BY <2>5, <2>6, BetaJobs, Zenon DEF BetaJob
  <2>8. k.op = "write" /\ k.keep = keep /\ k.bytes = <<>>
    BY <2>7
  <2> QED
    BY <2>5, <2>6, <2>8 DEF BetaDrives, Drive!Next, Drive!Begin, Drive!Writes
<1>7. CASE vg93.parse.in = "data"
  <2>1. PICK data : data = Append(vg93.buffer, byte)
    BY Zenon
  <2>2. CASE Len(data) < vg93.parse.size
    <3>1. BetaFollows(vg93, x, data)
      BY <1>1, <1>7, <2>1, <2>2 DEF Parse, BetaFollows
    <3> QED
      BY <1>2, <1>7, <2>1, <2>2, <3>1, BetaCollects, Zenon
  <2>3. CASE ~(Len(data) < vg93.parse.size)
    <3>1. x = CommitTrackSector(vg93, vg93.parse, data)
      BY <1>1, <1>7, <2>1, <2>3 DEF Parse
    <3> QED
      BY <1>2, <1>7, <2>1, <2>3, <3>1, BetaStoresTrack, Zenon
  <2> QED
    BY <2>2, <2>3
<1> QED
  BY <1>4, <1>5, <1>6, <1>7

(* A byte of a sector to write.                                              *)
LEMMA BetaSectorByte ==
    ASSUME BetaInv(vg93), vg93.xfer = "write", NEW byte \in 0 .. 255,
           vg93' = WriteData(vg93, byte)
    PROVE  BetaServed
<1>1. PICK x : BetaTook(vg93, byte, x)
  BY DEF BetaTook
<1>2. vg93' = IF x.at >= Len(x.buffer) THEN CommitWrite(x) ELSE Request(x)
  BY <1>1 DEF WriteData, BetaTook
<1>3. PICK n \in Nat : n = vg93.at
  BY DEF BetaInv, BetaTypes
<1>4. PICK l \in Nat : l = SectorSize
  BY BetaAssumption
<1>5. x.at = n + 1 /\ Len(x.buffer) = l
  <2>1. BetaPut(vg93, byte, x) /\ BetaGrown(vg93.buffer, vg93.at, byte, x.buffer)
    BY <1>1, BetaTookKeeps
  <2>2. Len(vg93.buffer) = l
    BY <1>4 DEF BetaInv, BetaOK, StatusOK
  <2> QED
    BY <1>3, <2>1, <2>2 DEF BetaPut, BetaGrown
<1>6. x.at >= Len(x.buffer) <=> ~(n + 1 < l)
  BY <1>5
<1>7. CASE n + 1 < l
  <2>1. vg93' = Request(x)
    BY <1>2, <1>6, <1>7
  <2> QED
    BY <1>1, <1>3, <1>4, <1>7, <2>1, BetaTakes
<1>8. CASE ~(n + 1 < l)
  <2>1. vg93' = CommitWrite(x)
    BY <1>2, <1>6, <1>8
  <2> QED
    BY <1>1, <1>3, <1>4, <1>8, <2>1, BetaCommits
<1> QED
  BY <1>7, <1>8

(* A byte that nobody asked for stays in the data register.                  *)
LEMMA BetaWrites ==
    ASSUME BetaInv(vg93), NEW byte \in 0 .. 255, vg93' = WriteData(vg93, byte)
    PROVE  BetaInv(vg93') /\ BetaDrives
<1>1. CASE vg93.xfer = "writeTrack"
  BY <1>1, BetaTrackByte
<1>2. CASE vg93.xfer = "write"
  BY <1>2, BetaSectorByte DEF BetaServed
<1>3. CASE vg93.xfer \notin {"write", "writeTrack"}
  <2>1. BetaNoted(vg93, byte, vg93') /\ byte \in Nat
    <3>1. vg93' = [vg93 EXCEPT !.dataReg = byte]
      BY <1>3 DEF WriteData
    <3>2. byte \in Nat
      OBVIOUS
    <3> QED
      BY <3>1, <3>2 DEF BetaNoted
  <2>2. BetaInv(vg93') /\ BetaNudged(vg93, vg93') /\ vg93'.image = vg93.image
    BY <2>1, BetaNotes
  <2> QED
    BY <2>2, BetaMoves
<1> QED
  BY <1>1, <1>2, <1>3

(* What a guest sends while something is due are bytes.                       *)
LEMMA BetaBytes ==
    ASSUME BetaInv(vg93), NEW byte, byte \in HostBytes[Due(vg93)]
    PROVE  byte \in 0 .. 255
<1>1. Due(vg93) \in DueNames
  <2>1. CASE vg93.xfer = "writeTrack" /\ vg93.parse.in = "id"
    <3>1. PICK got \in Seq(Nat) : got = vg93.parse.got
      BY <2>1 DEF BetaInv, BetaTypes, BetaParse
    <3>2. PICK n \in Nat : n = Len(got)
      BY LenProperties
    <3>3. n < 4
      BY <2>1, <3>1, <3>2 DEF BetaInv, BetaOK, StatusOK
    <3>4. n + 1 \in {1, 2, 3, 4}
      BY <3>3
    <3>5. Due(vg93) = <<"cylinder", "head", "record", "size">>[n + 1]
      BY <2>1, <3>1, <3>2 DEF Due
    <3> QED
      BY <3>4, <3>5 DEF DueNames
  <2>2. CASE vg93.xfer = "writeTrack" /\ vg93.parse.in # "id"
    BY <2>2 DEF BetaInv, BetaTypes, BetaParse, Due, DueNames
  <2>3. CASE vg93.xfer # "writeTrack"
    BY <2>3 DEF Due, DueNames
  <2> QED
    BY <2>1, <2>2, <2>3
<1> QED
  BY <1>1, BetaAssumption, Zenon

(* Registers and the system port, as steps of the drive.                      *)
LEMMA BetaNudge ==
    ASSUME BetaInv(vg93), BetaNudged(vg93, vg93'),
           vg93'.image = vg93.image \/ vg93'.image.sectors \in Media
    PROVE  BetaInv(vg93') /\ BetaDrives
  BY BetaNudgedKeeps, BetaMoves

(* Every operation keeps the controller in order and its medium true.        *)
LEMMA BetaStep ==
    ASSUME BetaInv(vg93), Next
    PROVE  BetaInv(vg93') /\ BetaDrives
<1>1. BetaShape(vg93) /\ BetaRegs(vg93) /\ BetaTypes(vg93)
  BY DEF BetaInv, BetaTypes
<1>2. ASSUME NEW cmd \in Commands, OutCommand(cmd)
      PROVE  BetaInv(vg93') /\ BetaDrives
  <2>1. BetaAnswered(vg93, vg93')
    BY <1>1, <1>2, BetaCommand DEF OutCommand
  <2> QED
    BY <2>1, BetaBegun DEF BetaAnswered
<1>3. ASSUME NEW value \in Registers, OutTrack(value) \/ OutSector(value)
      PROVE  BetaInv(vg93') /\ BetaDrives
  <2>1. value \in Nat
    BY BetaAssumption
  <2>2. BetaNudged(vg93, vg93') /\ vg93'.image = vg93.image
    BY <1>1, <1>3, <2>1, ZenonT(30)
       DEF OutTrack, OutSector, BetaNudged, BetaShape, BetaAlike, BetaRegs
  <2> QED
    BY <2>2, BetaNudge
<1>4. ASSUME NEW byte \in HostBytes[Due(vg93)], OutData(byte)
      PROVE  BetaInv(vg93') /\ BetaDrives
  BY <1>4, BetaBytes, BetaWrites DEF OutData
<1>5. ASSUME NEW word \in Words, OutSystem(word)
      PROVE  BetaInv(vg93') /\ BetaDrives
  <2>1. PICK run : run = (word.run \/ (vg93.image.sides <= 1 /\ ~word.zero))
    OBVIOUS
  <2>2. word.side \in {0, 1}
    BY BetaAssumption
  <2>3. PICK c : c = [vg93 EXCEPT !.drive = word.drive, !.run = run, !.side = word.side]
    OBVIOUS
  <2>4. vg93' = IF run THEN c ELSE ResetVg93(c)
    BY <1>5, <2>1, <2>3, Zenon DEF OutSystem
  <2>5. BetaNudged(vg93, c) /\ c.image = vg93.image
    BY <1>1, <2>2, <2>3, Zenon DEF BetaNudged, BetaShape, BetaAlike, BetaRegs
  <2>6. BetaInv(c)
    BY <2>5, BetaNudgedKeeps
  <2>7. CASE run
    BY <2>4, <2>5, <2>7, BetaNudge
  <2>8. CASE ~run
    <3>1. BetaEnded(c, vg93')
      BY <2>4, <2>6, <2>8, BetaReset DEF BetaInv
    <3> QED
      BY <2>5, <3>1, BetaEndedOK, BetaEnds, Zenon DEF BetaEnded, BetaQuiet
  <2> QED
    BY <2>7, <2>8
<1>6. CASE InStatus
  <2>1. BetaNudged(vg93, vg93') /\ vg93'.image = vg93.image
    BY <1>1, <1>6, Zenon DEF InStatus, BetaNudged, BetaShape, BetaAlike, BetaRegs
  <2> QED
    BY <2>1, BetaNudge
<1>7. CASE InData
  <2>1. CASE vg93.xfer \in {"read", "address"}
    BY <1>7, <2>1, BetaReads DEF InData, BetaServed
  <2>2. CASE vg93.xfer \notin {"read", "address"}
    <3>1. vg93' = vg93
      BY <1>7, <2>2 DEF InData, ReadData
    <3>2. Job' = Job
      BY <3>1, BetaJobs
    <3> QED
      BY <3>1, <3>2 DEF BetaDrives
  <2> QED
    BY <2>1, <2>2
<1>8. ASSUME NEW on \in BOOLEAN, Page(on)
      PROVE  BetaInv(vg93') /\ BetaDrives
  <2>1. BetaNudged(vg93, vg93') /\ vg93'.image = vg93.image
    BY <1>1, <1>8 DEF Page, BetaNudged, BetaShape, BetaAlike, BetaRegs
  <2> QED
    BY <2>1, BetaNudge
<1>9. ASSUME NEW disk \in Disks, InsertDisk(disk)
      PROVE  BetaInv(vg93') /\ BetaDrives
  <2>1. IsDisk(disk) /\ disk.sectors \in Media
    BY BetaAssumption DEF Media
  <2>2. BetaNudged(vg93, vg93') /\ vg93'.image = disk
    BY <1>1, <1>9, <2>1 DEF InsertDisk, BetaNudged, BetaShape, BetaAlike, BetaRegs
  <2> QED
    BY <2>1, <2>2, BetaNudge
<1> QED
  BY <1>2, <1>3, <1>4, <1>5, <1>6, <1>7, <1>8, <1>9 DEF Next

(* Every byte that DRQ asks for takes a bounded command forward.              *)
LEMMA BetaServes ==
    ASSUME BetaInv(vg93), Serve
    PROVE  Nearer
<1>1. CASE vg93.xfer = "write"
  <2>1. PICK byte \in HostBytes[Due(vg93)] : OutData(byte)
    BY <1>1 DEF Serve
  <2> QED
    BY <1>1, <2>1, BetaBytes, BetaSectorByte DEF OutData, BetaServed
<1>2. CASE vg93.xfer \in {"read", "address"}
  <2>1. InData
    BY <1>2 DEF Serve
  <2> QED
    BY <1>2, <2>1, BetaReads DEF InData, BetaServed
<1>3. CASE vg93.xfer \notin {"read", "address", "write"}
  BY <1>3 DEF Nearer, Bounded
<1> QED
  BY <1>1, <1>2, <1>3

(* At first the controller is in order, and a drive at rest.                  *)
LEMMA BetaInitial ==
    ASSUME Init
    PROVE  BetaInv(vg93) /\ Drive!Init
<1>1. vg93 = NewController
  BY DEF Init
<1>2. PICK c, m : c = NewController /\ m = <<>>
  OBVIOUS
<1>3. PICK disk : disk = [sides |-> 2, sectors |-> m]
  BY Zenon
<1>4. IsDisk(disk)
  <2>1. m \in [DOMAIN m -> [1 .. SectorSize -> Nat]] /\ DOMAIN m = {}
    BY <1>2
  <2> QED
    BY <1>3, <2>1 DEF IsDisk
<1>5. PICK buffer : buffer = <<>>
  OBVIOUS
<1>b. buffer \in Seq(Nat)
  BY <1>5
<1>6. /\ BetaShape(c) /\ c.track = 0 /\ c.sector = 1 /\ c.dataReg = 0 /\ c.side = 0
      /\ c.image = disk /\ c.multiple = FALSE /\ c.buffer = buffer /\ c.at = 0
      /\ c.xfer = "idle" /\ c.drq = FALSE /\ c.status = {"track0", "head"}
      /\ BetaFresh(c)
  BY <1>2, <1>3, <1>5 DEF NewController, NoDisk, BetaShape, BetaFresh
<1>7. BetaRegs(c)
  <2>1. c.multiple \in BOOLEAN
    BY <1>6, Zenon
  <2>2. c.track \in Nat /\ c.sector \in Nat /\ c.dataReg \in Nat /\ c.side \in {0, 1}
    BY <1>6
  <2> QED
    BY <1>4, <1>6, <2>1, <2>2 DEF BetaRegs
<1>8. BetaTypes(c)
  BY <1>6, <1>7, <1>b, BetaParseFresh DEF BetaTypes
<1>9. BetaInv(c)
  BY <1>6, <1>8 DEF BetaInv, BetaOK, StatusOK
<1>10. vg93.image.sectors \in Media
  BY <1>1, <1>2, <1>3, <1>6 DEF Media, NoDisk
<1>11. Job = [op |-> "none"]
  BY <1>1, <1>2, <1>6, BetaJobs, BetaQuietJob DEF BetaQuiet
<1> QED
  BY <1>1, <1>2, <1>9, <1>10, <1>11 DEF Drive!Init, Drive!NoJob

-----------------------------------------------------------------------------
(* The four drives on one board.                                             *)

BoardInv == BetaInv(vg93) /\ P3Inv(fdc) /\ MmcInv(mmc) /\ SdInv(sd)

MmcDrives == DivMmc!Drive!Next \/ UNCHANGED <<DivMmc!Blocks(mmc.image), DivMmc!Job>>

(* All four are in order at first, and stay so, one step at a time.           *)
LEMMA BoardBegins ==
    ASSUME BoardInit
    PROVE  /\ BoardInv
           /\ Drive!Init /\ Plus3!Drive!Init /\ DivMmc!Drive!Init /\ NextSd!Drive!Init
<1>1. Init /\ Plus3!Init /\ DivMmc!Init /\ NextSd!Init
  BY DEF BoardInit
<1> QED
  BY <1>1, BetaInitial, P3Starts, MmcBegins, MmcStarts, SdStarts DEF BoardInv

(* A device that does nothing stutters.                                      *)
LEMMA BetaRests ==
    ASSUME BetaInv(vg93), UNCHANGED vg93
    PROVE  BetaInv(vg93') /\ BetaDrives
<1>1. BetaInv(vg93')
  BY Zenon
<1>2. UNCHANGED <<vg93.image.sectors, Job>>
  BY DEF Job, Place
<1> QED
  BY <1>1, <1>2 DEF BetaDrives

LEMMA P3Rests ==
    ASSUME P3Inv(fdc), UNCHANGED fdc
    PROVE  P3Inv(fdc') /\ P3Drives
<1>1. P3Inv(fdc')
  BY Zenon
<1>2. UNCHANGED <<Plus3!SectorsOf(fdc.disk), Plus3!Job>>
  BY DEF Plus3!Job
<1> QED
  BY <1>1, <1>2 DEF P3Drives

LEMMA MmcRests ==
    ASSUME MmcInv(mmc), UNCHANGED mmc
    PROVE  MmcInv(mmc') /\ MmcDrives
<1>1. MmcInv(mmc')
  BY Zenon
<1>2. UNCHANGED <<DivMmc!Blocks(mmc.image), DivMmc!Job>>
  BY DEF DivMmc!Job
<1> QED
  BY <1>1, <1>2 DEF MmcDrives

LEMMA SdRests ==
    ASSUME SdInv(sd), UNCHANGED sd
    PROVE  SdInv(sd') /\ SdDrives
<1>1. SdInv(sd')
  BY Zenon
<1>2. UNCHANGED <<NextSd!Blocks(sd.image), NextSd!Job>>
  BY DEF NextSd!Job
<1> QED
  BY <1>1, <1>2 DEF SdDrives

(* A step of the board keeps all four, and is a drive's step of each.         *)
LEMMA BoardStep ==
    ASSUME BoardInv, [BoardNext]_board
    PROVE  BoardInv' /\ BetaDrives /\ P3Drives /\ MmcDrives /\ SdDrives
<1>1. /\ Next \/ UNCHANGED vg93
      /\ Plus3!Next \/ UNCHANGED fdc
      /\ DivMmc!Next \/ UNCHANGED mmc
      /\ NextSd!Next \/ UNCHANGED sd
  BY Zenon DEF BoardNext, board
<1>2. BetaInv(vg93) /\ P3Inv(fdc) /\ MmcInv(mmc) /\ SdInv(sd)
  BY DEF BoardInv
<1>3. BetaInv(vg93') /\ BetaDrives
  BY <1>1, <1>2, BetaStep, BetaRests
<1>4. P3Inv(fdc') /\ P3Drives
  BY <1>1, <1>2, P3Step, P3Rests
<1>5. MmcInv(mmc') /\ MmcDrives
  <2>1. DivMmc!Next => MmcInv(mmc')
    BY <1>2, MmcStep
  <2>2. DivMmc!Next => MmcDrives
    BY <1>2, MmcRefines DEF MmcDrives
  <2> QED
    BY <1>1, <1>2, <2>1, <2>2, MmcRests
<1>6. SdInv(sd') /\ SdDrives
  BY <1>1, <1>2, SdStep, SdRests
<1> QED
  BY <1>3, <1>4, <1>5, <1>6 DEF BoardInv

(* The invariants of the four controllers, whatever is attached.             *)
THEOREM BoardInvariance == BoardSpec => []BoardInv
<1>1. BoardInit => BoardInv
  BY BoardBegins
<1>2. BoardInv /\ [BoardNext]_board => BoardInv'
  BY BoardStep
<1> QED
  BY <1>1, <1>2, PTL DEF BoardSpec

(* The status that a driver polls is true of all four interfaces, for media  *)
(* of any contents and commands, registers, resets and disks in any order.   *)
THEOREM PollsAreTrue == BoardSpec => []StatusIsTrue
<1>1. BoardInv => StatusIsTrue
  BY DEF BoardInv, BetaInv, BetaOK, P3Inv, MmcInv, MmcOK, SdInv, SdOK, StatusIsTrue
<1> QED
  BY <1>1, BoardInvariance, PTL

(* Every byte that a driver hands over or takes because the status asked for *)
(* it brings the command nearer to its end, a command without a bound aside. *)
THEOREM CommandsEnd == BoardSpec => ServedCommandsEnd
<1>1. BoardInv /\ [BoardNext]_board =>
        [/\ Serve => Nearer
         /\ Plus3!Serve => Plus3!Nearer
         /\ DivMmc!Serve => DivMmc!Nearer
         /\ NextSd!Serve => NextSd!Nearer]_board
  <2> SUFFICES ASSUME BoardInv
               PROVE  /\ Serve => Nearer
                      /\ Plus3!Serve => Plus3!Nearer
                      /\ DivMmc!Serve => DivMmc!Nearer
                      /\ NextSd!Serve => NextSd!Nearer
    OBVIOUS
  <2>1. BetaInv(vg93) /\ P3Inv(fdc) /\ MmcInv(mmc) /\ SdInv(sd)
    BY DEF BoardInv
  <2>2. Plus3!Serve => P3Served
    BY <2>1, P3Serves
  <2>3. Plus3!Serve => Plus3!Nearer
    BY <2>2 DEF P3Served
  <2> QED
    BY <2>1, <2>3, BetaServes, MmcNearer, SdServes
<1> QED
  BY <1>1, BoardInvariance, PTL DEF BoardSpec, ServedCommandsEnd

(* All four interfaces keep the promise of SectorDrive: what they hand out   *)
(* and what they change on a medium, step by step, is what a drive may do.   *)
THEOREM MediaKept == BoardSpec => DrivesKeepTheirMedia
<1>1. BoardInit =>
        Drive!Init /\ Plus3!Drive!Init /\ DivMmc!Drive!Init /\ NextSd!Drive!Init
  BY BoardBegins
<1>2. BoardInv /\ [BoardNext]_board =>
        /\ [Drive!Next]_<<vg93.image.sectors, Job>>
        /\ [Plus3!Drive!Next]_<<Plus3!SectorsOf(fdc.disk), Plus3!Job>>
        /\ [DivMmc!Drive!Next]_<<DivMmc!Blocks(mmc.image), DivMmc!Job>>
        /\ [NextSd!Drive!Next]_<<NextSd!Blocks(sd.image), NextSd!Job>>
  <2> SUFFICES ASSUME BoardInv, [BoardNext]_board
               PROVE  /\ [Drive!Next]_<<vg93.image.sectors, Job>>
                      /\ [Plus3!Drive!Next]_<<Plus3!SectorsOf(fdc.disk), Plus3!Job>>
                      /\ [DivMmc!Drive!Next]_<<DivMmc!Blocks(mmc.image), DivMmc!Job>>
                      /\ [NextSd!Drive!Next]_<<NextSd!Blocks(sd.image), NextSd!Job>>
    OBVIOUS
  <2>1. BetaDrives /\ P3Drives /\ MmcDrives /\ SdDrives
    BY BoardStep
  <2> QED
    BY <2>1 DEF BetaDrives, P3Drives, MmcDrives, SdDrives
<1> QED
  BY <1>1, <1>2, BoardInvariance, PTL
     DEF BoardSpec, DrivesKeepTheirMedia, Drive!Spec, Plus3!Drive!Spec,
         DivMmc!Drive!Spec, NextSd!Drive!Spec

===============================================================================
