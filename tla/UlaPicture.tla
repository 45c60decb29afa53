------------------------------ MODULE UlaPicture ------------------------------
(* The picture of a 128-class machine.  It is drawn once, after the frame,    *)
(* from the two screen banks as they are then and from what the ULA has noted *)
(* on the way: the bytes that were overwritten behind the beam, the changes   *)
(* of the border and those of the bank that is shown.  `scan` is the picture  *)
(* of a beam that looks while the guest runs.                                 *)
EXTENDS Integers, Sequences, FiniteSetsExt

CONSTANTS
    FrameTStates, PaperStart, TLine,    \* when the frame ends, paper starts, a line ends
    Lines, LinesPerRow, Columns,        \* lines of the paper, of an attribute, cells of a line
    BorderTimes,                        \* when the border is looked at
    ScreenSwitchDelay,                  \* from OUT (#7FFD) to the switch
    WriteShapes, OutShapes, IdleTimes,  \* instructions: [at |-> access, len |-> length]
    Bytes,                              \* what a cell of a bank may hold
    Colours,
    Contents,                           \* what the banks start with or are loaded with
    MaxAccesses                         \* bounds the accesses from one frame's begin on

Banks == {5, 7}

Fetches ==
    {"bitmap", "attr"} \X (0 .. Lines - 1) \X (0 .. Columns - 1)

FetchTime(f) ==
    PaperStart + f[2] * TLine + (IF f[1] = "bitmap" THEN 3 ELSE 4) + 4 * f[3]

CellOf(f) ==
    IF f[1] = "bitmap" THEN f ELSE <<"attr", f[2] \div LinesPerRow, f[3]>>

Cells == {CellOf(f) : f \in Fetches}

BorderPoints == {<<"border", t>> : t \in BorderTimes}

Lengths == IdleTimes \cup {s.len : s \in WriteShapes \cup OutShapes}

(* An instruction that straddles the frame's end ends before the paper and    *)
(* the border that is looked at; a switch takes effect before the OUT ends.   *)
PictureConstants ==
    /\ FrameTStates \in Nat \ {0}
    /\ {PaperStart, TLine, ScreenSwitchDelay} \subseteq Nat
    /\ ScreenSwitchDelay =< PaperStart
    /\ {Lines, Columns} \subseteq Nat /\ BorderTimes \subseteq Nat
    /\ Contents \subseteq [Banks -> [Cells -> UNION {Bytes[b] : b \in Banks}]]
    /\ \A f \in Fetches : FetchTime(f) < FrameTStates
    /\ \A n \in Lengths : n \in 1 .. PaperStart
    /\ \A t \in BorderTimes : t < FrameTStates /\ \A n \in Lengths : n =< t
    /\ \A s \in WriteShapes : s.at \in 0 .. s.len - 1
    /\ \A s \in OutShapes : s.at \in 0 .. s.len - ScreenSwitchDelay - 1

VARIABLES
    banks,          \* the two screens
    port,           \* #7FFD: [screen |-> the bank it selects, locked]
    frame_t,
    pending_screen_switch,
    border,
    ula,
    phase,          \* seam, frame, drawn (the frame is complete) or inside (stopped in it)
    scan            \* [seen, whole, parted, accesses]

pictureVars ==
    <<banks, port, frame_t, pending_screen_switch, border, ula, phase, scan>>

-----------------------------------------------------------------------------
(* The ULA's notes.                                                           *)

Nothing == <<>>

Unmarked == [b \in Banks |-> Nothing]

(* Both functions; where both are defined, the first.                         *)
Joined(f, g) ==
    [x \in DOMAIN f \cup DOMAIN g |-> IF x \in DOMAIN f THEN f[x] ELSE g[x]]

NewUla ==
    [border_events |-> <<>>, screen_events |-> <<>>, display_screen_bank |-> 5,
     beam |-> Unmarked, beam_last_t |-> 0]

SetBorder(u, t, colour) ==
    [u EXCEPT !.border_events = Append(@, <<t, colour>>)]

SetDisplayScreenBank(u, t, bank) ==
    [u EXCEPT !.display_screen_bank = bank, !.screen_events = Append(@, <<t, bank>>)]

BeginFrame(u, colour) ==
    [u EXCEPT !.border_events = <<<<0, colour>>>>,
              !.screen_events = <<<<0, u.display_screen_bank>>>>,
              !.beam = Unmarked,
              !.beam_last_t = 0]

Passed(cell, t) == {f \in Fetches : CellOf(f) = cell /\ t > FetchTime(f)}

(* Mutated form of NoteWrite: the byte overwritten last is kept.              *)
NoteWriteLatest(shadow, cell, old, t) ==
    Joined([f \in Passed(cell, t) |-> old], shadow)

(* A byte goes into the shadow once, when it is first overwritten.            *)
NoteWrite(shadow, cell, old, t) ==
    Joined(shadow, [f \in Passed(cell, t) |-> old])

NoteScreenWrite(u, bank, cell, old, t) ==
    LET beam == IF t < u.beam_last_t THEN Unmarked ELSE u.beam
    IN  [u EXCEPT !.beam = [beam EXCEPT ![bank] = NoteWrite(@, cell, old, t)],
                  !.beam_last_t = t]

ActiveAt(events, latest, t) ==
    LET due == {i \in DOMAIN events : events[i][1] =< t}
    IN  IF events = <<>> THEN latest
        ELSE IF due = {} THEN events[1][2]
        ELSE events[Max(due)][2]

(* One byte or border point of the picture that render_rgba draws.            *)
Rendered(p) ==
    IF p[1] = "border" THEN ActiveAt(ula.border_events, border, p[2])
    ELSE LET bank == ActiveAt(ula.screen_events, ula.display_screen_bank, FetchTime(p))
         IN  IF p \in DOMAIN ula.beam[bank] THEN ula.beam[bank][p]
             ELSE banks[bank][CellOf(p)]

-----------------------------------------------------------------------------
(* What a guest can do to the picture in one instruction, at time t of the    *)
(* frame.  The switch that falls beyond the frame waits for the next one.     *)

WriteByte(t, bank, cell, byte) ==
    /\ byte # banks[bank][cell]
    /\ ula' = NoteScreenWrite(ula, bank, cell, banks[bank][cell], t)
    /\ banks' = [banks EXCEPT ![bank][cell] = byte]
    /\ UNCHANGED <<port, pending_screen_switch, border>>

OutBorder(t, colour) ==
    /\ border' = colour
    /\ ula' = SetBorder(ula, t, colour)
    /\ UNCHANGED <<banks, port, pending_screen_switch>>

ScheduleDisplayScreenBank(now, bank) ==
    LET t == now + ScreenSwitchDelay
    IN  IF t >= FrameTStates
        THEN /\ pending_screen_switch' = <<t - FrameTStates, bank>>
             /\ UNCHANGED ula
        ELSE /\ ula' = SetDisplayScreenBank(ula, t, bank)
             /\ UNCHANGED pending_screen_switch

SelectPage(now, value) ==
    /\ port' = value
    /\ IF value.screen # port.screen
       THEN ScheduleDisplayScreenBank(now, value.screen)
       ELSE UNCHANGED <<ula, pending_screen_switch>>

Out7ffd(t, value) ==
    /\ IF port.locked THEN UNCHANGED <<port, ula, pending_screen_switch>>
       ELSE SelectPage(t, value)
    /\ UNCHANGED <<banks, border>>

PortValues == [screen : Banks, locked : BOOLEAN]

WriteAccess(t) ==
    \E bank \in Banks, cell \in Cells :
        \E byte \in Bytes[bank] : WriteByte(t, bank, cell, byte)

OutAccess(t) ==
    \/ \E colour \in Colours : OutBorder(t, colour)
    \/ \E value \in PortValues : Out7ffd(t, value)

-----------------------------------------------------------------------------
(* The beam looks at everything it passes while an instruction of n T-states  *)
(* runs whose access is at time t; the switch follows it by the delay.        *)

SeenWhile(n, t) ==
    LET Now(time, before, after) == IF time < t THEN before ELSE after
        Shown(time) ==
            IF time < t + ScreenSwitchDelay THEN port.screen ELSE port'.screen
        Byte(f) ==
            LET bank == Shown(FetchTime(f))
            IN  Now(FetchTime(f), banks[bank][CellOf(f)], banks'[bank][CellOf(f)])
        Here(time) == frame_t =< time /\ time < frame_t + n
    IN  Joined([f \in {g \in Fetches : Here(FetchTime(g))} |-> Byte(f)],
               [p \in {q \in BorderPoints : Here(q[2])} |-> Now(p[2], border, border')])

(* The display will show the bank that the port selects.                      *)
Together(u, pending, value) ==
    value.screen = IF pending = Nothing THEN u.display_screen_bank ELSE pending[2]

(* A reset, and a step or a snapshot that overtakes a waiting switch, may     *)
(* leave the display with another bank than the port selects.                 *)
Parted(overtaken) ==
    ~Together(ula, pending_screen_switch, port)' /\ (scan.parted \/ overtaken)

Waiting == pending_screen_switch # Nothing

(* An instruction of n T-states with one access of the guest, at time t, or   *)
(* none.  The ULA is told the time modulo the frame.                          *)
Passes(n, t, accesses, overtaken) ==
    /\ scan.accesses + accesses =< MaxAccesses
    /\ scan' = [seen |-> Joined(SeenWhile(n, t), scan.seen),
                whole |-> scan.whole /\ (accesses = 1 => t < FrameTStates),
                parted |-> Parted(overtaken),
                accesses |-> scan.accesses + accesses]

UlaT(t) == t % FrameTStates

Instruction(n, overtaken) ==
    \/ /\ n \in IdleTimes
       /\ UNCHANGED <<banks, port, pending_screen_switch, border, ula>>
       /\ Passes(n, frame_t, 0, overtaken)
    \/ \E s \in WriteShapes :
           /\ s.len = n
           /\ WriteAccess(UlaT(frame_t + s.at))
           /\ Passes(n, frame_t + s.at, 1, overtaken)
    \/ \E s \in OutShapes :
           /\ s.len = n
           /\ OutAccess(UlaT(frame_t + s.at))
           /\ Passes(n, frame_t + s.at, 1, overtaken)

-----------------------------------------------------------------------------
PictureInit ==
    /\ banks \in Contents
    /\ port = [screen |-> 5, locked |-> FALSE]
    /\ frame_t = 0
    /\ pending_screen_switch = Nothing
    /\ border \in Colours
    /\ ula = NewUla
    /\ phase = "seam"
    /\ scan = [seen |-> Nothing, whole |-> FALSE, parted |-> FALSE, accesses |-> 0]

(* run_one_frame, up to its first instruction.                                *)
StartFrame ==
    /\ phase # "frame"
    /\ ula' = LET u == BeginFrame(ula, border)
              IN  IF Waiting
                  THEN SetDisplayScreenBank(u, pending_screen_switch[1], pending_screen_switch[2])
                  ELSE u
    /\ pending_screen_switch' = Nothing
    /\ phase' = "frame"
    /\ UNCHANGED <<banks, port, frame_t, border>>
    /\ scan' = [seen |-> Nothing, accesses |-> 0, parted |-> Parted(FALSE),
                whole |-> phase \in {"seam", "drawn"} /\ ~Parted(FALSE)]

RunInstruction ==
    /\ phase = "frame"
    /\ \E n \in Lengths :
           /\ Instruction(n, FALSE)
           /\ frame_t' = (frame_t + n) % FrameTStates
           /\ phase' = IF frame_t + n >= FrameTStates THEN "drawn" ELSE "frame"

(* A breakpoint ends the call in the middle of the frame.                     *)
Break ==
    /\ phase = "frame"
    /\ phase' = "inside"
    /\ UNCHANGED <<banks, port, frame_t, pending_screen_switch, border, ula, scan>>

StepOnce ==
    /\ phase # "frame"
    /\ \E n \in Lengths :
           /\ Instruction(n, Waiting)
           /\ frame_t' = (frame_t + n) % FrameTStates
    /\ phase' = "inside"

Reset ==
    /\ phase # "frame"
    /\ frame_t' = 0
    /\ port' = [screen |-> 5, locked |-> FALSE]
    /\ phase' = "seam"
    /\ UNCHANGED <<banks, pending_screen_switch, border, ula>>
    /\ scan' = [scan EXCEPT !.parted = Parted(TRUE)]

ApplySnapshot128 ==
    /\ phase # "frame"
    /\ banks' \in Contents
    /\ border' \in Colours
    /\ \E value \in PortValues : SelectPage(frame_t, value)
    /\ phase' = IF phase = "drawn" THEN "seam" ELSE phase
    /\ UNCHANGED frame_t
    /\ scan' = [scan EXCEPT !.parted = Parted(Waiting)]

PictureNext ==
    \/ StartFrame \/ RunInstruction \/ Break
    \/ StepOnce \/ Reset \/ ApplySnapshot128

PictureSpec == PictureInit /\ [][PictureNext]_pictureVars

-----------------------------------------------------------------------------
(* A frame that was run from its beginning to its end shows what the beam saw *)
(* on its way, every byte, attribute and border point of it: also a sprite    *)
(* that was erased and drawn again behind the beam, and a bank switched in    *)
(* the middle of a cell or across the frame's end (note_screen_write,         *)
(* border_at, display_screen_bank_at and apply_pending_screen_switch).  Two   *)
(* frames are left out: one whose last instruction has its access beyond the  *)
(* frame's end, and those for which the display has parted from the port.     *)
PictureIsWhatTheBeamSaw ==
    phase = "drawn" /\ scan.whole =>
        \A p \in DOMAIN scan.seen : scan.seen[p] = Rendered(p)

=============================================================================
