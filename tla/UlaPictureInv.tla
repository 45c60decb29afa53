---------------------------- MODULE UlaPictureInv -----------------------------
(* The inductive invariant of UlaPicture: what the ULA has noted is, up to    *)
(* the beam, what the beam saw, and says nothing about what is ahead of it.   *)
EXTENDS UlaPicture

(* Event m is the one in force at time t.                                    *)
LatestDue(events, t, m) ==
    /\ m \in 1 .. Len(events)
    /\ events[m][1] =< t
    /\ \A j \in 1 .. Len(events) : events[j][1] =< t => j =< m

(* At any time some event is the latest one.                                 *)
AlwaysDue(events) ==
    \A t \in Nat : \E m \in 1 .. Len(events) : LatestDue(events, t, m)

(* At time t all of them are past, and the last one has set the value.       *)
Settled(events, value, t) ==
    /\ Len(events) > 0
    /\ events[Len(events)][2] = value
    /\ \A i \in 1 .. Len(events) : events[i][1] =< t

(* Sequences of pairs that begin with a time.                                *)
Timed(events) ==
    /\ Len(events) \in Nat
    /\ DOMAIN events = 1 .. Len(events)
    /\ \A i \in 1 .. Len(events) : events[i][1] \in Nat

-----------------------------------------------------------------------------
(* The invariant of the picture.                                             *)

UlaTypes ==
    /\ banks \in [Banks -> [Cells -> UNION {Bytes[b] : b \in Banks}]]
    /\ port \in PortValues
    /\ pending_screen_switch \in {Nothing} \cup ((0 .. PaperStart) \X Banks)
    /\ border \in Colours
    /\ ula = [border_events |-> ula.border_events, screen_events |-> ula.screen_events,
              display_screen_bank |-> ula.display_screen_bank,
              beam |-> ula.beam, beam_last_t |-> ula.beam_last_t]
    /\ ula.border_events \in Seq(Nat \X Colours)
    /\ ula.screen_events \in Seq(Nat \X Banks)
    /\ ula.display_screen_bank \in Banks
    /\ ula.beam = [b \in Banks |-> ula.beam[b]]
    /\ ula.beam_last_t \in Nat

PictureTypes ==
    /\ UlaTypes
    /\ frame_t \in 0 .. FrameTStates - 1
    /\ phase \in {"seam", "frame", "drawn", "inside"}
    /\ scan = [seen |-> scan.seen, whole |-> scan.whole, parted |-> scan.parted,
               accesses |-> scan.accesses]
    /\ scan.whole \in BOOLEAN /\ scan.parted \in BOOLEAN

(* The display and the port have parted only where `parted` says so.         *)
PartedInv == scan.parted \/ Together(ula, pending_screen_switch, port)

(* What the ULA has noted when the beam is at time T of a frame: nothing     *)
(* about what is ahead of the beam.                                          *)
NotesAt(T) ==
    /\ ula.beam_last_t =< T
    /\ \A b \in Banks : \A f \in DOMAIN ula.beam[b] : f \in Fetches /\ FetchTime(f) < T
    /\ AlwaysDue(ula.border_events)
    /\ AlwaysDue(ula.screen_events)
    /\ Settled(ula.border_events, border, T)
    /\ \A f \in Fetches : FetchTime(f) >= T =>
          Settled(ula.screen_events, ula.display_screen_bank, FetchTime(f))

(* The beam has seen what will be rendered, and nothing from time T on.      *)
SeenAt(T) ==
    \A p \in DOMAIN scan.seen :
        /\ \/ p \in Fetches /\ FetchTime(p) < T
           \/ p \in BorderPoints /\ p[2] < T
        /\ scan.seen[p] = Rendered(p)

FrameInv ==
    /\ phase = "frame" => pending_screen_switch = Nothing
    /\ phase = "frame" /\ scan.whole =>
         /\ port.screen = ula.display_screen_bank
         /\ NotesAt(frame_t)
         /\ SeenAt(frame_t)
    /\ phase = "drawn" /\ scan.whole => SeenAt(FrameTStates)

PictureInv == PictureTypes /\ PartedInv /\ FrameInv

===============================================================================
