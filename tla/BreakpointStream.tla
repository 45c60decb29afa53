-------------------------- MODULE BreakpointStream --------------------------
(***************************************************************************)
(* The breakpoint event stream as docs/AGENT_DEBUG_API.md promises it to a  *)
(* WebSocket client: on one connection every stop arrives at most once and  *)
(* in the order the machine made the stops, and nothing arrives that the    *)
(* machine did not record.  The stream of the code, BreakpointEvents, is    *)
(* shown to implement this one.                                             *)
(***************************************************************************)
EXTENDS Naturals

CONSTANTS Clients, MaxHits

VARIABLES
    issued,   \* stops recorded so far: identities 1 .. issued
    live,     \* live[c]: the connection of client c is open
    got,      \* got[c]: stops delivered on the connection of c
    events    \* events[c]: messages delivered on it after the snapshot

vars == <<issued, live, got, events>>

Init ==
    /\ issued = 0
    /\ live = [c \in Clients |-> FALSE]
    /\ got = [c \in Clients |-> {}]
    /\ events = [c \in Clients |-> 0]

Stop ==
    /\ issued < MaxHits
    /\ issued' = issued + 1
    /\ UNCHANGED <<live, got, events>>

(* A connection opens with a snapshot of one stop, or with none. *)
Open(c) ==
    /\ ~live[c]
    /\ live' = [live EXCEPT ![c] = TRUE]
    /\ \E snapshot \in {{}} \cup {{h} : h \in 1 .. issued} :
          got' = [got EXCEPT ![c] = snapshot]
    /\ events' = [events EXCEPT ![c] = 0]
    /\ UNCHANGED issued

Deliver(c) ==
    /\ live[c]
    /\ events' = [events EXCEPT ![c] = @ + 1]
    /\ \E h \in 1 .. issued :
          /\ \A g \in got[c] : g < h
          /\ got' = [got EXCEPT ![c] = @ \cup {h}]
    /\ UNCHANGED <<issued, live>>

Close(c) ==
    /\ live[c]
    /\ live' = [live EXCEPT ![c] = FALSE]
    /\ got' = [got EXCEPT ![c] = {}]
    /\ events' = [events EXCEPT ![c] = 0]
    /\ UNCHANGED issued

Next == Stop \/ \E c \in Clients : Open(c) \/ Deliver(c) \/ Close(c)

Spec == Init /\ [][Next]_vars

=============================================================================
