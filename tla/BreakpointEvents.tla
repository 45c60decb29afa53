-------------------------- MODULE BreakpointEvents --------------------------
(***************************************************************************)
(* The breakpoint event hub of the agent server and its WebSocket clients   *)
(* (crates/agent_server/src/routes/events.rs), over the stop journal of the *)
(* live session.                                                            *)
(*                                                                          *)
(* Three kinds of task interleave: host threads that run and replace the    *)
(* machine (the actions of StopJournal), the one monitor task that polls    *)
(* the journal, and one task per connected client.  A task observes the     *)
(* journal under the session lock, so an observation is one step; the       *)
(* hub's own mutex is held across several steps and is modelled (`holder`). *)
(***************************************************************************)
EXTENDS StopJournal, Sequences

CONSTANTS
    Clients,
    ChannelCap,   \* EVENT_CHANNEL_CAPACITY (32)
    Free,         \* nobody holds the hub's state mutex
    Monitor       \* the monitor task holds it

ASSUME HubAssumption ==
    /\ ChannelCap \in Nat \ {0}
    /\ Free \notin Clients
    /\ Monitor \notin Clients
    /\ Free # Monitor

VARIABLES
    sequence, lastSeen, lastEvent,  \* EventState; lastEvent.hit is last_event_id
    holder, pending, latestId,      \* its mutex, and the observation of its holder
    monitor,                        \* where the monitor task is
    unavailable,                    \* Unavailable was sent and no poll succeeded since
    conn,                           \* conn[c]: where the task of client c is
    queue,                          \* queue[c]: messages its receiver has not taken
    lastSeq,                        \* lastSeq[c]: last_sequence of watch_breakpoints
    \* History, read by the properties only:
    got,                            \* got[c]: stops delivered on this connection
    events,                         \* events[c]: messages sent on it after the snapshot
    base,                           \* base[c]: stops up to here predate the connection
    dropped,                        \* stops the machine let go of before the hub saw them
    numbered                        \* numbered[s]: the stop that got sequence s

hubVars == <<sequence, lastSeen, lastEvent, holder, pending, latestId>>
monitorVars == <<monitor, unavailable>>
clientVars == <<conn, queue, lastSeq, got, events, base>>
vars == <<journalVars, hubVars, monitorVars, clientVars, dropped, numbered>>

Event(s, h) == [seq |-> s, hit |-> h]
NoEvent == Event(0, 0)
Unavailable == Event(0, 0)   \* HubMessage::Unavailable: no stop has identity 0
Messages == [seq : 0 .. MaxHits, hit : 0 .. MaxHits]

Receivers == {c \in Clients : conn[c] \in {"observing", "open"}}

TypeOK ==
    /\ JournalTypeOK
    /\ sequence \in 0 .. MaxHits
    /\ lastSeen \in 0 .. MaxHits
    /\ lastEvent \in Messages
    /\ holder \in Clients \cup {Free, Monitor}
    /\ pending \subseteq HitIds
    /\ latestId \in 0 .. MaxHits
    /\ monitor \in {"stopped", "idle", "observe", "publish", "ok", "err"}
    /\ unavailable \in BOOLEAN
    /\ conn \in [Clients -> {"off", "observing", "open", "failed"}]
    /\ queue \in [Clients -> Seq(Messages)]
    /\ lastSeq \in [Clients -> 0 .. MaxHits]
    /\ got \in [Clients -> SUBSET HitIds]
    /\ events \in [Clients -> Nat]
    /\ base \in [Clients -> 0 .. MaxHits]
    /\ dropped \subseteq HitIds
    /\ numbered \in Seq(HitIds)

Init ==
    /\ JournalInit
    /\ sequence = 0
    /\ lastSeen = 0
    /\ lastEvent = NoEvent
    /\ holder = Free
    /\ pending = {}
    /\ latestId = 0
    /\ monitor = "stopped"
    /\ unavailable = FALSE
    /\ conn = [c \in Clients |-> "off"]
    /\ queue = [c \in Clients |-> <<>>]
    /\ lastSeq = [c \in Clients |-> 0]
    /\ got = [c \in Clients |-> {}]
    /\ events = [c \in Clients |-> 0]
    /\ base = [c \in Clients |-> 0]
    /\ dropped = {}
    /\ numbered = <<>>

-----------------------------------------------------------------------------

AtLeast(a, b) == IF a >= b THEN a ELSE b

(* The broadcast channel: every receiver gets the message.  A receiver with *)
(* more than ChannelCap messages unread has lost the oldest; nothing later  *)
(* matters to it, because its next recv() reports the loss.                 *)
Broadcast(m) ==
    queue' = [c \in Clients |->
                 IF c \in Receivers /\ Len(queue[c]) <= ChannelCap
                 THEN Append(queue[c], m)
                 ELSE queue[c]]

(* Give the next sequence to stop h. *)
Number(h) ==
    /\ sequence' = sequence + 1
    /\ lastEvent' = Event(sequence', h)
    /\ numbered' = Append(numbered, h)

(* One iteration of the loop in observe_locked. *)
Publish ==
    /\ holder # Free
    /\ \E h \in Oldest(pending) :
          /\ Number(h)
          /\ lastSeen' = h
          /\ pending' = pending \ {h}
          /\ Broadcast(lastEvent')
    /\ UNCHANGED <<journalVars, holder, latestId, monitorVars, conn, lastSeq,
                   got, events, base, dropped>>

(* The observation observe_locked starts with, by task t. *)
ObserveLocked(t) ==
    /\ holder' = t
    /\ pending' = Recent(lastSeen)
    /\ latestId' = Latest
    /\ UNCHANGED <<sequence, lastSeen, lastEvent>>

-----------------------------------------------------------------------------
(* The monitor task: start_monitor. *)

Tick ==
    /\ monitor = "idle"
    /\ Receivers # {}
    /\ monitor' = "observe"
    /\ UNCHANGED <<journalVars, hubVars, unavailable, clientVars, dropped, numbered>>

MonitorObserves ==
    /\ monitor = "observe"
    /\ holder = Free
    /\ up
    /\ ObserveLocked(Monitor)
    /\ monitor' = "publish"
    /\ UNCHANGED <<journalVars, unavailable, clientVars, dropped, numbered>>

MonitorFindsNoMachine ==
    /\ monitor = "observe"
    /\ holder = Free
    /\ ~up
    /\ monitor' = "err"
    /\ UNCHANGED <<journalVars, hubVars, unavailable, clientVars, dropped, numbered>>

(* Mutated form of MonitorUnlocks: the cursor jumps to the latest stop at   *)
(* the end of the poll, not to the latest one the poll observed.            *)
MonitorUnlocksAtLatest ==
    /\ monitor = "publish"
    /\ pending = {}
    /\ lastSeen' = AtLeast(lastSeen, Latest)
    /\ holder' = Free
    /\ latestId' = 0
    /\ monitor' = "ok"
    /\ UNCHANGED <<journalVars, sequence, lastEvent, pending, unavailable,
                   clientVars, dropped, numbered>>

MonitorUnlocks ==
    /\ monitor = "publish"
    /\ pending = {}
    /\ lastSeen' = AtLeast(lastSeen, latestId)
    /\ holder' = Free
    /\ latestId' = 0
    /\ monitor' = "ok"
    /\ UNCHANGED <<journalVars, sequence, lastEvent, pending, unavailable,
                   clientVars, dropped, numbered>>

PollSucceeded ==
    /\ monitor = "ok"
    /\ monitor' = "idle"
    /\ unavailable' = FALSE
    /\ UNCHANGED <<journalVars, hubVars, clientVars, dropped, numbered>>

PollFailed ==
    /\ monitor = "err"
    /\ monitor' = "idle"
    /\ unavailable' = TRUE
    /\ IF unavailable THEN UNCHANGED queue ELSE Broadcast(Unavailable)
    /\ UNCHANGED <<journalVars, hubVars, conn, lastSeq, got, events, base,
                   dropped, numbered>>

-----------------------------------------------------------------------------
(* The client tasks: subscribe and watch_breakpoints. *)

(* Mutated form of StartMonitor: nobody starts the task. *)
NoMonitor == monitor' = monitor

StartMonitor == monitor' = IF monitor = "stopped" THEN "idle" ELSE monitor

Disconnect(c, how) ==
    /\ conn' = [conn EXCEPT ![c] = how]
    /\ queue' = [queue EXCEPT ![c] = <<>>]
    /\ lastSeq' = [lastSeq EXCEPT ![c] = 0]
    /\ got' = [got EXCEPT ![c] = {}]
    /\ events' = [events EXCEPT ![c] = 0]
    /\ base' = [base EXCEPT ![c] = 0]

(* The stream of c opens, with the snapshot of a stop when there is one. *)
OpenWith(c, snapshot, after) ==
    /\ conn' = [conn EXCEPT ![c] = "open"]
    /\ lastSeq' = [lastSeq EXCEPT ![c] = snapshot.seq]
    /\ got' = [got EXCEPT ![c] = IF snapshot.hit = 0 THEN {} ELSE {snapshot.hit}]
    /\ events' = [events EXCEPT ![c] = 0]
    /\ base' = [base EXCEPT ![c] = AtLeast(after, snapshot.hit)]

(* Mutated form of SubscribeFirst: the backlog is not skipped. *)
SubscribeFirstKeepsBacklog(c) ==
    /\ conn[c] \in {"off", "failed"}
    /\ holder = Free
    /\ Receivers = {}
    /\ up
    /\ IF active # 0 /\ active # lastEvent.hit
       THEN Number(active)
       ELSE UNCHANGED <<sequence, lastEvent, numbered>>
    /\ OpenWith(c, IF active # 0 THEN lastEvent' ELSE NoEvent, lastSeen)
    /\ StartMonitor
    /\ UNCHANGED <<journalVars, holder, lastSeen, pending, latestId, unavailable, queue,
                   dropped>>

(* subscribe, for the first connection: what happened while nobody was      *)
(* connected is skipped, and only the stop the machine is paused at now is  *)
(* shown, under its old sequence when it already has one.                   *)
SubscribeFirst(c) ==
    /\ conn[c] \in {"off", "failed"}
    /\ holder = Free
    /\ Receivers = {}
    /\ up
    /\ lastSeen' = AtLeast(lastSeen, Latest)
    /\ IF active # 0 /\ active # lastEvent.hit
       THEN Number(active)
       ELSE UNCHANGED <<sequence, lastEvent, numbered>>
    /\ OpenWith(c, IF active # 0 THEN lastEvent' ELSE NoEvent, lastSeen')
    /\ StartMonitor
    /\ UNCHANGED <<journalVars, holder, pending, latestId, unavailable, queue, dropped>>

(* subscribe, for a further connection: its receiver exists before the hub  *)
(* publishes what it had not seen yet, with the mutex held from here on.    *)
SubscribeNext(c) ==
    /\ conn[c] \in {"off", "failed"}
    /\ holder = Free
    /\ Receivers # {}
    /\ up
    /\ ObserveLocked(c)
    /\ conn' = [conn EXCEPT ![c] = "observing"]
    /\ base' = [base EXCEPT ![c] = lastSeen]
    /\ UNCHANGED <<journalVars, monitorVars, queue, lastSeq, got, events, dropped,
                   numbered>>

(* Its second observation decides the snapshot. *)
SubscribeSnapshot(c) ==
    /\ holder = c
    /\ pending = {}
    /\ up
    /\ lastSeen' = AtLeast(lastSeen, latestId)
    /\ holder' = Free
    /\ latestId' = 0
    /\ OpenWith(c, IF active # 0 /\ active = lastEvent.hit THEN lastEvent ELSE NoEvent,
                base[c])
    /\ StartMonitor
    /\ UNCHANGED <<journalVars, sequence, lastEvent, pending, unavailable, queue,
                   dropped, numbered>>

(* No classic machine at the first observation, or at the second. *)
SubscribeRefused(c) ==
    /\ conn[c] \in {"off", "failed"}
    /\ holder = Free
    /\ ~up
    /\ Disconnect(c, "failed")
    /\ UNCHANGED <<journalVars, hubVars, monitorVars, dropped, numbered>>

SubscribeAborted(c) ==
    /\ holder = c
    /\ pending = {}
    /\ ~up
    /\ lastSeen' = AtLeast(lastSeen, latestId)
    /\ holder' = Free
    /\ latestId' = 0
    /\ Disconnect(c, "failed")
    /\ UNCHANGED <<journalVars, sequence, lastEvent, pending, monitorVars, dropped, numbered>>

(* Mutated form of ReceiveAndFail: only a lag ends the connection. *)
ReceiveAndFailOnLag(c) ==
    /\ conn[c] = "open"
    /\ queue[c] # <<>>
    /\ Len(queue[c]) > ChannelCap
    /\ Disconnect(c, "failed")
    /\ UNCHANGED <<journalVars, hubVars, monitorVars, dropped, numbered>>

(* The receiver fell more than ChannelCap messages behind, or the next      *)
(* message is Unavailable: close with code 1011.                            *)
ReceiveAndFail(c) ==
    /\ conn[c] = "open"
    /\ queue[c] # <<>>
    /\ Len(queue[c]) > ChannelCap \/ Head(queue[c]) = Unavailable
    /\ Disconnect(c, "failed")
    /\ UNCHANGED <<journalVars, hubVars, monitorVars, dropped, numbered>>

(* Mutated form of ReceiveEvent: no filter against the snapshot. *)
ReceiveEventUnfiltered(c) ==
    /\ conn[c] = "open"
    /\ queue[c] # <<>>
    /\ Len(queue[c]) <= ChannelCap
    /\ Head(queue[c]) # Unavailable
    /\ queue' = [queue EXCEPT ![c] = Tail(@)]
    /\ lastSeq' = [lastSeq EXCEPT ![c] = Head(queue[c]).seq]
    /\ got' = [got EXCEPT ![c] = @ \cup {Head(queue[c]).hit}]
    /\ events' = [events EXCEPT ![c] = @ + 1]
    /\ UNCHANGED <<journalVars, hubVars, monitorVars, conn, base, dropped, numbered>>

ReceiveEvent(c) ==
    /\ conn[c] = "open"
    /\ queue[c] # <<>>
    /\ Len(queue[c]) <= ChannelCap
    /\ Head(queue[c]) # Unavailable
    /\ queue' = [queue EXCEPT ![c] = Tail(@)]
    /\ LET event == Head(queue[c]) IN
          IF event.seq > lastSeq[c]
          THEN /\ lastSeq' = [lastSeq EXCEPT ![c] = event.seq]
               /\ got' = [got EXCEPT ![c] = @ \cup {event.hit}]
               /\ events' = [events EXCEPT ![c] = @ + 1]
          ELSE UNCHANGED <<lastSeq, got, events>>
    /\ UNCHANGED <<journalVars, hubVars, monitorVars, conn, base, dropped, numbered>>

(* The client closes its socket, or sending to it fails. *)
Leave(c) ==
    /\ conn[c] = "open"
    /\ Disconnect(c, "off")
    /\ UNCHANGED <<journalVars, hubVars, monitorVars, dropped, numbered>>

-----------------------------------------------------------------------------

(* A step of the machine.  What it lets go of unseen is lost to the hub. *)
MachineStep ==
    /\ JournalNext
    /\ dropped' = dropped \cup {h \in retained \ retained' : h > lastSeen /\ h \notin pending}
    /\ UNCHANGED <<hubVars, monitorVars, clientVars, numbered>>

MonitorStep ==
    Tick \/ MonitorObserves \/ MonitorFindsNoMachine \/ MonitorUnlocks
    \/ PollSucceeded \/ PollFailed

Subscribe(c) ==
    SubscribeFirst(c) \/ SubscribeNext(c) \/ SubscribeRefused(c)

Subscribed(c) == SubscribeSnapshot(c) \/ SubscribeAborted(c)

Receive(c) == ReceiveAndFail(c) \/ ReceiveEvent(c)

Next ==
    \/ MachineStep
    \/ MonitorStep
    \/ Publish
    \/ \E c \in Clients : Subscribe(c) \/ Subscribed(c) \/ Receive(c) \/ Leave(c)

Spec == Init /\ [][Next]_vars

(* The interval of the monitor ticks for ever, a task that holds the mutex  *)
(* runs on, and an executor polls a client whose receiver has a message.    *)
Fairness ==
    /\ WF_vars(MonitorStep)
    /\ WF_vars(Publish)
    /\ \A c \in Clients : WF_vars(Subscribed(c)) /\ WF_vars(Receive(c))

FairSpec == Spec /\ Fairness

-----------------------------------------------------------------------------
(* Properties.                                                              *)

Names(event) ==
    /\ event.seq \in 1 .. sequence
    /\ numbered[event.seq] = event.hit

(* A sequence names one stop, later stops have later sequences, and every   *)
(* event on its way to a client, live or kept for a snapshot, carries the   *)
(* sequence of the stop it describes: across reconnects, several clients    *)
(* and replaced machines (EventState in events.rs, ids in debugger.rs).     *)
SequenceNamesOneStop ==
    /\ sequence = Len(numbered)
    /\ \A i, j \in 1 .. sequence : i < j => numbered[i] < numbered[j]
    /\ lastEvent # NoEvent => Names(lastEvent)
    /\ \A c \in Clients : \A i \in 1 .. Len(queue[c]) :
          queue[c][i] # Unavailable => Names(queue[c][i])

InQueue(c, h) == \E i \in 1 .. Len(queue[c]) : queue[c][i].hit = h

(* The hub skips no stop silently: what the cursor last_seen_id has passed  *)
(* since a connection opened was delivered on it, waits in its receiver, or *)
(* was lost by the machine before any poll; or the receiver has lagged and  *)
(* its connection is about to be closed (observe_locked, watch_breakpoints).*)
NoSilentGap ==
    \A c \in Clients : conn[c] = "open" =>
        \A h \in 1 .. lastSeen :
            \/ h <= base[c]
            \/ h \in got[c] \cup dropped
            \/ InQueue(c, h)
            \/ Len(queue[c]) > ChannelCap

(* The stream a client sees is the one the documentation promises: in       *)
(* order, without duplicates, without stops that never were.                *)
Stream == INSTANCE BreakpointStream
              WITH issued <- hitId,
                   live <- [c \in Clients |-> conn[c] = "open"]

ImplementsStream == Stream!Spec

(* Every stop made while a client is connected reaches it, unless its       *)
(* connection ends or the machine loses the stop before a poll.             *)
EveryStopIsTold ==
    \A c \in Clients, h \in HitIds :
        (conn[c] = "open" /\ h <= hitId /\ h > base[c])
            ~> (h \in got[c] \cup dropped \/ conn[c] # "open")

(* A client is told when the machine goes away for good, provided the hub   *)
(* has polled a machine since it last said so (`unavailable` is clear).     *)
FirstLossCloses ==
    \A c \in Clients :
        (conn[c] = "open" /\ ~up /\ ~unavailable) ~> (conn[c] # "open" \/ up)

(* docs/AGENT_DEBUG_API.md: "If the shared debugger state becomes           *)
(* unavailable [...] the server closes the WebSocket with code 1011".       *)
EveryLossCloses ==
    \A c \in Clients : (conn[c] = "open" /\ ~up) ~> (conn[c] # "open" \/ up)

=============================================================================
