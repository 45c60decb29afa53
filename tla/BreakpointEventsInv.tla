------------------------- MODULE BreakpointEventsInv -------------------------
(***************************************************************************)
(* The inductive invariant of BreakpointEvents, in named parts, from which  *)
(* BreakpointEvents_proofs derives its theorems; TLC checks it too.         *)
(***************************************************************************)
EXTENDS BreakpointEvents

(* Retained stops reach up to the last identity; a current stop is it. *)
JournalInv ==
    /\ RetainedIsSuffix
    /\ ActiveIsNewest

(* What the hub has seen, is publishing and has published, in that order,   *)
(* does not run ahead of the machine.                                       *)
CursorInv ==
    /\ lastEvent.hit <= lastSeen
    /\ lastSeen <= hitId
    /\ latestId <= hitId
    /\ \A h \in pending : lastSeen < h /\ h <= hitId
    /\ holder = Free => pending = {}

(* `numbered` is the increasing list of published stops, lastEvent its end. *)
NumberInv ==
    /\ sequence = Len(numbered)
    /\ sequence <= lastEvent.hit
    /\ lastEvent.seq = sequence
    /\ lastEvent.hit = (IF sequence = 0 THEN 0 ELSE numbered[sequence])
    /\ \A i, j \in 1 .. sequence : i < j => numbered[i] < numbered[j]

(* Messages on their way carry the number of their stop. *)
QueueInv ==
    \A c \in Clients : \A i \in 1 .. Len(queue[c]) :
        queue[c][i] # Unavailable => Names(queue[c][i])

(* What a connection delivered has numbers up to its last sequence. *)
DeliveryInv ==
    \A c \in Clients :
        /\ lastSeq[c] <= sequence
        /\ \A g \in got[c] : \E s \in 1 .. lastSeq[c] : numbered[s] = g
        /\ conn[c] # "open" => got[c] = {} /\ events[c] = 0

(* A client that holds the mutex is in the middle of subscribing. *)
HolderInv ==
    \A c \in Clients : holder = c => conn[c] = "observing"

IInv == TypeOK /\ JournalInv /\ CursorInv /\ NumberInv /\ QueueInv /\ DeliveryInv

(* A stop that the cursor has not passed is retained, about to be published *)
(* or lost; and those up to the latest one of the observation in progress   *)
(* are not merely retained.                                                 *)
SeenInv ==
    /\ \A h \in 1 .. hitId : lastSeen < h => h \in retained \cup pending \cup dropped
    /\ \A h \in 1 .. latestId : lastSeen < h => h \in pending \cup dropped
    /\ \A h \in pending : h <= latestId

(* Events wait in the order of their sequences, and those that the filter   *)
(* of ReceiveEvent will drop were shown, or skipped, by the snapshot.       *)
Ordered(c) ==
    /\ \A i, j \in 1 .. Len(queue[c]) :
          i < j /\ queue[c][i] # Unavailable /\ queue[c][j] # Unavailable
              => queue[c][i].seq < queue[c][j].seq
    /\ \A i \in 1 .. Len(queue[c]) :
          queue[c][i] # Unavailable /\ queue[c][i].seq <= lastSeq[c]
              => queue[c][i].hit <= base[c]
    /\ conn[c] # "open" => lastSeq[c] = 0

OrderInv == \A c \in Clients : Ordered(c)

(* NoSilentGap, also of a client whose receiver exists and whose snapshot   *)
(* is still to come.                                                        *)
Told(c, h) ==
    \/ h <= base[c]
    \/ h \in got[c] \cup dropped
    \/ InQueue(c, h)
    \/ Len(queue[c]) > ChannelCap

ToldInv == \A c \in Receivers : \A h \in 1 .. lastSeen : Told(c, h)

GapInv == SeenInv /\ OrderInv /\ ToldInv

=============================================================================
