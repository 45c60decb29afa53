----------------------- MODULE BreakpointEvents_proofs -----------------------
(***************************************************************************)
(* Proofs about the breakpoint event hub, for any number of clients, any    *)
(* history and any channel capacity: its sequences, that it implements the  *)
(* stream its documentation promises, and that it skips no stop.            *)
(***************************************************************************)
EXTENDS BreakpointEventsInv, TLAPS

(* The newest of the retained stops is the last one recorded. *)
LEMMA NewestRetained ==
    ASSUME JournalTypeOK, RetainedIsSuffix, retained # {}
    PROVE  Newest(retained) = hitId
  <1>1. hitId \in retained
    BY DEF RetainedIsSuffix
  <1>2. \A g \in retained : g <= hitId
    BY DEF JournalTypeOK
  <1>3. \A h \in retained : (\A g \in retained : g <= h) => h = hitId
    BY <1>1, <1>2 DEF JournalTypeOK
  <1> QED
    BY <1>1, <1>2, <1>3, Zenon DEF Newest

(* An observation never runs ahead of the machine. *)
LEMMA LatestBound ==
    ASSUME JournalTypeOK, RetainedIsSuffix
    PROVE  /\ Latest \in 0 .. MaxHits
           /\ Latest <= hitId
  BY NewestRetained, JournalAssumption DEF Latest, JournalTypeOK

-----------------------------------------------------------------------------
(* The journal on its own. *)

LEMMA JournalInitInv ==
    ASSUME JournalInit
    PROVE  JournalTypeOK /\ JournalInv
  <1>1. JournalTypeOK
    <2>1. up \in BOOLEAN
      BY DEF JournalInit
    <2>2. hitId \in 0 .. MaxHits /\ active \in 0 .. hitId
      BY JournalAssumption DEF JournalInit
    <2>3. retained \subseteq 1 .. hitId
      BY DEF JournalInit
    <2> QED
      BY <2>1, <2>2, <2>3 DEF JournalTypeOK
  <1>2. RetainedIsSuffix
    BY DEF JournalInit, RetainedIsSuffix
  <1>3. ActiveIsNewest
    BY DEF JournalInit, ActiveIsNewest
  <1> QED
    BY <1>1, <1>2, <1>3 DEF JournalInv

LEMMA HitKeeps ==
    ASSUME JournalTypeOK, JournalInv, Hit
    PROVE  JournalTypeOK' /\ JournalInv' /\ hitId <= hitId'
  <1>1. hitId' = hitId + 1 /\ hitId \in Nat /\ hitId' \in 0 .. MaxHits
    BY JournalAssumption DEF Hit, JournalTypeOK
  <1>2. PICK gone \in {{}, Oldest(retained)} : retained' = (retained \ gone) \cup {hitId'}
    BY DEF Hit
  <1>3. JournalTypeOK'
    <2>1. up' \in BOOLEAN
      BY DEF Hit, JournalTypeOK
    <2>2. active' \in 0 .. hitId'
      BY <1>1 DEF Hit
    <2>3. ASSUME NEW h \in retained' PROVE h \in 1 .. hitId'
      <3>1. CASE h = hitId'
        BY <1>1, <3>1
      <3>2. CASE h \in retained
        BY <1>1, <3>2 DEF JournalTypeOK
      <3> QED
        BY <1>2, <3>1, <3>2
    <2> QED
      BY <1>1, <2>1, <2>2, <2>3 DEF JournalTypeOK
  <1>4. RetainedIsSuffix'
    <2>1. ASSUME NEW h \in retained', NEW g \in h .. hitId'
          PROVE  g \in retained'
      <3>1. CASE g = hitId'
        BY <3>1, <1>2
      <3>2. CASE g # hitId'
        <4>1. h \in retained /\ h \notin gone /\ g \in h .. hitId
          BY <1>1, <1>2, <3>2 DEF JournalTypeOK
        <4>2. g \in retained
          BY <4>1 DEF JournalInv, RetainedIsSuffix
        <4>3. g \notin gone
          BY <1>2, <4>1, <4>2 DEF Oldest, JournalTypeOK
        <4> QED
          BY <1>2, <4>2, <4>3
      <3> QED
        BY <3>1, <3>2
    <2> QED
      BY <1>2, <2>1 DEF RetainedIsSuffix
  <1>5. ActiveIsNewest'
    BY <1>2 DEF Hit, ActiveIsNewest
  <1> QED
    BY <1>1, <1>3, <1>4, <1>5 DEF JournalInv

LEMMA JournalStepKeeps ==
    ASSUME JournalTypeOK, JournalInv, JournalNext
    PROVE  JournalTypeOK' /\ JournalInv' /\ hitId <= hitId'
  <1>0. hitId \in Nat
    BY DEF JournalTypeOK
  <1>1. CASE Hit
    BY <1>1, HitKeeps
  <1>2. CASE Deactivate
    BY <1>0, <1>2
    DEF Deactivate, JournalTypeOK, JournalInv, RetainedIsSuffix, ActiveIsNewest
  <1>3. CASE Reactivate
    BY <1>0, <1>3, NewestRetained
    DEF Reactivate, JournalTypeOK, JournalInv, RetainedIsSuffix, ActiveIsNewest
  <1>4. CASE Install \/ Unload
    <2>1. retained' = {} /\ active' = 0 /\ hitId' = hitId
      BY <1>4 DEF Install, Unload
    <2>2. up' \in BOOLEAN
      BY <1>4 DEF Install, Unload
    <2>3. JournalTypeOK'
      BY <1>0, <2>1, <2>2 DEF JournalTypeOK
    <2>4. JournalInv'
      BY <2>1 DEF JournalInv, RetainedIsSuffix, ActiveIsNewest
    <2> QED
      BY <1>0, <2>1, <2>3, <2>4
  <1> QED
    BY <1>1, <1>2, <1>3, <1>4 DEF JournalNext

-----------------------------------------------------------------------------
(* The operators the hub's actions are built from. *)

LEMMA HitIdRange ==
    ASSUME TypeOK
    PROVE  /\ MaxHits \in Nat
           /\ hitId \in Nat /\ hitId <= MaxHits
           /\ lastEvent.seq \in 0 .. MaxHits
           /\ lastEvent.hit \in 0 .. MaxHits
  BY JournalAssumption DEF TypeOK, JournalTypeOK, Messages

(* A number given to a stop later than every published one extends the      *)
(* numbering; the numbers given before stay what they are.                  *)
LEMMA NumberKeeps ==
    ASSUME TypeOK, NumberInv, NEW h \in HitIds, lastEvent.hit < h, Number(h)
    PROVE  /\ sequence' \in 0 .. MaxHits
           /\ lastEvent' \in Messages
           /\ lastEvent'.hit = h
           /\ numbered' \in Seq(HitIds)
           /\ NumberInv'
           /\ sequence <= sequence'
           /\ \A s \in 1 .. sequence : numbered'[s] = numbered[s]
           /\ Names(lastEvent)'
  <1>1. /\ sequence \in Nat /\ sequence = Len(numbered) /\ sequence <= lastEvent.hit
        /\ numbered \in Seq(HitIds) /\ MaxHits \in Nat /\ lastEvent.hit \in Nat
    BY HitIdRange, JournalAssumption DEF TypeOK, NumberInv
  <1>2. sequence' = sequence + 1 /\ numbered' = Append(numbered, h)
    BY DEF Number
  <1>3. lastEvent' = [seq |-> sequence + 1, hit |-> h]
    BY <1>2 DEF Number, Event
  <1>4. sequence' \in 0 .. MaxHits
    BY <1>1, <1>2 DEF HitIds
  <1>5. lastEvent' \in Messages
    BY <1>1, <1>2, <1>3, <1>4 DEF Messages, HitIds
  <1>6. /\ numbered' \in Seq(HitIds)
        /\ Len(numbered') = sequence'
        /\ numbered'[sequence'] = h
        /\ \A s \in 1 .. sequence : numbered'[s] = numbered[s]
    BY <1>1, <1>2
  <1>7. \A s \in 1 .. sequence : numbered[s] < h
    <2> SUFFICES ASSUME NEW s \in 1 .. sequence
                 PROVE  numbered[s] < h
      OBVIOUS
    <2>1. numbered[s] \in Nat /\ numbered[sequence] \in Nat
      BY <1>1 DEF HitIds
    <2>2. numbered[s] <= numbered[sequence]
      BY <1>1, <2>1 DEF NumberInv
    <2>3. numbered[sequence] = lastEvent.hit
      BY <1>1 DEF NumberInv
    <2> QED
      BY <1>1, <2>1, <2>2, <2>3 DEF HitIds
  <1>8. NumberInv'
    <2>1. \A i, j \in 1 .. sequence' : i < j => numbered'[i] < numbered'[j]
      BY <1>1, <1>2, <1>6, <1>7 DEF NumberInv
    <2>2. sequence' <= h
      BY <1>1, <1>2 DEF HitIds
    <2> QED
      BY <1>1, <1>2, <1>3, <1>6, <2>1, <2>2 DEF NumberInv
  <1>9. Names(lastEvent)'
    BY <1>1, <1>2, <1>3, <1>6 DEF Names
  <1> QED
    BY <1>1, <1>2, <1>3, <1>4, <1>5, <1>6, <1>8, <1>9

(* What is in a receiver after a broadcast was there before or is new. *)
LEMMA BroadcastKeeps ==
    ASSUME TypeOK, NEW m \in Messages, Broadcast(m)
    PROVE  /\ queue' \in [Clients -> Seq(Messages)]
           /\ \A c \in Clients : \A i \in 1 .. Len(queue'[c]) :
                 \/ queue'[c][i] = m
                 \/ i \in 1 .. Len(queue[c]) /\ queue'[c][i] = queue[c][i]
  <1>1. queue \in [Clients -> Seq(Messages)]
    BY DEF TypeOK
  <1>2. ASSUME NEW c \in Clients
        PROVE  queue'[c] = queue[c] \/ queue'[c] = Append(queue[c], m)
    BY DEF Broadcast
  <1>3. DOMAIN queue' = Clients /\ queue' = [c \in Clients |-> queue'[c]]
    BY DEF Broadcast
  <1>4. ASSUME NEW c \in Clients
        PROVE  queue'[c] \in Seq(Messages)
    <2>1. queue[c] \in Seq(Messages)
      BY <1>1
    <2>2. Append(queue[c], m) \in Seq(Messages)
      BY <2>1
    <2> QED
      BY <1>2, <2>1, <2>2
  <1>5. \A c \in Clients : \A i \in 1 .. Len(queue'[c]) :
          \/ queue'[c][i] = m
          \/ i \in 1 .. Len(queue[c]) /\ queue'[c][i] = queue[c][i]
    <2> SUFFICES ASSUME NEW c \in Clients, NEW i \in 1 .. Len(queue'[c])
                 PROVE  \/ queue'[c][i] = m
                        \/ i \in 1 .. Len(queue[c]) /\ queue'[c][i] = queue[c][i]
      OBVIOUS
    <2>1. CASE queue'[c] = queue[c]
      BY <2>1
    <2>2. CASE queue'[c] = Append(queue[c], m)
      BY <1>1, <2>2
    <2> QED
      BY <1>2, <2>1, <2>2
  <1> QED
    BY <1>3, <1>4, <1>5

(* Queues that lost messages and got at most one well numbered message, and *)
(* a numbering that only grew, keep their messages well numbered.           *)
LEMMA QueueInvKept ==
    ASSUME TypeOK, QueueInv,
           sequence' \in Nat, sequence <= sequence',
           \A s \in 1 .. sequence : numbered'[s] = numbered[s],
           NEW m, m = Unavailable \/ (m.seq \in 1 .. sequence' /\ numbered'[m.seq] = m.hit),
           \A c \in Clients : \A i \in 1 .. Len(queue'[c]) :
               \/ queue'[c][i] = m
               \/ \E j \in 1 .. Len(queue[c]) : queue'[c][i] = queue[c][j]
    PROVE  QueueInv'
  <1> SUFFICES ASSUME NEW c \in Clients, NEW i \in 1 .. Len(queue'[c]),
                      queue'[c][i] # Unavailable
               PROVE  /\ queue'[c][i].seq \in 1 .. sequence'
                      /\ numbered'[queue'[c][i].seq] = queue'[c][i].hit
    BY DEF QueueInv, Names, Unavailable, Event
  <1>1. CASE queue'[c][i] = m
    BY <1>1
  <1>2. ASSUME NEW j \in 1 .. Len(queue[c]), queue'[c][i] = queue[c][j]
        PROVE  /\ queue'[c][i].seq \in 1 .. sequence'
               /\ numbered'[queue'[c][i].seq] = queue'[c][i].hit
    <2>1. queue[c][j].seq \in 1 .. sequence /\ numbered[queue[c][j].seq] = queue[c][j].hit
      BY <1>2 DEF QueueInv, Names
    <2>2. sequence \in Nat
      BY HitIdRange DEF TypeOK
    <2> QED
      BY <1>2, <2>1, <2>2
  <1> QED
    BY <1>1, <1>2

(* So do steps that queue no new event, only Unavailable at most. *)
LEMMA QueueInvPassed ==
    ASSUME TypeOK, QueueInv,
           sequence' \in Nat, sequence <= sequence',
           \A s \in 1 .. sequence : numbered'[s] = numbered[s],
           \A c \in Clients : \A i \in 1 .. Len(queue'[c]) :
               \/ queue'[c][i] = Unavailable
               \/ \E j \in 1 .. Len(queue[c]) : queue'[c][i] = queue[c][j]
    PROVE  QueueInv'
  <1> DEFINE m == Unavailable
  <1>1. m = Unavailable
    OBVIOUS
  <1>2. \A c \in Clients : \A i \in 1 .. Len(queue'[c]) :
            \/ queue'[c][i] = m
            \/ \E j \in 1 .. Len(queue[c]) : queue'[c][i] = queue[c][j]
    BY <1>1
  <1> HIDE DEF m
  <1> QED
    BY <1>1, <1>2, QueueInvKept

(* A connection keeps what it delivered as long as the numbering only grows. *)
LEMMA DeliveryInvKept ==
    ASSUME TypeOK, DeliveryInv,
           sequence' \in Nat, sequence <= sequence',
           \A s \in 1 .. sequence : numbered'[s] = numbered[s],
           NEW c \in Clients,
           lastSeq'[c] = lastSeq[c], got'[c] = got[c], events'[c] = events[c],
           conn'[c] # "open" => conn[c] # "open"
    PROVE  /\ lastSeq'[c] <= sequence'
           /\ \A g \in got'[c] : \E s \in 1 .. lastSeq'[c] : numbered'[s] = g
           /\ conn'[c] # "open" => got'[c] = {} /\ events'[c] = 0
  <1>1. lastSeq[c] \in Nat /\ lastSeq[c] <= sequence /\ sequence \in Nat
    BY JournalAssumption DEF TypeOK, DeliveryInv
  <1>2. ASSUME NEW g \in got[c]
        PROVE  \E s \in 1 .. lastSeq[c] : numbered'[s] = g
    <2>1. PICK s \in 1 .. lastSeq[c] : numbered[s] = g
      BY <1>2 DEF DeliveryInv
    <2>2. s \in 1 .. sequence
      BY <1>1
    <2> QED
      BY <2>1, <2>2
  <1> QED
    BY <1>1, <1>2 DEF DeliveryInv

-----------------------------------------------------------------------------
(* One lemma per action, or per group of actions that disturb the same      *)
(* parts of the invariant.                                                  *)

LEMMA InitInv ==
    ASSUME Init
    PROVE  IInv
  <1>1. JournalTypeOK /\ JournalInv
    BY JournalInitInv DEF Init
  <1>2. TypeOK
    <2>1. lastEvent \in Messages
      BY JournalAssumption DEF Init, NoEvent, Event, Messages
    <2>2. unavailable \in BOOLEAN
      BY DEF Init
    <2>3. queue \in [Clients -> Seq(Messages)]
      BY DEF Init
    <2> QED
      BY <1>1, <2>1, <2>2, <2>3, JournalAssumption DEF Init, TypeOK
  <1>3. CursorInv
    BY DEF Init, JournalInit, CursorInv, NoEvent, Event
  <1>4. NumberInv
    BY DEF Init, NumberInv, NoEvent, Event
  <1>5. QueueInv /\ DeliveryInv
    BY DEF Init, QueueInv, DeliveryInv
  <1> QED
    BY <1>1, <1>2, <1>3, <1>4, <1>5 DEF IInv

LEMMA MachineStepKeeps ==
    ASSUME IInv, MachineStep
    PROVE  IInv'
  <1>1. JournalTypeOK' /\ JournalInv' /\ hitId <= hitId'
    BY JournalStepKeeps DEF IInv, TypeOK, MachineStep
  <1>2. UNCHANGED <<hubVars, monitorVars, clientVars, numbered>>
    BY DEF MachineStep
  <1>3. TypeOK'
    <2>1. retained \subseteq HitIds
      BY HitIdRange DEF IInv, TypeOK, JournalTypeOK, HitIds
    <2>2. dropped' \subseteq HitIds
      BY <2>1 DEF MachineStep, IInv, TypeOK
    <2> QED
      BY <1>1, <1>2, <2>2 DEF IInv, TypeOK, hubVars, monitorVars, clientVars
  <1>4. CursorInv'
    BY <1>1, <1>2, HitIdRange
    DEF IInv, TypeOK, JournalTypeOK, CursorInv, hubVars, HitIds
  <1>5. NumberInv' /\ QueueInv' /\ DeliveryInv'
    BY <1>2 DEF IInv, NumberInv, QueueInv, Names, DeliveryInv, hubVars, clientVars
  <1> QED
    BY <1>1, <1>3, <1>4, <1>5 DEF IInv

LEMMA PublishKeeps ==
    ASSUME IInv, Publish
    PROVE  IInv'
  <1>1. PICK h \in Oldest(pending) :
           Number(h) /\ lastSeen' = h /\ pending' = pending \ {h} /\ Broadcast(lastEvent')
    BY DEF Publish
  <1>2. /\ holder # Free
        /\ UNCHANGED <<journalVars, holder, latestId, monitorVars, conn, lastSeq,
                       got, events, base, dropped>>
    BY DEF Publish
  <1>3. /\ h \in HitIds /\ h \in pending /\ lastSeen < h /\ h <= hitId
        /\ \A g \in pending : h <= g
    BY <1>1 DEF Oldest, IInv, TypeOK, CursorInv
  <1>4. lastEvent.hit < h
    BY <1>3, HitIdRange DEF IInv, TypeOK, CursorInv, HitIds
  <1>5. /\ sequence' \in 0 .. MaxHits
        /\ lastEvent' \in Messages
        /\ lastEvent'.hit = h
        /\ numbered' \in Seq(HitIds)
        /\ NumberInv'
        /\ sequence <= sequence'
        /\ \A s \in 1 .. sequence : numbered'[s] = numbered[s]
        /\ Names(lastEvent)'
    BY <1>1, <1>3, <1>4, NumberKeeps DEF IInv
  <1>6. /\ queue' \in [Clients -> Seq(Messages)]
        /\ \A c \in Clients : \A i \in 1 .. Len(queue'[c]) :
              \/ queue'[c][i] = lastEvent'
              \/ i \in 1 .. Len(queue[c]) /\ queue'[c][i] = queue[c][i]
    BY <1>1, <1>5, BroadcastKeeps DEF IInv
  <1>7. TypeOK'
    <2>1. JournalTypeOK'
      BY <1>2 DEF IInv, TypeOK, JournalTypeOK, journalVars
    <2>2. lastSeen' \in 0 .. MaxHits /\ pending' \subseteq HitIds
      BY <1>1, <1>3 DEF IInv, TypeOK, HitIds
    <2> QED
      BY <1>2, <1>5, <1>6, <2>1, <2>2 DEF IInv, TypeOK, monitorVars
  <1>8. JournalInv'
    BY <1>2 DEF IInv, JournalInv, RetainedIsSuffix, ActiveIsNewest, journalVars
  <1>9. CursorInv'
    BY <1>1, <1>2, <1>3, <1>5, HitIdRange DEF IInv, TypeOK, CursorInv, journalVars, HitIds
  <1>10. QueueInv'
    BY <1>5, <1>6, QueueInvKept DEF IInv, Names
  <1>11. DeliveryInv'
    BY <1>2, <1>5, DeliveryInvKept DEF IInv, DeliveryInv
  <1> QED
    BY <1>5, <1>7, <1>8, <1>9, <1>10, <1>11 DEF IInv

(* Steps that change neither the journal nor the hub's state nor a client.  *)
LEMMA MonitorLocalKeeps ==
    ASSUME IInv, Tick \/ MonitorFindsNoMachine \/ PollSucceeded
    PROVE  IInv'
  <1>1. UNCHANGED <<journalVars, hubVars, clientVars, dropped, numbered>>
    BY DEF Tick, MonitorFindsNoMachine, PollSucceeded
  <1>2. /\ monitor' \in {"stopped", "idle", "observe", "publish", "ok", "err"}
        /\ unavailable' \in BOOLEAN
    BY DEF Tick, MonitorFindsNoMachine, PollSucceeded, IInv, TypeOK
  <1>3. TypeOK'
    BY <1>1, <1>2 DEF IInv, TypeOK, JournalTypeOK, journalVars, hubVars, clientVars
  <1>4. JournalInv' /\ CursorInv'
    BY <1>1 DEF IInv, JournalInv, RetainedIsSuffix, ActiveIsNewest, CursorInv,
                journalVars, hubVars
  <1>5. NumberInv' /\ QueueInv' /\ DeliveryInv'
    BY <1>1 DEF IInv, NumberInv, QueueInv, Names, DeliveryInv, hubVars, clientVars
  <1> QED
    BY <1>3, <1>4, <1>5 DEF IInv

(* An observation: the holder of the mutex takes what it will publish. *)
LEMMA ObserveKeeps ==
    ASSUME TypeOK, JournalInv, CursorInv,
           NEW t, t # Free, ObserveLocked(t), UNCHANGED journalVars
    PROVE  /\ pending' \subseteq HitIds
           /\ latestId' \in 0 .. MaxHits
           /\ CursorInv'
           /\ UNCHANGED <<sequence, lastSeen, lastEvent>>
  <1>1. holder' = t /\ pending' = Recent(lastSeen) /\ latestId' = Latest
        /\ UNCHANGED <<sequence, lastSeen, lastEvent, hitId>>
    BY DEF ObserveLocked, journalVars
  <1>2. Latest \in 0 .. MaxHits /\ Latest <= hitId
    BY LatestBound DEF TypeOK, JournalInv
  <1>3. \A h \in Recent(lastSeen) : h \in HitIds /\ lastSeen < h /\ h <= hitId
    BY HitIdRange DEF Recent, TypeOK, JournalTypeOK, HitIds
  <1>4. CursorInv'
    BY <1>1, <1>2, <1>3 DEF CursorInv
  <1> QED
    BY <1>1, <1>2, <1>3, <1>4

LEMMA MonitorObservesKeeps ==
    ASSUME IInv, MonitorObserves
    PROVE  IInv'
  <1>1. /\ UNCHANGED <<journalVars, unavailable, clientVars, dropped, numbered>>
        /\ monitor' = "publish" /\ holder' = Monitor
        /\ ObserveLocked(Monitor)
    BY DEF MonitorObserves, ObserveLocked
  <1>2. /\ pending' \subseteq HitIds /\ latestId' \in 0 .. MaxHits /\ CursorInv'
        /\ UNCHANGED <<sequence, lastSeen, lastEvent>>
    BY <1>1, ObserveKeeps, HubAssumption DEF IInv
  <1>3. TypeOK'
    <2>1. JournalTypeOK'
      BY <1>1 DEF IInv, TypeOK, JournalTypeOK, journalVars
    <2> QED
      BY <1>1, <1>2, <2>1 DEF IInv, TypeOK, clientVars
  <1>4. JournalInv'
    BY <1>1 DEF IInv, JournalInv, RetainedIsSuffix, ActiveIsNewest, journalVars
  <1>5. NumberInv' /\ QueueInv' /\ DeliveryInv'
    BY <1>1, <1>2 DEF IInv, NumberInv, QueueInv, Names, DeliveryInv, clientVars
  <1> QED
    BY <1>2, <1>3, <1>4, <1>5 DEF IInv

LEMMA SubscribeNextKeeps ==
    ASSUME IInv, NEW c \in Clients, SubscribeNext(c)
    PROVE  IInv'
  <1>1. /\ UNCHANGED <<journalVars, monitorVars, queue, lastSeq, got, events, dropped,
                       numbered>>
        /\ holder' = c
        /\ ObserveLocked(c)
        /\ conn[c] \in {"off", "failed"}
        /\ conn' = [conn EXCEPT ![c] = "observing"]
        /\ base' = [base EXCEPT ![c] = lastSeen]
    BY DEF SubscribeNext, ObserveLocked
  <1>2. /\ pending' \subseteq HitIds /\ latestId' \in 0 .. MaxHits /\ CursorInv'
        /\ UNCHANGED <<sequence, lastSeen, lastEvent>>
    BY <1>1, ObserveKeeps, HubAssumption DEF IInv
  <1>3. TypeOK'
    <2>1. JournalTypeOK'
      BY <1>1 DEF IInv, TypeOK, JournalTypeOK, journalVars
    <2>2. /\ conn' \in [Clients -> {"off", "observing", "open", "failed"}]
          /\ base' \in [Clients -> 0 .. MaxHits]
      BY <1>1 DEF IInv, TypeOK
    <2> QED
      BY <1>1, <1>2, <2>1, <2>2 DEF IInv, TypeOK, monitorVars
  <1>4. JournalInv'
    BY <1>1 DEF IInv, JournalInv, RetainedIsSuffix, ActiveIsNewest, journalVars
  <1>5. NumberInv' /\ QueueInv'
    BY <1>1, <1>2 DEF IInv, NumberInv, QueueInv, Names
  <1>6. DeliveryInv'
    <2>1. DeliveryInv /\ conn \in [Clients -> {"off", "observing", "open", "failed"}]
      BY DEF IInv, TypeOK
    <2>2. \A d \in Clients : conn'[d] # "open" => conn[d] # "open"
      BY <1>1, <2>1
    <2> QED
      BY <1>1, <1>2, <2>1, <2>2 DEF DeliveryInv
  <1> QED
    BY <1>2, <1>3, <1>4, <1>5, <1>6 DEF IInv

LEMMA MonitorUnlocksKeeps ==
    ASSUME IInv, MonitorUnlocks
    PROVE  IInv'
  <1>1. /\ pending = {} /\ lastSeen' = AtLeast(lastSeen, latestId)
        /\ holder' = Free /\ latestId' = 0 /\ monitor' = "ok"
        /\ UNCHANGED <<journalVars, sequence, lastEvent, pending, unavailable,
                       clientVars, dropped, numbered>>
    BY DEF MonitorUnlocks
  <1>2. lastSeen' \in 0 .. MaxHits /\ CursorInv'
    BY <1>1, HitIdRange DEF IInv, TypeOK, CursorInv, AtLeast, journalVars
  <1>3. TypeOK'
    <2>1. JournalTypeOK'
      BY <1>1 DEF IInv, TypeOK, JournalTypeOK, journalVars
    <2>2. /\ sequence' \in 0 .. MaxHits /\ lastEvent' \in Messages
          /\ holder' \in Clients \cup {Free, Monitor}
          /\ pending' \subseteq HitIds /\ latestId' \in 0 .. MaxHits
      BY <1>1, JournalAssumption DEF IInv, TypeOK
    <2>3. /\ monitor' \in {"stopped", "idle", "observe", "publish", "ok", "err"}
          /\ unavailable' \in BOOLEAN
          /\ dropped' \subseteq HitIds
          /\ numbered' \in Seq(HitIds)
      BY <1>1 DEF IInv, TypeOK
    <2>4. UNCHANGED clientVars /\ TypeOK
      BY <1>1 DEF IInv
    <2> QED
      BY <1>2, <2>1, <2>2, <2>3, <2>4 DEF TypeOK, clientVars
  <1>4. JournalInv'
    BY <1>1 DEF IInv, JournalInv, RetainedIsSuffix, ActiveIsNewest, journalVars
  <1>5. NumberInv' /\ QueueInv' /\ DeliveryInv'
    BY <1>1 DEF IInv, NumberInv, QueueInv, Names, DeliveryInv, clientVars
  <1> QED
    BY <1>2, <1>3, <1>4, <1>5 DEF IInv

LEMMA PollFailedKeeps ==
    ASSUME IInv, PollFailed
    PROVE  IInv'
  <1>1. /\ monitor' = "idle" /\ unavailable' = TRUE
        /\ UNCHANGED <<journalVars, hubVars, conn, lastSeq, got, events, base,
                       dropped, numbered>>
    BY DEF PollFailed
  <1>2. Unavailable \in Messages
    BY JournalAssumption DEF Unavailable, Event, Messages
  <1>3. /\ queue' \in [Clients -> Seq(Messages)]
        /\ \A c \in Clients : \A i \in 1 .. Len(queue'[c]) :
              \/ queue'[c][i] = Unavailable
              \/ i \in 1 .. Len(queue[c]) /\ queue'[c][i] = queue[c][i]
    <2>1. CASE queue' = queue
      BY <2>1 DEF IInv, TypeOK
    <2>2. CASE Broadcast(Unavailable)
      BY <1>2, <2>2, BroadcastKeeps DEF IInv
    <2> QED
      BY <2>1, <2>2 DEF PollFailed
  <1>4. TypeOK'
    <2>1. JournalTypeOK'
      BY <1>1 DEF IInv, TypeOK, JournalTypeOK, journalVars
    <2>2. unavailable' \in BOOLEAN /\ monitor' \in {"stopped", "idle", "observe", "publish", "ok", "err"}
      BY <1>1
    <2> QED
      BY <1>1, <1>3, <2>1, <2>2 DEF IInv, TypeOK, hubVars
  <1>5. JournalInv' /\ CursorInv'
    BY <1>1 DEF IInv, JournalInv, RetainedIsSuffix, ActiveIsNewest, CursorInv,
                journalVars, hubVars
  <1>6. NumberInv' /\ DeliveryInv'
    BY <1>1 DEF IInv, NumberInv, DeliveryInv, hubVars
  <1>7. QueueInv'
    <2>1. sequence' \in Nat /\ sequence <= sequence'
          /\ \A s \in 1 .. sequence : numbered'[s] = numbered[s]
      BY <1>1, JournalAssumption DEF IInv, TypeOK, hubVars
    <2>2. \A c \in Clients : \A i \in 1 .. Len(queue'[c]) :
              \/ queue'[c][i] = Unavailable
              \/ \E j \in 1 .. Len(queue[c]) : queue'[c][i] = queue[c][j]
      BY <1>3
    <2>3. TypeOK /\ QueueInv
      BY DEF IInv
    <2> QED
      BY <2>1, <2>2, <2>3, QueueInvPassed
  <1> QED
    BY <1>4, <1>5, <1>6, <1>7 DEF IInv

LEMMA SubscribeFirstKeeps ==
    ASSUME IInv, NEW c \in Clients, SubscribeFirst(c)
    PROVE  IInv'
  <1> DEFINE fresh == active # 0 /\ active # lastEvent.hit
             snapshot == IF active # 0 THEN lastEvent' ELSE NoEvent
  <1>1. /\ UNCHANGED <<journalVars, holder, pending, latestId, unavailable, queue, dropped>>
        /\ holder = Free
        /\ lastSeen' = AtLeast(lastSeen, Latest)
        /\ OpenWith(c, snapshot, lastSeen')
        /\ StartMonitor
    BY DEF SubscribeFirst
  <1>2. Latest \in 0 .. MaxHits /\ Latest <= hitId
    BY LatestBound DEF IInv, TypeOK, JournalInv
  <1>3. lastSeen' \in 0 .. MaxHits /\ lastSeen <= lastSeen' /\ lastSeen' <= hitId
    BY <1>1, <1>2, HitIdRange DEF IInv, TypeOK, CursorInv, AtLeast
  <1>4. active # 0 => active \in HitIds /\ active = hitId /\ active <= lastSeen'
    <2> SUFFICES ASSUME active # 0
                 PROVE  active \in HitIds /\ active = hitId /\ active <= lastSeen'
      OBVIOUS
    <2>1. active = hitId /\ retained # {} /\ active \in HitIds
      BY HitIdRange DEF IInv, TypeOK, JournalTypeOK, JournalInv, ActiveIsNewest, HitIds
    <2>2. Latest = hitId
      BY <2>1, NewestRetained DEF Latest, IInv, TypeOK, JournalInv
    <2> QED
      BY <1>1, <2>1, <2>2, HitIdRange DEF AtLeast, IInv, TypeOK
  <1>5. /\ sequence' \in 0 .. MaxHits
        /\ lastEvent' \in Messages
        /\ numbered' \in Seq(HitIds)
        /\ NumberInv'
        /\ sequence <= sequence'
        /\ \A s \in 1 .. sequence : numbered'[s] = numbered[s]
        /\ lastEvent'.hit <= lastSeen'
        /\ active # 0 => lastEvent'.hit = active
    <2>1. CASE fresh
      <3>1. Number(active)
        BY <2>1 DEF SubscribeFirst
      <3>2. lastEvent.hit < active
        <4>1. lastEvent.hit <= lastSeen /\ lastSeen <= hitId /\ active = hitId
              /\ active # lastEvent.hit
          BY <1>4, <2>1 DEF IInv, CursorInv
        <4>2. lastEvent.hit \in Nat /\ lastSeen \in Nat /\ hitId \in Nat
          BY HitIdRange DEF IInv, TypeOK, JournalTypeOK, Messages
        <4> QED
          BY <4>1, <4>2
      <3> QED
        BY <1>4, <2>1, <3>1, <3>2, NumberKeeps DEF IInv
    <2>2. CASE ~fresh
      <3>1. UNCHANGED <<sequence, lastEvent, numbered>>
        BY <2>2 DEF SubscribeFirst
      <3>2. sequence \in 0 .. MaxHits /\ lastEvent \in Messages /\ numbered \in Seq(HitIds)
        BY DEF IInv, TypeOK
      <3>3. NumberInv'
        BY <3>1 DEF IInv, NumberInv
      <3>4. lastEvent.hit <= lastSeen'
        <4>1. lastEvent.hit \in Nat /\ lastSeen \in Nat /\ lastSeen' \in Nat
          BY <1>3, HitIdRange DEF IInv, TypeOK
        <4> QED
          BY <1>3, <4>1 DEF IInv, CursorInv
      <3> QED
        BY <2>2, <3>1, <3>2, <3>3, <3>4, HitIdRange DEF IInv
    <2> QED
      BY <2>1, <2>2
  <1>6. /\ snapshot.seq \in 0 .. MaxHits /\ snapshot.seq <= sequence'
        /\ snapshot.hit \in 0 .. MaxHits
        /\ snapshot.hit # 0 => \E s \in 1 .. snapshot.seq : numbered'[s] = snapshot.hit
    <2>1. CASE active = 0
      BY <1>5, <2>1, JournalAssumption DEF NoEvent, Event
    <2>2. CASE active # 0
      <3>1. snapshot = lastEvent' /\ lastEvent'.seq = sequence' /\ lastEvent'.hit # 0
        BY <1>4, <1>5, <2>2 DEF NumberInv, HitIds
      <3>2. sequence' # 0 /\ numbered'[sequence'] = lastEvent'.hit
        BY <1>5, <3>1 DEF NumberInv
      <3> QED
        BY <1>5, <3>1, <3>2 DEF Messages
    <2> QED
      BY <2>1, <2>2
  <1>7. TypeOK'
    <2>1. JournalTypeOK'
      BY <1>1 DEF IInv, TypeOK, JournalTypeOK, journalVars
    <2>2. /\ monitor' \in {"stopped", "idle", "observe", "publish", "ok", "err"}
          /\ unavailable' \in BOOLEAN
      BY <1>1 DEF StartMonitor, IInv, TypeOK
    <2>3. conn' \in [Clients -> {"off", "observing", "open", "failed"}]
      BY <1>1 DEF OpenWith, IInv, TypeOK
    <2>4. lastSeq' \in [Clients -> 0 .. MaxHits]
      BY <1>1, <1>6 DEF OpenWith, IInv, TypeOK
    <2>5. got' \in [Clients -> SUBSET HitIds]
      BY <1>1, <1>6 DEF OpenWith, IInv, TypeOK, HitIds
    <2>7. events' \in [Clients -> Nat]
      BY <1>1 DEF OpenWith, IInv, TypeOK
    <2>6. base' \in [Clients -> 0 .. MaxHits]
      BY <1>1, <1>3, <1>6 DEF OpenWith, IInv, TypeOK, AtLeast
    <2> QED
      BY <1>1, <1>3, <1>5, <2>1, <2>2, <2>3, <2>4, <2>5, <2>6, <2>7 DEF IInv, TypeOK
  <1>8. JournalInv'
    BY <1>1 DEF IInv, JournalInv, RetainedIsSuffix, ActiveIsNewest, journalVars
  <1>9. CursorInv'
    BY <1>1, <1>3, <1>5 DEF IInv, CursorInv, journalVars
  <1>10. QueueInv'
    <2>1. sequence' \in Nat
      BY <1>5
    <2>2. \A d \in Clients : \A i \in 1 .. Len(queue'[d]) :
              \E j \in 1 .. Len(queue[d]) : queue'[d][i] = queue[d][j]
      BY <1>1
    <2>3. TypeOK /\ QueueInv
      BY DEF IInv
    <2> QED
      BY <1>5, <2>1, <2>2, <2>3, QueueInvPassed
  <1>11. DeliveryInv'
    <2> SUFFICES ASSUME NEW d \in Clients
                 PROVE  /\ lastSeq'[d] <= sequence'
                        /\ \A g \in got'[d] : \E s \in 1 .. lastSeq'[d] : numbered'[s] = g
                        /\ conn'[d] # "open" => got'[d] = {} /\ events'[d] = 0
      BY DEF DeliveryInv
    <2>1. CASE d = c
      BY <1>1, <1>6, <2>1 DEF OpenWith, IInv, TypeOK
    <2>2. CASE d # c
      <3>1. lastSeq'[d] = lastSeq[d] /\ got'[d] = got[d] /\ events'[d] = events[d]
            /\ conn'[d] = conn[d]
        BY <1>1, <2>2 DEF OpenWith, IInv, TypeOK
      <3> QED
        BY <1>5, <3>1, DeliveryInvKept DEF IInv
    <2> QED
      BY <2>1, <2>2
  <1> QED
    BY <1>5, <1>7, <1>8, <1>9, <1>10, <1>11 DEF IInv

LEMMA SubscribeSnapshotKeeps ==
    ASSUME IInv, NEW c \in Clients, SubscribeSnapshot(c)
    PROVE  IInv'
  <1> DEFINE snapshot == IF active # 0 /\ active = lastEvent.hit THEN lastEvent ELSE NoEvent
  <1>1. /\ pending = {} /\ lastSeen' = AtLeast(lastSeen, latestId)
        /\ holder' = Free /\ latestId' = 0
        /\ OpenWith(c, snapshot, base[c])
        /\ StartMonitor
        /\ UNCHANGED <<journalVars, sequence, lastEvent, pending, unavailable, queue,
                       dropped, numbered>>
    BY DEF SubscribeSnapshot
  <1>2. lastSeen' \in 0 .. MaxHits /\ CursorInv'
    BY <1>1, HitIdRange DEF IInv, TypeOK, CursorInv, AtLeast, journalVars
  <1>3. /\ snapshot.seq \in 0 .. MaxHits /\ snapshot.seq <= sequence
        /\ snapshot.hit \in 0 .. MaxHits
        /\ snapshot.hit # 0 => \E s \in 1 .. snapshot.seq : numbered[s] = snapshot.hit
    <2>1. CASE snapshot = NoEvent
      BY <2>1, JournalAssumption DEF NoEvent, Event, IInv, TypeOK
    <2>2. CASE snapshot = lastEvent
      BY <2>2 DEF IInv, TypeOK, Messages, NumberInv
    <2> QED
      BY <2>1, <2>2
  <1>4. TypeOK'
    <2>1. JournalTypeOK'
      BY <1>1 DEF IInv, TypeOK, JournalTypeOK, journalVars
    <2>2. monitor' \in {"stopped", "idle", "observe", "publish", "ok", "err"}
      BY <1>1 DEF StartMonitor, IInv, TypeOK
    <2>7. unavailable' \in BOOLEAN
      BY <1>1 DEF IInv, TypeOK
    <2>8. /\ sequence' \in 0 .. MaxHits /\ lastEvent' \in Messages
          /\ holder' \in Clients \cup {Free, Monitor}
          /\ pending' \subseteq HitIds /\ latestId' \in 0 .. MaxHits
      BY <1>1, JournalAssumption DEF IInv, TypeOK
    <2>9. /\ queue' \in [Clients -> Seq(Messages)]
          /\ dropped' \subseteq HitIds
          /\ numbered' \in Seq(HitIds)
      BY <1>1 DEF IInv, TypeOK
    <2>3. conn' \in [Clients -> {"off", "observing", "open", "failed"}]
      BY <1>1 DEF OpenWith, IInv, TypeOK
    <2>4. lastSeq' \in [Clients -> 0 .. MaxHits]
      BY <1>1, <1>3 DEF OpenWith, IInv, TypeOK
    <2>10. events' \in [Clients -> Nat]
      BY <1>1 DEF OpenWith, IInv, TypeOK
    <2>5. got' \in [Clients -> SUBSET HitIds]
      BY <1>1, <1>3 DEF OpenWith, IInv, TypeOK, HitIds
    <2>6. base' \in [Clients -> 0 .. MaxHits]
      BY <1>1, <1>3 DEF OpenWith, IInv, TypeOK, AtLeast
    <2> QED
      BY <1>2, <2>1, <2>2, <2>3, <2>4, <2>5, <2>6, <2>7, <2>8, <2>9, <2>10
      DEF TypeOK
  <1>5. JournalInv'
    BY <1>1 DEF IInv, JournalInv, RetainedIsSuffix, ActiveIsNewest, journalVars
  <1>6. NumberInv' /\ QueueInv'
    BY <1>1 DEF IInv, NumberInv, QueueInv, Names
  <1>7. DeliveryInv'
    <2> SUFFICES ASSUME NEW d \in Clients
                 PROVE  /\ lastSeq'[d] <= sequence'
                        /\ \A g \in got'[d] : \E s \in 1 .. lastSeq'[d] : numbered'[s] = g
                        /\ conn'[d] # "open" => got'[d] = {} /\ events'[d] = 0
      BY DEF DeliveryInv
    <2>1. CASE d = c
      BY <1>1, <1>3, <2>1 DEF OpenWith, IInv, TypeOK
    <2>2. CASE d # c
      <3>1. lastSeq'[d] = lastSeq[d] /\ got'[d] = got[d] /\ events'[d] = events[d]
            /\ conn'[d] = conn[d]
        BY <1>1, <2>2 DEF OpenWith, IInv, TypeOK
      <3> QED
        BY <1>1, <3>1 DEF IInv, DeliveryInv
    <2> QED
      BY <2>1, <2>2
  <1> QED
    BY <1>2, <1>4, <1>5, <1>6, <1>7 DEF IInv

(* A connection that ends takes its receiver and its history with it. *)
LEMMA DisconnectKeeps ==
    ASSUME IInv, NEW c \in Clients, NEW how \in {"off", "failed"}, Disconnect(c, how),
           UNCHANGED <<sequence, numbered>>
    PROVE  /\ conn' \in [Clients -> {"off", "observing", "open", "failed"}]
           /\ queue' \in [Clients -> Seq(Messages)]
           /\ lastSeq' \in [Clients -> 0 .. MaxHits]
           /\ got' \in [Clients -> SUBSET HitIds]
           /\ events' \in [Clients -> Nat]
           /\ base' \in [Clients -> 0 .. MaxHits]
           /\ QueueInv'
           /\ DeliveryInv'
  <1>1. /\ conn' \in [Clients -> {"off", "observing", "open", "failed"}]
        /\ queue' \in [Clients -> Seq(Messages)]
    BY DEF Disconnect, IInv, TypeOK
  <1>2. /\ lastSeq' \in [Clients -> 0 .. MaxHits]
        /\ got' \in [Clients -> SUBSET HitIds]
        /\ events' \in [Clients -> Nat]
        /\ base' \in [Clients -> 0 .. MaxHits]
    BY JournalAssumption DEF Disconnect, IInv, TypeOK
  <1>3. QueueInv'
    <2>1. \A d \in Clients : queue'[d] = IF d = c THEN <<>> ELSE queue[d]
      BY DEF Disconnect, IInv, TypeOK
    <2>2. \A d \in Clients : \A i \in 1 .. Len(queue'[d]) :
              \/ queue'[d][i] = Unavailable
              \/ \E j \in 1 .. Len(queue[d]) : queue'[d][i] = queue[d][j]
      BY <2>1
    <2>3. sequence' \in Nat /\ sequence <= sequence'
          /\ \A s \in 1 .. sequence : numbered'[s] = numbered[s]
      BY JournalAssumption DEF IInv, TypeOK
    <2>4. TypeOK /\ QueueInv
      BY DEF IInv
    <2> QED
      BY <2>2, <2>3, <2>4, QueueInvPassed
  <1>4. DeliveryInv'
    <2> SUFFICES ASSUME NEW d \in Clients
                 PROVE  /\ lastSeq'[d] <= sequence'
                        /\ \A g \in got'[d] : \E s \in 1 .. lastSeq'[d] : numbered'[s] = g
                        /\ conn'[d] # "open" => got'[d] = {} /\ events'[d] = 0
      BY DEF DeliveryInv
    <2>1. CASE d = c
      BY <2>1 DEF Disconnect, IInv, TypeOK
    <2>2. CASE d # c
      <3>1. lastSeq'[d] = lastSeq[d] /\ got'[d] = got[d] /\ events'[d] = events[d]
            /\ conn'[d] = conn[d]
        BY <2>2 DEF Disconnect, IInv, TypeOK
      <3> QED
        BY <3>1 DEF IInv, DeliveryInv
    <2> QED
      BY <2>1, <2>2
  <1> QED
    BY <1>1, <1>2, <1>3, <1>4

LEMMA ConnectionEndsKeeps ==
    ASSUME IInv, NEW c \in Clients,
           SubscribeRefused(c) \/ ReceiveAndFail(c) \/ Leave(c)
    PROVE  IInv'
  <1>1. /\ UNCHANGED <<journalVars, hubVars, monitorVars, dropped, numbered>>
        /\ \E how \in {"off", "failed"} : Disconnect(c, how)
    BY DEF SubscribeRefused, ReceiveAndFail, Leave
  <1>2. PICK how \in {"off", "failed"} : Disconnect(c, how)
    BY <1>1
  <1>3. UNCHANGED <<sequence, numbered>>
    BY <1>1 DEF hubVars
  <1>4. TypeOK' /\ QueueInv' /\ DeliveryInv'
    <2>1. JournalTypeOK'
      BY <1>1 DEF IInv, TypeOK, JournalTypeOK, journalVars
    <2>2. /\ conn' \in [Clients -> {"off", "observing", "open", "failed"}]
          /\ queue' \in [Clients -> Seq(Messages)]
          /\ lastSeq' \in [Clients -> 0 .. MaxHits]
          /\ got' \in [Clients -> SUBSET HitIds]
          /\ events' \in [Clients -> Nat]
          /\ base' \in [Clients -> 0 .. MaxHits]
          /\ QueueInv'
          /\ DeliveryInv'
      BY <1>2, <1>3, DisconnectKeeps
    <2> QED
      BY <1>1, <2>1, <2>2 DEF IInv, TypeOK, hubVars, monitorVars
  <1>5. JournalInv' /\ CursorInv' /\ NumberInv'
    BY <1>1 DEF IInv, JournalInv, RetainedIsSuffix, ActiveIsNewest, CursorInv, NumberInv,
                journalVars, hubVars
  <1> QED
    BY <1>4, <1>5 DEF IInv

LEMMA SubscribeAbortedKeeps ==
    ASSUME IInv, NEW c \in Clients, SubscribeAborted(c)
    PROVE  IInv'
  <1>1. /\ pending = {} /\ lastSeen' = AtLeast(lastSeen, latestId)
        /\ holder' = Free /\ latestId' = 0
        /\ Disconnect(c, "failed")
        /\ UNCHANGED <<journalVars, sequence, lastEvent, pending, monitorVars,
                       dropped, numbered>>
    BY DEF SubscribeAborted
  <1>2. lastSeen' \in 0 .. MaxHits /\ CursorInv'
    BY <1>1, HitIdRange DEF IInv, TypeOK, CursorInv, AtLeast, journalVars
  <1>3. TypeOK' /\ QueueInv' /\ DeliveryInv'
    <2>1. JournalTypeOK'
      BY <1>1 DEF IInv, TypeOK, JournalTypeOK, journalVars
    <2>2. /\ conn' \in [Clients -> {"off", "observing", "open", "failed"}]
          /\ queue' \in [Clients -> Seq(Messages)]
          /\ lastSeq' \in [Clients -> 0 .. MaxHits]
          /\ got' \in [Clients -> SUBSET HitIds]
          /\ events' \in [Clients -> Nat]
          /\ base' \in [Clients -> 0 .. MaxHits]
          /\ QueueInv'
          /\ DeliveryInv'
      BY <1>1, DisconnectKeeps
    <2>3. /\ sequence' \in 0 .. MaxHits /\ lastEvent' \in Messages
          /\ holder' \in Clients \cup {Free, Monitor}
          /\ pending' \subseteq HitIds /\ latestId' \in 0 .. MaxHits
      BY <1>1, JournalAssumption DEF IInv, TypeOK
    <2>4. /\ monitor' \in {"stopped", "idle", "observe", "publish", "ok", "err"}
          /\ unavailable' \in BOOLEAN
          /\ dropped' \subseteq HitIds
          /\ numbered' \in Seq(HitIds)
      BY <1>1 DEF IInv, TypeOK, monitorVars
    <2> QED
      BY <1>2, <2>1, <2>2, <2>3, <2>4 DEF TypeOK
  <1>4. JournalInv' /\ NumberInv'
    BY <1>1 DEF IInv, JournalInv, RetainedIsSuffix, ActiveIsNewest, NumberInv, journalVars
  <1> QED
    BY <1>2, <1>3, <1>4 DEF IInv

(* What a client takes from its receiver, and its receiver afterwards. *)
LEMMA ReceiveEventKeeps ==
    ASSUME IInv, NEW c \in Clients, ReceiveEvent(c)
    PROVE  IInv'
  <1> DEFINE event == Head(queue[c])
  <1>1. /\ queue[c] # <<>> /\ event # Unavailable /\ conn[c] = "open"
        /\ queue' = [queue EXCEPT ![c] = Tail(@)]
        /\ UNCHANGED <<journalVars, hubVars, monitorVars, conn, base, dropped, numbered>>
    BY DEF ReceiveEvent
  <1>2. queue[c] \in Seq(Messages)
    BY DEF IInv, TypeOK
  <1>3. event = queue[c][1] /\ 1 \in 1 .. Len(queue[c]) /\ event \in Messages
    BY <1>1, <1>2
  <1>4. Names(event)
    BY <1>1, <1>3 DEF IInv, QueueInv
  <1>5. event.seq \in 1 .. sequence /\ numbered[event.seq] = event.hit
        /\ event.hit \in HitIds /\ event.seq \in 0 .. MaxHits
    <2>1. event.seq \in 1 .. Len(numbered) /\ numbered[event.seq] = event.hit
          /\ numbered \in Seq(HitIds) /\ sequence = Len(numbered)
      BY <1>4 DEF Names, IInv, TypeOK, NumberInv
    <2>2. event.hit \in HitIds
      BY <2>1
    <2> QED
      BY <1>3, <2>1, <2>2 DEF Messages
  <1>6. /\ queue' \in [Clients -> Seq(Messages)]
        /\ \A d \in Clients : \A i \in 1 .. Len(queue'[d]) :
              \E j \in 1 .. Len(queue[d]) : queue'[d][i] = queue[d][j]
    <2>1. Tail(queue[c]) \in Seq(Messages)
      BY <1>1, <1>2
    <2>2. \A i \in 1 .. Len(Tail(queue[c])) :
              i + 1 \in 1 .. Len(queue[c]) /\ Tail(queue[c])[i] = queue[c][i + 1]
      BY <1>1, <1>2
    <2>3. \A d \in Clients : queue'[d] = IF d = c THEN Tail(queue[c]) ELSE queue[d]
      BY <1>1 DEF IInv, TypeOK
    <2>4. queue' \in [Clients -> Seq(Messages)]
      BY <1>1, <2>1 DEF IInv, TypeOK
    <2>5. ASSUME NEW d \in Clients, NEW i \in 1 .. Len(queue'[d])
          PROVE  \E j \in 1 .. Len(queue[d]) : queue'[d][i] = queue[d][j]
      <3>1. CASE d = c
        BY <2>2, <2>3, <3>1
      <3>2. CASE d # c
        BY <2>3, <3>2
      <3> QED
        BY <3>1, <3>2
    <2> QED
      BY <2>4, <2>5
  <1>7. /\ lastSeq' \in [Clients -> 0 .. MaxHits]
        /\ got' \in [Clients -> SUBSET HitIds]
        /\ events' \in [Clients -> Nat]
        /\ \A d \in Clients \ {c} : lastSeq'[d] = lastSeq[d] /\ got'[d] = got[d]
                                    /\ events'[d] = events[d]
        /\ lastSeq[c] <= lastSeq'[c] /\ lastSeq'[c] <= sequence
        /\ \A g \in got'[c] : g \in got[c] \/ (g = event.hit /\ lastSeq'[c] = event.seq)
    <2>1. CASE event.seq > lastSeq[c]
      <3>1. /\ lastSeq' = [lastSeq EXCEPT ![c] = event.seq]
            /\ got' = [got EXCEPT ![c] = @ \cup {event.hit}]
            /\ events' = [events EXCEPT ![c] = @ + 1]
        BY <2>1 DEF ReceiveEvent
      <3>2. events' \in [Clients -> Nat] /\ \A d \in Clients \ {c} : events'[d] = events[d]
        <4>1. events \in [Clients -> Nat]
          BY DEF IInv, TypeOK
        <4> QED
          BY <3>1, <4>1
      <3>3. lastSeq' \in [Clients -> 0 .. MaxHits] /\ lastSeq'[c] = event.seq
            /\ \A d \in Clients \ {c} : lastSeq'[d] = lastSeq[d]
        BY <1>5, <3>1 DEF IInv, TypeOK
      <3>4. got' \in [Clients -> SUBSET HitIds] /\ got'[c] = got[c] \cup {event.hit}
            /\ \A d \in Clients \ {c} : got'[d] = got[d]
        BY <1>5, <3>1 DEF IInv, TypeOK
      <3>5. lastSeq[c] <= event.seq /\ event.seq <= sequence
        BY <1>5, <2>1, HitIdRange, JournalAssumption DEF IInv, TypeOK
      <3> QED
        BY <3>2, <3>3, <3>4, <3>5
    <2>2. CASE ~(event.seq > lastSeq[c])
      <3>1. UNCHANGED <<lastSeq, got, events>>
        BY <2>2 DEF ReceiveEvent
      <3> QED
        BY <3>1 DEF IInv, TypeOK, DeliveryInv
    <2> QED
      BY <2>1, <2>2
  <1>8. TypeOK'
    <2>1. JournalTypeOK'
      BY <1>1 DEF IInv, TypeOK, JournalTypeOK, journalVars
    <2> QED
      BY <1>1, <1>6, <1>7, <2>1 DEF IInv, TypeOK, hubVars, monitorVars
  <1>9. JournalInv' /\ CursorInv' /\ NumberInv'
    BY <1>1 DEF IInv, JournalInv, RetainedIsSuffix, ActiveIsNewest, CursorInv, NumberInv,
                journalVars, hubVars
  <1>10. QueueInv'
    <2>1. sequence' \in Nat /\ sequence <= sequence'
          /\ \A s \in 1 .. sequence : numbered'[s] = numbered[s]
      BY <1>1, JournalAssumption DEF IInv, TypeOK, hubVars
    <2>2. TypeOK /\ QueueInv
      BY DEF IInv
    <2>3. \A d \in Clients : \A i \in 1 .. Len(queue'[d]) :
              \/ queue'[d][i] = Unavailable
              \/ \E j \in 1 .. Len(queue[d]) : queue'[d][i] = queue[d][j]
      BY <1>6
    <2> QED
      BY <2>1, <2>2, <2>3, QueueInvPassed
  <1>11. DeliveryInv'
    <2> SUFFICES ASSUME NEW d \in Clients
                 PROVE  /\ lastSeq'[d] <= sequence'
                        /\ \A g \in got'[d] : \E s \in 1 .. lastSeq'[d] : numbered'[s] = g
                        /\ conn'[d] # "open" => got'[d] = {} /\ events'[d] = 0
      BY DEF DeliveryInv
    <2>1. CASE d # c
      <3>1. /\ lastSeq'[d] = lastSeq[d] /\ got'[d] = got[d] /\ events'[d] = events[d]
            /\ conn'[d] = conn[d] /\ sequence' = sequence /\ numbered' = numbered
        BY <1>1, <1>7, <2>1 DEF hubVars
      <3> QED
        BY <3>1 DEF IInv, DeliveryInv
    <2>2. CASE d = c
      <3>1. conn'[c] = "open" /\ lastSeq'[c] <= sequence'
        BY <1>1, <1>7 DEF hubVars
      <3>2. ASSUME NEW g \in got'[c]
            PROVE  \E s \in 1 .. lastSeq'[c] : numbered'[s] = g
        <4>1. CASE g \in got[c]
          <5>1. PICK s \in 1 .. lastSeq[c] : numbered[s] = g
            BY <4>1 DEF IInv, DeliveryInv
          <5>2. lastSeq[c] \in Nat /\ lastSeq'[c] \in Nat
            BY <1>7, JournalAssumption DEF IInv, TypeOK
          <5> QED
            BY <1>1, <1>7, <5>1, <5>2
        <4>2. CASE g = event.hit /\ lastSeq'[c] = event.seq
          BY <1>1, <1>5, <4>2
        <4> QED
          BY <1>7, <4>1, <4>2
      <3> QED
        BY <2>2, <3>1, <3>2
    <2> QED
      BY <2>1, <2>2
  <1> QED
    BY <1>8, <1>9, <1>10, <1>11 DEF IInv

-----------------------------------------------------------------------------
(* Every step keeps the invariant. *)

LEMMA StutterKeeps ==
    ASSUME IInv, UNCHANGED vars
    PROVE  IInv'
  <1>1. UNCHANGED <<journalVars, hubVars, monitorVars, clientVars, dropped, numbered>>
    BY DEF vars
  <1>2. TypeOK'
    <2>1. JournalTypeOK'
      BY <1>1 DEF IInv, TypeOK, JournalTypeOK, journalVars
    <2> QED
      BY <1>1, <2>1 DEF IInv, TypeOK, hubVars, monitorVars, clientVars
  <1>3. JournalInv' /\ CursorInv'
    BY <1>1 DEF IInv, JournalInv, RetainedIsSuffix, ActiveIsNewest, CursorInv,
                journalVars, hubVars
  <1>4. NumberInv' /\ QueueInv' /\ DeliveryInv'
    BY <1>1 DEF IInv, NumberInv, QueueInv, Names, DeliveryInv, hubVars, clientVars
  <1> QED
    BY <1>2, <1>3, <1>4 DEF IInv

LEMMA StepKeeps ==
    ASSUME IInv, [Next]_vars
    PROVE  IInv'
  <1>1. CASE MachineStep
    BY <1>1, MachineStepKeeps
  <1>2. CASE MonitorStep
    <2>1. CASE Tick \/ MonitorFindsNoMachine \/ PollSucceeded
      BY <2>1, MonitorLocalKeeps
    <2>2. CASE MonitorObserves
      BY <2>2, MonitorObservesKeeps
    <2>3. CASE MonitorUnlocks
      BY <2>3, MonitorUnlocksKeeps
    <2>4. CASE PollFailed
      BY <2>4, PollFailedKeeps
    <2> QED
      BY <1>2, <2>1, <2>2, <2>3, <2>4 DEF MonitorStep
  <1>3. CASE Publish
    BY <1>3, PublishKeeps
  <1>4. ASSUME NEW c \in Clients, Subscribe(c) \/ Subscribed(c) \/ Receive(c) \/ Leave(c)
        PROVE  IInv'
    <2>1. CASE SubscribeFirst(c)
      BY <2>1, SubscribeFirstKeeps
    <2>2. CASE SubscribeNext(c)
      BY <2>2, SubscribeNextKeeps
    <2>3. CASE SubscribeSnapshot(c)
      BY <2>3, SubscribeSnapshotKeeps
    <2>4. CASE SubscribeAborted(c)
      BY <2>4, SubscribeAbortedKeeps
    <2>5. CASE SubscribeRefused(c) \/ ReceiveAndFail(c) \/ Leave(c)
      BY <2>5, ConnectionEndsKeeps
    <2>6. CASE ReceiveEvent(c)
      BY <2>6, ReceiveEventKeeps
    <2> QED
      BY <1>4, <2>1, <2>2, <2>3, <2>4, <2>5, <2>6 DEF Subscribe, Subscribed, Receive
  <1>5. CASE UNCHANGED vars
    BY <1>5, StutterKeeps
  <1> QED
    BY <1>1, <1>2, <1>3, <1>4, <1>5 DEF Next

(* The conjunction the theorems below are read off from: it holds initially *)
(* and every step of the hub, its clients and the machine preserves it.     *)
THEOREM Invariance == Spec => []IInv
  <1>1. Init => IInv
    BY InitInv
  <1>2. IInv /\ [Next]_vars => IInv'
    BY StepKeeps
  <1> QED
    BY <1>1, <1>2, PTL DEF Spec

(* The state of the hub, its monitor and its clients keeps its type. *)
THEOREM TypeCorrect == Spec => []TypeOK
  <1>1. IInv => TypeOK
    BY DEF IInv
  <1> QED
    BY <1>1, Invariance, PTL

(* What a poll sees is the newest part of all stops ever recorded, whatever *)
(* machines were loaded in between, and the current stop is the newest.     *)
THEOREM JournalCorrect == Spec => [](RetainedIsSuffix /\ ActiveIsNewest)
  <1>1. IInv => RetainedIsSuffix /\ ActiveIsNewest
    BY DEF IInv, JournalInv
  <1> QED
    BY <1>1, Invariance, PTL

(* A sequence names one stop, for any number of clients connecting and      *)
(* leaving in any order and any machines replaced under them.               *)
THEOREM SequenceSafety == Spec => []SequenceNamesOneStop
  <1>1. IInv => SequenceNamesOneStop
    <2> SUFFICES ASSUME IInv
                 PROVE  SequenceNamesOneStop
      OBVIOUS
    <2>1. /\ sequence = Len(numbered)
          /\ \A i, j \in 1 .. sequence : i < j => numbered[i] < numbered[j]
      BY DEF IInv, NumberInv
    <2>2. ASSUME lastEvent # NoEvent
          PROVE  Names(lastEvent)
      <3>1. lastEvent \in Messages /\ sequence \in Nat
        BY HitIdRange, JournalAssumption DEF IInv, TypeOK
      <3>2. sequence # 0
        BY <2>2, <3>1 DEF IInv, NumberInv, Messages, NoEvent, Event
      <3> QED
        BY <3>1, <3>2 DEF IInv, NumberInv, Names
    <2>3. \A c \in Clients : \A i \in 1 .. Len(queue[c]) :
              queue[c][i] # Unavailable => Names(queue[c][i])
      BY DEF IInv, QueueInv
    <2> QED
      BY <2>1, <2>2, <2>3 DEF SequenceNamesOneStop
  <1> QED
    BY <1>1, Invariance, PTL

-----------------------------------------------------------------------------
(* The state of the abstract stream, as it reads in the hub. *)
LiveMap == [c \in Clients |-> conn[c] = "open"]

-----------------------------------------------------------------------------
(* Only a task that is subscribing holds the mutex. *)

LEMMA HolderKeeps ==
    ASSUME TypeOK, HolderInv, [Next]_vars
    PROVE  HolderInv'
  <1> SUFFICES ASSUME NEW d \in Clients, holder' = d
               PROVE  conn'[d] = "observing"
    BY DEF HolderInv
  <1>0. d # Free /\ d # Monitor /\ conn \in [Clients -> {"off", "observing", "open", "failed"}]
    BY HubAssumption DEF TypeOK
  <1>1. CASE UNCHANGED <<holder, conn>>
    BY <1>1 DEF HolderInv
  <1>2. CASE MachineStep \/ Publish \/ UNCHANGED vars
    BY <1>1, <1>2 DEF MachineStep, Publish, vars, hubVars, clientVars
  <1>3. CASE MonitorStep
    <2>1. CASE MonitorObserves \/ MonitorUnlocks
      BY <1>0, <2>1 DEF MonitorObserves, ObserveLocked, MonitorUnlocks
    <2>2. CASE Tick \/ MonitorFindsNoMachine \/ PollSucceeded \/ PollFailed
      BY <1>1, <2>2
      DEF Tick, MonitorFindsNoMachine, PollSucceeded, PollFailed, hubVars, clientVars
    <2> QED
      BY <1>3, <2>1, <2>2 DEF MonitorStep
  <1>4. ASSUME NEW c \in Clients, Subscribe(c) \/ Subscribed(c) \/ Receive(c) \/ Leave(c)
        PROVE  conn'[d] = "observing"
    <2>1. CASE SubscribeFirst(c) \/ SubscribeRefused(c)
      <3>1. holder' = Free
        BY <2>1 DEF SubscribeFirst, SubscribeRefused, hubVars
      <3> QED
        BY <1>0, <3>1
    <2>2. CASE SubscribeNext(c)
      BY <1>0, <2>2 DEF SubscribeNext, ObserveLocked
    <2>3. CASE SubscribeSnapshot(c) \/ SubscribeAborted(c)
      BY <1>0, <2>3 DEF SubscribeSnapshot, SubscribeAborted
    <2>4. CASE ReceiveAndFail(c) \/ Leave(c)
      <3>1. conn[c] = "open" /\ UNCHANGED holder
        BY <2>4 DEF ReceiveAndFail, Leave, hubVars
      <3>2. d # c /\ conn[d] = "observing"
        BY <3>1 DEF HolderInv
      <3> QED
        BY <1>0, <2>4, <3>2 DEF ReceiveAndFail, Leave, Disconnect
    <2>5. CASE ReceiveEvent(c)
      BY <1>1, <2>5 DEF ReceiveEvent, hubVars
    <2> QED
      BY <1>4, <2>1, <2>2, <2>3, <2>4, <2>5 DEF Subscribe, Subscribed, Receive
  <1> QED
    BY <1>2, <1>3, <1>4 DEF Next

LEMMA HolderInvariance == Spec => []HolderInv
  <1>1. Init => HolderInv
    BY HubAssumption DEF Init, HolderInv
  <1>2. TypeOK /\ HolderInv /\ [Next]_vars => HolderInv'
    BY HolderKeeps
  <1> QED
    BY <1>1, <1>2, TypeCorrect, PTL DEF Spec

-----------------------------------------------------------------------------
(* Steps of the hub as steps of the stream. *)

(* Steps that leave the connections and what they delivered alone. *)
LEMMA QuietStep ==
    ASSUME UNCHANGED <<hitId, conn, got, events>>
    PROVE  UNCHANGED Stream!vars
  <1>1. LiveMap' = LiveMap
    BY DEF LiveMap
  <1> QED
    BY <1>1 DEF Stream!vars, LiveMap

LEMMA MachineIsStream ==
    ASSUME MachineStep
    PROVE  [Stream!Next]_(Stream!vars)
  <1>1. UNCHANGED <<conn, got, events>>
    BY DEF MachineStep, clientVars
  <1>2. CASE Hit
    <2>1. hitId < MaxHits /\ hitId' = hitId + 1
      BY <1>2 DEF Hit
    <2>2. Stream!Stop
      BY <1>1, <2>1 DEF Stream!Stop
    <2> QED
      BY <2>2 DEF Stream!Next
  <1>3. CASE Deactivate \/ Reactivate \/ Install \/ Unload
    <2>1. UNCHANGED hitId
      BY <1>3 DEF Deactivate, Reactivate, Install, Unload
    <2> QED
      BY <1>1, <2>1, QuietStep
  <1> QED
    BY <1>2, <1>3 DEF MachineStep, JournalNext

(* A stream that opens starts with one recorded stop, or with none. *)
LEMMA OpenIsStream ==
    ASSUME IInv, NEW c \in Clients, conn[c] # "open", UNCHANGED hitId,
           NEW snapshot, NEW after, OpenWith(c, snapshot, after),
           snapshot.hit \in 0 .. hitId
    PROVE  Stream!Open(c)
  <1>1. ~LiveMap[c]
    BY DEF LiveMap
  <1>2. LiveMap' = [LiveMap EXCEPT ![c] = TRUE]
    BY DEF LiveMap, OpenWith, IInv, TypeOK
  <1>3. PICK shown \in {{}} \cup {{h} : h \in 1 .. hitId} : got' = [got EXCEPT ![c] = shown]
    <2>1. CASE snapshot.hit = 0
      BY <2>1 DEF OpenWith
    <2>2. CASE snapshot.hit # 0
      <3>1. snapshot.hit \in 1 .. hitId
        BY <2>2 DEF IInv, TypeOK, JournalTypeOK
      <3> QED
        BY <2>2, <3>1 DEF OpenWith
    <2> QED
      BY <2>1, <2>2
  <1>4. events' = [events EXCEPT ![c] = 0]
    BY DEF OpenWith
  <1> QED
    BY <1>1, <1>2, <1>3, <1>4 DEF Stream!Open, LiveMap

(* A connection that ends closes its stream, if it was open. *)
LEMMA DisconnectIsStream ==
    ASSUME IInv, NEW c \in Clients, NEW how \in {"off", "failed"}, Disconnect(c, how),
           UNCHANGED hitId
    PROVE  [Stream!Next]_(Stream!vars)
  <1>1. LiveMap' = [LiveMap EXCEPT ![c] = FALSE] /\ got' = [got EXCEPT ![c] = {}]
        /\ events' = [events EXCEPT ![c] = 0]
    BY DEF LiveMap, Disconnect, IInv, TypeOK
  <1>2. CASE conn[c] = "open"
    <2>1. Stream!Close(c)
      BY <1>1, <1>2 DEF Stream!Close, LiveMap
    <2> QED
      BY <2>1 DEF Stream!Next
  <1>3. CASE conn[c] # "open"
    <2>1. LiveMap' = LiveMap
      BY <1>1, <1>3 DEF LiveMap
    <2>2. got[c] = {} /\ events[c] = 0
      BY <1>3 DEF IInv, DeliveryInv
    <2>3. got' = got /\ events' = events
      BY <1>1, <2>2 DEF IInv, TypeOK
    <2> QED
      BY <2>1, <2>3 DEF Stream!vars, LiveMap
  <1> QED
    BY <1>2, <1>3

(* What a client takes is later than everything its connection delivered:   *)
(* its sequence is above lastSeq, and sequences and identities agree.       *)
LEMMA ReceiveIsStream ==
    ASSUME IInv, NEW c \in Clients, ReceiveEvent(c)
    PROVE  [Stream!Next]_(Stream!vars)
  <1> DEFINE event == Head(queue[c])
  <1>1. UNCHANGED <<hitId, conn>> /\ conn[c] = "open"
    BY DEF ReceiveEvent, journalVars
  <1>2. CASE ~(event.seq > lastSeq[c])
    <2>1. UNCHANGED <<got, events>>
      BY <1>2 DEF ReceiveEvent
    <2> QED
      BY <1>1, <2>1, QuietStep
  <1>3. CASE event.seq > lastSeq[c]
    <2>1. got' = [got EXCEPT ![c] = @ \cup {event.hit}]
          /\ events' = [events EXCEPT ![c] = @ + 1]
      BY <1>3 DEF ReceiveEvent
    <2>2. event.seq \in 1 .. sequence /\ numbered[event.seq] = event.hit
      <3>1. queue[c] \in Seq(Messages) /\ queue[c] # <<>>
        BY DEF IInv, TypeOK, ReceiveEvent
      <3>2. event = queue[c][1] /\ 1 \in 1 .. Len(queue[c]) /\ event # Unavailable
        BY <3>1 DEF ReceiveEvent
      <3> QED
        BY <3>2 DEF IInv, QueueInv, Names
    <2>3. sequence \in Nat /\ lastSeq[c] \in Nat
      BY HitIdRange, JournalAssumption DEF IInv, TypeOK
    <2>4. numbered \in Seq(HitIds) /\ sequence = Len(numbered)
      BY DEF IInv, TypeOK, NumberInv
    <2>5. \A i, j \in 1 .. sequence : i < j => numbered[i] < numbered[j]
      BY DEF IInv, NumberInv
    <2>6. event.hit \in 1 .. hitId
      <3>1. event.hit \in HitIds /\ numbered[sequence] \in HitIds
        BY <2>2, <2>3, <2>4
      <3>2. event.hit <= numbered[sequence]
        BY <2>2, <2>3, <2>5, <3>1 DEF HitIds
      <3>3. numbered[sequence] <= lastSeen /\ lastSeen <= hitId
        BY <2>2, <2>3 DEF IInv, CursorInv, NumberInv
      <3>4. lastSeen \in Nat /\ hitId \in Nat
        BY JournalAssumption DEF IInv, TypeOK, JournalTypeOK
      <3> QED
        BY <3>1, <3>2, <3>3, <3>4 DEF HitIds
    <2>7. ASSUME NEW g \in got[c]
          PROVE  g < event.hit
      <3>1. PICK s \in 1 .. lastSeq[c] : numbered[s] = g
        BY DEF IInv, DeliveryInv
      <3>2. s \in 1 .. sequence /\ s < event.seq
        BY <1>3, <2>2, <2>3
      <3> QED
        BY <2>2, <2>5, <3>1, <3>2
    <2>8. Stream!Deliver(c)
      <3>1. LiveMap[c] /\ LiveMap' = LiveMap
        BY <1>1 DEF LiveMap
      <3> QED
        BY <1>1, <2>1, <2>6, <2>7, <3>1 DEF Stream!Deliver, LiveMap
    <2> QED
      BY <2>8 DEF Stream!Next
  <1> QED
    BY <1>2, <1>3

LEMMA ClientIsStream ==
    ASSUME IInv, HolderInv, IInv', NEW c \in Clients,
           Subscribe(c) \/ Subscribed(c) \/ Receive(c) \/ Leave(c)
    PROVE  [Stream!Next]_(Stream!vars)
  <1>1. CASE SubscribeFirst(c)
    <2> DEFINE snapshot == IF active # 0 THEN lastEvent' ELSE NoEvent
    <2>1. OpenWith(c, snapshot, lastSeen') /\ UNCHANGED hitId /\ conn[c] # "open"
      BY <1>1 DEF SubscribeFirst, journalVars
    <2>2. snapshot.hit \in 0 .. hitId
      <3>1. lastEvent'.hit \in Nat /\ lastEvent'.hit <= hitId /\ hitId \in Nat
        BY <2>1, JournalAssumption
        DEF IInv, TypeOK, JournalTypeOK, CursorInv, Messages
      <3> QED
        BY <3>1 DEF NoEvent, Event
    <2> QED
      BY <2>1, <2>2, OpenIsStream DEF Stream!Next
  <1>2. CASE SubscribeNext(c)
    <2>1. UNCHANGED <<hitId, got, events>> /\ conn' = [conn EXCEPT ![c] = "observing"]
          /\ conn[c] # "open"
      BY <1>2 DEF SubscribeNext, journalVars
    <2>2. LiveMap' = LiveMap
      BY <2>1 DEF LiveMap, IInv, TypeOK
    <2> QED
      BY <2>1, <2>2 DEF Stream!vars, LiveMap
  <1>3. CASE SubscribeSnapshot(c)
    <2> DEFINE snapshot == IF active # 0 /\ active = lastEvent.hit THEN lastEvent ELSE NoEvent
    <2>1. OpenWith(c, snapshot, base[c]) /\ UNCHANGED hitId /\ holder = c
      BY <1>3 DEF SubscribeSnapshot, journalVars
    <2>2. conn[c] # "open"
      BY <2>1 DEF HolderInv
    <2>3. snapshot.hit \in 0 .. hitId
      <3>0. lastEvent.hit \in Nat /\ lastSeen \in Nat /\ hitId \in Nat
        <4>1. TypeOK /\ lastSeen \in 0 .. MaxHits
          BY DEF IInv, TypeOK
        <4> QED
          BY <4>1, HitIdRange
      <3>1. lastEvent.hit \in Nat /\ lastEvent.hit <= hitId /\ hitId \in Nat
        BY <3>0 DEF IInv, CursorInv
      <3> QED
        BY <3>1 DEF NoEvent, Event
    <2> QED
      BY <2>1, <2>2, <2>3, OpenIsStream DEF Stream!Next
  <1>4. CASE SubscribeRefused(c) \/ SubscribeAborted(c) \/ ReceiveAndFail(c) \/ Leave(c)
    <2>1. UNCHANGED hitId /\ \E how \in {"off", "failed"} : Disconnect(c, how)
      BY <1>4 DEF SubscribeRefused, SubscribeAborted, ReceiveAndFail, Leave, journalVars
    <2> QED
      BY <2>1, DisconnectIsStream
  <1>5. CASE ReceiveEvent(c)
    BY <1>5, ReceiveIsStream
  <1> QED
    BY <1>1, <1>2, <1>3, <1>4, <1>5 DEF Subscribe, Subscribed, Receive

LEMMA StepIsStream ==
    ASSUME IInv, HolderInv, IInv', [Next]_vars
    PROVE  [Stream!Next]_(Stream!vars)
  <1>1. CASE MachineStep
    BY <1>1, MachineIsStream
  <1>2. CASE MonitorStep \/ Publish \/ UNCHANGED vars
    <2>1. UNCHANGED <<hitId, conn, got, events>>
      BY <1>2 DEF MonitorStep, Tick, MonitorObserves, MonitorFindsNoMachine,
                  MonitorUnlocks, PollSucceeded, PollFailed, Publish, vars,
                  journalVars, clientVars
    <2> QED
      BY <2>1, QuietStep
  <1>3. ASSUME NEW c \in Clients, Subscribe(c) \/ Subscribed(c) \/ Receive(c) \/ Leave(c)
        PROVE  [Stream!Next]_(Stream!vars)
    BY <1>3, ClientIsStream
  <1> QED
    BY <1>1, <1>2, <1>3 DEF Next

(* On every connection of every client, stops arrive in the order the       *)
(* machine made them, none of them twice and none that it did not make.     *)
THEOREM Refinement == Spec => ImplementsStream
  <1>1. Init => Stream!Init
    BY DEF Init, JournalInit, Stream!Init
  <1>2. IInv /\ HolderInv /\ IInv' /\ [Next]_vars => [Stream!Next]_(Stream!vars)
    BY StepIsStream
  <1> QED
    BY <1>1, <1>2, Invariance, HolderInvariance, PTL
    DEF Spec, ImplementsStream, Stream!Spec

-----------------------------------------------------------------------------
(* No stop is skipped: the cursor of the hub against the journal.           *)

LEMMA CursorTypes ==
    ASSUME IInv
    PROVE  /\ lastSeen \in Nat /\ latestId \in Nat /\ hitId \in Nat
           /\ \A h \in retained : h \in Nat /\ h <= hitId
           /\ \A h \in pending : h \in Nat /\ lastSeen < h
           /\ queue \in [Clients -> Seq(Messages)]
           /\ \A c \in Clients : base[c] \in Nat /\ lastSeq[c] \in Nat
           /\ \A m \in Messages : m.seq \in Nat /\ m.hit \in Nat
           /\ dropped \subseteq Nat /\ ChannelCap \in Nat
  <1>1. JournalTypeOK /\ MaxHits \in Nat /\ ChannelCap \in Nat
    BY JournalAssumption, HubAssumption DEF IInv, TypeOK
  <1>2. lastSeen \in Nat /\ latestId \in Nat /\ hitId \in Nat
    BY <1>1 DEF IInv, TypeOK, JournalTypeOK
  <1>3. \A h \in retained : h \in Nat /\ h <= hitId
    BY <1>1, <1>2 DEF JournalTypeOK
  <1>4. \A h \in pending : h \in Nat /\ lastSeen < h
    BY DEF IInv, TypeOK, CursorInv, HitIds
  <1>5. queue \in [Clients -> Seq(Messages)] /\ dropped \subseteq Nat
    BY DEF IInv, TypeOK, HitIds
  <1>6. \A c \in Clients : base[c] \in Nat /\ lastSeq[c] \in Nat
    BY <1>1 DEF IInv, TypeOK
  <1>7. \A m \in Messages : m.seq \in Nat /\ m.hit \in Nat
    BY DEF Messages
  <1> QED
    BY <1>1, <1>2, <1>3, <1>4, <1>5, <1>6, <1>7

LEMMA SeenKept ==
    ASSUME IInv, SeenInv, UNCHANGED <<hitId, retained, pending, dropped>>,
           lastSeen' \in Nat, lastSeen <= lastSeen',
           latestId' = latestId \/ (pending = {} /\ latestId' = 0)
    PROVE  SeenInv'
  <1>1. ASSUME NEW h \in 1 .. hitId', lastSeen' < h
        PROVE  h \in retained' \cup pending' \cup dropped'
    BY <1>1, CursorTypes DEF SeenInv
  <1>2. ASSUME NEW h \in 1 .. latestId', lastSeen' < h
        PROVE  h \in pending' \cup dropped'
    BY <1>2, CursorTypes DEF SeenInv
  <1>3. \A h \in pending' : h <= latestId'
    BY DEF SeenInv
  <1> QED
    BY <1>1, <1>2, <1>3 DEF SeenInv

(* An observation shows what was retained, from which nothing was lost yet. *)
LEMMA SeenObserved ==
    ASSUME IInv, SeenInv, NEW t, ObserveLocked(t), holder = Free,
           UNCHANGED <<hitId, retained, dropped>>
    PROVE  SeenInv'
  <1>1. pending = {}
    BY DEF IInv, CursorInv
  <1>2. pending' = {h \in retained : h > lastSeen} /\ lastSeen' = lastSeen
        /\ latestId' = Latest
    BY DEF ObserveLocked, Recent
  <1>3. Latest = (IF retained = {} THEN 0 ELSE hitId)
    BY NewestRetained DEF Latest, IInv, TypeOK, JournalInv
  <1> QED
    BY <1>1, <1>2, <1>3, CursorTypes DEF SeenInv

(* The oldest pending stop comes next: those before it are lost.            *)
LEMMA PublishedNext ==
    ASSUME IInv, SeenInv, NEW g \in Oldest(pending)
    PROVE  /\ g \in pending /\ g \in Nat /\ lastSeen < g
           /\ \A h \in 1 .. g - 1 : lastSeen < h => h \in dropped
  <1>1. g \in pending /\ \A h \in pending : g <= h
    BY DEF Oldest
  <1>2. g \in Nat /\ lastSeen < g /\ g <= latestId
    BY <1>1, CursorTypes DEF SeenInv
  <1>3. ASSUME NEW h \in 1 .. g - 1, lastSeen < h
        PROVE  h \in dropped
    <2>1. h \in 1 .. latestId /\ h \notin pending
      BY <1>1, <1>2, CursorTypes
    <2> QED
      BY <1>3, <2>1 DEF SeenInv
  <1> QED
    BY <1>1, <1>2, <1>3

LEMMA SeenPublished ==
    ASSUME IInv, SeenInv, NEW g \in Oldest(pending), lastSeen' = g,
           pending' = pending \ {g}, UNCHANGED <<hitId, latestId, retained, dropped>>
    PROVE  SeenInv'
  BY PublishedNext, CursorTypes DEF SeenInv

(* What the machine lets go of is pending, or is counted as dropped.        *)
LEMMA SeenByMachine ==
    ASSUME IInv, SeenInv, MachineStep
    PROVE  SeenInv'
  <1>1. dropped' = dropped \cup {h \in retained \ retained' : h > lastSeen /\ h \notin pending}
        /\ UNCHANGED <<lastSeen, pending, latestId>>
    BY DEF MachineStep, hubVars
  <1>2. hitId' = hitId \/ (hitId' = hitId + 1 /\ hitId' \in retained')
    BY DEF MachineStep, JournalNext, Hit, Deactivate, Reactivate, Install, Unload
  <1>3. ASSUME NEW h \in 1 .. hitId', lastSeen < h
        PROVE  h \in retained' \cup pending' \cup dropped'
    <2>1. CASE h \in 1 .. hitId
      <3>1. h \in retained \cup pending \cup dropped
        BY <1>3, <2>1 DEF SeenInv
      <3> QED
        BY <1>1, <1>3, <2>1, <3>1, CursorTypes
    <2>2. CASE h \notin 1 .. hitId
      BY <1>1, <1>2, <2>2, CursorTypes
    <2> QED
      BY <2>1, <2>2
  <1> QED
    BY <1>1, <1>3 DEF SeenInv

LEMMA SeenKeeps ==
    ASSUME IInv, IInv', SeenInv, [Next]_vars
    PROVE  SeenInv'
  <1>0. lastSeen' \in Nat /\ lastSeen \in Nat /\ latestId \in Nat
    BY CursorTypes, JournalAssumption DEF IInv, TypeOK
  <1>1. CASE MachineStep
    BY <1>1, SeenByMachine
  <1>2. CASE Publish
    <2>1. PICK g \in Oldest(pending) : lastSeen' = g /\ pending' = pending \ {g}
      BY <1>2 DEF Publish
    <2>2. UNCHANGED <<hitId, latestId, retained, dropped>>
      BY <1>2 DEF Publish, journalVars
    <2> QED
      BY <2>1, <2>2, SeenPublished
  <1>3. CASE MonitorObserves
    BY <1>3, SeenObserved DEF MonitorObserves, journalVars
  <1>4. CASE MonitorUnlocks
    <2>1. UNCHANGED <<hitId, retained, pending, dropped>> /\ pending = {} /\ latestId' = 0
          /\ lastSeen' = AtLeast(lastSeen, latestId)
      BY <1>4 DEF MonitorUnlocks, journalVars
    <2>2. lastSeen <= lastSeen'
      BY <1>0, <2>1 DEF AtLeast
    <2> QED
      BY <1>0, <2>1, <2>2, SeenKept
  <1>5. CASE \/ Tick \/ MonitorFindsNoMachine \/ PollSucceeded \/ PollFailed
             \/ UNCHANGED vars
    <2>1. UNCHANGED <<hitId, retained, pending, dropped, latestId, lastSeen>>
      BY <1>5 DEF Tick, MonitorFindsNoMachine, PollSucceeded, PollFailed, vars,
                  journalVars, hubVars
    <2> QED
      BY <1>0, <2>1, SeenKept
  <1>6. ASSUME NEW c \in Clients, Subscribe(c) \/ Subscribed(c) \/ Receive(c) \/ Leave(c)
        PROVE  SeenInv'
    <2>1. CASE SubscribeNext(c)
      BY <2>1, SeenObserved DEF SubscribeNext, journalVars
    <2>2. CASE SubscribeFirst(c)
      <3>1. UNCHANGED <<hitId, retained, pending, dropped, latestId>>
            /\ lastSeen' = AtLeast(lastSeen, Latest)
        BY <2>2 DEF SubscribeFirst, journalVars
      <3>2. Latest \in Nat
        BY LatestBound, JournalAssumption DEF IInv, TypeOK, JournalInv
      <3>3. lastSeen <= lastSeen'
        BY <1>0, <3>1, <3>2 DEF AtLeast
      <3> QED
        BY <1>0, <3>1, <3>3, SeenKept
    <2>3. CASE SubscribeSnapshot(c) \/ SubscribeAborted(c)
      <3>1. UNCHANGED <<hitId, retained, pending, dropped>> /\ pending = {} /\ latestId' = 0
            /\ lastSeen' = AtLeast(lastSeen, latestId)
        BY <2>3 DEF SubscribeSnapshot, SubscribeAborted, journalVars
      <3>2. lastSeen <= lastSeen'
        BY <1>0, <3>1 DEF AtLeast
      <3> QED
        BY <1>0, <3>1, <3>2, SeenKept
    <2>4. CASE SubscribeRefused(c) \/ ReceiveAndFail(c) \/ ReceiveEvent(c) \/ Leave(c)
      <3>1. UNCHANGED <<hitId, retained, pending, dropped, latestId, lastSeen>>
        BY <2>4 DEF SubscribeRefused, ReceiveAndFail, ReceiveEvent, Leave, journalVars, hubVars
      <3> QED
        BY <1>0, <3>1, SeenKept
    <2> QED
      BY <1>6, <2>1, <2>2, <2>3, <2>4 DEF Subscribe, Subscribed, Receive
  <1> QED
    BY <1>1, <1>2, <1>3, <1>4, <1>5, <1>6 DEF Next, MonitorStep

-----------------------------------------------------------------------------
(* The order of what waits in a receiver.                                   *)

LEMMA OrderedKept ==
    ASSUME NEW c \in Clients, Ordered(c), queue'[c] = queue[c], base'[c] = base[c],
           lastSeq'[c] = lastSeq[c], conn'[c] # "open" => conn[c] # "open"
    PROVE  Ordered(c)'
  BY DEF Ordered, Unavailable, Event

(* A message that is appended is Unavailable, or has the next sequence.     *)
LEMMA OrderedAppended ==
    ASSUME IInv, NEW c \in Clients, Ordered(c), NEW m \in Messages,
           m # Unavailable => m.seq = sequence + 1,
           queue'[c] = Append(queue[c], m), base'[c] = base[c],
           lastSeq'[c] = lastSeq[c], conn'[c] = conn[c]
    PROVE  Ordered(c)'
  <1> DEFINE q == queue[c]
             r == queue'[c]
  <1>1. q \in Seq(Messages) /\ lastSeq[c] \in Nat /\ lastSeq[c] <= sequence /\ sequence \in Nat
    BY CursorTypes, JournalAssumption DEF IInv, TypeOK, DeliveryInv
  <1>2. /\ Len(r) = Len(q) + 1 /\ Len(q) \in Nat
        /\ \A i \in 1 .. Len(q) : r[i] = q[i]
        /\ r[Len(q) + 1] = m
    BY <1>1
  <1>3. \A i \in 1 .. Len(q) :
            q[i] # Unavailable => q[i].seq \in Nat /\ q[i].seq <= sequence
    BY <1>1 DEF IInv, QueueInv, Names
  <1>4. ASSUME NEW i \in 1 .. Len(r), NEW j \in 1 .. Len(r), i < j,
               r[i] # Unavailable, r[j] # Unavailable
        PROVE  r[i].seq < r[j].seq
    <2>1. i \in 1 .. Len(q)
      BY <1>2, <1>4
    <2>2. CASE j \in 1 .. Len(q)
      BY <1>2, <1>4, <2>1, <2>2 DEF Ordered
    <2>3. CASE j = Len(q) + 1
      BY <1>1, <1>2, <1>3, <1>4, <2>1, <2>3
    <2> QED
      BY <1>2, <2>2, <2>3
  <1>5. ASSUME NEW i \in 1 .. Len(r), r[i] # Unavailable, r[i].seq <= lastSeq'[c]
        PROVE  r[i].hit <= base'[c]
    <2>1. CASE i \in 1 .. Len(q)
      BY <1>2, <1>5, <2>1 DEF Ordered
    <2>2. CASE i = Len(q) + 1
      BY <1>1, <1>2, <1>5, <2>2
    <2> QED
      BY <1>2, <2>1, <2>2
  <1>6. conn'[c] # "open" => lastSeq'[c] = 0
    BY DEF Ordered
  <1> QED
    BY <1>4, <1>5, <1>6 DEF Ordered, Unavailable, Event

(* The kept event, when there is one, carries the sequence of its stop.      *)
LEMMA LastEventNamed ==
    ASSUME IInv'
    PROVE  lastEvent' \in Messages /\ (lastEvent' = NoEvent \/ Names(lastEvent)')
  <1>1. lastEvent' \in Messages /\ sequence' \in Nat
    BY JournalAssumption DEF IInv, TypeOK
  <1>2. lastEvent'.seq = sequence'
        /\ lastEvent'.hit = (IF sequence' = 0 THEN 0 ELSE numbered'[sequence'])
    BY DEF IInv, NumberInv
  <1>3. CASE sequence' = 0
    BY <1>1, <1>2, <1>3 DEF Messages, NoEvent, Event
  <1>4. CASE sequence' # 0
    BY <1>1, <1>2, <1>4 DEF Names
  <1> QED
    BY <1>1, <1>3, <1>4

(* A snapshot covers the events that have its sequence or an earlier one.   *)
LEMMA OrderedOpened ==
    ASSUME IInv, IInv', NEW c \in Clients, Ordered(c), queue'[c] = queue[c],
           NEW snapshot \in Messages, NEW after \in Nat, OpenWith(c, snapshot, after),
           \/ snapshot = NoEvent
           \/ snapshot.seq \in 1 .. sequence' /\ numbered'[snapshot.seq] = snapshot.hit
    PROVE  Ordered(c)'
  <1>1. conn'[c] = "open" /\ lastSeq'[c] = snapshot.seq
        /\ base'[c] = AtLeast(after, snapshot.hit)
    BY DEF OpenWith, IInv, TypeOK
  <1>2. snapshot.seq \in Nat /\ snapshot.hit \in Nat /\ snapshot.hit <= base'[c]
    BY <1>1, CursorTypes DEF AtLeast
  <1>3. ASSUME NEW i \in 1 .. Len(queue[c]), queue[c][i] # Unavailable,
               queue[c][i].seq <= snapshot.seq
        PROVE  queue[c][i].hit <= snapshot.hit
    <2> DEFINE event == queue[c][i]
    <2>0. event \in Messages
      BY CursorTypes
    <2>1. event.seq \in 1 .. sequence' /\ numbered'[event.seq] = event.hit
      BY <1>3 DEF IInv, QueueInv, Names, Unavailable, Event
    <2>2. snapshot # NoEvent
      BY <1>2, <1>3, <2>1 DEF NoEvent, Event
    <2>3. \A k, l \in 1 .. sequence' : k < l => numbered'[k] < numbered'[l]
      BY DEF IInv, NumberInv
    <2>4. event.seq < snapshot.seq \/ event.seq = snapshot.seq
      BY <1>2, <1>3, <2>1
    <2>5. event.hit \in Nat
      BY <2>0, CursorTypes
    <2> QED
      BY <1>2, <2>1, <2>2, <2>3, <2>4, <2>5
  <1>4. ASSUME NEW i \in 1 .. Len(queue[c]), queue[c][i] # Unavailable,
               queue[c][i].seq <= lastSeq'[c]
        PROVE  queue[c][i].hit <= base'[c]
    <2>1. queue[c][i].hit <= snapshot.hit
      BY <1>1, <1>3, <1>4
    <2>2. queue[c][i].hit \in Nat /\ base'[c] \in Nat
      BY CursorTypes, <1>1, <1>2 DEF AtLeast
    <2> QED
      BY <1>2, <2>1, <2>2
  <1> QED
    BY <1>1, <1>4 DEF Ordered, Unavailable, Event

(* What is taken from the head of a receiver comes before all that is left. *)
LEMMA OrderedReceived ==
    ASSUME IInv, NEW c \in Clients, Ordered(c), ReceiveEvent(c)
    PROVE  Ordered(c)'
  <1> DEFINE q == queue[c]
             r == queue'[c]
  <1>1. q \in Seq(Messages) /\ q # <<>> /\ Head(q) # Unavailable /\ r = Tail(q)
        /\ UNCHANGED <<conn, base>> /\ conn[c] = "open"
    BY DEF ReceiveEvent, IInv, TypeOK
  <1>2. /\ Len(r) = Len(q) - 1 /\ Len(q) \in Nat /\ Len(q) >= 1 /\ Head(q) = q[1]
        /\ \A i \in 1 .. Len(r) : r[i] = q[i + 1] /\ i + 1 \in 1 .. Len(q)
    BY <1>1
  <1>3. lastSeq'[c] = lastSeq[c] \/ lastSeq'[c] = Head(q).seq
    BY DEF ReceiveEvent, IInv, TypeOK
  <1>4. ASSUME NEW i \in 1 .. Len(r), NEW j \in 1 .. Len(r), i < j,
               r[i] # Unavailable, r[j] # Unavailable
        PROVE  r[i].seq < r[j].seq
    <2>1. r[i] = q[i + 1] /\ i + 1 \in 1 .. Len(q) /\ r[j] = q[j + 1] /\ j + 1 \in 1 .. Len(q)
      BY <1>2
    <2>2. i + 1 < j + 1
      BY <1>4
    <2> QED
      BY <1>4, <2>1, <2>2 DEF Ordered
  <1>5. ASSUME NEW i \in 1 .. Len(r), r[i] # Unavailable, r[i].seq <= lastSeq'[c]
        PROVE  r[i].hit <= base[c]
    <2>1. r[i] = q[i + 1] /\ i + 1 \in 1 .. Len(q) /\ 1 \in 1 .. Len(q) /\ 1 < i + 1
      BY <1>2
    <2>2. q[1] \in Messages /\ q[i + 1] \in Messages
      BY <1>1, <2>1
    <2>3. q[1].seq < r[i].seq
      BY <1>1, <1>2, <1>5, <2>1 DEF Ordered
    <2>4. lastSeq'[c] = lastSeq[c]
      BY <1>2, <1>3, <1>5, <2>1, <2>2, <2>3, CursorTypes
    <2> QED
      BY <1>5, <2>1, <2>4 DEF Ordered
  <1> QED
    BY <1>1, <1>4, <1>5 DEF Ordered, Unavailable, Event

LEMMA OrderedDisconnected ==
    ASSUME IInv, NEW c \in Clients, NEW how \in {"off", "failed"}, Disconnect(c, how)
    PROVE  Ordered(c)'
  <1>1. queue'[c] = <<>> /\ lastSeq'[c] = 0
    BY DEF Disconnect, IInv, TypeOK
  <1> QED
    BY <1>1 DEF Ordered

(* The task of one client leaves the connections of the others alone.       *)
LEMMA OthersAreLeftAlone ==
    ASSUME IInv, NEW c \in Clients, NEW d \in Clients, d # c,
           Subscribe(c) \/ Subscribed(c) \/ Receive(c) \/ Leave(c)
    PROVE  /\ queue'[d] = queue[d] /\ base'[d] = base[d] /\ lastSeq'[d] = lastSeq[d]
           /\ conn'[d] = conn[d] /\ got'[d] = got[d]
  <1>1. ASSUME NEW how, Disconnect(c, how)
        PROVE  /\ queue'[d] = queue[d] /\ base'[d] = base[d] /\ lastSeq'[d] = lastSeq[d]
               /\ conn'[d] = conn[d] /\ got'[d] = got[d]
    BY <1>1 DEF Disconnect, IInv, TypeOK
  <1>2. ASSUME NEW snapshot, NEW after, OpenWith(c, snapshot, after), UNCHANGED queue
        PROVE  /\ queue'[d] = queue[d] /\ base'[d] = base[d] /\ lastSeq'[d] = lastSeq[d]
               /\ conn'[d] = conn[d] /\ got'[d] = got[d]
    BY <1>2 DEF OpenWith, IInv, TypeOK
  <1>3. CASE SubscribeRefused(c) \/ SubscribeAborted(c) \/ ReceiveAndFail(c) \/ Leave(c)
    BY <1>1, <1>3 DEF SubscribeRefused, SubscribeAborted, ReceiveAndFail, Leave
  <1>4. CASE SubscribeFirst(c)
    BY <1>2, <1>4 DEF SubscribeFirst
  <1>5. CASE SubscribeSnapshot(c)
    BY <1>2, <1>5 DEF SubscribeSnapshot
  <1>6. CASE SubscribeNext(c)
    BY <1>6 DEF SubscribeNext, IInv, TypeOK
  <1>7. CASE ReceiveEvent(c)
    BY <1>7 DEF ReceiveEvent, IInv, TypeOK
  <1> QED
    BY <1>3, <1>4, <1>5, <1>6, <1>7 DEF Subscribe, Subscribed, Receive

LEMMA OrderKeeps ==
    ASSUME IInv, IInv', HolderInv, OrderInv, [Next]_vars
    PROVE  OrderInv'
  <1> SUFFICES ASSUME NEW d \in Clients
               PROVE  Ordered(d)'
    BY DEF OrderInv
  <1>0. Ordered(d) /\ queue \in [Clients -> Seq(Messages)] /\ sequence \in Nat
        /\ lastSeen \in Nat /\ lastSeen' \in Nat /\ base[d] \in Nat
    BY CursorTypes, JournalAssumption DEF OrderInv, IInv, TypeOK
  <1>1. CASE UNCHANGED <<queue, base, lastSeq, conn>>
    BY <1>0, <1>1, OrderedKept
  <1>2. CASE MachineStep \/ UNCHANGED vars
    BY <1>1, <1>2 DEF MachineStep, vars, clientVars
  <1>3. CASE Publish
    <2>1. PICK m \in Messages : m.seq = sequence + 1 /\ Broadcast(m)
      BY <1>3 DEF Publish, Number, Event, IInv, TypeOK
    <2>2. UNCHANGED <<base, lastSeq, conn>>
      BY <1>3 DEF Publish
    <2>3. queue'[d] = queue[d] \/ queue'[d] = Append(queue[d], m)
      BY <2>1 DEF Broadcast
    <2> QED
      BY <1>0, <2>1, <2>2, <2>3, OrderedKept, OrderedAppended
  <1>4. CASE PollFailed
    <2>1. UNCHANGED <<base, lastSeq, conn>> /\ (UNCHANGED queue \/ Broadcast(Unavailable))
      BY <1>4 DEF PollFailed
    <2>2. Unavailable \in Messages
      BY JournalAssumption DEF Unavailable, Event, Messages
    <2>3. queue'[d] = queue[d] \/ queue'[d] = Append(queue[d], Unavailable)
      BY <2>1 DEF Broadcast
    <2> QED
      BY <1>0, <2>1, <2>2, <2>3, OrderedKept, OrderedAppended
  <1>5. CASE \/ Tick \/ MonitorObserves \/ MonitorFindsNoMachine
             \/ MonitorUnlocks \/ PollSucceeded
    BY <1>1, <1>5 DEF Tick, MonitorObserves, MonitorFindsNoMachine, MonitorUnlocks,
                      PollSucceeded, clientVars
  <1>6. ASSUME NEW c \in Clients, Subscribe(c) \/ Subscribed(c) \/ Receive(c) \/ Leave(c)
        PROVE  Ordered(d)'
    <2>1. CASE d # c
      <3>1. queue'[d] = queue[d] /\ base'[d] = base[d] /\ lastSeq'[d] = lastSeq[d]
            /\ conn'[d] = conn[d]
        BY <1>6, <2>1, OthersAreLeftAlone
      <3> QED
        BY <1>0, <3>1, OrderedKept
    <2>2. CASE d = c /\ SubscribeFirst(c)
      <3> DEFINE snapshot == IF active # 0 THEN lastEvent' ELSE NoEvent
      <3>1. UNCHANGED queue /\ OpenWith(c, snapshot, lastSeen')
        BY <2>2 DEF SubscribeFirst
      <3>2. /\ snapshot \in Messages
            /\ \/ snapshot = NoEvent
               \/ snapshot.seq \in 1 .. sequence' /\ numbered'[snapshot.seq] = snapshot.hit
        BY LastEventNamed, JournalAssumption DEF Names, NoEvent, Event, Messages
      <3> HIDE DEF snapshot
      <3> QED
        BY <1>0, <2>2, <3>1, <3>2, OrderedOpened
    <2>3. CASE d = c /\ SubscribeNext(c)
      <3>1. queue'[d] = queue[d] /\ lastSeq'[d] = lastSeq[d] /\ conn'[d] = "observing"
            /\ conn[d] # "open" /\ lastSeq[d] = 0
        BY <1>0, <2>3 DEF SubscribeNext, IInv, TypeOK, Ordered
      <3>2. \A i \in 1 .. Len(queue[d]) :
                queue[d][i] # Unavailable => ~ (queue[d][i].seq <= 0)
        BY DEF IInv, QueueInv, Names
      <3> QED
        BY <1>0, <3>1, <3>2 DEF Ordered, Unavailable, Event
    <2>4. CASE d = c /\ SubscribeSnapshot(c)
      <3> DEFINE snapshot ==
                   IF active # 0 /\ active = lastEvent.hit THEN lastEvent ELSE NoEvent
      <3>1. UNCHANGED <<queue, lastEvent>> /\ OpenWith(c, snapshot, base[c])
        BY <2>4 DEF SubscribeSnapshot
      <3>2. /\ snapshot \in Messages
            /\ \/ snapshot = NoEvent
               \/ snapshot.seq \in 1 .. sequence' /\ numbered'[snapshot.seq] = snapshot.hit
        BY <3>1, LastEventNamed, JournalAssumption DEF Names, NoEvent, Event, Messages
      <3> HIDE DEF snapshot
      <3> QED
        BY <1>0, <2>4, <3>1, <3>2, OrderedOpened
    <2>5. CASE d = c /\ (SubscribeRefused(c) \/ SubscribeAborted(c)
                            \/ ReceiveAndFail(c) \/ Leave(c))
      BY <2>5, OrderedDisconnected
      DEF SubscribeRefused, SubscribeAborted, ReceiveAndFail, Leave
    <2>6. CASE d = c /\ ReceiveEvent(c)
      BY <1>0, <2>6, OrderedReceived
    <2> QED
      BY <1>6, <2>1, <2>2, <2>3, <2>4, <2>5, <2>6 DEF Subscribe, Subscribed, Receive
  <1> QED
    BY <1>2, <1>3, <1>4, <1>5, <1>6 DEF Next, MonitorStep

-----------------------------------------------------------------------------
(* Every stop that the cursor has passed has been told, or waits, or is lost. *)

LEMMA InQueueTypes ==
    ASSUME IInv, NEW c \in Clients
    PROVE  queue[c] \in Seq(Messages) /\ Len(queue[c]) \in Nat /\ base[c] \in Nat
  BY CursorTypes

(* What was told stays told, and what the machine lost stays lost.           *)
LEMMA ToldKept ==
    ASSUME IInv, NEW c \in Clients, NEW h \in Nat, Told(c, h),
           dropped \subseteq dropped', got[c] \subseteq got'[c],
           base'[c] \in Nat, base[c] <= base'[c],
           \/ queue'[c] = queue[c]
           \/ \E m \in Messages : queue'[c] = Append(queue[c], m)
    PROVE  Told(c, h)'
  <1>1. queue[c] \in Seq(Messages) /\ Len(queue[c]) \in Nat /\ base[c] \in Nat /\ ChannelCap \in Nat
    BY CursorTypes
  <1>2. CASE h <= base[c] \/ h \in got[c] \cup dropped
    BY <1>1, <1>2 DEF Told
  <1>3. CASE queue'[c] = queue[c]
    BY <1>1, <1>2, <1>3 DEF Told, InQueue
  <1>4. ASSUME NEW m \in Messages, queue'[c] = Append(queue[c], m)
        PROVE  Told(c, h)'
    <2>1. Len(queue'[c]) = Len(queue[c]) + 1 /\ \A i \in 1 .. Len(queue[c]) : queue'[c][i] = queue[c][i]
      BY <1>1, <1>4
    <2>2. CASE Len(queue[c]) > ChannelCap
      BY <1>1, <2>1, <2>2 DEF Told
    <2>3. CASE InQueue(c, h)
      <3>1. PICK i \in 1 .. Len(queue[c]) : queue[c][i].hit = h
        BY <2>3 DEF InQueue
      <3>2. i \in 1 .. Len(queue'[c]) /\ queue'[c][i].hit = h
        BY <1>1, <2>1, <3>1
      <3> QED
        BY <3>2 DEF Told, InQueue
    <2> QED
      BY <1>2, <2>2, <2>3 DEF Told
  <1> QED
    BY <1>3, <1>4

(* The published stop goes into every receiver that has room for it.        *)
LEMMA ToldByBroadcast ==
    ASSUME IInv, NEW c \in Receivers, NEW m \in Messages, Broadcast(m)
    PROVE  (\E i \in 1 .. Len(queue'[c]) : queue'[c][i] = m) \/ Len(queue[c]) > ChannelCap
  <1>1. c \in Clients /\ queue[c] \in Seq(Messages) /\ Len(queue[c]) \in Nat /\ ChannelCap \in Nat
    BY CursorTypes DEF Receivers
  <1>2. CASE Len(queue[c]) <= ChannelCap
    <2>1. queue'[c] = Append(queue[c], m)
      BY <1>1, <1>2 DEF Broadcast
    <2>2. Len(queue[c]) + 1 \in 1 .. Len(queue'[c]) /\ queue'[c][Len(queue[c]) + 1] = m
      BY <1>1, <2>1
    <2> QED
      BY <2>2
  <1> QED
    BY <1>1, <1>2

(* An event that the filter drops predates the connection.                  *)
LEMMA ToldByReceiving ==
    ASSUME IInv, NEW c \in Clients, Ordered(c), ReceiveEvent(c), NEW h \in 1 .. lastSeen, Told(c, h)
    PROVE  Told(c, h)'
  <1> DEFINE q == queue[c]
  <1>1. q \in Seq(Messages) /\ q # <<>> /\ Head(q) # Unavailable /\ queue'[c] = Tail(q)
        /\ Len(q) <= ChannelCap /\ UNCHANGED <<base, dropped>>
    BY DEF ReceiveEvent, IInv, TypeOK
  <1>2. Len(q) \in Nat /\ Len(q) >= 1 /\ Head(q) = q[1] /\ Len(queue'[c]) = Len(q) - 1
        /\ \A i \in 1 .. Len(q) - 1 : queue'[c][i] = q[i + 1]
    BY <1>1
  <1>3. got[c] \subseteq got'[c]
    BY DEF ReceiveEvent, IInv, TypeOK
  <1>4. CASE h <= base[c] \/ h \in got[c] \cup dropped
    BY <1>1, <1>3, <1>4 DEF Told
  <1>5. ASSUME NEW i \in 1 .. Len(q), q[i].hit = h
        PROVE  Told(c, h)'
    <2>1. CASE i = 1 /\ Head(q).seq > lastSeq[c]
      <3>1. h \in got'[c]
        BY <1>2, <1>5, <2>1 DEF ReceiveEvent, IInv, TypeOK
      <3> QED
        BY <3>1 DEF Told
    <2>2. CASE i = 1 /\ ~(Head(q).seq > lastSeq[c])
      <3>1. q[1] \in Messages /\ lastSeq[c] \in Nat /\ 1 \in 1 .. Len(q)
        BY <1>1, <1>2, CursorTypes
      <3>2. q[1].seq <= lastSeq[c]
        BY <1>2, <2>2, <3>1, CursorTypes
      <3>3. h <= base[c]
        BY <1>1, <1>2, <1>5, <2>2, <3>1, <3>2 DEF Ordered
      <3> QED
        BY <1>4, <3>3
    <2>3. CASE i # 1
      <3>1. i - 1 \in 1 .. Len(queue'[c]) /\ queue'[c][i - 1] = q[i]
        BY <1>2, <2>3
      <3> QED
        BY <1>5, <3>1 DEF Told, InQueue
    <2> QED
      BY <2>1, <2>2, <2>3
  <1>6. ~(Len(q) > ChannelCap)
    BY <1>1, <1>2, CursorTypes
  <1> QED
    BY <1>4, <1>5, <1>6 DEF Told, InQueue

LEMMA ToldKeeps ==
    ASSUME IInv, IInv', HolderInv, SeenInv, OrderInv, ToldInv, [Next]_vars
    PROVE  ToldInv'
  <1> SUFFICES ASSUME NEW d \in Receivers', NEW h \in 1 .. lastSeen'
               PROVE  Told(d, h)'
    BY DEF ToldInv
  <1>0. d \in Clients /\ h \in Nat /\ lastSeen \in Nat /\ latestId \in Nat
        /\ lastSeen' \in Nat /\ base[d] \in Nat /\ base'[d] \in Nat /\ ChannelCap \in Nat
        /\ 1 <= h /\ h <= lastSeen'
    BY CursorTypes, JournalAssumption DEF IInv, TypeOK, Receivers
  <1>1. ASSUME d \in Receivers, UNCHANGED <<base, got>>, dropped \subseteq dropped',
               h <= lastSeen \/ h \in dropped',
               \/ queue'[d] = queue[d]
               \/ \E m \in Messages : queue'[d] = Append(queue[d], m)
        PROVE  Told(d, h)'
    <2>1. CASE h \in dropped'
      BY <2>1 DEF Told
    <2>2. CASE h <= lastSeen
      <3>1. Told(d, h)
        BY <1>0, <1>1, <2>2 DEF ToldInv
      <3> QED
        BY <1>0, <1>1, <3>1, ToldKept
    <2> QED
      BY <1>1, <2>1, <2>2
  <1>2. CASE MachineStep \/ UNCHANGED vars
    <2>1. UNCHANGED <<conn, base, got, queue, lastSeen>> /\ dropped \subseteq dropped'
      BY <1>2 DEF MachineStep, vars, clientVars, hubVars
    <2> QED
      BY <1>0, <1>1, <2>1 DEF Receivers
  <1>3. CASE Publish
    <2>1. PICK g \in Oldest(pending) :
              Number(g) /\ lastSeen' = g /\ pending' = pending \ {g} /\ Broadcast(lastEvent')
      BY <1>3 DEF Publish
    <2>2. UNCHANGED <<conn, base, got, dropped>> /\ d \in Receivers
      BY <1>3 DEF Publish, Receivers
    <2>3. PICK m \in Messages : m.hit = g /\ Broadcast(m)
      BY <2>1 DEF Number, Event, IInv, TypeOK
    <2>4. queue'[d] = queue[d] \/ queue'[d] = Append(queue[d], m)
      BY <1>0, <2>3 DEF Broadcast
    <2>5. CASE h = g
      <3>1. (\E i \in 1 .. Len(queue'[d]) : queue'[d][i] = m) \/ Len(queue[d]) > ChannelCap
        BY <2>2, <2>3, ToldByBroadcast
      <3>2. queue[d] \in Seq(Messages)
        BY <1>0, CursorTypes
      <3>3. Len(queue[d]) > ChannelCap => Len(queue'[d]) > ChannelCap
        BY <1>0, <2>3, <2>4, <3>2
      <3>4. InQueue(d, h)' \/ Len(queue'[d]) > ChannelCap
        BY <2>3, <2>5, <3>1, <3>3 DEF InQueue
      <3> QED
        BY <3>4 DEF Told
    <2>6. CASE h # g
      <3>1. h <= lastSeen \/ h \in dropped
        BY <1>0, <2>1, <2>6, PublishedNext
      <3> QED
        BY <1>1, <2>2, <2>3, <2>4, <3>1
    <2> QED
      BY <2>5, <2>6
  <1>4. CASE PollFailed
    <2>1. UNCHANGED <<conn, base, got, dropped, lastSeen>>
          /\ (UNCHANGED queue \/ Broadcast(Unavailable))
      BY <1>4 DEF PollFailed, hubVars
    <2>2. Unavailable \in Messages
      BY JournalAssumption DEF Unavailable, Event, Messages
    <2>3. queue'[d] = queue[d] \/ queue'[d] = Append(queue[d], Unavailable)
      BY <1>0, <2>1 DEF Broadcast
    <2> QED
      BY <1>0, <1>1, <2>1, <2>2, <2>3 DEF Receivers
  <1>5. ASSUME pending = {}, lastSeen' = AtLeast(lastSeen, latestId), UNCHANGED dropped
        PROVE  h <= lastSeen \/ h \in dropped'
    BY <1>0, <1>5 DEF AtLeast, SeenInv
  <1>6. CASE MonitorUnlocks
    <2>1. UNCHANGED <<conn, base, got, queue, dropped>> /\ pending = {}
          /\ lastSeen' = AtLeast(lastSeen, latestId)
      BY <1>6 DEF MonitorUnlocks, clientVars
    <2> QED
      BY <1>1, <1>5, <2>1 DEF Receivers
  <1>7. CASE Tick \/ MonitorObserves \/ MonitorFindsNoMachine \/ PollSucceeded
    <2>1. UNCHANGED <<conn, base, got, queue, dropped, lastSeen>>
      BY <1>7 DEF Tick, MonitorObserves, ObserveLocked, MonitorFindsNoMachine,
                  PollSucceeded, clientVars, hubVars
    <2> QED
      BY <1>0, <1>1, <2>1 DEF Receivers
  <1>8. ASSUME NEW c \in Clients, Subscribe(c) \/ Subscribed(c) \/ Receive(c) \/ Leave(c)
        PROVE  Told(d, h)'
    <2>1. UNCHANGED dropped
      BY <1>8 DEF Subscribe, SubscribeFirst, SubscribeNext, SubscribeRefused, Subscribed,
                  SubscribeSnapshot, SubscribeAborted, Receive, ReceiveAndFail, ReceiveEvent,
                  Leave
    <2>2. CASE d # c
      <3>1. queue'[d] = queue[d] /\ base'[d] = base[d] /\ got'[d] = got[d] /\ conn'[d] = conn[d]
        BY <1>0, <1>8, <2>2, OthersAreLeftAlone
      <3>2. d \in Receivers
        BY <1>0, <3>1 DEF Receivers
      <3>3. h <= lastSeen \/ h \in dropped'
        <4>1. CASE SubscribeFirst(c)
          BY <3>2, <4>1 DEF SubscribeFirst
        <4>2. CASE SubscribeSnapshot(c) \/ SubscribeAborted(c)
          BY <1>5, <2>1, <4>2 DEF SubscribeSnapshot, SubscribeAborted
        <4>3. CASE \/ SubscribeNext(c) \/ SubscribeRefused(c) \/ ReceiveAndFail(c)
                   \/ ReceiveEvent(c) \/ Leave(c)
          <5>1. lastSeen' = lastSeen
            BY <4>3 DEF SubscribeNext, ObserveLocked, SubscribeRefused, ReceiveAndFail,
                        ReceiveEvent, Leave, hubVars
          <5> QED
            BY <1>0, <5>1
        <4> QED
          BY <1>8, <4>1, <4>2, <4>3 DEF Subscribe, Subscribed, Receive
      <3>4. CASE h \in dropped'
        BY <3>4 DEF Told
      <3>5. CASE h <= lastSeen
        <4>1. Told(d, h)
          BY <1>0, <3>2, <3>5 DEF ToldInv
        <4> QED
          BY <1>0, <2>1, <3>1, <4>1, ToldKept
      <3> QED
        BY <3>3, <3>4, <3>5
    <2>3. CASE d = c /\ SubscribeFirst(c)
      <3>1. base'[d] = AtLeast(lastSeen', (IF active # 0 THEN lastEvent' ELSE NoEvent).hit)
        BY <1>0, <2>3 DEF SubscribeFirst, OpenWith, IInv, TypeOK
      <3>2. (IF active # 0 THEN lastEvent' ELSE NoEvent).hit \in Nat
        BY LastEventNamed, JournalAssumption DEF Messages, NoEvent, Event
      <3>3. h <= base'[d]
        BY <1>0, <3>1, <3>2 DEF AtLeast
      <3> QED
        BY <3>3 DEF Told
    <2>4. CASE d = c /\ SubscribeNext(c)
      <3>1. base'[d] = lastSeen /\ lastSeen' = lastSeen
        BY <1>0, <2>4 DEF SubscribeNext, ObserveLocked, IInv, TypeOK
      <3> QED
        BY <1>0, <3>1 DEF Told
    <2>5. CASE d = c /\ SubscribeSnapshot(c)
      <3> DEFINE snapshot ==
                   IF active # 0 /\ active = lastEvent.hit THEN lastEvent ELSE NoEvent
      <3>1. UNCHANGED queue /\ holder = d /\ base'[d] = AtLeast(base[d], snapshot.hit)
        BY <1>0, <2>5 DEF SubscribeSnapshot, OpenWith, IInv, TypeOK
      <3>2. h <= lastSeen \/ h \in dropped'
        BY <1>5, <2>5 DEF SubscribeSnapshot
      <3>3. snapshot.hit \in Nat
        BY JournalAssumption DEF IInv, TypeOK, Messages, NoEvent, Event
      <3>4. base[d] <= base'[d]
        <4> HIDE DEF snapshot
        <4> QED
          BY <1>0, <3>1, <3>3 DEF AtLeast
      <3>5. conn[d] = "observing" /\ got[d] = {}
        BY <1>0, <3>1 DEF HolderInv, IInv, DeliveryInv
      <3>6. CASE h \in dropped'
        BY <3>6 DEF Told
      <3>7. CASE h <= lastSeen
        <4>1. Told(d, h)
          BY <1>0, <3>5, <3>7 DEF ToldInv, Receivers
        <4> QED
          BY <1>0, <2>1, <3>1, <3>4, <3>5, <4>1, ToldKept
      <3> QED
        BY <3>2, <3>6, <3>7
    <2>6. CASE d = c /\ (SubscribeRefused(c) \/ SubscribeAborted(c)
                            \/ ReceiveAndFail(c) \/ Leave(c))
      <3>1. conn'[d] \in {"off", "failed"}
        BY <1>0, <2>6 DEF SubscribeRefused, SubscribeAborted, ReceiveAndFail, Leave,
                          Disconnect, IInv, TypeOK
      <3> QED
        BY <3>1 DEF Receivers
    <2>7. CASE d = c /\ ReceiveEvent(c)
      <3>1. lastSeen' = lastSeen /\ conn[d] = "open" /\ Ordered(d)
        BY <1>0, <2>7 DEF ReceiveEvent, hubVars, OrderInv
      <3>2. Told(d, h)
        BY <1>0, <3>1 DEF ToldInv, Receivers
      <3> QED
        BY <1>0, <2>7, <3>1, <3>2, ToldByReceiving
    <2> QED
      BY <1>8, <2>2, <2>3, <2>4, <2>5, <2>6, <2>7 DEF Subscribe, Subscribed, Receive
  <1> QED
    BY <1>2, <1>3, <1>4, <1>6, <1>7, <1>8 DEF Next, MonitorStep

(* The hub skips no stop silently: whatever its cursor has passed since a   *)
(* connection opened has reached the client, waits in its receiver or was   *)
(* lost by the machine before a poll, or the receiver is about to be closed *)
(* for its lag.  Two cursors meet here, the hub's and each client's, and    *)
(* the history of the machine that both may fall behind.                    *)
THEOREM NothingIsSkipped == Spec => []NoSilentGap
  <1>1. Init => GapInv
    BY JournalAssumption
    DEF Init, JournalInit, GapInv, SeenInv, OrderInv, Ordered, ToldInv, Receivers
  <1>2. IInv /\ IInv' /\ HolderInv /\ GapInv /\ [Next]_vars => GapInv'
    BY SeenKeeps, OrderKeeps, ToldKeeps DEF GapInv
  <1>3. GapInv => NoSilentGap
    BY DEF GapInv, ToldInv, Told, Receivers, NoSilentGap
  <1> QED
    BY <1>1, <1>2, <1>3, Invariance, HolderInvariance, PTL DEF Spec

=============================================================================
