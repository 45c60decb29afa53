-------------------------- MODULE TapeTitles_proofs --------------------------
(***************************************************************************)
(* Proofs about tape titles and their cache, for any files, digests and      *)
(* services and any number of lookups.                                      *)
(***************************************************************************)
EXTENDS TapeTitles, TLAPS

-----------------------------------------------------------------------------
(* The inductive invariant, in named parts.                                 *)

(* A lookup, and what it delivers, belongs to a generation of the past or    *)
(* the present, and delivers once; an identity that no lookup was started    *)
(* for, or whose lookup is done, has nothing on its way.                    *)
LookupsInv ==
    /\ \A g \in Generations : g > generation => lookup[g] = Resting
    /\ inbox # Empty =>
        /\ inbox.generation <= generation
        /\ inbox.title = OnlineTitle(inbox.sha)
        /\ lookup[inbox.generation] = Resting
    /\ identity # NoIdentity =>
        /\ generation \in Generations
        /\ identity.source # "filename" =>
            /\ lookup[generation] = Resting
            /\ inbox # Empty => inbox.generation # generation

(* The one lookup in cache_put has a document that holds the whole cache,    *)
(* and the temporary file for itself.                                       *)
CacheInv ==
    ~overlapped =>
        /\ cacheFile.state \in {"absent", "whole"}
        /\ \A g, h \in Generations : InPut(g) /\ InPut(h) => g = h
        /\ \A g \in Generations :
            /\ InPut(g) => cacheFile.entries \subseteq lookup[g].document
            /\ lookup[g].at \in {"write", "rename"} => lookup[g].fd = "tmp"
            /\ lookup[g].at = "write" => tmpFile = Blank
            /\ lookup[g].at = "rename" => tmpFile = Whole(lookup[g].document)

TitlesInv ==
    /\ TypeOK
    /\ TitleBelongsToTape
    /\ LookupsInv
    /\ CacheInv

-----------------------------------------------------------------------------

LEMMA FileTypes ==
    /\ Absent \in FileStates /\ Blank \in FileStates /\ Torn \in FileStates
    /\ \A entries \in SUBSET Shas : Whole(entries) \in FileStates
    /\ \A x \in FileStates : x.entries \in SUBSET Shas
  <1>1. /\ Absent \in FileStates /\ Blank \in FileStates /\ Torn \in FileStates
        /\ \A entries \in SUBSET Shas : Whole(entries) \in FileStates
    BY DEF FileStates
  <1>2. ASSUME NEW x \in FileStates
        PROVE  x.entries \in SUBSET Shas
    <2>1. CASE x \in {Absent, Blank, Torn}
      <3>1. {} \in SUBSET Shas
        OBVIOUS
      <3> QED
        BY <2>1, <3>1 DEF Absent, Blank, Torn
    <2>2. CASE \E entries \in SUBSET Shas : x = Whole(entries)
      BY <2>2 DEF Whole
    <2> QED
      BY <2>1, <2>2 DEF FileStates
  <1> QED
    BY <1>1, <1>2

LEMMA WrittenTypes ==
    ASSUME NEW before, NEW document \in SUBSET Shas
    PROVE  Written(before, document) \subseteq FileStates
  BY FileTypes DEF Written

LEMMA LookupTypes ==
    ASSUME TypeOK, NEW g \in Generations, lookup[g].at # "resting"
    PROVE  /\ lookup[g] \in Lookups
           /\ lookup[g].sha \in Shas
           /\ lookup[g].source \in {"cached", "online"}
           /\ lookup[g].document \in SUBSET Shas
           /\ lookup[g].fd \in {"none", "tmp", "cache", "unlinked"}
           /\ lookup[g].at \in Steps
  BY DEF TypeOK, Lookups, Resting

LEMMA StartedTypes == \A s \in Shas : Started(s) \in Lookups
  BY DEF Started, Lookups, Steps

LEMMA IdentifiedTypes ==
    ASSUME NEW f \in Files
    PROVE  /\ IdentifyBytes(f) \in Identities
           /\ IdentifyBytes(f).file = f
           /\ IdentifyBytes(f).title \in {FileName(f), CatalogueTitle(Content[f])}
           /\ Content[f] \in Shas
           /\ NoFile \notin Files
           /\ IdentifyBytes(f) # NoIdentity
  BY TitlesAssumption DEF IdentifyBytes, Identities, Titles, NoIdentity

LEMMA IdentityTypes ==
    /\ \A id \in Identities : id.file \in Files /\ id # NoIdentity
    /\ NoIdentity.file = NoFile
  BY TitlesAssumption DEF Identities, NoIdentity

LEMMA MessageTypes ==
    /\ \A m \in Messages : m # Empty /\ m.generation \in Generations /\ m.sha \in Shas
                           /\ m.title \in Titles /\ m.source \in {"cached", "online"}
    /\ \A g \in Generations, s \in Shas, source \in {"cached", "online"} :
         [kind |-> "pending", generation |-> g, sha |-> s,
          title |-> OnlineTitle(s), source |-> source] \in Messages
  <1>1. \A s \in Shas : OnlineTitle(s) \in Titles
    BY DEF Titles
  <1>2. \A m \in Messages : m # Empty
    BY DEF Messages, Empty
  <1> QED
    BY <1>1, <1>2 DEF Messages

-----------------------------------------------------------------------------
(* Types.                                                                   *)

(* A step of lookup g that only moves it on, or ends it, keeps the types. *)
LEMMA MovingOnTypes ==
    ASSUME TypeOK, NEW g \in Generations, NEW l \in Lookups \cup {Resting},
           lookup' = [lookup EXCEPT ![g] = l]
    PROVE  lookup' \in [Generations -> Lookups \cup {Resting}]
  BY DEF TypeOK

LEMMA SessionStepTypes == TypeOK /\ SessionStep => TypeOK'
  <1> SUFFICES ASSUME TypeOK, SessionStep
               PROVE  TypeOK'
    OBVIOUS
  <1> USE DEF TypeOK
  <1>a. NewGeneration => generation' \in Generations /\ generation' = generation + 1
                         /\ inbox' \in Messages \cup {Empty}
    BY TitlesAssumption DEF NewGeneration, Generations
  <1>b. Generations \subseteq 0 .. MaxGeneration
    BY TitlesAssumption DEF Generations
  <1>1. CASE \E f \in Files : OpenTape(f)
    <2>1. PICK f \in Files : OpenTape(f)
      BY <1>1
    <2> DEFINE id == IdentifyBytes(f)
    <2>2. id \in Identities /\ id.file = f /\ Content[f] \in Shas
      BY IdentifiedTypes
    <2>3. /\ generation' \in Generations /\ generation' = generation + 1
          /\ inbox' \in Messages \cup {Empty} /\ identity' = id
      BY <2>1, <1>a DEF OpenTape, Install
    <2>4. Started(Content[id.file]) \in Lookups
      BY <2>2, StartedTypes
    <2>5. lookup' = lookup \/ lookup' = [lookup EXCEPT ![generation + 1] = Started(Content[id.file])]
      BY <2>1 DEF OpenTape, Install
    <2>6. lookup' \in [Generations -> Lookups \cup {Resting}]
      BY <2>3, <2>4, <2>5
    <2>7. runtime' = runtime /\ deck' = f /\ online' = online /\ overlapped' = overlapped
          /\ cacheFile' = cacheFile /\ tmpFile' = tmpFile
      BY <2>1 DEF OpenTape, disk
    <2> QED
      BY <2>2, <2>3, <2>6, <2>7, <1>b
  <1>2. CASE EjectTape
    BY <1>2, <1>a, <1>b DEF EjectTape, ClearIdentity, disk
  <1>3. CASE \E r \in {"none", "classic"} : ReplaceMachine(r)
    BY <1>3 DEF ReplaceMachine, disk
  <1>4. CASE \E r \in {"none", "classic", "next"} : ReplaceAndClear(r)
    BY <1>4, <1>a, <1>b DEF ReplaceAndClear, ClearIdentity, disk
  <1>5. CASE SetOnlineTapeTitles
    BY <1>5 DEF SetOnlineTapeTitles, disk
  <1>6. CASE ApplyPendingMediaTitle
    <2>1. identity' \in Identities \cup {NoIdentity}
      <3>1. CASE Fits(inbox)
        <4>1. identity \in Identities
          BY <3>1 DEF Fits
        <4>2. inbox \in Messages
          BY <1>6 DEF ApplyPendingMediaTitle
        <4>3. identity' = [identity EXCEPT !.title = inbox.title, !.source = inbox.source]
          BY <1>6, <3>1 DEF ApplyPendingMediaTitle
        <4> QED
          BY <4>1, <4>2, <4>3, MessageTypes DEF Identities
      <3>2. CASE ~Fits(inbox)
        BY <1>6, <3>2 DEF ApplyPendingMediaTitle
      <3> QED
        BY <3>1, <3>2
    <2> QED
      BY <1>6, <2>1 DEF ApplyPendingMediaTitle, disk
  <1> QED
    BY <1>1, <1>2, <1>3, <1>4, <1>5, <1>6 DEF SessionStep

LEMMA LookupStepTypes ==
    ASSUME TypeOK, NEW g \in Generations, LookupStep(g)
    PROVE  TypeOK'
  <1> DEFINE Rest == /\ runtime' = runtime /\ deck' = deck /\ generation' = generation
                     /\ identity' = identity /\ online' = online
  <1>0. Rest
    BY DEF LookupStep, CacheGet, FetchHit, FetchMiss, CachePutRead, CreateTmp, WriteTmp,
           Rename, CachePutFails, Report, session
  <1>1. inbox' \in Messages \cup {Empty}
    <2>1. CASE Report(g)
      <3>1. lookup[g].sha \in Shas /\ lookup[g].source \in {"cached", "online"}
        BY <2>1, LookupTypes DEF Report
      <3> QED
        BY <2>1, <3>1, MessageTypes DEF Report
    <2>2. CASE ~Report(g)
      BY <2>2 DEF LookupStep, CacheGet, FetchHit, FetchMiss, CachePutRead, CreateTmp,
                  WriteTmp, Rename, CachePutFails, TypeOK
    <2> QED
      BY <2>1, <2>2
  <1>2. cacheFile' \in FileStates /\ tmpFile' \in FileStates
    <2> USE DEF TypeOK
    <2>1. CASE WriteTmp(g)
      <3>1. lookup[g].document \in SUBSET Shas
        BY <2>1, LookupTypes DEF WriteTmp
      <3>2. /\ Written(tmpFile, lookup[g].document) \subseteq FileStates
            /\ Written(cacheFile, lookup[g].document) \subseteq FileStates
        BY <3>1, WrittenTypes
      <3> QED
        BY <2>1, <3>2 DEF WriteTmp
    <2>2. CASE CreateTmp(g) \/ Rename(g) \/ CachePutFails(g)
      BY <2>2, FileTypes DEF CreateTmp, Rename, CachePutFails
    <2>3. CASE CacheGet(g) \/ FetchHit(g) \/ FetchMiss(g) \/ CachePutRead(g) \/ Report(g)
      BY <2>3 DEF CacheGet, FetchHit, FetchMiss, CachePutRead, Report, disk
    <2> QED
      BY <2>1, <2>2, <2>3 DEF LookupStep
  <1>3. overlapped' \in BOOLEAN
    <2>1. CASE CachePutRead(g)
      <3> DEFINE b == \E h \in Generations : InPut(h)
      <3>1. overlapped' = (overlapped \/ b)
        BY <2>1 DEF CachePutRead
      <3>2. b \in BOOLEAN
        OBVIOUS
      <3> QED
        BY <3>1, <3>2, Zenon
    <2>2. CASE ~CachePutRead(g)
      BY <2>2 DEF LookupStep, CacheGet, FetchHit, FetchMiss, CreateTmp, WriteTmp, Rename,
                  CachePutFails, Report, TypeOK
    <2> QED
      BY <2>1, <2>2
  <1>4. lookup' \in [Generations -> Lookups \cup {Resting}]
    <2>1. CASE CacheGet(g) \/ WriteTmp(g)
      <3>1. /\ lookup[g] \in Lookups
            /\ \E step \in Steps : lookup' = [lookup EXCEPT ![g].at = step]
        BY <2>1, LookupTypes DEF CacheGet, WriteTmp, Goto, Steps
      <3> QED
        BY <3>1 DEF TypeOK, Lookups
    <2>2. CASE FetchHit(g) \/ CachePutRead(g) \/ CreateTmp(g) \/ CachePutFails(g)
      <3>1. lookup[g] \in Lookups
        BY <2>2, LookupTypes DEF FetchHit, CachePutRead, CreateTmp, CachePutFails, InPut
      <3>2. CASE FetchHit(g)
        BY <3>1, <3>2 DEF FetchHit, TypeOK, Lookups, Steps
      <3>3. CASE CachePutRead(g)
        <4>1. cacheFile.entries \cup {lookup[g].sha} \in SUBSET Shas
          <5>1. cacheFile.entries \in SUBSET Shas /\ lookup[g].sha \in Shas
            BY <3>1, FileTypes DEF TypeOK, Lookups
          <5> QED
            BY <5>1
        <4> QED
          BY <3>1, <3>3, <4>1 DEF CachePutRead, TypeOK, Lookups, Steps
      <3>4. CASE CreateTmp(g)
        BY <3>1, <3>4 DEF CreateTmp, TypeOK, Lookups, Steps
      <3>5. CASE CachePutFails(g)
        BY <3>1, <3>5 DEF CachePutFails, TypeOK, Lookups, Steps
      <3> QED
        BY <2>2, <3>2, <3>3, <3>4, <3>5
    <2>3. CASE FetchMiss(g) \/ Report(g)
      BY <2>3, MovingOnTypes DEF FetchMiss, Report, Ends
    <2>4. CASE Rename(g)
      <3>1. \A l \in Lookups \cup {Resting} : Renamed(l) \in Lookups \cup {Resting}
        BY DEF Renamed, Lookups
      <3>2. lookup[g] \in Lookups
        BY <2>4, LookupTypes DEF Rename
      <3>3. [lookup[g] EXCEPT !.at = "report", !.fd = "none"] \in Lookups
        BY <3>2 DEF Lookups, Steps
      <3>4. \A h \in Generations : lookup[h] \in Lookups \cup {Resting}
        BY DEF TypeOK
      <3>5. lookup' = [h \in Generations |->
                        IF h = g THEN [lookup[g] EXCEPT !.at = "report", !.fd = "none"]
                        ELSE Renamed(lookup[h])]
        BY <2>4 DEF Rename
      <3> QED
        BY <3>1, <3>3, <3>4, <3>5
    <2> QED
      BY <2>1, <2>2, <2>3, <2>4 DEF LookupStep
  <1> QED
    BY <1>0, <1>1, <1>2, <1>3, <1>4 DEF TypeOK

LEMMA RestartTypes == TypeOK /\ Restart => TypeOK'
  <1>1. 0 \in 0 .. MaxGeneration
    BY TitlesAssumption
  <1>2. ASSUME TypeOK, Restart
        PROVE  [g \in Generations |-> Resting] \in [Generations -> Lookups \cup {Resting}]
    OBVIOUS
  <1> QED
    BY <1>1, <1>2 DEF TypeOK, Restart, disk

LEMMA InitTypes == Init => TypeOK
  <1>1. 0 \in 0 .. MaxGeneration
    BY TitlesAssumption
  <1>2. [g \in Generations |-> Resting] \in [Generations -> Lookups \cup {Resting}]
    OBVIOUS
  <1>3. Init => cacheFile \in FileStates /\ tmpFile \in FileStates
    BY FileTypes DEF Init
  <1> QED
    BY <1>1, <1>2, <1>3 DEF Init, TypeOK

LEMMA TypesKept == TypeOK /\ [Next]_vars => TypeOK'
  <1>1. TypeOK /\ UNCHANGED vars => TypeOK'
    BY DEF TypeOK, vars, session, disk
  <1> QED
    BY <1>1, SessionStepTypes, LookupStepTypes, RestartTypes DEF Next

-----------------------------------------------------------------------------
(* What is shown.                                                           *)

LEMMA TitleKept ==
    TypeOK /\ TitleBelongsToTape /\ LookupsInv /\ [Next]_vars => TitleBelongsToTape'
  <1> SUFFICES ASSUME TypeOK, TitleBelongsToTape, LookupsInv, [Next]_vars
               PROVE  TitleBelongsToTape'
    OBVIOUS
  <1>1. CASE UNCHANGED vars \/ \E g \in Generations : LookupStep(g)
    <2>1. deck' = deck /\ identity' = identity
      BY <1>1 DEF vars, session, LookupStep, CacheGet, FetchHit, FetchMiss, CachePutRead,
                  CreateTmp, WriteTmp, Rename, CachePutFails, Report
    <2> QED
      BY <2>1 DEF TitleBelongsToTape
  <1>2. CASE Restart
    BY <1>2 DEF Restart, TitleBelongsToTape
  <1>3. CASE \E f \in Files : OpenTape(f)
    BY <1>3, IdentifiedTypes DEF OpenTape, Install, TitleBelongsToTape
  <1>4. CASE EjectTape \/ (\E r \in {"none", "classic"} : ReplaceMachine(r))
             \/ (\E r \in {"none", "classic", "next"} : ReplaceAndClear(r))
    BY <1>4 DEF EjectTape, ReplaceMachine, ReplaceAndClear, TitleBelongsToTape
  <1>5. CASE SetOnlineTapeTitles
    BY <1>5 DEF SetOnlineTapeTitles, TitleBelongsToTape
  <1>6. CASE ApplyPendingMediaTitle
    <2>1. deck' = deck
      BY <1>6 DEF ApplyPendingMediaTitle
    <2>2. CASE ~Fits(inbox)
      BY <1>6, <2>1, <2>2 DEF ApplyPendingMediaTitle, TitleBelongsToTape
    <2>3. CASE Fits(inbox)
      <3>1. deck # NoFile /\ identity \in Identities /\ identity.file = deck
        BY <2>3 DEF Fits, TitleBelongsToTape, TypeOK
      <3>2. inbox.title = OnlineTitle(Content[deck])
        BY <1>6, <2>3, <3>1 DEF ApplyPendingMediaTitle, LookupsInv, Fits
      <3>3. identity' = [identity EXCEPT !.title = inbox.title, !.source = inbox.source]
        BY <1>6, <2>3 DEF ApplyPendingMediaTitle
      <3>4. identity'.file = deck /\ identity'.title = OnlineTitle(Content[deck])
        BY <3>1, <3>2, <3>3 DEF Identities
      <3>5. identity' # NoIdentity
        BY <3>1, <3>4, IdentityTypes
      <3> QED
        BY <2>1, <3>4, <3>5 DEF TitleBelongsToTape
    <2> QED
      BY <2>2, <2>3
  <1> QED
    BY <1>1, <1>2, <1>3, <1>4, <1>5, <1>6 DEF Next, SessionStep

LEMMA LookupsKept == TypeOK /\ LookupsInv /\ [Next]_vars => LookupsInv'
  <1> SUFFICES ASSUME TypeOK, LookupsInv, [Next]_vars
               PROVE  LookupsInv'
    OBVIOUS
  <1>0. generation \in Nat /\ (\A g \in Generations : g \in Nat)
    BY TitlesAssumption DEF TypeOK, Generations
  <1>1. CASE UNCHANGED vars
    BY <1>1 DEF vars, session, LookupsInv
  <1>2. CASE Restart
    BY <1>2 DEF Restart, LookupsInv
  <1>3. CASE NewGeneration /\ lookup' = lookup /\ identity' = NoIdentity
    BY <1>0, <1>3 DEF NewGeneration, LookupsInv
  <1>4. CASE \E f \in Files : OpenTape(f)
    <2>1. PICK f \in Files : OpenTape(f)
      BY <1>4
    <2> DEFINE id == IdentifyBytes(f)
    <2>2. /\ generation' = generation + 1 /\ generation' \in Generations
          /\ inbox' = Empty /\ identity' = id
      BY <2>1, <1>0, TitlesAssumption DEF OpenTape, Install, NewGeneration, Generations
    <2>3. CASE LooksUp(id)
      <3>1. lookup' = [lookup EXCEPT ![generation + 1] = Started(Content[id.file])]
        BY <2>1, <2>3 DEF OpenTape, Install
      <3>2. id.source = "filename"
        BY <2>3 DEF LooksUp
      <3> HIDE DEF id
      <3> QED
        BY <1>0, <2>2, <3>1, <3>2 DEF LookupsInv, TypeOK
    <2>4. CASE ~LooksUp(id)
      <3>1. lookup' = lookup
        BY <2>1, <2>4 DEF OpenTape, Install
      <3> HIDE DEF id
      <3> QED
        BY <1>0, <2>2, <3>1 DEF LookupsInv, TypeOK
    <2> QED
      BY <2>3, <2>4
  <1>5. CASE SetOnlineTapeTitles \/ \E r \in {"none", "classic"} : ReplaceMachine(r)
    BY <1>5 DEF SetOnlineTapeTitles, ReplaceMachine, LookupsInv
  <1>6. CASE ApplyPendingMediaTitle
    <2>1. inbox # Empty /\ inbox' = Empty /\ generation' = generation /\ lookup' = lookup
      BY <1>6 DEF ApplyPendingMediaTitle
    <2>2. CASE ~Fits(inbox)
      BY <1>6, <2>1, <2>2 DEF ApplyPendingMediaTitle, LookupsInv
    <2>3. CASE Fits(inbox)
      <3>1. generation \in Generations /\ lookup[generation] = Resting
        BY <2>1, <2>3 DEF Fits, LookupsInv
      <3> QED
        BY <2>1, <3>1 DEF LookupsInv
    <2> QED
      BY <2>2, <2>3
  <1>7. ASSUME NEW g \in Generations, LookupStep(g)
        PROVE  LookupsInv'
    <2>1. generation' = generation /\ identity' = identity
      BY <1>7 DEF LookupStep, CacheGet, FetchHit, FetchMiss, CachePutRead, CreateTmp,
                  WriteTmp, Rename, CachePutFails, Report, session
    <2>2. lookup[g] # Resting /\ g <= generation
      <3>1. lookup[g].at # "resting"
        BY <1>7 DEF LookupStep, CacheGet, FetchHit, FetchMiss, CachePutRead, CreateTmp,
                    WriteTmp, Rename, CachePutFails, Report, InPut
      <3> QED
        BY <1>0, <3>1 DEF Resting, LookupsInv
    <2>3. \A h \in Generations : lookup[h] = Resting => lookup'[h] = Resting
      <3>1. CASE Rename(g)
        BY <2>2, <3>1 DEF Rename, Renamed
      <3>2. CASE ~Rename(g)
        BY <1>7, <2>2, <3>2
        DEF LookupStep, CacheGet, FetchHit, FetchMiss, CachePutRead, CreateTmp, WriteTmp,
            CachePutFails, Report, Goto, Ends, TypeOK
      <3> QED
        BY <3>1, <3>2
    <2>4. CASE Report(g)
      <3>1. lookup'[g] = Resting
        BY <2>4 DEF Report, Ends, TypeOK
      <3>2. /\ inbox'.generation = g
            /\ inbox'.title = OnlineTitle(inbox'.sha)
        BY <2>4 DEF Report
      <3>3. identity # NoIdentity /\ identity.source # "filename" => g # generation
        BY <2>2 DEF LookupsInv
      <3> QED
        BY <2>1, <2>2, <2>3, <3>1, <3>2, <3>3 DEF LookupsInv
    <2>5. CASE ~Report(g)
      <3>1. inbox' = inbox
        BY <1>7, <2>5 DEF LookupStep, CacheGet, FetchHit, FetchMiss, CachePutRead, CreateTmp,
                          WriteTmp, Rename, CachePutFails
      <3>2. inbox # Empty => inbox.generation \in Generations
        BY MessageTypes DEF TypeOK
      <3> QED
        BY <2>1, <2>3, <3>1, <3>2 DEF LookupsInv
    <2> QED
      BY <2>4, <2>5
  <1> QED
    BY <1>1, <1>2, <1>3, <1>4, <1>5, <1>6, <1>7
    DEF Next, SessionStep, EjectTape, ReplaceAndClear, ClearIdentity

-----------------------------------------------------------------------------
(* The cache file.                                                          *)

(* A session's step starts a lookup at most; no lookup in cache_put is touched. *)
LEMMA SessionLeavesCache ==
    ASSUME TypeOK, LookupsInv, CacheInv, SessionStep \/ Restart
    PROVE  CacheInv' /\ cacheFile' = cacheFile
  <1>1. cacheFile' = cacheFile /\ tmpFile' = tmpFile /\ overlapped' = overlapped
    BY DEF SessionStep, OpenTape, EjectTape, ReplaceMachine, ReplaceAndClear,
           SetOnlineTapeTitles, ApplyPendingMediaTitle, Restart, disk
  <1>2. \A g \in Generations : lookup'[g] = lookup[g] \/ lookup'[g].at \in {"resting", "get"}
    <2>1. CASE \E f \in Files : OpenTape(f)
      <3>1. PICK f \in Files : OpenTape(f)
        BY <2>1
      <3> DEFINE l == Started(Content[IdentifyBytes(f).file])
      <3>2. l.at = "get"
        BY DEF Started
      <3>3. lookup' = lookup \/ lookup' = [lookup EXCEPT ![generation + 1] = l]
        BY <3>1 DEF OpenTape, Install
      <3> HIDE DEF l
      <3> QED
        BY <3>2, <3>3 DEF TypeOK
    <2>2. CASE Restart
      BY <2>2 DEF Restart, Resting
    <2>3. CASE ~Restart /\ ~(\E f \in Files : OpenTape(f))
      BY <2>3 DEF SessionStep, EjectTape, ReplaceMachine, ReplaceAndClear,
                  SetOnlineTapeTitles, ApplyPendingMediaTitle, ClearIdentity
    <2> QED
      BY <2>1, <2>2, <2>3
  <1>3. \A g \in Generations : InPut(g)' => InPut(g) /\ lookup'[g] = lookup[g]
    BY <1>2 DEF InPut
  <1>4. \A g \in Generations : lookup'[g].at \in {"write", "rename"} => lookup'[g] = lookup[g]
    BY <1>2
  <1> QED
    BY <1>1, <1>3, <1>4 DEF CacheInv

(* A step of a lookup outside cache_put leaves both files and everybody else. *)
LEMMA OthersLeaveCache ==
    ASSUME TypeOK, CacheInv, NEW g \in Generations,
           CacheGet(g) \/ FetchHit(g) \/ FetchMiss(g) \/ Report(g)
    PROVE  CacheInv' /\ cacheFile' = cacheFile
  <1>1. cacheFile' = cacheFile /\ tmpFile' = tmpFile /\ overlapped' = overlapped
    BY DEF CacheGet, FetchHit, FetchMiss, Report, disk
  <1>2. \A h \in Generations :
          lookup'[h] = lookup[h] \/ lookup'[h].at \in {"resting", "fetch", "read", "report"}
    <2>1. lookup[g].at # "resting" => lookup[g] \in Lookups
      BY LookupTypes
    <2> QED
      BY <2>1 DEF CacheGet, FetchHit, FetchMiss, Report, Goto, Ends, Resting, TypeOK, Lookups
  <1> QED
    BY <1>1, <1>2 DEF CacheInv, InPut

LEMMA CachePutKeepsCache ==
    ASSUME TypeOK, CacheInv, NEW g \in Generations, ~overlapped',
           CachePutRead(g) \/ CreateTmp(g) \/ WriteTmp(g) \/ Rename(g) \/ CachePutFails(g)
    PROVE  CacheInv' /\ cacheFile.entries \subseteq cacheFile'.entries
  <1>0. ~overlapped
    BY DEF CachePutRead, CreateTmp, WriteTmp, Rename, CachePutFails
  <1>a. lookup[g] \in Lookups
    <2>1. lookup[g].at # "resting"
      BY DEF CachePutRead, CreateTmp, WriteTmp, Rename, CachePutFails, InPut
    <2> QED
      BY <2>1, LookupTypes
  <1>b. \A h \in Generations : lookup[h] \in Lookups \cup {Resting}
    BY DEF TypeOK
  <1>1. CASE CachePutRead(g)
    <2>1. \A h \in Generations : ~InPut(h)
      BY <1>1 DEF CachePutRead
    <2>2. /\ lookup'[g].at = "create"
          /\ cacheFile.entries \subseteq lookup'[g].document
          /\ \A h \in Generations \ {g} : lookup'[h] = lookup[h]
          /\ cacheFile' = cacheFile
      BY <1>1, <1>a DEF CachePutRead, disk, TypeOK, Lookups
    <2> QED
      BY <1>0, <2>1, <2>2 DEF CacheInv, InPut
  <1>2. CASE ~CachePutRead(g) /\ InPut(g)
    <2>1. \A h \in Generations \ {g} : ~InPut(h)
      BY <1>0, <1>2 DEF CacheInv
    <2>2. \A h \in Generations \ {g} : ~InPut(h)'
      <3>1. CASE Rename(g)
        <4>1. \A h \in Generations \ {g} : lookup'[h] = Renamed(lookup[h])
          BY <3>1 DEF Rename
        <4>2. \A l \in Lookups \cup {Resting} : Renamed(l).at = l.at
          BY DEF Renamed, Lookups
        <4> QED
          BY <1>b, <2>1, <4>1, <4>2 DEF InPut
      <3>2. CASE ~Rename(g)
        BY <1>2, <2>1, <3>2 DEF CreateTmp, WriteTmp, CachePutFails, InPut, Goto, TypeOK
      <3> QED
        BY <3>1, <3>2
    <2>3. CASE CreateTmp(g)
      <3>1. /\ lookup'[g].at = "write" /\ lookup'[g].fd = "tmp"
            /\ lookup'[g].document = lookup[g].document
            /\ tmpFile' = Blank /\ cacheFile' = cacheFile
        BY <1>a, <2>3 DEF CreateTmp, TypeOK, Lookups
      <3> QED
        BY <1>0, <1>2, <2>2, <3>1 DEF CacheInv, InPut
    <2>4. CASE WriteTmp(g)
      <3>1. lookup[g].fd = "tmp" /\ tmpFile = Blank
        BY <1>0, <2>4 DEF CacheInv, WriteTmp
      <3>2. /\ lookup'[g].at = "rename" /\ lookup'[g].fd = "tmp"
            /\ lookup'[g].document = lookup[g].document
        BY <1>a, <2>4, <3>1 DEF WriteTmp, Goto, TypeOK, Lookups
      <3>3. tmpFile' = Whole(lookup[g].document) /\ cacheFile' = cacheFile
        BY <2>4, <3>1 DEF WriteTmp, Written
      <3> QED
        BY <1>0, <1>2, <2>2, <3>2, <3>3 DEF CacheInv, InPut
    <2>5. CASE Rename(g)
      <3>1. cacheFile' = Whole(lookup[g].document)
            /\ cacheFile.entries \subseteq lookup[g].document
        BY <1>0, <1>2, <2>5 DEF CacheInv, Rename
      <3>2. lookup'[g].at = "report"
        BY <1>a, <2>5 DEF Rename, Lookups
      <3>3. ~InPut(g)'
        BY <3>2 DEF InPut
      <3> QED
        BY <2>2, <3>1, <3>2, <3>3 DEF CacheInv, InPut, Whole
    <2>6. CASE CachePutFails(g)
      <3>1. lookup'[g].at = "report"
        BY <1>a, <2>6 DEF CachePutFails, TypeOK, Lookups
      <3>2. cacheFile' = cacheFile
        BY <1>0, <2>6 DEF CacheInv, CachePutFails
      <3> QED
        BY <1>0, <2>2, <3>1, <3>2 DEF CacheInv, InPut
    <2> QED
      BY <1>2, <2>3, <2>4, <2>5, <2>6
  <1>3. CASE CachePutFails(g) /\ lookup[g].at = "read"
    <2>1. /\ lookup'[g].at = "report"
          /\ \A h \in Generations \ {g} : lookup'[h] = lookup[h]
          /\ cacheFile' = cacheFile /\ tmpFile' = tmpFile
      BY <1>a, <1>3 DEF CachePutFails, TypeOK, Lookups
    <2> QED
      BY <1>0, <2>1 DEF CacheInv, InPut
  <1> QED
    BY <1>1, <1>2, <1>3 DEF CreateTmp, WriteTmp, Rename, CachePutFails, InPut

LEMMA CacheKept ==
    TypeOK /\ LookupsInv /\ CacheInv /\ [Next]_vars
        => CacheInv' /\ (~overlapped' => cacheFile.entries \subseteq cacheFile'.entries)
  <1> SUFFICES ASSUME TypeOK, LookupsInv, CacheInv, [Next]_vars
               PROVE  CacheInv' /\ (~overlapped' => cacheFile.entries \subseteq cacheFile'.entries)
    OBVIOUS
  <1>1. CASE UNCHANGED vars
    BY <1>1 DEF vars, disk, CacheInv, InPut
  <1>2. CASE SessionStep \/ Restart
    BY <1>2, SessionLeavesCache
  <1>3. ASSUME NEW g \in Generations, LookupStep(g)
        PROVE  CacheInv' /\ (~overlapped' => cacheFile.entries \subseteq cacheFile'.entries)
    <2>1. overlapped' => CacheInv'
      BY DEF CacheInv
    <2> QED
      BY <1>3, <2>1, OthersLeaveCache, CachePutKeepsCache DEF LookupStep
  <1> QED
    BY <1>1, <1>2, <1>3 DEF Next

-----------------------------------------------------------------------------
(* The theorems.                                                            *)

(* The invariant holds in every reachable state. *)
THEOREM TitlesInvariance == Spec => []TitlesInv
  <1>1. Init => TitlesInv
    <2>1. Init => LookupsInv
      BY DEF Init, LookupsInv
    <2>2. Init => TitleBelongsToTape
      BY DEF Init, TitleBelongsToTape
    <2>3. Init => CacheInv
      BY DEF Init, CacheInv, InPut, Absent, Resting
    <2> QED
      BY <2>1, <2>2, <2>3, InitTypes DEF TitlesInv
  <1>2. TitlesInv /\ [Next]_vars => TitlesInv'
    BY TypesKept, TitleKept, LookupsKept, CacheKept DEF TitlesInv
  <1> QED
    BY <1>1, <1>2, PTL DEF Spec

THEOREM TitlesTypeCorrect == Spec => []TypeOK
  BY TitlesInvariance, PTL DEF TitlesInv

(* The title shown is that of the tape in the deck, whatever the lookups do. *)
THEOREM TitleSafety == Spec => []TitleBelongsToTape
  BY TitlesInvariance, PTL DEF TitlesInv

(* A title of the catalogue or of a lookup stays while its identity does. *)
THEOREM TitleStays == Spec => BetterTitleStays
  <1>1. TitlesInv /\ [Next]_vars
            => [generation' = generation /\ identity # NoIdentity
                  /\ identity.source # "filename" => identity' = identity]_vars
    <2> SUFFICES ASSUME TitlesInv, [Next]_vars, generation' = generation,
                        identity # NoIdentity, identity.source # "filename"
                 PROVE  identity' = identity
      OBVIOUS
    <2>1. generation \in Generations /\ generation \in Nat /\ generation # 0
          /\ generation + 1 # generation
      BY TitlesAssumption DEF TitlesInv, LookupsInv, Generations
    <2>2. ~NewGeneration /\ ~Restart
      BY <2>1 DEF NewGeneration, Restart
    <2>3. ApplyPendingMediaTitle => identity' = identity
      BY DEF ApplyPendingMediaTitle, Fits, TitlesInv, LookupsInv
    <2>4. (\E g \in Generations : LookupStep(g)) => identity' = identity
      BY DEF LookupStep, CacheGet, FetchHit, FetchMiss, CachePutRead, CreateTmp, WriteTmp,
             Rename, CachePutFails, Report, session
    <2> QED
      BY <2>2, <2>3, <2>4
      DEF Next, SessionStep, OpenTape, Install, EjectTape, ReplaceMachine, ReplaceAndClear,
          ClearIdentity, SetOnlineTapeTitles, vars, session
  <1> QED
    BY <1>1, TitlesInvariance, PTL DEF Spec, BetterTitleStays

(* Without two lookups in cache_put at once, the cache file is whole and grows. *)
THEOREM CacheSafety == Spec => LonePutKeepsCache
  <1>1. TitlesInv => (~overlapped => cacheFile.state \in {"absent", "whole"})
    BY DEF TitlesInv, CacheInv
  <1>2. TitlesInv /\ [Next]_vars
            => [~overlapped' => cacheFile.entries \subseteq cacheFile'.entries]_vars
    BY CacheKept DEF TitlesInv
  <1> QED
    BY <1>1, <1>2, TitlesInvariance, PTL DEF Spec, LonePutKeepsCache

=============================================================================
