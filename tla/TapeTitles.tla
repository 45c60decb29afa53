----------------------------- MODULE TapeTitles -----------------------------
(***************************************************************************)
(* The title a HostSession shows for the tape in its deck                    *)
(* (crates/host_api/src/session/media_title.rs), the lookup threads that     *)
(* replace a file name by an online title, and the title cache they share    *)
(* on disk (crates/host_api/src/media_title_lookup.rs).                      *)
(*                                                                          *)
(* An operation of the session holds its mutex and is one action.  A lookup  *)
(* runs on a thread of its own, without that mutex: one action per file      *)
(* operation, request and delivery.  The thread started by the install of    *)
(* generation g is lookup[g].                                               *)
(***************************************************************************)
EXTENDS Integers, FiniteSets

CONSTANTS
    Files,          \* tape files
    Shas,           \* SHA-512 digests of their contents
    Content,        \* the digest of each file
    Catalogue,      \* digests in LOCAL_CATALOGUE
    Registered,     \* digests the ZXInfo service has a title for
    NoFile,         \* Option::None for a file
    MaxGeneration   \* bound: media identities installed or cleared

ASSUME TitlesAssumption ==
    /\ Content \in [Files -> Shas]
    /\ Catalogue \subseteq Shas
    /\ Registered \subseteq Shas
    /\ NoFile \notin Files
    /\ MaxGeneration \in Nat

VARIABLES
    runtime,        \* HostSession.machine: "none", "classic" or "next"
    deck,           \* the tape in the classic machine's deck
    generation,     \* HostSession.media_title_generation
    identity,       \* media_title, media_sha512, media_title_source, media_path
    online,         \* HostSession.online_tape_titles
    inbox,          \* pending_media_title, shared with the lookups
    lookup,         \* the lookup of each generation
    cacheFile,      \* zxinfo-titles.json
    tmpFile,        \* zxinfo-titles.json.tmp, one name for all lookups
    \* History, read by the properties only:
    overlapped      \* two lookups were in cache_put together

session == <<runtime, deck, generation, identity, online>>
disk == <<cacheFile, tmpFile>>
vars == <<session, inbox, lookup, disk, overlapped>>

Generations == 1 .. MaxGeneration

-----------------------------------------------------------------------------
(* Titles: a file name, an entry of the catalogue, or ZXInfo's title.        *)
FileName(f) == [from |-> "file", file |-> f]
CatalogueTitle(s) == [from |-> "catalogue", sha |-> s]
OnlineTitle(s) == [from |-> "zxinfo", sha |-> s]

Titles ==
    {FileName(f) : f \in Files} \cup {CatalogueTitle(s) : s \in Shas}
        \cup {OnlineTitle(s) : s \in Shas}

NoIdentity == [file |-> NoFile]

IdentifyBytes(f) ==
    LET listed == Content[f] \in Catalogue
    IN  [file |-> f,
         title |-> IF listed THEN CatalogueTitle(Content[f]) ELSE FileName(f),
         source |-> IF listed THEN "catalogue" ELSE "filename"]

Identities ==
    [file : Files, title : Titles,
     source : {"catalogue", "filename", "cached", "online"}]

Empty == [kind |-> "empty"]

Messages ==
    [kind : {"pending"}, generation : Generations, sha : Shas,
     title : Titles, source : {"cached", "online"}]

-----------------------------------------------------------------------------
(* Files: absent, unreadable (empty, or bytes of two writers), or a whole    *)
(* JSON document with the digests it has an entry for.                       *)
Absent == [state |-> "absent", entries |-> {}]
Blank == [state |-> "blank", entries |-> {}]
Torn == [state |-> "torn", entries |-> {}]
Whole(entries) == [state |-> "whole", entries |-> entries]

FileStates ==
    {Absent, Blank, Torn} \cup {Whole(entries) : entries \in SUBSET Shas}

(* A lookup: its position, what it looks for, the title source it found, the *)
(* document it is about to write, and what its open file is called now:      *)
(* a rename by another lookup turns "tmp" into "cache", and one more unlinks  *)
(* it.                                                                       *)
Resting == [at |-> "resting"]

Steps == {"get", "fetch", "read", "create", "write", "rename", "report"}

Lookups ==
    [at : Steps, sha : Shas, source : {"cached", "online"},
     document : SUBSET Shas, fd : {"none", "tmp", "cache", "unlinked"}]

Started(s) ==
    [at |-> "get", sha |-> s, source |-> "cached", document |-> {}, fd |-> "none"]

InPut(g) == lookup[g].at \in {"create", "write", "rename"}

Goto(g, step) == lookup' = [lookup EXCEPT ![g].at = step]
Ends(g) == lookup' = [lookup EXCEPT ![g] = Resting]

-----------------------------------------------------------------------------
TypeOK ==
    /\ runtime \in {"none", "classic", "next"}
    /\ deck \in Files \cup {NoFile}
    /\ generation \in 0 .. MaxGeneration
    /\ identity \in Identities \cup {NoIdentity}
    /\ online \in BOOLEAN
    /\ inbox \in Messages \cup {Empty}
    /\ lookup \in [Generations -> Lookups \cup {Resting}]
    /\ cacheFile \in FileStates
    /\ tmpFile \in FileStates
    /\ overlapped \in BOOLEAN

Init ==
    /\ runtime = "none"
    /\ deck = NoFile
    /\ generation = 0
    /\ identity = NoIdentity
    /\ online = FALSE
    /\ inbox = Empty
    /\ lookup = [g \in Generations |-> Resting]
    /\ cacheFile = Absent
    /\ tmpFile = Absent
    /\ overlapped = FALSE

-----------------------------------------------------------------------------
(* The session.                                                             *)

NewGeneration ==
    /\ generation < MaxGeneration
    /\ generation' = generation + 1
    /\ inbox' = Empty

(* Mutated form of LooksUp: titles of the catalogue are looked up as well. *)
LooksUpAlways(id) == online

(* maybe_spawn_online_lookup, for the identity just installed *)
LooksUp(id) == online /\ id.source = "filename"

Install(id) ==
    /\ NewGeneration
    /\ identity' = id
    /\ lookup' =
        IF LooksUp(id)
        THEN [lookup EXCEPT ![generation + 1] = Started(Content[id.file])]
        ELSE lookup

ClearIdentity ==
    /\ NewGeneration
    /\ identity' = NoIdentity
    /\ UNCHANGED lookup

OpenTape(f) ==
    /\ runtime = "classic"
    /\ deck' = f
    /\ Install(IdentifyBytes(f))
    /\ UNCHANGED <<runtime, online, disk, overlapped>>

EjectTape ==
    /\ runtime = "classic"
    /\ deck' = NoFile
    /\ ClearIdentity
    /\ UNCHANGED <<runtime, online, disk, overlapped>>

(* set_model, load_rom_bytes, apply_user_config, and a snapshot that needs   *)
(* another model: the deck goes with its machine, the identity stays.        *)
ReplaceMachine(r) ==
    /\ r \in {"none", "classic"}
    /\ runtime' = r
    /\ deck' = NoFile
    /\ UNCHANGED <<generation, identity, online, inbox, lookup, disk, overlapped>>

(* activate_model, boot_next, clear_machine, set_machine: these clear it *)
ReplaceAndClear(r) ==
    /\ runtime' = r
    /\ deck' = NoFile
    /\ ClearIdentity
    /\ UNCHANGED <<online, disk, overlapped>>

SetOnlineTapeTitles ==
    /\ online' = ~online
    /\ UNCHANGED <<runtime, deck, generation, identity, inbox, lookup, disk,
                   overlapped>>

(* Mutated form of Fits: any message will do while there is a tape. *)
FitsAnyTape(message) == identity # NoIdentity /\ deck # NoFile

(* Whether a message is for the tape that is in the deck now *)
Fits(message) ==
    /\ message.generation = generation
    /\ identity # NoIdentity
    /\ message.sha = Content[identity.file]
    /\ deck # NoFile

(* Every frame and every reader of the title begins with this. *)
ApplyPendingMediaTitle ==
    /\ inbox # Empty
    /\ inbox' = Empty
    /\ identity' =
        IF Fits(inbox)
        THEN [identity EXCEPT !.title = inbox.title, !.source = inbox.source]
        ELSE identity
    /\ UNCHANGED <<runtime, deck, generation, online, lookup, disk, overlapped>>

(* The process ends, at any point of any lookup, and starts again. *)
Restart ==
    /\ runtime' = "none"
    /\ deck' = NoFile
    /\ generation' = 0
    /\ identity' = NoIdentity
    /\ online' = FALSE
    /\ inbox' = Empty
    /\ lookup' = [g \in Generations |-> Resting]
    /\ UNCHANGED <<disk, overlapped>>

-----------------------------------------------------------------------------
(* A lookup.                                                                *)

CacheGet(g) ==
    /\ lookup[g].at = "get"
    /\ IF lookup[g].sha \in cacheFile.entries
       THEN Goto(g, "report")
       ELSE Goto(g, "fetch")
    /\ UNCHANGED <<session, inbox, disk, overlapped>>

FetchHit(g) ==
    /\ lookup[g].at = "fetch"
    /\ lookup[g].sha \in Registered
    /\ lookup' = [lookup EXCEPT ![g].at = "read", ![g].source = "online"]
    /\ UNCHANGED <<session, inbox, disk, overlapped>>

(* 404, another status, a timeout, no network: the file name stays *)
FetchMiss(g) ==
    /\ lookup[g].at = "fetch"
    /\ Ends(g)
    /\ UNCHANGED <<session, inbox, disk, overlapped>>

(* cache_put reads the file again; one that cannot be read counts as empty *)
CachePutRead(g) ==
    /\ lookup[g].at = "read"
    /\ lookup' = [lookup EXCEPT
                    ![g].at = "create",
                    ![g].document = cacheFile.entries \cup {lookup[g].sha}]
    /\ overlapped' = (overlapped \/ \E h \in Generations : InPut(h))
    /\ UNCHANGED <<session, inbox, disk>>

(* Mutated form of CreateTmp: the cache file itself is opened for writing. *)
CreateInPlace(g) ==
    /\ lookup[g].at = "create"
    /\ cacheFile' = Blank
    /\ lookup' = [lookup EXCEPT ![g].at = "write", ![g].fd = "cache"]
    /\ UNCHANGED <<session, inbox, tmpFile, overlapped>>

(* File::create truncates the file of that name, or makes a new one *)
CreateTmp(g) ==
    /\ lookup[g].at = "create"
    /\ tmpFile' = Blank
    /\ lookup' = [lookup EXCEPT ![g].at = "write", ![g].fd = "tmp"]
    /\ UNCHANGED <<session, inbox, cacheFile, overlapped>>

(* One write at the start of the open file.  What another lookup wrote there *)
(* after this one truncated it may be longer, and its end then remains.      *)
Written(before, document) ==
    IF before = Blank THEN {Whole(document)} ELSE {Whole(document), Torn}

WriteTmp(g) ==
    /\ lookup[g].at = "write"
    /\ Goto(g, "rename")
    /\ tmpFile' \in (IF lookup[g].fd = "tmp"
                     THEN Written(tmpFile, lookup[g].document) ELSE {tmpFile})
    /\ cacheFile' \in (IF lookup[g].fd = "cache"
                       THEN Written(cacheFile, lookup[g].document) ELSE {cacheFile})
    /\ UNCHANGED <<session, inbox, overlapped>>

(* The name moves; whoever has the old files open keeps them open. *)
Renamed(l) ==
    IF l = Resting THEN l
    ELSE [l EXCEPT !.fd = CASE @ = "tmp" -> "cache"
                            [] @ = "cache" -> "unlinked"
                            [] OTHER -> @]

Rename(g) ==
    /\ lookup[g].at = "rename"
    /\ tmpFile # Absent
    /\ cacheFile' = tmpFile
    /\ tmpFile' = Absent
    /\ lookup' = [h \in Generations |->
                    IF h = g THEN [lookup[h] EXCEPT !.at = "report", !.fd = "none"]
                    ELSE Renamed(lookup[h])]
    /\ UNCHANGED <<session, inbox, overlapped>>

(* A failed step of cache_put ends it, and enrich_after_filename goes on.  A *)
(* write that fails leaves part of the document.                            *)
CachePutFails(g) ==
    /\ lookup[g].at = "read" \/ InPut(g)
    /\ lookup' = [lookup EXCEPT ![g].at = "report", ![g].fd = "none"]
    /\ tmpFile' \in (IF lookup[g].at = "write" /\ lookup[g].fd = "tmp"
                     THEN {tmpFile, Torn} ELSE {tmpFile})
    /\ cacheFile' \in (IF lookup[g].at = "write" /\ lookup[g].fd = "cache"
                       THEN {cacheFile, Torn} ELSE {cacheFile})
    /\ UNCHANGED <<session, inbox, overlapped>>

(* Mutated form of Report: what waits in the inbox is kept. *)
ReportIfEmpty(g) ==
    /\ lookup[g].at = "report"
    /\ inbox' =
        IF inbox # Empty THEN inbox
        ELSE [kind |-> "pending", generation |-> g, sha |-> lookup[g].sha,
              title |-> OnlineTitle(lookup[g].sha), source |-> lookup[g].source]
    /\ Ends(g)
    /\ UNCHANGED <<session, disk, overlapped>>

(* The inbox has one place; what waits there is replaced. *)
Report(g) ==
    /\ lookup[g].at = "report"
    /\ inbox' = [kind |-> "pending", generation |-> g, sha |-> lookup[g].sha,
                 title |-> OnlineTitle(lookup[g].sha), source |-> lookup[g].source]
    /\ Ends(g)
    /\ UNCHANGED <<session, disk, overlapped>>

LookupStep(g) ==
    \/ CacheGet(g) \/ FetchHit(g) \/ FetchMiss(g)
    \/ CachePutRead(g) \/ CreateTmp(g) \/ WriteTmp(g) \/ Rename(g)
    \/ CachePutFails(g) \/ Report(g)

SessionStep ==
    \/ \E f \in Files : OpenTape(f)
    \/ EjectTape
    \/ \E r \in {"none", "classic"} : ReplaceMachine(r)
    \/ \E r \in {"none", "classic", "next"} : ReplaceAndClear(r)
    \/ SetOnlineTapeTitles
    \/ ApplyPendingMediaTitle

Next == SessionStep \/ Restart \/ \E g \in Generations : LookupStep(g)

Spec == Init /\ [][Next]_vars

(* A spawned thread runs, its request has a timeout of four seconds, and the *)
(* host applies what is waiting with every frame.                            *)
FairSpec ==
    /\ Spec
    /\ WF_vars(ApplyPendingMediaTitle)
    /\ \A g \in Generations : WF_vars(LookupStep(g))

-----------------------------------------------------------------------------
(* Properties.                                                              *)

(* The title shown with a tape is that of the tape in the deck: its file     *)
(* name, the catalogue's title or ZXInfo's title for its digest, never what   *)
(* a lookup found for a tape that was there before, whatever was opened,     *)
(* ejected, replaced or started anew since (media_title, and                 *)
(* apply_pending_media_title's three conditions).                            *)
TitleBelongsToTape ==
    deck # NoFile =>
        /\ identity # NoIdentity
        /\ identity.file = deck
        /\ identity.title \in {FileName(deck), CatalogueTitle(Content[deck]),
                               OnlineTitle(Content[deck])}

(* While one identity is installed its title changes at most from the file   *)
(* name to an online title: a title of the catalogue stays, and one that a    *)
(* lookup brought is not taken back (docs/TAPE_IDENTITY.md, lookup order).   *)
BetterTitleStays ==
    [][generation' = generation /\ identity # NoIdentity
         /\ identity.source # "filename" => identity' = identity]_vars

(* As long as no two lookups were in cache_put together, the cache file can   *)
(* be read at every moment and loses no entry, though a lookup may fail or   *)
(* the process end between any two of its file operations (cache_put writes  *)
(* beside the file and renames).                                             *)
LonePutKeepsCache ==
    /\ [](~overlapped => cacheFile.state \in {"absent", "whole"})
    /\ [][~overlapped' => cacheFile.entries \subseteq cacheFile'.entries]_vars

Current(g) == generation = g /\ deck # NoFile
HasHit(g) == lookup[g].at \in {"read", "create", "write", "rename", "report"}
Alone(g) == \A h \in Generations \ {g} : lookup[h] = Resting
Shown(g) == identity # NoIdentity /\ identity.source \in {"cached", "online"}

(* A lookup that has found a title for the tape in the deck, while no other   *)
(* lookup runs, ends with that title shown, also when it could not be        *)
(* written to the cache, unless the tape changes first.                      *)
LoneHitIsShown ==
    \A g \in Generations :
        HasHit(g) /\ Current(g) /\ Alone(g) ~> Shown(g) \/ ~Current(g)

=============================================================================
