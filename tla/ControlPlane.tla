---------------------------- MODULE ControlPlane ----------------------------
(***************************************************************************)
(* ControlPlane (crates/control_plane/src/service.rs): requests of the agent *)
(* API over one HostSession and the preferences of the API, each behind a    *)
(* mutex, and the egui host (crates/app/src/session.rs), which shares the    *)
(* session when the server is embedded and takes its mutex anew for every    *)
(* access.                                                                  *)
(*                                                                          *)
(* A critical section that takes no second mutex is one action.  `call[c]`   *)
(* is the request of thread c, `gui` what the window's thread is in.         *)
(***************************************************************************)
EXTENDS HostSession, Naturals, Sequences

CONSTANTS
    Callers,    \* threads that serve requests
    Free        \* nobody

ASSUME PlaneAssumption == Free \notin Callers

VARIABLES
    session,
    prefs,      \* SessionPrefs: joystick mode and tape options
    lock,       \* the thread inside ControlPlane.inner and ControlPlane.prefs
    call,
    gui,
    \* History, read by the properties only:
    foreign,    \* mode or options were last set by someone else than prefs
    mixed       \* the egui host gave a snapshot to another model's machine

vars == <<session, prefs, lock, call, gui, foreign, mixed>>

Prefs == [mode : Modes, options : Options]
DefaultPrefs == [mode |-> Kempston, options |-> "ear"]

Idle == [at |-> "idle"]
Calls == [at : {"second", "update", "clone", "failed"}] \cup [at : {"apply"}, copy : Prefs]

(* What the window's thread has still to do, and for which model *)
Resting == [at |-> "rest"]
Errands ==
    [at : {"compare", "set", "clear", "look", "apply"}, target : Classic]
        \cup [at : {"build"}, target : Classic, model : Models]
        \cup [at : {"mode", "machine"}, target : Classic]
        \cup [at : {"options"}]

Unlocked == lock["session"] = Free

TypeOK ==
    /\ session \in Sessions
    /\ prefs \in Prefs
    /\ lock \in [{"session", "prefs"} -> Callers \cup {Free}]
    /\ call \in [Callers -> Calls \cup {Idle}]
    /\ gui \in Errands \cup {Resting}
    /\ foreign \in BOOLEAN
    /\ mixed \in BOOLEAN

Init ==
    /\ \E m \in Models : session = NewSession(m)
    /\ prefs = DefaultPrefs
    /\ lock = [l \in {"session", "prefs"} |-> Free]
    /\ call = [c \in Callers |-> Idle]
    /\ gui = Resting
    /\ foreign = FALSE
    /\ mixed = FALSE

-----------------------------------------------------------------------------
(* with_machine_load: the session's mutex is taken, the load is done, the    *)
(* preferences are copied under their own mutex and applied.                *)

LoadResults(s) ==
    {SelectModel(s, m, found) : m \in Models, found \in BOOLEAN}
        \cup {LoadRom(s, found) : found \in BOOLEAN}
        \cup {ApplyUserConfig(s, m, mode, found) :
                m \in Classic, mode \in Modes, found \in BOOLEAN}
        \cup {ApplySnapshot(s, m, found) : m \in Classic, found \in BOOLEAN}

Load(c) ==
    /\ call[c] = Idle
    /\ Unlocked
    /\ \E r \in LoadResults(session) :
        /\ session' = r.session
        /\ IF r.ok
           THEN /\ lock' = [lock EXCEPT !["session"] = c]
                /\ call' = [call EXCEPT ![c] = [at |-> "clone"]]
           ELSE UNCHANGED <<lock, call>>
    /\ UNCHANGED <<prefs, gui, foreign, mixed>>

ClonePrefs(c) ==
    /\ call[c].at = "clone"
    /\ lock["prefs"] = Free
    /\ call' = [call EXCEPT ![c] = [at |-> "apply", copy |-> prefs]]
    /\ UNCHANGED <<session, prefs, lock, gui, foreign, mixed>>

(* apply_prefs_to_session, and the end of the call *)
Apply(c) ==
    /\ call[c].at = "apply"
    /\ LET p == call[c].copy
           moded == SetJoystickMode(session, p.mode)
       IN  /\ session' =
                IF ~HasMachine(session) THEN session
                ELSE IF HasClassic(session) THEN SetTapeLoadOptions(moded, p.options)
                ELSE moded
           /\ foreign' = (foreign /\ ~HasMachine(session))
           /\ call' = [call EXCEPT ![c] =
                        IF HasMachine(session) /\ ~HasClassic(session)
                        THEN [at |-> "failed"] ELSE Idle]
    /\ lock' = [lock EXCEPT !["session"] = Free]
    /\ UNCHANGED <<prefs, gui, mixed>>

(* A Next machine was booted or given its mode, and the answer is an error. *)
Fail(c) ==
    /\ call[c].at = "failed"
    /\ call' = [call EXCEPT ![c] = Idle]
    /\ UNCHANGED <<session, prefs, lock, gui, foreign, mixed>>

-----------------------------------------------------------------------------
(* patch_prefs: both mutexes, the update, and the preferences applied.       *)

(* Mutated form of PatchOrder: the preferences are locked first. *)
PatchOrderReversed == <<"prefs", "session">>

PatchOrder == <<"session", "prefs">>

PatchFirst(c) ==
    /\ call[c] = Idle
    /\ lock[PatchOrder[1]] = Free
    /\ lock' = [lock EXCEPT ![PatchOrder[1]] = c]
    /\ call' = [call EXCEPT ![c] = [at |-> "second"]]
    /\ UNCHANGED <<session, prefs, gui, foreign, mixed>>

PatchSecond(c) ==
    /\ call[c].at = "second"
    /\ lock[PatchOrder[2]] = Free
    /\ lock' = [lock EXCEPT ![PatchOrder[2]] = c]
    /\ call' = [call EXCEPT ![c] = [at |-> "update"]]
    /\ UNCHANGED <<session, prefs, gui, foreign, mixed>>

(* Mutated form of Update: both guards are dropped before the preferences are *)
(* applied.                                                                  *)
UpdateAndUnlock(c) ==
    /\ call[c].at = "update"
    /\ prefs' \in Prefs
    /\ call' = [call EXCEPT ![c] = [at |-> "apply", copy |-> prefs']]
    /\ lock' = [lock EXCEPT !["prefs"] = Free, !["session"] = Free]
    /\ UNCHANGED <<session, gui, foreign, mixed>>

(* The fields of the patch are merged, whatever they are. *)
Update(c) ==
    /\ call[c].at = "update"
    /\ prefs' \in Prefs
    /\ call' = [call EXCEPT ![c] = [at |-> "apply", copy |-> prefs']]
    /\ lock' = [lock EXCEPT !["prefs"] = Free]
    /\ UNCHANGED <<session, gui, foreign, mixed>>

-----------------------------------------------------------------------------
(* Requests with one critical section, by any thread.                        *)

Input ==
    /\ Unlocked
    /\ HasMachine(session)
    /\ session' \in
        {SetKey(session, k, pressed) : k \in Keys, pressed \in BOOLEAN}
            \cup {ClearKeys(session)}
            \cup {SetJoystick(session, pressed) : pressed \in BOOLEAN}
            \cup {Reset(session)}
    /\ UNCHANGED <<prefs, lock, call, gui, foreign, mixed>>

(* insert_dck, eject_dck; on another model, or with a file that is none, they *)
(* fail and change nothing.                                                 *)
Dock ==
    /\ Unlocked
    /\ HasMachine(session)
    /\ session.machine.model \in WithDock
    /\ session' = ChangeDock(session)
    /\ UNCHANGED <<prefs, lock, call, gui, foreign, mixed>>

SetOptions ==
    /\ Unlocked
    /\ HasClassic(session)
    /\ \E options \in Options : session' = SetTapeLoadOptions(session, options)
    /\ foreign' = TRUE
    /\ UNCHANGED <<prefs, lock, call, gui, mixed>>

(* load_rzx may replace the machine, and does not apply the preferences. *)
Rzx ==
    /\ Unlocked
    /\ \E m \in Classic, found \in BOOLEAN :
        /\ session' = LoadRzx(session, m, found).session
        /\ foreign' = (foreign \/ NeedsModel(session, m))
    /\ UNCHANGED <<prefs, lock, call, gui, mixed>>

RzxWithoutSnapshot ==
    /\ Unlocked
    /\ HasClassic(session)
    /\ session' = InsertRzx(session)
    /\ UNCHANGED <<prefs, lock, call, gui, foreign, mixed>>

(* A frame in which a recording replays its input *)
RzxFrame ==
    /\ Unlocked
    /\ HasMachine(session)
    /\ session.machine.rzx
    /\ \E matrix \in SUBSET Keys, port \in BOOLEAN :
        session' = Driven(session, matrix, port)
    /\ UNCHANGED <<prefs, lock, call, gui, foreign, mixed>>

(* The keys of LOAD "" are typed and released, whatever was held. *)
TypeLoad ==
    /\ Unlocked
    /\ HasClassic(session)
    /\ session' = Driven(session, {}, session.machine.port)
    /\ UNCHANGED <<prefs, lock, call, gui, foreign, mixed>>

-----------------------------------------------------------------------------
(* The egui host.                                                           *)

GuiGoes(errand) == gui' = errand

(* sync_keyboard, before every frame: the window's keys and its own stick *)
GuiFrame ==
    /\ Unlocked
    /\ HasClassic(session)
    /\ \E held \in SUBSET Keys, stick \in BOOLEAN :
        LET window == [session EXCEPT !.keys = held, !.stick = stick]
        IN  session' = Driven(session, Matrix(window), Port(window))
    /\ gui = Resting
    /\ UNCHANGED <<prefs, lock, call, gui, foreign, mixed>>

GuiSetsMode ==
    /\ gui = Resting
    /\ Unlocked
    /\ \E mode \in Modes : session' = SetJoystickMode(session, mode)
    /\ foreign' = TRUE
    /\ UNCHANGED <<prefs, lock, call, gui, mixed>>

(* activate_pending_builtin_model, then apply_restored_machine_options *)
GuiActivates ==
    /\ gui = Resting
    /\ Unlocked
    /\ \E m \in Models, found \in BOOLEAN :
        LET r == ActivateModel(session, m, found)
        IN  /\ session' = r.session
            /\ foreign' = (foreign \/ r.ok)
            /\ GuiGoes(IF r.ok THEN [at |-> "options"] ELSE Resting)
    /\ UNCHANGED <<prefs, lock, call, mixed>>

GuiRestoresOptions ==
    /\ gui.at = "options"
    /\ Unlocked
    /\ IF HasClassic(session)
       THEN /\ \E options \in Options :
                session' = SetTapeLoadOptions(session, options)
            /\ foreign' = TRUE
       ELSE UNCHANGED <<session, foreign>>
    /\ GuiGoes(Resting)
    /\ UNCHANGED <<prefs, lock, call, mixed>>

(* EmulatorSession::load_snapshot: ensure_snapshot_model asks for the machine *)
(* and for the model, sets the model, clears the machine, asks for the model *)
(* again, builds a machine of it and installs it; then the snapshot is       *)
(* applied to the machine that is there.                                    *)
GuiOpensSnapshot ==
    /\ gui = Resting
    /\ Unlocked
    /\ \E m \in Classic :
        GuiGoes([at |-> IF HasMachine(session) THEN "compare" ELSE "set",
                 target |-> m])
    /\ UNCHANGED <<session, prefs, lock, call, foreign, mixed>>

GuiCompares ==
    /\ gui.at = "compare"
    /\ Unlocked
    /\ GuiGoes([gui EXCEPT !.at = IF session.model = gui.target THEN "apply" ELSE "set"])
    /\ UNCHANGED <<session, prefs, lock, call, foreign, mixed>>

GuiSetsModel ==
    /\ gui.at = "set"
    /\ Unlocked
    /\ session' = SetModel(session, gui.target)
    /\ GuiGoes([gui EXCEPT !.at = "clear"])
    /\ UNCHANGED <<prefs, lock, call, foreign, mixed>>

GuiClears ==
    /\ gui.at = "clear"
    /\ Unlocked
    /\ session' = ClearMachine(session)
    /\ GuiGoes([gui EXCEPT !.at = "look"])
    /\ UNCHANGED <<prefs, lock, call, foreign, mixed>>

GuiLooks ==
    /\ gui.at = "look"
    /\ Unlocked
    /\ GuiGoes([at |-> "build", target |-> gui.target, model |-> session.model])
    /\ UNCHANGED <<session, prefs, lock, call, foreign, mixed>>

GuiBuilds ==
    /\ gui.at = "build"
    /\ Unlocked
    /\ \E found \in BOOLEAN :
        session' =
            IF gui.model = NextModel THEN SelectModel(session, NextModel, found).session
            ELSE IF found THEN SetMachine(session, gui.model)
            ELSE session
    /\ foreign' = TRUE
    /\ GuiGoes([at |-> "apply", target |-> gui.target])
    /\ UNCHANGED <<prefs, lock, call, mixed>>

GuiApplies ==
    /\ gui.at = "apply"
    /\ Unlocked
    /\ IF HasClassic(session)
       THEN /\ session' = [session EXCEPT !.machine.snapshot = gui.target]
            /\ mixed' = (mixed \/ session.machine.model # gui.target)
       ELSE UNCHANGED <<session, mixed>>
    /\ GuiGoes(Resting)
    /\ UNCHANGED <<prefs, lock, call, foreign>>

(* open_recent_path: HostSession::open_media_path in one critical section *)
GuiOpensRecent ==
    /\ gui = Resting
    /\ Unlocked
    /\ \E m \in Classic, found \in BOOLEAN :
        /\ session' = ApplySnapshot(session, m, found).session
        /\ foreign' = (foreign \/ NeedsModel(session, m))
    /\ UNCHANGED <<prefs, lock, call, gui, mixed>>

(* apply_user_machine_config, once the profile's machine is built *)
GuiOpensConfig ==
    /\ gui = Resting
    /\ Unlocked
    /\ \E m \in Classic :
        /\ session' = SetModel(session, m)
        /\ GuiGoes([at |-> "mode", target |-> m])
    /\ UNCHANGED <<prefs, lock, call, foreign, mixed>>

GuiConfigMode ==
    /\ gui.at = "mode"
    /\ Unlocked
    /\ \E mode \in Modes : session' = SetJoystickMode(session, mode)
    /\ foreign' = TRUE
    /\ GuiGoes([gui EXCEPT !.at = "machine"])
    /\ UNCHANGED <<prefs, lock, call, mixed>>

GuiConfigMachine ==
    /\ gui.at = "machine"
    /\ Unlocked
    /\ session' = SetMachine(session, gui.target)
    /\ foreign' = TRUE
    /\ GuiGoes(Resting)
    /\ UNCHANGED <<prefs, lock, call, mixed>>

-----------------------------------------------------------------------------
PlaneStep ==
    \/ \E c \in Callers :
        \/ Load(c) \/ ClonePrefs(c) \/ Apply(c) \/ Fail(c)
        \/ PatchFirst(c) \/ PatchSecond(c) \/ Update(c)
    \/ Input \/ Dock \/ SetOptions \/ Rzx \/ RzxWithoutSnapshot \/ RzxFrame \/ TypeLoad

GuiStep ==
    \/ GuiFrame \/ GuiSetsMode \/ GuiActivates \/ GuiRestoresOptions
    \/ GuiOpensSnapshot \/ GuiCompares \/ GuiSetsModel \/ GuiClears \/ GuiLooks
    \/ GuiBuilds \/ GuiApplies \/ GuiOpensRecent
    \/ GuiOpensConfig \/ GuiConfigMode \/ GuiConfigMachine

Next == PlaneStep \/ GuiStep

Spec == Init /\ [][Next]_vars

-----------------------------------------------------------------------------
(* Properties.                                                              *)

(* Whoever changes model and machine, in one critical section or in several  *)
(* with others in between, a machine that is there is of the selected model  *)
(* (HostSession::select_model: "the loaded Machine matches too").            *)
RuntimeMatchesModel == MachineIsOfModel(session)

(* The guest sees exactly the keys and the stick that the session holds, in  *)
(* the present mode and on the present machine, unless typed, recorded or    *)
(* window input came after the session's last (HostSession.host_keys,        *)
(* recompose_input), or a Timex dock was changed.  From the reset that brings *)
(* on (Machine::insert_timex_dock, eject_timex_dock) until the session        *)
(* composes its input again, the guest sees nothing of what is held.         *)
InputReachesMachine == InputIsComposed(session)

(* Between the calls, a machine that nobody else configured runs with the     *)
(* preferences of the agent API, in whatever order loads and patches come    *)
(* (with_machine_load, patch_prefs).                                         *)
PrefsInForce ==
    Unlocked /\ HasMachine(session) /\ ~foreign =>
        /\ session.mode = prefs.mode
        /\ HasClassic(session) => session.machine.options = prefs.options

(* A snapshot is applied to a machine of its own model only                  *)
(* (apply_snapshot_bytes), except by the egui host, whose five critical       *)
(* sections another request may come between.                                *)
SnapshotMeetsItsModel ==
    HasMachine(session) /\ ~mixed =>
        session.machine.snapshot \in {None, session.machine.model}

(* Who is inside which mutex is where the callers are; and preferences that   *)
(* were copied are still the preferences when they are applied, because every *)
(* patch needs the session's mutex too.  The strengthening that the proofs    *)
(* need.                                                                     *)
LocksAreHeld ==
    /\ \A c \in Callers :
        lock["session"] = c <=> call[c].at \in {"second", "update", "clone", "apply"}
    /\ \A c \in Callers : lock["prefs"] = c <=> call[c].at = "update"

CopyIsCurrent == \A c \in Callers : call[c].at = "apply" => call[c].copy = prefs

CopiesUnderLock == LocksAreHeld /\ CopyIsCurrent

(* Two threads never wait for each other ("Lock order: session, prefs").      *)
Wanted(c) ==
    IF call[c].at = "second" THEN PatchOrder[2]
    ELSE IF call[c].at = "clone" THEN "prefs" ELSE "nothing"

NobodyWaitsInACircle ==
    \A c, d \in Callers :
        Wanted(c) # "nothing" /\ Wanted(d) # "nothing" =>
            ~(lock[Wanted(c)] = d /\ lock[Wanted(d)] = c)

(* service.rs: a request that loaded its machine, or updated its preferences, *)
(* is not answered with an error (crates/host_api/src/prefs.rs:325: tape      *)
(* options "apply only to a classic deck").                                  *)
DoneIsAnswered == \A c \in Callers : call[c].at # "failed"

=============================================================================
