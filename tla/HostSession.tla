---------------------------- MODULE HostSession ----------------------------
(***************************************************************************)
(* The models, machines and input of a HostSession                           *)
(* (crates/host_api/src/session.rs), as functions from a session to the      *)
(* session after a call and the answer.  A caller applies one while it holds *)
(* the session's mutex (module ControlPlane).                               *)
(***************************************************************************)
CONSTANTS
    Classic,    \* the models that run on a machine::Machine
    NextModel,  \* ModelId::SpectrumNext
    WithDock,   \* the models with a cartridge dock (TS2068)
    None,       \* Option::None
    Keys,       \* keys of the Spectrum's matrix
    Modes,      \* JoystickMode
    Kempston,   \* the mode that has a port of its own and no keys
    StickKeys   \* the keys of the pressed stick in each mode

ASSUME SessionAssumption ==
    /\ NextModel \notin Classic
    /\ WithDock \subseteq Classic
    /\ None \notin Classic \cup {NextModel}
    /\ Kempston \in Modes
    /\ StickKeys \in [Modes -> SUBSET Keys]
    /\ StickKeys[Kempston] = {}

Models == Classic \cup {NextModel}

(* TapeLoadOptions, as far as preferences set them *)
Options == {"ear", "experience"}

(* A runtime: the input its hardware sees, its tape options, the model of the *)
(* snapshot it was given, whether a recording replays.  `driven` is history:  *)
(* who set the matrix last.                                                 *)
Machines ==
    [model : Models, matrix : SUBSET Keys, port : BOOLEAN, options : Options,
     snapshot : Classic \cup {None}, rzx : BOOLEAN,
     driven : {"session", "other", "dock"}]

NoMachine == [model |-> None]

Sessions ==
    [model : Models, machine : Machines \cup {NoMachine}, mode : Modes,
     stick : BOOLEAN, keys : SUBSET Keys]

(* Machine::new_48k and the like, NextMachine::new *)
Fresh(model) ==
    [model |-> model, matrix |-> {}, port |-> FALSE, options |-> "ear",
     snapshot |-> None, rzx |-> FALSE, driven |-> "session"]

(* HostSession::new *)
NewSession(model) ==
    [model |-> model, machine |-> NoMachine, mode |-> Kempston, stick |-> FALSE,
     keys |-> {}]

HasMachine(s) == s.machine # NoMachine
HasClassic(s) == HasMachine(s) /\ s.machine.model # NextModel

Ok(s) == [session |-> s, ok |-> TRUE]
Err(s) == [session |-> s, ok |-> FALSE]

-----------------------------------------------------------------------------
(* Input.                                                                   *)

(* What the session holds down: its keys, and those of the stick in its mode *)
Matrix(s) == s.keys \cup (IF s.stick THEN StickKeys[s.mode] ELSE {})
Port(s) == s.stick /\ s.mode = Kempston

Recompose(s) ==
    IF HasMachine(s)
    THEN [s EXCEPT !.machine = [@ EXCEPT !.matrix = Matrix(s), !.port = Port(s),
                                         !.driven = "session"]]
    ELSE s

SetKey(s, key, pressed) ==
    Recompose([s EXCEPT !.keys = IF pressed THEN @ \cup {key} ELSE @ \ {key}])

ClearKeys(s) == Recompose([s EXCEPT !.keys = {}])

SetJoystick(s, pressed) == Recompose([s EXCEPT !.stick = pressed])

SetJoystickMode(s, mode) == Recompose([s EXCEPT !.mode = mode])

(* Keys that come from elsewhere: typed by type_load, recorded in an RZX file, *)
(* or rebuilt from the window's keys by the egui host.                       *)
Driven(s, matrix, port) ==
    [s EXCEPT !.machine = [@ EXCEPT !.matrix = matrix, !.port = port,
                                    !.driven = "other"]]

Reset(s) == Recompose([s EXCEPT !.machine = [@ EXCEPT !.rzx = FALSE]])

(* insert_dck and eject_dck: a dock that changes resets the machine and       *)
(* nobody composes the input again.                                         *)
ChangeDock(s) ==
    [s EXCEPT !.machine = [@ EXCEPT !.matrix = {}, !.port = FALSE, !.rzx = FALSE,
                                    !.driven = "dock"]]

-----------------------------------------------------------------------------
(* Models and machines.  `found` says whether ROMs or Next assets are there  *)
(* and right, which may change from call to call.                           *)

SetTapeLoadOptions(s, options) == [s EXCEPT !.machine.options = options]

(* Mutated form of SetModel: the machine of the old model stays. *)
SetModelOnly(s, model) == [s EXCEPT !.model = model]

SetModel(s, model) == [s EXCEPT !.model = model, !.machine = NoMachine]

(* load_rom_bytes_with_overrides and boot_next, once all files are read *)
Boot(s) == Recompose([s EXCEPT !.machine = Fresh(s.model)])

SelectModel(s, model, found) ==
    LET unloaded == SetModel(s, model)
    IN  IF found THEN Ok(Boot(unloaded)) ELSE Err(unloaded)

LoadRom(s, found) ==
    IF found /\ s.model # NextModel THEN Ok(Boot(s)) ELSE Err(s)

(* Mutated form of ActivateModel: the machine does not get the input held. *)
ActivateModelBare(s, model, found) ==
    LET candidate == SelectModel(NewSession(model), model, found)
    IN  IF candidate.ok
        THEN Ok([s EXCEPT !.model = model, !.machine = candidate.session.machine])
        ELSE Err(s)

(* A candidate session boots; this one takes its machine if it could. *)
ActivateModel(s, model, found) ==
    LET candidate == SelectModel(NewSession(model), model, found)
    IN  IF candidate.ok
        THEN Ok(Recompose([s EXCEPT !.model = model,
                                    !.machine = candidate.session.machine]))
        ELSE Err(s)

ApplyUserConfig(s, model, mode, found) ==
    IF found
    THEN Ok(Recompose([s EXCEPT !.model = model, !.mode = mode,
                                !.machine = Fresh(model)]))
    ELSE Err(s)

(* set_machine, with a machine just built *)
SetMachine(s, model) ==
    Recompose([s EXCEPT !.model = model, !.machine = Fresh(model)])

ClearMachine(s) == [s EXCEPT !.machine = NoMachine]

(* Mutated form of NeedsModel: any machine will do. *)
NeedsMachine(s, model) == ~HasMachine(s)

NeedsModel(s, model) == ~HasMachine(s) \/ s.model # model

(* apply_snapshot_bytes, for a snapshot of `model` *)
ApplySnapshot(s, model, found) ==
    LET ready == IF NeedsModel(s, model) THEN SelectModel(s, model, found) ELSE Ok(s)
    IN  IF ready.ok
        THEN Ok(Recompose([ready.session EXCEPT !.machine.snapshot = model]))
        ELSE ready

InsertRzx(s) == [s EXCEPT !.machine.rzx = TRUE]

(* load_rzx with an embedded snapshot; without one the machine must be there *)
LoadRzx(s, model, found) ==
    LET ready == ApplySnapshot(s, model, found)
    IN  IF ready.ok THEN Ok(InsertRzx(ready.session)) ELSE ready

-----------------------------------------------------------------------------
(* What a session must satisfy whoever uses it.                             *)

MachineIsOfModel(s) == HasMachine(s) => s.machine.model = s.model

InputIsComposed(s) ==
    HasMachine(s) =>
        /\ s.machine.driven = "session" =>
                s.machine.matrix = Matrix(s) /\ s.machine.port = Port(s)
        /\ s.machine.driven = "dock" =>
                s.machine.matrix = {} /\ s.machine.port = FALSE

=============================================================================
