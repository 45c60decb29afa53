------------------------ MODULE ControlPlane_proofs ------------------------
(***************************************************************************)
(* The invariants of ControlPlane, for any number of callers, keys, models   *)
(* and joystick modes.                                                      *)
(***************************************************************************)
EXTENDS ControlPlane, TLAPS

-----------------------------------------------------------------------------
(* Sessions.                                                                *)

Good(s) == s \in Sessions /\ MachineIsOfModel(s) /\ InputIsComposed(s)

(* The machine's snapshot, if it has one, is of the machine's model. *)
Matched(s) == HasMachine(s) => s.machine.snapshot \in {None, s.machine.model}

LEMMA MachineTypes ==
    ASSUME NEW s \in Sessions, HasMachine(s)
    PROVE  s.machine \in Machines
BY DEF Sessions, HasMachine

LEMMA MachineIsThere ==
    ASSUME NEW m \in Machines
    PROVE  m # NoMachine
BY SessionAssumption DEF Machines, NoMachine, Models

LEMMA MatrixTypes ==
    ASSUME NEW s \in Sessions
    PROVE  Matrix(s) \in SUBSET Keys /\ Port(s) \in BOOLEAN
<1>1. s.keys \in SUBSET Keys /\ s.mode \in Modes /\ s.stick \in BOOLEAN
  BY DEF Sessions
<1>2. StickKeys[s.mode] \in SUBSET Keys
  BY <1>1, SessionAssumption
<1>3. Matrix(s) \in SUBSET Keys
  BY <1>1, <1>2 DEF Matrix
<1>4. Port(s) \in BOOLEAN
  BY DEF Port
<1>. QED  BY <1>3, <1>4

(* t is s with other input: the same model, and a machine like that of s. *)
Alike(s, t) ==
    /\ t.model = s.model
    /\ HasMachine(t) <=> HasMachine(s)
    /\ HasMachine(s) =>
        /\ t.machine.model = s.machine.model
        /\ t.machine.options = s.machine.options
        /\ t.machine.snapshot = s.machine.snapshot

(* Recomposing the input of a session with or without a machine *)
LEMMA RecomposeIsGood ==
    ASSUME NEW s \in Sessions, MachineIsOfModel(s)
    PROVE  /\ Good(Recompose(s))
           /\ Alike(s, Recompose(s))
           /\ Recompose(s).mode = s.mode
<1>1. CASE ~HasMachine(s)
  <2>1. Recompose(s) = s
    BY <1>1 DEF Recompose
  <2>2. InputIsComposed(s)
    BY <1>1 DEF InputIsComposed
  <2>. QED  BY <1>1, <2>1, <2>2 DEF Good, Alike
<1>2. CASE HasMachine(s)
  <2> DEFINE m == [s.machine EXCEPT !.matrix = Matrix(s), !.port = Port(s),
                                    !.driven = "session"]
             t == [s EXCEPT !.machine = m]
  <2>1. s.machine \in Machines
    BY <1>2, MachineTypes
  <2>2. /\ m \in Machines
        /\ m.model = s.machine.model /\ m.options = s.machine.options
        /\ m.snapshot = s.machine.snapshot
        /\ m.matrix = Matrix(s) /\ m.port = Port(s) /\ m.driven = "session"
    BY <2>1, MatrixTypes DEF Machines
  <2>3. Recompose(s) = t
    BY <1>2 DEF Recompose
  <2> HIDE DEF m
  <2>4. /\ t \in Sessions /\ t.machine = m /\ t.model = s.model /\ t.mode = s.mode
        /\ t.stick = s.stick /\ t.keys = s.keys
    BY <2>2 DEF Sessions
  <2> HIDE DEF t
  <2>5. HasMachine(t)
    BY <2>2, <2>4, MachineIsThere DEF HasMachine
  <2>6. MachineIsOfModel(t)
    BY <1>2, <2>2, <2>4 DEF MachineIsOfModel
  <2>7. Matrix(t) = Matrix(s) /\ Port(t) = Port(s)
    BY <2>4 DEF Matrix, Port
  <2>8. InputIsComposed(t)
    BY <2>2, <2>4, <2>7 DEF InputIsComposed
  <2>. QED  BY <1>2, <2>2, <2>3, <2>4, <2>5, <2>6, <2>8 DEF Good, Alike
<1>. QED  BY <1>1, <1>2

(* A session that changed without its machine is as good as one recomposed. *)
LEMMA RecomposedInput ==
    ASSUME NEW s, Good(s),
           NEW u \in Sessions, u.machine = s.machine, u.model = s.model
    PROVE  /\ Good(Recompose(u)) /\ Alike(s, Recompose(u))
           /\ Recompose(u).mode = u.mode
<1>1. (HasMachine(u) <=> HasMachine(s)) /\ MachineIsOfModel(u)
  BY DEF HasMachine, MachineIsOfModel, Good
<1>2. Alike(s, u)
  BY <1>1 DEF Alike
<1>. QED  BY <1>1, <1>2, RecomposeIsGood DEF Alike

LEMMA InputIsGood ==
    ASSUME NEW s, Good(s), NEW key \in Keys, NEW pressed \in BOOLEAN
    PROVE  /\ Good(SetKey(s, key, pressed)) /\ Alike(s, SetKey(s, key, pressed))
           /\ SetKey(s, key, pressed).mode = s.mode
<1> DEFINE keys == IF pressed THEN s.keys \cup {key} ELSE s.keys \ {key}
           u == [s EXCEPT !.keys = keys]
<1>1. keys \in SUBSET Keys
  BY DEF Good, Sessions
<1>2. SetKey(s, key, pressed) = Recompose(u)
  BY DEF SetKey
<1> HIDE DEF keys
<1>3. u \in Sessions /\ u.machine = s.machine /\ u.model = s.model /\ u.mode = s.mode
  BY <1>1 DEF Good, Sessions
<1> HIDE DEF u
<1>. QED  BY <1>2, <1>3, RecomposedInput

LEMMA ClearKeysIsGood ==
    ASSUME NEW s, Good(s)
    PROVE  /\ Good(ClearKeys(s)) /\ Alike(s, ClearKeys(s))
           /\ ClearKeys(s).mode = s.mode
<1> DEFINE u == [s EXCEPT !.keys = {}]
<1>1. ClearKeys(s) = Recompose(u)
  BY DEF ClearKeys
<1>2. u \in Sessions /\ u.machine = s.machine /\ u.model = s.model /\ u.mode = s.mode
  BY DEF Good, Sessions
<1> HIDE DEF u
<1>. QED  BY <1>1, <1>2, RecomposedInput

LEMMA JoystickIsGood ==
    ASSUME NEW s, Good(s), NEW pressed \in BOOLEAN
    PROVE  /\ Good(SetJoystick(s, pressed)) /\ Alike(s, SetJoystick(s, pressed))
           /\ SetJoystick(s, pressed).mode = s.mode
<1> DEFINE u == [s EXCEPT !.stick = pressed]
<1>1. SetJoystick(s, pressed) = Recompose(u)
  BY DEF SetJoystick
<1>2. u \in Sessions /\ u.machine = s.machine /\ u.model = s.model /\ u.mode = s.mode
  BY DEF Good, Sessions
<1> HIDE DEF u
<1>. QED  BY <1>1, <1>2, RecomposedInput

LEMMA JoystickModeIsGood ==
    ASSUME NEW s, Good(s), NEW mode \in Modes
    PROVE  /\ Good(SetJoystickMode(s, mode)) /\ Alike(s, SetJoystickMode(s, mode))
           /\ SetJoystickMode(s, mode).mode = mode
<1> DEFINE u == [s EXCEPT !.mode = mode]
<1>1. SetJoystickMode(s, mode) = Recompose(u)
  BY DEF SetJoystickMode
<1>2. u \in Sessions /\ u.machine = s.machine /\ u.model = s.model /\ u.mode = mode
  BY DEF Good, Sessions
<1> HIDE DEF u
<1>. QED  BY <1>1, <1>2, RecomposedInput

(* What a change may do to the input of the machine of s: leave it alone, or   *)
(* mark it as someone else's, or as gone with a dock's reset.                *)
InputAccounted(s, m) ==
    \/ /\ m.driven = s.machine.driven
       /\ m.matrix = s.machine.matrix /\ m.port = s.machine.port
    \/ m.driven = "other"
    \/ m.driven = "dock" /\ m.matrix = {} /\ m.port = FALSE

(* A change of the machine alone, which keeps its model                      *)
LEMMA MachineChangeIsGood ==
    ASSUME NEW s, Good(s), HasMachine(s), NEW m \in Machines, m.model = s.machine.model,
           InputAccounted(s, m),
           NEW t, t = [s EXCEPT !.machine = m]
    PROVE  /\ Good(t) /\ t.machine = m /\ t.model = s.model /\ t.mode = s.mode
           /\ HasMachine(t)
<1>1. /\ t \in Sessions /\ t.machine = m /\ t.model = s.model /\ t.mode = s.mode
      /\ t.stick = s.stick /\ t.keys = s.keys
  BY DEF Good, Sessions
<1>2. HasMachine(t)
  BY <1>1, MachineIsThere DEF HasMachine
<1>3. MachineIsOfModel(t)
  BY <1>1 DEF MachineIsOfModel, Good
<1>4. Matrix(t) = Matrix(s) /\ Port(t) = Port(s)
  BY <1>1 DEF Matrix, Port
<1>5. InputIsComposed(t)
  BY <1>1, <1>4 DEF InputIsComposed, Good, InputAccounted
<1>. QED  BY <1>1, <1>2, <1>3, <1>5 DEF Good

LEMMA OptionsAreGood ==
    ASSUME NEW s, Good(s), HasMachine(s), NEW options \in Options
    PROVE  LET t == SetTapeLoadOptions(s, options)
           IN  /\ Good(t) /\ HasMachine(t) /\ t.model = s.model /\ t.mode = s.mode
               /\ t.machine.model = s.machine.model /\ t.machine.options = options
               /\ t.machine.snapshot = s.machine.snapshot
<1> DEFINE m == [s.machine EXCEPT !.options = options]
<1>1. s.machine \in Machines
  BY MachineTypes DEF Good
<1>2. /\ m \in Machines /\ m.model = s.machine.model /\ m.options = options
      /\ m.snapshot = s.machine.snapshot
      /\ InputAccounted(s, m)
  BY <1>1 DEF Machines, InputAccounted
<1>3. SetTapeLoadOptions(s, options) = [s EXCEPT !.machine = m]
  BY DEF SetTapeLoadOptions
<1> HIDE DEF m
<1>. QED  BY <1>2, <1>3, MachineChangeIsGood

LEMMA DrivenIsGood ==
    ASSUME NEW s, Good(s), HasMachine(s), NEW matrix \in SUBSET Keys, NEW port \in BOOLEAN
    PROVE  /\ Good(Driven(s, matrix, port)) /\ Alike(s, Driven(s, matrix, port))
           /\ Driven(s, matrix, port).mode = s.mode
<1> DEFINE m == [s.machine EXCEPT !.matrix = matrix, !.port = port, !.driven = "other"]
<1>1. s.machine \in Machines
  BY MachineTypes DEF Good
<1>2. /\ m \in Machines /\ m.model = s.machine.model /\ m.options = s.machine.options
      /\ m.snapshot = s.machine.snapshot /\ InputAccounted(s, m)
  BY <1>1 DEF Machines, InputAccounted
<1>3. Driven(s, matrix, port) = [s EXCEPT !.machine = m]
  BY DEF Driven
<1> HIDE DEF m
<1>. QED  BY <1>2, <1>3, MachineChangeIsGood DEF Alike

LEMMA InsertRzxIsGood ==
    ASSUME NEW s, Good(s), HasMachine(s)
    PROVE  /\ Good(InsertRzx(s)) /\ Alike(s, InsertRzx(s))
           /\ InsertRzx(s).mode = s.mode
<1> DEFINE m == [s.machine EXCEPT !.rzx = TRUE]
<1>1. s.machine \in Machines
  BY MachineTypes DEF Good
<1>2. /\ m \in Machines /\ m.model = s.machine.model /\ m.options = s.machine.options
      /\ m.snapshot = s.machine.snapshot
      /\ InputAccounted(s, m)
  BY <1>1 DEF Machines, InputAccounted
<1>3. InsertRzx(s) = [s EXCEPT !.machine = m]
  BY DEF InsertRzx
<1> HIDE DEF m
<1>. QED  BY <1>2, <1>3, MachineChangeIsGood DEF Alike

LEMMA ResetIsGood ==
    ASSUME NEW s, Good(s), HasMachine(s)
    PROVE  /\ Good(Reset(s)) /\ Alike(s, Reset(s)) /\ Reset(s).mode = s.mode
<1> DEFINE m == [s.machine EXCEPT !.rzx = FALSE]
           u == [s EXCEPT !.machine = m]
<1>1. s.machine \in Machines
  BY MachineTypes DEF Good
<1>2. /\ m \in Machines /\ m.model = s.machine.model /\ m.options = s.machine.options
      /\ m.snapshot = s.machine.snapshot
      /\ InputAccounted(s, m)
  BY <1>1 DEF Machines, InputAccounted
<1>3. Reset(s) = Recompose(u)
  BY DEF Reset
<1> HIDE DEF m
<1>4. Good(u) /\ u.machine = m /\ u.model = s.model /\ u.mode = s.mode /\ HasMachine(u)
  BY <1>2, MachineChangeIsGood
<1> HIDE DEF u
<1>. QED  BY <1>2, <1>3, <1>4, RecomposeIsGood DEF Alike, Good

LEMMA ChangeDockIsGood ==
    ASSUME NEW s, Good(s), HasMachine(s)
    PROVE  /\ Good(ChangeDock(s)) /\ Alike(s, ChangeDock(s))
           /\ ChangeDock(s).mode = s.mode
<1> DEFINE m == [s.machine EXCEPT !.matrix = {}, !.port = FALSE, !.rzx = FALSE,
                                  !.driven = "dock"]
<1>1. s.machine \in Machines
  BY MachineTypes DEF Good
<1>2. /\ m \in Machines /\ m.model = s.machine.model /\ m.options = s.machine.options
      /\ m.snapshot = s.machine.snapshot
      /\ InputAccounted(s, m)
  BY <1>1 DEF Machines, InputAccounted
<1>3. ChangeDock(s) = [s EXCEPT !.machine = m]
  BY DEF ChangeDock
<1> HIDE DEF m
<1>. QED  BY <1>2, <1>3, MachineChangeIsGood DEF Alike

-----------------------------------------------------------------------------
(* Loads.                                                                   *)

(* What a call that may replace the machine leaves behind, and answers *)
Outcome(s, r) ==
    /\ Good(r.session)
    /\ Matched(s) => Matched(r.session)
    /\ r.ok \in BOOLEAN
    /\ r.ok => HasMachine(r.session)
    /\ ~r.ok => r.session = s \/ ~HasMachine(r.session)

LEMMA FreshTypes ==
    ASSUME NEW model \in Models
    PROVE  /\ Fresh(model) \in Machines /\ Fresh(model).model = model
           /\ Fresh(model).snapshot = None
BY DEF Fresh, Machines, Options

(* A session that is given a machine fresh from the factory *)
LEMMA FreshIsGood ==
    ASSUME NEW t \in Sessions, t.machine = Fresh(t.model)
    PROVE  /\ Good(Recompose(t)) /\ Matched(Recompose(t)) /\ HasMachine(Recompose(t))
           /\ Recompose(t).model = t.model /\ Recompose(t).machine.model = t.model
           /\ Recompose(t).mode = t.mode
<1>1. t.model \in Models
  BY DEF Sessions
<1>2. HasMachine(t) /\ MachineIsOfModel(t)
  BY <1>1, FreshTypes, MachineIsThere DEF HasMachine, MachineIsOfModel
<1>3. Good(Recompose(t)) /\ Alike(t, Recompose(t)) /\ Recompose(t).mode = t.mode
  BY <1>2, RecomposeIsGood
<1>4. /\ HasMachine(Recompose(t)) /\ Recompose(t).model = t.model
      /\ Recompose(t).machine.model = t.model
      /\ Recompose(t).machine.snapshot = None
  BY <1>1, <1>2, <1>3, FreshTypes DEF Alike
<1>. QED  BY <1>3, <1>4 DEF Matched

LEMMA BootIsGood ==
    ASSUME NEW s \in Sessions
    PROVE  /\ Good(Boot(s)) /\ Matched(Boot(s)) /\ HasMachine(Boot(s))
           /\ Boot(s).model = s.model /\ Boot(s).machine.model = s.model
           /\ Boot(s).mode = s.mode
<1> DEFINE t == [s EXCEPT !.machine = Fresh(s.model)]
<1>1. Fresh(s.model) \in Machines
  BY FreshTypes DEF Sessions
<1>2. /\ t \in Sessions /\ t.machine = Fresh(s.model)
      /\ t.model = s.model /\ t.mode = s.mode
  BY <1>1 DEF Sessions
<1>3. Boot(s) = Recompose(t)
  BY DEF Boot
<1> HIDE DEF t
<1>. QED  BY <1>2, <1>3, FreshIsGood

LEMMA NoMachineIsGood ==
    ASSUME NEW s \in Sessions, s.machine = NoMachine
    PROVE  Good(s) /\ Matched(s) /\ ~HasMachine(s)
BY DEF Good, Matched, HasMachine, MachineIsOfModel, InputIsComposed

LEMMA SetModelIsGood ==
    ASSUME NEW s \in Sessions, NEW model \in Models
    PROVE  LET t == SetModel(s, model)
           IN  /\ Good(t) /\ Matched(t) /\ ~HasMachine(t)
               /\ t.model = model /\ t.mode = s.mode
<1> DEFINE t == SetModel(s, model)
<1>1. /\ t \in Sessions /\ t.machine = NoMachine
      /\ t.model = model /\ t.mode = s.mode
  BY DEF SetModel, Sessions
<1> HIDE DEF t
<1>2. Good(t) /\ Matched(t) /\ ~HasMachine(t)
  BY <1>1, NoMachineIsGood
<1>. QED  BY <1>1, <1>2 DEF t

LEMMA SelectModelIsGood ==
    ASSUME NEW s \in Sessions, NEW model \in Models, NEW found \in BOOLEAN
    PROVE  LET r == SelectModel(s, model, found)
           IN  /\ Outcome(s, r) /\ Matched(r.session)
               /\ r.session.model = model /\ r.session.mode = s.mode
               /\ r.ok => r.session.machine.model = model
<1> DEFINE u == SetModel(s, model)
           r == SelectModel(s, model, found)
<1>1. Good(u) /\ Matched(u) /\ ~HasMachine(u) /\ u.model = model /\ u.mode = s.mode
  BY SetModelIsGood
<1>2. u \in Sessions
  BY <1>1 DEF Good
<1>3. CASE found
  <2>1. r.session = Boot(u) /\ r.ok = TRUE
    BY <1>3 DEF SelectModel, Ok
  <2> HIDE DEF r, u
  <2>2. /\ Good(Boot(u)) /\ Matched(Boot(u)) /\ HasMachine(Boot(u))
        /\ Boot(u).model = model /\ Boot(u).machine.model = model
        /\ Boot(u).mode = s.mode
    BY <1>1, <1>2, BootIsGood
  <2>3. Outcome(s, r) /\ Matched(r.session) /\ r.session.model = model
    BY <2>1, <2>2 DEF Outcome
  <2>4. r.session.mode = s.mode /\ r.session.machine.model = model
    BY <2>1, <2>2
  <2>. QED  BY <2>3, <2>4 DEF r
<1>4. CASE ~found
  <2>1. r.session = u /\ r.ok = FALSE
    BY <1>4 DEF SelectModel, Err
  <2> HIDE DEF r, u
  <2>2. Outcome(s, r) /\ Matched(r.session) /\ r.session.model = model
    BY <1>1, <2>1 DEF Outcome
  <2>. QED  BY <1>1, <2>1, <2>2 DEF r
<1>. QED  BY <1>3, <1>4

LEMMA LoadRomIsGood ==
    ASSUME NEW s, Good(s), NEW found \in BOOLEAN
    PROVE  Outcome(s, LoadRom(s, found))
<1> DEFINE r == LoadRom(s, found)
<1>1. s \in Sessions
  BY DEF Good
<1>2. CASE found /\ s.model # NextModel
  <2>1. r.session = Boot(s) /\ r.ok = TRUE
    BY <1>2 DEF LoadRom, Ok
  <2> HIDE DEF r
  <2>2. Outcome(s, r)
    BY <1>1, <2>1, BootIsGood DEF Outcome
  <2>. QED  BY <2>2 DEF r
<1>3. CASE ~(found /\ s.model # NextModel)
  <2>1. r.session = s /\ r.ok = FALSE
    BY <1>3 DEF LoadRom, Err
  <2> HIDE DEF r
  <2>2. Outcome(s, r)
    BY <2>1 DEF Outcome
  <2>. QED  BY <2>2 DEF r
<1>. QED  BY <1>2, <1>3

LEMMA NewSessionTypes ==
    ASSUME NEW model \in Models
    PROVE  /\ NewSession(model) \in Sessions
           /\ NewSession(model).machine = NoMachine
BY SessionAssumption DEF NewSession, Sessions

LEMMA ActivateModelIsGood ==
    ASSUME NEW s, Good(s), NEW model \in Models, NEW found \in BOOLEAN
    PROVE  LET r == ActivateModel(s, model, found)
           IN  Outcome(s, r) /\ (~r.ok => r.session = s)
<1> DEFINE candidate == SelectModel(NewSession(model), model, found)
           r == ActivateModel(s, model, found)
           c == candidate.session.machine
           t == [s EXCEPT !.model = model, !.machine = c]
<1>1. /\ Good(candidate.session) /\ Matched(candidate.session)
      /\ candidate.ok \in BOOLEAN
      /\ candidate.ok => HasMachine(candidate.session) /\ c.model = model
  BY NewSessionTypes, SelectModelIsGood DEF Outcome
<1>2. CASE candidate.ok
  <2>1. r.session = Recompose(t) /\ r.ok = TRUE
    BY <1>2 DEF ActivateModel, Ok
  <2>2. c \in Machines /\ c.model = model /\ c.snapshot \in {None, model}
    BY <1>1, <1>2, MachineTypes DEF Good, Matched
  <2> HIDE DEF c, candidate, r
  <2>3. t \in Sessions /\ t.machine = c /\ t.model = model
    BY <2>2 DEF Good, Sessions
  <2> HIDE DEF t
  <2>4. HasMachine(t) /\ MachineIsOfModel(t)
    BY <2>2, <2>3, MachineIsThere DEF HasMachine, MachineIsOfModel
  <2>5. Good(Recompose(t)) /\ Alike(t, Recompose(t))
    BY <2>3, <2>4, RecomposeIsGood
  <2>6. HasMachine(Recompose(t)) /\ Matched(Recompose(t))
    BY <2>2, <2>3, <2>4, <2>5 DEF Alike, Matched
  <2>7. Outcome(s, r) /\ r.ok = TRUE
    BY <2>1, <2>5, <2>6 DEF Outcome
  <2>. QED  BY <2>7 DEF r
<1>3. CASE ~candidate.ok
  <2>1. r.session = s /\ r.ok = FALSE
    BY <1>3 DEF ActivateModel, Err
  <2> HIDE DEF r
  <2>2. Outcome(s, r)
    BY <2>1 DEF Outcome
  <2>. QED  BY <2>1, <2>2 DEF r
<1>. QED  BY <1>1, <1>2, <1>3

LEMMA ApplyUserConfigIsGood ==
    ASSUME NEW s, Good(s), NEW model \in Classic, NEW mode \in Modes, NEW found \in BOOLEAN
    PROVE  Outcome(s, ApplyUserConfig(s, model, mode, found))
<1> DEFINE r == ApplyUserConfig(s, model, mode, found)
           t == [s EXCEPT !.model = model, !.mode = mode, !.machine = Fresh(model)]
<1>1. CASE found
  <2>1. model \in Models /\ Fresh(model) \in Machines
    BY FreshTypes DEF Models
  <2>2. t \in Sessions /\ t.machine = Fresh(model) /\ t.model = model
    BY <2>1 DEF Good, Sessions
  <2>3. r.session = Recompose(t) /\ r.ok = TRUE
    BY <1>1 DEF ApplyUserConfig, Ok
  <2> HIDE DEF r, t
  <2>4. Outcome(s, r)
    BY <2>2, <2>3, FreshIsGood DEF Outcome
  <2>. QED  BY <2>4 DEF r
<1>2. CASE ~found
  <2>1. r.session = s /\ r.ok = FALSE
    BY <1>2 DEF ApplyUserConfig, Err
  <2> HIDE DEF r
  <2>2. Outcome(s, r)
    BY <2>1 DEF Outcome
  <2>. QED  BY <2>2 DEF r
<1>. QED  BY <1>1, <1>2

LEMMA SetMachineIsGood ==
    ASSUME NEW s, Good(s), NEW model \in Models
    PROVE  Good(SetMachine(s, model)) /\ Matched(SetMachine(s, model))
<1> DEFINE t == [s EXCEPT !.model = model, !.machine = Fresh(model)]
<1>1. Fresh(model) \in Machines
  BY FreshTypes
<1>2. t \in Sessions /\ t.machine = Fresh(model) /\ t.model = model
  BY <1>1 DEF Good, Sessions
<1>3. SetMachine(s, model) = Recompose(t)
  BY DEF SetMachine
<1> HIDE DEF t
<1>. QED  BY <1>2, <1>3, FreshIsGood

LEMMA ClearMachineIsGood ==
    ASSUME NEW s, Good(s)
    PROVE  Good(ClearMachine(s)) /\ Matched(ClearMachine(s)) /\ ~HasMachine(ClearMachine(s))
<1> DEFINE t == ClearMachine(s)
<1>1. t \in Sessions /\ t.machine = NoMachine
  BY DEF ClearMachine, Good, Sessions
<1> HIDE DEF t
<1>2. Good(t) /\ Matched(t) /\ ~HasMachine(t)
  BY <1>1, NoMachineIsGood
<1>. QED  BY <1>2 DEF t

(* A snapshot given to a machine *)
LEMMA GivenSnapshot ==
    ASSUME NEW s, Good(s), HasMachine(s), NEW model \in Classic
    PROVE  LET t == [s EXCEPT !.machine.snapshot = model]
           IN  /\ Good(t) /\ HasMachine(t) /\ t.model = s.model /\ t.mode = s.mode
               /\ t.machine.model = s.machine.model
               /\ t.machine.options = s.machine.options
               /\ t.machine.snapshot = model
<1> DEFINE m == [s.machine EXCEPT !.snapshot = model]
           t == [s EXCEPT !.machine.snapshot = model]
<1>1. s.machine \in Machines
  BY MachineTypes DEF Good
<1>2. /\ m \in Machines /\ m.model = s.machine.model /\ m.options = s.machine.options
      /\ m.snapshot = model
      /\ InputAccounted(s, m)
  BY <1>1 DEF Machines, InputAccounted
<1>3. t = [s EXCEPT !.machine = m]
  OBVIOUS
<1> HIDE DEF m, t
<1>4. Good(t) /\ t.machine = m /\ t.model = s.model /\ t.mode = s.mode /\ HasMachine(t)
  BY <1>2, <1>3, MachineChangeIsGood
<1>5. /\ t.machine.model = s.machine.model /\ t.machine.options = s.machine.options
      /\ t.machine.snapshot = model
  BY <1>2, <1>4
<1>. QED  BY <1>4, <1>5 DEF t

LEMMA ApplySnapshotIsGood ==
    ASSUME NEW s, Good(s), NEW model \in Classic, NEW found \in BOOLEAN
    PROVE  LET r == ApplySnapshot(s, model, found)
           IN  /\ Outcome(s, r) /\ Matched(r.session)
               /\ ~NeedsModel(s, model) =>
                    /\ HasMachine(s)
                    /\ r.session.mode = s.mode
                    /\ r.session.machine.model = s.machine.model
                    /\ r.session.machine.options = s.machine.options
<1> DEFINE ready == IF NeedsModel(s, model) THEN SelectModel(s, model, found) ELSE Ok(s)
           r == ApplySnapshot(s, model, found)
           u == ready.session
           t == [u EXCEPT !.machine.snapshot = model]
<1>1. /\ Good(u) /\ ready.ok \in BOOLEAN
      /\ ready.ok => HasMachine(u) /\ u.machine.model = model
      /\ ~ready.ok => ~HasMachine(u)
      /\ ~NeedsModel(s, model) => ready.ok /\ u = s
  <2>1. CASE NeedsModel(s, model)
    <3> DEFINE q == SelectModel(s, model, found)
    <3>1. model \in Models /\ s \in Sessions
      BY DEF Models, Good
    <3>2. Outcome(s, q) /\ (q.ok => q.session.machine.model = model)
      BY <3>1, SelectModelIsGood
    <3>3. ~q.ok => ~HasMachine(q.session)
      BY DEF SelectModel, Ok, Err, HasMachine, SetModel, Good, Sessions
    <3>4. ready = q
      BY <2>1
    <3> HIDE DEF q
    <3>. QED  BY <2>1, <3>2, <3>3, <3>4 DEF Outcome
  <2>2. CASE ~NeedsModel(s, model)
    <3>1. u = s /\ ready.ok = TRUE
      BY <2>2 DEF Ok
    <3>2. HasMachine(s) /\ s.machine.model = model
      BY <2>2 DEF NeedsModel, Good, MachineIsOfModel
    <3>. QED  BY <2>2, <3>1, <3>2
  <2>. QED  BY <2>1, <2>2
<1>2. CASE ready.ok
  <2>1. r.session = Recompose(t) /\ r.ok = TRUE
    BY <1>2 DEF ApplySnapshot, Ok
  <2>2. ~NeedsModel(s, model) => HasMachine(s)
    BY DEF NeedsModel
  <2> HIDE DEF ready, u, r
  <2>3. /\ Good(t) /\ HasMachine(t) /\ t.mode = u.mode
        /\ t.machine.model = u.machine.model /\ t.machine.options = u.machine.options
        /\ t.machine.snapshot = model
    BY <1>1, <1>2, GivenSnapshot
  <2> HIDE DEF t
  <2>4. Good(Recompose(t)) /\ Alike(t, Recompose(t)) /\ Recompose(t).mode = t.mode
    BY <2>3, RecomposeIsGood DEF Good
  <2>5. /\ HasMachine(Recompose(t)) /\ Matched(Recompose(t))
        /\ Recompose(t).machine.model = u.machine.model
        /\ Recompose(t).machine.options = u.machine.options
    BY <1>1, <1>2, <2>3, <2>4 DEF Alike, Matched
  <2>6. Outcome(s, r) /\ Matched(r.session)
    BY <2>1, <2>4, <2>5 DEF Outcome
  <2>7. ~NeedsModel(s, model) =>
            /\ HasMachine(s)
            /\ r.session.mode = s.mode
            /\ r.session.machine.model = s.machine.model
            /\ r.session.machine.options = s.machine.options
    BY <1>1, <2>1, <2>2, <2>3, <2>4, <2>5
  <2>. QED  BY <2>6, <2>7 DEF r
<1>3. CASE ~ready.ok
  <2>1. r = ready
    BY <1>3 DEF ApplySnapshot
  <2> HIDE DEF ready, r
  <2>2. Outcome(s, r) /\ Matched(r.session)
    BY <1>1, <1>3, <2>1 DEF Outcome, Matched
  <2>. QED  BY <1>1, <1>3, <2>2 DEF r
<1>. QED  BY <1>1, <1>2, <1>3

LEMMA LoadRzxIsGood ==
    ASSUME NEW s, Good(s), NEW model \in Classic, NEW found \in BOOLEAN
    PROVE  LET r == LoadRzx(s, model, found)
           IN  /\ Good(r.session) /\ Matched(r.session)
               /\ ~NeedsModel(s, model) =>
                    /\ HasMachine(s)
                    /\ r.session.mode = s.mode
                    /\ r.session.machine.model = s.machine.model
                    /\ r.session.machine.options = s.machine.options
<1> DEFINE ready == ApplySnapshot(s, model, found)
           u == ready.session
           r == LoadRzx(s, model, found)
<1>1. /\ Outcome(s, ready) /\ Matched(u)
      /\ ~NeedsModel(s, model) =>
            /\ HasMachine(s)
            /\ u.mode = s.mode
            /\ u.machine.model = s.machine.model
            /\ u.machine.options = s.machine.options
  BY ApplySnapshotIsGood
<1>2. CASE ready.ok
  <2>1. r.session = InsertRzx(u)
    BY <1>2 DEF LoadRzx, Ok
  <2> HIDE DEF ready, u, r
  <2>2. Good(u) /\ HasMachine(u)
    BY <1>1, <1>2 DEF Outcome, u
  <2>3. Good(InsertRzx(u)) /\ Alike(u, InsertRzx(u)) /\ InsertRzx(u).mode = u.mode
    BY <2>2, InsertRzxIsGood
  <2>4. Matched(InsertRzx(u))
    BY <1>1, <2>2, <2>3 DEF Alike, Matched
  <2>5. /\ InsertRzx(u).machine.model = u.machine.model
        /\ InsertRzx(u).machine.options = u.machine.options
    BY <2>2, <2>3 DEF Alike
  <2>. QED  BY <1>1, <2>1, <2>3, <2>4, <2>5 DEF r
<1>3. CASE ~ready.ok
  <2>1. r = ready
    BY <1>3 DEF LoadRzx
  <2> HIDE DEF ready, u, r
  <2>2. Good(u) /\ r.session = u
    BY <1>1, <2>1 DEF Outcome, u
  <2>. QED  BY <1>1, <2>2 DEF r
<1>. QED  BY <1>1, <1>2, <1>3 DEF Outcome

-----------------------------------------------------------------------------
(* The invariant.                                                           *)

IInv ==
    /\ TypeOK
    /\ Good(session)
    /\ SnapshotMeetsItsModel
    /\ PrefsInForce
    /\ CopiesUnderLock

LEMMA Initially == Init => IInv
<1> SUFFICES ASSUME Init PROVE IInv
  OBVIOUS
<1>1. PICK m \in Models : session = NewSession(m)
  BY DEF Init
<1>2. session \in Sessions /\ session.machine = NoMachine
  BY <1>1, NewSessionTypes
<1>3. Good(session) /\ ~HasMachine(session)
  BY <1>2, NoMachineIsGood
<1>4. TypeOK
  BY <1>2, SessionAssumption DEF Init, TypeOK, Prefs, DefaultPrefs, Options
<1>5. SnapshotMeetsItsModel /\ PrefsInForce
  BY <1>3 DEF SnapshotMeetsItsModel, PrefsInForce
<1>6. LocksAreHeld /\ CopyIsCurrent
  BY PlaneAssumption DEF Init, LocksAreHeld, CopyIsCurrent, Idle
<1>. QED  BY <1>3, <1>4, <1>5, <1>6 DEF IInv, CopiesUnderLock

(* A step that neither takes nor leaves a mutex for good, and that leaves     *)
(* mode and options alone or records that they are not those of the          *)
(* preferences                                                              *)
LEMMA SessionOnly ==
    ASSUME IInv, UNCHANGED <<prefs, lock, call>>,
           Good(session'), gui' \in Errands \cup {Resting},
           foreign' \in BOOLEAN, mixed' \in BOOLEAN,
           ~mixed' => Matched(session'),
           HasMachine(session') /\ ~foreign' =>
                /\ HasMachine(session) /\ ~foreign
                /\ session'.mode = session.mode
                /\ session'.machine.model = session.machine.model
                /\ session'.machine.options = session.machine.options
    PROVE  IInv'
<1>1. TypeOK'
  BY DEF IInv, TypeOK, Good
<1>2. SnapshotMeetsItsModel'
  BY DEF SnapshotMeetsItsModel, Matched
<1>3. PrefsInForce'
  <2> SUFFICES ASSUME Unlocked', HasMachine(session'), ~foreign'
               PROVE  /\ session'.mode = prefs'.mode
                      /\ HasClassic(session') => session'.machine.options = prefs'.options
    BY DEF PrefsInForce
  <2>1. Unlocked
    BY DEF Unlocked
  <2>2. /\ session.mode = prefs.mode
        /\ HasClassic(session) => session.machine.options = prefs.options
    BY <2>1 DEF IInv, PrefsInForce
  <2>3. HasClassic(session') => HasClassic(session)
    BY DEF HasClassic
  <2>. QED  BY <2>2, <2>3
<1>4. LocksAreHeld' /\ CopyIsCurrent'
  BY DEF IInv, CopiesUnderLock, LocksAreHeld, CopyIsCurrent
<1>. QED  BY <1>1, <1>2, <1>3, <1>4 DEF IInv, CopiesUnderLock

(* The same when the machine was given other input *)
LEMMA InputOnly ==
    ASSUME IInv, UNCHANGED <<prefs, lock, call, gui, foreign, mixed>>,
           Good(session'), Alike(session, session'), session'.mode = session.mode
    PROVE  IInv'
<1>1. gui' \in Errands \cup {Resting} /\ foreign' \in BOOLEAN /\ mixed' \in BOOLEAN
  BY DEF IInv, TypeOK
<1>2. ~mixed' => Matched(session')
  BY DEF IInv, SnapshotMeetsItsModel, Matched, Alike
<1>3. HasMachine(session') /\ ~foreign' =>
        /\ HasMachine(session) /\ ~foreign
        /\ session'.mode = session.mode
        /\ session'.machine.model = session.machine.model
        /\ session'.machine.options = session.machine.options
  BY DEF Alike
<1>. QED  BY <1>1, <1>2, <1>3, SessionOnly

(* A step of the window's thread that leaves the session alone *)
LEMMA ErrandOnly ==
    ASSUME IInv, UNCHANGED <<session, prefs, lock, call, foreign, mixed>>,
           gui' \in Errands \cup {Resting}
    PROVE  IInv'
<1>1. Good(session') /\ foreign' \in BOOLEAN /\ mixed' \in BOOLEAN
  BY DEF IInv, TypeOK
<1>2. ~mixed' => Matched(session')
  BY DEF IInv, SnapshotMeetsItsModel, Matched
<1>. QED  BY <1>1, <1>2, SessionOnly

-----------------------------------------------------------------------------
(* The requests of the agent API.                                           *)

LEMMA LoadOutcome ==
    ASSUME NEW s, Good(s), NEW r \in LoadResults(s)
    PROVE  Outcome(s, r)
<1>1. CASE \E m \in Models, found \in BOOLEAN : r = SelectModel(s, m, found)
  <2>1. s \in Sessions
    BY DEF Good
  <2>. QED  BY <1>1, <2>1, SelectModelIsGood
<1>2. CASE \E found \in BOOLEAN : r = LoadRom(s, found)
  BY <1>2, LoadRomIsGood
<1>3. CASE \E m \in Classic, mode \in Modes, found \in BOOLEAN :
                r = ApplyUserConfig(s, m, mode, found)
  BY <1>3, ApplyUserConfigIsGood
<1>4. CASE \E m \in Classic, found \in BOOLEAN : r = ApplySnapshot(s, m, found)
  BY <1>4, ApplySnapshotIsGood
<1>. QED  BY <1>1, <1>2, <1>3, <1>4 DEF LoadResults

LEMMA LoadStep ==
    ASSUME IInv, NEW c \in Callers, Load(c)
    PROVE  IInv'
<1>1. PICK r \in LoadResults(session) :
        /\ session' = r.session
        /\ IF r.ok
           THEN /\ lock' = [lock EXCEPT !["session"] = c]
                /\ call' = [call EXCEPT ![c] = [at |-> "clone"]]
           ELSE UNCHANGED <<lock, call>>
  BY DEF Load
<1>2. Outcome(session, r)
  BY LoadOutcome DEF IInv
<1>3. UNCHANGED <<prefs, gui, foreign, mixed>> /\ Unlocked /\ call[c] = Idle
  BY DEF Load
<1>4. Good(session') /\ (~mixed => Matched(session'))
  BY <1>1, <1>2 DEF Outcome, IInv, SnapshotMeetsItsModel, Matched
<1>5. gui' \in Errands \cup {Resting} /\ foreign' \in BOOLEAN /\ mixed' \in BOOLEAN
  BY <1>3 DEF IInv, TypeOK
<1>6. CASE r.ok
  <2>1. /\ lock' = [lock EXCEPT !["session"] = c]
        /\ call' = [call EXCEPT ![c] = [at |-> "clone"]]
    BY <1>1, <1>6
  <2>2. TypeOK'
    BY <1>3, <1>4, <2>1 DEF IInv, TypeOK, Good, Calls
  <2>3. SnapshotMeetsItsModel'
    BY <1>3, <1>4 DEF SnapshotMeetsItsModel, Matched
  <2>4. PrefsInForce'
    BY <2>1, PlaneAssumption DEF PrefsInForce, Unlocked, IInv, TypeOK
  <2>5. LocksAreHeld'
    BY <1>3, <2>1, PlaneAssumption DEF LocksAreHeld, Unlocked, IInv, CopiesUnderLock, TypeOK, Idle
  <2>6. CopyIsCurrent'
    BY <1>3, <2>1 DEF CopyIsCurrent, IInv, CopiesUnderLock, TypeOK
  <2>. QED  BY <1>4, <2>2, <2>3, <2>4, <2>5, <2>6 DEF IInv, CopiesUnderLock
<1>7. CASE ~r.ok
  <2>1. UNCHANGED <<prefs, lock, call>>
    BY <1>1, <1>3, <1>7
  <2>2. HasMachine(session') => session' = session
    BY <1>1, <1>2, <1>7 DEF Outcome
  <2>. QED  BY <1>3, <1>4, <1>5, <2>1, <2>2, SessionOnly
<1>. QED  BY <1>6, <1>7

LEMMA ClonePrefsStep ==
    ASSUME IInv, NEW c \in Callers, ClonePrefs(c)
    PROVE  IInv'
<1>1. /\ call[c].at = "clone"
      /\ call' = [call EXCEPT ![c] = [at |-> "apply", copy |-> prefs]]
      /\ UNCHANGED <<session, prefs, lock, gui, foreign, mixed>>
  BY DEF ClonePrefs
<1>2. TypeOK'
  BY <1>1 DEF IInv, TypeOK, Calls
<1>3. Good(session)' /\ SnapshotMeetsItsModel' /\ PrefsInForce'
  BY <1>1 DEF IInv, SnapshotMeetsItsModel, PrefsInForce, Unlocked
<1>4. LocksAreHeld'
  BY <1>1 DEF LocksAreHeld, IInv, CopiesUnderLock, TypeOK
<1>5. CopyIsCurrent'
  BY <1>1 DEF CopyIsCurrent, IInv, CopiesUnderLock, TypeOK
<1>. QED  BY <1>2, <1>3, <1>4, <1>5 DEF IInv, CopiesUnderLock

LEMMA PatchFirstStep ==
    ASSUME IInv, NEW c \in Callers, PatchFirst(c)
    PROVE  IInv'
<1>1. /\ call[c] = Idle /\ lock["session"] = Free
      /\ lock' = [lock EXCEPT !["session"] = c]
      /\ call' = [call EXCEPT ![c] = [at |-> "second"]]
      /\ UNCHANGED <<session, prefs, gui, foreign, mixed>>
  BY DEF PatchFirst, PatchOrder
<1>2. TypeOK'
  BY <1>1 DEF IInv, TypeOK, Calls
<1>3. Good(session)' /\ SnapshotMeetsItsModel'
  BY <1>1 DEF IInv, SnapshotMeetsItsModel
<1>4. PrefsInForce'
  BY <1>1, PlaneAssumption DEF PrefsInForce, Unlocked, IInv, TypeOK
<1>5. LocksAreHeld'
  BY <1>1, PlaneAssumption DEF LocksAreHeld, IInv, CopiesUnderLock, TypeOK, Idle
<1>6. CopyIsCurrent'
  BY <1>1 DEF CopyIsCurrent, IInv, CopiesUnderLock, TypeOK
<1>. QED  BY <1>2, <1>3, <1>4, <1>5, <1>6 DEF IInv, CopiesUnderLock

LEMMA PatchSecondStep ==
    ASSUME IInv, NEW c \in Callers, PatchSecond(c)
    PROVE  IInv'
<1>1. /\ call[c].at = "second" /\ lock["prefs"] = Free
      /\ lock' = [lock EXCEPT !["prefs"] = c]
      /\ call' = [call EXCEPT ![c] = [at |-> "update"]]
      /\ UNCHANGED <<session, prefs, gui, foreign, mixed>>
  BY DEF PatchSecond, PatchOrder
<1>2. TypeOK'
  BY <1>1 DEF IInv, TypeOK, Calls
<1>3. Good(session)' /\ SnapshotMeetsItsModel' /\ PrefsInForce'
  BY <1>1 DEF IInv, SnapshotMeetsItsModel, PrefsInForce, Unlocked, TypeOK
<1>4. LocksAreHeld'
  BY <1>1, PlaneAssumption DEF LocksAreHeld, IInv, CopiesUnderLock, TypeOK
<1>5. CopyIsCurrent'
  BY <1>1 DEF CopyIsCurrent, IInv, CopiesUnderLock, TypeOK
<1>. QED  BY <1>2, <1>3, <1>4, <1>5 DEF IInv, CopiesUnderLock

LEMMA UpdateStep ==
    ASSUME IInv, NEW c \in Callers, Update(c)
    PROVE  IInv'
<1>1. /\ call[c].at = "update" /\ prefs' \in Prefs
      /\ call' = [call EXCEPT ![c] = [at |-> "apply", copy |-> prefs']]
      /\ lock' = [lock EXCEPT !["prefs"] = Free]
      /\ UNCHANGED <<session, gui, foreign, mixed>>
  BY DEF Update
<1>2. lock["session"] = c /\ lock["prefs"] = c
  BY <1>1 DEF IInv, CopiesUnderLock, LocksAreHeld
<1>3. TypeOK'
  BY <1>1 DEF IInv, TypeOK, Calls
<1>4. Good(session)' /\ SnapshotMeetsItsModel'
  BY <1>1 DEF IInv, SnapshotMeetsItsModel
<1>5. PrefsInForce'
  BY <1>1, <1>2, PlaneAssumption DEF PrefsInForce, Unlocked, IInv, TypeOK
<1>6. LocksAreHeld'
  BY <1>1, <1>2, PlaneAssumption DEF LocksAreHeld, IInv, CopiesUnderLock, TypeOK
<1>7. CopyIsCurrent'
  BY <1>1, <1>2 DEF CopyIsCurrent, LocksAreHeld, IInv, CopiesUnderLock, TypeOK
<1>. QED  BY <1>3, <1>4, <1>5, <1>6, <1>7 DEF IInv, CopiesUnderLock

LEMMA FailStep ==
    ASSUME IInv, NEW c \in Callers, Fail(c)
    PROVE  IInv'
<1>1. /\ call[c].at = "failed"
      /\ call' = [call EXCEPT ![c] = Idle]
      /\ UNCHANGED <<session, prefs, lock, gui, foreign, mixed>>
  BY DEF Fail
<1>2. TypeOK'
  BY <1>1 DEF IInv, TypeOK
<1>3. Good(session)' /\ SnapshotMeetsItsModel' /\ PrefsInForce'
  BY <1>1 DEF IInv, SnapshotMeetsItsModel, PrefsInForce, Unlocked
<1>4. LocksAreHeld'
  BY <1>1 DEF LocksAreHeld, IInv, CopiesUnderLock, TypeOK, Idle
<1>5. CopyIsCurrent'
  BY <1>1 DEF CopyIsCurrent, IInv, CopiesUnderLock, TypeOK, Idle
<1>. QED  BY <1>2, <1>3, <1>4, <1>5 DEF IInv, CopiesUnderLock

LEMMA ApplyStep ==
    ASSUME IInv, NEW c \in Callers, Apply(c)
    PROVE  IInv'
<1> DEFINE p == call[c].copy
           moded == SetJoystickMode(session, p.mode)
<1>1. /\ call[c].at = "apply"
      /\ session' = IF ~HasMachine(session) THEN session
                    ELSE IF HasClassic(session) THEN SetTapeLoadOptions(moded, p.options)
                    ELSE moded
      /\ foreign' = (foreign /\ ~HasMachine(session))
      /\ call' = [call EXCEPT ![c] =
                    IF HasMachine(session) /\ ~HasClassic(session)
                    THEN [at |-> "failed"] ELSE Idle]
      /\ lock' = [lock EXCEPT !["session"] = Free]
      /\ UNCHANGED <<prefs, gui, mixed>>
  BY DEF Apply
<1>2. p = prefs /\ prefs.mode \in Modes /\ prefs.options \in Options
  BY <1>1 DEF IInv, CopiesUnderLock, CopyIsCurrent, TypeOK, Prefs
<1> HIDE DEF p
<1>3. Good(moded) /\ Alike(session, moded) /\ moded.mode = prefs.mode
  BY <1>2, JoystickModeIsGood DEF IInv
<1> HIDE DEF moded
<1>4. /\ Good(session') /\ (~mixed => Matched(session'))
      /\ HasMachine(session') =>
            /\ HasMachine(session) /\ session'.mode = prefs.mode
            /\ HasClassic(session') => session'.machine.options = prefs.options
  <2>1. CASE ~HasMachine(session)
    BY <1>1, <2>1 DEF IInv, Matched
  <2>2. CASE HasClassic(session)
    <3> DEFINE t == SetTapeLoadOptions(moded, p.options)
    <3>1. HasMachine(session) /\ HasMachine(moded)
      BY <1>3, <2>2 DEF HasClassic, Alike
    <3>2. /\ Good(t) /\ HasMachine(t) /\ t.mode = prefs.mode
          /\ t.machine.model = moded.machine.model /\ t.machine.options = prefs.options
          /\ t.machine.snapshot = moded.machine.snapshot
      BY <1>2, <1>3, <3>1, OptionsAreGood
    <3>3. session' = t
      BY <1>1, <2>2, <3>1
    <3> HIDE DEF t
    <3>4. ~mixed => Matched(t)
      BY <1>3, <3>1, <3>2 DEF IInv, SnapshotMeetsItsModel, Matched, Alike
    <3>. QED  BY <3>1, <3>2, <3>3, <3>4
  <2>3. CASE HasMachine(session) /\ ~HasClassic(session)
    <3>1. session' = moded
      BY <1>1, <2>3
    <3>2. ~mixed => Matched(moded)
      BY <1>3, <2>3 DEF IInv, SnapshotMeetsItsModel, Matched, Alike
    <3>3. ~HasClassic(moded)
      BY <1>3, <2>3 DEF Alike, HasClassic
    <3>. QED  BY <1>3, <2>3, <3>1, <3>2, <3>3
  <2>. QED  BY <2>1, <2>2, <2>3
<1>5. TypeOK'
  <2>1. foreign' \in BOOLEAN
    BY <1>1
  <2>2. call' \in [Callers -> Calls \cup {Idle}]
    BY <1>1 DEF IInv, TypeOK, Calls
  <2>3. session' \in Sessions
    BY <1>4 DEF Good
  <2>4. lock' \in [{"session", "prefs"} -> Callers \cup {Free}]
    BY <1>1 DEF IInv, TypeOK
  <2>. QED  BY <1>1, <2>1, <2>2, <2>3, <2>4 DEF IInv, TypeOK
<1>6. SnapshotMeetsItsModel'
  BY <1>1, <1>4 DEF SnapshotMeetsItsModel, Matched
<1>7. PrefsInForce'
  BY <1>1, <1>4 DEF PrefsInForce
<1>8. LocksAreHeld'
  <2>1. lock["session"] = c
    BY <1>1 DEF IInv, CopiesUnderLock, LocksAreHeld
  <2>2. /\ call'[c].at \in {"failed", "idle"}
        /\ \A d \in Callers \ {c} : call'[d] = call[d]
    BY <1>1 DEF IInv, TypeOK, Idle
  <2>3. lock'["session"] = Free /\ lock'["prefs"] = lock["prefs"]
    BY <1>1 DEF IInv, TypeOK
  <2>. QED  BY <1>1, <2>1, <2>2, <2>3, PlaneAssumption DEF IInv, CopiesUnderLock, LocksAreHeld
<1>9. CopyIsCurrent'
  BY <1>1 DEF CopyIsCurrent, IInv, CopiesUnderLock, TypeOK, Idle
<1>. QED  BY <1>4, <1>5, <1>6, <1>7, <1>8, <1>9 DEF IInv, CopiesUnderLock

LEMMA InputStep ==
    ASSUME IInv, Input
    PROVE  IInv'
<1>1. Good(session) /\ HasMachine(session)
  BY DEF IInv, Input
<1>2. UNCHANGED <<prefs, lock, call, gui, foreign, mixed>>
  BY DEF Input
<1>3. CASE \E k \in Keys, pressed \in BOOLEAN : session' = SetKey(session, k, pressed)
  BY <1>1, <1>2, <1>3, InputIsGood, InputOnly
<1>4. CASE session' = ClearKeys(session)
  BY <1>1, <1>2, <1>4, ClearKeysIsGood, InputOnly
<1>5. CASE \E pressed \in BOOLEAN : session' = SetJoystick(session, pressed)
  BY <1>1, <1>2, <1>5, JoystickIsGood, InputOnly
<1>6. CASE session' = Reset(session)
  BY <1>1, <1>2, <1>6, ResetIsGood, InputOnly
<1>. QED  BY <1>3, <1>4, <1>5, <1>6 DEF Input

LEMMA DockStep ==
    ASSUME IInv, Dock
    PROVE  IInv'
<1>1. Good(session) /\ HasMachine(session)
  BY DEF IInv, Dock
<1>. QED  BY <1>1, ChangeDockIsGood, InputOnly DEF Dock

(* Options set by somebody else than the preferences *)
LEMMA ForeignOptions ==
    ASSUME IInv, HasMachine(session), NEW options \in Options,
           session' = SetTapeLoadOptions(session, options), foreign' = TRUE,
           UNCHANGED <<prefs, lock, call, mixed>>, gui' \in Errands \cup {Resting}
    PROVE  IInv'
<1> DEFINE t == SetTapeLoadOptions(session, options)
<1>1. /\ Good(t) /\ HasMachine(t) /\ t.machine.model = session.machine.model
      /\ t.machine.snapshot = session.machine.snapshot
  BY OptionsAreGood DEF IInv
<1> HIDE DEF t
<1>2. ~mixed => Matched(t)
  BY <1>1 DEF IInv, SnapshotMeetsItsModel, Matched
<1>3. session' = t /\ foreign' \in BOOLEAN /\ mixed' \in BOOLEAN
  BY DEF t, IInv, TypeOK
<1>. QED  BY <1>1, <1>2, <1>3, SessionOnly

LEMMA SetOptionsStep ==
    ASSUME IInv, SetOptions
    PROVE  IInv'
<1>1. PICK options \in Options : session' = SetTapeLoadOptions(session, options)
  BY DEF SetOptions
<1>2. HasMachine(session) /\ gui' \in Errands \cup {Resting}
  BY DEF SetOptions, HasClassic, IInv, TypeOK
<1>. QED  BY <1>1, <1>2, ForeignOptions DEF SetOptions

(* A snapshot or a recording that may replace the machine and does not bring  *)
(* the preferences                                                          *)
LEMMA ReplacedMachine ==
    ASSUME IInv, NEW model \in Classic, NEW s, session' = s,
           Good(s), Matched(s),
           ~NeedsModel(session, model) =>
                /\ HasMachine(session)
                /\ s.mode = session.mode
                /\ s.machine.model = session.machine.model
                /\ s.machine.options = session.machine.options,
           foreign' = (foreign \/ NeedsModel(session, model)),
           UNCHANGED <<prefs, lock, call, gui, mixed>>
    PROVE  IInv'
<1>1. NeedsModel(session, model) \in BOOLEAN
  BY DEF NeedsModel, HasMachine
<1>2. foreign' \in BOOLEAN /\ mixed' \in BOOLEAN /\ gui' \in Errands \cup {Resting}
  BY <1>1 DEF IInv, TypeOK
<1>3. ~foreign' => ~foreign /\ ~NeedsModel(session, model)
  BY <1>1 DEF IInv, TypeOK
<1>. QED  BY <1>2, <1>3, SessionOnly

LEMMA RzxStep ==
    ASSUME IInv, Rzx
    PROVE  IInv'
<1>1. PICK m \in Classic, found \in BOOLEAN :
        /\ session' = LoadRzx(session, m, found).session
        /\ foreign' = (foreign \/ NeedsModel(session, m))
  BY DEF Rzx
<1>2. UNCHANGED <<prefs, lock, call, gui, mixed>>
  BY DEF Rzx
<1> DEFINE s == LoadRzx(session, m, found).session
<1>3. /\ Good(s) /\ Matched(s)
      /\ ~NeedsModel(session, m) =>
            /\ HasMachine(session)
            /\ s.mode = session.mode
            /\ s.machine.model = session.machine.model
            /\ s.machine.options = session.machine.options
  BY LoadRzxIsGood DEF IInv
<1>4. session' = s
  BY <1>1
<1> HIDE DEF s
<1>. QED  BY <1>1, <1>2, <1>3, <1>4, ReplacedMachine

LEMMA RzxWithoutSnapshotStep ==
    ASSUME IInv, RzxWithoutSnapshot
    PROVE  IInv'
<1>1. Good(session) /\ HasMachine(session)
  BY DEF IInv, RzxWithoutSnapshot, HasClassic
<1>. QED  BY <1>1, InsertRzxIsGood, InputOnly DEF RzxWithoutSnapshot

LEMMA RzxFrameStep ==
    ASSUME IInv, RzxFrame
    PROVE  IInv'
<1>1. Good(session) /\ HasMachine(session)
  BY DEF IInv, RzxFrame
<1>. QED  BY <1>1, DrivenIsGood, InputOnly DEF RzxFrame

LEMMA TypeLoadStep ==
    ASSUME IInv, TypeLoad
    PROVE  IInv'
<1>1. Good(session) /\ HasMachine(session)
  BY DEF IInv, TypeLoad, HasClassic
<1>2. session.machine.port \in BOOLEAN
  BY <1>1, MachineTypes DEF Good, Machines
<1>. QED  BY <1>1, <1>2, DrivenIsGood, InputOnly DEF TypeLoad

LEMMA PlaneInvariance ==
    ASSUME IInv, PlaneStep
    PROVE  IInv'
<1>1. CASE \E c \in Callers :
        \/ Load(c) \/ ClonePrefs(c) \/ Apply(c) \/ Fail(c)
        \/ PatchFirst(c) \/ PatchSecond(c) \/ Update(c)
  BY <1>1, LoadStep, ClonePrefsStep, ApplyStep, FailStep, PatchFirstStep,
     PatchSecondStep, UpdateStep
<1>2. CASE Input \/ Dock \/ SetOptions \/ Rzx \/ RzxWithoutSnapshot \/ RzxFrame \/ TypeLoad
  BY <1>2, InputStep, DockStep, SetOptionsStep, RzxStep, RzxWithoutSnapshotStep,
     RzxFrameStep, TypeLoadStep
<1>. QED  BY <1>1, <1>2 DEF PlaneStep

-----------------------------------------------------------------------------
(* The egui host.                                                           *)

LEMMA GuiFrameStep ==
    ASSUME IInv, GuiFrame
    PROVE  IInv'
<1>1. PICK held \in SUBSET Keys, stick \in BOOLEAN :
        LET window == [session EXCEPT !.keys = held, !.stick = stick]
        IN  session' = Driven(session, Matrix(window), Port(window))
  BY DEF GuiFrame
<1> DEFINE window == [session EXCEPT !.keys = held, !.stick = stick]
<1>2. window \in Sessions
  BY DEF IInv, Good, Sessions
<1>3. session' = Driven(session, Matrix(window), Port(window))
  BY <1>1
<1> HIDE DEF window
<1>4. Matrix(window) \in SUBSET Keys /\ Port(window) \in BOOLEAN
  BY <1>2, MatrixTypes
<1>5. Good(session) /\ HasMachine(session)
  BY DEF IInv, GuiFrame, HasClassic
<1>6. /\ Good(session') /\ Alike(session, session')
      /\ session'.mode = session.mode
  BY <1>3, <1>4, <1>5, DrivenIsGood
<1>. QED  BY <1>6, InputOnly DEF GuiFrame

(* A joystick mode set by somebody else than the preferences *)
LEMMA ForeignMode ==
    ASSUME IInv, NEW mode \in Modes, session' = SetJoystickMode(session, mode),
           foreign' = TRUE, UNCHANGED <<prefs, lock, call, mixed>>,
           gui' \in Errands \cup {Resting}
    PROVE  IInv'
<1>1. Good(session') /\ Alike(session, session')
  BY JoystickModeIsGood DEF IInv
<1>2. ~mixed => Matched(session')
  BY <1>1 DEF IInv, SnapshotMeetsItsModel, Matched, Alike
<1>3. foreign' \in BOOLEAN /\ mixed' \in BOOLEAN
  BY DEF IInv, TypeOK
<1>. QED  BY <1>1, <1>2, <1>3, SessionOnly

LEMMA GuiSetsModeStep ==
    ASSUME IInv, GuiSetsMode
    PROVE  IInv'
<1>1. gui' \in Errands \cup {Resting}
  BY DEF GuiSetsMode, IInv, TypeOK
<1>. QED  BY <1>1, ForeignMode DEF GuiSetsMode

LEMMA GuiActivatesStep ==
    ASSUME IInv, GuiActivates
    PROVE  IInv'
<1>1. PICK m \in Models, found \in BOOLEAN :
        LET r == ActivateModel(session, m, found)
        IN  /\ session' = r.session
            /\ foreign' = (foreign \/ r.ok)
            /\ GuiGoes(IF r.ok THEN [at |-> "options"] ELSE Resting)
  BY DEF GuiActivates
<1> DEFINE r == ActivateModel(session, m, found)
<1>2. Outcome(session, r) /\ (~r.ok => r.session = session)
  BY ActivateModelIsGood DEF IInv
<1>3. /\ session' = r.session /\ foreign' = (foreign \/ r.ok)
      /\ gui' = IF r.ok THEN [at |-> "options"] ELSE Resting
  BY <1>1 DEF GuiGoes
<1>4. UNCHANGED <<prefs, lock, call, mixed>>
  BY DEF GuiActivates
<1> HIDE DEF r
<1>5. r.ok \in BOOLEAN /\ foreign \in BOOLEAN /\ mixed' \in BOOLEAN
  BY <1>2, <1>4 DEF Outcome, IInv, TypeOK
<1>6. foreign' \in BOOLEAN /\ (~foreign' => ~foreign /\ ~r.ok)
  BY <1>3, <1>5
<1>7. gui' \in Errands \cup {Resting}
  BY <1>3 DEF Errands
<1>8. Good(session') /\ (~mixed' => Matched(session'))
  BY <1>2, <1>3, <1>4 DEF Outcome, IInv, SnapshotMeetsItsModel, Matched
<1>. QED  BY <1>2, <1>3, <1>4, <1>5, <1>6, <1>7, <1>8, SessionOnly

LEMMA GuiRestoresOptionsStep ==
    ASSUME IInv, GuiRestoresOptions
    PROVE  IInv'
<1>1. gui' \in Errands \cup {Resting} /\ UNCHANGED <<prefs, lock, call, mixed>>
  BY DEF GuiRestoresOptions, GuiGoes
<1>2. CASE HasClassic(session)
  <2>1. PICK options \in Options : session' = SetTapeLoadOptions(session, options)
    BY <1>2 DEF GuiRestoresOptions
  <2>2. foreign' = TRUE /\ HasMachine(session)
    BY <1>2 DEF GuiRestoresOptions, HasClassic
  <2>. QED  BY <1>1, <2>1, <2>2, ForeignOptions
<1>3. CASE ~HasClassic(session)
  BY <1>1, <1>3, ErrandOnly DEF GuiRestoresOptions
<1>. QED  BY <1>2, <1>3

LEMMA GuiOpensSnapshotStep ==
    ASSUME IInv, GuiOpensSnapshot
    PROVE  IInv'
<1>1. gui' \in Errands \cup {Resting}
  BY DEF GuiOpensSnapshot, GuiGoes, Errands
<1>. QED  BY <1>1, ErrandOnly DEF GuiOpensSnapshot

(* What the window's thread knows in each of its errands *)
LEMMA ErrandTypes ==
    ASSUME IInv, gui # Resting
    PROVE  /\ gui.at \in {"compare", "set", "clear", "look", "apply", "build",
                          "mode", "machine"} => gui.target \in Classic
           /\ gui.at = "build" => gui.model \in Models
BY DEF IInv, TypeOK, Errands

LEMMA GuiComparesStep ==
    ASSUME IInv, GuiCompares
    PROVE  IInv'
<1>1. gui \in [at : {"compare"}, target : Classic]
  BY DEF GuiCompares, IInv, TypeOK, Errands, Resting
<1>2. gui' \in Errands \cup {Resting}
  BY <1>1 DEF GuiCompares, GuiGoes, Errands
<1>. QED  BY <1>2, ErrandOnly DEF GuiCompares

LEMMA GuiSetsModelStep ==
    ASSUME IInv, GuiSetsModel
    PROVE  IInv'
<1>1. gui \in [at : {"set"}, target : Classic]
  BY DEF GuiSetsModel, IInv, TypeOK, Errands, Resting
<1>2. gui' \in Errands \cup {Resting}
  BY <1>1 DEF GuiSetsModel, GuiGoes, Errands
<1>3. gui.target \in Models /\ session \in Sessions
  BY <1>1 DEF Models, IInv, Good
<1>4. Good(session') /\ Matched(session') /\ ~HasMachine(session')
  BY <1>3, SetModelIsGood DEF GuiSetsModel
<1>5. foreign' \in BOOLEAN /\ mixed' \in BOOLEAN
  BY DEF GuiSetsModel, IInv, TypeOK
<1>. QED  BY <1>2, <1>4, <1>5, SessionOnly DEF GuiSetsModel

LEMMA GuiClearsStep ==
    ASSUME IInv, GuiClears
    PROVE  IInv'
<1>1. gui \in [at : {"clear"}, target : Classic]
  BY DEF GuiClears, IInv, TypeOK, Errands, Resting
<1>2. gui' \in Errands \cup {Resting}
  BY <1>1 DEF GuiClears, GuiGoes, Errands
<1>3. Good(session') /\ Matched(session') /\ ~HasMachine(session')
  BY ClearMachineIsGood DEF GuiClears, IInv
<1>4. foreign' \in BOOLEAN /\ mixed' \in BOOLEAN
  BY DEF GuiClears, IInv, TypeOK
<1>. QED  BY <1>2, <1>3, <1>4, SessionOnly DEF GuiClears

LEMMA GuiLooksStep ==
    ASSUME IInv, GuiLooks
    PROVE  IInv'
<1>1. gui \in [at : {"look"}, target : Classic] /\ session.model \in Models
  BY DEF GuiLooks, IInv, TypeOK, Errands, Resting, Sessions
<1>2. gui' \in Errands \cup {Resting}
  BY <1>1 DEF GuiLooks, GuiGoes, Errands
<1>. QED  BY <1>2, ErrandOnly DEF GuiLooks

LEMMA GuiBuildsStep ==
    ASSUME IInv, GuiBuilds
    PROVE  IInv'
<1>1. gui \in [at : {"build"}, target : Classic, model : Models]
  BY DEF GuiBuilds, IInv, TypeOK, Errands, Resting
<1>2. gui' \in Errands \cup {Resting}
  BY <1>1 DEF GuiBuilds, GuiGoes, Errands
<1>3. foreign' = TRUE /\ mixed' \in BOOLEAN /\ UNCHANGED <<prefs, lock, call, mixed>>
  BY DEF GuiBuilds, IInv, TypeOK
<1>4. PICK found \in BOOLEAN :
        session' =
            IF gui.model = NextModel THEN SelectModel(session, NextModel, found).session
            ELSE IF found THEN SetMachine(session, gui.model)
            ELSE session
  BY DEF GuiBuilds
<1>5. Good(session') /\ (~mixed => Matched(session'))
  <2>1. CASE gui.model = NextModel
    <3>1. NextModel \in Models /\ session \in Sessions
      BY DEF Models, IInv, Good
    <3> DEFINE r == SelectModel(session, NextModel, found)
    <3>2. Outcome(session, r) /\ Matched(r.session)
      BY <3>1, SelectModelIsGood
    <3>3. session' = r.session
      BY <1>4, <2>1
    <3> HIDE DEF r
    <3>. QED  BY <3>2, <3>3 DEF Outcome
  <2>2. CASE gui.model # NextModel /\ found
    <3>1. session' = SetMachine(session, gui.model) /\ gui.model \in Models
      BY <1>1, <1>4, <2>2
    <3>. QED  BY <3>1, SetMachineIsGood DEF IInv
  <2>3. CASE gui.model # NextModel /\ ~found
    BY <1>4, <2>3 DEF IInv, SnapshotMeetsItsModel, Matched
  <2>. QED  BY <2>1, <2>2, <2>3
<1>. QED  BY <1>2, <1>3, <1>5, SessionOnly

LEMMA GuiAppliesStep ==
    ASSUME IInv, GuiApplies
    PROVE  IInv'
<1>1. gui.target \in Classic
  BY ErrandTypes DEF GuiApplies, Resting
<1>2. gui' \in Errands \cup {Resting} /\ UNCHANGED <<prefs, lock, call, foreign>>
  BY DEF GuiApplies, GuiGoes
<1>3. CASE HasClassic(session)
  <2> DEFINE t == [session EXCEPT !.machine.snapshot = gui.target]
  <2>1. HasMachine(session) /\ Good(session)
    BY <1>3 DEF HasClassic, IInv
  <2>2. /\ Good(t) /\ HasMachine(t) /\ t.mode = session.mode
        /\ t.machine.model = session.machine.model
        /\ t.machine.options = session.machine.options
        /\ t.machine.snapshot = gui.target
    BY <1>1, <2>1, GivenSnapshot
  <2>3. session' = t /\ mixed' = (mixed \/ session.machine.model # gui.target)
    BY <1>3 DEF GuiApplies
  <2> HIDE DEF t
  <2>4. foreign' \in BOOLEAN /\ mixed \in BOOLEAN /\ (foreign' => foreign)
    BY <1>2 DEF IInv, TypeOK
  <2>5. mixed' \in BOOLEAN /\ (~mixed' => session.machine.model = gui.target)
    BY <2>3, <2>4
  <2>6. ~mixed' => Matched(session')
    BY <2>2, <2>3, <2>5 DEF Matched
  <2>. QED  BY <1>2, <2>1, <2>2, <2>3, <2>4, <2>5, <2>6, SessionOnly
<1>4. CASE ~HasClassic(session)
  BY <1>2, <1>4, ErrandOnly DEF GuiApplies
<1>. QED  BY <1>3, <1>4

LEMMA GuiOpensRecentStep ==
    ASSUME IInv, GuiOpensRecent
    PROVE  IInv'
<1>1. PICK m \in Classic, found \in BOOLEAN :
        /\ session' = ApplySnapshot(session, m, found).session
        /\ foreign' = (foreign \/ NeedsModel(session, m))
  BY DEF GuiOpensRecent
<1>2. UNCHANGED <<prefs, lock, call, gui, mixed>>
  BY DEF GuiOpensRecent
<1> DEFINE r == ApplySnapshot(session, m, found)
           s == r.session
<1>3. /\ Outcome(session, r) /\ Matched(s)
      /\ ~NeedsModel(session, m) =>
            /\ HasMachine(session)
            /\ s.mode = session.mode
            /\ s.machine.model = session.machine.model
            /\ s.machine.options = session.machine.options
  BY ApplySnapshotIsGood DEF IInv
<1>4. session' = s /\ Good(s)
  BY <1>1, <1>3 DEF Outcome
<1> HIDE DEF s, r
<1>. QED  BY <1>1, <1>2, <1>3, <1>4, ReplacedMachine

LEMMA GuiOpensConfigStep ==
    ASSUME IInv, GuiOpensConfig
    PROVE  IInv'
<1>1. PICK m \in Classic :
        /\ session' = SetModel(session, m)
        /\ GuiGoes([at |-> "mode", target |-> m])
  BY DEF GuiOpensConfig
<1>2. gui' \in Errands \cup {Resting}
  BY <1>1 DEF GuiGoes, Errands
<1>3. m \in Models /\ session \in Sessions
  BY DEF Models, IInv, Good
<1>4. Good(session') /\ Matched(session') /\ ~HasMachine(session')
  BY <1>1, <1>3, SetModelIsGood
<1>5. foreign' \in BOOLEAN /\ mixed' \in BOOLEAN
  BY DEF GuiOpensConfig, IInv, TypeOK
<1>. QED  BY <1>2, <1>4, <1>5, SessionOnly DEF GuiOpensConfig

LEMMA GuiConfigModeStep ==
    ASSUME IInv, GuiConfigMode
    PROVE  IInv'
<1>1. gui \in [at : {"mode"}, target : Classic] \cup [at : {"machine"}, target : Classic]
  BY DEF GuiConfigMode, IInv, TypeOK, Errands, Resting
<1>2. gui' \in Errands \cup {Resting}
  BY <1>1 DEF GuiConfigMode, GuiGoes, Errands
<1>. QED  BY <1>2, ForeignMode DEF GuiConfigMode

LEMMA GuiConfigMachineStep ==
    ASSUME IInv, GuiConfigMachine
    PROVE  IInv'
<1>1. gui.target \in Models
  BY ErrandTypes DEF GuiConfigMachine, Resting, Models
<1>2. Good(session') /\ Matched(session')
  BY <1>1, SetMachineIsGood DEF GuiConfigMachine, IInv
<1>3. /\ gui' \in Errands \cup {Resting} /\ foreign' = TRUE /\ mixed' \in BOOLEAN
      /\ UNCHANGED <<prefs, lock, call, mixed>>
  BY DEF GuiConfigMachine, GuiGoes, IInv, TypeOK
<1>. QED  BY <1>2, <1>3, SessionOnly

LEMMA GuiInvariance ==
    ASSUME IInv, GuiStep
    PROVE  IInv'
BY GuiFrameStep, GuiSetsModeStep, GuiActivatesStep, GuiRestoresOptionsStep,
   GuiOpensSnapshotStep, GuiComparesStep, GuiSetsModelStep, GuiClearsStep,
   GuiLooksStep, GuiBuildsStep, GuiAppliesStep, GuiOpensRecentStep,
   GuiOpensConfigStep, GuiConfigModeStep, GuiConfigMachineStep
   DEF GuiStep

-----------------------------------------------------------------------------
(* Theorems.                                                                *)

(* IInv holds whatever callers and the window's thread do, in any order.     *)
THEOREM PlaneInvariant == Spec => []IInv
<1>1. IInv /\ [Next]_vars => IInv'
  <2> SUFFICES ASSUME IInv, [Next]_vars PROVE IInv'
    OBVIOUS
  <2>1. CASE Next
    BY <2>1, PlaneInvariance, GuiInvariance DEF Next
  <2>2. CASE UNCHANGED vars
    <3>1. UNCHANGED <<session, prefs, lock, call, gui, foreign, mixed>>
      BY <2>2 DEF vars
    <3>2. gui' \in Errands \cup {Resting}
      BY <3>1 DEF IInv, TypeOK
    <3>. QED  BY <3>1, <3>2, ErrandOnly
  <2>. QED  BY <2>1, <2>2
<1>. QED  BY <1>1, Initially, PTL DEF Spec

(* Every variable keeps its type.                                            *)
THEOREM PlaneTypeCorrect == Spec => []TypeOK
<1>1. IInv => TypeOK
  BY DEF IInv
<1>. QED  BY <1>1, PlaneInvariant, PTL

(* A machine that is there is of the selected model, although several         *)
(* handlers and the egui host set the two in separate critical sections.     *)
THEOREM RuntimeIsOfItsModel == Spec => []RuntimeMatchesModel
<1>1. IInv => RuntimeMatchesModel
  BY DEF IInv, Good, RuntimeMatchesModel
<1>. QED  BY <1>1, PlaneInvariant, PTL

(* Held keys and stick survive every load, every change of model and mode     *)
(* and HostSession's own reset.  Of the other reset, a dock's, it says that   *)
(* the guest then sees no key and no stick, whatever the session holds.      *)
THEOREM InputIsLostToTheDockOnly == Spec => []InputReachesMachine
<1>1. IInv => InputReachesMachine
  BY DEF IInv, Good, InputReachesMachine
<1>. QED  BY <1>1, PlaneInvariant, PTL

(* Concurrent loads and patches never leave a machine with stale preferences. *)
THEOREM PrefsAreInForce == Spec => []PrefsInForce
<1>1. IInv => PrefsInForce
  BY DEF IInv
<1>. QED  BY <1>1, PlaneInvariant, PTL

(* A snapshot is only given to a machine of its own model.                    *)
THEOREM SnapshotsMeetTheirModel == Spec => []SnapshotMeetsItsModel
<1>1. IInv => SnapshotMeetsItsModel
  BY DEF IInv
<1>. QED  BY <1>1, PlaneInvariant, PTL

(* The lock order of service.rs excludes a circle of two threads.             *)
THEOREM NoDeadlock == Spec => []NobodyWaitsInACircle
<1>1. IInv => NobodyWaitsInACircle
  <2> SUFFICES ASSUME IInv, NEW c \in Callers, NEW d \in Callers,
                      Wanted(c) # "nothing", Wanted(d) # "nothing",
                      lock[Wanted(c)] = d
               PROVE  FALSE
    BY DEF NobodyWaitsInACircle
  <2>1. Wanted(c) = "prefs" /\ call[d].at # "update"
    BY DEF Wanted, PatchOrder
  <2>. QED  BY <2>1 DEF IInv, CopiesUnderLock, LocksAreHeld
<1>. QED  BY <1>1, PlaneInvariant, PTL
=============================================================================
