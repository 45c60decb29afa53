------------------------------ MODULE Debugger ------------------------------
(***************************************************************************)
(* The instruction-level debugger of a machine (crates/machine/src/         *)
(* debugger.rs), the loops that consult it (run_one_frame, step_once and    *)
(* run_until_break in crates/machine/src/lib.rs) and the run control a      *)
(* HostSession offers over it (crates/host_api/src/session.rs).             *)
(*                                                                          *)
(* The guest program is abstract: an iteration of a loop may leave any      *)
(* program counter behind and may touch a watched address.  `op` is the     *)
(* call that holds the session lock; while it runs no other call is made.   *)
(***************************************************************************)
EXTENDS Integers, Sequences, FiniteSets

CONSTANTS
    PCs,          \* program counters the guest visits
    NoPC,         \* Option::None for skip_pc_once
    HistoryCap,   \* PC_HIT_HISTORY (128)
    MaxHits,      \* bound: no call starts once this many stops were recorded
    MaxBudget     \* bound: the largest step count or instruction budget asked for

ASSUME DebuggerAssumption ==
    /\ NoPC \notin PCs
    /\ HistoryCap \in Nat \ {0}
    /\ MaxHits \in Nat
    /\ MaxBudget \in Nat \ {0}

VARIABLES
    runtime,      \* HostRuntime of the session: "none", "classic" or "next"
    running,      \* HostSession.running
    op,           \* the call in progress and what is left of its budget
    pc,           \* the program counter
    pcBreaks,     \* Debugger.pc_breaks
    watching,     \* some memory or port watch is armed
    paused,       \* Debugger.paused, or NextMachine.debugger_paused
    lastHit,      \* Debugger.last_hit
    skip,         \* Debugger.skip_pc_once
    pcHits,       \* Debugger.pc_hits
    hitId,        \* NEXT_PC_HIT_ID, process-wide
    \* History, read by the properties only:
    latest        \* the latest of a recorded stop, a Continue and the guest moving on

debuggerVars == <<pcBreaks, watching, paused, lastHit, skip, pcHits, hitId>>
vars == <<runtime, running, op, pc, debuggerVars, latest>>

None == [kind |-> "none", pc |-> NoPC]
AtPC(p) == [kind |-> "pc", pc |-> p]
Watch == [kind |-> "watch", pc |-> NoPC]
Halt == [kind |-> "halt", pc |-> NoPC]
Budget == [kind |-> "budget", pc |-> NoPC]
Reasons == {None, Watch, Halt, Budget} \cup {AtPC(p) : p \in PCs}

Idle == [kind |-> "idle", left |-> 0, since |-> 0]
Calls == {"idle", "frame", "step", "debugStep", "runUntil"}

TypeOK ==
    /\ runtime \in {"none", "classic", "next"}
    /\ running \in BOOLEAN
    /\ op \in [kind : Calls, left : 0 .. MaxBudget, since : Nat]
    /\ pc \in PCs
    /\ pcBreaks \subseteq PCs
    /\ watching \in BOOLEAN
    /\ paused \in BOOLEAN
    /\ lastHit \in Reasons
    /\ skip \in PCs \cup {NoPC}
    /\ pcHits \in Seq([id : Nat, pc : PCs])
    /\ Len(pcHits) <= HistoryCap
    /\ hitId \in Nat
    /\ latest \in {"none", "stop", "continue", "moved"}

Init ==
    /\ runtime = "none"
    /\ running = FALSE
    /\ op = Idle
    /\ pc \in PCs
    /\ pcBreaks = {}
    /\ watching = FALSE
    /\ paused = FALSE
    /\ lastHit = None
    /\ skip = NoPC
    /\ pcHits = <<>>
    /\ hitId = 0
    /\ latest = "none"

-----------------------------------------------------------------------------
(* debugger.rs *)

(* Mutated form of ContinueFromPc: the breakpoint is not passed. *)
ContinueWithoutSkip ==
    /\ paused' = FALSE
    /\ lastHit' = None
    /\ UNCHANGED skip

(* continue_from_pc, at the current program counter. *)
ContinueFromPc ==
    /\ paused' = FALSE
    /\ skip' = pc
    /\ lastHit' = None

(* check_pc lets the iteration proceed and forgets the skip it used... *)
PcProceeds == skip = pc \/ pc \notin pcBreaks

ConsumeSkip == skip' = IF skip = pc THEN NoPC ELSE skip

(* Mutated form of RecordPcHit: a full history takes no further stop. *)
RecordPcHitWhileRoom ==
    /\ paused' = TRUE
    /\ lastHit' = AtPC(pc)
    /\ hitId' = hitId + 1
    /\ pcHits' = IF Len(pcHits) = HistoryCap THEN pcHits
                 ELSE Append(pcHits, [id |-> hitId', pc |-> pc])

(* ...or it stops the machine and records the stop. *)
RecordPcHit ==
    /\ paused' = TRUE
    /\ lastHit' = AtPC(pc)
    /\ hitId' = hitId + 1
    /\ pcHits' = Append(IF Len(pcHits) = HistoryCap THEN Tail(pcHits) ELSE pcHits,
                        [id |-> hitId', pc |-> pc])

(* current_pc_hit: the active stop as a set of at most one hit. *)
CurrentPcHit ==
    IF paused /\ lastHit.kind = "pc" /\ pcHits # <<>>
          /\ pcHits[Len(pcHits)].pc = lastHit.pc
    THEN {pcHits[Len(pcHits)]}
    ELSE {}

(* One iteration of a loop that check_pc lets proceed: an instruction that  *)
(* may hit a watch, an accepted interrupt, a tape trap or a tape hold.      *)
Proceed ==
    /\ PcProceeds
    /\ ConsumeSkip
    /\ pc' \in PCs
    /\ \/ /\ watching
          /\ paused' = TRUE
          /\ lastHit' = Watch
       \/ UNCHANGED <<paused, lastHit>>
    /\ UNCHANGED <<pcHits, hitId>>

StopAtBreak ==
    /\ ~PcProceeds
    /\ RecordPcHit
    /\ UNCHANGED <<pc, skip>>

Iteration ==
    /\ \/ Proceed /\ latest' = "moved"
       \/ StopAtBreak /\ latest' = "stop"
    /\ UNCHANGED <<runtime, running, pcBreaks, watching>>

-----------------------------------------------------------------------------
(* Calls that run the guest.  Each starts here and iterates below. *)

Ready == op = Idle /\ runtime = "classic"
Begin(kind, n) ==
    /\ Ready
    /\ hitId < MaxHits
    /\ op' = [kind |-> kind, left |-> n, since |-> hitId]

(* run_frame and run_frames of the session: nothing advances unless the     *)
(* session is running and the machine is not paused.                        *)
StartFrame ==
    /\ Begin("frame", 0)
    /\ running
    /\ ~paused
    /\ UNCHANGED <<runtime, running, pc, debuggerVars, latest>>

(* Mutated form of FrameIteration: a stop does not end the frame. *)
FrameIterationRunsOn ==
    /\ op.kind = "frame"
    /\ Iteration
    /\ op' \in {op, Idle}

(* A frame ends when its T-states have passed, or at a stop. *)
FrameIteration ==
    /\ op.kind = "frame"
    /\ Iteration
    /\ op' \in IF paused' THEN {Idle} ELSE {op, Idle}

(* At the start of a frame a hybrid tape load that finished its stripes     *)
(* returns from the ROM routine, before any check_pc.                       *)
FrameTapeReturn ==
    /\ op.kind = "frame"
    /\ pc' \in PCs
    /\ latest' = "moved"
    /\ UNCHANGED <<runtime, running, op, debuggerVars>>

(* step of the control plane: count calls of step_once. *)
StartStep ==
    /\ \E n \in 1 .. MaxBudget : Begin("step", n)
    /\ UNCHANGED <<runtime, running, pc, debuggerVars, latest>>

StepIteration ==
    /\ op.kind = "step"
    /\ Iteration
    /\ op' = IF op.left = 1 THEN Idle ELSE [op EXCEPT !.left = @ - 1]

(* debug_step of the session: pass the stop, run one step_once, pause. *)
StartDebugStep ==
    /\ Begin("debugStep", 1)
    /\ IF paused
       THEN ContinueFromPc /\ latest' = "continue"
       ELSE UNCHANGED <<paused, skip, lastHit, latest>>
    /\ UNCHANGED <<runtime, running, pc, pcBreaks, watching, pcHits, hitId>>

DebugStepIteration ==
    /\ op.kind = "debugStep" /\ op.left = 1
    /\ Iteration
    /\ op' = [op EXCEPT !.left = 0]

FinishDebugStep ==
    /\ op.kind = "debugStep" /\ op.left = 0
    /\ paused' = TRUE
    /\ op' = Idle
    /\ UNCHANGED <<runtime, running, pc, pcBreaks, watching, lastHit, skip, pcHits,
                   hitId, latest>>

(* Mutated form of StartRunUntil: the last reason is kept. *)
StartRunUntilKeepsReason ==
    /\ \E n \in 0 .. MaxBudget : Begin("runUntil", n)
    /\ IF paused
       THEN ContinueFromPc /\ latest' = "continue"
       ELSE UNCHANGED <<lastHit, paused, skip, latest>>
    /\ UNCHANGED <<runtime, running, pc, pcBreaks, watching, pcHits, hitId>>

(* run_until_break *)
StartRunUntil ==
    /\ \E n \in 0 .. MaxBudget : Begin("runUntil", n)
    /\ IF paused
       THEN ContinueFromPc /\ latest' = "continue"
       ELSE lastHit' = None /\ UNCHANGED <<paused, skip, latest>>
    /\ UNCHANGED <<runtime, running, pc, pcBreaks, watching, pcHits, hitId>>

RunUntilIteration ==
    /\ op.kind = "runUntil"
    /\ op.left > 0
    /\ Iteration
    /\ op' = IF lastHit' # None THEN Idle ELSE [op EXCEPT !.left = @ - 1]

(* The CPU is halted with interrupts disabled. *)
RunUntilHalted ==
    /\ op.kind = "runUntil"
    /\ op.left > 0
    /\ paused' = TRUE
    /\ lastHit' = Halt
    /\ op' = Idle
    /\ UNCHANGED <<runtime, running, pc, pcBreaks, watching, skip, pcHits, hitId, latest>>

RunUntilExhausted ==
    /\ op.kind = "runUntil"
    /\ op.left = 0
    /\ lastHit' = Budget
    /\ op' = Idle
    /\ UNCHANGED <<runtime, running, pc, pcBreaks, watching, paused, skip, pcHits,
                   hitId, latest>>

-----------------------------------------------------------------------------
(* Calls that do not run the guest. *)

SetRunning ==
    /\ op = Idle
    /\ running' = ~running
    /\ UNCHANGED <<runtime, op, pc, debuggerVars, latest>>

(* continue_execution; debug_continue also sets `running`. *)
Continue ==
    /\ Ready
    /\ ContinueFromPc
    /\ running' \in {running, TRUE}
    /\ latest' = "continue"
    /\ UNCHANGED <<runtime, op, pc, pcBreaks, watching, pcHits, hitId>>

ContinueNext ==
    /\ op = Idle
    /\ runtime = "next"
    /\ paused' = FALSE
    /\ running' \in {running, TRUE}
    /\ UNCHANGED <<runtime, op, pc, pcBreaks, watching, lastHit, skip, pcHits, hitId, latest>>

(* set_paused, by a front end that pauses and resumes a session. *)
SetPaused(b) ==
    /\ op = Idle
    /\ runtime # "none"
    /\ paused' = b
    /\ UNCHANGED <<runtime, running, op, pc, pcBreaks, watching, lastHit, skip, pcHits,
                   hitId, latest>>

SetBreakpoint(p, on) ==
    /\ Ready
    /\ pcBreaks' = IF on THEN pcBreaks \cup {p} ELSE pcBreaks \ {p}
    /\ UNCHANGED <<runtime, running, op, pc, watching, paused, lastHit, skip, pcHits,
                   hitId, latest>>

(* add_mem_watch, add_port_watch and their removal. *)
SetWatches(on) ==
    /\ Ready
    /\ watching' = on
    /\ UNCHANGED <<runtime, running, op, pc, pcBreaks, paused, lastHit, skip, pcHits,
                   hitId, latest>>

ClearBreaks ==
    /\ Ready
    /\ pcBreaks' = {}
    /\ watching' = FALSE
    /\ lastHit' = None
    /\ UNCHANGED <<runtime, running, op, pc, paused, skip, pcHits, hitId, latest>>

(* patch_regs, and a snapshot for the model that is already loaded. *)
PatchPc ==
    /\ Ready
    /\ pc' \in PCs
    /\ latest' = IF latest = "continue" THEN "moved" ELSE latest
    /\ UNCHANGED <<runtime, running, op, debuggerVars>>

(* reset: a classic machine ends the previous stop and keeps its            *)
(* breakpoints, a Next machine keeps its pause.                             *)
Reset ==
    /\ op = Idle
    /\ runtime # "none"
    /\ pc' \in PCs
    /\ latest' = "none"
    /\ IF runtime = "classic"
       THEN paused' = FALSE /\ lastHit' = None /\ skip' = NoPC
       ELSE UNCHANGED <<paused, lastHit, skip>>
    /\ UNCHANGED <<runtime, running, op, pcBreaks, watching, pcHits, hitId>>

(* Mutated form of ReplaceRuntime: identities start again per machine. *)
ReplaceRuntimeResetsIds(r) ==
    /\ op = Idle
    /\ runtime' = r
    /\ pc' \in PCs
    /\ pcBreaks' = {}
    /\ watching' = FALSE
    /\ paused' = FALSE
    /\ lastHit' = None
    /\ skip' = NoPC
    /\ pcHits' = <<>>
    /\ latest' = "none"
    /\ hitId' = 0
    /\ UNCHANGED <<running, op>>

(* set_machine, boot_next, set_model, clear_machine: a runtime comes with a *)
(* debugger of its own.                                                     *)
ReplaceRuntime(r) ==
    /\ op = Idle
    /\ runtime' = r
    /\ pc' \in PCs
    /\ pcBreaks' = {}
    /\ watching' = FALSE
    /\ paused' = FALSE
    /\ lastHit' = None
    /\ skip' = NoPC
    /\ pcHits' = <<>>
    /\ latest' = "none"
    /\ UNCHANGED <<running, op, hitId>>

-----------------------------------------------------------------------------

RunGuest ==
    \/ StartFrame \/ FrameIteration \/ FrameTapeReturn
    \/ StartStep \/ StepIteration
    \/ StartDebugStep \/ DebugStepIteration \/ FinishDebugStep
    \/ StartRunUntil \/ RunUntilIteration \/ RunUntilHalted \/ RunUntilExhausted

Control ==
    \/ SetRunning \/ Continue \/ ContinueNext \/ ClearBreaks \/ PatchPc \/ Reset
    \/ \E b \in BOOLEAN : SetPaused(b) \/ SetWatches(b)
    \/ \E p \in PCs, on \in BOOLEAN : SetBreakpoint(p, on)
    \/ \E r \in {"none", "classic", "next"} : ReplaceRuntime(r)

Next == RunGuest \/ Control

Spec == Init /\ [][Next]_vars

-----------------------------------------------------------------------------
(* Properties.                                                              *)

(* What an observer of PC stops is promised holds of the debugger, whatever *)
(* the session does with it: identities never repeat, the retained stops    *)
(* are the newest without a hole, and a current stop is the newest one      *)
(* (check_pc, pc_hits_since, latest_pc_hit_id, current_pc_hit).             *)
Journal == INSTANCE StopJournal
    WITH MaxHits <- MaxHits + MaxBudget,
         up <- runtime = "classic",
         retained <- {pcHits[i].id : i \in 1 .. Len(pcHits)},
         active <- IF CurrentPcHit = {} THEN 0 ELSE pcHits[Len(pcHits)].id

ImplementsJournal == Journal!JournalSpec

(* Whenever the last stop reason is a PC stop, its record is the newest one *)
(* in the journal: current_pc_hit, which pairs the two, never loses a stop  *)
(* or names another one.                                                    *)
StopHasRecord ==
    lastHit.kind = "pc" =>
        /\ pcHits # <<>>
        /\ pcHits[Len(pcHits)].pc = lastHit.pc

(* Continue passes the breakpoint it was asked at: no stop is recorded      *)
(* before the guest has moved on (continue_from_pc: "without immediately    *)
(* re-hitting it"), in whichever loop runs next.                            *)
NoRehitAfterContinue == [][hitId' # hitId => latest # "continue"]_vars

(* A paused machine stays where it is while a frame or a run-until is in    *)
(* progress, and records no further stop; only step ignores the pause.      *)
PausedMeansStopped ==
    [][paused /\ op # Idle /\ (pc' # pc \/ hitId' # hitId) => op.kind = "step"]_vars

(* run_until_break never returns the reason of an earlier stop.             *)
RunUntilReportsItsOwnStop ==
    [][op.kind = "runUntil" /\ op' = Idle /\ lastHit'.kind = "pc"
           => hitId' > op.since]_vars

(* docs/AGENT_DEBUG_API.md: "`step` executes one instruction".              *)
StepExecutes ==
    [][op.kind = "step" /\ op' # op /\ paused /\ latest = "stop"
           => latest' = "moved"]_vars

(* docs/AGENT_DEBUG_API.md: a snapshot event is sent "while the machine is  *)
(* still paused at a PC breakpoint".                                        *)
CurrentStopIsWhereTheGuestIs == CurrentPcHit # {} => latest # "moved"

=============================================================================
