--------------------------- MODULE Debugger_proofs ---------------------------
(***************************************************************************)
(* Proofs about the debugger and the loops that consult it, for any set of  *)
(* program counters, any history and any budgets.                           *)
(***************************************************************************)
EXTENDS Debugger, FiniteSetTheorems, FunctionTheorems, TLAPS

-----------------------------------------------------------------------------
(* The inductive invariant, in named parts.                                 *)

(* A Continue whose guest has not moved yet still has its skip. *)
ContinueArmed == latest = "continue" => skip = pc

(* A call that stops at a pause starts without one. *)
StartsUnpaused ==
    (op.kind \in {"frame", "runUntil"} \/ (op.kind = "debugStep" /\ op.left = 1))
        => ~paused

(* A run-until that goes on has no stop to report yet. *)
RunUntilClean ==
    op.kind = "runUntil" => lastHit = None /\ op.since <= hitId

(* A step call ends with its last step. *)
StepsLeft == op.kind = "step" => op.left # 0

DInv ==
    /\ TypeOK
    /\ StopHasRecord
    /\ ContinueArmed
    /\ StartsUnpaused
    /\ RunUntilClean
    /\ StepsLeft

-----------------------------------------------------------------------------

LEMMA ReasonTypes ==
    /\ None \in Reasons /\ Watch \in Reasons /\ Halt \in Reasons /\ Budget \in Reasons
    /\ \A p \in PCs : AtPC(p) \in Reasons
    /\ \A p \in PCs : AtPC(p).kind = "pc" /\ AtPC(p).pc = p
    /\ None.kind = "none" /\ Watch.kind = "watch"
    /\ Halt.kind = "halt" /\ Budget.kind = "budget"
  BY DEF Reasons, None, Watch, Halt, Budget, AtPC

LEMMA IdleFacts ==
    /\ Idle \in [kind : Calls, left : 0 .. MaxBudget, since : Nat]
    /\ Idle.kind = "idle"
  BY DebuggerAssumption DEF Idle, Calls

(* The history keeps its type and its length, and ends with the new stop. *)
LEMMA RecordKeeps ==
    ASSUME TypeOK, RecordPcHit
    PROVE  /\ paused' = TRUE
           /\ lastHit' = AtPC(pc)
           /\ hitId' = hitId + 1
           /\ pcHits' \in Seq([id : Nat, pc : PCs])
           /\ Len(pcHits') <= HistoryCap
           /\ pcHits' # <<>>
           /\ pcHits'[Len(pcHits')].pc = pc
  <1> DEFINE kept == IF Len(pcHits) = HistoryCap THEN Tail(pcHits) ELSE pcHits
             hit == [id |-> hitId', pc |-> pc]
  <1>1. /\ paused' = TRUE /\ lastHit' = AtPC(pc) /\ hitId' = hitId + 1
        /\ pcHits' = Append(kept, hit)
    BY DEF RecordPcHit
  <1>2. hit \in [id : Nat, pc : PCs]
    BY <1>1 DEF TypeOK
  <1>3. pcHits \in Seq([id : Nat, pc : PCs]) /\ Len(pcHits) <= HistoryCap
        /\ HistoryCap \in Nat \ {0}
    BY DebuggerAssumption DEF TypeOK
  <1>4. kept \in Seq([id : Nat, pc : PCs]) /\ Len(kept) < HistoryCap
    <2>1. CASE Len(pcHits) = HistoryCap
      <3>1. pcHits # <<>>
        BY <1>3, <2>1
      <3> QED
        BY <1>3, <2>1, <3>1
    <2>2. CASE Len(pcHits) # HistoryCap
      BY <1>3, <2>2
    <2> QED
      BY <2>1, <2>2
  <1>5. /\ Append(kept, hit) \in Seq([id : Nat, pc : PCs])
        /\ Len(Append(kept, hit)) = Len(kept) + 1
        /\ Append(kept, hit)[Len(kept) + 1] = hit
    BY <1>2, <1>4
  <1> QED
    BY <1>1, <1>3, <1>4, <1>5

(* What one iteration of a loop does to the machine: it moves the guest, or *)
(* stops it at a breakpoint it was not told to pass.                        *)
LEMMA IterationKeeps ==
    ASSUME DInv, Iteration
    PROVE  /\ runtime' = runtime /\ running' \in BOOLEAN
           /\ pc' \in PCs /\ pcBreaks' \subseteq PCs
           /\ watching' \in BOOLEAN /\ paused' \in BOOLEAN
           /\ lastHit' \in Reasons /\ skip' \in PCs \cup {NoPC}
           /\ pcHits' \in Seq([id : Nat, pc : PCs]) /\ Len(pcHits') <= HistoryCap
           /\ hitId' \in Nat /\ hitId <= hitId'
           /\ latest' \in {"moved", "stop"}
           /\ StopHasRecord'
           /\ paused' = paused \/ (paused' /\ lastHit' # None)
           /\ lastHit' = lastHit \/ paused'
           /\ latest' = "stop" => hitId' = hitId + 1 /\ latest # "continue"
           /\ latest' = "moved" => hitId' = hitId /\ (lastHit' = lastHit \/ lastHit' = Watch)
  <1>0. /\ UNCHANGED <<runtime, running, pcBreaks, watching>>
        /\ pc \in PCs /\ hitId \in Nat /\ pcBreaks' \subseteq PCs
    BY DEF Iteration, DInv, TypeOK
  <1>3. running' \in BOOLEAN
    BY <1>0 DEF DInv, TypeOK
  <1>4. watching' \in BOOLEAN
    BY <1>0 DEF DInv, TypeOK
  <1>5. runtime' = runtime /\ pcBreaks' \subseteq PCs
    BY <1>0
  <1>1. CASE Proceed /\ latest' = "moved"
    <2>1. /\ pc' \in PCs /\ UNCHANGED <<pcHits, hitId>>
          /\ skip' \in PCs \cup {NoPC}
      BY <1>1 DEF Proceed, ConsumeSkip, DInv, TypeOK
    <2>2. CASE paused' = TRUE /\ lastHit' = Watch
      <3>1. StopHasRecord'
        BY <2>2, ReasonTypes DEF StopHasRecord
      <3>2. lastHit' # None
        BY <2>2, ReasonTypes
      <3>3. paused' \in BOOLEAN
        BY <2>2
      <3>4. lastHit' \in Reasons /\ hitId' \in Nat /\ hitId <= hitId'
            /\ pcHits' \in Seq([id : Nat, pc : PCs]) /\ Len(pcHits') <= HistoryCap
        BY <1>0, <2>1, <2>2, ReasonTypes DEF DInv, TypeOK
      <3> QED
        BY <1>1, <1>3, <1>4, <1>5, <2>1, <2>2, <3>1, <3>2, <3>3, <3>4
    <2>3. CASE UNCHANGED <<paused, lastHit>>
      <3>1. StopHasRecord'
        BY <2>1, <2>3 DEF DInv, StopHasRecord
      <3> QED
        BY <1>0, <1>1, <2>1, <2>3, <3>1 DEF DInv, TypeOK
    <2> QED
      BY <1>1, <2>2, <2>3 DEF Proceed
  <1>2. CASE StopAtBreak /\ latest' = "stop"
    <2>1. RecordPcHit /\ UNCHANGED <<pc, skip>> /\ skip # pc
      BY <1>2 DEF StopAtBreak, PcProceeds
    <2>2. /\ paused' = TRUE /\ lastHit' = AtPC(pc) /\ hitId' = hitId + 1
          /\ pcHits' \in Seq([id : Nat, pc : PCs]) /\ Len(pcHits') <= HistoryCap
          /\ pcHits' # <<>> /\ pcHits'[Len(pcHits')].pc = pc
      BY <2>1, RecordKeeps DEF DInv
    <2>3. StopHasRecord'
      BY <1>0, <2>2, ReasonTypes DEF StopHasRecord
    <2>4. lastHit' \in Reasons /\ lastHit' # None
      <3>1. lastHit'.kind = "pc" /\ None.kind = "none"
        BY <1>0, <2>2, ReasonTypes
      <3> QED
        BY <1>0, <2>2, <3>1, ReasonTypes
    <2>5. latest # "continue"
      BY <2>1 DEF DInv, ContinueArmed
    <2>6. paused' \in BOOLEAN
      BY <2>2
    <2>7. pc' \in PCs /\ skip' \in PCs \cup {NoPC} /\ hitId' \in Nat /\ hitId <= hitId'
      BY <1>0, <2>1, <2>2 DEF DInv, TypeOK
    <2> QED
      BY <1>2, <1>3, <1>4, <1>5, <2>2, <2>3, <2>4, <2>5, <2>6, <2>7
  <1> QED
    BY <1>1, <1>2 DEF Iteration

-----------------------------------------------------------------------------
(* One lemma per group of actions. *)

LEMMA DInvInit ==
    ASSUME Init
    PROVE  DInv
  <1>1. op = Idle /\ op.kind = "idle" /\ lastHit = None /\ lastHit.kind = "none"
    BY IdleFacts, ReasonTypes DEF Init
  <1>2. TypeOK
    <2>1. running \in BOOLEAN /\ watching \in BOOLEAN /\ paused \in BOOLEAN
      BY DEF Init
    <2>2. pcHits \in Seq([id : Nat, pc : PCs]) /\ Len(pcHits) <= HistoryCap
      BY DebuggerAssumption DEF Init
    <2> QED
      BY <1>1, <2>1, <2>2, IdleFacts, ReasonTypes DEF Init, TypeOK
  <1>3. StopHasRecord
    BY <1>1 DEF StopHasRecord
  <1>4. ContinueArmed
    BY DEF Init, ContinueArmed
  <1> QED
    BY <1>1, <1>2, <1>3, <1>4 DEF DInv, StartsUnpaused, RunUntilClean, StepsLeft

(* The iterations of the four loops. *)
LEMMA LoopKeeps ==
    ASSUME DInv,
           FrameIteration \/ StepIteration \/ DebugStepIteration \/ RunUntilIteration
    PROVE  DInv'
  <1>0. Iteration
    BY DEF FrameIteration, StepIteration, DebugStepIteration, RunUntilIteration
  <1>1. /\ runtime' = runtime /\ running' \in BOOLEAN
        /\ pc' \in PCs /\ pcBreaks' \subseteq PCs
        /\ watching' \in BOOLEAN /\ paused' \in BOOLEAN
        /\ lastHit' \in Reasons /\ skip' \in PCs \cup {NoPC}
        /\ pcHits' \in Seq([id : Nat, pc : PCs]) /\ Len(pcHits') <= HistoryCap
        /\ hitId' \in Nat /\ hitId <= hitId'
        /\ latest' \in {"moved", "stop"}
        /\ StopHasRecord'
        /\ paused' = paused \/ (paused' /\ lastHit' # None)
        /\ lastHit' = lastHit \/ paused'
    BY <1>0, IterationKeeps
  <1>2. op \in [kind : Calls, left : 0 .. MaxBudget, since : Nat] /\ MaxBudget \in Nat
    BY DebuggerAssumption DEF DInv, TypeOK
  <1>3. op' \in [kind : Calls, left : 0 .. MaxBudget, since : Nat]
    <2>1. CASE FrameIteration
      BY <1>2, <2>1, IdleFacts DEF FrameIteration
    <2>2. CASE StepIteration
      BY <1>2, <2>2, IdleFacts DEF StepIteration, DInv, StepsLeft
    <2>3. CASE DebugStepIteration
      BY <1>2, <2>3 DEF DebugStepIteration
    <2>4. CASE RunUntilIteration
      BY <1>2, <2>4, IdleFacts DEF RunUntilIteration
    <2> QED
      BY <2>1, <2>2, <2>3, <2>4
  <1>4. TypeOK'
    BY <1>1, <1>3 DEF DInv, TypeOK
  <1>5. ContinueArmed'
    BY <1>1 DEF ContinueArmed
  <1>6. StartsUnpaused' /\ RunUntilClean' /\ StepsLeft'
    <2>1. CASE FrameIteration
      <3>1. op' = Idle \/ (op' = op /\ paused' = FALSE)
        BY <1>1, <2>1 DEF FrameIteration
      <3> QED
        BY <2>1, <3>1, IdleFacts
        DEF FrameIteration, StartsUnpaused, RunUntilClean, StepsLeft
    <2>2. CASE StepIteration
      <3>1. op'.kind = "idle" \/ (op'.kind = "step" /\ op'.left # 0)
        BY <1>2, <2>2, IdleFacts DEF StepIteration, DInv, StepsLeft
      <3> QED
        BY <3>1 DEF StartsUnpaused, RunUntilClean, StepsLeft
    <2>3. CASE DebugStepIteration
      <3>1. op'.kind = "debugStep" /\ op'.left = 0
        BY <1>2, <2>3 DEF DebugStepIteration
      <3> QED
        BY <3>1 DEF StartsUnpaused, RunUntilClean, StepsLeft
    <2>4. CASE RunUntilIteration
      <3>1. CASE lastHit' = None
        <4>1. op'.kind = "runUntil" /\ op'.since = op.since
          BY <1>2, <2>4, <3>1 DEF RunUntilIteration
        <4>2. ~paused /\ op.since <= hitId
          BY <2>4 DEF RunUntilIteration, DInv, StartsUnpaused, RunUntilClean
        <4>3. ~paused'
          BY <1>1, <3>1, <4>2
        <4>4. op.since <= hitId'
          BY <1>1, <1>2, <4>2 DEF DInv, TypeOK
        <4> QED
          BY <3>1, <4>1, <4>3, <4>4 DEF StartsUnpaused, RunUntilClean, StepsLeft
      <3>2. CASE lastHit' # None
        <4>1. op'.kind = "idle"
          BY <2>4, <3>2, IdleFacts DEF RunUntilIteration
        <4> QED
          BY <4>1 DEF StartsUnpaused, RunUntilClean, StepsLeft
      <3> QED
        BY <3>1, <3>2
    <2> QED
      BY <2>1, <2>2, <2>3, <2>4
  <1> QED
    BY <1>1, <1>4, <1>5, <1>6 DEF DInv

(* Calls that begin. *)
LEMMA BeginKeeps ==
    ASSUME DInv, StartFrame \/ StartStep \/ StartDebugStep \/ StartRunUntil
    PROVE  DInv'
  <1>1. PICK n \in 0 .. MaxBudget, k \in Calls :
            /\ op' = [kind |-> k, left |-> n, since |-> hitId]
            /\ k = "step" => n # 0
            /\ \/ k = "frame" /\ StartFrame
               \/ k = "step" /\ StartStep
               \/ k = "debugStep" /\ StartDebugStep
               \/ k = "runUntil" /\ StartRunUntil
    BY DebuggerAssumption
    DEF StartFrame, StartStep, StartDebugStep, StartRunUntil, Begin, Calls
  <1>2. op' \in [kind : Calls, left : 0 .. MaxBudget, since : Nat]
        /\ op'.kind = k /\ op'.left = n /\ op'.since = hitId
    BY <1>1 DEF DInv, TypeOK
  <1>3. UNCHANGED <<runtime, running, pc, pcBreaks, watching, pcHits, hitId>>
    BY DEF StartFrame, StartStep, StartDebugStep, StartRunUntil, debuggerVars
  <1>4. /\ paused' \in BOOLEAN /\ lastHit' \in {lastHit, None}
        /\ skip' \in PCs \cup {NoPC}
        /\ latest' \in {"none", "stop", "continue", "moved"}
        /\ latest' = "continue" => skip' = pc
        /\ k \in {"frame", "runUntil", "debugStep"} => ~paused'
        /\ k = "runUntil" => lastHit' = None
    <2>1. CASE k = "frame" /\ StartFrame
      BY <2>1 DEF StartFrame, debuggerVars, DInv, TypeOK, ContinueArmed
    <2>2. CASE k = "step" /\ StartStep
      BY <2>2 DEF StartStep, debuggerVars, DInv, TypeOK, ContinueArmed
    <2>3. CASE k = "debugStep" /\ StartDebugStep
      BY <2>3 DEF StartDebugStep, ContinueFromPc, DInv, TypeOK, ContinueArmed
    <2>4. CASE k = "runUntil" /\ StartRunUntil
      BY <2>4 DEF StartRunUntil, ContinueFromPc, DInv, TypeOK, ContinueArmed
    <2> QED
      BY <1>1, <2>1, <2>2, <2>3, <2>4
  <1>5. TypeOK'
    BY <1>2, <1>3, <1>4, ReasonTypes DEF DInv, TypeOK
  <1>6. StopHasRecord'
    BY <1>3, <1>4, ReasonTypes DEF DInv, StopHasRecord
  <1>7. ContinueArmed'
    BY <1>3, <1>4 DEF ContinueArmed
  <1>8. StartsUnpaused'
    BY <1>2, <1>4 DEF StartsUnpaused
  <1>9. RunUntilClean' /\ StepsLeft'
    BY <1>1, <1>2, <1>3, <1>4 DEF RunUntilClean, StepsLeft, DInv, TypeOK
  <1> QED
    BY <1>5, <1>6, <1>7, <1>8, <1>9 DEF DInv

(* Calls that end without another iteration, and the return from a tape    *)
(* load.                                                                    *)
LEMMA FinishKeeps ==
    ASSUME DInv,
           \/ FinishDebugStep \/ RunUntilHalted \/ RunUntilExhausted \/ FrameTapeReturn
    PROVE  DInv'
  <1>1. CASE FinishDebugStep \/ RunUntilHalted \/ RunUntilExhausted
    <2>1. /\ op' = Idle /\ paused' \in {paused, TRUE} /\ lastHit' \in {lastHit, Halt, Budget}
          /\ UNCHANGED <<runtime, running, pc, pcBreaks, watching, skip, pcHits, hitId, latest>>
      BY <1>1 DEF FinishDebugStep, RunUntilHalted, RunUntilExhausted
    <2>2. paused' \in BOOLEAN
      BY <2>1 DEF DInv, TypeOK
    <2>3. TypeOK'
      BY <2>1, <2>2, IdleFacts, ReasonTypes DEF DInv, TypeOK
    <2>4. StopHasRecord'
      BY <2>1, ReasonTypes DEF DInv, StopHasRecord
    <2>5. ContinueArmed'
      BY <2>1 DEF DInv, ContinueArmed
    <2>6. op'.kind = "idle"
      BY <2>1, IdleFacts
    <2> QED
      BY <2>3, <2>4, <2>5, <2>6 DEF DInv, StartsUnpaused, RunUntilClean, StepsLeft
  <1>2. CASE FrameTapeReturn
    <2>1. pc' \in PCs /\ latest' = "moved" /\ UNCHANGED <<runtime, running, op, debuggerVars>>
      BY <1>2 DEF FrameTapeReturn
    <2>2. TypeOK'
      BY <2>1 DEF DInv, TypeOK, debuggerVars
    <2> QED
      BY <2>1, <2>2
      DEF DInv, StopHasRecord, ContinueArmed, StartsUnpaused, RunUntilClean,
          StepsLeft, debuggerVars
  <1> QED
    BY <1>1, <1>2

(* Calls that do not run the guest leave no call in progress. *)
LEMMA ControlKeeps ==
    ASSUME DInv, Control
    PROVE  DInv'
  <1>1. op' = Idle /\ op'.kind = "idle"
    BY IdleFacts
    DEF Control, Ready, SetRunning, Continue, ContinueNext, ClearBreaks, PatchPc, Reset,
        SetPaused, SetWatches, SetBreakpoint, ReplaceRuntime
  <1>2. StartsUnpaused' /\ RunUntilClean' /\ StepsLeft'
    BY <1>1 DEF StartsUnpaused, RunUntilClean, StepsLeft
  <1>3. CASE SetRunning \/ Continue \/ ContinueNext
    <2>1. UNCHANGED <<runtime, pc, pcBreaks, watching, pcHits, hitId>>
      BY <1>3 DEF SetRunning, Continue, ContinueNext, debuggerVars
    <2>2. running' \in BOOLEAN
      BY <1>3 DEF SetRunning, Continue, ContinueNext, DInv, TypeOK
    <2>3. /\ lastHit' \in {lastHit, None} /\ skip' \in PCs \cup {NoPC}
          /\ latest' \in {"none", "stop", "continue", "moved"}
          /\ ContinueArmed'
      BY <1>3 DEF SetRunning, Continue, ContinueNext, ContinueFromPc, debuggerVars,
                  DInv, TypeOK, ContinueArmed
    <2>4. paused' \in BOOLEAN
      BY <1>3 DEF SetRunning, Continue, ContinueNext, ContinueFromPc, debuggerVars,
                  DInv, TypeOK
    <2>5. StopHasRecord'
      BY <2>1, <2>3, ReasonTypes DEF DInv, StopHasRecord
    <2>6. TypeOK'
      BY <1>1, <2>1, <2>2, <2>3, <2>4, IdleFacts, ReasonTypes DEF DInv, TypeOK
    <2> QED
      BY <1>2, <2>3, <2>5, <2>6 DEF DInv
  <1>4. CASE ClearBreaks \/ \E b \in BOOLEAN : SetPaused(b) \/ SetWatches(b)
    <2>1. /\ UNCHANGED <<runtime, running, pc, skip, pcHits, hitId, latest>>
          /\ pcBreaks' \subseteq PCs /\ lastHit' \in {lastHit, None}
      BY <1>4 DEF ClearBreaks, SetPaused, SetWatches, DInv, TypeOK
    <2>2. watching' \in BOOLEAN
      BY <1>4 DEF ClearBreaks, SetPaused, SetWatches, DInv, TypeOK
    <2>3. paused' \in BOOLEAN
      BY <1>4 DEF ClearBreaks, SetPaused, SetWatches, DInv, TypeOK
    <2>4. TypeOK'
      BY <1>1, <2>1, <2>2, <2>3, IdleFacts, ReasonTypes DEF DInv, TypeOK
    <2>5. StopHasRecord' /\ ContinueArmed'
      BY <2>1, ReasonTypes DEF DInv, StopHasRecord, ContinueArmed
    <2> QED
      BY <1>2, <2>4, <2>5 DEF DInv
  <1>5. CASE \E p \in PCs, on \in BOOLEAN : SetBreakpoint(p, on)
    <2>1. /\ UNCHANGED <<runtime, running, pc, watching, paused, lastHit, skip, pcHits,
                         hitId, latest>>
          /\ pcBreaks' \subseteq PCs
      BY <1>5 DEF SetBreakpoint, DInv, TypeOK
    <2>2. TypeOK'
      BY <1>1, <2>1, IdleFacts DEF DInv, TypeOK
    <2> QED
      BY <1>2, <2>1, <2>2 DEF DInv, StopHasRecord, ContinueArmed
  <1>6. CASE PatchPc
    <2>1. /\ UNCHANGED <<runtime, running, op, debuggerVars>>
          /\ pc' \in PCs /\ latest' # "continue"
          /\ latest' \in {"none", "stop", "continue", "moved"}
      BY <1>6 DEF PatchPc, DInv, TypeOK
    <2>2. TypeOK'
      BY <1>1, <2>1, IdleFacts DEF DInv, TypeOK, debuggerVars
    <2> QED
      BY <1>2, <2>1, <2>2 DEF DInv, StopHasRecord, ContinueArmed, debuggerVars
  <1>7. CASE Reset
    <2>1. /\ UNCHANGED <<runtime, running, pcBreaks, watching, pcHits, hitId>>
          /\ pc' \in PCs /\ latest' = "none"
          /\ lastHit' \in {lastHit, None} /\ skip' \in PCs \cup {NoPC}
      BY <1>7 DEF Reset, DInv, TypeOK
    <2>2. paused' \in BOOLEAN
      BY <1>7 DEF Reset, DInv, TypeOK
    <2>3. TypeOK'
      BY <1>1, <2>1, <2>2, IdleFacts, ReasonTypes DEF DInv, TypeOK
    <2> QED
      BY <1>2, <2>1, <2>3, ReasonTypes DEF DInv, StopHasRecord, ContinueArmed
  <1>8. CASE \E r \in {"none", "classic", "next"} : ReplaceRuntime(r)
    <2>1. /\ runtime' \in {"none", "classic", "next"} /\ pc' \in PCs /\ pcBreaks' = {}
          /\ lastHit' = None /\ skip' = NoPC /\ pcHits' = <<>> /\ latest' = "none"
          /\ UNCHANGED <<running, hitId>>
      BY <1>8 DEF ReplaceRuntime
    <2>2. watching' \in BOOLEAN /\ paused' \in BOOLEAN
      BY <1>8 DEF ReplaceRuntime
    <2>3. pcHits' \in Seq([id : Nat, pc : PCs]) /\ Len(pcHits') <= HistoryCap
      BY <2>1, DebuggerAssumption
    <2>4. TypeOK'
      BY <1>1, <2>1, <2>2, <2>3, IdleFacts, ReasonTypes DEF DInv, TypeOK
    <2> QED
      BY <1>2, <2>1, <2>4, ReasonTypes DEF DInv, StopHasRecord, ContinueArmed
  <1> QED
    BY <1>3, <1>4, <1>5, <1>6, <1>7, <1>8 DEF Control

LEMMA DInvStep ==
    ASSUME DInv, [Next]_vars
    PROVE  DInv'
  <1>1. CASE RunGuest
    BY <1>1, LoopKeeps, BeginKeeps, FinishKeeps DEF RunGuest
  <1>2. CASE Control
    BY <1>2, ControlKeeps
  <1>3. CASE UNCHANGED vars
    <2>1. UNCHANGED <<runtime, running, op, pc, pcBreaks, watching, paused, lastHit, skip,
                      pcHits, hitId, latest>>
      BY <1>3 DEF vars, debuggerVars
    <2>2. TypeOK'
      BY <2>1 DEF DInv, TypeOK
    <2> QED
      BY <2>1, <2>2
      DEF DInv, StopHasRecord, ContinueArmed, StartsUnpaused, RunUntilClean, StepsLeft
  <1> QED
    BY <1>1, <1>2, <1>3 DEF Next

THEOREM DebuggerInvariance == Spec => []DInv
  <1>1. Init => DInv
    BY DInvInit
  <1>2. DInv /\ [Next]_vars => DInv'
    BY DInvStep
  <1> QED
    BY <1>1, <1>2, PTL DEF Spec

-----------------------------------------------------------------------------
(* The theorems. *)

(* Every variable of the debugger and of the call in progress keeps its     *)
(* type; in particular the history never outgrows its capacity.             *)
THEOREM DebuggerTypeCorrect == Spec => []TypeOK
  <1>1. DInv => TypeOK
    BY DEF DInv
  <1> QED
    BY <1>1, DebuggerInvariance, PTL

(* A PC stop reason is always backed by the newest record of the journal.   *)
THEOREM StopRecordSafety == Spec => []StopHasRecord
  <1>1. DInv => StopHasRecord
    BY DEF DInv
  <1> QED
    BY <1>1, DebuggerInvariance, PTL

(* Who records a stop. *)
LEMMA HitsComeFromIterations ==
    ASSUME DInv, [Next]_vars, hitId' # hitId
    PROVE  /\ Iteration
           /\ FrameIteration \/ StepIteration \/ DebugStepIteration \/ RunUntilIteration
  <1>1. ~UNCHANGED vars
    BY DEF vars, debuggerVars
  <1>2. ~Control
    BY DEF Control, SetRunning, Continue, ContinueNext, ClearBreaks, PatchPc, Reset,
           SetPaused, SetWatches, SetBreakpoint, ReplaceRuntime, debuggerVars
  <1>3. FrameIteration \/ StepIteration \/ DebugStepIteration \/ RunUntilIteration
    BY <1>1, <1>2
    DEF Next, RunGuest, StartFrame, StartStep, StartDebugStep, StartRunUntil,
        FinishDebugStep, RunUntilHalted, RunUntilExhausted, FrameTapeReturn, debuggerVars
  <1> QED
    BY <1>3 DEF FrameIteration, StepIteration, DebugStepIteration, RunUntilIteration

(* Continue never hits the breakpoint it continues from.                    *)
THEOREM ContinuePasses == Spec => NoRehitAfterContinue
  <1>1. DInv /\ [Next]_vars => [hitId' # hitId => latest # "continue"]_vars
    <2> SUFFICES ASSUME DInv, [Next]_vars, hitId' # hitId
                 PROVE  latest # "continue"
      OBVIOUS
    <2>1. Iteration
      BY HitsComeFromIterations
    <2> QED
      BY <2>1, IterationKeeps
  <1> QED
    BY <1>1, DebuggerInvariance, PTL DEF Spec, NoRehitAfterContinue

(* While a frame, a debug step or a run-until runs, a paused guest is still. *)
THEOREM PauseHolds == Spec => PausedMeansStopped
  <1>1. DInv /\ [Next]_vars
            => [paused /\ op # Idle /\ (pc' # pc \/ hitId' # hitId) => op.kind = "step"]_vars
    <2> SUFFICES ASSUME DInv, [Next]_vars, paused, op # Idle, pc' # pc \/ hitId' # hitId
                 PROVE  op.kind = "step"
      OBVIOUS
    <2>1. ~UNCHANGED vars
      BY DEF vars, debuggerVars
    <2>2. ~Control
      BY DEF Control, Ready, SetRunning, Continue, ContinueNext, ClearBreaks, PatchPc, Reset,
             SetPaused, SetWatches, SetBreakpoint, ReplaceRuntime
    <2>3. ~(StartFrame \/ StartStep \/ StartDebugStep \/ StartRunUntil)
      BY DEF StartFrame, StartStep, StartDebugStep, StartRunUntil, Begin, Ready
    <2>4. ~(FinishDebugStep \/ RunUntilHalted \/ RunUntilExhausted)
      BY DEF FinishDebugStep, RunUntilHalted, RunUntilExhausted
    <2>5. FrameIteration \/ StepIteration \/ DebugStepIteration \/ RunUntilIteration
          \/ FrameTapeReturn
      BY <2>1, <2>2, <2>3, <2>4 DEF Next, RunGuest
    <2> QED
      BY <2>5 DEF FrameIteration, StepIteration, DebugStepIteration, RunUntilIteration,
                  FrameTapeReturn, DInv, StartsUnpaused
  <1> QED
    BY <1>1, DebuggerInvariance, PTL DEF Spec, PausedMeansStopped

(* A run-until that reports a PC stop reports one of its own.               *)
THEOREM RunUntilFresh == Spec => RunUntilReportsItsOwnStop
  <1>1. DInv /\ [Next]_vars
            => [op.kind = "runUntil" /\ op' = Idle /\ lastHit'.kind = "pc"
                   => hitId' > op.since]_vars
    <2> SUFFICES ASSUME DInv, [Next]_vars, op.kind = "runUntil", op' = Idle,
                        lastHit'.kind = "pc"
                 PROVE  hitId' > op.since
      OBVIOUS
    <2>1. lastHit = None /\ op.since <= hitId /\ op.since \in Nat /\ hitId \in Nat
      BY DEF DInv, RunUntilClean, TypeOK
    <2>2. hitId' # hitId /\ Iteration
      <3>1. lastHit' # lastHit /\ lastHit' # Halt /\ lastHit' # Budget /\ lastHit' # Watch
        BY <2>1, ReasonTypes
      <3>2. op # Idle
        BY IdleFacts
      <3>3. ~UNCHANGED vars
        BY <3>1 DEF vars, debuggerVars
      <3>4. ~Control
        BY <3>2 DEF Control, Ready, SetRunning, Continue, ContinueNext, ClearBreaks, PatchPc,
               Reset, SetPaused, SetWatches, SetBreakpoint, ReplaceRuntime
      <3>5. ~(StartFrame \/ StartStep \/ StartDebugStep \/ StartRunUntil)
        BY <3>2 DEF StartFrame, StartStep, StartDebugStep, StartRunUntil, Begin, Ready
      <3>6. RunUntilIteration
        BY <3>1, <3>3, <3>4, <3>5
        DEF Next, RunGuest, FrameIteration, StepIteration, DebugStepIteration,
            FrameTapeReturn, FinishDebugStep, RunUntilHalted, RunUntilExhausted
      <3>7. Iteration
        BY <3>6 DEF RunUntilIteration
      <3> QED
        BY <2>1, <3>1, <3>7, IterationKeeps
    <2>3. hitId' \in Nat /\ hitId <= hitId'
      BY <2>2, IterationKeeps
    <2> QED
      BY <2>1, <2>2, <2>3
  <1> QED
    BY <1>1, DebuggerInvariance, PTL DEF Spec, RunUntilReportsItsOwnStop

-----------------------------------------------------------------------------
(* The debugger implements the journal of stops.                            *)

(* Identities grow along the history, up to the last one handed out. *)
IdsGrow ==
    /\ \A i, j \in 1 .. Len(pcHits) : i < j => pcHits[i].id < pcHits[j].id
    /\ \A i \in 1 .. Len(pcHits) : pcHits[i].id <= hitId

(* Only a classic machine runs calls, and a call that has begun has a bound *)
(* on the stops it may still record.                                        *)
CallsInBounds ==
    /\ op.kind # "idle" => runtime = "classic"
    /\ op.kind \in {"frame", "runUntil"} => hitId < MaxHits
    /\ op.kind = "debugStep" /\ op.left = 1 => hitId < MaxHits
    /\ op.kind = "step" => hitId + op.left < MaxHits + MaxBudget

Retained == {pcHits[i].id : i \in 1 .. Len(pcHits)}
Active == IF CurrentPcHit = {} THEN 0 ELSE pcHits[Len(pcHits)].id

LEMMA HistoryTypes ==
    ASSUME TypeOK
    PROVE  /\ pcHits \in Seq([id : Nat, pc : PCs]) /\ Len(pcHits) \in Nat /\ hitId \in Nat
           /\ \A i \in 1 .. Len(pcHits) : pcHits[i].id \in Nat
           /\ pcHits # <<>> => 1 \in 1 .. Len(pcHits) /\ Len(pcHits) \in 1 .. Len(pcHits)
           /\ pcHits = <<>> <=> Len(pcHits) = 0
  <1>1. pcHits \in Seq([id : Nat, pc : PCs]) /\ hitId \in Nat
    BY DEF TypeOK
  <1>2. Len(pcHits) \in Nat /\ (pcHits = <<>> <=> Len(pcHits) = 0)
    <2>1. Len(pcHits) \in Nat
      BY <1>1
    <2>2. pcHits # <<>> => Len(pcHits) # 0
      BY <1>1
    <2>3. pcHits = <<>> => Len(pcHits) = 0
      OBVIOUS
    <2> QED
      BY <2>1, <2>2, <2>3
  <1>3. ASSUME NEW i \in 1 .. Len(pcHits)
        PROVE  pcHits[i].id \in Nat
    <2> DEFINE S == [id : Nat, pc : PCs]
    <2>1. pcHits \in Seq(S) /\ \A r \in S : r.id \in Nat
      BY <1>1
    <2> HIDE DEF S
    <2>2. pcHits[i] \in S
      BY <2>1
    <2> QED
      BY <2>1, <2>2
  <1>4. pcHits # <<>> => 1 \in 1 .. Len(pcHits) /\ Len(pcHits) \in 1 .. Len(pcHits)
    BY <1>2
  <1> QED
    BY <1>1, <1>2, <1>3, <1>4

(* The newest identity stands at the end of the history, the oldest first.  *)
LEMMA NewestIsLast ==
    ASSUME TypeOK, IdsGrow, pcHits # <<>>
    PROVE  Journal!Newest(Retained) = pcHits[Len(pcHits)].id /\ Retained # {}
  <1> DEFINE last == pcHits[Len(pcHits)].id
  <1>1. last \in Retained
    BY HistoryTypes DEF Retained
  <1>2. \A g \in Retained : g <= last /\ g \in Nat
    BY HistoryTypes DEF Retained, IdsGrow
  <1>3. \A h \in Retained : (\A g \in Retained : g <= h) => h = last
    BY <1>1, <1>2
  <1> QED
    BY <1>1, <1>2, <1>3, Zenon DEF Journal!Newest

LEMMA OldestIsFirst ==
    ASSUME TypeOK, IdsGrow, pcHits # <<>>
    PROVE  Retained \ Journal!Oldest(Retained) = {pcHits[i].id : i \in 2 .. Len(pcHits)}
  <1> DEFINE first == pcHits[1].id
  <1>1. first \in Retained
    BY HistoryTypes DEF Retained
  <1>2. \A i \in 2 .. Len(pcHits) : first < pcHits[i].id
    BY HistoryTypes DEF IdsGrow
  <1>3. \A g \in Retained : first <= g /\ g \in Nat
    <2> SUFFICES ASSUME NEW i \in 1 .. Len(pcHits)
                 PROVE  first <= pcHits[i].id /\ pcHits[i].id \in Nat
      BY DEF Retained
    <2>1. CASE i = 1
      BY <2>1, HistoryTypes
    <2>2. CASE i # 1
      BY <1>2, <2>2, HistoryTypes
    <2> QED
      BY <2>1, <2>2
  <1>4. Journal!Oldest(Retained) = {first}
    BY <1>1, <1>3 DEF Journal!Oldest
  <1>5. ASSUME NEW g
        PROVE  g \in Retained \ {first} <=> \E i \in 2 .. Len(pcHits) : g = pcHits[i].id
    <2>1. ASSUME NEW i \in 1 .. Len(pcHits), pcHits[i].id # first
          PROVE  i \in 2 .. Len(pcHits)
      BY <2>1, HistoryTypes
    <2>2. ASSUME NEW i \in 2 .. Len(pcHits)
          PROVE  pcHits[i].id \in Retained \ {first}
      BY <1>1, <1>2, HistoryTypes DEF Retained
    <2> QED
      BY <2>1, <2>2 DEF Retained
  <1> QED
    BY <1>4, <1>5

(* Identities differ, so that the history has as many as it has records.    *)
LEMMA RetainedSize ==
    ASSUME TypeOK, IdsGrow
    PROVE  Cardinality(Retained) = Len(pcHits)
  <1> DEFINE f == [i \in 1 .. Len(pcHits) |-> pcHits[i].id]
  <1>1. \A i, j \in 1 .. Len(pcHits) : i # j => pcHits[i].id # pcHits[j].id
    <2> SUFFICES ASSUME NEW i \in 1 .. Len(pcHits), NEW j \in 1 .. Len(pcHits), i < j
                 PROVE  pcHits[i].id # pcHits[j].id
      BY HistoryTypes
    <2> QED
      BY HistoryTypes DEF IdsGrow
  <1>2. f \in Bijection(1 .. Len(pcHits), Retained)
    BY <1>1 DEF Bijection, Injection, Surjection, IsInjective, Retained
  <1>3. IsFiniteSet(1 .. Len(pcHits)) /\ Cardinality(1 .. Len(pcHits)) = Len(pcHits)
    <2>1. 1 \in Int /\ Len(pcHits) \in Nat
      BY HistoryTypes
    <2>2. Cardinality(1 .. Len(pcHits)) =
              IF 1 > Len(pcHits) THEN 0 ELSE Len(pcHits) - 1 + 1
      BY <2>1, FS_Interval
    <2>3. IsFiniteSet(1 .. Len(pcHits))
      BY <2>1, FS_Interval
    <2> QED
      BY <2>1, <2>2, <2>3
  <1> QED
    BY <1>2, <1>3, FS_Bijection DEF ExistsBijection

(* The history after a stop: at most the oldest record has made room.       *)
LEMMA RecordedHistory ==
    ASSUME TypeOK, IdsGrow, RecordPcHit
    PROVE  /\ IdsGrow'
           /\ Retained' = (IF Cardinality(Retained) = HistoryCap
                           THEN Retained \ Journal!Oldest(Retained)
                           ELSE Retained) \cup {hitId'}
           /\ Active' = hitId'
  <1> DEFINE n == Len(pcHits)
             full == n = HistoryCap
  <1>0. hitId' = hitId + 1 /\ hitId \in Nat /\ n \in Nat /\ HistoryCap \in Nat \ {0}
        /\ (full => pcHits # <<>>)
    BY HistoryTypes, DebuggerAssumption DEF RecordPcHit
  <1>1. CASE full
    <2>1. pcHits' = Append(Tail(pcHits), [id |-> hitId', pc |-> pc])
      BY <1>1 DEF RecordPcHit
    <2>2. [id |-> hitId', pc |-> pc] \in [id : Nat, pc : PCs]
      BY <1>0 DEF TypeOK
    <2>3. Tail(pcHits) \in Seq([id : Nat, pc : PCs]) /\ Len(Tail(pcHits)) = n - 1
          /\ \A i \in 1 .. n - 1 : Tail(pcHits)[i] = pcHits[i + 1]
      BY <1>0, <1>1, HistoryTypes
    <2>4. Len(pcHits') = n /\ (\A i \in 1 .. n - 1 : pcHits'[i] = pcHits[i + 1])
          /\ pcHits'[n] = [id |-> hitId', pc |-> pc]
      BY <1>0, <1>1, <2>1, <2>2, <2>3
    <2>5. IdsGrow'
      <3>1. ASSUME NEW i \in 1 .. n - 1
            PROVE  pcHits'[i].id \in Nat /\ pcHits'[i].id < hitId'
        BY <1>0, <2>4, HistoryTypes DEF IdsGrow
      <3>2. ASSUME NEW i \in 1 .. n, NEW j \in 1 .. n, i < j
            PROVE  pcHits'[i].id < pcHits'[j].id
        <4>1. i \in 1 .. n - 1 /\ i + 1 \in 1 .. n
          BY <1>0, <3>2
        <4>2. CASE j = n
          BY <2>4, <3>1, <4>1, <4>2
        <4>3. CASE j # n
          <5>1. j \in 1 .. n - 1 /\ j + 1 \in 1 .. n /\ i + 1 < j + 1
            BY <1>0, <3>2, <4>3
          <5> QED
            BY <2>4, <4>1, <5>1 DEF IdsGrow
        <4> QED
          BY <4>2, <4>3
      <3>3. ASSUME NEW i \in 1 .. n
            PROVE  pcHits'[i].id <= hitId'
        BY <1>0, <2>4, <3>1
      <3> QED
        BY <2>4, <3>2, <3>3 DEF IdsGrow
    <2>6. Retained' = {pcHits[i].id : i \in 2 .. n} \cup {hitId'}
      <3>1. ASSUME NEW i \in 1 .. n
            PROVE  pcHits'[i].id \in {pcHits[k].id : k \in 2 .. n} \cup {hitId'}
        <4>1. CASE i = n
          BY <2>4, <4>1
        <4>2. CASE i # n
          <5>1. i \in 1 .. n - 1 /\ i + 1 \in 2 .. n
            BY <1>0, <4>2
          <5> QED
            BY <2>4, <5>1
        <4> QED
          BY <4>1, <4>2
      <3>2. ASSUME NEW k \in 2 .. n
            PROVE  pcHits[k].id \in Retained'
        <4>1. k - 1 \in 1 .. n - 1 /\ k - 1 \in 1 .. n /\ (k - 1) + 1 = k
          BY <1>0
        <4>2. pcHits'[k - 1].id = pcHits[k].id
          BY <2>4, <4>1
        <4> QED
          BY <2>4, <4>1, <4>2 DEF Retained
      <3>3. hitId' \in Retained'
        <4>1. n \in 1 .. n
          BY <1>0, <1>1
        <4> QED
          BY <2>4, <4>1 DEF Retained
      <3> QED
        BY <2>4, <3>1, <3>2, <3>3 DEF Retained
    <2>7. Active' = hitId'
      <3>1. pcHits' # <<>> /\ Len(pcHits') = n
        BY <1>0, <1>1, <2>1, <2>2, <2>3, <2>4
      <3>2. paused' /\ lastHit' = AtPC(pc)
        BY DEF RecordPcHit
      <3> QED
        BY <2>4, <3>1, <3>2 DEF Active, CurrentPcHit, AtPC
    <2> QED
      BY <1>0, <1>1, <2>5, <2>6, <2>7, OldestIsFirst, RetainedSize
  <1>2. CASE ~full
    <2>1. pcHits' = Append(pcHits, [id |-> hitId', pc |-> pc])
      BY <1>2 DEF RecordPcHit
    <2>2. [id |-> hitId', pc |-> pc] \in [id : Nat, pc : PCs]
      BY <1>0 DEF TypeOK
    <2>4. Len(pcHits') = n + 1 /\ (\A i \in 1 .. n : pcHits'[i] = pcHits[i])
          /\ pcHits'[n + 1] = [id |-> hitId', pc |-> pc] /\ pcHits' # <<>>
      BY <1>0, <2>1, <2>2, HistoryTypes
    <2>5. IdsGrow'
      <3>1. ASSUME NEW i \in 1 .. n
            PROVE  pcHits'[i].id \in Nat /\ pcHits'[i].id < hitId'
        BY <1>0, <2>4, HistoryTypes DEF IdsGrow
      <3>2. ASSUME NEW i \in 1 .. n + 1, NEW j \in 1 .. n + 1, i < j
            PROVE  pcHits'[i].id < pcHits'[j].id
        <4>1. i \in 1 .. n
          BY <1>0, <3>2
        <4>2. CASE j = n + 1
          BY <2>4, <3>1, <4>1, <4>2
        <4>3. CASE j # n + 1
          <5>1. j \in 1 .. n
            BY <1>0, <4>3
          <5> QED
            BY <2>4, <3>2, <4>1, <5>1 DEF IdsGrow
        <4> QED
          BY <4>2, <4>3
      <3>3. ASSUME NEW i \in 1 .. n + 1
            PROVE  pcHits'[i].id <= hitId'
        BY <1>0, <2>4, <3>1
      <3> QED
        BY <2>4, <3>2, <3>3 DEF IdsGrow
    <2>6. Retained' = Retained \cup {hitId'}
      <3>1. ASSUME NEW i \in 1 .. n + 1
            PROVE  pcHits'[i].id \in Retained \cup {hitId'}
        <4>1. CASE i = n + 1
          BY <2>4, <4>1
        <4>2. CASE i # n + 1
          <5>1. i \in 1 .. n
            BY <1>0, <4>2
          <5> QED
            BY <2>4, <5>1 DEF Retained
        <4> QED
          BY <4>1, <4>2
      <3>2. ASSUME NEW k \in 1 .. n
            PROVE  pcHits[k].id \in Retained'
        <4>1. k \in 1 .. n + 1
          BY <1>0
        <4> QED
          BY <2>4, <4>1 DEF Retained
      <3>3. hitId' \in Retained'
        <4>1. n + 1 \in 1 .. n + 1
          BY <1>0
        <4> QED
          BY <2>4, <4>1 DEF Retained
      <3> QED
        BY <2>4, <3>1, <3>2, <3>3 DEF Retained
    <2>7. Active' = hitId'
      <3>1. paused' /\ lastHit' = AtPC(pc)
        BY DEF RecordPcHit
      <3> QED
        BY <2>4, <3>1 DEF Active, CurrentPcHit, AtPC
    <2> QED
      BY <1>0, <1>2, <2>5, <2>6, <2>7, RetainedSize
  <1> QED
    BY <1>1, <1>2

(* A stop that a call records is a stop of the journal.                     *)
LEMMA RecordIsHit ==
    ASSUME TypeOK, IdsGrow, RecordPcHit, runtime = "classic", UNCHANGED runtime,
           hitId < MaxHits + MaxBudget
    PROVE  Journal!JournalNext
  <1>1. hitId' = hitId + 1
    BY DEF RecordPcHit
  <1>2. Journal!Cardinality(Retained) = Cardinality(Retained)
    BY DEF Journal!Cardinality, Cardinality
  <1>3. Journal!Hit
    BY <1>1, <1>2, RecordedHistory DEF Journal!Hit, Retained, Active
  <1> QED
    BY <1>3 DEF Journal!JournalNext

(* Without a new record, the current stop is the newest one or none.        *)
LEMMA QuietIsJournal ==
    ASSUME TypeOK, IdsGrow, UNCHANGED <<pcHits, hitId, runtime>>
    PROVE  [Journal!JournalNext]_(Journal!journalVars) /\ IdsGrow'
  <1>0. IdsGrow' /\ Retained' = Retained
    BY DEF IdsGrow, Retained
  <1>1. ASSUME NEW b \in {Active, Active'}
        PROVE  b = 0 \/ (pcHits # <<>> /\ b = pcHits[Len(pcHits)].id)
    <2>1. Active = 0 \/ (pcHits # <<>> /\ Active = pcHits[Len(pcHits)].id)
      BY DEF Active, CurrentPcHit
    <2>2. Active' = 0 \/ (pcHits # <<>> /\ Active' = pcHits[Len(pcHits)].id)
      BY DEF Active, CurrentPcHit
    <2> QED
      BY <1>1, <2>1, <2>2
  <1>2. CASE Active' = Active
    BY <1>0, <1>2 DEF Journal!journalVars, Retained, Active
  <1>3. CASE Active' # Active /\ Active' = 0
    <2>1. Journal!Deactivate
      BY <1>0, <1>3 DEF Journal!Deactivate, Retained, Active
    <2> QED
      BY <1>0, <2>1 DEF Journal!JournalNext
  <1>4. CASE Active' # Active /\ Active' # 0
    <2>1. pcHits # <<>> /\ Active' = pcHits[Len(pcHits)].id
      BY <1>1, <1>4
    <2>2. Journal!Reactivate
      BY <1>0, <2>1, NewestIsLast DEF Journal!Reactivate, Retained, Active
    <2> QED
      BY <1>0, <2>2 DEF Journal!JournalNext
  <1> QED
    BY <1>0, <1>2, <1>3, <1>4

(* A runtime comes with a fresh debugger.                                   *)
LEMMA ReplaceIsJournal ==
    ASSUME TypeOK, NEW r \in {"none", "classic", "next"}, ReplaceRuntime(r)
    PROVE  Journal!JournalNext /\ IdsGrow'
  <1>1. pcHits' = <<>> /\ UNCHANGED hitId /\ runtime' = r /\ paused' = FALSE
    BY DEF ReplaceRuntime
  <1>2. Len(pcHits') = 0 /\ 1 .. Len(pcHits') = {}
    BY <1>1
  <1>3. Retained' = {} /\ Active' = 0 /\ IdsGrow'
    BY <1>1, <1>2 DEF Retained, Active, CurrentPcHit, IdsGrow
  <1>4. Journal!Install \/ Journal!Unload
    BY <1>1, <1>3 DEF Journal!Install, Journal!Unload, Retained, Active
  <1> QED
    BY <1>3, <1>4 DEF Journal!JournalNext

(* Every other step leaves the history alone, or records one stop of a call *)
(* that still had room for it.                                              *)
LEMMA StepOrRecord ==
    ASSUME DInv, CallsInBounds, [Next]_vars
    PROVE  \/ UNCHANGED <<pcHits, hitId, runtime>>
           \/ RecordPcHit /\ runtime = "classic" /\ UNCHANGED runtime
                /\ hitId < MaxHits + MaxBudget
           \/ \E r \in {"none", "classic", "next"} : ReplaceRuntime(r)
  <1>0. hitId \in Nat /\ MaxHits \in Nat /\ MaxBudget \in Nat \ {0} /\ op.left \in Nat
    BY DebuggerAssumption DEF DInv, TypeOK
  <1>1. CASE UNCHANGED vars
    BY <1>1 DEF vars, debuggerVars
  <1>2. CASE FrameIteration \/ StepIteration \/ DebugStepIteration \/ RunUntilIteration
    <2>1. op.kind # "idle" /\ Iteration
      BY <1>2 DEF FrameIteration, StepIteration, DebugStepIteration, RunUntilIteration
    <2>2. UNCHANGED runtime /\ (RecordPcHit \/ UNCHANGED <<pcHits, hitId>>)
      BY <2>1 DEF Iteration, Proceed, StopAtBreak
    <2>3. hitId < MaxHits + MaxBudget
      BY <1>0, <1>2 DEF CallsInBounds, FrameIteration, StepIteration, DebugStepIteration,
                        RunUntilIteration
    <2> QED
      BY <2>1, <2>2, <2>3 DEF CallsInBounds
  <1>3. CASE \/ StartFrame \/ StartStep \/ StartDebugStep \/ StartRunUntil
             \/ FrameTapeReturn \/ FinishDebugStep \/ RunUntilHalted \/ RunUntilExhausted
    BY <1>3 DEF StartFrame, StartStep, StartDebugStep, StartRunUntil, FrameTapeReturn,
                FinishDebugStep, RunUntilHalted, RunUntilExhausted, debuggerVars
  <1>4. CASE Control
    BY <1>4 DEF Control, SetRunning, Continue, ContinueNext, ClearBreaks, PatchPc, Reset,
                SetPaused, SetWatches, SetBreakpoint, debuggerVars
  <1> QED
    BY <1>1, <1>2, <1>3, <1>4 DEF Next, RunGuest

LEMMA BoundsKept ==
    ASSUME DInv, CallsInBounds, [Next]_vars
    PROVE  CallsInBounds'
  <1>0. hitId \in Nat /\ MaxHits \in Nat /\ MaxBudget \in Nat \ {0} /\ op.left \in Nat
        /\ Idle.kind = "idle"
    BY DebuggerAssumption, IdleFacts DEF DInv, TypeOK
  <1>1. CASE op' = Idle
    BY <1>0, <1>1 DEF CallsInBounds
  <1>2. CASE UNCHANGED <<op, hitId, runtime>>
    BY <1>2 DEF CallsInBounds
  <1>3. ASSUME NEW kind \in Calls, NEW n \in 0 .. MaxBudget, Begin(kind, n),
               UNCHANGED <<hitId, runtime>>
        PROVE  CallsInBounds'
    <2>1. op' = [kind |-> kind, left |-> n, since |-> hitId] /\ runtime = "classic"
          /\ hitId < MaxHits
      BY <1>3 DEF Begin, Ready
    <2> QED
      BY <1>0, <1>3, <2>1 DEF CallsInBounds
  <1>4. CASE StartFrame \/ StartStep \/ StartDebugStep \/ StartRunUntil
    <2>1. UNCHANGED <<hitId, runtime>>
      BY <1>4 DEF StartFrame, StartStep, StartDebugStep, StartRunUntil, debuggerVars
    <2>2. \E kind \in Calls, n \in 0 .. MaxBudget : Begin(kind, n)
      BY <1>0, <1>4 DEF StartFrame, StartStep, StartDebugStep, StartRunUntil, Calls
    <2> QED
      BY <1>3, <2>1, <2>2
  <1>5. ASSUME Iteration
        PROVE  /\ UNCHANGED runtime
               /\ hitId' = hitId \/ (hitId' = hitId + 1 /\ paused' /\ lastHit' # None)
    <2>1. CASE Proceed
      BY <1>5, <2>1 DEF Iteration, Proceed
    <2>2. CASE StopAtBreak
      <3>1. AtPC(pc) # None
        BY ReasonTypes DEF DInv, TypeOK
      <3> QED
        BY <1>5, <2>2, <3>1 DEF Iteration, StopAtBreak, RecordPcHit
    <2> QED
      BY <1>5, <2>1, <2>2 DEF Iteration
  <1>6. CASE FrameIteration
    <2>1. op' = Idle \/ (op' = op /\ ~paused')
      BY <1>6 DEF FrameIteration
    <2> QED
      BY <1>1, <1>2, <1>5, <1>6, <2>1 DEF FrameIteration
  <1>7. CASE StepIteration
    <2>1. op' = Idle \/ op' = [op EXCEPT !.left = @ - 1]
      BY <1>7 DEF StepIteration
    <2>2. CASE op' = [op EXCEPT !.left = @ - 1]
      <3>1. op'.kind = "step" /\ op'.left = op.left - 1 /\ op.kind = "step" /\ op.left # 0
        BY <1>7, <2>2 DEF StepIteration, DInv, StepsLeft, TypeOK
      <3>2. hitId' \in Nat /\ hitId' <= hitId + 1 /\ UNCHANGED runtime
        BY <1>0, <1>5, <1>7 DEF StepIteration
      <3> QED
        BY <1>0, <3>1, <3>2 DEF CallsInBounds
    <2> QED
      BY <1>1, <2>1, <2>2
  <1>8. CASE DebugStepIteration
    <2>1. op'.kind = "debugStep" /\ op'.left = 0 /\ UNCHANGED runtime /\ runtime = "classic"
      BY <1>5, <1>8 DEF DebugStepIteration, DInv, TypeOK, CallsInBounds
    <2> QED
      BY <2>1 DEF CallsInBounds
  <1>9. CASE RunUntilIteration
    <2>1. op' = Idle \/ (op' = [op EXCEPT !.left = @ - 1] /\ lastHit' = None)
      BY <1>9 DEF RunUntilIteration
    <2>2. CASE op' = [op EXCEPT !.left = @ - 1] /\ lastHit' = None
      <3>1. op'.kind = "runUntil" /\ op.kind = "runUntil" /\ UNCHANGED <<hitId, runtime>>
        BY <1>5, <1>9, <2>2 DEF RunUntilIteration, DInv, TypeOK
      <3> QED
        BY <3>1 DEF CallsInBounds
    <2> QED
      BY <1>1, <2>1, <2>2
  <1>10. CASE FrameTapeReturn \/ FinishDebugStep \/ RunUntilHalted \/ RunUntilExhausted
    BY <1>1, <1>2, <1>10
    DEF FrameTapeReturn, FinishDebugStep, RunUntilHalted, RunUntilExhausted, debuggerVars
  <1>11. CASE Control
    <2>1. UNCHANGED <<op, hitId, runtime>> \/ op' = Idle
      BY <1>11 DEF Control, SetRunning, Continue, ContinueNext, ClearBreaks, PatchPc, Reset,
             SetPaused, SetWatches, SetBreakpoint, ReplaceRuntime, debuggerVars
    <2> QED
      BY <1>1, <1>2, <2>1
  <1>12. CASE UNCHANGED vars
    BY <1>2, <1>12 DEF vars, debuggerVars
  <1> QED
    BY <1>4, <1>6, <1>7, <1>8, <1>9, <1>10, <1>11, <1>12 DEF Next, RunGuest

(* Whatever the session does with the debugger, an observer of its stops    *)
(* sees what the journal promises: identities never repeat, the newest      *)
(* stops are retained without a hole, and a current stop is the newest one. *)
THEOREM JournalImplemented == Spec => ImplementsJournal
  <1>1. Init => Journal!JournalInit /\ IdsGrow /\ CallsInBounds
    <2> SUFFICES ASSUME Init
                 PROVE  Journal!JournalInit /\ IdsGrow /\ CallsInBounds
      OBVIOUS
    <2>1. pcHits = <<>> /\ hitId = 0 /\ runtime = "none" /\ op = Idle /\ ~paused
      BY DEF Init
    <2>2. 1 .. Len(pcHits) = {}
      BY <2>1
    <2>3. Journal!JournalInit
      BY <2>1, <2>2 DEF Journal!JournalInit, CurrentPcHit
    <2> QED
      BY <2>1, <2>2, <2>3, IdleFacts DEF IdsGrow, CallsInBounds
  <1>2. DInv /\ IdsGrow /\ CallsInBounds /\ [Next]_vars
            => [Journal!JournalNext]_(Journal!journalVars) /\ IdsGrow' /\ CallsInBounds'
    <2> SUFFICES ASSUME DInv, IdsGrow, CallsInBounds, [Next]_vars
                 PROVE  [Journal!JournalNext]_(Journal!journalVars) /\ IdsGrow'
      BY BoundsKept
    <2>1. TypeOK
      BY DEF DInv
    <2> QED
      BY <2>1, StepOrRecord, QuietIsJournal, RecordIsHit, RecordedHistory, ReplaceIsJournal
  <1> QED
    BY <1>1, <1>2, DebuggerInvariance, PTL DEF Spec, ImplementsJournal, Journal!JournalSpec

=============================================================================
