---------------------------- MODULE StopJournal ----------------------------
(***************************************************************************)
(* What a machine's debugger promises to an observer of its PC-breakpoint   *)
(* stops.  This is the abstract specification behind                        *)
(* HostSession::pc_breakpoint_observation (crates/host_api/src/session.rs): *)
(* one observation shows the stops still retained, the stop the machine is  *)
(* paused at now, if any, and nothing at all when no classic machine is     *)
(* loaded.  A stop is known by its process-wide identity; its program       *)
(* counter is left to the module Debugger, which implements this one.       *)
(***************************************************************************)
EXTENDS Integers, FiniteSets

CONSTANTS
    HistoryCap,   \* PC_HIT_HISTORY, the stops a machine retains (128)
    MaxHits       \* bound: identities handed out in one behaviour

ASSUME JournalAssumption ==
    /\ HistoryCap \in Nat \ {0}
    /\ MaxHits \in Nat

VARIABLES
    up,         \* a classic machine is loaded
    hitId,      \* the last identity handed out (NEXT_PC_HIT_ID)
    retained,   \* identities the loaded machine still holds
    active      \* identity of the stop the machine is paused at, 0 for none

journalVars == <<up, hitId, retained, active>>

HitIds == 1 .. MaxHits

JournalTypeOK ==
    /\ up \in BOOLEAN
    /\ hitId \in 0 .. MaxHits
    /\ retained \subseteq 1 .. hitId
    /\ active \in 0 .. hitId

-----------------------------------------------------------------------------

(* The oldest of some stops, as a set of one, and the newest. *)
Oldest(S) == {h \in S : \A g \in S : h <= g}
Newest(S) == CHOOSE h \in S : \A g \in S : g <= h

(* PcBreakpointObservation.latest_id. *)
Latest == IF retained = {} THEN 0 ELSE Newest(retained)

(* PcBreakpointObservation.recent, as a set: the code lists it oldest first. *)
Recent(since) == {h \in retained : h > since}

JournalInit ==
    /\ up = FALSE
    /\ hitId = 0
    /\ retained = {}
    /\ active = 0

(* The machine stops at a PC breakpoint: a fresh identity, and the oldest  *)
(* retained stop makes room when the history is full.                      *)
Hit ==
    /\ up
    /\ hitId < MaxHits
    /\ hitId' = hitId + 1
    /\ retained' = (IF Cardinality(retained) = HistoryCap
                    THEN retained \ Oldest(retained)
                    ELSE retained) \cup {hitId'}
    /\ active' = hitId'
    /\ UNCHANGED up

(* The machine is resumed, reset, or its stop is superseded by another one. *)
Deactivate ==
    /\ active # 0
    /\ active' = 0
    /\ UNCHANGED <<up, hitId, retained>>

(* A host pauses a machine whose last recorded stop reason is still a PC    *)
(* stop: the newest retained stop counts as active again.                   *)
Reactivate ==
    /\ retained # {}
    /\ active' = Newest(retained)
    /\ UNCHANGED <<up, hitId, retained>>

(* A machine is installed, with a fresh debugger. *)
Install ==
    /\ up' = TRUE
    /\ retained' = {}
    /\ active' = 0
    /\ UNCHANGED hitId

(* The classic machine goes away: its model changes, or the Next is booted. *)
Unload ==
    /\ up' = FALSE
    /\ retained' = {}
    /\ active' = 0
    /\ UNCHANGED hitId

JournalNext == Hit \/ Deactivate \/ Reactivate \/ Install \/ Unload

JournalSpec == JournalInit /\ [][JournalNext]_journalVars

-----------------------------------------------------------------------------

(* The retained stops are the newest ones ever recorded, without a hole: an *)
(* observer that sees `latest` knows it has seen all that is older, and no  *)
(* stop of an earlier machine outranks one of this machine.                 *)
RetainedIsSuffix ==
    /\ retained # {} => hitId \in retained
    /\ \A h \in retained : \A g \in h .. hitId : g \in retained

(* The stop a machine is paused at is always the newest one. *)
ActiveIsNewest == active # 0 => active \in retained /\ active = hitId

=============================================================================
