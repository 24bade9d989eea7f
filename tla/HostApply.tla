------------------------------ MODULE HostApply ------------------------------
(***************************************************************************)
(* The host commands that have to come to an end: `config apply`           *)
(* (ConfigApply) and the reset and bootloader requests (ResetRequest).     *)
(* They share no state, so each is explored while the other rests in an    *)
(* initial state. `subject` is the one that runs.                          *)
(***************************************************************************)
EXTENDS ConfigApply

CONSTANTS Timeout, MaxToggles     \* ResetRequest

VARIABLES
    subject,
    target, request, queued, outcome, outer, started, session, reset_unlocked,
    toggles, executions, work, half

Handover == INSTANCE ResetRequest WITH pc <- request, unlocked <- reset_unlocked

ASSUME HandoverConstants == Handover!ResetAssumption

resetVars == <<target, request, queued, outcome, outer, started, session,
               reset_unlocked, toggles, executions, work, half>>
applyVars == <<ram, flash, queue, revisions, unlocked, file, firmware, pc, before,
               seen, todo, lock, resets, losses, others>>
hostVars == <<subject, applyVars, resetVars>>

-----------------------------------------------------------------------------
HostInit ==
    /\ subject \in {"apply", "reset"}
    /\ Init /\ Handover!Init
    /\ subject = "apply" => target = "reboot" /\ half = "linked" /\ ~reset_unlocked
    /\ subject = "reset" => file = CHOOSE f \in Files : TRUE
    /\ subject = "reset" => ram = (CHOOSE b \in Boards : TRUE) /\ ~unlocked

OnlyApply == subject = "apply" /\ UNCHANGED <<subject, resetVars>>
OnlyReset == subject = "reset" /\ UNCHANGED <<subject, applyVars>>

HostNext == (OnlyApply /\ Next) \/ (OnlyReset /\ Handover!Next)

HostSpec == HostInit /\ [][HostNext]_hostVars

\* The fairness of the components' own FairSpec.
HostFairSpec ==
    /\ HostSpec
    /\ WF_queue(OnlyApply /\ Persist) /\ WF_pc(OnlyApply /\ HostStep)
    /\ WF_unlocked(OnlyApply /\ ToggleMaintenance)
    /\ []<>(pc # "check")
    /\ WF_resetVars(OnlyReset /\ Handover!Tick)
    /\ WF_resetVars(OnlyReset /\ Handover!TimedOut)
    /\ WF_resetVars(OnlyReset /\ Handover!DriverEnds)

-----------------------------------------------------------------------------
(* The properties of ResetRequest, under the names they have there; those  *)
(* of ConfigApply are stated in it.                                        *)

\* ResetRequest: a request acts once at most and is reported as it went.
ReportIsTrue == Handover!ReportIsTrue

\* Both commands come to an end: applying again after every failure succeeds,
\* and a reset is reported on whatever the keyboard does.
CommandsEnd ==
    /\ subject = "apply" => EventuallyApplied
    /\ subject = "reset" => Handover!EventuallyReports
=============================================================================
