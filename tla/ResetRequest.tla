---------------------------- MODULE ResetRequest ----------------------------
(***************************************************************************)
(* `reboot`, `bootloader [--peripheral]` and `reset-storage`: one request, *)
(* the keyboard's answer, and the disconnect that tells the tool it worked.*)
(*                                                                         *)
(* The tool runs the request against two clocks: the timeout around the    *)
(* whole exchange, and jump_peripheral's own, started once the request was *)
(* accepted.  The keyboard (external) checks its maintenance lock, accepts *)
(* the request, and resets some time later; its link may drop at any time. *)
(***************************************************************************)
EXTENDS Naturals

CONSTANTS
    Timeout,     \* ticks of both timeouts for the target tried
    MaxToggles   \* lock toggles tried

ResetAssumption == Timeout \in Nat \ {0} /\ MaxToggles \in Nat

Targets == {"reboot", "bootloader", "wipe", "peripheral"}

VARIABLES
    target,
    pc,          \* where the tool's request stands
    queued,      \* the flag run_reset_device reads
    outcome,     \* what the tool reports
    outer,       \* ticks of the outer timeout left
    started,     \* ticks since jump_peripheral's clock started
    session,     \* the Rynk session is open
    unlocked,    \* maintenance mode
    toggles,
    executions,  \* requests the keyboard accepted
    work,        \* what the keyboard is doing about it
    half         \* the peripheral: linked, away, in its bootloader

tool == <<target, pc, queued, outcome>>
clocks == <<outer, started>>
keyboard == <<session, unlocked, toggles, executions, work, half>>
vars == <<tool, clocks, keyboard>>

Init ==
    /\ target \in Targets
    /\ pc = IF target = "peripheral" THEN "status" ELSE "send"
    /\ queued = FALSE
    /\ outcome = "none"
    /\ outer = Timeout
    /\ started = 0
    /\ session = TRUE
    /\ unlocked \in BOOLEAN
    /\ toggles = 0
    /\ executions = 0
    /\ work = "idle"
    /\ half \in {"linked", "away"}

Running == outcome = "none"
Report(o) == outcome' = o

----------------------------------------------------------------------------
(* The tool.                                                               *)

(* jump_peripheral: nothing is sent to a half that is not there. *)
ReadStatus ==
    /\ Running /\ session /\ pc = "status"
    /\ IF half = "linked" THEN pc' = "send" /\ UNCHANGED outcome
                          ELSE Report("not connected") /\ UNCHANGED pc
    /\ UNCHANGED <<target, queued, clocks, keyboard>>

(* One attempt; the keyboard answers "answered" or "locked". *)
Send ==
    /\ Running /\ session /\ pc \in {"send", "resend"}
    /\ pc' = IF pc = "send" THEN "sent" ELSE "resent"
    /\ UNCHANGED <<target, queued, outcome, clocks, keyboard>>

(* Mutant: an accepted request is sent again like a refused one. *)
SendTwice(answer) == IF pc = "sent" THEN "mode" ELSE answer

(* The second answer is final; only a first refusal leads to another try. *)
AfterAnswer(answer) ==
    CASE answer = "locked" /\ pc = "sent" -> "mode"
      [] answer = "locked" /\ pc = "resent" -> "refused"
      [] OTHER -> "accepted"

(* Mutant: the request is repeated before the tool settles to watch. *)
SendAgain ==
    /\ pc' = IF pc = "sent" THEN "resend" ELSE "pending"
    /\ UNCHANGED <<queued, outcome>>

(* After the request: watch the session, or the half. *)
Watch ==
    /\ pc' = IF target = "peripheral" THEN "poll" ELSE "pending"
    /\ queued' = (target # "peripheral")
    /\ UNCHANGED outcome

(* The reply reaches the tool. *)
TakeAnswer(answer) ==
    /\ Running /\ session
    /\ CASE AfterAnswer(answer) = "mode" -> pc' = "mode" /\ UNCHANGED <<queued, outcome>>
         [] AfterAnswer(answer) = "refused" -> Report("locked") /\ UNCHANGED <<pc, queued>>
         [] OTHER -> Watch
    /\ UNCHANGED <<target, clocks>>

(* require_maintenance_mode, between the two attempts. *)
CheckMode ==
    /\ Running /\ session /\ pc = "mode"
    /\ IF unlocked THEN pc' = "resend" /\ UNCHANGED outcome
                   ELSE Report("locked") /\ UNCHANGED pc
    /\ UNCHANGED <<target, queued, clocks, keyboard>>

(* The loop of jump_peripheral, every 100 ms. *)
Poll ==
    /\ Running /\ session /\ pc = "poll"
    /\ CASE half # "linked" -> Report("ok")
         [] half = "linked" /\ started >= Timeout -> Report("stayed connected")
         [] OTHER -> UNCHANGED outcome
    /\ UNCHANGED <<target, pc, queued, clocks, keyboard>>

(* Mutant: any end of the session is the reset. *)
EndIsReset == "ok"

(* The session ended: the reset, once the request was queued. *)
SessionEnded == IF queued THEN "ok" ELSE "ended"

DriverEnds ==
    /\ Running /\ ~session
    /\ Report(SessionEnded)
    /\ UNCHANGED <<target, pc, queued, clocks, keyboard>>

(* Mutant: no timeout around a request that was queued. *)
UntilQueued ==
    /\ Running /\ session /\ outer = 0 /\ ~queued
    /\ Report("timed out")
    /\ UNCHANGED <<target, pc, queued, clocks, keyboard>>

(* The outer timeout, whatever the exchange is waiting for. *)
TimedOut ==
    /\ Running /\ session /\ outer = 0
    /\ Report(IF queued THEN "sent but connected" ELSE "timed out")
    /\ UNCHANGED <<target, pc, queued, clocks, keyboard>>

(* Mutant: the poll clock starts with the exchange and outlives it. *)
PollClock ==
    /\ Running
    /\ outer' = IF outer = 0 THEN 0 ELSE outer - 1
    /\ started' = started + 1
    /\ UNCHANGED <<tool, keyboard>>

(* Both clocks run together. *)
Tick ==
    /\ Running /\ outer > 0
    /\ outer' = outer - 1
    /\ started' = IF pc = "poll" THEN started + 1 ELSE started
    /\ UNCHANGED <<tool, keyboard>>

----------------------------------------------------------------------------
(* The keyboard.                                                           *)

(* Lock check and answer are one firmware step; the reply may be outrun by *)
(* the reset it announces, or by the radio.                                *)
Answer ==
    /\ session /\ pc \in {"sent", "resent"} /\ Running
    /\ IF unlocked
       THEN /\ executions' = executions + 1
            /\ work' = IF work = "idle" THEN "accepted" ELSE work
            /\ TakeAnswer("answered") \/ (pc' = "lost" /\ UNCHANGED <<target, queued, outcome, clocks>>)
       ELSE /\ UNCHANGED <<executions, work>>
            /\ TakeAnswer("locked")
    /\ UNCHANGED <<session, unlocked, toggles, half>>

(* The accepted work: a reset ends the session; a wipe erases first. *)
Work ==
    /\ work \in {"accepted", "erasing"}
    /\ CASE target = "wipe" /\ work = "accepted" -> work' = "erasing" /\ UNCHANGED <<session, half>>
         [] target = "peripheral" -> /\ work' = "done"
                                     /\ half' = IF half = "linked" THEN "bootloader" ELSE half
                                     /\ UNCHANGED session
         [] OTHER -> work' = "done" /\ session' = FALSE /\ UNCHANGED half
    /\ UNCHANGED <<tool, clocks, unlocked, toggles, executions>>

(* The cable is pulled, or the radio drops the host. *)
Unplugged ==
    /\ session /\ Running
    /\ session' = FALSE
    /\ UNCHANGED <<tool, clocks, unlocked, toggles, executions, work, half>>

(* The split link drops and comes back by itself. *)
HalfDrops ==
    /\ half = "linked" /\ Running
    /\ half' = "away"
    /\ UNCHANGED <<tool, clocks, session, unlocked, toggles, executions, work>>

HalfReturns ==
    /\ half = "away" /\ Running
    /\ half' = "linked"
    /\ UNCHANGED <<tool, clocks, session, unlocked, toggles, executions, work>>

(* Magic+R. *)
ToggleMaintenance ==
    /\ toggles < MaxToggles /\ Running
    /\ toggles' = toggles + 1
    /\ unlocked' = ~unlocked
    /\ UNCHANGED <<tool, clocks, session, executions, work, half>>

Next ==
    \/ ReadStatus \/ Send \/ CheckMode \/ Poll \/ DriverEnds \/ TimedOut \/ Tick
    \/ Answer \/ Work \/ Unplugged \/ HalfDrops \/ HalfReturns \/ ToggleMaintenance

Spec == Init /\ [][Next]_vars

(* The timer runs, and the runtime polls what is ready. *)
FairSpec == Spec /\ WF_vars(Tick) /\ WF_vars(TimedOut) /\ WF_vars(DriverEnds)

----------------------------------------------------------------------------
(* Properties.                                                             *)

(* Types. *)
TypeOK ==
    /\ target \in Targets
    /\ pc \in {"status", "send", "sent", "mode", "resend", "resent", "lost", "pending", "poll"}
    /\ outcome \in {"none", "ok", "ended", "locked", "not connected", "stayed connected",
                    "timed out", "sent but connected"}
    /\ outer \in 0 .. Timeout /\ started \in 0 .. Timeout
    /\ work \in {"idle", "accepted", "erasing", "done"}

(***************************************************************************)
(* The retry after a refusal never repeats an accepted request: a wipe or  *)
(* a bootloader jump is carried out at most once.                          *)
(***************************************************************************)
AtMostOnce == executions <= 1

(***************************************************************************)
(* Success is only reported for a request the keyboard accepted, and after *)
(* the disconnect that follows it: of the session, or of the half.         *)
(***************************************************************************)
SuccessWasAccepted ==
    outcome = "ok" => executions = 1

(***************************************************************************)
(* A command refused for the lock has had no effect, even when the lock is *)
(* toggled between the two attempts.                                       *)
(***************************************************************************)
RefusalHasNoEffect ==
    outcome \in {"locked", "not connected"} => executions = 0

\* What the tool reports of the request is true, and the request acts once:
\* a second erase or jump would hit a keyboard that is already back.
ReportIsTrue == AtMostOnce /\ SuccessWasAccepted /\ RefusalHasNoEffect

(* The tool always reports something: no request hangs. *)
EventuallyReports == <>(outcome # "none")

(***************************************************************************)
(* "the disconnect is the completion signal" of a storage wipe.            *)
(***************************************************************************)
DisconnectIsCompletion ==
    outcome = "ok" /\ target = "wipe" => work = "done"

(***************************************************************************)
(* "the right-half bootloader request was accepted, but the peripheral     *)
(* stayed connected": what the tool says of an accepted request when its   *)
(* time runs out, and not that the request timed out.                      *)
(***************************************************************************)
AcceptanceIsReported ==
    outcome = "timed out" /\ target = "peripheral" => pc # "poll"

=============================================================================
