---------------------------- MODULE FirmwareTasks ----------------------------
(***************************************************************************)
(* The firmware tasks beside replication. They share no state: what one    *)
(* can do does not depend on where another is, so it is enough to explore  *)
(* each of them while the others rest in an initial state. `subject` is    *)
(* the one that runs.                                                      *)
(***************************************************************************)
EXTENDS Integers, Sequences

CONSTANTS
    Subjects,      \* the tasks to explore
    Boards, MaxSleeps, MaxCables, MaxFrames, MaxFaults,        \* ChainPower
    Unreadable, Stages, BootsModulus, MaxCrashes, MaxResets,   \* PanicStore
    Keys, Profiles, Controls, ActionOf, QueueDepth, MagicTxCapacity, MaxPresses,
    MaxHostCalls, MaxDrops,                                    \* MagicKeys
    Width, HitTxCapacity, HitCapacity, MaxHitPresses           \* ReactiveHits

VARIABLES
    subject,
    board, vbus, asleep, want, rail, visible, content, pc, op, cur, events, written,
    booted, powered, sleeping, edges, led, charging, sleeps, cables, frames, faults, cut,
    store, stamps, reas, last, panic_pc, why, crashes, resets, crashed, reasons, marked,
    unscrubbed,
    down, key_events, held, used, done, force_ble, light, requests, dispatching,
    boot_tx, prx, boot_link, boot_edge, jumped, presses, calls, drops, asked, alone,
    acknowledged,
    pressed, bus, split, hit_link, hit_tx, queue, recorded, refused

Chain == INSTANCE ChainPower
Panic == INSTANCE PanicStore WITH pc <- panic_pc
Magic == INSTANCE MagicKeys WITH
            TxCapacity <- MagicTxCapacity,
            events <- key_events, tx <- boot_tx, link <- boot_link, pedge <- boot_edge
Hits == INSTANCE ReactiveHits WITH
            TxCapacity <- HitTxCapacity, MaxPresses <- MaxHitPresses,
            tx <- hit_tx, link <- hit_link

ASSUME TaskConstants ==
    /\ Subjects \subseteq {"chain", "panic", "magic", "hits"}
    /\ Chain!ChainConstants /\ Panic!StoreConstants /\ Magic!MagicConstants
    /\ Hits!WidthAssumption

chainVars == <<board, vbus, asleep, want, rail, visible, content, pc, op,
               cur, events, written, booted, powered, sleeping, edges, led,
               charging, sleeps, cables, frames, faults, cut>>
panicVars == <<store, stamps, reas, last, panic_pc, why, crashes, resets,
               crashed, reasons, marked, unscrubbed>>
magicVars == <<down, key_events, held, used, done, force_ble, light,
               requests, dispatching, boot_tx, prx, boot_link, boot_edge,
               jumped, presses, calls, drops, asked, alone, acknowledged>>
hitsVars == <<pressed, bus, split, hit_link, hit_tx, queue, recorded, refused>>
vars == <<subject, chainVars, panicVars, magicVars, hitsVars>>

Init ==
    /\ subject \in Subjects
    /\ Chain!Init /\ (subject # "chain" => board = (CHOOSE b \in Boards : TRUE) /\ ~vbus)
    /\ Panic!Init /\ Magic!Init /\ Hits!Init

\* Only the subject moves.
OnlyChain ==
    subject = "chain" /\ UNCHANGED <<subject, panicVars, magicVars, hitsVars>>
OnlyPanic ==
    subject = "panic" /\ UNCHANGED <<subject, chainVars, magicVars, hitsVars>>
OnlyMagic ==
    subject = "magic" /\ UNCHANGED <<subject, chainVars, panicVars, hitsVars>>
OnlyHits ==
    subject = "hits" /\ UNCHANGED <<subject, chainVars, panicVars, magicVars>>

Next ==
    \/ OnlyChain /\ Chain!Next
    \/ OnlyPanic /\ Panic!Next
    \/ OnlyMagic /\ Magic!Next
    \/ OnlyHits /\ Hits!Next

Spec == Init /\ [][Next]_vars

\* The fairness of the components' own FairSpec. One subject runs in a
\* behaviour, so an action of each can stand under one operator.
FairSpec ==
    /\ Spec
    /\ WF_vars(\/ OnlyChain /\ Chain!RendererStep
               \/ OnlyMagic /\ Magic!ProcessKey)
    /\ WF_vars(\/ OnlyChain /\ Chain!MonitorStep
               \/ OnlyMagic /\ Magic!DispatcherReceives)
    /\ WF_vars(\/ OnlyChain /\ Chain!RailSettles
               \/ OnlyMagic /\ Magic!Deliver)
    /\ WF_vars(OnlyMagic /\ Magic!PeripheralSeesEdge)
    /\ WF_vars(OnlyMagic /\ Magic!PeripheralProcesses)
    /\ WF_vars(OnlyMagic /\ Magic!LinkReturns)
    /\ SF_vars(\/ OnlyChain /\ Chain!RendererSleeps
               \/ OnlyMagic /\ Magic!DispatcherSends)
    /\ SF_vars(OnlyChain /\ Chain!RendererWakes)
    /\ SF_vars(OnlyChain /\ Chain!Present)

-----------------------------------------------------------------------------
(* The properties of the components, under the names they have there.      *)

\* Every component is type correct; its queues and counters stay in range.
TypeOK ==
    /\ Chain!TypeOK /\ Panic!TypeOK /\ Magic!TypeOK /\ Hits!TypeOK

\* PanicStore: only a newer crash or a power cycle removes a report.
ReportSurvives == Panic!ReportSurvives

\* MagicKeys: the bonds cleared are the ones asked for, in that order.
ClearsWhatWasAsked == Magic!ClearsWhatWasAsked
\* MagicKeys: an acknowledged bootloader request is carried out unless the
\* split link drops.
BootReachesPeripheral == subject = "magic" => Magic!BootReachesPeripheral

\* ChainPower: a suspended chain is dark, and so is one whose rail is dropped.
OffIsDark == Chain!OffIsDark
\* ChainPower: frame and rail end where sleep state, cable and frame want them.
ChainSettles == subject = "chain" => Chain!ChainSettles
\* PanicStore: a report that is seen is whole and of the latest crash, and the
\* boot trace is right.
BootShowsThePast == Panic!BootShowsThePast

\* ReactiveHits: a press reaches its own half's engine once and the other's at
\* most once.
EachPressHitsOnce == Hits!EachPressHitsOnce
=============================================================================
