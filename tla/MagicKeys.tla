----------------------------- MODULE MagicKeys ------------------------------
(***************************************************************************)
(* The Magic-layer controls of the central (remote_boot.rs): the chord     *)
(* that clears BLE bonds, the reserved user actions, and the way of a      *)
(* bootloader request to the right half: REMOTE_BOOT_REQUESTS,             *)
(* RemoteBootDispatcher (central_lighting.rs), the split queue, and        *)
(* PeripheralReplication::process (lighting.rs).                           *)
(*                                                                         *)
(* The processor awaits what an event causes, so key events queue up. Two  *)
(* keys may carry the same action. The release of a key carries the action *)
(* its press resolved to.                                                  *)
(***************************************************************************)
EXTENDS Integers, Sequences, SequencesExt

CONSTANTS
    Keys,           \* physical keys
    Profiles,       \* rmk::ble::profile_count() profiles
    Controls,       \* the reserved actions bound to keys
    ActionOf,       \* [Keys -> Profiles \cup Controls]
    QueueDepth,     \* ActionEvents the processor may be behind
    TxCapacity,     \* capacity of SPLIT_APP_TX
    MaxPresses,     \* bound on key presses
    MaxHostCalls,   \* bound on host bootloader requests
    MaxDrops        \* bound on link drops

MagicConstants ==
    /\ Controls \subseteq {"clear", "clear_all", "boot", "toggle", "light"}
    /\ ActionOf \in [Keys -> Profiles \cup Controls]
    /\ {QueueDepth, TxCapacity} \subseteq Nat \ {0}
    /\ {MaxPresses, MaxHostCalls, MaxDrops} \subseteq Nat

VARIABLES
    down,           \* keys held
    events,         \* ActionEvents not processed yet
    held, used,     \* BleClearChord
    done,           \* bond clearings carried out, in order
    force_ble, light,          \* forced split transport, lighting output
    requests,       \* REMOTE_BOOT_REQUESTS is taken
    dispatching,    \* RemoteBootDispatcher waits for a slot
    tx, prx,        \* SPLIT_APP_TX, SPLIT_APP_RX of the peripheral
    link, pedge,    \* SPLIT_APP_LINK, and the edge the peripheral has not seen
    jumped,         \* the peripheral is in its bootloader
    presses, calls, drops,     \* counters of the bounds
    \* History: clearings the keys asked for, a clear key is held with no
    \* profile key pressed since; a bootloader request was acknowledged and is
    \* not carried out yet.
    asked, alone, acknowledged

keyboard == <<down, events, held, used, done, force_ble, light>>
hands == <<asked, alone>>
boot == <<requests, dispatching, tx, prx, link, pedge, jumped>>
vars == <<keyboard, boot, presses, calls, drops, hands, acknowledged>>

Active == "active"
ClearKeys == {k \in Keys : ActionOf[k] = "clear"}

Init ==
    /\ down = {} /\ events = <<>> /\ held = FALSE /\ used = FALSE
    /\ done = <<>> /\ force_ble = FALSE /\ light = TRUE
    /\ requests = FALSE /\ dispatching = FALSE /\ tx = <<>> /\ prx = <<>>
    /\ link = TRUE /\ pedge = FALSE /\ jumped = FALSE
    /\ presses = 0 /\ calls = 0 /\ drops = 0
    /\ asked = <<>> /\ alone = FALSE /\ acknowledged = FALSE

-----------------------------------------------------------------------------
(* The hands. What they ask for: a profile key pressed while a clear key   *)
(* is held clears that profile, and a clear key that was held with no      *)
(* profile key pressed clears the active one.                              *)
Press(k) ==
    /\ k \notin down /\ presses < MaxPresses /\ Len(events) < QueueDepth
    /\ down' = down \cup {k} /\ presses' = presses + 1
    /\ events' = Append(events, [pressed |-> TRUE, action |-> ActionOf[k]])
    /\ LET chorded == ActionOf[k] \in Profiles /\ down \cap ClearKeys # {} IN
        /\ asked' = IF chorded THEN Append(asked, ActionOf[k]) ELSE asked
        /\ alone' = (~ chorded /\ (alone \/ k \in ClearKeys))
    /\ UNCHANGED <<held, used, done, force_ble, light, boot, calls,
                   drops, acknowledged>>

Release(k) ==
    /\ k \in down /\ Len(events) < QueueDepth
    /\ down' = down \ {k}
    /\ events' = Append(events, [pressed |-> FALSE, action |-> ActionOf[k]])
    /\ asked' = IF k \in ClearKeys /\ alone
                THEN Append(asked, Active)
                ELSE IF ActionOf[k] = "clear_all" THEN Append(asked, "all")
                ELSE asked
    /\ alone' = (alone /\ k \notin ClearKeys)
    /\ UNCHANGED <<held, used, done, force_ble, light, boot, presses,
                   calls, drops, acknowledged>>

-----------------------------------------------------------------------------
(* MagicKeyActions::on_action_event.                                       *)

\* mutant: a profile key does not use up the chord
UsedUnchanged(e) == IF e.action = "clear" THEN FALSE ELSE used
UsedAfter(e) ==
    IF e.action = "clear" THEN FALSE
    ELSE used \/ (held /\ e.pressed /\ e.action \in Profiles)

\* BleClearChord::update: what it clears, if anything.
Cleared(e) ==
    IF e.pressed /\ held /\ e.action \in Profiles THEN <<e.action>>
    ELSE IF ~ e.pressed /\ e.action = "clear" /\ ~ used THEN <<Active>>
    ELSE <<>>

\* REMOTE_BOOT_REQUESTS.try_send: a request while one is pending is the same.
Request == requests' = TRUE /\ acknowledged' = TRUE

ProcessKey ==
    /\ events # <<>> /\ events' = Tail(events)
    /\ LET e == Head(events)
           released(a) == ~ e.pressed /\ e.action = a
       IN
        /\ held' = IF e.action = "clear" THEN e.pressed ELSE held
        /\ used' = UsedAfter(e)
        /\ done' = done \o Cleared(e)
                        \o (IF released("clear_all") THEN <<"all">> ELSE <<>>)
        /\ light' = IF released("light") THEN ~ light ELSE light
        /\ force_ble' = IF released("toggle") THEN ~ force_ble ELSE force_ble
        /\ IF released("boot") THEN Request
           ELSE UNCHANGED <<requests, acknowledged>>
    /\ UNCHANGED <<down, dispatching, tx, prx, link, pedge, jumped,
                   presses, calls, drops, hands>>

-----------------------------------------------------------------------------
(* The way of a bootloader request.                                        *)

\* route_peripheral_bootloader: acknowledged, or NotReady.
HostAsks ==
    /\ calls < MaxHostCalls /\ calls' = calls + 1
    /\ IF requests THEN UNCHANGED <<requests, acknowledged>> ELSE Request
    /\ UNCHANGED <<keyboard, dispatching, tx, prx, link, pedge, jumped, presses,
                   drops, hands>>

DispatcherReceives ==
    /\ requests /\ ~ dispatching
    /\ requests' = FALSE /\ dispatching' = TRUE
    /\ UNCHANGED <<keyboard, tx, prx, link, pedge, jumped, presses, calls, drops,
                   hands, acknowledged>>

\* mutant: the command is dropped when the queue is busy
TrySend ==
    /\ dispatching' = FALSE
    /\ tx' = IF Len(tx) < TxCapacity THEN Append(tx, "boot") ELSE tx
\* mutant: the command does not wait for its slot
SendBlindly == tx' = Append(tx, "boot") /\ dispatching' = FALSE
\* SPLIT_APP_TX.send(..).await.
SendWaits ==
    /\ Len(tx) < TxCapacity
    /\ tx' = Append(tx, "boot") /\ dispatching' = FALSE

DispatcherSends ==
    /\ dispatching /\ SendWaits
    /\ UNCHANGED <<keyboard, requests, prx, link, pedge, jumped, presses, calls,
                   drops, hands, acknowledged>>

\* Lighting traffic takes the queue whenever it can.
OtherTraffic ==
    /\ Len(tx) < TxCapacity /\ tx' = Append(tx, "lighting")
    /\ UNCHANGED <<keyboard, requests, dispatching, prx, link, pedge, jumped,
                   presses, calls, drops, hands, acknowledged>>

Deliver ==
    /\ link /\ tx # <<>> /\ prx = <<>>
    /\ prx' = <<Head(tx)>> /\ tx' = Tail(tx)
    /\ UNCHANGED <<keyboard, requests, dispatching, link, pedge, jumped, presses,
                   calls, drops, hands, acknowledged>>

LinkChanges ==
    /\ ~ jumped /\ (link => drops < MaxDrops)
    /\ link' = ~ link /\ pedge' = TRUE
    /\ drops' = IF link THEN drops + 1 ELSE drops
    /\ UNCHANGED <<keyboard, requests, dispatching, tx, prx, jumped, presses,
                   calls, hands, acknowledged>>

\* The peripheral drains its inbox when it sees the link down.
PeripheralSeesEdge ==
    /\ pedge /\ ~ jumped /\ pedge' = FALSE
    /\ prx' = IF link THEN prx ELSE <<>>
    /\ UNCHANGED <<keyboard, requests, dispatching, tx, link, jumped, presses,
                   calls, drops, hands, acknowledged>>

\* process(): BOOTLOADER_TAG jumps, which also ends the link.
PeripheralProcesses ==
    /\ prx # <<>> /\ ~ jumped /\ prx' = <<>>
    /\ IF Head(prx) = "boot"
       THEN jumped' = TRUE /\ link' = FALSE /\ acknowledged' = FALSE
       ELSE UNCHANGED <<jumped, link, acknowledged>>
    /\ UNCHANGED <<keyboard, requests, dispatching, tx, pedge, presses, calls,
                   drops, hands>>

-----------------------------------------------------------------------------
Next ==
    \/ \E k \in Keys : Press(k) \/ Release(k)
    \/ ProcessKey
    \/ HostAsks \/ DispatcherReceives \/ DispatcherSends \/ OtherTraffic
    \/ Deliver \/ LinkChanges \/ PeripheralSeesEdge \/ PeripheralProcesses

Spec == Init /\ [][Next]_vars

LinkReturns == LinkChanges /\ ~ link
\* Tasks run and the driver serves the queue; the waker of a waiting send is
\* served in the end although others take slots too. The link comes back.
FairSpec ==
    /\ Spec
    /\ WF_vars(ProcessKey) /\ WF_vars(DispatcherReceives)
    /\ SF_vars(DispatcherSends) /\ WF_vars(Deliver)
    /\ WF_vars(PeripheralSeesEdge) /\ WF_vars(PeripheralProcesses)
    /\ WF_vars(LinkReturns)

-----------------------------------------------------------------------------
TypeOK ==
    /\ down \subseteq Keys /\ Len(events) <= QueueDepth
    /\ {held, used, force_ble, light, requests, dispatching, link, pedge, jumped,
        acknowledged} \subseteq BOOLEAN
    /\ Len(tx) <= TxCapacity /\ Len(prx) <= 1

(* The bonds that are cleared are the ones the keys asked for, in that     *)
(* order, whatever other keys are pressed and released between and however *)
(* far the processor is behind: clear with a profile key clears that       *)
(* profile and not the active one, also if the profile key is released     *)
(* after the clear key or was down before it.                              *)
ClearsWhatWasAsked ==
    IsPrefix(done, asked)

(* A bootloader request that was acknowledged, to a host or to the key, is *)
(* carried out unless the split link drops: the dispatcher waits for the   *)
(* queue, which lighting traffic keeps full.                               *)
BootReachesPeripheral ==
    (acknowledged /\ drops = 0) ~> (jumped \/ drops > 0)

(* What RemoteBootDispatcher promises: "a bootloader command must not be   *)
(* dropped: the host has already received an acknowledgement". A command   *)
(* that is in the peripheral's inbox when the link goes down is drained    *)
(* with it, and no one sends it again although the link comes back.        *)
BootIsNotDropped == acknowledged ~> jumped
=============================================================================
