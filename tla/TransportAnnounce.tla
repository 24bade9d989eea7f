-------------------------- MODULE TransportAnnounce --------------------------
(***************************************************************************)
(* The side-band of the split link: the peripheral announces which         *)
(* transport its selector chose and relays its boot trace and the location *)
(* of its last panic (PeripheralReplication::run, lighting.rs), and the    *)
(* central caches them for hosts (central_lighting.rs).                    *)
(*                                                                         *)
(* A boot trace is the number of the boot, a panic location the number of  *)
(* the boot that left it. Replication traffic appears only as packets that *)
(* keep the peripheral busy or fill its queue; LightingReplication has it. *)
(***************************************************************************)
EXTENDS Integers, Sequences

CONSTANTS
    AutoSplit,     \* auto_split_enabled()
    TxCapacity,    \* capacity of SPLIT_APP_PERIPH_TX
    MaxEdges,      \* bound on selector edges
    MaxLinks,      \* bound on split sessions
    MaxBoots,      \* bound on boots of the peripheral
    MaxTraffic,    \* bound on replication packets to the peripheral and on
                   \* heartbeats that fall while something is owed
    MaxFaults      \* bound on packets lost on a link that stays up

ASSUME AnnounceConstants ==
    /\ AutoSplit \in BOOLEAN /\ TxCapacity \in Nat \ {0}
    /\ {MaxEdges, MaxLinks, MaxBoots, MaxTraffic, MaxFaults}
            \subseteq Nat

VARIABLES
    wired_selected,   \* the selector of the peripheral
    link, session,    \* SPLIT_APP_LINK, and the sessions so far
    \* The peripheral: the edge link.changed() has yet to report, the locals of
    \* run, whether it is inside process(), its queue, its boot and its report.
    pedge, wired, announce_transport, relay_debug, busy, ptx, boot, panic_loc,
    \* The central: the edge to report, its inbox, machine.link_up,
    \* PERIPHERAL_TRANSPORT and PERIPHERAL_DEBUG.
    cedge, crx, link_up, transport, debug,
    edges, traffic, faults,       \* counters of the bounds
    queued            \* history: the last announcement queued in this session

peripheral == <<pedge, wired, announce_transport, relay_debug, busy, ptx, boot,
                panic_loc>>
central == <<cedge, crx, link_up, transport, debug>>
counters == <<edges, traffic, faults>>
vars == <<wired_selected, link, session, peripheral, central, counters, queued>>

\* Options are sets of at most one value; boot 0 stands for none.
None == {}
NoBoot == 0
NoDebug == [boot |-> NoBoot, loc |-> NoBoot]

Messages ==
    [kind : {"TransportStatus"}, wired : BOOLEAN, session : 0 .. MaxLinks]
        \cup [kind : {"DebugTrace"}, boot : 1 .. MaxBoots]
        \cup [kind : {"DebugPanicLoc"}, loc : 1 .. MaxBoots]
        \cup [kind : {"Replication"}]

-----------------------------------------------------------------------------
Init ==
    /\ wired_selected \in BOOLEAN /\ link = FALSE /\ session = 0
    /\ pedge = FALSE /\ wired = wired_selected /\ announce_transport = AutoSplit
    /\ relay_debug = 2 /\ busy = FALSE /\ ptx = <<>> /\ boot = 1
    /\ panic_loc = NoBoot
    /\ cedge = FALSE /\ crx = <<>> /\ link_up = FALSE /\ transport = None
    /\ debug = NoDebug
    /\ edges = 0 /\ traffic = 0 /\ faults = 0
    /\ queued = None

(* The environment: the selector, the link, the peripheral's resets, and   *)
(* the driver between the queues. A watch reports the latest state once,   *)
(* however many edges there were.                                          *)
SelectorChanges ==
    /\ AutoSplit /\ edges < MaxEdges
    /\ wired_selected' = ~ wired_selected /\ edges' = edges + 1
    /\ UNCHANGED <<link, session, peripheral, central, traffic, faults,
                   queued>>

LinkUp ==
    /\ ~ link /\ session < MaxLinks
    /\ link' = TRUE /\ session' = session + 1
    /\ pedge' = TRUE /\ cedge' = TRUE /\ queued' = None
    /\ UNCHANGED <<wired_selected, wired, announce_transport, relay_debug, busy,
                   ptx, boot, panic_loc, crx, link_up, transport, debug,
                   counters>>

LinkDown ==
    /\ link /\ session < MaxLinks
    /\ link' = FALSE /\ pedge' = TRUE /\ cedge' = TRUE
    /\ UNCHANGED <<wired_selected, session, wired, announce_transport,
                   relay_debug, busy, ptx, boot, panic_loc, crx, link_up,
                   transport, debug, counters, queued>>

PeripheralReboots ==
    /\ boot < MaxBoots /\ (link => session < MaxLinks)
    /\ boot' = boot + 1
    /\ panic_loc' \in {NoBoot, panic_loc, boot}
    /\ link' = FALSE /\ cedge' = (link \/ cedge)
    /\ pedge' = FALSE /\ wired' = wired_selected /\ announce_transport' = AutoSplit
    /\ relay_debug' = 2 /\ busy' = FALSE /\ ptx' = <<>>
    /\ UNCHANGED <<wired_selected, session, crx, link_up, transport, debug,
                   counters, queued>>

\* The driver passes on one packet at a time.
Deliver ==
    /\ link /\ ptx # <<>> /\ crx = <<>>
    /\ ptx' = Tail(ptx) /\ crx' = <<Head(ptx)>>
    /\ UNCHANGED <<wired_selected, link, session, pedge, wired, boot, panic_loc,
                   announce_transport, relay_debug, busy, cedge, link_up,
                   transport, debug, counters, queued>>

Lose ==
    /\ ptx # <<>> /\ (link => faults < MaxFaults)
    /\ ptx' = Tail(ptx) /\ faults' = IF link THEN faults + 1 ELSE faults
    /\ UNCHANGED <<wired_selected, link, session, pedge, wired, boot, panic_loc,
                   announce_transport, relay_debug, busy, central, edges,
                   traffic, queued>>

-----------------------------------------------------------------------------
(* PeripheralReplication::run. Every arm ends at the top of the loop, where*)
(* the selector is sampled again.                                          *)

\* mutant: a diagnostic is queued behind others
SendAnyway(m) == ptx' = Append(ptx, m)

\* try_send_diagnostic: only into an empty queue.
TrySendDiagnostic(m) ==
    IF ptx = <<>> THEN ptx' = <<m>> ELSE UNCHANGED ptx
Sent == ptx = <<>>

AtSelect == ~ busy
Loop == wired' = wired_selected

\* First arm: a link edge. The selector is announced and the trace relayed
\* once more for every session.
PeripheralLinkChanged ==
    /\ AtSelect /\ pedge
    /\ pedge' = FALSE /\ Loop
    /\ announce_transport' = IF link THEN AutoSplit ELSE announce_transport
    /\ relay_debug' = IF link THEN 2 ELSE relay_debug
    /\ UNCHANGED <<wired_selected, link, session, busy, ptx, boot, panic_loc,
                   central, counters, queued>>

\* Second arm: a replication packet, which process() may await on, and which
\* the worker may answer with an Ack.
PeripheralTakesPacket ==
    /\ AtSelect /\ link /\ traffic < MaxTraffic
    /\ busy' = TRUE /\ traffic' = traffic + 1
    /\ UNCHANGED <<wired_selected, link, session, pedge, wired, ptx, boot,
                   announce_transport, relay_debug, panic_loc, central, edges,
                   faults, queued>>

PeripheralProcessed ==
    /\ busy /\ busy' = FALSE /\ Loop
    /\ \/ UNCHANGED ptx
       \/ Len(ptx) < TxCapacity /\ ptx' = Append(ptx, [kind |-> "Replication"])
    /\ UNCHANGED <<wired_selected, link, session, pedge, boot, panic_loc,
                   announce_transport, relay_debug, central, counters, queued>>

\* mutant: the heartbeat does not announce the transport again
HeartbeatAttests == UNCHANGED announce_transport
HeartbeatAnnounces == announce_transport' = AutoSplit

\* Nothing is owed: the peripheral waits for a selector edge.
AtRest ==
    AtSelect /\ ~ pedge /\ ~ announce_transport /\ relay_debug = 0
        /\ wired = wired_selected

\* Third arm: the heartbeat attests, if it can, and announces again. With
\* ATTESTATION_INTERVAL at 300 s few heartbeats fall on unfinished business.
Heartbeat ==
    /\ AtSelect /\ Loop
    /\ \/ (~ link \/ (AtRest /\ ptx = <<>>)) /\ UNCHANGED traffic
       \/ traffic < MaxTraffic /\ traffic' = traffic + 1
    /\ IF link
       THEN HeartbeatAnnounces /\ TrySendDiagnostic([kind |-> "Replication"])
       ELSE UNCHANGED <<announce_transport, ptx>>
    /\ UNCHANGED <<wired_selected, link, session, pedge, relay_debug, busy, boot,
                   panic_loc, central, edges, faults, queued>>

\* mutant: an announcement that found the queue taken is not owed any more
OwedIfUp == FALSE
\* announce_transport_now: whether a send is still owed.
StillOwed == link /\ ~ Sent

Announce ==
    /\ announce_transport' = StillOwed
    /\ IF link
       THEN /\ TrySendDiagnostic([kind |-> "TransportStatus",
                                  wired |-> wired_selected, session |-> session])
            /\ queued' = IF Sent THEN {wired_selected} ELSE queued
       ELSE UNCHANGED <<ptx, queued>>
    /\ UNCHANGED relay_debug

\* mutant: the next step is taken whether or not the packet was queued
RelayedAnyway == TRUE
\* The result of relay_debug_now: queued, or no report to relay.
Relayed == link /\ (Sent \/ (relay_debug = 1 /\ panic_loc = NoBoot))

RelayDebug ==
    /\ relay_debug > 0
    /\ IF link /\ relay_debug = 2
       THEN TrySendDiagnostic([kind |-> "DebugTrace", boot |-> boot])
       ELSE IF link /\ panic_loc # NoBoot
       THEN TrySendDiagnostic([kind |-> "DebugPanicLoc", loc |-> panic_loc])
       ELSE UNCHANGED ptx
    /\ relay_debug' = IF Relayed THEN relay_debug - 1 ELSE relay_debug
    /\ UNCHANGED <<announce_transport, queued>>

\* Fourth arm: transport_announce_due, one owed packet per firing.
TransportAnnounceDue ==
    /\ AtSelect /\ Loop
    /\ LET edge == AutoSplit /\ wired_selected # wired IN
        IF edge \/ announce_transport THEN Announce ELSE RelayDebug
    /\ UNCHANGED <<wired_selected, link, session, pedge, busy, boot, panic_loc,
                   central, counters>>

-----------------------------------------------------------------------------
(* The central.                                                            *)

CentralLinkChanged ==
    /\ cedge /\ cedge' = FALSE /\ link_up' = link
    /\ UNCHANGED <<wired_selected, link, session, peripheral, crx, transport,
                   debug, counters, queued>>

\* record_peripheral_trace keeps the location the slot had.
TraceRecord(m) ==
    [boot |-> m.boot, loc |-> debug.loc]

\* record_secondary_message.
CentralReceives ==
    /\ crx # <<>> /\ crx' = Tail(crx)
    /\ LET m == Head(crx) IN
        /\ transport' = IF m.kind = "TransportStatus"
                        THEN {[wired |-> m.wired, session |-> m.session]}
                        ELSE transport
        /\ debug' = CASE m.kind = "DebugTrace" -> TraceRecord(m)
                      [] m.kind = "DebugPanicLoc" /\ debug # NoDebug ->
                            [debug EXCEPT !.loc = m.loc]
                      [] OTHER -> debug
    /\ UNCHANGED <<wired_selected, link, session, peripheral, cedge, link_up,
                   counters, queued>>

\* peripheral_transport(): what hosts are told.
peripheral_transport == IF link_up THEN transport ELSE None

-----------------------------------------------------------------------------
PeripheralStep ==
    \/ PeripheralLinkChanged \/ PeripheralProcessed \/ Heartbeat
    \/ TransportAnnounceDue

Next ==
    \/ SelectorChanges \/ LinkUp \/ LinkDown \/ PeripheralReboots
    \/ Deliver \/ Lose
    \/ PeripheralTakesPacket \/ PeripheralStep
    \/ CentralLinkChanged \/ CentralReceives

Spec == Init /\ [][Next]_vars

AnnounceIntoEmptyQueue == TransportAnnounceDue /\ ptx = <<>>
\* Tasks and timers run; every arm of the select is served in the end, and a
\* queue the driver keeps serving empties.
FairSpec ==
    /\ Spec
    /\ WF_vars(PeripheralLinkChanged) /\ WF_vars(PeripheralProcessed)
    /\ SF_vars(Heartbeat) /\ SF_vars(AnnounceIntoEmptyQueue)
    /\ WF_vars(Deliver) /\ WF_vars(CentralLinkChanged) /\ WF_vars(CentralReceives)

-----------------------------------------------------------------------------
TypeOK ==
    /\ {wired_selected, link, pedge, wired, announce_transport, busy, cedge,
        link_up} \subseteq BOOLEAN
    /\ session \in 0 .. MaxLinks /\ boot \in 1 .. MaxBoots
    /\ relay_debug \in 0 .. 2 /\ panic_loc \in NoBoot .. MaxBoots
    /\ ptx \in Seq(Messages) /\ Len(ptx) <= TxCapacity /\ crx \in Seq(Messages)
    /\ transport \in SUBSET [wired : BOOLEAN, session : 0 .. MaxLinks]
    /\ debug \in [boot : NoBoot .. MaxBoots, loc : NoBoot .. MaxBoots]
    /\ queued \in SUBSET BOOLEAN

(* In every session the transport has been announced by the time nothing   *)
(* is owed any more, although the queue may have been taken at every try,  *)
(* the flags of the previous session are still set or cleared, and link    *)
(* edges are reported late and together.                                   *)
AnnouncedInSession == AutoSplit /\ link /\ AtRest => queued # None

(* What the TransportStatus message promises: it is sent "on every         *)
(* cable-detect edge". An edge that falls while another arm of the select  *)
(* runs is sampled at the top of the loop and never announced.             *)
EveryEdgeAnnounced == AutoSplit /\ link /\ AtRest => queued \subseteq {wired_selected}

(* What PERIPHERAL_TRANSPORT promises: it is None until the peripheral     *)
(* reports over the current session, "so a stale answer never outlives the *)
(* session that produced it". It is hidden while the link is down, not     *)
(* cleared, and a new session starts with the old answer.                  *)
AnswerIsOfThisSession ==
    ~ cedge => \A t \in peripheral_transport : t.session = session

(* When link and selector stay as they are, hosts are told the truth for   *)
(* good in the end: the heartbeat announces again what was lost, or what   *)
(* was missed. While the link stays down they are told nothing.            *)
HostsLearnTransport ==
    /\ AutoSplit /\ <>[]link =>
          <>[](/\ peripheral_transport # None
               /\ \A t \in peripheral_transport : t.wired = wired_selected)
    /\ <>[](~ link) => <>[](peripheral_transport = None)

(* If no packet is lost while the link is up, the central ends up with the *)
(* trace of the boot that is running and, if that boot has a panic report, *)
(* its location: the two packets share a queue that admits one at a time,  *)
(* and a session may end between them.                                     *)
HostsLearnTrace ==
    [](faults = 0) /\ <>[]link =>
        <>[](/\ debug.boot = boot
             /\ panic_loc # NoBoot => debug.loc = panic_loc)

\* In a session that lasts hosts learn all the right half has to say.
HostsCatchUp == HostsLearnTransport /\ HostsLearnTrace
=============================================================================
