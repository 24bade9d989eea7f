------------------------ MODULE LightingReplication ------------------------
(***************************************************************************)
(* Replication of the lighting engine from the central to the peripheral   *)
(* half: CentralReplication::run (central_lighting.rs) at one end,         *)
(* PeripheralReplication::run and PeripheralLightingWorker::run            *)
(* (lighting.rs) at the other, and the bounded, lossy split queues between *)
(* them.                                                                   *)
(*                                                                         *)
(* The engine's durable state is identified by its revision, the           *)
(* replicated context (indicators, power, bonds and the battery pair) by a *)
(* serial number. A snapshot transaction is four packets: Begin, Body (all *)
(* the packets Commit accounts for), Gate (the ones it does not account    *)
(* for, sent when Gated) and Commit; SnapshotStage justifies the first     *)
(* abstraction and SnapshotWire the second. Revision 0 stands for None.    *)
(***************************************************************************)
EXTENDS Integers, Sequences, FiniteSets

CONSTANTS
    TxCapacity,            \* slots of SPLIT_APP_TX on the central
    RxCapacity,            \* slots of SPLIT_APP_RX on either half
    PeriphTxCapacity,      \* slots of SPLIT_APP_PERIPH_TX
    Generations,           \* size of the u8 generation counter (256)
    RESYNC_FAST_ATTEMPTS,  \* unacked snapshots before the idle cadence
    Gated,                 \* do snapshots have conditional-scene gates?
    MaxRevision,           \* bound on engine changes
    MaxContext,            \* bound on context changes
    MaxStatus,             \* bound on status requests from the host
    MaxRefusals,           \* bound on transfers the full queue refuses
    MaxFaults              \* bound on losses, link drops, reboots, late acks

ASSUME ReplicationConstants ==
    /\ TxCapacity \in Nat /\ RxCapacity \in Nat \ {0}
    /\ PeriphTxCapacity \in Nat \ {0}
    /\ Generations \in Nat \ {0}
    /\ RESYNC_FAST_ATTEMPTS \in Nat \ {0}
    /\ Gated \in BOOLEAN
    /\ MaxRevision \in Nat \ {0} /\ MaxContext \in Nat \ {0}
    /\ MaxStatus \in Nat /\ MaxRefusals \in Nat /\ MaxFaults \in Nat

VARIABLES
    \* The authority: the central's engine and context, and the events about
    \* them that CentralReplication has not taken yet.
    revision, context, lighting_events, context_events,
    \* Locals of CentralReplication::run. `exported' is REPLICA_SLOT while the
    \* task is between the export and the queueing of a snapshot.
    link_up, full_dirty, context_dirty, awaiting_ack, last_acked_revision,
    expected_digests, health, failed_attempts, recovery, retry_at, generation,
    exported,
    \* The link: whether it carries packets, each half's SPLIT_APP_LINK (the
    \* edge its replication task has not seen yet, and the peripheral's
    \* current value), and the four queues.
    link, periph_link, central_watch, periph_watch, tx, prx, ptx, crx,
    \* The peripheral: PeripheralReplication's stage, REPLICA_SLOT,
    \* APPLY_REQUESTS, DIAGNOSTIC_REQUESTS, the worker, the engine,
    \* PERIPHERAL_CONTEXT, LAST_APPLIED_REVISION and LAST_DIGESTS.
    stage, slot, apply_request, diagnostic_request, worker, engine,
    periph_context, last_applied, last_digests,
    \* Bounds on the environment.
    status_requests, refusals, faults

authority == <<revision, context, lighting_events, context_events>>
transfer == <<awaiting_ack, last_acked_revision, expected_digests>>
central == <<link_up, full_dirty, context_dirty, transfer, health,
             failed_attempts, recovery, retry_at, generation, exported>>
watches == <<link, periph_link, central_watch, periph_watch>>
queues == <<tx, prx, ptx, crx>>
peripheral == <<stage, slot, apply_request, diagnostic_request, worker, engine,
                periph_context, last_applied, last_digests>>
bounds == <<status_requests, refusals, faults>>
vars == <<authority, central, watches, queues, peripheral, bounds>>

-----------------------------------------------------------------------------
(* Values.                                                                 *)

Revisions == 0 .. MaxRevision
Contexts == 0 .. MaxContext
GenerationSet == 0 .. (Generations - 1)

None == [revision |-> -1]

\* PendingAck: the transfer the central waits for. The deadline is abstract.
PendingAcks ==
    [generation : GenerationSet, revision : Revisions,
     kind : {"FullSnapshot", "ContextUpdate"}]

\* Whether the conditional-scene gates of a replica are all there.
Gates == {"kept", "lost"}

\* The durable part of a replica, which REPLICA_SLOT carries to the engine.
\* replica_digests hashes it, so the digests are modelled by the part itself
\* (no collisions); the context is excluded from both.
Durables == [revision : Revisions, gates : Gates]
BootDurable == [revision |-> 0, gates |-> "kept"]

\* The replicated context, tagged with the revision it was sent with.
TaggedContexts == [revision : Revisions, context : Contexts]
BootContext == [revision |-> 0, context |-> 0]

ReplicationHealth == {"Resynchronizing", "Healthy", "Stale", "Diverged"}

\* SnapshotStage: `received' holds the packets of the open transaction.
Stages ==
    [generation : GenerationSet, revision : Revisions, context : Contexts,
     received : SUBSET {"Body", "Gate"}]

ApplyRequests == [generation : GenerationSet, digests : Durables]

\* PeripheralLightingWorker: waiting for a request, waiting for the engine to
\* take the slot (requested) or to reply (applied), or reading the engine's
\* state for a status request.
Idle == [state |-> "idle"]
Workers ==
    [state : {"requested", "applied"}, request : ApplyRequests]
    \cup [state : {"idle", "diagnostic"}]

Message ==
    [type : {"Begin", "Gate", "Commit", "Ack"}, generation : GenerationSet,
     revision : Revisions]
    \cup [type : {"Body", "ContextUpdate"}, generation : GenerationSet,
          revision : Revisions, context : Contexts]
    \cup [type : {"StatusRequest", "StatusReport"}]
    \cup [type : {"Attestation"}, digests : Durables]

\* AttestationRecovery.
Recoveries ==
    [target_revision : Revisions, mismatch_count : 0 .. 255,
     awaiting_post_resync : BOOLEAN]
NoRecovery ==
    [target_revision |-> 0, mismatch_count |-> 0, awaiting_post_resync |-> FALSE]

-----------------------------------------------------------------------------
(* Packets and queues.                                                     *)

Range(q) == {q[i] : i \in DOMAIN q}

Packet(type, g, r) == [type |-> type, generation |-> g, revision |-> r]
ContextPacket(type, g, x) ==
    [type |-> type, generation |-> g, revision |-> x.revision,
     context |-> x.context]
Ack(g, r) == Packet("Ack", g, r)
Attestation(d) == [type |-> "Attestation", digests |-> d]

\* walk_snapshot. The gate packets precede Commit.
SnapshotPackets(g, x) ==
    <<Packet("Begin", g, x.revision), ContextPacket("Body", g, x)>>
    \o (IF Gated THEN <<Packet("Gate", g, x.revision)>> ELSE <<>>)
    \o <<Packet("Commit", g, x.revision)>>

\* A transfer is queued whole or not at all: try_queue_snapshot reserves the
\* room first, and a context update is a single try_send.
FitsFirst(packets) == Len(tx) < TxCapacity   \* mutant: no reservation
Fits(packets) == Len(tx) + Len(packets) <= TxCapacity

\* try_send on the peripheral's queue: dropped when there is no room.
TrySend(q, m) == IF Len(q) < PeriphTxCapacity THEN Append(q, m) ELSE q

\* try_send_diagnostic: diagnostics enter an empty queue only.
TrySendDiagnostic(q, m) == IF q = <<>> THEN Append(q, m) ELSE q

-----------------------------------------------------------------------------
(* AttestationRecovery::observe and snapshot_acked.                        *)

SnapshotAcked(rec, r) ==
    [rec EXCEPT !.awaiting_post_resync = (rec.target_revision = r)]

\* The decision, as the health the central derives from it (Recover and Halt
\* both report Diverged), and the recovery state after it.
ObservedHealth(expected, observed) ==
    IF expected = observed THEN "Healthy"
    ELSE IF expected = None \/ expected.revision # observed.revision THEN "Stale"
    ELSE "Diverged"

ObservedRecovery(rec, expected, observed) ==
    IF ObservedHealth(expected, observed) # "Diverged" THEN NoRecovery
    ELSE IF rec.target_revision # observed.revision
    THEN [target_revision |-> observed.revision, mismatch_count |-> 1,
          awaiting_post_resync |-> FALSE]
    ELSE IF rec.awaiting_post_resync
    THEN [rec EXCEPT !.awaiting_post_resync = FALSE,
                     !.mismatch_count = IF @ < 255 THEN @ + 1 ELSE 255]
    ELSE rec

-----------------------------------------------------------------------------
Init ==
    /\ revision = 1 /\ context = 1
    /\ lighting_events = 0 /\ context_events = 0
    /\ link_up = FALSE /\ full_dirty = TRUE /\ context_dirty = FALSE
    /\ awaiting_ack = None /\ last_acked_revision = 0 /\ expected_digests = None
    /\ health = "Resynchronizing" /\ failed_attempts = 0
    /\ recovery = NoRecovery /\ retry_at = "none" /\ generation = 0
    /\ exported = None
    /\ link = FALSE /\ periph_link = FALSE
    /\ central_watch = "seen" /\ periph_watch = "seen"
    /\ tx = <<>> /\ prx = <<>> /\ ptx = <<>> /\ crx = <<>>
    /\ stage = None /\ slot = None /\ apply_request = None
    /\ diagnostic_request = FALSE /\ worker = Idle
    /\ engine = BootDurable /\ periph_context = BootContext
    /\ last_applied = 0 /\ last_digests = None
    /\ status_requests = 0 /\ refusals = 0 /\ faults = 0

-----------------------------------------------------------------------------
(* The environment.                                                        *)

Fault == faults < MaxFaults /\ faults' = faults + 1

\* A host command changes the engine; LightingChangedEvent follows.
LightingChanges ==
    /\ revision < MaxRevision
    /\ revision' = revision + 1
    /\ lighting_events' = lighting_events + 1
    /\ UNCHANGED <<context, context_events, central, watches, queues, peripheral,
                   bounds>>

\* An indicator or a battery level changes.
ContextChanges ==
    /\ context < MaxContext
    /\ context' = context + 1
    /\ context_events' = context_events + 1
    /\ UNCHANGED <<revision, lighting_events, central, watches, queues,
                   peripheral, bounds>>

\* The split link connects. The peripheral marks it up with the first packet.
LinkUp ==
    /\ ~ link
    /\ link' = TRUE
    /\ central_watch' = "up"
    /\ UNCHANGED <<periph_link, periph_watch, authority, central, queues,
                   peripheral, bounds>>

\* The link drops. Nothing in the queues moves until it is back.
LinkDown ==
    /\ link /\ Fault
    /\ link' = FALSE
    /\ central_watch' = "down"
    /\ periph_link' = FALSE
    /\ periph_watch' = IF periph_link THEN "down" ELSE periph_watch
    /\ UNCHANGED <<authority, central, queues, peripheral, status_requests, refusals>>

\* The peripheral resets: it boots on the compiled defaults, and the central
\* sees the link go down.
PeripheralReboots ==
    /\ Fault
    /\ link' = FALSE
    /\ central_watch' = IF link THEN "down" ELSE central_watch
    /\ periph_link' = FALSE /\ periph_watch' = "seen"
    /\ prx' = <<>> /\ ptx' = <<>>
    /\ stage' = None /\ slot' = None /\ apply_request' = None
    /\ diagnostic_request' = FALSE /\ worker' = Idle
    /\ engine' = BootDurable /\ periph_context' = BootContext
    /\ last_applied' = 0 /\ last_digests' = None
    /\ UNCHANGED <<authority, central, tx, crx, status_requests, refusals>>

\* The split driver moves a packet to the peripheral, or loses it.
DeliverToPeripheral ==
    /\ link /\ tx # <<>> /\ Len(prx) < RxCapacity
    /\ tx' = Tail(tx)
    /\ prx' = Append(prx, Head(tx))
    /\ periph_link' = TRUE
    /\ periph_watch' = IF periph_link THEN periph_watch ELSE "up"
    /\ UNCHANGED <<link, central_watch, ptx, crx, authority, central, peripheral,
                   bounds>>

LoseToPeripheral ==
    /\ tx # <<>> /\ Fault
    /\ tx' = Tail(tx)
    /\ UNCHANGED <<prx, ptx, crx, authority, central, watches, peripheral,
                   status_requests, refusals>>

\* ... and one to the central.
DeliverToCentral ==
    /\ link /\ ptx # <<>> /\ Len(crx) < RxCapacity
    /\ ptx' = Tail(ptx)
    /\ crx' = Append(crx, Head(ptx))
    /\ UNCHANGED <<tx, prx, authority, central, watches, peripheral, bounds>>

LoseToCentral ==
    /\ ptx # <<>> /\ Fault
    /\ ptx' = Tail(ptx)
    /\ UNCHANGED <<tx, prx, crx, authority, central, watches, peripheral,
                   status_requests, refusals>>

-----------------------------------------------------------------------------
(* CentralReplication::run. The task is at its select unless a transfer is *)
(* due or being prepared, and the select prefers the earlier arm.          *)

SendDue ==
    /\ link_up
    /\ awaiting_ack = None
    /\ full_dirty \/ context_dirty
    /\ retry_at = "none"

AtSelect == exported = None /\ ~ SendDue
NoLinkEdge == AtSelect /\ central_watch = "seen"
NoEvent == NoLinkEdge /\ lighting_events = 0 /\ context_events = 0

\* prepare_replica: the engine exports its state; the task is suspended until
\* it resumes in QueueTransfer.
ExportReplica ==
    /\ exported = None /\ SendDue
    /\ exported' = [revision |-> revision, context |-> context]
    /\ UNCHANGED <<link_up, full_dirty, context_dirty, transfer, health,
                   failed_attempts, recovery, retry_at, generation, authority,
                   watches, queues, peripheral, bounds>>

ExportFails ==
    /\ exported = None /\ SendDue /\ Fault
    /\ retry_at' = "set"
    /\ UNCHANGED <<link_up, full_dirty, context_dirty, transfer, health,
                   failed_attempts, recovery, generation, exported, authority,
                   watches, queues, peripheral, status_requests, refusals>>

NextGeneration == (generation + 1) % Generations

\* A context update goes out when only the context is dirty and the exported
\* engine revision is the acknowledged one, a full snapshot otherwise.
TransferKind ==
    IF ~ full_dirty /\ exported.revision = last_acked_revision
    THEN "ContextUpdate" ELSE "FullSnapshot"

TransferPackets ==
    IF TransferKind = "ContextUpdate"
    THEN <<ContextPacket("ContextUpdate", NextGeneration, exported)>>
    ELSE SnapshotPackets(NextGeneration, exported)

\* Where a transfer of generation g has left a trace. Requests and status
\* reports carry none.
InFlight(g) ==
    \/ \E m \in Range(tx) \cup Range(prx) \cup Range(ptx) \cup Range(crx) :
         /\ m.type \notin {"StatusRequest", "StatusReport", "Attestation"}
         /\ m.generation = g
    \/ stage # None /\ stage.generation = g
    \/ apply_request # None /\ apply_request.generation = g
    \/ worker.state \in {"requested", "applied"} /\ worker.request.generation = g

\* Bound of the model: the u8 counter does not come round to a generation
\* that is still in flight. The code spends a generation on every refused
\* transfer too, so this takes 256 transfers, or 12.8 s of refusals.
GenerationFresh == ~ InFlight(NextGeneration)

\* queue_prepared_snapshot and queue_prepared_context_update, and the match on
\* their result in the loop.
QueueTransfer ==
    /\ exported # None /\ GenerationFresh
    /\ exported' = None
    /\ generation' = NextGeneration
    /\ IF Fits(TransferPackets)
       THEN /\ tx' = tx \o TransferPackets
            /\ awaiting_ack' = [generation |-> NextGeneration,
                                revision |-> exported.revision,
                                kind |-> TransferKind]
            /\ expected_digests' =
                 IF TransferKind = "FullSnapshot"
                 THEN [revision |-> exported.revision, gates |-> "kept"]
                 ELSE expected_digests
            /\ full_dirty' = FALSE /\ context_dirty' = FALSE
            /\ health' = "Resynchronizing"
            /\ UNCHANGED <<retry_at, refusals>>
       ELSE /\ refusals < MaxRefusals
            /\ refusals' = refusals + 1
            /\ retry_at' = "set"
            /\ UNCHANGED <<tx, awaiting_ack, expected_digests, full_dirty,
                           context_dirty, health>>
    /\ UNCHANGED <<link_up, last_acked_revision, failed_attempts, recovery,
                   prx, ptx, crx, authority, watches, peripheral,
                   status_requests, faults>>

\* The send backoff elapses.
BackoffElapses ==
    /\ AtSelect /\ retry_at = "set"
    /\ retry_at' = "none"
    /\ UNCHANGED <<link_up, full_dirty, context_dirty, transfer, health,
                   failed_attempts, recovery, generation, exported, authority,
                   watches, queues, peripheral, bounds>>

\* A session starts with nothing acknowledged.
AckedAcrossSessions == last_acked_revision   \* mutant: not forgotten
AckedInNewSession == 0

\* The link arm.
CentralLinkChanged ==
    /\ AtSelect /\ central_watch # "seen"
    /\ central_watch' = "seen"
    /\ LET up == central_watch = "up" IN
         /\ link_up' = up
         /\ full_dirty' = up
         /\ health' = IF up THEN "Resynchronizing" ELSE "Stale"
    /\ failed_attempts' = 0 /\ awaiting_ack' = None
    /\ last_acked_revision' = AckedInNewSession /\ context_dirty' = FALSE
    /\ retry_at' = "none" /\ recovery' = NoRecovery
    /\ UNCHANGED <<expected_digests, generation, exported, link, periph_link,
                   periph_watch, authority, queues, peripheral, bounds>>

\* The LightingChangedEvent arm.
CentralLightingChanged ==
    /\ NoLinkEdge /\ lighting_events > 0
    /\ lighting_events' = lighting_events - 1
    /\ full_dirty' = TRUE
    /\ recovery' = NoRecovery
    /\ health' = IF link_up THEN "Resynchronizing" ELSE health
    /\ UNCHANGED <<revision, context, context_events, link_up, context_dirty,
                   transfer, failed_attempts, retry_at, generation, exported,
                   watches, queues, peripheral, bounds>>

\* The indicator and battery arms.
CentralContextChanged ==
    /\ NoLinkEdge /\ lighting_events = 0 /\ context_events > 0
    /\ context_events' = context_events - 1
    /\ context_dirty' = TRUE
    /\ UNCHANGED <<revision, context, lighting_events, link_up, full_dirty,
                   transfer, health, failed_attempts, recovery, retry_at,
                   generation, exported, watches, queues, peripheral, bounds>>

\* The acknowledgement of the transfer the central waits for.
AckMatches(m) ==
    /\ m.type = "Ack"
    /\ awaiting_ack # None
    /\ awaiting_ack.generation = m.generation
    /\ awaiting_ack.revision = m.revision

\* The receive arm: a matching Ack ends the transfer, an Attestation is judged
\* against the expected digests, anything else changes no replication state.
CentralReceives ==
    /\ NoEvent /\ crx # <<>>
    /\ crx' = Tail(crx)
    /\ LET m == Head(crx) IN
         \/ /\ AckMatches(m)
            /\ awaiting_ack' = None
            /\ IF awaiting_ack.kind = "FullSnapshot"
               THEN /\ last_acked_revision' = m.revision
                    /\ recovery' = SnapshotAcked(recovery, m.revision)
               ELSE UNCHANGED <<last_acked_revision, recovery>>
            /\ failed_attempts' = 0
            /\ health' = "Healthy"
         \/ /\ m.type = "Attestation"
            /\ health' = ObservedHealth(expected_digests, m.digests)
            /\ recovery' = ObservedRecovery(recovery, expected_digests, m.digests)
            /\ UNCHANGED <<awaiting_ack, last_acked_revision, failed_attempts>>
         \/ /\ ~ AckMatches(m) /\ m.type # "Attestation"
            /\ UNCHANGED <<awaiting_ack, last_acked_revision, failed_attempts,
                           health, recovery>>
    /\ UNCHANGED <<expected_digests, link_up, full_dirty, context_dirty, retry_at,
                   generation, exported, tx, prx, ptx, authority, watches,
                   peripheral, bounds>>

\* The status arm: the host asked for a fresh status report.
CentralStatusRefresh ==
    /\ NoEvent /\ crx = <<>>
    /\ status_requests < MaxStatus
    /\ status_requests' = status_requests + 1
    /\ tx' = IF link_up /\ Len(tx) < TxCapacity
             THEN Append(tx, [type |-> "StatusRequest"]) ELSE tx
    /\ UNCHANGED <<prx, ptx, crx, authority, central, watches, peripheral, refusals,
                   faults>>

\* Nothing is left in the queues or with the worker that carries an Ack or
\* would produce one. The deadline is long against what the driver, the
\* peripheral and its engine need.
TransferDead ==
    /\ \A m \in Range(tx) \cup Range(prx) : m.type \notin {"Commit", "ContextUpdate"}
    /\ \A m \in Range(ptx) \cup Range(crx) : m.type # "Ack"
    /\ apply_request = None /\ worker = Idle

\* A lost transfer of either kind is made up for by a full snapshot.
ResendSnapshotsOnly ==   \* mutant: a lost context update is not resent
    link_up /\ awaiting_ack.kind = "FullSnapshot"
ResendAfterTimeout == link_up

\* The ack deadline passes: after the transfer was lost, or (a fault) while
\* its Ack is still on the way or the peripheral is slow.
AckTimesOut ==
    /\ NoEvent /\ crx = <<>> /\ awaiting_ack # None
    /\ IF TransferDead THEN UNCHANGED faults ELSE Fault
    /\ awaiting_ack' = None
    /\ full_dirty' = ResendAfterTimeout
    /\ failed_attempts' = IF failed_attempts < RESYNC_FAST_ATTEMPTS
                          THEN failed_attempts + 1 ELSE failed_attempts
    /\ IF failed_attempts' >= RESYNC_FAST_ATTEMPTS
       THEN retry_at' = "set" /\ health' = "Stale"
       ELSE health' = "Resynchronizing" /\ UNCHANGED retry_at
    /\ UNCHANGED <<link_up, context_dirty, last_acked_revision, expected_digests,
                   recovery, generation, exported, authority, watches, queues,
                   peripheral, status_requests, refusals>>

-----------------------------------------------------------------------------
(* PeripheralReplication::run.                                             *)

\* The link arm: the stage is dropped, and the inbox drained on a down edge.
PeripheralLinkChanged ==
    /\ periph_watch # "seen"
    /\ periph_watch' = "seen"
    /\ stage' = None
    /\ prx' = IF periph_watch = "down" THEN <<>> ELSE prx
    /\ UNCHANGED <<link, periph_link, central_watch, tx, ptx, crx, slot,
                   apply_request, diagnostic_request, worker, engine,
                   periph_context, last_applied, last_digests, authority,
                   central, bounds>>

\* process() has taken the first packet of the inbox.
Takes(m) ==
    /\ periph_watch = "seen"
    /\ prx # <<>> /\ m = Head(prx)
    /\ prx' = Tail(prx)
    /\ UNCHANGED <<tx, crx, watches, authority, central, bounds>>

\* A status request is handed to the worker, or dropped when one is pending.
ProcessStatusRequest(m) ==
    /\ Takes(m) /\ m.type = "StatusRequest"
    /\ diagnostic_request' = TRUE
    /\ UNCHANGED <<ptx, stage, slot, apply_request, worker, engine,
                   periph_context, last_applied, last_digests>>

\* A context update is guarded by the applied revision and acknowledged at
\* once; another is ignored.
ProcessContextUpdate(m) ==
    /\ Takes(m) /\ m.type = "ContextUpdate"
    /\ IF last_applied = m.revision
       THEN /\ periph_context' = [revision |-> m.revision, context |-> m.context]
            /\ ptx' = TrySend(ptx, Ack(m.generation, m.revision))
       ELSE UNCHANGED <<periph_context, ptx>>
    /\ UNCHANGED <<stage, slot, apply_request, diagnostic_request, worker, engine,
                   last_applied, last_digests>>

StageMatches(m) ==
    /\ stage # None
    /\ stage.generation = m.generation /\ stage.revision = m.revision

ProcessBegin(m) ==
    /\ Takes(m) /\ m.type = "Begin"
    /\ stage' = [generation |-> m.generation, revision |-> m.revision,
                 context |-> 0, received |-> {}]
    /\ UNCHANGED <<ptx, slot, apply_request, diagnostic_request, worker, engine,
                   periph_context, last_applied, last_digests>>

ProcessPart(m) ==
    /\ Takes(m) /\ m.type \in {"Body", "Gate"}
    /\ stage' = IF ~ StageMatches(m) THEN None
                ELSE [stage EXCEPT
                        !.received = @ \cup {m.type},
                        !.context = IF m.type = "Body" THEN m.context ELSE @]
    /\ UNCHANGED <<ptx, slot, apply_request, diagnostic_request, worker, engine,
                   periph_context, last_applied, last_digests>>

\* What a valid Commit hands out.
StagedDurable ==
    [revision |-> stage.revision,
     gates |-> IF Gated => "Gate" \in stage.received THEN "kept" ELSE "lost"]

\* REPLICA_SLOT holds one snapshot; put fails while it is taken.
SlotOverwritten == TRUE   \* mutant: put replaces what is in the slot
SlotFree == slot = None

\* Commit finds the open stage complete.
StageOpen(m) == StageMatches(m)   \* mutant: completeness is not checked
StageComplete(m) == StageMatches(m) /\ "Body" \in stage.received

\* A Commit that completes the stage sets the context at once and hands the
\* durable state to the engine through the slot, if the slot is free.
ProcessCommit(m) ==
    /\ Takes(m) /\ m.type = "Commit"
    /\ stage' = None
    /\ IF StageComplete(m)
       THEN /\ periph_context' = [revision |-> stage.revision,
                                  context |-> stage.context]
            /\ IF SlotFree
               THEN /\ slot' = StagedDurable
                    /\ apply_request' = [generation |-> m.generation,
                                         digests |-> StagedDurable]
               ELSE UNCHANGED <<slot, apply_request>>
       ELSE UNCHANGED <<periph_context, slot, apply_request>>
    /\ UNCHANGED <<ptx, diagnostic_request, worker, engine, last_applied,
                   last_digests>>

Process(m) ==
    \/ ProcessStatusRequest(m)
    \/ ProcessContextUpdate(m)
    \/ ProcessBegin(m)
    \/ ProcessPart(m)
    \/ ProcessCommit(m)

\* The heartbeat arm: attest the digests over an idle queue.
Heartbeat ==
    /\ periph_watch = "seen" /\ prx = <<>>
    /\ periph_link /\ last_digests # None /\ ptx = <<>>
    /\ ptx' = TrySendDiagnostic(ptx, Attestation(last_digests))
    /\ UNCHANGED <<tx, prx, crx, authority, central, watches, peripheral, bounds>>

-----------------------------------------------------------------------------
(* PeripheralLightingWorker::run and the peripheral's engine.              *)

\* The worker consumes the apply signal and asks the engine to take the slot.
WorkerTakesRequest ==
    /\ worker = Idle /\ apply_request # None
    /\ worker' = [state |-> "requested", request |-> apply_request]
    /\ apply_request' = None
    /\ UNCHANGED <<stage, slot, diagnostic_request, engine, periph_context,
                   last_applied, last_digests, authority, central, watches,
                   queues, bounds>>

\* The engine serves ApplyReplica: it takes the slot and applies or rejects.
EngineApplies ==
    /\ worker.state = "requested" /\ slot # None
    /\ engine' = slot /\ slot' = None
    /\ worker' = [worker EXCEPT !.state = "applied"]
    /\ UNCHANGED <<stage, apply_request, diagnostic_request, periph_context,
                   last_applied, last_digests, authority, central, watches,
                   queues, bounds>>

EngineRejects ==
    /\ worker.state = "requested" /\ Fault
    /\ slot' = None
    /\ worker' = Idle
    /\ UNCHANGED <<stage, apply_request, diagnostic_request, engine,
                   periph_context, last_applied, last_digests, authority,
                   central, watches, queues, status_requests, refusals>>

\* The engine's reply: record what was applied, acknowledge it, and attest it
\* behind the Ack unless the Ack found no room.
WorkerAcknowledges ==
    /\ worker.state = "applied"
    /\ LET d == worker.request.digests
           acked == TrySend(ptx, Ack(worker.request.generation, d.revision)) IN
         /\ last_applied' = d.revision
         /\ last_digests' = d
         /\ ptx' = IF acked = ptx THEN ptx ELSE TrySend(acked, Attestation(d))
    /\ worker' = Idle
    /\ UNCHANGED <<tx, prx, crx, stage, slot, apply_request, diagnostic_request,
                   engine, periph_context, authority, central, watches, bounds>>

\* With no apply signal pending the worker serves a status request.
WorkerTakesDiagnostic ==
    /\ worker = Idle /\ apply_request = None /\ diagnostic_request
    /\ worker' = [state |-> "diagnostic"]
    /\ diagnostic_request' = FALSE
    /\ UNCHANGED <<stage, slot, apply_request, engine, periph_context,
                   last_applied, last_digests, authority, central, watches,
                   queues, bounds>>

WorkerReports ==
    /\ worker.state = "diagnostic"
    /\ worker' = Idle
    /\ ptx' = TrySendDiagnostic(ptx, [type |-> "StatusReport"])
    /\ UNCHANGED <<tx, prx, crx, stage, slot, apply_request, diagnostic_request,
                   engine, periph_context, last_applied, last_digests, authority,
                   central, watches, bounds>>

-----------------------------------------------------------------------------
CentralStep ==
    \/ ExportReplica \/ QueueTransfer
    \/ CentralLinkChanged \/ CentralLightingChanged \/ CentralContextChanged
    \/ CentralReceives

PeripheralStep ==
    \/ PeripheralLinkChanged
    \/ \E m \in Range(prx) : Process(m)

WorkerStep ==
    \/ WorkerTakesRequest \/ EngineApplies \/ WorkerAcknowledges
    \/ WorkerTakesDiagnostic \/ WorkerReports

Next ==
    \/ LightingChanges \/ ContextChanges \/ LinkUp \/ LinkDown
    \/ PeripheralReboots
    \/ DeliverToPeripheral \/ LoseToPeripheral
    \/ DeliverToCentral \/ LoseToCentral
    \/ CentralStep \/ ExportFails \/ CentralStatusRefresh
    \/ BackoffElapses \/ AckTimesOut
    \/ PeripheralStep \/ Heartbeat
    \/ WorkerStep \/ EngineRejects

Spec == Init /\ [][Next]_vars

\* The tasks are polled, the link reconnects and the driver moves what is
\* queued. The ack timer shares its select with the inbox and comes last; it
\* is strongly fair because nothing keeps the inbox busy for long: heartbeats
\* are 300 s apart, the deadline is 500 ms.
Fairness ==
    /\ WF_vars(CentralStep) /\ WF_vars(BackoffElapses)
    /\ SF_vars(AckTimesOut /\ TransferDead)
    /\ WF_vars(PeripheralStep) /\ WF_vars(WorkerStep)
    /\ WF_vars(LinkUp)
    /\ WF_vars(DeliverToPeripheral) /\ WF_vars(DeliverToCentral)

FairSpec == Spec /\ Fairness

-----------------------------------------------------------------------------
AuthorityOK ==
    /\ revision \in Revisions \ {0} /\ context \in Contexts \ {0}
    /\ lighting_events \in Nat /\ context_events \in Nat

CentralOK ==
    /\ link_up \in BOOLEAN /\ full_dirty \in BOOLEAN /\ context_dirty \in BOOLEAN
    /\ health \in ReplicationHealth
    /\ failed_attempts \in 0 .. RESYNC_FAST_ATTEMPTS
    /\ recovery \in Recoveries
    /\ retry_at \in {"none", "set"}
    /\ generation \in GenerationSet
    /\ exported \in TaggedContexts \cup {None}

TransferOK ==
    /\ awaiting_ack \in PendingAcks \cup {None}
    /\ last_acked_revision \in Revisions
    /\ expected_digests \in Durables \cup {None}

LinkOK ==
    /\ link \in BOOLEAN /\ periph_link \in BOOLEAN
    /\ central_watch \in {"seen", "up", "down"}
    /\ periph_watch \in {"seen", "up", "down"}

QueuesOK ==
    /\ tx \in Seq(Message) /\ Len(tx) <= TxCapacity
    /\ prx \in Seq(Message) /\ Len(prx) <= RxCapacity
    /\ ptx \in Seq(Message) /\ Len(ptx) <= PeriphTxCapacity
    /\ crx \in Seq(Message) /\ Len(crx) <= RxCapacity

PeripheralOK ==
    /\ stage \in Stages \cup {None}
    /\ slot \in Durables \cup {None}
    /\ apply_request \in ApplyRequests \cup {None}
    /\ diagnostic_request \in BOOLEAN
    /\ worker \in Workers
    /\ engine \in Durables
    /\ periph_context \in TaggedContexts
    /\ last_applied \in Revisions
    /\ last_digests \in Durables \cup {None}

BoundsOK ==
    /\ status_requests \in 0 .. MaxStatus
    /\ refusals \in 0 .. MaxRefusals /\ faults \in 0 .. MaxFaults

\* Every variable has its type and every queue is within its capacity: a
\* transfer never overruns SPLIT_APP_TX and a reply never SPLIT_APP_PERIPH_TX.
TypeOK ==
    /\ AuthorityOK /\ CentralOK /\ TransferOK /\ LinkOK /\ QueuesOK
    /\ PeripheralOK /\ BoundsOK

\* The request a worker serves is the one for the snapshot in the slot: the
\* latest-wins signal and the one-place slot never get out of step, so the
\* revision and digests that are acknowledged and attested are those of the
\* snapshot the engine applied.
RequestMatchesSlot ==
    /\ slot # None <=> apply_request # None \/ worker.state = "requested"
    /\ apply_request # None =>
         worker.state # "requested" /\ slot = apply_request.digests
    /\ worker.state = "requested" => slot = worker.request.digests
    /\ worker.state = "applied" => engine = worker.request.digests

\* While the central has no link edge to handle, the revision it believes
\* acknowledged was applied by the peripheral in this session, and nothing
\* older came after it. (A context update relies on it.)
AckedRevisionIsApplied ==
    last_acked_revision # 0 /\ central_watch = "seen" =>
        engine.revision >= last_acked_revision

\* The central is at rest: the link is up, no edge or event waits for it, and
\* it has nothing dirty or outstanding.
CentralAtRest ==
    /\ NoEvent /\ link_up
    /\ ~ full_dirty /\ ~ context_dirty /\ awaiting_ack = None

\* Whenever the central is at rest the peripheral shows the central's engine
\* state and context: no interleaving of changes, exports, late or lost
\* acknowledgements, timeouts and link edges drops an update for good.
RestMeansReplicated ==
    CentralAtRest =>
        /\ engine = [revision |-> revision, gates |-> "kept"]
        /\ periph_context = [revision |-> revision, context |-> context]

\* Until it reboots, the peripheral shows what the central had before and
\* never goes back to an older engine state or an older context, although
\* packets of earlier transfers may still be in the queues when a new session
\* starts: replication implements ReplicaAbstract.
Replica == INSTANCE ReplicaAbstract WITH
    authority <- [revision |-> revision, context |-> context],
    replica <- [revision |-> engine.revision, context |-> periph_context.context]
ReplicaOnlyAdvances == Replica!Spec

\* Once changes and faults have stopped, the two halves end up with the same
\* engine state and context and stay so.
Replicated ==
    /\ engine = [revision |-> revision, gates |-> "kept"]
    /\ periph_context = [revision |-> revision, context |-> context]
EventuallyReplicated == <>[]Replicated

\* AttestationRecovery's documentation: "The first mismatch schedules one full
\* snapshot." A mismatch the central has counted is followed by a transfer.
MismatchSchedulesSnapshot ==
    recovery.mismatch_count = 1 ~>
        awaiting_ack # None \/ recovery.mismatch_count # 1

\* split_lighting.rs: "The peripheral applies a complete staged snapshot
\* atomically." When the engine has just applied a snapshot and no newer one
\* waits in the slot, the context being rendered is that snapshot's.
AppliedAtomically ==
    worker.state = "applied" /\ slot = None =>
        periph_context.revision = engine.revision

=============================================================================
