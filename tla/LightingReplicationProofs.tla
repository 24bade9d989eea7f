---------------------- MODULE LightingReplicationProofs ----------------------
(***************************************************************************)
(* Proofs about LightingReplication, for every value of the constants: its *)
(* types, the agreement of the peripheral's apply signal with its replica  *)
(* slot, the order of what is on its way to the peripheral, and that what  *)
(* the central believes of the peripheral is so.                           *)
(***************************************************************************)
EXTENDS LightingReplication, TLAPS

USE ReplicationConstants

-----------------------------------------------------------------------------
(* Packets.                                                                *)

\* The packets of a transfer are messages.
LEMMA PacketTypes ==
    ASSUME NEW g \in GenerationSet, NEW x \in TaggedContexts
    PROVE  /\ \A t \in {"Begin", "Gate", "Commit", "Ack"} :
                Packet(t, g, x.revision) \in Message
           /\ \A t \in {"Body", "ContextUpdate"} : ContextPacket(t, g, x) \in Message
BY DEF Packet, ContextPacket, Message, TaggedContexts

\* A snapshot is a sequence of messages.
LEMMA SnapshotPacketsType ==
    ASSUME NEW g \in GenerationSet, NEW x \in TaggedContexts
    PROVE  SnapshotPackets(g, x) \in Seq(Message)
<1>1. /\ Packet("Begin", g, x.revision) \in Message
      /\ Packet("Gate", g, x.revision) \in Message
      /\ Packet("Commit", g, x.revision) \in Message
      /\ ContextPacket("Body", g, x) \in Message
  BY PacketTypes
<1> HIDE DEF Packet, ContextPacket, Message
<1>2. <<Packet("Begin", g, x.revision), ContextPacket("Body", g, x)>> \in Seq(Message)
  BY <1>1
<1>3. <<Packet("Gate", g, x.revision)>> \in Seq(Message)
  BY <1>1
<1>4. <<Packet("Commit", g, x.revision)>> \in Seq(Message)
  BY <1>1
<1> QED
  BY <1>2, <1>3, <1>4 DEF SnapshotPackets

\* The next generation is a generation.
LEMMA GenerationType ==
    ASSUME CentralOK PROVE NextGeneration \in GenerationSet
BY DEF CentralOK, NextGeneration, GenerationSet

\* None is not taken for a context, a pending Ack, a durable state or a stage.
LEMMA NoneIsNot ==
    /\ None \notin TaggedContexts /\ None \notin PendingAcks
    /\ None \notin Durables /\ None \notin Stages
BY DEF None, TaggedContexts, PendingAcks, Durables, Stages, Revisions

\* ... nor for an apply request.
LEMMA NoneIsNoRequest == None \notin ApplyRequests
BY DEF None, ApplyRequests

\* try_send keeps a queue within its capacity.
LEMMA AppendFits ==
    ASSUME NEW q \in Seq(Message), NEW m \in Message, Len(q) <= PeriphTxCapacity
    PROVE  /\ TrySend(q, m) \in Seq(Message)
           /\ Len(TrySend(q, m)) <= PeriphTxCapacity
           /\ TrySendDiagnostic(q, m) \in Seq(Message)
           /\ Len(TrySendDiagnostic(q, m)) <= PeriphTxCapacity
BY DEF TrySend, TrySendDiagnostic

\* Two sequences of messages in a row are one, as long as both.
LEMMA ConcatType ==
    ASSUME NEW p \in Seq(Message), NEW q \in Seq(Message)
    PROVE  p \o q \in Seq(Message) /\ Len(p \o q) = Len(p) + Len(q)
OBVIOUS

\* Taking a message leaves a shorter sequence of messages.
LEMMA TailFits ==
    ASSUME NEW q \in Seq(Message), q # <<>>
    PROVE  Head(q) \in Message /\ Tail(q) \in Seq(Message) /\ Len(Tail(q)) = Len(q) - 1
OBVIOUS

-----------------------------------------------------------------------------
(* The type invariant.                                                     *)

\* What everything holds at boot has its type.
LEMMA InitialValues ==
    /\ BootDurable \in Durables /\ BootContext \in TaggedContexts
    /\ Idle \in Workers /\ NoRecovery \in Recoveries
    /\ 0 \in Revisions /\ 0 \in GenerationSet
BY DEF BootDurable, Durables, Gates, BootContext, TaggedContexts, Revisions,
       Contexts, Idle, Workers, NoRecovery, Recoveries, GenerationSet

\* The types hold at boot.
LEMMA InitTypes == Init => TypeOK
<1> SUFFICES ASSUME Init PROVE TypeOK
  OBVIOUS
<1>1. AuthorityOK
  BY DEF Init, AuthorityOK, Revisions, Contexts
<1>2. CentralOK
  <2>1. failed_attempts \in 0 .. RESYNC_FAST_ATTEMPTS
    BY DEF Init
  <2> QED
    BY <2>1, InitialValues DEF Init, CentralOK, ReplicationHealth
<1>3. TransferOK
  BY InitialValues DEF Init, TransferOK
<1>4. LinkOK
  BY DEF Init, LinkOK
<1>5. QueuesOK
  BY DEF Init, QueuesOK
<1>6. PeripheralOK
  BY InitialValues DEF Init, PeripheralOK
<1>7. BoundsOK
  BY DEF Init, BoundsOK
<1> QED
  BY <1>1, <1>2, <1>3, <1>4, <1>5, <1>6, <1>7 DEF TypeOK

\* The groups a step leaves alone keep their types.
LEMMA UnchangedTypes ==
    /\ AuthorityOK /\ UNCHANGED authority => AuthorityOK'
    /\ CentralOK /\ UNCHANGED central => CentralOK'
    /\ TransferOK /\ UNCHANGED transfer => TransferOK'
    /\ LinkOK /\ UNCHANGED watches => LinkOK'
    /\ QueuesOK /\ UNCHANGED queues => QueuesOK'
    /\ PeripheralOK /\ UNCHANGED peripheral => PeripheralOK'
    /\ BoundsOK /\ UNCHANGED bounds => BoundsOK'
    /\ UNCHANGED central => UNCHANGED transfer
BY DEF AuthorityOK, CentralOK, TransferOK, LinkOK, QueuesOK, PeripheralOK, BoundsOK,
       authority, central, transfer, watches, queues, peripheral, bounds

\* A fault is counted within its bounds.
LEMMA FaultTypes ==
    BoundsOK /\ Fault /\ UNCHANGED <<status_requests, refusals>> => BoundsOK'
BY DEF BoundsOK, Fault

\* Changes of lighting, context and link, reboots, deliveries and losses keep the types.
LEMMA EnvironmentTypes ==
    ASSUME TypeOK,
           \/ LightingChanges \/ ContextChanges \/ LinkUp \/ LinkDown
           \/ PeripheralReboots \/ DeliverToPeripheral \/ LoseToPeripheral
           \/ DeliverToCentral \/ LoseToCentral
    PROVE  TypeOK'
<1> USE DEF TypeOK
<1>1. CASE LightingChanges
  <2>1. AuthorityOK'
    BY <1>1 DEF LightingChanges, AuthorityOK, Revisions, Contexts
  <2> QED
    BY <1>1, <2>1, UnchangedTypes DEF LightingChanges
<1>2. CASE ContextChanges
  <2>1. AuthorityOK'
    BY <1>2 DEF ContextChanges, AuthorityOK, Revisions, Contexts
  <2> QED
    BY <1>2, <2>1, UnchangedTypes DEF ContextChanges
<1>3. CASE LinkUp
  <2>1. LinkOK'
    BY <1>3 DEF LinkUp, LinkOK
  <2> QED
    BY <1>3, <2>1, UnchangedTypes DEF LinkUp
<1>4. CASE LinkDown
  <2>1. LinkOK'
    BY <1>4 DEF LinkDown, LinkOK
  <2> QED
    BY <1>4, <2>1, UnchangedTypes, FaultTypes DEF LinkDown
<1>5. CASE PeripheralReboots
  <2>1. LinkOK'
    BY <1>5 DEF PeripheralReboots, LinkOK
  <2>2. QueuesOK'
    BY <1>5 DEF PeripheralReboots, QueuesOK
  <2>3. PeripheralOK'
    BY <1>5, InitialValues DEF PeripheralReboots, PeripheralOK
  <2> QED
    BY <1>5, <2>1, <2>2, <2>3, UnchangedTypes, FaultTypes DEF PeripheralReboots
<1>6. CASE DeliverToPeripheral
  <2>1. LinkOK'
    BY <1>6 DEF DeliverToPeripheral, LinkOK
  <2>2. QueuesOK'
    BY <1>6, TailFits DEF DeliverToPeripheral, QueuesOK
  <2> QED
    BY <1>6, <2>1, <2>2, UnchangedTypes DEF DeliverToPeripheral
<1>7. CASE LoseToPeripheral
  <2>1. QueuesOK'
    BY <1>7, TailFits DEF LoseToPeripheral, QueuesOK
  <2> QED
    BY <1>7, <2>1, UnchangedTypes, FaultTypes DEF LoseToPeripheral
<1>8. CASE DeliverToCentral
  <2>1. QueuesOK'
    BY <1>8, TailFits DEF DeliverToCentral, QueuesOK
  <2> QED
    BY <1>8, <2>1, UnchangedTypes DEF DeliverToCentral
<1>9. CASE LoseToCentral
  <2>1. QueuesOK'
    BY <1>9, TailFits DEF LoseToCentral, QueuesOK
  <2> QED
    BY <1>9, <2>1, UnchangedTypes, FaultTypes DEF LoseToCentral
<1> QED
  BY <1>1, <1>2, <1>3, <1>4, <1>5, <1>6, <1>7, <1>8, <1>9

\* Queueing a transfer keeps the types.
LEMMA QueueTransferTypes == TypeOK /\ QueueTransfer => TypeOK'
<1> SUFFICES ASSUME TypeOK, QueueTransfer PROVE TypeOK'
  OBVIOUS
<1> USE DEF TypeOK
<1>1. NextGeneration \in GenerationSet
  BY GenerationType
<1>2. exported \in TaggedContexts
  BY DEF QueueTransfer, CentralOK
<1>3. exported.revision \in Revisions
  BY <1>2 DEF TaggedContexts
<1>4. TransferPackets \in Seq(Message)
  <2>1. ContextPacket("ContextUpdate", NextGeneration, exported) \in Message
    BY <1>1, <1>2, PacketTypes
  <2>2. SnapshotPackets(NextGeneration, exported) \in Seq(Message)
    BY <1>1, <1>2, SnapshotPacketsType
  <2> QED
    BY <2>1, <2>2 DEF TransferPackets
<1>5. QueuesOK'
  <2>1. Fits(TransferPackets) =>
          /\ tx \o TransferPackets \in Seq(Message)
          /\ Len(tx \o TransferPackets) <= TxCapacity
    BY <1>4, ConcatType DEF QueuesOK, Fits
  <2> QED
    BY <2>1 DEF QueueTransfer, QueuesOK
<1>6. TransferOK'
  <2>1. TransferKind \in {"FullSnapshot", "ContextUpdate"}
    BY DEF TransferKind
  <2>2. [generation |-> NextGeneration, revision |-> exported.revision,
         kind |-> TransferKind] \in PendingAcks
    BY <1>1, <1>3, <2>1 DEF PendingAcks
  <2>3. [revision |-> exported.revision, gates |-> "kept"] \in Durables
    BY <1>3 DEF Durables, Gates
  <2> QED
    BY <2>2, <2>3 DEF QueueTransfer, TransferOK
<1>7. CentralOK'
  BY <1>1 DEF QueueTransfer, CentralOK, ReplicationHealth
<1>8. BoundsOK'
  BY DEF QueueTransfer, BoundsOK
<1> QED
  BY <1>5, <1>6, <1>7, <1>8, UnchangedTypes DEF QueueTransfer

\* What an Ack makes of the recovery is a recovery.
LEMMA SnapshotAckedType ==
    ASSUME NEW rec \in Recoveries, NEW r \in Revisions
    PROVE  SnapshotAcked(rec, r) \in Recoveries
BY DEF SnapshotAcked, Recoveries

\* ... and so is what an attestation makes of it.
LEMMA ObservedTypes ==
    ASSUME NEW rec \in Recoveries, NEW d \in Durables, NEW e
    PROVE  /\ ObservedHealth(e, d) \in ReplicationHealth
           /\ ObservedRecovery(rec, e, d) \in Recoveries
<1>1. ObservedHealth(e, d) \in ReplicationHealth
  BY DEF ObservedHealth, ReplicationHealth
<1>2. d.revision \in Revisions
  BY DEF Durables
<1>3. [target_revision |-> d.revision, mismatch_count |-> 1,
       awaiting_post_resync |-> FALSE] \in Recoveries
  BY <1>2 DEF Recoveries
<1>4. [rec EXCEPT !.awaiting_post_resync = FALSE,
                  !.mismatch_count = IF @ < 255 THEN @ + 1 ELSE 255] \in Recoveries
  <2> DEFINE n == IF rec.mismatch_count < 255 THEN rec.mismatch_count + 1 ELSE 255
  <2>1. n \in 0 .. 255
    BY DEF Recoveries
  <2> HIDE DEF n
  <2>2. [rec EXCEPT !.awaiting_post_resync = FALSE, !.mismatch_count = n] \in Recoveries
    BY <2>1 DEF Recoveries
  <2> QED
    BY <2>2 DEF n
<1> QED
  BY <1>1, <1>3, <1>4, InitialValues DEF ObservedRecovery

\* The central's receive arm keeps the types.
LEMMA CentralReceivesTypes == TypeOK /\ CentralReceives => TypeOK'
<1> SUFFICES ASSUME TypeOK, CentralReceives PROVE TypeOK'
  OBVIOUS
<1> USE DEF TypeOK
<1> DEFINE m == Head(crx)
<1>1. m \in Message
  BY TailFits DEF CentralReceives, QueuesOK
<1>2. QueuesOK'
  BY TailFits DEF CentralReceives, QueuesOK
<1>3. m.type = "Ack" => m.revision \in Revisions
  BY <1>1 DEF Message
<1>4. m.type = "Attestation" => m.digests \in Durables
  BY <1>1 DEF Message
<1>5. TransferOK'
  BY <1>3 DEF CentralReceives, TransferOK, AckMatches
<1>6. recovery' \in Recoveries
  BY <1>3, <1>4, SnapshotAckedType, ObservedTypes
     DEF CentralReceives, CentralOK, AckMatches
<1>7. health' \in ReplicationHealth
  BY <1>4, ObservedTypes DEF CentralReceives, CentralOK, ReplicationHealth
<1>8. failed_attempts' \in 0 .. RESYNC_FAST_ATTEMPTS
  BY DEF CentralReceives, CentralOK
<1>9. CentralOK'
  BY <1>6, <1>7, <1>8 DEF CentralReceives, CentralOK
<1> QED
  BY <1>2, <1>5, <1>9, UnchangedTypes DEF CentralReceives

\* Every step of the central keeps the types.
LEMMA CentralTypes ==
    ASSUME TypeOK,
           \/ ExportReplica \/ ExportFails \/ BackoffElapses \/ CentralLinkChanged
           \/ CentralLightingChanged \/ CentralContextChanged
           \/ CentralStatusRefresh \/ AckTimesOut
    PROVE  TypeOK'
<1> USE DEF TypeOK
<1>1. CASE ExportReplica
  <2>1. exported' \in TaggedContexts
    BY <1>1 DEF ExportReplica, AuthorityOK, TaggedContexts
  <2>2. CentralOK'
    BY <1>1, <2>1 DEF ExportReplica, CentralOK
  <2> QED
    BY <1>1, <2>2, UnchangedTypes DEF ExportReplica
<1>2. CASE ExportFails
  <2>1. CentralOK'
    BY <1>2 DEF ExportFails, CentralOK
  <2> QED
    BY <1>2, <2>1, UnchangedTypes, FaultTypes DEF ExportFails
<1>3. CASE BackoffElapses
  <2>1. CentralOK'
    BY <1>3 DEF BackoffElapses, CentralOK
  <2> QED
    BY <1>3, <2>1, UnchangedTypes DEF BackoffElapses
<1>4. CASE CentralLinkChanged
  <2>1. failed_attempts' \in 0 .. RESYNC_FAST_ATTEMPTS
    BY <1>4 DEF CentralLinkChanged
  <2>2. health' \in ReplicationHealth
    BY <1>4 DEF CentralLinkChanged, ReplicationHealth
  <2>3. /\ link_up' \in BOOLEAN /\ full_dirty' \in BOOLEAN
        /\ context_dirty' \in BOOLEAN
    BY <1>4 DEF CentralLinkChanged
  <2>4. CentralOK'
    BY <1>4, <2>1, <2>2, <2>3, InitialValues DEF CentralLinkChanged, CentralOK
  <2>5. TransferOK'
    BY <1>4, InitialValues DEF CentralLinkChanged, TransferOK, AckedInNewSession
  <2>6. LinkOK'
    BY <1>4 DEF CentralLinkChanged, LinkOK
  <2> QED
    BY <1>4, <2>4, <2>5, <2>6, UnchangedTypes DEF CentralLinkChanged
<1>5. CASE CentralLightingChanged
  <2>1. AuthorityOK'
    BY <1>5 DEF CentralLightingChanged, AuthorityOK
  <2>2. CentralOK'
    BY <1>5, InitialValues DEF CentralLightingChanged, CentralOK, ReplicationHealth
  <2> QED
    BY <1>5, <2>1, <2>2, UnchangedTypes DEF CentralLightingChanged
<1>6. CASE CentralContextChanged
  <2>1. AuthorityOK'
    BY <1>6 DEF CentralContextChanged, AuthorityOK
  <2>2. CentralOK'
    BY <1>6 DEF CentralContextChanged, CentralOK
  <2> QED
    BY <1>6, <2>1, <2>2, UnchangedTypes DEF CentralContextChanged
<1>7. CASE CentralStatusRefresh
  <2>1. [type |-> "StatusRequest"] \in Message
    BY DEF Message
  <2>2. QueuesOK'
    BY <1>7, <2>1 DEF CentralStatusRefresh, QueuesOK
  <2>3. BoundsOK'
    BY <1>7 DEF CentralStatusRefresh, BoundsOK
  <2> QED
    BY <1>7, <2>2, <2>3, UnchangedTypes DEF CentralStatusRefresh
<1>8. CASE AckTimesOut
  <2>1. failed_attempts' \in 0 .. RESYNC_FAST_ATTEMPTS
    BY <1>8 DEF AckTimesOut, CentralOK
  <2>2. retry_at' \in {"none", "set"} /\ health' \in ReplicationHealth
    BY <1>8 DEF AckTimesOut, CentralOK, ReplicationHealth
  <2>3. CentralOK'
    BY <1>8, <2>1, <2>2 DEF AckTimesOut, ResendAfterTimeout, CentralOK
  <2>4. TransferOK'
    BY <1>8 DEF AckTimesOut, TransferOK
  <2>5. BoundsOK'
    BY <1>8 DEF AckTimesOut, BoundsOK, Fault
  <2> QED
    BY <1>8, <2>3, <2>4, <2>5, UnchangedTypes DEF AckTimesOut
<1> QED
  BY <1>1, <1>2, <1>3, <1>4, <1>5, <1>6, <1>7, <1>8

\* Taking a packet keeps the types.
LEMMA TakesTypes ==
    ASSUME TypeOK, NEW m, Takes(m)
    PROVE  /\ m \in Message
           /\ prx' \in Seq(Message) /\ Len(prx') <= RxCapacity
           /\ AuthorityOK' /\ CentralOK' /\ TransferOK' /\ LinkOK' /\ BoundsOK'
<1>1. m \in Message /\ prx' \in Seq(Message) /\ Len(prx') <= RxCapacity
  BY TailFits DEF TypeOK, QueuesOK, Takes
<1> QED
  BY <1>1, UnchangedTypes DEF TypeOK, Takes

\* What a stage commits is a durable state.
LEMMA StagedDurableType ==
    ASSUME stage \in Stages PROVE StagedDurable \in Durables
BY DEF StagedDurable, Durables, Gates, Stages

\* What the peripheral does with a packet keeps the types.
LEMMA ProcessTypes ==
    ASSUME TypeOK, NEW m, Process(m)
    PROVE  TypeOK'
<1> USE DEF TypeOK
<1>1. CASE ProcessStatusRequest(m)
  <2>1. QueuesOK'
    BY <1>1, TakesTypes DEF ProcessStatusRequest, QueuesOK, Takes
  <2>2. PeripheralOK'
    BY <1>1 DEF ProcessStatusRequest, PeripheralOK
  <2> QED
    BY <1>1, <2>1, <2>2, TakesTypes DEF ProcessStatusRequest
<1>2. CASE ProcessContextUpdate(m)
  <2>1. m \in Message
    BY <1>2, TakesTypes DEF ProcessContextUpdate
  <2>2. m.generation \in GenerationSet /\ [revision |-> m.revision, context |-> m.context] \in TaggedContexts
    BY <1>2, <2>1 DEF ProcessContextUpdate, Message, TaggedContexts
  <2>3. Ack(m.generation, m.revision) \in Message
    BY <1>2, <2>1 DEF ProcessContextUpdate, Message, Ack, Packet
  <2>4. ptx' \in Seq(Message) /\ Len(ptx') <= PeriphTxCapacity
    BY <1>2, <2>3, AppendFits DEF ProcessContextUpdate, QueuesOK
  <2>5. QueuesOK'
    BY <1>2, <2>4, TakesTypes DEF ProcessContextUpdate, QueuesOK, Takes
  <2>6. PeripheralOK'
    BY <1>2, <2>2 DEF ProcessContextUpdate, PeripheralOK
  <2> QED
    BY <1>2, <2>5, <2>6, TakesTypes DEF ProcessContextUpdate
<1>3. CASE ProcessBegin(m)
  <2>1. QueuesOK'
    BY <1>3, TakesTypes DEF ProcessBegin, QueuesOK, Takes
  <2>2. m.generation \in GenerationSet /\ m.revision \in Revisions
    BY <1>3, TakesTypes DEF ProcessBegin, Message
  <2>3. stage' \in Stages
    BY <1>3, <2>2 DEF ProcessBegin, Stages, Contexts
  <2>4. PeripheralOK'
    BY <1>3, <2>3 DEF ProcessBegin, PeripheralOK
  <2> QED
    BY <1>3, <2>1, <2>4, TakesTypes DEF ProcessBegin
<1>4. CASE ProcessPart(m)
  <2>1. QueuesOK'
    BY <1>4, TakesTypes DEF ProcessPart, QueuesOK, Takes
  <2>2. m.type = "Body" => m.context \in Contexts
    BY <1>4, TakesTypes DEF ProcessPart, Message
  <2>3. StageMatches(m) => stage \in Stages
    BY DEF StageMatches, PeripheralOK
  <2>4. ASSUME stage \in Stages
        PROVE  [stage EXCEPT
                  !.received = @ \cup {m.type},
                  !.context = IF m.type = "Body" THEN m.context ELSE @] \in Stages
    <3>1. stage.received \cup {m.type} \in SUBSET {"Body", "Gate"}
      BY <1>4, <2>4 DEF ProcessPart, Stages
    <3>2. (IF m.type = "Body" THEN m.context ELSE stage.context) \in Contexts
      BY <2>2, <2>4 DEF Stages
    <3> QED
      BY <2>4, <3>1, <3>2 DEF Stages
  <2>5. stage' \in Stages \cup {None}
    BY <1>4, <2>3, <2>4 DEF ProcessPart
  <2>6. PeripheralOK'
    BY <1>4, <2>5 DEF ProcessPart, PeripheralOK
  <2> QED
    BY <1>4, <2>1, <2>6, TakesTypes DEF ProcessPart
<1>5. CASE ProcessCommit(m)
  <2>1. QueuesOK'
    BY <1>5, TakesTypes DEF ProcessCommit, QueuesOK, Takes
  <2>2. m.generation \in GenerationSet
    BY <1>5, TakesTypes DEF ProcessCommit, Message
  <2>3. StageComplete(m) =>
          /\ StagedDurable \in Durables
          /\ [revision |-> stage.revision, context |-> stage.context] \in TaggedContexts
    <3>1. StageComplete(m) => stage \in Stages
      BY DEF StageComplete, StageMatches, PeripheralOK
    <3> QED
      BY <3>1, StagedDurableType DEF Stages, TaggedContexts
  <2>4. StageComplete(m) =>
          [generation |-> m.generation, digests |-> StagedDurable] \in ApplyRequests
    BY <2>2, <2>3 DEF ApplyRequests
  <2>5. PeripheralOK'
    BY <1>5, <2>3, <2>4 DEF ProcessCommit, PeripheralOK
  <2> QED
    BY <1>5, <2>1, <2>5, TakesTypes DEF ProcessCommit
<1> QED
  BY <1>1, <1>2, <1>3, <1>4, <1>5 DEF Process

\* Every step of the peripheral keeps the types.
LEMMA PeripheralTypes ==
    ASSUME TypeOK, PeripheralLinkChanged \/ Heartbeat
    PROVE  TypeOK'
<1> USE DEF TypeOK
<1>1. CASE PeripheralLinkChanged
  <2>1. LinkOK'
    BY <1>1 DEF PeripheralLinkChanged, LinkOK
  <2>2. QueuesOK'
    BY <1>1 DEF PeripheralLinkChanged, QueuesOK
  <2>3. PeripheralOK'
    BY <1>1 DEF PeripheralLinkChanged, PeripheralOK
  <2> QED
    BY <1>1, <2>1, <2>2, <2>3, UnchangedTypes DEF PeripheralLinkChanged
<1>2. CASE Heartbeat
  <2>1. Attestation(last_digests) \in Message
    BY <1>2 DEF Heartbeat, PeripheralOK, Attestation, Message
  <2>2. QueuesOK'
    BY <1>2, <2>1, AppendFits DEF Heartbeat, QueuesOK
  <2> QED
    BY <1>2, <2>2, UnchangedTypes DEF Heartbeat
<1> QED
  BY <1>1, <1>2

\* A worker that serves a request holds one.
LEMMA WorkerRequest ==
    ASSUME NEW w \in Workers, w.state \in {"requested", "applied"}
    PROVE  /\ w.request \in ApplyRequests
           /\ w.request.digests \in Durables
           /\ w.request.generation \in GenerationSet
           /\ [w EXCEPT !.state = "applied"] \in Workers
           /\ [w EXCEPT !.state = "applied"].state = "applied"
           /\ [w EXCEPT !.state = "applied"].request = w.request
<1>1. w \in [state : {"requested", "applied"}, request : ApplyRequests]
  BY DEF Workers
<1>2. w.request \in ApplyRequests
  BY <1>1
<1>3. w.request.digests \in Durables /\ w.request.generation \in GenerationSet
  BY <1>2 DEF ApplyRequests
<1>4. /\ [w EXCEPT !.state = "applied"] \in
            [state : {"requested", "applied"}, request : ApplyRequests]
      /\ [w EXCEPT !.state = "applied"].state = "applied"
      /\ [w EXCEPT !.state = "applied"].request = w.request
  BY <1>1
<1> QED
  BY <1>2, <1>3, <1>4 DEF Workers

\* Every step of the worker keeps the types.
LEMMA WorkerTypes ==
    ASSUME TypeOK, WorkerStep \/ EngineRejects
    PROVE  TypeOK'
<1> USE DEF TypeOK
<1>1. CASE WorkerTakesRequest
  <2>1. worker' \in Workers
    BY <1>1 DEF WorkerTakesRequest, PeripheralOK, Workers
  <2>2. PeripheralOK'
    BY <1>1, <2>1 DEF WorkerTakesRequest, PeripheralOK
  <2> QED
    BY <1>1, <2>2, UnchangedTypes DEF WorkerTakesRequest
<1>2. CASE EngineApplies
  <2>1. worker' \in Workers
    BY <1>2, WorkerRequest DEF EngineApplies, PeripheralOK
  <2>2. PeripheralOK'
    BY <1>2, <2>1 DEF EngineApplies, PeripheralOK
  <2> QED
    BY <1>2, <2>2, UnchangedTypes DEF EngineApplies
<1>3. CASE EngineRejects
  <2>1. PeripheralOK'
    BY <1>3, InitialValues DEF EngineRejects, PeripheralOK
  <2> QED
    BY <1>3, <2>1, UnchangedTypes, FaultTypes DEF EngineRejects
<1>4. CASE WorkerAcknowledges
  <2> DEFINE d == worker.request.digests
             a == Ack(worker.request.generation, d.revision)
             acked == TrySend(ptx, a)
  <2>1. d \in Durables /\ worker.request.generation \in GenerationSet
    BY <1>4, WorkerRequest DEF WorkerAcknowledges, PeripheralOK
  <2>2. d.revision \in Revisions
    BY <2>1 DEF Durables
  <2>3. a \in Message /\ Attestation(d) \in Message
    BY <2>1, <2>2 DEF Ack, Packet, Attestation, Message
  <2> HIDE DEF a
  <2>4. acked \in Seq(Message) /\ Len(acked) <= PeriphTxCapacity
    BY <2>3, AppendFits DEF QueuesOK
  <2>5. /\ TrySend(acked, Attestation(d)) \in Seq(Message)
        /\ Len(TrySend(acked, Attestation(d))) <= PeriphTxCapacity
    BY <2>3, <2>4, AppendFits
  <2>6. ptx' = IF acked = ptx THEN ptx ELSE TrySend(acked, Attestation(d))
    BY <1>4 DEF WorkerAcknowledges, a
  <2>7. QueuesOK'
    BY <1>4, <2>5, <2>6 DEF WorkerAcknowledges, QueuesOK
  <2>8. PeripheralOK'
    BY <1>4, <2>1, <2>2, InitialValues DEF WorkerAcknowledges, PeripheralOK
  <2> QED
    BY <1>4, <2>7, <2>8, UnchangedTypes DEF WorkerAcknowledges
<1>5. CASE WorkerTakesDiagnostic
  <2>1. worker' \in Workers
    BY <1>5 DEF WorkerTakesDiagnostic, Workers
  <2>2. PeripheralOK'
    BY <1>5, <2>1 DEF WorkerTakesDiagnostic, PeripheralOK
  <2> QED
    BY <1>5, <2>2, UnchangedTypes DEF WorkerTakesDiagnostic
<1>6. CASE WorkerReports
  <2>1. [type |-> "StatusReport"] \in Message
    BY DEF Message
  <2>2. QueuesOK'
    BY <1>6, <2>1, AppendFits DEF WorkerReports, QueuesOK
  <2>3. PeripheralOK'
    BY <1>6, InitialValues DEF WorkerReports, PeripheralOK
  <2> QED
    BY <1>6, <2>2, <2>3, UnchangedTypes DEF WorkerReports
<1> QED
  BY <1>1, <1>2, <1>3, <1>4, <1>5, <1>6 DEF WorkerStep

\* Every step keeps the types.
LEMMA TypeStep == TypeOK /\ [Next]_vars => TypeOK'
<1>1. ASSUME TypeOK, Next PROVE TypeOK'
  BY <1>1, EnvironmentTypes, CentralTypes, QueueTransferTypes,
     CentralReceivesTypes, PeripheralTypes, ProcessTypes, WorkerTypes
     DEF Next, CentralStep, PeripheralStep
<1>2. ASSUME TypeOK, UNCHANGED vars PROVE TypeOK'
  BY <1>2, UnchangedTypes DEF vars, TypeOK
<1> QED
  BY <1>1, <1>2

\* Every behaviour of the replication is type correct; in particular no queue
\* is ever filled beyond its capacity.
THEOREM ReplicationTypeCorrect == Spec => []TypeOK
BY InitTypes, TypeStep, PTL DEF Spec

-----------------------------------------------------------------------------
(* The apply signal and the replica slot.                                  *)

\* Steps that leave the slot, the signal, the worker and the engine alone.
handover == <<slot, apply_request, worker, engine>>

\* Where slot, signal, worker and engine stay, the agreement stays.
LEMMA HandoverUnchanged ==
    RequestMatchesSlot /\ UNCHANGED handover => RequestMatchesSlot'
BY DEF RequestMatchesSlot, handover

\* A commit that fills the slot raises the signal with it.
LEMMA CommitKeepsHandover ==
    ASSUME TypeOK, RequestMatchesSlot, NEW m, ProcessCommit(m)
    PROVE  RequestMatchesSlot'
<1>1. CASE StageComplete(m) /\ SlotFree
  <2> DEFINE request == [generation |-> m.generation, digests |-> StagedDurable]
  <2>1. stage \in Stages
    BY <1>1 DEF TypeOK, PeripheralOK, StageComplete, StageMatches
  <2>2. StagedDurable \in Durables
    BY <2>1, StagedDurableType
  <2>3. m.generation \in GenerationSet
    BY TakesTypes DEF ProcessCommit, Message
  <2>4. request \in ApplyRequests /\ request.digests = StagedDurable
    BY <2>2, <2>3 DEF ApplyRequests
  <2>5. /\ slot' = StagedDurable /\ apply_request' = request
        /\ UNCHANGED <<worker, engine>>
    BY <1>1 DEF ProcessCommit
  <2>6. slot' # None /\ apply_request' # None
    BY <2>2, <2>4, <2>5, NoneIsNot, NoneIsNoRequest
  <2>7. worker.state # "requested"
    BY <1>1 DEF SlotFree, RequestMatchesSlot
  <2> HIDE DEF request
  <2> QED
    BY <2>4, <2>5, <2>6, <2>7 DEF RequestMatchesSlot
<1>2. CASE ~ (StageComplete(m) /\ SlotFree)
  BY <1>2, HandoverUnchanged DEF ProcessCommit, handover
<1> QED
  BY <1>1, <1>2

\* The worker empties the slot only for the request it took.
LEMMA WorkerKeepsHandover ==
    ASSUME TypeOK, RequestMatchesSlot, WorkerStep \/ EngineRejects
    PROVE  RequestMatchesSlot'
<1>1. CASE WorkerTakesRequest
  BY <1>1 DEF WorkerTakesRequest, RequestMatchesSlot
<1>2. CASE EngineApplies
  <2>1. worker'.state = "applied" /\ worker'.request = worker.request
    BY <1>2, WorkerRequest DEF EngineApplies, TypeOK, PeripheralOK
  <2> QED
    BY <1>2, <2>1 DEF EngineApplies, RequestMatchesSlot
<1>3. CASE EngineRejects
  BY <1>3 DEF EngineRejects, RequestMatchesSlot, Idle
<1>4. CASE WorkerAcknowledges
  BY <1>4 DEF WorkerAcknowledges, RequestMatchesSlot, Idle
<1>5. CASE WorkerTakesDiagnostic
  BY <1>5 DEF WorkerTakesDiagnostic, RequestMatchesSlot, Idle
<1>6. CASE WorkerReports
  BY <1>6 DEF WorkerReports, RequestMatchesSlot, Idle
<1> QED
  BY <1>1, <1>2, <1>3, <1>4, <1>5, <1>6 DEF WorkerStep

\* Every step keeps signal and slot in agreement.
LEMMA HandoverStep == TypeOK /\ RequestMatchesSlot /\ [Next]_vars => RequestMatchesSlot'
<1> SUFFICES ASSUME TypeOK, RequestMatchesSlot, [Next]_vars
             PROVE  RequestMatchesSlot'
  OBVIOUS
<1>1. CASE PeripheralReboots
  BY <1>1 DEF PeripheralReboots, RequestMatchesSlot, Idle
<1>2. CASE \E m \in Range(prx) : ProcessCommit(m)
  BY <1>2, CommitKeepsHandover
<1>3. CASE WorkerStep \/ EngineRejects
  BY <1>3, WorkerKeepsHandover
<1>4. CASE \E m \in Range(prx) :
             \/ ProcessStatusRequest(m) \/ ProcessContextUpdate(m)
             \/ ProcessBegin(m) \/ ProcessPart(m)
  <2>1. UNCHANGED handover
    BY <1>4 DEF ProcessStatusRequest, ProcessContextUpdate, ProcessBegin,
                ProcessPart, handover
  <2> QED
    BY <2>1, HandoverUnchanged
<1>5. CASE \/ LightingChanges \/ ContextChanges \/ LinkUp \/ LinkDown
           \/ DeliverToPeripheral \/ LoseToPeripheral
           \/ DeliverToCentral \/ LoseToCentral
           \/ CentralStep \/ ExportFails \/ CentralStatusRefresh
           \/ BackoffElapses \/ AckTimesOut
           \/ PeripheralLinkChanged \/ Heartbeat \/ UNCHANGED vars
  <2>1. UNCHANGED peripheral => UNCHANGED handover
    BY DEF peripheral, handover
  <2>2. PeripheralLinkChanged => UNCHANGED handover
    BY DEF PeripheralLinkChanged, handover
  <2>3. UNCHANGED peripheral \/ PeripheralLinkChanged
    BY <1>5 DEF LightingChanges, ContextChanges, LinkUp, LinkDown,
         DeliverToPeripheral, LoseToPeripheral, DeliverToCentral, LoseToCentral,
         CentralStep, ExportReplica, QueueTransfer, CentralLinkChanged,
         CentralLightingChanged, CentralContextChanged, CentralReceives,
         ExportFails, CentralStatusRefresh, BackoffElapses, AckTimesOut,
         Heartbeat, vars
  <2> QED
    BY <2>1, <2>2, <2>3, HandoverUnchanged
<1> QED
  BY <1>1, <1>2, <1>3, <1>4, <1>5 DEF Next, PeripheralStep, Process

\* The peripheral's latest-wins apply signal and its one-place replica slot
\* never get out of step, whatever the link, the central and the worker do: a
\* worker that acknowledges a revision and attests its digests does so for the
\* snapshot its engine applied.
THEOREM ApplyRequestMatchesSlot == Spec => []RequestMatchesSlot
<1>1. Init => RequestMatchesSlot
  BY DEF Init, RequestMatchesSlot, Idle
<1> QED
  BY <1>1, HandoverStep, ReplicationTypeCorrect, PTL DEF Spec

-----------------------------------------------------------------------------
(***************************************************************************)
(* What is on its way to the peripheral arrives in order, for every value  *)
(* of the constants: no packet on the path from the central, no open stage *)
(* and no snapshot in the replica slot is older than what the peripheral   *)
(* already shows. From it: LightingReplication implements ReplicaAbstract. *)
(*                                                                         *)
(* The path is read as one sequence, the peripheral's inbox followed by    *)
(* the central's queue. A step of the link or of the peripheral only thins *)
(* it (it loses, takes or drains packets and keeps the others in order);   *)
(* only QueueTransfer puts a transfer behind it, of a generation that is   *)
(* nowhere in flight.                                                      *)
(***************************************************************************)

HIDE ReplicationConstants

\* All that is on its way to the peripheral, first to arrive first.
Path == prx \o tx

\* The packets of transfers, those that carry a context, and those that close
\* a transfer.
Replicates(m) == m.type \in {"Begin", "Body", "Gate", "Commit", "ContextUpdate"}
CarriesContext(m) == m.type \in {"Body", "ContextUpdate"}
Closes(m) == m.type \in {"Commit", "ContextUpdate"}

\* Where the path p holds packets of transfers.
Positions(p) == {i \in 1 .. Len(p) : Replicates(p[i])}

\* Along the path revisions and contexts never decrease, nothing of a transfer
\* follows the packet that closes it, and a transfer's packets are contiguous.
WellOrdered(p) ==
    /\ \A i, j \in Positions(p) : i < j =>
         /\ p[i].revision <= p[j].revision
         /\ CarriesContext(p[i]) /\ CarriesContext(p[j]) =>
              p[i].context <= p[j].context
         /\ Closes(p[i]) \/ p[j].type = "ContextUpdate" =>
              p[i].generation # p[j].generation
    /\ \A i, j, k \in Positions(p) :
         i < j /\ j < k /\ p[i].generation = p[k].generation =>
           p[j].generation = p[i].generation

\* The packets of transfers on p are some of those on q, in the same order: f
\* says where each of them comes from.
Embeds(f, p, q) ==
    /\ f \in [Positions(p) -> Positions(q)]
    /\ \A i \in Positions(p) : p[i] = q[f[i]]
    /\ \A i, j \in Positions(p) : i < j => f[i] < f[j]
Thinner(p, q) == \E f : Embeds(f, p, q)

\* Losing packets keeps the order of the others.
LEMMA ThinnerKeepsOrder ==
    ASSUME NEW p, NEW q, Thinner(p, q), WellOrdered(q)
    PROVE  WellOrdered(p)
<1> PICK f : Embeds(f, p, q)
  BY DEF Thinner
<1>1. \A i, j \in Positions(p) : i < j =>
        /\ p[i] = q[f[i]] /\ p[j] = q[f[j]] /\ f[i] < f[j]
        /\ f[i] \in Positions(q) /\ f[j] \in Positions(q)
  BY DEF Embeds
<1> QED
  BY <1>1 DEF WellOrdered

\* Nothing, the first packet, one in the middle or the whole inbox leaves.
LEMMA SameIsThinner ==
    ASSUME NEW p PROVE Thinner(p, p)
<1> DEFINE f == [i \in Positions(p) |-> i]
<1>1. Embeds(f, p, p)
  BY DEF Embeds
<1> QED
  BY <1>1 DEF Thinner

\* A path without its first packet is a thinner path.
LEMMA TakenIsThinner ==
    ASSUME NEW p \in Seq(Message), NEW q \in Seq(Message), p # <<>>
    PROVE  /\ Thinner(Tail(p) \o q, p \o q)
           /\ Len(p \o q) = Len(Tail(p) \o q) + 1 /\ (p \o q)[1] = Head(p)
           /\ \A i \in 1 .. Len(Tail(p) \o q) : (Tail(p) \o q)[i] = (p \o q)[i + 1]
<1> DEFINE s == Tail(p) \o q
           f == [i \in Positions(s) |-> i + 1]
<1>1. Len(p \o q) = Len(s) + 1 /\ Len(s) \in Nat
  OBVIOUS
<1>2. \A i \in 1 .. Len(s) : s[i] = (p \o q)[i + 1]
  OBVIOUS
<1>3. Embeds(f, s, p \o q)
  <2>1. \A i \in Positions(s) :
          i \in Nat /\ i + 1 \in Positions(p \o q) /\ s[i] = (p \o q)[i + 1]
    BY <1>1, <1>2 DEF Positions
  <2> HIDE DEF s
  <2>2. PICK t : t = p \o q
    OBVIOUS
  <2>3. \A i \in Positions(s) : f[i] = i + 1
    OBVIOUS
  <2>4. f \in [Positions(s) -> Positions(t)]
    BY <2>1, <2>2
  <2>5. \A i \in Positions(s) : s[i] = t[f[i]]
    BY <2>1, <2>2, <2>3
  <2> HIDE DEF f
  <2>6. \A i, j \in Positions(s) : i < j => f[i] < f[j]
    BY <2>1, <2>3
  <2>7. Embeds(f, s, t)
    BY <2>4, <2>5, <2>6 DEF Embeds
  <2> QED
    BY <2>2, <2>7
<1>4. (p \o q)[1] = Head(p)
  OBVIOUS
<1> QED
  BY <1>1, <1>2, <1>3, <1>4 DEF Thinner

\* A path that lost one packet is a thinner path.
LEMMA LostIsThinner ==
    ASSUME NEW p \in Seq(Message), NEW q \in Seq(Message), q # <<>>
    PROVE  Thinner(p \o Tail(q), p \o q)
<1> DEFINE s == p \o Tail(q)
           f == [i \in Positions(s) |-> IF i <= Len(p) THEN i ELSE i + 1]
<1>1. Len(p \o q) = Len(s) + 1 /\ Len(s) \in Nat
  OBVIOUS
<1>2. \A i \in 1 .. Len(s) : s[i] = (p \o q)[IF i <= Len(p) THEN i ELSE i + 1]
  OBVIOUS
<1>3. Embeds(f, s, p \o q)
  BY <1>1, <1>2 DEF Embeds, Positions
<1> QED
  BY <1>3 DEF Thinner

\* A path that lost its inbox is a thinner path.
LEMMA DrainedIsThinner ==
    ASSUME NEW p \in Seq(Message), NEW q \in Seq(Message)
    PROVE  Thinner(<<>> \o q, p \o q)
<1> DEFINE f == [i \in Positions(q) |-> i + Len(p)]
<1>1. Len(p \o q) = Len(p) + Len(q) /\ Len(q) \in Nat /\ Len(p) \in Nat
  OBVIOUS
<1>2. \A i \in 1 .. Len(q) : q[i] = (p \o q)[i + Len(p)]
  OBVIOUS
<1>3. Embeds(f, q, p \o q)
  BY <1>1, <1>2 DEF Embeds, Positions
<1>4. <<>> \o q = q
  OBVIOUS
<1> QED
  BY <1>3, <1>4 DEF Thinner

\* A packet that carries no replica adds no position.
LEMMA RequestIsThinner ==
    ASSUME NEW p \in Seq(Message), NEW q \in Seq(Message), NEW m \in Message,
           ~ Replicates(m)
    PROVE  Thinner(p \o Append(q, m), p \o q)
<1> DEFINE s == p \o Append(q, m)
           f == [i \in Positions(s) |-> i]
<1>1. Len(s) = Len(p \o q) + 1 /\ Len(p \o q) \in Nat /\ s[Len(s)] = m
  OBVIOUS
<1>2. \A i \in 1 .. Len(p \o q) : s[i] = (p \o q)[i]
  OBVIOUS
<1>3. Positions(s) \subseteq 1 .. Len(p \o q)
  BY <1>1 DEF Positions
<1> HIDE DEF s
<1>4. Embeds(f, s, p \o q)
  BY <1>1, <1>2, <1>3 DEF Embeds, Positions
<1> QED
  BY <1>4 DEF Thinner, s

\* Delivery moves a packet along the path.
LEMMA DeliveredIsSame ==
    ASSUME NEW p \in Seq(Message), NEW q \in Seq(Message), q # <<>>
    PROVE  Append(p, Head(q)) \o Tail(q) = p \o q
OBVIOUS

\* The fields of a packet of a transfer.
LEMMA MessageFields ==
    ASSUME NEW m \in Message, Replicates(m)
    PROVE  /\ m.generation \in GenerationSet /\ m.revision \in Revisions
           /\ CarriesContext(m) => m.context \in Contexts
<1>1. CASE m \in [type : {"Begin", "Gate", "Commit", "Ack"}, generation : GenerationSet,
                  revision : Revisions]
  BY <1>1 DEF Replicates, CarriesContext
<1>2. CASE m \in [type : {"Body", "ContextUpdate"}, generation : GenerationSet,
                  revision : Revisions, context : Contexts]
  BY <1>2 DEF Replicates, CarriesContext
<1>3. CASE m \in [type : {"StatusRequest", "StatusReport"}]
  BY <1>3 DEF Replicates
<1>4. CASE m \in [type : {"Attestation"}, digests : Durables]
  BY <1>4 DEF Replicates
<1> QED
  BY <1>1, <1>2, <1>3, <1>4 DEF Message

\* The packets of transfers have a revision, a generation and a context.
LEMMA PositionFields ==
    ASSUME NEW q \in Seq(Message), NEW i \in Positions(q)
    PROVE  /\ i \in Nat /\ i \in 1 .. Len(q)
           /\ q[i].revision \in Nat /\ q[i].generation \in GenerationSet
           /\ CarriesContext(q[i]) => q[i].context \in Nat
<1>1. i \in 1 .. Len(q) /\ Replicates(q[i]) /\ q[i] \in Message
  BY DEF Positions
<1> DEFINE m == q[i]
<1>2. m \in Message /\ Replicates(m)
  BY <1>1
<1> HIDE DEF m
<1>3. /\ m.generation \in GenerationSet /\ m.revision \in Revisions
      /\ CarriesContext(m) => m.context \in Contexts
  BY <1>2, MessageFields
<1> QED
  BY <1>1, <1>3 DEF Revisions, Contexts, m

\* What one transfer puts on the path.
IsTransfer(s, g, x) ==
    /\ s \in Seq(Message) /\ s # <<>>
    /\ \A i \in 1 .. Len(s) :
         /\ Replicates(s[i]) /\ s[i].generation = g /\ s[i].revision = x.revision
         /\ CarriesContext(s[i]) => s[i].context = x.context
         /\ Closes(s[i]) => i = Len(s)
         /\ s[i].type = "ContextUpdate" => Len(s) = 1

\* A sequence with one message behind it.
LEMMA OneMore ==
    ASSUME NEW q \in Seq(Message), NEW m \in Message
    PROVE  /\ Len(q \o <<m>>) = Len(q) + 1 /\ (q \o <<m>>)[Len(q) + 1] = m
           /\ \A i \in 1 .. Len(q) : (q \o <<m>>)[i] = q[i]
OBVIOUS

\* The packets of a snapshot, and a context update, are transfers.
LEMMA SnapshotIsTransfer ==
    ASSUME NEW g \in GenerationSet, NEW x \in TaggedContexts
    PROVE  /\ IsTransfer(SnapshotPackets(g, x), g, x)
           /\ \A i \in 1 .. Len(SnapshotPackets(g, x)) :
                SnapshotPackets(g, x)[i].type # "ContextUpdate"
<1> DEFINE b == Packet("Begin", g, x.revision)
           c == Packet("Commit", g, x.revision)
           h == Packet("Gate", g, x.revision)
           d == ContextPacket("Body", g, x)
<1>1. /\ b.type = "Begin" /\ h.type = "Gate" /\ c.type = "Commit" /\ d.type = "Body"
      /\ b.generation = g /\ h.generation = g /\ c.generation = g /\ d.generation = g
      /\ b.revision = x.revision /\ h.revision = x.revision /\ c.revision = x.revision
      /\ d.revision = x.revision /\ d.context = x.context
  BY DEF Packet, ContextPacket
<1>2. SnapshotPackets(g, x) = <<b, d>> \o (IF Gated THEN <<h>> ELSE <<>>) \o <<c>>
  BY DEF SnapshotPackets
<1>3. SnapshotPackets(g, x) \in Seq(Message)
  BY SnapshotPacketsType
<1>4. b \in Message /\ c \in Message /\ h \in Message /\ d \in Message
  BY PacketTypes
<1> HIDE DEF b, c, d, h
<1> SUFFICES ASSUME NEW s, s = SnapshotPackets(g, x)
             PROVE  /\ IsTransfer(s, g, x)
                    /\ \A i \in 1 .. Len(s) : s[i].type # "ContextUpdate"
  OBVIOUS
<1>5. CASE Gated
  <2>1. PICK t : t = <<b, d>> \o <<h>>
    OBVIOUS
  <2>2. Len(t) = 3 /\ t[1] = b /\ t[2] = d /\ t[3] = h
    BY <1>4, <2>1
  <2>6. t \in Seq(Message)
    BY <1>4, <2>1
  <2>3. s = t \o <<c>>
    BY <1>2, <1>5, <2>1
  <2>4. /\ Len(s) = Len(t) + 1 /\ s[Len(t) + 1] = c
        /\ \A i \in 1 .. Len(t) : s[i] = t[i]
    BY <1>4, <2>3, <2>6, OneMore
  <2>5. Len(s) = 4 /\ s[1] = b /\ s[2] = d /\ s[3] = h /\ s[4] = c
    BY <2>2, <2>4
  <2> QED
    BY <2>5, <1>1, <1>3 DEF IsTransfer, Replicates, CarriesContext, Closes
<1>6. CASE ~ Gated
  <2>1. s = <<b, d>> \o <<c>>
    BY <1>2, <1>6
  <2>2. Len(s) = 3 /\ s[1] = b /\ s[2] = d /\ s[3] = c
    BY <1>4, <2>1
  <2>3. /\ s \in Seq(Message) /\ s # <<>>
        /\ \A i \in 1 .. Len(s) : i = 1 \/ i = 2 \/ i = 3
    BY <2>2, <1>3
  <2> QED
    BY <2>2, <2>3, <1>1 DEF IsTransfer, Replicates, CarriesContext, Closes
<1> QED
  BY <1>5, <1>6

\* A context update is a transfer of one packet.
LEMMA UpdateIsTransfer ==
    ASSUME NEW g \in GenerationSet, NEW x \in TaggedContexts
    PROVE  IsTransfer(<<ContextPacket("ContextUpdate", g, x)>>, g, x)
<1> DEFINE u == ContextPacket("ContextUpdate", g, x)
<1>1. /\ u.type = "ContextUpdate" /\ u.generation = g
      /\ u.revision = x.revision /\ u.context = x.context
  BY DEF ContextPacket
<1>2. u \in Message
  BY PacketTypes
<1> HIDE DEF u
<1>3. IsTransfer(<<u>>, g, x)
  BY <1>1, <1>2 DEF IsTransfer, Replicates, CarriesContext, Closes
<1> QED
  BY <1>3 DEF u

\* A position of p \o s is one of p or one of s.
LEMMA JoinedPositions ==
    ASSUME NEW p \in Seq(Message), NEW s \in Seq(Message),
           NEW i \in Positions(p \o s)
    PROVE  \/ i \in Positions(p) /\ (p \o s)[i] = p[i]
           \/ i - Len(p) \in Positions(s) /\ (p \o s)[i] = s[i - Len(p)] /\ i > Len(p)
<1>1. i \in 1 .. Len(p) + Len(s) /\ Replicates((p \o s)[i]) /\ Len(p) \in Nat /\ Len(s) \in Nat
  BY DEF Positions
<1>2. CASE i <= Len(p)
  BY <1>1, <1>2 DEF Positions
<1>3. CASE i > Len(p)
  <2>1. i - Len(p) \in 1 .. Len(s) /\ (p \o s)[i] = s[i - Len(p)]
    BY <1>1, <1>3
  <2> QED
    BY <1>1, <1>3, <2>1 DEF Positions
<1> QED
  BY <1>1, <1>2, <1>3

\* A newer transfer of a fresh generation goes to the end of the path.
LEMMA TransferKeepsOrder ==
    ASSUME NEW p \in Seq(Message), NEW s, NEW g \in GenerationSet,
           NEW x \in TaggedContexts, IsTransfer(s, g, x), WellOrdered(p),
           \A i \in Positions(p) :
             /\ p[i].generation # g /\ p[i].revision <= x.revision
             /\ CarriesContext(p[i]) => p[i].context <= x.context
    PROVE  WellOrdered(p \o s)
<1> DEFINE q == p \o s
<1>0. s \in Seq(Message) /\ q \in Seq(Message) /\ x.revision \in Nat /\ x.context \in Nat
  BY DEF IsTransfer, TaggedContexts, Revisions, Contexts
<1>1. \A i \in Positions(q) :
        \/ i \in Positions(p) /\ q[i] = p[i] /\ i <= Len(p)
        \/ /\ i > Len(p) /\ q[i].generation = g /\ q[i].revision = x.revision
           /\ CarriesContext(q[i]) => q[i].context = x.context
           /\ Closes(q[i]) => i = Len(q)
           /\ q[i].type = "ContextUpdate" => Len(q) = Len(p) + 1
  <2> SUFFICES ASSUME NEW i \in Positions(q)
      PROVE \/ i \in Positions(p) /\ q[i] = p[i] /\ i <= Len(p)
            \/ /\ i > Len(p) /\ q[i].generation = g /\ q[i].revision = x.revision
               /\ CarriesContext(q[i]) => q[i].context = x.context
               /\ Closes(q[i]) => i = Len(q)
               /\ q[i].type = "ContextUpdate" => Len(q) = Len(p) + 1
    OBVIOUS
  <2>1. CASE i \in Positions(p) /\ q[i] = p[i]
    BY <2>1 DEF Positions
  <2>2. CASE i - Len(p) \in Positions(s) /\ q[i] = s[i - Len(p)] /\ i > Len(p)
    <3>1. i - Len(p) \in 1 .. Len(s) /\ i \in Nat /\ Len(q) = Len(p) + Len(s)
      BY <1>0, <2>2 DEF Positions
    <3> DEFINE k == i - Len(p)
    <3>2. /\ s[k].generation = g /\ s[k].revision = x.revision
          /\ CarriesContext(s[k]) => s[k].context = x.context
          /\ Closes(s[k]) => k = Len(s)
          /\ s[k].type = "ContextUpdate" => Len(s) = 1
      BY <3>1 DEF IsTransfer
    <3>3. Len(s) \in Nat /\ Len(p) \in Nat /\ k = i - Len(p)
      BY <1>0
    <3>4. Closes(q[i]) => i = Len(q)
      BY <2>2, <3>1, <3>2, <3>3
    <3>5. q[i].type = "ContextUpdate" => Len(q) = Len(p) + 1
      BY <2>2, <3>1, <3>2
    <3> HIDE DEF q
    <3> QED
      BY <2>2, <3>2, <3>4, <3>5
  <2> QED
    BY <1>0, <2>1, <2>2, JoinedPositions
<1>2. \A i \in Positions(q) : i \in 1 .. Len(q)
  BY DEF Positions
<1>4. \A i \in Positions(q) : q[i].revision \in Nat /\ (CarriesContext(q[i]) => q[i].context \in Nat)
  BY <1>0, PositionFields
<1> DEFINE Old(i) == i \in Positions(p) /\ q[i] = p[i] /\ i <= Len(p)
           New(i) == /\ i > Len(p) /\ q[i].generation = g /\ q[i].revision = x.revision
                     /\ CarriesContext(q[i]) => q[i].context = x.context
                     /\ Closes(q[i]) => i = Len(q)
                     /\ q[i].type = "ContextUpdate" => Len(q) = Len(p) + 1
<1>5. \A i \in Positions(q) : i \in Nat /\ i <= Len(q) /\ (Old(i) \/ New(i))
  BY <1>0, <1>1, <1>2
<1> HIDE DEF q
<1>6. ASSUME NEW i \in Positions(q), NEW j \in Positions(q), i < j
      PROVE  /\ q[i].revision <= q[j].revision
             /\ CarriesContext(q[i]) /\ CarriesContext(q[j]) =>
                  q[i].context <= q[j].context
             /\ Closes(q[i]) \/ q[j].type = "ContextUpdate" =>
                  q[i].generation # q[j].generation
  <2>1. CASE Old(j)
    <3>1. Old(i)
      BY <1>5, <1>6, <2>1
    <3> QED
      BY <1>6, <2>1, <3>1 DEF WellOrdered
  <2>2. CASE Old(i) /\ New(j)
    BY <1>0, <2>2
  <2>3. CASE New(i) /\ New(j)
    <3>1. ~ Closes(q[i]) /\ q[j].type # "ContextUpdate"
      BY <1>5, <1>6, <2>3
    <3> QED
      BY <1>0, <1>4, <2>3, <3>1
  <2> QED
    BY <1>5, <2>1, <2>2, <2>3
<1>7. ASSUME NEW i \in Positions(q), NEW j \in Positions(q), NEW k \in Positions(q),
             i < j, j < k, q[i].generation = q[k].generation
      PROVE  q[j].generation = q[i].generation
  <2>1. CASE Old(k)
    <3>1. Old(i) /\ Old(j)
      BY <1>5, <1>7, <2>1
    <3> QED
      BY <1>7, <2>1, <3>1 DEF WellOrdered
  <2>2. CASE New(k)
    <3>1. New(i)
      BY <1>5, <1>7, <2>2
    <3>2. New(j)
      BY <1>5, <1>7, <3>1
    <3> QED
      BY <3>1, <3>2
  <2> QED
    BY <1>5, <2>1, <2>2
<1> QED
  BY <1>5, <1>6, <1>7 DEF WellOrdered, q

-----------------------------------------------------------------------------
(* The order of what is on its way.                                        *)

\* What the central has read last of its engine and context: the export it
\* holds, or what they are now.
Latest == IF exported # None THEN exported
          ELSE [revision |-> revision, context |-> context]

\* Nothing newer than x is on the path p.
KnownTo(x, p) ==
    \A i \in Positions(p) :
        /\ p[i].revision <= x.revision
        /\ CarriesContext(p[i]) => p[i].context <= x.context
\* Neither x nor anything on p is older than the revision r, or the context c.
NothingOlder(r, p, x) ==
    /\ r <= x.revision
    /\ \A i \in Positions(p) : r <= p[i].revision
NoOlderContext(c, p, x) ==
    /\ c <= x.context
    /\ \A i \in Positions(p) : CarriesContext(p[i]) => c <= p[i].context

\* The rest of the open transaction comes before anything else.
RestOfStage(s, p) ==
    \A k \in Positions(p) : p[k].generation = s.generation =>
        /\ p[k].type # "ContextUpdate"
        /\ \A j \in Positions(p) : j < k => p[j].generation = s.generation
\* A Commit that will find the stage complete does not take the context back.
CommitAdvances(s, c, p) ==
    \A k \in Positions(p) :
        p[k].generation = s.generation /\ p[k].type = "Commit" /\ "Body" \in s.received =>
            c <= s.context

\* The parts of the invariant: an export is not ahead of the engine; the path is
\* in order and holds nothing newer than the latest export; the engine and the
\* slot are behind the path, the engine behind the slot.
AuthorityAhead == Latest.revision <= revision /\ Latest.context <= context
PathInOrder == WellOrdered(Path) /\ KnownTo(Latest, Path)
EngineBehind ==
    /\ NothingOlder(engine.revision, Path, Latest)
    /\ slot # None =>
         engine.revision <= slot.revision /\ NothingOlder(slot.revision, Path, Latest)
\* The rendered context is behind the path; the open stage is between the slot
\* and the path, and closing it takes nothing back.
ContextBehind == NoOlderContext(periph_context.context, Path, Latest)
StageBetween ==
    stage # None =>
        /\ engine.revision <= stage.revision
        /\ slot # None => slot.revision <= stage.revision
        /\ NothingOlder(stage.revision, Path, Latest)
        /\ NoOlderContext(stage.context, Path, Latest)
        /\ RestOfStage(stage, Path)
        /\ CommitAdvances(stage, periph_context.context, Path)

\* The inductive invariant: everything on its way is newer the later it arrives.
OrderInv == AuthorityAhead /\ PathInOrder /\ EngineBehind /\ ContextBehind /\ StageBetween

\* Losing packets and a newer export keep every bound.
LEMMA ThinnerKeeps ==
    ASSUME NEW p, NEW q \in Seq(Message), Thinner(p, q), NEW x \in TaggedContexts, NEW y \in TaggedContexts,
           x.revision <= y.revision, x.context <= y.context
    PROVE  /\ KnownTo(x, q) => KnownTo(y, p)
           /\ \A r \in Nat : NothingOlder(r, q, x) => NothingOlder(r, p, y)
           /\ \A c \in Nat : NoOlderContext(c, q, x) => NoOlderContext(c, p, y)
           /\ \A s : RestOfStage(s, q) => RestOfStage(s, p)
           /\ \A s, c : CommitAdvances(s, c, q) => CommitAdvances(s, c, p)
<1> PICK f : Embeds(f, p, q)
  BY DEF Thinner
<1>1. \A i \in Positions(p) : f[i] \in Positions(q) /\ p[i] = q[f[i]]
  BY DEF Embeds
<1>2. \A i, j \in Positions(p) : i < j => f[i] < f[j]
  BY DEF Embeds
<1>3. x.revision \in Nat /\ y.revision \in Nat /\ x.context \in Nat /\ y.context \in Nat
  BY DEF TaggedContexts, Revisions, Contexts
<1>4. \A i \in Positions(p) :
        /\ p[i].revision \in Nat
        /\ CarriesContext(p[i]) => p[i].context \in Nat
  <2>1. \A i \in Positions(q) :
          /\ q[i].revision \in Nat
          /\ CarriesContext(q[i]) => q[i].context \in Nat
    BY PositionFields
  <2> QED
    BY <1>1, <2>1
<1>5. KnownTo(x, q) => KnownTo(y, p)
  BY <1>1, <1>3, <1>4 DEF KnownTo
<1>6. \A r \in Nat : NothingOlder(r, q, x) => NothingOlder(r, p, y)
  BY <1>1, <1>3, <1>4 DEF NothingOlder
<1>7. \A c \in Nat : NoOlderContext(c, q, x) => NoOlderContext(c, p, y)
  BY <1>1, <1>3, <1>4 DEF NoOlderContext
<1>8. \A s : RestOfStage(s, q) => RestOfStage(s, p)
  BY <1>1, <1>2 DEF RestOfStage
<1>9. \A s, c : CommitAdvances(s, c, q) => CommitAdvances(s, c, p)
  BY <1>1 DEF CommitAdvances
<1> QED
  BY <1>5, <1>6, <1>7, <1>8, <1>9

\* Revisions, contexts and generations are integers, so that they compare.
LEMMA ValueTypes ==
    /\ \A x \in TaggedContexts : x.revision \in Nat /\ x.context \in Nat
    /\ \A d \in Durables : d.revision \in Nat
    /\ \A s \in Stages : s.revision \in Nat /\ s.context \in Nat
BY DEF TaggedContexts, Durables, Stages, Revisions, Contexts

\* The path is a sequence of messages.
LEMMA PathType == TypeOK => Path \in Seq(Message)
BY DEF TypeOK, QueuesOK, Path

\* What the central sends next is a tagged context.
LEMMA LatestType == TypeOK => Latest \in TaggedContexts
BY DEF TypeOK, CentralOK, AuthorityOK, Latest, TaggedContexts

\* What the peripheral holds can be compared.
LEMMA PeripheralFields ==
    TypeOK =>
        /\ engine.revision \in Nat /\ periph_context.context \in Nat
        /\ slot # None => slot.revision \in Nat
        /\ stage # None => stage.revision \in Nat /\ stage.context \in Nat
BY ValueTypes DEF TypeOK, PeripheralOK

\* Everything is in order at boot.
LEMMA InitOrder == Init => OrderInv
<1> SUFFICES ASSUME Init PROVE OrderInv
  OBVIOUS
<1>1. Path = <<>> /\ Positions(Path) = {}
  BY DEF Init, Path, Positions
<1>2. Latest = [revision |-> 1, context |-> 1] /\ revision = 1 /\ context = 1
  BY DEF Init, Latest
<1>3. stage = None /\ slot = None /\ engine.revision = 0 /\ periph_context.context = 0
  BY DEF Init, BootDurable, BootContext
<1> QED
  BY <1>1, <1>2, <1>3 DEF OrderInv, AuthorityAhead, PathInOrder, EngineBehind,
     ContextBehind, StageBetween, WellOrdered, KnownTo, NothingOlder, NoOlderContext

\* A step that at most takes packets off the path, drops the stage or the slot,
\* and lets the authority advance.
LatestGrows ==
    /\ Latest' \in TaggedContexts
    /\ Latest.revision <= Latest'.revision /\ Latest.context <= Latest'.context
    /\ AuthorityAhead'

\* Such a step keeps the invariant.
LEMMA OrderKept ==
    ASSUME TypeOK, OrderInv, Thinner(Path', Path), LatestGrows,
           stage' \in {stage, None}, slot' \in {slot, None},
           UNCHANGED <<engine, periph_context>>
    PROVE  OrderInv'
<1> USE DEF OrderInv
<1>1. Path \in Seq(Message) /\ Latest \in TaggedContexts
  BY PathType, LatestType
<1>2. /\ KnownTo(Latest, Path) => KnownTo(Latest', Path')
      /\ \A r \in Nat : NothingOlder(r, Path, Latest) => NothingOlder(r, Path', Latest')
      /\ \A c \in Nat : NoOlderContext(c, Path, Latest) => NoOlderContext(c, Path', Latest')
      /\ \A s : RestOfStage(s, Path) => RestOfStage(s, Path')
      /\ \A s, c : CommitAdvances(s, c, Path) => CommitAdvances(s, c, Path')
  BY <1>1, ThinnerKeeps DEF LatestGrows
<1>3. PathInOrder'
  BY <1>2, ThinnerKeepsOrder DEF PathInOrder
<1>4. EngineBehind'
  BY <1>2, PeripheralFields DEF EngineBehind
<1>5. ContextBehind'
  BY <1>2, PeripheralFields DEF ContextBehind
<1>6. StageBetween'
  BY <1>2, PeripheralFields DEF StageBetween
<1> QED
  BY <1>3, <1>4, <1>5, <1>6 DEF LatestGrows

\* What replication starts from.
origin == <<revision, context, exported>>

\* The steps that touch what replication starts from.
LEMMA OriginSteps ==
    ASSUME [Next]_vars
    PROVE  LightingChanges \/ ContextChanges \/ ExportReplica \/ QueueTransfer
           \/ UNCHANGED origin
<1> USE DEF origin, authority, central, vars
<1>1. CASE \/ LinkUp \/ LinkDown \/ PeripheralReboots
           \/ DeliverToPeripheral \/ LoseToPeripheral
           \/ DeliverToCentral \/ LoseToCentral \/ UNCHANGED vars
  BY <1>1 DEF LinkUp, LinkDown, PeripheralReboots, DeliverToPeripheral,
     LoseToPeripheral, DeliverToCentral, LoseToCentral
<1>2. CASE \/ CentralLinkChanged \/ CentralLightingChanged \/ CentralContextChanged
           \/ CentralReceives \/ ExportFails \/ CentralStatusRefresh
           \/ BackoffElapses \/ AckTimesOut
  BY <1>2 DEF CentralLinkChanged, CentralLightingChanged, CentralContextChanged,
     CentralReceives, ExportFails, CentralStatusRefresh, BackoffElapses, AckTimesOut
<1>3. CASE PeripheralStep \/ Heartbeat
  BY <1>3 DEF PeripheralStep, PeripheralLinkChanged, Process, ProcessStatusRequest,
     ProcessContextUpdate, ProcessBegin, ProcessPart, ProcessCommit, Takes, Heartbeat
<1>4. CASE WorkerStep \/ EngineRejects
  BY <1>4 DEF WorkerStep, WorkerTakesRequest, EngineApplies, EngineRejects,
     WorkerAcknowledges, WorkerTakesDiagnostic, WorkerReports
<1> QED
  BY <1>1, <1>2, <1>3, <1>4 DEF Next, CentralStep

\* The latest export never goes back.
LEMMA LatestStep == TypeOK /\ TypeOK' /\ AuthorityAhead /\ [Next]_vars => LatestGrows
<1> SUFFICES ASSUME TypeOK, TypeOK', AuthorityAhead, [Next]_vars PROVE LatestGrows
  OBVIOUS
<1>1. /\ revision \in Nat /\ context \in Nat
      /\ revision' \in Nat /\ context' \in Nat
  BY DEF TypeOK, AuthorityOK, Revisions, Contexts
<1>2. /\ exported # None => exported.revision \in Nat /\ exported.context \in Nat
      /\ exported' # None => exported'.revision \in Nat /\ exported'.context \in Nat
  BY ValueTypes DEF TypeOK, CentralOK
<1>3. Latest' \in TaggedContexts
  BY DEF TypeOK, CentralOK, AuthorityOK, Latest, TaggedContexts
<1>4. CASE LightingChanges
  <2>1. revision' = revision + 1 /\ context' = context /\ exported' = exported
    BY <1>4 DEF LightingChanges, central
  <2> QED
    BY <2>1, <1>1, <1>2, <1>3 DEF AuthorityAhead, Latest, LatestGrows
<1>5. CASE ContextChanges
  <2>1. revision' = revision /\ context' = context + 1 /\ exported' = exported
    BY <1>5 DEF ContextChanges, central
  <2> QED
    BY <2>1, <1>1, <1>2, <1>3 DEF AuthorityAhead, Latest, LatestGrows
<1>6. CASE ExportReplica
  <2>1. /\ revision' = revision /\ context' = context /\ exported = None
        /\ exported' = [revision |-> revision, context |-> context]
    BY <1>6 DEF ExportReplica, authority
  <2> QED
    BY <2>1, <1>1, <1>3 DEF AuthorityAhead, Latest, LatestGrows
<1>7. CASE QueueTransfer
  <2>1. revision' = revision /\ context' = context /\ exported' = None
    BY <1>7 DEF QueueTransfer, authority
  <2> QED
    BY <2>1, <1>1, <1>2, <1>3 DEF AuthorityAhead, Latest, LatestGrows
<1>8. CASE UNCHANGED origin
  BY <1>8, <1>1, <1>2, <1>3 DEF AuthorityAhead, Latest, LatestGrows, origin
<1> QED
  BY <1>4, <1>5, <1>6, <1>7, <1>8, OriginSteps

\* Every step but the queueing of a transfer leaves the path as it is or takes
\* packets off it.
LEMMA PathStep ==
    ASSUME TypeOK, [Next]_vars, ~ (QueueTransfer /\ Fits(TransferPackets))
    PROVE  Thinner(Path', Path)
<1>0. prx \in Seq(Message) /\ tx \in Seq(Message)
  BY DEF TypeOK, QueuesOK
<1>1. CASE DeliverToPeripheral
  BY <1>0, <1>1, DeliveredIsSame, SameIsThinner DEF DeliverToPeripheral, Path
<1>2. CASE LoseToPeripheral
  BY <1>0, <1>2, LostIsThinner DEF LoseToPeripheral, Path
<1>3. CASE PeripheralReboots
  BY <1>0, <1>3, DrainedIsThinner DEF PeripheralReboots, Path
<1>4. CASE PeripheralLinkChanged
  <2>1. CASE periph_watch = "down"
    BY <1>0, <1>4, <2>1, DrainedIsThinner DEF PeripheralLinkChanged, Path
  <2>2. CASE periph_watch # "down"
    BY <1>4, <2>2, SameIsThinner DEF PeripheralLinkChanged, Path
  <2> QED
    BY <2>1, <2>2
<1>5. CASE \E m \in Range(prx) : Process(m)
  <2>1. prx # <<>> /\ prx' = Tail(prx) /\ tx' = tx
    BY <1>5 DEF Process, ProcessStatusRequest, ProcessContextUpdate, ProcessBegin,
       ProcessPart, ProcessCommit, Takes
  <2> QED
    BY <1>0, <2>1, TakenIsThinner DEF Path
<1>6. CASE CentralStatusRefresh
  <2> DEFINE m == [type |-> "StatusRequest"]
  <2>1. m \in Message /\ ~ Replicates(m)
    BY DEF Message, Replicates
  <2>2. prx' = prx /\ tx' \in {tx, Append(tx, m)}
    BY <1>6 DEF CentralStatusRefresh
  <2> QED
    BY <1>0, <2>1, <2>2, RequestIsThinner, SameIsThinner DEF Path
<1>7. CASE UNCHANGED <<prx, tx>>
  BY <1>7, SameIsThinner DEF Path
<1>8. \/ DeliverToPeripheral \/ LoseToPeripheral \/ PeripheralReboots
      \/ PeripheralLinkChanged \/ (\E m \in Range(prx) : Process(m))
      \/ CentralStatusRefresh \/ UNCHANGED <<prx, tx>>
  <2> USE DEF queues, vars
  <2>1. CASE \/ LightingChanges \/ ContextChanges \/ LinkUp \/ LinkDown
             \/ DeliverToCentral \/ LoseToCentral \/ UNCHANGED vars
    BY <2>1 DEF LightingChanges, ContextChanges, LinkUp, LinkDown,
       DeliverToCentral, LoseToCentral
  <2>2. CASE \/ ExportReplica \/ CentralLinkChanged \/ CentralLightingChanged
             \/ CentralContextChanged \/ CentralReceives \/ ExportFails
             \/ BackoffElapses \/ AckTimesOut
    BY <2>2 DEF ExportReplica, CentralLinkChanged, CentralLightingChanged,
       CentralContextChanged, CentralReceives, ExportFails, BackoffElapses, AckTimesOut
  <2>3. CASE QueueTransfer
    BY <2>3 DEF QueueTransfer
  <2>4. CASE Heartbeat \/ WorkerStep \/ EngineRejects
    BY <2>4 DEF Heartbeat, WorkerStep, WorkerTakesRequest, EngineApplies,
       EngineRejects, WorkerAcknowledges, WorkerTakesDiagnostic, WorkerReports
  <2> QED
    BY <2>1, <2>2, <2>3, <2>4 DEF Next, CentralStep, PeripheralStep
<1> QED
  BY <1>1, <1>2, <1>3, <1>4, <1>5, <1>6, <1>7, <1>8

\* A packet taken from the inbox was the first of the path.
LEMMA TakenFirst ==
    ASSUME TypeOK, NEW m, Takes(m)
    PROVE  /\ Path # <<>> /\ Path[1] = m /\ m \in Message
           /\ Path \in Seq(Message) /\ Path' \in Seq(Message)
           /\ Thinner(Path', Path)
           /\ Replicates(m) => 1 \in Positions(Path)
           /\ \A i \in Positions(Path') :
                i \in Nat \ {0} /\ i + 1 \in Positions(Path) /\ Path'[i] = Path[i + 1]
<1>0. prx \in Seq(Message) /\ tx \in Seq(Message)
  BY DEF TypeOK, QueuesOK
<1>1. prx # <<>> /\ m = Head(prx) /\ prx' = Tail(prx) /\ tx' = tx
  BY DEF Takes
<1>2. /\ Thinner(Path', Path)
      /\ Len(Path) = Len(Path') + 1 /\ Path[1] = m
      /\ \A i \in 1 .. Len(Path') : Path'[i] = Path[i + 1]
  BY <1>0, <1>1, TakenIsThinner DEF Path
<1>3. Path \in Seq(Message) /\ Path' \in Seq(Message) /\ m \in Message
  BY <1>0, <1>1 DEF Path
<1>4. Len(Path) \in Nat /\ Len(Path') \in Nat
  BY <1>3
<1>5. Replicates(m) => 1 \in Positions(Path)
  BY <1>2, <1>4 DEF Positions
<1>6. \A i \in Positions(Path') :
        i \in Nat \ {0} /\ i + 1 \in Positions(Path) /\ Path'[i] = Path[i + 1]
  BY <1>2, <1>4 DEF Positions
<1>7. Path # <<>>
  BY <1>2, <1>4
<1> QED
  BY <1>2, <1>3, <1>5, <1>6, <1>7

\* What the rest of the path is to the packet m in front of it.
LEMMA BehindFirst ==
    ASSUME TypeOK, PathInOrder, NEW m, Takes(m), Replicates(m)
    PROVE  /\ m.revision \in Nat /\ m.generation \in GenerationSet
           /\ NothingOlder(m.revision, Path', Latest)
           /\ CarriesContext(m) =>
                m.context \in Nat /\ NoOlderContext(m.context, Path', Latest)
           /\ \A i \in Positions(Path') :
                /\ Closes(m) \/ Path'[i].type = "ContextUpdate" =>
                     Path'[i].generation # m.generation
                /\ Path'[i].generation = m.generation =>
                     \A j \in Positions(Path') :
                       j < i => Path'[j].generation = m.generation
<1>1. 1 \in Positions(Path) /\ Path[1] = m /\ Path \in Seq(Message) /\ Path' \in Seq(Message)
  BY TakenFirst
<1>2. \A i \in Positions(Path') :
        /\ i \in Nat \ {0} /\ i + 1 \in Positions(Path) /\ Path'[i] = Path[i + 1]
        /\ 1 < i + 1
  BY TakenFirst
<1>3. m.revision \in Nat /\ (CarriesContext(m) => m.context \in Nat) /\ m.generation \in GenerationSet
  BY <1>1, PositionFields
<1>4. NothingOlder(m.revision, Path', Latest)
  BY <1>1, <1>2 DEF NothingOlder, PathInOrder, WellOrdered, KnownTo
<1>5. CarriesContext(m) => NoOlderContext(m.context, Path', Latest)
  BY <1>1, <1>2 DEF NoOlderContext, PathInOrder, WellOrdered, KnownTo
<1>6. ASSUME NEW i \in Positions(Path')
      PROVE  /\ Closes(m) \/ Path'[i].type = "ContextUpdate" =>
                     Path'[i].generation # m.generation
             /\ Path'[i].generation = m.generation =>
                     \A j \in Positions(Path') :
                       j < i => Path'[j].generation = m.generation
  <2>1. Closes(m) \/ Path'[i].type = "ContextUpdate" => Path'[i].generation # m.generation
    BY <1>1, <1>2 DEF PathInOrder, WellOrdered
  <2>2. ASSUME Path'[i].generation = m.generation, NEW j \in Positions(Path'), j < i
        PROVE  Path'[j].generation = m.generation
    <3>1. /\ 1 < j + 1 /\ j + 1 < i + 1
          /\ j + 1 \in Positions(Path) /\ i + 1 \in Positions(Path)
      BY <1>2, <2>2
    <3>2. Path[1].generation = Path[i + 1].generation
      BY <1>1, <1>2, <2>2
    <3>3. Path[j + 1].generation = Path[1].generation
      BY <1>1, <3>1, <3>2 DEF PathInOrder, WellOrdered
    <3> QED
      BY <1>1, <1>2, <3>3
  <2> QED
    BY <2>1, <2>2
<1> QED
  BY <1>3, <1>4, <1>5, <1>6

\* The packets the peripheral takes, one kind at a time.
LEMMA UpdateKeepsOrder ==
    ASSUME TypeOK, OrderInv, LatestGrows, Latest' = Latest, NEW m, ProcessContextUpdate(m)
    PROVE  OrderInv'
<1> USE DEF OrderInv
<1>1. Takes(m) /\ m.type = "ContextUpdate" /\ UNCHANGED <<stage, slot, engine>>
  BY DEF ProcessContextUpdate
<1>2. CASE UNCHANGED periph_context
  BY <1>1, <1>2, TakenFirst, OrderKept
<1>3. CASE periph_context' = [revision |-> m.revision, context |-> m.context]
  <2>1. Replicates(m) /\ CarriesContext(m)
    BY <1>1 DEF Replicates, CarriesContext
  <2>2. ContextBehind'
    BY <1>1, <1>3, <2>1, BehindFirst DEF ContextBehind
  <2>3. Path \in Seq(Message) /\ Latest \in TaggedContexts /\ Thinner(Path', Path)
    BY <1>1, PathType, LatestType, TakenFirst
  <2>4. /\ KnownTo(Latest, Path) => KnownTo(Latest', Path')
        /\ \A r \in Nat : NothingOlder(r, Path, Latest) => NothingOlder(r, Path', Latest')
        /\ \A c \in Nat : NoOlderContext(c, Path, Latest) => NoOlderContext(c, Path', Latest')
        /\ \A s : RestOfStage(s, Path) => RestOfStage(s, Path')
    BY <2>3, ThinnerKeeps DEF LatestGrows
  <2>5. PathInOrder'
    BY <2>3, <2>4, ThinnerKeepsOrder DEF PathInOrder
  <2>6. EngineBehind'
    BY <1>1, <2>4, PeripheralFields DEF EngineBehind
  \* The stage was opened by packets in front of m: m, which closes a
  \* transfer of its own, is not followed by a Commit of the stage.
  <2>7. stage # None => CommitAdvances(stage, periph_context.context, Path)'
    <3> SUFFICES ASSUME stage # None, NEW k \in Positions(Path'),
                        Path'[k].generation = stage.generation
                 PROVE  FALSE
      BY <1>1 DEF CommitAdvances
    <3>1. /\ 1 \in Positions(Path) /\ Path[1] = m /\ 1 < k + 1
          /\ k + 1 \in Positions(Path) /\ Path[k + 1].generation = stage.generation
      BY <1>1, <2>1, TakenFirst
    <3>2. m.generation = stage.generation
      BY <3>1 DEF StageBetween, RestOfStage
    <3> QED
      BY <1>1, <3>1, <3>2 DEF StageBetween, RestOfStage
  <2>8. StageBetween'
    BY <1>1, <2>4, <2>7, PeripheralFields DEF StageBetween
  <2> QED
    BY <2>2, <2>5, <2>6, <2>8 DEF LatestGrows
<1> QED
  BY <1>2, <1>3 DEF ProcessContextUpdate

\* A begin opens a stage of what its packet names.
LEMMA BeginKeepsOrder ==
    ASSUME TypeOK, OrderInv, LatestGrows, Latest' = Latest, NEW m, ProcessBegin(m)
    PROVE  OrderInv'
<1> USE DEF OrderInv
<1>1. Takes(m) /\ m.type = "Begin" /\ UNCHANGED <<slot, engine, periph_context>>
  BY DEF ProcessBegin
<1>2. stage' = [generation |-> m.generation, revision |-> m.revision,
                context |-> 0, received |-> {}]
  BY DEF ProcessBegin
<1>3. Replicates(m) /\ 1 \in Positions(Path) /\ Path[1] = m
  BY <1>1, TakenFirst DEF Replicates
<1>4. Path \in Seq(Message) /\ Latest \in TaggedContexts /\ Thinner(Path', Path) /\ Path' \in Seq(Message)
  BY <1>1, PathType, LatestType, TakenFirst
<1>5. /\ KnownTo(Latest, Path) => KnownTo(Latest', Path')
      /\ \A r \in Nat : NothingOlder(r, Path, Latest) => NothingOlder(r, Path', Latest')
      /\ \A c \in Nat : NoOlderContext(c, Path, Latest) => NoOlderContext(c, Path', Latest')
  BY <1>4, ThinnerKeeps DEF LatestGrows
<1>6. PathInOrder'
  BY <1>4, <1>5, ThinnerKeepsOrder DEF PathInOrder
<1>7. EngineBehind'
  BY <1>1, <1>5, PeripheralFields DEF EngineBehind
<1>8. ContextBehind'
  BY <1>1, <1>5, PeripheralFields DEF ContextBehind
<1>9. StageBetween'
  <2>1. engine.revision <= m.revision /\ (slot # None => slot.revision <= m.revision)
    BY <1>3 DEF EngineBehind, NothingOlder
  <2>2. NothingOlder(m.revision, Path', Latest')
    BY <1>1, <1>3, BehindFirst
  <2>3. NoOlderContext(0, Path', Latest')
    <3>1. NoOlderContext(periph_context.context, Path', Latest') /\ periph_context.context \in Nat
      BY <1>5, PeripheralFields DEF ContextBehind
    <3>2. \A i \in Positions(Path') : CarriesContext(Path'[i]) => Path'[i].context \in Nat
      BY <1>4, PositionFields
    <3> QED
      BY <1>4, <3>1, <3>2, ValueTypes DEF NoOlderContext
  <2>4. RestOfStage(stage', Path')
    BY <1>1, <1>2, <1>3, BehindFirst DEF RestOfStage
  <2>5. CommitAdvances(stage', periph_context'.context, Path')
    BY <1>2 DEF CommitAdvances
  <2> QED
    BY <1>1, <1>2, <2>1, <2>2, <2>3, <2>4, <2>5 DEF StageBetween
<1> QED
  BY <1>6, <1>7, <1>8, <1>9 DEF LatestGrows

\* A part only adds to the stage of its own transfer.
LEMMA PartKeepsOrder ==
    ASSUME TypeOK, OrderInv, LatestGrows, Latest' = Latest, NEW m, ProcessPart(m)
    PROVE  OrderInv'
<1> USE DEF OrderInv
<1>1. Takes(m) /\ m.type \in {"Body", "Gate"} /\ UNCHANGED <<slot, engine, periph_context>>
  BY DEF ProcessPart
<1>2. CASE stage' = None
  BY <1>1, <1>2, TakenFirst, OrderKept
<1>3. CASE StageMatches(m) /\ stage' # None
  <2>1. stage \in Stages /\ stage.revision \in Nat /\ stage.context \in Nat /\ stage # None
    BY <1>3, ValueTypes DEF StageMatches, TypeOK, PeripheralOK
  <2>2. stage' = [stage EXCEPT !.received = @ \cup {m.type},
                               !.context = IF m.type = "Body" THEN m.context ELSE @]
    BY <1>3 DEF ProcessPart
  <2>3. /\ stage'.generation = stage.generation /\ stage'.revision = stage.revision
        /\ stage'.received = stage.received \cup {m.type}
        /\ stage'.context = IF m.type = "Body" THEN m.context ELSE stage.context
    BY <2>1, <2>2 DEF Stages
  <2>4. Replicates(m) /\ 1 \in Positions(Path) /\ Path[1] = m
    BY <1>1, TakenFirst DEF Replicates
  <2>5. Path \in Seq(Message) /\ Latest \in TaggedContexts /\ Thinner(Path', Path)
    BY <1>1, PathType, LatestType, TakenFirst
  <2>6. /\ KnownTo(Latest, Path) => KnownTo(Latest', Path')
        /\ \A r \in Nat : NothingOlder(r, Path, Latest) => NothingOlder(r, Path', Latest')
        /\ \A c \in Nat : NoOlderContext(c, Path, Latest) => NoOlderContext(c, Path', Latest')
        /\ \A s : RestOfStage(s, Path) => RestOfStage(s, Path')
        /\ \A s, c : CommitAdvances(s, c, Path) => CommitAdvances(s, c, Path')
    BY <2>5, ThinnerKeeps DEF LatestGrows
  <2>7. PathInOrder'
    BY <2>5, <2>6, ThinnerKeepsOrder DEF PathInOrder
  <2>8. EngineBehind'
    BY <1>1, <2>6, PeripheralFields DEF EngineBehind
  <2>9. ContextBehind'
    BY <1>1, <2>6, PeripheralFields DEF ContextBehind
  <2>10. StageBetween'
    <3>1. NothingOlder(stage'.revision, Path', Latest')
      BY <2>1, <2>3, <2>6 DEF StageBetween
    <3>2. NoOlderContext(stage'.context, Path', Latest')
      <4>1. CASE m.type = "Body"
        BY <1>1, <2>3, <2>4, <4>1, BehindFirst DEF CarriesContext
      <4>2. CASE m.type # "Body"
        BY <2>1, <2>3, <2>6, <4>2 DEF StageBetween
      <4> QED
        BY <4>1, <4>2
    <3>3. RestOfStage(stage', Path')
      BY <2>1, <2>3, <2>6 DEF StageBetween, RestOfStage
    <3>4. CommitAdvances(stage', periph_context'.context, Path')
      <4>1. CASE m.type = "Body"
        <5>1. periph_context.context <= m.context
          BY <2>4, <4>1 DEF ContextBehind, NoOlderContext, CarriesContext
        <5> QED
          BY <1>1, <2>3, <4>1, <5>1 DEF CommitAdvances
      <4>2. CASE m.type = "Gate"
        <5>1. CommitAdvances(stage, periph_context.context, Path')
          BY <2>1, <2>6 DEF StageBetween
        <5>2. "Body" \in stage'.received <=> "Body" \in stage.received
          BY <2>3, <4>2
        <5> QED
          BY <1>1, <2>3, <4>2, <5>1, <5>2 DEF CommitAdvances
      <4> QED
        BY <1>1, <4>1, <4>2
    <3> QED
      BY <1>1, <2>1, <2>3, <3>1, <3>2, <3>3, <3>4 DEF StageBetween
  <2> QED
    BY <2>7, <2>8, <2>9, <2>10 DEF LatestGrows
<1> QED
  BY <1>2, <1>3 DEF ProcessPart

\* A commit hands over what was staged, which is no older than what is shown.
LEMMA CommitKeepsOrder ==
    ASSUME TypeOK, OrderInv, LatestGrows, Latest' = Latest, NEW m, ProcessCommit(m)
    PROVE  OrderInv'
<1> USE DEF OrderInv
<1>1. Takes(m) /\ m.type = "Commit" /\ UNCHANGED engine /\ stage' = None
  BY DEF ProcessCommit
<1>2. Replicates(m) /\ 1 \in Positions(Path) /\ Path[1] = m
  BY <1>1, TakenFirst DEF Replicates
<1>3. Path \in Seq(Message) /\ Latest \in TaggedContexts /\ Thinner(Path', Path)
  BY <1>1, PathType, LatestType, TakenFirst
<1>4. /\ KnownTo(Latest, Path) => KnownTo(Latest', Path')
      /\ \A r \in Nat : NothingOlder(r, Path, Latest) => NothingOlder(r, Path', Latest')
      /\ \A c \in Nat : NoOlderContext(c, Path, Latest) => NoOlderContext(c, Path', Latest')
  BY <1>3, ThinnerKeeps DEF LatestGrows
<1>5. CASE ~ StageComplete(m)
  BY <1>1, <1>3, <1>5, OrderKept DEF ProcessCommit
<1>6. CASE StageComplete(m)
  <2>1. /\ stage # None /\ stage \in Stages /\ stage.revision \in Nat /\ stage.context \in Nat
        /\ stage.generation = m.generation /\ "Body" \in stage.received
    BY <1>6, ValueTypes DEF StageComplete, StageMatches, TypeOK, PeripheralOK
  <2>2. periph_context'.context = stage.context
    BY <1>6 DEF ProcessCommit
  <2>3. \/ slot' = slot
        \/ slot' # None /\ slot'.revision = stage.revision
    <3>1. StagedDurable.revision = stage.revision /\ StagedDurable # None
      BY <2>1, StagedDurableType, NoneIsNot DEF StagedDurable
    <3> QED
      BY <1>6, <3>1 DEF ProcessCommit
  <2>4. PathInOrder'
    BY <1>3, <1>4, ThinnerKeepsOrder DEF PathInOrder
  <2>5. EngineBehind'
    BY <1>1, <1>4, <2>1, <2>3, PeripheralFields DEF EngineBehind, StageBetween
  <2>6. ContextBehind'
    BY <1>4, <2>1, <2>2 DEF ContextBehind, StageBetween
  <2>7. StageBetween'
    BY <1>1 DEF StageBetween
  <2> QED
    BY <2>4, <2>5, <2>6, <2>7 DEF LatestGrows
<1> QED
  BY <1>5, <1>6

\* The engine takes the slot; the peripheral reboots.
LEMMA ApplyKeepsOrder ==
    ASSUME TypeOK, OrderInv, LatestGrows, Path' = Path, Latest' = Latest, EngineApplies
    PROVE  OrderInv'
<1> USE DEF OrderInv
<1>1. slot # None /\ engine' = slot /\ slot' = None /\ UNCHANGED <<stage, periph_context>>
  BY DEF EngineApplies
<1> QED
  BY <1>1 DEF LatestGrows, PathInOrder, EngineBehind, ContextBehind, StageBetween

\* A reboot of the peripheral starts with the oldest state there is.
LEMMA RebootKeepsOrder ==
    ASSUME TypeOK, OrderInv, LatestGrows, Thinner(Path', Path), Path' \in Seq(Message),
           PeripheralReboots
    PROVE  OrderInv'
<1> USE DEF OrderInv
<1>1. /\ stage' = None /\ slot' = None
      /\ engine'.revision = 0 /\ periph_context'.context = 0
  BY DEF PeripheralReboots, BootDurable, BootContext
<1>2. Path \in Seq(Message) /\ Latest \in TaggedContexts
  BY PathType, LatestType
<1>3. PathInOrder'
  BY <1>2, ThinnerKeeps, ThinnerKeepsOrder DEF PathInOrder, LatestGrows
<1>4. \A i \in Positions(Path') :
        /\ 0 <= Path'[i].revision
        /\ CarriesContext(Path'[i]) => 0 <= Path'[i].context
  BY PositionFields
<1>5. 0 <= Latest'.revision /\ 0 <= Latest'.context
  BY ValueTypes DEF LatestGrows
<1> QED
  BY <1>1, <1>3, <1>4, <1>5
     DEF LatestGrows, EngineBehind, ContextBehind, StageBetween, NothingOlder, NoOlderContext

\* A transfer behind the path keeps every bound.
LEMMA JoinedKeeps ==
    ASSUME NEW p \in Seq(Message), NEW s, NEW g \in GenerationSet,
           NEW x \in TaggedContexts, NEW y \in TaggedContexts, IsTransfer(s, g, x),
           x.revision <= y.revision, x.context <= y.context, KnownTo(x, p)
    PROVE  /\ KnownTo(y, p \o s)
           /\ \A r \in Nat : NothingOlder(r, p, x) => NothingOlder(r, p \o s, y)
           /\ \A c \in Nat : NoOlderContext(c, p, x) => NoOlderContext(c, p \o s, y)
           /\ \A t : t.generation # g /\ RestOfStage(t, p) => RestOfStage(t, p \o s)
           /\ \A t, c : t.generation # g /\ CommitAdvances(t, c, p) =>
                CommitAdvances(t, c, p \o s)
<1> SUFFICES ASSUME NEW q, q = p \o s
             PROVE  /\ KnownTo(y, q)
                    /\ \A r \in Nat : NothingOlder(r, p, x) => NothingOlder(r, q, y)
                    /\ \A c \in Nat : NoOlderContext(c, p, x) => NoOlderContext(c, q, y)
                    /\ \A t : t.generation # g /\ RestOfStage(t, p) => RestOfStage(t, q)
                    /\ \A t, c : t.generation # g /\ CommitAdvances(t, c, p) =>
                         CommitAdvances(t, c, q)
  OBVIOUS
<1>1. /\ x.revision \in Nat /\ x.context \in Nat /\ y.revision \in Nat /\ y.context \in Nat
  BY ValueTypes
<1>2. \A i \in Positions(q) :
        \/ i \in Positions(p) /\ q[i] = p[i]
        \/ /\ i \in Nat /\ i > Len(p) /\ q[i].generation = g /\ q[i].revision = x.revision
           /\ CarriesContext(q[i]) => q[i].context = x.context
  <2> SUFFICES ASSUME NEW i \in Positions(p \o s), i \notin Positions(p) \/ (p \o s)[i] # p[i]
               PROVE  /\ i \in Nat /\ i > Len(p) /\ (p \o s)[i].generation = g
                      /\ (p \o s)[i].revision = x.revision
                      /\ CarriesContext((p \o s)[i]) => (p \o s)[i].context = x.context
    OBVIOUS
  <2>1. s \in Seq(Message)
    BY DEF IsTransfer
  <2>2. i - Len(p) \in Positions(s) /\ (p \o s)[i] = s[i - Len(p)] /\ i > Len(p)
    BY <2>1, JoinedPositions
  <2>3. i - Len(p) \in 1 .. Len(s) /\ i \in Nat
    BY <2>1, <2>2 DEF Positions
  <2> QED
    BY <2>2, <2>3 DEF IsTransfer
<1>3. \A i \in Positions(p) :
        /\ i \in Nat /\ i <= Len(p) /\ p[i].revision \in Nat
        /\ CarriesContext(p[i]) => p[i].context \in Nat
  BY PositionFields
<1>4. KnownTo(y, q)
  <2> SUFFICES ASSUME NEW i \in Positions(q)
               PROVE  /\ q[i].revision <= y.revision
                      /\ CarriesContext(q[i]) => q[i].context <= y.context
    BY DEF KnownTo
  <2>1. CASE i \in Positions(p) /\ q[i] = p[i]
    BY <1>1, <1>3, <2>1 DEF KnownTo
  <2>2. CASE ~ (i \in Positions(p) /\ q[i] = p[i])
    BY <1>1, <1>2, <2>2
  <2> QED
    BY <2>1, <2>2
<1>5. ASSUME NEW r \in Nat, NothingOlder(r, p, x) PROVE NothingOlder(r, q, y)
  <2>1. r <= x.revision /\ r <= y.revision
    BY <1>1, <1>5 DEF NothingOlder
  <2>2. ASSUME NEW i \in Positions(q) PROVE r <= q[i].revision
    BY <1>2, <1>5, <2>1 DEF NothingOlder
  <2> QED
    BY <2>1, <2>2 DEF NothingOlder
<1>6. ASSUME NEW c \in Nat, NoOlderContext(c, p, x) PROVE NoOlderContext(c, q, y)
  <2>1. c <= x.context /\ c <= y.context
    BY <1>1, <1>6 DEF NoOlderContext
  <2>2. ASSUME NEW i \in Positions(q), CarriesContext(q[i]) PROVE c <= q[i].context
    BY <1>2, <1>6, <2>1, <2>2 DEF NoOlderContext
  <2> QED
    BY <2>1, <2>2 DEF NoOlderContext
<1>7. \A t : t.generation # g /\ RestOfStage(t, p) => RestOfStage(t, q)
  <2> SUFFICES ASSUME NEW t, t.generation # g, RestOfStage(t, p),
                      NEW k \in Positions(q), q[k].generation = t.generation
               PROVE  /\ q[k].type # "ContextUpdate"
                      /\ \A j \in Positions(q) : j < k => q[j].generation = t.generation
    BY DEF RestOfStage
  <2>1. k \in Positions(p) /\ q[k] = p[k] /\ k <= Len(p) /\ k \in Nat
    BY <1>2, <1>3
  <2>2. ASSUME NEW j \in Positions(q), j < k PROVE j \in Positions(p) /\ q[j] = p[j]
    <3>1. CASE j > Len(p) /\ j \in Nat
      BY <2>1, <2>2, <3>1
    <3> QED
      BY <1>2, <3>1
  <2> QED
    BY <2>1, <2>2 DEF RestOfStage
<1>8. \A t, c : t.generation # g /\ CommitAdvances(t, c, p) => CommitAdvances(t, c, q)
  BY <1>2 DEF CommitAdvances
<1> QED
  BY <1>4, <1>5, <1>6, <1>7, <1>8

\* A fresh generation occurs nowhere on the path or in the peripheral.
LEMMA FreshGeneration ==
    ASSUME TypeOK, GenerationFresh
    PROVE  /\ \A i \in Positions(Path) : Path[i].generation # NextGeneration
           /\ stage # None => stage.generation # NextGeneration
<1>1. ASSUME NEW i \in Positions(Path)
      PROVE  Path[i] \in Range(prx) \cup Range(tx) /\ Replicates(Path[i])
  <2>1. prx \in Seq(Message) /\ tx \in Seq(Message) /\ i \in 1 .. Len(prx \o tx)
    BY DEF TypeOK, QueuesOK, Positions, Path
  <2>2. Path[i] \in Range(prx) \cup Range(tx)
    BY <2>1 DEF Range, Path
  <2> QED
    BY <2>2 DEF Positions
<1> QED
  BY <1>1 DEF GenerationFresh, InFlight, Replicates

\* A new transfer is in order: its generation is nowhere in flight, and what it
\* carries is the latest export.
LEMMA QueueKeepsOrder ==
    ASSUME TypeOK, OrderInv, LatestGrows, QueueTransfer, Fits(TransferPackets)
    PROVE  OrderInv'
<1> USE DEF OrderInv
<1> DEFINE g == NextGeneration
<1>1. /\ exported \in TaggedContexts /\ Latest = exported /\ g \in GenerationSet
      /\ UNCHANGED <<stage, slot, engine, periph_context>>
  BY GenerationType DEF QueueTransfer, TypeOK, CentralOK, Latest, peripheral
<1>2. IsTransfer(TransferPackets, g, exported)
  BY <1>1, SnapshotIsTransfer, UpdateIsTransfer DEF TransferPackets
<1>3. Path' = Path \o TransferPackets /\ Path \in Seq(Message)
  <2>1. prx' = prx /\ tx' = tx \o TransferPackets
    BY DEF QueueTransfer
  <2>2. prx \in Seq(Message) /\ tx \in Seq(Message) /\ TransferPackets \in Seq(Message)
    BY <1>2 DEF TypeOK, QueuesOK, IsTransfer
  <2> QED
    BY <2>1, <2>2 DEF Path
<1>4. /\ \A i \in Positions(Path) : Path[i].generation # g
      /\ stage # None => stage.generation # g
  BY FreshGeneration DEF QueueTransfer
<1> HIDE DEF g
<1>5. /\ KnownTo(Latest', Path')
      /\ \A r \in Nat : NothingOlder(r, Path, Latest) => NothingOlder(r, Path', Latest')
      /\ \A c \in Nat : NoOlderContext(c, Path, Latest) => NoOlderContext(c, Path', Latest')
      /\ \A t : t.generation # g /\ RestOfStage(t, Path) => RestOfStage(t, Path')
      /\ \A t, c : t.generation # g /\ CommitAdvances(t, c, Path) => CommitAdvances(t, c, Path')
  BY <1>1, <1>2, <1>3, JoinedKeeps DEF LatestGrows, PathInOrder
<1>6. PathInOrder'
  <2>1. WellOrdered(Path')
    BY <1>1, <1>2, <1>3, <1>4, TransferKeepsOrder DEF PathInOrder, KnownTo
  <2> QED
    BY <1>5, <2>1 DEF PathInOrder
<1>7. EngineBehind'
  BY <1>1, <1>5, PeripheralFields DEF EngineBehind
<1>8. ContextBehind'
  BY <1>1, <1>5, PeripheralFields DEF ContextBehind
<1>9. StageBetween'
  BY <1>1, <1>4, <1>5, PeripheralFields DEF StageBetween
<1> QED
  BY <1>6, <1>7, <1>8, <1>9 DEF LatestGrows

\* Steps of the peripheral that hand a snapshot on, and all others.
LEMMA PeripheralSteps ==
    ASSUME TypeOK, [Next]_vars
    PROVE  \/ \E m : ProcessContextUpdate(m) \/ ProcessBegin(m) \/ ProcessPart(m) \/ ProcessCommit(m)
           \/ EngineApplies \/ PeripheralReboots
           \/ /\ stage' \in {stage, None} /\ slot' \in {slot, None}
              /\ UNCHANGED <<engine, periph_context>>
<1> USE DEF peripheral, vars
<1>1. CASE \/ LightingChanges \/ ContextChanges \/ LinkUp \/ LinkDown
           \/ DeliverToPeripheral \/ LoseToPeripheral
           \/ DeliverToCentral \/ LoseToCentral \/ UNCHANGED vars
  BY <1>1 DEF LightingChanges, ContextChanges, LinkUp, LinkDown, DeliverToPeripheral,
     LoseToPeripheral, DeliverToCentral, LoseToCentral
<1>2. CASE \/ CentralStep \/ ExportFails \/ CentralStatusRefresh
           \/ BackoffElapses \/ AckTimesOut
  BY <1>2 DEF CentralStep, ExportReplica, QueueTransfer, CentralLinkChanged,
     CentralLightingChanged, CentralContextChanged, CentralReceives, ExportFails,
     CentralStatusRefresh, BackoffElapses, AckTimesOut
<1>3. CASE Heartbeat \/ PeripheralLinkChanged \/ \E m : ProcessStatusRequest(m)
  BY <1>3 DEF Heartbeat, PeripheralLinkChanged, ProcessStatusRequest
<1>4. CASE WorkerStep \/ EngineRejects
  BY <1>4 DEF WorkerStep, WorkerTakesRequest, EngineRejects, WorkerAcknowledges,
     WorkerTakesDiagnostic, WorkerReports
<1> QED
  BY <1>1, <1>2, <1>3, <1>4 DEF Next, PeripheralStep, Process

\* Taking a packet leaves alone what the central sends next.
LEMMA ProcessOrigin ==
    ASSUME NEW m, Takes(m) PROVE Latest' = Latest
BY DEF Takes, authority, central, Latest

\* Every step keeps the invariant.
LEMMA OrderStep == TypeOK /\ TypeOK' /\ OrderInv /\ [Next]_vars => OrderInv'
<1> SUFFICES ASSUME TypeOK, TypeOK', OrderInv, [Next]_vars PROVE OrderInv'
  OBVIOUS
<1>1. LatestGrows
  BY LatestStep DEF OrderInv
<1>2. CASE QueueTransfer /\ Fits(TransferPackets)
  BY <1>1, <1>2, QueueKeepsOrder
<1>3. CASE ~ (QueueTransfer /\ Fits(TransferPackets))
  <2>1. Thinner(Path', Path)
    BY <1>3, PathStep
  <2>2. ASSUME NEW m, \/ ProcessContextUpdate(m) \/ ProcessBegin(m)
                      \/ ProcessPart(m) \/ ProcessCommit(m)
        PROVE  OrderInv'
    <3>1. Latest' = Latest
      BY <2>2, ProcessOrigin
         DEF ProcessContextUpdate, ProcessBegin, ProcessPart, ProcessCommit
    <3> QED
      BY <1>1, <2>2, <3>1, UpdateKeepsOrder, BeginKeepsOrder, PartKeepsOrder,
         CommitKeepsOrder
  <2>3. CASE EngineApplies
    <3>1. Path' = Path /\ Latest' = Latest
      BY <2>3 DEF EngineApplies, authority, central, queues, Path, Latest
    <3> QED
      BY <1>1, <2>3, <3>1, ApplyKeepsOrder
  <2>4. CASE PeripheralReboots
    <3>1. Path' \in Seq(Message)
      BY DEF TypeOK, QueuesOK, Path
    <3> QED
      BY <1>1, <2>1, <2>4, <3>1, RebootKeepsOrder
  <2>5. CASE /\ stage' \in {stage, None} /\ slot' \in {slot, None}
             /\ UNCHANGED <<engine, periph_context>>
    BY <1>1, <2>1, <2>5, OrderKept
  <2> QED
    BY <2>2, <2>3, <2>4, <2>5, PeripheralSteps
<1> QED
  BY <1>2, <1>3

\* Whatever is lost, drained, refused or interrupted by a reboot, the queues from
\* the central (SPLIT_APP_TX, SPLIT_APP_RX), the open SnapshotStage and
\* REPLICA_SLOT never hold an engine state or context older than the one the
\* peripheral shows, and the packets of a transfer stay together.
THEOREM PathStaysInOrder == Spec => []OrderInv
BY InitOrder, OrderStep, ReplicationTypeCorrect, PTL DEF Spec

-----------------------------------------------------------------------------
(* Replication implements ReplicaAbstract.                                 *)

\* Until it reboots, neither the engine state nor the context of the
\* peripheral goes back.
LEMMA ReplicaAdvances ==
    ASSUME TypeOK, OrderInv, [Next]_vars, ~ PeripheralReboots
    PROVE  /\ engine.revision <= engine'.revision
           /\ periph_context.context <= periph_context'.context
<1>0. engine.revision \in Nat /\ periph_context.context \in Nat
  BY PeripheralFields
<1>1. ASSUME NEW m, ProcessContextUpdate(m)
      PROVE  engine' = engine /\ periph_context.context <= periph_context'.context
  <2>1. /\ Takes(m) /\ m.type = "ContextUpdate" /\ engine' = engine
        /\ periph_context' \in {periph_context,
                                [revision |-> m.revision, context |-> m.context]}
    BY <1>1 DEF ProcessContextUpdate
  <2>2. 1 \in Positions(Path) /\ Path[1] = m
    BY <2>1, TakenFirst DEF Replicates
  <2>3. periph_context.context <= m.context
    BY <2>1, <2>2 DEF OrderInv, ContextBehind, NoOlderContext, CarriesContext
  <2> QED
    BY <1>0, <2>1, <2>3
<1>2. ASSUME NEW m, ProcessCommit(m)
      PROVE  engine' = engine /\ periph_context.context <= periph_context'.context
  <2>1. /\ Takes(m) /\ m.type = "Commit" /\ engine' = engine
        /\ IF StageComplete(m)
           THEN periph_context' = [revision |-> stage.revision, context |-> stage.context]
           ELSE periph_context' = periph_context
    BY <1>2 DEF ProcessCommit
  <2>2. 1 \in Positions(Path) /\ Path[1] = m
    BY <2>1, TakenFirst DEF Replicates
  <2>3. StageComplete(m) => periph_context.context <= stage.context
    BY <2>1, <2>2 DEF StageComplete, StageMatches, OrderInv, StageBetween, CommitAdvances
  <2> QED
    BY <1>0, <2>1, <2>3
<1>3. ASSUME NEW m, ProcessBegin(m) \/ ProcessPart(m)
      PROVE  UNCHANGED <<engine, periph_context>>
  BY <1>3 DEF ProcessBegin, ProcessPart
<1>4. CASE EngineApplies
  BY <1>0, <1>4 DEF EngineApplies, OrderInv, EngineBehind
<1> QED
  BY <1>0, <1>1, <1>2, <1>3, <1>4, PeripheralSteps

\* The refinement: initial states, then steps.
LEMMA ReplicaInit == Init => Replica!Init
BY DEF Init, Replica!Init, Replica!Boot, BootDurable, BootContext

\* Every step is a step of the abstract replica, or leaves it alone.
LEMMA ReplicaStep ==
    TypeOK /\ TypeOK' /\ OrderInv /\ OrderInv' /\ [Next]_vars => [Replica!Next]_(Replica!vars)
<1> SUFFICES ASSUME TypeOK, TypeOK', OrderInv, OrderInv', [Next]_vars
             PROVE  [Replica!Next]_(Replica!vars)
  OBVIOUS
<1> USE DEF Replica!Next, Replica!vars
<1>1. CASE LightingChanges
  <2>1. Replica!Change
    BY <1>1 DEF LightingChanges, peripheral, Replica!Change
  <2> QED
    BY <2>1
<1>2. CASE ContextChanges
  <2>1. Replica!Change
    BY <1>2 DEF ContextChanges, peripheral, Replica!Change
  <2> QED
    BY <2>1
<1>3. CASE PeripheralReboots
  <2>1. Replica!Reboot
    BY <1>3 DEF PeripheralReboots, authority, Replica!Reboot, Replica!Boot,
       BootDurable, BootContext
  <2> QED
    BY <2>1
<1>4. CASE ~ LightingChanges /\ ~ ContextChanges /\ ~ PeripheralReboots
  <2>1. revision' = revision /\ context' = context
    BY <1>4, OriginSteps DEF origin, ExportReplica, QueueTransfer, authority
  <2>2. /\ engine.revision <= engine'.revision
        /\ periph_context.context <= periph_context'.context
    BY <1>4, ReplicaAdvances
  <2>3. /\ engine.revision \in Nat /\ periph_context.context \in Nat
        /\ engine'.revision \in Nat /\ periph_context'.context \in Nat
    BY ValueTypes DEF TypeOK, PeripheralOK
  <2>4. engine'.revision <= revision' /\ periph_context'.context <= context'
    <3>1. /\ engine'.revision <= Latest'.revision /\ Latest'.revision <= revision'
          /\ periph_context'.context <= Latest'.context /\ Latest'.context <= context'
      BY DEF OrderInv, EngineBehind, ContextBehind, AuthorityAhead, NothingOlder,
         NoOlderContext
    <3>2. Latest' \in TaggedContexts /\ revision' \in Nat /\ context' \in Nat
      BY DEF TypeOK, CentralOK, AuthorityOK, Latest, TaggedContexts, Revisions, Contexts
    <3> QED
      BY <2>3, <3>1, <3>2, ValueTypes
  <2>5. revision \in Nat /\ context \in Nat
    BY DEF TypeOK, AuthorityOK, Revisions, Contexts
  <2>6. Replica!Advance
    BY <2>1, <2>2, <2>3, <2>4, <2>5 DEF Replica!Advance
  <2> QED
    BY <2>6
<1> QED
  BY <1>1, <1>2, <1>3, <1>4

\* Until it reboots, the peripheral shows states the central had before and never
\* goes back to an older engine state or context, though packets of earlier
\* transfers may still be queued when CentralReplication starts a new session:
\* every step of the replication is a step of ReplicaAbstract or changes nothing
\* the abstraction sees.
THEOREM ReplicationImplementsReplica == Spec => ReplicaOnlyAdvances
<1>1. Init => Replica!Init
  BY ReplicaInit
<1>2. TypeOK /\ TypeOK' /\ OrderInv /\ OrderInv' /\ [Next]_vars => [Replica!Next]_(Replica!vars)
  BY ReplicaStep
<1> QED
  BY <1>1, <1>2, ReplicationTypeCorrect, PathStaysInOrder, PTL
     DEF Spec, ReplicaOnlyAdvances, Replica!Spec

-----------------------------------------------------------------------------
(***************************************************************************)
(* What the central believes acknowledged in this session the peripheral   *)
(* has applied, for every value of the constants. The argument follows an  *)
(* Ack from the worker to the central's receive arm: it never names a      *)
(* revision the engine has not reached, it survives neither a reboot of    *)
(* the peripheral (which the central sees as a link edge) nor a reuse of   *)
(* its generation.                                                         *)
(***************************************************************************)

\* What the peripheral has acknowledged it has applied since it booted.
RepliesBehindEngine ==
    /\ last_applied <= engine.revision
    /\ \A m \in Range(ptx) : m.type = "Ack" => m.revision <= engine.revision

\* Between sessions the central waits for nothing and holds no export.
Dormant ==
    /\ ~ link_up /\ exported = None /\ awaiting_ack = None
    /\ last_acked_revision = 0

\* The central sees every edge of the link: with no edge pending the link is up,
\* or the central knows it is down.
LinkKnown ==
    /\ central_watch = "up" => link
    /\ central_watch = "seen" => link \/ Dormant

\* With no edge pending, neither the acknowledged revision nor an Ack of the
\* awaited generation is ahead of the engine.
AcksBehindEngine ==
    central_watch = "seen" =>
        /\ last_acked_revision <= engine.revision
        /\ awaiting_ack # None =>
             \A m \in Range(crx) :
               m.type = "Ack" /\ m.generation = awaiting_ack.generation =>
                 m.revision <= engine.revision

\* The inductive invariant.
SessionInv == RepliesBehindEngine /\ LinkKnown /\ AcksBehindEngine

\* What Tail, Append and try_send leave in a queue.
LEMMA RangeTail ==
    ASSUME NEW q \in Seq(Message), q # <<>>
    PROVE  Range(Tail(q)) \subseteq Range(q) /\ Head(q) \in Range(q)
BY DEF Range

\* Appending adds one member.
LEMMA RangeAppend ==
    ASSUME NEW q \in Seq(Message), NEW m \in Message
    PROVE  /\ Range(Append(q, m)) = Range(q) \cup {m}
           /\ Range(TrySend(q, m)) \subseteq Range(q) \cup {m}
           /\ Range(TrySendDiagnostic(q, m)) \subseteq Range(q) \cup {m}
<1>1. /\ Len(Append(q, m)) = Len(q) + 1 /\ Len(q) \in Nat
      /\ Append(q, m)[Len(q) + 1] = m
      /\ \A i \in 1 .. Len(q) : Append(q, m)[i] = q[i]
  OBVIOUS
<1>2. /\ DOMAIN Append(q, m) = 1 .. Len(q) + 1 /\ DOMAIN q = 1 .. Len(q)
  OBVIOUS
<1>3. Range(Append(q, m)) = Range(q) \cup {m}
  BY <1>1, <1>2 DEF Range
<1> QED
  BY <1>3 DEF TrySend, TrySendDiagnostic

\* The members of a queue are messages.
LEMMA RangeMessages ==
    ASSUME NEW q \in Seq(Message) PROVE Range(q) \subseteq Message
BY DEF Range

\* An Ack has a revision and a generation.
LEMMA AckFields ==
    /\ \A m \in Message : m.type = "Ack" => m.revision \in Nat /\ m.generation \in GenerationSet
    /\ \A g, r : Ack(g, r).type = "Ack" /\ Ack(g, r).generation = g /\ Ack(g, r).revision = r
    /\ \A d : Attestation(d).type = "Attestation"
BY DEF Message, Ack, Packet, Attestation, Revisions

\* The invariant of the session holds at boot.
LEMMA InitSession == Init => SessionInv
<1> SUFFICES ASSUME Init PROVE SessionInv
  OBVIOUS
<1>1. RepliesBehindEngine
  BY DEF Init, RepliesBehindEngine, Range, BootDurable
<1>2. LinkKnown
  BY DEF Init, LinkKnown, Dormant
<1>3. AcksBehindEngine
  BY DEF Init, AcksBehindEngine, BootDurable
<1> QED
  BY <1>1, <1>2, <1>3 DEF SessionInv

\* The replies a step adds to the peripheral's queue.
LEMMA ReplyStep ==
    ASSUME TypeOK, [Next]_vars
    PROVE  \/ Range(ptx') \subseteq Range(ptx)
           \/ \E m : ProcessContextUpdate(m) /\ last_applied = m.revision
                     /\ Range(ptx') \subseteq Range(ptx) \cup {Ack(m.generation, m.revision)}
           \/ /\ WorkerAcknowledges
              /\ Range(ptx') \subseteq
                   Range(ptx) \cup {Ack(worker.request.generation, worker.request.digests.revision),
                                    Attestation(worker.request.digests)}
           \/ Heartbeat /\ Range(ptx') \subseteq Range(ptx) \cup {Attestation(last_digests)}
           \/ WorkerReports /\ Range(ptx') \subseteq Range(ptx) \cup {[type |-> "StatusReport"]}
<1>0. ptx \in Seq(Message)
  BY DEF TypeOK, QueuesOK
<1>1. CASE UNCHANGED ptx
  BY <1>1
<1>2. CASE DeliverToCentral \/ LoseToCentral
  BY <1>0, <1>2, RangeTail DEF DeliverToCentral, LoseToCentral
<1>3. CASE PeripheralReboots
  BY <1>3 DEF PeripheralReboots, Range
<1>4. ASSUME NEW m, ProcessContextUpdate(m), ptx' # ptx
      PROVE  /\ last_applied = m.revision
             /\ Range(ptx') \subseteq Range(ptx) \cup {Ack(m.generation, m.revision)}
  <2>1. m \in Message /\ m.type = "ContextUpdate"
    BY <1>4, TakenFirst DEF ProcessContextUpdate
  <2>2. Ack(m.generation, m.revision) \in Message
    BY <2>1 DEF Message, Ack, Packet
  <2> QED
    BY <1>0, <1>4, <2>2, RangeAppend DEF ProcessContextUpdate
<1>5. CASE WorkerAcknowledges
  <2> DEFINE d == worker.request.digests
             a == Ack(worker.request.generation, d.revision)
             acked == TrySend(ptx, a)
  <2>1. d \in Durables /\ worker.request.generation \in GenerationSet
    BY <1>5, WorkerRequest DEF WorkerAcknowledges, TypeOK, PeripheralOK
  <2>2. a \in Message /\ Attestation(d) \in Message
    BY <2>1 DEF Ack, Packet, Attestation, Message, Durables
  <2>3. ptx' = IF acked = ptx THEN ptx ELSE TrySend(acked, Attestation(d))
    BY <1>5 DEF WorkerAcknowledges
  <2> HIDE DEF a, d
  <2>4. acked \in Seq(Message) /\ Range(acked) \subseteq Range(ptx) \cup {a}
    BY <1>0, <2>2, RangeAppend DEF TrySend
  <2> HIDE DEF acked
  <2>5. Range(TrySend(acked, Attestation(d))) \subseteq Range(acked) \cup {Attestation(d)}
    BY <2>2, <2>4, RangeAppend
  <2> QED
    BY <1>5, <2>3, <2>4, <2>5 DEF a, d
<1>6. CASE Heartbeat /\ ptx' # ptx
  <2>1. Attestation(last_digests) \in Message
    BY <1>6 DEF Heartbeat, TypeOK, PeripheralOK, Attestation, Message
  <2> QED
    BY <1>0, <1>6, <2>1, RangeAppend DEF Heartbeat
<1>7. CASE WorkerReports
  <2>1. [type |-> "StatusReport"] \in Message
    BY DEF Message
  <2> QED
    BY <1>0, <1>7, <2>1, RangeAppend DEF WorkerReports
<1>8. \/ UNCHANGED ptx \/ DeliverToCentral \/ LoseToCentral \/ PeripheralReboots
      \/ (\E m : ProcessContextUpdate(m)) \/ WorkerAcknowledges \/ Heartbeat \/ WorkerReports
  <2> USE DEF queues, vars
  <2>1. CASE \/ LightingChanges \/ ContextChanges \/ LinkUp \/ LinkDown
             \/ DeliverToPeripheral \/ LoseToPeripheral \/ UNCHANGED vars
    BY <2>1 DEF LightingChanges, ContextChanges, LinkUp, LinkDown,
       DeliverToPeripheral, LoseToPeripheral
  <2>2. CASE \/ CentralStep \/ ExportFails \/ CentralStatusRefresh
             \/ BackoffElapses \/ AckTimesOut
    BY <2>2 DEF CentralStep, ExportReplica, QueueTransfer, CentralLinkChanged,
       CentralLightingChanged, CentralContextChanged, CentralReceives, ExportFails,
       CentralStatusRefresh, BackoffElapses, AckTimesOut
  <2>3. CASE \/ PeripheralLinkChanged
             \/ \E m : ProcessStatusRequest(m) \/ ProcessBegin(m) \/ ProcessPart(m) \/ ProcessCommit(m)
    BY <2>3 DEF PeripheralLinkChanged, ProcessStatusRequest, ProcessBegin,
       ProcessPart, ProcessCommit
  <2>4. CASE WorkerTakesRequest \/ EngineApplies \/ WorkerTakesDiagnostic \/ EngineRejects
    BY <2>4 DEF WorkerTakesRequest, EngineApplies, WorkerTakesDiagnostic, EngineRejects
  <2> QED
    BY <2>1, <2>2, <2>3, <2>4 DEF Next, PeripheralStep, WorkerStep, Process
<1> QED
  BY <1>1, <1>2, <1>3, <1>4, <1>5, <1>6, <1>7, <1>8

\* The steps that touch the central's side of the session.
session == <<link, central_watch, link_up, exported, awaiting_ack, last_acked_revision>>

\* Steps that leave the session alone.
LEMMA SessionSteps ==
    ASSUME [Next]_vars
    PROVE  \/ LinkUp \/ LinkDown \/ PeripheralReboots
           \/ ExportReplica \/ QueueTransfer \/ CentralLinkChanged
           \/ CentralReceives \/ AckTimesOut
           \/ UNCHANGED session /\ crx' = crx
           \/ UNCHANGED session /\ DeliverToCentral
<1> USE DEF central, transfer, watches, queues, vars, session
<1>1. CASE \/ LightingChanges \/ ContextChanges \/ DeliverToPeripheral
           \/ LoseToPeripheral \/ DeliverToCentral \/ LoseToCentral \/ UNCHANGED vars
  BY <1>1 DEF LightingChanges, ContextChanges, DeliverToPeripheral, LoseToPeripheral,
     DeliverToCentral, LoseToCentral
<1>2. CASE \/ CentralLightingChanged \/ CentralContextChanged \/ ExportFails
           \/ CentralStatusRefresh \/ BackoffElapses
  BY <1>2 DEF CentralLightingChanged, CentralContextChanged, ExportFails,
     CentralStatusRefresh, BackoffElapses
<1>3. CASE PeripheralStep \/ Heartbeat
  <2>1. CASE PeripheralLinkChanged \/ Heartbeat
    BY <2>1 DEF PeripheralLinkChanged, Heartbeat
  <2>2. ASSUME NEW m, ProcessStatusRequest(m) \/ ProcessContextUpdate(m)
        PROVE  UNCHANGED session /\ crx' = crx
    BY <2>2 DEF ProcessStatusRequest, ProcessContextUpdate, Takes
  <2>3. ASSUME NEW m, ProcessBegin(m) \/ ProcessPart(m) \/ ProcessCommit(m)
        PROVE  UNCHANGED session /\ crx' = crx
    BY <2>3 DEF ProcessBegin, ProcessPart, ProcessCommit, Takes
  <2> QED
    BY <1>3, <2>1, <2>2, <2>3 DEF PeripheralStep, Process
<1>4. CASE WorkerStep \/ EngineRejects
  BY <1>4 DEF WorkerStep, WorkerTakesRequest, EngineApplies, EngineRejects,
     WorkerAcknowledges, WorkerTakesDiagnostic, WorkerReports
<1> QED
  BY <1>1, <1>2, <1>3, <1>4 DEF Next, CentralStep

\* The worker acknowledges what the engine holds, and the engine only advances.
LEMMA RepliesStep ==
    TypeOK /\ OrderInv /\ RequestMatchesSlot /\ RepliesBehindEngine /\ [Next]_vars =>
        RepliesBehindEngine'
<1> SUFFICES ASSUME TypeOK, OrderInv, RequestMatchesSlot, RepliesBehindEngine, [Next]_vars
             PROVE  RepliesBehindEngine'
  OBVIOUS
<1>1. CASE PeripheralReboots
  BY <1>1 DEF PeripheralReboots, RepliesBehindEngine, BootDurable, Range
<1>2. CASE ~ PeripheralReboots
  <2>1. engine.revision <= engine'.revision
    BY <1>2, ReplicaAdvances
  <2>2. /\ engine.revision \in Nat /\ last_applied \in Nat
        /\ ptx \in Seq(Message)
    BY PeripheralFields DEF TypeOK, PeripheralOK, QueuesOK, Revisions
  <2>3. engine'.revision \in Nat
    <3>1. TypeOK'
      BY TypeStep
    <3> QED
      BY <3>1, ValueTypes DEF TypeOK, PeripheralOK
  <2>4. \A m \in Range(ptx) : m.type = "Ack" => m.revision <= engine'.revision
    BY <2>1, <2>2, <2>3, RangeMessages, AckFields DEF RepliesBehindEngine
  <2>5. WorkerAcknowledges =>
          /\ worker.request.digests.revision = engine.revision
          /\ last_applied' = engine.revision
    BY DEF WorkerAcknowledges, RequestMatchesSlot
  <2>6. ~ WorkerAcknowledges => last_applied' = last_applied
    <3> USE DEF peripheral, vars
    <3>1. CASE \/ LightingChanges \/ ContextChanges \/ LinkUp \/ LinkDown
               \/ DeliverToPeripheral \/ LoseToPeripheral
               \/ DeliverToCentral \/ LoseToCentral \/ UNCHANGED vars
      BY <3>1 DEF LightingChanges, ContextChanges, LinkUp, LinkDown, DeliverToPeripheral,
         LoseToPeripheral, DeliverToCentral, LoseToCentral
    <3>2. CASE \/ CentralStep \/ ExportFails \/ CentralStatusRefresh
               \/ BackoffElapses \/ AckTimesOut
      BY <3>2 DEF CentralStep, ExportReplica, QueueTransfer, CentralLinkChanged,
         CentralLightingChanged, CentralContextChanged, CentralReceives, ExportFails,
         CentralStatusRefresh, BackoffElapses, AckTimesOut
    <3>3. CASE PeripheralStep \/ Heartbeat
      BY <3>3 DEF PeripheralStep, PeripheralLinkChanged, Process, ProcessStatusRequest,
         ProcessContextUpdate, ProcessBegin, ProcessPart, ProcessCommit, Heartbeat
    <3>4. CASE \/ WorkerTakesRequest \/ EngineApplies \/ EngineRejects
               \/ WorkerTakesDiagnostic \/ WorkerReports
      BY <3>4 DEF WorkerTakesRequest, EngineApplies, EngineRejects,
         WorkerTakesDiagnostic, WorkerReports
    <3> QED
      BY <1>2, <3>1, <3>2, <3>3, <3>4 DEF Next, WorkerStep
  <2>7. last_applied' <= engine'.revision
    BY <2>1, <2>2, <2>3, <2>5, <2>6 DEF RepliesBehindEngine
  <2>8. ASSUME NEW a \in Range(ptx'), a.type = "Ack", a \notin Range(ptx)
        PROVE  a.revision <= engine.revision
    <3>1. a # Attestation(last_digests) /\ a # [type |-> "StatusReport"]
          /\ a # Attestation(worker.request.digests)
      BY <2>8, AckFields
    <3>2. \/ \E m : last_applied = m.revision /\ a = Ack(m.generation, m.revision)
          \/ /\ WorkerAcknowledges
             /\ a = Ack(worker.request.generation, worker.request.digests.revision)
      BY <2>8, <3>1, ReplyStep
    <3> QED
      BY <2>2, <2>5, <3>2, AckFields DEF RepliesBehindEngine
  <2>9. \A a \in Range(ptx') : a.type = "Ack" /\ a \notin Range(ptx) => a.revision <= engine'.revision
    <3>1. TypeOK'
      BY TypeStep
    <3>2. \A a \in Range(ptx') : a.type = "Ack" => a.revision \in Nat
      BY <3>1, RangeMessages, AckFields DEF TypeOK, QueuesOK
    <3> QED
      BY <2>1, <2>2, <2>3, <2>8, <3>2
  <2> QED
    BY <2>4, <2>7, <2>9 DEF RepliesBehindEngine
<1> QED
  BY <1>1, <1>2

\* No step hides a link edge from the central.
LEMMA LinkKnownStep == TypeOK /\ LinkKnown /\ [Next]_vars => LinkKnown'
<1> SUFFICES ASSUME TypeOK, LinkKnown, [Next]_vars PROVE LinkKnown'
  OBVIOUS
<1> USE DEF LinkKnown, Dormant
<1>1. CASE LinkUp \/ LinkDown
  BY <1>1 DEF LinkUp, LinkDown
<1>2. CASE PeripheralReboots
  BY <1>2 DEF PeripheralReboots, central, transfer
<1>3. CASE ExportReplica
  BY <1>3 DEF ExportReplica, SendDue, watches
<1>4. CASE QueueTransfer
  BY <1>4 DEF QueueTransfer, watches
<1>5. CASE CentralLinkChanged
  BY <1>5 DEF CentralLinkChanged, AtSelect, AckedInNewSession, TypeOK, LinkOK
<1>6. CASE CentralReceives
  BY <1>6 DEF CentralReceives, AckMatches, watches
<1>7. CASE AckTimesOut
  BY <1>7 DEF AckTimesOut, watches
<1>8. CASE UNCHANGED session
  BY <1>8 DEF session
<1> QED
  BY <1>1, <1>2, <1>3, <1>4, <1>5, <1>6, <1>7, <1>8, SessionSteps

\* An Ack keeps its bound on the way to the central; a new transfer starts with
\* no Ack of its generation in flight.
LEMMA AcksStep ==
    TypeOK /\ OrderInv /\ SessionInv /\ [Next]_vars => AcksBehindEngine'
<1> SUFFICES ASSUME TypeOK, OrderInv, SessionInv, [Next]_vars PROVE AcksBehindEngine'
  OBVIOUS
<1> USE DEF SessionInv
<1>1. CASE LinkUp \/ LinkDown
  BY <1>1 DEF LinkUp, LinkDown, AcksBehindEngine
<1>2. CASE PeripheralReboots
  <2>1. central_watch' = "seen" => central_watch = "seen" /\ Dormant
    BY <1>2 DEF PeripheralReboots, LinkKnown
  <2>2. UNCHANGED <<last_acked_revision, awaiting_ack>> /\ engine'.revision = 0
    BY <1>2 DEF PeripheralReboots, central, transfer, BootDurable
  <2> QED
    BY <2>1, <2>2 DEF Dormant, AcksBehindEngine
<1>3. CASE ~ PeripheralReboots /\ ~ LinkUp /\ ~ LinkDown
  <2>1. engine.revision <= engine'.revision
    BY <1>3, ReplicaAdvances
  <2>2. /\ engine.revision \in Nat /\ last_acked_revision \in Nat
        /\ ptx \in Seq(Message) /\ crx \in Seq(Message)
    BY PeripheralFields DEF TypeOK, TransferOK, QueuesOK, Revisions
  <2>3. engine'.revision \in Nat
    <3>1. TypeOK'
      BY TypeStep
    <3> QED
      BY <3>1, ValueTypes DEF TypeOK, PeripheralOK
  <2>4. \A m \in Range(ptx) \cup Range(crx) : m.type = "Ack" => m.revision \in Nat
    BY <2>2, RangeMessages, AckFields
  <2>5. central_watch = "seen" =>
          /\ last_acked_revision <= engine'.revision
          /\ awaiting_ack # None =>
               \A m \in Range(crx) :
                 m.type = "Ack" /\ m.generation = awaiting_ack.generation =>
                   m.revision <= engine'.revision
    BY <2>1, <2>2, <2>3, <2>4 DEF AcksBehindEngine
  <2>6. CASE ExportReplica
    BY <2>5, <2>6 DEF ExportReplica, watches, transfer, queues, AcksBehindEngine
  <2>7. CASE QueueTransfer
    <3>1. /\ central_watch' = central_watch /\ crx' = crx
          /\ last_acked_revision' = last_acked_revision
          /\ \/ awaiting_ack' = awaiting_ack
             \/ awaiting_ack'.generation = NextGeneration
          /\ GenerationFresh
      BY <2>7 DEF QueueTransfer, watches
    <3>2. \A m \in Range(crx) : m.type = "Ack" => m.generation # NextGeneration
      BY <3>1 DEF GenerationFresh, InFlight
    <3> QED
      BY <2>5, <3>1, <3>2 DEF AcksBehindEngine
  <2>8. CASE CentralLinkChanged
    BY <2>3, <2>8 DEF CentralLinkChanged, AckedInNewSession, AcksBehindEngine
  <2>9. CASE CentralReceives
    <3>1. crx # <<>> /\ crx' = Tail(crx) /\ central_watch' = central_watch /\ central_watch = "seen"
      BY <2>9 DEF CentralReceives, watches, NoEvent, NoLinkEdge
    <3>2. Range(crx') \subseteq Range(crx) /\ Head(crx) \in Range(crx)
      BY <2>2, <3>1, RangeTail
    <3>3. awaiting_ack' \in {awaiting_ack, None}
      BY <2>9 DEF CentralReceives
    <3>4. \/ last_acked_revision' = last_acked_revision
          \/ AckMatches(Head(crx)) /\ last_acked_revision' = Head(crx).revision
      BY <2>9 DEF CentralReceives
    <3>5. last_acked_revision' <= engine'.revision
      BY <2>5, <3>1, <3>2, <3>4 DEF AckMatches
    <3> QED
      BY <2>5, <3>1, <3>2, <3>3, <3>5 DEF AcksBehindEngine
  <2>10. CASE AckTimesOut
    <3>1. /\ awaiting_ack' = None /\ central_watch' = central_watch
          /\ last_acked_revision' = last_acked_revision
      BY <2>10 DEF AckTimesOut, watches
    <3> QED
      BY <2>5, <3>1 DEF AcksBehindEngine
  <2>11. CASE UNCHANGED session /\ crx' = crx
    BY <2>5, <2>11 DEF session, AcksBehindEngine
  <2>12. CASE UNCHANGED session /\ DeliverToCentral
    <3>1. ptx # <<>> /\ crx' = Append(crx, Head(ptx)) /\ engine' = engine
      BY <2>12 DEF DeliverToCentral, peripheral
    <3>2. Head(ptx) \in Range(ptx) /\ Head(ptx) \in Message
      BY <2>2, <3>1, RangeTail, TailFits
    <3>3. Range(crx') = Range(crx) \cup {Head(ptx)}
      BY <2>2, <3>1, <3>2, RangeAppend
    <3>4. Head(ptx).type = "Ack" => Head(ptx).revision <= engine'.revision
      BY <3>1, <3>2 DEF RepliesBehindEngine
    <3> QED
      BY <2>5, <2>12, <3>3, <3>4 DEF session, AcksBehindEngine
  <2> QED
    BY <1>3, <2>6, <2>7, <2>8, <2>9, <2>10, <2>11, <2>12, SessionSteps
<1> QED
  BY <1>1, <1>2, <1>3

\* Every Ack PeripheralLightingWorker::run and PeripheralReplication::run queue
\* names a revision the engine has reached, through loss, reboots and new
\* sessions of CentralReplication::run.
THEOREM SessionInvariant == Spec => []SessionInv
<1>1. TypeOK /\ OrderInv /\ RequestMatchesSlot /\ SessionInv /\ [Next]_vars => SessionInv'
  BY RepliesStep, LinkKnownStep, AcksStep DEF SessionInv
<1> QED
  BY <1>1, InitSession, ReplicationTypeCorrect, ApplyRequestMatchesSlot, PathStaysInOrder,
     PTL DEF Spec

\* While no link edge waits for the central, the revision it holds acknowledged
\* (last_acked_revision, on which a context update relies) is one that the engine
\* of the peripheral has applied since it booted.
THEOREM AckedIsApplied == Spec => []AckedRevisionIsApplied
<1>1. TypeOK /\ SessionInv => AckedRevisionIsApplied
  <2>1. TypeOK => engine.revision \in Nat /\ last_acked_revision \in Nat
    BY PeripheralFields DEF TypeOK, TransferOK, Revisions
  <2> QED
    BY <2>1 DEF SessionInv, AcksBehindEngine, AckedRevisionIsApplied
<1> QED
  BY <1>1, SessionInvariant, ReplicationTypeCorrect, PTL

-----------------------------------------------------------------------------
(***************************************************************************)
(* When the central is at rest the peripheral is up to date, for every     *)
(* value of the constants. The argument follows the transfer the central   *)
(* awaits through the system: it is the last on the path, then what is in  *)
(* the stage, the apply signal, the worker and the slot, and its Ack can   *)
(* only exist once the engine and the context hold what it carried. What   *)
(* it carried is current unless an event or a dirty flag says otherwise,   *)
(* so when the Ack ends it with neither pending, nothing was dropped.      *)
(***************************************************************************)

\* The revisions that need no further transfer, unless one is already due.
CurrentRevisions == IF lighting_events > 0 \/ full_dirty THEN Revisions ELSE {revision}
\* ... and the contexts.
CurrentContexts ==
    IF context_events > 0 \/ context_dirty \/ full_dirty THEN Contexts ELSE {context}

\* Packets of the transfer a are the last on the path p and carry C.
Underway(a, p, C) ==
    \A i \in Positions(p) : p[i].generation = a.generation =>
        /\ p[i].revision = a.revision
        /\ p[i].type = "ContextUpdate" <=> a.kind = "ContextUpdate"
        /\ CarriesContext(p[i]) => p[i].context \in C
        /\ \A j \in Positions(p) : i < j => p[j].generation = a.generation

\* The path p holds packets of one transfer at most.
OnlyGeneration(g, p) == \A i \in Positions(p) : p[i].generation = g

\* The stage s of the transfer a holds what a carries.
StagedFor(a, s, p, C) ==
    s # None /\ s.generation = a.generation =>
        /\ a.kind = "FullSnapshot" /\ s.revision = a.revision
        /\ "Body" \in s.received => s.context \in C
        /\ OnlyGeneration(a.generation, p)

\* Nothing is on its way any more, and the context x is of the transfer.
Delivered(r, x, p, C) ==
    Positions(p) = {} /\ x.revision = r /\ x.context \in C

\* The worker serves an apply request; the Acks on their way to the central.
Serving == worker.state \in {"requested", "applied"}
Acks == {m \in Range(ptx) \cup Range(crx) : m.type = "Ack"}
Acked(g, A) == \E m \in A : m.generation = g

\* The transfer the central awaits: on the path and in the stage, delivered, in
\* the apply signal, with the worker, acknowledged.
AwaitedOnPath ==
    Underway(awaiting_ack, Path, CurrentContexts)
    /\ StagedFor(awaiting_ack, stage, Path, CurrentContexts)

AwaitedDelivered ==
    Delivered(awaiting_ack.revision, periph_context, Path, CurrentContexts)

AwaitedSignalled ==
    apply_request # None /\ apply_request.generation = awaiting_ack.generation =>
        /\ awaiting_ack.kind = "FullSnapshot"
        /\ apply_request.digests.revision = awaiting_ack.revision
        /\ AwaitedDelivered

AwaitedServed ==
    Serving /\ worker.request.generation = awaiting_ack.generation =>
        /\ awaiting_ack.kind = "FullSnapshot"
        /\ worker.request.digests.revision = awaiting_ack.revision
        /\ AwaitedDelivered
        /\ worker.state = "applied" => slot = None

AwaitedAcked ==
    Acked(awaiting_ack.generation, Acks) =>
        AwaitedDelivered /\ slot = None /\ engine.revision = awaiting_ack.revision

\* A context update is sent over a peripheral that has the acknowledged revision.
AwaitedUpdate ==
    awaiting_ack.kind = "ContextUpdate" =>
        /\ last_acked_revision = awaiting_ack.revision
        /\ engine.revision = awaiting_ack.revision /\ slot = None
        /\ periph_context.revision = awaiting_ack.revision
        /\ OnlyGeneration(awaiting_ack.generation, Path)

\* What it carries is current or about to be sent again.
AwaitedOrigin ==
    /\ link_up /\ exported = None
    /\ awaiting_ack.revision # 0 /\ awaiting_ack.revision \in CurrentRevisions

Awaiting ==
    awaiting_ack # None =>
        /\ AwaitedOrigin /\ AwaitedOnPath /\ AwaitedSignalled /\ AwaitedServed
        /\ AwaitedAcked /\ AwaitedUpdate

\* When the central awaits nothing and is not dirty, the acknowledged revision is
\* the peripheral's and nothing is on its way.
Clean ==
    awaiting_ack = None /\ link_up /\ ~ full_dirty =>
        /\ last_acked_revision # 0 /\ last_acked_revision \in CurrentRevisions
        /\ engine.revision = last_acked_revision /\ slot = None
        /\ Delivered(last_acked_revision, periph_context, Path, CurrentContexts)

\* What has been exported is current or an event says it is not.
Exporting ==
    exported # None =>
        /\ link_up /\ awaiting_ack = None /\ exported.revision # 0
        /\ exported.revision = revision \/ lighting_events > 0
        /\ exported.context = context \/ context_events > 0

\* The inductive invariant.
RestInv == central_watch = "seen" => Awaiting /\ Clean /\ Exporting
\* Snapshots without conditional-scene gates lose none.
GatesInv ==
    ~ Gated => engine.gates = "kept" /\ (slot # None => slot.gates = "kept")

-----------------------------------------------------------------------------
(* What a step does to the parts.                                          *)

\* Losing packets, and more currency, keep every part.
LEMMA ThinnerAwaited ==
    ASSUME NEW p, NEW q, Thinner(p, q), NEW a, NEW C, NEW D, C \subseteq D
    PROVE  /\ Underway(a, q, C) => Underway(a, p, D)
           /\ \A g : OnlyGeneration(g, q) => OnlyGeneration(g, p)
           /\ \A s : StagedFor(a, s, q, C) => StagedFor(a, s, p, D)
           /\ Positions(q) = {} => Positions(p) = {}
           /\ \A r, x : Delivered(r, x, q, C) => Delivered(r, x, p, D)
<1> PICK f : Embeds(f, p, q)
  BY DEF Thinner
<1>1. \A i \in Positions(p) : f[i] \in Positions(q) /\ p[i] = q[f[i]]
  BY DEF Embeds
<1>2. \A i, j \in Positions(p) : i < j => f[i] < f[j]
  BY DEF Embeds
<1>3. Underway(a, q, C) => Underway(a, p, D)
  BY <1>1, <1>2 DEF Underway
<1>4. \A g : OnlyGeneration(g, q) => OnlyGeneration(g, p)
  BY <1>1 DEF OnlyGeneration
<1>5. \A s : StagedFor(a, s, q, C) => StagedFor(a, s, p, D)
  BY <1>4 DEF StagedFor
<1>6. Positions(q) = {} => Positions(p) = {}
  BY <1>1
<1>7. \A r, x : Delivered(r, x, q, C) => Delivered(r, x, p, D)
  BY <1>6 DEF Delivered
<1> QED
  BY <1>3, <1>4, <1>5, <1>6, <1>7

\* Events and dirty flags only widen what counts as current, until a transfer
\* is queued, given up or the link changes.
CurrencyKept ==
    /\ CurrentRevisions \subseteq CurrentRevisions'
    /\ CurrentContexts \subseteq CurrentContexts'
    /\ full_dirty => full_dirty'
    /\ exported' # None => exported' = exported

\* What currency depends on.
flags == <<revision, context, lighting_events, context_events, full_dirty,
           context_dirty, exported>>

\* The steps that touch the authority's state, its events or its dirty flags.
LEMMA CurrencySteps ==
    ASSUME TypeOK, [Next]_vars
    PROVE  \/ ExportReplica \/ QueueTransfer \/ CentralLinkChanged \/ AckTimesOut
           \/ LightingChanges \/ ContextChanges
           \/ CentralLightingChanged \/ CentralContextChanged
           \/ UNCHANGED flags
<1> USE DEF authority, central, vars, flags
<1>1. CASE \/ LinkUp \/ LinkDown \/ PeripheralReboots
           \/ DeliverToPeripheral \/ LoseToPeripheral
           \/ DeliverToCentral \/ LoseToCentral \/ UNCHANGED vars
  BY <1>1 DEF LinkUp, LinkDown, PeripheralReboots, DeliverToPeripheral,
     LoseToPeripheral, DeliverToCentral, LoseToCentral
<1>2. CASE CentralReceives \/ ExportFails \/ CentralStatusRefresh \/ BackoffElapses
  BY <1>2 DEF CentralReceives, ExportFails, CentralStatusRefresh, BackoffElapses
<1>3. CASE PeripheralStep \/ Heartbeat
  <2>1. CASE PeripheralLinkChanged \/ Heartbeat
    BY <2>1 DEF PeripheralLinkChanged, Heartbeat
  <2>2. ASSUME NEW m, ProcessStatusRequest(m) \/ ProcessContextUpdate(m)
        PROVE  UNCHANGED flags
    BY <2>2 DEF ProcessStatusRequest, ProcessContextUpdate, Takes
  <2>3. ASSUME NEW m, ProcessBegin(m) \/ ProcessPart(m) \/ ProcessCommit(m)
        PROVE  UNCHANGED flags
    BY <2>3 DEF ProcessBegin, ProcessPart, ProcessCommit, Takes
  <2> QED
    BY <1>3, <2>1, <2>2, <2>3 DEF PeripheralStep, Process
<1>4. CASE WorkerStep \/ EngineRejects
  BY <1>4 DEF WorkerStep, WorkerTakesRequest, EngineApplies, EngineRejects,
     WorkerAcknowledges, WorkerTakesDiagnostic, WorkerReports
<1> QED
  BY <1>1, <1>2, <1>3, <1>4 DEF Next, CentralStep

\* All other steps only widen currency.
LEMMA CurrencyStep ==
    ASSUME TypeOK, [Next]_vars, ~ QueueTransfer, ~ CentralLinkChanged, ~ AckTimesOut,
           ~ ExportReplica
    PROVE  CurrencyKept
<1>1. /\ revision \in Revisions /\ context \in Contexts
      /\ lighting_events \in Nat /\ context_events \in Nat
  BY DEF TypeOK, AuthorityOK
<1> USE DEF CurrencyKept, CurrentRevisions, CurrentContexts
<1>2. CASE LightingChanges
  BY <1>1, <1>2 DEF LightingChanges, central
<1>3. CASE ContextChanges
  BY <1>1, <1>3 DEF ContextChanges, central
<1>4. CASE CentralLightingChanged
  BY <1>1, <1>4 DEF CentralLightingChanged
<1>5. CASE CentralContextChanged
  BY <1>1, <1>5 DEF CentralContextChanged
<1>6. CASE UNCHANGED flags
  BY <1>6 DEF flags
<1> QED
  BY <1>2, <1>3, <1>4, <1>5, <1>6, CurrencySteps

\* The acknowledgements a step adds.
LEMMA AckSetStep ==
    ASSUME TypeOK, [Next]_vars
    PROVE  \/ Acks' \subseteq Acks
           \/ \E m : ProcessContextUpdate(m) /\ last_applied = m.revision
                     /\ Acks' \subseteq Acks \cup {Ack(m.generation, m.revision)}
           \/ /\ WorkerAcknowledges
              /\ Acks' \subseteq
                   Acks \cup {Ack(worker.request.generation, worker.request.digests.revision)}
<1>1. ptx \in Seq(Message) /\ crx \in Seq(Message)
  BY DEF TypeOK, QueuesOK
<1>2. Range(crx') \subseteq Range(crx) \cup Range(ptx)
  <2>1. CASE DeliverToCentral
    BY <1>1, <2>1, RangeTail, RangeAppend, TailFits DEF DeliverToCentral
  <2>2. CASE CentralReceives
    BY <1>1, <2>2, RangeTail DEF CentralReceives
  <2>3. CASE crx' = crx
    BY <2>3
  <2>4. DeliverToCentral \/ CentralReceives \/ crx' = crx
    BY SessionSteps DEF LinkUp, LinkDown, PeripheralReboots, ExportReplica, QueueTransfer,
       CentralLinkChanged, AckTimesOut, queues
  <2> QED
    BY <2>1, <2>2, <2>3, <2>4
<1>3. \A d : Attestation(d).type # "Ack"
  BY AckFields
<1>4. Acks' = {m \in Range(ptx') \cup Range(crx') : m.type = "Ack"}
  BY DEF Acks
<1> QED
  BY <1>2, <1>3, <1>4, ReplyStep DEF Acks

\* Steps of the peripheral that move nothing on towards its engine.
QuietPeripheral ==
    /\ stage' \in {stage, None} /\ slot' \in {slot, None}
    /\ UNCHANGED <<engine, periph_context>>
    /\ apply_request' = apply_request
    /\ worker' = worker \/ ~ Serving'

\* The steps that touch what a transfer has become at the peripheral.
LEMMA QuietSteps ==
    ASSUME TypeOK, [Next]_vars
    PROVE  \/ \E m : \/ ProcessContextUpdate(m) \/ ProcessBegin(m)
                     \/ ProcessPart(m) \/ ProcessCommit(m)
           \/ WorkerTakesRequest \/ EngineApplies \/ PeripheralReboots
           \/ QuietPeripheral
<1> USE DEF peripheral, vars, QuietPeripheral, Serving
<1>1. CASE \/ LightingChanges \/ ContextChanges \/ LinkUp \/ LinkDown
           \/ DeliverToPeripheral \/ LoseToPeripheral
           \/ DeliverToCentral \/ LoseToCentral \/ UNCHANGED vars
  BY <1>1 DEF LightingChanges, ContextChanges, LinkUp, LinkDown, DeliverToPeripheral,
     LoseToPeripheral, DeliverToCentral, LoseToCentral
<1>2. CASE \/ CentralStep \/ ExportFails \/ CentralStatusRefresh
           \/ BackoffElapses \/ AckTimesOut
  BY <1>2 DEF CentralStep, ExportReplica, QueueTransfer, CentralLinkChanged,
     CentralLightingChanged, CentralContextChanged, CentralReceives, ExportFails,
     CentralStatusRefresh, BackoffElapses, AckTimesOut
<1>3. CASE Heartbeat \/ PeripheralLinkChanged \/ \E m : ProcessStatusRequest(m)
  BY <1>3 DEF Heartbeat, PeripheralLinkChanged, ProcessStatusRequest
<1>4. CASE \/ EngineRejects \/ WorkerAcknowledges \/ WorkerTakesDiagnostic
           \/ WorkerReports
  BY <1>4 DEF EngineRejects, WorkerAcknowledges, WorkerTakesDiagnostic, WorkerReports, Idle
<1> QED
  BY <1>1, <1>2, <1>3, <1>4 DEF Next, PeripheralStep, Process, WorkerStep

\* The central keeps waiting for the same transfer, or for none.
StillAwaiting ==
    UNCHANGED <<awaiting_ack, link_up, last_acked_revision, exported>>

\* A step that moves nothing towards the engine keeps both halves.
LEMMA AwaitingKept ==
    ASSUME Awaiting, StillAwaiting, CurrencyKept, Thinner(Path', Path), QuietPeripheral,
           awaiting_ack # None /\ Acked(awaiting_ack.generation, Acks') =>
             Acked(awaiting_ack.generation, Acks)
    PROVE  Awaiting'
<1> SUFFICES ASSUME awaiting_ack # None
             PROVE  /\ AwaitedOrigin' /\ AwaitedOnPath' /\ AwaitedSignalled'
                    /\ AwaitedServed' /\ AwaitedAcked' /\ AwaitedUpdate'
  BY DEF Awaiting, StillAwaiting
<1> USE DEF Awaiting, StillAwaiting, CurrencyKept, QuietPeripheral
<1>1. /\ \A a : Underway(a, Path, CurrentContexts) => Underway(a, Path', CurrentContexts')
      /\ \A g : OnlyGeneration(g, Path) => OnlyGeneration(g, Path')
      /\ \A a, s : StagedFor(a, s, Path, CurrentContexts) =>
           StagedFor(a, s, Path', CurrentContexts')
      /\ \A r, x : Delivered(r, x, Path, CurrentContexts) =>
           Delivered(r, x, Path', CurrentContexts')
  BY ThinnerAwaited
<1>2. AwaitedOrigin'
  BY DEF AwaitedOrigin
<1>3. AwaitedOnPath'
  <2>1. StagedFor(awaiting_ack, None, Path', CurrentContexts')
    BY DEF StagedFor
  <2> QED
    BY <1>1, <2>1 DEF AwaitedOnPath
<1>4. AwaitedDelivered => AwaitedDelivered'
  BY <1>1 DEF AwaitedDelivered
<1>5. AwaitedSignalled'
  BY <1>4 DEF AwaitedSignalled
<1>6. AwaitedServed'
  BY <1>4 DEF AwaitedServed, Serving
<1>7. AwaitedAcked'
  BY <1>4 DEF AwaitedAcked
<1>8. AwaitedUpdate'
  BY <1>1 DEF AwaitedUpdate
<1> QED
  BY <1>2, <1>3, <1>5, <1>6, <1>7, <1>8

\* What is clean stays so while the path thins and the engine is left alone.
LEMMA CleanKept ==
    ASSUME Clean, StillAwaiting, CurrencyKept, Thinner(Path', Path),
           slot' \in {slot, None}, UNCHANGED <<engine, periph_context>>
    PROVE  Clean'
<1>1. \A r, x : Delivered(r, x, Path, CurrentContexts) =>
           Delivered(r, x, Path', CurrentContexts')
  BY ThinnerAwaited DEF CurrencyKept
<1> QED
  BY <1>1 DEF Clean, StillAwaiting, CurrencyKept

-----------------------------------------------------------------------------
(* The peripheral takes a packet of a transfer.                            *)

\* Taking a packet changes nothing at the central.
LEMMA TakesFrame ==
    ASSUME TypeOK, NEW m, Takes(m)
    PROVE  /\ StillAwaiting /\ UNCHANGED central_watch /\ Thinner(Path', Path)
           /\ CurrentRevisions' = CurrentRevisions /\ CurrentContexts' = CurrentContexts
           /\ CurrencyKept
<1>1. StillAwaiting /\ UNCHANGED central_watch
  BY DEF Takes, central, transfer, watches, StillAwaiting
<1>2. CurrentRevisions' = CurrentRevisions /\ CurrentContexts' = CurrentContexts
  BY DEF Takes, authority, central, CurrentRevisions, CurrentContexts
<1>3. full_dirty' = full_dirty /\ exported' = exported
  BY DEF Takes, central
<1> QED
  BY <1>1, <1>2, <1>3, TakenFirst DEF CurrencyKept

\* ... and shows that the central is not clean.
LEMMA TakesClean ==
    ASSUME TypeOK, NEW m, Takes(m), Replicates(m), Clean
    PROVE  Clean'
<1>1. 1 \in Positions(Path)
  BY TakenFirst
<1>2. UNCHANGED <<awaiting_ack, link_up, full_dirty>>
  BY DEF Takes, central, transfer
<1> QED
  BY <1>1, <1>2 DEF Clean, Delivered

\* While a packet of a transfer is on the path nothing has been delivered.
LEMMA NotYetDelivered ==
    ASSUME Awaiting, awaiting_ack # None, 1 \in Positions(Path)
    PROVE  /\ ~ AwaitedDelivered
           /\ apply_request # None => apply_request.generation # awaiting_ack.generation
           /\ Serving => worker.request.generation # awaiting_ack.generation
           /\ ~ Acked(awaiting_ack.generation, Acks)
<1>1. ~ AwaitedDelivered
  BY DEF AwaitedDelivered, Delivered
<1> QED
  BY <1>1 DEF Awaiting, AwaitedSignalled, AwaitedServed, AwaitedAcked

\* Begin opens a stage for the awaited transfer, or for none.
LEMMA BeginKeepsAwaiting ==
    ASSUME TypeOK, OrderInv, Awaiting, NEW m, ProcessBegin(m), Acks' \subseteq Acks
    PROVE  Awaiting'
<1> DEFINE g == awaiting_ack.generation
<1>1. Takes(m) /\ m.type = "Begin" /\ UNCHANGED <<slot, engine, periph_context, apply_request, worker>>
  BY DEF ProcessBegin
<1>2. stage' = [generation |-> m.generation, revision |-> m.revision,
                context |-> 0, received |-> {}]
  BY DEF ProcessBegin
<1>3. /\ 1 \in Positions(Path) /\ Path[1] = m /\ Thinner(Path', Path)
      /\ \A i \in Positions(Path') :
           i \in Nat \ {0} /\ i + 1 \in Positions(Path) /\ Path'[i] = Path[i + 1]
  BY <1>1, TakenFirst DEF Replicates
<1>4. StillAwaiting /\ CurrencyKept
  BY <1>1, TakesFrame
<1> SUFFICES ASSUME awaiting_ack # None
             PROVE  /\ AwaitedOrigin' /\ AwaitedOnPath' /\ AwaitedSignalled'
                    /\ AwaitedServed' /\ AwaitedAcked' /\ AwaitedUpdate'
  BY <1>4 DEF Awaiting, StillAwaiting
<1> USE DEF Awaiting
<1>5. /\ Underway(awaiting_ack, Path', CurrentContexts')
      /\ OnlyGeneration(g, Path) => OnlyGeneration(g, Path')
  BY <1>3, <1>4, ThinnerAwaited DEF CurrencyKept, AwaitedOnPath
<1>6. AwaitedOnPath'
  <2>1. ASSUME m.generation = g
        PROVE  /\ awaiting_ack.kind = "FullSnapshot" /\ m.revision = awaiting_ack.revision
               /\ OnlyGeneration(g, Path')
    <3>1. /\ m.revision = awaiting_ack.revision /\ awaiting_ack.kind # "ContextUpdate"
          /\ \A j \in Positions(Path) : 1 < j => Path[j].generation = g
      BY <1>1, <1>3, <2>1 DEF AwaitedOnPath, Underway
    <3>2. awaiting_ack.kind = "FullSnapshot"
      BY <3>1 DEF TypeOK, TransferOK, PendingAcks
    <3>3. OnlyGeneration(g, Path')
      BY <1>3, <3>1 DEF OnlyGeneration
    <3> QED
      BY <3>1, <3>2, <3>3
  <2>2. StagedFor(awaiting_ack, stage', Path', CurrentContexts')
    BY <1>2, <2>1 DEF StagedFor
  <2> QED
    BY <1>4, <1>5, <2>2 DEF AwaitedOnPath, StillAwaiting
<1>7. AwaitedOrigin'
  BY <1>4 DEF AwaitedOrigin, StillAwaiting, CurrencyKept
<1>8. AwaitedSignalled' /\ AwaitedServed' /\ AwaitedAcked'
  BY <1>1, <1>3, <1>4, NotYetDelivered
     DEF AwaitedSignalled, AwaitedServed, AwaitedAcked, Serving, Acked, StillAwaiting
<1>9. AwaitedUpdate'
  BY <1>1, <1>4, <1>5 DEF AwaitedUpdate, StillAwaiting
<1> QED
  BY <1>6, <1>7, <1>8, <1>9

\* A part is staged for the transfer it belongs to.
LEMMA PartKeepsAwaiting ==
    ASSUME TypeOK, OrderInv, Awaiting, NEW m, ProcessPart(m), Acks' \subseteq Acks
    PROVE  Awaiting'
<1> DEFINE g == awaiting_ack.generation
<1>1. /\ Takes(m) /\ m.type \in {"Body", "Gate"}
      /\ UNCHANGED <<slot, engine, periph_context, apply_request, worker>>
  BY DEF ProcessPart
<1>3. 1 \in Positions(Path) /\ Path[1] = m /\ Thinner(Path', Path)
  BY <1>1, TakenFirst DEF Replicates
<1>4. StillAwaiting /\ CurrencyKept /\ CurrentContexts' = CurrentContexts
  BY <1>1, TakesFrame
<1> SUFFICES ASSUME awaiting_ack # None
             PROVE  /\ AwaitedOrigin' /\ AwaitedOnPath' /\ AwaitedSignalled'
                    /\ AwaitedServed' /\ AwaitedAcked' /\ AwaitedUpdate'
  BY <1>4 DEF Awaiting, StillAwaiting
<1> USE DEF Awaiting
<1>5. /\ Underway(awaiting_ack, Path', CurrentContexts')
      /\ OnlyGeneration(g, Path) => OnlyGeneration(g, Path')
      /\ StagedFor(awaiting_ack, stage, Path', CurrentContexts')
  BY <1>3, <1>4, ThinnerAwaited DEF CurrencyKept, AwaitedOnPath
<1>6. AwaitedOnPath'
  <2>1. CASE stage' = None
    BY <1>4, <1>5, <2>1 DEF AwaitedOnPath, StagedFor, StillAwaiting
  <2>2. CASE StageMatches(m) /\ stage' # None
    <3>1. stage \in Stages /\ stage # None /\ stage.generation = m.generation
      BY <2>2 DEF StageMatches, TypeOK, PeripheralOK
    <3>2. stage' = [stage EXCEPT !.received = @ \cup {m.type},
                                 !.context = IF m.type = "Body" THEN m.context ELSE @]
      BY <2>2 DEF ProcessPart
    <3>3. /\ stage'.generation = stage.generation /\ stage'.revision = stage.revision
          /\ stage'.received = stage.received \cup {m.type}
          /\ stage'.context = IF m.type = "Body" THEN m.context ELSE stage.context
      BY <3>1, <3>2 DEF Stages
    <3>4. stage.generation = g /\ m.type = "Body" => m.context \in CurrentContexts
      BY <1>3, <3>1 DEF AwaitedOnPath, Underway, CarriesContext
    <3>5. StagedFor(awaiting_ack, stage', Path', CurrentContexts')
      <4>1. CASE m.type = "Body"
        BY <1>4, <1>5, <3>1, <3>3, <3>4, <4>1 DEF StagedFor
      <4>2. CASE m.type = "Gate"
        <5>1. "Body" \in stage'.received <=> "Body" \in stage.received
          BY <3>3, <4>2
        <5> QED
          BY <1>5, <3>1, <3>3, <4>2, <5>1 DEF StagedFor
      <4> QED
        BY <1>1, <4>1, <4>2
    <3> QED
      BY <1>4, <1>5, <3>5 DEF AwaitedOnPath, StillAwaiting
  <2> QED
    BY <2>1, <2>2 DEF ProcessPart
<1>7. AwaitedOrigin'
  BY <1>4 DEF AwaitedOrigin, StillAwaiting, CurrencyKept
<1>8. AwaitedSignalled' /\ AwaitedServed' /\ AwaitedAcked'
  BY <1>1, <1>3, <1>4, NotYetDelivered
     DEF AwaitedSignalled, AwaitedServed, AwaitedAcked, Serving, Acked, StillAwaiting
<1>9. AwaitedUpdate'
  BY <1>1, <1>4, <1>5 DEF AwaitedUpdate, StillAwaiting
<1> QED
  BY <1>6, <1>7, <1>8, <1>9

\* The packet that closes the awaited transfer is the last one on the path.
LEMMA ClosesLast ==
    ASSUME TypeOK, OrderInv, Awaiting, awaiting_ack # None, NEW m, Takes(m), Closes(m),
           m.generation = awaiting_ack.generation
    PROVE  /\ Positions(Path') = {}
           /\ m.revision = awaiting_ack.revision
           /\ m.type = "ContextUpdate" <=> awaiting_ack.kind = "ContextUpdate"
           /\ CarriesContext(m) => m.context \in CurrentContexts
<1>1. Replicates(m)
  BY DEF Closes, Replicates
<1>2. /\ 1 \in Positions(Path) /\ Path[1] = m
      /\ \A i \in Positions(Path') :
           i \in Nat \ {0} /\ i + 1 \in Positions(Path) /\ Path'[i] = Path[i + 1]
  BY <1>1, TakenFirst
<1>3. /\ m.revision = awaiting_ack.revision
      /\ m.type = "ContextUpdate" <=> awaiting_ack.kind = "ContextUpdate"
      /\ CarriesContext(m) => m.context \in CurrentContexts
      /\ \A j \in Positions(Path) : 1 < j => Path[j].generation = awaiting_ack.generation
  BY <1>2 DEF Awaiting, AwaitedOnPath, Underway
<1>4. \A i \in Positions(Path') : Path'[i].generation # m.generation
  BY <1>1, BehindFirst DEF OrderInv
<1>5. \A i \in Positions(Path') : FALSE
  BY <1>2, <1>3, <1>4
<1> QED
  BY <1>3, <1>5

\* The awaited context update is acknowledged once it is shown.
LEMMA UpdateKeepsAwaiting ==
    ASSUME TypeOK, OrderInv, Awaiting, NEW m, ProcessContextUpdate(m),
           \/ Acks' \subseteq Acks
           \/ last_applied = m.revision /\ Acks' \subseteq Acks \cup {Ack(m.generation, m.revision)}
    PROVE  Awaiting'
<1> DEFINE g == awaiting_ack.generation
<1>1. /\ Takes(m) /\ m.type = "ContextUpdate"
      /\ UNCHANGED <<stage, slot, engine, apply_request, worker>>
      /\ IF last_applied = m.revision
         THEN periph_context' = [revision |-> m.revision, context |-> m.context]
         ELSE periph_context' = periph_context
  BY DEF ProcessContextUpdate
<1>2. Replicates(m) /\ Closes(m) /\ CarriesContext(m)
  BY <1>1 DEF Replicates, Closes, CarriesContext
<1>3. 1 \in Positions(Path) /\ Path[1] = m /\ Thinner(Path', Path)
  BY <1>1, <1>2, TakenFirst
<1>4. StillAwaiting /\ CurrencyKept /\ CurrentContexts' = CurrentContexts
  BY <1>1, TakesFrame
<1> SUFFICES ASSUME awaiting_ack # None
             PROVE  /\ AwaitedOrigin' /\ AwaitedOnPath' /\ AwaitedSignalled'
                    /\ AwaitedServed' /\ AwaitedAcked' /\ AwaitedUpdate'
  BY <1>4 DEF Awaiting, StillAwaiting
<1> USE DEF Awaiting
<1>5. /\ Underway(awaiting_ack, Path', CurrentContexts')
      /\ OnlyGeneration(g, Path) => OnlyGeneration(g, Path')
      /\ StagedFor(awaiting_ack, stage, Path', CurrentContexts')
  BY <1>3, <1>4, ThinnerAwaited DEF CurrencyKept, AwaitedOnPath
<1>6. AwaitedOnPath' /\ AwaitedOrigin'
  BY <1>1, <1>4, <1>5 DEF AwaitedOnPath, AwaitedOrigin, StillAwaiting, CurrencyKept
<1>7. AwaitedSignalled' /\ AwaitedServed'
  BY <1>1, <1>3, <1>4, NotYetDelivered DEF AwaitedSignalled, AwaitedServed, Serving, StillAwaiting
<1>8. CASE m.generation = g
  <2>1. /\ Positions(Path') = {} /\ m.revision = awaiting_ack.revision
        /\ awaiting_ack.kind = "ContextUpdate" /\ m.context \in CurrentContexts
    BY <1>1, <1>2, <1>8, ClosesLast
  <2>2. /\ last_acked_revision = awaiting_ack.revision
        /\ engine.revision = awaiting_ack.revision /\ slot = None
        /\ periph_context.revision = awaiting_ack.revision
        /\ OnlyGeneration(g, Path)
    BY <2>1 DEF AwaitedUpdate
  <2>3. AwaitedUpdate'
    BY <1>1, <1>4, <1>5, <2>1, <2>2 DEF AwaitedUpdate, StillAwaiting
  <2>4. AwaitedAcked'
    <3>1. CASE last_applied = m.revision
      <4>1. AwaitedDelivered'
        BY <1>1, <1>4, <2>1, <3>1 DEF AwaitedDelivered, Delivered, StillAwaiting
      <4> QED
        BY <1>1, <1>4, <2>2, <4>1 DEF AwaitedAcked, StillAwaiting
    <3>2. CASE last_applied # m.revision
      BY <1>3, <1>4, <3>2, NotYetDelivered DEF AwaitedAcked, Acked, StillAwaiting
    <3> QED
      BY <3>1, <3>2
  <2> QED
    BY <1>6, <1>7, <2>3, <2>4
<1>9. CASE m.generation # g
  <2>1. awaiting_ack.kind # "ContextUpdate"
    BY <1>3, <1>9 DEF AwaitedUpdate, OnlyGeneration
  <2>2. AwaitedUpdate'
    BY <1>4, <2>1 DEF AwaitedUpdate, StillAwaiting
  <2>3. AwaitedAcked'
    BY <1>3, <1>4, <1>9, NotYetDelivered, AckFields DEF AwaitedAcked, Acked, StillAwaiting
  <2> QED
    BY <1>6, <1>7, <2>2, <2>3
<1> QED
  BY <1>8, <1>9

\* The awaited Commit sets the context and hands the snapshot on.
LEMMA CommitKeepsAwaiting ==
    ASSUME TypeOK, OrderInv, Awaiting, NEW m, ProcessCommit(m), Acks' \subseteq Acks
    PROVE  Awaiting'
<1> DEFINE g == awaiting_ack.generation
<1>1. /\ Takes(m) /\ m.type = "Commit" /\ stage' = None
      /\ UNCHANGED <<engine, worker>>
  BY DEF ProcessCommit
<1>2. Replicates(m) /\ Closes(m)
  BY <1>1 DEF Replicates, Closes
<1>3. 1 \in Positions(Path) /\ Path[1] = m /\ Thinner(Path', Path)
  BY <1>1, <1>2, TakenFirst
<1>4. StillAwaiting /\ CurrencyKept /\ CurrentContexts' = CurrentContexts
  BY <1>1, TakesFrame
<1> SUFFICES ASSUME awaiting_ack # None
             PROVE  /\ AwaitedOrigin' /\ AwaitedOnPath' /\ AwaitedSignalled'
                    /\ AwaitedServed' /\ AwaitedAcked' /\ AwaitedUpdate'
  BY <1>4 DEF Awaiting, StillAwaiting
<1> USE DEF Awaiting
<1>5. Underway(awaiting_ack, Path', CurrentContexts')
  BY <1>3, <1>4, ThinnerAwaited DEF CurrencyKept, AwaitedOnPath
<1>6. AwaitedOnPath' /\ AwaitedOrigin'
  BY <1>1, <1>4, <1>5 DEF AwaitedOnPath, AwaitedOrigin, StillAwaiting, CurrencyKept, StagedFor
<1>7. AwaitedServed' /\ AwaitedAcked'
  BY <1>1, <1>3, <1>4, NotYetDelivered DEF AwaitedServed, AwaitedAcked, Acked, Serving, StillAwaiting
\* A Commit is not on the path while a context update is awaited.
<1>8. awaiting_ack.kind = "FullSnapshot" /\ AwaitedUpdate'
  <2>1. awaiting_ack.kind # "ContextUpdate"
    BY <1>1, <1>3 DEF AwaitedUpdate, OnlyGeneration, AwaitedOnPath, Underway
  <2> QED
    BY <1>4, <2>1 DEF AwaitedUpdate, StillAwaiting, TypeOK, TransferOK, PendingAcks
<1>9. AwaitedSignalled'
  <2>1. CASE UNCHANGED apply_request
    BY <1>3, <1>4, <2>1, NotYetDelivered DEF AwaitedSignalled, StillAwaiting
  <2>2. CASE /\ StageComplete(m)
             /\ apply_request' = [generation |-> m.generation, digests |-> StagedDurable]
             /\ periph_context' = [revision |-> stage.revision, context |-> stage.context]
    <3>1. CASE m.generation = g
      <4>1. Positions(Path') = {}
        BY <1>1, <1>2, <3>1, ClosesLast
      <4>2. /\ stage # None /\ stage.generation = g /\ "Body" \in stage.received
        BY <2>2, <3>1 DEF StageComplete, StageMatches
      <4>3. stage.revision = awaiting_ack.revision /\ stage.context \in CurrentContexts
        BY <4>2 DEF AwaitedOnPath, StagedFor
      <4>4. AwaitedDelivered'
        BY <1>4, <2>2, <4>1, <4>3 DEF AwaitedDelivered, Delivered, StillAwaiting
      <4>5. apply_request'.digests.revision = awaiting_ack.revision
        BY <2>2, <4>3 DEF StagedDurable
      <4> QED
        BY <1>4, <1>8, <4>4, <4>5 DEF AwaitedSignalled, StillAwaiting
    <3>2. CASE m.generation # g
      BY <1>4, <2>2, <3>2 DEF AwaitedSignalled, StillAwaiting
    <3> QED
      BY <3>1, <3>2
  <2> QED
    BY <2>1, <2>2 DEF ProcessCommit
<1> QED
  BY <1>6, <1>7, <1>8, <1>9

-----------------------------------------------------------------------------
(* The worker and the engine.                                              *)

\* The worker changes nothing at the central or on the path.
LEMMA WorkerFrame ==
    ASSUME TypeOK, WorkerTakesRequest \/ EngineApplies \/ WorkerAcknowledges
    PROVE  /\ StillAwaiting /\ CurrencyKept
           /\ CurrentRevisions' = CurrentRevisions /\ CurrentContexts' = CurrentContexts
           /\ Path' = Path /\ Thinner(Path', Path) /\ stage' = stage
           /\ periph_context' = periph_context /\ UNCHANGED central_watch
           /\ AwaitedOrigin' = AwaitedOrigin /\ AwaitedOnPath' = AwaitedOnPath
           /\ AwaitedDelivered' = AwaitedDelivered
<1>1. /\ UNCHANGED <<authority, central, watches, tx, prx, stage, periph_context>>
  BY DEF WorkerTakesRequest, EngineApplies, WorkerAcknowledges, queues
<1>2. StillAwaiting /\ UNCHANGED <<central_watch, full_dirty>>
  BY <1>1 DEF central, transfer, watches, StillAwaiting
<1>3. CurrentRevisions' = CurrentRevisions /\ CurrentContexts' = CurrentContexts
  BY <1>1 DEF authority, central, CurrentRevisions, CurrentContexts
<1>4. Path' = Path /\ Thinner(Path', Path)
  BY <1>1, SameIsThinner DEF Path
<1>5. CurrencyKept
  BY <1>2, <1>3 DEF CurrencyKept, StillAwaiting
<1>6. AwaitedOrigin' = AwaitedOrigin
  BY <1>2, <1>3 DEF AwaitedOrigin, StillAwaiting
<1>7. AwaitedOnPath' = AwaitedOnPath
  BY <1>1, <1>2, <1>3, <1>4 DEF AwaitedOnPath, StillAwaiting
<1>8. AwaitedDelivered' = AwaitedDelivered
  BY <1>1, <1>2, <1>3, <1>4 DEF AwaitedDelivered, StillAwaiting
<1> QED
  BY <1>1, <1>2, <1>3, <1>4, <1>5, <1>6, <1>7, <1>8

\* The worker takes the request: signalled becomes served.
LEMMA TakesRequestKeepsAwaiting ==
    ASSUME TypeOK, Awaiting, WorkerTakesRequest
    PROVE  Awaiting'
<1>1. /\ worker' = [state |-> "requested", request |-> apply_request]
      /\ apply_request # None /\ apply_request' = None
      /\ UNCHANGED <<slot, engine, ptx, crx>>
  BY DEF WorkerTakesRequest, queues
<1>2. Acks' = Acks
  BY <1>1 DEF Acks
<1> SUFFICES ASSUME awaiting_ack # None
             PROVE  /\ AwaitedOrigin' /\ AwaitedOnPath' /\ AwaitedSignalled'
                    /\ AwaitedServed' /\ AwaitedAcked' /\ AwaitedUpdate'
  BY WorkerFrame DEF Awaiting, StillAwaiting
<1> USE WorkerFrame DEF Awaiting, StillAwaiting
<1>3. AwaitedSignalled'
  BY <1>1 DEF AwaitedSignalled
<1>4. AwaitedServed'
  <2>1. worker'.state = "requested" /\ worker'.request = apply_request
    BY <1>1
  <2> QED
    BY <1>1, <2>1 DEF AwaitedServed, AwaitedSignalled, Serving
<1>5. AwaitedAcked'
  BY <1>1, <1>2 DEF AwaitedAcked
<1>6. AwaitedUpdate'
  BY <1>1 DEF AwaitedUpdate
<1> QED
  BY <1>3, <1>4, <1>5, <1>6

\* The engine applies the slot: served becomes shown.
LEMMA AppliesKeepsAwaiting ==
    ASSUME TypeOK, Awaiting, EngineApplies
    PROVE  Awaiting'
<1>1. /\ worker.state = "requested" /\ slot # None /\ slot' = None
      /\ worker' = [worker EXCEPT !.state = "applied"]
      /\ UNCHANGED <<apply_request, ptx, crx>>
  BY DEF EngineApplies, queues
<1>2. Acks' = Acks
  BY <1>1 DEF Acks
<1> SUFFICES ASSUME awaiting_ack # None
             PROVE  /\ AwaitedOrigin' /\ AwaitedOnPath' /\ AwaitedSignalled'
                    /\ AwaitedServed' /\ AwaitedAcked' /\ AwaitedUpdate'
  BY WorkerFrame DEF Awaiting, StillAwaiting
<1> USE WorkerFrame DEF Awaiting, StillAwaiting
<1>3. worker'.state = "applied" /\ worker'.request = worker.request
  BY <1>1, WorkerRequest DEF TypeOK, PeripheralOK
<1>4. AwaitedSignalled'
  BY <1>1 DEF AwaitedSignalled
<1>5. AwaitedServed'
  BY <1>1, <1>3 DEF AwaitedServed, Serving
<1>6. AwaitedAcked'
  BY <1>1, <1>2 DEF AwaitedAcked
<1>7. AwaitedUpdate'
  BY <1>1 DEF AwaitedUpdate
<1> QED
  BY <1>4, <1>5, <1>6, <1>7

\* The worker acknowledges the awaited snapshot once the engine holds it.
LEMMA AcknowledgesKeepsAwaiting ==
    ASSUME TypeOK, RequestMatchesSlot, Awaiting, WorkerAcknowledges,
           Acks' \subseteq
             Acks \cup {Ack(worker.request.generation, worker.request.digests.revision)}
    PROVE  Awaiting'
<1>1. /\ worker.state = "applied" /\ worker' = Idle
      /\ UNCHANGED <<slot, engine, apply_request>>
  BY DEF WorkerAcknowledges
<1> SUFFICES ASSUME awaiting_ack # None
             PROVE  /\ AwaitedOrigin' /\ AwaitedOnPath' /\ AwaitedSignalled'
                    /\ AwaitedServed' /\ AwaitedAcked' /\ AwaitedUpdate'
  BY WorkerFrame DEF Awaiting, StillAwaiting
<1> USE WorkerFrame DEF Awaiting, StillAwaiting
<1>2. AwaitedSignalled'
  BY <1>1 DEF AwaitedSignalled
<1>3. AwaitedServed'
  BY <1>1 DEF AwaitedServed, Serving, Idle
<1>4. AwaitedAcked'
  <2>1. CASE worker.request.generation = awaiting_ack.generation
    <3>1. /\ worker.request.digests.revision = awaiting_ack.revision
          /\ AwaitedDelivered /\ slot = None
      BY <1>1, <2>1 DEF AwaitedServed, Serving
    <3>2. engine = worker.request.digests
      BY <1>1 DEF RequestMatchesSlot
    <3> QED
      BY <1>1, <3>1, <3>2 DEF AwaitedAcked
  <2>2. CASE worker.request.generation # awaiting_ack.generation
    <3>1. Acked(awaiting_ack.generation, Acks') => Acked(awaiting_ack.generation, Acks)
      BY <2>2, AckFields DEF Acked
    <3> QED
      BY <1>1, <3>1 DEF AwaitedAcked
  <2> QED
    BY <2>1, <2>2
<1>5. AwaitedUpdate'
  BY <1>1 DEF AwaitedUpdate
<1> QED
  BY <1>2, <1>3, <1>4, <1>5

\* The worker's steps keep what is clean.
LEMMA WorkerKeepsClean ==
    ASSUME TypeOK, Clean, WorkerTakesRequest \/ EngineApplies \/ WorkerAcknowledges
    PROVE  Clean'
<1>1. \/ EngineApplies /\ slot # None
      \/ UNCHANGED <<engine, slot>>
  BY DEF WorkerTakesRequest, EngineApplies, WorkerAcknowledges
<1>2. /\ StillAwaiting /\ CurrencyKept /\ Thinner(Path', Path)
      /\ periph_context' = periph_context
  BY WorkerFrame
<1>3. CASE UNCHANGED <<engine, slot>>
  BY <1>2, <1>3, CleanKept
<1>4. CASE EngineApplies /\ slot # None
  BY <1>2, <1>4 DEF Clean, StillAwaiting, CurrencyKept
<1> QED
  BY <1>1, <1>3, <1>4

-----------------------------------------------------------------------------
(* The central.                                                            *)

\* The export is current when it is taken.
LEMMA ExportKeepsRest ==
    ASSUME TypeOK, Awaiting, Clean, ExportReplica
    PROVE  Awaiting' /\ Clean' /\ Exporting'
<1>1. /\ exported' = [revision |-> revision, context |-> context]
      /\ awaiting_ack = None /\ link_up
      /\ UNCHANGED <<awaiting_ack, link_up, full_dirty, context_dirty, last_acked_revision>>
      /\ UNCHANGED <<authority, queues, peripheral>>
  BY DEF ExportReplica, SendDue, transfer
<1>2. Awaiting'
  BY <1>1 DEF Awaiting
<1>3. Clean'
  <2>1. CurrentRevisions' = CurrentRevisions /\ CurrentContexts' = CurrentContexts
    BY <1>1 DEF authority, CurrentRevisions, CurrentContexts
  <2>2. Path' = Path /\ UNCHANGED <<engine, slot, periph_context>>
    BY <1>1 DEF queues, peripheral, Path
  <2> QED
    BY <1>1, <2>1, <2>2 DEF Clean
<1>4. Exporting'
  BY <1>1 DEF Exporting, authority, TypeOK, AuthorityOK
<1> QED
  BY <1>2, <1>3, <1>4

\* A transfer of a fresh generation goes behind everything on the path.
LEMMA JoinedUnderway ==
    ASSUME NEW p \in Seq(Message), NEW s, NEW a, NEW x, NEW C,
           IsTransfer(s, a.generation, x), a.revision = x.revision, x.context \in C,
           \A i \in 1 .. Len(s) : s[i].type = "ContextUpdate" <=> a.kind = "ContextUpdate",
           \A i \in Positions(p) : p[i].generation # a.generation
    PROVE  /\ Underway(a, p \o s, C)
           /\ Positions(p) = {} => OnlyGeneration(a.generation, p \o s)
<1>1. s \in Seq(Message) /\ Len(p) \in Nat
  BY DEF IsTransfer
<1> SUFFICES ASSUME NEW q, q = p \o s
             PROVE  /\ Underway(a, q, C)
                    /\ Positions(p) = {} => OnlyGeneration(a.generation, q)
  OBVIOUS
<1>2. ASSUME NEW i \in Positions(q)
      PROVE  \/ i \in Positions(p) /\ q[i] = p[i]
             \/ /\ i > Len(p) /\ q[i].generation = a.generation
                /\ q[i].revision = a.revision
                /\ q[i].type = "ContextUpdate" <=> a.kind = "ContextUpdate"
                /\ CarriesContext(q[i]) => q[i].context \in C
  <2>1. CASE i \in Positions(p) /\ q[i] = p[i]
    BY <2>1
  <2>2. CASE i - Len(p) \in Positions(s) /\ q[i] = s[i - Len(p)] /\ i > Len(p)
    <3>1. PICK k : k = i - Len(p)
      OBVIOUS
    <3>2. k \in 1 .. Len(s) /\ q[i] = s[k]
      BY <2>2, <3>1 DEF Positions
    <3> QED
      BY <2>2, <3>2 DEF IsTransfer
  <2> QED
    BY <1>1, <2>1, <2>2, JoinedPositions
<1>3. \A i \in Positions(p) : i <= Len(p) /\ i \in Nat
  BY <1>1 DEF Positions
<1>4. \A i \in Positions(q) : i \in Nat
  BY DEF Positions
<1>5. Underway(a, q, C)
  <2>1. SUFFICES ASSUME NEW i \in Positions(q), q[i].generation = a.generation
        PROVE  /\ q[i].revision = a.revision
               /\ q[i].type = "ContextUpdate" <=> a.kind = "ContextUpdate"
               /\ CarriesContext(q[i]) => q[i].context \in C
               /\ \A j \in Positions(q) : i < j => q[j].generation = a.generation
    BY DEF Underway
  <2>2. /\ i > Len(p) /\ q[i].revision = a.revision
        /\ q[i].type = "ContextUpdate" <=> a.kind = "ContextUpdate"
        /\ CarriesContext(q[i]) => q[i].context \in C
    BY <1>2, <2>1
  <2>3. ASSUME NEW j \in Positions(q), i < j PROVE q[j].generation = a.generation
    <3>1. j \notin Positions(p)
      BY <1>1, <1>3, <1>4, <2>2, <2>3
    <3> QED
      BY <1>2, <3>1
  <2> QED
    BY <2>2, <2>3
<1>6. Positions(p) = {} => OnlyGeneration(a.generation, q)
  BY <1>2 DEF OnlyGeneration
<1> QED
  BY <1>5, <1>6

\* No acknowledgement of the next generation is on its way.
LEMMA FreshAcks ==
    ASSUME GenerationFresh
    PROVE  /\ ~ Acked(NextGeneration, Acks)
           /\ apply_request # None => apply_request.generation # NextGeneration
           /\ Serving => worker.request.generation # NextGeneration
BY DEF GenerationFresh, InFlight, Acked, Acks, Serving

\* A new transfer is the last on the path, of a fresh generation; a refused one
\* changes nothing that matters here.
LEMMA QueueKeepsRest ==
    ASSUME TypeOK, Awaiting, Clean, Exporting, QueueTransfer
    PROVE  Awaiting' /\ Clean' /\ Exporting'
<1> DEFINE g == NextGeneration
<1>1. /\ exported # None /\ exported \in TaggedContexts /\ exported' = None
      /\ g \in GenerationSet /\ GenerationFresh
      /\ UNCHANGED <<link_up, last_acked_revision, authority, peripheral, prx, ptx, crx>>
  BY GenerationType DEF QueueTransfer, TypeOK, CentralOK
<1>2. /\ link_up /\ awaiting_ack = None /\ exported.revision # 0
      /\ exported.revision = revision \/ lighting_events > 0
      /\ exported.context = context \/ context_events > 0
  BY <1>1 DEF Exporting
<1>3. Exporting'
  BY <1>1 DEF Exporting
<1>4. CASE ~ Fits(TransferPackets)
  <2>1. UNCHANGED <<tx, awaiting_ack, full_dirty, context_dirty>>
    BY <1>4 DEF QueueTransfer
  <2>2. Awaiting'
    BY <1>2, <2>1 DEF Awaiting
  <2>3. CurrentRevisions' = CurrentRevisions /\ CurrentContexts' = CurrentContexts
    BY <1>1, <2>1 DEF authority, CurrentRevisions, CurrentContexts
  <2>4. Path' = Path /\ UNCHANGED <<engine, slot, periph_context>>
    BY <1>1, <2>1 DEF peripheral, Path
  <2>5. Clean'
    BY <1>1, <2>1, <2>3, <2>4 DEF Clean
  <2> QED
    BY <1>3, <2>2, <2>5
<1>5. CASE Fits(TransferPackets)
  <2>1. /\ tx' = tx \o TransferPackets
        /\ awaiting_ack' = [generation |-> g, revision |-> exported.revision,
                            kind |-> TransferKind]
        /\ full_dirty' = FALSE /\ context_dirty' = FALSE
    BY <1>5 DEF QueueTransfer
  <2>2. /\ awaiting_ack'.generation = g /\ awaiting_ack'.revision = exported.revision
        /\ awaiting_ack'.kind = TransferKind /\ awaiting_ack' # None
    <3>1. awaiting_ack'.generation = g /\ awaiting_ack'.revision = exported.revision
          /\ awaiting_ack'.kind = TransferKind
      BY <2>1
    <3>2. exported.revision \in Nat
      BY <1>1, ValueTypes
    <3> QED
      BY <3>1, <3>2 DEF None
  <2>3. Clean'
    BY <2>2 DEF Clean
  <2>4. IsTransfer(TransferPackets, g, exported)
    BY <1>1, SnapshotIsTransfer, UpdateIsTransfer DEF TransferPackets
  <2>5. \A i \in 1 .. Len(TransferPackets) :
          TransferPackets[i].type = "ContextUpdate" <=> TransferKind = "ContextUpdate"
    <3>1. CASE TransferKind = "ContextUpdate"
      BY <3>1 DEF TransferPackets, ContextPacket
    <3>2. CASE TransferKind # "ContextUpdate"
      BY <1>1, <3>2, SnapshotIsTransfer DEF TransferPackets
    <3> QED
      BY <3>1, <3>2
  <2>6. Path' = Path \o TransferPackets /\ Path \in Seq(Message)
    <3>1. prx \in Seq(Message) /\ tx \in Seq(Message) /\ TransferPackets \in Seq(Message)
      BY <2>4 DEF TypeOK, QueuesOK, IsTransfer
    <3> QED
      BY <1>1, <2>1, <3>1 DEF Path
  <2>7. /\ \A i \in Positions(Path) : Path[i].generation # g
        /\ stage # None => stage.generation # g
    BY <1>1, FreshGeneration
  <2>8. exported.revision \in CurrentRevisions' /\ exported.context \in CurrentContexts'
    <3>1. exported.revision \in Revisions /\ exported.context \in Contexts
      BY <1>1 DEF TaggedContexts
    <3> QED
      BY <1>1, <1>2, <2>1, <3>1 DEF authority, CurrentRevisions, CurrentContexts
  <2> HIDE DEF g
  <2>9. /\ Underway(awaiting_ack', Path', CurrentContexts')
        /\ Positions(Path) = {} => OnlyGeneration(g, Path')
    BY <2>2, <2>4, <2>5, <2>6, <2>7, <2>8, JoinedUnderway
  <2>10. AwaitedOnPath'
    BY <1>1, <2>2, <2>7, <2>9 DEF AwaitedOnPath, StagedFor, peripheral
  <2>11. AwaitedOrigin'
    BY <1>1, <1>2, <2>2, <2>8 DEF AwaitedOrigin
  <2>12. AwaitedSignalled' /\ AwaitedServed' /\ AwaitedAcked'
    <3>1. Acks' = Acks /\ UNCHANGED <<apply_request, worker>>
      BY <1>1 DEF Acks, peripheral
    <3>2. ~ Acked(g, Acks) /\ (apply_request # None => apply_request.generation # g)
          /\ (Serving => worker.request.generation # g)
      BY <1>1, FreshAcks DEF g
    <3> QED
      BY <2>2, <3>1, <3>2 DEF AwaitedSignalled, AwaitedServed, AwaitedAcked, Serving
  <2>13. AwaitedUpdate'
    <3>1. SUFFICES ASSUME TransferKind = "ContextUpdate" PROVE AwaitedUpdate'
      BY <2>2 DEF AwaitedUpdate
    <3>2. ~ full_dirty /\ exported.revision = last_acked_revision
      BY <3>1 DEF TransferKind
    <3>3. /\ engine.revision = last_acked_revision /\ slot = None
          /\ Positions(Path) = {} /\ periph_context.revision = last_acked_revision
      BY <1>2, <3>2 DEF Clean, Delivered
    <3>4. UNCHANGED <<engine, slot, periph_context>>
      BY <1>1 DEF peripheral
    <3> QED
      BY <1>1, <2>2, <2>9, <3>2, <3>3, <3>4 DEF AwaitedUpdate
  <2>14. Awaiting'
    BY <2>10, <2>11, <2>12, <2>13 DEF Awaiting
  <2> QED
    BY <1>3, <2>3, <2>14
<1> QED
  BY <1>4, <1>5

\* The Ack of the awaited transfer leaves the central clean.
LEMMA ReceivesKeepsRest ==
    ASSUME TypeOK, [Next]_vars, CentralReceives, Awaiting, Clean
    PROVE  Awaiting' /\ Clean' /\ Exporting'
<1>1. /\ crx # <<>> /\ crx' = Tail(crx) /\ exported = None
      /\ UNCHANGED <<link_up, full_dirty, context_dirty, exported, tx, prx, ptx,
                     authority, peripheral>>
  BY DEF CentralReceives, NoEvent, NoLinkEdge, AtSelect
<1>2. crx \in Seq(Message)
  BY DEF TypeOK, QueuesOK
<1>3. CurrentRevisions' = CurrentRevisions /\ CurrentContexts' = CurrentContexts
  BY <1>1 DEF authority, CurrentRevisions, CurrentContexts
<1>4. Path' = Path /\ UNCHANGED <<engine, slot, periph_context, stage, apply_request, worker>>
  BY <1>1 DEF peripheral, Path
<1>5. Exporting'
  BY <1>1 DEF Exporting
<1>6. CASE AckMatches(Head(crx)) /\ awaiting_ack' = None
  <2>1. Awaiting'
    BY <1>6 DEF Awaiting
  <2>3. awaiting_ack # None /\ Acked(awaiting_ack.generation, Acks)
    BY <1>1, <1>2, <1>6, RangeTail DEF AckMatches, Acked, Acks
  <2>4. AwaitedDelivered /\ slot = None /\ engine.revision = awaiting_ack.revision
    BY <2>3 DEF Awaiting, AwaitedAcked
  <2>5. awaiting_ack.revision # 0 /\ awaiting_ack.revision \in CurrentRevisions
    BY <2>3 DEF Awaiting, AwaitedOrigin
  <2>6. last_acked_revision' = awaiting_ack.revision
    <3>1. CASE awaiting_ack.kind = "FullSnapshot"
      BY <1>6, <3>1 DEF CentralReceives, AckMatches
    <3>2. CASE awaiting_ack.kind # "FullSnapshot"
      <4>1. awaiting_ack.kind = "ContextUpdate"
        BY <2>3, <3>2 DEF TypeOK, TransferOK, PendingAcks
      <4>2. last_acked_revision' = last_acked_revision
        BY <1>6, <3>2 DEF CentralReceives, AckMatches
      <4> QED
        BY <2>3, <4>1, <4>2 DEF Awaiting, AwaitedUpdate
    <3> QED
      BY <3>1, <3>2
  <2>7. Clean'
    BY <1>3, <1>4, <2>4, <2>5, <2>6 DEF Clean, AwaitedDelivered
  <2> QED
    BY <1>5, <2>1, <2>7
<1>7. CASE UNCHANGED <<awaiting_ack, last_acked_revision>>
  <2>1. StillAwaiting /\ CurrencyKept /\ QuietPeripheral /\ Thinner(Path', Path)
    BY <1>1, <1>3, <1>4, <1>7, SameIsThinner DEF StillAwaiting, CurrencyKept, QuietPeripheral
  <2>2. Acks' \subseteq Acks
    BY <1>1, <1>2, RangeTail DEF Acks
  <2>3. Awaiting'
    BY <2>1, <2>2, AwaitingKept DEF Acked
  <2>4. Clean'
    BY <1>4, <2>1, CleanKept
  <2> QED
    BY <1>5, <2>3, <2>4
<1> QED
  BY <1>6, <1>7 DEF CentralReceives

\* The link arm and the ack deadline leave the central with a snapshot to send.
LEMMA GivingUpKeepsRest ==
    ASSUME CentralLinkChanged \/ AckTimesOut
    PROVE  Awaiting' /\ Clean' /\ Exporting'
<1>1. awaiting_ack' = None /\ exported' = None
  BY DEF CentralLinkChanged, AckTimesOut, NoEvent, NoLinkEdge, AtSelect
<1>2. CASE CentralLinkChanged
  BY <1>1, <1>2 DEF CentralLinkChanged, Awaiting, Clean, Exporting
<1>3. CASE AckTimesOut
  BY <1>1, <1>3 DEF AckTimesOut, ResendAfterTimeout, Awaiting, Clean, Exporting
<1> QED
  BY <1>2, <1>3

\* A peripheral that reboots while no link edge waits for the central does so
\* between sessions.
LEMMA RebootKeepsRest ==
    ASSUME LinkKnown, PeripheralReboots, central_watch' = "seen"
    PROVE  Awaiting' /\ Clean' /\ Exporting'
<1>1. Dormant
  BY DEF LinkKnown, PeripheralReboots
<1>2. UNCHANGED <<awaiting_ack, exported, link_up>>
  BY DEF PeripheralReboots, central, transfer
<1> QED
  BY <1>1, <1>2 DEF Dormant, Awaiting, Clean, Exporting

\* An event is queued for every change under way.
LEMMA ExportingKept ==
    ASSUME TypeOK, [Next]_vars, Exporting, StillAwaiting, ~ QueueTransfer
    PROVE  Exporting'
<1>1. lighting_events \in Nat /\ context_events \in Nat
  BY DEF TypeOK, AuthorityOK
<1> USE DEF Exporting, StillAwaiting
<1>2. CASE LightingChanges
  BY <1>1, <1>2 DEF LightingChanges
<1>3. CASE ContextChanges
  BY <1>1, <1>3 DEF ContextChanges
<1>4. CASE \/ CentralLightingChanged \/ CentralContextChanged \/ CentralLinkChanged
           \/ AckTimesOut \/ ExportReplica
  BY <1>4 DEF CentralLightingChanged, CentralContextChanged, CentralLinkChanged,
     AckTimesOut, ExportReplica, NoEvent, NoLinkEdge, AtSelect
<1>5. CASE UNCHANGED flags
  BY <1>5 DEF flags
<1> QED
  BY <1>2, <1>3, <1>4, <1>5, CurrencySteps

\* The packets the peripheral takes, together.
LEMMA ProcessKeepsRest ==
    ASSUME TypeOK, OrderInv, Awaiting, Clean, [Next]_vars, NEW m,
           \/ ProcessContextUpdate(m) \/ ProcessBegin(m)
           \/ ProcessPart(m) \/ ProcessCommit(m)
    PROVE  Awaiting' /\ Clean'
<1>1. Takes(m) /\ Replicates(m)
  BY DEF ProcessContextUpdate, ProcessBegin, ProcessPart, ProcessCommit, Replicates
<1>2. Clean'
  BY <1>1, TakesClean
<1>3. CASE ProcessBegin(m) \/ ProcessPart(m) \/ ProcessCommit(m)
  <2>1. Acks' = Acks
    BY <1>3 DEF ProcessBegin, ProcessPart, ProcessCommit, Takes, Acks
  <2> QED
    BY <1>2, <1>3, <2>1, BeginKeepsAwaiting, PartKeepsAwaiting, CommitKeepsAwaiting
<1>4. CASE ProcessContextUpdate(m)
  <2>1. \/ Acks' \subseteq Acks
        \/ \E n : ProcessContextUpdate(n) /\ last_applied = n.revision
                  /\ Acks' \subseteq Acks \cup {Ack(n.generation, n.revision)}
        \/ /\ WorkerAcknowledges
           /\ Acks' \subseteq
                Acks \cup {Ack(worker.request.generation, worker.request.digests.revision)}
    BY AckSetStep
  <2>2. \A n : ProcessContextUpdate(n) => n = m
    BY <1>4 DEF ProcessContextUpdate, Takes
  <2>3. ~ WorkerAcknowledges
    <3>1. prx' = Tail(prx) /\ prx # <<>> /\ prx \in Seq(Message)
      BY <1>1 DEF Takes, TypeOK, QueuesOK
    <3>2. prx' # prx
      BY <3>1, TailFits
    <3> QED
      BY <3>2 DEF WorkerAcknowledges
  <2> QED
    BY <1>2, <1>4, <2>1, <2>2, <2>3, UpdateKeepsAwaiting
<1> QED
  BY <1>3, <1>4

-----------------------------------------------------------------------------
(* The invariant at rest.                                                  *)

\* The invariant of the rest holds at boot.
LEMMA InitRest == Init => RestInv
BY DEF Init, RestInv, Awaiting, Clean, Exporting

\* Every step keeps the invariant.
LEMMA RestStep ==
    TypeOK /\ OrderInv /\ LinkKnown /\ RequestMatchesSlot /\ RestInv /\ [Next]_vars => RestInv'
<1> SUFFICES ASSUME TypeOK, OrderInv, LinkKnown, RequestMatchesSlot, RestInv, [Next]_vars,
                    central_watch' = "seen"
             PROVE  Awaiting' /\ Clean' /\ Exporting'
  BY DEF RestInv
<1>1. CASE CentralLinkChanged \/ AckTimesOut
  BY <1>1, GivingUpKeepsRest
<1>2. CASE PeripheralReboots
  BY <1>2, RebootKeepsRest
<1>3. CASE ~ CentralLinkChanged /\ ~ AckTimesOut /\ ~ PeripheralReboots
  <2>1. ~ LinkUp /\ ~ LinkDown
    BY DEF LinkUp, LinkDown
  <2>2. Awaiting /\ Clean /\ Exporting
    <3>1. central_watch = "seen"
      BY <1>3, <2>1, SessionSteps DEF ExportReplica, QueueTransfer, CentralReceives,
         watches, session
    <3> QED
      BY <3>1 DEF RestInv
  <2>3. CASE ExportReplica
    BY <2>2, <2>3, ExportKeepsRest
  <2>4. CASE QueueTransfer
    BY <2>2, <2>4, QueueKeepsRest
  <2>5. CASE CentralReceives
    BY <2>2, <2>5, ReceivesKeepsRest
  <2>6. CASE ~ ExportReplica /\ ~ QueueTransfer /\ ~ CentralReceives
    <3>1. StillAwaiting
      BY <1>3, <2>1, <2>6, SessionSteps DEF session, StillAwaiting
    <3>2. CurrencyKept /\ Thinner(Path', Path)
      BY <1>3, <2>6, CurrencyStep, PathStep
    <3>3. Exporting'
      BY <2>2, <2>6, <3>1, ExportingKept
    <3>4. CASE \E m : \/ ProcessContextUpdate(m) \/ ProcessBegin(m)
                      \/ ProcessPart(m) \/ ProcessCommit(m)
      BY <2>2, <3>3, <3>4, ProcessKeepsRest
    <3>5. CASE ~ \E m : \/ ProcessContextUpdate(m) \/ ProcessBegin(m)
                        \/ ProcessPart(m) \/ ProcessCommit(m)
      <4>1. CASE WorkerTakesRequest \/ EngineApplies \/ WorkerAcknowledges
        <5>1. Clean'
          BY <2>2, <4>1, WorkerKeepsClean
        <5>2. WorkerAcknowledges => Acks' \subseteq
                Acks \cup {Ack(worker.request.generation, worker.request.digests.revision)}
          BY <3>5, AckSetStep
        <5>3. Awaiting'
          BY <2>2, <4>1, <5>2, TakesRequestKeepsAwaiting, AppliesKeepsAwaiting,
             AcknowledgesKeepsAwaiting
        <5> QED
          BY <3>3, <5>1, <5>3
      <4>2. CASE ~ WorkerTakesRequest /\ ~ EngineApplies /\ ~ WorkerAcknowledges
        <5>1. QuietPeripheral
          BY <1>3, <3>5, <4>2, QuietSteps
        <5>2. Acks' \subseteq Acks
          BY <3>5, <4>2, AckSetStep
        <5>3. Awaiting'
          BY <2>2, <3>1, <3>2, <5>1, <5>2, AwaitingKept DEF Acked
        <5>4. Clean'
          BY <2>2, <3>1, <3>2, <5>1, CleanKept DEF QuietPeripheral
        <5> QED
          BY <3>3, <5>3, <5>4
      <4> QED
        BY <4>1, <4>2
    <3> QED
      BY <3>4, <3>5
  <2> QED
    BY <2>3, <2>4, <2>5, <2>6
<1> QED
  BY <1>1, <1>2, <1>3

\* The transfer CentralReplication::run awaits is always the newest one under
\* way, and an Ack that matches it exists only once PeripheralReplication and the
\* engine hold what it carried.
THEOREM RestInvariant == Spec => []RestInv
<1>1. TypeOK /\ OrderInv /\ SessionInv /\ RequestMatchesSlot /\ RestInv /\ [Next]_vars => RestInv'
  BY RestStep DEF SessionInv
<1> QED
  BY <1>1, InitRest, ReplicationTypeCorrect, ApplyRequestMatchesSlot, PathStaysInOrder,
     SessionInvariant, PTL DEF Spec

\* At rest the peripheral has the engine revision and the context of the central.
RevisionAndContextAtRest ==
    CentralAtRest =>
        /\ engine.revision = revision
        /\ periph_context = [revision |-> revision, context |-> context]

\* At rest the engine and the context hold the authority's values.
LEMMA RestValues ==
    TypeOK /\ RestInv => RevisionAndContextAtRest
<1> SUFFICES ASSUME TypeOK, RestInv, CentralAtRest
             PROVE  /\ engine.revision = revision
                    /\ periph_context = [revision |-> revision, context |-> context]
  BY DEF RevisionAndContextAtRest
<1>1. /\ link_up /\ ~ full_dirty /\ ~ context_dirty /\ awaiting_ack = None
      /\ central_watch = "seen" /\ lighting_events = 0 /\ context_events = 0
  BY DEF CentralAtRest, NoEvent, NoLinkEdge
<1>2. CurrentRevisions = {revision} /\ CurrentContexts = {context}
  BY <1>1 DEF CurrentRevisions, CurrentContexts
<1>3. /\ last_acked_revision = revision /\ engine.revision = revision
      /\ periph_context.revision = revision /\ periph_context.context = context
  BY <1>1, <1>2 DEF RestInv, Clean, Delivered
<1>4. periph_context \in TaggedContexts
  BY DEF TypeOK, PeripheralOK
<1> QED
  BY <1>3, <1>4 DEF TaggedContexts

\* Whenever CentralReplication::run is at its select with no event, dirty flag or
\* outstanding Ack, the peripheral's engine revision and rendered context are the
\* central's: no loss, timeout, late Ack, refused transfer or new session drops
\* an update for good.
THEOREM RestIsCurrent == Spec => []RevisionAndContextAtRest
BY RestValues, RestInvariant, ReplicationTypeCorrect, PTL

-----------------------------------------------------------------------------
(* The conditional-scene gates.                                            *)

\* Without gates there is nothing for a Commit to miss.
LEMMA GatesStep ==
    TypeOK /\ GatesInv /\ [Next]_vars => GatesInv'
<1> SUFFICES ASSUME TypeOK, GatesInv, [Next]_vars, ~ Gated
             PROVE  engine'.gates = "kept" /\ (slot' # None => slot'.gates = "kept")
  BY DEF GatesInv
<1>1. engine.gates = "kept" /\ (slot # None => slot.gates = "kept")
  BY DEF GatesInv
<1>2. ASSUME NEW m, ProcessCommit(m)
      PROVE  engine' = engine /\ slot' \in {slot, StagedDurable}
  BY <1>2 DEF ProcessCommit
<1>3. StagedDurable.gates = "kept"
  BY DEF StagedDurable
<1>4. CASE \E m : ProcessCommit(m)
  BY <1>1, <1>2, <1>3, <1>4
<1>5. CASE EngineApplies
  BY <1>1, <1>5 DEF EngineApplies
<1>6. CASE PeripheralReboots
  BY <1>6 DEF PeripheralReboots, BootDurable
<1>7. CASE slot' \in {slot, None} /\ engine' = engine
  BY <1>1, <1>7
<1>8. CASE \E m : ProcessContextUpdate(m) \/ ProcessBegin(m) \/ ProcessPart(m)
  <2>1. slot' = slot /\ engine' = engine
    BY <1>8 DEF ProcessContextUpdate, ProcessBegin, ProcessPart
  <2> QED
    BY <1>1, <2>1
<1>9. \/ \E m : ProcessContextUpdate(m) \/ ProcessBegin(m) \/ ProcessPart(m)
      \/ \E m : ProcessCommit(m)
      \/ EngineApplies \/ PeripheralReboots
      \/ slot' \in {slot, None} /\ engine' = engine
  BY PeripheralSteps
<1> QED
  BY <1>4, <1>5, <1>6, <1>7, <1>8, <1>9

\* The same for the whole replica, if snapshots have no conditional-scene gates.
\* (With gates it does not hold: Commit does not account for the gate packets, so
\* a snapshot that lost one is applied and acknowledged without it.)
THEOREM RestIsReplicated ==
    ASSUME ~ Gated PROVE Spec => []RestMeansReplicated
<1>1. Init => GatesInv
  BY DEF Init, GatesInv, BootDurable
<1>2. TypeOK /\ GatesInv /\ RevisionAndContextAtRest => RestMeansReplicated
  <2> SUFFICES ASSUME TypeOK, GatesInv, RevisionAndContextAtRest, CentralAtRest
               PROVE  /\ engine = [revision |-> revision, gates |-> "kept"]
                      /\ periph_context = [revision |-> revision, context |-> context]
    BY DEF RestMeansReplicated
  <2>1. engine.revision = revision /\ engine.gates = "kept"
    BY DEF GatesInv, RevisionAndContextAtRest
  <2>2. engine \in Durables
    BY DEF TypeOK, PeripheralOK
  <2> QED
    BY <2>1, <2>2 DEF RevisionAndContextAtRest, Durables
<1> QED
  BY <1>1, <1>2, GatesStep, RestIsCurrent, ReplicationTypeCorrect, PTL DEF Spec

=============================================================================
