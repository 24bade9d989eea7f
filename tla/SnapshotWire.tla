---------------------------- MODULE SnapshotWire ----------------------------
(***************************************************************************)
(* One snapshot transaction after another over the real split queue: the   *)
(* central reserves room for a whole transaction, queues its packets in    *)
(* the order of walk_snapshot, and the link delivers them in that order or *)
(* loses some. It implements SnapshotStage.                                *)
(***************************************************************************)
EXTENDS StagePackets

CONSTANTS
    MaxTransfers,   \* bound on the transactions of one behaviour
    TxCapacity      \* slots of SPLIT_APP_TX

VARIABLES
    sent,        \* sent[g] is the snapshot offered as generation g
    stage,       \* SnapshotStage.stage
    committed,   \* the last snapshot a Commit handed out
    tx           \* SPLIT_APP_TX: packets queued and not yet taken or lost

vars == <<sent, stage, committed, tx>>

\* The packets of the overlay cells on the right half, in some order.
CellPacketsOfBothHalves(g, s) ==   \* mutant: no projection on the right half
    SetToSeq({CellPacket(g, s, c) : c \in s.cells})
CellPackets(g, s) == SetToSeq({CellPacket(g, s, c) : c \in Right(s.cells)})

\* The cell packet of each conditional entry, followed by its gate packet
\* when the entry has a gate.
CondPackets(g, s) ==
    FlattenSeq([i \in DOMAIN RightSeq(s.cond) |->
        LET c == RightSeq(s.cond)[i] IN
            IF c.gate = Default THEN <<CondCellPacket(g, s, c)>>
            ELSE <<CondCellPacket(g, s, c), CondExtPacket(g, s, c)>>])

\* walk_snapshot: the transaction in wire order.
Walk(g, s) ==
    <<BeginPacket(g, s), PartPacket(g, s, "WakeLayers"),
      PartPacket(g, s, "Context"), PartPacket(g, s, "Extension"),
      PartPacket(g, s, "ExtensionOverlay")>>
    \o CellPackets(g, s)
    \o SetToSeq({ScenePacket(g, s, c) : c \in Right(s.scenes)})
    \o <<CondBeginPacket(g, s)>>
    \o CondPackets(g, s)
    \o <<CommitPacket(g, s)>>

\* The reservation try_queue_snapshot makes before it queues anything.
RoomFor(packets) == TxCapacity - Len(tx) >= Len(packets)

Init ==
    /\ sent = <<>>
    /\ stage = NoStage
    /\ committed = NoCommit
    /\ tx = <<>>

\* try_queue_snapshot under the next generation, which is spent even when the
\* transaction is refused.
QueueSnapshot(s) ==
    LET g == Len(sent) + 1 IN
        /\ g <= MaxTransfers
        /\ sent' = Append(sent, s)
        /\ tx' = IF CountsFit(s) /\ RoomFor(Walk(g, s))
                 THEN tx \o Walk(g, s) ELSE tx
        /\ UNCHANGED <<stage, committed>>

\* The next packet reaches the peripheral's stage.
Deliver ==
    /\ tx # <<>>
    /\ tx' = Tail(tx)
    /\ stage' = ApplyPacket(stage, Head(tx))
    /\ committed' = IF CommitValid(stage, Head(tx)) THEN StagedSnapshot(stage)
                    ELSE committed
    /\ UNCHANGED sent

\* The next packet is lost on the wire.
Lose ==
    /\ tx # <<>>
    /\ tx' = Tail(tx)
    /\ UNCHANGED <<sent, stage, committed>>

\* SnapshotStage::reset, on an edge of the split link.
Reset ==
    /\ stage # NoStage
    /\ stage' = NoStage
    /\ UNCHANGED <<sent, committed, tx>>

Next ==
    \/ \E s \in Snapshots : QueueSnapshot(s)
    \/ Deliver
    \/ Lose
    \/ Reset

Spec == Init /\ [][Next]_vars

-----------------------------------------------------------------------------
\* The FIFO link with loss is one of the links SnapshotStage allows, so what
\* is proved of SnapshotStage holds here.
AnyLink == INSTANCE SnapshotStage WITH
    sent <- sent, stage <- stage, committed <- committed, MaxTransfers <- MaxTransfers
ImplementsAnyLink == AnyLink!Spec

\* The conditional table of a committed snapshot has every conditional cell of
\* the snapshot it was queued from in the same order, or it is empty. A gate
\* is the cell's own gate or missing: a packet lost in the middle never
\* attaches the gate of one cell to another.
CondGatesNeverMisattached ==
    committed # NoCommit /\ committed.cond # <<>> =>
        LET cond == RightSeq(sent[committed.generation].cond) IN
            /\ Len(committed.cond) = Len(cond)
            /\ \A i \in DOMAIN cond :
                 /\ committed.cond[i].slot = cond[i].slot
                 /\ committed.cond[i].effect = cond[i].effect
                 /\ committed.cond[i].gate \in {cond[i].gate, Default}

\* try_queue_snapshot's promise that "the staged peripheral state remains
\* invisible unless every packet lands": what is committed is the whole
\* right half of the snapshot, its conditional table and gates included.
OnlyWholeSnapshotsCommit ==
    committed # NoCommit =>
        committed.cond = RightSeq(sent[committed.generation].cond)

=============================================================================
