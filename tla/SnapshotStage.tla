--------------------------- MODULE SnapshotStage ---------------------------
(***************************************************************************)
(* The peripheral's SnapshotStage against an arbitrary split link: at any  *)
(* time any packet of any transaction queued so far may arrive, so packets *)
(* are lost, duplicated, reordered and delayed past later transactions in  *)
(* every possible way. SnapshotWire refines this with the real FIFO queue. *)
(***************************************************************************)
EXTENDS StagePackets

CONSTANT MaxTransfers   \* bound on the transactions of one behaviour

\* CentralReplication.generation is a u8: transfers are identified by their
\* generation as long as it has not come round.
ASSUME TransfersAssumption == MaxTransfers \in 1 .. 255

VARIABLES
    sent,        \* sent[g] is the snapshot offered as generation g
    stage,       \* SnapshotStage.stage
    committed    \* the last snapshot a Commit handed out

vars == <<sent, stage, committed>>

Init ==
    /\ sent = <<>>
    /\ stage = NoStage
    /\ committed = NoCommit

\* The central offers a snapshot to the link under the next generation. (The
\* queue may refuse it: then none of its packets arrives.)
OfferSnapshot(s) ==
    /\ Len(sent) < MaxTransfers
    /\ sent' = Append(sent, s)
    /\ UNCHANGED <<stage, committed>>

\* The peripheral's stage takes packet m.
Receive(m) ==
    /\ stage' = ApplyPacket(stage, m)
    /\ committed' = IF CommitValid(stage, m) THEN StagedSnapshot(stage)
                    ELSE committed
    /\ UNCHANGED sent

\* SnapshotStage::reset, on every edge of the split link.
Reset ==
    /\ stage' = NoStage
    /\ UNCHANGED <<sent, committed>>

Next ==
    \/ \E s \in Snapshots : OfferSnapshot(s)
    \/ \E g \in DOMAIN sent : \E m \in PacketsOf(g, sent[g]) : Receive(m)
    \/ Reset

Spec == Init /\ [][Next]_vars

-----------------------------------------------------------------------------
\* The stage's fields have their types. In particular the counts a stage
\* waits for never exceed its tables, which is why push and set cannot fail.
TypeOK ==
    /\ sent \in Seq(Snapshots)
    /\ stage \in Stage \cup {NoStage}
    /\ committed \in StagedSnapshots \cup {NoCommit}

\* The snapshot x agrees with s on everything the Commit checks account for.
SameBase(x, s) ==
    /\ x.revision = s.revision
    /\ x.header = s.header
    /\ x.part = s.part
    /\ x.cells = Right(s.cells)
    /\ x.scenes = Right(s.scenes)

\* Whatever the link loses, repeats, reorders or delays, a snapshot that is
\* handed out by Commit has the settings, context, extensions and exactly the
\* overlay and scene cells of the one snapshot queued under its generation:
\* never a mixture of two transactions, and never a subset of one.
CommittedBaseIntact ==
    committed # NoCommit =>
        /\ committed.generation \in DOMAIN sent
        /\ SameBase(committed, sent[committed.generation])

\* A stage never holds something of another transaction: what is staged
\* under generation g is part of the snapshot queued as g. This is what
\* makes CommittedBaseIntact inductive.
StagedFromOneTransfer ==
    stage # NoStage =>
        /\ stage.generation \in DOMAIN sent
        /\ LET s == sent[stage.generation] IN
             /\ stage.revision = s.revision
             /\ stage.header = s.header
             /\ stage.expected_cells = CellCount(s)
             /\ stage.expected_scenes = SceneCount(s)
             /\ stage.cells \subseteq Right(s.cells)
             /\ stage.scenes \subseteq Right(s.scenes)
             /\ \A p \in stage.received : stage.part[p] = s.part[p]

=============================================================================
