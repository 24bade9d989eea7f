------------------------- MODULE SnapshotLinkProofs -------------------------
(***************************************************************************)
(* For every table size and every set of snapshots: whatever the link      *)
(* does, the stage hands out the base of one queued snapshot or nothing;   *)
(* the real queue is one of these links; and over the real queue a gate    *)
(* stays with its conditional cell. For every message: its bytes are read  *)
(* back as it was sent, and no bytes are read as one nobody could use.     *)
(***************************************************************************)
EXTENDS SnapshotLink, SequenceFacts, FiniteSetTheorems, TLAPS

HIDE WireConstants
HIDE LinkConstants

\* The inductive invariant.
IInv == TypeOK /\ StagedFromOneTransfer /\ CommittedBaseIntact

\* What an engine can export.
Replicas == {s \in Snapshot : IsFiniteSet(s.cells) /\ IsFiniteSet(s.scenes)}

LEMMA SnapshotsAreReplicas == Snapshots \subseteq Replicas
BY StageConstants DEF Replicas

\* The right-half projections of a queued snapshot are finite tables, and
\* their counts are the natural numbers the packets carry.
LEMMA RightFinite ==
    ASSUME NEW s \in Replicas
    PROVE  /\ Right(s.cells) \in SUBSET Cell /\ IsFiniteSet(Right(s.cells))
           /\ Right(s.scenes) \in SUBSET SceneCell /\ IsFiniteSet(Right(s.scenes))
           /\ CellCount(s) \in Nat /\ SceneCount(s) \in Nat
  <1>1. /\ s \in Snapshot
        /\ IsFiniteSet(s.cells) /\ IsFiniteSet(s.scenes)
    BY DEF Replicas
  <1>2. /\ Right(s.cells) \in SUBSET s.cells
        /\ Right(s.scenes) \in SUBSET s.scenes
    BY DEF Right
  <1>3. /\ s.cells \in SUBSET Cell
        /\ s.scenes \in SUBSET SceneCell
    BY <1>1 DEF Snapshot
  <1>4. IsFiniteSet(Right(s.cells)) /\ IsFiniteSet(Right(s.scenes))
    BY <1>1, <1>2, FS_Subset
  <1> QED
    BY <1>2, <1>3, <1>4, FS_CardinalityType DEF CellCount, SceneCount

\* The right-half projection of the conditional table holds its entries of the
\* right half.
LEMMA RightEntries ==
    ASSUME NEW s \in Replicas
    PROVE  /\ RightSeq(s.cond) \in Seq(CondCell) /\ CondCount(s) \in Nat
           /\ \A i \in 1 .. CondCount(s) :
                \E j \in DOMAIN s.cond : /\ s.cond[j].slot >= LEDS_PER_HALF
                                        /\ RightSeq(s.cond)[i] = s.cond[j]
  <1> DEFINE parts == [i \in DOMAIN s.cond |->
                         IF s.cond[i].slot >= LEDS_PER_HALF THEN <<s.cond[i]>> ELSE <<>>]
  <1>1. s.cond \in Seq(CondCell)
    BY DEF Replicas, Snapshot
  <1>2. ASSUME NEW i \in DOMAIN s.cond PROVE parts[i] \in Seq(CondCell)
    <2>1. s.cond[i] \in CondCell
      BY <1>1
    <2> QED
      BY <2>1
  <1>3. /\ DOMAIN parts = 1 .. Len(s.cond) /\ Len(s.cond) \in Nat
        /\ DOMAIN s.cond = 1 .. Len(s.cond)
    BY <1>1
  <1>4. RightSeq(s.cond) = FlattenSeq(parts)
    BY DEF RightSeq
  <1>5. \A k \in DOMAIN parts : \A j \in 1 .. Len(parts[k]) :
            s.cond[k].slot >= LEDS_PER_HALF /\ parts[k][j] = s.cond[k]
    BY <1>3
  <1>6. parts = [k \in DOMAIN parts |-> parts[k]]
    BY <1>3
  <1> HIDE DEF parts
  <1>7. parts \in Seq(Seq(CondCell)) /\ Len(parts) = Len(s.cond)
    BY <1>2, <1>3, <1>6
  <1>8. /\ FlattenSeq(parts) \in Seq(CondCell)
        /\ \A i \in 1 .. Len(FlattenSeq(parts)) :
             \E k \in 1 .. Len(parts) : \E j \in 1 .. Len(parts[k]) :
                FlattenSeq(parts)[i] = parts[k][j]
    BY <1>7, FlattenElements
  <1>9. CondCount(s) = Len(FlattenSeq(parts)) /\ CondCount(s) \in Nat
    BY <1>4, <1>8 DEF CondCount
  <1>10. ASSUME NEW i \in 1 .. CondCount(s)
         PROVE  \E j \in DOMAIN s.cond : /\ s.cond[j].slot >= LEDS_PER_HALF
                                         /\ RightSeq(s.cond)[i] = s.cond[j]
    <2>1. PICK k \in 1 .. Len(parts) :
               \E j \in 1 .. Len(parts[k]) : FlattenSeq(parts)[i] = parts[k][j]
      BY <1>8, <1>9
    <2> QED
      BY <1>3, <1>4, <1>5, <1>7, <2>1
  <1> QED
    BY <1>4, <1>8, <1>9, <1>10

\* A set of cells taken from the queued table that has as many members as
\* the table is the table: the count check of Commit excludes a subset.
LEMMA CountIsComplete ==
    ASSUME NEW S, IsFiniteSet(S), NEW T \in SUBSET S,
           Cardinality(T) = Cardinality(S)
    PROVE  T = S
  BY FS_Subset

\* Every packet has the transaction's identity, and what it carries is what
\* the queued snapshot holds.
LEMMA PacketFromSnapshot ==
    ASSUME NEW g \in Nat, NEW s \in Replicas, NEW m \in PacketsOf(g, s)
    PROVE  /\ m.generation = g
           /\ m.revision = s.revision
           /\ m.type = "Begin" => /\ m.header = s.header
                                  /\ m.cell_count = CellCount(s)
                                  /\ m.scene_count = SceneCount(s)
           /\ m.type \in Parts => m.value = s.part[m.type]
           /\ m.type = "Cell" => m.cell \in Right(s.cells)
           /\ m.type = "SceneCell" => m.cell \in Right(s.scenes)
           /\ m.type = "ConditionalSceneBegin" => m.cell_count = CondCount(s)
           /\ m.type = "ConditionalSceneCell" => m.cell \in CondCell
           /\ m.type = "ConditionalSceneExt" => m.gate \in Values
           /\ m.type = "Commit" => /\ m.cell_count = CellCount(s)
                                   /\ m.scene_count = SceneCount(s)
           /\ m.type \in {"Begin", "Cell", "SceneCell", "ConditionalSceneBegin",
                          "ConditionalSceneCell", "ConditionalSceneExt",
                          "Commit"} \cup Parts
  <1>0. s \in Snapshot /\ Default \in Values
    BY StageConstants DEF Replicas
  <1>1. \A i \in DOMAIN s.cond : s.cond[i] \in CondCell
    BY <1>0 DEF Snapshot
  <1>2. CASE m \in {BeginPacket(g, s), CondBeginPacket(g, s), CommitPacket(g, s)}
    BY <1>2 DEF BeginPacket, CondBeginPacket, CommitPacket, Parts
  <1>part. CASE m \in {PartPacket(g, s, p) : p \in Parts}
    BY <1>part DEF PartPacket, Parts
  <1>3. CASE m \in {CellPacket(g, s, c) : c \in Right(s.cells)}
    BY <1>3 DEF CellPacket, Parts
  <1>4. CASE m \in {ScenePacket(g, s, c) : c \in Right(s.scenes)}
    BY <1>4 DEF ScenePacket, Parts
  <1>5. ASSUME NEW i \in DOMAIN s.cond, m = CondCellPacket(g, s, s.cond[i])
        PROVE  /\ m.type = "ConditionalSceneCell"
               /\ m.generation = g /\ m.revision = s.revision
               /\ m.cell \in CondCell
    BY <1>0, <1>1, <1>5 DEF CondCellPacket, CondCell
  <1>6. ASSUME NEW i \in DOMAIN s.cond, m = CondExtPacket(g, s, s.cond[i])
        PROVE  /\ m.type = "ConditionalSceneExt"
               /\ m.generation = g /\ m.revision = s.revision
               /\ m.gate \in Values
    BY <1>0, <1>1, <1>6 DEF CondExtPacket, CondCell
  <1> QED
    BY <1>2, <1>3, <1>4, <1>5, <1>6, <1>part DEF PacketsOf, Parts

-----------------------------------------------------------------------------
\* The stage starts empty: nothing is staged and nothing was handed out.
LEMMA InitEstablishes == Init => IInv
  <1> SUFFICES ASSUME Init PROVE IInv
    OBVIOUS
  <1>1. sent \in Seq(Snapshots) /\ stage = NoStage /\ committed = NoCommit
    BY DEF Init
  <1> QED
    BY <1>1 DEF IInv, TypeOK, StagedFromOneTransfer, CommittedBaseIntact

\* Offering a snapshot gives the next generation a meaning and leaves the
\* meaning of every earlier one alone.
LEMMA OfferPreserves ==
    ASSUME IInv, NEW s \in Snapshots, OfferSnapshot(s)
    PROVE  IInv'
  <1>1. /\ sent \in Seq(Snapshots) /\ sent' = Append(sent, s)
        /\ stage' = stage /\ committed' = committed
    BY DEF IInv, TypeOK, OfferSnapshot
  <1>2. /\ sent' \in Seq(Snapshots)
        /\ \A g \in DOMAIN sent : g \in DOMAIN sent' /\ sent'[g] = sent[g]
    BY <1>1
  <1>3. TypeOK'
    BY <1>1, <1>2 DEF IInv, TypeOK
  <1>4. StagedFromOneTransfer'
    BY <1>1, <1>2 DEF IInv, StagedFromOneTransfer
  <1>5. CommittedBaseIntact'
    BY <1>1, <1>2 DEF IInv, CommittedBaseIntact
  <1> QED
    BY <1>3, <1>4, <1>5 DEF IInv

\* An open stage is described by the snapshot its packets came from.
StagePartOf(st, s) ==
    /\ st \in Stage
    /\ st.revision = s.revision
    /\ st.header = s.header
    /\ st.expected_cells = CellCount(s)
    /\ st.expected_scenes = SceneCount(s)
    /\ st.cells \subseteq Right(s.cells)
    /\ st.scenes \subseteq Right(s.scenes)
    /\ \A p \in st.received : st.part[p] = s.part[p]

\* A Begin opens a stage of its own transaction, whatever was open before.
LEMMA BeginOpens ==
    ASSUME NEW g \in Nat, NEW s \in Replicas, NEW m \in PacketsOf(g, s),
           m.type = "Begin", NEW st,
           StageBegin(st, m) # st
    PROVE  /\ StageBegin(st, m).generation = g
           /\ StagePartOf(StageBegin(st, m), s)
  <1>1. /\ m.generation = g /\ m.revision = s.revision /\ m.header = s.header
        /\ m.cell_count = CellCount(s) /\ m.scene_count = SceneCount(s)
    BY PacketFromSnapshot
  <1>2. /\ s.revision \in Nat /\ s.header \in Values /\ Default \in Values
        /\ CellCount(s) \in Nat /\ SceneCount(s) \in Nat
        /\ LEDS_PER_HALF \in Nat /\ SCENE_CAPACITY \in Nat
    BY StageConstants, RightFinite DEF Replicas, Snapshot
  <1> QED
    BY <1>1, <1>2 DEF StageBegin, OpenStage, StagePartOf, Stage, Parts

\* The conditional-scene table is no part of the base: a stage that differs
\* from st in it only is a stage of the same transaction.
KeepsBase(new, st) ==
    /\ new.generation = st.generation /\ new.revision = st.revision
    /\ new.header = st.header /\ new.part = st.part
    /\ new.received = st.received
    /\ new.cells = st.cells /\ new.scenes = st.scenes
    /\ new.expected_cells = st.expected_cells
    /\ new.expected_scenes = st.expected_scenes

\* Any other packet that belongs to the stage's transaction leaves a stage of
\* that transaction, or none.
LEMMA PacketExtends ==
    ASSUME NEW g \in Nat, NEW s \in Replicas, NEW m \in PacketsOf(g, s),
           m.type # "Begin", NEW st, StagePartOf(st, s), st.generation = g,
           ApplyPacket(st, m) # NoStage
    PROVE  /\ ApplyPacket(st, m).generation = g
           /\ StagePartOf(ApplyPacket(st, m), s)
  <1> DEFINE new == ApplyPacket(st, m)
  <1>0. /\ s \in Snapshot
        /\ Right(s.cells) \in SUBSET Cell /\ Right(s.scenes) \in SUBSET SceneCell
        /\ CondCount(s) \in Nat
    BY RightFinite, RightEntries DEF Replicas
  <1>st. st \in Stage
    BY DEF StagePartOf
  <1>1. CASE m.type \in Parts
    <2>1. new = StagePart(st, m) /\ Matches(st, m)
      BY <1>1 DEF ApplyPacket, StagePart, Parts
    <2>0. m.value = s.part[m.type]
      BY <1>1, PacketFromSnapshot
    <2> HIDE DEF new
    <2>2. new = [st EXCEPT !.part[m.type] = s.part[m.type],
                           !.received = @ \cup {m.type}]
      BY <2>0, <2>1 DEF StagePart
    <2>3. s.part \in [Parts -> Values]
      BY <1>0 DEF Snapshot
    <2>4. new \in Stage
      BY <1>1, <1>st, <2>2, <2>3 DEF Stage
    <2>5. /\ new.generation = st.generation /\ new.revision = st.revision
          /\ new.header = st.header
          /\ new.part = [st.part EXCEPT ![m.type] = s.part[m.type]]
          /\ new.received = st.received \cup {m.type}
          /\ new.cells = st.cells /\ new.scenes = st.scenes
          /\ new.expected_cells = st.expected_cells
          /\ new.expected_scenes = st.expected_scenes
      BY <1>st, <2>2 DEF Stage
    <2>6. \A p \in new.received : new.part[p] = s.part[p]
      BY <1>1, <1>st, <2>5 DEF StagePartOf, Stage
    <2> QED
      BY <2>4, <2>5, <2>6 DEF StagePartOf, new
  <1>2. CASE m.type = "Cell"
    <2>1. new = StageCell(st, m) /\ m.cell \in Right(s.cells)
      BY <1>2, PacketFromSnapshot DEF ApplyPacket, Parts
    <2>2. new = [st EXCEPT !.cells = @ \cup {m.cell}]
      BY <2>1 DEF StageCell
    <2> HIDE DEF new
    <2>3. new \in Stage
      BY <1>0, <1>st, <2>1, <2>2 DEF Stage
    <2>4. /\ new.generation = st.generation /\ new.revision = st.revision
          /\ new.header = st.header /\ new.part = st.part
          /\ new.received = st.received
          /\ new.cells = st.cells \cup {m.cell} /\ new.scenes = st.scenes
          /\ new.expected_cells = st.expected_cells
          /\ new.expected_scenes = st.expected_scenes
      BY <1>st, <2>2 DEF Stage
    <2> QED
      BY <2>1, <2>3, <2>4 DEF StagePartOf, new
  <1>3. CASE m.type = "SceneCell"
    <2>1. new = StageScene(st, m) /\ m.cell \in Right(s.scenes)
      BY <1>3, PacketFromSnapshot DEF ApplyPacket, Parts
    <2>2. new = [st EXCEPT !.scenes = @ \cup {m.cell}]
      BY <2>1 DEF StageScene
    <2> HIDE DEF new
    <2>3. new \in Stage
      BY <1>0, <1>st, <2>1, <2>2 DEF Stage
    <2>4. /\ new.generation = st.generation /\ new.revision = st.revision
          /\ new.header = st.header /\ new.part = st.part
          /\ new.received = st.received
          /\ new.cells = st.cells /\ new.scenes = st.scenes \cup {m.cell}
          /\ new.expected_cells = st.expected_cells
          /\ new.expected_scenes = st.expected_scenes
      BY <1>st, <2>2 DEF Stage
    <2> QED
      BY <2>1, <2>3, <2>4 DEF StagePartOf, new
  <1>4. CASE m.type = "ConditionalSceneBegin"
    <2>1. new = StageCondBegin(st, m) /\ m.cell_count \in Nat
      BY <1>0, <1>4, PacketFromSnapshot DEF ApplyPacket, Parts
    <2>2. /\ m.cell_count <= SCENE_CAPACITY
          /\ new = [st EXCEPT !.expected_cond = m.cell_count, !.cond = <<>>]
      BY <2>1 DEF StageCondBegin
    <2> HIDE DEF new
    <2>typed. m.cell_count \in -1 .. SCENE_CAPACITY /\ <<>> \in Seq(CondCell)
      BY <2>1, <2>2, StageConstants
    <2>3. new \in Stage
      BY <1>st, <2>typed, <2>2 DEF Stage
    <2>4. KeepsBase(new, st)
      BY <1>st, <2>2 DEF Stage, KeepsBase
    <2> QED
      BY <2>3, <2>4 DEF StagePartOf, KeepsBase, new
  <1>5. CASE m.type = "ConditionalSceneCell"
    <2>1. new = StageCondCell(st, m) /\ m.cell \in CondCell
      BY <1>5, PacketFromSnapshot DEF ApplyPacket, Parts
    <2>2. new = [st EXCEPT !.cond = Append(@, m.cell)]
      BY <2>1 DEF StageCondCell
    <2> HIDE DEF new
    <2> DEFINE longer == Append(st.cond, m.cell)
    <2>typed. longer \in Seq(CondCell) /\ new = [st EXCEPT !.cond = longer]
      BY <1>st, <2>1, <2>2 DEF Stage
    <2> HIDE DEF longer
    <2>3. new \in Stage
      BY <1>st, <2>typed DEF Stage
    <2>4. KeepsBase(new, st)
      BY <1>st, <2>2 DEF Stage, KeepsBase
    <2> QED
      BY <2>3, <2>4 DEF StagePartOf, KeepsBase, new
  <1>6. CASE m.type = "ConditionalSceneExt"
    <2>1. new = StageCondExt(st, m) /\ m.gate \in Values
      BY <1>6, PacketFromSnapshot DEF ApplyPacket, Parts
    <2>2. /\ st.cond # <<>>
          /\ new = [st EXCEPT !.cond[Len(st.cond)].gate = m.gate]
      BY <2>1 DEF StageCondExt
    <2>3. st.cond \in Seq(CondCell) /\ Len(st.cond) \in 1 .. Len(st.cond)
      BY <1>st, <2>2 DEF Stage
    <2> DEFINE last == st.cond[Len(st.cond)]
               amended == [st.cond EXCEPT ![Len(st.cond)] =
                              [last EXCEPT !.gate = m.gate]]
    <2>4. last \in CondCell
      BY <2>3
    <2>5. [last EXCEPT !.gate = m.gate] \in CondCell
      BY <2>1, <2>4 DEF CondCell
    <2>6. amended \in Seq(CondCell)
      BY <2>3, <2>5
    <2>7. new = [st EXCEPT !.cond = amended]
      BY <2>2
    <2> HIDE DEF new, amended
    <2>8. new \in Stage
      BY <1>st, <2>6, <2>7 DEF Stage
    <2>9. KeepsBase(new, st)
      BY <1>st, <2>7 DEF Stage, KeepsBase
    <2> QED
      BY <2>8, <2>9 DEF StagePartOf, KeepsBase, new
  <1>7. m.type # "Commit"
    BY DEF ApplyPacket, Parts
  <1> QED
    BY <1>1, <1>2, <1>3, <1>4, <1>5, <1>6, <1>7, PacketFromSnapshot

\* A stage of another transaction does not survive a packet that is not a
\* Begin.
LEMMA ForeignPacketAborts ==
    ASSUME NEW g \in Nat, NEW s \in Replicas, NEW m \in PacketsOf(g, s),
           m.type # "Begin", NEW st, ~ Matches(st, m)
    PROVE  ApplyPacket(st, m) = NoStage /\ ~ CommitValid(st, m)
  BY PacketFromSnapshot
     DEF ApplyPacket, StagePart, StageCell, StageScene, StageCondBegin,
         StageCondCell, StageCondExt, CommitValid, Parts

\* A packet of a queued transaction leaves no stage, or one of a transaction
\* that was queued.
LEMMA PacketKeepsPart ==
    ASSUME NEW queued \in Seq(Replicas), NEW g \in DOMAIN queued,
           NEW m \in PacketsOf(g, queued[g]), NEW st,
           st # NoStage => /\ st.generation \in DOMAIN queued
                           /\ StagePartOf(st, queued[st.generation]),
           ApplyPacket(st, m) # NoStage
    PROVE  /\ ApplyPacket(st, m).generation \in DOMAIN queued
           /\ StagePartOf(ApplyPacket(st, m), queued[ApplyPacket(st, m).generation])
  <1> DEFINE new == ApplyPacket(st, m)
  <1>0. g \in Nat /\ queued[g] \in Replicas
    OBVIOUS
  <1>1. m.generation = g /\ m.revision = queued[g].revision
    BY <1>0, PacketFromSnapshot
  <1>2. CASE m.type = "Begin"
    <2>1. new = StageBegin(st, m)
      BY <1>2 DEF ApplyPacket, Parts
    <2>2. CASE new = st
      BY <2>2
    <2>3. CASE new # st
      BY <1>0, <1>2, <2>1, <2>3, BeginOpens
    <2> QED
      BY <2>2, <2>3
  <1>3. CASE m.type # "Begin"
    <2>1. Matches(st, m)
      BY <1>0, <1>3, ForeignPacketAborts
    <2>2. st # NoStage /\ st.generation = g
      BY <1>1, <2>1 DEF Matches
    <2> QED
      BY <1>0, <1>3, <2>2, PacketExtends
  <1> QED
    BY <1>2, <1>3

\* One packet of a queued transaction keeps the invariant: it opens, extends
\* or closes a stage of its own transaction, and a Commit that is accepted has
\* counted every cell.
LEMMA ReceivePreserves ==
    ASSUME IInv, NEW g \in DOMAIN sent, NEW m \in PacketsOf(g, sent[g]),
           Receive(m)
    PROVE  IInv'
  <1> DEFINE s == sent[g]
  <1>1. /\ sent \in Seq(Snapshots) /\ s \in Snapshots /\ s \in Replicas /\ g \in Nat
        /\ sent' = sent
        /\ stage' = ApplyPacket(stage, m)
    BY SnapshotsAreReplicas DEF IInv, TypeOK, Receive
  <1>2. /\ m.generation = g /\ m.revision = s.revision
    BY <1>1, PacketFromSnapshot
  <1>3. stage # NoStage =>
          /\ stage.generation \in DOMAIN sent
          /\ StagePartOf(stage, sent[stage.generation])
    BY DEF IInv, TypeOK, StagedFromOneTransfer, StagePartOf
  <1>4. stage' # NoStage =>
          /\ stage'.generation \in DOMAIN sent
          /\ StagePartOf(stage', sent[stage'.generation])
    <2>1. sent \in Seq(Replicas)
      BY <1>1, SnapshotsAreReplicas
    <2> QED
      BY <1>1, <1>3, <2>1, PacketKeepsPart
  <1>5. StagedFromOneTransfer' /\ stage' \in Stage \cup {NoStage}
    BY <1>1, <1>4 DEF StagedFromOneTransfer, StagePartOf
  <1>6. CASE CommitValid(stage, m)
    <2>1. /\ committed' = StagedSnapshot(stage)
          /\ Matches(stage, m) /\ m.type = "Commit"
      BY <1>6 DEF Receive, CommitValid
    <2>2. /\ stage # NoStage /\ stage.generation = g /\ stage \in Stage
          /\ StagePartOf(stage, s)
      BY <1>2, <1>3, <2>1 DEF Matches, StagePartOf
    <2>3. stage.cells = Right(s.cells)
      <3>1. Cardinality(stage.cells) = Cardinality(Right(s.cells))
        BY <1>6, <2>2 DEF CommitValid, TablesComplete, StagePartOf, CellCount
      <3> QED
        BY <1>1, <2>2, <3>1, RightFinite, CountIsComplete DEF StagePartOf
    <2>4. stage.scenes = Right(s.scenes)
      <3>1. Cardinality(stage.scenes) = Cardinality(Right(s.scenes))
        BY <1>6, <2>2 DEF CommitValid, TablesComplete, StagePartOf, SceneCount
      <3> QED
        BY <1>1, <2>2, <3>1, RightFinite, CountIsComplete DEF StagePartOf
    <2>5. stage.part = s.part
      <3>1. stage.received = Parts
        BY <1>6 DEF CommitValid
      <3>2. s.part \in [Parts -> Values] /\ stage.part \in [Parts -> Values]
        BY <1>1, <2>2, StageConstants DEF Snapshot, Stage
      <3> QED
        BY <2>2, <3>1, <3>2 DEF StagePartOf
    <2>6. committed' \in StagedSnapshots
      BY <2>1, <2>2 DEF StagedSnapshot, StagedSnapshots, Stage
    <2>7. committed'.generation = g /\ SameBase(committed', s)
      BY <2>1, <2>2, <2>3, <2>4, <2>5 DEF StagedSnapshot, SameBase, StagePartOf
    <2> QED
      BY <1>1, <1>5, <2>6, <2>7 DEF IInv, TypeOK, CommittedBaseIntact
  <1>7. CASE ~ CommitValid(stage, m)
    <2>1. committed' = committed
      BY <1>7 DEF Receive
    <2> QED
      BY <1>1, <1>5, <2>1 DEF IInv, TypeOK, CommittedBaseIntact
  <1> QED
    BY <1>6, <1>7

\* A link edge only throws the stage away.
LEMMA ResetPreserves == ASSUME IInv, Reset PROVE IInv'
  BY DEF IInv, Reset, TypeOK, StagedFromOneTransfer, CommittedBaseIntact

\* Nothing happens between two steps.
LEMMA StutterPreserves == ASSUME IInv, UNCHANGED vars PROVE IInv'
  BY DEF IInv, vars, TypeOK, StagedFromOneTransfer, CommittedBaseIntact

\* SnapshotStage::apply keeps its stage well-formed and never mixes two
\* transactions in it.
THEOREM StageInvariant == Spec => []IInv
  <1>1. IInv /\ [Next]_vars => IInv'
    <2> SUFFICES ASSUME IInv, [Next]_vars PROVE IInv'
      OBVIOUS
    <2>1. ASSUME NEW s \in Snapshots, OfferSnapshot(s) PROVE IInv'
      BY <2>1, OfferPreserves
    <2>2. ASSUME NEW g \in DOMAIN sent, NEW m \in PacketsOf(g, sent[g]), Receive(m)
          PROVE  IInv'
      BY <2>2, ReceivePreserves
    <2>3. CASE Reset
      BY <2>3, ResetPreserves
    <2>4. CASE UNCHANGED vars
      BY <2>4, StutterPreserves
    <2> QED
      BY <2>1, <2>2, <2>3, <2>4 DEF Next
  <1> QED
    BY <1>1, InitEstablishes, PTL DEF Spec

\* Type correctness of the staged and of the committed snapshot.
THEOREM StageTypeCorrect == Spec => []TypeOK
  <1>1. IInv => TypeOK
    BY DEF IInv
  <1> QED
    BY <1>1, StageInvariant, PTL

\* A committed snapshot is, on everything Commit accounts for, the snapshot
\* queued under its generation, whatever happened to the packets.
THEOREM CommitIsFaithful == Spec => []CommittedBaseIntact
  <1>1. IInv => CommittedBaseIntact
    BY DEF IInv
  <1> QED
    BY <1>1, StageInvariant, PTL

\* What is staged is of the transaction whose generation it carries, also
\* after packets of others: SnapshotStage::apply restarts or refuses them.
THEOREM StageIsOfOneTransfer == Spec => []StagedFromOneTransfer
  <1>1. IInv => StagedFromOneTransfer
    BY DEF IInv
  <1> QED
    BY <1>1, StageInvariant, PTL

-----------------------------------------------------------------------------
(* SnapshotWire: the conditional cells and their gates.                    *)

IsCond(m) == m.type \in {"ConditionalSceneCell", "ConditionalSceneExt"}

\* Packet m carries entry c of the conditional table of s.
OfEntry(m, s, c) ==
    /\ m.type = "ConditionalSceneCell" =>
         /\ c \in 1 .. CondCount(s)
         /\ m.cell = [RightSeq(s.cond)[c] EXCEPT !.gate = Default]
    /\ m.type = "ConditionalSceneExt" =>
         c \in 1 .. CondCount(s) /\ m.gate = RightSeq(s.cond)[c].gate

\* Packet m, which carries entry c, comes behind entry h: a cell behind the
\* gate too, a gate at least behind its cell.
Behind(m, c, h) ==
    /\ m.type = "ConditionalSceneCell" => h < c
    /\ m.type = "ConditionalSceneExt" => h <= c

\* The staged entry x is the entry c, perhaps without its gate.
IsEntry(x, c) == x.slot = c.slot /\ x.effect = c.effect /\ x.gate \in {c.gate, Default}

\* The conditional table of stage st when entry h of s was the last to arrive.
\* While none was lost, the entries are those of s; afterwards the stage is too
\* short for its Commit, and what its gates are does not matter.
CondUpTo(st, s, h) ==
    /\ h \in 0 .. CondCount(s) /\ Len(st.cond) <= h
    /\ st.expected_cond \in {-1, CondCount(s)}
    /\ st.expected_cond = -1 => st.cond = <<>>
    /\ Len(st.cond) = h => \A i \in 1 .. h : IsEntry(st.cond[i], RightSeq(s.cond)[i])

\* A Begin opens a stage without conditional entries.
LEMMA BeginHasNoEntries ==
    ASSUME NEW s \in Replicas, NEW m
    PROVE  CondUpTo(OpenStage(m), s, 0)
  BY RightEntries DEF CondUpTo, OpenStage

\* The packets that carry neither a cell nor a gate leave the entries alone, but
\* the one that announces them clears them.
LEMMA OthersKeepEntries ==
    ASSUME NEW g \in Nat, NEW s \in Replicas, NEW m \in PacketsOf(g, s),
           m.type # "Begin", ~ IsCond(m), NEW st, StagePartOf(st, s),
           NEW h, CondUpTo(st, s, h), ApplyPacket(st, m) # NoStage
    PROVE  CondUpTo(ApplyPacket(st, m), s, h)
  <1> DEFINE new == ApplyPacket(st, m)
  <1>1. st \in Stage /\ CondCount(s) \in Nat
    BY RightEntries DEF StagePartOf
  <1>2. CASE m.type \in Parts \cup {"Cell", "SceneCell"}
    <2>1. new.cond = st.cond /\ new.expected_cond = st.expected_cond
      <3>1. CASE m.type \in Parts
        BY <1>1, <3>1 DEF ApplyPacket, StagePart, Stage, Parts
      <3>2. CASE m.type = "Cell"
        BY <1>1, <3>2 DEF ApplyPacket, StageCell, Stage, Parts
      <3>3. CASE m.type = "SceneCell"
        BY <1>1, <3>3 DEF ApplyPacket, StageScene, Stage, Parts
      <3> QED
        BY <1>2, <3>1, <3>2, <3>3
    <2> HIDE DEF new
    <2>2. CondUpTo(new, s, h)
      BY <2>1 DEF CondUpTo
    <2> QED
      BY <2>2 DEF new
  <1>3. CASE m.type = "ConditionalSceneBegin"
    <2>1. m.cell_count = CondCount(s)
      BY <1>3, PacketFromSnapshot
    <2>2. new.cond = <<>> /\ new.expected_cond = CondCount(s)
      BY <1>1, <1>3, <2>1 DEF ApplyPacket, StageCondBegin, Stage, Parts
    <2> HIDE DEF new
    <2>3. CondUpTo(new, s, h)
      BY <1>1, <2>2 DEF CondUpTo
    <2> QED
      BY <2>3 DEF new
  <1>4. m.type # "Commit"
    BY DEF ApplyPacket, Parts
  <1> QED
    BY <1>2, <1>3, <1>4, PacketFromSnapshot DEF IsCond

\* A cell that arrives is the next entry, unless one was lost.
LEMMA CellAddsEntry ==
    ASSUME NEW s \in Replicas, NEW m, m.type = "ConditionalSceneCell",
           NEW st, StagePartOf(st, s), NEW h, CondUpTo(st, s, h),
           NEW c \in Nat, OfEntry(m, s, c), Behind(m, c, h), StageCondCell(st, m) # NoStage
    PROVE  CondUpTo(StageCondCell(st, m), s, c)
  <1> DEFINE new == StageCondCell(st, m)
             n == Len(st.cond)
             table == RightSeq(s.cond)
  <1>1. /\ st \in Stage /\ CondCount(s) \in Nat /\ table \in Seq(CondCell)
        /\ Len(table) = CondCount(s)
    BY RightEntries DEF StagePartOf, CondCount
  <1>2. /\ c \in 1 .. CondCount(s) /\ h < c /\ h \in Nat
        /\ m.cell = [table[c] EXCEPT !.gate = Default]
    BY <1>1 DEF OfEntry, Behind, CondUpTo
  <1>3. table[c] \in CondCell
    BY <1>1, <1>2
  <1>4. IsEntry(m.cell, table[c])
    BY <1>2, <1>3 DEF IsEntry, CondCell
  <1>5. st.cond \in Seq(CondCell) /\ n \in Nat /\ n <= h
    BY <1>1 DEF Stage, CondUpTo
  <1>6. new.cond = Append(st.cond, m.cell) /\ new.expected_cond = st.expected_cond
        /\ n < st.expected_cond
    BY <1>1 DEF StageCondCell, Stage
  <1>7. /\ Len(new.cond) = n + 1 /\ new.cond[n + 1] = m.cell
        /\ \A i \in 1 .. n : new.cond[i] = st.cond[i]
    BY <1>5, <1>6
  <1>8. st.expected_cond = CondCount(s)
    BY <1>5, <1>6 DEF CondUpTo
  <1> HIDE DEF new, n, table
  <1>9. ASSUME n + 1 = c, NEW i \in 1 .. c PROVE IsEntry(new.cond[i], table[i])
    <2>1. n = h
      BY <1>2, <1>5, <1>9
    <2>2. CASE i = c
      BY <1>4, <1>7, <1>9, <2>2
    <2>3. CASE i # c
      <3>1. i \in 1 .. h /\ i \in 1 .. n
        BY <1>2, <1>9, <2>1, <2>3
      <3>2. IsEntry(st.cond[i], table[i])
        BY <2>1, <3>1 DEF CondUpTo, n, table
      <3> QED
        BY <1>7, <3>1, <3>2
    <2> QED
      BY <2>2, <2>3
  <1>10. CondUpTo(new, s, c)
    <2>1. c \in 0 .. CondCount(s) /\ Len(new.cond) <= c
      BY <1>1, <1>2, <1>5, <1>7
    <2>2. new.expected_cond = CondCount(s) /\ CondCount(s) # -1
      BY <1>1, <1>6, <1>8
    <2>3. Len(new.cond) = c => n + 1 = c
      BY <1>7
    <2> QED
      BY <1>9, <2>1, <2>2, <2>3 DEF CondUpTo, table
  <1> QED
    BY <1>10 DEF new

\* A gate that arrives amends its own entry, unless one was lost.
LEMMA GateAmendsEntry ==
    ASSUME NEW s \in Replicas, NEW m, m.type = "ConditionalSceneExt",
           NEW st, StagePartOf(st, s), NEW h, CondUpTo(st, s, h),
           NEW c \in Nat, OfEntry(m, s, c), Behind(m, c, h), StageCondExt(st, m) # NoStage
    PROVE  CondUpTo(StageCondExt(st, m), s, c)
  <1> DEFINE new == StageCondExt(st, m)
             n == Len(st.cond)
             table == RightSeq(s.cond)
  <1>1. /\ st \in Stage /\ CondCount(s) \in Nat /\ table \in Seq(CondCell)
        /\ Len(table) = CondCount(s)
    BY RightEntries DEF StagePartOf, CondCount
  <1>2. c \in 1 .. CondCount(s) /\ h <= c /\ h \in Nat /\ m.gate = table[c].gate
    BY <1>1 DEF OfEntry, Behind, CondUpTo
  <1>5. st.cond \in Seq(CondCell) /\ n \in Nat /\ n <= h
    BY <1>1 DEF Stage, CondUpTo
  <1>6. /\ st.cond # <<>> /\ new.expected_cond = st.expected_cond
        /\ new.cond = [st.cond EXCEPT ![n] = [st.cond[n] EXCEPT !.gate = m.gate]]
    BY <1>1 DEF StageCondExt, Stage
  <1>7. n \in 1 .. n /\ st.cond[n] \in CondCell
    BY <1>5, <1>6
  <1>8. /\ Len(new.cond) = n /\ new.cond # <<>>
        /\ new.cond[n] = [st.cond[n] EXCEPT !.gate = m.gate]
        /\ \A i \in 1 .. n : i # n => new.cond[i] = st.cond[i]
    BY <1>5, <1>6, <1>7
  <1>9. /\ new.cond[n].slot = st.cond[n].slot /\ new.cond[n].effect = st.cond[n].effect
        /\ new.cond[n].gate = m.gate
    BY <1>7, <1>8 DEF CondCell
  <1> HIDE DEF new, n, table
  <1>10. ASSUME n = c, NEW i \in 1 .. c PROVE IsEntry(new.cond[i], table[i])
    <2>1. n = h
      BY <1>2, <1>5, <1>10
    <2>2. IsEntry(st.cond[i], table[i])
      BY <1>10, <2>1 DEF CondUpTo, n, table
    <2>3. CASE i = n
      BY <1>2, <1>9, <1>10, <2>2, <2>3 DEF IsEntry
    <2>4. CASE i # n
      BY <1>8, <1>10, <2>2, <2>4
    <2> QED
      BY <2>3, <2>4
  <1>11. st.expected_cond = CondCount(s)
    BY <1>6 DEF CondUpTo
  <1>12. CondUpTo(new, s, c)
    <2>1. c \in 0 .. CondCount(s) /\ Len(new.cond) <= c
      BY <1>1, <1>2, <1>5, <1>8
    <2>2. new.expected_cond = CondCount(s) /\ CondCount(s) # -1
      BY <1>1, <1>6, <1>11
    <2> QED
      BY <1>8, <1>10, <2>1, <2>2 DEF CondUpTo, table
  <1> QED
    BY <1>12 DEF new

\* A Commit that is accepted has counted the entries, so none was lost.
LEMMA CommitCountsEntries ==
    ASSUME NEW s \in Replicas, NEW m, NEW st, StagePartOf(st, s), NEW h,
           CondUpTo(st, s, h), CommitValid(st, m), st.cond # <<>>
    PROVE  /\ Len(st.cond) = CondCount(s)
           /\ \A i \in 1 .. CondCount(s) : IsEntry(st.cond[i], RightSeq(s.cond)[i])
  <1>1. st \in Stage /\ CondCount(s) \in Nat
    BY RightEntries DEF StagePartOf
  <1>2. Len(st.cond) \in Nat
    BY <1>1 DEF Stage
  <1>3. Len(st.cond) = CondCount(s)
    BY <1>1, <1>2 DEF CommitValid, CondComplete, CondUpTo
  <1>4. h = CondCount(s)
    BY <1>1, <1>3 DEF CondUpTo
  <1> QED
    BY <1>3, <1>4 DEF CondUpTo

-----------------------------------------------------------------------------
(* SnapshotWire: the order of walk_snapshot.                               *)

\* The packets of all transactions queued so far.
Packets(queued) == UNION {PacketsOf(g, queued[g]) : g \in DOMAIN queued}

\* c gives the entry each packet of q carries; those of one transaction come in
\* the order of its table.
Labelled(q, queued, c) ==
    /\ c \in [DOMAIN q -> Nat]
    /\ \A k \in DOMAIN q : OfEntry(q[k], queued[q[k].generation], c[k])
    /\ \A j, k \in DOMAIN q :
         j < k /\ IsCond(q[j]) /\ q[j].generation = q[k].generation
            => Behind(q[k], c[k], c[j])

\* Every packet is of the transaction whose generation it carries.
LEMMA PacketOrigin ==
    ASSUME NEW queued \in Seq(Replicas), NEW m \in Packets(queued)
    PROVE  /\ m.generation \in DOMAIN queued /\ queued[m.generation] \in Replicas
           /\ m \in PacketsOf(m.generation, queued[m.generation])
  <1>1. PICK g \in DOMAIN queued : m \in PacketsOf(g, queued[g])
    BY DEF Packets
  <1>2. g \in Nat /\ queued[g] \in Replicas
    OBVIOUS
  <1>3. m.generation = g
    BY <1>1, <1>2, PacketFromSnapshot
  <1> QED
    BY <1>1, <1>2, <1>3

\* The labels of two queues, one behind the other.
Joined(a, b, c, d) ==
    [k \in DOMAIN (a \o b) |-> IF k \in DOMAIN a THEN c[k] ELSE d[k - Len(a)]]

\* Two labelled queues, one behind the other.
LEMMA JoinLabelled ==
    ASSUME NEW queued, NEW S, NEW a \in Seq(S), NEW b \in Seq(S), NEW c, NEW d,
           Labelled(a, queued, c), Labelled(b, queued, d),
           \A j \in DOMAIN a, k \in DOMAIN b :
              IsCond(a[j]) /\ a[j].generation = b[k].generation => Behind(b[k], d[k], c[j])
    PROVE  Labelled(a \o b, queued, Joined(a, b, c, d))
  <1> DEFINE q == a \o b
             n == Len(a)
             e == [k \in DOMAIN q |-> IF k \in DOMAIN a THEN c[k] ELSE d[k - n]]
  <1>1. /\ DOMAIN q = 1 .. n + Len(b) /\ n \in Nat /\ Len(b) \in Nat
        /\ DOMAIN a = 1 .. n /\ DOMAIN b = 1 .. Len(b)
        /\ \A k \in DOMAIN a : q[k] = a[k]
        /\ \A l \in DOMAIN b : q[n + l] = b[l]
        /\ \A k \in DOMAIN q : k \in DOMAIN a \/ \E l \in DOMAIN b : k = n + l
    <2>1. /\ DOMAIN a = 1 .. n /\ DOMAIN b = 1 .. Len(b)
      OBVIOUS
    <2>2. /\ DOMAIN q = 1 .. n + Len(b) /\ n \in Nat /\ Len(b) \in Nat
          /\ \A k \in 1 .. n : q[k] = a[k]
          /\ \A l \in 1 .. Len(b) : q[n + l] = b[l]
          /\ \A k \in DOMAIN q : k \in 1 .. n \/ \E l \in 1 .. Len(b) : k = n + l
      <3>1. a \in Seq(S) /\ b \in Seq(S)
        OBVIOUS
      <3> QED
        BY <3>1, ConcatPlaces
    <2> HIDE DEF q, n
    <2> QED
      BY <2>1, <2>2
  <1> HIDE DEF q, n
  <1>2. /\ \A k \in DOMAIN a : k \in DOMAIN q /\ e[k] = c[k]
        /\ \A l \in DOMAIN b : n + l \in DOMAIN q /\ e[n + l] = d[l]
    BY <1>1
  <1>3. /\ \A k \in DOMAIN a : c[k] \in Nat
        /\ \A l \in DOMAIN b : d[l] \in Nat
    BY DEF Labelled
  <1>4. e \in [DOMAIN q -> Nat]
    <2>1. \A k \in DOMAIN q : e[k] \in Nat
      BY <1>1, <1>2, <1>3
    <2> QED
      BY <2>1
  <1> HIDE DEF e
  <1>5. ASSUME NEW k \in DOMAIN q PROVE OfEntry(q[k], queued[q[k].generation], e[k])
    <2>1. CASE k \in DOMAIN a
      BY <1>1, <1>2, <2>1 DEF Labelled
    <2>2. CASE \E l \in DOMAIN b : k = n + l
      BY <1>1, <1>2, <2>2 DEF Labelled
    <2> QED
      BY <1>1, <2>1, <2>2
  <1>6. ASSUME NEW j \in DOMAIN q, NEW k \in DOMAIN q, j < k, IsCond(q[j]),
               q[j].generation = q[k].generation
        PROVE  Behind(q[k], e[k], e[j])
    <2>1. CASE k \in DOMAIN a
      <3>1. j \in DOMAIN a
        BY <1>1, <1>6, <2>1
      <3> QED
        BY <1>1, <1>2, <1>6, <2>1, <3>1 DEF Labelled
    <2>2. ASSUME NEW l \in DOMAIN b, k = n + l PROVE Behind(q[k], e[k], e[j])
      <3>1. CASE j \in DOMAIN a
        BY <1>1, <1>2, <1>6, <2>2, <3>1
      <3>2. ASSUME NEW i \in DOMAIN b, j = n + i PROVE Behind(q[k], e[k], e[j])
        <4>1. i < l
          BY <1>1, <1>6, <2>2, <3>2
        <4> QED
          BY <1>1, <1>2, <1>6, <2>2, <3>2, <4>1 DEF Labelled
      <3> QED
        BY <1>1, <3>1, <3>2
    <2> QED
      BY <1>1, <2>1, <2>2
  <1>7. Labelled(q, queued, e)
    BY <1>4, <1>5, <1>6 DEF Labelled
  <1> QED
    BY <1>7 DEF q, e, n, Joined

\* Packets without entries can be labelled anyhow.
LEMMA OthersLabelled ==
    ASSUME NEW queued, NEW S, NEW q \in Seq(S), \A k \in DOMAIN q : ~ IsCond(q[k])
    PROVE  Labelled(q, queued, [k \in DOMAIN q |-> 0])
  BY DEF Labelled, OfEntry, Behind, IsCond

\* The packets of the conditional table, cell after cell and gate behind cell.
LEMMA TableLabelled ==
    ASSUME NEW queued \in Seq(Replicas), NEW g \in DOMAIN queued
    PROVE  /\ Wire!CondPackets(g, queued[g]) \in Seq(PacketsOf(g, queued[g]))
           /\ \E c : Labelled(Wire!CondPackets(g, queued[g]), queued, c)
  <1> DEFINE s == queued[g]
             P == PacketsOf(g, s)
             n == CondCount(s)
             table == RightSeq(s.cond)
             CellAt(i) == CondCellPacket(g, s, table[i])
             GateAt(i) == CondExtPacket(g, s, table[i])
             parts == [i \in 1 .. n |-> IF table[i].gate = Default THEN <<CellAt(i)>>
                                        ELSE <<CellAt(i), GateAt(i)>>]
  <1>1. /\ g \in Nat /\ s \in Replicas /\ n \in Nat /\ table \in Seq(CondCell)
        /\ DOMAIN table = 1 .. n
    BY RightEntries DEF CondCount
  <1>2. Wire!CondPackets(g, s) = FlattenSeq(parts)
    <2>1. /\ Wire!RightSeq(s.cond) = table
          /\ \A q : Wire!FlattenSeq(q) = FlattenSeq(q)
          /\ \A x : Wire!CondCellPacket(g, s, x) = CondCellPacket(g, s, x)
          /\ \A x : Wire!CondExtPacket(g, s, x) = CondExtPacket(g, s, x)
      BY DEF Wire!RightSeq, RightSeq, Wire!FlattenSeq, FlattenSeq, Wire!CondCellPacket,
             CondCellPacket, Wire!CondExtPacket, CondExtPacket
    <2> HIDE DEF s, table
    <2> QED
      BY <1>1, <2>1 DEF Wire!CondPackets
  <1>3. ASSUME NEW i \in 1 .. n
        PROVE  /\ CellAt(i) \in P /\ (table[i].gate # Default => GateAt(i) \in P)
               /\ CellAt(i).generation = g /\ GateAt(i).generation = g
               /\ CellAt(i).type = "ConditionalSceneCell"
               /\ GateAt(i).type = "ConditionalSceneExt"
               /\ OfEntry(CellAt(i), s, i) /\ OfEntry(GateAt(i), s, i)
    <2>1. PICK j \in DOMAIN s.cond : s.cond[j].slot >= LEDS_PER_HALF /\ table[i] = s.cond[j]
      BY <1>1, RightEntries
    <2>2. CellAt(i) \in P /\ (table[i].gate # Default => GateAt(i) \in P)
      BY <2>1 DEF PacketsOf
    <2> QED
      BY <2>2 DEF CondCellPacket, CondExtPacket, OfEntry
  <1> HIDE DEF P, CellAt, GateAt
  <1>4. ASSUME NEW i \in 1 .. n PROVE parts[i] \in Seq(P)
    BY <1>3
  <1>5. parts = [i \in 1 .. n |-> parts[i]]
    OBVIOUS
  <1>6. ASSUME NEW i \in 1 .. n
        PROVE  Labelled(parts[i], queued, [k \in DOMAIN parts[i] |-> i])
    <2>1. CASE parts[i] = <<CellAt(i)>>
      <3> DEFINE q == <<CellAt(i)>>
                 c == [k \in DOMAIN q |-> i]
      <3>1. DOMAIN q = {1} /\ q[1] = CellAt(i)
        OBVIOUS
      <3> HIDE DEF q
      <3>2. c \in [DOMAIN q -> Nat] /\ c[1] = i
        BY <3>1
      <3> HIDE DEF c
      <3>3. \A k \in DOMAIN q : OfEntry(q[k], queued[q[k].generation], c[k])
        BY <1>3, <3>1, <3>2 DEF s
      <3>5. Labelled(q, queued, c)
        BY <3>1, <3>2, <3>3 DEF Labelled
      <3> QED
        BY <2>1, <3>5 DEF q, c
    <2>2. CASE parts[i] = <<CellAt(i), GateAt(i)>>
      <3> DEFINE q == <<CellAt(i), GateAt(i)>>
                 c == [k \in DOMAIN q |-> i]
      <3>1. DOMAIN q = {1, 2} /\ q[1] = CellAt(i) /\ q[2] = GateAt(i)
        OBVIOUS
      <3> HIDE DEF q
      <3>2. c \in [DOMAIN q -> Nat] /\ c[1] = i /\ c[2] = i
        BY <3>1
      <3> HIDE DEF c
      <3>3. \A k \in DOMAIN q : OfEntry(q[k], queued[q[k].generation], c[k])
        BY <1>3, <3>1, <3>2 DEF s
      <3>4. Behind(q[2], c[2], c[1])
        BY <1>3, <3>1, <3>2 DEF Behind
      <3>5. Labelled(q, queued, c)
        BY <3>1, <3>2, <3>3, <3>4 DEF Labelled
      <3> QED
        BY <2>2, <3>5 DEF q, c
    <2> QED
      BY <2>1, <2>2
  <1>7. ASSUME NEW i \in 1 .. n, NEW k \in DOMAIN parts[i], NEW c, c <= i - 1, c \in Nat
        PROVE  Behind(parts[i][k], i, c)
    BY <1>3, <1>7 DEF Behind
  <1> HIDE DEF parts, s
  <1>8. parts \in Seq(Seq(P)) /\ Len(parts) = n
    BY <1>1, <1>4, <1>5
  <1>9. CASE n = 0
    <2>1. FlattenSeq(parts) = <<>>
      BY <1>8, <1>9 DEF FlattenSeq
    <2>2. <<>> \in Seq(P) /\ \A k \in DOMAIN <<>> : ~ IsCond(<<>>[k])
      OBVIOUS
    <2>3. \E c : Labelled(<<>>, queued, c)
      BY <2>2, OthersLabelled
    <2> QED
      BY <1>2, <2>1, <2>2, <2>3 DEF s, P
  <1>10. CASE n # 0
    <2>1. PICK f \in [1 .. n -> Seq(P)] :
             /\ FlattenSeq(parts) = f[n]
             /\ f[1] = parts[1]
             /\ \A i \in 1 .. n : i < n => f[i + 1] = f[i] \o parts[i + 1]
      <3>1. parts # <<>>
        BY <1>8, <1>10
      <3>2. \E f \in [1 .. Len(parts) -> Seq(P)] :
               /\ FlattenSeq(parts) = f[Len(parts)]
               /\ f[1] = parts[1]
               /\ \A i \in 1 .. Len(parts) :
                    i < Len(parts) => f[i + 1] = f[i] \o parts[i + 1]
        BY <1>8, <3>1, FlattenRecursion
      <3> QED
        BY <1>8, <3>2
    <2> DEFINE Good(i) == \E c : Labelled(f[i], queued, c) /\ \A k \in DOMAIN f[i] : c[k] <= i
               T == {i \in 1 .. n : Good(i)}
    <2>2. 1 \in T
      <3>1. 1 \in 1 .. n
        BY <1>1, <1>10
      <3> DEFINE c == [k \in DOMAIN parts[1] |-> 1]
      <3>2. Labelled(f[1], queued, c) /\ \A k \in DOMAIN f[1] : c[k] <= 1
        BY <1>6, <2>1, <3>1
      <3> QED
        BY <3>1, <3>2
    <2>3. ASSUME NEW i \in 1 .. n, i \in T, i < n PROVE i + 1 \in T
      <3>1. PICK c : Labelled(f[i], queued, c) /\ \A k \in DOMAIN f[i] : c[k] <= i
        BY <2>3
      <3> DEFINE d == [k \in DOMAIN parts[i + 1] |-> i + 1]
                 e == Joined(f[i], parts[i + 1], c, d)
      <3>2. /\ i + 1 \in 1 .. n /\ f[i + 1] = f[i] \o parts[i + 1]
            /\ f[i] \in Seq(P) /\ parts[i + 1] \in Seq(P)
        <4>1. i + 1 \in 1 .. n
          BY <1>1, <2>3
        <4> HIDE DEF n
        <4> QED
          BY <1>4, <2>1, <2>3, <4>1
      <3>3. \A j \in DOMAIN f[i] : c[j] \in Nat
        BY <3>1 DEF Labelled
      <3>4. \A j \in DOMAIN f[i], k \in DOMAIN parts[i + 1] : Behind(parts[i + 1][k], d[k], c[j])
        BY <1>7, <3>1, <3>2, <3>3
      <3>5. Labelled(parts[i + 1], queued, d)
        BY <1>6, <3>2
      <3> HIDE DEF d
      <3>6. Labelled(f[i + 1], queued, e)
        <4>1. Labelled(f[i] \o parts[i + 1], queued, e)
          BY <3>1, <3>2, <3>4, <3>5, JoinLabelled
        <4> QED
          BY <3>2, <4>1
      <3>7. ASSUME NEW k \in DOMAIN f[i + 1] PROVE e[k] <= i + 1
        <4>1. CASE k \in DOMAIN f[i]
          <5>1. e[k] = c[k]
            BY <3>2, <3>7, <4>1 DEF Joined
          <5> HIDE DEF e
          <5> QED
            BY <3>1, <3>3, <4>1, <5>1
        <4>2. CASE k \notin DOMAIN f[i]
          <5>1. k - Len(f[i]) \in DOMAIN parts[i + 1]
            BY <3>2, <3>7, <4>2, ConcatPlaces
          <5> QED
            BY <3>2, <3>7, <4>2, <5>1 DEF d, Joined
        <4> QED
          BY <4>1, <4>2
      <3> QED
        BY <3>2, <3>6, <3>7
    <2>4. n \in T
      <3>1. n \in Nat /\ n \in 1 .. n
        BY <1>1, <1>10
      <3> HIDE DEF T, n
      <3>2. \A i \in 1 .. n : i \in T /\ i < n => i + 1 \in T
        BY <2>3
      <3>3. \A i \in 1 .. n : i \in T
        BY <2>2, <3>1, <3>2, InductionUpTo
      <3> QED
        BY <3>1, <3>3
    <2> QED
      BY <1>2, <1>10, <2>1, <2>4 DEF s, P
  <1> QED
    BY <1>9, <1>10

\* A count is the same on the wire.
LEMMA SameCardinality == \A S : Wire!Cardinality(S) = Cardinality(S)
BY DEF Wire!Cardinality, Cardinality, Wire!IsFiniteSet, IsFiniteSet

\* SetToSeq lists the members of a finite set.
LEMMA SetSequence ==
    ASSUME NEW S, IsFiniteSet(S)
    PROVE  Wire!SetToSeq(S) \in Seq(S)
  <1> DEFINE F == [1 .. Cardinality(S) -> S]
  <1>1. Cardinality(S) \in Nat /\ ExistsBijection(1 .. Cardinality(S), S)
    BY FS_CardinalityType
  <1>2. \E f \in F : IsInjective(f)
    BY <1>1 DEF ExistsBijection, Bijection, Injection
  <1>3. \E f \in F : Wire!IsInjective(f)
    <2>1. \A f : IsInjective(f) => Wire!IsInjective(f)
      BY DEF Wire!IsInjective, IsInjective
    <2> HIDE DEF F
    <2> QED
      BY <1>2, <2>1
  <1>4. Wire!SetToSeq(S) \in F
    BY <1>3, SameCardinality DEF Wire!SetToSeq
  <1> QED
    BY <1>1, <1>4

\* The whole transaction.
LEMMA WalkLabelled ==
    ASSUME NEW queued \in Seq(Replicas), NEW g \in DOMAIN queued
    PROVE  /\ Wire!Walk(g, queued[g]) \in Seq(PacketsOf(g, queued[g]))
           /\ \E c : Labelled(Wire!Walk(g, queued[g]), queued, c)
  <1> DEFINE s == queued[g]
             P == PacketsOf(g, s)
             Q == {m \in P : ~ IsCond(m)}
             five == <<BeginPacket(g, s), PartPacket(g, s, "WakeLayers"),
                       PartPacket(g, s, "Context"), PartPacket(g, s, "Extension"),
                       PartPacket(g, s, "ExtensionOverlay")>>
             cells == {CellPacket(g, s, x) : x \in Right(s.cells)}
             scenes == {ScenePacket(g, s, x) : x \in Right(s.scenes)}
             front == five \o Wire!SetToSeq(cells) \o Wire!SetToSeq(scenes)
                           \o <<CondBeginPacket(g, s)>>
             table == Wire!CondPackets(g, s)
             end == <<CommitPacket(g, s)>>
  <1>1. g \in Nat /\ s \in Replicas
    OBVIOUS
  <1>2. Wire!Walk(g, s) = front \o table \o end
    <2>1. \A t : Wire!Right(t) = Right(t)
      BY DEF Wire!Right, Right
    <2>2. Wire!CellCount(s) = CellCount(s) /\ Wire!SceneCount(s) = SceneCount(s)
      BY SameCardinality
         DEF Wire!CellCount, CellCount, Wire!SceneCount, SceneCount, Wire!Right, Right
    <2>3. Wire!CondCount(s) = CondCount(s)
      BY DEF Wire!CondCount, CondCount, Wire!RightSeq, RightSeq, Wire!FlattenSeq, FlattenSeq
    <2>4. /\ Wire!BeginPacket(g, s) = BeginPacket(g, s)
          /\ Wire!CondBeginPacket(g, s) = CondBeginPacket(g, s)
          /\ Wire!CommitPacket(g, s) = CommitPacket(g, s)
      BY <2>2, <2>3 DEF Wire!BeginPacket, BeginPacket, Wire!CondBeginPacket, CondBeginPacket,
         Wire!CommitPacket, CommitPacket
    <2>5. /\ \A p : Wire!PartPacket(g, s, p) = PartPacket(g, s, p)
          /\ \A x : Wire!CellPacket(g, s, x) = CellPacket(g, s, x)
          /\ \A x : Wire!ScenePacket(g, s, x) = ScenePacket(g, s, x)
      BY DEF Wire!PartPacket, PartPacket, Wire!CellPacket, CellPacket, Wire!ScenePacket,
         ScenePacket
    <2>6. /\ {Wire!CellPacket(g, s, x) : x \in Wire!Right(s.cells)} = cells
          /\ {Wire!ScenePacket(g, s, x) : x \in Wire!Right(s.scenes)} = scenes
      BY <2>1, <2>5
    <2>7. Wire!CellPackets(g, s) = Wire!SetToSeq(cells)
      BY <2>6 DEF Wire!CellPackets
    <2>8. Wire!Walk(g, s) =
            <<Wire!BeginPacket(g, s), Wire!PartPacket(g, s, "WakeLayers"),
              Wire!PartPacket(g, s, "Context"), Wire!PartPacket(g, s, "Extension"),
              Wire!PartPacket(g, s, "ExtensionOverlay")>>
            \o Wire!CellPackets(g, s)
            \o Wire!SetToSeq({Wire!ScenePacket(g, s, x) : x \in Wire!Right(s.scenes)})
            \o <<Wire!CondBeginPacket(g, s)>> \o Wire!CondPackets(g, s)
            \o <<Wire!CommitPacket(g, s)>>
      BY DEF Wire!Walk
    <2>9. Wire!Walk(g, s) =
            five \o Wire!SetToSeq(cells) \o Wire!SetToSeq(scenes)
            \o <<CondBeginPacket(g, s)>> \o Wire!CondPackets(g, s) \o end
      <3>1. five = <<Wire!BeginPacket(g, s), Wire!PartPacket(g, s, "WakeLayers"),
                     Wire!PartPacket(g, s, "Context"), Wire!PartPacket(g, s, "Extension"),
                     Wire!PartPacket(g, s, "ExtensionOverlay")>>
        BY <2>4, <2>5
      <3>2. end = <<Wire!CommitPacket(g, s)>>
        BY <2>4
      <3> HIDE DEF s, cells, scenes, five, end
      <3> QED
        BY <2>4, <2>6, <2>7, <2>8, <3>1, <3>2
    <2> HIDE DEF s, cells, scenes, five
    <2> QED
      BY <2>9
  <1>3. five \in Seq(Q) /\ <<CondBeginPacket(g, s)>> \in Seq(Q) /\ end \in Seq(Q)
    <2>1. \A p \in Parts : PartPacket(g, s, p) \in P /\ PartPacket(g, s, p).type = p
      BY DEF PacketsOf, PartPacket
    <2>2. /\ BeginPacket(g, s) \in P /\ BeginPacket(g, s).type = "Begin"
          /\ CondBeginPacket(g, s) \in P
          /\ CondBeginPacket(g, s).type = "ConditionalSceneBegin"
          /\ CommitPacket(g, s) \in P /\ CommitPacket(g, s).type = "Commit"
      BY DEF PacketsOf, BeginPacket, CondBeginPacket, CommitPacket
    <2>3. /\ \A p \in Parts : PartPacket(g, s, p) \in Q
          /\ BeginPacket(g, s) \in Q /\ CondBeginPacket(g, s) \in Q /\ CommitPacket(g, s) \in Q
      BY <2>1, <2>2 DEF IsCond, Parts
    <2> HIDE DEF Q, s
    <2> QED
      BY <2>3 DEF Parts
  <1>4. Wire!SetToSeq(cells) \in Seq(Q) /\ Wire!SetToSeq(scenes) \in Seq(Q)
    <2>1. cells \subseteq Q /\ scenes \subseteq Q
      BY DEF PacketsOf, CellPacket, ScenePacket, IsCond
    <2>2. IsFiniteSet(cells) /\ IsFiniteSet(scenes)
      <3>1. IsFiniteSet(Right(s.cells)) /\ IsFiniteSet(Right(s.scenes))
        BY <1>1, RightFinite
      <3> DEFINE c == [x \in Right(s.cells) |-> CellPacket(g, s, x)]
                 d == [x \in Right(s.scenes) |-> ScenePacket(g, s, x)]
      <3>2. c \in Surjection(Right(s.cells), cells)
        BY DEF Surjection
      <3>3. d \in Surjection(Right(s.scenes), scenes)
        BY DEF Surjection
      <3> HIDE DEF c, d, cells, scenes
      <3> QED
        BY <3>1, <3>2, <3>3, FS_Surjection
    <2>3. Wire!SetToSeq(cells) \in Seq(cells) /\ Wire!SetToSeq(scenes) \in Seq(scenes)
      BY <2>2, SetSequence
    <2> HIDE DEF cells, scenes, Q
    <2> QED
      BY <2>1, <2>3
  <1>5. table \in Seq(P) /\ \E c : Labelled(table, queued, c)
    BY TableLabelled
  <1>6. front \in Seq(Q)
    <2> HIDE DEF five, Q, cells, scenes
    <2> QED
      BY <1>3, <1>4
  <1>7. front \in Seq(P) /\ end \in Seq(P)
    <2> HIDE DEF front, end
    <2>1. Q \subseteq P
      OBVIOUS
    <2> HIDE DEF Q, P
    <2> QED
      BY <1>3, <1>6, <2>1
  <1>8. /\ \A k \in DOMAIN front : ~ IsCond(front[k])
        /\ \A k \in DOMAIN end : ~ IsCond(end[k])
    <2> HIDE DEF front, end
    <2>1. \A m \in Q : ~ IsCond(m)
      OBVIOUS
    <2> HIDE DEF Q
    <2> QED
      BY <1>3, <1>6, <2>1
  <1> HIDE DEF front, end, table, P
  <1>9. front \o table \in Seq(P) /\ front \o table \o end \in Seq(P)
    BY <1>5, <1>7
  <1>10. PICK c : Labelled(front \o table, queued, c)
    <2>1. PICK d : Labelled(table, queued, d)
      BY <1>5
    <2> QED
      BY <1>5, <1>7, <1>8, <2>1, OthersLabelled, JoinLabelled
  <1>11. \E d : Labelled(front \o table \o end, queued, d)
    <2> DEFINE d == [k \in DOMAIN end |-> 0]
    <2>1. Labelled(end, queued, d)
      BY <1>7, <1>8, OthersLabelled
    <2>2. \A j : \A k \in DOMAIN end : Behind(end[k], d[k], c[j])
      BY <1>8 DEF Behind, IsCond
    <2> HIDE DEF d
    <2> QED
      BY <1>7, <1>9, <1>10, <2>1, <2>2, JoinLabelled
  <1> QED
    BY <1>2, <1>9, <1>11 DEF P

\* Where the packets still in the queue stand to the stage: the stage is of a
\* transaction that was queued, and the conditional packets of that transaction
\* come behind the entry that arrived last.
GatesFollow(q, queued, st) ==
    \E c : /\ Labelled(q, queued, c)
           /\ st # NoStage =>
                /\ st.generation \in DOMAIN queued
                /\ StagePartOf(st, queued[st.generation])
                /\ \E h : /\ CondUpTo(st, queued[st.generation], h)
                          /\ \A k \in DOMAIN q :
                               q[k].generation = st.generation => Behind(q[k], c[k], h)

\* The conditional table of a committed snapshot is the whole table of the
\* snapshot queued under its generation, but for lost gates, or empty.
GatesKept(x, queued) ==
    x # NoCommit =>
        /\ x.generation \in DOMAIN queued
        /\ x.cond # <<>> =>
             LET s == queued[x.generation] IN
                 /\ Len(x.cond) = CondCount(s)
                 /\ \A i \in 1 .. CondCount(s) : IsEntry(x.cond[i], RightSeq(s.cond)[i])

\* What stands in the queue behind its head is still labelled.
LEMMA TailLabelled ==
    ASSUME NEW queued, NEW S, NEW q \in Seq(S), q # <<>>, NEW c, Labelled(q, queued, c)
    PROVE  Labelled(Tail(q), queued, [k \in DOMAIN Tail(q) |-> c[k + 1]])
  <1> DEFINE t == Tail(q)
             d == [k \in DOMAIN t |-> c[k + 1]]
  <1>1. /\ \A k \in DOMAIN t : k + 1 \in DOMAIN q /\ t[k] = q[k + 1] /\ k \in Nat
        /\ \A k \in DOMAIN t : d[k] = c[k + 1]
    BY TailPlaces
  <1>2. d \in [DOMAIN t -> Nat]
    BY <1>1 DEF Labelled
  <1> HIDE DEF t, d
  <1>3. \A k \in DOMAIN t : OfEntry(t[k], queued[t[k].generation], d[k])
    BY <1>1 DEF Labelled
  <1>4. ASSUME NEW j \in DOMAIN t, NEW k \in DOMAIN t, j < k, IsCond(t[j]),
               t[j].generation = t[k].generation
        PROVE  Behind(t[k], d[k], d[j])
    <2>1. j + 1 < k + 1
      BY <1>1, <1>4
    <2> QED
      BY <1>1, <1>4, <2>1 DEF Labelled
  <1>5. Labelled(t, queued, d)
    BY <1>2, <1>3, <1>4 DEF Labelled
  <1> QED
    BY <1>5 DEF t, d

\* A lost packet leaves fewer packets behind the same entry.
LEMMA LossKeepsGates ==
    ASSUME NEW queued, NEW S, NEW q \in Seq(S), q # <<>>, NEW st, GatesFollow(q, queued, st)
    PROVE  GatesFollow(Tail(q), queued, st)
  <1>1. PICK c : /\ Labelled(q, queued, c)
                 /\ st # NoStage =>
                      /\ st.generation \in DOMAIN queued
                      /\ StagePartOf(st, queued[st.generation])
                      /\ \E h : /\ CondUpTo(st, queued[st.generation], h)
                                /\ \A k \in DOMAIN q :
                                     q[k].generation = st.generation => Behind(q[k], c[k], h)
    BY DEF GatesFollow
  <1> DEFINE t == Tail(q)
             d == [k \in DOMAIN t |-> c[k + 1]]
  <1>2. Labelled(t, queued, d)
    BY <1>1, TailLabelled
  <1>3. \A k \in DOMAIN t : k + 1 \in DOMAIN q /\ t[k] = q[k + 1] /\ d[k] = c[k + 1]
    BY TailPlaces
  <1> HIDE DEF t, d
  <1>4. ASSUME st # NoStage
        PROVE  \E h : /\ CondUpTo(st, queued[st.generation], h)
                      /\ \A k \in DOMAIN t :
                           t[k].generation = st.generation => Behind(t[k], d[k], h)
    BY <1>1, <1>3, <1>4
  <1>5. GatesFollow(t, queued, st)
    BY <1>1, <1>2, <1>4 DEF GatesFollow
  <1> QED
    BY <1>5 DEF t

\* A packet that arrives leaves a stage the rest of the queue stands behind.
LEMMA ArrivalKeepsGates ==
    ASSUME NEW queued \in Seq(Replicas), NEW q \in Seq(Packets(queued)), q # <<>>,
           NEW st, GatesFollow(q, queued, st)
    PROVE  GatesFollow(Tail(q), queued, ApplyPacket(st, Head(q)))
  <1>1. PICK c : /\ Labelled(q, queued, c)
                 /\ st # NoStage =>
                      /\ st.generation \in DOMAIN queued
                      /\ StagePartOf(st, queued[st.generation])
                      /\ \E h : /\ CondUpTo(st, queued[st.generation], h)
                                /\ \A k \in DOMAIN q :
                                     q[k].generation = st.generation => Behind(q[k], c[k], h)
    BY DEF GatesFollow
  <1> DEFINE t == Tail(q)
             d == [k \in DOMAIN t |-> c[k + 1]]
             m == Head(q)
             new == ApplyPacket(st, m)
             g == m.generation
             s == queued[g]
             Rest(h) == \A k \in DOMAIN t : t[k].generation = g => Behind(t[k], d[k], h)
  <1>2. Labelled(t, queued, d)
    BY <1>1, TailLabelled
  <1>3. /\ \A k \in DOMAIN t : k + 1 \in DOMAIN q /\ t[k] = q[k + 1] /\ d[k] = c[k + 1]
        /\ 1 \in DOMAIN q /\ m = q[1] /\ m \in Packets(queued)
        /\ DOMAIN t \subseteq Nat
    BY TailPlaces
  <1>4. g \in DOMAIN queued /\ g \in Nat /\ s \in Replicas /\ m \in PacketsOf(g, s)
    <2>1. g \in DOMAIN queued /\ s \in Replicas /\ m \in PacketsOf(g, s)
      BY <1>3, PacketOrigin
    <2> QED
      BY <2>1
  <1>5. c[1] \in Nat /\ OfEntry(m, s, c[1])
    BY <1>1, <1>3 DEF Labelled
  <1>6. IsCond(m) => Rest(c[1])
    <2> SUFFICES ASSUME IsCond(m), NEW k \in DOMAIN t, t[k].generation = g
                 PROVE  Behind(t[k], d[k], c[1])
      OBVIOUS
    <2>1. 1 < k + 1 /\ k + 1 \in DOMAIN q
      <3>1. k # 0
        <4>1. DOMAIN t = 1 .. Len(t)
          BY TailPlaces
        <4> QED
          BY <4>1
      <3> QED
        BY <1>3, <3>1
    <2> QED
      BY <1>1, <1>3, <2>1 DEF Labelled
  <1>7. Rest(0)
    <2> SUFFICES ASSUME NEW k \in DOMAIN t PROVE Behind(t[k], d[k], 0)
      OBVIOUS
    <2> HIDE DEF t, d
    <2>1. t[k] \in Packets(queued)
      BY <1>3
    <2>2. CondCount(queued[t[k].generation]) \in Nat
      BY <2>1, PacketOrigin, RightEntries
    <2>3. OfEntry(t[k], queued[t[k].generation], d[k]) /\ d[k] \in Nat
      BY <1>2 DEF Labelled
    <2> QED
      BY <2>2, <2>3 DEF OfEntry, Behind
  <1> HIDE DEF t, d, m, g, s
  <1>8. CASE new = NoStage
    BY <1>2, <1>8 DEF GatesFollow, t, m
  <1>9. CASE new # NoStage
    <2>1. /\ new.generation \in DOMAIN queued
          /\ StagePartOf(new, queued[new.generation])
      <3>1. st # NoStage => /\ st.generation \in DOMAIN queued
                            /\ StagePartOf(st, queued[st.generation])
        BY <1>1
      <3> QED
        BY <1>4, <1>9, <3>1, PacketKeepsPart DEF s
    <2> SUFFICES \E h : /\ CondUpTo(new, queued[new.generation], h)
                        /\ \A k \in DOMAIN t :
                             t[k].generation = new.generation => Behind(t[k], d[k], h)
      BY <1>2, <2>1 DEF GatesFollow, t, m
    <2>2. CASE m.type = "Begin" /\ new # st
      <3>1. new = OpenStage(m)
        BY <2>2 DEF ApplyPacket, StageBegin, Parts
      <3>2. new.generation = g
        BY <3>1 DEF OpenStage, g
      <3>3. CondUpTo(new, s, 0)
        BY <1>4, <3>1, BeginHasNoEntries
      <3> QED
        BY <1>7, <3>2, <3>3 DEF s
    <2>3. CASE m.type = "Begin" /\ new = st
      <3> HIDE DEF new
      <3> QED
        BY <1>1, <1>3, <1>9, <2>3
    <2>4. CASE m.type # "Begin"
      <3>1. Matches(st, m)
        BY <1>4, <1>9, <2>4, ForeignPacketAborts
      <3>2. st # NoStage /\ st.generation = g
        BY <3>1 DEF Matches, g
      <3>3. PICK h : /\ CondUpTo(st, s, h)
                     /\ \A k \in DOMAIN q :
                          q[k].generation = st.generation => Behind(q[k], c[k], h)
        BY <1>1, <3>2 DEF s
      <3>4. StagePartOf(st, s) /\ new.generation = g
        <4>1. StagePartOf(st, s)
          BY <1>1, <3>2 DEF s
        <4> QED
          BY <1>4, <1>9, <2>4, <3>2, <4>1, PacketExtends
      <3>5. Behind(m, c[1], h)
        BY <1>3, <3>2, <3>3 DEF g
      <3>6. Rest(h)
        BY <1>3, <3>2, <3>3
      <3>7. CASE m.type = "ConditionalSceneCell"
        <4>1. new = StageCondCell(st, m)
          BY <3>7 DEF ApplyPacket, Parts
        <4>2. CondUpTo(new, s, c[1])
          BY <1>4, <1>5, <1>9, <3>3, <3>4, <3>5, <3>7, <4>1, CellAddsEntry
        <4> QED
          BY <1>6, <3>4, <3>7, <4>2 DEF IsCond, s
      <3>8. CASE m.type = "ConditionalSceneExt"
        <4>1. new = StageCondExt(st, m)
          BY <3>8 DEF ApplyPacket, Parts
        <4>2. CondUpTo(new, s, c[1])
          BY <1>4, <1>5, <1>9, <3>3, <3>4, <3>5, <3>8, <4>1, GateAmendsEntry
        <4> QED
          BY <1>6, <3>4, <3>8, <4>2 DEF IsCond, s
      <3>9. CASE ~ IsCond(m)
        <4>1. CondUpTo(new, s, h)
          BY <1>4, <1>9, <2>4, <3>3, <3>4, <3>9, OthersKeepEntries
        <4> QED
          BY <3>4, <3>6, <4>1 DEF s
      <3> QED
        BY <3>7, <3>8, <3>9 DEF IsCond
    <2> QED
      BY <2>2, <2>3, <2>4
  <1> QED
    BY <1>8, <1>9

\* An accepted Commit hands out a table with its own gates.
LEMMA CommitKeepsGates ==
    ASSUME NEW queued \in Seq(Replicas), NEW q, NEW st, GatesFollow(q, queued, st),
           NEW m, CommitValid(st, m)
    PROVE  GatesKept(StagedSnapshot(st), queued)
  <1> DEFINE s == queued[st.generation]
             x == StagedSnapshot(st)
  <1>1. st # NoStage
    BY DEF CommitValid, Matches
  <1>2. /\ st.generation \in DOMAIN queued /\ StagePartOf(st, s)
        /\ \E h : CondUpTo(st, s, h)
    BY <1>1 DEF GatesFollow
  <1>3. s \in Replicas
    BY <1>2
  <1>4. x.generation = st.generation /\ x.cond = st.cond
    BY DEF StagedSnapshot
  <1> HIDE DEF s, x
  <1>5. x.cond # <<>> => /\ Len(x.cond) = CondCount(s)
                         /\ \A i \in 1 .. CondCount(s) : IsEntry(x.cond[i], RightSeq(s.cond)[i])
    BY <1>2, <1>3, <1>4, CommitCountsEntries
  <1>6. GatesKept(x, queued)
    BY <1>2, <1>4, <1>5 DEF GatesKept, s
  <1> QED
    BY <1>6 DEF x

\* Another transaction leaves the packets of the earlier ones as they are.
LEMMA EarlierKeepGates ==
    ASSUME NEW queued \in Seq(Replicas), NEW s \in Replicas,
           NEW q \in Seq(Packets(queued)), NEW st, GatesFollow(q, queued, st)
    PROVE  /\ q \in Seq(Packets(Append(queued, s)))
           /\ GatesFollow(q, Append(queued, s), st)
  <1> DEFINE longer == Append(queued, s)
  <1>1. \A g \in DOMAIN queued : g \in DOMAIN longer /\ longer[g] = queued[g]
    OBVIOUS
  <1> HIDE DEF longer
  <1>2. Packets(queued) \subseteq Packets(longer)
    BY <1>1 DEF Packets
  <1>3. q \in Seq(Packets(longer))
    BY <1>2
  <1>4. \A k \in DOMAIN q : q[k].generation \in DOMAIN queued
    <2>1. \A k \in DOMAIN q : q[k] \in Packets(queued)
      OBVIOUS
    <2> QED
      BY <2>1, PacketOrigin
  <1>5. PICK c : /\ Labelled(q, queued, c)
                 /\ st # NoStage =>
                      /\ st.generation \in DOMAIN queued
                      /\ StagePartOf(st, queued[st.generation])
                      /\ \E h : /\ CondUpTo(st, queued[st.generation], h)
                                /\ \A k \in DOMAIN q :
                                     q[k].generation = st.generation => Behind(q[k], c[k], h)
    BY DEF GatesFollow
  <1>6. Labelled(q, longer, c)
    BY <1>1, <1>4, <1>5 DEF Labelled
  <1>7. GatesFollow(q, longer, st)
    BY <1>1, <1>5, <1>6 DEF GatesFollow
  <1> QED
    BY <1>3, <1>7 DEF longer

\* A transaction queued behind the others: its packets are in the order of its
\* table, and those in front of them are of other generations.
LEMMA WalkKeepsGates ==
    ASSUME NEW queued \in Seq(Replicas), NEW s \in Replicas,
           NEW q \in Seq(Packets(queued)), NEW st, GatesFollow(q, queued, st)
    PROVE  LET longer == Append(queued, s)
               q2 == q \o Wire!Walk(Len(queued) + 1, s)
           IN  q2 \in Seq(Packets(longer)) /\ GatesFollow(q2, longer, st)
  <1> DEFINE longer == Append(queued, s)
             g == Len(queued) + 1
             walk == Wire!Walk(g, s)
             q2 == q \o walk
  <1>1. /\ longer \in Seq(Replicas) /\ g \in DOMAIN longer /\ longer[g] = s
        /\ g \notin DOMAIN queued /\ g \in Nat
    OBVIOUS
  <1>2. q \in Seq(Packets(longer)) /\ GatesFollow(q, longer, st)
    BY EarlierKeepGates
  <1>3. \A k \in DOMAIN q : q[k].generation \in DOMAIN queued
    <2>1. \A k \in DOMAIN q : q[k] \in Packets(queued)
      OBVIOUS
    <2> QED
      BY <2>1, PacketOrigin
  <1>4. st # NoStage => st.generation \in DOMAIN queued
    BY DEF GatesFollow
  <1> HIDE DEF longer, g
  <1>5. walk \in Seq(PacketsOf(g, s)) /\ \E d : Labelled(walk, longer, d)
    BY <1>1, WalkLabelled
  <1> HIDE DEF walk
  <1>6. walk \in Seq(Packets(longer))
    <2>1. PacketsOf(g, s) \subseteq Packets(longer)
      BY <1>1 DEF Packets
    <2> QED
      BY <1>5, <2>1
  <1>7. \A k \in DOMAIN walk : walk[k].generation = g
    <2>1. \A k \in DOMAIN walk : walk[k] \in PacketsOf(g, s)
      BY <1>5
    <2> QED
      BY <1>1, <2>1, PacketFromSnapshot
  <1>8. PICK d : Labelled(walk, longer, d)
    BY <1>5
  <1>9. PICK c : /\ Labelled(q, longer, c)
                 /\ st # NoStage =>
                      /\ st.generation \in DOMAIN longer
                      /\ StagePartOf(st, longer[st.generation])
                      /\ \E h : /\ CondUpTo(st, longer[st.generation], h)
                                /\ \A k \in DOMAIN q :
                                     q[k].generation = st.generation => Behind(q[k], c[k], h)
    BY <1>2 DEF GatesFollow
  <1> DEFINE e == Joined(q, walk, c, d)
  <1>10. Labelled(q2, longer, e)
    <2>1. \A j \in DOMAIN q, k \in DOMAIN walk : q[j].generation # walk[k].generation
      BY <1>1, <1>3, <1>7
    <2> QED
      BY <1>2, <1>6, <1>8, <1>9, <2>1, JoinLabelled
  <1>11. ASSUME NEW k \in DOMAIN q2
         PROVE  \/ k \in DOMAIN q /\ q2[k] = q[k] /\ e[k] = c[k]
                \/ q2[k].generation = g
    <2>1. /\ DOMAIN q = 1 .. Len(q) /\ DOMAIN walk = 1 .. Len(walk)
          /\ \A i \in 1 .. Len(q) : q2[i] = q[i]
          /\ \A l \in 1 .. Len(walk) : q2[Len(q) + l] = walk[l]
          /\ \A i \in DOMAIN q2 : i \in 1 .. Len(q) \/ \E l \in 1 .. Len(walk) : i = Len(q) + l
      BY <1>2, <1>6, ConcatPlaces
    <2>2. CASE k \in 1 .. Len(q)
      <3>1. e[k] = c[k]
        BY <2>1, <2>2 DEF Joined
      <3> HIDE DEF q2, e
      <3> QED
        BY <2>1, <2>2, <3>1
    <2>3. CASE \E l \in 1 .. Len(walk) : k = Len(q) + l
      <3> HIDE DEF q2, e
      <3> QED
        BY <1>7, <2>1, <2>3
    <2> HIDE DEF q2, e
    <2> QED
      BY <2>1, <2>2, <2>3
  <1>12. q2 \in Seq(Packets(longer))
    BY <1>2, <1>6
  <1> HIDE DEF q2, e
  <1>13. ASSUME st # NoStage
         PROVE  \E h : /\ CondUpTo(st, longer[st.generation], h)
                       /\ \A k \in DOMAIN q2 :
                            q2[k].generation = st.generation => Behind(q2[k], e[k], h)
    <2>1. st.generation # g
      BY <1>1, <1>4, <1>13
    <2> QED
      BY <1>9, <1>11, <1>13, <2>1
  <1>14. GatesFollow(q2, longer, st)
    BY <1>9, <1>10, <1>13 DEF GatesFollow
  <1> QED
    BY <1>12, <1>14 DEF q2, walk, longer, g

\* What was committed keeps its meaning.
LEMMA EarlierKeepCommitted ==
    ASSUME NEW queued \in Seq(Replicas), NEW s, NEW x, GatesKept(x, queued)
    PROVE  GatesKept(x, Append(queued, s))
  <1> DEFINE longer == Append(queued, s)
  <1>1. \A g \in DOMAIN queued : g \in DOMAIN longer /\ longer[g] = queued[g]
    OBVIOUS
  <1> HIDE DEF longer
  <1>2. GatesKept(x, longer)
    BY <1>1 DEF GatesKept
  <1> QED
    BY <1>2 DEF longer

-----------------------------------------------------------------------------
\* The stage does with a packet of the queue what it does with one of any link.
LEMMA SameOnWire ==
    /\ Wire!NoStage = NoStage /\ Wire!NoCommit = NoCommit
    /\ \A cond : Wire!RightSeq(cond) = RightSeq(cond)
    /\ \A st, m : Wire!ApplyPacket(st, m) = ApplyPacket(st, m)
    /\ \A st, m : Wire!CommitValid(st, m) <=> CommitValid(st, m)
    /\ \A st : Wire!StagedSnapshot(st) = StagedSnapshot(st)
  <1>1. Wire!NoStage = NoStage /\ Wire!NoCommit = NoCommit
    BY DEF Wire!NoStage, NoStage, Wire!NoCommit, NoCommit
  <1>2. ASSUME NEW cond PROVE Wire!RightSeq(cond) = RightSeq(cond)
    BY DEF Wire!RightSeq, RightSeq, Wire!FlattenSeq, FlattenSeq
  <1>3. ASSUME NEW st, NEW m PROVE Wire!Matches(st, m) <=> Matches(st, m)
    BY <1>1 DEF Wire!Matches, Matches
  <1>4. Wire!Parts = Parts
    BY DEF Wire!Parts, Parts
  <1>5. ASSUME NEW st, NEW m PROVE Wire!CommitValid(st, m) <=> CommitValid(st, m)
    BY <1>3, <1>4, SameCardinality
       DEF Wire!CommitValid, CommitValid, Wire!TablesComplete, TablesComplete,
           Wire!CondComplete, CondComplete
  <1>6. ASSUME NEW st PROVE Wire!StagedSnapshot(st) = StagedSnapshot(st)
    BY DEF Wire!StagedSnapshot, StagedSnapshot
  <1>7. ASSUME NEW st, NEW m PROVE Wire!ApplyPacket(st, m) = ApplyPacket(st, m)
    <2>1. Wire!StageBegin(st, m) = StageBegin(st, m)
      BY <1>4 DEF Wire!StageBegin, StageBegin, Wire!OpenStage, OpenStage
    <2>2. Wire!StagePart(st, m) = StagePart(st, m)
      BY <1>1, <1>3 DEF Wire!StagePart, StagePart
    <2>3. Wire!StageCell(st, m) = StageCell(st, m)
      BY <1>1, <1>3, SameCardinality DEF Wire!StageCell, StageCell
    <2>4. Wire!StageScene(st, m) = StageScene(st, m)
      BY <1>1, <1>3, SameCardinality DEF Wire!StageScene, StageScene
    <2>5. Wire!StageCondBegin(st, m) = StageCondBegin(st, m)
      BY <1>1, <1>3 DEF Wire!StageCondBegin, StageCondBegin
    <2>6. Wire!StageCondCell(st, m) = StageCondCell(st, m)
      BY <1>1, <1>3 DEF Wire!StageCondCell, StageCondCell
    <2>7. Wire!StageCondExt(st, m) = StageCondExt(st, m)
      BY <1>1, <1>3 DEF Wire!StageCondExt, StageCondExt
    <2> QED
      BY <1>1, <1>4, <2>1, <2>2, <2>3, <2>4, <2>5, <2>6, <2>7
         DEF Wire!ApplyPacket, ApplyPacket
  <1> QED
    BY <1>1, <1>2, <1>5, <1>6, <1>7

\* The snapshots of the queue can be exported by an engine.
LEMMA WireSnapshotsAreReplicas == WireSnapshots \subseteq Replicas /\ WireTransfers \in Nat
  <1>1. /\ WireSnapshots \subseteq Wire!Snapshot /\ WireTransfers \in Nat
        /\ \A s \in WireSnapshots : Wire!IsFiniteSet(s.cells) /\ Wire!IsFiniteSet(s.scenes)
    BY WireConstants DEF Wire!StageConstants
  <1>2. Wire!Snapshot = Snapshot
    BY DEF Wire!Snapshot, Snapshot, Wire!Parts, Parts, Wire!Cell, Cell, Wire!SceneCell,
       SceneCell, Wire!CondCell, CondCell, Wire!Slots, Slots
  <1>3. \A S : Wire!IsFiniteSet(S) <=> IsFiniteSet(S)
    BY DEF Wire!IsFiniteSet, IsFiniteSet
  <1> QED
    BY <1>1, <1>2, <1>3 DEF Replicas

\* The inductive invariant of the queue.
WireInv ==
    /\ wire_sent \in Seq(Replicas)
    /\ tx \in Seq(Packets(wire_sent))
    /\ GatesFollow(tx, wire_sent, wire_stage)
    /\ GatesKept(wire_committed, wire_sent)

\* The queue starts empty.
LEMMA WireInit == Wire!Init => WireInv
  <1> SUFFICES ASSUME Wire!Init PROVE WireInv
    OBVIOUS
  <1>1. wire_sent = <<>> /\ tx = <<>> /\ wire_stage = NoStage /\ wire_committed = NoCommit
    BY SameOnWire DEF Wire!Init
  <1>2. <<>> \in Seq(Replicas) /\ <<>> \in Seq(Packets(<<>>))
    OBVIOUS
  <1>3. \A k \in DOMAIN <<>> : ~ IsCond(<<>>[k])
    OBVIOUS
  <1>4. \E c : Labelled(<<>>, <<>>, c)
    BY <1>2, <1>3, OthersLabelled
  <1> QED
    BY <1>1, <1>2, <1>4 DEF WireInv, GatesFollow, GatesKept

\* try_queue_snapshot, whether the transaction is accepted or not.
LEMMA QueueKeepsWireInv ==
    ASSUME WireInv, NEW s \in WireSnapshots, Wire!QueueSnapshot(s)
    PROVE  WireInv'
  <1>1. /\ wire_sent \in Seq(Replicas) /\ s \in Replicas /\ tx \in Seq(Packets(wire_sent))
        /\ GatesFollow(tx, wire_sent, wire_stage) /\ GatesKept(wire_committed, wire_sent)
    BY WireSnapshotsAreReplicas DEF WireInv
  <1>2. /\ wire_sent' = Append(wire_sent, s)
        /\ tx' = tx \/ tx' = tx \o Wire!Walk(Len(wire_sent) + 1, s)
        /\ wire_stage' = wire_stage /\ wire_committed' = wire_committed
    BY DEF Wire!QueueSnapshot
  <1>3. wire_sent' \in Seq(Replicas)
    BY <1>1, <1>2
  <1>4. GatesKept(wire_committed, wire_sent')
    BY <1>1, <1>2, EarlierKeepCommitted
  <1>5. CASE tx' = tx
    <2>1. tx \in Seq(Packets(wire_sent')) /\ GatesFollow(tx, wire_sent', wire_stage)
      BY <1>1, <1>2, EarlierKeepGates
    <2> QED
      BY <1>2, <1>3, <1>4, <1>5, <2>1 DEF WireInv
  <1>6. CASE tx' = tx \o Wire!Walk(Len(wire_sent) + 1, s)
    <2>1. tx' \in Seq(Packets(wire_sent')) /\ GatesFollow(tx', wire_sent', wire_stage)
      BY <1>1, <1>2, <1>6, WalkKeepsGates
    <2> QED
      BY <1>2, <1>3, <1>4, <2>1 DEF WireInv
  <1> QED
    BY <1>2, <1>5, <1>6

\* The next packet arrives.
LEMMA DeliverKeepsWireInv == ASSUME WireInv, Wire!Deliver PROVE WireInv'
  <1>1. /\ wire_sent \in Seq(Replicas) /\ tx \in Seq(Packets(wire_sent)) /\ tx # <<>>
        /\ GatesFollow(tx, wire_sent, wire_stage) /\ GatesKept(wire_committed, wire_sent)
    BY DEF WireInv, Wire!Deliver
  <1>2. /\ wire_sent' = wire_sent /\ tx' = Tail(tx)
        /\ wire_stage' = ApplyPacket(wire_stage, Head(tx))
        /\ \/ wire_committed' = wire_committed
           \/ /\ CommitValid(wire_stage, Head(tx))
              /\ wire_committed' = StagedSnapshot(wire_stage)
    BY SameOnWire DEF Wire!Deliver
  <1>3. tx' \in Seq(Packets(wire_sent'))
    BY <1>1, <1>2
  <1>4. GatesFollow(tx', wire_sent', wire_stage')
    BY <1>1, <1>2, ArrivalKeepsGates
  <1>5. GatesKept(wire_committed', wire_sent')
    BY <1>1, <1>2, CommitKeepsGates
  <1> QED
    BY <1>1, <1>2, <1>3, <1>4, <1>5 DEF WireInv

\* The next packet is lost.
LEMMA LoseKeepsWireInv == ASSUME WireInv, Wire!Lose PROVE WireInv'
  <1>1. /\ wire_sent \in Seq(Replicas) /\ tx \in Seq(Packets(wire_sent)) /\ tx # <<>>
        /\ GatesFollow(tx, wire_sent, wire_stage) /\ GatesKept(wire_committed, wire_sent)
    BY DEF WireInv, Wire!Lose
  <1>2. /\ wire_sent' = wire_sent /\ tx' = Tail(tx)
        /\ wire_stage' = wire_stage /\ wire_committed' = wire_committed
    BY DEF Wire!Lose
  <1>3. Tail(tx) \in Seq(Packets(wire_sent)) /\ GatesFollow(Tail(tx), wire_sent, wire_stage)
    BY <1>1, LossKeepsGates
  <1> QED
    BY <1>1, <1>2, <1>3 DEF WireInv

\* An edge of the link throws the stage away.
LEMMA ResetKeepsWireInv == ASSUME WireInv, Wire!Reset PROVE WireInv'
  <1>1. /\ wire_sent' = wire_sent /\ tx' = tx /\ wire_stage' = NoStage
        /\ wire_committed' = wire_committed
    BY SameOnWire DEF Wire!Reset
  <1>2. GatesFollow(tx, wire_sent, NoStage)
    BY DEF WireInv, GatesFollow
  <1> QED
    BY <1>1, <1>2 DEF WireInv

\* No step of the queue disturbs it.
LEMMA WireInvKept == WireInv /\ [Wire!Next]_(Wire!vars) => WireInv'
  <1> SUFFICES ASSUME WireInv, [Wire!Next]_(Wire!vars) PROVE WireInv'
    OBVIOUS
  <1>1. ASSUME NEW s \in WireSnapshots, Wire!QueueSnapshot(s) PROVE WireInv'
    BY <1>1, QueueKeepsWireInv
  <1>2. CASE Wire!Deliver
    BY <1>2, DeliverKeepsWireInv
  <1>3. CASE Wire!Lose
    BY <1>3, LoseKeepsWireInv
  <1>4. CASE Wire!Reset
    BY <1>4, ResetKeepsWireInv
  <1>5. CASE UNCHANGED Wire!vars
    BY <1>5 DEF Wire!vars, WireInv
  <1> QED
    BY <1>1, <1>2, <1>3, <1>4, <1>5 DEF Wire!Next

\* Over the real queue, whatever it loses, a gate stays with the cell it was
\* queued behind: walk_snapshot's order is what the count of Commit relies on.
THEOREM GatesStayWithTheirCells == Wire!Spec => []CondGatesNeverMisattached
  <1>1. WireInv => CondGatesNeverMisattached
    <2> SUFFICES ASSUME WireInv, wire_committed # NoCommit, wire_committed.cond # <<>>
                 PROVE  LET cond == RightSeq(wire_sent[wire_committed.generation].cond) IN
                            /\ Len(wire_committed.cond) = Len(cond)
                            /\ \A i \in DOMAIN cond :
                                 /\ wire_committed.cond[i].slot = cond[i].slot
                                 /\ wire_committed.cond[i].effect = cond[i].effect
                                 /\ wire_committed.cond[i].gate \in {cond[i].gate, Default}
      BY SameOnWire DEF CondGatesNeverMisattached, Wire!CondGatesNeverMisattached
    <2> DEFINE s == wire_sent[wire_committed.generation]
    <2>1. /\ s \in Replicas
          /\ Len(wire_committed.cond) = CondCount(s)
          /\ \A i \in 1 .. CondCount(s) : IsEntry(wire_committed.cond[i], RightSeq(s.cond)[i])
      BY DEF WireInv, GatesKept
    <2>2. DOMAIN RightSeq(s.cond) = 1 .. CondCount(s)
      BY <2>1, RightEntries DEF CondCount
    <2> QED
      BY <2>1, <2>2 DEF IsEntry, CondCount
  <1> QED
    BY <1>1, WireInit, WireInvKept, PTL DEF Wire!Spec

\* The same of the link SnapshotWire claims to implement.
LEMMA SameOnAnyLink ==
    /\ Wire!AnyLink!NoStage = NoStage /\ Wire!AnyLink!NoCommit = NoCommit
    /\ \A st, m : Wire!AnyLink!ApplyPacket(st, m) = ApplyPacket(st, m)
    /\ \A st, m : Wire!AnyLink!CommitValid(st, m) <=> CommitValid(st, m)
    /\ \A st : Wire!AnyLink!StagedSnapshot(st) = StagedSnapshot(st)
  <1>0. \A S : Wire!AnyLink!Cardinality(S) = Cardinality(S)
    BY DEF Wire!AnyLink!Cardinality, Cardinality, Wire!AnyLink!IsFiniteSet, IsFiniteSet
  <1>1. Wire!AnyLink!NoStage = NoStage /\ Wire!AnyLink!NoCommit = NoCommit
    BY DEF Wire!AnyLink!NoStage, NoStage, Wire!AnyLink!NoCommit, NoCommit
  <1>3. ASSUME NEW st, NEW m PROVE Wire!AnyLink!Matches(st, m) <=> Matches(st, m)
    BY <1>1 DEF Wire!AnyLink!Matches, Matches
  <1>4. Wire!AnyLink!Parts = Parts
    BY DEF Wire!AnyLink!Parts, Parts
  <1>5. ASSUME NEW st, NEW m PROVE Wire!AnyLink!CommitValid(st, m) <=> CommitValid(st, m)
    BY <1>0, <1>3, <1>4
       DEF Wire!AnyLink!CommitValid, CommitValid, Wire!AnyLink!TablesComplete,
           TablesComplete, Wire!AnyLink!CondComplete, CondComplete
  <1>6. ASSUME NEW st PROVE Wire!AnyLink!StagedSnapshot(st) = StagedSnapshot(st)
    BY DEF Wire!AnyLink!StagedSnapshot, StagedSnapshot
  <1>7. ASSUME NEW st, NEW m PROVE Wire!AnyLink!ApplyPacket(st, m) = ApplyPacket(st, m)
    <2>1. Wire!AnyLink!StageBegin(st, m) = StageBegin(st, m)
      BY <1>4 DEF Wire!AnyLink!StageBegin, StageBegin, Wire!AnyLink!OpenStage, OpenStage
    <2>2. Wire!AnyLink!StagePart(st, m) = StagePart(st, m)
      BY <1>1, <1>3 DEF Wire!AnyLink!StagePart, StagePart
    <2>3. Wire!AnyLink!StageCell(st, m) = StageCell(st, m)
      BY <1>0, <1>1, <1>3 DEF Wire!AnyLink!StageCell, StageCell
    <2>4. Wire!AnyLink!StageScene(st, m) = StageScene(st, m)
      BY <1>0, <1>1, <1>3 DEF Wire!AnyLink!StageScene, StageScene
    <2>5. Wire!AnyLink!StageCondBegin(st, m) = StageCondBegin(st, m)
      BY <1>1, <1>3 DEF Wire!AnyLink!StageCondBegin, StageCondBegin
    <2>6. Wire!AnyLink!StageCondCell(st, m) = StageCondCell(st, m)
      BY <1>1, <1>3 DEF Wire!AnyLink!StageCondCell, StageCondCell
    <2>7. Wire!AnyLink!StageCondExt(st, m) = StageCondExt(st, m)
      BY <1>1, <1>3 DEF Wire!AnyLink!StageCondExt, StageCondExt
    <2> QED
      BY <1>1, <1>4, <2>1, <2>2, <2>3, <2>4, <2>5, <2>6, <2>7
         DEF Wire!AnyLink!ApplyPacket, ApplyPacket
  <1> QED
    BY <1>1, <1>5, <1>6, <1>7

\* The packets of a transaction are the same there.
LEMMA SamePackets ==
    \A g, s : Wire!AnyLink!PacketsOf(g, s) = PacketsOf(g, s)
  <1> SUFFICES ASSUME NEW g, NEW s
               PROVE  Wire!AnyLink!PacketsOf(g, s) = PacketsOf(g, s)
    OBVIOUS
  <1>1. \A t : Wire!AnyLink!Right(t) = Right(t)
    BY DEF Wire!AnyLink!Right, Right
  <1>2. /\ Wire!AnyLink!CellCount(s) = CellCount(s)
        /\ Wire!AnyLink!SceneCount(s) = SceneCount(s)
    <2>1. \A S : Wire!AnyLink!Cardinality(S) = Cardinality(S)
      BY DEF Wire!AnyLink!Cardinality, Cardinality, Wire!AnyLink!IsFiniteSet, IsFiniteSet
    <2> QED
      BY <2>1 DEF Wire!AnyLink!CellCount, CellCount, Wire!AnyLink!SceneCount, SceneCount,
         Wire!AnyLink!Right, Right
  <1>3. Wire!AnyLink!CondCount(s) = CondCount(s)
    BY DEF Wire!AnyLink!CondCount, CondCount, Wire!AnyLink!RightSeq, RightSeq,
       Wire!AnyLink!FlattenSeq, FlattenSeq
  <1>4. /\ Wire!AnyLink!BeginPacket(g, s) = BeginPacket(g, s)
        /\ Wire!AnyLink!CondBeginPacket(g, s) = CondBeginPacket(g, s)
        /\ Wire!AnyLink!CommitPacket(g, s) = CommitPacket(g, s)
    BY <1>2, <1>3 DEF Wire!AnyLink!BeginPacket, BeginPacket, Wire!AnyLink!CondBeginPacket,
       CondBeginPacket, Wire!AnyLink!CommitPacket, CommitPacket
  <1>5. /\ \A p : Wire!AnyLink!PartPacket(g, s, p) = PartPacket(g, s, p)
        /\ \A x : Wire!AnyLink!CellPacket(g, s, x) = CellPacket(g, s, x)
        /\ \A x : Wire!AnyLink!ScenePacket(g, s, x) = ScenePacket(g, s, x)
        /\ \A x : Wire!AnyLink!CondCellPacket(g, s, x) = CondCellPacket(g, s, x)
        /\ \A x : Wire!AnyLink!CondExtPacket(g, s, x) = CondExtPacket(g, s, x)
    BY DEF Wire!AnyLink!PartPacket, PartPacket, Wire!AnyLink!CellPacket, CellPacket,
       Wire!AnyLink!ScenePacket, ScenePacket, Wire!AnyLink!CondCellPacket, CondCellPacket,
       Wire!AnyLink!CondExtPacket, CondExtPacket
  <1>6. Wire!AnyLink!Parts = Parts
    BY DEF Wire!AnyLink!Parts, Parts
  <1> QED
    BY <1>1, <1>4, <1>5, <1>6 DEF Wire!AnyLink!PacketsOf, PacketsOf

\* The queue with its losses is one of the links CommitIsFaithful is about:
\* queueing is offering, a delivery is an arrival, a loss is no step at all.
THEOREM QueueIsALink == Wire!Spec => ImplementsAnyLink
  <1>1. Wire!Init => Wire!AnyLink!Init
    BY SameOnWire, SameOnAnyLink DEF Wire!Init, Wire!AnyLink!Init
  <1>2. WireInv /\ [Wire!Next]_(Wire!vars) => [Wire!AnyLink!Next]_(Wire!AnyLink!vars)
    <2> SUFFICES ASSUME WireInv, [Wire!Next]_(Wire!vars)
                 PROVE  [Wire!AnyLink!Next]_(Wire!AnyLink!vars)
      OBVIOUS
    <2>1. ASSUME NEW s \in WireSnapshots, Wire!QueueSnapshot(s)
          PROVE  Wire!AnyLink!OfferSnapshot(s)
      <3>1. Len(wire_sent) \in Nat
        BY DEF WireInv
      <3> QED
        BY <2>1, <3>1, WireSnapshotsAreReplicas
           DEF Wire!QueueSnapshot, Wire!AnyLink!OfferSnapshot
    <2>2. CASE Wire!Deliver
      <3> DEFINE m == Head(tx)
      <3>1. /\ tx \in Seq(Packets(wire_sent)) /\ tx # <<>> /\ wire_sent \in Seq(Replicas)
        BY <2>2 DEF WireInv, Wire!Deliver
      <3>2. m \in Packets(wire_sent)
        BY <3>1
      <3>3. /\ m.generation \in DOMAIN wire_sent
            /\ m \in Wire!AnyLink!PacketsOf(m.generation, wire_sent[m.generation])
        BY <3>1, <3>2, PacketOrigin, SamePackets
      <3>4. Wire!AnyLink!Receive(m)
        BY <2>2, SameOnWire, SameOnAnyLink DEF Wire!Deliver, Wire!AnyLink!Receive
      <3> QED
        BY <3>3, <3>4 DEF Wire!AnyLink!Next
    <2>3. CASE Wire!Lose
      BY <2>3 DEF Wire!Lose, Wire!AnyLink!vars
    <2>4. CASE Wire!Reset
      BY <2>4, SameOnWire, SameOnAnyLink
         DEF Wire!Reset, Wire!AnyLink!Reset, Wire!AnyLink!Next
    <2>5. CASE UNCHANGED Wire!vars
      BY <2>5 DEF Wire!vars, Wire!AnyLink!vars
    <2> QED
      BY <2>1, <2>2, <2>3, <2>4, <2>5 DEF Wire!Next, Wire!AnyLink!Next
  <1> QED
    BY <1>1, <1>2, WireInit, WireInvKept, PTL
       DEF Wire!Spec, ImplementsAnyLink, Wire!ImplementsAnyLink, Wire!AnyLink!Spec

-----------------------------------------------------------------------------
(* Bytes.                                                                  *)

\* The bytes of a string stand in a packet from an offset on.
Holds(b, at, s) == \A k \in 1 .. Len(s) : b[at + (k - 1)] = s[k]

\* A string that is made of two stands where its parts do.
LEMMA HoldsParts ==
    ASSUME NEW b, NEW at \in Nat, NEW s \in Seq(Link!Byte), NEW t \in Seq(Link!Byte),
           Holds(b, at, s \o t)
    PROVE  Holds(b, at, s) /\ Holds(b, at + Len(s), t)
  <1>1. ASSUME NEW k \in 1 .. Len(s) PROVE b[at + (k - 1)] = s[k]
    <2>1. k \in 1 .. Len(s \o t) /\ (s \o t)[k] = s[k]
      BY ConcatPlaces
    <2> QED
      BY <2>1 DEF Holds
  <1>2. ASSUME NEW k \in 1 .. Len(t) PROVE b[at + Len(s) + (k - 1)] = t[k]
    <2>1. /\ Len(s) + k \in 1 .. Len(s \o t) /\ (s \o t)[Len(s) + k] = t[k]
          /\ Len(s) \in Nat /\ Len(t) \in Nat
      BY ConcatPlaces
    <2>2. b[at + (Len(s) + k - 1)] = t[k]
      BY <2>1 DEF Holds
    <2> QED
      BY <2>1, <2>2
  <1> QED
    BY <1>1, <1>2 DEF Holds

\* Two strings one after the other.
LEMMA JoinedBytes ==
    ASSUME NEW s \in Seq(Link!Byte), NEW t \in Seq(Link!Byte)
    PROVE  s \o t \in Seq(Link!Byte) /\ Len(s \o t) = Len(s) + Len(t)
BY ConcatPlaces

\* A byte and a word, and how wider integers are made of them.
LEMMA Word16 ==
    ASSUME NEW v \in Link!Word
    PROVE  /\ v % 256 \in Link!Byte /\ v \div 256 \in Link!Byte
           /\ (v % 256) + 256 * (v \div 256) = v
           /\ Link!put_u16(v) \in Seq(Link!Byte) /\ Len(Link!put_u16(v)) = 2
  <1>1. v % 256 \in Link!Byte /\ v \div 256 \in Link!Byte /\ (v % 256) + 256 * (v \div 256) = v
    <2>0. Link!MAX = 255
      BY DEF Link!MAX
    <2>1. v \in Int /\ v >= 0
      BY DEF Link!Word
    <2>4. 256 * Link!MAX + Link!MAX \in Int
      BY <2>0
    <2>5. v <= 256 * Link!MAX + Link!MAX
      BY <2>4 DEF Link!Word
    <2> DEFINE low == v % 256
               high == v \div 256
    <2>2. low \in Int /\ high \in Int /\ v = low + 256 * high /\ 0 <= low /\ low < 256
      BY <2>1
    <2> HIDE DEF low, high
    <2>3. 0 <= high /\ high < 256
      BY <2>0, <2>1, <2>2, <2>5
    <2>6. low \in Link!Byte /\ high \in Link!Byte
      BY <2>2, <2>3 DEF Link!Byte
    <2> QED
      BY <2>2, <2>6 DEF low, high
  <1> DEFINE low == v % 256
             high == v \div 256
  <1> HIDE DEF low, high
  <1>2. <<low, high>> \in Seq(Link!Byte) /\ Len(<<low, high>>) = 2
    BY <1>1 DEF low, high
  <1> QED
    BY <1>1, <1>2 DEF Link!put_u16, low, high

\* A 32-bit integer is two words, and four bytes on the wire.
LEMMA Word32 ==
    ASSUME NEW v \in Link!u32
    PROVE  /\ v[1] \in Link!Word /\ v[2] \in Link!Word /\ v = <<v[1], v[2]>>
           /\ Link!put_u32(v) \in Seq(Link!Byte) /\ Len(Link!put_u32(v)) = 4
  <1>1. v[1] \in Link!Word /\ v[2] \in Link!Word /\ v = <<v[1], v[2]>>
    BY DEF Link!u32
  <1>2. /\ Link!put_u16(v[1]) \in Seq(Link!Byte) /\ Len(Link!put_u16(v[1])) = 2
        /\ Link!put_u16(v[2]) \in Seq(Link!Byte) /\ Len(Link!put_u16(v[2])) = 2
    BY <1>1, Word16
  <1>3. Link!put_u32(v) = Link!put_u16(v[1]) \o Link!put_u16(v[2])
    BY DEF Link!put_u32
  <1>4. Link!put_u32(v) \in Seq(Link!Byte)
        /\ Len(Link!put_u32(v)) = Len(Link!put_u16(v[1])) + Len(Link!put_u16(v[2]))
    BY <1>2, <1>3, JoinedBytes
  <1> QED
    BY <1>1, <1>2, <1>4

\* A 64-bit integer is four words, and eight bytes on the wire.
LEMMA Word64 ==
    ASSUME NEW v \in Link!u64
    PROVE  /\ \A i \in 1 .. 4 : v[i] \in Link!Word
           /\ v = <<v[1], v[2], v[3], v[4]>>
           /\ <<v[1], v[2]>> \in Link!u32 /\ <<v[3], v[4]>> \in Link!u32
           /\ Link!put_u32(v) = Link!put_u32(<<v[1], v[2]>>)
           /\ Link!put_u64(v) \in Seq(Link!Byte) /\ Len(Link!put_u64(v)) = 8
  <1>1. v = <<v[1], v[2], v[3], v[4]>> /\ v[1] \in Link!Word /\ v[2] \in Link!Word
        /\ v[3] \in Link!Word /\ v[4] \in Link!Word
    BY DEF Link!u64
  <1>2. <<v[1], v[2]>> \in Link!u32 /\ <<v[3], v[4]>> \in Link!u32
    BY <1>1 DEF Link!u32
  <1>3. Link!put_u32(v) = Link!put_u32(<<v[1], v[2]>>)
    BY DEF Link!put_u32
  <1>4. Link!put_u64(v) \in Seq(Link!Byte) /\ Len(Link!put_u64(v)) = 8
    <2> DEFINE low == Link!put_u32(<<v[1], v[2]>>)
               high == Link!put_u32(<<v[3], v[4]>>)
    <2>1. low \in Seq(Link!Byte) /\ high \in Seq(Link!Byte) /\ Len(low) = 4 /\ Len(high) = 4
      BY <1>2, Word32
    <2>2. Link!put_u64(v) = low \o high
      BY <1>3 DEF Link!put_u64
    <2> HIDE DEF low, high
    <2>3. Link!put_u64(v) \in Seq(Link!Byte) /\ Len(Link!put_u64(v)) = Len(low) + Len(high)
      BY <2>1, <2>2, JoinedBytes
    <2> QED
      BY <2>1, <2>3
  <1> QED
    BY <1>1, <1>2, <1>3, <1>4

\* What put wrote get reads.
LEMMA Read16 ==
    ASSUME NEW v \in Link!Word, NEW b, NEW at \in Nat, Holds(b, at, Link!put_u16(v))
    PROVE  Link!get_u16(b, at) = v
  <1>1. b[at] = v % 256 /\ b[at + 1] = v \div 256
    BY DEF Holds, Link!put_u16
  <1> QED
    BY <1>1, Word16 DEF Link!get_u16

\* A 32-bit integer is read back from where its bytes stand.
LEMMA Read32 ==
    ASSUME NEW v \in Link!u32, NEW b, NEW at \in Nat, Holds(b, at, Link!put_u32(v))
    PROVE  Link!get_u32(b, at) = v
  <1>1. v[1] \in Link!Word /\ v[2] \in Link!Word /\ v = <<v[1], v[2]>>
    BY Word32
  <1>2. Holds(b, at, Link!put_u16(v[1])) /\ Holds(b, at + 2, Link!put_u16(v[2]))
    <2> DEFINE low == Link!put_u16(v[1])
               high == Link!put_u16(v[2])
    <2>1. low \in Seq(Link!Byte) /\ high \in Seq(Link!Byte) /\ Len(low) = 2
      BY <1>1, Word16
    <2>2. Holds(b, at, low \o high)
      BY DEF Link!put_u32
    <2> HIDE DEF low, high
    <2>3. Holds(b, at, low) /\ Holds(b, at + 2, high)
      BY <2>1, <2>2, HoldsParts
    <2> QED
      BY <2>3 DEF low, high
  <1>3. Link!get_u16(b, at) = v[1] /\ Link!get_u16(b, at + 2) = v[2]
    BY <1>1, <1>2, Read16
  <1> QED
    BY <1>1, <1>3 DEF Link!get_u32

\* A 64-bit integer is read back from where its bytes stand.
LEMMA Read64 ==
    ASSUME NEW v \in Link!u64, NEW b, NEW at \in Nat, Holds(b, at, Link!put_u64(v))
    PROVE  Link!get_u64(b, at) = v
  <1> DEFINE low == <<v[1], v[2]>>
             high == <<v[3], v[4]>>
  <1>1. low \in Link!u32 /\ high \in Link!u32 /\ v = <<v[1], v[2], v[3], v[4]>>
    BY Word64
  <1>2. Link!put_u64(v) = Link!put_u32(low) \o Link!put_u32(high)
    BY Word64 DEF Link!put_u64
  <1>3. Holds(b, at, Link!put_u32(low)) /\ Holds(b, at + 4, Link!put_u32(high))
    <2>1. /\ Link!put_u32(low) \in Seq(Link!Byte) /\ Link!put_u32(high) \in Seq(Link!Byte)
          /\ Len(Link!put_u32(low)) = 4
      BY <1>1, Word32
    <2>2. Holds(b, at, Link!put_u32(low) \o Link!put_u32(high))
      BY <1>2
    <2> HIDE DEF low, high
    <2> QED
      BY <2>1, <2>2, HoldsParts
  <1>4. Link!get_u32(b, at) = low /\ Link!get_u32(b, at + 4) = high
    BY <1>1, <1>3, Read32
  <1>5. /\ Link!get_u16(b, at) = v[1] /\ Link!get_u16(b, at + 2) = v[2]
        /\ Link!get_u16(b, at + 4) = v[3] /\ Link!get_u16(b, at + 6) = v[4]
    BY <1>4 DEF Link!get_u32
  <1> QED
    BY <1>1, <1>5 DEF Link!get_u64

-----------------------------------------------------------------------------
(* Packets.                                                                *)

\* Any string of bytes, at offsets from 0.
BytePackets == UNION {[0 .. n - 1 -> Link!Byte] : n \in Nat}

\* The strings of a packet are bytes, behind the tag, within its length, and
\* do not overlap.
Apart(puts, l) ==
    /\ \A p \in puts :
         /\ p[1] \in Nat /\ p[1] >= 2 /\ p[2] \in Seq(Link!Byte)
         /\ p[1] + Len(p[2]) <= l
    /\ \A p, q \in puts :
         p = q \/ p[1] + Len(p[2]) <= q[1] \/ q[1] + Len(q[2]) <= p[1]

\* A string of n bytes to be put at an offset.
Long(s, n) == n \in Nat /\ s \in Seq(Link!Byte) /\ Len(s) = n
String(p, at, n) == at \in Nat /\ p[1] = at /\ Long(p[2], n)

\* One more string, behind the others.
LEMMA OneMoreApart ==
    ASSUME NEW puts, NEW l \in Nat, l >= 2, Apart(puts, l),
           NEW p, NEW at, NEW n, String(p, at, n), at >= l
    PROVE  Apart(puts \cup {p}, at + n)
  <1>1. /\ p[1] = at /\ p[2] \in Seq(Link!Byte) /\ Len(p[2]) = n /\ at \in Nat /\ n \in Nat
        /\ p[1] \in Nat /\ p[1] >= 2
    BY DEF String, Long
  <1>2. \A q \in puts :
          /\ q[1] \in Nat /\ q[1] >= 2 /\ q[2] \in Seq(Link!Byte) /\ Len(q[2]) \in Nat
          /\ q[1] + Len(q[2]) <= l
    BY DEF Apart
  <1>3. \A q, r \in puts : q = r \/ q[1] + Len(q[2]) <= r[1] \/ r[1] + Len(r[2]) <= q[1]
    BY DEF Apart
  <1>4. \A q \in puts : q[1] + Len(q[2]) <= p[1] /\ q[1] + Len(q[2]) <= at + n
    <2> TAKE q \in puts
    <2>1. q[1] \in Nat /\ Len(q[2]) \in Nat /\ q[1] + Len(q[2]) <= l
      BY <1>2
    <2> QED
      BY <1>1, <2>1
  <1>5. \A q \in puts \cup {p} :
          /\ q[1] \in Nat /\ q[1] >= 2 /\ q[2] \in Seq(Link!Byte)
          /\ q[1] + Len(q[2]) <= at + n
    BY <1>1, <1>2, <1>4
  <1>6. \A q, r \in puts \cup {p} :
          q = r \/ q[1] + Len(q[2]) <= r[1] \/ r[1] + Len(r[2]) <= q[1]
    BY <1>3, <1>4
  <1> QED
    BY <1>5, <1>6 DEF Apart

\* Up to six strings in their order.
LEMMA ApartOne ==
    ASSUME NEW p1, NEW at1, NEW n1, String(p1, at1, n1), at1 >= 2,
           NEW l, l = at1 + n1
    PROVE  Apart({p1}, l)
  <1>1. Apart({}, 2)
    BY DEF Apart
  <1>2. Apart({} \cup {p1}, at1 + n1)
    BY <1>1, OneMoreApart
  <1> QED
    BY <1>2

\* Two strings in order do not overlap.
LEMMA ApartTwo ==
    ASSUME NEW p1, NEW at1, NEW n1, String(p1, at1, n1), at1 >= 2,
           NEW p2, NEW at2, NEW n2, String(p2, at2, n2), at2 >= at1 + n1,
           NEW l, l = at2 + n2
    PROVE  Apart({p1, p2}, l)
  <1>1. at1 + n1 \in Nat /\ at1 + n1 >= 2
    BY DEF String, Long
  <1>2. Apart({p1}, at1 + n1)
    BY ApartOne
  <1>3. Apart({p1} \cup {p2}, at2 + n2)
    BY <1>1, <1>2, OneMoreApart
  <1> QED
    BY <1>3

\* Nor do three.
LEMMA ApartThree ==
    ASSUME NEW p1, NEW at1, NEW n1, String(p1, at1, n1), at1 >= 2,
           NEW p2, NEW at2, NEW n2, String(p2, at2, n2), at2 >= at1 + n1,
           NEW p3, NEW at3, NEW n3, String(p3, at3, n3), at3 >= at2 + n2,
           NEW l, l = at3 + n3
    PROVE  Apart({p1, p2, p3}, l)
  <1>1. at2 + n2 \in Nat /\ at2 + n2 >= 2
    BY DEF String, Long
  <1>2. Apart({p1, p2}, at2 + n2)
    BY ApartTwo
  <1>3. Apart({p1, p2} \cup {p3}, at3 + n3)
    BY <1>1, <1>2, OneMoreApart
  <1> QED
    BY <1>3

\* Nor do four.
LEMMA ApartFour ==
    ASSUME NEW p1, NEW at1, NEW n1, String(p1, at1, n1), at1 >= 2,
           NEW p2, NEW at2, NEW n2, String(p2, at2, n2), at2 >= at1 + n1,
           NEW p3, NEW at3, NEW n3, String(p3, at3, n3), at3 >= at2 + n2,
           NEW p4, NEW at4, NEW n4, String(p4, at4, n4), at4 >= at3 + n3,
           NEW l, l = at4 + n4
    PROVE  Apart({p1, p2, p3, p4}, l)
  <1>1. at3 + n3 \in Nat /\ at3 + n3 >= 2
    BY DEF String, Long
  <1>2. Apart({p1, p2, p3}, at3 + n3)
    BY ApartThree
  <1>3. Apart({p1, p2, p3} \cup {p4}, at4 + n4)
    BY <1>1, <1>2, OneMoreApart
  <1> QED
    BY <1>3

\* Nor do five.
LEMMA ApartFive ==
    ASSUME NEW p1, NEW at1, NEW n1, String(p1, at1, n1), at1 >= 2,
           NEW p2, NEW at2, NEW n2, String(p2, at2, n2), at2 >= at1 + n1,
           NEW p3, NEW at3, NEW n3, String(p3, at3, n3), at3 >= at2 + n2,
           NEW p4, NEW at4, NEW n4, String(p4, at4, n4), at4 >= at3 + n3,
           NEW p5, NEW at5, NEW n5, String(p5, at5, n5), at5 >= at4 + n4,
           NEW l, l = at5 + n5
    PROVE  Apart({p1, p2, p3, p4, p5}, l)
  <1>1. at4 + n4 \in Nat /\ at4 + n4 >= 2
    BY DEF String, Long
  <1>2. Apart({p1, p2, p3, p4}, at4 + n4)
    BY ApartFour
  <1>3. Apart({p1, p2, p3, p4} \cup {p5}, at5 + n5)
    BY <1>1, <1>2, OneMoreApart
  <1> QED
    BY <1>3

\* Nor do six.
LEMMA ApartSix ==
    ASSUME NEW p1, NEW at1, NEW n1, String(p1, at1, n1), at1 >= 2,
           NEW p2, NEW at2, NEW n2, String(p2, at2, n2), at2 >= at1 + n1,
           NEW p3, NEW at3, NEW n3, String(p3, at3, n3), at3 >= at2 + n2,
           NEW p4, NEW at4, NEW n4, String(p4, at4, n4), at4 >= at3 + n3,
           NEW p5, NEW at5, NEW n5, String(p5, at5, n5), at5 >= at4 + n4,
           NEW p6, NEW at6, NEW n6, String(p6, at6, n6), at6 >= at5 + n5,
           NEW l, l = at6 + n6
    PROVE  Apart({p1, p2, p3, p4, p5, p6}, l)
  <1>1. at5 + n5 \in Nat /\ at5 + n5 >= 2
    BY DEF String, Long
  <1>2. Apart({p1, p2, p3, p4, p5}, at5 + n5)
    BY ApartFive
  <1>3. Apart({p1, p2, p3, p4, p5} \cup {p6}, at6 + n6)
    BY <1>1, <1>2, OneMoreApart
  <1> QED
    BY <1>3

\* Two strings one after the other are one.
LEMMA LongJoin ==
    ASSUME NEW s, NEW n, Long(s, n), NEW t, NEW k, Long(t, k)
    PROVE  /\ Long(s \o t, n + k)
           /\ \A b : \A at \in Nat :
                Holds(b, at, s \o t) => Holds(b, at, s) /\ Holds(b, at + n, t)
  <1>1. n \in Nat /\ k \in Nat /\ s \in Seq(Link!Byte) /\ Len(s) = n /\ t \in Seq(Link!Byte)
        /\ Len(t) = k
    BY DEF Long
  <1>2. s \o t \in Seq(Link!Byte) /\ Len(s \o t) = n + k
    BY <1>1, JoinedBytes
  <1>3. \A b : \A at \in Nat :
          Holds(b, at, s \o t) => Holds(b, at, s) /\ Holds(b, at + Len(s), t)
    BY <1>1, HoldsParts
  <1> QED
    BY <1>1, <1>2, <1>3 DEF Long

\* An integer is as many bytes as its width.
LEMMA LongInteger ==
    /\ \A v \in Link!Word : Long(Link!put_u16(v), 2)
    /\ \A v \in Link!u32 : Long(Link!put_u32(v), 4)
    /\ \A v \in Link!u64 : Long(Link!put_u64(v), 8)
  <1>1. ASSUME NEW v \in Link!Word PROVE Long(Link!put_u16(v), 2)
    BY Word16 DEF Long
  <1>2. ASSUME NEW v \in Link!u32 PROVE Long(Link!put_u32(v), 4)
    BY Word32 DEF Long
  <1>3. ASSUME NEW v \in Link!u64 PROVE Long(Link!put_u64(v), 8)
    BY Word64 DEF Long
  <1> QED
    BY <1>1, <1>2, <1>3

\* A string that ends with an integer.
LEMMA Join16 ==
    ASSUME NEW s, NEW n, Long(s, n), NEW v \in Link!Word, NEW k, k = n + 2
    PROVE  Long(s \o Link!put_u16(v), k)
  <1>1. Long(Link!put_u16(v), 2)
    BY LongInteger
  <1> QED
    BY <1>1, LongJoin

\* A string that ends in a word stands in a packet where its parts do.
LEMMA Split16 ==
    ASSUME NEW s, NEW n, Long(s, n), NEW v \in Link!Word,
           NEW b, NEW at \in Nat, Holds(b, at, s \o Link!put_u16(v)), NEW c, c = at + n
    PROVE  Holds(b, at, s) /\ Link!get_u16(b, c) = v
  <1>1. Long(Link!put_u16(v), 2)
    BY LongInteger
  <1>2. Holds(b, at, s) /\ Holds(b, at + n, Link!put_u16(v))
    BY <1>1, LongJoin
  <1>3. c \in Nat /\ Holds(b, c, Link!put_u16(v))
    BY <1>2 DEF Long
  <1> QED
    BY <1>2, <1>3, Read16

\* A 32-bit integer behind a string.
LEMMA Join32 ==
    ASSUME NEW s, NEW n, Long(s, n), NEW v \in Link!u32, NEW k, k = n + 4
    PROVE  Long(s \o Link!put_u32(v), k)
  <1>1. Long(Link!put_u32(v), 4)
    BY LongInteger
  <1> QED
    BY <1>1, LongJoin

\* The 32-bit integer behind a string is read back.
LEMMA Split32 ==
    ASSUME NEW s, NEW n, Long(s, n), NEW v \in Link!u32,
           NEW b, NEW at \in Nat, Holds(b, at, s \o Link!put_u32(v)), NEW c, c = at + n
    PROVE  Holds(b, at, s) /\ Link!get_u32(b, c) = v
  <1>1. Long(Link!put_u32(v), 4)
    BY LongInteger
  <1>2. Holds(b, at, s) /\ Holds(b, at + n, Link!put_u32(v))
    BY <1>1, LongJoin
  <1>3. c \in Nat /\ Holds(b, c, Link!put_u32(v))
    BY <1>2 DEF Long
  <1> QED
    BY <1>2, <1>3, Read32

\* A 64-bit integer behind a string.
LEMMA Join64 ==
    ASSUME NEW s, NEW n, Long(s, n), NEW v \in Link!u64, NEW k, k = n + 8
    PROVE  Long(s \o Link!put_u64(v), k)
  <1>1. Long(Link!put_u64(v), 8)
    BY LongInteger
  <1> QED
    BY <1>1, LongJoin

\* The 64-bit integer behind a string is read back.
LEMMA Split64 ==
    ASSUME NEW s, NEW n, Long(s, n), NEW v \in Link!u64,
           NEW b, NEW at \in Nat, Holds(b, at, s \o Link!put_u64(v)), NEW c, c = at + n
    PROVE  Holds(b, at, s) /\ Link!get_u64(b, c) = v
  <1>1. Long(Link!put_u64(v), 8)
    BY LongInteger
  <1>2. Holds(b, at, s) /\ Holds(b, at + n, Link!put_u64(v))
    BY <1>1, LongJoin
  <1>3. c \in Nat /\ Holds(b, c, Link!put_u64(v))
    BY <1>2 DEF Long
  <1> QED
    BY <1>2, <1>3, Read64

\* A packet holds the strings put into it and is zero elsewhere.
LEMMA PacketHolds ==
    ASSUME NEW name, NEW l \in Nat, Link!LengthOf(name) = l, l >= 2,
           Link!TagOf(name) \in Link!Byte,
           NEW puts, Apart(puts, l)
    PROVE  /\ Link!Packet(name, puts) \in [0 .. l - 1 -> Link!Byte]
           /\ Link!Packet(name, puts)[0] = Link!VERSION
           /\ Link!Packet(name, puts)[1] = Link!TagOf(name)
           /\ \A p \in puts : Holds(Link!Packet(name, puts), p[1], p[2])
           /\ \A i \in 2 .. l - 1 :
                (\A p \in puts : i < p[1] \/ i >= p[1] + Len(p[2])) =>
                    Link!Packet(name, puts)[i] = 0
  <1> DEFINE first == <<0, <<Link!VERSION, Link!TagOf(name)>>>>
             all == puts \cup {first}
             At(i) == {p \in all : i \in p[1] .. (p[1] + Len(p[2]) - 1)}
             b == Link!Packet(name, puts)
  <1>1. b = [i \in 0 .. (l - 1) |->
              IF At(i) = {} THEN 0
              ELSE LET p == CHOOSE p \in At(i) : TRUE IN p[2][i - p[1] + 1]]
    BY DEF Link!Packet
  <1>2. first[1] = 0 /\ Len(first[2]) = 2 /\ first[2][1] = Link!VERSION
        /\ first[2][2] = Link!TagOf(name)
    OBVIOUS
  <1>3. Link!VERSION \in Link!Byte /\ <<Link!VERSION, Link!TagOf(name)>> \in Seq(Link!Byte)
    BY DEF Link!VERSION, Link!Byte
  <1>4. first[2] \in Seq(Link!Byte)
    BY <1>3
  <1> HIDE DEF first, b
  <1>5. \A p \in all : p[1] \in Nat /\ p[2] \in Seq(Link!Byte) /\ Len(p[2]) \in Nat
        /\ p[1] + Len(p[2]) <= l
    <2> SUFFICES ASSUME NEW p \in all
                 PROVE  /\ p[1] \in Nat /\ p[2] \in Seq(Link!Byte) /\ Len(p[2]) \in Nat
                        /\ p[1] + Len(p[2]) <= l
      OBVIOUS
    <2>1. CASE p = first
      <3>1. first[1] \in Nat /\ first[1] + Len(first[2]) <= l /\ Len(first[2]) \in Nat
        BY <1>2
      <3> QED
        BY <1>4, <2>1, <3>1
    <2>2. CASE p \in puts
      BY <2>2 DEF Apart
    <2> QED
      BY <2>1, <2>2
  <1>6. \A p, q \in all : p = q \/ p[1] + Len(p[2]) <= q[1] \/ q[1] + Len(q[2]) <= p[1]
    <2>1. \A p, q \in puts : p = q \/ p[1] + Len(p[2]) <= q[1] \/ q[1] + Len(q[2]) <= p[1]
      BY DEF Apart
    <2>2. \A p \in puts : first[1] + Len(first[2]) <= p[1]
      BY <1>2 DEF Apart
    <2> QED
      BY <2>1, <2>2
  <1>7. ASSUME NEW p \in all, NEW i \in p[1] .. (p[1] + Len(p[2]) - 1)
        PROVE  i \in 0 .. l - 1 /\ b[i] = p[2][i - p[1] + 1]
    <2>1. p \in At(i)
      BY <1>7
    <2>2. ASSUME NEW q \in At(i) PROVE q = p
      <3>1. q \in all /\ i \in q[1] .. (q[1] + Len(q[2]) - 1)
        BY <2>2
      <3>2. /\ p[1] \in Nat /\ Len(p[2]) \in Nat /\ q[1] \in Nat /\ Len(q[2]) \in Nat
            /\ p = q \/ p[1] + Len(p[2]) <= q[1] \/ q[1] + Len(q[2]) <= p[1]
        BY <1>5, <1>6, <3>1
      <3>3. /\ i \in Int /\ p[1] <= i /\ i < p[1] + Len(p[2])
            /\ q[1] <= i /\ i < q[1] + Len(q[2])
        BY <1>7, <3>1, <3>2
      <3> QED
        BY <3>2, <3>3
    <2>3. (CHOOSE q \in At(i) : TRUE) = p
      BY <2>1, <2>2
    <2>4. i \in 0 .. l - 1
      BY <1>5, <1>7
    <2> HIDE DEF At
    <2> QED
      BY <1>1, <2>1, <2>3, <2>4
  <1>8. ASSUME NEW i \in 0 .. l - 1, At(i) = {} PROVE b[i] = 0
    BY <1>1, <1>8
  <1>9. ASSUME NEW i \in 0 .. l - 1 PROVE b[i] \in Link!Byte
    <2>1. CASE At(i) = {}
      BY <1>8, <2>1 DEF Link!Byte
    <2>2. CASE At(i) # {}
      <3>1. PICK p \in all : i \in p[1] .. (p[1] + Len(p[2]) - 1)
        BY <2>2
      <3>2. i - p[1] + 1 \in 1 .. Len(p[2])
        BY <1>5, <3>1
      <3>3. p[2] \in Seq(Link!Byte) /\ b[i] = p[2][i - p[1] + 1]
        BY <1>5, <1>7, <3>1
      <3> QED
        BY <3>2, <3>3
    <2> QED
      BY <2>1, <2>2
  <1>10. b \in [0 .. l - 1 -> Link!Byte]
    <2> HIDE DEF At
    <2>1. DOMAIN b = 0 .. l - 1 /\ b = [i \in 0 .. l - 1 |-> b[i]]
      BY <1>1
    <2> QED
      BY <1>9, <2>1
  <1>11. ASSUME NEW p \in all PROVE Holds(b, p[1], p[2])
    <2> SUFFICES ASSUME NEW k \in 1 .. Len(p[2]) PROVE b[p[1] + (k - 1)] = p[2][k]
      BY DEF Holds
    <2> DEFINE i == p[1] + (k - 1)
    <2>1. i \in p[1] .. (p[1] + Len(p[2]) - 1) /\ i - p[1] + 1 = k
      BY <1>5
    <2> QED
      BY <1>7, <2>1
  <1>12. b[0] = Link!VERSION /\ b[1] = Link!TagOf(name)
    <2>1. Holds(b, 0, first[2])
      BY <1>2, <1>11
    <2> QED
      BY <1>2, <2>1 DEF Holds
  <1>13. ASSUME NEW i \in 2 .. l - 1, \A p \in puts : i < p[1] \/ i >= p[1] + Len(p[2])
         PROVE  b[i] = 0
    <2>1. ASSUME NEW p \in all PROVE i \notin p[1] .. (p[1] + Len(p[2]) - 1)
      <3>1. p[1] \in Nat /\ Len(p[2]) \in Nat
        BY <1>5
      <3>2. i < p[1] \/ i >= p[1] + Len(p[2])
        <4>1. CASE p = first
          <5>1. p[1] = 0 /\ Len(p[2]) = 2
            BY <1>2, <4>1
          <5> QED
            BY <1>13, <5>1
        <4>2. CASE p \in puts
          BY <1>13, <4>2
        <4> QED
          BY <4>1, <4>2
      <3> QED
        BY <3>1, <3>2
    <2>2. At(i) = {} /\ i \in 0 .. l - 1
      BY <2>1
    <2> QED
      BY <1>8, <2>2
  <1> QED
    BY <1>10, <1>11, <1>12, <1>13 DEF b

\* The tags tell the messages apart, and every packet has room for its tag.
LEMMA Tags ==
    ASSUME Link!LinkAssumption
    PROVE  /\ \A name \in DOMAIN Link!Layout :
                Link!TagOf(name) \in Link!Byte /\ Link!LengthOf(name) \in Nat
                  /\ Link!LengthOf(name) >= 2
           /\ \A name, other \in DOMAIN Link!Layout : Link!TagOf(name) = Link!TagOf(other) =>
                name = other
  <1>1. EXTENSION_PARAM_CHUNK \in Nat
    BY DEF Link!LinkAssumption, Link!Byte
  <1>2. \A name \in DOMAIN Link!Layout : Link!LengthOf(name) \in Nat /\ Link!LengthOf(name) >= 2
    BY <1>1 DEF Link!Layout, Link!LengthOf
  <1>3. \A name \in DOMAIN Link!Layout : Link!TagOf(name) \in 1 .. 23
    BY DEF Link!Layout, Link!TagOf
  <1>4. ASSUME NEW name \in DOMAIN Link!Layout, NEW other \in DOMAIN Link!Layout,
               Link!TagOf(name) = Link!TagOf(other)
        PROVE  name = other
    BY <1>4 DEF Link!Layout, Link!TagOf
  <1> QED
    BY <1>2, <1>3, <1>4 DEF Link!Byte

\* The link counts as everyone does.
LEMMA LinkCardinality == \A S : Link!Cardinality(S) = Cardinality(S)
BY DEF Link!Cardinality, Cardinality

\* decode goes by the tag.
LEMMA DecodedByTag ==
    ASSUME Link!LinkAssumption, NEW name \in DOMAIN Link!Layout,
           NEW b \in [0 .. Link!LengthOf(name) - 1 -> Link!Byte], b[0] = Link!VERSION,
           b[1] = Link!TagOf(name)
    PROVE  Link!decode(b) = Link!DecodeArm(name, b)
  <1> DEFINE l == Link!LengthOf(name)
             names == {n \in DOMAIN Link!Layout : Link!TagOf(n) = b[1]}
  <1>1. l \in Nat /\ l >= 2
    BY Tags
  <1>2. Link!Cardinality(DOMAIN b) = l
    <2>1. DOMAIN b = 0 .. l - 1
      OBVIOUS
    <2> HIDE DEF l
    <2> QED
      BY <1>1, <2>1, FS_Interval, LinkCardinality
  <1>3. names = {name}
    BY Tags
  <1>4. names # {} /\ (CHOOSE n \in names : TRUE) = name
    BY <1>3
  <1>5. Link!decode(b) =
          IF l = 0 \/ b[0] # Link!VERSION THEN Link!Err("Version")
          ELSE IF l = 1 THEN Link!Err("Length")
          ELSE IF names = {} THEN Link!Err("Tag")
          ELSE IF l = Link!LengthOf(CHOOSE n \in names : TRUE)
               THEN Link!DecodeArm(CHOOSE n \in names : TRUE, b)
          ELSE Link!Err(IF (CHOOSE n \in names : TRUE) = "WakeLayers" THEN "Tag" ELSE "Length")
    BY <1>2 DEF Link!decode
  <1>6. l = Link!LengthOf(name)
    OBVIOUS
  <1> HIDE DEF l, names
  <1>7. l # 0 /\ l # 1
    BY <1>1
  <1>8. Link!decode(b) = Link!DecodeArm(CHOOSE n \in names : TRUE, b)
    BY <1>4, <1>5, <1>6, <1>7
  <1> QED
    BY <1>4, <1>8

\* What a packet made of these strings holds, and which arm reads it.
LEMMA Crossing ==
    ASSUME Link!LinkAssumption, NEW name \in DOMAIN Link!Layout,
           NEW puts, NEW l \in Nat, Apart(puts, l), l <= Link!LengthOf(name),
           NEW b, b = Link!Packet(name, puts)
    PROVE  /\ b \in BytePackets /\ Link!decode(b) = Link!DecodeArm(name, b)
           /\ \A p \in puts : Holds(b, p[1], p[2])
           /\ \A p \in puts : \A at, n : String(p, at, n) => Holds(b, at, p[2])
           /\ \A i \in 2 .. Link!LengthOf(name) - 1 :
                (\A p \in puts : i < p[1] \/ i >= p[1] + Len(p[2])) => b[i] = 0
  <1> DEFINE long == Link!LengthOf(name)
  <1>1. long \in Nat /\ long >= 2 /\ Link!TagOf(name) \in Link!Byte
    BY Tags
  <1>2. Apart(puts, long)
    <2>1. \A p \in puts : p[1] \in Nat /\ p[1] >= 2 /\ p[2] \in Seq(Link!Byte)
          /\ p[1] + Len(p[2]) <= l
      BY DEF Apart
    <2>2. ASSUME NEW p \in puts PROVE p[1] + Len(p[2]) <= long
      <3>1. p[1] \in Nat /\ Len(p[2]) \in Nat /\ p[1] + Len(p[2]) <= l
        BY <2>1
      <3> QED
        BY <1>1, <3>1
    <2> HIDE DEF long
    <2> QED
      BY <2>1, <2>2 DEF Apart
  <1>3. /\ b \in [0 .. long - 1 -> Link!Byte] /\ b[0] = Link!VERSION /\ b[1] = Link!TagOf(name)
        /\ \A p \in puts : Holds(b, p[1], p[2])
        /\ \A i \in 2 .. long - 1 :
             (\A p \in puts : i < p[1] \/ i >= p[1] + Len(p[2])) => b[i] = 0
    BY <1>1, <1>2, PacketHolds
  <1>4. Link!decode(b) = Link!DecodeArm(name, b)
    BY <1>3, DecodedByTag
  <1>5. b \in BytePackets
    BY <1>1, <1>3 DEF BytePackets
  <1>6. ASSUME NEW p \in puts, NEW at, NEW n, String(p, at, n) PROVE Holds(b, at, p[2])
    BY <1>3, <1>6 DEF String, Long
  <1> QED
    BY <1>3, <1>4, <1>5, <1>6

\* The heading of a transaction's packets.
LEMMA HeadingBytes ==
    ASSUME NEW m, m.generation \in Link!Byte, m.revision \in Link!u32
    PROVE  /\ String(Link!Heading(m), 2, 5)
           /\ \A b : Holds(b, 2, Link!Heading(m)[2]) =>
                b[2] = m.generation /\ Link!get_u32(b, 3) = m.revision
  <1> DEFINE g == <<m.generation>>
             r == Link!put_u32(m.revision)
  <1>1. g \in Seq(Link!Byte) /\ Len(g) = 1 /\ r \in Seq(Link!Byte) /\ Len(r) = 4
    BY Word32
  <1>2. Link!Heading(m) = <<2, g \o r>>
    BY DEF Link!Heading
  <1>3. ASSUME NEW b, Holds(b, 2, g \o r)
        PROVE  b[2] = m.generation /\ Link!get_u32(b, 3) = m.revision
    <2>1. Holds(b, 2, g) /\ Holds(b, 2 + Len(g), r)
      <3> HIDE DEF g, r
      <3> QED
        BY <1>1, <1>3, HoldsParts
    <2>2. b[2] = m.generation
      BY <2>1 DEF Holds
    <2>3. Holds(b, 3, r)
      BY <1>1, <2>1
    <2> QED
      BY <2>2, <2>3, Read32
  <1>4. g \o r \in Seq(Link!Byte) /\ Len(g \o r) = Len(g) + Len(r)
    <2> HIDE DEF g, r
    <2> QED
      BY <1>1, JoinedBytes
  <1> HIDE DEF g, r
  <1>5. String(Link!Heading(m), 2, 5)
    <2>1. Link!Heading(m)[1] = 2 /\ Link!Heading(m)[2] = g \o r
      BY <1>2
    <2> QED
      BY <1>1, <1>4, <2>1 DEF String, Long
  <1> QED
    BY <1>2, <1>3, <1>5

-----------------------------------------------------------------------------
(* The messages.                                                           *)

\* A flag is a bit of a byte.
LEMMA BitByte ==
    \A flagged \in BOOLEAN :
        /\ Link!Bit(flagged) \in Link!Byte /\ Link!Bit(flagged) \in {0, 1}
        /\ Link!FlagOK(Link!Bit(flagged))
        /\ Link!flag(Link!Bit(flagged)) = flagged
BY DEF Link!Bit, Link!Byte, Link!FlagOK, Link!flag

\* A commit arrives: its revision, then both of its counts.
LEMMA CommitArrives ==
    ASSUME Link!LinkAssumption, NEW m \in Link!Commits
    PROVE  Link!encode(m) \in BytePackets /\ Link!decode(Link!encode(m)) = m
  <1> DEFINE b == Link!encode(m)
             h == Link!Heading(m)
             p == <<7, <<m.cell_count, m.scene_count>>>>
  <1>1. /\ m.name = "Commit" /\ m.generation \in Link!Byte /\ m.revision \in Link!u32
        /\ m.cell_count \in Link!Byte /\ m.scene_count \in Link!Byte
        /\ m = [name |-> "Commit", generation |-> m.generation, revision |-> m.revision,
                cell_count |-> m.cell_count, scene_count |-> m.scene_count]
    BY DEF Link!Commits
  <1>2. b = Link!Packet("Commit", {h, p})
    BY <1>1 DEF Link!encode, Link!EncodeSmall
  <1>3. String(h, 2, 5) /\ String(p, 7, 2)
    BY <1>1, HeadingBytes DEF String, Long
  <1>4. "Commit" \in DOMAIN Link!Layout /\ Link!LengthOf("Commit") = 9
    BY DEF Link!Layout, Link!LengthOf
  <1> HIDE DEF b, h, p
  <1>5. Apart({h, p}, 9)
    BY <1>3, ApartTwo
  <1>6. /\ b \in BytePackets /\ Link!decode(b) = Link!DecodeArm("Commit", b)
        /\ Holds(b, 2, h[2]) /\ Holds(b, 7, p[2])
    BY <1>2, <1>3, <1>4, <1>5, Crossing
  <1>7. b[2] = m.generation /\ Link!get_u32(b, 3) = m.revision
    BY <1>1, <1>6, HeadingBytes DEF h
  <1>8. b[7] = m.cell_count /\ b[8] = m.scene_count
    BY <1>6 DEF Holds, p
  <1>9. Link!decode(b) = m
    BY <1>1, <1>6, <1>7, <1>8 DEF Link!DecodeArm, Link!DecodeSmall, Link!Headed
  <1> QED
    BY <1>6, <1>9 DEF b

\* An acknowledgement arrives.
LEMMA AckArrives ==
    ASSUME Link!LinkAssumption, NEW m \in Link!Acks
    PROVE  Link!encode(m) \in BytePackets /\ Link!decode(Link!encode(m)) = m
  <1> DEFINE b == Link!encode(m)
             h == Link!Heading(m)
  <1>1. /\ m.name = "Ack" /\ m.generation \in Link!Byte /\ m.revision \in Link!u32
        /\ m = [name |-> "Ack", generation |-> m.generation, revision |-> m.revision]
    BY DEF Link!Acks
  <1>2. b = Link!Packet("Ack", {h})
    BY <1>1 DEF Link!encode, Link!EncodeSmall
  <1>3. String(h, 2, 5)
    BY <1>1, HeadingBytes DEF String, Long
  <1>4. "Ack" \in DOMAIN Link!Layout /\ Link!LengthOf("Ack") = 7
    BY DEF Link!Layout, Link!LengthOf
  <1> HIDE DEF b, h
  <1>5. Apart({h}, 7)
    <2>1. \A p : String(p, 2, 5) => Apart({p}, 2 + 5)
      BY ApartOne
    <2> QED
      BY <1>3, <2>1
  <1>6. /\ b \in BytePackets /\ Link!decode(b) = Link!DecodeArm("Ack", b)
        /\ Holds(b, 2, h[2])
    BY <1>2, <1>3, <1>4, <1>5, Crossing
  <1>7. b[2] = m.generation /\ Link!get_u32(b, 3) = m.revision
    BY <1>1, <1>6, HeadingBytes DEF h
  <1>8. Link!decode(b) = m
    BY <1>1, <1>6, <1>7 DEF Link!DecodeArm, Link!DecodeSmall, Link!Headed
  <1> QED
    BY <1>6, <1>8 DEF b

\* The head of the conditional rules arrives with their count.
LEMMA RuleCountArrives ==
    ASSUME Link!LinkAssumption, NEW m \in Link!RuleCounts
    PROVE  Link!encode(m) \in BytePackets /\ Link!decode(Link!encode(m)) = m
  <1> DEFINE b == Link!encode(m)
             h == Link!Heading(m)
             p == <<7, <<m.cell_count>>>>
  <1>1. /\ m.name = "ConditionalSceneBegin" /\ m.generation \in Link!Byte
        /\ m.revision \in Link!u32
        /\ m.cell_count \in Link!Byte
        /\ m = [name |-> "ConditionalSceneBegin", generation |-> m.generation,
                revision |-> m.revision, cell_count |-> m.cell_count]
    BY DEF Link!RuleCounts
  <1>2. b = Link!Packet("ConditionalSceneBegin", {h, p})
    BY <1>1 DEF Link!encode, Link!EncodeSmall
  <1>3. String(h, 2, 5) /\ String(p, 7, 1)
    BY <1>1, HeadingBytes DEF String, Long
  <1>4. "ConditionalSceneBegin" \in DOMAIN Link!Layout
        /\ Link!LengthOf("ConditionalSceneBegin") = 8
    BY DEF Link!Layout, Link!LengthOf
  <1> HIDE DEF b, h, p
  <1>5. Apart({h, p}, 8)
    BY <1>3, ApartTwo
  <1>6. /\ b \in BytePackets /\ Link!decode(b) = Link!DecodeArm("ConditionalSceneBegin", b)
        /\ Holds(b, 2, h[2]) /\ Holds(b, 7, p[2])
    BY <1>2, <1>3, <1>4, <1>5, Crossing
  <1>7. b[2] = m.generation /\ Link!get_u32(b, 3) = m.revision
    BY <1>1, <1>6, HeadingBytes DEF h
  <1>8. b[7] = m.cell_count
    BY <1>6 DEF Holds, p
  <1>9. Link!decode(b) = m
    BY <1>1, <1>6, <1>7, <1>8 DEF Link!DecodeArm, Link!DecodeSmall, Link!Headed
  <1> QED
    BY <1>6, <1>9 DEF b

\* The wake layers arrive, all 64 bits of them.
LEMMA WakeLayersArrive ==
    ASSUME Link!LinkAssumption, NEW m \in Link!WakeLayers
    PROVE  Link!encode(m) \in BytePackets /\ Link!decode(Link!encode(m)) = m
  <1> DEFINE b == Link!encode(m)
             h == Link!Heading(m)
             p == <<7, Link!put_u64(m.wake_layers)>>
  <1>1. /\ m.name = "WakeLayers" /\ m.generation \in Link!Byte /\ m.revision \in Link!u32
        /\ m.wake_layers \in Link!u64
        /\ m = [name |-> "WakeLayers", generation |-> m.generation,
                revision |-> m.revision, wake_layers |-> m.wake_layers]
    BY DEF Link!WakeLayers
  <1>2. b = Link!Packet("WakeLayers", {h, p})
    BY <1>1 DEF Link!encode, Link!EncodeSmall
  <1>3. String(h, 2, 5) /\ String(p, 7, 8)
    BY <1>1, HeadingBytes, LongInteger DEF String, Long
  <1>4. "WakeLayers" \in DOMAIN Link!Layout /\ Link!LengthOf("WakeLayers") = 15
    BY DEF Link!Layout, Link!LengthOf
  <1> HIDE DEF b, h, p
  <1>5. Apart({h, p}, 15)
    BY <1>3, ApartTwo
  <1>6. /\ b \in BytePackets /\ Link!decode(b) = Link!DecodeArm("WakeLayers", b)
        /\ Holds(b, 2, h[2]) /\ Holds(b, 7, p[2])
    BY <1>2, <1>3, <1>4, <1>5, Crossing
  <1>7. b[2] = m.generation /\ Link!get_u32(b, 3) = m.revision
    BY <1>1, <1>6, HeadingBytes DEF h
  <1>8. Link!get_u64(b, 7) = m.wake_layers
    BY <1>1, <1>6, Read64 DEF p
  <1>9. Link!decode(b) = m
    BY <1>1, <1>6, <1>7, <1>8 DEF Link!DecodeArm, Link!DecodeSmall, Link!Headed
  <1> QED
    BY <1>6, <1>9 DEF b

\* A hit arrives with a slot that the board has.
LEMMA HitArrives ==
    ASSUME Link!LinkAssumption, NEW m \in Link!EffectHits
    PROVE  Link!encode(m) \in BytePackets /\ Link!decode(Link!encode(m)) = m
  <1> DEFINE b == Link!encode(m)
             p == <<2, <<m.slot>>>>
  <1>1. /\ m.name = "EffectHit" /\ m.slot \in 0 .. BoardLeds - 1
        /\ m = [name |-> "EffectHit", slot |-> m.slot]
    BY DEF Link!EffectHits
  <1>2. b = Link!Packet("EffectHit", {p})
    BY <1>1 DEF Link!encode, Link!EncodeSmall
  <1>0. m.slot \in Link!Byte /\ m.slot < BoardLeds
    BY <1>1 DEF Link!LinkAssumption, Link!Byte
  <1>3. String(p, 2, 1)
    BY <1>0 DEF String, Long
  <1>4. "EffectHit" \in DOMAIN Link!Layout /\ Link!LengthOf("EffectHit") = 3
    BY DEF Link!Layout, Link!LengthOf
  <1> HIDE DEF b, p
  <1>5. Apart({p}, 3)
    BY <1>3, ApartOne
  <1>6. /\ b \in BytePackets /\ Link!decode(b) = Link!DecodeArm("EffectHit", b)
        /\ Holds(b, 2, p[2])
    BY <1>2, <1>3, <1>4, <1>5, Crossing
  <1>7. b[2] = m.slot
    BY <1>6 DEF Holds, p
  <1>8. Link!decode(b) = m
    BY <1>0, <1>1, <1>6, <1>7 DEF Link!DecodeArm, Link!DecodeSmall
  <1> QED
    BY <1>6, <1>8 DEF b

\* A probe arrives.
LEMMA ProbeArrives ==
    ASSUME Link!LinkAssumption, NEW m \in Link!ReplicaProbes
    PROVE  Link!encode(m) \in BytePackets /\ Link!decode(Link!encode(m)) = m
  <1> DEFINE b == Link!encode(m)
             p == <<2, <<m.generation>>>>
  <1>1. /\ m.name = "ReplicaProbe" /\ m.generation \in Link!Byte
        /\ m = [name |-> "ReplicaProbe", generation |-> m.generation]
    BY DEF Link!ReplicaProbes
  <1>2. b = Link!Packet("ReplicaProbe", {p})
    BY <1>1 DEF Link!encode, Link!EncodeSmall
  <1>3. String(p, 2, 1)
    BY <1>1 DEF String, Long
  <1>4. "ReplicaProbe" \in DOMAIN Link!Layout /\ Link!LengthOf("ReplicaProbe") = 3
    BY DEF Link!Layout, Link!LengthOf
  <1> HIDE DEF b, p
  <1>5. Apart({p}, 3)
    BY <1>3, ApartOne
  <1>6. /\ b \in BytePackets /\ Link!decode(b) = Link!DecodeArm("ReplicaProbe", b)
        /\ Holds(b, 2, p[2])
    BY <1>2, <1>3, <1>4, <1>5, Crossing
  <1>7. b[2] = m.generation
    BY <1>6 DEF Holds, p
  <1>8. Link!decode(b) = m
    BY <1>1, <1>6, <1>7 DEF Link!DecodeArm, Link!DecodeSmall
  <1> QED
    BY <1>6, <1>8 DEF b

\* A status request arrives.
LEMMA StatusRequestArrives ==
    ASSUME Link!LinkAssumption, NEW m \in Link!StatusRequests
    PROVE  Link!encode(m) \in BytePackets /\ Link!decode(Link!encode(m)) = m
  <1> DEFINE b == Link!encode(m)
             p == <<2, <<m.request_id>>>>
  <1>1. /\ m.name = "StatusRequest" /\ m.request_id \in Link!Byte
        /\ m = [name |-> "StatusRequest", request_id |-> m.request_id]
    BY DEF Link!StatusRequests
  <1>2. b = Link!Packet("StatusRequest", {p})
    BY <1>1 DEF Link!encode, Link!EncodeSmall
  <1>3. String(p, 2, 1)
    BY <1>1 DEF String, Long
  <1>4. "StatusRequest" \in DOMAIN Link!Layout /\ Link!LengthOf("StatusRequest") = 3
    BY DEF Link!Layout, Link!LengthOf
  <1> HIDE DEF b, p
  <1>5. Apart({p}, 3)
    BY <1>3, ApartOne
  <1>6. /\ b \in BytePackets /\ Link!decode(b) = Link!DecodeArm("StatusRequest", b)
        /\ Holds(b, 2, p[2])
    BY <1>2, <1>3, <1>4, <1>5, Crossing
  <1>7. b[2] = m.request_id
    BY <1>6 DEF Holds, p
  <1>8. Link!decode(b) = m
    BY <1>1, <1>6, <1>7 DEF Link!DecodeArm, Link!DecodeSmall
  <1> QED
    BY <1>6, <1>8 DEF b

\* A transport status arrives with both of its flags.
LEMMA TransportStatusArrives ==
    ASSUME Link!LinkAssumption, NEW m \in Link!TransportStatuses
    PROVE  Link!encode(m) \in BytePackets /\ Link!decode(Link!encode(m)) = m
  <1> DEFINE b == Link!encode(m)
             p == <<2, <<Link!Bit(m.auto), Link!Bit(m.wired)>>>>
  <1>1. /\ m.name = "TransportStatus" /\ m.auto \in BOOLEAN /\ m.wired \in BOOLEAN
        /\ m = [name |-> "TransportStatus", auto |-> m.auto, wired |-> m.wired]
    BY DEF Link!TransportStatuses
  <1>2. b = Link!Packet("TransportStatus", {p})
    BY <1>1 DEF Link!encode, Link!EncodeSmall
  <1>3. String(p, 2, 2)
    BY <1>1, BitByte DEF String, Long
  <1>4. "TransportStatus" \in DOMAIN Link!Layout /\ Link!LengthOf("TransportStatus") = 4
    BY DEF Link!Layout, Link!LengthOf
  <1> HIDE DEF b, p
  <1>5. Apart({p}, 4)
    BY <1>3, ApartOne
  <1>6. /\ b \in BytePackets /\ Link!decode(b) = Link!DecodeArm("TransportStatus", b)
        /\ Holds(b, 2, p[2])
    BY <1>2, <1>3, <1>4, <1>5, Crossing
  <1>7. b[2] = Link!Bit(m.auto) /\ b[3] = Link!Bit(m.wired)
    BY <1>6 DEF Holds, p
  <1>8. /\ Link!FlagOK(b[2]) /\ Link!FlagOK(b[3])
        /\ Link!flag(b[2]) = m.auto /\ Link!flag(b[3]) = m.wired
    BY <1>1, <1>7, BitByte
  <1>9. Link!decode(b) = m
    BY <1>1, <1>6, <1>7, <1>8 DEF Link!DecodeArm, Link!DecodeSmall, Link!Checked
  <1> QED
    BY <1>6, <1>9 DEF b

-----------------------------------------------------------------------------
(* What the fields are packed into.                                        *)

\* A name and its code.
LEMMA CodeOfName ==
    ASSUME NEW names, NEW n \in 1 .. 128, DOMAIN names = 1 .. n, Len(names) = n,
           \A i, j \in 1 .. n : names[i] = names[j] => i = j,
           NEW x \in Link!Range(names)
    PROVE  /\ Link!Code(names, x) \in 0 .. n - 1 /\ Link!Name(names, Link!Code(names, x)) = x
           /\ Link!Known(names, Link!Code(names, x))
  <1>1. PICK i \in 1 .. n : names[i] = x
    BY DEF Link!Range
  <1>2. (CHOOSE j \in DOMAIN names : names[j] = x) = i
    BY <1>1
  <1>3. Link!Code(names, x) = i - 1
    BY <1>2 DEF Link!Code
  <1>4. i - 1 \in 0 .. n - 1 /\ (i - 1) + 1 = i /\ i - 1 < n
    BY <1>1
  <1> QED
    BY <1>1, <1>3, <1>4 DEF Link!Name, Link!Known

\* A scene policy is read back from its code.
LEMMA PolicyCode ==
    ASSUME NEW x \in Link!Range(Link!Policies)
    PROVE  /\ Link!Code(Link!Policies, x) \in 0 .. 1
           /\ Link!Name(Link!Policies, Link!Code(Link!Policies, x)) = x
           /\ Link!Known(Link!Policies, Link!Code(Link!Policies, x))
  <1>1. /\ DOMAIN Link!Policies = 1 .. 2 /\ Len(Link!Policies) = 2
        /\ \A i, j \in 1 .. 2 : Link!Policies[i] = Link!Policies[j] => i = j
    BY DEF Link!Policies
  <1>2. 2 \in 1 .. 128 /\ 2 - 1 = 1
    OBVIOUS
  <1> QED
    BY <1>1, <1>2, CodeOfName

\* An output mode is read back from its code, which is no absent one.
LEMMA OutputModeCode ==
    ASSUME NEW x \in Link!Range(Link!OutputModes)
    PROVE  /\ Link!Code(Link!OutputModes, x) \in 0 .. 2
           /\ Link!Name(Link!OutputModes, Link!Code(Link!OutputModes, x)) = x
           /\ Link!Known(Link!OutputModes, Link!Code(Link!OutputModes, x))
  <1>1. /\ DOMAIN Link!OutputModes = 1 .. 3 /\ Len(Link!OutputModes) = 3
        /\ \A i, j \in 1 .. 3 : Link!OutputModes[i] = Link!OutputModes[j] => i = j
    BY DEF Link!OutputModes
  <1>2. 3 \in 1 .. 128 /\ 3 - 1 = 2
    OBVIOUS
  <1> QED
    BY <1>1, <1>2, CodeOfName

\* A charge condition is read back from its code.
LEMMA ChargeCode ==
    ASSUME NEW x \in Link!Range(Link!ChargeConditions)
    PROVE  /\ Link!Code(Link!ChargeConditions, x) \in 0 .. 3
           /\ Link!Name(Link!ChargeConditions, Link!Code(Link!ChargeConditions, x)) = x
           /\ Link!Code(Link!ChargeConditions, x) = 3 => x = "Unknown"
  <1>1. /\ DOMAIN Link!ChargeConditions = 1 .. 4 /\ Len(Link!ChargeConditions) = 4
        /\ \A i, j \in 1 .. 4 : Link!ChargeConditions[i] = Link!ChargeConditions[j] => i = j
        /\ Link!ChargeConditions[4] = "Unknown"
    BY DEF Link!ChargeConditions
  <1>2. 4 \in 1 .. 128 /\ 4 - 1 = 3
    OBVIOUS
  <1>3. /\ Link!Code(Link!ChargeConditions, x) \in 0 .. 3
        /\ Link!Name(Link!ChargeConditions, Link!Code(Link!ChargeConditions, x)) = x
    BY <1>1, <1>2, CodeOfName
  <1> QED
    BY <1>1, <1>3 DEF Link!Name

\* A battery state is read back from its code.
LEMMA BatteryCode ==
    ASSUME NEW x \in Link!Range(Link!BatteryStates)
    PROVE  /\ Link!Code(Link!BatteryStates, x) \in 0 .. 3
           /\ Link!Name(Link!BatteryStates, Link!Code(Link!BatteryStates, x)) = x
           /\ Link!Known(Link!BatteryStates, Link!Code(Link!BatteryStates, x))
           /\ Link!Code(Link!BatteryStates, x) = 0 => x = "Unavailable"
  <1>1. /\ DOMAIN Link!BatteryStates = 1 .. 4 /\ Len(Link!BatteryStates) = 4
        /\ \A i, j \in 1 .. 4 : Link!BatteryStates[i] = Link!BatteryStates[j] => i = j
        /\ Link!BatteryStates[1] = "Unavailable"
    BY DEF Link!BatteryStates
  <1>2. 4 \in 1 .. 128 /\ 4 - 1 = 3
    OBVIOUS
  <1>3. /\ Link!Code(Link!BatteryStates, x) \in 0 .. 3
        /\ Link!Name(Link!BatteryStates, Link!Code(Link!BatteryStates, x)) = x
        /\ Link!Known(Link!BatteryStates, Link!Code(Link!BatteryStates, x))
    BY <1>1, <1>2, CodeOfName
  <1> QED
    BY <1>1, <1>3 DEF Link!Name

\* A transport is read back from its two bits.
LEMMA TransportCode ==
    ASSUME NEW x \in Link!Range(Link!Transports)
    PROVE  /\ Link!Code(Link!Transports, x) \in 0 .. 2
           /\ Link!Name(Link!Transports, Link!Code(Link!Transports, x)) = x
           /\ Link!Known(Link!Transports, Link!Code(Link!Transports, x))
  <1>1. /\ DOMAIN Link!Transports = 1 .. 3 /\ Len(Link!Transports) = 3
        /\ \A i, j \in 1 .. 3 : Link!Transports[i] = Link!Transports[j] => i = j
    BY DEF Link!Transports
  <1>2. 3 \in 1 .. 128 /\ 3 - 1 = 2
    OBVIOUS
  <1> QED
    BY <1>1, <1>2, CodeOfName

\* A BLE state is read back from its two bits.
LEMMA BleCode ==
    ASSUME NEW x \in Link!Range(Link!BleStates)
    PROVE  /\ Link!Code(Link!BleStates, x) \in 0 .. 2
           /\ Link!Name(Link!BleStates, Link!Code(Link!BleStates, x)) = x
           /\ Link!Known(Link!BleStates, Link!Code(Link!BleStates, x))
  <1>1. /\ DOMAIN Link!BleStates = 1 .. 3 /\ Len(Link!BleStates) = 3
        /\ \A i, j \in 1 .. 3 : Link!BleStates[i] = Link!BleStates[j] => i = j
    BY DEF Link!BleStates
  <1>2. 3 \in 1 .. 128 /\ 3 - 1 = 2
    OBVIOUS
  <1> QED
    BY <1>1, <1>2, CodeOfName

\* The bits of a byte that is made of flags.
LEMMA BitOf ==
    \A x \in BOOLEAN : /\ Link!Bit(x) \in {0, 1} /\ Link!Bit(x) = 1 <=> x
BY DEF Link!Bit

\* The two flags of a background are read back from their byte.
LEMMA BackgroundBits ==
    ASSUME NEW on \in BOOLEAN, NEW breathes \in BOOLEAN,
           NEW byte, byte = Link!Bit(on) + 128 * Link!Bit(breathes)
    PROVE  byte \in Link!Byte /\ (byte % 128 # 0) = on /\ Link!HasBit(byte, 7) = breathes
  <1>1. 2^7 = 128
    OBVIOUS
  <1>2. PICK i, j \in {0, 1} : byte = i + 128 * j /\ (i = 1) = on /\ (j = 1) = breathes
    BY DEF Link!Bit
  <1>3. byte % 128 = i /\ byte \div 128 = j /\ j % 2 = j
    BY <1>2
  <1>4. byte \in Link!Byte
    BY <1>2 DEF Link!Byte
  <1> QED
    BY <1>1, <1>2, <1>3, <1>4 DEF Link!HasBit

\* Three flags ored into a byte are read back.
LEMMA FlagBits ==
    ASSUME NEW x \in BOOLEAN, NEW y \in BOOLEAN, NEW z \in BOOLEAN,
           NEW byte, byte = Link!Flags(x, y, z)
    PROVE  /\ byte \in Link!Byte /\ byte < 8
           /\ Link!HasBit(byte, 0) = x /\ Link!HasBit(byte, 1) = y /\ Link!HasBit(byte, 2) = z
  <1>1. 2^0 = 1 /\ 2^1 = 2 /\ 2^2 = 4
    OBVIOUS
  <1>2. PICK i, j, k \in {0, 1} :
          /\ byte = i + 2 * j + 4 * k
          /\ (i = 1) = x /\ (j = 1) = y /\ (k = 1) = z
    BY DEF Link!Flags, Link!Bit
  <1>3. byte \in Link!Byte /\ byte < 8
    BY <1>2 DEF Link!Byte
  <1>4. (byte \div 1) % 2 = i /\ (byte \div 2) % 2 = j /\ (byte \div 4) % 2 = k
    BY <1>2
  <1> QED
    BY <1>1, <1>2, <1>3, <1>4 DEF Link!HasBit

\* The five indicators are read back from their byte.
LEMMA IndicatorBits ==
    ASSUME NEW lit \in SUBSET Link!Range(Link!Indicators), NEW byte, byte = Link!indicators(lit)
    PROVE  byte \in Link!Byte /\ Link!get_indicators(byte) = lit
  <1>1. 2^0 = 1 /\ 2^1 = 2 /\ 2^2 = 4 /\ 2^3 = 8 /\ 2^4 = 16
    OBVIOUS
  <1>2. PICK i, j, k, l, m \in {0, 1} :
          /\ byte = i + 2 * j + 4 * k + 8 * l + 16 * m
          /\ i = 1 <=> Link!Indicators[1] \in lit
          /\ j = 1 <=> Link!Indicators[2] \in lit
          /\ k = 1 <=> Link!Indicators[3] \in lit
          /\ l = 1 <=> Link!Indicators[4] \in lit
          /\ m = 1 <=> Link!Indicators[5] \in lit
    BY DEF Link!indicators, Link!Bit
  <1>3. byte \in Link!Byte
    BY <1>2 DEF Link!Byte
  <1>4. /\ (byte \div 1) % 2 = i /\ (byte \div 2) % 2 = j /\ (byte \div 4) % 2 = k
        /\ (byte \div 8) % 2 = l /\ (byte \div 16) % 2 = m
    BY <1>2
  <1>5. \A n \in 1 .. 5 : Link!HasBit(byte, n - 1) <=> Link!Indicators[n] \in lit
    <2>1. /\ Link!HasBit(byte, 0) <=> Link!Indicators[1] \in lit
          /\ Link!HasBit(byte, 1) <=> Link!Indicators[2] \in lit
          /\ Link!HasBit(byte, 2) <=> Link!Indicators[3] \in lit
          /\ Link!HasBit(byte, 3) <=> Link!Indicators[4] \in lit
          /\ Link!HasBit(byte, 4) <=> Link!Indicators[5] \in lit
      BY <1>1, <1>2, <1>4 DEF Link!HasBit
    <2> TAKE n \in 1 .. 5
    <2>2. n = 1 \/ n = 2 \/ n = 3 \/ n = 4 \/ n = 5
      OBVIOUS
    <2> QED
      BY <2>1, <2>2
  <1>6. DOMAIN Link!Indicators = 1 .. 5
    BY DEF Link!Indicators
  <1> QED
    BY <1>3, <1>5, <1>6 DEF Link!get_indicators, Link!Range

\* A battery status is two bytes, an absent level among them.
LEMMA BatteryBytes ==
    ASSUME Link!LinkAssumption, NEW status \in Link!BatteryStatus
    PROVE  /\ Long(Link!put_battery(status), 2)
           /\ \A b : \A at \in Nat : Holds(b, at, Link!put_battery(status)) =>
                Link!get_battery(b, at) = status /\ Link!BatteryOK(b, at)
  <1> DEFINE c == Link!Code(Link!BatteryStates, status.state)
             v == Link!OrElse(status.level, Link!MAX)
  <1>1. /\ status.state \in Link!Range(Link!BatteryStates)
        /\ status.level \in Link!Maybe(0 .. 100)
        /\ status = [state |-> status.state, level |-> status.level]
        /\ status.state = "Unavailable" => status.level = None
    <2>1. "Unavailable" \in Link!Range(Link!BatteryStates)
      <3>1. 1 \in DOMAIN Link!BatteryStates /\ Link!BatteryStates[1] = "Unavailable"
        BY DEF Link!BatteryStates
      <3> QED
        BY <3>1 DEF Link!Range
    <2> QED
      BY <2>1 DEF Link!BatteryStatus, Link!Maybe
  <1>2. /\ c \in 0 .. 3 /\ Link!Name(Link!BatteryStates, c) = status.state
        /\ Link!Known(Link!BatteryStates, c) /\ (c = 0 => status.state = "Unavailable")
    BY <1>1, BatteryCode
  <1>3. Link!MAX = 255 /\ None \notin 0 .. 255
    BY DEF Link!MAX, Link!LinkAssumption, Link!Byte
  <1>4. v \in (0 .. 100) \cup {255} /\ Link!Unless(v, Link!MAX) = status.level
        /\ (status.level = None => v = 255)
    BY <1>1, <1>3 DEF Link!OrElse, Link!Unless, Link!Maybe
  <1>5. Link!put_battery(status) = <<c, v>>
    BY DEF Link!put_battery
  <1> HIDE DEF c, v
  <1>6. c \in Link!Byte /\ v \in Link!Byte
    BY <1>2, <1>4 DEF Link!Byte
  <1>7. Long(<<c, v>>, 2)
    BY <1>6 DEF Long
  <1>8. ASSUME NEW b, NEW at \in Nat, Holds(b, at, <<c, v>>)
        PROVE  Link!get_battery(b, at) = status /\ Link!BatteryOK(b, at)
    <2>1. b[at] = c /\ b[at + 1] = v
      BY <1>8 DEF Holds
    <2>2. Link!get_battery(b, at) = status
      BY <1>1, <1>2, <1>4, <2>1 DEF Link!get_battery
    <2>3. v \in (0 .. 100) \cup {Link!MAX} /\ (c = 0 => v = Link!MAX)
      BY <1>1, <1>2, <1>3, <1>4
    <2> QED
      BY <1>2, <2>1, <2>2, <2>3 DEF Link!BatteryOK
  <1> QED
    BY <1>5, <1>7, <1>8

\* An absent revision is sent as zero behind a flag.
LEMMA AbsentRevision ==
    ASSUME Link!LinkAssumption, NEW r \in Link!Maybe(Link!u32)
    PROVE  /\ Link!OrElse(r, <<0, 0>>) \in Link!u32
           /\ Link!Bit(r # None) \in Link!Byte /\ Link!FlagOK(Link!Bit(r # None))
           /\ r = (IF Link!flag(Link!Bit(r # None)) THEN Link!OrElse(r, <<0, 0>>) ELSE None)
  <1>1. 0 \in Link!Word
    <2>1. Link!MAX = 255 /\ 256 * Link!MAX + Link!MAX \in Nat
      BY DEF Link!MAX
    <2> QED
      BY <2>1 DEF Link!Word
  <1>2. <<0, 0>> \in Link!u32
    BY <1>1 DEF Link!u32
  <1> QED
    BY <1>2 DEF Link!OrElse, Link!Maybe, Link!Bit, Link!Byte, Link!FlagOK, Link!flag

\* An attestation arrives: four digests and the revision they are of.
LEMMA AttestationArrives ==
    ASSUME Link!LinkAssumption, NEW m \in Link!Attestations
    PROVE  Link!encode(m) \in BytePackets /\ Link!decode(Link!encode(m)) = m
  <1> DEFINE b == Link!encode(m)
             p0 == <<m.generation, m.schema>>
             p1 == p0 \o Link!put_u32(m.revision)
             p2 == p1 \o Link!put_u32(m.settings)
             p3 == p2 \o Link!put_u32(m.overlay)
             p4 == p3 \o Link!put_u32(m.scenes)
             p5 == p4 \o Link!put_u32(m.conditional_scenes)
             p == <<2, p5>>
             puts == {p}
  <1>1. /\ m.name = "Attestation" /\ m.generation \in Link!Byte /\ m.schema \in Link!Byte
        /\ m.revision \in Link!u32 /\ m.settings \in Link!u32 /\ m.overlay \in Link!u32
        /\ m.scenes \in Link!u32 /\ m.conditional_scenes \in Link!u32
    BY DEF Link!Attestations
  <1>2. m = [name |-> "Attestation", generation |-> m.generation,
              schema |-> m.schema, revision |-> m.revision, settings |-> m.settings,
              overlay |-> m.overlay, scenes |-> m.scenes,
              conditional_scenes |-> m.conditional_scenes]
    BY DEF Link!Attestations
  <1>3. b = Link!Packet("Attestation", puts)
    BY <1>1 DEF Link!encode, Link!EncodeAttestation
  <1>4. Long(p0, 2)
    BY <1>1 DEF Long
  <1>5. p[1] = 2 /\ p[2] = p5
    OBVIOUS
  <1>6. p1 = p0 \o Link!put_u32(m.revision)
    OBVIOUS
  <1>7. p2 = p1 \o Link!put_u32(m.settings)
    OBVIOUS
  <1>8. p3 = p2 \o Link!put_u32(m.overlay)
    OBVIOUS
  <1>9. p4 = p3 \o Link!put_u32(m.scenes)
    OBVIOUS
  <1>10. p5 = p4 \o Link!put_u32(m.conditional_scenes)
    OBVIOUS
  <1>11. puts = {p}
    OBVIOUS
  <1>12. "Attestation" \in DOMAIN Link!Layout /\ Link!LengthOf("Attestation") = 24
    BY DEF Link!Layout, Link!LengthOf
  <1> HIDE DEF b, p0, p1, p2, p3, p4, p5, p, puts
  <1>13. Long(p1, 6)
    BY <1>1, <1>6, <1>4, Join32
  <1>14. Long(p2, 10)
    BY <1>1, <1>7, <1>13, Join32
  <1>15. Long(p3, 14)
    BY <1>1, <1>8, <1>14, Join32
  <1>16. Long(p4, 18)
    BY <1>1, <1>9, <1>15, Join32
  <1>17. Long(p5, 22)
    BY <1>1, <1>10, <1>16, Join32
  <1>18. String(p, 2, 22)
    BY <1>5, <1>17 DEF String
  <1>19. Apart({p}, 2 + 22)
    BY <1>18, ApartOne
  <1>20. Apart(puts, 24)
    BY <1>11, <1>19
  <1>21. /\ b \in BytePackets /\ Link!decode(b) = Link!DecodeArm("Attestation", b)
         /\ \A w \in puts : Holds(b, w[1], w[2])
    BY <1>3, <1>12, <1>20, Crossing
  <1>22. Holds(b, 2, p5)
    BY <1>5, <1>11, <1>21
  <1>23. Holds(b, 2, p4) /\ Link!get_u32(b, 20) = m.conditional_scenes
    BY <1>1, <1>10, <1>16, <1>22, Split32
  <1>24. Holds(b, 2, p3) /\ Link!get_u32(b, 16) = m.scenes
    BY <1>1, <1>9, <1>15, <1>23, Split32
  <1>25. Holds(b, 2, p2) /\ Link!get_u32(b, 12) = m.overlay
    BY <1>1, <1>8, <1>14, <1>24, Split32
  <1>26. Holds(b, 2, p1) /\ Link!get_u32(b, 8) = m.settings
    BY <1>1, <1>7, <1>13, <1>25, Split32
  <1>27. Holds(b, 2, p0) /\ Link!get_u32(b, 4) = m.revision
    BY <1>1, <1>6, <1>4, <1>26, Split32
  <1>28. b[2] = m.generation /\ b[3] = m.schema
    BY <1>27 DEF Holds, p0
  <1>29. Link!decode(b) = m
    BY <1>1, <1>2, <1>21, <1>23, <1>24, <1>25, <1>26, <1>27, <1>28 DEF Link!DecodeArm,
       Link!DecodeAttestation
  <1> QED
    BY <1>21, <1>29 DEF b

\* A debug trace arrives: six integers in one string.
LEMMA DebugTraceArrives ==
    ASSUME Link!LinkAssumption, NEW m \in Link!DebugTraces
    PROVE  Link!encode(m) \in BytePackets /\ Link!decode(Link!encode(m)) = m
  <1> DEFINE b == Link!encode(m)
             p0 == Link!put_u32(m.stage)
             p1 == p0 \o Link!put_u32(m.boots)
             p2 == p1 \o Link!put_u32(m.rr[1])
             p3 == p2 \o Link!put_u32(m.rr[2])
             p4 == p3 \o Link!put_u32(m.cause[1])
             p5 == p4 \o Link!put_u32(m.cause[2])
             p == <<2, p5>>
             puts == {p}
  <1>1. /\ m.name = "DebugTrace" /\ m.stage \in Link!u32 /\ m.boots \in Link!u32
        /\ m.rr \in Link!u32 \X Link!u32 /\ m.cause \in Link!u32 \X Link!u32
    BY DEF Link!DebugTraces
  <1>2. m = [name |-> "DebugTrace", stage |-> m.stage, boots |-> m.boots,
              rr |-> m.rr, cause |-> m.cause]
    BY DEF Link!DebugTraces
  <1>3. b = Link!Packet("DebugTrace", puts)
    BY <1>1 DEF Link!encode, Link!EncodeSmall
  <1>4. /\ m.rr[1] \in Link!u32 /\ m.rr[2] \in Link!u32 /\ m.rr = <<m.rr[1], m.rr[2]>>
        /\ m.cause[1] \in Link!u32 /\ m.cause[2] \in Link!u32
        /\ m.cause = <<m.cause[1], m.cause[2]>>
    BY <1>1
  <1>5. Long(p0, 4)
    BY <1>1, <1>4, LongInteger DEF Long
  <1>6. p[1] = 2 /\ p[2] = p5
    OBVIOUS
  <1>7. p1 = p0 \o Link!put_u32(m.boots)
    OBVIOUS
  <1>8. p2 = p1 \o Link!put_u32(m.rr[1])
    OBVIOUS
  <1>9. p3 = p2 \o Link!put_u32(m.rr[2])
    OBVIOUS
  <1>10. p4 = p3 \o Link!put_u32(m.cause[1])
    OBVIOUS
  <1>11. p5 = p4 \o Link!put_u32(m.cause[2])
    OBVIOUS
  <1>12. puts = {p}
    OBVIOUS
  <1>13. "DebugTrace" \in DOMAIN Link!Layout /\ Link!LengthOf("DebugTrace") = 26
    BY DEF Link!Layout, Link!LengthOf
  <1> HIDE DEF b, p0, p1, p2, p3, p4, p5, p, puts
  <1>14. Long(p1, 8)
    BY <1>1, <1>4, <1>7, <1>5, Join32
  <1>15. Long(p2, 12)
    BY <1>1, <1>4, <1>8, <1>14, Join32
  <1>16. Long(p3, 16)
    BY <1>1, <1>4, <1>9, <1>15, Join32
  <1>17. Long(p4, 20)
    BY <1>1, <1>4, <1>10, <1>16, Join32
  <1>18. Long(p5, 24)
    BY <1>1, <1>4, <1>11, <1>17, Join32
  <1>19. String(p, 2, 24)
    BY <1>6, <1>18 DEF String
  <1>20. Apart({p}, 2 + 24)
    BY <1>19, ApartOne
  <1>21. Apart(puts, 26)
    BY <1>12, <1>20
  <1>22. /\ b \in BytePackets /\ Link!decode(b) = Link!DecodeArm("DebugTrace", b)
         /\ \A w \in puts : Holds(b, w[1], w[2])
    BY <1>3, <1>13, <1>21, Crossing
  <1>23. Holds(b, 2, p5)
    BY <1>6, <1>12, <1>22
  <1>24. Holds(b, 2, p4) /\ Link!get_u32(b, 22) = m.cause[2]
    BY <1>1, <1>4, <1>11, <1>17, <1>23, Split32
  <1>25. Holds(b, 2, p3) /\ Link!get_u32(b, 18) = m.cause[1]
    BY <1>1, <1>4, <1>10, <1>16, <1>24, Split32
  <1>26. Holds(b, 2, p2) /\ Link!get_u32(b, 14) = m.rr[2]
    BY <1>1, <1>4, <1>9, <1>15, <1>25, Split32
  <1>27. Holds(b, 2, p1) /\ Link!get_u32(b, 10) = m.rr[1]
    BY <1>1, <1>4, <1>8, <1>14, <1>26, Split32
  <1>28. Holds(b, 2, p0) /\ Link!get_u32(b, 6) = m.boots
    BY <1>1, <1>4, <1>7, <1>5, <1>27, Split32
  <1>29. Link!get_u32(b, 2) = m.stage
    BY <1>1, <1>4, <1>28, Read32 DEF p0
  <1>30. Link!decode(b) = m
    BY <1>1, <1>4, <1>2, <1>22, <1>24, <1>25, <1>26, <1>27, <1>28, <1>29 DEF Link!DecodeArm,
       Link!DecodeSmall
  <1> QED
    BY <1>22, <1>30 DEF b

\* The head of a transfer arrives: the clock, the background's packed byte and
\* both enumerations included.
LEMMA BeginArrives ==
    ASSUME Link!LinkAssumption, NEW m \in Link!Begins
    PROVE  Link!encode(m) \in BytePackets /\ Link!decode(Link!encode(m)) = m
  <1> DEFINE b == Link!encode(m)
             h == Link!Heading(m)
             p0 == <<m.cell_count>>
             p == <<7, p0>>
             q0 == Link!put_u64(m.sample_time_ms)
             q == <<8, q0>>
             r0 == <<Link!Bit(m.output_enabled), m.output_brightness,
               Link!Bit(m.background.enabled) + 128 * Link!Bit(m.background.breathe),
               m.background.hue, m.background.saturation, m.background.value, m.background.speed>>
             r == <<16, r0>>
             s0 == <<m.scene_count, Link!Code(Link!Policies, m.scene_policy),
               Link!Code(Link!OutputModes, m.output_mode)>>
             s == <<23, s0>>
             puts == {h, p, q, r, s}
  <1>1. /\ m.name = "Begin" /\ m.generation \in Link!Byte /\ m.revision \in Link!u32
        /\ m.cell_count \in Link!Byte /\ m.scene_count \in Link!Byte
        /\ m.scene_policy \in Link!Range(Link!Policies) /\ m.sample_time_ms \in Link!u64
        /\ m.output_enabled \in BOOLEAN /\ m.output_brightness \in Link!Byte
        /\ m.background \in Link!BackgroundState /\ m.output_mode \in Link!Range(Link!OutputModes)
    BY DEF Link!Begins
  <1>2. m = [name |-> "Begin", generation |-> m.generation, revision |-> m.revision,
              cell_count |-> m.cell_count, scene_count |-> m.scene_count,
              scene_policy |-> m.scene_policy, sample_time_ms |-> m.sample_time_ms,
              output_enabled |-> m.output_enabled,
              output_brightness |-> m.output_brightness, background |-> m.background,
              output_mode |-> m.output_mode]
    BY DEF Link!Begins
  <1>3. b = Link!Packet("Begin", puts)
    BY <1>1 DEF Link!encode, Link!EncodeBegin
  <1>4. /\ m.background.enabled \in BOOLEAN /\ m.background.breathe \in BOOLEAN
        /\ m.background.hue \in Link!Byte /\ m.background.saturation \in Link!Byte
        /\ m.background.value \in Link!Byte /\ m.background.speed \in Link!Byte
        /\ m.background = [enabled |-> m.background.enabled, breathe |-> m.background.breathe,
                            hue |-> m.background.hue, saturation |-> m.background.saturation,
                            value |-> m.background.value, speed |-> m.background.speed]
    BY <1>1 DEF Link!BackgroundState
  <1>5. /\ Link!Code(Link!Policies, m.scene_policy) \in Link!Byte
        /\ Link!Code(Link!OutputModes, m.output_mode) \in Link!Byte
        /\ Link!Bit(m.output_enabled) \in Link!Byte
    BY <1>1, PolicyCode, OutputModeCode, BitByte DEF Link!Byte
  <1>6. Link!Bit(m.background.enabled) + 128 * Link!Bit(m.background.breathe) \in Link!Byte
    BY <1>4, BackgroundBits
  <1>7. Long(p0, 1)
    BY <1>1, <1>4, <1>5, <1>6, LongInteger DEF Long
  <1>8. Long(q0, 8)
    BY <1>1, <1>4, <1>5, <1>6, LongInteger DEF Long
  <1>9. Long(r0, 7)
    BY <1>1, <1>4, <1>5, <1>6, LongInteger DEF Long
  <1>10. Long(s0, 3)
    BY <1>1, <1>4, <1>5, <1>6, LongInteger DEF Long
  <1>11. p[1] = 7 /\ p[2] = p0
    OBVIOUS
  <1>12. q[1] = 8 /\ q[2] = q0
    OBVIOUS
  <1>13. r[1] = 16 /\ r[2] = r0
    OBVIOUS
  <1>14. s[1] = 23 /\ s[2] = s0
    OBVIOUS
  <1>15. puts = {h, p, q, r, s}
    OBVIOUS
  <1>16. "Begin" \in DOMAIN Link!Layout /\ Link!LengthOf("Begin") = 26
    BY DEF Link!Layout, Link!LengthOf
  <1>17. String(h, 2, 5)
    BY <1>1, HeadingBytes
  <1> HIDE DEF b, h, p0, p, q0, q, r0, r, s0, s, puts
  <1>18. String(p, 7, 1)
    BY <1>11, <1>7 DEF String
  <1>19. String(q, 8, 8)
    BY <1>12, <1>8 DEF String
  <1>20. String(r, 16, 7)
    BY <1>13, <1>9 DEF String
  <1>21. String(s, 23, 3)
    BY <1>14, <1>10 DEF String
  <1>22. Apart(puts, 26)
    BY <1>17, <1>18, <1>19, <1>20, <1>21, <1>15, ApartFive
  <1>23. /\ b \in BytePackets /\ Link!decode(b) = Link!DecodeArm("Begin", b)
         /\ \A w \in puts : Holds(b, w[1], w[2])
    BY <1>3, <1>16, <1>22, Crossing
  <1>24. Holds(b, 2, h[2])
    BY <1>17, <1>15, <1>23 DEF String
  <1>25. Holds(b, 7, p0)
    BY <1>11, <1>15, <1>23
  <1>26. Holds(b, 8, q0)
    BY <1>12, <1>15, <1>23
  <1>27. Holds(b, 16, r0)
    BY <1>13, <1>15, <1>23
  <1>28. Holds(b, 23, s0)
    BY <1>14, <1>15, <1>23
  <1>29. b[2] = m.generation /\ Link!get_u32(b, 3) = m.revision
    BY <1>1, <1>24, HeadingBytes DEF h
  <1>30. b[7] = m.cell_count
    BY <1>25 DEF Holds, p0
  <1>31. Link!get_u64(b, 8) = m.sample_time_ms
    BY <1>1, <1>4, <1>5, <1>6, <1>26, Read64 DEF q0
  <1>32. /\ b[16] = Link!Bit(m.output_enabled) /\ b[17] = m.output_brightness
         /\ b[18] = Link!Bit(m.background.enabled) + 128 * Link!Bit(m.background.breathe)
         /\ b[19] = m.background.hue /\ b[20] = m.background.saturation
         /\ b[21] = m.background.value /\ b[22] = m.background.speed
    BY <1>27 DEF Holds, r0
  <1>33. /\ b[23] = m.scene_count /\ b[24] = Link!Code(Link!Policies, m.scene_policy)
         /\ b[25] = Link!Code(Link!OutputModes, m.output_mode)
    BY <1>28 DEF Holds, s0
  <1>34. /\ Link!Known(Link!Policies, b[24]) /\ Link!Name(Link!Policies, b[24]) = m.scene_policy
         /\ Link!Known(Link!OutputModes, b[25])
         /\ Link!Name(Link!OutputModes, b[25]) = m.output_mode
    BY <1>1, <1>4, <1>5, <1>6, <1>29, <1>30, <1>31, <1>32, <1>33, PolicyCode, OutputModeCode
  <1>35. Link!FlagOK(b[16]) /\ Link!flag(b[16]) = m.output_enabled
    BY <1>1, <1>4, <1>5, <1>6, <1>29, <1>30, <1>31, <1>32, <1>33, <1>34, BitByte
  <1>36. (b[18] % 128 # 0) = m.background.enabled /\ Link!HasBit(b[18], 7) = m.background.breathe
    BY <1>1, <1>4, <1>5, <1>6, <1>29, <1>30, <1>31, <1>32, <1>33, <1>34, <1>35, BackgroundBits
  <1>37. Link!decode(b) = m
    BY <1>1, <1>4, <1>5, <1>6, <1>2, <1>23, <1>29, <1>30, <1>31, <1>32, <1>33, <1>34, <1>35,
       <1>36 DEF Link!DecodeArm, Link!DecodeBegin, Link!Headed, Link!Checked
  <1> QED
    BY <1>23, <1>37 DEF b

\* A status report arrives, whether or not it has an applied revision.
LEMMA StatusReportArrives ==
    ASSUME Link!LinkAssumption, NEW m \in Link!StatusReports
    PROVE  Link!encode(m) \in BytePackets /\ Link!decode(Link!encode(m)) = m
  <1> DEFINE b == Link!encode(m)
             p0 == <<m.request_id, Link!Bit(m.applied_revision # None)>>
             p1 == p0 \o Link!put_u32(Link!OrElse(m.applied_revision, <<0, 0>>))
             p2 == p1 \o Link!put_u32(m.engine_revision)
             p == <<2, p2>>
             q0 == <<m.effective, m.default>>
             q1 == q0 \o Link!put_u64(m.active)
             q == <<12, q1>>
             r0 == <<Link!Flags(m.powered, m.wake_active, m.effective_output_enabled)>>
             r == <<22, r0>>
             puts == {p, q, r}
  <1>1. /\ m.name = "StatusReport" /\ m.request_id \in Link!Byte
        /\ m.applied_revision \in Link!Maybe(Link!u32) /\ m.engine_revision \in Link!u32
        /\ m.effective \in Link!Byte /\ m.default \in Link!Byte /\ m.active \in Link!u64
        /\ m.powered \in BOOLEAN /\ m.wake_active \in BOOLEAN
        /\ m.effective_output_enabled \in BOOLEAN
    BY DEF Link!StatusReports
  <1>2. m = [name |-> "StatusReport", request_id |-> m.request_id,
              applied_revision |-> m.applied_revision,
              engine_revision |-> m.engine_revision, effective |-> m.effective,
              default |-> m.default, active |-> m.active, powered |-> m.powered,
              wake_active |-> m.wake_active,
              effective_output_enabled |-> m.effective_output_enabled]
    BY DEF Link!StatusReports
  <1>3. b = Link!Packet("StatusReport", puts)
    BY <1>1 DEF Link!encode, Link!EncodeStatusReport
  <1>4. /\ Link!OrElse(m.applied_revision, <<0, 0>>) \in Link!u32
        /\ Link!Bit(m.applied_revision # None) \in Link!Byte
        /\ Link!FlagOK(Link!Bit(m.applied_revision # None))
        /\ m.applied_revision = (IF Link!flag(Link!Bit(m.applied_revision # None))
                                  THEN Link!OrElse(m.applied_revision, <<0, 0>>) ELSE None)
    BY <1>1, AbsentRevision
  <1>5. Link!Flags(m.powered, m.wake_active, m.effective_output_enabled) \in Link!Byte
    BY <1>1, FlagBits
  <1>6. Long(p0, 2)
    BY <1>1, <1>4, <1>5 DEF Long
  <1>7. Long(q0, 2)
    BY <1>1, <1>4, <1>5 DEF Long
  <1>8. Long(r0, 1)
    BY <1>1, <1>4, <1>5 DEF Long
  <1>9. p[1] = 2 /\ p[2] = p2
    OBVIOUS
  <1>10. p1 = p0 \o Link!put_u32(Link!OrElse(m.applied_revision, <<0, 0>>))
    OBVIOUS
  <1>11. p2 = p1 \o Link!put_u32(m.engine_revision)
    OBVIOUS
  <1>12. q[1] = 12 /\ q[2] = q1
    OBVIOUS
  <1>13. q1 = q0 \o Link!put_u64(m.active)
    OBVIOUS
  <1>14. r[1] = 22 /\ r[2] = r0
    OBVIOUS
  <1>15. puts = {p, q, r}
    OBVIOUS
  <1>16. "StatusReport" \in DOMAIN Link!Layout /\ Link!LengthOf("StatusReport") = 23
    BY DEF Link!Layout, Link!LengthOf
  <1> HIDE DEF b, p0, p1, p2, p, q0, q1, q, r0, r, puts
  <1>17. Long(p1, 6)
    BY <1>1, <1>4, <1>5, <1>10, <1>6, Join32
  <1>18. Long(p2, 10)
    BY <1>1, <1>4, <1>5, <1>11, <1>17, Join32
  <1>19. Long(q1, 10)
    BY <1>1, <1>4, <1>5, <1>13, <1>7, Join64
  <1>20. String(p, 2, 10)
    BY <1>9, <1>18 DEF String
  <1>21. String(q, 12, 10)
    BY <1>12, <1>19 DEF String
  <1>22. String(r, 22, 1)
    BY <1>14, <1>8 DEF String
  <1>23. Apart(puts, 23)
    BY <1>20, <1>21, <1>22, <1>15, ApartThree
  <1>24. /\ b \in BytePackets /\ Link!decode(b) = Link!DecodeArm("StatusReport", b)
         /\ \A w \in puts : Holds(b, w[1], w[2])
    BY <1>3, <1>16, <1>23, Crossing
  <1>25. Holds(b, 2, p2)
    BY <1>9, <1>15, <1>24
  <1>26. Holds(b, 12, q1)
    BY <1>12, <1>15, <1>24
  <1>27. Holds(b, 22, r0)
    BY <1>14, <1>15, <1>24
  <1>28. Holds(b, 2, p1) /\ Link!get_u32(b, 8) = m.engine_revision
    BY <1>1, <1>4, <1>5, <1>11, <1>17, <1>25, Split32
  <1>29. Holds(b, 2, p0) /\ Link!get_u32(b, 4) = Link!OrElse(m.applied_revision, <<0, 0>>)
    BY <1>1, <1>4, <1>5, <1>10, <1>6, <1>28, Split32
  <1>30. b[2] = m.request_id /\ b[3] = Link!Bit(m.applied_revision # None)
    BY <1>29 DEF Holds, p0
  <1>31. Holds(b, 12, q0) /\ Link!get_u64(b, 14) = m.active
    BY <1>1, <1>4, <1>5, <1>13, <1>7, <1>26, Split64
  <1>32. b[12] = m.effective /\ b[13] = m.default
    BY <1>31 DEF Holds, q0
  <1>33. b[22] = Link!Flags(m.powered, m.wake_active, m.effective_output_enabled)
    BY <1>27 DEF Holds, r0
  <1>34. /\ Link!FlagOK(b[3])
         /\ (IF Link!flag(b[3]) THEN Link!get_u32(b, 4) ELSE None) = m.applied_revision
    BY <1>1, <1>4, <1>5, <1>28, <1>29, <1>30, <1>31, <1>32, <1>33
  <1>35. /\ b[22] < 8 /\ Link!HasBit(b[22], 0) = m.powered
         /\ Link!HasBit(b[22], 1) = m.wake_active
         /\ Link!HasBit(b[22], 2) = m.effective_output_enabled
    BY <1>1, <1>4, <1>5, <1>28, <1>29, <1>30, <1>31, <1>32, <1>33, <1>34, FlagBits
  <1>36. Link!decode(b) = m
    BY <1>1, <1>4, <1>5, <1>2, <1>24, <1>28, <1>29, <1>30, <1>31, <1>32, <1>33, <1>34, <1>35
       DEF Link!DecodeArm, Link!DecodeStatusReport, Link!Checked
  <1> QED
    BY <1>24, <1>36 DEF b

\* A context arrives, with the indicators and both batteries, whichever of the
\* two tags it has.
LEMMA ContextArrives ==
    ASSUME Link!LinkAssumption, NEW m \in Link!Contexts
    PROVE  Link!encode(m) \in BytePackets /\ Link!decode(Link!encode(m)) = m
  <1> DEFINE b == Link!encode(m)
             h == Link!Heading(m)
             p0 == <<Link!indicators(m.indicators)>>
             p == <<17, p0>>
             q0 == Link!put_battery(m.left)
             q == <<18, q0>>
             r0 == Link!put_battery(m.right)
             r == <<20, r0>>
             s0 == <<Link!Bit(m.powered), m.bonded_slots>>
             s == <<22, s0>>
             puts == {h, p, q, r, s}
  <1>1. /\ m.name \in {"Context", "ContextUpdate"} /\ m.generation \in Link!Byte
        /\ m.revision \in Link!u32
        /\ m.indicators \in SUBSET Link!Range(Link!Indicators) /\ m.powered \in BOOLEAN
        /\ m.bonded_slots \in Link!Byte /\ m.left \in Link!BatteryStatus
        /\ m.right \in Link!BatteryStatus
    BY DEF Link!Contexts
  <1>2. m = [name |-> m.name, generation |-> m.generation, revision |-> m.revision,
              indicators |-> m.indicators, powered |-> m.powered,
              bonded_slots |-> m.bonded_slots, left |-> m.left, right |-> m.right]
    BY DEF Link!Contexts
  <1>3. b = Link!Packet(m.name, puts)
    BY <1>1 DEF Link!encode, Link!EncodeContext
  <1>4. Link!indicators(m.indicators) \in Link!Byte /\ Link!Bit(m.powered) \in Link!Byte
    BY <1>1, IndicatorBits, BitByte
  <1>5. Long(p0, 1)
    BY <1>1, <1>4, BatteryBytes, BatteryBytes DEF Long
  <1>6. Long(q0, 2)
    BY <1>1, <1>4, BatteryBytes, BatteryBytes DEF Long
  <1>7. Long(r0, 2)
    BY <1>1, <1>4, BatteryBytes, BatteryBytes DEF Long
  <1>8. Long(s0, 2)
    BY <1>1, <1>4, BatteryBytes, BatteryBytes DEF Long
  <1>9. p[1] = 17 /\ p[2] = p0
    OBVIOUS
  <1>10. q[1] = 18 /\ q[2] = q0
    OBVIOUS
  <1>11. r[1] = 20 /\ r[2] = r0
    OBVIOUS
  <1>12. s[1] = 22 /\ s[2] = s0
    OBVIOUS
  <1>13. puts = {h, p, q, r, s}
    OBVIOUS
  <1>14. m.name \in DOMAIN Link!Layout /\ Link!LengthOf(m.name) = 24
    BY <1>1 DEF Link!Layout, Link!LengthOf
  <1>15. String(h, 2, 5)
    BY <1>1, HeadingBytes
  <1> HIDE DEF b, h, p0, p, q0, q, r0, r, s0, s, puts
  <1>16. String(p, 17, 1)
    BY <1>9, <1>5 DEF String
  <1>17. String(q, 18, 2)
    BY <1>10, <1>6 DEF String
  <1>18. String(r, 20, 2)
    BY <1>11, <1>7 DEF String
  <1>19. String(s, 22, 2)
    BY <1>12, <1>8 DEF String
  <1>20. Apart(puts, 24)
    BY <1>15, <1>16, <1>17, <1>18, <1>19, <1>13, ApartFive
  <1>21. /\ b \in BytePackets /\ Link!decode(b) = Link!DecodeArm(m.name, b)
         /\ \A w \in puts : Holds(b, w[1], w[2])
    BY <1>3, <1>14, <1>20, Crossing
  <1>22. Holds(b, 2, h[2])
    BY <1>15, <1>13, <1>21 DEF String
  <1>23. Holds(b, 17, p0)
    BY <1>9, <1>13, <1>21
  <1>24. Holds(b, 18, q0)
    BY <1>10, <1>13, <1>21
  <1>25. Holds(b, 20, r0)
    BY <1>11, <1>13, <1>21
  <1>26. Holds(b, 22, s0)
    BY <1>12, <1>13, <1>21
  <1>27. b[2] = m.generation /\ Link!get_u32(b, 3) = m.revision
    BY <1>1, <1>22, HeadingBytes DEF h
  <1>28. b[17] = Link!indicators(m.indicators)
    BY <1>23 DEF Holds, p0
  <1>29. Link!get_battery(b, 18) = m.left /\ Link!BatteryOK(b, 18)
    BY <1>1, <1>4, <1>24, BatteryBytes DEF q0
  <1>30. Link!get_battery(b, 20) = m.right /\ Link!BatteryOK(b, 20)
    BY <1>1, <1>4, <1>25, BatteryBytes DEF r0
  <1>31. b[22] = Link!Bit(m.powered) /\ b[23] = m.bonded_slots
    BY <1>26 DEF Holds, s0
  <1>32. Link!get_indicators(b[17]) = m.indicators
    BY <1>1, <1>4, <1>27, <1>28, <1>29, <1>30, <1>31, IndicatorBits
  <1>33. Link!FlagOK(b[22]) /\ Link!flag(b[22]) = m.powered
    BY <1>1, <1>4, <1>27, <1>28, <1>29, <1>30, <1>31, <1>32, BitByte
  <1>34. Link!decode(b) = m
    BY <1>1, <1>4, <1>2, <1>21, <1>27, <1>28, <1>29, <1>30, <1>31, <1>32, <1>33
       DEF Link!DecodeArm, Link!DecodeContext, Link!Headed, Link!Checked
  <1> QED
    BY <1>21, <1>34 DEF b

\* A request for a page arrives.
LEMMA FrameChunkRequestArrives ==
    ASSUME Link!LinkAssumption, NEW m \in Link!FrameChunkRequests
    PROVE  Link!encode(m) \in BytePackets /\ Link!decode(Link!encode(m)) = m
  <1> DEFINE b == Link!encode(m)
             p0 == <<m.request_id>>
             p1 == p0 \o Link!put_u16(m.offset)
             p == <<2, p1>>
             puts == {p}
  <1>1. m.name = "FrameChunkRequest" /\ m.request_id \in Link!Byte /\ m.offset \in Link!Word
    BY DEF Link!FrameChunkRequests
  <1>2. m = [name |-> "FrameChunkRequest", request_id |-> m.request_id,
              offset |-> m.offset]
    BY DEF Link!FrameChunkRequests
  <1>3. b = Link!Packet("FrameChunkRequest", puts)
    BY <1>1 DEF Link!encode, Link!EncodeSmall
  <1>4. Long(p0, 1)
    BY <1>1 DEF Long
  <1>5. p[1] = 2 /\ p[2] = p1
    OBVIOUS
  <1>6. p1 = p0 \o Link!put_u16(m.offset)
    OBVIOUS
  <1>7. puts = {p}
    OBVIOUS
  <1>8. "FrameChunkRequest" \in DOMAIN Link!Layout /\ Link!LengthOf("FrameChunkRequest") = 5
    BY DEF Link!Layout, Link!LengthOf
  <1> HIDE DEF b, p0, p1, p, puts
  <1>9. Long(p1, 3)
    BY <1>1, <1>6, <1>4, Join16
  <1>10. String(p, 2, 3)
    BY <1>5, <1>9 DEF String
  <1>11. Apart({p}, 2 + 3)
    BY <1>10, ApartOne
  <1>12. Apart(puts, 5)
    BY <1>7, <1>11
  <1>13. /\ b \in BytePackets /\ Link!decode(b) = Link!DecodeArm("FrameChunkRequest", b)
         /\ \A w \in puts : Holds(b, w[1], w[2])
    BY <1>3, <1>8, <1>12, Crossing
  <1>14. Holds(b, 2, p1)
    BY <1>5, <1>7, <1>13
  <1>15. Holds(b, 2, p0) /\ Link!get_u16(b, 3) = m.offset
    BY <1>1, <1>6, <1>4, <1>14, Split16
  <1>16. b[2] = m.request_id
    BY <1>15 DEF Holds, p0
  <1>17. Link!decode(b) = m
    BY <1>1, <1>2, <1>13, <1>15, <1>16 DEF Link!DecodeArm, Link!DecodeSmall
  <1> QED
    BY <1>13, <1>17 DEF b

\* A colour is three bytes.
LEMMA ColorBytes ==
    ASSUME NEW c \in Link!Color
    PROVE  /\ Long(c, 3)
           /\ \A b : \A at \in Nat :
                Holds(b, at, c) => <<b[at], b[at + 1], b[at + 2]>> = c
  <1>1. c[1] \in Link!Byte /\ c[2] \in Link!Byte /\ c[3] \in Link!Byte /\ c = <<c[1], c[2], c[3]>>
    BY DEF Link!Color
  <1>2. Long(<<c[1], c[2], c[3]>>, 3)
    BY <1>1 DEF Long
  <1>3. ASSUME NEW b, NEW at \in Nat, Holds(b, at, <<c[1], c[2], c[3]>>)
        PROVE  b[at] = c[1] /\ b[at + 1] = c[2] /\ b[at + 2] = c[3]
    BY <1>3 DEF Holds
  <1> QED
    BY <1>1, <1>2, <1>3

\* Zero, which stands for an absent integer, is an integer.
LEMMA ZeroWord == 0 \in Link!Word /\ <<0, 0>> \in Link!u32
  <1>1. 0 \in Link!Word
    <2>1. Link!MAX = 255 /\ 256 * Link!MAX + Link!MAX \in Nat
      BY DEF Link!MAX
    <2> QED
      BY <2>1 DEF Link!Word
  <1> QED
    BY <1>1 DEF Link!u32

\* A percentage is a word.
LEMMA PercentWord == 0 .. 100 \subseteq Link!Word
  <1> SUFFICES ASSUME NEW n \in 0 .. 100 PROVE n \in Link!Word
    OBVIOUS
  <1> DEFINE top == 256 * Link!MAX + Link!MAX
  <1>1. top \in Int /\ top >= 100
    BY DEF Link!MAX
  <1>2. Link!Word = 0 .. top
    BY DEF Link!Word
  <1> HIDE DEF top
  <1> QED
    BY <1>1, <1>2

\* What an effect is on the wire.
LEMMA EffectFields ==
    ASSUME NEW e \in Link!Effect
    PROVE  LET w == Link!EffectWire(e) IN
           /\ w[1] \in 0 .. 2 /\ w[2] \in Link!Color /\ w[3] \in Link!u32 /\ w[4] \in Link!u32
           /\ w[5] \in Link!Word
           /\ w[2] = e.color
           /\ \/ w[1] = 0 /\ e = [kind |-> "Solid", color |-> w[2]]
              \/ /\ w[1] = 1 /\ w[5] <= 100
                 /\ e = [kind |-> "Blink", color |-> w[2], period_ms |-> w[3],
                         phase_ms |-> w[4], duty |-> w[5]]
              \/ /\ w[1] = 2
                 /\ e = [kind |-> "Breathe", color |-> w[2], period_ms |-> w[3],
                         phase_ms |-> w[4], step_ms |-> w[5]]
  <1> DEFINE w == Link!EffectWire(e)
  <1>1. CASE e \in [kind : {"Solid"}, color : Link!Color]
    <2>1. /\ e.kind = "Solid" /\ e.color \in Link!Color
          /\ e = [kind |-> "Solid", color |-> e.color]
      BY <1>1
    <2>2. w = <<0, e.color, <<0, 0>>, <<0, 0>>, 0>>
      BY <2>1 DEF Link!EffectWire
    <2> HIDE DEF w
    <2>3. w[1] = 0 /\ w[2] = e.color /\ w[3] = <<0, 0>> /\ w[4] = <<0, 0>> /\ w[5] = 0
      BY <2>2
    <2> QED
      BY <2>1, <2>3, ZeroWord DEF w
  <1>2. CASE e \in [kind : {"Blink"}, color : Link!Color, period_ms : Link!u32,
               phase_ms : Link!u32,
                    duty : 0 .. 100]
    <2>1. /\ e.kind = "Blink" /\ e.color \in Link!Color /\ e.period_ms \in Link!u32
          /\ e.phase_ms \in Link!u32 /\ e.duty \in 0 .. 100
          /\ e = [kind |-> "Blink", color |-> e.color, period_ms |-> e.period_ms,
                  phase_ms |-> e.phase_ms, duty |-> e.duty]
      BY <1>2
    <2>2. w = <<1, e.color, e.period_ms, e.phase_ms, e.duty>>
      BY <2>1 DEF Link!EffectWire
    <2> HIDE DEF w
    <2>3. /\ w[1] = 1 /\ w[2] = e.color /\ w[3] = e.period_ms /\ w[4] = e.phase_ms
          /\ w[5] = e.duty
      BY <2>2
    <2>4. w[5] \in Link!Word /\ w[5] <= 100
      BY <2>1, <2>3, PercentWord
    <2> QED
      BY <2>1, <2>3, <2>4 DEF w
  <1>3. CASE e \in [kind : {"Breathe"}, color : Link!Color, period_ms : Link!u32,
               phase_ms : Link!u32,
                    step_ms : Link!Word]
    <2>1. /\ e.kind = "Breathe" /\ e.color \in Link!Color /\ e.period_ms \in Link!u32
          /\ e.phase_ms \in Link!u32 /\ e.step_ms \in Link!Word
          /\ e = [kind |-> "Breathe", color |-> e.color, period_ms |-> e.period_ms,
                  phase_ms |-> e.phase_ms, step_ms |-> e.step_ms]
      BY <1>3
    <2>2. w = <<2, e.color, e.period_ms, e.phase_ms, e.step_ms>>
      BY <2>1 DEF Link!EffectWire
    <2> HIDE DEF w
    <2>3. /\ w[1] = 2 /\ w[2] = e.color /\ w[3] = e.period_ms /\ w[4] = e.phase_ms
          /\ w[5] = e.step_ms
      BY <2>2
    <2> QED
      BY <2>1, <2>3 DEF w
  <1> QED
    BY <1>1, <1>2, <1>3 DEF Link!Effect

\* An effect is read back from the bytes it was laid out in.
LEMMA EffectCrosses ==
    ASSUME NEW e \in Link!Effect, NEW kind, kind = Link!EffectWire(e)[1]
    PROVE  /\ kind \in 0 .. 2 /\ kind \in Link!Byte /\ Long(Link!EffectBytes(e), 13)
           /\ \A b : \A at \in Nat : Holds(b, at, Link!EffectBytes(e)) =>
                Link!EffectAt(kind, b, at) = e /\ Link!EffectOK(kind, b, at)
  <1> DEFINE w == Link!EffectWire(e)
             s1 == w[2] \o Link!put_u32(w[3])
             s2 == s1 \o Link!put_u32(w[4])
             s3 == s2 \o Link!put_u16(w[5])
  <1>1. /\ w[1] \in 0 .. 2 /\ w[2] \in Link!Color /\ w[3] \in Link!u32 /\ w[4] \in Link!u32
        /\ w[5] \in Link!Word
        /\ \/ w[1] = 0 /\ e = [kind |-> "Solid", color |-> w[2]]
           \/ /\ w[1] = 1 /\ w[5] <= 100
              /\ e = [kind |-> "Blink", color |-> w[2], period_ms |-> w[3],
                      phase_ms |-> w[4], duty |-> w[5]]
           \/ /\ w[1] = 2
              /\ e = [kind |-> "Breathe", color |-> w[2], period_ms |-> w[3],
                      phase_ms |-> w[4], step_ms |-> w[5]]
    BY EffectFields
  <1>2. Link!EffectBytes(e) = s3 /\ kind = w[1]
    BY DEF Link!EffectBytes
  <1>3. s1 = w[2] \o Link!put_u32(w[3])
    OBVIOUS
  <1>4. s2 = s1 \o Link!put_u32(w[4])
    OBVIOUS
  <1>5. s3 = s2 \o Link!put_u16(w[5])
    OBVIOUS
  <1> HIDE DEF w, s1, s2, s3
  <1>6. Long(w[2], 3)
    BY <1>1, ColorBytes
  <1>7. Long(s1, 7)
    BY <1>1, <1>3, <1>6, Join32
  <1>8. Long(s2, 11)
    BY <1>1, <1>4, <1>7, Join32
  <1>9. Long(s3, 13)
    BY <1>1, <1>5, <1>8, Join16
  <1>10. ASSUME NEW b, NEW at \in Nat, Holds(b, at, s3)
         PROVE  Link!EffectAt(kind, b, at) = e /\ Link!EffectOK(kind, b, at)
    <2>1. Holds(b, at, s2) /\ Link!get_u16(b, at + 11) = w[5]
      BY <1>1, <1>5, <1>8, <1>10, Split16
    <2>2. Holds(b, at, s1) /\ Link!get_u32(b, at + 7) = w[4]
      BY <1>1, <1>4, <1>7, <2>1, Split32
    <2>3. Holds(b, at, w[2]) /\ Link!get_u32(b, at + 3) = w[3]
      BY <1>1, <1>3, <1>6, <2>2, Split32
    <2>4. <<b[at], b[at + 1], b[at + 2]>> = w[2]
      BY <1>1, <2>3, ColorBytes
    <2>5. CASE w[1] = 0
      BY <1>1, <1>2, <2>4, <2>5 DEF Link!EffectAt, Link!EffectOK
    <2>6. CASE w[1] = 1
      BY <1>1, <1>2, <2>1, <2>2, <2>3, <2>4, <2>6 DEF Link!EffectAt, Link!EffectOK
    <2>7. CASE w[1] = 2
      BY <1>1, <1>2, <2>1, <2>2, <2>3, <2>4, <2>7 DEF Link!EffectAt, Link!EffectOK
    <2> QED
      BY <1>1, <2>5, <2>6, <2>7
  <1>11. kind \in 0 .. 2 /\ kind \in Link!Byte
    BY <1>1, <1>2 DEF Link!Byte
  <1> QED
    BY <1>2, <1>9, <1>10, <1>11

\* The strings that are neither integers nor effects.
LEMMA ByteLong == \A byte \in Link!Byte : Long(<<byte>>, 1)
BY DEF Long
\* The text of a panic location fills its place.
LEMMA LongText ==
    ASSUME NEW text \in [1 .. 23 -> Link!Byte]
    PROVE  Long(text, 23) /\ text = [i \in 1 .. 23 |-> text[i]]
  <1>1. text \in Seq(Link!Byte)
    BY SeqDef
  <1>2. Len(text) \in Nat /\ DOMAIN text = 1 .. Len(text) /\ DOMAIN text = 1 .. 23
    BY <1>1, LenProperties
  <1>3. Len(text) = 23
    BY <1>2
  <1> QED
    BY <1>1, <1>3 DEF Long

\* A string that ends with another, and the bytes of the two in a packet.
LEMMA JoinString ==
    ASSUME NEW s, NEW n, Long(s, n), NEW t, NEW k, Long(t, k), NEW l, l = n + k
    PROVE  Long(s \o t, l)
BY LongJoin

\* Two strings, one of which is behind the other, stand where they do.
LEMMA SplitString ==
    ASSUME NEW s, NEW n, Long(s, n), NEW t, NEW k, Long(t, k),
           NEW b, NEW at \in Nat, Holds(b, at, s \o t), NEW c, c = at + n
    PROVE  Holds(b, at, s) /\ Holds(b, c, t)
BY LongJoin

\* A cell arrives: its slot, its effect and the time it has left, if any.
LEMMA CellArrives ==
    ASSUME Link!LinkAssumption, NEW m \in Link!Cells
    PROVE  Link!encode(m) \in BytePackets /\ Link!decode(Link!encode(m)) = m
  <1> DEFINE b == Link!encode(m)
             h == Link!Heading(m)
             p0 == <<m.slot, Link!EffectWire(m.effect)[1]>>
             p1 == p0 \o Link!EffectBytes(m.effect)
             p == <<7, p1>>
             q0 == Link!put_u32(Link!OrElse(m.ttl_ms, <<0, 0>>))
             q == <<22, q0>>
             puts == {h, p, q}
  <1>1. /\ m.name = "Cell" /\ m.generation \in Link!Byte /\ m.revision \in Link!u32
        /\ m.slot \in Link!RightSlots /\ m.effect \in Link!Effect
        /\ m.ttl_ms \in Link!Maybe(Link!u32 \ {<<0, 0>>})
    BY DEF Link!Cells
  <1>2. m = [name |-> "Cell", generation |-> m.generation, revision |-> m.revision,
              slot |-> m.slot, effect |-> m.effect, ttl_ms |-> m.ttl_ms]
    BY DEF Link!Cells
  <1>3. b = Link!Packet("Cell", puts)
    BY <1>1 DEF Link!encode, Link!EncodeCell
  <1>4. /\ Link!EffectWire(m.effect)[1] \in 0 .. 2
        /\ Link!EffectWire(m.effect)[1] \in Link!Byte /\ Long(Link!EffectBytes(m.effect), 13)
        /\ \A c : \A at \in Nat : Holds(c, at, Link!EffectBytes(m.effect)) =>
              Link!EffectAt(Link!EffectWire(m.effect)[1], c, at) = m.effect
                /\ Link!EffectOK(Link!EffectWire(m.effect)[1], c, at)
    BY <1>1, EffectCrosses
  <1>5. m.slot \in Link!Byte /\ Link!RightHalf(m.slot)
    BY <1>1 DEF Link!LinkAssumption, Link!Byte, Link!RightSlots, Link!RightHalf
  <1>6. /\ Link!OrElse(m.ttl_ms, <<0, 0>>) \in Link!u32
        /\ Link!Unless(Link!OrElse(m.ttl_ms, <<0, 0>>), <<0, 0>>) = m.ttl_ms
    BY <1>1, ZeroWord DEF Link!OrElse, Link!Unless, Link!Maybe
  <1>7. Long(p0, 2)
    BY <1>1, <1>4, <1>5, <1>6, LongInteger DEF Long
  <1>8. Long(q0, 4)
    BY <1>1, <1>4, <1>5, <1>6, LongInteger DEF Long
  <1>9. p[1] = 7 /\ p[2] = p1
    OBVIOUS
  <1>10. p1 = p0 \o Link!EffectBytes(m.effect)
    OBVIOUS
  <1>11. q[1] = 22 /\ q[2] = q0
    OBVIOUS
  <1>12. puts = {h, p, q}
    OBVIOUS
  <1>13. "Cell" \in DOMAIN Link!Layout /\ Link!LengthOf("Cell") = 26
    BY DEF Link!Layout, Link!LengthOf
  <1>14. String(h, 2, 5)
    BY <1>1, HeadingBytes
  <1> HIDE DEF b, h, p0, p1, p, q0, q, puts
  <1>15. Long(Link!EffectBytes(m.effect), 13)
    BY <1>1, <1>4, <1>5, <1>6
  <1>16. Long(p1, 15)
    BY <1>10, <1>15, <1>7, JoinString
  <1>17. String(p, 7, 15)
    BY <1>9, <1>16 DEF String
  <1>18. String(q, 22, 4)
    BY <1>11, <1>8 DEF String
  <1>19. Apart(puts, 26)
    BY <1>14, <1>17, <1>18, <1>12, ApartThree
  <1>20. /\ b \in BytePackets /\ Link!decode(b) = Link!DecodeArm("Cell", b)
         /\ \A w \in puts : Holds(b, w[1], w[2])
    BY <1>3, <1>13, <1>19, Crossing
  <1>21. Holds(b, 2, h[2])
    BY <1>14, <1>12, <1>20 DEF String
  <1>22. Holds(b, 7, p1)
    BY <1>9, <1>12, <1>20
  <1>23. Holds(b, 22, q0)
    BY <1>11, <1>12, <1>20
  <1>24. b[2] = m.generation /\ Link!get_u32(b, 3) = m.revision
    BY <1>1, <1>21, HeadingBytes DEF h
  <1>25. Holds(b, 7, p0) /\ Holds(b, 9, Link!EffectBytes(m.effect))
    BY <1>10, <1>15, <1>7, <1>22, SplitString
  <1>26. Link!EffectAt(Link!EffectWire(m.effect)[1], b, 9) = m.effect
         /\ Link!EffectOK(Link!EffectWire(m.effect)[1], b, 9)
    BY <1>1, <1>4, <1>5, <1>6, <1>25
  <1>27. b[7] = m.slot /\ b[8] = Link!EffectWire(m.effect)[1]
    BY <1>25 DEF Holds, p0
  <1>28. Link!get_u32(b, 22) = Link!OrElse(m.ttl_ms, <<0, 0>>)
    BY <1>1, <1>4, <1>5, <1>6, <1>23, Read32 DEF q0
  <1>29. Link!decode(b) = m
    BY <1>1, <1>4, <1>5, <1>6, <1>2, <1>20, <1>24, <1>26, <1>25, <1>27, <1>28
       DEF Link!DecodeArm, Link!DecodeCell, Link!Headed, Link!Checked
  <1> QED
    BY <1>20, <1>29 DEF b

\* A cell of a scene arrives with its layer.
LEMMA SceneCellArrives ==
    ASSUME Link!LinkAssumption, NEW m \in Link!SceneCells
    PROVE  Link!encode(m) \in BytePackets /\ Link!decode(Link!encode(m)) = m
  <1> DEFINE b == Link!encode(m)
             h == Link!Heading(m)
             p0 == <<m.layer, m.slot, Link!EffectWire(m.effect)[1]>>
             p1 == p0 \o Link!EffectBytes(m.effect)
             p == <<7, p1>>
             puts == {h, p}
  <1>1. /\ m.name = "SceneCell" /\ m.generation \in Link!Byte /\ m.revision \in Link!u32
        /\ m.layer \in Link!Byte /\ m.slot \in Link!RightSlots /\ m.effect \in Link!Effect
    BY DEF Link!SceneCells
  <1>2. m = [name |-> "SceneCell", generation |-> m.generation,
              revision |-> m.revision, layer |-> m.layer, slot |-> m.slot,
              effect |-> m.effect]
    BY DEF Link!SceneCells
  <1>3. b = Link!Packet("SceneCell", puts)
    BY <1>1 DEF Link!encode, Link!EncodeSceneCell
  <1>4. /\ Link!EffectWire(m.effect)[1] \in 0 .. 2
        /\ Link!EffectWire(m.effect)[1] \in Link!Byte /\ Long(Link!EffectBytes(m.effect), 13)
        /\ \A c : \A at \in Nat : Holds(c, at, Link!EffectBytes(m.effect)) =>
              Link!EffectAt(Link!EffectWire(m.effect)[1], c, at) = m.effect
                /\ Link!EffectOK(Link!EffectWire(m.effect)[1], c, at)
    BY <1>1, EffectCrosses
  <1>5. m.slot \in Link!Byte /\ Link!RightHalf(m.slot)
    BY <1>1 DEF Link!LinkAssumption, Link!Byte, Link!RightSlots, Link!RightHalf
  <1>6. Long(p0, 3)
    BY <1>1, <1>4, <1>5 DEF Long
  <1>7. p[1] = 7 /\ p[2] = p1
    OBVIOUS
  <1>8. p1 = p0 \o Link!EffectBytes(m.effect)
    OBVIOUS
  <1>9. puts = {h, p}
    OBVIOUS
  <1>10. "SceneCell" \in DOMAIN Link!Layout /\ Link!LengthOf("SceneCell") = 23
    BY DEF Link!Layout, Link!LengthOf
  <1>11. String(h, 2, 5)
    BY <1>1, HeadingBytes
  <1> HIDE DEF b, h, p0, p1, p, puts
  <1>12. Long(Link!EffectBytes(m.effect), 13)
    BY <1>1, <1>4, <1>5
  <1>13. Long(p1, 16)
    BY <1>8, <1>12, <1>6, JoinString
  <1>14. String(p, 7, 16)
    BY <1>7, <1>13 DEF String
  <1>15. Apart(puts, 23)
    BY <1>11, <1>14, <1>9, ApartTwo
  <1>16. /\ b \in BytePackets /\ Link!decode(b) = Link!DecodeArm("SceneCell", b)
         /\ \A w \in puts : Holds(b, w[1], w[2])
    BY <1>3, <1>10, <1>15, Crossing
  <1>17. Holds(b, 2, h[2])
    BY <1>11, <1>9, <1>16 DEF String
  <1>18. Holds(b, 7, p1)
    BY <1>7, <1>9, <1>16
  <1>19. b[2] = m.generation /\ Link!get_u32(b, 3) = m.revision
    BY <1>1, <1>17, HeadingBytes DEF h
  <1>20. Holds(b, 7, p0) /\ Holds(b, 10, Link!EffectBytes(m.effect))
    BY <1>8, <1>12, <1>6, <1>18, SplitString
  <1>21. Link!EffectAt(Link!EffectWire(m.effect)[1], b, 10) = m.effect
         /\ Link!EffectOK(Link!EffectWire(m.effect)[1], b, 10)
    BY <1>1, <1>4, <1>5, <1>20
  <1>22. b[7] = m.layer /\ b[8] = m.slot /\ b[9] = Link!EffectWire(m.effect)[1]
    BY <1>20 DEF Holds, p0
  <1>23. Link!decode(b) = m
    BY <1>1, <1>4, <1>5, <1>2, <1>16, <1>19, <1>21, <1>20, <1>22 DEF Link!DecodeArm,
       Link!DecodeSceneCell, Link!Headed, Link!Checked
  <1> QED
    BY <1>16, <1>23 DEF b

\* A panic location arrives with the length of its text.
LEMMA DebugPanicLocArrives ==
    ASSUME Link!LinkAssumption, NEW m \in Link!DebugPanicLocs
    PROVE  Link!encode(m) \in BytePackets /\ Link!decode(Link!encode(m)) = m
  <1> DEFINE b == Link!encode(m)
             p0 == <<Link!AtMost(m.len, 23)>>
             p1 == p0 \o m.text
             p == <<2, p1>>
             puts == {p}
  <1>1. /\ m.name = "DebugPanicLoc" /\ m.len \in 0 .. 23
        /\ m.text \in [1 .. 23 -> Link!Byte]
    BY DEF Link!DebugPanicLocs
  <1>2. m = [name |-> "DebugPanicLoc", len |-> m.len, text |-> m.text]
    BY DEF Link!DebugPanicLocs
  <1>3. b = Link!Packet("DebugPanicLoc", puts)
    BY <1>1 DEF Link!encode, Link!EncodeSmall
  <1>4. Long(m.text, 23) /\ Len(m.text) = 23 /\ m.text = [i \in 1 .. 23 |-> m.text[i]]
    BY <1>1, LongText DEF Long
  <1>5. Link!AtMost(m.len, 23) = m.len /\ m.len \in Link!Byte
    BY <1>1 DEF Link!AtMost, Link!Byte
  <1>6. Long(p0, 1)
    BY <1>1, <1>4, <1>5 DEF Long
  <1>7. p[1] = 2 /\ p[2] = p1
    OBVIOUS
  <1>8. p1 = p0 \o m.text
    OBVIOUS
  <1>9. puts = {p}
    OBVIOUS
  <1>10. "DebugPanicLoc" \in DOMAIN Link!Layout /\ Link!LengthOf("DebugPanicLoc") = 26
    BY DEF Link!Layout, Link!LengthOf
  <1> HIDE DEF b, p0, p1, p, puts
  <1>11. Long(m.text, 23)
    BY <1>1, <1>4, <1>5
  <1>12. Long(p1, 24)
    BY <1>8, <1>11, <1>6, JoinString
  <1>13. String(p, 2, 24)
    BY <1>7, <1>12 DEF String
  <1>14. Apart({p}, 2 + 24)
    BY <1>13, ApartOne
  <1>15. Apart(puts, 26)
    BY <1>9, <1>14
  <1>16. /\ b \in BytePackets /\ Link!decode(b) = Link!DecodeArm("DebugPanicLoc", b)
         /\ \A w \in puts : Holds(b, w[1], w[2])
    BY <1>3, <1>10, <1>15, Crossing
  <1>17. Holds(b, 2, p1)
    BY <1>7, <1>9, <1>16
  <1>18. Holds(b, 2, p0) /\ Holds(b, 3, m.text)
    BY <1>8, <1>11, <1>6, <1>17, SplitString
  <1>19. \A i \in 1 .. 23 : b[i + 2] = m.text[i]
    <2> TAKE i \in 1 .. 23
    <2>1. 3 + (i - 1) = i + 2
      OBVIOUS
    <2>2. b[3 + (i - 1)] = m.text[i]
      BY <1>4, <1>18 DEF Holds
    <2> QED
      BY <2>1, <2>2
  <1>20. b[2] = Link!AtMost(m.len, 23)
    BY <1>18 DEF Holds, p0
  <1>21. Link!decode(b) = m
    BY <1>1, <1>4, <1>5, <1>2, <1>16, <1>19, <1>18, <1>20 DEF Link!DecodeArm, Link!DecodeSmall
  <1> QED
    BY <1>16, <1>21 DEF b

\* A page arrives with all four colours, those behind its length included.
LEMMA FrameChunkArrives ==
    ASSUME Link!LinkAssumption, NEW m \in Link!FrameChunks
    PROVE  Link!encode(m) \in BytePackets /\ Link!decode(Link!encode(m)) = m
  <1> DEFINE b == Link!encode(m)
             p0 == <<m.request_id, Link!Bit(m.revision # None)>>
             p1 == p0 \o Link!put_u32(Link!OrElse(m.revision, <<0, 0>>))
             p == <<2, p1>>
             q0 == Link!put_u16(m.total)
             q1 == q0 \o Link!put_u16(m.start)
             q2 == q1 \o <<m.len>>
             q == <<8, q2>>
             r0 == m.cells[1]
             r1 == r0 \o m.cells[2]
             r2 == r1 \o m.cells[3]
             r3 == r2 \o m.cells[4]
             r == <<13, r3>>
             puts == {p, q, r}
  <1>1. /\ m.name = "FrameChunk" /\ m.request_id \in Link!Byte
        /\ m.revision \in Link!Maybe(Link!u32)
        /\ m.total \in Link!Word /\ m.start \in Link!Word /\ m.len \in 0 .. Link!FRAME_CHUNK_CELLS
        /\ m.cells \in [1 .. Link!FRAME_CHUNK_CELLS -> Link!Color]
    BY DEF Link!FrameChunks
  <1>2. m = [name |-> "FrameChunk", request_id |-> m.request_id,
              revision |-> m.revision, total |-> m.total, start |-> m.start,
              len |-> m.len, cells |-> m.cells]
    BY DEF Link!FrameChunks
  <1>3. b = Link!Packet("FrameChunk", puts)
    BY <1>1 DEF Link!encode, Link!EncodeFrameChunk
  <1>4. /\ Link!OrElse(m.revision, <<0, 0>>) \in Link!u32
        /\ Link!Bit(m.revision # None) \in Link!Byte
        /\ Link!FlagOK(Link!Bit(m.revision # None))
        /\ m.revision = (IF Link!flag(Link!Bit(m.revision # None))
                                  THEN Link!OrElse(m.revision, <<0, 0>>) ELSE None)
    BY <1>1, AbsentRevision
  <1>5. /\ m.cells[1] \in Link!Color /\ m.cells[2] \in Link!Color /\ m.cells[3] \in Link!Color
        /\ m.cells[4] \in Link!Color
        /\ m.cells = [i \in 1 .. 4 |-> m.cells[i]]
        /\ m.len \in Link!Byte /\ m.len <= Link!FRAME_CHUNK_CELLS
    BY <1>1 DEF Link!FRAME_CHUNK_CELLS, Link!Byte
  <1>6. Long(p0, 2)
    BY <1>1, <1>4, <1>5, LongInteger, ColorBytes DEF Long
  <1>7. Long(q0, 2)
    BY <1>1, <1>4, <1>5, LongInteger, ColorBytes DEF Long
  <1>8. Long(r0, 3)
    BY <1>1, <1>4, <1>5, LongInteger, ColorBytes DEF Long
  <1>9. p[1] = 2 /\ p[2] = p1
    OBVIOUS
  <1>10. p1 = p0 \o Link!put_u32(Link!OrElse(m.revision, <<0, 0>>))
    OBVIOUS
  <1>11. q[1] = 8 /\ q[2] = q2
    OBVIOUS
  <1>12. q1 = q0 \o Link!put_u16(m.start)
    OBVIOUS
  <1>13. q2 = q1 \o <<m.len>>
    OBVIOUS
  <1>14. r[1] = 13 /\ r[2] = r3
    OBVIOUS
  <1>15. r1 = r0 \o m.cells[2]
    OBVIOUS
  <1>16. r2 = r1 \o m.cells[3]
    OBVIOUS
  <1>17. r3 = r2 \o m.cells[4]
    OBVIOUS
  <1>18. puts = {p, q, r}
    OBVIOUS
  <1>19. "FrameChunk" \in DOMAIN Link!Layout /\ Link!LengthOf("FrameChunk") = 25
    BY DEF Link!Layout, Link!LengthOf
  <1> HIDE DEF b, p0, p1, p, q0, q1, q2, q, r0, r1, r2, r3, r, puts
  <1>20. Long(p1, 6)
    BY <1>1, <1>4, <1>5, <1>10, <1>6, Join32
  <1>21. Long(q1, 4)
    BY <1>1, <1>4, <1>5, <1>12, <1>7, Join16
  <1>22. Long(<<m.len>>, 1)
    BY <1>1, <1>4, <1>5, ByteLong
  <1>23. Long(q2, 5)
    BY <1>13, <1>22, <1>21, JoinString
  <1>24. Long(m.cells[2], 3)
    BY <1>1, <1>4, <1>5, ColorBytes
  <1>25. Long(r1, 6)
    BY <1>15, <1>24, <1>8, JoinString
  <1>26. Long(m.cells[3], 3)
    BY <1>1, <1>4, <1>5, ColorBytes
  <1>27. Long(r2, 9)
    BY <1>16, <1>26, <1>25, JoinString
  <1>28. Long(m.cells[4], 3)
    BY <1>1, <1>4, <1>5, ColorBytes
  <1>29. Long(r3, 12)
    BY <1>17, <1>28, <1>27, JoinString
  <1>30. String(p, 2, 6)
    BY <1>9, <1>20 DEF String
  <1>31. String(q, 8, 5)
    BY <1>11, <1>23 DEF String
  <1>32. String(r, 13, 12)
    BY <1>14, <1>29 DEF String
  <1>33. Apart(puts, 25)
    BY <1>30, <1>31, <1>32, <1>18, ApartThree
  <1>34. /\ b \in BytePackets /\ Link!decode(b) = Link!DecodeArm("FrameChunk", b)
         /\ \A w \in puts : Holds(b, w[1], w[2])
    BY <1>3, <1>19, <1>33, Crossing
  <1>35. Holds(b, 2, p1)
    BY <1>9, <1>18, <1>34
  <1>36. Holds(b, 8, q2)
    BY <1>11, <1>18, <1>34
  <1>37. Holds(b, 13, r3)
    BY <1>14, <1>18, <1>34
  <1>38. Holds(b, 2, p0) /\ Link!get_u32(b, 4) = Link!OrElse(m.revision, <<0, 0>>)
    BY <1>1, <1>4, <1>5, <1>10, <1>6, <1>35, Split32
  <1>39. b[2] = m.request_id /\ b[3] = Link!Bit(m.revision # None)
    BY <1>38 DEF Holds, p0
  <1>40. Holds(b, 8, q1) /\ Holds(b, 12, <<m.len>>)
    BY <1>13, <1>22, <1>21, <1>36, SplitString
  <1>41. b[12] = m.len
    BY <1>40 DEF Holds
  <1>42. Holds(b, 8, q0) /\ Link!get_u16(b, 10) = m.start
    BY <1>1, <1>4, <1>5, <1>12, <1>7, <1>40, Split16
  <1>43. Link!get_u16(b, 8) = m.total
    BY <1>1, <1>4, <1>5, <1>42, Read16 DEF q0
  <1>44. Holds(b, 13, r2) /\ Holds(b, 22, m.cells[4])
    BY <1>17, <1>28, <1>27, <1>37, SplitString
  <1>45. <<b[22], b[23], b[24]>> = m.cells[4]
    BY <1>1, <1>4, <1>5, <1>44, ColorBytes
  <1>46. Holds(b, 13, r1) /\ Holds(b, 19, m.cells[3])
    BY <1>16, <1>26, <1>25, <1>44, SplitString
  <1>47. <<b[19], b[20], b[21]>> = m.cells[3]
    BY <1>1, <1>4, <1>5, <1>46, ColorBytes
  <1>48. Holds(b, 13, r0) /\ Holds(b, 16, m.cells[2])
    BY <1>15, <1>24, <1>8, <1>46, SplitString
  <1>49. <<b[16], b[17], b[18]>> = m.cells[2]
    BY <1>1, <1>4, <1>5, <1>48, ColorBytes
  <1>50. <<b[13], b[14], b[15]>> = m.cells[1]
    BY <1>1, <1>4, <1>5, <1>48, ColorBytes DEF r0
  <1>51. /\ Link!FlagOK(b[3])
         /\ (IF Link!flag(b[3]) THEN Link!get_u32(b, 4) ELSE None) = m.revision
    BY <1>1, <1>4, <1>5, <1>38, <1>39, <1>41, <1>40, <1>42, <1>43, <1>45, <1>44, <1>47, <1>46,
       <1>49, <1>48, <1>50
  <1>52. m.cells = [i \in 1 .. 4 |->
                LET at == 13 + 3 * (i - 1) IN <<b[at], b[at + 1], b[at + 2]>>]
    <2> DEFINE cell(i) == LET at == 13 + 3 * (i - 1) IN <<b[at], b[at + 1], b[at + 2]>>
    <2>1. /\ cell(1) = <<b[13], b[14], b[15]>> /\ cell(2) = <<b[16], b[17], b[18]>>
          /\ cell(3) = <<b[19], b[20], b[21]>> /\ cell(4) = <<b[22], b[23], b[24]>>
      OBVIOUS
    <2>2. \A i \in 1 .. 4 : cell(i) = m.cells[i]
      <3> HIDE DEF cell
      <3> TAKE i \in 1 .. 4
      <3>1. i = 1 \/ i = 2 \/ i = 3 \/ i = 4
        OBVIOUS
      <3> QED
        BY <1>45, <1>47, <1>49, <1>50, <2>1, <3>1
    <2>3. m.cells = [i \in 1 .. 4 |-> m.cells[i]]
      BY <1>5
    <2> QED
      BY <2>2, <2>3
  <1>53. Link!decode(b) = m
    BY <1>1, <1>4, <1>5, <1>2, <1>34, <1>38, <1>39, <1>41, <1>40, <1>42, <1>43, <1>45, <1>44,
       <1>47, <1>46, <1>49, <1>48, <1>50, <1>51, <1>52 DEF Link!DecodeArm,
       Link!DecodeFrameChunk, Link!Checked, Link!FRAME_CHUNK_CELLS
  <1> QED
    BY <1>34, <1>53 DEF b

\* The array of parameters is no longer than a byte counts.
LEMMA ParamChunk ==
    ASSUME Link!LinkAssumption
    PROVE  EXTENSION_PARAM_CHUNK \in Nat /\ EXTENSION_PARAM_CHUNK <= 255
  <1>1. EXTENSION_PARAM_CHUNK \in Link!Byte
    BY DEF Link!LinkAssumption
  <1> QED
    BY <1>1 DEF Link!Byte

\* The parameters of an effect, and none.
LEMMA ParamsCross ==
    ASSUME Link!LinkAssumption, NEW params \in Link!Maybe(Link!ExtensionReplicaParams),
           params # None => Len(params.values) \in 1 .. EXTENSION_PARAM_CHUNK
    PROVE  /\ \E n \in 0 .. 2 + EXTENSION_PARAM_CHUNK :
                Long(Link!ParamBytes(params), n) /\ (params = None => n = 0)
           /\ \A b : \A at \in Nat :
                Holds(b, at, Link!ParamBytes(params)) /\ (params = None => b[at] = 0) =>
                    Link!ParamsOK(b, at) /\ Link!ParamsAt(b, at) = params
  <1>0. EXTENSION_PARAM_CHUNK \in Nat /\ EXTENSION_PARAM_CHUNK <= 255
    BY ParamChunk
  <1>1. CASE params = None
    <2>1. Link!ParamBytes(params) = <<>> /\ Long(<<>>, 0)
      BY <1>1 DEF Link!ParamBytes, Long
    <2>2. ASSUME NEW b, NEW at \in Nat, b[at] = 0
          PROVE  Link!ParamsOK(b, at) /\ Link!ParamsAt(b, at) = params
      BY <1>0, <1>1, <2>2 DEF Link!ParamsOK, Link!ParamsAt
    <2> QED
      BY <1>0, <1>1, <2>1, <2>2
  <1>2. CASE params # None
    <2> DEFINE v == params.values
               n == Len(v)
               head == <<n, params.effect>>
    <2>1. /\ params.effect \in Link!Byte /\ v \in Seq(Link!Byte)
          /\ n \in 1 .. EXTENSION_PARAM_CHUNK
          /\ params = [effect |-> params.effect, values |-> v]
      BY <1>2 DEF Link!Maybe, Link!ExtensionReplicaParams
    <2>2. Link!ParamBytes(params) = head \o v
      BY <1>2 DEF Link!ParamBytes
    <2>3. v = [i \in 1 .. n |-> v[i]]
      BY <2>1, LenProperties
    <2>4. head \in Seq(Link!Byte) /\ Len(head) = 2
      <3>1. n \in Link!Byte
        <4> HIDE DEF n, v
        <4>1. n \in Int /\ 0 <= n /\ n <= 255
          BY <1>0, <2>1
        <4> QED
          BY <4>1 DEF Link!Byte
      <3> QED
        BY <2>1, <3>1
    <2>5. head[1] = n /\ head[2] = params.effect
      OBVIOUS
    <2>6. n = Len(v)
      OBVIOUS
    <2> HIDE DEF v, n, head
    <2>7. n \in Nat /\ n # 0 /\ n <= EXTENSION_PARAM_CHUNK
      BY <1>0, <2>1
    <2>8. Long(head, 2) /\ Long(v, n)
      BY <2>1, <2>4, <2>6, <2>7 DEF Long
    <2>9. Long(head \o v, 2 + n) /\ 2 + n \in 0 .. 2 + EXTENSION_PARAM_CHUNK
      BY <1>0, <2>7, <2>8, LongJoin
    <2>10. ASSUME NEW b, NEW at \in Nat, Holds(b, at, head \o v)
           PROVE  Link!ParamsOK(b, at) /\ Link!ParamsAt(b, at) = params
      <3>1. Holds(b, at, head) /\ Holds(b, at + 2, v)
        BY <2>8, <2>10, LongJoin
      <3>2. b[at] = n /\ b[at + 1] = params.effect
        BY <2>4, <2>5, <3>1 DEF Holds
      <3>3. ASSUME NEW i \in 1 .. n PROVE b[at + 1 + i] = v[i]
        <4>1. b[at + 2 + (i - 1)] = v[i]
          BY <2>6, <3>1 DEF Holds
        <4>2. at + 2 + (i - 1) = at + 1 + i
          BY <2>7
        <4> QED
          BY <4>1, <4>2
      <3>4. [i \in 1 .. b[at] |-> b[at + 1 + i]] = v
        BY <2>3, <3>2, <3>3
      <3> QED
        BY <2>1, <2>7, <3>2, <3>4 DEF Link!ParamsOK, Link!ParamsAt
    <2> QED
      BY <1>2, <2>2, <2>9, <2>10
  <1> QED
    BY <1>1, <1>2

\* An option behind the heading and parameters behind it, each of which may be
\* absent: what is not written is zero.
OptionPacket(name, m, at, option, k, params, b) ==
    /\ name \in DOMAIN Link!Layout /\ m.generation \in Link!Byte /\ m.revision \in Link!u32
    /\ at \in Nat /\ Long(option, k) /\ 7 + k <= at /\ at > 7
    /\ params \in Link!Maybe(Link!ExtensionReplicaParams)
    /\ params # None => Len(params.values) \in 1 .. EXTENSION_PARAM_CHUNK
    /\ Link!LengthOf(name) = at + 2 + EXTENSION_PARAM_CHUNK
    /\ b = Link!Packet(name, {Link!Heading(m), <<7, option>>, <<at, Link!ParamBytes(params)>>})

\* Such a packet is read back: the option where it was put, the parameters where
\* they were, and zero where there was none.
LEMMA OptionCrosses ==
    ASSUME Link!LinkAssumption, NEW name, NEW m, NEW at, NEW option, NEW k, NEW params, NEW b,
           OptionPacket(name, m, at, option, k, params, b)
    PROVE  /\ b \in BytePackets /\ Link!decode(b) = Link!DecodeArm(name, b)
           /\ b[2] = m.generation /\ Link!get_u32(b, 3) = m.revision
           /\ Holds(b, 7, option) /\ (k = 0 => b[7] = 0)
           /\ Link!ParamsOK(b, at) /\ Link!ParamsAt(b, at) = params
  <1>1. /\ name \in DOMAIN Link!Layout /\ m.generation \in Link!Byte /\ m.revision \in Link!u32
        /\ at \in Nat /\ Long(option, k) /\ 7 + k <= at /\ at > 7
        /\ params \in Link!Maybe(Link!ExtensionReplicaParams)
        /\ params # None => Len(params.values) \in 1 .. EXTENSION_PARAM_CHUNK
        /\ Link!LengthOf(name) = at + 2 + EXTENSION_PARAM_CHUNK
        /\ b = Link!Packet(name,
             {Link!Heading(m), <<7, option>>, <<at, Link!ParamBytes(params)>>})
    BY DEF OptionPacket
  <1> DEFINE l == Link!LengthOf(name)
             h == Link!Heading(m)
             p == <<7, option>>
             w == Link!ParamBytes(params)
             q == <<at, w>>
             puts == {h, p, q}
  <1>2. EXTENSION_PARAM_CHUNK \in Nat /\ k \in Nat
    BY <1>1, ParamChunk DEF Long
  <1>3. PICK n \in 0 .. 2 + EXTENSION_PARAM_CHUNK : Long(w, n) /\ (params = None => n = 0)
    BY <1>1, ParamsCross
  <1> DEFINE end == at + n
  <1>4. n \in Nat /\ end \in Nat /\ end <= l
    BY <1>2, <1>3, <1>1
  <1>5. String(h, 2, 5)
    BY <1>1, HeadingBytes
  <1>6. p[1] = 7 /\ p[2] = option /\ q[1] = at /\ q[2] = w
    OBVIOUS
  <1>7. b = Link!Packet(name, puts)
    BY <1>1
  <1>8. puts = {h, p, q}
    OBVIOUS
  <1>9. l = Link!LengthOf(name) /\ l = at + 2 + EXTENSION_PARAM_CHUNK /\ l \in Nat /\ end = at + n
    BY <1>2, <1>1
  <1>10. \A c : Holds(c, 2, h[2]) => c[2] = m.generation /\ Link!get_u32(c, 3) = m.revision
    BY <1>1, HeadingBytes
  <1>11. \A c : Holds(c, at, w) /\ (params = None => c[at] = 0) =>
             Link!ParamsOK(c, at) /\ Link!ParamsAt(c, at) = params
    BY <1>1, ParamsCross
  <1> HIDE DEF l, h, p, w, q, puts, end
  <1>12. String(p, 7, k) /\ String(q, at, n)
    BY <1>3, <1>6, <1>1 DEF String
  <1>13. Apart(puts, end)
    BY <1>2, <1>4, <1>5, <1>8, <1>9, <1>12, <1>1, ApartThree
  <1>14. /\ b \in BytePackets /\ Link!decode(b) = Link!DecodeArm(name, b)
         /\ \A r \in puts : Holds(b, r[1], r[2])
         /\ \A i \in 2 .. l - 1 :
              (\A r \in puts : i < r[1] \/ i >= r[1] + Len(r[2])) => b[i] = 0
    BY <1>4, <1>7, <1>9, <1>13, <1>1, Crossing
  <1>15. Holds(b, 2, h[2]) /\ Holds(b, 7, option) /\ Holds(b, at, w)
    BY <1>5, <1>6, <1>8, <1>14 DEF String
  <1>16. /\ h[1] = 2 /\ Len(h[2]) = 5 /\ p[1] = 7 /\ Len(p[2]) = k
         /\ q[1] = at /\ Len(q[2]) = n
    BY <1>5, <1>12, <1>1 DEF String, Long
  <1>17. ASSUME k = 0 PROVE b[7] = 0
    <2>1. 7 \in 2 .. l - 1
      BY <1>2, <1>9, <1>1
    <2>2. \A r \in puts : 7 < r[1] \/ 7 >= r[1] + Len(r[2])
      <3>1. 7 >= h[1] + Len(h[2]) /\ 7 >= p[1] + Len(p[2]) /\ 7 < q[1]
        BY <1>16, <1>17, <1>1
      <3> QED
        BY <1>8, <3>1
    <2> QED
      BY <1>14, <2>1, <2>2
  <1>18. ASSUME params = None PROVE b[at] = 0
    <2>1. at \in 2 .. l - 1 /\ n = 0
      BY <1>2, <1>3, <1>9, <1>18, <1>1
    <2>2. \A r \in puts : at < r[1] \/ at >= r[1] + Len(r[2])
      <3>1. at >= h[1] + Len(h[2]) /\ at >= p[1] + Len(p[2]) /\ at >= q[1] + Len(q[2])
        BY <1>2, <1>16, <1>1, <2>1
      <3> QED
        BY <1>8, <3>1
    <2> QED
      BY <1>14, <2>1, <2>2
  <1> QED
    BY <1>10, <1>11, <1>14, <1>15, <1>17, <1>18

\* An extension arrives with its parameters, either of which may be absent.
LEMMA ExtensionArrives ==
    ASSUME Link!LinkAssumption, NEW m \in Link!Extensions, Link!ParamsFit(m)
    PROVE  Link!encode(m) \in BytePackets /\ Link!decode(Link!encode(m)) = m
  <1> DEFINE b == Link!encode(m)
             e == m.extension
             option == IF e = None THEN <<>> ELSE <<1, e.effect, e.palette, e.value, e.speed>>
             k == IF e = None THEN 0 ELSE 5
  <1>1. /\ m.name = "Extension" /\ m.generation \in Link!Byte /\ m.revision \in Link!u32
        /\ e \in Link!Maybe(Link!ExtensionState)
        /\ m.params \in Link!Maybe(Link!ExtensionReplicaParams)
        /\ m.params # None => Len(m.params.values) \in 1 .. EXTENSION_PARAM_CHUNK
        /\ m = [name |-> "Extension", generation |-> m.generation, revision |-> m.revision,
                extension |-> e, params |-> m.params]
    BY DEF Link!Extensions, Link!ParamsFit
  <1>2. b = Link!Packet("Extension",
          {Link!Heading(m), <<7, option>>, <<12, Link!ParamBytes(m.params)>>})
    BY <1>1 DEF Link!encode, Link!EncodeExtension
  <1>3. e # None => /\ e.effect \in Link!Byte /\ e.palette \in Link!Byte /\ e.value \in Link!Byte
                    /\ e.speed \in Link!Byte
                    /\ e = [effect |-> e.effect, palette |-> e.palette, value |-> e.value,
                            speed |-> e.speed]
    BY <1>1 DEF Link!Maybe, Link!ExtensionState
  <1>4. 0 \in Link!Byte /\ 1 \in Link!Byte
    BY DEF Link!Byte
  <1>5. Long(option, k)
    <2>1. Long(<<>>, 0)
      BY DEF Long
    <2>2. e # None => Long(<<1, e.effect, e.palette, e.value, e.speed>>, 5)
      BY <1>3, <1>4 DEF Long
    <2> QED
      BY <2>1, <2>2
  <1>6. "Extension" \in DOMAIN Link!Layout
        /\ Link!LengthOf("Extension") = 14 + EXTENSION_PARAM_CHUNK
    BY DEF Link!Layout, Link!LengthOf
  <1>7. Link!LengthOf("Extension") = 12 + 2 + EXTENSION_PARAM_CHUNK
    BY <1>6, ParamChunk
  <1>8. k \in {0, 5} /\ (k = 0 <=> e = None)
    OBVIOUS
  <1> HIDE DEF b, option, k
  <1>9. /\ b \in BytePackets /\ Link!decode(b) = Link!DecodeArm("Extension", b)
        /\ b[2] = m.generation /\ Link!get_u32(b, 3) = m.revision
        /\ Holds(b, 7, option) /\ (k = 0 => b[7] = 0)
        /\ Link!ParamsOK(b, 12) /\ Link!ParamsAt(b, 12) = m.params
    <2>1. 7 + k <= 12 /\ 12 \in Nat /\ 12 > 7
      BY <1>8
    <2>2. OptionPacket("Extension", m, 12, option, k, m.params, b)
      BY <1>1, <1>2, <1>5, <1>6, <1>7, <2>1 DEF OptionPacket
    <2> QED
      BY <2>2, OptionCrosses
  <1>10. e # None => /\ b[7] = 1 /\ b[8] = e.effect /\ b[9] = e.palette /\ b[10] = e.value
                     /\ b[11] = e.speed
    BY <1>9 DEF option, Holds
  <1>11. /\ Link!FlagOK(b[7])
         /\ (IF Link!flag(b[7]) THEN [effect |-> b[8], palette |-> b[9], value |-> b[10],
                                 speed |-> b[11]]
             ELSE None) = e
    BY <1>3, <1>8, <1>9, <1>10 DEF Link!FlagOK, Link!flag
  <1>12. Link!decode(b) = m
    BY <1>1, <1>9, <1>11 DEF Link!DecodeArm, Link!DecodeExtension, Link!Headed, Link!Checked
  <1> QED
    BY <1>9, <1>12 DEF b

\* An overlay of an extension arrives in the same way.
LEMMA ExtensionOverlayArrives ==
    ASSUME Link!LinkAssumption, NEW m \in Link!ExtensionOverlays, Link!ParamsFit(m)
    PROVE  Link!encode(m) \in BytePackets /\ Link!decode(Link!encode(m)) = m
  <1> DEFINE b == Link!encode(m)
             e == m.overlay
             option == IF e = None THEN <<>> ELSE <<1, e>>
             k == IF e = None THEN 0 ELSE 2
  <1>1. /\ m.name = "ExtensionOverlay" /\ m.generation \in Link!Byte /\ m.revision \in Link!u32
        /\ e \in Link!Maybe(Link!Byte) /\ m.params \in Link!Maybe(Link!ExtensionReplicaParams)
        /\ m.params # None => Len(m.params.values) \in 1 .. EXTENSION_PARAM_CHUNK
        /\ m = [name |-> "ExtensionOverlay", generation |-> m.generation,
                revision |-> m.revision, overlay |-> e, params |-> m.params]
    BY DEF Link!ExtensionOverlays, Link!ParamsFit
  <1>2. b = Link!Packet("ExtensionOverlay",
                   {Link!Heading(m), <<7, option>>, <<9, Link!ParamBytes(m.params)>>})
    BY <1>1 DEF Link!encode, Link!EncodeExtensionOverlay
  <1>3. e # None => e \in Link!Byte
    BY <1>1 DEF Link!Maybe
  <1>4. 0 \in Link!Byte /\ 1 \in Link!Byte
    BY DEF Link!Byte
  <1>5. Long(option, k)
    <2>1. Long(<<>>, 0)
      BY DEF Long
    <2>2. e # None => Long(<<1, e>>, 2)
      BY <1>3, <1>4 DEF Long
    <2> QED
      BY <2>1, <2>2
  <1>6. /\ "ExtensionOverlay" \in DOMAIN Link!Layout
        /\ Link!LengthOf("ExtensionOverlay") = 11 + EXTENSION_PARAM_CHUNK
    BY DEF Link!Layout, Link!LengthOf
  <1>7. Link!LengthOf("ExtensionOverlay") = 9 + 2 + EXTENSION_PARAM_CHUNK
    BY <1>6, ParamChunk
  <1>8. k \in {0, 2} /\ (k = 0 <=> e = None)
    OBVIOUS
  <1> HIDE DEF b, option, k
  <1>9. /\ b \in BytePackets /\ Link!decode(b) = Link!DecodeArm("ExtensionOverlay", b)
        /\ b[2] = m.generation /\ Link!get_u32(b, 3) = m.revision
        /\ Holds(b, 7, option) /\ (k = 0 => b[7] = 0)
        /\ Link!ParamsOK(b, 9) /\ Link!ParamsAt(b, 9) = m.params
    <2>1. 7 + k <= 9 /\ 9 \in Nat /\ 9 > 7
      BY <1>8
    <2>2. OptionPacket("ExtensionOverlay", m, 9, option, k, m.params, b)
      BY <1>1, <1>2, <1>5, <1>6, <1>7, <2>1 DEF OptionPacket
    <2> QED
      BY <2>2, OptionCrosses
  <1>10. e # None => b[7] = 1 /\ b[8] = e
    BY <1>9 DEF option, Holds
  <1>11. Link!FlagOK(b[7]) /\ (IF Link!flag(b[7]) THEN b[8] ELSE None) = e
    BY <1>8, <1>9, <1>10 DEF Link!FlagOK, Link!flag
  <1>12. Link!decode(b) = m
    BY <1>1, <1>9, <1>11 DEF Link!DecodeArm, Link!DecodeExtensionOverlay, Link!Headed,
       Link!Checked
  <1> QED
    BY <1>9, <1>12 DEF b

\* The two bytes that share the kind of the effect with the slot and the layer
\* gate of a rule.
LEMMA SlotKind ==
    ASSUME NEW slot \in 0 .. 127, NEW kind \in 0 .. 2
    PROVE  /\ slot + 128 * (kind % 2) \in Link!Byte
           /\ (slot + 128 * (kind % 2)) % 128 = slot
           /\ (slot + 128 * (kind % 2)) \div 128 = kind % 2
  <1>1. PICK i \in {0, 1} : i = kind % 2
    OBVIOUS
  <1>2. slot + 128 * i \in 0 .. 255 /\ (slot + 128 * i) % 128 = slot
        /\ (slot + 128 * i) \div 128 = i
    BY <1>1
  <1> QED
    BY <1>1, <1>2 DEF Link!Byte

\* The first byte of a rule's gates: the layer, its sense and the upper bit of
\* the effect's kind are read back.
LEMMA LayerKind ==
    ASSUME Link!LinkAssumption, NEW layer \in Link!Maybe(Link!LayerCondition),
           NEW kind \in 0 .. 2,
           NEW byte,
           byte = (IF layer = None THEN 63 ELSE (layer.layer % 64) + 64 * Link!Bit(layer.active))
                    + 128 * (kind \div 2)
    PROVE  /\ byte \in Link!Byte /\ byte \div 128 = kind \div 2
           /\ layer = (IF byte % 64 = 63 THEN None
                       ELSE [layer |-> byte % 64, active |-> Link!HasBit(byte, 6)])
  <1>1. PICK i \in {0, 1} : i = kind \div 2
    OBVIOUS
  <1>2. 2^6 = 64
    OBVIOUS
  <1>3. CASE layer = None
    <2>1. byte = 63 + 128 * i
      BY <1>1, <1>3
    <2>2. byte \in 0 .. 255 /\ byte \div 128 = i /\ byte % 64 = 63
      BY <2>1
    <2> QED
      BY <1>1, <1>3, <2>2 DEF Link!Byte
  <1>4. CASE layer # None
    <2> DEFINE n == layer.layer
    <2>1. /\ n \in 0 .. 62 /\ layer.active \in BOOLEAN
          /\ layer = [layer |-> n, active |-> layer.active]
      BY <1>4 DEF Link!Maybe, Link!LayerCondition
    <2>2. PICK j \in {0, 1} : j = Link!Bit(layer.active) /\ (j = 1) = layer.active
      BY <2>1 DEF Link!Bit
    <2>3. byte = (n % 64) + 64 * j + 128 * i
      BY <1>1, <1>4, <2>2
    <2> HIDE DEF n
    <2>4. byte = n + 64 * j + 128 * i
      BY <2>1, <2>3
    <2>5. byte \in 0 .. 255 /\ byte \div 128 = i /\ byte % 64 = n
      BY <2>1, <2>4
    <2>6. (byte \div 64) % 2 = j
      <3>1. byte \div 64 = j + 2 * i
        BY <2>1, <2>4
      <3> QED
        BY <3>1
    <2>7. Link!HasBit(byte, 6) = layer.active
      BY <1>2, <2>1, <2>2, <2>6 DEF Link!HasBit
    <2>8. n # 63
      BY <2>1
    <2> QED
      BY <1>1, <2>1, <2>5, <2>7, <2>8 DEF Link!Byte
  <1> QED
    BY <1>3, <1>4

\* The battery gate of a rule, and its output mode.
LEMMA BatteryGate ==
    ASSUME Link!LinkAssumption, NEW battery \in Link!Maybe(Link!BatteryCondition), NEW s,
           s = (IF battery = None THEN <<Link!MAX, Link!MAX, Link!MAX>>
                ELSE <<(battery.node % 64) +
                  64 * Link!Code(Link!ChargeConditions, battery.charge),
                       Link!OrElse(battery.min_level, Link!MAX),
                       Link!OrElse(battery.max_level, Link!MAX)>>)
    PROVE  /\ Long(s, 3)
           /\ battery = (IF s[1] = Link!MAX THEN None
                         ELSE [node |-> s[1] % 64, min_level |-> Link!Unless(s[2], Link!MAX),
                               max_level |-> Link!Unless(s[3], Link!MAX),
                               charge |-> Link!Name(Link!ChargeConditions, s[1] \div 64)])
  <1>1. Link!MAX = 255 /\ 255 \in Link!Byte /\ 0 .. 100 \subseteq Link!Byte
        /\ None \notin Link!Byte
    BY DEF Link!MAX, Link!Byte, Link!LinkAssumption
  <1>2. CASE battery = None
    <2>1. s = <<255, 255, 255>>
      BY <1>1, <1>2
    <2> QED
      BY <1>1, <1>2, <2>1 DEF Long
  <1>3. CASE battery # None
    <2> DEFINE n == battery.node
               c == Link!Code(Link!ChargeConditions, battery.charge)
               first == (n % 64) + 64 * c
               low == Link!OrElse(battery.min_level, Link!MAX)
               high == Link!OrElse(battery.max_level, Link!MAX)
    <2>1. /\ n \in 0 .. 62 /\ battery.min_level \in Link!Maybe(0 .. 100)
          /\ battery.max_level \in Link!Maybe(0 .. 100)
          /\ battery.charge \in Link!Range(Link!ChargeConditions)
          /\ battery = [node |-> n, min_level |-> battery.min_level,
                        max_level |-> battery.max_level, charge |-> battery.charge]
      BY <1>3 DEF Link!Maybe, Link!BatteryCondition
    <2>2. c \in 0 .. 3 /\ Link!Name(Link!ChargeConditions, c) = battery.charge
      BY <2>1, ChargeCode
    <2>3. /\ low \in Link!Byte /\ Link!Unless(low, Link!MAX) = battery.min_level
          /\ high \in Link!Byte /\ Link!Unless(high, Link!MAX) = battery.max_level
      BY <1>1, <2>1 DEF Link!OrElse, Link!Unless, Link!Maybe
    <2>4. s = <<first, low, high>>
      BY <1>3
    <2>5. first = (n % 64) + 64 * c
      OBVIOUS
    <2> HIDE DEF n, c, first, low, high
    <2>6. first = n + 64 * c
      BY <2>1, <2>2, <2>5
    <2>7. first \in 0 .. 255 /\ first # 255 /\ first % 64 = n /\ first \div 64 = c
      BY <2>1, <2>2, <2>6
    <2>8. first \in Link!Byte
      BY <2>7 DEF Link!Byte
    <2>9. Long(s, 3) /\ s[1] = first /\ s[2] = low /\ s[3] = high
      BY <2>3, <2>4, <2>8 DEF Long
    <2> QED
      BY <1>1, <2>1, <2>2, <2>3, <2>7, <2>9
  <1> QED
    BY <1>2, <1>3

\* The gate of the output mode is read back.
LEMMA ModeGate ==
    ASSUME Link!LinkAssumption, NEW mode \in Link!Maybe(Link!Range(Link!OutputModes)), NEW byte,
           byte = (IF mode = None THEN Link!MAX ELSE Link!Code(Link!OutputModes, mode))
    PROVE  /\ byte \in Link!Byte /\ (Link!Known(Link!OutputModes, byte) \/ byte = Link!MAX)
           /\ mode = (IF byte = Link!MAX THEN None ELSE Link!Name(Link!OutputModes, byte))
  <1>1. Link!MAX = 255 /\ 255 \in Link!Byte /\ 0 .. 2 \subseteq Link!Byte
    BY DEF Link!MAX, Link!Byte
  <1>2. CASE mode = None
    BY <1>1, <1>2
  <1>3. CASE mode # None
    <2>1. mode \in Link!Range(Link!OutputModes)
      BY <1>3 DEF Link!Maybe
    <2>2. byte \in 0 .. 2 /\ Link!Name(Link!OutputModes, byte) = mode
          /\ Link!Known(Link!OutputModes, byte)
      BY <1>3, <2>1, OutputModeCode
    <2>3. byte # 255
      BY <2>2
    <2> QED
      BY <1>1, <2>2, <2>3
  <1> QED
    BY <1>2, <1>3

\* The first packet of a rule: a cell with the gates that it has room for.
CarriedFirst(conditions) ==
    [Link!NoConditions EXCEPT !.layer = conditions.layer, !.battery = conditions.battery,
                         !.output_mode = conditions.output_mode]

\* The first packet of a rule arrives with the gates it has room for, and with
\* no others.
LEMMA RuleCellArrives ==
    ASSUME Link!LinkAssumption, NEW m, m.name = "ConditionalSceneCell",
           m.generation \in Link!Byte, m.revision \in Link!u32, m.slot \in Link!RightSlots,
           m.effect \in Link!Effect, m.conditions \in Link!ConditionSet
    PROVE  /\ Link!encode(m) \in BytePackets
           /\ Link!decode(Link!encode(m)) =
                [name |-> "ConditionalSceneCell", generation |-> m.generation,
                 revision |-> m.revision, slot |-> m.slot, effect |-> m.effect,
                 conditions |-> CarriedFirst(m.conditions)]
  <1> DEFINE b == Link!encode(m)
             kind == Link!EffectWire(m.effect)[1]
             layer == m.conditions.layer
             battery == m.conditions.battery
             mode == m.conditions.output_mode
             slots == m.slot + 128 * (kind % 2)
             layers == (IF layer = None THEN 63
                        ELSE (layer.layer % 64) + 64 * Link!Bit(layer.active)) +
                          128 * (kind \div 2)
             s0 == <<slots, layers>>
             s1 == IF battery = None THEN <<Link!MAX, Link!MAX, Link!MAX>>
                   ELSE <<(battery.node % 64) +
                     64 * Link!Code(Link!ChargeConditions, battery.charge),
                          Link!OrElse(battery.min_level, Link!MAX),
                          Link!OrElse(battery.max_level, Link!MAX)>>
             s2 == Link!EffectBytes(m.effect)
             last == IF mode = None THEN Link!MAX ELSE Link!Code(Link!OutputModes, mode)
             s3 == <<last>>
             h == Link!Heading(m)
             p == <<7, s0>>
             q == <<9, s1>>
             r == <<12, s2>>
             t == <<25, s3>>
             puts == {h, p, q, r, t}
  <1>1. /\ layer \in Link!Maybe(Link!LayerCondition)
        /\ battery \in Link!Maybe(Link!BatteryCondition)
        /\ mode \in Link!Maybe(Link!Range(Link!OutputModes))
    BY DEF Link!ConditionSet
  <1>2. b = Link!Packet("ConditionalSceneCell", puts)
    BY DEF Link!encode, Link!EncodeConditionalSceneCell
  <1>3. /\ kind \in 0 .. 2 /\ kind \in Link!Byte /\ Long(s2, 13)
        /\ \A c : \A at \in Nat : Holds(c, at, s2) =>
              Link!EffectAt(kind, c, at) = m.effect /\ Link!EffectOK(kind, c, at)
    BY EffectCrosses
  <1>4. m.slot \in 0 .. 127 /\ Link!RightHalf(m.slot)
    BY DEF Link!LinkAssumption, Link!RightSlots, Link!RightHalf
  <1>5. h[1] = 2 /\ String(h, 2, 5) /\ \A c : Holds(c, 2, h[2]) =>
          c[2] = m.generation /\ Link!get_u32(c, 3) = m.revision
    BY HeadingBytes DEF String
  <1>6. slots \in Link!Byte /\ slots % 128 = m.slot /\ slots \div 128 = kind % 2
    <2>1. slots = m.slot + 128 * (kind % 2)
      OBVIOUS
    <2> HIDE DEF kind, slots
    <2> QED
      BY <1>3, <1>4, <2>1, SlotKind
  <1>7. /\ layers \in Link!Byte /\ layers \div 128 = kind \div 2
        /\ layer = (IF layers % 64 = 63 THEN None
                    ELSE [layer |-> layers % 64, active |-> Link!HasBit(layers, 6)])
    <2>1. layers = (IF layer = None THEN 63
                    ELSE (layer.layer % 64) + 64 * Link!Bit(layer.active)) + 128 * (kind \div 2)
      OBVIOUS
    <2> HIDE DEF kind, layer, layers
    <2> QED
      BY <1>1, <1>3, <2>1, LayerKind
  <1>8. /\ Long(s1, 3)
        /\ battery = (IF s1[1] = Link!MAX THEN None
                      ELSE [node |-> s1[1] % 64, min_level |-> Link!Unless(s1[2], Link!MAX),
                            max_level |-> Link!Unless(s1[3], Link!MAX),
                            charge |-> Link!Name(Link!ChargeConditions, s1[1] \div 64)])
    <2>1. s1 = IF battery = None THEN <<Link!MAX, Link!MAX, Link!MAX>>
               ELSE <<(battery.node % 64) + 64 * Link!Code(Link!ChargeConditions, battery.charge),
                      Link!OrElse(battery.min_level, Link!MAX),
                      Link!OrElse(battery.max_level, Link!MAX)>>
      OBVIOUS
    <2> HIDE DEF battery, s1
    <2> QED
      BY <1>1, <2>1, BatteryGate
  <1>9. /\ last \in Link!Byte /\ (Link!Known(Link!OutputModes, last) \/ last = Link!MAX)
        /\ mode = (IF last = Link!MAX THEN None ELSE Link!Name(Link!OutputModes, last))
    <2>1. last = (IF mode = None THEN Link!MAX ELSE Link!Code(Link!OutputModes, mode))
      OBVIOUS
    <2> HIDE DEF mode, last
    <2> QED
      BY <1>1, <2>1, ModeGate
  <1>10. s0 = <<slots, layers>> /\ s3 = <<last>> /\ puts = {h, p, q, r, t}
    OBVIOUS
  <1>11. /\ p[1] = 7 /\ p[2] = s0 /\ q[1] = 9 /\ q[2] = s1 /\ r[1] = 12 /\ r[2] = s2
         /\ t[1] = 25 /\ t[2] = s3
    OBVIOUS
  <1>12. /\ "ConditionalSceneCell" \in DOMAIN Link!Layout
         /\ Link!LengthOf("ConditionalSceneCell") = 26
    BY DEF Link!Layout, Link!LengthOf
  <1>13. kind = (kind % 2) + 2 * (kind \div 2)
    <2> HIDE DEF kind
    <2> QED
      BY <1>3
  <1>14. CarriedFirst(m.conditions) =
           [Link!NoConditions EXCEPT !.layer = layer, !.battery = battery, !.output_mode = mode]
    BY DEF CarriedFirst
  <1> HIDE DEF b, kind, layer, battery, mode, slots, layers, s0, s1, s2, last, s3, h, p, q, r, t,
               puts
  <1>15. Long(s0, 2) /\ Long(s3, 1)
    BY <1>6, <1>7, <1>9, <1>10 DEF Long
  <1>16. String(p, 7, 2) /\ String(q, 9, 3) /\ String(r, 12, 13) /\ String(t, 25, 1)
    BY <1>3, <1>8, <1>11, <1>15 DEF String
  <1>17. Apart(puts, 26)
    BY <1>5, <1>10, <1>16, ApartFive
  <1>18. /\ b \in BytePackets /\ Link!decode(b) = Link!DecodeArm("ConditionalSceneCell", b)
         /\ \A w \in puts : Holds(b, w[1], w[2])
    BY <1>2, <1>12, <1>17, Crossing
  <1>19. /\ Holds(b, 2, h[2]) /\ Holds(b, 7, s0) /\ Holds(b, 9, s1) /\ Holds(b, 12, s2)
         /\ Holds(b, 25, s3)
    BY <1>5, <1>10, <1>11, <1>18
  <1>20. b[2] = m.generation /\ Link!get_u32(b, 3) = m.revision
    BY <1>5, <1>19
  <1>21. b[7] = slots /\ b[8] = layers
    BY <1>10, <1>19 DEF Holds
  <1>22. b[9] = s1[1] /\ b[10] = s1[2] /\ b[11] = s1[3]
    BY <1>8, <1>19 DEF Holds, Long
  <1>23. b[25] = last
    BY <1>10, <1>19 DEF Holds
  <1>24. Link!EffectAt(kind, b, 12) = m.effect /\ Link!EffectOK(kind, b, 12)
    BY <1>3, <1>19
  <1>25. b[7] % 128 = m.slot /\ b[7] \div 128 + 2 * (b[8] \div 128) = kind
    BY <1>6, <1>7, <1>13, <1>21
  <1>26. /\ layer = (IF b[8] % 64 = 63 THEN None
                     ELSE [layer |-> b[8] % 64, active |-> Link!HasBit(b[8], 6)])
         /\ battery = (IF b[9] = Link!MAX THEN None
                       ELSE [node |-> b[9] % 64, min_level |-> Link!Unless(b[10], Link!MAX),
                             max_level |-> Link!Unless(b[11], Link!MAX),
                             charge |-> Link!Name(Link!ChargeConditions, b[9] \div 64)])
         /\ mode = (IF b[25] = Link!MAX THEN None ELSE Link!Name(Link!OutputModes, b[25]))
         /\ Link!Known(Link!OutputModes, b[25]) \/ b[25] = Link!MAX
    BY <1>7, <1>8, <1>9, <1>21, <1>22, <1>23
  <1>27. Link!DecodeConditionalSceneCell(b) =
           Link!Headed("ConditionalSceneCell", b,
               [slot |-> m.slot, effect |-> m.effect, conditions |-> CarriedFirst(m.conditions)])
    <2> DEFINE slot == b[7] % 128
               code == b[7] \div 128 + 2 * (b[8] \div 128)
               gate1 == IF b[8] % 64 = 63 THEN None
                        ELSE [layer |-> b[8] % 64, active |-> Link!HasBit(b[8], 6)]
               gate2 == IF b[9] = Link!MAX THEN None
                        ELSE [node |-> b[9] % 64, min_level |-> Link!Unless(b[10], Link!MAX),
                              max_level |-> Link!Unless(b[11], Link!MAX),
                              charge |-> Link!Name(Link!ChargeConditions, b[9] \div 64)]
               gate3 == IF b[25] = Link!MAX THEN None ELSE Link!Name(Link!OutputModes, b[25])
               known == Link!Known(Link!OutputModes, b[25]) \/ b[25] = Link!MAX
               cell == Link!Headed("ConditionalSceneCell", b,
                          [slot |-> slot, effect |-> Link!EffectAt(code, b, 12),
                           conditions |-> [Link!NoConditions EXCEPT !.layer = gate1,
                                               !.battery = gate2, !.output_mode = gate3]])
    <2>1. Link!DecodeConditionalSceneCell(b) =
            Link!Checked(Link!RightHalf(slot) /\ Link!EffectOK(code, b, 12) /\ known, cell)
      BY DEF Link!DecodeConditionalSceneCell
    <2>2. slot = m.slot /\ code = kind /\ gate1 = layer /\ gate2 = battery /\ gate3 = mode
          /\ known
      BY <1>25, <1>26
    <2>3. cell = Link!Headed("ConditionalSceneCell", b,
                   [slot |-> slot, effect |-> Link!EffectAt(code, b, 12),
                    conditions |-> [Link!NoConditions EXCEPT !.layer = gate1,
                                        !.battery = gate2, !.output_mode = gate3]])
      OBVIOUS
    <2> HIDE DEF slot, code, gate1, gate2, gate3, known, cell
    <2>4. cell = Link!Headed("ConditionalSceneCell", b,
                   [slot |-> m.slot, effect |-> m.effect,
                     conditions |-> CarriedFirst(m.conditions)])
      BY <1>14, <1>24, <2>2, <2>3
    <2>5. Link!RightHalf(slot) /\ Link!EffectOK(code, b, 12) /\ known
      BY <1>4, <1>24, <2>2
    <2> QED
      BY <2>1, <2>4, <2>5 DEF Link!Checked
  <1>28. Link!decode(b) =
           [name |-> "ConditionalSceneCell", generation |-> m.generation,
            revision |-> m.revision, slot |-> m.slot, effect |-> m.effect,
            conditions |-> CarriedFirst(m.conditions)]
    BY <1>18, <1>20, <1>27 DEF Link!DecodeArm, Link!Headed
  <1> QED
    BY <1>18, <1>28 DEF b

\* The byte that packs the transport, link-state and effects gates.
LEMMA GateBits ==
    ASSUME NEW t \in {0, 1}, NEW s \in {0, 1}, NEW e \in {0, 1}, NEW on \in {0, 1},
           NEW transport \in 0 .. 2, NEW state \in 0 .. 2, NEW byte,
           byte = (128 * t + transport) + (64 * s + 4 * state) + (32 * e + 16 * on)
    PROVE  /\ byte \in Link!Byte
           /\ Link!HasBit(byte, 7) <=> t = 1
           /\ Link!HasBit(byte, 6) <=> s = 1
           /\ Link!HasBit(byte, 5) <=> e = 1
           /\ Link!HasBit(byte, 4) <=> on = 1
           /\ byte % 4 = transport /\ (byte \div 4) % 4 = state
  <1>1. 2^7 = 128 /\ 2^6 = 64 /\ 2^5 = 32 /\ 2^4 = 16
    OBVIOUS
  <1>2. byte \in 0 .. 255
    OBVIOUS
  <1>3. byte \div 128 = t /\ byte \div 64 = 2 * t + s /\ byte \div 32 = 4 * t + 2 * s + e
    OBVIOUS
  <1>4. byte \div 16 = 8 * t + 4 * s + 2 * e + on
    OBVIOUS
  <1>5. byte % 4 = transport /\ byte \div 4 = 32 * t + 16 * s + 8 * e + 4 * on + state
    OBVIOUS
  <1>6. /\ (byte \div 128) % 2 = t /\ (byte \div 64) % 2 = s /\ (byte \div 32) % 2 = e
    BY <1>3
  <1>7. (byte \div 16) % 2 = on
    BY <1>4
  <1>8. (byte \div 4) % 4 = state
    BY <1>5
  <1> QED
    BY <1>1, <1>2, <1>5, <1>6, <1>7, <1>8 DEF Link!Byte, Link!HasBit

\* The gates of the byte as encode writes it.
LEMMA GatesByte ==
    ASSUME Link!LinkAssumption, NEW transport \in Link!Maybe(Link!Range(Link!Transports)),
           NEW state \in Link!Maybe(Link!Range(Link!BleStates)),
           NEW effects \in Link!Maybe(Link!EffectsCondition),
           NEW byte,
           byte = (IF transport = None THEN 0 ELSE 128 + Link!Code(Link!Transports, transport))
                  + (IF state = None THEN 0 ELSE 64 + 4 * Link!Code(Link!BleStates, state))
                  + (IF effects = None THEN 0 ELSE 32 + 16 * Link!Bit(effects.enabled))
    PROVE  /\ byte \in Link!Byte
           /\ Link!HasBit(byte, 7) => Link!Known(Link!Transports, byte % 4)
           /\ Link!HasBit(byte, 6) => Link!Known(Link!BleStates, (byte \div 4) % 4)
           /\ transport =
                (IF Link!HasBit(byte, 7) THEN Link!Name(Link!Transports, byte % 4) ELSE None)
           /\ state = (IF Link!HasBit(byte, 6)
                THEN Link!Name(Link!BleStates, (byte \div 4) % 4) ELSE None)
           /\ effects = (IF Link!HasBit(byte, 5) THEN [enabled |-> Link!HasBit(byte, 4)]
                ELSE None)
  <1>1. PICK t \in {0, 1}, tc \in 0 .. 2 :
          /\ (IF transport = None THEN 0 ELSE 128 + Link!Code(Link!Transports, transport)) =
               128 * t + tc
          /\ t = 1 <=> transport # None
          /\ t = 1 => Link!Known(Link!Transports, tc)
               /\ Link!Name(Link!Transports, tc) = transport
    <2>1. CASE transport = None
      BY <2>1
    <2>2. CASE transport # None
      <3>1. /\ Link!Code(Link!Transports, transport) \in 0 .. 2
            /\ Link!Name(Link!Transports, Link!Code(Link!Transports, transport)) = transport
            /\ Link!Known(Link!Transports, Link!Code(Link!Transports, transport))
        BY <2>2, TransportCode DEF Link!Maybe
      <3> QED
        BY <2>2, <3>1
    <2> QED
      BY <2>1, <2>2
  <1>2. PICK s \in {0, 1}, sc \in 0 .. 2 :
          /\ (IF state = None THEN 0 ELSE 64 + 4 * Link!Code(Link!BleStates, state)) =
               64 * s + 4 * sc
          /\ s = 1 <=> state # None
          /\ s = 1 => Link!Known(Link!BleStates, sc) /\ Link!Name(Link!BleStates, sc) = state
    <2>1. CASE state = None
      BY <2>1
    <2>2. CASE state # None
      <3>1. /\ Link!Code(Link!BleStates, state) \in 0 .. 2
            /\ Link!Name(Link!BleStates, Link!Code(Link!BleStates, state)) = state
            /\ Link!Known(Link!BleStates, Link!Code(Link!BleStates, state))
        BY <2>2, BleCode DEF Link!Maybe
      <3> QED
        BY <2>2, <3>1
    <2> QED
      BY <2>1, <2>2
  <1>3. PICK e \in {0, 1}, on \in {0, 1} :
          /\ (IF effects = None THEN 0 ELSE 32 + 16 * Link!Bit(effects.enabled)) =
               32 * e + 16 * on
          /\ e = 1 <=> effects # None
          /\ e = 1 => effects = [enabled |-> on = 1]
    <2>1. CASE effects = None
      BY <2>1
    <2>2. CASE effects # None
      <3>1. effects.enabled \in BOOLEAN /\ effects = [enabled |-> effects.enabled]
        BY <2>2 DEF Link!Maybe, Link!EffectsCondition
      <3>2. /\ Link!Bit(effects.enabled) \in {0, 1}
            /\ (Link!Bit(effects.enabled) = 1) = effects.enabled
        BY <3>1 DEF Link!Bit
      <3> QED
        BY <2>2, <3>1, <3>2
    <2> QED
      BY <2>1, <2>2
  <1>4. byte = (128 * t + tc) + (64 * s + 4 * sc) + (32 * e + 16 * on)
    BY <1>1, <1>2, <1>3
  <1>5. /\ byte \in Link!Byte
        /\ Link!HasBit(byte, 7) <=> t = 1
        /\ Link!HasBit(byte, 6) <=> s = 1
        /\ Link!HasBit(byte, 5) <=> e = 1
        /\ Link!HasBit(byte, 4) <=> on = 1
        /\ byte % 4 = tc /\ (byte \div 4) % 4 = sc
    BY <1>4, GateBits
  <1>6. effects = (IF Link!HasBit(byte, 5) THEN [enabled |-> Link!HasBit(byte, 4)] ELSE None)
    <2>1. Link!HasBit(byte, 4) \in BOOLEAN
      BY DEF Link!HasBit
    <2>2. Link!HasBit(byte, 4) = (on = 1)
      BY <1>5, <2>1
    <2> QED
      BY <1>3, <1>5, <2>2
  <1> QED
    BY <1>1, <1>2, <1>5, <1>6

\* The gate of a profile is read back.
LEMMA ProfileGate ==
    ASSUME Link!LinkAssumption, NEW profile \in Link!Maybe(0 .. 127), NEW byte,
           byte = (IF profile = None THEN 0 ELSE 128 + (profile % 128))
    PROVE  /\ byte \in Link!Byte
           /\ profile = (IF Link!HasBit(byte, 7) THEN byte % 128 ELSE None)
  <1>1. 2^7 = 128
    OBVIOUS
  <1>2. CASE profile = None
    <2>1. byte \in 0 .. 255 /\ (byte \div 128) % 2 = 0
      BY <1>2
    <2> QED
      BY <1>1, <1>2, <2>1 DEF Link!HasBit, Link!Byte
  <1>3. CASE profile # None
    <2>1. profile \in 0 .. 127
      BY <1>3 DEF Link!Maybe
    <2>2. byte = 128 + profile
      BY <1>3, <2>1
    <2>3. byte \in 0 .. 255 /\ (byte \div 128) % 2 = 1 /\ byte % 128 = profile
      BY <2>1, <2>2
    <2> QED
      BY <1>1, <2>3 DEF Link!HasBit, Link!Byte
  <1> QED
    BY <1>2, <1>3

\* The gate of a bonded slot is read back.
LEMMA BondedGate ==
    ASSUME Link!LinkAssumption, NEW bonded \in Link!Maybe(Link!BondedCondition), NEW byte,
           byte = (IF bonded = None THEN 0
                   ELSE 128 + 64 * Link!Bit(bonded.bonded) + (bonded.slot % 64))
    PROVE  /\ byte \in Link!Byte
           /\ bonded = (IF Link!HasBit(byte, 7)
                        THEN [slot |-> byte % 64, bonded |-> Link!HasBit(byte, 6)] ELSE None)
  <1>1. 2^7 = 128 /\ 2^6 = 64
    OBVIOUS
  <1>2. CASE bonded = None
    <2>1. byte \in 0 .. 255 /\ (byte \div 128) % 2 = 0
      BY <1>2
    <2> QED
      BY <1>1, <1>2, <2>1 DEF Link!HasBit, Link!Byte
  <1>3. CASE bonded # None
    <2> DEFINE n == bonded.slot
    <2>1. /\ n \in 0 .. 63 /\ bonded.bonded \in BOOLEAN
          /\ bonded = [slot |-> n, bonded |-> bonded.bonded]
      BY <1>3 DEF Link!Maybe, Link!BondedCondition
    <2>2. PICK j \in {0, 1} : j = Link!Bit(bonded.bonded) /\ (j = 1) = bonded.bonded
      BY <2>1 DEF Link!Bit
    <2>3. byte = 128 + 64 * j + (n % 64)
      BY <1>3, <2>2
    <2> HIDE DEF n
    <2>4. byte = 128 + 64 * j + n
      BY <2>1, <2>3
    <2>5. byte \in 0 .. 255 /\ (byte \div 128) % 2 = 1 /\ byte % 64 = n
      BY <2>1, <2>4
    <2>6. byte \div 64 = 2 + j
      BY <2>1, <2>4
    <2>7. (byte \div 64) % 2 = j
      BY <2>6
    <2>8. Link!HasBit(byte, 6) = bonded.bonded /\ Link!HasBit(byte, 7)
      BY <1>1, <2>1, <2>2, <2>5, <2>7 DEF Link!HasBit
    <2> QED
      BY <2>1, <2>5, <2>8 DEF Link!Byte
  <1> QED
    BY <1>2, <1>3

\* The gate of the USB connection is read back.
LEMMA UsbGate ==
    ASSUME Link!LinkAssumption, NEW usb \in Link!Maybe(BOOLEAN), NEW byte,
           byte = (IF usb = None THEN Link!MAX ELSE Link!Bit(usb))
    PROVE  /\ byte \in Link!Byte /\ (Link!FlagOK(byte) \/ byte = Link!MAX)
           /\ usb = (IF byte = Link!MAX THEN None ELSE Link!flag(byte))
  <1>1. Link!MAX = 255 /\ 255 \in Link!Byte
    BY DEF Link!MAX, Link!Byte
  <1>2. CASE usb = None
    BY <1>1, <1>2
  <1>3. CASE usb # None
    <2>1. usb \in BOOLEAN
      BY <1>3 DEF Link!Maybe
    <2>2. byte \in Link!Byte /\ byte \in {0, 1} /\ Link!FlagOK(byte) /\ Link!flag(byte) = usb
      BY <1>3, <2>1, BitByte
    <2> QED
      BY <1>1, <2>2
  <1> QED
    BY <1>2, <1>3

\* The second packet of a rule: the gates its first has no room for.
LEMMA RuleExtArrives ==
    ASSUME Link!LinkAssumption, NEW m, m.name = "ConditionalSceneExt",
           m.generation \in Link!Byte, m.revision \in Link!u32,
           m.connection \in Link!Maybe(Link!ConnectionCondition),
           m.effects \in Link!Maybe(Link!EffectsCondition),
           m = [name |-> "ConditionalSceneExt", generation |-> m.generation,
                revision |-> m.revision, connection |-> m.connection, effects |-> m.effects]
    PROVE  Link!encode(m) \in BytePackets /\ Link!decode(Link!encode(m)) = m
  <1> DEFINE b == Link!encode(m)
             c == Link!OrElse(m.connection, Link!NoConnection)
             gates == (IF c.transport = None THEN 0
               ELSE 128 + Link!Code(Link!Transports, c.transport))
                      + (IF c.ble_state = None THEN 0
                        ELSE 64 + 4 * Link!Code(Link!BleStates, c.ble_state))
                      + (IF m.effects = None THEN 0 ELSE 32 + 16 * Link!Bit(m.effects.enabled))
             profile == IF c.profile = None THEN 0 ELSE 128 + (c.profile % 128)
             bonded == IF c.bonded = None THEN 0
                       ELSE 128 + 64 * Link!Bit(c.bonded.bonded) + (c.bonded.slot % 64)
             usb == IF c.usb_connected = None THEN Link!MAX ELSE Link!Bit(c.usb_connected)
             s == <<gates, profile, bonded, usb>>
             h == Link!Heading(m)
             p == <<7, s>>
             puts == {h, p}
  <1>1. /\ c.transport \in Link!Maybe(Link!Range(Link!Transports))
        /\ c.profile \in Link!Maybe(0 .. 127)
        /\ c.ble_state \in Link!Maybe(Link!Range(Link!BleStates))
        /\ c.bonded \in Link!Maybe(Link!BondedCondition)
        /\ c.usb_connected \in Link!Maybe(BOOLEAN)
        /\ c = [transport |-> c.transport, profile |-> c.profile, ble_state |-> c.ble_state,
                bonded |-> c.bonded, usb_connected |-> c.usb_connected]
    <2>1. CASE m.connection = None
      BY <2>1 DEF Link!OrElse, Link!NoConnection, Link!Maybe
    <2>2. CASE m.connection # None
      BY <2>2 DEF Link!OrElse, Link!Maybe, Link!ConnectionCondition
    <2> QED
      BY <2>1, <2>2
  <1>2. Link!Unless(c, Link!NoConnection) = m.connection
    BY DEF Link!OrElse, Link!Unless, Link!Maybe, Link!ConnectionCondition
  <1>3. b = Link!Packet("ConditionalSceneExt", puts)
    BY DEF Link!encode, Link!EncodeConditionalSceneExt
  <1>4. h[1] = 2 /\ String(h, 2, 5) /\ \A d : Holds(d, 2, h[2]) =>
          d[2] = m.generation /\ Link!get_u32(d, 3) = m.revision
    BY HeadingBytes DEF String
  <1>5. /\ gates \in Link!Byte
        /\ Link!HasBit(gates, 7) => Link!Known(Link!Transports, gates % 4)
        /\ Link!HasBit(gates, 6) => Link!Known(Link!BleStates, (gates \div 4) % 4)
        /\ c.transport =
             (IF Link!HasBit(gates, 7) THEN Link!Name(Link!Transports, gates % 4) ELSE None)
        /\ c.ble_state =
             (IF Link!HasBit(gates, 6) THEN Link!Name(Link!BleStates, (gates \div 4) % 4)
               ELSE None)
        /\ m.effects =
             (IF Link!HasBit(gates, 5) THEN [enabled |-> Link!HasBit(gates, 4)] ELSE None)
    <2>1. gates = (IF c.transport = None THEN 0
            ELSE 128 + Link!Code(Link!Transports, c.transport))
                  + (IF c.ble_state = None THEN 0
                    ELSE 64 + 4 * Link!Code(Link!BleStates, c.ble_state))
                  + (IF m.effects = None THEN 0 ELSE 32 + 16 * Link!Bit(m.effects.enabled))
      OBVIOUS
    <2> HIDE DEF c, gates
    <2> QED
      BY <1>1, <2>1, GatesByte
  <1>6. profile \in Link!Byte
        /\ c.profile = (IF Link!HasBit(profile, 7) THEN profile % 128 ELSE None)
    <2>1. profile = (IF c.profile = None THEN 0 ELSE 128 + (c.profile % 128))
      OBVIOUS
    <2> HIDE DEF c, profile
    <2> QED
      BY <1>1, <2>1, ProfileGate
  <1>7. /\ bonded \in Link!Byte
        /\ c.bonded = (IF Link!HasBit(bonded, 7)
                       THEN [slot |-> bonded % 64, bonded |-> Link!HasBit(bonded, 6)] ELSE None)
    <2>1. bonded = (IF c.bonded = None THEN 0
                    ELSE 128 + 64 * Link!Bit(c.bonded.bonded) + (c.bonded.slot % 64))
      OBVIOUS
    <2> HIDE DEF c, bonded
    <2> QED
      BY <1>1, <2>1, BondedGate
  <1>8. /\ usb \in Link!Byte /\ (Link!FlagOK(usb) \/ usb = Link!MAX)
        /\ c.usb_connected = (IF usb = Link!MAX THEN None ELSE Link!flag(usb))
    <2>1. usb = (IF c.usb_connected = None THEN Link!MAX ELSE Link!Bit(c.usb_connected))
      OBVIOUS
    <2> HIDE DEF c, usb
    <2> QED
      BY <1>1, <2>1, UsbGate
  <1>9. s = <<gates, profile, bonded, usb>> /\ p[1] = 7 /\ p[2] = s /\ puts = {h, p}
    OBVIOUS
  <1>10. /\ "ConditionalSceneExt" \in DOMAIN Link!Layout
         /\ Link!LengthOf("ConditionalSceneExt") = 11
    BY DEF Link!Layout, Link!LengthOf
  <1> HIDE DEF b, c, gates, profile, bonded, usb, s, h, p, puts
  <1>11. Long(s, 4)
    BY <1>5, <1>6, <1>7, <1>8, <1>9 DEF Long
  <1>12. String(p, 7, 4)
    BY <1>9, <1>11 DEF String
  <1>13. Apart(puts, 11)
    BY <1>4, <1>9, <1>12, ApartTwo
  <1>14. /\ b \in BytePackets /\ Link!decode(b) = Link!DecodeArm("ConditionalSceneExt", b)
         /\ \A w \in puts : Holds(b, w[1], w[2])
    BY <1>3, <1>10, <1>13, Crossing
  <1>15. Holds(b, 2, h[2]) /\ Holds(b, 7, s)
    BY <1>4, <1>9, <1>14
  <1>16. b[2] = m.generation /\ Link!get_u32(b, 3) = m.revision
    BY <1>4, <1>15
  <1>17. b[7] = gates /\ b[8] = profile /\ b[9] = bonded /\ b[10] = usb
    <2>1. Len(s) = 4 /\ s[1] = gates /\ s[2] = profile /\ s[3] = bonded /\ s[4] = usb
      BY <1>9
    <2>2. b[7] = s[1] /\ b[8] = s[2] /\ b[9] = s[3] /\ b[10] = s[4]
      BY <1>15, <2>1 DEF Holds
    <2> QED
      BY <2>1, <2>2
  <1>18. Link!DecodeConditionalSceneExt(b) =
           Link!Headed("ConditionalSceneExt", b,
             [connection |-> m.connection, effects |-> m.effects])
    <2> DEFINE transport ==
                 IF Link!HasBit(b[7], 7) THEN Link!Name(Link!Transports, b[7] % 4) ELSE None
               slot == IF Link!HasBit(b[8], 7) THEN b[8] % 128 ELSE None
               state == IF Link!HasBit(b[7], 6)
                 THEN Link!Name(Link!BleStates, (b[7] \div 4) % 4) ELSE None
               bond == IF Link!HasBit(b[9], 7)
                       THEN [slot |-> b[9] % 64, bonded |-> Link!HasBit(b[9], 6)] ELSE None
               link == IF b[10] = Link!MAX THEN None ELSE Link!flag(b[10])
               d == [transport |-> transport, profile |-> slot, ble_state |-> state,
                     bonded |-> bond, usb_connected |-> link]
               effects == IF Link!HasBit(b[7], 5) THEN [enabled |-> Link!HasBit(b[7], 4)]
                 ELSE None
               known == /\ Link!HasBit(b[7], 7) => Link!Known(Link!Transports, b[7] % 4)
                        /\ Link!HasBit(b[7], 6) => Link!Known(Link!BleStates, (b[7] \div 4) % 4)
                        /\ Link!FlagOK(b[10]) \/ b[10] = Link!MAX
    <2>1. Link!DecodeConditionalSceneExt(b) =
            Link!Checked(known, Link!Headed("ConditionalSceneExt", b,
                              [connection |-> Link!Unless(d, Link!NoConnection),
                                effects |-> effects]))
      BY DEF Link!DecodeConditionalSceneExt
    <2>2. /\ transport = c.transport /\ slot = c.profile /\ state = c.ble_state
          /\ bond = c.bonded /\ link = c.usb_connected /\ effects = m.effects
      BY <1>5, <1>6, <1>7, <1>8, <1>17
    <2>3. known
      BY <1>5, <1>8, <1>17
    <2>4. d = [transport |-> transport, profile |-> slot, ble_state |-> state,
               bonded |-> bond, usb_connected |-> link]
      OBVIOUS
    <2> HIDE DEF transport, slot, state, bond, link, d, effects, known
    <2>5. d = c
      BY <1>1, <2>2, <2>4
    <2> QED
      BY <1>2, <2>1, <2>2, <2>3, <2>5 DEF Link!Checked
  <1>19. Link!decode(b) = m
    BY <1>14, <1>16, <1>18 DEF Link!DecodeArm, Link!Headed
  <1> QED
    BY <1>14, <1>19 DEF b

-----------------------------------------------------------------------------
(* Every message, and every packet.                                        *)

\* Whatever one half says reaches the other.
LEMMA MessageArrives ==
    ASSUME Link!LinkAssumption, NEW m \in Link!Message, Link!ParamsFit(m)
    PROVE  Link!encode(m) \in BytePackets /\ Link!decode(Link!encode(m)) = m
  <1> DEFINE Good == Link!encode(m) \in BytePackets /\ Link!decode(Link!encode(m)) = m
  <1>1. m \in Link!Begins \/ m \in Link!Contexts \/ m \in Link!Extensions
          \/ m \in Link!ExtensionOverlays => Good
    BY BeginArrives, ContextArrives, ExtensionArrives, ExtensionOverlayArrives
  <1>2. m \in Link!Cells \/ m \in Link!SceneCells \/ m \in Link!WakeLayers
          \/ m \in Link!RuleCounts => Good
    BY CellArrives, SceneCellArrives, WakeLayersArrive, RuleCountArrives
  <1>3. m \in Link!Commits \/ m \in Link!Acks \/ m \in Link!Attestations
          \/ m \in Link!StatusReports => Good
    BY CommitArrives, AckArrives, AttestationArrives, StatusReportArrives
  <1>4. m \in Link!FrameChunks \/ m \in Link!FrameChunkRequests \/ m \in Link!EffectHits => Good
    BY FrameChunkArrives, FrameChunkRequestArrives, HitArrives
  <1>5. m \in Link!ReplicaProbes \/ m \in Link!StatusRequests
          \/ m \in Link!TransportStatuses => Good
    BY ProbeArrives, StatusRequestArrives, TransportStatusArrives
  <1>6. m \in Link!DebugTraces \/ m \in Link!DebugPanicLocs => Good
    BY DebugTraceArrives, DebugPanicLocArrives
  <1> HIDE DEF Good
  <1>7. Good
    BY <1>1, <1>2, <1>3, <1>4, <1>5, <1>6 DEF Link!Message
  <1> QED
    BY <1>7 DEF Good

\* A packet is refused, or read by the arm of its tag, whose length it has.
LEMMA PacketsByArm ==
    ASSUME Link!LinkAssumption, NEW b \in BytePackets
    PROVE  \/ ~Link!Decoded(Link!decode(b))
           \/ \E name \in DOMAIN Link!Layout :
                Link!decode(b) = Link!DecodeArm(name, b)
                  /\ b \in [0 .. Link!LengthOf(name) - 1 -> Link!Byte]
  <1> DEFINE names == {n \in DOMAIN Link!Layout : Link!TagOf(n) = b[1]}
             arm == CHOOSE n \in names : TRUE
  <1>1. PICK n \in Nat : b \in [0 .. n - 1 -> Link!Byte]
    BY DEF BytePackets
  <1>2. Link!Cardinality(DOMAIN b) = n
    <2>1. DOMAIN b = 0 .. n - 1
      BY <1>1
    <2> QED
      BY <1>1, <2>1, FS_Interval, LinkCardinality
  <1>3. \A error : ~Link!Decoded(Link!Err(error))
    BY DEF Link!Decoded, Link!Err
  <1>4. Link!decode(b) =
          IF n = 0 \/ b[0] # Link!VERSION THEN Link!Err("Version")
          ELSE IF n = 1 THEN Link!Err("Length")
          ELSE IF names = {} THEN Link!Err("Tag")
          ELSE IF n = Link!LengthOf(arm) THEN Link!DecodeArm(arm, b)
          ELSE Link!Err(IF arm = "WakeLayers" THEN "Tag" ELSE "Length")
    BY <1>2 DEF Link!decode
  <1>5. names # {} => arm \in DOMAIN Link!Layout
    OBVIOUS
  <1> HIDE DEF names, arm
  <1>6. CASE names # {} /\ n = Link!LengthOf(arm) /\ Link!decode(b) = Link!DecodeArm(arm, b)
    <2>1. b \in [0 .. Link!LengthOf(arm) - 1 -> Link!Byte]
      BY <1>1, <1>6
    <2> QED
      BY <1>5, <1>6, <2>1
  <1>7. CASE \E error : Link!decode(b) = Link!Err(error)
    BY <1>3, <1>7
  <1> QED
    BY <1>4, <1>6, <1>7

\* A cell that an arm lets through.
LEMMA EffectUsable ==
    \A kind, bytes, at : Link!EffectOK(kind, bytes, at) =>
        (Link!EffectAt(kind, bytes, at).kind = "Blink" =>
          Link!EffectAt(kind, bytes, at).duty <= 100)
  <1> TAKE kind, bytes, at
  <1>1. CASE kind = 1
    BY <1>1 DEF Link!EffectAt, Link!EffectOK
  <1>2. CASE kind = 0 \/ kind = 2
    BY <1>2 DEF Link!EffectAt
  <1> QED
    BY <1>1, <1>2 DEF Link!EffectOK

\* A cell that decode lets through is on the right half, and its duty is a
\* percentage.
LEMMA CellsUsable ==
    ASSUME NEW b, NEW name \in {"Cell", "SceneCell", "ConditionalSceneCell"},
           Link!Decoded(Link!DecodeArm(name, b))
    PROVE  Link!Usable(Link!DecodeArm(name, b))
  <1> DEFINE m == Link!DecodeArm(name, b)
  <1>1. CASE name = "Cell"
    <2> DEFINE e == Link!EffectAt(b[8], b, 9)
               r == [slot |-> b[7], effect |-> e,
                 ttl_ms |-> Link!Unless(Link!get_u32(b, 22), <<0, 0>>)]
    <2>1. m = Link!Checked(Link!RightHalf(b[7]) /\ Link!EffectOK(b[8], b, 9),
            Link!Headed("Cell", b, r))
      BY <1>1 DEF Link!DecodeArm, Link!DecodeCell
    <2> HIDE DEF m
    <2>2. Link!RightHalf(b[7]) /\ Link!EffectOK(b[8], b, 9) /\ m = Link!Headed("Cell", b, r)
      BY <2>1 DEF Link!Checked, Link!Decoded, Link!Err, m
    <2> HIDE DEF e
    <2>3. m.name = "Cell" /\ m.slot = b[7] /\ m.effect = e
      BY <2>2 DEF Link!Headed
    <2>4. e.kind = "Blink" => e.duty <= 100
      BY <2>2, EffectUsable DEF e
    <2> QED
      BY <2>2, <2>3, <2>4 DEF Link!Usable, m
  <1>2. CASE name = "SceneCell"
    <2> DEFINE e == Link!EffectAt(b[9], b, 10)
               r == [layer |-> b[7], slot |-> b[8], effect |-> e]
    <2>1. m = Link!Checked(Link!RightHalf(b[8]) /\ Link!EffectOK(b[9], b, 10),
            Link!Headed("SceneCell", b, r))
      BY <1>2 DEF Link!DecodeArm, Link!DecodeSceneCell
    <2> HIDE DEF m
    <2>2. Link!RightHalf(b[8]) /\ Link!EffectOK(b[9], b, 10) /\ m = Link!Headed("SceneCell", b, r)
      BY <2>1 DEF Link!Checked, Link!Decoded, Link!Err, m
    <2> HIDE DEF e
    <2>3. m.name = "SceneCell" /\ m.slot = b[8] /\ m.effect = e
      BY <2>2 DEF Link!Headed
    <2>4. e.kind = "Blink" => e.duty <= 100
      BY <2>2, EffectUsable DEF e
    <2> QED
      BY <2>2, <2>3, <2>4 DEF Link!Usable, m
  <1>3. CASE name = "ConditionalSceneCell"
    <2> DEFINE slot == b[7] % 128
               kind == b[7] \div 128 + 2 * (b[8] \div 128)
               e == Link!EffectAt(kind, b, 12)
               gates == [Link!NoConditions EXCEPT
                  !.layer = IF b[8] % 64 = 63 THEN None
                            ELSE [layer |-> b[8] % 64, active |-> Link!HasBit(b[8], 6)],
                  !.battery = IF b[9] = Link!MAX THEN None
                              ELSE [node |-> b[9] % 64,
                                min_level |-> Link!Unless(b[10], Link!MAX),
                                    max_level |-> Link!Unless(b[11], Link!MAX),
                                    charge |-> Link!Name(Link!ChargeConditions, b[9] \div 64)],
                  !.output_mode =
                    IF b[25] = Link!MAX THEN None ELSE Link!Name(Link!OutputModes, b[25])]
               r == [slot |-> slot, effect |-> e, conditions |-> gates]
               known == Link!Known(Link!OutputModes, b[25]) \/ b[25] = Link!MAX
    <2>1. m = Link!Checked(Link!RightHalf(slot) /\ Link!EffectOK(kind, b, 12) /\ known,
                      Link!Headed("ConditionalSceneCell", b, r))
      BY <1>3 DEF Link!DecodeArm, Link!DecodeConditionalSceneCell
    <2> HIDE DEF m, slot, kind, gates, known
    <2>2. /\ Link!RightHalf(slot) /\ Link!EffectOK(kind, b, 12)
          /\ m = Link!Headed("ConditionalSceneCell", b, r)
      BY <2>1 DEF Link!Checked, Link!Decoded, Link!Err, m
    <2> HIDE DEF e
    <2>3. m.name = "ConditionalSceneCell" /\ m.slot = slot /\ m.effect = e
      BY <2>2 DEF Link!Headed
    <2>4. e.kind = "Blink" => e.duty <= 100
      BY <2>2, EffectUsable DEF e
    <2> QED
      BY <2>2, <2>3, <2>4 DEF Link!Usable, m
  <1> QED
    BY <1>1, <1>2, <1>3

\* A parameter block that an arm lets through.
LEMMA ParamsUsable ==
    ASSUME Link!LinkAssumption, NEW b, NEW at, b[at] \in Link!Byte, Link!ParamsOK(b, at),
           Link!ParamsAt(b, at) # None
    PROVE  Len(Link!ParamsAt(b, at).values) \in 1 .. EXTENSION_PARAM_CHUNK
  <1> DEFINE n == b[at]
             v == [i \in 1 .. n |-> b[at + 1 + i]]
  <1>1. Link!ParamsAt(b, at).values = v /\ n # 0
    BY DEF Link!ParamsAt
  <1>2. n \in Nat /\ n <= EXTENSION_PARAM_CHUNK /\ EXTENSION_PARAM_CHUNK \in Nat
    BY ParamChunk DEF Link!ParamsOK, Link!Byte
  <1> HIDE DEF n
  <1>3. Len(v) = n
    BY <1>2
  <1> QED
    BY <1>1, <1>2, <1>3

\* The parameters that decode lets through fit their array.
LEMMA ExtensionsUsable ==
    ASSUME Link!LinkAssumption, NEW name \in {"Extension", "ExtensionOverlay"},
           NEW b \in [0 .. Link!LengthOf(name) - 1 -> Link!Byte],
           Link!Decoded(Link!DecodeArm(name, b))
    PROVE  Link!Usable(Link!DecodeArm(name, b))
  <1> DEFINE m == Link!DecodeArm(name, b)
  <1>0. EXTENSION_PARAM_CHUNK \in Nat
    BY ParamChunk
  <1>1. CASE name = "Extension"
    <2> DEFINE e == IF Link!flag(b[7]) THEN [effect |-> b[8], palette |-> b[9],
                                         value |-> b[10], speed |-> b[11]]
                    ELSE None
               params == Link!ParamsAt(b, 12)
               r == [extension |-> e, params |-> params]
    <2>1. m = Link!Checked(Link!ParamsOK(b, 12) /\ Link!FlagOK(b[7]),
            Link!Headed("Extension", b, r))
      BY <1>1 DEF Link!DecodeArm, Link!DecodeExtension
    <2> HIDE DEF m, e, params
    <2>2. Link!ParamsOK(b, 12) /\ m = Link!Headed("Extension", b, r)
      BY <2>1 DEF Link!Checked, Link!Decoded, Link!Err, m
    <2>3. m.name = "Extension" /\ m.params = params
      BY <2>2 DEF Link!Headed
    <2>4. b[12] \in Link!Byte
      <3>1. Link!LengthOf(name) = 14 + EXTENSION_PARAM_CHUNK
        BY <1>1 DEF Link!LengthOf, Link!Layout
      <3> QED
        BY <1>0, <3>1
    <2>5. params # None => Len(params.values) \in 1 .. EXTENSION_PARAM_CHUNK
      BY <2>2, <2>4, ParamsUsable DEF params
    <2> QED
      BY <2>3, <2>5 DEF Link!Usable, m
  <1>2. CASE name = "ExtensionOverlay"
    <2> DEFINE e == IF Link!flag(b[7]) THEN b[8] ELSE None
               params == Link!ParamsAt(b, 9)
               r == [overlay |-> e, params |-> params]
    <2>1. m = Link!Checked(Link!ParamsOK(b, 9) /\ Link!FlagOK(b[7]),
            Link!Headed("ExtensionOverlay", b, r))
      BY <1>2 DEF Link!DecodeArm, Link!DecodeExtensionOverlay
    <2> HIDE DEF m, e, params
    <2>2. Link!ParamsOK(b, 9) /\ m = Link!Headed("ExtensionOverlay", b, r)
      BY <2>1 DEF Link!Checked, Link!Decoded, Link!Err, m
    <2>3. m.name = "ExtensionOverlay" /\ m.params = params
      BY <2>2 DEF Link!Headed
    <2>4. b[9] \in Link!Byte
      <3>1. Link!LengthOf(name) = 11 + EXTENSION_PARAM_CHUNK
        BY <1>2 DEF Link!LengthOf, Link!Layout
      <3> QED
        BY <1>0, <3>1
    <2>5. params # None => Len(params.values) \in 1 .. EXTENSION_PARAM_CHUNK
      BY <2>2, <2>4, ParamsUsable DEF params
    <2> QED
      BY <2>3, <2>5 DEF Link!Usable, m
  <1> QED
    BY <1>1, <1>2

\* A battery that an arm lets through.
LEMMA BatteryUsable ==
    ASSUME Link!LinkAssumption, NEW b, NEW at, b[at] \in Link!Byte, Link!BatteryOK(b, at)
    PROVE  /\ Link!get_battery(b, at).level \in (0 .. 100) \cup {None}
           /\ Link!get_battery(b, at).state = "Unavailable" =>
                Link!get_battery(b, at).level = None
  <1>1. /\ b[at + 1] \in (0 .. 100) \cup {Link!MAX} /\ b[at] < 4 /\ b[at] \in 0 .. 255
        /\ b[at] = 0 => b[at + 1] = Link!MAX
    <2>1. Len(Link!BatteryStates) = 4
      BY DEF Link!BatteryStates
    <2> QED
      BY <2>1 DEF Link!BatteryOK, Link!Known, Link!Byte
  <1>2. Link!get_battery(b, at).level = (IF b[at + 1] = Link!MAX THEN None ELSE b[at + 1])
    BY DEF Link!get_battery, Link!Unless
  <1>3. Link!get_battery(b, at).state = "Unavailable" => b[at] = 0
    <2>1. Link!get_battery(b, at).state = Link!BatteryStates[b[at] + 1]
      BY DEF Link!get_battery, Link!Name
    <2>2. b[at] = 0 \/ b[at] = 1 \/ b[at] = 2 \/ b[at] = 3
      BY <1>1
    <2>3. /\ Link!BatteryStates[2] # "Unavailable" /\ Link!BatteryStates[3] # "Unavailable"
          /\ Link!BatteryStates[4] # "Unavailable"
      BY DEF Link!BatteryStates
    <2>4. /\ b[at] = 1 => Link!BatteryStates[b[at] + 1] = Link!BatteryStates[2]
          /\ b[at] = 2 => Link!BatteryStates[b[at] + 1] = Link!BatteryStates[3]
          /\ b[at] = 3 => Link!BatteryStates[b[at] + 1] = Link!BatteryStates[4]
      OBVIOUS
    <2> QED
      BY <2>1, <2>2, <2>3, <2>4
  <1> QED
    BY <1>1, <1>2, <1>3

\* The levels that decode lets through are percentages.
LEMMA ContextsUsable ==
    ASSUME Link!LinkAssumption, NEW name \in {"Context", "ContextUpdate"},
           NEW b \in [0 .. Link!LengthOf(name) - 1 -> Link!Byte],
           Link!Decoded(Link!DecodeArm(name, b))
    PROVE  Link!Usable(Link!DecodeArm(name, b))
  <1> DEFINE m == Link!DecodeArm(name, b)
             left == Link!get_battery(b, 18)
             right == Link!get_battery(b, 20)
             r == [indicators |-> Link!get_indicators(b[17]), powered |-> Link!flag(b[22]),
                   bonded_slots |-> b[23], left |-> left, right |-> right]
  <1>1. m = Link!Checked(Link!FlagOK(b[22]) /\ Link!BatteryOK(b, 18) /\ Link!BatteryOK(b, 20),
          Link!Headed(name, b, r))
    BY DEF Link!DecodeArm, Link!DecodeContext
  <1>2. Link!LengthOf(name) = 24
    <2>1. Link!LengthOf("Context") = 24 /\ Link!LengthOf("ContextUpdate") = 24
      BY DEF Link!LengthOf, Link!Layout
    <2> QED
      BY <2>1
  <1> HIDE DEF m, left, right
  <1>3. Link!BatteryOK(b, 18) /\ Link!BatteryOK(b, 20) /\ m = Link!Headed(name, b, r)
    BY <1>1 DEF Link!Checked, Link!Decoded, Link!Err, m
  <1>4. m.name = name /\ m.left = left /\ m.right = right
    BY <1>3 DEF Link!Headed
  <1>5. b[18] \in Link!Byte /\ b[20] \in Link!Byte
    BY <1>2
  <1>6. /\ left.level \in (0 .. 100) \cup {None}
        /\ left.state = "Unavailable" => left.level = None
    BY <1>3, <1>5, BatteryUsable DEF left
  <1>7. /\ right.level \in (0 .. 100) \cup {None}
        /\ right.state = "Unavailable" => right.level = None
    BY <1>3, <1>5, BatteryUsable DEF right
  <1> QED
    BY <1>4, <1>6, <1>7 DEF Link!Usable, m

\* A page that decode lets through has four cells at most.
LEMMA FramesUsable ==
    ASSUME Link!LinkAssumption, NEW b, Link!Decoded(Link!DecodeArm("FrameChunk", b))
    PROVE  Link!Usable(Link!DecodeArm("FrameChunk", b))
  <1> DEFINE m == Link!DecodeArm("FrameChunk", b)
             r == [name |-> "FrameChunk", request_id |-> b[2],
                   revision |-> IF Link!flag(b[3]) THEN Link!get_u32(b, 4) ELSE None,
                   total |-> Link!get_u16(b, 8), start |-> Link!get_u16(b, 10), len |-> b[12],
                   cells |-> [i \in 1 .. Link!FRAME_CHUNK_CELLS |->
                          LET at == 13 + 3 * (i - 1) IN <<b[at], b[at + 1], b[at + 2]>>]]
  <1>1. m = Link!Checked(Link!FlagOK(b[3]) /\ b[12] <= Link!FRAME_CHUNK_CELLS, r)
    BY DEF Link!DecodeArm, Link!DecodeFrameChunk
  <1>2. r.name = "FrameChunk" /\ r.len = b[12]
    OBVIOUS
  <1> HIDE DEF m, r
  <1>3. b[12] <= Link!FRAME_CHUNK_CELLS /\ m = r
    BY <1>1 DEF Link!Checked, Link!Decoded, Link!Err, m
  <1> QED
    BY <1>2, <1>3 DEF Link!Usable, m

\* A hit that decode lets through is a slot of the board.
LEMMA HitsUsable ==
    ASSUME Link!LinkAssumption, NEW b, Link!Decoded(Link!DecodeArm("EffectHit", b))
    PROVE  Link!Usable(Link!DecodeArm("EffectHit", b))
  <1> DEFINE m == Link!DecodeArm("EffectHit", b)
  <1>1. m = IF b[2] < BoardLeds THEN [name |-> "EffectHit", slot |-> b[2]] ELSE Link!Err("Length")
    BY DEF Link!DecodeArm, Link!DecodeSmall
  <1> HIDE DEF m
  <1>2. b[2] < BoardLeds /\ m.name = "EffectHit" /\ m.slot = b[2]
    BY <1>1 DEF Link!Decoded, Link!Err, m
  <1> QED
    BY <1>2 DEF Link!Usable, m

\* A panic location that decode lets through is no longer than its text.
LEMMA TextsUsable ==
    ASSUME Link!LinkAssumption, NEW b \in [0 .. Link!LengthOf("DebugPanicLoc") - 1 -> Link!Byte]
    PROVE  Link!Usable(Link!DecodeArm("DebugPanicLoc", b))
  <1> DEFINE m == Link!DecodeArm("DebugPanicLoc", b)
             text == [i \in 1 .. 23 |-> b[i + 2]]
  <1>1. m = [name |-> "DebugPanicLoc", len |-> Link!AtMost(b[2], 23), text |-> text]
    BY DEF Link!DecodeArm, Link!DecodeSmall
  <1>2. Len(text) = 23
    OBVIOUS
  <1>3. Link!AtMost(b[2], 23) <= 23
    <2>1. b[2] \in Link!Byte
      <3>1. Link!LengthOf("DebugPanicLoc") = 26
        BY DEF Link!LengthOf, Link!Layout
      <3> QED
        BY <3>1
    <2>2. b[2] \in Int
      <3>1. \A n \in Link!Byte : n \in Int
        BY DEF Link!Byte
      <3> QED
        BY <2>1, <3>1
    <2>3. Link!AtMost(b[2], 23) = IF b[2] > 23 THEN 23 ELSE b[2]
      BY DEF Link!AtMost
    <2> QED
      BY <2>2, <2>3
  <1> HIDE DEF m, text
  <1>4. m.len <= 23 /\ m.text = text /\ m.name = "DebugPanicLoc"
    BY <1>1, <1>3
  <1> QED
    BY <1>2, <1>4 DEF Link!Usable, m

\* The arms whose messages hold nothing but numbers, flags and names.
PlainNames == {
    "Begin", "Commit", "Ack", "ConditionalSceneBegin", "ConditionalSceneExt", "Attestation",
    "ReplicaProbe", "StatusRequest", "StatusReport", "FrameChunkRequest", "WakeLayers",
    "TransportStatus", "DebugTrace"}

\* The name of a message is not among its fields.
LEMMA HeadedName == \A name, b, rest : Link!Headed(name, b, rest).name = name
BY DEF Link!Headed

\* Nothing is asked of them.
LEMMA PlainUsable ==
    ASSUME NEW name \in PlainNames, NEW b, Link!Decoded(Link!DecodeArm(name, b))
    PROVE  Link!Usable(Link!DecodeArm(name, b))
  <1> DEFINE m == Link!DecodeArm(name, b)
  <1>1. CASE name = "Begin"
    <2>1. PICK ok, rest : m = Link!Checked(ok, Link!Headed("Begin", b, rest))
      BY <1>1 DEF Link!DecodeArm, Link!DecodeBegin
    <2> HIDE DEF m
    <2>2. m = Link!Headed("Begin", b, rest)
      BY <2>1 DEF Link!Checked, Link!Decoded, Link!Err, m
    <2>3. m.name = "Begin"
      BY <2>2, HeadedName
    <2> QED
      BY <2>3 DEF Link!Usable, m
  <1>2. CASE name \in {"Commit", "Ack", "ConditionalSceneBegin", "WakeLayers"}
    <2>1. PICK rest : m = Link!Headed(name, b, rest)
      BY <1>2 DEF Link!DecodeArm, Link!DecodeSmall
    <2> HIDE DEF m
    <2>2. m.name = name
      BY <2>1, HeadedName
    <2> QED
      BY <1>2, <2>2 DEF Link!Usable, m
  <1>3. CASE name = "ConditionalSceneExt"
    <2> DEFINE gates == b[7]
               connection == [
                  transport |-> IF Link!HasBit(gates, 7)
                    THEN Link!Name(Link!Transports, gates % 4) ELSE None,
                  profile |-> IF Link!HasBit(b[8], 7) THEN b[8] % 128 ELSE None,
                  ble_state |-> IF Link!HasBit(gates, 6)
                    THEN Link!Name(Link!BleStates, (gates \div 4) % 4)
                                ELSE None,
                  bonded |-> IF Link!HasBit(b[9], 7)
                             THEN [slot |-> b[9] % 64, bonded |-> Link!HasBit(b[9], 6)] ELSE None,
                  usb_connected |-> IF b[10] = Link!MAX THEN None ELSE Link!flag(b[10])]
               rest == [connection |-> Link!Unless(connection, Link!NoConnection),
                        effects |-> IF Link!HasBit(gates, 5)
                          THEN [enabled |-> Link!HasBit(gates, 4)]
                                    ELSE None]
               ok == /\ Link!HasBit(gates, 7) => Link!Known(Link!Transports, gates % 4)
                     /\ Link!HasBit(gates, 6) => Link!Known(Link!BleStates, (gates \div 4) % 4)
                     /\ Link!FlagOK(b[10]) \/ b[10] = Link!MAX
    <2>1. m = Link!Checked(ok, Link!Headed("ConditionalSceneExt", b, rest))
      BY <1>3 DEF Link!DecodeArm, Link!DecodeConditionalSceneExt
    <2> HIDE DEF m, ok, rest
    <2>2. m = Link!Headed("ConditionalSceneExt", b, rest)
      BY <2>1 DEF Link!Checked, Link!Decoded, Link!Err, m
    <2>3. m.name = "ConditionalSceneExt"
      BY <2>2, HeadedName
    <2> QED
      BY <2>3 DEF Link!Usable, m
  <1>4. CASE name = "Attestation"
    BY <1>4 DEF Link!DecodeArm, Link!DecodeAttestation, Link!Usable
  <1>5. CASE name = "StatusReport"
    BY <1>5 DEF Link!DecodeArm, Link!DecodeStatusReport, Link!Checked, Link!Decoded, Link!Err,
       Link!Usable
  <1>6. CASE name \in {"ReplicaProbe", "StatusRequest", "FrameChunkRequest", "DebugTrace"}
    BY <1>6 DEF Link!DecodeArm, Link!DecodeSmall, Link!Usable
  <1>7. CASE name = "TransportStatus"
    BY <1>7 DEF Link!DecodeArm, Link!DecodeSmall, Link!Checked, Link!Decoded, Link!Err,
       Link!Usable
  <1> QED
    BY <1>1, <1>2, <1>3, <1>4, <1>5, <1>6, <1>7 DEF PlainNames

\* Whatever decode lets through is usable.
LEMMA PacketsUsable ==
    ASSUME Link!LinkAssumption, NEW b \in BytePackets, Link!Decoded(Link!decode(b))
    PROVE  Link!Usable(Link!decode(b))
  <1>1. PICK name \in DOMAIN Link!Layout :
          Link!decode(b) = Link!DecodeArm(name, b)
            /\ b \in [0 .. Link!LengthOf(name) - 1 -> Link!Byte]
    BY PacketsByArm
  <1>2. DOMAIN Link!Layout =
          PlainNames \cup {"Cell", "SceneCell", "ConditionalSceneCell"}
          \cup {"Extension", "ExtensionOverlay"} \cup {"Context", "ContextUpdate"}
          \cup {"FrameChunk", "EffectHit", "DebugPanicLoc"}
    BY DEF Link!Layout, PlainNames
  <1>3. CASE name \in PlainNames
    BY <1>1, <1>3, PlainUsable
  <1>4. CASE name \in {"Cell", "SceneCell", "ConditionalSceneCell"}
    BY <1>1, <1>4, CellsUsable
  <1>5. CASE name \in {"Extension", "ExtensionOverlay"}
    BY <1>1, <1>5, ExtensionsUsable
  <1>6. CASE name \in {"Context", "ContextUpdate"}
    BY <1>1, <1>6, ContextsUsable
  <1>7. CASE name = "FrameChunk"
    BY <1>1, <1>7, FramesUsable
  <1>8. CASE name = "EffectHit"
    BY <1>1, <1>8, HitsUsable
  <1>9. CASE name = "DebugPanicLoc"
    BY <1>1, <1>9, TextsUsable
  <1> QED
    BY <1>1, <1>2, <1>3, <1>4, <1>5, <1>6, <1>7, <1>8, <1>9

-----------------------------------------------------------------------------
(* The two halves agree.                                                   *)

\* What was sent, in order, is what was received and then what is under way,
\* unless a packet of another build took the place of one; and whatever was
\* received was decoded from some packet.
Decodings == {Link!decode(b) : b \in BytePackets}
LinkInv ==
    /\ wire \in Seq(BytePackets) /\ received \in Seq(Decodings) /\ foreign \in BOOLEAN
    /\ sent_messages = <<>> => rule = None
    /\ sent_messages # <<>> /\ rule = None => \E m \in Messages : sent_messages = <<m>>
    /\ rule # None => rule \in Rules /\ sent_messages = Link!RuleMessages(rule)
    /\ Len(received) + Len(wire) = Len(sent_messages)
    /\ ~foreign =>
         /\ \A i \in 1 .. Len(received) : received[i] = Link!decode(Link!encode(sent_messages[i]))
         /\ \A i \in 1 .. Len(wire) : wire[i] = Link!encode(sent_messages[Len(received) + i])

\* The packets of a rule.
RuleCell(r) ==
    [name |-> "ConditionalSceneCell", generation |-> 3, revision |-> <<300, 1>>,
     slot |-> r.slot, effect |-> r.effect, conditions |-> r.conditions]
RuleExt(r) ==
    [name |-> "ConditionalSceneExt", generation |-> 3, revision |-> <<300, 1>>,
     connection |-> r.conditions.connection, effects |-> r.conditions.effects]

\* The packets of a rule are read back, the first with the gates it has room for
\* and the second with the others.
LEMMA RulePackets ==
    ASSUME Link!LinkAssumption, NEW r \in Rules
    PROVE  /\ Link!RuleMessages(r) = (IF Link!NeedsExt(r) THEN <<RuleCell(r), RuleExt(r)>>
                                 ELSE <<RuleCell(r)>>)
           /\ Link!encode(RuleCell(r)) \in BytePackets
           /\ Link!decode(Link!encode(RuleCell(r))) =
                [RuleCell(r) EXCEPT !.conditions = CarriedFirst(r.conditions)]
           /\ Link!encode(RuleExt(r)) \in BytePackets
           /\ Link!decode(Link!encode(RuleExt(r))) = RuleExt(r)
  <1> DEFINE cell == RuleCell(r)
             ext == RuleExt(r)
  <1>1. r.slot \in Link!RightSlots /\ r.effect \in Link!Effect
        /\ r.conditions \in Link!ConditionSet
    BY DEF Link!LinkAssumption, Link!Rule
  <1>2. /\ r.conditions.connection \in Link!Maybe(Link!ConnectionCondition)
        /\ r.conditions.effects \in Link!Maybe(Link!EffectsCondition)
    BY <1>1 DEF Link!ConditionSet
  <1>3. 3 \in Link!Byte /\ <<300, 1>> \in Link!u32
    <2>1. 3 \in Link!Byte
      BY DEF Link!Byte
    <2>2. 256 * Link!MAX + Link!MAX = 65535
      BY DEF Link!MAX
    <2>3. 300 \in Link!Word /\ 1 \in Link!Word
      BY <2>2 DEF Link!Word
    <2> QED
      BY <2>1, <2>3 DEF Link!u32
  <1>4. /\ cell.name = "ConditionalSceneCell" /\ cell.generation = 3
        /\ cell.revision = <<300, 1>> /\ cell.slot = r.slot /\ cell.effect = r.effect
        /\ cell.conditions = r.conditions
        /\ [cell EXCEPT !.conditions = CarriedFirst(r.conditions)] =
              [name |-> "ConditionalSceneCell", generation |-> 3, revision |-> <<300, 1>>,
               slot |-> r.slot, effect |-> r.effect, conditions |-> CarriedFirst(r.conditions)]
    BY DEF RuleCell
  <1>5. /\ ext.name = "ConditionalSceneExt" /\ ext.generation = 3
        /\ ext.revision = <<300, 1>> /\ ext.connection = r.conditions.connection
        /\ ext.effects = r.conditions.effects
        /\ ext = [name |-> "ConditionalSceneExt", generation |-> ext.generation,
                  revision |-> ext.revision, connection |-> ext.connection,
                  effects |-> ext.effects]
    BY DEF RuleExt
  <1>6. Link!RuleMessages(r) = IF Link!NeedsExt(r) THEN <<cell, ext>> ELSE <<cell>>
    BY DEF Link!RuleMessages, RuleCell, RuleExt
  <1> HIDE DEF cell, ext
  <1>7. /\ Link!encode(cell) \in BytePackets
        /\ Link!decode(Link!encode(cell)) =
              [name |-> "ConditionalSceneCell", generation |-> 3, revision |-> <<300, 1>>,
               slot |-> r.slot, effect |-> r.effect, conditions |-> CarriedFirst(r.conditions)]
    <2>1. /\ Link!encode(cell) \in BytePackets
          /\ Link!decode(Link!encode(cell)) =
                [name |-> "ConditionalSceneCell", generation |-> cell.generation,
                 revision |-> cell.revision, slot |-> cell.slot, effect |-> cell.effect,
                 conditions |-> CarriedFirst(cell.conditions)]
      <3>1. /\ cell.generation \in Link!Byte /\ cell.revision \in Link!u32
            /\ cell.slot \in Link!RightSlots
            /\ cell.effect \in Link!Effect /\ cell.conditions \in Link!ConditionSet
        BY <1>1, <1>3, <1>4
      <3> QED
        BY <1>4, <3>1, RuleCellArrives
    <2> QED
      BY <1>4, <2>1
  <1>8. Link!encode(ext) \in BytePackets /\ Link!decode(Link!encode(ext)) = ext
    BY <1>2, <1>3, <1>5, RuleExtArrives
  <1> QED
    BY <1>4, <1>6, <1>7, <1>8 DEF cell, ext

\* What the stage makes of the packets of a rule.
LEMMA RuleIsStaged ==
    ASSUME Link!LinkAssumption, NEW r \in Rules, NEW got,
           Len(got) = Len(Link!RuleMessages(r)),
           \A i \in 1 .. Len(got) : got[i] = Link!decode(Link!encode(Link!RuleMessages(r)[i]))
    PROVE  Link!StagedRule(got) =
             [r EXCEPT !.conditions = Link!Without(r.conditions, Link!Uncarried)]
  <1> DEFINE c == r.conditions
             cell == [RuleCell(r) EXCEPT !.conditions = CarriedFirst(c)]
             gates == {"layer", "battery", "layers", "indicators", "maintenance",
                       "split_transport", "output_mode", "connection", "effects"}
             kept == Link!Without(c, Link!Uncarried)
  <1>1. /\ r = [slot |-> r.slot, effect |-> r.effect, conditions |-> c]
        /\ c = [layer |-> c.layer, battery |-> c.battery, layers |-> c.layers,
                indicators |-> c.indicators, maintenance |-> c.maintenance,
                split_transport |-> c.split_transport, output_mode |-> c.output_mode,
                connection |-> c.connection, effects |-> c.effects]
    BY DEF Link!LinkAssumption, Link!Rule, Link!ConditionSet
  <1>2. /\ cell.slot = r.slot /\ cell.effect = r.effect /\ cell.conditions = CarriedFirst(c)
    BY DEF RuleCell
  <1>3. [r EXCEPT !.conditions = kept] =
          [slot |-> r.slot, effect |-> r.effect, conditions |-> kept]
    BY <1>1
  <1>4. kept = [layer |-> c.layer, battery |-> c.battery, layers |-> None, indicators |-> None,
                maintenance |-> None, split_transport |-> None,
                output_mode |-> c.output_mode, connection |-> c.connection,
                effects |-> c.effects]
    BY <1>1 DEF Link!Without, Link!Uncarried
  <1>5. CarriedFirst(c) =
          [layer |-> c.layer, battery |-> c.battery, layers |-> None, indicators |-> None,
           maintenance |-> None, split_transport |-> None, output_mode |-> c.output_mode,
           connection |-> None, effects |-> None]
    <2> DEFINE none == Link!NoConditions
    <2>1. none = [layer |-> None, battery |-> None, layers |-> None, indicators |-> None,
                  maintenance |-> None, split_transport |-> None, output_mode |-> None,
                  connection |-> None, effects |-> None]
      BY DEF Link!NoConditions
    <2>2. CarriedFirst(c) = [none EXCEPT !.layer = c.layer, !.battery = c.battery,
                                         !.output_mode = c.output_mode]
      BY DEF CarriedFirst
    <2> HIDE DEF none, c
    <2> QED
      BY <2>1, <2>2
  <1>6. Link!RuleMessages(r) =
          (IF Link!NeedsExt(r) THEN <<RuleCell(r), RuleExt(r)>> ELSE <<RuleCell(r)>>)
        /\ Link!decode(Link!encode(RuleCell(r))) = cell
        /\ Link!decode(Link!encode(RuleExt(r))) = RuleExt(r)
    BY RulePackets
  <1> HIDE DEF c, cell, kept
  <1>7. CASE Link!NeedsExt(r)
    <2> DEFINE ext == RuleExt(r)
    <2>1. Link!RuleMessages(r) = <<RuleCell(r), ext>>
      BY <1>6, <1>7
    <2>2. /\ Len(got) = 2 /\ got[1] = Link!decode(Link!encode(RuleCell(r)))
          /\ got[2] = Link!decode(Link!encode(RuleExt(r)))
      BY <2>1
    <2>3. got[1] = cell /\ got[2] = ext
      BY <1>6, <2>2
    <2>4. ext.connection = c.connection /\ ext.effects = c.effects
      BY DEF RuleExt, c
    <2> HIDE DEF ext
    <2>5. Link!StagedRule(got) =
            [slot |-> cell.slot, effect |-> cell.effect,
             conditions |-> [cell.conditions EXCEPT !.connection = ext.connection,
                                                    !.effects = ext.effects]]
      BY <2>2, <2>3 DEF Link!StagedRule
    <2>6. [cell.conditions EXCEPT !.connection = ext.connection, !.effects = ext.effects] = kept
      <3> DEFINE first == cell.conditions
      <3>1. first = [layer |-> c.layer, battery |-> c.battery, layers |-> None,
                     indicators |-> None, maintenance |-> None, split_transport |-> None,
                     output_mode |-> c.output_mode, connection |-> None, effects |-> None]
        BY <1>2, <1>5
      <3> DEFINE second == [first EXCEPT !.connection = ext.connection, !.effects = ext.effects]
      <3>2. second = [first EXCEPT !.connection = c.connection, !.effects = c.effects]
        BY <2>4
      <3> HIDE DEF first, second
      <3>3. second =
              [gate \in DOMAIN first |->
                  IF gate = "connection" THEN c.connection
                  ELSE IF gate = "effects" THEN c.effects ELSE first[gate]]
        BY <3>2
      <3>4. second = kept
        BY <1>4, <3>1, <3>3
      <3> QED
        BY <3>4 DEF first, second
    <2> QED
      BY <1>2, <1>3, <2>5, <2>6 DEF kept, c
  <1>8. CASE ~Link!NeedsExt(r)
    <2>1. Link!RuleMessages(r) = <<RuleCell(r)>>
      BY <1>6, <1>8
    <2>2. Len(got) = 1 /\ got[1] = Link!decode(Link!encode(RuleCell(r)))
      BY <2>1
    <2>3. got[1] = cell
      BY <1>6, <2>2
    <2>4. c.connection = None /\ c.effects = None
      BY <1>8 DEF Link!NeedsExt, c
    <2>5. Link!StagedRule(got) =
            [slot |-> cell.slot, effect |-> cell.effect, conditions |-> cell.conditions]
      BY <2>2, <2>3 DEF Link!StagedRule
    <2>6. cell.conditions = kept
      BY <1>2, <1>4, <1>5, <2>4
    <2> QED
      BY <1>2, <1>3, <2>5, <2>6 DEF kept, c
  <1> QED
    BY <1>7, <1>8

\* A packet of another build is a packet.
LEMMA ForeignPackets ==
    ASSUME NEW b \in BytePackets
    PROVE  /\ \A at \in DOMAIN b : \A byte \in Link!Byte : [b EXCEPT ![at] = byte] \in BytePackets
           /\ \A size \in Nat :
                [i \in 0 .. (size - 1) |->
                    IF i < Link!Cardinality(DOMAIN b) THEN b[i] ELSE 0] \in BytePackets
  <1>1. PICK n \in Nat : b \in [0 .. n - 1 -> Link!Byte]
    BY DEF BytePackets
  <1>2. ASSUME NEW at \in DOMAIN b,
               NEW byte \in Link!Byte PROVE [b EXCEPT ![at] = byte] \in BytePackets
    <2>1. [b EXCEPT ![at] = byte] \in [0 .. n - 1 -> Link!Byte]
      BY <1>1
    <2> QED
      BY <2>1 DEF BytePackets
  <1>3. Link!Cardinality(DOMAIN b) = n
    <2>1. DOMAIN b = 0 .. n - 1
      BY <1>1
    <2> QED
      BY <1>1, <2>1, FS_Interval, LinkCardinality
  <1>4. ASSUME NEW size \in Nat
        PROVE  [i \in 0 .. (size - 1) |-> IF i < n THEN b[i] ELSE 0] \in BytePackets
    <2>1. ASSUME NEW i \in 0 .. (size - 1) PROVE (IF i < n THEN b[i] ELSE 0) \in Link!Byte
      <3>1. i < n => b[i] \in Link!Byte
        BY <1>1
      <3>2. 0 \in Link!Byte
        BY DEF Link!Byte
      <3> QED
        BY <3>1, <3>2
    <2>2. [i \in 0 .. (size - 1) |-> IF i < n THEN b[i] ELSE 0] \in [0 .. size - 1 -> Link!Byte]
      BY <2>1
    <2> QED
      BY <2>2 DEF BytePackets
  <1> QED
    BY <1>2, <1>3, <1>4

-----------------------------------------------------------------------------

\* A half queues a message.
LEMMA LinkSends ==
    ASSUME Link!LinkAssumption, LinkInv, NEW m \in Messages, Link!Send(m)
    PROVE  LinkInv'
  <1>1. sent_messages = <<>> /\ rule = None /\ wire \in Seq(BytePackets)
        /\ received \in Seq(Decodings)
    BY DEF LinkInv, Link!Send
  <1>2. Len(wire) = 0 /\ Len(received) = 0
    <2>1. Len(received) + Len(wire) = 0 /\ Len(received) \in Nat /\ Len(wire) \in Nat
      BY <1>1 DEF LinkInv
    <2> QED
      BY <2>1
  <1>3. Link!encode(m) \in BytePackets
    BY MessageArrives DEF Link!LinkAssumption
  <1>4. /\ sent_messages' = <<m>> /\ wire' = <<Link!encode(m)>>
        /\ rule' = rule /\ foreign' = foreign /\ received' = received
    BY DEF Link!Send
  <1>5. wire' \in Seq(BytePackets) /\ Len(wire') = 1 /\ Len(sent_messages') = 1
        /\ sent_messages' # <<>>
    BY <1>3, <1>4
  <1>6. \A i \in 1 .. 1 : wire'[i] = Link!encode(sent_messages'[0 + i])
    BY <1>4
  <1> QED
    BY <1>1, <1>2, <1>4, <1>5, <1>6 DEF LinkInv

\* The central queues the packets of a rule.
LEMMA LinkSendsRule ==
    ASSUME Link!LinkAssumption, LinkInv, NEW r \in Rules, Link!SendRule(r)
    PROVE  LinkInv'
  <1>1. sent_messages = <<>> /\ wire \in Seq(BytePackets) /\ received \in Seq(Decodings)
    BY DEF LinkInv, Link!SendRule
  <1>2. Len(wire) = 0 /\ Len(received) = 0
    <2>1. Len(received) + Len(wire) = 0 /\ Len(received) \in Nat /\ Len(wire) \in Nat
      BY <1>1 DEF LinkInv
    <2> QED
      BY <2>1
  <1>3. r # None
    BY DEF Link!LinkAssumption
  <1> DEFINE msgs == Link!RuleMessages(r)
  <1>4. /\ sent_messages' = msgs /\ wire' = [i \in DOMAIN msgs |-> Link!encode(msgs[i])]
        /\ rule' = r
        /\ foreign' = foreign /\ received' = received
    BY DEF Link!SendRule
  <1>5. PICK k \in 1 .. 2 : /\ DOMAIN msgs = 1 .. k /\ Len(msgs) = k /\ msgs # <<>>
                           /\ \A i \in 1 .. k : Link!encode(msgs[i]) \in BytePackets
    <2>1. /\ msgs = (IF Link!NeedsExt(r) THEN <<RuleCell(r), RuleExt(r)>> ELSE <<RuleCell(r)>>)
          /\ Link!encode(RuleCell(r)) \in BytePackets /\ Link!encode(RuleExt(r)) \in BytePackets
      BY RulePackets
    <2>2. CASE msgs = <<RuleCell(r), RuleExt(r)>>
      <3>1. DOMAIN msgs = 1 .. 2 /\ Len(msgs) = 2 /\ msgs # <<>>
        BY <2>2
      <3>2. \A i \in 1 .. 2 : Link!encode(msgs[i]) \in BytePackets
        BY <2>1, <2>2
      <3> QED
        BY <3>1, <3>2
    <2>3. CASE msgs = <<RuleCell(r)>>
      <3>1. DOMAIN msgs = 1 .. 1 /\ Len(msgs) = 1 /\ msgs # <<>>
        BY <2>3
      <3>2. \A i \in 1 .. 1 : Link!encode(msgs[i]) \in BytePackets
        BY <2>1, <2>3
      <3> QED
        BY <3>1, <3>2
    <2> QED
      BY <2>1, <2>2, <2>3
  <1> HIDE DEF msgs
  <1>6. /\ wire' \in Seq(BytePackets) /\ Len(wire') = k
        /\ \A i \in 1 .. k : wire'[i] = Link!encode(sent_messages'[0 + i])
    <2>1. wire' = [i \in 1 .. k |-> Link!encode(msgs[i])]
      BY <1>4, <1>5
    <2> QED
      BY <1>4, <1>5, <2>1
  <1>7. rule' # None /\ rule' \in Rules /\ sent_messages' = Link!RuleMessages(rule')
    BY <1>3, <1>4 DEF msgs
  <1> QED
    BY <1>1, <1>2, <1>4, <1>5, <1>6, <1>7 DEF LinkInv

\* A packet of another build in the place of the first.
LEMMA LinkIsForeign ==
    ASSUME LinkInv, wire # <<>>, NEW b \in BytePackets, wire' = [wire EXCEPT ![1] = b],
           foreign' = TRUE, sent_messages' = sent_messages, rule' = rule, received' = received
    PROVE  LinkInv'
  <1>1. wire \in Seq(BytePackets) /\ Len(wire) >= 1
    BY DEF LinkInv
  <1>2. wire' \in Seq(BytePackets) /\ Len(wire') = Len(wire)
    BY <1>1
  <1> QED
    BY <1>2 DEF LinkInv

\* A byte of another value.
LEMMA LinkChangesByte ==
    ASSUME Link!LinkAssumption, LinkInv, NEW at, NEW byte \in Bytes, Link!ChangeByte(at, byte)
    PROVE  LinkInv'
  <1> DEFINE b == [wire[1] EXCEPT ![at] = byte]
  <1>1. wire \in Seq(BytePackets) /\ wire # <<>> /\ wire[1] \in BytePackets /\ byte \in Link!Byte
    BY DEF LinkInv, Link!ChangeByte, Link!LinkAssumption
  <1>2. at \in DOMAIN wire[1]
    BY DEF Link!ChangeByte
  <1>3. b \in BytePackets
    BY <1>1, <1>2, ForeignPackets
  <1>4. /\ wire' = [wire EXCEPT ![1] = b] /\ foreign' = TRUE
        /\ sent_messages' = sent_messages /\ rule' = rule /\ received' = received
    BY DEF Link!ChangeByte
  <1> HIDE DEF b
  <1> QED
    BY <1>1, <1>3, <1>4, LinkIsForeign

\* A packet of another length.
LEMMA LinkChangesLength ==
    ASSUME Link!LinkAssumption, LinkInv, NEW size \in Nat, Link!ChangeLength(size)
    PROVE  LinkInv'
  <1> DEFINE b == [i \in 0 .. (size - 1) |->
                      IF i < Link!Cardinality(DOMAIN wire[1]) THEN wire[1][i] ELSE 0]
  <1>1. wire \in Seq(BytePackets) /\ wire # <<>> /\ wire[1] \in BytePackets
    BY DEF LinkInv, Link!ChangeLength
  <1>2. b \in BytePackets
    BY <1>1, ForeignPackets
  <1>3. /\ wire' = [wire EXCEPT ![1] = b] /\ foreign' = TRUE
        /\ sent_messages' = sent_messages /\ rule' = rule /\ received' = received
    BY DEF Link!ChangeLength
  <1> HIDE DEF b
  <1> QED
    BY <1>1, <1>2, <1>3, LinkIsForeign

\* The other half takes a packet: what it decodes is the next of what was sent.
LEMMA LinkReceives ==
    ASSUME LinkInv, Link!Receive
    PROVE  LinkInv'
  <1>1. /\ wire \in Seq(BytePackets) /\ wire # <<>> /\ received \in Seq(Decodings)
        /\ Len(received) + Len(wire) = Len(sent_messages)
    BY DEF LinkInv, Link!Receive
  <1>2. /\ wire' = Tail(wire) /\ received' = Append(received, Link!decode(Head(wire)))
        /\ sent_messages' = sent_messages /\ rule' = rule /\ foreign' = foreign
    BY DEF Link!Receive
  <1>3. Head(wire) = wire[1] /\ wire[1] \in BytePackets /\ Len(wire) >= 1
    BY <1>1
  <1>4. Link!decode(wire[1]) \in Decodings
    BY <1>3 DEF Decodings
  <1>5. /\ received' \in Seq(Decodings) /\ Len(received') = Len(received) + 1
        /\ \A i \in 1 .. Len(received) : received'[i] = received[i]
        /\ received'[Len(received) + 1] = Link!decode(wire[1])
    BY <1>1, <1>2, <1>3, <1>4
  <1>6. /\ wire' \in Seq(BytePackets) /\ Len(wire') = Len(wire) - 1
        /\ \A i \in 1 .. Len(wire') : wire'[i] = wire[i + 1]
    BY <1>1, <1>2, <1>3
  <1>7. Len(received') + Len(wire') = Len(sent_messages')
    BY <1>1, <1>2, <1>5, <1>6
  <1>8. ASSUME ~foreign
        PROVE  /\ \A i \in 1 .. Len(received') : received'[i] =
                    Link!decode(Link!encode(sent_messages'[i]))
               /\ \A i \in 1 .. Len(wire') : wire'[i] =
                    Link!encode(sent_messages'[Len(received') + i])
    <2>1. /\ \A i \in 1 .. Len(received) : received[i] =
               Link!decode(Link!encode(sent_messages[i]))
          /\ \A i \in 1 .. Len(wire) : wire[i] = Link!encode(sent_messages[Len(received) + i])
      BY <1>8 DEF LinkInv
    <2>2. ASSUME NEW i \in 1 .. Len(received')
          PROVE  received'[i] = Link!decode(Link!encode(sent_messages'[i]))
      <3>1. CASE i \in 1 .. Len(received)
        BY <1>2, <1>5, <2>1, <3>1
      <3>2. CASE i = Len(received) + 1
        BY <1>2, <1>3, <1>5, <2>1, <3>2
      <3> QED
        BY <1>1, <1>5, <3>1, <3>2
    <2>3. ASSUME NEW i \in 1 .. Len(wire')
          PROVE  wire'[i] = Link!encode(sent_messages'[Len(received') + i])
      <3>1. i + 1 \in 1 .. Len(wire) /\ Len(received) + (i + 1) = Len(received') + i
        BY <1>1, <1>5, <1>6
      <3> QED
        BY <1>2, <1>6, <2>1, <3>1
    <2> QED
      BY <2>2, <2>3
  <1> QED
    BY <1>2, <1>5, <1>6, <1>7, <1>8 DEF LinkInv

\* What is received is what was sent, as the invariant has it.
LEMMA LinkIsSound ==
    ASSUME Link!LinkAssumption, LinkInv
    PROVE  Link!WireIsSound
  <1>1. received \in Seq(Decodings) /\ DOMAIN received = 1 .. Len(received)
    BY DEF LinkInv
  <1>2. Link!ArrivesAsSent
    <2> SUFFICES ASSUME ~foreign, rule = None, NEW i \in 1 .. Len(received)
                 PROVE  received[i] = sent_messages[i]
      BY <1>1 DEF Link!ArrivesAsSent
    <2>1. received[i] = Link!decode(Link!encode(sent_messages[i]))
      BY DEF LinkInv
    <2>2. Len(sent_messages) >= 1
      <3>1. /\ Len(received) + Len(wire) = Len(sent_messages) /\ Len(received) \in Nat
            /\ Len(wire) \in Nat
        BY <1>1 DEF LinkInv
      <3> QED
        BY <3>1
    <2>3. PICK m \in Messages : sent_messages = <<m>>
      BY <2>2 DEF LinkInv
    <2>4. i = 1
      <3>1. /\ Len(received) + Len(wire) = 1 /\ Len(received) \in Nat /\ Len(wire) \in Nat
        BY <1>1, <2>3 DEF LinkInv
      <3> QED
        BY <3>1
    <2>5. Link!decode(Link!encode(m)) = m
      BY MessageArrives DEF Link!LinkAssumption
    <2> QED
      BY <2>1, <2>3, <2>4, <2>5
  <1>3. Link!CarriedGatesCross
    <2> SUFFICES ASSUME Link!Staged
                 PROVE  Link!StagedRule(received) =
                          [rule EXCEPT !.conditions =
                            Link!Without(rule.conditions, Link!Uncarried)]
      BY DEF Link!CarriedGatesCross
    <2>1. ~foreign /\ rule # None /\ Len(received) = Len(sent_messages)
      BY DEF Link!Staged
    <2>2. rule \in Rules /\ sent_messages = Link!RuleMessages(rule)
      BY <2>1 DEF LinkInv
    <2>3. \A i \in 1 .. Len(received) : received[i] = Link!decode(Link!encode(sent_messages[i]))
      BY <2>1 DEF LinkInv
    <2> QED
      BY <2>1, <2>2, <2>3, RuleIsStaged
  <1>4. Link!DecodedIsUsable
    <2> SUFFICES ASSUME NEW i \in 1 .. Len(received), Link!Decoded(received[i])
                 PROVE  Link!Usable(received[i])
      BY <1>1 DEF Link!DecodedIsUsable
    <2>1. received[i] \in Decodings
      BY <1>1
    <2>2. PICK b \in BytePackets : received[i] = Link!decode(b)
      BY <2>1 DEF Decodings
    <2> QED
      BY <2>2, PacketsUsable
  <1> QED
    BY <1>2, <1>3, <1>4 DEF Link!WireIsSound

\* For all messages, rules and geometries that fit the wire's fields, and
\* whatever packet a half of another build puts on the channel, the halves
\* agree about every packet: encode and decode invert each other.
THEOREM HalvesAgree == Link!Spec => []WireIsSound
  <1>1. Link!LinkAssumption
    BY LinkConstants
  <1>2. Link!Init => LinkInv
    <2> SUFFICES ASSUME Link!Init PROVE LinkInv
      OBVIOUS
    <2>1. /\ sent_messages = <<>> /\ rule = None /\ wire = <<>> /\ foreign = FALSE
          /\ received = <<>>
      BY DEF Link!Init
    <2>2. wire \in Seq(BytePackets) /\ received \in Seq(Decodings) /\ Len(wire) = 0
          /\ Len(received) = 0 /\ Len(sent_messages) = 0
      BY <2>1
    <2>3. \A i \in 1 .. 0 : FALSE
      OBVIOUS
    <2>4. /\ \A i \in 1 .. Len(received) : received[i] =
               Link!decode(Link!encode(sent_messages[i]))
          /\ \A i \in 1 .. Len(wire) : wire[i] = Link!encode(sent_messages[Len(received) + i])
      BY <2>2, <2>3
    <2>5. Len(received) + Len(wire) = Len(sent_messages)
      BY <2>2
    <2>6. foreign \in BOOLEAN
      BY <2>1
    <2> QED
      BY <2>1, <2>2, <2>4, <2>5, <2>6 DEF LinkInv
  <1>3. LinkInv /\ [Link!Next]_(Link!vars) => LinkInv'
    <2> SUFFICES ASSUME LinkInv, [Link!Next]_(Link!vars) PROVE LinkInv'
      OBVIOUS
    <2>1. ASSUME NEW m \in Messages, Link!Send(m) PROVE LinkInv'
      BY <1>1, <2>1, LinkSends
    <2>2. ASSUME NEW r \in Rules, Link!SendRule(r) PROVE LinkInv'
      BY <1>1, <2>2, LinkSendsRule
    <2>3. ASSUME NEW at, NEW byte \in Bytes, Link!ChangeByte(at, byte) PROVE LinkInv'
      BY <1>1, <2>3, LinkChangesByte
    <2>4. ASSUME NEW size \in Nat, Link!ChangeLength(size) PROVE LinkInv'
      BY <1>1, <2>4, LinkChangesLength
    <2>5. CASE Link!Receive
      BY <2>5, LinkReceives
    <2>6. CASE UNCHANGED Link!vars
      BY <2>6 DEF Link!vars, LinkInv
    <2>7. \A size \in 0 .. SPLIT_APP_MSG_MAX : size \in Nat
      OBVIOUS
    <2> QED
      BY <2>1, <2>2, <2>3, <2>4, <2>5, <2>6, <2>7 DEF Link!Next
  <1>4. LinkInv => WireIsSound
    BY <1>1, LinkIsSound DEF WireIsSound
  <1> QED
    BY <1>2, <1>3, <1>4, PTL DEF Link!Spec

=============================================================================
