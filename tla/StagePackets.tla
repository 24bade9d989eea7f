---------------------------- MODULE StagePackets ----------------------------
(***************************************************************************)
(* The packets of one snapshot transaction on the split link and what the  *)
(* peripheral's SnapshotStage does with each of them (split_lighting.rs).  *)
(* Constant level only: the modules that send and lose packets EXTEND it.  *)
(*                                                                         *)
(* Data is abstracted to what the stage tells apart. A setting, an effect, *)
(* a context or a gate is a member of Values. `header' stands for the      *)
(* fields Begin carries besides its counts (scene policy, sample time,     *)
(* mutable state, output mode). `part' holds what travels in a packet of   *)
(* its own, indexed by the type of that packet: the wake-layer mask, the   *)
(* replicated context with the battery pair, the extension effect and the  *)
(* second (overlay) effect with their parameters. OverlayBatch and         *)
(* SceneTable are sets of cells: the stage looks them up by key and counts *)
(* them, their order is immaterial. The conditional-scene table is a       *)
(* sequence because a gate packet amends its last entry.                   *)
(***************************************************************************)
EXTENDS Integers, FiniteSets, Sequences, SequencesExt

CONSTANTS
    Values,          \* settings, contexts, effects and gates
    Default,         \* the value a fresh stage holds, and "no gate"
    LEDS_PER_HALF,   \* LEDs of one half: the right half starts at this slot
    SCENE_CAPACITY,  \* capacity of the scene and conditional-scene tables
    Layers,          \* layers a scene cell may belong to
    Snapshots        \* the replicas the central's engine can export

Slots == 0 .. (2 * LEDS_PER_HALF - 1)

Cell == [slot : Slots, effect : Values]
SceneCell == [layer : Layers, slot : Slots, effect : Values]
\* `gate' is the connection/effects condition, Default when there is none.
CondCell == [slot : Slots, effect : Values, gate : Values]

\* The parts of a snapshot that have a packet type of their own.
Parts == {"WakeLayers", "Context", "Extension", "ExtensionOverlay"}

\* StandardReplicaState
Snapshot ==
    [revision : Nat, header : Values, part : [Parts -> Values],
     cells : SUBSET Cell, scenes : SUBSET SceneCell, cond : Seq(CondCell)]

ASSUME StageConstants ==
    /\ Default \in Values
    /\ LEDS_PER_HALF \in Nat \ {0}
    /\ SCENE_CAPACITY \in Nat
    /\ Snapshots \subseteq Snapshot
    /\ \A s \in Snapshots : IsFiniteSet(s.cells) /\ IsFiniteSet(s.scenes)

-----------------------------------------------------------------------------
(* What the central sends.                                                 *)

\* The projection of a table on the right half.
Right(cells) == {c \in cells : c.slot >= LEDS_PER_HALF}
RightSeq(cond) ==
    FlattenSeq([i \in DOMAIN cond |->
        IF cond[i].slot >= LEDS_PER_HALF THEN <<cond[i]>> ELSE <<>>])

\* snapshot_counts, and the limits try_queue_snapshot puts on them.
CellCount(s) == Cardinality(Right(s.cells))
SceneCount(s) == Cardinality(Right(s.scenes))
CondCount(s) == Len(RightSeq(s.cond))
CountsFit(s) ==
    /\ CellCount(s) <= LEDS_PER_HALF
    /\ SceneCount(s) <= SCENE_CAPACITY
    /\ CondCount(s) <= SCENE_CAPACITY

BeginPacket(g, s) ==
    [type |-> "Begin", generation |-> g, revision |-> s.revision,
     header |-> s.header, cell_count |-> CellCount(s),
     scene_count |-> SceneCount(s)]
PartPacket(g, s, p) ==
    [type |-> p, generation |-> g, revision |-> s.revision, value |-> s.part[p]]
CellPacket(g, s, c) ==
    [type |-> "Cell", generation |-> g, revision |-> s.revision, cell |-> c]
ScenePacket(g, s, c) ==
    [type |-> "SceneCell", generation |-> g, revision |-> s.revision, cell |-> c]
CondBeginPacket(g, s) ==
    [type |-> "ConditionalSceneBegin", generation |-> g,
     revision |-> s.revision, cell_count |-> CondCount(s)]
\* The cell packet is full: the gate travels in a packet of its own.
CondCellPacket(g, s, c) ==
    [type |-> "ConditionalSceneCell", generation |-> g,
     revision |-> s.revision, cell |-> [c EXCEPT !.gate = Default]]
CondExtPacket(g, s, c) ==
    [type |-> "ConditionalSceneExt", generation |-> g,
     revision |-> s.revision, gate |-> c.gate]
CommitPacket(g, s) ==
    [type |-> "Commit", generation |-> g, revision |-> s.revision,
     cell_count |-> CellCount(s), scene_count |-> SceneCount(s)]

\* Every packet of the transaction, as a set.
PacketsOf(g, s) ==
    {BeginPacket(g, s), CondBeginPacket(g, s), CommitPacket(g, s)}
    \cup {PartPacket(g, s, p) : p \in Parts}
    \cup {CellPacket(g, s, c) : c \in Right(s.cells)}
    \cup {ScenePacket(g, s, c) : c \in Right(s.scenes)}
    \cup {CondCellPacket(g, s, s.cond[i]) :
            i \in {j \in DOMAIN s.cond : s.cond[j].slot >= LEDS_PER_HALF}}
    \cup {CondExtPacket(g, s, s.cond[i]) :
            i \in {j \in DOMAIN s.cond : /\ s.cond[j].slot >= LEDS_PER_HALF
                                         /\ s.cond[j].gate # Default}}

-----------------------------------------------------------------------------
(* What the peripheral stages.                                             *)

NoStage == [generation |-> -1]

\* An open stage: `received' holds the types of the part packets received so
\* far (the *_received flags) and `expected_cond' is -1 until a
\* ConditionalSceneBegin gave the count (Option::None).
Stage ==
    [generation : Nat, revision : Nat, header : Values,
     part : [Parts -> Values], received : SUBSET Parts,
     cells : SUBSET Cell, scenes : SUBSET SceneCell, cond : Seq(CondCell),
     expected_cells : 0 .. LEDS_PER_HALF, expected_scenes : 0 .. SCENE_CAPACITY,
     expected_cond : -1 .. SCENE_CAPACITY]

\* The empty stage a Begin opens.
OpenStage(m) ==
    [generation |-> m.generation, revision |-> m.revision, header |-> m.header,
     part |-> [p \in Parts |-> Default], received |-> {},
     cells |-> {}, scenes |-> {}, cond |-> <<>>,
     expected_cells |-> m.cell_count, expected_scenes |-> m.scene_count,
     expected_cond |-> -1]

\* A Begin whose counts fit replaces whatever was staged; another is ignored.
UncheckedBegin(st, m) == OpenStage(m)   \* mutant: no limit on the counts
StageBegin(st, m) ==
    IF m.cell_count <= LEDS_PER_HALF /\ m.scene_count <= SCENE_CAPACITY
    THEN OpenStage(m)
    ELSE st

\* The packet belongs to the open stage. Every other packet type aborts the
\* stage when it does not.
MatchesRevision(st, m) ==   \* mutant: the generation is not compared
    st # NoStage /\ st.revision = m.revision
Matches(st, m) ==
    /\ st # NoStage
    /\ st.generation = m.generation
    /\ st.revision = m.revision

StagePart(st, m) ==
    IF Matches(st, m)
    THEN [st EXCEPT !.part[m.type] = m.value, !.received = @ \cup {m.type}]
    ELSE NoStage

StageCell(st, m) ==
    IF /\ Matches(st, m)
       /\ Cardinality(st.cells) < st.expected_cells
       /\ \A c \in st.cells : c.slot # m.cell.slot
    THEN [st EXCEPT !.cells = @ \cup {m.cell}]
    ELSE NoStage

StageScene(st, m) ==
    IF /\ Matches(st, m)
       /\ Cardinality(st.scenes) < st.expected_scenes
       /\ \A c \in st.scenes : c.layer # m.cell.layer \/ c.slot # m.cell.slot
    THEN [st EXCEPT !.scenes = @ \cup {m.cell}]
    ELSE NoStage

StageCondBegin(st, m) ==
    IF Matches(st, m) /\ m.cell_count <= SCENE_CAPACITY
    THEN [st EXCEPT !.expected_cond = m.cell_count, !.cond = <<>>]
    ELSE NoStage

StageCondCell(st, m) ==
    IF Matches(st, m) /\ Len(st.cond) < st.expected_cond
    THEN [st EXCEPT !.cond = Append(@, m.cell)]
    ELSE NoStage

StageCondExt(st, m) ==
    IF Matches(st, m) /\ st.cond # <<>>
    THEN [st EXCEPT !.cond[Len(st.cond)].gate = m.gate]
    ELSE NoStage

\* Every overlay and scene cell that Begin announced is there.
CellsComplete(st) ==   \* mutant: the scene cells are not counted
    Cardinality(st.cells) = st.expected_cells
TablesComplete(st) ==
    /\ Cardinality(st.cells) = st.expected_cells
    /\ Cardinality(st.scenes) = st.expected_scenes

\* Every conditional cell that ConditionalSceneBegin announced is there, if one
\* arrived.
CondUncounted(st) == TRUE   \* mutant: the conditional cells are not counted
CondComplete(st) == st.expected_cond = -1 \/ Len(st.cond) = st.expected_cond

\* The condition under which Commit hands the staged snapshot out.
CommitValid(st, m) ==
    /\ m.type = "Commit"
    /\ Matches(st, m)
    /\ st.received = Parts
    /\ st.expected_cells = m.cell_count
    /\ st.expected_scenes = m.scene_count
    /\ TablesComplete(st)
    /\ CondComplete(st)

\* SnapshotStage::apply: the stage after packet m. Commit takes the stage or
\* drops it; either way none is left.
ApplyPacket(st, m) ==
    CASE m.type = "Begin" -> StageBegin(st, m)
      [] m.type \in Parts -> StagePart(st, m)
      [] m.type = "Cell" -> StageCell(st, m)
      [] m.type = "SceneCell" -> StageScene(st, m)
      [] m.type = "ConditionalSceneBegin" -> StageCondBegin(st, m)
      [] m.type = "ConditionalSceneCell" -> StageCondCell(st, m)
      [] m.type = "ConditionalSceneExt" -> StageCondExt(st, m)
      [] m.type = "Commit" -> NoStage

\* The (generation, snapshot, batteries) triple a valid Commit returns.
StagedSnapshot(st) ==
    [generation |-> st.generation, revision |-> st.revision,
     header |-> st.header, part |-> st.part,
     cells |-> st.cells, scenes |-> st.scenes, cond |-> st.cond]

NoCommit == [generation |-> 0]
StagedSnapshots ==
    [generation : Nat, revision : Nat, header : Values,
     part : [Parts -> Values], cells : SUBSET Cell, scenes : SUBSET SceneCell, cond : Seq(CondCell)]

=============================================================================
