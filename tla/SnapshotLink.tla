---------------------------- MODULE SnapshotLink ----------------------------
(***************************************************************************)
(* A snapshot's transaction on the split link, twice: against any link     *)
(* (SnapshotStage) and over the real queue (SnapshotWire); and the bytes   *)
(* of its packets and of all others (WireLink). They share no state.       *)
(***************************************************************************)
EXTENDS SnapshotStage

CONSTANTS
    WireSnapshots, WireTransfers, TxCapacity,             \* SnapshotWire
    None, HalfLeds, BoardLeds, EXTENSION_PARAM_CHUNK, SPLIT_APP_MSG_MAX,
    Messages, Rules, Bytes, Shorter                       \* WireLink

VARIABLES
    wire_sent, wire_stage, wire_committed, tx,
    sent_messages, rule, wire, foreign, received

Wire == INSTANCE SnapshotWire WITH
    Snapshots <- WireSnapshots, MaxTransfers <- WireTransfers,
    sent <- wire_sent, stage <- wire_stage, committed <- wire_committed

Link == INSTANCE WireLink WITH
    LEDS_PER_HALF <- HalfLeds, TOTAL_LEDS <- BoardLeds, sent <- sent_messages

ASSUME WireConstants == Wire!StageConstants /\ WireTransfers \in 1 .. 255
ASSUME LinkConstants == Link!PacketsFit /\ Link!LinkAssumption

\* SnapshotWire: a gate is committed with its own conditional cell or not at
\* all, whatever packets of the transaction are lost.
CondGatesNeverMisattached == Wire!CondGatesNeverMisattached
\* SnapshotWire: the queue with loss is one of the links SnapshotStage allows.
ImplementsAnyLink == Wire!ImplementsAnyLink
\* WireLink: the halves agree about every packet, and a rule keeps the gates
\* that have a place in one.
WireIsSound == Link!WireIsSound
=============================================================================
