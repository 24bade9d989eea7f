----------------------------- MODULE MCSplitLink -----------------------------
(***************************************************************************)
(* What crosses the split link, for TLC: a snapshot's transaction against  *)
(* any link (SnapshotStage) and over the real queue (SnapshotWire), the    *)
(* packets' bytes (WireLink) and the digests the halves compare            *)
(* (ReplicaDigest). These models share no state, so each is explored while *)
(* the others rest in an initial state. `subject` is the one that runs.    *)
(***************************************************************************)
EXTENDS SnapshotLink

CONSTANTS
    DigestSnapshots                                     \* ReplicaDigest

VARIABLES
    subject,
    authority, replica, transferred

Digest == INSTANCE MCReplicaDigest WITH
    LEDS_PER_HALF <- 2, TOTAL_LEDS <- 4, Snapshots <- DigestSnapshots

\* The values of WireSnapshots, Messages, Rules and DigestSnapshots. They do
\* not depend on the constants they are the values of.
OfWire == INSTANCE MCSnapshotWire WITH
    Snapshots <- {}, MaxTransfers <- 0,
    sent <- wire_sent, stage <- wire_stage, committed <- wire_committed
OfLink == INSTANCE MCWireLink WITH
    LEDS_PER_HALF <- HalfLeds, TOTAL_LEDS <- BoardLeds, Messages <- {}, Rules <- {},
    sent <- sent_messages
OfDigest == INSTANCE MCReplicaDigest WITH
    LEDS_PER_HALF <- 2, TOTAL_LEDS <- 4, Snapshots <- {}
MCWireSnapshots == OfWire!MCSnapshots
MCLinkMessages == OfLink!MCMessages
MCLinkRules == OfLink!MCRules
MCDigestSnapshots == OfDigest!MCSnapshots

-----------------------------------------------------------------------------
(* Snapshots for SnapshotStage: two LEDs per half, two layers, and tables  *)
(* that differ in each of the ways the stage has to tell apart.            *)

\* Settings 0 (the default), 1 and 2.
MCValues == 0 .. 2

\* One cell on the left half, which no packet carries, and one on the right.
Base ==
    [revision |-> 1, header |-> 1, part |-> [p \in Parts |-> 1],
     cells |-> {[slot |-> 0, effect |-> 1], [slot |-> 2, effect |-> 1]},
     scenes |-> {[layer |-> 0, slot |-> 2, effect |-> 1]},
     cond |-> <<>>]

\* The same engine revision exported again with another context, as a retry
\* after a battery or indicator change is.
Retry == [Base EXCEPT !.part["Context"] = 2, !.header = 2]

\* The next revision: two cells and two scene cells on one LED.
Change ==
    [Base EXCEPT !.revision = 2, !.part["WakeLayers"] = 2,
                 !.cells = {[slot |-> 2, effect |-> 2], [slot |-> 3, effect |-> 1]},
                 !.scenes = {[layer |-> 0, slot |-> 3, effect |-> 1],
                             [layer |-> 1, slot |-> 3, effect |-> 2]},
                 !.cond = <<[slot |-> 3, effect |-> 1, gate |-> 1]>>]

\* More scene cells than the peripheral's table holds.
Oversize ==
    [Base EXCEPT !.revision = 3, !.cells = {},
                 !.scenes = [layer : {0, 1}, slot : {2, 3}, effect : {1}],
                 !.cond = <<>>]

MCSnapshots == {Base, Retry, Change, Oversize}

-----------------------------------------------------------------------------
stageVars == <<sent, stage, committed>>
snapshotVars == <<wire_sent, wire_stage, wire_committed, tx>>
linkVars == <<sent_messages, rule, wire, foreign, received>>
digestVars == <<authority, replica, transferred>>
splitVars == <<subject, stageVars, snapshotVars, linkVars, digestVars>>

SplitInit ==
    /\ subject \in {"stage", "snapshot", "link", "digest"}
    /\ Init /\ Wire!Init /\ Link!Init
    /\ IF subject = "digest" THEN Digest!Init
       ELSE authority = Digest!Base /\ replica = None /\ transferred = FALSE

SplitNext ==
    \/ /\ subject = "stage" /\ Next
       /\ UNCHANGED <<subject, snapshotVars, linkVars, digestVars>>
    \/ /\ subject = "snapshot" /\ Wire!Next
       /\ UNCHANGED <<subject, stageVars, linkVars, digestVars>>
    \/ /\ subject = "link" /\ Link!Next
       /\ UNCHANGED <<subject, stageVars, snapshotVars, digestVars>>
    \/ /\ subject = "digest" /\ Digest!Next
       /\ UNCHANGED <<subject, stageVars, snapshotVars, linkVars>>

SplitSpec == SplitInit /\ [][SplitNext]_splitVars

-----------------------------------------------------------------------------
(* The property of the digests; the others are stated in SnapshotLink.     *)

\* ReplicaDigest: digests are equal exactly if the right half shows the same,
\* as it does after a transfer.
AttestationIsExact == subject = "digest" => Digest!AttestationIsExact
=============================================================================
