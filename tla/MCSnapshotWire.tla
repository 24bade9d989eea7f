--------------------------- MODULE MCSnapshotWire ---------------------------
(* SnapshotWire for TLC: two LEDs per half; the snapshots have conditional  *)
(* cells with and without a gate, and one of them is too large to queue     *)
(* while another transaction is still in the queue.                         *)
EXTENDS SnapshotWire

MCValues == 0 .. 2

Plain ==
    [revision |-> 1, header |-> 1, part |-> [p \in Parts |-> 1],
     cells |-> {[slot |-> 1, effect |-> 1], [slot |-> 2, effect |-> 1]},
     scenes |-> {},
     cond |-> <<[slot |-> 0, effect |-> 2, gate |-> 1],
                [slot |-> 3, effect |-> 1, gate |-> 0]>>]

\* A gated cell behind an ungated one, and a second gated cell.
Gated ==
    [Plain EXCEPT !.revision = 2, !.cells = {},
                  !.scenes = {[layer |-> 0, slot |-> 3, effect |-> 1]},
                  !.cond = <<[slot |-> 2, effect |-> 1, gate |-> 1],
                             [slot |-> 3, effect |-> 1, gate |-> 2]>>]

\* Four scene cells for a table of two: try_queue_snapshot refuses it.
Oversize ==
    [Plain EXCEPT !.revision = 3,
                  !.scenes = [layer : {0, 1}, slot : {2, 3}, effect : {1}]]

MCSnapshots == {Plain, Gated, Oversize}

=============================================================================
