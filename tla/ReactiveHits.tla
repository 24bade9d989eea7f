---------------------------- MODULE ReactiveHits ----------------------------
(***************************************************************************)
(* Key hits for the typing-reactive effects. Each half listens on its own  *)
(* keyboard event bus: the central hears its keys and the republished keys *)
(* of the right half, board-wide; the peripheral hears its own keys in its *)
(* own columns. The central mirrors its left-half hits over the split      *)
(* queue that snapshots use as well. A key is its column, and lights the   *)
(* LED slot of the same number.                                            *)
(***************************************************************************)
EXTENDS Integers, Sequences, SequencesExt

CONSTANTS
    Width,         \* columns of one half
    TxCapacity,    \* slots of SPLIT_APP_TX
    HitCapacity,   \* REACTIVE_HITS, the slots of HIT_QUEUE
    MaxPresses     \* bound on the presses of one key

WidthAssumption == Width \in Nat \ {0}

Columns == 0..(2 * Width - 1)
LedsPerHalf == Width
Halves == {"central", "peripheral"}

VARIABLES
    pressed,       \* how often each key was pressed, board-wide
    bus,           \* key events not yet handled, per half, in its columns
    split,         \* right-half keys on their way to the central
    link,          \* SPLIT_APP_LINK
    tx,            \* SPLIT_APP_TX: slots of effect hits, or Other traffic
    queue,         \* HIT_QUEUE of each half
    recorded,      \* hits each half's engine was given, per slot
    refused        \* hits a full HIT_QUEUE refused, per half and slot

vars == <<pressed, bus, split, link, tx, queue, recorded, refused>>
Other == -1        \* a packet of a snapshot

\* ReactiveKeyHits::central and ::peripheral
Unshifted == [central    |-> [col_offset |-> 0, first_col |-> 0, last_col |-> 2 * Width,
                              mirror |-> TRUE],
              peripheral |-> [col_offset |-> 0, first_col |-> 0, last_col |-> 2 * Width,
                              mirror |-> FALSE]]   \* mutant: the scan columns as they are
Config == [central    |-> [col_offset |-> 0, first_col |-> 0, last_col |-> 2 * Width,
                           mirror |-> TRUE],
           peripheral |-> [col_offset |-> Width, first_col |-> Width,
                           last_col |-> 2 * Width, mirror |-> FALSE]]

Init ==
    /\ pressed = [c \in Columns |-> 0]
    /\ bus = [h \in Halves |-> <<>>] /\ split = <<>>
    /\ link = FALSE /\ tx = <<>>
    /\ queue = [h \in Halves |-> <<>>]
    /\ recorded = [h \in Halves |-> [c \in Columns |-> 0]]
    /\ refused = [h \in Halves |-> [c \in Columns |-> 0]]

\* A key of the left half goes to the central's bus; one of the right half to
\* the peripheral's own bus and, with a session, to the central.
Press(col) ==
    /\ pressed[col] < MaxPresses
    /\ pressed' = [pressed EXCEPT ![col] = @ + 1]
    /\ IF col < Width
       THEN /\ bus' = [bus EXCEPT !.central = Append(@, col)]
            /\ UNCHANGED split
       ELSE /\ bus' = [bus EXCEPT !.peripheral = Append(@, col - Width)]
            /\ split' = IF link THEN Append(split, col) ELSE split
    /\ UNCHANGED <<link, tx, queue, recorded, refused>>

\* The split driver republishes a right-half key on the central's bus.
Republish ==
    /\ split # <<>>
    /\ bus' = [bus EXCEPT !.central = Append(@, Head(split))]
    /\ split' = Tail(split)
    /\ UNCHANGED <<pressed, link, tx, queue, recorded, refused>>

\* HIT_QUEUE.record
Record(h, slot) ==
    IF Len(queue[h]) < HitCapacity
    THEN /\ queue' = [queue EXCEPT ![h] = Append(@, slot)]
         /\ recorded' = [recorded EXCEPT ![h][slot] = @ + 1]
         /\ UNCHANGED refused
    ELSE /\ refused' = [refused EXCEPT ![h][slot] = @ + 1]
         /\ UNCHANGED <<queue, recorded>>

MirrorOffline(slot) ==   \* mutant: hits are queued while there is no session
    slot < LedsPerHalf /\ Len(tx) < TxCapacity
MirrorAnyway(slot) == link /\ slot < LedsPerHalf   \* mutant: a full queue is not noticed
\* try_queue_effect_hit: refused without a session, for the right half's own
\* slots, and when the queue is full.
MayMirror(slot) == link /\ slot < LedsPerHalf /\ Len(tx) < TxCapacity

\* on_keyboard_event of a press; it returns at once on a release.
Hears(h) ==
    /\ bus[h] # <<>>
    /\ bus' = [bus EXCEPT ![h] = Tail(@)]
    /\ LET col == Head(bus[h]) + Config[h].col_offset
           mine == col >= Config[h].first_col /\ col < Config[h].last_col
       IN  IF mine
           THEN /\ Record(h, col)
                /\ tx' = IF Config[h].mirror /\ MayMirror(col) THEN Append(tx, col) ELSE tx
           ELSE UNCHANGED <<queue, recorded, refused, tx>>
    /\ UNCHANGED <<pressed, split, link>>

\* Replication takes a slot of the shared queue.
QueueOther ==
    /\ link /\ Len(tx) < TxCapacity
    /\ tx' = Append(tx, Other)
    /\ UNCHANGED <<pressed, bus, split, link, queue, recorded, refused>>

Redeliver ==   \* mutant: the packet is handled and left in the queue
    /\ link /\ tx # <<>> /\ Head(tx) # Other
    /\ Record("peripheral", Head(tx))
    /\ UNCHANGED <<pressed, bus, split, link, tx>>
\* The peripheral takes a packet; a hit of the left half is recorded.
Deliver ==
    /\ link /\ tx # <<>>
    /\ tx' = Tail(tx)
    /\ IF Head(tx) # Other /\ Head(tx) < LedsPerHalf
       THEN Record("peripheral", Head(tx))
       ELSE UNCHANGED <<queue, recorded, refused>>
    /\ UNCHANGED <<pressed, bus, split, link>>

\* The effect source takes every hit before it renders.
Render(h) ==
    /\ queue[h] # <<>>
    /\ queue' = [queue EXCEPT ![h] = <<>>]
    /\ UNCHANGED <<pressed, bus, split, link, tx, recorded, refused>>

\* The session begins, or ends and loses the key events on their way.
LinkChanges ==
    /\ link' = ~link /\ split' = <<>>
    /\ UNCHANGED <<pressed, bus, tx, queue, recorded, refused>>

Next ==
    \/ \E col \in Columns : Press(col)
    \/ Republish
    \/ \E h \in Halves : Hears(h) \/ Render(h)
    \/ QueueOther
    \/ Deliver
    \/ LinkChanges

Spec == Init /\ [][Next]_vars

-----------------------------------------------------------------------------
CountOf(seq, x) == Cardinality({i \in DOMAIN seq : seq[i] = x})

\* Columns and queue lengths are in range.
TypeOK ==
    /\ pressed \in [Columns -> 0..MaxPresses] /\ link \in BOOLEAN
    /\ \A h \in Halves : Len(queue[h]) <= HitCapacity /\ ToSet(queue[h]) \subseteq Columns
    /\ Len(tx) <= TxCapacity /\ ToSet(tx) \subseteq Columns \cup {Other}
    /\ ToSet(split) \subseteq Columns

\* Each half gives its engine every press of its own keys exactly once,
\* unless its hit queue is full: none is lost on the way, and the mirrored
\* traffic adds none.
OwnKeysHitOnce ==
    \A col \in Columns :
        LET h == IF col < Width THEN "central" ELSE "peripheral"
            local == IF col < Width THEN col ELSE col - Width
        IN  pressed[col] = recorded[h][col] + refused[h][col] + CountOf(bus[h], local)

\* ReactiveKeyHits: both engines get "the same spatial hit while avoiding a
\* duplicate for right-half keys". A key of the other half is recorded at
\* most once per press, counting what is still on its way.
OtherKeysHitAtMostOnce ==
    \A col \in Columns :
        IF col < Width
        THEN recorded.peripheral[col] + refused.peripheral[col] + CountOf(tx, col)
               + CountOf(bus.central, col) <= pressed[col]
        ELSE recorded.central[col] + refused.central[col] + CountOf(bus.central, col)
               + CountOf(split, col) <= pressed[col]

\* Over two buses, the republished events and the mirror, each press reaches
\* the engine of its own half once and that of the other at most once.
EachPressHitsOnce == OwnKeysHitOnce /\ OtherKeysHitAtMostOnce

\* try_queue_effect_hit: without a session nothing drains the queue, so keys
\* typed then take no slot from the snapshot that the next session asks for.
TypingOfflineTakesNoSlot == [][~link => Len(tx') <= Len(tx)]_vars

=============================================================================
