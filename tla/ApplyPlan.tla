------------------------------ MODULE ApplyPlan ------------------------------
(***************************************************************************)
(* What `moergo-control config apply` compares and what it decides to      *)
(* write: `differences` of a file and a keyboard, and the sequence of      *)
(* requests `apply_snapshot` derives from the file and from the state read *)
(* before the first write.  Everything here is a function of those two.    *)
(*                                                                         *)
(* The keyboard is a function from items to small numbers: an item is one  *)
(* key cell, one slot of a behaviour table, one layer name or one single   *)
(* setting.  Zero in a table slot is the firmware's empty slot.            *)
(***************************************************************************)
EXTENDS Naturals, Sequences, FiniteSets, SequencesExt, FiniteSetsExt

CONSTANTS
    NumLayers,     \* layers the keyboard has
    NumCells,      \* cells of one layer (rows * cols)
    Slots,         \* capacity of each behaviour table
    Batch,         \* WritePolicy::batch
    WholeLayers,   \* WritePolicy::whole_layers
    BulkTransfer   \* the firmware takes a page of cells in one request

ASSUME PlanAssumption ==
    /\ {NumLayers, NumCells, Slots} \subseteq Nat
    /\ Batch \in Nat \ {0}
    /\ {WholeLayers, BulkTransfer} \subseteq BOOLEAN

----------------------------------------------------------------------------
(* Items of a keyboard's configuration.                                    *)

Key(l, c) == <<"key", l, c>>
Slot(t, i) == <<t, i, 0>>
Name(l) == <<"name", l, 0>>
Single(s) == <<s, 0, 0>>

BulkTables == {"morse", "combo"}
Tables == BulkTables \cup {"fork", "profile"}
LightingParts == <<"mode", "state", "scenes">>
EarlySingles == <<"bluetooth", "timing">>
Singles == ToSet(EarlySingles) \cup {"default", "pointing"} \cup ToSet(LightingParts)

Items ==
    {Key(l, c) : l \in 1 .. NumLayers, c \in 1 .. NumCells}
        \cup {Slot(t, i) : t \in Tables, i \in 1 .. Slots}
        \cup {Name(l) : l \in 1 .. NumLayers}
        \cup {Single(s) : s \in Singles}

(* What lighting holds is kept by the lighting engine under a revision of  *)
(* its own; the rest goes through the firmware's one flash queue.          *)
LightingItems == {Single(s) : s \in ToSet(LightingParts)}

(***************************************************************************)
(* A file: the layers it lists, the tables it claims (a table outside the  *)
(* domain is one it is silent about), the names and single settings.       *)
(***************************************************************************)
Claims(file) == DOMAIN file.tables

(* A file apply does not refuse: the keyboard's grid, no more layers than  *)
(* it has, no table longer than its capacity. Singles it is silent about   *)
(* are more than the parser lets through: default_layer is 0 by default.   *)
FileShape(file) ==
    /\ file = [layers |-> file.layers, tables |-> file.tables,
               names |-> file.names, singles |-> file.singles]
    /\ file.layers \in Seq([1 .. NumCells -> Nat])
    /\ file.names \in Seq(Nat)
    /\ Len(file.layers) <= NumLayers /\ Len(file.names) <= NumLayers
    /\ Claims(file) \subseteq Tables /\ DOMAIN file.singles \subseteq Singles
    /\ \A t \in Claims(file) : file.tables[t] \in Seq(Nat) /\ Len(file.tables[t]) <= Slots
    /\ \A s \in DOMAIN file.singles : file.singles[s] \in Nat

(* --exact: every table the file was silent about reads as empty. *)
claim_every_behavior_table(file) ==
    [file EXCEPT !.tables =
        [t \in Tables |-> IF t \in Claims(file) THEN file.tables[t] ELSE <<>>]]

----------------------------------------------------------------------------
(* differences(desired, live), as the set of items it reports.             *)

KeyDifferences(file, live) ==
    {i \in {Key(l, c) : l \in DOMAIN file.layers, c \in 1 .. NumCells} :
        live[i] # file.layers[i[2]][i[3]]}

(* Slots the file lists and that differ, and slots past its end that the   *)
(* keyboard still has something in.                                        *)
report_surplus(file, live, t) ==
    {Slot(t, i) : i \in {j \in Len(file.tables[t]) + 1 .. Slots : live[Slot(t, j)] # 0}}

TableDifferences(file, live) ==
    UNION {{Slot(t, i) : i \in {j \in DOMAIN file.tables[t] :
                                    live[Slot(t, j)] # file.tables[t][j]}}
               \cup report_surplus(file, live, t) : t \in Claims(file)}

NameDifferences(file, live) ==
    {Name(l) : l \in {k \in DOMAIN file.names : live[Name(k)] # file.names[k]}}

SingleDifferences(file, live) ==
    {Single(s) : s \in {r \in DOMAIN file.singles : live[Single(r)] # file.singles[r]}}

differences(file, live) ==
    KeyDifferences(file, live) \cup TableDifferences(file, live)
        \cup NameDifferences(file, live) \cup SingleDifferences(file, live)

(* The items a file speaks for. *)
Governed(file) ==
    {Key(l, c) : l \in DOMAIN file.layers, c \in 1 .. NumCells}
        \cup {Slot(t, i) : t \in Claims(file), i \in 1 .. Slots}
        \cup {Name(l) : l \in DOMAIN file.names}
        \cup {Single(s) : s \in DOMAIN file.singles}

(* The value the file asks an item it speaks for to have. *)
Wanted(file, item) ==
    CASE item[1] = "key" -> file.layers[item[2]][item[3]]
      [] item[1] \in Tables -> IF item[2] \in DOMAIN file.tables[item[1]]
                               THEN file.tables[item[1]][item[2]] ELSE 0
      [] item[1] = "name" -> file.names[item[2]]
      [] item[1] \in Singles -> file.singles[item[1]]

----------------------------------------------------------------------------
(* Requests.  `writes` are the cells or slots one request carries; `paced` *)
(* marks the last write of a keymap page, after which the host waits for   *)
(* flash; `revision` says which optimistic lock the request presents.      *)

Write(item, val) == [item |-> item, val |-> val]
Request(writes) == [writes |-> writes, paced |-> FALSE, revision |-> "none"]
Locked(lock, write) == [writes |-> <<write>>, paced |-> FALSE, revision |-> lock]
RequestEach(writes) == [k \in DOMAIN writes |-> Request(<<writes[k]>>)]

(* The elements of a sequence that pass a test (SelectSeq, by FlattenSeq). *)
Kept(s, Test(_)) ==
    FlattenSeq([k \in DOMAIN s |-> IF Test(s[k]) THEN <<s[k]>> ELSE <<>>])

(* The contiguous runs of offsets where the layer differs, as <<first, last>>. *)
changed_runs(wanted, present) ==
    LET changed == {c \in 1 .. NumCells : wanted[c] # present[c]}
        RunFrom(c) == <<c, Min({d \in c .. NumCells : d + 1 \notin changed})>>
    IN  FlattenSeq([c \in 1 .. NumCells |->
            IF c \in changed /\ c - 1 \notin changed THEN <<RunFrom(c)>> ELSE <<>>])

RunsOf(wanted, present) ==
    IF WholeLayers THEN << <<1, NumCells>> >> ELSE changed_runs(wanted, present)

(* Mutant: the last, shorter page is dropped. *)
WholePagesOnly(run) ==
    [k \in 1 .. (run[2] - run[1] + 1) \div Batch |->
        << run[1] + (k - 1) * Batch, run[1] + k * Batch - 1 >>]

(* A run cut into pages of at most Batch cells. *)
PagesOfRun(run) ==
    [k \in 1 .. (run[2] - run[1]) \div Batch + 1 |->
        << run[1] + (k - 1) * Batch, Min({run[1] + k * Batch - 1, run[2]}) >>]

pages_of(runs) == FlattenSeq([k \in DOMAIN runs |-> PagesOfRun(runs[k])])

(* One bulk request, or one request per cell on firmware without bulk      *)
(* transfer; either way the wait for flash follows the last of them.       *)
write_page(file, l, page) ==
    LET cells == [k \in 1 .. page[2] - page[1] + 1 |->
                    Write(Key(l, page[1] + k - 1), file.layers[l][page[1] + k - 1])]
        requests == IF BulkTransfer THEN <<Request(cells)>> ELSE RequestEach(cells)
    IN  [k \in DOMAIN requests |-> [requests[k] EXCEPT !.paced = k = Len(requests)]]

write_layer(file, before, l) ==
    LET present == [c \in 1 .. NumCells |-> before[Key(l, c)]]
        pages == pages_of(RunsOf(file.layers[l], present))
    IN  IF file.layers[l] = present THEN <<>>
        ELSE FlattenSeq([k \in DOMAIN pages |-> write_page(file, l, pages[k])])

KeymapRequests(file, before) ==
    FlattenSeq([l \in DOMAIN file.layers |-> write_layer(file, before, l)])

(* One past the last slot of the keyboard's table that holds anything. *)
last_populated(before, t) ==
    Max({0} \cup {i \in 1 .. Slots : before[Slot(t, i)] # 0})

(* Mutant: no padding. *)
FileLength(file, before, t) == Len(file.tables[t])

(* The bulk writers write exactly the slots they are given: the table is   *)
(* padded with empty slots as far as the keyboard holds something.         *)
BulkLength(file, before, t) == Max({Len(file.tables[t]), last_populated(before, t)})

write_all(file, before, t) ==
    LET padded == [i \in 1 .. BulkLength(file, before, t) |->
                        Write(Slot(t, i), Wanted(file, Slot(t, i)))]
        held == [i \in 1 .. Slots |-> Write(Slot(t, i), before[Slot(t, i)])]
    IN  IF padded = held THEN <<>> ELSE RequestEach(padded)

(* Forks have no bulk form: slot by slot, those past the end cleared. *)
set_forks(file, before) ==
    LET slots == [i \in 1 .. Slots |-> Write(Slot("fork", i), Wanted(file, Slot("fork", i)))]
    IN  RequestEach(Kept(slots, LAMBDA w : before[w.item] # w.val))

(* Named profiles: entries that changed, then the entries to delete. *)
set_morse_profiles(file, before) ==
    LET slots == [i \in 1 .. Slots |-> Write(Slot("profile", i), Wanted(file, Slot("profile", i)))]
        changed == Kept(slots, LAMBDA w : before[w.item] # w.val)
    IN  RequestEach(Kept(changed, LAMBDA w : w.val # 0)
                        \o Kept(changed, LAMBDA w : w.val = 0))

(* The fallback for firmware without the entry endpoints: a dense table as *)
(* long as the file's, zero standing for the default profile.              *)
write_all_morse_profiles(file, before) ==
    IF TableDifferences([file EXCEPT !.tables = [t \in {"profile"} |-> file.tables[t]]],
                        before) = {}
    THEN <<>>
    ELSE RequestEach([i \in DOMAIN file.tables["profile"] |->
                        Write(Slot("profile", i), file.tables["profile"][i])])

(* Mutant: a table the file is silent about is taken for an empty one. *)
SilenceIsEmpty(file, before, legacy, t) ==
    LET exact == claim_every_behavior_table(file)
    IN  IF t = "fork" THEN set_forks(exact, before) ELSE <<>>

(* One table, by the write style the firmware has for it. *)
TableRequests(file, before, legacy, t) ==
    IF t \notin Claims(file) THEN <<>>
    ELSE CASE t \in BulkTables -> write_all(file, before, t)
           [] t = "fork" -> set_forks(file, before)
           [] t = "profile" /\ ~legacy -> set_morse_profiles(file, before)
           [] t = "profile" /\ legacy -> write_all_morse_profiles(file, before)

SingleRequests(file, before, singles, lock) ==
    LET todo == Kept(singles, LAMBDA s : s \in DOMAIN file.singles
                                         /\ before[Single(s)] # file.singles[s])
    IN  [k \in DOMAIN todo |-> Locked(lock, Write(Single(todo[k]), file.singles[todo[k]]))]

apply_behaviors(file, before, legacy) ==
    SingleRequests(file, before, <<"timing">>, "none")
        \o TableRequests(file, before, legacy, "profile")
        \o TableRequests(file, before, legacy, "morse")
        \o TableRequests(file, before, legacy, "combo")
        \o TableRequests(file, before, legacy, "fork")

NameRequests(file, before) ==
    LET names == [l \in DOMAIN file.names |-> Write(Name(l), file.names[l])]
    IN  RequestEach(Kept(names, LAMBDA w : before[w.item] # w.val))

(* Mutant: the keymap first. *)
KeysThenTables(file, before, legacy) ==
    KeymapRequests(file, before) \o apply_behaviors(file, before, legacy)

(* The tables come before the keymap: a cell addresses a slot by index, so *)
(* the slot has to be in place before any key can point at it.             *)
TablesThenKeys(file, before, legacy) ==
    apply_behaviors(file, before, legacy) \o KeymapRequests(file, before)

apply_snapshot(file, before, legacy) ==
    SingleRequests(file, before, <<"bluetooth">>, "none")
        \o TablesThenKeys(file, before, legacy)
        \o SingleRequests(file, before, <<"default">>, "none")
        \o NameRequests(file, before)
        \o SingleRequests(file, before, <<"pointing">>, "pointing")
        \o SingleRequests(file, before, LightingParts, "lighting")

=============================================================================
