--------------------------- MODULE HostApplyProofs ---------------------------
(***************************************************************************)
(* Proofs about the host commands that have to come to an end: the reset   *)
(* requests, and `config apply`.                                           *)
(***************************************************************************)
EXTENDS HostApply, SequenceFacts, TLAPS

-----------------------------------------------------------------------------
(* ResetRequest.                                                           *)

\* How often the keyboard has accepted the request, by where the tool is.
\* After the refusal that ends a command, the tool stays where it was.
RequestInv ==
    /\ request \in {"status", "send", "sent", "mode", "resend", "resent",
                    "lost", "pending", "poll"}
    /\ request \in {"lost", "pending", "poll"} => executions = 1
    /\ request \notin {"lost", "pending", "poll"} => executions = 0
    /\ queued => request = "pending"
    /\ outcome = "ok" => request \in {"pending", "poll"}
    /\ outcome \in {"locked", "not connected"} =>
           request \in {"status", "mode", "resent"}

\* The shape of an answer: an accepted request is watched, and a refused one
\* is repeated once at most.
LEMMA AnswerCases ==
    ASSUME NEW answer \in {"answered", "locked"},
           request \in {"sent", "resent"}, outcome = "none", ~ queued,
           Handover!TakeAnswer(answer)
    PROVE  \/ /\ answer = "answered"
              /\ request' \in {"pending", "poll"} /\ outcome' = outcome
              /\ queued' => request' = "pending"
           \/ /\ answer = "locked"
              /\ request' \in {"mode", "resent"} /\ ~ queued'
              /\ outcome' \in {"none", "locked"}
<1>1. CASE answer = "answered"
  BY <1>1 DEF Handover!TakeAnswer, Handover!AfterAnswer, Handover!Watch
<1>2. CASE answer = "locked" /\ request = "sent"
  BY <1>2 DEF Handover!TakeAnswer, Handover!AfterAnswer
<1>3. CASE answer = "locked" /\ request = "resent"
  BY <1>3 DEF Handover!TakeAnswer, Handover!AfterAnswer, Handover!Report
<1> QED
  BY <1>1, <1>2, <1>3

\* No step of the tool, the keyboard or the link breaks the count.
LEMMA RequestStep ==
    ASSUME RequestInv, [Handover!Next]_(Handover!vars)
    PROVE  RequestInv'
<1> USE DEF RequestInv
<1>1. CASE Handover!ReadStatus
  BY <1>1 DEF Handover!ReadStatus, Handover!Running, Handover!Report,
              Handover!clocks, Handover!keyboard
<1>2. CASE Handover!Send
  BY <1>2 DEF Handover!Send, Handover!Running, Handover!clocks, Handover!keyboard
<1>3. CASE Handover!CheckMode
  BY <1>3 DEF Handover!CheckMode, Handover!Running, Handover!Report,
              Handover!clocks, Handover!keyboard
<1>4. CASE Handover!Poll
  BY <1>4 DEF Handover!Poll, Handover!Running, Handover!Report,
              Handover!clocks, Handover!keyboard
<1>5. CASE Handover!DriverEnds
  BY <1>5 DEF Handover!DriverEnds, Handover!SessionEnded, Handover!Running,
              Handover!Report, Handover!clocks, Handover!keyboard
<1>6. CASE Handover!TimedOut
  BY <1>6 DEF Handover!TimedOut, Handover!Running, Handover!Report,
              Handover!clocks, Handover!keyboard
<1>7. CASE Handover!Tick
  BY <1>7 DEF Handover!Tick, Handover!tool, Handover!keyboard
<1>8. CASE Handover!Answer
  <2> request \in {"sent", "resent"} /\ outcome = "none" /\ ~ queued /\ executions = 0
    BY <1>8 DEF Handover!Answer, Handover!Running
  <2>1. CASE reset_unlocked /\ Handover!TakeAnswer("answered")
    <3>1. executions' = 1
      BY <1>8, <2>1 DEF Handover!Answer
    <3>2. /\ request' \in {"pending", "poll"} /\ outcome' = outcome
          /\ queued' => request' = "pending"
      BY <2>1, AnswerCases
    <3> QED
      BY <3>1, <3>2
  <2>2. CASE ~ reset_unlocked
    BY <1>8, <2>2, AnswerCases DEF Handover!Answer
  <2>3. CASE reset_unlocked /\ request' = "lost" /\ UNCHANGED <<queued, outcome>>
    BY <1>8, <2>3 DEF Handover!Answer
  <2> QED
    BY <1>8, <2>1, <2>2, <2>3 DEF Handover!Answer
<1>9. CASE Handover!Work
  BY <1>9 DEF Handover!Work, Handover!tool
<1>10. CASE \/ Handover!Unplugged \/ Handover!HalfDrops \/ Handover!HalfReturns
            \/ Handover!ToggleMaintenance
  <2> UNCHANGED <<Handover!tool, executions>>
    BY <1>10 DEF Handover!Unplugged, Handover!HalfDrops, Handover!HalfReturns,
                 Handover!ToggleMaintenance
  <2> QED
    BY DEF Handover!tool
<1>11. CASE UNCHANGED Handover!vars
  BY <1>11 DEF Handover!vars, Handover!tool, Handover!keyboard
<1> QED
  BY <1>1, <1>2, <1>3, <1>4, <1>5, <1>6, <1>7, <1>8, <1>9, <1>10, <1>11
  DEF Handover!Next

(***************************************************************************)
(* `reboot`, `bootloader` and `reset-storage` report what happened: the    *)
(* retry after a refusal never repeats a request the keyboard accepted,    *)
(* success is only reported of an accepted one and a refusal only of one   *)
(* that had no effect, whatever the link and the maintenance lock do       *)
(* between the two attempts and for every timeout.                         *)
(***************************************************************************)
THEOREM ResetReportIsTrue == Handover!Spec => []ReportIsTrue
<1>1. Handover!Init => RequestInv
  BY DEF Handover!Init, RequestInv
<1>2. RequestInv /\ [Handover!Next]_(Handover!vars) => RequestInv'
  BY RequestStep
<1>3. RequestInv => Handover!ReportIsTrue
  <2> SUFFICES ASSUME RequestInv
               PROVE  Handover!ReportIsTrue
    OBVIOUS
  <2>1. executions = 0 \/ executions = 1
    BY DEF RequestInv
  <2>2. Handover!AtMostOnce
    BY <2>1 DEF Handover!AtMostOnce
  <2>3. Handover!SuccessWasAccepted
    BY DEF RequestInv, Handover!SuccessWasAccepted
  <2>4. Handover!RefusalHasNoEffect
    BY DEF RequestInv, Handover!RefusalHasNoEffect
  <2> QED
    BY <2>2, <2>3, <2>4 DEF Handover!ReportIsTrue
<1> QED
  BY <1>1, <1>2, <1>3, PTL DEF Handover!Spec, ReportIsTrue

-----------------------------------------------------------------------------
(* ConfigApply: what apply_snapshot asks for.                              *)

Writes == [item : Items, val : Nat]

Kinds == {"key", "table", "rest"}
Kind(item) ==
    IF item[1] = "key" THEN "key" ELSE IF item[1] \in Tables THEN "table" ELSE "rest"

\* What the file asks an item of its own to be, lighting aside.
FileWrites(f, K) ==
    {w \in Writes : /\ w.item \in Governed(f) \ LightingItems
                    /\ Kind(w.item) \in K
                    /\ w.val = Wanted(f, w.item)}

\* Requests of writes of one kind, no item named twice, each as the file says.
FileRequests(f, K) ==
    {r \in [writes : Seq(Writes), paced : BOOLEAN, revision : Locks \cup {"none"}] :
        /\ \A j, k \in 1 .. Len(r.writes) :
             /\ r.writes[j].item = r.writes[k].item => j = k
             /\ Kind(r.writes[j].item) = Kind(r.writes[k].item)
        /\ \A k \in 1 .. Len(r.writes) :
             /\ r.writes[k].item \in Governed(f)
             /\ Kind(r.writes[k].item) \in K
             /\ r.writes[k].val = Wanted(f, r.writes[k].item)
             /\ r.revision = "lighting" => r.writes[k].item \in LightingItems}

\* The single settings.
LEMMA SingleNames ==
    Singles = {"bluetooth", "timing", "default", "pointing", "mode", "state", "scenes"}
<1>1. ToSet(EarlySingles) = {"bluetooth", "timing"}
  BY DEF EarlySingles, ToSet
<1>2. ToSet(LightingParts) = {"mode", "state", "scenes"}
  BY DEF LightingParts, ToSet
<1> QED
  BY <1>1, <1>2 DEF Singles

\* Every kind of item the file speaks for is one of the keyboard's.
LEMMA GovernedItems ==
    ASSUME NEW f, FileShape(f)
    PROVE  Governed(f) \subseteq Items
<1>1. \A l \in DOMAIN f.layers : l \in 1 .. NumLayers
  <2>1. DOMAIN f.layers = 1 .. Len(f.layers) /\ Len(f.layers) \in Nat /\ Len(f.layers) <= NumLayers
    BY DEF FileShape
  <2> QED
    BY <2>1, PlanAssumption
<1>2. \A l \in DOMAIN f.names : l \in 1 .. NumLayers
  <2>1. DOMAIN f.names = 1 .. Len(f.names) /\ Len(f.names) \in Nat /\ Len(f.names) <= NumLayers
    BY DEF FileShape
  <2> QED
    BY <2>1, PlanAssumption
<1>3. DOMAIN f.singles \subseteq Singles /\ Claims(f) \subseteq Tables
  BY DEF FileShape
<1> QED
  BY <1>1, <1>2, <1>3 DEF Governed, Items

\* What the file says of a key cell, a name and a single setting.
LEMMA KeyWanted ==
    ASSUME NEW f, NEW l, NEW c
    PROVE  Wanted(f, Key(l, c)) = f.layers[l][c] /\ Kind(Key(l, c)) = "key"
<1> DEFINE i == Key(l, c)
<1>1. i[1] = "key" /\ i[2] = l /\ i[3] = c
  BY DEF Key
<1> HIDE DEF i
<1>2. i[1] \notin Tables /\ i[1] # "name" /\ i[1] \notin Singles
  BY <1>1, SingleNames DEF Tables, BulkTables
<1>3. Wanted(f, i) = f.layers[l][c] /\ Kind(i) = "key"
  BY <1>1, <1>2 DEF Wanted, Kind
<1> QED
  BY <1>3 DEF i

\* What the file says of a layer name.
LEMMA NameWanted ==
    ASSUME NEW f, NEW l
    PROVE  Wanted(f, Name(l)) = f.names[l] /\ Kind(Name(l)) = "rest"
<1> DEFINE i == Name(l)
<1>1. i[1] = "name" /\ i[2] = l
  BY DEF Name
<1> HIDE DEF i
<1>2. i[1] \notin Tables /\ i[1] # "key" /\ i[1] \notin Singles
  BY <1>1, SingleNames DEF Tables, BulkTables
<1>3. Wanted(f, i) = f.names[l] /\ Kind(i) = "rest"
  BY <1>1, <1>2 DEF Wanted, Kind
<1> QED
  BY <1>3 DEF i

\* What the file says of a single setting.
LEMMA SingleWanted ==
    ASSUME NEW f, NEW s \in Singles
    PROVE  Wanted(f, Single(s)) = f.singles[s] /\ Kind(Single(s)) = "rest"
<1> DEFINE i == Single(s)
<1>1. i[1] = s
  BY DEF Single
<1> HIDE DEF i
<1>2. i[1] \notin Tables /\ i[1] # "key" /\ i[1] # "name"
  BY <1>1, SingleNames DEF Tables, BulkTables
<1>3. Wanted(f, i) = f.singles[s] /\ Kind(i) = "rest"
  BY <1>1, <1>2 DEF Wanted, Kind
<1> QED
  BY <1>3 DEF i

\* The value the file gives a slot of a table it claims.
LEMMA WantedSlot ==
    ASSUME NEW f, FileShape(f), NEW t \in Claims(f), NEW i \in 1 .. Slots
    PROVE  /\ Wanted(f, Slot(t, i)) = IF i \in DOMAIN f.tables[t] THEN f.tables[t][i] ELSE 0
           /\ Wanted(f, Slot(t, i)) \in Nat
           /\ Write(Slot(t, i), Wanted(f, Slot(t, i))) \in FileWrites(f, {"table"})
<1>1. t \in Tables /\ t # "key" /\ f.tables[t] \in Seq(Nat)
  BY DEF FileShape, Tables, BulkTables
<1>2. Slot(t, i)[1] = t /\ Slot(t, i)[2] = i
  BY DEF Slot
<1>3. Wanted(f, Slot(t, i)) = IF i \in DOMAIN f.tables[t] THEN f.tables[t][i] ELSE 0
  <2> DEFINE item == Slot(t, i)
  <2>1. item[1] = t /\ item[2] = i
    BY <1>2
  <2> HIDE DEF item
  <2>2. ~ (item[1] = "key") /\ item[1] \in Tables /\ item[1] # "name" /\ item[1] \notin Singles
    BY <1>1, <2>1, SingleNames DEF Tables, BulkTables
  <2>3. Wanted(f, item) = IF i \in DOMAIN f.tables[t] THEN f.tables[t][i] ELSE 0
    BY <2>1, <2>2 DEF Wanted
  <2> QED
    BY <2>3 DEF item
<1>4. Wanted(f, Slot(t, i)) \in Nat
  BY <1>1, <1>3
<1>5. Slot(t, i) \in Governed(f)
  BY DEF Governed
<1>6. Slot(t, i) \in Items \ LightingItems
  <2>1. Slot(t, i) \in Items
    BY <1>1 DEF Items
  <2>2. Slot(t, i)[2] = i /\ \A s \in Singles : Single(s)[2] = 0
    BY DEF Slot, Single
  <2>3. ToSet(LightingParts) \subseteq Singles
    BY DEF Singles
  <2> QED
    BY <2>1, <2>2, <2>3 DEF LightingItems
<1>7. Kind(Slot(t, i)) = "table"
  BY <1>1, <1>2 DEF Kind
<1> QED
  BY <1>3, <1>4, <1>5, <1>6, <1>7 DEF FileWrites, Writes, Write

\* One request per write.
LEMMA RequestEachType ==
    ASSUME NEW f, NEW K, NEW writes \in Seq(FileWrites(f, K))
    PROVE  RequestEach(writes) \in Seq(FileRequests(f, K))
<1>1. ASSUME NEW k \in DOMAIN writes PROVE Request(<<writes[k]>>) \in FileRequests(f, K)
  <2> DEFINE w == writes[k]
  <2>1. /\ w \in Writes /\ w.item \in Governed(f)
        /\ Kind(w.item) \in K /\ w.val = Wanted(f, w.item)
    BY DEF FileWrites
  <2> HIDE DEF w
  <2>2. <<w>> \in Seq(Writes) /\ Len(<<w>>) = 1
    BY <2>1
  <2>3. Request(<<w>>) \in FileRequests(f, K)
    BY <2>1, <2>2 DEF Request, FileRequests
  <2> QED
    BY <2>3 DEF w
<1>2. RequestEach(writes) \in [1 .. Len(writes) -> FileRequests(f, K)] /\ Len(writes) \in Nat
  BY <1>1 DEF RequestEach
<1> QED
  BY <1>2

\* The elements of a sequence that are kept are elements of it.
LEMMA KeptType ==
    ASSUME NEW S, NEW s \in Seq(S), NEW ss, ss = [k \in DOMAIN s |-> ss[k]],
           \A k \in DOMAIN s : ss[k] = <<s[k]>> \/ ss[k] = <<>>
    PROVE  FlattenSeq(ss) \in Seq(S)
<1>1. ss \in [1 .. Len(s) -> Seq(S)] /\ Len(s) \in Nat
  <2>1. ASSUME NEW k \in DOMAIN s PROVE ss[k] \in Seq(S)
    <3>1. <<s[k]>> \in Seq(S) /\ <<>> \in Seq(S)
      OBVIOUS
    <3> QED
      BY <3>1
  <2> QED
    BY <2>1
<1>2. ss \in Seq(Seq(S))
  BY <1>1
<1> QED
  BY <1>2, FlattenType

\* One slot after the other of a table the file claims.
LEMMA SlotWrites ==
    ASSUME NEW f, FileShape(f), NEW t \in Claims(f), NEW n \in 0 .. Slots
    PROVE  [i \in 1 .. n |-> Write(Slot(t, i), Wanted(f, Slot(t, i)))] \in Seq(FileWrites(f, {"table"}))
<1>1. Slots \in Nat
  BY PlanAssumption
<1>2. \A i \in 1 .. n : Write(Slot(t, i), Wanted(f, Slot(t, i))) \in FileWrites(f, {"table"})
  BY <1>1, WantedSlot
<1> QED
  BY <1>1, <1>2

\* Forks, slot by slot.
LEMMA ForkRequests ==
    ASSUME NEW f, FileShape(f), NEW m, "fork" \in Claims(f)
    PROVE  set_forks(f, m) \in Seq(FileRequests(f, {"table"}))
<1> DEFINE slots == [i \in 1 .. Slots |-> Write(Slot("fork", i), Wanted(f, Slot("fork", i)))]
           ss == [k \in DOMAIN slots |->
                    IF m[slots[k].item] # slots[k].val THEN <<slots[k]>> ELSE <<>>]
<1>1. slots \in Seq(FileWrites(f, {"table"}))
  BY SlotWrites, PlanAssumption
<1>2. set_forks(f, m) = RequestEach(FlattenSeq(ss))
  BY DEF set_forks, Kept
<1> HIDE DEF slots
<1>3. FlattenSeq(ss) \in Seq(FileWrites(f, {"table"}))
  BY <1>1, KeptType
<1> QED
  BY <1>2, <1>3, RequestEachType

\* Named profiles: those that changed, then those to delete.
LEMMA ProfileRequests ==
    ASSUME NEW f, FileShape(f), NEW m, "profile" \in Claims(f)
    PROVE  set_morse_profiles(f, m) \in Seq(FileRequests(f, {"table"}))
<1> DEFINE slots == [i \in 1 .. Slots |->
                        Write(Slot("profile", i), Wanted(f, Slot("profile", i)))]
           ss == [k \in DOMAIN slots |->
                    IF m[slots[k].item] # slots[k].val THEN <<slots[k]>> ELSE <<>>]
           changed == FlattenSeq(ss)
           entries == [k \in DOMAIN changed |->
                        IF changed[k].val # 0 THEN <<changed[k]>> ELSE <<>>]
           deleted == [k \in DOMAIN changed |->
                        IF changed[k].val = 0 THEN <<changed[k]>> ELSE <<>>]
<1>1. slots \in Seq(FileWrites(f, {"table"}))
  BY SlotWrites, PlanAssumption
<1>2. set_morse_profiles(f, m) = RequestEach(FlattenSeq(entries) \o FlattenSeq(deleted))
  BY DEF set_morse_profiles, Kept
<1> HIDE DEF slots
<1>3. changed \in Seq(FileWrites(f, {"table"}))
  BY <1>1, KeptType
<1> HIDE DEF changed
<1>4. FlattenSeq(entries) \in Seq(FileWrites(f, {"table"})) /\ FlattenSeq(deleted) \in Seq(FileWrites(f, {"table"}))
  BY <1>3, KeptType
<1>5. FlattenSeq(entries) \o FlattenSeq(deleted) \in Seq(FileWrites(f, {"table"}))
  <2> DEFINE a == FlattenSeq(entries)
             b == FlattenSeq(deleted)
  <2> HIDE DEF a, b
  <2>1. a \o b \in Seq(FileWrites(f, {"table"}))
    BY <1>4 DEF a, b
  <2> QED
    BY <2>1 DEF a, b
<1> QED
  BY <1>2, <1>5, RequestEachType

\* The dense table of firmware without the entry endpoints.
LEMMA LegacyProfileRequests ==
    ASSUME NEW f, FileShape(f), NEW m, "profile" \in Claims(f)
    PROVE  write_all_morse_profiles(f, m) \in Seq(FileRequests(f, {"table"}))
<1> DEFINE table == f.tables["profile"]
           writes == [i \in DOMAIN table |-> Write(Slot("profile", i), table[i])]
           slots == [i \in 1 .. Len(table) |->
                        Write(Slot("profile", i), Wanted(f, Slot("profile", i)))]
<1>1. table \in Seq(Nat) /\ Len(table) <= Slots /\ Slots \in Nat
  BY PlanAssumption DEF FileShape
<1>2. DOMAIN table = 1 .. Len(table) /\ Len(table) \in 0 .. Slots
  BY <1>1
<1>3. slots \in Seq(FileWrites(f, {"table"}))
  BY <1>2, SlotWrites
<1>4. writes = slots
  <2>1. \A i \in DOMAIN table : i \in 1 .. Slots
    BY <1>1, <1>2
  <2>2. \A i \in DOMAIN table : Wanted(f, Slot("profile", i)) = table[i]
    BY <2>1, WantedSlot
  <2> QED
    BY <1>2, <2>2
<1>5. RequestEach(writes) \in Seq(FileRequests(f, {"table"}))
  BY <1>3, <1>4, RequestEachType
<1>6. write_all_morse_profiles(f, m) \in {<<>>, RequestEach(writes)}
  BY DEF write_all_morse_profiles
<1>7. <<>> \in Seq(FileRequests(f, {"table"}))
  OBVIOUS
<1> HIDE DEF writes
<1> QED
  BY <1>5, <1>6, <1>7, Zenon

\* The padded table reaches as far as the file and the keyboard do.
LEMMA BulkCovers ==
    ASSUME NEW f, FileShape(f), NEW m, NEW t \in Claims(f)
    PROVE  /\ Slots \in Nat /\ BulkLength(f, m, t) \in 0 .. Slots
           /\ Len(f.tables[t]) \in Nat /\ Len(f.tables[t]) <= BulkLength(f, m, t)
           /\ \A i \in {j \in 1 .. Slots : m[Slot(t, j)] # 0} : i <= BulkLength(f, m, t)
<1> DEFINE full == {i \in 1 .. Slots : m[Slot(t, i)] # 0}
           a == Len(f.tables[t])
           b == last_populated(m, t)
<1>1. Slots \in Nat /\ a \in 0 .. Slots
  BY PlanAssumption DEF FileShape
<1>2. b \in 0 .. Slots /\ \A i \in full : i <= b
  <2>1. {0} \cup full \subseteq 0 .. Slots
    BY <1>1
  <2>2. {0} \cup full \in SUBSET Nat /\ {0} \cup full # {} /\ \A i \in {0} \cup full : i <= Slots
    BY <1>1, <2>1
  <2>3. b = Max({0} \cup full)
    BY DEF last_populated
  <2> HIDE DEF full, b
  <2>4. b \in {0} \cup full /\ \A i \in {0} \cup full : i <= b
    BY <1>1, <2>2, <2>3, MaxOfNaturals
  <2> QED
    BY <2>1, <2>4
<1>3. BulkLength(f, m, t) = Max({a, b})
  BY DEF BulkLength
<1> HIDE DEF a, b, full
<1>4. {a, b} \in SUBSET Nat /\ {a, b} # {} /\ \A i \in {a, b} : i <= Slots
  BY <1>1, <1>2
<1>5. Max({a, b}) \in {a, b} /\ a <= Max({a, b}) /\ b <= Max({a, b})
  BY <1>1, <1>4, MaxOfNaturals
<1>6. \A i \in full : i <= Max({a, b})
  <2> TAKE i \in full
  <2>1. i \in Nat /\ i <= b
    BY <1>2 DEF full
  <2> QED
    BY <1>1, <1>2, <1>5, <2>1
<1>7. a \in Nat /\ Max({a, b}) \in 0 .. Slots
  BY <1>1, <1>2, <1>5
<1> QED
  BY <1>1, <1>3, <1>5, <1>6, <1>7 DEF a, full

\* A table with a bulk form, padded.
LEMMA BulkRequests ==
    ASSUME NEW f, FileShape(f), NEW m, NEW t \in Claims(f)
    PROVE  write_all(f, m, t) \in Seq(FileRequests(f, {"table"}))
<1> DEFINE padded == [i \in 1 .. BulkLength(f, m, t) |->
                        Write(Slot(t, i), Wanted(f, Slot(t, i)))]
<1>1. padded \in Seq(FileWrites(f, {"table"}))
  BY BulkCovers, SlotWrites
<1>2. RequestEach(padded) \in Seq(FileRequests(f, {"table"}))
  BY <1>1, RequestEachType
<1>3. write_all(f, m, t) \in {<<>>, RequestEach(padded)}
  BY DEF write_all
<1>4. <<>> \in Seq(FileRequests(f, {"table"}))
  OBVIOUS
<1> HIDE DEF padded
<1> QED
  BY <1>2, <1>3, <1>4, Zenon

\* Whatever style a table is written in, it is asked to be what the file says.
LEMMA TableRequestsType ==
    ASSUME NEW f, FileShape(f), NEW m, NEW legacy \in BOOLEAN, NEW t \in Tables
    PROVE  TableRequests(f, m, legacy, t) \in Seq(FileRequests(f, {"table"}))
<1>1. CASE t \notin Claims(f)
  BY <1>1 DEF TableRequests
<1>2. CASE t \in Claims(f) /\ t \in BulkTables
  BY <1>2, BulkRequests DEF TableRequests, BulkTables
<1>3. CASE t \in Claims(f) /\ t = "fork"
  BY <1>3, ForkRequests DEF TableRequests, BulkTables
<1>4. CASE t \in Claims(f) /\ t = "profile" /\ legacy
  BY <1>4, LegacyProfileRequests DEF TableRequests, BulkTables
<1>5. CASE t \in Claims(f) /\ t = "profile" /\ ~legacy
  BY <1>5, ProfileRequests DEF TableRequests, BulkTables
<1> QED
  BY <1>1, <1>2, <1>3, <1>4, <1>5 DEF Tables

\* The single settings go under the lock they need.
LEMMA SingleRequestsType ==
    ASSUME NEW f, FileShape(f), NEW m, NEW names \in Seq(Singles),
           NEW l \in Locks \cup {"none"},
           l = "lighting" => \A k \in DOMAIN names : names[k] \in ToSet(LightingParts)
    PROVE  SingleRequests(f, m, names, l) \in Seq(FileRequests(f, {"rest"}))
<1> DEFINE kept == [k \in DOMAIN names |->
                      IF names[k] \in DOMAIN f.singles /\ m[Single(names[k])] # f.singles[names[k]]
                      THEN <<names[k]>> ELSE <<>>]
           todos == FlattenSeq(kept)
           S == {s \in DOMAIN f.singles : l = "lighting" => s \in ToSet(LightingParts)}
<1>1. kept \in Seq(Seq(S))
  <2>1. ASSUME NEW k \in DOMAIN names PROVE kept[k] \in Seq(S)
    <3>1. CASE names[k] \in DOMAIN f.singles
      <4>1. names[k] \in S
        BY <3>1
      <4>2. <<names[k]>> \in Seq(S) /\ <<>> \in Seq(S)
        BY <4>1
      <4> HIDE DEF S
      <4> QED
        BY <4>2
    <3>2. CASE names[k] \notin DOMAIN f.singles
      BY <3>2
    <3> QED
      BY <3>1, <3>2
  <2>2. DOMAIN kept = 1 .. Len(names) /\ Len(names) \in Nat
    OBVIOUS
  <2>3. kept = [k \in 1 .. Len(names) |-> kept[k]]
    BY <2>2
  <2> HIDE DEF kept, S
  <2>4. kept \in [1 .. Len(names) -> Seq(S)]
    <3>1. \A k \in 1 .. Len(names) : kept[k] \in Seq(S)
      BY <2>1, <2>2
    <3> QED
      BY <2>3, <3>1, Zenon
  <2> QED
    BY <2>2, <2>4
<1>2. todos \in Seq(S)
  BY <1>1, FlattenType
<1>3. SingleRequests(f, m, names, l) =
        [k \in DOMAIN todos |-> Locked(l, Write(Single(todos[k]), f.singles[todos[k]]))]
  BY DEF SingleRequests, Kept
<1> HIDE DEF todos
<1>4. ASSUME NEW s \in S
      PROVE  Locked(l, Write(Single(s), f.singles[s])) \in FileRequests(f, {"rest"})
  <2> DEFINE w == Write(Single(s), f.singles[s])
  <2>1. s \in Singles /\ f.singles[s] \in Nat
    BY DEF FileShape
  <2>2. Single(s) \in Items /\ Single(s) \in Governed(f)
    BY <2>1 DEF Items, Governed
  <2>3. w \in Writes /\ w.item = Single(s)
    BY <2>1, <2>2 DEF Write, Writes
  <2>4. l = "lighting" => Single(s) \in LightingItems
    BY DEF LightingItems
  <2>5. Kind(w.item) = "rest" /\ w.val = Wanted(f, w.item)
    BY <2>1, SingleWanted DEF Write
  <2> HIDE DEF w
  <2>6. <<w>> \in Seq(Writes) /\ Len(<<w>>) = 1
    BY <2>3
  <2>7. Locked(l, w) \in FileRequests(f, {"rest"})
    BY <2>2, <2>3, <2>4, <2>5, <2>6 DEF Locked, FileRequests
  <2> QED
    BY <2>7 DEF w
<1>5. \A k \in DOMAIN todos : todos[k] \in S
  BY <1>2
<1>6. DOMAIN todos = 1 .. Len(todos) /\ Len(todos) \in Nat
  BY <1>2
<1> HIDE DEF S
<1> QED
  BY <1>3, <1>4, <1>5, <1>6

\* Layer names, one by one.
LEMMA NameRequestsType ==
    ASSUME NEW f, FileShape(f), NEW m
    PROVE  NameRequests(f, m) \in Seq(FileRequests(f, {"rest"}))
<1> DEFINE names == [l \in DOMAIN f.names |-> Write(Name(l), f.names[l])]
           ss == [k \in DOMAIN names |->
                    IF m[names[k].item] # names[k].val THEN <<names[k]>> ELSE <<>>]
<1>1. ASSUME NEW l \in DOMAIN f.names PROVE Write(Name(l), f.names[l]) \in FileWrites(f, {"rest"})
  <2>1. f.names[l] \in Nat /\ Name(l) \in Governed(f)
    BY DEF FileShape, Governed
  <2>2. Name(l) \notin LightingItems
    BY SingleNames DEF Name, LightingItems, Single, LightingParts, ToSet
  <2> QED
    BY <2>1, <2>2, GovernedItems, NameWanted DEF FileWrites, Writes, Write
<1>2. DOMAIN f.names = 1 .. Len(f.names) /\ Len(f.names) \in Nat
  BY DEF FileShape
<1>3. names \in Seq(FileWrites(f, {"rest"}))
  BY <1>1, <1>2
<1>4. NameRequests(f, m) = RequestEach(FlattenSeq(ss))
  BY DEF NameRequests, Kept
<1> HIDE DEF names
<1>5. FlattenSeq(ss) \in Seq(FileWrites(f, {"rest"}))
  BY <1>3, KeptType
<1> QED
  BY <1>4, <1>5, RequestEachType

\* A page of cells: it begins in the layer and ends in it.
Pages == {p \in Nat \X Nat : p[1] >= 1 /\ p[2] <= NumCells}

\* The runs of a layer lie in it.
LEMMA RunsType ==
    ASSUME NEW wanted, NEW present, NumCells # 0
    PROVE  RunsOf(wanted, present) \in Seq({r \in Pages : r[1] <= r[2]})
<1> DEFINE R == {r \in Pages : r[1] <= r[2]}
           changed == {c \in 1 .. NumCells : wanted[c] # present[c]}
           Ends(c) == {d \in c .. NumCells : d + 1 \notin changed}
           runs == [c \in 1 .. NumCells |->
                      IF c \in changed /\ c - 1 \notin changed
                      THEN << <<c, Min(Ends(c))>> >> ELSE <<>>]
<1>0. NumCells \in Nat /\ NumCells >= 1
  BY PlanAssumption
<1>1. CASE WholeLayers
  <2>1. <<1, NumCells>> \in R
    BY <1>0 DEF Pages
  <2> HIDE DEF R
  <2>2. << <<1, NumCells>> >> \in Seq(R)
    BY <2>1
  <2> QED
    BY <1>1, <2>2 DEF RunsOf, R
<1>2. CASE ~WholeLayers
  <2>1. ASSUME NEW c \in 1 .. NumCells PROVE <<c, Min(Ends(c))>> \in R
    <3>1. Ends(c) \in SUBSET Nat /\ NumCells \in Ends(c)
      BY <1>0
    <3> HIDE DEF Ends
    <3>2. Min(Ends(c)) \in Ends(c)
      BY <3>1, MinOfNaturals
    <3>3. Min(Ends(c)) \in c .. NumCells
      BY <3>2 DEF Ends
    <3> QED
      BY <1>0, <3>3 DEF Pages
  <2>2. runs \in Seq(Seq(R))
    <3> HIDE DEF R, changed, Ends
    <3>1. \A c \in 1 .. NumCells : << <<c, Min(Ends(c))>> >> \in Seq(R)
      BY <2>1
    <3>2. runs \in [1 .. NumCells -> Seq(R)]
      BY <3>1
    <3> QED
      BY <1>0, <3>2
  <2>3. RunsOf(wanted, present) = FlattenSeq(runs)
    BY <1>2 DEF RunsOf, changed_runs
  <2> QED
    BY <2>2, <2>3, FlattenType
<1> QED
  BY <1>1, <1>2, PlanAssumption

\* The pages of a run lie in the layer.
LEMMA PagesOfRunType ==
    ASSUME NEW r \in Pages, r[1] <= r[2]
    PROVE  PagesOfRun(r) \in Seq(Pages)
<1> DEFINE n == (r[2] - r[1]) \div Batch + 1
           From(k) == r[1] + (k - 1) * Batch
           Until(k) == r[1] + k * Batch - 1
<1>1. Batch \in Nat /\ Batch >= 1 /\ NumCells \in Nat
  BY PlanAssumption
<1>2. r[1] \in Nat /\ r[2] \in Nat /\ r[1] >= 1 /\ r[2] <= NumCells
  BY DEF Pages
<1>3. n \in Nat
  <2> DEFINE a == r[2] - r[1]
  <2>1. a \in Nat
    BY <1>2
  <2> HIDE DEF a
  <2>2. a \div Batch \in Nat
    BY <1>1, <2>1
  <2> QED
    BY <2>2 DEF a
<1> HIDE DEF n
<1>4. ASSUME NEW k \in 1 .. n PROVE <<From(k), Min({Until(k), r[2]})>> \in Pages
  <2>1. k - 1 \in Nat /\ k \in Nat /\ k >= 1
    BY <1>3
  <2>2. (k - 1) * Batch \in Nat
    BY <1>1, <2>1
  <2>3. k * Batch \in Nat
    BY <1>1, <2>1
  <2>4. From(k) \in Nat /\ From(k) >= 1
    BY <1>2, <2>2
  <2>5. Until(k) \in Nat
    BY <1>2, <2>3
  <2> HIDE DEF From, Until
  <2>6. {Until(k), r[2]} \in SUBSET Nat /\ {Until(k), r[2]} # {}
    BY <1>2, <2>5
  <2> DEFINE least == Min({Until(k), r[2]})
  <2>7. least \in Nat /\ least <= r[2]
    BY <2>6, MinOfNaturals
  <2> HIDE DEF least
  <2>8. <<From(k), least>> \in Pages
    BY <1>1, <1>2, <2>4, <2>7 DEF Pages
  <2> QED
    BY <2>8 DEF least
<1>5. PagesOfRun(r) = [k \in 1 .. n |-> <<From(k), Min({Until(k), r[2]})>>]
  BY DEF PagesOfRun, n
<1> HIDE DEF From, Until
<1>6. PagesOfRun(r) \in [1 .. n -> Pages]
  BY <1>4, <1>5
<1> QED
  BY <1>3, <1>6

\* One page: a bulk request, or its cells one by one.
LEMMA PageRequestsType ==
    ASSUME NEW f, FileShape(f), NEW l \in DOMAIN f.layers, NEW p \in Pages
    PROVE  write_page(f, l, p) \in Seq(FileRequests(f, {"key"}))
<1> DEFINE n == p[2] - p[1] + 1
           m == IF n >= 0 THEN n ELSE 0
           Cell(k) == Write(Key(l, p[1] + k - 1), f.layers[l][p[1] + k - 1])
           cells == [k \in 1 .. m |-> Cell(k)]
<1>1. p[1] \in Nat /\ p[2] \in Nat /\ p[1] >= 1 /\ p[2] <= NumCells /\ NumCells \in Nat
  BY PlanAssumption DEF Pages
<1>2. n \in Int /\ m \in Nat
  BY <1>1
<1>3. 1 .. n = 1 .. m
  <2> HIDE DEF n
  <2> QED
    BY <1>2
<1>4. \A k \in 1 .. m : p[1] + k - 1 \in 1 .. NumCells
  BY <1>1
<1> HIDE DEF n, m
<1>5. ASSUME NEW k \in 1 .. m PROVE Cell(k) \in FileWrites(f, {"key"})
  <2> DEFINE c == p[1] + k - 1
  <2>1. c \in 1 .. NumCells
    BY <1>4
  <2> HIDE DEF c
  <2>2. f.layers[l] \in [1 .. NumCells -> Nat]
    BY DEF FileShape
  <2>3. f.layers[l][c] \in Nat
    BY <2>1, <2>2
  <2>4. Key(l, c) \in Governed(f)
    BY <2>1 DEF Governed
  <2>5. Key(l, c) \notin LightingItems
    BY SingleNames DEF Key, LightingItems, Single, LightingParts, ToSet
  <2>6. Write(Key(l, c), f.layers[l][c]) \in FileWrites(f, {"key"})
    BY <2>3, <2>4, <2>5, GovernedItems, KeyWanted DEF FileWrites, Writes, Write
  <2> QED
    BY <2>6 DEF c
<1>6. ASSUME NEW j \in 1 .. m, NEW k \in 1 .. m, Cell(j).item = Cell(k).item
      PROVE  j = k
  <2>1. p[1] + j - 1 = p[1] + k - 1
    BY <1>6 DEF Write, Key
  <2> QED
    BY <1>1, <1>2, <2>1
<1> HIDE DEF Cell
<1>7. cells \in Seq(FileWrites(f, {"key"})) /\ Len(cells) = m
  BY <1>2, <1>5
<1>8. Request(cells) \in FileRequests(f, {"key"})
  <2>1. cells \in Seq(Writes)
    <3>1. FileWrites(f, {"key"}) \subseteq Writes
      BY DEF FileWrites
    <3> QED
      BY <1>7, <3>1
  <2>2. \A j, k \in 1 .. Len(cells) : cells[j].item = cells[k].item => j = k
    BY <1>6, <1>7
  <2>3. \A k \in 1 .. Len(cells) :
          /\ cells[k].item \in Governed(f) /\ Kind(cells[k].item) = "key"
          /\ cells[k].val = Wanted(f, cells[k].item)
    BY <1>5, <1>7 DEF FileWrites
  <2> HIDE DEF cells
  <2> QED
    BY <2>1, <2>2, <2>3 DEF Request, FileRequests
<1> DEFINE requests == IF BulkTransfer THEN <<Request(cells)>> ELSE RequestEach(cells)
<1>9. requests \in Seq(FileRequests(f, {"key"}))
  <2>1. RequestEach(cells) \in Seq(FileRequests(f, {"key"}))
    BY <1>7, RequestEachType
  <2>2. <<Request(cells)>> \in Seq(FileRequests(f, {"key"}))
    BY <1>8
  <2> QED
    BY <2>1, <2>2
<1>10. write_page(f, l, p) =
         [k \in DOMAIN requests |-> [requests[k] EXCEPT !.paced = k = Len(requests)]]
  BY <1>3 DEF write_page, Cell, n
<1> HIDE DEF requests
<1>11. ASSUME NEW k \in DOMAIN requests
       PROVE  [requests[k] EXCEPT !.paced = k = Len(requests)] \in FileRequests(f, {"key"})
  <2> DEFINE r == requests[k]
             b == k = Len(requests)
  <2>1. r \in FileRequests(f, {"key"})
    BY <1>9
  <2>2. b \in BOOLEAN
    OBVIOUS
  <2> HIDE DEF r, b
  <2>3. [r EXCEPT !.paced = b] \in FileRequests(f, {"key"})
    BY <2>1, <2>2 DEF FileRequests
  <2> QED
    BY <2>3 DEF r, b
<1>12. DOMAIN requests = 1 .. Len(requests) /\ Len(requests) \in Nat
  BY <1>9
<1> QED
  BY <1>10, <1>11, <1>12

\* One layer, page after page.
LEMMA LayerRequestsType ==
    ASSUME NEW f, FileShape(f), NEW earlier, NEW l \in DOMAIN f.layers
    PROVE  write_layer(f, earlier, l) \in Seq(FileRequests(f, {"key"}))
<1> DEFINE present == [c \in 1 .. NumCells |-> earlier[Key(l, c)]]
           runs == RunsOf(f.layers[l], present)
           pages == pages_of(runs)
           requests == [k \in DOMAIN pages |-> write_page(f, l, pages[k])]
<1>1. write_layer(f, earlier, l) =
        IF f.layers[l] = present THEN <<>> ELSE FlattenSeq(requests)
  BY DEF write_layer
<1>2. CASE f.layers[l] = present
  BY <1>1, <1>2
<1>3. CASE f.layers[l] # present
  <2>1. NumCells # 0
    <3> SUFFICES ASSUME NumCells = 0 PROVE f.layers[l] = present
      BY <1>3
    <3>1. f.layers[l] \in [1 .. NumCells -> Nat]
      BY DEF FileShape
    <3>2. 1 .. NumCells = {}
      OBVIOUS
    <3>3. f.layers[l] = [c \in {} |-> 0] /\ present = [c \in {} |-> 0]
      BY <3>1, <3>2
    <3> QED
      BY <3>3
  <2>2. runs \in Seq({r \in Pages : r[1] <= r[2]})
    BY <2>1, RunsType
  <2> HIDE DEF runs
  <2>3. pages \in Seq(Pages)
    <3> DEFINE each == [k \in DOMAIN runs |-> PagesOfRun(runs[k])]
    <3>1. \A k \in DOMAIN runs : PagesOfRun(runs[k]) \in Seq(Pages)
      BY <2>2, PagesOfRunType
    <3>2. DOMAIN runs = 1 .. Len(runs) /\ Len(runs) \in Nat
      BY <2>2
    <3>3. each \in [1 .. Len(runs) -> Seq(Pages)]
      BY <3>1, <3>2
    <3>4. each \in Seq(Seq(Pages))
      BY <3>2, <3>3
    <3> QED
      BY <3>4, FlattenType DEF pages_of
  <2> HIDE DEF pages
  <2>4. requests \in Seq(Seq(FileRequests(f, {"key"})))
    <3>1. \A k \in DOMAIN pages : write_page(f, l, pages[k]) \in Seq(FileRequests(f, {"key"}))
      BY <2>3, PageRequestsType
    <3>2. DOMAIN pages = 1 .. Len(pages) /\ Len(pages) \in Nat
      BY <2>3
    <3>3. requests \in [1 .. Len(pages) -> Seq(FileRequests(f, {"key"}))]
      BY <3>1, <3>2
    <3> QED
      BY <3>2, <3>3
  <2> QED
    BY <1>1, <1>3, <2>4, FlattenType
<1> QED
  BY <1>2, <1>3

\* The layers, one after the other.
LEMMA KeymapRequestsType ==
    ASSUME NEW f, FileShape(f), NEW m
    PROVE  KeymapRequests(f, m) \in Seq(FileRequests(f, {"key"}))
<1> DEFINE R == Seq(FileRequests(f, {"key"}))
           each == [l \in DOMAIN f.layers |-> write_layer(f, m, l)]
<1>1. DOMAIN f.layers = 1 .. Len(f.layers) /\ Len(f.layers) \in Nat
  BY DEF FileShape
<1>2. each \in [1 .. Len(f.layers) -> R]
  BY <1>1, LayerRequestsType
<1>3. each \in Seq(R)
  BY <1>1, <1>2
<1> QED
  BY <1>3, FlattenType DEF KeymapRequests

-----------------------------------------------------------------------------
(* ConfigApply: the order of the requests.                                 *)

PlanOf(f) == Seq(FileRequests(f, Kinds))

NoWrites(s, kind) ==
    \A k \in DOMAIN s : \A n \in 1 .. Len(s[k].writes) : Kind(s[k].writes[n].item) # kind

\* After a request for a key cell none touches a table.
TablesFirst(s) ==
    \A k, l \in DOMAIN s :
        k < l /\ (\E n \in 1 .. Len(s[k].writes) : Kind(s[k].writes[n].item) = "key")
            => \A n \in 1 .. Len(s[l].writes) : Kind(s[l].writes[n].item) # "table"

Asks(s, i) == \E k \in DOMAIN s : \E n \in 1 .. Len(s[k].writes) : s[k].writes[n].item = i

\* Requests of one kind write nothing of the others.
LEMMA PlanOfKind ==
    ASSUME NEW f, NEW kind \in Kinds, NEW s \in Seq(FileRequests(f, {kind}))
    PROVE  s \in PlanOf(f) /\ \A other \in Kinds \ {kind} : NoWrites(s, other)
<1>1. FileRequests(f, {kind}) \subseteq FileRequests(f, Kinds)
  BY DEF FileRequests
<1>2. s \in PlanOf(f)
  <2> DEFINE R == FileRequests(f, {kind})
             T == FileRequests(f, Kinds)
  <2>1. s \in Seq(R) /\ R \subseteq T
    BY <1>1
  <2> HIDE DEF R, T
  <2>2. s \in Seq(T)
    BY <2>1
  <2> QED
    BY <2>2 DEF PlanOf, T
<1>3. \A k \in DOMAIN s : s[k] \in FileRequests(f, {kind})
  OBVIOUS
<1>4. \A k \in DOMAIN s : \A n \in 1 .. Len(s[k].writes) : Kind(s[k].writes[n].item) = kind
  BY <1>3 DEF FileRequests
<1> QED
  BY <1>2, <1>4 DEF NoWrites

\* Two plans in a row: one that is in order when no key of the first comes
\* before a table of the second.
LEMMA PlanConcat ==
    ASSUME NEW f, NEW a \in PlanOf(f), NEW b \in PlanOf(f)
    PROVE  /\ a \o b \in PlanOf(f)
           /\ \A kind : NoWrites(a, kind) /\ NoWrites(b, kind) => NoWrites(a \o b, kind)
           /\ NoWrites(a, "key") \/ NoWrites(b, "table")
                => (TablesFirst(a) /\ TablesFirst(b) => TablesFirst(a \o b))
           /\ \A i : Asks(a, i) \/ Asks(b, i) => Asks(a \o b, i)
<1> DEFINE R == FileRequests(f, Kinds)
           p == a \o b
           n == Len(a)
           m == Len(b)
<1>1. a \in Seq(R) /\ b \in Seq(R)
  BY DEF PlanOf
<1> HIDE DEF R
<1>2. /\ p \in Seq(R)
      /\ DOMAIN p = 1 .. n + m /\ n \in Nat /\ m \in Nat
      /\ \A k \in 1 .. n : p[k] = a[k]
      /\ \A l \in 1 .. m : p[n + l] = b[l]
      /\ \A k \in DOMAIN p : k \in 1 .. n \/ \E l \in 1 .. m : k = n + l
  BY <1>1, ConcatPlaces
<1>3. DOMAIN a = 1 .. n /\ DOMAIN b = 1 .. m
  BY <1>1
<1> HIDE DEF p, n, m
<1>4. ASSUME NEW kind, NoWrites(a, kind), NoWrites(b, kind) PROVE NoWrites(p, kind)
  <2> SUFFICES ASSUME NEW k \in DOMAIN p, NEW j \in 1 .. Len(p[k].writes)
               PROVE  Kind(p[k].writes[j].item) # kind
    BY DEF NoWrites
  <2>1. CASE k \in 1 .. n
    BY <1>2, <1>3, <1>4, <2>1 DEF NoWrites
  <2>2. CASE \E l \in 1 .. m : k = n + l
    <3>1. PICK l \in 1 .. m : k = n + l
      BY <2>2
    <3>2. p[k] = b[l] /\ l \in DOMAIN b
      BY <1>2, <1>3, <3>1
    <3> QED
      BY <1>4, <3>2 DEF NoWrites
  <2> QED
    BY <1>2, <2>1, <2>2
<1>5. ASSUME NEW i, Asks(a, i) PROVE Asks(p, i)
  BY <1>2, <1>3, <1>5 DEF Asks
<1>6. ASSUME NEW i, Asks(b, i) PROVE Asks(p, i)
  <2>1. PICK l \in 1 .. m : \E j \in 1 .. Len(b[l].writes) : b[l].writes[j].item = i
    BY <1>3, <1>6 DEF Asks
  <2>2. n + l \in DOMAIN p /\ p[n + l] = b[l]
    BY <1>2
  <2> DEFINE k == n + l
  <2> HIDE DEF k
  <2>3. k \in DOMAIN p /\ p[k] = b[l]
    BY <2>2 DEF k
  <2> QED
    BY <2>1, <2>3 DEF Asks
<1>7. ASSUME NoWrites(a, "key") \/ NoWrites(b, "table"), TablesFirst(a), TablesFirst(b)
      PROVE  TablesFirst(p)
  <2> SUFFICES ASSUME NEW k \in DOMAIN p, NEW l \in DOMAIN p, k < l,
                      NEW j \in 1 .. Len(p[k].writes), Kind(p[k].writes[j].item) = "key",
                      NEW i \in 1 .. Len(p[l].writes)
               PROVE  Kind(p[l].writes[i].item) # "table"
    BY DEF TablesFirst
  <2>1. CASE k \in 1 .. n /\ l \in 1 .. n
    <3>1. p[k] = a[k] /\ p[l] = a[l] /\ k \in DOMAIN a /\ l \in DOMAIN a
      BY <1>2, <1>3, <2>1
    <3> QED
      BY <1>7, <3>1 DEF TablesFirst
  <2>2. CASE k \in 1 .. n /\ \E h \in 1 .. m : l = n + h
    <3>1. PICK h \in 1 .. m : l = n + h
      BY <2>2
    <3>2. p[k] = a[k] /\ p[l] = b[h] /\ k \in DOMAIN a /\ h \in DOMAIN b
      BY <1>2, <1>3, <2>2, <3>1
    <3>3. ~ NoWrites(a, "key")
      BY <3>2 DEF NoWrites
    <3> QED
      BY <1>7, <3>2, <3>3 DEF NoWrites
  <2>3. CASE (\E g \in 1 .. m : k = n + g) /\ (\E h \in 1 .. m : l = n + h)
    <3>1. PICK g \in 1 .. m, h \in 1 .. m : k = n + g /\ l = n + h
      BY <2>3
    <3>2. p[k] = b[g] /\ p[l] = b[h] /\ g \in DOMAIN b /\ h \in DOMAIN b /\ g < h
      BY <1>2, <1>3, <3>1
    <3> QED
      BY <1>7, <3>2 DEF TablesFirst
  <2>4. ~ ((\E g \in 1 .. m : k = n + g) /\ l \in 1 .. n)
    BY <1>2
  <2> QED
    BY <1>2, <2>1, <2>2, <2>3, <2>4
<1>8. p \in PlanOf(f)
  BY <1>2 DEF PlanOf, R
<1> QED
  BY <1>4, <1>5, <1>6, <1>7, <1>8 DEF p

\* A plan without keys, or without tables, is in order.
LEMMA OneKindOrdered ==
    ASSUME NEW s, NoWrites(s, "key") \/ NoWrites(s, "table")
    PROVE  TablesFirst(s)
BY DEF NoWrites, TablesFirst

\* Every slot of the morse table that is not as the file says is asked for.
LEMMA MorseSlotsAsked ==
    ASSUME NEW f, FileShape(f), "morse" \in Claims(f), NEW m, NEW j \in 1 .. Slots,
           m[Slot("morse", j)] # Wanted(f, Slot("morse", j))
    PROVE  Asks(write_all(f, m, "morse"), Slot("morse", j))
<1> DEFINE t == "morse"
           n == BulkLength(f, m, t)
           Slotted(i) == Write(Slot(t, i), Wanted(f, Slot(t, i)))
           padded == [i \in 1 .. n |-> Slotted(i)]
           held == [i \in 1 .. Slots |-> Write(Slot(t, i), m[Slot(t, i)])]
           full == {i \in 1 .. Slots : m[Slot(t, i)] # 0}
<1>1. write_all(f, m, t) = IF padded = held THEN <<>> ELSE RequestEach(padded)
  BY DEF write_all
<1>2. padded # held
  <2> SUFFICES ASSUME padded = held PROVE FALSE
    OBVIOUS
  <2>1. held[j].val = m[Slot(t, j)]
    BY DEF Write
  <2>2. j \in 1 .. n
    <3>1. DOMAIN padded = 1 .. n /\ DOMAIN held = 1 .. Slots
      OBVIOUS
    <3> QED
      BY <3>1
  <2>3. padded[j].val = Wanted(f, Slot(t, j))
    BY <2>2 DEF Write
  <2> QED
    BY <2>1, <2>3
<1>3. j \in 1 .. n
  <2>1. /\ Slots \in Nat /\ n \in 0 .. Slots /\ Len(f.tables[t]) \in Nat
        /\ Len(f.tables[t]) <= n /\ \A i \in full : i <= n
    BY BulkCovers
  <2> HIDE DEF n, full
  <2> SUFFICES ASSUME j > n PROVE FALSE
    BY <2>1
  <2>2. m[Slot(t, j)] = 0
    BY <2>1 DEF full
  <2>3. f.tables[t] \in Seq(Nat)
    BY DEF FileShape
  <2>4. j \notin DOMAIN f.tables[t]
    BY <2>1, <2>3
  <2>5. Wanted(f, Slot(t, j)) = 0
    BY <2>4, WantedSlot
  <2> QED
    BY <2>2, <2>5
<1>4. RequestEach(padded)[j].writes = <<Slotted(j)>> /\ j \in DOMAIN RequestEach(padded)
  <2>1. RequestEach(padded) = [k \in 1 .. n |-> Request(<<padded[k]>>)]
    BY DEF RequestEach
  <2>2. padded[j] = Slotted(j)
    BY <1>3
  <2> HIDE DEF padded, Slotted
  <2> QED
    BY <1>3, <2>1, <2>2 DEF Request
<1>5. Slotted(j).item = Slot(t, j)
  BY DEF Write
<1> HIDE DEF Slotted, padded
<1>6. Asks(RequestEach(padded), Slot(t, j))
  <2> DEFINE reqs == RequestEach(padded)
             writes == reqs[j].writes
  <2>1. writes = <<Slotted(j)>> /\ j \in DOMAIN reqs
    BY <1>4
  <2>2. 1 \in 1 .. Len(writes) /\ writes[1] = Slotted(j)
    <3> HIDE DEF writes, reqs
    <3> QED
      BY <2>1
  <2>3. reqs[j].writes[1].item = Slot(t, j)
    BY <1>5, <2>2
  <2>4. 1 \in 1 .. Len(reqs[j].writes)
    BY <2>2
  <2> HIDE DEF writes, reqs
  <2>5. Asks(reqs, Slot(t, j))
    BY <2>1, <2>3, <2>4 DEF Asks
  <2> QED
    BY <2>5 DEF reqs
<1> QED
  BY <1>1, <1>2, <1>6

\* What apply_snapshot asks for: what the file says, the tables before the keys,
\* and every slot of the morse table that is not yet as the file says.
LEMMA ApplyRequestsType ==
    ASSUME NEW f, FileShape(f), NEW m, NEW legacy \in BOOLEAN
    PROVE  /\ apply_snapshot(f, m, legacy) \in PlanOf(f)
           /\ TablesFirst(apply_snapshot(f, m, legacy))
           /\ "morse" \in Claims(f) =>
                \A j \in 1 .. Slots :
                    \/ m[Slot("morse", j)] = Wanted(f, Slot("morse", j))
                    \/ Asks(apply_snapshot(f, m, legacy), Slot("morse", j))
<1> DEFINE S(s, l) == SingleRequests(f, m, <<s>>, l)
           T(t) == TableRequests(f, m, legacy, t)
           Rest(s) == s \in PlanOf(f) /\ NoWrites(s, "key") /\ NoWrites(s, "table")
           Early(s) == s \in PlanOf(f) /\ NoWrites(s, "key") /\ TablesFirst(s)
           Good(s) == s \in PlanOf(f) /\ TablesFirst(s)
           K == KeymapRequests(f, m)
           L == SingleRequests(f, m, LightingParts, "lighting")
           N == NameRequests(f, m)
<1>1. ASSUME NEW s \in Singles, NEW l \in {"none", "pointing"} PROVE Rest(S(s, l))
  <2>1. <<s>> \in Seq(Singles)
    OBVIOUS
  <2>2. l \in Locks \cup {"none"} /\ l # "lighting"
    BY DEF Locks
  <2>3. S(s, l) \in Seq(FileRequests(f, {"rest"}))
    BY <2>1, <2>2, SingleRequestsType
  <2> QED
    BY <2>3, PlanOfKind DEF Kinds
<1>2. Rest(L)
  <2>1. LightingParts \in Seq(Singles)
    BY SingleNames DEF LightingParts
  <2>2. \A k \in DOMAIN LightingParts : LightingParts[k] \in ToSet(LightingParts)
    BY DEF ToSet
  <2>3. "lighting" \in Locks \cup {"none"}
    BY DEF Locks
  <2>4. L \in Seq(FileRequests(f, {"rest"}))
    BY <2>1, <2>2, <2>3, SingleRequestsType
  <2> QED
    BY <2>4, PlanOfKind DEF Kinds
<1>3. Rest(N)
  BY NameRequestsType, PlanOfKind DEF Kinds
<1>4. /\ Rest(S("timing", "none")) /\ Rest(S("bluetooth", "none"))
      /\ Rest(S("default", "none")) /\ Rest(S("pointing", "pointing"))
  BY <1>1, SingleNames
<1>5. ASSUME NEW t \in Tables PROVE Early(T(t))
  <2>1. T(t) \in Seq(FileRequests(f, {"table"}))
    BY TableRequestsType
  <2> HIDE DEF T
  <2> QED
    BY <2>1, PlanOfKind, OneKindOrdered DEF Kinds
<1>6. Early(T("profile")) /\ Early(T("morse")) /\ Early(T("combo")) /\ Early(T("fork"))
  BY <1>5 DEF Tables, BulkTables
<1>7. Good(K) /\ NoWrites(K, "table")
  <2>1. K \in PlanOf(f) /\ NoWrites(K, "table")
    BY KeymapRequestsType, PlanOfKind DEF Kinds
  <2> QED
    BY <2>1, OneKindOrdered
<1>8. apply_behaviors(f, m, legacy) =
        S("timing", "none") \o T("profile") \o T("morse") \o T("combo") \o T("fork")
  BY DEF apply_behaviors
<1>9. apply_snapshot(f, m, legacy) =
        S("bluetooth", "none") \o TablesThenKeys(f, m, legacy) \o S("default", "none")
            \o N \o S("pointing", "pointing") \o L
  BY DEF apply_snapshot
<1>10. TablesThenKeys(f, m, legacy) = apply_behaviors(f, m, legacy) \o K
  BY DEF TablesThenKeys
<1>11. "morse" \in Claims(f) => T("morse") = write_all(f, m, "morse")
  BY DEF TableRequests, BulkTables
<1> HIDE DEF S, T, K, L, N
<1>12. \A s : Rest(s) => Early(s)
  BY OneKindOrdered
<1>13. \A s : Early(s) => Good(s)
  OBVIOUS
<1>14. ASSUME NEW a, NEW b, Early(a), Early(b)
       PROVE  Early(a \o b) /\ \A i : Asks(a, i) \/ Asks(b, i) => Asks(a \o b, i)
  BY <1>14, PlanConcat
<1>15. ASSUME NEW a, NEW b, Early(a), Good(b)
       PROVE  Good(a \o b) /\ \A i : Asks(a, i) \/ Asks(b, i) => Asks(a \o b, i)
  BY <1>15, PlanConcat
<1>16. ASSUME NEW a, NEW b, Good(a), Rest(b)
       PROVE  Good(a \o b) /\ \A i : Asks(a, i) \/ Asks(b, i) => Asks(a \o b, i)
  BY <1>16, PlanConcat, OneKindOrdered
<1> HIDE DEF Rest, Early, Good
<1>17. /\ Early(apply_behaviors(f, m, legacy))
       /\ \A i : Asks(T("morse"), i) => Asks(apply_behaviors(f, m, legacy), i)
  <2> DEFINE a == S("timing", "none") \o T("profile")
             b == a \o T("morse")
             c == b \o T("combo")
  <2>1. Early(a)
    BY <1>4, <1>6, <1>12, <1>14
  <2> HIDE DEF a
  <2>2. Early(b) /\ \A i : Asks(T("morse"), i) => Asks(b, i)
    BY <1>6, <1>14, <2>1
  <2> HIDE DEF b
  <2>3. Early(c) /\ \A i : Asks(T("morse"), i) => Asks(c, i)
    BY <1>6, <1>14, <2>2
  <2> HIDE DEF c
  <2>4. Early(c \o T("fork")) /\ \A i : Asks(T("morse"), i) => Asks(c \o T("fork"), i)
    BY <1>6, <1>14, <2>3
  <2> QED
    BY <1>8, <2>4 DEF a, b, c
<1>18. /\ Good(TablesThenKeys(f, m, legacy))
       /\ \A i : Asks(T("morse"), i) => Asks(TablesThenKeys(f, m, legacy), i)
  BY <1>7, <1>10, <1>15, <1>17 DEF Good
<1>19. /\ Good(apply_snapshot(f, m, legacy))
       /\ \A i : Asks(T("morse"), i) => Asks(apply_snapshot(f, m, legacy), i)
  <2> DEFINE a == S("bluetooth", "none") \o TablesThenKeys(f, m, legacy)
             b == a \o S("default", "none")
             c == b \o N
             d == c \o S("pointing", "pointing")
  <2>1. Good(a) /\ \A i : Asks(T("morse"), i) => Asks(a, i)
    BY <1>4, <1>12, <1>15, <1>18
  <2> HIDE DEF a
  <2>2. Good(b) /\ \A i : Asks(T("morse"), i) => Asks(b, i)
    BY <1>4, <1>16, <2>1
  <2> HIDE DEF b
  <2>3. Good(c) /\ \A i : Asks(T("morse"), i) => Asks(c, i)
    BY <1>3, <1>16, <2>2
  <2> HIDE DEF c
  <2>4. Good(d) /\ \A i : Asks(T("morse"), i) => Asks(d, i)
    BY <1>4, <1>16, <2>3
  <2> HIDE DEF d
  <2>5. Good(d \o L) /\ \A i : Asks(T("morse"), i) => Asks(d \o L, i)
    BY <1>2, <1>16, <2>4
  <2> QED
    BY <1>9, <2>5 DEF a, b, c, d
<1> QED
  BY <1>11, <1>19, MorseSlotsAsked DEF Good

-----------------------------------------------------------------------------
(* ConfigApply: the flash queue and the verdict.                           *)

QueueItems == Writes \cup {Marker}

\* Place k of a queue is its last write of an item.
LastWrite(q, i, k) == q[k].item = i /\ \A l \in DOMAIN q : l > k => q[l].item # i

\* Once the queue is written out, flash holds what RAM does.
Drained(q, r, f) ==
    \A i \in Items \ LightingItems :
        /\ \A k \in DOMAIN q : LastWrite(q, i, k) => q[k].val = r[i]
        /\ (\A k \in DOMAIN q : q[k].item # i) => f[i] = r[i]

\* Nothing but what the file speaks for waits for flash.
OnlyGoverned(q, f) ==
    \A k \in DOMAIN q : q[k].item \in Undisputed => q[k].item \in Governed(f)

QueueInv ==
    /\ FileShape(file)
    /\ ram \in [Items -> Nat] /\ flash \in [Items -> Nat] /\ before \in [Items -> Nat]
    /\ queue \in Seq(QueueItems)
    /\ todo \in PlanOf(file)
    /\ Drained(queue, ram, flash)
    /\ OnlyGoverned(queue, file)
    /\ pc = "send" => todo # <<>>

\* The metadata read is behind every write it has to wait for.
Behind(q) ==
    \A k \in DOMAIN q : q[k].item \in Undisputed => \E l \in DOMAIN q : l > k /\ q[l] = Marker

Agree(m, n) == \A i \in Undisputed : m[i] = n[i]
NoneQueued(q) == \A k \in DOMAIN q : q[k].item \notin Undisputed

VerdictInv ==
    /\ pc \in {"reading", "verify"} => Agree(before, ram) /\ Behind(queue)
    /\ pc = "done" => /\ differences(file, before) = {}
                      /\ Agree(before, ram)
                      /\ NoneQueued(queue)

\* No place of a queue holds a write of the kind.
NoneOf(q, kind) == \A k \in DOMAIN q : Kind(q[k].item) # kind

\* Behind a key cell no table waits.
KeysLast(q) ==
    \A k, l \in DOMAIN q : k < l /\ Kind(q[k].item) = "key" => Kind(q[l].item) # "table"

\* The metadata read is not a write.
LEMMA MarkerItem == Marker.item \notin Items /\ Marker.item \notin Undisputed
<1>1. Marker.item = <<"marker", 0, 0>>
  BY DEF Marker, Write
<1>2. \A t \in Tables : t # "marker"
  BY DEF Tables, BulkTables
<1>3. \A s \in Singles : s # "marker"
  BY SingleNames
<1> QED
  BY <1>1, <1>2, <1>3 DEF Items, Key, Slot, Name, Single, Undisputed

\* Writes that RAM has taken join the queue.
LEMMA DrainedAppend ==
    ASSUME NEW q \in Seq(QueueItems), NEW ws \in Seq(QueueItems),
           NEW r, NEW r2, NEW f, Drained(q, r, f),
           \A i \in Items \ LightingItems :
             /\ \A l \in DOMAIN ws : ws[l].item = i => ws[l].val = r2[i]
             /\ (\A l \in DOMAIN ws : ws[l].item # i) => r2[i] = r[i]
    PROVE  Drained(q \o ws, r2, f)
<1> DEFINE p == q \o ws
           n == Len(q)
           m == Len(ws)
<1>1. /\ DOMAIN p = 1 .. n + m /\ n \in Nat /\ m \in Nat
      /\ \A k \in 1 .. n : p[k] = q[k]
      /\ \A l \in 1 .. m : p[n + l] = ws[l]
      /\ \A k \in DOMAIN p : k \in 1 .. n \/ \E l \in 1 .. m : k = n + l
  BY ConcatPlaces
<1>2. DOMAIN q = 1 .. n /\ DOMAIN ws = 1 .. m
  OBVIOUS
<1> HIDE DEF p, n, m
<1> SUFFICES ASSUME NEW i \in Items \ LightingItems
             PROVE  /\ \A k \in DOMAIN p : LastWrite(p, i, k) => p[k].val = r2[i]
                    /\ (\A k \in DOMAIN p : p[k].item # i) => f[i] = r2[i]
  BY DEF Drained, p
<1>3. CASE \E l \in 1 .. m : ws[l].item = i
  <2>1. PICK l \in 1 .. m : ws[l].item = i
    BY <1>3
  <2>2. n + l \in DOMAIN p /\ p[n + l].item = i
    BY <1>1, <2>1
  <2>3. ASSUME NEW k \in DOMAIN p, LastWrite(p, i, k) PROVE p[k].val = r2[i]
    <3>1. ~ (n + l > k)
      BY <2>2, <2>3 DEF LastWrite
    <3>2. ~ (k \in 1 .. n)
      BY <1>1, <3>1
    <3>3. PICK j \in 1 .. m : k = n + j
      BY <1>1, <3>2
    <3>4. ws[j].item = i
      BY <1>1, <2>3, <3>3 DEF LastWrite
    <3>5. ws[j].val = r2[i]
      BY <1>2, <3>4
    <3> QED
      BY <1>1, <3>3, <3>5
  <2> QED
    BY <2>2, <2>3
<1>4. CASE \A l \in 1 .. m : ws[l].item # i
  <2>1. r2[i] = r[i]
    BY <1>2, <1>4
  <2>2. ASSUME NEW k \in DOMAIN p, LastWrite(p, i, k) PROVE p[k].val = r2[i]
    <3>1. p[k].item = i
      BY <2>2 DEF LastWrite
    <3>2. k \in 1 .. n
      BY <1>1, <1>4, <3>1
    <3>3. \A l \in 1 .. n : l > k => q[l].item # i
      <4> TAKE l \in 1 .. n
      <4>1. l \in DOMAIN p /\ p[l] = q[l]
        BY <1>1
      <4> QED
        BY <2>2, <4>1 DEF LastWrite
    <3>4. LastWrite(q, i, k)
      BY <1>1, <1>2, <3>1, <3>2, <3>3 DEF LastWrite
    <3> QED
      BY <1>1, <1>2, <2>1, <3>2, <3>4 DEF Drained
  <2>3. ASSUME \A k \in DOMAIN p : p[k].item # i PROVE f[i] = r2[i]
    <3>1. \A k \in DOMAIN q : q[k].item # i
      <4> TAKE k \in DOMAIN q
      <4>1. k \in DOMAIN p /\ p[k] = q[k]
        BY <1>1, <1>2
      <4> QED
        BY <2>3, <4>1
    <3> QED
      BY <2>1, <3>1 DEF Drained
  <2> QED
    BY <2>2, <2>3
<1> QED
  BY <1>3, <1>4

\* The oldest item is written out.
LEMMA DrainedTail ==
    ASSUME NEW q \in Seq(QueueItems), q # <<>>, NEW r, NEW f, NEW f2, Drained(q, r, f),
           \A i \in Items : f2[i] = IF Head(q).item = i THEN Head(q).val ELSE f[i]
    PROVE  Drained(Tail(q), r, f2)
<1> DEFINE t == Tail(q)
<1>1. /\ \A k \in DOMAIN t : k + 1 \in DOMAIN q /\ t[k] = q[k + 1]
      /\ \A k \in DOMAIN q : k # 1 => k - 1 \in DOMAIN t /\ t[k - 1] = q[k]
      /\ 1 \in DOMAIN q /\ Head(q) = q[1]
      /\ DOMAIN q \subseteq Nat /\ DOMAIN t \subseteq Nat
  BY TailPlaces
<1> HIDE DEF t
<1> SUFFICES ASSUME NEW i \in Items \ LightingItems
             PROVE  /\ \A k \in DOMAIN t : LastWrite(t, i, k) => t[k].val = r[i]
                    /\ (\A k \in DOMAIN t : t[k].item # i) => f2[i] = r[i]
  BY DEF Drained, t
<1>2. ASSUME NEW k \in DOMAIN t, LastWrite(t, i, k) PROVE t[k].val = r[i]
  <2>1. k + 1 \in DOMAIN q /\ t[k] = q[k + 1] /\ k \in Nat
    BY <1>1
  <2>2. ASSUME NEW l \in DOMAIN q, l > k + 1 PROVE q[l].item # i
    <3>1. l - 1 \in DOMAIN t /\ t[l - 1] = q[l] /\ l - 1 > k
      BY <1>1, <2>1, <2>2
    <3> QED
      BY <1>2, <3>1 DEF LastWrite
  <2>3. LastWrite(q, i, k + 1)
    BY <1>2, <2>1, <2>2 DEF LastWrite
  <2> QED
    BY <2>1, <2>3 DEF Drained
<1>3. ASSUME \A k \in DOMAIN t : t[k].item # i PROVE f2[i] = r[i]
  <2>1. ASSUME NEW l \in DOMAIN q, l # 1 PROVE q[l].item # i
    <3>1. l - 1 \in DOMAIN t /\ t[l - 1] = q[l]
      BY <1>1, <2>1
    <3> QED
      BY <1>3, <3>1
  <2>2. CASE q[1].item = i
    <3>1. LastWrite(q, i, 1)
      BY <1>1, <2>1, <2>2 DEF LastWrite
    <3>2. q[1].val = r[i]
      BY <1>1, <3>1 DEF Drained
    <3> QED
      BY <1>1, <2>2, <3>2
  <2>3. CASE q[1].item # i
    <3>1. \A l \in DOMAIN q : q[l].item # i
      BY <2>1, <2>3
    <3>2. f[i] = r[i]
      BY <3>1 DEF Drained
    <3> QED
      BY <1>1, <2>3, <3>2
  <2> QED
    BY <2>2, <2>3
<1> QED
  BY <1>2, <1>3

\* The firmware takes a request that names no item twice.
LEMMA AcceptStep ==
    ASSUME NEW req, req.writes \in Seq(Writes),
           \A j, k \in 1 .. Len(req.writes) :
             req.writes[j].item = req.writes[k].item => j = k,
           req.revision = "lighting" =>
             \A k \in 1 .. Len(req.writes) : req.writes[k].item \in LightingItems,
           ram \in [Items -> Nat], queue \in Seq(QueueItems), Drained(queue, ram, flash),
           Accept(req)
    PROVE  /\ ram' \in [Items -> Nat] /\ queue' \in Seq(QueueItems)
           /\ Drained(queue', ram', flash)
           /\ \A i \in Items : (\A k \in 1 .. Len(req.writes) : req.writes[k].item # i)
                                 => ram'[i] = ram[i]
           /\ \A k \in 1 .. Len(req.writes) : ram'[req.writes[k].item] = req.writes[k].val
<1> DEFINE ws == req.writes
           Named(i) == \E w \in ToSet(ws) : w.item = i
           Chosen(i) == CHOOSE w \in ToSet(ws) : w.item = i
<1>1. ram' = [i \in Items |-> IF Named(i) THEN Chosen(i).val ELSE ram[i]]
  BY DEF Accept
<1>2. queue' = IF req.revision = "lighting" THEN queue ELSE queue \o ws
  BY DEF Accept
<1>3. DOMAIN ws = 1 .. Len(ws) /\ ToSet(ws) = {ws[k] : k \in DOMAIN ws}
  BY DEF ToSet
<1>4. ws \in Seq(Writes)
  OBVIOUS
<1>5. \A j, k \in DOMAIN ws : ws[j].item = ws[k].item => j = k
  BY <1>3
<1> HIDE DEF ws
<1>6. ASSUME NEW k \in DOMAIN ws PROVE Named(ws[k].item) /\ Chosen(ws[k].item) = ws[k]
  <2>1. ws[k] \in ToSet(ws)
    BY <1>3
  <2>2. \A w \in ToSet(ws) : w.item = ws[k].item => w = ws[k]
    BY <1>3, <1>5
  <2> QED
    BY <2>1, <2>2
<1>7. \A i \in Items : Named(i) => \E k \in DOMAIN ws : ws[k].item = i
  BY <1>3
<1> HIDE DEF Named, Chosen
<1>8. \A k \in DOMAIN ws : ws[k].item \in Items /\ ws[k].val \in Nat
  <2>1. \A k \in DOMAIN ws : ws[k] \in Writes
    BY <1>3, <1>4
  <2> QED
    BY <2>1 DEF Writes
<1>9. \A k \in DOMAIN ws : ram'[ws[k].item] = ws[k].val
  BY <1>1, <1>6, <1>8
<1>10. ASSUME NEW i \in Items, \A k \in DOMAIN ws : ws[k].item # i PROVE ram'[i] = ram[i]
  BY <1>1, <1>7, <1>10
<1>11. ram' \in [Items -> Nat]
  <2> SUFFICES ASSUME NEW i \in Items
               PROVE  (IF Named(i) THEN Chosen(i).val ELSE ram[i]) \in Nat
    BY <1>1
  <2>1. CASE Named(i)
    <3>1. PICK k \in DOMAIN ws : ws[k].item = i
      BY <1>7, <2>1
    <3> QED
      BY <1>6, <1>8, <2>1, <3>1
  <2> QED
    BY <2>1
<1>12. CASE req.revision = "lighting"
  <2>1. \A i \in Items \ LightingItems : ram'[i] = ram[i]
    BY <1>3, <1>10, <1>12 DEF ws
  <2>2. Drained(queue, ram', flash)
    BY <2>1 DEF Drained
  <2> QED
    BY <1>2, <1>3, <1>9, <1>10, <1>11, <1>12, <2>2 DEF ws
<1>13. CASE req.revision # "lighting"
  <2>1. ws \in Seq(QueueItems)
    BY <1>4 DEF QueueItems
  <2>2. queue \o ws \in Seq(QueueItems)
    BY <2>1, ConcatPlaces
  <2>3. \A i \in Items \ LightingItems :
             /\ \A l \in DOMAIN ws : ws[l].item = i => ws[l].val = ram'[i]
             /\ (\A l \in DOMAIN ws : ws[l].item # i) => ram'[i] = ram[i]
    BY <1>9, <1>10
  <2>4. Drained(queue \o ws, ram', flash)
    BY <2>1, <2>3, DrainedAppend
  <2> QED
    BY <1>2, <1>3, <1>9, <1>10, <1>11, <1>13, <2>2, <2>4 DEF ws
<1> QED
  BY <1>12, <1>13

\* --exact turns a file that apply takes into another.
LEMMA ClaimedFileShape ==
    ASSUME NEW f, FileShape(f)
    PROVE  FileShape(claim_every_behavior_table(f))
<1> DEFINE g == claim_every_behavior_table(f)
           tables == [t \in Tables |-> IF t \in Claims(f) THEN f.tables[t] ELSE <<>>]
<1>1. g = [layers |-> f.layers, tables |-> tables, names |-> f.names, singles |-> f.singles]
  BY DEF claim_every_behavior_table, FileShape
<1>2. \A t \in Tables : tables[t] \in Seq(Nat) /\ Len(tables[t]) <= Slots
  BY PlanAssumption DEF FileShape
<1> HIDE DEF g
<1>3. g.tables = tables /\ g.layers = f.layers /\ g.names = f.names /\ g.singles = f.singles
  BY <1>1
<1>4. g = [layers |-> g.layers, tables |-> g.tables, names |-> g.names, singles |-> g.singles]
  BY <1>1, <1>3
<1>5. Claims(g) = Tables /\ \A t \in Claims(g) : g.tables[t] \in Seq(Nat) /\ Len(g.tables[t]) <= Slots
  BY <1>2, <1>3 DEF Claims
<1>6. FileShape(g)
  BY <1>3, <1>4, <1>5 DEF FileShape
<1> QED
  BY <1>6 DEF g

\* Nothing is queued or planned at first.
LEMMA QueueInit == Init => QueueInv /\ VerdictInv
<1> SUFFICES ASSUME Init PROVE QueueInv /\ VerdictInv
  OBVIOUS
<1>1. FileShape(file)
  BY ApplyAssumption, ClaimedFileShape DEF Init
<1>2. ram \in [Items -> Nat] /\ flash = ram /\ before = ram
  BY ApplyAssumption DEF Init
<1>3. queue = <<>> /\ todo = <<>> /\ pc = "idle"
  BY DEF Init
<1>4. Drained(queue, ram, flash) /\ OnlyGoverned(queue, file)
  BY <1>2, <1>3 DEF Drained, OnlyGoverned
<1>5. queue \in Seq(QueueItems) /\ todo \in PlanOf(file)
  BY <1>3 DEF PlanOf
<1> QED
  BY <1>1, <1>2, <1>3, <1>4, <1>5 DEF QueueInv, VerdictInv

\* The metadata read joins the queue.
LEMMA MarkerStep ==
    ASSUME QueueInv
    PROVE  /\ Append(queue, Marker) \in Seq(QueueItems)
           /\ Drained(Append(queue, Marker), ram, flash)
           /\ OnlyGoverned(Append(queue, Marker), file)
           /\ Behind(Append(queue, Marker))
<1> DEFINE ws == <<Marker>>
           n == Len(queue)
           q == Append(queue, Marker)
<1>1. queue \in Seq(QueueItems) /\ ws \in Seq(QueueItems)
  BY DEF QueueInv, QueueItems
<1>2. q = queue \o ws
  BY <1>1
<1>3. DOMAIN ws = {1} /\ ws[1] = Marker /\ Len(ws) = 1
  OBVIOUS
<1>4. Drained(queue \o ws, ram, flash)
  <2>1. \A i \in Items \ LightingItems :
             /\ \A l \in DOMAIN ws : ws[l].item = i => ws[l].val = ram[i]
             /\ (\A l \in DOMAIN ws : ws[l].item # i) => ram[i] = ram[i]
    BY <1>3, MarkerItem
  <2> HIDE DEF ws
  <2> QED
    BY <1>1, <2>1, DrainedAppend DEF QueueInv
<1>5. /\ DOMAIN q = 1 .. n + 1 /\ n \in Nat
      /\ \A k \in 1 .. n : q[k] = queue[k]
      /\ q[n + 1] = Marker /\ q \in Seq(QueueItems)
  BY <1>1
<1>6. DOMAIN queue = 1 .. n
  BY <1>1
<1> HIDE DEF q, n
<1>7. ASSUME NEW k \in DOMAIN q, q[k].item \in Undisputed
      PROVE  q[k].item \in Governed(file) /\ n + 1 > k
  <2>1. k # n + 1
    BY <1>5, <1>7, MarkerItem
  <2>2. k \in DOMAIN queue /\ q[k] = queue[k] /\ n + 1 > k
    BY <1>5, <1>6, <2>1
  <2> QED
    BY <1>7, <2>2 DEF QueueInv, OnlyGoverned
<1>8. OnlyGoverned(q, file)
  BY <1>7 DEF OnlyGoverned
<1>9. Behind(q)
  <2>1. n + 1 \in DOMAIN q
    BY <1>5
  <2> QED
    BY <1>5, <1>7, <2>1 DEF Behind
<1> QED
  BY <1>2, <1>4, <1>5, <1>8, <1>9 DEF q

\* What holds of a queue holds of the rest of it.
LEMMA TailStep ==
    ASSUME NEW q \in Seq(QueueItems), q # <<>>
    PROVE  /\ OnlyGoverned(q, file) => OnlyGoverned(Tail(q), file)
           /\ Behind(q) => Behind(Tail(q))
           /\ NoneQueued(q) => NoneQueued(Tail(q))
<1> DEFINE t == Tail(q)
<1>1. /\ \A k \in DOMAIN t : k + 1 \in DOMAIN q /\ t[k] = q[k + 1]
      /\ \A k \in DOMAIN q : k # 1 => k - 1 \in DOMAIN t /\ t[k - 1] = q[k]
      /\ DOMAIN q \subseteq Nat /\ DOMAIN t \subseteq Nat /\ 1 \in DOMAIN q
      /\ DOMAIN t = 1 .. Len(t)
  BY TailPlaces
<1> HIDE DEF t
<1>2. OnlyGoverned(q, file) => OnlyGoverned(t, file)
  BY <1>1 DEF OnlyGoverned
<1>3. NoneQueued(q) => NoneQueued(t)
  BY <1>1 DEF NoneQueued
<1>4. ASSUME Behind(q), NEW k \in DOMAIN t, t[k].item \in Undisputed
      PROVE  \E l \in DOMAIN t : l > k /\ t[l] = Marker
  <2>1. k + 1 \in DOMAIN q /\ q[k + 1].item \in Undisputed /\ k \in Nat /\ k >= 1
    BY <1>1, <1>4
  <2>2. PICK l \in DOMAIN q : l > k + 1 /\ q[l] = Marker
    BY <1>4, <2>1 DEF Behind
  <2>3. l # 1 /\ l - 1 > k
    BY <1>1, <2>1, <2>2
  <2>4. l - 1 \in DOMAIN t /\ t[l - 1] = Marker
    BY <1>1, <2>2, <2>3
  <2> QED
    BY <2>3, <2>4
<1>5. Behind(q) => Behind(t)
  BY <1>4 DEF Behind
<1> QED
  BY <1>2, <1>3, <1>5 DEF t

\* What joins the queue speaks for the queue, the rest of it as before.
LEMMA AppendStep ==
    ASSUME NEW q \in Seq(QueueItems), NEW ws \in Seq(QueueItems)
    PROVE  /\ OnlyGoverned(q, file) /\ OnlyGoverned(ws, file) => OnlyGoverned(q \o ws, file)
           /\ Behind(q) /\ NoneQueued(ws) => Behind(q \o ws)
           /\ NoneQueued(q) /\ NoneQueued(ws) => NoneQueued(q \o ws)
<1> DEFINE p == q \o ws
           n == Len(q)
           m == Len(ws)
<1>1. /\ DOMAIN p = 1 .. n + m /\ n \in Nat /\ m \in Nat
      /\ \A k \in 1 .. n : p[k] = q[k]
      /\ \A l \in 1 .. m : p[n + l] = ws[l]
      /\ \A k \in DOMAIN p : k \in 1 .. n \/ \E l \in 1 .. m : k = n + l
  BY ConcatPlaces
<1>2. DOMAIN q = 1 .. n /\ DOMAIN ws = 1 .. m
  OBVIOUS
<1> HIDE DEF p, n, m
<1>3. ASSUME OnlyGoverned(q, file), OnlyGoverned(ws, file) PROVE OnlyGoverned(p, file)
  <2> SUFFICES ASSUME NEW k \in DOMAIN p, p[k].item \in Undisputed
               PROVE  p[k].item \in Governed(file)
    BY DEF OnlyGoverned
  <2>1. CASE k \in 1 .. n
    BY <1>1, <1>2, <1>3, <2>1 DEF OnlyGoverned
  <2>2. CASE \E l \in 1 .. m : k = n + l
    <3>1. PICK l \in 1 .. m : k = n + l
      BY <2>2
    <3>2. p[k] = ws[l] /\ l \in DOMAIN ws
      BY <1>1, <1>2, <3>1
    <3> QED
      BY <1>3, <3>2 DEF OnlyGoverned
  <2> QED
    BY <1>1, <2>1, <2>2
<1>4. ASSUME NoneQueued(q), NoneQueued(ws) PROVE NoneQueued(p)
  <2> SUFFICES ASSUME NEW k \in DOMAIN p PROVE p[k].item \notin Undisputed
    BY DEF NoneQueued
  <2>1. CASE k \in 1 .. n
    BY <1>1, <1>2, <1>4, <2>1 DEF NoneQueued
  <2>2. CASE \E l \in 1 .. m : k = n + l
    <3>1. PICK l \in 1 .. m : k = n + l
      BY <2>2
    <3>2. p[k] = ws[l] /\ l \in DOMAIN ws
      BY <1>1, <1>2, <3>1
    <3> QED
      BY <1>4, <3>2 DEF NoneQueued
  <2> QED
    BY <1>1, <2>1, <2>2
<1>5. ASSUME Behind(q), NoneQueued(ws), NEW k \in DOMAIN p, p[k].item \in Undisputed
      PROVE  \E l \in DOMAIN p : l > k /\ p[l] = Marker
  <2>1. k \in DOMAIN q /\ p[k] = q[k]
    BY <1>1, <1>2, <1>5 DEF NoneQueued
  <2>2. PICK l \in DOMAIN q : l > k /\ q[l] = Marker
    BY <1>5, <2>1 DEF Behind
  <2>3. l \in DOMAIN p /\ p[l] = q[l]
    BY <1>1, <1>2
  <2> QED
    BY <2>2, <2>3
<1>6. Behind(q) /\ NoneQueued(ws) => Behind(p)
  BY <1>5 DEF Behind
<1> QED
  BY <1>3, <1>4, <1>6 DEF p

\* The other writers touch nothing that is the file's alone.
LEMMA OthersStep ==
    ASSUME QueueInv, OtherWriter
    PROVE  /\ ram' \in [Items -> Nat] /\ queue' \in Seq(QueueItems)
           /\ Drained(queue', ram', flash) /\ OnlyGoverned(queue', file)
           /\ Agree(ram', ram)
           /\ Behind(queue) => Behind(queue')
           /\ NoneQueued(queue) => NoneQueued(queue')
           /\ \/ queue' = queue
              \/ \E ws \in Seq(QueueItems) :
                    queue' = queue \o ws /\ NoneOf(ws, "key") /\ NoneOf(ws, "table")
<1>1. PICK s \in {"state", "pointing"}, v \in {1, 2} :
        Accept(Locked(IF s = "pointing" THEN s ELSE "lighting", Write(Single(s), v)))
  BY DEF OtherWriter
<1> DEFINE w == Write(Single(s), v)
           l == IF s = "pointing" THEN s ELSE "lighting"
           req == Locked(l, w)
<1>2. s \in Singles
  BY SingleNames
<1>3. w \in Writes /\ w.item = Single(s)
  BY <1>2 DEF Write, Writes, Items
<1>4. Single(s) \notin Undisputed /\ (l = "lighting" => Single(s) \in LightingItems)
  <2>1. CASE s = "pointing"
    BY <2>1 DEF Undisputed
  <2>2. CASE s = "state"
    <3>1. "state" \in ToSet(LightingParts)
      BY DEF LightingParts, ToSet
    <3> QED
      BY <2>2, <3>1 DEF LightingItems, Undisputed
  <2> QED
    BY <2>1, <2>2
<1>5. req.writes = <<w>> /\ req.revision = l
  BY DEF Locked
<1> HIDE DEF w, l, req
<1>6. req.writes \in Seq(Writes) /\ Len(req.writes) = 1 /\ req.writes[1] = w
  BY <1>3, <1>5
<1>7. Accept(req)
  BY <1>1 DEF req, l, w
<1>8. /\ \A j, k \in 1 .. Len(req.writes) : req.writes[j].item = req.writes[k].item => j = k
      /\ req.revision = "lighting" =>
             \A k \in 1 .. Len(req.writes) : req.writes[k].item \in LightingItems
  BY <1>3, <1>4, <1>5, <1>6
<1>9. ram \in [Items -> Nat] /\ queue \in Seq(QueueItems) /\ Drained(queue, ram, flash)
      /\ OnlyGoverned(queue, file)
  BY DEF QueueInv
<1>10. /\ ram' \in [Items -> Nat] /\ queue' \in Seq(QueueItems)
       /\ Drained(queue', ram', flash)
       /\ \A i \in Items : (\A k \in 1 .. Len(req.writes) : req.writes[k].item # i)
                                 => ram'[i] = ram[i]
  BY <1>6, <1>7, <1>8, <1>9, AcceptStep
<1>11. Agree(ram', ram)
  <2>1. \A i \in Undisputed : i \in Items /\ w.item # i
    BY <1>3, <1>4 DEF Undisputed
  <2> QED
    BY <1>6, <1>10, <2>1 DEF Agree
<1>12. queue' = queue \/ queue' = queue \o req.writes
  BY <1>7 DEF Accept
<1>13. req.writes \in Seq(QueueItems) /\ NoneQueued(req.writes) /\ OnlyGoverned(req.writes, file)
  <2>1. DOMAIN req.writes = {1}
    BY <1>6
  <2>2. NoneQueued(req.writes)
    BY <1>3, <1>4, <1>6, <2>1 DEF NoneQueued
  <2>3. OnlyGoverned(req.writes, file)
    BY <2>2 DEF NoneQueued, OnlyGoverned
  <2>4. req.writes \in Seq(QueueItems)
    BY <1>6 DEF QueueItems
  <2> QED
    BY <2>2, <2>3, <2>4
<1>14. /\ OnlyGoverned(queue', file)
       /\ Behind(queue) => Behind(queue')
       /\ NoneQueued(queue) => NoneQueued(queue')
  <2>1. CASE queue' = queue
    BY <1>9, <2>1
  <2>2. CASE queue' = queue \o req.writes
    BY <1>9, <1>13, <2>2, AppendStep
  <2> QED
    BY <1>12, <2>1, <2>2
<1>15. NoneOf(req.writes, "key") /\ NoneOf(req.writes, "table")
  <2>1. DOMAIN req.writes = {1} /\ Kind(Single(s)) = "rest"
    BY <1>2, <1>6, SingleWanted
  <2> QED
    BY <1>3, <1>6, <2>1 DEF NoneOf
<1> QED
  BY <1>10, <1>11, <1>12, <1>13, <1>14, <1>15

\* One request is taken: RAM has it, and flash will.
LEMMA SendStep ==
    ASSUME QueueInv, Send
    PROVE  /\ ram' \in [Items -> Nat] /\ queue' \in Seq(QueueItems)
           /\ Drained(queue', ram', flash) /\ OnlyGoverned(queue', file)
           /\ todo' \in PlanOf(file)
           /\ \A i \in Undisputed \ Governed(file) : ram'[i] = ram[i]
<1> DEFINE req == Head(todo)
<1>1. todo \in PlanOf(file) /\ todo # <<>> /\ pc = "send"
  BY DEF QueueInv, Send
<1>2. req \in FileRequests(file, Kinds) /\ Tail(todo) \in PlanOf(file)
  BY <1>1 DEF PlanOf
<1>3. Accept(req) /\ todo' = Tail(todo)
  BY DEF Send
<1> HIDE DEF req
<1>4. /\ req.writes \in Seq(Writes)
      /\ \A j, k \in 1 .. Len(req.writes) : req.writes[j].item = req.writes[k].item => j = k
      /\ \A k \in 1 .. Len(req.writes) : req.writes[k].item \in Governed(file)
      /\ req.revision = "lighting" =>
             \A k \in 1 .. Len(req.writes) : req.writes[k].item \in LightingItems
  BY <1>2 DEF FileRequests
<1>5. ram \in [Items -> Nat] /\ queue \in Seq(QueueItems) /\ Drained(queue, ram, flash)
      /\ OnlyGoverned(queue, file)
  BY DEF QueueInv
<1>6. /\ ram' \in [Items -> Nat] /\ queue' \in Seq(QueueItems)
      /\ Drained(queue', ram', flash)
      /\ \A i \in Items : (\A k \in 1 .. Len(req.writes) : req.writes[k].item # i)
                                 => ram'[i] = ram[i]
  BY <1>3, <1>4, <1>5, AcceptStep
<1>7. \A i \in Undisputed \ Governed(file) : ram'[i] = ram[i]
  BY <1>4, <1>6 DEF Undisputed
<1>8. queue' = queue \/ queue' = queue \o req.writes
  BY <1>3 DEF Accept
<1>9. OnlyGoverned(req.writes, file) /\ req.writes \in Seq(QueueItems)
  <2>1. DOMAIN req.writes = 1 .. Len(req.writes)
    BY <1>4
  <2>2. req.writes \in Seq(QueueItems)
    BY <1>4 DEF QueueItems
  <2> QED
    BY <1>4, <2>1, <2>2 DEF OnlyGoverned
<1>10. OnlyGoverned(queue', file)
  BY <1>5, <1>8, <1>9, AppendStep
<1> QED
  BY <1>2, <1>3, <1>6, <1>7, <1>10

\* The oldest item is stored.
LEMMA PersistStep ==
    ASSUME QueueInv, Persist
    PROVE  /\ flash' \in [Items -> Nat] /\ queue' \in Seq(QueueItems)
           /\ Drained(queue', ram, flash') /\ OnlyGoverned(queue', file)
           /\ \A i \in Undisputed \ Governed(file) : flash'[i] = flash[i]
           /\ Behind(queue) => Behind(queue')
           /\ NoneQueued(queue) => NoneQueued(queue')
<1> DEFINE h == Head(queue)
<1>1. queue \in Seq(QueueItems) /\ queue # <<>> /\ queue' = Tail(queue)
      /\ Drained(queue, ram, flash) /\ OnlyGoverned(queue, file) /\ flash \in [Items -> Nat]
  BY DEF QueueInv, Persist
<1>2. h \in QueueItems /\ Tail(queue) \in Seq(QueueItems) /\ 1 \in DOMAIN queue /\ queue[1] = h
  BY <1>1, TailPlaces
<1>3. flash' = IF h = Marker THEN flash ELSE [flash EXCEPT ![h.item] = h.val]
  BY DEF Persist
<1> HIDE DEF h
<1>4. h # Marker => h.item \in Items /\ h.val \in Nat
  BY <1>2 DEF QueueItems, Writes
<1>5. flash' \in [Items -> Nat]
  BY <1>1, <1>3, <1>4
<1>6. ASSUME NEW i \in Items PROVE flash'[i] = IF h.item = i THEN h.val ELSE flash[i]
  <2>1. CASE h = Marker
    BY <1>3, <2>1, MarkerItem
  <2>2. CASE h # Marker
    BY <1>1, <1>3, <1>4, <2>2
  <2> QED
    BY <2>1, <2>2
<1>7. Drained(queue', ram, flash')
  BY <1>1, <1>6, DrainedTail DEF h
<1>8. ASSUME NEW i \in Undisputed \ Governed(file) PROVE flash'[i] = flash[i]
  <2>1. h.item # i
    BY <1>1, <1>2, <1>8 DEF OnlyGoverned
  <2> QED
    BY <1>6, <2>1 DEF Undisputed
<1> QED
  BY <1>1, <1>2, <1>5, <1>7, <1>8, TailStep

\* The keyboard resets with what flash holds.
LEMMA ResetStep ==
    ASSUME QueueInv, Reset
    PROVE  /\ ram' \in [Items -> Nat] /\ queue' \in Seq(QueueItems)
           /\ Drained(queue', ram', flash) /\ OnlyGoverned(queue', file)
           /\ \A i \in Undisputed \ Governed(file) : ram'[i] = ram[i]
           /\ NoneQueued(queue')
           /\ NoneQueued(queue) => Agree(ram', ram)
<1>1. ram \in [Items -> Nat] /\ flash \in [Items -> Nat] /\ Drained(queue, ram, flash)
      /\ OnlyGoverned(queue, file)
  BY DEF QueueInv
<1>2. ram' = [i \in Items |-> IF i \in LightingItems THEN ram[i] ELSE flash[i]]
      /\ queue' = <<>>
  BY DEF Reset
<1>3. ASSUME NEW i \in Undisputed, \A k \in DOMAIN queue : queue[k].item # i
      PROVE  ram'[i] = ram[i]
  <2>1. i \in Items \ LightingItems
    BY DEF Undisputed
  <2>2. flash[i] = ram[i]
    BY <1>1, <1>3, <2>1 DEF Drained
  <2> QED
    BY <1>2, <2>1, <2>2
<1>4. \A i \in Undisputed \ Governed(file) : ram'[i] = ram[i]
  BY <1>1, <1>3 DEF OnlyGoverned
<1>5. NoneQueued(queue) => Agree(ram', ram)
  BY <1>3 DEF NoneQueued, Agree
<1>6. Drained(queue', ram', flash) /\ OnlyGoverned(queue', file) /\ NoneQueued(queue')
  BY <1>2 DEF Drained, OnlyGoverned, NoneQueued
<1> QED
  BY <1>1, <1>2, <1>4, <1>5, <1>6

\* A snapshot is read.
LEMMA ReadStep ==
    ASSUME QueueInv, NEW next, read_snapshot(next), UNCHANGED <<ram, flash, file>>
    PROVE  /\ before' \in [Items -> Nat] /\ queue' \in Seq(QueueItems)
           /\ Drained(queue', ram', flash') /\ OnlyGoverned(queue', file)
           /\ Agree(before', ram')
           /\ MetadataEndpoint => Behind(queue')
<1>1. before' = ram /\ ram' = ram /\ flash' = flash
  BY DEF read_snapshot
<1>2. Agree(before', ram')
  BY <1>1 DEF Agree
<1>3. CASE queue' = Append(queue, Marker)
  BY <1>1, <1>2, <1>3, MarkerStep DEF QueueInv
<1>4. CASE ~ MetadataEndpoint /\ queue' = queue
  BY <1>1, <1>2, <1>4 DEF QueueInv
<1> QED
  BY <1>3, <1>4 DEF read_snapshot

\* The plan is made of the file's requests.
LEMMA PlanStep ==
    ASSUME QueueInv, Check
    PROVE  todo' \in PlanOf(file)
<1>1. FileShape(file) /\ todo \in PlanOf(file)
  BY DEF QueueInv
<1>2. (firmware = "legacy") \in BOOLEAN
  OBVIOUS
<1>3. apply_snapshot(file, before, firmware = "legacy") \in PlanOf(file)
  BY <1>1, <1>2, ApplyRequestsType
<1> QED
  BY <1>1, <1>3 DEF Check

\* No step of the tool, the keyboard or anyone else breaks the account.
LEMMA QueueStep ==
    ASSUME QueueInv, [Next]_vars
    PROVE  QueueInv'
<1> USE DEF QueueInv
<1>1. CASE Run
  <2>1. read_snapshot("reading") /\ UNCHANGED <<ram, flash, file, todo>> /\ pc' = "reading"
    BY <1>1 DEF Run, read_snapshot
  <2>2. /\ before' \in [Items -> Nat] /\ queue' \in Seq(QueueItems)
        /\ Drained(queue', ram', flash') /\ OnlyGoverned(queue', file)
    BY <2>1, ReadStep
  <2> QED
    BY <2>1, <2>2
<1>2. CASE ReadBack
  <2>1. read_snapshot("verify") /\ UNCHANGED <<ram, flash, file, todo>> /\ pc' = "verify"
    BY <1>2 DEF ReadBack, read_snapshot
  <2>2. /\ before' \in [Items -> Nat] /\ queue' \in Seq(QueueItems)
        /\ Drained(queue', ram', flash') /\ OnlyGoverned(queue', file)
    BY <2>1, ReadStep
  <2> QED
    BY <2>1, <2>2
<1>3. CASE Compare
  BY <1>3 DEF Compare, device, faults
<1>4. CASE Check
  <2>1. todo' \in PlanOf(file)
    BY <1>4, PlanStep
  <2> QED
    BY <1>4, <2>1 DEF Check, device, faults
<1>5. CASE GetRevision
  BY <1>5 DEF GetRevision, device, faults
<1>6. CASE Send
  <2>1. /\ ram' \in [Items -> Nat] /\ queue' \in Seq(QueueItems)
        /\ Drained(queue', ram', flash) /\ OnlyGoverned(queue', file)
        /\ todo' \in PlanOf(file)
    BY <1>6, SendStep
  <2>2. UNCHANGED <<before, flash, file>> /\ pc' # "send"
    BY <1>6 DEF Send, AfterSend
  <2> QED
    BY <2>1, <2>2
<1>7. CASE Refused
  BY <1>7 DEF Refused, device, faults
<1>8. CASE BusyTooLong
  BY <1>8 DEF BusyTooLong, device
<1>9. CASE persist_barrier
  <2>1. queue' = Append(queue, Marker) /\ UNCHANGED <<before, todo, ram, flash, file>>
        /\ pc' = "barrier"
    BY <1>9 DEF persist_barrier
  <2> QED
    BY <2>1, MarkerStep
<1>10. CASE BarrierAnswered
  BY <1>10 DEF BarrierAnswered, device, faults
<1>11. CASE Verify
  BY <1>11 DEF Verify, device, faults
<1>12. CASE Again
  <2>1. <<>> \in PlanOf(file)
    BY DEF PlanOf
  <2> QED
    BY <1>12, <2>1 DEF Again, device, faults
<1>13. CASE Persist
  <2>1. /\ flash' \in [Items -> Nat] /\ queue' \in Seq(QueueItems)
        /\ Drained(queue', ram, flash') /\ OnlyGoverned(queue', file)
    BY <1>13, PersistStep
  <2>2. UNCHANGED <<before, todo, ram, file, pc>>
    BY <1>13 DEF Persist, host
  <2> QED
    BY <2>1, <2>2
<1>14. CASE Reset
  <2>1. /\ ram' \in [Items -> Nat] /\ queue' \in Seq(QueueItems)
        /\ Drained(queue', ram', flash) /\ OnlyGoverned(queue', file)
    BY <1>14, ResetStep
  <2>2. UNCHANGED <<before, todo, flash, file>> /\ (pc' = "send" => pc = "send")
    BY <1>14 DEF Reset
  <2> QED
    BY <2>1, <2>2
<1>15. CASE Disconnect
  BY <1>15 DEF Disconnect, device
<1>16. CASE OtherWriter
  <2>1. /\ ram' \in [Items -> Nat] /\ queue' \in Seq(QueueItems)
        /\ Drained(queue', ram', flash) /\ OnlyGoverned(queue', file)
    BY <1>16, OthersStep
  <2>2. UNCHANGED <<before, todo, flash, file, pc>>
    BY <1>16 DEF OtherWriter, host
  <2> QED
    BY <2>1, <2>2
<1>17. CASE ToggleMaintenance
  BY <1>17 DEF ToggleMaintenance, host
<1>18. CASE UNCHANGED vars
  BY <1>18 DEF vars, host, device
<1> QED
  BY <1>1, <1>2, <1>3, <1>4, <1>5, <1>6, <1>7, <1>8, <1>9, <1>10, <1>11, <1>12, <1>13,
     <1>14, <1>15, <1>16, <1>17, <1>18 DEF Next, HostStep

\* While the host compares what it read and once it has said `done`, nothing
\* the file speaks for changes under it.
LEMMA VerdictStep ==
    ASSUME QueueInv, VerdictInv, [Next]_vars, MetadataEndpoint
    PROVE  VerdictInv'
<1> USE DEF VerdictInv
<1>1. CASE Run
  <2>1. read_snapshot("reading") /\ UNCHANGED <<ram, flash, file>> /\ pc' = "reading"
    BY <1>1 DEF Run, read_snapshot
  <2> QED
    BY <2>1, ReadStep
<1>2. CASE ReadBack
  <2>1. read_snapshot("verify") /\ UNCHANGED <<ram, flash, file>> /\ pc' = "verify"
    BY <1>2 DEF ReadBack, read_snapshot
  <2> QED
    BY <2>1, ReadStep
<1>3. CASE Compare \/ Verify
  <2>1. /\ pc \in {"reading", "verify"} /\ Answered
        /\ pc' \in {"done", "check", "failed"}
        /\ pc' = "done" => differences(file, before) = {}
        /\ UNCHANGED <<before, ram, queue, file>>
    BY <1>3 DEF Compare, Verify, device
  <2>2. NoneQueued(queue)
    <3>1. \A l \in DOMAIN queue : queue[l] # Marker
      BY <2>1 DEF Answered, ToSet
    <3> QED
      BY <2>1, <3>1 DEF Behind, NoneQueued
  <2> QED
    BY <2>1, <2>2
<1>4. CASE Check \/ GetRevision \/ Send \/ persist_barrier \/ BarrierAnswered
  <2>1. pc' \notin {"reading", "verify", "done"}
    BY <1>4 DEF Check, GetRevision, Send, AfterSend, persist_barrier, BarrierAnswered
  <2> QED
    BY <2>1
<1>5. CASE Refused \/ BusyTooLong \/ Again \/ Disconnect
  <2>1. pc' \notin {"reading", "verify", "done"}
    BY <1>5 DEF Refused, BusyTooLong, Again, Disconnect
  <2> QED
    BY <2>1
<1>6. CASE Persist
  <2>1. UNCHANGED <<before, ram, file, pc>>
    BY <1>6 DEF Persist, host
  <2> QED
    BY <1>6, <2>1, PersistStep
<1>7. CASE Reset
  <2>1. UNCHANGED <<before, file>>
        /\ pc' = (IF pc \notin {"idle", "done", "failed"} THEN "failed" ELSE pc)
    BY <1>7 DEF Reset, Running
  <2>2. CASE pc = "done"
    <3>1. Agree(ram', ram) /\ NoneQueued(queue')
      BY <1>7, <2>2, ResetStep
    <3> QED
      BY <2>1, <2>2, <3>1 DEF Agree
  <2>3. CASE pc # "done"
    BY <2>1, <2>3
  <2> QED
    BY <2>2, <2>3
<1>8. CASE OtherWriter
  <2>1. UNCHANGED <<before, file, pc>>
    BY <1>8 DEF OtherWriter, host
  <2>2. /\ Agree(ram', ram)
        /\ Behind(queue) => Behind(queue')
        /\ NoneQueued(queue) => NoneQueued(queue')
    BY <1>8, OthersStep
  <2> QED
    BY <2>1, <2>2 DEF Agree
<1>9. CASE ToggleMaintenance
  BY <1>9 DEF ToggleMaintenance, host
<1>10. CASE UNCHANGED vars
  BY <1>10 DEF vars, host, device
<1> QED
  BY <1>1, <1>2, <1>3, <1>4, <1>5, <1>6, <1>7, <1>8, <1>9, <1>10 DEF Next, HostStep

\* A state in which nothing differs is what the file says.
LEMMA NothingDiffers ==
    ASSUME NEW f, FileShape(f), NEW m, differences(f, m) = {}, NEW i \in Governed(f)
    PROVE  m[i] = Wanted(f, i)
<1>1. /\ KeyDifferences(f, m) = {} /\ TableDifferences(f, m) = {}
      /\ NameDifferences(f, m) = {} /\ SingleDifferences(f, m) = {}
  BY DEF differences
<1>2. CASE \E l \in DOMAIN f.layers, c \in 1 .. NumCells : i = Key(l, c)
  <2>1. PICK l \in DOMAIN f.layers, c \in 1 .. NumCells : i = Key(l, c)
    BY <1>2
  <2>2. i[1] = "key" /\ i[2] = l /\ i[3] = c
    BY <2>1 DEF Key
  <2>3. m[i] = f.layers[l][c]
    BY <1>1, <2>1, <2>2 DEF KeyDifferences
  <2>4. i[1] \notin Tables /\ i[1] # "name" /\ i[1] \notin Singles
    BY <2>2, SingleNames DEF Tables, BulkTables
  <2> QED
    BY <2>2, <2>3, <2>4 DEF Wanted
<1>3. CASE \E t \in Claims(f), j \in 1 .. Slots : i = Slot(t, j)
  <2>1. PICK t \in Claims(f), j \in 1 .. Slots : i = Slot(t, j)
    BY <1>3
  <2>2. Wanted(f, i) = IF j \in DOMAIN f.tables[t] THEN f.tables[t][j] ELSE 0
    BY <2>1, WantedSlot
  <2>3. CASE j \in DOMAIN f.tables[t]
    <3>1. m[Slot(t, j)] = f.tables[t][j]
      BY <1>1, <2>3 DEF TableDifferences
    <3> QED
      BY <2>1, <2>2, <2>3, <3>1
  <2>4. CASE j \notin DOMAIN f.tables[t]
    <3>1. f.tables[t] \in Seq(Nat)
      BY DEF FileShape
    <3>2. Len(f.tables[t]) \in Nat /\ DOMAIN f.tables[t] = 1 .. Len(f.tables[t])
      BY <3>1
    <3> DEFINE n == Len(f.tables[t])
    <3>3. n \in Nat /\ j \notin 1 .. n
      BY <2>4, <3>2
    <3> HIDE DEF n
    <3>4. j \in n + 1 .. Slots
      BY <3>3, PlanAssumption
    <3>5. report_surplus(f, m, t) = {}
      BY <1>1 DEF TableDifferences
    <3>6. m[Slot(t, j)] = 0
      BY <3>4, <3>5 DEF report_surplus, n
    <3> QED
      BY <2>1, <2>2, <2>4, <3>6
  <2> QED
    BY <2>3, <2>4
<1>4. CASE \E l \in DOMAIN f.names : i = Name(l)
  <2>1. PICK l \in DOMAIN f.names : i = Name(l)
    BY <1>4
  <2>2. i[1] = "name" /\ i[2] = l
    BY <2>1 DEF Name
  <2>3. m[i] = f.names[l]
    BY <1>1, <2>1 DEF NameDifferences
  <2>4. i[1] \notin Tables /\ i[1] # "key" /\ i[1] \notin Singles
    BY <2>2, SingleNames DEF Tables, BulkTables
  <2> QED
    BY <2>2, <2>3, <2>4 DEF Wanted
<1>5. CASE \E s \in DOMAIN f.singles : i = Single(s)
  <2>1. PICK s \in DOMAIN f.singles : i = Single(s)
    BY <1>5
  <2>2. i[1] = s /\ s \in Singles
    BY <2>1 DEF Single, FileShape
  <2>3. m[i] = f.singles[s]
    BY <1>1, <2>1 DEF SingleDifferences
  <2>4. i[1] \notin Tables /\ i[1] # "key" /\ i[1] # "name"
    BY <2>2, SingleNames DEF Tables, BulkTables
  <2> QED
    BY <2>2, <2>3, <2>4 DEF Wanted
<1> QED
  BY <1>2, <1>3, <1>4, <1>5 DEF Governed

(***************************************************************************)
(* "applied and verified" is said of a keyboard that has it in flash, for  *)
(* every file, keyboard, queue depth and page size, however often the      *)
(* keyboard resets, the connection is lost and the file is applied again.  *)
(* The firmware has to serve the layer metadata: without that read nothing *)
(* tells the host that the queue has been written out.                     *)
(***************************************************************************)
THEOREM AppliedStaysDurable ==
    ASSUME MetadataEndpoint PROVE Spec => []AppliedIsDurable
<1>1. Init => QueueInv /\ VerdictInv
  BY QueueInit
<1>2. QueueInv /\ VerdictInv /\ [Next]_vars => QueueInv' /\ VerdictInv'
  BY QueueStep, VerdictStep
<1>3. QueueInv /\ VerdictInv => AppliedIsDurable
  <2> SUFFICES ASSUME QueueInv, VerdictInv, pc = "done",
                      NEW i \in Governed(file) \cap Undisputed
               PROVE  flash[i] = Wanted(file, i) /\ ram[i] = Wanted(file, i)
    BY DEF AppliedIsDurable
  <2>1. before[i] = Wanted(file, i)
    BY NothingDiffers DEF QueueInv, VerdictInv
  <2>2. ram[i] = before[i]
    BY DEF VerdictInv, Agree
  <2>3. i \in Items \ LightingItems
    BY DEF Undisputed
  <2>4. \A k \in DOMAIN queue : queue[k].item # i
    BY DEF VerdictInv, NoneQueued
  <2>5. flash[i] = ram[i]
    BY <2>3, <2>4 DEF QueueInv, Drained
  <2> QED
    BY <2>1, <2>2, <2>5
<1> QED
  BY <1>1, <1>2, <1>3, PTL DEF Spec

(***************************************************************************)
(* What the file does not speak for is never written, in RAM or in flash,  *)
(* by any file on any keyboard, whatever fails on the way.                 *)
(***************************************************************************)
THEOREM UnlistedStaysAlone == Spec => UnlistedIsLeftAlone
<1> DEFINE Alone == \A i \in Undisputed \ Governed(file) :
                        ram'[i] = ram[i] /\ flash'[i] = flash[i]
<1>1. Init => QueueInv
  BY QueueInit
<1>2. QueueInv /\ [Next]_vars => QueueInv'
  BY QueueStep
<1>3. QueueInv /\ [Next]_vars => [Alone]_vars
  <2> SUFFICES ASSUME QueueInv, Next PROVE Alone
    OBVIOUS
  <2>1. CASE Send
    <3>1. flash' = flash
      BY <2>1 DEF Send
    <3> QED
      BY <2>1, <3>1, SendStep
  <2>2. CASE Persist
    <3>1. ram' = ram
      BY <2>2 DEF Persist
    <3> QED
      BY <2>2, <3>1, PersistStep
  <2>3. CASE Reset
    <3>1. flash' = flash
      BY <2>3 DEF Reset
    <3> QED
      BY <2>3, <3>1, ResetStep
  <2>4. CASE OtherWriter
    <3>1. flash' = flash
      BY <2>4 DEF OtherWriter
    <3> QED
      BY <2>4, <3>1, OthersStep DEF Agree
  <2>5. CASE \/ Run \/ Compare \/ Check \/ GetRevision \/ Refused \/ BusyTooLong
             \/ persist_barrier \/ BarrierAnswered \/ ReadBack \/ Verify \/ Again
             \/ Disconnect \/ ToggleMaintenance
    <3>1. UNCHANGED <<ram, flash>>
      BY <2>5 DEF Run, Compare, Check, GetRevision, Refused, BusyTooLong, persist_barrier,
                  BarrierAnswered, ReadBack, Verify, Again, Disconnect, ToggleMaintenance,
                  device
    <3> QED
      BY <3>1
  <2> QED
    BY <2>1, <2>2, <2>3, <2>4, <2>5 DEF Next, HostStep
<1> QED
  BY <1>1, <1>2, <1>3, PTL DEF Spec, UnlistedIsLeftAlone

-----------------------------------------------------------------------------
(* ConfigApply: keys never lead tables.                                    *)

\* A key the apply changes is in RAM, in the queue or in flash only once no
\* request for a table is left, and in flash only once no table is queued; a
\* slot of the morse table is as the file says or still asked for.
OrderInv ==
    /\ pc = "check" => Agree(before, ram) /\ NoneQueued(queue)
    /\ pc \in {"revision", "send", "asking", "barrier"} =>
         /\ TablesFirst(todo) /\ KeysLast(queue)
         /\ ~ NoneOf(queue, "key") => NoWrites(todo, "table")
         /\ \A i \in KeyDifferences(file, before) :
              /\ ram[i] # before[i] => NoWrites(todo, "table")
              /\ flash[i] # before[i] => NoWrites(todo, "table") /\ NoneOf(queue, "table")
         /\ "morse" \in Claims(file) =>
              \A j \in 1 .. Slots : \/ ram[Slot("morse", j)] = Wanted(file, Slot("morse", j))
                                    \/ Asks(todo, Slot("morse", j))

\* A key cell that differs from the file.
LEMMA DifferingKeys ==
    ASSUME NEW f, FileShape(f), NEW m, NEW i \in KeyDifferences(f, m)
    PROVE  i \in Undisputed /\ i \in Items /\ Kind(i) = "key" /\ m[i] # Wanted(f, i)
<1>1. PICK l \in DOMAIN f.layers, c \in 1 .. NumCells : i = Key(l, c)
  BY DEF KeyDifferences
<1>2. i \in Governed(f)
  BY <1>1 DEF Governed
<1>3. Wanted(f, i) = f.layers[l][c] /\ Kind(i) = "key"
  BY <1>1, KeyWanted
<1>4. m[i] # Wanted(f, i)
  <2>1. i[2] = l /\ i[3] = c
    BY <1>1 DEF Key
  <2> QED
    BY <1>3, <2>1 DEF KeyDifferences
<1>5. i \in Items
  BY <1>2, GovernedItems
<1>6. i \in Undisputed
  <2>1. \A s \in Singles : i # Single(s)
    BY <1>3, SingleWanted
  <2>2. ToSet(LightingParts) \subseteq Singles /\ "pointing" \in Singles
    BY DEF Singles
  <2> QED
    BY <1>5, <2>1, <2>2 DEF Undisputed, LightingItems
<1> QED
  BY <1>3, <1>4, <1>5, <1>6

\* A slot of the morse table.
LEMMA MorseSlot ==
    ASSUME NEW j \in 1 .. Slots
    PROVE  Slot("morse", j) \in Undisputed /\ Kind(Slot("morse", j)) = "table"
<1> DEFINE i == Slot("morse", j)
<1>1. i[1] = "morse"
  BY DEF Slot
<1>2. "morse" \in Tables
  BY DEF Tables, BulkTables
<1>3. i \in Items
  BY <1>2 DEF Items
<1> HIDE DEF i
<1>4. Kind(i) = "table"
  BY <1>1, <1>2 DEF Kind
<1>5. \A s \in Singles : i # Single(s)
  BY <1>4, SingleWanted
<1>6. ToSet(LightingParts) \subseteq Singles /\ "pointing" \in Singles
  BY DEF Singles
<1>7. i \in Undisputed
  BY <1>3, <1>5, <1>6 DEF Undisputed, LightingItems
<1> QED
  BY <1>4, <1>7 DEF i

\* Kinds in a queue that grows.
LEMMA KindsAppend ==
    ASSUME NEW q \in Seq(QueueItems), NEW ws \in Seq(QueueItems)
    PROVE  /\ \A kind : NoneOf(q \o ws, kind) <=> NoneOf(q, kind) /\ NoneOf(ws, kind)
           /\ KeysLast(q) /\ KeysLast(ws) /\ (NoneOf(q, "key") \/ NoneOf(ws, "table"))
                => KeysLast(q \o ws)
<1> DEFINE p == q \o ws
           n == Len(q)
           m == Len(ws)
<1>1. /\ DOMAIN p = 1 .. n + m /\ n \in Nat /\ m \in Nat
      /\ \A k \in 1 .. n : p[k] = q[k]
      /\ \A l \in 1 .. m : p[n + l] = ws[l]
      /\ \A k \in DOMAIN p : k \in 1 .. n \/ \E l \in 1 .. m : k = n + l
  BY ConcatPlaces
<1>2. DOMAIN q = 1 .. n /\ DOMAIN ws = 1 .. m
  OBVIOUS
<1> HIDE DEF p, n, m
<1>3. \A k \in 1 .. n : k \in DOMAIN p
  BY <1>1
<1>4. \A l \in 1 .. m : n + l \in DOMAIN p
  BY <1>1
<1>5. ASSUME NEW kind, NoneOf(p, kind) PROVE NoneOf(q, kind) /\ NoneOf(ws, kind)
  <2>1. NoneOf(q, kind)
    BY <1>1, <1>2, <1>3, <1>5 DEF NoneOf
  <2>2. ASSUME NEW l \in DOMAIN ws PROVE Kind(ws[l].item) # kind
    <3>1. n + l \in DOMAIN p /\ p[n + l] = ws[l]
      BY <1>1, <1>2, <1>4
    <3> DEFINE k == n + l
    <3> HIDE DEF k
    <3>2. k \in DOMAIN p /\ p[k] = ws[l]
      BY <3>1 DEF k
    <3> QED
      BY <1>5, <3>2 DEF NoneOf
  <2> QED
    BY <2>1, <2>2 DEF NoneOf
<1>6. ASSUME NEW kind, NoneOf(q, kind), NoneOf(ws, kind) PROVE NoneOf(p, kind)
  <2> SUFFICES ASSUME NEW k \in DOMAIN p PROVE Kind(p[k].item) # kind
    BY DEF NoneOf
  <2>1. CASE k \in 1 .. n
    BY <1>1, <1>2, <1>6, <2>1 DEF NoneOf
  <2>2. CASE \E l \in 1 .. m : k = n + l
    <3>1. PICK l \in 1 .. m : k = n + l
      BY <2>2
    <3>2. p[k] = ws[l] /\ l \in DOMAIN ws
      BY <1>1, <1>2, <3>1
    <3> QED
      BY <1>6, <3>2 DEF NoneOf
  <2> QED
    BY <1>1, <2>1, <2>2
<1>7. ASSUME KeysLast(q), KeysLast(ws), NoneOf(q, "key") \/ NoneOf(ws, "table")
      PROVE  KeysLast(p)
  <2> SUFFICES ASSUME NEW k \in DOMAIN p, NEW l \in DOMAIN p, k < l, Kind(p[k].item) = "key"
               PROVE  Kind(p[l].item) # "table"
    BY DEF KeysLast
  <2>1. CASE k \in 1 .. n /\ l \in 1 .. n
    <3>1. p[k] = q[k] /\ p[l] = q[l] /\ k \in DOMAIN q /\ l \in DOMAIN q
      BY <1>1, <1>2, <2>1
    <3> QED
      BY <1>7, <3>1 DEF KeysLast
  <2>2. CASE k \in 1 .. n /\ \E h \in 1 .. m : l = n + h
    <3>1. PICK h \in 1 .. m : l = n + h
      BY <2>2
    <3>2. p[k] = q[k] /\ p[l] = ws[h] /\ k \in DOMAIN q /\ h \in DOMAIN ws
      BY <1>1, <1>2, <2>2, <3>1
    <3>3. ~ NoneOf(q, "key")
      BY <3>2 DEF NoneOf
    <3> QED
      BY <1>7, <3>2, <3>3 DEF NoneOf
  <2>3. CASE (\E g \in 1 .. m : k = n + g) /\ (\E h \in 1 .. m : l = n + h)
    <3>1. PICK g \in 1 .. m, h \in 1 .. m : k = n + g /\ l = n + h
      BY <2>3
    <3>2. p[k] = ws[g] /\ p[l] = ws[h] /\ g \in DOMAIN ws /\ h \in DOMAIN ws /\ g < h
      BY <1>1, <1>2, <3>1
    <3> QED
      BY <1>7, <3>2 DEF KeysLast
  <2>4. ~ ((\E g \in 1 .. m : k = n + g) /\ l \in 1 .. n)
    BY <1>1
  <2> QED
    BY <1>1, <2>1, <2>2, <2>3, <2>4
<1> QED
  BY <1>5, <1>6, <1>7 DEF p

\* Kinds in a queue whose oldest item is stored.
LEMMA KindsTail ==
    ASSUME NEW q \in Seq(QueueItems), q # <<>>
    PROVE  /\ \A kind : NoneOf(q, kind) => NoneOf(Tail(q), kind)
           /\ KeysLast(q) => KeysLast(Tail(q))
           /\ KeysLast(q) /\ Kind(Head(q).item) = "key" => NoneOf(Tail(q), "table")
<1> DEFINE t == Tail(q)
<1>1. /\ \A k \in DOMAIN t : k + 1 \in DOMAIN q /\ t[k] = q[k + 1]
      /\ DOMAIN q \subseteq Nat /\ DOMAIN t \subseteq Nat /\ 1 \in DOMAIN q /\ Head(q) = q[1]
      /\ DOMAIN t = 1 .. Len(t)
  BY TailPlaces
<1> HIDE DEF t
<1>2. \A k \in DOMAIN t : 1 < k + 1
  BY <1>1
<1>3. \A kind : NoneOf(q, kind) => NoneOf(t, kind)
  BY <1>1 DEF NoneOf
<1>4. ASSUME KeysLast(q) PROVE KeysLast(t)
  <2> SUFFICES ASSUME NEW k \in DOMAIN t, NEW l \in DOMAIN t, k < l, Kind(t[k].item) = "key"
               PROVE  Kind(t[l].item) # "table"
    BY DEF KeysLast
  <2>1. k + 1 \in DOMAIN q /\ l + 1 \in DOMAIN q /\ t[k] = q[k + 1] /\ t[l] = q[l + 1]
        /\ k + 1 < l + 1
    BY <1>1
  <2> QED
    BY <1>4, <2>1 DEF KeysLast
<1>5. ASSUME KeysLast(q), Kind(Head(q).item) = "key" PROVE NoneOf(t, "table")
  BY <1>1, <1>2, <1>5 DEF KeysLast, NoneOf
<1> QED
  BY <1>3, <1>4, <1>5 DEF t

\* What is left of a plan when its first request is sent.
LEMMA PlanTail ==
    ASSUME NEW f, NEW s \in PlanOf(f), s # <<>>, NEW r, r = Head(s)
    PROVE  /\ \A kind : NoWrites(s, kind) => NoWrites(Tail(s), kind) /\ NoneOf(r.writes, kind)
           /\ TablesFirst(s) => TablesFirst(Tail(s))
           /\ TablesFirst(s) /\ ~ NoneOf(r.writes, "key") => NoWrites(Tail(s), "table")
           /\ \A i : Asks(s, i) => \/ Asks(Tail(s), i)
                                   \/ \E n \in 1 .. Len(r.writes) : r.writes[n].item = i
           /\ KeysLast(r.writes) /\ (NoneOf(r.writes, "key") \/ NoneOf(r.writes, "table"))
<1> DEFINE t == Tail(s)
           R == FileRequests(f, Kinds)
<1>1. s \in Seq(R)
  BY DEF PlanOf
<1>2. r \in R
  BY <1>1
<1>3. /\ r.writes \in Seq(Writes)
      /\ \A j, k \in 1 .. Len(r.writes) : Kind(r.writes[j].item) = Kind(r.writes[k].item)
  BY <1>2 DEF FileRequests
<1>4. DOMAIN r.writes = 1 .. Len(r.writes)
  BY <1>3
<1> HIDE DEF R
<1>5. /\ \A k \in DOMAIN t : k + 1 \in DOMAIN s /\ t[k] = s[k + 1]
      /\ \A k \in DOMAIN s : k # 1 => k - 1 \in DOMAIN t /\ t[k - 1] = s[k]
      /\ DOMAIN s \subseteq Nat /\ DOMAIN t \subseteq Nat /\ 1 \in DOMAIN s /\ r = s[1]
      /\ DOMAIN t = 1 .. Len(t)
  BY <1>1, TailPlaces
<1> HIDE DEF t
<1>6. \A k \in DOMAIN t : 1 < k + 1
  BY <1>5
<1>7. ASSUME NEW kind, NoWrites(s, kind) PROVE NoWrites(t, kind) /\ NoneOf(r.writes, kind)
  <2>1. \A n \in 1 .. Len(s[1].writes) : Kind(s[1].writes[n].item) # kind
    BY <1>5, <1>7 DEF NoWrites
  <2>2. NoneOf(r.writes, kind)
    BY <1>4, <1>5, <2>1 DEF NoneOf
  <2>3. ASSUME NEW k \in DOMAIN t, NEW n \in 1 .. Len(t[k].writes)
        PROVE  Kind(t[k].writes[n].item) # kind
    <3>1. k + 1 \in DOMAIN s /\ t[k] = s[k + 1]
      BY <1>5
    <3> QED
      BY <1>7, <3>1 DEF NoWrites
  <2> QED
    BY <2>2, <2>3 DEF NoWrites
<1>8. ASSUME TablesFirst(s) PROVE TablesFirst(t)
  <2> SUFFICES ASSUME NEW k \in DOMAIN t, NEW l \in DOMAIN t, k < l,
                      NEW j \in 1 .. Len(t[k].writes), Kind(t[k].writes[j].item) = "key",
                      NEW i \in 1 .. Len(t[l].writes)
               PROVE  Kind(t[l].writes[i].item) # "table"
    BY DEF TablesFirst
  <2>1. k + 1 \in DOMAIN s /\ l + 1 \in DOMAIN s /\ t[k] = s[k + 1] /\ t[l] = s[l + 1]
        /\ k + 1 < l + 1
    BY <1>5
  <2> QED
    BY <1>8, <2>1 DEF TablesFirst
<1>9. ASSUME TablesFirst(s), ~ NoneOf(r.writes, "key") PROVE NoWrites(t, "table")
  <2>1. \E n \in 1 .. Len(s[1].writes) : Kind(s[1].writes[n].item) = "key"
    BY <1>4, <1>5, <1>9 DEF NoneOf
  <2>2. ASSUME NEW k \in DOMAIN t, NEW n \in 1 .. Len(t[k].writes)
        PROVE  Kind(t[k].writes[n].item) # "table"
    <3>1. k + 1 \in DOMAIN s /\ t[k] = s[k + 1] /\ 1 < k + 1 /\ 1 \in DOMAIN s
      BY <1>5, <1>6
    <3> QED
      BY <1>9, <2>1, <3>1 DEF TablesFirst
  <2> QED
    BY <2>2 DEF NoWrites
<1>10. ASSUME NEW i, Asks(s, i)
       PROVE  Asks(t, i) \/ \E n \in 1 .. Len(r.writes) : r.writes[n].item = i
  <2>1. PICK k \in DOMAIN s : \E n \in 1 .. Len(s[k].writes) : s[k].writes[n].item = i
    BY <1>10 DEF Asks
  <2>2. CASE k = 1
    BY <1>5, <2>1, <2>2
  <2>3. CASE k # 1
    <3>1. k - 1 \in DOMAIN t /\ t[k - 1] = s[k]
      BY <1>5, <2>3
    <3> QED
      BY <2>1, <3>1 DEF Asks
  <2> QED
    BY <2>2, <2>3
<1>11. KeysLast(r.writes) /\ (NoneOf(r.writes, "key") \/ NoneOf(r.writes, "table"))
  BY <1>3, <1>4 DEF KeysLast, NoneOf
<1> QED
  BY <1>7, <1>8, <1>9, <1>10, <1>11 DEF t

\* The metadata read is neither a key nor a table slot.
LEMMA MarkerKind == Kind(Marker.item) = "rest"
<1>1. Marker.item[1] = "marker"
  BY DEF Marker, Write
<1> QED
  BY <1>1 DEF Kind, Tables, BulkTables

\* A request is sent: the tables it leaves to send, and the keys it begins.
LEMMA SendOrder ==
    ASSUME QueueInv, OrderInv, Send
    PROVE  OrderInv'
<1> DEFINE r == Head(todo)
           ws == Head(todo).writes
           rest == Tail(todo)
<1>1. /\ todo \in PlanOf(file) /\ todo # <<>> /\ pc = "send" /\ FileShape(file)
      /\ queue \in Seq(QueueItems)
  BY DEF QueueInv, Send
<1>2. r \in FileRequests(file, Kinds)
  BY <1>1 DEF PlanOf
<1>3. /\ Accept(r) /\ todo' = rest /\ UNCHANGED <<before, flash, file>>
      /\ pc' \in {"asking", "revision"}
  BY DEF Send, AfterSend
<1>4. /\ \A kind : NoWrites(todo, kind) => NoWrites(rest, kind) /\ NoneOf(ws, kind)
      /\ TablesFirst(todo) => TablesFirst(rest)
      /\ TablesFirst(todo) /\ ~ NoneOf(ws, "key") => NoWrites(rest, "table")
      /\ \A i : Asks(todo, i) => Asks(rest, i) \/ \E n \in 1 .. Len(ws) : ws[n].item = i
      /\ KeysLast(ws) /\ (NoneOf(ws, "key") \/ NoneOf(ws, "table"))
  BY <1>1, PlanTail
<1>5. /\ TablesFirst(todo) /\ KeysLast(queue)
      /\ ~ NoneOf(queue, "key") => NoWrites(todo, "table")
      /\ \A i \in KeyDifferences(file, before) :
              /\ ram[i] # before[i] => NoWrites(todo, "table")
              /\ flash[i] # before[i] => NoWrites(todo, "table") /\ NoneOf(queue, "table")
      /\ "morse" \in Claims(file) =>
              \A j \in 1 .. Slots : \/ ram[Slot("morse", j)] = Wanted(file, Slot("morse", j))
                                    \/ Asks(todo, Slot("morse", j))
  BY <1>1 DEF OrderInv
<1>6. /\ ws \in Seq(Writes)
      /\ \A j, k \in 1 .. Len(ws) : ws[j].item = ws[k].item => j = k
      /\ \A k \in 1 .. Len(ws) : ws[k].val = Wanted(file, ws[k].item)
      /\ r.revision = "lighting" => \A k \in 1 .. Len(ws) : ws[k].item \in LightingItems
  BY <1>2 DEF FileRequests
<1>7. /\ \A i \in Items : (\A k \in 1 .. Len(ws) : ws[k].item # i) => ram'[i] = ram[i]
      /\ \A k \in 1 .. Len(ws) : ram'[ws[k].item] = ws[k].val
  <2>1. ram \in [Items -> Nat] /\ Drained(queue, ram, flash)
    BY DEF QueueInv
  <2> HIDE DEF r
  <2> QED
    BY <1>1, <1>3, <1>6, <2>1, AcceptStep DEF r
<1>8. queue' = queue \/ queue' = queue \o ws
  BY <1>3 DEF Accept
<1>9. DOMAIN ws = 1 .. Len(ws) /\ ws \in Seq(QueueItems)
  BY <1>6 DEF QueueItems
<1> HIDE DEF r, ws, rest
<1>10. TablesFirst(rest)
  BY <1>4, <1>5
<1>17. /\ \A kind : NoneOf(queue, kind) /\ NoneOf(ws, kind) => NoneOf(queue', kind)
       /\ KeysLast(queue) /\ KeysLast(ws) /\ (NoneOf(queue, "key") \/ NoneOf(ws, "table"))
              => KeysLast(queue')
  <2>1. CASE queue' = queue
    BY <2>1
  <2>2. CASE queue' = queue \o ws
    <3>1. /\ \A kind : NoneOf(queue \o ws, kind) <=> NoneOf(queue, kind) /\ NoneOf(ws, kind)
          /\ KeysLast(queue) /\ KeysLast(ws) /\ (NoneOf(queue, "key") \/ NoneOf(ws, "table"))
                => KeysLast(queue \o ws)
      BY <1>1, <1>9, KindsAppend
    <3> QED
      BY <2>2, <3>1
  <2> QED
    BY <1>8, <2>1, <2>2
<1>11. KeysLast(queue')
  <2>1. NoneOf(queue, "key") \/ NoneOf(ws, "table")
    BY <1>4, <1>5
  <2> QED
    BY <1>4, <1>5, <1>17, <2>1
<1>12. ASSUME ~ NoneOf(queue', "key") PROVE NoWrites(rest, "table")
  <2>1. ~ NoneOf(queue, "key") \/ ~ NoneOf(ws, "key")
    BY <1>12, <1>17
  <2> QED
    BY <1>4, <1>5, <2>1
<1>13. ASSUME NEW i \in KeyDifferences(file, before)
       PROVE  /\ ram'[i] # before[i] => NoWrites(rest, "table")
              /\ flash[i] # before[i] => NoWrites(rest, "table") /\ NoneOf(queue', "table")
  <2>1. i \in Items /\ Kind(i) = "key"
    BY <1>1, DifferingKeys
  <2>2. ASSUME flash[i] # before[i] PROVE NoWrites(rest, "table") /\ NoneOf(queue', "table")
    <3>1. NoWrites(todo, "table") /\ NoneOf(queue, "table")
      BY <1>5, <2>2
    <3>2. NoWrites(rest, "table") /\ NoneOf(ws, "table")
      BY <1>4, <3>1
    <3> QED
      BY <1>17, <3>1, <3>2
  <2>3. ASSUME ram'[i] # before[i] PROVE NoWrites(rest, "table")
    <3>1. CASE \E k \in 1 .. Len(ws) : ws[k].item = i
      <4>1. ~ NoneOf(ws, "key")
        BY <1>9, <2>1, <3>1 DEF NoneOf
      <4> QED
        BY <1>4, <1>5, <4>1
    <3>2. CASE \A k \in 1 .. Len(ws) : ws[k].item # i
      <4>1. ram'[i] = ram[i]
        BY <1>7, <2>1, <3>2
      <4> QED
        BY <1>4, <1>5, <2>3, <4>1
    <3> QED
      BY <3>1, <3>2
  <2> QED
    BY <2>2, <2>3
<1>14. ASSUME "morse" \in Claims(file), NEW j \in 1 .. Slots
       PROVE  \/ ram'[Slot("morse", j)] = Wanted(file, Slot("morse", j))
              \/ Asks(rest, Slot("morse", j))
  <2> DEFINE i == Slot("morse", j)
  <2>1. i \in Items
    BY MorseSlot DEF Undisputed
  <2>2. ram[i] = Wanted(file, i) \/ Asks(todo, i)
    BY <1>5, <1>14
  <2> HIDE DEF i
  <2>3. CASE \E k \in 1 .. Len(ws) : ws[k].item = i
    BY <1>6, <1>7, <2>3 DEF i
  <2>4. CASE \A k \in 1 .. Len(ws) : ws[k].item # i
    BY <1>4, <1>7, <2>1, <2>2, <2>4 DEF i
  <2> QED
    BY <2>3, <2>4
<1> QED
  BY <1>3, <1>10, <1>11, <1>12, <1>13, <1>14 DEF OrderInv

\* The oldest item is stored: after a key no table follows.
LEMMA PersistOrder ==
    ASSUME QueueInv, OrderInv, Persist
    PROVE  OrderInv'
<1> DEFINE h == Head(queue)
           t == Tail(queue)
<1>1. /\ queue \in Seq(QueueItems) /\ queue # <<>> /\ queue' = t /\ FileShape(file)
      /\ UNCHANGED <<pc, before, todo, ram, file>> /\ flash \in [Items -> Nat]
  BY DEF QueueInv, Persist, host
<1>2. h \in QueueItems /\ 1 \in DOMAIN queue /\ queue[1] = h
  BY <1>1, TailPlaces
<1>3. flash' = IF h = Marker THEN flash ELSE [flash EXCEPT ![h.item] = h.val]
  BY DEF Persist
<1>4. /\ \A kind : NoneOf(queue, kind) => NoneOf(t, kind)
      /\ KeysLast(queue) => KeysLast(t)
      /\ KeysLast(queue) /\ Kind(h.item) = "key" => NoneOf(t, "table")
  BY <1>1, KindsTail
<1> HIDE DEF h, t
<1>5. ASSUME NEW i \in Items, flash'[i] # flash[i] PROVE h.item = i
  BY <1>1, <1>3, <1>5
<1>6. CASE pc = "check"
  <2>1. Agree(before, ram) /\ NoneQueued(queue')
    BY <1>1, <1>6, TailStep DEF OrderInv, t
  <2> QED
    BY <1>1, <1>6, <2>1 DEF OrderInv
<1>7. CASE pc \in {"revision", "send", "asking", "barrier"}
  <2>1. /\ TablesFirst(todo) /\ KeysLast(queue)
        /\ ~ NoneOf(queue, "key") => NoWrites(todo, "table")
        /\ \A i \in KeyDifferences(file, before) :
              /\ ram[i] # before[i] => NoWrites(todo, "table")
              /\ flash[i] # before[i] => NoWrites(todo, "table") /\ NoneOf(queue, "table")
        /\ "morse" \in Claims(file) =>
              \A j \in 1 .. Slots : \/ ram[Slot("morse", j)] = Wanted(file, Slot("morse", j))
                                    \/ Asks(todo, Slot("morse", j))
    BY <1>7 DEF OrderInv
  <2>2. KeysLast(queue') /\ (~ NoneOf(queue', "key") => NoWrites(todo, "table"))
    BY <1>1, <1>4, <2>1
  <2>3. ASSUME NEW i \in KeyDifferences(file, before), flash'[i] # before[i]
        PROVE  NoWrites(todo, "table") /\ NoneOf(queue', "table")
    <3>1. i \in Items /\ Kind(i) = "key"
      BY <1>1, DifferingKeys
    <3>2. CASE flash[i] # before[i]
      BY <1>1, <1>4, <2>1, <3>2
    <3>3. CASE flash[i] = before[i]
      <4>1. Kind(h.item) = "key"
        BY <1>5, <2>3, <3>1, <3>3
      <4>2. ~ NoneOf(queue, "key")
        BY <1>2, <4>1 DEF NoneOf
      <4> QED
        BY <1>1, <1>4, <2>1, <4>1, <4>2
    <3> QED
      BY <3>2, <3>3
  <2> QED
    BY <1>1, <1>7, <2>1, <2>2, <2>3 DEF OrderInv
<1>8. CASE pc \notin {"check", "revision", "send", "asking", "barrier"}
  BY <1>1, <1>8 DEF OrderInv
<1> QED
  BY <1>6, <1>7, <1>8

\* The plan is made: nothing is sent yet, and nothing is queued.
LEMMA CheckOrder ==
    ASSUME QueueInv, OrderInv, Check
    PROVE  OrderInv'
<1>1. /\ pc = "check" /\ UNCHANGED <<before, ram, flash, queue, file>>
      /\ pc' \in {"revision", "failed"} /\ FileShape(file)
      /\ Agree(before, ram) /\ NoneQueued(queue) /\ Drained(queue, ram, flash)
  BY DEF QueueInv, OrderInv, Check, device
<1>2. CASE pc' = "revision"
  <2>1. todo' = apply_snapshot(file, before, firmware = "legacy")
    BY <1>1, <1>2 DEF Check
  <2>2. (firmware = "legacy") \in BOOLEAN
    OBVIOUS
  <2>3. /\ TablesFirst(todo')
        /\ "morse" \in Claims(file) =>
                \A j \in 1 .. Slots :
                    \/ before[Slot("morse", j)] = Wanted(file, Slot("morse", j))
                    \/ Asks(todo', Slot("morse", j))
    BY <1>1, <2>1, <2>2, ApplyRequestsType
  <2>4. NoneOf(queue, "key") /\ KeysLast(queue)
    <3>1. ASSUME NEW k \in DOMAIN queue PROVE Kind(queue[k].item) # "key"
      <4>1. queue[k].item \notin Undisputed /\ queue[k] \in QueueItems
        BY <1>1 DEF NoneQueued, QueueInv
      <4>2. CASE queue[k] = Marker
        BY <4>2, MarkerKind
      <4>3. CASE queue[k] # Marker
        <5>1. queue[k].item \in Items \ Undisputed
          BY <4>1, <4>3 DEF QueueItems, Writes
        <5>2. \E s \in Singles : queue[k].item = Single(s)
          <6>1. ToSet(LightingParts) \subseteq Singles /\ "pointing" \in Singles
            BY DEF Singles
          <6> QED
            BY <5>1, <6>1 DEF Undisputed, LightingItems
        <5> QED
          BY <5>2, SingleWanted
      <4> QED
        BY <4>2, <4>3
    <3> QED
      BY <3>1 DEF NoneOf, KeysLast
  <2>5. ASSUME NEW i \in KeyDifferences(file, before)
        PROVE  ram[i] = before[i] /\ flash[i] = before[i]
    <3>1. i \in Undisputed
      BY <1>1, DifferingKeys
    <3>2. i \in Items \ LightingItems /\ \A k \in DOMAIN queue : queue[k].item # i
      BY <1>1, <3>1 DEF NoneQueued, Undisputed
    <3> QED
      BY <1>1, <3>1, <3>2 DEF Drained, Agree
  <2>6. \A j \in 1 .. Slots : ram[Slot("morse", j)] = before[Slot("morse", j)]
    BY <1>1, MorseSlot DEF Agree
  <2> QED
    BY <1>1, <1>2, <2>3, <2>4, <2>5, <2>6 DEF OrderInv
<1>3. CASE pc' = "failed"
  BY <1>3 DEF OrderInv
<1> QED
  BY <1>1, <1>2, <1>3

\* The other writers queue neither keys nor tables.
LEMMA OthersOrder ==
    ASSUME QueueInv, OrderInv, OtherWriter
    PROVE  OrderInv'
<1>1. UNCHANGED <<pc, before, todo, flash, file>> /\ queue \in Seq(QueueItems) /\ FileShape(file)
  BY DEF OtherWriter, host, QueueInv
<1>2. /\ Agree(ram', ram)
      /\ NoneQueued(queue) => NoneQueued(queue')
      /\ \/ queue' = queue
         \/ \E ws \in Seq(QueueItems) :
               queue' = queue \o ws /\ NoneOf(ws, "key") /\ NoneOf(ws, "table")
  BY OthersStep
<1>3. /\ \A kind \in {"key", "table"} : NoneOf(queue', kind) <=> NoneOf(queue, kind)
      /\ KeysLast(queue) => KeysLast(queue')
  <2>1. CASE queue' = queue
    BY <2>1
  <2>2. CASE \E ws \in Seq(QueueItems) :
               queue' = queue \o ws /\ NoneOf(ws, "key") /\ NoneOf(ws, "table")
    <3>1. PICK ws \in Seq(QueueItems) :
               queue' = queue \o ws /\ NoneOf(ws, "key") /\ NoneOf(ws, "table")
      BY <2>2
    <3>2. KeysLast(ws)
      BY <3>1 DEF NoneOf, KeysLast
    <3> QED
      BY <1>1, <3>1, <3>2, KindsAppend
  <2> QED
    BY <1>2, <2>1, <2>2
<1>4. \A i \in KeyDifferences(file, before) : ram'[i] = ram[i]
  BY <1>1, <1>2, DifferingKeys DEF Agree
<1>5. \A j \in 1 .. Slots : ram'[Slot("morse", j)] = ram[Slot("morse", j)]
  BY <1>2, MorseSlot DEF Agree
<1>6. CASE pc = "check"
  BY <1>1, <1>2, <1>6 DEF OrderInv, Agree
<1>7. CASE pc # "check"
  BY <1>1, <1>3, <1>4, <1>5, <1>7 DEF OrderInv
<1> QED
  BY <1>6, <1>7

\* Nor does the metadata read.
LEMMA BarrierOrder ==
    ASSUME QueueInv, OrderInv, persist_barrier
    PROVE  OrderInv'
<1> DEFINE ws == <<Marker>>
<1>1. /\ queue' = Append(queue, Marker) /\ pc = "asking" /\ pc' = "barrier"
      /\ UNCHANGED <<before, todo, ram, flash, file>>
      /\ queue \in Seq(QueueItems)
  BY DEF persist_barrier, QueueInv
<1>2. ws \in Seq(QueueItems) /\ queue' = queue \o ws
  BY <1>1 DEF QueueItems
<1>3. NoneOf(ws, "key") /\ NoneOf(ws, "table") /\ KeysLast(ws)
  <2>1. DOMAIN ws = {1} /\ ws[1] = Marker
    OBVIOUS
  <2> QED
    BY <2>1, MarkerKind DEF NoneOf, KeysLast
<1> HIDE DEF ws
<1>4. /\ \A kind \in {"key", "table"} : NoneOf(queue', kind) <=> NoneOf(queue, kind)
      /\ KeysLast(queue) => KeysLast(queue')
  BY <1>1, <1>2, <1>3, KindsAppend
<1> QED
  BY <1>1, <1>4 DEF OrderInv

\* No step lets a key lead the tables it may address.
LEMMA OrderStep ==
    ASSUME QueueInv, VerdictInv, OrderInv, [Next]_vars, MetadataEndpoint
    PROVE  OrderInv'
<1>1. CASE Send
  BY <1>1, SendOrder
<1>2. CASE Persist
  BY <1>2, PersistOrder
<1>3. CASE Check
  BY <1>3, CheckOrder
<1>4. CASE OtherWriter
  BY <1>4, OthersOrder
<1>5. CASE persist_barrier
  BY <1>5, BarrierOrder
<1>6. CASE Compare
  <2>1. /\ pc = "reading" /\ Answered /\ pc' \in {"done", "check"}
        /\ UNCHANGED <<before, ram, queue>>
    BY <1>6 DEF Compare, device
  <2>2. NoneQueued(queue)
    <3>1. \A l \in DOMAIN queue : queue[l] # Marker
      BY <2>1 DEF Answered, ToSet
    <3> QED
      BY <2>1, <3>1 DEF VerdictInv, Behind, NoneQueued
  <2> QED
    BY <2>1, <2>2 DEF VerdictInv, OrderInv
<1>7. CASE GetRevision
  <2>1. pc = "revision" /\ pc' = "send" /\ UNCHANGED <<before, todo, ram, flash, queue, file>>
    BY <1>7 DEF GetRevision, device
  <2> QED
    BY <2>1 DEF OrderInv
<1>8. CASE BarrierAnswered
  <2>1. pc = "barrier" /\ pc' = "revision" /\ UNCHANGED <<before, todo, ram, flash, queue, file>>
    BY <1>8 DEF BarrierAnswered, device
  <2> QED
    BY <2>1 DEF OrderInv
<1>9. CASE \/ Run \/ Refused \/ ReadBack \/ Verify \/ Again \/ BusyTooLong \/ Disconnect
  <2>1. pc' \notin {"check", "revision", "send", "asking", "barrier"}
    BY <1>9 DEF Run, Refused, ReadBack, Verify, Again, BusyTooLong, Disconnect, read_snapshot
  <2> QED
    BY <2>1 DEF OrderInv
<1>10. CASE Reset
  <2>1. pc' \notin {"check", "revision", "send", "asking", "barrier"}
    BY <1>10 DEF Reset, Running
  <2> QED
    BY <2>1 DEF OrderInv
<1>11. CASE ToggleMaintenance
  <2>1. UNCHANGED <<pc, before, todo, ram, flash, queue, file>>
    BY <1>11 DEF ToggleMaintenance, host
  <2> QED
    BY <2>1 DEF OrderInv
<1>12. CASE UNCHANGED vars
  <2>1. UNCHANGED <<pc, before, todo, ram, flash, queue, file>>
    BY <1>12 DEF vars, host, device
  <2> QED
    BY <2>1 DEF OrderInv
<1> QED
  BY <1>1, <1>2, <1>3, <1>4, <1>5, <1>6, <1>7, <1>8, <1>9, <1>10, <1>11, <1>12
  DEF Next, HostStep

(***************************************************************************)
(* "The tables have to be in place before any key can point at them", for  *)
(* every file, keyboard and page size: no key that an apply has changed is *)
(* left, in RAM or in what a reset would leave of it in flash, addressing  *)
(* a morse slot that is not yet what the file says. Requests go out in the *)
(* plan's order, flash takes them in the order they were sent, and no      *)
(* older write is left in the queue when the first one is planned.         *)
(***************************************************************************)
THEOREM KeysNeverLead ==
    ASSUME MetadataEndpoint PROVE Spec => []KeysPointAtTables
<1>1. Init => QueueInv /\ VerdictInv /\ OrderInv
  BY QueueInit DEF Init, OrderInv
<1>2. QueueInv /\ VerdictInv /\ OrderInv /\ [Next]_vars => QueueInv' /\ VerdictInv' /\ OrderInv'
  BY QueueStep, VerdictStep, OrderStep
<1>3. QueueInv /\ OrderInv => KeysPointAtTables
  <2> SUFFICES ASSUME QueueInv, OrderInv,
                      pc \in {"check", "revision", "send", "asking", "barrier"},
                      NEW i \in KeyDifferences(file, before)
               PROVE  \A m \in {ram, flash} :
                        m[i] = Wanted(file, i) /\ Addresses(m[i]) /\ "morse" \in Claims(file)
                            => m[Target(m[i])] = Wanted(file, Target(m[i]))
    BY DEF KeysPointAtTables, NoDanglingKey
  <2>1. /\ i \in Undisputed /\ before[i] # Wanted(file, i)
        /\ Drained(queue, ram, flash) /\ FileShape(file)
    BY DifferingKeys DEF QueueInv
  <2>2. CASE pc = "check"
    <3>1. \A k \in DOMAIN queue : queue[k].item # i
      BY <2>1, <2>2 DEF OrderInv, NoneQueued
    <3>2. i \in Items \ LightingItems
      BY <2>1 DEF Undisputed
    <3>3. ram[i] = before[i] /\ flash[i] = ram[i]
      BY <2>1, <2>2, <3>1, <3>2 DEF OrderInv, Agree, Drained
    <3> QED
      BY <2>1, <3>3
  <2>3. CASE pc # "check"
    <3>1. ASSUME "morse" \in Claims(file), NoWrites(todo, "table"), NEW j \in 1 .. Slots
          PROVE  ram[Slot("morse", j)] = Wanted(file, Slot("morse", j))
      <4>1. ~ Asks(todo, Slot("morse", j))
        BY <3>1, MorseSlot DEF NoWrites, Asks
      <4> QED
        BY <2>3, <3>1, <4>1 DEF OrderInv
    <3>2. ASSUME NoneOf(queue, "table"), NEW j \in 1 .. Slots
          PROVE  flash[Slot("morse", j)] = ram[Slot("morse", j)]
      <4>1. \A k \in DOMAIN queue : queue[k].item # Slot("morse", j)
        BY <3>2, MorseSlot DEF NoneOf
      <4>2. Slot("morse", j) \in Items \ LightingItems
        BY MorseSlot DEF Undisputed
      <4> QED
        BY <2>1, <4>1, <4>2 DEF Drained
    <3>3. ASSUME ram[i] = Wanted(file, i), Addresses(ram[i]), "morse" \in Claims(file)
          PROVE  ram[Target(ram[i])] = Wanted(file, Target(ram[i]))
      <4>1. NoWrites(todo, "table")
        BY <2>1, <2>3, <3>3 DEF OrderInv
      <4> QED
        BY <3>1, <3>3, <4>1 DEF Addresses, Target
    <3>4. ASSUME flash[i] = Wanted(file, i), Addresses(flash[i]), "morse" \in Claims(file)
          PROVE  flash[Target(flash[i])] = Wanted(file, Target(flash[i]))
      <4>1. NoWrites(todo, "table") /\ NoneOf(queue, "table")
        BY <2>1, <2>3, <3>4 DEF OrderInv
      <4> QED
        BY <3>1, <3>2, <3>4, <4>1 DEF Addresses, Target
    <3> QED
      BY <3>3, <3>4
  <2> QED
    BY <2>2, <2>3
<1> QED
  BY <1>1, <1>2, <1>3, PTL DEF Spec

=============================================================================
