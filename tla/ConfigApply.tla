----------------------------- MODULE ConfigApply -----------------------------
(***************************************************************************)
(* `config apply` against a keyboard: the host's requests, the firmware's  *)
(* RAM, its bounded flash queue and its flash, other writers of lighting   *)
(* and pointing, a keyboard that resets and a host that loses it.          *)
(*                                                                         *)
(* The firmware (RMK) is external.  It is modelled from what the host code *)
(* relies on: a write changes RAM and queues one flash item per cell; a    *)
(* page that does not fit the queue is answered Busy; the layer metadata   *)
(* read is served through the same queue; a lighting or pointing write is  *)
(* refused unless it presents the current revision.                        *)
(***************************************************************************)
EXTENDS ApplyPlan

CONSTANTS
    Files,             \* the files a user may apply
    Boards,            \* the configurations a keyboard may hold at first
    Firmwares,         \* subset of {"legacy", "modern"}
    QueueCap,          \* depth of the firmware's flash channel
    MetadataEndpoint,  \* the firmware serves GetLayerMetadata
    MaxResets, MaxLosses, MaxOthers   \* bounds on the environment

ASSUME ApplyAssumption ==
    /\ {QueueCap, MaxResets, MaxLosses, MaxOthers} \subseteq Nat
    /\ Batch <= QueueCap
    /\ MetadataEndpoint \in BOOLEAN
    /\ Firmwares \subseteq {"legacy", "modern"}
    /\ \A f \in Files : FileShape(f)
    /\ Boards \subseteq [Items -> Nat]

VARIABLES
    ram, flash,     \* what the firmware runs with, and what survives a reset
    queue,          \* the flash task's channel, oldest item first
    revisions,      \* the firmware's lighting and pointing revisions
    unlocked,       \* maintenance mode
    file, firmware, \* what is applied, to which firmware
    pc,             \* where the host is
    before,         \* the snapshot read before the first write, or read back
    seen,           \* the pointing revision in that snapshot
    todo,           \* requests still to be sent
    lock,           \* revision the pending request will present
    resets, losses, others

host == <<pc, before, seen, todo, lock>>
device == <<ram, flash, queue, revisions, unlocked>>
faults == <<resets, losses, others>>
vars == <<host, device, faults, file, firmware>>

(* The metadata read waiting its turn in the flash queue. *)
Marker == Write(<<"marker", 0, 0>>, 0)
Locks == {"lighting", "pointing"}
None == 0

Init ==
    /\ file \in Files \cup {claim_every_behavior_table(f) : f \in Files}
    /\ firmware \in Firmwares
    /\ ram \in Boards
    /\ flash = ram
    /\ queue = <<>>
    /\ revisions = [l \in Locks |-> 1]
    /\ unlocked \in BOOLEAN
    /\ pc = "idle"
    /\ before = ram
    /\ todo = <<>>
    /\ lock = None
    /\ seen = None
    /\ resets = 0 /\ losses = 0 /\ others = 0

----------------------------------------------------------------------------
(* The firmware.                                                           *)

(* Mutant: the channel is written without waiting for room. *)
AlwaysRoom(n) == n >= 0

Room(n) == Len(queue) + n <= QueueCap

(* A request the firmware takes: RAM changes now, flash when its turn comes. *)
Accept(request) ==
    /\ ram' = [i \in Items |->
                    IF \E w \in ToSet(request.writes) : w.item = i
                    THEN (CHOOSE w \in ToSet(request.writes) : w.item = i).val
                    ELSE ram[i]]
    /\ queue' = IF request.revision = "lighting" THEN queue ELSE queue \o request.writes
    /\ revisions' = IF request.revision \in Locks
                    THEN [revisions EXCEPT ![request.revision] = @ + 1]
                    ELSE revisions

(* The flash task stores the oldest item, or answers the metadata read. *)
Persist ==
    /\ queue # <<>>
    /\ queue' = Tail(queue)
    /\ flash' = IF Head(queue) = Marker THEN flash
                ELSE [flash EXCEPT ![Head(queue).item] = Head(queue).val]
    /\ UNCHANGED <<host, ram, revisions, unlocked, faults, file, firmware>>

----------------------------------------------------------------------------
(* The host.                                                               *)

(* `before` and the read-back are read_snapshot: it ends with the layer    *)
(* names, whose reply has waited for everything queued before it.          *)
read_snapshot(next) ==
    /\ before' = ram
    /\ seen' = revisions["pointing"]
    /\ pc' = next
    /\ \/ MetadataEndpoint /\ Room(1) /\ queue' = Append(queue, Marker)
       \/ ~MetadataEndpoint /\ UNCHANGED queue

Answered == Marker \notin ToSet(queue)

Run ==
    /\ pc = "idle"
    /\ read_snapshot("reading")
    /\ UNCHANGED <<todo, lock, ram, flash, revisions, unlocked, faults, file, firmware>>

(* Nothing pending: the keyboard already matches. *)
Compare ==
    /\ pc = "reading"
    /\ Answered
    /\ pc' = IF differences(file, before) = {} THEN "done" ELSE "check"
    /\ UNCHANGED <<before, seen, todo, lock, device, faults, file, firmware>>

(* require_maintenance_mode, then the capability checks of apply_snapshot. *)
Check ==
    /\ pc = "check"
    /\ IF unlocked
       THEN /\ todo' = apply_snapshot(file, before, firmware = "legacy")
            /\ pc' = "revision"
       ELSE /\ pc' = "failed"
            /\ UNCHANGED todo
    /\ UNCHANGED <<before, seen, lock, device, faults, file, firmware>>

(* The revision the next request presents: read from the keyboard just     *)
(* before it for lighting, taken from the first snapshot for pointing.     *)
PresentedRevision(request) ==
    CASE request.revision = "lighting" -> revisions["lighting"]
      [] request.revision = "pointing" -> seen
      [] OTHER -> None

GetRevision ==
    /\ pc = "revision"
    /\ todo # <<>>
    /\ lock' = PresentedRevision(Head(todo))
    /\ pc' = "send"
    /\ UNCHANGED <<before, seen, todo, device, faults, file, firmware>>

(* Mutant: the next page follows at once. *)
NeverPaced(request) == "revision"

(* The request is taken; a page of cells is followed by the barrier. *)
AfterSend(request) ==
    IF request.paced /\ MetadataEndpoint THEN "asking" ELSE "revision"

Send ==
    /\ pc = "send"
    /\ LET request == Head(todo) IN
        /\ request.revision \in Locks => lock = revisions[request.revision]
        /\ Room(Len(request.writes))
        /\ Accept(request)
        /\ pc' = AfterSend(request)
    /\ todo' = Tail(todo)
    /\ UNCHANGED <<before, seen, lock, flash, unlocked, faults, file, firmware>>

(* Someone else changed lighting or pointing since the revision was read. *)
Refused ==
    /\ pc = "send"
    /\ Head(todo).revision \in Locks
    /\ lock # revisions[Head(todo).revision]
    /\ pc' = "failed"
    /\ UNCHANGED <<before, seen, todo, lock, device, faults, file, firmware>>

(* write_until_accepted gives up once a page has drawn Busy for too long. *)
BusyTooLong ==
    /\ pc = "send"
    /\ Head(todo).writes[1].item[1] = "key"
    /\ ~Room(Len(Head(todo).writes))
    /\ losses < MaxLosses
    /\ losses' = losses + 1
    /\ pc' = "failed"
    /\ UNCHANGED <<before, seen, todo, lock, device, resets, others, file, firmware>>

(* persist_barrier: the metadata read joins the queue behind the page. *)
persist_barrier ==
    /\ pc = "asking"
    /\ Room(1)
    /\ queue' = Append(queue, Marker)
    /\ pc' = "barrier"
    /\ UNCHANGED <<before, seen, todo, lock, ram, flash, revisions, unlocked, faults, file, firmware>>

BarrierAnswered ==
    /\ pc = "barrier"
    /\ Answered
    /\ pc' = "revision"
    /\ UNCHANGED <<before, seen, todo, lock, device, faults, file, firmware>>

ReadBack ==
    /\ pc = "revision"
    /\ todo = <<>>
    /\ read_snapshot("verify")
    /\ UNCHANGED <<todo, lock, ram, flash, revisions, unlocked, faults, file, firmware>>

(* Mutant: the read-back is compared without the layer names' reply. *)
VerifyAtOnce ==
    /\ pc = "verify"
    /\ pc' = IF differences(file, before) = {} THEN "done" ELSE "failed"
    /\ UNCHANGED <<before, seen, todo, lock, device, faults, file, firmware>>

Verify ==
    /\ pc = "verify"
    /\ Answered
    /\ pc' = IF differences(file, before) = {} THEN "done" ELSE "failed"
    /\ UNCHANGED <<before, seen, todo, lock, device, faults, file, firmware>>

(* The user applies the file again. *)
Again ==
    /\ pc = "failed"
    /\ pc' = "idle"
    /\ todo' = <<>>
    /\ UNCHANGED <<before, seen, lock, device, faults, file, firmware>>

----------------------------------------------------------------------------
(* The environment.                                                        *)

Running == pc \notin {"idle", "done", "failed"}

(* The keyboard resets: RAM is what flash held, the queue is gone, and the *)
(* connection with it.                                                     *)
Reset ==
    /\ resets < MaxResets
    /\ resets' = resets + 1
    /\ ram' = [i \in Items |-> IF i \in LightingItems THEN ram[i] ELSE flash[i]]
    /\ queue' = <<>>
    /\ pc' = IF Running THEN "failed" ELSE pc
    /\ UNCHANGED <<before, seen, todo, lock, flash, revisions, unlocked, losses, others, file, firmware>>

(* The host loses the keyboard, which goes on. *)
Disconnect ==
    /\ Running
    /\ losses < MaxLosses
    /\ losses' = losses + 1
    /\ pc' = "failed"
    /\ UNCHANGED <<before, seen, todo, lock, device, resets, others, file, firmware>>

(* Lighting keys and other hosts write under the same revisions. *)
OtherWriter ==
    /\ others < MaxOthers
    /\ others' = others + 1
    /\ \E s \in {"state", "pointing"}, v \in {1, 2} :
        /\ s = "pointing" => Room(1)
        /\ Accept(Locked(IF s = "pointing" THEN s ELSE "lighting", Write(Single(s), v)))
    /\ UNCHANGED <<host, flash, unlocked, resets, losses, file, firmware>>

(* Magic+R. *)
ToggleMaintenance ==
    /\ ~unlocked
    /\ unlocked' = TRUE
    /\ UNCHANGED <<host, ram, flash, queue, revisions, faults, file, firmware>>

HostStep ==
    \/ Run \/ Compare \/ GetRevision \/ Send \/ Refused
    \/ persist_barrier \/ BarrierAnswered \/ ReadBack \/ Verify \/ Again

Next ==
    \/ HostStep \/ Check \/ Persist
    \/ BusyTooLong \/ Reset \/ Disconnect \/ OtherWriter \/ ToggleMaintenance

Spec == Init /\ [][Next]_vars

(* The flash task drains its queue, the tool goes on, and the user unlocks *)
(* the keyboard and applies the file again after a failure.  Each of these *)
(* steps changes the variable it is subscripted with.  Check is enabled    *)
(* exactly in "check", so its weak fairness is written as leaving that     *)
(* state: TLC would build the whole plan to evaluate its ENABLED.          *)
FairSpec ==
    /\ Spec
    /\ WF_queue(Persist) /\ WF_pc(HostStep) /\ WF_unlocked(ToggleMaintenance)
    /\ []<>(pc # "check")

----------------------------------------------------------------------------
(* Properties.                                                             *)

(***************************************************************************)
(* Types.  The flash channel never holds more than its depth: a page is    *)
(* taken whole or answered Busy, and every other write waits for room.     *)
(***************************************************************************)
TypeOK ==
    /\ DOMAIN ram = Items /\ DOMAIN flash = Items /\ DOMAIN before = Items
    /\ \A w \in ToSet(queue) : w.item \in Items \/ w = Marker
    /\ Len(queue) <= QueueCap
    /\ DOMAIN revisions = Locks
    /\ pc \in {"idle", "reading", "check", "revision", "send", "asking",
               "barrier", "verify", "done", "failed"}
    /\ \A k \in DOMAIN todo : \A w \in ToSet(todo[k].writes) : w.item \in Items

(* A key cell that addresses slot n of the morse table holds n. *)
Target(val) == Slot("morse", val)
Addresses(val) == val \in 1 .. Slots

(* Every key cell that the apply has pointed at a table slot finds the     *)
(* definition the file gives that slot, in the state `m`.                  *)
NoDanglingKey(m) ==
    \A i \in KeyDifferences(file, before) :
        m[i] = Wanted(file, i) /\ Addresses(m[i]) /\ "morse" \in Claims(file)
            => m[Target(m[i])] = Wanted(file, Target(m[i]))

(***************************************************************************)
(* "The tables have to be in place before any key can point at them": in   *)
(* RAM while the keyboard is typed on, and in flash, so that no reset or   *)
(* lost connection leaves a key addressing a slot that was never written.  *)
(***************************************************************************)
KeysPointAtTables ==
    pc \in {"check", "revision", "send", "asking", "barrier"}
        => NoDanglingKey(ram) /\ NoDanglingKey(flash)

(* Items no other writer of this model touches. *)
Undisputed == Items \ (LightingItems \cup {Single("pointing")})

(***************************************************************************)
(* "applied and verified": when the tool says so, what the file asked for  *)
(* is in flash and not merely in RAM, whatever failed and was done again   *)
(* on the way, because the read-back ends behind the last write in the     *)
(* flash queue.                                                            *)
(***************************************************************************)
AppliedIsDurable ==
    pc = "done" => \A i \in Governed(file) \cap Undisputed :
                        flash[i] = Wanted(file, i) /\ ram[i] = Wanted(file, i)

(* Keymap cells still waiting for flash. *)
CellsInFlight == SelectSeq(queue, LAMBDA w : w.item[1] = "key")

(***************************************************************************)
(* Pacing: at most one page of cells is ever waiting for flash, so a page  *)
(* never has to stream through a full channel.                             *)
(***************************************************************************)
OnePageInFlight == Len(CellsInFlight) <= Batch

(***************************************************************************)
(* A cell is written only where file and keyboard differ, once, and every  *)
(* cell still to be changed is in exactly one page that is still to go.    *)
(***************************************************************************)
PagesCoverTheDifference ==
    pc \in {"revision", "send", "asking", "barrier"} =>
        LET cells == SelectSeq(FlattenSeq([k \in DOMAIN todo |-> todo[k].writes]),
                               LAMBDA w : w.item[1] = "key")
        IN  /\ {w.item : w \in ToSet(cells)} = KeyDifferences(file, ram)
            /\ Cardinality(ToSet(cells)) = Len(cells)
            /\ \A k \in DOMAIN todo : Len(todo[k].writes) <= Batch

(***************************************************************************)
(* What the file does not speak for (trailing layers, tables it is silent  *)
(* about) is never written.                                                *)
(***************************************************************************)
UnlistedIsLeftAlone ==
    [][\A i \in Undisputed \ Governed(file) : ram'[i] = ram[i] /\ flash'[i] = flash[i]]_vars

(***************************************************************************)
(* Applying again after every failure ends in success, and the keyboard is *)
(* what the file says.                                                     *)
(***************************************************************************)
EventuallyApplied == <>[](pc = "done")

(***************************************************************************)
(* "`config apply FILE` writes only differences": no request carries a     *)
(* value the keyboard was already seen to hold.                            *)
(***************************************************************************)
OnlyDifferencesAreWritten ==
    pc = "send" => \E w \in ToSet(Head(todo).writes) : before[w.item] # w.val

(***************************************************************************)
(* "A file that claims a table but names fewer slots than the device has   *)
(* is asking for the rest to be empty": once every request has been sent   *)
(* no slot past the file's table holds anything.                           *)
(***************************************************************************)
SurplusIsCleared ==
    pc = "verify" => \A t \in Claims(file) : report_surplus(file, before, t) = {}

=============================================================================
