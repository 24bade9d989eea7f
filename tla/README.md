# Verification of the MoErgo RMK firmware and its host tool

TLA+ models of the MoErgo split-keyboard firmware (`src/crates/moergo-rmk`), of
the host tool that configures it (`src/crates/moergo-control`) and of the
configuration model they share (`src/crates/moergo-config`).

Run a configuration with `tlc -config X.cfg M`, a proof module with
`tlapm M.tla`. `PROJECT.json` lists the runs, the mutants each property was
tried against, the source lines behind every definition, the hazards and the
findings.

## The system and its parts

The keyboard is split. The *central* half owns the lighting engine that hosts
talk to; the *peripheral* renders the right half from a replica of it. A host
reads and writes keymap, behaviour tables, macros and lighting over a Rynk session.

| Part | State | Operations | Module |
|---|---|---|---|
| Snapshot transaction (`split_lighting.rs`) | the open `Stage` | `walk_snapshot`, `try_queue_snapshot`, `SnapshotStage::apply`, `reset` | `StagePackets`, `SnapshotStage`, `SnapshotWire`, `SnapshotLink` |
| Central replication task (`central_lighting.rs`) | dirty flags, outstanding transfer, acknowledged revision, expected digests, attempts, backoff, generation | one loop: send when due, then a `select` over link, engine, context, inbox, status and timer | `LightingReplication`, `ReplicaAbstract` |
| Peripheral replication task and worker (`lighting.rs`) | stage, `REPLICA_SLOT`, `APPLY_REQUESTS`, `DIAGNOSTIC_REQUESTS`, context, last applied revision and digests | `process`, link edges, heartbeat; `apply`, `diagnostic` | `LightingReplication` |
| Attestation | target revision, mismatch count; digests | `observe`, `snapshot_acked`, `reset`; `replica_digests` | `LightingReplication`, `ReplicaDigest` |
| Frame bridge | request id, page under assembly, one-place reply channel | request a chunk, accept it, restart, time out | `RemoteFrame` |
| Wire codec | none | `Message::encode`, `Message::decode` | `WireCodec`, `WireLink` |
| Transport announcement, debug relay | owed packets, sampled selector, caches on the central | announce on link-up, edge and heartbeat; relay trace and panic | `TransportAnnounce` |
| LED chain power (`lighting.rs`, `lighting_output.rs`) | rail, settle time, dark latch, pixels | present, suspend, resume, power monitor | `ChainPower` |
| Reactive key hits | hit queues of both engines | own keys, republished keys, mirrored hits | `ReactiveHits` |
| Magic keys, remote boot (`remote_boot.rs`) | chord flags, request queue | key events, boot request over the link | `MagicKeys` |
| Panic store (`panic_store.rs`) | retained record and boot trace | write in the panic handler, capture at boot | `PanicStore` |
| Configuration apply (`moergo-control/src/config.rs`) | plan, RAM, flash queue, flash, revisions | plan, write until accepted, persist barrier, verify | `ApplyPlan`, `ConfigApply` |
| Device client (`rynk_client.rs`) | one session | reset and bootloader hand-over, keymap, lighting state and overlay transactions | `ResetRequest`, `KeymapSession`, `LightingSession` |
| Configuration model (`moergo-config`) | none | rules, layer entries, macros, pull and restore, key codes | `ConditionalRules`, `LayerEntries`, `MacroSpace`, `ConfigPull`, `Keycodes` |

The halves meet in bounded queues that never block the sender: `SPLIT_APP_TX`
(central to peripheral), `SPLIT_APP_PERIPH_TX` (back) and an inbox on either
half; in a link watch that keeps only the latest edge; and, on the peripheral, in
a one-place slot with a latest-wins signal in front of the engine. Host and
keyboard meet in requests that carry a revision, and in a flash queue that the
firmware drains on its own. `rmk`, which provides the queues, the engine, the
storage and the split driver, is not part of the repository: what is modelled of
it is taken from how this code uses it and marked external.

What is hard about it: packets are lost and queues full at any step; a
transaction is many packets, and a lost one must not publish half a snapshot; an
acknowledgement may be late, stale or lost and races a timeout; the engine
changes while an export is awaited; link edges are coalesced and arrive together
with packets of the old and the new session; either half resets between two words
of a record; two tasks switch one LED rail; a host's request is refused, answered
late or cut off half-way, while another host writes too; and what is written has to
read back equal after several conversions.

## Modules

### The split link

**StagePackets** (constant level). The packets of one transaction and
`SnapshotStage::apply` as a function of stage and packet, one operator per
packet type. Settings, effects, contexts and gates are members of `Values`.
The overlay and scene tables are sets of cells, because the stage looks cells up
by key and counts them; the conditional table is a sequence, because a gate
packet amends its last entry. `part` and `received` hold the four packets that
carry one value each and their `*_received` flags.

**SnapshotStage**. The stage against an arbitrary link: any packet of any
transaction offered so far may arrive at any time, any number of times. A
transaction is identified by its generation; `TransfersAssumption` says that the
u8 generation has not come round. **SnapshotWire** is the same stage behind the real
queue: `walk_snapshot` order, the reservation of `try_queue_snapshot`, FIFO
delivery with loss. `ImplementsAnyLink` is its refinement of `SnapshotStage`.
**SnapshotLink** has the two and the bytes of the packets (`WireLink`) side by side, for
the proofs and the run.

**LightingReplication**. Both halves and the queues between them. The engine is
its revision, the context a serial number. A snapshot is four packets: `Begin`,
`Body` (what Commit accounts for; `SnapshotStage` shows that it is applied whole
or not at all), `Gate` (the conditional-scene packets, which Commit does not
account for; present when `Gated`) and `Commit`. Digests are modelled by what
they hash. `CentralReplication::run` is cut where the code
awaits: `ExportReplica` (the task waits for the engine), `QueueTransfer` (it
resumes, queues and records the outcome) and one action per arm of the `select`,
whose order of preference is kept in the guards (`NoLinkEdge`, `NoEvent`). The
peripheral's `process` is one action per kind of packet. The worker is cut at its
two awaits. Losses, link drops, reboots, failed exports, rejected replicas and
deadlines that pass while the transfer is still alive draw on one budget,
`MaxFaults`. **ReplicaAbstract** is what all of this promises, without packets or
tasks: engine state and context of the right half are ones the left half had, and
move forward only, except that a reboot starts over. `ReplicaOnlyAdvances` is the
refinement, with the peripheral's applied revision and context as the mapping.

**RemoteFrame**. A host's request for a page of the peripheral's frame.
`RemoteFrameBridge::run`, `read_page` and `chunk` are one loop with a program
counter: `TakeRequest`, `Attempt`, `AttemptTimesOut`, `AcceptChunk` (through
`FramePageAssembly::accept`) and `DeadlinePasses`. On the other side are the
one-place request channel, the worker, cut at its await of the engine, and the
diagnostic queue. A cell is the pair of its frame's revision and its index, so a
torn page is visible. `disturbed` records whether anything out of the ordinary has
happened. Frames the engine presents without a revision are left out.

**WireCodec** (constant level). Every message of `split_lighting.rs` to bytes and
back, with the packed bits, absent values and wide integers at their real widths.
**WireLink** sends one message, or one rule as its cell packet and gate packet, and
lets another build change a byte or the length. `Message` and `Rule` are all that the
types of `split_lighting.rs` and rmk allow, less what stands for an absent value on the
wire: layer 63, node 63 with the charge Unknown, a `ttl_ms` of 0 and a connection gate that
asks for nothing. **ReplicaDigest** is
`replica_digests`, a digest being the bytes it hashes, over a replica made by the
codec and the stage; so equality of digests is exact up to collisions of FNV-1a.

**ReactiveHits**. The keyboard buses of both halves, the events the split driver
republishes and the mirrored hits on the queue that snapshots use. **TransportAnnounce**
is the peripheral's select loop as far as announcements and the debug relay go
(sampled selector, owed flags, the shared queue) and the caches on the central.

### Firmware tasks

**ChainPower**. Renderer and `PowerMonitor` on one rail, for a board that keeps the
rail (Go60) and one that does not (Glove80). `CHAIN_POWER` is accessed atomically
but released while a transfer or the settling is awaited, so the renderer is cut
there. **PanicStore**. The panic handler, the boot trace (its struct zeroed, marked, its
cause ring scrubbed, then rolled on) and the capture, store by store, with a reset, a
nested fault or a power cycle between any two. A text counts as one store, its length as
the next; a zeroed struct is one store for each of its fields. **MagicKeys**. The
bond-clear chord with its processor any number of events behind, and the way of a
bootloader request through its queues to the peripheral.

### The host

**ApplyPlan** (constant level) is what `config apply` compares and decides to
write; **ConfigApply** executes it against RAM, flash queue and flash of a keyboard
that may be busy, be reset, be locked, be lost, or be written to by others.
**ConditionalRules**, **LayerEntries**, **MacroSpace**, **ConfigPull** and
**Keycodes** are the conversions between file and keyboard, as machines whose
initial states enumerate files and keyboards and whose steps are the commands
(validate, write, read back; lower with and without a topology; write macro by
macro with a connection that breaks; pull, parse, edit, restore; print and type a
key). **ResetRequest**, **KeymapSession** and **LightingSession** are the commands of
the device client that take several requests, beside another host.

### Suites

**FirmwareTasks** (power, panic store, magic keys, key hits), **HostApply** (apply and
reset requests), **HostTools** (lighting and keymap commands, and the conversions except
ConfigPull) and the module `MCSplitLink` put several components together, so that one TLC run and one proof module
can speak of all of them. The components of a suite have no variable in
common, so a state of their product is just a tuple of states of theirs, and exploring
each while the others rest reaches every state an invariant or a step property of
one of them can see; `subject` names the one that runs. The suites' properties are the
components' own, under the same names. `MCFirmwareTasks`, `MCHostApply` and `MCHostTools`
give the constants their values; `MCHostTools` adds ConfigPull.

Each mutated form of a definition used to test a property stands before the
definition it replaces and is marked `mutant`; no specification uses it.

## Runs

| Run | Checks | Bounds |
|---|---|---|
| `split_link` | `TypeOK`, `StagedFromOneTransfer`, `CommittedBaseIntact`, `CondGatesNeverMisattached`, `ImplementsAnyLink`, `WireIsSound`, `AttestationIsExact` | any link: 2 transactions of 4 snapshots (one, the same revision with another context, the next revision, one too large); FIFO: 3 transactions, a queue that does not hold two of the larger ones; messages of every form at the edges of their fields; snapshots that differ in one field |
| `replication_safety` | `TypeOK`, `RequestMatchesSlot`, `AckedRevisionIsApplied`, `RestMeansReplicated`, `ReplicaOnlyAdvances` | 2 revisions, 2 contexts, 2 faults, 1 refused transfer |
| `replication_liveness` | `EventuallyReplicated` | 2 revisions, 2 contexts, 1 fault, 1 status request |
| `remote_frame` | `TypeOK`, `PageIsUntorn`, `PageIsWholeAndFresh`, `RefusedOnlyIfDisturbed`, `EveryRequestAnswered` | 2 requests, 3 frames of 3 or 5 cells, pages of two packets of two cells |
| `firmware_tasks` | `OffIsDark`, `ChainSettles`, `BootShowsThePast`, `ReportSurvives`, `ClearsWhatWasAsked`, `EachPressHitsOnce`, `BootReachesPeripheral` | 3 changes of the sleep state, 1 cable edge, 2 frames, 1 failed transfer; 3 crashes, 3 resets; 3 presses, 1 host call, 1 drop of the link, queues of one; columns of both halves, one press each |
| `transport_announce` | `AnnouncedInSession`, `HostsCatchUp` | 1 cable edge, 2 link edges, 2 boots, 1 packet of other traffic, 1 loss |
| `host_apply` | `KeysPointAtTables`, `AppliedIsDurable`, `UnlistedIsLeftAlone`, `ReportIsTrue`, `CommandsEnd` | 4 files, 2 keyboards of 2 layers of 3 cells, pages of 2, 1 reset, 1 lost connection, 1 foreign write; timeouts of 3 ticks |
| `host_tools` | `RuleIsWrittenOrRefused`, `EntriesResolveAsWritten`, `MacrosArrive`, `PulledFileIsFaithful`, `KeysRoundTrip`, `KeymapReportIsTrue`, `FailureCleansUp`, `SuccessIsExact` | all rules over 4 predicates; all lists of 2 entries on 3 LEDs; 4 macros in a space of 8; keyboards with gaps in 3 slots and 3 layers; all 65536 codes; 2 foreign writes; 2 hosts |
| `stage_whole_snapshot` (violation) | `OnlyWholeSnapshotsCommit` | 1 transaction |
| `replication_mismatch` (violation) | `MismatchSchedulesSnapshot` | 1 revision with gates, 1 fault |
| `wire_gates` (violation) | `GatesCross` | as `split_link` |
| `export_validates` (violation) | `ExportValidates` | a keyboard with one mod-tap |

The component modules also state a `TypeOK` each, which the suites collect; it can be
added to their configurations.

Why the bounds are enough. Two transactions are the least in which a mixture is
possible; the stage forgets everything at a Begin. In `LightingReplication` a
change needs a state before and after, hence two revisions and two contexts, and
the races in question combine a change with a fault, or two faults (a loss and a
late Ack, a reboot and a loss). The capacities are small enough that a
snapshot can be refused, that an inbox blocks delivery and that the peripheral's
queue fills up; two fast attempts reach the idle backoff. `Generations` is larger
than the number of transfers in a run. In `RemoteFrame` a page needs two packets
to be torn, two requests for an answer to be stale, and three frames for the second
restart; offset 4 lies behind the end of a frame of 3 cells and one before the end
of a frame of 5. A chain sleeps, wakes and sleeps again, so each task may lag a
whole cycle behind. A crash in the handler of a crash that is read by a boot that is
reset takes three crashes. A chord needs its key and a profile key, in both
orders of release. In `ConfigApply` a run of differences of three cells spans a page
border, the flash queue holds one page and a half, and one fault of each kind can
fall anywhere. Two entries are the least that compete for a key. The samples of the
codec include the first and last value of each field and the neighbours of its
packed bits.

`CHECK_DEADLOCK FALSE` is set where the system really stops: in the suites a command
ends, a key is pressed or a half is reset only so often, and the link's transactions are
finitely many. `LightingReplication`, `RemoteFrame` and `TransportAnnounce` are checked
for deadlock.

What the runs show:

* A committed snapshot has the settings, context, extensions and cells of exactly
  one transaction, whatever the link does. Gate packets never change another
  cell's gate when the link is FIFO, and the real queue is one of the links allowed.
* Whenever the central rests (link up, no pending event, nothing dirty or
  outstanding), the peripheral has the central's engine state and context. This is
  the statement that no interleaving of changes, exports, timeouts, late
  acknowledgements and sessions drops an update. What the right half shows goes
  through states of the left half in their order, and under fairness reaches the last.
* A frame page that is returned is a contiguous part of one frame, as long as the
  page or the frame allows, of a frame presented after the request was taken. With no
  fault a request is never refused, and every request is answered even if nothing
  ever comes back.
* Every message decodes to what was encoded; digests are equal exactly if the right
  half shows the same, of what they cover; no key press is counted twice.
* Pixels are dark when the chain is suspended or its rail dropped, and rail and frame
  end up as sleep state, cable and engine want them. A panic report that is shown is
  whole and of the latest crash; only a newer crash or a power cycle removes it. The boot
  trace counts boots and reasons right whatever was reset half-way; its cause ring is
  scrubbed unless a reset fell between the marker and the scrub. The
  bonds cleared are the ones asked for. An acknowledged bootloader request is carried
  out unless the link drops.
* `config apply` never leaves a key that refers to an empty table slot, touches nothing
  the parsed file does not name, reports success only when flash holds the file, and
  succeeds when repeated. (A TOML that is silent on `default_layer` parses to 0, by serde's
  default at `moergo-config/src/config.rs:101`, and apply then writes 0:
  `moergo-control/src/config.rs:1406`.) Reset requests act once at most and are reported as they went.
* A replacement of the overlay or the scenes that is reported failed leaves nothing open,
  unless the maintenance lock was engaged after it began; one reported done was done whole.
* What is pulled from a keyboard parses, differs in nothing and restores it, under the
  conditions `Portable` names; what lies outside them is in the next section.

## Where code and documentation differ

Four statements are runs that end in a violation:

* A snapshot does become visible when a conditional-scene packet is lost
  (`split_lighting.rs:1784`); `stage_whole_snapshot`.
* A digest mismatch does not schedule a snapshot (`split_lighting.rs:405`);
  `replication_mismatch`. Together with the first: a lost gate packet leaves the
  peripheral ungated, and Diverged, until the next change or reconnect.
* A rule's `layers`, `indicators`, `maintenance` and `split_transport` gates have no
  place in a packet; a rule with only these lights always on the right half; `wire_gates`.
* A mod-tap is exported with its arguments exchanged; `export_validates`.

The others are formulas in the modules. TLC refutes each within the bounds of the run
that uses the module, when it is named in that run's configuration (in a suite, through
the instance: `Panic!ReportOnlyAfterCrash`, say):

| Formula | Module | What the code does |
|---|---|---|
| `AppliedAtomically` | `LightingReplication` | the context of a snapshot is in force before a busy slot refuses the rest (`lighting.rs:1170`); the central's retry repairs it |
| `EveryEdgeAnnounced` | `TransportAnnounce` | an edge and its reversal within another arm of the select send nothing (`lighting.rs:1220`) |
| `AnswerIsOfThisSession` | `TransportAnnounce` | the cached transport is hidden, not cleared, by a link drop (`central_lighting.rs:101`) |
| `ReportOnlyAfterCrash` | `PanicStore` | the marker is left set, so every boot reports the crash again (`panic_store.rs:133`), against "clears the marker, so one report describes exactly one crash" (`panic_store.rs:9`) |
| `TraceHasNoGarbage` | `PanicStore` | the trace is marked (`panic_store.rs:183`) before its cause ring is scrubbed (`:185`), and only an unmarked trace is scrubbed: after a reset in between, every boot shows garbage, against "scrub its power-on garbage" (`:184`) |
| `BootIsNotDropped` | `MagicKeys` | a link drop drains an acknowledged boot command from the inbox (`lighting.rs:1244`) |
| `DigestsCoverDurable` | `ReplicaDigest` | wake layers and four gates are not hashed (`split_lighting.rs:1535`) |
| `OnlyDifferencesAreWritten` | `ConfigApply` | an equal table that is not full is written again (`moergo-control/src/config.rs:921`) |
| `SurplusIsCleared` | `ConfigApply` | with `Firmwares` including the older one, profiles behind the file's last stay (`moergo-control/src/config.rs:858`) |
| `ValidRulesVerify` | `ConditionalRules` | a rule without `phase_ms` reads back with one (`moergo-config/src/config.rs:4009`) |
| `LastEntryLights` | `LayerEntries` | a conditional arm of an earlier entry outranks the unconditional arm of a later one (`moergo-config/src/config.rs:547`) |
| `ParsedMacrosVerify` | `MacroSpace` | a trailing empty macro is read back as absent (`moergo-control/src/config.rs:753`) |
| `ExportIsBidirectional` | `ConfigPull` | a layer without a name comes back with one (`moergo-config/src/config.rs:2268`) |
| `CodesReparse` | `Keycodes` | ranges are wider than the fields printed from them (`keycodes.rs:454`) |
| `DisconnectIsCompletion` | `ResetRequest` | any disconnect counts as completion (`rynk_client.rs:360`) |
| `AcceptanceIsReported` | `ResetRequest` | the outer timeout, as long as the inner and started earlier, hides the acceptance (`rynk_client.rs:356`) |
| `NothingLeftOpen` | `LightingSession` | the lock, which covers "all remote mutations" (`moergo-control/README.md:63`), refuses the abort as well, and the tool discards the answer (`rynk_client.rs:770`): the transaction stays open until the next one is begun |
| `ReportedIsPersisted` | `KeymapSession` | the read-back answers from memory (`rynk_client.rs:1260`) |
| `ProbeKeepsName` | `KeymapSession` | the probe writes back a name read before its rounds (`rynk_client.rs:1107`) |

## Fairness

`LightingReplication!FairSpec` assumes that tasks are polled (`WF` of the central's,
the peripheral's and the worker's steps; the executor is cooperative and every await
of theirs is on a queue, a timer or the engine), that timers fire (`WF` of
`BackoffElapses`, `SF` of `AckTimesOut` once the transfer is dead), that the split
driver moves what is queued and that the link reconnects. The ack timer is strongly
fair because it is the last arm of the select and is disabled while a packet is in
the inbox; heartbeats are 300 s apart and the deadline is 500 ms, so the inbox cannot
be busy at every deadline. Nothing is assumed about host requests, heartbeats,
changes or faults. `EngineRejects` relies on the engine emptying the replica slot
before it rejects a replica.

In `RemoteFrame` only the bridge is fair (it is polled, and the timer of an
attempt fires): link, peripheral and deadline owe nothing, since the two attempts
per chunk and two tries per page bound the work by themselves.

`ChainPower`: both tasks are polled and the rail settles; `SF` of the renderer's
sleep, wake and present arms, since an arm of a select may be passed over while the others are
ready but not for ever. `TransportAnnounce`: the arms of the peripheral's loop and the
central's inbox are served, the heartbeat's timer comes round, and the queue, drained
by the driver, is found empty in the end (`AnnounceIntoEmptyQueue`; other traffic is
bursts). `MagicKeys`: the processor and the dispatcher run, the waker of a waiting send
is served in the end though others take slots too (`SF`), and the link comes back.
`ConfigApply`: the flash task drains its queue, the tool goes on, and the user unlocks
the keyboard and applies again after a failure; the faults are bounded by the run's
constants. `ResetRequest`: the clock advances and the tool acts on a timeout; nothing is
assumed about the keyboard.

## Proofs

Every theorem holds for all values of the constants that satisfy the assumptions of the
modules: any number of revisions, contexts and requests, any capacity, any
geometry, any budget of faults, and as many transfers as a u8 generation tells apart. `PROJECT.json` lists the results; the lemmas stand
before the theorem that needs them. Each proof follows one pattern. The property is
seldom inductive, so it is strengthened to an invariant whose parts are named; each part
has its step lemma with one case per action; the theorem joins them.

**SnapshotLinkProofs**: `StageInvariant`, `StageTypeCorrect`, `CommitIsFaithful`,
`StageIsOfOneTransfer` about any link; `QueueIsALink`, `GatesStayWithTheirCells` about the
real queue; `HalvesAgree` about the bytes. `CommittedBaseIntact` is not inductive: a Commit can only be
trusted if the stage it closes holds nothing but cells of its own transaction. `IInv`
adds `StagedFromOneTransfer`: staged cells are a subset of the transaction's right
half, the expected counts are that transaction's counts, and received parts have its
values. Equal cardinality of a finite set and a subset gives equality, which is why
counting suffices at Commit (`CountIsComplete`).

Over the queue, `WireInv` labels each conditional packet with the entry it carries.
Along the queue the labels of one transaction never fall, and rise from a gate to the next
cell (`WalkLabelled`, from the order of `walk_snapshot`). The stage has seen up to some
entry `h`; the packets still to come are behind it; and its table is no longer than `h`. If
it is as long as `h`, nothing was lost and each staged entry is its own; if it is shorter,
it can never reach the announced count, and what its gates are is of no consequence
(`CondUpTo`). The count Commit makes therefore excludes a gate that slid onto another cell,
although it does not count gates.

`HalvesAgree` is about the bytes, for every message and rule that the types allow
(2^32 revisions, every effect, parameters of every length), where the run has values at the
edges. A packet is a set of byte strings, each with its offset; if these do not overlap
(`Apart`), each of them is found where it was put, and decode goes by the tag
(`PacketHolds`, `Crossing`). What the packed bytes hold is read back field by field: integers,
enumerations, flags in spare bits, absent values, effects, batteries, gates. From these
follows one lemma per form of message, `decode(encode(m)) = m`, and `RulePackets` for the two
packets of a rule, with the gates that have no place left out. That what decode lets
through is usable is one lemma per arm of decode, about bytes of which nothing is known
(`PacketsUsable`). `LinkInv` carries both along the channel: what was received, then what is
under way, is the decoding and the encoding of what was sent, in order, as long as
no packet of another build took a place; and every packet is a string of bytes, whoever
made it.

**LightingReplicationProofs**. Five layers, each using those before it.

1. `ReplicationTypeCorrect`, which includes that the reservation keeps every queue
   within its capacity.
2. `ApplyRequestMatchesSlot`: signal, slot and worker speak of one snapshot.
3. `PathStaysInOrder`. The packets on their way to the peripheral, in queue and inbox, are
   one sequence, the `Path`. `OrderInv` says that along it revisions and contexts never
   fall and transfers do not mix, and that its ends are where they should be: engine and
   export of the left half ahead of it, stage, slot, engine and context of the right half
   behind, in this order. A loss, a drain or a
   refused enqueue makes the path *thinner* (an order embedding), and a thinner path keeps
   every bound, so the faults are one lemma and not one case each. `ReplicationImplementsReplica`,
   the refinement of `ReplicaAbstract`, follows action by action.
4. `SessionInvariant`: no acknowledgement on its way names a revision the peripheral's
   engine has not reached, and a reboot of the peripheral, which would make that false, is
   a link edge for the central. This gives `AckedIsApplied`.
5. `RestInvariant` follows the transfer the central awaits: last on the path, then in the
   stage, the signal, the worker and the slot, then acknowledged. What it carries is
   current, or else an event or a dirty flag says that it is not. At rest none of
   these is left, hence `RestIsCurrent` (revision and context agree) and
   `RestIsReplicated`. The latter has the hypothesis `~Gated`: with gate packets the loss
   of one is not noticed, which is the finding of `stage_whole_snapshot` and
   `replication_mismatch`. The run that checks the property has `Gated = FALSE` too;
   `RestIsCurrent` needs no hypothesis.

**RemoteFrameProofs**: `FrameTypeCorrect`, `FramePageUntorn`, `FramePageWhole`,
`FrameRefusedOnlyIfDisturbed`, and `FramePageWholeAndFresh`. The last is about
behaviours in which a new attempt does not draw a request id that an answer still on its
way carries (`FreshIds`); the id is a u8 that wraps, an answer may be delayed without
bound, and would then be taken for an answer to the new attempt. In the run the ids do not come round, so TLC
checks the property with no such condition. Refusals are traced back by an invariant
that, as long as nothing is disturbed, knows for each place of the program counter what
is in which queue.

**TransportAnnounceProofs**: `TransportAnnouncedInSession`. The property speaks of a
peripheral at rest; inductive is that in every state of a session the selector that was
sampled is announced, queued or owed.

**FirmwareTaskProofs**, about `FirmwareTasks`.

* `PanicBootShowsThePast`, `PanicReportSurvives`: the handler clears the
  marker before it writes a field and sets it after the last, so whatever interrupts it
  leaves a marker only over a record that is whole; the boot trace agrees with the resets
  there were once a boot is marked, and stands for none until then. `RecordInv` and
  `TraceInv` have a clause for each label between two stores. The cause ring of a
  marked trace is scrubbed, about to be, or a reset came in between (`unscrubbed`).
* `MagicClearsWhatWasAsked`: the processor lags behind the keys, so the invariant runs the
  events that are queued from the processor's state (`Course`) and says that this ends
  where the keys have got to. It needs `OneClearKey`: two keys bound to the clear action
  share one pair of flags in the code, and then the property is false. The Go60's
  keymap binds it once (`go60-rmk/keyboard.toml:110`), the Glove80's not at all.
* `HitsEachPressOnce`, `HitsTakeNoSlotOffline`: each press is conserved along the buses, the
  split link, the queue and the engines' counters.
* `ChainOffIsDark`: a rail that is down has dark pixels; pixels are lit only under
  `frame_visible`, unless a latch was sent on a rail that had not settled; a suspend writes
  a dark frame. Renderer and monitor interleave anywhere between the renderer's awaits.

**HostApplyProofs**, about `HostApply`.

* `ResetReportIsTrue` for every timeout.
* `UnlistedStaysAlone`: nothing outside what the file governs is in the plan or in the queue.
* `AppliedStaysDurable`. `QueueInv` says that flash would equal RAM if the queue were
  written out (`Drained`); `VerdictInv` that from the read-back on, every queued write has
  the barrier's marker behind it. An answered barrier has emptied the queue up to there.
* `KeysNeverLead`. `OrderInv` says that a changed key is in RAM only once no table is left
  to ask for, and in flash only once none is queued. It rests on lemmas about the whole
  planning algorithm (`ApplyRequestsType`): the requests `apply_snapshot` computes are of
  the file, tables stand before keys, and every slot that differs is asked for.

  The last two have the hypothesis `MetadataEndpoint`. Firmware that does not serve it
  gives the host no sign that its queue is written, so nothing of the kind can hold.

**HostToolProofs**, about `HostTools`: `FailedReplacementCleansUp`,
`LightingSuccessIsExact` (the invariant is that a revision stands for one state, and a
host's own transaction for a prefix of its cells; and `LockInv`: the transaction a failed
replacement leaves open saw the lock engaged, which is the only thing that refuses its
abort), `KeymapReportsTheTruth` (what has been
read or written up to the current place is so unless another host touched it). The shape
of commands they assume is what the command line admits (`CommandShape`). Then the host's
conversions, each for every value of its constants:

* `RulesAreWrittenOrRefused`, about `ConditionalRules`: whatever is held was encoded from
  the file's rule in the form the firmware reads (`HeldIsTheRule`), and from the capability
  check on the rule asks only for what that form carries (`RuleInv`). So no gate is lost,
  and a refusal after the first write can only be old firmware's.
* `EntriesMeanWhatIsWritten`, about `LayerEntries`: `EntryInv` relates what was produced so
  far to the entries it was produced from: the grid to the entries bound (`Grids`), the
  rules to the entries lit in the base's order (`Written`).
* `KeysComeBack`, about `Keycodes`. Most of it is that every code is in exactly one
  of the ranges `from_via_keycode` tries in turn, and that what is printed of a code parses to
  that code again (`CodeComesBack`, `ActionComesBack`).
* `MacroTablesArrive`, about `MacroSpace`: while the table is written the slots are the
  file's up to a place of the order and the device's after it (`WriteInv`), and
  the order puts what shrinks first, so the bytes in use never exceed the larger of the
  two tables (`UsedMonotone`, `UsedPadded`). The order is any that `Check` may choose among
  macros that grow by the same amount; `LongMacro > 0` is all that is assumed of the long macro.

**SequenceFacts** has what the others need and the library states with operator
parameters only: induction over the naturals for a set, the recursion of `FlattenSeq`,
what its elements are and from which place of which part each one comes (`FlattenPlaces`),
minima and maxima of sets of naturals.

Assumptions. The modules' ASSUMEs are about constants and TLC evaluates them on the runs:
`TaskConstants`, `HandoverConstants`, `SessionConstants`, `ConversionConstants`,
`WireConstants`, `LinkConstants` (messages and rules are of their types, the parameters fit
their array, a board has at most 128 slots because a rule has seven bits for one, and None
is not one of the values it may stand for), and those the components declare. The
hypotheses that are not of this kind are the four named above: `~Gated`, `FreshIds`,
`OneClearKey`, `MetadataEndpoint`.

Only model-checked:

* All liveness (`EventuallyReplicated`, `EveryRequestAnswered`, `ChainSettles`,
  `BootReachesPeripheral`, `HostsCatchUp`, `CommandsEnd`): fairness and ENABLED are out of
  the prover's reach.
* `PulledFileIsFaithful` and `AttestationIsExact`: they compare two conversions of the same
  data through `SelectSeq` and the folds that sort a set into a sequence. TLC enumerates
  the inputs instead.

## Not modelled

* Generation wrap-around. The code also spends a generation on a refused
  transfer, so with a transfer stuck in the queue the u8 comes round after 256
  attempts (12.8 s at the 50 ms backoff), and an Ack still in flight would then
  match. `GenerationFresh` excludes this; `InFlight` is the assumption. Status and
  frame request ids wrap likewise.
* A reboot of the central, which restarts generation and revision.
* In `LightingReplication`, other users of `SPLIT_APP_TX` and `SPLIT_APP_PERIPH_TX`
  except status requests and heartbeats. They are dropped when there is no room and
  change no replication state; `ReactiveHits`, `MagicKeys`, `TransportAnnounce` and
  `RemoteFrame` have them, with replication as the traffic that fills the queue.
* Collisions of FNV-1a. Layer 63, and battery node 63 with the charge Unknown, which the
  codec cannot tell from an absent value; both boards have 16 layers.
* A snapshot with more packets than `SPLIT_APP_TX` holds, which is refused for ever: the
  capacity is rmk's.
* Two keys bound to the bond-clear action, which share one pair of flags.
* An authority that exports no extension layers at all. Its digest hashes a 0 for them
  (`split_lighting.rs:1566`), the stage always stores some (`:1985`), so the two would never
  agree; the samples of `ReplicaDigest` always have some.
* A context that changes without an event. In `LightingReplication` each change comes with
  one; `powered` and `bonded_slots` (`split_lighting.rs:120`) have no subscription of their
  own (`central_lighting.rs:649`), so a change of theirs alone waits for the next event.
* A file that `config apply` refuses half-way: a lighting table without effects is refused
  only after keymap and tables are written (`moergo-control/src/config.rs:1491`). Files
  without `default_layer` are in `ApplyPlan`, though the parser always supplies one.
* RESETREAS bits that add up over two resets with no boot between that clears them.
* The arithmetic of output colour limits, local layer edges of the peripheral (they
  copy what rmk reports), the status cache and its observability counters.
* Parsing of TOML and command lines, USB HID framing (`rynk_hid.rs`), device choice,
  battery and text views, lighting preferences (constants), the import of MoErgo
  layouts (`moergo/*`: one pass over tables of names), the WASM bindings, the board
  crates and `xtask`: I/O, formatting and wiring without a protocol of their own.

## Plan

What is left to prove: `PulledFileIsFaithful`, `AttestationIsExact`, and the type
invariants of `TransportAnnounce` and of the conversions.
