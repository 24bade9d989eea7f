--------------------------- MODULE ReplicaDigest ---------------------------
(***************************************************************************)
(* replica_digests: what the two halves compare to find out that they show *)
(* different things. A digest is modelled by the bytes it hashes (FNV-1a   *)
(* is taken to have no collisions), so two digests are equal exactly when  *)
(* the code feeds the hash the same bytes. The replica is what decode and  *)
(* the stage make of the packets of the authority's snapshot.              *)
(***************************************************************************)
EXTENDS WireCodec

CONSTANT Snapshots     \* the engine states that are exported
VARIABLES
    authority,         \* the central's exported snapshot
    replica,           \* the peripheral's, or None
    transferred        \* whether the replica is a transfer of the authority

vars == <<authority, replica, transferred>>

LIGHTING_REPLICA_DIGEST_SCHEMA_V1 == 1
LAYER_CAPACITY == 64   \* LayerState::CAPACITY

-----------------------------------------------------------------------------
(* The bytes fed to the hash. *)

\* Fnv32::domain, then a count of the cells that follow.
Domain(domain) == <<LIGHTING_REPLICA_DIGEST_SCHEMA_V1, domain>>

hash_effect(e) == <<EffectWire(e)[1]>> \o EffectBytes(e)

Unframed(params) ==   \* mutant: neither a presence byte nor a length
    IF params = None THEN <<>> ELSE <<params.effect>> \o params.values
hash_params(params) ==
    IF params = None THEN <<0>>
    ELSE <<1, params.effect, Len(params.values)>> \o params.values

\* A presence byte, then the value's bytes if there is one.
Optional(x, bytes) == IF x = None THEN <<0>> ELSE <<1>> \o bytes
\* The same with a zero in the place of an absent value.
OrZero(x, byte) == <<Bit(x # None), IF x = None THEN 0 ELSE byte>>

hash_connection(c) ==
    Optional(c.transport, <<Code(Transports, c.transport)>>)
    \o OrZero(c.profile, c.profile)
    \o Optional(c.ble_state, <<Code(BleStates, c.ble_state)>>)
    \o Optional(c.bonded, <<c.bonded.slot, Bit(c.bonded.bonded)>>)
    \o OrZero(c.usb_connected, Bit(c.usb_connected))

hash_conditions(c) ==
    Optional(c.layer, <<c.layer.layer, Bit(c.layer.active)>>)
    \o Optional(c.battery,
         <<c.battery.node>> \o OrZero(c.battery.min_level, c.battery.min_level)
         \o OrZero(c.battery.max_level, c.battery.max_level)
         \o <<Code(ChargeConditions, c.battery.charge)>>)
    \o Optional(c.connection, hash_connection(c.connection))
    \o Optional(c.output_mode, <<Code(OutputModes, c.output_mode)>>)
    \o Optional(c.effects, <<Bit(c.effects.enabled)>>)

SettingsBytes(s) ==
    LET b == s.background IN
    Domain(1)
    \o <<Bit(s.output_enabled), s.output_brightness, Bit(b.enabled), b.hue, b.saturation,
         b.value, b.speed, Bit(b.breathe), Code(OutputModes, s.output_mode),
         Code(Policies, s.scene_policy)>>
    \o Optional(s.extension, <<s.extension.effect, s.extension.palette,
                               s.extension.value, s.extension.speed>>)
    \o Optional(s.extension_layers,
                OrZero(s.extension_layers.overlay, s.extension_layers.overlay))
    \o hash_params(s.extension_params) \o hash_params(s.extension_overlay_params)

RightCells(cells) == SelectSeq(cells, LAMBDA c : c.slot >= LEDS_PER_HALF)

\* The first of the cells that pass the test, as a sequence of at most one.
First(cells, Test(_)) ==
    LET found == SelectSeq(cells, Test) IN IF found = <<>> THEN <<>> ELSE <<found[1]>>

\* The overlay is hashed by slot and the scenes by layer and slot, whatever
\* the order of the tables.
OverlayBytes(s) ==
    LET Slot(n) == LEDS_PER_HALF + n - 1 IN
    Domain(2) \o put_u16(Len(RightCells(s.overlay)))
    \o FlattenSeq([n \in 1..(TOTAL_LEDS - LEDS_PER_HALF) |->
         LET found == First(s.overlay, LAMBDA c : c.slot = Slot(n)) IN
            IF found = <<>> THEN <<>>
            ELSE put_u16(Slot(n)) \o hash_effect(found[1].effect)])

ScenesBytes(s) ==
    LET PerHalf == TOTAL_LEDS - LEDS_PER_HALF
        Layer(n) == (n - 1) \div PerHalf
        Slot(n) == LEDS_PER_HALF + ((n - 1) % PerHalf)
    IN  Domain(3) \o put_u16(Len(RightCells(s.scenes)))
        \o FlattenSeq([n \in 1..(LAYER_CAPACITY * PerHalf) |->
             LET found == First(s.scenes, LAMBDA c : c.layer = Layer(n) /\ c.slot = Slot(n)) IN
                IF found = <<>> THEN <<>>
                ELSE <<Layer(n)>> \o put_u16(Slot(n)) \o hash_effect(found[1].effect)])

\* Rules are hashed in table order: a later one covers an earlier one.
ConditionalBytes(s) ==
    Domain(4) \o put_u16(Len(RightCells(s.cond)))
    \o FlattenSeq([i \in DOMAIN RightCells(s.cond) |->
         LET c == RightCells(s.cond)[i] IN
            put_u16(c.slot) \o hash_conditions(c.conditions) \o hash_effect(c.effect)])

replica_digests(s) ==
    [schema |-> LIGHTING_REPLICA_DIGEST_SCHEMA_V1, revision |-> s.revision,
     settings |-> SettingsBytes(s), overlay |-> OverlayBytes(s), scenes |-> ScenesBytes(s),
     conditional_scenes |-> ConditionalBytes(s)]

-----------------------------------------------------------------------------
(* One snapshot over the wire: the packets of walk_snapshot that carry      *)
(* durable state, and the stage's assembly of them.                         *)

Msg(s, name, fields) == [name |-> name, generation |-> 1, revision |-> s.revision] @@ fields

ConnectionOnly(s, c) ==   \* mutant: the second packet is sent for a connection gate only
    <<Msg(s, "ConditionalSceneCell", c)>>
    \o (IF c.conditions.connection = None THEN <<>>
        ELSE <<Msg(s, "ConditionalSceneExt", [connection |-> c.conditions.connection,
                                              effects |-> c.conditions.effects])>>)
RulePackets(s, c) ==
    LET ext == Msg(s, "ConditionalSceneExt", [connection |-> c.conditions.connection,
                                              effects |-> c.conditions.effects])
    IN  <<Msg(s, "ConditionalSceneCell", c)>>
        \o (IF c.conditions.connection = None /\ c.conditions.effects = None
            THEN <<>> ELSE <<ext>>)

walk_snapshot(s) ==
    <<Msg(s, "Begin",
        [cell_count |-> Len(RightCells(s.overlay)), scene_count |-> Len(RightCells(s.scenes)),
         scene_policy |-> s.scene_policy, sample_time_ms |-> <<0, 0, 0, 0>>,
         output_enabled |-> s.output_enabled, output_brightness |-> s.output_brightness,
         background |-> s.background, output_mode |-> s.output_mode]),
      Msg(s, "WakeLayers", [wake_layers |-> s.wake_layers]),
      Msg(s, "Extension", [extension |-> s.extension, params |-> s.extension_params]),
      Msg(s, "ExtensionOverlay",
        [overlay |-> IF s.extension_layers = None THEN None ELSE s.extension_layers.overlay,
         params |-> s.extension_overlay_params])>>
    \o [i \in DOMAIN RightCells(s.overlay) |-> Msg(s, "Cell", RightCells(s.overlay)[i])]
    \o [i \in DOMAIN RightCells(s.scenes) |-> Msg(s, "SceneCell", RightCells(s.scenes)[i])]
    \o FlattenSeq([i \in DOMAIN RightCells(s.cond) |-> RulePackets(s, RightCells(s.cond)[i])])

\* The fields a message has besides its heading.
Body(m) == [f \in DOMAIN m \ {"name", "generation", "revision"} |-> m[f]]

\* SnapshotStage::apply of one packet of a transfer that loses none.
ApplyPacket(s, m) ==
    CASE m.name = "Begin" ->
            [revision |-> m.revision, scene_policy |-> m.scene_policy,
             output_enabled |-> m.output_enabled, output_brightness |-> m.output_brightness,
             background |-> m.background, output_mode |-> m.output_mode,
             wake_layers |-> <<0, 0, 0, 0>>, extension |-> None, extension_layers |-> None,
             extension_params |-> None, extension_overlay_params |-> None,
             overlay |-> <<>>, scenes |-> <<>>, cond |-> <<>>]
      [] m.name = "WakeLayers" -> [s EXCEPT !.wake_layers = m.wake_layers]
      [] m.name = "Extension" ->
            [s EXCEPT !.extension = m.extension, !.extension_params = m.params]
      [] m.name = "ExtensionOverlay" ->
            [s EXCEPT !.extension_layers = [overlay |-> m.overlay],
                      !.extension_overlay_params = m.params]
      [] m.name = "Cell" -> [s EXCEPT !.overlay = Append(@, Body(m))]
      [] m.name = "SceneCell" -> [s EXCEPT !.scenes = Append(@, Body(m))]
      [] m.name = "ConditionalSceneCell" -> [s EXCEPT !.cond = Append(@, Body(m))]
      [] m.name = "ConditionalSceneExt" ->
            [s EXCEPT !.cond[Len(s.cond)].conditions.connection = m.connection,
                      !.cond[Len(s.cond)].conditions.effects = m.effects]

WholeBoard(s) == s   \* mutant: the cells of both halves are replicated
\* What the peripheral commits of a transfer that loses nothing.
Replicated(s) ==
    FoldLeft(LAMBDA staged, m : ApplyPacket(staged, decode(encode(m))), None, walk_snapshot(s))

-----------------------------------------------------------------------------
Init == authority \in Snapshots /\ replica = None /\ transferred = FALSE

\* The central's engine is in another state than the one that was sent. Its
\* revisions start over when it reboots, so both may carry the same one.
Edit(s) == authority' = s /\ transferred' = FALSE /\ UNCHANGED replica

\* A transfer commits on the peripheral.
Transfer ==
    /\ replica' = Replicated(authority) /\ transferred' = TRUE
    /\ UNCHANGED authority

Next == (\E s \in Snapshots : Edit(s)) \/ Transfer
Spec == Init /\ [][Next]_vars

-----------------------------------------------------------------------------
\* The replica has a snapshot's fields, and no cell of the left half.
TypeOK ==
    /\ authority \in Snapshots /\ transferred \in BOOLEAN
    /\ replica # None =>
         /\ DOMAIN replica = DOMAIN authority
         /\ \A table \in {"overlay", "scenes", "cond"} :
              replica[table] = RightCells(replica[table])

\* What the right half shows of a snapshot and the wire carries: its tables
\* without the order of overlay and scenes, and without the overlay's times
\* to live.
Carried == {"layer", "battery", "output_mode", "connection", "effects"}
Shown(s) ==
    [f \in DOMAIN s \ {"wake_layers", "overlay", "scenes", "cond"} |-> s[f]] @@
    [overlay |-> {[slot |-> c.slot, effect |-> c.effect] : c \in Range(RightCells(s.overlay))},
     scenes |-> Range(RightCells(s.scenes)),
     cond |-> [i \in DOMAIN RightCells(s.cond) |->
        LET c == RightCells(s.cond)[i] IN
            [c EXCEPT !.conditions = [gate \in Carried |-> c.conditions[gate]]]]]

\* The attestation the peripheral sends is that of the central's own digests
\* once a transfer is applied: otherwise the halves would count as diverged
\* though they show the same.
TransferAttests ==
    transferred => replica_digests(replica) = replica_digests(authority)

\* The digests are equal exactly when the two halves show the same: no two
\* different snapshots feed the hash the same bytes, and an order or a left
\* half that makes no difference to the right half does not tell them apart.
DigestsTellApart ==
    replica # None =>
        (replica_digests(replica) = replica_digests(authority)
           <=> Shown(replica) = Shown(authority))

\* The attestation is exact: an applied transfer attests, and nothing attests
\* that would show something else.
AttestationIsExact == TransferAttests /\ DigestsTellApart

\* replica_digests: "Canonical FNV-1a-32 digests of the durable right-half
\* projection. Overlay TTL lifetime, context, clocks, and transport
\* generation are fast state and deliberately excluded." So equal digests
\* mean equal wake layers and equal gates as well.
DigestsCoverDurable ==
    (replica # None /\ replica_digests(replica) = replica_digests(authority)) =>
        /\ replica.wake_layers = authority.wake_layers
        /\ RightCells(replica.cond) = RightCells(authority.cond)

=============================================================================
