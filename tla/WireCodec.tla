----------------------------- MODULE WireCodec -----------------------------
(***************************************************************************)
(* Message::encode and Message::decode of split_lighting.rs: the bytes the *)
(* two halves exchange. A packet is a function from byte offsets, counted  *)
(* from 0 as in the code, to bytes. A u16 is a number; wider integers are  *)
(* the tuple of their 16-bit words, lowest first, and a layer set or a     *)
(* time is such a tuple of four. Colours are triples of bytes.             *)
(***************************************************************************)
EXTENDS Integers, Sequences, FiniteSets, SequencesExt

CONSTANTS
    None,                   \* Option::None
    LEDS_PER_HALF,
    TOTAL_LEDS,
    EXTENSION_PARAM_CHUNK,  \* values one packet of effect parameters holds
    SPLIT_APP_MSG_MAX       \* the longest payload of the split channel

VERSION == 11
MAX == 255                  \* u8::MAX, the wire's "no value"
FRAME_CHUNK_CELLS == 4

Byte == 0..255
Word == 0..(256 * MAX + MAX)
u32 == Word \X Word
u64 == Word \X Word \X Word \X Word
Color == Byte \X Byte \X Byte
Maybe(S) == S \cup {None}

\* The tag and the length of each message on the wire.
Layout == [
    Begin |-> <<1, 26>>, Context |-> <<2, 24>>, Cell |-> <<3, 26>>,
    Commit |-> <<4, 9>>, Ack |-> <<5, 7>>, SceneCell |-> <<6, 23>>,
    Extension |-> <<7, 14 + EXTENSION_PARAM_CHUNK>>,
    ConditionalSceneBegin |-> <<8, 8>>, ConditionalSceneCell |-> <<9, 26>>,
    ExtensionOverlay |-> <<10, 11 + EXTENSION_PARAM_CHUNK>>,
    EffectHit |-> <<11, 3>>, ContextUpdate |-> <<12, 24>>,
    ConditionalSceneExt |-> <<13, 11>>, Attestation |-> <<14, 24>>,
    ReplicaProbe |-> <<15, 3>>, StatusRequest |-> <<16, 3>>,
    StatusReport |-> <<17, 23>>, FrameChunkRequest |-> <<18, 5>>,
    FrameChunk |-> <<19, 25>>, WakeLayers |-> <<20, 15>>,
    TransportStatus |-> <<21, 4>>, DebugTrace |-> <<22, 26>>,
    DebugPanicLoc |-> <<23, 26>>]
TagOf(name) == Layout[name][1]
LengthOf(name) == Layout[name][2]

\* The compile-time assertions that every packet fits the split channel.
PacketsFit == \A name \in DOMAIN Layout : LengthOf(name) <= SPLIT_APP_MSG_MAX

\* Enumerations, in the order of their wire codes from 0.
Policies == <<"EffectiveOnly", "ActiveStack">>
OutputModes == <<"AlwaysOn", "AlwaysOff", "PoweredOnly">>
ChargeConditions == <<"Any", "Charging", "Discharging", "Unknown">>
BatteryStates == <<"Unavailable", "Charging", "Discharging", "Unknown">>
Transports == <<"Usb", "Ble", "NoneActive">>
BleStates == <<"Advertising", "Connected", "Inactive">>
Indicators == <<"num_lock", "caps_lock", "scroll_lock", "compose", "kana">>

Code(names, x) == (CHOOSE i \in DOMAIN names : names[i] = x) - 1
Name(names, code) == names[code + 1]
Known(names, code) == code < Len(names)

Bit(b) == IF b THEN 1 ELSE 0
HasBit(byte, i) == (byte \div 2^i) % 2 = 1
OrElse(x, default) == IF x = None THEN default ELSE x
Unless(x, none) == IF x = none THEN None ELSE x

-----------------------------------------------------------------------------
(* Integers on the wire: little-endian. *)

PutUnshifted(v) == <<v % 256, v>>   \* mutant: the high byte is not shifted down
put_u16(v) == <<v % 256, v \div 256>>
put_u32(v) == put_u16(v[1]) \o put_u16(v[2])
put_u64(v) == put_u32(v) \o put_u32(<<v[3], v[4]>>)

get_u16(bytes, at) == bytes[at] + 256 * bytes[at + 1]
get_u32(bytes, at) == <<get_u16(bytes, at), get_u16(bytes, at + 2)>>
get_u64(bytes, at) == [word \in 1..4 |-> get_u16(bytes, at + 2 * (word - 1))]

\* A byte that must be 0 or 1.
flag(byte) == byte = 1
FlagOK(byte) == byte \in {0, 1}

\* Three flags as a number, the first in the lowest bit.
Flags(a, b, c) == Bit(a) + 2 * Bit(b) + 4 * Bit(c)

\* The set of lit indicators as five bits.
indicators(lit) ==
    LET lamp(i) == Bit(Indicators[i] \in lit)
    IN  lamp(1) + 2 * lamp(2) + 4 * lamp(3) + 8 * lamp(4) + 16 * lamp(5)
get_indicators(byte) == {Indicators[i] : i \in {j \in 1..5 : HasBit(byte, j - 1)}}

put_battery(status) == <<Code(BatteryStates, status.state), OrElse(status.level, MAX)>>
get_battery(bytes, at) ==
    [state |-> Name(BatteryStates, bytes[at]), level |-> Unless(bytes[at + 1], MAX)]
BatteryOK(bytes, at) ==
    /\ Known(BatteryStates, bytes[at])
    /\ bytes[at + 1] \in 0..100 \cup {MAX}
    /\ bytes[at] = 0 => bytes[at + 1] = MAX

-----------------------------------------------------------------------------
(* Effects: <<kind, colour, period, phase, auxiliary>> on the wire. *)

EffectWire(e) ==
    CASE e.kind = "Solid"   -> <<0, e.color, <<0, 0>>, <<0, 0>>, 0>>
      [] e.kind = "Blink"   -> <<1, e.color, e.period_ms, e.phase_ms, e.duty>>
      [] e.kind = "Breathe" -> <<2, e.color, e.period_ms, e.phase_ms, e.step_ms>>

\* Everything but the kind, laid out from an offset on.
EffectBytes(e) ==
    LET w == EffectWire(e) IN w[2] \o put_u32(w[3]) \o put_u32(w[4]) \o put_u16(w[5])

EffectAt(kind, bytes, at) ==
    LET color == <<bytes[at], bytes[at + 1], bytes[at + 2]>>
        period == get_u32(bytes, at + 3)
        phase == get_u32(bytes, at + 7)
        auxiliary == get_u16(bytes, at + 11)
    IN  CASE kind = 0 -> [kind |-> "Solid", color |-> color]
          [] kind = 1 -> [kind |-> "Blink", color |-> color, period_ms |-> period,
                          phase_ms |-> phase, duty |-> auxiliary]
          [] kind = 2 -> [kind |-> "Breathe", color |-> color, period_ms |-> period,
                          phase_ms |-> phase, step_ms |-> auxiliary]
AnyDuty(kind, bytes, at) == kind \in 0..2   \* mutant: a duty cycle over 100 % is let in
EffectOK(kind, bytes, at) ==
    kind \in {0, 2} \/ (kind = 1 /\ get_u16(bytes, at + 11) <= 100)
RightHalf(slot) == slot \in LEDS_PER_HALF..(TOTAL_LEDS - 1)

-----------------------------------------------------------------------------
(* Message::encode *)

\* A packet of the message's length, zero except for the version, the tag and
\* the byte strings of puts at their offsets.
Packet(name, puts) ==
    LET all == puts \cup {<<0, <<VERSION, TagOf(name)>>>>}
        At(i) == {p \in all : i \in p[1]..(p[1] + Len(p[2]) - 1)}
    IN  [i \in 0..(LengthOf(name) - 1) |->
            IF At(i) = {} THEN 0
            ELSE LET p == CHOOSE p \in At(i) : TRUE IN p[2][i - p[1] + 1]]

\* The generation and the revision that head the packets of a transaction.
Heading(m) == <<2, <<m.generation>> \o put_u32(m.revision)>>

EncodeBegin(m) == {
    Heading(m), <<7, <<m.cell_count>>>>, <<8, put_u64(m.sample_time_ms)>>,
    <<16, <<Bit(m.output_enabled), m.output_brightness,
            Bit(m.background.enabled) + 128 * Bit(m.background.breathe),
            m.background.hue, m.background.saturation, m.background.value,
            m.background.speed>>>>,
    <<23, <<m.scene_count, Code(Policies, m.scene_policy),
            Code(OutputModes, m.output_mode)>>>>}

\* Context and ContextUpdate share a body; bytes 7 to 16 are reserved.
EncodeContext(m) == {
    Heading(m), <<17, <<indicators(m.indicators)>>>>,
    <<18, put_battery(m.left)>>, <<20, put_battery(m.right)>>,
    <<22, <<Bit(m.powered), m.bonded_slots>>>>}

\* The parameter block of an effect: how many values, whose, and the values.
ParamBytes(params) ==
    IF params = None THEN <<>>
    ELSE <<Len(params.values), params.effect>> \o params.values

EncodeExtension(m) == {
    Heading(m),
    <<7, IF m.extension = None THEN <<>>
         ELSE <<1, m.extension.effect, m.extension.palette, m.extension.value,
                m.extension.speed>>>>,
    <<12, ParamBytes(m.params)>>}
EncodeExtensionOverlay(m) == {
    Heading(m), <<7, IF m.overlay = None THEN <<>> ELSE <<1, m.overlay>>>>,
    <<9, ParamBytes(m.params)>>}

EncodeCell(m) == {
    Heading(m), <<7, <<m.slot, EffectWire(m.effect)[1]>> \o EffectBytes(m.effect)>>,
    <<22, put_u32(OrElse(m.ttl_ms, <<0, 0>>))>>}
EncodeSceneCell(m) == {
    Heading(m),
    <<7, <<m.layer, m.slot, EffectWire(m.effect)[1]>> \o EffectBytes(m.effect)>>}

\* The kind of the effect is split over the top bits of bytes 7 and 8, and the
\* gates that fit are packed into what is left.
EncodeConditionalSceneCell(m) ==
    LET kind == EffectWire(m.effect)[1]
        layer == m.conditions.layer
        battery == m.conditions.battery
        mode == m.conditions.output_mode
    IN  {Heading(m),
         <<7, <<m.slot + 128 * (kind % 2),
                (IF layer = None THEN 63 ELSE (layer.layer % 64) + 64 * Bit(layer.active))
                   + 128 * (kind \div 2)>>>>,
         <<9, IF battery = None THEN <<MAX, MAX, MAX>>
              ELSE <<(battery.node % 64) + 64 * Code(ChargeConditions, battery.charge),
                     OrElse(battery.min_level, MAX), OrElse(battery.max_level, MAX)>>>>,
         <<12, EffectBytes(m.effect)>>,
         <<25, <<IF mode = None THEN MAX ELSE Code(OutputModes, mode)>>>>}

\* ConnectionCondition::default
NoConnection == [transport |-> None, profile |-> None, ble_state |-> None,
                 bonded |-> None, usb_connected |-> None]

EncodeConditionalSceneExt(m) ==
    LET c == OrElse(m.connection, NoConnection) IN {
        Heading(m),
        <<7, <<(IF c.transport = None THEN 0 ELSE 128 + Code(Transports, c.transport))
               + (IF c.ble_state = None THEN 0 ELSE 64 + 4 * Code(BleStates, c.ble_state))
               + (IF m.effects = None THEN 0 ELSE 32 + 16 * Bit(m.effects.enabled)),
               IF c.profile = None THEN 0 ELSE 128 + (c.profile % 128),
               IF c.bonded = None THEN 0
               ELSE 128 + 64 * Bit(c.bonded.bonded) + (c.bonded.slot % 64),
               IF c.usb_connected = None THEN MAX ELSE Bit(c.usb_connected)>>>>}

EncodeAttestation(m) ==
    {<<2, <<m.generation, m.schema>> \o put_u32(m.revision) \o put_u32(m.settings)
          \o put_u32(m.overlay) \o put_u32(m.scenes) \o put_u32(m.conditional_scenes)>>}

EncodeStatusReport(m) == {
    <<2, <<m.request_id, Bit(m.applied_revision # None)>>
          \o put_u32(OrElse(m.applied_revision, <<0, 0>>)) \o put_u32(m.engine_revision)>>,
    <<12, <<m.effective, m.default>> \o put_u64(m.active)>>,
    <<22, <<Flags(m.powered, m.wake_active, m.effective_output_enabled)>>>>}

EncodeFrameChunk(m) == {
    <<2, <<m.request_id, Bit(m.revision # None)>> \o put_u32(OrElse(m.revision, <<0, 0>>))>>,
    <<8, put_u16(m.total) \o put_u16(m.start) \o <<m.len>>>>,
    <<13, m.cells[1] \o m.cells[2] \o m.cells[3] \o m.cells[4]>>}

AtMost(n, bound) == IF n > bound THEN bound ELSE n

EncodeSmall(m) ==
    CASE m.name = "WakeLayers" -> {Heading(m), <<7, put_u64(m.wake_layers)>>}
      [] m.name = "ConditionalSceneBegin" -> {Heading(m), <<7, <<m.cell_count>>>>}
      [] m.name = "Commit" -> {Heading(m), <<7, <<m.cell_count, m.scene_count>>>>}
      [] m.name = "Ack" -> {Heading(m)}
      [] m.name = "EffectHit" -> {<<2, <<m.slot>>>>}
      [] m.name = "ReplicaProbe" -> {<<2, <<m.generation>>>>}
      [] m.name = "StatusRequest" -> {<<2, <<m.request_id>>>>}
      [] m.name = "FrameChunkRequest" -> {<<2, <<m.request_id>> \o put_u16(m.offset)>>}
      [] m.name = "TransportStatus" -> {<<2, <<Bit(m.auto), Bit(m.wired)>>>>}
      [] m.name = "DebugTrace" ->
            {<<2, put_u32(m.stage) \o put_u32(m.boots) \o put_u32(m.rr[1])
                  \o put_u32(m.rr[2]) \o put_u32(m.cause[1]) \o put_u32(m.cause[2])>>}
      [] m.name = "DebugPanicLoc" -> {<<2, <<AtMost(m.len, 23)>> \o m.text>>}

encode(m) ==
    Packet(m.name,
        CASE m.name = "Begin" -> EncodeBegin(m)
          [] m.name \in {"Context", "ContextUpdate"} -> EncodeContext(m)
          [] m.name = "Extension" -> EncodeExtension(m)
          [] m.name = "ExtensionOverlay" -> EncodeExtensionOverlay(m)
          [] m.name = "Cell" -> EncodeCell(m)
          [] m.name = "SceneCell" -> EncodeSceneCell(m)
          [] m.name = "ConditionalSceneCell" -> EncodeConditionalSceneCell(m)
          [] m.name = "ConditionalSceneExt" -> EncodeConditionalSceneExt(m)
          [] m.name = "Attestation" -> EncodeAttestation(m)
          [] m.name = "StatusReport" -> EncodeStatusReport(m)
          [] m.name = "FrameChunk" -> EncodeFrameChunk(m)
          [] OTHER -> EncodeSmall(m))

-----------------------------------------------------------------------------
(* Message::decode *)

Err(error) == [error |-> error]
DecodeErrors == {"Version", "Tag", "Length", "Value"}
Decoded(r) == "name" \in DOMAIN r

\* The message, if the bytes it is read from pass the checks of its arm.
Checked(ok, m) == IF ok THEN m ELSE Err("Value")

\* A message of a transaction: the fields that head its packet, and the rest.
Headed(name, b, rest) ==
    LET head == [name |-> name, generation |-> b[2], revision |-> get_u32(b, 3)]
    IN  [f \in DOMAIN head \cup DOMAIN rest |->
            IF f \in DOMAIN head THEN head[f] ELSE rest[f]]

DecodeBegin(b) ==
    Checked(/\ Known(Policies, b[24]) /\ FlagOK(b[16]) /\ Known(OutputModes, b[25]),
        Headed("Begin", b,
        [cell_count |-> b[7], scene_count |-> b[23],
         scene_policy |-> Name(Policies, b[24]), sample_time_ms |-> get_u64(b, 8),
         output_enabled |-> flag(b[16]), output_brightness |-> b[17],
         background |-> [enabled |-> b[18] % 128 # 0, breathe |-> HasBit(b[18], 7),
                         hue |-> b[19], saturation |-> b[20], value |-> b[21],
                         speed |-> b[22]],
         output_mode |-> Name(OutputModes, b[25])]))

SwappedBatteries(name, b) ==   \* mutant: the batteries at each other's offset
    Headed(name, b,
        [indicators |-> get_indicators(b[17]), powered |-> flag(b[22]),
         bonded_slots |-> b[23], left |-> get_battery(b, 20), right |-> get_battery(b, 18)])
DecodeContext(name, b) ==
    Checked(FlagOK(b[22]) /\ BatteryOK(b, 18) /\ BatteryOK(b, 20),
        Headed(name, b,
        [indicators |-> get_indicators(b[17]), powered |-> flag(b[22]),
         bonded_slots |-> b[23], left |-> get_battery(b, 18), right |-> get_battery(b, 20)]))

\* The parameter block at an offset: no values means no parameters.
ParamsAt(b, at) ==
    IF b[at] = 0 THEN None
    ELSE [effect |-> b[at + 1], values |-> [i \in 1..b[at] |-> b[at + 1 + i]]]
ParamsOK(b, at) == b[at] <= EXTENSION_PARAM_CHUNK

DecodeExtension(b) ==
    Checked(ParamsOK(b, 12) /\ FlagOK(b[7]),
        Headed("Extension", b,
        [extension |-> IF flag(b[7]) THEN [effect |-> b[8], palette |-> b[9],
                                           value |-> b[10], speed |-> b[11]]
                       ELSE None,
         params |-> ParamsAt(b, 12)]))
DecodeExtensionOverlay(b) ==
    Checked(ParamsOK(b, 9) /\ FlagOK(b[7]),
        Headed("ExtensionOverlay", b,
        [overlay |-> IF flag(b[7]) THEN b[8] ELSE None, params |-> ParamsAt(b, 9)]))

DecodeCell(b) ==
    Checked(RightHalf(b[7]) /\ EffectOK(b[8], b, 9),
        Headed("Cell", b,
        [slot |-> b[7], effect |-> EffectAt(b[8], b, 9),
         ttl_ms |-> Unless(get_u32(b, 22), <<0, 0>>)]))
DecodeSceneCell(b) ==
    Checked(RightHalf(b[8]) /\ EffectOK(b[9], b, 10),
        Headed("SceneCell", b,
        [layer |-> b[7], slot |-> b[8], effect |-> EffectAt(b[9], b, 10)]))

\* A ConditionSet without a gate.
NoConditions == [layer |-> None, battery |-> None, layers |-> None,
                 indicators |-> None, maintenance |-> None, split_transport |-> None,
                 output_mode |-> None, connection |-> None, effects |-> None]

\* The gates of the wire form. The others arrive in the packet behind it, or,
\* for the predicates this form predates, not at all.
DecodeConditionalSceneCell(b) ==
    LET slot == b[7] % 128
        kind == b[7] \div 128 + 2 * (b[8] \div 128)
    IN  Checked(/\ RightHalf(slot) /\ EffectOK(kind, b, 12)
                /\ Known(OutputModes, b[25]) \/ b[25] = MAX,
            Headed("ConditionalSceneCell", b,
            [slot |-> slot, effect |-> EffectAt(kind, b, 12),
             conditions |-> [NoConditions EXCEPT
                !.layer = IF b[8] % 64 = 63 THEN None
                          ELSE [layer |-> b[8] % 64, active |-> HasBit(b[8], 6)],
                !.battery = IF b[9] = MAX THEN None
                            ELSE [node |-> b[9] % 64, min_level |-> Unless(b[10], MAX),
                                  max_level |-> Unless(b[11], MAX),
                                  charge |-> Name(ChargeConditions, b[9] \div 64)],
                !.output_mode = IF b[25] = MAX THEN None ELSE Name(OutputModes, b[25])]]))

DecodeConditionalSceneExt(b) ==
    LET gates == b[7]
        connection == [
            transport |-> IF HasBit(gates, 7) THEN Name(Transports, gates % 4) ELSE None,
            profile |-> IF HasBit(b[8], 7) THEN b[8] % 128 ELSE None,
            ble_state |-> IF HasBit(gates, 6) THEN Name(BleStates, (gates \div 4) % 4)
                          ELSE None,
            bonded |-> IF HasBit(b[9], 7)
                       THEN [slot |-> b[9] % 64, bonded |-> HasBit(b[9], 6)] ELSE None,
            usb_connected |-> IF b[10] = MAX THEN None ELSE flag(b[10])]
    IN  Checked(/\ HasBit(gates, 7) => Known(Transports, gates % 4)
                /\ HasBit(gates, 6) => Known(BleStates, (gates \div 4) % 4)
                /\ FlagOK(b[10]) \/ b[10] = MAX,
            Headed("ConditionalSceneExt", b,
            [connection |-> Unless(connection, NoConnection),
             effects |-> IF HasBit(gates, 5) THEN [enabled |-> HasBit(gates, 4)] ELSE None]))

DecodeAttestation(b) ==
    [name |-> "Attestation", generation |-> b[2], schema |-> b[3],
     revision |-> get_u32(b, 4), settings |-> get_u32(b, 8), overlay |-> get_u32(b, 12),
     scenes |-> get_u32(b, 16), conditional_scenes |-> get_u32(b, 20)]

DecodeStatusReport(b) ==
    Checked(FlagOK(b[3]) /\ b[22] < 8,
        [name |-> "StatusReport", request_id |-> b[2],
         applied_revision |-> IF flag(b[3]) THEN get_u32(b, 4) ELSE None,
         engine_revision |-> get_u32(b, 8), effective |-> b[12], default |-> b[13],
         active |-> get_u64(b, 14), powered |-> HasBit(b[22], 0),
         wake_active |-> HasBit(b[22], 1), effective_output_enabled |-> HasBit(b[22], 2)])

DecodeFrameChunk(b) ==
    Checked(FlagOK(b[3]) /\ b[12] <= FRAME_CHUNK_CELLS,
        [name |-> "FrameChunk", request_id |-> b[2],
         revision |-> IF flag(b[3]) THEN get_u32(b, 4) ELSE None,
         total |-> get_u16(b, 8), start |-> get_u16(b, 10), len |-> b[12],
         cells |-> [i \in 1..FRAME_CHUNK_CELLS |->
                        LET at == 13 + 3 * (i - 1) IN <<b[at], b[at + 1], b[at + 2]>>]])

DecodeSmall(name, b) ==
    CASE name = "WakeLayers" -> Headed(name, b, [wake_layers |-> get_u64(b, 7)])
      [] name = "ConditionalSceneBegin" -> Headed(name, b, [cell_count |-> b[7]])
      [] name = "Commit" -> Headed(name, b, [cell_count |-> b[7], scene_count |-> b[8]])
      [] name = "Ack" -> Headed(name, b, [f \in {} |-> 0])
      [] name = "EffectHit" ->
            IF b[2] < TOTAL_LEDS THEN [name |-> name, slot |-> b[2]] ELSE Err("Length")
      [] name = "ReplicaProbe" -> [name |-> name, generation |-> b[2]]
      [] name = "StatusRequest" -> [name |-> name, request_id |-> b[2]]
      [] name = "FrameChunkRequest" ->
            [name |-> name, request_id |-> b[2], offset |-> get_u16(b, 3)]
      [] name = "TransportStatus" ->
            Checked(FlagOK(b[2]) /\ FlagOK(b[3]),
                [name |-> name, auto |-> flag(b[2]), wired |-> flag(b[3])])
      [] name = "DebugTrace" ->
            [name |-> name, stage |-> get_u32(b, 2), boots |-> get_u32(b, 6),
             rr |-> <<get_u32(b, 10), get_u32(b, 14)>>,
             cause |-> <<get_u32(b, 18), get_u32(b, 22)>>]
      [] name = "DebugPanicLoc" ->
            [name |-> name, len |-> AtMost(b[2], 23), text |-> [i \in 1..23 |-> b[i + 2]]]

\* The arm of a packet whose tag and length are those of the message name.
DecodeArm(name, b) ==
    CASE name = "Begin" -> DecodeBegin(b)
      [] name \in {"Context", "ContextUpdate"} -> DecodeContext(name, b)
      [] name = "Extension" -> DecodeExtension(b)
      [] name = "ExtensionOverlay" -> DecodeExtensionOverlay(b)
      [] name = "Cell" -> DecodeCell(b)
      [] name = "SceneCell" -> DecodeSceneCell(b)
      [] name = "ConditionalSceneCell" -> DecodeConditionalSceneCell(b)
      [] name = "ConditionalSceneExt" -> DecodeConditionalSceneExt(b)
      [] name = "Attestation" -> DecodeAttestation(b)
      [] name = "StatusReport" -> DecodeStatusReport(b)
      [] name = "FrameChunk" -> DecodeFrameChunk(b)
      [] OTHER -> DecodeSmall(name, b)

\* A WakeLayers packet of another length is refused as an unknown tag: the
\* list of known tags at the end of the match does not name it.
decode(b) ==
    LET size == Cardinality(DOMAIN b)
        names == {name \in DOMAIN Layout : TagOf(name) = b[1]}
        name == CHOOSE n \in names : TRUE
    IN  IF size = 0 \/ b[0] # VERSION THEN Err("Version")
        ELSE IF size = 1 THEN Err("Length")
        ELSE IF names = {} THEN Err("Tag")
        ELSE IF size = LengthOf(name) THEN DecodeArm(name, b)
        ELSE Err(IF name = "WakeLayers" THEN "Tag" ELSE "Length")

=============================================================================
