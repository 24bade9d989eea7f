------------------------------ MODULE WireLink ------------------------------
(***************************************************************************)
(* One half encodes, the channel carries the packets in order, the other   *)
(* half decodes. What is sent is one message, or one conditional rule as   *)
(* walk_snapshot sends it: the cell packet, then the packet with the gates *)
(* that did not fit. A foreign packet is one that a half running another   *)
(* build may put on the channel: a byte changed, or another length.        *)
(***************************************************************************)
EXTENDS WireCodec

CONSTANTS
    Messages,      \* the messages the halves send
    Rules,         \* the right-half conditional rules of a snapshot
    Bytes,         \* the values a changed byte takes
    Shorter        \* how many bytes a foreign packet may lack or have more

-----------------------------------------------------------------------------
(* Message: what the halves say. The conditional cells of a snapshot are   *)
(* sent as rules.                                                          *)

Effect ==
    [kind : {"Solid"}, color : Color]
    \cup [kind : {"Blink"}, color : Color, period_ms : u32, phase_ms : u32, duty : 0..100]
    \cup [kind : {"Breathe"}, color : Color, period_ms : u32, phase_ms : u32, step_ms : Word]
RightSlots == LEDS_PER_HALF..(TOTAL_LEDS - 1)
BatteryStatus ==
    [state : Range(BatteryStates) \ {"Unavailable"}, level : Maybe(0..100)]
    \cup [state : {"Unavailable"}, level : {None}]
BackgroundState ==
    [enabled : BOOLEAN, breathe : BOOLEAN, hue : Byte, saturation : Byte, value : Byte,
     speed : Byte]
ExtensionState == [effect : Byte, palette : Byte, value : Byte, speed : Byte]
ExtensionReplicaParams == [effect : Byte, values : Seq(Byte)]

Begins ==
    [name : {"Begin"}, generation : Byte, revision : u32, cell_count : Byte,
     scene_count : Byte, scene_policy : Range(Policies), sample_time_ms : u64,
     output_enabled : BOOLEAN, output_brightness : Byte, background : BackgroundState,
     output_mode : Range(OutputModes)]
Contexts ==
    [name : {"Context", "ContextUpdate"}, generation : Byte, revision : u32,
     indicators : SUBSET Range(Indicators), powered : BOOLEAN, bonded_slots : Byte,
     left : BatteryStatus, right : BatteryStatus]
Extensions ==
    [name : {"Extension"}, generation : Byte, revision : u32,
     extension : Maybe(ExtensionState), params : Maybe(ExtensionReplicaParams)]
ExtensionOverlays ==
    [name : {"ExtensionOverlay"}, generation : Byte, revision : u32, overlay : Maybe(Byte),
     params : Maybe(ExtensionReplicaParams)]
Cells ==
    [name : {"Cell"}, generation : Byte, revision : u32, slot : RightSlots, effect : Effect,
     ttl_ms : Maybe(u32 \ {<<0, 0>>})]
SceneCells ==
    [name : {"SceneCell"}, generation : Byte, revision : u32, layer : Byte,
     slot : RightSlots, effect : Effect]
WakeLayers == [name : {"WakeLayers"}, generation : Byte, revision : u32, wake_layers : u64]
RuleCounts ==
    [name : {"ConditionalSceneBegin"}, generation : Byte, revision : u32, cell_count : Byte]
Commits ==
    [name : {"Commit"}, generation : Byte, revision : u32, cell_count : Byte,
     scene_count : Byte]
Acks == [name : {"Ack"}, generation : Byte, revision : u32]
Attestations ==
    [name : {"Attestation"}, generation : Byte, schema : Byte, revision : u32,
     settings : u32, overlay : u32, scenes : u32, conditional_scenes : u32]
StatusReports ==
    [name : {"StatusReport"}, request_id : Byte, applied_revision : Maybe(u32),
     engine_revision : u32, effective : Byte, default : Byte, active : u64,
     powered : BOOLEAN, wake_active : BOOLEAN, effective_output_enabled : BOOLEAN]
FrameChunks ==
    [name : {"FrameChunk"}, request_id : Byte, revision : Maybe(u32), total : Word,
     start : Word, len : 0..FRAME_CHUNK_CELLS, cells : [1..FRAME_CHUNK_CELLS -> Color]]
FrameChunkRequests == [name : {"FrameChunkRequest"}, request_id : Byte, offset : Word]
EffectHits == [name : {"EffectHit"}, slot : 0..(TOTAL_LEDS - 1)]
ReplicaProbes == [name : {"ReplicaProbe"}, generation : Byte]
StatusRequests == [name : {"StatusRequest"}, request_id : Byte]
TransportStatuses == [name : {"TransportStatus"}, auto : BOOLEAN, wired : BOOLEAN]
DebugTraces ==
    [name : {"DebugTrace"}, stage : u32, boots : u32, rr : u32 \X u32, cause : u32 \X u32]
DebugPanicLocs == [name : {"DebugPanicLoc"}, len : 0..23, text : [1..23 -> Byte]]

Message ==
    Begins \cup Contexts \cup Extensions \cup ExtensionOverlays \cup Cells
    \cup SceneCells \cup WakeLayers \cup RuleCounts \cup Commits \cup Acks
    \cup Attestations \cup StatusReports \cup FrameChunks \cup FrameChunkRequests
    \cup EffectHits \cup ReplicaProbes \cup StatusRequests \cup TransportStatuses
    \cup DebugTraces \cup DebugPanicLocs

\* The gates of a rule. Layer 63 stands for no gate on the wire, and so does
\* node 63 with the charge Unknown.
LayerCondition == [layer : 0..62, active : BOOLEAN]
BatteryCondition ==
    [node : 0..62, min_level : Maybe(0..100), max_level : Maybe(0..100),
     charge : Range(ChargeConditions)]
BondedCondition == [slot : 0..63, bonded : BOOLEAN]
ConnectionCondition ==
    [transport : Maybe(Range(Transports)), profile : Maybe(0..127),
     ble_state : Maybe(Range(BleStates)), bonded : Maybe(BondedCondition),
     usb_connected : Maybe(BOOLEAN)] \ {NoConnection}
EffectsCondition == [enabled : BOOLEAN]
ConditionSet ==
    [layer : Maybe(LayerCondition), battery : Maybe(BatteryCondition),
     layers : Maybe(SUBSET Byte), indicators : Maybe(SUBSET Range(Indicators)),
     maintenance : Maybe(STRING), split_transport : Maybe(STRING),
     output_mode : Maybe(Range(OutputModes)), connection : Maybe(ConnectionCondition),
     effects : Maybe(EffectsCondition)]
Rule == [slot : RightSlots, effect : Effect, conditions : ConditionSet]

\* The parameters of an effect fill their array at most, and are not none.
ParamsFit(m) ==
    m.name \in {"Extension", "ExtensionOverlay"} /\ m.params # None =>
        Len(m.params.values) \in 1..EXTENSION_PARAM_CHUNK

\* A rule has seven bits for its slot; None is not one of the values it may
\* stand for.
LinkAssumption ==
    /\ Messages \subseteq Message /\ Rules \subseteq Rule
    /\ \A m \in Messages : ParamsFit(m)
    /\ Bytes \subseteq Byte /\ Shorter \in Nat
    /\ LEDS_PER_HALF \in Nat /\ TOTAL_LEDS \in 0..128 /\ EXTENSION_PARAM_CHUNK \in Byte
    /\ None \notin Byte /\ None \notin u32 /\ None \notin BOOLEAN
    /\ None \notin Range(OutputModes) \cup Range(Transports) \cup Range(BleStates)
    /\ None \notin ExtensionState /\ None \notin ExtensionReplicaParams
    /\ None \notin LayerCondition /\ None \notin BatteryCondition
    /\ None \notin BondedCondition /\ None \notin ConnectionCondition
    /\ None \notin EffectsCondition /\ None \notin Rule

-----------------------------------------------------------------------------

VARIABLES
    sent,          \* what was sent: a sequence of messages
    rule,          \* the rule it stands for, or None
    wire,          \* packets on the channel
    foreign,       \* whether a foreign packet took the place of one of them
    received       \* what decode made of the packets taken so far

vars == <<sent, rule, wire, foreign, received>>

\* mutant: the second packet is sent for a connection gate only
ExtForConnection(r) == r.conditions.connection # None
\* Whether a rule has a gate that its first packet does not carry.
NeedsExt(r) == r.conditions.connection # None \/ r.conditions.effects # None

\* The packets of one conditional rule in walk_snapshot.
RuleMessages(r) ==
    LET cell == [name |-> "ConditionalSceneCell", generation |-> 3, revision |-> <<300, 1>>,
                 slot |-> r.slot, effect |-> r.effect, conditions |-> r.conditions]
        ext == [name |-> "ConditionalSceneExt", generation |-> 3, revision |-> <<300, 1>>,
                connection |-> r.conditions.connection, effects |-> r.conditions.effects]
    IN  IF NeedsExt(r) THEN <<cell, ext>> ELSE <<cell>>

\* What the stage makes of them: the second packet amends the last cell.
StagedRule(got) ==
    LET cell == got[1] IN
        [slot |-> cell.slot, effect |-> cell.effect,
         conditions |-> IF Len(got) = 1 THEN cell.conditions
                        ELSE [cell.conditions EXCEPT
                                 !.connection = got[2].connection,
                                 !.effects = got[2].effects]]

Init ==
    /\ sent = <<>> /\ rule = None
    /\ wire = <<>> /\ foreign = FALSE /\ received = <<>>

\* A half queues one message.
Send(m) ==
    /\ sent = <<>>
    /\ sent' = <<m>> /\ wire' = <<encode(m)>>
    /\ UNCHANGED <<rule, foreign, received>>

\* The central queues the packets of one conditional rule.
SendRule(r) ==
    /\ sent = <<>>
    /\ rule' = r /\ sent' = RuleMessages(r)
    /\ wire' = [i \in DOMAIN RuleMessages(r) |-> encode(RuleMessages(r)[i])]
    /\ UNCHANGED <<foreign, received>>

\* A half of another build sends a packet with one byte of another value.
ChangeByte(at, byte) ==
    /\ wire # <<>> /\ ~foreign
    /\ at \in DOMAIN wire[1]
    /\ wire' = [wire EXCEPT ![1][at] = byte]
    /\ foreign' = TRUE
    /\ UNCHANGED <<sent, rule, received>>

\* A half of another build sends a packet of another length.
ChangeLength(size) ==
    /\ wire # <<>> /\ ~foreign
    /\ LET own == Cardinality(DOMAIN wire[1]) IN
         /\ size \in (own - Shorter)..(own + Shorter) \ {own} /\ size >= 0
         /\ wire' = [wire EXCEPT ![1] =
                        [i \in 0..(size - 1) |-> IF i < own THEN wire[1][i] ELSE 0]]
    /\ foreign' = TRUE
    /\ UNCHANGED <<sent, rule, received>>

\* The other half takes and decodes the next packet.
Receive ==
    /\ wire # <<>>
    /\ wire' = Tail(wire)
    /\ received' = Append(received, decode(Head(wire)))
    /\ UNCHANGED <<sent, rule, foreign>>

Next ==
    \/ \E m \in Messages : Send(m)
    \/ \E r \in Rules : SendRule(r)
    \/ \E at \in 0..(SPLIT_APP_MSG_MAX - 1), byte \in Bytes : ChangeByte(at, byte)
    \/ \E size \in 0..SPLIT_APP_MSG_MAX : ChangeLength(size)
    \/ Receive

Spec == Init /\ [][Next]_vars

-----------------------------------------------------------------------------
\* Every packet is a string of bytes no longer than the channel takes, and
\* decode yields a message or one of its errors.
TypeOK ==
    /\ \A i \in DOMAIN wire :
         /\ \A at \in DOMAIN wire[i] : wire[i][at] \in Byte
         /\ DOMAIN wire[i] = 0..(Cardinality(DOMAIN wire[i]) - 1)
    /\ foreign \in BOOLEAN
    /\ \A i \in DOMAIN received :
         \/ Decoded(received[i]) /\ received[i].name \in DOMAIN Layout
         \/ received[i] \in [error : DecodeErrors]

\* encode and decode are written apart, offset by offset: between two halves
\* of one build every message arrives as it was sent, packed bits, absent
\* values and wide integers included.
ArrivesAsSent == ~foreign /\ rule = None => \A i \in DOMAIN received : received[i] = sent[i]

\* The gates that have a place in neither packet of a rule.
Uncarried == {"layers", "indicators", "maintenance", "split_transport"}
Without(conditions, gates) ==
    [gate \in DOMAIN conditions |-> IF gate \in gates THEN None ELSE conditions[gate]]

Staged == ~foreign /\ rule # None /\ sent # <<>> /\ Len(received) = Len(sent)

\* A gate that is lost on the way turns a rule into one that always lights
\* (the hazard encode comments on twice): a rule is staged with all of its
\* layer, battery, output-mode, connection and effects gates.
CarriedGatesCross ==
    Staged => StagedRule(received) =
                 [rule EXCEPT !.conditions = Without(rule.conditions, Uncarried)]

\* What a message may hold for the code that uses it: the slot indexes the
\* frame of the right half (any slot of the board for a hit), a page's length
\* its four cells, the parameters their fixed array, and a level is a
\* percentage.
Usable(m) ==
    /\ m.name \in {"Cell", "SceneCell", "ConditionalSceneCell"} =>
         RightHalf(m.slot) /\ (m.effect.kind = "Blink" => m.effect.duty <= 100)
    /\ m.name = "EffectHit" => m.slot < TOTAL_LEDS
    /\ m.name = "FrameChunk" => m.len <= FRAME_CHUNK_CELLS
    /\ m.name = "DebugPanicLoc" => m.len <= Len(m.text)
    /\ m.name \in {"Extension", "ExtensionOverlay"} /\ m.params # None =>
         Len(m.params.values) \in 1..EXTENSION_PARAM_CHUNK
    /\ m.name \in {"Context", "ContextUpdate"} =>
         \A battery \in {m.left, m.right} :
            /\ battery.level \in 0..100 \cup {None}
            /\ battery.state = "Unavailable" => battery.level = None

\* Whatever a half of another build puts on the channel, a packet that decode
\* lets through holds nothing the engine could not use.
DecodedIsUsable ==
    \A i \in DOMAIN received : Decoded(received[i]) => Usable(received[i])

\* The two halves agree about every packet: what is sent arrives, a rule
\* keeps the gates its packets have room for, and what decode lets through
\* from another build is something the engine can use.
WireIsSound == ArrivesAsSent /\ CarriedGatesCross /\ DecodedIsUsable

\* The moergo-control documentation: "A rule applies when every condition it
\* names holds; naming none makes it unconditional". The rule the right half
\* stages has the gates of the rule the central sent.
GatesCross == Staged => StagedRule(received) = rule

=============================================================================
