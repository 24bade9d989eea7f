----------------------------- MODULE MCWireLink -----------------------------
(* Small message samples for WireLink: every field takes a value that shows *)
(* up a byte out of place, and the values at the edges of its range.       *)
EXTENDS WireLink

Heads(name) == [name : {name}, generation : {0, 255}, revision : {<<0, 0>>, <<258, 772>>}]
Head1(name) == [name |-> name, generation |-> 7, revision |-> <<258, 772>>]

Background == [enabled : BOOLEAN, breathe : BOOLEAN, hue : {11}, saturation : {12},
               value : {13}, speed : {0, 255}]
BeginSet == {Head1("Begin") @@ x : x \in
    [cell_count : {40}, scene_count : {100}, scene_policy : {Policies[1], Policies[2]},
     sample_time_ms : {<<1, 2, 3, 65535>>}, output_enabled : BOOLEAN,
     output_brightness : {127}, background : Background,
     output_mode : {OutputModes[i] : i \in 1..3}]}

Battery == {[state |-> "Unavailable", level |-> None], [state |-> "Charging", level |-> 100],
            [state |-> "Discharging", level |-> 0], [state |-> "Unknown", level |-> None]}
Lit == {{}, {"num_lock", "scroll_lock", "kana"}, {"caps_lock", "compose"}}
ContextSet == {[Head1("Context") EXCEPT !.name = name] @@ x :
    name \in {"Context", "ContextUpdate"}, x \in
    [indicators : Lit, left : Battery, right : {b \in Battery : b.level # 0}, powered : {TRUE},
     bonded_slots : {170}]}

MCParams == {None, [effect |-> 9, values |-> <<5>>],
           [effect |-> 0, values |-> [i \in 1..EXTENSION_PARAM_CHUNK |-> 20 + i]]}
ExtensionSet ==
    {Head1("Extension") @@ x : x \in
       [extension : {None, [effect |-> 1, palette |-> 2, value |-> 3, speed |-> 4]},
        params : MCParams]}
    \cup {Head1("ExtensionOverlay") @@ x : x \in [overlay : {None, 0, 6}, params : MCParams]}

MCEffects == {[kind |-> "Solid", color |-> <<1, 2, 3>>],
            [kind |-> "Blink", color |-> <<4, 5, 6>>, period_ms |-> <<500, 1>>,
             phase_ms |-> <<0, 2>>, duty |-> 100],
            [kind |-> "Breathe", color |-> <<7, 8, 255>>, period_ms |-> <<1, 65535>>,
             phase_ms |-> <<3, 4>>, step_ms |-> 513]}
Slots == {LEDS_PER_HALF, TOTAL_LEDS - 1}
CellSet ==
    {Head1("Cell") @@ x : x \in
       [slot : Slots, effect : MCEffects, ttl_ms : {None, <<0, 1>>, <<1, 0>>}]}
    \cup {Head1("SceneCell") @@ x : x \in [layer : {0, 63}, slot : Slots, effect : MCEffects]}

Reports ==
    [name : {"StatusReport"}, request_id : {5}, applied_revision : {None, <<0, 0>>, <<9, 10>>},
     engine_revision : {<<11, 12>>}, effective : {13}, default : {14},
     active : {<<15, 16, 17, 32768>>}, powered : BOOLEAN, wake_active : BOOLEAN,
     effective_output_enabled : BOOLEAN]
    \cup [name : {"FrameChunk"}, request_id : {5}, revision : {None, <<0, 0>>, <<9, 10>>},
          total : {40, 300}, start : {36}, len : {0, 4},
          cells : {<<<<1, 2, 3>>, <<4, 5, 6>>, <<7, 8, 9>>, <<10, 11, 12>>>>}]
    \cup [name : {"FrameChunkRequest"}, request_id : {5}, offset : {0, 515}]
    \cup [name : {"Attestation"}, generation : {1}, schema : {2}, revision : {<<3, 4>>},
          settings : {<<5, 6>>}, overlay : {<<7, 8>>}, scenes : {<<9, 10>>},
          conditional_scenes : {<<11, 12>>}]

SmallSet ==
    {Head1("WakeLayers") @@ [wake_layers |-> <<1, 2, 3, 32768>>],
     Head1("ConditionalSceneBegin") @@ [cell_count |-> 100],
     Head1("Commit") @@ [cell_count |-> 40, scene_count |-> 100]}
    \cup Heads("Ack")
    \cup [name : {"EffectHit"}, slot : {0, LEDS_PER_HALF - 1}]
    \cup [name : {"ReplicaProbe"}, generation : {0, 255}]
    \cup [name : {"StatusRequest"}, request_id : {0, 255}]
    \cup [name : {"TransportStatus"}, auto : BOOLEAN, wired : BOOLEAN]
    \cup {[name |-> "DebugTrace", stage |-> <<1, 2>>, boots |-> <<3, 4>>,
           rr |-> <<<<5, 6>>, <<7, 8>>>>, cause |-> <<<<9, 10>>, <<11, 12>>>>]}
    \cup [name : {"DebugPanicLoc"}, len : {0, 23}, text : {[i \in 1..23 |-> 60 + i]}]

MCMessages == BeginSet \cup ContextSet \cup ExtensionSet \cup CellSet \cup Reports \cup SmallSet

Connections == {None} \cup {c \in
    [transport : {None, "NoneActive"}, profile : {None, 3}, ble_state : {None, "Inactive"},
     bonded : {None, [slot |-> 2, bonded |-> FALSE]}, usb_connected : {None, FALSE}] :
    c # NoConnection}

\* The gates of the first packet, a pair of them at a time, and of the second.
CellGates ==
    {[NoConditions EXCEPT !.layer = l, !.battery = b] :
        l \in {None, [layer |-> 0, active |-> FALSE], [layer |-> 62, active |-> TRUE]},
        b \in {None, [node |-> 0, min_level |-> None, max_level |-> 100, charge |-> "Any"],
               [node |-> 1, min_level |-> 0, max_level |-> None, charge |-> "Unknown"]}}
    \cup {[NoConditions EXCEPT !.output_mode = mode] : mode \in {"AlwaysOn", "PoweredOnly"}}
ExtGates ==
    {[NoConditions EXCEPT !.connection = c, !.effects = e] :
            c \in Connections, e \in {None, [enabled |-> TRUE], [enabled |-> FALSE]}}
UncarriedGates == {[NoConditions EXCEPT !.maintenance = "unlocked"],
                   [NoConditions EXCEPT !.layers = {1, 2}]}

MCRules == [slot : {TOTAL_LEDS - 1}, effect : MCEffects, conditions : CellGates]
           \cup [slot : {LEDS_PER_HALF}, effect : {e \in MCEffects : e.kind = "Solid"},
                 conditions : ExtGates \cup UncarriedGates]

=============================================================================
