--------------------------- MODULE MCReplicaDigest ---------------------------
(* Snapshots that differ from one base in a field or two each, close enough *)
(* that bytes left out of the hash, or run together, would make two equal.  *)
EXTENDS ReplicaDigest

Solid(n) == [kind |-> "Solid", color |-> <<n, 0, 0>>]
Blink == [kind |-> "Blink", color |-> <<1, 0, 0>>, period_ms |-> <<500, 0>>,
          phase_ms |-> <<0, 0>>, duty |-> 50]

\* extension_layers are always there, as the stage has them; an authority that
\* exports none hashes otherwise and is not sampled.
Base == [revision |-> <<7, 0>>, scene_policy |-> "EffectiveOnly", output_enabled |-> TRUE,
         output_brightness |-> 1,
         background |-> [enabled |-> TRUE, breathe |-> FALSE, hue |-> 0, saturation |-> 1,
                         value |-> 0, speed |-> 1],
         output_mode |-> "AlwaysOn", wake_layers |-> <<0, 0, 0, 0>>, extension |-> None,
         extension_layers |-> [overlay |-> None], extension_params |-> None,
         extension_overlay_params |-> None, overlay |-> <<>>, scenes |-> <<>>, cond |-> <<>>]

Settings ==
    {[Base EXCEPT !.revision = <<0, 7>>], [Base EXCEPT !.scene_policy = "ActiveStack"],
     [Base EXCEPT !.output_mode = "AlwaysOff"], [Base EXCEPT !.output_enabled = FALSE],
     [Base EXCEPT !.background.breathe = TRUE], [Base EXCEPT !.background.enabled = FALSE],
     [Base EXCEPT !.wake_layers = <<4, 0, 0, 0>>],
     [Base EXCEPT !.extension = [effect |-> 0, palette |-> 0, value |-> 0, speed |-> 0]]}

Params == {None, [effect |-> 0, values |-> <<0>>], [effect |-> 0, values |-> <<0, 0>>],
           [effect |-> 0, values |-> <<0, 1>>], [effect |-> 1, values |-> <<1>>]}
Tuned == {[Base EXCEPT !.extension_params = p, !.extension_overlay_params = q,
                       !.extension_layers.overlay = o] :
            p \in Params, q \in Params, o \in {None, 0}}

OverlayCell(slot, e, ttl) == [slot |-> slot, effect |-> e, ttl_ms |-> ttl]
Overlays ==
    LET a == OverlayCell(LEDS_PER_HALF, Solid(1), None)
        b == OverlayCell(TOTAL_LEDS - 1, Solid(2), None)
        left == OverlayCell(0, Solid(1), None)
    IN  {[Base EXCEPT !.overlay = o] :
            o \in {<<a>>, <<[a EXCEPT !.ttl_ms = <<9, 0>>]>>, <<[a EXCEPT !.effect = Blink]>>,
                   <<a, b>>, <<b, a>>, <<left>>, <<left, a>>}}

SceneCell(layer, slot, e) == [layer |-> layer, slot |-> slot, effect |-> e]
Scenes ==
    {[Base EXCEPT !.scenes = t] :
        t \in {<<SceneCell(0, LEDS_PER_HALF, Solid(1))>>, <<SceneCell(1, LEDS_PER_HALF, Solid(1))>>,
               <<SceneCell(1, TOTAL_LEDS - 1, Solid(1)), SceneCell(0, TOTAL_LEDS - 1, Blink)>>,
               <<SceneCell(0, TOTAL_LEDS - 1, Blink), SceneCell(1, TOTAL_LEDS - 1, Solid(1))>>}}

Connection(f, x) == [NoConditions EXCEPT !.connection =
                        [g \in DOMAIN NoConnection |-> IF g = f THEN x ELSE None]]
Gates ==
    {NoConditions,
     [NoConditions EXCEPT !.layer = [layer |-> 0, active |-> FALSE]],
     [NoConditions EXCEPT !.layer = [layer |-> 0, active |-> TRUE]],
     [NoConditions EXCEPT !.battery = [node |-> 0, min_level |-> 0, max_level |-> None, charge |-> "Any"]],
     [NoConditions EXCEPT !.battery = [node |-> 0, min_level |-> None, max_level |-> 0, charge |-> "Any"]],
     [NoConditions EXCEPT !.battery = [node |-> 0, min_level |-> None, max_level |-> None, charge |-> "Any"]],
     [NoConditions EXCEPT !.output_mode = "AlwaysOn"],
     [NoConditions EXCEPT !.output_mode = "AlwaysOff"],
     [NoConditions EXCEPT !.effects = [enabled |-> FALSE]],
     [NoConditions EXCEPT !.effects = [enabled |-> TRUE]],
     [NoConditions EXCEPT !.maintenance = "unlocked"],
     Connection("transport", "Usb"), Connection("transport", "Ble"),
     Connection("profile", 0), Connection("profile", 1), Connection("ble_state", "Advertising"),
     Connection("bonded", [slot |-> 0, bonded |-> FALSE]),
     Connection("bonded", [slot |-> 0, bonded |-> TRUE]),
     Connection("usb_connected", FALSE), Connection("usb_connected", TRUE)}
Rule(gates, e) == [slot |-> LEDS_PER_HALF, effect |-> e, conditions |-> gates]
RuleEdits ==
    {[Base EXCEPT !.cond = <<Rule(g, Solid(1))>>] : g \in Gates}
    \cup {[Base EXCEPT !.cond = <<Rule(g, Solid(1)), Rule(h, Solid(2))>>] :
            g \in {x \in Gates : x.effects # None}, h \in {x \in Gates : x.effects # None}}
    \cup {[Base EXCEPT !.cond = <<Rule(NoConditions, Solid(2)), Rule(NoConditions, Solid(1))>>],
          [Base EXCEPT !.cond = <<Rule(NoConditions, Solid(1)), Rule(NoConditions, Solid(2))>>]}

MCSnapshots == Settings \cup Tuned \cup Overlays \cup Scenes \cup RuleEdits

=============================================================================
