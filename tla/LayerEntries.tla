---------------------------- MODULE LayerEntries ----------------------------
(***************************************************************************)
(* A layer written as [[layer.key]] and [[layer.light]] entries: each one  *)
(* names part of the board with a selector and says what the keys there do *)
(* and how their emitters look.  This module lowers the entries to the     *)
(* grid and to the two scene tables the keyboard holds, with and without   *)
(* the topology of a connected keyboard, and composes the tables the way   *)
(* the keyboard's compositor (external) does.                              *)
(*                                                                         *)
(* A look is named by the entry and the arm that asked for it.             *)
(***************************************************************************)
EXTENDS Naturals, Sequences, FiniteSets, SequencesExt, FiniteSetsExt

CONSTANTS
    Leds, Keys,    \* the emitters and the keys of the board
    KeyOf,         \* the key each emitter belongs to, or NoKey
    ZoneOf,        \* the zone each emitter belongs to
    NoKey,
    Conditions,    \* what an arm may be gated on
    MaxEntries,    \* bound: entries in the layer
    ArmLists       \* bound: the arm lists an entry may have

Always == "always"    \* an arm that names no condition

LayerAssumption ==
    /\ NoKey \notin Keys
    /\ KeyOf \in [Leds -> Keys \cup {NoKey}]
    /\ DOMAIN ZoneOf = Leds
    /\ Keys \subseteq {KeyOf[l] : l \in Leds}
    /\ IsFiniteSet(Leds)
    /\ MaxEntries \in Nat /\ ArmLists \subseteq Seq(Conditions \cup {Always})

Zones == {ZoneOf[l] : l \in Leds}
Transparent == 0

Selectors ==
    {<<"led", l>> : l \in Leds} \cup {<<"key", k>> : k \in Keys}
        \cup {<<"matrix", k>> : k \in Keys} \cup {<<"zone", z>> : z \in Zones}
        \cup {<<"all", 0>>}

Entries == [kind : {"key", "light"}, target : Selectors, bound : BOOLEAN, arms : ArmLists]

VARIABLES
    entries,      \* the layer's entries in file order
    standalone,   \* emitters with a cell of their own in [[lighting.scene]]
    pc,           \* "load", "bind", "light", "done" or "rejected"
    next,         \* entry the loop has reached
    keymap, offline,       \* the grid, with and without a topology
    scenes, conditionals   \* the tables: emitter -> look, and a sequence of cells

vars == <<entries, standalone, pc, next, keymap, offline, scenes, conditionals>>

----------------------------------------------------------------------------
(* Selectors.                                                              *)

key_needs_topology(target) == target[1] # "matrix"
led_needs_topology(target) == target[1] # "led"

resolve_led_targets(target) ==
    CASE target[1] = "led" -> {target[2]}
      [] target[1] \in {"key", "matrix"} -> {l \in Leds : KeyOf[l] = target[2]}
      [] target[1] = "zone" -> {l \in Leds : ZoneOf[l] = target[2]}
      [] target[1] = "all" -> Leds

(* The keys a binding covers; an emitter of no key covers none, which is   *)
(* an error.                                                               *)
resolve_matrix_keys(target) ==
    IF target[1] \in {"key", "matrix"} THEN {target[2]}
    ELSE {KeyOf[l] : l \in resolve_led_targets(target)} \ {NoKey}

----------------------------------------------------------------------------
(* Entries.                                                                *)

(* An arm after an unconditional one can never show. *)
ArmsReachable(arms) ==
    \A k \in DOMAIN arms : arms[k] = Always => k = Len(arms)

validate(entry) ==
    /\ entry.kind = "light" => ~entry.bound
    /\ entry.bound \/ entry.arms # <<>>
    /\ ArmsReachable(entry.arms)

needs_topology ==
    \E k \in DOMAIN entries :
        \/ entries[k].bound /\ key_needs_topology(entries[k].target)
        \/ entries[k].arms # <<>> /\ led_needs_topology(entries[k].target)

Init ==
    /\ entries \in UNION {[1 .. n -> Entries] : n \in 1 .. MaxEntries}
    /\ standalone \in {{}, Leds}
    /\ pc = "load"
    /\ next = 1
    /\ keymap = [k \in Keys |-> Transparent] /\ offline = keymap
    /\ scenes = [l \in standalone |-> <<0, 0>>]
    /\ conditionals = <<>>

(* Every entry is checked, and a binding has to cover some key. *)
Load ==
    /\ pc = "load"
    /\ pc' = IF \A k \in DOMAIN entries :
                    /\ validate(entries[k])
                    /\ entries[k].bound => resolve_matrix_keys(entries[k].target) # {}
             THEN "bind" ELSE "rejected"
    /\ UNCHANGED <<entries, standalone, next, keymap, offline, scenes, conditionals>>

(* The grid with one entry's action applied over it.  Without a topology   *)
(* only a matrix position can be resolved; the rest is left out.           *)
Bound(grid, n, keys) == [k \in Keys |-> IF k \in keys THEN n ELSE grid[k]]

LastEntry == next = Len(entries)

BindEntry ==
    /\ pc = "bind"
    /\ LET entry == entries[next]
           keys == IF entry.bound THEN resolve_matrix_keys(entry.target) ELSE {}
       IN  /\ keymap' = Bound(keymap, next, keys)
           /\ offline' = IF key_needs_topology(entry.target) THEN offline
                         ELSE Bound(offline, next, keys)
    /\ next' = IF LastEntry THEN 1 ELSE next + 1
    /\ pc' = IF LastEntry THEN "light" ELSE pc
    /\ UNCHANGED <<entries, standalone, scenes, conditionals>>

(* Mutant: the arms are lowered in the order they are written. *)
ArmsInOrder(n) == [k \in DOMAIN entries[n].arms |-> k]

(* A key's arms read first-match-wins; the keyboard lets later cells win,  *)
(* so the arms are lowered in reverse.                                     *)
ArmsReversed(n) == Reverse([k \in DOMAIN entries[n].arms |-> k])

(* Keys come before lights, each in file order. *)
OfKind(kind) ==
    FlattenSeq([k \in DOMAIN entries |-> IF entries[k].kind = kind THEN <<k>> ELSE <<>>])
LightingOrder == OfKind("key") \o OfKind("light")

(* A conditional arm becomes one rule per emitter. *)
RulesOf(n, k) ==
    LET arm == entries[n].arms[k]
    IN  IF arm = Always THEN <<>>
        ELSE SetToSeq({[led |-> l, when |-> arm, look |-> <<n, k>>] :
                          l \in resolve_led_targets(entries[n].target)})

(* The unconditional arm becomes a durable cell that replaces the one the  *)
(* emitter had; the others become rules.                                   *)
LightEntry ==
    /\ pc = "light"
    /\ LET n == LightingOrder[next]
           leds == resolve_led_targets(entries[n].target)
           plain == {k \in DOMAIN entries[n].arms : entries[n].arms[k] = Always}
           covered == IF plain = {} THEN {} ELSE leds
       IN  /\ scenes' = [l \in covered \cup DOMAIN scenes |->
                            IF l \in covered THEN <<n, Max(plain)>> ELSE scenes[l]]
           /\ conditionals' = conditionals \o
                FlattenSeq([i \in DOMAIN entries[n].arms |-> RulesOf(n, ArmsReversed(n)[i])])
    /\ next' = IF LastEntry THEN next ELSE next + 1
    /\ pc' = IF LastEntry THEN "done" ELSE pc
    /\ UNCHANGED <<entries, standalone, keymap, offline>>

Next == Load \/ BindEntry \/ LightEntry

Spec == Init /\ [][Next]_vars

----------------------------------------------------------------------------
(* The keyboard's compositor: conditional rules outrank scenes, and among  *)
(* those that hold the last in the table wins.                             *)

Matching(led, truths) ==
    {k \in DOMAIN conditionals : conditionals[k].led = led /\ conditionals[k].when \in truths}

Shown(led, truths) ==
    IF Matching(led, truths) # {} THEN conditionals[Max(Matching(led, truths))].look
    ELSE IF led \in DOMAIN scenes THEN scenes[led] ELSE <<>>

----------------------------------------------------------------------------
(* Properties.                                                             *)

(* Entries that light an emitter, and entries that bind a key. *)
Lighting(led) ==
    {n \in DOMAIN entries : entries[n].arms # <<>> /\ led \in resolve_led_targets(entries[n].target)}
Binding(key) ==
    {n \in DOMAIN entries : entries[n].bound /\ key \in resolve_matrix_keys(entries[n].target)}

(* The look entry n asks of its emitters under these truths: its first arm *)
(* that holds, or nothing.                                                 *)
FirstMatch(n, truths) ==
    LET holds == {k \in DOMAIN entries[n].arms : entries[n].arms[k] \in truths \cup {Always}}
    IN  IF holds = {} THEN {} ELSE {<<n, Min(holds)>>}

(***************************************************************************)
(* Types.  No arm is lost or lowered twice: each emitter of an entry has   *)
(* one rule for each conditional arm.                                      *)
(***************************************************************************)
TypeOK ==
    /\ pc \in {"load", "bind", "light", "done", "rejected"}
    /\ next \in DOMAIN entries
    /\ DOMAIN keymap = Keys /\ DOMAIN offline = Keys
    /\ DOMAIN scenes \subseteq Leds
    /\ Cardinality(ToSet(conditionals)) = Len(conditionals)
    /\ pc = "done" => \A n \in DOMAIN entries :
            Cardinality({k \in DOMAIN conditionals : conditionals[k].look[1] = n})
                = Cardinality(resolve_led_targets(entries[n].target))
                    * Cardinality({k \in DOMAIN entries[n].arms : entries[n].arms[k] # Always})

(***************************************************************************)
(* "A key's rules read first-match-wins": under every combination of       *)
(* conditions an emitter that one entry lights shows that entry's first    *)
(* arm that holds, over whatever cell it had in the file's own table.      *)
(***************************************************************************)
FirstMatchWins ==
    pc = "done" => \A l \in Leds, truths \in SUBSET Conditions :
        \A n \in Lighting(l) : Lighting(l) = {n} =>
            \A look \in FirstMatch(n, truths) : Shown(l, truths) = look

(***************************************************************************)
(* The last entry that binds a key wins it, whatever selectors the entries *)
(* were written with.                                                      *)
(***************************************************************************)
LastBindingWins ==
    pc \in {"light", "done"} => \A k \in Keys :
        keymap[k] = IF Binding(k) = {} THEN Transparent ELSE Max(Binding(k))

(***************************************************************************)
(* A layer that asks nothing of the board is the same without a keyboard,  *)
(* and its scene cells already name emitters.                              *)
(***************************************************************************)
OfflineIsWhole ==
    pc = "done" /\ ~needs_topology =>
        /\ offline = keymap
        /\ \A n \in DOMAIN entries : entries[n].arms # <<>> => entries[n].target[1] = "led"

\* Entries mean what the file says in both tables and with no keyboard at
\* hand: the last binding, the first arm that holds.
EntriesResolveAsWritten == FirstMatchWins /\ LastBindingWins /\ OfflineIsWhole

(***************************************************************************)
(* "Entries apply in file order and the last one covering a key wins it,   *)
(* for the action and for the lighting alike": of two key entries with a   *)
(* final unconditional arm the later one decides what is shown.            *)
(***************************************************************************)
LastEntryLights ==
    pc = "done" /\ (\A n \in DOMAIN entries : entries[n].kind = "key") =>
        \A l \in Leds, truths \in SUBSET Conditions :
            Lighting(l) # {} =>
                \A look \in FirstMatch(Max(Lighting(l)), truths) : Shown(l, truths) = look

=============================================================================
