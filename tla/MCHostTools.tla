----------------------------- MODULE MCHostTools -----------------------------
(***************************************************************************)
(* The host tools for TLC: the components of HostTools and the round trip  *)
(* of a file through a keyboard (ConfigPull). They share no state, so each *)
(* is explored while the others are Idle. `subject` is the one that runs.  *)
(***************************************************************************)
EXTENDS HostTools

CONSTANTS
    Idle,                                            \* a component that does not run
    PullLayers, Slots, Keyboards, Others, OldFiles   \* ConfigPull

VARIABLES
    subject,
    keyboard, file, pulled, pull_stage

\* Layers: two keys of one emitter each and an underglow emitter of no key.
MCSwitchOf == <<11, 12, 0>>
MCEmitterZone == <<1, 2, 2>>
MCArmLists == { <<>>, <<"always">>, <<"a">>, <<"a", "always">>, <<"a", "b">>,
                <<"b", "a", "always">>, <<"always", "a">> }

Pull == INSTANCE MCConfigPull WITH NumLayers <- PullLayers, stage <- pull_stage
\* The values of Keyboards, Others and OldFiles, which do not depend on them.
OfPull == INSTANCE MCConfigPull WITH
    NumLayers <- PullLayers, Keyboards <- {}, Others <- {}, OldFiles <- {},
    stage <- pull_stage
PulledKeyboards == OfPull!MCKeyboards
PulledOthers == OfPull!MCOthers
PulledOldFiles == OfPull!MCOldFiles

EveryCode == 0 .. 65535

\* Lists that repeat a position, and lists with one bad entry.
Put(l, k, a) == [layer |-> l, key |-> k, action |-> a]
MCKeymapCommands ==
    { [op |-> "set", entries |-> s] :
        s \in { <<Put(0, 0, "a"), Put(1, 1, "b")>>, <<Put(0, 1, "b"), Put(0, 1, "a")>>,
                <<Put(0, 0, "b"), Put(1, 0, "unfaithful")>>,
                <<Put(0, 0, "b"), Put(2, 0, "a")>> } }
    \cup {[op |-> "read"], [op |-> "probe"], [op |-> "probe writes"]}
    \cup {[op |-> "default", layer |-> l] : l \in 1 .. 2}
    \cup {[op |-> "name", layer |-> l, name |-> "n1"] : l \in 0 .. 2}

Cell(led, c) == [led |-> led, colour |-> c]
MCLightingCommands ==
    { [op |-> "cells", part |-> "overlay", leds |-> <<1, 2>>, colour |-> "red"],
      [op |-> "cells", part |-> "scenes", leds |-> <<1, 3>>, colour |-> "blue"],
      [op |-> "replace", cells |-> <<Cell(1, "red"), Cell(3, "blue"), Cell(1, "blue")>>],
      [op |-> "replace", cells |-> <<Cell(2, "red")>>],
      [op |-> "brightness", value |-> 2], [op |-> "policy", value |-> 2],
      [op |-> "param", value |-> 2], [op |-> "clear"], [op |-> "rewrite"] }

ASSUME PullConstants == Pull!PullAssumption

pullVars == <<keyboard, file, pulled, pull_stage>>
vars == <<subject, rulesVars, entriesVars, macrosVars, pullVars, keyVars, keymapVars,
          lightsVars>>

\* The properties of the components have to make sense of one that does not
\* run: nothing is held, and the file has one macro.
NoRules ==
    /\ rule = Idle /\ features = Idle /\ predicates = Idle /\ rules_pc = Idle
    /\ attempts = Idle /\ held = {}
NoEntries ==
    /\ entries = Idle /\ standalone = Idle /\ entries_pc = Idle /\ reached = Idle
    /\ grid = Idle /\ offline = Idle /\ scenes = Idle /\ conditionals = Idle
NoMacros ==
    /\ slots = Idle /\ macros = <<Idle>> /\ before = Idle /\ order = Idle
    /\ macros_pc = Idle /\ losses = Idle
NoPull == keyboard = Idle /\ file = Idle /\ pulled = Idle /\ pull_stage = Idle
NoKey == key = Idle /\ shown = Idle /\ typed = Idle /\ key_stage = Idle

NoKeymap ==
    /\ keymap = Idle /\ names = Idle /\ default = Idle /\ keymap_unlocked = Idle
    /\ unsaved = Idle /\ foreign = Idle /\ command = Idle /\ keymap_pc = Idle
    /\ at = Idle /\ actions = Idle /\ baseline = Idle /\ result = Idle

\* The properties of the lighting commands are about steps, so they have to
\* make sense of a session that does not run.
NoLights ==
    LET Both(x) == [h \in {"usb", "ble"} |-> x] IN
    /\ lights = Idle /\ lights_unlocked = FALSE /\ staging = Idle /\ ids = 0
    /\ commands = Both([op |-> "clear"]) /\ hosts_pc = Both("start") /\ seen = Idle
    /\ cell = Idle /\ transaction = Idle /\ outcomes = Both("none")

Init ==
    \/ /\ subject = "rules" /\ Rules!Init /\ NoEntries /\ NoMacros /\ NoPull
       /\ NoKey /\ NoKeymap /\ NoLights
    \/ /\ subject = "entries" /\ Layers!Init /\ NoRules /\ NoMacros /\ NoPull
       /\ NoKey /\ NoKeymap /\ NoLights
    \/ /\ subject = "macros" /\ Space!Init /\ NoRules /\ NoEntries /\ NoPull
       /\ NoKey /\ NoKeymap /\ NoLights
    \/ /\ subject = "pull" /\ Pull!Init /\ NoRules /\ NoEntries /\ NoMacros
       /\ NoKey /\ NoKeymap /\ NoLights
    \/ /\ subject = "key" /\ Keys!Init /\ NoRules /\ NoEntries /\ NoMacros
       /\ NoPull /\ NoKeymap /\ NoLights
    \/ /\ subject = "keymap" /\ Keymap!Init /\ NoRules /\ NoEntries /\ NoMacros
       /\ NoPull /\ NoKey /\ NoLights
    \/ /\ subject = "lights" /\ Lighting!Init /\ NoRules /\ NoEntries /\ NoMacros
       /\ NoPull /\ NoKey /\ NoKeymap

Next ==
    \/ /\ subject = "rules" /\ Rules!Next
       /\ UNCHANGED <<subject, entriesVars, macrosVars, pullVars, keyVars, keymapVars, lightsVars>>
    \/ /\ subject = "entries" /\ Layers!Next
       /\ UNCHANGED <<subject, rulesVars, macrosVars, pullVars, keyVars, keymapVars, lightsVars>>
    \/ /\ subject = "macros" /\ Space!Next
       /\ UNCHANGED <<subject, rulesVars, entriesVars, pullVars, keyVars, keymapVars, lightsVars>>
    \/ /\ subject = "pull" /\ Pull!Next
       /\ UNCHANGED <<subject, rulesVars, entriesVars, macrosVars, keyVars, keymapVars, lightsVars>>
    \/ /\ subject = "key" /\ Keys!Next
       /\ UNCHANGED <<subject, rulesVars, entriesVars, macrosVars, pullVars, keymapVars, lightsVars>>
    \/ /\ subject = "keymap" /\ Keymap!Next
       /\ UNCHANGED <<subject, rulesVars, entriesVars, macrosVars, pullVars, keyVars, lightsVars>>
    \/ /\ subject = "lights" /\ Lighting!Next
       /\ UNCHANGED <<subject, rulesVars, entriesVars, macrosVars, pullVars, keyVars, keymapVars>>

Spec == Init /\ [][Next]_vars

-----------------------------------------------------------------------------
(* The properties of the components, under the names they have there;      *)
(* those that HostTools has are there.                                     *)

\* The component that runs is type correct.
TypeOK ==
    /\ subject = "rules" => Rules!TypeOK
    /\ subject = "entries" => Layers!TypeOK
    /\ subject = "macros" => Space!TypeOK
    /\ subject = "pull" => Pull!TypeOK
    /\ subject = "key" => Keys!TypeOK
    /\ subject = "keymap" => Keymap!TypeOK
    /\ subject = "lights" => Lighting!TypeOK

\* ConfigPull: a pulled file is as good as the keyboard it came from.
PulledFileIsFaithful == subject = "pull" => Pull!PulledFileIsFaithful
=============================================================================
