------------------------------ MODULE HostTools ------------------------------
(***************************************************************************)
(* The host side without ConfigApply and ConfigPull. The commands of       *)
(* moergo-control that work on a connected keyboard while others change    *)
(* it: the lighting commands (LightingSession) and the keymap commands     *)
(* (KeymapSession). What moergo-config and moergo-control make of a        *)
(* configuration file: its rules (ConditionalRules), the entries of its    *)
(* layers (LayerEntries), its key codes (Keycodes) and its macros          *)
(* (MacroSpace). None of them shares state with another.                   *)
(***************************************************************************)
EXTENDS Integers, Sequences

CONSTANTS
    Hosts, Leds, Colours, LightingCommands, ChunkSize, MaxRevision,
                                                    \* LightingSession
    NumLayers, NumKeys, KeyActions, Names, KeymapCommands, BulkTransfer, Rounds, MaxForeign,
                                                    \* KeymapSession
    Predicates, Times, Attempts,                    \* ConditionalRules
    Emitters, Switches, SwitchOf, EmitterZone, NoSwitch, Gates, MaxEntries, ArmLists,
                                                    \* LayerEntries
    HidKeys, Codes, MaxLayer, MaxIndex,             \* Keycodes
    MaxMacros, SpaceSize, LongMacro, MaxLength, MaxFileMacros, MaxLosses
                                                    \* MacroSpace

VARIABLES
    lights, lights_unlocked, staging, ids, commands, hosts_pc, seen, cell,
        transaction, outcomes,
    keymap, names, default, keymap_unlocked, unsaved, foreign, command, keymap_pc, at,
        actions, baseline, result,
    rule, features, predicates, rules_pc, attempts, held,
    entries, standalone, entries_pc, reached, grid, offline, scenes, conditionals,
    key, shown, typed, key_stage,
    slots, macros, before, order, macros_pc, losses

Lighting == INSTANCE LightingSession WITH
    Commands <- LightingCommands, unlocked <- lights_unlocked, command <- commands,
    pc <- hosts_pc, held <- seen, next <- cell, outcome <- outcomes
Keymap == INSTANCE KeymapSession WITH
    Actions <- KeyActions, Commands <- KeymapCommands, unlocked <- keymap_unlocked,
    pc <- keymap_pc, next <- at, outcome <- result

Rules == INSTANCE ConditionalRules WITH pc <- rules_pc
Layers == INSTANCE LayerEntries WITH
    Leds <- Emitters, Keys <- Switches, KeyOf <- SwitchOf, ZoneOf <- EmitterZone,
    NoKey <- NoSwitch, Conditions <- Gates, pc <- entries_pc, next <- reached,
    keymap <- grid
Keys == INSTANCE Keycodes WITH stage <- key_stage
Space == INSTANCE MacroSpace WITH file <- macros, pc <- macros_pc

ASSUME SessionConstants ==
    /\ Lighting!LightingSessionAssumption /\ Lighting!CommandShape
    /\ Keymap!SessionAssumption /\ Keymap!CommandShape

ASSUME ConversionConstants ==
    /\ Rules!RulesAssumption /\ Layers!LayerAssumption
    /\ Keys!KeycodesAssumption /\ Space!MacroAssumption

lightsVars == <<lights, lights_unlocked, staging, ids, commands, hosts_pc, seen, cell,
                transaction, outcomes>>
keymapVars == <<keymap, names, default, keymap_unlocked, unsaved, foreign, command,
                keymap_pc, at, actions, baseline, result>>
rulesVars == <<rule, features, predicates, rules_pc, attempts, held>>
entriesVars == <<entries, standalone, entries_pc, reached, grid, offline, scenes, conditionals>>
keyVars == <<key, shown, typed, key_stage>>
macrosVars == <<slots, macros, before, order, macros_pc, losses>>

-----------------------------------------------------------------------------
(* The properties of the components, under the names they have there.      *)

\* LightingSession: a failed replacement leaves no transaction open, unless the
\* maintenance lock was engaged meanwhile.
FailureCleansUp == Lighting!FailureCleansUp

\* LightingSession: a command that reports success has done all of it and
\* undone nothing.
SuccessIsExact == Lighting!SuccessIsExact

\* KeymapSession: what is reported of the keymap is so.
KeymapReportIsTrue == Keymap!KeymapReportIsTrue

\* ConditionalRules: a rule is written with all its gates and reads back, or
\* the file is refused in time.
RuleIsWrittenOrRefused == Rules!RuleIsWrittenOrRefused

\* LayerEntries: the last binding and the first arm that holds count, with
\* and without a keyboard.
EntriesResolveAsWritten == Layers!EntriesResolveAsWritten

\* Keycodes: a key survives code and spelling in both directions.
KeysRoundTrip == Keys!KeysRoundTrip

\* MacroSpace: an admitted table never overruns the space and reads back.
MacrosArrive == Space!MacrosArrive
=============================================================================
