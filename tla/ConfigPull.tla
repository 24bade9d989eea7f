----------------------------- MODULE ConfigPull -----------------------------
(***************************************************************************)
(* `config pull` and what its file is good for: the file is parsed again,  *)
(* compared with the keyboard it came from, edited, and applied to a       *)
(* keyboard that has been changed meanwhile.                               *)
(*                                                                         *)
(* A keyboard has                                                          *)
(*   layers    one action standing for the whole layer,                    *)
(*   names     the layer names it stores, 0 a vacant slot,                 *)
(*   refs      the layers its settings name, 0 none,                       *)
(*   options   whether the firmware serves the behaviour options,          *)
(*   profiles  the name of each morse profile slot, 0 an empty slot,       *)
(*   triggers  the profile of each hold-trigger position, in order,        *)
(*   tables    morses, combos, forks and macros,                           *)
(*   params    value and default of each effect parameter.                 *)
(* Slots, layers and names are numbered from 1.                            *)
(***************************************************************************)
EXTENDS Naturals, Sequences, SequencesExt, FiniteSets, FiniteSetsExt, Functions

CONSTANTS
    NumLayers,   \* layers the keyboard has
    Slots,       \* capacity of each behaviour table and of the profiles
    Keyboards,   \* the states a keyboard is found in
    Others,      \* the states another program may leave it in
    OldFiles     \* what the file being pulled into may have held

PullAssumption == NumLayers \in Nat \ {0} /\ Slots \in Nat

VARIABLES keyboard, file, pulled, stage

vars == <<keyboard, file, pulled, stage>>

----------------------------------------------------------------------------
(* Keyboards.                                                              *)

(* "lost" is an action with no VIA keycode: it is spelled as keycode 0.    *)
(* A tap-hold is "lt" when it holds a layer, "mt" when it holds anything   *)
(* else.                                                                   *)
TapHold == {"lt", "mt"}
Act(kind, profile) == [kind |-> kind, profile |-> profile]
Default == 0      \* u8::MAX, the default profile
NoSuffix == 0 - 1 \* a tap-hold spelled without a profile
Gap == 0          \* the empty name of an interior profile slot

BehaviorRefs == {"tri_layer", "auto_mouse"}
Refs == {"default_layer", "wake_layer", "override"} \cup BehaviorRefs

(***************************************************************************)
(* A table entry, by what the file form makes of it: is it `used`, has it  *)
(* nothing the file cannot spell (`own`), and does the spelled form parse  *)
(* (`spelled`): a morse of long patterns only, or a combo of one key, does *)
(* not.                                                                    *)
(***************************************************************************)
Entry(used, own, spelled) == [used |-> used, own |-> own, spelled |-> spelled]
Free == Entry(FALSE, TRUE, TRUE)
Tables == {"morse", "combo", "fork", "macro"}

(* Mutant: a layer of No keys is taken for an empty one. *)
TrimBlocking(k) ==
    Max({1} \cup {l \in 1 .. NumLayers : k.layers[l].kind \notin {"trans", "no"}})

(* trim_trailing_transparent_layers: the last layer to keep. *)
KeptLayers(k) ==
    Max({1} \cup {l \in 1 .. NumLayers : k.layers[l].kind # "trans"})

(* Mutant: the used entries, moved together. *)
Compacted(table) == SelectSeq(table, LAMBDA e : e.used)

(* The occupied prefix; gaps inside keep their index. *)
used_slots(table) ==
    SubSeq(table, 1, Max({0} \cup {i \in DOMAIN table : table[i].used}))

(* Names up to the last profile, Gap where a slot has none. *)
profile_names_by_slot(profiles) ==
    SubSeq(profiles, 1, Max({0} \cup {s \in DOMAIN profiles : profiles[s] # 0}))

----------------------------------------------------------------------------
(* Writing a file.                                                         *)

(* A tap-hold is spelled with its profile's name, when the slot has one. *)
render_key_action(a, names) ==
    CASE a.kind = "lost" -> Act("no", NoSuffix)
      [] a.kind \in TapHold /\ a.profile \in DOMAIN names -> Act(a.kind, names[a.profile])
      [] OTHER -> Act(a.kind, NoSuffix)

(* What the file spells of an entry. *)
from_wire(e) == [e EXCEPT !.own = TRUE]

(* Generated ids and names: layer i is called i. *)
LayerIds(k, old) ==
    [l \in 1 .. KeptLayers(k) |-> IF l \in DOMAIN old.ids THEN old.ids[l] ELSE l]

(* A stored name wins over the label of the old file. *)
LayerNames(k, old) ==
    [l \in 1 .. KeptLayers(k) |->
        CASE k.names[l] # 0 -> k.names[l]
          [] k.names[l] = 0 /\ l \in DOMAIN old.names -> old.names[l]
          [] OTHER -> l]

(* The parameters a pulled file records. *)
retain_non_default_params(params) ==
    {p \in DOMAIN params : params[p].value # params[p].default}

(* Positions of the default profile first, then of each named one. *)
TriggersBySlot(k) ==
    LET of(s) == SelectSeq(k.triggers, LAMBDA t : t = s)
        named == SetToSortSeq({s \in DOMAIN k.profiles : k.profiles[s] # 0}, <)
    IN  of(Default) \o FlattenSeq([i \in DOMAIN named |-> of(named[i])])

(* Without options there is no [behavior] section, and no profiles. *)
from_snapshot(k, old) ==
    [ ids      |-> LayerIds(k, old),
      names    |-> LayerNames(k, old),
      layers   |-> [l \in 1 .. KeptLayers(k) |->
                        render_key_action(k.layers[l], profile_names_by_slot(k.profiles))],
      refs     |-> [r \in Refs |-> IF r \in BehaviorRefs /\ ~k.options THEN 0 ELSE k.refs[r]],
      behavior |-> k.options,
      profiles |-> IF k.options
                   THEN [n \in Range(k.profiles) \ {0} |->
                            CHOOSE s \in DOMAIN k.profiles : k.profiles[s] = n]
                   ELSE <<>>,
      triggers |-> IF k.options THEN TriggersBySlot(k) ELSE <<>>,
      tables   |-> [t \in Tables |->
                        [i \in DOMAIN used_slots(k.tables[t]) |->
                            from_wire(used_slots(k.tables[t])[i])]],
      params   |-> [p \in retain_non_default_params(k.params) |-> k.params[p].value] ]

----------------------------------------------------------------------------
(* Reading a file: build_snapshot.                                         *)

(* Mutant: the slot after the last one taken. *)
AfterLast(taken) == Max({0} \cup taken) + 1

(* Mutant: the explicit indices are not marked as taken. *)
FirstSlot(taken) == 1

LowestFree(taken) == Min({s \in 1 .. Slots + 1 : s \notin taken})

(* Profiles that give no index take the lowest free one, in name order. *)
resolve_morse_profiles(profiles) ==
    LET open == SetToSortSeq({n \in DOMAIN profiles : profiles[n] = 0}, <)
        Place(placed, n) ==
            [m \in DOMAIN placed \cup {n} |->
                IF m = n THEN LowestFree(Range(placed)) ELSE placed[m]]
    IN  FoldLeft(Place, [n \in {m \in DOMAIN profiles : profiles[m] # 0} |-> profiles[n]], open)

SlotNames(f) ==
    LET slot == resolve_morse_profiles(f.profiles)
        NameAt(s) == IF s \in Range(slot) THEN CHOOSE n \in DOMAIN slot : slot[n] = s ELSE 0
    IN  [s \in 1 .. Slots |-> NameAt(s)]

(* The first slot with the name; an unnamed LT has the default profile. *)
parse_key_action(a, names) ==
    CASE a.kind \in TapHold /\ a.profile # NoSuffix ->
            Act(a.kind, Min({s \in DOMAIN names : names[s] = a.profile}))
      [] OTHER -> Act(a.kind, Default)

(* A profile nobody defines, or a tap-hold the keycode grammar has no      *)
(* two-argument form of: MT(tap, mod) is read as MT(mods, tap).            *)
Unparsable(a, names) ==
    /\ a.kind \in TapHold
    /\ IF a.profile = NoSuffix THEN a.kind = "mt" ELSE a.profile \notin Range(names)

(* The conditions under which build_snapshot fails. *)
Rejected(f) ==
    LET names == profile_names_by_slot(SlotNames(f)) IN
    \/ \E l \in DOMAIN f.layers : Unparsable(f.layers[l], names)
    \/ Cardinality(Range(f.ids)) < Len(f.ids)
    \/ \E r \in Refs : f.refs[r] > Len(f.layers)
    \/ \E t \in Tables : \E i \in DOMAIN f.tables[t] : ~f.tables[t][i].spelled

(* What the file asks for; a table it lists nothing in is one it is silent about. *)
build_snapshot(f) ==
    [ layers   |-> [l \in DOMAIN f.layers |->
                        parse_key_action(f.layers[l], profile_names_by_slot(SlotNames(f)))],
      names    |-> f.names,
      refs     |-> f.refs,
      behavior |-> f.behavior,
      profiles |-> SlotNames(f),
      triggers |-> f.triggers,
      tables   |-> [t \in {u \in Tables : f.tables[u] # <<>>} |-> f.tables[t]],
      params   |-> f.params ]

(* Mutant: --exact merges like a plain apply. *)
ExactMerges(desired) == desired

claim_every_behavior_table(desired) ==
    [desired EXCEPT !.tables =
        [t \in Tables |-> IF t \in DOMAIN desired.tables THEN desired.tables[t] ELSE <<>>]]

(* Whether the file governs a reference. *)
Claims(desired, r) == r \notin BehaviorRefs \/ desired.behavior

(* An entry the file lists, or an empty slot past its end. *)
EntryAt(table, i) == IF i \in DOMAIN table THEN table[i] ELSE Free

differences(desired, k) ==
    {"layer" : l \in {m \in DOMAIN desired.layers : desired.layers[m] # k.layers[m]}}
        \cup {"name" : l \in {m \in DOMAIN desired.names : desired.names[m] # k.names[m]}}
        \cup {r \in Refs : Claims(desired, r) /\ desired.refs[r] # k.refs[r]}
        \cup {"behavior" : b \in {x \in {desired.behavior} :
                x /\ (desired.profiles # k.profiles \/ desired.triggers # k.triggers)}}
        \cup {t \in DOMAIN desired.tables : \E i \in 1 .. Slots :
                IF i \in DOMAIN desired.tables[t]
                THEN k.tables[t][i] # desired.tables[t][i]
                ELSE k.tables[t][i].used}
        \cup {"param" : p \in {q \in DOMAIN desired.params : k.params[q].value # desired.params[q]}}

(* The keyboard once every difference has been written.  How the writes    *)
(* get there is ConfigApply's subject.                                     *)
Applied(desired, k) ==
    [k EXCEPT
        !.layers = [l \in 1 .. NumLayers |->
            IF l \in DOMAIN desired.layers THEN desired.layers[l] ELSE k.layers[l]],
        !.names = [l \in 1 .. NumLayers |->
            IF l \in DOMAIN desired.names THEN desired.names[l] ELSE k.names[l]],
        !.refs = [r \in Refs |-> IF Claims(desired, r) THEN desired.refs[r] ELSE k.refs[r]],
        !.profiles = IF desired.behavior THEN desired.profiles ELSE @,
        !.triggers = IF desired.behavior THEN desired.triggers ELSE @,
        !.tables = [t \in Tables |-> [i \in 1 .. Slots |->
            IF t \in DOMAIN desired.tables
               /\ (i \in DOMAIN desired.tables[t] \/ k.tables[t][i].used)
            THEN EntryAt(desired.tables[t], i) ELSE k.tables[t][i]]],
        !.params = [p \in DOMAIN k.params |->
            IF p \in DOMAIN desired.params
            THEN [k.params[p] EXCEPT !.value = desired.params[p]] ELSE k.params[p]]]

----------------------------------------------------------------------------
(* The user, the tool and the keyboard.                                    *)

Init ==
    /\ keyboard \in Keyboards
    /\ file \in OldFiles
    /\ pulled = keyboard
    /\ stage = "old"

(* The old file only lends its labels, and only if it parses. *)
Pull ==
    /\ stage = "old"
    /\ file' = from_snapshot(keyboard, IF Rejected(file) THEN [ids |-> <<>>, names |-> <<>>]
                                       ELSE file)
    /\ pulled' = keyboard
    /\ stage' = "pulled"
    /\ UNCHANGED keyboard

(* The user deletes the index line of a profile. *)
DropIndex ==
    /\ stage \in {"pulled", "edited"}
    /\ \E n \in DOMAIN file.profiles :
        /\ file.profiles[n] # 0
        /\ file' = [file EXCEPT !.profiles[n] = 0]
    /\ stage' = "edited"
    /\ UNCHANGED <<keyboard, pulled>>

(* The keyboard is given another configuration by another program. *)
KeyboardChanges ==
    /\ stage = "pulled"
    /\ keyboard' \in {k \in Others : k.options = keyboard.options
                                        /\ DOMAIN k.params = DOMAIN keyboard.params}
    /\ stage' = "changed"
    /\ UNCHANGED <<file, pulled>>

(* `config apply --exact` of the pulled file. *)
ApplyExact ==
    /\ stage \in {"pulled", "changed", "edited"}
    /\ ~Rejected(file)
    /\ LET desired == claim_every_behavior_table(build_snapshot(file))
       IN  keyboard' = IF differences(desired, keyboard) = {} THEN keyboard
                       ELSE Applied(desired, keyboard)
    /\ stage' = IF stage = "edited" THEN "reindexed" ELSE "applied"
    /\ UNCHANGED <<file, pulled>>

(* Pulled again into the same file. *)
PullAgain ==
    /\ stage = "applied"
    /\ stage' = "old"
    /\ UNCHANGED <<keyboard, file, pulled>>

Next == Pull \/ DropIndex \/ KeyboardChanges \/ ApplyExact \/ PullAgain

Spec == Init /\ [][Next]_vars

----------------------------------------------------------------------------
(* Properties.                                                             *)

(* Types.  Every profile of a file finds a slot. *)
TypeOK ==
    /\ stage \in {"old", "pulled", "edited", "changed", "applied", "reindexed"}
    /\ DOMAIN keyboard.layers = 1 .. NumLayers
    /\ \A t \in Tables : Len(keyboard.tables[t]) = Slots
    /\ \A s \in DOMAIN keyboard.profiles : s \in 1 .. Slots
    /\ Range(resolve_morse_profiles(file.profiles)) \subseteq 1 .. Slots

(* What a keyboard must be for a file to carry it whole. *)
Blank(a) == a.kind = "trans"
LastLayer(k) == Max({1} \cup {l \in 1 .. NumLayers : ~Blank(k.layers[l])})
NamesOnlyKeptLayers(k) == \A r \in Refs : k.refs[r] <= LastLayer(k)
HasEveryProfile(k) ==
    \A l \in 1 .. NumLayers : LET a == k.layers[l] IN
        /\ a.kind # "lost"
        /\ a.kind = "mt" => a.profile # Default
        /\ a.kind \in TapHold /\ a.profile # Default
               => k.options /\ k.profiles[a.profile] # 0
Spelled(k) == \A t \in Tables : \A e \in Range(used_slots(k.tables[t])) : e.spelled
Own(k) == /\ \A t \in Tables : \A e \in Range(used_slots(k.tables[t])) : e.own
          /\ \A l \in 1 .. LastLayer(k) : k.names[l] # 0
          /\ k.options => TriggersBySlot(k) = k.triggers

(* The labels of the old file do not meet a generated one. *)
FreshIds == Cardinality(Range(file.ids)) = Len(file.ids)

(***************************************************************************)
(* A pulled file parses, for every keyboard that names only layers the     *)
(* export keeps and profiles that exist, whatever gaps its tables have.    *)
(***************************************************************************)
PulledFileParses ==
    stage = "pulled" /\ NamesOnlyKeptLayers(pulled) /\ HasEveryProfile(pulled)
        /\ Spelled(pulled) /\ FreshIds
    => ~Rejected(file)

(* Keyboards a file carries whole. *)
Portable(k) == NamesOnlyKeptLayers(k) /\ HasEveryProfile(k) /\ Spelled(k) /\ Own(k)

(***************************************************************************)
(* A file just pulled reports no difference from the keyboard it was       *)
(* pulled from: `config diff` right after `config pull` is silent.         *)
(***************************************************************************)
PulledFileMatches ==
    stage = "pulled" /\ Portable(pulled) /\ FreshIds
        => differences(build_snapshot(file), pulled) = {}

(* What a backup covers: the layers the export kept, every table, the      *)
(* settings, and the parameters that were not at their default.            *)
Same(k, j) ==
    /\ \A l \in 1 .. LastLayer(j) : k.layers[l] = j.layers[l] /\ k.names[l] = j.names[l]
    /\ \A t \in Tables : \A i \in 1 .. Slots :
            /\ k.tables[t][i].used = j.tables[t][i].used
            /\ j.tables[t][i].used => k.tables[t][i] = j.tables[t][i]
    /\ \A r \in Refs \ BehaviorRefs : k.refs[r] = j.refs[r]
    /\ j.options => k.refs = j.refs /\ k.profiles = j.profiles /\ k.triggers = j.triggers
    /\ \A p \in DOMAIN j.params : j.params[p].value # j.params[p].default
            => k.params[p] = j.params[p]

(***************************************************************************)
(* A pulled file is a backup: applied with --exact to the keyboard after   *)
(* any other configuration was put on it, it brings the pulled one back.   *)
(***************************************************************************)
BackupRestores ==
    stage = "applied" /\ Portable(pulled) => Same(keyboard, pulled)

(***************************************************************************)
(* Keys name their profile, so a user may drop the index lines: profiles   *)
(* may change slots, but none is lost and every tap-hold still has the     *)
(* profile it had.                                                         *)
(***************************************************************************)
KeysKeepTheirProfile ==
    stage = "reindexed" /\ Portable(pulled) =>
        /\ Range(keyboard.profiles) \ {0} = Range(pulled.profiles) \ {0}
        /\ \A l \in 1 .. LastLayer(pulled) :
            LET was == pulled.layers[l]
                is == keyboard.layers[l]
            IN  was.kind \in TapHold =>
                    \/ is = was /\ was.profile = Default
                    \/ /\ was.profile # Default /\ is.profile # Default
                       /\ keyboard.profiles[is.profile] = pulled.profiles[was.profile]

\* A pulled file is as good as the keyboard: it parses, differs in nothing,
\* restores the keyboard later, and keeps the profile of every key when the
\* profiles are numbered anew.
PulledFileIsFaithful ==
    PulledFileParses /\ PulledFileMatches /\ BackupRestores /\ KeysKeepTheirProfile

(***************************************************************************)
(* "a canonical export must validate": what the test of the exporter       *)
(* asserts of its one keyboard, of every keyboard.                         *)
(***************************************************************************)
ExportValidates == stage = "pulled" => ~Rejected(file)

(***************************************************************************)
(* "a bidirectional TOML snapshot of managed runtime state": an export     *)
(* that validates differs in nothing from the keyboard it was taken from.  *)
(***************************************************************************)
ExportIsBidirectional ==
    stage = "pulled" /\ ~Rejected(file) => differences(build_snapshot(file), pulled) = {}

=============================================================================
