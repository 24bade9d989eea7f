-------------------------- MODULE ConditionalRules --------------------------
(***************************************************************************)
(* One conditional lighting rule on its way from a file to a keyboard and  *)
(* back: validation, the capability check before the first write, the four *)
(* wire forms a firmware may speak, the bounded read of the table, and the *)
(* comparison that decides whether the apply is verified.                  *)
(*                                                                         *)
(* A rule is its effect, its timing options and the predicates that gate   *)
(* it.  What a predicate says is one value, except that `bad` holds the    *)
(* predicates whose own table is malformed (an empty indicators table, a   *)
(* battery minimum above its maximum, ...).                                *)
(***************************************************************************)
EXTENDS Integers, FiniteSets

CONSTANTS
    Predicates,  \* the predicates the rules of this instance draw from
    Times,       \* values of a timing option
    Attempts     \* CONDITIONAL_READ_ATTEMPTS

BasePredicates == {"layer", "battery", "output_mode"}
ExtendedPredicates == {"connection", "effects"}
AdvancedPredicates == {"layers", "indicators"}
RulePredicates == {"maintenance", "split_transport"}
AllPredicates ==
    BasePredicates \cup ExtendedPredicates \cup AdvancedPredicates \cup RulePredicates

(* The feature flags, newest endpoint first. *)
Features == {"rules", "layer_indicator", "effects_conditions", "runtime"}

None == -1
Options == Times \cup {None}

RulesAssumption ==
    /\ Predicates \subseteq AllPredicates
    /\ Times \subseteq Nat /\ 0 \in Times
    /\ Attempts \in Nat \ {0}

VARIABLES
    rule,        \* what the file says
    features,    \* what the keyboard advertises
    predicates,  \* LightingRuleStatus::predicates
    pc,          \* where the apply is
    attempts,    \* failed reads of the table so far
    held         \* the keyboard's table: {} or {the one cell}

vars == <<rule, features, predicates, pc, attempts, held>>

Rules ==
    [effect : {"solid", "blink", "breathe"},
     period : Options, phase : Options, duty : Options, step : Options,
     gates : SUBSET Predicates, bad : SUBSET Predicates]

----------------------------------------------------------------------------
(* Validation.                                                             *)

Positive(option) == option # None /\ option # 0

TimingsSet(r) == {r.period, r.phase, r.duty, r.step} # {None}

TimingsValid(r) ==
    CASE r.effect = "solid" -> ~TimingsSet(r)
      [] r.effect = "blink" -> Positive(r.period) /\ r.duty # None
      [] r.effect = "breathe" -> Positive(r.period) /\ Positive(r.step)

validate_conditional_scene(r) == r.bad = {} /\ TimingsValid(r)

----------------------------------------------------------------------------
(* The wire forms.  A form carries the effect with the fields that effect  *)
(* has, an absent phase sent as zero, and the gates it has room for.       *)

(* Mutant: a breathe rule loses its phase. *)
PhaseLost(r) ==
    CASE r.effect = "solid" -> [effect |-> "solid"]
      [] r.effect = "blink" ->
            [effect |-> "blink", period |-> r.period, duty |-> r.duty, phase |-> r.phase]
      [] r.effect = "breathe" ->
            [effect |-> "breathe", period |-> r.period, step |-> r.step, phase |-> 0]

effect_to_wire(r) ==
    CASE r.effect = "solid" -> [effect |-> "solid"]
      [] r.effect = "blink" ->
            [effect |-> "blink", period |-> r.period, duty |-> r.duty,
             phase |-> IF r.phase = None THEN 0 ELSE r.phase]
      [] r.effect = "breathe" ->
            [effect |-> "breathe", period |-> r.period, step |-> r.step,
             phase |-> IF r.phase = None THEN 0 ELSE r.phase]

effect_from_wire(w) ==
    [effect |-> w.effect,
     period |-> IF w.effect = "solid" THEN None ELSE w.period,
     phase |-> IF w.effect = "solid" THEN None ELSE w.phase,
     duty |-> IF w.effect = "blink" THEN w.duty ELSE None,
     step |-> IF w.effect = "breathe" THEN w.step ELSE None]

(* Which table a keyboard with these features is read from and written to. *)
Form(f) ==
    IF "rules" \in f THEN "rule"
    ELSE IF "layer_indicator" \in f THEN "advanced"
    ELSE IF "effects_conditions" \in f THEN "extended"
    ELSE IF "runtime" \in f THEN "legacy" ELSE "none"

(* The gates a form can carry. *)
Carries(form) ==
    CASE form = "rule" -> AllPredicates
      [] form = "advanced" -> BasePredicates \cup ExtendedPredicates \cup AdvancedPredicates
      [] form = "extended" -> BasePredicates \cup ExtendedPredicates
      [] OTHER -> BasePredicates

(* Mutant: the legacy cell is taken out of the extended one unlooked. *)
EncodesUnchecked(form, r) ==
    r.gates \subseteq IF form = "legacy" THEN Carries("extended") ELSE Carries(form)

(* The converters bail on a gate their form has no room for; the legacy    *)
(* path looks for a connection or effects gate before it drops them.       *)
Encodes(form, r) ==
    /\ r.gates \subseteq Carries(form)
    /\ form \in {"rule", "advanced"} => validate_conditional_scene(r)

Encoded(form, r) == [look |-> effect_to_wire(r), gates |-> r.gates \cap Carries(form)]

Decoded(cell) ==
    LET look == effect_from_wire(cell.look) IN
    [effect |-> look.effect, period |-> look.period, phase |-> look.phase,
     duty |-> look.duty, step |-> look.step, gates |-> cell.gates, bad |-> {}]

----------------------------------------------------------------------------

Init ==
    /\ rule \in Rules
    /\ rule.bad \subseteq rule.gates /\ Cardinality(rule.bad) <= 1
    /\ features \in SUBSET Features
    /\ predicates \in SUBSET Predicates
    /\ "rules" \notin features => predicates = {}
    /\ pc = "file"
    /\ attempts = 0
    /\ held = {}

(* from_toml: validation is what building the snapshot checks. *)
Validate ==
    /\ pc = "file"
    /\ pc' = IF validate_conditional_scene(rule) THEN "read" ELSE "invalid"
    /\ UNCHANGED <<rule, features, predicates, attempts, held>>

(* Mutant: one read too many. *)
ReadFailsForEver ==
    /\ pc \in {"read", "verify"}
    /\ Form(features) # "none"
    /\ attempts <= Attempts
    /\ attempts' = attempts + 1
    /\ UNCHANGED <<rule, features, predicates, pc, held>>

(* One read of the table times out or fails; the last one ends the apply. *)
ReadFails ==
    /\ pc \in {"read", "verify"}
    /\ Form(features) # "none"
    /\ attempts' = attempts + 1
    /\ pc' = IF attempts' = Attempts THEN "unread" ELSE pc
    /\ UNCHANGED <<rule, features, predicates, held>>

ReadSucceeds ==
    /\ pc = "read"
    /\ pc' = "check"
    /\ attempts' = 0
    /\ UNCHANGED <<rule, features, predicates, held>>

(* Mutant: the layer-set and indicator gates are not looked at. *)
OnlyRuleGates(r) ==
    IF "rules" \in features
    THEN r.gates \subseteq predicates
    ELSE r.gates \cap RulePredicates = {}

(* Before the first write of anything. *)
require_conditions_capability(r) ==
    IF "rules" \in features
    THEN r.gates \subseteq predicates
    ELSE /\ r.gates \cap RulePredicates = {}
         /\ "layer_indicator" \notin features => r.gates \cap AdvancedPredicates = {}

Check ==
    /\ pc = "check"
    /\ pc' = IF require_conditions_capability(rule) THEN "keymap" ELSE "refused"
    /\ UNCHANGED <<rule, features, predicates, attempts, held>>

(* Names, behaviours, keys and the rest of lighting are written here: what *)
(* fails from now on leaves the keyboard half changed.                     *)
WriteTheRest ==
    /\ pc = "keymap"
    /\ pc' = "rules"
    /\ UNCHANGED <<rule, features, predicates, attempts, held>>

(* The table is replaced as a whole in the form the keyboard speaks. *)
ReplaceTable ==
    /\ pc = "rules"
    /\ IF Form(features) # "none" /\ Encodes(Form(features), rule)
       THEN /\ held' = {Encoded(Form(features), rule)}
            /\ pc' = "verify"
       ELSE /\ pc' = "late"
            /\ UNCHANGED held
    /\ UNCHANGED <<rule, features, predicates, attempts>>

ReadBack ==
    /\ pc = "verify"
    /\ pc' = IF {Decoded(cell) : cell \in held} = {rule} THEN "verified" ELSE "mismatch"
    /\ UNCHANGED <<rule, features, predicates, attempts, held>>

Next ==
    \/ Validate \/ ReadFails \/ ReadSucceeds \/ Check
    \/ WriteTheRest \/ ReplaceTable \/ ReadBack

Spec == Init /\ [][Next]_vars

----------------------------------------------------------------------------
(* Properties.                                                             *)

(***************************************************************************)
(* Types.  The table is read at most Attempts times in a row.              *)
(***************************************************************************)
TypeOK ==
    /\ rule \in Rules /\ features \subseteq Features /\ predicates \subseteq Predicates
    /\ pc \in {"file", "invalid", "read", "unread", "check", "refused", "keymap",
               "rules", "late", "verify", "verified", "mismatch"}
    /\ attempts \in 0 .. Attempts
    /\ Cardinality(held) <= 1

(***************************************************************************)
(* A keyboard never holds a rule with fewer gates than the file gave it: a *)
(* gate the firmware's form cannot carry refuses the rule and is never     *)
(* dropped, which would light the LED all the time.                        *)
(***************************************************************************)
NoGateDropped == \A cell \in held : cell.gates = rule.gates

(***************************************************************************)
(* What the capability check lets through is refused after the keymap has  *)
(* been written only by a firmware without the extended cell, for its two  *)
(* gates, or by one without any runtime table.                             *)
(***************************************************************************)
LateRefusalsAreOldFirmware ==
    pc = "late" => \/ Form(features) = "none"
                   \/ Form(features) = "legacy" /\ rule.gates \cap ExtendedPredicates # {}

(* The options an effect has, all of them given. *)
Canonical(r) ==
    CASE r.effect = "solid" -> TRUE
      [] r.effect = "blink" -> r.phase # None /\ r.step = None
      [] r.effect = "breathe" -> r.phase # None /\ r.duty = None

(***************************************************************************)
(* A rule that names every option of its effect and no other is read back  *)
(* as it was written, over every wire form.                                *)
(***************************************************************************)
CanonicalRulesVerify == pc = "mismatch" => ~Canonical(rule)

\* A rule is written with all of its gates and reads back as the file has it,
\* or the file is refused, and before the first write unless the firmware is
\* too old to say what it can hold.
RuleIsWrittenOrRefused ==
    NoGateDropped /\ LateRefusalsAreOldFirmware /\ CanonicalRulesVerify

(***************************************************************************)
(* "a config that parses here is one a keyboard can be asked to hold": no  *)
(* rule that validation accepts fails the read-back comparison.            *)
(***************************************************************************)
ValidRulesVerify == pc # "mismatch"

=============================================================================
