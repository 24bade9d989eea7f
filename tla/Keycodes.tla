------------------------------ MODULE Keycodes ------------------------------
(***************************************************************************)
(* The command line names keys by 16-bit VIA keycodes; the keyboard holds  *)
(* typed actions.  Four conversions connect them: action to code and back, *)
(* code to spelling and back.                                              *)
(*                                                                         *)
(* The machine is `keymap get` and `keymap set` on one key: the keyboard's *)
(* action is printed, and a spelling (what was printed, or one the user    *)
(* typed) is checked and written.                                          *)
(***************************************************************************)
EXTENDS Integers

CONSTANTS
    HidKeys,     \* the key bytes tried, below 256
    Codes,       \* the keycodes a user may type
    MaxLayer,    \* the highest layer an action may name
    MaxIndex     \* the highest macro, morse or user index it may name

MaxCode == 65535   \* a keycode is a u16

KeycodesAssumption ==
    /\ HidKeys \subseteq 2 .. 255 /\ Codes \subseteq 0 .. MaxCode
    /\ MaxLayer \in 0 .. 31 /\ MaxIndex \in 0 .. 255

VARIABLES key, shown, typed, stage

vars == <<key, shown, typed, stage>>

----------------------------------------------------------------------------
(* Actions: a kind, a layer or index, packed modifiers, and a key byte.    *)
(* "fixed" is any control, light or special action that owns one code.     *)

Action(kind, n, mods, k) == [kind |-> kind, n |-> n, mods |-> mods, key |-> k]
No == Action("no", 0, 0, 0)

LayerVerbs == {"TO", "MO", "DF", "TG", "OSL", "PDF"}
Base(verb) ==
    CASE verb = "TO" -> 20992 [] verb = "MO" -> 21024 [] verb = "DF" -> 21056
      [] verb = "TG" -> 21088 [] verb = "OSL" -> 21120 [] verb = "TT" -> 21184
      [] verb = "PDF" -> 21216

(* Space cadets 0x7c18..0x7c1d, and 0x7c1e, which is a plain mod-tap. *)
Cadets == 31768 .. 31773
ShiftEnter == 31774

(* The other codes of EXTRA: output, backlight, RGB and magic keys. *)
Fixed ==
    {30596, 30598} \cup 30720 .. 30726 \cup 30752 .. 30773
        \cup {31744, 31745, 31747, 31748, 31749, 31766}
        \cup 31824 .. 31826 \cup {31859, 31863, 31864, 31865}

(* Mutant: the hand flag survives without a modifier. *)
Unnormalised(bits) == bits

(* The packed form has one hand flag, 16; alone it names no modifier. *)
from_packed_bits(bits) == IF bits = 16 THEN 0 ELSE bits

Mods == (0 .. 31) \ {16}

(***************************************************************************)
(* "ltx" is a layer-tap whose tap is more than a key, "cadet" a modified   *)
(* tap under a modifier, "other" an action with no code.                   *)
(***************************************************************************)
Actions ==
    {No, Action("trans", 0, 0, 0), Action("other", 0, 0, 0)}
        \cup {Action("hid", 0, 0, k) : k \in HidKeys}
        \cup {Action("chord", 0, m, k) : m \in Mods, k \in HidKeys}
        \cup {Action("mod", 0, m, 0) : m \in Mods}
        \cup {Action("OSM", 0, m, 0) : m \in Mods}
        \cup {Action(v, l, 0, 0) : v \in LayerVerbs, l \in 0 .. MaxLayer}
        \cup {Action("LM", l, m, 0) : l \in 0 .. MaxLayer, m \in Mods}
        \cup {Action("lt", l, 0, k) : l \in 0 .. MaxLayer, k \in HidKeys}
        \cup {Action("ltx", l, 0, k) : l \in 0 .. MaxLayer, k \in HidKeys}
        \cup {Action("mt", 0, m, k) : m \in Mods, k \in HidKeys}
        \cup {Action("lmt", l, i, k) : l \in 0 .. MaxLayer, i \in 0 .. 7, k \in HidKeys}
        \cup {Action(v, i, 0, 0) : v \in {"macro", "morse", "user"}, i \in 0 .. MaxIndex}
        \cup {Action("fixed", c, 0, 0) : c \in Fixed}
        \cup {Action("cadet", c, 0, 0) : c \in Cadets}

----------------------------------------------------------------------------
(* Actions and codes.                                                      *)

to_via_keycode(a) ==
    CASE a.kind = "trans" -> 1
      [] a.kind = "hid" -> a.key
      [] a.kind = "chord" -> a.mods * 256 + a.key
      [] a.kind = "mod" -> 28672 + a.mods
      [] a.kind = "OSM" -> 21152 + a.mods
      [] a.kind = "OSL" -> IF a.n < 16 THEN Base("OSL") + a.n ELSE 0
      [] a.kind \in LayerVerbs \ {"OSL"} -> Base(a.kind) + a.n
      [] a.kind = "LM" -> IF a.n < 16 THEN 20480 + a.n * 32 + a.mods ELSE 0
      [] a.kind = "lt" -> IF a.n <= 16 THEN 16384 + a.n * 256 + a.key ELSE 0
      [] a.kind = "ltx" -> IF a.n <= 16 THEN 16384 + a.n * 256 ELSE 0
      [] a.kind = "mt" -> 8192 + a.mods * 256 + a.key
      [] a.kind = "lmt" -> IF a.n < 16 THEN 32768 + a.n * 2048 + a.mods * 256 + a.key ELSE 0
      [] a.kind = "macro" -> 30464 + a.n
      [] a.kind = "morse" -> 22272 + a.n
      [] a.kind = "user" -> 32256 + (a.n % 32)
      [] a.kind \in {"fixed", "cadet"} -> a.n
      [] OTHER -> 0

(* Mutant: three bits of a layer. *)
ShortLayer(code) == code % 8

LayerOf(code) == code % 16

KeyOf(code) == code % 256

(* A range of codes, as the arms of the match name it. *)
Within(code, first, last) == first <= code /\ code <= last

(* The verb whose 32 codes from 0x5200 hold the code. *)
VerbOf(code) == CHOOSE v \in LayerVerbs : Base(v) = code - (code % 32)

from_via_keycode(code) ==
    CASE code = 1 -> Action("trans", 0, 0, 0)
      [] Within(code, 2, 255) -> Action("hid", 0, 0, code)
      [] Within(code, 256, 8191) -> Action("chord", 0, from_packed_bits(code \div 256), KeyOf(code))
      [] Within(code, 8192, 16383) ->
            Action("mt", 0, from_packed_bits((code \div 256) % 32), KeyOf(code))
      [] Within(code, 16384, 20479) -> Action("lt", (code \div 256) % 16, 0, KeyOf(code))
      [] Within(code, 20480, 20991) ->
            Action("LM", (code \div 32) % 16, from_packed_bits(code % 32), 0)
      [] Within(code, 20992, 21151) \/ Within(code, 21216, 21247) ->
            Action(VerbOf(code), LayerOf(code), 0, 0)
      [] Within(code, 21152, 21183) -> Action("OSM", 0, from_packed_bits(code % 32), 0)
      [] Within(code, 22272, 22527) -> Action("morse", KeyOf(code), 0, 0)
      [] code >= 32768 ->
            Action("lmt", (code \div 2048) % 16, (code \div 256) % 8, KeyOf(code))
      [] Within(code, 28672, 28703) -> Action("mod", 0, from_packed_bits(code % 32), 0)
      [] Within(code, 30464, 30495) -> Action("macro", code % 32, 0, 0)
      [] Within(code, 32256, 32287) -> Action("user", code % 32, 0, 0)
      [] code \in Fixed -> Action("fixed", code, 0, 0)
      [] code \in Cadets -> Action("cadet", code, 0, 0)
      [] code = ShiftEnter -> Action("mt", 0, 18, 40)
      [] OTHER -> No

----------------------------------------------------------------------------
(* Codes and spellings.  "name" and "0x" spell a whole code: a table name  *)
(* or bare hex.                                                            *)

Spelling(verb, n, mods, k) == [verb |-> verb, n |-> n, mods |-> mods, key |-> k]
Whole(code) ==
    Spelling(IF code \in Fixed \cup Cadets \cup {ShiftEnter} THEN "name" ELSE "0x", 0, 0, code)

format_keycode(code) ==
    LET bits == (code \div 256) % 32 IN
    CASE Within(code, 256, 8191) /\ bits % 16 # 0 -> Spelling("wrap", 0, bits, KeyOf(code))
      [] Within(code, 8192, 16383) /\ bits % 16 # 0 -> Spelling("MT", 0, bits, KeyOf(code))
      [] Within(code, 16384, 20479) -> Spelling("LT", (code \div 256) % 16, 0, KeyOf(code))
      [] code >= 32768 ->
            Spelling("LMT", (code \div 2048) % 16, (code \div 256) % 8, KeyOf(code))
      [] Within(code, 20480, 20991) /\ code % 16 # 0 ->
            Spelling("LM", (code \div 32) % 16, code % 32, 0)
      [] Within(code, 20992, 21151) \/ Within(code, 21216, 21247) ->
            Spelling(VerbOf(code), LayerOf(code), 0, 0)
      [] Within(code, 21152, 21183) /\ code % 16 # 0 -> Spelling("OSM", 0, code % 32, 0)
      [] Within(code, 21184, 21215) -> Spelling("TT", LayerOf(code), 0, 0)
      [] Within(code, 22272, 22527) -> Spelling("TD", KeyOf(code), 0, 0)
      [] Within(code, 28672, 28703) /\ code % 32 # 0 -> Spelling("MOD", 0, code % 32, 0)
      [] Within(code, 30464, 30495) -> Spelling("MACRO", code % 32, 0, 0)
      [] Within(code, 32256, 32287) -> Spelling("USER", code % 32, 0, 0)
      [] OTHER -> Whole(code)

Unparsed == 0 - 1

(* Hand flag and names; a list without a name (MOD_NONE) is an error. *)
ModListVerbs == {"MT", "LM", "OSM", "MOD"}

parse_keycode(s) ==
    IF s.verb \in ModListVerbs /\ s.mods % 16 = 0 THEN Unparsed ELSE
    CASE s.verb \in {"name", "0x"} -> s.key
      [] s.verb = "wrap" -> s.mods * 256 + s.key
      [] s.verb = "MT" -> 8192 + s.mods * 256 + s.key
      [] s.verb = "LT" -> 16384 + s.n * 256 + s.key
      [] s.verb = "LMT" -> 32768 + s.n * 2048 + s.mods * 256 + s.key
      [] s.verb = "LM" -> 20480 + s.n * 32 + s.mods
      [] s.verb \in LayerVerbs \cup {"TT"} -> Base(s.verb) + s.n
      [] s.verb = "OSM" -> 21152 + s.mods
      [] s.verb = "TD" -> 22272 + s.n
      [] s.verb = "MOD" -> 28672 + s.mods
      [] s.verb = "MACRO" -> 30464 + s.n
      [] s.verb = "USER" -> 32256 + s.n

----------------------------------------------------------------------------
(* The key and the command line.                                           *)

(* Mutant: entries are not checked. *)
AnyCode(code) == TRUE

(* The check of parse_set_entries. *)
Faithful(code) == to_via_keycode(from_via_keycode(code)) = code

Init ==
    /\ key \in Actions
    /\ shown = Whole(0)
    /\ typed = Unparsed
    /\ stage = "held"

(* The user types a keycode in hex. *)
Type ==
    /\ stage = "held"
    /\ key = No
    /\ \E c \in Codes : typed' = c /\ shown' = Whole(c)
    /\ stage' = "typed"
    /\ UNCHANGED key

(* `keymap get`: an action whose code is 0 is refused, unless it is No. *)
Get ==
    /\ stage \in {"held", "set"}
    /\ LET code == to_via_keycode(key)
       IN  IF code = 0 /\ key # No
           THEN stage' = "refused" /\ UNCHANGED shown
           ELSE /\ shown' = format_keycode(code)
                /\ stage' = IF stage = "held" THEN "printed" ELSE "reprinted"
    /\ UNCHANGED <<key, typed>>

(* `keymap set` of a spelling. *)
Set ==
    /\ stage \in {"printed", "typed"}
    /\ LET code == parse_keycode(shown)
       IN  IF code = Unparsed \/ ~Faithful(code)
           THEN stage' = "refused" /\ UNCHANGED key
           ELSE /\ key' = from_via_keycode(code)
                /\ stage' = IF typed = Unparsed THEN "rewritten" ELSE "set"
    /\ UNCHANGED <<shown, typed>>

Next == Type \/ Get \/ Set

Spec == Init /\ [][Next]_vars

----------------------------------------------------------------------------
(* Properties.                                                             *)

(* Types.  No action carries a hand without a modifier. *)
TypeOK ==
    /\ stage \in {"held", "typed", "printed", "set", "reprinted", "rewritten", "refused"}
    /\ typed \in Codes \cup {Unparsed}
    /\ key.kind = "lmt" \/ key.mods \in Mods
    /\ shown.key \in 0 .. MaxCode

(* Actions whose code is theirs alone. *)
Representable(a) ==
    CASE a.kind \in LayerVerbs \cup {"LM", "lt", "lmt"} -> a.n < 16
      [] a.kind \in {"macro", "user"} -> a.n < 32
      [] a.kind \in {"ltx", "other"} -> FALSE
      [] OTHER -> ~(a.kind = "chord" /\ a.mods = 0)

(***************************************************************************)
(* Printing a key and setting it to what was printed leaves it the same:   *)
(* format and parse, to_via and from_via undo each other on every action   *)
(* that fits its field.                                                    *)
(***************************************************************************)
PrintedIsTheKey ==
    /\ stage = "printed" /\ Representable(key)
            => from_via_keycode(parse_keycode(shown)) = key
    /\ stage = "refused" /\ typed = Unparsed => ~Representable(key)

(***************************************************************************)
(* A code `keymap set` accepts is the code `keymap get` prints afterwards: *)
(* no accepted entry is stored as another key, or as none.                 *)
(***************************************************************************)
AcceptedIsShown ==
    stage = "reprinted" => parse_keycode(shown) = typed

\* A key survives the way through its code and its spelling in both directions.
KeysRoundTrip == PrintedIsTheKey /\ AcceptedIsShown

(***************************************************************************)
(* "Every named/structured code must re-parse to itself", of every code    *)
(* the user can type.                                                      *)
(***************************************************************************)
CodesReparse ==
    stage = "typed" => parse_keycode(format_keycode(typed)) = typed

=============================================================================
