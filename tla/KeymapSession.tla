---------------------------- MODULE KeymapSession ----------------------------
(***************************************************************************)
(* The `keymap` commands over one Rynk session: read, set, default, name   *)
(* and persist-probe, against a keyboard that another host may change      *)
(* between any two of the tool's requests.                                 *)
(*                                                                         *)
(* The keyboard (external) applies a write at once and saves it to flash   *)
(* later, in order; a metadata read is answered only when the flash queue  *)
(* is empty.                                                               *)
(***************************************************************************)
EXTENDS Naturals, Sequences, FiniteSetsExt

CONSTANTS
    NumLayers, NumKeys,
    Actions,     \* actions a key may hold
    Names,       \* layer names
    Commands,    \* the commands tried
    BulkTransfer,\* whether the firmware serves bulk reads
    Rounds,      \* rounds of a probe
    MaxForeign   \* changes by the other host

SessionAssumption ==
    /\ NumLayers \in Nat \ {0} /\ NumKeys \in Nat \ {0}
    /\ BulkTransfer \in BOOLEAN /\ Rounds \in Nat /\ MaxForeign \in Nat

Layers == 0 .. NumLayers - 1
Keys == 0 .. NumKeys - 1
Positions == Layers \X Keys
NameOf(l) == <<l, NumKeys>>               \* what a metadata write changes
DefaultLayer == <<NumLayers, NumKeys>>
Vacant == "vacant"
Unfaithful == "unfaithful"   \* a keycode with no action of its own
Entries == [layer : Nat, key : Nat, action : Actions \cup {Unfaithful}]

\* The commands are the ones the tool can parse; `keymap set` requires at
\* least one entry.
CommandShape ==
    \A c \in Commands :
        /\ c.op \in {"set", "read", "default", "name", "probe", "probe writes"}
        /\ c.op = "set" => c.entries \in Seq(Entries) /\ c.entries # <<>>

VARIABLES
    keymap, names, default, unlocked,
    unsaved,     \* writes the flash queue still holds
    foreign,     \* what the other host has changed
    command, pc,
    next,        \* the entry, key or round that is next
    actions,     \* what has been read of the keymap
    baseline,    \* the metadata persist_probe read first
    outcome

keyboard == <<keymap, names, default, unlocked, unsaved, foreign>>
tool == <<command, pc, next, actions, baseline, outcome>>
vars == <<keyboard, tool>>

Init ==
    /\ keymap \in [Positions -> Actions]
    /\ names = [l \in Layers |-> IF l = 0 THEN "base" ELSE Vacant]
    /\ default = 0
    /\ unlocked \in BOOLEAN
    /\ unsaved = <<>>
    /\ foreign = <<>>
    /\ command \in Commands
    /\ pc = "start"
    /\ next = 1
    /\ actions = <<>>
    /\ baseline = Vacant
    /\ outcome = "none"

End(o) == pc' = "end" /\ outcome' = o

----------------------------------------------------------------------------
(* The tool.                                                               *)

(* Commands that change something ask for the maintenance mode first. *)
Mutates(c) == c.op \in {"set", "name", "default", "probe writes"}

(* Mutant: only the next entry is looked at. *)
FirstValid(entries) ==
    LET e == entries[next] IN e.layer \in Layers /\ e.action # Unfaithful

(* parse_set_entries and the range check: every entry, before any write. *)
AllValid(entries) ==
    \A i \in DOMAIN entries :
        entries[i].layer \in Layers /\ entries[i].key \in Keys /\ entries[i].action # Unfaithful

Start ==
    /\ pc = "start"
    /\ CASE Mutates(command) /\ ~unlocked -> End("locked")
         [] command.op = "set" /\ unlocked /\ ~AllValid(command.entries) -> End("invalid")
         [] command.op \in {"name", "default"} /\ unlocked /\ command.layer \notin Layers ->
                End("invalid")
         [] OTHER -> /\ pc' = CASE command.op = "set" -> "write"
                                [] command.op = "read" -> IF BulkTransfer THEN "bulk" ELSE "each"
                                [] OTHER -> command.op
                     /\ UNCHANGED outcome
    /\ UNCHANGED <<keyboard, command, next, actions, baseline>>

Position(e) == <<e.layer, e.key>>

(* Requests the keyboard accepts: applied now, saved later. *)
SetKey(pos, a) ==
    /\ keymap' = [keymap EXCEPT ![pos] = a]
    /\ unsaved' = Append(unsaved, pos)
    /\ UNCHANGED <<names, default>>

SetName(l, n) ==
    /\ names' = [names EXCEPT ![l] = n]
    /\ unsaved' = Append(unsaved, NameOf(l))
    /\ UNCHANGED <<keymap, default>>

(* The firmware's own lock check rejects a write made after a toggle. *)
Rejected == ~unlocked

(* What the firmware stores may not be what was asked for. *)
WriteEntry ==
    /\ pc = "write"
    /\ IF Rejected
       THEN End("rejected") /\ UNCHANGED keyboard
       ELSE /\ \E a \in Actions \cup {command.entries[next].action} :
                    SetKey(Position(command.entries[next]), a)
            /\ pc' = "readback"
            /\ UNCHANGED <<unlocked, foreign, outcome>>
    /\ UNCHANGED <<command, next, actions, baseline>>

(* Mutant: the stored key is not compared. *)
AnyStored(pos, a) == TRUE

Stored(pos, a) == keymap[pos] = a

ReadBack ==
    /\ pc = "readback"
    /\ LET e == command.entries[next]
       IN  CASE ~Stored(Position(e), e.action) -> End("mismatch") /\ UNCHANGED next
             [] Stored(Position(e), e.action) /\ next = Len(command.entries) ->
                    End("ok") /\ UNCHANGED next
             [] OTHER -> pc' = "write" /\ next' = next + 1 /\ UNCHANGED outcome
    /\ UNCHANGED <<keyboard, command, actions, baseline>>

(* The order in which keys are read and reported. *)
Flat == [i \in 1 .. NumLayers * NumKeys |-> <<(i - 1) \div NumKeys, (i - 1) % NumKeys>>]

(* Mutant: a short bulk answer is used. *)
AnyCount(answer) == TRUE

check_action_count(answer) == Len(answer) = NumLayers * NumKeys

(* Mutant: a short bulk answer is kept and read on from the first key. *)
KeepPartial ==
    /\ pc = "bulk"
    /\ \E n \in 0 .. NumLayers * NumKeys :
        /\ actions' = SubSeq([i \in DOMAIN Flat |-> keymap[Flat[i]]], 1, n)
        /\ IF check_action_count(actions') THEN End("ok") ELSE pc' = "each" /\ UNCHANGED outcome
    /\ UNCHANGED <<keyboard, command, next, baseline>>

(* The keyboard answers with the keymap, short of its tail, or not at all. *)
BulkRead ==
    /\ pc = "bulk"
    /\ \E n \in 0 .. NumLayers * NumKeys :
        LET answer == SubSeq([i \in DOMAIN Flat |-> keymap[Flat[i]]], 1, n)
        IN  IF check_action_count(answer)
            THEN End("ok") /\ actions' = answer
            ELSE pc' = "each" /\ UNCHANGED <<actions, outcome>>
    /\ UNCHANGED <<keyboard, command, next, baseline>>

ReadKey ==
    /\ pc = "each"
    /\ actions' = Append(actions, keymap[Flat[next]])
    /\ next' = next + 1
    /\ IF next = Len(Flat) THEN End("ok") ELSE UNCHANGED <<pc, outcome>>
    /\ UNCHANGED <<keyboard, command, baseline>>

SetDefault ==
    /\ pc = "default"
    /\ IF Rejected THEN End("rejected") /\ UNCHANGED keyboard
       ELSE /\ default' = command.layer
            /\ unsaved' = Append(unsaved, DefaultLayer)
            /\ End("ok")
            /\ UNCHANGED <<keymap, names, unlocked, foreign>>
    /\ UNCHANGED <<command, next, actions, baseline>>

(* A metadata read waits for the flash queue. *)
Drained == unsaved = <<>>

(* Only an occupied layer is renamed. *)
occupied(l) == names[l] # Vacant

ReadName ==
    /\ pc = "name" /\ Drained
    /\ IF occupied(command.layer) THEN pc' = "rename" /\ UNCHANGED outcome
                                  ELSE End("vacant")
    /\ UNCHANGED <<keyboard, command, next, actions, baseline>>

Rename ==
    /\ pc = "rename"
    /\ IF Rejected THEN End("rejected") /\ UNCHANGED keyboard
       ELSE /\ SetName(command.layer, command.name)
            /\ pc' = "names"
            /\ UNCHANGED <<unlocked, foreign, outcome>>
    /\ UNCHANGED <<command, next, actions, baseline>>

(* The names are read again and printed. *)
PrintNames ==
    /\ pc = "names" /\ Drained
    /\ End("ok")
    /\ UNCHANGED <<keyboard, command, next, actions, baseline>>

(* persist_probe: the metadata of layer 0, once, before the rounds. *)
ProbeBaseline ==
    /\ pc \in {"probe", "probe writes"} /\ Drained
    /\ baseline' = names[0]
    /\ pc' = "drain"
    /\ UNCHANGED <<keyboard, command, next, actions, outcome>>

ProbeDrain ==
    /\ pc = "drain" /\ Drained
    /\ CASE command.op = "probe writes" -> pc' = "probe write" /\ UNCHANGED <<next, outcome>>
         [] command.op = "probe" /\ next < Rounds -> next' = next + 1 /\ UNCHANGED <<pc, outcome>>
         [] OTHER -> End("ok") /\ UNCHANGED next
    /\ UNCHANGED <<keyboard, command, actions, baseline>>

ProbeWrite ==
    /\ pc = "probe write"
    /\ IF Rejected THEN End("rejected") /\ UNCHANGED keyboard
       ELSE /\ SetName(0, baseline)
            /\ pc' = "probe persist"
            /\ UNCHANGED <<unlocked, foreign, outcome>>
    /\ UNCHANGED <<command, next, actions, baseline>>

ProbePersist ==
    /\ pc = "probe persist" /\ Drained
    /\ IF next < Rounds THEN pc' = "drain" /\ next' = next + 1 /\ UNCHANGED outcome
                        ELSE End("ok") /\ UNCHANGED next
    /\ UNCHANGED <<keyboard, command, actions, baseline>>

----------------------------------------------------------------------------
(* The keyboard and the other host.                                        *)

Save ==
    /\ unsaved # <<>>
    /\ unsaved' = Tail(unsaved)
    /\ UNCHANGED <<keymap, names, default, unlocked, foreign, tool>>

OtherHost ==
    /\ Len(foreign) < MaxForeign /\ outcome = "none" /\ unlocked
    /\ \/ \E pos \in Positions, a \in Actions :
            SetKey(pos, a) /\ foreign' = Append(foreign, <<pos, a>>)
       \/ \E n \in Names : SetName(0, n) /\ foreign' = Append(foreign, <<NameOf(0), n>>)
    /\ UNCHANGED <<unlocked, tool>>

ToggleMaintenance ==
    /\ outcome = "none" /\ unlocked
    /\ unlocked' = FALSE
    /\ UNCHANGED <<keymap, names, default, unsaved, foreign, tool>>

Next ==
    \/ Start \/ WriteEntry \/ ReadBack \/ BulkRead \/ ReadKey
    \/ SetDefault \/ ReadName \/ Rename \/ PrintNames
    \/ ProbeBaseline \/ ProbeDrain \/ ProbeWrite \/ ProbePersist
    \/ Save \/ OtherHost \/ ToggleMaintenance

Spec == Init /\ [][Next]_vars

----------------------------------------------------------------------------
(* Properties.                                                             *)

(* Types. *)
TypeOK ==
    /\ keymap \in [Positions -> Actions]
    /\ names \in [Layers -> Names \cup {"base", Vacant}]
    /\ default \in Layers
    /\ pc \in {"start", "write", "readback", "bulk", "each", "default", "name", "rename", "names",
               "probe", "probe writes", "drain", "probe write", "probe persist", "end"}
    /\ Len(actions) <= NumLayers * NumKeys

(* Positions, or names, the other host has touched. *)
Touched == {foreign[i][1] : i \in DOMAIN foreign}

(***************************************************************************)
(* `keymap set` reports success only when every position it was asked for  *)
(* holds the last entry that names it, unless the other host changed it    *)
(* meanwhile.                                                              *)
(***************************************************************************)
SetIsComplete ==
    outcome = "ok" /\ command.op = "set" =>
        \A i \in DOMAIN command.entries :
            LET pos == Position(command.entries[i])
                last == Max({j \in DOMAIN command.entries : Position(command.entries[j]) = pos})
            IN  pos \in Touched \/ keymap[pos] = command.entries[last].action

(***************************************************************************)
(* A read reports every key at its own place, whether the bulk read, the   *)
(* key-by-key fallback after a short bulk answer, or no bulk read at all   *)
(* produced it: a position no other host touched holds what was reported.  *)
(***************************************************************************)
ReadIsAligned ==
    outcome = "ok" /\ command.op = "read" =>
        /\ Len(actions) = Len(Flat)
        /\ \A i \in DOMAIN Flat : Flat[i] \in Touched \/ actions[i] = keymap[Flat[i]]

\* What the tool reports of the keymap is so, but for what the other host
\* changed meanwhile.
KeymapReportIsTrue == SetIsComplete /\ ReadIsAligned

(***************************************************************************)
(* One bad entry in the list stops `keymap set` before its first write: a  *)
(* key only changes under the tool when every entry could be stored.       *)
(***************************************************************************)
InvalidWritesNothing ==
    [][keymap' # keymap /\ foreign' = foreign =>
        \A i \in DOMAIN command.entries :
            command.entries[i].layer < NumLayers /\ command.entries[i].action \in Actions]_vars

(***************************************************************************)
(* "read-back matches; changes are live and persisted": what `keymap set`  *)
(* prints of the entries it wrote.                                         *)
(***************************************************************************)
ReportedIsPersisted ==
    outcome = "ok" /\ command.op = "set" =>
        \A i \in DOMAIN command.entries, j \in DOMAIN unsaved :
            unsaved[j] # Position(command.entries[i])

(***************************************************************************)
(* "rewrites layer 0's name with its current value": a probe leaves the    *)
(* name as it finds it, also when the other host gives it a new one.       *)
(***************************************************************************)
ProbeKeepsName ==
    [][names' # names /\ foreign' = foreign => command.op # "probe writes"]_vars

=============================================================================
