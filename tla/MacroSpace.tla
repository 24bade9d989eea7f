------------------------------ MODULE MacroSpace ------------------------------
(***************************************************************************)
(* Macros share one block of the keyboard's storage, so a table that fits  *)
(* may still fail half way through being written.  `write_macro_space`     *)
(* orders the writes for that; the connection may break between any two of *)
(* them and the user applies the file again.                               *)
(*                                                                         *)
(* A macro is the length of its encoding and a tag that tells two macros   *)
(* of one length apart.                                                    *)
(***************************************************************************)
EXTENDS Integers, Sequences, SequencesExt, FiniteSetsExt

CONSTANTS
    MaxMacros,     \* capabilities.max_macros
    SpaceSize,     \* capabilities.macro_space_size
    LongMacro,     \* first encoded length with a two-byte frame (0x80)
    MaxLength,     \* bound: the longest encoding considered
    MaxFileMacros, \* bound: macros in a file
    MaxLosses      \* bound: how often the connection breaks

MacroAssumption ==
    /\ {MaxMacros, SpaceSize, LongMacro, MaxLength, MaxFileMacros, MaxLosses} \subseteq Nat
    /\ MaxMacros <= SpaceSize /\ LongMacro > 0

VARIABLES
    slots,     \* the keyboard's macros
    file,      \* the macros of the file
    before,    \* read_macro_space before the first write
    order,     \* slots still to be visited
    pc, losses

vars == <<slots, file, before, order, pc, losses>>

Empty == [length |-> 0, tag |-> 0]
Macros == {Empty} \cup [length : 1 .. MaxLength, tag : 0 .. 1]
Index == 1 .. MaxMacros

(* Encoded bytes and the slot's frame. *)
macro_storage_size(m) == m.length + (IF m.length < LongMacro THEN 1 ELSE 2)

Used(table) == FoldLeft(LAMBDA sum, m : sum + macro_storage_size(m), 0, table)

(* The slot past the end of a table reads as an empty macro. *)
At(table, i) == IF i \in DOMAIN table THEN table[i] ELSE Empty

(* Every slot in turn, without the empty ones at the end. *)
read_macro_space ==
    SubSeq(slots, 1, Max({0} \cup {i \in Index : slots[i] # Empty}))

Init ==
    /\ slots \in {s \in [Index -> Macros] : Used(s) <= SpaceSize}
    /\ file \in UNION {[1 .. n -> Macros] : n \in 1 .. MaxFileMacros}
    /\ before = <<>>
    /\ order = <<>>
    /\ pc = "idle"
    /\ losses = 0

(* differences, as far as macros go; the surplus report included. *)
Differs(present) ==
    \/ Len(present) < Len(file)
    \/ SubSeq(present, 1, Len(file)) # file
    \/ \E i \in Len(file) + 1 .. Len(present) : present[i] # Empty

Read ==
    /\ pc = "idle"
    /\ before' = read_macro_space
    /\ pc' = IF Differs(before') THEN "check" ELSE "done"
    /\ UNCHANGED <<slots, file, order, losses>>

Growth(i) == macro_storage_size(At(file, i)) - macro_storage_size(At(before, i))

(* Mutant: slot by slot. *)
BySlot(i, j) == i < j

(* The slots that shrink come first. *)
GrowsLess(i, j) == Growth(i) < Growth(j) \/ (Growth(i) = Growth(j) /\ i < j)

(* A stable sort: every slot once, in the order of growth. *)
SortedByGrowth(n) ==
    {s \in [1 .. n -> 1 .. n] :
        /\ \A i \in 1 .. n : \E k \in 1 .. n : s[k] = i
        /\ \A k, l \in 1 .. n : k < l => GrowsLess(s[k], s[l])}

(* Mutant: the slots are not counted. *)
FitsSpace == Used(file) + MaxMacros - Len(file) <= SpaceSize

(* What the table will take, one byte for each slot it leaves empty. *)
Fits == Len(file) <= MaxMacros /\ Used(file) + MaxMacros - Len(file) <= SpaceSize

Check ==
    /\ pc = "check"
    /\ IF Fits
       THEN order' \in SortedByGrowth(Max({Len(file), Len(before)})) /\ pc' = "write"
       ELSE pc' = "refused" /\ UNCHANGED order
    /\ UNCHANGED <<slots, file, before, losses>>

(* The firmware takes the macro if the whole space then still fits. *)
Stored(i) == [slots EXCEPT ![i] = At(file, i)]

(* Mutant: a macro of the same size is taken for the same macro. *)
KeptIfSameSize(i) == Growth(i) = 0

(* A slot the keyboard already holds as wanted is not written. *)
Kept(i) == i \in DOMAIN before /\ before[i] = At(file, i)

WriteMacro ==
    /\ pc = "write" /\ order # <<>>
    /\ order' = Tail(order)
    /\ IF Kept(Head(order)) THEN UNCHANGED <<slots, pc>>
       ELSE IF Used(Stored(Head(order))) <= SpaceSize
       THEN slots' = Stored(Head(order)) /\ UNCHANGED pc
       ELSE pc' = "full" /\ UNCHANGED slots
    /\ UNCHANGED <<file, before, losses>>

Verify ==
    /\ pc = "write" /\ order = <<>>
    /\ before' = read_macro_space
    /\ pc' = IF Differs(before') THEN "mismatch" ELSE "done"
    /\ UNCHANGED <<slots, file, order, losses>>

(* The connection breaks; the file is applied again from the start. *)
Disconnect ==
    /\ pc = "write"
    /\ losses < MaxLosses
    /\ losses' = losses + 1
    /\ pc' = "idle"
    /\ order' = <<>>
    /\ UNCHANGED <<slots, file, before>>

Next == Read \/ Check \/ WriteMacro \/ Verify \/ Disconnect

Spec == Init /\ [][Next]_vars

----------------------------------------------------------------------------
(* Types. *)
TypeOK ==
    /\ slots \in [Index -> Macros]
    /\ Len(before) <= MaxMacros
    /\ \A i \in ToSet(order) : i \in Index
    /\ pc \in {"idle", "check", "write", "done", "refused", "full", "mismatch"}

(***************************************************************************)
(* A table that passed the capacity check is written to its end: no write  *)
(* finds the space full half way, whatever the keyboard held and wherever  *)
(* an earlier attempt stopped.  (write_macro_space's order by growth.)     *)
(***************************************************************************)
NeverFull == pc # "full"

(* A table whose last macro does something. *)
EndsInMacro == file[Len(file)] # Empty

(***************************************************************************)
(* A table that was written reads back as the file has it and the slots    *)
(* past its end are empty, so that the read-back verification succeeds.    *)
(***************************************************************************)
WrittenTableVerifies ==
    /\ EndsInMacro => pc # "mismatch"
    /\ pc = "done" => \A i \in Index : slots[i] = At(file, i)

\* A table that was admitted arrives: no write on the way overruns the space,
\* and what was written reads back.
MacrosArrive == NeverFull /\ WrittenTableVerifies

(***************************************************************************)
(* "a config that parses here is one a keyboard can be asked to hold": an  *)
(* apply that wrote everything verifies, for every macro table a file can  *)
(* spell, one that ends in a macro of no operations included.              *)
(***************************************************************************)
ParsedMacrosVerify == pc # "mismatch"

=============================================================================
