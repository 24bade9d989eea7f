--------------------------- MODULE LightingSession ---------------------------
(***************************************************************************)
(* The `lighting` commands that change something, run by several hosts at  *)
(* once (a USB and a BLE session) while keys on the keyboard change its    *)
(* lighting too.                                                           *)
(*                                                                         *)
(* Every request names the revision the host last saw.  The keyboard       *)
(* (external) refuses a request whose revision is not its own, and steps   *)
(* its revision on every change.  A replacement of the overlay is staged   *)
(* under a transaction id and committed at once.                           *)
(***************************************************************************)
EXTENDS Naturals, Sequences

CONSTANTS
    Hosts,
    Leds,
    Colours,
    Commands,    \* the commands tried
    ChunkSize,   \* cells of one overlay chunk, 8
    MaxRevision  \* changes to the keyboard

LightingSessionAssumption ==
    ChunkSize \in Nat \ {0} /\ MaxRevision \in Nat

VARIABLES
    lights,      \* revision, settings, overlay, scenes, policy, param, rules
    unlocked,
    staging,     \* the open overlay transaction; history: was the lock ever on
                 \* while it was open
    ids,         \* transaction ids handed out
    command, pc,
    held,        \* the state the host read or was answered
    next,        \* the cell that is next
    transaction, \* the id the host was given
    outcome

keyboard == <<lights, unlocked, staging, ids>>
host == <<command, pc, held, next, transaction, outcome>>
vars == <<keyboard, host>>

Off == "off"
NoTransaction == [id |-> 0, cells |-> <<>>, count |-> 0, locked |-> FALSE]

Dark == [led \in Leds |-> Off]

Shades == Colours \cup {Off}
Cells == [led : Leds, colour : Shades]

\* The commands are the ones the tool can parse: a list of cells names at
\* least one LED and one of the two tables.
CommandShape ==
    \A c \in Commands :
        /\ c.op \in {"cells", "replace", "clear", "brightness", "policy", "param", "rewrite"}
        /\ c.op = "cells" => /\ c.part \in {"overlay", "scenes"}
                             /\ c.leds \in Seq(Leds) /\ c.leds # <<>>
                             /\ c.colour \in Shades
        /\ c.op = "replace" => c.cells \in Seq(Cells)
        /\ c.op \in {"brightness", "policy", "param"} => c.value \in Nat

Init ==
    /\ lights = [revision |-> 0, output |-> TRUE, brightness |-> 1, background |-> 1,
                 overlay |-> Dark, scenes |-> Dark, policy |-> 1, param |-> 1, rules |-> 1]
    /\ unlocked \in BOOLEAN
    /\ staging = NoTransaction
    /\ ids = 0
    /\ command \in [Hosts -> Commands]
    /\ pc = [h \in Hosts |-> "start"]
    /\ held = [h \in Hosts |-> lights]
    /\ next = [h \in Hosts |-> 1]
    /\ transaction = [h \in Hosts |-> 0]
    /\ outcome = [h \in Hosts |-> "none"]

----------------------------------------------------------------------------
(* The keyboard.                                                           *)

Changed(l) == [l EXCEPT !.revision = @ + 1]

(* A revisioned request: refused, or applied and answered with the state. *)
Accepts(expected) == unlocked /\ expected = lights.revision

(* A key on the keyboard changes the background, a rule or a scene. *)
KeyPressed ==
    /\ lights.revision < MaxRevision
    /\ \/ \E b \in 1 .. 2 : b # lights.background
                             /\ lights' = Changed([lights EXCEPT !.background = b])
       \/ lights' = Changed([lights EXCEPT !.output = ~@])
       \/ \E r \in 1 .. 2 : r # lights.rules /\ lights' = Changed([lights EXCEPT !.rules = r])
    /\ UNCHANGED <<unlocked, staging, ids, host>>

(* Magic+R: the maintenance lock covers every remote mutation while it is  *)
(* engaged.  An open transaction stays as it is.                           *)
ToggleMaintenance ==
    /\ unlocked' = ~unlocked
    /\ staging' = [staging EXCEPT !.locked = (staging.id # 0)]
    /\ UNCHANGED <<lights, ids, host>>

----------------------------------------------------------------------------
(* The hosts.                                                              *)

Goto(h, label) == pc' = [pc EXCEPT ![h] = label] /\ UNCHANGED outcome
End(h, o) == pc' = [pc EXCEPT ![h] = "end"] /\ outcome' = [outcome EXCEPT ![h] = o]

(* `rules-rewrite` is the one change that leaves the lock to the keyboard. *)
Asks(c) == c.op # "rewrite"

Start(h) ==
    /\ pc[h] = "start"
    /\ IF Asks(command[h]) /\ ~unlocked THEN End(h, "locked") ELSE Goto(h, "read")
    /\ UNCHANGED <<keyboard, command, held, next, transaction>>

Read(h) ==
    /\ pc[h] = "read"
    /\ held' = [held EXCEPT ![h] = lights]
    /\ Goto(h, command[h].op)
    /\ UNCHANGED <<keyboard, command, next, transaction>>

(* Mutant: the revision the keyboard has now. *)
Newest(h) == lights.revision

(* The authoritative revision of the preceding read or write. *)
Expected(h) == held[h].revision

(* Mutant: a refused cell is skipped. *)
SkipRefused(h) == IF next[h] = Len(command[h].leds) THEN End(h, "ok") ELSE Goto(h, pc[h])

Refused(h) == End(h, "refused")

(* One cell of `set`, `unset`, `scene-set` or `scene-unset`. *)
SetCell(h) ==
    /\ pc[h] = "cells"
    /\ LET c == command[h]
           new == Changed([lights EXCEPT ![c.part][c.leds[next[h]]] = c.colour])
       IN  IF Accepts(Expected(h))
           THEN /\ lights' = new
                /\ held' = [held EXCEPT ![h] = new]
           ELSE UNCHANGED <<lights, held>>
    /\ CASE ~Accepts(Expected(h)) -> Refused(h)
         [] Accepts(Expected(h)) /\ next[h] = Len(command[h].leds) -> End(h, "ok")
         [] OTHER -> Goto(h, "cells")
    /\ next' = [next EXCEPT ![h] = IF @ < Len(command[h].leds) THEN @ + 1 ELSE @]
    /\ UNCHANGED <<unlocked, staging, ids, command, transaction>>

(* What a one-request command writes; brightness sends the rest back too. *)
Written(h) ==
    LET c == command[h] IN
    CASE c.op = "clear" -> [lights EXCEPT !.overlay = Dark]
      [] c.op = "brightness" -> [lights EXCEPT !.brightness = c.value,
                                               !.output = held[h].output,
                                               !.background = held[h].background]
      [] c.op = "policy" -> [lights EXCEPT !.policy = c.value]
      [] c.op = "param" -> [lights EXCEPT !.param = c.value]
      [] c.op = "rewrite" -> [lights EXCEPT !.rules = held[h].rules]

(* `clear`, `brightness`, `scene-policy`, `params` and `rules-rewrite`. *)
Write(h) ==
    /\ pc[h] \in {"clear", "brightness", "policy", "param", "rewrite"}
    /\ IF Accepts(Expected(h)) THEN lights' = Changed(Written(h)) /\ End(h, "ok")
                               ELSE UNCHANGED lights /\ End(h, "refused")
    /\ UNCHANGED <<unlocked, staging, ids, command, held, next, transaction>>

(* A new transaction takes the place of an unfinished one. *)
BeginReplace(h) ==
    /\ pc[h] = "replace"
    /\ IF Accepts(Expected(h))
       THEN /\ ids' = ids + 1
            /\ staging' = [id |-> ids', cells |-> <<>>, count |-> Len(command[h].cells),
                           locked |-> FALSE]
            /\ transaction' = [transaction EXCEPT ![h] = ids']
            /\ Goto(h, "chunk")
       ELSE End(h, "refused") /\ UNCHANGED <<staging, ids, transaction>>
    /\ UNCHANGED <<lights, unlocked, command, held, next>>

Mine(h) == staging.id = transaction[h]

(* The cells of one chunk, from the host's offset. *)
Chunk(h) ==
    LET n == Len(command[h].cells)
        last == IF next[h] + ChunkSize - 1 < n THEN next[h] + ChunkSize - 1 ELSE n
    IN  SubSeq(command[h].cells, next[h], last)

(* Mutant: chunks overlap. *)
OneAtATime(offset) == offset + 1

Advance(offset) == offset + ChunkSize

PutChunk(h) ==
    /\ pc[h] = "chunk" /\ next[h] <= Len(command[h].cells)
    /\ IF Mine(h) /\ unlocked
       THEN /\ staging' = [staging EXCEPT !.cells = @ \o Chunk(h)]
            /\ next' = [next EXCEPT ![h] = Advance(@)]
            /\ Goto(h, "chunk")
       ELSE Goto(h, "abort") /\ UNCHANGED <<staging, next>>
    /\ UNCHANGED <<lights, unlocked, ids, command, held, transaction>>

Overlay(cells) ==
    [led \in Leds |->
        IF \E i \in DOMAIN cells : cells[i].led = led
        THEN cells[CHOOSE i \in DOMAIN cells : /\ cells[i].led = led
                                               /\ \A j \in DOMAIN cells : cells[j].led = led => j <= i].colour
        ELSE Off]

(* Mutant: committed after the first chunk. *)
CommitEarly(h) == next[h] > 1

Staged(h) == next[h] > Len(command[h].cells)

(* The keyboard may also refuse a commit whose revision has moved on. *)
Commit(h) ==
    /\ pc[h] = "chunk" /\ Staged(h)
    /\ \/ /\ Mine(h) /\ unlocked
          /\ lights' = Changed([lights EXCEPT !.overlay = Overlay(staging.cells)])
          /\ staging' = NoTransaction
          /\ End(h, "ok")
       \/ /\ ~Mine(h) \/ ~unlocked \/ Expected(h) # lights.revision
          /\ Goto(h, "abort") /\ UNCHANGED <<lights, staging>>
    /\ UNCHANGED <<unlocked, ids, command, held, next, transaction>>

(* Mutant: a failed replacement is just reported. *)
JustReport(h) ==
    /\ pc[h] = "abort"
    /\ End(h, "failed")
    /\ UNCHANGED <<keyboard, command, held, next, transaction>>

(* Abort of the host's own transaction.  The lock refuses it like any other *)
(* change; its answer is ignored.                                           *)
Abort(h) ==
    /\ pc[h] = "abort"
    /\ staging' = IF Mine(h) /\ unlocked THEN NoTransaction ELSE staging
    /\ End(h, "failed")
    /\ UNCHANGED <<lights, unlocked, ids, command, held, next, transaction>>

(* The session ends under the command. *)
Disconnect(h) ==
    /\ outcome[h] = "none" /\ pc[h] # "start"
    /\ End(h, "ended")
    /\ UNCHANGED <<keyboard, command, held, next, transaction>>

Step(h) ==
    \/ Start(h) \/ Read(h) \/ SetCell(h) \/ Write(h)
    \/ BeginReplace(h) \/ PutChunk(h) \/ Commit(h) \/ Abort(h) \/ Disconnect(h)

Next == KeyPressed \/ ToggleMaintenance \/ \E h \in Hosts : Step(h)

Spec == Init /\ [][Next]_vars

----------------------------------------------------------------------------
(* Properties.                                                             *)

(* Types.  A chunk never runs past the cells of its file. *)
TypeOK ==
    /\ lights.overlay \in [Leds -> Shades] /\ lights.scenes \in [Leds -> Shades]
    /\ staging.id \in 0 .. ids /\ Len(staging.cells) <= staging.count
    /\ \A h \in Hosts : outcome[h] \in {"none", "ok", "locked", "refused", "failed", "ended"}

(***************************************************************************)
(* No command undoes a change it did not see: setting the brightness sends *)
(* back the output switch and the background, and `rules-rewrite` the      *)
(* rules, and neither is ever written over a newer value.                  *)
(***************************************************************************)
NothingIsUndone ==
    [][\A h \in Hosts : pc[h] \in {"brightness", "rewrite"} /\ outcome'[h] = "ok" /\ outcome[h] = "none"
        => /\ lights'.output = lights.output
           /\ lights'.background = lights.background
           /\ lights'.rules = lights.rules]_vars

(***************************************************************************)
(* A list of cells reported as set is set: when the last one has been      *)
(* written all of them have the colour, whoever else was writing.          *)
(***************************************************************************)
ReportedCellsAreSet ==
    [][\A h \in Hosts : command[h].op = "cells" /\ outcome'[h] = "ok" /\ outcome[h] = "none"
        => \A i \in DOMAIN command[h].leds :
                lights'[command[h].part][command[h].leds[i]] = command[h].colour]_vars

(***************************************************************************)
(* A replacement shows all at once: the commit that is reported as done    *)
(* leaves exactly the cells of that host's file, in the overlay, even when *)
(* another host staged one meanwhile.                                      *)
(***************************************************************************)
ReplaceIsWhole ==
    [][\A h \in Hosts : command[h].op = "replace" /\ outcome'[h] = "ok" /\ outcome[h] = "none"
        => lights'.overlay = Overlay(command[h].cells)]_vars

\* A command that reports success has done the whole of it, and has undone
\* nothing that another host did meanwhile.
SuccessIsExact == ReportedCellsAreSet /\ ReplaceIsWhole /\ NothingIsUndone

(***************************************************************************)
(* A replacement that failed, wherever it failed and whoever else begins,  *)
(* fills or aborts one, leaves no transaction of its own open on the       *)
(* keyboard, unless the maintenance lock was engaged in the meantime.      *)
(***************************************************************************)
FailureCleansUp ==
    \A h \in Hosts :
        outcome[h] = "failed" /\ staging.id = transaction[h] => staging.locked

(***************************************************************************)
(* What the abort on failure is there for.  The lock that made the         *)
(* replacement fail refuses the abort too, and the tool does not look.     *)
(***************************************************************************)
NothingLeftOpen ==
    \A h \in Hosts : outcome[h] = "failed" => staging.id # transaction[h]

=============================================================================
