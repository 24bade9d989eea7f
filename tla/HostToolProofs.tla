--------------------------- MODULE HostToolProofs ---------------------------
(***************************************************************************)
(* Proofs about the lighting commands, the keymap commands and the         *)
(* conversions between what a file says and what the keyboard holds:       *)
(* conditional rules, layer entries, key actions and the macro space.      *)
(* These share no state: each theorem is about the specification of one,   *)
(* with the constants and variables HostTools has for it.                  *)
(***************************************************************************)
EXTENDS HostTools, SequenceFacts

-----------------------------------------------------------------------------
(* LightingSession.                                                        *)

\* The tables of the keyboard, and everything else a revision stands for.
LightStates ==
    [revision : Nat, output : BOOLEAN, brightness : Int, background : Int,
     overlay : [Leds -> Lighting!Shades], scenes : [Leds -> Lighting!Shades],
     policy : Int, param : Int, rules : Int]

Labels == {"start", "read", "cells", "replace", "clear", "brightness", "policy", "param",
           "rewrite", "chunk", "abort", "end"}
Reports == {"none", "ok", "locked", "refused", "failed", "ended"}
Stagings == [id : Nat, cells : Seq(Lighting!Cells), count : Nat, locked : BOOLEAN]

ControlTypes ==
    /\ commands \in [Hosts -> LightingCommands]
    /\ hosts_pc \in [Hosts -> Labels]
    /\ outcomes \in [Hosts -> Reports]

DataTypes ==
    /\ lights \in LightStates
    /\ seen \in [Hosts -> LightStates]
    /\ cell \in [Hosts -> Nat \ {0}]
    /\ transaction \in [Hosts -> Nat]
    /\ ids \in Nat
    /\ staging \in Stagings

LightTypes == ControlTypes /\ DataTypes

\* Where a host is, by its command.
PcInv ==
    \A h \in Hosts :
        /\ \/ hosts_pc[h] \in {"start", "read", "end", commands[h].op}
           \/ commands[h].op = "replace" /\ hosts_pc[h] \in {"chunk", "abort"}
        /\ hosts_pc[h] \in {"start", "read", "replace"} => cell[h] = 1

\* A revision stands for one state of the lighting.
HeldInv ==
    \A h \in Hosts :
        /\ seen[h].revision <= lights.revision
        /\ seen[h].revision = lights.revision => seen[h] = lights

\* The cells a host has set so far, in the state it was last answered with.
CellsInv ==
    \A h \in Hosts : commands[h].op = "cells" /\ hosts_pc[h] # "end" =>
        /\ cell[h] <= Len(commands[h].leds)
        /\ hosts_pc[h] = "cells" =>
              \A i \in 1 .. cell[h] - 1 :
                  seen[h][commands[h].part][commands[h].leds[i]] = commands[h].colour

\* Transaction ids are handed out once.
IdsInv ==
    /\ staging.id <= ids
    /\ \A h \in Hosts :
        /\ transaction[h] <= ids
        /\ hosts_pc[h] \in {"chunk", "abort"} => transaction[h] > 0
        /\ \A g \in Hosts : transaction[h] = transaction[g] => h = g \/ transaction[h] = 0

\* What a host has staged of its file: the cells before its offset.
Reached(offset, n) == IF offset - 1 <= n THEN offset - 1 ELSE n

StagedInv ==
    \A h \in Hosts :
        hosts_pc[h] = "chunk" /\ staging.id = transaction[h] =>
            staging.cells = SubSeq(commands[h].cells, 1,
                                   Reached(cell[h], Len(commands[h].cells)))

\* A transaction that is open under the lock has seen it engaged: none begins
\* under it.
LockInv == staging.id # 0 /\ ~ lights_unlocked => staging.locked

FailedInv ==
    \A h \in Hosts :
        outcomes[h] = "failed" => hosts_pc[h] = "end" /\ transaction[h] > 0

LightInv ==
    /\ LightTypes /\ PcInv /\ HeldInv /\ CellsInv /\ IdsInv /\ StagedInv /\ LockInv
    /\ FailedInv /\ Lighting!FailureCleansUp

\* What a host's step leaves alone of the other hosts.
LEMMA OthersRest ==
    ASSUME LightTypes, NEW h \in Hosts, Lighting!Step(h), NEW g \in Hosts, g # h
    PROVE  /\ hosts_pc'[g] = hosts_pc[g] /\ outcomes'[g] = outcomes[g]
           /\ seen'[g] = seen[g] /\ cell'[g] = cell[g]
           /\ transaction'[g] = transaction[g]
<1> USE DEF LightTypes, ControlTypes, DataTypes, Lighting!Goto, Lighting!End
<1>1. CASE Lighting!Start(h)
  BY <1>1 DEF Lighting!Start
<1>2. CASE Lighting!Read(h)
  BY <1>2 DEF Lighting!Read
<1>3. CASE Lighting!SetCell(h)
  BY <1>3 DEF Lighting!SetCell, Lighting!Refused
<1>4. CASE Lighting!Write(h)
  BY <1>4 DEF Lighting!Write
<1>5. CASE Lighting!BeginReplace(h)
  BY <1>5 DEF Lighting!BeginReplace
<1>6. CASE Lighting!PutChunk(h)
  BY <1>6 DEF Lighting!PutChunk
<1>7. CASE Lighting!Commit(h)
  BY <1>7 DEF Lighting!Commit
<1>8. CASE Lighting!Abort(h)
  BY <1>8 DEF Lighting!Abort
<1>9. CASE Lighting!Disconnect(h)
  BY <1>9 DEF Lighting!Disconnect
<1> QED
  BY <1>1, <1>2, <1>3, <1>4, <1>5, <1>6, <1>7, <1>8, <1>9 DEF Lighting!Step

\* Nobody's command changes, and a step of the keyboard leaves the hosts alone.
LEMMA CommandsStay ==
    ASSUME NEW h \in Hosts, Lighting!Step(h)
    PROVE  commands' = commands
BY DEF Lighting!Step, Lighting!Start, Lighting!Read, Lighting!SetCell, Lighting!Write,
       Lighting!BeginReplace, Lighting!PutChunk, Lighting!Commit, Lighting!Abort,
       Lighting!Disconnect

\* Only the keyboard's revision tells two of its states apart.
LEMMA ChangedState ==
    ASSUME NEW l \in LightStates
    PROVE  /\ Lighting!Changed(l) \in LightStates
           /\ Lighting!Changed(l).revision = l.revision + 1
           /\ Lighting!Changed(l).output = l.output
           /\ Lighting!Changed(l).background = l.background
           /\ Lighting!Changed(l).overlay = l.overlay
           /\ Lighting!Changed(l).scenes = l.scenes
           /\ Lighting!Changed(l).rules = l.rules
BY DEF Lighting!Changed, LightStates

\* One cell of one table.
WithCell(l, part, led, colour) == [l EXCEPT ![part][led] = colour]

\* A state with one cell changed is a state, and differs in that cell only.
LEMMA CellState ==
    ASSUME NEW l \in LightStates, NEW part \in {"overlay", "scenes"},
           NEW led \in Leds, NEW colour \in Lighting!Shades
    PROVE  /\ WithCell(l, part, led, colour) \in LightStates
           /\ WithCell(l, part, led, colour).revision = l.revision
           /\ WithCell(l, part, led, colour)[part] = [l[part] EXCEPT ![led] = colour]
<1>1. CASE part = "overlay"
  BY <1>1 DEF LightStates, WithCell
<1>2. CASE part = "scenes"
  BY <1>2 DEF LightStates, WithCell
<1> QED
  BY <1>1, <1>2

\* What a one-request command writes, and of which state it keeps what.
LEMMA WrittenState ==
    ASSUME LightTypes, Lighting!CommandShape, PcInv, NEW h \in Hosts,
           hosts_pc[h] \in {"clear", "brightness", "policy", "param", "rewrite"}
    PROVE  /\ Lighting!Written(h) \in LightStates
           /\ Lighting!Written(h).revision = lights.revision
<1>1. commands[h].op = hosts_pc[h]
  <2>1. commands[h].op \notin {"start", "read", "end", "chunk", "abort"}
    BY DEF LightTypes, ControlTypes, Lighting!CommandShape
  <2> QED
    BY <2>1 DEF PcInv
<1>2. seen[h] \in LightStates /\ lights \in LightStates /\ commands[h] \in LightingCommands
  BY DEF LightTypes, ControlTypes, DataTypes
<1>3. Lighting!Dark \in [Leds -> Lighting!Shades]
  BY DEF Lighting!Dark, Lighting!Shades
<1>4. CASE commands[h].op = "clear"
  BY <1>2, <1>3, <1>4 DEF Lighting!Written, LightStates
<1>5. CASE commands[h].op = "brightness"
  <2> commands[h].value \in Int
    BY <1>2, <1>5 DEF Lighting!CommandShape
  <2> QED
    BY <1>2, <1>5 DEF Lighting!Written, LightStates
<1>6. CASE commands[h].op = "policy"
  <2> commands[h].value \in Int
    BY <1>2, <1>6 DEF Lighting!CommandShape
  <2> QED
    BY <1>2, <1>6 DEF Lighting!Written, LightStates
<1>7. CASE commands[h].op = "param"
  <2> commands[h].value \in Int
    BY <1>2, <1>7 DEF Lighting!CommandShape
  <2> QED
    BY <1>2, <1>7 DEF Lighting!Written, LightStates
<1>8. CASE commands[h].op = "rewrite"
  BY <1>2, <1>8 DEF Lighting!Written, LightStates
<1> QED
  BY <1>1, <1>4, <1>5, <1>6, <1>7, <1>8

\* The overlay a file of cells stands for: a LED named twice has its last
\* colour.
LEMMA OverlayType ==
    ASSUME NEW cells \in Seq(Lighting!Cells)
    PROVE  Lighting!Overlay(cells) \in [Leds -> Lighting!Shades]
<1> DEFINE LastFor(led, k) == /\ cells[k].led = led
                           /\ \A j \in DOMAIN cells : cells[j].led = led => j <= k
           LastOf(led) == CHOOSE k \in DOMAIN cells : LastFor(led, k)
<1>1. ASSUME NEW led \in Leds, NEW i \in DOMAIN cells, cells[i].led = led
      PROVE  \E k \in DOMAIN cells : LastFor(led, k)
  <2> DEFINE Back == {Len(cells) - j : j \in {j \in DOMAIN cells : cells[j].led = led}}
  <2>1. Back \in SUBSET Nat
    OBVIOUS
  <2>2. Len(cells) - i \in Back
    BY <1>1
  <2> HIDE DEF Back
  <2>3. PICK least \in Back : \A other \in Back : least <= other
    BY <2>1, <2>2, LeastNatural
  <2> USE DEF Back
  <2>4. PICK k \in DOMAIN cells : cells[k].led = led /\ least = Len(cells) - k
    BY <2>3
  <2>5. ASSUME NEW j \in DOMAIN cells, cells[j].led = led
        PROVE  j <= k
    <3>1. Len(cells) - k <= Len(cells) - j
      BY <2>3, <2>4, <2>5
    <3> QED
      BY <3>1
  <2> QED
    BY <2>4, <2>5
<1>2. ASSUME NEW led \in Leds, NEW i \in DOMAIN cells, cells[i].led = led
      PROVE  cells[LastOf(led)].colour \in Lighting!Shades
  <2>1. LastOf(led) \in DOMAIN cells
    BY <1>1, <1>2
  <2>2. \A k \in DOMAIN cells : cells[k] \in Lighting!Cells
    OBVIOUS
  <2>3. \A c \in Lighting!Cells : c.colour \in Lighting!Shades
    BY DEF Lighting!Cells
  <2> HIDE DEF LastOf
  <2> QED
    BY <2>1, <2>2, <2>3
<1>3. Lighting!Overlay(cells) =
        [led \in Leds |-> IF \E i \in DOMAIN cells : cells[i].led = led
                          THEN cells[LastOf(led)].colour ELSE Lighting!Off]
  BY DEF Lighting!Overlay
<1> HIDE DEF LastOf
<1> QED
  BY <1>2, <1>3 DEF Lighting!Shades

\* A host's step keeps the commands, labels and outcomes in range.
LEMMA ControlTypesStep ==
    ASSUME Lighting!CommandShape, ControlTypes, NEW h \in Hosts, Lighting!Step(h)
    PROVE  ControlTypes'
<1>1. commands' = commands
  BY CommandsStay
<1>2. commands[h].op \in Labels
  <2>1. commands[h] \in LightingCommands
    BY DEF ControlTypes
  <2> QED
    BY <2>1 DEF Lighting!CommandShape, Labels
<1>3. ASSUME NEW label \in Labels, Lighting!Goto(h, label)
      PROVE  ControlTypes'
  BY <1>1, <1>3 DEF Lighting!Goto, ControlTypes
<1>4. ASSUME NEW o \in Reports, Lighting!End(h, o)
      PROVE  ControlTypes'
  BY <1>1, <1>4 DEF Lighting!End, ControlTypes, Labels
<1>5. CASE Lighting!Start(h)
  BY <1>3, <1>4, <1>5 DEF Lighting!Start, Labels, Reports
<1>6. CASE Lighting!Read(h)
  BY <1>2, <1>3, <1>6 DEF Lighting!Read, Labels, Reports
<1>7. CASE Lighting!SetCell(h)
  BY <1>3, <1>4, <1>7 DEF Lighting!SetCell, Lighting!Refused, Labels, Reports
<1>8. CASE Lighting!Write(h)
  BY <1>4, <1>8 DEF Lighting!Write, Labels, Reports
<1>9. CASE Lighting!BeginReplace(h)
  BY <1>3, <1>4, <1>9 DEF Lighting!BeginReplace, Labels, Reports
<1>10. CASE Lighting!PutChunk(h)
  BY <1>3, <1>10 DEF Lighting!PutChunk, Labels, Reports
<1>11. CASE Lighting!Commit(h)
  BY <1>3, <1>4, <1>11 DEF Lighting!Commit, Labels, Reports
<1>12. CASE Lighting!Abort(h)
  BY <1>4, <1>12 DEF Lighting!Abort, Labels, Reports
<1>13. CASE Lighting!Disconnect(h)
  BY <1>4, <1>13 DEF Lighting!Disconnect, Labels, Reports
<1> QED
  BY <1>5, <1>6, <1>7, <1>8, <1>9, <1>10, <1>11, <1>12, <1>13 DEF Lighting!Step

\* A host that is staging has a file, and one that sets cells a list of them.
LEMMA WhoReplaces ==
    ASSUME Lighting!CommandShape, LightTypes, PcInv, NEW h \in Hosts
    PROVE  /\ hosts_pc[h] \in {"replace", "chunk", "abort"} =>
                 commands[h].op = "replace" /\ commands[h].cells \in Seq(Lighting!Cells)
           /\ hosts_pc[h] = "cells" =>
                 /\ commands[h].op = "cells"
                 /\ commands[h].part \in {"overlay", "scenes"}
                 /\ commands[h].leds \in Seq(Leds) /\ commands[h].leds # <<>>
                 /\ commands[h].colour \in Lighting!Shades
<1>1. commands[h] \in LightingCommands
  BY DEF LightTypes, ControlTypes
<1>2. commands[h].op \notin {"start", "read", "end", "chunk", "abort"}
  BY <1>1 DEF Lighting!CommandShape
<1> QED
  BY <1>1, <1>2 DEF Lighting!CommandShape, PcInv

\* One chunk is a part of the file.
LEMMA ChunkIsPart ==
    ASSUME Lighting!LightingSessionAssumption, NEW h \in Hosts, cell[h] \in Nat \ {0},
           commands[h].cells \in Seq(Lighting!Cells), cell[h] <= Len(commands[h].cells)
    PROVE  Lighting!Chunk(h) =
               SubSeq(commands[h].cells, cell[h],
                      Reached(Lighting!Advance(cell[h]), Len(commands[h].cells)))
<1> DEFINE n == Len(commands[h].cells)
           k == cell[h] + ChunkSize - 1
<1>1. n \in Nat /\ k \in Nat /\ Lighting!Advance(cell[h]) - 1 = k
  BY DEF Lighting!Advance, Lighting!LightingSessionAssumption
<1>2. (IF k < n THEN k ELSE n) = Reached(Lighting!Advance(cell[h]), n)
  BY <1>1 DEF Reached
<1> QED
  BY <1>2 DEF Lighting!Chunk

\* A chunk of a file is a list of its cells.
LEMMA ChunkType ==
    ASSUME Lighting!LightingSessionAssumption, NEW h \in Hosts, cell[h] \in Nat \ {0},
           commands[h].cells \in Seq(Lighting!Cells), cell[h] <= Len(commands[h].cells)
    PROVE  Lighting!Chunk(h) \in Seq(Lighting!Cells)
<1> DEFINE cells == commands[h].cells
           last == Reached(Lighting!Advance(cell[h]), Len(cells))
<1>1. last \in Nat /\ last <= Len(cells)
  BY DEF Reached, Lighting!Advance, Lighting!LightingSessionAssumption
<1> HIDE DEF last
<1>2. \A i \in cell[h] .. last : cells[i] \in Lighting!Cells
  BY <1>1
<1>3. SubSeq(cells, cell[h], last) \in Seq(Lighting!Cells)
  BY <1>1, <1>2, SubSeqProperties
<1> QED
  BY <1>3, ChunkIsPart DEF last

\* ... and the keyboard and what the hosts hold of it.
LEMMA DataTypesStep ==
    ASSUME Lighting!LightingSessionAssumption, Lighting!CommandShape, LightTypes, PcInv,
           CellsInv, NEW h \in Hosts, Lighting!Step(h)
    PROVE  DataTypes'
<1> USE DEF LightTypes, DataTypes
<1>1. CASE Lighting!Start(h)
  BY <1>1 DEF Lighting!Start, Lighting!keyboard
<1>2. CASE Lighting!Read(h)
  BY <1>2 DEF Lighting!Read, Lighting!keyboard
<1>3. CASE Lighting!SetCell(h)
  <2> DEFINE c == commands[h]
             set == WithCell(lights, c.part, c.leds[cell[h]], c.colour)
  <2>1. c.part \in {"overlay", "scenes"} /\ c.leds[cell[h]] \in Leds /\ c.colour \in Lighting!Shades
    BY <1>3, WhoReplaces DEF Lighting!SetCell, CellsInv
  <2>2. Lighting!Changed(set) \in LightStates
    BY <2>1, CellState, ChangedState
  <2>3. lights' \in LightStates /\ seen' \in [Hosts -> LightStates]
    BY <1>3, <2>2 DEF Lighting!SetCell, WithCell
  <2>4. cell' \in [Hosts -> Nat \ {0}]
    BY <1>3 DEF Lighting!SetCell
  <2> QED
    BY <1>3, <2>3, <2>4 DEF Lighting!SetCell
<1>4. CASE Lighting!Write(h)
  <2>1. lights' \in LightStates
    BY <1>4, WrittenState, ChangedState DEF Lighting!Write
  <2> QED
    BY <1>4, <2>1 DEF Lighting!Write
<1>5. CASE Lighting!BeginReplace(h)
  <2>1. CASE Lighting!Accepts(Lighting!Expected(h))
    <3>0. ids' = ids + 1 /\ ids' \in Nat
      BY <1>5, <2>1 DEF Lighting!BeginReplace
    <3>1. ids' \in Nat /\ transaction' \in [Hosts -> Nat]
      BY <1>5, <2>1, <3>0 DEF Lighting!BeginReplace
    <3>2. commands[h].cells \in Seq(Lighting!Cells)
      BY <1>5, WhoReplaces DEF Lighting!BeginReplace
    <3>3. staging' \in Stagings
      <4>1. staging' = [id |-> ids', cells |-> <<>>, count |-> Len(commands[h].cells),
                        locked |-> FALSE]
        BY <1>5, <2>1 DEF Lighting!BeginReplace
      <4>2. <<>> \in Seq(Lighting!Cells) /\ Len(commands[h].cells) \in Nat
        BY <3>2
      <4> QED
        BY <3>1, <4>1, <4>2 DEF Stagings
    <3> QED
      BY <1>5, <3>1, <3>3 DEF Lighting!BeginReplace
  <2>2. CASE ~ Lighting!Accepts(Lighting!Expected(h))
    BY <1>5, <2>2 DEF Lighting!BeginReplace
  <2> QED
    BY <2>1, <2>2
<1>6. CASE Lighting!PutChunk(h)
  <2>1. CASE Lighting!Mine(h) /\ lights_unlocked
    <3>1. commands[h].cells \in Seq(Lighting!Cells) /\ cell[h] \in Nat \ {0}
      BY <1>6, WhoReplaces DEF Lighting!PutChunk
    <3>2. Lighting!Chunk(h) \in Seq(Lighting!Cells)
      BY <1>6, <3>1, ChunkType DEF Lighting!PutChunk
    <3>3. staging' \in Stagings
      <4>1. staging.cells \o Lighting!Chunk(h) \in Seq(Lighting!Cells)
        BY <3>2, ConcatProperties DEF Stagings
      <4>2. staging' = [staging EXCEPT !.cells = staging.cells \o Lighting!Chunk(h)]
        BY <1>6, <2>1 DEF Lighting!PutChunk
      <4> QED
        BY <4>1, <4>2 DEF Stagings
    <3>4. cell' \in [Hosts -> Nat \ {0}]
      <4>1. Lighting!Advance(cell[h]) \in Nat \ {0}
        BY <3>1 DEF Lighting!Advance, Lighting!LightingSessionAssumption
      <4> QED
        BY <1>6, <2>1, <4>1 DEF Lighting!PutChunk
    <3> QED
      BY <1>6, <3>3, <3>4 DEF Lighting!PutChunk
  <2>2. CASE ~ (Lighting!Mine(h) /\ lights_unlocked)
    BY <1>6, <2>2 DEF Lighting!PutChunk
  <2> QED
    BY <2>1, <2>2
<1>7. CASE Lighting!Commit(h)
  <2>1. lights' \in LightStates
    <3>1. Lighting!Overlay(staging.cells) \in [Leds -> Lighting!Shades]
      BY OverlayType DEF Stagings
    <3>2. [lights EXCEPT !.overlay = Lighting!Overlay(staging.cells)] \in LightStates
      BY <3>1 DEF LightStates
    <3> QED
      BY <1>7, <3>2, ChangedState DEF Lighting!Commit
  <2>2. staging' \in Stagings
    <3>1. Lighting!NoTransaction \in Stagings
      BY DEF Lighting!NoTransaction, Stagings
    <3> QED
      BY <1>7, <3>1 DEF Lighting!Commit
  <2> QED
    BY <1>7, <2>1, <2>2 DEF Lighting!Commit
<1>8. CASE Lighting!Abort(h)
  <2>1. staging' \in Stagings
    BY <1>8 DEF Lighting!Abort, Lighting!NoTransaction, Stagings
  <2> QED
    BY <1>8, <2>1 DEF Lighting!Abort
<1>9. CASE Lighting!Disconnect(h)
  BY <1>9 DEF Lighting!Disconnect, Lighting!keyboard
<1> QED
  BY <1>1, <1>2, <1>3, <1>4, <1>5, <1>6, <1>7, <1>8, <1>9 DEF Lighting!Step

\* A step that is not a host's changes the lighting at most, or the lock.
LEMMA KeyStep ==
    ASSUME LightTypes, [Lighting!Next]_(Lighting!vars), ~ \E h \in Hosts : Lighting!Step(h)
    PROVE  /\ UNCHANGED <<ids, Lighting!host>>
           /\ \/ staging' = staging /\ lights_unlocked' = lights_unlocked
              \/ staging' = [staging EXCEPT !.locked = (staging.id # 0)]
           /\ lights' \in LightStates
           /\ \/ lights' = lights
              \/ lights'.revision = lights.revision + 1
<1>1. CASE Lighting!KeyPressed
  <2>1. PICK l \in LightStates : lights' = Lighting!Changed(l) /\ l.revision = lights.revision
    <3>t. lights \in LightStates
      BY DEF LightTypes, DataTypes
    <3>0. \A b \in 1 .. 2 : /\ [lights EXCEPT !.background = b] \in LightStates
                           /\ [lights EXCEPT !.background = b].revision = lights.revision
      BY <3>t DEF LightStates
    <3>1. \A r \in 1 .. 2 : /\ [lights EXCEPT !.rules = r] \in LightStates
                           /\ [lights EXCEPT !.rules = r].revision = lights.revision
      BY <3>t DEF LightStates
    <3>2. /\ [lights EXCEPT !.output = ~ @] \in LightStates
          /\ [lights EXCEPT !.output = ~ @].revision = lights.revision
      BY DEF LightTypes, DataTypes, LightStates
    <3> QED
      BY <1>1, <3>0, <3>1, <3>2 DEF Lighting!KeyPressed
  <2> QED
    BY <1>1, <2>1, ChangedState DEF Lighting!KeyPressed
<1>2. CASE Lighting!ToggleMaintenance \/ UNCHANGED Lighting!vars
  BY <1>2 DEF Lighting!ToggleMaintenance, Lighting!vars, Lighting!keyboard, LightTypes,
              DataTypes
<1> QED
  BY <1>1, <1>2 DEF Lighting!Next

\* A host stays where its command takes it.
LEMMA PcStep ==
    ASSUME Lighting!CommandShape, LightTypes, PcInv, NEW h \in Hosts, Lighting!Step(h)
    PROVE  PcInv'
<1>1. commands' = commands /\ commands[h].op \notin {"start", "read", "end", "chunk", "abort"}
  BY CommandsStay DEF LightTypes, ControlTypes, Lighting!CommandShape
<1> DEFINE At(g) == /\ \/ hosts_pc'[g] \in {"start", "read", "end", commands[g].op}
                       \/ commands[g].op = "replace" /\ hosts_pc'[g] \in {"chunk", "abort"}
                    /\ hosts_pc'[g] \in {"start", "read", "replace"} => cell'[g] = 1
<1>2. ASSUME NEW g \in Hosts, g # h
      PROVE  At(g)
  <2> hosts_pc'[g] = hosts_pc[g] /\ cell'[g] = cell[g]
    BY <1>2, OthersRest
  <2> QED
    BY DEF PcInv
<1>3. At(h)
  <2> USE DEF LightTypes, ControlTypes, DataTypes, PcInv
  <2>1. ASSUME NEW o, Lighting!End(h, o)
        PROVE  hosts_pc'[h] = "end"
    BY <2>1 DEF Lighting!End
  <2>2. ASSUME NEW label, Lighting!Goto(h, label)
        PROVE  hosts_pc'[h] = label
    BY <2>2 DEF Lighting!Goto
  <2>3. CASE Lighting!Start(h)
    BY <2>1, <2>2, <2>3 DEF Lighting!Start
  <2>4. CASE Lighting!Read(h)
    BY <2>2, <2>4 DEF Lighting!Read
  <2>5. CASE Lighting!SetCell(h)
    <3>1. hosts_pc[h] = "cells" /\ commands[h].op = "cells" /\ hosts_pc'[h] \in {"end", "cells"}
      BY <2>1, <2>2, <2>5, WhoReplaces DEF Lighting!SetCell, Lighting!Refused
    <3> QED
      BY <3>1
  <2>6. CASE Lighting!Write(h)
    BY <2>1, <2>6 DEF Lighting!Write
  <2>7. CASE Lighting!BeginReplace(h)
    BY <2>1, <2>2, <2>7, WhoReplaces DEF Lighting!BeginReplace
  <2>8. CASE Lighting!PutChunk(h)
    BY <2>2, <2>8, WhoReplaces DEF Lighting!PutChunk
  <2>9. CASE Lighting!Commit(h)
    BY <2>1, <2>2, <2>9, WhoReplaces DEF Lighting!Commit
  <2>10. CASE Lighting!Abort(h)
    BY <2>1, <2>10 DEF Lighting!Abort
  <2>11. CASE Lighting!Disconnect(h)
    BY <2>1, <2>11 DEF Lighting!Disconnect
  <2> QED
    BY <2>3, <2>4, <2>5, <2>6, <2>7, <2>8, <2>9, <2>10, <2>11 DEF Lighting!Step
<1> QED
  BY <1>1, <1>2, <1>3 DEF PcInv

\* The lighting changes by whole revisions, and a host holds a state it read
\* or made.
LEMMA RevisionStep ==
    ASSUME Lighting!LightingSessionAssumption, Lighting!CommandShape, LightTypes, PcInv,
           CellsInv, NEW h \in Hosts, Lighting!Step(h)
    PROVE  /\ lights' = lights \/ lights'.revision = lights.revision + 1
           /\ \/ seen'[h] = seen[h]
              \/ seen'[h] = lights'
<1> USE DEF LightTypes, DataTypes
<1>1. CASE Lighting!Start(h) \/ Lighting!BeginReplace(h) \/ Lighting!PutChunk(h)
           \/ Lighting!Abort(h) \/ Lighting!Disconnect(h)
  BY <1>1 DEF Lighting!Start, Lighting!BeginReplace, Lighting!PutChunk, Lighting!Abort,
              Lighting!Disconnect, Lighting!keyboard
<1>2. CASE Lighting!Read(h)
  BY <1>2 DEF Lighting!Read, Lighting!keyboard
<1>3. CASE Lighting!SetCell(h)
  <2> DEFINE c == commands[h]
             set == WithCell(lights, c.part, c.leds[cell[h]], c.colour)
  <2>1. c.part \in {"overlay", "scenes"} /\ c.leds[cell[h]] \in Leds /\ c.colour \in Lighting!Shades
    BY <1>3, WhoReplaces DEF Lighting!SetCell, CellsInv
  <2>2. set \in LightStates /\ set.revision = lights.revision
    <3>1. lights \in LightStates
      OBVIOUS
    <3> HIDE DEF LightTypes, DataTypes, c
    <3>2. set \in LightStates
      BY <2>1, <3>1, CellState
    <3>3. set.revision = lights.revision
      <4>1. c.part # "revision"
        BY <2>1
      <4> QED
        BY <3>1, <4>1 DEF LightStates, WithCell
    <3> QED
      BY <3>2, <3>3
  <2> HIDE DEF set
  <2>3. Lighting!Changed(set).revision = lights.revision + 1
    BY <2>2, ChangedState
  <2> USE DEF set
  <2> QED
    BY <1>3, <2>3 DEF Lighting!SetCell, WithCell
<1>4. CASE Lighting!Write(h)
  BY <1>4, WrittenState, ChangedState DEF Lighting!Write
<1>5. CASE Lighting!Commit(h)
  <2>1. Lighting!Overlay(staging.cells) \in [Leds -> Lighting!Shades]
    BY OverlayType DEF Stagings
  <2>2. /\ [lights EXCEPT !.overlay = Lighting!Overlay(staging.cells)] \in LightStates
        /\ [lights EXCEPT !.overlay = Lighting!Overlay(staging.cells)].revision = lights.revision
    BY <2>1 DEF LightStates
  <2> QED
    BY <1>5, <2>2, ChangedState DEF Lighting!Commit
<1> QED
  BY <1>1, <1>2, <1>3, <1>4, <1>5 DEF Lighting!Step

\* An accepted request makes a new revision, and the answer carries its state.
LEMMA HeldStep ==
    ASSUME Lighting!LightingSessionAssumption, Lighting!CommandShape, LightTypes, PcInv,
           CellsInv, HeldInv, NEW h \in Hosts, Lighting!Step(h)
    PROVE  HeldInv'
<1>1. lights.revision \in Nat /\ \A g \in Hosts : seen[g].revision \in Nat
  BY DEF LightTypes, DataTypes, LightStates
<1>2. \A g \in Hosts : seen'[g] = seen[g] \/ seen'[g] = lights'
  BY RevisionStep, OthersRest
<1>3. lights' = lights \/ lights'.revision = lights.revision + 1
  BY RevisionStep
<1>4. SUFFICES ASSUME NEW g \in Hosts
               PROVE  /\ seen'[g].revision <= lights'.revision
                      /\ seen'[g].revision = lights'.revision => seen'[g] = lights'
  BY DEF HeldInv
<1>5. CASE seen'[g] = lights'
  BY <1>1, <1>3, <1>5
<1>6. CASE seen'[g] = seen[g]
  <2>1. /\ seen[g].revision <= lights.revision
        /\ seen[g].revision = lights.revision => seen[g] = lights
    BY DEF HeldInv
  <2> QED
    BY <1>1, <1>3, <1>6, <2>1
<1> QED
  BY <1>2, <1>5, <1>6

\* The cells set so far stay set in the state the host was answered with: a
\* later cell of the same list has the same colour.
LEMMA CellsStep ==
    ASSUME Lighting!CommandShape, LightTypes, PcInv, HeldInv, CellsInv,
           NEW h \in Hosts, Lighting!Step(h)
    PROVE  CellsInv'
<1>1. commands' = commands
  BY CommandsStay
<1> DEFINE Done(g) ==
        commands[g].op = "cells" /\ hosts_pc'[g] # "end" =>
            /\ cell'[g] <= Len(commands[g].leds)
            /\ hosts_pc'[g] = "cells" =>
                  \A i \in 1 .. cell'[g] - 1 :
                      seen'[g][commands[g].part][commands[g].leds[i]] = commands[g].colour
<1>2. ASSUME NEW g \in Hosts, g # h
      PROVE  Done(g)
  <2> hosts_pc'[g] = hosts_pc[g] /\ cell'[g] = cell[g] /\ seen'[g] = seen[g]
    BY <1>2, OthersRest
  <2> QED
    BY DEF CellsInv
<1>3. Done(h)
  <2> SUFFICES ASSUME commands[h].op = "cells", hosts_pc'[h] # "end"
               PROVE  /\ cell'[h] <= Len(commands[h].leds)
                      /\ hosts_pc'[h] = "cells" =>
                            \A i \in 1 .. cell'[h] - 1 :
                              seen'[h][commands[h].part][commands[h].leds[i]] = commands[h].colour
    OBVIOUS
  <2> DEFINE c == commands[h]
  <2>0. /\ c.part \in {"overlay", "scenes"} /\ c.leds \in Seq(Leds) /\ c.leds # <<>>
        /\ c.colour \in Lighting!Shades
    BY DEF LightTypes, ControlTypes, Lighting!CommandShape
  <2>1. hosts_pc[h] \in {"start", "read", "cells", "end"}
    BY DEF PcInv
  <2>2. CASE Lighting!Start(h) \/ Lighting!Read(h)
    <3>1. cell'[h] = 1
      BY <2>2 DEF PcInv, Lighting!Start, Lighting!Read
    <3> QED
      BY <2>0, <3>1
  <2>3. CASE Lighting!SetCell(h)
    <3>1. Lighting!Accepts(Lighting!Expected(h)) /\ cell[h] # Len(c.leds)
      BY <2>3 DEF Lighting!SetCell, Lighting!Refused, Lighting!End, LightTypes, ControlTypes
    <3>2. seen[h] = lights
      BY <3>1 DEF Lighting!Accepts, Lighting!Expected, HeldInv
    <3>3. hosts_pc[h] = "cells" /\ cell[h] \in Nat \ {0} /\ cell[h] <= Len(c.leds)
      BY <2>3 DEF Lighting!SetCell, CellsInv, LightTypes, DataTypes
    <3>4. cell'[h] = cell[h] + 1 /\ cell[h] < Len(c.leds)
      BY <2>0, <2>3, <3>1, <3>3 DEF Lighting!SetCell, LightTypes, DataTypes
    <3> DEFINE set == WithCell(lights, c.part, c.leds[cell[h]], c.colour)
    <3>5. c.leds[cell[h]] \in Leds
      BY <2>0, <3>3
    <3>6. /\ set \in LightStates
          /\ set[c.part] = [lights[c.part] EXCEPT ![c.leds[cell[h]]] = c.colour]
      <4>1. lights \in LightStates
        BY DEF LightTypes, DataTypes
      <4> QED
        BY <2>0, <3>5, <4>1, CellState
    <3>7. lights[c.part] \in [Leds -> Lighting!Shades]
      BY <2>0 DEF LightTypes, DataTypes, LightStates
    <3>8. Lighting!Changed(set)[c.part] = set[c.part]
      BY <2>0, <3>6, ChangedState
    <3>9. seen'[h] = Lighting!Changed(set)
      BY <2>3, <3>1 DEF Lighting!SetCell, LightTypes, DataTypes, WithCell
    <3>10. ASSUME NEW i \in 1 .. cell[h]
           PROVE  seen'[h][c.part][c.leds[i]] = c.colour
      <4>1. c.leds[i] \in Leds
        BY <2>0, <3>3
      <4>2. CASE i = cell[h]
        <5> HIDE DEF set
        <5>1. seen'[h][c.part] = [lights[c.part] EXCEPT ![c.leds[cell[h]]] = c.colour]
          BY <3>6, <3>8, <3>9
        <5> QED
          BY <3>5, <3>7, <4>2, <5>1
      <4>3. CASE i < cell[h]
        <5>1. lights[c.part][c.leds[i]] = c.colour
          BY <3>2, <3>3, <4>3 DEF CellsInv
        <5> HIDE DEF set
        <5>2. seen'[h][c.part] = [lights[c.part] EXCEPT ![c.leds[cell[h]]] = c.colour]
          BY <3>6, <3>8, <3>9
        <5> QED
          BY <3>5, <3>7, <4>1, <5>1, <5>2
      <4> QED
        BY <3>3, <4>2, <4>3
    <3> QED
      BY <2>0, <3>3, <3>4, <3>10
  <2>4. CASE \/ Lighting!Write(h) \/ Lighting!BeginReplace(h) \/ Lighting!PutChunk(h)
             \/ Lighting!Commit(h) \/ Lighting!Abort(h)
    BY <2>1, <2>4 DEF Lighting!Write, Lighting!BeginReplace, Lighting!PutChunk,
                      Lighting!Commit, Lighting!Abort
  <2>5. CASE Lighting!Disconnect(h)
    BY <2>5 DEF Lighting!Disconnect, Lighting!End, LightTypes, ControlTypes
  <2> QED
    BY <2>2, <2>3, <2>4, <2>5 DEF Lighting!Step
<1> QED
  BY <1>1, <1>2, <1>3 DEF CellsInv

\* What a host's step does to the open transaction: nothing, opening it,
\* adding a chunk, closing it.
KeepsStaging(h) ==
    /\ staging' = staging /\ ids' = ids /\ transaction' = transaction
    /\ hosts_pc'[h] = "chunk" => hosts_pc[h] = "chunk" /\ cell'[h] = cell[h]
    /\ hosts_pc'[h] = "abort" => hosts_pc[h] = "chunk"

OpensStaging(h) ==
    /\ lights_unlocked
    /\ ids' = ids + 1 /\ staging'.id = ids' /\ staging'.cells = <<>>
    /\ transaction' = [transaction EXCEPT ![h] = ids']
    /\ hosts_pc[h] = "replace" /\ hosts_pc'[h] = "chunk" /\ cell'[h] = cell[h]

AddsChunk(h) ==
    /\ ids' = ids /\ transaction' = transaction /\ Lighting!Mine(h)
    /\ staging'.id = staging.id /\ staging'.locked = staging.locked
    /\ staging'.cells = staging.cells \o Lighting!Chunk(h)
    /\ hosts_pc[h] = "chunk" /\ hosts_pc'[h] = "chunk"
    /\ cell[h] <= Len(commands[h].cells) /\ cell'[h] = Lighting!Advance(cell[h])

ClosesStaging(h) ==
    /\ ids' = ids /\ transaction' = transaction /\ Lighting!Mine(h)
    /\ staging'.id = 0
    /\ hosts_pc[h] \in {"chunk", "abort"} /\ hosts_pc'[h] = "end"

\* How a host's step changes the open transaction and the host's own id.
LEMMA StagingStep ==
    ASSUME Lighting!CommandShape, LightTypes, NEW h \in Hosts, Lighting!Step(h)
    PROVE  /\ KeepsStaging(h) \/ OpensStaging(h) \/ AddsChunk(h) \/ ClosesStaging(h)
           /\ lights_unlocked' = lights_unlocked
<1> USE DEF LightTypes, ControlTypes, DataTypes, Stagings,
            KeepsStaging, OpensStaging, AddsChunk, ClosesStaging
<1>1. ASSUME NEW o, Lighting!End(h, o)
      PROVE  hosts_pc'[h] = "end"
  BY <1>1 DEF Lighting!End
<1>2. ASSUME NEW label, Lighting!Goto(h, label)
      PROVE  hosts_pc'[h] = label
  BY <1>2 DEF Lighting!Goto
<1>3. CASE Lighting!Start(h)
  BY <1>1, <1>2, <1>3 DEF Lighting!Start, Lighting!keyboard
<1>4. CASE Lighting!Read(h)
  <2>1. hosts_pc'[h] \notin {"chunk", "abort"}
    BY <1>2, <1>4 DEF Lighting!Read, Lighting!CommandShape
  <2> QED
    BY <1>4, <2>1 DEF Lighting!Read, Lighting!keyboard
<1>5. CASE Lighting!SetCell(h)
  <2>1. hosts_pc'[h] \in {"cells", "end"}
    BY <1>1, <1>2, <1>5 DEF Lighting!SetCell, Lighting!Refused
  <2> QED
    BY <1>5, <2>1 DEF Lighting!SetCell
<1>6. CASE Lighting!Write(h)
  BY <1>1, <1>6 DEF Lighting!Write
<1>7. CASE Lighting!BeginReplace(h)
  <2>1. CASE Lighting!Accepts(Lighting!Expected(h))
    <3>1. hosts_pc'[h] = "chunk"
      BY <1>2, <1>7, <2>1 DEF Lighting!BeginReplace
    <3>2. staging' = [id |-> ids', cells |-> <<>>, count |-> Len(commands[h].cells),
                      locked |-> FALSE]
      BY <1>7, <2>1 DEF Lighting!BeginReplace
    <3>3. lights_unlocked
      BY <2>1 DEF Lighting!Accepts
    <3> QED
      BY <1>7, <2>1, <3>1, <3>2, <3>3 DEF Lighting!BeginReplace
  <2>2. CASE ~ Lighting!Accepts(Lighting!Expected(h))
    BY <1>1, <1>7, <2>2 DEF Lighting!BeginReplace
  <2> QED
    BY <2>1, <2>2
<1>8. CASE Lighting!PutChunk(h)
  <2>1. CASE Lighting!Mine(h) /\ lights_unlocked
    <3>1. hosts_pc'[h] = "chunk"
      BY <1>2, <1>8, <2>1 DEF Lighting!PutChunk
    <3>2. staging' = [staging EXCEPT !.cells = staging.cells \o Lighting!Chunk(h)]
      BY <1>8, <2>1 DEF Lighting!PutChunk
    <3> QED
      BY <1>8, <2>1, <3>1, <3>2 DEF Lighting!PutChunk
  <2>2. CASE ~ (Lighting!Mine(h) /\ lights_unlocked)
    BY <1>2, <1>8, <2>2 DEF Lighting!PutChunk
  <2> QED
    BY <2>1, <2>2
<1>9. CASE Lighting!Commit(h)
  <2>1. CASE Lighting!Mine(h) /\ staging' = Lighting!NoTransaction /\ Lighting!End(h, "ok")
    BY <1>1, <1>9, <2>1 DEF Lighting!Commit, Lighting!NoTransaction
  <2>2. CASE Lighting!Goto(h, "abort") /\ staging' = staging
    BY <1>2, <1>9, <2>2 DEF Lighting!Commit
  <2> QED
    BY <1>9, <2>1, <2>2 DEF Lighting!Commit
<1>10. CASE Lighting!Abort(h)
  <2>1. CASE Lighting!Mine(h) /\ lights_unlocked
    BY <1>1, <1>10, <2>1 DEF Lighting!Abort, Lighting!NoTransaction
  <2>2. CASE ~ (Lighting!Mine(h) /\ lights_unlocked)
    BY <1>1, <1>10, <2>2 DEF Lighting!Abort
  <2> QED
    BY <2>1, <2>2
<1>11. CASE Lighting!Disconnect(h)
  BY <1>1, <1>11 DEF Lighting!Disconnect, Lighting!keyboard
<1> QED
  BY <1>3, <1>4, <1>5, <1>6, <1>7, <1>8, <1>9, <1>10, <1>11 DEF Lighting!Step

\* Only a begin hands out an id, and it is a new one.
LEMMA IdsStep ==
    ASSUME Lighting!CommandShape, LightTypes, PcInv, IdsInv, NEW h \in Hosts, Lighting!Step(h)
    PROVE  IdsInv'
<1>1. /\ ids \in Nat /\ staging.id \in Nat
      /\ \A g \in Hosts : transaction[g] \in Nat
      /\ transaction \in [Hosts -> Nat]
  BY DEF LightTypes, DataTypes, Stagings
<1>2. \A g \in Hosts : g # h => hosts_pc'[g] = hosts_pc[g]
  BY OthersRest
<1>3. CASE KeepsStaging(h) \/ AddsChunk(h) \/ ClosesStaging(h)
  BY <1>1, <1>2, <1>3 DEF IdsInv, KeepsStaging, AddsChunk, ClosesStaging
<1>4. CASE OpensStaging(h)
  <2>1. \A g \in Hosts : transaction'[g] = IF g = h THEN ids + 1 ELSE transaction[g]
    BY <1>1, <1>4 DEF OpensStaging
  <2>2. staging'.id = ids + 1 /\ ids' = ids + 1
    BY <1>4 DEF OpensStaging
  <2>3. ASSUME NEW g \in Hosts
        PROVE  /\ transaction'[g] <= ids'
               /\ hosts_pc'[g] \in {"chunk", "abort"} => transaction'[g] > 0
    BY <1>1, <1>2, <2>1, <2>2, <2>3 DEF IdsInv
  <2>4. ASSUME NEW g \in Hosts, NEW f \in Hosts, transaction'[g] = transaction'[f]
        PROVE  g = f \/ transaction'[g] = 0
    BY <1>1, <2>1, <2>4 DEF IdsInv
  <2> QED
    BY <1>1, <2>2, <2>3, <2>4 DEF IdsInv
<1> QED
  BY <1>3, <1>4, StagingStep

\* Only the owner of the open transaction adds to it, one chunk at its offset.
LEMMA StagedStep ==
    ASSUME Lighting!LightingSessionAssumption, Lighting!CommandShape, LightTypes, PcInv,
           IdsInv, StagedInv, NEW h \in Hosts, Lighting!Step(h)
    PROVE  StagedInv'
<1>1. commands' = commands
  BY CommandsStay
<1>2. SUFFICES ASSUME NEW g \in Hosts, hosts_pc'[g] = "chunk", staging'.id = transaction'[g]
               PROVE  staging'.cells = SubSeq(commands[g].cells, 1,
                                              Reached(cell'[g], Len(commands[g].cells)))
  BY <1>1 DEF StagedInv
<1>3. /\ ids \in Nat /\ transaction \in [Hosts -> Nat] /\ cell[g] \in Nat \ {0}
      /\ staging.cells \in Seq(Lighting!Cells)
  BY DEF LightTypes, DataTypes, Stagings
<1>4. CASE g # h
  <2>1. hosts_pc[g] = "chunk" /\ cell'[g] = cell[g] /\ transaction'[g] = transaction[g]
    BY <1>2, <1>4, OthersRest
  <2>2. transaction[g] \in Nat /\ transaction[g] > 0 /\ transaction[g] <= ids
    BY <1>3, <2>1 DEF IdsInv
  <2>3. CASE KeepsStaging(h)
    BY <1>2, <2>1, <2>3 DEF KeepsStaging, StagedInv
  <2>4. CASE OpensStaging(h)
    BY <1>2, <1>3, <2>1, <2>2, <2>4 DEF OpensStaging
  <2>5. CASE AddsChunk(h)
    BY <1>2, <1>4, <2>1, <2>2, <2>5 DEF AddsChunk, Lighting!Mine, IdsInv
  <2>6. CASE ClosesStaging(h)
    BY <1>2, <2>1, <2>2, <2>6 DEF ClosesStaging
  <2> QED
    BY <2>3, <2>4, <2>5, <2>6, StagingStep
<1>5. CASE g = h
  <2> DEFINE cells == commands[h].cells
             n == Len(cells)
  <2>1. CASE KeepsStaging(h)
    BY <1>2, <1>5, <2>1 DEF KeepsStaging, StagedInv
  <2>2. CASE OpensStaging(h)
    <3>1. cell'[h] = 1 /\ cells \in Seq(Lighting!Cells)
      BY <2>2, WhoReplaces DEF OpensStaging, PcInv
    <3>2. n \in Nat
      BY <3>1
    <3>3. Reached(cell'[h], n) = 0
      BY <3>1, <3>2 DEF Reached
    <3> QED
      BY <1>5, <2>2, <3>3, SubSeqEmpty DEF OpensStaging
  <2>3. CASE AddsChunk(h)
    <3>1. cells \in Seq(Lighting!Cells) /\ hosts_pc[h] = "chunk" /\ cell[h] <= n
      BY <2>3, WhoReplaces DEF AddsChunk
    <3>2. staging.cells = SubSeq(cells, 1, cell[h] - 1)
      <4>1. Reached(cell[h], n) = cell[h] - 1
        BY <1>3, <1>5, <3>1 DEF Reached
      <4> QED
        BY <2>3, <3>1, <4>1 DEF StagedInv, AddsChunk, Lighting!Mine
    <3> DEFINE last == Reached(Lighting!Advance(cell[h]), n)
    <3>3. last \in cell[h] .. n
      BY <1>3, <1>5, <3>1 DEF Reached, Lighting!Advance, Lighting!LightingSessionAssumption
    <3>4. Lighting!Chunk(h) = SubSeq(cells, cell[h], last)
      BY <1>3, <1>5, <3>1, ChunkIsPart
    <3> HIDE DEF last
    <3>5. SubSeq(cells, 1, cell[h] - 1) \o SubSeq(cells, cell[h], last) = SubSeq(cells, 1, last)
      <4> DEFINE k == cell[h] - 1
      <4>0. n \in Nat /\ cell[h] \in Nat \ {0} /\ cell[h] <= n /\ last \in cell[h] .. n
        BY <1>3, <1>5, <3>1, <3>3
      <4>1. /\ 1 \in 1 .. n + 1 /\ k \in 0 .. n /\ last \in k .. n /\ k + 1 = cell[h]
            /\ 1 - 1 = 0
        <5> HIDE DEF n
        <5> QED
          BY <4>0
      <4> HIDE DEF k
      <4>2. SubSeq(cells, 1, k) \o SubSeq(cells, k + 1, last) = SubSeq(cells, 1, last)
        BY <3>1, <4>1, ConcatAdjacentSubSeq
      <4> QED
        BY <4>1, <4>2 DEF k
    <3> QED
      BY <1>5, <2>3, <3>2, <3>4, <3>5 DEF AddsChunk, last
  <2>4. CASE ClosesStaging(h)
    BY <1>2, <1>5, <2>4 DEF ClosesStaging
  <2> QED
    BY <2>1, <2>2, <2>3, <2>4, StagingStep
<1> QED
  BY <1>4, <1>5

\* What a host reports is decided by the step that ends its command.
LEMMA ReportStep ==
    ASSUME LightTypes, NEW h \in Hosts, Lighting!Step(h), outcomes'[h] # outcomes[h]
    PROVE  /\ hosts_pc'[h] = "end"
           /\ outcomes'[h] = "failed" => Lighting!Abort(h)
           /\ outcomes'[h] = "ok" => Lighting!SetCell(h) \/ Lighting!Write(h) \/ Lighting!Commit(h)
<1> USE DEF LightTypes, ControlTypes
<1>1. ASSUME NEW o, Lighting!End(h, o)
      PROVE  outcomes'[h] = o /\ hosts_pc'[h] = "end"
  BY <1>1 DEF Lighting!End
<1>2. ASSUME NEW label, Lighting!Goto(h, label)
      PROVE  FALSE
  BY <1>2 DEF Lighting!Goto
<1>3. CASE Lighting!Start(h)
  BY <1>1, <1>2, <1>3 DEF Lighting!Start
<1>4. CASE Lighting!Read(h)
  BY <1>2, <1>4 DEF Lighting!Read
<1>5. CASE Lighting!SetCell(h)
  BY <1>1, <1>2, <1>5 DEF Lighting!SetCell, Lighting!Refused
<1>6. CASE Lighting!Write(h)
  BY <1>1, <1>6 DEF Lighting!Write
<1>7. CASE Lighting!BeginReplace(h)
  BY <1>1, <1>2, <1>7 DEF Lighting!BeginReplace
<1>8. CASE Lighting!PutChunk(h)
  BY <1>2, <1>8 DEF Lighting!PutChunk
<1>9. CASE Lighting!Commit(h)
  BY <1>1, <1>2, <1>9 DEF Lighting!Commit
<1>10. CASE Lighting!Abort(h)
  BY <1>1, <1>10 DEF Lighting!Abort
<1>11. CASE Lighting!Disconnect(h)
  BY <1>1, <1>11 DEF Lighting!Disconnect
<1> QED
  BY <1>3, <1>4, <1>5, <1>6, <1>7, <1>8, <1>9, <1>10, <1>11 DEF Lighting!Step

\* A host that has ended takes no further step.
LEMMA EndedRests ==
    ASSUME Lighting!CommandShape, LightTypes, FailedInv, NEW h \in Hosts, outcomes[h] = "failed"
    PROVE  ~ Lighting!Step(h)
BY DEF FailedInv, Lighting!Step, Lighting!Start, Lighting!Read, Lighting!SetCell, Lighting!Write,
       Lighting!BeginReplace, Lighting!PutChunk, Lighting!Commit, Lighting!Abort,
       Lighting!Disconnect

\* No transaction begins under the lock.
LEMMA LockStep ==
    ASSUME Lighting!CommandShape, LightTypes, LockInv, NEW h \in Hosts, Lighting!Step(h)
    PROVE  LockInv'
BY StagingStep DEF LockInv, KeepsStaging, OpensStaging, AddsChunk, ClosesStaging

\* Only a replacement fails, and it has ended.
LEMMA FailedStep ==
    ASSUME Lighting!CommandShape, LightTypes, PcInv, IdsInv, FailedInv,
           NEW h \in Hosts, Lighting!Step(h)
    PROVE  FailedInv'
<1>1. SUFFICES ASSUME NEW g \in Hosts, outcomes'[g] = "failed"
               PROVE  hosts_pc'[g] = "end" /\ transaction'[g] > 0
  BY DEF FailedInv
<1>2. CASE g # h
  BY <1>1, <1>2, OthersRest DEF FailedInv
<1>3. CASE g = h
  <2>1. outcomes[h] # "failed"
    BY EndedRests
  <2>2. hosts_pc'[h] = "end" /\ Lighting!Abort(h)
    BY <1>1, <1>3, <2>1, ReportStep
  <2> QED
    BY <1>3, <2>2 DEF Lighting!Abort, IdsInv
<1> QED
  BY <1>2, <1>3

\* What a failed replacement has left open stays as it is until it is replaced,
\* and only the lock makes an abort leave anything.
LEMMA LeftOpenStep ==
    ASSUME Lighting!CommandShape, LightTypes, PcInv, IdsInv, LockInv, FailedInv,
           Lighting!FailureCleansUp, NEW h \in Hosts, Lighting!Step(h)
    PROVE  Lighting!FailureCleansUp'
<1>1. SUFFICES ASSUME NEW g \in Hosts, outcomes'[g] = "failed", staging'.id = transaction'[g]
               PROVE  staging'.locked
  BY DEF Lighting!FailureCleansUp
<1>2. ids \in Nat /\ transaction \in [Hosts -> Nat]
  BY DEF LightTypes, DataTypes
<1>3. CASE g # h
  <2>1. outcomes[g] = "failed" /\ transaction'[g] = transaction[g]
    BY <1>1, <1>3, OthersRest
  <2>2. transaction[g] > 0 /\ transaction[g] \in Nat /\ transaction[g] <= ids
    BY <1>2, <2>1 DEF FailedInv, IdsInv
  <2>3. staging.id = transaction[g] => staging.locked
    BY <2>1, Zenon DEF Lighting!FailureCleansUp
  <2>4. CASE KeepsStaging(h) \/ AddsChunk(h)
    <3>1. staging'.id = staging.id /\ staging'.locked = staging.locked
      BY <2>4 DEF KeepsStaging, AddsChunk
    <3>2. staging.id = transaction[g]
      BY <1>1, <2>1, <3>1
    <3> QED
      BY <2>3, <3>1, <3>2, Zenon
  <2>5. CASE OpensStaging(h) \/ ClosesStaging(h)
    <3>1. staging'.id = ids + 1 \/ staging'.id = 0
      BY <2>5 DEF OpensStaging, ClosesStaging
    <3> QED
      BY <1>1, <1>2, <2>1, <2>2, <3>1
  <2> QED
    BY <2>4, <2>5, StagingStep
<1>4. CASE g = h
  <2>1. outcomes[h] # "failed"
    BY EndedRests
  <2>2. Lighting!Abort(h)
    BY <1>1, <1>4, <2>1, ReportStep
  <2>3. transaction'[h] = transaction[h] /\ transaction[h] > 0 /\ transaction[h] \in Nat
    BY <1>2, <2>2 DEF Lighting!Abort, IdsInv
  <2>4. ~ (Lighting!Mine(h) /\ lights_unlocked)
    BY <1>1, <1>4, <2>2, <2>3 DEF Lighting!Abort, Lighting!NoTransaction
  <2>5. staging' = staging
    BY <2>2, <2>4 DEF Lighting!Abort
  <2>6. staging.id # 0 /\ ~ lights_unlocked
    BY <1>1, <1>4, <2>3, <2>4, <2>5 DEF Lighting!Mine
  <2> QED
    BY <2>5, <2>6, Zenon DEF LockInv
<1> QED
  BY <1>3, <1>4

\* The invariant of the lighting commands holds at first.
LEMMA LightInvInit ==
    ASSUME Lighting!CommandShape, Lighting!Init
    PROVE  LightInv
<1> USE DEF Lighting!Init
<1>1. lights \in LightStates /\ lights.revision = 0
  BY DEF LightStates, Lighting!Dark, Lighting!Shades
<1>2. staging \in Stagings /\ staging.id = 0
  BY DEF Stagings, Lighting!NoTransaction
<1>3. ControlTypes
  BY DEF ControlTypes, Labels, Reports
<1>4. DataTypes
  <2>1. seen \in [Hosts -> LightStates] /\ transaction \in [Hosts -> Nat]
    BY <1>1
  <2>2. cell \in [Hosts -> Nat \ {0}] /\ ids \in Nat
    OBVIOUS
  <2> HIDE DEF Lighting!Init
  <2> QED
    BY <1>1, <1>2, <2>1, <2>2, Zenon DEF DataTypes
<1>5. PcInv
  <2>1. ASSUME NEW h \in Hosts PROVE hosts_pc[h] = "start" /\ cell[h] = 1
    OBVIOUS
  <2> HIDE DEF Lighting!Init
  <2> QED
    BY <2>1, Zenon DEF PcInv
<1>6. HeldInv
  <2>1. ASSUME NEW h \in Hosts PROVE seen[h] = lights
    OBVIOUS
  <2>2. ASSUME NEW h \in Hosts PROVE seen[h].revision <= lights.revision
    <3> HIDE DEF Lighting!Init
    <3> QED
      BY <1>1, <2>1
  <2> HIDE DEF Lighting!Init
  <2> QED
    BY <2>1, <2>2, Zenon DEF HeldInv
<1>7. CellsInv
  <2> SUFFICES ASSUME NEW h \in Hosts, commands[h].op = "cells"
               PROVE  1 <= Len(commands[h].leds)
    BY DEF CellsInv
  <2>1. commands[h].leds \in Seq(Leds) /\ commands[h].leds # <<>>
    BY <1>3 DEF ControlTypes, Lighting!CommandShape
  <2> QED
    BY <2>1
<1>8. IdsInv
  BY <1>2 DEF IdsInv
<1>9. StagedInv /\ LockInv /\ FailedInv /\ Lighting!FailureCleansUp
  BY <1>2 DEF StagedInv, LockInv, FailedInv, Lighting!FailureCleansUp
<1> QED
  BY <1>3, <1>4, <1>5, <1>6, <1>7, <1>8, <1>9 DEF LightInv, LightTypes

\* Every step of a host and of the keyboard keeps it.
LEMMA LightInvStep ==
    ASSUME Lighting!LightingSessionAssumption, Lighting!CommandShape, LightInv,
           [Lighting!Next]_(Lighting!vars)
    PROVE  LightInv'
<1> /\ LightTypes /\ PcInv /\ HeldInv /\ CellsInv /\ IdsInv /\ StagedInv /\ LockInv
    /\ FailedInv /\ Lighting!FailureCleansUp
  BY DEF LightInv
<1>1. ASSUME NEW h \in Hosts, Lighting!Step(h)
      PROVE  LightInv'
  BY <1>1, ControlTypesStep, DataTypesStep, PcStep, HeldStep, CellsStep, IdsStep,
     StagedStep, LockStep, FailedStep, LeftOpenStep
  DEF LightInv, LightTypes
<1>2. CASE ~ \E h \in Hosts : Lighting!Step(h)
  <2>1. /\ UNCHANGED <<ids, commands, hosts_pc, seen, cell, transaction, outcomes>>
        /\ lights' \in LightStates
        /\ lights' = lights \/ lights'.revision = lights.revision + 1
        /\ \/ staging' = staging /\ lights_unlocked' = lights_unlocked
           \/ staging' = [staging EXCEPT !.locked = (staging.id # 0)]
    BY <1>2, KeyStep DEF Lighting!host
  <2>s. staging \in Stagings
    BY DEF LightTypes, DataTypes
  <2>4. /\ staging' \in Stagings /\ staging'.id = staging.id
        /\ staging'.cells = staging.cells
        /\ \/ staging'.locked = staging.locked /\ lights_unlocked' = lights_unlocked
           \/ staging.id # 0 => staging'.locked
    BY <2>1, <2>s DEF Stagings
  <2>2. LightTypes' /\ PcInv' /\ CellsInv' /\ IdsInv' /\ StagedInv' /\ FailedInv'
    BY <2>1, <2>4 DEF LightTypes, ControlTypes, DataTypes, PcInv, CellsInv, IdsInv, StagedInv,
                      FailedInv
  <2>5. LockInv'
    BY <2>4 DEF LockInv
  <2>6. Lighting!FailureCleansUp'
    <3> SUFFICES ASSUME NEW h \in Hosts, outcomes[h] = "failed", staging.id = transaction[h]
                 PROVE  staging'.locked
      BY <2>1, <2>4 DEF Lighting!FailureCleansUp
    <3>1. staging.locked
      BY Zenon DEF Lighting!FailureCleansUp
    <3>2. staging.id # 0
      BY DEF FailedInv, LightTypes, DataTypes
    <3> QED
      BY <2>4, <3>1, <3>2, Zenon
  <2>3. HeldInv'
    <3>1. lights.revision \in Nat /\ \A g \in Hosts : seen[g].revision \in Nat
      BY DEF LightTypes, DataTypes, LightStates
    <3> QED
      BY <2>1, <3>1 DEF HeldInv
  <2> QED
    BY <2>2, <2>3, <2>5, <2>6 DEF LightInv
<1> QED
  BY <1>1, <1>2

(***************************************************************************)
(* A `lighting` replacement that failed leaves no transaction of its own   *)
(* open on the keyboard, however many hosts, cells and chunks there are    *)
(* and whatever the others do, unless the maintenance lock was engaged     *)
(* after it began: transaction ids are handed out once, the abort only     *)
(* touches the host's own, and nothing but the lock refuses it.            *)
(***************************************************************************)
THEOREM FailedReplacementCleansUp ==
    ASSUME Lighting!LightingSessionAssumption, Lighting!CommandShape
    PROVE  Lighting!Spec => []FailureCleansUp
<1>1. Lighting!Init => LightInv
  BY LightInvInit
<1>2. LightInv /\ [Lighting!Next]_(Lighting!vars) => LightInv'
  BY LightInvStep
<1>3. LightInv => Lighting!FailureCleansUp
  BY DEF LightInv
<1> QED
  BY <1>1, <1>2, <1>3, PTL DEF Lighting!Spec, FailureCleansUp

-----------------------------------------------------------------------------
(* What a lighting command has done when it reports success.               *)

\* A command that sends back what it read of other settings changes none of them.
LEMMA BrightnessStep ==
    ASSUME Lighting!CommandShape, LightInv, NEW h \in Hosts, Lighting!Write(h),
           hosts_pc[h] \in {"brightness", "rewrite"}, outcomes'[h] = "ok", outcomes[h] = "none"
    PROVE  /\ lights'.output = lights.output
           /\ lights'.background = lights.background
           /\ lights'.rules = lights.rules
<1> LightTypes /\ PcInv /\ HeldInv
  BY DEF LightInv
<1>1. lights \in LightStates /\ seen[h] \in LightStates /\ Lighting!Written(h) \in LightStates
  BY WrittenState DEF LightTypes, DataTypes
<1>2. Lighting!Accepts(Lighting!Expected(h))
  BY DEF Lighting!Write, Lighting!End, LightTypes, ControlTypes
<1>3. seen[h] = lights
  BY <1>2 DEF Lighting!Accepts, Lighting!Expected, HeldInv
<1>4. commands[h].op = hosts_pc[h]
  <2>1. commands[h].op \notin {"start", "read", "end", "chunk", "abort"}
    BY DEF LightTypes, ControlTypes, Lighting!CommandShape
  <2> QED
    BY <2>1 DEF PcInv
<1>5. lights' = Lighting!Changed(Lighting!Written(h))
  BY <1>2 DEF Lighting!Write
<1>6. /\ Lighting!Written(h).output = lights.output
      /\ Lighting!Written(h).background = lights.background
      /\ Lighting!Written(h).rules = lights.rules
  <2>1. CASE commands[h].op = "brightness"
    BY <1>1, <1>3, <2>1 DEF Lighting!Written, LightStates
  <2>2. CASE commands[h].op = "rewrite"
    BY <1>1, <1>3, <2>2 DEF Lighting!Written, LightStates
  <2> QED
    BY <1>4, <2>1, <2>2
<1> QED
  BY <1>1, <1>5, <1>6, ChangedState

\* The answer to the last cell shows every cell of the command.
LEMMA LastCellStep ==
    ASSUME Lighting!CommandShape, LightInv, NEW h \in Hosts, Lighting!SetCell(h),
           outcomes'[h] = "ok", outcomes[h] = "none"
    PROVE  \A i \in DOMAIN commands[h].leds :
               lights'[commands[h].part][commands[h].leds[i]] = commands[h].colour
<1> LightTypes /\ PcInv /\ HeldInv /\ CellsInv
  BY DEF LightInv
<1> DEFINE c == commands[h]
           set == WithCell(lights, c.part, c.leds[cell[h]], c.colour)
<1>1. /\ c.part \in {"overlay", "scenes"} /\ c.leds \in Seq(Leds) /\ c.leds # <<>>
      /\ c.colour \in Lighting!Shades /\ c.op = "cells" /\ hosts_pc[h] = "cells"
  BY WhoReplaces DEF Lighting!SetCell
<1>2. Lighting!Accepts(Lighting!Expected(h)) /\ cell[h] = Len(c.leds)
  BY DEF Lighting!SetCell, Lighting!Refused, Lighting!End, Lighting!Goto, LightTypes,
         ControlTypes
<1>3. seen[h] = lights
  BY <1>2 DEF Lighting!Accepts, Lighting!Expected, HeldInv
<1>4. lights' = Lighting!Changed(set)
  BY <1>2 DEF Lighting!SetCell, WithCell
<1>5. c.leds[cell[h]] \in Leds /\ lights \in LightStates
  BY <1>1, <1>2 DEF LightTypes, DataTypes
<1>6. /\ set \in LightStates
      /\ set[c.part] = [lights[c.part] EXCEPT ![c.leds[cell[h]]] = c.colour]
  BY <1>1, <1>5, CellState
<1>7. lights[c.part] \in [Leds -> Lighting!Shades]
  BY <1>1, <1>5 DEF LightStates
<1> HIDE DEF set
<1>8. lights'[c.part] = [lights[c.part] EXCEPT ![c.leds[cell[h]]] = c.colour]
  BY <1>1, <1>4, <1>6, ChangedState
<1>9. ASSUME NEW i \in DOMAIN c.leds
      PROVE  lights'[c.part][c.leds[i]] = c.colour
  <2>1. c.leds[i] \in Leds /\ i \in 1 .. cell[h]
    BY <1>1, <1>2
  <2>2. CASE i = cell[h]
    BY <1>5, <1>7, <1>8, <2>2
  <2>3. CASE i < cell[h]
    <3>1. lights[c.part][c.leds[i]] = c.colour
      BY <1>1, <1>2, <1>3, <2>1, <2>3 DEF CellsInv
    <3> QED
      BY <1>5, <1>7, <1>8, <2>1, <3>1
  <2> QED
    BY <1>1, <1>2, <2>1, <2>2, <2>3
<1> QED
  BY <1>9

\* A commit that is accepted makes the overlay the whole file's.
LEMMA CommitStep ==
    ASSUME Lighting!CommandShape, LightInv, NEW h \in Hosts, Lighting!Commit(h),
           outcomes'[h] = "ok", outcomes[h] = "none"
    PROVE  lights'.overlay = Lighting!Overlay(commands[h].cells)
<1> LightTypes /\ PcInv /\ StagedInv
  BY DEF LightInv
<1> DEFINE cells == commands[h].cells
<1>1. cells \in Seq(Lighting!Cells) /\ hosts_pc[h] = "chunk" /\ cell[h] > Len(cells)
  BY WhoReplaces DEF Lighting!Commit, Lighting!Staged
<1>2. /\ Lighting!Mine(h)
      /\ lights' = Lighting!Changed([lights EXCEPT !.overlay = Lighting!Overlay(staging.cells)])
  BY DEF Lighting!Commit, Lighting!Goto
<1>3. Reached(cell[h], Len(cells)) = Len(cells)
  BY <1>1 DEF Reached, LightTypes, DataTypes
<1>4. staging.cells = cells
  BY <1>1, <1>2, <1>3, SubSeqFull DEF StagedInv, Lighting!Mine
<1>5. Lighting!Overlay(cells) \in [Leds -> Lighting!Shades]
  BY <1>1, OverlayType
<1>6. /\ [lights EXCEPT !.overlay = Lighting!Overlay(cells)] \in LightStates
      /\ [lights EXCEPT !.overlay = Lighting!Overlay(cells)].overlay = Lighting!Overlay(cells)
  BY <1>5 DEF LightTypes, DataTypes, LightStates
<1> QED
  BY <1>2, <1>4, <1>6, ChangedState

\* Success is reported by the step that finishes the command's own kind.
LEMMA SuccessStep ==
    ASSUME Lighting!CommandShape, LightInv, [Lighting!Next]_(Lighting!vars),
           NEW h \in Hosts, outcomes'[h] = "ok", outcomes[h] = "none"
    PROVE  \/ Lighting!SetCell(h) /\ hosts_pc[h] = "cells" /\ commands[h].op = "cells"
           \/ Lighting!Write(h) /\ hosts_pc[h] = commands[h].op
                                /\ commands[h].op \notin {"cells", "replace"}
           \/ Lighting!Commit(h) /\ hosts_pc[h] = "chunk" /\ commands[h].op = "replace"
<1> LightTypes /\ PcInv
  BY DEF LightInv
<1>1. PICK g \in Hosts : Lighting!Step(g)
  BY KeyStep DEF Lighting!host
<1>2. Lighting!Step(h)
  BY <1>1, OthersRest
<1>3. Lighting!SetCell(h) \/ Lighting!Write(h) \/ Lighting!Commit(h)
  BY <1>2, ReportStep
<1>4. CASE Lighting!SetCell(h)
  BY <1>4, WhoReplaces DEF Lighting!SetCell
<1>5. CASE Lighting!Write(h)
  <2>1. commands[h].op \notin {"start", "read", "end", "chunk", "abort"}
    BY DEF LightTypes, ControlTypes, Lighting!CommandShape
  <2>2. hosts_pc[h] \in {"clear", "brightness", "policy", "param", "rewrite"}
    BY <1>5 DEF Lighting!Write
  <2> QED
    BY <1>5, <2>1, <2>2 DEF PcInv
<1>6. CASE Lighting!Commit(h)
  BY <1>6, WhoReplaces DEF Lighting!Commit
<1> QED
  BY <1>3, <1>4, <1>5, <1>6

(***************************************************************************)
(* A `lighting` command that reports success has done the whole of it and  *)
(* undone nothing: the last cell of a list is only accepted at a revision  *)
(* at which the earlier ones still stand, a commit shows exactly the       *)
(* host's file, and setting the brightness or rewriting the rules sends    *)
(* back the values the keyboard still has.  A revision stands for one      *)
(* state of the lighting, which is why the check of it is enough.          *)
(***************************************************************************)
THEOREM LightingSuccessIsExact ==
    ASSUME Lighting!LightingSessionAssumption, Lighting!CommandShape
    PROVE  Lighting!Spec => SuccessIsExact
<1>1. Lighting!Init => LightInv
  BY LightInvInit
<1>2. LightInv /\ [Lighting!Next]_(Lighting!vars) => LightInv'
  BY LightInvStep
<1>3. LightInv /\ [Lighting!Next]_(Lighting!vars) =>
          [\A h \in Hosts : hosts_pc[h] \in {"brightness", "rewrite"}
                           /\ outcomes'[h] = "ok" /\ outcomes[h] = "none"
              => /\ lights'.output = lights.output
                 /\ lights'.background = lights.background
                 /\ lights'.rules = lights.rules]_(Lighting!vars)
  BY SuccessStep, BrightnessStep
<1>4. LightInv /\ [Lighting!Next]_(Lighting!vars) =>
          [\A h \in Hosts : commands[h].op = "cells"
                           /\ outcomes'[h] = "ok" /\ outcomes[h] = "none"
              => \A i \in DOMAIN commands[h].leds :
                    lights'[commands[h].part][commands[h].leds[i]]
                        = commands[h].colour]_(Lighting!vars)
  BY SuccessStep, LastCellStep
<1>5. LightInv /\ [Lighting!Next]_(Lighting!vars) =>
          [\A h \in Hosts : commands[h].op = "replace"
                           /\ outcomes'[h] = "ok" /\ outcomes[h] = "none"
              => lights'.overlay = Lighting!Overlay(commands[h].cells)]_(Lighting!vars)
  BY SuccessStep, CommitStep
<1> QED
  BY <1>1, <1>2, <1>3, <1>4, <1>5, PTL
  DEF Lighting!Spec, SuccessIsExact, Lighting!SuccessIsExact, Lighting!NothingIsUndone,
      Lighting!ReportedCellsAreSet, Lighting!ReplaceIsWhole

-----------------------------------------------------------------------------
(* KeymapSession.                                                          *)

Places == Keymap!Positions
NumPlaces == NumLayers * NumKeys
KeymapTypes ==
    /\ keymap \in [Places -> KeyActions]
    /\ foreign \in Seq((Keymap!Layers \X (0 .. NumKeys)) \X (KeyActions \cup Names))
    /\ command \in KeymapCommands

\* Where the tool is, by its command.
CommandInv ==
    /\ command.op = "set" => keymap_pc \in {"start", "write", "readback", "end"}
    /\ command.op = "read" => keymap_pc \in {"start", "bulk", "each", "end"}
    /\ keymap_pc \in {"start", "end", "write", "readback", "bulk", "each"}
          \/ command.op \notin {"set", "read"}
    /\ keymap_pc \in {"write", "readback"} => command.op = "set"
    /\ keymap_pc \in {"bulk", "each"} => command.op = "read"
    /\ keymap_pc \in {"start", "write", "readback", "bulk", "each"} => result = "none"

\* The first n entries hold what they ask for in the keymap k, but for those
\* a later one of them, the other host or a write under way has replaced.
Holds(wanted, k, touched, n, writing) ==
    \A i \in 1 .. n :
        \/ \E j \in i + 1 .. n : Keymap!Position(wanted[j]) = Keymap!Position(wanted[i])
        \/ Keymap!Position(wanted[i]) \in touched \cup writing
        \/ k[Keymap!Position(wanted[i])] = wanted[i].action

SetInv ==
    command.op = "set" =>
        /\ keymap_pc = "start" => at = 1
        /\ keymap_pc \in {"write", "readback"} =>
              /\ at \in 1 .. Len(command.entries)
              /\ Keymap!AllValid(command.entries)
        /\ keymap_pc = "write" =>
              Holds(command.entries, keymap, Keymap!Touched, at - 1, {})
        /\ keymap_pc = "readback" =>
              Holds(command.entries, keymap, Keymap!Touched, at - 1,
                    {Keymap!Position(command.entries[at])})
        /\ result = "ok" =>
              /\ Keymap!AllValid(command.entries)
              /\ Holds(command.entries, keymap, Keymap!Touched, Len(command.entries), {})

\* What has been read of the first n keys is what they hold.
Reads(read, k, touched, n) ==
    /\ read \in Seq(KeyActions) /\ Len(read) = n
    /\ \A i \in 1 .. n : Keymap!Flat[i] \in touched \/ read[i] = k[Keymap!Flat[i]]

ReadInv ==
    command.op = "read" =>
        /\ keymap_pc \in {"start", "bulk"} => at = 1 /\ actions = <<>>
        /\ keymap_pc = "each" =>
              at \in 1 .. NumPlaces /\ Reads(actions, keymap, Keymap!Touched, at - 1)
        /\ result = "ok" => Reads(actions, keymap, Keymap!Touched, NumPlaces)

KeymapInv == KeymapTypes /\ CommandInv /\ SetInv /\ ReadInv

\* The keys in reading order.
LEMMA FlatPlaces ==
    ASSUME Keymap!SessionAssumption
    PROVE  /\ NumPlaces \in Nat \ {0}
           /\ Keymap!Flat \in Seq(Places) /\ Len(Keymap!Flat) = NumPlaces
<1>1. NumLayers \in Nat /\ NumLayers >= 1 /\ NumKeys \in Nat /\ NumKeys >= 1
  BY DEF Keymap!SessionAssumption
<1>2. NumPlaces \in Nat \ {0}
  BY <1>1 DEF NumPlaces
<1>3. ASSUME NEW i \in 1 .. NumPlaces
      PROVE  <<(i - 1) \div NumKeys, (i - 1) % NumKeys>> \in Places
  <2> DEFINE layer == (i - 1) \div NumKeys
             column == (i - 1) % NumKeys
  <2>1. layer \in Int /\ column \in 0 .. NumKeys - 1 /\ i - 1 = NumKeys * layer + column
    BY <1>1, <1>2
  <2> HIDE DEF layer, column
  <2>2. layer >= 0
    <3>1. CASE layer <= -1
      <4>1. NumKeys * layer <= - NumKeys
        BY <1>1, <2>1, <3>1
      <4> QED
        BY <1>1, <1>2, <2>1, <4>1
    <3> QED
      BY <2>1, <3>1
  <2>3. layer <= NumLayers - 1
    <3>1. CASE layer >= NumLayers
      <4>1. NumKeys * layer >= NumKeys * NumLayers
        BY <1>1, <2>1, <3>1
      <4> QED
        BY <1>1, <1>2, <2>1, <4>1 DEF NumPlaces
    <3> QED
      BY <1>1, <2>1, <3>1
  <2>4. layer \in Keymap!Layers /\ column \in Keymap!Keys
    BY <1>1, <2>1, <2>2, <2>3 DEF Keymap!Layers, Keymap!Keys
  <2> QED
    BY <2>4 DEF Places, Keymap!Positions, layer, column
<1>4. Keymap!Flat \in [1 .. NumPlaces -> Places]
  BY <1>3 DEF Keymap!Flat, NumPlaces
<1> QED
  BY <1>2, <1>4

\* A key that changes under the tool counts as touched.
Covers(k, touched, k2, touched2) ==
    /\ touched \subseteq touched2
    /\ \A p \in Places : k2[p] = k[p] \/ p \in touched2

\* What holds of the entries still holds when every change counts as touched.
LEMMA HoldsStill ==
    ASSUME NEW wanted \in Seq(Keymap!Entries), Keymap!AllValid(wanted),
           NEW k, NEW touched, NEW k2, NEW touched2, Covers(k, touched, k2, touched2),
           NEW n \in 0 .. Len(wanted), NEW writing, Holds(wanted, k, touched, n, writing)
    PROVE  Holds(wanted, k2, touched2, n, writing)
<1>1. \A i \in 1 .. n : Keymap!Position(wanted[i]) \in Places
  BY DEF Keymap!AllValid, Keymap!Position, Places, Keymap!Positions
<1> QED
  BY <1>1 DEF Holds, Covers

\* ... and so does what has been read.
LEMMA ReadsStill ==
    ASSUME Keymap!SessionAssumption, NEW read, NEW k, NEW touched, NEW k2, NEW touched2,
           Covers(k, touched, k2, touched2),
           NEW n \in 0 .. NumPlaces, Reads(read, k, touched, n)
    PROVE  Reads(read, k2, touched2, n)
<1>1. \A i \in 1 .. n : Keymap!Flat[i] \in Places
  BY FlatPlaces
<1> QED
  BY <1>1 DEF Reads, Covers

\* What the other host changes counts as touched.
LEMMA OtherHostCovers ==
    ASSUME Keymap!SessionAssumption, KeymapTypes, Keymap!OtherHost
    PROVE  KeymapTypes' /\ Covers(keymap, Keymap!Touched, keymap', Keymap!Touched')
<1> DEFINE Changes == (Keymap!Layers \X (0 .. NumKeys)) \X (KeyActions \cup Names)
<1>1. foreign \in Seq(Changes) /\ command' = command
  BY DEF KeymapTypes, Keymap!OtherHost, Keymap!tool
<1>2. ASSUME NEW x \in Changes, foreign' = Append(foreign, x)
      PROVE  /\ foreign' \in Seq(Changes)
             /\ Keymap!Touched \subseteq Keymap!Touched' /\ x[1] \in Keymap!Touched'
  <2> HIDE DEF Changes
  <2>1. /\ foreign' \in Seq(Changes) /\ Len(foreign') = Len(foreign) + 1
        /\ \A i \in 1 .. Len(foreign) : foreign'[i] = foreign[i]
        /\ foreign'[Len(foreign) + 1] = x
    BY <1>1, <1>2, AppendProperties
  <2>2. /\ DOMAIN foreign = 1 .. Len(foreign) /\ DOMAIN foreign' = 1 .. Len(foreign) + 1
        /\ Len(foreign) \in Nat
    BY <1>1, <2>1
  <2> QED
    BY <2>1, <2>2 DEF Keymap!Touched
<1>3. CASE \E pos \in Places, a \in KeyActions :
              Keymap!SetKey(pos, a) /\ foreign' = Append(foreign, <<pos, a>>)
  <2>1. PICK pos \in Places, a \in KeyActions :
            keymap' = [keymap EXCEPT ![pos] = a] /\ foreign' = Append(foreign, <<pos, a>>)
    BY <1>3 DEF Keymap!SetKey
  <2>2. <<pos, a>> \in Changes
    <3>1. NumKeys \in Nat
      BY DEF Keymap!SessionAssumption
    <3> QED
      BY <3>1 DEF Places, Keymap!Positions, Keymap!Keys
  <2>3. /\ foreign' \in Seq(Changes) /\ Keymap!Touched \subseteq Keymap!Touched'
        /\ pos \in Keymap!Touched'
    BY <1>2, <2>1, <2>2
  <2>4. keymap' \in [Places -> KeyActions] /\ \A p \in Places : p # pos => keymap'[p] = keymap[p]
    BY <2>1 DEF KeymapTypes
  <2> QED
    BY <1>1, <2>3, <2>4 DEF KeymapTypes, Covers
<1>4. CASE \E n \in Names : Keymap!SetName(0, n)
                            /\ foreign' = Append(foreign, <<Keymap!NameOf(0), n>>)
  <2>1. PICK n \in Names : keymap' = keymap /\ foreign' = Append(foreign, <<Keymap!NameOf(0), n>>)
    BY <1>4 DEF Keymap!SetName
  <2>2. <<Keymap!NameOf(0), n>> \in Changes
    BY DEF Keymap!SessionAssumption, Keymap!NameOf, Keymap!Layers
  <2>3. foreign' \in Seq(Changes) /\ Keymap!Touched \subseteq Keymap!Touched'
    BY <1>2, <2>1, <2>2
  <2> QED
    BY <1>1, <2>1, <2>3 DEF KeymapTypes, Covers
<1> QED
  BY <1>3, <1>4 DEF Keymap!OtherHost, Places

\* A later entry for the same position takes the place of an earlier one.
LEMMA WrittenHolds ==
    ASSUME NEW wanted \in Seq(Keymap!Entries), NEW k, NEW touched, NEW n \in 1 .. Len(wanted),
           Holds(wanted, k, touched, n - 1, {Keymap!Position(wanted[n])}),
           k[Keymap!Position(wanted[n])] = wanted[n].action
    PROVE  Holds(wanted, k, touched, n, {})
<1> SUFFICES ASSUME NEW i \in 1 .. n
             PROVE  \/ \E j \in i + 1 .. n :
                            Keymap!Position(wanted[j]) = Keymap!Position(wanted[i])
                    \/ Keymap!Position(wanted[i]) \in touched
                    \/ k[Keymap!Position(wanted[i])] = wanted[i].action
  BY DEF Holds
<1>1. CASE i = n
  BY <1>1
<1>2. CASE i # n /\ Keymap!Position(wanted[i]) = Keymap!Position(wanted[n])
  BY <1>2
<1>3. CASE i # n /\ Keymap!Position(wanted[i]) # Keymap!Position(wanted[n])
  <2>1. i \in 1 .. n - 1 /\ i + 1 .. n - 1 \subseteq i + 1 .. n
    BY <1>3
  <2> QED
    BY <1>3, <2>1 DEF Holds
<1> QED
  BY <1>1, <1>2, <1>3

\* A step that keeps the tool where it is, or ends it without success, while
\* the keymap changes at most where the other host has touched it.
LEMMA RestStep ==
    ASSUME Keymap!SessionAssumption, Keymap!CommandShape, KeymapInv, KeymapTypes',
           Covers(keymap, Keymap!Touched, keymap', Keymap!Touched'),
           UNCHANGED <<command, at, actions>>,
           \/ UNCHANGED <<keymap_pc, result>>
           \/ keymap_pc' = "end" /\ result' # "ok"
    PROVE  KeymapInv'
<1> KeymapTypes /\ CommandInv /\ SetInv /\ ReadInv
  BY DEF KeymapInv
<1>1. CASE keymap_pc' = "end" /\ result' # "ok"
  BY <1>1 DEF KeymapInv, CommandInv, SetInv, ReadInv
<1>2. CASE UNCHANGED <<keymap_pc, result>>
  <2>1. CommandInv'
    BY <1>2 DEF CommandInv
  <2>2. ASSUME command.op = "set"
        PROVE  SetInv'
    <3> DEFINE wanted == command.entries
    <3>1. wanted \in Seq(Keymap!Entries)
      BY <2>2 DEF KeymapTypes, Keymap!CommandShape
    <3>2. CASE keymap_pc = "write"
      <4>1. at - 1 \in 0 .. Len(wanted) /\ result # "ok"
        BY <2>2, <3>1, <3>2 DEF SetInv, CommandInv
      <4>2. Holds(wanted, keymap', Keymap!Touched', at - 1, {})
        BY <2>2, <3>1, <3>2, <4>1, HoldsStill DEF SetInv
      <4> QED
        BY <1>2, <2>2, <3>2, <4>1, <4>2 DEF SetInv
    <3>3. CASE keymap_pc = "readback"
      <4>1. at - 1 \in 0 .. Len(wanted) /\ result # "ok"
        BY <2>2, <3>1, <3>3 DEF SetInv, CommandInv
      <4>2. Holds(wanted, keymap', Keymap!Touched', at - 1, {Keymap!Position(wanted[at])})
        BY <2>2, <3>1, <3>3, <4>1, HoldsStill DEF SetInv
      <4> QED
        BY <1>2, <2>2, <3>3, <4>1, <4>2 DEF SetInv
    <3>4. CASE keymap_pc \notin {"write", "readback"} /\ result = "ok"
      <4>1. Len(wanted) \in 0 .. Len(wanted)
        BY <3>1
      <4>2. Holds(wanted, keymap', Keymap!Touched', Len(wanted), {})
        BY <2>2, <3>1, <3>4, <4>1, HoldsStill DEF SetInv
      <4> QED
        BY <1>2, <2>2, <3>4, <4>2 DEF SetInv
    <3>5. CASE keymap_pc \notin {"write", "readback"} /\ result # "ok"
      BY <1>2, <3>5 DEF SetInv
    <3> QED
      BY <3>2, <3>3, <3>4, <3>5
  <2>3. ASSUME command.op = "read"
        PROVE  ReadInv'
    <3>1. NumPlaces \in Nat \ {0} /\ NumPlaces' = NumPlaces
      BY FlatPlaces DEF NumPlaces
    <3>2. CASE keymap_pc = "each"
      <4>1. at - 1 \in 0 .. NumPlaces /\ result # "ok"
        BY <2>3, <3>1, <3>2 DEF ReadInv, CommandInv
      <4>2. Reads(actions, keymap', Keymap!Touched', at - 1)
        BY <2>3, <3>2, <4>1, ReadsStill DEF ReadInv
      <4> QED
        BY <1>2, <2>3, <3>1, <3>2, <4>1, <4>2 DEF ReadInv
    <3>3. CASE keymap_pc # "each" /\ result = "ok"
      <4>1. NumPlaces \in 0 .. NumPlaces
        BY <3>1
      <4>2. Reads(actions, keymap', Keymap!Touched', NumPlaces)
        BY <2>3, <3>3, <4>1, ReadsStill DEF ReadInv
      <4> QED
        BY <1>2, <2>3, <3>1, <3>3, <4>2 DEF ReadInv
    <3>4. CASE keymap_pc # "each" /\ result # "ok"
      BY <1>2, <3>4 DEF ReadInv
    <3> QED
      BY <3>2, <3>3, <3>4
  <2>4. SetInv' /\ ReadInv'
    BY <2>2, <2>3 DEF SetInv, ReadInv
  <2> QED
    BY <2>1, <2>4 DEF KeymapInv
<1> QED
  BY <1>1, <1>2

\* The other commands neither set a list of keys nor read the keymap.
LEMMA OtherCommandStep ==
    ASSUME KeymapInv, KeymapTypes', command' = command, command.op \notin {"set", "read"},
           keymap_pc' \notin {"write", "readback", "bulk", "each"},
           keymap_pc' = "start" => result' = "none"
    PROVE  KeymapInv'
BY DEF KeymapInv, CommandInv, SetInv, ReadInv

\* Every step of the tool, of the keyboard and of the other host keeps it.
LEMMA KeymapStep ==
    ASSUME Keymap!SessionAssumption, Keymap!CommandShape, KeymapInv,
           [Keymap!Next]_(Keymap!vars)
    PROVE  KeymapInv'
<1> KeymapTypes /\ CommandInv /\ SetInv /\ ReadInv
  BY DEF KeymapInv
<1>0. ASSUME UNCHANGED <<keymap, foreign>>
      PROVE  /\ Covers(keymap, Keymap!Touched, keymap', Keymap!Touched')
             /\ command' = command => KeymapTypes'
  BY <1>0 DEF Covers, Keymap!Touched, KeymapTypes
<1>1. CASE Keymap!Start
  <2>0. UNCHANGED <<keymap, foreign, command, at, actions>> /\ keymap_pc = "start"
    BY <1>1 DEF Keymap!Start, Keymap!keyboard
  <2>1. CASE keymap_pc' = "end" /\ result' # "ok"
    BY <1>0, <2>0, <2>1, RestStep
  <2>2. CASE command.op = "set" /\ Keymap!AllValid(command.entries)
             /\ keymap_pc' = "write" /\ result' = result
    <3>1. command.entries \in Seq(Keymap!Entries) /\ command.entries # <<>>
      BY <2>2 DEF KeymapTypes, Keymap!CommandShape
    <3>2. at = 1 /\ 1 \in 1 .. Len(command.entries) /\ result # "ok"
      BY <2>0, <2>2, <3>1 DEF SetInv, CommandInv
    <3>3. Holds(command.entries, keymap', Keymap!Touched', at - 1, {})
      BY <3>2 DEF Holds
    <3> QED
      BY <1>0, <2>0, <2>2, <3>2, <3>3 DEF KeymapInv, CommandInv, SetInv, ReadInv
  <2>3. CASE command.op = "read" /\ keymap_pc' \in {"bulk", "each"} /\ result' = result
    <3>1. at = 1 /\ actions = <<>> /\ result # "ok" /\ result = "none"
      BY <2>0, <2>3 DEF ReadInv, CommandInv
    <3>2. 1 \in 1 .. NumPlaces /\ NumPlaces' = NumPlaces
      BY FlatPlaces DEF NumPlaces
    <3>3. Reads(actions, keymap', Keymap!Touched', at - 1)
      BY <3>1 DEF Reads
    <3> QED
      BY <1>0, <2>0, <2>3, <3>1, <3>2, <3>3 DEF KeymapInv, CommandInv, SetInv, ReadInv
  <2>4. CASE command.op \notin {"set", "read"} /\ keymap_pc' = command.op
    <3>1. keymap_pc' \notin {"start", "write", "readback", "bulk", "each"}
      BY <2>4 DEF KeymapTypes, Keymap!CommandShape
    <3> QED
      BY <1>0, <2>0, <2>4, <3>1, OtherCommandStep
  <2> QED
    <3>1. \/ keymap_pc' = "end" /\ result' \in {"locked", "invalid"}
          \/ /\ ~ (command.op = "set" /\ keymap_unlocked /\ ~ Keymap!AllValid(command.entries))
             /\ ~ (Keymap!Mutates(command) /\ ~ keymap_unlocked)
             /\ keymap_pc' = CASE command.op = "set" -> "write"
                              [] command.op = "read" -> IF BulkTransfer THEN "bulk" ELSE "each"
                              [] OTHER -> command.op
             /\ result' = result
      BY <1>1 DEF Keymap!Start, Keymap!End
    <3> QED
      BY <2>1, <2>2, <2>3, <2>4, <3>1 DEF Keymap!Mutates
<1>2. CASE Keymap!WriteEntry
  <2>0. UNCHANGED <<command, at, actions>> /\ keymap_pc = "write" /\ command.op = "set"
    BY <1>2 DEF Keymap!WriteEntry, CommandInv
  <2>1. CASE Keymap!Rejected
    <3>1. UNCHANGED <<keymap, foreign>> /\ keymap_pc' = "end" /\ result' # "ok"
      BY <1>2, <2>1 DEF Keymap!WriteEntry, Keymap!End, Keymap!keyboard
    <3> QED
      BY <1>0, <2>0, <3>1, RestStep
  <2>2. CASE ~ Keymap!Rejected
    <3> DEFINE wanted == command.entries
               pos == Keymap!Position(wanted[at])
    <3>1. PICK a \in KeyActions \cup {wanted[at].action} : keymap' = [keymap EXCEPT ![pos] = a]
      BY <1>2, <2>2 DEF Keymap!WriteEntry, Keymap!SetKey
    <3>2. UNCHANGED <<foreign, result>> /\ keymap_pc' = "readback"
      BY <1>2, <2>2 DEF Keymap!WriteEntry
    <3>3. /\ wanted \in Seq(Keymap!Entries) /\ at \in 1 .. Len(wanted) /\ Keymap!AllValid(wanted)
          /\ Holds(wanted, keymap, Keymap!Touched, at - 1, {})
          /\ result = "none"
      BY <2>0 DEF SetInv, CommandInv, KeymapTypes, Keymap!CommandShape
    <3>4. a \in KeyActions
      <4>1. wanted[at] \in Keymap!Entries /\ wanted[at].action # Keymap!Unfaithful
        BY <3>3 DEF Keymap!AllValid
      <4>2. wanted[at].action \in KeyActions
        BY <4>1 DEF Keymap!Entries
      <4> QED
        BY <3>1, <4>2
    <3>5. \A i \in 1 .. at - 1 : Keymap!Position(wanted[i]) \in Places
      BY <3>3 DEF Keymap!AllValid, Keymap!Position, Places, Keymap!Positions
    <3>6. keymap' \in [Places -> KeyActions] /\ \A p \in Places : p # pos => keymap'[p] = keymap[p]
      BY <3>1, <3>4 DEF KeymapTypes
    <3>7. Keymap!Touched' = Keymap!Touched
      BY <3>2 DEF Keymap!Touched
    <3> HIDE DEF pos
    <3>8. Holds(wanted, keymap', Keymap!Touched', at - 1, {pos})
      BY <3>3, <3>5, <3>6, <3>7 DEF Holds
    <3>9. KeymapTypes'
      BY <2>0, <3>2, <3>6 DEF KeymapTypes
    <3> QED
      BY <2>0, <3>2, <3>3, <3>8, <3>9 DEF pos, KeymapInv, CommandInv, SetInv, ReadInv
  <2> QED
    BY <2>1, <2>2
<1>3. CASE Keymap!ReadBack
  <2> DEFINE wanted == command.entries
  <2>0. /\ UNCHANGED <<keymap, foreign, command, actions>>
        /\ keymap_pc = "readback" /\ command.op = "set" /\ result = "none"
    BY <1>3 DEF Keymap!ReadBack, Keymap!keyboard, CommandInv
  <2>1. /\ wanted \in Seq(Keymap!Entries) /\ at \in 1 .. Len(wanted) /\ Keymap!AllValid(wanted)
        /\ Holds(wanted, keymap, Keymap!Touched, at - 1, {Keymap!Position(wanted[at])})
    BY <2>0 DEF SetInv, KeymapTypes, Keymap!CommandShape
  <2>2. KeymapTypes' /\ Keymap!Touched' = Keymap!Touched
    BY <1>0, <2>0 DEF Keymap!Touched
  <2>3. CASE ~ Keymap!Stored(Keymap!Position(wanted[at]), wanted[at].action)
    <3>1. keymap_pc' = "end" /\ result' # "ok" /\ at' = at
      BY <1>3, <2>3 DEF Keymap!ReadBack, Keymap!End
    <3> QED
      BY <1>0, <2>0, <3>1, RestStep
  <2>4. CASE Keymap!Stored(Keymap!Position(wanted[at]), wanted[at].action)
    <3>1. Holds(wanted, keymap, Keymap!Touched, at, {})
      BY <2>1, <2>4, WrittenHolds DEF Keymap!Stored
    <3>2. CASE at = Len(wanted)
      <4>1. keymap_pc' = "end" /\ result' = "ok" /\ at' = at
        BY <1>3, <2>4, <3>2 DEF Keymap!ReadBack, Keymap!End
      <4> QED
        BY <2>0, <2>1, <2>2, <3>1, <3>2, <4>1 DEF KeymapInv, CommandInv, SetInv, ReadInv
    <3>3. CASE at # Len(wanted)
      <4>1. keymap_pc' = "write" /\ result' = result /\ at' = at + 1
        BY <1>3, <2>4, <3>3 DEF Keymap!ReadBack
      <4>2. at' - 1 = at /\ at' \in 1 .. Len(wanted)
        BY <2>1, <3>3, <4>1
      <4> QED
        BY <2>0, <2>1, <2>2, <3>1, <4>1, <4>2 DEF KeymapInv, CommandInv, SetInv, ReadInv
    <3> QED
      BY <3>2, <3>3
  <2> QED
    BY <2>3, <2>4
<1>4. CASE Keymap!BulkRead
  <2> DEFINE all == [i \in DOMAIN Keymap!Flat |-> keymap[Keymap!Flat[i]]]
  <2>0. /\ UNCHANGED <<keymap, foreign, command, at>>
        /\ keymap_pc = "bulk" /\ command.op = "read" /\ result = "none"
        /\ at = 1 /\ actions = <<>>
    BY <1>4 DEF Keymap!BulkRead, Keymap!keyboard, CommandInv, ReadInv
  <2>1. /\ NumPlaces \in Nat \ {0} /\ NumPlaces' = NumPlaces
        /\ Keymap!Flat \in Seq(Places) /\ Len(Keymap!Flat) = NumPlaces
    BY FlatPlaces DEF NumPlaces
  <2>2. /\ all \in Seq(KeyActions) /\ Len(all) = NumPlaces
        /\ \A i \in 1 .. NumPlaces : all[i] = keymap[Keymap!Flat[i]]
    BY <2>1 DEF KeymapTypes
  <2>3. KeymapTypes' /\ Keymap!Touched' = Keymap!Touched
    BY <1>0, <2>0 DEF Keymap!Touched
  <2>4. PICK n \in 0 .. NumPlaces :
            IF Len(SubSeq(all, 1, n)) = NumPlaces
            THEN keymap_pc' = "end" /\ result' = "ok" /\ actions' = SubSeq(all, 1, n)
            ELSE keymap_pc' = "each" /\ UNCHANGED <<actions, result>>
    BY <1>4 DEF Keymap!BulkRead, Keymap!check_action_count, Keymap!End, NumPlaces
  <2> HIDE DEF all
  <2>5. CASE Len(SubSeq(all, 1, n)) = NumPlaces
    <3>1. \A i \in 1 .. n : all[i] \in KeyActions
      BY <2>1, <2>2
    <3>2. n = NumPlaces
      BY <2>1, <2>5, <3>1, SubSeqProperties
    <3>3. actions' = all
      BY <2>2, <2>4, <2>5, <3>2, SubSeqFull
    <3>4. Reads(actions', keymap', Keymap!Touched', NumPlaces')
      BY <2>0, <2>1, <2>2, <3>3 DEF Reads
    <3> QED
      BY <2>0, <2>3, <2>4, <2>5, <3>4 DEF KeymapInv, CommandInv, SetInv, ReadInv
  <2>6. CASE Len(SubSeq(all, 1, n)) # NumPlaces
    <3>1. Reads(actions', keymap', Keymap!Touched', at' - 1)
      BY <2>0, <2>4, <2>6 DEF Reads
    <3>2. at' \in 1 .. NumPlaces'
      BY <2>0, <2>1
    <3> QED
      BY <2>0, <2>3, <2>4, <2>6, <3>1, <3>2 DEF KeymapInv, CommandInv, SetInv, ReadInv
  <2> QED
    BY <2>5, <2>6
<1>5. CASE Keymap!ReadKey
  <2>0. /\ UNCHANGED <<keymap, foreign, command>>
        /\ keymap_pc = "each" /\ command.op = "read" /\ result = "none"
        /\ at' = at + 1 /\ actions' = Append(actions, keymap[Keymap!Flat[at]])
    BY <1>5 DEF Keymap!ReadKey, Keymap!keyboard, CommandInv
  <2>1. /\ NumPlaces \in Nat \ {0} /\ NumPlaces' = NumPlaces
        /\ Keymap!Flat \in Seq(Places) /\ Len(Keymap!Flat) = NumPlaces
    BY FlatPlaces DEF NumPlaces
  <2>2. at \in 1 .. NumPlaces /\ Reads(actions, keymap, Keymap!Touched, at - 1)
    BY <2>0 DEF ReadInv
  <2>3. KeymapTypes' /\ Keymap!Touched' = Keymap!Touched
    BY <1>0, <2>0 DEF Keymap!Touched
  <2>4. keymap[Keymap!Flat[at]] \in KeyActions
    BY <2>1, <2>2 DEF KeymapTypes
  <2>5. /\ actions' \in Seq(KeyActions) /\ Len(actions') = at
        /\ \A i \in 1 .. at - 1 : actions'[i] = actions[i]
        /\ actions'[at] = keymap[Keymap!Flat[at]]
    BY <2>0, <2>2, <2>4, AppendProperties DEF Reads
  <2>6. Reads(actions', keymap', Keymap!Touched', at)
    <3>1. SUFFICES ASSUME NEW i \in 1 .. at
                   PROVE  \/ Keymap!Flat[i] \in Keymap!Touched
                          \/ actions'[i] = keymap[Keymap!Flat[i]]
      BY <2>0, <2>3, <2>5 DEF Reads
    <3>2. CASE i = at
      BY <2>5, <3>2
    <3>3. CASE i \in 1 .. at - 1
      BY <2>2, <2>5, <3>3 DEF Reads
    <3> QED
      BY <2>2, <3>2, <3>3
  <2>7. CASE at = NumPlaces
    <3>1. keymap_pc' = "end" /\ result' = "ok"
      BY <1>5, <2>1, <2>7 DEF Keymap!ReadKey, Keymap!End
    <3> QED
      BY <2>0, <2>1, <2>3, <2>6, <2>7, <3>1 DEF KeymapInv, CommandInv, SetInv, ReadInv
  <2>8. CASE at # NumPlaces
    <3>1. keymap_pc' = keymap_pc /\ result' = result
      BY <1>5, <2>1, <2>8 DEF Keymap!ReadKey
    <3>2. at' \in 1 .. NumPlaces' /\ at' - 1 = at
      BY <2>0, <2>1, <2>2, <2>8
    <3> QED
      BY <2>0, <2>3, <2>6, <3>1, <3>2 DEF KeymapInv, CommandInv, SetInv, ReadInv
  <2> QED
    BY <2>7, <2>8
<1>6. CASE Keymap!OtherHost
  <2>1. UNCHANGED <<command, at, actions, keymap_pc, result>>
    BY <1>6 DEF Keymap!OtherHost, Keymap!tool
  <2> QED
    BY <1>6, <2>1, OtherHostCovers, RestStep
<1>7. CASE Keymap!Save \/ Keymap!ToggleMaintenance \/ UNCHANGED Keymap!vars
  <2>1. UNCHANGED <<keymap, foreign, command, at, actions, keymap_pc, result>>
    BY <1>7 DEF Keymap!Save, Keymap!ToggleMaintenance, Keymap!vars, Keymap!tool,
                Keymap!keyboard
  <2> QED
    BY <1>0, <2>1, RestStep
<1>8. CASE \/ Keymap!SetDefault \/ Keymap!ReadName \/ Keymap!Rename \/ Keymap!PrintNames
           \/ Keymap!ProbeBaseline \/ Keymap!ProbeDrain \/ Keymap!ProbeWrite
           \/ Keymap!ProbePersist
  <2>1. UNCHANGED <<keymap, foreign, command>>
    BY <1>8 DEF Keymap!SetDefault, Keymap!ReadName, Keymap!Rename, Keymap!PrintNames,
       Keymap!ProbeBaseline, Keymap!ProbeDrain, Keymap!ProbeWrite, Keymap!ProbePersist,
       Keymap!SetName, Keymap!keyboard
  <2>2. keymap_pc \in {"default", "name", "rename", "names", "probe", "probe writes", "drain",
                       "probe write", "probe persist"}
    BY <1>8 DEF Keymap!SetDefault, Keymap!ReadName, Keymap!Rename, Keymap!PrintNames,
       Keymap!ProbeBaseline, Keymap!ProbeDrain, Keymap!ProbeWrite, Keymap!ProbePersist
  <2>3. keymap_pc' \in {keymap_pc, "end", "rename", "names", "drain", "probe write", "probe persist"}
    BY <1>8 DEF Keymap!SetDefault, Keymap!ReadName, Keymap!Rename, Keymap!PrintNames,
       Keymap!ProbeBaseline, Keymap!ProbeDrain, Keymap!ProbeWrite, Keymap!ProbePersist,
       Keymap!End
  <2> QED
    BY <1>0, <2>1, <2>2, <2>3, OtherCommandStep DEF CommandInv
<1> QED
  BY <1>1, <1>2, <1>3, <1>4, <1>5, <1>6, <1>7, <1>8 DEF Keymap!Next

\* The last of the entries for a position.
LEMMA LastEntry ==
    ASSUME NEW n \in Nat, NEW S \in SUBSET (1 .. n), S # {}
    PROVE  Keymap!Max(S) \in S /\ \A i \in S : i <= Keymap!Max(S)
<1> DEFINE Back == {n - i : i \in S}
<1>1. Back \in SUBSET Nat /\ Back # {}
  <2>1. PICK i \in S : TRUE
    OBVIOUS
  <2>2. n - i \in Back
    BY <2>1
  <2> QED
    BY <2>2
<1> HIDE DEF Back
<1>2. PICK least \in Back : \A other \in Back : least <= other
  BY <1>1, LeastNatural
<1> USE DEF Back
<1>3. PICK last \in S : least = n - last
  BY <1>2
<1>4. ASSUME NEW i \in S
      PROVE  last >= i
  <2>1. n - last <= n - i
    BY <1>2, <1>3
  <2> QED
    BY <2>1
<1>5. \E x \in S : \A y \in S : x >= y
  BY <1>4
<1>6. Keymap!Max(S) \in S /\ \A y \in S : Keymap!Max(S) >= y
  BY <1>5 DEF Keymap!Max
<1> QED
  BY <1>6

(***************************************************************************)
(* `keymap set` and `keymap read` report the truth, for every keymap, list *)
(* of entries and number of layers and keys: what was set is what the last *)
(* entry for a position asked for, and what was read is what the key       *)
(* holds, but for the positions another host changed meanwhile. The        *)
(* read-back of each entry is what makes it so: the invariant says it of   *)
(* the entries already read back.                                          *)
(***************************************************************************)
THEOREM KeymapReportsTheTruth ==
    ASSUME Keymap!SessionAssumption, Keymap!CommandShape
    PROVE  Keymap!Spec => []KeymapReportIsTrue
<1>1. Keymap!Init => KeymapInv
  BY DEF Keymap!Init, KeymapInv, KeymapTypes, CommandInv, SetInv, ReadInv, Places
<1>2. KeymapInv /\ [Keymap!Next]_(Keymap!vars) => KeymapInv'
  BY KeymapStep
<1>3. KeymapInv => Keymap!KeymapReportIsTrue
  <2> SUFFICES ASSUME KeymapInv, result = "ok"
               PROVE  Keymap!KeymapReportIsTrue
    BY DEF Keymap!KeymapReportIsTrue, Keymap!SetIsComplete, Keymap!ReadIsAligned
  <2> DEFINE wanted == command.entries
             Same(i) == {j \in DOMAIN wanted :
                            Keymap!Position(wanted[j]) = Keymap!Position(wanted[i])}
  <2>1. ASSUME command.op = "set", NEW i \in DOMAIN wanted
        PROVE  \/ Keymap!Position(wanted[i]) \in Keymap!Touched
               \/ keymap[Keymap!Position(wanted[i])] = wanted[Keymap!Max(Same(i))].action
    <3>1. wanted \in Seq(Keymap!Entries) /\ Holds(wanted, keymap, Keymap!Touched, Len(wanted), {})
      BY <2>1 DEF KeymapInv, SetInv, KeymapTypes, Keymap!CommandShape
    <3> DEFINE last == Keymap!Max(Same(i))
    <3>2. last \in Same(i) /\ \A j \in Same(i) : j <= last
      <4>1. Len(wanted) \in Nat /\ Same(i) \in SUBSET (1 .. Len(wanted)) /\ i \in Same(i)
        BY <2>1, <3>1
      <4> HIDE DEF Same
      <4> QED
        BY <4>1, LastEntry
    <3>3. /\ last \in 1 .. Len(wanted)
          /\ Keymap!Position(wanted[last]) = Keymap!Position(wanted[i])
      BY <3>1, <3>2
    <3>4. \A j \in last + 1 .. Len(wanted) :
              Keymap!Position(wanted[j]) # Keymap!Position(wanted[last])
      <4> SUFFICES ASSUME NEW j \in last + 1 .. Len(wanted), j \in Same(i)
                   PROVE  FALSE
        BY <3>1, <3>3
      <4>1. j <= last
        BY <3>2
      <4> HIDE DEF last
      <4> QED
        BY <3>1, <3>3, <4>1
    <3> HIDE DEF last
    <3> QED
      BY <3>1, <3>3, <3>4 DEF Holds, last
  <2>2. Keymap!SetIsComplete
    BY <2>1 DEF Keymap!SetIsComplete
  <2>3. Keymap!ReadIsAligned
    <3>1. Keymap!Flat \in Seq(Places) /\ Len(Keymap!Flat) = NumPlaces
      BY FlatPlaces
    <3> QED
      BY <3>1 DEF Keymap!ReadIsAligned, KeymapInv, ReadInv, Reads
  <2> QED
    BY <2>2, <2>3 DEF Keymap!KeymapReportIsTrue
<1> QED
  BY <1>1, <1>2, <1>3, PTL DEF Keymap!Spec, KeymapReportIsTrue

-----------------------------------------------------------------------------
(* ConditionalRules.                                                       *)

\* What the keyboard holds is the whole rule, in the form its firmware speaks.
HeldIsTheRule ==
    held # {} => /\ held = {Rules!Encoded(Rules!Form(features), rule)}
                 /\ Rules!Encodes(Rules!Form(features), rule)

RuleInv ==
    /\ rule \in Rules!Rules
    /\ HeldIsTheRule
    /\ rules_pc \notin {"file", "invalid"} => Rules!validate_conditional_scene(rule)
    /\ rules_pc \in {"keymap", "rules"} => Rules!require_conditions_capability(rule)
    /\ rules_pc = "verify" => held # {}
    /\ Rules!LateRefusalsAreOldFirmware
    /\ Rules!CanonicalRulesVerify

\* What the capability check has let through, the firmware's own form can
\* carry, unless it is the oldest.
LEMMA CheckedRuleEncodes ==
    ASSUME Rules!RulesAssumption, rule \in Rules!Rules,
           Rules!validate_conditional_scene(rule),
           Rules!require_conditions_capability(rule),
           Rules!Form(features) # "none", ~ Rules!Encodes(Rules!Form(features), rule)
    PROVE  Rules!Form(features) = "legacy" /\ rule.gates \cap Rules!ExtendedPredicates # {}
<1> DEFINE form == Rules!Form(features)
<1>1. ~ (rule.gates \subseteq Rules!Carries(form))
  BY DEF Rules!Encodes
<1>2. rule.gates \subseteq Rules!AllPredicates
  BY DEF Rules!Rules, Rules!RulesAssumption
<1>3. CASE "rules" \in features
  <2>1. Rules!Carries(form) = Rules!AllPredicates
    BY <1>3 DEF Rules!Form, Rules!Carries
  <2> QED
    BY <1>1, <1>2, <2>1
<1>4. CASE "rules" \notin features /\ "layer_indicator" \in features
  <2>1. Rules!Carries(form) = Rules!BasePredicates \cup Rules!ExtendedPredicates
                                 \cup Rules!AdvancedPredicates
    BY <1>4 DEF Rules!Form, Rules!Carries
  <2>2. rule.gates \cap Rules!RulePredicates = {}
    BY <1>4 DEF Rules!require_conditions_capability
  <2> QED
    BY <1>1, <1>2, <2>1, <2>2 DEF Rules!AllPredicates
<1>5. CASE "rules" \notin features /\ "layer_indicator" \notin features
  <2>1. rule.gates \subseteq Rules!BasePredicates \cup Rules!ExtendedPredicates
    BY <1>2, <1>5 DEF Rules!require_conditions_capability, Rules!AllPredicates
  <2>2. CASE "effects_conditions" \in features
    <3>1. Rules!Carries(form) = Rules!BasePredicates \cup Rules!ExtendedPredicates
      BY <1>5, <2>2 DEF Rules!Form, Rules!Carries
    <3> QED
      BY <1>1, <2>1, <3>1
  <2>3. CASE "effects_conditions" \notin features
    <3>1. form = "legacy" /\ Rules!Carries(form) = Rules!BasePredicates
      BY <1>5, <2>3 DEF Rules!Form, Rules!Carries
    <3> QED
      BY <1>1, <2>1, <3>1
  <2> QED
    BY <2>2, <2>3
<1> QED
  BY <1>3, <1>4, <1>5

\* A valid rule that names every option of its effect and no other comes back
\* from the wire as it was.
LEMMA CanonicalComesBack ==
    ASSUME NEW form, rule \in Rules!Rules, Rules!validate_conditional_scene(rule),
           Rules!Canonical(rule), Rules!Encodes(form, rule)
    PROVE  Rules!Decoded(Rules!Encoded(form, rule)) = rule
<1> DEFINE look == Rules!effect_to_wire(rule)
           back == Rules!effect_from_wire(look)
<1>1. rule.bad = {} /\ Rules!TimingsValid(rule)
  BY DEF Rules!validate_conditional_scene
<1>2. rule.gates \cap Rules!Carries(form) = rule.gates
  BY DEF Rules!Encodes
<1>3. /\ rule.effect \in {"solid", "blink", "breathe"}
      /\ rule = [effect |-> rule.effect, period |-> rule.period, phase |-> rule.phase,
                 duty |-> rule.duty, step |-> rule.step, gates |-> rule.gates,
                 bad |-> rule.bad]
  BY DEF Rules!Rules
<1>4. /\ back.effect = rule.effect /\ back.period = rule.period /\ back.phase = rule.phase
      /\ back.duty = rule.duty /\ back.step = rule.step
  <2>1. CASE rule.effect = "solid"
    <3>1. /\ rule.period = Rules!None /\ rule.phase = Rules!None
          /\ rule.duty = Rules!None /\ rule.step = Rules!None
      BY <1>1, <2>1 DEF Rules!TimingsValid, Rules!TimingsSet
    <3>2. look = [effect |-> "solid"]
      BY <2>1 DEF Rules!effect_to_wire
    <3> QED
      BY <2>1, <3>1, <3>2 DEF Rules!effect_from_wire
  <2>2. CASE rule.effect = "blink"
    <3>1. look = [effect |-> "blink", period |-> rule.period, duty |-> rule.duty,
                  phase |-> rule.phase] /\ rule.step = Rules!None
      BY <2>2 DEF Rules!effect_to_wire, Rules!Canonical
    <3> QED
      BY <2>2, <3>1 DEF Rules!effect_from_wire
  <2>3. CASE rule.effect = "breathe"
    <3>1. look = [effect |-> "breathe", period |-> rule.period, step |-> rule.step,
                  phase |-> rule.phase] /\ rule.duty = Rules!None
      BY <2>3 DEF Rules!effect_to_wire, Rules!Canonical
    <3> QED
      BY <2>3, <3>1 DEF Rules!effect_from_wire
  <2> QED
    BY <1>3, <2>1, <2>2, <2>3
<1>5. Rules!Encoded(form, rule) = [look |-> look, gates |-> rule.gates]
  BY <1>2 DEF Rules!Encoded
<1>6. Rules!Decoded(Rules!Encoded(form, rule)) =
        [effect |-> back.effect, period |-> back.period, phase |-> back.phase,
         duty |-> back.duty, step |-> back.step, gates |-> rule.gates, bad |-> {}]
  BY <1>5 DEF Rules!Decoded
<1> HIDE DEF back
<1> QED
  BY <1>1, <1>3, <1>4, <1>6

LEMMA RuleStep ==
    ASSUME Rules!RulesAssumption, RuleInv, [Rules!Next]_(Rules!vars)
    PROVE  RuleInv'
<1> USE DEF RuleInv
<1>1. rule' = rule /\ features' = features
  BY DEF Rules!Next, Rules!vars, Rules!Validate, Rules!ReadFails, Rules!ReadSucceeds,
     Rules!Check, Rules!WriteTheRest, Rules!ReplaceTable, Rules!ReadBack
<1>2. CASE \/ Rules!Validate \/ Rules!ReadFails \/ Rules!ReadSucceeds \/ Rules!Check
           \/ Rules!WriteTheRest \/ UNCHANGED Rules!vars
  <2>1. UNCHANGED <<rule, features, predicates, held>>
    BY <1>2 DEF Rules!vars, Rules!Validate, Rules!ReadFails, Rules!ReadSucceeds,
       Rules!Check, Rules!WriteTheRest
  <2>2. HeldIsTheRule'
    BY <2>1 DEF HeldIsTheRule
  <2>3. rules_pc' \notin {"file", "invalid"} => Rules!validate_conditional_scene(rule)
    BY <1>2 DEF Rules!vars, Rules!Validate, Rules!ReadFails, Rules!ReadSucceeds,
       Rules!Check, Rules!WriteTheRest
  <2>4. rules_pc' \in {"keymap", "rules"} => Rules!require_conditions_capability(rule)
    BY <1>2 DEF Rules!vars, Rules!Validate, Rules!ReadFails, Rules!ReadSucceeds,
       Rules!Check, Rules!WriteTheRest
  <2>5. rules_pc' \in {"verify", "late", "mismatch"} => rules_pc' = rules_pc
    BY <1>2 DEF Rules!vars, Rules!Validate, Rules!ReadFails, Rules!ReadSucceeds,
       Rules!Check, Rules!WriteTheRest
  <2>6. /\ Rules!require_conditions_capability(rule)' <=> Rules!require_conditions_capability(rule)
        /\ Rules!Form(features)' = Rules!Form(features)
    BY <2>1 DEF Rules!require_conditions_capability
  <2> QED
    BY <2>1, <2>2, <2>3, <2>4, <2>5, <2>6
       DEF Rules!LateRefusalsAreOldFirmware, Rules!CanonicalRulesVerify
<1>3. CASE Rules!ReplaceTable
  <2> DEFINE form == Rules!Form(features)
  <2>1. Rules!validate_conditional_scene(rule) /\ Rules!require_conditions_capability(rule)
    BY <1>3 DEF Rules!ReplaceTable
  <2>2. CASE form # "none" /\ Rules!Encodes(form, rule)
    <3>1. held' = {Rules!Encoded(form, rule)} /\ rules_pc' = "verify"
      BY <1>3, <2>2 DEF Rules!ReplaceTable
    <3> QED
      BY <1>1, <2>1, <2>2, <3>1 DEF HeldIsTheRule, Rules!LateRefusalsAreOldFirmware,
         Rules!CanonicalRulesVerify
  <2>3. CASE ~ (form # "none" /\ Rules!Encodes(form, rule))
    <3>1. held' = held /\ rules_pc' = "late"
      BY <1>3, <2>3 DEF Rules!ReplaceTable
    <3>2. form = "none" \/ (form = "legacy" /\ rule.gates \cap Rules!ExtendedPredicates # {})
      BY <2>1, <2>3, CheckedRuleEncodes
    <3>3. HeldIsTheRule'
      BY <1>1, <3>1 DEF HeldIsTheRule
    <3> QED
      BY <1>1, <2>1, <3>1, <3>2, <3>3 DEF Rules!LateRefusalsAreOldFirmware,
         Rules!CanonicalRulesVerify
  <2> QED
    BY <2>2, <2>3
<1>4. CASE Rules!ReadBack
  <2> DEFINE entry == Rules!Encoded(Rules!Form(features), rule)
  <2>1. /\ rules_pc = "verify" /\ held' = held /\ rules_pc' \in {"verified", "mismatch"}
        /\ rules_pc' = "mismatch" => {Rules!Decoded(c) : c \in held} # {rule}
    BY <1>4 DEF Rules!ReadBack
  <2>2. held = {entry} /\ Rules!Encodes(Rules!Form(features), rule)
    BY <2>1 DEF HeldIsTheRule
  <2>3. {Rules!Decoded(c) : c \in held} = {Rules!Decoded(entry)}
    BY <2>2
  <2>4. Rules!validate_conditional_scene(rule)
    BY <2>1
  <2>5. Rules!Canonical(rule) => Rules!Decoded(entry) = rule
    BY <2>2, <2>4, CanonicalComesBack
  <2>6. HeldIsTheRule'
    BY <1>1, <2>1 DEF HeldIsTheRule
  <2> HIDE DEF entry
  <2> QED
    BY <1>1, <2>1, <2>3, <2>4, <2>5, <2>6 DEF Rules!LateRefusalsAreOldFirmware,
       Rules!CanonicalRulesVerify
<1> QED
  BY <1>2, <1>3, <1>4 DEF Rules!Next

\* For every set of predicates a firmware may know, every rule and any number
\* of failed reads: no gate is dropped on the way, a refusal after the first
\* write is only old firmware's, and a rule that is written out in full
\* verifies.
THEOREM RulesAreWrittenOrRefused == Rules!Spec => []RuleIsWrittenOrRefused
<1>0. Rules!RulesAssumption
  BY ConversionConstants
<1>1. Rules!Init => RuleInv
  BY DEF Rules!Init, RuleInv, HeldIsTheRule, Rules!LateRefusalsAreOldFirmware,
     Rules!CanonicalRulesVerify
<1>2. RuleInv /\ [Rules!Next]_(Rules!vars) => RuleInv'
  BY <1>0, RuleStep
<1>3. RuleInv => RuleIsWrittenOrRefused
  <2> SUFFICES ASSUME RuleInv, NEW entry \in held PROVE entry.gates = rule.gates
    BY DEF RuleInv, RuleIsWrittenOrRefused, Rules!RuleIsWrittenOrRefused, Rules!NoGateDropped
  <2>1. entry = Rules!Encoded(Rules!Form(features), rule) /\ rule.gates \subseteq
            Rules!Carries(Rules!Form(features))
    BY DEF RuleInv, HeldIsTheRule, Rules!Encodes
  <2> QED
    BY <2>1 DEF Rules!Encoded
<1> QED
  BY <1>1, <1>2, <1>3, PTL DEF Rules!Spec
-----------------------------------------------------------------------------
(* LayerEntries.                                                           *)

Target(file, n) == Layers!resolve_led_targets(file[n].target)
Arms(file, n) == DOMAIN file[n].arms
Conditional(file, n) == {k \in Arms(file, n) : file[n].arms[k] # Layers!Always}

\* The rule of one arm for one emitter.
RuleOf(file, n, k, l) == [led |-> l, when |-> file[n].arms[k], look |-> <<n, k>>]
RulesIn(file) == {RuleOf(file, n, k, l) : n \in Nat, k \in Nat, l \in Emitters}

\* The table has the rules of these entries and no others; of one entry the
\* later arms come first.
Lowered(file, table, done) ==
    /\ table \in Seq(RulesIn(file))
    /\ \A c \in 1 .. Len(table) : \E n \in done : \E k \in Conditional(file, n) :
         \E l \in Target(file, n) : table[c] = RuleOf(file, n, k, l)
    /\ \A n \in done : \A k \in Conditional(file, n) : \A l \in Target(file, n) :
         \E c \in 1 .. Len(table) : table[c] = RuleOf(file, n, k, l)
    /\ \A c, d \in 1 .. Len(table) :
         c < d /\ table[c].look[1] = table[d].look[1] => table[c].look[2] >= table[d].look[2]

LEMMA RuleFields ==
    ASSUME NEW file, NEW n, NEW k, NEW l
    PROVE  /\ RuleOf(file, n, k, l).led = l
           /\ RuleOf(file, n, k, l).when = file[n].arms[k]
           /\ RuleOf(file, n, k, l).look[1] = n /\ RuleOf(file, n, k, l).look[2] = k
           /\ RuleOf(file, n, k, l).look = <<n, k>>
BY DEF RuleOf

\* The tables of different entries one after the other.
LEMMA LoweredTogether ==
    ASSUME NEW file, NEW A, NEW B, NEW a, NEW b,
           A \cap B = {}, Lowered(file, a, A), Lowered(file, b, B)
    PROVE  Lowered(file, a \o b, A \cup B)
<1> DEFINE S == RulesIn(file)
           l == Len(a)
           m == Len(b)
           r == a \o b
<1>1. a \in Seq(S) /\ b \in Seq(S)
  BY DEF Lowered
<1> HIDE DEF S
<1>2. /\ r \in Seq(S) /\ Len(r) = l + m /\ l \in Nat /\ m \in Nat
      /\ \A k \in 1 .. l : r[k] = a[k]
      /\ \A k \in 1 .. m : r[l + k] = b[k]
  <2>1. Len(r) = l + m
    BY <1>1
  <2> QED
    BY <1>1, <2>1, ConcatPlaces
<1>3. \A i \in 1 .. l + m : i \in 1 .. l \/ \E k \in 1 .. m : i = l + k
  <2> TAKE i \in 1 .. l + m
  <2>1. i \in 1 .. l \/ (i - l \in 1 .. m /\ i = l + (i - l))
    BY <1>2
  <2> QED
    BY <2>1
<1> HIDE DEF l, m, r
<1>4. /\ \A c \in 1 .. l : \E n \in A : \E k \in Conditional(file, n) :
           \E e \in Target(file, n) : a[c] = RuleOf(file, n, k, e)
      /\ \A n \in A : \A k \in Conditional(file, n) : \A e \in Target(file, n) :
           \E c \in 1 .. l : a[c] = RuleOf(file, n, k, e)
      /\ \A c, d \in 1 .. l :
           c < d /\ a[c].look[1] = a[d].look[1] => a[c].look[2] >= a[d].look[2]
  BY DEF Lowered, l
<1>5. /\ \A c \in 1 .. m : \E n \in B : \E k \in Conditional(file, n) :
           \E e \in Target(file, n) : b[c] = RuleOf(file, n, k, e)
      /\ \A n \in B : \A k \in Conditional(file, n) : \A e \in Target(file, n) :
           \E c \in 1 .. m : b[c] = RuleOf(file, n, k, e)
      /\ \A c, d \in 1 .. m :
           c < d /\ b[c].look[1] = b[d].look[1] => b[c].look[2] >= b[d].look[2]
  BY DEF Lowered, m
<1>6. ASSUME NEW c \in 1 .. l + m
      PROVE  \E n \in A \cup B : \E k \in Conditional(file, n) :
                 \E e \in Target(file, n) : r[c] = RuleOf(file, n, k, e)
  <2>1. CASE c \in 1 .. l
    <3>1. r[c] = a[c]
      BY <1>2, <2>1
    <3> QED
      BY <1>4, <2>1, <3>1
  <2>2. CASE \E k \in 1 .. m : c = l + k
    <3>1. PICK i \in 1 .. m : c = l + i
      BY <2>2
    <3>2. r[c] = b[i]
      BY <1>2, <3>1
    <3> QED
      BY <1>5, <3>2
  <2> QED
    BY <1>3, <2>1, <2>2
<1>7. ASSUME NEW n \in A \cup B, NEW k \in Conditional(file, n), NEW e \in Target(file, n)
      PROVE  \E c \in 1 .. l + m : r[c] = RuleOf(file, n, k, e)
  <2>1. CASE n \in A
    <3>1. PICK c \in 1 .. l : a[c] = RuleOf(file, n, k, e)
      BY <1>4, <2>1
    <3>2. c \in 1 .. l + m /\ r[c] = a[c]
      BY <1>2
    <3> QED
      BY <3>1, <3>2
  <2>2. CASE n \in B
    <3>1. PICK c \in 1 .. m : b[c] = RuleOf(file, n, k, e)
      BY <1>5, <2>2
    <3>2. l + c \in 1 .. l + m /\ r[l + c] = b[c]
      BY <1>2
    <3> QED
      BY <3>1, <3>2
  <2> QED
    BY <2>1, <2>2
<1>8. \A c \in 1 .. l : a[c].look[1] \in A
  BY <1>4, RuleFields
<1>9. \A c \in 1 .. m : b[c].look[1] \in B
  BY <1>5, RuleFields
<1>10. ASSUME NEW c \in 1 .. l + m, NEW d \in 1 .. l + m, c < d,
              r[c].look[1] = r[d].look[1]
       PROVE  r[c].look[2] >= r[d].look[2]
  <2>1. CASE d \in 1 .. l
    <3>1. c \in 1 .. l /\ r[c] = a[c] /\ r[d] = a[d]
      BY <1>2, <1>10, <2>1
    <3> QED
      BY <1>4, <1>10, <2>1, <3>1
  <2>2. CASE c \in 1 .. l /\ \E k \in 1 .. m : d = l + k
    <3>1. PICK j \in 1 .. m : d = l + j
      BY <2>2
    <3>2. r[c] = a[c] /\ r[d] = b[j]
      BY <1>2, <2>2, <3>1
    <3> QED
      BY <1>8, <1>9, <1>10, <2>2, <3>2
  <2>3. CASE (\E k \in 1 .. m : c = l + k) /\ \E k \in 1 .. m : d = l + k
    <3>1. PICK i \in 1 .. m : c = l + i
      BY <2>3
    <3>2. PICK j \in 1 .. m : d = l + j
      BY <2>3
    <3>3. r[c] = b[i] /\ r[d] = b[j] /\ i < j
      BY <1>2, <1>10, <3>1, <3>2
    <3> QED
      BY <1>5, <1>10, <3>3
  <2> QED
    BY <1>2, <1>3, <1>10, <2>1, <2>2, <2>3
<1>11. Lowered(file, r, A \cup B)
  <2>1. r \in Seq(RulesIn(file)) /\ Len(r) = l + m
    BY <1>2 DEF S
  <2>2. \A c \in 1 .. Len(r) : \E n \in A \cup B : \E k \in Conditional(file, n) :
            \E e \in Target(file, n) : r[c] = RuleOf(file, n, k, e)
    BY <1>6, <2>1, Zenon
  <2>3. \A n \in A \cup B : \A k \in Conditional(file, n) : \A e \in Target(file, n) :
            \E c \in 1 .. Len(r) : r[c] = RuleOf(file, n, k, e)
    BY <1>7, <2>1, Zenon
  <2>4. \A c, d \in 1 .. Len(r) :
            c < d /\ r[c].look[1] = r[d].look[1] => r[c].look[2] >= r[d].look[2]
    BY <1>10, <2>1, Zenon
  <2> QED
    BY <2>1, <2>2, <2>3, <2>4, Zenon DEF Lowered
<1> QED
  BY <1>11 DEF r

\* A selector names emitters of the board.
LEMMA TargetsAreEmitters ==
    ASSUME NEW target \in Layers!Selectors
    PROVE  Layers!resolve_led_targets(target) \subseteq Emitters
<1>1. CASE \E l \in Emitters : target = <<"led", l>>
  BY <1>1 DEF Layers!resolve_led_targets
<1>2. CASE \E k \in Switches : target = <<"key", k>> \/ target = <<"matrix", k>>
  BY <1>2 DEF Layers!resolve_led_targets
<1>3. CASE \E z \in Layers!Zones : target = <<"zone", z>>
  BY <1>3 DEF Layers!resolve_led_targets
<1>4. CASE target = <<"all", 0>>
  BY <1>4 DEF Layers!resolve_led_targets
<1> QED
  BY <1>1, <1>2, <1>3, <1>4 DEF Layers!Selectors

\* An entry of a file.
LEMMA EntryShape ==
    ASSUME Layers!LayerAssumption, NEW file \in Seq(Layers!Entries), NEW n \in DOMAIN file
    PROVE  /\ file[n] \in Layers!Entries
           /\ n \in Nat /\ n >= 1 /\ n <= Len(file) /\ Len(file) \in Nat
           /\ Target(file, n) \subseteq Emitters /\ IsFiniteSet(Target(file, n))
           /\ file[n].arms \in Seq(Gates \cup {Layers!Always})
           /\ Len(file[n].arms) \in Nat /\ Arms(file, n) = 1 .. Len(file[n].arms)
<1>1. DOMAIN file = 1 .. Len(file) /\ Len(file) \in Nat
  OBVIOUS
<1>2. file[n] \in Layers!Entries /\ n \in Nat /\ n >= 1 /\ n <= Len(file)
  BY <1>1
<1>3. file[n].target \in Layers!Selectors /\ file[n].arms \in ArmLists
  BY <1>2 DEF Layers!Entries
<1>4. Target(file, n) \subseteq Emitters
  BY <1>3, TargetsAreEmitters DEF Target
<1>5. IsFiniteSet(Emitters)
  BY DEF Layers!LayerAssumption, Layers!IsFiniteSet, IsFiniteSet
<1>6. IsFiniteSet(Target(file, n))
  BY <1>4, <1>5, FS_Subset
<1>7. file[n].arms \in Seq(Gates \cup {Layers!Always})
  BY <1>3 DEF Layers!LayerAssumption
<1> HIDE DEF Layers!Entries
<1>8. Len(file[n].arms) \in Nat /\ DOMAIN file[n].arms = 1 .. Len(file[n].arms)
  BY <1>7
<1> QED
  BY <1>1, <1>2, <1>4, <1>6, <1>7, <1>8 DEF Arms

\* SetToSeq lists each member of a finite set.
LEMMA ListedMembers ==
    ASSUME NEW S, IsFiniteSet(S)
    PROVE  LET s == Layers!SetToSeq(S) IN
             /\ s \in Seq(S)
             /\ \A i \in 1 .. Len(s) : s[i] \in S
             /\ \A x \in S : \E i \in 1 .. Len(s) : s[i] = x
<1> DEFINE n == Cardinality(S)
           F == [1 .. n -> S]
           s == Layers!SetToSeq(S)
<1>1. n \in Nat /\ ExistsBijection(1 .. n, S)
  BY FS_CardinalityType
<1>2. Layers!Cardinality(S) = n
  BY DEF Layers!Cardinality, Cardinality, Layers!IsFiniteSet, IsFiniteSet
<1> HIDE DEF n
<1>3. \E f \in F : IsInjective(f)
  BY <1>1 DEF ExistsBijection, Bijection, Injection
<1>4. \E f \in F : Layers!IsInjective(f)
  <2>1. \A f : IsInjective(f) => Layers!IsInjective(f)
    BY DEF Layers!IsInjective, IsInjective
  <2> HIDE DEF F
  <2> QED
    BY <1>3, <2>1
<1>5. s \in F /\ Layers!IsInjective(s)
  BY <1>2, <1>4 DEF Layers!SetToSeq
<1>6. s \in Injection(1 .. n, S)
  <2>1. \A f : Layers!IsInjective(f) => IsInjective(f)
    BY DEF Layers!IsInjective, IsInjective
  <2> HIDE DEF s
  <2> QED
    BY <1>5, <2>1 DEF Injection
<1> HIDE DEF s
<1>7. s \in Surjection(1 .. n, S)
  <2>1. Cardinality(1 .. n) = n
    BY <1>1, FS_Interval
  <2> QED
    BY <1>6, <2>1, FS_Injection DEF n
<1>8. Len(s) = n /\ s \in Seq(S)
  BY <1>1, <1>5
<1>9. \A x \in S : \E i \in 1 .. n : s[i] = x
  BY <1>7 DEF Surjection
<1> QED
  BY <1>5, <1>8, <1>9 DEF s

\* The rules of one conditional arm.
LEMMA RulesOfArm ==
    ASSUME Layers!LayerAssumption, entries \in Seq(Layers!Entries), NEW n \in DOMAIN entries,
           NEW k \in Conditional(entries, n)
    PROVE  LET t == Layers!RulesOf(n, k) IN
             /\ t \in Seq(RulesIn(entries))
             /\ \A i \in 1 .. Len(t) : \E l \in Target(entries, n) :
                  t[i] = RuleOf(entries, n, k, l)
             /\ \A l \in Target(entries, n) : \E i \in 1 .. Len(t) :
                  t[i] = RuleOf(entries, n, k, l)
<1> DEFINE E == Target(entries, n)
           S == {RuleOf(entries, n, k, l) : l \in E}
           f == [l \in E |-> RuleOf(entries, n, k, l)]
           t == Layers!RulesOf(n, k)
<1>1. /\ n \in Nat /\ E \subseteq Emitters /\ IsFiniteSet(E) /\ k \in Arms(entries, n)
      /\ entries[n].arms[k] # Layers!Always
      /\ Len(entries[n].arms) \in Nat /\ Arms(entries, n) = 1 .. Len(entries[n].arms)
  BY EntryShape DEF Conditional
<1>2. k \in Nat
  BY <1>1
<1>3. t = Layers!SetToSeq(S)
  BY <1>1 DEF Layers!RulesOf, RuleOf, Target
<1> HIDE DEF E, t
<1>4. IsFiniteSet(S)
  <2>1. f \in Surjection(E, S)
    BY DEF Surjection
  <2> QED
    BY <1>1, <2>1, FS_Surjection
<1>5. S \subseteq RulesIn(entries)
  BY <1>1, <1>2 DEF RulesIn
<1>6. \A l \in E : RuleOf(entries, n, k, l) \in S
  OBVIOUS
<1>7. \A x \in S : \E l \in E : x = RuleOf(entries, n, k, l)
  OBVIOUS
<1> HIDE DEF S
<1>8. /\ t \in Seq(S)
      /\ \A i \in 1 .. Len(t) : t[i] \in S
      /\ \A x \in S : \E i \in 1 .. Len(t) : t[i] = x
  BY <1>3, <1>4, ListedMembers
<1>9. t \in Seq(RulesIn(entries))
  BY <1>5, <1>8
<1> QED
  BY <1>6, <1>7, <1>8, <1>9 DEF E, t

LEMMA ReversedArms ==
    ASSUME Layers!LayerAssumption, entries \in Seq(Layers!Entries), NEW n \in DOMAIN entries
    PROVE  \A i \in Arms(entries, n) :
             Layers!ArmsReversed(n)[i] = Len(entries[n].arms) - i + 1
<1> DEFINE m == Len(entries[n].arms)
           all == [k \in 1 .. m |-> k]
<1>1. m \in Nat /\ DOMAIN entries[n].arms = 1 .. m /\ Arms(entries, n) = 1 .. m
  BY EntryShape DEF Arms
<1> HIDE DEF m
<1>2. all \in Seq(Nat) /\ Len(all) = m
  BY <1>1
<1>3. Layers!ArmsReversed(n) = Layers!Reverse(all)
  BY <1>1 DEF Layers!ArmsReversed
<1>4. \A i \in 1 .. m : Layers!Reverse(all)[i] = all[m - i + 1]
  BY <1>2 DEF Layers!Reverse
<1>5. \A i \in 1 .. m : all[m - i + 1] = m - i + 1
  BY <1>1
<1> QED
  BY <1>1, <1>3, <1>4, <1>5 DEF m

LEMMA SameFlatten == \A ss : Layers!FlattenSeq(ss) = FlattenSeq(ss)
BY DEF Layers!FlattenSeq, FlattenSeq

TableOf(n) ==
    Layers!FlattenSeq([i \in Arms(entries, n) |-> Layers!RulesOf(n, Layers!ArmsReversed(n)[i])])

\* The rules of one entry.
LEMMA RulesOfEntry ==
    ASSUME Layers!LayerAssumption, entries \in Seq(Layers!Entries), NEW n \in DOMAIN entries
    PROVE  Lowered(entries, TableOf(n), {n})
<1> DEFINE S == RulesIn(entries)
           m == Len(entries[n].arms)
           C == Conditional(entries, n)
           E == Target(entries, n)
           Rule(k, l) == RuleOf(entries, n, k, l)
           ss == [i \in 1 .. m |-> Layers!RulesOf(n, m - i + 1)]
           t == FlattenSeq(ss)
<1>1. m \in Nat /\ Arms(entries, n) = 1 .. m /\ C \subseteq 1 .. m
  BY EntryShape DEF Conditional
<1>2. \A k \in C : LET r == Layers!RulesOf(n, k) IN
         /\ r \in Seq(S)
         /\ \A i \in 1 .. Len(r) : \E l \in E : r[i] = Rule(k, l)
         /\ \A l \in E : \E i \in 1 .. Len(r) : r[i] = Rule(k, l)
  BY RulesOfArm
<1>3. \A k \in (1 .. m) \ C : Layers!RulesOf(n, k) = <<>>
  BY <1>1 DEF Conditional, Layers!RulesOf
<1>4. TableOf(n) = t
  <2>1. [i \in Arms(entries, n) |-> Layers!RulesOf(n, Layers!ArmsReversed(n)[i])] = ss
    BY <1>1, ReversedArms
  <2> HIDE DEF ss
  <2> QED
    BY <2>1, SameFlatten DEF TableOf
<1>5. \A i \in 1 .. m : m - i + 1 \in 1 .. m
  BY <1>1
<1> HIDE DEF S, m, C, E
<1>6. \A i \in 1 .. m : ss[i] = Layers!RulesOf(n, m - i + 1)
  OBVIOUS
<1>7. ss \in Seq(Seq(S)) /\ Len(ss) = m
  <2>1. \A k \in 1 .. m : Layers!RulesOf(n, k) \in Seq(S)
    <3> TAKE k \in 1 .. m
    <3>1. CASE k \in C
      BY <1>2, <3>1
    <3>2. CASE k \notin C
      <4>1. <<>> \in Seq(S)
        OBVIOUS
      <4> QED
        BY <1>3, <3>2, <4>1
    <3> QED
      BY <3>1, <3>2
  <2>2. ss \in [1 .. m -> Seq(S)]
    BY <1>5, <2>1
  <2> QED
    BY <1>1, <2>2
<1> HIDE DEF ss
<1>8. t \in Seq(S) /\ \E part, place : Laid(t, ss, m, part, place)
  BY <1>7, FlattenPlaces
<1> HIDE DEF t
<1>9. PICK part, place : Laid(t, ss, m, part, place)
  BY <1>8
<1>10. /\ \A i \in 1 .. Len(t) :
            /\ part[i] \in 1 .. m /\ place[i] \in 1 .. Len(ss[part[i]])
            /\ t[i] = ss[part[i]][place[i]]
       /\ \A i, j \in 1 .. Len(t) :
            i < j => part[i] < part[j] \/ (part[i] = part[j] /\ place[i] < place[j])
       /\ \A k \in 1 .. m : \A e \in 1 .. Len(ss[k]) :
            \E i \in 1 .. Len(t) : part[i] = k /\ place[i] = e
  BY <1>9 DEF Laid
<1>11. ASSUME NEW i \in 1 .. Len(t)
       PROVE  m - part[i] + 1 \in C /\ \E l \in E : t[i] = Rule(m - part[i] + 1, l)
  <2> DEFINE p == part[i]
             q == place[i]
             k == m - p + 1
  <2>1. p \in 1 .. m /\ q \in 1 .. Len(ss[p]) /\ t[i] = ss[p][q]
    BY <1>10
  <2>2. k \in 1 .. m
    BY <1>5, <2>1
  <2>3. ss[p] = Layers!RulesOf(n, k)
    BY <1>6, <2>1
  <2> HIDE DEF p, q, k
  <2>4. k \in C
    <3> SUFFICES ASSUME k \notin C PROVE FALSE
      OBVIOUS
    <3>1. ss[p] = <<>>
      BY <1>3, <2>2, <2>3
    <3> QED
      BY <2>1, <3>1
  <2>5. \E l \in E : ss[p][q] = Rule(k, l)
    BY <1>2, <2>1, <2>3, <2>4
  <2> QED
    BY <2>1, <2>4, <2>5 DEF p, k
<1>12. ASSUME NEW k \in C, NEW l \in E
       PROVE  \E i \in 1 .. Len(t) : t[i] = Rule(k, l)
  <2> DEFINE p == m - k + 1
  <2>1. p \in 1 .. m /\ m - p + 1 = k
    BY <1>1
  <2> HIDE DEF p
  <2>2. ss[p] = Layers!RulesOf(n, k)
    BY <1>6, <2>1
  <2>3. PICK e \in 1 .. Len(ss[p]) : ss[p][e] = Rule(k, l)
    BY <1>2, <2>2
  <2>4. PICK i \in 1 .. Len(t) : part[i] = p /\ place[i] = e
    BY <1>10, <2>1
  <2>5. t[i] = ss[part[i]][place[i]]
    BY <1>10
  <2>6. t[i] = ss[p][e]
    BY <2>4, <2>5, Zenon
  <2> QED
    BY <2>3, <2>6
<1>13. ASSUME NEW i \in 1 .. Len(t), NEW j \in 1 .. Len(t), i < j
       PROVE  t[i].look[2] >= t[j].look[2]
  <2>1. t[i].look[2] = m - part[i] + 1 /\ t[j].look[2] = m - part[j] + 1
    BY <1>11, RuleFields
  <2>2. part[i] \in 1 .. m /\ part[j] \in 1 .. m
    BY <1>10
  <2>3. part[i] <= part[j]
    BY <1>10, <1>13, <2>2
  <2> QED
    BY <1>1, <2>1, <2>2, <2>3
<1>14. Lowered(entries, t, {n})
  <2>1. \A c \in 1 .. Len(t) : \E k \in C : \E l \in E : t[c] = Rule(k, l)
    BY <1>11
  <2>2. t \in Seq(RulesIn(entries))
    BY <1>8 DEF S
  <2> QED
    BY <1>12, <1>13, <2>1, <2>2 DEF Lowered, C, E
<1> QED
  BY <1>4, <1>14

-----------------------------------------------------------------------------
(* The order entries are lowered in. *)

LEMMA KindInOrder ==
    ASSUME Layers!LayerAssumption, entries \in Seq(Layers!Entries), NEW kind
    PROVE  LET t == Layers!OfKind(kind)
               N == {n \in DOMAIN entries : entries[n].kind = kind}
           IN  /\ t \in Seq(DOMAIN entries)
               /\ \A i \in 1 .. Len(t) : t[i] \in N
               /\ \A i, j \in 1 .. Len(t) : i # j => t[i] # t[j]
               /\ \A n \in N : \E i \in 1 .. Len(t) : t[i] = n
<1> DEFINE D == DOMAIN entries
           m == Len(entries)
           ss == [k \in D |-> IF entries[k].kind = kind THEN <<k>> ELSE <<>>]
           t == Layers!OfKind(kind)
           N == {n \in D : entries[n].kind = kind}
<1>1. m \in Nat /\ D = 1 .. m
  OBVIOUS
<1>2. t = FlattenSeq(ss)
  BY SameFlatten DEF Layers!OfKind
<1> HIDE DEF t, m
<1>3. /\ \A k \in D : k \in N => ss[k] = <<k>> /\ Len(ss[k]) = 1 /\ ss[k][1] = k
      /\ \A k \in D : k \notin N => ss[k] = <<>> /\ Len(ss[k]) = 0
  OBVIOUS
<1>4. ss \in Seq(Seq(D)) /\ Len(ss) = m
  <2>1. \A k \in D : <<k>> \in Seq(D) /\ <<>> \in Seq(D)
    OBVIOUS
  <2>2. ss \in [1 .. m -> Seq(D)]
    BY <1>1, <2>1
  <2> HIDE DEF ss, D
  <2> QED
    BY <1>1, <2>2
<1> HIDE DEF ss, D, N
<1>5. t \in Seq(D) /\ \E part, place : Laid(t, ss, m, part, place)
  BY <1>2, <1>4, FlattenPlaces
<1>6. PICK part, place : Laid(t, ss, m, part, place)
  BY <1>5
<1>7. /\ \A i \in 1 .. Len(t) :
            /\ part[i] \in 1 .. m /\ place[i] \in 1 .. Len(ss[part[i]])
            /\ t[i] = ss[part[i]][place[i]]
      /\ \A i, j \in 1 .. Len(t) :
            i < j => part[i] < part[j] \/ (part[i] = part[j] /\ place[i] < place[j])
      /\ \A k \in 1 .. m : \A e \in 1 .. Len(ss[k]) :
            \E i \in 1 .. Len(t) : part[i] = k /\ place[i] = e
  BY <1>6 DEF Laid
<1>8. ASSUME NEW i \in 1 .. Len(t)
      PROVE  part[i] \in N /\ place[i] = 1 /\ t[i] = part[i]
  <2> DEFINE p == part[i]
             q == place[i]
  <2>1. p \in D /\ q \in 1 .. Len(ss[p]) /\ t[i] = ss[p][q]
    BY <1>1, <1>7
  <2> HIDE DEF p, q
  <2>2. p \in N
    BY <1>3, <2>1
  <2>3. q = 1 /\ ss[p][1] = p
    BY <1>3, <2>1, <2>2
  <2> QED
    BY <2>1, <2>2, <2>3 DEF p, q
<1>9. ASSUME NEW i \in 1 .. Len(t), NEW j \in 1 .. Len(t), i # j
      PROVE  t[i] # t[j]
  <2>1. \A a, b \in 1 .. Len(t) : a < b => part[a] # part[b]
    <3> SUFFICES ASSUME NEW a \in 1 .. Len(t), NEW b \in 1 .. Len(t), a < b,
                        part[a] = part[b]
                 PROVE  FALSE
      OBVIOUS
    <3>1. place[a] = 1 /\ place[b] = 1
      BY <1>8
    <3>2. part[a] \in 1 .. m
      BY <1>7
    <3>3. part[a] < part[b] \/ (part[a] = part[b] /\ place[a] < place[b])
      BY <1>7
    <3> QED
      BY <3>1, <3>2, <3>3
  <2>2. i < j \/ j < i
    BY <1>9
  <2>3. part[i] # part[j]
    BY <2>1, <2>2
  <2> QED
    BY <1>8, <2>3
<1>10. ASSUME NEW n \in N PROVE \E i \in 1 .. Len(t) : t[i] = n
  <2>1. n \in D
    BY DEF N
  <2>2. n \in 1 .. m /\ 1 \in 1 .. Len(ss[n])
    BY <1>1, <1>3, <2>1
  <2>3. PICK i \in 1 .. Len(t) : part[i] = n /\ place[i] = 1
    BY <1>7, <2>2
  <2> QED
    BY <1>8, <2>3
<1>11. \A i \in 1 .. Len(t) : t[i] \in N
  BY <1>8
<1> QED
  BY <1>5, <1>9, <1>10, <1>11 DEF D, N, t

\* Every entry has its turn, once.
LEMMA EachEntryOnce ==
    ASSUME Layers!LayerAssumption, entries \in Seq(Layers!Entries)
    PROVE  /\ \A i \in DOMAIN entries : Layers!LightingOrder[i] \in DOMAIN entries
           /\ \A i, j \in DOMAIN entries :
                i # j => Layers!LightingOrder[i] # Layers!LightingOrder[j]
           /\ \A n \in DOMAIN entries : \E i \in DOMAIN entries : Layers!LightingOrder[i] = n
<1> DEFINE D == DOMAIN entries
           a == Layers!OfKind("key")
           b == Layers!OfKind("light")
           A == {n \in D : entries[n].kind = "key"}
           B == {n \in D : entries[n].kind = "light"}
           o == a \o b
           l == Len(a)
           m == Len(b)
<1>1. /\ a \in Seq(D) /\ \A i \in 1 .. l : a[i] \in A
      /\ \A i, j \in 1 .. l : i # j => a[i] # a[j]
      /\ \A n \in A : \E i \in 1 .. l : a[i] = n
  BY KindInOrder
<1>2. /\ b \in Seq(D) /\ \A i \in 1 .. m : b[i] \in B
      /\ \A i, j \in 1 .. m : i # j => b[i] # b[j]
      /\ \A n \in B : \E i \in 1 .. m : b[i] = n
  BY KindInOrder
<1>3. D = A \cup B /\ A \cap B = {}
  <2>1. \A n \in D : entries[n].kind \in {"key", "light"}
    BY EntryShape DEF Layers!Entries
  <2> QED
    BY <2>1
<1>4. Layers!LightingOrder = o
  BY DEF Layers!LightingOrder
<1> HIDE DEF D, A, B
<1>5. /\ l \in Nat /\ m \in Nat /\ Len(o) = l + m
      /\ \A i \in 1 .. l : o[i] = a[i]
      /\ \A i \in 1 .. m : o[l + i] = b[i]
  <2> HIDE DEF a, b
  <2>1. Len(o) = l + m
    BY <1>1, <1>2
  <2> QED
    BY <1>1, <1>2, <2>1, ConcatPlaces
<1>6. \A i \in 1 .. l + m : i \in 1 .. l \/ \E j \in 1 .. m : i = l + j
  <2> TAKE i \in 1 .. l + m
  <2>1. i \in 1 .. l \/ (i - l \in 1 .. m /\ i = l + (i - l))
    BY <1>5
  <2> QED
    BY <2>1
<1> HIDE DEF a, b, o, l, m
<1>7. \A i \in 1 .. l + m : o[i] \in D
  <2> TAKE i \in 1 .. l + m
  <2>1. CASE i \in 1 .. l
    BY <1>1, <1>3, <1>5, <2>1
  <2>2. CASE \E j \in 1 .. m : i = l + j
    BY <1>2, <1>3, <1>5, <2>2
  <2> QED
    BY <1>6, <2>1, <2>2
<1>8. ASSUME NEW i \in 1 .. l + m, NEW j \in 1 .. l + m, i # j PROVE o[i] # o[j]
  <2>1. CASE i \in 1 .. l /\ j \in 1 .. l
    BY <1>1, <1>5, <1>8, <2>1
  <2>2. CASE i \in 1 .. l /\ \E d \in 1 .. m : j = l + d
    <3>1. PICK d \in 1 .. m : j = l + d
      BY <2>2
    <3>2. o[j] = b[d] /\ b[d] \in B
      BY <1>2, <1>5, <3>1
    <3>3. o[i] = a[i] /\ a[i] \in A
      BY <1>1, <1>5, <2>2
    <3> QED
      BY <1>3, <3>2, <3>3
  <2>3. CASE (\E d \in 1 .. m : i = l + d) /\ j \in 1 .. l
    <3>1. PICK c \in 1 .. m : i = l + c
      BY <2>3
    <3>2. o[i] = b[c] /\ b[c] \in B
      BY <1>2, <1>5, <3>1
    <3>3. o[j] = a[j] /\ a[j] \in A
      BY <1>1, <1>5, <2>3
    <3> QED
      BY <1>3, <3>2, <3>3
  <2>4. CASE (\E d \in 1 .. m : i = l + d) /\ \E d \in 1 .. m : j = l + d
    <3>1. PICK c \in 1 .. m : i = l + c
      BY <2>4
    <3>2. PICK d \in 1 .. m : j = l + d
      BY <2>4
    <3>3. c # d /\ o[i] = b[c] /\ o[j] = b[d]
      BY <1>5, <1>8, <3>1, <3>2
    <3> QED
      BY <1>2, <3>3
  <2> QED
    BY <1>6, <2>1, <2>2, <2>3, <2>4
<1>9. ASSUME NEW n \in D PROVE \E i \in 1 .. l + m : o[i] = n
  <2>1. CASE n \in A
    <3>1. PICK i \in 1 .. l : a[i] = n
      BY <1>1, <2>1
    <3>2. i \in 1 .. l + m
      BY <1>5
    <3> QED
      BY <1>5, <3>1, <3>2
  <2>2. CASE n \in B
    <3>1. PICK i \in 1 .. m : b[i] = n
      BY <1>2, <2>2
    <3>2. l + i \in 1 .. l + m
      BY <1>5
    <3> QED
      BY <1>5, <3>1, <3>2
  <2> QED
    BY <1>3, <2>1, <2>2
<1>10. 1 .. l + m = D
  <2> DEFINE f == [i \in 1 .. l + m |-> o[i]]
             n == Len(entries)
  <2>1. D = 1 .. n /\ n \in Nat
    BY DEF D
  <2> HIDE DEF n
  <2>2. f \in Bijection(1 .. l + m, D)
    BY <1>7, <1>8, <1>9 DEF Bijection, Injection, Surjection, IsInjective
  <2>3. Cardinality(1 .. l + m) = l + m /\ Cardinality(1 .. n) = n
        /\ IsFiniteSet(1 .. l + m)
    <3>1. \A c \in Nat : Cardinality(1 .. c) = c /\ IsFiniteSet(1 .. c)
      BY FS_Interval
    <3>2. l + m \in Nat
      BY <1>5
    <3> QED
      BY <2>1, <3>1, <3>2
  <2>4. Cardinality(D) = l + m
    BY <2>2, <2>3, FS_Bijection DEF ExistsBijection
  <2> QED
    BY <2>1, <2>3, <2>4
<1> QED
  BY <1>4, <1>7, <1>8, <1>9, <1>10 DEF D

-----------------------------------------------------------------------------
(* The grid. *)

Binders(file, k) ==
    {n \in DOMAIN file : file[n].bound /\ k \in Layers!resolve_matrix_keys(file[n].target)}

\* The grid has the last of these entries that binds a key.
LastOf(file, g, done) ==
    \A k \in Switches :
        /\ Binders(file, k) \cap done = {} => g[k] = 0
        /\ Binders(file, k) \cap done # {} =>
             g[k] \in Binders(file, k) \cap done
             /\ \A m \in Binders(file, k) \cap done : m <= g[k]

\* Every binding names a place in the matrix.
Offline(file) ==
    \A n \in DOMAIN file : file[n].bound => ~Layers!key_needs_topology(file[n].target)

Grids(file, g, off, done) ==
    /\ g \in [Switches -> Nat] /\ off \in [Switches -> Nat]
    /\ LastOf(file, g, done)
    /\ Offline(file) => off = g

LEMMA BindStep ==
    ASSUME Layers!LayerAssumption, entries \in Seq(Layers!Entries), reached \in DOMAIN entries,
           Grids(entries, grid, offline, 1 .. reached - 1), Layers!BindEntry
    PROVE  Grids(entries, grid', offline', 1 .. reached)
<1> DEFINE entry == entries[reached]
           keys == IF entry.bound THEN Layers!resolve_matrix_keys(entry.target) ELSE {}
           through == 1 .. reached - 1
           after == 1 .. reached
           B(k) == Binders(entries, k)
<1>1. reached \in Nat /\ reached >= 1 /\ after = through \cup {reached} /\ reached \notin through
  <2>1. reached \in Nat /\ reached >= 1
    BY EntryShape
  <2> QED
    BY <2>1
<1>2. /\ grid' = Layers!Bound(grid, reached, keys)
      /\ offline' = IF Layers!key_needs_topology(entry.target) THEN offline
                    ELSE Layers!Bound(offline, reached, keys)
  BY DEF Layers!BindEntry
<1>3. \A k : k \in keys <=> reached \in B(k)
  BY DEF Binders
<1>4. Offline(entries) => (keys = {} \/ ~Layers!key_needs_topology(entry.target))
  BY DEF Offline
<1>5. /\ grid \in [Switches -> Nat] /\ offline \in [Switches -> Nat]
      /\ LastOf(entries, grid, through)
      /\ Offline(entries) => offline = grid
  BY DEF Grids
<1> HIDE DEF entry, keys
<1>6. \A g \in [Switches -> Nat] :
        /\ Layers!Bound(g, reached, keys) \in [Switches -> Nat]
        /\ \A k \in Switches : Layers!Bound(g, reached, keys)[k] = IF k \in keys THEN reached ELSE g[k]
        /\ keys = {} => Layers!Bound(g, reached, keys) = g
  BY <1>1 DEF Layers!Bound
<1>7. grid' \in [Switches -> Nat] /\ offline' \in [Switches -> Nat]
  BY <1>2, <1>5, <1>6
<1>8. Offline(entries) => offline' = grid'
  BY <1>2, <1>4, <1>5, <1>6
<1>9. LastOf(entries, grid', after)
  <2> SUFFICES ASSUME NEW k \in Switches
               PROVE  /\ B(k) \cap after = {} => grid'[k] = 0
                      /\ B(k) \cap after # {} =>
                           grid'[k] \in B(k) \cap after
                           /\ \A m \in B(k) \cap after : m <= grid'[k]
    BY DEF LastOf
  <2>1. /\ B(k) \cap through = {} => grid[k] = 0
        /\ B(k) \cap through # {} =>
             grid[k] \in B(k) \cap through
             /\ \A m \in B(k) \cap through : m <= grid[k]
    BY <1>5 DEF LastOf
  <2>2. grid'[k] = IF k \in keys THEN reached ELSE grid[k]
    BY <1>2, <1>5, <1>6
  <2>3. \A m \in after : m <= reached
    BY <1>1
  <2>4. CASE k \in keys
    <3>1. reached \in B(k) \cap after /\ grid'[k] = reached
      BY <1>1, <1>3, <2>2, <2>4
    <3> QED
      BY <2>3, <3>1
  <2>5. CASE k \notin keys
    <3>1. B(k) \cap after = B(k) \cap through /\ grid'[k] = grid[k]
      BY <1>1, <1>3, <2>2, <2>5
    <3> HIDE DEF through, after, B
    <3> QED
      BY <2>1, <3>1
  <2> QED
    BY <2>4, <2>5
<1> QED
  BY <1>7, <1>8, <1>9 DEF Grids

-----------------------------------------------------------------------------
(* The looks. *)

Lights(file, l) == {n \in DOMAIN file : file[n].arms # <<>> /\ l \in Target(file, n)}

\* An emitter of only one of these entries has that one's unconditional arm.
Lit(file, cells, done) ==
    \A n \in done : \A l \in Emitters : \A k \in Arms(file, n) :
        Lights(file, l) = {n} /\ file[n].arms[k] = Layers!Always =>
            l \in DOMAIN cells /\ cells[l] = <<n, k>>

Reachable(file) == \A n \in DOMAIN file : Layers!ArmsReachable(file[n].arms)

LEMMA LightStep ==
    ASSUME Layers!LayerAssumption, entries \in Seq(Layers!Entries), reached \in DOMAIN entries,
           Reachable(entries), NEW done \in SUBSET DOMAIN entries,
           Layers!LightingOrder[reached] \in DOMAIN entries \ done,
           Lowered(entries, conditionals, done), Lit(entries, scenes, done), Layers!LightEntry
    PROVE  /\ Lowered(entries, conditionals', done \cup {Layers!LightingOrder[reached]})
           /\ Lit(entries, scenes', done \cup {Layers!LightingOrder[reached]})
<1> DEFINE n == Layers!LightingOrder[reached]
           leds == Layers!resolve_led_targets(entries[n].target)
           plain == {k \in DOMAIN entries[n].arms : entries[n].arms[k] = Layers!Always}
           covered == IF plain = {} THEN {} ELSE leds
           cells == [l \in covered \cup DOMAIN scenes |->
                        IF l \in covered THEN <<n, Layers!Max(plain)>> ELSE scenes[l]]
<1>1. scenes' = cells /\ conditionals' = conditionals \o TableOf(n)
  BY DEF Layers!LightEntry, TableOf, Arms
<1> HIDE DEF n
<1>2. n \in DOMAIN entries /\ n \notin done
  BY DEF n
<1>3. Lowered(entries, conditionals', done \cup {n})
  <2>1. Lowered(entries, TableOf(n), {n})
    BY <1>2, RulesOfEntry
  <2>2. done \cap {n} = {}
    BY <1>2
  <2>3. Lowered(entries, conditionals \o TableOf(n), done \cup {n})
    BY <2>1, <2>2, LoweredTogether
  <2> QED
    BY <1>1, <2>3
<1>4. ASSUME NEW m \in done \cup {n}, NEW l \in Emitters, NEW k \in Arms(entries, m),
             Lights(entries, l) = {m}, entries[m].arms[k] = Layers!Always
      PROVE  l \in DOMAIN scenes' /\ scenes'[l] = <<m, k>>
  <2>1. l \in Target(entries, m)
    BY <1>4 DEF Lights
  <2>2. CASE m = n
    <3>1. k \in plain /\ covered = leds /\ l \in covered
      BY <1>4, <2>1, <2>2 DEF Arms, Target
    <3>2. Len(entries[n].arms) \in Nat /\ DOMAIN entries[n].arms = 1 .. Len(entries[n].arms)
      BY <1>2, EntryShape DEF Arms
    <3>3. \A j \in plain : j = Len(entries[n].arms)
      BY <1>2 DEF Reachable, Layers!ArmsReachable
    <3>4. plain = {k} /\ k \in Nat
      BY <3>1, <3>2, <3>3
    <3>5. Layers!Max(plain) = k
      BY <3>4 DEF Layers!Max
    <3> QED
      BY <1>1, <2>2, <3>1, <3>5
  <2>3. CASE m # n
    <3>1. l \in DOMAIN scenes /\ scenes[l] = <<m, k>>
      BY <1>4, <2>3 DEF Lit
    <3>2. l \notin covered
      <4> SUFFICES ASSUME l \in covered PROVE FALSE
        OBVIOUS
      <4>1. plain # {} /\ l \in Target(entries, n)
        BY DEF Target
      <4>2. entries[n].arms # <<>>
        BY <4>1
      <4>3. n \in Lights(entries, l)
        BY <1>2, <4>1, <4>2 DEF Lights
      <4> QED
        BY <1>4, <2>3, <4>3
    <3> QED
      BY <1>1, <3>1, <3>2
  <2> QED
    BY <2>2, <2>3
<1>5. Lit(entries, scenes', done \cup {n})
  BY <1>4 DEF Lit
<1> QED
  BY <1>3, <1>5 DEF n

Written(file, table, cells, done) == Lowered(file, table, done) /\ Lit(file, cells, done)
Through(o, m) == {o[i] : i \in 1 .. m}

EntryInv ==
    /\ entries \in Seq(Layers!Entries)
    /\ reached \in DOMAIN entries
    /\ entries_pc \in {"load", "bind", "light", "done", "rejected"}
    /\ entries_pc \in {"bind", "light", "done"} => Reachable(entries)
    /\ entries_pc \in {"load", "bind"} =>
         conditionals = <<>> /\ Grids(entries, grid, offline, 1 .. reached - 1)
    /\ entries_pc = "load" => reached = 1
    /\ entries_pc \in {"light", "done"} => Grids(entries, grid, offline, DOMAIN entries)
    /\ entries_pc = "light" =>
         Written(entries, conditionals, scenes, Through(Layers!LightingOrder, reached - 1))
    /\ entries_pc = "done" => Written(entries, conditionals, scenes, DOMAIN entries)

LEMMA EntryStart ==
    ASSUME Layers!LayerAssumption, Layers!Init
    PROVE  EntryInv
<1>1. PICK n \in 1 .. MaxEntries : entries \in [1 .. n -> Layers!Entries]
  BY DEF Layers!Init
<1>2. n \in Nat /\ n >= 1
  BY DEF Layers!LayerAssumption
<1>3. entries \in Seq(Layers!Entries) /\ DOMAIN entries = 1 .. n
  BY <1>1, <1>2
<1>4. /\ entries_pc = "load" /\ reached = 1 /\ conditionals = <<>>
      /\ grid = [k \in Switches |-> 0] /\ offline = grid
  BY DEF Layers!Init, Layers!Transparent
<1>5. 1 \in DOMAIN entries
  BY <1>2, <1>3
<1>6. 1 .. reached - 1 = {}
  BY <1>4
<1>7. Grids(entries, grid, offline, {})
  BY <1>4 DEF Grids, LastOf
<1> QED
  BY <1>3, <1>4, <1>5, <1>6, <1>7 DEF EntryInv

LEMMA LoadStep ==
    ASSUME EntryInv, Layers!Load
    PROVE  EntryInv'
<1>1. /\ entries_pc = "load" /\ reached = 1
      /\ entries' = entries /\ reached' = reached /\ grid' = grid /\ offline' = offline
      /\ conditionals' = conditionals /\ scenes' = scenes
      /\ entries_pc' \in {"bind", "rejected"}
      /\ entries_pc' = "bind" => \A k \in DOMAIN entries : Layers!validate(entries[k])
  BY DEF Layers!Load, EntryInv
<1>2. entries_pc' = "bind" => Reachable(entries')
  BY <1>1 DEF Reachable, Layers!validate
<1>3. Grids(entries', grid', offline', 1 .. reached' - 1) /\ conditionals' = <<>>
  BY <1>1 DEF EntryInv
<1>4. entries' \in Seq(Layers!Entries) /\ reached' \in DOMAIN entries'
  BY <1>1 DEF EntryInv
<1> QED
  BY <1>1, <1>2, <1>3, <1>4 DEF EntryInv

LEMMA BindingStep ==
    ASSUME Layers!LayerAssumption, EntryInv, Layers!BindEntry
    PROVE  EntryInv'
<1> DEFINE m == Len(entries)
<1>1. /\ entries_pc = "bind" /\ entries' = entries
      /\ conditionals' = conditionals /\ scenes' = scenes
      /\ reached' = IF reached = m THEN 1 ELSE reached + 1
      /\ entries_pc' = IF reached = m THEN "light" ELSE "bind"
  BY DEF Layers!BindEntry, Layers!LastEntry
<1>2. /\ entries \in Seq(Layers!Entries) /\ reached \in DOMAIN entries /\ Reachable(entries)
      /\ conditionals = <<>> /\ Grids(entries, grid, offline, 1 .. reached - 1)
  BY <1>1 DEF EntryInv
<1>3. m \in Nat /\ DOMAIN entries = 1 .. m /\ reached \in 1 .. m
  BY <1>2
<1>4. Grids(entries, grid', offline', 1 .. reached)
  BY <1>2, BindStep
<1> HIDE DEF m
<1>5. CASE reached = m
  <2>1. entries_pc' = "light" /\ reached' = 1 /\ reached' \in DOMAIN entries'
    BY <1>1, <1>3, <1>5
  <2>2. Grids(entries', grid', offline', DOMAIN entries')
    BY <1>1, <1>3, <1>4, <1>5
  <2>3. \A o : Through(o, 1 - 1) = {}
    BY DEF Through
  <2>4. Written(entries, <<>>, scenes, {})
    BY DEF Written, Lowered, Lit
  <2>5. Written(entries', conditionals', scenes', Through(Layers!LightingOrder', reached' - 1))
    BY <1>1, <1>2, <2>1, <2>3, <2>4
  <2> QED
    BY <1>1, <1>2, <2>1, <2>2, <2>5 DEF EntryInv
<1>6. CASE reached # m
  <2>1. entries_pc' = "bind" /\ reached' = reached + 1
    BY <1>1, <1>6
  <2>2. reached' \in 1 .. m /\ reached' - 1 = reached
    BY <1>3, <1>6, <2>1
  <2>3. Grids(entries', grid', offline', 1 .. reached' - 1)
    BY <1>1, <1>4, <2>2
  <2>4. entries' \in Seq(Layers!Entries) /\ reached' \in DOMAIN entries' /\ Reachable(entries')
    BY <1>1, <1>2, <1>3, <2>2
  <2> QED
    BY <1>1, <1>2, <2>1, <2>3, <2>4 DEF EntryInv
<1> QED
  BY <1>5, <1>6

LEMMA LightingStep ==
    ASSUME Layers!LayerAssumption, EntryInv, Layers!LightEntry
    PROVE  EntryInv'
<1> DEFINE m == Len(entries)
           o == Layers!LightingOrder
           done == Through(o, reached - 1)
<1>1. /\ entries_pc = "light" /\ entries' = entries
      /\ grid' = grid /\ offline' = offline
      /\ reached' = IF reached = m THEN reached ELSE reached + 1
      /\ entries_pc' = IF reached = m THEN "done" ELSE "light"
  BY DEF Layers!LightEntry, Layers!LastEntry
<1>2. /\ entries \in Seq(Layers!Entries) /\ reached \in DOMAIN entries /\ Reachable(entries)
      /\ Grids(entries, grid, offline, DOMAIN entries)
      /\ Written(entries, conditionals, scenes, done)
  BY <1>1 DEF EntryInv
<1>3. m \in Nat /\ DOMAIN entries = 1 .. m /\ reached \in 1 .. m
  BY <1>2
<1>4. /\ \A i \in 1 .. m : o[i] \in 1 .. m
      /\ \A i, j \in 1 .. m : i # j => o[i] # o[j]
      /\ \A n \in 1 .. m : \E i \in 1 .. m : o[i] = n
  BY <1>2, <1>3, EachEntryOnce
<1>5. Layers!LightingOrder' = o
  BY <1>1 DEF Layers!LightingOrder, Layers!OfKind
<1> HIDE DEF m, o
<1>6. 1 .. reached - 1 \subseteq 1 .. m /\ reached \notin 1 .. reached - 1
      /\ 1 .. reached = (1 .. reached - 1) \cup {reached}
  BY <1>3
<1>7. done \subseteq 1 .. m /\ o[reached] \in (1 .. m) \ done
  <2>1. \A i \in 1 .. reached - 1 : o[i] \in 1 .. m /\ o[i] # o[reached]
    BY <1>3, <1>4, <1>6
  <2>2. done = {o[i] : i \in 1 .. reached - 1}
    BY DEF Through
  <2> HIDE DEF done
  <2>3. o[reached] \in 1 .. m
    BY <1>3, <1>4
  <2> QED
    BY <2>1, <2>2, <2>3
<1>8. done \cup {o[reached]} = Through(o, reached)
  BY <1>6 DEF Through
<1> HIDE DEF done
<1>9. Written(entries, conditionals', scenes', Through(o, reached))
  <2>1. o[reached] = Layers!LightingOrder[reached]
    BY DEF o
  <2>2. Lowered(entries, conditionals', done \cup {o[reached]})
        /\ Lit(entries, scenes', done \cup {o[reached]})
    BY <1>2, <1>3, <1>7, <2>1, LightStep DEF Written
  <2> QED
    BY <1>8, <2>2 DEF Written
<1>10. entries' \in Seq(Layers!Entries) /\ Reachable(entries')
       /\ Grids(entries', grid', offline', DOMAIN entries')
  BY <1>1, <1>2
<1>11. CASE reached = m
  <2>1. Through(o, m) = 1 .. m
    BY <1>4 DEF Through
  <2>2. entries_pc' = "done" /\ reached' \in DOMAIN entries'
    BY <1>1, <1>2, <1>11
  <2>3. Written(entries', conditionals', scenes', DOMAIN entries')
    BY <1>1, <1>3, <1>9, <1>11, <2>1
  <2> QED
    BY <1>10, <2>2, <2>3 DEF EntryInv
<1>12. CASE reached # m
  <2>1. entries_pc' = "light" /\ reached' = reached + 1
    BY <1>1, <1>12
  <2>2. reached' \in 1 .. m /\ reached' - 1 = reached
    BY <1>3, <1>12, <2>1
  <2>3. Written(entries', conditionals', scenes', Through(Layers!LightingOrder', reached' - 1))
    BY <1>1, <1>5, <1>9, <2>2
  <2>4. reached' \in DOMAIN entries'
    BY <1>1, <1>3, <2>2
  <2> QED
    BY <1>10, <2>1, <2>3, <2>4 DEF EntryInv
<1> QED
  BY <1>11, <1>12

LEMMA EntryStep ==
    ASSUME Layers!LayerAssumption, EntryInv, [Layers!Next]_(Layers!vars)
    PROVE  EntryInv'
<1>1. CASE Layers!Load
  BY <1>1, LoadStep
<1>2. CASE Layers!BindEntry
  BY <1>2, BindingStep
<1>3. CASE Layers!LightEntry
  BY <1>3, LightingStep
<1>4. CASE UNCHANGED Layers!vars
  <2>1. Layers!LightingOrder' = Layers!LightingOrder
    BY <1>4 DEF Layers!vars, Layers!LightingOrder, Layers!OfKind
  <2>2. /\ entries' = entries /\ reached' = reached /\ grid' = grid /\ offline' = offline
        /\ conditionals' = conditionals /\ scenes' = scenes /\ entries_pc' = entries_pc
    BY <1>4 DEF Layers!vars
  <2> QED
    BY <2>1, <2>2 DEF EntryInv
<1> QED
  BY <1>1, <1>2, <1>3, <1>4 DEF Layers!Next

-----------------------------------------------------------------------------
(* What the keyboard shows. *)

LEMMA SameExtremes == \A S : Layers!Max(S) = Max(S) /\ Layers!Min(S) = Min(S)
BY DEF Layers!Max, Max, Layers!Min, Min

LEMMA FirstArmWins ==
    ASSUME Layers!LayerAssumption, entries \in Seq(Layers!Entries), Reachable(entries),
           Written(entries, conditionals, scenes, DOMAIN entries),
           NEW l \in Emitters, NEW truths \in SUBSET Gates, NEW n \in DOMAIN entries,
           Lights(entries, l) = {n}, NEW look \in Layers!FirstMatch(n, truths)
    PROVE  Layers!Shown(l, truths) = look
<1> DEFINE arms == entries[n].arms
           m == Len(arms)
           H == {k \in DOMAIN arms : arms[k] \in truths \cup {Layers!Always}}
           M == Layers!Matching(l, truths)
           first == Min(H)
           C == Conditional(entries, n)
           Rule(k) == RuleOf(entries, n, k, l)
<1>1. /\ m \in Nat /\ DOMAIN arms = 1 .. m /\ Arms(entries, n) = 1 .. m
      /\ l \in Target(entries, n) /\ n \in Nat
  <2>1. l \in Target(entries, n)
    BY DEF Lights
  <2> QED
    BY <2>1, EntryShape DEF Arms
<1>2. H # {} /\ look = <<n, first>>
  <2>1. look \in IF H = {} THEN {} ELSE {<<n, Layers!Min(H)>>}
    BY DEF Layers!FirstMatch
  <2> HIDE DEF H
  <2> QED
    BY <2>1, SameExtremes
<1>3. first \in H /\ \A k \in H : first <= k
  <2>1. H \in SUBSET Nat
    BY <1>1
  <2> HIDE DEF H
  <2> QED
    BY <1>2, <2>1, MinOfNaturals
<1>4. /\ C = {k \in 1 .. m : arms[k] # Layers!Always}
      /\ \A k \in H : k \in 1 .. m /\ k \in Nat
      /\ \A k \in 1 .. m : k \in H <=> arms[k] \in truths \/ arms[k] = Layers!Always
  BY <1>1 DEF Conditional
<1>5. DOMAIN conditionals = 1 .. Len(conditionals) /\ Len(conditionals) \in Nat
  <2>1. conditionals \in Seq(RulesIn(entries))
    BY DEF Written, Lowered
  <2> QED
    BY <2>1
<1>6. ASSUME NEW c \in M
      PROVE  c \in 1 .. Len(conditionals) /\ \E k \in C : k \in H /\ conditionals[c] = Rule(k)
  <2>1. /\ c \in 1 .. Len(conditionals)
        /\ conditionals[c].led = l /\ conditionals[c].when \in truths
    BY <1>5 DEF Layers!Matching
  <2>2. PICK d \in DOMAIN entries : \E k \in Conditional(entries, d) :
            \E e \in Target(entries, d) : conditionals[c] = RuleOf(entries, d, k, e)
    BY <2>1 DEF Written, Lowered
  <2>3. PICK k \in Conditional(entries, d) :
            \E e \in Target(entries, d) : conditionals[c] = RuleOf(entries, d, k, e)
    BY <2>2
  <2>4. PICK e \in Target(entries, d) : conditionals[c] = RuleOf(entries, d, k, e)
    BY <2>3
  <2>5. e = l /\ entries[d].arms[k] \in truths
    BY <2>1, <2>4, RuleFields
  <2>6. k \in DOMAIN entries[d].arms
    BY DEF Conditional, Arms
  <2>7. d \in Lights(entries, l)
    BY <2>5, <2>6 DEF Lights
  <2>8. d = n
    BY <2>7
  <2>9. k \in C /\ k \in H /\ conditionals[c] = Rule(k)
    BY <2>3, <2>4, <2>5, <2>6, <2>8
  <2> QED
    BY <2>1, <2>9
<1>7. \A k \in C : \E c \in 1 .. Len(conditionals) : conditionals[c] = Rule(k)
  BY <1>1 DEF Written, Lowered
<1>8. \A c, d \in 1 .. Len(conditionals) :
         c < d /\ conditionals[c].look[1] = conditionals[d].look[1] =>
             conditionals[c].look[2] >= conditionals[d].look[2]
  BY DEF Written, Lowered
<1>9. Layers!Shown(l, truths) =
         IF M # {} THEN conditionals[Max(M)].look
         ELSE IF l \in DOMAIN scenes THEN scenes[l] ELSE <<>>
  BY SameExtremes DEF Layers!Shown
<1>10. \A c \in 1 .. Len(conditionals) :
         conditionals[c].led = l /\ conditionals[c].when \in truths => c \in M
  BY <1>5 DEF Layers!Matching
<1>11. \A k : Rule(k).led = l /\ Rule(k).when = arms[k] /\ Rule(k).look[1] = n
              /\ Rule(k).look[2] = k /\ Rule(k).look = <<n, k>>
  BY RuleFields
<1>12. \A k \in 1 .. m : arms[k] = Layers!Always => k = m
  BY <1>1 DEF Reachable, Layers!ArmsReachable
<1>13. \A k \in 1 .. m : Lights(entries, l) = {n} /\ arms[k] = Layers!Always =>
            l \in DOMAIN scenes /\ scenes[l] = <<n, k>>
  BY <1>1 DEF Written, Lit
<1> HIDE DEF arms, m, H, M, first, C, Rule
<1>14. CASE arms[first] # Layers!Always
  <2>1. first \in C /\ arms[first] \in truths
    BY <1>3, <1>4, <1>14
  <2>2. PICK c \in 1 .. Len(conditionals) : conditionals[c] = Rule(first)
    BY <1>7, <2>1
  <2>3. c \in M
    BY <1>10, <1>11, <2>1, <2>2
  <2>4. Max(M) \in M /\ \A d \in M : d <= Max(M)
    <3>1. M \in SUBSET Nat /\ M # {} /\ \A d \in M : d <= Len(conditionals)
      BY <1>5, <1>6, <2>3
    <3> QED
      BY <1>5, <3>1, MaxOfNaturals
  <2> DEFINE top == Max(M)
  <2> HIDE DEF top
  <2>5. top \in M /\ c <= top
    BY <2>3, <2>4 DEF top
  <2>6. PICK k \in C : k \in H /\ conditionals[top] = Rule(k)
    BY <1>6, <2>5
  <2>7. top \in 1 .. Len(conditionals) /\ top \in Nat /\ c \in Nat
    BY <1>5, <1>6, <2>5
  <2>8. k = first
    <3>1. first <= k /\ k \in Nat /\ first \in Nat
      BY <1>3, <1>4, <2>6
    <3>2. CASE c = top
      BY <1>11, <2>2, <2>6, <3>2
    <3>3. CASE c < top
      <4>1. /\ conditionals[c].look[1] = n /\ conditionals[c].look[2] = first
            /\ conditionals[top].look[1] = n /\ conditionals[top].look[2] = k
        BY <1>11, <2>2, <2>6
      <4>2. first >= k
        BY <1>8, <2>7, <3>3, <4>1
      <4> QED
        BY <3>1, <4>2
    <3> QED
      BY <2>5, <2>7, <3>2, <3>3
  <2>9. conditionals[Max(M)].look = <<n, first>>
    BY <1>11, <2>6, <2>8 DEF top
  <2> QED
    BY <1>2, <1>9, <2>3, <2>9
<1>15. CASE arms[first] = Layers!Always
  <2>1. first \in 1 .. m /\ first = m
    BY <1>3, <1>4, <1>12, <1>15
  <2>2. M = {}
    <3> SUFFICES ASSUME NEW c \in M PROVE FALSE
      OBVIOUS
    <3>1. PICK k \in C : k \in H
      BY <1>6
    <3>2. k \in 1 .. m /\ arms[k] # Layers!Always /\ first <= k
      BY <1>3, <1>4, <3>1
    <3>3. k = first
      BY <1>1, <2>1, <3>2
    <3> QED
      BY <1>15, <3>2, <3>3
  <2>3. l \in DOMAIN scenes /\ scenes[l] = <<n, first>>
    BY <1>13, <1>15, <2>1
  <2> QED
    BY <1>2, <1>9, <2>2, <2>3
<1> QED
  BY <1>14, <1>15

\* For every board, every layer file and every list of arms: the last binding
\* of a key is the one in the grid, of an emitter that one entry lights the
\* first arm that holds is shown, and a file that asks nothing of the board
\* means the same without one.
THEOREM EntriesMeanWhatIsWritten == Layers!Spec => []EntriesResolveAsWritten
<1>0. Layers!LayerAssumption
  BY ConversionConstants
<1>1. Layers!Init => EntryInv
  BY <1>0, EntryStart
<1>2. EntryInv /\ [Layers!Next]_(Layers!vars) => EntryInv'
  BY <1>0, EntryStep
<1>3. EntryInv => EntriesResolveAsWritten
  <2> SUFFICES ASSUME EntryInv PROVE Layers!EntriesResolveAsWritten
    BY DEF EntriesResolveAsWritten
  <2>1. entries \in Seq(Layers!Entries)
    BY DEF EntryInv
  <2>2. Layers!FirstMatchWins
    <3> SUFFICES ASSUME entries_pc = "done", NEW l \in Emitters, NEW truths \in SUBSET Gates,
                        NEW n \in Layers!Lighting(l), Layers!Lighting(l) = {n},
                        NEW look \in Layers!FirstMatch(n, truths)
                 PROVE  Layers!Shown(l, truths) = look
      BY DEF Layers!FirstMatchWins
    <3>1. Reachable(entries) /\ Written(entries, conditionals, scenes, DOMAIN entries)
      BY DEF EntryInv
    <3>2. Layers!Lighting(l) = Lights(entries, l) /\ n \in DOMAIN entries
      BY DEF Layers!Lighting, Lights, Target
    <3> QED
      BY <1>0, <2>1, <3>1, <3>2, FirstArmWins
  <2>3. Layers!LastBindingWins
    <3> SUFFICES ASSUME entries_pc \in {"light", "done"}, NEW k \in Switches
                 PROVE  grid[k] = IF Layers!Binding(k) = {} THEN Layers!Transparent
                                  ELSE Layers!Max(Layers!Binding(k))
      BY DEF Layers!LastBindingWins
    <3> DEFINE B == Layers!Binding(k)
    <3>1. B = Binders(entries, k) \cap DOMAIN entries
      BY DEF Layers!Binding, Binders
    <3>2. B \subseteq Nat
      BY <2>1, EntryShape DEF Layers!Binding
    <3> HIDE DEF B
    <3>3. /\ B = {} => grid[k] = 0
          /\ B # {} => grid[k] \in B /\ \A m \in B : m <= grid[k]
      BY <3>1 DEF EntryInv, Grids, LastOf
    <3>4. ASSUME B # {} PROVE Layers!Max(B) = grid[k]
      <4>1. grid[k] \in B /\ grid[k] \in Nat /\ \A m \in B : m \in Nat /\ grid[k] >= m
        BY <3>2, <3>3, <3>4
      <4>2. Layers!Max(B) \in B /\ \A m \in B : Layers!Max(B) >= m
        BY <4>1 DEF Layers!Max
      <4> QED
        BY <4>1, <4>2
    <3> QED
      BY <3>3, <3>4 DEF B, Layers!Transparent
  <2>4. Layers!OfflineIsWhole
    <3> SUFFICES ASSUME entries_pc = "done", ~Layers!needs_topology
                 PROVE  /\ offline = grid
                        /\ \A n \in DOMAIN entries :
                             entries[n].arms # <<>> => entries[n].target[1] = "led"
      BY DEF Layers!OfflineIsWhole
    <3>1. Offline(entries)
      BY DEF Offline, Layers!needs_topology
    <3>2. \A n \in DOMAIN entries : entries[n].arms # <<>> => entries[n].target[1] = "led"
      BY DEF Layers!needs_topology, Layers!led_needs_topology
    <3> QED
      BY <3>1, <3>2 DEF EntryInv, Grids
  <2> QED
    BY <2>2, <2>3, <2>4 DEF Layers!EntriesResolveAsWritten
<1> QED
  BY <1>1, <1>2, <1>3, PTL DEF Layers!Spec

-----------------------------------------------------------------------------
(* Keycodes.                                                               *)

Named == Keys!Fixed \cup Keys!Cadets \cup {Keys!ShiftEnter}

\* The codes that own a name lie apart from every range of codes.
LEMMA NamedCodes ==
    ASSUME NEW c \in Named
    PROVE  /\ c \in Int
           /\ 30596 <= c /\ c <= 31865
BY DEF Named, Keys!Fixed, Keys!Cadets, Keys!ShiftEnter

LEMMA NamedApart ==
    /\ \A c \in Keys!Fixed : c \notin Keys!Cadets /\ c # Keys!ShiftEnter
    /\ \A c \in Keys!Cadets : c # Keys!ShiftEnter
BY DEF Keys!Fixed, Keys!Cadets, Keys!ShiftEnter

\* What from_via_keycode makes of a code, range by range.
LEMMA FromLowCodes ==
    ASSUME NEW c \in Nat, c < 20480
    PROVE  Keys!from_via_keycode(c) =
             IF c = 0 THEN Keys!No
             ELSE IF c = 1 THEN Keys!Action("trans", 0, 0, 0)
             ELSE IF c < 256 THEN Keys!Action("hid", 0, 0, c)
             ELSE IF c < 8192
             THEN Keys!Action("chord", 0, Keys!from_packed_bits(c \div 256), Keys!KeyOf(c))
             ELSE IF c < 16384
             THEN Keys!Action("mt", 0, Keys!from_packed_bits((c \div 256) % 32), Keys!KeyOf(c))
             ELSE Keys!Action("lt", (c \div 256) % 16, 0, Keys!KeyOf(c))
<1>1. c \notin Keys!Fixed /\ c \notin Keys!Cadets /\ c # Keys!ShiftEnter
  BY NamedCodes DEF Named
<1> QED
  BY <1>1 DEF Keys!from_via_keycode, Keys!Within

LEMMA FromLayerCodes ==
    ASSUME NEW c \in Nat, 20480 <= c, c < 28672
    PROVE  Keys!from_via_keycode(c) =
             IF c < 20992
             THEN Keys!Action("LM", (c \div 32) % 16, Keys!from_packed_bits(c % 32), 0)
             ELSE IF c < 21152 \/ (21216 <= c /\ c < 21248)
             THEN Keys!Action(Keys!VerbOf(c), Keys!LayerOf(c), 0, 0)
             ELSE IF c < 21184
             THEN Keys!Action("OSM", 0, Keys!from_packed_bits(c % 32), 0)
             ELSE IF 22272 <= c /\ c < 22528 THEN Keys!Action("morse", Keys!KeyOf(c), 0, 0)
             ELSE Keys!No
<1>1. c \notin Keys!Fixed /\ c \notin Keys!Cadets /\ c # Keys!ShiftEnter
  BY NamedCodes DEF Named
<1> QED
  BY <1>1 DEF Keys!from_via_keycode, Keys!Within

LEMMA FromHighCodes ==
    ASSUME NEW c \in Nat, 28672 <= c
    PROVE  Keys!from_via_keycode(c) =
             IF c >= 32768
             THEN Keys!Action("lmt", (c \div 2048) % 16, (c \div 256) % 8, Keys!KeyOf(c))
             ELSE IF c < 28704
             THEN Keys!Action("mod", 0, Keys!from_packed_bits(c % 32), 0)
             ELSE IF 30464 <= c /\ c < 30496 THEN Keys!Action("macro", c % 32, 0, 0)
             ELSE IF 32256 <= c /\ c < 32288 THEN Keys!Action("user", c % 32, 0, 0)
             ELSE IF c \in Keys!Fixed THEN Keys!Action("fixed", c, 0, 0)
             ELSE IF c \in Keys!Cadets THEN Keys!Action("cadet", c, 0, 0)
             ELSE IF c = Keys!ShiftEnter THEN Keys!Action("mt", 0, 18, 40) ELSE Keys!No
<1>1. CASE c \in Named
  BY <1>1, NamedCodes, NamedApart DEF Named, Keys!from_via_keycode, Keys!Within
<1>2. CASE c \notin Named
  BY <1>2 DEF Named, Keys!from_via_keycode, Keys!Within
<1> QED
  BY <1>1, <1>2

\* The base of a layer verb is the verb's own, and the verb is found again.
LEMMA LayerVerbCodes ==
    ASSUME NEW v \in Keys!LayerVerbs, NEW n \in Nat, n < 16
    PROVE  /\ Keys!Base(v) \in Nat /\ Keys!Base(v) >= 20992 /\ Keys!Base(v) <= 21216
           /\ \/ Keys!Base(v) + n < 21136 \/ (21216 <= Keys!Base(v) /\ Keys!Base(v) + n < 21232)
           /\ Keys!VerbOf(Keys!Base(v) + n) = v
           /\ Keys!LayerOf(Keys!Base(v) + n) = n
<1> DEFINE code == Keys!Base(v) + n
<1>1. /\ Keys!Base("TO") = 20992 /\ Keys!Base("MO") = 21024 /\ Keys!Base("DF") = 21056
      /\ Keys!Base("TG") = 21088 /\ Keys!Base("OSL") = 21120 /\ Keys!Base("PDF") = 21216
  BY DEF Keys!Base
<1>2. v \in {"TO", "MO", "DF", "TG", "OSL", "PDF"}
  BY DEF Keys!LayerVerbs
<1>3. code - (code % 32) = Keys!Base(v) /\ code % 16 = n
  BY <1>1, <1>2
<1>4. \A w \in Keys!LayerVerbs : Keys!Base(w) = Keys!Base(v) => w = v
  BY <1>1, <1>2 DEF Keys!LayerVerbs
<1>5. /\ Keys!Base(v) \in Nat /\ Keys!Base(v) >= 20992 /\ Keys!Base(v) <= 21216
      /\ \/ code < 21136 \/ (21216 <= Keys!Base(v) /\ code < 21232)
  BY <1>1, <1>2
<1> HIDE DEF code
<1>6. Keys!VerbOf(code) = v
  BY <1>3, <1>4 DEF Keys!VerbOf
<1> QED
  BY <1>3, <1>5, <1>6 DEF code, Keys!LayerOf

LEMMA Fits ==
    ASSUME NEW a, Keys!Representable(a)
    PROVE  /\ a.kind \in Keys!LayerVerbs \cup {"LM", "lt", "lmt"} => a.n < 16
           /\ a.kind \in {"macro", "user"} => a.n < 32
           /\ a.kind \notin {"ltx", "other"}
           /\ ~ (a.kind = "chord" /\ a.mods = 0)
<1>1. CASE a.kind \in Keys!LayerVerbs \cup {"LM", "lt", "lmt"}
  BY <1>1 DEF Keys!Representable, Keys!LayerVerbs
<1>2. CASE a.kind \in {"macro", "user"}
  BY <1>2 DEF Keys!Representable, Keys!LayerVerbs
<1>3. CASE a.kind \in {"ltx", "other", "chord"}
  BY <1>3 DEF Keys!Representable, Keys!LayerVerbs
<1> QED
  BY <1>1, <1>2, <1>3

LEMMA ActionFields ==
    ASSUME NEW kind, NEW n, NEW m, NEW k
    PROVE  /\ Keys!Action(kind, n, m, k).kind = kind
           /\ Keys!Action(kind, n, m, k).n = n
           /\ Keys!Action(kind, n, m, k).mods = m
           /\ Keys!Action(kind, n, m, k).key = k
BY DEF Keys!Action

\* The modifiers of an action, as they are packed.
LEMMA PackedMods ==
    ASSUME NEW m \in Keys!Mods
    PROVE  m \in Nat /\ m < 32 /\ m # 16 /\ Keys!from_packed_bits(m) = m
BY DEF Keys!Mods, Keys!from_packed_bits

\* The code of an action, kind by kind.
LEMMA KeyCodes ==
    ASSUME NEW a, NEW m \in Keys!Mods, NEW k \in Nat, 2 <= k, k < 256,
           \/ a = Keys!Action("hid", 0, 0, k)
           \/ a = Keys!Action("chord", 0, m, k) /\ m # 0
           \/ a = Keys!Action("mt", 0, m, k)
    PROVE  /\ Keys!to_via_keycode(a) \in Nat /\ Keys!to_via_keycode(a) < 65536
           /\ Keys!from_via_keycode(Keys!to_via_keycode(a)) = a
<1>0. m \in Nat /\ m < 32 /\ m # 16 /\ Keys!from_packed_bits(m) = m
  BY PackedMods
<1>1. CASE a = Keys!Action("hid", 0, 0, k)
  <2>1. Keys!to_via_keycode(a) = k
    <3>1. a.kind = "hid" /\ a.key = k
      BY <1>1, ActionFields
    <3> QED
      BY <3>1 DEF Keys!to_via_keycode, Keys!LayerVerbs
  <2> QED
    BY <1>1, <2>1, FromLowCodes
<1>2. CASE a = Keys!Action("chord", 0, m, k) /\ m # 0
  <2> DEFINE code == m * 256 + k
  <2>1. Keys!to_via_keycode(a) = code
    <3>1. a.kind = "chord" /\ a.key = k /\ a.mods = m
      BY <1>2, ActionFields
    <3> QED
      BY <3>1 DEF Keys!to_via_keycode, Keys!LayerVerbs
  <2>2. code \in Nat /\ 256 <= code /\ code < 8192 /\ code \div 256 = m /\ code % 256 = k
    BY <1>0, <1>2
  <2> HIDE DEF code
  <2>3. Keys!from_via_keycode(code) = Keys!Action("chord", 0, m, k)
    BY <1>0, <2>2, FromLowCodes DEF Keys!KeyOf
  <2> QED
    BY <1>2, <2>1, <2>2, <2>3
<1>3. CASE a = Keys!Action("mt", 0, m, k)
  <2> DEFINE code == 8192 + m * 256 + k
  <2>1. Keys!to_via_keycode(a) = code
    <3>1. a.kind = "mt" /\ a.key = k /\ a.mods = m
      BY <1>3, ActionFields
    <3> QED
      BY <3>1 DEF Keys!to_via_keycode, Keys!LayerVerbs
  <2>2. /\ code \in Nat /\ 8192 <= code /\ code < 16384
        /\ (code \div 256) % 32 = m /\ code % 256 = k
    BY <1>0
  <2> HIDE DEF code
  <2>3. Keys!from_via_keycode(code) = Keys!Action("mt", 0, m, k)
    BY <1>0, <2>2, FromLowCodes DEF Keys!KeyOf
  <2> QED
    BY <1>3, <2>1, <2>2, <2>3
<1> QED
  BY <1>1, <1>2, <1>3

LEMMA LayerKeyCodes ==
    ASSUME NEW a, NEW n \in Nat, n < 16, NEW m \in Keys!Mods, NEW i \in Nat, i < 8,
           NEW k \in Nat, 2 <= k, k < 256,
           \/ a = Keys!Action("lt", n, 0, k)
           \/ a = Keys!Action("LM", n, m, 0)
           \/ a = Keys!Action("lmt", n, i, k)
    PROVE  /\ Keys!to_via_keycode(a) \in Nat /\ Keys!to_via_keycode(a) < 65536
           /\ Keys!from_via_keycode(Keys!to_via_keycode(a)) = a
<1>0. m \in Nat /\ m < 32 /\ m # 16 /\ Keys!from_packed_bits(m) = m
  BY PackedMods
<1>1. CASE a = Keys!Action("lt", n, 0, k)
  <2> DEFINE code == 16384 + n * 256 + k
  <2>1. Keys!to_via_keycode(a) = code
    <3>1. a.kind = "lt" /\ a.n = n /\ a.key = k
      BY <1>1, ActionFields
    <3> QED
      BY <3>1 DEF Keys!to_via_keycode, Keys!LayerVerbs
  <2>2. /\ code \in Nat /\ 16384 <= code /\ code < 20480
        /\ (code \div 256) % 16 = n /\ code % 256 = k
    BY <1>0
  <2> HIDE DEF code
  <2>3. Keys!from_via_keycode(code) = Keys!Action("lt", n, 0, k)
    BY <1>0, <2>2, FromLowCodes DEF Keys!KeyOf
  <2> QED
    BY <1>1, <2>1, <2>2, <2>3
<1>2. CASE a = Keys!Action("LM", n, m, 0)
  <2> DEFINE code == 20480 + n * 32 + m
  <2>1. Keys!to_via_keycode(a) = code
    <3>1. a.kind = "LM" /\ a.n = n /\ a.mods = m
      BY <1>2, ActionFields
    <3> QED
      BY <3>1 DEF Keys!to_via_keycode, Keys!LayerVerbs
  <2>2. /\ code \in Nat /\ 20480 <= code /\ code < 20992
        /\ (code \div 32) % 16 = n /\ code % 32 = m
    BY <1>0
  <2> HIDE DEF code
  <2>3. Keys!from_via_keycode(code) = Keys!Action("LM", n, m, 0)
    BY <1>0, <2>2, FromLayerCodes DEF Keys!KeyOf
  <2> QED
    BY <1>2, <2>1, <2>2, <2>3
<1>3. CASE a = Keys!Action("lmt", n, i, k)
  <2> DEFINE code == 32768 + n * 2048 + i * 256 + k
  <2>1. Keys!to_via_keycode(a) = code
    <3>1. a.kind = "lmt" /\ a.n = n /\ a.mods = i /\ a.key = k
      BY <1>3, ActionFields
    <3> QED
      BY <3>1 DEF Keys!to_via_keycode, Keys!LayerVerbs
  <2>2. /\ code \in Nat /\ 32768 <= code /\ code < 65536
        /\ (code \div 2048) % 16 = n /\ (code \div 256) % 8 = i /\ code % 256 = k
    BY <1>0
  <2> HIDE DEF code
  <2>3. Keys!from_via_keycode(code) = Keys!Action("lmt", n, i, k)
    BY <1>0, <2>2, FromHighCodes DEF Keys!KeyOf
  <2> QED
    BY <1>3, <2>1, <2>2, <2>3
<1> QED
  BY <1>1, <1>2, <1>3

LEMMA ModifierCodes ==
    ASSUME NEW a, NEW m \in Keys!Mods,
           a = Keys!Action("mod", 0, m, 0) \/ a = Keys!Action("OSM", 0, m, 0)
    PROVE  /\ Keys!to_via_keycode(a) \in Nat /\ Keys!to_via_keycode(a) < 65536
           /\ Keys!from_via_keycode(Keys!to_via_keycode(a)) = a
<1>0. m \in Nat /\ m < 32 /\ m # 16 /\ Keys!from_packed_bits(m) = m
  BY PackedMods
<1>1. CASE a = Keys!Action("mod", 0, m, 0)
  <2> DEFINE code == 28672 + m
  <2>1. Keys!to_via_keycode(a) = code
    <3>1. a.kind = "mod" /\ a.mods = m
      BY <1>1, ActionFields
    <3> QED
      BY <3>1 DEF Keys!to_via_keycode, Keys!LayerVerbs
  <2>2. code \in Nat /\ 28672 <= code /\ code < 28704 /\ code % 32 = m
    BY <1>0
  <2> HIDE DEF code
  <2>3. Keys!from_via_keycode(code) = Keys!Action("mod", 0, m, 0)
    BY <1>0, <2>2, FromHighCodes DEF Keys!KeyOf
  <2> QED
    BY <1>1, <2>1, <2>2, <2>3
<1>2. CASE a = Keys!Action("OSM", 0, m, 0)
  <2> DEFINE code == 21152 + m
  <2>1. Keys!to_via_keycode(a) = code
    <3>1. a.kind = "OSM" /\ a.mods = m
      BY <1>2, ActionFields
    <3> QED
      BY <3>1 DEF Keys!to_via_keycode, Keys!LayerVerbs
  <2>2. code \in Nat /\ 21152 <= code /\ code < 21184 /\ code % 32 = m
    BY <1>0
  <2> HIDE DEF code
  <2>3. Keys!from_via_keycode(code) = Keys!Action("OSM", 0, m, 0)
    BY <1>0, <2>2, FromLayerCodes DEF Keys!KeyOf
  <2> QED
    BY <1>2, <2>1, <2>2, <2>3
<1> QED
  BY <1>1, <1>2

LEMMA IndexCodes ==
    ASSUME NEW a, NEW n \in Nat, n < 256,
           \/ a = Keys!Action("macro", n, 0, 0) /\ n < 32
           \/ a = Keys!Action("user", n, 0, 0) /\ n < 32
           \/ a = Keys!Action("morse", n, 0, 0)
    PROVE  /\ Keys!to_via_keycode(a) \in Nat /\ Keys!to_via_keycode(a) < 65536
           /\ Keys!from_via_keycode(Keys!to_via_keycode(a)) = a
<1>1. CASE a = Keys!Action("macro", n, 0, 0) /\ n < 32
  <2> DEFINE code == 30464 + n
  <2>1. Keys!to_via_keycode(a) = code
    <3>1. a.kind = "macro" /\ a.n = n
      BY <1>1, ActionFields
    <3> QED
      BY <3>1 DEF Keys!to_via_keycode, Keys!LayerVerbs
  <2>2. code \in Nat /\ 30464 <= code /\ code < 30496 /\ code % 32 = n
    BY <1>1
  <2> HIDE DEF code
  <2>3. Keys!from_via_keycode(code) = Keys!Action("macro", n, 0, 0)
    BY <2>2, FromHighCodes DEF Keys!KeyOf
  <2> QED
    BY <1>1, <2>1, <2>2, <2>3
<1>2. CASE a = Keys!Action("user", n, 0, 0) /\ n < 32
  <2> DEFINE code == 32256 + n
  <2>1. Keys!to_via_keycode(a) = code
    <3>1. a.kind = "user" /\ a.n = n
      BY <1>2, ActionFields
    <3> QED
      BY <1>2, <3>1 DEF Keys!to_via_keycode, Keys!LayerVerbs
  <2>2. code \in Nat /\ 32256 <= code /\ code < 32288 /\ code % 32 = n
    BY <1>2
  <2> HIDE DEF code
  <2>3. Keys!from_via_keycode(code) = Keys!Action("user", n, 0, 0)
    BY <2>2, FromHighCodes DEF Keys!KeyOf
  <2> QED
    BY <1>2, <2>1, <2>2, <2>3
<1>3. CASE a = Keys!Action("morse", n, 0, 0)
  <2> DEFINE code == 22272 + n
  <2>1. Keys!to_via_keycode(a) = code
    <3>1. a.kind = "morse" /\ a.n = n
      BY <1>3, ActionFields
    <3> QED
      BY <3>1 DEF Keys!to_via_keycode, Keys!LayerVerbs
  <2>2. code \in Nat /\ 22272 <= code /\ code < 22528 /\ code % 256 = n
    BY <1>3
  <2> HIDE DEF code
  <2>3. Keys!from_via_keycode(code) = Keys!Action("morse", n, 0, 0)
    BY <2>2, FromLayerCodes DEF Keys!KeyOf
  <2> QED
    BY <1>3, <2>1, <2>2, <2>3
<1> QED
  BY <1>1, <1>2, <1>3

LEMMA NameCodes ==
    ASSUME NEW a, NEW n \in Named,
           \/ a = Keys!Action("fixed", n, 0, 0) /\ n \in Keys!Fixed
           \/ a = Keys!Action("cadet", n, 0, 0) /\ n \in Keys!Cadets
    PROVE  /\ Keys!to_via_keycode(a) \in Nat /\ Keys!to_via_keycode(a) < 65536
           /\ Keys!from_via_keycode(Keys!to_via_keycode(a)) = a
<1>1. a.kind \in {"fixed", "cadet"} /\ a.n = n
  BY ActionFields
<1>2. Keys!to_via_keycode(a) = n
  BY <1>1 DEF Keys!to_via_keycode, Keys!LayerVerbs
<1>3. n \in Nat /\ 30596 <= n /\ n <= 31865
  BY NamedCodes
<1>4. Keys!from_via_keycode(n) = a
  BY <1>3, FromHighCodes, NamedApart
<1> QED
  BY <1>2, <1>3, <1>4

LEMMA VerbCodes ==
    ASSUME NEW v \in Keys!LayerVerbs, NEW n \in Nat, n < 16,
           NEW a, a = Keys!Action(v, n, 0, 0)
    PROVE  /\ Keys!to_via_keycode(a) = Keys!Base(v) + n
           /\ Keys!to_via_keycode(a) \in Nat /\ Keys!to_via_keycode(a) < 65536
           /\ Keys!from_via_keycode(Keys!to_via_keycode(a)) = a
<1> DEFINE code == Keys!Base(v) + n
<1>1. a.kind = v /\ a.n = n
  BY ActionFields
<1>2. Keys!to_via_keycode(a) = code
  BY <1>1 DEF Keys!to_via_keycode, Keys!LayerVerbs
<1>3. /\ code \in Nat /\ 20992 <= code
      /\ code < 21136 \/ (21216 <= code /\ code < 21232)
      /\ Keys!VerbOf(code) = v /\ Keys!LayerOf(code) = n
  BY LayerVerbCodes
<1> HIDE DEF code
<1>4. Keys!from_via_keycode(code) = a
  BY <1>3, FromLayerCodes
<1> QED
  BY <1>2, <1>3, <1>4 DEF code

\* The constants, in comparisons.
LEMMA KeyBounds ==
    ASSUME Keys!KeycodesAssumption
    PROVE  /\ \A k \in HidKeys : k \in Nat /\ 2 <= k /\ k < 256
           /\ \A l \in 0 .. MaxLayer : l \in Nat
           /\ \A i \in 0 .. MaxIndex : i \in Nat /\ i < 256
           /\ 0 \in Keys!Mods
           /\ \A c \in Codes : c \in Nat /\ c < 65536
<1>1. /\ \A k \in HidKeys : k \in 2 .. 255
      /\ MaxLayer \in 0 .. 31 /\ MaxIndex \in 0 .. 255
      /\ \A c \in Codes : c \in 0 .. Keys!MaxCode
  BY DEF Keys!KeycodesAssumption
<1>2. Keys!MaxCode \in Nat
  BY DEF Keys!MaxCode
<1>3. \A c \in Codes : c \in Nat /\ c <= Keys!MaxCode
  BY <1>1, <1>2
<1>4. \A c \in Codes : c \in Nat /\ c < 65536
  BY <1>3 DEF Keys!MaxCode
<1>5. 0 \in Keys!Mods
  BY DEF Keys!Mods
<1> QED
  BY <1>1, <1>4, <1>5

\* Every action that fits its field comes back from its code.
LEMMA ActionComesBack ==
    ASSUME Keys!KeycodesAssumption, NEW a \in Keys!Actions, Keys!Representable(a)
    PROVE  /\ Keys!to_via_keycode(a) \in Nat /\ Keys!to_via_keycode(a) < 65536
           /\ Keys!from_via_keycode(Keys!to_via_keycode(a)) = a
<1>0. /\ \A k \in HidKeys : k \in Nat /\ 2 <= k /\ k < 256
      /\ \A l \in 0 .. MaxLayer : l \in Nat
      /\ \A i \in 0 .. MaxIndex : i \in Nat /\ i < 256
      /\ 0 \in Keys!Mods
  BY KeyBounds
<1>1. CASE a \in {Keys!No, Keys!Action("trans", 0, 0, 0), Keys!Action("other", 0, 0, 0)}
  <2>1. a = Keys!No \/ a = Keys!Action("trans", 0, 0, 0)
    BY <1>1, Fits, ActionFields
  <2>2. a.kind = IF a = Keys!No THEN "no" ELSE "trans"
    BY <2>1, ActionFields DEF Keys!No
  <2>3. Keys!to_via_keycode(a) = IF a = Keys!No THEN 0 ELSE 1
    BY <2>2 DEF Keys!to_via_keycode, Keys!LayerVerbs
  <2>4. /\ Keys!from_via_keycode(0) = Keys!No
        /\ Keys!from_via_keycode(1) = Keys!Action("trans", 0, 0, 0)
    BY FromLowCodes
  <2> QED
    BY <2>1, <2>3, <2>4
<1>2. CASE a \in {Keys!Action("hid", 0, 0, k) : k \in HidKeys}
  BY <1>0, <1>2, KeyCodes
<1>3. CASE a \in {Keys!Action("chord", 0, m, k) : m \in Keys!Mods, k \in HidKeys}
  <2>1. PICK m \in Keys!Mods, k \in HidKeys : a = Keys!Action("chord", 0, m, k)
    BY <1>3
  <2>2. m # 0
    BY <1>0, <2>1, Fits, ActionFields
  <2> QED
    BY <1>0, <2>1, <2>2, KeyCodes
<1>4. CASE a \in {Keys!Action("mod", 0, m, 0) : m \in Keys!Mods}
              \cup {Keys!Action("OSM", 0, m, 0) : m \in Keys!Mods}
  BY <1>4, ModifierCodes
<1>5. CASE a \in {Keys!Action(v, l, 0, 0) : v \in Keys!LayerVerbs, l \in 0 .. MaxLayer}
  <2>1. PICK v \in Keys!LayerVerbs, l \in 0 .. MaxLayer : a = Keys!Action(v, l, 0, 0)
    BY <1>5
  <2>2. l \in Nat /\ l < 16
    BY <1>0, <2>1, Fits, ActionFields
  <2> QED
    BY <1>0, <2>1, <2>2, VerbCodes
<1>6. CASE a \in {Keys!Action("LM", l, m, 0) : l \in 0 .. MaxLayer, m \in Keys!Mods}
  <2>1. PICK l \in 0 .. MaxLayer, m \in Keys!Mods : a = Keys!Action("LM", l, m, 0)
    BY <1>6
  <2>2. l \in Nat /\ l < 16
    BY <1>0, <2>1, Fits, ActionFields
  <2> QED
    BY <1>0, <2>1, <2>2, LayerKeyCodes
<1>7. CASE a \in {Keys!Action("lt", l, 0, k) : l \in 0 .. MaxLayer, k \in HidKeys}
  <2>1. PICK l \in 0 .. MaxLayer, k \in HidKeys : a = Keys!Action("lt", l, 0, k)
    BY <1>7
  <2>2. l \in Nat /\ l < 16 /\ k \in Nat /\ 2 <= k /\ k < 256
    BY <1>0, <2>1, Fits, ActionFields
  <2> QED
    BY <1>0, <2>1, <2>2, LayerKeyCodes
<1>8. a \notin {Keys!Action("ltx", l, 0, k) : l \in 0 .. MaxLayer, k \in HidKeys}
  BY Fits, ActionFields
<1>9. CASE a \in {Keys!Action("mt", 0, m, k) : m \in Keys!Mods, k \in HidKeys}
  BY <1>0, <1>9, KeyCodes
<1>10. CASE a \in {Keys!Action("lmt", l, i, k) : l \in 0 .. MaxLayer, i \in 0 .. 7, k \in HidKeys}
  <2>1. PICK l \in 0 .. MaxLayer, i \in 0 .. 7, k \in HidKeys : a = Keys!Action("lmt", l, i, k)
    BY <1>10
  <2>2. l \in Nat /\ l < 16 /\ i \in Nat /\ i < 8 /\ k \in Nat /\ 2 <= k /\ k < 256
    BY <1>0, <2>1, Fits, ActionFields
  <2> QED
    BY <1>0, <2>1, <2>2, LayerKeyCodes
<1>11. CASE a \in {Keys!Action(v, i, 0, 0) : v \in {"macro", "morse", "user"}, i \in 0 .. MaxIndex}
  <2>1. PICK v \in {"macro", "morse", "user"}, i \in 0 .. MaxIndex : a = Keys!Action(v, i, 0, 0)
    BY <1>11
  <2>2. i \in Nat /\ i < 256 /\ (v # "morse" => i < 32)
    BY <1>0, <2>1, Fits, ActionFields
  <2> QED
    BY <1>0, <2>1, <2>2, IndexCodes
<1>12. CASE a \in {Keys!Action("fixed", c, 0, 0) : c \in Keys!Fixed}
               \cup {Keys!Action("cadet", c, 0, 0) : c \in Keys!Cadets}
  BY <1>12, NameCodes DEF Named
<1> QED
  BY <1>1, <1>2, <1>3, <1>4, <1>5, <1>6, <1>7, <1>8, <1>9, <1>10, <1>11, <1>12 DEF Keys!Actions

LEMMA SpellingFields ==
    ASSUME NEW verb, NEW n, NEW m, NEW k
    PROVE  /\ Keys!Spelling(verb, n, m, k).verb = verb
           /\ Keys!Spelling(verb, n, m, k).n = n
           /\ Keys!Spelling(verb, n, m, k).mods = m
           /\ Keys!Spelling(verb, n, m, k).key = k
BY DEF Keys!Spelling

\* A code spelled whole is read back.
LEMMA WholeReparses ==
    ASSUME NEW c
    PROVE  Keys!parse_keycode(Keys!Whole(c)) = c
<1>1. Keys!Whole(c).verb \in {"name", "0x"} /\ Keys!Whole(c).key = c
  BY SpellingFields DEF Keys!Whole
<1> QED
  BY <1>1 DEF Keys!parse_keycode, Keys!ModListVerbs, Keys!LayerVerbs

\* What format_keycode makes of a code, range by range.
LEMMA FormatLowCodes ==
    ASSUME NEW c \in Nat, c < 20992
    PROVE  Keys!format_keycode(c) =
             IF c < 256 THEN Keys!Whole(c)
             ELSE IF c < 8192 THEN
                 IF ((c \div 256) % 32) % 16 # 0
                 THEN Keys!Spelling("wrap", 0, (c \div 256) % 32, Keys!KeyOf(c))
                 ELSE Keys!Whole(c)
             ELSE IF c < 16384 THEN
                 IF ((c \div 256) % 32) % 16 # 0
                 THEN Keys!Spelling("MT", 0, (c \div 256) % 32, Keys!KeyOf(c))
                 ELSE Keys!Whole(c)
             ELSE IF c < 20480
             THEN Keys!Spelling("LT", (c \div 256) % 16, 0, Keys!KeyOf(c))
             ELSE IF c % 16 # 0
             THEN Keys!Spelling("LM", (c \div 32) % 16, c % 32, 0)
             ELSE Keys!Whole(c)
BY DEF Keys!format_keycode, Keys!Within

LEMMA FormatHighCodes ==
    ASSUME NEW c \in Nat, 20992 <= c
    PROVE  Keys!format_keycode(c) =
             IF c >= 32768
             THEN Keys!Spelling("LMT", (c \div 2048) % 16, (c \div 256) % 8, Keys!KeyOf(c))
             ELSE IF c < 21152 \/ (21216 <= c /\ c < 21248)
             THEN Keys!Spelling(Keys!VerbOf(c), Keys!LayerOf(c), 0, 0)
             ELSE IF c < 21184 /\ c % 16 # 0
             THEN Keys!Spelling("OSM", 0, c % 32, 0)
             ELSE IF 21184 <= c /\ c < 21216
             THEN Keys!Spelling("TT", Keys!LayerOf(c), 0, 0)
             ELSE IF 22272 <= c /\ c < 22528
             THEN Keys!Spelling("TD", Keys!KeyOf(c), 0, 0)
             ELSE IF 28672 <= c /\ c < 28704 /\ c % 32 # 0
             THEN Keys!Spelling("MOD", 0, c % 32, 0)
             ELSE IF 30464 <= c /\ c < 30496 THEN Keys!Spelling("MACRO", c % 32, 0, 0)
             ELSE IF 32256 <= c /\ c < 32288 THEN Keys!Spelling("USER", c % 32, 0, 0)
             ELSE Keys!Whole(c)
BY DEF Keys!format_keycode, Keys!Within

\* What the parser computes from a spelling.
LEMMA ParsedFields ==
    ASSUME NEW s
    PROVE  /\ s.verb = "wrap" => Keys!parse_keycode(s) = s.mods * 256 + s.key
           /\ s.verb = "LT" => Keys!parse_keycode(s) = 16384 + s.n * 256 + s.key
           /\ s.verb = "LMT" =>
                Keys!parse_keycode(s) = 32768 + s.n * 2048 + s.mods * 256 + s.key
           /\ s.verb = "TD" => Keys!parse_keycode(s) = 22272 + s.n
           /\ s.verb = "MACRO" => Keys!parse_keycode(s) = 30464 + s.n
           /\ s.verb = "USER" => Keys!parse_keycode(s) = 32256 + s.n
           /\ s.verb \in Keys!LayerVerbs => Keys!parse_keycode(s) = Keys!Base(s.verb) + s.n
           /\ s.mods % 16 # 0 =>
                /\ s.verb = "MT" => Keys!parse_keycode(s) = 8192 + s.mods * 256 + s.key
                /\ s.verb = "LM" => Keys!parse_keycode(s) = 20480 + s.n * 32 + s.mods
                /\ s.verb = "OSM" => Keys!parse_keycode(s) = 21152 + s.mods
                /\ s.verb = "MOD" => Keys!parse_keycode(s) = 28672 + s.mods
<1> USE DEF Keys!parse_keycode, Keys!ModListVerbs, Keys!LayerVerbs
<1>1. s.verb = "wrap" => Keys!parse_keycode(s) = s.mods * 256 + s.key
  OBVIOUS
<1>2. s.verb = "LT" => Keys!parse_keycode(s) = 16384 + s.n * 256 + s.key
  OBVIOUS
<1>3. s.verb = "LMT" => Keys!parse_keycode(s) = 32768 + s.n * 2048 + s.mods * 256 + s.key
  OBVIOUS
<1>4. /\ s.verb = "TD" => Keys!parse_keycode(s) = 22272 + s.n
      /\ s.verb = "MACRO" => Keys!parse_keycode(s) = 30464 + s.n
      /\ s.verb = "USER" => Keys!parse_keycode(s) = 32256 + s.n
  OBVIOUS
<1>5. s.verb \in Keys!LayerVerbs => Keys!parse_keycode(s) = Keys!Base(s.verb) + s.n
  OBVIOUS
<1>6. s.mods % 16 # 0 =>
        /\ s.verb = "MT" => Keys!parse_keycode(s) = 8192 + s.mods * 256 + s.key
        /\ s.verb = "LM" => Keys!parse_keycode(s) = 20480 + s.n * 32 + s.mods
  OBVIOUS
<1>7. s.mods % 16 # 0 =>
        /\ s.verb = "OSM" => Keys!parse_keycode(s) = 21152 + s.mods
        /\ s.verb = "MOD" => Keys!parse_keycode(s) = 28672 + s.mods
  OBVIOUS
<1> HIDE DEF Keys!parse_keycode, Keys!ModListVerbs, Keys!LayerVerbs
<1> QED
  BY <1>1, <1>2, <1>3, <1>4, <1>5, <1>6, <1>7

LEMMA CodeComesBack ==
    ASSUME NEW c \in Nat, c < 65536, Keys!Faithful(c)
    PROVE  Keys!parse_keycode(Keys!format_keycode(c)) = c
<1> DEFINE bits == (c \div 256) % 32
<1>1. CASE Keys!format_keycode(c) = Keys!Whole(c)
  BY <1>1, WholeReparses
<1>2. CASE 256 <= c /\ c < 8192 /\ bits % 16 # 0
  <2> DEFINE s == Keys!Spelling("wrap", 0, bits, Keys!KeyOf(c))
  <2>1. Keys!format_keycode(c) = s
    BY <1>2, FormatLowCodes
  <2>2. s.verb = "wrap" /\ s.n = 0 /\ s.mods = bits /\ s.key = Keys!KeyOf(c)
    BY SpellingFields
  <2>3. bits * 256 + Keys!KeyOf(c) = c
    BY <1>2 DEF Keys!KeyOf
  <2> HIDE DEF s
  <2> QED
    BY <1>2, <2>1, <2>2, <2>3, ParsedFields
<1>3. CASE 8192 <= c /\ c < 16384 /\ bits % 16 # 0
  <2> DEFINE s == Keys!Spelling("MT", 0, bits, Keys!KeyOf(c))
  <2>1. Keys!format_keycode(c) = s
    BY <1>3, FormatLowCodes
  <2>2. s.verb = "MT" /\ s.n = 0 /\ s.mods = bits /\ s.key = Keys!KeyOf(c)
    BY SpellingFields
  <2>3. 8192 + bits * 256 + Keys!KeyOf(c) = c
    BY <1>3 DEF Keys!KeyOf
  <2> HIDE DEF s
  <2> QED
    BY <1>3, <2>1, <2>2, <2>3, ParsedFields
<1>4. CASE 16384 <= c /\ c < 20480
  <2> DEFINE s == Keys!Spelling("LT", (c \div 256) % 16, 0, Keys!KeyOf(c))
  <2>1. Keys!format_keycode(c) = s
    BY <1>4, FormatLowCodes
  <2>2. s.verb = "LT" /\ s.n = (c \div 256) % 16 /\ s.mods = 0 /\ s.key = Keys!KeyOf(c)
    BY SpellingFields
  <2>3. 16384 + ((c \div 256) % 16) * 256 + Keys!KeyOf(c) = c
    BY <1>4 DEF Keys!KeyOf
  <2> HIDE DEF s
  <2> QED
    BY <1>4, <2>1, <2>2, <2>3, ParsedFields
<1>5. CASE 20480 <= c /\ c < 20992 /\ c % 16 # 0
  <2> DEFINE s == Keys!Spelling("LM", (c \div 32) % 16, c % 32, 0)
  <2>1. Keys!format_keycode(c) = s
    BY <1>5, FormatLowCodes
  <2>2. s.verb = "LM" /\ s.n = (c \div 32) % 16 /\ s.mods = c % 32 /\ s.key = 0
    BY SpellingFields
  <2>3. /\ 20480 + ((c \div 32) % 16) * 32 + (c % 32) = c
        /\ (c % 32) % 16 # 0
    BY <1>5 DEF Keys!KeyOf
  <2> HIDE DEF s
  <2> QED
    BY <1>5, <2>1, <2>2, <2>3, ParsedFields
<1>6. CASE 32768 <= c
  <2> DEFINE s == Keys!Spelling("LMT", (c \div 2048) % 16, (c \div 256) % 8, Keys!KeyOf(c))
  <2>1. Keys!format_keycode(c) = s
    BY <1>6, FormatHighCodes
  <2>2. s.verb = "LMT" /\ s.n = (c \div 2048) % 16 /\ s.mods = (c \div 256) % 8 /\ s.key = Keys!KeyOf(c)
    BY SpellingFields
  <2>3. 32768 + ((c \div 2048) % 16) * 2048 + ((c \div 256) % 8) * 256
            + Keys!KeyOf(c) = c
    BY <1>6 DEF Keys!KeyOf
  <2> HIDE DEF s
  <2> QED
    BY <1>6, <2>1, <2>2, <2>3, ParsedFields
<1>7. CASE 21152 <= c /\ c < 21184 /\ c % 16 # 0
  <2> DEFINE s == Keys!Spelling("OSM", 0, c % 32, 0)
  <2>1. Keys!format_keycode(c) = s
    BY <1>7, FormatHighCodes
  <2>2. s.verb = "OSM" /\ s.n = 0 /\ s.mods = c % 32 /\ s.key = 0
    BY SpellingFields
  <2>3. 21152 + (c % 32) = c /\ (c % 32) % 16 # 0
    BY <1>7 DEF Keys!KeyOf
  <2> HIDE DEF s
  <2> QED
    BY <1>7, <2>1, <2>2, <2>3, ParsedFields
<1>8. CASE 22272 <= c /\ c < 22528
  <2> DEFINE s == Keys!Spelling("TD", Keys!KeyOf(c), 0, 0)
  <2>1. Keys!format_keycode(c) = s
    BY <1>8, FormatHighCodes
  <2>2. s.verb = "TD" /\ s.n = Keys!KeyOf(c) /\ s.mods = 0 /\ s.key = 0
    BY SpellingFields
  <2>3. 22272 + Keys!KeyOf(c) = c
    BY <1>8 DEF Keys!KeyOf
  <2> HIDE DEF s
  <2> QED
    BY <1>8, <2>1, <2>2, <2>3, ParsedFields
<1>9. CASE 30464 <= c /\ c < 30496
  <2> DEFINE s == Keys!Spelling("MACRO", c % 32, 0, 0)
  <2>1. Keys!format_keycode(c) = s
    BY <1>9, FormatHighCodes
  <2>2. s.verb = "MACRO" /\ s.n = c % 32 /\ s.mods = 0 /\ s.key = 0
    BY SpellingFields
  <2>3. 30464 + (c % 32) = c
    BY <1>9 DEF Keys!KeyOf
  <2> HIDE DEF s
  <2> QED
    BY <1>9, <2>1, <2>2, <2>3, ParsedFields
<1>10. CASE 32256 <= c /\ c < 32288
  <2> DEFINE s == Keys!Spelling("USER", c % 32, 0, 0)
  <2>1. Keys!format_keycode(c) = s
    BY <1>10, FormatHighCodes
  <2>2. s.verb = "USER" /\ s.n = c % 32 /\ s.mods = 0 /\ s.key = 0
    BY SpellingFields
  <2>3. 32256 + (c % 32) = c
    BY <1>10 DEF Keys!KeyOf
  <2> HIDE DEF s
  <2> QED
    BY <1>10, <2>1, <2>2, <2>3, ParsedFields
<1>11. CASE 28672 <= c /\ c < 28704 /\ c % 32 # 0
  <2> DEFINE s == Keys!Spelling("MOD", 0, c % 32, 0)
             a == Keys!Action("mod", 0, Keys!from_packed_bits(c % 32), 0)
  <2>1. Keys!format_keycode(c) = s
    BY <1>11, FormatHighCodes
  <2>2. s.verb = "MOD" /\ s.mods = c % 32
    BY SpellingFields
  <2>3. a.kind = "mod" /\ a.mods = Keys!from_packed_bits(c % 32)
    BY ActionFields
  <2>4. Keys!from_via_keycode(c) = a
    BY <1>11, FromHighCodes
  <2> HIDE DEF s, a
  <2>5. Keys!to_via_keycode(a) = 28672 + Keys!from_packed_bits(c % 32)
    BY <2>3 DEF Keys!to_via_keycode, Keys!LayerVerbs
  <2>6. c % 32 # 16
    BY <1>11, <2>4, <2>5 DEF Keys!Faithful, Keys!from_packed_bits
  <2>7. 28672 + (c % 32) = c /\ (c % 32) % 16 # 0
    BY <1>11, <2>6
  <2> QED
    BY <2>1, <2>2, <2>7, ParsedFields
<1>12. CASE (20992 <= c /\ c < 21152) \/ (21216 <= c /\ c < 21248)
  <2> DEFINE v == Keys!VerbOf(c)
             s == Keys!Spelling(v, Keys!LayerOf(c), 0, 0)
             a == Keys!Action(v, Keys!LayerOf(c), 0, 0)
  <2>1. \E w \in Keys!LayerVerbs : Keys!Base(w) = c - (c % 32)
    <3>1. c - (c % 32) \in {20992, 21024, 21056, 21088, 21120, 21216}
      BY <1>12
    <3>2. /\ Keys!Base("TO") = 20992 /\ Keys!Base("MO") = 21024 /\ Keys!Base("DF") = 21056
          /\ Keys!Base("TG") = 21088 /\ Keys!Base("OSL") = 21120 /\ Keys!Base("PDF") = 21216
      BY DEF Keys!Base
    <3> HIDE DEF v, s, a
    <3> QED
      BY <3>1, <3>2 DEF Keys!LayerVerbs
  <2>2. v \in Keys!LayerVerbs
    BY <2>1 DEF Keys!VerbOf
  <2>3. Keys!LayerOf(c) \in Nat /\ Keys!LayerOf(c) < 16
    BY DEF Keys!LayerOf
  <2>4. Keys!format_keycode(c) = s
    BY <1>12, FormatHighCodes
  <2>5. s.verb = v /\ s.n = Keys!LayerOf(c)
    BY SpellingFields
  <2>6. Keys!from_via_keycode(c) = a
    BY <1>12, FromLayerCodes
  <2> HIDE DEF v, s
  <2>7. Keys!to_via_keycode(a) = Keys!Base(v) + Keys!LayerOf(c)
    BY <2>2, <2>3, VerbCodes
  <2> HIDE DEF a
  <2>8. Keys!Base(v) + Keys!LayerOf(c) = c
    BY <2>6, <2>7 DEF Keys!Faithful
  <2> QED
    BY <2>2, <2>4, <2>5, <2>8, ParsedFields
<1>13. ~ (21184 <= c /\ c < 21216)
  <2> SUFFICES ASSUME 21184 <= c, c < 21216 PROVE FALSE
    OBVIOUS
  <2>1. Keys!from_via_keycode(c) = Keys!No
    BY FromLayerCodes
  <2>2. Keys!No.kind = "no"
    BY ActionFields DEF Keys!No
  <2>3. Keys!to_via_keycode(Keys!No) = 0
    BY <2>2 DEF Keys!to_via_keycode, Keys!LayerVerbs
  <2> QED
    BY <2>1, <2>3 DEF Keys!Faithful
<1> HIDE DEF bits
<1>14. CASE c < 20992
  <2>1. (c \div 256) % 32 = bits
    BY DEF bits
  <2> QED
    BY <1>1, <1>2, <1>3, <1>4, <1>5, <1>14, <2>1, FormatLowCodes
<1>15. CASE c >= 20992
  BY <1>1, <1>6, <1>7, <1>8, <1>9, <1>10, <1>11, <1>12, <1>13, <1>15, FormatHighCodes
<1> QED
  BY <1>14, <1>15

\* What is on the screen or on the key, by where the user is.
KeyInv ==
    /\ key_stage \in {"held", "printed"} => typed = Keys!Unparsed /\ key \in Keys!Actions
    /\ key_stage \in {"typed", "set"} => typed \in Codes
    /\ key_stage = "typed" => shown = Keys!Whole(typed)
    /\ key_stage = "printed" => shown = Keys!format_keycode(Keys!to_via_keycode(key))
    /\ key_stage = "set" => Keys!Faithful(typed) /\ key = Keys!from_via_keycode(typed)
    /\ key_stage = "reprinted" => Keys!parse_keycode(shown) = typed
    /\ key_stage = "refused" /\ typed = Keys!Unparsed => ~ Keys!Representable(key)

\* What is printed of an action that fits its field is its code, and the code
\* is the action's.
LEMMA PrintedComesBack ==
    ASSUME Keys!KeycodesAssumption, NEW a \in Keys!Actions, Keys!Representable(a)
    PROVE  LET code == Keys!to_via_keycode(a)
           IN  /\ code # Keys!Unparsed /\ Keys!Faithful(code)
               /\ Keys!parse_keycode(Keys!format_keycode(code)) = code
               /\ Keys!from_via_keycode(code) = a
               /\ code = 0 => a = Keys!No
<1> DEFINE code == Keys!to_via_keycode(a)
<1>1. code \in Nat /\ code < 65536 /\ Keys!from_via_keycode(code) = a
  BY ActionComesBack
<1>2. Keys!from_via_keycode(0) = Keys!No
  BY FromLowCodes
<1>3. Keys!Faithful(code)
  BY <1>1 DEF Keys!Faithful
<1> HIDE DEF code
<1>4. Keys!parse_keycode(Keys!format_keycode(code)) = code
  BY <1>1, <1>3, CodeComesBack
<1>5. code # Keys!Unparsed
  BY <1>1 DEF Keys!Unparsed
<1> QED
  BY <1>1, <1>2, <1>3, <1>4, <1>5 DEF code

LEMMA KeyInvStep ==
    ASSUME Keys!KeycodesAssumption, KeyInv, [Keys!Next]_(Keys!vars)
    PROVE  KeyInv'
<1>0. \A c \in Codes : c \in Nat /\ c < 65536 /\ c # Keys!Unparsed
  BY KeyBounds DEF Keys!Unparsed
<1>1. CASE Keys!Type
  <2>1. /\ typed' \in Codes /\ shown' = Keys!Whole(typed') /\ key_stage' = "typed"
    BY <1>1 DEF Keys!Type
  <2> QED
    BY <1>0, <2>1 DEF KeyInv
<1>2. CASE Keys!Get
  <2> DEFINE code == Keys!to_via_keycode(key)
  <2>1. key' = key /\ typed' = typed /\ key_stage \in {"held", "set"}
    BY <1>2 DEF Keys!Get
  <2>2. CASE code = 0 /\ key # Keys!No
    <3>1. key_stage' = "refused"
      BY <1>2, <2>2 DEF Keys!Get
    <3>2. key_stage = "set" => typed # Keys!Unparsed
      BY <1>0 DEF KeyInv
    <3>3. key_stage = "held" => ~ Keys!Representable(key)
      BY <2>2, PrintedComesBack DEF KeyInv
    <3> QED
      BY <2>1, <3>1, <3>2, <3>3 DEF KeyInv
  <2>3. CASE ~ (code = 0 /\ key # Keys!No)
    <3>1. /\ shown' = Keys!format_keycode(code)
          /\ key_stage' = IF key_stage = "held" THEN "printed" ELSE "reprinted"
      BY <1>2, <2>3 DEF Keys!Get
    <3>2. CASE key_stage = "held"
      BY <2>1, <3>1, <3>2 DEF KeyInv
    <3>3. CASE key_stage = "set"
      <4>1. typed \in Codes /\ code = typed /\ Keys!Faithful(typed)
        BY <3>3 DEF KeyInv, Keys!Faithful
      <4>2. Keys!parse_keycode(Keys!format_keycode(typed)) = typed
        BY <1>0, <4>1, CodeComesBack
      <4> QED
        BY <2>1, <3>1, <3>3, <4>1, <4>2 DEF KeyInv
    <3> QED
      BY <2>1, <3>2, <3>3
  <2> QED
    BY <2>2, <2>3
<1>3. CASE Keys!Set
  <2> DEFINE code == Keys!parse_keycode(shown)
  <2>1. typed' = typed /\ shown' = shown /\ key_stage \in {"printed", "typed"}
    BY <1>3 DEF Keys!Set
  <2>2. key_stage = "typed" => typed \in Codes /\ typed # Keys!Unparsed /\ code = typed
    BY <1>0, WholeReparses DEF KeyInv
  <2>3. CASE code = Keys!Unparsed \/ ~ Keys!Faithful(code)
    <3>1. key' = key /\ key_stage' = "refused"
      BY <1>3, <2>3 DEF Keys!Set
    <3>2. key_stage = "printed" => ~ Keys!Representable(key)
      BY <2>3, PrintedComesBack DEF KeyInv
    <3> QED
      BY <2>1, <2>2, <3>1, <3>2 DEF KeyInv
  <2>4. CASE ~ (code = Keys!Unparsed \/ ~ Keys!Faithful(code))
    <3>1. /\ key' = Keys!from_via_keycode(code)
          /\ key_stage' = IF typed = Keys!Unparsed THEN "rewritten" ELSE "set"
      BY <1>3, <2>4 DEF Keys!Set
    <3>2. CASE key_stage = "typed"
      BY <2>1, <2>2, <2>4, <3>1, <3>2 DEF KeyInv
    <3>3. CASE key_stage = "printed"
      <4>1. key_stage' = "rewritten"
        BY <3>1, <3>3 DEF KeyInv
      <4> QED
        BY <4>1 DEF KeyInv
    <3> QED
      BY <2>1, <3>2, <3>3
  <2> QED
    BY <2>3, <2>4
<1>4. CASE UNCHANGED Keys!vars
  BY <1>4 DEF Keys!vars, KeyInv
<1> QED
  BY <1>1, <1>2, <1>3, <1>4 DEF Keys!Next

\* For every set of key bytes, of layers, of indices and of codes a user may
\* type: what is printed of an action that fits its field sets the key to that
\* action again, and a code that is accepted is the code printed afterwards.
THEOREM KeysComeBack == Keys!Spec => []KeysRoundTrip
<1>0. Keys!KeycodesAssumption
  BY ConversionConstants
<1>1. Keys!Init => KeyInv
  BY DEF Keys!Init, KeyInv
<1>2. KeyInv /\ [Keys!Next]_(Keys!vars) => KeyInv'
  BY <1>0, KeyInvStep
<1>3. KeyInv => KeysRoundTrip
  <2> SUFFICES ASSUME KeyInv PROVE Keys!KeysRoundTrip
    BY DEF KeysRoundTrip
  <2>1. key_stage = "printed" /\ Keys!Representable(key) =>
            Keys!from_via_keycode(Keys!parse_keycode(shown)) = key
    BY <1>0, PrintedComesBack DEF KeyInv
  <2> QED
    BY <2>1 DEF KeyInv, Keys!KeysRoundTrip, Keys!PrintedIsTheKey, Keys!AcceptedIsShown
<1> QED
  BY <1>1, <1>2, <1>3, PTL DEF Keys!Spec
-----------------------------------------------------------------------------
(* MacroSpace.                                                             *)

Size(m) == Space!macro_storage_size(m)

Bytes(table) == Space!Used(table)

LEMMA SizeOfMacro ==
    ASSUME Space!MacroAssumption, NEW m \in Space!Macros
    PROVE  Size(m) \in Nat /\ Size(m) >= 1 /\ Size(Space!Empty) = 1
<1>1. m.length \in Nat /\ Space!Empty.length = 0 /\ LongMacro \in Nat /\ LongMacro > 0
  BY DEF Space!Macros, Space!Empty, Space!MacroAssumption
<1> QED
  BY <1>1 DEF Size, Space!macro_storage_size

\* The fold over the last position of a set of positions, which is what a sum
\* over a sequence is.
FoldsTo(w, iter, n) ==
    iter = [s \in SUBSET (1 .. n) |->
                IF s = {} THEN 0
                ELSE iter[s \ {Space!Max(s)}] + w[Space!Max(s)]]

LEMMA GreatestPosition ==
    ASSUME NEW n \in Nat, NEW s \in SUBSET (1 .. n), s # {}
    PROVE  /\ Space!Max(s) \in s /\ \A m \in s : m <= Space!Max(s)
<1>1. Space!Max(s) = Max(s)
  BY DEF Space!Max, Max
<1>2. s \in SUBSET Nat /\ \A m \in s : m <= n
  OBVIOUS
<1> QED
  BY <1>1, <1>2, MaxOfNaturals

LEMMA FoldExists ==
    ASSUME NEW w, NEW n \in Nat
    PROVE  \E iter : FoldsTo(w, iter, n)
<1> DEFINE T == {m \in Nat : \E iter : FoldsTo(w, iter, m)}
<1>1. 0 \in T
  <2> DEFINE none == [s \in SUBSET (1 .. 0) |-> 0]
  <2>1. none = [s \in SUBSET (1 .. 0) |->
                  IF s = {} THEN 0 ELSE none[s \ {Space!Max(s)}] + w[Space!Max(s)]]
    <3>1. \A s \in SUBSET (1 .. 0) : s = {}
      OBVIOUS
    <3> QED
      BY <3>1
  <2> QED
    BY <2>1 DEF FoldsTo
<1>2. ASSUME NEW m \in T PROVE m + 1 \in T
  <2>0. m \in Nat
    OBVIOUS
  <2>1. PICK iter : FoldsTo(w, iter, m)
    OBVIOUS
  <2> DEFINE more == [s \in SUBSET (1 .. m + 1) |->
                        IF m + 1 \in s THEN iter[s \ {m + 1}] + w[m + 1] ELSE iter[s]]
             top(s) == Space!Max(s)
  <2>2. ASSUME NEW s \in SUBSET (1 .. m + 1)
        PROVE  more[s] = IF s = {} THEN 0 ELSE more[s \ {top(s)}] + w[top(s)]
    <3>1. CASE s = {}
      <4>1. more[s] = iter[s] /\ s \in SUBSET (1 .. m)
        BY <3>1
      <4> QED
        BY <3>1, <4>1, <2>1 DEF FoldsTo
    <3>2. CASE m + 1 \in s
      <4>0. m + 1 \in Nat /\ s # {}
        BY <2>0, <3>2
      <4>1. Space!Max(s) \in s /\ \A k \in s : k <= Space!Max(s)
        BY <4>0, GreatestPosition
      <4>2. top(s) = m + 1
        <5>1. Space!Max(s) \in 1 .. m + 1 /\ m + 1 <= Space!Max(s)
          BY <3>2, <4>1
        <5> QED
          BY <2>0, <5>1
      <4>3. s \ {m + 1} \in SUBSET (1 .. m + 1) /\ m + 1 \notin s \ {m + 1}
        OBVIOUS
      <4>4. more[s \ {m + 1}] = iter[s \ {m + 1}]
        BY <4>3
      <4>5. more[s] = iter[s \ {m + 1}] + w[m + 1]
        BY <3>2
      <4> QED
        BY <3>2, <4>2, <4>4, <4>5
    <3>3. CASE s # {} /\ m + 1 \notin s
      <4>1. s \in SUBSET (1 .. m)
        BY <2>0, <3>3
      <4>2. top(s) \in s
        BY <2>0, <3>3, <4>1, GreatestPosition
      <4> DEFINE rest == s \ {top(s)}
      <4>3. rest \in SUBSET (1 .. m + 1) /\ m + 1 \notin rest
        BY <3>3
      <4>4. more[rest] = iter[rest] /\ more[s] = iter[s]
        BY <3>3, <4>3
      <4>5. iter[s] = iter[rest] + w[top(s)]
        BY <2>1, <3>3, <4>1 DEF FoldsTo
      <4> QED
        BY <3>3, <4>4, <4>5
    <3> QED
      BY <3>1, <3>2, <3>3
  <2>3. FoldsTo(w, more, m + 1)
    BY <2>2 DEF FoldsTo
  <2> QED
    BY <2>0, <2>3
<1> HIDE DEF T
<1>3. \A m \in Nat : m \in T
  <2>1. T \in SUBSET Nat
    BY DEF T
  <2> QED
    BY <1>1, <1>2, <2>1, InductionOnNat
<1> QED
  BY <1>3 DEF T

\* The bytes of a table, slot by slot.
Sized(table, n) == DOMAIN table = 1 .. n /\ \A i \in 1 .. n : Size(table[i]) \in Nat
RunningSum(table, n, f) ==
    /\ f \in [0 .. n -> Nat] /\ f[0] = 0 /\ Bytes(table) = f[n]
    /\ \A i \in 1 .. n : f[i] = f[i - 1] + Size(table[i])

LEMMA UsedRecursion ==
    ASSUME NEW n \in Nat, NEW table, Sized(table, n)
    PROVE  \E f : RunningSum(table, n, f)
<1>0. DOMAIN table = 1 .. n /\ \A i \in 1 .. n : Size(table[i]) \in Nat
  BY DEF Sized
<1> DEFINE w == [i \in 1 .. n |-> Size(table[i])]
           Good(iter) == iter = [s \in SUBSET (1 .. n) |->
                            IF s = {} THEN 0
                            ELSE iter[s \ {Space!Max(s)}] + Size(table[Space!Max(s)])]
           fold == CHOOSE iter : Good(iter)
<1>1. Space!Used(table) = (LET iter[s \in SUBSET DOMAIN table] ==
                                IF s = {} THEN 0
                                ELSE LET x == Space!Max(s)
                                     IN  iter[s \ {x}] + Space!macro_storage_size(table[x])
                           IN  iter[DOMAIN table])
  BY Zenon DEF Space!Used, Space!FoldLeft, Space!MapThenFoldSet
<1>2. Space!Used(table) = fold[1 .. n]
  BY <1>0, <1>1, Zenon DEF Size
<1>3. \E iter : Good(iter)
  <2>1. PICK iter : FoldsTo(w, iter, n)
    BY FoldExists
  <2>2. \A s \in SUBSET (1 .. n) : s # {} => w[Space!Max(s)] = Size(table[Space!Max(s)])
    BY GreatestPosition
  <2>3. Good(iter)
    BY <2>1, <2>2 DEF FoldsTo
  <2> QED
    BY <2>3
<1>4. Good(fold)
  BY <1>3
<1> HIDE DEF fold
<1>5. fold[{}] = 0
  BY <1>4
<1>6. ASSUME NEW i \in 1 .. n
      PROVE  fold[1 .. i] = fold[1 .. i - 1] + Size(table[i])
  <2>1. 1 .. i \in SUBSET (1 .. n) /\ 1 .. i # {} /\ (1 .. i) \ {i} = 1 .. i - 1
    OBVIOUS
  <2>2. Space!Max(1 .. i) = i
    <3>1. Space!Max(1 .. i) \in 1 .. i /\ \A m \in 1 .. i : m <= Space!Max(1 .. i)
      BY <2>1, GreatestPosition
    <3> QED
      BY <3>1
  <2> QED
    BY <1>4, <2>1, <2>2
<1> DEFINE f == [i \in 0 .. n |-> fold[1 .. i]]
<1>7. f[0] = 0 /\ \A i \in 1 .. n : f[i] = f[i - 1] + Size(table[i])
  <2>1. 1 .. 0 = {}
    OBVIOUS
  <2>2. f[0] = 0
    BY <1>5, <2>1
  <2>3. ASSUME NEW i \in 1 .. n PROVE f[i] = f[i - 1] + Size(table[i])
    <3>1. f[i] = fold[1 .. i] /\ f[i - 1] = fold[1 .. i - 1]
      OBVIOUS
    <3> QED
      BY <1>6, <3>1
  <2> QED
    BY <2>2, <2>3
<1>8. DOMAIN f = 0 .. n /\ f[n] = fold[1 .. n]
  OBVIOUS
<1> HIDE DEF f
<1>9. \A i \in 0 .. n : f[i] \in Nat
  <2> DEFINE U == {m \in Nat : m <= n => f[m] \in Nat}
  <2>1. 0 \in U
    BY <1>7
  <2>2. ASSUME NEW m \in U PROVE m + 1 \in U
    <3>1. CASE m + 1 <= n
      <4>1. f[m] \in Nat /\ m + 1 \in 1 .. n /\ (m + 1) - 1 = m
        BY <3>1
      <4>2. f[m + 1] = f[m] + Size(table[m + 1]) /\ Size(table[m + 1]) \in Nat
        BY <1>0, <1>7, <4>1
      <4> QED
        BY <4>1, <4>2
    <3> QED
      BY <3>1
  <2>3. U \in SUBSET Nat
    OBVIOUS
  <2> HIDE DEF U
  <2>4. \A m \in Nat : m \in U
    BY <2>1, <2>2, <2>3, InductionOnNat
  <2> QED
    BY <2>4 DEF U
<1>10. f \in [0 .. n -> Nat]
  <2>1. f = [i \in 0 .. n |-> f[i]]
    BY <1>8 DEF f
  <2> QED
    BY <1>9, <2>1
<1> QED
  BY <1>2, <1>7, <1>8, <1>10 DEF Bytes, RunningSum

\* No slot grows: the space does not either.
LEMMA UsedMonotone ==
    ASSUME NEW n \in Nat, NEW s, NEW t, DOMAIN s = 1 .. n, DOMAIN t = 1 .. n,
           \A i \in 1 .. n : /\ Size(s[i]) \in Nat /\ Size(t[i]) \in Nat
                             /\ Size(s[i]) <= Size(t[i])
    PROVE  Bytes(s) \in Nat /\ Bytes(t) \in Nat /\ Bytes(s) <= Bytes(t)
<1>1. Sized(s, n) /\ Sized(t, n)
  BY DEF Sized
<1>2. PICK f : RunningSum(s, n, f)
  BY <1>1, UsedRecursion
<1>3. PICK g : RunningSum(t, n, g)
  BY <1>1, UsedRecursion
<1>4. /\ f \in [0 .. n -> Nat] /\ f[0] = 0 /\ Bytes(s) = f[n]
      /\ \A i \in 1 .. n : f[i] = f[i - 1] + Size(s[i])
  BY <1>2 DEF RunningSum
<1>5. /\ g \in [0 .. n -> Nat] /\ g[0] = 0 /\ Bytes(t) = g[n]
      /\ \A i \in 1 .. n : g[i] = g[i - 1] + Size(t[i])
  BY <1>3 DEF RunningSum
<1> DEFINE U == {m \in Nat : m <= n => f[m] <= g[m]}
<1>6. 0 \in U
  BY <1>4, <1>5
<1>7. ASSUME NEW m \in U PROVE m + 1 \in U
  <2>1. CASE m + 1 <= n
    <3>1. m + 1 \in 1 .. n /\ (m + 1) - 1 = m /\ m \in 0 .. n /\ f[m] <= g[m]
      BY <2>1
    <3>2. f[m + 1] = f[m] + Size(s[m + 1]) /\ g[m + 1] = g[m] + Size(t[m + 1])
      BY <1>4, <1>5, <3>1
    <3>3. f[m] \in Nat /\ g[m] \in Nat
      BY <1>4, <1>5, <3>1
    <3> QED
      BY <3>1, <3>2, <3>3
  <2> QED
    BY <2>1
<1>8. U \in SUBSET Nat
  OBVIOUS
<1> HIDE DEF U
<1>9. n \in U
  BY <1>6, <1>7, <1>8, InductionOnNat
<1> QED
  BY <1>4, <1>5, <1>9 DEF U

\* A table written into more slots than it has takes a byte for each of the
\* others.
PaddedTo(s, l, t, n) ==
    /\ l <= n /\ DOMAIN s = 1 .. l /\ DOMAIN t = 1 .. n
    /\ \A i \in 1 .. n : Size(t[i]) \in Nat
    /\ \A i \in 1 .. l : t[i] = s[i]
    /\ \A i \in l + 1 .. n : Size(t[i]) = 1

LEMMA UsedPadded ==
    ASSUME NEW n \in Nat, NEW l \in Nat, NEW s, NEW t, PaddedTo(s, l, t, n)
    PROVE  Bytes(s) \in Nat /\ Bytes(t) = Bytes(s) + (n - l)
<1> USE DEF PaddedTo
<1>1. Sized(s, l) /\ Sized(t, n)
  BY DEF Sized
<1>2. PICK f : RunningSum(s, l, f)
  BY <1>1, UsedRecursion
<1>3. PICK g : RunningSum(t, n, g)
  BY <1>1, UsedRecursion
<1>4. /\ f \in [0 .. l -> Nat] /\ f[0] = 0 /\ Bytes(s) = f[l]
      /\ \A i \in 1 .. l : f[i] = f[i - 1] + Size(s[i])
  BY <1>2 DEF RunningSum
<1>5. /\ g \in [0 .. n -> Nat] /\ g[0] = 0 /\ Bytes(t) = g[n]
      /\ \A i \in 1 .. n : g[i] = g[i - 1] + Size(t[i])
  BY <1>3 DEF RunningSum
<1> DEFINE U == {m \in Nat : m <= n => g[m] = IF m <= l THEN f[m] ELSE f[l] + (m - l)}
<1>6. 0 \in U
  BY <1>4, <1>5
<1>7. ASSUME NEW m \in U PROVE m + 1 \in U
  <2>1. CASE m + 1 <= n
    <3>1. m + 1 \in 1 .. n /\ (m + 1) - 1 = m /\ m \in 0 .. n /\ m \in Nat
      BY <2>1
    <3>2. g[m + 1] = g[m] + Size(t[m + 1]) /\ g[m] = IF m <= l THEN f[m] ELSE f[l] + (m - l)
      BY <1>5, <3>1
    <3>3. CASE m + 1 <= l
      <4>1. m + 1 \in 1 .. l /\ m <= l
        BY <3>1, <3>3
      <4>2. f[m + 1] = f[m] + Size(s[m + 1]) /\ t[m + 1] = s[m + 1]
        BY <1>4, <3>1, <4>1
      <4> QED
        BY <3>1, <3>2, <3>3, <4>1, <4>2
    <3>4. CASE m + 1 > l
      <4>1. m + 1 \in l + 1 .. n
        BY <2>1, <3>1, <3>4
      <4>2. g[m + 1] = g[m] + 1
        BY <3>2, <4>1
      <4>3. f[l] \in Nat
        BY <1>4
      <4>4. g[m] = f[l] + (m - l)
        <5>1. m = l \/ m > l
          BY <3>1, <3>4
        <5>2. m = l => f[l] + (m - l) = f[l]
          BY <4>3
        <5> QED
          BY <3>1, <3>2, <5>1, <5>2
      <4>5. g[m + 1] = f[l] + (m + 1 - l)
        BY <3>1, <4>2, <4>4, <4>3
      <4>6. ~ (m + 1 <= l)
        BY <3>1, <3>4
      <4> QED
        BY <3>1, <4>5, <4>6
    <3> QED
      BY <3>1, <3>3, <3>4
  <2> QED
    BY <2>1
<1>8. U \in SUBSET Nat
  OBVIOUS
<1> HIDE DEF U
<1>9. n \in U
  BY <1>6, <1>7, <1>8, InductionOnNat
<1>10. f[l] \in Nat
  BY <1>4
<1> QED
  BY <1>4, <1>5, <1>9, <1>10 DEF U

-----------------------------------------------------------------------------
\* What a read of the space gives: every slot, without the empty ones at the
\* end.
ReadOf(table, p) ==
    /\ p \in Seq(Space!Macros) /\ Len(p) <= MaxMacros
    /\ \A i \in Space!Index : table[i] = Space!At(p, i)
    /\ Len(p) = 0 \/ p[Len(p)] # Space!Empty

LEMMA EmptyIsMacro ==
    Space!Empty \in Space!Macros
BY DEF Space!Macros

LEMMA AtType ==
    ASSUME NEW p \in Seq(Space!Macros), NEW i
    PROVE  Space!At(p, i) \in Space!Macros
BY EmptyIsMacro DEF Space!At

LEMMA ReadsTheSpace ==
    ASSUME Space!MacroAssumption, slots \in [Space!Index -> Space!Macros]
    PROVE  ReadOf(slots, Space!read_macro_space)
<1> DEFINE F == {0} \cup {i \in Space!Index : slots[i] # Space!Empty}
           last == Max(F)
           p == SubSeq(slots, 1, last)
<1>0. MaxMacros \in Nat
  BY DEF Space!MacroAssumption
<1>1. F \in SUBSET Nat /\ F # {} /\ \A m \in F : m <= MaxMacros
  BY <1>0 DEF Space!Index
<1>2. last \in F /\ \A m \in F : m <= last
  BY <1>0, <1>1, MaxOfNaturals
<1>3. Space!read_macro_space = p
  <2>1. Space!Max(F) = last
    BY DEF Space!Max, Max
  <2> QED
    BY <2>1 DEF Space!read_macro_space
<1>4. last \in 0 .. MaxMacros /\ last \in Int
  BY <1>0, <1>1, <1>2
<1>5. last # 0 => slots[last] # Space!Empty
  BY <1>2
<1>6. \A i \in Space!Index : i > last => slots[i] = Space!Empty
  <2> SUFFICES ASSUME NEW i \in Space!Index, i > last, slots[i] # Space!Empty PROVE FALSE
    OBVIOUS
  <2>1. i \in F /\ i \in Int
    BY <1>0 DEF Space!Index
  <2>2. i <= last
    BY <1>2, <2>1
  <2> HIDE DEF last
  <2> QED
    BY <1>4, <2>1, <2>2
<1> HIDE DEF F, last
<1>7. \A i \in 1 .. last : slots[i] \in Space!Macros
  BY <1>0, <1>4 DEF Space!Index
<1>8. /\ p \in Seq(Space!Macros) /\ Len(p) = last
      /\ \A i \in 1 .. last : p[i] = slots[i]
  <2>1. /\ p \in Seq(Space!Macros) /\ Len(p) = IF 1 <= last THEN last - 1 + 1 ELSE 0
        /\ \A i \in 1 .. last - 1 + 1 : p[i] = slots[1 + i - 1]
    BY <1>4, <1>7, SubSeqProperties
  <2> HIDE DEF p
  <2> QED
    BY <1>4, <2>1
<1> HIDE DEF p
<1>9. \A i \in Space!Index : slots[i] = Space!At(p, i)
  <2>1. DOMAIN p = 1 .. last
    BY <1>8
  <2>2. TAKE i \in Space!Index
  <2>3. i \in Int /\ 1 <= i
    BY <1>0 DEF Space!Index
  <2> QED
    BY <1>4, <1>6, <1>8, <2>1, <2>3 DEF Space!At
<1>10. Len(p) = 0 \/ p[Len(p)] # Space!Empty
  BY <1>4, <1>5, <1>8
<1> QED
  BY <1>3, <1>4, <1>8, <1>9, <1>10 DEF ReadOf

\* A read that does not differ is the table of the file, and the table of the
\* file, if its last macro does something, does not differ.
LEMMA ReadsAsTheFile ==
    ASSUME Space!MacroAssumption, macros \in Seq(Space!Macros), Len(macros) >= 1,
           NEW table, NEW p, ReadOf(table, p)
    PROVE  /\ ~ Space!Differs(p) => \A i \in Space!Index : table[i] = Space!At(macros, i)
           /\ /\ \A i \in Space!Index : table[i] = Space!At(macros, i)
              /\ Len(macros) <= MaxMacros /\ Space!EndsInMacro
              => ~ Space!Differs(p)
<1> DEFINE l == Len(macros)
           part == SubSeq(p, 1, l)
<1>0. /\ MaxMacros \in Nat /\ l \in Nat /\ l >= 1 /\ p \in Seq(Space!Macros)
      /\ Len(p) \in Nat /\ Len(p) <= MaxMacros /\ DOMAIN p = 1 .. Len(p)
      /\ DOMAIN macros = 1 .. l
  BY DEF Space!MacroAssumption, ReadOf
<1> HIDE DEF l
<1>1. l <= Len(p) => /\ part \in Seq(Space!Macros) /\ Len(part) = l
                     /\ \A i \in 1 .. l : part[i] = p[i]
  <2> SUFFICES ASSUME l <= Len(p)
               PROVE  /\ part \in Seq(Space!Macros) /\ Len(part) = l
                      /\ \A i \in 1 .. l : part[i] = p[i]
    OBVIOUS
  <2>1. \A i \in 1 .. l : p[i] \in Space!Macros
    BY <1>0
  <2>2. /\ part \in Seq(Space!Macros) /\ Len(part) = IF 1 <= l THEN l - 1 + 1 ELSE 0
        /\ \A i \in 1 .. l - 1 + 1 : part[i] = p[1 + i - 1]
    BY <1>0, <2>1, SubSeqProperties
  <2> HIDE DEF part
  <2> QED
    BY <1>0, <2>2
<1> HIDE DEF part
<1>2. ASSUME ~ Space!Differs(p), NEW i \in Space!Index
      PROVE  table[i] = Space!At(macros, i)
  <2>1. /\ l <= Len(p) /\ part = macros
        /\ \A j \in l + 1 .. Len(p) : p[j] = Space!Empty
    BY <1>0, <1>2 DEF Space!Differs, l, part
  <2>2. table[i] = Space!At(p, i) /\ i \in Nat /\ i >= 1
    BY <1>0 DEF ReadOf, Space!Index
  <2>3. CASE i <= l
    BY <1>0, <1>1, <2>1, <2>2, <2>3 DEF Space!At
  <2>4. CASE i > l
    BY <1>0, <2>1, <2>2, <2>4 DEF Space!At
  <2> QED
    BY <1>0, <2>2, <2>3, <2>4
<1>3. ASSUME \A i \in Space!Index : table[i] = Space!At(macros, i),
             l <= MaxMacros, Space!EndsInMacro
      PROVE  ~ Space!Differs(p)
  <2>0. \A i \in 1 .. MaxMacros : Space!At(p, i) = Space!At(macros, i)
    BY <1>3 DEF ReadOf, Space!Index
  <2>1. macros[l] # Space!Empty
    BY <1>3 DEF Space!EndsInMacro, l
  <2>2. l <= Len(p)
    <3>1. Space!At(p, l) # Space!Empty
      BY <1>0, <1>3, <2>0, <2>1 DEF Space!At
    <3>2. l \in DOMAIN p
      BY <3>1 DEF Space!At
    <3> QED
      BY <1>0, <3>2
  <2>3. \A i \in 1 .. l : p[i] = macros[i]
    BY <1>0, <2>0, <2>2 DEF Space!At
  <2>4. part = macros
    BY <1>0, <1>1, <2>2, <2>3, SeqEqual DEF l
  <2>5. \A j \in l + 1 .. Len(p) : p[j] = Space!Empty
    BY <1>0, <2>0, <2>2 DEF Space!At
  <2> QED
    BY <1>0, <2>2, <2>4, <2>5 DEF Space!Differs, l, part
<1> QED
  BY <1>2, <1>3 DEF l

-----------------------------------------------------------------------------
\* GrowsLess, of a table and what was read before it.
Precedes(table, old, i, j) ==
    LET growth(k) == Size(Space!At(table, k)) - Size(Space!At(old, k))
    IN  growth(i) < growth(j) \/ (growth(i) = growth(j) /\ i < j)

LEMMA GrowsLessPrecedes ==
    ASSUME NEW i, NEW j
    PROVE  Space!GrowsLess(i, j) <=> Precedes(macros, before, i, j)
BY DEF Space!GrowsLess, Space!Growth, Precedes, Size

Pending(i) == \E k \in DOMAIN order : order[k] = i

\* Between the writes: the slots still to be visited are as they were read, in
\* the order of growth, and the others are the file's.
WriteInv ==
    /\ before \in Seq(Space!Macros) /\ Len(before) <= MaxMacros
    /\ order \in Seq(Space!Index)
    /\ \A k, l \in DOMAIN order : k < l => Precedes(macros, before, order[k], order[l])
    /\ \A i \in Space!Index :
          slots[i] = IF Pending(i) THEN Space!At(before, i) ELSE Space!At(macros, i)

SpaceTypes ==
    /\ slots \in [Space!Index -> Space!Macros]
    /\ macros \in Seq(Space!Macros) /\ Len(macros) >= 1

SpaceInv ==
    /\ SpaceTypes
    /\ Bytes(slots) <= SpaceSize
    /\ macros_pc = "check" => ReadOf(slots, before)
    /\ macros_pc = "write" => Space!Fits /\ WriteInv
    /\ macros_pc = "done" => \A i \in Space!Index : slots[i] = Space!At(macros, i)
    /\ macros_pc # "full"
    /\ Space!EndsInMacro => macros_pc # "mismatch"

LEMMA GrowthType ==
    ASSUME Space!MacroAssumption, macros \in Seq(Space!Macros), before \in Seq(Space!Macros),
           NEW i
    PROVE  /\ Size(Space!At(macros, i)) \in Nat /\ Size(Space!At(before, i)) \in Nat
           /\ Space!Growth(i) = Size(Space!At(macros, i)) - Size(Space!At(before, i))
<1>1. Space!At(macros, i) \in Space!Macros /\ Space!At(before, i) \in Space!Macros
  BY AtType
<1> QED
  BY <1>1, SizeOfMacro DEF Space!Growth, Size

\* The whole table of the file fits.
LEMMA FileFits ==
    ASSUME Space!MacroAssumption, macros \in Seq(Space!Macros), Space!Fits,
           NEW t, t = [i \in Space!Index |-> Space!At(macros, i)]
    PROVE  Bytes(t) <= SpaceSize
<1> DEFINE l == Len(macros)
<1>1. /\ MaxMacros \in Nat /\ SpaceSize \in Nat /\ l \in Nat /\ l <= MaxMacros
      /\ DOMAIN macros = 1 .. l
      /\ Bytes(macros) + MaxMacros - l <= SpaceSize
  BY DEF Space!MacroAssumption, Space!Fits, Bytes
<1> HIDE DEF l
<1>2. DOMAIN t = 1 .. MaxMacros /\ \A i \in 1 .. MaxMacros : t[i] = Space!At(macros, i)
  BY DEF Space!Index
<1>3. \A i \in 1 .. MaxMacros : Size(t[i]) \in Nat
  <2> TAKE i \in 1 .. MaxMacros
  <2>1. Space!At(macros, i) \in Space!Macros
    BY AtType
  <2> QED
    BY <1>2, <2>1, SizeOfMacro
<1>4. \A i \in 1 .. l : t[i] = macros[i]
  BY <1>1, <1>2 DEF Space!At
<1>5. \A i \in l + 1 .. MaxMacros : Size(t[i]) = 1
  <2> TAKE i \in l + 1 .. MaxMacros
  <2>1. t[i] = Space!Empty
    BY <1>1, <1>2 DEF Space!At
  <2> QED
    BY <2>1, EmptyIsMacro, SizeOfMacro
<1>6. PaddedTo(macros, l, t, MaxMacros)
  BY <1>1, <1>2, <1>3, <1>4, <1>5 DEF PaddedTo
<1>7. Bytes(macros) \in Nat /\ Bytes(t) = Bytes(macros) + (MaxMacros - l)
  BY <1>1, <1>6, UsedPadded
<1> QED
  BY <1>1, <1>7

\* A write that makes the table smaller fits; and once the smallest growth
\* left is positive, every slot is at most what it will be, which fits.
LEMMA NextWriteFits ==
    ASSUME Space!MacroAssumption, SpaceTypes, WriteInv, Space!Fits,
           Bytes(slots) <= SpaceSize, order # <<>>
    PROVE  Bytes(Space!Stored(Head(order))) <= SpaceSize
<1> DEFINE h == Head(order)
           after == Space!Stored(h)
           full == [i \in Space!Index |-> Space!At(macros, i)]
<1>0. /\ MaxMacros \in Nat /\ SpaceSize \in Nat /\ Space!Index = 1 .. MaxMacros
      /\ macros \in Seq(Space!Macros) /\ before \in Seq(Space!Macros)
  BY DEF Space!MacroAssumption, Space!Index, SpaceTypes, WriteInv
<1>1. 1 \in DOMAIN order /\ h = order[1] /\ h \in Space!Index /\ DOMAIN order \subseteq Nat
  BY TailPlaces DEF WriteInv
<1>2. slots[h] = Space!At(before, h)
  BY <1>1 DEF WriteInv, Pending
<1>3. /\ DOMAIN after = Space!Index /\ after[h] = Space!At(macros, h)
      /\ \A i \in Space!Index : i # h => after[i] = slots[i]
  BY <1>1 DEF Space!Stored, SpaceTypes
<1>4. \A i \in Space!Index : /\ Size(slots[i]) \in Nat /\ Size(full[i]) \in Nat
                             /\ full[i] = Space!At(macros, i)
  <2> TAKE i \in Space!Index
  <2>1. slots[i] \in Space!Macros /\ Space!At(macros, i) \in Space!Macros
    BY AtType DEF SpaceTypes
  <2> QED
    BY <2>1, SizeOfMacro
<1>5. DOMAIN slots = 1 .. MaxMacros /\ DOMAIN full = 1 .. MaxMacros
      /\ DOMAIN after = 1 .. MaxMacros
  BY <1>0, <1>3 DEF SpaceTypes
<1>6. Bytes(full) <= SpaceSize
  BY <1>0, FileFits
<1> HIDE DEF h, after, full
<1>7. /\ Space!Growth(h) = Size(Space!At(macros, h)) - Size(slots[h])
      /\ Size(Space!At(macros, h)) \in Nat
  BY <1>0, <1>2, GrowthType
<1>8. CASE Space!Growth(h) <= 0
  <2>1. \A i \in Space!Index : /\ Size(after[i]) \in Nat /\ Size(slots[i]) \in Nat
                               /\ Size(after[i]) <= Size(slots[i])
    <3> TAKE i \in Space!Index
    <3>1. Size(slots[i]) \in Nat /\ Size(slots[h]) \in Nat
      BY <1>1, <1>4
    <3>2. CASE i = h
      BY <1>3, <1>7, <1>8, <3>1, <3>2
    <3>3. CASE i # h
      BY <1>3, <3>1, <3>3
    <3> QED
      BY <3>2, <3>3
  <2>2. Bytes(after) \in Nat /\ Bytes(slots) \in Nat /\ Bytes(after) <= Bytes(slots)
    BY <1>0, <1>5, <2>1, UsedMonotone
  <2> QED
    BY <1>0, <2>2 DEF after, h
<1>9. CASE Space!Growth(h) > 0
  <2>1. \A i \in Space!Index : /\ Size(after[i]) \in Nat /\ Size(full[i]) \in Nat
                               /\ Size(after[i]) <= Size(full[i])
    <3> TAKE i \in Space!Index
    <3>0. Size(slots[i]) \in Nat /\ Size(full[i]) \in Nat /\ full[i] = Space!At(macros, i)
      BY <1>4
    <3>1. CASE i = h
      BY <1>3, <3>0, <3>1
    <3>2. CASE i # h /\ ~ Pending(i)
      <4>1. after[i] = Space!At(macros, i)
        BY <1>3, <3>2 DEF WriteInv
      <4> QED
        BY <3>0, <4>1
    <3>3. CASE i # h /\ Pending(i)
      <4>1. PICK k \in DOMAIN order : order[k] = i
        BY <3>3 DEF Pending
      <4>2. k # 1 /\ k \in Nat /\ k \in 1 .. Len(order)
        BY <1>1, <3>3, <4>1 DEF WriteInv
      <4>3. 1 < k
        BY <4>2
      <4>4. Precedes(macros, before, h, i)
        BY <1>1, <4>1, <4>3 DEF WriteInv
      <4>5. slots[i] = Space!At(before, i)
        BY <3>3 DEF WriteInv
      <4>6. /\ Space!Growth(i) = Size(Space!At(macros, i)) - Size(Space!At(before, i))
            /\ Space!Growth(h) \in Int
        BY <1>0, GrowthType
      <4>7. Space!Growth(i) \in Int
        BY <3>0, <4>5, <4>6
      <4>8. Space!Growth(h) = Size(Space!At(macros, h)) - Size(Space!At(before, h))
        BY <1>2, <1>7
      <4>9. Space!Growth(i) > 0
        BY <1>9, <3>0, <4>4, <4>5, <4>6, <4>7, <4>8 DEF Precedes
      <4>10. Size(slots[i]) <= Size(full[i])
        BY <3>0, <4>5, <4>6, <4>9
      <4> QED
        BY <1>3, <3>0, <3>3, <4>10
    <3> QED
      BY <3>1, <3>2, <3>3
  <2>2. Bytes(after) \in Nat /\ Bytes(full) \in Nat /\ Bytes(after) <= Bytes(full)
    BY <1>0, <1>5, <2>1, UsedMonotone
  <2> QED
    BY <1>0, <1>6, <2>2 DEF after, h
<1>10. Space!Growth(h) \in Int
  BY <1>1, <1>4, <1>7
<1> QED
  BY <1>8, <1>9, <1>10

\* The order the check makes.
LEMMA CheckStep ==
    ASSUME Space!MacroAssumption, SpaceInv, Space!Check
    PROVE  SpaceInv'
<1>0. /\ slots' = slots /\ macros' = macros /\ before' = before /\ macros_pc = "check"
  BY DEF Space!Check
<1>1. CASE ~ Space!Fits
  <2>1. macros_pc' = "refused"
    BY <1>1 DEF Space!Check
  <2> QED
    BY <1>0, <2>1 DEF SpaceInv, SpaceTypes
<1>2. CASE Space!Fits
  <2> DEFINE S == {Len(macros), Len(before)}
             n == Space!Max(S)
  <2>1. macros_pc' = "write" /\ order' \in Space!SortedByGrowth(n)
    BY <1>2 DEF Space!Check
  <2>2. /\ MaxMacros \in Nat /\ Len(macros) \in Nat /\ Len(before) \in Nat
        /\ Len(macros) <= MaxMacros /\ Len(before) <= MaxMacros
        /\ before \in Seq(Space!Macros) /\ macros \in Seq(Space!Macros)
    BY <1>0, <1>2 DEF SpaceInv, SpaceTypes, ReadOf, Space!Fits, Space!MacroAssumption
  <2>3. n \in Nat /\ n <= MaxMacros /\ Len(macros) <= n /\ Len(before) <= n
    <3>1. n = Max(S)
      BY DEF Space!Max, Max
    <3>2. S \in SUBSET Nat /\ S # {} /\ \A m \in S : m <= MaxMacros
      BY <2>2
    <3>3. Max(S) \in S /\ \A m \in S : m <= Max(S)
      BY <2>2, <3>2, MaxOfNaturals
    <3> HIDE DEF n
    <3> QED
      BY <2>2, <3>1, <3>3
  <2> HIDE DEF n
  <2>4. /\ order' \in [1 .. n -> 1 .. n]
        /\ \A i \in 1 .. n : \E k \in 1 .. n : order'[k] = i
        /\ \A k, l \in 1 .. n : k < l => Space!GrowsLess(order'[k], order'[l])
    BY <2>1 DEF Space!SortedByGrowth
  <2>5. 1 .. n \subseteq Space!Index
    BY <2>2, <2>3 DEF Space!Index
  <2>6. order' \in Seq(Space!Index) /\ DOMAIN order' = 1 .. n
    <3>1. order' \in [1 .. n -> Space!Index]
      BY <2>4, <2>5
    <3> QED
      BY <2>3, <2>4, <3>1, SeqDef
  <2>7. \A i \in Space!Index :
           slots[i] = IF \E k \in DOMAIN order' : order'[k] = i
                      THEN Space!At(before, i) ELSE Space!At(macros, i)
    <3> TAKE i \in Space!Index
    <3>1. slots[i] = Space!At(before, i)
      BY <1>0 DEF SpaceInv, ReadOf
    <3>2. CASE i \in 1 .. n
      BY <2>4, <2>6, <3>1, <3>2
    <3>3. CASE i \notin 1 .. n
      <4>1. i \notin DOMAIN macros /\ i \notin DOMAIN before
        BY <2>2, <2>3, <3>3
      <4> QED
        BY <3>1, <4>1, <2>4, <2>6, <3>3 DEF Space!At
    <3> QED
      BY <3>2, <3>3
  <2>8. \A k, l \in DOMAIN order' :
           k < l => Precedes(macros, before, order'[k], order'[l])
    BY <2>4, <2>6, GrowsLessPrecedes
  <2>9. WriteInv'
    BY <1>0, <2>2, <2>6, <2>7, <2>8 DEF WriteInv, Pending
  <2>10. Space!Fits'
    BY <1>0, <1>2 DEF Space!Fits
  <2> QED
    BY <1>0, <2>1, <2>9, <2>10 DEF SpaceInv, SpaceTypes
<1> QED
  BY <1>1, <1>2

\* One slot written, or left as it is because it is as wanted.
LEMMA WriteStep ==
    ASSUME Space!MacroAssumption, SpaceInv, Space!WriteMacro
    PROVE  SpaceInv'
<1> DEFINE h == Head(order)
<1>0. /\ macros' = macros /\ before' = before /\ macros_pc = "write" /\ order # <<>>
      /\ order' = Tail(order) /\ WriteInv /\ Space!Fits /\ SpaceTypes
  BY DEF Space!WriteMacro, SpaceInv
<1>1. Bytes(Space!Stored(h)) <= SpaceSize
  BY <1>0, NextWriteFits DEF SpaceInv
<1>2. /\ order' \in Seq(Space!Index)
      /\ \A k \in DOMAIN order' : k + 1 \in DOMAIN order /\ order'[k] = order[k + 1]
      /\ \A k \in DOMAIN order : k # 1 => k - 1 \in DOMAIN order' /\ order'[k - 1] = order[k]
      /\ 1 \in DOMAIN order /\ h = order[1] /\ h \in Space!Index
      /\ DOMAIN order \subseteq Nat /\ DOMAIN order' \subseteq Nat
  BY <1>0, TailPlaces DEF WriteInv
<1>3. /\ macros_pc' = "write"
      /\ slots' = IF Space!Kept(h) THEN slots ELSE Space!Stored(h)
  <2>1. CASE Space!Kept(h)
    BY <1>0, <2>1 DEF Space!WriteMacro
  <2>2. CASE ~ Space!Kept(h)
    BY <1>0, <1>1, <2>2 DEF Space!WriteMacro, Bytes
  <2> QED
    BY <2>1, <2>2
<1>4. Bytes(slots') <= SpaceSize
  BY <1>1, <1>3 DEF SpaceInv
<1>5. Space!At(macros, h) \in Space!Macros
  BY <1>0, AtType DEF SpaceTypes
<1>6. /\ slots' \in [Space!Index -> Space!Macros]
      /\ slots'[h] = Space!At(macros, h)
      /\ \A i \in Space!Index : i # h => slots'[i] = slots[i]
  <2>1. CASE Space!Kept(h)
    <3>1. slots[h] = Space!At(before, h)
      BY <1>0, <1>2 DEF WriteInv, Pending
    <3>2. Space!At(before, h) = Space!At(macros, h)
      BY <2>1 DEF Space!Kept, Space!At
    <3> QED
      BY <1>0, <1>3, <2>1, <3>1, <3>2 DEF SpaceTypes
  <2>2. CASE ~ Space!Kept(h)
    BY <1>0, <1>2, <1>3, <1>5, <2>2 DEF Space!Stored, SpaceTypes
  <2> QED
    BY <2>1, <2>2
<1> HIDE DEF h
<1>7. \A k, l \in DOMAIN order' :
         k < l => Precedes(macros, before, order'[k], order'[l])
  <2> TAKE k, l \in DOMAIN order'
  <2>1. k + 1 \in DOMAIN order /\ l + 1 \in DOMAIN order /\ (k < l => k + 1 < l + 1)
    BY <1>2
  <2>2. order'[k] = order[k + 1] /\ order'[l] = order[l + 1]
    BY <1>2
  <2> QED
    BY <1>0, <2>1, <2>2 DEF WriteInv
<1>8. \A i \in Space!Index :
         slots'[i] = IF \E k \in DOMAIN order' : order'[k] = i
                     THEN Space!At(before, i) ELSE Space!At(macros, i)
  <2> TAKE i \in Space!Index
  <2>1. CASE \E k \in DOMAIN order' : order'[k] = i
    <3>1. PICK k \in DOMAIN order' : order'[k] = i
      BY <2>1
    <3>2. k + 1 \in DOMAIN order /\ order[k + 1] = i
      BY <1>2, <3>1
    <3>3. slots[i] = Space!At(before, i)
      BY <1>0, <3>2 DEF WriteInv, Pending
    <3>4. i # h
      <4>1. 1 < k + 1
        <5>1. k \in Nat /\ k >= 1
          BY <1>2, <3>1, LenProperties
        <5> QED
          BY <5>1
      <4>2. Precedes(macros, before, order[1], order[k + 1])
        BY <1>0, <1>2, <3>2, <4>1 DEF WriteInv
      <4>3. h \in Int /\ ~ Precedes(macros, before, h, h)
        <5>1. h \in Int
          BY <1>2 DEF Space!Index
        <5>2. /\ Size(Space!At(macros, h)) \in Nat /\ Size(Space!At(before, h)) \in Nat
          BY <1>0, GrowthType DEF SpaceTypes, WriteInv
        <5> QED
          BY <5>1, <5>2 DEF Precedes
      <4> QED
        BY <1>2, <3>2, <4>2, <4>3
    <3> QED
      BY <1>6, <2>1, <3>3, <3>4
  <2>2. CASE ~ \E k \in DOMAIN order' : order'[k] = i
    <3>1. CASE i = h
      BY <1>6, <2>2, <3>1
    <3>2. CASE i # h
      <4>1. ~ Pending(i)
        <5> SUFFICES ASSUME NEW k \in DOMAIN order, order[k] = i PROVE FALSE
          BY DEF Pending
        <5>1. k # 1
          BY <1>2, <3>2
        <5> QED
          BY <1>2, <2>2, <5>1
      <4> QED
        BY <1>0, <1>6, <2>2, <3>2, <4>1 DEF WriteInv
    <3> QED
      BY <3>1, <3>2
  <2> QED
    BY <2>1, <2>2
<1>9. WriteInv'
  BY <1>0, <1>2, <1>7, <1>8 DEF WriteInv, Pending
<1>10. Space!Fits' /\ SpaceTypes'
  BY <1>0, <1>6 DEF Space!Fits, SpaceTypes
<1>11. (Bytes(slots) <= SpaceSize)'
  BY <1>4
<1> QED
  BY <1>3, <1>9, <1>10, <1>11 DEF SpaceInv

\* What a read finds, before the writes and after them.
LEMMA ReadStep ==
    ASSUME Space!MacroAssumption, SpaceInv, Space!Read \/ Space!Verify
    PROVE  SpaceInv'
<1>1. /\ slots' = slots /\ macros' = macros /\ before' = Space!read_macro_space
      /\ SpaceTypes /\ macros_pc' \in {"check", "done", "mismatch"}
      /\ macros_pc' = "done" <=> ~ Space!Differs(before')
      /\ macros_pc' = "mismatch" => Space!Verify /\ Space!Differs(before')
  BY DEF Space!Read, Space!Verify, SpaceInv
<1>2. ReadOf(slots, before')
  BY <1>1, ReadsTheSpace DEF SpaceTypes
<1>3. macros_pc' = "done" => \A i \in Space!Index : slots[i] = Space!At(macros, i)
  BY <1>1, <1>2, ReadsAsTheFile DEF SpaceTypes
<1>4. Space!EndsInMacro => macros_pc' # "mismatch"
  <2> SUFFICES ASSUME Space!EndsInMacro, macros_pc' = "mismatch" PROVE FALSE
    OBVIOUS
  <2>1. order = <<>> /\ WriteInv /\ Space!Fits
    BY <1>1 DEF Space!Verify, SpaceInv
  <2>2. \A i \in Space!Index : slots[i] = Space!At(macros, i)
    BY <2>1 DEF WriteInv, Pending
  <2>3. ~ Space!Differs(before')
    BY <1>1, <1>2, <2>1, <2>2, ReadsAsTheFile DEF SpaceTypes, Space!Fits
  <2> QED
    BY <1>1, <2>3
<1>5. ReadOf(slots, before)' /\ SpaceTypes' /\ (Bytes(slots) <= SpaceSize)'
  <2>1. SpaceTypes'
    BY <1>1 DEF SpaceTypes
  <2> QED
    BY <1>1, <1>2, <2>1 DEF SpaceInv
<1>6. Space!EndsInMacro' <=> Space!EndsInMacro
  BY <1>1 DEF Space!EndsInMacro
<1> QED
  BY <1>1, <1>3, <1>4, <1>5, <1>6 DEF SpaceInv

\* For every macro space, table and file: a table that was admitted never
\* finds the space full half way, wherever an earlier attempt broke off, and a
\* table that was written reads back.
THEOREM MacroTablesArrive == Space!Spec => []MacrosArrive
<1>0. Space!MacroAssumption
  BY ConversionConstants
<1>1. Space!Init => SpaceInv
  <2> SUFFICES ASSUME Space!Init PROVE SpaceInv
    OBVIOUS
  <2>1. PICK n \in 1 .. MaxFileMacros : macros \in [1 .. n -> Space!Macros]
    BY DEF Space!Init
  <2>2. n \in Nat /\ n >= 1
    OBVIOUS
  <2>3. macros \in Seq(Space!Macros) /\ Len(macros) = n
    BY <2>1, <2>2, SeqDef
  <2> QED
    BY <2>2, <2>3 DEF Space!Init, SpaceInv, SpaceTypes, Bytes
<1>2. SpaceInv /\ [Space!Next]_(Space!vars) => SpaceInv'
  <2> SUFFICES ASSUME SpaceInv, [Space!Next]_(Space!vars) PROVE SpaceInv'
    OBVIOUS
  <2>1. CASE Space!Read \/ Space!Verify
    BY <1>0, <2>1, ReadStep
  <2>2. CASE Space!Check
    BY <1>0, <2>2, CheckStep
  <2>3. CASE Space!WriteMacro
    BY <1>0, <2>3, WriteStep
  <2>4. CASE Space!Disconnect
    BY <2>4 DEF Space!Disconnect, SpaceInv, SpaceTypes
  <2>5. CASE UNCHANGED Space!vars
    BY <2>5 DEF Space!vars, SpaceInv, SpaceTypes, WriteInv, Pending, Space!Fits,
       Space!EndsInMacro
  <2> QED
    BY <2>1, <2>2, <2>3, <2>4, <2>5 DEF Space!Next
<1>3. SpaceInv => MacrosArrive
  BY DEF SpaceInv, MacrosArrive, Space!MacrosArrive, Space!NeverFull, Space!WrittenTableVerifies
<1> QED
  BY <1>1, <1>2, <1>3, PTL DEF Space!Spec

=============================================================================
