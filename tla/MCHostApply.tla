----------------------------- MODULE MCHostApply -----------------------------
EXTENDS HostApply

\* ConfigApply: files and keyboards of two layers of three cells.

Settings(p, s) == [r \in {"default", "pointing", "state"} |->
                        CASE r = "pointing" -> p [] r = "state" -> s [] OTHER -> 0]

MCFile(layers, tables, names, singles) ==
    [layers |-> layers, tables |-> tables, names |-> names, singles |-> singles]

MorseAndFork(m, f) == [t \in {"morse", "fork"} |-> IF t = "morse" THEN m ELSE f]

(* Layers of three cells; a cell 1 or 2 addresses that morse slot. *)
MCFiles ==
    { MCFile(<< <<1, 2, 7>> >>, MorseAndFork(<<3, 4>>, <<>>), <<>>, Settings(0, 1)),
      MCFile(<< <<8, 1, 8>> >>, [t \in {"morse"} |-> <<3>>], <<5>>, Settings(1, 0)),
      MCFile(<< <<8, 8, 8>> >>, [t \in {"profile"} |-> <<6>>], <<>>, Settings(0, 0)),
      MCFile(<<>>, [t \in {"combo"} |-> <<5>>], <<>>, Settings(0, 0)) }

(* Keyboards: as flashed, and one with every table in use. *)
Blank == [i \in Items |-> 0]
Used == [i \in Items |->
            CASE i[1] = "key" -> 8 [] i[1] \in Tables -> 5 [] OTHER -> 0]
MCBoards == {Blank, Used}

MCModern == {"modern"}
=============================================================================
