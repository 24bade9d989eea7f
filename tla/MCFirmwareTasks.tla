--------------------------- MODULE MCFirmwareTasks ---------------------------
EXTENDS FirmwareTasks

\* The Glove80 keeps its rail neither awake nor suspended, the Go60 both.
Glove80 == [awake |-> FALSE, asleep |-> FALSE]
Go60 == [awake |-> TRUE, asleep |-> TRUE]
MCBoards == {Glove80, Go60}

\* A key of every kind, and two profile keys.
OneOfEach == [k \in {"Clear", "One", "Two", "All", "Boot", "Toggle", "Light"} |->
    CASE k = "Clear" -> "clear" [] k = "One" -> "p1" [] k = "Two" -> "p2"
      [] k = "All" -> "clear_all" [] k = "Boot" -> "boot"
      [] k = "Toggle" -> "toggle" [] k = "Light" -> "light"]
MCKeys == DOMAIN OneOfEach
=============================================================================
