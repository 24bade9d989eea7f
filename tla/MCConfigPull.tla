---------------------------- MODULE MCConfigPull ----------------------------
(* Keyboards that differ from one base in up to two ways. *)
EXTENDS ConfigPull

Key == Act("key", Default)
Trans == Act("trans", Default)
No == Act("no", Default)
Hold(p) == Act("lt", p)
ModTap(p) == Act("mt", p)

Base ==
    [ layers   |-> <<Key, ModTap(2), Trans>>,
      names    |-> <<11, 12, 0>>,
      refs     |-> [r \in Refs |-> IF r = "default_layer" THEN 1 ELSE 0],
      options  |-> TRUE,
      profiles |-> <<0, 21, 22>>,
      triggers |-> <<Default, 2>>,
      tables   |-> [t \in Tables |-> <<Free, Entry(TRUE, TRUE, TRUE), Free>>],
      params   |-> [p \in {"density", "trail"} |->
                        [value |-> IF p = "density" THEN 6 ELSE 1, default |-> 1]] ]

(* Ways in which a keyboard may differ. *)
Layered(k) ==
    {[k EXCEPT !.layers = s] :
        s \in { <<Key, Hold(2), Hold(3)>>, <<Key, No, Trans>>, <<Hold(Default), Trans, Trans>>,
                <<Hold(1), ModTap(3), Trans>>, <<ModTap(Default), Key, Trans>>, <<Act("lost", Default), Key, Trans>> }}
Named(k) == {[k EXCEPT !.names = <<11, 12, 13>>], [k EXCEPT !.names = <<11, 0, 0>>]}
Referring(k) == {[k EXCEPT !.refs[r] = l] : r \in Refs, l \in 2 .. 3}
Profiled(k) ==
    {[k EXCEPT !.profiles = s] : s \in { <<22, 21, 0>>, <<0, 0, 21>>, <<0, 0, 0>>, <<23, 21, 22>> }}
        \cup {[k EXCEPT !.triggers = s] : s \in { <<2, Default>>, <<3, 2>>, <<>> }}
Tabled(k) ==
    {[k EXCEPT !.tables[t] = s] : t \in Tables \ {"macro"},
        s \in { <<Free, Free, Free>>, <<Free, Free, Entry(TRUE, TRUE, TRUE)>> }}
        \cup {[k EXCEPT !.tables["morse"][2] = Entry(TRUE, TRUE, FALSE)],
              [k EXCEPT !.tables["fork"][2] = Entry(TRUE, FALSE, TRUE)],
              [k EXCEPT !.tables["fork"][1] = Entry(FALSE, FALSE, TRUE)],
              [k EXCEPT !.tables["combo"][2] = Entry(TRUE, TRUE, FALSE)]}
Tuned(k) == {[k EXCEPT !.params["density"].value = 1], [k EXCEPT !.params["trail"].value = 2]}
Older(k) == {[k EXCEPT !.options = FALSE]}

Variants(k) ==
    Layered(k) \cup Named(k) \cup Referring(k) \cup Profiled(k)
        \cup Tabled(k) \cup Tuned(k) \cup Older(k)

MCOneWay == {Base} \cup Variants(Base)
MCKeyboards == MCOneWay \cup UNION {Variants(k) : k \in MCOneWay}
MCOthers == {Base} \cup Layered(Base) \cup Tabled(Base) \cup Tuned(Base)
                \cup {[Base EXCEPT !.refs["wake_layer"] = 2], [Base EXCEPT !.triggers = <<>>]}
                \cup UNION {Older(k) : k \in Tabled(Base)}

(* A mod-tap with the default profile, and a layer nobody named. *)
MCPlainModTap == {[Base EXCEPT !.layers = <<ModTap(Default), Key, Trans>>]}
MCVacantName == {[Base EXCEPT !.names = <<11, 0, 0>>]}

(* No old file, one with labels, and one whose label meets a generated id. *)
MCOldFile(ids) ==
    [ from_snapshot(Base, [ids |-> <<>>, names |-> <<>>]) EXCEPT !.ids = ids ]
MCOldFiles == {MCOldFile(<<31, 32>>), MCOldFile(<<3, 32>>), MCOldFile(<<31, 31>>)}
=============================================================================
