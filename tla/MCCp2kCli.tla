----------------------------- MODULE MCCp2kCli -----------------------------
(* Instances of Cp2kCli for TLC. *)
EXTENDS Cp2kCli

MCStructures == {<<"H", "O", "H">>, <<"Li">>}

Point(label, link) == [label |-> label, link |-> link]

\* Two segments with a gap between them, one segment, and no point at all.
MCKpaths == {<<Point("G", 5), Point("X", 0), Point("M", 9), Point("R", 0)>>,
             <<Point("G", 5), Point("X", 0)>>, <<>>}

\* Up to twelve images, in two calls.
MCImageLists == {<<"a", "b", "c", "d", "e", "f">>, <<"g", "h", "i", "j">>}

SetOf(names, key) == [path |-> Sec(names), key |-> key]

\* A section that a class makes, one that get_xyz renews, one of get_xyz's
\* own, and one that is missing, with an argument on the way.
MCEntries ==
    {SetOf(<<"force_eval", "dft", "scf">>, "max_scf"),
     SetOf(<<"force_eval", "subsys", "topology">>, "coordinate"),
     [path |-> Sec(<<"force_eval", "subsys">>) \o <<[name |-> Indexed("kind", "H"), arg |-> ""]>>,
      key |-> "basis_set"],
     [path |-> Sec(<<"motion">>) \o On("print") \o Sec(<<"each">>), key |-> "md"]}

MCValues == {<<"one">>, <<"two">>}
MCShorts == {"stress_tensor", "global"}

Item(entry, value) == [path |-> entry.path, key |-> entry.key, value |-> value]
Items == {Item(e, <<"one">>) : e \in MCEntries} \cup {PrintLevel(<<"one">>)}
MCCustoms == {<<>>} \cup {<<i>> : i \in Items}
             \cup {<<Item(e, <<"two">>), PrintLevel(<<"two">>), Item(e, <<"three">>)>> : e \in MCEntries}

\* The instances are within the hypotheses of the theorems.
ASSUME MCHypotheses ==
    /\ KpointsAreLeft
    /\ StructureIsLeft
    /\ OneSpelling
    /\ OthersAreLeft
=============================================================================
