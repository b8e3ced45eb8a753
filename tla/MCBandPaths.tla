---------------------------- MODULE MCBandPaths ----------------------------
(* TLC instance of BandPaths: paths of two to four points, each segment    *)
(* broken or with one to three points.                                     *)
EXTENDS BandPaths

Labelings == UNION {{l \in [1..n -> {"GAMMA", "X", "Y"}] : \A i \in 1..n - 1 : l[i] # l[i + 1]} : n \in 2..4}

MCPaths ==
    UNION {{[i \in DOMAIN l |-> [label |-> l[i], link |-> IF i = Len(l) THEN 0 ELSE k[i]]]
               : k \in {m \in [1..Len(l) - 1 -> 0..3] : \E i \in DOMAIN m : m[i] # 0}} : l \in Labelings}

\* A short path and a long one that has a break.
MCOthers == {<<[label |-> "X", link |-> 2], [label |-> "Z", link |-> 0]>>,
             <<[label |-> "GAMMA", link |-> 3], [label |-> "X", link |-> 0],
               [label |-> "Y", link |-> 3], [label |-> "GAMMA", link |-> 0]>>}

\* One atom, two elements, and an element with two atoms around another.
MCCrystals == {<<"Fe">>, <<"O", "Fe">>, <<"Fe", "O", "Fe">>}

\* What TicsAreNamed needs.
ASSUME MCProperPaths == ProperPaths
=============================================================================
