---------------------------- MODULE Selections ----------------------------
(***************************************************************************)
(* What a loop with an if keeps of a sequence.  A fold, so that what it    *)
(* computes can be proved for sequences of any length.                     *)
(***************************************************************************)
EXTENDS Sequences, SequencesExt

\* The members of T, as a loop with an if meets them in s.
Only(s, T) ==
    FoldLeft(LAMBDA kept, x : IF x \in T THEN Append(kept, x) ELSE kept, <<>>, s)

\* No element twice.
Distinct(s) == \A i, j \in DOMAIN s : s[i] = s[j] => i = j
=============================================================================
