----------------------------- MODULE PostReader ----------------------------
(***************************************************************************)
(* What reading an output promises: the lines are taken one by one, and    *)
(* every rule is applied to each of them once, in the order of the rules.  *)
(* An object keeps the lines of every output it has read, and reads them   *)
(* all again the next time.                                                *)
(***************************************************************************)
EXTENDS Sequences, SequencesExt

CONSTANTS
    Constructed(_),     \* the tree a new object of a class has
    ApplyAll(_, _, _)   \* the tree after all rules of a class, for one line

VARIABLES
    class,  \* the post-processing class
    lines,  \* the lines the object holds
    todo,   \* those the rules have still to be applied to
    info    \* the tree

vars == <<class, lines, todo, info>>

New == lines = <<>> /\ todo = <<>> /\ info = Constructed(class)

Construct == New' /\ UNCHANGED class

(* A class may add values of its own before it reads; nothing is lost. *)
Prepare ==
    /\ todo = <<>>
    /\ \A i \in DOMAIN info : /\ info'[i].key = info[i].key
                              /\ IsPrefix(info[i].val, info'[i].val)
    /\ UNCHANGED <<class, lines, todo>>

Read ==
    /\ todo = <<>>
    /\ IsPrefix(lines, lines')
    /\ todo' = lines'
    /\ UNCHANGED <<class, info>>

Apply ==
    /\ todo # <<>>
    /\ info' = ApplyAll(info, class, Head(todo))
    /\ todo' = Tail(todo)
    /\ UNCHANGED <<class, lines>>

Next == Construct \/ Prepare \/ Read \/ Apply

Spec == New /\ [][Next]_vars
=============================================================================
