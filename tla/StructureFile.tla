--------------------------- MODULE StructureFile ---------------------------
(***************************************************************************)
(* What a calculator promises about structures: get_xyz makes a file the   *)
(* structure, and the program calculates the structure of the file read    *)
(* last, whatever files the object has seen before.                        *)
(***************************************************************************)
EXTENDS Sequences

CONSTANT Structures \* what a structure file may hold

VARIABLES
    structure,  \* the structure of the file read last
    calculated  \* what the program is given by the last run()

Init ==
    /\ structure = <<>>
    /\ calculated = <<>>

\* get_xyz(filename)
Read ==
    /\ structure' \in Structures
    /\ UNCHANGED calculated

\* run(directory)
Calculate ==
    /\ structure # <<>>
    /\ calculated' = structure
    /\ UNCHANGED structure

Next == Read \/ Calculate

Spec == Init /\ [][Next]_<<structure, calculated>>
=============================================================================
