------------------------- MODULE MCStructureInput -------------------------
(* Instances of StructureInput for TLC. *)
EXTENDS StructureInput, TLC

MCElementOrder == <<"At", "C", "H">>

MCNumber == "At" :> 85 @@ "C" :> 6 @@ "H" :> 1
=============================================================================
