------------------------ MODULE MCStructureCommands ------------------------
(***************************************************************************)
(* Structures of two atoms in rectangular and oblique cells whose diagonals*)
(* are whole numbers, and series of two commands.                          *)
(***************************************************************************)
EXTENDS StructureCommands

MCNumber(name) == [H |-> 1, O |-> 8][name]

Cell(a, b, c) == <<<<a, 0, 0>>, <<0, b, 0>>, <<0, 0, c>>>>

Two(cell, v) ==
    [cell |-> cell, atoms |-> <<[name |-> "O", at |-> <<0, 0, 0>>], [name |-> "H", at |-> v]>>]

MCStructures ==
    {Two(Cell(12, 12, 16), <<6, 3, 4>>),
     Two(Cell(36, 24, 12), <<9, 18, 3>>),
     Two(<<<<12, 0, 0>>, <<0, 16, 0>>, <<0, 8, 12>>>>, <<3, 8, 6>>),
     Two(<<<<12, 0, 0>>, <<9, 12, 0>>, <<0, 0, 8>>>>, <<3, 6, 2>>)}

MCLayers == {Two(Cell(12, 24, 8), <<6, 12, 4>>)}

MCCounts == {<<2, 1, 1>>, <<1, 2, 2>>}

MCRows == {<<<<1, 1, 0>>, <<0, 1, 0>>, <<0, 0, 1>>>>, <<<<1, 0, 0>>, <<0, 1, -1>>, <<0, 1, 1>>>>,
           <<<<1, 0, 0>>, <<-3, 1, 0>>, <<0, 0, 1>>>>, <<<<1, 0, 0>>, <<3, 1, 0>>, <<0, 0, 1>>>>}

MCDirections == {<<1, 0, 0>>, <<0, 1, 0>>, <<0, 0, 1>>, <<0, 1, 1>>, <<1, 0, 1>>, <<1, 1, 1>>, <<0, 1, 2>>}

MCThicknesses == {8}

MCDistances == {4}

MCMoves == {[along |-> <<1, 0, 0>>, disp |-> -3], [along |-> <<0, 1, 1>>, disp |-> 20]}

MCRoundings == {{}, {2, 3}}

MCPoints == {<<1, 2, 3>>}

MCSteps == 2

MCAtoms == 8
=============================================================================
