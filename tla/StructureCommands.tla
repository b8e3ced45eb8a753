------------------------- MODULE StructureCommands -------------------------
(***************************************************************************)
(* A user's series of structure commands (atomsciflow_stru.py) and calls   *)
(* of the utils binding on one structure.  A command reads a file, applies *)
(* one function and writes a file, and the next one reads that file: the   *)
(* state is the structure as it is read, from the lines of an xyz file     *)
(* (Saved) or from a cif file (Convert).                                   *)
(*                                                                         *)
(* base is history: the crystal the structure stands for, an infinite      *)
(* repetition of atoms, and where it has been moved to since.              *)
(***************************************************************************)
EXTENDS LayersAndTubes

CONSTANTS
    Structures,     \* structure files to start from
    Layers,         \* structure files to merge with
    Counts,         \* replicas along the three vectors
    Rows,           \* new lattice vectors in terms of the old ones
    Directions,     \* of surfaces
    Moves,          \* directions with displacements
    Roundings,      \* sets of axes along which a coordinate on a face is computed too low
    Thicknesses, Distances, Points,
    MaxSteps, MaxAtoms      \* bounds on the series and on its structures

VARIABLES crystal, base, last, steps

vars == <<crystal, base, last, steps>>

None == [op |-> "none"]

\* After a step that makes another crystal, the history starts again.
Remakes == {"vacuum", "cleave", "merge", "convert", "edit"}

Fresh(s) == [cell |-> s.cell, atoms |-> s.atoms, sign |-> 1, shift |-> <<0, 0, 0>>, whole |-> TRUE]

Base == IF last.op \in Remakes THEN Fresh(crystal) ELSE base

Init ==
    /\ crystal \in Structures
    /\ base = Fresh(crystal)
    /\ last = None
    /\ steps = 0

Becomes(s, operation) ==
    /\ Len(s.atoms) \in 1..MaxAtoms
    /\ crystal' = s
    /\ last' = operation
    /\ steps' = steps + 1

\* The command writes an xyz file, and the next one reads it.
Saved(s, operation) ==
    LET lines == XyzLines(s) IN
    /\ XyzReadable(lines)
    /\ Becomes(FromXyz(lines), operation)

\* An atom on a face of the new cell may be lost to rounding, and atoms may be
\* out of reach where the old cell is not rectangular.
Redefines(low) == base' = [Base EXCEPT !.whole = @ /\ low = {} /\ Rectangular(crystal.cell)]

Supercell(n) ==
    /\ Len(crystal.atoms) * n[1] * n[2] * n[3] <= MaxAtoms
    /\ Saved(BuildSupercell(crystal, n), [op |-> "supercell"])
    /\ base' = Base

Redefine(rows, low) ==
    /\ ~Singular(rows) /\ ~Singular(crystal.cell)
    /\ Saved(RedefineLattice(crystal, rows, low), [op |-> "redefine", low |-> low])
    /\ Redefines(low)

Vacuum(plane, thick) ==
    /\ VacuumPossible(crystal, plane, thick)
    /\ Saved(VacuumLayer(crystal, plane, thick),
             [op |-> "vacuum", cut |-> crystal, plane |-> plane, thick |-> thick])
    /\ base' = Base

Cleave(direction, thick, low) ==
    LET cut == RedefineLattice(crystal, SurfaceRows(direction), low) IN
    /\ ~Singular(crystal.cell)
    /\ VacuumPossible(cut, "ab", thick)
    /\ Saved(VacuumLayer(cut, "ab", thick),
             [op |-> "cleave", cut |-> cut, plane |-> "ab", thick |-> thick])
    /\ Redefines(low)

Merge(layer, use, distance, thick, low) ==
    LET plane == SharedPlane(crystal.cell, layer.cell, use)
        merged == Merged(crystal, layer, use, distance, low) IN
    /\ ~Singular(crystal.cell)
    /\ StrainPossible(WithinZeroAndOne(crystal, low), plane)
    /\ StrainPossible(WithinZeroAndOne(layer, low), plane)
    /\ VacuumPossible(merged, "ab", thick)
    /\ Saved(VacuumLayer(merged, "ab", thick),
             [op |-> "merge", cut |-> merged, plane |-> "ab", thick |-> thick,
              distance |-> distance, first |-> Len(crystal.atoms)])
    /\ base' = Base

\* All the atoms ("all") or those of a list.
Move(chosen, move, low) ==
    /\ ~Singular(crystal.cell)
    /\ chosen # {} /\ chosen \subseteq DOMAIN crystal.atoms
    /\ MovePossible(crystal, move.along, move.disp)
    /\ Saved(MoveAlong(crystal, chosen, move.along, move.disp, low),
             [op |-> IF chosen = DOMAIN crystal.atoms THEN "move" ELSE "edit"])
    /\ base' = [Base EXCEPT !.shift = Plus(@, Displacement(crystal, move.along, move.disp))]

Remove(removed) ==
    /\ removed # {} /\ removed \subseteq DOMAIN crystal.atoms
    /\ Becomes(RemoveAtoms(crystal, removed), [op |-> "edit"])
    /\ base' = Base

\* Inversions: v becomes twice the centre minus v.
Inverts(s, twice) ==
    /\ Becomes(s, [op |-> "inverse"])
    /\ base' = [Base EXCEPT !.sign = -@, !.shift = Minus(twice, @)]

InvertPoint(point) == Inverts(InversePoint(crystal, point), Times(2, point))

InvertGeoCenter == GeoCenterPossible(crystal) /\ Inverts(InverseGeoCenter(crystal), TwiceGeoCenter(crystal))

InvertCellCenter ==
    ~Singular(crystal.cell) /\ Inverts(InverseCellCenter(crystal), Combined(crystal.cell, <<1, 1, 1>>))

MinToZero ==
    /\ ~Singular(crystal.cell) /\ FracMinPossible(crystal)
    /\ Becomes(FracMinToZero(crystal), [op |-> "tidy"])
    /\ base' = [Base EXCEPT !.shift = Plus(@, Minus(FracMinToZero(crystal).atoms[1].at, crystal.atoms[1].at))]

Tidy(low) ==
    /\ ~Singular(crystal.cell)
    /\ Becomes(WithinZeroAndOne(crystal, low), [op |-> "tidy"])
    /\ base' = Base

\* A tube is a structure of its own; on the plane ab the film itself is
\* brought into its cell.  On ac and bc only the binding makes one: the command
\* imports the function of the other plane and raises.
Tube(plane, axis, low) ==
    LET film == IF plane = "ab" THEN WithinZeroAndOne(crystal, low) ELSE crystal IN
    /\ ~Singular(crystal.cell) /\ InPlane(plane, axis)
    /\ TubePossible(film, plane, axis)
    /\ Becomes(film, [op |-> "tube", film |-> film, plane |-> plane, axis |-> axis,
                      tube |-> BuildNanotube(film, plane, axis)])
    /\ base' = Base

\* convert to cif, and a later command that reads the cif file.
Convert ==
    /\ CifPossible(crystal)
    /\ Becomes(ThroughCif(crystal), [op |-> "convert", before |-> crystal])
    /\ base' = Base

Next ==
    /\ steps < MaxSteps
    /\ \/ \E n \in Counts : Supercell(n)
       \/ \E rows \in Rows, low \in Roundings : Redefine(rows, low)
       \/ \E plane \in Planes, thick \in Thicknesses : Vacuum(plane, thick)
       \/ \E direction \in Directions, thick \in Thicknesses, low \in Roundings : Cleave(direction, thick, low)
       \/ \E layer \in Layers, use \in 0..2, distance \in Distances, thick \in Thicknesses, low \in Roundings :
             Merge(layer, use, distance, thick, low)
       \/ \E chosen \in {DOMAIN crystal.atoms, {1}}, move \in Moves, low \in Roundings :
             Move(chosen, move, low)
       \/ Remove({1})
       \/ \E point \in Points : InvertPoint(point)
       \/ InvertGeoCenter \/ InvertCellCenter \/ MinToZero
       \/ \E low \in Roundings : Tidy(low)
       \/ \E plane \in Planes, axis \in {"a", "b", "c"} : Tube(plane, axis, {})
       \/ Convert

Spec == Init /\ [][Next]_vars

-----------------------------------------------------------------------------
SameModulo(cell, u, v) ==
    \A k \in Axes : Fractional(cell, Minus(u, v))[k] % Volume(cell) = 0

\* The structure the history is about: before the vacuum was put above it.
Bulk == IF last.op \in {"vacuum", "cleave"} THEN last.cut ELSE crystal

\* Where the atom at v stood in the crystal of the history.
Back(v) == Times(base.sign, Minus(v, base.shift))

NothingInvented ==
    \A i \in DOMAIN Bulk.atoms :
        /\ \E j \in DOMAIN base.atoms :
               /\ base.atoms[j].name = Bulk.atoms[i].name
               /\ SameModulo(base.cell, Back(Bulk.atoms[i].at), base.atoms[j].at)
        /\ \A j \in DOMAIN Bulk.atoms :
               i # j => ~SameModulo(Bulk.cell, Bulk.atoms[i].at, Bulk.atoms[j].at)

NothingLost == Len(Bulk.atoms) * Volume(base.cell) = Len(base.atoms) * Volume(Bulk.cell)

(***************************************************************************)
(* utils.cpp, crystal.cpp: a series of supercells, redefined lattices,     *)
(* cuts, moves and inversions keeps the infinite crystal: every atom of    *)
(* the structure is an atom of the crystal, none is there twice, and none  *)
(* is missing unless a lattice was redefined out of a cell that is not     *)
(* rectangular or a coordinate on a face was computed below zero.          *)
(***************************************************************************)
KeepsCrystal ==
    last.op \notin {"merge", "convert", "edit"} => NothingInvented /\ (base.whole => NothingLost)

(***************************************************************************)
(* utils.cpp:549 "make a large enough supercell, which guarantee that all  *)
(* the atoms in the new lattice are inside the supercell": without         *)
(* rounding, a redefined lattice has all its atoms, as many per volume as  *)
(* the crystal.                                                            *)
(***************************************************************************)
RedefineKeepsAtoms ==
    [][last'.op = "redefine" /\ last'.low = {}
       => Len(crystal'.atoms) * Volume(crystal.cell) = Len(crystal.atoms) * Volume(crystal'.cell)]_vars

\* Only the coordinate k of v is not zero.
Along(v, k) == \A m \in Axes : m # k => v[m] = 0

(***************************************************************************)
(* vacuum_layer, cleave_surface and merge_layers: where the plane is       *)
(* normal to the axis its atoms are measured along, the empty part of the  *)
(* cell above the atoms has the thickness asked for, and the lowest atom   *)
(* of a merged layer is the distance asked for above the other layer.      *)
(***************************************************************************)
GapIsThickness ==
    /\ last.op \in {"vacuum", "cleave", "merge"} =>
           LET k == Third[last.plane] IN
           Along(Normal(crystal.cell, last.plane), k) =>
               Abs(crystal.cell[k][k]) - Extent(crystal.atoms, k) = last.thick
    /\ last.op = "merge" =>
           Lowest(SubSeq(crystal.atoms, last.first + 1, Len(crystal.atoms)), 3)
               - Highest(SubSeq(crystal.atoms, 1, last.first), 3) = last.distance

\* (q R + n/2)^2 as its coefficients, of R^2, R / 1 and 1 / 4.
Squared(p) == <<p[1] * p[1], p[1] * p[2], p[2] * p[2]>>

(***************************************************************************)
(* build_nanotube_*: every atom of a tube is as far from the axis as its   *)
(* height in the film says, and two atoms of the film that are one lattice *)
(* vector apart meet; around c on the plane bc this is not promised (the   *)
(* centre is lost).                                                        *)
(***************************************************************************)
TubeIsRound ==
    last.op = "tube" /\ <<last.plane, last.axis>> # <<"bc", "c">> =>
        LET film == last.film
            start == TwiceStart(film, last.plane, last.axis)
            middle == TwiceMiddle(film, last.plane) IN
        \A i \in DOMAIN film.atoms :
            LET atom == last.tube.atoms[i]
                inner == <<1, middle - 2 * film.atoms[i].at[Third[last.plane]]>> IN
            Plus(Squared(<<atom.across[1], atom.across[2] - start>>),
                 Squared(<<atom.height[1] - 1, atom.height[2] - middle>>)) = Squared(inner)

(***************************************************************************)
(* write_cif_file and read_cif_file: a structure read from the cif file it *)
(* was written to has the same lengths and angles and, element by element, *)
(* the same fractional coordinates.                                        *)
(***************************************************************************)
CifKeepsGeometry ==
    last.op = "convert" =>
        LET old == last.before
            At(s, name) == {[k \in Axes |-> Fractional(s.cell, s.atoms[i].at)[k]] :
                            i \in {j \in DOMAIN s.atoms : s.atoms[j].name = name}} IN
        /\ \A p, q \in Axes : Dot(crystal.cell[p], crystal.cell[q]) = Dot(old.cell[p], old.cell[q])
        /\ \A i \in DOMAIN old.atoms : At(old, old.atoms[i].name) = At(crystal, old.atoms[i].name)
        /\ Len(crystal.atoms) = Len(old.atoms)

(***************************************************************************)
(* Layers and tubes have the measures that were asked for.                 *)
(***************************************************************************)
BuiltAsAsked == GapIsThickness /\ TubeIsRound

(***************************************************************************)
(* Neither the operations nor the way through a file change the crystal.   *)
(***************************************************************************)
SameCrystal == KeepsCrystal /\ CifKeepsGeometry
=============================================================================
