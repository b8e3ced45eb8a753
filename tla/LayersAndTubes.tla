--------------------------- MODULE LayersAndTubes ---------------------------
(***************************************************************************)
(* The functions that build a structure out of others: two layers merged,  *)
(* a film rolled into a tube (utils.cpp), and the passage through a cif    *)
(* file (parser/cif.cpp), which knows lengths, angles and fractional       *)
(* coordinates only, or through an xyz file (parser/xyz.cpp).              *)
(*                                                                         *)
(* The radius R of a tube is a length over 2 pi, no whole number: a        *)
(* coordinate of a rolled atom is a pair <<q, n>>, standing for q R + n/2. *)
(* Atoms are rolled by whole quarters of the circumference.                *)
(***************************************************************************)
EXTENDS StructureTools

LOCAL INSTANCE FiniteSetsExt

LOCAL INSTANCE SequencesExt

CONSTANT Number(_)      \* of an element, in the periodic table

-----------------------------------------------------------------------------
(* merge_layers                                                            *)

Average(u, v) == Divided(Plus(u, v), 2)

\* The a and b of the merged system.
SharedPlane(cell1, cell2, use) ==
    CASE use = 1 -> <<cell1[1], cell1[2]>>
      [] use = 2 -> <<cell2[1], cell2[2]>>
      [] OTHER -> <<Average(cell1[1], cell2[1]), Average(cell1[2], cell2[2])>>

\* The direction of its c; its length is set by vacuum_layer in the end.
SharedThird(cell1, cell2, use) ==
    CASE use = 1 -> cell1[3] [] use = 2 -> cell2[3] [] OTHER -> Plus(cell1[3], cell2[3])

\* A layer with its fractional coordinates kept and another a and b.
Strained(s, plane) ==
    LET cell == <<plane[1], plane[2], s.cell[3]>>
        Same(v) == Cartesian(cell, Volume(s.cell), Fractional(s.cell, v)) IN
    [Mapped(s, Same) EXCEPT !.cell = cell]

StrainPossible(s, plane) ==
    \A i \in DOMAIN s.atoms, k \in Axes :
        Combined(<<plane[1], plane[2], s.cell[3]>>, Fractional(s.cell, s.atoms[i].at))[k] % Volume(s.cell) = 0

\* The second layer, its lowest atom "distance" above the highest of the first.
Raised(layer1, layer2, distance) ==
    LET by == distance - (Lowest(layer2.atoms, 3) - Highest(layer1.atoms, 3))
        Up(v) == Plus(v, <<0, 0, by>>) IN
    Mapped(layer2, Up)

Merged(s1, s2, use, distance, low) ==
    LET plane == SharedPlane(s1.cell, s2.cell, use)
        layer1 == Strained(WithinZeroAndOne(s1, low), plane)
        layer2 == Strained(WithinZeroAndOne(s2, low), plane) IN
    [cell |-> Append(plane, SharedThird(s1.cell, s2.cell, use)),
     atoms |-> layer1.atoms \o Raised(layer1, layer2, distance).atoms]

-----------------------------------------------------------------------------
(* build_nanotube_ab, _ac, _bc                                             *)

Planes == {"ab", "ac", "bc"}

\* The lattice vector wound up: the one of the plane that is not the axis.
Wound(plane, axis) ==
    LET index == [a |-> 1, b |-> 2, c |-> 3] IN 6 - Third[plane] - index[axis]

InPlane(plane, axis) ==
    axis \in (CASE plane = "ab" -> {"a", "b"} [] plane = "ac" -> {"a", "c"} [] plane = "bc" -> {"b", "c"})

Sine(quarters) == <<0, 1, 0, -1>>[(quarters % 4) + 1]

Cosine(quarters) == <<1, 0, -1, 0>>[(quarters % 4) + 1]

\* Twice the place the winding starts from, along the wound vector.
TwiceStart(s, plane, axis) ==
    LET u == Wound(plane, axis) IN
    Length(s.cell[u]) + (IF <<plane, axis>> = <<"ab", "b">> THEN 0 ELSE 2 * Lowest(s.atoms, u))

TwiceMiddle(s, plane) == Lowest(s.atoms, Third[plane]) + Highest(s.atoms, Third[plane])

\* The arc from the start to an atom, in quarters, and on which side it is.
Arc(s, plane, axis, at) ==
    LET u == Wound(plane, axis) IN
    (2 * Abs(2 * at[u] - TwiceStart(s, plane, axis))) \div Length(s.cell[u])

Beyond(s, plane, axis, at) == 2 * at[Wound(plane, axis)] >= TwiceStart(s, plane, axis)

TubePossible(s, plane, axis) ==
    LET u == Wound(plane, axis) IN
    /\ s.atoms # <<>> /\ HasLength(s.cell[u])
    /\ \A i \in DOMAIN s.atoms :
           (2 * Abs(2 * s.atoms[i].at[u] - TwiceStart(s, plane, axis))) % Length(s.cell[u]) = 0

\* A mutant of CentreHeight: the radius is not added.
CentreHeightFlat(s, plane, axis, i) == <<0, TwiceMiddle(s, plane)>>

\* Around c, the plane bc loses its centre: an atom beyond the start sets the
\* centre to where it stands itself, for the atoms after it.
CentreHeight(s, plane, axis, i) ==
    LET lost == {j \in 1..i - 1 : <<plane, axis>> = <<"bc", "c">> /\ Beyond(s, plane, axis, s.atoms[j].at)} IN
    IF lost = {} THEN <<1, TwiceMiddle(s, plane)>>
    ELSE <<Cosine(Arc(s, plane, axis, s.atoms[Max(lost)].at)), 0>>

RolledAtom(s, plane, axis, i) ==
    LET at == s.atoms[i].at
        arc == Arc(s, plane, axis, at)
        beyond == Beyond(s, plane, axis, at)
        side == IF beyond THEN 1 ELSE -1
        inner == TwiceMiddle(s, plane) - 2 * at[Third[plane]]
        centre == CentreHeight(s, plane, axis, i)
        lost == beyond /\ <<plane, axis>> = <<"bc", "c">> IN
    [name |-> s.atoms[i].name,
     across |-> <<side * Sine(arc), TwiceStart(s, plane, axis) + side * inner * Sine(arc)>>,
     height |-> IF lost THEN <<Cosine(arc), -inner * Cosine(arc)>>
                ELSE <<centre[1] - Cosine(arc), centre[2] - inner * Cosine(arc)>>,
     along |-> at[6 - Third[plane] - Wound(plane, axis)]]

\* The third vector becomes five radii long.
BuildNanotube(s, plane, axis) ==
    [atoms |-> [i \in DOMAIN s.atoms |-> RolledAtom(s, plane, axis, i)], third |-> <<5, 0>>]

-----------------------------------------------------------------------------
(* write_cif_file, then read_cif_file                                      *)

\* Atoms are written element by element, in the order of their numbers.
Grouped(atoms) ==
    LET numbers == SetToSortSeq({Number(atoms[i].name) : i \in DOMAIN atoms}, LAMBDA m, n : m < n)
        Of(n) == SelectSeq(atoms, LAMBDA atom : Number(atom.name) = n) IN
    FlattenSeq([k \in DOMAIN numbers |-> Of(numbers[k])])

\* The cell rebuilt from lengths and angles: a along x, b in the plane xy.
\* The y part of c is right only where beta or gamma is a right angle.
RightAtA(cell) == Dot(cell[1], cell[2]) = 0 \/ Dot(cell[1], cell[3]) = 0

CellOfAngles(cell) ==
    LET a == Length(cell[1])
        area == Length(Cross(cell[1], cell[2]))
        c1 == Dot(cell[1], cell[3]) \div a
        c2 == (Dot(cell[2], cell[3]) * a) \div area IN
    <<<<a, 0, 0>>,
      <<Dot(cell[1], cell[2]) \div a, area \div a, 0>>,
      <<c1, c2, CHOOSE n \in 0..Dot(cell[3], cell[3]) : n * n = Dot(cell[3], cell[3]) - c1 * c1 - c2 * c2>>>>

CifPossible(s) ==
    LET cell == s.cell IN
    /\ ~Singular(cell) /\ RightAtA(cell)
    /\ HasLength(cell[1]) /\ HasLength(Cross(cell[1], cell[2]))
    /\ LET a == Length(cell[1])
           area == Length(Cross(cell[1], cell[2])) IN
       /\ Dot(cell[1], cell[2]) % a = 0 /\ Dot(cell[1], cell[3]) % a = 0 /\ area % a = 0
       /\ (Dot(cell[2], cell[3]) * a) % area = 0
       /\ Det(cell) % area = 0
    /\ \A i \in DOMAIN s.atoms, k \in Axes :
           Combined(CellOfAngles(cell), Fractional(cell, s.atoms[i].at))[k] % Volume(cell) = 0

ThroughCif(s) ==
    LET new == CellOfAngles(s.cell)
        Same(v) == Cartesian(new, Volume(s.cell), Fractional(s.cell, v)) IN
    [cell |-> new, atoms |-> Grouped(Mapped(s, Same).atoms)]

-----------------------------------------------------------------------------
(* write_xyz_file, then read_xyz_file: a file is its lines, and a line the *)
(* words between its blanks.                                               *)

XyzLines(s) ==
    <<<<Len(s.atoms)>>,
      <<"cell:">> \o s.cell[1] \o <<"|">> \o s.cell[2] \o <<"|">> \o s.cell[3]>>
    \o [i \in DOMAIN s.atoms |-> <<s.atoms[i].name>> \o s.atoms[i].at]

\* Otherwise the reader leaves the program.
XyzReadable(lines) == lines[1][1] = Len(lines) - 2

FromXyz(lines) ==
    [cell |-> [k \in Axes |-> SubSeq(lines[2], 4 * k - 2, 4 * k)],
     atoms |-> [i \in 1..lines[1][1] |-> [name |-> lines[i + 2][1], at |-> Tail(lines[i + 2])]]]
=============================================================================
