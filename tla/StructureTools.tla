--------------------------- MODULE StructureTools ---------------------------
(***************************************************************************)
(* The functions on structures of utils.cpp, base/crystal.cpp and the cif  *)
(* parser.  A structure is a cell and a sequence of named atoms in         *)
(* cartesian coordinates.  All arithmetic is exact (Lattice) except where  *)
(* a rounding can be seen: a fractional coordinate that is a whole number  *)
(* may be computed a little below it, along the axes of "low".  A result   *)
(* that is no whole number of units is outside these functions: Possible   *)
(* operators say where they apply.                                         *)
(***************************************************************************)
EXTENDS Lattice

LOCAL INSTANCE FiniteSetsExt

LOCAL INSTANCE SequencesExt

Lowest(atoms, k) == Min({atoms[i].at[k] : i \in DOMAIN atoms})

Highest(atoms, k) == Max({atoms[i].at[k] : i \in DOMAIN atoms})

Extent(atoms, k) == Highest(atoms, k) - Lowest(atoms, k)

Mapped(s, Op(_)) == [s EXCEPT !.atoms = [i \in DOMAIN s.atoms |-> [s.atoms[i] EXCEPT !.at = Op(@)]]]

-----------------------------------------------------------------------------
(* Replication: the list grows along a, then b, then c.                    *)

Forward(n) == [j \in 1..n |-> j - 1]

BothWays(n) == [j \in 1..2 * n |-> IF j <= n THEN j - 1 ELSE j - 1 - 2 * n]

Repeated(s, offsets) ==
    LET size == Len(s.atoms)
        l1 == Len(offsets[1])
        l2 == Len(offsets[2]) IN
    [p \in 1..size * l1 * l2 * Len(offsets[3]) |->
        LET copy == (p - 1) \div size
            atom == s.atoms[((p - 1) % size) + 1]
            n == <<offsets[1][(copy % l1) + 1],
                   offsets[2][((copy \div l1) % l2) + 1],
                   offsets[3][(copy \div (l1 * l2)) + 1]>> IN
        [atom EXCEPT !.at = Plus(@, Combined(s.cell, n))]]

BuildSupercell(s, n) ==
    [cell |-> <<Times(n[1], s.cell[1]), Times(n[2], s.cell[2]), Times(n[3], s.cell[3])>>,
     atoms |-> Repeated(s, <<Forward(n[1]), Forward(n[2]), Forward(n[3])>>)]

\* Twice the length of the longest new vector in old ones, rounded up.
Reach(new, old) ==
    LET longest == Max({Dot(new[i], new[i]) : i \in Axes})
        Enough(n) == n * n * Dot(old, old) >= longest IN
    2 * (CHOOSE n \in 1..longest : Enough(n) /\ ~Enough(n - 1))

EnlargeAtoms(s, new) ==
    Repeated(s, <<BothWays(Reach(new, s.cell[1])), BothWays(Reach(new, s.cell[2])), BothWays(Reach(new, s.cell[3]))>>)

\* A mutant of Inside: the upper face belongs to the cell.
InsideClosed(f, vol, low) ==
    \A k \in Axes : (IF k \in low THEN 0 < f[k] ELSE 0 <= f[k]) /\ f[k] <= vol

\* Each fractional coordinate, times vol, is at least 0 and below 1.
Inside(f, vol, low) ==
    \A k \in Axes : (IF k \in low THEN 0 < f[k] ELSE 0 <= f[k]) /\ f[k] < vol

\* The whole enlarged list, seen from the new cell: what lies inside stays.
RedefineLattice(s, rows, low) ==
    LET new == <<Combined(s.cell, rows[1]), Combined(s.cell, rows[2]), Combined(s.cell, rows[3])>>
        convmat == Inverse3(new)
        vol == Volume(new)
        Keep(atom) == Inside(Applied(convmat, atom.at), vol, low) IN
    [cell |-> new, atoms |-> SelectSeq(EnlargeAtoms(s, new), Keep)]

-----------------------------------------------------------------------------
(* Vacuum and surfaces                                                     *)

Third == [ab |-> 3, ac |-> 2, bc |-> 1]

Normal(cell, plane) ==
    CASE plane = "ab" -> Cross(cell[1], cell[2])
      [] plane = "ac" -> Cross(cell[1], cell[3])
      [] plane = "bc" -> Cross(cell[2], cell[3])

\* A mutant of Heights: measured from zero, not from the lowest atom.
HeightsAboveZero(s, plane, thick) ==
    LET k == Third[plane]
        normal == Normal(s.cell, plane) IN
    <<(Highest(s.atoms, k) + thick) * Length(normal), Abs(Dot(s.cell[k], normal))>>

\* What the third vector is multiplied by: the height to fill, measured along
\* z, y or x, over the height of the cell above the plane.
Heights(s, plane, thick) ==
    LET k == Third[plane]
        normal == Normal(s.cell, plane) IN
    <<(Extent(s.atoms, k) + thick) * Length(normal), Abs(Dot(s.cell[k], normal))>>

VacuumPossible(s, plane, thick) ==
    /\ s.atoms # <<>> /\ ~Singular(s.cell)
    /\ HasLength(Normal(s.cell, plane))
    /\ \A k \in Axes : (s.cell[Third[plane]][k] * Heights(s, plane, thick)[1]) % Heights(s, plane, thick)[2] = 0

VacuumLayer(s, plane, thick) ==
    LET factor == Heights(s, plane, thick) IN
    [s EXCEPT !.cell[Third[plane]] = Divided(Times(factor[1], @), factor[2])]

Identity == <<<<1, 0, 0>>, <<0, 1, 0>>, <<0, 0, 1>>>>

\* The new vectors of the surfaces that cleave_surface knows; every other
\* direction leaves the vectors as they are.
Surfaces ==
    {[direction |-> <<1, 0, 0>>, rows |-> <<<<0, 1, 0>>, <<0, 0, 1>>, <<1, 0, 0>>>>],
     [direction |-> <<0, 1, 0>>, rows |-> <<<<0, 0, 1>>, <<1, 0, 0>>, <<0, 1, 0>>>>],
     [direction |-> <<0, 0, 1>>, rows |-> Identity],
     [direction |-> <<0, 1, 1>>, rows |-> <<<<1, 0, 0>>, <<0, 1, -1>>, <<0, 1, 1>>>>],
     [direction |-> <<1, 0, 1>>, rows |-> <<<<1, 0, -1>>, <<0, 1, 0>>, <<1, 0, 1>>>>],
     [direction |-> <<1, 1, 0>>, rows |-> <<<<0, 0, 1>>, <<1, -1, 0>>, <<1, 1, 0>>>>],
     [direction |-> <<1, 1, 1>>, rows |-> <<<<1, -1, 0>>, <<1, 0, -1>>, <<1, 1, 1>>>>]}

SurfaceRows(direction) ==
    IF \E p \in Surfaces : p.direction = direction
    THEN (CHOOSE p \in Surfaces : p.direction = direction).rows
    ELSE Identity

-----------------------------------------------------------------------------
(* Moving atoms                                                            *)

\* Every atom into the cell; a coordinate computed below zero ends at one.
WithinZeroAndOne(s, low) ==
    LET onFace(v) == {k \in low : Fractional(s.cell, v)[k] % Volume(s.cell) = 0}
        Into(v) == Plus(Wrapped(s.cell, v),
                        Combined(s.cell, [k \in Axes |-> IF k \in onFace(v) THEN 1 ELSE 0])) IN
    Mapped(s, Into)

\* The least fractional coordinates, as a cartesian vector.
LeastCorner(s) ==
    Combined(s.cell, [k \in Axes |-> Min({Fractional(s.cell, s.atoms[i].at)[k] : i \in DOMAIN s.atoms})])

FracMinPossible(s) ==
    s.atoms # <<>> /\ \A k \in Axes : LeastCorner(s)[k] % Volume(s.cell) = 0

FracMinToZero(s) ==
    LET Shifted(v) == Minus(v, Divided(LeastCorner(s), Volume(s.cell))) IN
    Mapped(s, Shifted)

Displacement(s, direction, disp) ==
    LET along == Combined(s.cell, direction) IN
    Divided(Times(disp, along), Length(along))

MovePossible(s, direction, disp) ==
    LET along == Combined(s.cell, direction) IN
    HasLength(along) /\ \A k \in Axes : (along[k] * disp) % Length(along) = 0

MoveAlong(s, chosen, direction, disp, low) ==
    WithinZeroAndOne(
        [s EXCEPT !.atoms = [i \in DOMAIN s.atoms |->
            IF i \in chosen THEN [s.atoms[i] EXCEPT !.at = Plus(@, Displacement(s, direction, disp))]
            ELSE s.atoms[i]]], low)

RemoveAtoms(s, removed) ==
    [s EXCEPT !.atoms = FlattenSeq([i \in DOMAIN s.atoms |-> IF i \in removed THEN <<>> ELSE <<s.atoms[i]>>])]

Total(atoms) == FoldLeft(LAMBDA sum, atom : Plus(sum, atom.at), <<0, 0, 0>>, atoms)

InversePoint(s, point) ==
    LET Image(v) == Minus(Times(2, point), v) IN Mapped(s, Image)

GeoCenterPossible(s) ==
    s.atoms # <<>> /\ \A k \in Axes : (2 * Total(s.atoms)[k]) % Len(s.atoms) = 0

TwiceGeoCenter(s) == Divided(Times(2, Total(s.atoms)), Len(s.atoms))

InverseGeoCenter(s) ==
    LET Image(v) == Minus(TwiceGeoCenter(s), v) IN Mapped(s, Image)

\* Against the fractional point (1/2, 1/2, 1/2).
InverseCellCenter(s) ==
    LET Image(v) == Minus(Combined(s.cell, <<1, 1, 1>>), v) IN Mapped(s, Image)
=============================================================================
