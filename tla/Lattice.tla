------------------------------ MODULE Lattice ------------------------------
(***************************************************************************)
(* The arithmetic of crystals that the code does with Armadillo: three     *)
(* lattice vectors as the rows of a matrix, positions in cartesian         *)
(* coordinates, and the conversion to fractional coordinates,              *)
(* inv(trans(latcell)) * v.  Lengths are integers in a small unit, so that *)
(* every conversion is exact: a fractional coordinate is a numerator over  *)
(* the volume of the cell.                                                 *)
(***************************************************************************)
EXTENDS Integers, Sequences

Axes == 1..3

Plus(u, v) == <<u[1] + v[1], u[2] + v[2], u[3] + v[3]>>

Minus(u, v) == <<u[1] - v[1], u[2] - v[2], u[3] - v[3]>>

Times(n, v) == <<n * v[1], n * v[2], n * v[3]>>

Dot(u, v) == u[1] * v[1] + u[2] * v[2] + u[3] * v[3]

Cross(u, v) == <<u[2] * v[3] - u[3] * v[2], u[3] * v[1] - u[1] * v[3], u[1] * v[2] - u[2] * v[1]>>

Det(cell) == Dot(cell[1], Cross(cell[2], cell[3]))

Abs(n) == IF n < 0 THEN -n ELSE n

\* n[1] a + n[2] b + n[3] c
Combined(cell, n) == Plus(Plus(Times(n[1], cell[1]), Times(n[2], cell[2])), Times(n[3], cell[3]))

\* A cell without volume has no inverse: arma::inv throws.
Singular(cell) == Det(cell) = 0

Volume(cell) == Abs(Det(cell))

\* The inverse of the transposed cell, times the volume: the matrix convmat.
Inverse3(cell) ==
    LET sign == IF Det(cell) < 0 THEN -1 ELSE 1 IN
    <<Times(sign, Cross(cell[2], cell[3])), Times(sign, Cross(cell[3], cell[1])), Times(sign, Cross(cell[1], cell[2]))>>

Applied(m, v) == <<Dot(m[1], v), Dot(m[2], v), Dot(m[3], v)>>

\* The fractional coordinates of v, times the volume of the cell.
Fractional(cell, v) == Applied(Inverse3(cell), v)

\* Fractional coordinates (times a volume) back to cartesian ones.
Divided(v, n) == <<v[1] \div n, v[2] \div n, v[3] \div n>>

Cartesian(cell, vol, f) == Divided(Combined(cell, f), vol)

\* v moved by whole lattice vectors into the cell.
Wrapped(cell, v) ==
    Minus(v, Combined(cell, Divided(Fractional(cell, v), Volume(cell))))

Rectangular(cell) == \A p, q \in Axes : p # q => Dot(cell[p], cell[q]) = 0

\* The length of v where it is a whole number.
Lengths(v) == {n \in 0..Abs(v[1]) + Abs(v[2]) + Abs(v[3]) : n * n = Dot(v, v)}

HasLength(v) == Lengths(v) # {}

Length(v) == CHOOSE n \in Lengths(v) : TRUE
=============================================================================
