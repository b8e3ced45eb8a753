----------------------------- MODULE BandPaths -----------------------------
(***************************************************************************)
(* The path of a band structure, from set_kpath of a calculator through    *)
(* the program to the plot of the post-processing class.  A path is a      *)
(* sequence of points [label, link]: link is the number of k-points on     *)
(* the way to the next point, and 0 where the path is broken ("|").        *)
(*                                                                         *)
(* The calculator writes the path in its program's way, the program        *)
(* computes a k-point per row, and the post-processing class, which is     *)
(* told the path again, gives each row a coordinate and each point a tic.  *)
(* For phonons the post-processing class writes the path for phonopy, has  *)
(* it compute the bands from the forces of displaced supercells, and plots *)
(* what it left.  For a density of states it adds up what the program left *)
(* in the directory; there is no path then.                                *)
(* A k-point <<i, j, n>> is j n-ths of the way from point i to the next.   *)
(* A coordinate counts steps: what matters is which ones are equal.        *)
(***************************************************************************)
EXTENDS PhonopyPost, DensityPost, Selections

CONSTANTS
    Paths,      \* the paths given first
    Counts,     \* how many supercells phonopy may displace
    Others,     \* the paths given later to the same object
    Programs,   \* the programs of an instance
    Crystals,   \* the structures of which a density of states is computed
    MaxCalls    \* bound: calls of set_kpath, of the program and of the plot

Points == [label : {"GAMMA", "X", "Y", "Z"}, link : Nat]

ASSUME PathsAssumption ==
    /\ \A path \in Paths \cup Others :
          path \in Seq(Points) /\ \E i \in 1..Len(path) - 1 : path[i].link # 0
    /\ Programs \subseteq {"abinit", "siesta", "qe", "vasp", "cp2k", "octopus", "elk"}
                      \cup Phonons \cup Densities
    /\ Crystals \subseteq Seq({"Fe", "O"}) \ {<<>>}
    /\ Counts \subseteq Nat \ {0}
    /\ MaxCalls \in Nat

VARIABLES
    program,
    input,      \* the path as the calculator's document has it
    given,      \* the path set_kpath was told last
    band,       \* the program's output: its k-points, and the path it was told
    kept,       \* what the plotting object holds of its earlier runs
    plots,      \* how often this object has plotted
    plot,       \* the coordinates of the rows and the tics
    cells,      \* phonons: the directory of the displaced supercells
    forces,     \* phonons: the directory FORCE_SETS was made of
    density,    \* density of states: the directory, post.dir and the curves
    calls

vars == <<program, input, given, band, kept, plots, plot, cells, forces, density, calls>>

Larger(a, b) == IF a < b THEN b ELSE a

Segments(path) == 1..Len(path) - 1
Joined(path) == Only([i \in Segments(path) |-> i], {i \in Segments(path) : path[i].link # 0})

-----------------------------------------------------------------------------
(* The input.  SIESTA's block and Octopus' block are written row by row    *)
(* over what is there and state no number of points; a path that was       *)
(* longer keeps its end.                                                   *)
Overlay(new, old) ==
    [i \in 1..Larger(Len(new), Len(old)) |->
        [label |-> IF i <= Len(new) THEN new[i].label ELSE old[i].label,
         link  |-> IF i < Len(new) \/ i > Len(old) THEN new[i].link ELSE old[i].link]]

Document(path) ==
    IF program \in {"siesta", "octopus"} THEN Overlay(path, input) ELSE path

-----------------------------------------------------------------------------
(* The k-points a program computes from its input.                         *)
Point(i) == <<i, 0, 1>>
Between(i, n) == [j \in 1..n - 1 |-> <<i, j, n>>]
BySegment(path, rows(_)) == FlattenSeq([i \in Segments(path) |-> rows(i)])

(* Abinit, SIESTA, Quantum ESPRESSO: a break is one step.                  *)
Divided(path) ==
    <<Point(1)>> \o BySegment(path, LAMBDA i :
        Between(i, Larger(path[i].link, 1)) \o <<Point(i + 1)>>)

(* VASP's list, written point by point, and CP2K's sets: both ends of each *)
(* segment, nothing for a break.                                           *)
Listed(path) ==
    BySegment(path, LAMBDA i :
        IF path[i].link = 0 THEN <<>>
        ELSE <<Point(i)>> \o Between(i, path[i].link - 1) \o <<Point(i + 1)>>)

(* VASP is told how many points there are, the sum of the links, and reads *)
(* no more.                                                                *)
Stated(path) == FoldLeft(LAMBDA n, point : n + point.link, 0, Front(path))

VaspList(path) == SubSeq(Listed(path), 1, Stated(path))

(* Octopus: link points from a point on, and the last point.               *)
Stepped(path) ==
    BySegment(path, LAMBDA i :
        IF path[i].link = 0 THEN <<>> ELSE <<Point(i)>> \o Between(i, path[i].link))
    \o <<Point(Len(path))>>

(* Elk is told the points only and joins all of them. *)
Unbroken(path) == Divided([i \in DOMAIN path |-> [path[i] EXCEPT !.link = 2]])

(* Phonopy's band.yaml has the same number of points on every segment.     *)
Evenly(path) == [i \in DOMAIN path |-> [path[i] EXCEPT !.link = IF @ = 0 THEN 0 ELSE BandPoints]]

Rows(path) ==
    CASE program \in {"abinit", "siesta", "qe"} -> Divided(path)
      [] program = "vasp" -> VaspList(path)
      [] program = "cp2k" -> Listed(path)
      [] program = "octopus" -> Stepped(path)
      [] program = "elk" -> Unbroken(path)
      [] program \in Phonons -> Listed(Evenly(path))

-----------------------------------------------------------------------------
(* The coordinates of the rows. *)
Sums(steps) == FoldLeft(LAMBDA k, step : Append(k, Last(k) + step), <<0>>, steps)
Steps(n) == [j \in 1..n |-> 1]

(* Abinit and SIESTA; external for Quantum ESPRESSO, whose bands.x does    *)
(* the same.                                                               *)
BrokenSteps(path) ==
    BySegment(path, LAMBDA i : IF path[i].link = 0 THEN <<0>> ELSE Steps(path[i].link))

(* VASP: the end of a segment once more, unless it is the end of the path. *)
ListedSteps(path) ==
    BySegment(path, LAMBDA i :
        IF path[i].link = 0 THEN <<>>
        ELSE Steps(path[i].link - 1) \o (IF i + 1 = Len(path) THEN <<>> ELSE <<0>>))

(* CP2K: the sets of all runs of the object, and every set with as many    *)
(* points as the first.                                                    *)
Sets(path) ==
    [s \in DOMAIN Joined(path) |->
        LET i == Joined(path)[s]
        IN [size |-> path[i].link, from |-> path[i].label, to |-> path[i + 1].label]]

SetSteps(sets) ==
    FlattenSeq([s \in DOMAIN sets |->
        (IF s = 1 THEN <<>> ELSE <<0>>) \o Steps(sets[1].size - 1)])

-----------------------------------------------------------------------------
(* Where the tics are. *)
EqualsBefore(k, i) == i > 1 /\ k[i] <= k[i - 1]

PlacesOf(k, n) ==
    LET found == SelectSeq([i \in 1..n |-> i], LAMBDA i : EqualsBefore(k, i))
    IN <<k[1]>> \o [t \in DOMAIN found |-> k[found[t]]] \o <<Last(k)>>

\* A mutant of IndexOf.
IndexOfJoined(path, i, break) ==
    FoldLeft(LAMBDA n, point : n + point.link, 1, SubSeq(path, 1, i - 1))

(* Walks along the segments with an index into the rows, to which a break  *)
(* adds some steps.                                                        *)
IndexOf(path, i, break) ==
    FoldLeft(LAMBDA n, point : n + (IF point.link = 0 THEN break ELSE point.link),
             1, SubSeq(path, 1, i - 1))

WalkedTo(path, k, break) ==
    <<k[1]>> \o [t \in DOMAIN Joined(path) |-> k[IndexOf(path, Joined(path)[t] + 1, break)]]

(* Quantum ESPRESSO prints a line for each point of the path, Elk for each *)
(* vertex (external); equal ones are skipped.                              *)
Unrepeated(k) ==
    FoldLeft(LAMBDA locs, x : IF x = Last(locs) THEN locs ELSE Append(locs, x),
             <<Head(k)>>, Tail(k))

CoordinateOf(k, rows, row) == k[SelectInSeq(rows, LAMBDA r : r = row)]

-----------------------------------------------------------------------------
(* What the tics say. *)
Shown(label) == IF label = "GAMMA" THEN "G" ELSE label

\* A mutant of BothNames.
BothNamesRaw(label, next) == Append(label, next)

BothNames(label, next) == Append(label, Shown(next))

(* Abinit and SIESTA: the condition of the expression is about all of it.  *)
GammaAlone(label, next) == IF next = "GAMMA" THEN <<"G">> ELSE Append(label, next)

AtBreak(class, label, next) ==
    CASE class \in {"qe", "vasp"} -> BothNames(label, next)
      [] class \in {"abinit", "siesta"} -> GammaAlone(label, next)
      [] class = "octopus" -> Append(label, next)

ByLinks(path, class) ==
    FoldLeft(LAMBDA labels, i :
                IF path[i - 1].link # 0 THEN Append(labels, <<Shown(path[i].label)>>)
                ELSE Append(Front(labels), AtBreak(class, Last(labels), path[i].label)),
             <<<<Shown(path[1].label)>>>>, [i \in Segments(path) |-> i + 1])

(* CP2K: the first set gives its first name twice, and the end of a set is *)
(* printed as it is.                                                       *)
SetLabels(sets) ==
    FoldLeft(LAMBDA labels, s :
                Append(IF sets[s].from = sets[s - 1].to THEN labels
                       ELSE Append(Front(labels), <<sets[s - 1].to, Shown(sets[s].from)>>),
                       <<Shown(sets[s].to)>>),
             <<<<Shown(sets[1].from)>>, <<Shown(sets[1].from)>>>>,
             [s \in 1..Len(sets) - 1 |-> s + 1])

(* The labels in their order, the last of them at the last place. *)
Tics(labels, places) ==
    [t \in DOMAIN labels |->
        [at |-> IF t = Len(labels) THEN Last(places) ELSE places[t], label |-> labels[t]]]

PlotWith(k, labels, places) == [coords |-> k, tics |-> Tics(labels, places)]

-----------------------------------------------------------------------------
(* The plots. *)
PhononPlot(path) ==
    LET segments == Sets(Evenly(path))
        k == Sums(SetSteps(segments))
        data == ExtractOf(program, segments)
    IN PlotWith(k, data.labels, [t \in DOMAIN data.places |-> k[data.places[t]]])

AbinitPlot(path) ==
    LET k == Sums(BrokenSteps(path))
    IN PlotWith(k, ByLinks(path, "abinit"), WalkedTo(path, k, 1))

SiestaPlot(path) ==
    LET k == Sums(BrokenSteps(path))
    IN PlotWith(k, ByLinks(path, "siesta"), WalkedTo(path, k, 1))

QePlot(path, rows) ==
    LET k == Sums(BrokenSteps(path))
    IN PlotWith(k, ByLinks(path, "qe"),
                Unrepeated([i \in DOMAIN path |-> CoordinateOf(k, rows, Point(i))]))

ElkPlot(path, rows) ==
    LET k == Sums(Steps(Len(rows) - 1))
    IN PlotWith(k, [i \in DOMAIN path |-> <<Shown(path[i].label)>>],
                Unrepeated([i \in DOMAIN path |-> CoordinateOf(k, rows, Point(i))]))

OctopusPlot(path, rows) ==
    LET k == Sums(Steps(Len(rows) - 1))
    IN PlotWith(k, ByLinks(path, "octopus"), WalkedTo(path, k, 0))

VaspPlot(path) ==
    LET k == kept \o Sums(ListedSteps(path))
    IN PlotWith(k, ByLinks(path, "vasp"), PlacesOf(k, Len(k) - 1))

Cp2kPlot(path) ==
    LET sets == kept \o Sets(path)
        k == Sums(SetSteps(sets))
    IN PlotWith(k, SetLabels(sets), PlacesOf(k, Len(k)))

PlotOf(path, rows) ==
    CASE program = "abinit" -> AbinitPlot(path)
      [] program = "siesta" -> SiestaPlot(path)
      [] program = "qe" -> QePlot(path, rows)
      [] program = "elk" -> ElkPlot(path, rows)
      [] program = "octopus" -> OctopusPlot(path, rows)
      [] program = "vasp" -> VaspPlot(path)
      [] program = "cp2k" -> Cp2kPlot(path)
      [] program \in Phonons -> PhononPlot(path)

(* An index beyond a vector is undefined in the C++ classes and an         *)
(* exception in the Python ones.                                           *)
Unequal(sets) == \E s \in DOMAIN sets : sets[s].size # sets[1].size

Fails(path, rows) ==
    \/ program = "cp2k" /\ Unequal(kept \o Sets(path))
    \/ program \in {"abinit", "siesta", "vasp"} /\ Len(rows) > Len(PlotOf(path, rows).coords)
    \/ program \in Phonons /\ LooksPastEnd(Sets(Evenly(path)))

-----------------------------------------------------------------------------
None == <<>>

(* last: the calculation made last; files: file -> the calculation it is   *)
(* of; structures: those of the .xyz files; saved: CP2K's post.dir; drawn: *)
(* what run() made of it.                                                  *)
NoDensity ==
    [pass |-> 0, last |-> None, files |-> NoCurves, structures |-> {}, saved |-> NoCurves,
     drawn |-> None]

NoCells == [displaced |-> 0, made |-> 0, done |-> 0, fresh |-> 0]

Init ==
    /\ program \in Programs
    /\ given \in IF program \in Densities THEN {CHOOSE path \in Paths : TRUE} ELSE Paths
    /\ program = "cp2k" => \A i \in DOMAIN given : given[i].link # 1
    /\ program \in Phonons => \A i \in DOMAIN given : given[i].link \in {0, 2}
    /\ input = given
    /\ band = None /\ kept = None /\ plots = 0 /\ plot = None /\ calls = 0
    /\ cells = NoCells /\ forces = NoCells /\ density = NoDensity

Call == calls < MaxCalls /\ calls' = calls + 1

(* Of a calculator's object or, for phonons, of the plotting object. *)
SetKpath(path) ==
    /\ Call /\ program \notin Densities
    /\ input' = Document(path) /\ given' = path
    /\ UNCHANGED <<program, band, kept, plots, plot, cells, forces, density>>

Calculate ==
    /\ Call /\ program \notin Phonons \cup Densities
    /\ band' = [rows |-> Rows(input), of |-> given, from |-> input]
    /\ UNCHANGED <<program, input, given, kept, plots, plot, cells, forces, density>>

(* The script of a phonon calculation: phonopy displaces n supercells, and *)
(* the first j inputs that are there then are calculated.                  *)
Displace(n, j) ==
    LET made == Larger(n, cells.made) IN
    /\ Call /\ program \in Phonons
    /\ j <= made
    /\ cells' = [displaced |-> n, made |-> made, done |-> Larger(j, cells.done),
                 fresh |-> Smaller(j, n)]
    /\ UNCHANGED <<program, input, given, band, kept, plots, plot, forces, density>>

(* A new object of the post-processing class. *)
Construct ==
    /\ Call /\ plots > 0
    /\ kept' = None /\ plots' = 0
    /\ UNCHANGED <<program, input, given, band, plot, cells, forces, density>>

(* A picture of the bands a program computed. *)
Drawn(computed, directory, fails) ==
    [band |-> computed, cells |-> directory, failed |-> fails,
     coords |-> IF fails THEN None ELSE PlotOf(computed.of, computed.rows).coords,
     tics |-> IF fails THEN None ELSE PlotOf(computed.of, computed.rows).tics]

(* run(), told the path of the calculation. *)
Plot ==
    /\ Call /\ program \notin Phonons \cup Densities /\ band # None
    /\ plots' = plots + 1
    /\ kept' = CASE program = "vasp" -> VaspPlot(band.of).coords
                 [] program = "cp2k" -> kept \o Sets(band.of)
                 [] OTHER -> kept
    /\ plot' = Drawn(band, cells, Fails(band.of, band.rows))
    /\ UNCHANGED <<program, input, given, band, cells, forces, density>>

(* run() and extract_data(): what phonopy refuses leaves FORCE_SETS and    *)
(* band.yaml as they are, and extract_data() reads the path's names from   *)
(* band.yaml.                                                              *)
Analyse ==
    LET analysis == RunOf(program, cells, input) IN
    /\ Call /\ program \in Phonons /\ cells.displaced # 0
    /\ forces' = IF ~analysis.crashes /\ TakesForces(cells, analysis.files) THEN cells ELSE forces
    /\ band' = IF ~analysis.crashes /\ forces' # NoCells /\ TakesBand(analysis.conf)
               THEN [rows |-> Rows(input), of |-> input, from |-> input] ELSE band
    /\ plot' = Drawn(band', cells, \/ analysis.crashes \/ band' = None \/ program \notin Extracts
                                   \/ Fails(band'.of, band'.rows))
    /\ UNCHANGED <<program, input, given, kept, plots, cells, density>>

(* A calculation of the density of states: files of earlier ones stay if   *)
(* they are not written again.                                             *)
Project(atoms, spins, byM) ==
    LET calc == [pass |-> density.pass + 1, atoms |-> atoms, spins |-> spins, byM |-> byM] IN
    /\ Call /\ program \in Densities
    /\ density.pass < MaxCalls \div 2
    /\ byM => program = "dos_cp2k"
    /\ density' = [density EXCEPT
                     !.pass = @ + 1, !.last = calc,
                     !.files = [f \in Files(program, calc) |-> calc] @@ @,
                     !.structures = @ \cup {atoms}]
    /\ UNCHANGED <<program, input, given, band, kept, plots, plot, cells, forces>>

(* run() of a Dos class.  The command of Abinit reads every .xyz file of   *)
(* the directory into one object, and the one that is listed last counts.  *)
PlotDensity(told) ==
    LET saved == Smeared(density.files, density.saved)
        parts == PartsOf(program, density.files, told, density.last.spins)
        Shows(curves) == [raised |-> FALSE,
                          curves |-> DrawnCurves(program, curves, density.last.spins)]
    IN
    /\ Call /\ density.last # None
    /\ density' = [density EXCEPT
                     !.saved = IF program = "dos_cp2k" THEN saved ELSE @,
                     !.drawn = [of |-> density.last, told |-> told]
                               @@ (IF program = "dos_cp2k"
                                   THEN Shows(Cp2kCurves(saved))
                                   ELSE IF Raises(parts)
                                   THEN [raised |-> TRUE, curves |-> NoCurves]
                                   ELSE Shows(AddUp(parts)))]
    /\ UNCHANGED <<program, input, given, band, kept, plots, plot, cells, forces>>

Next ==
    \/ \E path \in Others : SetKpath(path)
    \/ \E n \in Counts, short \in 0..1 : Displace(n, n - short)
    \/ Calculate \/ Construct \/ Plot \/ Analyse
    \/ \E atoms \in Crystals, spins \in 1..2, byM \in BOOLEAN : Project(atoms, spins, byM)
    \/ \E told \in density.structures : PlotDensity(told)

Spec == Init /\ [][Next]_vars

-----------------------------------------------------------------------------
(* A plot of which something is said: it did not fail, the program         *)
(* computed the path it was told, VASP's and CP2K's object is used for the *)
(* first time, since they add to the coordinates and sets they have, and   *)
(* VASP's segments have two points, since its list states one too few of   *)
(* a segment with one.                                                     *)
Good ==
    /\ plot # None /\ ~plot.failed
    /\ plot.band.from = plot.band.of
    /\ program \in {"vasp", "cp2k"} => plots = 1
    /\ program = "vasp" => \A i \in DOMAIN plot.band.of : plot.band.of[i].link # 1

(* The stops of a path: its points, those on the two sides of a break      *)
(* together.                                                               *)
Stops(path) ==
    FoldLeft(LAMBDA stops, i :
                IF path[i].link # 0 THEN Append(stops, <<i + 1>>)
                ELSE Append(Front(stops), Append(Last(stops), i + 1)),
             <<<<1>>>>, [i \in Segments(path) |-> i])

RowsAt(x) == {plot.band.rows[r] : r \in {s \in DOMAIN plot.band.rows : plot.coords[s] = x}}

(* Every tic stands where the rows of its stop are, and no row of another  *)
(* k-point is there (bands.cpp, band.cpp, post.py: two loops of their own  *)
(* over one path find the places and the rows).  Not in Elk's plot, which  *)
(* joins what is broken.                                                   *)
TicsAreAtStops ==
    LET path == plot.band.of
        stops == Stops(path)
    IN Good /\ program # "elk" =>
          /\ Len(plot.tics) = Len(stops)
          /\ \A t \in DOMAIN stops :
                 /\ RowsAt(plot.tics[t].at) # {}
                 /\ RowsAt(plot.tics[t].at) \subseteq {Point(stops[t][q]) : q \in DOMAIN stops[t]}

(* A path as one writes it: neighbours have different names, and nothing   *)
(* follows the last point.                                                 *)
ProperPaths ==
    \A path \in Paths \cup Others :
        /\ path[Len(path)].link = 0
        /\ \A i \in Segments(path) : path[i].label # path[i + 1].label

(* A tic has the names of all points of its stop, in their order, but for: *)
(* a break to GAMMA in the plots of Abinit and SIESTA; GAMMA at a break in *)
(* those of Octopus and CP2K; CP2K's second tic; CP2K's tics when a point  *)
(* of the path is joined to none.                                          *)
Names(path, stop) == [q \in DOMAIN stop |-> Shown(path[stop[q]].label)]

GammaAtBreak(path, stop) == Len(stop) > 1 /\ \E q \in DOMAIN stop : path[stop[q]].label = "GAMMA"

Lone(path, i) == path[i].link = 0 /\ (i = 1 \/ path[i - 1].link = 0)

TicsNameStops ==
    LET path == plot.band.of
        stops == Stops(path)
    IN Good /\ program # "elk" =>
       \A t \in DOMAIN stops :
           \/ plot.tics[t].label = Names(path, stops[t])
           \/ program \in {"abinit", "siesta", "octopus", "cp2k"} /\ GammaAtBreak(path, stops[t])
           \/ program = "cp2k" /\ (t = 2 \/ \E i \in DOMAIN path : Lone(path, i))

(* A break of the path has no width in the plot, and every other step has  *)
(* one (said in siesta/post.py:89-96 of SIESTA's own coordinates, which    *)
(* are not like that).  Octopus and Elk plot the program's coordinates.    *)
SameStop(path, row, next) ==
    \E t \in DOMAIN Stops(path) :
        {row, next} \subseteq {Point(Stops(path)[t][q]) : q \in DOMAIN Stops(path)[t]}

BreaksHaveNoWidth ==
    Good /\ program \notin {"octopus", "elk"} =>
        \A r \in 1..Len(plot.band.rows) - 1 :
            (plot.coords[r] = plot.coords[r + 1])
            <=> SameStop(plot.band.of, plot.band.rows[r], plot.band.rows[r + 1])

AxisFollowsPath == TicsAreAtStops /\ BreaksHaveNoWidth

(* After a phonon calculation that was finished, in a directory that has   *)
(* no supercells of an earlier one, run() gives phonopy the output of each *)
(* displaced supercell, and FORCE_SETS is made of them (phonopy.cpp of six *)
(* programs: the numbers are read from file names, and the shell counts    *)
(* the files anew).  Up to 9999 supercells, and 999 of CP2K.               *)
Finished(directory) == directory.displaced = directory.fresh /\ directory.made = directory.displaced

ForcesOfThisCalculation ==
    /\ program \in Phonons /\ plot # None /\ plot.cells = cells
    /\ Finished(cells)
    /\ cells.displaced <= (IF program = "phonopy_cp2k" THEN 999 ELSE 9999)
    => forces = cells

(* The curves of each level hold every orbital of the calculation once:    *)
(* those of an element (VASP, Elk: of an atom) together the orbitals of    *)
(* its atoms with that spin, and those per shell and per magnetic number   *)
(* add up to the same (five Dos classes with tables of columns of their    *)
(* own, CP2K's by files it wrote itself); the curves of the second spin    *)
(* are drawn downwards, but by Elk's class.  If the directory has no file  *)
(* and, for Abinit, no structure of an earlier calculation, and CP2K's     *)
(* post.dir no curve of one: what is left over is added or drawn as well.  *)
Alone ==
    LET d == density IN
    /\ d.drawn # None /\ d.drawn.of = d.last /\ d.drawn.told = d.last.atoms
    /\ \A f \in DOMAIN d.files : d.files[f] = d.last
    /\ DOMAIN d.saved \subseteq DOMAIN d.files

SpinName(calc, spin) ==
    IF program # "dos_cp2k" THEN spin
    ELSE IF calc.spins = 1 THEN "unpolarized" ELSE <<"alpha", "beta">>[spin]

\* The curves of a group are about these atoms.
AtomsOf(calc, group) ==
    IF program \in {"dos_vasp", "dos_elk"} THEN {group}
    ELSE {a \in DOMAIN calc.atoms : calc.atoms[a] = group}

Groups(calc) ==
    IF program \in {"dos_vasp", "dos_elk"} THEN DOMAIN calc.atoms ELSE Range(calc.atoms)

ProjectionsAddUp ==
    LET calc == density.last
        curves == density.drawn.curves
    IN Alone =>
       /\ ~density.drawn.raised
       /\ \A level \in {k.level : k \in DOMAIN curves}, group \in Groups(calc), s \in 1..calc.spins :
             LET keys == {k \in DOMAIN curves : /\ k.level = level /\ k.of = group
                                               /\ k.spin = SpinName(calc, s)}
                 added == UNION {DOMAIN curves[k].adds : k \in keys}
             IN /\ added = UNION {ChannelsOf(program, calc, a, s) : a \in AtomsOf(calc, group)}
                /\ \A c \in added :
                      MapThenSumSet(LAMBDA k : IF c \in DOMAIN curves[k].adds THEN curves[k].adds[c] ELSE 0,
                                    keys) = 1
                /\ \A k \in keys : curves[k].sign = IF s = 2 /\ program # "dos_elk" THEN -1 ELSE 1
=============================================================================
