---------------------------- MODULE PhonopyPost ----------------------------
(***************************************************************************)
(* The Phonopy classes of the post-processing, six copies of one program:  *)
(* run() writes band.conf and analysis.sh into post.dir and executes the   *)
(* latter; extract_data() makes a plot of the band.yaml phonopy leaves     *)
(* there.  Nothing looks at how analysis.sh ended.                         *)
(*                                                                         *)
(* A directory [displaced, made, done, fresh]: phonopy_disp.yaml is about  *)
(* `displaced` supercells, the inputs of the supercells 1..made and the    *)
(* outputs of 1..done are there, and the outputs 1..fresh are those of the *)
(* calculation phonopy_disp.yaml belongs to.                               *)
(***************************************************************************)
EXTENDS Integers, Sequences, SequencesExt

Phonons == {"phonopy_vasp", "phonopy_qe", "phonopy_abinit", "phonopy_siesta",
            "phonopy_cp2k", "phonopy_elk"}

Smaller(a, b) == IF a < b THEN a ELSE b

-----------------------------------------------------------------------------
(* run() *)
\* A mutant of ForceFiles.
ForceFilesShort(found) == IF found <= 999 THEN <<<<1, found>>>> ELSE <<>>

(* The outputs analysis.sh has phonopy read the forces from, as the ranges *)
(* the shell expands, by the largest number found in the directory.        *)
ForceFiles(found) ==
    CASE found <= 999 -> <<<<1, found>>>>
      [] found > 999 /\ found <= 9999 -> <<<<1, 999>>, <<1000, found>>>>
      [] OTHER -> <<>>

(* BAND and BAND_LABELS: the points in groups, a comma after a point that  *)
(* is broken off.                                                          *)
BandConf(path) ==
    FoldLeft(LAMBDA groups, i :
                IF path[i - 1].link # 0 THEN Append(Front(groups), Append(Last(groups), i))
                ELSE Append(groups, <<i>>),
             <<<<1>>>>, [i \in 1..Len(path) - 1 |-> i + 1])

(* The largest of no numbers is read from nowhere. *)
Analysis(found, path) ==
    [crashes |-> found = 0, files |-> ForceFiles(found), conf |-> BandConf(path)]

(* The classes of VASP, Abinit, SIESTA and Elk look for the directories of *)
(* the supercells, those of Quantum ESPRESSO and CP2K for outputs; CP2K's  *)
(* takes three digits for the number.                                      *)
VaspRun(cells, path) == Analysis(cells.made, path)

AbinitRun(cells, path) == Analysis(cells.made, path)

SiestaRun(cells, path) == Analysis(cells.made, path)

ElkRun(cells, path) == Analysis(cells.made, path)

QeRun(cells, path) == Analysis(cells.done, path)

Cp2kRun(cells, path) == Analysis(Smaller(cells.done, 999), path)

RunOf(class, cells, path) ==
    CASE class = "phonopy_vasp" -> VaspRun(cells, path)
      [] class = "phonopy_abinit" -> AbinitRun(cells, path)
      [] class = "phonopy_siesta" -> SiestaRun(cells, path)
      [] class = "phonopy_elk" -> ElkRun(cells, path)
      [] class = "phonopy_qe" -> QeRun(cells, path)
      [] class = "phonopy_cp2k" -> Cp2kRun(cells, path)

-----------------------------------------------------------------------------
(* External: phonopy -f makes FORCE_SETS when it is given one output for   *)
(* each displacement, and phonopy -p makes band.yaml when there is a       *)
(* FORCE_SETS and every group of BAND has at least two points.             *)
Expanded(files) ==
    FoldLeft(LAMBDA next, range : IF range[1] = next THEN range[2] + 1 ELSE 0, 1, files) - 1

TakesForces(cells, files) ==
    Expanded(files) = cells.displaced /\ cells.displaced \in 1..cells.done

TakesBand(conf) == \A g \in DOMAIN conf : Len(conf[g]) > 1

BandPoints == 3     \* bound: 11 or 51 in the code, both ends of a segment included

-----------------------------------------------------------------------------
(* extract_data().  A segment of band.yaml is [size, from, to].            *)
Symbol(label) == IF label = "GAMMA" THEN "G" ELSE label

(* At a break to GAMMA from another point the name before it is looked for *)
(* after a "&" that is not there.                                          *)
Breaks(segments) == {s \in 2..Len(segments) : segments[s].from # segments[s - 1].to}
LooksPastEnd(segments) ==
    \E s \in Breaks(segments) : segments[s].from = "GAMMA" /\ segments[s - 1].to # "GAMMA"

PhononLabels(segments) ==
    FoldLeft(LAMBDA labels, s :
                Append(IF s \in Breaks(segments)
                       THEN Append(Front(labels),
                                   <<Symbol(segments[s - 1].to), segments[s].from>>)
                       ELSE labels,
                       <<Symbol(segments[s].to)>>),
             <<<<Symbol(segments[1].from)>>, <<Symbol(segments[1].to)>>>>,
             [s \in 1..Len(segments) - 1 |-> s + 1])

(* The rows of the tics: the first one and the last one of each segment. *)
PhononPlaces(segments) ==
    FoldLeft(LAMBDA at, segment :
                Append(at, (IF Len(at) = 1 THEN 0 ELSE Last(at)) + segment.size),
             <<1>>, segments)

ExtractData(segments) == [labels |-> PhononLabels(segments), places |-> PhononPlaces(segments)]

(* VASP's class has a copy of its own; CP2K's and Elk's call the one       *)
(* above, the other three have none.                                       *)
VaspExtractData(segments) ==
    [labels |-> PhononLabels(segments), places |-> PhononPlaces(segments)]

ExtractOf(class, segments) ==
    IF class = "phonopy_vasp" THEN VaspExtractData(segments) ELSE ExtractData(segments)

Extracts == {"phonopy_vasp", "phonopy_cp2k", "phonopy_elk"}
=============================================================================
