---------------------------- MODULE CalcCommands ----------------------------
(***************************************************************************)
(* The calculators' objects under their two users: the command, which      *)
(* makes a fixed series of calls from its command line and runs once, and  *)
(* a script, which makes the same calls in any order and may run again.    *)
(* (Abinit and CP2K have modules of their own.)                            *)
(***************************************************************************)
EXTENDS Keywords

CONSTANTS
    Programs,        \* the calculators
    Lines(_),        \* command lines of a calculator
    Items(_),        \* parameters that a script sets
    Crystals,        \* the structures of a script, in the order they are read
    Paths,           \* the k-paths of a script
    MaxCalls         \* bound: calls of a script

VARIABLES
    program,
    line,            \* the command line; line.user tells a script
    calls,           \* the calls the command still makes before its run
    object,          \* the calculator's object
    mine,            \* what the user set and nothing has set since
    crystal,         \* the structure read last, "" for none
    path,            \* the path given last
    longest,         \* the stops of the longest path given
    kept,            \* steps of earlier runs in the last run's script
    fresh,           \* whether the last call was a run
    ranSince,        \* phonopy_dim of the runs since the structure was read
    spent            \* calls of a script so far, by kind

vars ==
    <<program, line, calls, object, mine, crystal, path, longest, kept, fresh, ranSince,
      spent>>

Pw == INSTANCE PwInput
Siesta == INSTANCE SiestaInput
Octopus == INSTANCE OctopusInput
Elk == INSTANCE ElkInput
NWChem == INSTANCE NWChemInput
Vasp == INSTANCE VaspInput
Gamess == INSTANCE GamessInput
Small == INSTANCE SmallInputs
Scripts == INSTANCE ScriptHeaders

-----------------------------------------------------------------------------
(* The subcommands. *)
Calcs(p) ==
    CASE p = "qe" -> Pw!Calcs
      [] p = "siesta" -> Siesta!Calcs
      [] p = "octopus" -> Octopus!Calcs \ {"md"}
      [] p = "elk" -> Elk!Calcs
      [] p = "nwchem" -> NWChem!Calcs
      [] p = "vasp" -> Vasp!Calcs
      [] p = "gamessus" -> Gamess!Calcs
      [] OTHER -> {"static"}

PathCalcs(p) ==
    CASE p = "qe" -> Pw!PathCalcs
      [] p = "siesta" -> Siesta!PathCalcs
      [] p = "octopus" -> Octopus!PathCalcs
      [] p = "elk" -> Elk!PathCalcs
      [] p = "vasp" -> Vasp!PathCalcs
      [] OTHER -> {}

Commands(p, l) ==
    CASE p = "qe" -> Pw!Commands(l)
      [] p = "siesta" -> Siesta!Commands(l)
      [] p = "octopus" -> Octopus!Commands(l)
      [] p = "elk" -> Elk!Commands(l)
      [] p = "nwchem" -> NWChem!Commands(l)
      [] p = "vasp" -> Vasp!Commands(l)
      [] p = "gamessus" -> Gamess!Commands(l)
      [] OTHER -> Small!Commands(p, l)

New(p, calc) ==
    CASE p = "qe" -> Pw!New(calc)
      [] p = "siesta" -> Siesta!New(calc)
      [] p = "octopus" -> Octopus!New(calc)
      [] p = "elk" -> Elk!New(calc)
      [] p = "nwchem" -> NWChem!New(calc)
      [] p = "vasp" -> Vasp!New(calc)
      [] p = "gamessus" -> Gamess!New(calc)
      [] OTHER -> Small!New(p, calc)

GetXyz(p, s) ==
    CASE p = "qe" -> Pw!GetXyz(s)
      [] p = "siesta" -> Siesta!GetXyz(s)
      [] p = "octopus" -> Octopus!GetXyz(s)
      [] p = "elk" -> Elk!GetXyz(s)
      [] p = "nwchem" -> NWChem!GetXyz(s)
      [] p = "vasp" -> Vasp!GetXyz(s)
      [] p = "gamessus" -> Gamess!GetXyz(s)
      [] OTHER -> Small!GetXyz(p, s)

SetPath(p, stops) ==
    CASE p = "qe" -> Pw!SetPath(stops)
      [] p = "siesta" -> Siesta!SetPath(stops)
      [] p = "octopus" -> Octopus!SetPath(stops)
      [] p = "elk" -> Elk!SetPath(stops)
      [] p = "vasp" -> Vasp!SetPath(stops)

Custom(p, item, file) ==
    CASE p = "qe" -> Pw!Custom(item, file)
      [] p = "siesta" -> Siesta!Custom(item, file)
      [] p = "octopus" -> Octopus!Custom(item, file)
      [] p = "elk" -> Elk!Custom(item, file)
      [] p = "nwchem" -> NWChem!Custom(item, file)
      [] p = "vasp" -> Vasp!Custom(item, file)
      [] p = "gamessus" -> Gamess!Custom(item, file)

Run(p, calc, doc) ==
    CASE p = "qe" -> Pw!Run(calc, doc)
      [] p = "siesta" -> Siesta!Run(calc, doc)
      [] p = "octopus" -> Octopus!Run(calc, doc)
      [] p = "elk" -> Elk!Run(calc, doc)
      [] p = "nwchem" -> NWChem!Run(calc, doc)
      [] p = "vasp" -> Vasp!Run(calc, doc)
      [] p = "gamessus" -> Gamess!Run(calc, doc)
      [] OTHER -> Small!Run(p, calc, doc)

Text(p, step) ==
    CASE p = "qe" -> Pw!Text(step)
      [] p = "siesta" -> Siesta!Text(step)
      [] p = "octopus" -> Octopus!Text(step)
      [] p = "elk" -> Elk!Text(step)
      [] p = "nwchem" -> NWChem!Text(step)
      [] p = "vasp" -> Vasp!Text(step)
      [] p = "gamessus" -> Gamess!Text(step)
      [] OTHER -> Small!Text(p, step)

(* Calls of a class that only scripts make, or that scripts make freely. *)
Extras(p, doc) ==
    CASE p = "qe" ->
            {Pw!SetOccupations("smearing"), Pw!SetOccupations("tetrahedra"),
             <<SetParam("job", "qe_pseudo_choice", <<"sssp-efficiency">>)>>}
            \cup (IF Has(doc, <<"job", "phonopy_dim">>)
                  THEN {<<SetParam("job", "phonopy_dim", <<"2">>)>>} ELSE {})
      [] p = "vasp" ->
            {Vasp!SetRunType("md") \o Vasp!SetMd(1, 2), Vasp!SetMd(2, 0),
             Vasp!SetParams(<<<<"SIGMA", "0.2">>, <<"LORBIT", "10">>>>,
                            FirstWord(doc, Vasp!RunTypeAt))}
      [] p = "nwchem" -> {NWChem!SetImages(<<"s1", "s2">>, "0")}
      [] p = "qmcpack" ->
            {SetRows(Small!Tree("qmcsystem"),
                     Small!PutIKey(RowsAt(doc, Small!Tree("qmcsystem")), 1, "particleset", "e"))}
      [] OTHER -> {}

-----------------------------------------------------------------------------
(* What the user asked for, by places: the rows of a table, or one row.    *)
Asked(p, item, file) ==
    LET words == IF file /\ p \in {"qe", "siesta", "octopus", "vasp"} /\ ~ item.table
                 THEN <<Uncut(item.rows[1])>> ELSE item.rows
    IN  [at \in SetBy(Custom(p, item, file)) |-> words]

Without(wishes, edits) ==
    [at \in DOMAIN wishes \ SetBy(edits) |-> wishes[at]]

AskedByLine(p, l) ==
    LET inFile == [n \in DOMAIN l.file |-> Asked(p, l.file[n], TRUE)]
        items == IF p = "nwchem" THEN NWChem!Sorted(l.custom) ELSE l.custom
        inLine == [n \in DOMAIN items |-> Asked(p, items[n], FALSE)]
    IN  FoldLeft(LAMBDA wishes, more: more @@ wishes, Empty, inFile \o inLine)

(* The classes whose run does not clear the steps of an earlier run.       *)
Accumulates(p, calc) ==
    \/ p = "qe" /\ calc \in {"band", "dos", "hp"}
    \/ p = "octopus" /\ calc \in {"band", "vib", "optical-casida", "optical-sternheimer"}
    \/ p = "elk" /\ calc = "phonopy"
    \/ p = "vasp" /\ calc \in {"band", "dos"}
    \/ p = "nwchem"

NothingSpent == [xyz |-> 0, path |-> 0, custom |-> 0, extra |-> 0, run |-> 0]

ScriptLine(calc) == [user |-> "script", calc |-> calc]

Init ==
    /\ program \in Programs
    /\ \/ /\ line \in Lines(program)
          /\ calls = Commands(program, line)
          /\ object = Object
       \/ /\ line \in {ScriptLine(calc) : calc \in Calcs(program)}
          /\ calls = <<>>
          /\ object = Performed(Object, New(program, line.calc))
    /\ mine = Empty
    /\ crystal = ""
    /\ path = <<>>
    /\ longest = 0
    /\ kept = 0
    /\ fresh = FALSE
    /\ ranSince = <<>>
    /\ spent = NothingSpent

Going == object.end = "going"

(* The command's next call. *)
CommandCall ==
    /\ line.user = "command"
    /\ Going
    /\ calls # <<>>
    /\ object' = Performed(object, Head(calls))
    /\ calls' = Tail(calls)
    /\ UNCHANGED <<program, line, mine, crystal, path, longest, kept, fresh, ranSince, spent>>

PhonopyDim(doc) ==
    IF Has(doc, <<"job", "phonopy_dim">>) THEN FirstWord(doc, <<"job", "phonopy_dim">>) ELSE ""

CommandRun ==
    /\ line.user = "command"
    /\ Going
    /\ calls = <<>>
    /\ ~ fresh
    /\ LET edits == Run(program, line.calc, object.doc) IN
       /\ object' = Performed(object, edits)
       /\ mine' = Without(AskedByLine(program, line), edits)
    /\ crystal' = Crystal
    /\ path' = IF line.calc \in PathCalcs(program) THEN line.kpath ELSE <<>>
    /\ longest' = Len(path')
    /\ fresh' = TRUE
    /\ ranSince' = <<PhonopyDim(object.doc)>>
    /\ UNCHANGED <<program, line, calls, kept, spent>>

-----------------------------------------------------------------------------
(* A call of the script. *)
Most == [xyz |-> 3, path |-> 2, custom |-> 2, extra |-> 2, run |-> 2] \* bound, by kind

Spent == spent.xyz + spent.path + spent.custom + spent.extra + spent.run

ScriptMay(kind) ==
    /\ line.user = "script"
    /\ Going
    /\ spent[kind] < Most[kind]
    /\ Spent < MaxCalls

ScriptCall(kind, edits) ==
    /\ object' = Performed(object, edits)
    /\ fresh' = (kind = "run")
    /\ ranSince' = CASE kind = "xyz" -> <<>>
                     [] kind = "run" -> Append(ranSince, PhonopyDim(object.doc))
                     [] OTHER -> ranSince
    /\ spent' = [spent EXCEPT ![kind] = @ + 1]
    /\ UNCHANGED <<program, line, calls>>

ScriptXyz ==
    /\ ScriptMay("xyz")
    /\ LET s == Crystals[spent.xyz + 1]
           edits == GetXyz(program, s)
       IN  /\ ScriptCall("xyz", edits)
           /\ mine' = Without(mine, edits)
           /\ crystal' = s
    /\ UNCHANGED <<path, longest, kept>>

ScriptPath(stops) ==
    /\ ScriptMay("path")
    /\ line.calc \in PathCalcs(program)
    /\ ScriptCall("path", SetPath(program, stops))
    /\ mine' = Without(mine, SetPath(program, stops))
    /\ path' = stops
    /\ longest' = Larger(longest, Len(stops))
    /\ UNCHANGED <<crystal, kept>>

ScriptCustom(item) ==
    /\ ScriptMay("custom")
    /\ ScriptCall("custom", Custom(program, item, FALSE))
    /\ mine' = Asked(program, item, FALSE) @@ mine
    /\ UNCHANGED <<crystal, path, longest, kept>>

ScriptExtra ==
    /\ ScriptMay("extra")
    /\ \E edits \in Extras(program, object.doc) :
           /\ ScriptCall("extra", edits)
           /\ mine' = Without(mine, edits)
    /\ UNCHANGED <<crystal, path, longest, kept>>

ScriptRun ==
    /\ ScriptMay("run")
    /\ LET edits == Run(program, line.calc, object.doc) IN
       /\ ScriptCall("run", edits)
       /\ mine' = Without(mine, edits)
    /\ kept' = IF Accumulates(program, line.calc) THEN Len(object.steps) ELSE 0
    /\ UNCHANGED <<crystal, path, longest>>

Next ==
    \/ CommandCall
    \/ CommandRun
    \/ ScriptXyz
    \/ \E stops \in Paths : ScriptPath(stops)
    \/ \E item \in Items(program) : ScriptCustom(item)
    \/ ScriptExtra
    \/ ScriptRun

Spec == Init /\ [][Next]_vars

-----------------------------------------------------------------------------
Ran == fresh /\ Going

(* The part of the last script that its run added. *)
LastRun == SubSeq(object.written, kept + 1, Len(object.written))

(* Steps that start the program on an input file of its own.               *)
WholeInputs ==
    {"pw.in", "pw-scf.in", "pw-nscf.in", "pw-bands.in", "siesta.fdf", "gs", "unocc", "vib-modes",
     "casida", "em-resp", "elk.in", "nwchem.nw", "vasp", "scf", "nscf", "bands", "gamessus.inp",
     "orca.inp", "qchem.inp"}

Inputs == SelectSeq(LastRun, LAMBDA step: step.name \in WholeInputs)

-----------------------------------------------------------------------------
(* Places that the programs do not print: namelists and cards pw.x does    *)
(* not have, those Phonopy's constructor switches off, and parameters of   *)
(* INCAR outside the runtype's groups.                                     *)
Unprinted(at, doc) ==
    CASE program = "qe" ->
            \/ ~ Pw!Prints(at)
            \/ line.calc = "phonopy" /\ at[1] \in {"ions", "cell"}
      [] program = "vasp" -> ~ Vasp!PrintsKey(FirstWord(doc, Vasp!RunTypeAt), at[2])
      [] OTHER -> FALSE

OneWord(at) ==
    \/ program = "qe" /\ at[2] \in Pw!CharacterVars
    \/ program = "octopus" /\ at[1] = "inp"

RowShows(row, words, at) ==
    IF OneWord(at) THEN row = <<Head(words)>>
    ELSE IF program = "nwchem" THEN IsSuffix(words, row)
    ELSE IsPrefix(words, row) /\ \A j \in (Len(words) + 1)..Len(row) : row[j] = ""

Shows(rows, wish, at) ==
    LET past == IF at[1] = "card" THEN 1 ELSE 0
    IN  \A i \in DOMAIN wish :
            i + past \in DOMAIN rows /\ RowShows(rows[i + past], wish[i], at)

(* Every parameter that the user set, with --custom, --custom-file or in a *)
(* script, and that neither a later call nor the run sets itself, is in    *)
(* every input file of the run with the user's words (atomsciflow_calc_*:  *)
(* --custom comes last and wins).                                          *)
CustomReachesInput ==
    Ran =>
        \A n \in DOMAIN Inputs :
            LET step == Inputs[n]
                text == Text(program, step)
            IN  \A at \in DOMAIN mine :
                    \/ Unprinted(at, step.doc)
                    \/ at \in DOMAIN text /\ Shows(text[at], mine[at], at)

-----------------------------------------------------------------------------
(* The places that make a structure in an input, and their rows for s.     *)
Parts(s) ==
    CASE program = "qe" ->
            (Pw!Card("cell_parameters") :> <<<<"angstrom">>, Cell(s)>>)
            @@ (Pw!Positions :> <<<<"crystal">>>> \o AtomRows(s))
            @@ (Pw!Card("atomic_species") :> <<<<"">>, <<Elements>>>>)
            @@ (<<"system", "nat">> :> <<<<Count(s)>>>>)
            @@ (<<"system", "ntyp">> :> <<<<NumberOfElements>>>>)
      [] program = "siesta" ->
            (Siesta!Block("LatticeVectors") :> <<Cell(s)>>)
            @@ (Siesta!Coordinates :> AtomRows(s))
            @@ (Siesta!Labels :> <<<<Elements>>>>)
            @@ (Siesta!BasisSizes :> <<<<Elements>>>>)
            @@ (<<"fdf", "NumberOfAtoms">> :> <<<<Count(s)>>>>)
            @@ (<<"fdf", "NumberOfSpecies">> :> <<<<NumberOfElements>>>>)
            @@ (<<"fdf", "AtomicCoordinatesFormat">> :> <<<<"Ang">>>>)
            @@ (<<"fdf", "LatticeConstant">> :> <<<<"1.0 Ang">>>>)
      [] program = "octopus" ->
            (Octopus!Block("LatticeVectors") :> <<Cell(s)>>)
            @@ (Octopus!Block("Coordinates") :> AtomRows(s))
            @@ (Octopus!Block("Species") :> <<<<Elements>>>>)
      [] program = "elk" ->
            (<<"avec", "avec">> :> <<Cell(s)>>)
            @@ (<<"atoms", "atposl">> :> <<Atoms(s)>>)
            @@ (<<"atoms", "nspecies">> :> <<<<NumberOfElements>>>>)
      [] program = "vasp" ->
            (<<"poscar", "cell">> :> <<Cell(s)>>)
            @@ (Vasp!PoscarAtoms :> <<Atoms(s)>>)
            @@ (Vasp!ElementList :> <<<<Elements>>>>)
      [] program = "nwchem" ->
            (NWChem!Geometry("") :> <<<<"units", "angstroms">>>>)
            @@ (NWChem!Fields("") :> AtomRows(s))
            @@ (NWChem!Basis :> <<<<"library", "6-31g">>>>)
      [] program = "gamessus" -> <<"data", "atoms">> :> <<Atoms(s)>>
      [] program = "orca" ->
            <<"%coords", "data">> :> <<<<"CTyp xyz">>, <<"Charge 0">>, <<"Units Angs">>, <<"coords">>>>
                                     \o AtomRows(s) \o <<<<"end">>>>
      [] program = "qchem" ->
            <<"$molecule", "data">> :> [n \in 1..AtomsOf(s) |-> Small!QChemLine(s, n)]

(* Neb's geometries are the images given, and none else. *)
NebParts(doc) ==
    LET images == RowsAt(doc, <<"self", "neb_images">>)[1]
        mode == FirstWord(doc, <<"self", "neb_images_mode">>)
        stated == CASE mode = "0" -> 2 [] mode = "1" -> 3 [] mode = "2" -> 0
    IN  [at \in {NWChem!Fields("@" \o ToString(n - 1)) : n \in 1..stated} |->
            AtomRows(images[CHOOSE n \in 1..stated : at = NWChem!Fields("@" \o ToString(n - 1))])]

(* Rows behind the ones a number counts do not matter.                     *)
Counted == {Pw!Positions, Siesta!Coordinates}

Says(text, parts) ==
    \A at \in DOMAIN parts :
        /\ at \in DOMAIN text
        /\ IF at \in Counted THEN IsPrefix(parts[at], text[at]) ELSE text[at] = parts[at]

StatesStructure(step) ==
    LET text == Text(program, step)
    IN  IF program = "nwchem" /\ line.calc = "neb"
        THEN Says(text, NebParts(step.doc)) /\ NWChem!Fields("") \notin DOMAIN text
        ELSE Says(text, Parts(crystal))

(* What spoils a structure: Phonopy's own changes for its supercells, when *)
(* it runs once more, and what a second file finds from the first.         *)
Spoiled ==
    \/ /\ line.calc = "phonopy"
       /\ \/ program = "qe" /\ Len(ranSince) > 1 /\ ranSince[Len(ranSince) - 1] # "1"
          \/ program = "siesta" /\ Len(ranSince) > 1
          \/ program = "elk" /\ spent.run > 1
    \/ program \in {"siesta", "vasp"} /\ spent.xyz > 1
    \/ /\ program = "nwchem" /\ line.calc # "neb"
       /\ \E n \in 1..(spent.xyz - 1) : AtomsOf(Crystals[n]) > AtomsOf(crystal)

(* The input files of a run state the structure read last, whole: its      *)
(* atoms, cell, elements and their counts agree, and atoms of an earlier   *)
(* file are not counted.  They do so except in the cases of Spoiled, and   *)
(* in these never: Phonopy's nat of the supercell (qe/phonopy.cpp:114),    *)
(* its switches (siesta/phonopy.cpp:82, elk.py) in a later run, and the    *)
(* elements that SIESTA and VASP append and the fields that NWChem keeps   *)
(* at a second get_xyz.  VASP's bands have no POSCAR of their own.         *)
StructureInEveryInput ==
    Ran =>
        \A n \in DOMAIN Inputs :
            \/ program = "vasp" /\ Inputs[n].name = "bands"
            \/ StatesStructure(Inputs[n]) <=> ~ Spoiled

-----------------------------------------------------------------------------
(* What the bands' input says of the path: its stops and its links, as far *)
(* as the program writes them.                                             *)
At(stop) == "at " \o stop.label

PwPath(text) ==
    LET rows == Tail(text[Pw!KPoints])
    IN  /\ rows[1][1] = ToString(Len(path))
        /\ \A n \in DOMAIN path :
               rows[n + 1][1] = At(path[n]) /\ rows[n + 1][4] = path[n].link

VaspPath(text) ==
    text[Vasp!Path] = [n \in DOMAIN path |-> <<path[n].label, path[n].link>>]

(* A line of SIESTA draws the way to its stop: it has the link of the stop *)
(* before, or 1 where the pen is lifted.  Lines of a longer path stay.     *)
SiestaPath(text) ==
    LET rows == text[Siesta!BandLines]
    IN  /\ Len(rows) = longest
        /\ \A n \in DOMAIN path : rows[n][2] = At(path[n])
        /\ \A n \in 2..Len(path) :
               rows[n][1] = IF path[n - 1].link = "0" THEN "1" ELSE path[n - 1].link

(* The links of Octopus are cut off after the third, the width of a stop.  *)
OctopusPath(text) ==
    LET rows == text[Octopus!Block("KPointsPath")]
    IN  \A n \in DOMAIN path :
            /\ rows[n + 1][1] = At(path[n])
            /\ n < Len(path) /\ n <= 3 => rows[1][n] = path[n].link

ElkPath(text) ==
    /\ text[<<"plot1d", "nvp1d">>] = <<<<ToString(Len(path))>>>>
    /\ {at \in DOMAIN text : at[1] = "plot1d"} =
           {<<"plot1d", key>> : key \in {"nvp1d", "npp1d"}
                                    \cup {Elk!Stop(n - 1) : n \in DOMAIN path}}
    /\ \A n \in DOMAIN path : text[<<"plot1d", Elk!Stop(n - 1)>>] = <<<<At(path[n])>>>>

SaysPath(step) ==
    LET text == Text(program, step)
    IN  CASE program = "qe" -> PwPath(text)
          [] program = "vasp" -> VaspPath(text)
          [] program = "siesta" -> SiestaPath(text)
          [] program = "octopus" -> OctopusPath(text)
          [] program = "elk" -> ElkPath(text)

(* The steps before the bands compute on a mesh. *)
OnMesh(step) ==
    CASE program = "qe" -> Text("qe", step)[Pw!KPoints][1] # <<"crystal_b">>
      [] program = "vasp" -> Vasp!Path \notin DOMAIN Text("vasp", step)
      [] program = "octopus" -> Octopus!Block("KPointsPath") \notin DOMAIN Text("octopus", step)

BandsSteps == {"pw-bands.in", "bands", "siesta.fdf", "unocc", "elk.in"}

(* The step that computes the bands has the stops of the last path in      *)
(* their order with the number of points of each segment, and the steps    *)
(* before it, in the first run of an object, a mesh (run of Band in        *)
(* qe/pwscf.py, vasp.py, octopus.py; set_bandlines; Elk's set_kpath).      *)
PathReachesInput ==
    Ran /\ path # <<>> =>
        \A n \in DOMAIN Inputs :
            IF Inputs[n].name \in BandsSteps THEN SaysPath(Inputs[n])
            ELSE spent.run <= 1 => OnMesh(Inputs[n])

-----------------------------------------------------------------------------
(* What a step computes, by its input file or its program. *)
Computes(step) ==
    LET text == Text(program, step)
    IN  IF program = "qe" /\ step.name \in WholeInputs
        THEN text[<<"control", "calculation">>][1][1]
        ELSE IF program = "octopus" THEN text[<<"inp", "CalculationMode">>][1][1]
        ELSE IF program = "vasp" /\ step.name \in WholeInputs
        THEN IF <<"incar", "ICHARG">> \in DOMAIN text
             THEN "ICHARG " \o text[<<"incar", "ICHARG">>][1][1] ELSE "ICHARG 0"
        ELSE step.name

(* What must have been computed before in the same script: a density or    *)
(* wave functions to read, or the displaced supercells.                    *)
Needed ==
    ("nscf" :> "scf") @@ ("bands" :> "scf") @@ ("bands.in" :> "bands")
    @@ ("projwfc.in" :> "nscf") @@ ("hp.in" :> "scf")
    @@ ("unocc" :> "gs") @@ ("vib_modes" :> "gs") @@ ("em_resp" :> "gs") @@ ("casida" :> "unocc")
    @@ ("ICHARG 11" :> "ICHARG 0")
    @@ ("run" :> "phonopy -d") @@ ("run-supercell" :> "phonopy -d")

ModePlaces == {<<"control", "calculation">>, <<"inp", "CalculationMode">>, <<"incar", "ICHARG">>}

(* A run puts every step behind the one whose results it reads, whatever   *)
(* was called before (unless the user sets the mode himself).              *)
StepsInOrder ==
    Ran /\ DOMAIN mine \cap ModePlaces = {} =>
        \A n \in DOMAIN LastRun :
            Computes(LastRun[n]) \in DOMAIN Needed =>
                \E m \in 1..(n - 1) :
                    Computes(LastRun[m]) = Needed[Computes(LastRun[n])]

-----------------------------------------------------------------------------
AllItems == IF line.user = "command" THEN Range(line.file) \cup Range(line.custom)
            ELSE Items(program)

NoStructure == IF line.user = "command" THEN line.form = "none" ELSE crystal = ""

NoPath ==
    /\ line.calc \in PathCalcs(program)
    /\ IF line.user = "command" THEN line.kpath = <<>> ELSE path = <<>>

NoPseudos ==
    /\ program = "qe"
    /\ line.user = "script"
    /\ line.calc \in {"static", "opt", "vcopt", "bomd", "phonopy", "dos", "hp"}

(* Items that name no group, a mesh without shifts, an Elk block with      *)
(* fewer values than to_string reads, a directive in a task that is none.  *)
BadItem(item) ==
    CASE program = "qe" ->
            IF item.table
            THEN item.key = "k_points" /\ Len(item.rows[1]) < 6 /\ line.calc \in {"band", "dos"}
            ELSE item.group = ""
      [] program = "elk" -> item.group \in DOMAIN Elk!Shape
      [] program = "nwchem" -> item.group # "0"
      [] program = "gamessus" -> item.group = ""
      [] OTHER -> FALSE

UnreadableFile ==
    /\ line.user = "command"
    /\ line.file # <<>>
    /\ <<program, line.calc>> \in
           {<<"vasp", "phonopy">>, <<"gamessus", "static">>, <<"gamessus", "opt">>}

BadImages ==
    /\ program = "nwchem"
    /\ line.calc = "neb"
    /\ line.user = "command" => Len(line.images) < (IF line.mode = "1" THEN 3 ELSE 2)

(* Choices of --calc without a branch, and --cif where --xyz is read.      *)
MissingBranch ==
    /\ line.user = "command"
    /\ \/ program = "octopus" /\ line.calc = "md"
       \/ program \in Small!SmallPrograms /\ line.calc = "md" /\ program \notin Small!Dynamical
       \/ program = "qchem" /\ line.calc = "opt"
       \/ program \in Small!SmallPrograms \ {"dalton"} /\ line.form = "cif"

(* A command or a script ends early (an exception, exit or undefined       *)
(* behaviour) only for one of the causes the calculators have: no other    *)
(* combination of calls and options does.                                  *)
FailureNeedsCause ==
    ~ Going =>
        \/ NoStructure \/ NoPath \/ NoPseudos \/ UnreadableFile \/ BadImages \/ MissingBranch
        \/ \E item \in AllItems : BadItem(item)

-----------------------------------------------------------------------------
(* The directives that state an option of the command line.                *)
Telling ==
    {<<"llhpc", "#SBATCH -p", "partition">>, <<"llhpc", "#SBATCH -N", "nodes">>,
     <<"pbs", "#PBS -l nodes=", "nodes">>, <<"pbs", ":ppn=", "ppn">>,
     <<"cdcloud", "#SBATCH --partition=", "partition">>, <<"cdcloud", "#SBATCH --nodes=", "nodes">>,
     <<"cdcloud", "#SBATCH --ntasks-per-node=", "ntasks_per_node">>,
     <<"slurm", "#SBATCH --partition=", "partition">>, <<"slurm", "#SBATCH --nodes=", "nodes">>,
     <<"slurm", "#SBATCH --ntasks-per-node=", "ntasks_per_node">>,
     <<"slurm", "#SBATCH --time=", "time">>, <<"slurm", "#SBATCH --account=", "account">>,
     <<"slurm", "#SBATCH --constraint=", "constraint">>}

(* The header that a run of the command writes tells the scheduler what    *)
(* the command line said of nodes, tasks, partition, time, account and     *)
(* constraint, once (calc_tools.set_calc_processor_common,                 *)
(* submit_script.cpp).  -n of llhpc is left out: it is told the tasks of   *)
(* one node.                                                               *)
HeaderTakesCommandLine ==
    Ran /\ line.user = "command" =>
        \A told \in Telling :
            {pair \in Scripts!Header(told[1], object.doc) : pair[1] = told[2]}
                = {<<told[2], line.job[told[3]]>>}
=============================================================================
