------------------------------ MODULE PwInput ------------------------------
(***************************************************************************)
(* Quantum ESPRESSO's pw.x: namelists and cards of the class PwScf, the    *)
(* Python classes of the calculations and the command's calls.  A          *)
(* namelist's parameter is at <<namelist, key>>, a card at                 *)
(* <<"card", name>>.                                                       *)
(***************************************************************************)
EXTENDS Keywords

Calcs == {"static", "opt", "vcopt", "bomd", "phonopy", "band", "dos", "hp"}
PathCalcs == {"band"}

Namelists == {"control", "system", "electrons", "ions", "cell"}

\* "additional_k_pionts" stands for ADDITIONAL_K_POINTS in to_string
Cards ==
    {"atomic_species", "atomic_positions", "k_points", "additional_k_pionts",
     "cell_parameters", "constraints", "occupations", "atomic_velocities",
     "atomic_forces", "solvents", "hubbard"}

Card(name) == <<"card", name>>
KPoints == Card("k_points")

-----------------------------------------------------------------------------
(* Constructors: the generated namelists, then PwScf's own settings; the   *)
(* second k_points call leaves the option "automatic".                     *)
GenNamelists ==
    Settings("control", <<<<"calculation", "scf">>, <<"verbosity", "low">>>>)
    \o Settings("system", <<<<"input_dft", "PBE">>>>)
    \o Settings("electrons", <<<<"electron_maxstep", "100">>, <<"conv_thr", "1.0E-6">>>>)
    \o Settings("ions", <<<<"ion_dynamics", "bfgs">>>>)
    \o Settings("cell", <<<<"cell_dynamics", "bfgs">>>>)

PwScf ==
    GenNamelists
    \o <<SetParam("control", "pseudo_dir", <<"./">>),
         SetOption(KPoints, "gamma"), SetRow(KPoints, <<>>, 1),
         SetOption(KPoints, "automatic"),
         SetRow(KPoints, <<"1", "1", "1", "0", "0", "0">>, 1)>>

CppPhonopy ==
    <<SetParam("job", "phonopy_dim", <<"1">>)>>
    \o Settings("control", <<<<"tprnfor", ".true.">>, <<"tstress", ".true.">>>>)
    \o <<TurnOff(<<"ions", "">>), TurnOff(<<"cell", "">>)>>

Relaxation(calculation, title) ==
    Settings("control",
             <<<<"calculation", calculation>>, <<"title", title>>, <<"nstep", "200">>,
               <<"etot_conv_thr", "1e-06">>, <<"forc_conv_thr", "1e-05">>>>)

OfClass(calc) ==
    CASE calc = "opt" -> Relaxation("relax", "structure relaxation")
      [] calc = "vcopt" ->
            Relaxation("vc-relax", "cell optimization")
            \o Settings("cell", <<<<"cell_dynamics", "bfgs">>, <<"press_conv_thr", "0.5">>,
                                  <<"cell_dofree", "all">>>>)
      [] calc = "bomd" ->
            Settings("control", <<<<"calculation", "md">>, <<"title", "Born-Oppenheimer MD">>,
                                  <<"nstep", "1000">>>>)
            \o Settings("ions", <<<<"ion_dynamics", "verlet">>, <<"ion_temperature", "andersen">>,
                                  <<"tempw", "300">>, <<"wfc_extrapolation", "second_order">>>>)
      [] calc = "phonopy" -> CppPhonopy
      [] OTHER -> <<>>

New(calc) == PwScf \o OfClass(calc)

-----------------------------------------------------------------------------
(* get_xyz: the cards of the structure and five parameters of &system. *)
Positions == Card("atomic_positions")

GetXyz(s) ==
    TakesXyz(s)
    \o <<SetOption(Card("cell_parameters"), "angstrom"),
         SetRow(Card("cell_parameters"), Cell(s), 1),
         SetOption(Positions, "crystal")>>
    \o SetRows(Positions, AtomRows(s))
    \o <<SetRow(Card("atomic_species"), <<Elements>>, 1)>>
    \o Settings("system",
                <<<<"ibrav", "0">>, <<"nat", Count(s)>>, <<"ntyp", NumberOfElements>>,
                  <<"ecutwfc", "100">>, <<"input_dft", "PBE">>>>)

(* set_kpath only keeps the path. *)
SetPath(path) ==
    <<SetParam("self", "kpath", <<>>)>>
    \o SetRows(<<"self", "kpath">>, [n \in DOMAIN path |-> <<path[n].label, path[n].link>>])

(* set_occupations: for every choice but "smearing" the two keywords of    *)
(* the smearing are set to nothing.                                        *)
SetOccupations(occupations) ==
    Settings("system",
             <<<<"occupations", occupations>>,
               <<"smearing", IF occupations = "smearing" THEN "gaussian" ELSE "">>,
               <<"degauss", IF occupations = "smearing" THEN "0.001" ELSE "">>>>)

(* An item of --custom or a line of --custom-file.  An item without "/"    *)
(* raises an IndexError in Python; in C++ it reads past the list.          *)
Custom(item, file) ==
    IF item.table
    THEN When(item.option # "", <<SetOption(Card(item.key), item.option)>>)
         \o SetRows(Card(item.key), item.rows)
    ELSE IF item.group = ""
    THEN <<Fails(IF file THEN "undefined" ELSE "raised")>>
    ELSE <<SetParam(item.group, item.key, IF file THEN Uncut(item.rows[1]) ELSE item.rows[1])>>

-----------------------------------------------------------------------------
(* Runs.  The classes of C++ look at the pseudopotential choice for every  *)
(* element and leave the process when there is none.                       *)
ChecksChoice(doc) ==
    When(Has(doc, <<"job", "xyz_file">>) /\ ~ Has(doc, <<"job", "qe_pseudo_choice">>),
         <<Fails("exited")>>)

(* The same check in Python's Dos and Hubbard: a dict's KeyError.          *)
LooksUpChoice(doc) ==
    When(Has(doc, <<"job", "xyz_file">>) /\ ~ Has(doc, <<"job", "qe_pseudo_choice">>),
         <<Raises>>)

(* The k-points of the nscf step: each of the three divisions times 1.333  *)
(* and rounded up.  int() refuses the blanks a row is padded with.         *)
Denser(word) == "ceil of 1.333 times " \o word

DenserMesh(doc) ==
    IF NodeAt(doc, KPoints).option # "automatic" THEN <<>>
    ELSE LET row == RowsAt(doc, KPoints)[1] IN
         IF \E j \in DOMAIN row : row[j] = "" THEN <<Raises>>
         ELSE IF Len(row) < 3 THEN <<Raises>>
         ELSE <<SetOption(KPoints, "automatic"),
                SetRow(KPoints, [j \in DOMAIN row |-> IF j <= 3 THEN Denser(row[j]) ELSE row[j]], 1)>>

Calculation(value) == SetParam("control", "calculation", <<value>>)

ScfStep == <<Calculation("scf"), AppendStep("pw-scf.in")>>

NscfStep(doc) == <<Calculation("nscf")>> \o DenserMesh(doc) \o <<AppendStep("pw-nscf.in")>>

(* The bands card: the number of points, then a row a point.  Rows of a    *)
(* longer card stay below.                                                 *)
BandsCard(doc) ==
    IF ~ Has(doc, <<"self", "kpath">>) THEN <<Raises>>
    ELSE LET path == RowsAt(doc, <<"self", "kpath">>)
         IN  <<SetOption(KPoints, "crystal_b"), SetRow(KPoints, <<ToString(Len(path))>>, 1)>>
             \o FlattenSeq([n \in DOMAIN path |->
                    <<SetCell(KPoints, "at " \o path[n][1], n + 1, 1),
                      SetCell(KPoints, path[n][2], n + 1, 4),
                      SetCell(KPoints, path[n][1], n + 1, 5)>>])

BandRun(doc) ==
    <<SetParam("control", "wf_collect", <<".true.">>), AppendStep("pseudopotentials")>>
    \o ScfStep \o NscfStep(doc)
    \o <<Calculation("bands")>> \o BandsCard(doc) \o <<AppendStep("pw-bands.in")>>
    \o <<AppendStep("bands.in"), JobRun>>

DosRun(doc) ==
    <<SetParam("control", "wf_collect", <<".true.">>)>> \o LooksUpChoice(doc)
    \o <<AppendStep("pseudopotentials")>> \o ScfStep \o NscfStep(doc)
    \o <<AppendStep("projwfc.in"), JobRun>>

HubbardRun(doc) ==
    <<SetParam("control", "wf_collect", <<".true.">>)>> \o LooksUpChoice(doc)
    \o <<AppendStep("pseudopotentials")>> \o ScfStep \o <<AppendStep("hp.in"), JobRun>>

MaxCells == 8 \* bound: unit cells of a supercell

(* The number of atoms of the supercell; phonopy_dim is the product of     *)
(* phonopy_dim_x, _y and _z.                                               *)
SupercellAtoms(doc) ==
    LET dim == FirstWord(doc, <<"job", "phonopy_dim">>)
        atoms == IF Has(doc, <<"job", "xyz_file">>)
                 THEN AtomsOf(FirstWord(doc, <<"job", "xyz_file">>)) ELSE 0
    IN  atoms * CHOOSE cells \in 1..MaxCells : ToString(cells) = dim

\* A mutant of PhonopyRun.
PhonopyRunCountsFirst(doc) ==
    <<ClearSteps, SetParam("system", "nat", <<ToString(SupercellAtoms(doc))>>),
      AppendStep("pw.in")>> \o ChecksChoice(doc)
    \o <<AppendStep("pseudopotentials"), AppendStep("phonopy -d"),
         AppendStep("pwscf-input-part-1.in"), AppendStep("run-supercell"), JobRun>>

(* The supercells' number of atoms replaces nat, until the next get_xyz.   *)
PhonopyRun(doc) ==
    <<ClearSteps, AppendStep("pw.in")>> \o ChecksChoice(doc)
    \o <<AppendStep("pseudopotentials"), AppendStep("phonopy -d"),
         SetParam("system", "nat", <<ToString(SupercellAtoms(doc))>>),
         AppendStep("pwscf-input-part-1.in"), AppendStep("run-supercell"), JobRun>>

Run(calc, doc) ==
    CASE calc = "band" -> BandRun(doc)
      [] calc = "dos" -> DosRun(doc)
      [] calc = "hp" -> HubbardRun(doc)
      [] calc = "phonopy" -> PhonopyRun(doc)
      [] OTHER -> <<ClearSteps>> \o ChecksChoice(doc) \o <<AppendStep("pw.in"), JobRun>>

-----------------------------------------------------------------------------
(* to_string and qe_variable_to_string: a character variable prints its    *)
(* first word only.                                                        *)
CharacterVars ==
    {"prefix", "outdir", "wfcdir", "pseudo_dir", "calculation", "occupations", "smearing",
     "vdw_corr", "U_projection_type", "input_dft", "exxdiv_treatment", "diagonalization",
     "ion_dynamics", "pot_extrapolation", "wfc_extrapolation", "ion_temperature",
     "cell_dofree", "mixing_mode", "efield_phase", "cell_dynamics", "verbosity", "title",
     "disk_io"}

Prints(at) == at[1] \in Namelists \/ (at[1] = "card" /\ at[2] \in Cards)

Printed(doc, at) ==
    IF at[1] = "card" THEN <<<<doc[at].option>>>> \o doc[at].rows
    ELSE IF at[2] \in CharacterVars THEN <<<<FirstWord(doc, at)>>>>
    ELSE doc[at].rows

(* What a step's document prints: the pieces the supercells' files are put *)
(* together from print the namelists and the k_points card.                *)
InStep(name, at) ==
    /\ Prints(at)
    /\ name = "pwscf-input-part-1.in" => at[1] # "card"
    /\ name = "run-supercell" => at = KPoints

Text(step) ==
    LET doc == step.doc IN
    [at \in {p \in DOMAIN doc : InStep(step.name, p) /\ p[2] # "" /\ IsOn(doc, p)} |->
        Printed(doc, at)]

-----------------------------------------------------------------------------
\* A mutant of Commands.
CommandsNoChoice(line) ==
    <<New(line.calc)>>
    \o When(line.calc \in PathCalcs, <<PathCall(line, SetPath)>>)
    \o <<Common(line, GetXyz(Crystal))>>
    \o [n \in DOMAIN line.file |-> Custom(line.file[n], TRUE)]
    \o [n \in DOMAIN line.custom |-> Custom(line.custom[n], FALSE)]

\* A mutant of Commands.
CommandsXyzLast(line) ==
    <<New(line.calc)>>
    \o When(line.calc \in PathCalcs, <<PathCall(line, SetPath)>>)
    \o [n \in DOMAIN line.file |-> Custom(line.file[n], TRUE)]
    \o [n \in DOMAIN line.custom |-> Custom(line.custom[n], FALSE)]
    \o <<Common(line, GetXyz(Crystal)),
         <<SetParam("job", "qe_pseudo_choice", <<"sssp-efficiency">>)>> >>

(* The command's calls, the constructor's first. *)
Commands(line) ==
    <<New(line.calc)>>
    \o When(line.calc \in PathCalcs, <<PathCall(line, SetPath)>>)
    \o <<Common(line, GetXyz(Crystal)),
         <<SetParam("job", "qe_pseudo_choice", <<"sssp-efficiency">>)>> >>
    \o [n \in DOMAIN line.file |-> Custom(line.file[n], TRUE)]
    \o [n \in DOMAIN line.custom |-> Custom(line.custom[n], FALSE)]
=============================================================================
