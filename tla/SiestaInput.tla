---------------------------- MODULE SiestaInput ----------------------------
(***************************************************************************)
(* SIESTA's fdf file: parameters at <<"fdf", key>> and blocks at           *)
(* <<"block", name>>; the classes of the calculations and the command's    *)
(* calls.                                                                  *)
(***************************************************************************)
EXTENDS Keywords

Calcs == {"static", "opt", "vcopt", "md", "phonopy", "band", "dos"}

PathCalcs == {"static", "band"}

Block(name) == <<"block", name>>
BandLines == Block("BandLines")
Coordinates == Block("AtomicCoordinatesAndAtomicSpecies")

-----------------------------------------------------------------------------
Electrons ==
    Settings("fdf",
             <<<<"XC.functional", "GGA">>, <<"XC.Authors", "PBE">>, <<"DM.Tolerance", "1e-06">>,
               <<"DM.MixingWeight", "0.2">>, <<"DM.NumberPulay", "8">>,
               <<"DM.AllowExtrapolation", "true">>, <<"DM.UseSaveDM", "true">>,
               <<"SolutionMethod", "diagon">>, <<"MeshCutOff", "300 Ry">>>>)

Siesta ==
    Settings("fdf", <<<<"SystemName", "siesta-job">>, <<"SystemLabel", "siesta-run">>>>)
    \o Electrons

(* Opt and VcOpt. *)
Relaxation(cellMoves, steps) ==
    Settings("fdf",
             <<<<"MD.TypeOfRun", "CG">>,
               <<"MD.VariableCell", IF cellMoves THEN "true" ELSE "false">>,
               <<"MD.ConstantVolume", IF cellMoves THEN "false" ELSE "true">>,
               <<"MD.MaxForceTol", "0.001 eV/Ang">>, <<"MD.MaxStressTol", "0.01 GPa">>,
               <<"MD.Steps", steps>>, <<"MD.MaxDispl", "0.2 Bohr">>,
               <<"MD.PreconditionVariableCell", "5 Ang">>,
               <<"WriteCoorXmol", "true">>, <<"WriteMDXmol", "true">>>>)

Dynamics ==
    Settings("fdf",
             <<<<"MD.TypeOfRun", "Nose">>, <<"MD.InitialTimeStep", "1">>,
               <<"MD.FinalTimeStep", "1000">>, <<"MD.LengthTimeStep", "1 fs">>,
               <<"MD.InitialTemperature", "300 K">>, <<"MD.TargetTemperature", "300 K">>,
               <<"WriteCoorXmol", "true">>, <<"WriteMDXmol", "true">>>>)

Dos == <<SetRow(Block("ProjectedDensityOfStates"), <<"-10.0", "10.0", "0.2", "1000", "eV">>, 1)>>

Grid == [n \in 1..3 |-> <<"10", "10", "10", "yes">>]

(* Static asks for everything at once: density of states, populations,     *)
(* polarization and optics.                                                *)
Everything ==
    Dos
    \o Settings("fdf", <<<<"WriteMullikenPop", "3">>, <<"WriteVoronoiPop", "true">>,
                         <<"WriteHirshfeldPop", "true">>, <<"COOP.Write", "true">>>>)
    \o FlattenSeq([n \in 1..3 |->
           [j \in 1..4 |-> SetCell(Block("PolarizationGrids"), Grid[n][j], n, j)]])
    \o <<SetParam("fdf", "OpticalCalculation", <<"true">>),
         SetParam("fdf", "Optical.Energy.Minimum", <<"0", "Ry">>),
         SetParam("fdf", "Optical.Energy.Maximum", <<"10", "Ry">>),
         SetParam("fdf", "Optical.Broaden", <<"0.1", "Ry">>),
         SetParam("fdf", "Optical.Scissor", <<"0", "Ry">>),
         SetRow(Block("Optical.Mesh"), <<"5", "5", "5">>, 1),
         SetParam("fdf", "Optical.PolarizationType", <<"polycrystal">>),
         SetRow(Block("Optical.Vector"), <<"0", "0", "1">>, 1)>>

OfClass(calc) ==
    CASE calc = "static" -> Electrons \o Everything
      [] calc = "opt" -> Relaxation(FALSE, "60")
      [] calc = "vcopt" -> Relaxation(TRUE, "100")
      [] calc = "md" -> Dynamics
      [] calc = "phonopy" -> <<SetParam("job", "phonopy_dim", <<"1">>)>> \o Electrons
      [] calc = "dos" -> Dos \o Electrons
      [] calc = "band" -> Electrons

New(calc) == Siesta \o OfClass(calc)

-----------------------------------------------------------------------------
(* get_xyz appends the elements to the list that the labels and the basis  *)
(* sizes are made from, but counts the set: a word of these two blocks     *)
(* stands for the rows of one such list.                                   *)
Labels == Block("ChemicalSpeciesLabel")
BasisSizes == Block("PAO.BasisSizes")

GetXyz(s) ==
    TakesXyz(s)
    \o Settings("fdf",
                <<<<"NumberOfSpecies", NumberOfElements>>, <<"NumberOfAtoms", Count(s)>>,
                  <<"AtomicCoordinatesFormat", "Ang">>, <<"LatticeConstant", "1.0 Ang">>>>)
    \o <<AddWords(Labels, <<Elements>>)>>
    \o SetRows(Coordinates, AtomRows(s))
    \o <<SetRow(Block("LatticeVectors"), Cell(s), 1), AddWords(BasisSizes, <<Elements>>)>>

\* A mutant of Link.
LinkOwn(path, n) == path[n].link

(* The first word of a line: the points up to this stop, stated by the     *)
(* link of the stop before; 1 at the first stop and after a break.         *)
Link(path, n) ==
    IF n = 1 \/ path[n - 1].link = "0" THEN "1" ELSE path[n - 1].link

(* set_bandlines; lines of a longer path stay below. *)
SetPath(path) ==
    Settings("fdf", <<<<"BandLinesScale", "ReciprocalLatticeVectors">>,
                      <<"WriteKbands", "false">>, <<"WriteBands", "false">>>>)
    \o FlattenSeq([n \in DOMAIN path |->
           <<SetCell(BandLines, Link(path, n), n, 1),
             SetCell(BandLines, "at " \o path[n].label, n, 2),
             SetCell(BandLines, path[n].label, n, 5)>>])

(* An item of --custom or a line of --custom-file. *)
Custom(item, file) ==
    IF item.table THEN SetRows(Block(item.key), item.rows)
    ELSE <<SetParam("fdf", item.key, IF file THEN Uncut(item.rows[1]) ELSE item.rows[1])>>

(* Phonopy switches three parameters off for the part it puts the          *)
(* supercells' coordinates to; get_xyz makes them anew, switched on.       *)
PhonopyRun ==
    <<ClearSteps, AppendStep("siesta.fdf"), AppendStep("phonopy -d"),
      TurnOffIfSet(<<"fdf", "NumberOfAtoms">>),
      TurnOffIfSet(<<"fdf", "AtomicCoordinatesFormat">>),
      TurnOffIfSet(<<"fdf", "LatticeConstant">>),
      AppendStep("siesta-input-part-1.fdf"), AppendStep("cat"), AppendStep("run"), JobRun>>

Run(calc, doc) ==
    IF calc = "phonopy" THEN PhonopyRun
    ELSE <<ClearSteps, AppendStep("siesta.fdf"), JobRun>>

(* Every parameter is printed, in one of three groups by its name, then    *)
(* every block.                                                            *)
ElectronsInCharge ==
    {"XC.functional", "DM.Tolerance", "DM.MixingWeight", "DM.NumberPulay",
     "DM.AllowExtrapolation", "DM.UseSaveDM", "SolutionMethod", "MeshCutOff"}

IonsInCharge ==
    {"MD.TypeOfRun", "MD.VariableCell", "MD.ConstantVolume", "MD.MaxForceTol",
     "MD.MaxStressTol", "MD.Steps", "MD.MaxDispl", "MD.PreconditionVariableCell"}

InStep(name, at) ==
    /\ at[1] \in {"fdf", "block"}
    /\ name = "siesta-input-part-1.fdf" =>
           at \notin {Block("LatticeVectors"), Coordinates}

Text(step) ==
    LET doc == step.doc IN
    [at \in {p \in DOMAIN doc : InStep(step.name, p) /\ IsOn(doc, p)} |-> doc[at].rows]

Commands(line) ==
    <<New(line.calc)>>
    \o When(line.calc \in PathCalcs, <<PathCall(line, SetPath)>>)
    \o <<Common(line, GetXyz(Crystal))>>
    \o [n \in DOMAIN line.file |-> Custom(line.file[n], TRUE)]
    \o [n \in DOMAIN line.custom |-> Custom(line.custom[n], FALSE)]
=============================================================================
