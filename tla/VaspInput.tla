----------------------------- MODULE VaspInput -----------------------------
(***************************************************************************)
(* VASP: parameters of INCAR at <<"incar", key>>, the mesh and the path of *)
(* KPOINTS at <<"kpoints", "mesh">> and <<"kpoints", "path">>, POSCAR at   *)
(* <<"poscar", ...>>, whose elements POTCAR has, too; the classes of the   *)
(* calculations and the command's calls.  INCAR's runtype decides which    *)
(* groups of its parameters are printed.                                   *)
(***************************************************************************)
EXTENDS Keywords

Calcs == {"static", "opt", "vcopt", "md", "phonopy", "band", "dos"}
PathCalcs == {"band"}

RunTypes == {"static", "opt", "md", "phonon", "dfpt", "neb", "custom"}
RunTypeAt == <<"self", "runtype">>

Incar(pairs) == Settings("incar", pairs)

-----------------------------------------------------------------------------
(* basic_setting: set_runtype resets four parameters whatever the user     *)
(* made of them, and sets those of the runtype.                            *)
OfRunType(runtype) ==
    CASE runtype = "static" -> Incar(<<<<"IBRION", "-1">>>>)
      [] runtype = "opt" ->
            Incar(<<<<"EDIFFG", "0.001">>, <<"IBRION", "1">>, <<"ISIF", "0">>, <<"NSW", "100">>>>)
      [] runtype = "md" ->
            <<TurnOffIfSet(<<"incar", "EDIFFG">>)>>
            \o Incar(<<<<"IBRION", "0">>, <<"POTIM", "0.5">>, <<"NSW", "1000">>>>)
      [] runtype = "phonon" ->
            Incar(<<<<"IBRION", "7">>, <<"NFREE", "4">>, <<"POTIM", "0.015">>, <<"NSW", "1">>>>)
      [] runtype = "dfpt" -> Incar(<<<<"LEPSILON", "T">>, <<"LRPA", "T">>>>)
      [] runtype = "neb" ->
            Incar(<<<<"ISIF", "2">>, <<"EDIFFG", "-0.01">>, <<"IBRION", "3">>, <<"POTIM", "0">>,
                    <<"LCLIMB", "T">>, <<"IOPT", "1">>, <<"SPRING", "-5">>>>)
      [] OTHER -> <<>>

SetRunType(runtype) ==
    <<SetParam("self", "runtype", <<runtype>>)>>
    \o Incar(<<<<"ENCUT", "300">>, <<"EDIFF", "1e-06">>, <<"ISMEAR", "0">>, <<"NWRITE", "2">>>>)
    \o OfRunType(runtype)

SetMd(ensemble, thermostat) ==
    CASE ensemble = 0 -> Incar(<<<<"MDALGO", "0">>, <<"SMASS", "-3">>>>)
      [] ensemble = 1 ->
            Incar(<<<<"ISIF", "2">>>>)
            \o When(thermostat \in 0..3,
                    Incar(<<<<"MDALGO", <<"1", "2", "3", "13">>[thermostat + 1]>>>>))
      [] ensemble = 2 -> Incar(<<<<"MDALGO", "3">>, <<"ISIF", "3">>>>)
      [] ensemble = 3 ->
            Incar(<<<<"MDALGO", "3">>, <<"ISIF", "3">>, <<"LANGEVIN_GAMMA_L", "0">>>>)
      [] OTHER -> <<>>

(* set_params hands over the parameters that its runtype allows. *)
AllowedAlways ==
    {"ADDGRID", "ALGO", "AMIX", "BMIX", "EDIFF", "ENCUT", "IALGO", "ISMEAR", "ISPIN", "ISYM",
     "IVDW", "KPAR", "KSPACING", "LCHARG", "LNONCOLLINEAR", "LPLANE", "LREAL", "LWAVE",
     "MAGMOM", "NCORE", "NELECT", "NELM", "NFREE", "NPAR", "NSIM", "NWRITE", "PREC", "SIGMA",
     "SYMPREC"}

Moving == {"IBRION", "ISIF", "NSW", "POTIM", "EDIFFG"}

AllowedForMd ==
    Moving \cup {"LAECHG", "PSTRESS", "MDALGO", "SMASS", "ANDERSON_PROB", "TEBEG", "TEEND"}

AllowedForPhonon == Moving \cup {"LAECHG"}

AllowedFor ==
    [static |-> {"LORBIT", "LOPTICS", "CSHIFT", "NEDOS", "LSORBIT", "SAXIS", "LMAXMIX",
                 "LHFCALC", "HFSCREEN", "AEXX", "LSUBROT", "LELF", "PSTRESS", "LAECHG", "LPARD",
                 "LSEPK", "LSEPB", "NBMOD", "EINT", "LVHAR"},
     opt |-> Moving \cup {"LAECHG", "PSTRESS", "LVHAR"},
     phonopy |-> {"LAECHG"},
     neb |-> Moving \cup {"IOPT", "LCLIMB", "SPRING", "IMAGES", "LNEBCELL", "MAXMOVE", "LGLOBAL",
                          "LAUTOSCALE", "INVCURV", "LLINEOPT", "FDSTEP"},
     md |-> AllowedForMd,
     phonon |-> AllowedForPhonon]

Allowed(key, runtype) ==
    \/ runtype = "custom"
    \/ runtype \in DOMAIN AllowedFor /\ key \in AllowedAlways \cup AllowedFor[runtype]

SetParams(pairs, runtype) == Incar(SelectSeq(pairs, LAMBDA pair: Allowed(pair[1], runtype)))

-----------------------------------------------------------------------------
(* set_kpoints replaces the mesh, the option and the path. *)
Mesh == <<"kpoints", "mesh">>
Path == <<"kpoints", "path">>

SetKpoints(divisions, option, path) ==
    <<SetOption(Mesh, option),
      SetRow(Mesh, <<divisions, divisions, divisions, "0", "0", "0">>, 1), Forget(Path)>>
    \o SetRows(Path, path)

Vasp == SetRunType("static") \o SetKpoints("1", "automatic", <<>>)

OfClass(calc) ==
    CASE calc = "static" -> SetRunType("static") \o Incar(<<<<"IBRION", "-1">>>>)
      [] calc = "opt" ->
            SetRunType("opt")
            \o Incar(<<<<"EDIFFG", "0.001">>, <<"IBRION", "1">>, <<"NSW", "100">>>>)
      [] calc = "vcopt" ->
            Incar(<<<<"EDIFFG", "0.001">>, <<"IBRION", "1">>, <<"NSW", "100">>, <<"ISIF", "3">>>>)
      [] calc = "md" ->
            SetRunType("md") \o Incar(<<<<"IBRION", "0">>, <<"POTIM", "0.5">>, <<"NSW", "1000">>>>)
      [] calc = "phonopy" -> <<SetParam("job", "phonopy_dim", <<"1">>)>>
      [] OTHER -> <<>>

New(calc) == Vasp \o OfClass(calc)

(* get_xyz: the file's atoms and cell replace the last one's, its elements *)
(* are appended to elem_natom_in_number_order.                             *)
ElementList == <<"poscar", "elements">>
PoscarAtoms == <<"poscar", "atoms">>

GetXyz(s) ==
    TakesXyz(s)
    \o <<SetParam("poscar", "atoms", Atoms(s)), SetParam("poscar", "cell", Cell(s)),
         AddWords(ElementList, <<Elements>>)>>

SetPath(path) ==
    <<SetParam("self", "kpath", <<>>)>>
    \o SetRows(<<"self", "kpath">>, [n \in DOMAIN path |-> <<path[n].label, path[n].link>>])

(* An item of --custom, a list where its value has commas, or a line of    *)
(* --custom-file.                                                          *)
Custom(item, file) ==
    <<SetParam("incar", item.key, IF file THEN Uncut(item.rows[1]) ELSE item.rows[1])>>

-----------------------------------------------------------------------------
(* Runs.  Band and Dos write POTCAR first and neither clears the steps of  *)
(* an earlier run; the bands step writes no POSCAR of its own.             *)
NoPath(calc, doc) == calc = "band" /\ ~ Has(doc, <<"self", "kpath">>)

PathOf(calc, doc) == IF calc = "band" THEN RowsAt(doc, <<"self", "kpath">>) ELSE <<>>

Scf(calc, doc) ==
    Incar(<<<<"ICHARG", "0">>, <<"LORBIT", "11">>>>)
    \o SetKpoints("3", "automatic", PathOf(calc, doc)) \o <<AppendStep("scf")>>

Nscf(calc, doc) ==
    Incar(<<<<"ICHARG", "11">>>>)
    \o SetKpoints("5", "automatic", PathOf(calc, doc)) \o <<AppendStep("nscf")>>

Bands(calc, doc) ==
    SetKpoints("3", "bands", PathOf(calc, doc))
    \o Incar(<<<<"ICHARG", "11">>>>) \o <<AppendStep("bands")>>

BandRun(doc) ==
    Incar(<<<<"IBRION", "-1">>>>) \o <<AppendStep("POTCAR")>>
    \o IF NoPath("band", doc)
       THEN Incar(<<<<"ICHARG", "0">>, <<"LORBIT", "11">>>>) \o <<Raises>>
       ELSE Scf("band", doc) \o Nscf("band", doc) \o Bands("band", doc) \o <<JobRun>>

\* A mutant of DosRun.
DosRunNscfFirst(doc) ==
    Incar(<<<<"IBRION", "-1">>>>) \o <<AppendStep("POTCAR")>>
    \o Nscf("dos", doc) \o Scf("dos", doc) \o <<JobRun>>

DosRun(doc) ==
    Incar(<<<<"IBRION", "-1">>>>) \o <<AppendStep("POTCAR")>>
    \o Scf("dos", doc) \o Nscf("dos", doc) \o <<JobRun>>

PhonopyRun ==
    <<ClearSteps, AppendStep("phonopy -d"), AppendStep("supercells"), AppendStep("run"), JobRun>>

Run(calc, doc) ==
    CASE calc = "band" -> BandRun(doc)
      [] calc = "dos" -> DosRun(doc)
      [] calc = "phonopy" -> PhonopyRun
      [] OTHER -> <<ClearSteps, AppendStep("vasp"), JobRun>>

-----------------------------------------------------------------------------
(* to_string sorts the parameters into groups.  Two groups are never       *)
(* printed, the linear response's only for the runtypes "dftp" and         *)
(* "custom", and "phonopy" and the like lose the first three.              *)
Start ==
    {"NWRITE", "PREC", "ISTART", "ICHARG", "ISPIN", "LNONCOLLINEAR", "LSORBIT", "INIWAV",
     "LASPH", "METAGGA"}

Electrons ==
    {"ENCUT", "ENINI", "ENAUG", "NELM", "EDIFF", "LREAL", "NLSPLINE", "LCOMPAT", "GGA_COMPAT",
     "LMAXPAW", "LMAXMIX", "VOSKOWN", "ROPT", "IALGO", "LDIAG", "LSUBROT", "TURBO", "IRESTART",
     "NREBOOT", "NMIN", "EREF", "IMIX", "EMIN", "EMAX", "EFERMI", "ISMEAR", "SIGMA"}

Ions ==
    {"EDIFFG", "NSW", "NBLOCK", "IBRION", "NFREE", "ISIF", "IWAVPR", "ISYM", "LCORR", "POTIM",
     "TEIN", "TEBEG", "SMASS", "SCALEE", "NPACO", "PSTRESS", "MDALGO"}

NeverPrinted == {"LDIPOL", "ORBITALMAG", "LCHIMAG", "DQ", "LLRAUG"}

LinearResponse ==
    {"LEPSILON", "LRPA", "LNABLA", "LVEL", "LINTERFAST", "KINTER", "OMEGAMAX", "DEG_THRESHOLD",
     "RTIME", "DFIELD"}

Neb ==
    {"IOPT", "SPRING", "IMAGES", "LCIMB", "ICHAIN", "LNEBCELL", "MAXMOVE", "LGLOBAL",
     "LAUTOSCALE", "INVCURV", "LLINEOPT", "FDSTEP"}

PrintsKey(runtype, key) ==
    /\ key \notin NeverPrinted
    /\ key \in Start \cup Electrons \cup Ions => runtype \in RunTypes
    /\ key \in LinearResponse => runtype \in {"dftp", "custom"}
    /\ key \in Neb => runtype \in {"neb", "custom"}

(* Each step writes INCAR and KPOINTS anew; the file POSCAR of the step    *)
(* before serves the bands.                                                *)
InStep(name, doc, at) ==
    CASE at[1] = "incar" ->
            /\ name \in {"vasp", "phonopy -d", "scf", "nscf", "bands"}
            /\ PrintsKey(FirstWord(doc, RunTypeAt), at[2])
      [] at[1] = "kpoints" ->
            /\ name \in {"vasp", "phonopy -d", "scf", "nscf", "bands"}
            /\ at = (IF doc[Mesh].option = "bands" THEN Path ELSE Mesh)
      [] at[1] = "poscar" ->
            \/ name \in {"vasp", "phonopy -d", "scf", "nscf"}
            \/ name = "POTCAR" /\ at = ElementList
      [] OTHER -> FALSE

(* POSCAR has the atoms of an element once for each entry of the list.     *)
Printed(doc, at) ==
    IF at = PoscarAtoms
    THEN [n \in DOMAIN doc[ElementList].rows[1] |-> doc[at].rows[1]]
    ELSE doc[at].rows

Text(step) ==
    LET doc == step.doc IN
    [at \in {p \in DOMAIN doc : InStep(step.name, doc, p) /\ IsOn(doc, p)} |->
        Printed(doc, at)]

(* --custom-file cannot be read into the Phonopy class, which Python does  *)
(* not know as a Vasp.                                                     *)
Commands(line) ==
    <<New(line.calc)>>
    \o When(line.calc \in PathCalcs, <<PathCall(line, SetPath)>>)
    \o <<Common(line, GetXyz(Crystal))>>
    \o When(line.calc = "phonopy" /\ line.file # <<>>, << <<Raises>> >>)
    \o [n \in DOMAIN line.file |-> Custom(line.file[n], TRUE)]
    \o [n \in DOMAIN line.custom |-> Custom(line.custom[n], FALSE)]
=============================================================================
