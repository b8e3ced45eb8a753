---------------------------- MODULE SmallInputs ----------------------------
(***************************************************************************)
(* The calculators that take no parameters from the command line.  Gaussian*)
(* and exciting print keywords and not the structure, Orca and Q-Chem      *)
(* both, QMCPACK an XML tree that is rendered when the structure is read;  *)
(* the others print nothing yet.                                           *)
(***************************************************************************)
EXTENDS Keywords, FiniteSets

SmallPrograms ==
    {"gaussian", "orca", "qchem", "exciting", "qmcpack", "xtb", "dftbplus", "dalton", "lammps",
     "gromacs"}

Dynamical == {"lammps", "gromacs"}

Calcs(program) == IF program \in Dynamical THEN {"md"} ELSE {"static", "opt", "md"}

-----------------------------------------------------------------------------
(* put_i_key: the keys that are missing are added at the end, then a       *)
(* child is looked for.  The look-up counts the keys it has passed and     *)
(* stops right behind the i-th, on whatever child is there; for i = 0 on   *)
(* the first child of all.  A child is <<key, value>>.                     *)
Keys(children, key) == {n \in DOMAIN children : children[n][1] = key}

Extended(children, i, key) ==
    children \o [n \in 1..Larger(i + 1 - Cardinality(Keys(children, key)), 0) |-> <<key, "">>]

Found(children, i, key) ==
    IF i = 0 THEN 1
    ELSE 1 + CHOOSE n \in Keys(children, key) :
                 Cardinality({m \in Keys(children, key) : m <= n}) = i

PutIKey(children, i, key, value) ==
    LET all == Extended(children, i, key)
    IN  [all EXCEPT ![Found(all, i, key)] = <<@[1], value>>]

Tree(path) == <<"input", path>>

(* The constructor, as far as the lists of equal keys go. *)
QmcpackNew ==
    LET System == PutIKey(<<<<"simulationcell", "">>>>, 2, "particleset", "")
        Pairs == PutIKey(PutIKey(PutIKey(<<>>, 0, "pairpot", ""), 1, "pairpot", ""), 2, "pairpot", "")
        Moves == PutIKey(PutIKey(PutIKey(<<>>, 0, "parameter", "100"), 1, "parameter", "200"),
                         2, "parameter", "300")
    IN  SetRows(Tree("qmcsystem"), System \o <<<<"wavefunction", "">>, <<"hamiltonian", "">>>>)
        \o SetRows(Tree("hamiltonian"), Pairs)
        \o SetRows(Tree("qmc"), Moves)

(* get_xyz renders the steps, run only hands them over: what is put in     *)
(* between is missing from the script.                                     *)
QmcpackXyz(s) == TakesXyz(s) \o <<ClearSteps, AppendStep("qmcpack.in")>>

-----------------------------------------------------------------------------
(* The classes: what the constructor sets, what get_xyz adds and the       *)
(* file that run writes anew.                                              *)
Printing(file, new) == [file |-> file, new |-> new]

Gaussian ==
    Printing("gaussian.gjf", <<SetWords(<<"keywords", "!">>, <<"b3lyp/6-31g(d)">>)>>)

Orca ==
    Printing("orca.inp", <<SetWords(<<"keywords", "!">>, <<"HF", "6-31+G(d,p)", "AUTOAUX">>)>>)

OrcaXyz(s) ==
    TakesXyz(s)
    \o <<Forget(<<"%coords", "data">>)>>
    \o SetRows(<<"%coords", "data">>,
               <<<<"CTyp xyz">>, <<"Charge 0">>, <<"Units Angs">>, <<"coords">>>>
               \o AtomRows(s) \o <<<<"end">>>>)

QChem ==
    Printing("qchem.inp",
             SetRows(<<"$rem", "data">>,
                     <<<<"METHOD HF">>, <<"BASIS 6-31g**">>, <<"SOLVENT_METHOD Onsager">>>>))

(* The stream the atoms are written to is never emptied: each line states  *)
(* all the atoms so far, charge and multiplicity first.                    *)
QChemLine(s, n) == <<"0 1 and the first " \o ToString(n) \o " atoms of " \o s>>

QChemXyz(s) ==
    TakesXyz(s)
    \o <<Forget(<<"$molecule", "data">>)>>
    \o SetRows(<<"$molecule", "data">>,
               [n \in 1..AtomsOf(s) |-> QChemLine(s, n)])

Exciting ==
    Printing("exciting.in",
             Settings("input", <<<<"title", "Exciting Calculation">>,
                                 <<"groundstate CoreRelativity", "dirac">>,
                                 <<"groundstate autokpt", "true">>, <<"solver type", "Lapack">>>>))

Qmcpack == Printing("qmcpack.in", QmcpackNew)

Xtb == Printing("xtb.inp", <<>>)

DftbPlus == Printing("dftbplus.in", <<>>)

Dalton == Printing("DALTON.INP", <<>>)

Lammps == Printing("lammps.in", <<>>)

Gromacs == Printing("gromacs.in", <<>>)

Class ==
    [gaussian |-> Gaussian, orca |-> Orca, qchem |-> QChem, exciting |-> Exciting,
     qmcpack |-> Qmcpack, xtb |-> Xtb, dftbplus |-> DftbPlus, dalton |-> Dalton,
     lammps |-> Lammps, gromacs |-> Gromacs]

New(program, calc) == Class[program].new

GetXyz(program, s) ==
    CASE program = "orca" -> OrcaXyz(s)
      [] program = "qchem" -> QChemXyz(s)
      [] program = "qmcpack" -> QmcpackXyz(s)
      [] OTHER -> TakesXyz(s)

Run(program, calc, doc) ==
    IF program = "qmcpack" THEN <<JobRun>>
    ELSE <<ClearSteps, AppendStep(Class[program].file), JobRun>>

Text(program, step) ==
    LET doc == step.doc IN [at \in {p \in DOMAIN doc : p[1] # "job"} |-> doc[at].rows]

-----------------------------------------------------------------------------
(* The commands.  All but Dalton's read --xyz before the common options,   *)
(* and again with them: --cif raises.  --calc md has no branch but in the  *)
(* dynamical programs; the branch for an unknown calculation uses sys,     *)
(* which is not imported.                                                  *)
XyzFirst(line, program) ==
    <<IF line.calc \in {"static", "opt"} \/ program \in Dynamical
      THEN New(program, line.calc) ELSE <<Raises>>,
      IF line.form = "xyz" THEN GetXyz(program, Crystal) ELSE <<Raises>>,
      Common(line, GetXyz(program, Crystal))>>

GaussianCommands(line) == XyzFirst(line, "gaussian")

XtbCommands(line) == XyzFirst(line, "xtb")

ExcitingCommands(line) == XyzFirst(line, "exciting")

DftbPlusCommands(line) == XyzFirst(line, "dftbplus")

LammpsCommands(line) == XyzFirst(line, "lammps")

GromacsCommands(line) == XyzFirst(line, "gromacs")

QmcpackCommands(line) == XyzFirst(line, "qmcpack")

OrcaCommands(line) == XyzFirst(line, "orca")

(* opt reads args.runopt, an option the parser does not have. *)
QChemCommands(line) ==
    IF line.calc # "opt" THEN XyzFirst(line, "qchem")
    ELSE <<New("qchem", "opt"),
           IF line.form = "xyz" THEN GetXyz("qchem", Crystal) ELSE <<Raises>>,
           <<Raises>>>>

DaltonCommands(line) ==
    <<IF line.calc \in {"static", "opt"} THEN New("dalton", line.calc) ELSE <<Raises>>,
      Common(line, GetXyz("dalton", Crystal))>>

Commands(program, line) ==
    CASE program = "gaussian" -> GaussianCommands(line)
      [] program = "xtb" -> XtbCommands(line)
      [] program = "exciting" -> ExcitingCommands(line)
      [] program = "dftbplus" -> DftbPlusCommands(line)
      [] program = "lammps" -> LammpsCommands(line)
      [] program = "gromacs" -> GromacsCommands(line)
      [] program = "qmcpack" -> QmcpackCommands(line)
      [] program = "orca" -> OrcaCommands(line)
      [] program = "qchem" -> QChemCommands(line)
      [] program = "dalton" -> DaltonCommands(line)
=============================================================================
