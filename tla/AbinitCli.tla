----------------------------- MODULE AbinitCli -----------------------------
(***************************************************************************)
(* Users of the ABINIT calculator.  Either a script, which makes the calls *)
(* of AbinitDatasets in any order, or one execution of                     *)
(*     atomsciflow calc abinit --calc C --pot P --custom K=V;...           *)
(* which constructs the Python class of the calculation, a subclass of     *)
(* Abinit or Phonopy, and makes its calls in a fixed order.                *)
(***************************************************************************)
EXTENDS AbinitDatasets

CONSTANTS
    Customs,     \* values of --custom: sequences of <<keyword, dataset>> pairs
    ScriptKeys,  \* keywords that a script sets
    ScriptNdtset, \* bound: values a script gives to set_ndtset
    ScriptCalls  \* bound: calls of a script

(* The keywords that the classes set belong to the groups of the source.   *)
ClassKeys == {"ecut", "occopt", "nstep", "diemac", "ixc", "ionmov", "optcell", "ntime",
              "tolmxf", "tolmxde", "ecutsm", "dilatmx", "dtion", "mdtemp", "ngkpt", "prtden",
              "getwfk", "kptopt", "iscf", "rfelfd", "rfdir", "nqpt", "qpt", "getddk", "rfphon",
              "rfatpol", "rfstrs", "", "getden", "kptbounds", "ndivk", "prtdos", "prtdosm",
              "tolvrs", "tolwfr"}

ASSUME CliAssumption ==
    /\ {"tolvrs", "tolwfr"} \subseteq Tols
    /\ ClassKeys \subseteq Keys
    /\ Customs \subseteq Seq(Keys \X (0..(MaxNdtset + 1)))
    /\ ScriptKeys \subseteq Keys \cup KpointKeys
    /\ ScriptNdtset \in 0..MaxNdtset
    /\ MaxNdtset >= 3

VARIABLES
    calc,      \* --calc, or "script"
    custom,    \* --custom
    todo       \* calls still to be made, a sequence of commands

cliVars == <<vars, calc, custom, todo>>

Set(k, i) == [op |-> "set_param", key |-> k, n |-> i]
Tol(t, i) == [op |-> "use_tol", key |-> t, n |-> i]
Datasets(m) == [op |-> "set_ndtset", key |-> "none", n |-> m]

SetEach(keys, i) == [j \in DOMAIN keys |-> Set(keys[j], i)]

-----------------------------------------------------------------------------
(* The constructors of the Python classes, as the calls they make after    *)
(* the constructor of the C++ class.                                       *)
PyAbinit == SetEach(<<"ecut", "occopt", "nstep", "diemac", "ixc">>, 0) \o <<Tol("tolvrs", 0)>>

Opt == PyAbinit \o SetEach(<<"ionmov", "optcell", "ntime", "tolmxf", "tolmxde">>, 0)

VcOpt == Opt \o SetEach(<<"ecutsm", "dilatmx">>, 0)

MD == PyAbinit \o SetEach(<<"ionmov", "dtion", "ntime", "mdtemp", "tolmxf">>, 0)

DfptElasticPiezoDielec ==
    <<Datasets(3)>>
    \o SetEach(<<"tolvrs", "ngkpt">>, 1)
    \o SetEach(<<"tolwfr", "prtden", "getwfk", "kptopt", "ngkpt", "iscf",
                 "rfelfd", "rfdir", "nqpt", "qpt">>, 2)
    \o SetEach(<<"tolvrs", "kptopt", "ngkpt", "getddk", "getwfk", "nqpt", "qpt",
                 "rfphon", "rfelfd", "rfatpol", "rfdir", "rfstrs">>, 3)

(* What Band and Dos do alike: two datasets, the scf one and its defaults. *)
ScfDatasetsOf(m) ==
    PyAbinit \o <<Datasets(m)>>
    \o SetEach(<<"iscf", "prtden", "", "kptopt", "ngkpt">>, 0) \o <<Tol("tolvrs", 0)>>
    \o SetEach(<<"iscf", "prtden", "ngkpt">>, 1) \o <<Tol("tolvrs", 1)>>

Band ==
    ScfDatasetsOf(2) \o SetEach(<<"iscf", "getwfk", "getden">>, 2) \o <<Tol("tolwfr", 2)>>
    \o SetEach(<<"kptbounds", "kptopt", "ndivk">>, 2)

Dos ==
    ScfDatasetsOf(2) \o SetEach(<<"iscf", "prtdos", "prtdosm", "getwfk", "getden">>, 2)
    \o <<Tol("tolvrs", 2)>>

Constructor(c) ==
    CASE c = "static"   -> PyAbinit
      [] c = "opt"      -> Opt
      [] c = "vcopt"    -> VcOpt
      [] c = "md"       -> MD
      [] c = "phonopy"  -> <<>>
      [] c = "dfpt-epd" -> DfptElasticPiezoDielec
      [] c = "band"     -> Band
      [] c = "dos"      -> Dos

Calcs == {"static", "opt", "vcopt", "md", "phonopy", "dfpt-epd", "band", "dos"}

Order == <<[op |-> "set_pot", key |-> "none", n |-> 0],
           [op |-> "get_xyz", key |-> "none", n |-> 0]>>

(* All the calls of a command, with those of --custom before run().        *)
Commands(c, parameters) ==
    Constructor(c) \o Order
    \o [j \in DOMAIN parameters |-> Set(parameters[j][1], parameters[j][2])]

-----------------------------------------------------------------------------
CommandInit ==
    /\ calc \in Calcs
    /\ class = IF calc = "phonopy" THEN "Phonopy" ELSE "Abinit"
    /\ custom \in Customs
    /\ todo = Commands(calc, custom)

ScriptInit == calc = "script" /\ custom = <<>> /\ todo = <<>>

CliInit == Init /\ (CommandInit \/ ScriptInit)

Doing(op) ==
    /\ todo # <<>>
    /\ Head(todo).op = op
    /\ todo' = Tail(todo)
    /\ UNCHANGED <<calc, custom>>

DoSetParam == Doing("set_param") /\ SetParam(Head(todo).key, Head(todo).n)
DoUseTol == Doing("use_tol") /\ UseTol(Head(todo).key, Head(todo).n)
DoSetNdtset == Doing("set_ndtset") /\ SetNdtset(Head(todo).n)
DoSetPot == Doing("set_pot") /\ \E pot \in Pots : SetPot(pot)
DoGetXyz == Doing("get_xyz") /\ \E file \in Structures : GetXyz(file)

DoRun ==
    /\ calc # "script"
    /\ todo = <<>>
    /\ runs = 0
    /\ Run \/ RunPhonopy
    /\ UNCHANGED <<calc, custom, todo>>

(* A call of a script: one of AbinitDatasets' with fewer keywords.         *)
ScriptCall ==
    \/ \E k \in ScriptKeys \ KpointKeys, i \in 0..(ScriptNdtset + 1) : SetParam(k, i)
    \/ \E k \in ScriptKeys \cap KpointKeys, i \in 0..(ScriptNdtset + 1) : SetKpoints(k, i)
    \/ \E t \in ScriptKeys \cap Tols, i \in 0..ScriptNdtset : UseTol(t, i)
    \/ \E m \in 0..ScriptNdtset : SetNdtset(m)
    \/ \E pot \in Pots : SetPot(pot)
    \/ \E file \in Structures : GetXyz(file)
    \/ Run
    \/ RunPhonopy

Scripted ==
    /\ calc = "script"
    /\ calls < ScriptCalls
    /\ ScriptCall
    /\ UNCHANGED <<calc, custom, todo>>

CliNext == \/ Scripted \/ DoSetParam \/ DoUseTol \/ DoSetNdtset \/ DoSetPot \/ DoGetXyz
           \/ DoRun

CliSpec == CliInit /\ [][CliNext]_cliVars

-----------------------------------------------------------------------------
(* The calls j of cs whose keyword a later use_tol switches off.           *)
SwitchedOff(cs, j) ==
    /\ cs[j].key \in Tols
    /\ \E l \in (j + 1)..Len(cs) :
           cs[l].op = "use_tol" /\ cs[l].n = cs[j].n /\ cs[l].key # cs[j].key

(* An input that a command has written holds every keyword that the        *)
(* constructor of its class or --custom gave to a dataset, by set_param or *)
(* by use_tol, with the number of this dataset, except a tolerance that a  *)
(* later use_tol switched off, and the keywords of the dfpt group, which   *)
(* is never enabled.  abinit_processor makes these calls and Abinit::run   *)
(* prints the datasets up to ndtset.                                       *)
SettingsReachInput ==
    (abi.ran /\ calc # "script") =>
        LET cs == Commands(calc, custom)
        IN  \A j \in DOMAIN cs :
                cs[j].op \in {"set_param", "use_tol"} /\ cs[j].key \notin Dfpt
                /\ ~SwitchedOff(cs, j) => [n |-> cs[j].n, key |-> cs[j].key] \in abi.lines
=============================================================================
