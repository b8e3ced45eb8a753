------------------------------ MODULE Cp2kCli ------------------------------
(***************************************************************************)
(* Users of the CP2K calculator.  Either a script, which constructs a      *)
(* Python class and calls it as it likes, or the command                   *)
(*     atomsciflow calc cp2k --calc C --xyz S --kpath K --images I         *)
(*         --custom-file F --custom P=V;...                                *)
(* which constructs the class of the calculation and makes a fixed         *)
(* sequence of calls.                                                      *)
(***************************************************************************)
EXTENDS Cp2kSections

CONSTANTS
    Customs,     \* values of --custom and files of --custom-file: sequences
                 \* of records [path, key, value]
    ScriptClasses, \* the classes scripts construct
    ScriptCalls  \* bound: calls a script makes

VARIABLES
    args,        \* the arguments of the command
    plan         \* the calls the command has still to make

cliVars == <<vars, args, plan>>

-----------------------------------------------------------------------------
(* What the constructors of the classes set. *)
Sec(names) == [i \in DOMAIN names |-> [name |-> Plain(names[i]), arg |-> ""]]
Set(names, keys) == {[path |-> Sec(names), key |-> k] : k \in keys}
Made(path) == {[path |-> path, key |-> ""]}
On(name) == <<[name |-> Plain(name), arg |-> "on"]>>

CppCp2k ==
    Set(<<"global">>, {"project", "print_level", "run_type"})
    \cup Set(<<"force_eval">>, {"method"})
    \cup Set(<<"force_eval", "dft">>, {"basis_set_file_name", "potential_file_name"})
    \cup Set(<<"force_eval", "dft", "qs">>, {"eps_default"})
    \cup Set(<<"force_eval", "dft", "mgrid">>, {"ngrids", "cutoff", "rel_cutoff"})
    \cup Made(Sec(<<"force_eval", "dft", "xc">>)
              \o <<[name |-> Plain("xc_functional"), arg |-> "pbe"]>>)
    \cup Set(<<"force_eval", "dft", "scf">>, {"scf_guess", "eps_scf", "max_scf"})
    \cup Set(<<"force_eval", "dft", "scf", "diagonalization">>, {"algorithm"})
    \cup Set(<<"force_eval", "dft", "scf", "mixing">>, {"method", "alpha", "nbroyden"})
    \cup Made(Sec(<<"force_eval", "dft", "print">>))

CppPhonopy == CppCp2k \cup Set(<<"force_eval">>, {"stress_tensor"})

CppNeb ==
    CppCp2k
    \cup Set(<<"motion", "band">>, {"band_type", "k_spring", "rotate_frames"})
    \cup {[path |-> Sec(<<"motion", "band">>) \o On(name) \o Sec(<<"each">>), key |-> "band"] :
              name \in {"convergence_info", "energy"}}
    \cup Set(<<"motion", "band", "optimize_band", "diis">>, {"max_steps"})
    \cup Set(<<"motion", "band", "program_run_info">>, {"initial_configuration_info"})
    \cup Set(<<"motion", "print", "trajectory", "each">>, {"band"})

PyCp2k == CppCp2k \cup Set(<<"force_eval", "dft", "qs">>, {"extrapolation"})

MoCubes ==
    Set(<<"force_eval", "dft", "print", "mo_cubes">>, {"nlumo", "nhomo", "write_cube"})

PyBand ==
    PyCp2k \cup MoCubes
    \cup Set(<<"force_eval", "dft", "print", "band_structure">>, {"file_name", "added_mos"})

PyDos == PyCp2k \cup Set(<<"force_eval", "dft", "print", "pdos">>, {"nlumo", "components"})

PyStatic ==
    PyBand \cup PyDos
    \cup Set(<<"force_eval", "dft", "print", "mo">>, {"eigenvalues", "occupation_numbers"})

PyOpt ==
    PyCp2k
    \cup Set(<<"motion", "geo_opt">>, {"max_iter", "optimizer", "rms_force", "rms_dr"})
    \cup Set(<<"motion", "print", "cell", "each">>, {"geo_opt"})

PyVcOpt ==
    PyOpt
    \cup Set(<<"force_eval">>, {"stress_tensor"})
    \cup Set(<<"motion", "cell_opt">>,
             {"type", "pressure_tolerance", "keep_angles", "keep_symmetry", "max_iter",
              "optimizer", "rms_dr", "rms_force"})
    \cup Set(<<"motion", "geo_opt">>, {"type"})
    \cup Set(<<"motion", "print", "trajectory", "each">>, {"cell_opt"})

PyVib ==
    PyCp2k
    \cup {[path |-> Sec(<<"vibrational_analysis", "print">>) \o On("molden_vib") \o Sec(<<"each">>),
           key |-> "replica_eval"]}
    \cup Set(<<"vibrational_analysis">>, {"dx"})

PyMD ==
    PyCp2k
    \cup Set(<<"motion", "md">>, {"ensemble", "timestep", "steps", "temperature"})
    \cup Set(<<"motion", "md", "thermostat">>, {"type", "region"})
    \cup Set(<<"motion", "md", "thermostat", "nose">>, {"timecon"})

PyMetaMD ==
    PyMD \cup Set(<<"motion", "free_energy", "metadyn">>, {"delta_t", "do_hills", "nt_hills"})

PyMetaMDPlumed ==
    PyMD \cup Set(<<"motion", "free_energy", "metadyn">>, {"use_plumed", "plumed_input_file"})

PyNeb == CppNeb \cup PyCp2k

Cp2kClasses ==
    [Scf |-> PyCp2k, Static |-> PyStatic, Band |-> PyBand, Dos |-> PyDos, Opt |-> PyOpt,
     VcOpt |-> PyVcOpt, Vib |-> PyVib, MD |-> PyMD, MetaMD |-> PyMetaMD,
     MetaMDPlumed |-> PyMetaMDPlumed, Phonopy |-> CppPhonopy, Neb |-> PyNeb]

-----------------------------------------------------------------------------
(* cp2k_processor *)
PrintLevel(value) == [path |-> Sec(<<"global">>), key |-> "print_level", value |-> value]

(* The dict that --custom is parsed into holds a print level from the      *)
(* start; a parameter keeps its first place and its last value.            *)
Param(item) == <<item.path, item.key>>

Dict(items) ==
    LET first(i) == \A j \in 1..(i - 1) : Param(items[j]) # Param(items[i])
        places == Only([i \in DOMAIN items |-> i], {i \in DOMAIN items : first(i)})
        same(i) == {j \in DOMAIN items : Param(items[j]) = Param(items[i])}
        last(i) == CHOOSE j \in same(i) : \A k \in same(i) : k <= j
    IN  [n \in DOMAIN places |-> items[last(places[n])]]

(* What --custom and --custom-file may say: every parameter in a section.  *)
Assignments == [path: Path \ {<<>>}, key: STRING, value: Seq(STRING)]

ASSUME CliAssumption ==
    /\ Customs \subseteq Seq(Assignments)
    /\ PrintLevel(<<"LOW">>) \in Assignments

GivenItems ==
    {PrintLevel(<<"LOW">>)} \cup UNION {{items[i] : i \in DOMAIN items} : items \in Customs}

(* They write a parameter in one way, with the same arguments on its path; *)
(* they leave k-point sets and structure to the other options.             *)
OneSpelling ==
    \A x, y \in GivenItems :
        Names(x.path) = Names(y.path) /\ x.key = y.key => x.path = y.path

OthersAreLeft == \A x \in GivenItems : LeavesKpoints(x.path) /\ LeavesStructure(x.path)

Setting(items) == [n \in DOMAIN items |-> [op |-> "set_param", arg |-> items[n]]]

\* A mutant of Commands.
CommandsXyzLast(a) ==
    Setting(a.file)
    \o Setting(Dict(<<PrintLevel(<<"LOW">>)>> \o a.custom))
    \o <<[op |-> "get_xyz", arg |-> a.xyz]>>

(* The calls after the constructor and before run. *)
Commands(a) ==
    <<[op |-> "get_xyz", arg |-> a.xyz]>>
    \o Setting(a.file)
    \o Setting(Dict(<<PrintLevel(<<"LOW">>)>> \o a.custom))

(* The calls of a calculation; --kpath and --images have no default that   *)
(* set_kpoint_set or set_images could use: without them Python raises.     *)
Plan(calc, a) ==
    (IF calc \in {"Static", "Band"}
     THEN <<[op |-> IF a.kpath = <<>> THEN "raise" ELSE "set_kpoint_set", arg |-> a.kpath]>>
     ELSE IF calc = "Neb"
     THEN <<[op |-> IF a.images = <<>> THEN "raise" ELSE "set_images", arg |-> a.images]>>
     ELSE <<>>)
    \o Commands(a) \o <<[op |-> "run", arg |-> <<>>]>>

NoArgs == [script |-> TRUE, custom |-> <<>>, file |-> <<>>]

\* The arguments that matter for a calculation.
CommandLines(calc) ==
    [script: {FALSE}, custom: Customs, file: Customs, xyz: Structures,
     kpath: IF calc \in {"Static", "Band"} THEN Kpaths \cup {<<>>} ELSE {<<>>},
     images: IF calc = "Neb" THEN ImageLists \cup {<<>>} ELSE {<<>>}]

CliInit ==
    /\ Init
    /\ \/ class \in ScriptClasses /\ args = NoArgs /\ plan = <<>>
       \/ args \in CommandLines(class) /\ plan = Plan(class, args)

Scripted ==
    /\ args.script
    /\ calls < ScriptCalls
    /\ Next
    /\ UNCHANGED <<args, plan>>

Raise == /\ plan' = <<>>
         /\ UNCHANGED <<vars, args>>

Commanded ==
    /\ plan # <<>>
    /\ LET call == Head(plan) IN
        \/ call.op = "raise" /\ Raise
        \/ /\ \/ call.op = "set_kpoint_set" /\ SetKpointSet(call.arg)
              \/ call.op = "set_images" /\ SetImages(call.arg)
              \/ call.op = "get_xyz" /\ GetXyz(call.arg)
              \/ call.op = "set_param" /\ SetParam(call.arg.path, call.arg.key, call.arg.value)
              \/ call.op = "run" /\ Run
           /\ plan' = Tail(plan)
           /\ args' = args

CliNext == Scripted \/ Commanded

CliSpec == CliInit /\ [][CliNext]_cliVars

-----------------------------------------------------------------------------
Prints(item) ==
    /\ Names(item.path) \in DOMAIN input
    /\ item.key \in DOMAIN input[Names(item.path)].params
    /\ input[Names(item.path)].params[item.key] = item.value

LastOf(items, i) == \A j \in (i + 1)..Len(items) : Param(items[j]) # Param(items[i])

(* "The privilege of --custom is higher than --custom-file": the input has *)
(* every parameter of --custom, with the value given last.                 *)
LineReachesInput ==
    (~ args.script /\ input # <<>>) =>
        \A i \in DOMAIN args.custom : LastOf(args.custom, i) => Prints(args.custom[i])

(* The input has the parameters of --custom-file that --custom does not    *)
(* name; the print level is lost, for the dict of --custom begins with it. *)
CustomFileReachesInput ==
    (~ args.script /\ input # <<>>) =>
        \A i \in DOMAIN args.file :
            \/ ~ LastOf(args.file, i)
            \/ \E j \in DOMAIN args.custom : Param(args.custom[j]) = Param(args.file[i])
            \/ Param(args.file[i]) = Param(PrintLevel(<<>>))
            \/ Prints(args.file[i])

(* What the user sets on the command line or in its file is in the input.  *)
CustomReachesInput == LineReachesInput /\ CustomFileReachesInput
=============================================================================
