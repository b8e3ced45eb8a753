----------------------------- MODULE PostRules -----------------------------
(***************************************************************************)
(* The rules by which the post-processing classes of atomsciflow pick      *)
(* values out of a program's output, and the tree they put them into.      *)
(*                                                                         *)
(* A line of output is [line |-> kind, of |-> what it tells about].  The   *)
(* patterns of one class are disjoint: a kind of line is named after the   *)
(* pattern that finds it, its blanks written _.  The tree is an ordered    *)
(* multimap, a sequence of entries [key |-> name, val |-> sequence of      *)
(* values].                                                                *)
(***************************************************************************)
EXTENDS Integers, Sequences, SequencesExt

Threads == 1..4

-----------------------------------------------------------------------------
(* The property tree. *)
First(info, key) == SelectInSeq(info, LAMBDA e : e.key = key)

Put(info, key, value) ==
    IF First(info, key) = 0
    THEN Append(info, [key |-> key, val |-> <<value>>])
    ELSE [info EXCEPT ![First(info, key)].val = <<value>>]

AddChild(info, key) == Append(info, [key |-> key, val |-> <<>>])

Push(info, key, value) ==
    [info EXCEPT ![First(info, key)].val = Append(@, value)]

(* A rule: the lines it matches and what it then does to the tree, under   *)
(* its keys or, when it names none, under the text that matched.  "renew"  *)
(* adds a child of that name once more and pushes three values, which      *)
(* get_child sends to the first child of that name.                        *)
Rule(lines, how, keys) == [lines |-> lines, how |-> how, keys |-> keys]
Puts(line, keys) == Rule({line}, "put", keys)
Pushes(line, keys) == Rule({line}, "push", keys)
Renews(line) == Rule({line}, "renew", <<>>)
Scalar(line) == Rule({line}, "put", <<>>)
List(line) == Rule({line}, "push", <<>>)

No == <<0, 0>>
Yes == <<0, 1>>

(* What a rule writes: the value its line tells, or the word "true". *)
Value(line) == IF line.line = "minimum" THEN Yes ELSE line.of

Write(info, how, key, value) ==
    CASE how = "put" -> Put(info, key, value)
      [] how = "push" -> Push(info, key, value)
      [] how = "renew" -> Push(Push(Push(AddChild(info, key), key, value),
                                    key, value), key, value)

ApplyRule(info, rule, line) ==
    FoldLeft(LAMBDA tree, key : Write(tree, rule.how, key, Value(line)), info,
             IF rule.keys = <<>> THEN <<line.line>> ELSE rule.keys)

ApplyRules(info, rules, line) ==
    FoldLeft(LAMBDA tree, rule : IF line.line \in rule.lines
                                 THEN ApplyRule(tree, rule, line) ELSE tree,
             info, rules)

-----------------------------------------------------------------------------
(* Every line is given to four threads, each of which applies a range of   *)
(* the rules: n/4 of them, and one more for the first n%4 threads.         *)

\* A mutant of Share.
ShareNoRemainder(n, t) == n \div 4

Share(n, t) == IF t <= n % 4 THEN n \div 4 + 1 ELSE n \div 4

Before(n, t) == (t - 1) * (n \div 4) + (IF t - 1 < n % 4 THEN t - 1 ELSE n % 4)

Partition(n, t) == Before(n, t) + 1 .. Before(n, t) + Share(n, t)

RulesOf(rules, t) ==
    SubSeq(rules, Before(Len(rules), t) + 1,
           Before(Len(rules), t) + Share(Len(rules), t))

-----------------------------------------------------------------------------
(* The tables.  A class is its rules, the tree its constructor leaves, the *)
(* lines that its program prints (external), and what its run() reads      *)
(* after the rules have been applied.                                      *)

ClockTimes == Rule({"STARTED_AT", "ENDED_AT"}, "put", <<>>)

Cp2kOpt ==
    [rules |-> <<ClockTimes, Scalar("Mixing_method:"), Scalar("eps_scf:"),
                 Scalar("eps_diis:"), List("ENERGY|_Total"), List("SCF_run_converged_in"),
                 Puts("minimum", <<"optimized">>)>>,
     lists |-> <<"ENERGY|_Total", "SCF_run_converged_in">>,
     head |-> <<"STARTED_AT", "eps_scf:">>,
     step |-> <<"SCF_run_converged_in", "ENERGY|_Total">>,
     converged |-> <<"minimum", "ENDED_AT">>,
     after |-> <<"pos", "cell">>]

Cp2kVcOpt ==
    [rules |-> <<ClockTimes, Scalar("Mixing_method:"), Scalar("eps_scf:"),
                 Scalar("eps_diis:"), List("ENERGY|_Total"), List("SCF_run_converged_in"),
                 Puts("minimum", <<"optimized">>)>>,
     lists |-> <<"ENERGY|_Total", "SCF_run_converged_in">>,
     head |-> <<"STARTED_AT", "eps_diis:">>,
     step |-> <<"SCF_run_converged_in", "ENERGY|_Total">>,
     converged |-> <<"minimum", "ENDED_AT">>,
     after |-> <<"pos", "cell">>]

Cp2kMd ==
    [rules |-> <<ClockTimes, Scalar("THERMOSTAT|_Type_of_thermostat"),
                 Scalar("MD_VEL|_Initial_temperature_[K]"), Renews("MD_VEL|_COM_velocity"),
                 Scalar("Mixing_method:"), Scalar("eps_scf:"), Scalar("eps_diis:"),
                 Scalar("MD_PAR|_Ensemble_type"), Scalar("MD_PAR|_Number_of_time_steps"),
                 Scalar("MD_PAR|_Time_step_[fs]"), Renews("ROT|_Eigenvalues"),
                 Renews("ROT|_x"), Renews("ROT|_y"), Renews("ROT|_z"),
                 Scalar("DOF|_Degrees_of_freedom"), List("ENERGY|_Total"),
                 List("SCF_run_converged_in"), List("MD|_Time_[fs]"),
                 Pushes("MD|_Temperature_[K]",
                        <<"Instantaneous_Temperature", "Average_Temperature">>),
                 Pushes("MD|_Kinetic_energy_[hartree]",
                        <<"Instantaneous_Kinetic", "Average_Kinetic">>)>>,
     lists |-> <<"ENERGY|_Total", "SCF_run_converged_in", "MD|_Time_[fs]",
                 "Instantaneous_Temperature", "Average_Temperature",
                 "Instantaneous_Kinetic", "Average_Kinetic">>,
     head |-> <<"STARTED_AT", "MD_VEL|_COM_velocity">>,
     step |-> <<"ENERGY|_Total", "MD|_Temperature_[K]">>,
     converged |-> <<"ENDED_AT">>,
     after |-> <<>>]

(* run() reads pw.out a second time, for the structure. *)
QeOpt ==
    [rules |-> <<Puts("starts_on", <<"qe-version", "start-date", "start-time">>),
                 Puts("terminated_on", <<"end-date", "end-time">>),
                 Puts("number_of_atoms/cell", <<"num-atoms-per-cell">>),
                 Puts("lattice_parameter_(alat)", <<"alat">>),
                 Pushes("!_total_energy", <<"energy">>)>>,
     lists |-> <<"energy">>,
     head |-> <<"starts_on", "lattice_parameter_(alat)">>,
     step |-> <<"!_total_energy">>,
     converged |-> <<"End_final_coordinates", "terminated_on">>,
     after |-> <<"out">>]

(* The values of get_extra_info come before those of the rules. *)
ElkOpt ==
    [rules |-> <<Puts("Elk_code_version", <<"elk-version">>),
                 Puts("Total_number_of_threads", <<"threads">>)>>,
     lists |-> <<>>,
     head |-> <<"Elk_code_version">>,
     step |-> <<"loop">>, converged |-> <<>>,
     after |-> <<"geometry">>]

OctopusOpt ==
    [rules |-> <<Puts("Version", <<"octopus-version">>),
                 Puts("Calculation_started_on", <<"start-date", "start-time">>),
                 Puts("Calculation_ended_on", <<"end-date", "end-time">>),
                 Puts("Octopus_will_run_in", <<"dimension">>),
                 Puts("Symmetry_group", <<"symmetry-group">>),
                 Pushes("Energy", <<"energy">>), Pushes("Max_force", <<"max-force">>),
                 Pushes("SCF_converged_in", <<"scf-convergence">>),
                 Pushes("Max_dr", <<"max-dr">>)>>,
     lists |-> <<"energy", "max-force", "scf-convergence", "max-dr">>,
     head |-> <<"Calculation_started_on", "Symmetry_group">>,
     step |-> <<"Energy", "Max_force">>,
     converged |-> <<"Calculation_ended_on">>,
     after |-> <<"min">>]

GamessOpt ==
    [rules |-> <<Puts("GAMESS_VERSION_=", <<"gamessus-version">>),
                 Puts("EXECUTION_OF_GAMESS_BEGUN", <<"start-time", "start-date">>),
                 Pushes("TOTAL_ENERGY_=", <<"energy">>)>>,
     lists |-> <<"energy">>,
     head |-> <<"GAMESS_VERSION_=", "EXECUTION_OF_GAMESS_BEGUN">>,
     step |-> <<"TOTAL_ENERGY_=">>, converged |-> <<>>,
     after |-> <<>>]

NwchemOpt ==
    [rules |-> <<Puts("Northwest_Computational_Chemistry_Package", <<"nwchem-version">>),
                 Puts("date_=", <<"start-time">>),
                 Puts("Total_times_cpu", <<"total-time">>),
                 Pushes("Total_DFT_energy_=", <<"energy">>)>>,
     lists |-> <<"energy">>,
     head |-> <<"Northwest_Computational_Chemistry_Package", "date_=">>,
     step |-> <<"Total_DFT_energy_=">>, converged |-> <<"Total_times_cpu">>,
     after |-> <<>>]

Classes == [opt |-> Cp2kOpt, vcopt |-> Cp2kVcOpt, md |-> Cp2kMd, qe |-> QeOpt,
            elk |-> ElkOpt, octopus |-> OctopusOpt, gamessus |-> GamessOpt,
            nwchem |-> NwchemOpt]

Rules(class) == Classes[class].rules
HasCp2kStructure(class) == class \in {"opt", "vcopt"}

ApplyAll(info, c, line) == ApplyRules(info, Rules(c), line)

(* The tree after the constructor; "optimized" begins as "false". *)
Constructed(class) ==
    [i \in DOMAIN Classes[class].lists |-> [key |-> Classes[class].lists[i], val |-> <<>>]]
    \o (IF HasCp2kStructure(class) THEN <<[key |-> "optimized", val |-> <<No>>]>>
        ELSE <<>>)
=============================================================================
