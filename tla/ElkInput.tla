------------------------------ MODULE ElkInput ------------------------------
(***************************************************************************)
(* Elk's elk.in: blocks of named values at <<block, key>>, a block of one  *)
(* value at <<key, key>>; the classes of the calculations and the          *)
(* command's calls.                                                        *)
(***************************************************************************)
EXTENDS Keywords

Calcs == {"static", "opt", "vcopt", "band", "phonon", "dos", "phonopy"}
PathCalcs == {"band", "phonon"}

Alone(pairs) == [n \in DOMAIN pairs |-> SetParam(pairs[n][1], pairs[n][1], <<pairs[n][2]>>)]

-----------------------------------------------------------------------------
CppElk ==
    <<SetParam("tasks", "tasks", <<"-11">>), SetParam("ngridk", "ngridk", <<"1", "1", "1">>),
      SetParam("sppath", "sppath", <<"${ASF_CMD_ELK_SPPATH}/">>)>>

Basis(spinpol) ==
    Alone(<<<<"spinpol", spinpol>>, <<"epspot", "1e-06">>, <<"mixtype", "3">>,
            <<"xctype", "20">>, <<"lmaxapw", "8">>, <<"stype", "3">>, <<"epsengy", "1e-05">>>>)
    \o <<SetParam("ngridk", "ngridk", <<"3", "3", "3">>)>>

OfClass(calc) ==
    CASE calc \in {"opt", "vcopt"} ->
            Alone(<<<<"tasks", "2">>, <<"latvopt", IF calc = "opt" THEN "0" ELSE "1">>>>)
      [] calc = "phonopy" ->
            <<SetParam("job", "phonopy_dim", <<"1">>)>>
            \o Alone(<<<<"tforce", ".ture.">>>>) \o Basis(".false.")
      [] OTHER -> <<>>

New(calc) == CppElk \o Basis(".true.") \o OfClass(calc)

(* get_xyz: the atoms are a block of their own, by species; as many        *)
(* positions are printed as the last file had (natoms).                    *)
GetXyz(s) ==
    TakesXyz(s)
    \o Alone(<<<<"scale", "1">>>>)
    \o <<SetParam("avec", "avec", Cell(s)),
         SetParam("atoms", "nspecies", <<NumberOfElements>>),
         SetParam("atoms", "atposl", Atoms(s))>>

MaxStops == 9 \* bound: stops of a path

Stop(n) == "vvlp1d(" \o ToString(n) \o ")"

(* set_kpath: neither labels nor links are kept; entries of a longer path  *)
(* stay in the block, past nvp1d.                                          *)
SetPath(path) ==
    <<SetParam("plot1d", "nvp1d", <<ToString(Len(path))>>),
      SetParam("plot1d", "npp1d", <<"100">>)>>
    \o [n \in DOMAIN path |-> SetParam("plot1d", Stop(n - 1), <<"at " \o path[n].label>>)]

(* An item of --custom or a line of --custom-file; both cut at commas.     *)
Custom(item, file) ==
    <<SetParam(IF item.group = "" THEN item.key ELSE item.group, item.key, item.rows[1])>>

-----------------------------------------------------------------------------
(* to_string knows the shape of these blocks and reads every value it      *)
(* needs; a value that was never set is read all the same.                 *)
Shape ==
    [atoms |-> {"nspecies"},
     plot1d |-> {"nvp1d", "npp1d"},
     plot2d |-> {"vclp2d(0)", "vclp2d(1)", "vclp2d(2)", "np2d"},
     plot3d |-> {"vclp3d(0)", "vclp3d(1)", "vclp3d(2)", "vclp3d(3)", "np3d"},
     mommtfix |-> {"is", "ia", "mommtfix"}, phwrite |-> {"nphwrt"}, pulse |-> {"n"},
     ramp |-> {"n"}, tasks |-> {"tasks"}, tm3fix |-> {"ntmfix"},
     wplot |-> {"nwplot", "ngrkf", "nswplot", "wplot"}, xctype |-> {"xctype"}]
    @@ ("dft+u" :> {"dftu", "inpdftu", "is", "l", "u", "j"})

BlockNames(doc) == {at[1] : at \in DOMAIN doc}

Misshapen(doc) ==
    \E name \in BlockNames(doc) \cap DOMAIN Shape :
        /\ Has(doc, <<name, "">>) => doc[<<name, "">>].on
        /\ \E key \in Shape[name] : ~ Has(doc, <<name, key>>)

(* Phonopy switches the structure's blocks off for the part it puts the   *)
(* supercells to, and never on again.                                      *)
PhonopyRun ==
    <<AppendStep("elk.in"), TurnOff(<<"atoms", "">>), TurnOff(<<"avec", "">>),
      AppendStep("elk-input-part-1.in"), AppendStep("phonopy -d"), AppendStep("cat"),
      AppendStep("run"), JobRun>>

Run(calc, doc) ==
    IF Misshapen(doc) THEN <<Fails("undefined")>>
    ELSE IF calc = "phonopy" THEN PhonopyRun
    ELSE <<ClearSteps, AppendStep("elk.in"), JobRun>>

(* Of a path only the first nvp1d entries are printed. *)
Prints(doc, at) ==
    /\ at[1] \notin {"job", "self"}
    /\ at[2] # ""
    /\ IsOn(doc, at)
    /\ at[1] = "plot1d" /\ at[2] \notin {"nvp1d", "npp1d"} =>
           \E n \in 1..MaxStops :
               /\ FirstWord(doc, <<"plot1d", "nvp1d">>) = ToString(n)
               /\ at[2] \in {Stop(m) : m \in 0..(n - 1)}

Text(step) == [at \in {p \in DOMAIN step.doc : Prints(step.doc, p)} |-> step.doc[at].rows]

Commands(line) ==
    <<New(line.calc)>>
    \o When(line.calc \in PathCalcs, <<PathCall(line, SetPath)>>)
    \o <<Common(line, GetXyz(Crystal))>>
    \o [n \in DOMAIN line.file |-> Custom(line.file[n], TRUE)]
    \o [n \in DOMAIN line.custom |-> Custom(line.custom[n], FALSE)]
=============================================================================
