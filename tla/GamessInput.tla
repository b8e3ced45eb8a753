---------------------------- MODULE GamessInput ----------------------------
(***************************************************************************)
(* GAMESS-US: parameters at <<group, key>>, the atoms of $DATA at          *)
(* <<"data", "atoms">>; the classes of the calculations and the command's  *)
(* calls.                                                                  *)
(***************************************************************************)
EXTENDS Keywords

Calcs == {"static", "opt", "md", "hessian"}
PathCalcs == {}

-----------------------------------------------------------------------------
(* The classes say everything but the type of the run and the multiplicity *)
(* alike.                                                                  *)
Alike(runtyp, mult) ==
    Settings("contrl", <<<<"scftyp", "UHF">>, <<"coord", "unique">>, <<"mult", mult>>,
                         <<"runtyp", runtyp>>, <<"local", "boys">>>>)
    \o Settings("system", <<<<"timlim", "1">>>>)
    \o Settings("basis", <<<<"gbasis", "sto">>, <<"ngauss", "2">>>>)
    \o Settings("guess", <<<<"guess", "huckel">>>>)

Static == Alike("gradient", "3")

Opt == Alike("optimize", "1")

(* Hessian's type of run is "md", too. *)
New(calc) ==
    CASE calc = "static" -> Static
      [] calc = "opt" -> Opt
      [] calc = "md" ->
            Alike("md", "1")
            \o Settings("md", <<<<"mdint", "VVERLET">>, <<"dt", "5e-15">>, <<"nvtnh", "2">>,
                                <<"read", ".false.">>, <<"mbt", ".true.">>, <<"mbr", ".true.">>>>)
      [] calc = "hessian" ->
            Alike("md", "1")
            \o Settings("force", <<<<"vibsiz", "0.01">>, <<"temp", "298.15">>>>)
            \o Settings("cphf", <<<<"polar", ".true.">>>>)

GetXyz(s) == TakesXyz(s) \o <<SetParam("data", "atoms", Atoms(s))>>

SetPath(path) == <<>>

(* An item of --custom or a line of --custom-file; both cut at commas.  A  *)
(* path without a group is read past its end.                              *)
Custom(item, file) ==
    IF item.group = "" THEN <<Fails("undefined")>>
    ELSE <<SetParam(item.group, item.key, item.rows[1])>>

Run(calc, doc) == <<ClearSteps, AppendStep("gamessus.inp"), JobRun>>

Text(step) ==
    LET doc == step.doc IN
    [at \in {p \in DOMAIN doc : p[1] # "job" /\ IsOn(doc, p)} |-> doc[at].rows]

(* --custom-file cannot be read into the classes Static and Opt, which     *)
(* Python does not know as a GamessUS.                                     *)
Commands(line) ==
    <<New(line.calc), Common(line, GetXyz(Crystal))>>
    \o When(line.calc \in {"static", "opt"} /\ line.file # <<>>, << <<Raises>> >>)
    \o [n \in DOMAIN line.file |-> Custom(line.file[n], TRUE)]
    \o [n \in DOMAIN line.custom |-> Custom(line.custom[n], FALSE)]
=============================================================================
