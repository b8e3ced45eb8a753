---------------------------- MODULE OctopusInput ----------------------------
(***************************************************************************)
(* Octopus' inp file: parameters at <<"inp", key>> and blocks at           *)
(* <<"block", name>>; the classes of the calculations and the command's    *)
(* calls.                                                                  *)
(***************************************************************************)
EXTENDS Keywords

\* "md" is a choice of the command without a class
Calcs == {"static", "opt", "md", "band", "dos", "vib", "optical-casida", "optical-sternheimer"}
PathCalcs == {"band"}

Block(name) == <<"block", name>>
Mode(value) == SetParam("inp", "CalculationMode", <<value>>)

-----------------------------------------------------------------------------
Octopus ==
    Settings("inp", <<<<"CalculationMode", "gs">>, <<"ExtraStates", "1">>, <<"Radius", "2.5">>,
                      <<"Spacing", "0.2">>, <<"UnitsOutput", "eV_Angstrom">>>>)

OfClass(calc) ==
    CASE calc = "opt" -> <<Mode("go")>>
      [] calc = "dos" ->
            <<TurnOffIfSet(<<"inp", "Radius">>), Mode("gs"), SetCell(Block("Output"), "dos", 1, 1)>>
      [] OTHER -> <<>>

New(calc) == Octopus \o OfClass(calc)

GetXyz(s) ==
    TakesXyz(s)
    \o <<SetRow(Block("Species"), <<Elements>>, 1),
         SetRow(Block("LatticeVectors"), Cell(s), 1),
         SetCell(Block("LatticeParameters"), "1", 1, 1),
         SetCell(Block("LatticeParameters"), "1", 1, 2),
         SetCell(Block("LatticeParameters"), "1", 1, 3)>>
    \o SetRows(Block("Coordinates"), AtomRows(s))

(* set_kpath only keeps the path. *)
SetPath(path) ==
    <<SetParam("self", "kpath", <<>>)>>
    \o SetRows(<<"self", "kpath">>, [n \in DOMAIN path |-> <<path[n].label, path[n].link>>])

(* _set_kpath: the links in the first row, then a row a stop. *)
PathBlock(doc) ==
    IF ~ Has(doc, <<"self", "kpath">>) THEN <<Raises>>
    ELSE LET path == RowsAt(doc, <<"self", "kpath">>)
             block == Block("KPointsPath")
         IN  [n \in 1..(Len(path) - 1) |-> SetCell(block, path[n][2], 1, n)]
             \o [n \in DOMAIN path |-> SetRow(block, <<"at " \o path[n][1], "y", "z">>, n + 1)]

(* An item of --custom or a line of --custom-file: the former always hands *)
(* over a list.                                                            *)
Custom(item, file) ==
    IF item.table THEN SetRows(Block(item.key), item.rows)
    ELSE <<SetParam("inp", item.key, IF file THEN Uncut(item.rows[1]) ELSE item.rows[1])>>

-----------------------------------------------------------------------------
(* Runs: the modes one after the other in the same file inp. *)
BandRun(doc) ==
    <<TurnOffIfSet(<<"inp", "Radius">>), Mode("gs"), AppendStep("gs"),
      Mode("unocc"), SetParam("inp", "ExtraStates", <<"10">>),
      SetParam("inp", "ExtraStatesToConverge", <<"5">>)>>
    \o PathBlock(doc)
    \o <<TurnOff(Block("KPointsGrid")), AppendStep("unocc"), JobRun>>

VibModesRun ==
    <<Mode("gs"), AppendStep("gs"), Mode("vib_modes"), AppendStep("vib-modes"), JobRun>>

CasidaRun ==
    <<Mode("gs"), AppendStep("gs"), Mode("unocc"),
      SetParam("inp", "ExtraStates", <<"10">>), AppendStep("unocc"),
      Mode("casida"), AppendStep("casida"), JobRun>>

SternheimerRun ==
    <<Mode("gs"), AppendStep("gs"), Mode("em_resp"), AppendStep("em-resp"), JobRun>>

Run(calc, doc) ==
    CASE calc = "band" -> BandRun(doc)
      [] calc = "vib" -> VibModesRun
      [] calc = "optical-casida" -> CasidaRun
      [] calc = "optical-sternheimer" -> SternheimerRun
      [] OTHER -> <<ClearSteps, AppendStep("gs"), JobRun>>

(* A parameter prints its first word; a block prints as many rows and      *)
(* columns as the last call that touched it spoke of.                      *)
Printed(doc, at) ==
    IF at[1] = "inp" THEN <<<<FirstWord(doc, at)>>>>
    ELSE [i \in 1..doc[at].size[1] |-> [j \in 1..doc[at].size[2] |-> doc[at].rows[i][j]]]

Text(step) ==
    LET doc == step.doc IN
    [at \in {p \in DOMAIN doc : p[1] \in {"inp", "block"} /\ IsOn(doc, p)} |-> Printed(doc, at)]

Commands(line) ==
    <<IF line.calc = "md" THEN <<Raises>> ELSE New(line.calc)>>
    \o When(line.calc \in PathCalcs, <<PathCall(line, SetPath)>>)
    \o <<Common(line, GetXyz(Crystal))>>
    \o [n \in DOMAIN line.file |-> Custom(line.file[n], TRUE)]
    \o [n \in DOMAIN line.custom |-> Custom(line.custom[n], FALSE)]
=============================================================================
