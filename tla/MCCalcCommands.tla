--------------------------- MODULE MCCalcCommands ---------------------------
(***************************************************************************)
(* Command lines and parameters of each calculator.                        *)
(***************************************************************************)
EXTENDS CalcCommands

MCPrograms ==
    {"qe", "siesta", "octopus", "elk", "nwchem", "vasp", "gamessus"} \cup Small!SmallPrograms

One(group, key, words) ==
    [group |-> group, key |-> key, option |-> "", rows |-> <<words>>, table |-> FALSE]

Table(key, option, rows) ==
    [group |-> "", key |-> key, option |-> option, rows |-> rows, table |-> TRUE]

Plus(task, key, words) ==
    [group |-> task, key |-> key, option |-> "", rows |-> <<words>>, table |-> TRUE]

(* For each calculator: a parameter its constructor or get_xyz sets too, a *)
(* table or a second parameter, and one that goes wrong.                   *)
MCItems(p) ==
    CASE p = "qe" ->
            {One("system", "ecutwfc", <<"60">>), One("", "nstep", <<"5">>),
             Table("k_points", "automatic", <<<<"4", "4", "4", "1", "1", "1">>>>),
             Table("k_points", "automatic", <<<<"4", "4", "4">>>>),
             One("ions", "ion_dynamics", <<"damp", "fast">>)}
      [] p = "siesta" ->
            {One("", "XC.Authors", <<"LDA", "CA">>),
             Table("kgrid", "", <<<<"4", "0", "0", "0">>, <<"0", "4", "0">>>>)}
      [] p = "octopus" ->
            {One("", "Radius", <<"3">>), One("", "ExtraStates", <<"4", "5">>),
             Table("KPointsGrid", "", <<<<"4", "4", "4">>, <<"1", "1", "1">>>>)}
      [] p = "elk" ->
            {One("", "ngridk", <<"4", "4", "4">>), One("wplot", "nwplot", <<"500">>),
             One("plot1d", "npp1d", <<"50">>)}
      [] p = "nwchem" ->
            {One("0", "task", <<"dft", "property">>), Plus("0", "dft", <<"xc", "b3lyp">>),
             Plus("1", "dft", <<"direct">>), One("", "charge", <<"1">>)}
      [] p = "vasp" ->
            {One("", "ENCUT", <<"400">>), One("", "LDIPOL", <<"T">>),
             One("", "MAGMOM", <<"1", "-1">>)}
      [] p = "gamessus" ->
            {One("contrl", "mult", <<"2">>), One("basis", "gbasis", <<"N31", "6">>),
             One("", "mult", <<"2">>)}
      [] OTHER -> {}

Stop(label, link) == [label |-> label, link |-> link]

MCPaths ==
    {<<Stop("G", "15"), Stop("X", "0"), Stop("M", "10"), Stop("R", "20"), Stop("Z", "0")>>,
     <<Stop("X", "8"), Stop("G", "0")>>}

LongPath == CHOOSE p \in MCPaths : Len(p) = 5

MCCrystals == <<"s1", "s2", "s3">>

(* The second file has more atoms than the others. *)
MCAtomsOf(s) == IF s \in {"s2", "i2"} THEN 2 ELSE 1

Job(partition, nodes, tasks) ==
    [auto_level |-> "3", server |-> partition \o "-server", partition |-> partition,
     nodes |-> nodes, ntasks_per_node |-> tasks, ppn |-> tasks, account |-> "me",
     time |-> "1:00:00", constraint |-> "avx", queue |-> "long", jobname |-> "mine"]

Line(calc, form, kpath, file, custom, images) ==
    [user |-> "command", calc |-> calc, form |-> form, kpath |-> kpath, file |-> file,
     custom |-> custom, job |-> Job("free", "2", "24"), dim |-> "2", images |-> images, mode |-> "1"]

(* Up to one parameter in the file and two on the line, in either order.   *)
Files(p) == {<<>>} \cup {<<item>> : item \in MCItems(p)}

Customs(p) ==
    {<<>>} \cup {<<item>> : item \in MCItems(p)}
    \cup {<<a, b>> : a \in MCItems(p), b \in MCItems(p)}

AllCalcs(p) ==
    CASE p = "octopus" -> Octopus!Calcs
      [] p \in Small!SmallPrograms -> Small!Calcs(p)
      [] OTHER -> Calcs(p)

KPaths(p, calc) == IF calc \in PathCalcs(p) THEN {<<>>} \cup MCPaths ELSE {<<>>}

MCLines(p) ==
    UNION {{Line(calc, form, <<>>, <<>>, <<>>, <<>>) : form \in {"none", "cif"}}
           \cup {Line(calc, "xyz", kpath, <<>>, <<>>, <<>>) : kpath \in KPaths(p, calc)}
           \cup {Line(calc, "xyz", IF calc \in PathCalcs(p) THEN LongPath ELSE <<>>, file, custom,
                      IF p = "nwchem" /\ calc = "neb" THEN <<"i1", "i2", "i3">> ELSE <<>>) :
                     file \in Files(p), custom \in Customs(p)} : calc \in AllCalcs(p)}

MCMaxCalls == 6
=============================================================================
