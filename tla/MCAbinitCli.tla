---------------------------- MODULE MCAbinitCli ----------------------------
(* Instances of AbinitCli for TLC, with the keywords of the source. *)
EXTENDS AbinitCli

MCTols == {"toldfe", "tolwfr", "toldff", "tolrff", "tolvrs"}
MCBasic == {"ecut", "occopt", "nstep", "diemac", "ixc"}
MCElectrons == MCBasic \cup {"iscf", "nband", "occ", "wtk", "prtden", "prtdos"}
MCIons == {"ionmov", "optcell", "ecutsm", "ntime", "tolmxde", "tolmxf", "dilatmx"}
MCDfpt == {"rfatpol", "rfddk", "rfelfd", "rfphon", "rfstrs", "rfdir", "rfmagn",
           "rfmeth", "asr", "dfpt_sciss"}
MCMisc == {"", "dtion", "mdtemp", "ngkpt", "kptopt", "getwfk", "nqpt", "qpt", "getddk",
           "getden", "kptbounds", "ndivk", "prtdosm"}

\* Two structures that share an element, and one with the elements of the
\* first.
MCStructures == {<<"O", "O", "Li">>, <<"O", "Ti">>, <<"Li", "O">>}

\* Every keyword group, datasets that some classes have and others have not.
Pairs == {<<"ecut", 0>>, <<"toldfe", 0>>, <<"optcell", 1>>, <<"getwfk", 2>>}
AllGroupsButDfpt == {<<>>} \cup {<<p>> : p \in Pairs} \cup {<<p, q>> : p, q \in Pairs}
=============================================================================
