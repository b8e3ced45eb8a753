--------------------------- MODULE ScriptHeaders ---------------------------
(***************************************************************************)
(* The headers of the scripts: what each scheduler is told, as pairs       *)
(* <<directive, word>>, from the parameters of the job at <<"job", key>>.  *)
(***************************************************************************)
EXTENDS Keywords

Schedulers == {"llhpc", "yh", "pbs", "bash", "lsf_sz", "lsf_sustc", "cdcloud", "slurm"}

(* The constructor of JobScheduler and the calculators' constructors set   *)
(* the defaults of one platform after the other; those for bash are PBS's. *)
(* The last to speak of a parameter wins.                                  *)
Defaults ==
    [partition |-> "normal", jobname |-> "running-job", nodes |-> "1", ntasks_per_node |-> "32",
     ppn |-> "32", np |-> "24", np_per_node |-> "12", queue |-> "medium",
     stdout |-> "slurm.out", stderr |-> "slurm.err"]

(* run_params[key] makes an empty parameter where there is none. *)
RunParam(doc, key) ==
    IF Has(doc, <<"job", key>>) THEN FirstWord(doc, <<"job", key>>)
    ELSE IF key \in DOMAIN Defaults THEN Defaults[key] ELSE ""

Directives(doc, pairs) == {<<pairs[n][1], RunParam(doc, pairs[n][2])>> : n \in DOMAIN pairs}

(* -n, the number of all tasks, is given the number of a node's. *)
Llhpc(doc) ==
    Directives(doc, <<<<"#SBATCH -p", "partition">>, <<"#SBATCH -N", "nodes">>,
                      <<"#SBATCH -n", "ntasks_per_node">>, <<"#SBATCH -J", "jobname">>,
                      <<"#SBATCH -o", "stdout">>, <<"#SBATCH -e", "stderr">>>>)

\* A mutant of Pbs.
PbsPpnOfDefaults(doc) ==
    Directives(doc, <<<<"#PBS -N", "jobname">>, <<"#PBS -l nodes=", "nodes">>>>)
    \cup {<<":ppn=", Defaults.ppn>>, <<"#PBS -q", RunParam(doc, "queue")>>}

Pbs(doc) ==
    Directives(doc, <<<<"#PBS -N", "jobname">>, <<"#PBS -l nodes=", "nodes">>, <<":ppn=", "ppn">>>>)
    \cup {<<"#PBS -q", queue>> : queue \in {RunParam(doc, "queue")} \ {""}}

Bash(doc) == {<<"CMD_HEAD=", RunParam(doc, "mpi")>>}

LsfSz(doc) ==
    Directives(doc, <<<<"APP_NAME=", "queue">>, <<"NP=", "np">>, <<"NP_PER_NODE=", "np_per_node">>>>)

(* The name's line begins with "$BSUB". *)
LsfSustc(doc) ==
    Directives(doc, <<<<"$BSUB -J", "jobname">>, <<"#BSUB -q", "queue">>, <<"#BSUB -n", "np">>,
                      <<"#BSUB -R span[ptile=", "np_per_node">>>>)

Cdcloud(doc) ==
    Directives(doc, <<<<"#SBATCH --partition=", "partition">>, <<"#SBATCH --nodes=", "nodes">>,
                      <<"#SBATCH --ntasks-per-node=", "ntasks_per_node">>,
                      <<"#SBATCH --job-name=", "jobname">>, <<"#SBATCH --output=", "stdout">>,
                      <<"#SBATCH --error=", "stderr">>>>)

(* A parameter nobody gave still has its line. *)
Slurm(doc) ==
    Cdcloud(doc)
    \cup Directives(doc, <<<<"#SBATCH --time=", "time">>, <<"#SBATCH --account=", "account">>,
                           <<"#SBATCH --constraint=", "constraint">>>>)

Header(scheduler, doc) ==
    CASE scheduler = "llhpc" -> Llhpc(doc)
      [] scheduler = "pbs" -> Pbs(doc)
      [] scheduler = "bash" -> Bash(doc)
      [] scheduler = "lsf_sz" -> LsfSz(doc)
      [] scheduler = "lsf_sustc" -> LsfSustc(doc)
      [] scheduler = "cdcloud" -> Cdcloud(doc)
      [] scheduler = "slurm" -> Slurm(doc)
      [] scheduler = "yh" -> {}
=============================================================================
