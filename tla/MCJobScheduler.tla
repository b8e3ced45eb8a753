-------------------------- MODULE MCJobScheduler --------------------------
(* Instances of JobScheduler for TLC: a calculator whose run() clears      *)
(* job.steps (PwScf) and one whose run() does not (Cp2k).                  *)
EXTENDS JobScheduler

MCClearing == {"pwscf"} \cap Proc
MCBlocks == [p \in Proc |-> 1]
MCXyzName == [p \in Proc |-> "structure.xyz"]

\* The structure files live outside of every working directory.
HomeElsewhere == [p \in Proc |-> NoDir]

\* The structure file of Cp2k lives in the working directory: it is the
\* result of an earlier relaxation.
HomeInside == [p \in Proc |-> IF p = "cp2k" THEN "work" ELSE NoDir]

\* Everybody runs in any directory, or each in a directory of its own.
UsesAll == [p \in Proc |-> Dir]
UsesOwn == [p \in Proc |-> IF p = "cp2k" THEN {"work"} ELSE {"work2"}]

\* Every choice of the help of --server.
CliServers == {"pbs", "llhpc", "yhbatch", "lsf_sz", "lsf_sustc", "cdcloud", "slurm"}
=============================================================================
